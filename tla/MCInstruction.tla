--------------------------- MODULE MCInstruction ---------------------------
(***************************************************************************)
(* Every mnemonic with a few triples of registers and the boundary values  *)
(* of its immediate, on registers of 4 bits with halves of 2.              *)
(***************************************************************************)
EXTENDS OneInstructionCorrect

\* x0 as a destination and as a source, the same register twice, all bits set
Triples == {<<31, 1, 2>>, <<0, 31, 31>>, <<10, 0, 21>>}

\* the two ends of each range, the neighbours of zero, single bits of each field
Samples(n) ==
  {i \in {-1048576, -524289, -524288, -4096, -2048, -2047, -1026, -4, -2, -1, 0, 1, 2, 4, 16, 31, 32, 1024, 1365, 2047,
            2048, 4092, 4094, 4096, 32768, 524288, 699050, 1048574, 1048575} : ImmInRange(n, i)}

Unit(n, t, i, c) == [op |-> n, rd |-> t[1], rs1 |-> t[2], rs2 |-> t[3], rs3 |-> t[1],
                     imm |-> i, csr |-> c, rm |-> t[1] % 8]

\* the CSR numbers of fflags and fcsr, and one with its highest bits set
Csrs(n) == IF n \in CSRRInstructions \cup CSRIInstructions THEN {1, 3, 3072} ELSE {0}

\* every immediate with the first triple, every triple with one immediate
MCUnits ==
  UNION {{Unit(n, <<31, 1, 2>>, i, c) : i \in Samples(n), c \in Csrs(n)} \cup
         {Unit(n, t, 0, c) : t \in Triples, c \in Csrs(n)} : n \in MachineInstructions}

MCContents == Value \X Value
=============================================================================
