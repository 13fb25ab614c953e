--------------------------- MODULE MCSingleDebug ----------------------------
(***************************************************************************)
(* A machine with bytes of one bit and words of two bytes: three bytes of  *)
(* memory in blocks of two, so that a word may lie across two blocks, and  *)
(* partly or wholly outside of the memory.  A double is a word, a float a  *)
(* byte.                                                                   *)
(***************************************************************************)
EXTENDS SingleUndo

MCByte == 0..1
MCWord == 0..3
MCRegNum == 0..2
MCCsrNum == {1, 3}
MCInitGpr == [r \in MCRegNum |-> IF r = 0 THEN 0 ELSE 1]

MCByteOf(v, k) == (v \div 2^k) % 2
MCJoin(b) == IF DOMAIN b = {0} THEN b[0] ELSE b[0] + 2 * b[1]
MCExtend(i, v) == IF i.size = 1 THEN 3 * (v % 2) ELSE v
MCLow(v) == v % 2
MCNanBox(v) == 2 + (v % 2)
MCOr(a, b) == MCJoin([k \in 0..1 |-> IF MCByteOf(a, k) + MCByteOf(b, k) > 0 THEN 1 ELSE 0])
MCAndNot(a, b) == MCJoin([k \in 0..1 |-> IF MCByteOf(a, k) > MCByteOf(b, k) THEN 1 ELSE 0])
MCAlu(i, a, b) == (a + b + i.imm) % 4
MCFAlu(i, a, b) == (a + b + 1) % 4
MCFFlags(i, a, b) == IF a = b THEN 1 ELSE 2
MCTaken(i, a, b) == a = b
MCJumpTarget(v) == v
MCPcWord(n) == n % 4

\* the data section: one byte, in the second block
MCLoadedMem(p) == [b \in {1} |-> [o \in 0..1 |-> 1 - o]]

I(op, size, rd, rs1, rs2, imm) ==
  [op |-> op, size |-> size, rd |-> rd, rs1 |-> rs1, rs2 |-> rs2, imm |-> imm,
   csr |-> 3, target |-> 0, funct3 |-> "CSRRSI"]

MCInstrs ==
  { I("ALU", 1, 1, 1, 2, 0), I("ALU", 1, 0, 1, 2, 1), I("AUIPC", 1, 2, 0, 0, 1),
    I("JAL", 1, 1, 0, 0, 0), I("JALR", 1, 2, 1, 0, 3), [I("BRANCH", 1, 0, 1, 2, 0) EXCEPT !.target = 2],
    I("LOAD", 2, 1, 1, 0, 0), I("LOAD", 1, 2, 2, 0, 1), I("STORE", 2, 0, 1, 2, 0),
    I("STORE", 1, 0, 2, 1, 1), I("STORE", 2, 0, 2, 1, 1), I("FLOAD", 1, 1, 2, 0, 0),
    I("FLOAD", 2, 2, 1, 0, 0), I("FSTORE", 2, 0, 1, 1, 0), I("FOP", 1, 1, 1, 2, 0),
    I("FFROMGPR", 2, 2, 1, 1, 0), I("FTOGPR", 2, 1, 2, 1, 0),
    I("CSR", 1, 1, 2, 0, 0), [I("CSR", 1, 2, 1, 0, 0) EXCEPT !.funct3 = "CSRRW"],
    [I("CSR", 1, 0, 1, 0, 0) EXCEPT !.funct3 = "CSRRC"],
    I("ECALL", 1, 0, 0, 0, 0), NoInstr }

\* every pair of instructions, with a store across two blocks before or behind them
Across == I("STORE", 2, 0, 1, 2, 0)
MCPrograms ==
  {<<i, j>> : i, j \in MCInstrs} \union {<<i, Across, i>> : i \in MCInstrs}

\* one that stores across two blocks and then sets fcsr
MCLaterPrograms == {<<Across, I("FOP", 1, 1, 1, 2, 0)>>}

\* for the properties the code does not have
PairsOf(ops) == {<<i, j>> : i, j \in {k \in MCInstrs : k.op \in ops}}
DifferPrograms == PairsOf({"CSR", "ALU", "FOP"}) \union PairsOf({"LOAD", "ALU"})
=============================================================================
