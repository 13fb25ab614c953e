------------------------------- MODULE Memory -------------------------------
(***************************************************************************)
(* Memory (main_memory.cpp) behind MemoryController: a map of blocks that  *)
(* are created, filled with zeros, when one of their bytes is written.  An *)
(* access of several bytes may cross from one block into the next, and is  *)
(* refused with an exception unless all of its bytes are in the memory.    *)
(* Values are bytes here; the shifts that put them together are with the   *)
(* machine.                                                                *)
(***************************************************************************)
EXTENDS Naturals

CONSTANTS
  Byte,          \* uint8_t
  BlockSize,     \* block_size_
  MemorySize     \* memory_size_

ASSUME MemoryAssumption ==
  /\ 0 \in Byte
  /\ BlockSize \in Nat \ {0}
  /\ MemorySize \in Nat

Offset == 0..BlockSize - 1
EmptyBlock == [o \in Offset |-> 0]

GetBlockIndex(a) == a \div BlockSize
GetBlockOffset(a) == a % BlockSize

\* blocks_: what Reset leaves, and what it may become
NoBlocks == [i \in {} |-> EmptyBlock]
IsMemory(m) ==
  \A i \in DOMAIN m : i \in Nat /\ i * BlockSize < MemorySize /\ m[i] \in [Offset -> Byte]

Block(m, i) == IF i \in DOMAIN m THEN m[i] ELSE EmptyBlock

Read(m, a) == Block(m, GetBlockIndex(a))[GetBlockOffset(a)]

\* a mistake the properties are tested with: only the first byte is looked at, as by ReadByte
InRange_First(a, n) == a < MemorySize

\* ReadHalfWord, ReadWord, ReadDoubleWord and their counterparts throw outside of this
InRange(a, n) == a + (n - 1) < MemorySize

\* the n bytes from address a on
ReadGeneric(m, a, n) == [k \in 0..n - 1 |-> Read(m, a + k)]

\* the bytes b from address a on, in as many blocks as they touch
WriteGeneric(m, a, b) ==
  LET touched == {GetBlockIndex(a + k) : k \in DOMAIN b} IN
  [i \in DOMAIN m \cup touched |->
     [o \in Offset |->
        LET here == {k \in DOMAIN b : GetBlockIndex(a + k) = i /\ GetBlockOffset(a + k) = o}
        IN  IF here = {} THEN Block(m, i)[o] ELSE b[CHOOSE k \in here : TRUE]]]

\* what a reader can tell of the memory: not which blocks there are
Flat(m) == [a \in 0..MemorySize - 1 |-> Read(m, a)]
=============================================================================
