---------------------------- MODULE SingleProofs ----------------------------
(***************************************************************************)
(* Proofs about the debugger of the single-cycle machine, for any sizes of *)
(* the memory, its blocks, the registers and the program, any arithmetic   *)
(* and any number of steps.                                                *)
(***************************************************************************)
EXTENDS SingleUndo, TLAPS

----------------------------------------------------------------------------
(* The memory *)

LEMMA BlockAndOffset ==
  ASSUME NEW x \in Nat
  PROVE  /\ GetBlockIndex(x) \in Nat /\ GetBlockOffset(x) \in Offset
         /\ x = GetBlockIndex(x) * BlockSize + GetBlockOffset(x)
BY MemoryAssumption, SMT DEF GetBlockIndex, GetBlockOffset, Offset

\* two addresses in the same place of the same block are one
LEMMA OnePlace ==
  ASSUME NEW x \in Nat, NEW y \in Nat,
         GetBlockIndex(x) = GetBlockIndex(y), GetBlockOffset(x) = GetBlockOffset(y)
  PROVE  x = y
BY BlockAndOffset, SMT

LEMMA EmptyBlockType == EmptyBlock \in [Offset -> Byte]
BY MemoryAssumption DEF EmptyBlock

LEMMA BlockType ==
  ASSUME NEW m, IsMemory(m), NEW i
  PROVE  Block(m, i) \in [Offset -> Byte]
BY EmptyBlockType DEF Block, IsMemory

LEMMA ReadType ==
  ASSUME NEW m, IsMemory(m), NEW x \in Nat
  PROVE  Read(m, x) \in Byte
BY BlockType, BlockAndOffset DEF Read

LEMMA ReadGenericType ==
  ASSUME NEW m, IsMemory(m), NEW a \in Nat, NEW n \in Nat
  PROVE  ReadGeneric(m, a, n) \in [0..n - 1 -> Byte]
BY ReadType, SMT DEF ReadGeneric

\* a byte is read where it was written, across the blocks, and the others stay
LEMMA ReadWritten ==
  ASSUME NEW m, IsMemory(m), NEW a \in Nat, NEW D \in SUBSET Nat, NEW b \in [D -> Byte],
         \A k \in D : a + k < MemorySize
  PROVE  /\ IsMemory(WriteGeneric(m, a, b))
         /\ \A x \in Nat : Read(WriteGeneric(m, a, b), x)
                             = IF x - a \in D THEN b[x - a] ELSE Read(m, x)
<1> DEFINE touched == {GetBlockIndex(a + k) : k \in D}
           here(i, o) == {k \in D : GetBlockIndex(a + k) = i /\ GetBlockOffset(a + k) = o}
           Byte2(i, o) == IF here(i, o) = {} THEN Block(m, i)[o]
                          ELSE b[CHOOSE k \in here(i, o) : TRUE]
           w == [i \in DOMAIN m \cup touched |-> [o \in Offset |-> Byte2(i, o)]]
<1>1. WriteGeneric(m, a, b) = w
  BY DEF WriteGeneric
<1>2. \A i : \A o \in Offset : Byte2(i, o) \in Byte
  BY BlockType
<1>3. ASSUME NEW i \in touched PROVE i \in Nat /\ i * BlockSize < MemorySize
  <2>1. PICK k \in D : i = GetBlockIndex(a + k)
    OBVIOUS
  <2>2. a + k \in Nat /\ a + k < MemorySize
    BY SMT
  <2>3. i \in Nat /\ a + k = i * BlockSize + GetBlockOffset(a + k) /\ GetBlockOffset(a + k) \in Offset
    BY <2>1, <2>2, BlockAndOffset
  <2>. QED
    BY <2>2, <2>3, MemoryAssumption, SMT DEF Offset
<1>4. IsMemory(w)
  BY <1>2, <1>3 DEF IsMemory
<1>5. ASSUME NEW x \in Nat
      PROVE  Read(w, x) = IF x - a \in D THEN b[x - a] ELSE Read(m, x)
  <2> DEFINE i == GetBlockIndex(x)
             o == GetBlockOffset(x)
  <2>1. i \in Nat /\ o \in Offset
    BY BlockAndOffset
  <2>2. \A k \in here(i, o) : k = x - a
    BY OnePlace, SMT
  <2>3. CASE x - a \in D
    <3>1. a + (x - a) = x
      BY SMT
    <3>2. x - a \in here(i, o) /\ i \in touched
      BY <2>3, <3>1
    <3>3. (CHOOSE k \in here(i, o) : TRUE) = x - a
      BY <2>2, <3>2
    <3>. QED
      BY <2>1, <2>3, <3>2, <3>3 DEF Read, Block
  <2>4. CASE x - a \notin D
    <3>1. here(i, o) = {}
      BY <2>2, <2>4
    <3>. QED
      BY <2>1, <2>4, <3>1 DEF Read, Block
  <2>. QED
    BY <2>3, <2>4
<1>. QED
  BY <1>1, <1>4, <1>5

----------------------------------------------------------------------------
(* Types *)

LEMMA WordModulo ==
  ASSUME NEW a \in Nat
  PROVE  a % AddressSpace \in Word
BY DebugConstants, SMT DEF Word

LEMMA RegisterTypes ==
  ASSUME DebugTypeOK, NEW r \in RegNum
  PROVE  /\ ReadGpr(r) \in Word
         /\ \A v \in Word :
              /\ WriteGpr(r, v) \in [RegNum -> Word] /\ WriteGpr(r, v)[0] = 0
              /\ isa = "RV32" => \A q \in RegNum : Low(WriteGpr(r, v)[q]) = WriteGpr(r, v)[q]
<1>1. 0 \in Word
  BY DebugConstants
<1>. QED
  BY <1>1, DebugConstants, DebugUnits DEF DebugTypeOK, ReadGpr, WriteGpr

\* what OnStop leaves changes nothing; another instruction is one of the program
LEMMA CurrentType ==
  ASSUME DebugTypeOK, pc < Len(prog)
  PROVE  /\ Current \in Instr
         /\ Current.op # "OTHER" => /\ Current \in InstrSet
                                    /\ PcWord(pc) \in Word /\ PcWord(pc + 1) \in Word
<1>1. pc \in Nat /\ pc + 1 \in 1..Len(prog) /\ prog \in Seq(Instr)
  BY SMT DEF DebugTypeOK
<1>2. Current \in Instr
  BY <1>1 DEF Current
<1>3. CASE prog = program
  <2>1. program \in Programs /\ program \in Seq(InstrSet)
    BY DebugConstants DEF DebugTypeOK
  <2>2. Current \in InstrSet
    BY <1>1, <1>3, <2>1 DEF Current
  <2>3. pc \in 0..Len(program) /\ pc + 1 \in 0..Len(program)
    BY <1>1, <1>3, SMT
  <2>. QED
    BY <1>2, <2>1, <2>2, <2>3, DebugUnits
<1>4. CASE prog = [k \in 1..Len(prog) |-> NoInstr]
  <2>1. Current = NoInstr
    BY <1>1, <1>4 DEF Current
  <2>. QED
    BY <1>2, <2>1 DEF NoInstr
<1>. QED
  BY <1>3, <1>4 DEF DebugTypeOK

LEMMA AddressType ==
  ASSUME DebugTypeOK, NEW i \in Instr
  PROVE  Address(i) \in Word /\ Address(i) \in Nat
<1>1. ReadGpr(i.rs1) \in Word /\ i.imm \in Word
  BY RegisterTypes DEF Instr
<1>2. ReadGpr(i.rs1) + i.imm \in Nat
  BY <1>1, DebugConstants, SMT DEF Word
<1>3. Address(i) \in Word
  BY <1>2, WordModulo DEF Address
<1>. QED
  BY <1>3, DebugConstants, SMT DEF Word

LEMMA MemoryResultType ==
  ASSUME DebugTypeOK, NEW i \in Instr, i.op # "OTHER" => i \in InstrSet
  PROVE  MemoryResult(i) \in Word
<1>1. memory_result \in Word /\ IsMemory(mem)
  BY DEF DebugTypeOK
<1>2. i.size \in 1..DoubleSize /\ i.size \in Nat
  BY DebugConstants, SMT DEF Instr
<1>3. Loaded(i) \in Word
  BY <1>1, <1>2, AddressType, ReadGenericType, DebugUnits DEF Loaded
<1>4. NanBox(Loaded(i)) \in Word
  BY <1>3, DebugUnits
<1>5. i.op = "LOAD" => Extend(i, Loaded(i)) \in Word
  BY <1>3, DebugUnits
<1>. QED
  BY <1>1, <1>3, <1>4, <1>5 DEF MemoryResult

LEMMA ResultTypes ==
  ASSUME DebugTypeOK, pc < Len(prog)
  PROVE  /\ WritesGpr(Current) \/ Current.op = "CSR" => GprResult(Current) \in Word
         /\ WritesFpr(Current) => FprResult(Current) \in Word
         /\ WritesCsr(Current) => CsrResult(Current) \in Word
         /\ Executes(Current) => FFlags(Current, FpOperand(Current), fpr[Current.rs2]) \in Word
         /\ NextPc(Current) \in Nat
<1> DEFINE i == Current
<1>1. i \in Instr /\ (i.op # "OTHER" => i \in InstrSet /\ PcWord(pc) \in Word /\ PcWord(pc + 1) \in Word)
  BY CurrentType
<1>2. /\ i.rd \in RegNum /\ i.rs1 \in RegNum /\ i.rs2 \in RegNum /\ i.imm \in Word
      /\ i.csr \in CsrNum /\ i.target \in Nat
  BY <1>1 DEF Instr
<1>3. ReadGpr(i.rs1) \in Word /\ ReadGpr(i.rs2) \in Word /\ Address(i) \in Word
  BY <1>1, <1>2, RegisterTypes, AddressType
<1>4. MemoryResult(i) \in Word
  BY <1>1, MemoryResultType
<1>5. fpr[i.rs1] \in Word /\ fpr[i.rs2] \in Word /\ csr[i.csr] \in Word /\ pc \in Nat
  BY <1>2 DEF DebugTypeOK
<1>6. FpOperand(i) \in Word
  BY <1>3, <1>5 DEF FpOperand
<1>7. i.op # "OTHER" => FpResult(i) \in Word
  BY <1>1, <1>5, <1>6, DebugUnits DEF FpResult
<1>8. i.op # "OTHER" => (PcWord(pc) + i.imm) % AddressSpace \in Word
  <2>1. i.op # "OTHER" => PcWord(pc) + i.imm \in Nat
    BY <1>1, <1>2, DebugConstants, SMT DEF Word
  <2>. QED
    BY <2>1, WordModulo
<1>9. WritesGpr(i) \/ i.op = "CSR" => GprResult(i) \in Word
  <2>1. WritesGpr(i) \/ i.op = "CSR" => i.op # "OTHER"
    BY DEF WritesGpr
  <2>2. i.op # "OTHER" => Alu(i, ReadGpr(i.rs1), ReadGpr(i.rs2)) \in Word
    BY <1>1, <1>3, DebugUnits
  <2>. QED
    BY <1>1, <1>4, <1>5, <1>7, <1>8, <2>1, <2>2 DEF GprResult
<1>10. WritesFpr(i) => FprResult(i) \in Word
  <2>1. WritesFpr(i) => i.op # "OTHER"
    BY DEF WritesFpr
  <2>. QED
    BY <1>4, <1>7, <2>1, DebugUnits DEF FprResult
<1>11. WritesCsr(i) => CsrResult(i) \in Word
  <2>1. CsrOperand(i) \in Word
    BY <1>2, <1>3, DebugConstants DEF CsrOperand
  <2>. QED
    BY <1>5, <2>1, DebugUnits DEF CsrResult
<1>12. Executes(i) => FFlags(i, FpOperand(i), fpr[i.rs2]) \in Word
  <2>1. Executes(i) => i.op # "OTHER"
    BY DEF Executes
  <2>. QED
    BY <1>1, <1>5, <1>6, <2>1, DebugUnits
<1>13. NextPc(i) \in Nat
  <2>1. JumpTarget(Address(i)) \in Nat
    BY <1>3, DebugUnits
  <2>. QED
    BY <1>2, <1>5, <2>1, SMT DEF NextPc
<1>. QED
  BY <1>9, <1>10, <1>11, <1>12, <1>13

LEMMA StoreBytesType ==
  ASSUME DebugTypeOK, NEW i \in Instr
  PROVE  StoreBytes(i) \in [0..i.size - 1 -> Byte]
<1>1. ReadGpr(i.rs2) \in Word /\ fpr[i.rs2] \in Word
  BY RegisterTypes DEF Instr, DebugTypeOK
<1>2. i.size \in 1..DoubleSize /\ DoubleSize \in Nat
  BY DebugConstants DEF Instr
<1>3. \A v \in Word : \A k \in 0..i.size - 1 : ByteOf(v, k) \in Byte
  <2>1. \A k \in 0..i.size - 1 : k \in 0..DoubleSize - 1
    BY <1>2, SMT
  <2>. QED
    BY <2>1, DebugUnits
<1>. QED
  BY <1>1, <1>3 DEF StoreBytes

\* the bytes a store is about to overwrite
LEMMA StoredRange ==
  ASSUME DebugTypeOK, NEW i \in Instr, Stores(i), ~Throws(i)
  PROVE  /\ i.size \in Nat /\ i.size \in 0..DoubleSize
         /\ \A k \in 0..i.size - 1 : Address(i) + k < MemorySize
<1>1. i.size \in 1..DoubleSize /\ DoubleSize \in Nat
  BY DebugConstants DEF Instr
<1>2. InRange(Address(i), i.size)
  BY DEF Stores, Throws, Accesses
<1>. QED
  BY <1>1, <1>2, AddressType, MemoryAssumption, SMT DEF InRange

LEMMA DeltaType ==
  ASSUME DebugTypeOK, pc < Len(prog), ~Throws(Current)
  PROVE  /\ RegisterChange(Current) \in RegisterChanges
         /\ MemoryChange(Current) \in MemoryChanges
         /\ \A o \in DOMAIN MemoryChange(Current).old_bytes :
              MemoryChange(Current).address + o < MemorySize
<1> DEFINE i == Current
<1>1. i \in Instr /\ i.rd \in RegNum /\ i.csr \in CsrNum
  BY CurrentType DEF Instr
<1>2. ReadGpr(i.rd) \in Word /\ fpr[i.rd] \in Word /\ csr[i.csr] \in Word
  BY <1>1, RegisterTypes DEF DebugTypeOK
<1>3. RegisterChange(i) \in RegisterChanges
  BY <1>1, <1>2 DEF RegisterChange, RegisterChanges
<1>4. CASE Stores(i)
  <2>1. i.size \in Nat /\ i.size \in 0..DoubleSize /\ Address(i) \in Word /\ Address(i) \in Nat
    BY <1>1, <1>4, StoredRange, AddressType
  <2>2. ReadGeneric(mem, Address(i), i.size) \in [0..i.size - 1 -> Byte]
    BY <2>1, ReadGenericType DEF DebugTypeOK
  <2>3. MemoryChange(i) = [address |-> Address(i),
                           old_bytes |-> ReadGeneric(mem, Address(i), i.size)]
    BY <1>4 DEF MemoryChange
  <2>4. MemoryChange(i) \in MemoryChanges
    BY <2>1, <2>2, <2>3 DEF MemoryChanges
  <2>5. DOMAIN MemoryChange(i).old_bytes = 0..i.size - 1
    BY <2>2, <2>3
  <2>. QED
    BY <1>1, <1>3, <1>4, <2>3, <2>4, <2>5, StoredRange
<1>5. CASE ~Stores(i)
  <2>1. MemoryChange(i) = NoStore
    BY <1>5 DEF MemoryChange
  <2>2. [k \in {} |-> 0] \in [0..0 - 1 -> Byte]
    <3>1. 0..0 - 1 = {}
      BY SMT
    <3>. QED
      BY <3>1
  <2>3. 0 \in Word /\ 0 \in 0..DoubleSize
    BY DebugConstants, SMT DEF Word
  <2>4. NoStore \in MemoryChanges
    BY <2>2, <2>3 DEF NoStore, MemoryChanges
  <2>. QED
    BY <1>3, <2>1, <2>4 DEF NoStore
<1>. QED
  BY <1>4, <1>5

LEMMA MachineType ==
  ASSUME DebugTypeOK
  PROVE  Machine \in Machines
<1>1. Flat(mem) \in [0..MemorySize - 1 -> Byte]
  BY ReadType, MemoryAssumption, SMT DEF Flat, DebugTypeOK
<1>2. retired \in Nat
  BY DEF DebugTypeOK
<1>. QED
  BY <1>1, <1>2 DEF Machine, Machines, DebugTypeOK

LEMMA MachineTypeNext ==
  ASSUME DebugTypeOK'
  PROVE  Machine' \in Machines
<1>1. Flat(mem') \in [0..MemorySize - 1 -> Byte]
  BY ReadType, MemoryAssumption, SMT DEF Flat, DebugTypeOK
<1>2. retired' \in Nat
  BY DEF DebugTypeOK
<1>3. Flat(mem)' = Flat(mem')
  BY DEF Flat
<1>. QED
  BY <1>1, <1>2, <1>3 DEF Machine, Machines, DebugTypeOK

----------------------------------------------------------------------------
(* One step for each action *)

LEMMA InitType == UndoInit => DebugTypeOK
<1> SUFFICES ASSUME UndoInit PROVE DebugTypeOK
  OBVIOUS
<1>1. program \in Programs /\ prog = program /\ program \in Seq(InstrSet)
  BY DebugConstants DEF UndoInit, DebugInit
<1>2. prog \in Seq(Instr)
  BY <1>1, DebugConstants
<1>3. 0 \in Word
  BY DebugConstants
<1>4. IsMemory(mem)
  BY DebugConstants DEF UndoInit, DebugInit
<1>. QED
  BY <1>1, <1>2, <1>3, <1>4, DebugConstants DEF UndoInit, DebugInit, DebugTypeOK

LEMMA StepType == DebugTypeOK /\ UndoStep => DebugTypeOK'
<1> SUFFICES ASSUME DebugTypeOK, UndoStep PROVE DebugTypeOK'
  OBVIOUS
<1> DEFINE i == Current
<1>1. pc < Len(prog) /\ ~Throws(i)
  BY DEF UndoStep, Step
<1>2. i \in Instr /\ i.rd \in RegNum /\ i.csr \in CsrNum
  BY <1>1, CurrentType DEF Instr
<1>3. UNCHANGED <<prog, program, isa>>
  BY DEF UndoStep, Step
<1>4. pc' \in Nat
  BY <1>1, ResultTypes DEF UndoStep, Step
<1>5. /\ gpr' \in [RegNum -> Word] /\ gpr'[0] = 0
      /\ isa = "RV32" => \A r \in RegNum : Low(gpr'[r]) = gpr'[r]
  <2>1. CASE WritesGpr(i) \/ i.op = "CSR"
    <3>1. gpr' = WriteGpr(i.rd, GprResult(i)) /\ GprResult(i) \in Word
      BY <1>1, <2>1, ResultTypes DEF UndoStep, Step
    <3>. QED
      BY <1>2, <3>1, RegisterTypes
  <2>2. CASE ~(WritesGpr(i) \/ i.op = "CSR")
    BY <2>2 DEF UndoStep, Step, DebugTypeOK
  <2>. QED
    BY <2>1, <2>2
<1>6. fpr' \in [RegNum -> Word]
  <2>1. CASE WritesFpr(i)
    BY <1>1, <1>2, <2>1, ResultTypes DEF UndoStep, Step, DebugTypeOK
  <2>2. CASE ~WritesFpr(i)
    BY <2>2 DEF UndoStep, Step, DebugTypeOK
  <2>. QED
    BY <2>1, <2>2
<1>7. csr' \in [CsrNum -> Word]
  <2>1. CASE Executes(i)
    BY <1>1, <2>1, ResultTypes DEF UndoStep, Step, DebugTypeOK
  <2>2. CASE ~Executes(i) /\ WritesCsr(i)
    BY <1>1, <1>2, <2>2, ResultTypes DEF UndoStep, Step, DebugTypeOK
  <2>3. CASE ~Executes(i) /\ ~WritesCsr(i)
    BY <2>3 DEF UndoStep, Step, DebugTypeOK
  <2>. QED
    BY <2>1, <2>2, <2>3
<1>8. IsMemory(mem')
  <2>1. CASE Stores(i)
    <3>1. mem' = WriteGeneric(mem, Address(i), StoreBytes(i))
      BY <2>1 DEF UndoStep, Step
    <3>2. Address(i) \in Nat /\ 0..i.size - 1 \in SUBSET Nat
      BY <1>1, <1>2, <2>1, AddressType, StoredRange, SMT
    <3>3. IsMemory(mem) /\ \A k \in 0..i.size - 1 : Address(i) + k < MemorySize
      BY <1>1, <1>2, <2>1, StoredRange DEF DebugTypeOK
    <3>. QED
      BY <1>2, <3>1, <3>2, <3>3, StoreBytesType, ReadWritten
  <2>2. CASE ~Stores(i)
    BY <2>2 DEF UndoStep, Step, DebugTypeOK
  <2>. QED
    BY <2>1, <2>2
<1>9. memory_result' \in Word
  BY <1>1, <1>2, CurrentType, MemoryResultType DEF UndoStep, Step
<1>10. past' \in Seq(Machines) /\ Len(past') = Len(past) + 1
  BY MachineType DEF UndoStep, DebugTypeOK
<1> DEFINE d == [old_pc |-> pc, register_change |-> RegisterChange(i),
                 memory_change |-> MemoryChange(i)]
<1>11. undo_stack' = Append(undo_stack, d)
  BY DEF UndoStep, Step
<1>12. d \in Deltas
  BY <1>1, DeltaType DEF DebugTypeOK, Deltas
<1>13. undo_stack' \in Seq(Deltas) /\ Len(undo_stack') = Len(undo_stack) + 1
  BY <1>11, <1>12 DEF DebugTypeOK
<1>14. \A k \in 1..Len(undo_stack') :
         \A o \in DOMAIN undo_stack'[k].memory_change.old_bytes :
           undo_stack'[k].memory_change.address + o < MemorySize
  <2> TAKE k \in 1..Len(undo_stack')
  <2>1. CASE k \in 1..Len(undo_stack)
    <3>1. undo_stack'[k] = undo_stack[k]
      BY <1>11, <2>1 DEF DebugTypeOK
    <3>. QED
      BY <2>1, <3>1 DEF DebugTypeOK
  <2>2. CASE k = Len(undo_stack) + 1
    <3>1. undo_stack'[k] = d
      BY <1>11, <2>2 DEF DebugTypeOK
    <3>. QED
      BY <1>1, <3>1, DeltaType
  <2>. QED
    BY <1>13, <2>1, <2>2, SMT DEF DebugTypeOK
<1>15. retired' = Len(undo_stack') /\ Len(past') = Len(undo_stack')
  BY <1>10, <1>13 DEF UndoStep, Step, DebugTypeOK
<1>. QED
  BY <1>3, <1>4, <1>5, <1>6, <1>7, <1>8, <1>9, <1>10, <1>13, <1>14, <1>15
  DEF DebugTypeOK

LEMMA ThrowType == DebugTypeOK /\ StepThrows /\ UNCHANGED past => DebugTypeOK'
<1> SUFFICES ASSUME DebugTypeOK, StepThrows, UNCHANGED past PROVE DebugTypeOK'
  OBVIOUS
<1>1. pc' \in Nat
  BY SMT DEF DebugTypeOK, StepThrows
<1>. QED
  BY <1>1 DEF DebugTypeOK, StepThrows

\* the delta on top of the stack
LEMMA TopType ==
  ASSUME DebugTypeOK, undo_stack # <<>>
  PROVE  LET last == undo_stack[Len(undo_stack)]
             c == last.register_change
             d == last.memory_change
         IN  /\ Len(undo_stack) \in 1..Len(undo_stack) /\ Len(undo_stack) - 1 \in Nat
             /\ last \in Deltas
             /\ c.reg_type \in {"GPR", "FPR"} => c.reg_index \in RegNum /\ c.old_value \in Word
             /\ c.reg_type = "CSR" => c.reg_index \in CsrNum /\ c.old_value \in Word
             /\ d.address \in Nat /\ DOMAIN d.old_bytes \in SUBSET Nat
             /\ d.old_bytes \in [DOMAIN d.old_bytes -> Byte]
             /\ \A o \in DOMAIN d.old_bytes : d.address + o < MemorySize
<1> DEFINE last == undo_stack[Len(undo_stack)]
           c == last.register_change
           d == last.memory_change
<1>1. Len(undo_stack) \in 1..Len(undo_stack) /\ Len(undo_stack) - 1 \in Nat
  BY SMT DEF DebugTypeOK
<1>2. last \in Deltas
  BY <1>1 DEF DebugTypeOK
<1>3. c \in RegisterChanges /\ d \in MemoryChanges
  BY <1>2 DEF Deltas
<1>4. /\ c.reg_type \in {"GPR", "FPR"} => c.reg_index \in RegNum /\ c.old_value \in Word
      /\ c.reg_type = "CSR" => c.reg_index \in CsrNum /\ c.old_value \in Word
  BY <1>3 DEF RegisterChanges
<1>5. PICK n \in 0..DoubleSize : d.old_bytes \in [0..n - 1 -> Byte]
  BY <1>3 DEF MemoryChanges
<1>6. d.address \in Nat
  BY <1>3, DebugConstants, SMT DEF MemoryChanges, Word
<1>7. DOMAIN d.old_bytes = 0..n - 1 /\ 0..n - 1 \in SUBSET Nat
  BY <1>5, SMT
<1>. QED
  BY <1>1, <1>2, <1>4, <1>5, <1>6, <1>7 DEF DebugTypeOK

LEMMA UndoType == DebugTypeOK /\ Undo /\ past' = Pop(past) => DebugTypeOK'
<1> SUFFICES ASSUME DebugTypeOK, Undo, past' = Pop(past) PROVE DebugTypeOK'
  OBVIOUS
<1> DEFINE last == undo_stack[Len(undo_stack)]
           c == last.register_change
           d == last.memory_change
<1>1. undo_stack # <<>>
  BY DEF Undo
<1>2. /\ Len(undo_stack) \in 1..Len(undo_stack) /\ Len(undo_stack) - 1 \in Nat
      /\ last \in Deltas
      /\ c.reg_type \in {"GPR", "FPR"} => c.reg_index \in RegNum /\ c.old_value \in Word
      /\ c.reg_type = "CSR" => c.reg_index \in CsrNum /\ c.old_value \in Word
      /\ d.address \in Nat /\ DOMAIN d.old_bytes \in SUBSET Nat
      /\ d.old_bytes \in [DOMAIN d.old_bytes -> Byte]
      /\ \A o \in DOMAIN d.old_bytes : d.address + o < MemorySize
  BY <1>1, TopType
<1>3. /\ pc' = last.old_pc
      /\ gpr' = IF c.reg_type = "GPR" THEN WriteGpr(c.reg_index, c.old_value) ELSE gpr
      /\ fpr' = IF c.reg_type = "FPR" THEN [fpr EXCEPT ![c.reg_index] = c.old_value] ELSE fpr
      /\ csr' = IF c.reg_type = "CSR" THEN [csr EXCEPT ![c.reg_index] = c.old_value] ELSE csr
      /\ mem' = WriteGeneric(mem, d.address, d.old_bytes)
  BY DEF Undo
<1>4. UNCHANGED <<prog, program, isa, memory_result>>
  BY DEF Undo
<1>5. pc' \in Nat
  BY <1>2, <1>3 DEF Deltas
<1>6. /\ gpr' \in [RegNum -> Word] /\ gpr'[0] = 0
      /\ isa = "RV32" => \A r \in RegNum : Low(gpr'[r]) = gpr'[r]
  <2>1. CASE c.reg_type = "GPR"
    BY <1>2, <1>3, <2>1, RegisterTypes
  <2>2. CASE c.reg_type # "GPR"
    BY <1>3, <2>2 DEF DebugTypeOK
  <2>. QED
    BY <2>1, <2>2
<1>7. fpr' \in [RegNum -> Word]
  BY <1>2, <1>3 DEF DebugTypeOK
<1>8. csr' \in [CsrNum -> Word]
  BY <1>2, <1>3 DEF DebugTypeOK
<1>9. IsMemory(mem')
  BY <1>2, <1>3, ReadWritten DEF DebugTypeOK
<1>10. /\ undo_stack' = SubSeq(undo_stack, 1, Len(undo_stack) - 1)
       /\ undo_stack' \in Seq(Deltas)
       /\ Len(undo_stack') = Len(undo_stack) - 1
       /\ \A k \in 1..Len(undo_stack') : undo_stack'[k] = undo_stack[k]
  BY <1>2, SMT DEF Undo, DebugTypeOK
<1>11. \A k \in 1..Len(undo_stack') :
         \A o \in DOMAIN undo_stack'[k].memory_change.old_bytes :
           undo_stack'[k].memory_change.address + o < MemorySize
  <2>1. \A k \in 1..Len(undo_stack') : k \in 1..Len(undo_stack)
    BY <1>2, <1>10, SMT
  <2>. QED
    BY <1>10, <2>1 DEF DebugTypeOK
<1>12. past' \in Seq(Machines) /\ Len(past') = Len(past) - 1
  BY <1>2, SMT DEF Pop, DebugTypeOK
<1>13. retired' = Len(undo_stack') /\ Len(past') = Len(undo_stack')
  BY <1>10, <1>12 DEF Undo, DebugTypeOK
<1>. QED
  BY <1>4, <1>5, <1>6, <1>7, <1>8, <1>9, <1>10, <1>11, <1>12, <1>13 DEF DebugTypeOK

\* each of the buttons that reset the machine loads something
Restarts == OnAssemble \/ OnReset \/ OnStop \/ OnSelectIsa

LEMMA RestartLoads ==
  ASSUME DebugTypeOK, Restarts
  PROVE  /\ Reset
         /\ program' \in Programs /\ isa' \in {"RV32", "RV64"}
         /\ prog' \in Seq(Instr)
         /\ prog' = program' \/ prog' = [k \in 1..Len(prog') |-> NoInstr]
         /\ mem' = LoadedMem(program') \/ mem' = NoBlocks
<1>1. \A p \in Programs : p \in Seq(Instr)
  <2>1. \A p \in Programs : p \in Seq(InstrSet)
    BY DebugConstants
  <2>. QED
    BY <2>1, DebugConstants
<1>2. CASE OnAssemble
  <2>1. PICK p \in LaterPrograms : prog' = p /\ mem' = LoadedMem(p) /\ program' = p
    BY <1>2 DEF OnAssemble, LoadProgram
  <2>2. p \in Programs
    BY DebugConstants
  <2>. QED
    BY <1>1, <1>2, <2>1, <2>2 DEF OnAssemble, DebugTypeOK
<1>3. CASE OnReset
  BY <1>1, <1>3 DEF OnReset, LoadProgram, DebugTypeOK
<1>4. CASE OnSelectIsa
  BY <1>1, <1>4 DEF OnSelectIsa, LoadProgram, DebugTypeOK
<1>5. CASE OnStop
  <2>1. Len(prog) \in Nat /\ prog' = [k \in 1..Len(prog) |-> NoInstr]
    BY <1>5 DEF OnStop, DebugTypeOK
  <2>2. NoInstr \in Instr
    <3>1. 0 \in Word /\ 0 \in RegNum /\ Fcsr \in CsrNum /\ 1 \in 1..DoubleSize
      BY DebugConstants, SMT
    <3>. QED
      BY <3>1 DEF NoInstr, Instr, Ops, CsrFunct3
  <2>3. prog' \in Seq(Instr) /\ Len(prog') = Len(prog)
    BY <2>1, <2>2
  <2>. QED
    BY <1>5, <2>1, <2>3 DEF OnStop, DebugTypeOK
<1>. QED
  BY <1>2, <1>3, <1>4, <1>5 DEF Restarts

LEMMA RestartType == DebugTypeOK /\ Restarts /\ past' = <<>> => DebugTypeOK'
<1> SUFFICES ASSUME DebugTypeOK, Restarts, past' = <<>> PROVE DebugTypeOK'
  OBVIOUS
<1>1. 0 \in Word
  BY DebugConstants
<1>2. IsMemory(LoadedMem(program')) /\ IsMemory(NoBlocks)
  BY RestartLoads, DebugConstants DEF IsMemory, NoBlocks
<1>3. Reset
  BY RestartLoads
<1>4. /\ gpr' \in [RegNum -> Word] /\ gpr'[0] = 0
      /\ \A r \in RegNum : Low(gpr'[r]) = gpr'[r]
  BY <1>3, DebugConstants DEF Reset
<1>5. fpr' \in [RegNum -> Word] /\ csr' \in [CsrNum -> Word]
  BY <1>1, <1>3 DEF Reset
<1>6. pc' \in Nat /\ memory_result' \in Word /\ retired' = 0
  BY <1>1, <1>3 DEF Reset
<1>7. undo_stack' = <<>> /\ past' = <<>>
  BY <1>3 DEF Reset
<1>8. /\ undo_stack' \in Seq(Deltas) /\ past' \in Seq(Machines)
      /\ Len(undo_stack') = 0 /\ Len(past') = 0
  BY <1>7
<1>9. 1..Len(undo_stack') = {}
  BY <1>8, SMT
<1>. QED
  BY <1>2, <1>4, <1>5, <1>6, <1>8, <1>9, RestartLoads DEF DebugTypeOK

\* Every register, byte and delta keeps its type however the machine is stepped, undone,
\* reset and switched, no byte outside of the memory is touched, and one instruction is
\* counted for each delta that can be undone (RVSSVM::Step, Undo, Reset).
THEOREM TypeCorrect == UndoSpec => []DebugTypeOK
<1>1. UndoInit => DebugTypeOK
  BY InitType
<1>2. DebugTypeOK /\ [UndoNext]_undoVars => DebugTypeOK'
  <2> SUFFICES ASSUME DebugTypeOK, [UndoNext]_undoVars PROVE DebugTypeOK'
    OBVIOUS
  <2>1. CASE UndoStep
    BY <2>1, StepType
  <2>2. CASE StepThrows /\ UNCHANGED <<past, future>>
    BY <2>2, ThrowType
  <2>3. CASE Undo /\ past' = Pop(past) /\ future' = Append(future, Machine)
    BY <2>3, UndoType
  <2>4. CASE (OnAssemble \/ OnReset \/ OnStop \/ OnSelectIsa) /\ past' = <<>> /\ future' = <<>>
    BY <2>4, RestartType DEF Restarts
  <2>5. CASE UNCHANGED undoVars
    BY <2>5 DEF undoVars, debugVars, DebugTypeOK
  <2>. QED
    BY <2>1, <2>2, <2>3, <2>4, <2>5 DEF UndoNext
<1>. QED
  BY <1>1, <1>2, PTL DEF UndoSpec

----------------------------------------------------------------------------
(* Stepping back: each delta leads from the machine that is shown after it to the one *)
(* that was shown before it.                                                          *)

Restores(G, C, a, d, n, m) ==
  LET c == d.register_change
      b == d.memory_change
  IN  /\ m.program = n.program /\ m.pc = d.old_pc /\ n.retired = m.retired + 1
      /\ \A r \in G :
           m.gpr[r] = IF c.reg_type = "GPR" /\ c.reg_index = r /\ r # 0
                      THEN c.old_value ELSE n.gpr[r]
      /\ c.reg_type = "GPR" /\ a = "RV32" => Low(c.old_value) = c.old_value
      /\ \A r \in RegNum :
           m.fpr[r] = IF c.reg_type = "FPR" /\ c.reg_index = r THEN c.old_value ELSE n.fpr[r]
      /\ \A r \in C :
           m.csr[r] = IF c.reg_type = "CSR" /\ c.reg_index = r THEN c.old_value ELSE n.csr[r]
      /\ \A x \in 0..MemorySize - 1 :
           m.mem[x] = IF x - b.address \in DOMAIN b.old_bytes
                      THEN b.old_bytes[x - b.address] ELSE n.mem[x]

ShownAt(k) == IF k <= Len(past) THEN past[k] ELSE Machine

Chain == \A k \in 1..Len(past) : Restores(KeptGpr, KeptCsr, isa, undo_stack[k], ShownAt(k + 1), past[k])

\* the difference between two machines that Undo does not care about
SameKept(G, C, m, n) ==
  /\ m.program = n.program /\ m.retired = n.retired
  /\ \A r \in G : m.gpr[r] = n.gpr[r]
  /\ \A r \in RegNum : m.fpr[r] = n.fpr[r]
  /\ \A r \in C : m.csr[r] = n.csr[r]
  /\ \A x \in 0..MemorySize - 1 : m.mem[x] = n.mem[x]

LEMMA RestoresSame ==
  ASSUME NEW G, NEW C, NEW a, NEW d, NEW m, NEW n, NEW o,
         Restores(G, C, a, d, m, o), SameKept(G, C, m, n)
  PROVE  Restores(G, C, a, d, n, o)
BY DEF Restores, SameKept

LEMMA KeptEqual ==
  ASSUME NEW m \in Machines, NEW n \in Machines, SameKept(KeptGpr, KeptCsr, m, n), m.pc = n.pc
  PROVE  Kept(m) = Kept(n)
<1>1. /\ m.fpr \in [RegNum -> Word] /\ n.fpr \in [RegNum -> Word]
      /\ m.mem \in [0..MemorySize - 1 -> Byte] /\ n.mem \in [0..MemorySize - 1 -> Byte]
  BY DEF Machines
<1>2. m.fpr = n.fpr
  BY <1>1 DEF SameKept
<1>3. m.mem = n.mem
  <2> DEFINE A == 0..MemorySize - 1
  <2>1. \A x \in A : m.mem[x] = n.mem[x]
    BY DEF SameKept
  <2>2. m.mem \in [A -> Byte] /\ n.mem \in [A -> Byte]
    BY <1>1
  <2> HIDE DEF A
  <2>. QED
    BY <2>1, <2>2
<1>4. /\ [r \in KeptGpr |-> m.gpr[r]] = [r \in KeptGpr |-> n.gpr[r]]
      /\ [c \in KeptCsr |-> m.csr[c]] = [c \in KeptCsr |-> n.csr[c]]
  BY DEF SameKept
<1>. QED
  BY <1>2, <1>3, <1>4 DEF SameKept, Kept

\* Step records enough: the delta it pushes leads back
LEMMA StepRestores ==
  ASSUME DebugTypeOK, UndoStep
  PROVE  Restores(KeptGpr, KeptCsr, isa,
                  [old_pc |-> pc, register_change |-> RegisterChange(Current),
                   memory_change |-> MemoryChange(Current)], Machine', Machine)
<1> DEFINE i == Current
           c == RegisterChange(i)
           b == MemoryChange(i)
           d == [old_pc |-> pc, register_change |-> c, memory_change |-> b]
<1>1. pc < Len(prog) /\ ~Throws(i)
  BY DEF UndoStep, Step
<1>2. i \in Instr /\ i.rd \in RegNum /\ i.csr \in CsrNum
  BY <1>1, CurrentType DEF Instr
<1>3. /\ Machine = [program |-> program, pc |-> pc, gpr |-> gpr, fpr |-> fpr, csr |-> csr,
                    mem |-> Flat(mem), retired |-> retired]
      /\ Machine' = [program |-> program, pc |-> pc', gpr |-> gpr', fpr |-> fpr', csr |-> csr',
                     mem |-> Flat(mem'), retired |-> retired + 1]
  BY DEF Machine, UndoStep, Step, Flat
<1>4. \A r \in KeptGpr :
        gpr[r] = IF c.reg_type = "GPR" /\ c.reg_index = r /\ r # 0 THEN c.old_value ELSE gpr'[r]
  <2> SUFFICES ASSUME NEW r \in KeptGpr
               PROVE  gpr[r] = IF c.reg_type = "GPR" /\ c.reg_index = r /\ r # 0
                               THEN c.old_value ELSE gpr'[r]
    OBVIOUS
  <2>1. r \in RegNum
    BY DEF KeptGpr
  <2>2. CASE WritesGpr(i)
    <3>1. c = [reg_type |-> "GPR", reg_index |-> i.rd, old_value |-> ReadGpr(i.rd)]
      BY <2>2 DEF RegisterChange, WritesGpr, WritesFpr, WritesCsr
    <3>2. gpr' = WriteGpr(i.rd, GprResult(i))
      BY <2>2 DEF UndoStep, Step
    <3>3. CASE r = i.rd /\ r # 0
      BY <1>2, <2>1, <3>1, <3>3 DEF ReadGpr, DebugTypeOK
    <3>4. CASE ~(r = i.rd /\ r # 0)
      BY <1>2, <2>1, <3>1, <3>2, <3>4 DEF WriteGpr, DebugTypeOK
    <3>. QED
      BY <3>3, <3>4
  <2>3. CASE ~WritesGpr(i)
    <3>1. c.reg_type # "GPR"
      BY <2>3 DEF RegisterChange
    <3>2. gpr'[r] = gpr[r]
      <4>1. CASE i.op = "CSR"
        <5>1. pc + 1 \in 1..Len(prog)
          BY <1>1, SMT DEF DebugTypeOK
        <5>2. r # i.rd
          BY <4>1, <5>1 DEF KeptGpr, Current
        <5>. QED
          BY <1>2, <2>1, <4>1, <5>2 DEF UndoStep, Step, WriteGpr, DebugTypeOK
      <4>2. CASE i.op # "CSR"
        BY <2>3, <4>2 DEF UndoStep, Step
      <4>. QED
        BY <4>1, <4>2
    <3>. QED
      BY <3>1, <3>2
  <2>. QED
    BY <2>2, <2>3
<1>5. c.reg_type = "GPR" /\ isa = "RV32" => Low(c.old_value) = c.old_value
  <2>1. isa = "RV32" => Low(ReadGpr(i.rd)) = ReadGpr(i.rd)
    BY <1>2, DebugConstants, DebugUnits DEF ReadGpr, DebugTypeOK
  <2>. QED
    BY <2>1 DEF RegisterChange
<1>6. \A r \in RegNum :
        fpr[r] = IF c.reg_type = "FPR" /\ c.reg_index = r THEN c.old_value ELSE fpr'[r]
  <2>1. CASE WritesFpr(i)
    <3>1. ~WritesGpr(i) /\ ~WritesCsr(i)
      BY <2>1 DEF WritesFpr, WritesGpr, WritesCsr
    <3>2. c = [reg_type |-> "FPR", reg_index |-> i.rd, old_value |-> fpr[i.rd]]
      BY <2>1, <3>1 DEF RegisterChange
    <3>3. fpr' = [fpr EXCEPT ![i.rd] = FprResult(i)]
      BY <2>1 DEF UndoStep, Step
    <3>. QED
      BY <1>2, <3>2, <3>3 DEF DebugTypeOK
  <2>2. CASE ~WritesFpr(i)
    BY <2>2 DEF RegisterChange, UndoStep, Step
  <2>. QED
    BY <2>1, <2>2
<1>7. \A r \in KeptCsr :
        csr[r] = IF c.reg_type = "CSR" /\ c.reg_index = r THEN c.old_value ELSE csr'[r]
  <2>1. KeptCsr \subseteq CsrNum
    BY DEF KeptCsr
  <2>2. CASE Executes(i)
    <3>1. pc + 1 \in 1..Len(prog)
      BY <1>1, SMT DEF DebugTypeOK
    <3>2. Fcsr \notin KeptCsr
      BY <2>2, <3>1 DEF KeptCsr, Occurs, Current, Executes, FloatOps
    <3>3. c.reg_type # "CSR"
      BY <2>2 DEF Executes, RegisterChange, WritesCsr
    <3>. QED
      BY <2>1, <2>2, <3>2, <3>3 DEF UndoStep, Step, DebugTypeOK
  <2>3. CASE WritesCsr(i)
    <3>1. ~WritesGpr(i) /\ ~WritesFpr(i) /\ ~Executes(i)
      BY <2>3 DEF WritesCsr, WritesGpr, WritesFpr, Executes
    <3>2. c = [reg_type |-> "CSR", reg_index |-> i.csr, old_value |-> csr[i.csr]]
      BY <2>3, <3>1 DEF RegisterChange
    <3>3. csr' = [csr EXCEPT ![i.csr] = CsrResult(i)]
      BY <2>3, <3>1 DEF UndoStep, Step
    <3>. QED
      BY <1>2, <2>1, <3>2, <3>3 DEF DebugTypeOK
  <2>4. CASE ~Executes(i) /\ ~WritesCsr(i)
    BY <2>4 DEF RegisterChange, UndoStep, Step
  <2>. QED
    BY <2>2, <2>3, <2>4
<1>8. \A x \in 0..MemorySize - 1 :
        Read(mem, x) = IF x - b.address \in DOMAIN b.old_bytes
                       THEN b.old_bytes[x - b.address] ELSE Read(mem', x)
  <2>1. CASE Stores(i)
    <3>1. b = [address |-> Address(i), old_bytes |-> ReadGeneric(mem, Address(i), i.size)]
      BY <2>1 DEF MemoryChange
    <3>2. mem' = WriteGeneric(mem, Address(i), StoreBytes(i))
      BY <2>1 DEF UndoStep, Step
    <3>3. Address(i) \in Nat /\ i.size \in Nat /\ 0..i.size - 1 \in SUBSET Nat
      BY <1>1, <1>2, <2>1, AddressType, StoredRange, SMT
    <3>4. IsMemory(mem) /\ \A k \in 0..i.size - 1 : Address(i) + k < MemorySize
      BY <1>1, <1>2, <2>1, StoredRange DEF DebugTypeOK
    <3> DEFINE w == WriteGeneric(mem, Address(i), StoreBytes(i))
    <3>5. \A x \in Nat : Read(w, x) = IF x - Address(i) \in 0..i.size - 1
                                      THEN StoreBytes(i)[x - Address(i)] ELSE Read(mem, x)
      <4>1. StoreBytes(i) \in [0..i.size - 1 -> Byte]
        BY <1>2, StoreBytesType
      <4>2. \A D \in SUBSET Nat : \A v \in [D -> Byte] :
              (\A k \in D : Address(i) + k < MemorySize)
                => \A x \in Nat : Read(WriteGeneric(mem, Address(i), v), x)
                     = IF x - Address(i) \in D THEN v[x - Address(i)] ELSE Read(mem, x)
        BY <3>3, <3>4, ReadWritten
      <4>. QED
        BY <3>3, <3>4, <4>1, <4>2
    <3>6. ASSUME NEW x \in 0..MemorySize - 1
          PROVE  Read(mem, x) = IF x - b.address \in DOMAIN b.old_bytes
                                THEN b.old_bytes[x - b.address] ELSE Read(mem', x)
      <4>1. x \in Nat /\ Address(i) + (x - Address(i)) = x
        BY <3>3, MemoryAssumption, SMT
      <4>. QED
        BY <3>1, <3>2, <3>5, <4>1 DEF ReadGeneric
    <3>. QED
      BY <3>6
  <2>2. CASE ~Stores(i)
    BY <2>2 DEF MemoryChange, NoStore, UndoStep, Step
  <2>. QED
    BY <2>1, <2>2
<1>9. \A x \in 0..MemorySize - 1 : Flat(mem)[x] = Read(mem, x) /\ Flat(mem')[x] = Read(mem', x)
  BY DEF Flat
<1> HIDE DEF c, b
<1>10. /\ d.register_change = c /\ d.memory_change = b /\ d.old_pc = pc
  OBVIOUS
<1> HIDE DEF d
<1>11. Restores(KeptGpr, KeptCsr, isa, d, Machine', Machine)
  BY <1>3, <1>4, <1>5, <1>6, <1>7, <1>8, <1>9, <1>10 DEF Restores
<1>. QED
  BY <1>11 DEF d, c, b

LEMMA KeptConstant ==
  ASSUME UNCHANGED prog
  PROVE  KeptGpr' = KeptGpr /\ KeptCsr' = KeptCsr
BY DEF KeptGpr, KeptCsr, Occurs

LEMMA StepChain == DebugTypeOK /\ Chain /\ UndoStep => Chain'
<1> SUFFICES ASSUME DebugTypeOK, Chain, UndoStep PROVE Chain'
  OBVIOUS
<1>1. UNCHANGED <<prog, isa>>
  BY DEF UndoStep, Step
<1>2. /\ Len(past) \in Nat /\ Len(undo_stack) = Len(past) /\ Len(past') = Len(past) + 1
      /\ \A k \in 1..Len(past) : past'[k] = past[k] /\ undo_stack'[k] = undo_stack[k]
      /\ past'[Len(past) + 1] = Machine
      /\ undo_stack'[Len(past) + 1]
           = [old_pc |-> pc, register_change |-> RegisterChange(Current),
              memory_change |-> MemoryChange(Current)]
  BY MachineType, SMT DEF UndoStep, Step, DebugTypeOK
<1>3. ASSUME NEW k \in 1..Len(past')
      PROVE  Restores(KeptGpr, KeptCsr, isa, undo_stack'[k], ShownAt(k + 1)', past'[k])
  <2>1. CASE k \in 1..Len(past)
    <3>1. ShownAt(k + 1)' = ShownAt(k + 1)
      <4>1. CASE k < Len(past)
        <5>1. k + 1 \in 1..Len(past) /\ k + 1 <= Len(past')
          BY <1>2, <2>1, <4>1, SMT
        <5>. QED
          BY <1>2, <5>1, SMT DEF ShownAt
      <4>2. CASE k = Len(past)
        BY <1>2, <4>2, SMT DEF ShownAt
      <4>. QED
        BY <1>2, <2>1, <4>1, <4>2, SMT
    <3>. QED
      BY <1>2, <2>1, <3>1 DEF Chain
  <2>2. CASE k = Len(past) + 1
    <3>1. ShownAt(k + 1)' = Machine'
      BY <1>2, <2>2, SMT DEF ShownAt
    <3>. QED
      BY <1>2, <2>2, <3>1, StepRestores
  <2>. QED
    BY <1>2, <2>1, <2>2, SMT
<1>. QED
  BY <1>1, <1>3, KeptConstant DEF Chain

LEMMA ThrowSame ==
  ASSUME StepThrows
  PROVE  SameKept(KeptGpr, KeptCsr, Machine, Machine')
BY DEF StepThrows, Machine, SameKept, Flat

LEMMA ThrowChain == DebugTypeOK /\ Chain /\ StepThrows /\ UNCHANGED past => Chain'
<1> SUFFICES ASSUME DebugTypeOK, Chain, StepThrows, UNCHANGED past PROVE Chain'
  OBVIOUS
<1>1. UNCHANGED <<prog, isa, undo_stack, past>> /\ Len(past) \in Nat
  BY DEF StepThrows, DebugTypeOK
<1>2. ASSUME NEW k \in 1..Len(past)
      PROVE  Restores(KeptGpr, KeptCsr, isa, undo_stack[k], ShownAt(k + 1)', past[k])
  <2>1. Restores(KeptGpr, KeptCsr, isa, undo_stack[k], ShownAt(k + 1), past[k])
    BY DEF Chain
  <2>2. CASE k + 1 <= Len(past)
    BY <1>1, <2>1, <2>2 DEF ShownAt
  <2>3. CASE ~(k + 1 <= Len(past))
    <3>1. ShownAt(k + 1) = Machine /\ ShownAt(k + 1)' = Machine'
      BY <1>1, <2>3 DEF ShownAt
    <3>. QED
      BY <2>1, <3>1, ThrowSame, RestoresSame
  <2>. QED
    BY <2>2, <2>3
<1>. QED
  BY <1>1, <1>2, KeptConstant DEF Chain

\* Undo shows the machine it should
LEMMA UndoSame ==
  ASSUME DebugTypeOK, Chain, Undo
  PROVE  /\ Len(past) \in 1..Len(past)
         /\ SameKept(KeptGpr, KeptCsr, past[Len(past)], Machine')
         /\ Machine'.pc = past[Len(past)].pc
<1> DEFINE m == past[Len(past)]
           last == undo_stack[Len(undo_stack)]
           c == last.register_change
           b == last.memory_change
<1>1. undo_stack # <<>> /\ Len(undo_stack) = Len(past) /\ Len(past) \in Nat
  BY DEF Undo, DebugTypeOK
<1>2. /\ Len(past) \in 1..Len(past)
      /\ c.reg_type \in {"GPR", "FPR"} => c.reg_index \in RegNum /\ c.old_value \in Word
      /\ c.reg_type = "CSR" => c.reg_index \in CsrNum /\ c.old_value \in Word
      /\ b.address \in Nat /\ DOMAIN b.old_bytes \in SUBSET Nat
      /\ b.old_bytes \in [DOMAIN b.old_bytes -> Byte]
      /\ \A o \in DOMAIN b.old_bytes : b.address + o < MemorySize
  BY <1>1, TopType
<1>3. ~(Len(past) + 1 <= Len(past))
  BY <1>1, SMT
<1>4. Restores(KeptGpr, KeptCsr, isa, last, Machine, m)
  BY <1>1, <1>2, <1>3 DEF Chain, ShownAt
<1>5. /\ pc' = last.old_pc
      /\ gpr' = IF c.reg_type = "GPR" THEN WriteGpr(c.reg_index, c.old_value) ELSE gpr
      /\ fpr' = IF c.reg_type = "FPR" THEN [fpr EXCEPT ![c.reg_index] = c.old_value] ELSE fpr
      /\ csr' = IF c.reg_type = "CSR" THEN [csr EXCEPT ![c.reg_index] = c.old_value] ELSE csr
      /\ mem' = WriteGeneric(mem, b.address, b.old_bytes)
      /\ retired' = retired - 1 /\ program' = program
  BY DEF Undo
<1>6. /\ Machine = [program |-> program, pc |-> pc, gpr |-> gpr, fpr |-> fpr, csr |-> csr,
                    mem |-> Flat(mem), retired |-> retired]
      /\ Machine' = [program |-> program, pc |-> pc', gpr |-> gpr', fpr |-> fpr', csr |-> csr',
                     mem |-> Flat(mem'), retired |-> retired']
  BY <1>5 DEF Machine, Flat
<1>7. /\ m.program = program /\ m.pc = last.old_pc /\ retired = m.retired + 1
      /\ \A r \in KeptGpr :
           m.gpr[r] = IF c.reg_type = "GPR" /\ c.reg_index = r /\ r # 0
                      THEN c.old_value ELSE gpr[r]
      /\ c.reg_type = "GPR" /\ isa = "RV32" => Low(c.old_value) = c.old_value
      /\ \A r \in RegNum :
           m.fpr[r] = IF c.reg_type = "FPR" /\ c.reg_index = r THEN c.old_value ELSE fpr[r]
      /\ \A r \in KeptCsr :
           m.csr[r] = IF c.reg_type = "CSR" /\ c.reg_index = r THEN c.old_value ELSE csr[r]
      /\ \A x \in 0..MemorySize - 1 :
           m.mem[x] = IF x - b.address \in DOMAIN b.old_bytes
                      THEN b.old_bytes[x - b.address] ELSE Flat(mem)[x]
  BY <1>4, <1>6 DEF Restores
<1>8. m.retired \in Nat
  <2>1. m \in Machines
    BY <1>2 DEF DebugTypeOK
  <2>. QED
    BY <2>1 DEF Machines
<1> HIDE DEF c, b
<1>9. \A r \in KeptGpr : m.gpr[r] = gpr'[r]
  BY <1>2, <1>5, <1>7 DEF KeptGpr, WriteGpr, DebugTypeOK
<1>10. \A r \in RegNum : m.fpr[r] = fpr'[r]
  BY <1>2, <1>5, <1>7 DEF DebugTypeOK
<1>11. \A r \in KeptCsr : m.csr[r] = csr'[r]
  BY <1>2, <1>5, <1>7 DEF KeptCsr, DebugTypeOK
<1>12. \A x \in 0..MemorySize - 1 : m.mem[x] = Flat(mem')[x]
  <2>1. \A D \in SUBSET Nat : \A v \in [D -> Byte] :
          (\A k \in D : b.address + k < MemorySize)
            => \A x \in Nat : Read(WriteGeneric(mem, b.address, v), x)
                 = IF x - b.address \in D THEN v[x - b.address] ELSE Read(mem, x)
    <3>1. IsMemory(mem) /\ b.address \in Nat
      BY <1>2 DEF DebugTypeOK
    <3>. QED
      BY <3>1, ReadWritten
  <2>2. \A x \in Nat : Read(mem', x)
          = IF x - b.address \in DOMAIN b.old_bytes
            THEN b.old_bytes[x - b.address] ELSE Read(mem, x)
    BY <1>2, <1>5, <2>1
  <2>3. \A x \in 0..MemorySize - 1 : x \in Nat /\ Flat(mem)[x] = Read(mem, x)
                                     /\ Flat(mem')[x] = Read(mem', x)
    BY MemoryAssumption, SMT DEF Flat
  <2>. QED
    BY <1>7, <2>2, <2>3
<1>13. m.retired = retired'
  BY <1>5, <1>7, <1>8, SMT DEF DebugTypeOK
<1>14. SameKept(KeptGpr, KeptCsr, m, Machine')
  BY <1>6, <1>7, <1>9, <1>10, <1>11, <1>12, <1>13 DEF SameKept
<1>. QED
  BY <1>2, <1>5, <1>6, <1>7, <1>14

LEMMA PopPast ==
  ASSUME DebugTypeOK, Undo, past' = Pop(past)
  PROVE  /\ Len(past) \in Nat /\ Len(past) >= 1 /\ Len(past') = Len(past) - 1
         /\ \A k \in 1..Len(past') : past'[k] = past[k] /\ undo_stack'[k] = undo_stack[k]
<1>1. undo_stack # <<>> /\ Len(undo_stack) = Len(past)
  BY DEF Undo, DebugTypeOK
<1>2. Len(past) \in Nat /\ Len(past) - 1 \in Nat
  BY <1>1, TopType DEF DebugTypeOK
<1>. QED
  BY <1>1, <1>2, SMT DEF Undo, Pop, DebugTypeOK

LEMMA UndoChain == DebugTypeOK /\ Chain /\ Undo /\ past' = Pop(past) => Chain'
<1> SUFFICES ASSUME DebugTypeOK, Chain, Undo, past' = Pop(past) PROVE Chain'
  OBVIOUS
<1>1. UNCHANGED <<prog, isa>>
  BY DEF Undo
<1>2. ASSUME NEW k \in 1..Len(past')
      PROVE  Restores(KeptGpr, KeptCsr, isa, undo_stack'[k], ShownAt(k + 1)', past'[k])
  <2>1. k \in 1..Len(past) /\ k + 1 <= Len(past) /\ past'[k] = past[k] /\ undo_stack'[k] = undo_stack[k]
    BY PopPast, SMT
  <2>2. Restores(KeptGpr, KeptCsr, isa, undo_stack[k], past[k + 1], past[k])
    BY <2>1 DEF Chain, ShownAt
  <2>3. CASE k + 1 <= Len(past')
    <3>1. k + 1 \in 1..Len(past')
      BY <2>3, PopPast, SMT
    <3>2. ShownAt(k + 1)' = past[k + 1]
      BY <2>3, <3>1, PopPast DEF ShownAt
    <3>. QED
      BY <2>1, <2>2, <3>2
  <2>4. CASE ~(k + 1 <= Len(past'))
    <3>1. k + 1 = Len(past)
      BY <2>4, PopPast, SMT
    <3>2. ShownAt(k + 1)' = Machine'
      BY <2>4 DEF ShownAt
    <3>. QED
      BY <2>1, <2>2, <3>1, <3>2, UndoSame, RestoresSame
  <2>. QED
    BY <2>3, <2>4
<1>. QED
  BY <1>1, <1>2, KeptConstant DEF Chain

LEMMA EmptyChain == past = <<>> => Chain
<1>1. past = <<>> => 1..Len(past) = {}
  BY SMT
<1>. QED
  BY <1>1 DEF Chain

LEMMA Chained == UndoSpec => []Chain
<1>1. UndoInit => Chain
  BY EmptyChain DEF UndoInit
<1>2. DebugTypeOK /\ Chain /\ [UndoNext]_undoVars => Chain'
  <2> SUFFICES ASSUME DebugTypeOK, Chain, [UndoNext]_undoVars PROVE Chain'
    OBVIOUS
  <2>1. CASE UndoStep
    BY <2>1, StepChain
  <2>2. CASE StepThrows /\ UNCHANGED <<past, future>>
    BY <2>2, ThrowChain
  <2>3. CASE Undo /\ past' = Pop(past) /\ future' = Append(future, Machine)
    BY <2>3, UndoChain
  <2>4. CASE (OnAssemble \/ OnReset \/ OnStop \/ OnSelectIsa) /\ past' = <<>> /\ future' = <<>>
    <3>1. 1..Len(past') = {}
      BY <2>4, SMT
    <3>. QED
      BY <3>1 DEF Chain
  <2>5. CASE UNCHANGED undoVars
    <3>1. ASSUME NEW k \in 1..Len(past)
          PROVE  Restores(KeptGpr, KeptCsr, isa, undo_stack[k], ShownAt(k + 1)', past[k])
      <4>1. ShownAt(k + 1)' = ShownAt(k + 1)
        BY <2>5 DEF undoVars, debugVars, ShownAt, Machine, Flat
      <4>. QED
        BY <4>1 DEF Chain
    <3>. QED
      BY <2>5, <3>1, KeptConstant DEF undoVars, debugVars, Chain
  <2>. QED
    BY <2>1, <2>2, <2>3, <2>4, <2>5 DEF UndoNext
<1>. QED
  BY <1>1, <1>2, TypeCorrect, PTL DEF UndoSpec

----------------------------------------------------------------------------
(* The machines that were shown are the history of TimeTravel *)

LEMMA SeenAt ==
  ASSUME DebugTypeOK
  PROVE  /\ Len(past) \in Nat /\ Len(Seen) = Len(past) + 1
         /\ Seen = [k \in 1..Len(past) + 1 |-> Kept(ShownAt(k))]
         /\ Seen \in Seq({Kept(ShownAt(k)) : k \in 1..Len(past) + 1})
         /\ Len(Seen) \in 1..Len(past) + 1 /\ ShownAt(Len(Seen)) = Machine
<1>1. Len(past) \in Nat
  BY DEF DebugTypeOK
<1>2. Seen = [k \in 1..Len(past) + 1 |-> Kept(ShownAt(k))]
  BY DEF Seen, ShownAt
<1>3. Len(Seen) = Len(past) + 1
  BY <1>1, <1>2
<1>4. Seen \in Seq({Kept(ShownAt(k)) : k \in 1..Len(past) + 1})
  BY <1>1, <1>2
<1>5. Len(past) + 1 \in 1..Len(past) + 1 /\ ~(Len(past) + 1 <= Len(past))
  BY <1>1, SMT
<1>. QED
  BY <1>1, <1>2, <1>3, <1>4, <1>5 DEF ShownAt

\* the same of the next state, whose ShownAt is of the next state as well
LEMMA SeenNext ==
  ASSUME DebugTypeOK'
  PROVE  /\ Len(past') \in Nat /\ Len(Seen') = Len(past') + 1
         /\ Seen' = [k \in 1..Len(past') + 1 |-> Kept(ShownAt(k))']
         /\ Seen' \in Seq({Kept(ShownAt(k))' : k \in 1..Len(past') + 1})
         /\ Len(Seen') \in 1..Len(past') + 1 /\ ShownAt(Len(past) + 1)' = Machine'
<1>1. Len(past') \in Nat
  BY DEF DebugTypeOK
<1>2. Seen' = [k \in 1..Len(past') + 1 |-> Kept(ShownAt(k))']
  BY DEF Seen, ShownAt
<1>3. Len(Seen') = Len(past') + 1
  BY <1>1, <1>2
<1>4. Seen' \in Seq({Kept(ShownAt(k))' : k \in 1..Len(past') + 1})
  BY <1>1, <1>2
<1>5. Len(past') + 1 \in 1..Len(past') + 1 /\ ~(Len(past') + 1 <= Len(past'))
  BY <1>1, SMT
<1>. QED
  BY <1>1, <1>2, <1>3, <1>4, <1>5 DEF ShownAt

LEMMA InitShown == UndoInit => TT!Init
<1> SUFFICES ASSUME UndoInit PROVE TT!Init
  OBVIOUS
<1>1. past = <<>> /\ Len(past) = 0 /\ 0 + 1 = 1 /\ 1 \in 1..1
  BY SMT DEF UndoInit
<1>2. Seen = [k \in 1..1 |-> Kept(ShownAt(k))] /\ Len(Seen) = 1 /\ ShownAt(1) = Machine
  BY <1>1, InitType, SeenAt
<1>3. Seen[1] = Kept(Machine)
  BY <1>1, <1>2
<1>4. /\ Kept(Machine).pc = 0 /\ Kept(Machine).retired = 0
      /\ \A r \in DOMAIN Kept(Machine).gpr : Kept(Machine).gpr[r] = InitGpr[r]
      /\ \A r \in DOMAIN Kept(Machine).fpr : Kept(Machine).fpr[r] = 0
      /\ \A c \in DOMAIN Kept(Machine).csr : Kept(Machine).csr[c] = 0
      /\ Kept(Machine).mem = Flat(LoadedMem(Kept(Machine).program))
  BY DEF UndoInit, DebugInit, Kept, Machine, KeptGpr, KeptCsr, Occurs
<1>5. PoweredOn(Kept(Machine))
  BY <1>4 DEF PoweredOn
<1>. QED
  BY <1>2, <1>3, <1>5 DEF TT!Init, TT!Restarted, TT!Shown

LEMMA RestartShown == DebugTypeOK /\ Restarts /\ past' = <<>> => TT!Restart
<1> SUFFICES ASSUME DebugTypeOK, Restarts, past' = <<>> PROVE TT!Restart
  OBVIOUS
<1>1. DebugTypeOK'
  BY RestartType
<1>2. Len(past') = 0 /\ 0 + 1 = 1 /\ 1 \in 1..1
  BY SMT
<1>3. Len(Seen') = 1 /\ Seen'[1] = Kept(Machine)'
  <2>1. ShownAt(1)' = Machine'
    BY <1>2 DEF ShownAt
  <2>. QED
    BY <1>1, <1>2, <2>1, SeenNext DEF Kept
<1>4. /\ Reset
      /\ mem' = LoadedMem(program') \/ mem' = NoBlocks
  BY RestartLoads
<1>5. Flat(mem)' \in {Flat(LoadedMem(program')), Flat(NoBlocks)}
  BY <1>4 DEF Flat
<1>6. PoweredOn(Kept(Machine))'
  BY <1>4, <1>5 DEF PoweredOn, Kept, Machine, Reset, KeptGpr, KeptCsr
<1>. QED
  BY <1>3, <1>6 DEF TT!Restart, TT!Restarted, TT!Shown

LEMMA StepShown == DebugTypeOK /\ UndoStep => TT!Step
<1> SUFFICES ASSUME DebugTypeOK, UndoStep PROVE TT!Step
  OBVIOUS
<1>1. DebugTypeOK' /\ UNCHANGED prog
  BY StepType DEF UndoStep, Step
<1>2. /\ Len(past) \in Nat /\ Len(past') = Len(past) + 1
      /\ \A k \in 1..Len(past) : past'[k] = past[k]
      /\ past'[Len(past) + 1] = Machine
  BY MachineType, SMT DEF UndoStep, DebugTypeOK
<1>3. \A k \in 1..Len(past) + 1 : ShownAt(k)' = ShownAt(k)
  <2>1. \A k \in 1..Len(past) + 1 :
          /\ k <= Len(past') /\ (k <= Len(past) => k \in 1..Len(past))
          /\ (~(k <= Len(past)) => k = Len(past) + 1)
    BY <1>2, SMT
  <2>. QED
    BY <1>2, <2>1 DEF ShownAt
<1>4. \A k \in 1..Len(past) + 1 : Seen'[k] = Seen[k]
  <2>1. \A k \in 1..Len(past) + 1 : Kept(ShownAt(k))' = Kept(ShownAt(k))
    BY <1>1, <1>3, KeptConstant DEF Kept
  <2>2. \A k \in 1..Len(past) + 1 : k \in 1..Len(past') + 1
    BY <1>2, SMT
  <2>. QED
    BY <1>1, <2>1, <2>2, SeenAt, SeenNext
<1>5. Len(Seen') = Len(Seen) + 1
  BY <1>1, <1>2, SeenAt, SeenNext, SMT
<1>6. SubSeq(Seen', 1, Len(Seen)) = Seen
  <2>1. /\ Seen = [k \in 1..Len(Seen) |-> Seen[k]] /\ Len(Seen) \in Nat
        /\ \A k \in 1..Len(Seen) : Seen'[k] = Seen[k]
    BY <1>4, SeenAt
  <2>2. SubSeq(Seen', 1, Len(Seen)) = [k \in 1..Len(Seen) |-> Seen'[k]]
    BY <1>1, <1>5, <2>1, SeenNext, SMT
  <2>. QED
    BY <2>1, <2>2
<1>7. OneLater(TT!Shown, TT!Shown')
  <2>1. Seen[Len(Seen)] = Kept(Machine) /\ Seen'[Len(Seen')] = Kept(Machine)'
    BY <1>1, SeenAt, SeenNext
  <2>2. retired' = retired + 1
    BY DEF UndoStep, Step
  <2>. QED
    BY <2>1, <2>2 DEF TT!Shown, OneLater, Kept, Machine
<1>. QED
  BY <1>5, <1>6, <1>7 DEF TT!Step, OneLater

LEMMA UndoShown == DebugTypeOK /\ Chain /\ Undo /\ past' = Pop(past) => TT!Undo
<1> SUFFICES ASSUME DebugTypeOK, Chain, Undo, past' = Pop(past) PROVE TT!Undo
  OBVIOUS
<1>1. DebugTypeOK' /\ UNCHANGED prog
  BY UndoType DEF Undo
<1>2. /\ Len(past) \in Nat /\ Len(past) >= 1 /\ Len(past') = Len(past) - 1
      /\ \A k \in 1..Len(past') : past'[k] = past[k]
  BY PopPast
<1>3. \A k \in 1..Len(past) : Kept(ShownAt(k))' = Kept(ShownAt(k))
  <2> SUFFICES ASSUME NEW k \in 1..Len(past) PROVE Kept(ShownAt(k))' = Kept(ShownAt(k))
    OBVIOUS
  <2>1. k <= Len(past) /\ ShownAt(k) = past[k]
    BY <1>2, SMT DEF ShownAt
  <2>2. CASE k <= Len(past')
    <3>1. k \in 1..Len(past')
      BY <1>2, <2>2, SMT
    <3>2. ShownAt(k)' = past[k]
      BY <1>2, <2>2, <3>1 DEF ShownAt
    <3>. QED
      BY <1>1, <2>1, <3>2, KeptConstant DEF Kept
  <2>3. CASE ~(k <= Len(past'))
    <3>1. k = Len(past) /\ ShownAt(k)' = Machine'
      BY <1>2, <2>3, SMT DEF ShownAt
    <3>2. past[Len(past)] \in Machines /\ Machine' \in Machines
      <4>1. Machine' \in Machines
        BY <1>1, MachineTypeNext
      <4>2. Len(past) \in 1..Len(past)
        BY <1>2, SMT
      <4>. QED
        BY <4>1, <4>2 DEF DebugTypeOK
    <3>3. Kept(past[Len(past)]) = Kept(Machine')
      BY <3>2, UndoSame, KeptEqual
    <3>4. Kept(Machine') = Kept(Machine)'
      BY <1>1, KeptConstant DEF Kept
    <3>. QED
      BY <1>1, <2>1, <3>1, <3>3, <3>4, KeptConstant DEF Kept
  <2>. QED
    BY <2>2, <2>3
<1>4. Len(Seen') = Len(Seen) - 1 /\ Len(Seen) > 1 /\ Len(Seen) - 1 = Len(past)
  BY <1>1, <1>2, SeenAt, SeenNext, SMT
<1>5. Seen' = SubSeq(Seen, 1, Len(Seen) - 1)
  <2>1. Seen' = [k \in 1..Len(past) |-> Kept(ShownAt(k))']
    <3>1. Len(past') + 1 = Len(past)
      BY <1>2, SMT
    <3>. QED
      BY <1>1, <3>1, SeenNext
  <2>2. SubSeq(Seen, 1, Len(Seen) - 1) = [k \in 1..Len(past) |-> Seen[k]]
    BY <1>2, <1>4, SeenAt, SMT
  <2>3. \A k \in 1..Len(past) : Seen[k] = Kept(ShownAt(k))
    <3>1. \A k \in 1..Len(past) : k \in 1..Len(past) + 1
      BY <1>2, SMT
    <3>. QED
      BY <3>1, SeenAt
  <2>. QED
    BY <1>3, <2>1, <2>2, <2>3
<1>. QED
  BY <1>4, <1>5 DEF TT!Undo

LEMMA ThrowShown == DebugTypeOK /\ StepThrows /\ UNCHANGED past => PassesOver
<1> SUFFICES ASSUME DebugTypeOK, StepThrows, UNCHANGED past PROVE PassesOver
  OBVIOUS
<1>1. DebugTypeOK' /\ UNCHANGED <<prog, past>>
  BY ThrowType DEF StepThrows
<1>2. \A k \in 1..Len(past) + 1 : k # Len(past) + 1 => Kept(ShownAt(k))' = Kept(ShownAt(k))
  <2>1. \A k \in 1..Len(past) + 1 : k # Len(past) + 1 => k <= Len(past) /\ k <= Len(past')
    BY <1>1, SMT DEF DebugTypeOK
  <2>2. \A k \in 1..Len(past) + 1 : k # Len(past) + 1 => ShownAt(k)' = ShownAt(k)
    BY <1>1, <2>1 DEF ShownAt
  <2>. QED
    BY <1>1, <2>2, KeptConstant DEF Kept
<1>3. Kept(Machine)' = [Kept(Machine) EXCEPT !.pc = pc + 1]
  <2>1. Kept(Machine)
          = [program |-> program, pc |-> pc, gpr |-> [r \in KeptGpr |-> gpr[r]], fpr |-> fpr,
             csr |-> [c \in KeptCsr |-> csr[c]], mem |-> Flat(mem), retired |-> retired]
    BY DEF Kept, Machine
  <2>2. Kept(Machine)'
          = [program |-> program', pc |-> pc', gpr |-> [r \in KeptGpr' |-> gpr'[r]], fpr |-> fpr',
             csr |-> [c \in KeptCsr' |-> csr'[c]], mem |-> Flat(mem'), retired |-> retired']
    BY DEF Kept, Machine, Flat
  <2>3. Kept(Machine)'
          = [program |-> program, pc |-> pc + 1, gpr |-> [r \in KeptGpr |-> gpr[r]], fpr |-> fpr,
             csr |-> [c \in KeptCsr |-> csr[c]], mem |-> Flat(mem), retired |-> retired]
    BY <1>1, <2>2, KeptConstant DEF StepThrows
  <2>. QED
    BY <2>1, <2>3
<1>4. /\ Seen = [k \in 1..Len(past) + 1 |-> Kept(ShownAt(k))] /\ Len(Seen) = Len(past) + 1
      /\ Seen' = [k \in 1..Len(past) + 1 |-> Kept(ShownAt(k))']
      /\ Len(past) + 1 \in 1..Len(past) + 1
      /\ ShownAt(Len(past) + 1) = Machine /\ ShownAt(Len(past) + 1)' = Machine'
  BY <1>1, SeenAt, SeenNext
<1>5. Kept(ShownAt(Len(past) + 1))' = [Seen[Len(Seen)] EXCEPT !.pc = pc + 1]
  <2>1. Kept(ShownAt(Len(past) + 1))' = Kept(Machine)'
    BY <1>1, <1>4, KeptConstant DEF Kept
  <2>. QED
    BY <1>3, <1>4, <2>1
<1>. QED
  BY <1>2, <1>4, <1>5 DEF PassesOver

LEMMA StutterShown == UNCHANGED undoVars => UNCHANGED Seen
BY DEF undoVars, debugVars, Seen, Kept, Machine, KeptGpr, KeptCsr, Occurs, Flat

\* However steps, exceptions, undos and resets are mixed, Undo shows the machine of
\* before the last instruction counted and not undone: SingleDebug implements TimeTravel
\* (RVSSVM::Step, Undo and Reset), for every program, memory size and arithmetic.
THEOREM SteppingBack == UndoSpec => StepsBack
<1>1. UndoInit => TT!Init
  BY InitShown
<1>2. DebugTypeOK /\ Chain /\ [UndoNext]_undoVars => [TT!Next \/ PassesOver]_Seen
  <2> SUFFICES ASSUME DebugTypeOK, Chain, [UndoNext]_undoVars
               PROVE  [TT!Next \/ PassesOver]_Seen
    OBVIOUS
  <2>1. CASE UndoStep
    BY <2>1, StepShown DEF TT!Next
  <2>2. CASE StepThrows /\ UNCHANGED <<past, future>>
    BY <2>2, ThrowShown
  <2>3. CASE Undo /\ past' = Pop(past) /\ future' = Append(future, Machine)
    BY <2>3, UndoShown DEF TT!Next
  <2>4. CASE (OnAssemble \/ OnReset \/ OnStop \/ OnSelectIsa) /\ past' = <<>> /\ future' = <<>>
    BY <2>4, RestartShown DEF TT!Next, Restarts
  <2>5. CASE UNCHANGED undoVars
    BY <2>5, StutterShown
  <2>. QED
    BY <2>1, <2>2, <2>3, <2>4, <2>5 DEF UndoNext
<1>. QED
  BY <1>1, <1>2, TypeCorrect, Chained, PTL DEF UndoSpec, StepsBack

----------------------------------------------------------------------------
(* Stepping forward again.  What Step does to a machine m when its program counter is q, *)
(* in terms of that machine: m may be one that is not shown.                             *)

GprOf(m, r) == IF r = 0 THEN 0 ELSE IF isa = "RV32" THEN Low(m.gpr[r]) ELSE m.gpr[r]

AddressIn(m, i) == (GprOf(m, i.rs1) + i.imm) % AddressSpace

ThrowsIn(m, i) == i.op \in Accesses /\ ~Unsupported(i) /\ ~InRange(AddressIn(m, i), i.size)

LoadedIn(m, i) ==
  LET v == Join([k \in 0..i.size - 1 |-> m.mem[AddressIn(m, i) + k]])
  IN  IF i.op = "LOAD" THEN Extend(i, v) ELSE IF i.size = FloatSize THEN NanBox(v) ELSE v

FpResultIn(m, i) ==
  FAlu(i, IF i.op = "FFROMGPR" THEN GprOf(m, i.rs1) ELSE m.fpr[i.rs1], m.fpr[i.rs2])

GprResultIn(m, q, i) ==
  CASE i.op = "ALU"    -> Alu(i, GprOf(m, i.rs1), GprOf(m, i.rs2))
    [] i.op = "AUIPC"  -> (PcWord(q) + i.imm) % AddressSpace
    [] i.op = "LOAD"   -> LoadedIn(m, i)
    [] i.op = "FTOGPR" -> FpResultIn(m, i)
    [] OTHER           -> PcWord(q + 1)

GprAfter(m, q, i) ==
  IF ~WritesGpr(i) \/ i.rd = 0 THEN m.gpr
  ELSE [m.gpr EXCEPT ![i.rd] = IF isa = "RV32" THEN Low(GprResultIn(m, q, i))
                               ELSE GprResultIn(m, q, i)]

FprAfter(m, i) ==
  LET v == IF i.op = "FLOAD" THEN LoadedIn(m, i) ELSE FpResultIn(m, i)
  IN  IF ~WritesFpr(i) THEN m.fpr
      ELSE [m.fpr EXCEPT ![i.rd] = IF i.size = FloatSize THEN NanBox(v) ELSE v]

MemAfter(m, i) ==
  LET v == IF i.op = "FSTORE" THEN m.fpr[i.rs2] ELSE GprOf(m, i.rs2)
  IN  [x \in 0..MemorySize - 1 |->
         IF Stores(i) /\ x - AddressIn(m, i) \in 0..i.size - 1
         THEN ByteOf(v, x - AddressIn(m, i)) ELSE m.mem[x]]

PcAfter(m, q, i) ==
  CASE i.op = "JAL"  -> i.target
    [] i.op = "JALR" -> JumpTarget(AddressIn(m, i))
    [] i.op = "BRANCH" /\ Taken(i, GprOf(m, i.rs1), GprOf(m, i.rs2)) -> i.target
    [] OTHER -> q + 1

\* the instructions from p to the one before q throw
Passes(m, p, q) ==
  /\ p \in Nat /\ q \in Nat /\ p <= q
  /\ \A j \in p..q - 1 : ThrowsIn(m, prog[j + 1])

\* m leads to n when the instruction at q is executed, but for the program counter
Follows(m, q, n) ==
  /\ q < Len(prog) /\ ~ThrowsIn(m, prog[q + 1])
  /\ n.program = m.program /\ n.retired = m.retired + 1
  /\ n.gpr = GprAfter(m, q, prog[q + 1])
  /\ n.fpr = FprAfter(m, prog[q + 1])
  /\ n.mem = MemAfter(m, prog[q + 1])
  /\ \A c \in KeptCsr : n.csr[c] = m.csr[c]

\* and its program counter has been moved by exceptions only
Leads(m, q, n) == Follows(m, q, n) /\ Passes(n, PcAfter(m, q, prog[q + 1]), n.pc)

\* some instructions throw, then one leads to n
Reaches(m, n) == \E q \in Nat : Passes(m, m.pc, q) /\ Leads(m, q, n)

NextShown(k) == IF k <= Len(future) THEN future[k] ELSE Machine

Retraced ==
  Plain => /\ \A k \in 1..Len(past) : Leads(past[k], past[k].pc, ShownAt(k + 1))
           /\ \A k \in 1..Len(future) : Reaches(NextShown(k + 1), future[k])

----------------------------------------------------------------------------
(* Machines that are alike lead to machines that are alike *)

Alike(m, n) ==
  /\ m.program = n.program /\ m.retired = n.retired
  /\ m.gpr = n.gpr /\ m.fpr = n.fpr /\ m.mem = n.mem
  /\ \A c \in KeptCsr : m.csr[c] = n.csr[c]

\* without CSR instructions all general-purpose registers are brought back
LEMMA SameAlike ==
  ASSUME Plain, NEW m \in Machines, NEW n \in Machines, SameKept(KeptGpr, KeptCsr, m, n)
  PROVE  Alike(m, n)
<1>1. KeptGpr = RegNum
  BY DEF Plain, KeptGpr, Occurs
<1>2. /\ m.gpr \in [RegNum -> Word] /\ n.gpr \in [RegNum -> Word]
      /\ m.fpr \in [RegNum -> Word] /\ n.fpr \in [RegNum -> Word]
      /\ m.mem \in [0..MemorySize - 1 -> Byte] /\ n.mem \in [0..MemorySize - 1 -> Byte]
  BY DEF Machines
<1>3. m.gpr = n.gpr /\ m.fpr = n.fpr
  BY <1>1, <1>2 DEF SameKept
<1>4. m.mem = n.mem
  <2> DEFINE A == 0..MemorySize - 1
  <2>1. \A x \in A : m.mem[x] = n.mem[x]
    BY DEF SameKept
  <2>2. m.mem \in [A -> Byte] /\ n.mem \in [A -> Byte]
    BY <1>2
  <2> HIDE DEF A
  <2>. QED
    BY <2>1, <2>2
<1>. QED
  BY <1>3, <1>4 DEF SameKept, Alike

LEMMA AlikeSymmetric ==
  ASSUME NEW m, NEW n, Alike(m, n)
  PROVE  Alike(n, m)
BY DEF Alike

LEMMA AfterAlike ==
  ASSUME NEW m, NEW n, Alike(m, n), NEW q, NEW i
  PROVE  /\ ThrowsIn(m, i) <=> ThrowsIn(n, i)
         /\ GprAfter(m, q, i) = GprAfter(n, q, i) /\ FprAfter(m, i) = FprAfter(n, i)
         /\ MemAfter(m, i) = MemAfter(n, i) /\ PcAfter(m, q, i) = PcAfter(n, q, i)
<1>1. m.gpr = n.gpr /\ m.fpr = n.fpr /\ m.mem = n.mem
  BY DEF Alike
<1>2. \A r : GprOf(m, r) = GprOf(n, r)
  BY <1>1 DEF GprOf
<1>3. AddressIn(m, i) = AddressIn(n, i)
  BY <1>2 DEF AddressIn
<1>4. LoadedIn(m, i) = LoadedIn(n, i)
  BY <1>1, <1>3 DEF LoadedIn
<1>5. FpResultIn(m, i) = FpResultIn(n, i)
  BY <1>1, <1>2 DEF FpResultIn
<1>6. GprResultIn(m, q, i) = GprResultIn(n, q, i)
  BY <1>2, <1>4, <1>5 DEF GprResultIn
<1>7. ThrowsIn(m, i) <=> ThrowsIn(n, i)
  BY <1>3 DEF ThrowsIn
<1>8. GprAfter(m, q, i) = GprAfter(n, q, i)
  BY <1>1, <1>6 DEF GprAfter
<1>9. FprAfter(m, i) = FprAfter(n, i)
  BY <1>1, <1>4, <1>5 DEF FprAfter
<1>10. MemAfter(m, i) = MemAfter(n, i)
  BY <1>1, <1>2, <1>3 DEF MemAfter
<1>11. PcAfter(m, q, i) = PcAfter(n, q, i)
  BY <1>2, <1>3 DEF PcAfter
<1>. QED
  BY <1>7, <1>8, <1>9, <1>10, <1>11

LEMMA PassesAlike ==
  ASSUME NEW m, NEW n, Alike(m, n), NEW p, NEW q, Passes(m, p, q)
  PROVE  Passes(n, p, q)
BY AfterAlike DEF Passes

LEMMA LeadsAlike ==
  ASSUME NEW m, NEW n, NEW m2, NEW n2, NEW q,
         Alike(m, m2), Alike(n, n2), n.pc = n2.pc, Leads(m, q, n)
  PROVE  Leads(m2, q, n2)
<1> DEFINE i == prog[q + 1]
<1>1. Follows(m2, q, n2)
  <2>1. /\ ThrowsIn(m, i) <=> ThrowsIn(m2, i)
        /\ GprAfter(m, q, i) = GprAfter(m2, q, i) /\ FprAfter(m, i) = FprAfter(m2, i)
        /\ MemAfter(m, i) = MemAfter(m2, i)
    BY AfterAlike
  <2>. QED
    BY <2>1 DEF Leads, Follows, Alike
<1>2. Passes(n2, PcAfter(m, q, i), n2.pc)
  BY PassesAlike DEF Leads
<1>3. PcAfter(m, q, i) = PcAfter(m2, q, i)
  BY AfterAlike
<1>. QED
  BY <1>1, <1>2, <1>3 DEF Leads

\* two machines that follow upon one are alike
LEMMA FollowsOnce ==
  ASSUME NEW m, NEW q, NEW n, NEW n2, Follows(m, q, n), Follows(m, q, n2)
  PROVE  Alike(n, n2)
BY DEF Follows, Alike

LEMMA PassesOn ==
  ASSUME NEW m, NEW p, NEW q, NEW r, Passes(m, p, q), Passes(m, q, r)
  PROVE  Passes(m, p, r)
<1>1. p <= r /\ \A j \in p..r - 1 : j \in p..q - 1 \/ j \in q..r - 1
  BY SMT DEF Passes
<1>. QED
  BY <1>1 DEF Passes

LEMMA PassesNone ==
  ASSUME NEW m, NEW p \in Nat
  PROVE  Passes(m, p, p)
<1>1. p <= p /\ p..p - 1 = {}
  BY SMT
<1>. QED
  BY <1>1 DEF Passes

\* what is about to be executed does not throw, or it is passed over
LEMMA PassesFirst ==
  ASSUME NEW m, NEW p, NEW q, Passes(m, p, q)
  PROVE  /\ ~ThrowsIn(m, prog[p + 1]) => q = p
         /\ q # p => Passes(m, p + 1, q)
<1>1. q # p => p \in p..q - 1 /\ p + 1 <= q /\ \A j \in p + 1..q - 1 : j \in p..q - 1
  BY SMT DEF Passes
<1>. QED
  BY <1>1 DEF Passes

----------------------------------------------------------------------------
(* What Step and an exception do, in these terms *)

\* the instructions that Step executes read and write what the terms say
LEMMA StepFollows ==
  ASSUME DebugTypeOK, Plain, UndoStep
  PROVE  Follows(Machine, pc, Machine') /\ pc' = PcAfter(Machine, pc, Current)
<1> DEFINE i == Current
           m == Machine
<1>1. pc < Len(prog) /\ ~Throws(i) /\ pc + 1 \in 1..Len(prog) /\ i = prog[pc + 1]
  BY SMT DEF UndoStep, Step, DebugTypeOK, Current
<1>2. i \in Instr /\ i.rd \in RegNum /\ i.op # "CSR" /\ ~Unsupported(i) /\ i.size \in Nat
  <2>1. i \in Instr
    BY <1>1, CurrentType
  <2>2. i.op # "CSR" /\ ~Unsupported(i)
    BY <1>1 DEF Plain, Occurs
  <2>. QED
    BY <2>1, <2>2, DebugConstants, SMT DEF Instr
<1>3. /\ m = [program |-> program, pc |-> pc, gpr |-> gpr, fpr |-> fpr, csr |-> csr,
              mem |-> Flat(mem), retired |-> retired]
      /\ Machine' = [program |-> program, pc |-> pc', gpr |-> gpr', fpr |-> fpr', csr |-> csr',
                     mem |-> Flat(mem'), retired |-> retired + 1]
  BY DEF Machine, UndoStep, Step, Flat
<1>4. \A r : ReadGpr(r) = GprOf(m, r)
  BY <1>3 DEF ReadGpr, GprOf
<1>5. Address(i) = AddressIn(m, i) /\ (Throws(i) <=> ThrowsIn(m, i))
  BY <1>4 DEF Address, AddressIn, Throws, ThrowsIn
<1>6. i.op \in {"LOAD", "FLOAD"} => MemoryResult(i) = LoadedIn(m, i)
  <2> SUFFICES ASSUME i.op \in {"LOAD", "FLOAD"} PROVE MemoryResult(i) = LoadedIn(m, i)
    OBVIOUS
  <2>1. InRange(Address(i), i.size)
    BY <1>1, <1>2 DEF Throws, Accesses
  <2>2. \A k \in 0..i.size - 1 : Address(i) + k \in 0..MemorySize - 1
    BY <1>2, <2>1, AddressType, MemoryAssumption, SMT DEF InRange
  <2>3. \A k \in 0..i.size - 1 : Flat(mem)[Address(i) + k] = Read(mem, Address(i) + k)
    BY <2>2 DEF Flat
  <2>4. ReadGeneric(mem, Address(i), i.size)
          = [k \in 0..i.size - 1 |-> Flat(mem)[Address(i) + k]]
    BY <2>3 DEF ReadGeneric
  <2>5. Loaded(i) = Join([k \in 0..i.size - 1 |-> m.mem[AddressIn(m, i) + k]])
    BY <1>3, <1>5, <2>4 DEF Loaded
  <2>. QED
    BY <1>2, <2>5 DEF MemoryResult, LoadedIn
<1>7. FpResult(i) = FpResultIn(m, i)
  BY <1>3, <1>4 DEF FpResult, FpOperand, FpResultIn
<1>8. gpr' = GprAfter(m, pc, i)
  <2>1. GprResult(i) = GprResultIn(m, pc, i)
    BY <1>2, <1>4, <1>6, <1>7 DEF GprResult, GprResultIn
  <2>2. gpr' = IF WritesGpr(i) THEN WriteGpr(i.rd, GprResult(i)) ELSE gpr
    BY <1>2 DEF UndoStep, Step
  <2>. QED
    BY <1>3, <2>1, <2>2 DEF GprAfter, WriteGpr
<1>9. fpr' = FprAfter(m, i)
  <2>1. fpr' = IF WritesFpr(i) THEN [fpr EXCEPT ![i.rd] = FprResult(i)] ELSE fpr
    BY DEF UndoStep, Step
  <2>. QED
    BY <1>3, <1>6, <1>7, <2>1 DEF FprAfter, FprResult
<1>10. Flat(mem') = MemAfter(m, i)
  <2> DEFINE A == 0..MemorySize - 1
             v == IF i.op = "FSTORE" THEN fpr[i.rs2] ELSE ReadGpr(i.rs2)
  <2>1. MemAfter(m, i) = [x \in A |->
          IF Stores(i) /\ x - Address(i) \in 0..i.size - 1
          THEN ByteOf(v, x - Address(i)) ELSE Flat(mem)[x]]
    BY <1>3, <1>4, <1>5 DEF MemAfter
  <2>2. Flat(mem) = [x \in A |-> Read(mem, x)] /\ Flat(mem') = [x \in A |-> Read(mem', x)]
    BY DEF Flat
  <2>3. \A x \in A : Read(mem', x) = IF Stores(i) /\ x - Address(i) \in 0..i.size - 1
                                     THEN ByteOf(v, x - Address(i)) ELSE Read(mem, x)
    <3>1. CASE Stores(i)
      <4>1. mem' = WriteGeneric(mem, Address(i), StoreBytes(i))
        BY <3>1 DEF UndoStep, Step
      <4>2. Address(i) \in Nat /\ 0..i.size - 1 \in SUBSET Nat
        BY <1>2, AddressType, SMT
      <4>3. IsMemory(mem) /\ \A k \in 0..i.size - 1 : Address(i) + k < MemorySize
        BY <1>1, <1>2, <3>1, StoredRange DEF DebugTypeOK
      <4>4. StoreBytes(i) \in [0..i.size - 1 -> Byte]
        BY <1>2, StoreBytesType
      <4> DEFINE w == WriteGeneric(mem, Address(i), StoreBytes(i))
      <4>5. \A D \in SUBSET Nat : \A b \in [D -> Byte] :
              (\A k \in D : Address(i) + k < MemorySize)
                => \A x \in Nat : Read(WriteGeneric(mem, Address(i), b), x)
                     = IF x - Address(i) \in D THEN b[x - Address(i)] ELSE Read(mem, x)
        BY <4>2, <4>3, ReadWritten
      <4>6. \A x \in Nat : Read(w, x) = IF x - Address(i) \in 0..i.size - 1
                                        THEN StoreBytes(i)[x - Address(i)] ELSE Read(mem, x)
        BY <4>2, <4>3, <4>4, <4>5
      <4>7. \A k \in 0..i.size - 1 : StoreBytes(i)[k] = ByteOf(v, k)
        BY DEF StoreBytes
      <4>8. \A x \in A : x \in Nat
        BY MemoryAssumption, SMT
      <4>. QED
        BY <3>1, <4>1, <4>6, <4>7, <4>8
    <3>2. CASE ~Stores(i)
      BY <3>2 DEF UndoStep, Step
    <3>. QED
      BY <3>1, <3>2
  <2> HIDE DEF A, v
  <2>. QED
    BY <2>1, <2>2, <2>3
<1>11. \A c \in KeptCsr : csr'[c] = csr[c]
  <2>1. KeptCsr \subseteq CsrNum
    BY DEF KeptCsr
  <2>2. CASE Executes(i)
    <3>1. Fcsr \notin KeptCsr
      BY <1>1, <2>2 DEF KeptCsr, Occurs, Executes, FloatOps
    <3>. QED
      BY <2>1, <2>2, <3>1 DEF UndoStep, Step, DebugTypeOK
  <2>3. CASE ~Executes(i)
    <3>1. ~WritesCsr(i)
      BY <1>2 DEF WritesCsr
    <3>. QED
      BY <2>3, <3>1 DEF UndoStep, Step
  <2>. QED
    BY <2>2, <2>3
<1>12. pc' = PcAfter(m, pc, i)
  BY <1>4, <1>5 DEF UndoStep, Step, NextPc, PcAfter
<1>13. ~ThrowsIn(m, i)
  BY <1>1, <1>5
<1> DEFINE n == Machine'
<1>14. /\ n.program = m.program /\ n.retired = m.retired + 1 /\ n.gpr = gpr' /\ n.fpr = fpr'
       /\ n.mem = Flat(mem') /\ n.csr = csr' /\ m.csr = csr
  BY <1>3
<1> HIDE DEF m, n
<1>15. Follows(m, pc, n)
  BY <1>1, <1>8, <1>9, <1>10, <1>11, <1>13, <1>14 DEF Follows
<1>. QED
  BY <1>12, <1>15 DEF m, n

LEMMA LinksConstant ==
  ASSUME UNCHANGED <<prog, isa>>
  PROVE  /\ Plain' <=> Plain
         /\ \A m, q, n : Leads(m, q, n)' <=> Leads(m, q, n)
         /\ \A m, n : Reaches(m, n)' <=> Reaches(m, n)
<1>1. Plain' <=> Plain
  BY DEF Plain, Occurs, Unsupported
<1>2. ASSUME NEW m, NEW q, NEW n PROVE Leads(m, q, n)' <=> Leads(m, q, n)
  BY DEF Leads, Follows, Passes, GprOf, AddressIn, ThrowsIn, LoadedIn, FpResultIn, GprResultIn,
         GprAfter, FprAfter, MemAfter, PcAfter, Unsupported, WritesGpr, WritesFpr, Stores,
         KeptCsr, Occurs
<1>3. ASSUME NEW m, NEW p, NEW q PROVE Passes(m, p, q)' <=> Passes(m, p, q)
  BY DEF Passes, ThrowsIn, AddressIn, GprOf, Unsupported
<1>4. ASSUME NEW m, NEW n PROVE Reaches(m, n)' <=> Reaches(m, n)
  BY <1>2, <1>3 DEF Reaches
<1>. QED
  BY <1>1, <1>2, <1>4

----------------------------------------------------------------------------
(* One step for each action: the machines that can be shown again, by an undo or by a *)
(* step, are linked to each other.                                                    *)

\* a machine that a step shows again, and the one it was undone from
LEMMA StepReaches ==
  ASSUME DebugTypeOK, Plain, UndoStep, NEW n, Reaches(Machine, n)
  PROVE  Alike(n, Machine') /\ Passes(n, pc', n.pc)
<1>1. Follows(Machine, pc, Machine') /\ pc' = PcAfter(Machine, pc, prog[pc + 1])
  BY StepFollows DEF Current
<1>2. ~ThrowsIn(Machine, prog[pc + 1])
  BY <1>1 DEF Follows
<1>3. PICK q \in Nat : Passes(Machine, Machine.pc, q) /\ Leads(Machine, q, n)
  BY DEF Reaches
<1>4. q = pc
  <2>1. Machine.pc = pc
    BY DEF Machine
  <2>. QED
    BY <1>2, <1>3, <2>1, PassesFirst
<1>. QED
  BY <1>1, <1>3, <1>4, FollowsOnce DEF Leads

LEMMA StepRetraced ==
  DebugTypeOK /\ future \in Seq(Machines) /\ Retraced /\ UndoStep => Retraced'
<1> SUFFICES ASSUME DebugTypeOK, future \in Seq(Machines), Retraced, UndoStep
             PROVE  Retraced'
  OBVIOUS
<1>0. UNCHANGED <<prog, isa>>
  BY DEF UndoStep, Step
<1> SUFFICES ASSUME Plain PROVE Retraced'
  BY <1>0, LinksConstant DEF Retraced
<1>1. UNCHANGED <<prog, isa>> /\ DebugTypeOK'
  BY StepType DEF UndoStep, Step
<1>2. /\ Len(past) \in Nat /\ Len(past') = Len(past) + 1
      /\ \A k \in 1..Len(past) : past'[k] = past[k]
      /\ past'[Len(past) + 1] = Machine
  BY MachineType, SMT DEF UndoStep, DebugTypeOK
<1>3. Machine.pc = pc /\ Machine'.pc = pc' /\ pc' \in Nat
  BY <1>1 DEF Machine, DebugTypeOK
<1>4. ASSUME NEW k \in 1..Len(past') PROVE Leads(past'[k], past'[k].pc, ShownAt(k + 1)')
  <2>1. CASE k \in 1..Len(past)
    <3>1. ShownAt(k + 1)' = ShownAt(k + 1)
      <4>1. CASE k < Len(past)
        <5>1. k + 1 \in 1..Len(past) /\ k + 1 <= Len(past')
          BY <1>2, <2>1, <4>1, SMT
        <5>. QED
          BY <1>2, <5>1, SMT DEF ShownAt
      <4>2. CASE k = Len(past)
        BY <1>2, <4>2, SMT DEF ShownAt
      <4>. QED
        BY <1>2, <2>1, <4>1, <4>2, SMT
    <3>. QED
      BY <1>2, <2>1, <3>1 DEF Retraced
  <2>2. CASE k = Len(past) + 1
    <3>1. ShownAt(k + 1)' = Machine'
      BY <1>2, <2>2, SMT DEF ShownAt
    <3>2. Leads(Machine, pc, Machine')
      <4>1. Follows(Machine, pc, Machine') /\ pc' = PcAfter(Machine, pc, prog[pc + 1])
        BY StepFollows DEF Current
      <4>. QED
        BY <1>3, <4>1, PassesNone DEF Leads
    <3>. QED
      BY <1>2, <1>3, <2>2, <3>1, <3>2
  <2>. QED
    BY <1>2, <2>1, <2>2, SMT
<1>5. ASSUME NEW k \in 1..Len(future') PROVE Reaches(NextShown(k + 1)', future'[k])
  <2>1. future # <<>> /\ future' = Pop(future)
    <3>1. future = <<>> => 1..Len(future) = {}
      BY SMT
    <3>. QED
      BY <3>1 DEF UndoStep
  <2>2. /\ Len(future) \in Nat /\ Len(future') = Len(future) - 1
        /\ k \in 1..Len(future) /\ k + 1 \in 1..Len(future) /\ k + 1 <= Len(future)
        /\ \A j \in 1..Len(future') : future'[j] = future[j]
    BY <2>1, SMT DEF Pop
  <2>3. Reaches(future[k + 1], future[k])
    BY <2>2 DEF Retraced, NextShown
  <2>4. CASE k + 1 <= Len(future')
    <3>1. k + 1 \in 1..Len(future')
      BY <2>2, <2>4, SMT
    <3>. QED
      BY <2>2, <2>3, <2>4, <3>1 DEF NextShown
  <2>5. CASE ~(k + 1 <= Len(future'))
    <3>1. k + 1 = Len(future) /\ ~(k + 1 + 1 <= Len(future)) /\ NextShown(k + 1)' = Machine'
      BY <2>2, <2>5, SMT DEF NextShown
    <3> DEFINE f == future[k + 1]
               g == future[k]
    <3>2. Reaches(Machine, f)
      BY <2>2, <3>1 DEF Retraced, NextShown
    <3>3. Alike(f, Machine') /\ Passes(f, pc', f.pc)
      BY <3>2, StepReaches
    <3>4. PICK q \in Nat : Passes(f, f.pc, q) /\ Leads(f, q, g)
      BY <2>3 DEF Reaches
    <3>5. Passes(Machine', pc', q)
      BY <3>3, <3>4, PassesOn, PassesAlike
    <3>6. Leads(Machine', q, g)
      <4>1. Alike(g, g)
        BY DEF Alike
      <4>. QED
        BY <3>3, <3>4, <4>1, LeadsAlike
    <3>7. Reaches(Machine', g)
      BY <1>3, <3>5, <3>6 DEF Reaches
    <3>. QED
      BY <2>2, <3>1, <3>7
  <2>. QED
    BY <2>4, <2>5
<1>. QED
  BY <1>1, <1>4, <1>5, LinksConstant DEF Retraced

LEMMA ThrowRetraced ==
  DebugTypeOK /\ Retraced /\ StepThrows /\ UNCHANGED <<past, future>> => Retraced'
<1> SUFFICES ASSUME DebugTypeOK, Retraced, StepThrows, UNCHANGED <<past, future>>
             PROVE  Retraced'
  OBVIOUS
<1>0. UNCHANGED <<prog, isa>>
  BY DEF StepThrows
<1> SUFFICES ASSUME Plain PROVE Retraced'
  BY <1>0, LinksConstant DEF Retraced
<1>1. UNCHANGED <<prog, isa, past, future>>
  BY DEF StepThrows
<1>2. Machine.pc = pc /\ Machine'.pc = pc + 1 /\ pc \in Nat
  BY DEF Machine, StepThrows, DebugTypeOK
<1>3. Alike(Machine, Machine')
  BY DEF Alike, StepThrows, Machine, Flat
<1>4. ThrowsIn(Machine, prog[pc + 1])
  <2>1. \A r : ReadGpr(r) = GprOf(Machine, r)
    BY DEF ReadGpr, GprOf, Machine
  <2>. QED
    BY <2>1 DEF StepThrows, Current, Throws, ThrowsIn, Address, AddressIn
<1>5. \A p : Passes(Machine, p, pc) => Passes(Machine, p, pc + 1)
  <2>1. \A p \in Nat : p <= pc =>
          pc + 1 \in Nat /\ p <= pc + 1 /\ \A j \in p..pc + 1 - 1 : j = pc \/ j \in p..pc - 1
    BY <1>2, SMT
  <2>. QED
    BY <1>4, <2>1 DEF Passes
<1>6. ASSUME NEW k \in 1..Len(past) PROVE Leads(past[k], past[k].pc, ShownAt(k + 1)')
  <2>1. Leads(past[k], past[k].pc, ShownAt(k + 1))
    BY DEF Retraced
  <2>2. CASE k + 1 <= Len(past)
    BY <1>1, <2>1, <2>2 DEF ShownAt
  <2>3. CASE ~(k + 1 <= Len(past))
    <3>1. ShownAt(k + 1) = Machine /\ ShownAt(k + 1)' = Machine'
      BY <1>1, <2>3 DEF ShownAt
    <3> DEFINE m == past[k]
               q == past[k].pc
    <3>2. Follows(m, q, Machine) /\ Passes(Machine, PcAfter(m, q, prog[q + 1]), pc)
      BY <1>2, <2>1, <3>1 DEF Leads
    <3>3. Follows(m, q, Machine')
      BY <1>3, <3>2 DEF Follows, Alike
    <3>4. Passes(Machine', PcAfter(m, q, prog[q + 1]), pc + 1)
      BY <1>3, <1>5, <3>2, PassesAlike
    <3>. QED
      BY <1>2, <3>1, <3>3, <3>4 DEF Leads
  <2>. QED
    BY <2>2, <2>3
<1>7. ASSUME NEW k \in 1..Len(future) PROVE Reaches(NextShown(k + 1)', future[k])
  <2>1. Reaches(NextShown(k + 1), future[k])
    BY DEF Retraced
  <2>2. CASE k + 1 <= Len(future)
    BY <1>1, <2>1, <2>2 DEF NextShown
  <2>3. CASE ~(k + 1 <= Len(future))
    <3>1. NextShown(k + 1) = Machine /\ NextShown(k + 1)' = Machine'
      BY <1>1, <2>3 DEF NextShown
    <3> DEFINE f == future[k]
    <3>2. PICK q \in Nat : Passes(Machine, pc, q) /\ Leads(Machine, q, f)
      BY <1>2, <2>1, <3>1 DEF Reaches
    <3>3. q # pc
      BY <1>4, <3>2 DEF Leads, Follows
    <3>4. Passes(Machine', pc + 1, q)
      BY <1>3, <3>2, <3>3, PassesFirst, PassesAlike
    <3>5. Leads(Machine', q, f)
      <4>1. Alike(f, f)
        BY DEF Alike
      <4>. QED
        BY <1>3, <3>2, <4>1, LeadsAlike
    <3>. QED
      BY <1>2, <3>1, <3>4, <3>5 DEF Reaches
  <2>. QED
    BY <2>2, <2>3
<1>. QED
  BY <1>1, <1>6, <1>7, LinksConstant DEF Retraced

LEMMA UndoRetraced ==
  DebugTypeOK /\ future \in Seq(Machines) /\ Chain /\ Retraced /\ Undo
    /\ past' = Pop(past) /\ future' = Append(future, Machine) => Retraced'
<1> SUFFICES ASSUME DebugTypeOK, future \in Seq(Machines), Chain, Retraced, Undo,
                    past' = Pop(past), future' = Append(future, Machine)
             PROVE  Retraced'
  OBVIOUS
<1>0. UNCHANGED <<prog, isa>>
  BY DEF Undo
<1> SUFFICES ASSUME Plain PROVE Retraced'
  BY <1>0, LinksConstant DEF Retraced
<1> DEFINE m == past[Len(past)]
<1>1. UNCHANGED <<prog, isa>> /\ DebugTypeOK'
  BY UndoType DEF Undo
<1>2. /\ Len(past) \in Nat /\ Len(past) >= 1 /\ Len(past') = Len(past) - 1
      /\ \A k \in 1..Len(past') : past'[k] = past[k]
      /\ Len(past) \in 1..Len(past) /\ ~(Len(past) + 1 <= Len(past))
  BY PopPast, SMT
<1>3. Alike(m, Machine') /\ Machine'.pc = m.pc /\ m.pc \in Nat
  <2>1. SameKept(KeptGpr, KeptCsr, m, Machine') /\ Machine'.pc = m.pc
    BY UndoSame
  <2>2. m \in Machines /\ Machine' \in Machines
    BY <1>1, <1>2, MachineTypeNext DEF DebugTypeOK
  <2>. QED
    BY <2>1, <2>2, SameAlike DEF Machines
<1>4. ASSUME NEW k \in 1..Len(past') PROVE Leads(past'[k], past'[k].pc, ShownAt(k + 1)')
  <2>1. k \in 1..Len(past) /\ k + 1 <= Len(past) /\ past'[k] = past[k]
    BY <1>2, SMT
  <2>2. Leads(past[k], past[k].pc, past[k + 1])
    BY <2>1 DEF Retraced, ShownAt
  <2>3. CASE k + 1 <= Len(past')
    <3>1. k + 1 \in 1..Len(past')
      BY <2>3, <1>2, SMT
    <3>2. ShownAt(k + 1)' = past[k + 1]
      BY <2>3, <3>1, <1>2 DEF ShownAt
    <3>. QED
      BY <2>1, <2>2, <3>2
  <2>4. CASE ~(k + 1 <= Len(past'))
    <3>1. k + 1 = Len(past)
      BY <2>1, <2>4, <1>2, SMT
    <3>2. ShownAt(k + 1)' = Machine'
      BY <2>4 DEF ShownAt
    <3>3. Alike(past[k], past[k])
      BY DEF Alike
    <3>. QED
      BY <1>3, <2>1, <2>2, <3>1, <3>2, <3>3, LeadsAlike
  <2>. QED
    BY <2>3, <2>4
<1>5. ASSUME NEW k \in 1..Len(future') PROVE Reaches(NextShown(k + 1)', future'[k])
  <2>1. /\ Len(future) \in Nat /\ Len(future') = Len(future) + 1
        /\ \A j \in 1..Len(future) : future'[j] = future[j]
        /\ future'[Len(future) + 1] = Machine
    BY MachineType, SMT
  <2>2. CASE k \in 1..Len(future)
    <3>1. NextShown(k + 1)' = NextShown(k + 1)
      <4>1. CASE k < Len(future)
        <5>1. k + 1 \in 1..Len(future) /\ k + 1 <= Len(future) /\ k + 1 <= Len(future')
          BY <2>1, <2>2, <4>1, SMT
        <5>. QED
          BY <2>1, <5>1 DEF NextShown
      <4>2. CASE k = Len(future)
        <5>1. ~(k + 1 <= Len(future)) /\ k + 1 <= Len(future')
          BY <2>1, <4>2, SMT
        <5>. QED
          BY <2>1, <4>2, <5>1 DEF NextShown
      <4>. QED
        BY <2>1, <2>2, <4>1, <4>2, SMT
    <3>. QED
      BY <2>1, <2>2, <3>1 DEF Retraced
  <2>3. CASE k = Len(future) + 1
    <3>1. NextShown(k + 1)' = Machine'
      <4>1. ~(k + 1 <= Len(future'))
        BY <2>1, <2>3, SMT
      <4>. QED
        BY <4>1 DEF NextShown
    <3>2. Leads(m, m.pc, Machine)
      BY <1>2 DEF Retraced, ShownAt
    <3>3. Leads(Machine', m.pc, Machine)
      <4>1. Alike(Machine, Machine)
        BY DEF Alike
      <4>. QED
        BY <1>3, <3>2, <4>1, LeadsAlike
    <3>4. Reaches(Machine', Machine)
      BY <1>3, <3>3, PassesNone DEF Reaches
    <3>. QED
      BY <2>1, <2>3, <3>1, <3>4
  <2>. QED
    BY <2>1, <2>2, <2>3, SMT
<1>. QED
  BY <1>1, <1>4, <1>5, LinksConstant DEF Retraced

LEMMA EmptyRetraced == past = <<>> /\ future = <<>> => Retraced
<1>1. past = <<>> /\ future = <<>> => 1..Len(past) = {} /\ 1..Len(future) = {}
  BY SMT
<1>. QED
  BY <1>1 DEF Retraced

LEMMA FutureType == UndoSpec => [](future \in Seq(Machines))
<1>1. UndoInit => future \in Seq(Machines)
  BY DEF UndoInit
<1>2. DebugTypeOK /\ future \in Seq(Machines) /\ [UndoNext]_undoVars
        => (future \in Seq(Machines))'
  <2> SUFFICES ASSUME DebugTypeOK, future \in Seq(Machines), [UndoNext]_undoVars
               PROVE  future' \in Seq(Machines)
    OBVIOUS
  <2>1. CASE UndoStep
    <3>1. future # <<>> => Len(future) - 1 \in Nat
      BY SMT
    <3>2. future # <<>> => Pop(future) \in Seq(Machines)
      BY <3>1, SMT DEF Pop
    <3>. QED
      BY <2>1, <3>2 DEF UndoStep
  <2>2. CASE future' = Append(future, Machine)
    <3>1. Machine \in Machines
      BY MachineType
    <3>. QED
      BY <2>2, <3>1
  <2>3. CASE future' = future
    BY <2>3
  <2>4. CASE future' = <<>>
    BY <2>4
  <2>5. UndoStep \/ future' = Append(future, Machine) \/ future' = future \/ future' = <<>>
    BY DEF UndoNext, undoVars
  <2>. QED
    BY <2>1, <2>2, <2>3, <2>4, <2>5
<1>. QED
  BY <1>1, <1>2, TypeCorrect, PTL DEF UndoSpec

LEMMA AlwaysRetraced == UndoSpec => []Retraced
<1>1. UndoInit => Retraced
  BY EmptyRetraced DEF UndoInit
<1>2. /\ DebugTypeOK /\ future \in Seq(Machines) /\ Chain /\ Retraced
      /\ [UndoNext]_undoVars
      => Retraced'
  <2> SUFFICES ASSUME DebugTypeOK, future \in Seq(Machines), Chain, Retraced,
                      [UndoNext]_undoVars
               PROVE  Retraced'
    OBVIOUS
  <2>1. CASE UndoStep
    BY <2>1, StepRetraced
  <2>2. CASE StepThrows /\ UNCHANGED <<past, future>>
    BY <2>2, ThrowRetraced
  <2>3. CASE Undo /\ past' = Pop(past) /\ future' = Append(future, Machine)
    BY <2>3, UndoRetraced
  <2>4. CASE (OnAssemble \/ OnReset \/ OnStop \/ OnSelectIsa) /\ past' = <<>> /\ future' = <<>>
    <3>1. 1..Len(past') = {} /\ 1..Len(future') = {}
      BY <2>4, SMT
    <3>. QED
      BY <3>1 DEF Retraced
  <2>5. CASE UNCHANGED undoVars
    <3>1. UNCHANGED <<prog, isa, past, future>> /\ Machine' = Machine
      BY <2>5 DEF undoVars, debugVars, Machine, Flat
    <3>2. \A k : ShownAt(k)' = ShownAt(k) /\ NextShown(k)' = NextShown(k)
      BY <3>1 DEF ShownAt, NextShown
    <3>. QED
      BY <3>1, <3>2, LinksConstant DEF Retraced
  <2>. QED
    BY <2>1, <2>2, <2>3, <2>4, <2>5 DEF UndoNext
<1>. QED
  BY <1>1, <1>2, TypeCorrect, FutureType, Chained, PTL DEF UndoSpec

LEMMA AlikeShown ==
  ASSUME NEW m, NEW n, Alike(m, n), Plain, KeptGpr = RegNum
  PROVE  WithoutPc(Kept(m)) = WithoutPc(Kept(n))
<1> DEFINE fields == {"program", "pc", "gpr", "fpr", "csr", "mem", "retired"}
<1>1. DOMAIN Kept(m) = fields /\ DOMAIN Kept(n) = fields
  BY DEF Kept
<1>2. [c \in KeptCsr |-> m.csr[c]] = [c \in KeptCsr |-> n.csr[c]]
  BY DEF Alike
<1>3. /\ Kept(m).program = Kept(n).program /\ Kept(m).gpr = Kept(n).gpr
      /\ Kept(m).fpr = Kept(n).fpr /\ Kept(m).csr = Kept(n).csr
      /\ Kept(m).mem = Kept(n).mem /\ Kept(m).retired = Kept(n).retired
  BY <1>2 DEF Kept, Alike
<1>4. \A f \in fields \ {"pc"} : Kept(m)[f] = Kept(n)[f]
  BY <1>3
<1>. QED
  BY <1>1, <1>4 DEF WithoutPc

\* A step after an undo shows the registers and the memory that were shown before the undo,
\* however many steps were undone and wherever exceptions had moved the program counter:
\* RVSSVM::Step depends on nothing that Undo leaves as it is, for every program without CSR
\* instructions and without accesses that RV32 does not support.
THEOREM SteppingAgain == UndoSpec => StepsAgain
<1>1. DebugTypeOK /\ future \in Seq(Machines) /\ Retraced /\ [UndoNext]_undoVars
        => [UndoStep /\ future # <<>> /\ Plain
              => WithoutPc(Kept(Machine))' = WithoutPc(Kept(Top(future)))]_undoVars
  <2> SUFFICES ASSUME DebugTypeOK, future \in Seq(Machines), Retraced,
                      UndoStep, future # <<>>, Plain
               PROVE  WithoutPc(Kept(Machine))' = WithoutPc(Kept(Top(future)))
    OBVIOUS
  <2>1. Len(future) \in 1..Len(future) /\ ~(Len(future) + 1 <= Len(future))
    BY SMT
  <2>2. Reaches(Machine, Top(future))
    BY <2>1 DEF Retraced, NextShown, Top
  <2>3. Alike(Machine', Top(future))
    BY <2>2, StepReaches, AlikeSymmetric
  <2>4. KeptGpr = RegNum
    BY DEF Plain, KeptGpr, Occurs
  <2>5. WithoutPc(Kept(Machine')) = WithoutPc(Kept(Top(future)))
    BY <2>3, <2>4, AlikeShown
  <2>6. WithoutPc(Kept(Machine))' = WithoutPc(Kept(Machine'))
    <3>1. UNCHANGED prog
      BY DEF UndoStep, Step
    <3>. QED
      BY <3>1, KeptConstant DEF WithoutPc, Kept
  <2>. QED
    BY <2>5, <2>6
<1>. QED
  BY <1>1, TypeCorrect, FutureType, AlwaysRetraced, PTL DEF UndoSpec, StepsAgain
=============================================================================
