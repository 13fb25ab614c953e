---------------------------- MODULE SingleDebug -----------------------------
(***************************************************************************)
(* The single-cycle machine under the buttons of the main window: RVSSVM   *)
(* Step, Undo and Reset (rvss_vm.cpp) on the registers and the byte        *)
(* memory.  Every execution the user interface starts is a sequence of     *)
(* calls of Step; nothing calls Run or DebugRun.                           *)
(*                                                                         *)
(* Step records the old value of what it writes in a StepDelta and pushes  *)
(* it on undo_stack_.  An access outside of the memory throws an exception *)
(* out of the middle of Step; the background thread catches it and the     *)
(* machine may be used on.                                                 *)
(*                                                                         *)
(* An instruction is what the control unit and the functions of the        *)
(* instruction_set tell apart:                                             *)
(*   op      ALU (everything integer that only writes rd, LUI included),   *)
(*           AUIPC, JAL, JALR, BRANCH, LOAD, STORE, FLOAD, FSTORE, FOP     *)
(*           (writes an FPR), FFROMGPR (the same, from a GPR), FTOGPR,     *)
(*           CSR, ECALL, and OTHER, which changes nothing: the fused       *)
(*           multiply-adds are of this kind, for neither isFInstruction    *)
(*           nor isDInstruction knows them and RegWrite is not set         *)
(*   size    the bytes of an access, or of the floating-point format       *)
(*   csr     the CSR, target  the instruction a jump or branch leads to    *)
(*   funct3  of CSR instructions                                           *)
(* A program counter is an instruction index, and the text section is kept *)
(* apart from the data.  The rounding mode is the instruction's.           *)
(***************************************************************************)
EXTENDS Memory, Sequences

CONSTANTS
  AddressSpace,       \* 2^64
  RegNum, CsrNum,
  Fcsr,               \* 0x003
  InstrSet, Programs, InitGpr,
  LoadedMem(_),       \* the data section LoadProgram writes
  FloatSize,          \* sizeof(float) and sizeof(double)
  DoubleSize,
  Alu(_, _, _),       \* Alu::execute, AUIPC and LUI included
  FAlu(_, _, _),      \* fpexecute and dfpexecute
  FFlags(_, _, _),
  Taken(_, _, _),     \* the comparison of a conditional branch
  JumpTarget(_),      \* the pc a JALR takes from a value
  PcWord(_),          \* a program counter as a register value
  Join(_),            \* bytes put together, the lowest first
  ByteOf(_, _),       \* (v >> 8 * k) & 0xFF
  Extend(_, _),       \* the sign or zero extension of a load
  Low(_),             \* the low 32 bits
  NanBox(_),          \* 0xFFFFFFFF00000000 | low 32 bits
  Or(_, _), AndNot(_, _),
  MaxSteps,           \* bound: the longest undo stack
  LaterPrograms       \* bound: what the first program may be edited into

VARIABLES
  prog,               \* program_.text_buffer
  program,            \* MainWindow::program
  isa,                \* current_isa of the register file
  pc, gpr, fpr, csr,
  mem,                \* blocks_
  memory_result,      \* memory_result_, which a load that is not supported leaves
  retired,            \* instructions_retired_, always equal to cycle_s_
  undo_stack          \* undo_stack_, the top last

debugVars ==
  <<prog, program, isa, pc, gpr, fpr, csr, mem, memory_result, retired, undo_stack>>

Word == 0..AddressSpace - 1

FloatOps == {"FLOAD", "FSTORE", "FOP", "FFROMGPR", "FTOGPR"}
Accesses == {"LOAD", "STORE", "FLOAD", "FSTORE"}
Ops == {"ALU", "AUIPC", "JAL", "JALR", "BRANCH", "CSR", "ECALL", "OTHER"} \union FloatOps
         \union Accesses
CsrFunct3 == {"CSRRW", "CSRRS", "CSRRC", "CSRRWI", "CSRRSI", "CSRRCI"}

Instr == [op : Ops, size : 1..DoubleSize, rd : RegNum, rs1 : RegNum, rs2 : RegNum, imm : Word,
          csr : CsrNum, target : Nat, funct3 : CsrFunct3]

\* the word 0, which OnStop leaves in the text section
NoInstr == [op |-> "OTHER", size |-> 1, rd |-> 0, rs1 |-> 0, rs2 |-> 0, imm |-> 0,
            csr |-> Fcsr, target |-> 0, funct3 |-> "CSRRW"]

ASSUME DebugConstants ==
  /\ AddressSpace \in Nat \ {0}
  /\ FloatSize \in Nat \ {0} /\ DoubleSize \in Nat \ {0} /\ FloatSize < DoubleSize
  /\ DoubleSize <= MemorySize /\ MemorySize <= AddressSpace
  /\ RegNum \subseteq Word /\ 0 \in RegNum /\ Fcsr \in CsrNum
  /\ InstrSet \subseteq Instr /\ Programs \subseteq Seq(InstrSet)
  /\ LaterPrograms \subseteq Programs
  /\ InitGpr \in [RegNum -> Word] /\ InitGpr[0] = 0
  /\ \A r \in RegNum : Low(InitGpr[r]) = InitGpr[r]
  /\ \A p \in Programs : IsMemory(LoadedMem(p))
  /\ MaxSteps \in Nat

ASSUME DebugUnits ==
  /\ \A i \in InstrSet, a, b \in Word :
       /\ Alu(i, a, b) \in Word /\ FAlu(i, a, b) \in Word /\ FFlags(i, a, b) \in Word
       /\ Taken(i, a, b) \in BOOLEAN /\ Extend(i, a) \in Word
  /\ \A a, b \in Word : Or(a, b) \in Word /\ AndNot(a, b) \in Word
  /\ \A v \in Word : JumpTarget(v) \in Nat /\ NanBox(v) \in Word
  /\ \A v \in Word : Low(v) \in Word /\ Low(Low(v)) = Low(v)
  /\ \A p \in Programs : \A n \in 0..Len(p) : PcWord(n) \in Word
  /\ \A n \in 1..DoubleSize : \A b \in [0..n - 1 -> Byte] : Join(b) \in Word
  /\ \A v \in Word, k \in 0..DoubleSize - 1 : ByteOf(v, k) \in Byte

DebugInit ==
  /\ program \in Programs /\ prog = program
  /\ isa \in {"RV32", "RV64"}
  /\ pc = 0 /\ retired = 0 /\ undo_stack = <<>>
  /\ gpr = InitGpr
  /\ fpr = [r \in RegNum |-> 0]
  /\ csr = [c \in CsrNum |-> 0]
  /\ mem = LoadedMem(program)
  /\ memory_result = 0

----------------------------------------------------------------------------
(* RegisterFile *)

ReadGpr(r) == IF r = 0 THEN 0 ELSE IF isa = "RV32" THEN Low(gpr[r]) ELSE gpr[r]

WriteGpr(r, v) ==
  IF r = 0 THEN gpr ELSE [gpr EXCEPT ![r] = IF isa = "RV32" THEN Low(v) ELSE v]

----------------------------------------------------------------------------
(* Execute and WriteMemory *)

\* vmError, and nothing else; but a LOAD is still written back
Unsupported(i) == isa = "RV32" /\ i.size = DoubleSize /\ i.op \in Accesses \union FloatOps

Address(i) == (ReadGpr(i.rs1) + i.imm) % AddressSpace

Throws(i) == i.op \in Accesses /\ ~Unsupported(i) /\ ~InRange(Address(i), i.size)

Loaded(i) == Join(ReadGeneric(mem, Address(i), i.size))

\* a mistake: memory_result_ is not cleared between two loads
MemoryResult_Mixed(i) ==
  IF Unsupported(i) THEN memory_result
  ELSE CASE i.op = "LOAD"  -> Or(memory_result, Extend(i, Loaded(i)))
         [] i.op = "FLOAD" -> IF i.size = FloatSize THEN NanBox(Loaded(i)) ELSE Loaded(i)
         [] OTHER          -> memory_result

MemoryResult(i) ==
  IF Unsupported(i) THEN memory_result
  ELSE CASE i.op = "LOAD"  -> Extend(i, Loaded(i))
         [] i.op = "FLOAD" -> IF i.size = FloatSize THEN NanBox(Loaded(i)) ELSE Loaded(i)
         [] OTHER          -> memory_result

Stores(i) == i.op \in {"STORE", "FSTORE"} /\ ~Unsupported(i)

StoreBytes(i) ==
  LET v == IF i.op = "FSTORE" THEN fpr[i.rs2] ELSE ReadGpr(i.rs2)
  IN  [k \in 0..i.size - 1 |-> ByteOf(v, k)]

Executes(i) == i.op \in {"FOP", "FFROMGPR", "FTOGPR"} /\ ~Unsupported(i)
FpOperand(i) == IF i.op = "FFROMGPR" THEN ReadGpr(i.rs1) ELSE fpr[i.rs1]
FpResult(i) == FAlu(i, FpOperand(i), fpr[i.rs2])

NextPc(i) ==
  CASE i.op = "JAL"  -> i.target
    [] i.op = "JALR" -> JumpTarget(Address(i))
    [] i.op = "BRANCH" /\ Taken(i, ReadGpr(i.rs1), ReadGpr(i.rs2)) -> i.target
    [] OTHER -> pc + 1

----------------------------------------------------------------------------
(* WriteBack, WriteBackFloat, WriteBackDouble and WriteBackCsr *)

WritesGpr(i) ==
  \/ i.op \in {"ALU", "AUIPC", "JAL", "JALR", "LOAD"}
  \/ i.op = "FTOGPR" /\ ~Unsupported(i)

GprResult(i) ==
  CASE i.op = "ALU"   -> Alu(i, ReadGpr(i.rs1), ReadGpr(i.rs2))
    [] i.op = "AUIPC" -> (PcWord(pc) + i.imm) % AddressSpace
    [] i.op = "LOAD"  -> MemoryResult(i)
    [] i.op = "CSR"   -> csr[i.csr]
    [] i.op = "FTOGPR" -> FpResult(i)
    [] OTHER          -> PcWord(pc + 1)

WritesFpr(i) == i.op \in {"FLOAD", "FOP", "FFROMGPR"} /\ ~Unsupported(i)

FprResult(i) ==
  LET v == IF i.op = "FLOAD" THEN MemoryResult(i) ELSE FpResult(i)
  IN  IF i.size = FloatSize THEN NanBox(v) ELSE v

CsrOperand(i) ==
  IF i.funct3 \in {"CSRRWI", "CSRRSI", "CSRRCI"} THEN i.rs1 ELSE ReadGpr(i.rs1)

WritesCsr(i) ==
  i.op = "CSR" /\ (i.funct3 \in {"CSRRW", "CSRRWI"} \/ CsrOperand(i) # 0)

CsrResult(i) ==
  CASE i.funct3 \in {"CSRRW", "CSRRWI"} -> CsrOperand(i)
    [] i.funct3 \in {"CSRRS", "CSRRSI"} -> Or(csr[i.csr], CsrOperand(i))
    [] OTHER                            -> AndNot(csr[i.csr], CsrOperand(i))

----------------------------------------------------------------------------
(* StepDelta *)

\* what a CSR instruction does to rd, and an operation to fcsr, is not recorded
RegisterChange(i) ==
  CASE WritesGpr(i) -> [reg_type |-> "GPR", reg_index |-> i.rd, old_value |-> ReadGpr(i.rd)]
    [] WritesFpr(i) -> [reg_type |-> "FPR", reg_index |-> i.rd, old_value |-> fpr[i.rd]]
    [] WritesCsr(i) -> [reg_type |-> "CSR", reg_index |-> i.csr, old_value |-> csr[i.csr]]
    [] OTHER        -> [reg_type |-> "NONE", reg_index |-> 0, old_value |-> 0]

NoStore == [address |-> 0, old_bytes |-> [k \in {} |-> 0]]

\* a mistake: one byte is recorded whatever the width of the store
MemoryChange_Byte(i) ==
  IF Stores(i)
  THEN [address |-> Address(i), old_bytes |-> ReadGeneric(mem, Address(i), 1)]
  ELSE NoStore

MemoryChange(i) ==
  IF Stores(i)
  THEN [address |-> Address(i), old_bytes |-> ReadGeneric(mem, Address(i), i.size)]
  ELSE NoStore

----------------------------------------------------------------------------
(* RVSSVM::Step *)

Current == prog[pc + 1]

Step ==
  /\ pc < Len(prog) /\ Len(undo_stack) < MaxSteps
  /\ ~Throws(Current)
  /\ pc' = NextPc(Current)
  /\ memory_result' = MemoryResult(Current)
  /\ mem' = IF Stores(Current) THEN WriteGeneric(mem, Address(Current), StoreBytes(Current))
            ELSE mem
  /\ gpr' = IF WritesGpr(Current) \/ Current.op = "CSR"
            THEN WriteGpr(Current.rd, GprResult(Current)) ELSE gpr
  /\ fpr' = IF WritesFpr(Current) THEN [fpr EXCEPT ![Current.rd] = FprResult(Current)] ELSE fpr
  /\ csr' = IF Executes(Current)
            THEN [csr EXCEPT ![Fcsr] = FFlags(Current, FpOperand(Current), fpr[Current.rs2])]
            ELSE IF WritesCsr(Current) THEN [csr EXCEPT ![Current.csr] = CsrResult(Current)]
            ELSE csr
  /\ retired' = retired + 1
  /\ undo_stack' = Append(undo_stack,
       [old_pc |-> pc, register_change |-> RegisterChange(Current),
        memory_change |-> MemoryChange(Current)])
  /\ UNCHANGED <<prog, program, isa>>

\* Fetch has moved the program counter when the exception leaves Step; the background
\* thread catches it, and the machine can be stepped on
StepThrows ==
  /\ pc < Len(prog) /\ Len(undo_stack) < MaxSteps
  /\ Throws(Current)
  /\ pc' = pc + 1
  /\ UNCHANGED <<prog, program, isa, gpr, fpr, csr, mem, memory_result, retired, undo_stack>>

----------------------------------------------------------------------------
(* RVSSVM::Undo and Reset *)

Undo ==
  /\ undo_stack # <<>>
  /\ LET last == undo_stack[Len(undo_stack)]
         c == last.register_change
     IN  /\ pc' = last.old_pc
         /\ gpr' = IF c.reg_type = "GPR" THEN WriteGpr(c.reg_index, c.old_value) ELSE gpr
         /\ fpr' = IF c.reg_type = "FPR" THEN [fpr EXCEPT ![c.reg_index] = c.old_value] ELSE fpr
         /\ csr' = IF c.reg_type = "CSR" THEN [csr EXCEPT ![c.reg_index] = c.old_value] ELSE csr
         /\ mem' = WriteGeneric(mem, last.memory_change.address, last.memory_change.old_bytes)
  /\ undo_stack' = SubSeq(undo_stack, 1, Len(undo_stack) - 1)
  /\ retired' = retired - 1
  /\ UNCHANGED <<prog, program, isa, memory_result>>

Reset ==
  /\ pc' = 0 /\ retired' = 0 /\ undo_stack' = <<>>
  /\ gpr' = InitGpr
  /\ fpr' = [r \in RegNum |-> 0]
  /\ csr' = [c \in CsrNum |-> 0]
  /\ memory_result' = 0

LoadProgram(p) == prog' = p /\ mem' = LoadedMem(p)

\* a program without errors was assembled
OnAssemble ==
  /\ Reset
  /\ \E p \in LaterPrograms : LoadProgram(p) /\ program' = p
  /\ UNCHANGED isa

OnReset == Reset /\ LoadProgram(program) /\ UNCHANGED <<program, isa>>

\* the memory is cleared and no program loaded; program_size_ is what it was
OnStop ==
  /\ Reset
  /\ prog' = [k \in 1..Len(prog) |-> NoInstr]
  /\ mem' = NoBlocks
  /\ UNCHANGED <<program, isa>>

\* the choice of the other instruction set in the processor dialog
OnSelectIsa ==
  /\ Reset
  /\ LoadProgram(program)
  /\ isa' \in {"RV32", "RV64"} \ {isa}
  /\ UNCHANGED program

\* the user may stop pressing buttons at any time: no fairness
DebugNext == Step \/ StepThrows \/ Undo \/ OnAssemble \/ OnReset \/ OnStop \/ OnSelectIsa

DebugSpec == DebugInit /\ [][DebugNext]_debugVars
=============================================================================
