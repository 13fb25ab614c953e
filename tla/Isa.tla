-------------------------------- MODULE Isa --------------------------------
(***************************************************************************)
(* What the two virtual machines of the simulator share: the instruction   *)
(* format, the control signals of RVSSControlUnit, the register file's     *)
(* read and write rules, and the combinational units.  The arithmetic of   *)
(* the units is left to constant operators, so that what is proved holds   *)
(* of whatever alu.cpp computes; only the conversions that the two         *)
(* machines apply at different places (truncation to XLEN, NaN-boxing, the *)
(* reading of the low half of a floating-point operand) are named.         *)
(*                                                                         *)
(* An instruction is the record of the bit fields the machines look at:    *)
(*   op   the opcode, bits 6:0                                             *)
(*   rd, rs1, rs2   the register fields, present in every instruction      *)
(*        word even when the instruction has no such operand               *)
(*   f7   what bits 31:25 say when they are read as funct7                 *)
(*   imm  what ImmGenerator returns, as a 64-bit value                     *)
(* Double precision (FLD, FSD, *.D) and the CSR instructions are not in    *)
(* this instruction set.  A program counter is an instruction index: the   *)
(* byte address divided by 4.                                              *)
(***************************************************************************)
EXTENDS Naturals, Sequences

CONSTANTS
  Word,               \* uint64_t
  Zero,               \* the value 0
  RegNum,             \* register numbers (0..31 in registers.h)
  Mem,                \* contents of the byte memory
  ImmVal,             \* immediates, a subset of Word
  InstrSet,           \* the instructions programs are made of
  Programs,           \* the text sections that can be loaded
  SyscallReg,         \* a7
  Add(_, _),          \* AluOp::kAdd
  Alu(_, _, _),       \* Alu::execute with the operation GetAluSignal selects
  FAlu(_, _, _),      \* the result of Alu::fpexecute
  FFlags(_, _, _),    \* the exception flags of Alu::fpexecute
  Taken(_, _, _),     \* the comparison of a conditional branch
  BranchTarget(_, _), \* instruction_pc_ + imm
  JumpTarget(_),      \* the pc a JALR takes from a register value
  PcWord(_),          \* a program counter as a register value
  UpperZ(_),          \* static_cast<uint64_t>(imm) << 12
  UpperS(_),          \* imm << 12, computed in int32_t
  GprMask(_),         \* the value kept by a GPR: all 64 bits, or the low 32
  NanBox(_),          \* 0xFFFFFFFF00000000 | low 32 bits
  Low(_),             \* the low 32 bits
  QNaN,               \* the canonical NaN of validate_sp
  Load(_, _, _),      \* the bytes a load reads, extended to 64 bits
  Store(_, _, _, _),  \* the memory after a store
  Misaligned(_, _),   \* the address breaks the alignment of the width
  IsExit(_)           \* the value of a7 is SYSCALL_EXIT

Opcode == {"OP", "OPIMM", "LOAD", "STORE", "LUI", "AUIPC", "BRANCH", "JAL",
           "JALR", "ECALL", "OTHER", "LOADFP", "STOREFP", "OPFP"}

\* FROM_GPR: FCVT.S.W[U], FMV.W.X; TO_GPR: FCVT.W[U].S, FMV.X.W, FCLASS.S;
\* CMP: FEQ, FLT, FLE; UNARY: FSQRT; ARITH: every other bit pattern.
Funct7 == {"ARITH", "UNARY", "CMP", "TO_GPR", "FROM_GPR"}

Instr == [op : Opcode, rd : RegNum, rs1 : RegNum, rs2 : RegNum,
          f7 : Funct7, imm : ImmVal]

\* instruction word 0, the default of every pipeline register
NoInstr == [op |-> "OTHER", rd |-> 0, rs1 |-> 0, rs2 |-> 0,
            f7 |-> "ARITH", imm |-> Zero]

(***************************************************************************)
(* Closure of the units, and the facts about bit patterns that hold of     *)
(* 64-bit values whatever the program does.                                *)
(***************************************************************************)
ASSUME ConstantTypes ==
  /\ Zero \in ImmVal /\ ImmVal \subseteq Word
  /\ RegNum \subseteq Nat /\ 0 \in RegNum /\ SyscallReg \in RegNum
  /\ QNaN \in Word
  /\ InstrSet \subseteq Instr
  /\ Programs \subseteq Seq(InstrSet)

ASSUME UnitTypes ==
  /\ \A a, b \in Word : Add(a, b) \in Word
  /\ \A i \in InstrSet, a, b \in Word :
       /\ Alu(i, a, b) \in Word  /\ FAlu(i, a, b) \in Word
       /\ FFlags(i, a, b) \in Word
       /\ Taken(i, a, b) \in BOOLEAN
  /\ \A i \in InstrSet, a \in Word :
       /\ Misaligned(i, a) \in BOOLEAN
       /\ \A m \in Mem : /\ Load(i, m, a) \in Word
                          /\ \A v \in Word : Store(i, m, a, v) \in Mem
  /\ \A p \in Programs : \A n \in 0..Len(p) :
       /\ PcWord(n) \in Word
       /\ \A v \in ImmVal : BranchTarget(n, v) \in Nat
  /\ \A v \in Word : JumpTarget(v) \in Nat
  /\ \A v \in Word : /\ GprMask(v) \in Word /\ GprMask(GprMask(v)) = GprMask(v)
                     /\ NanBox(v) \in Word  /\ Low(v) \in Word
                     /\ IsExit(v) \in BOOLEAN
  /\ \A v \in ImmVal : UpperZ(v) \in Word /\ UpperS(v) \in Word

ASSUME BoxingFacts ==
  \A v \in Word : /\ NanBox(NanBox(v)) = NanBox(v)
                  /\ Low(NanBox(v)) = Low(v)
                  /\ Low(Low(v)) = Low(v)

ASSUME AddZero == \A v \in Word : Add(Zero, v) = v

----------------------------------------------------------------------------
(* RVSSControlUnit::SetControlSignals *)

RegWrite(i) == i.op \in {"OP", "OPIMM", "LOAD", "LUI", "AUIPC", "JAL", "JALR",
                         "LOADFP", "OPFP"}
MemRead(i)  == i.op \in {"LOAD", "LOADFP"}
MemWrite(i) == i.op \in {"STORE", "STOREFP"}
AluSrc(i)   == i.op \in {"LOAD", "STORE", "OPIMM", "LUI", "AUIPC", "JALR",
                         "LOADFP", "STOREFP"}

\* instruction_set::isFInstruction
IsFloat(i) == i.op \in {"LOADFP", "STOREFP", "OPFP"}

(***************************************************************************)
(* RVSSControlUnit::GetAluSignal followed by Alu::execute: the address,    *)
(* upper-immediate and jump opcodes select kAdd.                           *)
(***************************************************************************)
AluExecute(i, a, b) ==
  IF i.op \in {"LOAD", "STORE", "LUI", "AUIPC", "JAL", "JALR"}
  THEN Add(a, b)
  ELSE Alu(i, a, b)

(***************************************************************************)
(* Alu::fpexecute: an operand from a floating-point register is the float  *)
(* in the low half of its argument (memcpy of sizeof(float)), an integer   *)
(* operand is the whole argument, and the unary operations do not look at  *)
(* the second argument.                                                    *)
(***************************************************************************)
FpOperandA(i, a) == IF i.f7 = "FROM_GPR" THEN a ELSE Low(a)
FpOperandB(i, b) == IF i.f7 \in {"ARITH", "CMP"} THEN Low(b) ELSE Zero
FpExecute(i, a, b) == FAlu(i, FpOperandA(i, a), FpOperandB(i, b))
FpStatus(i, a, b)  == FFlags(i, FpOperandA(i, a), FpOperandB(i, b))

(* RegisterFile: x0 reads as 0 and is never written; under RV32 only the
   low half of a GPR is kept. *)
ReadGpr(g, r) == IF r = 0 THEN Zero ELSE GprMask(g[r])
WriteGpr(g, r, v) == IF r = 0 THEN g ELSE [g EXCEPT ![r] = GprMask(v)]

=============================================================================
