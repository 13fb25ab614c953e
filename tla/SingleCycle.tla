---------------------------- MODULE SingleCycle -----------------------------
(***************************************************************************)
(* RVSSVM (rvss_vm.cpp): one instruction per iteration of RVSSVM::Run,     *)
(* that is Fetch, Decode, Execute, WriteMemory and WriteBack in a row.     *)
(* This is the reference semantics the pipelined machine is compared with. *)
(*                                                                         *)
(* The latches a single iteration fills and drains (execution_result_,     *)
(* memory_result_, next_pc_) are local definitions of the action, and      *)
(* cycle_s_ is left out because it always equals instructions_retired_.    *)
(* The text section is kept apart from the data memory: a store never      *)
(* changes the program.                                                    *)
(***************************************************************************)
EXTENDS Isa

CONSTANTS InitGpr, InitMem    \* what RegisterFile::Reset and LoadProgram leave

VARIABLES
  prog,                  \* program_.text_buffer
  pc,                    \* program_counter_
  gpr, fpr, fcsr,        \* registers_
  mem,                   \* memory_controller_
  instructions_retired,
  stop_requested

vars == <<prog, pc, gpr, fpr, fcsr, mem, instructions_retired, stop_requested>>

Init ==
  /\ prog \in Programs
  /\ pc = 0
  /\ gpr = InitGpr
  /\ fpr = [r \in RegNum |-> Zero]
  /\ fcsr = Zero
  /\ mem \in InitMem
  /\ instructions_retired = 0
  /\ stop_requested = FALSE

----------------------------------------------------------------------------

\* validate_sp: a register that holds no NaN-boxed float is read as a NaN
ValidateSp(v) == IF NanBox(v) = v THEN Low(v) ELSE QNaN

ExecuteFloat(i) ==
  LET a == IF i.f7 = "FROM_GPR" THEN ReadGpr(gpr, i.rs1) ELSE ValidateSp(fpr[i.rs1])
      b == IF i.f7 = "FROM_GPR" THEN fpr[i.rs2] ELSE ValidateSp(fpr[i.rs2])
  IN  [result |-> FpExecute(i, a, b), status |-> FpStatus(i, a, b)]

\* base + offset of every load and store
Address(i) == Add(ReadGpr(gpr, i.rs1), i.imm)

\* WriteMemory and WriteMemoryFloat: memory_result_ and the stored value
MemoryResult(i) ==
  LET v == Load(i, mem, Address(i)) IN IF IsFloat(i) THEN NanBox(v) ELSE v

StoreData(i) ==
  IF IsFloat(i) THEN Low(fpr[i.rs2]) ELSE ReadGpr(gpr, i.rs2)

\* the integer result WriteBack gives to rd
IntegerResult(i) ==
  LET a == ReadGpr(gpr, i.rs1)
      b == IF AluSrc(i) THEN i.imm ELSE ReadGpr(gpr, i.rs2)
  IN  CASE i.op = "LOAD"              -> MemoryResult(i)
        [] i.op = "LUI"               -> UpperS(i.imm)
        [] i.op = "AUIPC"             -> Add(PcWord(pc), UpperS(i.imm))
        [] i.op \in {"JAL", "JALR"}   -> PcWord(pc + 1)
        [] OTHER                      -> AluExecute(i, a, b)

NextPc(i) ==
  LET a == ReadGpr(gpr, i.rs1)
      b == ReadGpr(gpr, i.rs2)
  IN  CASE i.op = "JAL"  -> BranchTarget(pc, i.imm)
        [] i.op = "JALR" -> JumpTarget(AluExecute(i, a, i.imm))
        [] i.op = "BRANCH" /\ Taken(i, a, b) -> BranchTarget(pc, i.imm)
        [] OTHER -> pc + 1

\* WriteBackFloat writes these to an FPR, and always NaN-boxed
WritesFpr(i) ==
  i.op = "LOADFP" \/ (i.op = "OPFP" /\ i.f7 \notin {"TO_GPR", "CMP"})

WriteBack(i) ==
  LET fp == IF i.op = "LOADFP" THEN MemoryResult(i) ELSE ExecuteFloat(i).result
  IN  /\ gpr' = IF ~RegWrite(i) \/ WritesFpr(i) THEN gpr
                ELSE WriteGpr(gpr, i.rd, IF i.op = "OPFP" THEN fp ELSE IntegerResult(i))
      /\ fpr' = IF WritesFpr(i) THEN [fpr EXCEPT ![i.rd] = NanBox(fp)] ELSE fpr

(***************************************************************************)
(* One iteration of the loop of RVSSVM::Run.  HandleSyscall only writes to *)
(* the console, except for EXIT, which stops the loop.                     *)
(***************************************************************************)
Execute(i) ==
  /\ pc' = NextPc(i)
  /\ fcsr' = IF i.op = "OPFP" THEN ExecuteFloat(i).status ELSE fcsr
  /\ mem' = IF MemWrite(i) THEN Store(i, mem, Address(i), StoreData(i)) ELSE mem
  /\ WriteBack(i)
  /\ stop_requested' = (i.op = "ECALL" /\ IsExit(ReadGpr(gpr, SyscallReg)))
  /\ instructions_retired' = instructions_retired + 1
  /\ UNCHANGED prog

Next ==
  /\ ~stop_requested
  /\ pc < Len(prog)
  /\ Execute(prog[pc + 1])

Spec == Init /\ [][Next]_vars

\* the loop of Run goes on until its condition fails
LiveSpec == Spec /\ WF_vars(Next)
=============================================================================
