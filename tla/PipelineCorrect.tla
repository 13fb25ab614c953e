-------------------------- MODULE PipelineCorrect --------------------------
(***************************************************************************)
(* What the pipelined machine owes its user: it executes every instruction *)
(* of the program once and in order, and it computes what the single-cycle *)
(* machine computes.                                                       *)
(*                                                                         *)
(* An instruction is committed when it leaves EX.  The architectural state *)
(* after the committed instructions is the register files and the memory   *)
(* with the results that are still on their way through MEM and WB added;  *)
(* SC is the single-cycle machine of that state.                          *)
(***************************************************************************)
EXTENDS Pipeline, Integers

----------------------------------------------------------------------------
(* Types and order *)

Fetched(l) == l.valid => l.instr \in InstrSet

LatchTypes ==
  /\ if_id \in [valid : BOOLEAN, pc : 0..Len(prog), instr : Instr]
  /\ id_ex \in [valid : BOOLEAN, pc : 0..Len(prog), instr : Instr,
                reg1_value : Word, reg2_value : Word]
  /\ ex_mem \in [valid : BOOLEAN, pc : 0..Len(prog), instr : Instr,
                 alu_result : Word, reg2_value : Word]
  /\ mem_wb \in [valid : BOOLEAN, pc : 0..Len(prog), instr : Instr, reg_write : BOOLEAN,
                 alu_result : Word, mem_data : Word]
  /\ Fetched(if_id) /\ Fetched(id_ex) /\ Fetched(ex_mem) /\ Fetched(mem_wb)

\* Type invariant: every variable of RVSSVMPipelined keeps its type, and the
\* program counter stays within the text section or just past its end.
TypeOK ==
  /\ prog \in Programs
  /\ pc \in 0..Len(prog)
  /\ LatchTypes
  /\ gpr \in [RegNum -> Word]
  /\ fpr \in [RegNum -> Word]
  /\ fcsr \in Word
  /\ mem \in Mem
  /\ instructions_retired \in Nat
  /\ cycle_s \in Nat
  /\ stop_requested \in BOOLEAN

\* the pc of the instruction in the pipeline register l, when the next younger
\* one is at n
Before(l, n) == IF l.valid THEN n - 1 ELSE n

\* the pc of the oldest instruction that has not left ID, EX, MEM and WB
DecodedPc   == Before(if_id, pc)
CommittedPc == Before(id_ex, DecodedPc)
MemoryPc    == Before(ex_mem, CommittedPc)
RetiredPc   == Before(mem_wb, MemoryPc)

Holds(l, n) == IF l.valid THEN l.pc = n /\ n < Len(prog) /\ l.instr = prog[n + 1]
                          ELSE l.instr = NoInstr

\* Whatever the configuration, no stall and no bubble loses, repeats or
\* reorders an instruction: the pipeline registers hold consecutive
\* instructions of the program, and everything older has been retired.
\* The forwarding unit looks at reg_write alone in MEM/WB: it is never set for an
\* instruction that is not there.
InOrder ==
  ~stop_requested =>
    /\ instructions_retired = RetiredPc
    /\ Holds(mem_wb, RetiredPc)
    /\ Holds(ex_mem, MemoryPc)
    /\ Holds(id_ex, CommittedPc)
    /\ Holds(if_id, DecodedPc)
    /\ mem_wb.reg_write = (mem_wb.valid /\ RegWrite(mem_wb.instr))

----------------------------------------------------------------------------
(* The single-cycle machine of the committed instructions *)

ToFpr(i) == WbToFpr(i)
ToGpr(i) == RegWrite(i) /\ ~RdIsFloat(i)

\* the value the instruction that has left EX will give to its destination
PendingValue(l) == IF MemRead(l.instr) THEN MemData(l, mem) ELSE l.alu_result

CommittedGpr ==
  LET g == WbGpr(mem_wb, gpr)
  IN  IF ex_mem.valid /\ ToGpr(ex_mem.instr)
      THEN WriteGpr(g, ex_mem.instr.rd, PendingValue(ex_mem)) ELSE g

CommittedFpr ==
  LET f == WbFpr(mem_wb, fpr)
  IN  IF ex_mem.valid /\ ToFpr(ex_mem.instr)
      THEN [f EXCEPT ![ex_mem.instr.rd] = NanBox(PendingValue(ex_mem))] ELSE f

\* the store in MEM is done, aligned or not: RVSSVM does not check
CommittedMem ==
  IF ex_mem.valid /\ MemWrite(ex_mem.instr)
  THEN Store(ex_mem.instr, mem, ex_mem.alu_result,
             IF IsFloat(ex_mem.instr) THEN Low(ex_mem.reg2_value) ELSE ex_mem.reg2_value)
  ELSE mem

SC == INSTANCE SingleCycle WITH
         pc <- CommittedPc, gpr <- CommittedGpr, fpr <- CommittedFpr,
         mem <- CommittedMem, instructions_retired <- CommittedPc,
         stop_requested <- FALSE

\* A clock cycle does what the single-cycle machine does in one instruction,
\* or nothing that a program can see, up to the cycle of an alignment fault
\* (RVSSVM performs a misaligned access).
StepsLikeSingleCycle ==
  [][stop_requested' \/ SC!Next \/ UNCHANGED SC!vars]_vars

\* When no access of the program is misaligned, a run of the pipelined
\* machine is a run of the single-cycle machine.
IsSingleCycle == SC!Spec

----------------------------------------------------------------------------
(* The programs on which the two machines agree *)

\* the floating-point registers fpexecute takes operands from
FpSources(i) ==
  CASE i.op # "OPFP" \/ i.f7 = "FROM_GPR" -> {}
    [] i.op = "OPFP" /\ i.f7 \in {"TO_GPR", "UNARY"} -> {i.rs1}
    [] OTHER -> {i.rs1, i.rs2}

\* every instruction of p is one that both machines execute alike: there is no
\* branch, jump or system call, an upper immediate is positive, the offset of
\* an FLW does not look like the funct7 of FMV.X.W, f0 is a destination only
\* when results are forwarded, and a floating-point operand has been written
\* by an earlier instruction
Agreeing(p) ==
  \A k \in 1..Len(p) :
    LET i == p[k]
    IN  /\ i.op \notin {"BRANCH", "JAL", "JALR", "ECALL"}
        /\ i.op \in {"LUI", "AUIPC"} => UpperZ(i.imm) = UpperS(i.imm)
        /\ i.op = "LOADFP" => i.f7 # "TO_GPR"
        /\ ~Forwarding /\ RdIsFloat(i) => i.rd # 0
        /\ \A r \in FpSources(i) : \E j \in 1..(k - 1) : RdIsFloat(p[j]) /\ p[j].rd = r

\* RV64: a forwarded result is the value the register file would return
FullWidth == \A v \in Word : GprMask(v) = v

\* the machines agree: hazards are detected, the forwarded values are the stored
\* ones, and every program is of the kind above
Agreement ==
  /\ HazardDetection
  /\ Forwarding => FullWidth
  /\ \A p \in Programs : Agreeing(p)

----------------------------------------------------------------------------
(* Why it agrees *)

\* the instruction in l, which has left EX, has a result for the operand r
Writes(l, r, isFloat) ==
  /\ l.valid /\ RegWrite(l.instr)
  /\ RdIsFloat(l.instr) = isFloat
  /\ l.instr.rd = r
  /\ r # 0 \/ isFloat

\* the forwarding unit can deliver the newest value of r; without forwarding
\* the register file has it
Ready(r, isFloat) ==
  IF Forwarding THEN MemRead(ex_mem.instr) => ~Writes(ex_mem, r, isFloat)
                ELSE ~Writes(ex_mem, r, isFloat) /\ ~Writes(mem_wb, r, isFloat)

\* The operands ID latched are usable in EX: each is the register file's value
\* (of this cycle, before WB), and a newer result on its way is one that
\* forwarding can deliver: the hazard unit has held the instruction back as
\* long as that was not so.
OperandsFresh ==
  id_ex.valid /\ ~stop_requested =>
    LET i == id_ex.instr
    IN  /\ id_ex.reg1_value = ReadRs1(i, gpr, fpr)
        /\ id_ex.reg2_value = ReadRs2(i, gpr, fpr)
        /\ Ready(i.rs1, Rs1IsFloat(i))
        /\ Ready(i.rs2, Rs2IsFloat(i))

\* The floating-point registers written by the committed instructions hold
\* NaN-boxed values, which is what validate_sp asks for.
CommittedBoxed ==
  ~stop_requested =>
    \A j \in 1..CommittedPc :
      RdIsFloat(prog[j]) => LET v == CommittedFpr[prog[j].rd] IN NanBox(v) = v

\* the operands the instruction has, rather than the fields its word has
UsesRs1(i) == i.op \notin {"LUI", "AUIPC", "JAL", "ECALL", "OTHER"}
UsesRs2(i) == \/ i.op \in {"OP", "STORE", "BRANCH", "STOREFP"}
              \/ i.op = "OPFP" /\ i.f7 \in {"ARITH", "CMP"}

Needs(i, l) ==
  \/ UsesRs1(i) /\ Writes(l, i.rs1, Rs1IsFloat(i))
  \/ UsesRs2(i) /\ Writes(l, i.rs2, Rs2IsFloat(i))

\* An instruction is held in ID only while one ahead of it computes an operand it
\* reads: "returns true when EX-stage instruction is a load and ID-stage
\* instruction reads the loaded register (rs1 or rs2)".
StallsAreNeeded ==
  Stall(if_id) => Needs(if_id.instr, id_ex) \/ Needs(if_id.instr, ex_mem)

----------------------------------------------------------------------------
(* Progress *)

Finished == ~PipelineHasWork /\ ~FetchRemaining

\* Run returns: no program makes the pipeline stall for ever.
Returns == <>(Finished \/ stop_requested)

\* The cost of a program: four cycles to fill and drain, one cycle for each
\* instruction, and at most one bubble between two of them with forwarding, two without.
CycleBound ==
  LET n == Len(prog)
      bubbles == IF Forwarding THEN 1 ELSE 2
  IN  Finished /\ ~stop_requested /\ n > 0 =>
        cycle_s \in (n + 4)..(n + 4 + bubbles * (n - 1))
=============================================================================
