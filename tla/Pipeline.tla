------------------------------ MODULE Pipeline ------------------------------
(***************************************************************************)
(* RVSSVMPipelined (rvss_vm_pipelined.cpp): the five-stage machine.  A     *)
(* step of this module is one clock cycle, an iteration of                 *)
(* RVSSVMPipelined::Run: WB, MEM, EX, ID and IF in this order, each        *)
(* reading the pipeline registers of the last cycle and filling those of   *)
(* the next one, then advance_pipeline_registers.  Because WB runs first,  *)
(* ID reads register values that WB wrote in the same cycle.               *)
(*                                                                         *)
(* stall_ is set by ID and cleared at the end of the cycle, so it is a     *)
(* local value of the cycle.  EX never sets pc_update_pending_ and nothing *)
(* sets flush_pipeline_ or fills the branch target buffer (the branch code *)
(* of EX is a placeholder), so the redirecting branches of IF and ID are   *)
(* never taken and every prediction is the next instruction.               *)
(*                                                                         *)
(* Accesses are total: one outside of the memory would leave Run, which    *)
(* the user interface does not call.  PipelineDebug has the exception.     *)
(***************************************************************************)
EXTENDS Isa

CONSTANTS
  HazardDetection,      \* hazard_detection_enabled_
  Forwarding,           \* forwarding_enabled_
  InitGpr, InitMem      \* what RegisterFile::Reset and LoadProgram leave

ASSUME ConfigTypes ==
  /\ HazardDetection \in BOOLEAN /\ Forwarding \in BOOLEAN
  /\ InitGpr \in [RegNum -> Word] /\ InitMem \subseteq Mem

VARIABLES
  prog,                          \* program_.text_buffer
  pc,                            \* program_counter_
  if_id, id_ex, ex_mem, mem_wb,  \* the pipeline registers
  gpr, fpr, fcsr,                \* registers_
  mem,                           \* memory_controller_
  instructions_retired, cycle_s,
  stop_requested                 \* set by an alignment fault

latches == <<if_id, id_ex, ex_mem, mem_wb>>
vars == <<prog, pc, if_id, id_ex, ex_mem, mem_wb, gpr, fpr, fcsr, mem,
          instructions_retired, cycle_s, stop_requested>>

Hazards == INSTANCE HazardUnit
Sources == INSTANCE ForwardingUnit

----------------------------------------------------------------------------
(* The pipeline registers.  The control signals travel with the instruction
   and are recomputed from it; MEM_WB keeps reg_write of its own because an
   alignment fault clears valid and leaves reg_write and rd set. *)

IF_ID  == [valid |-> FALSE, pc |-> 0, instr |-> NoInstr]
ID_EX  == [valid |-> FALSE, pc |-> 0, instr |-> NoInstr,
           reg1_value |-> Zero, reg2_value |-> Zero]
EX_MEM == [valid |-> FALSE, pc |-> 0, instr |-> NoInstr,
           alu_result |-> Zero, reg2_value |-> Zero]
MEM_WB == [valid |-> FALSE, pc |-> 0, instr |-> NoInstr, reg_write |-> FALSE,
           alu_result |-> Zero, mem_data |-> Zero]

Init ==
  /\ prog \in Programs
  /\ pc = 0
  /\ if_id = IF_ID /\ id_ex = ID_EX /\ ex_mem = EX_MEM /\ mem_wb = MEM_WB
  /\ gpr = InitGpr
  /\ fpr = [r \in RegNum |-> Zero]
  /\ fcsr = Zero
  /\ mem \in InitMem
  /\ instructions_retired = 0
  /\ cycle_s = 0
  /\ stop_requested = FALSE

----------------------------------------------------------------------------
(* Register-file classification, computed alike by ID and by EX *)

Rs1IsFloat(i) == i.op = "OPFP" /\ i.f7 # "FROM_GPR"
Rs2IsFloat(i) == i.op = "STOREFP" \/ (i.op = "OPFP" /\ i.f7 \notin {"FROM_GPR", "TO_GPR"})
RdIsFloat(i)  == i.op = "LOADFP" \/ (i.op = "OPFP" /\ i.f7 \notin {"TO_GPR", "CMP"})

(***************************************************************************)
(* WB_stage                                                                *)
(***************************************************************************)
WriteValue(l) == IF MemRead(l.instr) THEN l.mem_data ELSE l.alu_result

\* the register file WB picks: funct7 is read whatever the opcode is
WbToFpr(i) ==
  /\ RdIsFloat(i)
  /\ i.f7 # "TO_GPR"
  /\ ~(i.op = "OPFP" /\ i.f7 = "CMP")

WbWrites(l) == l.valid /\ l.reg_write /\ (l.instr.rd # 0 \/ RdIsFloat(l.instr))

WbGpr(l, g) == IF WbWrites(l) /\ ~WbToFpr(l.instr)
               THEN WriteGpr(g, l.instr.rd, WriteValue(l)) ELSE g
\* a mistake the properties are tested with: only loads are NaN-boxed
WbFprLoadsBoxed(l, f) ==
  IF WbWrites(l) /\ WbToFpr(l.instr)
  THEN [f EXCEPT ![l.instr.rd] = WriteValue(l)] ELSE f

WbFpr(l, f) == IF WbWrites(l) /\ WbToFpr(l.instr)
               THEN [f EXCEPT ![l.instr.rd] = NanBox(WriteValue(l))] ELSE f

(***************************************************************************)
(* MEM_stage.  A misaligned access leaves the memory alone, invalidates    *)
(* the instruction and asks the run loop to stop.                          *)
(***************************************************************************)
AlignmentFault(l) ==
  /\ l.valid
  /\ MemRead(l.instr) \/ MemWrite(l.instr)
  /\ Misaligned(l.instr, l.alu_result)

\* a mistake: a misaligned load does not stop the machine
StopsForStores ==
  stop_requested \/ (AlignmentFault(ex_mem) /\ MemWrite(ex_mem.instr))

Stops == stop_requested \/ AlignmentFault(ex_mem)

MemMem(l, m) ==
  IF l.valid /\ MemWrite(l.instr) /\ ~AlignmentFault(l)
  THEN Store(l.instr, m, l.alu_result,
             IF IsFloat(l.instr) THEN Low(l.reg2_value) ELSE l.reg2_value)
  ELSE m

MemData(l, m) ==
  LET v == Load(l.instr, m, l.alu_result)
  IN  IF IsFloat(l.instr) THEN NanBox(v) ELSE v

MemStage(l, m) ==
  IF ~l.valid THEN MEM_WB
  ELSE [valid      |-> ~AlignmentFault(l),
        pc         |-> l.pc,
        instr      |-> l.instr,
        reg_write  |-> RegWrite(l.instr),
        alu_result |-> l.alu_result,
        mem_data   |-> IF MemRead(l.instr) /\ ~AlignmentFault(l)
                       THEN MemData(l, m) ELSE Zero]

(***************************************************************************)
(* EX_stage                                                                *)
(***************************************************************************)

\* the operand rs of the instruction in EX, whose value was `read` in ID
Forwarded(rs, rsFloat, read) ==
  LET src == Sources!GetRsSource(
               ex_mem.valid /\ RegWrite(ex_mem.instr),
               ex_mem.instr.rd, RdIsFloat(ex_mem.instr),
               mem_wb.reg_write, mem_wb.instr.rd, RdIsFloat(mem_wb.instr),
               rs, rsFloat)
  IN  IF ~Forwarding THEN read
      ELSE IF ~rsFloat /\ rs = 0 THEN Zero
      ELSE CASE src = "FROM_EX_MEM"   -> ex_mem.alu_result
             [] src = "FROM_MEM_WB"   -> WriteValue(mem_wb)
             [] src = "FROM_REG_FILE" -> read

Operand1(l) == Forwarded(l.instr.rs1, Rs1IsFloat(l.instr), l.reg1_value)
Operand2(l) == Forwarded(l.instr.rs2, Rs2IsFloat(l.instr), l.reg2_value)

AluResult(l) ==
  LET i == l.instr
  IN  CASE i.op = "ECALL"               -> Zero
        [] i.op \in {"LOADFP", "STOREFP"} -> Add(Operand1(l), i.imm)
        [] i.op = "OPFP"  -> FpExecute(i, Operand1(l), Operand2(l))
        [] i.op = "LUI"   -> AluExecute(i, Zero, UpperZ(i.imm))
        [] i.op = "AUIPC" -> AluExecute(i, PcWord(l.pc), UpperZ(i.imm))
        [] OTHER -> AluExecute(i, Operand1(l), IF AluSrc(i) THEN i.imm ELSE Operand2(l))

ExStage(l) ==
  IF ~l.valid THEN EX_MEM
  ELSE [valid |-> TRUE, pc |-> l.pc, instr |-> l.instr,
        alu_result |-> AluResult(l),
        reg2_value |-> IF l.instr.op \in {"ECALL", "LOADFP"} THEN Zero ELSE Operand2(l)]

\* EX writes fcsr itself, before the instruction reaches WB
ExFcsr(l, c) ==
  IF l.valid /\ l.instr.op = "OPFP"
  THEN FpStatus(l.instr, Operand1(l), Operand2(l)) ELSE c

(***************************************************************************)
(* ID_stage                                                                *)
(***************************************************************************)
LoadUseStall(i) ==
  Hazards!DetectLoadUseHazard(
    id_ex.instr.rd, id_ex.valid /\ MemRead(id_ex.instr),
    i.rs1, i.rs2, Rs1IsFloat(i), Rs2IsFloat(i), IsFloat(id_ex.instr))

\* the instruction in l, EX or MEM, writes a register i names
WriteStall(i, l) ==
  Hazards!DetectWriteHazard(l.instr.rd, l.valid /\ RegWrite(l.instr), i.rs1, i.rs2)

\* a mistake: ALU results are waited for although they are forwarded
StallDespiteForwarding(l) ==
  /\ l.valid /\ HazardDetection
  /\ LoadUseStall(l.instr) \/ WriteStall(l.instr, id_ex) \/ WriteStall(l.instr, ex_mem)

Stall(l) ==
  /\ l.valid
  /\ HazardDetection
  /\ \/ LoadUseStall(l.instr)
     \/ /\ ~Forwarding
        /\ WriteStall(l.instr, id_ex) \/ WriteStall(l.instr, ex_mem)

ReadRs1(i, g, f) == IF Rs1IsFloat(i) THEN f[i.rs1] ELSE ReadGpr(g, i.rs1)
ReadRs2(i, g, f) ==
  CASE Rs2IsFloat(i) -> f[i.rs2]
    [] IsFloat(i) /\ ~Rs2IsFloat(i) -> Zero
    [] OTHER -> ReadGpr(g, i.rs2)

IdStage(l, g, f) ==
  IF ~l.valid \/ Stall(l) THEN ID_EX
  ELSE [valid |-> TRUE, pc |-> l.pc, instr |-> l.instr,
        reg1_value |-> ReadRs1(l.instr, g, f),
        reg2_value |-> ReadRs2(l.instr, g, f)]

(***************************************************************************)
(* IF_stage: a stall keeps the instruction in IF/ID and the pc.            *)
(***************************************************************************)
Fetching == ~Stall(if_id) /\ pc < Len(prog)

\* mistakes: the last instruction stays in IF/ID; the pc advances although the
\* instruction is stalled, or past the end of the text section
IfStageKeepsLast ==
  IF Fetching THEN [valid |-> TRUE, pc |-> pc, instr |-> prog[pc + 1]] ELSE if_id
IfPcDespiteStall == IF pc < Len(prog) THEN pc + 1 ELSE pc
IfPcPastEnd == IF Stall(if_id) THEN pc ELSE pc + 1

IfStage ==
  IF Stall(if_id) THEN if_id
  ELSE IF Fetching THEN [valid |-> TRUE, pc |-> pc, instr |-> prog[pc + 1]]
  ELSE IF_ID

IfPc == IF Fetching THEN pc + 1 ELSE pc

(***************************************************************************)
(* One clock cycle                                                         *)
(***************************************************************************)
PipelineHasWork == if_id.valid \/ id_ex.valid \/ ex_mem.valid \/ mem_wb.valid
FetchRemaining == pc < Len(prog)

\* what the stages and advance_pipeline_registers do to the machine
Stages ==
  /\ gpr' = WbGpr(mem_wb, gpr)
  /\ fpr' = WbFpr(mem_wb, fpr)
  /\ instructions_retired' =
       IF mem_wb.valid THEN instructions_retired + 1 ELSE instructions_retired
  /\ mem' = MemMem(ex_mem, mem)
  /\ mem_wb' = MemStage(ex_mem, mem)
  /\ stop_requested' = Stops
  /\ ex_mem' = ExStage(id_ex)
  /\ fcsr' = ExFcsr(id_ex, fcsr)
  /\ id_ex' = IdStage(if_id, gpr', fpr')
  /\ if_id' = IfStage
  /\ pc' = IfPc
  /\ cycle_s' = cycle_s + 1
  /\ UNCHANGED prog

\* a mistake: the loop ends before the pipeline is drained
CycleWhileFetching ==
  /\ ~stop_requested
  /\ FetchRemaining
  /\ Stages

Cycle ==
  /\ ~stop_requested
  /\ PipelineHasWork \/ FetchRemaining
  /\ Stages

Next == Cycle

Spec == Init /\ [][Next]_vars

\* the loop of Run goes on until its condition fails
LiveSpec == Spec /\ WF_vars(Next)
=============================================================================
