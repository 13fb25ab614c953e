--------------------------- MODULE PipelineDebug ----------------------------
(***************************************************************************)
(* The pipelined machine under the buttons of the main window: Step, Undo, *)
(* Reset, Stop, Run and Assemble.  Every execution the user interface      *)
(* starts, in the background thread and in the animated mode too, is a     *)
(* sequence of calls of RVSSVMPipelined::Step.  Unlike the loop of Run of  *)
(* module Pipeline, Step does not look at stop_requested_.                 *)
(*                                                                         *)
(* Step pushes a PipelineStepDelta on pipeline_undo_stack_: snapshots of   *)
(* the pipeline registers and the counters, and the register and memory    *)
(* changes that WB and MEM recorded.                                       *)
(*                                                                         *)
(* An access outside of the memory throws out of MEM, after WB: the        *)
(* register is written, its change recorded and the instruction counted,   *)
(* but the pipeline registers do not advance and no delta is pushed.  The  *)
(* background thread catches the exception and ends, and the user can go   *)
(* on with the same machine; elsewhere it ends the program.                *)
(***************************************************************************)
EXTENDS Pipeline, SequencesExt

CONSTANTS
  MaxUndo,            \* MAX_UNDO_STACK_SIZE
  OldBytes(_, _, _),  \* the bytes a store is going to overwrite
  OutOfRange(_, _),   \* does the access, to an address, leave the memory?
  ClearMem,           \* what Memory::Reset leaves
  MaxStalls,          \* bound: no reset once so many stalls are counted
  MaxRetired          \* bound: no access throws once so many instructions are counted

ASSUME DebugTypes ==
  /\ MaxUndo \in Nat /\ MaxStalls \in Nat /\ MaxRetired \in Nat
  /\ ClearMem \in Mem
  /\ \A i \in InstrSet, m \in Mem, a \in Word : OldBytes(i, m, a) \in Word
  /\ \A i \in InstrSet, a \in Word : OutOfRange(i, a) \in BOOLEAN

\* writing the old bytes back undoes a store inside the memory
ASSUME BytesRestore ==
  \A i \in InstrSet, m \in Mem, a \in Word, v \in Word :
    ~OutOfRange(i, a) => Store(i, Store(i, m, a, v), a, OldBytes(i, m, a)) = m

\* a cleared text section holds instruction word 0, and the reset values of the
\* registers fit either ISA
ASSUME ResetValues ==
  /\ NoInstr \in InstrSet
  /\ \A r \in RegNum : GprMask(InitGpr[r]) = InitGpr[r]

VARIABLES
  program,             \* MainWindow::program, the last one assembled
  stall_cycles,        \* stall_cycles_
  undo_stack,          \* pipeline_undo_stack_, the top last
  current_changes,     \* current_delta_.register_changes
  output_status        \* output_status_

debugVars == <<vars, program, stall_cycles, undo_stack, current_changes, output_status>>

(* A list of register changes is only ever applied from its first to its last
   one, so it is the function from the registers it names, <<"GPR" or "FPR",
   number>>, to the old value recorded last. *)
NoChanges == [x \in {} |-> Zero]

DebugInit ==
  /\ Init
  /\ program = prog
  /\ stall_cycles = 0
  /\ undo_stack = <<>>
  /\ current_changes = NoChanges
  /\ output_status = "VM_PROGRAM_LOADED"

----------------------------------------------------------------------------
(* PipelineStepDelta *)

\* the register WB writes, if any
Written ==
  IF WbWrites(mem_wb)
  THEN {<<IF WbToFpr(mem_wb.instr) THEN "FPR" ELSE "GPR", mem_wb.instr.rd>>} ELSE {}

\* what WB records before it writes
\* a mistake the properties are tested with: the old value is read after the write
ChangeAfterWrite ==
  [x \in Written |-> IF x[1] = "FPR" THEN NanBox(WriteValue(mem_wb))
                     ELSE GprMask(WriteValue(mem_wb))]

RegisterChange ==
  [x \in Written |-> IF x[1] = "FPR" THEN fpr[x[2]] ELSE ReadGpr(gpr, x[2])]

\* push_back: after the changes of steps that threw, which nothing removes
Recorded ==
  [x \in DOMAIN current_changes \union DOMAIN RegisterChange |->
     IF x \in DOMAIN RegisterChange THEN RegisterChange[x] ELSE current_changes[x]]

\* what MEM records before it stores: the width of the access is the instruction's
NoStore == [written |-> FALSE, instr |-> NoInstr, address |-> Zero, old_bytes |-> Zero]

MemoryChange ==
  IF ex_mem.valid /\ MemWrite(ex_mem.instr) /\ ~AlignmentFault(ex_mem)
  THEN [written |-> TRUE, instr |-> ex_mem.instr, address |-> ex_mem.alu_result,
        old_bytes |-> OldBytes(ex_mem.instr, mem, ex_mem.alu_result)]
  ELSE NoStore

Delta ==
  [old_pc |-> pc, old_if_id |-> if_id, old_id_ex |-> id_ex, old_ex_mem |-> ex_mem,
   old_mem_wb |-> mem_wb, old_cycle |-> cycle_s,
   old_instructions_retired |-> instructions_retired,
   old_stall_cycles |-> stall_cycles,
   register_changes |-> Recorded, memory_change |-> MemoryChange]

\* at the limit the whole stack is moved to another one and back
\* a mistake: nothing is pushed any more
PushWhileRoom(s, d) == IF Len(s) >= MaxUndo THEN s ELSE Append(s, d)

PushDelta(s, d) ==
  IF Len(s) >= MaxUndo THEN Append(Reverse(Reverse(s)), d) ELSE Append(s, d)

----------------------------------------------------------------------------
(* RVSSVMPipelined::Step *)

\* a mistake: stall_ is read after advance_pipeline_registers has cleared it
StallCyclesAfterAdvance == stall_cycles

StallCycles == IF Stall(if_id) THEN stall_cycles + 1 ELSE stall_cycles

\* MEM looks for a misaligned access first
Throws ==
  /\ ex_mem.valid
  /\ MemRead(ex_mem.instr) \/ MemWrite(ex_mem.instr)
  /\ ~AlignmentFault(ex_mem)
  /\ OutOfRange(ex_mem.instr, ex_mem.alu_result)

StepCycle ==
  /\ PipelineHasWork \/ FetchRemaining
  /\ ~Throws
  /\ Stages
  /\ stall_cycles' = StallCycles
  /\ undo_stack' = PushDelta(undo_stack, Delta)
  /\ current_changes' = NoChanges
  /\ output_status' = IF AlignmentFault(ex_mem) THEN "VM_ALIGNMENT_FAULT"
                      ELSE output_status
  /\ UNCHANGED program

\* WB, and no more
StepThrows ==
  /\ instructions_retired <= MaxRetired
  /\ Throws
  /\ gpr' = WbGpr(mem_wb, gpr)
  /\ fpr' = WbFpr(mem_wb, fpr)
  /\ instructions_retired' =
       IF mem_wb.valid THEN instructions_retired + 1 ELSE instructions_retired
  /\ current_changes' = Recorded
  /\ UNCHANGED <<prog, pc, latches, fcsr, mem, cycle_s, stop_requested,
                 program, stall_cycles, undo_stack, output_status>>

StepEnd ==
  /\ ~PipelineHasWork /\ ~FetchRemaining
  /\ output_status' = "VM_PROGRAM_END"
  /\ UNCHANGED <<vars, program, stall_cycles, undo_stack, current_changes>>

Step == StepCycle \/ StepThrows \/ StepEnd

(***************************************************************************)
(* RVSSVMPipelined::Undo.  It leaves fcsr, current_delta_, stop_requested_ *)
(* and output_status_ as they are.                                         *)
(***************************************************************************)
UndoGpr(c, g) ==
  [r \in RegNum |-> IF r # 0 /\ <<"GPR", r>> \in DOMAIN c
                    THEN GprMask(c[<<"GPR", r>>]) ELSE g[r]]
UndoFpr(c, f) ==
  [r \in RegNum |-> IF <<"FPR", r>> \in DOMAIN c THEN c[<<"FPR", r>>] ELSE f[r]]
UndoMem(c, m) ==
  IF c.written THEN Store(c.instr, m, c.address, c.old_bytes) ELSE m

Undo ==
  /\ undo_stack # <<>>
  /\ LET last == undo_stack[Len(undo_stack)]
     IN  /\ gpr' = UndoGpr(last.register_changes, gpr)
         /\ fpr' = UndoFpr(last.register_changes, fpr)
         /\ mem' = UndoMem(last.memory_change, mem)
         /\ if_id' = last.old_if_id
         /\ id_ex' = last.old_id_ex
         /\ ex_mem' = last.old_ex_mem
         /\ mem_wb' = last.old_mem_wb
         /\ pc' = last.old_pc
         /\ cycle_s' = last.old_cycle
         /\ instructions_retired' = last.old_instructions_retired
         /\ stall_cycles' = last.old_stall_cycles
  /\ undo_stack' = SubSeq(undo_stack, 1, Len(undo_stack) - 1)
  /\ UNCHANGED <<prog, program, fcsr, current_changes, stop_requested, output_status>>

----------------------------------------------------------------------------
(* RVSSVMPipelined::Reset, which keeps stall_cycles_ and clears the memory,
   the text section included *)

Reset ==
  /\ stall_cycles <= MaxStalls
  /\ pc' = 0
  /\ if_id' = IF_ID /\ id_ex' = ID_EX /\ ex_mem' = EX_MEM /\ mem_wb' = MEM_WB
  /\ gpr' = InitGpr
  /\ fpr' = [r \in RegNum |-> Zero]
  /\ fcsr' = Zero
  /\ instructions_retired' = 0
  /\ cycle_s' = 0
  /\ undo_stack' = <<>>
  /\ current_changes' = NoChanges
  /\ UNCHANGED stall_cycles

\* VmBase::LoadProgram, after a Reset
LoadProgram(p) ==
  /\ prog' = p
  /\ mem' \in InitMem
  /\ output_status' = "VM_PROGRAM_LOADED"

OnAssemble ==
  /\ Reset
  /\ \E p \in Programs : LoadProgram(p) /\ program' = p
  /\ UNCHANGED stop_requested

OnReset ==
  /\ Reset
  /\ LoadProgram(program)
  /\ stop_requested' = TRUE
  /\ UNCHANGED program

\* OnRun starts with onReset and then clears stop_requested_
OnRun ==
  /\ Reset
  /\ LoadProgram(program)
  /\ stop_requested' = FALSE
  /\ UNCHANGED program

\* the program is not loaded again, and program_size_ is what it was
OnStop ==
  /\ Reset
  /\ prog' = [k \in 1..Len(prog) |-> NoInstr]
  /\ mem' = ClearMem
  /\ stop_requested' = TRUE
  /\ UNCHANGED <<program, output_status>>

DebugNext == Step \/ Undo \/ OnAssemble \/ OnReset \/ OnRun \/ OnStop

\* the user may stop pressing buttons at any time: no fairness
DebugSpec == DebugInit /\ [][DebugNext]_debugVars
=============================================================================
