---------------------------- MODULE PipelineUndo ----------------------------
(***************************************************************************)
(* PipelineDebug implements TimeTravel, as far as exceptions allow.  Two   *)
(* auxiliary variables observe it.  past is the stack of the machines the  *)
(* user has seen: Step pushes the machine it leaves, Undo pops, a reset    *)
(* forgets.  lost is the set of the registers that WB wrote in a step that *)
(* an out-of-range access cut short: no delta brings their old values back *)
(* at the right time.                                                      *)
(***************************************************************************)
EXTENDS PipelineDebug, PipelineCorrect

VARIABLES past, lost

undoVars == <<debugVars, past, lost>>

Machine ==
  [pc |-> pc, if_id |-> if_id, id_ex |-> id_ex, ex_mem |-> ex_mem, mem_wb |-> mem_wb,
   gpr |-> gpr, fpr |-> fpr, fcsr |-> fcsr, mem |-> mem,
   instructions_retired |-> instructions_retired, cycle_s |-> cycle_s,
   stall_cycles |-> stall_cycles]

UndoInit == DebugInit /\ past = <<>> /\ lost = {}

Forward == StepCycle /\ past' = Append(past, Machine) /\ UNCHANGED lost

UndoNext ==
  \/ Forward
  \/ StepThrows /\ lost' = lost \union Written /\ UNCHANGED past
  \/ StepEnd /\ UNCHANGED <<past, lost>>
  \/ Undo /\ past' = SubSeq(past, 1, Len(past) - 1) /\ UNCHANGED lost
  \/ (OnAssemble \/ OnReset \/ OnRun \/ OnStop) /\ past' = <<>> /\ lost' = {}

UndoSpec == UndoInit /\ [][UndoNext]_undoVars

\* the animated mode calls Step on every tick of its timer until the program ends
FairUndoSpec == UndoSpec /\ WF_undoVars(Forward)

----------------------------------------------------------------------------
(* Types *)

Registers == {"GPR", "FPR"} \X RegNum
IsRegisterChanges(c) == DOMAIN c \subseteq Registers /\ \A x \in DOMAIN c : c[x] \in Word
MemoryChanges ==
  [written : BOOLEAN, instr : InstrSet \union {NoInstr}, address : Word, old_bytes : Word]

\* Type invariant: the undo stack holds one delta for each machine to go back to,
\* and only changes of lost registers wait for the next delta.
DebugTypeOK ==
  /\ program \in Programs
  /\ prog = program \/ prog = [k \in 1..Len(program) |-> NoInstr]
  /\ LatchTypes
  /\ fcsr \in Word /\ mem \in Mem
  /\ stall_cycles \in Nat
  /\ output_status \in {"VM_PROGRAM_LOADED", "VM_PROGRAM_END", "VM_ALIGNMENT_FAULT"}
  /\ Len(undo_stack) = Len(past)
  /\ \A k \in 1..Len(undo_stack) :
       /\ IsRegisterChanges(undo_stack[k].register_changes)
       /\ undo_stack[k].memory_change \in MemoryChanges
  /\ IsRegisterChanges(current_changes)
  /\ DOMAIN current_changes \subseteq lost /\ lost \subseteq Registers

----------------------------------------------------------------------------
(* Stepping back *)

\* a machine that has just been reset; stall_cycles_ is not
PoweredOn(m) ==
  /\ m.pc = 0 /\ m.cycle_s = 0 /\ m.instructions_retired = 0
  /\ m.if_id = IF_ID /\ m.id_ex = ID_EX /\ m.ex_mem = EX_MEM /\ m.mem_wb = MEM_WB
  /\ m.gpr = InitGpr /\ m.fpr = [r \in RegNum |-> Zero]
  /\ m.mem \in InitMem \union {ClearMem}

OneCycleLater(m, n) == n.cycle_s = m.cycle_s + 1

\* the registers of a bank that are not in l
Others(l, bank, g) == [r \in {q \in RegNum : <<bank, q>> \notin l} |-> g[r]]

\* the machine without the registers in l; fcsr is not one of the things Undo
\* brings back
Without(l, m) == [m EXCEPT !.gpr = Others(l, "GPR", m.gpr),
                           !.fpr = Others(l, "FPR", m.fpr)]
Kept(l, m) == [Without(l, m) EXCEPT !.fcsr = Zero]

Seen == Append(past, Machine)
KeptSeen == [k \in 1..Len(Seen) |-> Kept(lost, Seen[k])]

TT == INSTANCE TimeTravel WITH
        history <- KeptSeen, Initial <- PoweredOn, Later <- OneCycleLater

\* A step that throws: the machine shown stays where it is, but for the register
\* WB wrote and the count of instructions.
ThrowShown ==
  /\ Throws /\ Len(past') = Len(past)
  /\ lost' = lost \union Written
  /\ \A k \in 1..Len(past) : Kept(lost', past'[k]) = Kept(lost', past[k])
  /\ \E n \in {instructions_retired, instructions_retired + 1} :
       Kept(lost', Machine') = Kept(lost', [Machine EXCEPT !.instructions_retired = n])

\* However steps, undos and resets are mixed, and whatever accesses are misaligned
\* or throw, Undo shows the machine of before the last step that is not undone:
\* memory, pipeline registers, counters and registers, all but fcsr and the
\* registers that a step wrote and then threw.
StepsBack == TT!Init /\ [][TT!Next \/ ThrowShown]_KeptSeen

AllTT == INSTANCE TimeTravel WITH
           history <- [k \in 1..Len(Seen) |-> Without(lost, Seen[k])],
           Initial <- PoweredOn, Later <- OneCycleLater

\* The same, fcsr included: "Save current pipeline state for undo", and Undo has
\* a case for CSR changes.
StepsBackEntirely ==
  AllTT!Init /\ [][AllTT!Next \/ ThrowShown]_<<past, Machine, lost>>

\* Undo gives every register the value it had before the step it takes back, as
\* WB "record[s] changes for undo" before each write.
WritesUndone ==
  [][Undo => gpr' = past[Len(past)].gpr /\ fpr' = past[Len(past)].fpr]_undoVars

\* The undo stack is bounded: "Limit undo stack size", "Remove oldest entry".
UndoBounded == Len(undo_stack) <= MaxUndo

----------------------------------------------------------------------------
(* Step does not lose instructions either *)

HoldsInOrder(l, n) == l.valid => l.pc = n /\ n < Len(prog) /\ l.instr = prog[n + 1]

\* After any mix of steps, undos, resets and stops, after alignment faults, which
\* Step ignores, and after exceptions, the pipeline registers hold consecutive
\* instructions of the text section.  No instruction is retired twice, unless the
\* instruction behind it throws out of MEM: every further Step counts it again, and
\* going back corrects the count.
StepInOrder ==
  /\ instructions_retired <= RetiredPc \/ Throws
  /\ HoldsInOrder(mem_wb, RetiredPc)
  /\ HoldsInOrder(ex_mem, MemoryPc)
  /\ HoldsInOrder(id_ex, CommittedPc)
  /\ HoldsInOrder(if_id, DecodedPc)

\* Every cycle in which the machine could fetch and did not is counted as a stall,
\* whatever was undone; after a reset there may be more of them.
StallsCounted == FetchRemaining => cycle_s <= pc + stall_cycles
=============================================================================
