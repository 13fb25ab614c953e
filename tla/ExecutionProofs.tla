-------------------------- MODULE ExecutionProofs ---------------------------
(***************************************************************************)
(* Proofs about the control of executions, for every set of programs,      *)
(* every limit and any number of animation timers.                         *)
(***************************************************************************)
EXTENDS ExecutionCorrect, TLAPS

\* Where the thread is, its flag and its counter agree.  (~MainWindow may terminate
\* the thread and leave the flag.)
ThreadInv ==
  /\ gui # "closed" => (running <=> worker \in {"clearing", "loop", "step", "leaving"})
  /\ worker = "step" => count < MaxInstructions

\* A handler that waits asked a thread that had started; one that goes on without
\* waiting found none.
WaitInv ==
  /\ gui \in Waits \ {"close"} =>
       /\ worker \notin {"starting", "clearing"}
       /\ worker \in {"loop", "step"} => stop_requested
       /\ ~isPaused
  /\ gui \in {"run", "dialog"} => worker = "idle"

\* While paused the thread is gone, and the timers are off or will stop.  The
\* choice of another machine with its own flag is open only without timers.
PauseInv ==
  isPaused =>
    /\ worker = "idle"
    /\ \/ gui # "dialog" /\ vmStop[vm]
       \/ \A t \in Timers : ~timer[t].on

----------------------------------------------------------------------------

MachineType == [VMs -> [at : Nat, prog : ProgramType]]

LEMMA LimitTypes ==
  /\ MaxInstructions \in Nat /\ MaxSteps \in Nat
  /\ 0 \in 0..MaxInstructions /\ 0 \in 0..MaxSteps
BY ControlTypes DEF ControlTypes

LEMMA BlankType ==
  ASSUME NEW p \in ProgramType PROVE Blank(p) \in ProgramType
BY DEF Blank, ProgramType, VMs

LEMMA ClearedType ==
  ASSUME NEW m \in [at : Nat, prog : ProgramType]
  PROVE  Cleared(m) \in [at : Nat, prog : ProgramType]
BY BlankType DEF Cleared

LEMMA LoadedType ==
  ASSUME NEW p \in ProgramType
  PROVE  Loaded(p) \in [at : Nat, prog : ProgramType]
BY DEF Loaded

\* What the handlers put into a machine.
LEMMA ResetType ==
  ASSUME TypeOK, NEW v \in VMs
  PROVE  [machine EXCEPT ![v] = IF program.broken THEN Cleared(@) ELSE Loaded(program)]
           \in MachineType
<1>1. Cleared(machine[v]) \in [at : Nat, prog : ProgramType]
  BY ClearedType DEF TypeOK
<1>2. Loaded(program) \in [at : Nat, prog : ProgramType]
  BY LoadedType DEF TypeOK
<1> QED BY <1>1, <1>2 DEF TypeOK, MachineType

LEMMA AdvanceType ==
  ASSUME TypeOK, NEW v \in VMs, Advance(v)
  PROVE  machine' \in MachineType /\ vmStop' \in [VMs -> BOOLEAN]
<1>1. machine' \in MachineType
  <2> DEFINE m == machine[v]
  <2>1. m \in [at : Nat, prog : ProgramType] /\ machine \in MachineType
    BY DEF TypeOK, MachineType
  <2>2. [m EXCEPT !.at = @ + 1] \in [at : Nat, prog : ProgramType]
    BY <2>1
  <2>3. \/ machine' = machine
        \/ machine' = [machine EXCEPT ![v] = [m EXCEPT !.at = @ + 1]]
    BY DEF Advance
  <2> QED BY <2>1, <2>2, <2>3 DEF MachineType
<1>2. vmStop' \in [VMs -> BOOLEAN]
  <2> DEFINE b == vmStop[v] \/ (~AtEnd(v) /\ machine[v].prog.stopAt[v] = machine[v].at + 1)
  <2>1. b \in BOOLEAN
    BY DEF TypeOK
  <2>2. vmStop' = [vmStop EXCEPT ![v] = b]
    BY DEF Advance
  <2> QED BY <2>1, <2>2, Zenon DEF TypeOK
<1> QED BY <1>1, <1>2

LEMMA ThrownType ==
  ASSUME TypeOK, NEW v \in VMs PROVE Thrown(v) \in MachineType
<1> DEFINE m == machine[v]
<1>1. m \in [at : Nat, prog : ProgramType] /\ machine \in MachineType
  BY DEF TypeOK, MachineType
<1>2. [m EXCEPT !.at = @ + 1] \in [at : Nat, prog : ProgramType]
  BY <1>1
<1>3. \/ Thrown(v) = machine
      \/ Thrown(v) = [machine EXCEPT ![v] = [m EXCEPT !.at = @ + 1]]
  BY DEF Thrown
<1> QED BY <1>1, <1>2, <1>3 DEF MachineType

LEMMA AllOffType == AllOff \in [Timers -> [on : BOOLEAN, steps : 0..MaxSteps, pipe : BOOLEAN]]
BY LimitTypes DEF AllOff, Off

LEMMA StartType ==
  ASSUME TypeOK, NEW w \in BOOLEAN, StartExecution(w)
  PROVE  /\ worker' \in WorkerStates /\ running' \in BOOLEAN
         /\ stop_requested' \in BOOLEAN /\ count' \in 0..MaxInstructions
         /\ threadVm' \in VMs /\ updating' \in BOOLEAN
         /\ timer' \in [Timers -> [on : BOOLEAN, steps : 0..MaxSteps, pipe : BOOLEAN]]
<1>1. CASE StartThread
  BY <1>1 DEF StartThread, TypeOK, WorkerStates
<1>2. CASE StartAnimation(w)
  <2>1. PICK t \in Timers :
          timer' = [timer EXCEPT ![t] = [on |-> TRUE, steps |-> 0, pipe |-> vm = "pipelined"]]
    BY <1>2 DEF StartAnimation
  <2>2. [on |-> TRUE, steps |-> 0, pipe |-> vm = "pipelined"]
          \in [on : BOOLEAN, steps : 0..MaxSteps, pipe : BOOLEAN]
    BY LimitTypes
  <2>3. updating' \in BOOLEAN
    BY <1>2 DEF StartAnimation, TypeOK
  <2> QED BY <1>2, <2>1, <2>2, <2>3 DEF StartAnimation, TypeOK, thread
<1> QED BY <1>1, <1>2 DEF StartExecution

----------------------------------------------------------------------------
(* Every step of the thread keeps the types and ThreadInv. *)

LEMMA WorkerTyped ==
  ASSUME TypeOK, ThreadInv, Worker
  PROVE  TypeOK' /\ ThreadInv'
<1> USE DEF WorkerStates
<1>1. CASE WorkerStart
  BY <1>1 DEF WorkerStart, TypeOK, ThreadInv, window
<1>2. CASE WorkerClear
  BY <1>2, LimitTypes DEF WorkerClear, TypeOK, ThreadInv, window
<1>3. CASE WorkerCheck
  <2> DEFINE end == (IF count >= MaxInstructions THEN <<"error">> ELSE <<>>)
  <2>b. <<"finished">> \in Seq(Signals)
    BY DEF Signals
  <2>c. <<"error">> \in Seq(Signals)
    BY DEF Signals
  <2>d. << >> \in Seq(Signals)
    OBVIOUS
  <2>0. end \in Seq(Signals)
    BY <2>c, <2>d, Zenon
  <2>1. posted' \in Seq(Signals)
    <3>1. posted \in Seq(Signals)
      BY DEF TypeOK
    <3>2. posted' = posted \/ posted' = posted \o end \o <<"finished">>
      BY <1>3 DEF WorkerCheck
    <3> HIDE DEF end
    <3>3. posted \o end \in Seq(Signals)
      BY <2>0, <3>1
    <3>4. posted \o end \o <<"finished">> \in Seq(Signals)
      BY <2>b, <3>3
    <3> QED BY <3>1, <3>2, <3>4
  <2>a. count' \in 0..MaxInstructions /\ worker' \in {"step", "leaving"}
    BY <1>3, LimitTypes DEF WorkerCheck, TypeOK
  <2>2. TypeOK'
    BY <1>3, <2>1, <2>a DEF WorkerCheck, TypeOK
  <2>3. ThreadInv'
    BY <1>3 DEF WorkerCheck, Continues, TypeOK, ThreadInv
  <2> QED BY <2>2, <2>3
<1>4. CASE WorkerStep
  <2>1. machine' \in MachineType /\ vmStop' \in [VMs -> BOOLEAN]
    BY <1>4, AdvanceType DEF WorkerStep, TypeOK
  <2>2. count' \in 0..MaxInstructions
    BY <1>4, LimitTypes DEF WorkerStep, Counted, TypeOK, ThreadInv
  <2>3. posted' \in Seq(Signals)
    BY <1>4 DEF WorkerStep, TypeOK, Signals
  <2> QED BY <1>4, <2>1, <2>2, <2>3 DEF WorkerStep, TypeOK, ThreadInv, MachineType
<1>5. CASE WorkerThrows
  <2>1. machine' \in MachineType
    BY <1>5, ThrownType DEF WorkerThrows, TypeOK
  <2>2. posted' \in Seq(Signals)
    BY <1>5 DEF WorkerThrows, TypeOK, Signals
  <2> QED BY <1>5, <2>1, <2>2, LimitTypes DEF WorkerThrows, TypeOK, ThreadInv, MachineType
<1>6. CASE WorkerLeave
  BY <1>6 DEF WorkerLeave, TypeOK, ThreadInv, window
<1>7. CASE WorkerEnd
  BY <1>7 DEF WorkerEnd, TypeOK, ThreadInv, window
<1> QED BY <1>1, <1>2, <1>3, <1>4, <1>5, <1>6, <1>7 DEF Worker

----------------------------------------------------------------------------
(* So does every handler of a button. *)

LEMMA AskTyped ==
  ASSUME TypeOK, ThreadInv, NEW h \in Waits, AskThread(h), gui # "closed",
         (timer' = timer /\ updating' = updating) \/ StopTimers
  PROVE  TypeOK' /\ ThreadInv'
<1>1. vmStop' \in [VMs -> BOOLEAN]
  BY DEF AskThread, TypeOK
<1>2. timer' \in [Timers -> [on : BOOLEAN, steps : 0..MaxSteps, pipe : BOOLEAN]]
      /\ updating' \in BOOLEAN
  BY AllOffType DEF StopTimers, TypeOK
<1>3. gui' \in Waits
  BY DEF AskThread
<1>4. TypeOK'
  BY <1>1, <1>2, <1>3 DEF AskThread, TypeOK
<1>5. ThreadInv'
  BY DEF AskThread, ThreadInv, Waits
<1> QED BY <1>4, <1>5

LEMMA WaitsOpen == Ready \/ gui = "run" \/ (\E h \in Waits : gui = h) => gui # "closed"
BY DEF Ready, Waits

LEMMA ButtonsTyped ==
  ASSUME TypeOK, ThreadInv, Buttons
  PROVE  TypeOK' /\ ThreadInv'
<1> USE WaitsOpen
<1>1. CASE OnAssemble
  <2>1. CASE Ready /\ AskThreadOnly("assemble")
    BY <2>1, AskTyped DEF AskThreadOnly, Waits
  <2>2. ASSUME NEW w \in BOOLEAN, AssembleRest(w), gui # "closed"
        PROVE  TypeOK' /\ ThreadInv'
    <3>1. machine' \in MachineType /\ program' \in ProgramType
      <4>1. CASE UNCHANGED <<program, machine>>
        BY <4>1 DEF TypeOK, MachineType
      <4>2. ASSUME NEW p \in Programs, program' = p,
                   machine' = IF p.broken THEN machine
                              ELSE [machine EXCEPT ![vm] = Loaded(p)]
            PROVE  machine' \in MachineType /\ program' \in ProgramType
        <5>1. p \in ProgramType
          BY ControlTypes DEF ControlTypes
        <5>2. Loaded(p) \in [at : Nat, prog : ProgramType]
          BY <5>1, LoadedType
        <5> QED BY <4>2, <5>1, <5>2 DEF TypeOK, MachineType
      <4> QED BY <2>2, <4>1, <4>2 DEF AssembleRest
    <3>2. timer' \in [Timers -> [on : BOOLEAN, steps : 0..MaxSteps, pipe : BOOLEAN]]
      BY <2>2, AllOffType DEF AssembleRest
    <3>3. TypeOK'
      BY <2>2, <3>1, <3>2 DEF AssembleRest, TypeOK, MachineType, thread
    <3> QED BY <2>2, <3>3 DEF AssembleRest, ThreadInv, thread
  <2> QED BY <1>1, <2>1, <2>2 DEF OnAssemble, Return, Waits
<1>2. CASE OnReset
  <2>1. CASE Ready /\ AskThreadOnly("reset")
    BY <2>1, AskTyped DEF AskThreadOnly, Waits
  <2>2. ASSUME NEW w \in BOOLEAN, ResetRest(w), gui # "closed"
        PROVE  TypeOK' /\ ThreadInv'
    <3>1. machine' \in MachineType
      BY <2>2, ResetType DEF ResetRest, ResetMachine, TypeOK
    <3>2. TypeOK'
      BY <2>2, <3>1 DEF ResetRest, TypeOK, MachineType, thread
    <3> QED BY <2>2, <3>2 DEF ResetRest, ThreadInv, thread
  <2> QED BY <1>2, <2>1, <2>2 DEF OnReset, Return, Waits
<1>3. CASE OnRun
  BY <1>3 DEF OnRun, TypeOK, ThreadInv, thread, Ready
<1>4. CASE RunResets
  <2>1. CASE gui = "run" /\ AskThreadOnly("rerun")
    BY <2>1, AskTyped DEF AskThreadOnly, Waits
  <2>2. ASSUME NEW w \in BOOLEAN, RunRest(w), gui # "closed"
        PROVE  TypeOK' /\ ThreadInv'
    <3>1. machine' \in MachineType
      BY <2>2, ResetType DEF RunRest, ResetMachine, TypeOK
    <3>2. TypeOK'
      BY <2>2, <3>1, StartType DEF RunRest, TypeOK, MachineType
    <3> QED BY <2>2, <3>2 DEF RunRest, StartExecution, StartThread, StartAnimation,
                              ThreadInv, thread
  <2> QED BY <1>4, <2>1, <2>2 DEF RunResets, Return, Waits
<1>5. CASE OnResume
  <2>1. TypeOK'
    BY <1>5, StartType DEF OnResume, TypeOK
  <2> QED BY <1>5, <2>1 DEF OnResume, StartExecution, StartThread, StartAnimation,
                            ThreadInv, thread, Ready
<1>6. CASE OnPause
  <2>1. CASE Ready /\ AskThreadOnly("pause")
    BY <2>1, AskTyped DEF AskThreadOnly, Waits
  <2>2. ASSUME PauseRest, gui # "closed"
        PROVE  TypeOK' /\ ThreadInv'
    BY <2>2 DEF PauseRest, TypeOK, ThreadInv, thread
  <2> QED BY <1>6, <2>1, <2>2 DEF OnPause, Return, Waits
<1>7. CASE OnStop
  <2>1. CASE Ready /\ AskThread("stop") /\ StopTimers
    BY <2>1, AskTyped DEF Waits
  <2>2. ASSUME StopRest, StopTimers, gui # "closed"
        PROVE  TypeOK' /\ ThreadInv'
    <3>1. machine' \in MachineType
      <4>1. Cleared(machine[vm]) \in [at : Nat, prog : ProgramType]
        BY ClearedType DEF TypeOK
      <4> QED BY <2>2, <4>1 DEF StopRest, TypeOK, MachineType
    <3>2. TypeOK'
      BY <2>2, <3>1, AllOffType DEF StopRest, StopTimers, TypeOK, MachineType, thread
    <3> QED BY <2>2, <3>2 DEF StopRest, ThreadInv, thread
  <2> QED BY <1>7, <2>1, <2>2 DEF OnStop, Return, Waits
<1>8. CASE OnStep
  <2>1. CASE Advance(vm) /\ UNCHANGED gui
    <3>1. machine' \in MachineType /\ vmStop' \in [VMs -> BOOLEAN]
      BY <2>1, AdvanceType DEF TypeOK
    <3> QED BY <1>8, <2>1, <3>1 DEF OnStep, TypeOK, ThreadInv, MachineType, thread
  <2>2. CASE machine' = Thrown(vm) /\ gui' = "crashed" /\ UNCHANGED vmStop
    <3>1. machine' \in MachineType
      BY <2>2, ThrownType DEF TypeOK
    <3> QED BY <1>8, <2>2, <3>1 DEF OnStep, TypeOK, ThreadInv, MachineType, thread, Ready
  <2> QED BY <1>8, <2>1, <2>2 DEF OnStep
<1>9. CASE OnUndo
  <2>1. PICK k \in 0..machine[vm].at : machine' = [machine EXCEPT ![vm].at = k]
    BY <1>9 DEF OnUndo
  <2>2. machine' \in MachineType
    <3> DEFINE m == machine[vm]
    <3>1. m \in [at : Nat, prog : ProgramType] /\ machine \in MachineType
      BY DEF TypeOK, MachineType
    <3>2. k \in Nat
      BY <3>1
    <3>3. [m EXCEPT !.at = k] \in [at : Nat, prog : ProgramType]
      BY <3>1, <3>2
    <3>4. machine' = [machine EXCEPT ![vm] = [m EXCEPT !.at = k]]
      BY <2>1
    <3> QED BY <3>1, <3>3, <3>4 DEF MachineType
  <2> QED BY <1>9, <2>2 DEF OnUndo, TypeOK, ThreadInv, MachineType, thread, window
<1>10. CASE ShowProcessorSelection
  <2>1. CASE Ready /\ AskThreadOnly("processor")
    BY <2>1, AskTyped DEF AskThreadOnly, Waits
  <2>2. ASSUME NEW w \in BOOLEAN, ProcessorRest(w), gui # "closed"
        PROVE  TypeOK' /\ ThreadInv'
    BY <2>2 DEF ProcessorRest, TypeOK, ThreadInv, thread
  <2> QED BY <1>10, <2>1, <2>2 DEF ShowProcessorSelection, Return, Waits
<1>11. CASE CloseDialog
  <2>1. machine' \in MachineType /\ vm' \in VMs /\ threadVm' \in VMs
    BY <1>11, ResetType DEF CloseDialog, TypeOK, MachineType
  <2> QED BY <1>11, <2>1 DEF CloseDialog, TypeOK, ThreadInv, MachineType, thread
<1>12. CASE CloseWindow
  <2>1. CASE gui' = "close"
    <3>1. vmStop' \in [VMs -> BOOLEAN]
      BY <1>12, <2>1 DEF CloseWindow, TypeOK
    <3> QED BY <1>12, <2>1, <3>1 DEF CloseWindow, TypeOK, ThreadInv, Waits
  <2>2. CASE gui' = "closed"
    BY <1>12, <2>2, AllOffType DEF CloseWindow, TypeOK, ThreadInv, WorkerStates
  <2> QED BY <1>12, <2>1, <2>2 DEF CloseWindow
<1> QED BY <1>1, <1>2, <1>3, <1>4, <1>5, <1>6, <1>7, <1>8, <1>9, <1>10, <1>11, <1>12
        DEF Buttons

----------------------------------------------------------------------------
(* And the event loop. *)

EventLoop == PeriodicUpdate \/ Deliver \/ \E t \in Timers : Tick(t)

TimerType == [on : BOOLEAN, steps : 0..MaxSteps, pipe : BOOLEAN]

LEMMA EventsTyped ==
  ASSUME TypeOK, ThreadInv, EventLoop
  PROVE  TypeOK' /\ ThreadInv'
<1>a. AfterPeriodicUpdate \in BOOLEAN
  BY Zenon DEF AfterPeriodicUpdate, TypeOK
<1>1. CASE PeriodicUpdate
  BY <1>1, <1>a DEF PeriodicUpdate, TypeOK, ThreadInv, thread
<1>2. CASE Deliver
  <2>a. posted \in Seq(Signals) /\ posted # << >>
    BY <1>2 DEF Deliver, TypeOK
  <2>b. Tail(posted) \in Seq(Signals)
    BY <2>a
  <2>c. updating' \in {AfterPeriodicUpdate, FALSE} /\ posted' = Tail(posted)
    BY <1>2 DEF Deliver
  <2>1. posted' \in Seq(Signals) /\ updating' \in BOOLEAN
    BY <1>a, <2>b, <2>c
  <2> QED BY <1>2, <2>1 DEF Deliver, TypeOK, ThreadInv, thread
<1>3. ASSUME NEW t \in Timers, Tick(t)
      PROVE  TypeOK' /\ ThreadInv'
  <2> DEFINE m == timer[t]
  <2>0. m \in TimerType /\ timer \in [Timers -> TimerType]
    BY DEF TypeOK, TimerType
  <2>1. timer' \in [Timers -> TimerType]
    <3>1. CASE timer' = [timer EXCEPT ![t] = Off]
      BY <2>0, <3>1, LimitTypes DEF Off, TimerType
    <3>2. CASE TickSteps(t)
      <4>1. [m EXCEPT !.steps = Counted(@)] \in TimerType
        BY <2>0, <3>2, LimitTypes DEF TickSteps, Counted, TimerType
      <4>2. timer' = [timer EXCEPT ![t] = [m EXCEPT !.steps = Counted(@)]]
        BY <3>2 DEF TickSteps
      <4> QED BY <2>0, <4>1, <4>2
    <3> QED BY <1>3, <3>1, <3>2 DEF Tick, TickLimit, TickStops
  <2>2. /\ machine' \in MachineType /\ vmStop' \in [VMs -> BOOLEAN]
        /\ gui' \in {gui, "crashed"} /\ wasStoppedByUser' \in BOOLEAN
    <3>1. CASE UNCHANGED <<machine, vmStop, gui>>
      BY <1>3, <3>1 DEF Tick, TickLimit, TickStops, TickSteps, TypeOK, MachineType
    <3>2. CASE Advance(vm) /\ UNCHANGED <<gui, wasStoppedByUser>>
      BY <3>2, AdvanceType DEF TypeOK
    <3>3. CASE machine' = Thrown(vm) /\ gui' = "crashed" /\ UNCHANGED <<vmStop, wasStoppedByUser>>
      BY <3>3, ThrownType DEF TypeOK
    <3> QED BY <1>3, <3>1, <3>2, <3>3 DEF Tick, TickLimit, TickStops, TickSteps
  <2>3. TypeOK'
    BY <1>3, <2>1, <2>2 DEF Tick, TypeOK, MachineType, TimerType, thread
  <2> QED BY <1>3, <2>2, <2>3 DEF Tick, ThreadInv, Looks, thread
<1> QED BY <1>1, <1>2, <1>3 DEF EventLoop

LEMMA ThreadAlways == Spec => [](TypeOK /\ ThreadInv)
<1>1. Init => TypeOK /\ ThreadInv
  <2> SUFFICES ASSUME Init PROVE TypeOK /\ ThreadInv
    OBVIOUS
  <2>1. NoProgram \in ProgramType
    BY ControlTypes DEF ControlTypes
  <2>2. \A b \in BOOLEAN : [NoProgram EXCEPT !.broken = b] \in ProgramType
    BY <2>1 DEF ProgramType
  <2>3. machine \in MachineType /\ program \in ProgramType
    BY <2>2 DEF Init, MachineType
  <2>4. posted \in Seq(Signals)
    BY DEF Init
  <2> QED BY <2>3, <2>4, AllOffType, LimitTypes
          DEF Init, TypeOK, ThreadInv, VMs, WorkerStates, MachineType
<1>2. TypeOK /\ ThreadInv /\ [Next]_vars => TypeOK' /\ ThreadInv'
  <2> SUFFICES ASSUME TypeOK, ThreadInv, [Next]_vars PROVE TypeOK' /\ ThreadInv'
    OBVIOUS
  <2>1. CASE Next
    BY <2>1, WorkerTyped, ButtonsTyped, EventsTyped DEF Next, EventLoop
  <2>2. CASE UNCHANGED vars
    BY <2>2 DEF vars, thread, window, TypeOK, ThreadInv
  <2> QED BY <2>1, <2>2
<1> QED BY <1>1, <1>2, PTL DEF Spec

\* Every variable keeps its type; the thread executes at most max_instructions_
\* steps in a run.
THEOREM TypeCorrect == Spec => []TypeOK
BY ThreadAlways, PTL

----------------------------------------------------------------------------
(* A user who waits for each button to take effect, and time limits that are *)
(* long enough.                                                              *)

\* With a long enough wait, a handler goes on only when the thread is gone.
LEMMA ReturnIdle ==
  ASSUME Timely, TypeOK, WaitInv, NEW h \in Waits \ {"close"}, Return(h)
  PROVE  worker = "idle" /\ ~isPaused
BY DEF Return, TimedOut, WaitInv

\* A button finds the thread gone or in its loop, and no timer that will stop.
LEMMA ReadyCalm ==
  ASSUME Patient, TypeOK, ThreadInv, Ready
  PROVE  /\ worker \in {"idle", "loop", "step"}
         /\ ~running => worker = "idle"
         /\ vmStop[vm] => \A t \in Timers : ~timer[t].on
BY DEF Ready, Settled, ThreadInv

LEMMA WorkerCalm ==
  ASSUME TypeOK, ThreadInv, WaitInv, PauseInv, Worker
  PROVE  WaitInv' /\ PauseInv'
<1>1. worker # "idle" /\ ~isPaused /\ UNCHANGED <<gui, isPaused>>
  BY DEF Worker, WorkerStart, WorkerClear, WorkerCheck, WorkerStep, WorkerThrows,
         WorkerLeave, WorkerEnd, window, PauseInv
<1>2. PauseInv'
  BY <1>1 DEF PauseInv
<1>3. \/ worker \in {"starting", "clearing"}
      \/ worker' \notin {"starting", "clearing"} /\ UNCHANGED stop_requested
  BY DEF Worker, WorkerStart, WorkerClear, WorkerCheck, WorkerStep, WorkerThrows,
         WorkerLeave, WorkerEnd
<1>4. worker' \in {"loop", "step"} => worker \in {"loop", "step", "clearing"}
  BY DEF Worker, WorkerStart, WorkerClear, WorkerCheck, WorkerStep, WorkerThrows,
         WorkerLeave, WorkerEnd
<1>5. WaitInv'
  BY <1>1, <1>3, <1>4 DEF WaitInv
<1> QED BY <1>2, <1>5

LEMMA EventsCalm ==
  ASSUME TypeOK, ThreadInv, WaitInv, PauseInv, EventLoop
  PROVE  WaitInv' /\ PauseInv'
<1>1. UNCHANGED <<thread, isPaused, vm>> /\ gui' \in {gui, "crashed"}
      /\ gui \notin Waits
  BY DEF EventLoop, PeriodicUpdate, Deliver, Tick, TickLimit, TickStops, TickSteps,
         Looks, Waits
<1>2. vmStop[vm] => vmStop'[vm]
  BY DEF EventLoop, PeriodicUpdate, Deliver, Tick, TickLimit, TickStops, TickSteps,
         Advance, TypeOK
<1>3. (\A t \in Timers : ~timer[t].on) => UNCHANGED timer
  BY DEF EventLoop, PeriodicUpdate, Deliver, Tick
<1>4. WaitInv'
  BY <1>1 DEF WaitInv, thread, Waits
<1>5. PauseInv'
  BY <1>1, <1>2, <1>3 DEF PauseInv, thread
<1> QED BY <1>4, <1>5

LEMMA AskCalm ==
  ASSUME Patient, TypeOK, ThreadInv, WaitInv, PauseInv, Ready,
         NEW h \in Waits, AskThread(h)
  PROVE  WaitInv' /\ PauseInv'
<1>1. worker \in {"loop", "step"} /\ ~isPaused
  BY ReadyCalm DEF AskThread, ThreadInv, PauseInv, Ready
<1> QED BY <1>1 DEF AskThread, WaitInv, PauseInv, Waits

LEMMA ButtonsCalm ==
  ASSUME Patient, Timely, TypeOK, ThreadInv, WaitInv, PauseInv, Buttons
  PROVE  WaitInv' /\ PauseInv'
<1>1. CASE OnAssemble
  BY <1>1, AskCalm DEF OnAssemble, AskThreadOnly, AssembleRest, WaitInv, PauseInv, Waits
<1>2. CASE OnReset
  <2>1. CASE Ready /\ AskThreadOnly("reset")
    BY <2>1, AskCalm DEF AskThreadOnly, Waits
  <2>2. ASSUME NEW w \in BOOLEAN, ResetRest(w), gui # "dialog"
        PROVE  WaitInv' /\ PauseInv'
    BY <2>2 DEF ResetRest, WaitInv, PauseInv, Waits, TypeOK, thread
  <2> QED BY <1>2, <2>1, <2>2 DEF OnReset, Return, Ready
<1>3. CASE OnRun
  BY <1>3, ReadyCalm DEF OnRun, Ready, WaitInv, PauseInv, Waits, thread
<1>4. CASE RunResets
  <2>1. gui = "run" => ~running
    BY DEF WaitInv, ThreadInv
  <2>2. isPaused' = FALSE /\ gui' = "ready"
    BY <1>4, <2>1 DEF RunResets, AskThreadOnly, AskThread, RunRest
  <2> QED BY <2>2 DEF WaitInv, PauseInv, Waits
<1>5. CASE OnResume
  BY <1>5 DEF OnResume, Ready, WaitInv, PauseInv, Waits
<1>6. CASE OnPause
  <2>1. CASE Ready /\ AskThreadOnly("pause")
    BY <2>1, AskCalm DEF AskThreadOnly, Waits
  <2>2. CASE PauseRest /\ worker = "idle"
    BY <2>2 DEF PauseRest, WaitInv, PauseInv, Waits, TypeOK, thread
  <2> QED BY <1>6, <2>1, <2>2, ReadyCalm, ReturnIdle DEF OnPause, Waits
<1>7. CASE OnStop
  BY <1>7, AskCalm DEF OnStop, StopRest, WaitInv, PauseInv, Waits
<1>8. CASE OnStep
  <2>1. gui = "ready" /\ gui' \in {"ready", "crashed"} /\ UNCHANGED <<worker, isPaused, vm, timer>>
    BY <1>8 DEF OnStep, Ready, thread
  <2>2. vmStop[vm] => vmStop'[vm]
    BY <1>8 DEF OnStep, Advance, TypeOK
  <2> QED BY <2>1, <2>2 DEF WaitInv, PauseInv, Waits
<1>9. CASE OnUndo
  BY <1>9 DEF OnUndo, WaitInv, PauseInv, thread, window
<1>10. CASE ShowProcessorSelection
  <2>1. CASE Ready /\ AskThreadOnly("processor")
    BY <2>1, AskCalm DEF AskThreadOnly, Waits
  <2>2. CASE Ready /\ ~running /\ ProcessorRest(FALSE)
    <3>1. isPaused => \A t \in Timers : ~timer[t].on
      BY <2>2, ReadyCalm DEF PauseInv, Ready
    <3> QED BY <2>2, <3>1, ReadyCalm DEF ProcessorRest, WaitInv, PauseInv, Waits, thread
  <2>3. CASE Return("processor") /\ ProcessorRest(TRUE)
    BY <2>3, ReturnIdle DEF ProcessorRest, WaitInv, PauseInv, Waits, thread
  <2> QED BY <1>10, <2>1, <2>2, <2>3 DEF ShowProcessorSelection
<1>11. CASE CloseDialog
  BY <1>11 DEF CloseDialog, WaitInv, PauseInv, Waits, thread
<1>12. CASE CloseWindow
  <2>1. CASE Ready /\ gui' = "close" /\ UNCHANGED <<worker, isPaused, vm, timer>>
             /\ vmStop' = [vmStop EXCEPT ![threadVm] = TRUE]
    BY <2>1 DEF Ready, WaitInv, PauseInv, Waits, TypeOK
  <2>2. CASE gui' = "closed" /\ worker' = "idle" /\ timer' = AllOff
    BY <2>2 DEF WaitInv, PauseInv, Waits, AllOff, Off
  <2> QED BY <1>12, <2>1, <2>2 DEF CloseWindow
<1> QED BY <1>1, <1>2, <1>3, <1>4, <1>5, <1>6, <1>7, <1>8, <1>9, <1>10, <1>11, <1>12
        DEF Buttons

LEMMA CalmInit == Init => WaitInv /\ PauseInv
BY DEF Init, WaitInv, PauseInv, Waits

LEMMA CalmStep ==
  ASSUME Patient, Timely, TypeOK, ThreadInv, WaitInv, PauseInv, [Next]_vars
  PROVE  WaitInv' /\ PauseInv'
<1>1. CASE Next
  BY <1>1, WorkerCalm, ButtonsCalm, EventsCalm DEF Next, EventLoop
<1>2. CASE UNCHANGED vars
  BY <1>2 DEF vars, thread, window, WaitInv, PauseInv
<1> QED BY <1>1, <1>2

\* In the middle of the thread's Step only the Step and Undo buttons and the timers
\* change a machine.
LEMMA ResetStep ==
  ASSUME Timely, TypeOK, ThreadInv, WaitInv, MidStep, ~UserSteps,
         \A t \in Timers : ~Tick(t), [Next]_vars
  PROVE  machine' = machine
<1>1. running \/ gui = "closed"
  BY DEF MidStep, ThreadInv
<1>2. \A h \in Waits \ {"close"} : ~Return(h)
  BY ReturnIdle DEF MidStep
<1>3. gui \notin {"run", "dialog"}
  BY DEF MidStep, WaitInv
<1>4. CASE Worker
  BY <1>4 DEF MidStep, Worker, WorkerStart, WorkerClear, WorkerCheck, WorkerStep,
              WorkerThrows, WorkerLeave, WorkerEnd
<1>5. CASE Buttons
  BY <1>1, <1>2, <1>3, <1>5
     DEF Buttons, OnAssemble, OnReset, OnRun, RunResets, OnResume, OnPause, OnStop,
         ShowProcessorSelection, CloseDialog, CloseWindow, UserSteps, AskThreadOnly,
         AskThread, Ready, Waits, ProcessorRest
<1>6. CASE PeriodicUpdate \/ Deliver
  BY <1>6 DEF PeriodicUpdate, Deliver
<1>7. CASE UNCHANGED vars
  BY <1>7 DEF vars
<1> QED BY <1>4, <1>5, <1>6, <1>7 DEF Next

\* A paused window executes nothing by itself.
LEMMA PauseStep ==
  ASSUME PauseInv, isPaused
  PROVE  ~ThreadSteps /\ \A t \in Timers : ~(Tick(t) /\ TickSteps(t))
BY DEF PauseInv, ThreadSteps, Tick, TickSteps, ShouldStop, Looks

\* For a user who waits until a button has taken effect, and time limits long enough
\* for the thread, no handler resets, loads or replaces a machine in the middle of
\* the thread's step.
THEOREM NobodyElseResets == ASSUME Patient, Timely PROVE Spec => ResetsAlone
<1>1. TypeOK /\ ThreadInv /\ WaitInv /\ PauseInv /\ [Next]_vars => WaitInv' /\ PauseInv'
  BY CalmStep
<1>2. TypeOK /\ ThreadInv /\ WaitInv /\ [Next]_vars
        => [MidStep /\ ~UserSteps /\ (\A t \in Timers : ~Tick(t))
              => machine' = machine]_vars
  BY ResetStep
<1> QED BY <1>1, <1>2, CalmInit, ThreadAlways, PTL DEF Spec, ResetsAlone

\* For the same user, pausing pauses.
THEOREM PausingPauses == ASSUME Patient, Timely PROVE Spec => PausedStandsStill
<1>1. TypeOK /\ ThreadInv /\ WaitInv /\ PauseInv /\ [Next]_vars => WaitInv' /\ PauseInv'
  BY CalmStep
<1>2. PauseInv /\ [Next]_vars
        => [isPaused => ~ThreadSteps /\ \A t \in Timers : ~(Tick(t) /\ TickSteps(t))]_vars
  BY PauseStep
<1> QED BY <1>1, <1>2, CalmInit, ThreadAlways, PTL DEF Spec, PausedStandsStill
=============================================================================
