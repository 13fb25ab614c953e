-------------------------- MODULE ExecutionControl ---------------------------
(***************************************************************************)
(* Who executes the program, and when.  Three kinds of actors call Step of *)
(* a machine: the background thread VMExecutionThread, the animation       *)
(* timers of the main window, and the buttons of the main window, which    *)
(* also undo, reset and load.  They are coordinated by                     *)
(*    - running_ and stop_requested_ of VMExecutionThread,                 *)
(*    - stop_requested_ of each machine, which only the timers look at,    *)
(*    - isPaused_, wasStoppedByUser_ and program.errorCount of the window, *)
(*    - QThread::wait with a time limit, and signals posted to the window. *)
(*                                                                         *)
(* The window's thread executes one handler at a time, except that it      *)
(* blocks in QThread::wait while the background thread goes on, and that   *)
(* the processor dialog lets timers and posted signals through.  A machine *)
(* is abstracted to how many steps of its program it has executed.         *)
(***************************************************************************)
EXTENDS Integers, Sequences

CONSTANTS
  Programs,          \* what assembling a file may give, broken programs included
  NoProgram,         \* MainWindow::program before the first assembly
  Drain,             \* the steps that empty the pipeline after the last fetch
  MaxInstructions,   \* max_instructions_
  MaxSteps,          \* MAX_STEPS of an animation
  SignalEvery,       \* stepCompleted is emitted once in so many steps
  Timers,            \* bound: the animation timers
  MaxPosted,         \* bound: no button while more signals are undelivered
  Patient,           \* buttons are pressed only when the last one has taken effect
  Timely             \* a wait is long enough for a thread that was asked to stop

VMs == {"single", "pipelined"}

ProgramType ==
  [ len      : Nat,            \* instructions
    loops    : BOOLEAN,        \* the last one jumps to itself
    stopAt   : [VMs -> Nat],   \* the step that sets the machine's stop_requested_,
    throwsAt : [VMs -> Nat],   \* and the one that throws an exception; 0 for none
    broken   : BOOLEAN ]       \* errorCount # 0

ASSUME ControlTypes ==
  /\ Programs \subseteq ProgramType /\ NoProgram \in ProgramType
  /\ Drain \in Nat /\ MaxInstructions \in Nat /\ MaxSteps \in Nat
  /\ SignalEvery \in Nat \ {0} /\ MaxPosted \in Nat
  /\ Patient \in BOOLEAN /\ Timely \in BOOLEAN

VARIABLES
  worker,            \* where VMExecutionThread::run is, or "idle"
  running,           \* running_
  stop_requested,    \* VMExecutionThread::stop_requested_
  count,             \* instruction_count, 0 outside run
  threadVm,          \* vm_ of the thread
  machine,           \* of each machine, the program in memory and the steps done
  vmStop,            \* stop_requested_ of each machine
  vm,                \* MainWindow::vm
  program,           \* MainWindow::program
  isPaused,          \* isPaused_; the Resume button is enabled when it is set
  wasStoppedByUser,  \* wasStoppedByUser_
  updating,          \* updateTimer_ is active
  timer,             \* the animation timers
  posted,            \* signals of the thread the window has not handled
  gui                \* "ready", the handler that is blocked in wait, or a dialog

thread == <<worker, running, stop_requested, count>>
window == <<vm, program, isPaused, wasStoppedByUser, updating, timer, posted, gui>>
vars   == <<thread, threadVm, machine, vmStop, window>>

----------------------------------------------------------------------------
(* A machine *)

Blank(p) == [p EXCEPT !.loops = FALSE, !.stopAt = [v \in VMs |-> 0],
                      !.throwsAt = [v \in VMs |-> 0]]

\* Reset clears the memory and leaves program_size_
Cleared(m) == [at |-> 0, prog |-> Blank(m.prog)]
Loaded(p)  == [at |-> 0, prog |-> p]

Length(v)  == machine[v].prog.len + IF v = "pipelined" THEN Drain ELSE 0
PcAtEnd(v) == machine[v].at >= machine[v].prog.len
IsPipelineEmpty(v) == v = "single" \/ machine[v].at \in {0, Length(v)}
AtEnd(v)   == PcAtEnd(v) /\ IsPipelineEmpty(v)

\* the pipelined machine executes no jumps
Looping(v) == /\ v = "single" /\ machine[v].prog.loops
              /\ machine[v].at + 1 = machine[v].prog.len

Throws(v) == ~AtEnd(v) /\ machine[v].prog.throwsAt[v] = machine[v].at + 1

\* Fetch of the single-cycle machine has moved the pc when an exception leaves
\* Step; the pipelined machine has not advanced
Thrown(v) == IF v = "single" THEN [machine EXCEPT ![v].at = @ + 1] ELSE machine

Advance(v) ==
  /\ machine' = IF AtEnd(v) \/ Looping(v) THEN machine
                ELSE [machine EXCEPT ![v].at = @ + 1]
  /\ vmStop' = [vmStop EXCEPT ![v] =
                  @ \/ (~AtEnd(v) /\ machine[v].prog.stopAt[v] = machine[v].at + 1)]

----------------------------------------------------------------------------
(* VMExecutionThread::run *)

Alive == gui \notin {"crashed", "closed"}

WorkerStart ==
  /\ worker = "starting" /\ Alive
  /\ running' = TRUE
  /\ worker' = "clearing"
  /\ UNCHANGED <<stop_requested, count, threadVm, machine, vmStop, window>>

WorkerClear ==
  /\ worker = "clearing" /\ Alive
  /\ stop_requested' = FALSE
  /\ count' = 0
  /\ worker' = "loop"
  /\ UNCHANGED <<running, threadVm, machine, vmStop, window>>

\* a mistake the properties are tested with: the counter is set, not incremented
Counted_Once(n) == 1

\* the steps of the thread, and those of an animation
Counted(n) == n + 1

\* a mistake the properties are tested with: the limit is one too large
Continues_OneMore == ~stop_requested /\ count <= MaxInstructions /\ ~AtEnd(threadVm)

Continues == ~stop_requested /\ count < MaxInstructions /\ ~AtEnd(threadVm)

\* A run that was asked to stop or has reached its limit reports itself finished
\* too.  That no instruction retires for 11000 cycles cannot happen (CycleBound
\* of PipelineCorrect), so the check for progress is left out.
WorkerCheck ==
  /\ worker = "loop" /\ Alive
  /\ \/ /\ Continues
        /\ worker' = "step"
        /\ UNCHANGED <<count, posted>>
     \/ /\ ~Continues
        /\ worker' = "leaving"
        /\ count' = 0
        /\ posted' = posted \o (IF count >= MaxInstructions THEN <<"error">> ELSE <<>>)
                            \o <<"finished">>
  /\ UNCHANGED <<running, stop_requested, threadVm, machine, vmStop, vm, program,
                 isPaused, wasStoppedByUser, updating, timer, gui>>

WorkerStep ==
  /\ worker = "step" /\ Alive
  /\ ~Throws(threadVm)
  /\ Advance(threadVm)
  /\ count' = Counted(count)
  /\ posted' = IF count' % SignalEvery = 0 THEN Append(posted, "stepCompleted")
               ELSE posted
  /\ worker' = "loop"
  /\ UNCHANGED <<running, stop_requested, threadVm, vm, program, isPaused,
                 wasStoppedByUser, updating, timer, gui>>

\* a mistake the properties are tested with: an exception is swallowed
WorkerThrows_Silent ==
  /\ worker = "step" /\ Alive
  /\ Throws(threadVm)
  /\ machine' = Thrown(threadVm)
  /\ worker' = "leaving"
  /\ count' = 0
  /\ UNCHANGED <<running, stop_requested, threadVm, vmStop, window>>

WorkerThrows ==
  /\ worker = "step" /\ Alive
  /\ Throws(threadVm)
  /\ machine' = Thrown(threadVm)
  /\ posted' = Append(posted, "error")
  /\ worker' = "leaving"
  /\ count' = 0
  /\ UNCHANGED <<running, stop_requested, threadVm, vmStop, vm, program,
                 isPaused, wasStoppedByUser, updating, timer, gui>>

WorkerLeave ==
  /\ worker = "leaving" /\ Alive
  /\ running' = FALSE
  /\ worker' = "returning"
  /\ UNCHANGED <<stop_requested, count, threadVm, machine, vmStop, window>>

\* run has returned, and QThread takes note of it
WorkerEnd ==
  /\ worker = "returning" /\ Alive
  /\ worker' = "idle"
  /\ UNCHANGED <<running, stop_requested, count, threadVm, machine, vmStop, window>>

Worker == \/ WorkerStart \/ WorkerClear \/ WorkerCheck \/ WorkerStep
          \/ WorkerThrows \/ WorkerLeave \/ WorkerEnd

----------------------------------------------------------------------------
(* The parts the handlers of the window have in common *)

Off    == [on |-> FALSE, steps |-> 0, pipe |-> FALSE]
AllOff == [t \in Timers |-> Off]

\* nothing is on its way: no signal, no start of the thread, no stopped timer that
\* has not ticked
Settled ==
  /\ posted = <<>>
  /\ worker \in {"idle", "loop", "step"}
  /\ vmStop[vm] => \A t \in Timers : ~timer[t].on

Ready == /\ gui = "ready"
         /\ Len(posted) <= MaxPosted
         /\ Patient => Settled

\* requestStop, then block in wait
AskThread(h) ==
  /\ running
  /\ stop_requested' = TRUE
  /\ vmStop' = [vmStop EXCEPT ![threadVm] = TRUE]
  /\ gui' = h
  /\ UNCHANGED <<worker, running, count, threadVm, machine, vm, program, isPaused,
                 wasStoppedByUser, posted>>

AskThreadOnly(h) == AskThread(h) /\ UNCHANGED <<timer, updating>>

\* wait has timed out; when it is long enough, only on a thread that is not
\* asked to stop
TimedOut == Timely => worker \in {"loop", "step"} /\ ~stop_requested

\* a mistake the properties are tested with: the handler does not wait
Return_AtOnce(h) == gui = h

Return(h) == gui = h /\ (worker = "idle" \/ TimedOut)

\* executionThread_->start() does nothing while the thread is alive
StartThread ==
  /\ threadVm' = vm
  /\ worker' = IF worker = "idle" THEN "starting" ELSE worker
  /\ updating' = TRUE
  /\ UNCHANGED <<running, stop_requested, count, timer>>

\* updateTimer_ is stopped by a handler that had to wait for the thread
StartAnimation(waited) ==
  /\ \E t \in Timers :
       /\ ~timer[t].on
       /\ timer' = [timer EXCEPT ![t] =
                      [on |-> TRUE, steps |-> 0, pipe |-> vm = "pipelined"]]
  /\ updating' = (updating /\ ~waited)
  /\ UNCHANGED <<thread, threadVm>>

\* the two positions of the speed slider
StartExecution(waited) == StartThread \/ StartAnimation(waited)

----------------------------------------------------------------------------
(* The handlers of the buttons.  A handler that finds the thread running asks *)
(* it to stop and goes on after the wait.                                     *)

AssembleRest(waited) ==
  /\ isPaused' = FALSE
  /\ timer' = AllOff
  /\ updating' = (updating /\ ~waited)
  /\ \/ \E p \in Programs :
          /\ program' = p
          /\ machine' = IF p.broken THEN machine
                        ELSE [machine EXCEPT ![vm] = Loaded(p)]
     \/ UNCHANGED <<program, machine>>     \* the file has no name or is not saved
  /\ gui' = "ready"
  /\ UNCHANGED <<thread, threadVm, vmStop, vm, wasStoppedByUser, posted>>

OnAssemble ==
  \/ Ready /\ AskThreadOnly("assemble")
  \/ Ready /\ ~running /\ AssembleRest(FALSE)
  \/ Return("assemble") /\ AssembleRest(TRUE)

\* what onReset leaves in the machine
ResetMachine ==
  machine' = [machine EXCEPT ![vm] = IF program.broken THEN Cleared(@) ELSE Loaded(program)]

ResetRest(waited) ==
  /\ ResetMachine
  /\ vmStop' = [vmStop EXCEPT ![vm] = TRUE]
  /\ updating' = (updating /\ ~waited)
  /\ gui' = "ready"
  /\ UNCHANGED <<thread, threadVm, vm, program, isPaused, wasStoppedByUser, timer, posted>>

OnReset ==
  \/ Ready /\ AskThreadOnly("reset")
  \/ Ready /\ ~running /\ ResetRest(FALSE)
  \/ Return("reset") /\ ResetRest(TRUE)

\* onRun looks at running_, and then calls onReset, which looks again
OnRun ==
  /\ Ready
  /\ ~program.broken /\ ~running
  /\ gui' = "run"
  /\ UNCHANGED <<thread, threadVm, machine, vmStop, vm, program, isPaused,
                 wasStoppedByUser, updating, timer, posted>>

RunRest(waited) ==
  /\ ResetMachine
  /\ vmStop' = [vmStop EXCEPT ![vm] = FALSE]
  /\ isPaused' = FALSE
  /\ wasStoppedByUser' = FALSE
  /\ StartExecution(waited)
  /\ gui' = "ready"
  /\ UNCHANGED <<vm, program, posted>>

RunResets ==
  \/ gui = "run" /\ AskThreadOnly("rerun")
  \/ gui = "run" /\ ~running /\ RunRest(FALSE)
  \/ Return("rerun") /\ RunRest(TRUE)

\* onResume does not look at program.errorCount
OnResume ==
  /\ Ready
  /\ isPaused /\ ~running
  /\ vmStop' = [vmStop EXCEPT ![vm] = FALSE]
  /\ isPaused' = FALSE
  /\ wasStoppedByUser' = FALSE
  /\ StartExecution(FALSE)
  /\ UNCHANGED <<machine, vm, program, posted, gui>>

\* a mistake the properties are tested with: Pause does not tell the machine
PauseRest_Deaf ==
  /\ isPaused' = TRUE
  /\ wasStoppedByUser' = TRUE
  /\ updating' = FALSE
  /\ gui' = "ready"
  /\ UNCHANGED <<thread, threadVm, machine, vmStop, vm, program, timer, posted>>

PauseRest ==
  /\ vmStop' = [vmStop EXCEPT ![vm] = TRUE]
  /\ isPaused' = TRUE
  /\ wasStoppedByUser' = TRUE
  /\ updating' = FALSE
  /\ gui' = "ready"
  /\ UNCHANGED <<thread, threadVm, machine, vm, program, timer, posted>>

OnPause ==
  \/ Ready /\ AskThreadOnly("pause")
  \/ Ready /\ ~running /\ PauseRest
  \/ Return("pause") /\ PauseRest

\* onStop does not load the program again
StopRest ==
  /\ wasStoppedByUser' = TRUE
  /\ vmStop' = [vmStop EXCEPT ![vm] = TRUE]
  /\ machine' = [machine EXCEPT ![vm] = Cleared(@)]
  /\ isPaused' = FALSE
  /\ gui' = "ready"
  /\ UNCHANGED <<thread, threadVm, vm, program, posted>>

\* the update timer is among the timers it stops first
StopTimers == timer' = AllOff /\ updating' = FALSE

OnStop ==
  \/ Ready /\ AskThread("stop") /\ StopTimers
  \/ Ready /\ ~running /\ StopRest /\ StopTimers
  \/ Return("stop") /\ StopRest /\ StopTimers

\* onStep and onUndo look neither at the thread nor at the timers; an exception
\* in a handler ends the program
OnStep ==
  /\ Ready
  /\ ~program.broken
  /\ \/ /\ ~Throws(vm)
        /\ Advance(vm)
        /\ UNCHANGED gui
     \/ /\ Throws(vm)
        /\ machine' = Thrown(vm)
        /\ gui' = "crashed"
        /\ UNCHANGED vmStop
  /\ UNCHANGED <<thread, threadVm, vm, program, isPaused, wasStoppedByUser,
                 updating, timer, posted>>

\* back to where a recorded step began (PipelineUndo says to which)
OnUndo ==
  /\ Ready
  /\ ~program.broken
  /\ \E k \in 0..machine[vm].at : machine' = [machine EXCEPT ![vm].at = k]
  /\ UNCHANGED <<thread, threadVm, vmStop, window>>

\* showProcessorSelection: stop the thread, show the dialog, take its answer
ProcessorRest(waited) ==
  /\ gui' = "dialog"
  /\ updating' = (updating /\ ~waited)
  /\ UNCHANGED <<thread, threadVm, machine, vmStop, vm, program, isPaused,
                 wasStoppedByUser, timer, posted>>

ShowProcessorSelection ==
  \/ Ready /\ AskThreadOnly("processor")
  \/ Ready /\ ~running /\ ProcessorRest(FALSE)
  \/ Return("processor") /\ ProcessorRest(TRUE)

CloseDialog ==
  /\ gui = "dialog"
  /\ gui' = "ready"
  /\ \/ UNCHANGED <<vm, threadVm, machine>>
     \/ \E v \in VMs :
          /\ vm' = v
          /\ threadVm' = v
          /\ machine' = [machine EXCEPT ![v] = IF program.broken THEN Cleared(@)
                                                ELSE Loaded(program)]
  /\ UNCHANGED <<thread, vmStop, program, isPaused, wasStoppedByUser, updating,
                 timer, posted>>

\* ~MainWindow asks the thread to stop, waits, and then terminates it
CloseWindow ==
  \/ /\ Ready
     /\ stop_requested' = TRUE
     /\ vmStop' = [vmStop EXCEPT ![threadVm] = TRUE]
     /\ gui' = "close"
     /\ UNCHANGED <<worker, running, count, threadVm, machine, vm, program,
                    isPaused, wasStoppedByUser, updating, timer, posted>>
  \/ /\ Return("close")
     /\ gui' = "closed"
     /\ worker' = "idle"
     /\ timer' = AllOff
     /\ updating' = FALSE
     /\ UNCHANGED <<running, stop_requested, count, threadVm, machine, vmStop, vm,
                    program, isPaused, wasStoppedByUser, posted>>

Buttons == \/ OnAssemble \/ OnReset \/ OnRun \/ RunResets \/ OnResume \/ OnPause
           \/ OnStop \/ OnStep \/ OnUndo \/ ShowProcessorSelection \/ CloseDialog
           \/ CloseWindow

----------------------------------------------------------------------------
(* The event loop of the window *)

Looks == gui \in {"ready", "dialog"}

\* onPeriodicUpdate stops updateTimer_ at the end of the program
AfterPeriodicUpdate == updating /\ ~AtEnd(vm)

PeriodicUpdate ==
  /\ Looks /\ updating
  /\ updating' = AfterPeriodicUpdate
  /\ UNCHANGED <<thread, threadVm, machine, vmStop, vm, program, isPaused,
                 wasStoppedByUser, timer, posted, gui>>

\* onExecutionFinished, onExecutionError, onPeriodicUpdate
Deliver ==
  /\ Looks /\ posted # <<>>
  /\ updating' = IF Head(posted) = "stepCompleted" THEN AfterPeriodicUpdate ELSE FALSE
  /\ posted' = Tail(posted)
  /\ UNCHANGED <<thread, threadVm, machine, vmStop, vm, program, isPaused,
                 wasStoppedByUser, timer, gui>>

\* a timer knows the machine it was started for only as "pipelined or not"
ShouldStop(t) == (PcAtEnd(vm) /\ (timer[t].pipe => IsPipelineEmpty(vm))) \/ vmStop[vm]

\* a mistake the properties are tested with: the limit is noticed, the timer goes on
TickLimit_GoesOn(t) ==
  /\ timer[t].steps >= MaxSteps
  /\ wasStoppedByUser' = TRUE
  /\ UNCHANGED <<machine, vmStop, timer, gui>>

TickLimit(t) ==
  /\ timer[t].steps >= MaxSteps
  /\ timer' = [timer EXCEPT ![t] = Off]
  /\ wasStoppedByUser' = TRUE
  /\ UNCHANGED <<machine, vmStop, gui>>

TickStops(t) ==
  /\ timer[t].steps < MaxSteps
  /\ ShouldStop(t)
  /\ timer' = [timer EXCEPT ![t] = Off]
  /\ UNCHANGED <<machine, vmStop, wasStoppedByUser, gui>>

TickSteps(t) ==
  /\ timer[t].steps < MaxSteps
  /\ ~ShouldStop(t)
  /\ timer' = [timer EXCEPT ![t].steps = Counted(@)]
  /\ \/ ~Throws(vm) /\ Advance(vm) /\ UNCHANGED gui
     \/ /\ Throws(vm)
        /\ machine' = Thrown(vm)
        /\ gui' = "crashed"
        /\ UNCHANGED vmStop
  /\ UNCHANGED wasStoppedByUser

\* the timeout of an animation timer
Tick(t) ==
  /\ Looks /\ timer[t].on
  /\ TickLimit(t) \/ TickStops(t) \/ TickSteps(t)
  /\ UNCHANGED <<thread, threadVm, vm, program, isPaused, updating, posted>>

----------------------------------------------------------------------------

\* program.errorCount is not initialised
Init ==
  /\ worker = "idle" /\ running = FALSE /\ stop_requested = FALSE /\ count = 0
  /\ vm = "single" /\ threadVm = "single"
  /\ machine = [v \in VMs |-> [at |-> 0, prog |-> [NoProgram EXCEPT !.broken = FALSE]]]
  /\ vmStop = [v \in VMs |-> FALSE]
  /\ \E b \in BOOLEAN : program = [NoProgram EXCEPT !.broken = b]
  /\ isPaused = FALSE /\ wasStoppedByUser = FALSE /\ updating = FALSE
  /\ timer = AllOff
  /\ posted = <<>> /\ gui = "ready"

Next == Worker \/ Buttons \/ PeriodicUpdate \/ Deliver \/ \E t \in Timers : Tick(t)

Spec == Init /\ [][Next]_vars

\* The operating system runs the thread; a wait ends; the event loop comes back to
\* every timer and to every posted signal, however often a handler blocks it.
Fairness ==
  /\ WF_vars(Worker)
  /\ WF_vars(OnAssemble /\ gui = "assemble") /\ WF_vars(OnReset /\ gui = "reset")
  /\ WF_vars(RunResets) /\ WF_vars(OnPause /\ gui = "pause")
  /\ WF_vars(OnStop /\ gui = "stop")
  /\ WF_vars(ShowProcessorSelection /\ gui = "processor")
  /\ WF_vars(CloseWindow /\ gui = "close")
  /\ SF_vars(Deliver) /\ \A t \in Timers : SF_vars(Tick(t))

FairSpec == Spec /\ Fairness
=============================================================================
