-------------------------- MODULE ExecutionCorrect ---------------------------
(***************************************************************************)
(* What the user of the buttons may rely on.  A user who waits until a     *)
(* button has taken effect (Patient) may rely on more than one who does    *)
(* not.                                                                    *)
(***************************************************************************)
EXTENDS ExecutionControl

WorkerStates == {"idle", "starting", "clearing", "loop", "step", "leaving", "returning"}
Waits        == {"assemble", "reset", "rerun", "pause", "stop", "processor", "close"}
Signals      == {"stepCompleted", "finished", "error"}

\* every variable has its type
TypeOK ==
  /\ worker \in WorkerStates
  /\ running \in BOOLEAN /\ stop_requested \in BOOLEAN
  /\ count \in 0..MaxInstructions
  /\ threadVm \in VMs /\ vm \in VMs
  /\ machine \in [VMs -> [at : Nat, prog : ProgramType]]
  /\ vmStop \in [VMs -> BOOLEAN]
  /\ program \in ProgramType
  /\ isPaused \in BOOLEAN /\ wasStoppedByUser \in BOOLEAN /\ updating \in BOOLEAN
  /\ timer \in [Timers -> [on : BOOLEAN, steps : 0..MaxSteps, pipe : BOOLEAN]]
  /\ posted \in Seq(Signals)
  /\ gui \in {"ready", "run", "dialog", "crashed", "closed"} \union Waits

\* No handler resets, loads or replaces the contents of a machine while the thread
\* is in the middle of Step.  (A Step or Undo button may well be pressed then, and
\* an animation timer may tick: nothing in the code prevents it.)
UserSteps   == OnStep \/ OnUndo
MidStep     == worker = "step" /\ worker' = "step"
ResetsAlone == [][MidStep /\ ~UserSteps /\ (\A t \in Timers : ~Tick(t))
                    => machine' = machine]_vars

\* While the window says it is paused only the Step button executes anything: the
\* thread has stopped, and a timer that is still active stops without a step.
ThreadSteps == worker = "step" /\ worker' # "step"
PausedStandsStill ==
  [][isPaused => ~ThreadSteps /\ \A t \in Timers : ~(Tick(t) /\ TickSteps(t))]_vars

\* Whatever program runs and whatever is pressed meanwhile, a background execution
\* comes to its end.
WorkerReturns == worker # "idle" ~> worker = "idle" \/ ~Alive

\* So does every animation.
TimersEnd == \A t \in Timers : timer[t].on ~> ~timer[t].on \/ ~Alive

\* The periodic update of the display does not go on for ever: the end of each
\* execution, normal or not, stops it.
UpdatesEnd == updating ~> ~updating \/ ~Alive

----------------------------------------------------------------------------
(* What does not hold *)

\* The thread and the timers that would execute an instruction if they ran now:
\* there is at most one.
Steppers == [thread : {w \in {"loop", "step"} : w = worker /\ ~stop_requested}]
            \union [timer : {t \in Timers : timer[t].on /\ ~ShouldStop(t)}]
OneStepper == \A a, b \in Steppers : a = b

\* "Execution completed successfully!" is printed at the end of a program only.
CompletionIsTrue ==
  [][posted # <<>> /\ posted' = Tail(posted) /\ Head(posted) = "finished"
       => AtEnd(vm)]_vars

\* With assembly errors present nothing is executed.
NeverRunsBroken == program.broken => worker # "step"

\* The thread executes no instruction after the program's exit.
Exited == \E k \in 1..machine[threadVm].at : machine[threadVm].prog.stopAt[threadVm] = k
ExitEnds == worker = "step" => ~Exited

\* After the processor has been switched nothing goes on executing.
SwitchStops ==
  [][vm' # vm => worker' = "idle" /\ \A t \in Timers : ~timer'[t].on]_vars
=============================================================================
