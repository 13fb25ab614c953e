----------------------------- MODULE TimeTravel -----------------------------
(***************************************************************************)
(* What a debugger that can step back promises: the states it has shown    *)
(* are a stack.  A step shows a later state, an undo shows the previous    *)
(* one again, exactly as it was, and a restart forgets them all.           *)
(***************************************************************************)
EXTENDS Naturals, Sequences

CONSTANTS
  Initial(_),     \* the machine has not run yet
  Later(_, _)     \* the second machine is the first one, one step later

VARIABLE history  \* the states shown, the current one last

Shown == history[Len(history)]

Restarted == Len(history) = 1 /\ Initial(Shown)

Init == Restarted

Step == /\ Len(history') = Len(history) + 1
        /\ SubSeq(history', 1, Len(history)) = history
        /\ Later(Shown, Shown')

Undo == /\ Len(history) > 1
        /\ history' = SubSeq(history, 1, Len(history) - 1)

Restart == Restarted'

Next == Step \/ Undo \/ Restart

Spec == Init /\ [][Next]_history
=============================================================================
