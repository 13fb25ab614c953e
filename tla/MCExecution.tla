----------------------------- MODULE MCExecution -----------------------------
(***************************************************************************)
(* Programs of one and two instructions: one that ends, one that jumps to  *)
(* itself, one that asks to stop, one that throws, one with errors.        *)
(***************************************************************************)
EXTENDS ExecutionCorrect

Never == [v \in VMs |-> 0]
First == [v \in VMs |-> 1]

Empty    == [len |-> 0, loops |-> FALSE, stopAt |-> Never, throwsAt |-> Never, broken |-> TRUE]
Straight == [Empty EXCEPT !.len = 2, !.broken = FALSE]
Forever  == [Straight EXCEPT !.loops = TRUE]
Exits    == [Straight EXCEPT !.stopAt = First]
Wild     == [Straight EXCEPT !.throwsAt = First]

Endless        == {[Forever EXCEPT !.len = 1]}
NormalPrograms == {Straight, Empty}
ShortPrograms  == Endless \union {[Wild EXCEPT !.len = 1], [Straight EXCEPT !.len = 1], Empty}
OtherPrograms  == NormalPrograms \union {Exits}
=============================================================================
