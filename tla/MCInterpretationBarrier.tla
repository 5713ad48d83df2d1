----------------------- MODULE MCInterpretationBarrier -----------------------
(* InterpretationBarrier for TLC: the two processes stand for the one being
   interpreted and the next; two preempters are the preempter thread and one
   thread that pauses the interpreter loop. *)
EXTENDS InterpretationBarrier
=============================================================================
