-------------------------- MODULE MCSchedulerStops --------------------------
(* Two programs that are stopped in different ways at the same time: g1, with the
   processes p1 (main) and p2, is frozen and unfrozen; g2, with the process p3, is
   debugged, stops at breakpoints and errors, and is continued or killed. *)
EXTENDS Scheduler, TLC

CONSTANTS g1, g2, p1, p2, p3

TwoProgramsOf == (p1 :> g1) @@ (p2 :> g1) @@ (p3 :> g2)
TwoMains == (g1 :> p1) @@ (g2 :> p3)
Unlinked == [p \in Process |-> {}]
Stops == (g1 :> {"yield", "send", "spawn"})
         @@ (g2 :> {"Breakpoint", "UncaughtException", "CompileTimeError", "Terminated"})
=============================================================================
