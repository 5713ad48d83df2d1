----------------------------- MODULE MCScheduler -----------------------------
(* Small instances of the scheduler.  Program g1 has the processes p1 (main)
   and p2, which p1 spawns. *)
EXTENDS Scheduler, TLC

CONSTANTS g1, p1, p2

OnlyMain == (p1 :> g1)
OneProgramOf == (p1 :> g1) @@ (p2 :> g1)
OneMain == (g1 :> p1)

\* p1 and p2 are linked: the death of one signals the other.
Linked == [p \in Process |-> {p1, p2} \ {p}]
Unlinked == [p \in Process |-> {}]

\* What the Dart code of g1 does.
Lives == [x \in Program |-> {"yield", "send", "exit_send", "spawn", "Terminated",
                             "UncaughtException"}]
Spawns == [x \in Program |-> {"yield", "spawn"}]
Runs == [x \in Program |-> {"yield", "send", "spawn"}]
Breaks == [x \in Program |-> {"yield", "Breakpoint"}]
Ends == [x \in Program |-> {"yield", "Terminated"}]
=============================================================================
