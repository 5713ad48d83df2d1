------------------------ MODULE InterpretationBarrier ------------------------
(***************************************************************************)
(* The lock-free handshake between the thread that interprets Dart code    *)
(* and the threads that want the interpreted process to stop soon          *)
(* (src/vm/scheduler.cc, class InterpretationBarrier), together with the   *)
(* stack-limit word through which a process notices the request            *)
(* (src/vm/process.cc, SetStackMarker .. UpdateStackLimit).                *)
(*                                                                         *)
(* Every access to an Atomic<> is one step.  A compare_exchange_weak that  *)
(* fails stores the value it saw in the local copy and the loop goes on; a *)
(* spurious failure reloads the same value and is a stuttering step.       *)
(***************************************************************************)

CONSTANTS
    Process,      \* the processes the scheduler interprets, one at a time
    Preempters,   \* threads that call PreemptProcess: the preempter thread
                  \* and the threads inside PauseInterpreterLoop
    NULL,         \* current_process: no process is being interpreted
    kPreemptMarker \* current_process: preempt the next process to enter

ASSUME BarrierConstants ==
    /\ NULL \notin Process
    /\ kPreemptMarker \notin Process
    /\ NULL # kPreemptMarker

VARIABLES
    current_process,  \* Atomic<Process*> InterpretationBarrier::current_process
    stack_limit,      \* Atomic<uword> Process::stack_limit_, see StackLimit
    alive,            \* the processes that have not been deleted
    ipc, iproc,       \* interpreter thread: control point, process it is given
    ivalue,           \* interpreter thread: `value` in Enter
    ilimit,           \* interpreter thread: `current_limit` in UpdateStackLimit
    pc, value,        \* preempters: control point, local copy `process`
    asked             \* history: the interpreter has not been at "out" since
                      \* the preempter's last call began

vars == <<current_process, stack_limit, alive, ipc, iproc, ivalue, ilimit,
          pc, value, asked>>

(***************************************************************************)
(* What the code tells apart about the word: "real" is an address in the   *)
(* stack, "marked" has the preempt bit set above kMaxStackMarker and so    *)
(* makes every stack check fail, "cleared" is kMaxStackMarker itself, all  *)
(* interrupts handled but the real limit not restored yet.                 *)
(***************************************************************************)
StackLimit == {"real", "marked", "cleared"}

BarrierValue == Process \cup {NULL, kPreemptMarker}

\* Between the end of Enter and the end of Leave.
Inside == {"dart", "clear", "update", "exchange", "clear_update",
           "clear_exchange", "leave"}

TypeOK ==
    /\ current_process \in BarrierValue
    /\ stack_limit \in [Process -> StackLimit]
    /\ alive \subseteq Process
    /\ ipc \in {"out", "given", "enter", "enter_store"} \cup Inside
    /\ iproc \in Process
    /\ ivalue \in BarrierValue
    /\ ilimit \in StackLimit
    /\ pc \in [Preempters -> {"idle", "loop", "preempt", "store", "done"}]
    /\ value \in [Preempters -> BarrierValue]
    /\ asked \in [Preempters -> BOOLEAN]

Init ==
    /\ current_process = NULL
    /\ stack_limit = [p \in Process |-> "real"]
    /\ alive = Process
    /\ ipc = "out"
    /\ iproc \in Process
    /\ ivalue = NULL
    /\ ilimit = "real"
    /\ pc = [t \in Preempters |-> "idle"]
    /\ value = [t \in Preempters |-> NULL]
    /\ asked = [t \in Preempters |-> FALSE]

-----------------------------------------------------------------------------
(* Process::SetStackMarker(kPreemptMarker), linearised at its CAS. *)
Preempt(p) == stack_limit' = [stack_limit EXCEPT ![p] = "marked"]

(* PreemptProcess: the load before the loop. *)
PreemptLoad(t) ==
    /\ pc[t] = "idle"
    /\ value' = [value EXCEPT ![t] = current_process]
    /\ asked' = [asked EXCEPT ![t] = ipc # "out"]
    /\ pc' = [pc EXCEPT ![t] = "loop"]
    /\ UNCHANGED <<current_process, stack_limit, alive, ipc, iproc, ivalue, ilimit>>

(* PreemptProcess: a marker is pending already. *)
PreemptPending(t) ==
    /\ pc[t] = "loop"
    /\ value[t] = kPreemptMarker
    /\ pc' = [pc EXCEPT ![t] = "done"]
    /\ UNCHANGED <<current_process, stack_limit, alive, ipc, iproc, ivalue, ilimit, value, asked>>

(* PreemptProcess: nobody interprets, leave the marker for the next Enter. *)
PreemptMark(t) ==
    /\ pc[t] = "loop"
    /\ value[t] = NULL
    /\ current_process = value[t]
    /\ current_process' = kPreemptMarker
    /\ pc' = [pc EXCEPT ![t] = "done"]
    /\ UNCHANGED <<stack_limit, alive, ipc, iproc, ivalue, ilimit, value, asked>>

(* Mutant: the process is preempted without being taken out first. *)
PreemptTakeKeeps(t) ==
    /\ pc[t] = "loop"
    /\ value[t] \in Process
    /\ current_process = value[t]
    /\ pc' = [pc EXCEPT ![t] = "preempt"]
    /\ UNCHANGED <<current_process, stack_limit, alive, ipc, iproc, ivalue, ilimit, value, asked>>

(* PreemptProcess: take the process out of the barrier. *)
PreemptTake(t) ==
    /\ pc[t] = "loop"
    /\ value[t] \in Process
    /\ current_process = value[t]
    /\ current_process' = NULL
    /\ pc' = [pc EXCEPT ![t] = "preempt"]
    /\ UNCHANGED <<stack_limit, alive, ipc, iproc, ivalue, ilimit, value, asked>>

(* PreemptProcess: either CAS failed and reloaded `process`. *)
PreemptRetry(t) ==
    /\ pc[t] = "loop"
    /\ value[t] # kPreemptMarker
    /\ current_process # value[t]
    /\ value' = [value EXCEPT ![t] = current_process]
    /\ UNCHANGED <<current_process, stack_limit, alive, ipc, iproc, ivalue, ilimit, pc, asked>>

(* PreemptProcess: process->Preempt() on the process that was taken. *)
PreemptTaken(t) ==
    /\ pc[t] = "preempt"
    /\ Preempt(value[t])
    /\ pc' = [pc EXCEPT ![t] = "store"]
    /\ UNCHANGED <<current_process, alive, ipc, iproc, ivalue, ilimit, value, asked>>

(* PreemptProcess: the plain store that puts the process back. *)
PreemptStore(t) ==
    /\ pc[t] = "store"
    /\ current_process' = value[t]
    /\ pc' = [pc EXCEPT ![t] = "done"]
    /\ UNCHANGED <<stack_limit, alive, ipc, iproc, ivalue, ilimit, value, asked>>

(* The caller of PreemptProcess goes on; it will call it again. *)
PreemptReturn(t) ==
    /\ pc[t] = "done"
    /\ pc' = [pc EXCEPT ![t] = "idle"]
    /\ UNCHANGED <<current_process, stack_limit, alive, ipc, iproc, ivalue, ilimit, value, asked>>

PreemptProcess(t) ==
    \/ PreemptLoad(t) \/ PreemptPending(t) \/ PreemptMark(t) \/ PreemptTake(t)
    \/ PreemptRetry(t) \/ PreemptTaken(t) \/ PreemptStore(t)

-----------------------------------------------------------------------------
(* The interpreter loop has tested pause_ for the last time (line 340) and
   goes on to interpret p; "out" is the point just before that test. *)
InterpretProcess(p) ==
    /\ ipc = "out"
    /\ p \in alive
    /\ iproc' = p
    /\ ipc' = "given"
    /\ UNCHANGED <<current_process, stack_limit, alive, ivalue, ilimit, pc, value, asked>>

(* Enter: the load before the loop. *)
EnterLoad ==
    /\ ipc = "given"
    /\ ivalue' = current_process
    /\ ipc' = "enter"
    /\ UNCHANGED <<current_process, stack_limit, alive, iproc, ilimit, pc, value, asked>>

(* Mutant: Enter overwrites a pending marker without preempting. *)
EnterMarkedForgets ==
    /\ ipc = "enter"
    /\ ivalue = kPreemptMarker
    /\ ipc' = "enter_store"
    /\ UNCHANGED <<current_process, stack_limit, alive, iproc, ivalue, ilimit, pc, value, asked>>

(* Enter: a preemption was requested before the process got here. *)
EnterMarked ==
    /\ ipc = "enter"
    /\ ivalue = kPreemptMarker
    /\ Preempt(iproc)
    /\ ipc' = "enter_store"
    /\ UNCHANGED <<current_process, alive, iproc, ivalue, ilimit, pc, value, asked>>

EnterStore ==
    /\ ipc = "enter_store"
    /\ current_process' = iproc
    /\ ipc' = "dart"
    /\ UNCHANGED <<stack_limit, alive, iproc, ivalue, ilimit, pc, value, asked>>

(* Enter: the CAS, which reloads `value` when it fails. *)
EnterExchange ==
    /\ ipc = "enter"
    /\ ivalue # kPreemptMarker
    /\ IF current_process = ivalue
       THEN /\ current_process' = iproc
            /\ ipc' = "dart"
            /\ UNCHANGED ivalue
       ELSE /\ ivalue' = current_process
            /\ UNCHANGED <<current_process, ipc>>
    /\ UNCHANGED <<stack_limit, alive, iproc, ilimit, pc, value, asked>>

(* Mutant: Leave stores NULL without waiting. *)
LeaveNoWait ==
    /\ ipc = "leave"
    /\ current_process' = NULL
    /\ ipc' = "out"
    /\ asked' = [t \in Preempters |-> FALSE]
    /\ UNCHANGED <<stack_limit, alive, iproc, ivalue, ilimit, pc, value>>

(* Leave spins until no PreemptProcess has taken the process. *)
Leave ==
    /\ ipc = "leave"
    /\ current_process = iproc
    /\ current_process' = NULL
    /\ ipc' = "out"
    /\ asked' = [t \in Preempters |-> FALSE]
    /\ UNCHANGED <<stack_limit, alive, iproc, ivalue, ilimit, pc, value>>

-----------------------------------------------------------------------------
(* Interpreter::Run returns for a reason of its own: the process yielded,
   terminated, threw or hit a breakpoint. *)
RunReturns ==
    /\ ipc = "dart"
    /\ ipc' = "leave"
    /\ UNCHANGED <<current_process, stack_limit, alive, iproc, ivalue, ilimit, pc, value, asked>>

(* A stack check fails and HandleStackOverflow finds the preempt marker. *)
StackCheck ==
    /\ ipc = "dart"
    /\ stack_limit[iproc] = "marked"
    /\ ipc' = "clear"
    /\ UNCHANGED <<current_process, stack_limit, alive, iproc, ivalue, ilimit, pc, value, asked>>


(* ClearStackMarker(kPreemptMarker), linearised at its CAS. *)
ClearStackMarker ==
    /\ ipc = "clear"
    /\ stack_limit' = [stack_limit EXCEPT ![iproc] = "cleared"]
    /\ ipc' = "clear_update"
    /\ UNCHANGED <<current_process, alive, iproc, ivalue, ilimit, pc, value, asked>>

(* UpdateCoroutine and the stack growth in HandleStackOverflow call
   UpdateStackLimit while the process goes on running. *)
ChangeStack ==
    /\ ipc = "dart"
    /\ ipc' = "update"
    /\ UNCHANGED <<current_process, stack_limit, alive, iproc, ivalue, ilimit, pc, value, asked>>

(* UpdateStackLimit: the load, and the test that no marker is set. *)
UpdateLoad ==
    /\ ipc \in {"update", "clear_update"}
    /\ ilimit' = stack_limit[iproc]
    /\ ipc' = IF stack_limit[iproc] = "marked"
              THEN IF ipc = "update" THEN "dart" ELSE "leave"
              ELSE IF ipc = "update" THEN "exchange" ELSE "clear_exchange"
    /\ UNCHANGED <<current_process, stack_limit, alive, iproc, ivalue, pc, value, asked>>

(* Mutant: UpdateStackLimit ends in a plain store. *)
UpdateStore ==
    /\ ipc \in {"exchange", "clear_exchange"}
    /\ stack_limit' = [stack_limit EXCEPT ![iproc] = "real"]
    /\ ipc' = IF ipc = "exchange" THEN "dart" ELSE "leave"
    /\ UNCHANGED <<current_process, alive, iproc, ivalue, ilimit, pc, value, asked>>

(* UpdateStackLimit: compare_exchange_strong to the real limit, whose result
   is ignored; after a cleared marker the process returns kInterrupt. *)
UpdateExchange ==
    /\ ipc \in {"exchange", "clear_exchange"}
    /\ stack_limit' = IF stack_limit[iproc] = ilimit
                      THEN [stack_limit EXCEPT ![iproc] = "real"]
                      ELSE stack_limit
    /\ ipc' = IF ipc = "exchange" THEN "dart" ELSE "leave"
    /\ UNCHANGED <<current_process, alive, iproc, ivalue, ilimit, pc, value, asked>>

(* The scheduler deletes a process only when it is not interpreting it. *)
DeleteProcess(p) ==
    /\ ipc = "out"
    /\ p \in alive
    /\ alive' = alive \ {p}
    /\ UNCHANGED <<current_process, stack_limit, ipc, iproc, ivalue, ilimit, pc, value, asked>>

-----------------------------------------------------------------------------
EnterStep == EnterLoad \/ EnterMarked \/ EnterStore \/ EnterExchange
DartStep == ClearStackMarker \/ UpdateLoad \/ UpdateExchange

Next ==
    \/ \E t \in Preempters : PreemptProcess(t) \/ PreemptReturn(t)
    \/ \E p \in Process : InterpretProcess(p) \/ DeleteProcess(p)
    \/ EnterStep \/ Leave
    \/ RunReturns \/ StackCheck \/ ChangeStack \/ DartStep

(***************************************************************************)
(* Threads are scheduled fairly.  RunReturns has no fairness: Dart code    *)
(* may loop forever.  StackCheck is strongly fair: the bytecodes check the *)
(* stack limit at every call and every backward branch, so a process that  *)
(* keeps running keeps checking.  Leave is strongly fair: preemptions are  *)
(* 100 ms apart (GetNextPreemptTime) or wait for a notification in between *)
(* (PauseInterpreterLoop), so they cannot fail its CAS forever.            *)
(***************************************************************************)
Fairness ==
    /\ \A t \in Preempters : WF_vars(PreemptProcess(t))
    /\ WF_vars(EnterStep) /\ WF_vars(DartStep)
    /\ SF_vars(StackCheck) /\ SF_vars(Leave)

Spec == Init /\ [][Next]_vars /\ Fairness

-----------------------------------------------------------------------------
(* Properties *)

\* The preempter that took the process out of the barrier and has not put it back.
Holds(t) == pc[t] \in {"preempt", "store"}

\* Leave "will ensure we wait until [PreemptProcess] calls (on other threads)
\* are done before we go out of this function": no thread calls Preempt() on a
\* process that the scheduler may have deleted.
PreemptTargetAlive ==
    \A t \in Preempters : pc[t] = "preempt" => value[t] \in alive

\* The process being interpreted is in the barrier, unless exactly one preempter
\* holds it, in which case that preempter's copy is that very process: two
\* preempters never restore the barrier over one another, a restore never
\* resurrects a process that left, and Enter never overwrites a process.
BarrierHoldsProcess ==
    /\ ipc # "out" => iproc \in alive
    /\ \A t \in Preempters :
          Holds(t) => /\ ipc \in Inside
                      /\ value[t] = iproc
                      /\ current_process \in {NULL, kPreemptMarker}
    /\ \A t, u \in Preempters : Holds(t) /\ Holds(u) => t = u
    /\ ipc \in Inside => \/ current_process = iproc
                         \/ \E t \in Preempters : Holds(t)
    /\ ipc \notin Inside => current_process \in {NULL, kPreemptMarker}
    /\ ipc = "enter" => ivalue \in {NULL, current_process}
    /\ ipc = "enter_store" => current_process = kPreemptMarker

\* A preempt marker on the stack limit disappears only when the process takes
\* the interrupt for it: UpdateStackLimit, which runs on coroutine changes and
\* stack growth, never writes a real limit over a marker set concurrently.
MarkerOnlyTaken ==
    [][\A p \in Process :
          stack_limit[p] = "marked" /\ stack_limit'[p] # "marked"
            => ipc = "clear" /\ p = iproc]_vars

\* Every PreemptProcess call stops a process that would run forever, whether it
\* finds the process in the barrier, on its way into it, or taken by another
\* preempter: the interpreter thread gets back to its test of pause_ after the
\* call began.
PreemptionLands ==
    \A t \in Preempters : asked[t] ~> ~asked[t]

=============================================================================
