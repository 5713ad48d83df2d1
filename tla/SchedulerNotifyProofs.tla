----------------------- MODULE SchedulerNotifyProofs ------------------------
(***************************************************************************)
(* Nobody sleeps through what it waits for, for any number of programs,    *)
(* processes and threads: a process with a message or a signal is woken,   *)
(* and the interpreter thread with something to do is notified.            *)
(***************************************************************************)
EXTENDS SchedulerInvariant

USE SMTT(20), ZenonT(20) DEF programVars, processVars, pauseVars, monitorVars, spinVars,
        threadVars, interpVars, sessionVars

-----------------------------------------------------------------------------
(* NoLostWakeup *)

\* Where a thread has put a message or a signal and is going to look at the process.
Wakers == {"resume_process", "target", "target_exit", "signal"}

Waking(p) == \E t \in Thread : pc[t] \in Wakers /\ target[t] = p

\* Once the interpreter thread has found the mailbox of the yielding process empty,
\* what arrives there has a thread that waits for the process to leave kYielding;
\* the same for the signal.
YieldInv ==
    /\ pc[Interpreter] \in {"yield_signal", "yield_sleep"} /\ mail[current] => Waking(current)
    /\ pc[Interpreter] = "yield_sleep" /\ signal[current] => Waking(current)

WakeInv ==
    /\ mail \in [Process -> BOOLEAN] /\ signal \in [Process -> BOOLEAN]
    /\ NoLostWakeup /\ YieldInv

\* What a step may do to a process that sleeps or yields: nothing arrives without
\* a thread that is going to wake it, and no such thread goes away.
KeepsWaking(p) ==
    /\ Waking(p) => Waking(p)'
    /\ mail'[p] => mail[p] \/ Waking(p)'
    /\ signal'[p] => signal[p] \/ Waking(p)'

LEMMA WakeFrame ==
    ASSUME WakeInv, ListInv, ListInv',
           mail' \in [Process -> BOOLEAN], signal' \in [Process -> BOOLEAN],
           \A p \in Process : state'[p] \in {"Sleeping", "Yielding"} => KeepsWaking(p),
           \A p \in Process : state'[p] = "Sleeping" => state[p] = "Sleeping",
           \/ pc'[Interpreter] = pc[Interpreter] /\ current' = current
           \/ pc'[Interpreter] \notin {"yield_signal", "yield_sleep"}
    PROVE  WakeInv'
<1>1. NoLostWakeup'
  <2> SUFFICES ASSUME NEW p \in Process, state'[p] = "Sleeping", mail'[p] \/ signal'[p]
               PROVE  Waking(p)'
    BY DEF NoLostWakeup, Waking, Wakers
  <2>1. KeepsWaking(p) /\ state[p] = "Sleeping"
    OBVIOUS
  <2>2. mail[p] \/ signal[p] => Waking(p)
    BY <2>1 DEF WakeInv, NoLostWakeup, Waking, Wakers
  <2> QED  BY <2>1, <2>2 DEF KeepsWaking
<1>2. YieldInv'
  <2>1. CASE pc'[Interpreter] \notin {"yield_signal", "yield_sleep"}
    BY <2>1 DEF YieldInv
  <2>2. CASE pc'[Interpreter] = pc[Interpreter] /\ current' = current
             /\ pc[Interpreter] \in {"yield_signal", "yield_sleep"}
    <3>1. current \in Process /\ state'[current] = "Yielding"
      BY <2>2 DEF ListInv, RunningOwned, Yielding
    <3>2. PICK p \in Process : p = current /\ KeepsWaking(p)
      BY <3>1
    <3>3. /\ mail[p] => Waking(p)
          /\ pc[Interpreter] = "yield_sleep" /\ signal[p] => Waking(p)
      BY <2>2, <3>2 DEF WakeInv, YieldInv
    <3>4. /\ mail'[p] => Waking(p)'
          /\ pc'[Interpreter] = "yield_sleep" /\ signal'[p] => Waking(p)'
      BY <2>2, <3>2, <3>3 DEF KeepsWaking
    <3>5. Waking(p)' => Waking(current)'
      BY <2>2, <3>2 DEF Waking
    <3> QED  BY <2>2, <3>2, <3>4, <3>5 DEF YieldInv
  <2> QED  BY <2>1, <2>2
<1> QED  BY <1>1, <1>2 DEF WakeInv

\* A thread that wakes nobody moves, and neither messages nor signals arrive.
LEMMA OthersWake ==
    ASSUME WakeInv, ListInv, ListInv', NEW t \in Thread, pc[t] \notin Wakers,
           \A u \in Thread : u # t => pc'[u] = pc[u] /\ target'[u] = target[u],
           mail' \in [Process -> BOOLEAN], signal' \in [Process -> BOOLEAN],
           \A p \in Process : (mail'[p] => mail[p]) /\ (signal'[p] => signal[p]),
           \A p \in Process : state'[p] = "Sleeping" => state[p] = "Sleeping",
           \/ pc'[Interpreter] = pc[Interpreter] /\ current' = current
           \/ pc'[Interpreter] \notin {"yield_signal", "yield_sleep"}
    PROVE  WakeInv'
<1>1. ASSUME NEW p \in Process PROVE KeepsWaking(p)
  BY DEF KeepsWaking, Waking
<1> QED  BY <1>1, WakeFrame

\* Goto moves one thread, for what is said here about targets.
LEMMA Moves ==
    ASSUME ListInv, NEW t \in Thread, NEW label, Goto(t, label)
    PROVE  pc'[t] = label /\ \A u \in Thread : u # t => pc'[u] = pc[u]
BY DEF ListInv, Types, Goto

\* A step of thread t that sends nothing and puts nobody to sleep.
LeavesAsleep(t) ==
    /\ pc[t] \notin Wakers
    /\ \/ pc'[Interpreter] = pc[Interpreter] /\ current' = current
       \/ pc'[Interpreter] \notin {"yield_signal", "yield_sleep"}
    /\ \A u \in Thread : u # t => pc'[u] = pc[u] /\ target'[u] = target[u]
    /\ mail' \in [Process -> BOOLEAN] /\ \A p \in Process : mail'[p] => mail[p]
    /\ signal' \in [Process -> BOOLEAN] /\ \A p \in Process : signal'[p] => signal[p]
    /\ \A p \in Process : state'[p] = "Sleeping" => state[p] = "Sleeping"

LEMMA LeavesAsleepWakes ==
    ASSUME WakeInv, ListInv, ListInv', NEW t \in Thread, LeavesAsleep(t)
    PROVE  WakeInv'
BY OthersWake DEF LeavesAsleep

\* The interpreter loop, Dart code that sends no message, the session's events and
\* the end of a process are such steps.
LEMMA LoopLeaves ==
    ASSUME WakeInv, ListInv,
           \/ LoopTest \/ TryDequeue \/ InnerTest \/ PutBack \/ AfterLoop \/ PauseOn
           \/ PauseWait \/ PauseOff \/ IdleWait \/ IdleEnd \/ InterpretSignal
           \/ EnterDart \/ RunReceive \/ RunInterrupted \/ RunYield \/ YieldReady
           \/ Reschedule \/ SessionEvent \/ Cleanup \/ DeleteTerminatedProcess
           \/ \E event \in Interruptions \cup {"Terminated"} : RunEvent(event)
           \/ \E p \in Process : RunSpawn(p)
    PROVE  LeavesAsleep(Interpreter)
<1> USE Kinds DEF IGoto, ControlOnly, ProcessOnly, OtherVars, Enqueue, ReturnNext, Goto, Wakers,
            ListInv, Types, WakeInv, LeavesAsleep
<1>1a. CASE LoopTest
  BY <1>1a DEF LoopTest
<1>1b. CASE TryDequeue
  BY <1>1b DEF TryDequeue
<1>1c. CASE InnerTest
  BY <1>1c DEF InnerTest
<1>1d. CASE PutBack
  BY <1>1d DEF PutBack
<1>1e. CASE AfterLoop
  BY <1>1e DEF AfterLoop
<1>2a. CASE PauseOn
  BY <1>2a DEF PauseOn
<1>2b. CASE PauseWait
  BY <1>2b DEF PauseWait
<1>2c. CASE PauseOff
  BY <1>2c DEF PauseOff
<1>2d. CASE IdleWait
  BY <1>2d DEF IdleWait
<1>2e. CASE IdleEnd
  BY <1>2e DEF IdleEnd
<1>3. CASE \/ InterpretSignal \/ EnterDart \/ RunReceive \/ RunInterrupted \/ RunYield
  BY ZenonT(40), <1>3 DEF InterpretSignal, HandleEvent, EnterDart, RunReceive, RunInterrupted,
         RunYield
<1>4. CASE \/ YieldReady \/ Reschedule \/ SessionEvent \/ Cleanup
           \/ DeleteTerminatedProcess
  BY ZenonT(40), <1>4 DEF YieldReady, Reschedule, SessionEvent, Cleanup, HandleEventResult,
         DeleteTerminatedProcess
<1>5. CASE \/ \E event \in Interruptions \cup {"Terminated"} : RunEvent(event)
           \/ \E p \in Process : RunSpawn(p)
  BY ZenonT(40), <1>5 DEF RunEvent, HandleEvent, Interruptions, RunSpawn
<1> HIDE DEF LeavesAsleep
<1> QED  BY ZenonT(60), <1>1a, <1>1b, <1>1c, <1>1d, <1>1e, <1>2a, <1>2b, <1>2c, <1>2d,
         <1>2e, <1>3, <1>4, <1>5

\* So are the steps that every kind of thread takes, but for Notify and signals.
LEMMA StepLeaves ==
    ASSUME WakeInv, ListInv, NEW t \in Thread,
           \/ EnqueueSafe(t) \/ Unlock(t) \/ StopProgram(t) \/ PauseInterpreterLoop(t)
           \/ PauseProcess(t) \/ PausedAll(t) \/ ResumeProgram(t) \/ EnqueuePaused(t)
           \/ ResumedProgram(t)
    PROVE  LeavesAsleep(t)
<1> USE Kinds DEF At, Return, Enqueue, Goto, Wakers, ListInv, Types, WakeInv, LeavesAsleep
<1>1. CASE \/ EnqueueSafe(t) \/ Unlock(t) \/ StopProgram(t) \/ PauseInterpreterLoop(t)
           \/ PauseProcess(t)
  BY ZenonT(60), <1>1 DEF EnqueueSafe, Unlock, StopProgram, Wait, PauseInterpreterLoop,
         PauseProcess
<1>2. CASE \/ PausedAll(t) \/ ResumeProgram(t) \/ EnqueuePaused(t) \/ ResumedProgram(t)
  BY Zenon, <1>2 DEF PausedAll, ResumeProgram, EnqueuePaused, ResumedProgram
<1> HIDE DEF LeavesAsleep
<1> QED  BY ZenonT(60), <1>1, <1>2

\* So are those of a freezing thread ...
LEMMA FreezerLeaves ==
    ASSUME WakeInv, ListInv, NEW t \in Freezers,
           \/ FreezeProgram(t) \/ FreezeEnd(t) \/ Thawed(t) \/ UnFreezeEnd(t)
           \/ FreezeProgramGroup(t) \/ UnFreezeProgramGroup(t)
           \/ \E g \in Program : FreezeNext(t, g)
           \/ \E g \in Program : UnFreezeProgram(t, g)
    PROVE  LeavesAsleep(t)
<1> USE Kinds DEF At, Goto, Wakers, ListInv, Types, WakeInv, LeavesAsleep
<1>1. CASE \/ FreezeProgram(t) \/ FreezeEnd(t) \/ Thawed(t) \/ UnFreezeEnd(t)
           \/ FreezeProgramGroup(t)
  BY Zenon, <1>1 DEF FreezeProgram, Wait, FreezeEnd, Thawed, UnFreezeEnd, FreezeProgramGroup
<1>2. CASE \/ UnFreezeProgramGroup(t)
           \/ \E g \in Program : FreezeNext(t, g)
           \/ \E g \in Program : UnFreezeProgram(t, g)
  BY <1>2 DEF UnFreezeProgramGroup, FreezeNext, UnFreezeProgram
<1> HIDE DEF LeavesAsleep
<1> QED  BY ZenonT(60), <1>1, <1>2

\* ... of a session ...
LEMMA SessionLeaves ==
    ASSUME WakeInv, ListInv, NEW g \in Debugged,
           \/ Interrupted(g) \/ ContinueProcess(g) \/ ResumeExecution(g)
           \/ DebugInterrupt(g) \/ ProcessContinue(g) \/ SessionEnd(g)
           \/ SessionTerminated(g)
    PROVE  LeavesAsleep(g)
<1> USE Kinds DEF At, Goto, Wakers, SessionUnchanged, ListInv, Types, WakeInv, LeavesAsleep
<1>1a. CASE Interrupted(g)
  BY <1>1a DEF Interrupted
<1>1b. CASE ContinueProcess(g)
  BY <1>1b DEF ContinueProcess
<1>1c. CASE ResumeExecution(g)
  BY <1>1c DEF ResumeExecution
<1>1d. CASE DebugInterrupt(g)
  BY <1>1d DEF DebugInterrupt
<1>1e. CASE ProcessContinue(g)
  BY <1>1e DEF ProcessContinue
<1>2. CASE \/ SessionEnd(g) \/ SessionTerminated(g)
  BY Zenon, <1>2 DEF SessionEnd, KillProgram, SessionTerminated
<1> HIDE DEF LeavesAsleep
<1> QED  BY ZenonT(60), <1>1a, <1>1b, <1>1c, <1>1d, <1>1e, <1>2

\* ... and of the runner.
LEMMA RunnerLeaves ==
    ASSUME WakeInv, ListInv, NEW g \in Program,
           \/ ScheduleProgram(g) \/ UnscheduleProgram(g) \/ TearDown
    PROVE  LeavesAsleep(Runner)
<1> USE Kinds DEF At, Goto, Enqueue, Wakers, ListInv, Types, WakeInv, LeavesAsleep
<1>1. CASE ScheduleProgram(g)
  BY <1>1 DEF ScheduleProgram
<1>2. CASE UnscheduleProgram(g)
  BY <1>2 DEF UnscheduleProgram
<1>3. CASE TearDown
  BY <1>3 DEF TearDown
<1> HIDE DEF LeavesAsleep
<1> QED  BY ZenonT(60), <1>1, <1>2, <1>3

\* What changes nothing here.
LEMMA SameWakes ==
    ASSUME WakeInv, UNCHANGED <<state, mail, signal, pc, target, current>>
    PROVE  WakeInv'
BY DEF WakeInv, NoLostWakeup, YieldInv, Waking

\* A message of a process to itself: it is not asleep.
LEMMA RunSendSelfWakes ==
    ASSUME WakeInv, ListInv, ListInv', RunSendSelf
    PROVE  WakeInv'
<1> USE DEF RunSendSelf, IGoto, OtherVars
<1>1. /\ pc[Interpreter] = "run" /\ pc'[Interpreter] = "run"
      /\ UNCHANGED <<state, signal, target, current>>
      /\ mail' = [mail EXCEPT ![current] = TRUE]
      /\ \A u \in Thread : pc'[u] = pc[u]
  BY Moves, Kinds
<1>2. /\ mail' \in [Process -> BOOLEAN] /\ signal' \in [Process -> BOOLEAN]
      /\ \A p \in Process : p # current => mail'[p] = mail[p]
  BY Zenon, <1>1 DEF WakeInv
<1>3. state[current] = "Running"
  BY <1>1 DEF ListInv, RunningOwned, Interpreting
<1>4. ASSUME NEW p \in Process, state'[p] \in {"Sleeping", "Yielding"} PROVE KeepsWaking(p)
  BY Zenon, <1>1, <1>2, <1>3, <1>4 DEF KeepsWaking, Waking
<1> HIDE DEF RunSendSelf
<1> QED  BY <1>1, <1>2, <1>4, WakeFrame

\* Thread t, which woke nobody, is going to look at the process p that it has sent a
\* message or a signal.
LEMMA SendWakes ==
    ASSUME WakeInv, ListInv, ListInv', NEW t \in Thread, pc[t] \notin Wakers,
           NEW p \in Process, NEW label \in Wakers, Goto(t, label),
           target' = [target EXCEPT ![t] = p],
           \/ mail' = [mail EXCEPT ![p] = TRUE] /\ UNCHANGED signal
           \/ signal' = [signal EXCEPT ![p] = TRUE] /\ UNCHANGED mail,
           UNCHANGED <<state, current>>
    PROVE  WakeInv'
<1>1. pc'[t] = label /\ \A u \in Thread : u # t => pc'[u] = pc[u]
  BY Moves
<1>2. target'[t] = p /\ \A u \in Thread : u # t => target'[u] = target[u]
  BY DEF ListInv, Types
<1>3. /\ mail' \in [Process -> BOOLEAN] /\ signal' \in [Process -> BOOLEAN]
      /\ \A q \in Process : q # p => mail'[q] = mail[q] /\ signal'[q] = signal[q]
  BY Zenon DEF WakeInv
<1>4. Waking(p)'
  BY <1>1, <1>2 DEF Waking
<1>5. ASSUME NEW q \in Process PROVE KeepsWaking(q)
  <2>1. Waking(q) => Waking(q)'
    BY <1>1, <1>2 DEF Waking
  <2> QED  BY <1>3, <1>4, <2>1 DEF KeepsWaking
<1>6. \/ pc'[Interpreter] = pc[Interpreter] /\ current' = current
      \/ pc'[Interpreter] \notin {"yield_signal", "yield_sleep"}
  BY <1>1, Kinds DEF Wakers
<1> QED  BY <1>3, <1>5, <1>6, WakeFrame

\* Thread t has looked at its process p, which has left kSleeping and kYielding.
LEMMA WokenWakes ==
    ASSUME WakeInv, ListInv, ListInv', NEW t \in Thread, NEW p \in Process, target[t] = p,
           NEW label, Goto(t, label), label \notin {"yield_signal", "yield_sleep"},
           state'[p] \notin {"Sleeping", "Yielding"},
           \A q \in Process : q # p => state'[q] = state[q],
           UNCHANGED <<mail, signal, target, current>>
    PROVE  WakeInv'
<1>1. pc'[t] = label /\ \A u \in Thread : u # t => pc'[u] = pc[u]
  BY Moves
<1>2. ASSUME NEW q \in Process, state'[q] \in {"Sleeping", "Yielding"} PROVE KeepsWaking(q)
  <2>1. q # p
    BY <1>2
  <2> QED  BY <1>1, <2>1 DEF KeepsWaking, Waking
<1>3. \/ pc'[Interpreter] = pc[Interpreter] /\ current' = current
      \/ pc'[Interpreter] \notin {"yield_signal", "yield_sleep"}
  BY <1>1, Kinds
<1>4. mail' \in [Process -> BOOLEAN] /\ signal' \in [Process -> BOOLEAN]
  BY DEF WakeInv
<1> QED  BY <1>2, <1>3, <1>4, WakeFrame

\* SignalProcess and ResumeProcess wait for the process to leave kYielding.
LEMMA LookWakes ==
    ASSUME WakeInv, ListInv, ListInv', NEW t \in Thread, SignalProcess(t) \/ ResumeProcess(t)
    PROVE  WakeInv'
<1> DEFINE p == target[t]
<1>1. /\ pc[t] \in {"signal", "resume_process"} /\ p \in Process /\ state[p] # "Yielding"
      /\ UNCHANGED <<mail, signal, target, current>>
  BY Zenon DEF SignalProcess, ResumeProcess, At, ListInv, Scheduled
<1>2. \E label \in {"safe", "next", "idle"} : Goto(t, label)
  BY DEF SignalProcess, ResumeProcess
<1>3. \/ state[p] = "Sleeping" /\ state' = [state EXCEPT ![p] = "Enqueuing"]
      \/ state[p] # "Sleeping" /\ UNCHANGED state
  BY DEF SignalProcess, ResumeProcess
<1>4. /\ state'[p] \notin {"Sleeping", "Yielding"}
      /\ \A q \in Process : q # p => state'[q] = state[q]
  BY <1>1, <1>3 DEF ListInv, Types
<1> QED  BY Zenon, <1>1, <1>2, <1>4, WokenWakes

\* IsTargetYielded runs while nobody is in kYielding.
LEMMA TargetYieldWakes ==
    ASSUME WakeInv, ListInv, ListInv', TargetYield
    PROVE  WakeInv'
<1> DEFINE p == target[Interpreter]
<1>1. /\ pc[Interpreter] \in {"target", "target_exit"} /\ p \in Process
      /\ UNCHANGED <<mail, signal, target, current>>
  BY Zenon, Kinds DEF TargetYield, IGoto, OtherVars, ListInv, Scheduled
<1>2. \E label \in {"resched", "result"} : Goto(Interpreter, label)
  BY DEF TargetYield, IGoto
<1>3. \/ state' = [state EXCEPT ![p] = "Running"]
      \/ state[p] # "Sleeping" /\ UNCHANGED state
  BY DEF TargetYield
<1>4. state[p] # "Yielding"
  BY <1>1 DEF ListInv, RunningOwned, Yielding
<1>5. /\ state'[p] \notin {"Sleeping", "Yielding"}
      /\ \A q \in Process : q # p => state'[q] = state[q]
  BY <1>1, <1>3, <1>4 DEF ListInv, Types
<1> QED  BY Zenon, <1>1, <1>2, <1>5, WokenWakes, Kinds

\* The way of the interpreter thread from kYielding to kSleeping.
LEMMA YieldWakes ==
    ASSUME WakeInv, ListInv, ListInv', YieldMailbox \/ YieldSignal \/ YieldSleep
    PROVE  WakeInv'
<1>0. pc \in [Thread -> InterpreterPC \cup ThreadPC] /\ Interpreter \in Thread
  BY Zenon, Kinds DEF ListInv, Types
<1> USE DEF IGoto, ControlOnly, ProcessOnly, OtherVars
<1>1. /\ pc[Interpreter] \in {"yield", "yield_signal", "yield_sleep"}
      /\ UNCHANGED <<mail, signal, target, current>>
      /\ \E label \in {"yield_ready", "yield_signal", "yield_sleep", "loop"} :
            Goto(Interpreter, label)
  BY DEF YieldMailbox, YieldSignal, YieldSleep
<1>2. \A u \in Thread : u # Interpreter => pc'[u] = pc[u]
  BY <1>1, Moves, Kinds
<1>3. \A p : Waking(p) => Waking(p)'
  BY <1>1, <1>2 DEF Waking, Wakers
<1>4. current \in Process /\ state[current] = "Yielding"
  BY Zenon, <1>1 DEF ListInv, RunningOwned, Yielding
<1>5. CASE YieldMailbox
  <2>1. UNCHANGED state /\ pc'[Interpreter] # "yield_sleep"
    BY <1>0, <1>5 DEF YieldMailbox, Goto
  <2>2. pc'[Interpreter] = "yield_signal" => ~mail[current]
    BY <1>0, <1>5 DEF YieldMailbox, Goto
  <2> QED  BY <1>1, <1>3, <2>1, <2>2 DEF WakeInv, NoLostWakeup, YieldInv, Waking, Wakers
<1>6. CASE YieldSignal
  <2>1. UNCHANGED state /\ pc[Interpreter] = "yield_signal" /\ pc'[Interpreter] # "yield_signal"
    BY <1>0, <1>6 DEF YieldSignal, Goto
  <2>2. pc'[Interpreter] = "yield_sleep" => ~signal[current]
    BY <1>0, <1>6 DEF YieldSignal, Goto
  <2>3. NoLostWakeup'
    BY Zenon, <1>1, <1>3, <2>1 DEF WakeInv, NoLostWakeup, Waking, Wakers
  <2>4. mail[current] => Waking(current)'
    <3>1. PICK p \in Process : p = current /\ (mail[p] => Waking(p)')
      BY Zenon, <1>3, <1>4, <2>1 DEF WakeInv, YieldInv
    <3> QED  BY <1>1, <3>1 DEF Waking
  <2>5. YieldInv'
    BY Zenon, <1>1, <2>1, <2>2, <2>4 DEF YieldInv, Waking
  <2> QED  BY <1>1, <2>3, <2>5 DEF WakeInv
<1>7. CASE YieldSleep
  <2>1. /\ pc[Interpreter] = "yield_sleep" /\ pc'[Interpreter] = "loop"
        /\ state' = [state EXCEPT ![current] = "Sleeping"]
    BY <1>0, <1>7 DEF YieldSleep, Goto
  <2>2. mail[current] \/ signal[current] => Waking(current)
    BY <2>1 DEF WakeInv, YieldInv
  <2>3. ASSUME NEW p \in Process, state'[p] = "Sleeping", mail[p] \/ signal[p]
        PROVE  Waking(p)'
    <3>1. p # current => state[p] = "Sleeping"
      BY <2>1, <2>3 DEF ListInv, Types
    <3>2. Waking(p)
      BY Zenon, <1>4, <2>2, <2>3, <3>1 DEF WakeInv, NoLostWakeup, Waking, Wakers
    <3> QED  BY Zenon, <1>3, <3>2
  <2>4. NoLostWakeup'
    BY Zenon, <1>1, <2>3 DEF NoLostWakeup, Waking, Wakers
  <2> QED  BY <1>1, <2>1, <2>4 DEF WakeInv, YieldInv
<1> QED  BY <1>5, <1>6, <1>7

\* One case per disjunct of Next.
LEMMA WakeNext ==
    ASSUME WakeInv, ListInv, ListInv', [Next]_vars
    PROVE  WakeInv'
<1>1. ASSUME InterpreterStep PROVE WakeInv'
  <2>1. ASSUME NEW p \in Process, NEW outcome \in {"send", "exit_send"}, RunSend(p, outcome)
        PROVE  WakeInv'
    <3> DEFINE label == IF outcome = "send" THEN "target" ELSE "target_exit"
    <3>1. /\ pc[Interpreter] = "run" /\ Goto(Interpreter, label)
          /\ mail' = [mail EXCEPT ![p] = TRUE]
          /\ target' = [target EXCEPT ![Interpreter] = p]
          /\ UNCHANGED <<state, signal, current>>
      BY <2>1 DEF RunSend, IGoto, OtherVars
    <3>2. label \in Wakers /\ pc[Interpreter] \notin Wakers
      BY <3>1 DEF Wakers
    <3> HIDE DEF label
    <3> QED  BY Zenon, <3>1, <3>2, SendWakes, Kinds
  <2>2. ASSUME LeavesAsleep(Interpreter) PROVE WakeInv'
    BY <2>2, LeavesAsleepWakes, Kinds
  <2>3. ASSUME RunStep PROVE WakeInv'
    BY Zenon, <2>1, <2>2, <2>3, LoopLeaves, RunSendSelfWakes DEF RunStep
  <2> QED  BY Zenon, <1>1, <2>2, <2>3, LoopLeaves, TargetYieldWakes, YieldWakes DEF InterpreterStep
<1>2. ASSUME NEW t \in Thread, Step(t) PROVE WakeInv'
  <2>1. ASSUME Notify(t) PROVE WakeInv'
    BY <2>1, SameWakes DEF Notify
  <2>2. ASSUME NEW p \in Process, SendSignal(t, p) PROVE WakeInv'
    <3>1. CASE Exists(p)
      <4>1. /\ pc[t] = "next" /\ Goto(t, "signal")
            /\ signal' = [signal EXCEPT ![p] = TRUE]
            /\ target' = [target EXCEPT ![t] = p]
            /\ UNCHANGED <<state, mail, current>>
        BY <2>2, <3>1 DEF SendSignal, At
      <4>2. "signal" \in Wakers /\ pc[t] \notin Wakers
        BY <4>1 DEF Wakers
      <4> QED  BY Zenon, <4>1, <4>2, SendWakes
    <3>2. CASE ~Exists(p)
      BY <2>2, <3>2, SameWakes DEF SendSignal
    <3> QED  BY <3>1, <3>2
  <2> QED  BY Zenon, <1>2, <2>1, <2>2, StepLeaves, LeavesAsleepWakes, LookWakes DEF Step
<1>3. ASSUME NEW t \in Freezers,
             FreezerStep(t) \/ FreezeProgramGroup(t) \/ UnFreezeProgramGroup(t)
      PROVE  WakeInv'
  BY Zenon, <1>3, FreezerLeaves, LeavesAsleepWakes, Kinds DEF FreezerStep
<1>4. ASSUME NEW t \in Senders, ResumeProcess(t) \/ \E p \in Process : SendMessage(t, p)
      PROVE  WakeInv'
  <2>1. ASSUME NEW p \in Process, SendMessage(t, p) PROVE WakeInv'
    <3>1. /\ pc[t] = "idle" /\ Goto(t, "resume_process")
          /\ mail' = [mail EXCEPT ![p] = TRUE]
          /\ target' = [target EXCEPT ![t] = p]
          /\ UNCHANGED <<state, signal, current>>
      BY Zenon, <2>1 DEF SendMessage, At
    <3>2. "resume_process" \in Wakers /\ pc[t] \notin Wakers
      BY <3>1 DEF Wakers
    <3> QED  BY ZenonT(40), <3>1, <3>2, SendWakes, Kinds
  <2> QED  BY Zenon, <1>4, <2>1, LookWakes, Kinds
<1>5. ASSUME NEW g \in Debugged,
             \/ SessionStep(g) \/ DebugInterrupt(g) \/ ProcessContinue(g)
             \/ SessionEnd(g) \/ SessionTerminated(g)
      PROVE  WakeInv'
  BY Zenon, <1>5, SessionLeaves, LeavesAsleepWakes, Kinds DEF SessionStep
<1>6. ASSUME NEW g \in Program, ScheduleProgram(g) \/ UnscheduleProgram(g)
      PROVE  WakeInv'
  BY Zenon, <1>6, RunnerLeaves, LeavesAsleepWakes, Kinds
<1>7. ASSUME TearDown PROVE WakeInv'
  <2>1. LeavesAsleep(Runner)
    BY Zenon, <1>7, Kinds DEF TearDown, At, Goto, Wakers, ListInv, Types, WakeInv, LeavesAsleep
  <2> QED  BY Zenon, <2>1, LeavesAsleepWakes, Kinds
<1>8. ASSUME UNCHANGED vars PROVE WakeInv'
  BY <1>8, SameWakes DEF vars
<1> QED  BY <1>1, <1>2, <1>3, <1>4, <1>5, <1>6, <1>7, <1>8 DEF Next, Exited

-----------------------------------------------------------------------------
(* NoMissedNotify *)

\* The interpreter thread waits on idle_monitor_ only in its two loops that do so.
NotifyInv ==
    /\ idle => pc[Interpreter] \in {"idle", "pause_wait"}
    /\ NoMissedNotify

\* The interpreter thread is not waiting, and does not start to.
LEMMA AwakeKeeps ==
    ASSUME NotifyInv, UNCHANGED idle, ~idle
    PROVE  NotifyInv'
BY DEF NotifyInv, NoMissedNotify

\* Another thread does nothing the interpreter thread waits for, or owes it a
\* notification.
Owing ==
    /\ UNCHANGED idle /\ pc'[Interpreter] = pc[Interpreter]
    /\ owes \subseteq owes'
    /\ (ready = <<>> /\ ready' # <<>>) \/ pause' # pause \/ shutdown' # shutdown => owes' # {}

LEMMA OwingKeeps ==
    ASSUME NotifyInv, Owing
    PROVE  NotifyInv'
<1>1. owes # {} => owes' # {}
  BY DEF Owing
<1> QED  BY <1>1 DEF NotifyInv, NoMissedNotify, Owing

\* All steps of the interpreter thread but those that wait.
LEMMA LoopAwake ==
    ASSUME NotifyInv,
           \/ LoopTest \/ TryDequeue \/ InnerTest \/ PutBack \/ AfterLoop \/ PauseOn
           \/ PauseOff \/ IdleEnd \/ InterpretSignal \/ EnterDart \/ RunReceive
           \/ RunSendSelf \/ RunInterrupted \/ RunYield \/ YieldMailbox \/ YieldSignal
           \/ YieldSleep \/ YieldReady \/ TargetYield \/ Reschedule \/ SessionEvent
           \/ Cleanup \/ DeleteTerminatedProcess
           \/ \E event \in Interruptions \cup {"Terminated"} : RunEvent(event)
           \/ \E p \in Process : RunSpawn(p)
           \/ \E p \in Process, outcome \in {"send", "exit_send"} : RunSend(p, outcome)
    PROVE  UNCHANGED idle /\ ~idle
<1> USE Kinds DEF IGoto, ControlOnly, ProcessOnly, OtherVars, ReturnNext, HandleEventResult, NotifyInv
<1>1a. CASE LoopTest
  BY <1>1a DEF LoopTest
<1>1b. CASE TryDequeue
  BY <1>1b DEF TryDequeue
<1>1c. CASE InnerTest
  BY <1>1c DEF InnerTest
<1>1d. CASE PutBack
  BY <1>1d DEF PutBack
<1>1e. CASE AfterLoop
  BY <1>1e DEF AfterLoop
<1>2a. CASE PauseOn
  BY <1>2a DEF PauseOn
<1>2b. CASE PauseOff
  BY <1>2b DEF PauseOff
<1>2c. CASE IdleEnd
  BY <1>2c DEF IdleEnd
<1>2d. CASE InterpretSignal
  BY <1>2d DEF InterpretSignal
<1>2e. CASE EnterDart
  BY <1>2e DEF EnterDart
<1>3. CASE \/ RunReceive \/ RunSendSelf \/ RunInterrupted \/ RunYield \/ YieldMailbox
  BY Zenon, <1>3 DEF RunReceive, RunSendSelf, RunInterrupted, RunYield, YieldMailbox
<1>4. CASE \/ YieldSignal \/ YieldSleep \/ YieldReady \/ TargetYield \/ Reschedule
  BY Zenon, <1>4 DEF YieldSignal, YieldSleep, YieldReady, TargetYield, Reschedule
<1>5. CASE \/ SessionEvent \/ Cleanup \/ DeleteTerminatedProcess
           \/ \E event \in Interruptions \cup {"Terminated"} : RunEvent(event)
           \/ \E p \in Process : RunSpawn(p)
           \/ \E p \in Process, outcome \in {"send", "exit_send"} : RunSend(p, outcome)
  BY Zenon, <1>5 DEF SessionEvent, Cleanup, DeleteTerminatedProcess, RunEvent, RunSpawn,
         RunSend
<1> QED  BY ZenonT(60), <1>1a, <1>1b, <1>1c, <1>1d, <1>1e, <1>2a, <1>2b, <1>2c, <1>2d,
         <1>2e, <1>3, <1>4, <1>5

\* The steps that every kind of thread takes: whoever enqueues into an empty ready
\* queue or changes pause_ is going to call NotifyInterpreterThread.
LEMMA StepOwes ==
    ASSUME NotifyInv, ListInv, NEW t \in Thread, t # Interpreter,
           \/ EnqueueSafe(t) \/ Unlock(t) \/ SignalProcess(t) \/ StopProgram(t)
           \/ PauseInterpreterLoop(t) \/ PauseProcess(t) \/ PausedAll(t)
           \/ ResumeProgram(t) \/ EnqueuePaused(t) \/ ResumedProgram(t)
           \/ \E p \in Process : SendSignal(t, p)
    PROVE  Owing
<1> USE Kinds DEF At, Enqueue, Goto, ListInv, Types, Owing
<1>1. CASE \/ EnqueueSafe(t) \/ Unlock(t)
  BY ZenonT(60), <1>1 DEF EnqueueSafe, Unlock
<1>2. CASE SignalProcess(t)
  BY Zenon, <1>2 DEF SignalProcess
<1>3. CASE StopProgram(t)
  BY Zenon, <1>3 DEF StopProgram
<1>4. CASE PauseInterpreterLoop(t)
  BY Zenon, <1>4 DEF PauseInterpreterLoop
<1>5. CASE PauseProcess(t)
  <2>1. PICK i \in 1..Len(ready) : ready' = Erase(ready, i)
    BY Zenon, <1>5 DEF PauseProcess
  <2>2. ready # <<>>
    BY <2>1
  <2> QED  BY Zenon, <1>5, <2>2 DEF PauseProcess
<1>9. CASE PausedAll(t)
  BY Zenon, <1>9 DEF PausedAll
<1>10. CASE ResumeProgram(t)
  BY Zenon, <1>10 DEF ResumeProgram
<1>6. CASE EnqueuePaused(t)
  BY Zenon, <1>6 DEF EnqueuePaused
<1>7. CASE ResumedProgram(t)
  BY Zenon, <1>7 DEF ResumedProgram
<1>8. ASSUME NEW p \in Process, SendSignal(t, p)
      PROVE  Owing
  BY Zenon, <1>8 DEF SendSignal
<1> QED  BY ZenonT(60), <1>1, <1>2, <1>3, <1>4, <1>5, <1>6, <1>7, <1>8, <1>9, <1>10

\* The same steps, when the interpreter thread takes them.
LEMMA OwnStepAwake ==
    ASSUME NotifyInv, ListInv,
           \/ EnqueueSafe(Interpreter) \/ Unlock(Interpreter)
           \/ SignalProcess(Interpreter) \/ StopProgram(Interpreter)
           \/ PauseInterpreterLoop(Interpreter) \/ PauseProcess(Interpreter)
           \/ PausedAll(Interpreter) \/ ResumeProgram(Interpreter)
           \/ EnqueuePaused(Interpreter) \/ ResumedProgram(Interpreter)
           \/ \E p \in Process : SendSignal(Interpreter, p)
    PROVE  UNCHANGED idle /\ ~idle
<1> USE Kinds DEF At, NotifyInv, ListInv, Labels, Points, InterpreterPC
<1>1. CASE \/ EnqueueSafe(Interpreter) \/ Unlock(Interpreter)
           \/ SignalProcess(Interpreter) \/ StopProgram(Interpreter)
           \/ PauseInterpreterLoop(Interpreter)
  BY Zenon, <1>1 DEF EnqueueSafe, Unlock, SignalProcess, StopProgram, PauseInterpreterLoop
<1>2. CASE \/ PauseProcess(Interpreter) \/ PausedAll(Interpreter)
           \/ ResumeProgram(Interpreter) \/ EnqueuePaused(Interpreter)
           \/ ResumedProgram(Interpreter)
           \/ \E p \in Process : SendSignal(Interpreter, p)
  BY Zenon, <1>2 DEF PauseProcess, PausedAll, ResumeProgram, EnqueuePaused, ResumedProgram,
         SendSignal
<1> QED  BY ZenonT(60), <1>1, <1>2

\* The steps of a freezing thread ...
LEMMA FreezerOwes ==
    ASSUME NotifyInv, ListInv, NEW t \in Freezers,
           \/ FreezeProgram(t) \/ FreezeEnd(t) \/ Thawed(t) \/ UnFreezeEnd(t)
           \/ FreezeProgramGroup(t) \/ UnFreezeProgramGroup(t)
           \/ \E g \in Program : FreezeNext(t, g)
           \/ \E g \in Program : UnFreezeProgram(t, g)
    PROVE  Owing
<1> USE Kinds DEF At, Goto, ListInv, Types, Owing
<1>1. CASE \/ FreezeProgram(t) \/ FreezeEnd(t) \/ Thawed(t) \/ UnFreezeEnd(t)
           \/ FreezeProgramGroup(t)
  BY ZenonT(40), <1>1 DEF FreezeProgram, FreezeEnd, Thawed, UnFreezeEnd, FreezeProgramGroup
<1>2. CASE \/ UnFreezeProgramGroup(t)
           \/ \E g \in Program : FreezeNext(t, g)
           \/ \E g \in Program : UnFreezeProgram(t, g)
  BY Zenon, <1>2 DEF UnFreezeProgramGroup, FreezeNext, UnFreezeProgram
<1> QED  BY ZenonT(60), <1>1, <1>2

\* ... of a session ...
LEMMA SessionOwes ==
    ASSUME NotifyInv, ListInv, NEW g \in Debugged,
           \/ Interrupted(g) \/ ContinueProcess(g) \/ ResumeExecution(g)
           \/ DebugInterrupt(g) \/ ProcessContinue(g) \/ SessionEnd(g)
           \/ SessionTerminated(g)
    PROVE  Owing
<1> USE Kinds DEF At, Goto, SessionUnchanged, ListInv, Types, Owing
<1>1. CASE \/ Interrupted(g) \/ ContinueProcess(g) \/ ResumeExecution(g)
           \/ DebugInterrupt(g) \/ ProcessContinue(g)
  BY ZenonT(40), <1>1 DEF Interrupted, ContinueProcess, ResumeExecution, DebugInterrupt,
         ProcessContinue
<1>2. CASE \/ SessionEnd(g) \/ SessionTerminated(g)
  BY Zenon, <1>2 DEF SessionEnd, SessionTerminated
<1> QED  BY ZenonT(60), <1>1, <1>2

\* ... of a sender ...
LEMMA SenderOwes ==
    ASSUME NotifyInv, ListInv, NEW t \in Senders,
           \/ ResumeProcess(t)
           \/ \E p \in Process : SendMessage(t, p)
    PROVE  Owing
<1> USE Kinds DEF At, Goto, ListInv, Types, Owing
<1>1. CASE \/ ResumeProcess(t)
           \/ \E p \in Process : SendMessage(t, p)
  BY ZenonT(40), <1>1 DEF ResumeProcess, SendMessage
<1> QED  BY ZenonT(60), <1>1

\* ... and of the runner.
LEMMA RunnerOwes ==
    ASSUME NotifyInv, ListInv, NEW g \in Program,
           \/ ScheduleProgram(g) \/ UnscheduleProgram(g)
    PROVE  Owing
<1> USE Kinds DEF At, Goto, Enqueue, ListInv, Types, Owing
<1>1. CASE \/ ScheduleProgram(g) \/ UnscheduleProgram(g)
  BY ZenonT(40), <1>1 DEF ScheduleProgram, UnscheduleProgram
<1> QED  BY ZenonT(60), <1>1

\* One case per disjunct of Next.
LEMMA NotifyNext ==
    ASSUME NotifyInv, ListInv, [Next]_vars
    PROVE  NotifyInv'
<1>1. ASSUME InterpreterStep PROVE NotifyInv'
  <2>1. CASE PauseWait
    <3>1. pc'[Interpreter] = IF pause THEN "pause_wait" ELSE "pause_off"
      BY <2>1, Kinds DEF PauseWait, IGoto, Goto, ListInv, Types
    <3>2. idle' = pause /\ pause' = pause
      BY <2>1 DEF PauseWait
    <3>3. idle' => pause /\ pause'
      BY Zenon, <3>2
    <3>4. idle' => pc'[Interpreter] = "pause_wait"
      BY ZenonT(40), <3>1, <3>3
    <3> QED  BY Zenon, <3>3, <3>4 DEF NotifyInv, NoMissedNotify
  <2>2. CASE IdleWait
    BY <2>2, Kinds DEF IdleWait, IGoto, Goto, NotifyInv, NoMissedNotify, ListInv, Types
  <2>3. ASSUME RunStep PROVE NotifyInv'
    BY Zenon, <2>3, LoopAwake, AwakeKeeps DEF RunStep
  <2> QED  BY Zenon, <1>1, <2>1, <2>2, <2>3, LoopAwake, AwakeKeeps DEF InterpreterStep
<1>2. ASSUME NEW t \in Thread, Step(t) PROVE NotifyInv'
  <2>1. ASSUME Notify(t) PROVE NotifyInv'
    BY <2>1 DEF Notify, NotifyInv, NoMissedNotify
  <2>2. CASE t = Interpreter
    BY Zenon, <1>2, <2>1, <2>2, OwnStepAwake, AwakeKeeps DEF Step
  <2>3. CASE t # Interpreter
    BY Zenon, <1>2, <2>1, <2>3, StepOwes, OwingKeeps DEF Step
  <2> QED  BY <2>2, <2>3
<1>3. ASSUME NEW t \in Freezers,
             FreezerStep(t) \/ FreezeProgramGroup(t) \/ UnFreezeProgramGroup(t)
      PROVE  NotifyInv'
  BY Zenon, <1>3, FreezerOwes, OwingKeeps DEF FreezerStep
<1>4. ASSUME NEW t \in Senders, ResumeProcess(t) \/ \E p \in Process : SendMessage(t, p)
      PROVE  NotifyInv'
  BY Zenon, <1>4, SenderOwes, OwingKeeps
<1>5. ASSUME NEW g \in Debugged,
             \/ SessionStep(g) \/ DebugInterrupt(g) \/ ProcessContinue(g)
             \/ SessionEnd(g) \/ SessionTerminated(g)
      PROVE  NotifyInv'
  BY Zenon, <1>5, SessionOwes, OwingKeeps DEF SessionStep
<1>6. ASSUME NEW g \in Program, ScheduleProgram(g) \/ UnscheduleProgram(g)
      PROVE  NotifyInv'
  BY Zenon, <1>6, RunnerOwes, OwingKeeps
<1>7. ASSUME TearDown PROVE NotifyInv'
  <2>1. Owing
    BY ZenonT(40), <1>7, Kinds DEF TearDown, Goto, ListInv, Types, Owing
  <2> QED  BY <2>1, OwingKeeps
<1>8. ASSUME UNCHANGED vars PROVE NotifyInv'
  BY <1>8 DEF vars, NotifyInv, NoMissedNotify
<1> QED  BY <1>1, <1>2, <1>3, <1>4, <1>5, <1>6, <1>7, <1>8 DEF Next, Exited

=============================================================================
