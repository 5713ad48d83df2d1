------------------------ MODULE SchedulerStopProofs -------------------------
(***************************************************************************)
(* Stopping, freezing and resuming programs, for any number of programs,   *)
(* processes and threads: who holds pause_monitor_, when the interpreter   *)
(* loop is out of the way, and that a stopped program is quiet.            *)
(***************************************************************************)
EXTENDS SchedulerInvariant

USE SMTT(20), ZenonT(20) DEF programVars, processVars, pauseVars, monitorVars, spinVars,
        threadVars, interpVars, sessionVars

-----------------------------------------------------------------------------
(* Who holds pause_monitor_ *)

\* What a step of thread t does about the monitor.
LockStep(t) ==
    /\ \A u \in Thread : u # t => pc'[u] = pc[u] /\ target'[u] = target[u]
    /\ lock' = lock \/ lock \in {NULL, t}
    /\ pc'[t] \in Holding => lock' = t
    /\ t \in Debugged /\ pc'[t] \in {"stop", "pausing", "moving", "stopped"} =>
          "interrupt" \in SessionOps
    /\ t \in Freezers /\ pc'[t] \in {"freeze", "moving", "thawing"} => target'[t] \in Group
    /\ t \in Freezers /\ pc'[t] = "thawing" => pstate'[target'[t]] \notin {"Session", "Frozen"}
    /\ \A g \in Program : pstate'[g] \in {"Session", "Frozen"} =>
          pstate'[g] = pstate[g] \/ lock \in {NULL, t}

LEMMA LockStepKeeps ==
    ASSUME LockInv, ListInv, NEW t \in Thread, LockStep(t)
    PROVE  LockInv'
<1>1. Holds'
  BY SchedulerConstants DEF LockInv, Holds, LockStep
<1>2. Interrupting' /\ FreezingGroup'
  BY Kinds DEF LockInv, Interrupting, FreezingGroup, LockStep
<1>3. ASSUME NEW u \in Freezers, pc'[u] = "thawing"
      PROVE  pstate'[target'[u]] \notin {"Session", "Frozen"}
  <2>1. CASE u = t
    BY <1>3, <2>1 DEF LockStep
  <2>2. CASE u # t
    <3>1. /\ pc[u] = "thawing" /\ target'[u] = target[u] /\ lock = u
          /\ target[u] \in Program /\ pstate[target[u]] \notin {"Session", "Frozen"}
      BY <1>3, <2>2, Kinds DEF LockInv, Holds, Holding, Thawing, LockStep, ListInv, FreezersAt
    <3> QED  BY <2>2, <3>1, Kinds, SchedulerConstants DEF LockStep
  <2> QED  BY <2>1, <2>2
<1> QED  BY <1>1, <1>2, <1>3 DEF LockInv, Thawing

\* The interpreter loop takes the monitor only for a moment.
LEMMA LoopLocks ==
    ASSUME LockInv, ListInv, InterpreterStep
    PROVE  LockStep(Interpreter)
<1> USE Kinds DEF IGoto, ControlOnly, ProcessOnly, OtherVars, ReturnNext, Goto,
        ListInv, Types, LockStep, Holding
<1>1. CASE \/ LoopTest \/ TryDequeue \/ InnerTest \/ PutBack \/ AfterLoop
  BY <1>1 DEF LoopTest, TryDequeue, InnerTest, PutBack, AfterLoop
<1>2. CASE \/ PauseOn \/ PauseWait \/ PauseOff \/ IdleWait \/ IdleEnd
  BY <1>2 DEF PauseOn, PauseWait, PauseOff, IdleWait, IdleEnd
<1>3. CASE \/ InterpretSignal \/ EnterDart \/ RunReceive \/ RunSendSelf
           \/ RunInterrupted
  BY <1>3 DEF InterpretSignal, HandleEvent, EnterDart, RunReceive, RunSendSelf,
         RunInterrupted
<1>4a. CASE RunYield
  BY <1>4a DEF RunYield
<1>4b. CASE YieldMailbox
  BY <1>4b DEF YieldMailbox
<1>4c. CASE YieldSignal
  BY <1>4c DEF YieldSignal
<1>4d. CASE YieldSleep
  BY <1>4d DEF YieldSleep
<1>4e. CASE YieldReady
  BY Zenon, <1>4e DEF YieldReady
<1>5. CASE \/ TargetYield \/ Reschedule \/ SessionEvent \/ Cleanup
           \/ DeleteTerminatedProcess
  BY ZenonT(40), <1>5 DEF TargetYield, Reschedule, SessionEvent, Cleanup, HandleEventResult,
         DeleteTerminatedProcess
<1>6. CASE \/ \E event \in Interruptions \cup {"Terminated"} : RunEvent(event)
           \/ \E p \in Process : RunSpawn(p)
           \/ \E p \in Process, outcome \in {"send", "exit_send"} : RunSend(p, outcome)
  BY <1>6 DEF RunEvent, HandleEvent, Interruptions, RunSpawn, RunSend
<1> HIDE DEF LockStep
<1> QED  BY ZenonT(60), <1>1, <1>2, <1>3, <1>4a, <1>4b, <1>4c, <1>4d, <1>4e, <1>5, <1>6
         DEF InterpreterStep, RunStep

\* The steps that every kind of thread takes.
LEMMA StepLocks ==
    ASSUME LockInv, ListInv, NEW t \in Thread, Step(t)
    PROVE  LockStep(t)
<1> USE Kinds, SchedulerConstants DEF At, Goto, ListInv, Types, LockStep, Holding,
        Labels, Points, FreezersAt, InterpreterPC, LockInv, Holds, Interrupting,
        FreezingGroup, Thawing
<1>1a. CASE Notify(t)
  BY <1>1a DEF Notify
<1>1b. CASE EnqueueSafe(t)
  BY <1>1b DEF EnqueueSafe, Return
<1>1c. CASE Unlock(t)
  BY <1>1c DEF Return, Unlock
<1>1d. CASE SignalProcess(t)
  BY <1>1d DEF SignalProcess
<1>1e. CASE StopProgram(t)
  BY <1>1e DEF StopProgram, CanLock, Wait
<1>2a. CASE PauseInterpreterLoop(t)
  BY <1>2a DEF PauseInterpreterLoop, CanLock, Wait
<1>2b. CASE PauseProcess(t)
  BY <1>2b DEF PauseProcess
<1>2c. CASE PausedAll(t)
  BY <1>2c DEF PausedAll
<1>2d. CASE ResumeProgram(t)
  BY <1>2d DEF CanLock, ResumeProgram
<1>2e. CASE EnqueuePaused(t)
  BY <1>2e DEF EnqueuePaused
<1>3. CASE \/ ResumedProgram(t)
           \/ \E p \in Process : SendSignal(t, p)
  BY <1>3 DEF ResumedProgram, SendSignal
<1> HIDE DEF LockStep
<1> QED  BY ZenonT(60), <1>1a, <1>1b, <1>1c, <1>1d, <1>1e, <1>2a, <1>2b, <1>2c, <1>2d,
         <1>2e, <1>3
         DEF Step

\* The steps of a freezing thread ...
LEMMA FreezerLocks ==
    ASSUME LockInv, ListInv, NEW t \in Freezers,
           FreezerStep(t) \/ FreezeProgramGroup(t) \/ UnFreezeProgramGroup(t)
    PROVE  LockStep(t)
<1> USE Kinds DEF At, Goto, ListInv, Types, LockStep, Holding, LockInv, Holds,
        FreezingGroup, Thawing
<1>1. CASE \/ FreezeProgram(t) \/ FreezeEnd(t) \/ Thawed(t) \/ UnFreezeEnd(t)
           \/ FreezeProgramGroup(t)
  BY Zenon, <1>1 DEF FreezeProgram, CanLock, Wait, FreezeEnd, Thawed, UnFreezeEnd,
         FreezeProgramGroup
<1>2. CASE \/ UnFreezeProgramGroup(t)
           \/ \E g \in Program : FreezeNext(t, g)
           \/ \E g \in Program : UnFreezeProgram(t, g)
  BY <1>2 DEF UnFreezeProgramGroup, FreezeNext, Unvisited, UnFreezeProgram
<1> HIDE DEF LockStep
<1> QED  BY ZenonT(60), <1>1, <1>2
         DEF FreezerStep

\* ... of a sender ...
LEMMA SenderLocks ==
    ASSUME LockInv, ListInv, NEW t \in Senders,
           ResumeProcess(t) \/ \E p \in Process : SendMessage(t, p)
    PROVE  LockStep(t)
<1> USE Kinds DEF At, Goto, ListInv, Types, LockStep, Holding
<1>1. CASE \/ ResumeProcess(t)
           \/ \E p \in Process : SendMessage(t, p)
  BY ZenonT(40), <1>1 DEF ResumeProcess, SendMessage
<1> HIDE DEF LockStep
<1> QED  BY ZenonT(60), <1>1

\* ... of a session ...
LEMMA SessionLocks ==
    ASSUME LockInv, ListInv, NEW t \in Debugged,
           \/ SessionStep(t) \/ DebugInterrupt(t) \/ ProcessContinue(t)
           \/ SessionEnd(t) \/ SessionTerminated(t)
    PROVE  LockStep(t)
<1> USE Kinds DEF At, SessionUnchanged, Goto, ListInv, Types, LockStep, Holding,
        LockInv, Holds
<1>1. CASE \/ Interrupted(t) \/ ContinueProcess(t) \/ ResumeExecution(t)
           \/ DebugInterrupt(t) \/ ProcessContinue(t)
  BY Zenon, <1>1 DEF Interrupted, ContinueProcess, ResumeExecution, DebugInterrupt,
         ProcessContinue
<1>2. CASE \/ SessionEnd(t) \/ SessionTerminated(t)
  BY <1>2 DEF SessionEnd, KillProgram, SessionTerminated
<1> HIDE DEF LockStep
<1> QED  BY ZenonT(60), <1>1, <1>2
         DEF SessionStep

\* ... and of the runner.
LEMMA RunnerLocks ==
    ASSUME LockInv, ListInv,
           TearDown \/ \E g \in Program : ScheduleProgram(g) \/ UnscheduleProgram(g)
    PROVE  LockStep(Runner)
<1> USE Kinds DEF At, Goto, ListInv, Types, LockStep, Holding
<1>1. CASE \/ TearDown
           \/ \E g \in Program : ScheduleProgram(g)
           \/ \E g \in Program : UnscheduleProgram(g)
  BY ZenonT(40), <1>1 DEF ScheduleProgram, UnscheduleProgram, TearDown
<1> HIDE DEF LockStep
<1> QED  BY ZenonT(60), <1>1

\* Every step is one of these.
LEMMA NextLocks ==
    ASSUME LockInv, ListInv, [Next]_vars
    PROVE  \E t \in Thread : LockStep(t)
<1>1. ASSUME UNCHANGED vars PROVE LockStep(Interpreter)
  BY Zenon, <1>1, Kinds DEF vars, LockStep, LockInv, Holds, Holding
<1> QED  BY ZenonT(60), <1>1, Kinds, LoopLocks, StepLocks, FreezerLocks, SenderLocks, SessionLocks, RunnerLocks
         DEF Next, Exited

LEMMA LockNext ==
    ASSUME LockInv, ListInv, [Next]_vars
    PROVE  LockInv'
BY NextLocks, LockStepKeeps

-----------------------------------------------------------------------------
(* When the interpreter loop is out of the way *)

\* The threads that ever pause the interpreter loop.
Stoppers == Freezers \cup {g \in Debugged : "interrupt" \in SessionOps}

SingleStopper == \A t, u \in Stoppers : t = u

\* Where the interpreter thread has no process and, as long as pause_ is set, gets
\* none; between the two assignments to interpreter_is_paused_.
Away == {"pause_wait", "pause_off", "loop", "after", "pause_on", "exited"}

IsPaused == {"pause_wait", "pause_off"}

PauseInv ==
    /\ interpreter_is_paused => pc[Interpreter] \in IsPaused
    /\ \A t \in Stoppers : pc[t] \in {"pausing", "freezing", "freeze", "moving"} => pause
    /\ \A t \in Stoppers :
          pc[t] \in {"freezing", "freeze", "moving"} => pc[Interpreter] \in Away

\* What a step of thread t does about pauses.
PauseStep(t) ==
    /\ \A u \in Thread : u # t => pc'[u] = pc[u]
    /\ pause' = pause \/ t \in Stoppers
    /\ t \in Stoppers =>
          /\ pc'[t] \in {"pausing", "freezing", "freeze", "moving"} => pause'
          /\ pc'[t] \in {"freezing", "freeze", "moving"} =>
                pc[t] \in {"freezing", "freeze", "moving"} \/ interpreter_is_paused
    /\ t # Interpreter => UNCHANGED interpreter_is_paused
    /\ t = Interpreter =>
          /\ interpreter_is_paused' => pc'[Interpreter] \in IsPaused
          /\ pause /\ pc[Interpreter] \in Away => pc'[Interpreter] \in Away

LEMMA PauseStepKeeps ==
    ASSUME SingleStopper, PauseInv, NEW t \in Thread, PauseStep(t)
    PROVE  PauseInv'
<1>1. Stoppers \subseteq Thread /\ Interpreter \notin Stoppers
  BY Kinds DEF Stoppers
<1>2. interpreter_is_paused' => pc'[Interpreter] \in IsPaused
  BY Zenon, Kinds DEF PauseInv, PauseStep
<1>3. ASSUME NEW u \in Stoppers
      PROVE  /\ pc'[u] \in {"pausing", "freezing", "freeze", "moving"} => pause'
             /\ pc'[u] \in {"freezing", "freeze", "moving"} => pc'[Interpreter] \in Away
  <2>1. CASE u = t
    <3>1. pc'[Interpreter] = pc[Interpreter] /\ (pc[Interpreter] \in IsPaused => pc[Interpreter] \in Away)
      BY <1>1, <2>1, Kinds DEF PauseStep, IsPaused, Away
    <3> QED  BY <2>1, <3>1 DEF PauseInv, PauseStep
  <2>2. CASE u # t
    <3>1. pc'[u] = pc[u] /\ pause' = pause
      BY <1>1, <2>2 DEF PauseStep, SingleStopper
    <3>2. t # Interpreter => pc'[Interpreter] = pc[Interpreter]
      BY Kinds DEF PauseStep
    <3> QED  BY <3>1, <3>2 DEF PauseInv, PauseStep
  <2> QED  BY <2>1, <2>2
<1> QED  BY <1>2, <1>3 DEF PauseInv

\* With pause_ set, the interpreter loop goes nowhere but to its pause.
LEMMA LoopPauses ==
    ASSUME PauseInv, LockInv, ListInv, InterpreterStep
    PROVE  PauseStep(Interpreter)
<1> USE Kinds DEF IGoto, ControlOnly, ProcessOnly, OtherVars, ReturnNext, Goto,
        ListInv, Types, PauseStep, Stoppers, PauseInv, Away, IsPaused
<1>1. CASE \/ LoopTest \/ TryDequeue \/ InnerTest \/ PutBack \/ AfterLoop
  BY <1>1 DEF LoopTest, TryDequeue, InnerTest, PutBack, AfterLoop
<1>2a. CASE PauseOn
  BY <1>2a DEF PauseOn
<1>2b. CASE PauseWait
  BY <1>2b DEF PauseWait
<1>2c. CASE PauseOff
  BY <1>2c DEF PauseOff
<1>2d. CASE IdleWait
  BY <1>2d DEF IdleWait
<1>2e. CASE IdleEnd
  BY <1>2e DEF IdleEnd
<1>3a. CASE InterpretSignal
  BY <1>3a DEF InterpretSignal, HandleEvent
<1>3b. CASE EnterDart
  BY <1>3b DEF EnterDart
<1>3c. CASE RunReceive
  BY <1>3c DEF RunReceive
<1>3d. CASE RunSendSelf
  BY <1>3d DEF RunSendSelf
<1>3e. CASE RunInterrupted
  BY <1>3e DEF RunInterrupted
<1>4a. CASE RunYield
  BY <1>4a DEF RunYield
<1>4b. CASE YieldMailbox
  BY <1>4b DEF YieldMailbox
<1>4c. CASE YieldSignal
  BY <1>4c DEF YieldSignal
<1>4d. CASE YieldSleep
  BY <1>4d DEF YieldSleep
<1>4e. CASE YieldReady
  BY Zenon, <1>4e DEF YieldReady
<1>5a. CASE TargetYield
  BY <1>5a DEF TargetYield
<1>5b. CASE Reschedule
  BY <1>5b DEF Reschedule
<1>5c. CASE SessionEvent
  BY ZenonT(40), <1>5c DEF SessionEvent
<1>6a. CASE Cleanup
  BY <1>6a DEF Cleanup, HandleEventResult
<1>6b. CASE DeleteTerminatedProcess
  BY <1>6b DEF DeleteTerminatedProcess
<1>6. CASE \/ Cleanup \/ DeleteTerminatedProcess
  BY Zenon, <1>6, <1>6a, <1>6b
<1>7. ASSUME NEW event \in Interruptions \cup {"Terminated"}, RunEvent(event)
      PROVE  PauseStep(Interpreter)
  BY <1>7 DEF RunEvent, HandleEvent, Interruptions
<1>8. ASSUME NEW p \in Process, RunSpawn(p)
      PROVE  PauseStep(Interpreter)
  BY Zenon, <1>8 DEF RunSpawn
<1>9. ASSUME NEW p \in Process, NEW outcome \in {"send", "exit_send"}, RunSend(p, outcome)
      PROVE  PauseStep(Interpreter)
  BY Zenon, <1>9 DEF RunSend
<1> HIDE DEF PauseStep
<1> QED  BY ZenonT(60), <1>1, <1>2a, <1>2b, <1>2c, <1>2d, <1>2e, <1>3a, <1>3b, <1>3c,
         <1>3d, <1>3e, <1>4a, <1>4b, <1>4c, <1>4d, <1>4e, <1>5a, <1>5b, <1>5c, <1>6, <1>7,
         <1>8, <1>9
         DEF InterpreterStep, RunStep

\* Who takes these steps may pause the loop, and waits until it has paused.
LEMMA StepPauses ==
    ASSUME PauseInv, LockInv, ListInv, NEW t \in Thread, Step(t)
    PROVE  PauseStep(t)
<1>0. pc \in [Thread -> InterpreterPC \cup ThreadPC]
  BY Zenon DEF ListInv, Types
<1>9. ASSUME PausedAll(t)
      PROVE  /\ pc[t] = "moving" /\ UNCHANGED interpreter_is_paused
             /\ \A u \in Thread : u # t => pc'[u] = pc[u]
             /\ \/ t = Interpreter /\ pc'[t] = "event" /\ UNCHANGED pause
                \/ t \in Debugged /\ pc'[t] = "stopped"
                \/ t \in Freezers /\ pc'[t] = "freezing" /\ UNCHANGED pause
  BY <1>0, <1>9 DEF PausedAll, At, Goto
<1> USE Kinds DEF At, Goto, ListInv, Types, PauseStep, Stoppers, Labels, Points,
        InterpreterPC, LockInv, Interrupting, PauseInv, Away, IsPaused
<1>1a. CASE Notify(t)
  BY ZenonT(40), <1>1a DEF Notify
<1>1b. CASE EnqueueSafe(t)
  BY ZenonT(90), <1>1b DEF EnqueueSafe, Return
<1>2. CASE Unlock(t)
  BY <1>2 DEF Unlock, Return
<1>3a. CASE SignalProcess(t)
  BY ZenonT(40), <1>3a DEF SignalProcess
<1>3b. CASE PausedAll(t)
  <2>1. CASE t = Interpreter /\ pc'[t] = "event" /\ UNCHANGED pause
    <3>1. /\ pc[Interpreter] = "moving" /\ UNCHANGED <<interpreter_is_paused, pause>>
          /\ \A u \in Thread : u # Interpreter => pc'[u] = pc[u]
      BY Zenon, <1>3b, <1>9, <2>1
    <3> QED  BY ZenonT(40), <2>1, <3>1
  <2>2. CASE t \in Debugged /\ pc'[t] = "stopped"
    BY Zenon, <1>3b, <1>9, <2>2
  <2>3. CASE t \in Freezers /\ pc'[t] = "freezing" /\ UNCHANGED pause
    BY Zenon, <1>3b, <1>9, <2>3
  <2> QED  BY Zenon, <1>3b, <1>9, <2>1, <2>2, <2>3
<1>4. CASE StopProgram(t)
  <2>1. CASE t = Interpreter
    BY <1>4, <2>1 DEF StopProgram, Wait
  <2>2. CASE t # Interpreter
    <3>1. t \in Debugged /\ t \in Stoppers
      BY Zenon, <1>4, <2>2 DEF StopProgram
    <3> QED  BY ZenonT(40), <1>4, <2>2, <3>1 DEF StopProgram, Wait
  <2> QED  BY Zenon, <2>1, <2>2
<1>5. CASE PauseInterpreterLoop(t)
  BY <1>5 DEF PauseInterpreterLoop, CanLock, Wait
<1>6a. CASE PauseProcess(t)
  BY Zenon, <1>6a DEF PauseProcess
<1>6b. CASE ResumeProgram(t)
  BY <1>6b DEF ResumeProgram, CanLock
<1>6c. CASE EnqueuePaused(t)
  BY <1>6c DEF EnqueuePaused
<1>7. CASE ResumedProgram(t)
  BY <1>7 DEF ResumedProgram
<1>8. ASSUME NEW p \in Process, SendSignal(t, p)
      PROVE  PauseStep(t)
  BY <1>8 DEF SendSignal
<1> HIDE DEF PauseStep
<1> QED  BY ZenonT(60), <1>1a, <1>1b, <1>2, <1>3a, <1>3b, <1>4, <1>5, <1>6a, <1>6b, <1>6c,
         <1>7, <1>8
         DEF Step

\* So does a freezing thread.
LEMMA FreezerPauses ==
    ASSUME PauseInv, LockInv, ListInv, NEW t \in Freezers,
           FreezerStep(t) \/ FreezeProgramGroup(t) \/ UnFreezeProgramGroup(t)
    PROVE  PauseStep(t)
<1> USE Kinds DEF At, Goto, ListInv, Types, PauseStep, Stoppers, PauseInv
<1>1. CASE FreezeProgram(t)
  BY Zenon, <1>1 DEF FreezeProgram, CanLock, Wait
<1>2. CASE \/ FreezeEnd(t) \/ Thawed(t)
  BY Zenon, <1>2 DEF FreezeEnd, Thawed
<1>3. CASE \/ UnFreezeEnd(t) \/ FreezeProgramGroup(t) \/ UnFreezeProgramGroup(t)
  BY Zenon, <1>3 DEF UnFreezeEnd, FreezeProgramGroup, UnFreezeProgramGroup
<1>4. ASSUME NEW g \in Program, FreezeNext(t, g)
      PROVE  PauseStep(t)
  BY Zenon, <1>4 DEF FreezeNext, Unvisited
<1>5. ASSUME NEW g \in Program, UnFreezeProgram(t, g)
      PROVE  PauseStep(t)
  BY Zenon, <1>5 DEF UnFreezeProgram, Unvisited
<1> HIDE DEF PauseStep
<1> QED  BY ZenonT(60), <1>1, <1>2, <1>3, <1>4, <1>5
         DEF FreezerStep

\* The others leave the loop alone.
LEMMA SenderPauses ==
    ASSUME PauseInv, LockInv, ListInv, NEW t \in Senders,
           ResumeProcess(t) \/ \E p \in Process : SendMessage(t, p)
    PROVE  PauseStep(t)
<1> USE Kinds DEF At, Goto, ListInv, Types, PauseStep, Stoppers
<1>1. CASE \/ ResumeProcess(t)
           \/ \E p \in Process : SendMessage(t, p)
  BY Zenon, <1>1 DEF ResumeProcess, SendMessage
<1> HIDE DEF PauseStep
<1> QED  BY ZenonT(60), <1>1

LEMMA SessionPauses ==
    ASSUME PauseInv, LockInv, ListInv, NEW t \in Debugged,
           \/ SessionStep(t) \/ DebugInterrupt(t) \/ ProcessContinue(t)
           \/ SessionEnd(t) \/ SessionTerminated(t)
    PROVE  PauseStep(t)
<1> USE Kinds DEF At, SessionUnchanged, Goto, ListInv, Types, PauseStep, Stoppers
<1>1. CASE \/ Interrupted(t) \/ ContinueProcess(t) \/ ResumeExecution(t)
           \/ DebugInterrupt(t) \/ ProcessContinue(t)
  BY Zenon, <1>1 DEF Interrupted, ContinueProcess, ResumeExecution, DebugInterrupt,
         ProcessContinue
<1>2. CASE \/ SessionEnd(t) \/ SessionTerminated(t)
  BY Zenon, <1>2 DEF SessionEnd, KillProgram, SessionTerminated
<1> HIDE DEF PauseStep
<1> QED  BY ZenonT(60), <1>1, <1>2
         DEF SessionStep

LEMMA RunnerPauses ==
    ASSUME PauseInv, LockInv, ListInv,
           TearDown \/ \E g \in Program : ScheduleProgram(g) \/ UnscheduleProgram(g)
    PROVE  PauseStep(Runner)
<1> USE Kinds DEF At, Goto, ListInv, Types, PauseStep, Stoppers
<1>1. CASE TearDown
  BY Zenon, <1>1 DEF TearDown
<1>2. ASSUME NEW g \in Program, ScheduleProgram(g)
      PROVE  PauseStep(Runner)
  BY Zenon, <1>2 DEF ScheduleProgram
<1>3. ASSUME NEW g \in Program, UnscheduleProgram(g)
      PROVE  PauseStep(Runner)
  BY Zenon, <1>3 DEF UnscheduleProgram
<1> HIDE DEF PauseStep
<1> QED  BY ZenonT(60), <1>1, <1>2, <1>3

LEMMA NextPauses ==
    ASSUME PauseInv, LockInv, ListInv, [Next]_vars
    PROVE  \E t \in Thread : PauseStep(t)
<1>1. ASSUME UNCHANGED vars PROVE PauseStep(Interpreter)
  BY <1>1, Kinds DEF vars, PauseStep, PauseInv, Away, Stoppers
<1> QED  BY ZenonT(60), <1>1, Kinds, LoopPauses, StepPauses, FreezerPauses, SenderPauses, SessionPauses, RunnerPauses
         DEF Next, Exited

LEMMA PauseNext ==
    ASSUME SingleStopper, PauseInv, LockInv, ListInv, [Next]_vars
    PROVE  PauseInv'
BY NextPauses, PauseStepKeeps

-----------------------------------------------------------------------------
(* What the interpreter thread has in its hands *)

\* A step that lets go of the process that runs next, or leaves it and the current one
\* alone, and that neither sends nor handles an event.
HandsFree ==
    /\ next' = NULL \/ UNCHANGED <<current, next>>
    /\ pc'[Interpreter] \notin {"target", "target_exit"} \cup Handling

\* A step that may hand the current process, of a program with a session, to it.
HandsEvent ==
    /\ UNCHANGED <<current, next>>
    /\ pc'[Interpreter] \notin {"target", "target_exit"}
    /\ pc'[Interpreter] \in Handling => ProgramOf[current] \in Debugged

LEMMA HandsMove ==
    ASSUME SameProgram, HandsFree \/ HandsEvent
    PROVE  SameProgram'
BY DEF SameProgram, HandsFree, HandsEvent

LEMMA LoopTargets ==
    ASSUME SameProgram, ListInv, InterpreterStep
    PROVE  SameProgram'
<1>0. pc \in [Thread -> InterpreterPC \cup ThreadPC] /\ Interpreter \in Thread
  BY Zenon, Kinds DEF ListInv, Types
<1>1. pc[Interpreter] = "dequeue" => next = NULL
  BY Zenon DEF ListInv, RunningOwned
<1> USE <1>0 DEF IGoto, Goto, ControlOnly, ProcessOnly, OtherVars, HandsFree, HandsEvent,
        Handling
<1>2. CASE \/ LoopTest \/ InnerTest \/ PutBack \/ AfterLoop
  <2>1. HandsFree
    BY <1>2 DEF LoopTest, InnerTest, PutBack, AfterLoop
  <2> QED  BY Zenon, <2>1, HandsMove
<1>3. CASE TryDequeue
  <2>1. HandsFree
    BY <1>1, <1>3 DEF TryDequeue
  <2> QED  BY Zenon, <2>1, HandsMove
<1>4. CASE \/ PauseOn \/ PauseWait \/ PauseOff \/ IdleWait \/ IdleEnd
  <2>1. HandsFree
    BY <1>4 DEF PauseOn, PauseWait, PauseOff, IdleWait, IdleEnd
  <2> QED  BY Zenon, <2>1, HandsMove
<1>5. CASE \/ EnterDart \/ RunReceive \/ RunSendSelf \/ RunInterrupted \/ RunYield
  <2>1. HandsFree
    BY <1>5 DEF EnterDart, RunReceive, RunSendSelf, RunInterrupted, RunYield
  <2> QED  BY Zenon, <2>1, HandsMove
<1>6. CASE \/ YieldMailbox \/ YieldSignal \/ YieldSleep \/ YieldReady
  <2>1. HandsFree
    BY Zenon, <1>6 DEF YieldMailbox, YieldSignal, YieldSleep, YieldReady
  <2> QED  BY ZenonT(40), <2>1, HandsMove
<1>7. CASE \/ Reschedule \/ DeleteTerminatedProcess \/ Cleanup
  <2>1. HandsFree
    BY Zenon, <1>7 DEF Reschedule, DeleteTerminatedProcess, Cleanup, ReturnNext, HandleEventResult
  <2> QED  BY ZenonT(40), <2>1, HandsMove
<1>8. ASSUME NEW p \in Process, RunSpawn(p)
      PROVE  SameProgram'
  <2>1. HandsFree
    BY Zenon, <1>8 DEF RunSpawn
  <2> QED  BY ZenonT(40), <2>1, HandsMove
<1>9. CASE InterpretSignal
  <2>1. HandsEvent
    BY Zenon, <1>9 DEF InterpretSignal, HandleEvent
  <2> QED  BY ZenonT(40), <2>1, HandsMove
<1>10. ASSUME NEW event \in Interruptions \cup {"Terminated"}, RunEvent(event)
       PROVE  SameProgram'
  <2>1. HandsEvent
    BY <1>10 DEF RunEvent, HandleEvent
  <2> QED  BY Zenon, <2>1, HandsMove
<1>11. CASE SessionEvent
  <2>1. HandsEvent
    BY ZenonT(40), <1>11 DEF SessionEvent, SameProgram
  <2> QED  BY ZenonT(40), <2>1, HandsMove
<1>12. CASE TargetYield
  <2>1. pc[Interpreter] \in {"target", "target_exit"} => target[Interpreter] \in Process
    BY ZenonT(40), Kinds DEF ListInv, Scheduled
  <2>2. /\ pc'[Interpreter] \in {"resched", "result"}
        /\ pc[Interpreter] \in {"target", "target_exit"}
    BY Zenon, <1>12 DEF TargetYield
  <2>3. UNCHANGED current /\ (next' = next \/ next' = target[Interpreter])
    BY Zenon, <1>12 DEF TargetYield
  <2> QED  BY <2>1, <2>2, <2>3 DEF SameProgram
<1>13. ASSUME NEW p \in Process, NEW outcome \in {"send", "exit_send"}, RunSend(p, outcome)
       PROVE  SameProgram'
  <2>1. target \in [Thread -> Process \cup Program \cup {NULL}]
    BY Zenon DEF ListInv, Types
  <2>2. /\ pc'[Interpreter] \in {"target", "target_exit"} /\ target'[Interpreter] = p
        /\ UNCHANGED <<state, current, next>>
        /\ p # current /\ Exists(p) /\ ProgramOf[p] = ProgramOf[current]
    BY <1>13, <2>1 DEF RunSend
  <2> QED  BY Zenon, <2>2 DEF SameProgram, Exists
<1> HIDE DEF HandsFree, HandsEvent
<1> QED  BY ZenonT(60), <1>2, <1>3, <1>4, <1>5, <1>6, <1>7, <1>8, <1>9, <1>10, <1>11,
         <1>12, <1>13
         DEF InterpreterStep, RunStep

\* A step shared by the threads: it neither sends a message nor starts to handle an event.
HandsHold ==
    /\ UNCHANGED <<current, next>>
    /\ pc'[Interpreter] \in {"target", "target_exit"} =>
          pc'[Interpreter] = pc[Interpreter] /\ target'[Interpreter] = target[Interpreter]
    /\ pc'[Interpreter] \in Handling => pc[Interpreter] \in Handling
    /\ \A p \in Process : Exists(p) => Exists(p)'

LEMMA HandsHeld ==
    ASSUME SameProgram, ListInv, HandsHold
    PROVE  SameProgram'
<1>1. pc[Interpreter] \in {"target", "target_exit"} => target[Interpreter] \in Process
  BY Zenon, Kinds DEF ListInv, Scheduled
<1> QED  BY Zenon, <1>1 DEF HandsHold, SameProgram

LEMMA StepTargets ==
    ASSUME SameProgram, ListInv, NEW t \in Thread, Step(t)
    PROVE  SameProgram'
<1>0. /\ pc \in [Thread -> InterpreterPC \cup ThreadPC] /\ Interpreter \in Thread
      /\ state \in [Process -> ProcessStates]
      /\ target \in [Thread -> Process \cup Program \cup {NULL}]
  BY Zenon, Kinds DEF ListInv, Types
<1>14. pc[Interpreter] \in InterpreterPC
  BY Zenon, Kinds DEF ListInv, Labels, Points
<1>15. "pausing" \notin InterpreterPC
  BY DEF InterpreterPC
<1> USE <1>0 DEF At, Goto, Exists, Handling, HandsHold
<1>1. ASSUME Notify(t) PROVE HandsHold
  BY <1>1 DEF Notify
<1>2. ASSUME Unlock(t) PROVE HandsHold
  BY Zenon, <1>2 DEF Unlock, Return
<1>3. ASSUME EnqueueSafe(t) PROVE HandsHold
  BY Zenon, <1>3 DEF EnqueueSafe, Return, Enqueue
<1>4. ASSUME SignalProcess(t) PROVE HandsHold
  BY Zenon, <1>4 DEF SignalProcess
<1>5. ASSUME StopProgram(t) PROVE HandsHold
  BY <1>5 DEF StopProgram
<1>6. ASSUME PauseInterpreterLoop(t) PROVE HandsHold
  <2>1. t # Interpreter
    BY Zenon, <1>6, <1>14, <1>15 DEF PauseInterpreterLoop
  <2> QED  BY <1>6, <2>1 DEF PauseInterpreterLoop
<1>7. ASSUME PauseProcess(t) PROVE HandsHold
  BY Zenon, <1>7 DEF PauseProcess
<1>8. ASSUME PausedAll(t) PROVE HandsHold
  BY <1>8 DEF PausedAll
<1>9. ASSUME ResumeProgram(t) PROVE HandsHold
  BY <1>9 DEF ResumeProgram
<1>10. ASSUME EnqueuePaused(t) PROVE HandsHold
  BY Zenon, <1>10 DEF EnqueuePaused, Enqueue
<1>11. ASSUME ResumedProgram(t) PROVE HandsHold
  BY <1>11 DEF ResumedProgram
<1>12. ASSUME NEW p \in Process, SendSignal(t, p)
       PROVE  HandsHold
  BY <1>12 DEF SendSignal
<1> HIDE DEF HandsHold
<1>13. HandsHold
  BY ZenonT(60), <1>1, <1>2, <1>3, <1>4, <1>5, <1>6, <1>7, <1>8, <1>9, <1>10, <1>11, <1>12
     DEF Step
<1> QED  BY Zenon, <1>13, HandsHeld

\* A step of another thread leaves alone what the interpreter thread has in its hands.
HandsKept ==
    /\ pc'[Interpreter] = pc[Interpreter]
    /\ target'[Interpreter] = target[Interpreter]
    /\ UNCHANGED <<current, next>>
    /\ \A p \in Process : Exists(p) => Exists(p)'

LEMMA HandsKeep ==
    ASSUME SameProgram, ListInv, HandsKept
    PROVE  SameProgram'
<1>1. pc[Interpreter] \in {"target", "target_exit"} => target[Interpreter] \in Process
  BY Zenon, Kinds DEF ListInv, Scheduled
<1> QED  BY Zenon, <1>1 DEF HandsKept, SameProgram

LEMMA FreezerTargets ==
    ASSUME ListInv, NEW t \in Freezers,
           FreezerStep(t) \/ FreezeProgramGroup(t) \/ UnFreezeProgramGroup(t)
    PROVE  HandsKept
<1> USE Kinds DEF At, Goto, ListInv, Types, HandsKept, Exists
<1>1. CASE \/ FreezeProgram(t) \/ FreezeEnd(t) \/ Thawed(t) \/ UnFreezeEnd(t)
           \/ FreezeProgramGroup(t)
  BY Zenon, <1>1 DEF FreezeProgram, CanLock, Wait, FreezeEnd, Thawed, UnFreezeEnd,
         FreezeProgramGroup
<1>2. CASE UnFreezeProgramGroup(t)
  BY Zenon, <1>2 DEF UnFreezeProgramGroup
<1>3. ASSUME NEW g \in Program, FreezeNext(t, g) \/ UnFreezeProgram(t, g)
      PROVE  HandsKept
  BY Zenon, <1>3 DEF FreezeNext, Unvisited, UnFreezeProgram
<1> HIDE DEF HandsKept
<1> QED  BY ZenonT(60), <1>1, <1>2, <1>3
         DEF FreezerStep

LEMMA SenderTargets ==
    ASSUME ListInv, NEW t \in Senders,
           ResumeProcess(t) \/ \E p \in Process : SendMessage(t, p)
    PROVE  HandsKept
<1> USE Kinds DEF At, Goto, ListInv, Types, HandsKept, Exists
<1>1. CASE ResumeProcess(t)
  BY ZenonT(40), <1>1 DEF ResumeProcess, Scheduled
<1>2. ASSUME NEW p \in Process, SendMessage(t, p)
      PROVE  HandsKept
  BY ZenonT(40), <1>2 DEF SendMessage
<1> HIDE DEF HandsKept
<1> QED  BY ZenonT(60), <1>1, <1>2

LEMMA SessionTargets ==
    ASSUME ListInv, NEW t \in Debugged,
           \/ SessionStep(t) \/ DebugInterrupt(t) \/ ProcessContinue(t)
           \/ SessionEnd(t) \/ SessionTerminated(t)
    PROVE  HandsKept
<1> USE Kinds DEF At, SessionUnchanged, Goto, ListInv, Types, HandsKept, Exists
<1>1. CASE Interrupted(t)
  BY <1>1 DEF Interrupted
<1>2. CASE ContinueProcess(t)
  BY <1>2 DEF ContinueProcess
<1>3. CASE \/ ResumeExecution(t) \/ DebugInterrupt(t) \/ ProcessContinue(t)
  BY Zenon, <1>3 DEF ResumeExecution, DebugInterrupt, ProcessContinue
<1>4. CASE \/ SessionEnd(t) \/ SessionTerminated(t)
  BY Zenon, <1>4 DEF SessionEnd, KillProgram, SessionTerminated
<1> HIDE DEF HandsKept
<1> QED  BY ZenonT(60), <1>1, <1>2, <1>3, <1>4
         DEF SessionStep

LEMMA RunnerTargets ==
    ASSUME ListInv,
           TearDown \/ \E g \in Program : ScheduleProgram(g) \/ UnscheduleProgram(g)
    PROVE  HandsKept
<1> USE Kinds DEF At, Goto, ListInv, Types, HandsKept, Exists
<1>1. ASSUME NEW g \in Program, ScheduleProgram(g)
      PROVE  HandsKept
  BY Zenon, <1>1 DEF ScheduleProgram, Enqueue
<1>2. ASSUME NEW g \in Program, UnscheduleProgram(g)
      PROVE  HandsKept
  BY <1>2 DEF UnscheduleProgram
<1>3. CASE TearDown
  BY <1>3 DEF TearDown
<1> HIDE DEF HandsKept
<1> QED  BY ZenonT(60), <1>1, <1>2, <1>3

LEMMA TargetNext ==
    ASSUME SameProgram, ListInv, [Next]_vars
    PROVE  SameProgram'
<1>1. ASSUME UNCHANGED vars PROVE SameProgram'
  BY Zenon, <1>1 DEF vars, SameProgram, Exists
<1> QED  BY ZenonT(60), <1>1, LoopTargets, StepTargets, HandsKeep, FreezerTargets, SenderTargets,
            SessionTargets, RunnerTargets DEF Next, Exited

-----------------------------------------------------------------------------
(* A stopped program is quiet *)

\* What a step of thread t does about stopping: whoever takes a program out of
\* kRunning becomes busy with it, and remains so until its processes have been moved or
\* the program is running again.
GateStep(t) ==
    /\ \A u \in Thread : u # t => pc'[u] = pc[u] /\ target'[u] = target[u]
    /\ pc'[Interpreter] \in {"moving", "resuming"} => UNCHANGED current
    /\ \A g \in Program : pstate'[g] \in Stops => \/ pstate[g] \in Stops
                                                  \/ Busy(t)' /\ ProgramAt(t)' = g
    /\ Busy(t) => \/ Busy(t)' /\ ProgramAt(t)' = ProgramAt(t)
                  \/ PausedAll(t)
                  \/ pstate'[ProgramAt(t)] = "Running"

LEMMA LoopGates ==
    ASSUME LockInv, ListInv, InterpreterStep
    PROVE  GateStep(Interpreter)
<1> USE Kinds DEF IGoto, ControlOnly, ProcessOnly, OtherVars, ReturnNext, Goto,
        ListInv, Types, GateStep, Busy, Stops, ProgramAt
<1>1. CASE \/ LoopTest \/ TryDequeue \/ InnerTest \/ PutBack \/ AfterLoop
  BY Zenon, <1>1 DEF LoopTest, TryDequeue, InnerTest, PutBack, AfterLoop
<1>2. CASE \/ PauseOn \/ PauseWait \/ PauseOff \/ IdleWait \/ IdleEnd
  BY Zenon, <1>2 DEF PauseOn, PauseWait, PauseOff, IdleWait, IdleEnd
<1>3. CASE \/ InterpretSignal \/ EnterDart \/ RunReceive \/ RunSendSelf
           \/ RunInterrupted
  BY Zenon, <1>3 DEF InterpretSignal, HandleEvent, EnterDart, RunReceive, RunSendSelf,
         RunInterrupted
<1>4. CASE \/ RunYield \/ YieldMailbox \/ YieldSignal \/ YieldSleep \/ YieldReady
  BY Zenon, <1>4 DEF RunYield, YieldMailbox, YieldSignal, YieldSleep, YieldReady
<1>5a. CASE TargetYield
  BY Zenon, <1>5a DEF TargetYield
<1>5b. CASE Reschedule
  BY Zenon, <1>5b DEF Reschedule
<1>5c. CASE SessionEvent
  BY ZenonT(40), <1>5c DEF SessionEvent
<1>5d. CASE Cleanup
  BY Zenon, <1>5d DEF Cleanup, HandleEventResult
<1>5e. CASE DeleteTerminatedProcess
  BY Zenon, <1>5e DEF DeleteTerminatedProcess
<1>6. CASE \/ \E event \in Interruptions \cup {"Terminated"} : RunEvent(event)
           \/ \E p \in Process : RunSpawn(p)
           \/ \E p \in Process, outcome \in {"send", "exit_send"} : RunSend(p, outcome)
  BY ZenonT(40), <1>6 DEF RunEvent, HandleEvent, Interruptions, RunSpawn, RunSend
<1> HIDE DEF GateStep
<1> QED  BY ZenonT(60), <1>1, <1>2, <1>3, <1>4, <1>5a, <1>5b, <1>5c, <1>5d, <1>5e, <1>6
         DEF InterpreterStep, RunStep

LEMMA StopGates ==
    ASSUME ListInv, NEW t \in Thread, StopProgram(t)
    PROVE  GateStep(t)
<1> DEFINE g == ProgramAt(t)
<1>1. pc[t] = "stop" /\ (t = Interpreter \/ t \in Debugged)
  BY Zenon, Kinds DEF StopProgram, At, ListInv, Labels, Points
<1>2. g \in Program /\ ProgramAt(t)' = g /\ UNCHANGED <<current, target>>
  BY Zenon, <1>1, ProgramAtHand DEF StopProgram, ProgramAt
<1>3. ~Busy(t)
  BY <1>1 DEF Busy
<1>4. CASE UNCHANGED <<pstate, pc>>
  BY <1>1, <1>2, <1>3, <1>4 DEF GateStep, Busy
<1>5. CASE /\ pstate' = [pstate EXCEPT ![g] = "Session"]
           /\ Goto(t, IF t = Interpreter THEN "moving" ELSE "pausing")
  <2>1. \A u \in Thread : u # t => pc'[u] = pc[u] /\ target'[u] = target[u]
    BY <1>2, <1>5 DEF Goto, ListInv, Types
  <2>2. pc'[t] = IF t = Interpreter THEN "moving" ELSE "pausing"
    BY <1>5 DEF Goto, ListInv, Types
  <2>3. Busy(t)'
    BY <1>1, <2>2 DEF Busy
  <2>4. \A h \in Program : h # g => pstate'[h] = pstate[h]
    BY <1>5 DEF ListInv, Types
  <2> HIDE DEF g
  <2> QED  BY Zenon, <1>2, <1>3, <2>1, <2>3, <2>4 DEF GateStep
<1> QED  BY <1>4, <1>5 DEF StopProgram

LEMMA StepGates ==
    ASSUME LockInv, ListInv, NEW t \in Thread, Step(t)
    PROVE  GateStep(t)
<1> USE Kinds, ProgramAtHand DEF At, Goto, ListInv, Types, GateStep, Busy, Stops,
        ProgramAt, Labels, Points, InterpreterPC
<1>1. CASE \/ Notify(t) \/ EnqueueSafe(t) \/ Unlock(t) \/ SignalProcess(t)
           \/ PauseInterpreterLoop(t)
  BY ZenonT(40), <1>1 DEF Notify, EnqueueSafe, Return, Unlock, SignalProcess, PauseInterpreterLoop,
         CanLock, Wait
<1>2. CASE StopProgram(t)
  BY Zenon, <1>2, StopGates
<1>3a. CASE PauseProcess(t)
  BY Zenon, <1>3a DEF PauseProcess
<1>3b. CASE PausedAll(t)
  BY Zenon, <1>3b DEF PausedAll
<1>3c. CASE ResumeProgram(t)
  BY Zenon, <1>3c DEF ResumeProgram, CanLock
<1>3d. CASE EnqueuePaused(t)
  BY Zenon, <1>3d DEF EnqueuePaused
<1>3e. CASE ResumedProgram(t)
  BY Zenon, <1>3e DEF ResumedProgram
<1>3f. CASE \E p \in Process : SendSignal(t, p)
  BY ZenonT(40), <1>3f DEF SendSignal
<1> HIDE DEF GateStep
<1> QED  BY ZenonT(60), <1>1, <1>2, <1>3a, <1>3b, <1>3c, <1>3d, <1>3e, <1>3f
         DEF Step

LEMMA FreezerGates ==
    ASSUME LockInv, ListInv, NEW t \in Freezers,
           FreezerStep(t) \/ FreezeProgramGroup(t) \/ UnFreezeProgramGroup(t)
    PROVE  GateStep(t)
<1> USE Kinds DEF At, Goto, ListInv, Types, GateStep, Busy, Stops, ProgramAt
<1>1. CASE FreezeProgram(t)
  BY Zenon, <1>1 DEF FreezeProgram, CanLock, Wait
<1>2. CASE \/ FreezeEnd(t) \/ Thawed(t)
  BY Zenon, <1>2 DEF FreezeEnd, Thawed
<1>3. CASE \/ UnFreezeEnd(t) \/ FreezeProgramGroup(t) \/ UnFreezeProgramGroup(t)
  BY Zenon, <1>3 DEF UnFreezeEnd, FreezeProgramGroup, UnFreezeProgramGroup
<1>4. ASSUME NEW g \in Program, FreezeNext(t, g)
      PROVE  GateStep(t)
  BY Zenon, <1>4 DEF FreezeNext, Unvisited
<1>5. ASSUME NEW g \in Program, UnFreezeProgram(t, g)
      PROVE  GateStep(t)
  BY Zenon, <1>5 DEF UnFreezeProgram, Unvisited
<1> HIDE DEF GateStep
<1> QED  BY ZenonT(60), <1>1, <1>2, <1>3, <1>4, <1>5
         DEF FreezerStep

LEMMA SenderGates ==
    ASSUME LockInv, ListInv, NEW t \in Senders,
           ResumeProcess(t) \/ \E p \in Process : SendMessage(t, p)
    PROVE  GateStep(t)
<1> USE Kinds DEF At, Goto, ListInv, Types, GateStep, Busy, Stops, ProgramAt
<1>1. CASE \/ ResumeProcess(t)
           \/ \E p \in Process : SendMessage(t, p)
  BY Zenon, <1>1 DEF ResumeProcess, SendMessage
<1> HIDE DEF GateStep
<1> QED  BY ZenonT(60), <1>1

LEMMA SessionGates ==
    ASSUME LockInv, ListInv, NEW t \in Debugged,
           \/ SessionStep(t) \/ DebugInterrupt(t) \/ ProcessContinue(t)
           \/ SessionEnd(t) \/ SessionTerminated(t)
    PROVE  GateStep(t)
<1> USE Kinds DEF At, SessionUnchanged, Goto, ListInv, Types, GateStep, Busy, Stops,
        ProgramAt
<1>1. CASE \/ Interrupted(t) \/ ContinueProcess(t) \/ ResumeExecution(t)
           \/ DebugInterrupt(t) \/ ProcessContinue(t)
  BY Zenon, <1>1 DEF Interrupted, ContinueProcess, ResumeExecution, DebugInterrupt,
         ProcessContinue
<1>2. CASE \/ SessionEnd(t) \/ SessionTerminated(t)
  BY Zenon, <1>2 DEF SessionEnd, KillProgram, SessionTerminated
<1> HIDE DEF GateStep
<1> QED  BY ZenonT(60), <1>1, <1>2
         DEF SessionStep

LEMMA RunnerGates ==
    ASSUME LockInv, ListInv,
           TearDown \/ \E g \in Program : ScheduleProgram(g) \/ UnscheduleProgram(g)
    PROVE  GateStep(Runner)
<1> USE Kinds DEF At, Goto, ListInv, Types, GateStep, Busy, Stops, ProgramAt
<1>1a. CASE TearDown
  BY Zenon, <1>1a DEF TearDown
<1>1b. CASE \E g \in Program : ScheduleProgram(g)
  BY ZenonT(40), <1>1b DEF ScheduleProgram
<1>1c. CASE \E g \in Program : UnscheduleProgram(g)
  BY Zenon, <1>1c DEF UnscheduleProgram
<1> HIDE DEF GateStep
<1> QED  BY ZenonT(60), <1>1a, <1>1b, <1>1c

LEMMA NextGates ==
    ASSUME LockInv, ListInv, [Next]_vars
    PROVE  \E t \in Thread : GateStep(t)
<1>1. ASSUME UNCHANGED vars PROVE GateStep(Interpreter)
  BY Zenon, <1>1, Kinds DEF vars, GateStep, Busy, ProgramAt
<1> QED  BY ZenonT(60), <1>1, Kinds, LoopGates, StepGates, FreezerGates, SenderGates, SessionGates, RunnerGates
         DEF Next, Exited

\* A process becomes ready or running only where another one of its program is, where the
\* program is running, or where someone is resuming it.
ActiveStep(t) ==
    \A p \in Process : state'[p] \in Active =>
        \/ \E q \in Process : ProgramOf[q] = ProgramOf[p] /\ state[q] \in Active
        \/ pstate'[ProgramOf[p]] \notin Stops
        \/ Busy(t) /\ ProgramAt(t) = ProgramOf[p]

LEMMA LoopActs ==
    ASSUME SameProgram, LockInv, ListInv, InterpreterStep
    PROVE  ActiveStep(Interpreter)
<1> USE Kinds DEF IGoto, ControlOnly, ProcessOnly, OtherVars, ReturnNext, ListInv,
        Types, ActiveStep, Active
<1>1. CASE \/ LoopTest \/ InnerTest \/ AfterLoop \/ PauseOn \/ PauseWait
  BY Zenon, <1>1 DEF LoopTest, InnerTest, AfterLoop, PauseOn, PauseWait
<1>2. CASE TryDequeue
  BY ZenonT(40), <1>2, TailList DEF TryDequeue, ReadyList
<1>3. CASE PutBack
  <2>1. current \in Process /\ state[current] \in Active
    BY Zenon, <1>3 DEF PutBack, RunningOwned, Interpreting, Yielding
  <2> QED  BY Zenon, <1>3, <2>1 DEF PutBack, Enqueue
<1>4. CASE \/ PauseOff \/ IdleWait \/ IdleEnd \/ EnterDart \/ RunReceive
  BY Zenon, <1>4 DEF PauseOff, IdleWait, IdleEnd, EnterDart, RunReceive
<1>5. CASE InterpretSignal
  <2>1. current \in Process
    BY Zenon, <1>5 DEF InterpretSignal, RunningOwned, Interpreting
  <2> QED  BY Zenon, <1>5, <2>1 DEF InterpretSignal
<1>6. CASE \/ RunSendSelf \/ YieldMailbox \/ YieldSignal \/ SessionEvent
           \/ DeleteTerminatedProcess
           \/ \E p \in Process, outcome \in {"send", "exit_send"} : RunSend(p, outcome)
  BY Zenon, <1>6 DEF RunSendSelf, YieldMailbox, YieldSignal, SessionEvent,
         DeleteTerminatedProcess, RunSend
<1>7. CASE RunInterrupted
  <2>1. current \in Process /\ state[current] \in Active
    BY Zenon, <1>7 DEF RunInterrupted, RunningOwned, Interpreting, Yielding
  <2> QED  BY Zenon, <1>7, <2>1 DEF RunInterrupted, Enqueue
<1>8. CASE RunYield
  <2>1. current \in Process /\ state[current] \in Active
    BY Zenon, <1>8 DEF RunYield, RunningOwned, Interpreting, Yielding
  <2> QED  BY Zenon, <1>8, <2>1 DEF RunYield, Enqueue
<1>9. CASE YieldSleep
  <2>1. current \in Process /\ state[current] \in Active
    BY Zenon, <1>9 DEF YieldSleep, RunningOwned, Interpreting, Yielding
  <2> QED  BY Zenon, <1>9, <2>1 DEF YieldSleep, Enqueue
<1>10. CASE YieldReady
  <2>1. current \in Process /\ state[current] \in Active
    BY Zenon, <1>10 DEF YieldReady, RunningOwned, Interpreting, Yielding
  <2> QED  BY Zenon, <1>10, <2>1 DEF YieldReady, Enqueue
<1>11. CASE TargetYield
  <2>1. current \in Process /\ state[current] \in Active
    BY Zenon, <1>11 DEF TargetYield, RunningOwned, Interpreting, Yielding
  <2>2. \A q \in Process : state'[q] \in Active => state[q] \in Active \/ ProgramOf[q] = ProgramOf[current]
    BY Zenon, <1>11, <2>1 DEF TargetYield, Enqueue, SameProgram, Scheduled
  <2> QED  BY Zenon, <2>1, <2>2
<1>12. CASE Reschedule
  <2>1. current \in Process /\ state[current] \in Active
    BY Zenon, <1>12 DEF Reschedule, RunningOwned, Interpreting, Yielding
  <2> QED  BY Zenon, <1>12, <2>1 DEF Reschedule, Enqueue
<1>13. CASE Cleanup
  <2>1. current \in Process
    BY Zenon, <1>13 DEF Cleanup, HandleEventResult, CurrentAt
  <2> QED  BY Zenon, <1>13, <2>1 DEF Cleanup
<1>14. ASSUME NEW event \in Interruptions \cup {"Terminated"}, RunEvent(event)
      PROVE  ActiveStep(Interpreter)
  <2>1. current \in Process /\ event \notin Active
    BY Zenon, <1>14 DEF RunEvent, RunningOwned, Interpreting, Interruptions
  <2> QED  BY Zenon, <1>14, <2>1 DEF RunEvent
<1>15. ASSUME NEW p \in Process, RunSpawn(p)
      PROVE  ActiveStep(Interpreter)
  <2>1. current \in Process /\ state[current] \in Active
    BY Zenon, <1>15 DEF RunSpawn, RunningOwned, Interpreting, Yielding
  <2>2. \A q \in Process : state'[q] \in Active => state[q] \in Active \/ ProgramOf[q] = ProgramOf[current]
    BY Zenon, <1>15, <2>1 DEF RunSpawn, Enqueue
  <2> QED  BY Zenon, <2>1, <2>2
<1> HIDE DEF ActiveStep
<1> QED  BY ZenonT(60), <1>1, <1>2, <1>3, <1>4, <1>5, <1>6, <1>7, <1>8, <1>9, <1>10,
          <1>11, <1>12, <1>13, <1>14, <1>15
         DEF InterpreterStep, RunStep

LEMMA StepActs ==
    ASSUME SameProgram, LockInv, ListInv, NEW t \in Thread, Step(t)
    PROVE  ActiveStep(t)
<1> USE Kinds DEF At, ListInv, Types, ActiveStep, Active, Enqueue, Stops, Busy
<1>1. CASE \/ Notify(t) \/ EnqueueSafe(t) \/ Unlock(t) \/ SignalProcess(t)
           \/ StopProgram(t)
  BY Zenon, <1>1 DEF Notify, EnqueueSafe, Return, Unlock, SignalProcess, StopProgram, CanLock,
         Wait
<1>2. CASE \/ PauseInterpreterLoop(t) \/ PauseProcess(t) \/ PausedAll(t)
           \/ ResumeProgram(t) \/ ResumedProgram(t)
           \/ \E p \in Process : SendSignal(t, p)
  BY Zenon, <1>2 DEF PauseInterpreterLoop, CanLock, Wait, PauseProcess, PausedAll,
         ResumeProgram, ResumedProgram, SendSignal
<1>3. CASE EnqueuePaused(t)
  <2>1. ProgramAt(t) \in Program /\ (pc[t] = "thawing" => t \in Freezers /\ ProgramAt(t) = target[t])
    BY Zenon, <1>3, ProgramAtHand DEF EnqueuePaused, ProgramAt, Labels, Points, InterpreterPC
  <2>2. PICK p \in Process : p = Head(paused[ProgramAt(t)]) /\ ProgramOf[p] = ProgramAt(t)
    BY Zenon, <1>3, <2>1, TailList DEF EnqueuePaused, PausedLists
  <2>3. UNCHANGED pstate /\ \A q \in Process : q # p => state'[q] = state[q]
    BY Zenon, <1>3, <2>2 DEF EnqueuePaused
  <2>4. pstate'[ProgramOf[p]] \notin Stops \/ Busy(t)
    BY Zenon, <1>3, <2>1, <2>2, <2>3 DEF EnqueuePaused, LockInv, Thawing
  <2> QED  BY Zenon, <2>2, <2>3, <2>4
<1> HIDE DEF ActiveStep
<1> QED  BY ZenonT(60), <1>1, <1>2, <1>3
         DEF Step

LEMMA FreezerActs ==
    ASSUME SameProgram, LockInv, ListInv, NEW t \in Freezers,
           FreezerStep(t) \/ FreezeProgramGroup(t) \/ UnFreezeProgramGroup(t)
    PROVE  ActiveStep(t)
<1> USE Kinds DEF At, ListInv, Types, ActiveStep, Active
<1>1. CASE \/ FreezeProgram(t) \/ FreezeEnd(t) \/ Thawed(t) \/ UnFreezeEnd(t)
           \/ FreezeProgramGroup(t)
  BY Zenon, <1>1 DEF FreezeProgram, CanLock, Wait, FreezeEnd, Thawed, UnFreezeEnd,
         FreezeProgramGroup
<1>2. CASE \/ UnFreezeProgramGroup(t)
           \/ \E g \in Program : FreezeNext(t, g)
           \/ \E g \in Program : UnFreezeProgram(t, g)
  BY Zenon, <1>2 DEF UnFreezeProgramGroup, FreezeNext, Unvisited, UnFreezeProgram
<1> HIDE DEF ActiveStep
<1> QED  BY ZenonT(60), <1>1, <1>2
         DEF FreezerStep

LEMMA SenderActs ==
    ASSUME SameProgram, LockInv, ListInv, NEW t \in Senders,
           ResumeProcess(t) \/ \E p \in Process : SendMessage(t, p)
    PROVE  ActiveStep(t)
<1> USE Kinds DEF At, ListInv, Types, ActiveStep, Active
<1>1. CASE \/ ResumeProcess(t)
           \/ \E p \in Process : SendMessage(t, p)
  BY Zenon, <1>1 DEF ResumeProcess, SendMessage
<1> HIDE DEF ActiveStep
<1> QED  BY ZenonT(60), <1>1

LEMMA SessionActs ==
    ASSUME SameProgram, LockInv, ListInv, NEW t \in Debugged,
           \/ SessionStep(t) \/ DebugInterrupt(t) \/ ProcessContinue(t)
           \/ SessionEnd(t) \/ SessionTerminated(t)
    PROVE  ActiveStep(t)
<1> USE Kinds DEF At, SessionUnchanged, ListInv, Types, ActiveStep, Active,
        Interruptions
<1>1. CASE \/ Interrupted(t) \/ ContinueProcess(t) \/ ResumeExecution(t)
           \/ DebugInterrupt(t) \/ ProcessContinue(t)
  BY Zenon, <1>1 DEF Interrupted, ContinueProcess, ResumeExecution, DebugInterrupt,
         ProcessContinue
<1>2. CASE \/ SessionEnd(t) \/ SessionTerminated(t)
  BY Zenon, <1>2 DEF SessionEnd, KillProgram, SessionTerminated
<1> HIDE DEF ActiveStep
<1> QED  BY ZenonT(60), <1>1, <1>2
         DEF SessionStep

LEMMA RunnerActs ==
    ASSUME SameProgram, LockInv, ListInv,
           TearDown \/ \E g \in Program : ScheduleProgram(g) \/ UnscheduleProgram(g)
    PROVE  ActiveStep(Runner)
<1> USE Kinds, ConstantTypes DEF At, ListInv, Types, ActiveStep, Active, Enqueue, Stops
<1>1. ASSUME NEW g \in Program, ScheduleProgram(g)
      PROVE  ActiveStep(Runner)
  BY ZenonT(40), <1>1 DEF ScheduleProgram
<1>2. ASSUME NEW g \in Program, UnscheduleProgram(g)
      PROVE  ActiveStep(Runner)
  BY Zenon, <1>2 DEF UnscheduleProgram
<1>3. CASE TearDown
  BY Zenon, <1>3 DEF TearDown
<1> HIDE DEF ActiveStep
<1> QED  BY ZenonT(60), <1>1, <1>2, <1>3

LEMMA NextActs ==
    ASSUME SameProgram, LockInv, ListInv, [Next]_vars
    PROVE  \E t \in Thread : ActiveStep(t)
<1>1. ASSUME UNCHANGED vars PROVE ActiveStep(Interpreter)
  BY Zenon, <1>1, Kinds DEF vars, ActiveStep
<1> QED  BY ZenonT(60), <1>1, Kinds, LoopActs, StepActs, FreezerActs, SenderActs, SessionActs, RunnerActs
         DEF Next, Exited

\* PauseAllProcessesOfProgram leaves a quiet program: the ready processes have been moved,
\* and none runs because the interpreter thread is between two processes or away.
LEMMA MovedIsQuiet ==
    ASSUME ListInv, LockInv, NEW g \in Program, (SingleStopper /\ PauseInv) \/ Calm(g),
           NEW t \in Thread, PausedAll(t), ProgramAt(t) = g,
           NEW p \in Process, ProgramOf[p] = g
    PROVE  state'[p] \notin Active
<1>1. /\ pc[t] = "moving" /\ UNCHANGED state
      /\ \A i \in 1..Len(ready) : ProgramOf[ready[i]] # g
  BY Zenon DEF PausedAll, At
<1>2. state[p] # "Ready"
  BY ZenonT(40), <1>1 DEF ListInv, ReadyList, Listed
<1>3. pc[Interpreter] \in Away \cup {"moving"}
  <2>1. CASE t = Interpreter
    BY <1>1, <2>1
  <2>2. CASE t \in Freezers
    <3>1. ProgramAt(t) \in Group /\ t \in Stoppers
      BY <1>1, <2>2, Kinds DEF LockInv, FreezingGroup, ProgramAt, Stoppers
    <3> QED  BY Zenon, <1>1, <3>1 DEF PauseInv, Calm
  <2>3. CASE t \in Debugged
    <3>1. "interrupt" \in SessionOps /\ t \in Stoppers /\ ProgramAt(t) = t
      BY <1>1, <2>3, Kinds DEF LockInv, Interrupting, ProgramAt, Stoppers
    <3> QED  BY Zenon, <1>1, <2>3, <3>1 DEF PauseInv, Calm
  <2> QED  BY <1>1, <2>1, <2>2, <2>3, ProgramAtHand
<1>4. state[p] \notin {"Running", "Yielding"}
  BY <1>3, ConstantTypes DEF Away, ListInv, RunningOwned, Interpreting, Yielding
<1> QED  BY Zenon, <1>1, <1>2, <1>4 DEF Active

LEMMA QuietKeeps ==
    ASSUME ListInv, LockInv, NEW g \in Program, (SingleStopper /\ PauseInv) \/ Calm(g),
           QuietInv(g), NEW t \in Thread, GateStep(t), NEW u \in Thread, ActiveStep(u)
    PROVE  QuietInv(g)'
<1> SUFFICES ASSUME IsQuiet(g)', NEW p \in Process, ProgramOf[p] = g
             PROVE  state'[p] \notin Active
  BY DEF QuietInv
<1>1. pstate'[g] \in Stops /\ \A v \in Thread : Busy(v)' => ProgramAt(v)' # g
  BY Zenon DEF IsQuiet
<1>2. CASE IsQuiet(g)
  <2>1. \A q \in Process : ProgramOf[q] = g => state[q] \notin Active
    BY Zenon, <1>2 DEF QuietInv
  <2>2. ~(Busy(u) /\ ProgramAt(u) = g)
    BY Zenon, <1>2 DEF IsQuiet
  <2> QED  BY <1>1, <2>1, <2>2 DEF ActiveStep
<1>3. CASE ~IsQuiet(g)
  <2>1. pstate[g] \in Stops
    BY Zenon, <1>1 DEF GateStep
  <2>2. PICK v \in Thread : Busy(v) /\ ProgramAt(v) = g
    BY Zenon, <1>3, <2>1 DEF IsQuiet
  <2>3. CASE v # t
    <3>1. pc'[v] = pc[v] /\ target'[v] = target[v]
      BY Zenon, <2>3 DEF GateStep
    <3>2. Busy(v)'
      BY Zenon, <2>2, <3>1 DEF Busy
    <3>3. v = Interpreter => UNCHANGED current
      BY Zenon, <2>2, <3>1, Kinds DEF GateStep, Busy
    <3>4. ProgramAt(v)' = ProgramAt(v)
      BY Zenon, <3>1, <3>3 DEF ProgramAt
    <3> QED  BY Zenon, <1>1, <2>2, <3>2, <3>4
  <2>4. CASE v = t
    <3>1. PausedAll(t)
      BY Zenon, <1>1, <2>2, <2>4 DEF GateStep, Stops
    <3> QED  BY Zenon, <2>2, <2>4, <3>1, MovedIsQuiet
  <2> QED  BY Zenon, <2>3, <2>4
<1> QED  BY Zenon, <1>2, <1>3

StopInv ==
    /\ LockInv /\ SameProgram
    /\ SingleStopper => PauseInv
    /\ \A g \in Program : SingleStopper \/ Calm(g) => QuietInv(g)

-----------------------------------------------------------------------------
(* Nobody moves processes while the interpreter thread has one *)

\* The interpreter thread leaves its loop only after TearDown, and then no thread is in
\* FreezeProgramGroup any more.
FreezeCall == {"pausing", "freezing", "freeze", "moving"}

DownInv ==
    /\ pc[Interpreter] = "exited" => shutdown
    /\ shutdown => \A t \in Freezers : pc[t] \notin FreezeCall

DownStep(t) ==
    /\ \A u \in Thread : u # t => pc'[u] = pc[u]
    /\ \/ UNCHANGED shutdown
       \/ shutdown' /\ \A f \in Freezers : pc'[f] = "idle"
    /\ t \in Freezers /\ pc'[t] \in FreezeCall => pc[t] \in FreezeCall \/ ~shutdown
    /\ t = Interpreter /\ pc'[t] = "exited" => pc[t] = "exited" \/ shutdown

LEMMA DownStepKeeps ==
    ASSUME DownInv, NEW t \in Thread, DownStep(t)
    PROVE  DownInv'
<1>1. CASE UNCHANGED shutdown
  <2>1. pc'[Interpreter] = "exited" => shutdown'
    BY <1>1, Kinds DEF DownInv, DownStep
  <2>2. ASSUME NEW f \in Freezers, shutdown' PROVE pc'[f] \notin FreezeCall
    BY <1>1, <2>2, Kinds DEF DownInv, DownStep
  <2> QED  BY <2>1, <2>2 DEF DownInv
<1>2. CASE shutdown' /\ \A f \in Freezers : pc'[f] = "idle"
  BY <1>2 DEF DownInv, FreezeCall
<1> QED  BY <1>1, <1>2 DEF DownStep

LEMMA LoopDown ==
    ASSUME DownInv, LockInv, ListInv, InterpreterStep
    PROVE  DownStep(Interpreter)
<1> USE Kinds DEF IGoto, ControlOnly, ProcessOnly, OtherVars, ReturnNext, Goto,
        ListInv, Types, DownStep
<1>1. CASE \/ LoopTest \/ TryDequeue \/ InnerTest \/ PutBack
  BY Zenon, <1>1 DEF LoopTest, TryDequeue, InnerTest, PutBack
<1>2. CASE \/ PauseOn \/ PauseWait \/ PauseOff \/ IdleWait
  BY Zenon, <1>2 DEF PauseOn, PauseWait, PauseOff, IdleWait
<1>3. CASE \/ EnterDart \/ RunReceive \/ RunSendSelf \/ RunInterrupted \/ RunYield
  BY Zenon, <1>3 DEF EnterDart, RunReceive, RunSendSelf, RunInterrupted, RunYield
<1>4. CASE \/ YieldMailbox \/ YieldSignal \/ YieldSleep \/ YieldReady \/ TargetYield
  BY Zenon, <1>4 DEF YieldMailbox, YieldSignal, YieldSleep, YieldReady, TargetYield
<1>5. CASE \/ Reschedule \/ SessionEvent \/ Cleanup \/ DeleteTerminatedProcess
  BY Zenon, <1>5 DEF Reschedule, SessionEvent, Cleanup, HandleEventResult,
         DeleteTerminatedProcess
<1>6a. CASE AfterLoop
  BY <1>6a DEF AfterLoop
<1>6b. CASE IdleEnd
  BY Zenon, <1>6b DEF IdleEnd
<1>6c. CASE InterpretSignal
  BY Zenon, <1>6c DEF InterpretSignal, HandleEvent
<1>6d. CASE \E event \in Interruptions \cup {"Terminated"} : RunEvent(event)
  BY ZenonT(40), <1>6d DEF HandleEvent, RunEvent, Interruptions
<1>6e. CASE \E p \in Process : RunSpawn(p)
  BY <1>6e DEF RunSpawn
<1>6f. CASE \E p \in Process, outcome \in {"send", "exit_send"} : RunSend(p, outcome)
  BY ZenonT(40), <1>6f DEF RunSend
<1> HIDE DEF DownStep
<1> QED  BY ZenonT(60), <1>1, <1>2, <1>3, <1>4, <1>5, <1>6a, <1>6b, <1>6c, <1>6d, <1>6e,
         <1>6f
         DEF InterpreterStep, RunStep

LEMMA StepDown ==
    ASSUME DownInv, LockInv, ListInv, NEW t \in Thread, Step(t)
    PROVE  DownStep(t)
<1> USE Kinds DEF At, Goto, ListInv, Types, DownStep, FreezeCall
<1>1. CASE \/ Notify(t) \/ SignalProcess(t) \/ PauseProcess(t) \/ EnqueuePaused(t)
  BY Zenon, <1>1 DEF Notify, SignalProcess, PauseProcess, EnqueuePaused
<1>2. CASE \/ PausedAll(t) \/ ResumeProgram(t) \/ ResumedProgram(t)
  BY Zenon, <1>2 DEF PausedAll, ResumeProgram, CanLock, ResumedProgram
<1>3a. CASE EnqueueSafe(t)
  BY ZenonT(40), <1>3a DEF EnqueueSafe, Return
<1>3b. CASE Unlock(t)
  BY <1>3b DEF Return, Unlock
<1>3c. CASE PauseInterpreterLoop(t)
  BY Zenon, <1>3c DEF PauseInterpreterLoop, CanLock, Wait
<1>3d. ASSUME NEW p \in Process, SendSignal(t, p)
       PROVE  DownStep(t)
  BY Zenon, <1>3d DEF SendSignal
<1>4. CASE StopProgram(t)
  <2>1. t \notin Freezers
    BY Zenon, <1>4 DEF StopProgram, Labels, Points
  <2> QED  BY <1>4, <2>1 DEF StopProgram
<1> HIDE DEF DownStep
<1> QED  BY ZenonT(60), <1>1, <1>2, <1>3a, <1>3b, <1>3c, <1>3d, <1>4
         DEF Step

LEMMA FreezerDown ==
    ASSUME DownInv, LockInv, ListInv, NEW t \in Freezers,
           FreezerStep(t) \/ FreezeProgramGroup(t) \/ UnFreezeProgramGroup(t)
    PROVE  DownStep(t)
<1> USE Kinds DEF At, Goto, ListInv, Types, DownStep, FreezeCall
<1>1. CASE \/ FreezeProgram(t) \/ FreezeEnd(t) \/ Thawed(t) \/ UnFreezeEnd(t)
           \/ FreezeProgramGroup(t)
  BY Zenon, <1>1 DEF FreezeProgram, CanLock, Wait, FreezeEnd, Thawed, UnFreezeEnd,
         FreezeProgramGroup
<1>2. CASE \/ UnFreezeProgramGroup(t)
           \/ \E g \in Program : FreezeNext(t, g)
           \/ \E g \in Program : UnFreezeProgram(t, g)
  BY Zenon, <1>2 DEF UnFreezeProgramGroup, FreezeNext, Unvisited, UnFreezeProgram
<1> HIDE DEF DownStep
<1> QED  BY ZenonT(60), <1>1, <1>2
         DEF FreezerStep

LEMMA SenderDown ==
    ASSUME DownInv, LockInv, ListInv, NEW t \in Senders,
           ResumeProcess(t) \/ \E p \in Process : SendMessage(t, p)
    PROVE  DownStep(t)
<1> USE Kinds DEF At, Goto, ListInv, Types, DownStep
<1>1. CASE \/ ResumeProcess(t)
           \/ \E p \in Process : SendMessage(t, p)
  BY Zenon, <1>1 DEF ResumeProcess, SendMessage
<1> HIDE DEF DownStep
<1> QED  BY ZenonT(60), <1>1

LEMMA SessionDown ==
    ASSUME DownInv, LockInv, ListInv, NEW t \in Debugged,
           \/ SessionStep(t) \/ DebugInterrupt(t) \/ ProcessContinue(t)
           \/ SessionEnd(t) \/ SessionTerminated(t)
    PROVE  DownStep(t)
<1> USE Kinds DEF At, SessionUnchanged, Goto, ListInv, Types, DownStep
<1>1. CASE \/ Interrupted(t) \/ ContinueProcess(t) \/ ResumeExecution(t)
  BY Zenon, <1>1 DEF Interrupted, ContinueProcess, ResumeExecution
<1>2. CASE \/ DebugInterrupt(t) \/ ProcessContinue(t) \/ SessionEnd(t)
           \/ SessionTerminated(t)
  BY Zenon, <1>2 DEF DebugInterrupt, ProcessContinue, SessionEnd, KillProgram,
         SessionTerminated
<1> HIDE DEF DownStep
<1> QED  BY ZenonT(60), <1>1, <1>2
         DEF SessionStep

LEMMA RunnerDown ==
    ASSUME DownInv, LockInv, ListInv,
           TearDown \/ \E g \in Program : ScheduleProgram(g) \/ UnscheduleProgram(g)
    PROVE  DownStep(Runner)
<1> USE Kinds DEF At, Goto, ListInv, Types, DownStep
<1>1a. CASE TearDown
  BY Zenon, <1>1a DEF TearDown
<1>1b. CASE \E g \in Program : ScheduleProgram(g)
  BY ZenonT(40), <1>1b DEF ScheduleProgram
<1>1c. CASE \E g \in Program : UnscheduleProgram(g)
  BY <1>1c DEF UnscheduleProgram
<1> HIDE DEF DownStep
<1> QED  BY ZenonT(60), <1>1a, <1>1b, <1>1c

-----------------------------------------------------------------------------
(* A debug interrupt moves processes with the interpreter thread in its pause *)

\* StopProgram keeps pause_monitor_ from the moment it sees interpreter_is_paused_ until
\* it has moved the processes, and the interpreter thread needs the monitor to reset it.
MoveInv == \A g \in Debugged : pc[g] = "moving" => interpreter_is_paused

Unpauses == interpreter_is_paused /\ ~interpreter_is_paused' => lock = NULL

\* Only the end of the pause resets interpreter_is_paused_ ...
LEMMA LoopUnpauses ==
    ASSUME InterpreterStep
    PROVE  Unpauses
<1> USE DEF IGoto, ControlOnly, ProcessOnly, pauseVars, Unpauses
<1>1. CASE \/ LoopTest \/ TryDequeue \/ InnerTest \/ PutBack \/ AfterLoop
  BY Zenon, <1>1 DEF LoopTest, TryDequeue, InnerTest, PutBack, AfterLoop
<1>2. CASE \/ PauseOn \/ PauseWait \/ PauseOff \/ IdleWait \/ IdleEnd
  BY Zenon, <1>2 DEF PauseOn, PauseWait, PauseOff, IdleWait, IdleEnd
<1>3. CASE \/ InterpretSignal \/ EnterDart \/ RunReceive \/ RunSendSelf \/ RunInterrupted
           \/ RunYield
  BY Zenon, <1>3 DEF InterpretSignal, HandleEvent, EnterDart, RunReceive, RunSendSelf,
     RunInterrupted, RunYield
<1>4. CASE \/ YieldMailbox \/ YieldSignal \/ YieldSleep \/ YieldReady \/ TargetYield
  BY Zenon, <1>4 DEF YieldMailbox, YieldSignal, YieldSleep, YieldReady, TargetYield
<1>5. CASE \/ Reschedule \/ SessionEvent \/ Cleanup \/ DeleteTerminatedProcess
  BY Zenon, <1>5 DEF Reschedule, SessionEvent, Cleanup, HandleEventResult,
     DeleteTerminatedProcess
<1>6. ASSUME NEW event \in Interruptions \cup {"Terminated"}, RunEvent(event) PROVE Unpauses
  BY <1>6 DEF RunEvent, HandleEvent
<1>7. ASSUME NEW p \in Process, RunSpawn(p) PROVE Unpauses
  BY <1>7 DEF RunSpawn
<1>8. ASSUME NEW p \in Process, NEW outcome \in {"send", "exit_send"}, RunSend(p, outcome)
      PROVE  Unpauses
  BY <1>8 DEF RunSend
<1> HIDE DEF Unpauses
<1> QED  BY ZenonT(40), <1>1, <1>2, <1>3, <1>4, <1>5, <1>6, <1>7, <1>8
         DEF InterpreterStep, RunStep

\* ... and no operation that the interpreter thread shares with others does.
LEMMA StepUnpauses ==
    ASSUME NEW t \in Thread, Step(t)
    PROVE  Unpauses
<1> USE DEF pauseVars, Unpauses
<1>1. CASE \/ Notify(t) \/ EnqueueSafe(t) \/ Unlock(t) \/ SignalProcess(t)
  BY Zenon, <1>1 DEF Notify, EnqueueSafe, Unlock, SignalProcess
<1>2. ASSUME NEW p \in Process, SendSignal(t, p) PROVE Unpauses
  BY <1>2 DEF SendSignal
<1>3. CASE \/ StopProgram(t) \/ PauseInterpreterLoop(t) \/ PauseProcess(t) \/ PausedAll(t)
  BY Zenon, <1>3 DEF StopProgram, PauseInterpreterLoop, PauseProcess, PausedAll
<1>4. CASE \/ ResumeProgram(t) \/ EnqueuePaused(t) \/ ResumedProgram(t)
  BY Zenon, <1>4 DEF ResumeProgram, EnqueuePaused, ResumedProgram
<1> HIDE DEF Unpauses
<1> QED  BY Zenon, <1>1, <1>2, <1>3, <1>4 DEF Step

\* Nobody resets interpreter_is_paused_ while pause_monitor_ is held.
LEMMA NextUnpauses ==
    ASSUME PauseInv, LockInv, ListInv, [Next]_vars
    PROVE  Unpauses
<1>1. ASSUME NEW t \in Thread \ {Interpreter}, PauseStep(t) PROVE Unpauses
  BY Zenon, <1>1 DEF PauseStep, Unpauses
<1>2. ASSUME UNCHANGED vars PROVE Unpauses
  BY Zenon, <1>2 DEF vars, Unpauses
<1>3. CASE \E t \in Freezers :
              FreezerStep(t) \/ FreezeProgramGroup(t) \/ UnFreezeProgramGroup(t)
  BY Zenon, <1>1, <1>3, Kinds, FreezerPauses
<1>4. CASE \E t \in Senders : ResumeProcess(t) \/ \E p \in Process : SendMessage(t, p)
  BY Zenon, <1>1, <1>4, Kinds, SenderPauses
<1>5. CASE \E g \in Debugged :
              \/ SessionStep(g) \/ DebugInterrupt(g) \/ ProcessContinue(g)
              \/ SessionEnd(g) \/ SessionTerminated(g)
  BY Zenon, <1>1, <1>5, Kinds, SessionPauses
<1>6. CASE TearDown \/ \E g \in Program : ScheduleProgram(g) \/ UnscheduleProgram(g)
  BY Zenon, <1>1, <1>6, Kinds, RunnerPauses
<1> QED  BY ZenonT(40), <1>2, <1>3, <1>4, <1>5, <1>6, LoopUnpauses, StepUnpauses
         DEF Next, Exited

\* The interpreter thread stays in its pause while a session moves processes.
LEMMA NextMoves ==
    ASSUME MoveInv, PauseInv, LockInv, LockInv', ListInv, [Next]_vars
    PROVE  MoveInv'
<1> SUFFICES ASSUME NEW g \in Debugged, pc'[g] = "moving" PROVE interpreter_is_paused'
  BY Zenon DEF MoveInv
<1>1. PICK t \in Thread : PauseStep(t)
  BY Zenon, NextPauses
<1>2. g \in Thread /\ g # Interpreter /\ g \in Stoppers
  BY Zenon, Kinds DEF LockInv, Interrupting, Stoppers
<1>3. CASE pc[g] = "moving"
  <2>1. interpreter_is_paused
    BY Zenon, <1>3 DEF MoveInv
  <2>2. lock = g
    BY Zenon, <1>2, <1>3 DEF LockInv, Holds, Holding
  <2>3. lock # NULL
    BY <1>2, <2>2, SchedulerConstants
  <2> QED  BY Zenon, <2>1, <2>3, NextUnpauses DEF Unpauses
<1>4. CASE pc[g] # "moving"
  <2>1. t = g
    BY Zenon, <1>1, <1>2, <1>4 DEF PauseStep
  <2>2. pc[g] \notin {"freezing", "freeze"}
    BY <1>2, Kinds DEF ListInv, Labels, Points
  <2> QED  BY Zenon, <1>1, <1>2, <1>4, <2>1, <2>2 DEF PauseStep
<1> QED  BY Zenon, <1>3, <1>4
=============================================================================
