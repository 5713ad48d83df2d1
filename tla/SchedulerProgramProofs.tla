----------------------- MODULE SchedulerProgramProofs -----------------------
(***************************************************************************)
(* The life of a program that nobody stops from outside, for any number of *)
(* programs, processes and threads: it changes state only along the        *)
(* documented transitions and is done exactly when its last process is.    *)
(***************************************************************************)
EXTENDS SchedulerInvariant

USE SMTT(20), ZenonT(20) DEF programVars, processVars, pauseVars, monitorVars, spinVars,
        threadVars, interpVars, sessionVars

-----------------------------------------------------------------------------
(* Who holds a program in kSession *)

\* The session, from the event that stopped the program until it has resumed it; the
\* interpreter thread, while it handles an event of its current process.
SessionHolds(h) == h \in Debugged /\ (session[h] = "Paused" \/ pc[h] # "idle")

InterpreterHolds(h) ==
    pc[Interpreter] \in {"moving", "event", "resume", "resuming"} /\ ProgramOf[current] = h

Held(h) == SessionHolds(h) \/ InterpreterHolds(h)

\* A calm program is in kSession exactly while one of them holds it.
HoldInv(h) ==
    /\ pstate[h] = "Session" <=> Held(h)
    /\ ~(SessionHolds(h) /\ InterpreterHolds(h))
    /\ h \in Debugged /\ pc[h] # "idle" => session[h] # "Paused"
    /\ pstate[h] # "Frozen"

\* What a step does to it: it stays with its holder or is handed over, it is stopped by
\* the interpreter thread or resumed by its holder, or it begins or ends while nobody
\* holds it.
HoldStep(h) ==
    /\ h \in Debugged /\ pc'[h] # "idle" => session'[h] # "Paused"
    /\ \/ /\ pstate'[h] = pstate[h]
          /\ Held(h)' <=> Held(h)
          /\ ~(SessionHolds(h)' /\ InterpreterHolds(h)')
       \/ /\ pstate[h] = "Running" /\ pstate'[h] = "Session"
          /\ InterpreterHolds(h)' /\ ~SessionHolds(h)'
       \/ /\ \/ pstate[h] = "Session" /\ pstate'[h] = "Running"
             \/ pstate[h] = "Initialized" /\ pstate'[h] = "Running"
             \/ pstate[h] = "Running" /\ pstate'[h] = "Done"
             \/ pstate[h] = "Done" /\ pstate'[h] = "PendingDeletion"
          /\ ~Held(h)'

LEMMA HoldStepKeeps ==
    ASSUME NEW h, HoldInv(h), HoldStep(h)
    PROVE  HoldInv(h)'
BY DEF HoldInv, HoldStep, Held

\* No other thread stops a calm program.
LEMMA CalmIsLeftAlone ==
    ASSUME LockInv, ListInv, NEW h \in Program, Calm(h), NEW t \in Thread, t # Interpreter,
           pc[t] = "stop"
    PROVE  t \in Debugged /\ t # h /\ ProgramAt(t) = t
<1>1. t \in Debugged /\ ProgramAt(t) = t
  BY Kinds DEF ListInv, Labels, Points, ProgramAt
<1> QED  BY <1>1 DEF LockInv, Interrupting, Calm

LEMMA LoopHolds ==
    ASSUME NEW h \in Program, Calm(h), HoldInv(h), SameProgram, LockInv, ListInv,
           InterpreterStep,
           ~DeleteTerminatedProcess
    PROVE  HoldStep(h)
<1> USE Kinds DEF IGoto, ControlOnly, ProcessOnly, OtherVars, ReturnNext, Goto,
        ListInv, Types, HoldStep, HoldInv, Held, SessionHolds, InterpreterHolds
<1>1. CASE \/ LoopTest \/ TryDequeue \/ InnerTest \/ PutBack \/ AfterLoop
  BY <1>1 DEF LoopTest, TryDequeue, InnerTest, PutBack, AfterLoop
<1>2. CASE \/ PauseOn \/ PauseWait \/ PauseOff \/ IdleWait \/ IdleEnd
  BY <1>2 DEF PauseOn, PauseWait, PauseOff, IdleWait, IdleEnd
<1>3. CASE \/ InterpretSignal \/ EnterDart \/ RunReceive \/ RunSendSelf
           \/ RunInterrupted
  BY <1>3 DEF InterpretSignal, HandleEvent, EnterDart, RunReceive, RunSendSelf,
         RunInterrupted
<1>4a. CASE RunYield
  BY <1>4a DEF RunYield
<1>4b. CASE YieldMailbox
  BY <1>4b DEF YieldMailbox
<1>4c. CASE YieldSignal
  BY <1>4c DEF YieldSignal
<1>4d. CASE YieldSleep
  BY <1>4d DEF YieldSleep
<1>4e. CASE YieldReady
  BY Zenon, <1>4e DEF YieldReady
<1>5. CASE \/ TargetYield \/ Reschedule \/ Cleanup
           \/ \E event \in Interruptions \cup {"Terminated"} : RunEvent(event)
           \/ \E p \in Process : RunSpawn(p)
           \/ \E p \in Process, outcome \in {"send", "exit_send"} : RunSend(p, outcome)
  BY ZenonT(40), <1>5 DEF TargetYield, Reschedule, Cleanup, HandleEventResult, RunEvent,
         HandleEvent, Interruptions, RunSpawn, RunSend
<1>6. CASE SessionEvent
  <2>1. /\ pc[Interpreter] = "event" /\ ProgramOf[current] \in Debugged
        /\ pc[ProgramOf[current]] = "idle" /\ UNCHANGED <<pstate, current>>
    BY <1>6 DEF SessionEvent, At, SameProgram, Handling
  <2>2. /\ \A u \in Thread : u # Interpreter => pc'[u] = pc[u]
        /\ \A u \in Debugged : u # ProgramOf[current] => session'[u] = session[u]
        /\ \/ /\ pc'[Interpreter] = "loop" /\ session'[ProgramOf[current]] = "Paused"
           \/ /\ pc'[Interpreter] = "resume"
              /\ session'[ProgramOf[current]] = session[ProgramOf[current]]
    BY <1>6, <2>1 DEF SessionEvent
  <2> QED  BY <2>1, <2>2
<1> HIDE DEF HoldStep
<1> QED  BY ZenonT(60), <1>1, <1>2, <1>3, <1>4a, <1>4b, <1>4c, <1>4d, <1>4e, <1>5, <1>6
         DEF InterpreterStep, RunStep

\* A step of thread t in the middle of what it does about a process.
Passing(t) ==
    /\ UNCHANGED <<pstate, session, current>>
    /\ \A u \in Thread : u # t => pc'[u] = pc[u]
    /\ t = Interpreter => /\ pc[t] \notin {"moving", "event", "resume", "resuming"}
                          /\ pc'[t] \notin {"moving", "event", "resume", "resuming"}
    /\ t \in Debugged => pc[t] # "idle" /\ pc'[t] # "idle"

LEMMA PassingHolds ==
    ASSUME NEW h \in Program, HoldInv(h), NEW t \in Thread, Passing(t)
    PROVE  HoldStep(h)
<1>1. InterpreterHolds(h)' <=> InterpreterHolds(h)
  BY Zenon, Kinds DEF Passing, InterpreterHolds
<1>2. SessionHolds(h)' <=> SessionHolds(h)
  BY Zenon, Kinds DEF Passing, SessionHolds
<1>3. h \in Debugged /\ pc'[h] # "idle" => session'[h] # "Paused"
  BY Zenon, Kinds DEF Passing, HoldInv
<1> QED  BY Zenon, <1>1, <1>2, <1>3 DEF Passing, HoldStep, HoldInv, Held

LEMMA StepHolds ==
    ASSUME NEW h \in Program, Calm(h), HoldInv(h), SameProgram, LockInv, ListInv, NEW t \in Thread,
           Step(t)
    PROVE  HoldStep(h)
<1>0. pc \in [Thread -> InterpreterPC \cup ThreadPC] /\ pstate \in [Program -> ProgramStates]
  BY Zenon DEF ListInv, Types
<1>10. ASSUME StopProgram(t), t # Interpreter, ProgramAt(t) # h
      PROVE  /\ pstate'[h] = pstate[h] /\ UNCHANGED <<session, current>>
             /\ \A u \in Thread : u # t => pc'[u] = pc[u]
  BY <1>0, <1>10 DEF StopProgram, Goto
<1>11. ASSUME EnqueueSafe(t) \/ Unlock(t) PROVE Passing(t)
  BY <1>0, <1>11, Kinds DEF EnqueueSafe, Unlock, Return, At, Goto, Passing
<1>12. ASSUME SignalProcess(t) PROVE Passing(t)
  BY <1>0, <1>12, Kinds DEF SignalProcess, At, Goto, Passing
<1>13. ASSUME StopProgram(t), t = Interpreter
      PROVE  /\ pc[t] = "stop" /\ UNCHANGED <<session, current>>
             /\ \A u \in Thread : u # t => pc'[u] = pc[u]
             /\ \/ UNCHANGED <<pstate, pc>>
                \/ /\ pstate[ProgramAt(t)] = "Running" /\ pc'[t] = "moving"
                   /\ pstate' = [pstate EXCEPT ![ProgramAt(t)] = "Session"]
  BY <1>0, <1>13 DEF StopProgram, At, Goto
<1> USE Kinds, ProgramAtHand DEF At, Goto, ListInv, Types, HoldStep, HoldInv, Held,
        SessionHolds, InterpreterHolds, Labels, Points, InterpreterPC, LockInv,
        Interrupting, Calm, ProgramAt
<1>1a. CASE Notify(t)
  BY Zenon, <1>1a DEF Notify
<1>1b. CASE EnqueueSafe(t)
  BY Zenon, <1>1b, <1>11, PassingHolds
<1>1c. CASE Unlock(t)
  BY Zenon, <1>1c, <1>11, PassingHolds
<1>2a. CASE SignalProcess(t)
  BY Zenon, <1>2a, <1>12, PassingHolds
<1>2b. CASE PauseInterpreterLoop(t)
  BY <1>2b DEF PauseInterpreterLoop, CanLock, Wait
<1>2c. CASE PauseProcess(t)
  BY Zenon, <1>2c DEF PauseProcess
<1>3. CASE StopProgram(t)
  <2>1. CASE t = Interpreter
    <3>1. ProgramAt(t) \in Program
      BY Zenon, <1>3, <1>13, <2>1
    <3>2. CASE UNCHANGED <<pstate, pc>>
      BY Zenon, <1>3, <1>13, <2>1, <3>2
    <3> HIDE DEF ListInv, Types, LockInv, Labels, Points, InterpreterPC
    <3>3. CASE ~UNCHANGED <<pstate, pc>>
      BY <1>0, <1>3, <1>13, <2>1, <3>1, <3>3
    <3> QED  BY Zenon, <3>2, <3>3
  <2>2. CASE t # Interpreter
    <3>1. t \in Debugged /\ t # h /\ ProgramAt(t) = t
      BY Zenon, <1>3, <2>2, CalmIsLeftAlone DEF StopProgram
    <3>2. /\ pstate'[h] = pstate[h] /\ UNCHANGED <<session, current>>
          /\ \A u \in Thread : u # t => pc'[u] = pc[u]
      BY ZenonT(40), <1>3, <1>10, <2>2, <3>1
    <3> QED  BY Zenon, <2>2, <3>1, <3>2
  <2> QED  BY Zenon, <2>1, <2>2
<1>4. CASE \/ PausedAll(t) \/ ResumeProgram(t) \/ EnqueuePaused(t)
  BY ZenonT(40), <1>4 DEF PausedAll, ResumeProgram, CanLock, EnqueuePaused
<1>5. CASE ResumedProgram(t)
  <2>1. /\ ProgramAt(t) \in Program /\ pstate'[ProgramAt(t)] = "Running"
        /\ \A g \in Program : g # ProgramAt(t) => pstate'[g] = pstate[g]
    BY ZenonT(40), <1>5 DEF ResumedProgram
  <2>2. /\ pc[t] = "resuming" /\ UNCHANGED <<session, current>>
        /\ pc'[t] = IF t = Interpreter THEN "result" ELSE "idle"
        /\ \A u \in Thread : u # t => pc'[u] = pc[u]
    BY Zenon, <1>5 DEF ResumedProgram
  <2>3. t = Interpreter \/ t \in Debugged
    BY Zenon, <2>2
  <2> HIDE DEF ListInv, Types, LockInv
  <2>4. CASE t = Interpreter
    BY <2>1, <2>2, <2>4
  <2>5. CASE t # Interpreter
    BY ZenonT(40), <2>1, <2>2, <2>3, <2>5
  <2> QED  BY ZenonT(40), <2>4, <2>5
<1>6. ASSUME NEW p \in Process, SendSignal(t, p)
      PROVE  HoldStep(h)
  BY ZenonT(40), <1>6 DEF SendSignal
<1> HIDE DEF HoldStep
<1> QED  BY ZenonT(60), <1>1a, <1>1b, <1>1c, <1>2a, <1>2b, <1>2c, <1>3, <1>4, <1>5, <1>6
         DEF Step

LEMMA FreezerHolds ==
    ASSUME NEW h \in Program, Calm(h), HoldInv(h), SameProgram, LockInv, ListInv, NEW t \in Freezers,
           FreezerStep(t) \/ FreezeProgramGroup(t) \/ UnFreezeProgramGroup(t)
    PROVE  HoldStep(h)
<1> USE Kinds DEF At, Goto, ListInv, Types, HoldStep, HoldInv, Held, SessionHolds,
        InterpreterHolds, LockInv, FreezingGroup, Calm
<1>1a. CASE FreezeProgram(t)
  BY ZenonT(40), <1>1a DEF FreezeProgram, CanLock, Wait
<1>1b. CASE FreezeEnd(t)
  BY Zenon, <1>1b DEF FreezeEnd
<1>1c. CASE Thawed(t)
  BY ZenonT(40), <1>1c DEF Thawed
<1>2. CASE \/ UnFreezeEnd(t) \/ FreezeProgramGroup(t) \/ UnFreezeProgramGroup(t)
  BY Zenon, <1>2 DEF UnFreezeEnd, FreezeProgramGroup, UnFreezeProgramGroup
<1>3a. CASE \E g \in Program : FreezeNext(t, g)
  BY ZenonT(40), <1>3a DEF FreezeNext, Unvisited
<1>3b. ASSUME NEW g \in Program, UnFreezeProgram(t, g)
       PROVE  HoldStep(h)
  BY Zenon, <1>3b DEF Unvisited, UnFreezeProgram
<1> HIDE DEF HoldStep
<1> QED  BY ZenonT(60), <1>1a, <1>1b, <1>1c, <1>2, <1>3a, <1>3b
         DEF FreezerStep

LEMMA SenderHolds ==
    ASSUME NEW h \in Program, Calm(h), HoldInv(h), SameProgram, LockInv, ListInv, NEW t \in Senders,
           ResumeProcess(t) \/ \E p \in Process : SendMessage(t, p)
    PROVE  HoldStep(h)
<1>0. pc \in [Thread -> InterpreterPC \cup ThreadPC]
  BY Zenon DEF ListInv, Types
<1>3. ASSUME NEW p \in Process, SendMessage(t, p)
      PROVE  UNCHANGED <<pstate, session, current>> /\ \A u \in Thread : u # t => pc'[u] = pc[u]
  BY Zenon, <1>0, <1>3 DEF SendMessage, Goto
<1> USE Kinds DEF At, Goto, ListInv, Types, HoldStep, HoldInv, Held, SessionHolds,
        InterpreterHolds
<1>1. CASE ResumeProcess(t)
  BY Zenon, <1>1 DEF ResumeProcess
<1>2. ASSUME NEW p \in Process, SendMessage(t, p)
      PROVE  HoldStep(h)
  <2>1. UNCHANGED <<pstate, session, current>> /\ \A u \in Thread : u # t => pc'[u] = pc[u]
    BY Zenon, <1>2, <1>3
  <2> QED  BY Zenon, <2>1
<1> HIDE DEF HoldStep
<1> QED  BY ZenonT(60), <1>1, <1>2

LEMMA SessionHoldsIt ==
    ASSUME NEW h \in Program, Calm(h), HoldInv(h), SameProgram, LockInv, ListInv, NEW t \in Debugged,
           \/ SessionStep(t) \/ DebugInterrupt(t) \/ ProcessContinue(t)
           \/ SessionEnd(t) \/ SessionTerminated(t)
    PROVE  HoldStep(h)
<1> USE Kinds DEF At, SessionUnchanged, Goto, ListInv, Types, HoldStep, HoldInv, Held,
        SessionHolds, InterpreterHolds, Calm, LockInv, Interrupting
<1>1. CASE \/ Interrupted(t) \/ ContinueProcess(t) \/ ResumeExecution(t)
           \/ DebugInterrupt(t) \/ ProcessContinue(t)
  BY ZenonT(40), <1>1 DEF Interrupted, ContinueProcess, ResumeExecution, DebugInterrupt,
         ProcessContinue
<1>2. CASE \/ SessionEnd(t) \/ SessionTerminated(t)
  BY ZenonT(40), <1>2 DEF SessionEnd, KillProgram, SessionTerminated
<1> HIDE DEF HoldStep
<1> QED  BY ZenonT(60), <1>1, <1>2
         DEF SessionStep

LEMMA RunnerHolds ==
    ASSUME NEW h \in Program, Calm(h), HoldInv(h), SameProgram, LockInv, ListInv,
           TearDown \/ \E g \in Program : ScheduleProgram(g)
    PROVE  HoldStep(h)
<1>0. pc \in [Thread -> InterpreterPC \cup ThreadPC]
  BY Zenon DEF ListInv, Types
<1>3. ASSUME NEW g \in Program, ScheduleProgram(g)
      PROVE  /\ pc'[Interpreter] = pc[Interpreter] /\ UNCHANGED <<current, session>>
             /\ \A u \in Debugged : pc'[u] = pc[u]
  BY <1>0, <1>3, Kinds DEF ScheduleProgram, Goto
<1> USE Kinds DEF At, Goto, ListInv, Types, HoldStep, HoldInv, Held, SessionHolds,
        InterpreterHolds, Scheduled
<1>1. ASSUME NEW g \in Program, ScheduleProgram(g)
      PROVE  HoldStep(h)
  <2>1. /\ pc'[Interpreter] = pc[Interpreter] /\ UNCHANGED <<current, session>>
        /\ \A u \in Debugged : pc'[u] = pc[u]
    BY Zenon, <1>1, <1>3
  <2>2. \/ pstate'[h] = pstate[h]
        \/ pstate[h] = "Initialized" /\ pstate'[h] = "Running"
    BY Zenon, <1>1 DEF ScheduleProgram
  <2> QED  BY Zenon, <2>1, <2>2
<1>2. CASE TearDown
  BY Zenon, <1>2 DEF TearDown
<1> HIDE DEF HoldStep
<1> QED  BY ZenonT(60), <1>1, <1>2

-----------------------------------------------------------------------------
(* How processes and programs end *)

\* The current process is dead but not deleted yet; it is on its way there.
Gone == {"next", "signal", "safe"}

Exiting == Gone \cup {"result"}

\* What most steps do about the life of processes: nothing.
SameLife(h) ==
    /\ \A p \in Process : Exists(p)' <=> Exists(p)
    /\ UNCHANGED <<processes, exits>>
    /\ pc'[Interpreter] \in Gone <=> pc[Interpreter] \in Gone
    /\ pc'[Interpreter] \in Gone => UNCHANGED current
    /\ pstate'[h] = "Initialized" <=> pstate[h] = "Initialized"

\* How the interpreter thread gets to the end of a process: its program has no session,
\* it has resumed the program first, or the process hands over to another one.
Ends ==
    pc'[Interpreter] \in Exiting =>
        /\ UNCHANGED current
        /\ \/ pc[Interpreter] \in Exiting
           \/ pc[Interpreter] \in {"interpret", "run"} /\ ProgramOf[current] \notin Debugged
           \/ pc[Interpreter] = "resuming" /\ pstate'[ProgramOf[current]] = "Running"
           \/ pc[Interpreter] = "target_exit"

\* A session that is resuming its program goes on; only DeleteTerminatedProcess makes
\* a program done.
Goes(h) ==
    /\ h \in Debugged /\ pc[h] = "resuming" => pc'[h] = "resuming" \/ pstate'[h] = "Running"
    /\ pstate'[h] = "Done" => pstate[h] = "Done"

LifeStep(h) == SameLife(h) /\ Ends /\ Goes(h)

LEMMA LoopLives ==
    ASSUME NEW h \in Program, ListInv, InterpreterStep, ~Cleanup, ~DeleteTerminatedProcess,
           \A p \in Process : ~RunSpawn(p)
    PROVE  LifeStep(h)
<1> USE Kinds DEF IGoto, ControlOnly, ProcessOnly, OtherVars, ReturnNext, Goto,
        ListInv, Types, LifeStep, SameLife, Ends, Goes, Exists, Gone, Exiting
<1>1. CASE \/ LoopTest \/ InnerTest \/ AfterLoop \/ PauseOn \/ PauseWait
  BY Zenon, <1>1 DEF LoopTest, InnerTest, AfterLoop, PauseOn, PauseWait
<1>2. CASE TryDequeue
  <2>1. ready # <<>> => Head(ready) \in Process /\ state[Head(ready)] = "Ready"
    BY DEF ReadyList, Listed
  <2> QED  BY Zenon, <1>2, <2>1 DEF TryDequeue
<1>3. CASE PutBack
  <2>1. current \in Process /\ state[current] \in {"Running", "Yielding"}
    BY Zenon, <1>3 DEF PutBack, RunningOwned, Interpreting, Yielding
  <2> QED  BY Zenon, <1>3, <2>1 DEF PutBack, Enqueue
<1>4. CASE \/ PauseOff \/ IdleWait \/ IdleEnd \/ EnterDart \/ RunReceive
  BY Zenon, <1>4 DEF PauseOff, IdleWait, IdleEnd, EnterDart, RunReceive
<1>5. CASE InterpretSignal
  <2>1. current \in Process /\ state[current] \in {"Running", "Yielding"}
    BY ZenonT(40), <1>5 DEF InterpretSignal, RunningOwned, Interpreting, Yielding
  <2> QED  BY Zenon, <1>5, <2>1 DEF InterpretSignal, HandleEvent
<1>6a. CASE RunSendSelf
  BY ZenonT(40), <1>6a DEF RunSendSelf
<1>6b. CASE YieldMailbox
  BY ZenonT(40), <1>6b DEF YieldMailbox
<1>6c. CASE YieldSignal
  BY Zenon, <1>6c DEF YieldSignal
<1>6d. CASE SessionEvent
  BY Zenon, <1>6d DEF SessionEvent
<1>6e. CASE \E p \in Process, outcome \in {"send", "exit_send"} : RunSend(p, outcome)
  BY <1>6e DEF RunSend
<1>7. CASE RunInterrupted
  <2>1. current \in Process /\ state[current] \in {"Running", "Yielding"}
    BY <1>7 DEF RunInterrupted, RunningOwned, Interpreting, Yielding
  <2> QED  BY <1>7, <2>1 DEF RunInterrupted, Enqueue
<1>8. CASE RunYield
  <2>1. current \in Process /\ state[current] \in {"Running", "Yielding"}
    BY <1>8 DEF RunYield, RunningOwned, Interpreting, Yielding
  <2> QED  BY <1>8, <2>1 DEF RunYield
<1>9. CASE YieldSleep
  <2>1. current \in Process /\ state[current] \in {"Running", "Yielding"}
    BY <1>9 DEF YieldSleep, RunningOwned, Interpreting, Yielding
  <2> QED  BY <1>9, <2>1 DEF YieldSleep
<1>10. CASE YieldReady
  <2>1. current \in Process /\ state[current] \in {"Running", "Yielding"}
    BY Zenon, <1>10 DEF YieldReady, RunningOwned, Interpreting, Yielding
  <2> QED  BY <1>10, <2>1 DEF YieldReady, Enqueue
<1>11. CASE TargetYield
  <2>1. \A i \in 1..Len(ready) : state[ready[i]] = "Ready"
    BY DEF ReadyList, Listed
  <2>2. target[Interpreter] \in Process
    BY ZenonT(40), <1>11 DEF TargetYield, Scheduled
  <2> QED  BY Zenon, <1>11, <2>1, <2>2 DEF TargetYield
<1>12. CASE Reschedule
  <2>1. current \in Process /\ state[current] \in {"Running", "Yielding"}
    BY Zenon, <1>12 DEF Reschedule, RunningOwned, Interpreting, Yielding
  <2> QED  BY Zenon, <1>12, <2>1 DEF Reschedule, Enqueue
<1>13. ASSUME NEW event \in Interruptions \cup {"Terminated"}, RunEvent(event)
      PROVE  LifeStep(h)
  <2>1. current \in Process /\ state[current] \in {"Running", "Yielding"}
    BY <1>13 DEF RunEvent, RunningOwned, Interpreting, Yielding
  <2> QED  BY <1>13, <2>1 DEF RunEvent, HandleEvent, Interruptions
<1> HIDE DEF LifeStep
<1> QED  BY ZenonT(60), <1>1, <1>2, <1>3, <1>4, <1>5, <1>6a, <1>6b, <1>6c, <1>6d, <1>6e,
         <1>7, <1>8, <1>9, <1>10,
          <1>11, <1>12, <1>13
         DEF InterpreterStep, RunStep

LEMMA StepLives ==
    ASSUME NEW h \in Program, ListInv, NEW t \in Thread, Step(t)
    PROVE  LifeStep(h)
<1>0. /\ pc \in [Thread -> InterpreterPC \cup ThreadPC]
      /\ state \in [Process -> ProcessStates] /\ pstate \in [Program -> ProgramStates]
  BY Zenon DEF ListInv, Types
<1>10. ASSUME EnqueueSafe(t)
       PROVE  /\ UNCHANGED <<pstate, processes, exits, current>>
              /\ pc[t] = "safe" /\ pc'[t] \in {"unlock", Return(t)}
              /\ \A u \in Thread : u # t => pc'[u] = pc[u]
              /\ state' = state \/ state' = [state EXCEPT ![target[t]] = "Ready"]
              /\ t = Interpreter => pc'[t] = Return(t)
  BY <1>0, <1>10 DEF EnqueueSafe, Enqueue, At, Goto
<1> USE Kinds DEF At, Goto, ListInv, Types, LifeStep, SameLife, Ends, Goes, Exists,
        Gone, Exiting
<1>1. CASE Notify(t)
  BY ZenonT(40), <1>1 DEF Notify
<1>8. CASE EnqueueSafe(t)
  <2>1. target[t] \in Process /\ state[target[t]] \notin {"New", "Dead"}
    BY Zenon, <1>8, <1>10 DEF EnqueuingOwned
  <2> HIDE DEF ListInv, Types
  <2>2. \A p \in Process : Exists(p)' <=> Exists(p)
    BY <1>0, <1>8, <1>10, <2>1
  <2> HIDE DEF Exists
  <2>3. SameLife(h)
    BY Zenon, <1>8, <1>10, <2>2 DEF Return
  <2>4. Ends /\ Goes(h)
    BY Zenon, <1>8, <1>10 DEF Return
  <2> QED  BY Zenon, <2>3, <2>4
<1>9. CASE SignalProcess(t)
  BY ZenonT(40), <1>9 DEF SignalProcess, Scheduled
<1>2. CASE Unlock(t)
  <2>1. t # Interpreter
    BY Zenon, <1>2 DEF Unlock, Labels, Points, InterpreterPC
  <2> QED  BY Zenon, <1>2, <2>1 DEF Unlock, Return
<1>3. CASE StopProgram(t)
  BY <1>3, ProgramAtHand DEF StopProgram, CanLock, Wait
<1>4a. CASE PauseInterpreterLoop(t)
  BY <1>4a DEF PauseInterpreterLoop, CanLock, Wait
<1>4b. CASE PausedAll(t)
  BY <1>4b DEF PausedAll
<1>4c. CASE ResumeProgram(t)
  BY Zenon, <1>4c DEF CanLock, ResumeProgram
<1>4d. CASE \E p \in Process : SendSignal(t, p)
  BY <1>4d DEF SendSignal
<1>5. CASE PauseProcess(t)
  <2>1. \A i \in 1..Len(ready) : state[ready[i]] = "Ready"
    BY DEF ReadyList, Listed
  <2> QED  BY ZenonT(40), <1>5, <2>1 DEF PauseProcess
<1>6. CASE EnqueuePaused(t)
  <2>1. ProgramAt(t) \in Program
    BY Zenon, <1>6, ProgramAtHand DEF EnqueuePaused
  <2>2. state[Head(paused[ProgramAt(t)])] = "Enqueuing"
    <3>1. /\ paused[ProgramAt(t)] \in Seq(Process) /\ paused[ProgramAt(t)] # <<>>
          /\ Distinct(paused[ProgramAt(t)])
      BY Zenon, <1>6, <2>1 DEF EnqueuePaused, PausedLists
    <3>2. Head(paused[ProgramAt(t)]) \in Process
          /\ Listed(paused[ProgramAt(t)], Head(paused[ProgramAt(t)]))
      BY Zenon, <3>1, TailList
    <3> QED  BY Zenon, <2>1, <3>2 DEF PausedLists
  <2> QED  BY Zenon, <1>6, <2>1, <2>2 DEF EnqueuePaused, Enqueue
<1>7. CASE ResumedProgram(t)
  <2>1. /\ ProgramAt(t) \in Program /\ pstate' = [pstate EXCEPT ![ProgramAt(t)] = "Running"]
        /\ pc[t] = "resuming" /\ UNCHANGED <<state, processes, exits, current>>
    BY <1>7, ProgramAtHand DEF ResumedProgram
  <2>2. CASE t = Interpreter
    <3>1. pstate[ProgramAt(t)] # "Initialized" /\ ProgramAt(t) = ProgramOf[current]
      BY Zenon, <2>1, <2>2 DEF Scheduled, ProgramAt, CurrentAt, Handling, Interruptions
    <3> QED  BY <1>7, <2>1, <2>2, <3>1 DEF ResumedProgram
  <2>3. CASE t # Interpreter
    <3>1. t \in Debugged /\ ProgramAt(t) = t /\ pstate[t] # "Initialized"
      BY Zenon, <2>1, <2>3, ProgramAtHand DEF Labels, Points, Scheduled
    <3> QED  BY <1>7, <2>1, <2>3, <3>1 DEF ResumedProgram
  <2> QED  BY <2>2, <2>3
<1> HIDE DEF LifeStep
<1> QED  BY ZenonT(60), <1>1, <1>2, <1>3, <1>4a, <1>4b, <1>4c, <1>4d, <1>5, <1>6, <1>7,
         <1>8, <1>9
         DEF Step

LEMMA FreezerLives ==
    ASSUME NEW h \in Program, ListInv, NEW t \in Freezers,
           FreezerStep(t) \/ FreezeProgramGroup(t) \/ UnFreezeProgramGroup(t)
    PROVE  LifeStep(h)
<1> USE Kinds DEF At, Goto, ListInv, Types, LifeStep, SameLife, Ends, Goes, Exists,
        Gone, Exiting, FreezersAt
<1>1. CASE \/ FreezeProgram(t) \/ FreezeEnd(t) \/ Thawed(t) \/ UnFreezeEnd(t)
           \/ FreezeProgramGroup(t)
  BY ZenonT(40), <1>1 DEF FreezeProgram, CanLock, Wait, FreezeEnd, Thawed, UnFreezeEnd,
         FreezeProgramGroup
<1>2a. CASE UnFreezeProgramGroup(t)
  BY Zenon, <1>2a DEF UnFreezeProgramGroup
<1>2b. CASE \E g \in Program : FreezeNext(t, g)
  BY Zenon, <1>2b DEF FreezeNext, Unvisited
<1>2c. ASSUME NEW g \in Program, UnFreezeProgram(t, g)
       PROVE  LifeStep(h)
  BY Zenon, <1>2c DEF Unvisited, UnFreezeProgram
<1> HIDE DEF LifeStep
<1> QED  BY ZenonT(60), <1>1, <1>2a, <1>2b, <1>2c
         DEF FreezerStep

LEMMA SenderLives ==
    ASSUME NEW h \in Program, ListInv, NEW t \in Senders,
           ResumeProcess(t) \/ \E p \in Process : SendMessage(t, p)
    PROVE  LifeStep(h)
<1> USE Kinds DEF At, Goto, ListInv, Types, LifeStep, SameLife, Ends, Goes, Exists,
        Gone, Exiting
<1>1. CASE \/ ResumeProcess(t)
           \/ \E p \in Process : SendMessage(t, p)
  BY ZenonT(40), <1>1 DEF ResumeProcess, SendMessage
<1> HIDE DEF LifeStep
<1> QED  BY ZenonT(60), <1>1

LEMMA SessionLives ==
    ASSUME NEW h \in Program, ListInv, NEW t \in Debugged,
           \/ SessionStep(t) \/ DebugInterrupt(t) \/ ProcessContinue(t)
           \/ SessionEnd(t) \/ SessionTerminated(t)
    PROVE  LifeStep(h)
<1> USE Kinds DEF At, SessionUnchanged, Goto, ListInv, Types, LifeStep, SameLife, Ends,
        Goes, Exists, Gone, Exiting, Interruptions
<1>1a. CASE Interrupted(t)
  BY Zenon, <1>1a DEF Interrupted
<1>1b. CASE ContinueProcess(t)
  BY Zenon, <1>1b DEF ContinueProcess
<1>1c. CASE ResumeExecution(t)
  BY Zenon, <1>1c DEF ResumeExecution
<1>1d. CASE DebugInterrupt(t)
  BY ZenonT(40), <1>1d DEF DebugInterrupt
<1>1e. CASE ProcessContinue(t)
  BY Zenon, <1>1e DEF ProcessContinue
<1>2. CASE \/ SessionEnd(t) \/ SessionTerminated(t)
  BY Zenon, <1>2 DEF SessionEnd, KillProgram, SessionTerminated
<1> HIDE DEF LifeStep
<1> QED  BY ZenonT(60), <1>1a, <1>1b, <1>1c, <1>1d, <1>1e, <1>2
         DEF SessionStep

LEMMA RunnerLives ==
    ASSUME NEW h \in Program, ListInv,
           TearDown
    PROVE  LifeStep(h)
<1> USE Kinds DEF At, Goto, ListInv, Types, LifeStep, SameLife, Ends, Goes, Exists,
        Gone, Exiting
<1>1. CASE TearDown
  BY Zenon, <1>1 DEF TearDown
<1> HIDE DEF LifeStep
<1> QED  BY ZenonT(60), <1>1

-----------------------------------------------------------------------------
(* The processes of a program that nobody stops from outside *)

\* When the current process ends, its program is running, or its session is just resuming
\* it while another process of it exists.
Leaving(h) ==
    \/ pstate[h] = "Running"
    \/ /\ pstate[h] = "Session" /\ h \in Debugged /\ pc[h] = "resuming"
       /\ \E q \in Process : q # current /\ ProgramOf[q] = h /\ Exists(q)

ExitInv(h) == pc[Interpreter] \in Exiting /\ ProgramOf[current] = h => Leaving(h)

\* The processes that processes_ counts: those that exist, and the dead one that
\* DeleteTerminatedProcess has not taken off yet.
Alive(h) ==
    {p \in Process : /\ pstate[h] # "Initialized"
                     /\ ProgramOf[p] = h
                     /\ Exists(p) \/ (p = current /\ pc[Interpreter] \in Gone)}

CountInv(h) ==
    /\ processes \in [Program -> Int] /\ exits \in [Program -> Int]
    /\ IsFiniteSet(Alive(h))
    /\ processes[h] = Cardinality(Alive(h))
    /\ pstate[h] = "Initialized" =>
          \A p \in Process : ProgramOf[p] = h /\ Exists(p) => p = Main[h]
    /\ exits[h] = IF pstate[h] \in {"Done", "PendingDeletion"} THEN 1 ELSE 0
    /\ exits[h] = 1 => \A p \in Process : ProgramOf[p] = h => ~Exists(p)

CalmInv(h) == HoldInv(h) /\ ExitInv(h) /\ CountInv(h)

\* A step that neither counts nor uncounts a process of program h.
LEMMA SameCount ==
    ASSUME NEW h \in Program, CountInv(h), Alive(h)' = Alive(h),
           processes' \in [Program -> Int], exits' \in [Program -> Int],
           processes'[h] = processes[h], exits'[h] = exits[h], pstate'[h] = pstate[h],
           \A p \in Process : ProgramOf[p] = h => (Exists(p)' <=> Exists(p))
    PROVE  CountInv(h)'
BY DEF CountInv

\* A step after which the count of program h, which is not done, is that of Alive(h).
LEMMA NewCount ==
    ASSUME NEW h \in Program, IsFiniteSet(Alive(h)'), processes'[h] = Cardinality(Alive(h)'),
           processes' \in [Program -> Int], exits' \in [Program -> Int],
           exits'[h] = 0, pstate'[h] \notin {"Initialized", "Done", "PendingDeletion"}
    PROVE  CountInv(h)'
BY DEF CountInv

\* While a process of a calm program is interpreted, the program is running or its
\* session is resuming it.
LEMMA RunningProgram ==
    ASSUME ListInv, LockInv, NEW h \in Program, Calm(h), HoldInv(h), CountInv(h), QuietInv(h),
           pc[Interpreter] \in Interpreting, ProgramOf[current] = h
    PROVE  \/ pstate[h] = "Running"
           \/ pstate[h] = "Session" /\ h \in Debugged /\ pc[h] = "resuming"
<1>1. current \in Process /\ state[current] = "Running"
  BY DEF ListInv, RunningOwned
<1>2. pstate[h] \notin {"Initialized", "Done", "PendingDeletion", "Frozen"}
  BY Zenon, <1>1 DEF ListInv, Scheduled, CountInv, Exists, HoldInv
<1>3. pstate[h] \in ProgramStates
  BY DEF ListInv, Types
<1>4. CASE pstate[h] = "Session"
  <2>1. PICK t \in Thread : Busy(t) /\ ProgramAt(t) = h
    BY Zenon, <1>1, <1>4 DEF QuietInv, IsQuiet, Stops, Active
  <2>2. t # Interpreter
    BY <2>1, Kinds DEF Busy, Interpreting
  <2>3. t \notin Freezers
    BY Zenon, <2>1, <2>2, Kinds DEF Busy, ProgramAt, LockInv, FreezingGroup, Calm, ListInv, Labels, Points
  <2>4. t \in Debugged /\ t = h
    BY <2>1, <2>2, <2>3, Kinds DEF Busy, ProgramAt, ListInv, Labels, Points
  <2>5. pc[h] = "resuming"
    BY Zenon, <2>1, <2>4 DEF Busy, LockInv, Interrupting, Calm
  <2> QED  BY Zenon, <1>4, <2>4, <2>5
<1> QED  BY <1>2, <1>3, <1>4 DEF ProgramStates

\* ExitInv is kept by every step that makes no process but the current one dead.
LEMMA ExitKeeps ==
    ASSUME ListInv, LockInv, SameProgram, NEW h \in Program, Calm(h), CalmInv(h), QuietInv(h),
           HoldStep(h), Ends, Goes(h),
           \A p \in Process : p # current /\ Exists(p) => Exists(p)'
    PROVE  ExitInv(h)'
<1> SUFFICES ASSUME pc'[Interpreter] \in Exiting, ProgramOf[current'] = h
             PROVE  Leaving(h)'
  BY Zenon DEF ExitInv
<1>1. UNCHANGED current /\ ProgramOf[current] = h
  BY Zenon DEF Ends
<1>2. ~InterpreterHolds(h)'
  BY Zenon DEF InterpreterHolds, Exiting, Gone
<1>3. ASSUME pstate[h] = "Running" PROVE Leaving(h)'
  BY Zenon, <1>2, <1>3 DEF HoldStep, Goes, Leaving
<1>4. ASSUME pstate[h] = "Session", h \in Debugged, pc[h] = "resuming",
             NEW q \in Process, q # current, ProgramOf[q] = h, Exists(q)
      PROVE  Leaving(h)'
  <2>1. pstate'[h] \in {"Session", "Running"}
    BY Zenon, <1>4 DEF HoldStep
  <2>2. pc'[h] = "resuming" \/ pstate'[h] = "Running"
    BY Zenon, <1>4 DEF Goes
  <2>3. Exists(q)'
    BY Zenon, <1>4
  <2> QED  BY Zenon, <1>1, <1>4, <2>1, <2>2, <2>3 DEF Leaving
<1>5. ASSUME Leaving(h) PROVE Leaving(h)'
  BY <1>3, <1>4, <1>5 DEF Leaving
<1>6. CASE pc[Interpreter] \in Exiting
  BY Zenon, <1>1, <1>5, <1>6 DEF CalmInv, ExitInv
<1>7. CASE pc[Interpreter] \in {"interpret", "run"} /\ ProgramOf[current] \notin Debugged
  BY Zenon, <1>1, <1>3, <1>7, RunningProgram DEF CalmInv, Interpreting
<1>8. CASE pc[Interpreter] = "resuming" /\ pstate'[ProgramOf[current]] = "Running"
  BY <1>1, <1>8 DEF Leaving
<1>9. CASE pc[Interpreter] = "target_exit"
  <2>1. \/ pstate[h] = "Running"
        \/ pstate[h] = "Session" /\ h \in Debugged /\ pc[h] = "resuming"
    BY Zenon, <1>1, <1>9, RunningProgram DEF CalmInv, Interpreting
  <2>2. /\ target[Interpreter] \in Process /\ target[Interpreter] # current
        /\ ProgramOf[target[Interpreter]] = h /\ Exists(target[Interpreter])
    BY Zenon, <1>1, <1>9, Kinds DEF SameProgram, ListInv, Scheduled
  <2> QED  BY Zenon, <1>3, <1>4, <2>1, <2>2
<1> QED  BY <1>6, <1>7, <1>8, <1>9 DEF Ends

LEMMA LifeKeeps ==
    ASSUME ListInv, LockInv, SameProgram, NEW h \in Program, Calm(h), CalmInv(h), QuietInv(h),
           HoldStep(h), LifeStep(h)
    PROVE  CalmInv(h)'
<1>1. HoldInv(h)'
  BY Zenon, HoldStepKeeps DEF CalmInv
<1>2. ExitInv(h)'
  BY Zenon, ExitKeeps DEF LifeStep, SameLife
<1>3. Alive(h)' = Alive(h)
  BY Zenon DEF Alive, LifeStep, SameLife
<1>4. UNCHANGED <<processes, exits>> /\ \A p \in Process : Exists(p)' <=> Exists(p)
  BY Zenon DEF LifeStep, SameLife
<1>5. /\ pstate'[h] = "Initialized" <=> pstate[h] = "Initialized"
      /\ pstate'[h] \in {"Done", "PendingDeletion"} <=> pstate[h] \in {"Done", "PendingDeletion"}
  BY Zenon DEF LifeStep, SameLife, Goes, HoldStep
<1>6. CountInv(h)'
  BY Zenon, <1>3, <1>4, <1>5 DEF CountInv, CalmInv
<1> QED  BY <1>1, <1>2, <1>6 DEF CalmInv

\* Cleanup: the current process is dead, and still counted.
LEMMA CleanupCalm ==
    ASSUME ListInv, LockInv, SameProgram, NEW h \in Program, Calm(h), CalmInv(h), QuietInv(h),
           Cleanup
    PROVE  CalmInv(h)' /\ HoldStep(h)
<1>1. /\ pc[Interpreter] = "result" /\ current \in Process /\ Exists(current)
      /\ state' = [state EXCEPT ![current] = "Dead"] /\ pc' = [pc EXCEPT ![Interpreter] = "next"]
      /\ UNCHANGED <<pstate, processes, exits, current, session>>
  BY Zenon, Kinds DEF Cleanup, HandleEventResult, IGoto, Goto, ListInv, CurrentAt, Exists, Interruptions,
     OtherVars
<1>2. HoldStep(h)
  BY Zenon, <1>1, LoopHolds DEF InterpreterStep, CalmInv, DeleteTerminatedProcess, ReturnNext, IGoto
<1>3. /\ pc'[Interpreter] = "next" /\ \A t \in Thread : t # Interpreter => pc'[t] = pc[t]
  BY <1>1, Kinds DEF ListInv, Types
<1>4. /\ ~Exists(current)'
      /\ \A p \in Process : p # current => (Exists(p)' <=> Exists(p))
  BY Zenon, <1>1 DEF Exists, ListInv, Types
<1>5. Ends /\ Goes(h)
  BY <1>1, <1>3, Kinds DEF Ends, Goes, Exiting, Gone
<1>6. HoldInv(h)' /\ ExitInv(h)'
  BY Zenon, <1>2, <1>4, <1>5, ExitKeeps, HoldStepKeeps DEF CalmInv
<1>7. Alive(h)' = Alive(h)
  BY Zenon, <1>1, <1>3, <1>4 DEF Alive, Gone
<1>8. CountInv(h)'
  BY Zenon, <1>1, <1>4, <1>7 DEF CountInv, CalmInv
<1> QED  BY Zenon, <1>2, <1>6, <1>8 DEF CalmInv

\* Program::SpawnProcess counts the new process.
LEMMA SpawnCalm ==
    ASSUME Counting, ListInv, LockInv, SameProgram, NEW h \in Program, Calm(h), CalmInv(h), QuietInv(h),
           NEW p \in Process, RunSpawn(p)
    PROVE  CalmInv(h)' /\ HoldStep(h)
<1>1. /\ pc[Interpreter] = "run" /\ current \in Process /\ state[current] = "Running"
      /\ state[p] = "New" /\ ProgramOf[p] = ProgramOf[current] /\ ProgramOf[p] \in Program
      /\ state' = [state EXCEPT ![p] = "Ready"] /\ pc' = [pc EXCEPT ![Interpreter] = "run"]
      /\ processes' = [processes EXCEPT ![ProgramOf[p]] = @ + 1]
      /\ UNCHANGED <<pstate, exits, current, session>>
  BY Zenon, Kinds, ConstantTypes DEF RunSpawn, IGoto, Goto, Enqueue, ListInv, RunningOwned, Interpreting,
     Exists, OtherVars
<1>0. /\ processes \in [Program -> Int] /\ processes' \in [Program -> Int]
      /\ exits \in [Program -> Int] /\ exits' \in [Program -> Int]
  <2>1. processes \in [Program -> Int] /\ exits \in [Program -> Int]
    BY DEF CalmInv, CountInv
  <2>2. processes[ProgramOf[p]] + 1 \in Int
    BY <1>1, <2>1
  <2> QED  BY ZenonT(40), <1>1, <2>1, <2>2
<1>2. HoldStep(h)
  BY Zenon, <1>1, LoopHolds DEF InterpreterStep, RunStep, CalmInv, DeleteTerminatedProcess, ReturnNext, IGoto
<1>3. pc'[Interpreter] = "run"
  BY ZenonT(40), <1>1, Kinds DEF ListInv, Types
<1>4. /\ Exists(p)' /\ ~Exists(p)
      /\ \A q \in Process : q # p => (Exists(q)' <=> Exists(q))
  BY Zenon, <1>1 DEF Exists, ListInv, Types
<1>5. HoldInv(h)' /\ ExitInv(h)'
  BY <1>2, <1>3, HoldStepKeeps DEF CalmInv, ExitInv, Exiting, Gone
<1>6. CASE ProgramOf[p] = h
  <2>1. pstate[h] # "Initialized"
    BY Zenon, <1>1, <1>6 DEF ListInv, Scheduled
  <2>4. exits[h] # 1
    BY Zenon, <1>1, <1>6 DEF Exists, CalmInv, CountInv
  <2>2. Alive(h)' = Alive(h) \cup {p} /\ p \notin Alive(h)
    BY Zenon, <1>1, <1>3, <1>4, <1>6, <2>1 DEF Alive, Gone
  <2>3. IsFiniteSet(Alive(h)') /\ Cardinality(Alive(h)') = Cardinality(Alive(h)) + 1
    <3>1. IsFiniteSet(Alive(h))
      BY Zenon DEF CalmInv, CountInv
    <3>2. /\ IsFiniteSet(Alive(h) \cup {p})
          /\ Cardinality(Alive(h) \cup {p}) = Cardinality(Alive(h)) + 1
      BY ZenonT(40), <2>2, <3>1 DEF Counting
    <3> QED  BY Zenon, <2>2, <3>2
  <2>5. /\ processes[h] = Cardinality(Alive(h)) /\ exits[h] = 0
        /\ pstate[h] \notin {"Done", "PendingDeletion"}
    BY <2>4 DEF CalmInv, CountInv
  <2>6. processes'[h] = processes[h] + 1
    BY Zenon, <1>0, <1>1, <1>6
  <2>7. CountInv(h)'
    BY Zenon, <1>0, <1>1, <2>1, <2>3, <2>5, <2>6, NewCount
  <2> QED  BY Zenon, <1>2, <1>5, <2>7 DEF CalmInv
<1>7. CASE ProgramOf[p] # h
  <2>1. Alive(h)' = Alive(h)
    BY Zenon, <1>1, <1>3, <1>4, <1>7 DEF Alive, Gone
  <2>2. processes'[h] = processes[h]
    BY <1>0, <1>1, <1>7
  <2>3. \A q \in Process : ProgramOf[q] = h => (Exists(q)' <=> Exists(q))
    BY Zenon, <1>4, <1>7
  <2>4. CountInv(h)'
    BY Zenon, <1>0, <1>1, <2>1, <2>2, <2>3, SameCount DEF CalmInv
  <2> QED  BY <1>2, <1>5, <2>4 DEF CalmInv
<1> QED  BY Zenon, <1>6, <1>7

\* ScheduleProgram counts the main process.
LEMMA ScheduleCalm ==
    ASSUME Counting, ListInv, LockInv, SameProgram, NEW h \in Program, Calm(h), CalmInv(h), QuietInv(h),
           NEW g \in Program, ScheduleProgram(g)
    PROVE  CalmInv(h)' /\ HoldStep(h)
<1>1. /\ pstate[g] = "Initialized" /\ pstate' = [pstate EXCEPT ![g] = "Running"]
      /\ processes' = [processes EXCEPT ![g] = @ + 1]
      /\ state' = [state EXCEPT ![Main[g]] = "Ready"]
      /\ Main[g] \in Process /\ ProgramOf[Main[g]] = g /\ state[Main[g]] = "Sleeping"
      /\ UNCHANGED <<exits, current, session>>
  BY Zenon, SchedulerConstants DEF ScheduleProgram, Enqueue, ListInv, Scheduled
<1>0. /\ processes \in [Program -> Int] /\ processes' \in [Program -> Int]
      /\ exits \in [Program -> Int] /\ exits' \in [Program -> Int]
  <2>1. processes \in [Program -> Int] /\ exits \in [Program -> Int]
    BY ZenonT(40) DEF CalmInv, CountInv
  <2>2. processes[g] + 1 \in Int
    BY <1>1, <2>1
  <2> QED  BY ZenonT(40), <1>1, <2>1, <2>2
<1>2. \A t \in Thread : t # Runner => pc'[t] = pc[t]
  BY Kinds DEF ScheduleProgram, Goto, ListInv, Types
<1>3. HoldStep(h)
  BY RunnerHolds DEF CalmInv
<1>4. \A p \in Process : Exists(p)' <=> Exists(p)
  BY Zenon, <1>1 DEF Exists, ListInv, Types
<1>5. pstate \in [Program -> ProgramStates]
  BY DEF ListInv, Types
<1>6. Ends /\ Goes(h)
  BY Zenon, <1>1, <1>2, <1>5, Kinds DEF Ends, Goes
<1>7. HoldInv(h)' /\ ExitInv(h)'
  BY <1>3, <1>4, <1>6, ExitKeeps, HoldStepKeeps DEF CalmInv
<1>8. CASE g = h
  <2>1. ~(pc[Interpreter] \in Gone /\ ProgramOf[current] = h)
    BY <1>1, <1>8 DEF Gone, ListInv, CurrentAt, Scheduled
  <2>2. Alive(h) = {}
    BY Zenon, <1>1, <1>8 DEF Alive
  <2>3. Exists(Main[h]) /\ \A p \in Process : ProgramOf[p] = h /\ Exists(p) => p = Main[h]
    BY Zenon, <1>1, <1>8 DEF Exists, CalmInv, CountInv
  <2>4. Alive(h)' = {Main[h]}
    <3>1. pstate'[h] # "Initialized" /\ pc'[Interpreter] = pc[Interpreter] /\ UNCHANGED current
      BY Zenon, <1>1, <1>2, <1>5, <1>8, Kinds
    <3>2. Main[h] \in Process /\ ProgramOf[Main[h]] = h
      BY Zenon, <1>1, <1>8
    <3>3. Alive(h)' = {p \in Process : ProgramOf[p] = h /\ Exists(p)}
      BY Zenon, <1>4, <2>1, <3>1 DEF Alive
    <3> QED  BY <2>3, <3>2, <3>3
  <2>5. IsFiniteSet(Alive(h)') /\ Cardinality(Alive(h)') = 1 /\ Cardinality(Alive(h)) = 0
    BY Zenon, <2>2, <2>4 DEF Counting
  <2>6. processes[h] = Cardinality(Alive(h)) /\ exits[h] = 0
    BY Zenon, <1>1, <1>8 DEF CalmInv, CountInv
  <2>7. processes'[h] = processes[h] + 1 /\ pstate'[h] = "Running" /\ exits'[h] = exits[h]
    BY Zenon, <1>0, <1>1, <1>5, <1>8
  <2>8. CountInv(h)'
    BY <1>0, <2>5, <2>6, <2>7, NewCount
  <2> QED  BY ZenonT(40), <1>3, <1>7, <2>8 DEF CalmInv
<1>9. CASE g # h
  <2>1. Alive(h)' = Alive(h)
    BY <1>1, <1>2, <1>4, <1>9, Kinds DEF Alive
  <2>2. processes'[h] = processes[h] /\ pstate'[h] = pstate[h] /\ exits'[h] = exits[h]
    BY Zenon, <1>0, <1>1, <1>5, <1>9
  <2>3. CountInv(h)'
    BY Zenon, <1>0, <1>4, <2>1, <2>2, SameCount DEF CalmInv
  <2> QED  BY ZenonT(40), <1>3, <1>7, <2>3 DEF CalmInv
<1> QED  BY Zenon, <1>8, <1>9

\* UnscheduleProgram comes after the program's last process.
LEMMA UnscheduleCalm ==
    ASSUME ListInv, LockInv, SameProgram, NEW h \in Program, Calm(h), CalmInv(h), QuietInv(h),
           NEW g \in Program, UnscheduleProgram(g)
    PROVE  CalmInv(h)' /\ HoldStep(h)
<1>1. /\ exits[g] > 0 /\ pstate[g] # "PendingDeletion"
      /\ pstate' = [pstate EXCEPT ![g] = "PendingDeletion"]
      /\ UNCHANGED <<exits, processes, state, current, session, pc>>
  BY DEF UnscheduleProgram
<1>2. pstate \in [Program -> ProgramStates]
  BY DEF ListInv, Types
<1>3. g = h => pstate[h] = "Done" /\ pstate'[h] = "PendingDeletion"
  BY <1>1, <1>2 DEF CalmInv, CountInv
<1>4. g # h => pstate'[h] = pstate[h]
  BY Zenon, <1>1, <1>2
<1>5. UNCHANGED <<Held(h), SessionHolds(h), InterpreterHolds(h)>>
  BY Zenon, <1>1 DEF Held, SessionHolds, InterpreterHolds
<1>6. HoldStep(h)
  BY Zenon, <1>1, <1>3, <1>4, <1>5 DEF HoldStep, CalmInv, HoldInv
<1>7. LifeStep(h)
  BY Zenon, <1>1, <1>3, <1>4 DEF LifeStep, SameLife, Ends, Goes, Exists
<1> QED  BY <1>6, <1>7, LifeKeeps

\* DeleteTerminatedProcess: the program is done when the count says so, and then no
\* process of it is left.
LEMMA DeleteCalm ==
    ASSUME Counting, ListInv, LockInv, SameProgram, NEW h \in Program, Calm(h), CalmInv(h), QuietInv(h),
           DeleteTerminatedProcess
    PROVE  CalmInv(h)' /\ HoldStep(h)
<1> DEFINE g == ProgramOf[current]
           last == processes[g] - 1 = 0
<1>1. /\ pc[Interpreter] = "next" /\ current \in Process /\ state[current] = "Dead"
      /\ g \in Program /\ pstate[g] # "Initialized"
  BY Zenon, ConstantTypes DEF DeleteTerminatedProcess, ReturnNext, IGoto, ListInv, CurrentAt, Scheduled
<1>2. /\ pc'[Interpreter] \in {"loop", "inner"}
      /\ \A t \in Thread : t # Interpreter => pc'[t] = pc[t]
  BY Zenon, Kinds DEF DeleteTerminatedProcess, ReturnNext, IGoto, Goto, ListInv, Types
<1>3. /\ processes' = [processes EXCEPT ![g] = @ - 1]
      /\ pstate' = [pstate EXCEPT ![g] = IF last THEN "Done" ELSE @]
      /\ exits' = [exits EXCEPT ![g] = IF last THEN @ + 1 ELSE @]
      /\ UNCHANGED <<state, session>>
  BY DEF DeleteTerminatedProcess, OtherVars
<1>4. pstate \in [Program -> ProgramStates]
  BY DEF ListInv, Types
<1>0. /\ processes \in [Program -> Int] /\ processes' \in [Program -> Int]
      /\ exits \in [Program -> Int] /\ exits' \in [Program -> Int]
  <2> HIDE DEF g, last
  <2>1. processes \in [Program -> Int] /\ exits \in [Program -> Int]
    BY Zenon DEF CalmInv, CountInv
  <2>2. processes[g] - 1 \in Int /\ exits[g] + 1 \in Int /\ exits[g] \in Int
    BY <1>1, <2>1
  <2> QED  BY Zenon, <1>1, <1>3, <2>1, <2>2
<1>5. /\ Held(h)' <=> Held(h)
      /\ ~InterpreterHolds(h)'
      /\ h \in Debugged /\ pc'[h] # "idle" => session'[h] # "Paused"
  BY Zenon, <1>1, <1>2, <1>3, Kinds
     DEF Held, SessionHolds, InterpreterHolds, CalmInv, HoldInv
<1>6. ExitInv(h)'
  BY Zenon, <1>2 DEF ExitInv, Exiting, Gone
<1>7. \A p \in Process : Exists(p)' <=> Exists(p)
  BY <1>3 DEF Exists
<1>8. CASE g # h
  <2>1. pstate'[h] = pstate[h] /\ processes'[h] = processes[h] /\ exits'[h] = exits[h]
    BY Zenon, <1>1, <1>3, <1>4, <1>8 DEF CalmInv, CountInv
  <2>2. HoldStep(h)
    BY Zenon, <1>5, <2>1 DEF HoldStep
  <2>3. Alive(h)' = Alive(h)
    BY Zenon, <1>1, <1>2, <1>7, <1>8, <2>1 DEF Alive, Gone
  <2>4. CountInv(h)'
    BY Zenon, <1>0, <1>7, <2>1, <2>3, SameCount DEF CalmInv
  <2> QED  BY Zenon, <1>6, <2>2, <2>4, HoldStepKeeps DEF CalmInv
<1>9. CASE g = h
  <2>1. pstate'[h] # "Initialized"
    BY Zenon, <1>1, <1>3, <1>4, <1>9
  <2>2. current \in Alive(h) /\ ~Exists(current)
    BY Zenon, <1>1, <1>9 DEF Alive, Exists, Gone
  <2>3. Alive(h)' = Alive(h) \ {current}
    BY Zenon, <1>1, <1>2, <1>7, <1>9, <2>1, <2>2 DEF Alive, Gone
  <2>4. /\ IsFiniteSet(Alive(h)) /\ processes[h] = Cardinality(Alive(h))
        /\ exits[h] = IF pstate[h] \in {"Done", "PendingDeletion"} THEN 1 ELSE 0
    BY Zenon DEF CalmInv, CountInv
  <2>5. IsFiniteSet(Alive(h)') /\ Cardinality(Alive(h)') = Cardinality(Alive(h)) - 1
    <3>1. /\ IsFiniteSet(Alive(h) \ {current})
          /\ Cardinality(Alive(h) \ {current}) = Cardinality(Alive(h)) - 1
      BY Zenon, <2>2, <2>4 DEF Counting
    <3> QED  BY Zenon, <2>3, <3>1
  <2>6. processes'[h] = Cardinality(Alive(h)')
    BY <1>0, <1>3, <1>9, <2>4, <2>5
  <2>7. Leaving(h)
    BY Zenon, <1>1, <1>9 DEF CalmInv, ExitInv, Exiting, Gone
  <2>8. CASE last
    <3>1. \E x : Alive(h) = {x}
      <4>1. Cardinality(Alive(h)) = 1
        BY <1>9, <2>4, <2>8
      <4> QED  BY Zenon, <2>4, <4>1 DEF Counting
    <3>2. Alive(h) = {current}
      BY <2>2, <3>1
    <3>3. \A p \in Process : ProgramOf[p] = h => ~Exists(p)
      <4> SUFFICES ASSUME NEW p \in Process, ProgramOf[p] = h, Exists(p) PROVE FALSE
        OBVIOUS
      <4>1. pstate[h] # "Initialized"
        BY <1>1, <1>9
      <4>2. p \in Alive(h)
        BY <4>1 DEF Alive
      <4> QED  BY <2>2, <3>2, <4>2
    <3>4. pstate[h] = "Running" /\ exits[h] = 0
      BY <2>4, <2>7, <3>3 DEF Leaving
    <3>5. pstate'[h] = "Done" /\ exits'[h] = 1
      BY <1>0, <1>3, <1>4, <1>9, <2>8, <3>4
    <3>6. ~Held(h)'
      BY Zenon, <1>5, <3>4 DEF CalmInv, HoldInv
    <3>7. HoldStep(h)
      BY Zenon, <1>5, <3>4, <3>5, <3>6 DEF HoldStep
    <3>8. CountInv(h)'
      BY Zenon, <1>0, <1>7, <2>5, <2>6, <3>3, <3>5 DEF CountInv
    <3> QED  BY <1>6, <3>7, <3>8, HoldStepKeeps DEF CalmInv
  <2>9. CASE ~last
    <3>1. pstate'[h] = pstate[h] /\ exits'[h] = exits[h]
      BY Zenon, <1>0, <1>3, <1>4, <1>9, <2>9
    <3>2. HoldStep(h)
      BY <1>5, <3>1 DEF HoldStep
    <3>3. exits[h] = 0 /\ pstate[h] \notin {"Initialized", "Done", "PendingDeletion"}
      BY ZenonT(40), <2>4, <2>7 DEF Leaving
    <3>4. CountInv(h)'
      BY <1>0, <2>5, <2>6, <3>1, <3>3, NewCount
    <3> QED  BY <1>6, <3>2, <3>4, HoldStepKeeps DEF CalmInv
  <2> QED  BY Zenon, <2>8, <2>9
<1> QED  BY Zenon, <1>8, <1>9

\* Every step keeps the invariant of a calm program and takes it along a documented
\* transition.
LEMMA NextCalm ==
    ASSUME Counting, ListInv, LockInv, SameProgram, NEW h \in Program, Calm(h), CalmInv(h), QuietInv(h),
           [Next]_vars
    PROVE  CalmInv(h)' /\ HoldStep(h)
<1>1. ASSUME HoldStep(h), LifeStep(h) PROVE CalmInv(h)' /\ HoldStep(h)
  BY <1>1, LifeKeeps
<1>2. HoldInv(h)
  BY DEF CalmInv
<1>3. CASE InterpreterStep
  <2>1. CASE Cleanup
    BY <2>1, CleanupCalm
  <2>2. CASE DeleteTerminatedProcess
    BY <2>2, DeleteCalm
  <2>3. CASE \E p \in Process : RunSpawn(p)
    BY <2>3, SpawnCalm
  <2>4. CASE ~Cleanup /\ ~DeleteTerminatedProcess /\ \A p \in Process : ~RunSpawn(p)
    BY <1>1, <1>2, <1>3, <2>4, LoopHolds, LoopLives
  <2> QED  BY <2>1, <2>2, <2>3, <2>4
<1>4. ASSUME NEW t \in Thread, Step(t) PROVE CalmInv(h)' /\ HoldStep(h)
  BY <1>1, <1>2, <1>4, StepHolds, StepLives
<1>5. ASSUME NEW t \in Freezers, FreezerStep(t) \/ FreezeProgramGroup(t) \/ UnFreezeProgramGroup(t)
      PROVE  CalmInv(h)' /\ HoldStep(h)
  BY <1>1, <1>2, <1>5, FreezerHolds, FreezerLives
<1>6. ASSUME NEW t \in Senders, ResumeProcess(t) \/ \E p \in Process : SendMessage(t, p)
      PROVE  CalmInv(h)' /\ HoldStep(h)
  BY <1>1, <1>2, <1>6, SenderHolds, SenderLives
<1>7. ASSUME NEW t \in Debugged,
             \/ SessionStep(t) \/ DebugInterrupt(t) \/ ProcessContinue(t)
             \/ SessionEnd(t) \/ SessionTerminated(t)
      PROVE  CalmInv(h)' /\ HoldStep(h)
  BY <1>1, <1>2, <1>7, SessionHoldsIt, SessionLives
<1>8. CASE TearDown
  BY <1>1, <1>2, <1>8, RunnerHolds, RunnerLives
<1>9. CASE \E g \in Program : ScheduleProgram(g)
  BY <1>9, ScheduleCalm
<1>10. CASE \E g \in Program : UnscheduleProgram(g)
  BY <1>10, UnscheduleCalm
<1>11. CASE UNCHANGED vars
  <2>1. HoldStep(h)
    BY Zenon, <1>2, <1>11 DEF vars, HoldStep, HoldInv, Held, SessionHolds, InterpreterHolds
  <2>2. LifeStep(h)
    BY ZenonT(40), <1>11 DEF vars, LifeStep, SameLife, Ends, Goes, Exists
  <2> QED  BY Zenon, <1>1, <2>1, <2>2
<1> QED  BY ZenonT(60), <1>3, <1>4, <1>5, <1>6, <1>7, <1>8, <1>9, <1>10, <1>11
         DEF Next, Exited

-----------------------------------------------------------------------------
(* Programs that never end *)

\* Program h has no session, and its Dart code neither ends nor fails.
Endless(h) ==
    /\ h \notin Debugged
    /\ Outcomes[h] \cap {"Terminated", "UncaughtException", "CompileTimeError", "exit_send"} = {}

\* Where the current process is at its end.
Ending == Handling \cup Exiting \cup {"target_exit"}

\* No process of an endless program ends and none is sent a signal, so that the program
\* only starts, and is frozen and unfrozen.
EndlessInv(h) ==
    /\ pstate[h] \in {"Initialized", "Running", "Frozen"}
    /\ exits \in [Program -> Int] /\ exits[h] = 0
    /\ signal \in [Process -> BOOLEAN]
    /\ pc[Interpreter] \in Ending => ProgramOf[current] # h
    /\ \A p \in Process : ProgramOf[p] = h =>
          signal[p] = FALSE /\ \A t \in Thread : p \notin work[t]

EndlessStep(h) ==
    /\ \/ pstate'[h] = pstate[h]
       \/ pstate[h] = "Initialized" /\ pstate'[h] = "Running"
       \/ pstate[h] = "Running" /\ pstate'[h] = "Frozen"
       \/ pstate[h] = "Frozen" /\ pstate'[h] = "Running"
    /\ exits' \in [Program -> Int] /\ exits'[h] = exits[h]
    /\ signal' \in [Process -> BOOLEAN]
    /\ pc'[Interpreter] \in Ending => ProgramOf[current'] # h
    /\ \A p \in Process : ProgramOf[p] = h =>
          signal'[p] = FALSE /\ \A t \in Thread : p \notin work'[t]

LEMMA EndlessStepKeeps ==
    ASSUME NEW h, EndlessInv(h), EndlessStep(h)
    PROVE  EndlessInv(h)'
BY DEF EndlessInv, EndlessStep

LEMMA ExitsCounted ==
    ASSUME NEW h \in Program, exits \in [Program -> Int], ProgramOf[current] \in Program \ {h},
           DeleteTerminatedProcess
    PROVE  exits' \in [Program -> Int] /\ exits'[h] = exits[h]
<1> DEFINE g == ProgramOf[current]
           last == processes[g] - 1 = 0
<1>1. exits' = [exits EXCEPT ![g] = IF last THEN @ + 1 ELSE @]
  BY DEF DeleteTerminatedProcess
<1> HIDE DEF last
<1> QED  BY <1>1

LEMMA LoopEndless ==
    ASSUME NEW h \in Program, Endless(h), EndlessInv(h), ListInv, InterpreterStep
    PROVE  EndlessStep(h)
<1> USE Kinds DEF IGoto, ControlOnly, ProcessOnly, OtherVars, ReturnNext, Goto,
        ListInv, Types, EndlessStep, EndlessInv, Ending, Handling, Exiting, Gone
<1>1a. CASE LoopTest
  BY Zenon, <1>1a DEF LoopTest
<1>1b. CASE TryDequeue
  BY Zenon, <1>1b DEF TryDequeue
<1>1c. CASE InnerTest
  BY Zenon, <1>1c DEF InnerTest
<1>1d. CASE PutBack
  BY Zenon, <1>1d DEF PutBack
<1>1e. CASE AfterLoop
  BY Zenon, <1>1e DEF AfterLoop
<1>2a. CASE PauseOn
  BY Zenon, <1>2a DEF PauseOn
<1>2b. CASE PauseWait
  BY Zenon, <1>2b DEF PauseWait
<1>2c. CASE PauseOff
  BY Zenon, <1>2c DEF PauseOff
<1>2d. CASE IdleWait
  BY Zenon, <1>2d DEF IdleWait
<1>2e. CASE IdleEnd
  BY Zenon, <1>2e DEF IdleEnd
<1>3. CASE InterpretSignal
  <2>1. current \in Process /\ ProgramOf[current] # h
    BY Zenon, <1>3 DEF InterpretSignal, RunningOwned, Interpreting
  <2> QED  BY Zenon, <1>3, <2>1 DEF InterpretSignal
<1>4. CASE \/ EnterDart \/ RunReceive \/ RunSendSelf \/ RunInterrupted \/ RunYield
  BY ZenonT(40), <1>4 DEF EnterDart, RunReceive, RunSendSelf, RunInterrupted, RunYield
<1>5a. CASE YieldMailbox
  BY Zenon, <1>5a DEF YieldMailbox
<1>5b. CASE YieldSignal
  BY Zenon, <1>5b DEF YieldSignal
<1>5c. CASE YieldSleep
  BY Zenon, <1>5c DEF YieldSleep
<1>5d. CASE YieldReady
  BY Zenon, <1>5d DEF YieldReady
<1>5e. CASE TargetYield
  BY Zenon, <1>5e DEF TargetYield
<1>6. CASE \/ Reschedule \/ SessionEvent
           \/ \E p \in Process : RunSpawn(p)
  BY ZenonT(40), <1>6 DEF Reschedule, SessionEvent, RunSpawn
<1>7. CASE Cleanup
  <2>1. current \in Process /\ ProgramOf[current] # h
    BY Zenon, <1>7 DEF Cleanup, HandleEventResult, CurrentAt
  <2>2. \A p \in Links[current] : ProgramOf[p] # h
    BY Zenon, <2>1, SchedulerConstants
  <2>3. \A p \in Process : ProgramOf[p] = h => \A t \in Thread : p \notin work'[t]
    BY Zenon, <1>7, <2>2 DEF Cleanup
  <2>4. signal' \in [Process -> BOOLEAN] /\ \A p \in Process : ProgramOf[p] = h => signal'[p] = FALSE
    BY Zenon, <1>7, <2>1 DEF Cleanup
  <2> QED  BY Zenon, <1>7, <2>1, <2>3, <2>4 DEF Cleanup, HandleEventResult
<1>8. CASE DeleteTerminatedProcess
  <2>1. ProgramOf[current] # h /\ ProgramOf[current] \in Program
    BY Zenon, <1>8, ConstantTypes DEF DeleteTerminatedProcess, CurrentAt
  <2>2. pstate'[h] = pstate[h]
    BY Zenon, <1>8, <2>1 DEF DeleteTerminatedProcess
  <2>3. exits' \in [Program -> Int] /\ exits'[h] = exits[h]
    BY Zenon, <1>8, <2>1, ExitsCounted
  <2> QED  BY Zenon, <1>8, <2>2, <2>3 DEF DeleteTerminatedProcess
<1>9. ASSUME NEW event \in Interruptions \cup {"Terminated"}, RunEvent(event)
      PROVE  EndlessStep(h)
  <2>1. ProgramOf[current] # h
    BY Zenon, <1>9 DEF RunEvent, May, Endless, Interruptions
  <2> QED  BY Zenon, <1>9, <2>1 DEF RunEvent
<1>10. ASSUME NEW p \in Process, NEW outcome \in {"send", "exit_send"}, RunSend(p, outcome)
      PROVE  EndlessStep(h)
  <2>1. outcome = "exit_send" => ProgramOf[current] # h
    BY Zenon, <1>10 DEF RunSend, May, Endless
  <2> QED  BY Zenon, <1>10, <2>1 DEF RunSend
<1> HIDE DEF EndlessStep
<1> QED  BY ZenonT(60), <1>1a, <1>1b, <1>1c, <1>1d, <1>1e, <1>2a, <1>2b, <1>2c, <1>2d,
         <1>2e, <1>3, <1>4, <1>5a, <1>5b, <1>5c, <1>5d, <1>5e, <1>6, <1>7, <1>8, <1>9,
         <1>10
         DEF InterpreterStep, RunStep

LEMMA StepEndless ==
    ASSUME NEW h \in Program, Endless(h), EndlessInv(h), ListInv, NEW t \in Thread,
           Step(t)
    PROVE  EndlessStep(h)
<1> USE Kinds DEF At, Goto, ListInv, Types, EndlessStep, EndlessInv, Ending, Handling,
        Exiting, Gone
<1>1. CASE \/ Notify(t) \/ EnqueueSafe(t) \/ SignalProcess(t) \/ PauseInterpreterLoop(t)
           \/ PauseProcess(t)
  BY ZenonT(40), <1>1 DEF Notify, EnqueueSafe, Return, SignalProcess, PauseInterpreterLoop,
         CanLock, Wait, PauseProcess
<1>2. CASE Unlock(t)
  <2>1. t # Interpreter
    BY Zenon, <1>2 DEF Unlock, Labels, Points, InterpreterPC
  <2> QED  BY Zenon, <1>2, <2>1 DEF Unlock
<1>3. CASE StopProgram(t)
  <2>1. ProgramAt(t) # h /\ (t = Interpreter => ProgramOf[current] # h)
    BY ZenonT(40), <1>3, ProgramAtHand DEF StopProgram, ProgramAt, Endless, Labels, Points
  <2> QED  BY Zenon, <1>3, <2>1 DEF StopProgram
<1>4. CASE \/ PausedAll(t) \/ ResumeProgram(t) \/ EnqueuePaused(t)
  BY Zenon, <1>4 DEF PausedAll, ResumeProgram, CanLock, EnqueuePaused
<1>5. CASE ResumedProgram(t)
  <2>1. ProgramAt(t) # h /\ (t = Interpreter => ProgramOf[current] # h)
    BY Zenon, <1>5, ProgramAtHand DEF ResumedProgram, ProgramAt, Endless, Labels, Points
  <2> QED  BY Zenon, <1>5, <2>1 DEF ResumedProgram
<1>6. ASSUME NEW p \in Process, SendSignal(t, p)
      PROVE  EndlessStep(h)
  <2>1. ProgramOf[p] # h /\ signal' \in [Process -> BOOLEAN]
    BY Zenon, <1>6 DEF SendSignal
  <2> QED  BY Zenon, <1>6, <2>1 DEF SendSignal
<1> HIDE DEF EndlessStep
<1> QED  BY ZenonT(60), <1>1, <1>2, <1>3, <1>4, <1>5, <1>6
         DEF Step

LEMMA FreezerEndless ==
    ASSUME NEW h \in Program, Endless(h), EndlessInv(h), ListInv, NEW t \in Freezers,
           FreezerStep(t) \/ FreezeProgramGroup(t) \/ UnFreezeProgramGroup(t)
    PROVE  EndlessStep(h)
<1> USE Kinds DEF At, Goto, ListInv, Types, EndlessStep, EndlessInv, Ending, Handling,
        Exiting, Gone, Unvisited
<1>1. CASE \/ FreezeProgram(t) \/ FreezeEnd(t) \/ Thawed(t) \/ UnFreezeEnd(t)
           \/ FreezeProgramGroup(t)
  BY ZenonT(40), <1>1 DEF FreezeProgram, CanLock, Wait, FreezeEnd, Thawed, UnFreezeEnd,
         FreezeProgramGroup
<1>2a. CASE UnFreezeProgramGroup(t)
  BY Zenon, <1>2a DEF UnFreezeProgramGroup
<1>2b. CASE \E g \in Program : FreezeNext(t, g)
  BY Zenon, <1>2b DEF FreezeNext, Unvisited
<1>2c. ASSUME NEW g \in Program, UnFreezeProgram(t, g)
       PROVE  EndlessStep(h)
  BY Zenon, <1>2c DEF Unvisited, UnFreezeProgram
<1> HIDE DEF EndlessStep
<1> QED  BY ZenonT(60), <1>1, <1>2a, <1>2b, <1>2c
         DEF FreezerStep

LEMMA SenderEndless ==
    ASSUME NEW h \in Program, Endless(h), EndlessInv(h), ListInv, NEW t \in Senders,
           ResumeProcess(t) \/ \E p \in Process : SendMessage(t, p)
    PROVE  EndlessStep(h)
<1> USE Kinds DEF At, Goto, ListInv, Types, EndlessStep, EndlessInv, Ending, Handling,
        Exiting, Gone
<1>1. CASE \/ ResumeProcess(t)
           \/ \E p \in Process : SendMessage(t, p)
  BY ZenonT(40), <1>1 DEF ResumeProcess, SendMessage
<1> HIDE DEF EndlessStep
<1> QED  BY ZenonT(60), <1>1

LEMMA SessionEndless ==
    ASSUME NEW h \in Program, Endless(h), EndlessInv(h), ListInv, NEW t \in Debugged,
           \/ SessionStep(t) \/ DebugInterrupt(t) \/ ProcessContinue(t)
           \/ SessionEnd(t) \/ SessionTerminated(t)
    PROVE  EndlessStep(h)
<1> USE Kinds DEF At, SessionUnchanged, Goto, ListInv, Types, EndlessStep, EndlessInv,
        Ending, Handling, Exiting, Gone
<1>1. CASE \/ Interrupted(t) \/ ContinueProcess(t) \/ ResumeExecution(t)
           \/ DebugInterrupt(t) \/ ProcessContinue(t) \/ SessionTerminated(t)
  BY ZenonT(40), <1>1 DEF Interrupted, ContinueProcess, ResumeExecution, DebugInterrupt,
         ProcessContinue, SessionTerminated
<1>2. CASE SessionEnd(t)
  <2>1. ProgramOf[Main[t]] # h
    BY <1>2, SchedulerConstants DEF Endless
  <2> QED  BY ZenonT(40), <1>2, <2>1 DEF SessionEnd, KillProgram
<1> HIDE DEF EndlessStep
<1> QED  BY ZenonT(60), <1>1, <1>2
         DEF SessionStep

LEMMA RunnerEndless ==
    ASSUME NEW h \in Program, Endless(h), EndlessInv(h), ListInv,
           TearDown \/ \E g \in Program : ScheduleProgram(g) \/ UnscheduleProgram(g)
    PROVE  EndlessStep(h)
<1>0. \A g \in Program : UnscheduleProgram(g) => g # h
  <2>1. ASSUME UnscheduleProgram(h) PROVE exits[h] > 0
    BY <2>1 DEF UnscheduleProgram
  <2>2. exits[h] = 0
    BY Zenon DEF EndlessInv
  <2> QED  BY <2>1, <2>2
<1> USE Kinds DEF At, Goto, ListInv, Types, EndlessStep, EndlessInv, Ending, Handling,
        Exiting, Gone
<1>1. CASE TearDown
  BY Zenon, <1>1 DEF TearDown
<1>2. ASSUME NEW g \in Program, UnscheduleProgram(g)
      PROVE  EndlessStep(h)
  BY Zenon, <1>0, <1>2 DEF UnscheduleProgram
<1>3. ASSUME NEW g \in Program, ScheduleProgram(g)
      PROVE  EndlessStep(h)
  <2>1. pc'[Interpreter] = pc[Interpreter] /\ UNCHANGED <<exits, signal, work, current>>
    BY Zenon, <1>3 DEF ScheduleProgram
  <2>2. pstate'[h] = pstate[h] \/ (pstate[h] = "Initialized" /\ pstate'[h] = "Running")
    BY Zenon, <1>3 DEF ScheduleProgram
  <2> HIDE DEF ListInv, Types, Ending
  <2> QED  BY Zenon, <2>1, <2>2
<1> HIDE DEF EndlessStep
<1> QED  BY ZenonT(60), <1>1, <1>2, <1>3

LEMMA NextEndless ==
    ASSUME NEW h \in Program, Endless(h), EndlessInv(h), ListInv, [Next]_vars
    PROVE  EndlessStep(h)
<1>1. ASSUME UNCHANGED vars PROVE EndlessStep(h)
  BY Zenon, <1>1 DEF vars, EndlessInv, EndlessStep
<1> QED  BY ZenonT(60), <1>1, LoopEndless, StepEndless, FreezerEndless, SenderEndless,
            SessionEndless, RunnerEndless
         DEF Next, Exited

=============================================================================
