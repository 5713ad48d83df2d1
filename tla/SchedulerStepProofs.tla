------------------------ MODULE SchedulerStepProofs -------------------------
(***************************************************************************)
(* The steps that leave the queues alone keep ListInv: tests and waits of  *)
(* the interpreter loop, stopping, freezing and resuming programs,         *)
(* sessions, and what the interpreter thread does with its process.        *)
(***************************************************************************)
EXTENDS SchedulerInvariant

USE SMTT(20), ZenonT(20) DEF programVars, processVars, pauseVars, monitorVars, spinVars,
        threadVars, interpVars, sessionVars

-----------------------------------------------------------------------------
(* Steps that touch no process *)

\* The steps of FreezeProgramGroup and UnFreezeProgramGroup.
LEMMA FreezerKeeps ==
    ASSUME ListInv, NEW t \in Freezers
    PROVE  /\ FreezeProgramGroup(t) => ListInv'
           /\ (\E g \in Program : FreezeNext(t, g)) => ListInv'
           /\ FreezeEnd(t) => ListInv'
           /\ UnFreezeProgramGroup(t) => ListInv'
           /\ (\E g \in Program : UnFreezeProgram(t, g)) => ListInv'
           /\ Thawed(t) => ListInv'
           /\ UnFreezeEnd(t) => ListInv'
<1>1. ASSUME FreezeProgramGroup(t) PROVE ListInv'
  <2>1. pc[t] # "safe" /\ "pausing" \in Points(t)
    BY <1>1, Kinds DEF FreezeProgramGroup, At, Points
  <2>2. OwnStep(t, "pausing")
    BY <1>1, Kinds, SchedulerConstants DEF FreezeProgramGroup, At, Goto, OwnStep,
       ListInv, Types, Scheduled, ProgramStates
  <2> QED  BY <2>1, <2>2, OtherThreadMoves, Kinds
<1>2. ASSUME NEW g \in Program, FreezeNext(t, g) PROVE ListInv'
  <2>1. pc[t] # "safe" /\ "freeze" \in Points(t)
    BY <1>2, Kinds DEF FreezeNext, At, Points
  <2>2. OwnStep(t, "freeze")
    BY <1>2, Kinds, SchedulerConstants DEF FreezeNext, At, Goto, OwnStep, ListInv, Types,
       Scheduled, ProgramStates, Unvisited
  <2> QED  BY <2>1, <2>2, OtherThreadMoves, Kinds
<1>3. ASSUME FreezeEnd(t) PROVE ListInv'
  <2>1. pc[t] # "safe" /\ "unlock" \in Points(t)
    BY <1>3, Kinds DEF FreezeEnd, At, Points
  <2>2. OwnStep(t, "unlock")
    BY <1>3, Kinds, SchedulerConstants DEF FreezeEnd, At, Goto, OwnStep, ListInv, Types,
       Scheduled, ProgramStates
  <2> QED  BY <2>1, <2>2, OtherThreadMoves, Kinds
<1>4. ASSUME UnFreezeProgramGroup(t) PROVE ListInv'
  <2>1. pc[t] # "safe" /\ "unfreezing" \in Points(t)
    BY <1>4, Kinds DEF UnFreezeProgramGroup, At, Points
  <2>2. OwnStep(t, "unfreezing")
    BY <1>4, Kinds, SchedulerConstants DEF UnFreezeProgramGroup, At, Goto, OwnStep,
       ListInv, Types, Scheduled, ProgramStates
  <2> QED  BY <2>1, <2>2, OtherThreadMoves, Kinds
<1>5. ASSUME NEW g \in Program, UnFreezeProgram(t, g) PROVE ListInv'
  <2>1. pc[t] # "safe" /\ "thawing" \in Points(t)
    BY <1>5, Kinds DEF UnFreezeProgram, At, Points
  <2>2. OwnStep(t, "thawing")
    BY <1>5, Kinds, SchedulerConstants DEF UnFreezeProgram, At, Goto, OwnStep, ListInv,
       Types, Scheduled, ProgramStates, Unvisited
  <2> QED  BY <2>1, <2>2, OtherThreadMoves, Kinds
<1>6. ASSUME Thawed(t) PROVE ListInv'
  <2>1. pc[t] # "safe" /\ "unfreezing" \in Points(t)
    BY <1>6, Kinds DEF Thawed, At, Points
  <2>2. OwnStep(t, "unfreezing")
    BY <1>6, Kinds, SchedulerConstants DEF Thawed, At, Goto, OwnStep, ListInv, Types,
       Scheduled, ProgramStates
  <2> QED  BY <2>1, <2>2, OtherThreadMoves, Kinds
<1>7. ASSUME UnFreezeEnd(t) PROVE ListInv'
  <2>1. pc[t] # "safe" /\ "unlock" \in Points(t)
    BY <1>7, Kinds DEF UnFreezeEnd, At, Points
  <2>2. OwnStep(t, "unlock")
    BY <1>7, Kinds, SchedulerConstants DEF UnFreezeEnd, At, Goto, OwnStep, ListInv,
       Types, Scheduled, ProgramStates
  <2> QED  BY Zenon, <2>1, <2>2, OtherThreadMoves, Kinds
<1> QED  BY <1>1, <1>2, <1>3, <1>4, <1>5, <1>6, <1>7

\* The steps of a session thread that leave the processes alone.
LEMMA SessionKeeps ==
    ASSUME ListInv, NEW g \in Debugged
    PROVE  /\ DebugInterrupt(g) => ListInv'
           /\ Interrupted(g) => ListInv'
           /\ ProcessContinue(g) => ListInv'
           /\ SessionEnd(g) => ListInv'
           /\ ResumeExecution(g) => ListInv'
           /\ SessionTerminated(g) => ListInv'
<1>1. ASSUME DebugInterrupt(g) PROVE ListInv'
  <2>1. pc[g] # "safe" /\ "stop" \in Points(g)
    BY <1>1, Kinds DEF DebugInterrupt, At, Points
  <2>2. OwnStep(g, "stop")
    BY <1>1, Kinds, SchedulerConstants DEF DebugInterrupt, At, Goto, OwnStep, ListInv,
       Types, Scheduled, ProgramStates, SessionUnchanged
  <2> QED  BY <2>1, <2>2, OtherThreadMoves, Kinds
<1>2. ASSUME Interrupted(g) PROVE ListInv'
  <2>1. pc[g] # "safe" /\ "idle" \in Points(g)
    BY <1>2, Kinds DEF Interrupted, At, Points
  <2>2. OwnStep(g, "idle")
    BY <1>2, Kinds, SchedulerConstants DEF Interrupted, At, Goto, OwnStep, ListInv,
       Types, Scheduled, ProgramStates
  <2> QED  BY <2>1, <2>2, OtherThreadMoves, Kinds
<1>3. ASSUME ProcessContinue(g) PROVE ListInv'
  <2>1. pc[g] # "safe" /\ "next" \in Points(g)
    BY <1>3, Kinds DEF ProcessContinue, At, Points
  <2>2. OwnStep(g, "next")
    BY <1>3, Kinds, SchedulerConstants DEF ProcessContinue, At, Goto, OwnStep, ListInv,
       Types, Scheduled, ProgramStates, SessionUnchanged
  <2> QED  BY <2>1, <2>2, OtherThreadMoves, Kinds
<1>4. ASSUME SessionEnd(g) PROVE ListInv'
  <2>1. pc[g] # "safe" /\ "next" \in Points(g)
    BY <1>4, Kinds DEF SessionEnd, At, Points
  <2>2. OwnStep(g, "next")
    BY <1>4, Kinds, SchedulerConstants DEF SessionEnd, At, Goto, OwnStep, ListInv, Types,
       Scheduled, ProgramStates, SessionUnchanged, KillProgram
  <2> QED  BY <2>1, <2>2, OtherThreadMoves, Kinds
<1>5. ASSUME ResumeExecution(g) PROVE ListInv'
  <2>1. pc[g] # "safe" /\ "resume" \in Points(g)
    BY <1>5, Kinds DEF ResumeExecution, At, Points
  <2>2. OwnStep(g, "resume")
    BY <1>5, Kinds, SchedulerConstants DEF ResumeExecution, At, Goto, OwnStep, ListInv,
       Types, Scheduled, ProgramStates, SessionUnchanged
  <2> QED  BY <2>1, <2>2, OtherThreadMoves, Kinds
<1>6. ASSUME SessionTerminated(g) PROVE ListInv'
  <2>1. pc[g] # "safe" /\ "idle" \in Points(g)
    BY <1>6, Kinds DEF SessionTerminated, At, Points
  <2>2. OwnStep(g, "idle")
    BY <1>6, Kinds, SchedulerConstants DEF SessionTerminated, At, Goto, OwnStep, ListInv,
       Types, Scheduled, ProgramStates, SessionUnchanged
  <2> QED  BY <2>1, <2>2, OtherThreadMoves, Kinds
<1> QED  BY <1>1, <1>2, <1>3, <1>4, <1>5, <1>6

\* A message is put into a mailbox.
LEMMA SendMessageKeeps ==
    ASSUME ListInv, NEW t \in Senders, NEW p \in Process
    PROVE  /\ SendMessage(t, p) => ListInv'
<1>1. ASSUME SendMessage(t, p) PROVE ListInv'
  <2>1. pc[t] # "safe" /\ "resume_process" \in Points(t)
    BY <1>1, Kinds DEF SendMessage, At, Points
  <2>2. OwnStep(t, "resume_process")
    BY <1>1, Kinds, SchedulerConstants DEF SendMessage, At, Goto, OwnStep, ListInv,
       Types, Scheduled, ProgramStates, Exists
  <2> QED  BY <2>1, <2>2, OtherThreadMoves, Kinds
<1> QED  BY <1>1

\* The runner takes a program out, and shuts the scheduler down.
LEMMA RunnerKeeps ==
    ASSUME ListInv
    PROVE  /\ (\E g \in Program : UnscheduleProgram(g)) => ListInv'
           /\ TearDown => ListInv'
<1>1. ASSUME NEW g \in Program, UnscheduleProgram(g) PROVE ListInv'
  <2>1. pc[Runner] # "safe" /\ "idle" \in Points(Runner)
    BY <1>1, Kinds DEF UnscheduleProgram, At, Points
  <2>2. OwnStep(Runner, "idle")
    BY <1>1, Kinds, SchedulerConstants DEF UnscheduleProgram, At, Goto, OwnStep, ListInv,
       Types, Scheduled, ProgramStates
  <2> QED  BY <2>1, <2>2, OtherThreadMoves, Kinds
<1>2. ASSUME TearDown PROVE ListInv'
  <2>1. pc[Runner] # "safe" /\ "down" \in Points(Runner)
    BY <1>2, Kinds DEF TearDown, At, Points
  <2>2. OwnStep(Runner, "down")
    BY <1>2, Kinds, SchedulerConstants DEF TearDown, At, Goto, OwnStep, ListInv, Types,
       Scheduled, ProgramStates
  <2> QED  BY <2>1, <2>2, OtherThreadMoves, Kinds
<1> QED  BY <1>1, <1>2

\* The tests of the interpreter loop, its waits, and Dart code that only works on
\* its own mailbox.
LEMMA LoopKeeps ==
    ASSUME ListInv,
           \/ LoopTest \/ AfterLoop \/ PauseOn \/ PauseWait \/ PauseOff \/ IdleWait \/ IdleEnd
           \/ InnerTest \/ EnterDart \/ RunReceive \/ RunSendSelf
           \/ YieldMailbox \/ YieldSignal
    PROVE  ListInv'
<1> USE DEF IGoto, ControlOnly, OtherVars
<1>1. UNCHANGED <<pstate, paused, state, ready, target, work, current, next, session, stopped>>
  BY Zenon DEF LoopTest, AfterLoop, PauseOn, PauseWait, PauseOff, IdleWait, IdleEnd, InnerTest,
         EnterDart, RunReceive, RunSendSelf, YieldMailbox, YieldSignal
<1>2. ASSUME NEW phase \in {NoProcess, RunsProcess, Yielding}, pc[Interpreter] \in phase,
             NEW label \in phase, Goto(Interpreter, label)
      PROVE  ListInv'
  <2>1. label \notin {"resume_process", "signal", "target", "target_exit"}
    BY Zenon, <1>2 DEF NoProcess, RunsProcess, Yielding
  <2>2. OwnStep(Interpreter, label)
    BY <1>1, <1>2, <2>1, Kinds DEF OwnStep, ListInv, Types, Scheduled
  <2> QED  BY <1>2, <2>2, InterpreterMoves DEF Phases
<1>3. CASE LoopTest \/ AfterLoop \/ PauseOn \/ PauseWait \/ PauseOff \/ IdleWait \/ IdleEnd
  <2>1. pc[Interpreter] \in NoProcess /\ \E label \in NoProcess : Goto(Interpreter, label)
    BY Zenon, <1>3 DEF LoopTest, AfterLoop, PauseOn, PauseWait, PauseOff, IdleWait, IdleEnd,
                NoProcess
  <2> QED  BY Zenon, <1>2, <2>1
<1>4. CASE InnerTest \/ EnterDart \/ RunReceive \/ RunSendSelf
  <2>1. pc[Interpreter] \in RunsProcess /\ \E label \in RunsProcess : Goto(Interpreter, label)
    BY Zenon, <1>4 DEF InnerTest, EnterDart, RunReceive, RunSendSelf, RunsProcess
  <2> QED  BY <1>2, <2>1
<1>5. CASE YieldMailbox \/ YieldSignal
  <2>1. pc[Interpreter] \in Yielding /\ \E label \in Yielding : Goto(Interpreter, label)
    BY Zenon, <1>5 DEF YieldMailbox, YieldSignal, Yielding
  <2> QED  BY Zenon, <1>2, <2>1
<1> QED  BY Zenon, <1>3, <1>4, <1>5

-----------------------------------------------------------------------------
(* Stopping, freezing and resuming a program, and picking the process to signal *)

\* FreezeProgram takes the program out of kRunning or waits.
LEMMA FreezeProgramKeeps ==
    ASSUME ListInv, NEW t \in Freezers, FreezeProgram(t)
    PROVE  ListInv'
<1>1. target[t] \in Program /\ t \in Thread /\ pc[t] = "freeze"
  BY Zenon, Kinds DEF FreezeProgram, At, ListInv, FreezersAt
<1>2. CASE pstate[target[t]] = "Running"
  <2>1. /\ pstate' = [pstate EXCEPT ![target[t]] = "Frozen"] /\ Goto(t, "moving")
        /\ UNCHANGED <<paused, state, ready, target, work, current, next, session, stopped>>
    BY <1>2 DEF FreezeProgram
  <2>2. /\ pstate' \in [Program -> ProgramStates]
        /\ \A g \in Program : pstate[g] # "Initialized" => pstate'[g] # "Initialized"
    BY <1>1, <2>1 DEF ListInv, Types, ProgramStates
  <2>3. OwnStep(t, "moving")
    BY <1>1, <2>1, <2>2, Kinds, SchedulerConstants DEF OwnStep, ListInv, Types, Scheduled
  <2> QED  BY <1>1, <2>3, OtherThreadMoves, Kinds DEF Points
<1>3. CASE pstate[target[t]] # "Running"
  BY <1>3, SameKeeps DEF FreezeProgram
<1> QED  BY Zenon, <1>2, <1>3

\* A program keeps being scheduled when its state changes to another one.
LEMMA ProgramMoves ==
    ASSUME ListInv, NEW t \in Thread, NEW label \in Points(t), Goto(t, label),
           label \notin {"safe", "resume_process", "signal", "target", "target_exit"},
           pc[t] \in {"stop", "moving", "resume", "resuming", "pausing", "unlock"},
           t = Interpreter => label \in Handling,
           t \in Freezers => label \notin {"freeze", "moving", "thawing"},
           NEW s \in ProgramStates \ {"Initialized"},
           \/ UNCHANGED pstate
           \/ ProgramAt(t) \in Program /\ pstate' = [pstate EXCEPT ![ProgramAt(t)] = s],
           UNCHANGED <<paused, state, ready, target, work, current, next, session, stopped>>
    PROVE  ListInv'
<1>1. t \in Debugged => pstate[t] # "Initialized"
  BY DEF ListInv, Scheduled
<1>2. /\ pstate' \in [Program -> ProgramStates]
      /\ \A g \in Program : pstate[g] # "Initialized" => pstate'[g] # "Initialized"
  BY Zenon DEF ListInv, Types
<1>3. OwnStep(t, label)
  BY <1>1, <1>2, Kinds, SchedulerConstants DEF OwnStep, ListInv, Types, Scheduled
<1>4. CASE t = Interpreter
  <2>1. pc[t] \in Handling
    BY <1>4, Kinds DEF ListInv, Labels, Points, InterpreterPC, Handling
  <2> QED  BY <1>3, <1>4, <2>1, InterpreterMoves DEF Phases
<1>5. CASE t # Interpreter
  BY <1>3, <1>5, OtherThreadMoves
<1> QED  BY <1>4, <1>5

\* StopProgram takes the program out of kRunning or waits.
LEMMA StopProgramKeeps ==
    ASSUME ListInv, NEW t \in Thread, StopProgram(t)
    PROVE  ListInv'
<1>1. pc[t] = "stop" /\ ProgramAt(t) \in Program
  BY Zenon, ProgramAtHand DEF StopProgram, At
<1>2. t = Interpreter \/ t \in Debugged
  BY <1>1, Kinds DEF ListInv, Labels, Points
<1>3. CASE pstate[ProgramAt(t)] # "Running"
  BY <1>3, SameKeeps DEF StopProgram
<1>4. CASE pstate[ProgramAt(t)] = "Running"
  <2> DEFINE label == IF t = Interpreter THEN "moving" ELSE "pausing"
  <2>1. label \in Points(t) /\ (t = Interpreter => label \in Handling)
    BY <1>2, Kinds DEF Points, InterpreterPC, Handling
  <2>2. Goto(t, label) /\ pstate' = [pstate EXCEPT ![ProgramAt(t)] = "Session"]
    BY <1>4 DEF StopProgram
  <2>3. label \in {"moving", "pausing"} /\ t \notin Freezers
    BY <1>2, Kinds
  <2>4. UNCHANGED <<paused, state, ready, target, work, current, next, session, stopped>>
    BY DEF StopProgram
  <2> HIDE DEF label
  <2> QED  BY Zenon, <1>1, <2>1, <2>2, <2>3, <2>4, ProgramMoves DEF ProgramStates
<1> QED  BY <1>3, <1>4

\* PauseInterpreterLoop waits or goes on.
LEMMA PauseInterpreterLoopKeeps ==
    ASSUME ListInv, NEW t \in Thread, PauseInterpreterLoop(t)
    PROVE  ListInv'
<1>1. pc[t] = "pausing" /\ (t \in Freezers \/ t \in Debugged)
  BY Kinds DEF PauseInterpreterLoop, At, ListInv, Labels, Points, InterpreterPC
<1>2. CASE ~interpreter_is_paused
  BY <1>2, SameKeeps DEF PauseInterpreterLoop
<1>3. CASE interpreter_is_paused
  <2> DEFINE label == IF t \in Debugged THEN "moving" ELSE "freezing"
  <2>1. /\ label \in Points(t) /\ label \in {"moving", "freezing"} /\ t # Interpreter
        /\ t \in Freezers => label = "freezing"
    BY <1>1, Kinds DEF Points
  <2>2. Goto(t, label)
    BY <1>3 DEF PauseInterpreterLoop
  <2>3. UNCHANGED <<pstate, paused, state, ready, target, work, current, next,
                    session, stopped>>
    BY DEF PauseInterpreterLoop
  <2> HIDE DEF label
  <2> QED  BY <1>1, <2>1, <2>2, <2>3, ProgramMoves DEF ProgramStates
<1> QED  BY <1>2, <1>3

\* PauseAllProcessesOfProgram returns.
LEMMA PausedAllKeeps ==
    ASSUME ListInv, NEW t \in Thread, PausedAll(t)
    PROVE  ListInv'
<1> DEFINE label == IF t = Interpreter THEN "event"
                    ELSE IF t \in Debugged THEN "stopped" ELSE "freezing"
<1>1. /\ pc[t] = "moving" /\ (t = Interpreter \/ t \in Freezers \/ t \in Debugged)
      /\ UNCHANGED <<pstate, paused, state, ready, target, work, current, next,
                     session, stopped>>
  BY DEF PausedAll, At
<1>2. Goto(t, label)
  BY Kinds DEF PausedAll
<1>3. label \in Points(t) /\ label \in {"event", "stopped", "freezing"}
  BY <1>1, Kinds DEF Points, InterpreterPC
<1>4. t = Interpreter => label \in Handling
  BY DEF Handling
<1> HIDE DEF label
<1> QED  BY <1>1, <1>2, <1>3, <1>4, ProgramMoves DEF ProgramStates

\* ResumeProgram takes the monitor.
LEMMA ResumeProgramKeeps ==
    ASSUME ListInv, NEW t \in Thread, ResumeProgram(t)
    PROVE  ListInv'
<1>1. /\ pc[t] = "resume" /\ Goto(t, "resuming")
      /\ UNCHANGED <<pstate, paused, state, ready, target, work, current, next,
                     session, stopped>>
  BY DEF ResumeProgram, At
<1>2. t = Interpreter \/ t \in Debugged
  BY <1>1, Kinds DEF ListInv, Labels, Points
<1>3. "resuming" \in Points(t)
  BY <1>2, Kinds DEF Points, InterpreterPC
<1> QED  BY <1>1, <1>3, ProgramMoves DEF ProgramStates, Handling

\* The end of a section of pause_monitor_.
LEMMA UnlockKeeps ==
    ASSUME ListInv, NEW t \in Thread, Unlock(t)
    PROVE  ListInv'
<1>1. /\ pc[t] = "unlock" /\ Goto(t, Return(t))
      /\ UNCHANGED <<pstate, paused, state, ready, target, work, current, next,
                     session, stopped>>
  BY DEF Unlock, At
<1>2. t # Interpreter
  BY <1>1, Kinds DEF ListInv, Labels, Points, InterpreterPC
<1>3. Return(t) \in Points(t) /\ Return(t) \in {"next", "idle"}
  BY <1>2, Kinds DEF Points, Return
<1> QED  BY <1>1, <1>2, <1>3, ProgramMoves DEF ProgramStates

\* ResumeProgram has emptied the paused list.
LEMMA ResumedProgramKeeps ==
    ASSUME ListInv, NEW t \in Thread, ResumedProgram(t)
    PROVE  ListInv'
<1>1. /\ pc[t] = "resuming" /\ ProgramAt(t) \in Program
      /\ pstate' = [pstate EXCEPT ![ProgramAt(t)] = "Running"]
      /\ UNCHANGED <<paused, state, ready, target, work, current, next, session, stopped>>
  BY ProgramAtHand DEF ResumedProgram, At
<1>2. CASE t # Interpreter
  <2>1. t \in Debugged
    BY <1>1, <1>2, Kinds DEF ListInv, Labels, Points
  <2>2. Goto(t, "idle") /\ "idle" \in Points(t) /\ t \notin Freezers
    BY Zenon, <1>2, <2>1, Kinds DEF ResumedProgram, Points
  <2> QED  BY Zenon, <1>1, <1>2, <2>2, ProgramMoves DEF ProgramStates
<1>3. CASE t = Interpreter
  <2>1. Goto(t, "result") /\ "result" \in Points(t)
    BY Zenon, <1>3 DEF ResumedProgram, Points, InterpreterPC
  <2>2. /\ pstate' \in [Program -> ProgramStates]
        /\ \A g \in Program : pstate[g] # "Initialized" => pstate'[g] # "Initialized"
    BY <1>1 DEF ListInv, Types, ProgramStates
  <2>3. OwnStep(t, "result")
    BY <1>1, <1>3, <2>1, <2>2, Kinds, SchedulerConstants
       DEF OwnStep, ListInv, Types, Scheduled
  <2>4. Types' /\ Labels' /\ FreezersAt' /\ Scheduled'
    BY <2>1, <2>3, OwnStepScheduled
  <2>5. pc'[Interpreter] = "result" /\ \A u \in Thread : u # Interpreter => pc'[u] = pc[u]
    BY Zenon, <1>3, <2>1, GotoMoves DEF ListInv
  <2>6. CurrentAt'
    BY <1>1, <1>3, <2>5 DEF ListInv, CurrentAt, Handling
  <2>7. ReadyList' /\ PausedLists'
    BY <1>1, ListsFrame DEF ListInv
  <2>8. EnqueuingOwned'
    <3>1. \A u \in Thread : pc'[u] = "safe" <=> pc[u] = "safe"
      BY Zenon, <1>1, <1>3, <2>5
    <3> QED  BY <1>1, <3>1, OwnersFrame DEF ListInv
  <2>9. RunningOwned'
    BY Zenon, <1>1, <1>3, <2>5 DEF ListInv, RunningOwned, Interpreting, Yielding
  <2> QED  BY Zenon, <2>4, <2>6, <2>7, <2>8, <2>9 DEF ListInv
<1> QED  BY <1>2, <1>3

\* SendSignal picks the next process to signal.
LEMMA SendSignalKeeps ==
    ASSUME ListInv, NEW t \in Thread, NEW p \in Process, SendSignal(t, p)
    PROVE  ListInv'
<1>1. /\ pc[t] = "next" /\ p \in work[t] /\ work' = [work EXCEPT ![t] = @ \ {p}]
      /\ UNCHANGED <<pstate, paused, state, ready, current, next, session, stopped>>
  BY DEF SendSignal, At
<1>2. pstate[ProgramOf[p]] # "Initialized"
  BY <1>1 DEF ListInv, Scheduled
<1>3. t = Interpreter \/ t \in Debugged
  BY <1>1, Kinds DEF ListInv, Labels, Points
<1> DEFINE label == IF Exists(p) THEN "signal" ELSE "next"
<1>4. label \in Points(t) /\ label \in {"signal", "next"}
  BY Zenon, <1>3, Kinds DEF Points, InterpreterPC
<1>5. Goto(t, label) /\ (label = "signal" => target' = [target EXCEPT ![t] = p])
                     /\ (label = "next" => UNCHANGED target)
  BY Zenon, <1>1 DEF SendSignal, Goto, ListInv, Types
<1> HIDE DEF label
<1>6. /\ target' \in [Thread -> Process \cup Program \cup {NULL}]
      /\ work' \in [Thread -> SUBSET Process] /\ work'[t] \subseteq work[t]
      /\ \A u \in Thread : u # t => target'[u] = target[u] /\ work'[u] = work[u]
      /\ label = "signal" => target'[t] = p
  BY ZenonT(40), <1>1, <1>4, <1>5 DEF ListInv, Types
<1>7. t \in Debugged => pstate[t] # "Initialized"
  BY Zenon, <1>1 DEF ListInv, Scheduled
<1>8. OwnStep(t, label)
  <2>1. /\ pstate \in [Program -> ProgramStates]
        /\ session \in [Debugged -> {"Running", "Paused", "Terminating", "Terminated"}]
        /\ stopped \in [Debugged -> Process \cup {NULL}]
    BY DEF ListInv, Types
  <2>2. \A q \in work'[t] : pstate[ProgramOf[q]] # "Initialized"
    BY <1>6 DEF ListInv, Scheduled
  <2>3. t \notin Freezers
    BY <1>3, Kinds
  <2> QED  BY Zenon, <1>1, <1>2, <1>4, <1>5, <1>6, <1>7, <2>1, <2>2, <2>3 DEF OwnStep
<1>9. CASE t # Interpreter
  BY <1>1, <1>4, <1>8, <1>9, OtherThreadMoves
<1>10. CASE t = Interpreter
  BY Zenon, <1>1, <1>4, <1>8, <1>10, InterpreterMoves DEF Phases
<1> QED  BY <1>9, <1>10

-----------------------------------------------------------------------------
(* The process in the hands of the interpreter thread *)

\* The state s that the current process has when the interpreter thread gets to label.
OwnState(label, s) ==
    /\ label \in Interpreting <=> s = "Running"
    /\ label \in Yielding <=> s = "Yielding"
    /\ label \in Handling \cup {"result"} => s \in Interruptions \cup {"Terminated"}
    /\ label = "next" => s = "Dead"

\* The interpreter thread moves and gives one of its processes, in kRunning,
\* kYielding or on its way out, a state in which no list holds it.
LEMMA OwnProcessKeeps ==
    ASSUME ListInv, NEW label \in InterpreterPC \ {"safe", "signal"},
           Goto(Interpreter, label), pc[Interpreter] # "safe",
           NEW s \in ProcessStates \ {"Ready", "Enqueuing", "New"},
           current \in Process, state[current] \notin {"New", "Sleeping"},
           state[current] \notin {"Ready", "Enqueuing"},
           state' = [state EXCEPT ![current] = s],
           UNCHANGED <<pstate, paused, ready, current, next, session, stopped>>,
           target' \in [Thread -> Process \cup Program \cup {NULL}],
           \A u \in Thread : u # Interpreter => target'[u] = target[u],
           label \in {"target", "target_exit"} =>
              target'[Interpreter] \in Process
              /\ pstate[ProgramOf[target'[Interpreter]]] # "Initialized",
           work' \in [Thread -> SUBSET Process],
           \A u \in Thread : u # Interpreter => work'[u] = work[u],
           \A p \in work'[Interpreter] : pstate[ProgramOf[p]] # "Initialized",
           OwnState(label, s),
           \/ pc[Interpreter] = "result" /\ label = "next"
           \/ pc[Interpreter] \in (Interpreting \cup Yielding) \ {"resched"}
    PROVE  ListInv'
<1>1. /\ Labels' /\ pc' \in [Thread -> InterpreterPC \cup ThreadPC]
      /\ pc'[Interpreter] = label
      /\ \A u \in Thread : u # Interpreter => pc'[u] = pc[u]
  BY Zenon, GotoMoves, Kinds DEF ListInv, Points
<1>2. /\ state' \in [Process -> ProcessStates] /\ state'[current] = s
      /\ \A p \in Process : p # current => state'[p] = state[p]
  BY Zenon DEF ListInv, Types
<1>3. Types'
  BY Zenon, <1>1, <1>2 DEF ListInv, Types
<1>4. FreezersAt'
  BY Zenon, <1>1, Kinds DEF ListInv, FreezersAt
<1>5. pstate[ProgramOf[current]] # "Initialized"
  BY Zenon DEF ListInv, Scheduled
<1>6. StepOf(Interpreter, current)
  BY Zenon, <1>1, <1>2, <1>5 DEF StepOf
<1>7. label \notin {"resume_process", "signal"} /\ Interpreter \notin Debugged
  BY Zenon, Kinds DEF InterpreterPC
<1>8. Scheduled'
  BY Zenon, <1>1, <1>6, <1>7, ScheduledFrame, Kinds DEF ListInv
<1>9. ReadyList' /\ PausedLists'
  BY Zenon, <1>2, ListsFrame DEF ListInv
<1>10. \A u \in Thread : (pc'[u] = "safe" <=> pc[u] = "safe")
                         /\ (pc[u] = "safe" => target'[u] = target[u])
  BY Zenon, <1>1
<1>11. EnqueuingOwned'
  BY ZenonT(40), <1>2, <1>10, OwnersFrame DEF ListInv
<1>12. \A g \in Debugged : stopped[g] # NULL =>
          /\ stopped[g] \in Process /\ stopped[g] # current
          /\ ProgramOf[stopped[g]] = g /\ state[stopped[g]] \in Interruptions
  <2>1. pc[Interpreter] # "result" => state[current] \notin Interruptions
    BY Zenon DEF ListInv, RunningOwned, Interruptions
  <2>2. CurrentAt
    BY Zenon DEF ListInv
  <2>3. \A g \in Debugged : stopped[g] # NULL => stopped[g] \in Process
    BY DEF ListInv, Types
  <2>4. \A g \in Debugged : stopped[g] # NULL =>
          ProgramOf[stopped[g]] = g /\ state[stopped[g]] \in Interruptions
    BY Zenon, <2>2 DEF CurrentAt
  <2>5. \A g \in Debugged : stopped[g] # NULL => stopped[g] # current
    BY Zenon, <2>1, <2>2, <2>4 DEF CurrentAt
  <2> QED  BY Zenon, <2>3, <2>4, <2>5
<1>13. CurrentAt'
  <2>1. \A g \in Debugged : stopped[g] # NULL => state'[stopped[g]] \in Interruptions
    BY Zenon, <1>2, <1>12
  <2>2. pc'[Interpreter] \in Handling \cup {"result"} =>
           state'[current] \in Interruptions \cup {"Terminated"}
    BY Zenon, <1>1, <1>2 DEF OwnState
  <2>3. pc'[Interpreter] \in {"next", "signal", "safe"} => state'[current] = "Dead"
    BY ZenonT(40), <1>1, <1>2 DEF OwnState
  <2>4. UNCHANGED <<current, stopped>>
    BY Zenon
  <2> QED  BY Zenon, <1>12, <2>1, <2>2, <2>3, <2>4 DEF CurrentAt
<1>14. RunningOwned'
  <2>1. next # NULL => label = "next" /\ next \in Process /\ next # current
                       /\ state'[next] = "Running"
    BY Zenon, <1>2 DEF ListInv, Types, RunningOwned, Interpreting, Yielding
  <2>2. \A p \in Process : /\ state'[p] = "Running" => p = next \/ p = current
                           /\ state'[p] = "Yielding" => p = current
    BY Zenon, <1>2 DEF ListInv, RunningOwned
  <2> QED  BY Zenon, <1>1, <1>2, <2>1, <2>2 DEF RunningOwned, OwnState
<1> QED  BY Zenon, <1>1, <1>3, <1>4, <1>8, <1>9, <1>11, <1>13, <1>14 DEF ListInv

\* The process starts to yield.
LEMMA RunYieldKeeps ==
    ASSUME ListInv, RunYield
    PROVE  ListInv'
<1> USE DEF RunYield, IGoto, ProcessOnly, OtherVars
<1> DEFINE label == "yield"
<1>1. /\ label \in InterpreterPC \ {"safe", "signal"} /\ Goto(Interpreter, label)
      /\ pc[Interpreter] # "safe"
  BY ZenonT(40) DEF InterpreterPC, HandleEvent, HandleEventResult
<1>2. /\ current \in Process
      /\ state[current] \notin {"New", "Sleeping", "Ready", "Enqueuing"}
  BY Zenon DEF ListInv, CurrentAt, RunningOwned, Interpreting, Yielding, Interruptions,
     HandleEventResult
<1>3. /\ state' = [state EXCEPT ![current] = "Yielding"]
      /\ UNCHANGED <<pstate, paused, ready, current, next, session, stopped>>
  BY Zenon, <1>2 DEF ListInv, RunningOwned, Interpreting
<1>4. pstate[ProgramOf[current]] # "Initialized"
  BY Zenon, <1>2 DEF ListInv, Scheduled
<1>5. /\ target' \in [Thread -> Process \cup Program \cup {NULL}]
      /\ \A u \in Thread : u # Interpreter => target'[u] = target[u]
      /\ label \in {"target", "target_exit"} =>
            target'[Interpreter] \in Process
            /\ pstate[ProgramOf[target'[Interpreter]]] # "Initialized"
  BY ZenonT(40), <1>4, Kinds DEF ListInv, Types, HandleEvent
<1>6. /\ work' \in [Thread -> SUBSET Process]
      /\ \A u \in Thread : u # Interpreter => work'[u] = work[u]
      /\ \A q \in work'[Interpreter] : pstate[ProgramOf[q]] # "Initialized"
  BY <1>2, <1>4, Kinds, SchedulerConstants DEF ListInv, Types, Scheduled
<1>7. \/ pc[Interpreter] = "result" /\ label = "next"
      \/ pc[Interpreter] \in (Interpreting \cup Yielding) \ {"resched"}
  BY DEF Interpreting, Yielding
<1>8. OwnState(label, "Yielding")
  BY DEF OwnState, Interpreting, Yielding, Handling, Interruptions, HandleEvent,
     HandleEventResult
<1> HIDE DEF label
<1> QED  BY Zenon, <1>1, <1>2, <1>3, <1>5, <1>6, <1>7, <1>8, OwnProcessKeeps DEF ProcessStates,
          Interruptions

\* It goes to sleep.
LEMMA YieldSleepKeeps ==
    ASSUME ListInv, YieldSleep
    PROVE  ListInv'
<1> USE DEF YieldSleep, IGoto, ProcessOnly, OtherVars
<1> DEFINE label == "loop"
<1>1. /\ label \in InterpreterPC \ {"safe", "signal"} /\ Goto(Interpreter, label)
      /\ pc[Interpreter] # "safe"
  BY Zenon DEF InterpreterPC, HandleEvent, HandleEventResult
<1>2. /\ current \in Process
      /\ state[current] \notin {"New", "Sleeping", "Ready", "Enqueuing"}
  BY DEF ListInv, CurrentAt, RunningOwned, Interpreting, Yielding, Interruptions,
     HandleEventResult
<1>3. /\ state' = [state EXCEPT ![current] = "Sleeping"]
      /\ UNCHANGED <<pstate, paused, ready, current, next, session, stopped>>
  BY Zenon, <1>2 DEF ListInv, RunningOwned, Interpreting
<1>4. pstate[ProgramOf[current]] # "Initialized"
  BY Zenon, <1>2 DEF ListInv, Scheduled
<1>5. /\ target' \in [Thread -> Process \cup Program \cup {NULL}]
      /\ \A u \in Thread : u # Interpreter => target'[u] = target[u]
      /\ label \in {"target", "target_exit"} =>
            target'[Interpreter] \in Process
            /\ pstate[ProgramOf[target'[Interpreter]]] # "Initialized"
  BY Zenon, <1>4, Kinds DEF ListInv, Types, HandleEvent
<1>6. /\ work' \in [Thread -> SUBSET Process]
      /\ \A u \in Thread : u # Interpreter => work'[u] = work[u]
      /\ \A q \in work'[Interpreter] : pstate[ProgramOf[q]] # "Initialized"
  BY Zenon, <1>2, <1>4, Kinds, SchedulerConstants DEF ListInv, Types, Scheduled
<1>7. \/ pc[Interpreter] = "result" /\ label = "next"
      \/ pc[Interpreter] \in (Interpreting \cup Yielding) \ {"resched"}
  BY DEF Interpreting, Yielding
<1>8. OwnState(label, "Sleeping")
  BY DEF OwnState, Interpreting, Yielding, Handling, Interruptions, HandleEvent,
     HandleEventResult
<1> HIDE DEF label
<1> QED  BY Zenon, <1>1, <1>2, <1>3, <1>5, <1>6, <1>7, <1>8, OwnProcessKeeps DEF ProcessStates,
          Interruptions

\* A signal terminates it.
LEMMA InterpretSignalKeeps ==
    ASSUME ListInv, InterpretSignal
    PROVE  ListInv'
<1> USE DEF InterpretSignal, IGoto, ProcessOnly, OtherVars
<1> DEFINE label == HandleEvent
<1>1. /\ label \in InterpreterPC \ {"safe", "signal"} /\ Goto(Interpreter, label)
      /\ pc[Interpreter] # "safe"
  BY Zenon DEF InterpreterPC, HandleEvent, HandleEventResult
<1>2. /\ current \in Process
      /\ state[current] \notin {"New", "Sleeping", "Ready", "Enqueuing"}
  BY Zenon DEF ListInv, CurrentAt, RunningOwned, Interpreting, Yielding, Interruptions,
     HandleEventResult
<1>3. /\ state' = [state EXCEPT ![current] = "Terminated"]
      /\ UNCHANGED <<pstate, paused, ready, current, next, session, stopped>>
  BY Zenon, <1>2 DEF ListInv, RunningOwned, Interpreting
<1>4. pstate[ProgramOf[current]] # "Initialized"
  BY Zenon, <1>2 DEF ListInv, Scheduled
<1>5. /\ target' \in [Thread -> Process \cup Program \cup {NULL}]
      /\ \A u \in Thread : u # Interpreter => target'[u] = target[u]
      /\ label \in {"target", "target_exit"} =>
            target'[Interpreter] \in Process
            /\ pstate[ProgramOf[target'[Interpreter]]] # "Initialized"
  BY Zenon, <1>4, Kinds DEF ListInv, Types, HandleEvent
<1>6. /\ work' \in [Thread -> SUBSET Process]
      /\ \A u \in Thread : u # Interpreter => work'[u] = work[u]
      /\ \A q \in work'[Interpreter] : pstate[ProgramOf[q]] # "Initialized"
  BY Zenon, <1>2, <1>4, Kinds, SchedulerConstants DEF ListInv, Types, Scheduled
<1>7. \/ pc[Interpreter] = "result" /\ label = "next"
      \/ pc[Interpreter] \in (Interpreting \cup Yielding) \ {"resched"}
  BY Zenon DEF Interpreting, Yielding
<1>8. OwnState(label, "Terminated")
  BY DEF OwnState, Interpreting, Yielding, Handling, Interruptions, HandleEvent,
     HandleEventResult
<1> HIDE DEF label
<1> QED  BY Zenon, <1>1, <1>2, <1>3, <1>5, <1>6, <1>7, <1>8, OwnProcessKeeps DEF ProcessStates,
          Interruptions

\* It ends or is interrupted.
LEMMA RunEventKeeps ==
    ASSUME ListInv, NEW event \in Interruptions \cup {"Terminated"}, RunEvent(event)
    PROVE  ListInv'
<1> USE DEF RunEvent, IGoto, ProcessOnly, OtherVars
<1> DEFINE label == HandleEvent
<1>1. /\ label \in InterpreterPC \ {"safe", "signal"} /\ Goto(Interpreter, label)
      /\ pc[Interpreter] # "safe"
  BY Zenon DEF InterpreterPC, HandleEvent, HandleEventResult
<1>2. /\ current \in Process
      /\ state[current] \notin {"New", "Sleeping", "Ready", "Enqueuing"}
  BY Zenon DEF ListInv, CurrentAt, RunningOwned, Interpreting, Yielding, Interruptions,
     HandleEventResult
<1>3. /\ state' = [state EXCEPT ![current] = event]
      /\ UNCHANGED <<pstate, paused, ready, current, next, session, stopped>>
  BY Zenon, <1>2 DEF ListInv, RunningOwned, Interpreting
<1>4. pstate[ProgramOf[current]] # "Initialized"
  BY Zenon, <1>2 DEF ListInv, Scheduled
<1>5. /\ target' \in [Thread -> Process \cup Program \cup {NULL}]
      /\ \A u \in Thread : u # Interpreter => target'[u] = target[u]
      /\ label \in {"target", "target_exit"} =>
            target'[Interpreter] \in Process
            /\ pstate[ProgramOf[target'[Interpreter]]] # "Initialized"
  BY Zenon, <1>4, Kinds DEF ListInv, Types, HandleEvent
<1>6. /\ work' \in [Thread -> SUBSET Process]
      /\ \A u \in Thread : u # Interpreter => work'[u] = work[u]
      /\ \A q \in work'[Interpreter] : pstate[ProgramOf[q]] # "Initialized"
  BY Zenon, <1>2, <1>4, Kinds, SchedulerConstants DEF ListInv, Types, Scheduled
<1>7. \/ pc[Interpreter] = "result" /\ label = "next"
      \/ pc[Interpreter] \in (Interpreting \cup Yielding) \ {"resched"}
  BY DEF Interpreting, Yielding
<1>8. OwnState(label, event)
  BY DEF OwnState, Interpreting, Yielding, Handling, Interruptions, HandleEvent,
     HandleEventResult
<1> HIDE DEF label
<1> QED  BY Zenon, <1>1, <1>2, <1>3, <1>5, <1>6, <1>7, <1>8, OwnProcessKeeps DEF ProcessStates,
          Interruptions

\* It is cleaned up.
LEMMA CleanupKeeps ==
    ASSUME ListInv, Cleanup
    PROVE  ListInv'
<1> USE DEF Cleanup, IGoto, ProcessOnly, OtherVars
<1> DEFINE label == "next"
<1>1. /\ label \in InterpreterPC \ {"safe", "signal"} /\ Goto(Interpreter, label)
      /\ pc[Interpreter] # "safe"
  BY Zenon DEF InterpreterPC, HandleEvent, HandleEventResult
<1>2. /\ current \in Process
      /\ state[current] \notin {"New", "Sleeping", "Ready", "Enqueuing"}
  BY Zenon DEF ListInv, CurrentAt, RunningOwned, Interpreting, Yielding, Interruptions,
     HandleEventResult
<1>3. /\ state' = [state EXCEPT ![current] = "Dead"]
      /\ UNCHANGED <<pstate, paused, ready, current, next, session, stopped>>
  BY Zenon, <1>2 DEF ListInv, RunningOwned, Interpreting
<1>4. pstate[ProgramOf[current]] # "Initialized"
  BY Zenon, <1>2 DEF ListInv, Scheduled
<1>5. /\ target' \in [Thread -> Process \cup Program \cup {NULL}]
      /\ \A u \in Thread : u # Interpreter => target'[u] = target[u]
      /\ label \in {"target", "target_exit"} =>
            target'[Interpreter] \in Process
            /\ pstate[ProgramOf[target'[Interpreter]]] # "Initialized"
  BY Zenon, <1>4, Kinds DEF ListInv, Types, HandleEvent
<1>6. /\ work' \in [Thread -> SUBSET Process]
      /\ \A u \in Thread : u # Interpreter => work'[u] = work[u]
      /\ \A q \in work'[Interpreter] : pstate[ProgramOf[q]] # "Initialized"
  <2>1. Links[current] \subseteq Process
    BY Zenon, <1>2, SchedulerConstants
  <2>2. \A q \in Links[current] : ProgramOf[q] = ProgramOf[current]
    BY Zenon, <1>2, SchedulerConstants
  <2>3. work' = [work EXCEPT ![Interpreter] = Links[current]] /\ work \in [Thread -> SUBSET Process]
    BY Zenon DEF ListInv, Types
  <2>4. /\ work'[Interpreter] = Links[current]
        /\ \A u \in Thread : u # Interpreter => work'[u] = work[u]
    BY <2>3, Kinds
  <2>5. work' \in [Thread -> SUBSET Process]
    BY Zenon, <2>1, <2>3
  <2> QED  BY Zenon, <1>4, <2>2, <2>4, <2>5
<1>7. \/ pc[Interpreter] = "result" /\ label = "next"
      \/ pc[Interpreter] \in (Interpreting \cup Yielding) \ {"resched"}
  BY DEF HandleEventResult, Interpreting, Yielding
<1>8. OwnState(label, "Dead")
  BY DEF OwnState, Interpreting, Yielding, Handling, Interruptions, HandleEvent,
     HandleEventResult
<1> HIDE DEF label
<1> QED  BY ZenonT(40), <1>1, <1>2, <1>3, <1>5, <1>6, <1>7, <1>8, OwnProcessKeeps DEF ProcessStates,
          Interruptions

\* It sends a message and waits for the scheduler to look at the receiver.
LEMMA RunSendKeeps ==
    ASSUME ListInv, NEW p \in Process, NEW outcome \in {"send", "exit_send"}, RunSend(p, outcome)
    PROVE  ListInv'
<1> USE DEF RunSend, IGoto, ProcessOnly, OtherVars
<1> DEFINE label == IF outcome = "send" THEN "target" ELSE "target_exit"
<1>1. /\ label \in InterpreterPC \ {"safe", "signal"} /\ Goto(Interpreter, label)
      /\ pc[Interpreter] # "safe"
  BY Zenon DEF InterpreterPC, HandleEvent, HandleEventResult
<1>2. /\ current \in Process
      /\ state[current] \notin {"New", "Sleeping", "Ready", "Enqueuing"}
  BY Zenon DEF ListInv, CurrentAt, RunningOwned, Interpreting, Yielding, Interruptions,
     HandleEventResult
<1>3. /\ state' = [state EXCEPT ![current] = "Running"]
      /\ UNCHANGED <<pstate, paused, ready, current, next, session, stopped>>
  BY Zenon, <1>2 DEF ListInv, Types, ListInv, RunningOwned, Interpreting
<1>4. pstate[ProgramOf[current]] # "Initialized"
  BY Zenon, <1>2 DEF ListInv, Scheduled
<1>5. /\ target' \in [Thread -> Process \cup Program \cup {NULL}]
      /\ \A u \in Thread : u # Interpreter => target'[u] = target[u]
      /\ label \in {"target", "target_exit"} =>
            target'[Interpreter] \in Process
            /\ pstate[ProgramOf[target'[Interpreter]]] # "Initialized"
  BY Zenon, <1>4, Kinds DEF ListInv, Types, HandleEvent
<1>6. /\ work' \in [Thread -> SUBSET Process]
      /\ \A u \in Thread : u # Interpreter => work'[u] = work[u]
      /\ \A q \in work'[Interpreter] : pstate[ProgramOf[q]] # "Initialized"
  BY <1>2, <1>4, Kinds, SchedulerConstants DEF ListInv, Types, Scheduled
<1>7. \/ pc[Interpreter] = "result" /\ label = "next"
      \/ pc[Interpreter] \in (Interpreting \cup Yielding) \ {"resched"}
  BY DEF Interpreting, Yielding
<1>8. OwnState(label, "Running")
  BY Zenon DEF OwnState, Interpreting, Yielding, Handling, Interruptions, HandleEvent,
     HandleEventResult
<1> HIDE DEF label
<1> QED  BY ZenonT(40), <1>1, <1>2, <1>3, <1>5, <1>6, <1>7, <1>8, OwnProcessKeeps DEF ProcessStates,
          Interruptions

\* The session is told about the process: it remains stopped or is let go.
LEMMA SessionEventKeeps ==
    ASSUME ListInv, SessionEvent
    PROVE  ListInv'
<1> USE DEF SessionEvent, IGoto, At
<1> DEFINE g == ProgramOf[current]
           remains == session[g] = "Running" /\ state[current] \in Interruptions
           label == IF remains THEN "loop" ELSE "resume"
<1>1. /\ pc[Interpreter] = "event" /\ Goto(Interpreter, label)
      /\ session' = [session EXCEPT ![g] = IF remains THEN "Paused" ELSE @]
      /\ stopped' = [stopped EXCEPT ![g] = IF remains THEN current ELSE @]
      /\ UNCHANGED <<pstate, paused, state, ready, target, work, current, next>>
  BY ZenonT(40)
<1> HIDE DEF SessionEvent
<1>2. current \in Process /\ state[current] \in Interruptions \cup {"Terminated"}
  BY Zenon, <1>1 DEF ListInv, CurrentAt, Handling
<1>3. g \in Program /\ pstate[g] # "Initialized"
  BY Zenon, <1>2, ConstantTypes DEF ListInv, Scheduled, Interruptions
<1>4. label \in Points(Interpreter) /\ label \in {"loop", "resume"} /\ (remains <=> label = "loop")
  BY Zenon DEF Points, InterpreterPC
<1>5. /\ Labels' /\ pc' \in [Thread -> InterpreterPC \cup ThreadPC]
      /\ pc'[Interpreter] = label
      /\ \A u \in Thread : u # Interpreter => pc'[u] = pc[u]
  BY ZenonT(40), <1>1, <1>4, GotoMoves, Kinds DEF ListInv
<1>6. /\ session' \in [Debugged -> {"Running", "Paused", "Terminating", "Terminated"}]
      /\ stopped' \in [Debugged -> Process \cup {NULL}]
      /\ \A h \in Debugged : h # g => session'[h] = session[h] /\ stopped'[h] = stopped[h]
      /\ g \in Debugged => stopped'[g] = IF remains THEN current ELSE stopped[g]
  <2>1. /\ session \in [Debugged -> {"Running", "Paused", "Terminating", "Terminated"}]
        /\ stopped \in [Debugged -> Process \cup {NULL}]
    BY DEF ListInv, Types
  <2>2. CASE remains
    <3>1. /\ session' = [session EXCEPT ![g] = "Paused"]
          /\ stopped' = [stopped EXCEPT ![g] = current]
      BY <1>1, <2>2
    <3> HIDE DEF g, remains
    <3>2. session' \in [Debugged -> {"Running", "Paused", "Terminating", "Terminated"}]
      BY Zenon, <2>1, <3>1
    <3>3. stopped' \in [Debugged -> Process \cup {NULL}]
      BY Zenon, <1>2, <2>1, <3>1
    <3>4. \A h \in Debugged : h # g => session'[h] = session[h] /\ stopped'[h] = stopped[h]
      BY <2>1, <3>1
    <3>5. g \in Debugged => stopped'[g] = current
      BY <2>1, <3>1
    <3> QED  BY <2>2, <3>2, <3>3, <3>4, <3>5
  <2>3. CASE ~remains
    <3>1. session' = [session EXCEPT ![g] = @] /\ stopped' = [stopped EXCEPT ![g] = @]
      BY Zenon, <1>1, <2>3
    <3> HIDE DEF g, remains
    <3>2. session' = session /\ stopped' = stopped
      BY Zenon, <2>1, <3>1
    <3> QED  BY <2>1, <2>3, <3>2
  <2> QED  BY Zenon, <2>2, <2>3
<1> HIDE DEF label
<1>7. Types'
  BY Zenon, <1>1, <1>5, <1>6 DEF ListInv, Types
<1>8. FreezersAt'
  BY ZenonT(40), <1>1, <1>5, Kinds DEF ListInv, FreezersAt
<1>9. CurrentAt'
  <2>1. label = "resume" =>
           current \in Process /\ state[current] \in Interruptions \cup {"Terminated"}
    BY Zenon, <1>2
  <2>2. ASSUME NEW h \in Debugged, stopped'[h] # NULL
        PROVE  /\ ProgramOf[stopped'[h]] = h /\ state[stopped'[h]] \in Interruptions
               /\ label = "resume" => stopped'[h] # current
    BY Zenon, <1>1, <1>4, <1>6, <2>2 DEF ListInv, CurrentAt, Handling
  <2> QED  BY Zenon, <1>1, <1>4, <1>5, <2>1, <2>2 DEF CurrentAt, Handling
<1>10. Scheduled'
  <2>1. StepOf(Interpreter, current)
    BY Zenon, <1>1, <1>3, <1>5 DEF StepOf
  <2>2. \A h \in Debugged : session'[h] = session[h] \/ pstate'[h] # "Initialized"
    BY Zenon, <1>1, <1>3, <1>6
  <2>3. \A q \in work'[Interpreter] : pstate'[ProgramOf[q]] # "Initialized"
    BY Zenon, <1>1, Kinds DEF ListInv, Scheduled
  <2> QED  BY Zenon, <1>2, <1>4, <1>5, <2>1, <2>2, <2>3, ScheduledFrame, Kinds DEF ListInv
<1>11. ReadyList' /\ PausedLists'
  BY Zenon, <1>1, ListsFrame DEF ListInv
<1>12. EnqueuingOwned'
  <2>1. \A u \in Thread : /\ pc'[u] = "safe" <=> pc[u] = "safe"
                          /\ pc[u] = "safe" => target'[u] = target[u]
    BY Zenon, <1>1, <1>4, <1>5
  <2> QED  BY Zenon, <1>1, <2>1, OwnersFrame DEF ListInv
<1>13. RunningOwned'
  BY Zenon, <1>1, <1>4, <1>5 DEF ListInv, RunningOwned, Interpreting, Yielding
<1> QED  BY Zenon, <1>5, <1>7, <1>8, <1>9, <1>10, <1>11, <1>12, <1>13 DEF ListInv

=============================================================================
