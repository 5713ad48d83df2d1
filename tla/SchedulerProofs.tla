-------------------------- MODULE SchedulerProofs ---------------------------
(***************************************************************************)
(* What holds of the scheduler for any number of programs, processes,      *)
(* links, senders, freezing threads and sessions.  The other modules show  *)
(* that every step keeps the invariants used here.                         *)
(***************************************************************************)
EXTENDS SchedulerStepProofs, SchedulerQueueProofs, SchedulerNotifyProofs,
        SchedulerStopProofs, SchedulerProgramProofs, FiniteSetTheorems

USE SMTT(20), ZenonT(20)

-----------------------------------------------------------------------------
(* The lists *)

\* The invariant holds before any program is scheduled.
LEMMA ListInit ==
    ASSUME Init
    PROVE  ListInv
<1> USE SchedulerConstants DEF Init
<1>1. Types
  BY DEF Types, ProgramStates, ProcessStates, InterpreterPC, ThreadPC
<1>2. Labels /\ FreezersAt
  BY Zenon, Kinds DEF Labels, FreezersAt, Points, InterpreterPC
<1>3. CurrentAt
  BY Kinds DEF CurrentAt, Handling
<1>4. Scheduled
  BY Kinds DEF Scheduled
<1>5. ReadyList /\ PausedLists
  BY DEF ReadyList, PausedLists, Listed, Distinct
<1>6. EnqueuingOwned /\ RunningOwned
  BY Kinds DEF EnqueuingOwned, RunningOwned, Interpreting, Yielding
<1> QED  BY ZenonT(40), <1>1, <1>2, <1>3, <1>4, <1>5, <1>6 DEF ListInv

\* One case per disjunct of Next.
LEMMA ListNext ==
    ASSUME ListInv, [Next]_vars
    PROVE  ListInv'
<1>1. ASSUME InterpreterStep PROVE ListInv'
  <2>1. ASSUME RunStep PROVE ListInv'
    BY Zenon, <2>1, LoopKeeps, RescheduleKeeps, RunYieldKeeps, RunEventKeeps, RunSpawnKeeps,
       RunSendKeeps DEF RunStep
  <2> QED  BY ZenonT(40), <1>1, <2>1, LoopKeeps, TryDequeueKeeps, RescheduleKeeps,
              InterpretSignalKeeps, YieldSleepKeeps, YieldToTargetKeeps,
              SessionEventKeeps, CleanupKeeps, DeleteTerminatedProcessKeeps
           DEF InterpreterStep
<1>2. ASSUME NEW t \in Thread, Step(t) PROVE ListInv'
  <2>1. ASSUME Notify(t) PROVE ListInv'
    BY <2>1, SameKeeps
       DEF Notify, programVars, processVars, pauseVars, monitorVars, spinVars, threadVars,
           interpVars, sessionVars
  <2> QED  BY ZenonT(40), <1>2, <2>1, EnqueueSafeKeeps, UnlockKeeps, SignalProcessKeeps,
              SendSignalKeeps, StopProgramKeeps, PauseInterpreterLoopKeeps,
              PauseProcessKeeps, PausedAllKeeps, ResumeProgramKeeps,
              EnqueuePausedKeeps, ResumedProgramKeeps DEF Step
<1>3. ASSUME NEW t \in Freezers,
             FreezerStep(t) \/ FreezeProgramGroup(t) \/ UnFreezeProgramGroup(t)
      PROVE  ListInv'
  BY ZenonT(40), <1>3, FreezerKeeps, FreezeProgramKeeps DEF FreezerStep
<1>4. ASSUME NEW t \in Senders, ResumeProcess(t) \/ \E p \in Process : SendMessage(t, p)
      PROVE  ListInv'
  BY ZenonT(40), <1>4, ResumeProcessKeeps, SendMessageKeeps
<1>5. ASSUME NEW g \in Debugged,
             \/ SessionStep(g) \/ DebugInterrupt(g) \/ ProcessContinue(g)
             \/ SessionEnd(g) \/ SessionTerminated(g)
      PROVE  ListInv'
  BY ZenonT(40), <1>5, SessionKeeps, ContinueProcessKeeps DEF SessionStep
<1>6. ASSUME NEW g \in Program, ScheduleProgram(g) \/ UnscheduleProgram(g)
      PROVE  ListInv'
  BY ZenonT(40), <1>6, ScheduleProgramKeeps, RunnerKeeps
<1>7. ASSUME TearDown PROVE ListInv'
  BY Zenon, <1>7, RunnerKeeps
<1>8. ASSUME UNCHANGED vars PROVE ListInv'
  BY ZenonT(40), <1>8, SameKeeps
     DEF vars, programVars, processVars, pauseVars, monitorVars, spinVars, threadVars,
         interpVars, sessionVars
<1> QED  BY ZenonT(40), <1>1, <1>2, <1>3, <1>4, <1>5, <1>6, <1>7, <1>8 DEF Next, Exited

\* The invariant holds always.
LEMMA ListInvHolds == Spec => []ListInv
<1>1. Init => ListInv
  BY ListInit
<1>2. ListInv /\ [Next]_vars => ListInv'
  BY ListNext
<1> QED  BY <1>1, <1>2, PTL DEF Spec

\* For any programs, processes, links, senders, freezing threads and sessions: the
\* ready queue always holds exactly the processes in kReady, each once, and the
\* paused list of a program only processes of that program in kEnqueuing, each once,
\* whatever EnqueueSafe, PauseAllProcessesOfProgram, ResumeProgram, UnFreezeProgram
\* and DequeueProcess do to them at the same time.
THEOREM ListsCorrect == Spec => [](ReadyList /\ PausedLists)
<1>1. ListInv => ReadyList /\ PausedLists
  BY DEF ListInv
<1> QED  BY <1>1, ListInvHolds, PTL

\* A process in kEnqueuing is always in the paused list of its program or has
\* exactly one thread that is going to call EnqueueSafe for it: ResumeProcess,
\* SignalProcess and ContinueProcess never lose a process nor enqueue it twice.
THEOREM OwnersCorrect == Spec => []EnqueuingOwned
<1>1. ListInv => EnqueuingOwned
  BY DEF ListInv
<1> QED  BY <1>1, ListInvHolds, PTL

\* Only the one or two processes that the interpreter thread has in its hands are
\* in kRunning or kYielding, so ChangeState may leave these states with a store.
THEOREM RunningCorrect == Spec => []RunningOwned
<1>1. ListInv => RunningOwned
  BY DEF ListInv
<1> QED  BY <1>1, ListInvHolds, PTL

-----------------------------------------------------------------------------
(* Wake-ups and notifications *)

\* For any programs, processes and threads: a process never sleeps on a message or a
\* signal without a thread that is about to look at it and wake it.  The sender may
\* come at any point of the way of the process from kRunning over kYielding to
\* kSleeping, between the two tests of the mailbox and the signal included
\* (Scheduler::InterpretProcess, ResumeProcess, SignalProcess).
THEOREM WakeupCorrect == Spec => []NoLostWakeup
<1>1. Init => WakeInv
  BY Kinds DEF Init, WakeInv, NoLostWakeup, YieldInv
<1>2. WakeInv /\ ListInv /\ ListInv' /\ [Next]_vars => WakeInv'
  BY WakeNext
<1>3. WakeInv => NoLostWakeup
  BY DEF WakeInv
<1> QED  BY <1>1, <1>2, <1>3, ListInvHolds, PTL DEF Spec

\* For any programs, processes and threads: the interpreter thread never waits on
\* idle_monitor_ with a ready process, a pause, a shutdown or the end of a pause to
\* see to, unless some thread still owes it a notification, although EnqueueProcess
\* notifies only when the queue was empty and the tests of RunInterpreterLoop are not
\* made under the locks of those who change what they read.
THEOREM NotifyCorrect == Spec => []NoMissedNotify
<1>1. Init => NotifyInv
  BY DEF Init, NotifyInv, NoMissedNotify
<1>2. NotifyInv /\ ListInv /\ [Next]_vars => NotifyInv'
  BY NotifyNext
<1>3. NotifyInv => NoMissedNotify
  BY DEF NotifyInv
<1> QED  BY <1>1, <1>2, <1>3, ListInvHolds, PTL DEF Spec

-----------------------------------------------------------------------------
(* Stopped programs *)

LEMMA StopInvHolds == Spec => []StopInv
<1>1. Init => StopInv
  <2> USE DEF Init
  <2>1. Init => LockInv
    BY Kinds DEF LockInv, Holds, Holding, Interrupting, FreezingGroup, Thawing
  <2>2. Init => SameProgram
    BY Zenon, Kinds DEF SameProgram, Handling
  <2>3. Init => PauseInv
    BY Zenon, Kinds DEF PauseInv, Stoppers
  <2>4. ASSUME Init, NEW g \in Program PROVE QuietInv(g)
    BY Zenon, <2>4 DEF QuietInv, IsQuiet, Stops
  <2> QED  BY Zenon, <2>1, <2>2, <2>3, <2>4 DEF StopInv
<1>2. ASSUME StopInv, ListInv, [Next]_vars PROVE StopInv'
  <2>1. LockInv' /\ SameProgram' /\ (SingleStopper => PauseInv')
    BY ZenonT(40), <1>2, LockNext, TargetNext, PauseNext DEF StopInv
  <2>2. PICK t \in Thread : GateStep(t)
    BY <1>2, NextGates DEF StopInv
  <2>3. PICK u \in Thread : ActiveStep(u)
    BY <1>2, NextActs DEF StopInv
  <2>4. ASSUME NEW g \in Program, SingleStopper \/ Calm(g) PROVE QuietInv(g)'
    BY Zenon, <1>2, <2>2, <2>3, <2>4, QuietKeeps DEF StopInv
  <2> QED  BY <2>1, <2>4 DEF StopInv
<1> QED  BY <1>1, <1>2, ListInvHolds, PTL DEF Spec

\* At most one thread ever pauses the interpreter loop, or no program is stopped from
\* outside at all.
OneStopper == SingleStopper \/ \A g \in Program : Calm(g)

\* For any programs, processes, senders and outcomes, with one thread that freezes the
\* group or one session that interrupts, and any number of sessions stopped by their own
\* events: once StopProgram or FreezeProgramGroup has moved the processes of a program,
\* none of them is ready or runs until the program is resumed, whatever messages and
\* signals arrive and whoever spawns, yields to or enqueues at the same time.
THEOREM StopCorrect ==
    ASSUME OneStopper
    PROVE  Spec => []StoppedProgramIsQuiet
<1>1. ASSUME StopInv PROVE StoppedProgramIsQuiet
  <2> SUFFICES ASSUME NEW g \in Program, IsStopped(g)
               PROVE  \A p \in Process : ProgramOf[p] = g => state[p] \notin Active
    BY DEF StoppedProgramIsQuiet, Active
  <2>1. QuietInv(g)
    BY <1>1 DEF StopInv, OneStopper
  <2>2. IsQuiet(g)
    BY DEF IsStopped, IsQuiet, Busy, Stops
  <2> QED  BY <2>1, <2>2 DEF QuietInv
<1> QED  BY <1>1, StopInvHolds, PTL

LEMMA DownInvHolds == Spec => []DownInv
<1>1. Init => DownInv
  BY Kinds DEF Init, DownInv
<1>2. ASSUME DownInv, StopInv, ListInv, [Next]_vars PROVE DownInv'
  <2>1. ASSUME UNCHANGED vars PROVE DownStep(Interpreter)
    BY ZenonT(40), <2>1, Kinds
       DEF vars, DownStep, programVars, processVars, pauseVars, monitorVars, spinVars, threadVars,
           interpVars, sessionVars
  <2>2. \E t \in Thread : DownStep(t)
    BY ZenonT(60), <1>2, <2>1, Kinds, LoopDown, StepDown, FreezerDown, SenderDown,
       SessionDown, RunnerDown
       DEF StopInv, Next, Exited
  <2> QED  BY ZenonT(40), <1>2, <2>2, DownStepKeeps
<1> QED  BY <1>1, <1>2, ListInvHolds, StopInvHolds, PTL DEF Spec

\* A session that moves processes for StopProgram has the interpreter thread paused.
LEMMA MoveInvHolds ==
    ASSUME SingleStopper
    PROVE  Spec => []MoveInv
<1>1. Init => MoveInv
  BY Kinds DEF Init, MoveInv
<1>2. ASSUME MoveInv, StopInv, StopInv', ListInv, [Next]_vars PROVE MoveInv'
  BY Zenon, <1>2, NextMoves DEF StopInv
<1> QED  BY <1>1, <1>2, ListInvHolds, StopInvHolds, PTL DEF Spec

\* For any number of programs, processes, senders and sessions, when only one thread pauses
\* the interpreter loop (a freezing thread or a session that interrupts): while it moves
\* ready processes, pause_ is set and the interpreter thread has no process and gets none,
\* although it sets interpreter_is_paused_ only later or still has it set from the last
\* pause; and the interpreter thread never sleeps through a notification.
THEOREM PauseCorrect ==
    ASSUME SingleStopper
    PROVE  Spec => []PausedAndNotified
<1>1. ASSUME ListInv, StopInv, DownInv, MoveInv PROVE MovesWhenPaused
  <2> SUFFICES ASSUME NEW t \in Thread \ {Interpreter}, pc[t] = "moving"
               PROVE  pause /\ pc[Interpreter] \in Away \ {"exited"}
    BY DEF MovesWhenPaused, Away
  <2>1. t \in Freezers \/ t \in Debugged
    BY ZenonT(40), <1>1, Kinds DEF ListInv, Labels, Points
  <2>2. t \in Stoppers
    BY Zenon, <1>1, <2>1 DEF StopInv, LockInv, Interrupting, Stoppers
  <2>3. pause /\ pc[Interpreter] \in Away
    BY Zenon, <1>1, <2>2 DEF StopInv, PauseInv
  <2>4. CASE t \in Freezers
    BY Zenon, <1>1, <2>3, <2>4 DEF DownInv, FreezeCall
  <2>5. CASE t \in Debugged
    <3>1. pc[Interpreter] \in IsPaused
      BY Zenon, <1>1, <2>5 DEF StopInv, PauseInv, MoveInv
    <3> QED  BY Zenon, <2>3, <3>1 DEF IsPaused
  <2> QED  BY Zenon, <2>1, <2>4, <2>5
<1>2. Spec => []NoMissedNotify
  BY NotifyCorrect
<1>3. MovesWhenPaused /\ NoMissedNotify => PausedAndNotified
  BY DEF PausedAndNotified
<1> QED  BY <1>1, <1>2, <1>3, ListInvHolds, StopInvHolds, DownInvHolds, MoveInvHolds, PTL

-----------------------------------------------------------------------------
(* The life of a program *)

\* The library's facts about finite sets.
LEMMA CountingHolds == Counting
BY ZenonT(40), FS_EmptySet, FS_Singleton, FS_AddElement, FS_RemoveElement DEF Counting

LEMMA CalmInvHolds == Spec => [](\A h \in Program : Calm(h) => CalmInv(h))
<1> DEFINE AllInv == \A h \in Program : Calm(h) => CalmInv(h)
<1>1. Init => AllInv
  <2> SUFFICES ASSUME Init, NEW h \in Program PROVE CalmInv(h)
    OBVIOUS
  <2>1. HoldInv(h)
    BY Zenon, Kinds DEF Init, HoldInv, Held, SessionHolds, InterpreterHolds
  <2>2. ExitInv(h)
    BY ZenonT(40), Kinds DEF Init, ExitInv, Exiting, Gone
  <2>3. Alive(h) = {}
    BY DEF Init, Alive
  <2>4. \A p \in Process : ProgramOf[p] = h /\ Exists(p) => p = Main[h]
    BY DEF Init, Exists
  <2>5. CountInv(h)
    BY <2>3, <2>4, FS_EmptySet DEF Init, CountInv
  <2> QED  BY ZenonT(40), <2>1, <2>2, <2>5 DEF CalmInv
<1>2. ASSUME AllInv, ListInv, StopInv, [Next]_vars PROVE AllInv'
  BY Zenon, <1>2, NextCalm, CountingHolds DEF StopInv, Calm
<1> QED  BY <1>1, <1>2, ListInvHolds, StopInvHolds, PTL DEF Spec

LEMMA EndlessInvHolds == Spec => [](\A h \in Program : Endless(h) => EndlessInv(h))
<1> DEFINE AllInv == \A h \in Program : Endless(h) => EndlessInv(h)
<1>1. Init => AllInv
  BY Kinds DEF Init, EndlessInv, Ending, Handling, Exiting, Gone
<1>2. ASSUME AllInv, ListInv, [Next]_vars PROVE AllInv'
  BY ZenonT(40), <1>2, NextEndless, EndlessStepKeeps DEF Endless
<1> QED  BY <1>1, <1>2, ListInvHolds, PTL DEF Spec

\* No program is stopped from outside, except one that never ends.
EndsUndisturbed == \A g \in Program : Calm(g) \/ Endless(g)

\* For any number of programs, processes, senders, sessions and freezing threads: if the
\* programs that are frozen never end and no session interrupts, every program changes
\* state only along the transitions that program.h lists, whatever its processes do, at
\* whatever point the debugger continues or kills it.
THEOREM TransitionsCorrect ==
    ASSUME EndsUndisturbed
    PROVE  Spec => DocumentedTransitions
<1> DEFINE CalmAll == \A h \in Program : Calm(h) => CalmInv(h)
           EndlessAll == \A h \in Program : Endless(h) => EndlessInv(h)
<1>1. ASSUME ListInv, StopInv, CalmAll, EndlessAll, [Next]_vars PROVE ChangesState
  <2> SUFFICES ASSUME NEW g \in Program, pstate'[g] # pstate[g]
               PROVE  <<pstate[g], pstate'[g]>> \in ProgramTransitions
    BY DEF ChangesState
  <2>1. CASE Calm(g)
    <3>1. HoldStep(g)
      BY ZenonT(40), <1>1, <2>1, NextCalm, CountingHolds DEF StopInv
    <3> QED  BY <3>1 DEF HoldStep, ProgramTransitions
  <2>2. CASE Endless(g)
    <3>1. EndlessStep(g)
      BY ZenonT(40), <1>1, <2>2, NextEndless
    <3> QED  BY <3>1 DEF EndlessStep, ProgramTransitions
  <2> QED  BY Zenon, <2>1, <2>2 DEF EndsUndisturbed
<1> QED  BY <1>1, ListInvHolds, StopInvHolds, CalmInvHolds, EndlessInvHolds, PTL
         DEF Spec, DocumentedTransitions

\* Under the same assumption a program is done exactly when its last process is: the count
\* that DeleteTerminatedProcess takes down is the number of its processes, the exit
\* listener is called once, and then no process of it is left anywhere.
THEOREM DoneCorrect ==
    ASSUME EndsUndisturbed
    PROVE  Spec => []DoneMeansDead
<1> DEFINE CalmAll == \A h \in Program : Calm(h) => CalmInv(h)
           EndlessAll == \A h \in Program : Endless(h) => EndlessInv(h)
<1>1. ASSUME ListInv, CalmAll, EndlessAll PROVE DoneMeansDead
  <2> SUFFICES ASSUME NEW g \in Program
               PROVE  /\ exits[g] = IF pstate[g] \in {"Done", "PendingDeletion"} THEN 1 ELSE 0
                      /\ exits[g] = 1 => /\ paused[g] = <<>>
                                         /\ \A p \in Process : ProgramOf[p] = g => ~Exists(p)
    BY DEF DoneMeansDead
  <2>1. CASE Calm(g)
    <3>1. CountInv(g)
      BY ZenonT(40), <1>1, <2>1 DEF CalmInv
    <3>2. ASSUME paused[g] # <<>> PROVE \E p \in Process : ProgramOf[p] = g /\ Exists(p)
      <4>1. Head(paused[g]) \in Process /\ Listed(paused[g], Head(paused[g]))
        BY ZenonT(40), <1>1, <3>2, TailList DEF ListInv, Types, PausedLists
      <4> QED  BY ZenonT(40), <1>1, <4>1 DEF ListInv, PausedLists, Exists
    <3> QED  BY <3>1, <3>2 DEF CountInv
  <2>2. CASE Endless(g)
    BY <1>1, <2>2 DEF EndlessInv
  <2> QED  BY ZenonT(40), <2>1, <2>2 DEF EndsUndisturbed
<1> QED  BY <1>1, ListInvHolds, CalmInvHolds, EndlessInvHolds, PTL

\* Under the same assumption every process of a program that is stopped, frozen, resumed
\* or ended is accounted for.
THEOREM KeptCorrect ==
    ASSUME EndsUndisturbed
    PROVE  Spec => []ProcessesKept
<1>1. Spec => []DoneMeansDead
  BY DoneCorrect
<1>2. ListInv /\ DoneMeansDead => ProcessesKept
  BY DEF ListInv, ProcessesKept
<1> QED  BY <1>1, <1>2, ListInvHolds, PTL

=============================================================================
