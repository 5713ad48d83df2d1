------------------------ MODULE SchedulerQueueProofs ------------------------
(***************************************************************************)
(* The steps that wake, enqueue, move, dequeue and delete processes keep   *)
(* ListInv.                                                                *)
(***************************************************************************)
EXTENDS SchedulerInvariant

USE SMTT(20), ZenonT(20) DEF programVars, processVars, pauseVars, monitorVars, spinVars,
        threadVars, interpVars, sessionVars

-----------------------------------------------------------------------------
(* Waking and enqueuing *)

\* What Enqueue does for a process that is in no list.
LEMMA EnqueueLists ==
    ASSUME ListInv, NEW p \in Process, state[p] # "Ready", Enqueue(p),
           \A g \in Program : ~Listed(paused[g], p), UNCHANGED paused
    PROVE  /\ ready' \in Seq(Process) /\ ReadyList' /\ PausedLists'
           /\ state' \in [Process -> ProcessStates] /\ state'[p] = "Ready"
           /\ \A q \in Process : q # p => state'[q] = state[q]
<1>1. /\ state' \in [Process -> ProcessStates] /\ state'[p] = "Ready"
      /\ \A q \in Process : q # p => state'[q] = state[q]
  BY DEF Enqueue, ListInv, Types, ProcessStates
<1>2. ready \in Seq(Process) /\ Distinct(ready) /\ ~Listed(ready, p)
  BY DEF ListInv, Types, ReadyList
<1>3. /\ ready' \in Seq(Process) /\ Distinct(ready')
      /\ \A q : Listed(ready', q) <=> Listed(ready, q) \/ q = p
  BY <1>2, AppendList DEF Enqueue
<1>4. ReadyList'
  BY <1>1, <1>3 DEF ListInv, ReadyList
<1>5. PausedLists'
  BY <1>1 DEF ListInv, PausedLists
<1> QED  BY <1>1, <1>3, <1>4, <1>5

\* A thread takes a process that sleeps or is stopped, makes it kEnqueuing and is
\* going to call EnqueueSafe for it.
LEMMA WakeKeeps ==
    ASSUME ListInv, NEW t \in Thread, "safe" \in Points(t), pc[t] # "safe",
           Goto(t, "safe"), t = Interpreter => pc[t] = "signal",
           NEW p \in Process, state[p] \in {"Sleeping"} \cup Interruptions,
           pstate[ProgramOf[p]] # "Initialized",
           state' = [state EXCEPT ![p] = "Enqueuing"],
           target' = [target EXCEPT ![t] = p],
           UNCHANGED <<pstate, paused, ready, work, current, next, session>>,
           stopped' \in [Debugged -> Process \cup {NULL}],
           \A g \in Debugged : stopped'[g] \in {stopped[g], NULL} /\ stopped'[g] # p,
           pc[Interpreter] \in Handling \cup {"result"} => p # current,
           t \in Debugged => pstate[t] # "Initialized"
    PROVE  ListInv'
<1>1. /\ Labels' /\ pc' \in [Thread -> InterpreterPC \cup ThreadPC]
      /\ pc'[t] = "safe" /\ \A u \in Thread : u # t => pc'[u] = pc[u]
  BY ZenonT(40), GotoMoves DEF ListInv
<1>2. /\ state' \in [Process -> ProcessStates] /\ state'[p] = "Enqueuing"
      /\ \A q \in Process : q # p => state'[q] = state[q]
  BY DEF ListInv, Types, ProcessStates
<1>3. /\ target' \in [Thread -> Process \cup Program \cup {NULL}]
      /\ target'[t] = p /\ \A u \in Thread : u # t => target'[u] = target[u]
  BY DEF ListInv, Types
<1>4. Types'
  BY <1>1, <1>2, <1>3 DEF ListInv, Types
<1>5. FreezersAt'
  BY <1>1, <1>3, Kinds DEF ListInv, FreezersAt
<1>6. state[p] \notin {"Ready", "Enqueuing", "Running", "Yielding", "Dead", "Terminated"}
  BY DEF Interruptions
<1>7. CurrentAt' /\ RunningOwned'
  <2>1. InterpreterStays
    BY <1>1, Kinds DEF InterpreterStays
  <2> QED  BY <1>2, <1>6, <2>1, OtherProcessFrame DEF ListInv
<1>8. Scheduled'
  <2>1. StepOf(t, p)
    BY <1>1, <1>2, <1>3 DEF StepOf
  <2>2. \A q \in work'[t] : pstate'[ProgramOf[q]] # "Initialized"
    BY DEF ListInv, Scheduled
  <2>3. pc'[t] \notin {"resume_process", "signal", "target", "target_exit"}
    BY <1>1
  <2>4. /\ Types /\ Scheduled /\ \A g \in Debugged : session'[g] = session[g]
        /\ t \in Debugged => pstate'[t] # "Initialized"
    BY DEF ListInv
  <2> QED  BY <2>1, <2>2, <2>3, <2>4, ScheduledFrame
<1>9. ReadyList' /\ PausedLists'
  BY <1>2, <1>6, ListsFrame DEF ListInv
<1>10. EnqueuingOwned'
  <2>1. \A u \in Thread : pc[u] = "safe" => target[u] # p
    BY <1>6 DEF ListInv, EnqueuingOwned
  <2>2. ~InPaused(p)
    BY <1>6, ConstantTypes DEF ListInv, PausedLists, InPaused
  <2>3. \A q \in Process : InPaused(q)' <=> InPaused(q)
    BY DEF InPaused
  <2>4. EnqueuingOwned
    BY DEF ListInv
  <2> QED  BY <1>1, <1>2, <1>3, <2>1, <2>2, <2>3, <2>4, OwnersMove
<1> QED  BY ZenonT(40), <1>1, <1>4, <1>5, <1>7, <1>8, <1>9, <1>10 DEF ListInv

\* SignalProcess wakes a sleeping process and leaves the others alone.
LEMMA SignalProcessKeeps ==
    ASSUME ListInv, NEW t \in Thread, SignalProcess(t)
    PROVE  ListInv'
<1> DEFINE p == target[t]
<1>1. /\ pc[t] = "signal" /\ p \in Process /\ pstate[ProgramOf[p]] # "Initialized"
      /\ UNCHANGED <<pstate, paused, ready, target, work, current, next, session, stopped>>
  BY DEF SignalProcess, At, ListInv, Scheduled
<1>2. /\ t = Interpreter \/ t \in Debugged
      /\ t \in Debugged => pstate[t] # "Initialized"
      /\ "safe" \in Points(t) /\ "next" \in Points(t)
  BY <1>1, Kinds DEF ListInv, Labels, Points, InterpreterPC, Scheduled
<1>3. CASE state[p] = "Sleeping"
  <2>1. state' = [state EXCEPT ![p] = "Enqueuing"] /\ Goto(t, "safe")
    BY <1>3 DEF SignalProcess
  <2>2. target' = [target EXCEPT ![t] = p]
    BY <1>1 DEF ListInv, Types
  <2>3. /\ \A g \in Debugged : stopped[g] # p
        /\ pc[Interpreter] \in Handling \cup {"result"} => p # current
    BY <1>1, <1>3, NotStopped DEF ListInv, Interruptions
  <2>4. stopped \in [Debugged -> Process \cup {NULL}]
    BY DEF ListInv, Types
  <2> HIDE DEF p
  <2> QED  BY Zenon, <1>1, <1>2, <1>3, <2>1, <2>2, <2>3, <2>4, WakeKeeps
<1>4. CASE state[p] # "Sleeping"
  <2>1. UNCHANGED state /\ Goto(t, "next")
    BY <1>4 DEF SignalProcess
  <2>2. OwnStep(t, "next")
    BY <1>1, <1>2, <2>1, Kinds DEF OwnStep, ListInv, Types, Scheduled
  <2>3. CASE t = Interpreter
    BY ZenonT(40), <1>1, <2>2, <2>3, InterpreterMoves DEF Phases
  <2>4. CASE t # Interpreter
    BY ZenonT(40), <1>1, <1>2, <2>2, <2>4, OtherThreadMoves
  <2> QED  BY <2>3, <2>4
<1> QED  BY <1>3, <1>4

\* ResumeProcess does the same for the receiver of a message.
LEMMA ResumeProcessKeeps ==
    ASSUME ListInv, NEW t \in Senders, ResumeProcess(t)
    PROVE  ListInv'
<1> DEFINE p == target[t]
<1>1. /\ pc[t] = "resume_process" /\ p \in Process /\ pstate[ProgramOf[p]] # "Initialized"
      /\ UNCHANGED <<pstate, paused, ready, target, work, current, next, session, stopped>>
  BY Kinds DEF ResumeProcess, At, ListInv, Scheduled
<1>2. /\ t \in Thread /\ t # Interpreter /\ t \notin Debugged /\ t \notin Freezers
      /\ "safe" \in Points(t) /\ "idle" \in Points(t)
  BY Kinds DEF Points
<1>3. CASE state[p] = "Sleeping"
  <2>1. state' = [state EXCEPT ![p] = "Enqueuing"] /\ Goto(t, "safe")
    BY <1>3 DEF ResumeProcess
  <2>2. target' = [target EXCEPT ![t] = p]
    BY <1>1, <1>2 DEF ListInv, Types
  <2>3. /\ \A g \in Debugged : stopped[g] # p
        /\ pc[Interpreter] \in Handling \cup {"result"} => p # current
    BY <1>1, <1>3, SchedulerConstants DEF ListInv, CurrentAt, Interruptions
  <2>4. stopped \in [Debugged -> Process \cup {NULL}]
    BY DEF ListInv, Types
  <2> HIDE DEF p
  <2> QED  BY Zenon, <1>1, <1>2, <1>3, <2>1, <2>2, <2>3, <2>4, WakeKeeps
<1>4. CASE state[p] # "Sleeping"
  <2>1. UNCHANGED state /\ Goto(t, "idle")
    BY <1>4 DEF ResumeProcess
  <2>2. OwnStep(t, "idle")
    BY <1>1, <1>2, <2>1 DEF OwnStep, ListInv, Types, Scheduled
  <2> QED  BY <1>1, <1>2, <2>2, OtherThreadMoves
<1> QED  BY <1>3, <1>4

\* ContinueProcess takes the process the session has stopped.
LEMMA ContinueProcessKeeps ==
    ASSUME ListInv, NEW g \in Debugged, ContinueProcess(g)
    PROVE  ListInv'
<1> DEFINE p == stopped[g]
<1>1. /\ pc[g] = "next" /\ p # NULL /\ Goto(g, "safe")
      /\ target' = [target EXCEPT ![g] = p]
      /\ stopped' = [stopped EXCEPT ![g] = NULL]
      /\ UNCHANGED <<pstate, paused, ready, work, current, next, session>>
  BY Zenon DEF ContinueProcess, At
<1>2. /\ p \in Process /\ ProgramOf[p] = g /\ state[p] \in Interruptions
      /\ pc[Interpreter] \in Handling \cup {"result"} => p # current
  BY <1>1 DEF ListInv, Types, CurrentAt
<1>3. state' = [state EXCEPT ![p] = "Enqueuing"]
  BY <1>2 DEF ContinueProcess, ListInv, Types
<1>4. g \in Thread /\ g # Interpreter /\ "safe" \in Points(g) /\ pstate[g] # "Initialized"
  BY Zenon, <1>1, Kinds DEF Points, ListInv, Scheduled
<1>5. /\ stopped' \in [Debugged -> Process \cup {NULL}]
      /\ \A h \in Debugged : stopped'[h] \in {stopped[h], NULL}
      /\ stopped'[g] = NULL /\ \A h \in Debugged : h # g => stopped'[h] = stopped[h]
  BY <1>1 DEF ListInv, Types
<1>6. \A h \in Debugged : stopped'[h] # p
  BY <1>1, <1>2, <1>5 DEF ListInv, CurrentAt
<1> HIDE DEF p
<1> QED  BY Zenon, <1>1, <1>2, <1>3, <1>4, <1>5, <1>6, WakeKeeps

\* EnqueueSafe: the thread gives the process to the paused list of its program or
\* to the ready queue.
LEMMA EnqueueSafeKeeps ==
    ASSUME ListInv, NEW t \in Thread, EnqueueSafe(t)
    PROVE  ListInv'
<1>1. /\ pc[t] = "safe"
      /\ UNCHANGED <<pstate, target, work, current, next, session, stopped>>
  BY DEF EnqueueSafe, At
<1>a. PICK p \in Process : p = target[t]
  BY <1>1 DEF ListInv, EnqueuingOwned
<1> DEFINE g == ProgramOf[p]
           label == IF pstate[g] = "Running" /\ ready = <<>> /\ t # Interpreter
                    THEN "unlock" ELSE Return(t)
<1>2. g \in Program /\ state[p] = "Enqueuing" /\ ~InPaused(p)
  BY <1>a, <1>1, ConstantTypes DEF ListInv, EnqueuingOwned
<1>3. \A h \in Program : ~Listed(paused[h], p)
  BY Zenon, <1>2 DEF ListInv, PausedLists, InPaused
<1>4. Goto(t, label)
  BY <1>a DEF EnqueueSafe
<1>5. /\ t = Interpreter \/ t \in Senders \/ t \in Debugged
      /\ label \in Points(t) /\ label \in {"unlock", "next", "idle"}
      /\ t = Interpreter => label = "next"
  BY Zenon, <1>1, Kinds DEF ListInv, Labels, Points, InterpreterPC, Return
<1>6. /\ Labels' /\ pc' \in [Thread -> InterpreterPC \cup ThreadPC]
      /\ pc'[t] = label /\ \A u \in Thread : u # t => pc'[u] = pc[u]
  BY Zenon, <1>4, <1>5, GotoMoves DEF ListInv
<1>7. \/ /\ UNCHANGED <<ready, state>>
         /\ paused' = [paused EXCEPT ![g] = Append(@, p)]
      \/ Enqueue(p) /\ UNCHANGED paused
  BY Zenon, <1>a DEF EnqueueSafe
<1> HIDE DEF g, label
<1>8. \A u \in Thread : u # t /\ pc[u] = "safe" => target[u] # p
  BY <1>a, <1>1 DEF ListInv, EnqueuingOwned
<1>9. /\ ready' \in Seq(Process) /\ state' \in [Process -> ProcessStates]
      /\ paused' \in [Program -> Seq(Process)]
      /\ ReadyList' /\ PausedLists' /\ state'[p] \in {"Enqueuing", "Ready"}
      /\ \A q \in Process : q # p => state'[q] = state[q]
      /\ \A q \in Process : q # p => (InPaused(q)' <=> InPaused(q))
      /\ state'[p] = "Enqueuing" => InPaused(p)'
  <2>1. CASE UNCHANGED <<ready, state>> /\ paused' = [paused EXCEPT ![g] = Append(@, p)]
    <3>1. /\ Append(paused[g], p) \in Seq(Process) /\ Distinct(Append(paused[g], p))
          /\ \A q : Listed(Append(paused[g], p), q) <=> Listed(paused[g], q) \/ q = p
      <4>1. paused[g] \in Seq(Process) /\ Distinct(paused[g])
        BY <1>2 DEF ListInv, Types, PausedLists
      <4> QED  BY <1>2, <1>3, <4>1, AppendList
    <3>2. /\ paused' \in [Program -> Seq(Process)] /\ paused'[g] = Append(paused[g], p)
          /\ \A h \in Program : h # g => paused'[h] = paused[h]
      BY <1>2, <2>1, <3>1 DEF ListInv, Types
    <3>3. PausedLists'
      BY <1>2, <2>1, <3>1, <3>2 DEF ListInv, PausedLists, g
    <3>4. ReadyList'
      BY <2>1 DEF ListInv, ReadyList
    <3>5. /\ \A q \in Process : q # p => (InPaused(q)' <=> InPaused(q))
          /\ InPaused(p)'
      <4>1. ASSUME NEW q \in Process
            PROVE  Listed(paused'[ProgramOf[q]], q) <=> Listed(paused[ProgramOf[q]], q) \/ q = p
        <5>1. ProgramOf[q] \in Program /\ (q = p => ProgramOf[q] = g)
          BY ConstantTypes DEF g
        <5>2. CASE ProgramOf[q] = g
          BY Zenon, <3>1, <3>2, <5>2
        <5>3. CASE ProgramOf[q] # g
          BY <3>2, <5>1, <5>3
        <5> QED  BY <5>2, <5>3
      <4> QED  BY <4>1 DEF InPaused
    <3> QED  BY <1>2, <2>1, <3>2, <3>3, <3>4, <3>5 DEF ListInv, Types
  <2>2. CASE Enqueue(p) /\ UNCHANGED paused
    <3>1. /\ ready' \in Seq(Process) /\ ReadyList' /\ PausedLists'
          /\ state' \in [Process -> ProcessStates] /\ state'[p] = "Ready"
          /\ \A q \in Process : q # p => state'[q] = state[q]
      BY <1>2, <1>3, <2>2, EnqueueLists
    <3> QED  BY <2>2, <3>1 DEF ListInv, Types, InPaused
  <2> QED  BY <1>7, <2>1, <2>2
<1>10. Types'
  BY Zenon, <1>1, <1>6, <1>9 DEF ListInv, Types
<1>11. FreezersAt'
  BY <1>1, <1>5, <1>6, Kinds DEF ListInv, FreezersAt
<1>12. /\ \A h \in Debugged : stopped[h] # p
       /\ pc[Interpreter] \in Handling \cup {"result"} => p # current
  BY <1>2, NotStopped DEF ListInv, Interruptions
<1>13. CurrentAt' /\ RunningOwned'
  <2>1. InterpreterStays
    BY Zenon, <1>1, <1>5, <1>6, Kinds DEF InterpreterStays
  <2> QED  BY Zenon, <1>1, <1>2, <1>9, <1>12, <2>1, OtherProcessFrame DEF ListInv
<1>14. Scheduled'
  <2>1. StepOf(t, p)
    BY ZenonT(40), <1>1, <1>2, <1>6, <1>9 DEF ListInv, Scheduled, StepOf
  <2>2. \A q \in work'[t] : pstate'[ProgramOf[q]] # "Initialized"
    BY ZenonT(40), <1>1 DEF ListInv, Scheduled
  <2>3. t \in Debugged => pstate'[t] # "Initialized"
    BY Zenon, <1>1 DEF ListInv, Scheduled
  <2> QED  BY <1>1, <1>5, <1>6, <2>1, <2>2, <2>3, ScheduledFrame DEF ListInv
<1>15. EnqueuingOwned'
  <2>1. \A u \in Thread : u # t => pc'[u] = pc[u] /\ target'[u] = target[u]
    BY Zenon, <1>1, <1>6
  <2>2. pc'[t] # "safe"
    BY <1>5, <1>6
  <2>3. EnqueuingOwned /\ target[t] = p
    BY <1>a DEF ListInv
  <2>4. \A q \in Process : q # p => state'[q] = state[q] /\ (InPaused(q)' <=> InPaused(q))
    BY <1>9
  <2>5. state'[p] = "Enqueuing" => InPaused(p)'
    BY <1>9
  <2> HIDE DEF InPaused
  <2> QED  BY SMTT(30), <1>8, <2>1, <2>2, <2>3, <2>4, <2>5, OwnersMove
<1> QED  BY Zenon, <1>6, <1>9, <1>10, <1>11, <1>13, <1>14, <1>15 DEF ListInv

-----------------------------------------------------------------------------
(* Programs and their queues *)

\* A process that is not kEnqueuing is in no paused list.
LEMMA NotPaused ==
    ASSUME ListInv, NEW p \in Process, state[p] # "Enqueuing"
    PROVE  \A g \in Program : ~Listed(paused[g], p)
BY DEF ListInv, PausedLists

(* The interpreter thread puts its process back, and goes on with `next` if it
   has one. *)

LEMMA PutBackKeeps ==
    ASSUME ListInv, current \in Process, state[current] \in {"Running", "Yielding"},
           pc[Interpreter] \notin {"safe", "next", "signal"}, Enqueue(current),
           Goto(Interpreter, IF next = NULL THEN "loop" ELSE "inner"),
           current' = IF next = NULL THEN current ELSE next, next' = NULL,
           UNCHANGED <<pstate, paused, target, work, session, stopped>>
    PROVE  ListInv'
<1> DEFINE label == IF next = NULL THEN "loop" ELSE "inner"
<1>1. label \in Points(Interpreter) /\ label \in {"loop", "inner"}
  BY DEF Points, InterpreterPC
<1>2. /\ Labels' /\ pc' \in [Thread -> InterpreterPC \cup ThreadPC]
      /\ pc'[Interpreter] = label
      /\ \A u \in Thread : u # Interpreter => pc'[u] = pc[u]
  BY Zenon, <1>1, GotoMoves, Kinds DEF ListInv
<1>3. /\ ready' \in Seq(Process) /\ ReadyList' /\ PausedLists'
      /\ state' \in [Process -> ProcessStates] /\ state'[current] = "Ready"
      /\ \A q \in Process : q # current => state'[q] = state[q]
  BY EnqueueLists, NotPaused
<1>4. Types'
  BY Zenon, <1>2, <1>3 DEF ListInv, Types
<1>5. FreezersAt'
  BY Zenon, <1>2, Kinds DEF ListInv, FreezersAt
<1>6. CurrentAt'
  <2>1. \A g \in Debugged : stopped[g] # NULL =>
           /\ stopped[g] \in Process /\ stopped[g] # current
           /\ ProgramOf[stopped[g]] = g /\ state[stopped[g]] \in Interruptions
    BY Zenon DEF ListInv, Types, CurrentAt, Interruptions
  <2>2. \A g \in Debugged : stopped[g] # NULL => state'[stopped[g]] \in Interruptions
    BY Zenon, <1>3, <2>1
  <2> QED  BY <1>1, <1>2, <2>1, <2>2 DEF CurrentAt, Handling
<1>7. Scheduled'
  <2>1. StepOf(Interpreter, current)
    BY Zenon, <1>2, <1>3 DEF ListInv, Scheduled, StepOf
  <2>2. \A q \in work'[Interpreter] : pstate'[ProgramOf[q]] # "Initialized"
    BY Zenon, Kinds DEF ListInv, Scheduled
  <2> QED  BY Zenon, <1>1, <1>2, <2>1, <2>2, ScheduledFrame, Kinds DEF ListInv
<1>8. EnqueuingOwned'
  <2>1. \A u \in Thread : /\ pc'[u] = "safe" <=> pc[u] = "safe"
                          /\ pc[u] = "safe" => target'[u] = target[u]
    BY <1>1, <1>2
  <2> QED  BY Zenon, <1>3, <2>1, OwnersFrame DEF ListInv
<1>9. RunningOwned'
  <2>1. \A p \in Process : state'[p] \in {"Running", "Yielding"} => p = next /\ p # current
    BY ZenonT(40), <1>3 DEF ListInv, RunningOwned
  <2>2. CASE next = NULL
    BY Zenon, <1>2, <2>1, <2>2, ConstantTypes DEF RunningOwned, Interpreting, Yielding
  <2>3. CASE next # NULL
    <3>1. next \in Process /\ state'[next] = "Running"
      BY <1>3, <2>3 DEF ListInv, Types, RunningOwned
    <3> QED  BY Zenon, <1>2, <2>1, <2>3, <3>1 DEF RunningOwned, Interpreting, Yielding
  <2> QED  BY <2>2, <2>3
<1> QED  BY <1>2, <1>3, <1>4, <1>5, <1>6, <1>7, <1>8, <1>9 DEF ListInv

\* PutBack, RunInterrupted, YieldReady and Reschedule are such steps.
LEMMA RescheduleKeeps ==
    ASSUME ListInv, PutBack \/ RunInterrupted \/ YieldReady \/ Reschedule
    PROVE  ListInv'
<1> USE DEF PutBack, RunInterrupted, YieldReady, Reschedule, ReturnNext, IGoto,
            ProcessOnly, OtherVars
<1>1. /\ pc[Interpreter] \in {"inner", "run", "yield_ready", "resched"}
      /\ Enqueue(current) /\ UNCHANGED <<pstate, paused, target, work, session, stopped>>
  BY Zenon
<1>2. current \in Process /\ state[current] \in {"Running", "Yielding"}
  BY Zenon, <1>1 DEF ListInv, RunningOwned, Interpreting, Yielding
<1>3. pc[Interpreter] # "resched" => next = NULL
  BY <1>1 DEF ListInv, RunningOwned
<1>4. /\ Goto(Interpreter, IF next = NULL THEN "loop" ELSE "inner")
      /\ current' = (IF next = NULL THEN current ELSE next) /\ next' = NULL
  BY Zenon, <1>3
<1> HIDE DEF PutBack, RunInterrupted, YieldReady, Reschedule
<1> QED  BY Zenon, <1>1, <1>2, <1>4, PutBackKeeps

(* A process that is new or whose program has not been scheduled enters. *)

LEMMA AdmitKeeps ==
    ASSUME ListInv, NEW p \in Process, state[p] \in {"New", "Sleeping"}, Enqueue(p),
           NEW t \in {Interpreter, Runner}, NEW label \in Points(t), Goto(t, label),
           t = Interpreter => pc[t] = "run" /\ label = "run",
           pstate' \in [Program -> ProgramStates],
           pstate'[ProgramOf[p]] # "Initialized",
           \A g \in Program : g # ProgramOf[p] => pstate'[g] = pstate[g],
           UNCHANGED <<paused, target, work, current, next, session, stopped>>
    PROVE  ListInv'
<1>1. t \in Thread /\ label \notin {"safe", "resume_process", "signal", "target", "target_exit"}
      /\ pc[t] # "safe"
  BY Zenon, Kinds DEF ListInv, Labels, Points
<1>2. /\ Labels' /\ pc' \in [Thread -> InterpreterPC \cup ThreadPC]
      /\ pc'[t] = label /\ pc'[Interpreter] = pc[Interpreter]
      /\ \A u \in Thread : u # t => pc'[u] = pc[u]
  BY Zenon, <1>1, GotoMoves, Kinds DEF ListInv
<1>3. /\ ready' \in Seq(Process) /\ ReadyList' /\ PausedLists'
      /\ state' \in [Process -> ProcessStates] /\ state'[p] = "Ready"
      /\ \A q \in Process : q # p => state'[q] = state[q]
  BY Zenon, EnqueueLists, NotPaused
<1>4. \A g \in Program : pstate[g] # "Initialized" => pstate'[g] # "Initialized"
  BY Zenon
<1>5. Types'
  BY Zenon, <1>2, <1>3 DEF ListInv, Types
<1>6. FreezersAt'
  BY Zenon, <1>1, <1>2, Kinds DEF ListInv, FreezersAt
<1>7. CurrentAt' /\ RunningOwned'
  <2>1. /\ \A g \in Debugged : stopped[g] # p
        /\ pc[Interpreter] \in Handling \cup {"result"} => p # current
    BY Zenon, NotStopped DEF ListInv, Interruptions
  <2> QED  BY Zenon, <1>2, <1>3, <2>1, OtherProcessFrame DEF ListInv, InterpreterStays
<1>8. Scheduled'
  <2>1. StepOf(t, p)
    BY Zenon, <1>2, <1>3, <1>4 DEF StepOf
  <2>2. \A q \in work'[t] : pstate'[ProgramOf[q]] # "Initialized"
    <3>1. work[t] \subseteq Process
      BY Zenon, <1>1 DEF ListInv, Types
    <3> QED  BY Zenon, <1>1, <1>4, <3>1, ConstantTypes DEF ListInv, Scheduled
  <2> QED  BY Zenon, <1>1, <1>2, <2>1, <2>2, ScheduledFrame, Kinds DEF ListInv
<1>9. EnqueuingOwned'
  <2>1. \A u \in Thread : /\ pc'[u] = "safe" <=> pc[u] = "safe"
                          /\ pc[u] = "safe" => target'[u] = target[u]
    BY ZenonT(40), <1>1, <1>2
  <2> QED  BY Zenon, <1>3, <2>1, OwnersFrame DEF ListInv
<1> QED  BY Zenon, <1>2, <1>3, <1>5, <1>6, <1>7, <1>8, <1>9 DEF ListInv

\* A process is spawned.
LEMMA RunSpawnKeeps ==
    ASSUME ListInv, NEW p \in Process, RunSpawn(p)
    PROVE  ListInv'
<1>1. /\ pc[Interpreter] = "run" /\ Goto(Interpreter, "run") /\ Enqueue(p)
      /\ state[p] = "New" /\ ProgramOf[p] = ProgramOf[current]
      /\ UNCHANGED <<pstate, paused, target, work, current, next, session, stopped>>
  BY ZenonT(40) DEF RunSpawn, IGoto, OtherVars
<1>2. current \in Process /\ state[current] = "Running"
  BY Zenon, <1>1 DEF ListInv, RunningOwned, Interpreting
<1>3. pstate[ProgramOf[p]] # "Initialized" /\ pstate \in [Program -> ProgramStates]
  BY Zenon, <1>1, <1>2 DEF ListInv, Scheduled, Types
<1>4. "run" \in Points(Interpreter)
  BY Zenon DEF Points, InterpreterPC
<1> QED  BY Zenon, <1>1, <1>3, <1>4, AdmitKeeps

\* A program is scheduled: its main process becomes ready.
LEMMA ScheduleProgramKeeps ==
    ASSUME ListInv, NEW g \in Program, ScheduleProgram(g)
    PROVE  ListInv'
<1> DEFINE label == IF ready = <<>> THEN "unlock" ELSE "idle"
<1>1. /\ pc[Runner] = "idle" /\ pstate[g] = "Initialized" /\ Enqueue(Main[g])
      /\ pstate' = [pstate EXCEPT ![g] = "Running"]
      /\ UNCHANGED <<paused, target, work, current, next, session, stopped>>
  BY Zenon DEF ScheduleProgram, At
<1>2. Goto(Runner, label)
  BY <1>1, Kinds DEF ScheduleProgram, Goto, ListInv, Types
<1>3. label \in Points(Runner)
  BY Zenon, Kinds DEF Points
<1>4. Main[g] \in Process /\ ProgramOf[Main[g]] = g /\ state[Main[g]] = "Sleeping"
  BY Zenon, <1>1, SchedulerConstants DEF ListInv, Scheduled
<1>5. /\ pstate' \in [Program -> ProgramStates] /\ pstate'[g] # "Initialized"
      /\ \A h \in Program : h # g => pstate'[h] = pstate[h]
  BY Zenon, <1>1 DEF ListInv, Types, ProgramStates
<1> HIDE DEF label
<1> QED  BY Zenon, <1>1, <1>2, <1>3, <1>4, <1>5, AdmitKeeps, Kinds

\* The queues move a process that no thread is about to enqueue.
LEMMA OwnersStay ==
    ASSUME EnqueuingOwned, UNCHANGED <<pc, target>>, NEW p \in Process,
           \A u \in Thread : pc[u] = "safe" => target[u] # p,
           state'[p] = "Enqueuing" => InPaused(p)',
           \A q \in Process : q # p => state'[q] = state[q] /\ (InPaused(q)' <=> InPaused(q))
    PROVE  EnqueuingOwned'
<1>1. ASSUME NEW u \in Thread, pc[u] = "safe"
      PROVE  /\ target[u] \in Process /\ target[u] # p /\ state[target[u]] = "Enqueuing"
             /\ ~InPaused(target[u])
  BY Zenon, <1>1 DEF EnqueuingOwned
<1> QED  BY <1>1 DEF EnqueuingOwned

\* A process moves between the ready queue and the paused list of its program
\* while no thread moves.
LEMMA TransferKeeps ==
    ASSUME ListInv, NEW p \in Process,
           state[p] \in {"Ready", "Enqueuing"}, NEW s \in {"Ready", "Enqueuing"},
           state[p] = "Ready" <=> s = "Enqueuing",
           \A t \in Thread : pc[t] = "safe" => target[t] # p,
           state' = [state EXCEPT ![p] = s],
           ready' \in Seq(Process), paused' \in [Program -> Seq(Process)],
           Distinct(ready'), \A g \in Program : Distinct(paused'[g]),
           \A q \in Process : q # p => (Listed(ready', q) <=> Listed(ready, q)),
           Listed(ready', p) <=> s = "Ready",
           \A g \in Program : \A q \in Process :
              q # p => (Listed(paused'[g], q) <=> Listed(paused[g], q)),
           \A g \in Program : Listed(paused'[g], p) <=> g = ProgramOf[p] /\ s = "Enqueuing",
           UNCHANGED <<pstate, pc, target, work, current, next, session, stopped>>
    PROVE  ListInv'
<1>1. /\ state' \in [Process -> ProcessStates] /\ state'[p] = s
      /\ \A q \in Process : q # p => state'[q] = state[q]
  BY Zenon DEF ListInv, Types, ProcessStates
<1>2. Types' /\ Labels' /\ FreezersAt'
  BY Zenon, <1>1 DEF ListInv, Types, Labels, Points, FreezersAt
<1>3. CurrentAt' /\ RunningOwned'
  <2>1. /\ \A g \in Debugged : stopped[g] # p
        /\ pc[Interpreter] \in Handling \cup {"result"} => p # current
    BY Zenon, NotStopped DEF ListInv, Interruptions
  <2> QED  BY Zenon, <1>1, <2>1, OtherProcessFrame DEF ListInv, InterpreterStays
<1>4. Scheduled'
  <2>1. StepOf(Runner, p)
    BY Zenon, <1>1 DEF ListInv, Scheduled, StepOf
  <2>2. \A q \in work'[Runner] : pstate'[ProgramOf[q]] # "Initialized"
    BY Zenon, Kinds DEF ListInv, Scheduled
  <2>3. pc'[Runner] \notin {"resume_process", "signal", "target", "target_exit"}
    BY Zenon, Kinds DEF ListInv, Labels, Points
  <2> QED  BY Zenon, <2>1, <2>2, <2>3, ScheduledFrame, Kinds DEF ListInv
<1>5. ReadyList'
  BY ZenonT(40), <1>1 DEF ListInv, ReadyList
<1>6. PausedLists'
  <2>1. PausedLists
    BY Zenon DEF ListInv
  <2>2. ASSUME NEW g \in Program, NEW q \in Process, Listed(paused'[g], q)
        PROVE  ProgramOf[q] = g /\ state'[q] = "Enqueuing"
    <3>1. CASE q = p
      BY Zenon, <1>1, <2>2, <3>1
    <3>2. CASE q # p
      BY Zenon, <1>1, <2>1, <2>2, <3>2 DEF PausedLists
    <3> QED  BY Zenon, <3>1, <3>2
  <2> QED  BY Zenon, <2>2 DEF PausedLists
<1>7. /\ \A q \in Process : q # p => (InPaused(q)' <=> InPaused(q))
      /\ s = "Enqueuing" => InPaused(p)'
  BY Zenon, ConstantTypes DEF InPaused
<1>8. EnqueuingOwned'
  <2>1. EnqueuingOwned /\ \A u \in Thread : pc[u] = "safe" => target[u] # p
    BY Zenon DEF ListInv
  <2>2. \A q \in Process : q # p => state'[q] = state[q] /\ (InPaused(q)' <=> InPaused(q))
    BY Zenon, <1>1, <1>7
  <2>3. state'[p] = "Enqueuing" => InPaused(p)'
    BY Zenon, <1>1, <1>7
  <2>4. UNCHANGED <<pc, target>>
    BY Zenon
  <2> HIDE DEF InPaused
  <2> QED  BY Zenon, <2>1, <2>2, <2>3, <2>4, OwnersStay
<1> QED  BY Zenon, <1>2, <1>3, <1>4, <1>5, <1>6, <1>8 DEF ListInv

\* PauseAllProcessesOfProgram moves a ready process.
LEMMA PauseProcessKeeps ==
    ASSUME ListInv, NEW t \in Thread, PauseProcess(t)
    PROVE  ListInv'
<1>1. pc[t] = "moving" /\ ready \in Seq(Process) /\ Distinct(ready)
  BY Zenon DEF PauseProcess, At, ListInv, Types, ReadyList
<1>2. PICK i \in 1..Len(ready) :
         /\ ProgramOf[ready[i]] = ProgramAt(t)
         /\ ready' = Erase(ready, i)
         /\ state' = [state EXCEPT ![ready[i]] = "Enqueuing"]
         /\ paused' = [paused EXCEPT ![ProgramAt(t)] = Append(@, ready[i])]
  BY Zenon DEF PauseProcess
<1>3. PICK p \in Process : p = ready[i]
  BY <1>1, EraseList
<1>4. PICK g \in Program : g = ProgramAt(t)
  BY ZenonT(40), <1>1, ProgramAtHand
<1>5. /\ ready' \in Seq(Process) /\ Distinct(ready')
      /\ \A q : Listed(ready', q) <=> Listed(ready, q) /\ q # p
      /\ Listed(ready, p)
  BY Zenon, <1>1, <1>2, <1>3, EraseList
<1>6. state[p] = "Ready" /\ ProgramOf[p] = g
  BY Zenon, <1>2, <1>3, <1>4, <1>5 DEF ListInv, ReadyList
<1>7. \A h \in Program : ~Listed(paused[h], p)
  BY Zenon, <1>6, NotPaused
<1>8. /\ Append(paused[g], p) \in Seq(Process) /\ Distinct(Append(paused[g], p))
      /\ \A q : Listed(Append(paused[g], p), q) <=> Listed(paused[g], q) \/ q = p
  <2>1. paused[g] \in Seq(Process) /\ Distinct(paused[g])
    BY Zenon DEF ListInv, Types, PausedLists
  <2> QED  BY Zenon, <1>7, <2>1, AppendList
<1>9. /\ paused' \in [Program -> Seq(Process)] /\ paused'[g] = Append(paused[g], p)
      /\ \A h \in Program : h # g => paused'[h] = paused[h]
  BY Zenon, <1>2, <1>3, <1>4, <1>8 DEF ListInv, Types
<1>10. /\ \A h \in Program : Distinct(paused'[h])
       /\ \A h \in Program : \A q \in Process :
             q # p => (Listed(paused'[h], q) <=> Listed(paused[h], q))
       /\ \A h \in Program : Listed(paused'[h], p) <=> h = ProgramOf[p]
  <2>1. ASSUME NEW h \in Program
        PROVE  /\ Distinct(paused'[h])
               /\ \A q \in Process : q # p => (Listed(paused'[h], q) <=> Listed(paused[h], q))
               /\ Listed(paused'[h], p) <=> h = ProgramOf[p]
    <3>1. CASE h = g
      BY Zenon, <1>6, <1>8, <1>9, <3>1
    <3>2. CASE h # g
      BY Zenon, <1>6, <1>7, <1>9, <3>2 DEF ListInv, PausedLists
    <3> QED  BY Zenon, <3>1, <3>2
  <2> QED  BY Zenon, <2>1
<1>11. \A u \in Thread : pc[u] = "safe" => target[u] # p
  BY Zenon, <1>6 DEF ListInv, EnqueuingOwned
<1>12. /\ state' = [state EXCEPT ![p] = "Enqueuing"]
       /\ UNCHANGED <<pstate, pc, target, work, current, next, session, stopped>>
  BY Zenon, <1>2, <1>3 DEF PauseProcess
<1> QED  BY Zenon, <1>5, <1>6, <1>9, <1>10, <1>11, <1>12, TransferKeeps

\* ResumeProgram and UnFreezeProgram move a paused process back.
LEMMA EnqueuePausedKeeps ==
    ASSUME ListInv, NEW t \in Thread, EnqueuePaused(t)
    PROVE  ListInv'
<1>1. PICK g \in Program : g = ProgramAt(t)
  BY Zenon, ProgramAtHand DEF EnqueuePaused
<1>2. /\ paused[g] # <<>> /\ Enqueue(Head(paused[g]))
      /\ paused' = [paused EXCEPT ![g] = Tail(@)]
      /\ UNCHANGED <<pstate, pc, target, work, current, next, session, stopped>>
  BY Zenon, <1>1 DEF EnqueuePaused
<1>3. paused[g] \in Seq(Process) /\ Distinct(paused[g])
  BY Zenon DEF ListInv, Types, PausedLists
<1>4. PICK p \in Process : p = Head(paused[g])
  BY <1>2, <1>3, TailList
<1>5. /\ Tail(paused[g]) \in Seq(Process) /\ Distinct(Tail(paused[g]))
      /\ \A q : Listed(Tail(paused[g]), q) <=> Listed(paused[g], q) /\ q # p
      /\ Listed(paused[g], p)
  BY Zenon, <1>2, <1>3, <1>4, TailList
<1>6. state[p] = "Enqueuing" /\ ProgramOf[p] = g
  BY Zenon, <1>5 DEF ListInv, PausedLists
<1>7. \A h \in Program : h # g => ~Listed(paused[h], p)
  BY <1>6 DEF ListInv, PausedLists
<1>8. /\ paused' \in [Program -> Seq(Process)] /\ paused'[g] = Tail(paused[g])
      /\ \A h \in Program : h # g => paused'[h] = paused[h]
  BY <1>2, <1>5 DEF ListInv, Types
<1>9. /\ \A h \in Program : Distinct(paused'[h])
      /\ \A h \in Program : \A q \in Process :
            q # p => (Listed(paused'[h], q) <=> Listed(paused[h], q))
      /\ \A h \in Program : ~Listed(paused'[h], p)
  BY ZenonT(40), <1>5, <1>7, <1>8 DEF ListInv, PausedLists
<1>10. ready \in Seq(Process) /\ Distinct(ready) /\ ~Listed(ready, p)
  BY Zenon, <1>6 DEF ListInv, Types, ReadyList
<1>11. /\ ready' \in Seq(Process) /\ Distinct(ready')
       /\ \A q : Listed(ready', q) <=> Listed(ready, q) \/ q = p
       /\ state' = [state EXCEPT ![p] = "Ready"]
  BY <1>2, <1>4, <1>10, AppendList DEF Enqueue
<1>12. \A u \in Thread : pc[u] = "safe" => target[u] # p
  BY <1>5, <1>6 DEF ListInv, EnqueuingOwned, InPaused
<1> QED  BY ZenonT(40), <1>2, <1>6, <1>8, <1>9, <1>11, <1>12, TransferKeeps

-----------------------------------------------------------------------------
(* Dequeuing and deleting *)

\* The process is deleted; InterpretProcess returns the one to run next, if any.
LEMMA DeleteTerminatedProcessKeeps ==
    ASSUME ListInv, DeleteTerminatedProcess
    PROVE  ListInv'
<1> USE DEF DeleteTerminatedProcess, ReturnNext, IGoto, OtherVars
<1> DEFINE label == IF next = NULL THEN "loop" ELSE "inner"
<1>1. /\ pc[Interpreter] = "next" /\ Goto(Interpreter, label)
      /\ current' = IF next = NULL THEN current ELSE next
      /\ next' = NULL
      /\ UNCHANGED <<paused, state, ready, target, work, session, stopped>>
  OBVIOUS
<1>2. /\ pstate' \in [Program -> ProgramStates]
      /\ \A g \in Program : pstate[g] # "Initialized" => pstate'[g] # "Initialized"
      /\ \A g \in Program : pstate'[g] = "Initialized" => pstate[g] = "Initialized"
  BY ZenonT(40) DEF ListInv, Types, ProgramStates
<1>3. label \in Points(Interpreter) /\ label \in {"loop", "inner"}
  BY Zenon DEF Points, InterpreterPC
<1>4. /\ Labels' /\ pc' \in [Thread -> InterpreterPC \cup ThreadPC]
      /\ pc'[Interpreter] = label
      /\ \A u \in Thread : u # Interpreter => pc'[u] = pc[u]
  BY Zenon, <1>1, <1>3, GotoMoves, Kinds DEF ListInv
<1> HIDE DEF DeleteTerminatedProcess
<1>5. Types'
  BY <1>1, <1>2, <1>4 DEF ListInv, Types
<1>6. FreezersAt'
  BY ZenonT(40), <1>1, <1>4, Kinds DEF ListInv, FreezersAt
<1>7. CurrentAt'
  BY <1>1, <1>4 DEF ListInv, CurrentAt, Handling
<1>8. Scheduled'
  <2>1. PICK p \in Process : p = current /\ pstate[ProgramOf[p]] # "Initialized"
    BY Zenon, <1>1 DEF ListInv, CurrentAt, Scheduled
  <2>2. StepOf(Interpreter, p)
    BY ZenonT(40), <1>1, <1>2, <1>4, <2>1, ConstantTypes DEF StepOf
  <2>3. \A q \in work'[Interpreter] : pstate'[ProgramOf[q]] # "Initialized"
    <3>1. work[Interpreter] \subseteq Process
      BY Kinds DEF ListInv, Types
    <3> QED  BY Zenon, <1>1, <1>2, <3>1, Kinds, ConstantTypes DEF ListInv, Scheduled
  <2> QED  BY ZenonT(40), <1>1, <1>3, <1>4, <2>2, <2>3, ScheduledFrame, Kinds DEF ListInv
<1>9. ReadyList' /\ PausedLists'
  BY <1>1, ListsFrame DEF ListInv
<1>10. EnqueuingOwned'
  <2>1. \A u \in Thread : /\ pc'[u] = "safe" <=> pc[u] = "safe"
                          /\ pc[u] = "safe" => target'[u] = target[u]
    BY <1>1, <1>3, <1>4
  <2> QED  BY Zenon, <1>1, <2>1, OwnersFrame DEF ListInv
<1>11. RunningOwned'
  <2>1. \A p \in Process : /\ state[p] = "Running" => p = next
                           /\ state[p] # "Yielding"
    BY Zenon, <1>1 DEF ListInv, RunningOwned, CurrentAt, Interpreting, Yielding
  <2>2. CASE next = NULL
    BY Zenon, <1>1, <1>4, <2>1, <2>2, ConstantTypes DEF RunningOwned, Interpreting, Yielding
  <2>3. CASE next # NULL
    <3>1. next \in Process /\ state[next] = "Running"
      BY Zenon, <2>3 DEF ListInv, Types, RunningOwned
    <3> QED  BY Zenon, <1>1, <1>4, <2>1, <2>3, <3>1 DEF RunningOwned, Interpreting, Yielding
  <2> QED  BY Zenon, <2>2, <2>3
<1> QED  BY ZenonT(40), <1>4, <1>5, <1>6, <1>7, <1>8, <1>9, <1>10, <1>11 DEF ListInv

\* The interpreter thread gets a process p, ready or asleep, in kRunning, as its
\* current one or as the next.
LEMMA TakeKeeps ==
    ASSUME ListInv, NEW label \in {"inner", "resched", "result"}, Goto(Interpreter, label),
           NEW p \in Process, state[p] \in {"Sleeping", "Ready"},
           pstate[ProgramOf[p]] # "Initialized",
           state' = [state EXCEPT ![p] = "Running"],
           ready' \in Seq(Process), Distinct(ready'),
           \A q \in Process : Listed(ready', q) <=> Listed(ready, q) /\ q # p,
           \/ /\ pc[Interpreter] = "dequeue" /\ label = "inner"
              /\ current' = p /\ UNCHANGED next
           \/ /\ pc[Interpreter] \in {"target", "target_exit"} /\ label # "inner"
              /\ next' = p /\ UNCHANGED current,
           UNCHANGED <<pstate, paused, target, work, session, stopped>>
    PROVE  ListInv'
<1>1. label \in Points(Interpreter)
  BY Zenon DEF Points, InterpreterPC
<1>2. /\ Labels' /\ pc' \in [Thread -> InterpreterPC \cup ThreadPC]
      /\ pc'[Interpreter] = label
      /\ \A u \in Thread : u # Interpreter => pc'[u] = pc[u]
  BY ZenonT(40), <1>1, GotoMoves, Kinds DEF ListInv
<1>3. /\ state' \in [Process -> ProcessStates] /\ state'[p] = "Running"
      /\ \A q \in Process : q # p => state'[q] = state[q]
  BY Zenon DEF ListInv, Types, ProcessStates
<1>4. /\ next = NULL
      /\ pc[Interpreter] \in {"target", "target_exit"} =>
            current \in Process /\ state[current] = "Running" /\ current # p
  BY Zenon DEF ListInv, RunningOwned, Interpreting
<1>5. Types'
  BY Zenon, <1>2, <1>3 DEF ListInv, Types
<1>6. FreezersAt'
  BY Zenon, <1>2, Kinds DEF ListInv, FreezersAt
<1>7. CurrentAt'
  <2>1. \A g \in Debugged : stopped[g] # NULL =>
           stopped[g] \in Process /\ stopped[g] # p /\ state[stopped[g]] # "Running"
    BY Zenon DEF ListInv, Types, CurrentAt, Interruptions
  <2> QED  BY ZenonT(40), <1>2, <1>3, <1>4, <2>1 DEF ListInv, CurrentAt, Handling
<1>8. Scheduled'
  <2>1. StepOf(Interpreter, p)
    BY Zenon, <1>2, <1>3 DEF StepOf
  <2>2. \A q \in work'[Interpreter] : pstate'[ProgramOf[q]] # "Initialized"
    BY Zenon, Kinds DEF ListInv, Scheduled
  <2> QED  BY Zenon, <1>2, <2>1, <2>2, ScheduledFrame, Kinds DEF ListInv
<1>9. ReadyList'
  BY Zenon, <1>3 DEF ListInv, ReadyList
<1>10. PausedLists'
  BY ZenonT(40), <1>3 DEF ListInv, PausedLists
<1>11. EnqueuingOwned'
  <2>1. \A u \in Thread : /\ pc'[u] = "safe" <=> pc[u] = "safe"
                          /\ pc[u] = "safe" => target'[u] = target[u]
    BY Zenon, <1>2
  <2> QED  BY Zenon, <1>3, <2>1, OwnersFrame DEF ListInv
<1>12. RunningOwned'
  <2>1. ASSUME NEW q \in Process, q # p
        PROVE  /\ state'[q] = "Running" =>
                     q = current /\ pc[Interpreter] \in {"target", "target_exit"}
               /\ state'[q] # "Yielding"
    <3>1. q # next
      BY Zenon, <1>4, ConstantTypes
    <3> QED  BY Zenon, <1>3, <2>1, <3>1 DEF ListInv, RunningOwned, Interpreting, Yielding
  <2>2. CASE label = "inner"
    <3>1. pc[Interpreter] = "dequeue" /\ current' = p /\ next' = NULL
      BY Zenon, <1>4, <2>2
    <3> QED  BY Zenon, <1>2, <1>3, <2>1, <2>2, <3>1 DEF RunningOwned, Interpreting, Yielding
  <2>3. CASE label # "inner"
    <3>1. current \in Process /\ state'[current] = "Running" /\ current # p
          /\ current' = current /\ next' = p
      BY Zenon, <1>3, <1>4, <2>3
    <3> QED  BY Zenon, <1>2, <1>3, <2>1, <2>3, <3>1 DEF RunningOwned, Interpreting, Yielding
  <2> QED  BY Zenon, <2>2, <2>3
<1> QED  BY ZenonT(40), <1>2, <1>5, <1>6, <1>7, <1>8, <1>9, <1>10, <1>11, <1>12 DEF ListInv

\* DequeueProcess takes the first ready process, if there is one.
LEMMA TryDequeueKeeps ==
    ASSUME ListInv, TryDequeue
    PROVE  ListInv'
<1> USE DEF TryDequeue, IGoto, OtherVars
<1>1. /\ pc[Interpreter] = "dequeue"
      /\ UNCHANGED <<pstate, paused, target, work, next, session, stopped>>
  OBVIOUS
<1>2. CASE ready = <<>>
  <2>1. Goto(Interpreter, "after") /\ UNCHANGED <<ready, state, current>>
    BY Zenon, <1>2
  <2>2. OwnStep(Interpreter, "after")
    BY Zenon, <1>1, <2>1, Kinds DEF OwnStep, ListInv, Types, Scheduled
  <2> QED  BY <1>1, <2>2, InterpreterMoves DEF Phases, NoProcess
<1>3. CASE ready # <<>>
  <2>1. ready \in Seq(Process) /\ Distinct(ready)
    BY DEF ListInv, Types, ReadyList
  <2>2. PICK p \in Process : p = Head(ready)
    BY <1>3, <2>1, TailList
  <2>3. /\ Goto(Interpreter, "inner") /\ current' = p /\ ready' = Tail(ready)
        /\ state' = [state EXCEPT ![p] = "Running"]
    BY <1>3, <2>2
  <2>4. /\ ready' \in Seq(Process) /\ Distinct(ready') /\ Listed(ready, p)
        /\ \A q : Listed(ready', q) <=> Listed(ready, q) /\ q # p
    BY Zenon, <1>3, <2>1, <2>2, <2>3, TailList
  <2>5. state[p] = "Ready" /\ pstate[ProgramOf[p]] # "Initialized"
    BY Zenon, <2>4 DEF ListInv, ReadyList, Scheduled
  <2> HIDE DEF TryDequeue
  <2> QED  BY Zenon, <1>1, <2>3, <2>4, <2>5, TakeKeeps
<1> QED  BY <1>2, <1>3

\* The receiver of a message runs next if it was asleep or ready.
LEMMA YieldToTargetKeeps ==
    ASSUME ListInv, TargetYield
    PROVE  ListInv'
<1> USE DEF TargetYield, IGoto, OtherVars
<1> DEFINE label == IF pc[Interpreter] = "target" THEN "resched" ELSE "result"
<1>1. /\ pc[Interpreter] \in {"target", "target_exit"} /\ Goto(Interpreter, label)
      /\ UNCHANGED <<pstate, paused, target, work, current, session, stopped>>
  BY Zenon
<1>2. PICK p \in Process : p = target[Interpreter] /\ pstate[ProgramOf[p]] # "Initialized"
  BY Zenon, <1>1, Kinds DEF ListInv, Scheduled
<1>3. ready \in Seq(Process) /\ Distinct(ready)
  BY DEF ListInv, Types, ReadyList
<1>4. \/ /\ state[p] = "Sleeping" /\ state' = [state EXCEPT ![p] = "Running"]
         /\ next' = p /\ UNCHANGED ready
      \/ \E i \in 1..Len(ready) :
            /\ ready[i] = p /\ state' = [state EXCEPT ![p] = "Running"]
            /\ next' = p /\ ready' = Erase(ready, i)
      \/ UNCHANGED <<state, ready, next>>
  BY Zenon, <1>2
<1>5. label \in {"resched", "result"}
  BY Zenon
<1> HIDE DEF TargetYield, label
<1>6. CASE state[p] = "Sleeping" /\ state' = [state EXCEPT ![p] = "Running"]
           /\ next' = p /\ UNCHANGED ready
  <2>1. \A q \in Process : Listed(ready', q) <=> Listed(ready, q) /\ q # p
    BY <1>6 DEF ListInv, ReadyList
  <2> QED  BY Zenon, <1>1, <1>2, <1>3, <1>5, <1>6, <2>1, TakeKeeps
<1>7. CASE \E i \in 1..Len(ready) :
              /\ ready[i] = p /\ state' = [state EXCEPT ![p] = "Running"]
              /\ next' = p /\ ready' = Erase(ready, i)
  <2>1. PICK i \in 1..Len(ready) :
              /\ ready[i] = p /\ state' = [state EXCEPT ![p] = "Running"]
              /\ next' = p /\ ready' = Erase(ready, i)
    BY <1>7
  <2>2. /\ ready' \in Seq(Process) /\ Distinct(ready') /\ Listed(ready, p)
        /\ \A q : Listed(ready', q) <=> Listed(ready, q) /\ q # p
    BY <1>3, <2>1, EraseList
  <2>3. state[p] = "Ready"
    BY <2>2 DEF ListInv, ReadyList
  <2> QED  BY Zenon, <1>1, <1>2, <1>5, <2>1, <2>2, <2>3, TakeKeeps
<1>8. CASE UNCHANGED <<state, ready, next>>
  <2>1. label \in Points(Interpreter)
    BY Zenon, <1>5 DEF Points, InterpreterPC
  <2>2. OwnStep(Interpreter, label)
    BY Zenon, <1>1, <1>5, <1>8, Kinds DEF OwnStep, ListInv, Types, Scheduled
  <2>3. Types' /\ Labels' /\ FreezersAt' /\ Scheduled'
    BY <2>1, <2>2, OwnStepScheduled, Kinds
  <2>4. pc'[Interpreter] = label /\ \A u \in Thread : u # Interpreter => pc'[u] = pc[u]
    BY <1>1, <2>1, GotoMoves, Kinds DEF ListInv
  <2>5. current \in Process /\ state[current] = "Running" /\ next = NULL
    BY <1>1 DEF ListInv, RunningOwned, Interpreting
  <2>6. CurrentAt'
    BY ZenonT(40), <1>1, <1>5, <1>8, <2>4, <2>5 DEF ListInv, CurrentAt, Handling, Interruptions
  <2>7. ReadyList' /\ PausedLists'
    BY <1>1, <1>8, ListsFrame DEF ListInv
  <2>8. EnqueuingOwned'
    <3>1. \A u \in Thread : /\ pc'[u] = "safe" <=> pc[u] = "safe"
                            /\ pc[u] = "safe" => target'[u] = target[u]
      BY Zenon, <1>1, <1>5, <2>4
    <3> QED  BY <1>1, <1>8, <3>1, OwnersFrame DEF ListInv
  <2>9. RunningOwned'
    BY <1>1, <1>5, <1>8, <2>4, <2>5 DEF ListInv, RunningOwned, Interpreting, Yielding
  <2> QED  BY <2>3, <2>6, <2>7, <2>8, <2>9 DEF ListInv
<1> QED  BY Zenon, <1>4, <1>6, <1>7, <1>8

=============================================================================
