------------------------- MODULE SchedulerInvariant -------------------------
(***************************************************************************)
(* The invariant from which the lists of the scheduler are proved correct  *)
(* and on which the other proofs about it rest, the facts about lists,     *)
(* threads and programs that they share, and what a step has to keep for   *)
(* each part of the invariant.                                             *)
(***************************************************************************)
EXTENDS Scheduler, TLAPS

USE SMTT(20), ZenonT(20)

\* The variables the argument is about have their types.
Types ==
    /\ pstate \in [Program -> ProgramStates]
    /\ paused \in [Program -> Seq(Process)]
    /\ state \in [Process -> ProcessStates]
    /\ ready \in Seq(Process)
    /\ pc \in [Thread -> InterpreterPC \cup ThreadPC]
    /\ target \in [Thread -> Process \cup Program \cup {NULL}]
    /\ work \in [Thread -> SUBSET Process]
    /\ current \in Process \cup {NULL}
    /\ next \in Process \cup {NULL}
    /\ session \in [Debugged -> {"Running", "Paused", "Terminating", "Terminated"}]
    /\ stopped \in [Debugged -> Process \cup {NULL}]

\* The points of the code that a thread can be at.
Points(t) ==
    IF t = Interpreter THEN InterpreterPC
    ELSE IF t = Runner THEN {"idle", "unlock", "down"}
    ELSE IF t \in Freezers THEN {"idle", "pausing", "freezing", "freeze", "moving",
                                 "unfreezing", "thawing", "unlock"}
    ELSE IF t \in Senders THEN {"idle", "resume_process", "safe", "unlock"}
    ELSE {"idle", "stop", "pausing", "moving", "stopped", "next", "signal", "safe",
          "unlock", "resume", "resuming"}

Labels == \A t \in Thread : pc[t] \in Points(t)

\* A freezing thread that has a program at hand.
FreezersAt ==
    \A t \in Freezers : pc[t] \in {"freeze", "moving", "thawing"} => target[t] \in Program

\* Where the interpreter thread tells the session about the current process.
Handling == {"stop", "moving", "event", "resume", "resuming"}

\* What the interpreter thread knows about its current process once it has left
\* kRunning, and that it is not the one a session has stopped.
CurrentAt ==
    /\ pc[Interpreter] \in Handling =>
          current \in Process /\ state[current] \in Interruptions \cup {"Terminated"}
    /\ pc[Interpreter] = "result" =>
          current \in Process /\ state[current] \in Interruptions \cup {"Terminated", "Running"}
    /\ pc[Interpreter] \in {"next", "signal", "safe"} =>
          current \in Process /\ state[current] = "Dead"
    /\ \A g \in Debugged : stopped[g] # NULL =>
          /\ ProgramOf[stopped[g]] = g
          /\ state[stopped[g]] \in Interruptions
          /\ pc[Interpreter] \in Handling \cup {"result"} => stopped[g] # current

\* Nothing happens to the processes of a program before it is scheduled.
Scheduled ==
    /\ \A g \in Program : pstate[g] = "Initialized" => state[Main[g]] = "Sleeping"
    /\ \A p \in Process :
          state[p] \notin {"New", "Sleeping"} => pstate[ProgramOf[p]] # "Initialized"
    /\ \A t \in Thread :
          /\ \A p \in work[t] : pstate[ProgramOf[p]] # "Initialized"
          /\ pc[t] \in {"resume_process", "signal", "target", "target_exit"} =>
                target[t] \in Process /\ pstate[ProgramOf[target[t]]] # "Initialized"
    /\ \A g \in Debugged :
          session[g] # "Running" \/ pc[g] # "idle" => pstate[g] # "Initialized"

ListInv ==
    /\ Types /\ Labels /\ FreezersAt /\ CurrentAt /\ Scheduled
    /\ ReadyList /\ PausedLists /\ EnqueuingOwned /\ RunningOwned

-----------------------------------------------------------------------------
(* What the operations on lists do, with Listed and Distinct only *)

\* Append, of a process that is not in the list yet (ProcessQueueList::Append).
LEMMA AppendList ==
    ASSUME NEW S, NEW s \in Seq(S), NEW e \in S, Distinct(s), ~Listed(s, e)
    PROVE  /\ Append(s, e) \in Seq(S)
           /\ Distinct(Append(s, e))
           /\ \A p : Listed(Append(s, e), p) <=> Listed(s, p) \/ p = e
BY DEF Listed, Distinct

\* RemoveFirst of a list in which no process occurs twice.
LEMMA TailList ==
    ASSUME NEW S, NEW s \in Seq(S), s # <<>>, Distinct(s)
    PROVE  /\ Head(s) \in S
           /\ Tail(s) \in Seq(S)
           /\ Listed(s, Head(s))
           /\ Distinct(Tail(s))
           /\ \A p : Listed(Tail(s), p) <=> Listed(s, p) /\ p # Head(s)
<1>1. Head(s) = s[1] /\ Len(s) \in Nat \ {0} /\ Tail(s) \in Seq(S)
  OBVIOUS
<1>2. Len(Tail(s)) = Len(s) - 1 /\ \A i \in 1..(Len(s) - 1) : Tail(s)[i] = s[i + 1]
  OBVIOUS
<1>3. ASSUME NEW p
      PROVE  Listed(Tail(s), p) <=> Listed(s, p) /\ p # Head(s)
  <2>1. ASSUME Listed(Tail(s), p) PROVE Listed(s, p) /\ p # Head(s)
    BY <1>1, <1>2, <2>1 DEF Listed, Distinct
  <2>2. ASSUME Listed(s, p), p # Head(s) PROVE Listed(Tail(s), p)
    <3>1. PICK i \in 1..Len(s) : s[i] = p
      BY <2>2 DEF Listed
    <3>2. i - 1 \in 1..(Len(s) - 1) /\ Tail(s)[i - 1] = p
      BY <1>1, <1>2, <2>2, <3>1
    <3> QED  BY <1>2, <3>2 DEF Listed
  <2> QED  BY <2>1, <2>2
<1>4. Distinct(Tail(s))
  BY <1>1, <1>2 DEF Distinct
<1>5. Listed(s, Head(s)) /\ Head(s) \in S
  BY <1>1 DEF Listed
<1> QED  BY <1>1, <1>3, <1>4, <1>5

\* Remove of the i-th entry of a list in which no process occurs twice.
LEMMA EraseList ==
    ASSUME NEW S, NEW s \in Seq(S), Distinct(s), NEW i \in 1..Len(s)
    PROVE  /\ s[i] \in S
           /\ Erase(s, i) \in Seq(S)
           /\ Listed(s, s[i])
           /\ Distinct(Erase(s, i))
           /\ \A p : Listed(Erase(s, i), p) <=> Listed(s, p) /\ p # s[i]
<1>1. Len(s) \in Nat \ {0} /\ s[i] \in S
  OBVIOUS
<1>2. Erase(s, i) \in Seq(S) /\ Len(Erase(s, i)) = Len(s) - 1
  BY <1>1 DEF Erase
<1>3. \A j \in 1..(Len(s) - 1) : Erase(s, i)[j] = IF j < i THEN s[j] ELSE s[j + 1]
  BY DEF Erase
<1>4. ASSUME NEW p
      PROVE  Listed(Erase(s, i), p) <=> Listed(s, p) /\ p # s[i]
  <2>1. ASSUME Listed(Erase(s, i), p) PROVE Listed(s, p) /\ p # s[i]
    <3>1. PICK j \in 1..(Len(s) - 1) : Erase(s, i)[j] = p
      BY <1>2, <2>1 DEF Listed
    <3> QED  BY <1>1, <1>3, <3>1 DEF Listed, Distinct
  <2>2. ASSUME Listed(s, p), p # s[i] PROVE Listed(Erase(s, i), p)
    <3>1. PICK j \in 1..Len(s) : s[j] = p
      BY <2>2 DEF Listed
    <3>2. CASE j < i
      BY <1>1, <1>2, <1>3, <3>1, <3>2 DEF Listed
    <3>3. CASE j > i
      <4>1. j - 1 \in 1..(Len(s) - 1) /\ Erase(s, i)[j - 1] = p
        BY <1>1, <1>3, <3>1, <3>3
      <4> QED  BY <1>2, <4>1 DEF Listed
    <3> QED  BY <2>2, <3>1, <3>2, <3>3
  <2> QED  BY <2>1, <2>2
<1>5. Distinct(Erase(s, i))
  BY <1>1, <1>2, <1>3 DEF Distinct
<1> QED  BY <1>1, <1>2, <1>4, <1>5 DEF Listed

-----------------------------------------------------------------------------
(* Threads *)

\* The kinds of threads are disjoint and there are no others.
LEMMA Kinds ==
    /\ Interpreter \in Thread /\ Runner \in Thread /\ Interpreter # Runner
    /\ \A t \in Freezers : t \in Thread /\ t # Interpreter /\ t # Runner
    /\ \A t \in Senders : /\ t \in Thread /\ t # Interpreter /\ t # Runner
                          /\ t \notin Freezers
    /\ \A t \in Debugged : /\ t \in Thread /\ t # Interpreter /\ t # Runner
                           /\ t \notin Freezers /\ t \notin Senders /\ t \in Program
    /\ \A t \in Thread : \/ t = Interpreter \/ t = Runner \/ t \in Freezers
                         \/ t \in Senders \/ t \in Debugged
BY SchedulerConstants DEF Thread, Embedders

\* The types of the constants.
LEMMA ConstantTypes ==
    /\ NULL \notin Process
    /\ \A p \in Process : ProgramOf[p] \in Program
    /\ \A g \in Program : Main[g] \in Process /\ ProgramOf[Main[g]] = g
BY SchedulerConstants

\* Goto moves one thread.
LEMMA GotoMoves ==
    ASSUME Types, Labels, NEW t \in Thread, NEW label \in Points(t), Goto(t, label)
    PROVE  /\ pc' \in [Thread -> InterpreterPC \cup ThreadPC]
           /\ Labels'
           /\ pc'[t] = label
           /\ \A u \in Thread : u # t => pc'[u] = pc[u]
<1>1. label \in InterpreterPC \cup ThreadPC
  BY DEF Points, InterpreterPC, ThreadPC
<1>2. /\ pc' \in [Thread -> InterpreterPC \cup ThreadPC]
      /\ pc'[t] = label
      /\ \A u \in Thread : u # t => pc'[u] = pc[u]
  BY <1>1 DEF Goto, Types
<1>3. ASSUME NEW u \in Thread PROVE pc'[u] \in Points(u)
  BY <1>2 DEF Labels
<1> QED  BY <1>2, <1>3 DEF Labels, Points

-----------------------------------------------------------------------------
(* What each part of the invariant depends on *)

\* The lists, as long as the same processes are ready and the paused ones stay so.
LEMMA ListsFrame ==
    ASSUME ReadyList, PausedLists, UNCHANGED <<ready, paused>>,
           \A q \in Process : /\ state'[q] = "Ready" <=> state[q] = "Ready"
                              /\ state[q] = "Enqueuing" => state'[q] = "Enqueuing"
    PROVE  ReadyList' /\ PausedLists'
<1>1. ReadyList'
  BY DEF ReadyList
<1>2. PausedLists'
  BY DEF PausedLists
<1> QED  BY <1>1, <1>2

\* The owners, as long as the same threads are about to enqueue the same processes.
LEMMA OwnersFrame ==
    ASSUME EnqueuingOwned, UNCHANGED paused,
           \A u \in Thread : /\ pc'[u] = "safe" <=> pc[u] = "safe"
                             /\ pc[u] = "safe" => target'[u] = target[u],
           \A q \in Process : state'[q] = "Enqueuing" <=> state[q] = "Enqueuing"
    PROVE  EnqueuingOwned'
<1>1. ASSUME NEW u \in Thread, pc'[u] = "safe"
      PROVE  target'[u] \in Process /\ state'[target'[u]] = "Enqueuing" /\ ~InPaused(target[u])'
  <2>1. PICK q \in Process : q = target[u] /\ q = target'[u] /\ state[q] = "Enqueuing"
                             /\ ~InPaused(q)
    BY <1>1 DEF EnqueuingOwned
  <2>2. state'[q] = "Enqueuing" /\ ~InPaused(q)'
    BY <2>1 DEF InPaused
  <2> QED  BY <2>1, <2>2 DEF InPaused
<1>2. \A u, v \in Thread :
         pc'[u] = "safe" /\ pc'[v] = "safe" /\ target'[u] = target'[v] => u = v
  BY DEF EnqueuingOwned
<1>3. ASSUME NEW q \in Process, state'[q] = "Enqueuing"
      PROVE  InPaused(q)' \/ \E u \in Thread : pc'[u] = "safe" /\ target'[u] = q
  <2>1. InPaused(q) \/ \E u \in Thread : pc[u] = "safe" /\ target[u] = q
    BY <1>3 DEF EnqueuingOwned
  <2>2. InPaused(q) => InPaused(q)'
    BY DEF InPaused
  <2> QED  BY <2>1, <2>2
<1> QED  BY <1>1, <1>2, <1>3 DEF EnqueuingOwned

\* The owners, when only process p changes hands: it gets or loses thread t as its
\* owner, or enters or leaves a paused list.
LEMMA OwnersMove ==
    ASSUME EnqueuingOwned, NEW t \in Thread, NEW p \in Process,
           \A u \in Thread : u # t => pc'[u] = pc[u] /\ target'[u] = target[u],
           \A u \in Thread : u # t /\ pc[u] = "safe" => target[u] # p,
           pc[t] = "safe" => target[t] = p,
           pc'[t] = "safe" => target'[t] = p /\ state'[p] = "Enqueuing" /\ ~InPaused(p)',
           state'[p] = "Enqueuing" => pc'[t] = "safe" \/ InPaused(p)',
           \A q \in Process : q # p => state'[q] = state[q] /\ (InPaused(q)' <=> InPaused(q))
    PROVE  EnqueuingOwned'
<1>1. ASSUME NEW u \in Thread, pc'[u] = "safe"
      PROVE  target'[u] \in Process /\ state'[target'[u]] = "Enqueuing" /\ ~InPaused(target[u])'
  <2>1. CASE u = t
    BY <1>1, <2>1 DEF InPaused
  <2>2. CASE u # t
    <3>1. PICK q \in Process : q = target[u] /\ q = target'[u] /\ state[q] = "Enqueuing"
                               /\ ~InPaused(q) /\ q # p
      BY <1>1, <2>2 DEF EnqueuingOwned
    <3>2. state'[q] = "Enqueuing" /\ ~InPaused(q)'
      BY <3>1
    <3> QED  BY <3>1, <3>2 DEF InPaused
  <2> QED  BY <2>1, <2>2
<1>2. \A u, v \in Thread :
         pc'[u] = "safe" /\ pc'[v] = "safe" /\ target'[u] = target'[v] => u = v
  BY DEF EnqueuingOwned
<1>3. ASSUME NEW q \in Process, state'[q] = "Enqueuing"
      PROVE  InPaused(q)' \/ \E u \in Thread : pc'[u] = "safe" /\ target'[u] = q
  <2>1. CASE q = p
    BY <1>3, <2>1
  <2>2. CASE q # p
    <3>1. InPaused(q) \/ \E u \in Thread : pc[u] = "safe" /\ target[u] = q
      BY <1>3, <2>2 DEF EnqueuingOwned
    <3>2. ASSUME NEW u \in Thread, pc[u] = "safe", target[u] = q
          PROVE  pc'[u] = "safe" /\ target'[u] = q
      BY <2>2, <3>2
    <3> QED  BY <2>2, <3>1, <3>2
  <2> QED  BY <2>1, <2>2
<1> QED  BY <1>1, <1>2, <1>3 DEF EnqueuingOwned

\* Thread t moves, and only process p, whose program is scheduled, changes its state.
StepOf(t, p) ==
    /\ \A u \in Thread : u # t => pc'[u] = pc[u] /\ target'[u] = target[u] /\ work'[u] = work[u]
    /\ \A q \in Process : q # p => state'[q] = state[q]
    /\ \A g \in Program : pstate[g] # "Initialized" => pstate'[g] # "Initialized"
    /\ pstate'[ProgramOf[p]] # "Initialized"

\* Scheduled, when thread t and process p are all that moves.
LEMMA ScheduledFrame ==
    ASSUME Types, Scheduled, NEW t \in Thread, NEW p \in Process, StepOf(t, p),
           \A q \in work'[t] : pstate'[ProgramOf[q]] # "Initialized",
           pc'[t] \in {"resume_process", "signal", "target", "target_exit"} =>
              target'[t] \in Process /\ pstate'[ProgramOf[target'[t]]] # "Initialized",
           \A g \in Debugged : session'[g] = session[g] \/ pstate'[g] # "Initialized",
           t \in Debugged => pstate'[t] # "Initialized"
    PROVE  Scheduled'
<1>1. ASSUME NEW g \in Program, pstate'[g] = "Initialized"
      PROVE  state'[Main[g]] = "Sleeping"
  <2>1. pstate[g] = "Initialized" /\ Main[g] \in Process /\ ProgramOf[Main[g]] = g
    BY <1>1, ConstantTypes DEF StepOf
  <2>2. state[Main[g]] = "Sleeping" /\ Main[g] # p
    BY <1>1, <2>1 DEF Scheduled, StepOf
  <2> QED  BY <2>1, <2>2 DEF StepOf
<1>2. ASSUME NEW q \in Process, state'[q] \notin {"New", "Sleeping"}
      PROVE  pstate'[ProgramOf[q]] # "Initialized"
  <2>1. CASE q = p
    BY <2>1 DEF StepOf
  <2>2. CASE q # p
    <3>1. state[q] \notin {"New", "Sleeping"} /\ ProgramOf[q] \in Program
      BY <1>2, <2>2, ConstantTypes DEF StepOf
    <3>2. pstate[ProgramOf[q]] # "Initialized"
      BY <3>1 DEF Scheduled
    <3> QED  BY <3>1, <3>2 DEF StepOf
  <2> QED  BY <2>1, <2>2
<1>3. ASSUME NEW u \in Thread
      PROVE  /\ \A q \in work'[u] : pstate'[ProgramOf[q]] # "Initialized"
             /\ pc'[u] \in {"resume_process", "signal", "target", "target_exit"} =>
                   target'[u] \in Process /\ pstate'[ProgramOf[target'[u]]] # "Initialized"
  <2>1. CASE u = t
    BY <2>1
  <2>2. CASE u # t
    <3>1. pc'[u] = pc[u] /\ target'[u] = target[u] /\ work'[u] = work[u]
      BY <2>2 DEF StepOf
    <3>2. /\ \A q \in work[u] : pstate[ProgramOf[q]] # "Initialized"
          /\ pc[u] \in {"resume_process", "signal", "target", "target_exit"} =>
                target[u] \in Process /\ pstate[ProgramOf[target[u]]] # "Initialized"
      BY DEF Scheduled
    <3>3. \A q \in Process :
             pstate[ProgramOf[q]] # "Initialized" => pstate'[ProgramOf[q]] # "Initialized"
      BY ConstantTypes DEF StepOf
    <3>4. work[u] \subseteq Process
      BY DEF Types
    <3> QED  BY <3>1, <3>2, <3>3, <3>4
  <2> QED  BY <2>1, <2>2
<1>4. ASSUME NEW g \in Debugged, session'[g] # "Running" \/ pc'[g] # "idle"
      PROVE  pstate'[g] # "Initialized"
  <2>1. g \in Thread /\ g \in Program
    BY Kinds
  <2>2. CASE g = t \/ session'[g] # session[g]
    BY <2>2
  <2>3. CASE g # t /\ session'[g] = session[g]
    <3>1. pstate[g] # "Initialized"
      BY <1>4, <2>1, <2>3 DEF Scheduled, StepOf
    <3> QED  BY <2>1, <3>1 DEF StepOf
  <2> QED  BY <2>2, <2>3
<1> QED  BY <1>1, <1>2, <1>3, <1>4 DEF Scheduled

\* The interpreter thread stays where it is, or among the links it notifies.
InterpreterStays ==
    /\ UNCHANGED <<current, next>>
    /\ \/ pc'[Interpreter] = pc[Interpreter]
       \/ /\ pc[Interpreter] \in {"next", "signal", "safe"}
          /\ pc'[Interpreter] \in {"next", "signal", "safe"}

\* Process p, which is not one of the interpreter thread's, changes its state.
LEMMA OtherProcessFrame ==
    ASSUME Types, CurrentAt, RunningOwned, InterpreterStays, NEW p \in Process,
           \A q \in Process : q # p => state'[q] = state[q],
           state[p] \notin {"Running", "Yielding", "Terminated", "Dead"},
           state'[p] \notin {"Running", "Yielding"},
           pc[Interpreter] \in Handling \cup {"result"} => p # current,
           \A g \in Debugged : stopped'[g] \in {stopped[g], NULL} /\ stopped'[g] # p
    PROVE  CurrentAt' /\ RunningOwned'
<1>1. pc[Interpreter] \in Handling \cup {"result", "next", "signal", "safe"} =>
         current \in Process /\ p # current /\ state'[current] = state[current]
  BY DEF CurrentAt, Handling
<1>2. ASSUME NEW g \in Debugged, stopped'[g] # NULL
      PROVE  /\ ProgramOf[stopped'[g]] = g
             /\ state'[stopped'[g]] \in Interruptions
             /\ pc'[Interpreter] \in Handling \cup {"result"} => stopped'[g] # current'
  <2>1. stopped'[g] = stopped[g] /\ stopped[g] \in Process /\ stopped[g] # p
    BY <1>2 DEF Types
  <2>2. state'[stopped[g]] = state[stopped[g]]
    BY <2>1
  <2>3. pc'[Interpreter] \in Handling \cup {"result"} => pc[Interpreter] = pc'[Interpreter]
    BY DEF InterpreterStays, Handling
  <2> QED  BY <1>2, <2>1, <2>2, <2>3 DEF CurrentAt, InterpreterStays
<1>3. CurrentAt'
  BY <1>1, <1>2 DEF CurrentAt, InterpreterStays, Handling
<1>4. next # NULL => next \in Process /\ state'[next] = state[next]
  BY DEF Types, RunningOwned
<1>5. pc[Interpreter] \in Interpreting \cup Yielding =>
         current \in Process /\ state'[current] = state[current]
  BY DEF RunningOwned
<1>6. \A q \in Process :
         /\ state'[q] = "Running" => state[q] = "Running"
         /\ state'[q] = "Yielding" => state[q] = "Yielding"
  OBVIOUS
<1>7. RunningOwned'
  BY <1>4, <1>5, <1>6 DEF RunningOwned, InterpreterStays, Interpreting, Yielding
<1> QED  BY <1>3, <1>7

\* A process that no event has stopped is not in the hands of a session.
LEMMA NotStopped ==
    ASSUME Types, CurrentAt, NEW p \in Process,
           state[p] \notin Interruptions \cup {"Running", "Terminated"}
    PROVE  /\ \A g \in Debugged : stopped[g] # p
           /\ pc[Interpreter] \in Handling \cup {"result"} => p # current
<1>1. ASSUME NEW g \in Debugged PROVE stopped[g] # p
  <2>1. stopped[g] # NULL => state[stopped[g]] \in Interruptions
    BY DEF CurrentAt
  <2> QED  BY <2>1, ConstantTypes
<1>2. pc[Interpreter] \in Handling \cup {"result"} => p # current
  BY DEF CurrentAt
<1> QED  BY <1>1, <1>2

-----------------------------------------------------------------------------
(* Steps that change no process *)

\* What a step of thread t to a label may do to the programs, to its own target
\* and work, and to the sessions.
OwnStep(t, label) ==
    /\ Goto(t, label)
    /\ UNCHANGED <<paused, state, ready, current, next>>
    /\ pstate' \in [Program -> ProgramStates]
    /\ \A g \in Program : pstate[g] # "Initialized" => pstate'[g] # "Initialized"
    /\ target' \in [Thread -> Process \cup Program \cup {NULL}]
    /\ work' \in [Thread -> SUBSET Process]
    /\ \A u \in Thread : u # t => target'[u] = target[u] /\ work'[u] = work[u]
    /\ t \in Freezers /\ label \in {"freeze", "moving", "thawing"} => target'[t] \in Program
    /\ label \in {"resume_process", "signal", "target", "target_exit"} =>
          target'[t] \in Process /\ pstate'[ProgramOf[target'[t]]] # "Initialized"
    /\ \A p \in work'[t] : pstate'[ProgramOf[p]] # "Initialized"
    /\ t \in Debugged => pstate'[t] # "Initialized"
    /\ session' \in [Debugged -> {"Running", "Paused", "Terminating", "Terminated"}]
    /\ \A g \in Debugged : g # t => session'[g] = session[g]
    /\ stopped' \in [Debugged -> Process \cup {NULL}]
    /\ \A g \in Debugged : stopped'[g] \in {stopped[g], NULL}

\* Such a step keeps what is not about the lists ...
LEMMA OwnStepScheduled ==
    ASSUME ListInv, NEW t \in Thread, NEW label \in Points(t), OwnStep(t, label)
    PROVE  Types' /\ Labels' /\ FreezersAt' /\ Scheduled'
<1>1. /\ Labels' /\ pc' \in [Thread -> InterpreterPC \cup ThreadPC]
      /\ pc'[t] = label /\ \A u \in Thread : u # t => pc'[u] = pc[u]
  BY GotoMoves DEF ListInv, OwnStep
<1>2. Types'
  BY <1>1 DEF ListInv, Types, OwnStep
<1>3. FreezersAt'
  BY <1>1, Kinds DEF ListInv, FreezersAt, OwnStep
<1>4. /\ \A g \in Program : pstate'[g] = "Initialized" => state'[Main[g]] = "Sleeping"
      /\ \A p \in Process :
            state'[p] \notin {"New", "Sleeping"} => pstate'[ProgramOf[p]] # "Initialized"
  BY ConstantTypes DEF ListInv, Types, Scheduled, OwnStep
<1>5. ASSUME NEW u \in Thread
      PROVE  /\ \A p \in work'[u] : pstate'[ProgramOf[p]] # "Initialized"
             /\ pc'[u] \in {"resume_process", "signal", "target", "target_exit"} =>
                   target'[u] \in Process /\ pstate'[ProgramOf[target'[u]]] # "Initialized"
  <2>1. CASE u = t
    BY <1>1, <2>1 DEF OwnStep
  <2>2. CASE u # t
    BY <1>1, <2>2, ConstantTypes DEF ListInv, Types, Scheduled, OwnStep
  <2> QED  BY <2>1, <2>2
<1>6. \A g \in Debugged :
         session'[g] # "Running" \/ pc'[g] # "idle" => pstate'[g] # "Initialized"
  BY <1>1, Kinds DEF ListInv, Scheduled, OwnStep
<1> QED  BY <1>1, <1>2, <1>3, <1>4, <1>5, <1>6 DEF Scheduled

\* ... and, unless t is the interpreter thread, what is.
LEMMA OtherThreadMoves ==
    ASSUME ListInv, NEW t \in Thread, t # Interpreter, NEW label \in Points(t),
           OwnStep(t, label), label # "safe", pc[t] # "safe"
    PROVE  ListInv'
<1>1. /\ pc'[t] = label /\ pc'[Interpreter] = pc[Interpreter]
      /\ \A u \in Thread : u # t => pc'[u] = pc[u]
  BY GotoMoves, Kinds DEF ListInv, OwnStep
<1>2. Types' /\ Labels' /\ FreezersAt' /\ Scheduled'
  BY OwnStepScheduled
<1>3. CurrentAt'
  BY <1>1 DEF ListInv, CurrentAt, OwnStep
<1>4. ReadyList' /\ PausedLists'
  BY ListsFrame DEF ListInv, OwnStep
<1>5. \A u \in Thread : (pc'[u] = "safe" <=> pc[u] = "safe")
                        /\ (pc[u] = "safe" => target'[u] = target[u])
  BY <1>1 DEF OwnStep
<1>6. EnqueuingOwned'
  BY <1>5, OwnersFrame DEF ListInv, OwnStep
<1>7. RunningOwned'
  BY <1>1 DEF ListInv, RunningOwned, OwnStep
<1> QED  BY <1>2, <1>3, <1>4, <1>6, <1>7 DEF ListInv

\* The points between which the interpreter thread moves without touching a
\* process: it has none, it has one in kRunning, in kYielding, handles an event, or has
\* one cleaned up.
NoProcess == {"loop", "dequeue", "after", "pause_on", "pause_wait", "pause_off", "idle",
              "exited"}

RunsProcess == {"inner", "interpret", "run"}

Phases == {NoProcess, RunsProcess, Yielding, Handling, {"next", "signal"}}

\* A step of the interpreter thread within a phase.
LEMMA InterpreterMoves ==
    ASSUME ListInv, NEW phase \in Phases, pc[Interpreter] \in phase, NEW label \in phase,
           OwnStep(Interpreter, label)
    PROVE  ListInv'
<1>1. label \in Points(Interpreter) /\ label # "safe" /\ pc[Interpreter] # "safe"
  BY DEF Phases, NoProcess, RunsProcess, Points, InterpreterPC, Yielding,
         Handling
<1>2. /\ pc'[Interpreter] = label
      /\ \A u \in Thread : u # Interpreter => pc'[u] = pc[u]
  BY <1>1, GotoMoves, Kinds DEF ListInv, OwnStep
<1>3. Types' /\ Labels' /\ FreezersAt' /\ Scheduled'
  BY <1>1, OwnStepScheduled, Kinds
<1>4. CurrentAt'
  <2>1. /\ pc[Interpreter] \in Handling <=> label \in Handling
        /\ pc[Interpreter] = "result" <=> label = "result"
        /\ pc[Interpreter] \in {"next", "signal", "safe"} <=> label \in {"next", "signal", "safe"}
    BY DEF Phases, NoProcess, RunsProcess, Yielding, Handling
  <2> QED  BY <1>2, <2>1 DEF ListInv, CurrentAt, OwnStep
<1>5. ReadyList' /\ PausedLists'
  BY ListsFrame DEF ListInv, OwnStep
<1>6. \A u \in Thread : (pc'[u] = "safe" <=> pc[u] = "safe")
                        /\ (pc[u] = "safe" => target'[u] = target[u])
  BY <1>1, <1>2 DEF OwnStep
<1>7. EnqueuingOwned'
  BY <1>6, OwnersFrame DEF ListInv, OwnStep
<1>8. RunningOwned'
  <2>1. /\ pc[Interpreter] \in Interpreting <=> label \in Interpreting
        /\ pc[Interpreter] \in Yielding <=> label \in Yielding
        /\ pc[Interpreter] \in Interpreting \cup {"result"} <=>
              label \in Interpreting \cup {"result"}
        /\ pc[Interpreter] \in {"resched", "result", "next", "signal", "safe"} <=>
              label \in {"resched", "result", "next", "signal", "safe"}
    BY DEF Phases, NoProcess, RunsProcess, Yielding, Handling, Interpreting
  <2> QED  BY <1>2, <2>1 DEF ListInv, RunningOwned, OwnStep
<1> QED  BY <1>3, <1>4, <1>5, <1>7, <1>8 DEF ListInv

\* A step that changes nothing the invariant is about.
LEMMA SameKeeps ==
    ASSUME ListInv, UNCHANGED <<pstate, paused, state, ready, pc, target, work,
                                current, next, session, stopped>>
    PROVE  ListInv'
<1>1. Types' /\ Labels' /\ FreezersAt'
  BY DEF ListInv, Types, Labels, Points, FreezersAt
<1>2. CurrentAt' /\ Scheduled'
  BY DEF ListInv, CurrentAt, Scheduled
<1>3. ReadyList' /\ PausedLists'
  BY ListsFrame DEF ListInv
<1>4. EnqueuingOwned'
  BY OwnersFrame DEF ListInv
<1>5. RunningOwned'
  BY DEF ListInv, RunningOwned
<1> QED  BY <1>1, <1>2, <1>3, <1>4, <1>5 DEF ListInv

-----------------------------------------------------------------------------
(* Programs *)

\* The program a thread that stops or resumes one works on.
LEMMA ProgramAtHand ==
    ASSUME ListInv, NEW t \in Thread,
           pc[t] \in {"stop", "moving", "resume", "resuming", "thawing"}
    PROVE  /\ ProgramAt(t) \in Program
           /\ t = Interpreter => pc[t] \in Handling /\ current \in Process
           /\ t # Interpreter => t \in Freezers \/ t \in Debugged
           /\ t \in Debugged => ProgramAt(t) = t
<1>1. pc[t] \in Points(t)
  BY DEF ListInv, Labels
<1>2. CASE t = Interpreter
  BY <1>1, <1>2, Kinds, SchedulerConstants
     DEF ListInv, CurrentAt, Handling, ProgramAt, Points, InterpreterPC
<1>3. CASE t \in Freezers
  BY <1>1, <1>3, Kinds DEF ListInv, FreezersAt, ProgramAt, Points
<1>4. CASE t \in Debugged
  BY <1>4, Kinds DEF ProgramAt
<1>5. CASE t = Runner \/ t \in Senders
  BY <1>1, <1>5, Kinds DEF Points
<1> QED  BY <1>2, <1>3, <1>4, <1>5, Kinds

-----------------------------------------------------------------------------
(* Who holds pause_monitor_, and stopped programs *)

\* Where a thread is inside a section of pause_monitor_ that it does not give up.
Holding == {"moving", "resuming", "stopped", "unlock", "freezing", "unfreezing", "thawing"}

Holds == \A t \in Thread : pc[t] \in Holding => lock = t

\* A session thread stops its program only for a debug interrupt; a freezing thread
\* has a program of the group at hand; nobody stops a program that is being thawed.
Interrupting ==
    \A g \in Debugged :
        pc[g] \in {"stop", "pausing", "moving", "stopped"} => "interrupt" \in SessionOps

FreezingGroup ==
    \A t \in Freezers : pc[t] \in {"freeze", "moving", "thawing"} => target[t] \in Group

Thawing ==
    \A t \in Freezers : pc[t] = "thawing" => pstate[target[t]] \notin {"Session", "Frozen"}

LockInv == Holds /\ Interrupting /\ FreezingGroup /\ Thawing

\* The receiver of a message of the current process, and the process that runs next,
\* are processes of the current one's program; only a program with a session gets to
\* StopProgram in the interpreter thread.
SameProgram ==
    /\ pc[Interpreter] \in {"target", "target_exit"} =>
          /\ ProgramOf[target[Interpreter]] = ProgramOf[current]
          /\ target[Interpreter] # current
          /\ Exists(target[Interpreter])
    /\ next # NULL => ProgramOf[next] = ProgramOf[current]
    /\ pc[Interpreter] \in Handling => ProgramOf[current] \in Debugged

Active == {"Ready", "Running", "Yielding"}

Stops == {"Session", "Frozen"}

\* Thread t is stopping, freezing or resuming its program: the processes may not be
\* where the state of the program says.
Busy(t) == pc[t] \in {"moving", "resuming"} \/ (t \in Debugged /\ pc[t] = "pausing")

IsQuiet(g) == pstate[g] \in Stops /\ \A t \in Thread : Busy(t) => ProgramAt(t) # g

QuietInv(g) == IsQuiet(g) => \A p \in Process : ProgramOf[p] = g => state[p] \notin Active

\* Program g is in no group that is frozen, and its debugger does not interrupt it.
Calm(g) == g \notin Group /\ (g \in Debugged => "interrupt" \notin SessionOps)

\* What the count of a program's processes rests on.
Counting ==
    /\ IsFiniteSet({}) /\ Cardinality({}) = 0
    /\ \A x : IsFiniteSet({x}) /\ Cardinality({x}) = 1
    /\ \A S : IsFiniteSet(S) /\ Cardinality(S) = 1 => \E x : S = {x}
    /\ \A S, x : IsFiniteSet(S) /\ x \notin S =>
          IsFiniteSet(S \cup {x}) /\ Cardinality(S \cup {x}) = Cardinality(S) + 1
    /\ \A S, x : IsFiniteSet(S) /\ x \in S =>
          IsFiniteSet(S \ {x}) /\ Cardinality(S \ {x}) = Cardinality(S) - 1

=============================================================================
