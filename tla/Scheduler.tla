------------------------------ MODULE Scheduler ------------------------------
(***************************************************************************)
(* The scheduler of the VM (src/vm/scheduler.cc): one interpreter thread,  *)
(* the ready queue, the programs with their lists of paused processes, and *)
(* the threads that send messages and signals, stop and resume programs    *)
(* for the debugger, freeze and unfreeze program groups.                   *)
(*                                                                         *)
(* kThreadCount workers take turns on interpreter_semaphore_, so exactly   *)
(* one runs RunInterpreterLoop: it is the thread Interpreter.  A step is   *)
(* one critical section of a monitor or spinlock, or one access to an      *)
(* atomic variable; a section that waits or that another thread can        *)
(* observe half done is split there.  ASSERTs do not guard a step: what    *)
(* they assert is stated as properties.                                    *)
(***************************************************************************)
EXTENDS Integers, Sequences, FiniteSets

CONSTANTS
    Program, Process,
    ProgramOf,    \* [Process -> Program]: Process::program()
    Main,         \* [Program -> Process]: the main process of each program
    Links,        \* [Process -> SUBSET Process]: handles in Process::links()
    Outcomes,     \* [Program -> SUBSET Outcome]: what its Dart code may do
    Group,        \* the programs in the group that is frozen and unfrozen
    Debugged,     \* programs with a session that got its handshake; the
                  \* session thread of program g is the thread g
    SessionOps,   \* the debugger commands in use
    Senders,      \* threads outside the interpreter that send messages: the
                  \* event handler and users of the service API
    Freezers,     \* embedder threads that call (Un)FreezeProgramGroup
    Runner,       \* the thread in SimpleProgramRunner::Run
    Interpreter,  \* the thread in RunInterpreterLoop
    NULL

Outcome == {"yield", "send", "exit_send", "spawn", "Terminated",
            "UncaughtException", "CompileTimeError", "Breakpoint"}

Embedders == Freezers \cup {Runner}
Thread == {Interpreter} \cup Embedders \cup Senders \cup Debugged

ASSUME SchedulerConstants ==
    /\ ProgramOf \in [Process -> Program]
    /\ Main \in [Program -> Process]
    /\ \A g \in Program : ProgramOf[Main[g]] = g
    /\ Links \in [Process -> SUBSET Process]
    /\ \A p \in Process : \A q \in Links[p] : ProgramOf[q] = ProgramOf[p]
    /\ Outcomes \in [Program -> SUBSET Outcome]
    /\ Group \subseteq Program
    /\ Debugged \subseteq Program
    /\ SessionOps \subseteq {"interrupt", "continue", "end"}
    /\ NULL \notin Process \cup Program \cup Thread
    /\ Program \cap Process = {}
    /\ Interpreter \notin Embedders \cup Senders \cup Debugged
    /\ Embedders \cap (Senders \cup Debugged) = {}
    /\ Runner \notin Freezers
    /\ Senders \cap Debugged = {}

VARIABLES
    \* ProgramState: state_, processes_, paused_processes_; the calls of
    \* NotifyExitListener
    pstate, processes, paused, exits,
    \* Process: state_, whether its mailbox holds messages, whether signal_ is
    \* set; ProcessQueue::ready_
    state, mail, signal, ready,
    \* Scheduler: pause_, interpreter_is_paused_, shutdown_; whether the
    \* interpreter thread waits on idle_monitor_
    pause, interpreter_is_paused, shutdown, idle,
    \* pause_monitor_: the thread that holds it, the threads waiting on it;
    \* threads about to call NotifyInterpreterThread
    lock, waiting, owes,
    \* spinlocks: of the port of a process, of its handle
    port_lock, handle_lock,
    \* threads: control point, process or program at hand, processes still to
    \* be signalled, programs visited by a loop over programs_
    pc, target, work, seen,
    \* interpreter: `process` in RunInterpreterLoop, the process that
    \* InterpretProcess is going to return
    current, next,
    \* Session: state_, PausedState::process_ (NULL when interrupted)
    session, stopped

programVars == <<pstate, processes, paused, exits>>
processVars == <<state, mail, signal, ready>>
pauseVars   == <<pause, interpreter_is_paused, shutdown, idle>>
monitorVars == <<lock, waiting, owes>>
spinVars    == <<port_lock, handle_lock>>
threadVars  == <<pc, target, work, seen>>
interpVars  == <<current, next>>
sessionVars == <<session, stopped>>
vars == <<programVars, processVars, pauseVars, monitorVars, spinVars,
          threadVars, interpVars, sessionVars>>

ProgramStates == {"Initialized", "Running", "Session", "Frozen", "Done",
                  "PendingDeletion"}

\* The states an interruption leaves a process in for the debugger.
Interruptions == {"Breakpoint", "CompileTimeError", "UncaughtException"}

\* "New" and "Dead" are a process before it is spawned and after Cleanup.
ProcessStates == {"New", "Sleeping", "Enqueuing", "Ready", "Running",
                  "Yielding", "Terminated", "Dead"} \cup Interruptions

Exists(p) == state[p] \notin {"New", "Dead"}

InterpreterPC ==
    {"loop", "dequeue", "inner", "interpret", "run", "yield", "yield_signal",
     "yield_sleep", "yield_ready", "target", "target_exit", "resched",
     "stop", "moving", "event", "resume", "resuming", "result", "next",
     "signal", "safe", "after", "pause_on", "pause_wait", "pause_off", "idle",
     "exited"}

ThreadPC ==
    {"idle", "resume_process", "next", "signal", "safe", "unlock", "stop",
     "pausing", "moving", "stopped", "resume", "resuming", "freezing",
     "freeze", "unfreezing", "thawing", "down"}

TypeOK ==
    /\ pstate \in [Program -> ProgramStates]
    /\ processes \in [Program -> Nat]
    /\ paused \in [Program -> Seq(Process)]
    /\ exits \in [Program -> Nat]
    /\ state \in [Process -> ProcessStates]
    /\ mail \in [Process -> BOOLEAN]
    /\ signal \in [Process -> BOOLEAN]
    /\ ready \in Seq(Process)
    /\ pause \in BOOLEAN
    /\ interpreter_is_paused \in BOOLEAN
    /\ shutdown \in BOOLEAN
    /\ idle \in BOOLEAN
    /\ lock \in Thread \cup {NULL}
    /\ waiting \subseteq Thread
    /\ owes \subseteq Thread
    /\ port_lock \in [Process -> Thread \cup {NULL}]
    /\ handle_lock \in [Process -> Thread \cup {NULL}]
    /\ pc \in [Thread -> InterpreterPC \cup ThreadPC]
    /\ target \in [Thread -> Process \cup Program \cup {NULL}]
    /\ work \in [Thread -> SUBSET Process]
    /\ seen \in [Thread -> SUBSET Program]
    /\ current \in Process \cup {NULL}
    /\ next \in Process \cup {NULL}
    /\ session \in [Debugged -> {"Running", "Paused", "Terminating", "Terminated"}]
    /\ stopped \in [Debugged -> Process \cup {NULL}]

Init ==
    /\ pstate = [g \in Program |-> "Initialized"]
    /\ processes = [g \in Program |-> 0]
    /\ paused = [g \in Program |-> <<>>]
    /\ exits = [g \in Program |-> 0]
    /\ state = [p \in Process |-> IF p = Main[ProgramOf[p]] THEN "Sleeping" ELSE "New"]
    /\ mail = [p \in Process |-> FALSE]
    /\ signal = [p \in Process |-> FALSE]
    /\ ready = <<>>
    /\ pause = FALSE
    /\ interpreter_is_paused = FALSE
    /\ shutdown = FALSE
    /\ idle = FALSE
    /\ lock = NULL
    /\ waiting = {}
    /\ owes = {}
    /\ port_lock = [p \in Process |-> NULL]
    /\ handle_lock = [p \in Process |-> NULL]
    /\ pc = [t \in Thread |-> IF t = Interpreter THEN "loop" ELSE "idle"]
    /\ target = [t \in Thread |-> NULL]
    /\ work = [t \in Thread |-> {}]
    /\ seen = [t \in Thread |-> {}]
    /\ current = NULL
    /\ next = NULL
    /\ session = [g \in Debugged |-> "Running"]
    /\ stopped = [g \in Debugged |-> NULL]

-----------------------------------------------------------------------------
(* Monitors, the queue, and the steps shared by several threads *)

\* Thread t, at a step inside a section of pause_monitor_, holds it, or can take
\* it: on entry, or when it comes back from Wait.
CanLock(t) == lock = t \/ (lock = NULL /\ t \notin waiting)

Goto(t, label) == pc' = [pc EXCEPT ![t] = label]

Wait(t) ==
    /\ lock' = NULL
    /\ waiting' = waiting \cup {t}

\* The list without its i-th entry (ProcessQueueList::Remove, Erase).
Erase(s, i) == [j \in 1..(Len(s) - 1) |-> IF j < i THEN s[j] ELSE s[j + 1]]

\* PauseAllProcessesOfProgram holds the queue's spinlock from start to end.
QueueLocked == \E t \in Thread : pc[t] = "moving"

\* Mutant: the queue is a stack.
EnqueueFront(p) ==
    /\ ready' = <<p>> \o ready
    /\ state' = [state EXCEPT ![p] = "Ready"]

\* ProcessQueue::Enqueue of a process that its caller set to kEnqueuing.
Enqueue(p) ==
    /\ ready' = Append(ready, p)
    /\ state' = [state EXCEPT ![p] = "Ready"]

\* Thread t is at the label and has no notification to deliver first.
At(t, label) == pc[t] = label /\ t \notin owes

(* NotifyInterpreterThread.  The interpreter thread tests its condition and
   starts to wait in one section of idle_monitor_, so a notification comes
   before the test or finds it waiting. *)
Notify(t) ==
    /\ t \in owes
    /\ owes' = owes \ {t}
    /\ idle' = FALSE
    /\ UNCHANGED <<programVars, processVars, pause, interpreter_is_paused,
                   shutdown, lock, waiting, spinVars, threadVars, interpVars,
                   sessionVars>>

\* Where a thread goes on after EnqueueSafe and after unlocking pause_monitor_.
Return(t) == IF t \in {Interpreter} \cup Debugged THEN "next" ELSE "idle"

ReleaseSpinlocks(t) ==
    /\ port_lock' = [p \in Process |-> IF port_lock[p] = t THEN NULL ELSE port_lock[p]]
    /\ handle_lock' = [p \in Process |-> IF handle_lock[p] = t THEN NULL ELSE handle_lock[p]]

(* Mutant: the state of the program is not looked at. *)
EnqueueSafeAlways(t) ==
    /\ At(t, "safe")
    /\ lock = NULL
    /\ Enqueue(target[t])
    /\ lock' = t
    /\ owes' = owes \cup {t}
    /\ Goto(t, "unlock")
    /\ UNCHANGED <<programVars, mail, signal, pauseVars, waiting, spinVars, target,
                   work, seen, interpVars, sessionVars>>

(* Mutant: the interpreter thread is not notified. *)
EnqueueSafeSilent(t) ==
    /\ At(t, "safe")
    /\ lock = NULL
    /\ pstate[ProgramOf[target[t]]] = "Running"
    /\ Enqueue(target[t])
    /\ ReleaseSpinlocks(t)
    /\ Goto(t, Return(t))
    /\ UNCHANGED <<programVars, mail, signal, pauseVars, monitorVars, target, work,
                   seen, interpVars, sessionVars>>

(* EnqueueSafe, called in state kEnqueuing: the process goes to the paused list
   of a stopped program, to the ready queue of a running one.  EnqueueProcess
   notifies while pause_monitor_ is held when the queue was empty; the
   interpreter thread need not notify itself. *)
EnqueueSafe(t) ==
    /\ At(t, "safe")
    /\ lock = NULL
    /\ LET p == target[t]
           g == ProgramOf[p]
       IN \/ /\ pstate[g] # "Running"
             /\ paused' = [paused EXCEPT ![g] = Append(@, p)]
             /\ ReleaseSpinlocks(t)
             /\ Goto(t, Return(t))
             /\ UNCHANGED <<ready, state, lock, owes>>
          \/ /\ pstate[g] = "Running"
             /\ Enqueue(p)
             /\ IF ready = <<>> /\ t # Interpreter
                THEN /\ lock' = t
                     /\ owes' = owes \cup {t}
                     /\ Goto(t, "unlock")
                     /\ UNCHANGED spinVars
                ELSE /\ ReleaseSpinlocks(t)
                     /\ Goto(t, Return(t))
                     /\ UNCHANGED <<lock, owes>>
             /\ UNCHANGED paused
    /\ UNCHANGED <<pstate, processes, exits, mail, signal, pauseVars, waiting,
                   target, work, seen, interpVars, sessionVars>>

(* The end of a section of pause_monitor_ that notified the interpreter. *)
Unlock(t) ==
    /\ At(t, "unlock")
    /\ lock' = NULL
    /\ ReleaseSpinlocks(t)
    /\ Goto(t, Return(t))
    /\ UNCHANGED <<programVars, processVars, pauseVars, waiting, owes, target,
                   work, seen, interpVars, sessionVars>>

(* Process::SendSignal, under the lock of the handle: the first signal wins. *)
SendSignal(t, p) ==
    /\ At(t, "next")
    /\ p \in work[t]
    /\ work' = [work EXCEPT ![t] = @ \ {p}]
    /\ IF Exists(p)
       THEN /\ handle_lock[p] = NULL
            /\ handle_lock' = [handle_lock EXCEPT ![p] = t]
            /\ signal' = [signal EXCEPT ![p] = TRUE]
            /\ target' = [target EXCEPT ![t] = p]
            /\ Goto(t, "signal")
       ELSE UNCHANGED <<handle_lock, signal, target, pc>>
    /\ UNCHANGED <<programVars, state, mail, ready, pauseVars, monitorVars,
                   port_lock, seen, interpVars, sessionVars>>

(* Mutant: a sleeping process is left to find the signal by itself. *)
SignalProcessLazy(t) ==
    /\ At(t, "signal")
    /\ state[target[t]] # "Yielding"
    /\ handle_lock' = [handle_lock EXCEPT ![target[t]] = NULL]
    /\ Goto(t, "next")
    /\ UNCHANGED <<programVars, processVars, pauseVars, monitorVars, port_lock,
                   target, work, seen, interpVars, sessionVars>>

\* Mutant: a process that another thread is about to enqueue is enqueued as well.
SignalProcessTwice(t) ==
    /\ At(t, "signal")
    /\ LET p == target[t]
       IN /\ state[p] # "Yielding"
          /\ IF state[p] \in {"Sleeping", "Enqueuing"}
             THEN /\ state' = [state EXCEPT ![p] = "Enqueuing"]
                  /\ Goto(t, "safe")
                  /\ UNCHANGED handle_lock
             ELSE /\ handle_lock' = [handle_lock EXCEPT ![p] = NULL]
                  /\ Goto(t, "next")
                  /\ UNCHANGED state
    /\ UNCHANGED <<programVars, mail, signal, ready, pauseVars, monitorVars,
                   port_lock, target, work, seen, interpVars, sessionVars>>

(* SignalProcess.  kYielding is busy-waited for; a process in kRunning is
   preempted, so that its Run is Interrupted; in the other states the signal is
   found when the process is interpreted next. *)
SignalProcess(t) ==
    /\ At(t, "signal")
    /\ LET p == target[t]
       IN /\ state[p] # "Yielding"
          /\ IF state[p] = "Sleeping"
             THEN /\ state' = [state EXCEPT ![p] = "Enqueuing"]
                  /\ Goto(t, "safe")
                  /\ UNCHANGED handle_lock
             ELSE /\ handle_lock' = [handle_lock EXCEPT ![p] = NULL]
                  /\ Goto(t, "next")
                  /\ UNCHANGED state
    /\ UNCHANGED <<programVars, mail, signal, ready, pauseVars, monitorVars,
                   port_lock, target, work, seen, interpVars, sessionVars>>

\* The program a thread is stopping, freezing or resuming.
ProgramAt(t) ==
    IF t = Interpreter THEN ProgramOf[current]
    ELSE IF t \in Debugged THEN t ELSE target[t]

(* StopProgramInternal: wait for kRunning, take the program out of it.  A
   session thread then asks the interpreter to pause; the interpreter thread
   itself is between two processes and goes on to move the ready ones. *)
StopProgram(t) ==
    /\ At(t, "stop")
    /\ CanLock(t)
    /\ \/ /\ pstate[ProgramAt(t)] # "Running"
          /\ Wait(t)
          /\ UNCHANGED <<pstate, pause, owes, pc>>
       \/ /\ pstate[ProgramAt(t)] = "Running"
          /\ pstate' = [pstate EXCEPT ![ProgramAt(t)] = "Session"]
          /\ lock' = t
          /\ IF t = Interpreter
             THEN /\ Goto(t, "moving")
                  /\ UNCHANGED <<pause, owes>>
             ELSE /\ pause' = TRUE
                  /\ owes' = owes \cup {t}
                  /\ Goto(t, "pausing")
          /\ UNCHANGED waiting
    /\ UNCHANGED <<processes, paused, exits, processVars, interpreter_is_paused,
                   shutdown, idle, spinVars, target, work, seen, interpVars,
                   sessionVars>>

(* Mutant: the caller does not wait for the interpreter loop. *)
PauseInterpreterLoopNoWait(t) ==
    /\ At(t, "pausing")
    /\ CanLock(t)
    /\ lock' = t
    /\ Goto(t, IF t \in Debugged THEN "moving" ELSE "freezing")
    /\ UNCHANGED <<programVars, processVars, pauseVars, waiting, owes, spinVars,
                   target, work, seen, interpVars, sessionVars>>

(* PauseInterpreterLoop after its NotifyInterpreterThread.  PreemptProcess ends
   the current Run: see InterpretationBarrier. *)
PauseInterpreterLoop(t) ==
    /\ At(t, "pausing")
    /\ CanLock(t)
    /\ IF interpreter_is_paused
       THEN /\ lock' = t
            /\ Goto(t, IF t \in Debugged THEN "moving" ELSE "freezing")
            /\ UNCHANGED waiting
       ELSE /\ Wait(t)
            /\ UNCHANGED pc
    /\ UNCHANGED <<programVars, processVars, pauseVars, owes, spinVars, target,
                   work, seen, interpVars, sessionVars>>

(* Mutant: the processes of every program are moved. *)
PauseProcessOfAny(t) ==
    /\ At(t, "moving")
    /\ ready # <<>>
    /\ ready' = Tail(ready)
    /\ state' = [state EXCEPT ![Head(ready)] = "Enqueuing"]
    /\ paused' = [paused EXCEPT ![ProgramAt(t)] = Append(@, Head(ready))]
    /\ UNCHANGED <<pstate, processes, exits, mail, signal, pauseVars,
                   monitorVars, spinVars, threadVars, interpVars, sessionVars>>

(* PauseAllProcessesOfProgram, one process moved. *)
PauseProcess(t) ==
    /\ At(t, "moving")
    /\ \E i \in 1..Len(ready) :
          /\ ProgramOf[ready[i]] = ProgramAt(t)
          /\ \A j \in 1..(i - 1) : ProgramOf[ready[j]] # ProgramAt(t)
          /\ ready' = Erase(ready, i)
          /\ state' = [state EXCEPT ![ready[i]] = "Enqueuing"]
          /\ paused' = [paused EXCEPT ![ProgramAt(t)] = Append(@, ready[i])]
    /\ UNCHANGED <<pstate, processes, exits, mail, signal, pauseVars,
                   monitorVars, spinVars, threadVars, interpVars, sessionVars>>


(* PauseAllProcessesOfProgram returns: the interpreter thread goes on to tell
   the session; a session thread lets the interpreter loop go on; a freezing
   thread goes on to the next program. *)
PausedAll(t) ==
    /\ At(t, "moving")
    /\ \A i \in 1..Len(ready) : ProgramOf[ready[i]] # ProgramAt(t)
    /\ \/ /\ t = Interpreter
          /\ lock' = NULL
          /\ Goto(t, "event")
          /\ UNCHANGED <<pause, owes, seen>>
       \/ /\ t \in Debugged
          /\ pause' = FALSE
          /\ owes' = owes \cup {t}
          /\ Goto(t, "stopped")
          /\ UNCHANGED <<lock, seen>>
       \/ /\ t \in Freezers
          /\ seen' = [seen EXCEPT ![t] = @ \cup {target[t]}]
          /\ Goto(t, "freezing")
          /\ UNCHANGED <<lock, pause, owes>>
    /\ UNCHANGED <<programVars, processVars, interpreter_is_paused, shutdown,
                   idle, waiting, spinVars, target, work, interpVars,
                   sessionVars>>

(* ResumeProgram: the processes go back to the ready queue one by one, while
   the interpreter may already take them from there. *)
ResumeProgram(t) ==
    /\ At(t, "resume")
    /\ CanLock(t)
    /\ lock' = t
    /\ Goto(t, "resuming")
    /\ UNCHANGED <<programVars, processVars, pauseVars, waiting, owes, spinVars,
                   target, work, seen, interpVars, sessionVars>>

\* The loop of ResumeProgram and of UnFreezeProgram, one process enqueued.
EnqueuePaused(t) ==
    /\ pc[t] \in {"resuming", "thawing"}
    /\ t \notin owes
    /\ paused[ProgramAt(t)] # <<>>
    /\ Enqueue(Head(paused[ProgramAt(t)]))
    /\ paused' = [paused EXCEPT ![ProgramAt(t)] = Tail(@)]
    /\ owes' = IF ready = <<>> /\ t # Interpreter THEN owes \cup {t} ELSE owes
    /\ UNCHANGED <<pstate, processes, exits, mail, signal, pauseVars, lock,
                   waiting, spinVars, threadVars, interpVars, sessionVars>>

ResumedProgram(t) ==
    /\ At(t, "resuming")
    /\ paused[ProgramAt(t)] = <<>>
    /\ pstate' = [pstate EXCEPT ![ProgramAt(t)] = "Running"]
    /\ waiting' = {}
    /\ lock' = NULL
    /\ owes' = IF t # Interpreter THEN owes \cup {t} ELSE owes
    /\ Goto(t, IF t = Interpreter THEN "result" ELSE "idle")
    /\ UNCHANGED <<processes, paused, exits, processVars, pauseVars, spinVars,
                   target, work, seen, interpVars, sessionVars>>

-----------------------------------------------------------------------------
(* The interpreter thread: RunInterpreterLoop *)

IGoto(from, to) == pc[Interpreter] = from /\ Goto(Interpreter, to)

\* The steps of the interpreter thread that only it takes change none of these.
OtherVars == <<monitorVars, handle_lock, seen, sessionVars>>

\* A step that only tests something.
ControlOnly ==
    UNCHANGED <<programVars, processVars, pauseVars, port_lock, target, work,
                interpVars, OtherVars>>

\* A step that changes the state of a process and perhaps the ready queue.
ProcessOnly ==
    UNCHANGED <<programVars, mail, signal, pauseVars, port_lock, target, work,
                interpVars, OtherVars>>

LoopTest ==
    /\ IGoto("loop", IF pause \/ shutdown THEN "after" ELSE "dequeue")
    /\ ControlOnly

(* DequeueProcess *)
TryDequeue ==
    /\ ~QueueLocked
    /\ \/ /\ ready = <<>>
          /\ IGoto("dequeue", "after")
          /\ UNCHANGED <<ready, state, current>>
       \/ /\ ready # <<>>
          /\ IGoto("dequeue", "inner")
          /\ current' = Head(ready)
          /\ ready' = Tail(ready)
          /\ state' = [state EXCEPT ![Head(ready)] = "Running"]
    /\ UNCHANGED <<programVars, mail, signal, pauseVars, port_lock, target, work,
                   next, OtherVars>>

(* The inner loop goes on to InterpretProcess ... *)
InnerTest ==
    /\ ~pause /\ ~shutdown
    /\ IGoto("inner", "interpret")
    /\ ControlOnly

(* ... or puts the process back because of a pause or a shutdown. *)
PutBack ==
    /\ pause \/ shutdown
    /\ ~QueueLocked
    /\ IGoto("inner", "loop")
    /\ Enqueue(current)
    /\ ProcessOnly

AfterLoop ==
    /\ IGoto("after", IF shutdown THEN "exited"
                      ELSE IF pause THEN "pause_on" ELSE "idle")
    /\ ControlOnly

(* Mutant: the threads waiting on pause_monitor_ are not notified. *)
PauseOnSilent ==
    /\ lock = NULL
    /\ IGoto("pause_on", "pause_wait")
    /\ interpreter_is_paused' = TRUE
    /\ UNCHANGED <<programVars, processVars, pause, shutdown, idle, lock, waiting,
                   owes, spinVars, target, work, seen, interpVars, sessionVars>>

PauseOn ==
    /\ lock = NULL
    /\ IGoto("pause_on", "pause_wait")
    /\ interpreter_is_paused' = TRUE
    /\ waiting' = {}
    /\ UNCHANGED <<programVars, processVars, pause, shutdown, idle, lock, owes,
                   spinVars, target, work, seen, interpVars, sessionVars>>

PauseWait ==
    /\ ~idle
    /\ IGoto("pause_wait", IF pause THEN "pause_wait" ELSE "pause_off")
    /\ idle' = pause
    /\ UNCHANGED <<programVars, processVars, pause, interpreter_is_paused,
                   shutdown, port_lock, target, work, interpVars, OtherVars>>

PauseOff ==
    /\ lock = NULL
    /\ IGoto("pause_off", "loop")
    /\ interpreter_is_paused' = FALSE
    /\ waiting' = {}
    /\ UNCHANGED <<programVars, processVars, pause, shutdown, idle, lock, owes,
                   spinVars, target, work, seen, interpVars, sessionVars>>

(* Mutant: the idle loop does not look at pause_. *)
IdleWaitOnly ==
    /\ ~idle
    /\ ~QueueLocked
    /\ ready = <<>> /\ ~shutdown
    /\ IGoto("idle", "idle")
    /\ idle' = TRUE
    /\ UNCHANGED <<programVars, processVars, pause, interpreter_is_paused,
                   shutdown, port_lock, target, work, interpVars, OtherVars>>

IdleWait ==
    /\ ~idle
    /\ ~QueueLocked
    /\ ready = <<>> /\ ~pause /\ ~shutdown
    /\ IGoto("idle", "idle")
    /\ idle' = TRUE
    /\ UNCHANGED <<programVars, processVars, pause, interpreter_is_paused,
                   shutdown, port_lock, target, work, interpVars, OtherVars>>

IdleEnd ==
    /\ ~idle
    /\ ~QueueLocked
    /\ ready # <<>> \/ pause \/ shutdown
    /\ IGoto("idle", IF shutdown THEN "exited" ELSE "loop")
    /\ ControlOnly

-----------------------------------------------------------------------------
(* The interpreter thread: InterpretProcess *)

May(outcome) == outcome \in Outcomes[ProgramOf[current]]

\* The head of the six Handle... functions: the session of the program is told
\* if it can handle events, otherwise the process exits.
HandleEvent == IF ProgramOf[current] \in Debugged THEN "stop" ELSE "result"

(* A signal: HandleKilled, HandleUnhandledSignal. *)
InterpretSignal ==
    /\ IGoto("interpret", HandleEvent)
    /\ signal[current]
    /\ state' = [state EXCEPT ![current] = "Terminated"]
    /\ UNCHANGED ready
    /\ ProcessOnly

EnterDart ==
    /\ IGoto("interpret", "run")
    /\ ~signal[current]
    /\ ControlOnly

(* HandleTerminated, HandleUncaughtException, HandleCompileTimeError,
   HandleBreakpoint. *)
RunEvent(event) ==
    /\ IGoto("run", HandleEvent)
    /\ May(event)
    /\ event # "Breakpoint" \/ ProgramOf[current] \in Debugged
    /\ state' = [state EXCEPT ![current] = event]
    /\ UNCHANGED ready
    /\ ProcessOnly

(* The process takes its messages out of the mailbox. *)
RunReceive ==
    /\ IGoto("run", "run")
    /\ mail[current]
    /\ mail' = [mail EXCEPT ![current] = FALSE]
    /\ UNCHANGED <<programVars, state, signal, ready, pauseVars, port_lock, target,
                   work, interpVars, OtherVars>>


(* Program::SpawnProcess, EnqueueProcessOnSchedulerWorkerThread. *)
RunSpawn(p) ==
    /\ IGoto("run", "run")
    /\ May("spawn")
    /\ state[p] = "New"
    /\ ProgramOf[p] = ProgramOf[current]
    /\ ~QueueLocked
    /\ processes' = [processes EXCEPT ![ProgramOf[p]] = @ + 1]
    /\ Enqueue(p)
    /\ UNCHANGED <<pstate, paused, exits, mail, signal, pauseVars, port_lock,
                   target, work, interpVars, OtherVars>>

(* Interrupted by a preemption: a tick, a signal or a pause. *)
RunInterrupted ==
    /\ ~QueueLocked
    /\ IGoto("run", "loop")
    /\ Enqueue(current)
    /\ ProcessOnly

RunYield ==
    /\ IGoto("run", "yield")
    /\ May("yield")
    /\ state' = [state EXCEPT ![current] = "Yielding"]
    /\ UNCHANGED ready
    /\ ProcessOnly

(* Mutant: the mailbox is not looked at in kYielding. *)
YieldMailboxBlind ==
    /\ IGoto("yield", "yield_signal")
    /\ ControlOnly

YieldMailbox ==
    /\ IGoto("yield", IF mail[current] THEN "yield_ready" ELSE "yield_signal")
    /\ ControlOnly

YieldSignal ==
    /\ IGoto("yield_signal", IF signal[current] THEN "yield_ready" ELSE "yield_sleep")
    /\ ControlOnly

YieldSleep ==
    /\ IGoto("yield_sleep", "loop")
    /\ state' = [state EXCEPT ![current] = "Sleeping"]
    /\ UNCHANGED ready
    /\ ProcessOnly

YieldReady ==
    /\ ~QueueLocked
    /\ IGoto("yield_ready", "loop")
    /\ Enqueue(current)
    /\ ProcessOnly

(* PortSend to itself goes on interpreting. *)
RunSendSelf ==
    /\ IGoto("run", "run")
    /\ May("send")
    /\ port_lock[current] = NULL
    /\ mail' = [mail EXCEPT ![current] = TRUE]
    /\ UNCHANGED <<programVars, state, signal, ready, pauseVars, port_lock, target,
                   work, interpVars, OtherVars>>

(* PortSend and PortSendExit to another process: the message is enqueued and
   the port stays locked until the scheduler has looked at its owner. *)
RunSend(p, outcome) ==
    /\ IGoto("run", IF outcome = "send" THEN "target" ELSE "target_exit")
    /\ May(outcome)
    /\ p # current
    /\ Exists(p)
    /\ ProgramOf[p] = ProgramOf[current]
    /\ port_lock[p] = NULL
    /\ mail' = [mail EXCEPT ![p] = TRUE]
    /\ port_lock' = [port_lock EXCEPT ![p] = Interpreter]
    /\ target' = [target EXCEPT ![Interpreter] = p]
    /\ UNCHANGED <<programVars, state, signal, ready, pauseVars, work, interpVars,
                   OtherVars>>

(* Mutant: TryDequeueEntry leaves the entry in the queue. *)
TargetYieldKeeps ==
    /\ ~QueueLocked
    /\ \/ IGoto("target", "resched")
       \/ IGoto("target_exit", "result")
    /\ LET p == target[Interpreter]
           runs == state[p] \in {"Sleeping", "Ready"}
       IN /\ port_lock' = [port_lock EXCEPT ![p] = NULL]
          /\ state' = [state EXCEPT ![p] = IF runs THEN "Running" ELSE @]
          /\ next' = IF runs THEN p ELSE next
    /\ UNCHANGED <<programVars, mail, signal, ready, pauseVars, target, work,
                   current, OtherVars>>

(* IsTargetYielded: the owner of the port runs next if it was asleep or ready. *)
TargetYield ==
    /\ ~QueueLocked
    /\ \/ IGoto("target", "resched")
       \/ IGoto("target_exit", "result")
    /\ LET p == target[Interpreter]
       IN /\ port_lock' = [port_lock EXCEPT ![p] = NULL]
          /\ \/ /\ state[p] = "Sleeping"
                /\ state' = [state EXCEPT ![p] = "Running"]
                /\ next' = p
                /\ UNCHANGED ready
             \/ \E i \in 1..Len(ready) :
                   /\ ready[i] = p
                   /\ state' = [state EXCEPT ![p] = "Running"]
                   /\ next' = p
                   /\ ready' = Erase(ready, i)
             \/ /\ state[p] \notin {"Sleeping", "Ready"}
                /\ UNCHANGED <<state, ready, next>>
    /\ UNCHANGED <<programVars, mail, signal, pauseVars, target, work, current,
                   OtherVars>>

\* Mutant: the target of a yield is forgotten.
ReturnNothing(from) ==
    /\ IGoto(from, "loop")
    /\ next' = NULL
    /\ UNCHANGED current

\* InterpretProcess returns `next`: back to the inner loop, or out of it.
ReturnNext(from) ==
    /\ IGoto(from, IF next = NULL THEN "loop" ELSE "inner")
    /\ current' = IF next = NULL THEN current ELSE next
    /\ next' = NULL

(* RescheduleProcess without termination *)
Reschedule ==
    /\ ~QueueLocked
    /\ ReturnNext("resched")
    /\ Enqueue(current)
    /\ UNCHANGED <<programVars, mail, signal, pauseVars, port_lock, target, work,
                   OtherVars>>

(* Mutant: the program is not resumed when the process exits. *)
SessionEventNoResume ==
    LET g == ProgramOf[current]
        remains == session[g] = "Running" /\ state[current] \in Interruptions
    IN /\ IGoto("event", IF remains THEN "loop" ELSE "result")
       /\ At(g, "idle")
       /\ session' = [session EXCEPT ![g] = IF remains THEN "Paused" ELSE @]
       /\ stopped' = [stopped EXCEPT ![g] = IF remains THEN current ELSE @]
       /\ UNCHANGED <<programVars, processVars, pauseVars, monitorVars, spinVars,
                      target, work, seen, interpVars>>

(* The session handles the event under its main_thread_monitor_, which its own
   thread holds while it processes a message: a session that is running
   remains paused at an interruption, everything else exits. *)
SessionEvent ==
    LET g == ProgramOf[current]
        remains == session[g] = "Running" /\ state[current] \in Interruptions
    IN /\ IGoto("event", IF remains THEN "loop" ELSE "resume")
       /\ At(g, "idle")
       /\ session' = [session EXCEPT ![g] = IF remains THEN "Paused" ELSE @]
       /\ stopped' = [stopped EXCEPT ![g] = IF remains THEN current ELSE @]
       /\ UNCHANGED <<programVars, processVars, pauseVars, monitorVars, spinVars,
                      target, work, seen, interpVars>>

\* Every result but kRemainPaused (and a termination in RescheduleProcess) leads
\* to DeleteTerminatedProcess.
HandleEventResult == IGoto("result", "next")

(* The process is cleaned up: its port and its handle forget it, its links are
   to be notified. *)
Cleanup ==
    /\ HandleEventResult
    /\ port_lock[current] = NULL
    /\ handle_lock[current] = NULL
    /\ state' = [state EXCEPT ![current] = "Dead"]
    /\ mail' = [mail EXCEPT ![current] = FALSE]
    /\ signal' = [signal EXCEPT ![current] = FALSE]
    /\ work' = [work EXCEPT ![Interpreter] = Links[current]]
    /\ UNCHANGED <<programVars, ready, pauseVars, port_lock, target, interpVars,
                   OtherVars>>

(* Mutant: the last process but one ends the program. *)
DeleteTerminatedProcessEarly ==
    LET g == ProgramOf[current]
        last == processes[g] - 1 <= 1
    IN /\ work[Interpreter] = {}
       /\ ReturnNext("next")
       /\ processes' = [processes EXCEPT ![g] = @ - 1]
       /\ pstate' = [pstate EXCEPT ![g] = IF last THEN "Done" ELSE @]
       /\ exits' = [exits EXCEPT ![g] = IF last THEN @ + 1 ELSE @]
       /\ UNCHANGED <<paused, processVars, pauseVars, port_lock, target, work,
                      OtherVars>>

(* DeleteTerminatedProcess, once the links are notified.  The count of
   references to the program is one as long as it has processes. *)
DeleteTerminatedProcess ==
    LET g == ProgramOf[current]
        last == processes[g] - 1 = 0
    IN /\ work[Interpreter] = {}
       /\ ReturnNext("next")
       /\ processes' = [processes EXCEPT ![g] = @ - 1]
       /\ pstate' = [pstate EXCEPT ![g] = IF last THEN "Done" ELSE @]
       /\ exits' = [exits EXCEPT ![g] = IF last THEN @ + 1 ELSE @]
       /\ UNCHANGED <<paused, processVars, pauseVars, port_lock, target, work,
                      OtherVars>>

-----------------------------------------------------------------------------
(* Threads that send messages *)

SendMessage(t, p) ==
    /\ At(t, "idle")
    /\ Exists(p)
    /\ pstate[ProgramOf[p]] # "Initialized"
    /\ port_lock[p] = NULL
    /\ port_lock' = [port_lock EXCEPT ![p] = t]
    /\ mail' = [mail EXCEPT ![p] = TRUE]
    /\ target' = [target EXCEPT ![t] = p]
    /\ Goto(t, "resume_process")
    /\ UNCHANGED <<programVars, state, signal, ready, pauseVars, monitorVars,
                   handle_lock, work, seen, interpVars, sessionVars>>

(* Mutant: a process in kYielding counts as running. *)
ResumeProcessNoSpin(t) ==
    /\ At(t, "resume_process")
    /\ state[target[t]] # "Sleeping"
    /\ Goto(t, "idle")
    /\ port_lock' = [port_lock EXCEPT ![target[t]] = NULL]
    /\ UNCHANGED <<programVars, processVars, pauseVars, monitorVars, handle_lock,
                   target, work, seen, interpVars, sessionVars>>


(* ResumeProcess holds the port's lock until the process is enqueued;
   EnqueueProcess(process, port) gives it up once the state has changed.
   ChangeState busy-waits for a process to leave kYielding. *)
ResumeProcess(t) ==
    /\ At(t, "resume_process")
    /\ LET p == target[t]
       IN /\ state[p] # "Yielding"
          /\ IF state[p] = "Sleeping"
             THEN /\ state' = [state EXCEPT ![p] = "Enqueuing"]
                  /\ Goto(t, "safe")
                  /\ port_lock' \in {port_lock, [port_lock EXCEPT ![p] = NULL]}
             ELSE /\ Goto(t, "idle")
                  /\ port_lock' = [port_lock EXCEPT ![p] = NULL]
                  /\ UNCHANGED state
    /\ UNCHANGED <<programVars, mail, signal, ready, pauseVars, monitorVars,
                   handle_lock, target, work, seen, interpVars, sessionVars>>

-----------------------------------------------------------------------------
(* Session threads, in ProcessMessages *)

SessionUnchanged ==
    UNCHANGED <<programVars, processVars, pauseVars, monitorVars, spinVars,
                target, seen, interpVars>>

(* kProcessDebugInterrupt: PauseExecution *)
DebugInterrupt(g) ==
    /\ "interrupt" \in SessionOps
    /\ At(g, "idle")
    /\ session[g] = "Running"
    /\ pstate[g] # "Initialized"
    /\ Goto(g, "stop")
    /\ UNCHANGED <<work, sessionVars>>
    /\ SessionUnchanged

(* StopProgram returns *)
Interrupted(g) ==
    /\ At(g, "stopped")
    /\ lock' = NULL
    /\ Goto(g, "idle")
    /\ session' = [session EXCEPT ![g] = "Paused"]
    /\ stopped' = [stopped EXCEPT ![g] = NULL]
    /\ UNCHANGED <<programVars, processVars, pauseVars, waiting, owes, spinVars,
                   target, work, seen, interpVars>>

ProcessContinue(g) ==
    /\ "continue" \in SessionOps
    /\ At(g, "idle")
    /\ session[g] = "Paused"
    /\ session' = [session EXCEPT ![g] = "Running"]
    /\ Goto(g, "next")
    /\ UNCHANGED <<work, stopped>>
    /\ SessionUnchanged

\* Sends a signal to the main process.
KillProgram(g) == work' = [work EXCEPT ![g] = {Main[g]}]

(* kSessionEnd: KillProgram first *)
SessionEnd(g) ==
    /\ "end" \in SessionOps
    /\ At(g, "idle")
    /\ session[g] = "Paused"
    /\ session' = [session EXCEPT ![g] = "Terminating"]
    /\ KillProgram(g)
    /\ Goto(g, "next")
    /\ UNCHANGED stopped
    /\ SessionUnchanged


(* ContinueProcess, unless the program was interrupted *)
ContinueProcess(g) ==
    /\ At(g, "next")
    /\ work[g] = {}
    /\ stopped[g] # NULL
    /\ state' = [state EXCEPT ![stopped[g]] = IF @ \in Interruptions THEN "Enqueuing" ELSE @]
    /\ target' = [target EXCEPT ![g] = stopped[g]]
    /\ stopped' = [stopped EXCEPT ![g] = NULL]
    /\ Goto(g, "safe")
    /\ UNCHANGED <<programVars, mail, signal, ready, pauseVars, monitorVars,
                   spinVars, work, seen, interpVars, session>>

(* RunningState and TerminatingState are activated: ResumeExecution *)
ResumeExecution(g) ==
    /\ At(g, "next")
    /\ work[g] = {}
    /\ stopped[g] = NULL
    /\ Goto(g, "resume")
    /\ UNCHANGED <<work, sessionVars>>
    /\ SessionUnchanged

(* ProcessRun, after its runner returned *)
SessionTerminated(g) ==
    /\ At(g, "idle")
    /\ pstate[g] = "PendingDeletion"
    /\ session[g] # "Terminated"
    /\ session' = [session EXCEPT ![g] = "Terminated"]
    /\ UNCHANGED <<pc, work, stopped>>
    /\ SessionUnchanged

-----------------------------------------------------------------------------
(* The runner of the programs *)

(* ScheduleProgram *)
ScheduleProgram(g) ==
    /\ At(Runner, "idle")
    /\ lock = NULL
    /\ pstate[g] = "Initialized"
    /\ pstate' = [pstate EXCEPT ![g] = "Running"]
    /\ processes' = [processes EXCEPT ![g] = @ + 1]
    /\ Enqueue(Main[g])
    /\ IF ready = <<>>
       THEN /\ lock' = Runner
            /\ owes' = owes \cup {Runner}
            /\ Goto(Runner, "unlock")
       ELSE UNCHANGED <<lock, owes, pc>>
    /\ UNCHANGED <<paused, exits, mail, signal, pauseVars, waiting, spinVars,
                   target, work, seen, interpVars, sessionVars>>

(* UnscheduleProgram, after the exit listener was called *)
UnscheduleProgram(g) ==
    /\ At(Runner, "idle")
    /\ lock = NULL
    /\ exits[g] > 0
    /\ pstate[g] # "PendingDeletion"
    /\ pstate' = [pstate EXCEPT ![g] = "PendingDeletion"]
    /\ UNCHANGED <<processes, paused, exits, processVars, pauseVars, monitorVars,
                   spinVars, threadVars, interpVars, sessionVars>>

(* Mutant: the interpreter thread is not notified of the shutdown. *)
TearDownSilent ==
    /\ At(Runner, "idle")
    /\ \A t \in Freezers : pc[t] = "idle"
    /\ \A g \in Program : pstate[g] = "PendingDeletion"
    /\ shutdown' = TRUE
    /\ Goto(Runner, "down")
    /\ UNCHANGED <<programVars, processVars, pause, interpreter_is_paused, idle,
                   monitorVars, spinVars, target, work, seen, interpVars,
                   sessionVars>>

(* Scheduler::TearDown, when no program is left and the embedder's other calls
   have returned *)
TearDown ==
    /\ At(Runner, "idle")
    /\ \A t \in Freezers : pc[t] = "idle"
    /\ \A g \in Program : pstate[g] = "PendingDeletion"
    /\ shutdown' = TRUE
    /\ owes' = owes \cup {Runner}
    /\ Goto(Runner, "down")
    /\ UNCHANGED <<programVars, processVars, pause, interpreter_is_paused, idle,
                   lock, waiting, spinVars, target, work, seen, interpVars,
                   sessionVars>>

-----------------------------------------------------------------------------
(* Threads that freeze and unfreeze the group *)

\* A program of the group that a loop over programs_ has not visited yet.
Unvisited(t, g) ==
    /\ g \in Group \ seen[t]
    /\ pstate[g] \notin {"Initialized", "PendingDeletion"}

(* An embedder calls it while the VM is up. *)
FreezeProgramGroup(t) ==
    /\ At(t, "idle")
    /\ lock = NULL
    /\ ~shutdown
    /\ seen[t] = {}
    /\ lock' = t
    /\ pause' = TRUE
    /\ owes' = owes \cup {t}
    /\ Goto(t, "pausing")
    /\ UNCHANGED <<programVars, processVars, interpreter_is_paused, shutdown, idle,
                   waiting, spinVars, target, work, seen, interpVars, sessionVars>>

FreezeNext(t, g) ==
    /\ At(t, "freezing")
    /\ Unvisited(t, g)
    /\ target' = [target EXCEPT ![t] = g]
    /\ Goto(t, "freeze")
    /\ UNCHANGED <<programVars, processVars, pauseVars, monitorVars, spinVars,
                   work, seen, interpVars, sessionVars>>

FreezeProgram(t) ==
    /\ At(t, "freeze")
    /\ CanLock(t)
    /\ IF pstate[target[t]] = "Running"
       THEN /\ pstate' = [pstate EXCEPT ![target[t]] = "Frozen"]
            /\ lock' = t
            /\ Goto(t, "moving")
            /\ UNCHANGED waiting
       ELSE /\ Wait(t)
            /\ UNCHANGED <<pstate, pc>>
    /\ UNCHANGED <<processes, paused, exits, processVars, pauseVars, owes, spinVars,
                   target, work, seen, interpVars, sessionVars>>

(* FreezeProgramGroup: ResumeInterpreterLoop, NotifyAll *)
FreezeEnd(t) ==
    /\ At(t, "freezing")
    /\ \A g \in Program : ~Unvisited(t, g)
    /\ pause' = FALSE
    /\ waiting' = IF seen[t] # {} THEN {} ELSE waiting
    /\ owes' = owes \cup {t}
    /\ Goto(t, "unlock")
    /\ UNCHANGED <<programVars, processVars, interpreter_is_paused, shutdown, idle,
                   lock, spinVars, target, work, seen, interpVars, sessionVars>>

(* An embedder unfreezes the group it has frozen. *)
UnFreezeProgramGroup(t) ==
    /\ At(t, "idle")
    /\ lock = NULL
    /\ seen[t] # {}
    /\ seen' = [seen EXCEPT ![t] = {}]
    /\ lock' = t
    /\ Goto(t, "unfreezing")
    /\ UNCHANGED <<programVars, processVars, pauseVars, waiting, owes, spinVars,
                   target, work, interpVars, sessionVars>>

(* UnFreezeProgram: the state changes first, then EnqueuePaused *)
UnFreezeProgram(t, g) ==
    /\ At(t, "unfreezing")
    /\ Unvisited(t, g)
    /\ pstate' = [pstate EXCEPT ![g] = "Running"]
    /\ target' = [target EXCEPT ![t] = g]
    /\ Goto(t, "thawing")
    /\ UNCHANGED <<processes, paused, exits, processVars, pauseVars, monitorVars,
                   spinVars, work, seen, interpVars, sessionVars>>

Thawed(t) ==
    /\ At(t, "thawing")
    /\ paused[target[t]] = <<>>
    /\ seen' = [seen EXCEPT ![t] = @ \cup {target[t]}]
    /\ Goto(t, "unfreezing")
    /\ UNCHANGED <<programVars, processVars, pauseVars, monitorVars, spinVars,
                   target, work, interpVars, sessionVars>>

UnFreezeEnd(t) ==
    /\ At(t, "unfreezing")
    /\ \A g \in Program : ~Unvisited(t, g)
    /\ waiting' = IF seen[t] # {} THEN {} ELSE waiting
    /\ owes' = IF seen[t] # {} THEN owes \cup {t} ELSE owes
    /\ seen' = [seen EXCEPT ![t] = {}]
    /\ Goto(t, "unlock")
    /\ UNCHANGED <<programVars, processVars, pauseVars, lock, spinVars, target,
                   work, interpVars, sessionVars>>

-----------------------------------------------------------------------------
(* Steps of a thread inside an operation it has begun *)
Step(t) ==
    \/ Notify(t) \/ EnqueueSafe(t) \/ Unlock(t) \/ SignalProcess(t)
    \/ \E p \in Process : SendSignal(t, p)
    \/ StopProgram(t) \/ PauseInterpreterLoop(t)
    \/ PauseProcess(t) \/ PausedAll(t)
    \/ ResumeProgram(t) \/ EnqueuePaused(t) \/ ResumedProgram(t)

FreezerStep(t) ==
    \/ \E g \in Program : FreezeNext(t, g) \/ UnFreezeProgram(t, g)
    \/ FreezeProgram(t) \/ FreezeEnd(t) \/ Thawed(t) \/ UnFreezeEnd(t)

SessionStep(g) == Interrupted(g) \/ ContinueProcess(g) \/ ResumeExecution(g)

\* Dart code runs, until it is interrupted or its Run returns.
RunStep ==
    \/ RunReceive \/ RunSendSelf \/ RunInterrupted \/ RunYield
    \/ \E event \in Interruptions \cup {"Terminated"} : RunEvent(event)
    \/ \E p \in Process :
          RunSpawn(p) \/ \E outcome \in {"send", "exit_send"} : RunSend(p, outcome)

InterpreterStep ==
    \/ LoopTest \/ TryDequeue \/ InnerTest \/ PutBack \/ AfterLoop
    \/ PauseOn \/ PauseWait \/ PauseOff \/ IdleWait \/ IdleEnd
    \/ InterpretSignal \/ EnterDart \/ RunStep
    \/ YieldMailbox \/ YieldSignal \/ YieldSleep \/ YieldReady
    \/ TargetYield \/ Reschedule \/ SessionEvent \/ Cleanup
    \/ DeleteTerminatedProcess

\* The VM has shut down.
Exited == pc[Interpreter] = "exited" /\ UNCHANGED vars

Next ==
    \/ InterpreterStep
    \/ \E t \in Thread : Step(t)
    \/ \E t \in Freezers :
          FreezerStep(t) \/ FreezeProgramGroup(t) \/ UnFreezeProgramGroup(t)
    \/ \E t \in Senders :
          ResumeProcess(t) \/ \E p \in Process : SendMessage(t, p)
    \/ \E g \in Debugged :
          \/ SessionStep(g) \/ DebugInterrupt(g) \/ ProcessContinue(g)
          \/ SessionEnd(g) \/ SessionTerminated(g)
    \/ \E g \in Program : ScheduleProgram(g) \/ UnscheduleProgram(g)
    \/ TearDown \/ Exited

(***************************************************************************)
(* A thread inside an operation goes on.  Fairness is strong because its   *)
(* steps take pause_monitor_ or a spinlock, which other threads hold for   *)
(* bounded times only but may take again and again.  Dart code is          *)
(* interrupted at the latest by the tick of the preempter, 100 ms later.   *)
(* Beginning an operation is up to the embedder, the debugger or the       *)
(* sender and has no fairness, but a runner waits for its program to end.  *)
(***************************************************************************)
Fairness ==
    /\ SF_vars(InterpreterStep) /\ WF_vars(RunInterrupted)
    /\ \A t \in Thread : SF_vars(Step(t))
    /\ \A t \in Freezers : SF_vars(FreezerStep(t))
    /\ \A t \in Senders : SF_vars(ResumeProcess(t))
    /\ \A g \in Debugged : WF_vars(SessionStep(g))
    /\ \A g \in Program : SF_vars(UnscheduleProgram(g))

Spec == Init /\ [][Next]_vars /\ Fairness

-----------------------------------------------------------------------------
(* Safety *)

Listed(list, p) == \E i \in 1..Len(list) : list[i] = p
Distinct(list) == \A i, j \in 1..Len(list) : list[i] = list[j] => i = j

\* The ready queue holds exactly the processes in kReady, each once: the
\* UNREACHABLEs and the IsInList ASSERT of ProcessQueue (process_queue.h).
ReadyList ==
    /\ Distinct(ready)
    /\ \A p \in Process : Listed(ready, p) <=> state[p] = "Ready"

\* A paused list holds processes of its own program, in kEnqueuing, each once.
PausedLists ==
    \A g \in Program :
        /\ Distinct(paused[g])
        /\ \A p \in Process :
              Listed(paused[g], p) => ProgramOf[p] = g /\ state[p] = "Enqueuing"

InPaused(p) == Listed(paused[ProgramOf[p]], p)

\* A process in kEnqueuing is in the paused list of its program or in the hands
\* of exactly one thread that is going to enqueue it, so the IsInList test in
\* EnqueueSafe never finds it: no process is lost and none is enqueued twice,
\* whoever resumes, signals, stops, freezes or continues it at the same time.
EnqueuingOwned ==
    /\ \A t \in Thread : pc[t] = "safe" => /\ target[t] \in Process
                                           /\ state[target[t]] = "Enqueuing"
                                           /\ ~InPaused(target[t])
    /\ \A t, u \in Thread : pc[t] = "safe" /\ pc[u] = "safe" /\ target[t] = target[u] => t = u
    /\ \A p \in Process :
          state[p] = "Enqueuing" =>
             InPaused(p) \/ \E t \in Thread : pc[t] = "safe" /\ target[t] = p

\* Where the interpreter thread has a process in kRunning in its hands.
Interpreting == {"inner", "interpret", "run", "target", "target_exit", "resched"}
Yielding == {"yield", "yield_signal", "yield_sleep", "yield_ready"}

\* Only the interpreter thread's own one or two processes are in kRunning or
\* kYielding, so ChangeState may leave these states without a compare-exchange
\* (process.h).
RunningOwned ==
    /\ pc[Interpreter] \in Interpreting =>
          current \in Process /\ state[current] = "Running"
    /\ pc[Interpreter] \in Yielding =>
          current \in Process /\ state[current] = "Yielding"
    /\ next # NULL => /\ state[next] = "Running" /\ next # current
                      /\ pc[Interpreter] \in {"resched", "result", "next", "signal", "safe"}
    /\ \A p \in Process :
          /\ state[p] = "Running" =>
                p = next \/ (p = current /\ pc[Interpreter] \in Interpreting \cup {"result"})
          /\ state[p] = "Yielding" => p = current /\ pc[Interpreter] \in Yielding

\* Program g has been stopped or frozen, and is not about to be resumed.
IsStopped(g) ==
    /\ pstate[g] \in {"Session", "Frozen"}
    /\ \A t \in Thread : pc[t] \in {"pausing", "moving", "resuming"} => ProgramAt(t) # g

\* StopProgram and FreezeProgramGroup return only when no process of the program
\* runs or can be dequeued, and none does until the program is resumed, whatever
\* messages and signals arrive in between.
StoppedProgramIsQuiet ==
    \A g \in Program : IsStopped(g) =>
        \A p \in Process : ProgramOf[p] = g => state[p] \notin {"Ready", "Running", "Yielding"}

\* "Caller must hold [pause_monitor_] and have stopped the interpreter loop."
\* (scheduler.h): while another thread moves ready processes, the interpreter
\* thread is somewhere in its loop where it has no process and cannot get one
\* before it has paused, even if interpreter_is_paused_ is left over from the
\* last pause.
MovesWhenPaused ==
    \A t \in Thread \ {Interpreter} : pc[t] = "moving" =>
        /\ pause
        /\ pc[Interpreter] \in {"pause_wait", "pause_off", "loop", "after", "pause_on"}

\* A process never sleeps on a message or a signal: someone is about to wake it.
\* The sender may look at the process at any point of its way from kRunning over
\* kYielding to kSleeping.
NoLostWakeup ==
    \A p \in Process : state[p] = "Sleeping" /\ (mail[p] \/ signal[p]) =>
        \E t \in Thread :
            /\ pc[t] \in {"resume_process", "target", "target_exit", "signal"}
            /\ target[t] = p

\* The interpreter thread does not wait while there is something for it to do,
\* although Enqueue notifies only when the queue was empty.
NoMissedNotify ==
    /\ idle /\ pc[Interpreter] = "idle" /\ (ready # <<>> \/ pause \/ shutdown) => owes # {}
    /\ idle /\ pc[Interpreter] = "pause_wait" /\ ~pause => owes # {}

\* A program is done exactly when its last process is, its exit listener is
\* called once, and no process of it is left in a list.
DoneMeansDead ==
    \A g \in Program :
        /\ exits[g] = IF pstate[g] \in {"Done", "PendingDeletion"} THEN 1 ELSE 0
        /\ exits[g] = 1 => /\ paused[g] = <<>>
                           /\ \A p \in Process : ProgramOf[p] = g => ~Exists(p)

\* Every process of a program that is being stopped or resumed is accounted for:
\* the paused lists hold processes in kEnqueuing, each once; whatever else is in
\* kEnqueuing has exactly one thread about to enqueue it; and the exit listener is
\* called once, when the last process is dead.
ProcessesKept == PausedLists /\ EnqueuingOwned /\ DoneMeansDead

\* While the freezing thread moves ready processes, the interpreter thread has none
\* and cannot get one, and it does not sleep through a notification (scheduler.h:
\* "Caller must hold [pause_monitor_] and have stopped the interpreter loop.").
PausedAndNotified == MovesWhenPaused /\ NoMissedNotify

\* The transitions program.h lists for ProgramState, which its ChangeState
\* asserts.
ProgramTransitions ==
    {<<"Initialized", "Running">>, <<"Running", "Session">>, <<"Session", "Running">>,
     <<"Running", "Frozen">>, <<"Frozen", "Running">>, <<"Running", "Done">>,
     <<"Done", "PendingDeletion">>}

\* A program changes state only along the documented transitions.
ChangesState ==
    \A g \in Program : pstate'[g] # pstate[g] => <<pstate[g], pstate'[g]>> \in ProgramTransitions
DocumentedTransitions == [][ChangesState]_vars

-----------------------------------------------------------------------------
(* Liveness *)

\* FreezeProgramGroup and UnFreezeProgramGroup return.
FreezeReturns ==
    \A t \in Freezers : pc[t] # "idle" ~> pc[t] = "idle"

\* A process that sleeps on a message or a signal is interpreted.
SleeperRuns ==
    \A p \in Process :
        state[p] = "Sleeping" /\ (mail[p] \/ signal[p]) ~> state[p] = "Running"

\* A process in the ready queue is interpreted.
ReadyRuns ==
    \A p \in Process : state[p] = "Ready" ~> state[p] = "Running"

\* A process that was sent a signal ends, unless the debugger stops it first.
SignalledDies ==
    \A p \in Process : signal[p] ~> state[p] = "Dead"

\* A debug interrupt stops the program: the session thread gets out of StopProgram.
InterruptReturns ==
    \A g \in Debugged : pc[g] = "stop" ~> pc[g] = "idle"

\* Scheduler::TearDown gets the interpreter thread out of its loop.
ShutdownCompletes == shutdown ~> pc[Interpreter] = "exited"

=============================================================================
