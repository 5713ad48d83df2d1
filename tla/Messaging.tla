----------------------------- MODULE Messaging -----------------------------
(***************************************************************************)
(* Ports, mailboxes, links, monitors and signals of the processes of one   *)
(* program, and the event handler that sends timeouts and file events to   *)
(* ports.  Two threads: the interpreter thread runs the natives, the       *)
(* collector and the clean-up of a process; the event handler thread sends *)
(* and releases port references.  What one thread does while it holds a    *)
(* lock is one step, except where the other thread can see the state       *)
(* without taking the lock: the lock-free mailbox and the reference count  *)
(* that CleanupPorts reads.                                                *)
(***************************************************************************)
EXTENDS Integers, Sequences, FiniteSets, FiniteSetsExt, SequencesExt

CONSTANTS SpawnedAs,          \* ways to spawn: subsets of
                              \* {"to child", "from child", "monitor", "argument"}
          Process, Main,      \* the processes; Main is the parent of the others
          Port,
          NONE,
          MaxMessages,        \* bound on the messages sent
          MaxRequests         \* bound on timeouts, listeners, links, monitors and signals

VARIABLES proc,       \* the processes
          port,       \* the ports
          dart,       \* <<p, q>>: process p holds the Dart object of port q
          named,      \* <<p, r>>: p holds the Process object of r that spawn returned
          shown,      \* <<p, r>>: p holds a Process object made by Process.current of r
          timeouts,   \* ports with a pending timeout
          listener,   \* the port listening on the file descriptor, or NONE
          lost,       \* per port, its listeners that were replaced and are never deleted
          dying,      \* the clean-up that runs on the interpreter thread
          event,      \* the event handler thread
          serial,     \* the number of messages created
          received,   \* per process, the last message it received, if any
          requests,   \* the number of timeouts, links, ... asked for
          failed      \* what went wrong

msgVars == <<proc, port, dart, named, shown, timeouts, listener, lost, dying, event,
             serial, received, requests, failed>>

NoProc == [state |-> "none", triangle |-> 1, ports |-> {}, last |-> <<>>, current |-> <<>>,
           handles |-> [r \in Process |-> 0], monitors |-> [q \in Port |-> 0], signal |-> NONE]
NoPort == [state |-> "none", process |-> NONE, refs |-> 0, locked |-> FALSE,
           channel |-> FALSE, object |-> FALSE]
Idle == [pc |-> "idle", port |-> NONE, release |-> FALSE, seen |-> NONE]
NotDying == [pc |-> "none", process |-> NONE, ports |-> {}]

Init ==
  /\ proc = [p \in Process |-> IF p = Main THEN [NoProc EXCEPT !.state = "live"] ELSE NoProc]
  /\ port = [q \in Port |-> NoPort]
  /\ dart = {} /\ named = {} /\ shown = {}
  /\ timeouts = {} /\ listener = NONE /\ lost = [q \in Port |-> 0]
  /\ dying = NotDying /\ event = Idle
  /\ serial = 0 /\ received = [p \in Process |-> <<>>] /\ requests = 0 /\ failed = {}

(* The interpreter thread is free to run a process.                        *)
Runs(p) == dying.pc = "none" /\ proc[p].state = "live"
Live(q) == port[q].state = "live"
Alive(p) == proc[p].state \in {"live", "half dead"}

(* A process handle is deleted with the last reference to it: of the       *)
(* process, of the Process objects spawn returned, of links and of signals.*)
HandleLive(r) ==
  \/ Alive(r)
  \/ \E p \in Process : <<p, r>> \in named
  \/ \E p \in Process : Alive(p) /\ (proc[p].handles[r] > 0 \/ proc[p].signal = r)
  \/ \E p \in Process : Alive(p) /\ \E s \in {proc[p].last, proc[p].current} :
       \E i \in DOMAIN s : s[i].from = r

Fail(name, bad) == failed' = IF bad THEN failed \cup {name} ELSE failed

-----------------------------------------------------------------------------
(* References to ports                                                     *)

(* Message: it references its port until it is deleted.                    *)
Message(q, kind, from) == [port |-> q, serial |-> serial + 1, kind |-> kind, from |-> from]

(* DecrementRef when nothing can come in between: the port of a process    *)
(* that is gone is deleted with its last reference, any other is left to   *)
(* CleanupPorts.                                                           *)
DecrementRef(ps, q) ==
  [ps EXCEPT ![q].refs = @ - 1,
             ![q].state = IF ps[q].refs = 1 /\ ps[q].process = NONE THEN "deleted" ELSE @]
IncrementRef(ps, q) == [ps EXCEPT ![q].refs = @ + 1]

(* A slip: a message that is deleted keeps its reference.                  *)
DeleteMessagesOnly(ps, msgs) == ps

(* The references of the messages of a sequence are dropped one by one.    *)
DeleteMessages(ps, msgs) == FoldLeft(LAMBDA a, m : DecrementRef(a, m.port), ps, msgs)

(* EnqueueEntry, when the compare and exchange succeeds.                   *)
Enqueue(pr, p, m) == [pr EXCEPT ![p].last = <<m>> \o @]

-----------------------------------------------------------------------------
(* Natives                                                                 *)

PortCreate(p, q) ==
  /\ Runs(p) /\ port[q].state = "none"
  /\ port' = [port EXCEPT ![q] = [state |-> "live", process |-> p, refs |-> 1,
                                  locked |-> FALSE, channel |-> TRUE, object |-> TRUE]]
  /\ proc' = [proc EXCEPT ![p].ports = @ \cup {q}]
  /\ dart' = dart \cup {<<p, q>>}
  /\ UNCHANGED <<requests, named, shown, timeouts, listener, lost, dying, event, serial, received,
                 failed>>

(* PortSend and PortSendExit: under the lock of the port, to the process   *)
(* that owns it, if there still is one.  A message can carry a port, or    *)
(* the Process object of the sender.                                       *)
PortSend(p, q, carried) ==
  /\ Runs(p) /\ <<p, q>> \in dart /\ ~port[q].locked /\ serial < MaxMessages
  /\ LET owner == port[q].process IN
     IF owner = NONE
     THEN UNCHANGED <<proc, port, dart, shown, serial>>
     ELSE /\ proc' = Enqueue(proc, owner, Message(q, "data", NONE))
          /\ port' = IncrementRef(port, q)
          /\ dart' = IF carried \in Port THEN dart \cup {<<owner, carried>>} ELSE dart
          /\ shown' = IF carried = p /\ owner # p THEN shown \cup {<<owner, p>>} ELSE shown
          /\ serial' = serial + 1
  /\ UNCHANGED <<requests, named, timeouts, listener, lost, dying, event, received, failed>>

(* CurrentMessage takes the whole queue at once, without a lock, and turns *)
(* it round: it is linked from the newest message on.                      *)
TakenNewestFirst(p) == proc[p].last
Taken(p) == Reverse(proc[p].last)
CurrentMessage(p) ==
  /\ Runs(p) /\ proc[p].current = <<>> /\ proc[p].last # <<>>
  /\ proc' = [proc EXCEPT ![p].last = <<>>, ![p].current = Taken(p)]
  /\ UNCHANGED <<requests, port, dart, named, shown, timeouts, listener, lost, dying, event, serial,
                 received, failed>>

(* ProcessQueueGetChannel and ProcessQueueGetMessage: the process drops    *)
(* the messages whose channel died, and receives the next.                 *)
GetMessage(p) ==
  LET taken == proc[p].current
      heard == {i \in DOMAIN taken : port[taken[i].port].channel}
      n == IF heard = {} THEN Len(taken) ELSE Min(heard)
  IN /\ Runs(p) /\ taken # <<>>
     /\ \A i \in 1..n : ~port[taken[i].port].locked
     /\ proc' = [proc EXCEPT ![p].current = SubSeq(taken, n + 1, Len(taken))]
     /\ port' = DeleteMessages(port, SubSeq(taken, 1, n))
     /\ named' = IF heard # {} /\ taken[n].kind = "death"
                 THEN named \cup {<<p, taken[n].from>>} ELSE named
     /\ received' = IF heard = {} THEN received
                    ELSE [received EXCEPT ![p] = <<taken[n]>>]
     /\ Fail("deleted port", \E i \in 1..n : ~Live(taken[i].port))
     /\ UNCHANGED <<requests, dart, shown, timeouts, listener, lost, dying, event, serial>>

(* ScheduleTimeout, with a time or with -1, under the monitor of the event *)
(* handler.                                                                *)
MonitorFree == ~(event.pc # "idle" /\ event.release)
ScheduleTimeout(p, q, cancel) ==
  /\ Runs(p) /\ q \in proc[p].ports /\ <<p, q>> \in dart /\ MonitorFree
  /\ IF cancel
     THEN /\ q \in timeouts /\ ~port[q].locked
          /\ UNCHANGED requests
          /\ timeouts' = timeouts \ {q}
          /\ port' = DecrementRef(port, q)
     ELSE /\ requests < MaxRequests /\ requests' = requests + 1
          /\ timeouts' = timeouts \cup {q}
          /\ port' = IF q \in timeouts THEN port ELSE IncrementRef(port, q)
  /\ UNCHANGED <<proc, dart, named, shown, listener, lost, dying, event, serial, received,
                 failed>>

(* AddPortListener: EPOLL_CTL_MOD replaces the listener of the descriptor, *)
(* which nobody deletes.                                                   *)
AddPortListener(p, q) ==
  /\ Runs(p) /\ <<p, q>> \in dart
  /\ requests < MaxRequests /\ requests' = requests + 1
  /\ port' = IncrementRef(port, q)
  /\ listener' = q
  /\ lost' = IF listener = NONE THEN lost ELSE [lost EXCEPT ![listener] = @ + 1]
  /\ UNCHANGED <<proc, dart, named, shown, timeouts, dying, event, serial, received,
                 failed>>

(* ProcessSpawn: the child may be linked either way and monitored; the     *)
(* argument it starts with may be a port.                                  *)
ProcessSpawn(p, c, how, q) ==
  /\ Runs(p) /\ p = Main /\ proc[c].state = "none"
  /\ how \cap {"monitor", "argument"} # {} => <<p, q>> \in dart
  /\ proc' = [proc EXCEPT
       ![p].triangle = @ + 1,
       ![p].handles[c] = IF "to child" \in how THEN @ + 1 ELSE @,
       ![c] = [NoProc EXCEPT !.state = "live",
                 !.handles[p] = IF "from child" \in how THEN 1 ELSE 0,
                 !.monitors[q] = IF "monitor" \in how THEN 1 ELSE 0]]
  /\ port' = IF "monitor" \in how THEN IncrementRef(port, q) ELSE port
  /\ dart' = IF "argument" \in how THEN dart \cup {<<c, q>>} ELSE dart
  /\ named' = named \cup {<<p, c>>}
  /\ UNCHANGED <<requests, shown, timeouts, listener, lost, dying, event, serial, received, failed>>

(* A process uses a Process object it holds.                               *)
Holds(p, r) == <<p, r>> \in named \cup shown
Uses(p, r) ==
  /\ Runs(p) /\ p # r /\ Holds(p, r)
  /\ requests < MaxRequests /\ requests' = requests + 1
  /\ Fail("deleted handle", ~HandleLive(r))

ProcessLink(p, r) ==
  /\ Uses(p, r)
  /\ proc' = IF proc[r].state = "live" THEN [proc EXCEPT ![r].handles[p] = @ + 1] ELSE proc
  /\ UNCHANGED <<port, dart, named, shown, timeouts, listener, lost, dying, event, serial,
                 received>>

(* The parent of a process cannot be unlinked.                             *)
ProcessUnlink(p, r) ==
  /\ Uses(p, r) /\ ~(r = Main /\ p # Main) /\ proc[r].handles[p] > 0
  /\ proc' = [proc EXCEPT ![r].handles[p] = @ - 1]
  /\ UNCHANGED <<port, dart, named, shown, timeouts, listener, lost, dying, event, serial,
                 received>>

ProcessMonitor(p, r, q) ==
  /\ Uses(p, r) /\ <<p, q>> \in dart
  /\ IF proc[r].state = "live"
     THEN /\ proc' = [proc EXCEPT ![r].monitors[q] = @ + 1]
          /\ port' = IF proc[r].monitors[q] = 0 THEN IncrementRef(port, q) ELSE port
     ELSE UNCHANGED <<proc, port>>
  /\ UNCHANGED <<dart, named, shown, timeouts, listener, lost, dying, event, serial,
                 received>>

ProcessUnmonitor(p, r, q) ==
  /\ Uses(p, r) /\ <<p, q>> \in dart /\ ~port[q].locked
  /\ proc[r].state = "live" /\ proc[r].monitors[q] > 0
  /\ proc' = [proc EXCEPT ![r].monitors[q] = @ - 1]
  /\ port' = IF proc[r].monitors[q] = 1 THEN DecrementRef(port, q) ELSE port
  /\ UNCHANGED <<dart, named, shown, timeouts, listener, lost, dying, event, serial,
                 received>>

(* SendSignal keeps the first signal.                                      *)
SendSignal(pr, r, from) == [pr EXCEPT ![r].signal = IF @ = NONE THEN from ELSE @]

ProcessKill(p, r) ==
  /\ Uses(p, r)
  /\ proc' = IF proc[r].state = "live" THEN SendSignal(proc, r, p) ELSE proc
  /\ UNCHANGED <<port, dart, named, shown, timeouts, listener, lost, dying, event, serial,
                 received>>

-----------------------------------------------------------------------------
(* The end of a process                                                    *)

(* A process stops when it is done, throws, or acts on a signal: Cleanup.  *)
Terminate(p) ==
  /\ Runs(p)
  /\ dying' = [pc |-> "timeouts", process |-> p, ports |-> proc[p].ports]
  /\ UNCHANGED <<requests, proc, port, dart, named, shown, timeouts, listener, lost, event, serial,
                 received, failed>>

(* ReceiverForPortsDied, under the monitor of the event handler.           *)
ReceiverForPortsDied ==
  LET pending == timeouts \cap dying.ports
  IN /\ dying.pc = "timeouts" /\ MonitorFree
     /\ \A q \in pending : ~port[q].locked
     /\ timeouts' = timeouts \ pending
     /\ port' = FoldSet(LAMBDA q, ps : DecrementRef(ps, q), port, pending)
     /\ dying' = [dying EXCEPT !.pc = "ports"]
     /\ UNCHANGED <<requests, proc, dart, named, shown, listener, lost, event, serial, received, failed>>

(* Port::OwnerProcessTerminating, port by port, under the lock of the port.*)
OwnerProcessTerminating(q) ==
  /\ dying.pc = "ports" /\ q \in dying.ports /\ ~port[q].locked
  /\ port' = [port EXCEPT ![q].process = NONE,
                          ![q].state = IF port[q].refs = 0 THEN "deleted" ELSE @]
  /\ proc' = [proc EXCEPT ![dying.process].ports = {}]
  /\ dying' = [dying EXCEPT !.ports = @ \ {q}]
  /\ UNCHANGED <<requests, dart, named, shown, timeouts, listener, lost, event, serial, received,
                 failed>>

(* The handle loses its process and the linked processes that still live   *)
(* get a signal.                                                           *)
NotifyLinkedProcesses ==
  LET p == dying.process
      linked == {r \in Process : proc[p].handles[r] > 0 /\ proc[r].state = "live" /\ r # p}
  IN /\ dying.pc = "ports" /\ dying.ports = {}
     /\ proc' = FoldSet(LAMBDA r, pr : SendSignal(pr, r, p),
                        [proc EXCEPT ![p].state = "half dead", ![p].handles = NoProc.handles], linked)
     /\ dying' = [dying EXCEPT !.pc = "count"]
     /\ UNCHANGED <<requests, port, dart, named, shown, timeouts, listener, lost, event, serial,
                    received, failed>>

(* ScheduleProcessForDeletion: a process is deleted when it and all its    *)
(* descendants are done.                                                   *)
CountTriangle ==
  LET p == dying.process
  IN /\ dying.pc = "count"
     /\ proc' = [proc EXCEPT ![p].triangle = @ - 1]
     /\ dying' = IF proc[p].triangle > 1 THEN NotDying ELSE [dying EXCEPT !.pc = "monitors"]
     /\ UNCHANGED <<requests, port, dart, named, shown, timeouts, listener, lost, event, serial,
                    received, failed>>

(* NotifyMonitors, port by port: as many messages as there are monitors.   *)
NotifyMonitors(q) ==
  LET p == dying.process
      count == proc[p].monitors[q]
      owner == port[q].process
      send == [i \in 1..count |-> [Message(q, "death", p) EXCEPT !.serial = serial + i]]
  IN /\ dying.pc = "monitors" /\ count > 0 /\ ~port[q].locked
     /\ Fail("deleted port", ~Live(q))
     /\ IF owner = NONE
        THEN /\ proc' = [proc EXCEPT ![p].monitors[q] = 0]
             /\ port' = DecrementRef(port, q)
             /\ UNCHANGED serial
        ELSE /\ proc' = [proc EXCEPT ![p].monitors[q] = 0, ![owner].last = Reverse(send) \o @]
             /\ port' = DecrementRef([port EXCEPT ![q].refs = @ + count], q)
             /\ serial' = serial + count
     /\ UNCHANGED <<requests, dart, named, shown, timeouts, listener, lost, dying, event, received>>

(* The rest of ~Process: the mailbox goes with its messages; then it is    *)
(* the turn of the parent.                                                 *)
DeleteProcess ==
  LET p == dying.process
      mail == proc[p].last \o proc[p].current
  IN /\ dying.pc = "monitors" /\ \A q \in Port : proc[p].monitors[q] = 0
     /\ \A i \in DOMAIN mail : ~port[mail[i].port].locked
     /\ Fail("deleted port", \E i \in DOMAIN mail : ~Live(mail[i].port))
     /\ port' = DeleteMessages(port, mail)
     /\ proc' = [proc EXCEPT ![p] = [NoProc EXCEPT !.state = "deleted"]]
     /\ dart' = {d \in dart : d[1] # p}
     /\ shown' = {d \in shown : d[1] # p}
     /\ dying' = IF p = Main THEN NotDying ELSE [pc |-> "count", process |-> Main, ports |-> {}]
     /\ received' = [received EXCEPT ![p] = <<>>]
     /\ UNCHANGED <<requests, named, timeouts, listener, lost, event, serial>>

-----------------------------------------------------------------------------
(* The collector                                                           *)

(* A process drops an object.                                              *)
Forget(p, q) ==
  /\ Runs(p) /\ <<p, q>> \in dart
  /\ dart' = dart \ {<<p, q>>}
  /\ UNCHANGED <<requests, proc, port, named, shown, timeouts, listener, lost, dying, event, serial,
                 received, failed>>

(* The Process object spawn returned is dropped and finalized.             *)
ForgetProcess(p, r) ==
  /\ Runs(p) /\ <<p, r>> \in named
  /\ named' = named \ {<<p, r>>}
  /\ UNCHANGED <<requests, proc, port, dart, shown, timeouts, listener, lost, dying, event, serial,
                 received, failed>>

(* CollectNewSpace: the weak callbacks of the Port objects nobody holds,   *)
(* then CleanupPorts, which reads the counts without the locks, deletes    *)
(* the ports without references and clears the channels that died.  A      *)
(* Process object that died gives its handle back.  When the last process  *)
(* is gone the whole heap goes.                                            *)
CollectNewSpace(closed) ==
  LET objects == {q \in Port : port[q].object /\ ~\E p \in Process : <<p, q>> \in dart}
      released == [q \in Port |-> IF q \in objects
                                  THEN [DecrementRef(port, q)[q] EXCEPT !.object = FALSE]
                                  ELSE port[q]]
      owned(q) == \E p \in Process : q \in proc[p].ports
      gone == {q \in Port : owned(q) /\ released[q].refs = 0}
  IN /\ dying.pc = "none"
     /\ \A q \in objects : ~port[q].locked
     /\ \A q \in closed : owned(q) /\ port[q].channel
     /\ objects \cup gone \cup closed # {}
     /\ port' = [q \in Port |-> [released[q] EXCEPT
                   !.state = IF q \in gone THEN "deleted" ELSE @,
                   !.channel = @ /\ q \notin closed]]
     /\ proc' = [p \in Process |-> [proc[p] EXCEPT !.ports = @ \ gone]]
     /\ named' = {d \in named : Alive(d[1])}
     /\ Fail("deleted port", \E q \in objects : ~Live(q))
     /\ UNCHANGED <<requests, dart, shown, timeouts, listener, lost, dying, event, serial, received>>

-----------------------------------------------------------------------------
(* The event handler thread                                                *)

(* HandleTimeouts takes the monitor; epoll_wait returns a listener, which  *)
(* EPOLLONESHOT disarms.                                                   *)
StartSend(q) ==
  /\ event.pc = "idle"
  /\ \/ /\ q \in timeouts
        /\ event' = [Idle EXCEPT !.pc = "lock", !.port = q, !.release = TRUE]
        /\ UNCHANGED listener
     \/ /\ q = listener
        /\ event' = [Idle EXCEPT !.pc = "lock", !.port = q]
        /\ listener' = NONE
  /\ UNCHANGED <<requests, proc, port, dart, named, shown, timeouts, lost, dying, serial, received,
                 failed>>

(* Send: the message is made under the lock of the port, if there is a     *)
(* process to send it to.                                                  *)
SendLocked ==
  LET q == event.port
      owner == port[q].process
  IN /\ event.pc = "lock" /\ ~port[q].locked
     /\ Fail("deleted port", ~Live(q))
     /\ IF owner = NONE
        THEN /\ event' = [event EXCEPT !.pc = "release"]
             /\ UNCHANGED port
        ELSE /\ port' = [IncrementRef(port, q) EXCEPT ![q].locked = TRUE]
             /\ event' = [event EXCEPT !.pc = "exchange", !.seen = proc[owner].last]
     /\ UNCHANGED <<requests, proc, dart, named, shown, timeouts, listener, lost, dying, serial, received>>

(* compare_exchange_weak: it succeeds, or takes what it found instead.     *)
Exchange ==
  LET q == event.port
      owner == port[q].process
  IN /\ event.pc = "exchange"
     /\ Fail("deleted process", owner = NONE \/ ~Alive(owner))
     /\ IF proc[owner].last = event.seen
        THEN /\ proc' = [proc EXCEPT ![owner].last = <<Message(q, "event", NONE)>> \o event.seen]
             /\ serial' = serial + 1
             /\ event' = [event EXCEPT !.pc = "unlock", !.seen = NONE]
        ELSE /\ event' = [event EXCEPT !.seen = proc[owner].last]
             /\ UNCHANGED <<proc, serial>>
     /\ UNCHANGED <<requests, port, dart, named, shown, timeouts, listener, lost, dying, received>>

SendUnlock ==
  /\ event.pc = "unlock"
  /\ Fail("deleted port", ~Live(event.port))
  /\ port' = [port EXCEPT ![event.port].locked = FALSE]
  /\ event' = [event EXCEPT !.pc = "release"]
  /\ UNCHANGED <<requests, proc, dart, named, shown, timeouts, listener, lost, dying, serial, received>>

(* DecrementRef, up to the moment it unlocks the port; the release of a    *)
(* timeout or of the listener that was sent.                               *)
Release ==
  LET q == event.port
      last == port[q].refs = 1 /\ port[q].process = NONE
  IN /\ event.pc = "release" /\ ~port[q].locked
     /\ Fail("deleted port", ~Live(q))
     /\ port' = [DecrementRef(port, q) EXCEPT ![q].locked = ~last]
     /\ event' = IF last THEN Idle ELSE [event EXCEPT !.pc = "released"]
     /\ timeouts' = IF last /\ event.release THEN timeouts \ {q} ELSE timeouts
     /\ UNCHANGED <<requests, proc, dart, named, shown, listener, lost, dying, serial, received>>

(* Unlock, and RemoveMinimum for a timeout.                                *)
Released ==
  LET q == event.port
  IN /\ event.pc = "released"
     /\ Fail("unlocked a deleted port", ~Live(q))
     /\ port' = [port EXCEPT ![q].locked = FALSE]
     /\ timeouts' = IF event.release THEN timeouts \ {q} ELSE timeouts
     /\ event' = Idle
     /\ UNCHANGED <<requests, proc, dart, named, shown, listener, lost, dying, serial, received>>

-----------------------------------------------------------------------------
EventHandler == (\E q \in Port : StartSend(q)) \/ SendLocked \/ Exchange \/ SendUnlock
                \/ Release \/ Released

Ending == \/ \E p \in Process : Terminate(p)
          \/ ReceiverForPortsDied \/ NotifyLinkedProcesses \/ CountTriangle \/ DeleteProcess
          \/ \E q \in Port : OwnerProcessTerminating(q) \/ NotifyMonitors(q)

Natives ==
  \E p \in Process :
    \/ CurrentMessage(p) \/ GetMessage(p)
    \/ \E q \in Port : \/ PortCreate(p, q) \/ AddPortListener(p, q) \/ Forget(p, q)
                       \/ \E c \in BOOLEAN : ScheduleTimeout(p, q, c)
                       \/ \E c \in Port \cup {p} : PortSend(p, q, c)
    \/ \E r \in Process :
         \/ ProcessLink(p, r) \/ ProcessUnlink(p, r) \/ ProcessKill(p, r)
         \/ ForgetProcess(p, r)
         \/ \E q \in Port : ProcessMonitor(p, r, q) \/ ProcessUnmonitor(p, r, q)
         \/ \E how \in SpawnedAs, q \in Port :
              ProcessSpawn(p, r, how, q)

Next == Natives \/ Ending \/ EventHandler \/ \E closed \in SUBSET Port : CollectNewSpace(closed)

Spec == Init /\ [][Next]_msgVars

-----------------------------------------------------------------------------
Mail(p) == Reverse(proc[p].last)

(* A port has as many references as there are holders: its Dart object,    *)
(* the messages to it, monitors, a timeout, listeners and what the event   *)
(* handler has in hand.  Two threads count up and down; one too few frees  *)
(* a port in use, one too many keeps it for ever.                          *)
Holders(q) ==
  LET in(s) == Cardinality({i \in DOMAIN s : s[i].port = q})
      one(b) == IF b THEN 1 ELSE 0
      mine == event.port = q
  IN one(port[q].object)
     + MapThenSumSet(LAMBDA p : in(proc[p].last) + in(proc[p].current)
                                + one(proc[p].monitors[q] > 0), Process)
     + one(q \in timeouts /\ ~(mine /\ event.release /\ event.pc = "released"))
     + one(listener = q) + lost[q]
     + one(mine /\ ~event.release /\ event.pc # "released")
     + one(mine /\ event.pc = "exchange")
PortsCounted == \A q \in Port : Live(q) => port[q].refs = Holders(q)

(* What a process received, then what it took, then what is queued, is in  *)
(* the order in which the messages were enqueued, whoever enqueued them.   *)
InOrder ==
  \A p \in Process :
    LET all == received[p] \o proc[p].current \o Mail(p)
    IN \A i, j \in DOMAIN all : i < j => all[i].serial < all[j].serial

(* A monitor hears of the death of a process only when the process and all *)
(* its descendants are done.                                               *)
HeardLast ==
  \A p \in Process :
    LET all == received[p] \o proc[p].current \o Mail(p)
    IN \A i \in DOMAIN all : all[i].kind = "death" =>
         proc[all[i].from].state \in {"half dead", "deleted"}
         /\ (all[i].from = Main => \A r \in Process \ {Main} : ~Alive(r))

(* When the last process and the heap are gone there is no timeout left    *)
(* (asserted in ~EventHandler), and every port is deleted but those that   *)
(* listen to a file descriptor.                                            *)
ShutdownClean ==
  (proc[Main].state = "deleted" /\ event.pc = "idle") =>
    /\ timeouts = {}
    /\ \A q \in Port : Live(q) => port[q].object \/ q = listener \/ lost[q] > 0

(* No port, process or handle is used after it was deleted.                *)
NoDeletedUse == failed \subseteq {"unlocked a deleted port", "deleted handle"}
DecrementRefIsThreadSafe == "unlocked a deleted port" \notin failed
HandlesAreLive == "deleted handle" \notin failed
=============================================================================
