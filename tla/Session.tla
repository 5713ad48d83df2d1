------------------------------ MODULE Session ------------------------------
(***************************************************************************)
(* The session of a debugged program (session.cc): the states of a         *)
(* session, the thread that processes the messages of the compiler, the    *)
(* main thread in ProcessRun, and the handlers that the interpreter thread *)
(* calls for the events of a process.  Everything runs under               *)
(* main_thread_monitor_, except StartSession without a connection and the  *)
(* run of the program; StopProgram waits with the monitor held.            *)
(*                                                                         *)
(* The scheduler is abstracted to the state of the one program, the        *)
(* compiler to a client that sends what its view of the VM (enum VmState   *)
(* of vm_commands.dart) allows.  A failing ASSERT, UNREACHABLE or FATAL is *)
(* recorded in failed and execution goes on, as in a release build.        *)
(***************************************************************************)
EXTENDS Integers, Sequences, FiniteSets

CONSTANTS
    Main, Child,     \* the processes of the program
    MaxCommands      \* bound on the commands the client sends

VARIABLES
    state,           \* state_, with the fields of its class
    flags,           \* the modes of the session that are set
    resume,          \* main_thread_resume_kind_
    main,            \* where the main thread is in ProcessRun
    loop,            \* where the message thread is
    program,         \* ProgramState and the processes that are alive
    debug,           \* ProcessDebugInfo of each process
    event,           \* the event the interpreter thread reports
    client,          \* the client: its view, its commands so far
    toVM, toClient,  \* the two directions of the connection
    failed           \* assertions that failed

vars == <<state, flags, resume, main, loop, program, debug, event, client,
          toVM, toClient, failed>>

Processes == {Main, Child}
None == [kind |-> "none"]

Modifying(previous) == [kind |-> "Modifying", previous |-> previous]
Paused(p, interrupted) ==
    [kind |-> "Paused", process |-> p, interrupted |-> interrupted]
Terminating(processState) ==
    [kind |-> "Terminating", processState |-> processState]
Terminated(code) == [kind |-> "Terminated", code |-> code]

IsScheduled(s) == s.kind \in {"Running", "Paused", "Terminating"}
IsSpawned(s) == s.kind = "Spawned" \/ IsScheduled(s)

(* What ASSERT(condition) leaves in failed *)
Assert(name, condition) == IF condition THEN {} ELSE {name}

MonitorFree == main # "checked" /\ loop.at # "stopping"

(***************************************************************************)
(* ChangeState and the ActivateState it calls                              *)
(***************************************************************************)
ActivateChecks(s, next) ==
    CASE next.kind = "Running" ->
            Assert("RunningState", s.kind \in {"Spawned", "Paused"})
      [] next.kind = "Terminating" -> Assert("TerminatingState", s.kind = "Paused")
      [] next.kind = "Modifying" -> Assert("ModifyingState", "handshake" \in flags)
      [] next.kind = "Paused" ->
            Assert("ScheduledState", s.kind = "Modifying" \/ IsSpawned(s))
      [] OTHER -> {}

ChangeState(next, checks) ==
    /\ state' = next
    /\ failed' = failed \union checks \union ActivateChecks(state, next)
                        \union Assert("IsTerminated", state.kind # "Terminated")

Fails(checks) == failed' = failed \union checks

(* SignalMainThread: blocks the command while an earlier kind is not taken *)
SignalMainThread(kind, then) ==
    /\ resume = "Unknown"
    /\ resume' = kind
    /\ main' = IF main = "waiting" THEN "loop" ELSE main
    /\ loop' = [at |-> then]

Send(message) == toClient' = Append(toClient, message)

(***************************************************************************)
(* StartSession, without a connection: neither step holds the monitor      *)
(***************************************************************************)
StartSpawn ==
    /\ loop.at = "start"
    /\ state' = [kind |-> "Spawned"]
    /\ failed' = failed
    /\ program' = [program EXCEPT !.spawned = TRUE]
    /\ loop' = [at |-> "signal first"]
    /\ UNCHANGED <<flags, resume, main, debug, event, client, toVM, toClient>>

StartSignal ==
    /\ loop.at = "signal first"
    /\ SignalMainThread("ProcessRun", "loop")
    /\ UNCHANGED <<state, flags, program, debug, event, client, toVM, toClient, failed>>

(***************************************************************************)
(* ProcessMessages: one command of the client                              *)
(***************************************************************************)
Receive(opcode) ==
    /\ loop.at = "loop"
    /\ MonitorFree
    /\ toVM # <<>>
    /\ Head(toVM) = opcode
    /\ toVM' = Tail(toVM)

(* PausedState::ProcessMessage checks this for every command *)
PausedChecks ==
    IF state.kind = "Paused"
    THEN Assert("PausedState", ~debug[state.process].stepping) ELSE {}

Stopped == ~IsScheduled(state) \/ state.kind = "Paused"

HandShake ==
    /\ Receive("HandShake")
    /\ flags' = flags \union {"handshake"}
    /\ Send([kind |-> "HandShakeResult", state |-> state.kind])
    /\ UNCHANGED <<state, resume, main, loop, program, debug, event, client, failed>>

(* MessageProcessingError: Platform::Exit ends every thread *)
ConnectionError ==
    /\ Receive("ConnectionError")
    /\ main' = "exited"
    /\ loop' = [at |-> "done"]
    /\ UNCHANGED <<state, flags, resume, program, debug, event, client, toClient, failed>>

CompilerError ==
    /\ Receive("CompilerError")
    /\ SignalMainThread("Error", "done")
    /\ Fails(PausedChecks)
    /\ UNCHANGED <<state, flags, program, debug, event, client, toClient>>

SessionEnd ==
    /\ Receive("SessionEnd")
    /\ state.kind # "Paused"
    /\ Fails(Assert("SessionEnd", ~IsScheduled(state) \/ state.kind = "Running"))
    /\ SignalMainThread("SessionEnd", "done")
    /\ UNCHANGED <<state, flags, program, debug, event, client, toClient>>

ProcessSpawnForMain ==
    /\ Receive("ProcessSpawnForMain")
    /\ ChangeState([kind |-> "Spawned"],
                   Assert("SpawnedState", ~IsSpawned(state))
                   \union Assert("FATAL", "handshake" \in flags))
    /\ program' = [program EXCEPT !.spawned = TRUE]
    /\ UNCHANGED <<flags, resume, main, loop, debug, event, client, toClient>>

EnableDebugging ==
    /\ Receive("Debugging")
    /\ flags' = flags \union {"debugging"}
    /\ Fails(PausedChecks)
    /\ UNCHANGED <<state, resume, main, loop, program, debug, event, client, toClient>>

EnableLiveEditing ==
    /\ Receive("LiveEditing")
    /\ flags' = flags \union {"live editing"}
    /\ Fails(PausedChecks)
    /\ UNCHANGED <<state, resume, main, loop, program, debug, event, client, toClient>>

(* The commands on the stack and the maps: module LiveEditing *)
Build ==
    /\ Receive("Build")
    /\ Fails(PausedChecks \union Assert("Build", Stopped))
    /\ UNCHANGED <<state, flags, resume, main, loop, program, debug, event, client, toClient>>

CreateSnapshot ==
    /\ Receive("CreateSnapshot")
    /\ Fails(Assert("CreateSnapshot", ~IsScheduled(state)))
    /\ \E success \in BOOLEAN :
          /\ Send([kind |-> IF success THEN "ProgramInfo" ELSE "CommandError"])
          /\ SignalMainThread(IF success THEN "SnapshotDone" ELSE "Error", "done")
    /\ UNCHANGED <<state, flags, program, debug, event, client>>

PrepareForChanges ==
    /\ Receive("PrepareForChanges")
    /\ ChangeState(Modifying(state),
                   PausedChecks
                   \union Assert("PrepareForChanges", state.kind # "Modifying" /\ Stopped))
    /\ UNCHANGED <<flags, resume, main, loop, program, debug, event, client, toClient>>

(* kCommitChanges and kDiscardChanges: RestorePrevious *)
EndChanges ==
    /\ Receive("EndChanges")
    /\ ChangeState(IF state.kind = "Modifying" THEN state.previous ELSE state,
                   Assert("FATAL", state.kind = "Modifying"))
    /\ UNCHANGED <<flags, resume, main, loop, program, debug, event, client, toClient>>

ProcessRunCommand ==
    /\ Receive("ProcessRun")
    /\ Fails(Assert("FATAL", IsSpawned(state)))
    /\ SignalMainThread("ProcessRun", "loop")
    /\ UNCHANGED <<state, flags, program, debug, event, client, toClient>>

SetBreakpoint ==
    /\ Receive("ProcessSetBreakpoint")
    /\ Fails(PausedChecks \union Assert("FATAL", IsSpawned(state))
                          \union Assert("SetBreakpoint", "debugging" \in flags))
    /\ flags' = flags \union {"breakpoint"}
    /\ UNCHANGED <<state, resume, main, loop, program, debug, event, client, toClient>>

(***************************************************************************)
(* kProcessDebugInterrupt: a no-op in SpawnedState and its subclasses other *)
(* than RunningState, and unexpected (FATALV) in the others                *)
(***************************************************************************)
DebugInterrupt ==
    /\ Receive("ProcessDebugInterrupt")
    /\ Fails(PausedChecks \union Assert("LateInterrupt", IsSpawned(state)))
    /\ loop' = IF state.kind = "Running" THEN [at |-> "stopping"] ELSE loop
    /\ UNCHANGED <<state, flags, resume, main, program, debug, event, client, toClient>>

(* SendBreakpoint: ends the stepping of the process *)
BreakpointChecks(p) ==
    IF debug[p].stepping
    THEN Assert("ClearSteppingFromBreakPoint", debug[p].at = "step") ELSE {}

AfterSendBreakpoint(p) ==
    IF debug[p].stepping
    THEN [debug EXCEPT ![p] = [stepping |-> FALSE, at |-> "no"]] ELSE debug

(* PauseExecution returns: StopProgram has paused the interpreter thread    *)
(* between two processes and taken the program out of kRunning              *)
Interrupted ==
    /\ loop.at = "stopping"
    /\ event = None
    /\ program.state = "Running"
    /\ program' = [program EXCEPT !.state = "Session"]
    /\ Send([kind |-> "ProcessBreakpoint"])
    /\ ChangeState(Paused(Main, TRUE), BreakpointChecks(Main))
    /\ debug' = AfterSendBreakpoint(Main)
    /\ loop' = [at |-> "loop"]
    /\ UNCHANGED <<flags, resume, main, event, client, toVM>>

(***************************************************************************)
(* PausedState::ProcessMessage                                             *)
(***************************************************************************)
SetStepping(p) == [debug EXCEPT ![p] = [stepping |-> TRUE, at |-> "step"]]

Continuable == {"Breakpoint", "CompileTimeError", "UncaughtException"}

(* scheduler()->ContinueProcess, unless the pause is an interrupt *)
ContinueChecks ==
    IF state.interrupted THEN {}
    ELSE Assert("ContinueProcess", program.at[state.process] \in Continuable)

(* A slip: the program is not resumed after an interrupt *)
ContinuedUnlessInterrupted ==
    IF state.interrupted THEN program
    ELSE [program EXCEPT !.state = "Running", !.at[state.process] = "ready"]

Continued ==
    [program EXCEPT !.state = "Running",
                    !.at = IF state.interrupted THEN @
                           ELSE [@ EXCEPT ![state.process] = "ready"]]

(* ProcessContinue, with what the command does to the debug info before *)
ProcessContinue(opcode, newDebug) ==
    /\ Receive(opcode)
    /\ IF state.kind = "Paused"
       THEN /\ ChangeState([kind |-> "Running"], PausedChecks \union ContinueChecks)
            /\ debug' = newDebug
            /\ program' = Continued
       ELSE /\ Fails({"FATAL"})
            /\ UNCHANGED <<state, debug, program>>
    /\ UNCHANGED <<flags, resume, main, loop, event, client, toClient>>

PausedProcess == IF state.kind = "Paused" THEN state.process ELSE Main

ProcessStep == ProcessContinue("ProcessStep", SetStepping(PausedProcess))

(* StepOver; StepOut does the same.  Where their breakpoint hits is not modelled *)
StepOver == ProcessContinue("ProcessStepOver", debug)

RestartFrame ==
    ProcessContinue("ProcessRestartFrame",
                    [debug EXCEPT ![PausedProcess].at = "no"])

PlainContinue == ProcessContinue("ProcessContinue", debug)

(* kSessionEnd in the paused state: KillProgram, TerminatingState *)
PausedSessionEnd ==
    /\ Receive("SessionEnd")
    /\ state.kind = "Paused"
    /\ ChangeState(Terminating(program.at[state.process]),
                   PausedChecks \union ContinueChecks)
    /\ program' = [Continued EXCEPT !.killed = TRUE]
    /\ SignalMainThread("SessionEnd", "done")
    /\ UNCHANGED <<flags, debug, event, client, toClient>>

(***************************************************************************)
(* The main thread: ProcessRun                                             *)
(***************************************************************************)
MainReturns ==
    /\ main = "loop"
    /\ MonitorFree
    /\ state.kind = "Terminated"
    /\ main' = "returned"
    /\ UNCHANGED <<state, flags, resume, loop, program, debug, event, client, toVM, toClient, failed>>

(* The test of the wait loop, and the wait itself *)
MainChecks ==
    /\ main = "loop"
    /\ MonitorFree
    /\ state.kind # "Terminated"
    /\ resume = "Unknown"
    /\ main' = "checked"
    /\ UNCHANGED <<state, flags, resume, loop, program, debug, event, client, toVM, toClient, failed>>

MainWaits ==
    /\ main = "checked"
    /\ main' = "waiting"
    /\ UNCHANGED <<state, flags, resume, loop, program, debug, event, client, toVM, toClient, failed>>

(* kError, kSnapshotDone and kSessionEnd; the last deletes a spawned process *)
MainEnds ==
    /\ main = "loop"
    /\ MonitorFree
    /\ state.kind # "Terminated"
    /\ resume \in {"Error", "SnapshotDone", "SessionEnd"}
    /\ resume' = "Unknown"
    /\ ChangeState(Terminated(IF resume = "Error" THEN "uncaught exception" ELSE "ok"),
                   IF resume = "SessionEnd"
                   THEN Assert("ProcessRun", ~IsScheduled(state)) ELSE {})
    /\ program' = IF resume = "SessionEnd" /\ IsSpawned(state)
                  THEN [program EXCEPT !.alive = {}] ELSE program
    /\ UNCHANGED <<flags, main, loop, debug, event, client, toVM, toClient>>

MainRuns ==
    /\ main = "loop"
    /\ MonitorFree
    /\ state.kind # "Terminated"
    /\ resume = "ProcessRun"
    /\ resume' = "Unknown"
    /\ main' = "running"
    /\ ChangeState([kind |-> "Running"], Assert("main_process_", program.spawned))
    /\ program' = [program EXCEPT !.state = "Running"]
    /\ UNCHANGED <<flags, loop, debug, event, client, toVM, toClient>>

(* SimpleProgramRunner::Run has returned: lock the monitor again *)
MainRan ==
    /\ main = "running"
    /\ MonitorFree
    /\ program.state = "Done"
    /\ main' = "loop"
    /\ ChangeState(Terminated(program.code), Assert("IsScheduled", IsScheduled(state)))
    /\ UNCHANGED <<flags, resume, loop, program, debug, event, client, toVM, toClient>>

(***************************************************************************)
(* The interpreter thread: the events of a process                         *)
(***************************************************************************)
EventKinds == {"Breakpoint", "UncaughtException", "CompileTimeError",
               "Killed", "UnhandledSignal", "Terminated"}

(* A bytecode after a resume: HandleAtBytecode clears the breakpoint *)
ClearCurrentBreakpoint(p) ==
    /\ program.state = "Running"
    /\ event = None
    /\ p \in program.alive
    /\ program.at[p] = "ready"
    /\ debug[p].at # "no"
    /\ debug' = [debug EXCEPT ![p].at = "no"]
    /\ UNCHANGED <<state, flags, resume, main, loop, program, event, client, toVM, toClient, failed>>

(* The main process spawns another *)
Spawn ==
    /\ program.state = "Running"
    /\ event = None
    /\ program.alive = {Main}
    /\ program.at[Main] = "ready"
    /\ ~program.killed
    /\ Child \notin program.born
    /\ program' = [program EXCEPT !.alive = Processes, !.born = {Child}]
    /\ UNCHANGED <<state, flags, resume, main, loop, debug, event, client, toVM, toClient, failed>>

(* The Handle functions of the scheduler, up to the call of the session *)
RaiseEvent(p, kind) ==
    /\ program.state = "Running"
    /\ event = None
    /\ p \in program.alive
    /\ program.at[p] = "ready"
    /\ kind # "Killed" => debug[p].at = "no" /\ ~program.killed
    /\ kind = "Breakpoint" => debug[p].stepping \/ "breakpoint" \in flags
    /\ kind = "Killed" => program.killed \/ p = Child
    /\ debug' = IF kind # "Breakpoint" THEN debug
                ELSE [debug EXCEPT ![p].at = IF debug[p].stepping THEN "step" ELSE "bp"]
    /\ LET handled == "handshake" \in flags IN
       /\ program' = [program EXCEPT !.at[p] = kind,
                                     !.state = IF handled THEN "Session" ELSE @]
       /\ event' = [kind |-> kind, process |-> p, result |-> kind,
                    at |-> IF handled THEN "session" ELSE "exit"]
    /\ UNCHANGED <<state, flags, resume, main, loop, client, toVM, toClient, failed>>

ObserveTermination(p) == p = Main

(* RunningState::Handle...: the messages and the results *)
RemainsPaused(kind, p) ==
    \/ kind = "Breakpoint"
    \/ /\ kind \in {"UncaughtException", "CompileTimeError"}
       /\ "debugging" \in flags \/ ObserveTermination(p)

Observed(kind, p) ==
    IF RemainsPaused(kind, p) THEN Send([kind |-> kind])
    ELSE IF kind \in {"Killed", "UnhandledSignal", "Terminated"} /\ ObserveTermination(p)
         THEN Send([kind |-> "ProcessTerminated"])
         ELSE UNCHANGED toClient

HandleRunning ==
    LET p == event.process
        kind == event.kind
    IN  /\ state.kind = "Running"
        /\ Observed(kind, p)
        /\ IF RemainsPaused(kind, p)
           THEN /\ ChangeState(Paused(p, FALSE),
                     IF kind # "Breakpoint" THEN {}
                     ELSE BreakpointChecks(p)
                          \union Assert("HandleBreakpoint", "debugging" \in flags))
                /\ debug' = IF kind = "Breakpoint" THEN AfterSendBreakpoint(p)
                            ELSE [debug EXCEPT ![p].stepping = FALSE]
                /\ event' = None
           ELSE /\ event' = [event EXCEPT !.at = "resume"]
                /\ UNCHANGED <<state, debug, failed>>

(* TerminatingState::HandleEvent: the result is the state at the end command *)
HandleTerminating ==
    /\ state.kind = "Terminating"
    /\ event' = [event EXCEPT !.at = "resume",
                    !.result = IF state.processState \in {"CompileTimeError", "UncaughtException"}
                               THEN state.processState ELSE "Terminated"]
    /\ UNCHANGED <<state, debug, toClient, failed>>

HandleUnreachable ==
    /\ state.kind \notin {"Running", "Terminating"}
    /\ event' = [event EXCEPT !.at = "resume"]
    /\ Fails({"UNREACHABLE"})
    /\ UNCHANGED <<state, debug, toClient>>

HandleEvent ==
    /\ event.kind # "none"
    /\ event.at = "session"
    /\ MonitorFree
    /\ HandleRunning \/ HandleTerminating \/ HandleUnreachable
    /\ UNCHANGED <<flags, resume, main, loop, program, client, toVM>>

(* ResumeProgram after the handler *)
ResumeProgram ==
    /\ event.kind # "none"
    /\ event.at = "resume"
    /\ program' = [program EXCEPT !.state = "Running"]
    /\ event' = [event EXCEPT !.at = "exit"]
    /\ UNCHANGED <<state, flags, resume, main, loop, debug, client, toVM, toClient, failed>>

(* HandleEventResult: the process goes; the last one ends the program *)
ExitProcess ==
    /\ event.kind # "none"
    /\ event.at = "exit"
    /\ program.state = "Running"
    /\ LET alive == program.alive \ {event.process} IN
       program' = [program EXCEPT !.alive = alive,
                                  !.code = IF event.process = Main THEN event.result ELSE @,
                                  !.state = IF alive = {} THEN "Done" ELSE @]
    /\ event' = None
    /\ UNCHANGED <<state, flags, resume, main, loop, debug, client, toVM, toClient, failed>>

(***************************************************************************)
(* The client                                                              *)
(***************************************************************************)
Commands ==
    {<<"start", "HandShake", "await">>,
     <<"initial", "LiveEditing", "initial">>,
     <<"initial", "Build", "initial">>, <<"initial", "PrepareForChanges", "modifying">>,
     <<"initial", "ProcessSpawnForMain", "spawned">>,
     <<"initial", "CreateSnapshot", "ended">>, <<"initial", "CompilerError", "ended">>,
     <<"initial", "SessionEnd", "ended">>,
     <<"modifying", "Build", "modifying">>,
     <<"spawned", "Build", "spawned">>, <<"spawned", "PrepareForChanges", "modifying">>,
     <<"spawned", "ProcessRun", "running">>, <<"spawned", "SessionEnd", "ended">>,
     <<"paused", "Build", "paused">>, <<"paused", "PrepareForChanges", "modifying">>,
     <<"paused", "ProcessContinue", "running">>,
     <<"paused", "SessionEnd", "ended">>, <<"over", "SessionEnd", "ended">>}

DebuggerCommands ==
    {<<"spawned", "ProcessSetBreakpoint", "spawned">>,
     <<"running", "ProcessDebugInterrupt", "running">>,
     <<"paused", "ProcessSetBreakpoint", "paused">>, <<"paused", "ProcessStep", "running">>,
     <<"paused", "ProcessStepOver", "running">>, <<"paused", "ProcessRestartFrame", "running">>}

ClientSends ==
    /\ client.sent < MaxCommands \/ client.view = "over"
    /\ Len(toVM) < 2
    /\ \/ \E c \in Commands \union (IF client.debugs THEN DebuggerCommands ELSE {}) :
             /\ c[1] = client.view
             /\ toVM' = Append(toVM, c[2])
             /\ client' = [client EXCEPT !.view = c[3], !.sent = @ + 1,
                              !.back = IF c[2] = "PrepareForChanges" THEN c[1] ELSE @]
       \/ /\ client.view = "modifying"
          /\ toVM' = Append(toVM, "EndChanges")
          /\ client' = [client EXCEPT !.view = client.back, !.sent = @ + 1]
       \/ /\ client.view \in {"initial", "running"}
          /\ ~client.debugs
          /\ toVM' = Append(toVM, "Debugging")
          /\ client' = [client EXCEPT !.debugs = TRUE, !.sent = @ + 1]
    /\ UNCHANGED <<state, flags, resume, main, loop, program, debug, event, toClient, failed>>

(* At its bound, or at any time, the client goes away *)
ClientDisconnects ==
    /\ client.view \notin {"ended", "gone"}
    /\ client' = [client EXCEPT !.view = "gone"]
    /\ toVM' = Append(toVM, "ConnectionError")
    /\ UNCHANGED <<state, flags, resume, main, loop, program, debug, event, toClient, failed>>

ViewAfter(message) ==
    CASE message.kind = "HandShakeResult" ->
            (CASE message.state = "Initial" -> "initial"
               [] message.state = "Terminated" -> "over"
               [] OTHER -> "running")
      [] message.kind = "ProcessTerminated" -> "over"
      [] OTHER -> "paused"

ClientReceives ==
    /\ toClient # <<>>
    /\ toClient' = Tail(toClient)
    /\ client' = [client EXCEPT !.view =
                     IF @ \in {"ended", "gone"} THEN @ ELSE ViewAfter(Head(toClient))]
    /\ UNCHANGED <<state, flags, resume, main, loop, program, debug, event, toVM, failed>>

Init ==
    /\ state = [kind |-> "Initial"]
    /\ flags = {}
    /\ resume = "Unknown"
    /\ main = "loop"
    /\ loop \in {[at |-> "start"], [at |-> "loop"]}
    /\ program = [state |-> "new", spawned |-> FALSE, alive |-> {Main}, born |-> {},
                  killed |-> FALSE, code |-> "none", at |-> [p \in Processes |-> "ready"]]
    /\ debug = [p \in Processes |-> [stepping |-> FALSE, at |-> "no"]]
    /\ event = None
    /\ client = [view |-> "start", sent |-> 0, back |-> "start", debugs |-> FALSE]
    /\ toVM = <<>>
    /\ toClient = <<>>
    /\ failed = {}

MessageThread ==
    \/ StartSpawn \/ StartSignal
    \/ HandShake \/ ConnectionError \/ CompilerError \/ SessionEnd
    \/ ProcessSpawnForMain \/ EnableDebugging \/ EnableLiveEditing \/ Build
    \/ CreateSnapshot \/ PrepareForChanges \/ EndChanges \/ ProcessRunCommand
    \/ SetBreakpoint \/ DebugInterrupt \/ Interrupted
    \/ ProcessStep \/ StepOver \/ RestartFrame \/ PlainContinue \/ PausedSessionEnd

MainThread == MainReturns \/ MainChecks \/ MainWaits \/ MainEnds \/ MainRuns \/ MainRan

InterpreterThread ==
    \/ Spawn \/ HandleEvent \/ ResumeProgram \/ ExitProcess
    \/ \E p \in Processes :
          ClearCurrentBreakpoint(p) \/ \E kind \in EventKinds : RaiseEvent(p, kind)

Next ==
    /\ main # "exited"
    /\ MessageThread \/ MainThread \/ InterpreterThread
       \/ ClientSends \/ ClientDisconnects \/ ClientReceives

Spec == Init /\ [][Next]_vars

(***************************************************************************)
(* Properties                                                              *)
(***************************************************************************)
(* No ASSERT, UNREACHABLE or FATAL of session.cc fails, whatever the order *)
(* in which commands, events and the end of the run arrive: in particular  *)
(* no event reaches a state without a handler for it, and a command that   *)
(* crossed an event finds a state that accepts it.  The exceptions are two *)
(* of an interrupt: it can find the stepping main process between two      *)
(* bytecodes (ClearSteppingFromBreakPoint), or the program terminated.     *)
CommandsExpected == failed \subseteq {"ClearSteppingFromBreakPoint", "LateInterrupt"}

(* "This is a noop in all non-running states": an interrupt that arrives   *)
(* when the program is not running does nothing.                           *)
InterruptIsNoop == "LateInterrupt" \notin failed

(* The client sees a paused program exactly when the scheduler has it      *)
(* stopped for the session: nobody runs bytecodes or reports events while  *)
(* commands look at stacks and change the heap.                            *)
PausedIsStopped ==
    LET s == IF state.kind = "Modifying" THEN state.previous ELSE state
    IN  s.kind = "Paused" =>
            /\ program.state = "Session"
            /\ event = None
            /\ ~s.interrupted => program.at[s.process] \in Continuable

(* When no thread can go on, ProcessRun has returned.  There are three     *)
(* exceptions in the code: StopProgram waits for kRunning with the monitor *)
(* held; StartSession signals without the monitor, which the main thread   *)
(* can miss; and a process that outlives the main process can report an    *)
(* exception or a breakpoint after the client was told of the termination  *)
(* and has ended the session, with nobody left to continue it.             *)
SessionCompletes ==
    ~ ENABLED Next =>
        \/ main \in {"returned", "exited"}
        \/ loop.at = "stopping"
        \/ main = "waiting" /\ resume = "ProcessRun"
        \/ state.kind = "Paused" /\ Main \notin program.alive /\ loop.at = "done"
=============================================================================
