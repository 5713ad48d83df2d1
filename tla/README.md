# TLA+ models of the Dartino VM

Dartino runs Dart programs made of many small processes on one interpreter
thread. Around that thread other threads wake, signal, preempt, stop, freeze and
kill processes and programs; inside it, four generated interpreters work on a
heap that two collectors move about, on programs that a debugger edits while they
run. This directory models these parts of the VM, checks them with TLC on small
instances, and proves with TLAPS, for every instance, what the scheduler and the
interpretation barrier promise. The reference is the code under `src/`.

`PROJECT.json` lists the components, the runs, the findings, the hazards with the
properties that would catch them, the theorems, and in "map" the lines every
definition models. A helper whose lines lie within those of the definition that
uses it is read with that definition and has no row of its own.

## 1. The parts and how they interact

| Part | Source (`src/src/vm` unless noted) | Module | What is hard | Correct means |
|---|---|---|---|---|
| Interpretation barrier | `scheduler.cc`, `process.cc` | `InterpretationBarrier` | lock-free, several preempters against one interpreter, processes are deleted | a preemption is never lost and never hits a deleted process |
| Scheduler, programs, freezing | `scheduler.cc`, `process_queue.h`, `program.h`, `process.h` | `Scheduler` | three locks, spinning state changes, waits that give the monitor up, one pause flag for all | queue and states agree, no wakeup is lost, a stopped program is at rest, callers return |
| Program groups | `program_groups.cc` | `ProgramGroups` | reuse of ids | a group that is created is new |
| Debugger session | `session.cc` | `Session`, `Scheduler` | commands, events and the end of the program meet in any order | commands are expected, a paused session has a stopped program |
| Live editing | `session.cc`, `object.cc` | `LiveEditing` | instances are rewritten while the heap is walked | every object has the shape the edit asks for |
| Program folding | `program_folder.cc`, `selector_row.cc` | `ProgramFolder` | rows of the dispatch table lie over each other | a folded program calls what it called before |
| Object map | `object_map.cc` | `ObjectMap`, `Dictionary` | two hash tables, growth, moving objects | it acts as a dictionary |
| Snapshots | `snapshot.cc` | `Snapshot` | other word sizes, registers chosen by an oracle | what is read is what was written |
| Interpreters | `interpreter.cc`, `interpreter_{x86,x64,arm,mips}.cc` | `Interpreters` and those it extends | four code generators for one language | they agree, and keep the heap's invariants |
| Natives | `natives.cc` | `Natives` | overflow and narrowing | the answers Dart promises |
| Old space | `object_memory_mark_sweep.cc`, `mark_sweep.h`, `gc_metadata.cc` | `OldSpace` | marking stack overflow, sweep, compaction, cards | what is reachable is kept, the tables agree |
| Two-space heap | `heap.cc`, `object_memory_copying.cc`, `weak_pointer.cc` | `TwoSpaceHeap` | promotion, remembered set, finalizers | what is reachable is kept, a finalizer runs once |
| Ports, mailboxes, links, signals, timers | `port.cc`, `mailbox.h`, `links.cc`, `process_handle.cc`, `event_handler*.cc` | `Messaging` | push against take, last reference against termination | messages arrive in order, nothing deleted is used |
| Priority heap | `priority_heap.h` | `PriorityHeap` | two structures in step | the root is the least |
| FreeRTOS port | `src/src/freertos` | `CompactMalloc`, `DeviceFlags`, `DeviceManager`, `UartDriver` | interrupt handlers | blocks tile the pages, bytes and events arrive |

An event handler, a service client or a process puts a message into a mailbox under
the lock of its port and then asks the scheduler to resume the owner. A dying process
signals its links under the lock of their handles. Both end in `EnqueueSafe`, which
takes `pause_monitor_` and looks at the program: a stopped program collects its
processes in a list, a running one has them in the ready queue. A session or an
embedder that stops a program takes `pause_monitor_`, sets `pause_`, preempts the
interpreter through the barrier and waits until the interpreter thread says it is
paused. The interpreters leave `Interpreter::Run` with an outcome, which is what
`Scheduler` starts from; they store through the write barrier on which both
collectors rely.

## 2. Modules

**`InterpretationBarrier`.** One step is one access to an atomic. A failing
`compare_exchange_weak` reloads the local copy, a spurious failure is a stutter. The
word `stack_limit_` has three values, for the code only compares it with
`kMaxStackMarker` and the preempt bit: a real limit, marked, cleared. `asked` is a
history variable: a preemption was asked for while a process was inside.

**`Scheduler`.** One step is one section of `pause_monitor_` or a spinlock, or one
access to an atomic; sections are split where they wait and where another thread can
see them half done (the notification of the interpreter thread happens with
`pause_monitor_` held; `PauseAllProcessesOfProgram` and `ResumeProgram` move processes
one by one).

| Model | Code |
|---|---|
| thread `Interpreter` | the one worker of `kThreadCount` that has `interpreter_semaphore_` |
| `Senders` | event handler, service API: `EventHandler::Send`, `EnqueueProcess(process, port)` |
| `Freezers` | embedder threads in `(Un)FreezeProgramGroup` |
| `Runner` | `SimpleProgramRunner::Run`, `Scheduler::TearDown` |
| thread `g` for `g \in Debugged` | the session thread of program `g`; `main_thread_monitor_` is held while it is not `"idle"` |
| `pc` of a thread | the point in the call it is in; `"idle"` outside the scheduler |
| `lock`, `waiting` | `pause_monitor_`: owner, threads in `Wait` |
| `idle`, `owes` | the interpreter thread waits on `idle_monitor_`; threads inside `NotifyInterpreterThread` |
| `mail`, `signal` | the mailbox is not empty, `signal_` is set |
| `Outcomes` | what the Dart code of a program may do; each is a way `Interpreter::Run` returns |
| `Links` | the handles in `Process::links()`, fixed for a run |

Process states are those of `process.h`; `"New"` and `"Dead"` are a process before
`SpawnProcess` and after `Cleanup`. A preemption is not a step of its own: Dart code may
be interrupted at any time, which covers every preemption.

**The interpreters.** The generators print assembly; here the code each of them
prints for a bytecode is a sequence of instructions of an abstract machine, at the
label the code has. A module per architecture (`InterpreterX86`, `InterpreterX64`,
`InterpreterARM`, `InterpreterMIPS`) is a set of records, one per family of bytecodes
(loads, stores, literals, invokes, arithmetic, bits, branches, objects, control,
identity, intrinsics), which `Generate` puts together. `InterpreterAssembler` has words and
instructions, `InterpreterRuntime` the C++ functions the code calls, the frames, the
lookup caches and the heap, `InterpreterMachine` what an instruction does, and
`Interpreters` runs the architectures in lockstep, with preemptions, breakpoints and
collections between any two bytecodes.

**The heaps.** `OldSpace` has words, objects with their size and one pointer, the
bucketed free list and the side tables of `GCMetadata`; marking, sweeping and
compaction take a step per object or card. `TwoSpaceHeap` takes a step per object that a
collection moves; `graph`, the heap as the running code believes it to be, is what the
heap is compared with.

**`Messaging`.** Interpreter thread and event handler thread. What happens under a
lock is a step, the lock-free mailbox is modelled by its single accesses.

**`Session`, `LiveEditing`, `ProgramFolder`, `ObjectMap`, `Snapshot`.** A failing
`ASSERT`, `UNREACHABLE` or `FATAL` is recorded in `failed` and execution goes on, as in a release
build. `Session` abstracts the scheduler to the state of one program. `LiveEditing` takes
the commands a compiler sends and commits them; `ProgramFolder` leaves open in which order
the unstable sort of the ranges leaves equal ones. `Dictionary` is the abstract
specification that `ObjectMap` implements. `Snapshot` writes on one layout and reads on
another.

**`CompactMalloc`, `UartDriver`, `DeviceManager`, `DeviceFlags`.** One core: the interrupt
handler is a step that may come between any two steps of a task. `lost`, `broken` and
`failed` record what the code does wrong, so that a property can say it does not.

`MC...` modules hold the instances. `MCComponents` and `MCMemory` are suites: their `Init`
chooses one component, the others are parked and take no part, so that a suite is as
large as the sum of its components. Definitions whose comment starts with "Mutant" are
variations of the definition after them that a plausible mistake in the code would
produce; they are used by no specification and show that the properties notice.

## 3. Runs

Passing runs:

| Run | Instance | Shows |
|---|---|---|
| `barrier` | 2 processes, 2 preempters | no preemption is lost or hits a deleted process; the marker only goes away by being handled; a process that was asked to stop leaves the barrier |
| `scheduler_life` | 1 program, 2 linked processes, 1 sender | ready queue and states agree; only the interpreter thread has running processes; no wakeup is lost; a program is done exactly when its last process is; ready, woken and signalled processes get their turn; shutdown completes |
| `scheduler_stops` | 2 programs, 3 processes; one program is frozen, the other debugged | no process of a stopped program runs, none is lost or queued twice, processes are moved only with the interpreter out of the way, no notification is slept through, programs change state as documented |
| `scheduler_freeze` | 1 program, 2 processes, 1 sender, 1 freezer | no message to a frozen process is slept through; freeze and unfreeze return |
| `scheduler_interrupt` | 1 debugged program, 2 processes, 1 sender | a debug interrupt returns |
| `components` | suite, see section 4 | the four interpreters agree, keep remembered set and immutability, compute exact smis and reach the right methods; the priority heap and its index; the object map implements `Dictionary`; natives; session; live editing; folding; snapshots |
| `memory` | suite, see section 4 | marking is complete when its stack overflows; both generations keep what is reachable; finalizers; ports, handles and messages; the allocator and the devices of the FreeRTOS port |

Violated properties, each stating what a comment, an assertion or a test of the
repository says, and found violated by what the code does (details under "findings"):

| Run | Code | What happens |
|---|---|---|
| `heap_cancel` | `priority_heap.h:117` | removal by value needs to bubble up as well |
| `groups_new` | `program_groups.cc:16` | the third group created has the id of the first |
| `interpreter_test_unfold` | `interpreter_arm.cc:1597` | an unfolded type test answers true for a class without the method |
| `live_editing` | `session.cc:2254` | an instance copied while old space is walked keeps a pointer to the old schema |
| `object_map` | `object_map.cc:45` | an entry that makes the table grow is linked to the list of the old table |

The passing runs stay clear of these: removals from the middle are left out of
`OrderKept`, `GrowIntoList` is false in the suite, and so on; the comment of each property
says what it leaves out.

The models disagree with the repository's comments and assertions in more places, for
which there is no run. Each is a definition that TLC refutes when it is made a property of
the instance in the suites, or of a scheduler run, with the constants changed as said:

| Statement | Where it fails |
|---|---|
| `DocumentedTransitions` | the last process ends while a debug interrupt has the program in `kSession` (`scheduler.cc:304`; `program.h:97` lists the transitions): `SessionOps` with `"interrupt"`, outcome `Terminated` |
| `InterruptReturns` | a debug interrupt and a breakpoint of the same program wait for each other (`scheduler.cc:640`): outcome `Breakpoint` |
| `FreezeReturns` | a program of the group is done before it is frozen (`scheduler.cc:743`): outcome `Terminated` |
| `DoneMeansDead`, `ProcessesKept` | as for `DocumentedTransitions`: continued by the debugger, the program is running after it is done |
| `StoppedProgramIsQuiet`, `MovesWhenPaused` | two threads that pause the interpreter share `pause_` and the first to finish clears it (`scheduler.cc:393`): `scheduler_stops` with `"interrupt"`, both programs in the group and the outcomes `yield` and `spawn` |
| `InterruptIsNoop` (`Session`) | an interrupt command that arrives late (`session.cc:1269`) |
| `NewChunkFits`, `TracksAreDirty` (`OldSpace`) | the chunk for a promoted object has no room for the header of its track (with `PromotedSizes` 5); a track is recorded before its card is dirty |
| `OldToNewRemembered` (`LiveEditing`) | copies made while the heap is walked are not remembered |
| `DecrementRefIsThreadSafe`, `HandlesAreLive` (`Messaging`) | the lock of a port is released after another thread has deleted it; a signal to a handle whose last reference is gone |
| `ParseChecked` (`Natives`) | `errno` of an earlier call decides |
| `LeftIsPrevious`, `BlocksFit`, `ReallocAnswers` (`CompactMalloc`) | trims and growth of the FreeRTOS allocator (the first with `Sizes` 1, 5 and 12) |
| `ReaderWoken`, `FlagsAreSet` (`UartDriver`) | `SetFlags` sets nothing when one of the flags is set already (`device_manager.cc:12`) |
| `ResultIsRead`, `LookupIsSafe` (`DeviceManager`) | the result of an I2C request; the lookup of a device by name |

## 4. Bounds

Scheduler: two processes are enough for every pair of roles at one process or one
queue (sender and receiver, dying and linked, running and ready); the third one in
`scheduler_stops` belongs to the program that is not frozen and sits between the others in
the queue. One thread of each kind meets every kind of state change. Messages are one
bit per mailbox: the scheduler only asks whether it is empty. All counters are bounded by
the number of processes and need no constraint. A process is spawned once and not
reused. That nothing depends on these numbers is what the proofs add (section 6).

Barrier: two preempters are the fewest that meet in the barrier, two processes the fewest
of which one can be deleted while the other runs.

Suites: the constants are given where the suite instantiates a component.

- Priority heap: five values in three priorities give a heap of three levels, and
  `kMinimumSize` 1 lets it grow and shrink; six values for `heap_cancel`, the fewest for
  which the last entry and another leaf have different parents below the root. Differences
  of priorities fit `IntWidth`.
- Object map: a table of four that grows to eight, ids and addresses that collide in both.
- Natives: words of 5 bits, int64 of 6, int of 5: every operation on every pair, all edges
  of the three widths included. Lists and strings up to two elements.
- Session: six commands, which is enough to pause, continue, interrupt and end in any order.
- Live editing: ten scripts, two of them in an update. Folding: seven classes in three
  hierarchies, eight shapes of rows, two edits.
- Snapshots: bytes of 3 bits, so that every length of an argument occurs; every pair of
  layouts.
- Interpreters: words of 16 bits; the entry points of `MCInterpreter` together execute every
  bytecode and intrinsic, with every answer of natives and of the allocator.
- Old space: two pages, lines of four words, a marking stack of one entry, three objects, two
  collections of each kind. Two-space heap: two processes, two objects, three collections.
- Messaging: two processes, one port, a message and two requests, in two ways to spawn.
- Allocator: two arenas, two live blocks. UART: buffers of two bytes. Devices: five slots, two
  requests.

`scheduler_stops`, `memory` and `live_editing` do not check deadlock: a program that its
debugger has stopped stays so if the debugger never comes back, and the components of a
suite stop at their bounds; in `components` that is a stutter, so that the interpreters,
which never stop, are checked for deadlock.

## 5. Fairness

A thread inside a scheduler operation goes on. It is strongly fair because it takes
`pause_monitor_` or a spinlock, which others hold for bounded times but may take again and
again; neither pthread mutexes nor the spinlocks promise more, but starvation of a thread
for ever is not what the runs ask about. Dart code does not run for ever: the preempter
ticks every 100 ms (`preempter.cc`) and the barrier delivers the tick, which run `barrier`
shows as `PreemptionLands`. That a program yields, sends, ends or meets a breakpoint is never
assumed, nor that an embedder, a debugger or a sender begins an operation. A runner that was
told of the end of its program unschedules it. The suites check safety only.

## 6. Proofs

Two modules of theorems, `InterpretationBarrierProofs` and `SchedulerProofs`; the other
`Scheduler...` modules with proofs hold the lemmas of the second.

### The barrier

For any set of processes and of preempting threads; the only assumption is that `NULL` and
the marker are no processes.

- `BarrierCorrect`: while a process is inside the barrier, either the barrier holds it, or
  exactly one preempter has taken it out and is going to put it back (`BarrierHoldsProcess`).
- `PreemptIsSafe`: a preempter that calls `Preempt()` has a process that is not deleted. This
  is not inductive: it follows because a process that is taken out keeps the interpreter
  thread in `Leave`.
- `MarkersAreTaken`: a step that removes the marker from a stack limit is the stack check that
  handles it; `UpdateStackLimit` never does.

The inductive invariant is `BarrierInv`, type correctness and `BarrierHoldsProcess`.

### The scheduler

For any programs, processes, links, senders, freezing threads, sessions and outcomes. The
assumption `SchedulerConstants` says that the kinds of threads are disjoint, that every
process has a program, a program's main process is its own, and links stay within a program.

| Theorem | States | Under |
|---|---|---|
| `ListsCorrect` | `ReadyList`, `PausedLists` | |
| `OwnersCorrect` | `EnqueuingOwned` | |
| `RunningCorrect` | `RunningOwned` | |
| `WakeupCorrect` | `NoLostWakeup` | |
| `NotifyCorrect` | `NoMissedNotify` | |
| `StopCorrect` | `StoppedProgramIsQuiet` | `OneStopper` |
| `PauseCorrect` | `PausedAndNotified` | `SingleStopper` |
| `TransitionsCorrect` | `DocumentedTransitions` | `EndsUndisturbed` |
| `DoneCorrect` | `DoneMeansDead` | `EndsUndisturbed` |
| `KeptCorrect` | `ProcessesKept` | `EndsUndisturbed` |

`SingleStopper`: at most one thread pauses the interpreter loop, a freezing thread or a session
that interrupts. `OneStopper`: the same, or no program is stopped from outside at all. With two
such threads the code keeps neither property: they share `pause_`, and the first to finish lets
the interpreter run the processes of the program the second is stopping (section 3).
`EndsUndisturbed`: a program that is frozen or interrupted never ends. With interrupts TLC
refutes all three properties for a program that ends meanwhile (section 3). For a program that
is only frozen TLC finds no violation when it ends (run `scheduler_freeze` with the outcome
`Terminated`), and the proof does not cover that case. Run `scheduler_stops` is an instance of
all three hypotheses.

The argument, module by module:

1. `SchedulerInvariant` defines `ListInv`, the inductive invariant everything rests on: the four
   list and owner properties, with the types, the points each kind of thread can be at
   (`Labels`, `FreezersAt`), what the interpreter thread knows about its current process at each
   point (`CurrentAt`) and that nothing happens to a program before it is scheduled (`Scheduled`).
   The list properties alone are not inductive: that a process in `kEnqueuing` is not also in
   the hands of the interpreter thread follows only from where that thread is. The module also
   has the facts about sequences without repetitions (append, tail, removal from the middle)
   and a frame lemma for each conjunct: what a step has to leave alone to keep it.
2. `SchedulerStepProofs` shows that the steps that leave the queues alone keep `ListInv`,
   `SchedulerQueueProofs` the same of those that wake, enqueue, move, dequeue and delete.
3. `SchedulerNotifyProofs`: `WakeInv` strengthens `NoLostWakeup` by what the yielding process may rely
   on between its two tests (`YieldInv`); `NotifyInv` strengthens `NoMissedNotify`.
4. `SchedulerStopProofs`: who holds `pause_monitor_` (`LockInv`), that the interpreter thread is out of the
   way while processes are moved (`PauseInv`), that the processes it has in its hands are of one
   program (`SameProgram`), and that a stopped program nobody is busy with is quiet (`QuietInv`);
   together `StopInv`. A step that stops a program makes its thread busy with it (`GateStep`), and a
   process becomes active only where another one of its program is, or the program is running
   or being resumed (`ActiveStep`). `DownInv`: after shutdown no thread is in
   `FreezeProgramGroup`. `MoveInv`: a session that moves processes holds the monitor, which the
   interpreter thread needs to end its pause.
5. `SchedulerProgramProofs`: `CalmInv` for a program nobody stops from outside: it is in `kSession`
   exactly while its session or the interpreter thread holds it (`HoldInv`), its last process ends
   only when it runs (`ExitInv`), and `processes_` is the number of its processes (`CountInv`, with
   the library's facts about cardinality). `EndlessInv` for a program that is frozen but never ends.

Each of these has one lemma per group of actions and a step that says what such an action may
do (`LockStep`, `PauseStep`, `GateStep`, `HoldStep`, `LifeStep`, `EndlessStep`), so that a conjunct is
proved from that step and not from the action.

### Only model-checked

- Liveness: `PreemptionLands`, `ReadyRuns`, `SleeperRuns`, `SignalledDies`, `ShutdownCompletes`,
  `FreezeReturns`, `InterruptReturns`. The prover does not do fairness.
- The suites. What they check rests on what recursive definitions compute (bubbling in the
  heap, hash lists, execution of instructions, encoding of words, marking), which would need
  induction over data. This includes the refinement of `Dictionary` by `ObjectMap`.

## 7. Not modelled

Preempter start and stop, thread pool, tick sampler, service API, connections, relocation,
FFI, assemblers, the event handlers of other systems, the Dart libraries and the compiler:
the reason for each is under "components". In the modelled parts: `InterpretNestedProcess` and
`FinishedGC` with the reference count of programs (hazard `scheduler.cc:527`), the replies of a
session that print values, natives that format or call the operating system, snapshots of
integers too wide for a portable smi (for which `SnapshotKeepsProgram` does not hold), budgets
that decide when a collection starts. The list of programs is visited in any order, so that a
dangling iterator (`scheduler.cc:792`) cannot show; the group of a freezing thread is fixed
(`scheduler.cc:754`, `770`), and no program of it is debugged (`744`). Memory is sequentially
consistent, as the default order of `Atomic` gives.
