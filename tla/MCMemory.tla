---------------------------- MODULE MCMemory --------------------------------
(* Small instances of what moves memory, messages and bytes: the two generations of
   the heap, ports and processes, and the allocator and the drivers of the FreeRTOS
   build.  Init chooses the component that runs; the others are parked.  README.md
   explains the bounds. *)
EXTENDS Integers, Sequences

CONSTANTS
    Nil,            \* null, and what stands for nothing in each module
    p1, p2          \* processes

VARIABLES
    part,           \* the component that runs
    oldPc, oldSpace, oldRoot, oldRequest, oldGc, oldCounts, oldFailed,
    newMemory, newTop, newLimit, newSpace, newWaterMark, newDirty, newWeak, newProcess,
    newProgram, newOld, newGc, newGraph, newCounts, newFailed,
    msgProc, msgPort, msgDart, msgNamed, msgShown, msgTimeouts, msgListener, msgLost,
    msgDying, msgEvent, msgSerial, msgReceived, msgRequests, msgFailed,
    mallTheheap, mallLive, mallBroken,
    uartReadBuffer, uartWriteBuffer, uartTx, uartDevice, uartQueue, uartSignals,
    uartMutex, uartTask, uartClient, uartLine,
    devDevices, devNextFree, devFlags, devQueue, devI2c, devBus, devSignals, devTask,
    devSemaphore, devButton, devI2cClient, devButtonClient, devFailed

-----------------------------------------------------------------------------
(* The components. *)
Old == INSTANCE OldSpace WITH
    kLineSize <- 4, Regions <- {<<4, 12>>, <<12, 24>>}, Sizes <- {2, 5},
    PromotedSizes <- {2}, kNumberOfBuckets <- 3, kMarkingStackSize <- 1,
    OverflowCards <- 2, Root <- {1, 2}, MaxObjects <- 3, MaxCycles <- 2, pc <- oldPc,
    space <- oldSpace, root <- oldRoot, request <- oldRequest, gc <- oldGc,
    counts <- oldCounts, failed <- oldFailed
OldVars ==
    <<oldPc, oldSpace, oldRoot, oldRequest, oldGc, oldCounts, oldFailed>>

New == INSTANCE TwoSpaceHeap WITH
    Process <- {p1, p2}, NULL <- Nil, SemispaceSize <- 5, OldRoom <- 2, Sizes <- {2},
    ForeignSize <- 1, PageSize <- 1, MaxObjects <- 2, MaxFinalizers <- 1,
    MaxCalls <- 1, MaxOperations <- 2, MaxCollections <- 3, memory <- newMemory,
    top <- newTop, limit <- newLimit, space <- newSpace, waterMark <- newWaterMark,
    dirty <- newDirty, weak <- newWeak, process <- newProcess, program <- newProgram,
    old <- newOld, gc <- newGc, graph <- newGraph, counts <- newCounts,
    failed <- newFailed
NewVars ==
    <<newMemory, newTop, newLimit, newSpace, newWaterMark, newDirty, newWeak,
      newProcess, newProgram, newOld, newGc, newGraph, newCounts, newFailed>>

Msg == INSTANCE Messaging WITH
    Process <- {"main", "child"}, Main <- "main", Port <- {"port"}, NONE <- Nil,
    MaxMessages <- 1, MaxRequests <- 2,
    SpawnedAs <- {{"to child", "from child", "monitor"}, {"argument"}},
    proc <- msgProc, port <- msgPort, dart <- msgDart, named <- msgNamed,
    shown <- msgShown, timeouts <- msgTimeouts, listener <- msgListener,
    lost <- msgLost, dying <- msgDying, event <- msgEvent, serial <- msgSerial,
    received <- msgReceived, requests <- msgRequests, failed <- msgFailed
MsgVars ==
    <<msgProc, msgPort, msgDart, msgNamed, msgShown, msgTimeouts, msgListener, msgLost,
      msgDying, msgEvent, msgSerial, msgReceived, msgRequests, msgFailed>>

Mall == INSTANCE CompactMalloc WITH
    PAGE_SIZE <- 8, HeaderSize <- 1, FreeSize <- 2, Columns <- 2, VirtualBits <- 5,
    Waste <- 4, Memory <- <<<<7, 42, TRUE>>, <<64, 24, FALSE>>>>, Sizes <- {1, 5, 38},
    Alignments <- {0, 4}, MaxLive <- 2, theheap <- mallTheheap, live <- mallLive,
    broken <- mallBroken
MallVars ==
    <<mallTheheap, mallLive, mallBroken>>

Uart == INSTANCE UartDriver WITH
    NoListener <- Nil, kMailQSize <- 1, Capacity <- 2, kTxBlockSize <- 1,
    ReadSize <- 2, MaxIn <- 3, MaxOut <- 4, MaxErrors <- 1,
    readBuffer <- uartReadBuffer, writeBuffer <- uartWriteBuffer, tx <- uartTx,
    device <- uartDevice, queue <- uartQueue, signals <- uartSignals,
    mutex <- uartMutex, task <- uartTask, client <- uartClient, line <- uartLine
UartVars ==
    <<uartReadBuffer, uartWriteBuffer, uartTx, uartDevice, uartQueue, uartSignals,
      uartMutex, uartTask, uartClient, uartLine>>

Dev == INSTANCE DeviceManager WITH
    NoListener <- Nil, NULL <- Nil, kMailQSize <- 2, MaxSlots <- 5, MaxCount <- 1,
    MaxRequests <- 2, MaxPresses <- 1, devices <- devDevices, nextFree <- devNextFree,
    flags <- devFlags, queue <- devQueue, i2c <- devI2c, bus <- devBus,
    signals <- devSignals, task <- devTask, semaphore <- devSemaphore,
    button <- devButton, i2cClient <- devI2cClient, buttonClient <- devButtonClient,
    failed <- devFailed
DevVars ==
    <<devDevices, devNextFree, devFlags, devQueue, devI2c, devBus, devSignals, devTask,
      devSemaphore, devButton, devI2cClient, devButtonClient, devFailed>>

-----------------------------------------------------------------------------
Parked == "parked"

Components ==
    {"old space", "two-space heap", "messaging", "malloc", "uart", "devices"}

SuiteInit ==
    /\ part \in Components
    /\ IF part = "old space" THEN Old!Init
       ELSE oldPc = Parked /\ oldSpace = Parked /\ oldRoot = Parked /\
            oldRequest = Parked /\ oldGc = Parked /\ oldCounts = Parked /\
            oldFailed = Parked
    /\ IF part = "two-space heap" THEN New!HeapInit
       ELSE newMemory = Parked /\ newTop = Parked /\ newLimit = Parked /\
            newSpace = Parked /\ newWaterMark = Parked /\ newDirty = Parked /\
            newWeak = Parked /\ newProcess = Parked /\ newProgram = Parked /\
            newOld = Parked /\ newGc = Parked /\ newGraph = Parked /\
            newCounts = Parked /\ newFailed = Parked
    /\ IF part = "messaging" THEN Msg!Init
       ELSE msgProc = Parked /\ msgPort = Parked /\ msgDart = Parked /\
            msgNamed = Parked /\ msgShown = Parked /\ msgTimeouts = Parked /\
            msgListener = Parked /\ msgLost = Parked /\ msgDying = Parked /\
            msgEvent = Parked /\ msgSerial = Parked /\ msgReceived = Parked /\
            msgRequests = Parked /\ msgFailed = Parked
    /\ IF part = "malloc" THEN Mall!MallocInit
       ELSE mallTheheap = Parked /\ mallLive = Parked /\ mallBroken = Parked
    /\ IF part = "uart" THEN Uart!UartInit
       ELSE uartReadBuffer = Parked /\ uartWriteBuffer = Parked /\ uartTx = Parked /\
            uartDevice = Parked /\ uartQueue = Parked /\ uartSignals = Parked /\
            uartMutex = Parked /\ uartTask = Parked /\ uartClient = Parked /\
            uartLine = Parked
    /\ IF part = "devices" THEN Dev!DevInit
       ELSE devDevices = Parked /\ devNextFree = Parked /\ devFlags = Parked /\
            devQueue = Parked /\ devI2c = Parked /\ devBus = Parked /\
            devSignals = Parked /\ devTask = Parked /\ devSemaphore = Parked /\
            devButton = Parked /\ devI2cClient = Parked /\ devButtonClient = Parked /\
            devFailed = Parked

\* The component that runs takes a step.
SuiteNext ==
    \/ /\ part = "old space" /\ Old!Next
       /\ UNCHANGED <<part, NewVars, MsgVars, MallVars, UartVars, DevVars>>
    \/ /\ part = "two-space heap" /\ New!HeapNext
       /\ UNCHANGED <<part, OldVars, MsgVars, MallVars, UartVars, DevVars>>
    \/ /\ part = "messaging" /\ Msg!Next
       /\ UNCHANGED <<part, OldVars, NewVars, MallVars, UartVars, DevVars>>
    \/ /\ part = "malloc" /\ Mall!MallocNext
       /\ UNCHANGED <<part, OldVars, NewVars, MsgVars, UartVars, DevVars>>
    \/ /\ part = "uart" /\ Uart!UartNext
       /\ UNCHANGED <<part, OldVars, NewVars, MsgVars, MallVars, DevVars>>
    \/ /\ part = "devices" /\ Dev!DevNext
       /\ UNCHANGED <<part, OldVars, NewVars, MsgVars, MallVars, UartVars>>

SuiteVars ==
    <<part, OldVars, NewVars, MsgVars, MallVars, UartVars, DevVars>>

SuiteSpec == SuiteInit /\ [][SuiteNext]_SuiteVars

-----------------------------------------------------------------------------
(* What each component keeps, while it runs. *)

\* When marking ends, all that is reachable is marked, whatever overflowed.
OldSpaceMarked ==
    part = "old space" => Old!MarkingComplete

\* Old space keeps the objects in use and its own structure, through promotion,
\* sweeping and compaction.
OldSpaceKept ==
    part = "old space" => Old!GraphKept /\ Old!SpaceIntact /\ Old!NoAssertFails

\* Scavenges, shared collections and collections of the program heap keep what the
\* processes can reach.
NewSpaceKept ==
    part = "two-space heap" => New!HeapKeepsGraph /\ New!FramesKept /\ New!NoHeapAssertFails

\* Every weak pointer follows its object, and a finalizer runs once, after it died.
FinalizersTracked ==
    part = "two-space heap" => New!WeakPointersTrack

\* Ports and process handles live as long as they are counted, and no longer; nothing
\* uses a port, a handle or a process that was deleted.
PortsKept ==
    part = "messaging" => Msg!PortsCounted /\ Msg!ShutdownClean /\ Msg!NoDeletedUse

\* Messages are received in the order they were sent, and the message that tells of a
\* death comes after all that the process sent.
MessagesInOrder ==
    part = "messaging" => Msg!InOrder /\ Msg!HeardLast

\* The areas of the allocator tile its pages and its free lists hold what is free.
AllocatorSound ==
    part = "malloc" => Mall!HeapWellFormed

\* Bytes through the UART arrive once and in order, and who waits is woken.
UartSound ==
    part = "uart" => Uart!UartDelivers

\* The device table, the I2C bus and the button serve their clients.
DevicesSound ==
    part = "devices" => Dev!DevicesServed

=============================================================================
