---------------------------- MODULE MCComponents ----------------------------
(* Small instances of components that are checked by themselves, and the
   interpreters.  Init chooses the component that runs; the others are parked.
   README.md explains the bounds. *)
EXTENDS MCInterpreter, MCEdits

CONSTANT Nil    \* null, and what stands for nothing in each module

VARIABLES
    part,           \* the component that runs
    heapHeap, heapBacking_size,
    mapById, mapByObject, mapBucket, mapSize, mapResult,
    natList, natString, natErrno, natCall, natAnswer,
    sesState, sesFlags, sesResume, sesMain, sesLoop, sesProgram, sesDebug, sesEvent,
    sesClient, sesToVM, sesToClient, sesFailed,
    editClient, editHeap, editRoots, editProcess, editOptimized, editSession, editAt,
    editRemembered, editCloned, editFailed,
    foldStage, foldProg, foldCode, foldWritten, foldClasses, foldRows, foldFitter,
    foldTable, foldFailed,
    snapStage, snapWriter, snapReader, snapObjects, snapPopular, snapOracle, snapBytes,
    snapMemory, snapFailed

-----------------------------------------------------------------------------
(* The components. *)
Heap == INSTANCE PriorityHeap WITH
    Value <- 1..5, MaxPriority <- 2, kMinimumSize <- 1, IntWidth <- 8,
    Ops <- {"Insert", "RemoveMinimum", "RemoveByValue", "Change"}, heap <- heapHeap,
    backing_size <- heapBacking_size
HeapVars ==
    <<heapHeap, heapBacking_size>>

Map == INSTANCE ObjectMap WITH
    Id <- {0, 1, 4, 8}, Objects <- {20, 28, 22}, NULL <- Nil, Capacity <- 4,
    GrowIntoList <- FALSE, byId <- mapById, byObject <- mapByObject,
    bucket <- mapBucket, size <- mapSize, result <- mapResult
MapVars ==
    <<mapById, mapByObject, mapBucket, mapSize, mapResult>>

Lib == INSTANCE Natives WITH
    WordBits <- 5, LongBits <- 6, IntBits <- 5, Doubles <- -5..5, Units <- {0, 1, 2},
    MaxLength <- 2, list <- natList, string <- natString, errno <- natErrno,
    call <- natCall, answer <- natAnswer
LibVars ==
    <<natList, natString, natErrno, natCall, natAnswer>>

Ses == INSTANCE Session WITH
    Main <- "main", Child <- "child", MaxCommands <- 6, state <- sesState,
    flags <- sesFlags, resume <- sesResume, main <- sesMain, loop <- sesLoop,
    program <- sesProgram, debug <- sesDebug, event <- sesEvent, client <- sesClient,
    toVM <- sesToVM, toClient <- sesToClient, failed <- sesFailed
SesVars ==
    <<sesState, sesFlags, sesResume, sesMain, sesLoop, sesProgram, sesDebug, sesEvent,
      sesClient, sesToVM, sesToClient, sesFailed>>

Edit == INSTANCE LiveEditing WITH
    NULL <- Nil, Edits <- MCEditScripts, MaxChanges <- 2, MaxUpdates <- 1,
    NewSpaceRoom <- 5, client <- editClient, heap <- editHeap, roots <- editRoots,
    process <- editProcess, optimized <- editOptimized, session <- editSession,
    at <- editAt, remembered <- editRemembered, cloned <- editCloned,
    failed <- editFailed
EditVars ==
    <<editClient, editHeap, editRoots, editProcess, editOptimized, editSession, editAt,
      editRemembered, editCloned, editFailed>>

Folder == INSTANCE ProgramFolder WITH
    Programs <- FoldPrograms, Edits <- FoldEdits, kNoSuchMethodTrampoline <- 9,
    INT_MAX <- 100, stage <- foldStage, prog <- foldProg, code <- foldCode,
    written <- foldWritten, classes <- foldClasses, rows <- foldRows,
    fitter <- foldFitter, table <- foldTable, failed <- foldFailed
FolderVars ==
    <<foldStage, foldProg, foldCode, foldWritten, foldClasses, foldRows, foldFitter,
      foldTable, foldFailed>>

Snap == INSTANCE Snapshot WITH
    ByteBits <- 3, Popular <- 3, PopularCoded <- 2, kStatesLog2 <- 2,
    Integer <- {0, 6, -1024, 1023}, MaxElements <- 1, MaxBytes <- 1, MaxDoubles <- 1,
    stage <- snapStage, writer <- snapWriter, reader <- snapReader,
    objects <- snapObjects, popular <- snapPopular, oracle <- snapOracle,
    bytes <- snapBytes, memory <- snapMemory, failed <- snapFailed
SnapVars ==
    <<snapStage, snapWriter, snapReader, snapObjects, snapPopular, snapOracle,
      snapBytes, snapMemory, snapFailed>>

-----------------------------------------------------------------------------
Parked == "parked"

Components ==
    {"interpreters", "priority heap", "object map", "natives", "session",
     "live editing", "folding", "snapshot"}

SuiteInit ==
    /\ part \in Components
    /\ IF part = "interpreters" THEN Init
       ELSE program = Parked /\ m = Parked /\ entry = Parked /\
            interrupts = Parked /\ collections = Parked
    /\ Heap!Init
    /\ Map!Init
    /\ IF part = "natives" THEN Lib!Init
       ELSE natList = Parked /\ natString = Parked /\ natErrno = Parked /\
            natCall = Parked /\ natAnswer = Parked
    /\ IF part = "session" THEN Ses!Init
       ELSE sesState = Parked /\ sesFlags = Parked /\ sesResume = Parked /\
            sesMain = Parked /\ sesLoop = Parked /\ sesProgram = Parked /\
            sesDebug = Parked /\ sesEvent = Parked /\ sesClient = Parked /\
            sesToVM = Parked /\ sesToClient = Parked /\ sesFailed = Parked
    /\ IF part = "live editing" THEN Edit!EditInit
       ELSE editClient = Parked /\ editHeap = Parked /\ editRoots = Parked /\
            editProcess = Parked /\ editOptimized = Parked /\ editSession = Parked /\
            editAt = Parked /\ editRemembered = Parked /\ editCloned = Parked /\
            editFailed = Parked
    /\ IF part = "folding" THEN Folder!Init
       ELSE foldStage = Parked /\ foldProg = Parked /\ foldCode = Parked /\
            foldWritten = Parked /\ foldClasses = Parked /\ foldRows = Parked /\
            foldFitter = Parked /\ foldTable = Parked /\ foldFailed = Parked
    /\ IF part = "snapshot" THEN Snap!SnapInit
       ELSE snapStage = Parked /\ snapWriter = Parked /\ snapReader = Parked /\
            snapObjects = Parked /\ snapPopular = Parked /\ snapOracle = Parked /\
            snapBytes = Parked /\ snapMemory = Parked /\ snapFailed = Parked

\* The component that runs takes a step; all but the interpreters may stop.
SuiteNext ==
    \/ /\ part = "interpreters" /\ Next
       /\ UNCHANGED <<part, HeapVars, MapVars, LibVars, SesVars, EditVars, FolderVars,
                      SnapVars>>
    \/ /\ part = "priority heap" /\ Heap!Next
       /\ UNCHANGED <<part, vars, MapVars, LibVars, SesVars, EditVars, FolderVars,
                      SnapVars>>
    \/ /\ part = "object map" /\ Map!Next
       /\ UNCHANGED <<part, vars, HeapVars, LibVars, SesVars, EditVars, FolderVars,
                      SnapVars>>
    \/ /\ part = "natives" /\ Lib!Next
       /\ UNCHANGED <<part, vars, HeapVars, MapVars, SesVars, EditVars, FolderVars,
                      SnapVars>>
    \/ /\ part = "session" /\ Ses!Next
       /\ UNCHANGED <<part, vars, HeapVars, MapVars, LibVars, EditVars, FolderVars,
                      SnapVars>>
    \/ /\ part = "live editing" /\ Edit!EditNext
       /\ UNCHANGED <<part, vars, HeapVars, MapVars, LibVars, SesVars, FolderVars,
                      SnapVars>>
    \/ /\ part = "folding" /\ Folder!Next
       /\ UNCHANGED <<part, vars, HeapVars, MapVars, LibVars, SesVars, EditVars,
                      SnapVars>>
    \/ /\ part = "snapshot" /\ Snap!SnapNext
       /\ UNCHANGED <<part, vars, HeapVars, MapVars, LibVars, SesVars, EditVars,
                      FolderVars>>
    \/ part # "interpreters" /\ UNCHANGED <<part, vars, HeapVars, MapVars, LibVars, SesVars, EditVars, FolderVars, SnapVars>>

SuiteVars ==
    <<part, vars, HeapVars, MapVars, LibVars, SesVars, EditVars, FolderVars, SnapVars>>

SuiteSpec == SuiteInit /\ [][SuiteNext]_SuiteVars

-----------------------------------------------------------------------------
(* What each component keeps, while it runs. *)

\* The interpreters of the four architectures take every program through the same
\* states, and no generated instruction is ever stuck.
InterpretersAgree ==
    part = "interpreters" => NeverStuck /\ ArchitecturesAgree

\* Between bytecodes the remembered set is complete and immutable objects refer to
\* immutable objects only; interrupts and collections change no result.
InterpretersKeepInvariants ==
    part = "interpreters" => RememberedSetComplete /\ ImmutableIsDeep /\ ResultUndisturbed

\* The hash map of the priority heap mirrors its array, which has room for it.
PriorityHeapIndexed ==
    part = "priority heap" => Heap!IndexMatches /\ Heap!BackingFits

\* Natives answer what Dart promises of integers, doubles, lists and strings.
NativesExact ==
    part = "natives" => Lib!NativesCorrect

\* The debugging session accepts the commands its client sends, a paused session has a
\* stopped program, and a session never hangs half-way.
SessionSound ==
    part = "session" => Ses!CommandsExpected /\ Ses!PausedIsStopped /\ Ses!SessionCompletes

\* After a commit every object that the program reaches has the shape the edits ask for,
\* but for what the order of the walk leaves out; and a folded program calls the methods
\* it called before, and is unfolded into what it was.
EditsApplied ==
    /\ part = "live editing" => Edit!ProgramTransformed
    /\ part = "folding" => Folder!FoldingKeepsCalls

\* A program that is written to a snapshot and read, on either word size, is the same.
SnapshotsRead ==
    part = "snapshot" => Snap!SnapshotKeepsProgram

\* The priority heap keeps its order, but for removals in the middle, and every
\* operation has its effect on the entries and no other.
PriorityHeapOrdered == Heap!OrderKept /\ Heap!EntriesKept

\* The object map of the session acts as a dictionary from ids to objects.
MapActsAsDictionary == Map!ActsAsDictionary

\* A builtin operator on two smis leaves the exact result, or calls the method with
\* both operands in place.
SmiArithmeticExact == [][part = "interpreters" => SmiStepExact]_vars

\* A call enters what the class of the receiver and its superclasses hold, and a test
\* answers whether there is such a method.
CallsReachTheMethod == [][part = "interpreters" => CallStepReaches]_vars

=============================================================================
