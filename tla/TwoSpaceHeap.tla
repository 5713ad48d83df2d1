--------------------------- MODULE TwoSpaceHeap ---------------------------
(***************************************************************************)
(* The heap the processes share: two semispaces and an old space, the      *)
(* scavenge that copies or promotes what new space holds, weak pointers,   *)
(* the budget of foreign memory, and the program collection that moves     *)
(* functions under the frames of the stacks (heap.cc, heap.h,              *)
(* object_memory_copying.cc, weak_pointer.cc, program.cc).                 *)
(*                                                                         *)
(* A pointer is <<space, address>>.  Semispaces are "a" and "b"; the old   *)
(* space is a list of places (OldSpace models how it finds them), the      *)
(* program space a list of functions.  An object has one slot; a stack has *)
(* two, its locals, and a frame in some function.  graph is what the       *)
(* running code believes: the same objects with names in place of          *)
(* addresses.                                                              *)
(***************************************************************************)
EXTENDS Integers, Sequences, FiniteSets, SequencesExt

CONSTANTS
  Process,         \* processes; each has a stack
  NULL,            \* null, or no pointer
  SemispaceSize,   \* words of a semispace
  OldRoom,         \* places old space can have
  Sizes,           \* words an allocated object may take
  ForeignSize,     \* bytes of one piece of foreign memory
  PageSize,        \* kPageSize, the least allocation budget of old space
  MaxObjects,      \* bound: objects allocated
  MaxFinalizers,   \* bound: finalizers registered
  MaxCalls,        \* bound: calls
  MaxOperations,   \* bound: objects, finalizers and calls together
  MaxCollections   \* bound: collections begun

VARIABLES
  memory,     \* pointer -> object
  top,        \* top_ of each semispace
  limit,      \* limit_ of the semispace in use
  space,      \* the semispace in use (space_)
  waterMark,  \* water_mark_
  dirty,      \* places of old space in the remembered set
  weak,       \* list name -> sequence of weak pointers
  process,    \* process -> its stack and whether it is in the interpreter
  program,    \* functions by address; the name of each
  old,        \* budget_ and foreign memory
  gc,         \* the collection under way
  graph,      \* what the code believes: locals, slots, weak pointers
  counts,     \* objects allocated, finalizers, collections begun
  failed      \* assertions that have failed

heapVars == <<memory, top, limit, space, waterMark, dirty, weak, process,
              program, old, gc, graph, counts, failed>>

---------------------------------------------------------------------------
Other(s) == IF s = "a" THEN "b" ELSE "a"

Cell(name, size, slots, frame) ==
  [name |-> name, size |-> size, slots |-> slots, frame |-> frame,
   forward |-> NULL, length |-> NULL]

IsStack(o) == o.frame # NULL

Put(m, p, o) == [q \in DOMAIN m \cup {p} |-> IF q = p THEN o ELSE m[q]]

InFromSpace(p) == p # NULL /\ p[1] = space
InToSpace(p) == p # NULL /\ p[1] = Other(space)

NoGC == [phase |-> "none", toScan |-> <<>>, oldScan |-> <<>>,
         remembered |-> {}, force |-> FALSE, program |-> FALSE,
         chain |-> <<>>, cooked |-> <<>>]

\* Each process starts with a stack of one word in new space, in the first
\* function; there is a second function.
FirstStack(i) == <<"a", i - 1>>

HeapInit ==
  LET order == SetToSeq(Process)
      n == Len(order)
  IN /\ memory = [p \in {FirstStack(i) : i \in 1..n} |->
                    Cell(order[p[2] + 1], 1, <<NULL, NULL>>,
                         [function |-> 1, bcp |-> 0])]
     /\ process = [p \in Process |->
                     [stack |-> FirstStack(CHOOSE i \in 1..n : order[i] = p),
                      running |-> FALSE]]
     /\ top = [s \in {"a", "b"} |-> IF s = "a" THEN n ELSE 0]
     /\ limit = SemispaceSize /\ space = "a" /\ waterMark = 0
     /\ dirty = {} /\ weak = [l \in {"a", "b", "old"} |-> <<>>]
     /\ program = <<"f", "g">>
     /\ old = [budget |-> PageSize, foreign |-> 0]
     /\ gc = NoGC
     /\ graph = [locals |-> [p \in Process |-> <<NULL, NULL>>],
                 slot |-> << >>, weak |-> {}, called |-> <<>>,
                 function |-> [p \in Process |-> <<"f", 0>>]]
     /\ counts = [objects |-> 0, finalizers |-> 0, calls |-> 0,
                  collections |-> 0]
     /\ failed = {}

---------------------------------------------------------------------------
(* Allocation. *)

OldPlaces == {p \in DOMAIN memory : p[1] = "old"}

\* OldSpace::Allocate: a place, or 0.
FreePlaces == {i \in 1..OldRoom : <<"old", i>> \notin DOMAIN memory}

Mutator == gc.phase = "none"
Unspent == counts.objects + counts.finalizers + counts.calls < MaxOperations
Stack(p) == memory[process[p].stack]
SetLocals(m, p, locals) == [m EXCEPT ![process[p].stack].slots = locals]

\* One bigger than needed: there is room for the sentinel.
Fits(size) == limit - top[space] > size

\* Process p allocates: SemiSpace::TryAllocate, or for a large object
\* HandleAllocationFailure, which marks the object dirty.  The new object
\* becomes p's first local, with no write barrier.
Allocated(p, place, size) ==
  LET name == counts.objects + 1
      local == Stack(p).slots
  IN /\ memory' = SetLocals(Put(memory, place, Cell(name, size, <<NULL>>, NULL)),
                            p, <<place, local[2]>>)
     /\ graph' = [graph EXCEPT
          !.locals[p] = <<name, @[2]>>,
          !.slot = Append(@, NULL)]
     /\ counts' = [counts EXCEPT !.objects = name]

MayAllocate(p) ==
  Mutator /\ process[p].running /\ counts.objects < MaxObjects /\ Unspent

Allocate(p, size) ==
  /\ MayAllocate(p) /\ Fits(size)
  /\ Allocated(p, <<space, top[space]>>, size)
  /\ top' = [top EXCEPT ![space] = @ + size]
  /\ UNCHANGED <<limit, space, waterMark, dirty, weak, process, program, old,
                 gc, failed>>

AllocateLarge(p, size) ==
  /\ MayAllocate(p) /\ ~Fits(size)
  /\ size >= SemispaceSize \div 2
  /\ \E i \in FreePlaces :
       /\ \A j \in FreePlaces : i <= j
       /\ Allocated(p, <<"old", i>>, size)
       /\ dirty' = dirty \cup {i}
  /\ UNCHANGED <<top, limit, space, waterMark, weak, process, program, old, gc,
                 failed>>

\* AddWeakPointer and AddExternalWeakPointer: the list of its space.
ListOf(o) == IF o[1] = space THEN space ELSE "old"

Register(o, kind) ==
  /\ counts.finalizers < MaxFinalizers /\ Unspent
  /\ counts' = [counts EXCEPT !.finalizers = @ + 1]
  /\ weak' = [weak EXCEPT ![ListOf(o)] = Append(@, <<o, kind>>)]
  /\ graph' = [graph EXCEPT !.weak = @ \cup {<<memory[o].name, kind>>}]

\* ForeignMarkForFinalization of the object in p's first local, as its
\* constructor does.  TriggerGCSoon moves the limit.
ForeignMarkForFinalization(p) ==
  /\ Mutator /\ process[p].running
  /\ LET o == Stack(p).slots[1]
     IN /\ o # NULL /\ memory[o].length = NULL
        /\ memory' = [memory EXCEPT ![o].length = ForeignSize]
        /\ Register(o, "foreign")
  /\ old' = [budget |-> old.budget - ForeignSize,
             foreign |-> old.foreign + ForeignSize]
  /\ limit' = IF old'.budget <= 0 THEN top[space] + 1 ELSE limit
  /\ UNCHANGED <<top, space, waterMark, dirty, process, program, gc, failed>>

\* ForeignMemory.free: FreedForeignMemory, and the length becomes 0; the weak
\* pointer stays.
ForeignDecreaseMemoryUsage(p) ==
  /\ Mutator /\ process[p].running
  /\ LET o == Stack(p).slots[1]
     IN /\ o # NULL /\ memory[o].length = ForeignSize
        /\ memory' = [memory EXCEPT ![o].length = 0]
  /\ old' = [budget |-> old.budget + ForeignSize,
             foreign |-> old.foreign - ForeignSize]
  /\ UNCHANGED <<top, limit, space, waterMark, dirty, weak, process, program,
                 gc, graph, counts, failed>>

ForeignRegisterFinalizer(p) ==
  /\ Mutator /\ process[p].running
  /\ LET o == Stack(p).slots[1]
     IN /\ o # NULL /\ <<memory[o].name, "external">> \notin graph.weak
        /\ Register(o, "external")
  /\ UNCHANGED <<memory, top, limit, space, waterMark, dirty, process, program,
                 old, gc, failed>>

ForeignRemoveFinalizer(p) ==
  /\ Mutator /\ process[p].running
  /\ LET o == Stack(p).slots[1]
         entry == <<o, "external">>
     IN /\ o # NULL /\ entry \in ToSet(weak[ListOf(o)])
        /\ weak' = [weak EXCEPT ![ListOf(o)] =
                      SelectSeq(@, LAMBDA w : w # entry)]
        /\ graph' = [graph EXCEPT !.weak = @ \ {<<memory[o].name, "external">>}]
  /\ UNCHANGED <<memory, top, limit, space, waterMark, dirty, process, program,
                 old, gc, counts, failed>>

---------------------------------------------------------------------------
(* Running code. *)

Remember(p) == IF p # NULL /\ p[1] = "old" THEN {p[2]} ELSE {}

\* Interpreter::Run: the stack is put in the remembered set.
Run(p) ==
  /\ Mutator /\ process[p].stack # NULL
  /\ \A q \in Process : ~process[q].running
  /\ process' = [process EXCEPT ![p].running = TRUE]
  /\ dirty' = dirty \cup Remember(process[p].stack)
  /\ UNCHANGED <<memory, top, limit, space, waterMark, weak, program, old, gc,
                 graph, counts, failed>>

\* The process yields, or it ends and its stack is not a root any more.
Yield(p) ==
  /\ Mutator /\ process[p].running
  /\ \E stack \in {process[p].stack, NULL} :
       process' = [process EXCEPT ![p] = [stack |-> stack, running |-> FALSE]]
  /\ UNCHANGED <<memory, top, limit, space, waterMark, dirty, weak, program,
                 old, gc, graph, counts, failed>>

\* A move between locals (no barrier), a load, or both locals cleared.
Move(p) ==
  /\ Mutator /\ process[p].running
  /\ LET s == Stack(p).slots
         g == graph.locals[p]
     IN \/ /\ memory' = SetLocals(memory, p, <<s[1], s[1]>>)
           /\ graph' = [graph EXCEPT !.locals[p] = <<g[1], g[1]>>]
        \/ /\ s[2] # NULL
           /\ memory' = SetLocals(memory, p, <<memory[s[2]].slots[1], s[2]>>)
           /\ graph' = [graph EXCEPT !.locals[p] = <<graph.slot[g[2]], g[2]>>]
        \/ /\ memory' = SetLocals(memory, p, <<NULL, NULL>>)
           /\ graph' = [graph EXCEPT !.locals[p] = <<NULL, NULL>>]
  /\ UNCHANGED <<top, limit, space, waterMark, dirty, weak, process, program,
                 old, gc, counts, failed>>

\* local 2 . slot := local 1, with the write barrier.
Store(p) ==
  /\ Mutator /\ process[p].running
  /\ LET s == Stack(p).slots
         g == graph.locals[p]
     IN /\ s[2] # NULL
        /\ memory' = [memory EXCEPT ![s[2]].slots[1] = s[1]]
        /\ graph' = [graph EXCEPT !.slot[g[2]] = g[1]]
        /\ dirty' = dirty \cup (IF InFromSpace(s[1]) THEN Remember(s[2]) ELSE {})
  /\ UNCHANGED <<top, limit, space, waterMark, weak, process, program, old, gc,
                 counts, failed>>

\* A call: the frame is in the other function, past its first byte code.
Call(p) ==
  /\ Mutator /\ process[p].running /\ counts.calls < MaxCalls /\ Unspent
  /\ counts' = [counts EXCEPT !.calls = @ + 1]
  /\ LET f == 3 - Stack(p).frame.function
     IN /\ memory' = [memory EXCEPT ![process[p].stack].frame =
                        [function |-> f, bcp |-> 1]]
        /\ graph' = [graph EXCEPT !.function[p] = <<program[f], 1>>]
  /\ UNCHANGED <<top, limit, space, waterMark, dirty, weak, process, program,
                 old, gc, failed>>

---------------------------------------------------------------------------
(* CollectNewSpace.  Objects that die at once are not modelled, so that    *)
(* new space may be full at any moment.                                    *)

CollectOldSpaceIfNeeded(force) ==
  IF force \/ old.budget <= 0 THEN "old" ELSE "done"

Collects(g) ==
  /\ top' = IF top[space] > 0 THEN [top EXCEPT ![Other(space)] = 0] ELSE top
  /\ gc' = [g EXCEPT !.remembered = dirty,
                     !.phase = IF top[space] > 0 THEN "roots"
                               ELSE CollectOldSpaceIfNeeded(FALSE)]

CollectNewSpace ==
  /\ Mutator /\ counts.collections < MaxCollections
  /\ \E p \in Process : process[p].running
  /\ counts' = [counts EXCEPT !.collections = @ + 1]
  /\ Collects(NoGC)
  /\ UNCHANGED <<memory, limit, space, waterMark, dirty, weak, process,
                 program, old, graph, failed>>

\* Where the object at p goes.  A survivor of an earlier scavenge is
\* promoted, unless old space is full.
Promotes(p) == p[2] < waterMark

CloneInToSpace(m, t, p) ==
  LET free == {i \in 1..OldRoom : <<"old", i>> \notin DOMAIN m}
  IN IF Promotes(p) /\ free # {}
     THEN <<"old", CHOOSE i \in free : \A j \in free : i <= j>>
     ELSE <<Other(space), t[Other(space)]>>

\* VisitBlock: pointer p visited in state v = [memory, top, gc].
Visit(v, p) ==
  IF ~InFromSpace(p) \/ v.memory[p].forward # NULL THEN v
  ELSE LET d == CloneInToSpace(v.memory, v.top, p)
           o == v.memory[p]
       IN [memory |-> [Put(v.memory, d, o) EXCEPT ![p].forward = d],
           top |-> IF d[1] = "old" THEN v.top
                   ELSE [v.top EXCEPT ![d[1]] = @ + o.size],
           gc |-> IF d[1] = "old" THEN [v.gc EXCEPT !.oldScan = Append(@, d)]
                  ELSE [v.gc EXCEPT !.toScan = Append(@, d),
                                    !.force = @ \/ Promotes(p)]]

NewPlace(m, p) == IF InFromSpace(p) THEN m[p].forward ELSE p

Visiting == [memory |-> memory, top |-> top, gc |-> gc]

\* A slip: the first pointer that is not into from-space ends the visit of a block.
VisitObjectStops(v0, p) ==
  LET s == v0.memory[p].slots
      other == SelectInSeq(s, LAMBDA q : ~InFromSpace(q))
      n == IF other = 0 THEN Len(s) ELSE other - 1
      v == FoldLeft(Visit, v0, SubSeq(s, 1, n))
  IN [v EXCEPT !.memory[p].slots =
        [i \in DOMAIN @ |-> IF i <= n THEN NewPlace(v.memory, @[i]) ELSE @[i]]]

\* IteratePointers of the object at p; its slots are updated.
VisitObject(v0, p) ==
  LET v == FoldLeft(Visit, v0, v0.memory[p].slots)
  IN [v EXCEPT !.memory[p].slots =
        [i \in DOMAIN @ |-> NewPlace(v.memory, @[i])]]

\* record_: whether the object at p points to to-space afterwards.
HasNewPointers(m, p) == \E i \in DOMAIN m[p].slots : InToSpace(m[p].slots[i])

Becomes(v) == memory' = v.memory /\ top' = v.top /\ gc' = v.gc

\* IterateSharedHeapRoots: the stacks of the processes, in order.
IterateSharedHeapRoots ==
  /\ gc.phase = "roots"
  /\ LET v == FoldLeft(Visit, Visiting,
                       [i \in 1..Cardinality(Process) |->
                          process[SetToSeq(Process)[i]].stack])
     IN /\ Becomes([v EXCEPT !.gc.phase = "remembered"])
        /\ process' = [p \in Process |->
             [process[p] EXCEPT !.stack = NewPlace(v.memory, @)]]
  /\ UNCHANGED <<limit, space, waterMark, dirty, weak, program, old, graph,
                 counts, failed>>

\* VisitRememberedSet: an object stays in the set if it still points to new
\* space.
VisitRememberedSet ==
  /\ gc.phase = "remembered"
  /\ \/ /\ gc.remembered = {}
        /\ gc' = [gc EXCEPT !.phase = "scan to"]
        /\ UNCHANGED <<memory, top, dirty>>
     \/ \E i \in gc.remembered :
          LET p == <<"old", i>>
              v == VisitObject(Visiting, p)
          IN /\ \A k \in gc.remembered : i <= k
             /\ Becomes([v EXCEPT !.gc.remembered = @ \ {i}])
             /\ dirty' = (dirty \ {i})
                  \cup (IF HasNewPointers(v.memory, p) THEN {i} ELSE {})
  /\ UNCHANGED <<limit, space, waterMark, weak, process, program, old, graph,
                 counts, failed>>

\* SemiSpace::CompleteScavengeGenerational: the objects copied so far.
ScanToSpace ==
  /\ gc.phase = "scan to"
  /\ IF gc.toScan = <<>>
     THEN gc' = [gc EXCEPT !.phase = "scan old"] /\ UNCHANGED <<memory, top>>
     ELSE Becomes(VisitObject([Visiting EXCEPT !.gc.toScan = Tail(@)],
                              Head(gc.toScan)))
  /\ UNCHANGED <<limit, space, waterMark, dirty, weak, process, program, old,
                 graph, counts, failed>>

\* OldSpace::CompleteScavengeGenerational: the objects promoted so far.
ScanPromoted ==
  /\ gc.phase = "scan old"
  /\ IF gc.oldScan = <<>>
     THEN /\ gc' = [gc EXCEPT !.phase =
                      IF gc.toScan = <<>> THEN "weak" ELSE "scan to"]
          /\ UNCHANGED <<memory, top, dirty>>
     ELSE LET p == Head(gc.oldScan)
              v == VisitObject([Visiting EXCEPT !.gc.oldScan = Tail(@)], p)
          IN /\ Becomes(v)
             /\ dirty' = IF HasNewPointers(v.memory, p)
                         THEN dirty \cup {p[2]} ELSE dirty
  /\ UNCHANGED <<limit, space, waterMark, weak, process, program, old, graph,
                 counts, failed>>

\* The callbacks of the weak pointers in died.  FinalizeForeign reads the
\* length in the dead object.
Freed(died) ==
  FoldLeft(LAMBDA n, w : IF w[2] = "foreign" THEN n + memory[w[1]].length ELSE n,
           0, died)

Invoked(died) ==
  graph' = [graph EXCEPT
    !.weak = @ \ {<<memory[w[1]].name, w[2]>> : w \in ToSet(died)},
    !.called = @ \o [i \in DOMAIN died |->
                      <<memory[died[i][1]].name, died[i][2]>>]]

Forwarded(live) == [i \in DOMAIN live |-> <<memory[live[i][1]].forward, live[i][2]>>]
\* A slip: survivors change lists, and keep the address they had.
MovedToStale(live, l) == SelectSeq(live, LAMBDA w : memory[w[1]].forward[1] = l)
MovedTo(live, l) == SelectSeq(Forwarded(live), LAMBDA w : w[1][1] = l)

\* The survivors go to the list of their new space.
ProcessAndMoveSurvivors ==
  /\ gc.phase = "weak"
  /\ LET alive(w) == memory[w[1]].forward # NULL
         live == SelectSeq(weak[space], alive)
         died == SelectSeq(weak[space], LAMBDA w : ~alive(w))
     IN /\ weak' = [l \in DOMAIN weak |->
                      IF l = space THEN <<>> ELSE weak[l] \o MovedTo(live, l)]
        /\ Invoked(died)
        /\ old' = [budget |-> old.budget + Freed(died),
                   foreign |-> old.foreign - Freed(died)]
  /\ gc' = [gc EXCEPT !.phase = "swap"]
  /\ UNCHANGED <<memory, top, limit, space, waterMark, dirty, process, program,
                 counts, failed>>

\* Nothing of the space left behind can be used any more.
SwapSemiSpaces ==
  /\ gc.phase = "swap"
  /\ memory' = [p \in {q \in DOMAIN memory : q[1] # space} |-> memory[p]]
  /\ space' = Other(space)
  /\ waterMark' = top[Other(space)]
  /\ limit' = SemispaceSize
  /\ gc' = [gc EXCEPT !.phase = CollectOldSpaceIfNeeded(gc.force)]
  /\ UNCHANGED <<top, dirty, weak, process, program, old, graph, counts,
                 failed>>

\* HandleGC: the running process' stack is put back in the remembered set.
HandleGC ==
  /\ gc.phase = "done" /\ ~gc.program
  /\ dirty' = dirty \cup UNION {Remember(process[p].stack) :
                                  p \in {q \in Process : process[q].running}}
  /\ gc' = NoGC
  /\ UNCHANGED <<memory, top, limit, space, waterMark, weak, process, program,
                 old, graph, counts, failed>>

---------------------------------------------------------------------------
(* PerformSharedGarbageCollection: marking and sweeping old space. *)

RECURSIVE Marked(_)
Marked(S) ==
  LET more == S \cup UNION {ToSet(memory[p].slots) \ {NULL} :
                             p \in S \cap DOMAIN memory}
  IN IF more = S THEN S ELSE Marked(more)

Live == Marked({process[p].stack : p \in Process} \ {NULL})

\* What dies in old space is called back and swept; objects of new space
\* stay, dead or alive.
PerformSharedGarbageCollection ==
  /\ gc.phase \in {"old", "prepare"}
  /\ LET live == Live
         died == SelectSeq(weak["old"], LAMBDA w : w[1] \notin live)
     IN /\ memory' = [p \in {q \in DOMAIN memory : q[1] # "old" \/ q \in live}
                        |-> memory[p]]
        /\ dirty' = {i \in dirty : <<"old", i>> \in live}
        /\ weak' = [weak EXCEPT !["old"] =
                      SelectSeq(@, LAMBDA w : w[1] \in live)]
        /\ Invoked(died)
        \* AdjustOldAllocationBudget.
        /\ LET foreign == old.foreign - Freed(died)
               used == Cardinality({p \in DOMAIN memory' : p[1] = "old"})
           IN old' = [budget |-> used + foreign + PageSize,
                      foreign |-> foreign]
  /\ gc' = [gc EXCEPT !.phase = IF @ = "old" THEN "done" ELSE "program new"]
  /\ UNCHANGED <<top, limit, space, waterMark, process, program, counts,
                 failed>>

---------------------------------------------------------------------------
(* The program collection: functions move. *)

\* Program::CollectGarbage, first PrepareProgramGC.
CollectGarbage ==
  /\ Mutator /\ counts.collections < MaxCollections
  /\ \A p \in Process : ~process[p].running
  /\ counts' = [counts EXCEPT !.collections = @ + 1]
  /\ gc' = [NoGC EXCEPT !.phase = "prepare", !.program = TRUE]
  /\ UNCHANGED <<memory, top, limit, space, waterMark, dirty, weak, process,
                 program, old, graph, failed>>

PrepareNewSpace ==
  /\ gc.phase = "program new"
  /\ Collects(gc)
  /\ UNCHANGED <<memory, limit, space, waterMark, dirty, weak, process,
                 program, old, graph, counts, failed>>

\* CollectMutableGarbageAndChainStacks chains the stacks it marks; then
\* CookStacks replaces the byte code pointer of each frame by its function
\* and keeps the distance aside.
CookStacks ==
  /\ gc.phase = "done" /\ gc.program
  /\ LET live == Live
         chain == SetToSeq({p \in live : IsStack(memory[p])})
     IN /\ gc' = [gc EXCEPT !.phase = "copy", !.chain = chain,
                            !.cooked = [i \in DOMAIN chain |->
                                          memory[chain[i]].frame.bcp]]
        /\ memory' = [p \in DOMAIN memory |->
                        IF p \in ToSet(chain)
                        THEN [memory[p] EXCEPT !.frame.bcp = NULL]
                        ELSE memory[p]]
        \* It compacts, and is to find no garbage.
        /\ failed' = IF DOMAIN memory \subseteq live THEN failed
                     ELSE failed \cup {"garbage"}
  /\ UNCHANGED <<top, limit, space, waterMark, dirty, weak, process, program,
                 old, graph, counts>>

\* PerformProgramGC copies the functions, in the order they are met, and
\* visits every stack of the process heap as a cooked one.
PerformProgramGC ==
  /\ gc.phase = "copy"
  /\ LET stacks == {p \in DOMAIN memory : IsStack(memory[p])}
     IN \E place \in [DOMAIN program -> DOMAIN program] :
          /\ IsInjective(place)
          /\ program' = [i \in DOMAIN program |->
                          program[CHOOSE f \in DOMAIN place : place[f] = i]]
          /\ memory' = [p \in DOMAIN memory |->
                          IF p \in stacks
                          THEN [memory[p] EXCEPT !.frame.function = place[@]]
                          ELSE memory[p]]
          /\ failed' = IF \A p \in stacks : memory[p].frame.bcp = NULL
                       THEN failed ELSE failed \cup {"uncooked"}
  /\ gc' = [gc EXCEPT !.phase = "uncook"]
  /\ UNCHANGED <<top, limit, space, waterMark, dirty, weak, process, old,
                 graph, counts>>

\* FinishProgramGC: UncookAndUnchainStacks.
UncookAndUnchainStacks ==
  /\ gc.phase = "uncook"
  /\ memory' = [p \in DOMAIN memory |->
                  IF p \in ToSet(gc.chain)
                  THEN [memory[p] EXCEPT !.frame.bcp =
                          gc.cooked[CHOOSE i \in DOMAIN gc.chain :
                                      gc.chain[i] = p]]
                  ELSE memory[p]]
  /\ gc' = NoGC
  /\ UNCHANGED <<top, limit, space, waterMark, dirty, weak, process, program,
                 old, graph, counts, failed>>

\* ~TwoSpaceHeap: ForceCallbacks, once the processes are gone.
DeleteHeap ==
  /\ Mutator /\ \A p \in Process : process[p].stack = NULL
  /\ LET all == weak["old"] \o weak[space]
     IN /\ Invoked(all)
        /\ old' = [old EXCEPT !.foreign = @ - Freed(all)]
        /\ failed' = IF old'.foreign = 0 THEN failed
                     ELSE failed \cup {"foreign_memory_ == 0"}
  /\ weak' = [l \in DOMAIN weak |-> <<>>]
  /\ gc' = [NoGC EXCEPT !.phase = "deleted"]
  /\ UNCHANGED <<memory, top, limit, space, waterMark, dirty, process, program,
                 counts>>

---------------------------------------------------------------------------
HeapNext ==
  \/ \E p \in Process :
       \/ \E size \in Sizes : Allocate(p, size) \/ AllocateLarge(p, size)
       \/ ForeignMarkForFinalization(p) \/ ForeignDecreaseMemoryUsage(p)
       \/ ForeignRegisterFinalizer(p) \/ ForeignRemoveFinalizer(p)
       \/ Run(p) \/ Yield(p) \/ Move(p) \/ Store(p) \/ Call(p)
  \/ CollectNewSpace \/ IterateSharedHeapRoots \/ VisitRememberedSet
  \/ ScanToSpace \/ ScanPromoted \/ ProcessAndMoveSurvivors
  \/ SwapSemiSpaces \/ HandleGC
  \/ PerformSharedGarbageCollection
  \/ CollectGarbage \/ PrepareNewSpace \/ CookStacks \/ PerformProgramGC
  \/ UncookAndUnchainStacks
  \/ DeleteHeap

---------------------------------------------------------------------------
(* Properties. *)

Name(p) == IF p = NULL THEN NULL ELSE memory[p].name

\* The code finds at every address it can reach the object it put there:
\* whatever scavenges, promotions, failed promotions and sweeps have done,
\* the locals of every process and the slots of every object it reaches
\* hold the objects the code last stored in them.
HeapKeepsGraph ==
  Mutator =>
    \A p \in Live :
      /\ p \in DOMAIN memory
      /\ \A i \in DOMAIN memory[p].slots :
           memory[p].slots[i] \in DOMAIN memory \cup {NULL}
      /\ IF IsStack(memory[p])
         THEN [i \in {1, 2} |-> Name(memory[p].slots[i])]
                = graph.locals[memory[p].name]
         ELSE Name(memory[p].slots[1]) = graph.slot[memory[p].name]

\* Every weak pointer refers to the present address of its object, in the
\* list of the space the object is in; a callback comes at most once and
\* never for an object the code can still reach; the foreign memory that is
\* accounted for is that of the objects with a finalizer.
WeakPointersTrack ==
  Mutator =>
    LET all == weak["a"] \o weak["b"] \o weak["old"]
    IN /\ \A l \in DOMAIN weak : \A w \in ToSet(weak[l]) :
            w[1][1] = l /\ w[1] \in DOMAIN memory
       /\ {<<Name(w[1]), w[2]>> : w \in ToSet(all)} = graph.weak
       /\ Len(all) = Cardinality(graph.weak)
       /\ old.foreign = Freed(all)
       /\ IsInjective(graph.called)
       /\ \A p \in Live : \A i \in DOMAIN graph.called :
            Name(p) # graph.called[i][1]

\* A frame is still in its function, at its byte code, after the functions
\* moved.
FramesKept ==
  Mutator =>
    \A p \in Process : process[p].stack # NULL =>
      <<program[Stack(p).frame.function], Stack(p).frame.bcp>>
        = graph.function[p]

\* To-space always has room for what is copied, a program collection finds
\* no floating garbage stacks, and no foreign memory is left at the end.
NoHeapAssertFails ==
  /\ top[Other(space)] < SemispaceSize /\ top[space] < SemispaceSize
  /\ failed = {}

HeapCorrect ==
  HeapKeepsGraph /\ WeakPointersTrack /\ FramesKept /\ NoHeapAssertFails
=============================================================================
