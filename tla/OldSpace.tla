------------------------------ MODULE OldSpace ------------------------------
(***************************************************************************)
(* The old generation of the process heap, word by word: bump allocation,  *)
(* the bucketed free list, the side tables of GCMetadata (object starts,   *)
(* remembered set, mark bits, destinations), the promoted tracks of a      *)
(* scavenge, marking with a bounded stack, and the two collectors that     *)
(* take turns, sweeping and compacting.                                    *)
(*                                                                         *)
(* Addresses are word numbers and 0 is NULL.  A line is a card: both are   *)
(* 32 words in the code and kLineSize words here.  An object has one       *)
(* pointer field; New stands for a pointer to an object of the new         *)
(* generation that has no pointers itself.  Every object has a weak        *)
(* pointer, so that the callbacks can be followed.                         *)
(***************************************************************************)
EXTENDS Integers, Sequences, FiniteSets, FiniteSetsExt, SequencesExt, TLC

CONSTANTS kLineSize,          \* words of a line and of a card
          Regions,            \* <<start, end>> of the pages the platform has
          Sizes,              \* words of the objects that are allocated
          PromotedSizes,      \* words of the objects that are promoted
          kNumberOfBuckets,
          kMarkingStackSize,
          OverflowCards,      \* cards of one byte of overflow bits
          Root,
          MaxObjects, MaxCycles

VARIABLES pc,         \* what the collector, or Allocate, is doing
          space,      \* the fields and the side tables of the old space
          root,       \* the roots of the processes
          request,    \* the allocation in progress
          gc,         \* the locals of the scavenge or the collection
          counts,     \* objects, scavenges and collections so far
          failed      \* the assertions that failed

oldVars == <<pc, space, root, request, gc, counts, failed>>

NULL == 0
New == -1
NoEndFound == -2
kFreeListChunkSize == 3
kHeaderSize == 3

Line(a) == (a \div kLineSize) * kLineSize
RoundUp(a) == Line(a + kLineSize - 1)
HighestBit(n) == CHOOSE b \in 0..8 : 2 ^ b <= n /\ n < 2 ^ (b + 1)
Words(a, b) == a..(b - 1)

(* Space::Append keeps the chunks in address order; the last word of a     *)
(* chunk is its sentinel.                                                  *)
ChunkList(s) == SetToSortSeq(s.chunks, LAMBDA c, d : c[1] < d[1])
usable_end(c) == c[2] - 1
Lines(c) == {l \in Words(c[1], c[2]) : l % kLineSize = 0}
ChunkOf(s, a) == CHOOSE c \in s.chunks : a \in Words(c[1], c[2])
IsObject(s, a) == a \in DOMAIN s.mem /\ s.mem[a].kind = "object"
Objects(s) == {a \in DOMAIN s.mem : s.mem[a].kind = "object"}
Size(s, a) == s.mem[a].size

NoGC == [marks |-> {}, stack |-> <<>>, overflowed |-> FALSE, overflow |-> {},
         todo |-> <<>>, at |-> NULL, card |-> NULL, earliest |-> NULL,
         chunk |-> <<>>, src |-> NULL, srcStart |-> NULL, table |-> <<>>,
         destChunk |-> <<>>, dest |-> NULL, limit |-> NULL, top |-> <<>>,
         to |-> <<>>, freeStart |-> NULL, before |-> <<>>, back |-> "run"]

NoRequest == [size |-> 0, field |-> NULL, root |-> NULL, ref |-> NULL, fresh |-> FALSE]

Init ==
  /\ pc = "run"
  /\ space = [chunks |-> {}, mem |-> <<>>, top |-> NULL, limit |-> NULL,
              free |-> [b \in Words(0, kNumberOfBuckets) |-> <<>>],
              starts |-> <<>>, dirty |-> {}, tracks |-> <<>>,
              tracking |-> FALSE, compacting |-> TRUE, used |-> 0, weak |-> {}]
  /\ root = [r \in Root |-> NULL]
  /\ request = NoRequest
  /\ gc = NoGC
  /\ counts = [objects |-> 0, cycles |-> 0]
  /\ failed = {}

Check(name, holds) == failed' = IF holds THEN failed ELSE failed \cup {name}

-----------------------------------------------------------------------------
(* The free list                                                           *)

(* Memory that held other things becomes one thing.                        *)
Overwrite(mem, a, b, f) ==
  [x \in (DOMAIN mem \ Words(a, b)) \cup DOMAIN f |->
     IF x \in DOMAIN f THEN f[x] ELSE mem[x]]

Fillers(a, n) == [x \in Words(a, a + n) |-> [kind |-> "filler", size |-> 1, ref |-> NULL]]
FreeChunk(a, n) == [x \in {a} |-> [kind |-> "free", size |-> n, ref |-> NULL]]

AddChunk(s, start, n) ==
  IF n < kFreeListChunkSize
  THEN [s EXCEPT !.mem = Overwrite(@, start, start + n, Fillers(start, n))]
  ELSE LET b == Min({HighestBit(n) - 1, kNumberOfBuckets - 1}) IN
       [s EXCEPT !.mem = Overwrite(@, start, start + n, FreeChunk(start, n)),
                 !.free[b] = <<start>> \o @]

(* GetChunk: the largest bucket that is sure to do, else a search of the   *)
(* bucket below.  <<bucket, position>>, or <<>>.                           *)
GetChunk(s, n) ==
  LET smallest == HighestBit(n)
      sure == {b \in Words(smallest, kNumberOfBuckets) : s.free[b] # <<>>}
      below == Min({smallest, kNumberOfBuckets}) - 1
      fits == {i \in DOMAIN s.free[below] : Size(s, s.free[below][i]) >= n}
  IN IF sure # {} THEN <<Max(sure), 1>>
     ELSE IF fits # {} THEN <<below, Min(fits)>> ELSE <<>>

ClearFreeList(s) == [s EXCEPT !.free = [b \in DOMAIN @ |-> <<>>]]

-----------------------------------------------------------------------------
(* Allocation                                                              *)

RecordStart(s, a) ==
  [s EXCEPT !.starts = [l \in DOMAIN @ \cup {Line(a)} |-> IF l = Line(a) THEN a ELSE @[l]]]

InsertIntoRememberedSet(s, a) == [s EXCEPT !.dirty = @ \cup {Line(a)}]

(* Flush: what is left of the allocation area goes to the free list, and   *)
(* the newest promoted track ends where allocation stopped.                *)
Flush(s) ==
  IF s.top = NULL THEN s
  ELSE LET freed == AddChunk(s, s.top, s.limit - s.top)
           tracked == IF s.tracking /\ s.tracks # <<>>
                      THEN [freed EXCEPT !.tracks[1].end = s.top,
                                         !.mem[s.tracks[1].at].size = s.top - s.tracks[1].at]
                      ELSE freed
       IN [tracked EXCEPT !.top = NULL, !.limit = NULL, !.used = @ - (s.limit - s.top)]

(* PromotedTrack::Initialize at the start of an area that is taken while   *)
(* allocations are tracked.                                                *)
Track(s, a, end) ==
  LET t == InsertIntoRememberedSet(RecordStart(s, a), a) IN
  [t EXCEPT !.mem = Overwrite(@, a, end, a :> [kind |-> "track", size |-> end - a, ref |-> NULL]),
            !.tracks = <<[at |-> a, end |-> end]>> \o @]

UseArea(s, a, end) ==
  LET bare == [s EXCEPT !.mem = Overwrite(@, a, end, <<>>), !.top = a, !.limit = end,
                        !.used = @ + (end - a)]
  IN IF s.tracking THEN [Track(bare, a, end) EXCEPT !.top = a + kHeaderSize] ELSE bare

(* The object made by Allocate at the top of the area.                     *)
Bump(s, o) ==
  LET r == RecordStart(s, s.top) IN
  [r EXCEPT !.mem = s.top :> o @@ @, !.top = @ + o.size, !.weak = @ \cup {s.top}]

NewObject(n, ref) == [kind |-> "object", size |-> n, ref |-> ref, id |-> counts.objects]

(* Allocate, when the bump fails: AllocateFromFreeList.  The bump is tried *)
(* again in the area it finds.                                             *)
AllocateFromFreeList ==
  /\ pc = "allocate"
  /\ space.limit - space.top < request.size
  /\ LET s == Flush(space)
         n == IF s.tracking THEN request.size + kHeaderSize ELSE request.size
         found == GetChunk(s, n)
     IN IF found = <<>>
        THEN /\ pc' = "new chunk"
             /\ space' = s
             /\ UNCHANGED failed
        ELSE LET a == s.free[found[1]][found[2]] IN
             /\ pc' = "allocate"
             /\ space' = UseArea([s EXCEPT !.free[found[1]] = RemoveAt(@, found[2])],
                                 a, a + Size(s, a))
             /\ Check("AllocateFromFreeList", space'.limit - space'.top >= request.size)
  /\ UNCHANGED <<root, request, gc, counts>>

(* The room AllocateInNewChunk asks for besides the object: none for the   *)
(* track when allocations are tracked, and some when they are not.         *)
TrackingSize(s) == IF s.tracking THEN 0 ELSE kHeaderSize

(* AllocateInNewChunk: a chunk of at least the size asked for is linked    *)
(* into the space and used whole, and Allocate tries again.                *)
AllocateInNewChunk ==
  /\ pc = "new chunk"
  /\ \E c \in Regions \ space.chunks :
       /\ c[2] - c[1] >= request.size + TrackingSize(space) + 1
       /\ LET s == UseArea([space EXCEPT !.chunks = @ \cup {c}], c[1], usable_end(c)) IN
          space' = [s EXCEPT !.starts = [l \in DOMAIN @ \ Lines(c) |-> @[l]],
                             !.dirty = @ \ Lines(c)]
  /\ pc' = "allocate"
  /\ request' = [request EXCEPT !.fresh = TRUE]
  /\ UNCHANGED <<root, gc, counts, failed>>

(* Allocate succeeds: a large object goes to a root and is remembered at   *)
(* once (there is no write barrier while it is filled in); a promoted one  *)
(* replaces the pointer that was visited.                                  *)
Allocate ==
  /\ pc = "allocate"
  /\ space.limit - space.top >= request.size
  /\ LET a == space.top
         s == Bump(space, NewObject(request.size, request.ref))
     IN IF request.field = NULL
        THEN /\ space' = InsertIntoRememberedSet(s, a)
             /\ root' = [root EXCEPT ![request.root] = a]
             /\ UNCHANGED gc
        ELSE /\ space' = [s EXCEPT !.mem[request.field].ref = a]
             /\ gc' = [gc EXCEPT !.at = @ + Size(space, request.field)]
             /\ UNCHANGED root
  /\ pc' = gc.back
  /\ counts' = [counts EXCEPT !.objects = @ + 1]
  /\ request' = NoRequest
  /\ UNCHANGED failed

(* A slip: a card that was cleaned stays clean.                            *)
KeepClean(s, a) == s

(* The object that stays in the new generation keeps its card dirty.       *)
Keep(s, a) == InsertIntoRememberedSet(s, a)

(* Allocate gives up: the budget asks for a collection, or the heap may    *)
(* not grow.  The object that was to be promoted stays young.              *)
AllocationFails ==
  /\ \/ pc = "allocate" /\ space.limit - space.top < request.size
     \/ pc = "new chunk"
  /\ IF request.field = NULL
     THEN UNCHANGED <<space, gc>>
     ELSE /\ space' = Keep(space, request.field)
          /\ gc' = [gc EXCEPT !.at = @ + Size(space, request.field)]
  /\ pc' = gc.back
  /\ request' = NoRequest
  /\ UNCHANGED <<root, counts, failed>>

-----------------------------------------------------------------------------
(* The program                                                             *)

AllocateLarge(r, n) ==
  /\ pc = "run" /\ counts.objects < MaxObjects /\ root[r] = NULL
  /\ \A q \in Root : q < r => root[q] # NULL
  /\ pc' = "allocate"
  /\ request' = [size |-> n, field |-> NULL, root |-> r, ref |-> NULL, fresh |-> FALSE]
  /\ UNCHANGED <<space, root, gc, counts, failed>>

(* A store into a field and its write barrier.                             *)
Store(r, v) ==
  /\ pc = "run" /\ root[r] # NULL /\ v # NULL /\ space.mem[root[r]].ref = NULL
  /\ space' = InsertIntoRememberedSet([space EXCEPT !.mem[root[r]].ref = v], root[r])
  /\ UNCHANGED <<pc, root, request, gc, counts, failed>>

Drop(r) ==
  /\ pc = "run" /\ root[r] # NULL
  /\ root' = [root EXCEPT ![r] = NULL]
  /\ UNCHANGED <<pc, space, request, gc, counts, failed>>

-----------------------------------------------------------------------------
(* The scavenge of the new generation, as the old space sees it            *)

(* From object to object until a word at or after limit, or the sentinel.  *)
Walk(s, a, limit) ==
  LET end == usable_end(ChunkOf(s, a))
      walk[x \in Words(a, end + 1)] ==
        IF x >= limit \/ x = end THEN x ELSE walk[x + Size(s, x)]
  IN walk[a]

AllLines(s) == UNION {Lines(c) : c \in s.chunks}
NextCard(s, c) == LET later == {l \in AllLines(s) : l > c} IN
                  IF later = {} THEN NULL ELSE Min(later)

StartScavenge ==
  /\ pc = "run" /\ counts.cycles < MaxCycles
  /\ \E a \in Objects(space) : space.mem[a].ref = New
  /\ space' = [Flush(space) EXCEPT !.tracking = TRUE]
  /\ gc' = [NoGC EXCEPT !.card = NextCard(space, NULL)]
  /\ pc' = "cards"
  /\ counts' = [counts EXCEPT !.cycles = @ + 1]
  /\ Check("StartTrackingAllocations", ~space.tracking /\ space.tracks = <<>>)
  /\ UNCHANGED <<root, request>>

(* Where the iteration of card c starts: an object start of an earlier     *)
(* card, never before the end of what was scanned already.                 *)
IterationStart(s, c, earliest) ==
  LET chunk == ChunkOf(s, c)
      back == Max({l \in Lines(chunk) : l < c /\ (l <= earliest \/ l \in DOMAIN s.starts)})
  IN IF c = chunk[1] THEN c
     ELSE IF back > earliest THEN s.starts[back] ELSE earliest

(* VisitRememberedSet looks at one card.                                   *)
ScanCard ==
  /\ pc = "cards" /\ gc.card # NULL
  /\ LET c == gc.card
         chunk == ChunkOf(space, c)
         earliest == IF c = chunk[1] THEN c ELSE gc.earliest
     IN IF c \in space.dirty
        THEN /\ gc' = [gc EXCEPT !.earliest = earliest,
                                 !.at = Walk(space, IterationStart(space, c, earliest), c)]
             /\ space' = [space EXCEPT !.dirty = @ \ {c}]
             /\ pc' = "card"
        ELSE /\ gc' = [gc EXCEPT !.earliest = earliest, !.card = NextCard(space, c)]
             /\ UNCHANGED <<space, pc>>
  /\ UNCHANGED <<root, request, counts, failed>>

(* A pointer is visited: the object it names is cloned in the new          *)
(* generation, or promoted if it is old enough.                            *)
VisitPointer(a) ==
  IF space.mem[a].ref # New
  THEN /\ gc' = [gc EXCEPT !.at = @ + Size(space, a)]
       /\ UNCHANGED <<space, pc, request>>
  ELSE \/ /\ space' = Keep(space, a)
          /\ gc' = [gc EXCEPT !.at = @ + Size(space, a)]
          /\ UNCHANGED <<pc, request>>
       \/ \E n \in PromotedSizes, v \in {NULL, New} :
            /\ counts.objects < MaxObjects
            /\ request' = [size |-> n, field |-> a, root |-> NULL, ref |-> v, fresh |-> FALSE]
            /\ gc' = [gc EXCEPT !.back = pc]
            /\ pc' = "allocate"
            /\ UNCHANGED space

VisitCard ==
  /\ pc = "card"
  /\ IF gc.at >= gc.card + kLineSize \/ gc.at = usable_end(ChunkOf(space, gc.card))
     THEN /\ gc' = [gc EXCEPT !.earliest = gc.at, !.card = NextCard(space, @)]
          /\ pc' = "cards"
          /\ UNCHANGED <<space, request>>
     ELSE VisitPointer(gc.at)
  /\ UNCHANGED <<root, counts, failed>>

(* CompleteScavengeGenerational takes the promoted tracks ...              *)
TakeTracks ==
  /\ \/ pc = "cards" /\ gc.card = NULL
     \/ pc = "track" /\ gc.todo = <<>>
  /\ LET s == Flush(space) IN
     IF s.tracks # <<>>
     THEN /\ gc' = [gc EXCEPT !.todo = s.tracks, !.at = s.tracks[1].at + kHeaderSize]
          /\ space' = [s EXCEPT !.tracks = <<>>]
          /\ pc' = "track"
     ELSE /\ gc' = NoGC
          /\ space' = [s EXCEPT !.tracking = FALSE]
          /\ pc' = "run"
  /\ UNCHANGED <<root, request, counts, failed>>

(* ... and visits the objects in each, then makes the track fillers.       *)
VisitTrack ==
  /\ pc = "track" /\ gc.todo # <<>>
  /\ LET t == gc.todo[1]
         rest == Tail(gc.todo)
     IN IF gc.at = t.end
        THEN /\ space' = [space EXCEPT !.mem = Fillers(t.at, kHeaderSize) @@ @]
             /\ gc' = [gc EXCEPT !.todo = rest,
                                 !.at = IF rest = <<>> THEN NULL ELSE rest[1].at + kHeaderSize]
             /\ UNCHANGED <<pc, request>>
        ELSE VisitPointer(gc.at)
  /\ UNCHANGED <<root, counts, failed>>

-----------------------------------------------------------------------------
(* Marking                                                                 *)

(* The objects the roots reach, with the identity they keep when they move.*)
Reachable(s) ==
  LET step[n \in 0..MaxObjects] ==
        IF n = 0 THEN {root[r] : r \in Root} \cap Objects(s)
        ELSE step[n - 1] \cup ({s.mem[a].ref : a \in step[n - 1]} \cap Objects(s))
  IN step[MaxObjects]
Id(s, a) == IF a \in {NULL, New} THEN a ELSE s.mem[a].id + 1
Graph(s) ==
  [roots |-> [r \in Root |-> Id(s, root[r])],
   objects |-> {<<Id(s, a), Size(s, a), Id(s, s.mem[a].ref)>> : a \in Reachable(s)}]
WeakIds(s) == {Id(s, a) : a \in s.weak}

(* PerformSharedGarbageCollection, after the flush of                      *)
(* CollectOldSpaceIfNeeded.                                                *)
StartMarking ==
  /\ pc = "run" /\ counts.cycles < MaxCycles /\ space.chunks # {}
  /\ LET s == Flush(space) IN
     /\ space' = s
     /\ gc' = [NoGC EXCEPT !.todo = SetToSeq({root[r] : r \in Root} \ {NULL}),
                           !.before = [graph |-> Graph(s), dead |-> Objects(s) \ Reachable(s),
                                       live |-> {Id(s, a) : a \in Reachable(s)}]]
  /\ pc' = "mark"
  /\ counts' = [counts EXCEPT !.cycles = @ + 1]
  /\ UNCHANGED <<root, request, failed>>

(* A slip: an object that does not fit the stack is noted nowhere.         *)
MarksUnnoted(g, a) ==
  IF a \in {NULL, New} \cup g.marks THEN g
  ELSE IF Len(g.stack) < kMarkingStackSize
       THEN [g EXCEPT !.marks = @ \cup {a}, !.stack = Append(@, a)]
       ELSE [g EXCEPT !.marks = @ \cup {a}, !.overflowed = TRUE]

(* MarkPointer: grey, and pushed; when the stack is full the card is       *)
(* noted, with an object start that is not after the object.               *)
Marks(g, a) == IF a \in {NULL, New} \cup g.marks THEN g
               ELSE LET grey == [g EXCEPT !.marks = @ \cup {a}] IN
                    IF Len(g.stack) < kMarkingStackSize
                    THEN [grey EXCEPT !.stack = Append(@, a)]
                    ELSE [grey EXCEPT !.overflowed = TRUE, !.overflow = @ \cup {Line(a)}]
Overflows(g, a) == a \notin {NULL, New} \cup g.marks /\ Len(g.stack) = kMarkingStackSize
StartsAfterMark(s, g, a) ==
  IF Overflows(g, a) /\ (Line(a) \notin DOMAIN s.starts \/ s.starts[Line(a)] > a)
  THEN RecordStart(s, a) ELSE s
MarkPointer(g, a) == gc' = Marks(g, a) /\ space' = StartsAfterMark(space, g, a)

(* MarkAll makes the object black.                                         *)
MarkAll(g, a) == [g EXCEPT !.marks = @ \cup Words(a, a + Size(space, a))]

MarkRoot ==
  /\ pc = "mark" /\ gc.todo # <<>>
  /\ MarkPointer([gc EXCEPT !.todo = Tail(@)], gc.todo[1])
  /\ UNCHANGED <<pc, root, request, counts, failed>>

(* MarkingStack::Empty, one object.                                        *)
EmptyStack ==
  /\ pc \in {"mark", "overflow empty"} /\ gc.todo = <<>> /\ gc.stack # <<>>
  /\ LET a == Last(gc.stack) IN
     MarkPointer(MarkAll([gc EXCEPT !.stack = Front(@)], a), space.mem[a].ref)
  /\ UNCHANGED <<pc, root, request, counts, failed>>

(* MarkingStack::Process: the stack is empty but it overflowed.            *)
StartOverflow ==
  /\ pc = "mark" /\ gc.todo = <<>> /\ gc.stack = <<>> /\ gc.overflowed
  /\ gc' = [gc EXCEPT !.overflowed = FALSE, !.card = NextCard(space, NULL), !.at = NULL]
  /\ pc' = "overflow"
  /\ UNCHANGED <<space, root, request, counts, failed>>

(* The last card of a byte of overflow bits.                               *)
LastOfByte(s, c) == (c \div kLineSize + 1) % OverflowCards = 0

NextOverflowCard(g) ==
  IF LastOfByte(space, g.card)
  THEN /\ pc' = "overflow empty"
       /\ gc' = [g EXCEPT !.at = NULL]
  ELSE /\ pc' = "overflow"
       /\ gc' = [g EXCEPT !.at = NULL, !.card = NextCard(space, @)]

(* IterateOverflowedObjects: the grey objects of a noted card, from its    *)
(* object start on; the bit is cleared first, as it may be set again.      *)
OverflowedCard ==
  /\ pc = "overflow" /\ gc.card # NULL
  /\ IF gc.at = NULL
     THEN IF gc.card \in gc.overflow
          THEN /\ gc' = [gc EXCEPT !.overflow = @ \ {gc.card}, !.at = space.starts[gc.card]]
               /\ UNCHANGED <<space, pc>>
          ELSE NextOverflowCard(gc) /\ UNCHANGED space
     ELSE IF gc.at >= gc.card + kLineSize \/ gc.at = usable_end(ChunkOf(space, gc.card))
     THEN NextOverflowCard(gc) /\ UNCHANGED space
     ELSE LET next == [gc EXCEPT !.at = @ + Size(space, gc.at)] IN
          /\ IF gc.at \in gc.marks /\ (gc.at + 1) \notin gc.marks
             THEN MarkPointer(MarkAll(next, gc.at), space.mem[gc.at].ref)
             ELSE gc' = next /\ UNCHANGED space
          /\ UNCHANGED pc
  /\ UNCHANGED <<root, request, counts, failed>>

OverflowEmptied ==
  /\ pc = "overflow empty" /\ gc.stack = <<>>
  /\ gc' = [gc EXCEPT !.card = NextCard(space, @)]
  /\ pc' = "overflow"
  /\ UNCHANGED <<space, root, request, counts, failed>>

EndOverflow ==
  /\ pc = "overflow" /\ gc.card = NULL
  /\ pc' = "mark"
  /\ UNCHANGED <<space, root, request, gc, counts, failed>>

(* Marking is done; the collectors take turns.                             *)
EndMarking ==
  /\ pc = "mark" /\ gc.todo = <<>> /\ gc.stack = <<>> /\ ~gc.overflowed
  /\ LET first == ChunkList(space)[1] IN
     IF space.compacting
     THEN /\ pc' = "sweep"
          /\ space' = [ClearFreeList(space) EXCEPT
                         !.compacting = FALSE,
                         !.weak = @ \cap gc.marks,
                         !.starts = <<>>, !.used = 0]
          /\ gc' = [gc EXCEPT !.at = first[1]]
     ELSE /\ pc' = "destinations"
          /\ space' = [RecordStart(space, first[1]) EXCEPT !.compacting = TRUE]
          /\ gc' = [gc EXCEPT !.chunk = first, !.destChunk = first, !.src = first[1], !.srcStart = first[1],
                              !.dest = first[1], !.limit = usable_end(first)]
  /\ UNCHANGED <<root, request, counts, failed>>

-----------------------------------------------------------------------------
(* Sweeping                                                                *)

(* AddFreeListChunk: what was dead up to here becomes one free chunk.      *)
AddFreeListChunk(s, end) ==
  IF gc.freeStart = NULL THEN s ELSE AddChunk(s, gc.freeStart, end - gc.freeStart)

NextChunk(s, c) == LET later == {d \in s.chunks : d[1] > c[1]} IN
                   IF later = {} THEN <<>> ELSE CHOOSE d \in later : \A e \in later : d[1] <= e[1]

SweepVisit ==
  /\ pc = "sweep"
  /\ LET a == gc.at
         chunk == ChunkOf(space, a)
         next == NextChunk(space, chunk)
     IN IF a = usable_end(chunk)
        THEN /\ space' = AddFreeListChunk(space, a)
             /\ gc' = [gc EXCEPT !.freeStart = NULL, !.marks = @ \ Words(chunk[1], chunk[2]),
                                 !.at = IF next = <<>> THEN NULL ELSE next[1]]
             /\ pc' = IF next = <<>> THEN "collected" ELSE pc
        ELSE /\ gc' = [gc EXCEPT !.at = @ + Size(space, a),
                                 !.freeStart = IF a \in gc.marks THEN NULL
                                               ELSE IF @ = NULL THEN a ELSE @]
             /\ space' = IF a \in gc.marks
                         THEN [RecordStart(AddFreeListChunk(space, a), a) EXCEPT
                                 !.used = @ + Size(space, a)]
                         ELSE space
             /\ UNCHANGED pc
  /\ UNCHANGED <<root, request, counts, failed>>

-----------------------------------------------------------------------------
(* Compaction                                                              *)

(* The destination of a marked object: that of its line and the marked     *)
(* words before it.                                                        *)
GetDestination(g, a) == g.table[Line(a)] + Cardinality(g.marks \cap Words(Line(a), a))

(* The objects from the recorded start of a line on, that start before     *)
(* limit; and those of them that are live.                                 *)
From(g, line, limit) ==
  {a \in DOMAIN space.mem : /\ a >= space.starts[line] /\ a < limit
                            /\ a < usable_end(g.chunk)}
LiveFrom(g, line, limit) == From(g, line, limit) \cap g.marks

EndOfDestinationOfLastLiveObjectStartingBefore(g, line, limit) ==
  IF line \notin DOMAIN space.starts \/ LiveFrom(g, line, limit) = {} THEN NoEndFound
  ELSE LET a == Max(LiveFrom(g, line, limit)) IN GetDestination(g, a) + Size(space, a)

LastLineThatFits(g, line) ==
  LET tooFar == {a \in LiveFrom(g, line, usable_end(g.chunk)) :
                   Line(a) \in DOMAIN g.table /\ GetDestination(g, a) + Size(space, a) > g.limit}
  IN IF tooFar = {} THEN Line(usable_end(g.chunk)) ELSE Line(Min(tooFar)) - kLineSize

(* CalculateObjectDestinations, the fast loop over the mark bits.          *)
DestinationOfLine ==
  /\ pc = "destinations" /\ gc.dest <= gc.limit /\ gc.src < gc.chunk[2]
  /\ gc' = [gc EXCEPT !.table = gc.src :> gc.dest @@ @,
                      !.dest = @ + Cardinality(gc.marks \cap Words(gc.src, gc.src + kLineSize)),
                      !.src = @ + kLineSize]
  /\ UNCHANGED <<pc, space, root, request, counts, failed>>

ToNextDestination(g, top) ==
  LET next == NextChunk(space, g.destChunk) IN
  [g EXCEPT !.top = g.destChunk :> top @@ @, !.destChunk = next,
            !.dest = next[1], !.limit = usable_end(next)]

(* The lines do not fit the destination chunk: back to the last line whose *)
(* objects do, and on to the next destination chunk.                       *)
BackTrack ==
  /\ pc = "destinations" /\ gc.dest > gc.limit
  /\ LET end(l) == EndOfDestinationOfLastLiveObjectStartingBefore(gc, l, l + kLineSize)
         fitting == {l \in Lines(gc.chunk) : /\ gc.srcStart <= l /\ l < gc.src
                                             /\ end(l) # NoEndFound /\ end(l) <= gc.limit}
     IN IF fitting = {}
        THEN /\ gc' = [ToNextDestination(gc, gc.table[gc.srcStart]) EXCEPT !.src = gc.srcStart]
             /\ UNCHANGED failed
        ELSE LET line == Max(fitting)
                 fitEnd == LastLineThatFits(gc, line) + kLineSize
                 destEnd == EndOfDestinationOfLastLiveObjectStartingBefore(gc, line, fitEnd)
                 last == Max(LiveFrom(gc, line, fitEnd))
                 overhang == Words(fitEnd, last + Size(space, last))
             IN /\ gc' = [ToNextDestination(gc, destEnd) EXCEPT
                            !.src = fitEnd, !.srcStart = fitEnd, !.marks = @ \ overhang]
                /\ Check("CalculateObjectDestinations",
                         /\ destEnd # NoEndFound /\ fitEnd > line
                         /\ overhang # {} => fitEnd \in gc.marks)
  /\ UNCHANGED <<pc, space, root, request, counts>>

(* The next source chunk, or the end of ComputeCompactionDestinations:     *)
(* weak pointers are processed, object starts zapped, free list cleared.   *)
NextSource ==
  /\ pc = "destinations" /\ gc.dest <= gc.limit /\ gc.src = gc.chunk[2]
  /\ LET next == NextChunk(space, gc.chunk)
         first == ChunkList(space)[1]
         unused == {c \in space.chunks : c[1] > gc.destChunk[1]}
         top == [c \in unused |-> c[1]] @@ (gc.destChunk :> gc.dest) @@ gc.top
     IN IF next # <<>>
        THEN /\ gc' = [gc EXCEPT !.chunk = next, !.src = next[1], !.srcStart = next[1]]
             /\ space' = RecordStart(space, next[1])
             /\ UNCHANGED pc
        ELSE /\ gc' = [gc EXCEPT !.top = top, !.chunk = first, !.at = first[1],
                                 !.destChunk = first, !.dest = first[1], !.limit = top[first],
                                 !.marks = @ \cup {usable_end(first)}]
             /\ space' = [ClearFreeList(space) EXCEPT
                            !.weak = {GetDestination(gc, a) : a \in @ \cap gc.marks},
                            !.starts = <<>>, !.used = 0]
             /\ pc' = "compact"
  /\ UNCHANGED <<root, request, counts, failed>>

(* The destination chunk in which the next object of n words fits.         *)
SweepingChunk(g, n) ==
  IF g.dest + n <= g.limit THEN g
  ELSE LET later == {c \in space.chunks : c[1] > g.destChunk[1] /\ c[1] + n <= g.top[c]}
           c == CHOOSE c \in later : \A d \in later : c[1] <= d[1]
       IN [g EXCEPT !.destChunk = c, !.dest = c[1], !.limit = g.top[c]]

FixPointer(g, v) == IF v \in {NULL, New} THEN v ELSE GetDestination(g, v)

(* CompactingVisitor::Visit: a dead object is skipped with the mark bits,  *)
(* a live one moves down.                                                  *)
CompactVisit ==
  /\ pc = "compact" /\ gc.at # usable_end(gc.chunk)
  /\ LET a == gc.at
         o == space.mem[a]
         g == SweepingChunk(gc, o.size)
     IN IF a \notin gc.marks
        THEN /\ gc' = [gc EXCEPT !.at = Min({w \in gc.marks : w > a})]
             /\ Check("SkipDead", gc'.at >= a + o.size /\ gc'.at <= usable_end(gc.chunk))
             /\ UNCHANGED space
        ELSE /\ gc' = [g EXCEPT !.at = a + o.size, !.dest = @ + o.size,
                                !.to = g.dest :> [o EXCEPT !.ref = FixPointer(g, @)] @@ @]
             /\ space' = [RecordStart(space, g.dest) EXCEPT
                            !.used = @ + o.size,
                            !.dirty = IF g.dest # a /\ Line(a) \in @
                                      THEN @ \cup {Line(g.dest)} ELSE @]
             /\ Check("Visit", g.dest = GetDestination(g, a) /\ g.dest <= a
                                /\ g.dest + o.size <= usable_end(g.destChunk))
  /\ UNCHANGED <<pc, root, request, counts>>

CompactNextChunk ==
  /\ pc = "compact" /\ gc.at = usable_end(gc.chunk)
  /\ LET next == NextChunk(space, gc.chunk) IN
     IF next # <<>>
     THEN /\ gc' = [gc EXCEPT !.chunk = next, !.at = next[1], !.marks = @ \cup {usable_end(next)}]
          /\ UNCHANGED pc
     ELSE pc' = "chunk ends" /\ UNCHANGED gc
  /\ UNCHANGED <<space, root, request, counts, failed>>

(* MarkChunkEndsFree for one chunk.                                        *)
MarkChunkEndFree(s, c) ==
  LET top == gc.top[c]
      above == {l \in Lines(c) : l >= RoundUp(top)}
      t == IF top = usable_end(c) THEN s ELSE AddChunk(s, top, usable_end(c) - top)
  IN [t EXCEPT !.starts = [l \in DOMAIN @ \ above |-> @[l]], !.dirty = @ \ above]

(* CompactSharedHeap ends: the roots are fixed and what is above the       *)
(* objects becomes free.                                                   *)
EndCompaction ==
  /\ pc = "chunk ends"
  /\ space' = FoldLeft(MarkChunkEndFree, [space EXCEPT !.mem = gc.to], ChunkList(space))
  /\ root' = [r \in Root |-> FixPointer(gc, root[r])]
  /\ gc' = [gc EXCEPT !.marks = {}]
  /\ pc' = "collected"
  /\ UNCHANGED <<request, counts, failed>>

Collected ==
  /\ pc = "collected"
  /\ pc' = "run"
  /\ gc' = NoGC
  /\ UNCHANGED <<space, root, request, counts, failed>>

Next ==
  \/ \E r \in Root :
       \/ \E n \in Sizes : AllocateLarge(r, n)
       \/ \E v \in {New} \cup {root[q] : q \in Root} : Store(r, v)
       \/ Drop(r)
  \/ Allocate \/ AllocateFromFreeList \/ AllocateInNewChunk \/ AllocationFails
  \/ StartScavenge \/ ScanCard \/ VisitCard \/ TakeTracks \/ VisitTrack
  \/ StartMarking \/ MarkRoot \/ EmptyStack
  \/ StartOverflow \/ OverflowedCard \/ OverflowEmptied \/ EndOverflow \/ EndMarking
  \/ SweepVisit
  \/ DestinationOfLine \/ BackTrack \/ NextSource
  \/ CompactVisit \/ CompactNextChunk \/ EndCompaction \/ Collected

-----------------------------------------------------------------------------
(* Outside collections the space can be walked from the start of every     *)
(* chunk to its sentinel, object by object.                                *)
Tiles(s, c) ==
  LET active == IF s.top = NULL THEN {} ELSE Words(s.top, s.limit)
      mine == {a \in DOMAIN s.mem : a \in Words(c[1], usable_end(c))}
  IN /\ Words(c[1], usable_end(c)) \ active = UNION {Words(a, a + Size(s, a)) : a \in mine}
     /\ \A a, b \in mine : a < b => a + Size(s, a) <= b

FreeChunks(s) == {a \in DOMAIN s.mem : s.mem[a].kind = "free"}
InFreeList(s) == UNION {{s.free[b][i] : i \in DOMAIN s.free[b]} : b \in DOMAIN s.free}

(* OldSpace::Verify: the object starts are object starts, an object that   *)
(* covers the next card leaves it without one, and every object with a     *)
(* pointer to the new generation is remembered.                            *)
Verify(s) ==
  /\ \A l \in DOMAIN s.starts :
       LET a == s.starts[l] IN
       /\ Line(a) = l /\ a \in DOMAIN s.mem
       /\ a + Size(s, a) > l + 2 * kLineSize => (l + kLineSize) \notin DOMAIN s.starts
  /\ \A a \in Objects(s) : s.mem[a].ref = New => Line(a) \in s.dirty

(* Marking: when it ends, exactly the words of the objects the roots reach *)
(* are marked, however often the marking stack overflowed.                 *)
MarkingComplete ==
  pc = "mark" /\ gc.todo = <<>> /\ gc.stack = <<>> /\ ~gc.overflowed =>
     gc.marks = UNION {Words(a, a + Size(space, a)) : a \in Reachable(space)}

(* A collection keeps the object graph: what the roots reached has the     *)
(* same objects, sizes and pointers, and what lives has its weak pointer.  *)
GraphKept ==
  pc = "collected" => /\ Graph(space) = gc.before.graph
                      /\ WeakIds(space) = gc.before.live
                      /\ {Id(space, a) : a \in Objects(space)} = gc.before.live

(* The allocator and the collectors leave a space that Verify accepts,     *)
(* that can be walked, whose free list holds its free chunks once each,    *)
(* and whose used counter is the words in use.                             *)
SpaceIntact ==
  pc = "run" =>
    /\ \A c \in space.chunks : Tiles(space, c)
    /\ Verify(space)
    /\ InFreeList(space) = FreeChunks(space)
    /\ \A b \in DOMAIN space.free : \A i \in DOMAIN space.free[b] :
         HighestBit(Size(space, space.free[b][i])) - 1 = b \/ b = kNumberOfBuckets - 1
    /\ space.tracks = <<>> /\ ~space.tracking

(* No assertion of the collector fails.                                    *)
NoAssertFails == failed = {}

(* A chunk allocated for an object is big enough to fit the object.        *)
NewChunkFits ==
  pc = "allocate" /\ request.fresh => space.limit - space.top >= request.size

(* The card of a promoted track that was not scanned yet is dirty.         *)
TracksAreDirty ==
  \A i \in DOMAIN space.tracks : pc = "allocate" => Line(space.tracks[i].at) \in space.dirty

=============================================================================
