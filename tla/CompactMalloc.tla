--------------------------- MODULE CompactMalloc ---------------------------
(***************************************************************************)
(* The allocator of the FreeRTOS port, cmpctmalloc.c, on top of the page   *)
(* allocator, page_allocator.cc.  A unit of size is eight bytes.  The      *)
(* calls of the tasks are serialised by vTaskSuspendAll (freertos.cc), so  *)
(* that each one is a step.                                                *)
(*                                                                         *)
(* An operator with a parameter h is a C function: it takes the heap h and *)
(* returns the heap it leaves.                                             *)
(***************************************************************************)
EXTENDS Integers, Sequences, FiniteSets, SequencesExt, FiniteSetsExt

CONSTANTS
  PAGE_SIZE,      \* units of a page
  HeaderSize,     \* sizeof(header_t)
  FreeSize,       \* sizeof(free_t)
  Columns,        \* buckets per binary order of magnitude, 8 in the code
  VirtualBits,    \* HEAP_ALLOC_VIRTUAL_BITS, of units
  Waste,          \* the remainder of size / Waste units is not carved off
  Memory,         \* sequence of <<start, size, map supplied>>: the arenas
  Sizes,          \* sizes the clients ask for
  Alignments,     \* alignments asked of cmpct_memalign
  MaxLive         \* bound: allocations alive

VARIABLES
  theheap,    \* theheap, the headers in memory and the page map
  live,       \* payload -> size asked for
  broken      \* what a client found broken

mallocVars == <<theheap, live, broken>>

NULL == 0

---------------------------------------------------------------------------
(* The page allocator. *)

RoundUp(n, m) == ((n + m - 1) \div m) * m
RoundDown(n, m) == (n \div m) * m

\* Arena::Initialize: without a map, the first pages hold it.
Arena(start, size, map) ==
  LET first == RoundUp(start, PAGE_SIZE)
      pages == (RoundDown(start + size, PAGE_SIZE) - first) \div PAGE_SIZE
      \* A unit of the map holds the state of eight pages.
      left == pages - RoundUp(pages, 8 * PAGE_SIZE) \div (8 * PAGE_SIZE)
  IN IF map THEN [base |-> first, pages |-> pages]
     ELSE [base |-> RoundUp(first + RoundUp(left, 8) \div 8, PAGE_SIZE),
           pages |-> left]

Arenas == [i \in DOMAIN Memory |->
             Arena(Memory[i][1], Memory[i][2], Memory[i][3])]

PageAt(a, i) == Arenas[a].base + i * PAGE_SIZE

\* AllocatePages: the first run of free pages, in the first arena with one.
AllocatePages(used, pages) ==
  LET run(a, i) == /\ i + pages <= Arenas[a].pages
                   /\ \A j \in i..(i + pages - 1) : PageAt(a, j) \notin used
      fits(a) == {i \in 0..Arenas[a].pages : run(a, i)}
      first(a) == PageAt(a, Min(fits(a)))
      in(with) == IF with = {} THEN NULL ELSE first(Min(with))
  IN IF pages = 0 THEN NULL ELSE in({a \in DOMAIN Arenas : fits(a) # {}})

PagesFrom(address, size) ==
  {address + i * PAGE_SIZE : i \in 0..(size \div PAGE_SIZE - 1)}

---------------------------------------------------------------------------
(* Buckets. *)

Log2(n) == CHOOSE k \in 0..n : 2^k <= n /\ n < 2^(k + 1)

NumberOfBuckets ==
  1 + (2 * Columns - 1) + (VirtualBits - Log2(2 * Columns)) * Columns

\* size_to_index_helper: <<index, rounded_up>>.
SizeToIndex(size, adjust, increment) ==
  IF size <= 2 * Columns
  THEN <<size - 1, Max({size, FreeSize - HeaderSize})>>
  ELSE LET adjusted == size + adjust
           row == Log2(adjusted)
           column == ((adjusted * Columns) \div 2^row) % Columns
           rowColumn == row * Columns + column + increment
       IN <<rowColumn + (2 * Columns - 1) - Columns * Log2(2 * Columns),
            ((Columns + (rowColumn % Columns)) * 2^(rowColumn \div Columns))
              \div Columns>>

SizeToIndexAllocating(size) == SizeToIndex(size, -1, 1)
SizeToIndexFreeing(size) == SizeToIndex(size, 0, 0)[1]

FindNonemptyBucket(h, index) ==
  LET from == {b \in h.bits : b >= index} IN IF from = {} THEN -1 ELSE Min(from)

---------------------------------------------------------------------------
(* Headers and free lists. *)

Header(left, free, size) ==
  [left |-> left, free |-> free, size |-> size, next |-> NULL, prev |-> NULL]

Write(h, a, header) ==
  [h EXCEPT !.header = [x \in DOMAIN @ \cup {a} |->
                          IF x = a THEN header ELSE @[x]]]

\* Headers that are only bytes inside an area from now on.
Forget(h, S) == [h EXCEPT !.header = [x \in DOMAIN @ \ S |-> @[x]]]

RightHeader(h, a) == a + h.header[a].size

CreateAllocationHeader(h, a, size, left) == Write(h, a, Header(left, FALSE, size))

FixLeftPointer(h, right, newLeft) == [h EXCEPT !.header[right].left = newLeft]

\* create_free_area with a bucket of the caller's: on no free list.
CreateUnlisted(h, a, left, size) ==
  [Write(h, a, Header(left, TRUE, size)) EXCEPT !.remaining = @ + size]

CreateFreeArea(h, a, left, size) ==
  LET index == SizeToIndexFreeing(size - HeaderSize)
      old == h.lists[index]
  IN [CreateUnlisted(h, a, left, size) EXCEPT
        !.lists[index] = a, !.bits = @ \cup {index},
        !.header = [x \in DOMAIN @ |->
                      IF x = a THEN [@[x] EXCEPT !.next = old]
                      ELSE IF x = old THEN [@[x] EXCEPT !.prev = a] ELSE @[x]]]

UnlinkFree(h, a, bucket) ==
  LET next == h.header[a].next
      prev == h.header[a].prev
      first == h.lists[bucket] = a
  IN [h EXCEPT !.remaining = @ - h.header[a].size,
               !.lists[bucket] = IF first THEN next ELSE @,
               !.bits = IF first /\ next = NULL THEN @ \ {bucket} ELSE @,
               !.header = [x \in DOMAIN @ |->
                             [@[x] EXCEPT !.next = IF x = prev THEN next ELSE @,
                                          !.prev = IF x = next THEN prev ELSE @]]]

UnlinkFreeUnknownBucket(h, a) ==
  UnlinkFree(h, a, SizeToIndexFreeing(h.header[a].size - HeaderSize))

IsStartOfOsAllocation(h, a) == h.header[a].left = NULL
IsEndOfOsAllocation(h, a) == h.header[a].size = 0

PageFree(h, a, size) ==
  [h EXCEPT !.used = @ \ PagesFrom(a, size), !.size = @ - size]

FreeMemory(h, a, left, size) ==
  IF /\ left % PAGE_SIZE = 0
     /\ IsStartOfOsAllocation(h, left) /\ IsEndOfOsAllocation(h, a + size)
  THEN Forget(PageFree(h, left, size + h.header[left].size + HeaderSize),
              {left, a, a + size})
  ELSE CreateFreeArea(h, a, left, size)

---------------------------------------------------------------------------
(* Growing. *)

\* add_to_heap: a sentinel on each side of one free area.
AddToHeap(h, a, size, listed) ==
  LET free == a + HeaderSize
      freeSize == size - 2 * HeaderSize
      h1 == CreateAllocationHeader(h, a, HeaderSize, NULL)
      h2 == IF listed THEN CreateFreeArea(h1, free, a, freeSize)
            ELSE CreateUnlisted(h1, free, a, freeSize)
  IN CreateAllocationHeader(h2, a + size - HeaderSize, 0, free)

\* heap_grow: <<heap, the new area or NULL>>.
HeapGrow(h, asked, listed) ==
  LET size == RoundUp(asked + 2 * HeaderSize, PAGE_SIZE)
      with(a) ==
        IF a = NULL THEN <<h, NULL>>
        ELSE <<AddToHeap([h EXCEPT !.size = @ + size,
                                   !.used = @ \cup PagesFrom(a, size)],
                         a, size, listed), a + HeaderSize>>
  IN with(AllocatePages(h.used, size \div PAGE_SIZE))

\* The loop of cmpct_alloc that asks for less each time.
RECURSIVE GrowBy(_, _, _)
GrowBy(h, growby, roundedUp) ==
  LET unless(grown) ==
        IF grown[2] # NULL \/ growby <= roundedUp THEN grown
        ELSE GrowBy(h, Max({growby \div 2, roundedUp}), roundedUp)
  IN unless(HeapGrow(h, growby, TRUE))

MallocInit ==
  /\ theheap = HeapGrow([header |-> << >>, lists |-> [b \in 0..(NumberOfBuckets - 1) |-> NULL],
                         bits |-> {}, used |-> {}, size |-> 0, remaining |-> 0],
                        PAGE_SIZE - 2 * HeaderSize, TRUE)[1]
  /\ live = << >>
  /\ broken = {}

---------------------------------------------------------------------------
(* Operations: each returns <<heap, payload>>. *)

LargeAlloc(h, size) ==
  LET taken(g, a) ==
        [CreateAllocationHeader(g, a, g.header[a].size, g.header[a].left)
           EXCEPT !.remaining = @ - g.header[a].size]
      from(grown) ==
        IF grown[2] = NULL THEN <<h, NULL>>
        ELSE <<taken(grown[1], grown[2]), grown[2] + HeaderSize>>
  IN from(HeapGrow(h, size, FALSE))

\* A slip: the area to the right still points over the new free area.
CarveUnfixed(h, bucket, size, roundedUp) ==
  LET head == h.lists[bucket]
      header == h.header[head]
      leftOver == header.size - roundedUp
      carve == leftOver >= FreeSize /\ leftOver > size \div Waste
      unlinked == UnlinkFree(h, head, bucket)
      rest == IF carve THEN CreateFreeArea(unlinked, head + roundedUp, head, leftOver)
              ELSE unlinked
  IN <<CreateAllocationHeader(rest, head, IF carve THEN roundedUp ELSE header.size,
                              header.left),
       head + HeaderSize>>

\* The head of the bucket is carved.
Carve(h, bucket, size, roundedUp) ==
  LET head == h.lists[bucket]
      header == h.header[head]
      leftOver == header.size - roundedUp
      carve == leftOver >= FreeSize /\ leftOver > size \div Waste
      unlinked == UnlinkFree(h, head, bucket)
      free == head + roundedUp
      rest == IF carve
              THEN FixLeftPointer(CreateFreeArea(unlinked, free, head, leftOver),
                                  head + header.size, free)
              ELSE unlinked
      taken == IF carve THEN roundedUp ELSE header.size
  IN <<CreateAllocationHeader(rest, head, taken, header.left),
       head + HeaderSize>>

Alloc(h, size) ==
  IF size = 0 THEN <<h, NULL>>
  ELSE IF size + HeaderSize > 2^VirtualBits THEN LargeAlloc(h, size)
  ELSE LET index == SizeToIndexAllocating(size)
           roundedUp == index[2] + HeaderSize
           bucket == FindNonemptyBucket(h, index[1])
           growby == Min({2^VirtualBits,
                          Max({h.size \div 8, PAGE_SIZE, roundedUp})})
           inGrown(grown) ==
             IF grown[2] = NULL THEN <<h, NULL>>
             ELSE Carve(grown[1], FindNonemptyBucket(grown[1], index[1]), size,
                        roundedUp)
       IN IF bucket # -1 THEN Carve(h, bucket, size, roundedUp)
          ELSE inGrown(GrowBy(h, growby, roundedUp))

Free(h, payload) ==
  LET a == payload - HeaderSize
      left == h.header[a].left
      size == h.header[a].size
      right == RightHeader(h, a)
      intoLeft == left # NULL /\ h.header[left].free
      intoRight == h.header[right].free
      start == IF intoLeft THEN left ELSE a
      h1 == IF intoLeft THEN UnlinkFreeUnknownBucket(h, left) ELSE h
      h2 == IF intoRight THEN UnlinkFreeUnknownBucket(h1, right) ELSE h1
      end == IF intoRight THEN RightHeader(h, right) ELSE right
      inner == (IF intoLeft THEN {a} ELSE {}) \cup (IF intoRight THEN {right} ELSE {})
      h3 == IF inner = {} THEN h2 ELSE FixLeftPointer(h2, end, start)
  IN FreeMemory(Forget(h3, inner), start, h.header[start].left, end - start)

\* cmpct_memalign, once cmpct_alloc has returned the padded block.
Align(h, unaligned, alignment) ==
  LET payload == RoundDown(unaligned + FreeSize + HeaderSize + alignment - 1,
                           alignment)
      before == unaligned - HeaderSize
      header == payload - HeaderSize
      leftOver == payload - unaligned
      h1 == CreateAllocationHeader(h, header, h.header[before].size - leftOver,
                                   before)
      h2 == FixLeftPointer([h1 EXCEPT !.header[before].size = leftOver],
                           RightHeader(h, before), header)
  IN <<Free(h2, unaligned), payload>>

---------------------------------------------------------------------------
(* Trimming. *)

TrimEnd(h, a, bucket) ==
  LET right == RightHeader(h, a)
      newEnd == RoundUp(a + HeaderSize + FreeSize, PAGE_SIZE)
      freedUp == RoundUp(right, PAGE_SIZE) - newEnd
      newSize == h.header[a].size - freedUp
      h1 == Forget(UnlinkFree(h, a, bucket), {right})
      h2 == CreateAllocationHeader(h1, a + newSize, 0, a)
  IN IF freedUp = 0 THEN h
     ELSE PageFree(CreateFreeArea(h2, a, h.header[a].left, newSize), newEnd,
                   freedUp)

TrimStart(h, a, bucket) ==
  LET right == RightHeader(h, a)
      oldStart == RoundDown(a, PAGE_SIZE)
      newStart == RoundDown(right - HeaderSize, PAGE_SIZE)
      freedUp == newStart - oldStart
      rest == h.header[a].size - freedUp
      whole == rest < FreeSize
      h1 == Forget(UnlinkFree(h, a, bucket), {a, h.header[a].left})
      h2 == CreateAllocationHeader(h1, newStart,
              HeaderSize + (IF whole THEN rest ELSE 0), NULL)
      free == newStart + HeaderSize
      h3 == IF whole THEN FixLeftPointer(h2, right, newStart)
            ELSE FixLeftPointer(CreateFreeArea(h2, free, newStart, rest), right,
                                free)
  IN IF freedUp = 0 THEN h ELSE PageFree(h3, oldStart, freedUp)

TrimArea(h, entry) ==
  LET a == entry[2]
  IN IF IsEndOfOsAllocation(h, RightHeader(h, a)) THEN TrimEnd(h, a, entry[1])
     ELSE IF IsStartOfOsAllocation(h, h.header[a].left)
     THEN TrimStart(h, a, entry[1])
     ELSE h

\* The area is cut as if its left sentinel had the size of a header: one that
\* an earlier trim has widened leaves a hole.
MeetsWideSentinel(h, a) ==
  LET left == h.header[a].left
  IN /\ ~IsEndOfOsAllocation(h, RightHeader(h, a))
     /\ IsStartOfOsAllocation(h, left) /\ h.header[left].size > HeaderSize
     /\ RoundDown(RightHeader(h, a) - HeaderSize, PAGE_SIZE) > RoundDown(a, PAGE_SIZE)

\* The areas on the list of a bucket, in order.
RECURSIVE ListFrom(_, _)
ListFrom(h, a) ==
  IF a = NULL THEN <<>> ELSE <<a>> \o ListFrom(h, h.header[a].next)

\* cmpct_trim visits the areas of a page and more, smaller buckets first; an
\* area it has cut is not met again.
LargeAreas(h) ==
  LET first == SizeToIndexFreeing(PAGE_SIZE)
      entries(b) == LET l == ListFrom(h, h.lists[b])
                    IN [i \in DOMAIN l |-> <<b, l[i]>>]
  IN FlattenSeq([i \in 1..(NumberOfBuckets - first) |-> entries(first + i - 1)])

---------------------------------------------------------------------------
(* The clients. *)

Gets(result, size) ==
  /\ theheap' = result[1]
  /\ live' = IF result[2] = NULL THEN live
             ELSE [p \in DOMAIN live \cup {result[2]} |->
                     IF p = result[2] THEN size ELSE live[p]]
  /\ UNCHANGED broken

cmpct_alloc(size) ==
  /\ broken = {} /\ Cardinality(DOMAIN live) < MaxLive
  /\ Gets(Alloc(theheap, size), size)

\* An alignment below eight bytes asks for nothing more.
cmpct_memalign(size, alignment) ==
  /\ broken = {} /\ Cardinality(DOMAIN live) < MaxLive
  /\ \E unaligned \in {Alloc(theheap, IF alignment = 0 THEN size
                                     ELSE size + alignment + FreeSize + HeaderSize)} :
       IF alignment = 0 THEN Gets(unaligned, size)
       ELSE IF unaligned[2] = NULL
       THEN broken' = {"memalign"} /\ UNCHANGED <<theheap, live>>
       ELSE Gets(Align(unaligned[1], unaligned[2], alignment), size)

cmpct_free(p) ==
  /\ broken = {}
  /\ theheap' = Free(theheap, p)
  /\ live' = [q \in DOMAIN live \ {p} |-> live[q]]
  /\ UNCHANGED broken

\* The new block is used whether or not there is one.
cmpct_realloc(p, size) ==
  /\ broken = {}
  /\ \E made \in {Alloc(theheap, size)} :
       IF made[2] = NULL
       THEN broken' = {"realloc"} /\ UNCHANGED <<theheap, live>>
       ELSE /\ theheap' = Free(made[1], p)
            /\ live' = [q \in (DOMAIN live \ {p}) \cup {made[2]} |->
                          IF q = made[2] THEN size ELSE live[q]]
            /\ UNCHANGED broken

cmpct_trim ==
  /\ broken = {}
  /\ LET areas == LargeAreas(theheap)
     IN /\ theheap' = FoldLeft(TrimArea, theheap, areas)
        /\ broken' =
             {"trim" : i \in {j \in DOMAIN areas :
                theheap.header[areas[j][2]].size < PAGE_SIZE + HeaderSize}}
             \cup
             {"sentinel" : i \in {j \in DOMAIN areas :
                MeetsWideSentinel(theheap, areas[j][2])}}
  /\ UNCHANGED live

MallocNext ==
  \/ \E size \in Sizes : cmpct_alloc(size)
  \/ \E size \in Sizes, alignment \in Alignments : cmpct_memalign(size, alignment)
  \/ \E p \in DOMAIN live : cmpct_free(p)
  \/ \E p \in DOMAIN live, size \in Sizes : cmpct_realloc(p, size)
  \/ cmpct_trim

---------------------------------------------------------------------------
(* Properties. *)

\* The headers from the sentinel at a on, up to the sentinel that ends it.
RECURSIVE AreasFrom(_)
AreasFrom(a) ==
  IF a \notin DOMAIN theheap.header THEN <<a>>
  ELSE IF theheap.header[a].size = 0 THEN <<a>>
  ELSE <<a>> \o AreasFrom(a + theheap.header[a].size)

OsAllocations == {AreasFrom(a) : a \in {b \in DOMAIN theheap.header :
                                          theheap.header[b].left = NULL}}

\* The memory got from the page allocator is tiled by areas between its two
\* sentinels; each area knows its left neighbour; neighbours are never both
\* free; the pages held are those counted in size.
MemoryTiled ==
  /\ \A s \in OsAllocations :
       LET n == Len(s)
       IN /\ \A i \in 1..n : s[i] \in DOMAIN theheap.header
          /\ s[1] % PAGE_SIZE = 0 /\ (s[n] + HeaderSize) % PAGE_SIZE = 0
          /\ \A i \in 2..n : theheap.header[s[i]].left = s[i - 1]
          /\ ~theheap.header[s[1]].free /\ ~theheap.header[s[n]].free
          /\ \A i \in 2..n : ~(/\ theheap.header[s[i]].free
                               /\ theheap.header[s[i - 1]].free)
  /\ theheap.used = UNION {PagesFrom(s[1], s[Len(s)] + HeaderSize - s[1]) :
                             s \in OsAllocations}
  /\ theheap.size = PAGE_SIZE * Cardinality(theheap.used)
  /\ DOMAIN theheap.header = UNION {ToSet(s) : s \in OsAllocations}

\* Every free area is on the list of its size, once, and nothing else is; the
\* bits say which lists have an entry; remaining is what is free.
FreeListsRight ==
  LET free == {a \in DOMAIN theheap.header : theheap.header[a].free}
      listed(b) == ListFrom(theheap, theheap.lists[b])
  IN /\ \A b \in DOMAIN theheap.lists :
          /\ ToSet(listed(b)) = {a \in free :
               SizeToIndexFreeing(theheap.header[a].size - HeaderSize) = b}
          /\ b \in theheap.bits <=> theheap.lists[b] # NULL
          /\ \A i \in DOMAIN listed(b) :
               theheap.header[listed(b)[i]].prev
                 = IF i = 1 THEN NULL ELSE listed(b)[i - 1]
     /\ theheap.remaining
          = MapThenSumSet(LAMBDA a : theheap.header[a].size, free)

\* The areas that are neither free nor sentinels are the blocks of the
\* clients, and a block that went through a bucket is as large as was asked.
BlocksKept ==
  /\ {p - HeaderSize : p \in DOMAIN live}
       = UNION {{s[i] : i \in {j \in 2..(Len(s) - 1) : ~theheap.header[s[j]].free}} :
                  s \in OsAllocations}
  /\ \A p \in DOMAIN live :
       live[p] + HeaderSize <= 2^VirtualBits =>
         theheap.header[p - HeaderSize].size >= live[p] + HeaderSize

\* However tasks allocate, align, reallocate, free and trim, memory stays
\* tiled, the free lists right and the blocks of the clients their own, up to
\* the first trim that meets a sentinel an earlier one has widened.
HeapWellFormed ==
  \/ "sentinel" \in broken
  \/ /\ MemoryTiled /\ FreeListsRight /\ BlocksKept
     /\ "trim" \notin broken

\* header_struct: left is the "Pointer to the previous area in memory order",
\* so the area to the left ends where this one starts.
LeftIsPrevious ==
  \A a \in DOMAIN theheap.header :
    LET left == theheap.header[a].left
    IN left # NULL => left + theheap.header[left].size = a

\* heap_grow is asked for room for the header as well as for the block, so
\* every block is as large as was asked.
BlocksFit ==
  \A p \in DOMAIN live :
    theheap.header[p - HeaderSize].size >= live[p] + HeaderSize

\* A client that reallocates gets a block, or an answer that there is none.
ReallocAnswers == "realloc" \notin broken
=============================================================================
