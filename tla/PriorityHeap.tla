----------------------------- MODULE PriorityHeap -----------------------------
(***************************************************************************)
(* PriorityHeapWithValueIndex (src/vm/priority_heap.h), the binary heap of *)
(* the timeouts of the event handler: an array of entries ordered as a     *)
(* heap by priority, and a hash map from each value to its offset.         *)
(***************************************************************************)
EXTENDS Integers, FiniteSets, Functions

CONSTANTS
    Value,
    MaxPriority,    \* priorities are 0..MaxPriority, an int64 in the code
    kMinimumSize,
    IntWidth,       \* bits of an int, in which priorities are subtracted
    Ops             \* the operations in use

VARIABLES
    heap,           \* [backing |-> backing_[0..size_-1], hashmap |-> hashmap_]
    backing_size

vars == <<heap, backing_size>>

Priority == 0..MaxPriority
Entry == [priority : Priority, value : Value]

Size(h) == Cardinality(DOMAIN h.backing)

Init ==
    /\ heap = [backing |-> [i \in {} |-> 0], hashmap |-> [v \in {} |-> 0]]
    /\ backing_size = kMinimumSize

ContainsValue(v) == v \in DOMAIN heap.hashmap
Minimum == heap.backing[0]

-----------------------------------------------------------------------------
(* The private operations, on a heap h *)

\* The function f with x mapped to y.
Put(f, x, y) == [z \in DOMAIN f \cup {x} |-> IF z = x THEN y ELSE f[z]]

Set(h, i, entry) ==
    [backing |-> Put(h.backing, i, entry), hashmap |-> Put(h.hashmap, entry.value, i)]

\* Mutant: the hash map is not told.
SwapEntries(h, i, j) ==
    [h EXCEPT !.backing[i] = h.backing[j], !.backing[j] = h.backing[i]]

Swap(h, i, j) == Set(Set(h, i, h.backing[j]), j, h.backing[i])

\* It goes up to the root whether or not it swaps.
RECURSIVE BubbleUp(_, _)
BubbleUp(h, offset) ==
    LET parent == (offset - 1) \div 2
    IN IF offset = 0 THEN h
       ELSE IF h.backing[parent].priority > h.backing[offset].priority
            THEN BubbleUp(Swap(h, parent, offset), parent)
            ELSE BubbleUp(h, parent)

\* Mutant: only the left child is looked at.
RECURSIVE BubbleDownLeft(_, _)
BubbleDownLeft(h, offset) ==
    LET left == 2 * offset + 1
    IN IF left < Size(h) /\ h.backing[left].priority < h.backing[offset].priority
       THEN BubbleDownLeft(Swap(h, offset, left), left)
       ELSE h

RECURSIVE BubbleDown(_, _)
BubbleDown(h, offset) ==
    LET left == 2 * offset + 1
        right == left + 1
        less(i, j) == i < Size(h) /\ h.backing[i].priority < h.backing[j].priority
        smaller == IF less(left, offset) THEN left ELSE offset
        smallest == IF less(right, smaller) THEN right ELSE smaller
    IN IF smallest = offset THEN h
       ELSE BubbleDown(Swap(h, offset, smallest), smallest)

\* Mutant: the last entry is removed instead.
RemoveEntryLast(h, offset) ==
    LET last == Size(h) - 1
    IN [backing |-> Restrict(h.backing, 0..(last - 1)),
        hashmap |-> Restrict(h.hashmap, DOMAIN h.hashmap \ {h.backing[last].value})]

\* The heap without its last entry, which is the one to remove or else replaces
\* the one at the offset (Replace).
RemoveEntry(h, offset) ==
    LET last == Size(h) - 1
        moved == IF offset = last THEN h.backing ELSE [h.backing EXCEPT ![offset] = h.backing[last]]
        kept == DOMAIN h.hashmap \ {h.backing[offset].value}
    IN [backing |-> Restrict(moved, 0..(last - 1)),
        hashmap |-> [v \in kept |-> IF v = h.backing[last].value THEN offset ELSE h.hashmap[v]]]

\* Mutant: the array shrinks too early.
RemoveAtShrinks(offset) ==
    /\ heap' = RemoveEntry(heap, offset)
    /\ backing_size' = IF kMinimumSize <= backing_size \div 2
                       THEN backing_size \div 2 ELSE backing_size

RemoveAt(offset) ==
    LET removed == RemoveEntry(heap, offset)
        size == Size(removed)
    IN /\ heap' = IF offset = size THEN removed ELSE BubbleDown(removed, offset)
       /\ backing_size' = IF size <= backing_size \div 4 /\ kMinimumSize <= backing_size \div 2
                          THEN backing_size \div 2 ELSE backing_size

\* A difference of priorities in an int.
IntDiff(x, y) ==
    ((x - y + 2 ^ (IntWidth - 1)) % (2 ^ IntWidth)) - 2 ^ (IntWidth - 1)

-----------------------------------------------------------------------------
(* The public operations *)

Insert(p, v) ==
    LET size == Size(heap)
    IN /\ heap' = BubbleUp(Set(heap, size, [priority |-> p, value |-> v]), size)
       /\ backing_size' = IF size = backing_size THEN 2 * backing_size ELSE backing_size

RemoveMinimum ==
    /\ "RemoveMinimum" \in Ops
    /\ Size(heap) > 0
    /\ RemoveAt(0)

RemoveByValue(v) ==
    /\ "RemoveByValue" \in Ops
    /\ ContainsValue(v)
    /\ RemoveAt(heap.hashmap[v])

InsertNew(p, v) ==
    /\ "Insert" \in Ops
    /\ ~ContainsValue(v)
    /\ Insert(p, v)

(* InsertOrChangePriority of a value that is there *)
ChangePriority(p, v) ==
    /\ "Change" \in Ops
    /\ ContainsValue(v)
    /\ LET offset == heap.hashmap[v]
           h == [heap EXCEPT !.backing[offset].priority = p]
           diff == IntDiff(p, h.backing[(offset - 1) \div 2].priority)
       IN heap' = IF offset = 0 THEN BubbleDown(h, offset)
                  ELSE IF diff < 0 THEN BubbleUp(h, offset)
                  ELSE IF diff > 0 THEN BubbleDown(h, offset)
                  ELSE h
    /\ UNCHANGED backing_size

Next ==
    \/ RemoveMinimum
    \/ \E v \in Value : RemoveByValue(v)
    \/ \E v \in Value, p \in Priority : InsertNew(p, v) \/ ChangePriority(p, v)

Spec == Init /\ [][Next]_vars

-----------------------------------------------------------------------------
\* The hash map holds the offset of every value of the array and of no other: the
\* ASSERTs after RemoveByValue and in RemoveAt and Replace.
IndexMatches ==
    /\ \A i \in DOMAIN heap.backing :
          LET v == heap.backing[i].value
          IN v \in DOMAIN heap.hashmap /\ heap.hashmap[v] = i
    /\ Cardinality(DOMAIN heap.hashmap) = Size(heap)

\* The array has room for its entries, and shrinks to kMinimumSize when it is
\* emptied: the ASSERT in Resize.
BackingFits ==
    /\ DOMAIN heap.backing = 0..(Size(heap) - 1)
    /\ Size(heap) <= backing_size
    /\ kMinimumSize <= backing_size
    /\ backing_size > 2 * kMinimumSize => Size(heap) > backing_size \div 4

\* Minimum returns an entry of the least priority.
MinimumIsLeast ==
    \A i \in DOMAIN heap.backing : Minimum.priority <= heap.backing[i].priority

\* No entry is below one of greater priority.
IsHeap ==
    \A i \in DOMAIN heap.backing \ {0} :
        heap.backing[(i - 1) \div 2].priority <= heap.backing[i].priority

\* Every operation but the removal of an entry from the middle keeps the order of
\* the heap, so that Minimum is least: the comparisons of BubbleUp, BubbleDown and
\* InsertOrChangePriority look at enough of the array.
OrderKept ==
    [][IsHeap /\ ~(\E v \in Value : RemoveByValue(v) /\ v # Minimum.value) => IsHeap']_vars

Entries(h) == Range(h.backing)

\* Every operation has the effect of its name on the set of entries, whatever the
\* order of the array: no timeout is lost, duplicated or changed but the one the
\* operation is about.
EntriesKept ==
    [][/\ RemoveMinimum => Entries(heap') = Entries(heap) \ {Minimum}
       /\ \A v \in Value :
             LET others == {e \in Entries(heap) : e.value # v}
             IN /\ RemoveByValue(v) => Entries(heap') = others
                /\ \A p \in Priority : InsertNew(p, v) \/ ChangePriority(p, v) =>
                      Entries(heap') = others \cup {[priority |-> p, value |-> v]}]_vars
=============================================================================
