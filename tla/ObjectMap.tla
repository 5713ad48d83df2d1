------------------------------- MODULE ObjectMap -------------------------------
(***************************************************************************)
(* ObjectMap (src/vm/object_map.cc): the maps of a session from compiler   *)
(* ids to objects.  A hash table by id whose bucket lists are linked       *)
(* through the buckets, and a second one by object that is built on demand *)
(* and thrown away when the table grows or objects move.                   *)
(***************************************************************************)
EXTENDS Integers, SequencesExt, FiniteSetsExt

CONSTANTS
    Id,             \* naturals
    Objects,        \* addresses, naturals
    NULL,
    Capacity,       \* of a new map: a power of two
    GrowIntoList    \* may an id that makes the table grow share a list with another?

VARIABLES
    byId,           \* table_by_id_: index -> first bucket
    byObject,       \* table_by_object_, empty when it is not there
    bucket,         \* the allocated buckets
    size,
    result

vars == <<byId, byObject, bucket, size, result>>

NewTable(length) == [i \in 0..length - 1 |-> NULL]
NoTable == NewTable(0)

Init ==
    /\ byId = NewTable(Capacity)
    /\ byObject = NoTable
    /\ bucket = [b \in {} |-> NULL]
    /\ size = 0
    /\ result = {}

-----------------------------------------------------------------------------
(* The operations work on m, a record of the four variables. *)
Map == [byId |-> byId, byObject |-> byObject, bucket |-> bucket, size |-> size]
Become(m) ==
    /\ byId' = m.byId /\ byObject' = m.byObject /\ bucket' = m.bucket /\ size' = m.size

Length(table) == Cardinality(DOMAIN table)
HasTableByObject(m) == Length(m.byObject) > 0

\* A bucket list.  It ends with NULL, or where it runs into a deleted bucket.
RECURSIVE Chain(_, _)
Chain(m, b) == IF b \notin DOMAIN m.bucket THEN <<>> ELSE <<b>> \o Chain(m, m.bucket[b].next)
Buckets(m, table) == UNION {Range(Chain(m, table[i])) : i \in DOMAIN table}

\* The addresses of buckets: an id has at most one in each table.
InIds(id) == <<"id", id>>
InObjects(id) == <<"object", id>>
NewBucket(m, b, next, id, object) ==
    [m EXCEPT !.bucket = [x \in DOMAIN @ \cup {b} |->
        IF x = b THEN [next |-> next, id |-> id, object |-> object] ELSE @[x]]]
Delete(m, bs) == [m EXCEPT !.bucket = Restrict(@, DOMAIN @ \ bs)]

BucketIndexFromId(m, id) == id % Length(m.byId)
BucketIndexFromObject(m, object) == object % Length(m.byObject)

\* The first bucket of a list with the given id or object, or NULL.
First(m, head, Test(_)) ==
    LET chain == Chain(m, head)
        found == {i \in DOMAIN chain : Test(m.bucket[chain[i]])}
    IN IF found = {} THEN NULL ELSE chain[CHOOSE i \in found : \A j \in found : i <= j]
FindById(m, id) ==
    LET is(b) == b.id = id IN First(m, m.byId[BucketIndexFromId(m, id)], is)
FindByObject(m, object) ==
    LET is(b) == b.object = object
    IN First(m, m.byObject[BucketIndexFromObject(m, object)], is)

\* The bucket before b in its list, if any, is linked to the one after it.
Unlink(m, table, index, b) ==
    LET before == {x \in Range(Chain(m, table[index])) : m.bucket[x].next = b}
    IN [x \in DOMAIN m.bucket |->
          IF x \in before THEN [m.bucket[x] EXCEPT !.next = m.bucket[b].next] ELSE m.bucket[x]]
NewHead(m, table, index, b) ==
    IF table[index] = b THEN [table EXCEPT ![index] = m.bucket[b].next] ELSE table

DetachById(m, b) ==
    LET index == BucketIndexFromId(m, m.bucket[b].id)
    IN [m EXCEPT !.bucket = Unlink(m, m.byId, index, b), !.byId = NewHead(m, @, index, b)]
DetachByObject(m, b) ==
    LET index == BucketIndexFromObject(m, m.bucket[b].object)
    IN [m EXCEPT !.bucket = Unlink(m, m.byObject, index, b),
                 !.byObject = NewHead(m, @, index, b)]

AddToTableByObject(m, id, object) ==
    LET index == BucketIndexFromObject(m, object)
        b == InObjects(id)
    IN [NewBucket(m, b, m.byObject[index], id, object) EXCEPT !.byObject[index] = b]

ClearTableByObject(m) ==
    [Delete(m, Buckets(m, m.byObject)) EXCEPT !.byObject = NoTable]

\* All (id, object) pairs in the order of the table by id.
RECURSIVE Concat(_, _)
Concat(m, i) == IF i = Length(m.byId) THEN <<>> ELSE Chain(m, m.byId[i]) \o Concat(m, i + 1)
InOrder(m) == Concat(m, 0)

\* Linking the buckets bs, in this order, to the front of the lists Index gives.
LatestIn(bs, Index(_), i, before) ==
    LET js == {j \in 1..before : Index(bs[j]) = i}
    IN IF js = {} THEN NULL ELSE bs[CHOOSE j \in js : \A k \in js : k <= j]
Linked(length, bs, Index(_)) == [i \in 0..length - 1 |-> LatestIn(bs, Index, i, Len(bs))]
NextIn(bs, Index(_), j) == LatestIn(bs, Index, Index(bs[j]), j - 1)

PopulateTableByObject(m) ==
    LET old == InOrder(m)
        new == [j \in DOMAIN old |-> InObjects(m.bucket[old[j]].id)]
        length == Length(m.byId)
        index(b) == m.bucket[InIds(b[2])].object % length
        copy(j) == [m.bucket[old[j]] EXCEPT !.next = NextIn(new, index, j)]
    IN IF HasTableByObject(m) THEN m
       ELSE [m EXCEPT !.byObject = Linked(length, new, index),
                      !.bucket = [b \in DOMAIN @ \cup Range(new) |->
                          IF b \in DOMAIN @ THEN @[b]
                          ELSE copy(CHOOSE j \in DOMAIN new : new[j] = b)]]

Rehash(m, bs, length) ==
    LET index(b) == m.bucket[b].id % length
    IN [m EXCEPT !.byId = Linked(length, bs, index),
                 !.bucket = [b \in DOMAIN @ |->
                     IF b \notin Range(bs) THEN @[b]
                     ELSE [@[b] EXCEPT !.next =
                             NextIn(bs, index, CHOOSE j \in DOMAIN bs : bs[j] = b)]]]
Needed(m) == 2 * (m.size + 1)
Grows(m) == Needed(m) >= Length(m.byId)
Expand(m) ==
    LET counted == [m EXCEPT !.size = @ + 1]
        cleared == ClearTableByObject(counted)
    IN IF ~Grows(m) THEN counted
       ELSE Rehash(cleared, InOrder(m), 2 * Needed(m))

\* Add of an id that is there.
Update(m, b, object) ==
    LET old == m.bucket[b].object
        existing == FindByObject(m, old)
        detached == DetachByObject(m, existing)
        index == BucketIndexFromObject(m, object)
        moved == [detached EXCEPT
                    !.bucket[existing] = [@ EXCEPT !.next = detached.byObject[index],
                                                   !.object = object],
                    !.byObject[index] = existing]
    IN [(IF HasTableByObject(m) /\ old # object THEN moved ELSE m)
            EXCEPT !.bucket[b].object = object]

\* A slip: the list the bucket goes to is dropped.
InsertUnlinked(m, id, object) ==
    LET grown == Expand(m)
        b == InIds(id)
    IN [NewBucket(grown, b, NULL, id, object) EXCEPT !.byId[BucketIndexFromId(grown, id)] = b]

\* Add of a new id.  The list the bucket is linked to is read before the table
\* grows.
Insert(m, id, object) ==
    LET original == m.byId[BucketIndexFromId(m, id)]
        grown == Expand(m)
        b == InIds(id)
        added == [NewBucket(grown, b, original, id, object)
                    EXCEPT !.byId[BucketIndexFromId(grown, id)] = b]
    IN IF HasTableByObject(added) THEN AddToTableByObject(added, id, object) ELSE added

-----------------------------------------------------------------------------
(* The interface.  The session gives two ids to no object of a map. *)
Holders(object) == {b \in Buckets(Map, byId) : bucket[b].object = object}

Add(id, object) ==
    LET b == FindById(Map, id) IN
    /\ \A x \in Holders(object) : x = b
    /\ \/ b # NULL /\ Become(Update(Map, b, object))
       \/ /\ b = NULL
          /\ GrowIntoList \/ ~Grows(Map) \/ byId[BucketIndexFromId(Map, id)] = NULL
          /\ Become(Insert(Map, id, object))
    /\ result' = {}

RemoveById(id) ==
    LET b == FindById(Map, id)
        m == DetachById(Map, b)
        twin == FindByObject(m, bucket[b].object)
        rest == IF HasTableByObject(m) THEN Delete(DetachByObject(m, twin), {twin}) ELSE m
    IN /\ IF b = NULL THEN UNCHANGED <<byId, byObject, bucket, size>>
          ELSE Become([Delete(rest, {b}) EXCEPT !.size = @ - 1])
       /\ result' = IF b = NULL THEN {} ELSE {id}

RemoveByObject(object) ==
    LET m == PopulateTableByObject(Map)
        b == FindByObject(m, object)
        twin == FindById(m, m.bucket[b].id)
        rest == DetachById(DetachByObject(m, b), twin)
    IN /\ IF b = NULL THEN Become(m)
          ELSE Become([Delete(rest, {b, twin}) EXCEPT !.size = @ - 1])
       /\ result' = IF b = NULL THEN {} ELSE {m.bucket[b].id}

LookupById(id) ==
    LET b == FindById(Map, id) IN
    /\ result' = IF b = NULL THEN {} ELSE {bucket[b].object}
    /\ UNCHANGED <<byId, byObject, bucket, size>>

LookupByObject(object) ==
    LET m == PopulateTableByObject(Map)
        b == FindByObject(m, object)
    IN /\ Become(m)
       /\ result' = IF b = NULL THEN {} ELSE {m.bucket[b].id}

\* IteratePointers of the session, before objects move.
ClearForGC == Become(ClearTableByObject(Map)) /\ result' = {}

Next ==
    \/ \E id \in Id :
        \/ RemoveById(id) \/ LookupById(id)
        \/ \E object \in Objects : Add(id, object)
    \/ \E object \in Objects : RemoveByObject(object) \/ LookupByObject(object)
    \/ ClearForGC

Spec == Init /\ [][Next]_vars
-----------------------------------------------------------------------------
(* The map it stands for. *)
Entries ==
    LET listed == {bucket[b] : b \in Buckets(Map, byId)}
    IN [i \in {b.id : b \in listed} |-> (CHOOSE b \in listed : b.id = i).object]
Promise == INSTANCE Dictionary WITH entries <- Entries, answer <- result

\* ObjectMap behaves as a map from ids to objects and back, while it grows and while
\* the table by object comes and goes: "Returns NULL if the id does not exist in the
\* map." (session.h:119), and object_map_test.cc:19 finds every id that was added.
ActsAsDictionary == Promise!Spec
=============================================================================
