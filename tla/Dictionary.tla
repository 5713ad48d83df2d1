------------------------------ MODULE Dictionary ------------------------------
(* What ObjectMap (src/vm/object_map.h) promises: a finite map from ids to
   objects that can also be asked for the id of an object. *)
CONSTANTS Id, Objects

VARIABLES
    entries,        \* the map
    answer          \* what the last operation found: nothing, an id or an object

vars == <<entries, answer>>

Init == entries = [i \in {} |-> 0] /\ answer = {}

Add(id, object) ==
    /\ answer' = {}
    /\ entries' = [i \in DOMAIN entries \cup {id} |-> IF i = id THEN object ELSE entries[i]]

\* By its id, or by its object.
Remove(id) ==
    /\ answer' = {id}
    /\ id \in DOMAIN entries
    /\ entries' = [i \in DOMAIN entries \ {id} |-> entries[i]]

LookupById(id) == answer' = {entries[i] : i \in {id} \cap DOMAIN entries}
LookupByObject(object) ==
    LET ids == {i \in DOMAIN entries : entries[i] = object}
    IN IF ids = {} THEN answer' = {} ELSE \E id \in ids : answer' = {id}

Next ==
    \/ /\ UNCHANGED entries
       /\ \/ answer' = {}         \* nothing to remove, or nothing asked for
          \/ \E id \in Id : LookupById(id)
          \/ \E object \in Objects : LookupByObject(object)
    \/ \E id \in Id : Remove(id) \/ \E object \in Objects : Add(id, object)

Spec == Init /\ [][Next]_vars
=============================================================================
