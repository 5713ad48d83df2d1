---------------------------- MODULE LiveEditing ----------------------------
(***************************************************************************)
(* Changing a running program: the session's stack of objects, its maps    *)
(* from the compiler's ids to objects, the list of postponed changes, and  *)
(* CommitChanges, which applies them and rewrites every instance of a      *)
(* class whose fields changed (session.cc, object.cc).                     *)
(*                                                                         *)
(* An object is a record; its address is its index in heap, and a larger   *)
(* address in the same space was allocated later.  The commands are those  *)
(* of a compiler that keeps track of the types on the stack.               *)
(***************************************************************************)
EXTENDS Integers, Sequences, FiniteSets, SequencesExt

CONSTANTS
  NULL,         \* a map that was deleted or never made
  Edits,        \* the edits a compiler may send: sequences of commands
  MaxChanges,   \* bound: edits in one update
  MaxUpdates,   \* bound: updates
  NewSpaceRoom  \* how many clones the new space has room for

VARIABLES
  client,      \* the commands of the update being sent; updates begun
  heap,        \* address -> object
  roots,       \* Program: the static fields and the entry function
  process,     \* the roots of the process: its statics and its exception
  optimized,   \* Program::is_optimized
  session,     \* the session's stack, maps, changes, error and state
  at,          \* where TransformInstances stands: phase, object and slot
  remembered,  \* old objects in the remembered set
  cloned,      \* what CloneTransformed found in each instance it replaced
  failed       \* assertions that failed

editVars == <<client, heap, roots, process, optimized, session, at, remembered,
              cloned, failed>>

---------------------------------------------------------------------------
(* Objects and values. *)

Num(n) == [ref |-> FALSE, v |-> n]
Ref(o) == [ref |-> TRUE, v |-> o]
NullObject == Ref(1)

Object(kind, space, class, slots) ==
  [kind |-> kind, space |-> space, class |-> class, slots |-> slots,
   fields |-> 0, target |-> 0, transformation |-> 0, forward |-> 0]

\* A class: its slots are the super class and the table of methods.
ClassObject(fields, super, methods) ==
  [Object("class", "program", 0, <<super, methods>>) EXCEPT !.fields = fields]

IsTransformed(h, c) == c # 0 /\ h[c].target # 0

Is(h, v, kind) == v.ref /\ h[v.v].kind = kind

\* null, class A with one field, class B with A as super class, a constant A,
\* a function that loads the constant, the program's and the process' static
\* fields, and two instances in the process heap, one pointing at the other,
\* the second also being the exception that stopped the process.
FirstHeap ==
  <<Object("instance", "program", 2, <<>>),
    ClassObject(0, NullObject, NullObject),
    ClassObject(1, Ref(2), NullObject),
    ClassObject(1, Ref(3), NullObject),
    Object("instance", "program", 3, <<Num(7)>>),
    Object("function", "program", 0, <<Ref(5)>>),
    Object("array", "program", 0, <<NullObject>>),
    Object("array", "new", 0, <<NullObject, NullObject>>),
    Object("instance", "new", 3, <<Ref(5)>>),
    Object("instance", "new", 4, <<NullObject>>)>>

EditInit ==
  /\ client = [todo |-> <<>>, updates |-> 0]
  /\ heap = [FirstHeap EXCEPT ![8].slots = <<Ref(9), Ref(10)>>,
                              ![10].slots = <<Ref(9)>>]
  /\ roots = <<Ref(7), Ref(6)>>
  /\ process = <<Ref(8), Ref(10)>>
  /\ optimized = TRUE
  /\ session = [stack |-> <<>>, changes |-> <<>>, error |-> FALSE,
                maps |-> [m \in {0, 1} |->
                            IF m = 0 THEN [i \in {0, 1, 2} |->
                                             Ref(<<3, 4, 6>>[i + 1])]
                                     ELSE NULL],
                state |-> "paused"]
  /\ at = [phase |-> "none", object |-> 1, slot |-> 1]
  /\ remembered = {}
  /\ cloned = << >>
  /\ failed = {}

---------------------------------------------------------------------------
(* The session's stack. *)

Top == Last(session.stack)
Pops(n) == n <= Len(session.stack)

\* The stack after popping n values and pushing v.
Pushed(n, v) ==
  [session EXCEPT !.stack =
     Append(SubSeq(@, 1, Len(@) - n), v)]

Popped(n) == SubSeq(session.stack, Len(session.stack) - n + 1,
                    Len(session.stack))

\* The next command on the connection is c.
Receives(c) ==
  /\ at.phase = "none"
  /\ client.todo # <<>> /\ Head(client.todo) = c
  /\ client' = [client EXCEPT !.todo = Tail(@)]

\* GC_AND_RETRY_ON_ALLOCATION_FAILURE: a collection in between moves objects
\* and changes neither the stack nor what it refers to.
Create(object, pops) ==
  /\ heap' = Append(heap, object)
  /\ session' = Pushed(pops, Ref(Len(heap) + 1))
  /\ UNCHANGED <<roots, process, optimized, at, remembered, cloned, failed>>

OnlySession == UNCHANGED <<heap, roots, process, optimized, at, remembered,
                           cloned, failed>>

PushNewInteger(n) ==
  Receives(<<"PushNewInteger", n>>) /\ session' = Pushed(0, Num(n)) /\ OnlySession

PushNull ==
  Receives(<<"PushNull">>) /\ session' = Pushed(0, NullObject) /\ OnlySession

\* The class is popped first, then the fields in reverse order.
PushNewInstance ==
  /\ Receives(<<"PushNewInstance">>) /\ Pops(1) /\ Is(heap, Top, "class")
  /\ LET n == heap[Top.v].fields
     IN /\ Pops(n + 1)
        /\ Create(Object("instance", "program", Top.v,
                         SubSeq(Popped(n + 1), 1, n)), n + 1)

PushNewArray(n) ==
  /\ Receives(<<"PushNewArray", n>>) /\ Pops(n)
  /\ Create(Object("array", "program", 0, Popped(n)), n)

PushNewFunction(literals) ==
  /\ Receives(<<"PushNewFunction", literals>>)
  /\ Pops(literals) /\ ~optimized
  /\ Create(Object("function", "program", 0, Popped(literals)), literals)

PushNewInitializer ==
  /\ Receives(<<"PushNewInitializer">>)
  /\ Pops(1) /\ Is(heap, Top, "function")
  /\ Create(Object("initializer", "program", 0, <<Top>>), 1)

PushNewClass(fields) ==
  /\ Receives(<<"PushNewClass", fields>>)
  /\ Create(ClassObject(fields, NullObject, NullObject), 0)

PushBuiltinClass ==
  Receives(<<"PushBuiltinClass">>) /\ session' = Pushed(0, Ref(2)) /\ OnlySession
---------------------------------------------------------------------------
(* The maps.  A missing entry pushes NULL, which is shown as null here, and *)
(* makes every later commit fail.                                           *)

NewMap(m) ==
  /\ Receives(<<"NewMap", m>>)
  /\ session' = [session EXCEPT !.maps[m] = << >>] /\ OnlySession

DeleteMap(m) ==
  /\ Receives(<<"DeleteMap", m>>)
  /\ session' = [session EXCEPT !.maps[m] = NULL] /\ OnlySession

PushFromMap(m, id) ==
  /\ Receives(<<"PushFromMap", id>>) /\ session.maps[m] # NULL
  /\ LET exists == id \in DOMAIN session.maps[m]
         object == IF exists THEN session.maps[m][id] ELSE NullObject
     IN session' = [Pushed(0, object) EXCEPT !.error = @ \/ ~exists]
  /\ OnlySession

PopToMap(m, id) ==
  /\ Receives(<<"PopToMap", id>>) /\ Pops(1) /\ session.maps[m] # NULL
  /\ session' = [session EXCEPT
       !.stack = Front(@),
       !.maps[m] = [i \in DOMAIN @ \cup {id} |-> IF i = id THEN Top ELSE @[i]]]
  /\ OnlySession

RemoveFromMap(m, id) ==
  /\ Receives(<<"RemoveFromMap", id>>) /\ session.maps[m] # NULL
  /\ session' = [session EXCEPT
       !.maps[m] = [i \in DOMAIN @ \ {id} |-> @[i]]]
  /\ OnlySession

---------------------------------------------------------------------------
(* Changes. *)

\* Unfolding the program does not change what its objects refer to.
PrepareForChanges ==
  /\ Receives(<<"PrepareForChanges">>) /\ session.state = "paused"
  /\ session' = [session EXCEPT !.state = "modifying"]
  /\ optimized' = FALSE
  /\ UNCHANGED <<heap, roots, process, at, remembered, cloned, failed>>

\* count values are popped, the last one first, after `pushed` was pushed.
PostponeChange(change, count, pushed) ==
  /\ session.state = "modifying"
  /\ LET stack == session.stack \o pushed
         rest  == Len(stack) - count
     IN /\ rest >= 0
        /\ session' = [session EXCEPT
             !.stack = SubSeq(stack, 1, rest),
             !.changes = Append(@, [change |-> change,
                                    args |-> SubSeq(stack, rest + 1,
                                                    Len(stack))])]
  /\ OnlySession

Second == session.stack[Len(session.stack) - 1]

ChangeSuperClass ==
  /\ Receives(<<"ChangeSuperClass">>)
  /\ Pops(2) /\ Is(heap, Top, "class") /\ Is(heap, Second, "class")
  /\ PostponeChange("super class", 2, <<>>)

\* Also pushes the array of its methods first, as PushNewArray does.
ChangeMethodTable ==
  /\ Receives(<<"ChangeMethodTable">>)
  /\ Pops(2) /\ Is(heap, Top, "array") /\ Is(heap, Second, "class")
  /\ PostponeChange("method table", 2, <<>>)

ChangeMethodLiteral(index) ==
  /\ Receives(<<"ChangeMethodLiteral", index>>)
  /\ Pops(2) /\ Is(heap, Second, "function")
  /\ index \in DOMAIN heap[Second.v].slots
  /\ PostponeChange("literal", 3, <<Num(index)>>)

ChangeStatics ==
  /\ Receives(<<"ChangeStatics">>)
  /\ Pops(1) /\ Is(heap, Top, "array")
  /\ PostponeChange("statics", 1, <<>>)

\* The transformation holds a pair for each field of the new prefix: <<0,
\* value>>, or <<1, index>> for a field of the old instance.
WellFormed(c, t, delta) ==
  LET pairs == heap[t].slots
      new   == Len(pairs) \div 2
  IN /\ Len(pairs) % 2 = 0
     /\ new - delta \in 0..heap[c].fields
     /\ \A i \in 1..new :
          /\ pairs[2*i - 1] \in {Num(0), Num(1)}
          /\ pairs[2*i - 1] = Num(1) =>
               ~pairs[2*i].ref /\ pairs[2*i].v \in 0..(heap[c].fields - 1)

ChangeSchemas(delta) ==
  /\ Receives(<<"ChangeSchemas", delta>>)
  /\ Pops(2) /\ Is(heap, Top, "array") /\ Is(heap, Second, "class")
  /\ WellFormed(Second.v, Top.v, delta)
  /\ PostponeChange("schemas", 3, <<Num(delta)>>)

DiscardChanges ==
  /\ Receives(<<"DiscardChanges">>) /\ session.state = "modifying"
  /\ session' = [session EXCEPT !.changes = <<>>, !.state = "paused"]
  /\ OnlySession

---------------------------------------------------------------------------
(* Committing. *)

Referred(S) == {v.v : v \in {w \in S : w.ref}}

Children(h, o) ==
  Referred(ToSet(h[o].slots))
    \cup ({h[o].class, h[o].target, h[o].transformation} \ {0})

RootValues ==
  ToSet(roots) \cup ToSet(process) \cup ToSet(session.stack)
    \cup UNION {ToSet(c.args) : c \in ToSet(session.changes)}
    \cup UNION {{session.maps[m][i] : i \in DOMAIN session.maps[m]} :
                  m \in {n \in DOMAIN session.maps : session.maps[n] # NULL}}

RECURSIVE Closure(_, _)
Closure(h, S) ==
  LET more == S \cup UNION {Children(h, o) : o \in S}
  IN IF more = S THEN S ELSE Closure(h, more)

Reachable == Closure(heap, Referred(RootValues) \cup {1, 2})

\* What the two collections of new space and the shared collection leave:
\* reachable objects, those of the process in old space.
Collected ==
  LET live == Reachable
  IN [o \in DOMAIN heap |->
       IF o \notin live THEN Object("free", "none", 0, <<>>)
       ELSE IF heap[o].space = "new" THEN [heap[o] EXCEPT !.space = "old"]
       ELSE heap[o]]

\* One change applied to state s = [heap, roots, schemas, failed].
Apply(s, c) ==
  LET a == c.args
  IN CASE c.change = "super class" ->
            [s EXCEPT !.heap[a[1].v].slots[1] = a[2],
                      !.failed = @ \/ s.schemas]
       [] c.change = "method table" ->
            [s EXCEPT !.heap[a[1].v].slots[2] = a[2],
                      !.failed = @ \/ s.schemas]
       [] c.change = "literal" ->
            [s EXCEPT !.heap[a[1].v].slots[a[3].v] = a[2]]
       [] c.change = "statics" -> [s EXCEPT !.roots[1] = a[1]]
       [] c.change = "schemas" ->
            LET original == s.heap[a[1].v]
                target == [original EXCEPT !.fields = @ + a[3].v,
                                           !.target = 0,
                                           !.transformation = 0]
            IN [s EXCEPT
                 !.heap = Append([@ EXCEPT
                    ![a[1].v].target = Len(s.heap) + 1,
                    ![a[1].v].transformation = a[2].v], target),
                 !.failed = @ \/ original.target # 0,
                 !.schemas = TRUE]

ApplyAll(h) == FoldLeft(Apply, [heap |-> h, roots |-> roots,
                                schemas |-> FALSE, failed |-> FALSE],
                        session.changes)

\* A wrong count throws the changes away.  Another error leaves them.
CommitFails(count) ==
  /\ Receives(<<"CommitChanges", count>>) /\ session.state = "modifying"
  /\ count # Len(session.changes) \/ session.error
  /\ heap' = Collected
  /\ remembered' = {}
  /\ session' = [session EXCEPT
       !.error = TRUE,
       !.changes = IF count # Len(session.changes) THEN <<>> ELSE @,
       !.state = "paused"]
  /\ UNCHANGED <<roots, process, optimized, at, cloned, failed>>

CommitChanges(count) ==
  /\ Receives(<<"CommitChanges", count>>) /\ session.state = "modifying"
  /\ count = Len(session.changes) /\ ~session.error
  /\ LET s == ApplyAll(Collected)
     IN /\ heap' = s.heap
        /\ roots' = s.roots
        /\ at' = [at EXCEPT !.phase = IF s.schemas THEN "roots" ELSE "fold"]
        /\ failed' = failed
             \cup (IF s.failed THEN {"changes after schemas"} ELSE {})
             \cup (IF s.schemas /\ NULL \in Range(session.maps)
                   THEN {"HasTableByObject"} ELSE {})
  /\ remembered' = {}
  /\ session' = [session EXCEPT !.changes = <<>>]
  /\ UNCHANGED <<process, optimized, cloned>>

---------------------------------------------------------------------------
(* TransformInstances: one slot at a time. *)

\* Where a clone is allocated: CreateInstance in the visitor's heap, and in
\* the process heap CreateOldSpaceInstance once the new space is full.
CloneSpace(visitor) ==
  IF visitor = "program" THEN "program"
  ELSE IF Cardinality({o \in DOMAIN heap : heap[o].space = "new"})
          < NewSpaceRoom THEN "new" ELSE "old"

\* The fields of the clone: the prefix by the transformation, the suffix as
\* it was.
CloneFields(o) ==
  LET c     == heap[heap[o].class]
      pairs == heap[c.transformation].slots
      new   == heap[c.target].fields
      newPrefix == Len(pairs) \div 2
      oldPrefix == newPrefix - (new - c.fields)
  IN [i \in 1..new |->
        IF i > newPrefix THEN heap[o].slots[i - newPrefix + oldPrefix]
        ELSE IF pairs[2*i - 1] = Num(0) THEN pairs[2*i]
        ELSE heap[o].slots[pairs[2*i].v + 1]]

\* The old instance keeps its address; its fields become fillers.
CloneTransformed(o, space) ==
  Append([heap EXCEPT ![o].forward = Len(heap) + 1,
                      ![o].slots = [i \in DOMAIN @ |-> Num(0)]],
         [Object("instance", space, heap[heap[o].class].target,
                 CloneFields(o)) EXCEPT !.fields = 0])

\* VisitBlock on one value held by `holder` (0 for a root, which sets no
\* current object): the value that replaces it.
Replacement(v, clone) ==
  IF ~v.ref THEN v
  ELSE IF heap[v.v].forward # 0 THEN Ref(heap[v.v].forward)
  ELSE IF heap[v.v].kind = "instance" /\ IsTransformed(heap, heap[v.v].class)
       THEN Ref(clone)
  ELSE IF heap[v.v].kind = "class" /\ IsTransformed(heap, v.v)
       THEN Ref(heap[v.v].target)
  ELSE v

Clones(v) ==
  v.ref /\ heap[v.v].forward = 0 /\ heap[v.v].kind = "instance"
        /\ IsTransformed(heap, heap[v.v].class)

Visitor == IF at.phase \in {"roots", "program"} THEN "program" ELSE "process"

\* The effect of VisitBlock beside the slot itself.
VisitValue(v, holder) ==
  IF ~Clones(v) THEN UNCHANGED <<remembered, cloned, failed>>
  ELSE LET space == CloneSpace(Visitor)
       IN /\ cloned' = [o \in DOMAIN cloned \cup {v.v} |->
                          IF o = v.v THEN CloneFields(o) ELSE cloned[o]]
          /\ remembered' = remembered
               \cup (IF space = "new" THEN {holder} \ {0} ELSE {})
          /\ failed' = failed
               \cup (IF (heap[v.v].space = "program") # (Visitor = "program")
                     THEN {"heap does not include instance"} ELSE {})
               \cup (IF Visitor = "process" /\ space = "old"
                     THEN {"IsTwoSpaceHeap"} ELSE {})

Cloned(v) == IF Clones(v) THEN CloneTransformed(v.v, CloneSpace(Visitor))
                          ELSE heap


MapsMade == {m \in DOMAIN session.maps : session.maps[m] # NULL}

ProgramRoots == ToSet(roots) \cup ToSet(session.stack)
                  \cup UNION {Range(session.maps[m]) : m \in MapsMade}

\* The values a visitor still has to replace.
Stale(S) == {v \in S : Replacement(v, 0) # v}

\* Program::IterateRoots, the session's pointers included.  All the roots
\* holding one value are visited together.
VisitProgramRoot ==
  /\ at.phase = "roots" /\ Stale(ProgramRoots) # {}
  /\ LET v    == CHOOSE w \in Stale(ProgramRoots) : TRUE
         new  == Replacement(v, Len(heap) + 1)
         R(w) == IF w = v THEN new ELSE w
     IN /\ VisitValue(v, 0)
        /\ heap' = Cloned(v)
        /\ roots' = [i \in DOMAIN roots |-> R(roots[i])]
        /\ session' = [session EXCEPT
             !.stack = [i \in DOMAIN @ |-> R(@[i])],
             !.maps = [m \in DOMAIN @ |->
                         IF @[m] = NULL THEN NULL
                         ELSE [i \in DOMAIN @[m] |-> R(@[m][i])]]]
  /\ UNCHANGED <<client, process, optimized, at>>

\* Process::IterateRoots.  The visitor has seen no object yet: the address
\* it inserts into the remembered set for a new-space clone is whatever the
\* field holds, here the card of any object or of none.
VisitProcessRoot ==
  /\ at.phase = "process roots" /\ Stale(ToSet(process)) # {}
  /\ LET v == CHOOSE w \in Stale(ToSet(process)) : TRUE
     IN /\ \E card \in {0} \cup {o \in DOMAIN heap : heap[o].space = "old"} :
             VisitValue(v, card)
        /\ heap' = Cloned(v)
        /\ process' = [i \in DOMAIN process |->
                         IF process[i] = v
                         THEN Replacement(v, Len(heap) + 1) ELSE process[i]]
  /\ UNCHANGED <<client, roots, optimized, session, at>>

\* CompleteTransformations walks the objects of a space by address, those
\* the walk itself allocates included, and steps over forwarded ones.  In
\* old space it does not enter the areas allocated since the tracking began.
Walked(space, o) ==
  /\ heap[o].space = space /\ heap[o].kind # "free" /\ heap[o].forward = 0
  /\ space = "old" => o \notin {heap[p].forward : p \in DOMAIN heap}

InPhase == at.phase \in {"program", "new", "old"}

\* The slots the visitor sees: those of the object, and of a class also its
\* transformation, whose pointers need no replacement.
VisitSlot ==
  /\ InPhase /\ at.object <= Len(heap) /\ Walked(at.phase, at.object)
  /\ at.slot <= Len(heap[at.object].slots)
  /\ LET v == heap[at.object].slots[at.slot]
     IN /\ VisitValue(v, at.object)
        /\ heap' = [Cloned(v) EXCEPT ![at.object].slots[at.slot] =
                      Replacement(v, Len(heap) + 1)]
  /\ at' = [at EXCEPT !.slot = @ + 1]
  /\ UNCHANGED <<client, roots, process, optimized, session>>

NextObject ==
  /\ InPhase /\ at.object <= Len(heap)
  /\ ~Walked(at.phase, at.object) \/ at.slot > Len(heap[at.object].slots)
  /\ at' = [at EXCEPT !.object = @ + 1, !.slot = 1]
  /\ UNCHANGED <<client, heap, roots, process, optimized, session, remembered,
                 cloned, failed>>

NextPhase ==
  /\ \/ at.phase = "roots" /\ Stale(ProgramRoots) = {}
     \/ at.phase = "process roots" /\ Stale(ToSet(process)) = {}
     \/ InPhase /\ at.object > Len(heap)
  /\ at' = [phase |-> CASE at.phase = "roots" -> "program"
                        [] at.phase = "program" -> "process roots"
                        [] at.phase = "process roots" -> "new"
                        [] at.phase = "new" -> "old"
                        [] at.phase = "old" -> "rebuild",
            object |-> 1, slot |-> 1]
  /\ UNCHANGED <<client, heap, roots, process, optimized, session, remembered,
                 cloned, failed>>

\* The places of the forwarded instances become free.
RebuildAfterTransformations ==
  /\ at.phase = "rebuild"
  /\ heap' = [o \in DOMAIN heap |->
                IF heap[o].forward # 0 /\ heap[o].space \in {"new", "old"}
                THEN [heap[o] EXCEPT !.kind = "free"] ELSE heap[o]]
  /\ at' = [at EXCEPT !.phase = "fold"]
  /\ UNCHANGED <<client, roots, process, optimized, session, remembered, cloned,
                 failed>>

Fold ==
  /\ at.phase = "fold"
  /\ optimized' = TRUE
  /\ session' = [session EXCEPT !.state = "paused"]
  /\ at' = [phase |-> "committed", object |-> 1, slot |-> 1]
  /\ UNCHANGED <<client, heap, roots, process, remembered, cloned, failed>>

---------------------------------------------------------------------------
\* The client sends the next update once the last one was answered.
SendUpdate ==
  /\ client.todo = <<>> /\ at.phase \in {"none", "committed"}
  /\ client.updates < MaxUpdates
  /\ \E n \in 1..MaxChanges : \E edits \in [1..n -> Edits] :
     \E end \in {<<"DiscardChanges">>} \cup {<<"CommitChanges", c>> : c \in {1, n}} :
       client' = [todo |-> <<<<"PrepareForChanges">>>>
                             \o FlattenSeq(edits) \o <<end>>,
                  updates |-> client.updates + 1]
  /\ at' = [at EXCEPT !.phase = "none"]
  /\ cloned' = << >>
  /\ UNCHANGED <<heap, roots, process, optimized, session, remembered, failed>>

EditNext ==
  \/ SendUpdate
  \/ \E n \in {0, 1} : PushNewInteger(n) \/ PushNewClass(n)
  \/ PushNull \/ PushNewInstance \/ PushNewInitializer \/ PushBuiltinClass
  \/ \E n \in 0..4 : PushNewArray(n)
  \/ PushNewFunction(1)
  \/ \E m \in DOMAIN session.maps : NewMap(m) \/ DeleteMap(m)
  \/ \E id \in 0..3 : PushFromMap(0, id) \/ PopToMap(0, id)
                        \/ RemoveFromMap(0, id)
  \/ PrepareForChanges \/ DiscardChanges
  \/ ChangeSuperClass \/ ChangeMethodTable \/ ChangeMethodLiteral(1)
  \/ ChangeStatics
  \/ \E delta \in {-1, 0, 1} : ChangeSchemas(delta)
  \/ \E count \in 0..MaxChanges : CommitFails(count) \/ CommitChanges(count)
  \/ VisitProgramRoot \/ VisitProcessRoot \/ VisitSlot
  \/ NextObject \/ NextPhase \/ RebuildAfterTransformations \/ Fold

---------------------------------------------------------------------------
(* Properties. *)

Committed == at.phase = "committed"

Final(v) == IF v.ref /\ heap[v.v].forward # 0 THEN Ref(heap[v.v].forward)
            ELSE IF v.ref /\ IsTransformed(heap, v.v) THEN Ref(heap[v.v].target)
            ELSE v

\* Nothing reached from the values R is an instance of a class whose schema
\* changed, a place such an instance left, or the class itself, and every
\* instance has as many fields as its class says.
Transformed(R) ==
  \A o \in Closure(heap, Referred(R)) :
    /\ heap[o].forward = 0 /\ heap[o].kind # "free" /\ heap[o].target = 0
    /\ heap[o].kind = "instance" =>
         Len(heap[o].slots) = heap[heap[o].class].fields

\* Once a commit is through, all the program and the session reach has its
\* new form, and each clone in program space holds what the transformation
\* prescribes for the fields of its original (TransformInstances,
\* CompleteTransformations, CloneTransformed).
ProgramTransformed ==
  Committed =>
    /\ Transformed(ProgramRoots)
    /\ \A o \in DOMAIN cloned :
         heap[heap[o].forward].space = "program" =>
           heap[heap[o].forward].slots =
             [i \in DOMAIN cloned[o] |-> Final(cloned[o][i])]

\* The compiler's comment on the transformation it sends: "how to build the
\* values for the first part of all instances of the classes".  So after the
\* commit no instance of the old class is left in a process either.
AllInstancesTransformed == Committed => Transformed(ToSet(process))

\* An object of old space that refers to new space is in the remembered set.
OldToNewRemembered ==
  Committed =>
    \A o \in DOMAIN heap :
      heap[o].space = "old" /\ heap[o].kind # "free" =>
        \A v \in ToSet(heap[o].slots) :
          v.ref /\ heap[v.v].space = "new" => o \in remembered

\* No assertion of the commit fails.
CommitAsserts == failed = {}
=============================================================================
