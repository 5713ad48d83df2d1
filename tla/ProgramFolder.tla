---------------------------- MODULE ProgramFolder ----------------------------
(* Folding a program (program_folder.cc, selector_row.cc): classes get ids by a
   depth-first walk, the methods of a selector become a row of the dispatch
   table, the rows are fitted over each other, and calls get the offset of
   their row.  Unfolding reads the selectors back from the table.
   A function is <<class, selector>>; the heap is a sequence of classes. *)
EXTENDS Integers, SequencesExt

CONSTANTS
    Programs,       \* programs: [heap, super, methods, calls], super without the root
    Edits,          \* programs that an unfolded one may be changed into
    kNoSuchMethodTrampoline,   \* Names::Id of the trampoline
    INT_MAX         \* stands for the largest int

VARIABLES
    stage,          \* "unfolded", "fitting", "folded"
    prog,           \* the program: its classes and their method tables
    code,           \* the calls of the program: [op, selector]
    written,        \* the calls as the compiler wrote them
    classes,        \* the classes by id, and the ids of each with its subclasses
    rows,           \* the SelectorRow of each selector
    fitter,         \* RowFitter: free_slots, used_offsets, single_range_start_index, limit
    table,          \* Program::dispatch_table
    failed          \* an ASSERT failed

vars == <<stage, prog, code, written, classes, rows, fitter, table, failed>>

-----------------------------------------------------------------------------
(* The class hierarchy. *)
Null == "null"
Classes == Range(prog.heap)
Root == CHOOSE c \in Classes : c \notin DOMAIN prog.super

\* ConstructClassHierarchy lists children in the order of the heap: the visitor
\* and the loop over its chain both add in front.
Children(c) ==
    SelectSeq(prog.heap, LAMBDA d : d \in DOMAIN prog.super /\ prog.super[d] = c)

\* The classes by id, counted from 0: element id + 1 has that id.
RECURSIVE AssignClassIds(_)
AssignClassIds(list) ==
    FlattenSeq([i \in DOMAIN list |-> <<list[i]>> \o AssignClassIds(Children(list[i]))])

Range2(begin, end) == [begin |-> begin, end |-> end]
WithOffset(r, o) == Range2(r.begin + o, r.end + o)
Size(r) == r.end - r.begin
IsBefore(r, s) == r.end < s.begin
IsAfter(r, s) == r.begin > s.end
Covers(r, s) == r.begin <= s.begin /\ s.end <= r.end
\* Ranges that touch overlap too.
Overlap(r, s) == ~IsBefore(r, s) /\ ~IsAfter(r, s)

\* Ids that a class has with its subclasses: from id to child_id.
NumberedClasses ==
    LET list == AssignClassIds(<<Root>>) IN
    [list |-> list,
     range |-> [c \in Classes |->
        LET id == (CHOOSE i \in DOMAIN list : list[i] = c) - 1
        IN Range2(id, id + Len(AssignClassIds(<<c>>)))]]
Id(c) == classes.range[c].begin
ChildId(c) == classes.range[c].end

-----------------------------------------------------------------------------
(* SelectorRow: the methods of a selector. *)
Selectors == UNION {prog.methods[c] : c \in Classes}
kNoOffset == -1

RECURSIVE AddToRanges(_, _, _)
AddToRanges(ranges, range, i) ==
    IF i > Len(ranges) THEN Append(ranges, range)
    ELSE IF ~Overlap(ranges[i], range) THEN AddToRanges(ranges, range, i + 1)
    ELSE IF Covers(ranges[i], range) THEN ranges
    ELSE AddToRanges(RemoveAt(ranges, i),
                     Range2(Min({ranges[i].begin, range.begin}),
                            Max({ranges[i].end, range.end})), i)

\* The row of a selector as ConstructDispatchTable and Finalize make it, but for
\* the sort: the most specific classes come first.
NewRow(s, numbered) ==
    LET variants == Reverse(SelectSeq(numbered.list, LAMBDA c : s \in prog.methods[c]))
        covered == {numbered.range[c] : c \in Range(variants)}
    IN [variants |-> variants, offset |-> kNoOffset,
        ranges |-> FoldLeft(LAMBDA rs, c : AddToRanges(rs, numbered.range[c], 1),
                            <<>>, variants),
        begin |-> Min({r.begin : r \in covered}), end |-> Max({r.end : r \in covered})]

\* The orders in which Finalize may leave the ranges: a largest one, and the others
\* by their begin.  Which of several largest is first depends on the sort, whose
\* pivots are random.
Sorted(ranges) ==
    LET all == Range(ranges)
        Rest(r) == SetToSortSeq(all \ {r}, LAMBDA a, b : a.begin < b.begin)
    IN {<<r>> \o Rest(r) : r \in {r \in all : \A q \in all : Size(q) <= Size(r)}}

\* SelectorRow::Compare.
RowBefore(a, b) ==
    \/ Size(a) > Size(b)
    \/ Size(a) = Size(b) /\ a.begin > b.begin

-----------------------------------------------------------------------------
(* RowFitter.  Slots are counted from 1. *)
NewFitter == [free |-> <<Range2(0, INT_MAX)>>, used |-> {}, single |-> 1, limit |-> 0]

RECURSIVE NextUnused(_, _)
NextUnused(f, o) == IF o \in f.used THEN NextUnused(f, o + 1) ELSE o

RECURSIVE MoveBackToCover(_, _, _)
MoveBackToCover(f, range, i) ==
    IF i > 1 /\ IsBefore(range, f.free[i]) THEN MoveBackToCover(f, range, i - 1) ELSE i

RECURSIVE MoveForwardToCover(_, _, _)
MoveForwardToCover(f, range, i) ==
    IF f.free[i].end < range.end THEN MoveForwardToCover(f, range, i + 1) ELSE i

\* 0, or how far the row has to move before it may fit.
RECURSIVE MatchFrom(_, _, _, _, _)
MatchFrom(f, o, ranges, k, i) ==
    IF k > Len(ranges) THEN 0
    ELSE LET range == WithOffset(ranges[k], o)
             j == MoveForwardToCover(f, range, i)
         IN IF range.begin < f.free[j].begin THEN f.free[j].begin - range.begin
            ELSE MatchFrom(f, o, ranges, k + 1, j)

MatchRemaining(f, o, ranges, i) ==
    MatchFrom(f, o, ranges, 2, MoveBackToCover(f, WithOffset(ranges[2], o), i))

\* The walk of FindOffset through one slot: where it ends, and whether it fits there.
RECURSIVE WalkSlot(_, _, _, _)
WalkSlot(f, ranges, i, start) ==
    LET o == start - ranges[1].begin IN
    IF start >= f.free[i].end - Size(ranges[1]) THEN [start |-> start, fits |-> FALSE]
    ELSE IF o \in f.used THEN WalkSlot(f, ranges, i, start + 1)
    ELSE LET move == IF Len(ranges) = 1 THEN 0 ELSE MatchRemaining(f, o, ranges, i)
         IN IF move = 0 THEN [start |-> start, fits |-> TRUE]
            ELSE WalkSlot(f, ranges, i, start + move)

\* The offset, and the slot the largest range goes to.
RECURSIVE FindOffset(_, _, _, _, _)
FindOffset(f, ranges, min_row_index, i, min_start) ==
    IF i = Len(f.free)
    THEN [offset |-> NextUnused(f, Max({0, f.free[i].begin - min_row_index})), slot |-> i]
    ELSE LET walk == WalkSlot(f, ranges, i,
                              Max({min_start, f.free[i].begin, ranges[1].begin}))
         IN IF walk.fits THEN [offset |-> walk.start - ranges[1].begin, slot |-> i]
            ELSE FindOffset(f, ranges, min_row_index, i + 1, walk.start)

\* The slots after FitInFreeSlot, and the slot to go on from.
FitInFreeSlot(free, range, i) ==
    LET slot == free[i] IN
    CASE slot.begin < range.begin /\ slot.end > range.end ->
           [free |-> InsertAt([free EXCEPT ![i].begin = range.end], i,
                              Range2(slot.begin, range.begin)), slot |-> i + 1]
      [] slot.begin < range.begin /\ slot.end <= range.end ->
           [free |-> [free EXCEPT ![i].end = range.begin], slot |-> i + 1]
      [] slot.begin >= range.begin /\ slot.end <= range.end ->
           [free |-> RemoveAt(free, i), slot |-> i]
      [] OTHER -> [free |-> [free EXCEPT ![i].begin = range.end], slot |-> i]

\* The slot the loop of UpdateFreeSlots finds for range k, going on from slot i.
RECURSIVE BackFrom(_, _, _)
BackFrom(f, range, i) ==
    IF i > 1 /\ IsAfter(f.free[i], range) THEN BackFrom(f, range, i - 1)
    ELSE i
SlotFor(f, range, k, i) ==
    IF k = 1 THEN i
    ELSE MoveForwardToCover(f, range, IF k = 2 THEN BackFrom(f, range, i) ELSE i)

\* Every range of the row taken from the slots; ok while the assertions hold.
RECURSIVE UpdateFreeSlots(_, _, _, _, _)
UpdateFreeSlots(f, o, ranges, k, i) ==
    IF k > Len(ranges) THEN [free |-> f.free, ok |-> \A r \in Range(f.free) : r.begin < r.end]
    ELSE LET range == WithOffset(ranges[k], o)
             j == SlotFor(f, range, k, i)
             fit == FitInFreeSlot(f.free, range, j)
         IN IF Covers(f.free[j], range)
            THEN UpdateFreeSlots([f EXCEPT !.free = fit.free], o, ranges, k + 1, fit.slot)
            ELSE [free |-> f.free, ok |-> FALSE]

\* A slip: the offset may be given to another row.
MarkOffsetOnly(f, o) == [f EXCEPT !.limit = Max({@, o})]

\* MarkOffsetAsUsed, whose assertion is that the offset is new.
MarkOffsetAsUsed(f, o) ==
    [f EXCEPT !.used = @ \cup {o}, !.limit = Max({@, o})]

Fit(f, row, ranges) ==
    LET found == FindOffset(f, ranges, row.begin, 1, 0)
        update == UpdateFreeSlots(f, found.offset, ranges, 1, found.slot)
    IN [offset |-> found.offset, ok |-> update.ok /\ found.offset \notin f.used,
        fitter |-> MarkOffsetAsUsed([f EXCEPT !.free = update.free], found.offset)]

FitRowWithSingleRange(f, range) ==
    LET At(i) == f.free[i].begin - range.begin
        fits == {i \in f.single..(Len(f.free) - 1) :
                    At(i) >= 0 /\ Size(range) <= Size(f.free[i]) /\ At(i) \notin f.used}
        i == IF fits = {} THEN Len(f.free) ELSE Min(fits)
        o == IF fits = {} THEN NextUnused(f, Max({0, At(i)})) ELSE At(i)
        taken == IF fits = {} THEN o + range.end ELSE f.free[i].begin + Size(range)
    IN [offset |-> o, ok |-> o \notin f.used,
        fitter |-> MarkOffsetAsUsed([f EXCEPT !.free[i].begin = taken, !.single = i], o)]

-----------------------------------------------------------------------------
(* The dispatch table, counted from 0. *)
kHeaderSize == 1
Trampoline == [id |-> kNoSuchMethodTrampoline, arity |-> 0]
Empty == [offset |-> kNoOffset]
NoEntry == [offset |-> 0, selector |-> [id |-> 0, arity |-> 0], target |-> <<Root, Trampoline>>]

\* FillTable for one variant: the classes below it whose entry is free, skipping
\* the hierarchy of a class whose entry is not.
RECURSIVE FillVariant(_, _, _, _)
FillVariant(t, entry, id, limit) ==
    IF id >= limit THEN t
    ELSE IF t[entry.offset + id].offset = kNoOffset
         THEN FillVariant([t EXCEPT ![entry.offset + id] = entry], entry, id + 1, limit)
         ELSE FillVariant(t, entry, ChildId(classes.list[id + 1]), limit)

FillTable(t, s) ==
    LET Entry(c) == [offset |-> rows[s].offset, selector |-> s, target |-> <<c, s>>]
    IN FoldLeft(LAMBDA u, c : FillVariant(u, Entry(c), Id(c), ChildId(c)), t, rows[s].variants)

NewTable ==
    LET empty == [i \in 0..(kHeaderSize + fitter.limit + Len(classes.list) - 1) |-> Empty]
        filled == FoldSet(LAMBDA s, t : FillTable(t, s), empty, DOMAIN rows)
    IN [i \in DOMAIN filled |-> IF filled[i].offset = kNoOffset THEN NoEntry ELSE filled[i]]

\* FunctionOptimizingVisitor::Process on one call.
Folded(op) == CASE op = "InvokeMethodUnfold" -> "InvokeMethod"
                [] op = "InvokeTestUnfold" -> "InvokeTest"
                [] op = "InvokeAddUnfold" -> "InvokeAdd"
Optimize(call) ==
    IF call.selector \in DOMAIN rows
    THEN [op |-> Folded(call.op),
          selector |-> [call.selector EXCEPT !.id = rows[call.selector].offset]]
    ELSE [call EXCEPT !.op = IF @ = "InvokeTestUnfold" THEN "InvokeTestNoSuchMethod"
                             ELSE "InvokeNoSuchMethod"]

\* FunctionDeoptimizingVisitor::Process on one call, with the map Unfold reads from
\* the table.
Unfolded(op) == CASE op \in {"InvokeMethod", "InvokeNoSuchMethod"} -> "InvokeMethodUnfold"
                  [] op \in {"InvokeTest", "InvokeTestNoSuchMethod"} -> "InvokeTestUnfold"
                  [] op = "InvokeAdd" -> "InvokeAddUnfold"
SelectorAt(o) == table[CHOOSE i \in DOMAIN table : table[i].offset = o].selector
Deoptimize(call) ==
    [op |-> Unfolded(call.op),
     selector |-> IF call.op \in {"InvokeNoSuchMethod", "InvokeTestNoSuchMethod"}
                  THEN call.selector ELSE SelectorAt(call.selector.id)]

-----------------------------------------------------------------------------
Init ==
    /\ stage = "unfolded"
    /\ prog \in Programs
    /\ code = prog.calls /\ written = prog.calls
    /\ classes = Null /\ rows = <<>> /\ fitter = Null /\ table = Null /\ failed = FALSE

\* Fold up to the sort of the rows.
BeginFold ==
    /\ stage = "unfolded"
    /\ stage' = "fitting"
    /\ classes' = NumberedClasses
    /\ rows' = [s \in Selectors |-> NewRow(s, classes')]
    /\ fitter' = NewFitter
    /\ UNCHANGED <<prog, code, written, table, failed>>

Unfitted == {s \in DOMAIN rows : rows[s].offset = kNoOffset}

\* One turn of the loop of ProcessSelectorRows.
FitRow(s) ==
    /\ stage = "fitting" /\ s \in Unfitted
    /\ \A t \in Unfitted : ~RowBefore(rows[t], rows[s])
    /\ \E ranges \in Sorted(rows[s].ranges) :
         \E fit \in {IF Size(rows[s]) <= 2 THEN FitRowWithSingleRange(fitter, ranges[1])
                     ELSE Fit(fitter, rows[s], ranges)} :
            /\ fitter' = fit.fitter
            /\ rows' = [rows EXCEPT ![s].offset = fit.offset + kHeaderSize]
            /\ failed' = (failed \/ ~fit.ok)
    /\ UNCHANGED <<stage, prog, code, written, classes, table>>

\* The rest of ProcessSelectorRows and of Fold.  An operator always has a row.
EndFold ==
    /\ stage = "fitting" /\ Unfitted = {}
    /\ stage' = "folded"
    /\ table' = NewTable
    /\ code' = [i \in DOMAIN code |-> Optimize(code[i])]
    /\ failed' = (failed \/ table'[0] # NoEntry \/ \E i \in DOMAIN code :
          code[i].op = "InvokeAddUnfold" /\ code'[i].op = "InvokeNoSuchMethod")
    /\ UNCHANGED <<prog, written, classes, rows, fitter>>

Unfold ==
    /\ stage = "folded"
    /\ stage' = "unfolded" /\ table' = Null
    /\ code' = [i \in DOMAIN code |-> Deoptimize(code[i])]
    /\ failed' = (failed \/ \E i, j \in DOMAIN table : table[i].offset = table[j].offset
                                /\ table[i].selector # table[j].selector)
    /\ classes' = Null /\ rows' = <<>> /\ fitter' = Null
    /\ UNCHANGED <<prog, written>>

\* A session changes method tables and superclasses of an unfolded program.
Commit ==
    /\ stage = "unfolded"
    /\ \E p \in Edits : prog' = [p EXCEPT !.calls = prog.calls]
    /\ UNCHANGED <<stage, code, written, classes, rows, fitter, table, failed>>

Next == BeginFold \/ (\E s \in Unfitted : FitRow(s)) \/ EndFold \/ Unfold \/ Commit

-----------------------------------------------------------------------------
(* What a call does. *)

\* Class::LookupMethod; what has no method reaches the trampoline.
RECURSIVE LookupMethod(_, _)
LookupMethod(c, s) ==
    IF s \in prog.methods[c] THEN <<c, s>>
    ELSE IF c \in DOMAIN prog.super THEN LookupMethod(prog.super[c], s)
    ELSE Null

Written(call, c) ==
    LET f == LookupMethod(c, call.selector) IN
    IF call.op = "InvokeTestUnfold" THEN f # Null
    ELSE IF f = Null THEN <<Root, Trampoline>> ELSE f

\* InvokeMethod and InvokeTest on the dispatch table, in every interpreter.
EntryFor(call, c) ==
    LET entry == table[call.selector.id + Id(c)] IN
    IF entry.offset = call.selector.id THEN entry ELSE table[0]
Dispatched(call, c) ==
    CASE call.op = "InvokeTestNoSuchMethod" -> FALSE
      [] call.op = "InvokeNoSuchMethod" -> table[0].target
      [] call.op = "InvokeTest" -> EntryFor(call, c) # table[0]
      [] OTHER -> EntryFor(call, c).target

\* A folded program calls, for every receiver, the method that Class::LookupMethod
\* finds for the call as it was written, whatever the fitting of the rows shares;
\* no entry that a call may read lies outside the table; unfolding gives back the
\* calls; and no assertion of the folder fails.
FoldingKeepsCalls ==
    /\ ~failed
    /\ stage = "unfolded" => code = written
    /\ stage = "folded" =>
         \A i \in DOMAIN code, c \in Classes :
            /\ code[i].op \in {"InvokeMethod", "InvokeTest", "InvokeAdd"} =>
                  code[i].selector.id + Id(c) \in DOMAIN table
            /\ Dispatched(code[i], c) = Written(written[i], c)
=============================================================================
