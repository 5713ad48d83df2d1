----------------------------- MODULE MCInterpreter -----------------------------
(* A program for the four interpreters, run in lockstep.  *)
EXTENDS Interpreters, TLC

-----------------------------------------------------------------------------
(* Functions are written as sequences of instructions; Assemble gives each one
   its offset.  Selectors of folded calls hold an offset of the dispatch table in
   place of the id.  *)
OffsetOf(is, k) == LET sizes == [i \in 1..k - 1 |-> Size(is[i][1])]
                       sum[i \in 0..k - 1] == IF i = 0 THEN 0 ELSE sum[i - 1] + sizes[i]
                   IN sum[k - 1]
Assemble(is) ==
    LET all == is \o <<<<"MethodEnd">>>>
    IN [off \in {OffsetOf(all, k) : k \in DOMAIN all} |->
           all[CHOOSE k \in DOMAIN all : OffsetOf(all, k) = off]]
All == {"x86", "x64", "arm", "mips"}
Intel == {"x86", "x64"}         \* unfolded calls use intrinsics only here
I0(op) == <<op>>
I1(op, n) == <<op, Word(n)>>
IW(op, w) == <<op, w>>
Exit1 == <<I0("LoadLiteral1"), I0("ProcessYield")>>          \* kTerminate
Fn(f) == <<"fn", f>>
Cls(c) == <<"cls", c>>

\* Selectors: id, kind, arity; folded: offset in place of the id.
Sel == [op |-> Encode(3, METHOD, 1), not |-> Encode(3, METHOD, 0), foo |-> Encode(4, METHOD, 1),
        getx |-> Encode(5, GETTER, 0), setx |-> Encode(5, SETTER, 1), at |-> Encode(6, METHOD, 1),
        atput |-> Encode(6, METHOD, 2), len |-> Encode(7, GETTER, 0),
        bar |-> Encode(8, METHOD, 1), getbar |-> Encode(8, GETTER, 0), call1 |-> Encode(kCall, METHOD, 1),
        nsm |-> Encode(9, METHOD, 3), setq |-> Encode(10, SETTER, 1),
        tramp |-> Encode(kNoSuchMethodTrampoline, METHOD, 0)]
SelNames == DOMAIN Sel
Row == [op |-> 1, not |-> 2, foo |-> 3, getx |-> 4, setx |-> 5, at |-> 6, atput |-> 7, len |-> 8,
        bar |-> 9, getbar |-> 10, call1 |-> 11, nsm |-> 12, setq |-> 13, tramp |-> 14]
TableOffset(s) == 16 * Row[s]
Folded(s) == Encode(TableOffset(s), (Sel[s] \div 4) % 4, Sel[s] % 4)

MCClassInfo ==
    LET c(id, type, im, size, super, methods) ==
            [id |-> id, addr |-> 4 * id + 257, type |-> type, immutable |-> im, size |-> size,
             super |-> super, methods |-> methods]
        i == "INSTANCE_TYPE"
    IN [Object |-> c(0, i, "always", 0, "Object",
                     Sel.nsm :> "Object_noSuchMethod" @@ Sel.tramp :> "trampoline"),
        Smi |-> c(1, "SMI_TYPE", "always", 0, "Object",
                  Sel.op :> "Smi_slow" @@ Sel.not :> "Smi_not"),
        Boxed |-> c(2, "BOXED_TYPE", "never", 1, "Object", <<>>),
        Double |-> c(3, "DOUBLE_TYPE", "always", 1, "Object", <<>>),
        LargeInteger |-> c(4, "LARGE_INTEGER_TYPE", "always", 1, "Object", <<>>),
        Array |-> c(5, "ARRAY_TYPE", "never", 0, "Object", <<>>),
        Coroutine |-> c(6, i, "never", 2, "Object", <<>>),
        Initializer |-> c(7, "INITIALIZER_TYPE", "always", 1, "Object", <<>>),
        List |-> c(8, i, "never", 1, "Object",
                   Sel.at :> "List_at" @@ Sel.atput :> "List_atput" @@ Sel.len :> "List_length"),
        Closure |-> c(9, i, "maybe", 0, "Object", Sel.call1 :> "Closure_call"),
        A |-> c(10, i, "never", 2, "Object",
                Sel.foo :> "A_foo" @@ Sel.getx :> "A_getx" @@ Sel.setx :> "A_setx"
                @@ Sel.op :> "A_op"),
        B |-> c(11, i, "never", 2, "A", Sel.foo :> "B_foo" @@ Sel.getbar :> "B_getbar"),
        P |-> c(12, i, "maybe", 2, "Object", <<>>)]

\* Sixteen rows of sixteen entries, so that no two rows overlap.
MCDispatchTable ==
    LET missing == [offset |-> 0, selector |-> Sel.tramp, target |-> "trampoline"]
        target(c, sel) ==
            LET up[d \in DOMAIN MCClassInfo] ==
                    IF sel \in DOMAIN MCClassInfo[d].methods THEN MCClassInfo[d].methods[sel]
                    ELSE IF d = "Object" THEN "none" ELSE up[MCClassInfo[d].super]
            IN up[c]
        entry_of(s, c) ==
            IF target(c, Sel[s]) = "none" THEN missing
            ELSE [offset |-> TableOffset(s), selector |-> Sel[s], target |-> target(c, Sel[s])]
        rows == [i \in {Row[s] : s \in SelNames} |-> CHOOSE s \in SelNames : Row[s] = i]
        ids == [i \in {MCClassInfo[c].id : c \in DOMAIN MCClassInfo} |->
                   CHOOSE c \in DOMAIN MCClassInfo : MCClassInfo[c].id = i]
    IN [i \in 0..255 |-> IF i \div 16 \in DOMAIN rows /\ i % 16 \in DOMAIN ids
                         THEN entry_of(rows[i \div 16], ids[i % 16]) ELSE missing]

\* Objects that are there from the start, all in old space.
Object(c, f) == [c |-> c, f |-> f, im |-> TRUE]
OldA == 33
OldList == 37
OldArray == 41
OldBox == 45
D1 == 49
D2 == 53
L1 == 57
OldB == 61
Init1 == 65
Co0 == 69
Co1 == 73
OldClosure == 77
OldP == 81
W1(a) == <<"int", a>>
OldHeap ==
    [a \in {1, 9, 17, 21, 25} |-> Object("Object", <<>>)]
    @@ (29 :> Object("Array", <<Null, W1(Init1)>>))
    @@ (OldA :> Object("A", <<SmiFromWord(5), Null>>))
    @@ (OldP :> Object("P", <<SmiFromWord(5), Null>>))
    @@ (OldB :> Object("B", <<SmiFromWord(6), W1(OldClosure)>>))
    @@ (OldList :> Object("List", <<W1(OldArray)>>))
    @@ (OldArray :> Object("Array", <<SmiFromWord(7), Null>>))
    @@ (OldBox :> Object("Boxed", <<Null>>))
    @@ (D1 :> Object("Double", <<Word(2)>>)) @@ (D2 :> Object("Double", <<Word(2)>>))
    @@ (L1 :> Object("LargeInteger", <<Word(2)>>))
    @@ (Init1 :> Object("Initializer", <<Fn("init")>>))
    @@ (Co0 :> Object("Coroutine", <<<<"stk", 0>>, Null>>))
    @@ (Co1 :> Object("Coroutine", <<<<"stk", 1>>, W1(Co0)>>))
    @@ (OldClosure :> Object("Closure", <<>>))

Methods ==
    [Smi_slow |-> <<I0("ReturnNull")>>,
     Smi_not |-> <<I0("ReturnNull")>>,
     Object_noSuchMethod |-> <<I1("LoadLiteral", 42), I0("Return")>>,
     trampoline |-> <<I1("EnterNoSuchMethod", 13), I1("InvokeSelector", 2),
                      I1("InvokeSelector", 1), I0("ExitNoSuchMethod"),
                      I1("InvokeMethod", Folded("nsm")), I0("ExitNoSuchMethod")>>,
     A_foo |-> <<I0("LoadLocal3"), I0("Return")>>,
     B_foo |-> <<I0("LoadLocal3"), I0("LoadLocal5"), I1("InvokeAdd", Folded("op")), I0("Return")>>,
     A_op |-> <<I0("LoadLocal4"), I0("Return")>>,
     A_getx |-> <<I0("LoadLocal3"), I1("LoadField", 0), I0("Return")>>,
     A_setx |-> <<I0("LoadLocal4"), I0("LoadLocal4"), I1("StoreField", 0), I0("Return")>>,
     B_getbar |-> <<I0("LoadLocal3"), I1("LoadField", 1), I0("Return")>>,
     Closure_call |-> <<I0("LoadLocal3"), I0("Return")>>,
     List_at |-> <<<<"InvokeNative", Word(2), Word(1)>>, I0("LoadLiteralFalse"), I0("Return")>>,
     List_atput |-> <<<<"InvokeNative", Word(3), Word(2)>>, I0("LoadLiteralFalse"), I0("Return")>>,
     List_length |-> <<<<"InvokeNative", Word(1), Word(3)>>, I0("LoadLiteralFalse"), I0("Return")>>,
     init |-> <<IW("LoadConst", W1(D1)), I0("Return")>>,
     leaf |-> <<<<"InvokeLeafNative", Word(1), Word(9)>>, I0("Return")>>,
     native |-> <<<<"InvokeNative", Word(1), Word(9)>>, I0("Return")>>,
     yield |-> <<<<"InvokeNativeYield", Word(1), Word(9)>>, I0("Return")>>,
     thrower |-> <<I0("LoadLocal3"), I0("Throw")>>,
     recurse |-> <<I0("LoadLocal3"), IW("InvokeStatic", Fn("recurse")), I0("Return")>>]

-----------------------------------------------------------------------------
\* Programs: the arguments are locals 4 and 3, and still are after a push and a load.
Two == <<I0("LoadLocal4"), I0("LoadLocal4")>>
Programs ==
    [foo |-> Two \o <<I1("InvokeMethod", Folded("foo"))>> \o Exit1,
     bar |-> Two \o <<I1("InvokeNoSuchMethod", Sel.bar)>> \o Exit1,
     at |-> Two \o <<I1("InvokeMethod", Folded("at"))>> \o Exit1,
     setx |-> Two \o <<I1("InvokeMethod", Folded("setx"))>> \o Exit1,
     setq |-> Two \o <<I1("InvokeNoSuchMethod", Sel.setq)>> \o Exit1,
     getx |-> <<I0("LoadLocal4"), I1("InvokeMethod", Folded("getx"))>> \o Exit1,
     len |-> <<I0("LoadLocal4"), I1("InvokeMethod", Folded("len"))>> \o Exit1,
     fooU |-> Two \o <<I1("InvokeMethodUnfold", Sel.foo)>> \o Exit1,
     barU |-> Two \o <<I1("InvokeMethodUnfold", Sel.bar)>> \o Exit1,
     atU |-> Two \o <<I1("InvokeMethodUnfold", Sel.at)>> \o Exit1,
     setxU |-> Two \o <<I1("InvokeMethodUnfold", Sel.setx)>> \o Exit1,
     setqU |-> Two \o <<I1("InvokeMethodUnfold", Sel.setq)>> \o Exit1,
     setbarU |-> Two \o <<I1("InvokeMethodUnfold", Encode(8, SETTER, 1))>> \o Exit1,
     getxU |-> <<I0("LoadLocal4"), I1("InvokeMethodUnfold", Sel.getx)>> \o Exit1,
     lenU |-> <<I0("LoadLocal4"), I1("InvokeMethodUnfold", Sel.len)>> \o Exit1,
     test |-> <<I0("LoadLocal4"), I1("InvokeTest", Folded("foo"))>> \o Exit1,
     testU |-> <<I0("LoadLocal4"), I1("InvokeTestUnfold", Sel.foo)>> \o Exit1,
     testN |-> <<I0("LoadLocal4"), I1("InvokeTestNoSuchMethod", Sel.foo)>> \o Exit1,
     \* An entry of the cache is demoted, found again, and met by another selector.
     again |-> Two \o <<I1("InvokeMethodUnfold", Sel.foo)>> \o
               <<I0("LoadLocal5"), I0("LoadLocal5"), I1("InvokeMethodUnfold", Sel.setx), I0("Pop"),
                 I0("LoadLocal5"), I0("LoadLocal5"), I1("InvokeMethodUnfold", Sel.foo), I0("Pop"),
                 I0("LoadLocal5"), I0("LoadLocal5"), I1("InvokeMethodUnfold", Sel.op)>> \o Exit1,
     \* A new object stored in old ones, found in all of them after a collection.
     barrier |-> <<I0("LoadLiteral1"), I0("AllocateBoxed"),
                   IW("LoadConst", W1(OldA)), I0("LoadLocal1"), I1("StoreField", 1), I1("StoreStatic", 0),
                   I0("Pop"), IW("LoadConst", W1(OldBox)), I0("LoadLocal1"), I1("StoreBoxed", 1),
                   I1("Drop", 2), IW("LoadConst", W1(OldA)), I0("LoadLocal1"), I1("StoreFieldWide", 0),
                   I0("Pop"), I0("LoadLiteral0"), I0("AllocateBoxed"), I0("Pop"),
                   IW("LoadConst", W1(OldA)), I1("LoadField", 1), I1("LoadStatic", 0),
                   I0("IdenticalNonNumeric"), I1("BranchIfFalseWide", 23),
                   IW("LoadConst", W1(OldBox)), I1("LoadBoxed", 0),
                   IW("LoadConst", W1(OldA)), I1("LoadFieldWide", 0), I0("IdenticalNonNumeric")>> \o Exit1,
     atput |-> Two \o <<I0("LoadLiteral1"), I0("AllocateBoxed"),
                        I1("InvokeMethod", Folded("atput")), I0("LoadLiteral0"), I0("AllocateBoxed"),
                        I0("Pop"), I0("LoadLocal5"), I0("LoadLocal5"),
                        I1("InvokeMethod", Folded("at")), I0("IdenticalNonNumeric")>> \o Exit1,
     setnew |-> <<I0("LoadLocal4"), I0("LoadLiteral1"), I0("AllocateBoxed"),
                  I1("InvokeMethod", Folded("setx")), I0("LoadLiteral0"), I0("AllocateBoxed"),
                  I0("Pop"), I0("LoadLocal5"), I1("InvokeMethod", Folded("getx")),
                  I0("IdenticalNonNumeric")>> \o Exit1,
     alloc |-> Two \o <<IW("Allocate", Cls("A")), I1("LoadField", 1)>> \o Exit1,
     allocImm |-> Two \o <<IW("AllocateImmutable", Cls("P")), I1("LoadField", 0)>> \o Exit1,
     identical |-> Two \o <<I0("Identical")>> \o Exit1,
     negate |-> <<I0("LoadLocal3"), I0("Negate")>> \o Exit1,
     catch |-> <<I0("LoadLiteralNull"), I0("LoadLocal4"), IW("InvokeStatic", Fn("thrower")),
                 I0("Pop")>> \o Exit1,
     uncaught |-> <<I0("LoadLocal3"), IW("InvokeFactory", Fn("thrower")), I0("Pop")>> \o Exit1,
     overflow |-> <<I0("LoadLiteralNull"), I0("LoadLocal4"), IW("InvokeStatic", Fn("recurse")),
                    I0("Pop")>> \o Exit1,
     check |-> <<I0("LoadLiteralNull"), I0("LoadLocal4"), I1("StackOverflowCheck", 6),
                 I0("Pop")>> \o Exit1,
     subroutine |-> <<<<"SubroutineCall", Word(11), Word(4)>>>> \o Exit1
                    \o <<I0("LoadLiteralNull"), I0("Pop"), I0("SubroutineReturn")>>,
     coroutine |-> <<IW("LoadConst", W1(Co1)), I0("LoadLocal4"), I0("CoroutineChange")>> \o Exit1,
     co_entry |-> <<I0("LoadLiteral0"), I0("LoadLiteral0"), I0("CoroutineChange"), I0("LoadLocal0"),
                    I1("BranchIfTrueWide", 12), IW("LoadConst", W1(Co0)), I0("LoadLocal1"),
                    I0("CoroutineChange"), I0("LoadLocal0"), I0("Throw")>>,
     leafCall |-> <<I0("LoadLocal3"), IW("InvokeStatic", Fn("leaf"))>> \o Exit1,
     nativeCall |-> <<I0("LoadLocal3"), IW("InvokeStatic", Fn("native"))>> \o Exit1,
     yieldCall |-> <<I0("LoadLocal3"), IW("InvokeStatic", Fn("yield"))>> \o Exit1,
     static |-> <<I1("LoadStaticInit", 1), I1("LoadStaticInit", 0), I0("Pop")>> \o Exit1,
     locals |-> <<I1("LoadLiteral", 3), I1("LoadLiteralWide", 300), I0("LoadLiteralNull"),
                  I1("StoreLocal", 2), I0("LoadLocal2"), I1("LoadLocal", 2), I1("LoadLocalWide", 1),
                  I1("Drop", 2), I0("LoadLiteralTrue"), I0("LoadLiteralFalse"), I0("Pop"),
                  I0("LoadLocal3")>> \o Exit1]

\* Loops: count to two.
Counted(back) ==
    <<I0("LoadLiteral0"), I0("LoadLiteral1"), I1("InvokeAdd", Folded("op")), I0("LoadLocal0"),
      I1("LoadLiteral", 2)>> \o back \o Exit1
Test(op) == I1(op, Folded("op"))
Loops ==
    [loopTrue |-> Counted(<<Test("InvokeLt"), I1("BranchBackIfTrue", 14)>>),
     loopTrueW |-> Counted(<<Test("InvokeLt"), I1("BranchBackIfTrueWide", 14)>>),
     loopFalse |-> Counted(<<Test("InvokeGe"), I1("BranchBackIfFalse", 14)>>),
     loopFalseW |-> Counted(<<Test("InvokeGe"), I1("BranchBackIfFalseWide", 14)>>),
     loop |-> Counted(<<Test("InvokeLt"), I1("BranchIfFalseWide", 7), I1("BranchBack", 19)>>),
     loopW |-> Counted(<<Test("InvokeLt"), I1("BranchIfFalseWide", 10), I1("BranchBackWide", 19)>>),
     popBranch |-> <<I0("LoadLiteral0"), I0("LoadLiteral1"), <<"PopAndBranchWide", Word(1), Word(7)>>,
                     I0("LoadLiteralNull")>> \o Exit1,
     popBack |-> <<I1("BranchWide", 7)>> \o Exit1
                 \o <<I0("LoadLiteral0"), I0("LoadLiteral1"),
                      <<"PopAndBranchBackWide", Word(1), Word(4)>>>>]

Binary == {"Invoke" \o b : b \in InvokeBuiltins}
Unfolded(op) == op \o "Unfold"
Operators ==
    [op \in Binary |-> Two \o <<I1(op, Folded("op"))>> \o Exit1]
    @@ [op \in {Unfolded(b) : b \in Binary} |-> Two \o <<I1(op, Sel.op)>> \o Exit1]
    @@ [InvokeBitNot |-> <<I0("LoadLocal3"), I1("InvokeBitNot", Folded("not"))>> \o Exit1,
        InvokeBitNotUnfold |-> <<I0("LoadLocal3"), I1("InvokeBitNotUnfold", Sel.not)>> \o Exit1]

Sources == Methods @@ Programs @@ Loops @@ Operators
MCCode == [f \in DOMAIN Sources |-> Assemble(Sources[f])]
MCArity ==
    [f \in DOMAIN Sources |->
        CASE f \in {"Object_noSuchMethod"} -> 4
          [] f = "List_atput" -> 3
          [] f \in {"A_foo", "B_foo", "A_op", "Smi_slow", "A_setx", "Closure_call", "List_at"} -> 2
          [] f \in {"init", "co_entry"} -> 0
          [] f \in DOMAIN Methods -> 1
          [] OTHER -> 2]
MCCatchBlocks ==
    [f \in DOMAIN Sources |->
        CASE f \in {"catch", "overflow"} -> <<[start |-> 1, end |-> 8, frame_size |-> 1]>>
          [] f = "coroutine" -> <<[start |-> 0, end |-> 7, frame_size |-> 1]>>
          [] OTHER -> <<>>]
MCBreakpoints == {Bcp("loopTrue", 7), Bcp("A_foo", 0), Bcp("thrower", 1), Bcp("co_entry", 3)}
MCProgram ==
    [code |-> MCCode, arity |-> MCArity, catches |-> MCCatchBlocks, classes |-> MCClassInfo,
     table |-> MCDispatchTable, breakpoints |-> MCBreakpoints]
MCStacks == (0 :> <<>>) @@ (1 :> CoroutineNewStack(W1(Co1), Null, "co_entry"))

-----------------------------------------------------------------------------
\* The entries: fn with two arguments, on some of the architectures.
Entry0(fn, a, b, on) ==
    [fn |-> fn, args |-> <<a, b>>, on |-> on, debug |-> FALSE, interrupts |-> 0, collections |-> 0]
Smis == {SmiFromWord(n) : n \in {0, 1, -1, 3, -7, 127, 128, 16383, -16384}}
Counts == {SmiFromWord(n) : n \in {0, 1, 14, 15, 16, 17, 300}}
OperatorEntries ==
    {Entry0(op, a, b, All) : op \in Binary \ {"InvokeTruncDiv", "InvokeBitShr", "InvokeBitShl"},
                             a \in Smis, b \in Smis}
    \cup {Entry0(op, a, b, All) : op \in {"InvokeBitShr", "InvokeBitShl"}, a \in Smis, b \in Counts}
    \cup {Entry0(op, a, b, on) : op \in {"InvokeTruncDiv", "InvokeTruncDivUnfold"}, a \in Smis,
                                 b \in Smis, on \in {{"x86"}, All \ {"x86"}}}
    \cup {Entry0(op, a, b, All) : op \in {"InvokeBitNot", "InvokeBitNotUnfold"}, a \in {Null},
                                  b \in Smis \cup {W1(OldA)}}
    \cup {Entry0(op, a, b, All) : op \in {Unfolded(x) : x \in Binary} \ {"InvokeTruncDivUnfold"},
                                  a \in {SmiFromWord(16383), W1(OldA)},
                                  b \in {SmiFromWord(1), W1(OldA)}}
    \cup {Entry0(op, a, b, All) : op \in Binary \ {"InvokeTruncDiv"},
                                  a \in {SmiFromWord(16383), W1(OldA)}, b \in {W1(OldA)}}
Receivers == {SmiFromWord(1), W1(OldA), W1(OldB), W1(OldList), W1(OldClosure), Null}
CallEntries ==
    {Entry0(fn, a, b, All) : fn \in {"foo", "bar", "at", "setx", "setq", "getx", "len", "fooU", "barU",
                                     "setqU", "setbarU", "test", "testN"},
                             a \in Receivers, b \in {SmiFromWord(1), SmiFromWord(2), Null}}
    \cup {Entry0(fn, a, b, on) : fn \in {"atU", "setxU", "getxU", "lenU", "again"}, a \in Receivers,
                                 b \in {SmiFromWord(1), SmiFromWord(2), Null},
                                 on \in {Intel, All \ Intel}}
    \cup {Entry0("testU", a, Null, Intel) : a \in Receivers}
Numbers == {SmiFromWord(1), W1(D1), W1(D2), W1(L1), W1(OldA)}
PlainEntries ==
    {Entry0(fn, SmiFromWord(1), b, All) : fn \in {"subroutine", "static", "locals", "negate", "popBranch",
                                                  "popBack", "uncaught"},
                                          b \in {True, False}}
    \cup {Entry0("identical", a, b, All) : a \in Numbers, b \in Numbers}
\* With interrupts, collections and a debugger.
Disturbed(fn, a, b, debug, i, c) ==
    [fn |-> fn, args |-> <<a, b>>, on |-> All, debug |-> debug, interrupts |-> i, collections |-> c]
DisturbedEntries ==
    {Disturbed(fn, a, b, FALSE, 1, 2) :
        fn \in {"barrier", "atput", "setnew", "alloc", "allocImm", "catch", "overflow", "check",
                "coroutine", "leafCall", "nativeCall", "yieldCall"} \cup DOMAIN Loops,
        a \in {W1(OldA)}, b \in {True, SmiFromWord(1)}}
DebuggedEntries ==
    {Disturbed(fn, a, b, TRUE, 1, 1) : fn \in {"foo", "catch", "coroutine", "loopTrue", "overflow"},
                                       a \in {W1(OldA)}, b \in {True, SmiFromWord(1)}}
MCEntries == {e \in OperatorEntries \cup CallEntries \cup PlainEntries
                        \cup DisturbedEntries \cup DebuggedEntries : e.on /= {}}

TestEntries == {Entry0("testU", a, Null, {"x86", "arm"}) : a \in {W1(OldA), Null}}

-----------------------------------------------------------------------------
\* The programs that are disturbed, with the value that each computes.
Computes(e) ==
    CASE e.fn \in {"barrier", "atput", "setnew"} -> {True}
      [] e.fn \in {"catch", "coroutine", "alloc"} -> {e.args[2]}
      [] e.fn = "overflow" -> {StackOverflowError}
      [] e.fn \in {"loopTrue", "loopTrueW", "loopFalse", "loopFalseW", "loop", "loopW"} ->
             {SmiFromWord(2)}
      [] e.fn \in {"popBranch", "popBack"} -> {SmiFromWord(0)}
      [] e.fn = "locals" -> {SmiFromWord(300)}
      [] e.fn = "static" -> {W1(D1)}

\* Preemption, debugger interrupts, breakpoints, stack growth and collections, at any
\* point where they can happen, do not change what a program computes.
ResultUndisturbed ==
    \A a \in Arch : Terminated(m[a]) /\ entry.fn \in
        {"barrier", "atput", "setnew", "catch", "coroutine", "alloc", "overflow", "popBranch", "popBack",
         "locals", "static", "loopTrue", "loopTrueW", "loopFalse", "loopFalseW", "loop", "loopW"}
        => Result(m[a]) \in Computes(entry)
=============================================================================
