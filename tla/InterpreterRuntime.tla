-------------------------- MODULE InterpreterRuntime --------------------------
(* What the generated interpreters share: the program they run, Dart stacks with
   their frames, the object heap, and the C++ functions that the generated code
   calls (interpreter.cc, frame.h, process.cc, lookup_cache.h).

   A stack is a sequence with its top at the end, so that the address of slot i
   is the index i and does not change when the stack object moves or grows.  *)
EXTENDS InterpreterAssembler, FiniteSets, Bitwise

CONSTANTS MaxStackSize, kStackGrowth, kSecondarySize

VARIABLE program                \* what is loaded: a record, see below

Code == program.code            \* [function -> [offset -> <<opcode, operands>>]]
Arity == program.arity          \* [function -> number of arguments]
CatchBlocks == program.catches  \* [function -> sequence of [start, end, frame_size]]
ClassInfo == program.classes    \* [class -> [id, addr, type, immutable, size, super, methods]]
DispatchTable == program.table  \* [index -> [offset, selector, target]]
Breakpoints == program.breakpoints  \* bytecode pointers

-----------------------------------------------------------------------------
\* Bytecodes: [size, stack difference]; Var is kVarDiff.
Var == 127
InvokeBuiltins == {"Eq", "Lt", "Le", "Gt", "Ge", "Add", "Sub", "Mod", "Mul", "TruncDiv",
                   "BitAnd", "BitOr", "BitXor", "BitShr", "BitShl"}
BytecodeInfo(op) ==
    CASE op \in {"LoadLocal0", "LoadLocal1", "LoadLocal2", "LoadLocal3", "LoadLocal4",
                 "LoadLocal5", "LoadLiteralNull", "LoadLiteralTrue", "LoadLiteralFalse",
                 "LoadLiteral0", "LoadLiteral1"} -> <<1, 1>>
      [] op \in {"LoadLocal", "LoadBoxed", "LoadLiteral"} -> <<2, 1>>
      [] op \in {"LoadLocalWide", "LoadStatic", "LoadStaticInit", "LoadLiteralWide",
                 "LoadConst"} -> <<5, 1>>
      [] op \in {"LoadField", "StoreLocal", "StoreBoxed"} -> <<2, 0>>
      [] op \in {"LoadFieldWide", "StoreStatic", "InvokeTest", "InvokeTestUnfold",
                 "InvokeBitNot", "InvokeBitNotUnfold", "InvokeTestNoSuchMethod",
                 "BranchWide", "BranchBackWide", "StackOverflowCheck", "MethodEnd"} -> <<5, 0>>
      [] op = "StoreField" -> <<2, -1>>
      [] op \in {"StoreFieldWide", "BranchIfTrueWide", "BranchIfFalseWide",
                 "BranchBackIfTrueWide", "BranchBackIfFalseWide"} -> <<5, -1>>
      [] op \in {"InvokeMethod", "InvokeMethodUnfold", "InvokeStatic", "InvokeFactory",
                 "Allocate", "AllocateImmutable", "InvokeNoSuchMethod",
                 "InvokeSelector"} -> <<5, Var>>
      [] op \in {"InvokeLeafNative", "InvokeNative", "InvokeNativeYield"} -> <<3, 1>>
      [] op \in {"Pop", "Return", "SubroutineReturn", "CoroutineChange", "Identical",
                 "IdenticalNonNumeric", "ExitNoSuchMethod"} -> <<1, -1>>
      [] op \in {"ReturnNull", "AllocateBoxed", "Negate", "Throw", "ProcessYield"} -> <<1, 0>>
      [] op \in {"Drop", "EnterNoSuchMethod"} -> <<2, Var>>
      [] op = "BranchBack" -> <<2, 0>>
      [] op \in {"BranchBackIfTrue", "BranchBackIfFalse"} -> <<2, -1>>
      [] op \in {"PopAndBranchWide", "PopAndBranchBackWide"} -> <<6, Var>>
      [] op = "SubroutineCall" -> <<9, Var>>
      [] OTHER -> <<5, -1>>       \* the binary operators, folded or not
Size(op) == BytecodeInfo(op)[1]
StackDiff(op) == BytecodeInfo(op)[2]

Bcp(f, off) == <<"bcp", <<f, off>>>>
IsBcp(w) == /\ w[1] = "bcp"
            /\ w[2][1] \in DOMAIN Code
            /\ w[2][2] \in DOMAIN Code[w[2][1]]
InstrAt(w) == Code[w[2][1]][w[2][2]]
OpcodeAt(w) == InstrAt(w)[1]
\* The byte offset of the k-th operand in an instruction.
OperandOffset(op, k) ==
    IF k = 1 THEN 1 ELSE IF op = "SubroutineCall" THEN 5 ELSE 2
\* ReadByte(off), ReadInt32(off).
Operand(w, off) ==
    LET i == InstrAt(w)
        ks == {k \in 1..Len(i) - 1 : OperandOffset(i[1], k) = off}
    IN IF ks = {} THEN Undef ELSE i[1 + CHOOSE k \in ks : TRUE]
\* The byte at a fixed offset of the code of a function.
ByteAt(f, off) ==
    LET at == CHOOSE a \in 0..off : a \in DOMAIN Code[f]
                                    /\ \A b \in a + 1..off : b \notin DOMAIN Code[f]
    IN IF at = off THEN <<"op", Code[f][off][1]>> ELSE Operand(Bcp(f, at), off - at)
-----------------------------------------------------------------------------
(* The state of one process: r registers, s the Dart stack in use, esp the stack
   that the machine stack pointer is on, st how the interpreter left ("run" while
   it has not), heap objects by address, n the number of objects allocated, co the
   coroutine, stacks the saved stacks with their lengths in cap, rem the
   remembered set, markers of the stack limit, pri and sec the lookup cache,
   yield the result of a target yield, exc the uncaught exception, at the
   breakpoint that the process is at.  *)
Class(m, w) == IF IsSmi(w) THEN "Smi" ELSE m.heap[w[2]].c

\* Clazz->LookupMethod: the methods of the class, then those of its superclass.
RECURSIVE LookupMethod(_, _)
LookupMethod(c, sel) ==
    CASE sel \in DOMAIN ClassInfo[c].methods -> <<"fn", ClassInfo[c].methods[sel]>>
      [] ClassInfo[c].super = c -> Zero
      [] OTHER -> LookupMethod(ClassInfo[c].super, sel)

RECURSIVE IsSubclassOf(_, _)
IsSubclassOf(c, d) == c = d \/ (ClassInfo[c].super /= c /\ IsSubclassOf(ClassInfo[c].super, d))

\* Function::ComputeIntrinsic, with InterpreterMethodEntry when there is none.
ComputeIntrinsic(f) ==
    LET op(k) == IF k \in DOMAIN Code[f] THEN Code[f][k][1] ELSE "none"
        native(k) == op(0) = "InvokeNative" /\ Operand(Bcp(f, 0), 2) = Word(k)
    IN <<"code",
         CASE op(0) = "LoadLocal3" /\ op(1) = "LoadField" /\ op(3) = "Return"
                -> "Intrinsic_GetField"
           [] op(0) = "LoadLocal4" /\ op(1) = "LoadLocal4" /\ op(2) = "StoreField"
              /\ op(4) = "Return" -> "Intrinsic_SetField"
           [] native(1) -> "Intrinsic_ListIndexGet"
           [] native(2) -> "Intrinsic_ListIndexSet"
           [] native(3) -> "Intrinsic_ListLength"
           [] OTHER -> "InterpreterMethodEntry">>

StackId(m, co) == m.heap[co].f[1][2]
CurrentStack(m) == StackId(m, m.co)
\* The stack limit: a marker makes every check fail.
StackLimit(m) == <<"limit", IF m.markers /= {} THEN 0 ELSE m.cap[CurrentStack(m)]>>
-----------------------------------------------------------------------------
(* The collector, as the interpreter sees it: every object of new space moves,
   to the other semispace or to old space.  The pointers that follow are those in
   new objects, in the objects and stacks of the remembered set, and the roots of
   the process.  Old objects and stacks outside the remembered set keep stale
   pointers.  *)
kSpace == 4096
IsNew(a) == a \div kSpace \in {1, 2}
Address(space, n) == kSpace * space + 4 * n + 1
PointsToNew(ws) == \E i \in DOMAIN ws : IsObject(ws[i]) /\ IsNew(ws[i][2])

CollectNewSpace(m, how) ==
    LET to == IF how = "promote" THEN 3 ELSE 3 - m.half
        mv(a) == IF IsNew(a) THEN kSpace * to + (a % kSpace) ELSE a
        mw(w) == IF IsObject(w) THEN <<"int", mv(w[2])>> ELSE w
        mws(ws) == [i \in DOMAIN ws |-> mw(ws[i])]
        from(b) == CHOOSE a \in DOMAIN m.heap : mv(a) = b
        object(a) == IF IsNew(a) \/ <<"object", a>> \in m.rem
                     THEN [m.heap[a] EXCEPT !.f = mws(@)] ELSE m.heap[a]
        heap == [b \in {mv(a) : a \in DOMAIN m.heap} |-> object(from(b))]
        stacks == [i \in DOMAIN m.stacks |->
                      IF <<"stack", i>> \in m.rem THEN mws(m.stacks[i]) ELSE m.stacks[i]]
    IN [m EXCEPT !.half = IF how = "promote" THEN @ ELSE 3 - @,
                 !.heap = heap, !.stacks = stacks, !.co = mv(@), !.exc = mw(@),
                 !.rem = {<<"object", a>> : a \in {b \in DOMAIN heap :
                              ~IsNew(b) /\ PointsToNew(heap[b].f)}}
                         \cup {<<"stack", i>> : i \in {j \in DOMAIN stacks :
                                                   PointsToNew(stacks[j])}}]
RememberStack(m) == [m EXCEPT !.rem = @ \cup {<<"stack", CurrentStack(m)>>}]
HandleGC(m, how) == RememberStack(CollectNewSpace(m, how))

Allocate(m, c, fields, immutable) ==
    LET a == Address(m.half, m.n)
    IN [m |-> [m EXCEPT !.n = @ + 1,
                        !.heap = [b \in DOMAIN @ \cup {a} |->
                            IF b = a THEN [c |-> c, f |-> fields, im |-> immutable]
                            ELSE @[b]]],
        v |-> <<"int", a>>]
\* Mutant: an instance of a class without mutable fields is immutable.
HandleAllocateAlwaysImmutable(m, o, class, immutable) ==
    IF ~o.mem THEN [m |-> m, v |-> RetryAfterGC]
    ELSE Allocate(m, class[2], [i \in 1..ClassInfo[class[2]].size |-> Null], TRUE)
HandleAllocate(m, o, class, immutable) ==
    IF ~o.mem THEN [m |-> m, v |-> RetryAfterGC]
    ELSE Allocate(m, class[2], [i \in 1..ClassInfo[class[2]].size |-> Null], immutable = Word(1))
HandleAllocateBoxed(m, o, value) ==
    IF ~o.mem THEN [m |-> m, v |-> RetryAfterGC]
    ELSE Allocate(m, "Boxed", <<value>>, FALSE)

\* HandleIdentical: doubles and large integers are compared by value.
HandleIdentical(m, left, right) ==
    LET number(c) == ~IsSmi(left) /\ ~IsSmi(right)
                     /\ m.heap[left[2]].c = c /\ m.heap[right[2]].c = c
                     /\ m.heap[left[2]].f = m.heap[right[2]].f
    IN Boolean(left = right \/ number("Double") \/ number("LargeInteger"))

\* Mutant: the stack of the coroutine is not remembered.
UpdateCoroutineOnly(m, co) == [m EXCEPT !.co = co]
UpdateCoroutine(m, co) == RememberStack([m EXCEPT !.co = co])

RoundUpToPowerOfTwo(x) ==
    IF x <= 0 THEN 0 ELSE CHOOSE p \in {2^i : i \in 0..W} : x <= p /\ p < 2 * x
(* Process::HandleStackOverflow: a marker is taken first, preemption before the
   debugger; otherwise the stack is copied to a larger one, and the outcome says
   whether a collection was needed to allocate it.  *)
HandleStackOverflow(m, o, addition) ==
    LET inc == IF RoundUpToPowerOfTwo(addition) > kStackGrowth
               THEN RoundUpToPowerOfTwo(addition) ELSE kStackGrowth
        size == m.cap[CurrentStack(m)] + inc
        g == IF o.mem THEN m ELSE CollectNewSpace(m, o.how)
    IN CASE "preempt" \in m.markers ->
                [m |-> [m EXCEPT !.markers = @ \ {"preempt"}], v |-> Word(1)]
         [] "debug" \in m.markers /\ "preempt" \notin m.markers ->
                [m |-> [m EXCEPT !.markers = @ \ {"debug"}], v |-> Word(2)]
         [] m.markers = {} /\ size > MaxStackSize -> [m |-> m, v |-> Word(3)]
         [] OTHER -> [m |-> RememberStack([g EXCEPT !.cap[CurrentStack(g)] = size]),
                      v |-> Word(0)]

-----------------------------------------------------------------------------
\* Frame: the frames of a saved stack, from the save-state frame down.
FirstLocalIndex(fp) == fp + 2
ByteCodePointer(q, fp) == q[fp + 1]
ReturnAddress(q, fp) == q[fp - 1]
RECURSIVE PreviousFrames(_, _)
PreviousFrames(q, fp) ==
    IF q[fp] = Zero THEN <<>> ELSE <<q[fp][2]>> \o PreviousFrames(q, q[fp][2])
Frames(q) == PreviousFrames(q, Len(q))

\* The stack of a process about to run a function, and of a new coroutine, whose
\* start function is entered as if it were returning from CoroutineChange.
PushInitialDartEntryFrames(args, bcp) ==
    <<Zero, Zero, Zero>> \o args
    \o <<Zero, <<"slot", 2>>, bcp, Lbl("interpreter_entry"), <<"slot", Len(args) + 5>>>>
CoroutineNewStack(coroutine, entry, start) ==
    <<Zero, Zero, Zero, coroutine, entry, Zero, <<"slot", 2>>, Bcp(start, 2), SmiFromWord(0),
      SmiFromWord(0), Lbl("resume_CoroutineChange"), <<"slot", 7>>>>

\* FindCatchBlock: the innermost frame with a block around its bytecode pointer.
\* Mutant: the handler's frame keeps one slot too few.
CatchBlockOffByOne(q, fp) ==
    LET bcp == ByteCodePointer(q, fp)[2]
        blocks == CatchBlocks[bcp[1]]
        hits == {i \in DOMAIN blocks : blocks[i].start <= bcp[2] /\ bcp[2] < blocks[i].end}
    IN IF hits = {} THEN [found |-> FALSE]
       ELSE LET b == blocks[CHOOSE i \in hits : \A j \in hits : i <= j]
            IN [found |-> TRUE, bcp |-> Bcp(bcp[1], b.end), fp |-> fp,
                delta |-> Len(q) - (FirstLocalIndex(fp) + b.frame_size)]
CatchBlockOf(q, fp) ==
    LET bcp == ByteCodePointer(q, fp)[2]
        blocks == CatchBlocks[bcp[1]]
        hits == {i \in DOMAIN blocks : blocks[i].start <= bcp[2] /\ bcp[2] < blocks[i].end}
    IN IF hits = {} THEN [found |-> FALSE]
       ELSE LET b == blocks[CHOOSE i \in hits : \A j \in hits : i <= j]
            IN [found |-> TRUE, bcp |-> Bcp(bcp[1], b.end), fp |-> fp,
                delta |-> Len(q) - (FirstLocalIndex(fp) + b.frame_size + 1)]
FindCatchBlock(q) ==
    LET fs == Frames(q)
        hit(i) == /\ ByteCodePointer(q, fs[i]) /= Zero
                  /\ CatchBlockOf(q, fs[i]).found
        hits == {i \in DOMAIN fs : hit(i)}
    IN IF hits = {} THEN [found |-> FALSE]
       ELSE CatchBlockOf(q, fs[CHOOSE i \in hits : \A j \in hits : i <= j])

\* A coroutine has the fields stack and caller; Null is no caller.
HasCaller(m, co) == m.heap[co].f[2] /= Null
Caller(m, co) == m.heap[co].f[2][2]
\* The second pass of HandleThrow: coroutines above the handler are disconnected.
RECURSIVE Unwind(_, _, _)
Unwind(m, unused, current) ==
    IF unused = current THEN m
    ELSE Unwind([m EXCEPT !.heap[unused].f = <<Null, <<"int", unused>>>>],
                Caller(m, unused), current)
RECURSIVE FindHandler(_, _)
FindHandler(m, current) ==
    LET hit == FindCatchBlock(m.stacks[StackId(m, current)])
    IN CASE hit.found -> [found |-> TRUE, co |-> current, hit |-> hit]
         [] ~hit.found /\ ~HasCaller(m, current) -> [found |-> FALSE]
         [] OTHER -> FindHandler(m, Caller(m, current))
HandleThrow(m, exception) ==
    LET h == FindHandler(m, m.co)
        q == m.stacks[CurrentStack(m)]
        u == UpdateCoroutine(Unwind(m, m.co, h.co), h.co)
        top == Len(u.stacks[CurrentStack(u)])
    IN IF ~h.found THEN [m |-> [m EXCEPT !.exc = exception], v |-> Zero]
       ELSE [m |-> [u EXCEPT !.stacks[CurrentStack(u)][top - 1] = ReturnAddress(q, Len(q)),
                             !.r.delta = Word(h.hit.delta), !.r.frame = <<"slot", h.hit.fp>>],
             v |-> h.hit.bcp]
-----------------------------------------------------------------------------
(* State: the C++ view of a stopped interpreter.  RestoreState pops the frame
   pointer and the resume address; SaveState stores the bytecode pointer in its
   slot and pushes both again.  *)
State(m) ==
    LET q == m.stacks[CurrentStack(m)]
        n == Len(q)
        fp == q[n][2]
    IN [s |-> SubSeq(q, 1, n - 2), fp |-> fp, resume |-> q[n - 1], bcp |-> q[fp + 1]]
Local(s, n) == s[Len(s) - n]
SaveState(m, state) ==
    [m EXCEPT !.stacks[CurrentStack(m)] =
        [state.s EXCEPT ![state.fp + 1] = state.bcp]
        \o <<state.resume, <<"slot", state.fp>>>>]
RECURSIVE PushArguments(_, _, _)
PushArguments(s, arity, n) ==
    IF n = 0 THEN s ELSE PushArguments(Append(s, Local(s, arity + 6)), arity, n - 1)
Advance(bcp, n) == Bcp(bcp[2][1], bcp[2][2] + n)

IsInvoke(op) == op \in {"InvokeMethod", "InvokeTest", "InvokeBitNot"}
                       \cup {"Invoke" \o b : b \in InvokeBuiltins}
\* The selector of the call that failed, from the bytecode of the calling frame.
FailedSelector(q, fp) ==
    LET bcp == ByteCodePointer(q, fp)
        op == OpcodeAt(bcp)
        operand == Operand(bcp, 1)
        offset == SelectorId(operand[2])
        at == CHOOSE i \in DOMAIN DispatchTable :
                  /\ i >= offset /\ DispatchTable[i].offset = offset
                  /\ \A j \in DOMAIN DispatchTable :
                         (offset <= j /\ j < i) => DispatchTable[j].offset /= offset
    IN CASE op = "InvokeSelector" ->
              Encode(kCall, METHOD, SelectorArity(SmiValue(q[FirstLocalIndex(fp)])))
         [] IsInvoke(op) -> DispatchTable[at].selector
         [] OTHER -> operand[2]
HandleEnterNoSuchMethod(m) ==
    LET q == m.stacks[CurrentStack(m)]
        st == State(m)
        sel == FailedSelector(q, Frames(q)[2])
        arity == SelectorArity(sel)
        receiver == Local(st.s, arity + 3)
        c == Class(m, receiver)
        get == Encode(SelectorId(sel), GETTER, 0)
        s1 == Append(st.s, SmiFromWord(sel))
        getter == LookupMethod(c, get) /= Zero /\ ~IsSubclassOf(c, "Closure")
        s2 == s1 \o <<SmiFromWord(Encode(kCall, METHOD, arity)), SmiFromWord(get), Null>>
    IN SaveState(m,
           IF getter
           THEN [st EXCEPT !.s = PushArguments(s2, arity, arity) \o <<Null, receiver>>,
                           !.bcp = Advance(@, Size("EnterNoSuchMethod"))]
           ELSE [st EXCEPT !.s = s1 \o <<receiver, receiver, <<"cls", c>>, SmiFromWord(sel)>>,
                           !.bcp = Advance(@, Operand(@, 1)[2])])
MethodOrTrampoline(c, sel) ==
    IF LookupMethod(c, sel) /= Zero THEN LookupMethod(c, sel)
    ELSE LookupMethod(c, Encode(kNoSuchMethodTrampoline, METHOD, 0))
HandleInvokeSelector(m) ==
    LET st == State(m)
        n == Len(st.s)
        receiver == st.s[n]
        sel == SmiValue(st.s[st.fp + 2 + Operand(st.bcp, 1)[2]])
        s == [SubSeq(st.s, 1, n - 1) EXCEPT ![n - 1 - SelectorArity(sel)] = receiver]
    IN [m |-> SaveState(m, [st EXCEPT !.s = s]),
        v |-> MethodOrTrampoline(Class(m, receiver), sel)]

(* LookupEntrySlow: a hit in the secondary table is used where it is; a miss
   moves the primary entry to its secondary place and overwrites it.  *)
NoEntry == [class |-> Zero, selector |-> Zero, target |-> Zero, code |-> Zero]
SecondaryIndex(e) ==
    ((ClassInfo[e.class[2]].addr - e.selector[2]) % 2^W) % kSecondarySize
\* Mutant: a secondary entry of another selector is taken.
LookupEntryByClass(m, primary, class, selector) ==
    LET new == [class |-> class, selector |-> selector,
                target |-> MethodOrTrampoline(class[2], selector[2]),
                code |-> LET t == LookupMethod(class[2], selector[2])
                         IN IF t = Zero THEN Zero ELSE ComputeIntrinsic(t[2])]
        i == SecondaryIndex(new)
        old == m.pri[primary[2]]
    IN IF m.sec[i].class = class
       THEN [m |-> m, v |-> <<"sec", i>>]
       ELSE [m |-> [m EXCEPT !.sec = IF old.class = Zero THEN @
                                     ELSE [@ EXCEPT ![SecondaryIndex(old)] = old],
                             !.pri[primary[2]] = new],
             v |-> primary]
LookupEntrySlow(m, primary, class, selector) ==
    LET new == [class |-> class, selector |-> selector,
                target |-> MethodOrTrampoline(class[2], selector[2]),
                code |-> LET t == LookupMethod(class[2], selector[2])
                         IN IF t = Zero THEN Zero ELSE ComputeIntrinsic(t[2])]
        i == SecondaryIndex(new)
        old == m.pri[primary[2]]
    IN IF m.sec[i].class = class /\ m.sec[i].selector = selector
       THEN [m |-> m, v |-> <<"sec", i>>]
       ELSE [m |-> [m EXCEPT !.sec = IF old.class = Zero THEN @
                                     ELSE [@ EXCEPT ![SecondaryIndex(old)] = old],
                             !.pri[primary[2]] = new],
             v |-> primary]

(* A native answers with its first argument, with null, with a failure, with the
   request to collect, or with a port to yield to.  One that runs at a safepoint,
   its caller's state saved, may also collect itself (Process::NewIntegerWithGC)
   and answer with a new object.  *)
CallNativeFunction(m, o, arguments) ==
    LET saved == m.s = <<>>
        q == IF saved THEN m.stacks[CurrentStack(m)] ELSE m.s
        same(v) == [m |-> m, v |-> v]
    IN CASE o.nat = "value" -> same(q[arguments[2]])
         [] o.nat = "null" -> same(Null)
         [] o.nat = "fail" -> same(WrongArgumentType)
         [] o.nat = "retry" -> same(RetryAfterGC)
         [] o.nat = "port" -> same(Word(40))
         [] o.nat = "collects" ->
                Allocate(CollectNewSpace(m, o.how), "LargeInteger", <<Word(2)>>, TRUE)

\* HandleAtBytecode for the breakpoints of the program.
HandleAtBytecode(m, bcp) ==
    CASE m.at -> [m |-> [m EXCEPT !.at = FALSE], v |-> Zero]
      [] ~m.at /\ bcp \in Breakpoints -> [m |-> [m EXCEPT !.at = TRUE], v |-> Word(kBreakpoint)]
      [] OTHER -> [m |-> m, v |-> Zero]

\* The C functions by name; args are words, o the outcome of what is not modelled:
\* whether memory is free, how the objects move if not, what a native answers.
RuntimeCall(m, o, name, args) ==
    CASE name = "HandleGC" -> [m |-> HandleGC(m, o.how), v |-> Undef]
      [] name = "HandleAtBytecode" -> HandleAtBytecode(m, args[2])
      [] name = "HandleObjectFromFailure" -> [m |-> m, v |-> FailureObject]
      [] name = "HandleAllocate" -> HandleAllocate(m, o, args[2], args[3])
      [] name = "HandleAllocateBoxed" -> HandleAllocateBoxed(m, o, args[2])
      [] name = "HandleCoroutineChange" -> [m |-> UpdateCoroutine(m, args[2][2]), v |-> Undef]
      [] name = "HandleIdentical" -> [m |-> m, v |-> HandleIdentical(m, args[2], args[3])]
      [] name = "HandleLookupEntry" -> LookupEntrySlow(m, args[2], args[3], args[4])
      [] name = "HandleThrow" -> HandleThrow(m, args[2])
      [] name = "HandleStackOverflow" -> HandleStackOverflow(m, o, Signed(args[2][2]))
      [] name = "HandleEnterNoSuchMethod" ->
             [m |-> HandleEnterNoSuchMethod(m), v |-> Undef]
      [] name = "HandleInvokeSelector" -> HandleInvokeSelector(m)
=============================================================================
