------------------------------ MODULE Interpreters ------------------------------
(* The interpreters of the architectures, running the same program in lockstep: a
   step executes one bytecode on each of them, with the same answers from what is
   not modelled (is there memory, how do objects move, what does a native return).
   Process::Preempt and the debugger set markers between any two bytecodes, and
   the scheduler resumes a process that left the interpreter.  *)
EXTENDS InterpreterMachine

CONSTANTS
    Program,            \* what is loaded
    EntryPoints,            \* the programs that may be run: [fn, args, debug] and how many
                        \* interrupts and collections may happen during one
    InitialHeap,        \* the objects of the program, all in old space
    InitialStacks,      \* the stacks of the coroutines
    kStackSize,         \* words of a new stack
    NativeAnswers       \* what natives may answer

VARIABLES
    m,                  \* the state of the process on each architecture
    entry,              \* the program that is run
    interrupts, collections     \* those that may still happen

vars == <<program, m, entry, interrupts, collections>>

X86Code == INSTANCE InterpreterX86
X64Code == INSTANCE InterpreterX64
ARMCode == INSTANCE InterpreterARM
MIPSCode == INSTANCE InterpreterMIPS
Machines == [x86 |-> X86Code!X86, x64 |-> X64Code!X64, arm |-> ARMCode!ARM, mips |-> MIPSCode!MIPS]
Arch == entry.on

-----------------------------------------------------------------------------
NewProcess(A, e) ==
    [r |-> [x \in A.regs |-> Undef], s |-> <<>>, esp |-> A.esp, st |-> "exit", code |-> Zero,
     heap |-> InitialHeap, n |-> 0, half |-> 1, co |-> 69,
     stacks |-> [InitialStacks EXCEPT ![0] = PushInitialDartEntryFrames(e.args, Bcp(e.fn, 0))],
     cap |-> [i \in DOMAIN InitialStacks |-> kStackSize], rem |-> {}, markers |-> {},
     pri |-> [i \in 0..kPrimarySize - 1 |-> NoEntry],
     sec |-> [i \in 0..kSecondarySize - 1 |-> NoEntry],
     yield |-> Zero, exc |-> Null, at |-> FALSE]

Init ==
    /\ program = Program
    /\ entry \in EntryPoints
    /\ m = [a \in Arch |-> NewProcess(Machines[a], entry)]
    /\ interrupts = entry.interrupts
    /\ collections = entry.collections

Running == \A a \in Arch : m[a].st = "run"
Resumable(p) == p.st = "exit" /\ p.code \notin {Word(kTerminate), Word(kUncaughtException)}
Opcode == OpcodeAt(m[CHOOSE a \in Arch : TRUE].r.BCP)

\* One bytecode; with a debugger attached, through the prologue that calls it.
Bytecode(a, o) ==
    LET A == Machines[a]
        bc == "BC_" \o OpcodeAt(m[a].r.BCP)
    IN Exec(A, m[a], o, IF entry.debug THEN A.debug[bc] ELSE A.lab[bc])

Native(op) == op \in {"InvokeLeafNative", "InvokeNative", "InvokeNativeYield"}
Outcomes(op) ==
    [mem : IF collections > 0 THEN BOOLEAN ELSE {TRUE},
     how : {"flip", "promote"},
     nat : IF op = "InvokeNativeYield" THEN {"null", "port", "fail"}
           ELSE IF op = "InvokeNative" THEN NativeAnswers
           ELSE IF op = "InvokeLeafNative" THEN NativeAnswers \ {"collects"}
           ELSE {"null"}]
Collects(o) == ~o.mem \/ o.nat \in {"retry", "collects"}
\* Without a collection it does not matter how objects would move.
Relevant(o) == /\ Collects(o) \/ o.how = "flip"
               /\ Collects(o) => collections > 0

Execute ==
    /\ Running
    /\ \E o \in Outcomes(Opcode) :
          /\ Relevant(o)
          /\ m' = [a \in Arch |-> Bytecode(a, o)]
          /\ collections' = IF Collects(o) THEN collections - 1 ELSE collections
    /\ UNCHANGED <<program, entry, interrupts>>

\* Interpreter::Run, when the scheduler interprets the process.
Run ==
    /\ \A a \in Arch : Resumable(m[a])
    /\ m' = [a \in Arch |->
               LET p == RememberStack([m[a] EXCEPT !.st = "run", !.r.PROC = <<"process", 0>>])
               IN Exec(Machines[a], p, [mem |-> TRUE], Machines[a].lab.prologue)]
    /\ UNCHANGED <<program, entry, interrupts, collections>>

\* Process::Preempt and Process::DebugInterrupt, from another thread.
Interrupt ==
    /\ Running
    /\ interrupts > 0
    /\ interrupts' = interrupts - 1
    /\ \E k \in {"preempt", "debug"} :
          m' = [a \in Arch |-> [m[a] EXCEPT !.markers = @ \cup {k}]]
    /\ UNCHANGED <<program, entry, collections>>

Finished ==
    /\ \A a \in Arch : m[a].st = "exit" /\ ~Resumable(m[a])
    /\ UNCHANGED vars

Next == Execute \/ Run \/ Interrupt \/ Finished
Spec == Init /\ [][Next]_vars

-----------------------------------------------------------------------------
(* What a program can see of the state of its process: x86 has two return addresses
   after a dynamic call, and the void method Port.send answers null on x86 and
   whatever is in the result register elsewhere.  *)
Visible(w) == CASE w = Lbl("ret_InvokeMethodDefault") -> Lbl("ret_InvokeMethod")
                [] w = <<"process", 0>> -> Null
                [] OTHER -> w
VisibleStack(q) == [i \in DOMAIN q |-> Visible(q[i])]
View(p) == [s |-> VisibleStack(p.s), stacks |-> [i \in DOMAIN p.stacks |-> VisibleStack(p.stacks[i])],
            bcp |-> p.r.BCP, fp |-> p.r.FP, st |-> p.st, code |-> p.code, heap |-> p.heap, n |-> p.n,
            co |-> p.co, cap |-> p.cap, rem |-> p.rem, pri |-> p.pri, sec |-> p.sec,
            yield |-> p.yield, exc |-> p.exc, at |-> p.at, markers |-> p.markers]

\* The four generated interpreters take every process through the same states.
ArchitecturesAgree == \A a, b \in Arch : View(m[a]) = View(m[b])


\* No instruction of the generated code reads a register or a slot that holds nothing,
\* leaves the stack, jumps nowhere, or calls C on the wrong stack.
NeverStuck == \A a \in Arch : m[a].st /= "trap"

\* The value of an operator on two smis: a boolean for the comparisons.
Compared(op, x, y) == CASE op = "Eq" -> x = y [] op = "Lt" -> x < y [] op = "Le" -> x <= y
                        [] op = "Gt" -> x > y [] op = "Ge" -> x >= y
ExactValue(op, x, y) ==
    CASE op = "Add" -> x + y
      [] op = "Sub" -> x - y
      [] op = "Mul" -> x * y
      [] op = "TruncDiv" -> TruncDiv(x, y)
      [] op = "BitAnd" -> Signed((x % 2^W) & (y % 2^W))
      [] op = "BitOr" -> Signed((x % 2^W) | (y % 2^W))
      [] op = "BitXor" -> Signed((x % 2^W) ^^ (y % 2^W))
      [] op = "BitShr" -> x \div 2^(IF y > W THEN W ELSE y)
      [] op = "BitShl" -> x * 2^y
Comparisons == {"Eq", "Lt", "Le", "Gt", "Ge"}
IsResult(b, w, x, y) == IF b \in Comparisons THEN w = Boolean(Compared(b, x, y))
                        ELSE IsSmi(w) /\ SmiValue(w) = ExactValue(b, x, y)

\* A builtin operator on two smis leaves the exact result or calls the method with both
\* operands in place; it never leaves a result that wrapped around.
SmiStepExact ==
    \A a \in Arch :
      LET s == m[a].s
          n == Len(s)
          t == m'[a].s
          b == CHOOSE x \in InvokeBuiltins : OpcodeAt(m[a].r.BCP) \in {"Invoke" \o x, "Invoke" \o x \o "Unfold"}
      IN (/\ m[a].st = "run" /\ m'[a].st = "run" /\ m'[a].r.BCP /= m[a].r.BCP
          /\ \E x \in InvokeBuiltins : OpcodeAt(m[a].r.BCP) \in {"Invoke" \o x, "Invoke" \o x \o "Unfold"}
          /\ IsSmi(s[n]) /\ IsSmi(s[n - 1]))
         => IF m'[a].r.BCP = Advance(m[a].r.BCP, 5)
            THEN /\ SubSeq(t, 1, n - 2) = SubSeq(s, 1, n - 2)
                 /\ Len(t) = n - 1
                 /\ IsResult(b, t[n - 1], SmiValue(s[n - 1]), SmiValue(s[n]))
            ELSE SubSeq(t, n - 1, n) = SubSeq(s, n - 1, n)

\* The selector of a call: a folded one holds the offset of its row in the dispatch table.
SelectorOf(bcp) ==
    LET sel == Operand(bcp, 1)[2]
        row == {i \in DOMAIN DispatchTable : DispatchTable[i].offset = SelectorId(sel)}
    IN IF IsInvoke(OpcodeAt(bcp)) THEN DispatchTable[CHOOSE i \in row : TRUE].selector ELSE sel
IsCall(op) == op \in {"InvokeMethod", "InvokeMethodUnfold"}
IsTest(op) == op \in {"InvokeTest", "InvokeTestUnfold"}

\* A call enters the method that the class of the receiver has for the selector, or the
\* noSuchMethod trampoline if it has none, whatever the lookup cache and the dispatch
\* table hold; only an intrinsic method is answered at once.  A test answers whether
\* there is such a method.
CallStepReaches ==
    \A a \in Arch :
      LET bcp == m[a].r.BCP
          s == m[a].s
          sel == SelectorOf(bcp)
          receiver == s[Len(s) - SelectorArity(sel)]
          target == MethodOrTrampoline(Class(m[a], receiver), sel)[2]
      IN (m[a].st = "run" /\ m'[a].st = "run" /\ m'[a].r.BCP /= bcp)
         => CASE IsCall(OpcodeAt(bcp)) ->
                   \/ m'[a].r.BCP = Bcp(target, 0)
                   \/ /\ m'[a].r.BCP = Advance(bcp, 5)
                      /\ ComputeIntrinsic(target) /= Lbl("InterpreterMethodEntry")
              [] IsTest(OpcodeAt(bcp)) ->
                   m'[a].s[Len(s)] = Boolean(LookupMethod(Class(m[a], s[Len(s)]), sel) /= Zero)
              [] OTHER -> TRUE

\* InvokeTestUnfold materializes true exactly if a target method has been found.
TestUnfoldFindsMethods ==
    [][\A a \in Arch :
         LET s == m[a].s
         IN (/\ m[a].st = "run" /\ m'[a].st = "run"
             /\ OpcodeAt(m[a].r.BCP) = "InvokeTestUnfold"
             /\ m'[a].r.BCP = Advance(m[a].r.BCP, 5))
            => m'[a].s[Len(s)] = Boolean(LookupMethod(Class(m[a], s[Len(s)]),
                                                      Operand(m[a].r.BCP, 1)[2]) /= Zero)]_vars

\* Between bytecodes the remembered set holds every old object and every stack that
\* points to new space, and the stack in use whatever it points to: a collection that
\* starts from it misses no pointer.
RememberedSetComplete ==
    \A a \in Arch :
        m[a].st = "run" =>
            /\ <<"stack", CurrentStack(m[a])>> \in m[a].rem
            /\ \A i \in DOMAIN m[a].stacks \ {CurrentStack(m[a])} :
                  PointsToNew(m[a].stacks[i]) => <<"stack", i>> \in m[a].rem
            /\ \A x \in DOMAIN m[a].heap :
                  ~IsNew(x) /\ PointsToNew(m[a].heap[x].f) => <<"object", x>> \in m[a].rem

\* An object marked immutable, which other processes may share, refers to immutable
\* objects only.
ImmutableIsDeep ==
    \A a \in Arch : \A x \in DOMAIN m[a].heap :
        LET o == m[a].heap[x]
        IN (ClassInfo[o.c].immutable = "maybe" /\ o.im)
           => \A i \in DOMAIN o.f : IsImmutable(m[a], o.f[i])

\* The value that a program left on its stack when it terminated.
Result(p) == LET q == p.stacks[CurrentStack(p)] IN q[Len(q) - 3]
Terminated(p) == p.st = "exit" /\ p.code = Word(kTerminate)
=============================================================================
