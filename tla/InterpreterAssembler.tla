------------------------- MODULE InterpreterAssembler -------------------------
(* The words and the instructions in which the generated interpreters are
   written.  The generators of the four architectures (interpreter_x86.cc,
   interpreter_x64.cc, interpreter_arm.cc, interpreter_mips.cc) print assembly;
   here each of their methods is a sequence of instructions, with the register
   names of the architecture.  An instruction is a tuple whose first component is
   its kind; InterpreterMachine says what it does.

   A word is a pair: <<"int", n>> is n modulo 2^W, where even numbers are smis,
   1 modulo 4 are heap objects and 3 modulo 4 failures; the other kinds are
   pointers that the code only passes on: classes, functions, code addresses,
   stack slots, bytecode pointers.  Undef is a register or slot that holds
   nothing the code may rely on.  *)
EXTENDS Integers, Sequences, TLC

CONSTANTS
    W,                  \* bits of a word
    kPrimarySize        \* of the lookup cache, a power of two

Undef == <<"undef", 0>>
Word(n) == <<"int", n % 2^W>>
Zero == Word(0)
SmiFromWord(n) == Word(2 * n)
Signed(n) == IF n >= 2^(W - 1) THEN n - 2^W ELSE n
IsInt(w) == w[1] = "int"
IsSmi(w) == IsInt(w) /\ w[2] % 2 = 0
SmiValue(w) == Signed(w[2]) \div 2
IsObject(w) == IsInt(w) /\ w[2] % 4 = 1

\* The three singletons lie at fixed distances from each other.
Null == Word(1)
False == Word(9)
True == Word(17)
StackOverflowError == Word(21)
FailureObject == Word(25)
Statics == Word(29)
Boolean(b) == IF b THEN True ELSE False

\* Failure::kTag is 3 and the type RETRY_AFTER_GC is 0.
RetryAfterGC == Word(3)
WrongArgumentType == Word(7)
FailureTagMask == 3
FailureTypeMask == 31

\* Selectors: two bits of arity, two of kind, the rest is the id.
kArityMask == 3
kKindMask == 12
kIdShift == 4
kIdMask == 2^(W - 1) - 16
METHOD == 0
GETTER == 1
SETTER == 2
Encode(id, kind, arity) == id * 16 + kind * 4 + arity
SelectorArity(sel) == sel % 4
SelectorId(sel) == sel \div 16
kCall == 1
kNoSuchMethodTrampoline == 2
kPrimaryMask == kPrimarySize - 1

\* Interpreter::InterruptKind and Process::StackCheckResult.
kTerminate == 1
kInterrupt == 2
kTargetYield == 4
kUncaughtException == 5
kBreakpoint == 7
kStackCheckInterrupt == 1
kStackCheckDebugInterrupt == 2

-----------------------------------------------------------------------------
\* Every architecture keeps these three in fixed places between bytecodes.
BCP == "BCP"            \* the bytecode pointer
FP == "FP"              \* the frame pointer
PROC == "PROC"          \* the process
SP == "SP"              \* the stack pointer (Dart)
Lbl(name) == <<"code", name>>

\* Registers and arithmetic: d is the destination, a and b sources, n a literal.
Mov(d, a) == <<"mov", d, a>>
Imm(d, w) == <<"imm", d, w>>
Alu(f, d, a, b) == <<"alu", d, f, a, b>>
AluK(f, d, a, n) == <<"aluk", d, f, a, n>>
Shift(f, d, a, b) == <<"shift", d, f, a, b>>
Neg(d, a) == <<"neg", d, a>>
ShiftK(f, d, a, n) == <<"shiftk", d, f, a, n>>
Smull(lo, hi, a, b) == <<"smull", lo, hi, a, b>>
IDiv(q, r, a, b) == <<"idiv", q, r, a, b>>
\* The operand at offset off of the current bytecode; a byte of a function.
Opd(d, off) == <<"opd", d, off>>
FnByte(d, fn, off) == <<"fnbyte", d, fn, off>>
FnStart(d, fn) == <<"fnstart", d, fn>>
\* The Dart stack: locals count from the top; slots are addresses.
LoadLocal(d, i) == <<"loc", d, i>>
StoreLocal(a, i) == <<"setloc", a, i>>
LocX(d, x) == <<"locx", d, x>>
SetLocX(a, x) == <<"setlocx", a, x>>
Push(a) == <<"push", a>>
PushK(w) == <<"pushk", w>>
Pop(d) == <<"pop", d>>
Drop(n) == <<"drop", n>>
DropR(a) == <<"dropr", a>>
LeaX(d, base, x, n) == <<"leax", d, base, x, n>>
LdSlot(d, base, n) == <<"ldslot", d, base, n>>
StSlot(base, n, a) == <<"stslot", base, n, a>>
SetSP(a) == <<"setsp", a>>
SaveTop == <<"savetop">>
LoadTop == <<"loadtop">>
ToC == <<"toc">>
ToDart == <<"todart">>
\* Memory: a field by number, by index in a register, by smi in a register.
Fld(d, o, i) == <<"fld", d, o, i>>
SetFld(o, i, a) == <<"setfld", o, i, a>>
FldX(d, o, x) == <<"fldx", d, o, x>>
SetFldX(o, x, a) == <<"setfldx", o, x, a>>
FldT(d, o, x) == <<"fldt", d, o, x>>
SetFldT(o, x, a) == <<"setfldt", o, x, a>>
Lds(d, o, name) == <<"lds", d, o, name>>
Entry(d, table, x) == <<"entry", d, table, x>>
CacheEntry(d, base, x) == <<"cache", d, base, x>>
Card(d, o) == <<"card", d, o>>
Dirty(c) == <<"dirty", c>>
StYield(a) == <<"styield", a>>
\* The two loops over the fields of an instance of the class in c.
AllImmutable(d, c) == <<"allimm", d, c>>
PopFields(o, c) == <<"popfields", o, c>>

\* Control: code replaces what follows when the condition holds.
J(cc, a, b, code) == <<"j", cc, a, b, code>>
JK(cc, a, w, code) == <<"jk", cc, a, w, code>>
JT(cc, a, mask, code) == <<"jt", cc, a, mask, code>>
JOv(f, d, a, b, code) == <<"jov", d, f, a, b, code>>
Jmp(label) == <<"jmp", label>>
JmpR(a) == <<"jmpr", a>>
CCall(f, args, d) == <<"ccall", d, f, args>>
CallNative(a, args, d) == <<"native", d, a, args>>
Disp(n) == <<"disp", n>>
Exit(a) == <<"exit", a>>
Int3 == <<"int3">>
\* Jumps to the code of the method call when reg holds no smi.
SmiTest(reg, fallback) == JT("ne", reg, 1, <<Jmp(fallback)>>)

\* An operator on smis has two bytecodes, by the kind of call it falls back to.
SmiCode(code(_)) ==
    LET ops == DOMAIN code("")
        Labels(suffix) == [op \in ops |-> "BC_Invoke" \o op \o suffix]
        At(suffix) == [l \in {Labels(suffix)[op] : op \in ops} |->
                          code("BC_InvokeMethod" \o suffix)[CHOOSE op \in ops : Labels(suffix)[op] = l]]
    IN  At("") @@ At("Unfold")
=============================================================================
