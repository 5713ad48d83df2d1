-------------------------- MODULE InterpreterMachine --------------------------
(* What the instructions of InterpreterAssembler do to the state of a process, and
   the execution of one bytecode.  An architecture is a record: lab, the code at
   each label; keep, the registers that hold a value from one bytecode to the
   next; clobbered, the registers that a C call overwrites; esp, the stack that
   the machine stack pointer must be on for a C call.  *)
EXTENDS InterpreterRuntime

IsPointer(w) == w[1] \in {"cls", "fn", "stk"}
Num(w) == IF w[1] = "cls" THEN ClassInfo[w[2]].addr ELSE w[2]
IsNum(w) == IsInt(w) \/ w[1] = "cls"
AluOf(f, x, y) ==
    CASE f = "and" /\ IsPointer(x) /\ IsInt(y) /\ y[2] <= 3 -> Word(1 & y[2])
      [] x[1] = "bcp" /\ IsInt(y) /\ f = "add" -> Advance(x, Signed(y[2]))
      [] x[1] = "bcp" /\ IsInt(y) /\ f = "sub" -> Advance(x, 0 - Signed(y[2]))
      [] ~(IsNum(x) /\ IsNum(y)) -> Undef
      [] f = "add" -> Word(Num(x) + Num(y))
      [] f = "sub" -> Word(Num(x) - Num(y))
      [] f = "and" -> Word(Num(x) & Num(y))
      [] f = "or" -> Word(Num(x) | Num(y))
      [] f = "xor" -> Word(Num(x) ^^ Num(y))
\* Shifts: shl, shr and sar take the count modulo W, the others up to a byte.
ShiftOf(f, x, y) ==
    LET n == IF f \in {"shl", "shr", "sar"} THEN y[2] % W
             ELSE IF y[2] % 256 > W THEN W ELSE y[2] % 256
    IN CASE ~(IsInt(x) /\ IsInt(y)) -> Undef
         [] f \in {"shl", "lsl"} -> Word(x[2] * 2^n)
         [] f \in {"shr", "lsr"} -> Word(x[2] \div 2^n)
         [] f \in {"sar", "asr"} -> Word(Signed(x[2]) \div 2^n)
TruncDiv(a, b) == LET q == (IF a < 0 THEN -a ELSE a) \div (IF b < 0 THEN -b ELSE b)
                  IN IF (a < 0) = (b < 0) THEN q ELSE -q
Exact(f, x, y) == CASE f = "add" -> Signed(x[2]) + Signed(y[2])
                    [] f = "sub" -> Signed(x[2]) - Signed(y[2])
                    [] f = "mul" -> Signed(x[2]) * Signed(y[2])
Overflows(n) == n < -(2^(W - 1)) \/ n >= 2^(W - 1)

\* A stack address is the higher the closer it is to the bottom.
Order(w, signed) == CASE w[1] \in {"slot", "limit"} -> 0 - w[2]
                      [] OTHER -> IF signed THEN Signed(w[2]) ELSE w[2]
Holds(cc, x, y) ==
    CASE cc = "eq" -> x = y
      [] cc = "ne" -> x /= y
      [] cc = "lt" -> Order(x, TRUE) < Order(y, TRUE)
      [] cc = "le" -> Order(x, TRUE) <= Order(y, TRUE)
      [] cc = "gt" -> Order(x, TRUE) > Order(y, TRUE)
      [] cc = "ge" -> Order(x, TRUE) >= Order(y, TRUE)
      [] cc = "b" -> Order(x, FALSE) < Order(y, FALSE)
      [] cc = "be" -> Order(x, FALSE) <= Order(y, FALSE)
      [] cc = "a" -> Order(x, FALSE) > Order(y, FALSE)
      [] cc = "ae" -> Order(x, FALSE) >= Order(y, FALSE)
Comparable(cc, x, y) ==
    /\ x /= Undef /\ y /= Undef
    /\ cc \notin {"eq", "ne"} =>
          (IsInt(x) /\ IsInt(y)) \/ {x[1], y[1]} \subseteq {"slot", "limit"}

-----------------------------------------------------------------------------
Reg(m, x) == IF x = "SP" THEN <<"slot", Len(m.s)>> ELSE m.r[x]
Set(m, d, w) == [m EXCEPT !.r[d] = w]
Trap(m) == [m EXCEPT !.st = "trap"]
Slot(m, i) == IF i \in DOMAIN m.s THEN m.s[i] ELSE Undef
SetSlot(m, i, w) == IF i \in DOMAIN m.s /\ m.esp = "dart" THEN [m EXCEPT !.s[i] = w] ELSE Trap(m)
IndexOf(w) == IF IsInt(w) THEN Signed(w[2]) ELSE 2^W
InHeap(m, w) == IsObject(w) /\ w[2] \in DOMAIN m.heap
FieldOf(m, w, i) == IF InHeap(m, w) /\ i \in DOMAIN m.heap[w[2]].f
                    THEN m.heap[w[2]].f[i] ELSE Undef
SetField(m, w, i, v) == IF InHeap(m, w) /\ i \in DOMAIN m.heap[w[2]].f
                        THEN [m EXCEPT !.heap[w[2]].f[i] = v] ELSE Trap(m)
TaggedIndex(w) == IF IsSmi(w) THEN SmiValue(w) + 1 ELSE 0

\* A load from a C++ structure, by the name of the field.
StructField(m, w, name) ==
    CASE w[1] \in {"process", "cstack"} ->
            (CASE name = "process" -> <<"process", 0>> [] name = "program" -> <<"program", 0>>
               [] name = "statics" -> Statics
               [] name = "limit" -> StackLimit(m) [] name = "primary" -> <<"pri", 0>>)
      [] w[1] = "program" ->
            (CASE name = "null" -> Null [] name = "true" -> True [] name = "false" -> False
               [] name = "smi_class" -> <<"cls", "Smi">> [] name = "table" -> <<"table", 0>>
               [] name = "overflow_error" -> StackOverflowError)
      [] w[1] = "cls" ->
            (CASE name = "id" -> SmiFromWord(ClassInfo[w[2]].id)
               [] name = "class" -> <<"cls", "Object">>
               [] name = "type" -> <<"type", ClassInfo[w[2]].type>>)
      [] w[1] = "fn" -> SmiFromWord(Arity[w[2]])
      [] w[1] = "table" -> <<"entry", 0>>
      [] w[1] = "entry" ->
            (CASE name = "offset" -> SmiFromWord(DispatchTable[w[2]].offset)
               [] name = "target" -> <<"fn", DispatchTable[w[2]].target>>
               [] name = "code" -> ComputeIntrinsic(DispatchTable[w[2]].target))
      [] w[1] = "pri" -> m.pri[w[2]][name]
      [] w[1] = "sec" -> m.sec[w[2]][name]
      [] InHeap(m, w) -> IF name = "class" THEN <<"cls", m.heap[w[2]].c>>
                         ELSE SmiFromWord(Len(m.heap[w[2]].f))
      [] OTHER -> Undef
\* Is the object immutable: by its class, or by the bit of the instance.
IsImmutable(m, w) ==
    IsSmi(w) \/ (InHeap(m, w) /\ LET o == m.heap[w[2]]
                                     im == ClassInfo[o.c].immutable
                                 IN im = "always" \/ (im = "maybe" /\ o.im))

-----------------------------------------------------------------------------
(* Instructions that fall through.  The Dart stack is out of reach while the stack
   pointer is on the C stack.  *)
Data(m, i) ==
    LET op == i[1]
        d == i[2]
        v(k) == Reg(m, i[k])
        n == Len(m.s)
        stack == m.esp = "dart"
    IN CASE op = "mov" -> Set(m, d, v(3))
         [] op = "imm" -> Set(m, d, i[3])
         [] op = "alu" -> Set(m, d, AluOf(i[3], v(4), v(5)))
         [] op = "aluk" -> Set(m, d, AluOf(i[3], v(4), Word(i[5])))
         [] op = "neg" -> Set(m, d, AluOf("sub", Zero, v(3)))
         [] op = "shift" -> Set(m, d, ShiftOf(i[3], v(4), v(5)))
         [] op = "shiftk" -> Set(m, d, ShiftOf(i[3], v(4), Word(i[5])))
         [] op = "smull" ->
              IF ~(IsInt(v(4)) /\ IsInt(v(5))) THEN Trap(m)
              ELSE LET p == Exact("mul", v(4), v(5))
                   IN Set(Set(m, d, Word(p)), i[3], Word(p \div 2^W))
         [] op = "idiv" ->
              IF ~(IsInt(v(4)) /\ IsInt(v(5))) \/ v(5) = Zero THEN Trap(m)
              ELSE LET a == Signed(v(4)[2])
                       b == Signed(v(5)[2])
                   IN Set(Set(m, d, Word(TruncDiv(a, b))), i[3], Word(a - b * TruncDiv(a, b)))
         [] op = "opd" -> Set(m, d, IF IsBcp(m.r.BCP) THEN Operand(m.r.BCP, i[3]) ELSE Undef)
         [] op = "fnbyte" -> Set(m, d, IF v(3)[1] = "fn" THEN ByteAt(v(3)[2], i[4]) ELSE Undef)
         [] op = "fnstart" -> Set(m, d, IF v(3)[1] = "fn" THEN Bcp(v(3)[2], 0) ELSE Undef)
         [] op = "loc" -> Set(m, d, Slot(m, n - i[3]))
         [] op = "setloc" -> SetSlot(m, n - i[3], v(2))
         [] op = "locx" -> Set(m, d, Slot(m, n - IndexOf(v(3))))
         [] op = "setlocx" -> SetSlot(m, n - IndexOf(v(3)), v(2))
         [] op \in {"push", "pushk"} ->
              IF stack THEN [m EXCEPT !.s = Append(@, IF op = "push" THEN v(2) ELSE d)]
              ELSE Trap(m)
         [] op = "pop" -> IF stack /\ n > 0 THEN Set([m EXCEPT !.s = SubSeq(@, 1, n - 1)], d, m.s[n])
                          ELSE Trap(m)
         [] op \in {"drop", "dropr"} ->
              LET k == IF op = "drop" THEN d ELSE IndexOf(v(2))
              IN IF stack /\ k \in 0..n THEN [m EXCEPT !.s = SubSeq(@, 1, n - k)] ELSE Trap(m)
         [] op = "leax" -> Set(m, d, IF v(3)[1] = "slot" /\ IsInt(v(4))
                                     THEN <<"slot", v(3)[2] - Signed(v(4)[2]) - i[5]>> ELSE Undef)
         [] op = "ldslot" -> Set(m, d, IF v(3)[1] = "slot" THEN Slot(m, v(3)[2] - i[4]) ELSE Undef)
         [] op = "stslot" -> IF v(2)[1] = "slot" THEN SetSlot(m, v(2)[2] - i[3], v(4)) ELSE Trap(m)
         [] op = "setsp" -> IF v(2)[1] = "slot" /\ stack /\ v(2)[2] \in 0..n
                            THEN [m EXCEPT !.s = SubSeq(@, 1, v(2)[2])] ELSE Trap(m)
         [] op = "savetop" -> [m EXCEPT !.stacks[CurrentStack(m)] = m.s, !.s = <<>>]
         [] op = "loadtop" -> [m EXCEPT !.s = m.stacks[CurrentStack(m)]]
         [] op = "toc" -> IF stack THEN [m EXCEPT !.esp = "c"] ELSE Trap(m)
         [] op = "todart" -> IF stack THEN Trap(m) ELSE [m EXCEPT !.esp = "dart"]
         [] op = "fld" -> Set(m, d, FieldOf(m, v(3), i[4]))
         [] op = "setfld" -> SetField(m, v(2), i[3], v(4))
         [] op = "fldx" -> Set(m, d, FieldOf(m, v(3), IndexOf(v(4)) + 1))
         [] op = "setfldx" -> SetField(m, v(2), IndexOf(v(3)) + 1, v(4))
         [] op = "fldt" -> Set(m, d, FieldOf(m, v(3), TaggedIndex(v(4))))
         [] op = "setfldt" -> SetField(m, v(2), TaggedIndex(v(3)), v(4))
         [] op = "lds" -> Set(m, d, StructField(m, v(3), i[4]))
         [] op = "entry" -> Set(m, d, IF IsSmi(v(4)) /\ SmiValue(v(4)) \in DOMAIN DispatchTable
                                      THEN <<"entry", SmiValue(v(4))>> ELSE Undef)
         [] op = "cache" -> Set(m, d, IF IsInt(v(4)) THEN <<"pri", v(4)[2]>> ELSE Undef)
         [] op = "card" -> Set(m, d, IF IsObject(v(3)) THEN <<"card", v(3)[2]>> ELSE Undef)
         [] op = "dirty" -> IF v(2)[1] = "card"
                            THEN [m EXCEPT !.rem = @ \cup {<<"object", v(2)[2]>>}] ELSE Trap(m)
         [] op = "styield" -> [m EXCEPT !.yield = v(2)]
         [] op = "allimm" ->
              IF v(3)[1] /= "cls" THEN Trap(m)
              ELSE LET k == ClassInfo[v(3)[2]].size
                   IN Set(m, d, Word(IF \A j \in 1..k : IsImmutable(m, Slot(m, n - k + j))
                                     THEN 1 ELSE 0))
         [] op = "popfields" ->
              IF v(3)[1] /= "cls" \/ ~InHeap(m, v(2)) \/ n < ClassInfo[v(3)[2]].size THEN Trap(m)
              ELSE LET k == ClassInfo[v(3)[2]].size
                   IN [m EXCEPT !.heap[v(2)[2]].f = SubSeq(m.s, n - k + 1, n),
                                !.s = SubSeq(@, 1, n - k)]

\* A C call leaves its result in d and nothing in the registers it may overwrite.
AfterCall(A, x, d) ==
    [x.m EXCEPT !.r = [y \in DOMAIN @ |-> IF y = d THEN x.v
                                          ELSE IF y \in A.clobbered THEN Undef ELSE @[y]]]

RECURSIVE Exec(_, _, _, _)
\* Runs code until the next bytecode is dispatched or the interpreter exits.
Exec(A, m, o, code) ==
    LET i == code[1]
        op == i[1]
        v(k) == Reg(m, i[k])
        next == Tail(code)
        branch(c, x, y, then) == IF ~Comparable(c, x, y) THEN Trap(m)
                                 ELSE Exec(A, m, o, IF Holds(c, x, y) THEN then ELSE next)
        goto(w) == IF w[1] = "code" /\ w[2] \in DOMAIN A.lab THEN Exec(A, m, o, A.lab[w[2]])
                   ELSE Trap(m)
        after(x) == Exec(A, AfterCall(A, x, i[2]), o, next)
    IN CASE m.st = "trap" -> m
         [] op \in {"ccall", "native"} /\ m.esp /= A.esp -> Trap(m)
         [] op = "j" -> branch(i[2], v(3), v(4), i[5])
         [] op = "jk" -> branch(i[2], v(3), i[4], i[5])
         [] op = "jt" -> branch(i[2], AluOf("and", v(3), Word(i[4])), Zero, i[5])
         [] op = "jov" ->
              IF ~(IsInt(v(4)) /\ IsInt(v(5))) THEN Trap(m)
              ELSE LET e == Exact(i[3], v(4), v(5))
                   IN Exec(A, Set(m, i[2], Word(e)), o, IF Overflows(e) THEN i[6] ELSE next)
         [] op = "jmp" -> goto(Lbl(i[2]))
         [] op = "jmpr" -> goto(v(2))
         [] op = "ccall" -> after(RuntimeCall(m, o, i[3], [k \in DOMAIN i[4] |-> m.r[i[4][k]]]))
         [] op = "native" -> after(CallNativeFunction(m, o, m.r[i[4][2]]))
         [] op = "disp" ->
              LET b == Set(m, "BCP", AluOf("add", m.r.BCP, Word(i[2])))
              IN IF b.esp = "dart" /\ IsBcp(b.r.BCP)
                 THEN [b EXCEPT !.r = [x \in DOMAIN @ |-> IF x \in A.keep THEN @[x] ELSE Undef]]
                 ELSE Trap(m)
         [] op = "exit" -> [m EXCEPT !.st = "exit", !.code = v(2),
                                     !.r = [x \in DOMAIN @ |-> Undef]]
         [] op = "int3" -> Trap(m)
         [] OTHER -> Exec(A, Data(m, i), o, next)
=============================================================================
