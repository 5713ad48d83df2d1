----------------------------- MODULE InterpreterX86 -----------------------------
(* The code that InterpreterGeneratorX86 prints (interpreter_x86.cc): the
   labels by family of bytecodes.  The stack pointer of the machine is the
   Dart stack pointer, so every C call switches stacks.  *)
EXTENDS InterpreterAssembler

EAX == "EAX"
EBX == "EBX"
ECX == "ECX"
EDX == "EDX"
ESI == BCP
EBP == FP
EDI == PROC
ESP == SP
PC == "PC"                      \* where ret is about to jump
Args == <<"C0", "C1", "C2", "C3">>   \* the slots at the top of the C stack
Arg(k, a) == Mov(Args[k + 1], a)
Registers == {EAX, EBX, ECX, EDX, PC, "delta", "frame"} \cup {Args[i] : i \in 1..4}
                 \cup {BCP, FP, PROC}
Clobbered == {EAX, ECX, EDX} \cup {Args[i] : i \in 1..4}


-----------------------------------------------------------------------------
LoadProgram(reg) == Lds(reg, EDI, "program")
LoadStaticsArray(reg) == Lds(reg, EDI, "statics")
LoadLiteralNull(reg) == <<LoadProgram(reg), Lds(reg, reg, "null")>>
LoadLiteralTrue(reg) == <<LoadProgram(reg), Lds(reg, reg, "true")>>
LoadLiteralFalse(reg) == <<LoadProgram(reg), Lds(reg, reg, "false")>>
StoreByteCodePointer == StSlot(EBP, -1, ESI)
RestoreByteCodePointer == LdSlot(ESI, EBP, -1)
SwitchToDartStack == ToDart
SwitchToCStack(scratch) == ToC
Dispatch(size) == <<Disp(size)>>
Ret == <<Pop(PC), JmpR(PC)>>
Call(label, ra) == <<PushK(Lbl(ra)), Jmp(label)>>
CallR(reg, ra) == <<PushK(Lbl(ra)), JmpR(reg)>>
SaveState(resume) ==
    <<StoreByteCodePointer, Imm(ECX, Lbl(resume)), Push(ECX), Push(EBP), SaveTop, ToC>>
RestoreState == <<ToDart, LoadTop, Pop(EBP), RestoreByteCodePointer>> \o Ret
CheckStackOverflow(size) ==
    <<Lds(EBX, EDI, "limit"), J("be", ESP, EBX, <<Jmp("check_stack_overflow_0")>>)>>
\* Only scratch is overwritten; a smi value needs no barrier.
AddToRememberedSet(object, value, scratch, rest) ==
    <<JT("eq", value, 1, rest), Card(scratch, object), Dirty(scratch)>> \o rest
IsRetry(reg, scratch) ==
    <<Mov(scratch, reg), AluK("and", scratch, scratch, FailureTypeMask),
      JK("eq", scratch, RetryAfterGC, <<Jmp("gc")>>)>>

-----------------------------------------------------------------------------
\* Expects to be called after SaveState with the exception object in EBX.
DoThrowAfterSaveState ==
    <<Arg(0, EDI), Arg(1, EBX), CCall("HandleThrow", <<"C0", "C1">>, EAX)>> \o RestoreState

\* The labels around the bytecodes, with the slow paths of a collection and of a stack
\* that is too small.
Epilogue ==
    LET CheckStackOverflowSlow ==
            SaveState("overflow_resume")
            \o <<Arg(0, EDI), Arg(1, EAX), CCall("HandleStackOverflow", <<"C0", "C1">>, EAX)>>
            \o RestoreState
    IN  [prologue |-> RestoreState,
         done |-> SaveState("interpreter_entry") \o <<Exit(EAX)>>,
         interpreter_entry |-> Dispatch(0),
         gc |->
             SaveState("interpreter_entry") \o <<Arg(0, EDI), CCall("HandleGC", <<"C0">>, EAX)>>
               \o RestoreState,
         check_stack_overflow_0 |-> <<Imm(EAX, Zero)>> \o CheckStackOverflowSlow,
         check_stack_overflow |-> CheckStackOverflowSlow,
         overflow_resume |->
             <<JK("eq", EAX, Zero, Dispatch(0)),
               JK("eq", EAX, Word(kStackCheckInterrupt), <<Imm(EAX, Word(kInterrupt)), Jmp("done")>>),
               JK("eq", EAX, Word(kStackCheckDebugInterrupt), <<Imm(EAX, Word(kBreakpoint)), Jmp("done")>>)>>
             \o SaveState("throw_resume")
             \o <<LoadProgram(EBX), Lds(EBX, EBX, "overflow_error")>> \o DoThrowAfterSaveState,
         InterpreterMethodEntry |->
             <<Push(EBP), Mov(EBP, ESP), PushK(Zero), FnStart(ESI, EAX)>>
             \o CheckStackOverflow(0) \o Dispatch(0)]
GenerateBytecodePrologue(name) == Call("DebugAtBytecode", name)
\* Mutant: the return address is kept in a register that the C call may overwrite.
DebugAtBytecodeUnsaved ==
    <<Pop(ECX), Mov(EDX, ESP), SwitchToCStack(EAX), Arg(0, EDI), Arg(1, ESI), Arg(2, EDX),
      CCall("HandleAtBytecode", <<"C0", "C1", "C2">>, EAX), SwitchToDartStack,
      JK("ne", EAX, Zero, <<Jmp("done")>>), Push(ECX)>> \o Ret
GenerateDebugAtBytecode ==
    <<Pop(EBX), Mov(EDX, ESP), SwitchToCStack(EAX), Arg(0, EDI), Arg(1, ESI), Arg(2, EDX),
      CCall("HandleAtBytecode", <<"C0", "C1", "C2">>, EAX), SwitchToDartStack,
      JK("ne", EAX, Zero, <<Jmp("done")>>), Push(EBX)>> \o Ret

-----------------------------------------------------------------------------
Loads ==
    LET DoLoadLocalN(n) == <<LoadLocal(EAX, n), Push(EAX)>> \o Dispatch(1)
        LoadFieldCode ==
            <<Opd(EBX, 1), LoadLocal(EAX, 0), FldX(EAX, EAX, EBX), StoreLocal(EAX, 0)>>
    IN  [BC_LoadLocal0 |-> DoLoadLocalN(0),
         BC_LoadLocal1 |-> DoLoadLocalN(1),
         BC_LoadLocal2 |-> DoLoadLocalN(2),
         BC_LoadLocal3 |-> DoLoadLocalN(3),
         BC_LoadLocal4 |-> DoLoadLocalN(4),
         BC_LoadLocal5 |-> DoLoadLocalN(5),
         BC_LoadLocal |-> <<Opd(EAX, 1), LocX(EAX, EAX), Push(EAX)>> \o Dispatch(2),
         BC_LoadLocalWide |-> <<Opd(EAX, 1), LocX(EAX, EAX), Push(EAX)>> \o Dispatch(5),
         BC_LoadBoxed |->
             <<Opd(EAX, 1), LocX(EBX, EAX), Fld(EAX, EBX, 1), Push(EAX)>> \o Dispatch(2),
         BC_LoadStatic |->
                 <<Opd(EAX, 1), LoadStaticsArray(EBX), FldX(EAX, EBX, EAX), Push(EAX)>> \o Dispatch(5),
         BC_LoadStaticInit |->
             LET done == <<Push(EAX)>> \o Dispatch(5)
             IN <<Opd(EAX, 1), LoadStaticsArray(EBX), FldX(EAX, EBX, EAX), JT("eq", EAX, 1, done),
                  Lds(EBX, EAX, "class"), Lds(EBX, EBX, "type"),
                  JK("ne", EBX, <<"type", "INITIALIZER_TYPE">>, done),
                  Fld(EAX, EAX, 1), StoreByteCodePointer>>
                \o Call("InterpreterMethodEntry", "ret_LoadStaticInit"),
         ret_LoadStaticInit |-> <<RestoreByteCodePointer, Push(EAX)>> \o Dispatch(5),
         BC_LoadField |-> LoadFieldCode \o Dispatch(2),
         BC_LoadFieldWide |-> LoadFieldCode \o Dispatch(5),
         BC_LoadConst |-> <<Opd(EAX, 1), Push(EAX)>> \o Dispatch(5)]

Stores ==
    LET StoreFieldCode(size) ==
            <<Opd(EBX, 1), LoadLocal(ECX, 0), LoadLocal(EAX, 1), SetFldX(EAX, EBX, ECX),
              StoreLocal(ECX, 1), Drop(1)>>
            \o AddToRememberedSet(EAX, ECX, EBX, Dispatch(size))
    IN  [BC_StoreLocal |-> <<LoadLocal(EBX, 0), Opd(EAX, 1), SetLocX(EBX, EAX)>> \o Dispatch(2),
         BC_StoreBoxed |->
             <<LoadLocal(ECX, 0), Opd(EAX, 1), LocX(EBX, EAX), SetFld(EBX, 1, ECX)>>
             \o AddToRememberedSet(EBX, ECX, EAX, Dispatch(2)),
         BC_StoreStatic |->
             <<LoadLocal(ECX, 0), Opd(EAX, 1), LoadStaticsArray(EBX), SetFldX(EBX, EAX, ECX)>>
             \o AddToRememberedSet(EBX, ECX, EAX, Dispatch(5)),
         BC_StoreField |-> StoreFieldCode(2),
         BC_StoreFieldWide |-> StoreFieldCode(5)]

Literals ==
    [BC_LoadLiteralNull |-> LoadLiteralNull(EAX) \o <<Push(EAX)>> \o Dispatch(1),
     BC_LoadLiteralTrue |-> LoadLiteralTrue(EAX) \o <<Push(EAX)>> \o Dispatch(1),
     BC_LoadLiteralFalse |-> LoadLiteralFalse(EAX) \o <<Push(EAX)>> \o Dispatch(1),
     BC_LoadLiteral0 |-> <<Imm(EAX, SmiFromWord(0)), Push(EAX)>> \o Dispatch(1),
     BC_LoadLiteral1 |-> <<Imm(EAX, SmiFromWord(1)), Push(EAX)>> \o Dispatch(1),
     BC_LoadLiteral |-> <<Opd(EAX, 1), ShiftK("shl", EAX, EAX, 1), Push(EAX)>> \o Dispatch(2),
     BC_LoadLiteralWide |-> <<Opd(EAX, 1), ShiftK("shl", EAX, EAX, 1), Push(EAX)>> \o Dispatch(5)]

-----------------------------------------------------------------------------
\* The end of a call: drop the arguments that the arity in EDX counts.
FinishCall(size) == <<DropR(EDX), StoreLocal(EAX, 0)>> \o Dispatch(size)
ArityFromBytecode == <<Opd(EDX, 1), AluK("and", EDX, EDX, kArityMask)>>
InvokeMethodUnfold(test) ==
    LET Finish ==
            IF test
            THEN <<Lds(EAX, EAX, "code"), LoadProgram(EBX),
                   JK("ne", EAX, Zero, <<Lds(EAX, EBX, "true"), StoreLocal(EAX, 0)>> \o Dispatch(5)),
                   Lds(EAX, EBX, "false"), StoreLocal(EAX, 0)>> \o Dispatch(5)
            ELSE LET go == <<StoreByteCodePointer>> \o CallR(EBX, "ret_InvokeMethodUnfold")
                 IN <<Lds(EBX, EAX, "code"), Lds(EAX, EAX, "target"), Imm(ECX, Lbl("InterpreterMethodEntry")),
                      JK("ne", EBX, Zero, go), Mov(EBX, ECX)>> \o go
        Miss ==
            <<SwitchToCStack(ECX), Arg(0, EDI), Arg(1, EAX), Arg(2, EBX), Arg(3, EDX),
              CCall("HandleLookupEntry", <<"C0", "C1", "C2", "C3">>, EAX), SwitchToDartStack>> \o Finish
        Probe ==
            <<Alu("xor", EAX, EBX, EDX), AluK("and", EAX, EAX, kPrimaryMask), Lds(ECX, EDI, "primary"),
              CacheEntry(EAX, ECX, EAX), Lds(ECX, EAX, "class"), J("ne", EBX, ECX, Miss),
              Lds(ECX, EAX, "selector"), J("ne", EDX, ECX, Miss)>> \o Finish
    IN  <<Opd(EDX, 1)>>
        \o (IF test THEN <<LoadLocal(EBX, 0)>>
            ELSE <<AluK("and", EBX, EDX, kArityMask), LocX(EBX, EBX)>>)
        \o <<JT("eq", EBX, 1, <<LoadProgram(EBX), Lds(EBX, EBX, "smi_class")>> \o Probe),
             Lds(EBX, EBX, "class")>> \o Probe
NoSuchMethodEntry == <<LoadProgram(ECX), Lds(ECX, ECX, "table"), Lds(ECX, ECX, "entry0")>>
InvokeMethod(test) ==
    LET Answer(load) == load \o <<StoreLocal(EAX, 0)>> \o Dispatch(5)
        Validated ==
            <<Lds(EAX, ECX, "target"), Lds(ECX, ECX, "code"), StoreByteCodePointer,
              Imm(EBX, Lbl("InterpreterMethodEntry")),
              J("eq", ECX, EBX, CallR(EBX, "ret_InvokeMethodDefault"))>>
            \o CallR(ECX, "ret_InvokeMethod")
        DispatchEntry ==
            <<Lds(EBX, EBX, "id"), Alu("add", EBX, EBX, EDX), Entry(ECX, ECX, EBX), Lds(EBX, ECX, "offset"),
              J("ne", EDX, EBX, IF test THEN Answer(LoadLiteralFalse(EAX))
                                ELSE NoSuchMethodEntry \o Validated)>>
            \o (IF test THEN Answer(LoadLiteralTrue(EAX)) ELSE Validated)
    IN  <<Opd(EDX, 1), LoadProgram(ECX), Lds(ECX, ECX, "table")>>
        \o (IF test THEN <<>> ELSE <<AluK("and", EBX, EDX, kArityMask)>>)
        \o <<AluK("and", EDX, EDX, kIdMask), ShiftK("shr", EDX, EDX, kIdShift - 1)>>
        \o (IF test THEN <<LoadLocal(EBX, 0)>> ELSE <<LocX(EBX, EBX)>>)
        \o <<JT("eq", EBX, 1, <<LoadProgram(EBX), Lds(EBX, EBX, "smi_class")>> \o DispatchEntry),
             Lds(EBX, EBX, "class")>> \o DispatchEntry
InvokeStatic ==
    <<Opd(EAX, 1), StoreByteCodePointer>> \o Call("InterpreterMethodEntry", "ret_InvokeStatic")
InvokeStaticReturn ==
    <<RestoreByteCodePointer, Opd(EDX, 1), Lds(EDX, EDX, "arity"), ShiftK("shr", EDX, EDX, 1),
      DropR(EDX), Push(EAX)>> \o Dispatch(5)

-----------------------------------------------------------------------------
NativeReturn == <<SetSP(EBP), Pop(EBP)>> \o Ret
ContinueWithResult(yield) ==
    LET NativeFailure ==
            IsRetry(EAX, ECX)
            \o <<SwitchToCStack(ECX), Arg(0, EDI), Arg(1, EAX),
                 CCall("HandleObjectFromFailure", <<"C0", "C1">>, EAX), SwitchToDartStack, Push(EAX)>>
            \o Dispatch(3)
    IN  <<Mov(ECX, EAX), AluK("and", ECX, ECX, FailureTagMask), JK("eq", ECX, Word(3), NativeFailure)>>
        \o (IF ~yield THEN NativeReturn
            ELSE LoadLiteralNull(ECX)
                 \o <<J("eq", EAX, ECX, <<Jmp("dont_yield")>>), StYield(EAX),
                      Imm(EAX, Word(kTargetYield))>>
                 \o SaveState("dont_yield") \o <<Exit(EAX)>>)
DontYield == LoadLiteralNull(EAX) \o NativeReturn
InvokeNative(yield, safepoint) ==
    <<Opd(EBX, 1), Opd(EAX, 2), LeaX(EBX, ESP, EBX, 2)>>
    \o (IF safepoint THEN SaveState("continue_with_result") ELSE <<SwitchToCStack(ECX)>>)
    \o <<Arg(0, EDI), Arg(1, EBX), CallNative(EAX, <<"C0", "C1">>, EAX)>>
    \o (IF safepoint THEN RestoreState ELSE <<SwitchToDartStack>> \o ContinueWithResult(yield))

Invokes ==
    [BC_InvokeMethodUnfold |-> InvokeMethodUnfold(FALSE),
     ret_InvokeMethodUnfold |-> <<RestoreByteCodePointer>> \o ArityFromBytecode \o FinishCall(5),
     BC_InvokeMethod |-> InvokeMethod(FALSE),
     ret_InvokeMethod |-> <<RestoreByteCodePointer>> \o ArityFromBytecode \o FinishCall(5),
     ret_InvokeMethodDefault |-> <<RestoreByteCodePointer>> \o ArityFromBytecode \o FinishCall(5),
     BC_InvokeNoSuchMethod |->
         NoSuchMethodEntry \o <<Lds(EAX, ECX, "target"), StoreByteCodePointer>>
         \o Call("InterpreterMethodEntry", "ret_InvokeNoSuchMethod"),
     ret_InvokeNoSuchMethod |-> <<RestoreByteCodePointer>> \o ArityFromBytecode \o FinishCall(5),
     BC_InvokeTestNoSuchMethod |-> LoadLiteralFalse(EAX) \o <<StoreLocal(EAX, 0)>> \o Dispatch(5),
     BC_InvokeTestUnfold |-> InvokeMethodUnfold(TRUE),
     BC_InvokeTest |-> InvokeMethod(TRUE),
     BC_InvokeStatic |-> InvokeStatic,
     BC_InvokeFactory |-> InvokeStatic,
     ret_InvokeStatic |-> InvokeStaticReturn,
     BC_InvokeLeafNative |-> InvokeNative(FALSE, FALSE),
     BC_InvokeNative |-> InvokeNative(FALSE, TRUE),
     BC_InvokeNativeYield |-> InvokeNative(TRUE, FALSE),
     continue_with_result |-> ContinueWithResult(FALSE),
     dont_yield |-> DontYield,
     BC_InvokeSelector |->
         SaveState("resume_InvokeSelector")
         \o <<Arg(0, EDI), CCall("HandleInvokeSelector", <<"C0">>, EAX)>> \o RestoreState,
     resume_InvokeSelector |->
             <<StoreByteCodePointer>> \o Call("InterpreterMethodEntry", "ret_InvokeSelector"),
     ret_InvokeSelector |->
         <<RestoreByteCodePointer, Opd(EDX, 1), Neg(EDX, EDX), LeaX(EDX, EBP, EDX, -2), LdSlot(EDX, EDX, 0),
           ShiftK("shr", EDX, EDX, 1), AluK("and", EDX, EDX, kArityMask)>> \o FinishCall(5)]

-----------------------------------------------------------------------------
\* Smi arithmetic: anything else, and overflow, is left to the method call.
SmiOperands(left, right, fallback) ==
    <<LoadLocal(left, 1), SmiTest(left, fallback), LoadLocal(right, 0), SmiTest(right, fallback)>>
BinaryResult(reg) == <<StoreLocal(reg, 1), Drop(1)>> \o Dispatch(5)
InvokeCompare(fallback, condition) ==
    <<LoadLocal(EAX, 0), SmiTest(EAX, fallback), LoadLocal(EBX, 1), SmiTest(EBX, fallback),
      J(condition, EBX, EAX, LoadLiteralTrue(EAX) \o BinaryResult(EAX))>>
    \o LoadLiteralFalse(EAX) \o BinaryResult(EAX)
\* Mutant: the quotient is tagged without a check for overflow.
InvokeDivisionUnchecked(fallback, quotient) ==
    LET reg == IF quotient THEN EAX ELSE EDX
    IN SmiOperands(EAX, EBX, fallback)
       \o <<JK("eq", EBX, Zero, <<Jmp(fallback)>>), ShiftK("sar", EAX, EAX, 1),
            ShiftK("sar", EBX, EBX, 1), IDiv(EAX, EDX, EAX, EBX), Alu("add", reg, reg, reg)>>
       \o BinaryResult(reg)
InvokeDivision(fallback, quotient) ==
    LET reg == IF quotient THEN EAX ELSE EDX
    IN SmiOperands(EAX, EBX, fallback)
       \o <<JK("eq", EBX, Zero, <<Jmp(fallback)>>), ShiftK("sar", EAX, EAX, 1),
            ShiftK("sar", EBX, EBX, 1), IDiv(EAX, EDX, EAX, EBX),
            JOv("add", reg, reg, reg, <<Jmp(fallback)>>)>>
       \o BinaryResult(reg)

Arithmetic(fallback) ==
    [Eq |-> InvokeCompare(fallback, "eq"),
     Lt |-> InvokeCompare(fallback, "lt"),
     Le |-> InvokeCompare(fallback, "le"),
     Gt |-> InvokeCompare(fallback, "gt"),
     Ge |-> InvokeCompare(fallback, "ge"),
     Add |->
         SmiOperands(EAX, EBX, fallback) \o <<JOv("add", EAX, EAX, EBX, <<Jmp(fallback)>>)>>
         \o BinaryResult(EAX),
     Sub |->
         SmiOperands(EAX, EBX, fallback) \o <<JOv("sub", EAX, EAX, EBX, <<Jmp(fallback)>>)>>
         \o BinaryResult(EAX),
     Mod |-> <<Jmp(fallback)>>,
     Mul |->
         SmiOperands(EAX, EBX, fallback)
         \o <<ShiftK("sar", EAX, EAX, 1), ShiftK("sar", EBX, EBX, 1),
              JOv("mul", EAX, EAX, EBX, <<Jmp(fallback)>>),
              JOv("add", EAX, EAX, EAX, <<Jmp(fallback)>>)>>
         \o BinaryResult(EAX),
     TruncDiv |-> InvokeDivision(fallback, TRUE)]

Bits(fallback) ==
    LET InvokeBitOp(f) ==
            SmiOperands(EAX, EBX, fallback) \o <<Alu(f, EAX, EAX, EBX)>> \o BinaryResult(EAX)
    IN  [BitNot |->
             <<LoadLocal(EAX, 0), SmiTest(EAX, fallback), AluK("xor", EAX, EAX, 2^W - 1),
               AluK("and", EAX, EAX, 2^W - 2), StoreLocal(EAX, 0)>> \o Dispatch(5),
         BitAnd |-> InvokeBitOp("and"),
         BitOr |-> InvokeBitOp("or"),
         BitXor |-> InvokeBitOp("xor"),
         BitShr |->
             LET shift == <<Shift("sar", EAX, EAX, ECX), Alu("add", EAX, EAX, EAX)>> \o BinaryResult(EAX)
             IN SmiOperands(EAX, ECX, fallback)
                \o <<ShiftK("sar", EAX, EAX, 1), ShiftK("sar", ECX, ECX, 1),
                     JK("lt", ECX, Word(W), shift), Imm(ECX, Word(W - 1))>> \o shift,
         BitShl |->
             SmiOperands(EAX, ECX, fallback)
             \o <<ShiftK("sar", ECX, ECX, 1), JK("ae", ECX, Word(W), <<Jmp(fallback)>>),
                  Mov(EBX, EAX), Shift("shl", EAX, EAX, ECX), Mov(EDX, EAX), Shift("sar", EDX, EDX, ECX),
                  J("ne", EBX, EDX, <<Jmp(fallback)>>)>>
             \o BinaryResult(EAX)]

-----------------------------------------------------------------------------
Return(is_return_null) ==
    (IF is_return_null THEN LoadLiteralNull(EAX) ELSE <<LoadLocal(EAX, 0)>>)
    \o <<SetSP(EBP), Pop(EBP)>> \o Ret

Branches ==
    LET BranchForward(off) == <<Opd(EAX, off), Alu("add", ESI, ESI, EAX)>> \o Dispatch(0)
        BranchBackward(off) == <<Opd(EAX, off), Alu("sub", ESI, ESI, EAX)>> \o Dispatch(0)
        BranchOn(cc, target, size) ==
            <<Pop(EBX)>> \o LoadLiteralTrue(EAX) \o <<J(cc, EBX, EAX, target)>> \o Dispatch(size)
    IN  [BC_Pop |-> <<Drop(1)>> \o Dispatch(1),
         BC_Drop |-> <<Opd(EAX, 1), DropR(EAX)>> \o Dispatch(2),
         BC_Return |-> Return(FALSE),
         BC_ReturnNull |-> Return(TRUE),
         BC_BranchWide |-> BranchForward(1),
         BC_BranchIfTrueWide |-> BranchOn("eq", BranchForward(1), 5),
         BC_BranchIfFalseWide |-> BranchOn("ne", BranchForward(1), 5),
         BC_BranchBack |-> CheckStackOverflow(0) \o BranchBackward(1),
         BC_BranchBackIfTrue |-> CheckStackOverflow(0) \o BranchOn("eq", BranchBackward(1), 2),
         BC_BranchBackIfFalse |-> CheckStackOverflow(0) \o BranchOn("ne", BranchBackward(1), 2),
         BC_BranchBackWide |-> CheckStackOverflow(0) \o BranchBackward(1),
         BC_BranchBackIfTrueWide |-> CheckStackOverflow(0) \o BranchOn("eq", BranchBackward(1), 5),
         BC_BranchBackIfFalseWide |->
             CheckStackOverflow(0) \o BranchOn("ne", BranchBackward(1), 5),
         BC_PopAndBranchWide |-> <<Opd(EAX, 1), DropR(EAX)>> \o BranchForward(2),
         BC_PopAndBranchBackWide |->
                 CheckStackOverflow(0) \o <<Opd(EAX, 1), DropR(EAX)>> \o BranchBackward(2)]
Allocate(immutable) ==
    <<Opd(EBX, 1)>>
    \o (IF immutable THEN <<AllImmutable("C2", EBX)>> ELSE <<Imm("C2", Zero)>>)
    \o <<SwitchToCStack(EAX), Arg(0, EDI), Arg(1, EBX),
         CCall("HandleAllocate", <<"C0", "C1", "C2">>, EAX), SwitchToDartStack>>
    \o IsRetry(EAX, ECX) \o <<PopFields(EAX, EBX), Push(EAX)>> \o Dispatch(5)

Objects ==
    [BC_Allocate |-> Allocate(FALSE),
     BC_AllocateImmutable |-> Allocate(TRUE),
     BC_AllocateBoxed |->
         <<LoadLocal(EBX, 0), SwitchToCStack(EAX), Arg(0, EDI), Arg(1, EBX),
           CCall("HandleAllocateBoxed", <<"C0", "C1">>, EAX), SwitchToDartStack>>
         \o IsRetry(EAX, ECX) \o <<StoreLocal(EAX, 0)>> \o Dispatch(1),
     BC_Negate |->
         LET store == <<StoreLocal(EAX, 0)>> \o Dispatch(1)
         IN <<LoadLocal(EBX, 0), LoadProgram(ECX), Lds(EAX, ECX, "true"), J("ne", EBX, EAX, store),
              Lds(EAX, ECX, "false")>> \o store,
     BC_StackOverflowCheck |->
         <<Opd(EAX, 1), Lds(EBX, EDI, "limit"), Neg(EAX, EAX), LeaX(ECX, ESP, EAX, 0),
           J("be", ECX, EBX, <<Jmp("check_stack_overflow")>>)>> \o Dispatch(5)]

Control ==
    LET ThrowResume ==
            <<JK("ne", EAX, Zero,
                 <<Mov(EBP, "frame"), Mov(ECX, "delta"), Mov(ESI, EAX), DropR(ECX), StoreLocal(EBX, 0)>>
                 \o Dispatch(0)),
              Imm(EAX, Word(kUncaughtException)), Jmp("done")>>
    IN  [BC_Throw |-> <<LoadLocal(EBX, 0)>> \o SaveState("resume_Throw") \o DoThrowAfterSaveState,
         throw_resume |-> ThrowResume,
         resume_Throw |-> ThrowResume,
         BC_SubroutineCall |->
             <<Opd(EAX, 1), Opd(EBX, 5), ShiftK("shl", EBX, EBX, 1), Push(EBX),
               Alu("add", ESI, ESI, EAX)>> \o Dispatch(0),
         BC_SubroutineReturn |->
                 <<Pop(EAX), ShiftK("shr", EAX, EAX, 1), Alu("sub", ESI, ESI, EAX)>> \o Dispatch(0),
         BC_ProcessYield |->
             LoadLiteralNull(EBX)
             \o <<LoadLocal(EAX, 0), ShiftK("sar", EAX, EAX, 1), AluK("add", ESI, ESI, 1),
                  StoreLocal(EBX, 0), Jmp("done")>>,
         BC_CoroutineChange |->
             LoadLiteralNull(EAX)
             \o <<LoadLocal(EBX, 0), LoadLocal(EDX, 1), StoreLocal(EAX, 0), StoreLocal(EAX, 1)>>
             \o SaveState("resume_CoroutineChange")
             \o <<Arg(0, EDI), Arg(1, EDX), CCall("HandleCoroutineChange", <<"C0", "C1">>, EAX)>>
             \o RestoreState,
         resume_CoroutineChange |-> <<StoreLocal(EBX, 1), Drop(1)>> \o Dispatch(1)]

-----------------------------------------------------------------------------
Identity ==
    LET SameObject(left, right) ==
            <<J("eq", left, right, <<Lds(EAX, ECX, "true"), StoreLocal(EAX, 1), Drop(1)>> \o Dispatch(1)),
              Lds(EAX, ECX, "false"), StoreLocal(EAX, 1), Drop(1)>> \o Dispatch(1)
    IN  [BC_Identical |->
             LET fast_case == <<LoadProgram(ECX)>> \o SameObject(EBX, EAX)
                 bail_out == <<SwitchToCStack(ECX), Arg(0, EDI), Arg(1, EBX), Arg(2, EAX),
                               CCall("HandleIdentical", <<"C0", "C1", "C2">>, EAX), SwitchToDartStack,
                               StoreLocal(EAX, 1), Drop(1)>> \o Dispatch(1)
             IN <<LoadLocal(EAX, 0), LoadLocal(EBX, 1), JT("eq", EAX, 1, fast_case),
                  JT("eq", EBX, 1, fast_case), Lds(ECX, EAX, "class"), Lds(ECX, ECX, "type"),
                  Lds(EDX, EBX, "class"), Lds(EDX, EDX, "type"), J("ne", ECX, EDX, fast_case),
                  JK("eq", ECX, <<"type", "DOUBLE_TYPE">>, bail_out),
                  JK("eq", ECX, <<"type", "LARGE_INTEGER_TYPE">>, bail_out)>> \o fast_case,
         BC_IdenticalNonNumeric |->
                 <<LoadLocal(EAX, 0), LoadLocal(EBX, 1), LoadProgram(ECX)>> \o SameObject(EAX, EBX),
         BC_EnterNoSuchMethod |->
             SaveState("interpreter_entry")
             \o <<Arg(0, EDI), CCall("HandleEnterNoSuchMethod", <<"C0">>, EAX)>> \o RestoreState,
         BC_ExitNoSuchMethod |->
             <<Pop(EAX), Pop(EBX), ShiftK("shr", EBX, EBX, 1), SetSP(EBP), Pop(EBP), Mov(ECX, EBX),
               AluK("and", ECX, ECX, kKindMask), JK("ne", ECX, Word(SETTER * 4), Ret), LoadLocal(EAX, 1)>>
             \o Ret,
         BC_MethodEnd |-> <<Int3>>]

-----------------------------------------------------------------------------
Intrinsics ==
    LET
        \* Intrinsics: the return address is still on top of the arguments.
        Failure == <<Jmp("InterpreterMethodEntry")>>
        CheckIndex ==
            <<JT("ne", EBX, 1, Failure), JK("lt", EBX, Zero, Failure), Fld(ECX, ECX, 1),
              Lds(EDX, ECX, "length"), J("ge", EBX, EDX, Failure)>>
    IN  [Intrinsic_ObjectEquals |-> <<Int3>>,
         Intrinsic_GetField |->
                 <<FnByte(EBX, EAX, 2), LoadLocal(EAX, 1), FldX(EAX, EAX, EBX)>> \o Ret,
         Intrinsic_SetField |->
             <<FnByte(EAX, EAX, 3), LoadLocal(EBX, 1), LoadLocal(ECX, 2), SetFldX(ECX, EAX, EBX)>>
             \o AddToRememberedSet(ECX, EBX, EAX, <<Mov(EAX, EBX)>> \o Ret),
         Intrinsic_ListIndexGet |->
                 <<LoadLocal(EBX, 1), LoadLocal(ECX, 2)>> \o CheckIndex \o <<FldT(EAX, ECX, EBX)>> \o Ret,
         Intrinsic_ListIndexSet |->
             <<LoadLocal(EBX, 2), LoadLocal(ECX, 3)>> \o CheckIndex
             \o <<Mov(EAX, EBX), LoadLocal(EBX, 1), SetFldT(ECX, EAX, EBX)>>
             \o AddToRememberedSet(ECX, EBX, EAX, <<Mov(EAX, EBX)>> \o Ret),
         Intrinsic_ListLength |->
             <<LoadLocal(ECX, 1), Fld(ECX, ECX, 1), Lds(EAX, ECX, "length")>> \o Ret]

-----------------------------------------------------------------------------
\* The code at every label, as InterpreterGenerator::Generate lays it out.
Generate ==
    Epilogue @@ ("DebugAtBytecode" :> GenerateDebugAtBytecode) @@ Loads @@ Stores @@ Literals
    @@ Invokes @@ SmiCode(LAMBDA fallback : Arithmetic(fallback) @@ Bits(fallback)) @@ Branches
    @@ Objects @@ Control @@ Identity @@ Intrinsics
X86 == [lab |-> Generate, keep |-> {BCP, FP, PROC}, clobbered |-> Clobbered, esp |-> "c",
        regs |-> Registers,
        debug |-> [name \in DOMAIN Generate |-> GenerateBytecodePrologue(name)]]
=============================================================================
