----------------------------- MODULE InterpreterX64 -----------------------------
(* The code that InterpreterGeneratorX64 prints (interpreter_x64.cc): the
   labels by family of bytecodes.  The stack pointer of the machine is the
   Dart stack pointer.  The C stack pointer lives in R8, which a C call overwrites,
   and the process is found on the C stack.  *)
EXTENDS InterpreterAssembler

RAX == "RAX"
RBX == "RBX"
RCX == "RCX"
RDX == "RDX"
RSI == "RSI"
RDI == PROC                     \* holds the process on entry
R8 == "R8"
R13 == BCP
RBP == FP
RSP == SP
PC == "PC"                      \* where ret is about to jump
CStack == <<"cstack", 0>>
Registers == {RAX, RBX, RCX, RDX, RSI, RDI, R8, PC, "delta", "frame", BCP, FP}
Clobbered == {RAX, RCX, RDX, RSI, RDI, R8}


-----------------------------------------------------------------------------
\* LoadProcess, and the loads from the process that follow it.
LoadProcess(reg) == Lds(reg, R8, "process")
LoadProgram(reg) == Lds(reg, R8, "program")
LoadStaticsArray(reg) == Lds(reg, R8, "statics")
LoadLiteralNull(reg) == <<LoadProgram(reg), Lds(reg, reg, "null")>>
LoadLiteralTrue(reg) == <<LoadProgram(reg), Lds(reg, reg, "true")>>
LoadLiteralFalse(reg) == <<LoadProgram(reg), Lds(reg, reg, "false")>>
StoreByteCodePointer == StSlot(RBP, -1, R13)
RestoreByteCodePointer == LdSlot(R13, RBP, -1)
SwitchToDartStack == <<Imm(R8, CStack), ToDart>>
SwitchToCStack == <<JK("ne", R8, CStack, <<Int3>>), ToC>>
Dispatch(size) == <<Disp(size)>>
Ret == <<Pop(PC), JmpR(PC)>>
Call(label, ra) == <<PushK(Lbl(ra)), Jmp(label)>>
CallR(reg, ra) == <<PushK(Lbl(ra)), JmpR(reg)>>
SaveState(resume) ==
    <<StoreByteCodePointer, Imm(RCX, Lbl(resume)), Push(RCX), Push(RBP), LoadProcess(RCX), SaveTop>>
    \o SwitchToCStack
RestoreState == SwitchToDartStack \o <<LoadTop, Pop(RBP), RestoreByteCodePointer>> \o Ret
CheckStackOverflow(size) ==
    <<Lds(RBX, R8, "limit"), J("be", RSP, RBX, <<Jmp("check_stack_overflow_0")>>)>>
\* Object and scratch are overwritten; a smi value needs no barrier.
AddToRememberedSet(object, value, scratch, rest) ==
    <<JT("eq", value, 1, rest), LoadProcess(scratch), Card(object, object), Dirty(object)>> \o rest
IsRetry(reg, scratch) ==
    <<Mov(scratch, reg), AluK("and", scratch, scratch, FailureTypeMask),
      JK("eq", scratch, RetryAfterGC, <<Jmp("gc")>>)>>

-----------------------------------------------------------------------------
\* Expects to be called after SaveState with the exception object in RBX.
DoThrowAfterSaveState ==
    <<LoadProcess(RDI), Mov(RSI, RBX), CCall("HandleThrow", <<RDI, RSI>>, RAX)>> \o RestoreState

\* The labels around the bytecodes, with the slow paths of a collection and of a stack
\* that is too small.
Epilogue ==
    LET CheckStackOverflowSlow ==
            SaveState("overflow_resume")
            \o <<LoadProcess(RDI), Mov(RSI, RAX), CCall("HandleStackOverflow", <<RDI, RSI>>, RAX)>>
            \o RestoreState
    IN  [prologue |-> RestoreState,
         done |-> SaveState("interpreter_entry") \o <<Exit(RAX)>>,
         interpreter_entry |-> Dispatch(0),
         gc |->
             SaveState("interpreter_entry") \o <<LoadProcess(RDI), CCall("HandleGC", <<RDI>>, RAX)>>
               \o RestoreState,
         check_stack_overflow_0 |-> <<Imm(RAX, Zero)>> \o CheckStackOverflowSlow,
         check_stack_overflow |-> CheckStackOverflowSlow,
         overflow_resume |->
             <<JK("eq", RAX, Zero, Dispatch(0)),
               JK("eq", RAX, Word(kStackCheckInterrupt), <<Imm(RAX, Word(kInterrupt)), Jmp("done")>>),
               JK("eq", RAX, Word(kStackCheckDebugInterrupt), <<Imm(RAX, Word(kBreakpoint)), Jmp("done")>>)>>
             \o SaveState("throw_resume")
             \o <<LoadProgram(RBX), Lds(RBX, RBX, "overflow_error")>> \o DoThrowAfterSaveState,
         InterpreterMethodEntry |->
             <<Push(RBP), Mov(RBP, RSP), PushK(Zero), FnStart(R13, RAX)>>
             \o CheckStackOverflow(0) \o Dispatch(0)]
GenerateBytecodePrologue(name) == Call("DebugAtBytecode", name)
GenerateDebugAtBytecode ==
    <<Pop(RBX), LoadProcess(RDI), Mov(RDX, RSP)>> \o SwitchToCStack
    \o <<Mov(RSI, R13), CCall("HandleAtBytecode", <<RDI, RSI, RDX>>, RAX)>> \o SwitchToDartStack
    \o <<JK("ne", RAX, Zero, <<Jmp("done")>>), Push(RBX)>> \o Ret

-----------------------------------------------------------------------------
Loads ==
    LET DoLoadLocalN(n) == <<LoadLocal(RAX, n), Push(RAX)>> \o Dispatch(1)
        LoadFieldCode ==
            <<Opd(RBX, 1), LoadLocal(RAX, 0), FldX(RAX, RAX, RBX), StoreLocal(RAX, 0)>>
    IN  [BC_LoadLocal0 |-> DoLoadLocalN(0),
         BC_LoadLocal1 |-> DoLoadLocalN(1),
         BC_LoadLocal2 |-> DoLoadLocalN(2),
         BC_LoadLocal3 |-> DoLoadLocalN(3),
         BC_LoadLocal4 |-> DoLoadLocalN(4),
         BC_LoadLocal5 |-> DoLoadLocalN(5),
         BC_LoadLocal |-> <<Opd(RAX, 1), LocX(RAX, RAX), Push(RAX)>> \o Dispatch(2),
         BC_LoadLocalWide |-> <<Opd(RAX, 1), LocX(RAX, RAX), Push(RAX)>> \o Dispatch(5),
         BC_LoadBoxed |->
             <<Opd(RAX, 1), LocX(RBX, RAX), Fld(RAX, RBX, 1), Push(RAX)>> \o Dispatch(2),
         BC_LoadStatic |->
                 <<Opd(RAX, 1), LoadStaticsArray(RBX), FldX(RAX, RBX, RAX), Push(RAX)>> \o Dispatch(5),
         BC_LoadStaticInit |->
             LET done == <<Push(RAX)>> \o Dispatch(5)
             IN <<Opd(RAX, 1), LoadStaticsArray(RBX), FldX(RAX, RBX, RAX), JT("eq", RAX, 1, done),
                  Lds(RBX, RAX, "class"), Lds(RBX, RBX, "type"),
                  JK("ne", RBX, <<"type", "INITIALIZER_TYPE">>, done),
                  Fld(RAX, RAX, 1), StoreByteCodePointer>>
                \o Call("InterpreterMethodEntry", "ret_LoadStaticInit"),
         ret_LoadStaticInit |-> <<RestoreByteCodePointer, Push(RAX)>> \o Dispatch(5),
         BC_LoadField |-> LoadFieldCode \o Dispatch(2),
         BC_LoadFieldWide |-> LoadFieldCode \o Dispatch(5),
         BC_LoadConst |-> <<Opd(RAX, 1), Push(RAX)>> \o Dispatch(5)]

Stores ==
    LET StoreFieldCode(size) ==
            <<Opd(RBX, 1), LoadLocal(RCX, 0), LoadLocal(RAX, 1), SetFldX(RAX, RBX, RCX),
              StoreLocal(RCX, 1), Drop(1)>>
            \o AddToRememberedSet(RAX, RCX, RBX, Dispatch(size))
    IN  [BC_StoreLocal |-> <<LoadLocal(RBX, 0), Opd(RAX, 1), SetLocX(RBX, RAX)>> \o Dispatch(2),
         BC_StoreBoxed |->
             <<LoadLocal(RCX, 0), Opd(RAX, 1), LocX(RBX, RAX), SetFld(RBX, 1, RCX)>>
             \o AddToRememberedSet(RBX, RCX, RAX, Dispatch(2)),
         BC_StoreStatic |->
             <<LoadLocal(RCX, 0), Opd(RAX, 1), LoadStaticsArray(RBX), SetFldX(RBX, RAX, RCX)>>
             \o AddToRememberedSet(RBX, RCX, RAX, Dispatch(5)),
         BC_StoreField |-> StoreFieldCode(2),
         BC_StoreFieldWide |-> StoreFieldCode(5)]

Literals ==
    [BC_LoadLiteralNull |-> LoadLiteralNull(RAX) \o <<Push(RAX)>> \o Dispatch(1),
     BC_LoadLiteralTrue |-> LoadLiteralTrue(RAX) \o <<Push(RAX)>> \o Dispatch(1),
     BC_LoadLiteralFalse |-> LoadLiteralFalse(RAX) \o <<Push(RAX)>> \o Dispatch(1),
     BC_LoadLiteral0 |-> <<PushK(SmiFromWord(0))>> \o Dispatch(1),
     BC_LoadLiteral1 |-> <<PushK(SmiFromWord(1))>> \o Dispatch(1),
     BC_LoadLiteral |-> <<Opd(RAX, 1), ShiftK("shl", RAX, RAX, 1), Push(RAX)>> \o Dispatch(2),
     BC_LoadLiteralWide |-> <<Opd(RAX, 1), ShiftK("shl", RAX, RAX, 1), Push(RAX)>> \o Dispatch(5)]

-----------------------------------------------------------------------------
\* The end of a call: drop the arguments that the arity in RDX counts.
FinishCall(size) == <<DropR(RDX), StoreLocal(RAX, 0)>> \o Dispatch(size)
ArityFromBytecode == <<Opd(RDX, 1), AluK("and", RDX, RDX, kArityMask)>>
InvokeMethodUnfold(test) ==
    LET Finish ==
            IF test
            THEN <<Lds(RAX, RAX, "code"), LoadProgram(RBX),
                   JK("ne", RAX, Zero, <<Lds(RAX, RBX, "true"), StoreLocal(RAX, 0)>> \o Dispatch(5)),
                   Lds(RAX, RBX, "false"), StoreLocal(RAX, 0)>> \o Dispatch(5)
            ELSE LET go == <<StoreByteCodePointer>> \o CallR(RBX, "ret_InvokeMethodUnfold")
                 IN <<Lds(RBX, RAX, "code"), Lds(RAX, RAX, "target"), Imm(RCX, Lbl("InterpreterMethodEntry")),
                      JK("ne", RBX, Zero, go), Mov(RBX, RCX)>> \o go
        Miss ==
            <<LoadProcess(RDI)>> \o SwitchToCStack
            \o <<Mov(RSI, RAX), Mov(RCX, RDX), Mov(RDX, RBX),
                 CCall("HandleLookupEntry", <<RDI, RSI, RDX, RCX>>, RAX)>>
            \o SwitchToDartStack \o Finish
        Probe ==
            <<Alu("xor", RAX, RBX, RDX), AluK("and", RAX, RAX, kPrimaryMask), Lds(RCX, R8, "primary"),
              CacheEntry(RAX, RCX, RAX), Lds(RCX, RAX, "class"), J("ne", RBX, RCX, Miss),
              Lds(RCX, RAX, "selector"), J("ne", RDX, RCX, Miss)>> \o Finish
    IN  <<Opd(RDX, 1)>>
        \o (IF test THEN <<LoadLocal(RBX, 0)>>
            ELSE <<AluK("and", RBX, RDX, kArityMask), LocX(RBX, RBX)>>)
        \o <<JT("eq", RBX, 1, <<LoadProgram(RBX), Lds(RBX, RBX, "smi_class")>> \o Probe),
             Lds(RBX, RBX, "class")>> \o Probe
NoSuchMethodEntry == <<LoadProgram(RCX), Lds(RCX, RCX, "table"), Lds(RCX, RCX, "entry0")>>
InvokeMethod(test) ==
    LET Answer(load) == load \o <<StoreLocal(RAX, 0)>> \o Dispatch(5)
        Validated ==
            <<Lds(RAX, RCX, "target"), StoreByteCodePointer, Lds(RCX, RCX, "code")>>
            \o CallR(RCX, "ret_InvokeMethod")
        DispatchEntry ==
            <<Lds(RBX, RBX, "id"), Alu("add", RBX, RBX, RDX), Entry(RCX, RCX, RBX), Lds(RBX, RCX, "offset"),
              J("ne", RDX, RBX, IF test THEN Answer(LoadLiteralFalse(RAX))
                                ELSE NoSuchMethodEntry \o Validated)>>
            \o (IF test THEN Answer(LoadLiteralTrue(RAX)) ELSE Validated)
    IN  <<Opd(RDX, 1), LoadProgram(RCX), Lds(RCX, RCX, "table")>>
        \o (IF test THEN <<>> ELSE <<AluK("and", RBX, RDX, kArityMask)>>)
        \o <<AluK("and", RDX, RDX, kIdMask), ShiftK("shr", RDX, RDX, kIdShift - 1)>>
        \o (IF test THEN <<LoadLocal(RBX, 0)>> ELSE <<LocX(RBX, RBX)>>)
        \o <<JT("eq", RBX, 1, <<LoadProgram(RBX), Lds(RBX, RBX, "smi_class")>> \o DispatchEntry),
             Lds(RBX, RBX, "class")>> \o DispatchEntry
InvokeStatic ==
    <<Opd(RAX, 1), StoreByteCodePointer>> \o Call("InterpreterMethodEntry", "ret_InvokeStatic")
InvokeStaticReturn ==
    <<RestoreByteCodePointer, Opd(RDX, 1), Lds(RDX, RDX, "arity"), ShiftK("shr", RDX, RDX, 1),
      DropR(RDX), Push(RAX)>> \o Dispatch(5)

-----------------------------------------------------------------------------
NativeReturn == <<SetSP(RBP), Pop(RBP)>> \o Ret
ContinueWithResult(yield) ==
    LET NativeFailure ==
            IsRetry(RAX, RCX) \o <<LoadProcess(RDI)>> \o SwitchToCStack
            \o <<Mov(RSI, RAX), CCall("HandleObjectFromFailure", <<RDI, RSI>>, RAX)>> \o SwitchToDartStack
            \o <<Push(RAX)>> \o Dispatch(3)
    IN  <<Mov(RCX, RAX), AluK("and", RCX, RCX, FailureTagMask), JK("eq", RCX, Word(3), NativeFailure)>>
        \o (IF ~yield THEN NativeReturn
            ELSE LoadLiteralNull(RCX)
                 \o <<J("eq", RAX, RCX, <<Jmp("dont_yield")>>), StYield(RAX),
                      Imm(RAX, Word(kTargetYield))>>
                 \o SaveState("dont_yield") \o <<Exit(RAX)>>)
DontYield == LoadLiteralNull(RAX) \o NativeReturn
InvokeNative(yield, safepoint) ==
    <<Opd(RBX, 1), Opd(RCX, 2), Mov(RAX, RCX), LeaX(RSI, RSP, RBX, 2), LoadProcess(RDI)>>
    \o (IF safepoint THEN SaveState("continue_with_result") ELSE SwitchToCStack)
    \o <<CallNative(RAX, <<RDI, RSI>>, RAX)>>
    \o (IF safepoint THEN RestoreState ELSE SwitchToDartStack \o ContinueWithResult(yield))

Invokes ==
    [BC_InvokeMethodUnfold |-> InvokeMethodUnfold(FALSE),
     ret_InvokeMethodUnfold |-> <<RestoreByteCodePointer>> \o ArityFromBytecode \o FinishCall(5),
     BC_InvokeMethod |-> InvokeMethod(FALSE),
     ret_InvokeMethod |-> <<RestoreByteCodePointer>> \o ArityFromBytecode \o FinishCall(5),
     BC_InvokeNoSuchMethod |->
         NoSuchMethodEntry \o <<Lds(RAX, RCX, "target"), StoreByteCodePointer>>
         \o Call("InterpreterMethodEntry", "ret_InvokeNoSuchMethod"),
     ret_InvokeNoSuchMethod |-> <<RestoreByteCodePointer>> \o ArityFromBytecode \o FinishCall(5),
     BC_InvokeTestNoSuchMethod |-> LoadLiteralFalse(RAX) \o <<StoreLocal(RAX, 0)>> \o Dispatch(5),
     BC_InvokeTestUnfold |-> InvokeMethodUnfold(TRUE),
     BC_InvokeTest |-> InvokeMethod(TRUE),
     BC_InvokeStatic |-> InvokeStatic,
     BC_InvokeFactory |-> InvokeStatic,
     ret_InvokeStatic |-> InvokeStaticReturn,
     BC_InvokeLeafNative |-> InvokeNative(FALSE, FALSE),
     BC_InvokeNative |-> InvokeNative(FALSE, TRUE),
     BC_InvokeNativeYield |-> InvokeNative(TRUE, FALSE),
     continue_with_result |-> ContinueWithResult(FALSE),
     dont_yield |-> DontYield,
     BC_InvokeSelector |->
         SaveState("resume_InvokeSelector")
         \o <<LoadProcess(RDI), CCall("HandleInvokeSelector", <<RDI>>, RAX)>> \o RestoreState,
     resume_InvokeSelector |->
             <<StoreByteCodePointer>> \o Call("InterpreterMethodEntry", "ret_InvokeSelector"),
     ret_InvokeSelector |->
         <<RestoreByteCodePointer, Opd(RDX, 1), Neg(RDX, RDX), LeaX(RDX, RBP, RDX, -2), LdSlot(RDX, RDX, 0),
           ShiftK("shr", RDX, RDX, 1), AluK("and", RDX, RDX, kArityMask)>> \o FinishCall(5)]

-----------------------------------------------------------------------------
\* Smi arithmetic: anything else, and overflow, is left to the method call.
SmiOperands(left, right, fallback) ==
    <<LoadLocal(left, 1), SmiTest(left, fallback), LoadLocal(right, 0), SmiTest(right, fallback)>>
BinaryResult(reg) == <<StoreLocal(reg, 1), Drop(1)>> \o Dispatch(5)
InvokeCompare(fallback, condition) ==
    <<LoadLocal(RAX, 0), SmiTest(RAX, fallback), LoadLocal(RBX, 1), SmiTest(RBX, fallback),
      J(condition, RBX, RAX, LoadLiteralTrue(RAX) \o BinaryResult(RAX))>>
    \o LoadLiteralFalse(RAX) \o BinaryResult(RAX)
InvokeDivision(fallback, quotient) == <<Jmp(fallback)>>

Arithmetic(fallback) ==
    [Eq |-> InvokeCompare(fallback, "eq"),
     Lt |-> InvokeCompare(fallback, "lt"),
     Le |-> InvokeCompare(fallback, "le"),
     Gt |-> InvokeCompare(fallback, "gt"),
     Ge |-> InvokeCompare(fallback, "ge"),
     Add |->
         SmiOperands(RAX, RBX, fallback) \o <<JOv("add", RAX, RAX, RBX, <<Jmp(fallback)>>)>>
         \o BinaryResult(RAX),
     Sub |->
         SmiOperands(RAX, RBX, fallback) \o <<JOv("sub", RAX, RAX, RBX, <<Jmp(fallback)>>)>>
         \o BinaryResult(RAX),
     Mod |-> <<Jmp(fallback)>>,
     Mul |->
         SmiOperands(RAX, RBX, fallback)
         \o <<ShiftK("sar", RAX, RAX, 1), ShiftK("sar", RBX, RBX, 1),
              JOv("mul", RAX, RAX, RBX, <<Jmp(fallback)>>),
              JOv("add", RAX, RAX, RAX, <<Jmp(fallback)>>)>>
         \o BinaryResult(RAX),
     TruncDiv |-> InvokeDivision(fallback, TRUE)]

Bits(fallback) ==
    LET InvokeBitOp(f) ==
            SmiOperands(RAX, RBX, fallback) \o <<Alu(f, RAX, RAX, RBX)>> \o BinaryResult(RAX)
    IN  [BitNot |->
             <<LoadLocal(RAX, 0), SmiTest(RAX, fallback), AluK("xor", RAX, RAX, 2^W - 1),
               AluK("and", RAX, RAX, 2^W - 2), StoreLocal(RAX, 0)>> \o Dispatch(5),
         BitAnd |-> InvokeBitOp("and"),
         BitOr |-> InvokeBitOp("or"),
         BitXor |-> InvokeBitOp("xor"),
         BitShr |->
             LET shift == <<Shift("sar", RAX, RAX, RCX), Alu("add", RAX, RAX, RAX)>> \o BinaryResult(RAX)
             IN SmiOperands(RAX, RCX, fallback)
                \o <<ShiftK("sar", RAX, RAX, 1), ShiftK("sar", RCX, RCX, 1),
                     JK("lt", RCX, Word(W), shift), Imm(RCX, Word(W - 1))>> \o shift,
         BitShl |->
             SmiOperands(RAX, RCX, fallback)
             \o <<ShiftK("sar", RCX, RCX, 1), JK("ae", RCX, Word(W), <<Jmp(fallback)>>),
                  Mov(RBX, RAX), Shift("shl", RAX, RAX, RCX), Mov(RDX, RAX), Shift("sar", RDX, RDX, RCX),
                  J("ne", RBX, RDX, <<Jmp(fallback)>>)>>
             \o BinaryResult(RAX)]

-----------------------------------------------------------------------------
Return(is_return_null) ==
    (IF is_return_null THEN LoadLiteralNull(RAX) ELSE <<LoadLocal(RAX, 0)>>)
    \o <<SetSP(RBP), Pop(RBP)>> \o Ret

Branches ==
    LET BranchForward(off) == <<Opd(RAX, off), Alu("add", R13, R13, RAX)>> \o Dispatch(0)
        BranchBackward(off) == <<Opd(RAX, off), Alu("sub", R13, R13, RAX)>> \o Dispatch(0)
        BranchOn(cc, target, size) ==
            <<Pop(RBX)>> \o LoadLiteralTrue(RAX) \o <<J(cc, RBX, RAX, target)>> \o Dispatch(size)
    IN  [BC_Pop |-> <<Drop(1)>> \o Dispatch(1),
         BC_Drop |-> <<Opd(RAX, 1), DropR(RAX)>> \o Dispatch(2),
         BC_Return |-> Return(FALSE),
         BC_ReturnNull |-> Return(TRUE),
         BC_BranchWide |-> BranchForward(1),
         BC_BranchIfTrueWide |-> BranchOn("eq", BranchForward(1), 5),
         BC_BranchIfFalseWide |-> BranchOn("ne", BranchForward(1), 5),
         BC_BranchBack |-> CheckStackOverflow(0) \o BranchBackward(1),
         BC_BranchBackIfTrue |-> CheckStackOverflow(0) \o BranchOn("eq", BranchBackward(1), 2),
         BC_BranchBackIfFalse |-> CheckStackOverflow(0) \o BranchOn("ne", BranchBackward(1), 2),
         BC_BranchBackWide |-> CheckStackOverflow(0) \o BranchBackward(1),
         BC_BranchBackIfTrueWide |-> CheckStackOverflow(0) \o BranchOn("eq", BranchBackward(1), 5),
         BC_BranchBackIfFalseWide |->
             CheckStackOverflow(0) \o BranchOn("ne", BranchBackward(1), 5),
         BC_PopAndBranchWide |-> <<Opd(RAX, 1), DropR(RAX)>> \o BranchForward(2),
         BC_PopAndBranchBackWide |->
                 CheckStackOverflow(0) \o <<Opd(RAX, 1), DropR(RAX)>> \o BranchBackward(2)]
Allocate(immutable) ==
    <<Opd(RBX, 1), Imm(RDX, Zero)>>
    \o (IF immutable THEN <<AllImmutable(RDX, RBX)>> ELSE <<>>)
    \o <<LoadProcess(RDI)>> \o SwitchToCStack
    \o <<Mov(RSI, RBX), CCall("HandleAllocate", <<RDI, RSI, RDX>>, RAX)>> \o SwitchToDartStack
    \o IsRetry(RAX, RCX) \o <<PopFields(RAX, RBX), Push(RAX)>> \o Dispatch(5)

Objects ==
    [BC_Allocate |-> Allocate(FALSE),
     BC_AllocateImmutable |-> Allocate(TRUE),
     BC_AllocateBoxed |->
         <<LoadLocal(RSI, 0), LoadProcess(RDI)>> \o SwitchToCStack
         \o <<CCall("HandleAllocateBoxed", <<RDI, RSI>>, RAX)>> \o SwitchToDartStack
         \o IsRetry(RAX, RCX) \o <<StoreLocal(RAX, 0)>> \o Dispatch(1),
     BC_Negate |->
         LET store == <<StoreLocal(RAX, 0)>> \o Dispatch(1)
         IN <<LoadLocal(RBX, 0), LoadProgram(RCX), Lds(RAX, RCX, "true"), J("ne", RBX, RAX, store),
              Lds(RAX, RCX, "false")>> \o store,
     BC_StackOverflowCheck |->
         <<Opd(RAX, 1), Lds(RBX, R8, "limit"), Neg(RAX, RAX), LeaX(RCX, RSP, RAX, 0),
           J("be", RCX, RBX, <<Jmp("check_stack_overflow")>>)>> \o Dispatch(5)]

Control ==
    LET ThrowResume ==
            <<JK("ne", RAX, Zero,
                 <<Mov(RBP, "frame"), Mov(RCX, "delta"), Mov(R13, RAX), DropR(RCX), StoreLocal(RBX, 0)>>
                 \o Dispatch(0)),
              Imm(RAX, Word(kUncaughtException)), Jmp("done")>>
    IN  [BC_Throw |-> <<LoadLocal(RBX, 0)>> \o SaveState("resume_Throw") \o DoThrowAfterSaveState,
         throw_resume |-> ThrowResume,
         resume_Throw |-> ThrowResume,
         BC_SubroutineCall |->
             <<Opd(RAX, 1), Opd(RBX, 5), ShiftK("shl", RBX, RBX, 1), Push(RBX),
               Alu("add", R13, R13, RAX)>> \o Dispatch(0),
         BC_SubroutineReturn |->
                 <<Pop(RAX), ShiftK("shr", RAX, RAX, 1), Alu("sub", R13, R13, RAX)>> \o Dispatch(0),
         BC_ProcessYield |->
             LoadLiteralNull(RBX)
             \o <<LoadLocal(RAX, 0), ShiftK("sar", RAX, RAX, 1), AluK("add", R13, R13, 1),
                  StoreLocal(RBX, 0), Jmp("done")>>,
         BC_CoroutineChange |->
             LoadLiteralNull(RAX)
             \o <<LoadLocal(RBX, 0), LoadLocal(RSI, 1), StoreLocal(RAX, 0), StoreLocal(RAX, 1)>>
             \o SaveState("resume_CoroutineChange")
             \o <<LoadProcess(RDI), CCall("HandleCoroutineChange", <<RDI, RSI>>, RAX)>> \o RestoreState,
         resume_CoroutineChange |-> <<StoreLocal(RBX, 1), Drop(1)>> \o Dispatch(1)]

-----------------------------------------------------------------------------
Identity ==
    LET SameObject(left, right) ==
            <<J("eq", left, right, <<Lds(RAX, RCX, "true"), StoreLocal(RAX, 1), Drop(1)>> \o Dispatch(1)),
              Lds(RAX, RCX, "false"), StoreLocal(RAX, 1), Drop(1)>> \o Dispatch(1)
    IN  [BC_Identical |->
             LET fast_case == <<LoadProgram(RCX)>> \o SameObject(RBX, RAX)
                 bail_out == <<LoadProcess(RDI)>> \o SwitchToCStack
                             \o <<Mov(RSI, RBX), Mov(RDX, RAX),
                                  CCall("HandleIdentical", <<RDI, RSI, RDX>>, RAX)>>
                             \o SwitchToDartStack \o <<StoreLocal(RAX, 1), Drop(1)>> \o Dispatch(1)
             IN <<LoadLocal(RAX, 0), LoadLocal(RBX, 1), JT("eq", RAX, 1, fast_case),
                  JT("eq", RBX, 1, fast_case), Lds(RCX, RAX, "class"), Lds(RCX, RCX, "type"),
                  Lds(RDX, RBX, "class"), Lds(RDX, RDX, "type"), J("ne", RCX, RDX, fast_case),
                  JK("eq", RCX, <<"type", "DOUBLE_TYPE">>, bail_out),
                  JK("eq", RCX, <<"type", "LARGE_INTEGER_TYPE">>, bail_out)>> \o fast_case,
         BC_IdenticalNonNumeric |->
                 <<LoadLocal(RAX, 0), LoadLocal(RBX, 1), LoadProgram(RCX)>> \o SameObject(RAX, RBX),
         BC_EnterNoSuchMethod |->
             SaveState("interpreter_entry")
             \o <<LoadProcess(RDI), CCall("HandleEnterNoSuchMethod", <<RDI>>, RAX)>> \o RestoreState,
         BC_ExitNoSuchMethod |->
             <<Pop(RAX), Pop(RBX), ShiftK("shr", RBX, RBX, 1), SetSP(RBP), Pop(RBP), Mov(RCX, RBX),
               AluK("and", RCX, RCX, kKindMask), JK("ne", RCX, Word(SETTER * 4), Ret), LoadLocal(RAX, 1)>>
             \o Ret,
         BC_MethodEnd |-> <<Int3>>]

-----------------------------------------------------------------------------
Intrinsics ==
    LET
        \* Intrinsics: the return address is still on top of the arguments.
        Failure == <<Jmp("InterpreterMethodEntry")>>
        CheckIndex ==
            <<JT("ne", RBX, 1, Failure), JK("lt", RBX, Zero, Failure), Fld(RCX, RCX, 1),
              Lds(RDX, RCX, "length"), J("ge", RBX, RDX, Failure)>>
    IN  [Intrinsic_ObjectEquals |-> <<Int3>>,
         Intrinsic_GetField |->
                 <<FnByte(RBX, RAX, 2), LoadLocal(RAX, 1), FldX(RAX, RAX, RBX)>> \o Ret,
         Intrinsic_SetField |->
             <<FnByte(RAX, RAX, 3), LoadLocal(RBX, 1), LoadLocal(RCX, 2), SetFldX(RCX, RAX, RBX)>>
             \o AddToRememberedSet(RCX, RBX, RAX, <<Mov(RAX, RBX)>> \o Ret),
         Intrinsic_ListIndexGet |->
                 <<LoadLocal(RBX, 1), LoadLocal(RCX, 2)>> \o CheckIndex \o <<FldT(RAX, RCX, RBX)>> \o Ret,
         Intrinsic_ListIndexSet |->
             <<LoadLocal(RBX, 2), LoadLocal(RCX, 3)>> \o CheckIndex
             \o <<Mov(RAX, RBX), LoadLocal(RBX, 1), SetFldT(RCX, RAX, RBX)>>
             \o AddToRememberedSet(RCX, RBX, RAX, <<Mov(RAX, RBX)>> \o Ret),
         Intrinsic_ListLength |->
             <<LoadLocal(RCX, 1), Fld(RCX, RCX, 1), Lds(RAX, RCX, "length")>> \o Ret]

-----------------------------------------------------------------------------
\* The code at every label, as InterpreterGenerator::Generate lays it out.
Generate ==
    Epilogue @@ ("DebugAtBytecode" :> GenerateDebugAtBytecode) @@ Loads @@ Stores @@ Literals
    @@ Invokes @@ SmiCode(LAMBDA fallback : Arithmetic(fallback) @@ Bits(fallback)) @@ Branches
    @@ Objects @@ Control @@ Identity @@ Intrinsics
X64 == [lab |-> Generate, keep |-> {BCP, FP, R8}, clobbered |-> Clobbered, esp |-> "c",
        regs |-> Registers,
        debug |-> [name \in DOMAIN Generate |-> GenerateBytecodePrologue(name)]]
=============================================================================
