----------------------------- MODULE InterpreterARM -----------------------------
(* The code that InterpreterGeneratorARM prints (interpreter_arm.cc): the
   labels by family of bytecodes.  The machine stack pointer stays on the C
   stack, which also holds the frame pointer; R6 is the Dart stack pointer, R8 is
   null and R10 the program from one bytecode to the next.  *)
EXTENDS InterpreterAssembler

R0 == "R0"
R1 == "R1"
R2 == "R2"
R3 == "R3"
R4 == PROC
R5 == BCP
R6 == SP
R7 == "R7"
R8 == "R8"
R9 == "R9"
R10 == "R10"
R12 == "R12"                    \* also called IP
LR == "LR"
Shifted == "shifted"            \* a shifted operand of an instruction
Registers == {R0, R1, R2, R3, R7, R8, R9, R10, R12, LR, Shifted, "delta", "frame", BCP, FP, PROC}
Clobbered == {R0, R1, R2, R3, R12, LR, Shifted}
kTrueOffset == 16
kFalseOffset == 8


-----------------------------------------------------------------------------
DropNAndSetTop(n, reg) == <<Drop(n), StoreLocal(reg, 0)>>
LoadFramePointer(reg) == Mov(reg, FP)
StoreFramePointer(reg) == Mov(FP, reg)
SaveByteCodePointer(scratch) == <<LoadFramePointer(scratch), StSlot(scratch, -1, R5)>>
RestoreByteCodePointer(scratch) == <<LoadFramePointer(scratch), LdSlot(R5, scratch, -1)>>
LoadTrue(reg) == AluK("add", reg, R8, kTrueOffset)
LoadFalse(reg) == AluK("add", reg, R8, kFalseOffset)
\* After a comparison of a and b; rest is what follows.
AddIf(cond, a, b, reg, n, rest) == <<J(cond, a, b, <<AluK("add", reg, reg, n)>> \o rest)>> \o rest
ToBoolean(cond, a, b, reg, rest) ==
    <<LoadFalse(reg)>> \o AddIf(cond, a, b, reg, kTrueOffset - kFalseOffset, rest)
Dispatch(size) == <<Disp(size)>>
BranchLink(label, ra) == <<Imm(LR, Lbl(ra)), Jmp(label)>>
BranchLinkR(reg, ra) == <<Imm(LR, Lbl(ra)), JmpR(reg)>>
\* Leaves the frame: its frame pointer and return address are popped.
LeaveFrame == <<SetSP(FP), Pop(R2), StoreFramePointer(R2), Pop(LR), JmpR(LR)>>
SaveState(resume) ==
    <<LoadFramePointer(R3), StSlot(R3, -1, R5), Imm(R5, Lbl(resume)), Push(R5), Push(R3), SaveTop>>
RestoreState ==
    <<LoadTop, Lds(R10, R4, "program"), Lds(R8, R10, "null"), Pop(R5), StoreFramePointer(R5),
      LdSlot(R5, R5, -1), Pop(LR), JmpR(LR)>>
CheckStackOverflow(size) ==
    <<Lds(R1, R4, "limit"), J("be", R6, R1, <<Jmp("check_stack_overflow_0")>>)>>
AddToRememberedSet(object, value, scratch, rest) ==
    <<JT("eq", value, 1, rest), Card(scratch, object), Dirty(scratch)>> \o rest
IsRetry(reg, scratch) ==
    <<AluK("and", scratch, reg, FailureTypeMask), JK("eq", scratch, RetryAfterGC, <<Jmp("gc")>>)>>

-----------------------------------------------------------------------------
\* Expects to be called after SaveState with the exception object in R7.
DoThrowAfterSaveState ==
    <<Mov(R0, R4), Mov(R1, R7), CCall("HandleThrow", <<R0, R1>>, R0), Mov(R2, "frame"),
      Mov(R3, "delta")>> \o RestoreState

\* The labels around the bytecodes, with the slow paths of a collection and of a stack
\* that is too small.
Epilogue ==
    LET CheckStackOverflowSlow ==
            SaveState("overflow_resume")
            \o <<Mov(R1, R0), Mov(R0, R4), CCall("HandleStackOverflow", <<R0, R1>>, R0)>> \o RestoreState
         \* The process is still in the first argument register when the code resumes.
    IN  [prologue |-> <<Mov(R0, R4)>> \o RestoreState,
         done |-> SaveState("interpreter_entry") \o <<Exit(R0)>>,
         interpreter_entry |-> Dispatch(0),
         gc |->
             SaveState("interpreter_entry") \o <<Mov(R0, R4), CCall("HandleGC", <<R0>>, R0)>>
               \o RestoreState,
         check_stack_overflow_0 |-> <<Imm(R0, Zero)>> \o CheckStackOverflowSlow,
         check_stack_overflow |-> CheckStackOverflowSlow,
         overflow_resume |->
             <<JK("eq", R0, Zero, Dispatch(0)),
               JK("eq", R0, Word(kStackCheckInterrupt), <<Imm(R0, Word(kInterrupt)), Jmp("done")>>),
               JK("eq", R0, Word(kStackCheckDebugInterrupt), <<Imm(R0, Word(kBreakpoint)), Jmp("done")>>)>>
             \o SaveState("throw_resume") \o <<Lds(R7, R10, "overflow_error")>> \o DoThrowAfterSaveState,
         InterpreterMethodEntry |->
             <<Push(LR), LoadFramePointer(R2), Push(R2), StoreFramePointer(R6), Imm(R2, Zero), Push(R2),
               FnStart(R5, R0)>> \o CheckStackOverflow(0) \o Dispatch(0)]
GenerateBytecodePrologue(name) == BranchLink("DebugAtBytecode", name)
GenerateDebugAtBytecode ==
    <<Mov(R7, LR), Mov(R0, R4), Mov(R1, R5), Mov(R2, R6),
      CCall("HandleAtBytecode", <<R0, R1, R2>>, R0), JK("ne", R0, Zero, <<Jmp("done")>>), JmpR(R7)>>

-----------------------------------------------------------------------------
Loads ==
    LET DoLoadLocalN(n) == <<LoadLocal(R0, n), Push(R0)>> \o Dispatch(1)
        LoadStatic == <<Opd(R0, 1), Lds(R1, R4, "statics"), FldX(R0, R1, R0)>>
        LoadFieldCode == <<Opd(R1, 1), LoadLocal(R0, 0), FldX(R0, R0, R1), StoreLocal(R0, 0)>>
    IN  [BC_LoadLocal0 |-> DoLoadLocalN(0),
         BC_LoadLocal1 |-> DoLoadLocalN(1),
         BC_LoadLocal2 |-> DoLoadLocalN(2),
         BC_LoadLocal3 |-> DoLoadLocalN(3),
         BC_LoadLocal4 |-> DoLoadLocalN(4),
         BC_LoadLocal5 |-> DoLoadLocalN(5),
         BC_LoadLocal |-> <<Opd(R0, 1), LocX(R0, R0), Push(R0)>> \o Dispatch(2),
         BC_LoadLocalWide |-> <<Opd(R0, 1), LocX(R0, R0), Push(R0)>> \o Dispatch(5),
         BC_LoadBoxed |-> <<Opd(R0, 1), LocX(R1, R0), Fld(R0, R1, 1), Push(R0)>> \o Dispatch(2),
         BC_LoadStatic |-> LoadStatic \o <<Push(R0)>> \o Dispatch(5),
         BC_LoadStaticInit |->
             LET done == <<Push(R0)>> \o Dispatch(5)
             IN LoadStatic
                \o <<JT("eq", R0, 1, done), Lds(R1, R0, "class"), Lds(R1, R1, "type"),
                     JK("ne", R1, <<"type", "INITIALIZER_TYPE">>, done), Fld(R0, R0, 1)>>
                \o SaveByteCodePointer(R2) \o BranchLink("InterpreterMethodEntry", "ret_LoadStaticInit"),
         ret_LoadStaticInit |-> RestoreByteCodePointer(R2) \o <<Push(R0)>> \o Dispatch(5),
         BC_LoadField |-> LoadFieldCode \o Dispatch(2),
         BC_LoadFieldWide |-> LoadFieldCode \o Dispatch(5),
         BC_LoadConst |-> <<Opd(R2, 1), Push(R2)>> \o Dispatch(5)]

Stores ==
    LET StoreFieldCode(size) ==
            <<Opd(R1, 1), LoadLocal(R2, 0), LoadLocal(R0, 1), SetFldX(R0, R1, R2)>>
            \o DropNAndSetTop(1, R2) \o AddToRememberedSet(R0, R2, R3, Dispatch(size))
    IN  [BC_StoreLocal |-> <<LoadLocal(R1, 0), Opd(R0, 1), SetLocX(R1, R0)>> \o Dispatch(2),
         BC_StoreBoxed |->
             <<LoadLocal(R2, 0), Opd(R0, 1), LocX(R1, R0), SetFld(R1, 1, R2)>>
             \o AddToRememberedSet(R1, R2, R3, Dispatch(2)),
         BC_StoreStatic |->
             <<LoadLocal(R2, 0), Opd(R0, 1), Lds(R1, R4, "statics"), SetFldX(R1, R0, R2)>>
             \o AddToRememberedSet(R1, R2, R0, Dispatch(5)),
         BC_StoreField |-> StoreFieldCode(2),
         BC_StoreFieldWide |-> StoreFieldCode(5)]

Literals ==
    [BC_LoadLiteralNull |-> <<Push(R8)>> \o Dispatch(1),
     BC_LoadLiteralTrue |-> <<LoadTrue(R2), Push(R2)>> \o Dispatch(1),
     BC_LoadLiteralFalse |-> <<LoadFalse(R2), Push(R2)>> \o Dispatch(1),
     BC_LoadLiteral0 |-> <<Imm(R0, SmiFromWord(0)), Push(R0)>> \o Dispatch(1),
     BC_LoadLiteral1 |-> <<Imm(R0, SmiFromWord(1)), Push(R0)>> \o Dispatch(1),
     BC_LoadLiteral |-> <<Opd(R0, 1), ShiftK("lsl", R0, R0, 1), Push(R0)>> \o Dispatch(2),
     BC_LoadLiteralWide |-> <<Opd(R0, 1), ShiftK("lsl", R0, R0, 1), Push(R0)>> \o Dispatch(5)]

-----------------------------------------------------------------------------
\* The end of a call: drop the arguments that the arity of the selector counts.
FinishCall(size) == <<DropR(R2), StoreLocal(R0, 0)>> \o Dispatch(size)
SelectorCallReturn ==
    RestoreByteCodePointer(R2) \o <<Opd(R7, 1), AluK("and", R2, R7, kArityMask)>> \o FinishCall(5)
InvokeMethodUnfold(test) ==
    LET
        \* The cache entry is in R0.  The code of the entry is loaded but not called.
        Finish ==
            IF test
            THEN <<Lds(R0, R0, "code"), Imm(R3, Zero)>>
                 \o ToBoolean("eq", R0, R3, R2, <<StoreLocal(R2, 0)>> \o Dispatch(5))
            ELSE LET hit == SaveByteCodePointer(R2)
                            \o BranchLink("InterpreterMethodEntry", "ret_InvokeMethodUnfold")
                 IN <<Lds(R1, R0, "code"), Lds(R0, R0, "target"), JK("ne", R0, Zero, hit),
                      Imm(R0, Lbl("InterpreterMethodEntry"))>> \o hit
        Miss ==
            <<Mov(R1, R0), Mov(R0, R4), Mov(R3, R7),
              CCall("HandleLookupEntry", <<R0, R1, R2, R3>>, R0)>> \o Finish
        Probe ==
            <<Alu("xor", R3, R2, R7), Imm(R0, Word(kPrimaryMask)), Alu("and", R0, R3, R0),
              Lds(R3, R4, "primary"), CacheEntry(R0, R3, R0), Lds(R3, R0, "class"),
              J("ne", R2, R3, Miss), Lds(R3, R0, "selector"), J("ne", R7, R3, Miss)>>
            \o Finish
    IN  <<Opd(R7, 1)>>
        \o (IF test THEN <<LoadLocal(R1, 0)>> ELSE <<AluK("and", R2, R7, kArityMask), LocX(R1, R2)>>)
        \o <<JT("eq", R1, 1, <<Lds(R2, R10, "smi_class")>> \o Probe), Lds(R2, R1, "class")>>
        \o Probe
NoSuchMethodEntry == <<Lds(R1, R10, "table"), Lds(R1, R1, "entry0")>>
InvokeMethod(test) ==
    LET Answer(load) == <<load, StoreLocal(R2, 0)>> \o Dispatch(5)
        Validated ==
            <<Lds(R0, R1, "target")>> \o SaveByteCodePointer(R2) \o <<Lds(R1, R1, "code")>>
            \o BranchLinkR(R1, "ret_InvokeMethod")
        DispatchEntry ==
            <<Lds(R2, R2, "id"), Alu("add", R2, R2, R7), Entry(R1, R1, R2), Lds(R3, R1, "offset"),
              J("ne", R7, R3, IF test THEN Answer(LoadFalse(R2)) ELSE NoSuchMethodEntry \o Validated)>>
            \o (IF test THEN Answer(LoadTrue(R2)) ELSE Validated)
    IN  <<Opd(R7, 1), Lds(R1, R10, "table")>>
        \o (IF test THEN <<>> ELSE <<AluK("and", R2, R7, kArityMask)>>)
        \o <<Imm(R9, Word(kIdMask)), Alu("and", R7, R7, R9), ShiftK("lsr", R7, R7, kIdShift - 1),
             IF test THEN LoadLocal(R2, 0) ELSE LocX(R2, R2),
             JT("eq", R2, 1, <<Lds(R2, R10, "smi_class")>> \o DispatchEntry),
             Lds(R2, R2, "class")>> \o DispatchEntry
InvokeStatic ==
    <<Opd(R0, 1)>> \o SaveByteCodePointer(R2)
    \o BranchLink("InterpreterMethodEntry", "ret_InvokeStatic")
InvokeStaticReturn ==
    RestoreByteCodePointer(R2)
    \o <<Opd(R1, 1), Lds(R1, R1, "arity"), ShiftK("asr", R1, R1, 1), DropR(R1), Push(R0)>>
    \o Dispatch(5)

-----------------------------------------------------------------------------
ContinueWithResult(yield) ==
    LET NativeFailure ==
            IsRetry(R0, R1)
            \o <<Mov(R1, R0), Mov(R0, R4), CCall("HandleObjectFromFailure", <<R0, R1>>, R0), Push(R0)>>
            \o Dispatch(3)
    IN  <<AluK("and", R1, R0, FailureTagMask), JK("eq", R1, Word(3), NativeFailure)>>
        \o (IF ~yield THEN LeaveFrame
            ELSE <<J("eq", R0, R8, <<Jmp("dont_yield")>>), StYield(R0), Imm(R0, Word(kTargetYield))>>
                 \o SaveState("dont_yield") \o <<Exit(R0)>>)
\* R0 is null, or after a yield whatever the prologue left in it.
DontYield == LeaveFrame
InvokeNative(yield, safepoint) ==
    <<Opd(R1, 1), AluK("add", R1, R1, 2), Opd(R0, 2), Mov(R2, R0), LeaX(R7, R6, R1, 0), Mov(R1, R7),
      Mov(R0, R4)>>
    \o (IF safepoint THEN SaveState("continue_with_result") ELSE <<>>)
    \o <<CallNative(R2, <<R0, R1>>, R0)>>
    \o (IF safepoint THEN RestoreState ELSE ContinueWithResult(yield))

Invokes ==
    [BC_InvokeMethodUnfold |-> InvokeMethodUnfold(FALSE),
     ret_InvokeMethodUnfold |-> SelectorCallReturn,
     BC_InvokeMethod |-> InvokeMethod(FALSE),
     ret_InvokeMethod |-> SelectorCallReturn,
     BC_InvokeNoSuchMethod |->
         NoSuchMethodEntry \o <<Lds(R0, R1, "target")>> \o SaveByteCodePointer(R2)
         \o BranchLink("InterpreterMethodEntry", "ret_InvokeNoSuchMethod"),
     ret_InvokeNoSuchMethod |-> SelectorCallReturn,
     BC_InvokeTestNoSuchMethod |-> <<LoadFalse(R2), StoreLocal(R2, 0)>> \o Dispatch(5),
     BC_InvokeTestUnfold |-> InvokeMethodUnfold(TRUE),
     BC_InvokeTest |-> InvokeMethod(TRUE),
     BC_InvokeStatic |-> InvokeStatic,
     BC_InvokeFactory |-> InvokeStatic,
     ret_InvokeStatic |-> InvokeStaticReturn,
     BC_InvokeLeafNative |-> InvokeNative(FALSE, FALSE),
     BC_InvokeNative |-> InvokeNative(FALSE, TRUE),
     BC_InvokeNativeYield |-> InvokeNative(TRUE, FALSE),
     continue_with_result |-> ContinueWithResult(FALSE),
     dont_yield |-> DontYield,
     BC_InvokeSelector |->
         SaveState("resume_InvokeSelector")
         \o <<Mov(R0, R4), CCall("HandleInvokeSelector", <<R0>>, R0)>> \o RestoreState,
     resume_InvokeSelector |->
             SaveByteCodePointer(R2) \o BranchLink("InterpreterMethodEntry", "ret_InvokeSelector"),
     ret_InvokeSelector |->
         RestoreByteCodePointer(R2)
         \o <<Imm(R7, Word(-2)), Opd(R2, 1), Alu("sub", R7, R7, R2), LoadFramePointer(R2),
              LeaX(R2, R2, R7, 0), LdSlot(R2, R2, 0), ShiftK("asr", R2, R2, 1),
              AluK("and", R2, R2, kArityMask)>> \o FinishCall(5)]

-----------------------------------------------------------------------------
\* Smi arithmetic: anything else, and overflow, is left to the method call.
SmiOperands(left, right, fallback) ==
    <<LoadLocal(left, 1), SmiTest(left, fallback), LoadLocal(right, 0), SmiTest(right, fallback)>>
BinaryResult(reg) == DropNAndSetTop(1, reg) \o Dispatch(5)
InvokeCompare(fallback, cond) ==
    <<LoadLocal(R0, 0), SmiTest(R0, fallback), LoadLocal(R1, 1), SmiTest(R1, fallback)>>
    \o ToBoolean(cond, R1, R0, R2, BinaryResult(R2))

Arithmetic(fallback) ==
    [Eq |-> InvokeCompare(fallback, "eq"),
     Lt |-> InvokeCompare(fallback, "lt"),
     Le |-> InvokeCompare(fallback, "le"),
     Gt |-> InvokeCompare(fallback, "gt"),
     Ge |-> InvokeCompare(fallback, "ge"),
     Add |->
             SmiOperands(R0, R1, fallback) \o <<JOv("add", R0, R0, R1, <<Jmp(fallback)>>)>> \o BinaryResult(R0),
     Sub |->
             SmiOperands(R0, R1, fallback) \o <<JOv("sub", R0, R0, R1, <<Jmp(fallback)>>)>> \o BinaryResult(R0),
     Mod |-> <<Jmp(fallback)>>,
     \* The product of one untagged operand, in two words; the upper one must be its sign.
     Mul |->
         SmiOperands(R0, R1, fallback)
         \o <<ShiftK("asr", R0, R0, 1), Smull(R0, R12, R1, R0), ShiftK("asr", Shifted, R0, W - 1),
              J("ne", R12, Shifted, <<Jmp(fallback)>>)>> \o BinaryResult(R0),
     TruncDiv |-> <<Jmp(fallback)>>]

Bits(fallback) ==
    LET InvokeBitOp(f) ==
            SmiOperands(R0, R1, fallback) \o <<Alu(f, R0, R0, R1)>> \o BinaryResult(R0)
    IN  [BitNot |->
             <<LoadLocal(R0, 0), SmiTest(R0, fallback), AluK("xor", R1, R0, 2^W - 1),
               AluK("and", R1, R1, 2^W - 2), StoreLocal(R1, 0)>> \o Dispatch(5),
         BitAnd |-> InvokeBitOp("and"),
         BitOr |-> InvokeBitOp("or"),
         BitXor |-> InvokeBitOp("xor"),
         BitShr |->
             LET shift == <<Shift("asr", R0, R0, R1), Alu("add", R0, R0, R0)>> \o BinaryResult(R0)
             IN SmiOperands(R0, R1, fallback)
                \o <<ShiftK("asr", R0, R0, 1), ShiftK("asr", R1, R1, 1), JK("lt", R1, Word(W), shift),
                     Imm(R1, Word(W - 1))>> \o shift,
         BitShl |->
             SmiOperands(R0, R1, fallback)
             \o <<ShiftK("asr", R1, R1, 1), JK("a", R1, Word(W - 1), <<Jmp(fallback)>>),
                  Shift("lsl", R2, R0, R1), Shift("asr", R3, R2, R1), J("ne", R3, R0, <<Jmp(fallback)>>)>>
             \o BinaryResult(R2)]

-----------------------------------------------------------------------------
Return(is_return_null) ==
    <<IF is_return_null THEN Mov(R0, R8) ELSE LoadLocal(R0, 0)>> \o LeaveFrame

Branches ==
    LET BranchForward(off) == <<Opd(R0, off), Alu("add", R5, R5, R0)>> \o Dispatch(0)
        BranchBackward(off) == <<Opd(R0, off), Alu("sub", R5, R5, R0)>> \o Dispatch(0)
        BranchOn(reg, cc, target, size) ==
            <<Pop(reg), LoadTrue(R2), J(cc, reg, R2, target)>> \o Dispatch(size)
    IN  [BC_Pop |-> <<Drop(1)>> \o Dispatch(1),
         BC_Drop |-> <<Opd(R0, 1), DropR(R0)>> \o Dispatch(2),
         BC_Return |-> Return(FALSE),
         BC_ReturnNull |-> Return(TRUE),
         BC_BranchWide |-> BranchForward(1),
         BC_BranchIfTrueWide |-> BranchOn(R7, "eq", BranchForward(1), 5),
         BC_BranchIfFalseWide |-> BranchOn(R7, "ne", BranchForward(1), 5),
         BC_BranchBack |-> CheckStackOverflow(0) \o BranchBackward(1),
         BC_BranchBackIfTrue |-> CheckStackOverflow(0) \o BranchOn(R1, "eq", BranchBackward(1), 2),
         BC_BranchBackIfFalse |->
             CheckStackOverflow(0) \o BranchOn(R1, "ne", BranchBackward(1), 2),
         BC_BranchBackWide |-> CheckStackOverflow(0) \o BranchBackward(1),
         BC_BranchBackIfTrueWide |->
             CheckStackOverflow(0) \o BranchOn(R1, "eq", BranchBackward(1), 5),
         BC_BranchBackIfFalseWide |->
             CheckStackOverflow(0) \o BranchOn(R1, "ne", BranchBackward(1), 5),
         BC_PopAndBranchWide |-> <<Opd(R0, 1), DropR(R0)>> \o BranchForward(2),
         BC_PopAndBranchBackWide |->
             CheckStackOverflow(0) \o <<Opd(R0, 1), DropR(R0)>> \o BranchBackward(2)]
Allocate(immutable) ==
    <<Opd(R7, 1), IF immutable THEN AllImmutable(R9, R7) ELSE Imm(R9, Zero), Mov(R0, R4), Mov(R1, R7),
      Mov(R2, R9), CCall("HandleAllocate", <<R0, R1, R2>>, R0)>>
    \o IsRetry(R0, R1) \o <<PopFields(R0, R7), Push(R0)>> \o Dispatch(5)

Objects ==
    [BC_Allocate |-> Allocate(FALSE),
     BC_AllocateImmutable |-> Allocate(TRUE),
     BC_AllocateBoxed |->
         <<LoadLocal(R1, 0), Mov(R0, R4), CCall("HandleAllocateBoxed", <<R0, R1>>, R0)>>
         \o IsRetry(R0, R1) \o <<StoreLocal(R0, 0)>> \o Dispatch(1),
     BC_Negate |->
         <<LoadLocal(R1, 0), LoadTrue(R2), Mov(R3, R2)>>
         \o AddIf("eq", R1, R3, R2, kFalseOffset - kTrueOffset, <<StoreLocal(R2, 0)>> \o Dispatch(1)),
     BC_StackOverflowCheck |->
         <<Opd(R0, 1), Lds(R1, R4, "limit"), Neg(R3, R0), LeaX(R3, R6, R3, 0),
           J("be", R3, R1, <<Jmp("check_stack_overflow")>>)>> \o Dispatch(5)]

Control ==
    LET ThrowResume ==
            <<JK("ne", R0, Zero,
                 <<StoreFramePointer(R2), Mov(R5, R0), DropR(R3), StoreLocal(R7, 0)>> \o Dispatch(0)),
              Imm(R0, Word(kUncaughtException)), Jmp("done")>>
    IN  [BC_Throw |-> <<LoadLocal(R7, 0)>> \o SaveState("resume_Throw") \o DoThrowAfterSaveState,
         throw_resume |-> ThrowResume,
         resume_Throw |-> ThrowResume,
         BC_SubroutineCall |->
             <<Opd(R0, 1), Opd(R1, 5), ShiftK("lsl", R1, R1, 1), Push(R1), Alu("add", R5, R5, R0)>>
             \o Dispatch(0),
         BC_SubroutineReturn |->
                 <<Pop(R0), ShiftK("lsr", R0, R0, 1), Alu("sub", R5, R5, R0)>> \o Dispatch(0),
         BC_ProcessYield |->
             <<LoadLocal(R0, 0), ShiftK("asr", R0, R0, 1), AluK("add", R5, R5, 1), StoreLocal(R8, 0),
               Jmp("done")>>,
         BC_CoroutineChange |->
             <<LoadLocal(R7, 0), LoadLocal(R1, 1), StoreLocal(R8, 0), StoreLocal(R8, 1)>>
             \o SaveState("resume_CoroutineChange")
             \o <<Mov(R0, R4), CCall("HandleCoroutineChange", <<R0, R1>>, R0)>> \o RestoreState,
         resume_CoroutineChange |-> DropNAndSetTop(1, R7) \o Dispatch(1)]

-----------------------------------------------------------------------------
\* Mutant: the value of a setter is read one slot too low.
ExitNoSuchMethodOffByOne ==
    <<Pop(R0), Pop(R1), ShiftK("lsr", R1, R1, 1), SetSP(FP), Pop(R2), StoreFramePointer(R2),
      AluK("and", R2, R1, kKindMask), JK("ne", R2, Word(SETTER * 4), <<Pop(LR), JmpR(LR)>>),
      LoadLocal(R0, 2), Pop(LR), JmpR(LR)>>

Identity ==
    LET SameObject(left, right) ==
            ToBoolean("eq", left, right, R2, <<StoreLocal(R2, 1), Drop(1)>> \o Dispatch(1))
    IN  [BC_Identical |->
             LET fast_case == SameObject(R1, R0)
                 bail_out == <<Mov(R2, R0), Mov(R0, R4), CCall("HandleIdentical", <<R0, R1, R2>>, R0)>>
                             \o DropNAndSetTop(1, R0) \o Dispatch(1)
             IN <<LoadLocal(R0, 0), LoadLocal(R1, 1), JT("eq", R0, 1, fast_case),
                  JT("eq", R1, 1, fast_case), Lds(R2, R0, "class"), Lds(R2, R2, "type"),
                  Lds(R3, R1, "class"), Lds(R3, R3, "type"), J("ne", R2, R3, fast_case),
                  JK("eq", R2, <<"type", "DOUBLE_TYPE">>, bail_out),
                  JK("eq", R2, <<"type", "LARGE_INTEGER_TYPE">>, bail_out)>> \o fast_case,
         BC_IdenticalNonNumeric |-> <<LoadLocal(R0, 0), LoadLocal(R1, 1)>> \o SameObject(R0, R1),
         BC_EnterNoSuchMethod |->
             SaveState("interpreter_entry")
             \o <<Mov(R0, R4), CCall("HandleEnterNoSuchMethod", <<R0>>, R0)>> \o RestoreState,
         BC_ExitNoSuchMethod |->
             <<Pop(R0), Pop(R1), ShiftK("lsr", R1, R1, 1), SetSP(FP), Pop(R2), StoreFramePointer(R2),
               AluK("and", R2, R1, kKindMask), JK("ne", R2, Word(SETTER * 4), <<Pop(LR), JmpR(LR)>>),
               LoadLocal(R0, 1), Pop(LR), JmpR(LR)>>,
         BC_MethodEnd |-> <<Int3>>]

-----------------------------------------------------------------------------
Intrinsics ==
    LET
        \* Intrinsics: the return address is in LR.
        Failure == <<Jmp("InterpreterMethodEntry")>>
        CheckIndex ==
            <<JT("ne", R1, 1, Failure), JK("lt", R1, Zero, Failure), Fld(R2, R2, 1), Lds(R3, R2, "length"),
              J("ge", R1, R3, Failure)>>
    IN  [Intrinsic_ObjectEquals |->
             <<LoadLocal(R0, 0), LoadLocal(R1, 1)>>
             \o ToBoolean("eq", R0, R1, R2, <<StoreLocal(R2, -1), Drop(1)>> \o Dispatch(5)),
         Intrinsic_GetField |->
             <<FnByte(R1, R0, 2), LoadLocal(R0, 0), FldX(R0, R0, R1), JmpR(LR)>>,
         Intrinsic_SetField |->
             <<FnByte(R1, R0, 3), LoadLocal(R7, 0), LoadLocal(R2, 1), SetFldX(R2, R1, R7)>>
             \o AddToRememberedSet(R2, R7, R3, <<Mov(R0, R7), JmpR(LR)>>),
         Intrinsic_ListIndexGet |->
                 <<LoadLocal(R1, 0), LoadLocal(R2, 1)>> \o CheckIndex \o <<FldT(R0, R2, R1), JmpR(LR)>>,
         Intrinsic_ListIndexSet |->
             <<LoadLocal(R1, 1), LoadLocal(R2, 2)>> \o CheckIndex
             \o <<LoadLocal(R7, 0), SetFldT(R2, R1, R7)>>
             \o AddToRememberedSet(R2, R7, R3, <<Mov(R0, R7), JmpR(LR)>>),
         Intrinsic_ListLength |->
             <<LoadLocal(R2, 0), Fld(R2, R2, 1), Lds(R0, R2, "length"), JmpR(LR)>>]

-----------------------------------------------------------------------------
\* The code at every label, as InterpreterGenerator::Generate lays it out.
Generate ==
    Epilogue @@ ("DebugAtBytecode" :> GenerateDebugAtBytecode) @@ Loads @@ Stores @@ Literals
    @@ Invokes @@ SmiCode(LAMBDA fallback : Arithmetic(fallback) @@ Bits(fallback)) @@ Branches
    @@ Objects @@ Control @@ Identity @@ Intrinsics
ARM == [lab |-> Generate, keep |-> {BCP, FP, PROC, R8, R10}, clobbered |-> Clobbered, esp |-> "dart",
        regs |-> Registers,
        debug |-> [name \in DOMAIN Generate |-> GenerateBytecodePrologue(name)]]
=============================================================================
