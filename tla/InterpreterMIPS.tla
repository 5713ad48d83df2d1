----------------------------- MODULE InterpreterMIPS -----------------------------
(* The code that InterpreterGeneratorMIPS prints (interpreter_mips.cc): the
   labels by family of bytecodes.  As on ARM the machine stack pointer stays
   on the C stack; S2 is the Dart stack pointer, S4 is null and S6 the program from
   one bytecode to the next.  C functions answer in V0.  The instruction in a delay
   slot takes effect before the jump, so it is written in front of it.  *)
EXTENDS InterpreterAssembler

A0 == "A0"
A1 == "A1"
A2 == "A2"
A3 == "A3"
V0 == "V0"
T0 == "T0"
T1 == "T1"
ZR == "ZR"
S0 == PROC
S1 == BCP
S2 == SP
S3 == "S3"
S4 == "S4"
S5 == "S5"
S6 == "S6"
RA == "RA"
Registers == {A0, A1, A2, A3, V0, T0, T1, ZR, S3, S4, S5, S6, RA, "delta", "frame", BCP, FP, PROC}
Clobbered == {A0, A1, A2, A3, V0, T0, T1, RA}
kTrueOffset == 16
kFalseOffset == 8
LogW == CHOOSE n \in 0..W : 2^n = W


-----------------------------------------------------------------------------
DropNAndSetTop(n, reg) == <<Drop(n), StoreLocal(reg, 0)>>
LoadFramePointer(reg) == Mov(reg, FP)
StoreFramePointer(reg) == Mov(FP, reg)
SaveByteCodePointer(scratch) == <<LoadFramePointer(scratch), StSlot(scratch, -1, S1)>>
RestoreByteCodePointer(scratch) == <<LoadFramePointer(scratch), LdSlot(S1, scratch, -1)>>
LoadTrue(reg) == AluK("add", reg, S4, kTrueOffset)
LoadFalse(reg) == AluK("add", reg, S4, kFalseOffset)
\* Conditional moves and set-on-less-than, as a branch; rest is what follows.
AddIf(reg1, reg2, cond, dest, value, rest) ==
    <<J(cond, reg1, reg2, <<AluK("add", dest, dest, value)>> \o rest)>> \o rest
ToBoolean(reg1, reg2, cond, reg, rest) ==
    <<LoadFalse(reg)>> \o AddIf(reg1, reg2, cond, reg, kTrueOffset - kFalseOffset, rest)
Dispatch(size) == <<Disp(size)>>
JumpLink(label, ra) == <<Imm(RA, Lbl(ra)), Jmp(label)>>
JumpLinkR(reg, ra) == <<Imm(RA, Lbl(ra)), JmpR(reg)>>
\* Leaves the frame: its frame pointer and return address are popped.
LeaveFrame == <<SetSP(FP), Pop(A2), StoreFramePointer(A2), Pop(RA), JmpR(RA)>>
SaveState(resume) ==
    <<LoadFramePointer(A3), StSlot(A3, -1, S1), Imm(S1, Lbl(resume)), Push(S1), Push(A3), SaveTop>>
RestoreState ==
    <<LoadTop, Lds(S6, S0, "program"), Lds(S4, S6, "null"), Pop(S1), StoreFramePointer(S1),
      LdSlot(S1, S1, -1), Pop(RA), JmpR(RA)>>
CheckStackOverflow(size) ==
    <<Lds(A1, S0, "limit"), J("be", S2, A1, <<Jmp("check_stack_overflow_0")>>)>>
AddToRememberedSet(object, value, scratch, rest) ==
    <<JT("eq", value, 1, rest), Card(scratch, object), Dirty(scratch)>> \o rest
IsRetry(reg, scratch) ==
    <<AluK("and", scratch, reg, FailureTypeMask), JK("eq", scratch, RetryAfterGC, <<Jmp("gc")>>)>>

-----------------------------------------------------------------------------
\* Expects to be called after SaveState with the exception object in S3.
DoThrowAfterSaveState ==
    <<Mov(A0, S0), Mov(A1, S3), CCall("HandleThrow", <<A0, A1>>, V0), Mov(A2, "frame"),
      Mov(A3, "delta")>> \o RestoreState

\* The labels around the bytecodes, with the slow paths of a collection and of a stack
\* that is too small.
Epilogue ==
    LET CheckStackOverflowSlow ==
            SaveState("overflow_resume")
            \o <<Mov(A1, A0), Mov(A0, S0), CCall("HandleStackOverflow", <<A0, A1>>, V0)>> \o RestoreState
         \* The process is still in the first argument register when the code resumes.
    IN  [prologue |-> <<Mov(A0, S0)>> \o RestoreState,
         done |-> SaveState("interpreter_entry") \o <<Exit(V0)>>,
         interpreter_entry |-> Dispatch(0),
         gc |->
             SaveState("interpreter_entry") \o <<Mov(A0, S0), CCall("HandleGC", <<A0>>, V0)>>
               \o RestoreState,
         check_stack_overflow_0 |-> <<Imm(A0, Zero)>> \o CheckStackOverflowSlow,
         check_stack_overflow |-> CheckStackOverflowSlow,
         overflow_resume |->
             <<JK("eq", V0, Zero, Dispatch(0)),
               JK("eq", V0, Word(kStackCheckInterrupt), <<Imm(V0, Word(kInterrupt)), Jmp("done")>>),
               JK("eq", V0, Word(kStackCheckDebugInterrupt), <<Imm(V0, Word(kBreakpoint)), Jmp("done")>>)>>
             \o SaveState("throw_resume") \o <<Lds(S3, S6, "overflow_error")>> \o DoThrowAfterSaveState,
         InterpreterMethodEntry |->
             <<Push(RA), LoadFramePointer(A2), Push(A2), StoreFramePointer(S2), PushK(Zero),
               FnStart(S1, A0)>> \o CheckStackOverflow(0) \o Dispatch(0)]
GenerateBytecodePrologue(name) == JumpLink("DebugAtBytecode", name)
GenerateDebugAtBytecode ==
    <<Mov(S3, RA), Mov(A0, S0), Mov(A1, S1), Mov(A2, S2),
      CCall("HandleAtBytecode", <<A0, A1, A2>>, V0), JK("ne", V0, Zero, <<Jmp("done")>>), Mov(RA, S3),
      JmpR(RA)>>

-----------------------------------------------------------------------------
Loads ==
    LET DoLoadLocalN(n) == <<LoadLocal(A0, n), Push(A0)>> \o Dispatch(1)
        LoadStatic == <<Opd(A0, 1), Lds(A1, S0, "statics"), FldX(A0, A1, A0)>>
        LoadFieldCode == <<Opd(A1, 1), LoadLocal(A0, 0), FldX(A0, A0, A1), StoreLocal(A0, 0)>>
    IN  [BC_LoadLocal0 |-> DoLoadLocalN(0),
         BC_LoadLocal1 |-> DoLoadLocalN(1),
         BC_LoadLocal2 |-> DoLoadLocalN(2),
         BC_LoadLocal3 |-> DoLoadLocalN(3),
         BC_LoadLocal4 |-> DoLoadLocalN(4),
         BC_LoadLocal5 |-> DoLoadLocalN(5),
         BC_LoadLocal |-> <<Opd(A0, 1), LocX(A0, A0), Push(A0)>> \o Dispatch(2),
         BC_LoadLocalWide |-> <<Opd(A0, 1), LocX(A0, A0), Push(A0)>> \o Dispatch(5),
         BC_LoadBoxed |-> <<Opd(A0, 1), LocX(A1, A0), Fld(A0, A1, 1), Push(A0)>> \o Dispatch(2),
         BC_LoadStatic |-> LoadStatic \o <<Push(A0)>> \o Dispatch(5),
         BC_LoadStaticInit |->
             LET done == <<Push(A0)>> \o Dispatch(5)
             IN LoadStatic
                \o <<JT("eq", A0, 1, done), Lds(A1, A0, "class"), Lds(A1, A1, "type"),
                     JK("ne", A1, <<"type", "INITIALIZER_TYPE">>, done), Fld(A0, A0, 1)>>
                \o SaveByteCodePointer(A2) \o JumpLink("InterpreterMethodEntry", "ret_LoadStaticInit"),
         ret_LoadStaticInit |-> RestoreByteCodePointer(A2) \o <<Push(A0)>> \o Dispatch(5),
         BC_LoadField |-> LoadFieldCode \o Dispatch(2),
         BC_LoadFieldWide |-> LoadFieldCode \o Dispatch(5),
         BC_LoadConst |-> <<Opd(A2, 1), Push(A2)>> \o Dispatch(5)]

Stores ==
    LET StoreFieldCode(size) ==
            <<Opd(A1, 1), LoadLocal(A2, 0), LoadLocal(A0, 1), SetFldX(A0, A1, A2)>>
            \o DropNAndSetTop(1, A2) \o AddToRememberedSet(A0, A2, A3, Dispatch(size))
    IN  [BC_StoreLocal |-> <<LoadLocal(A1, 0), Opd(A0, 1), SetLocX(A1, A0)>> \o Dispatch(2),
         BC_StoreBoxed |->
             <<LoadLocal(A2, 0), Opd(A0, 1), LocX(A1, A0), SetFld(A1, 1, A2)>>
             \o AddToRememberedSet(A1, A2, A3, Dispatch(2)),
         BC_StoreStatic |->
             <<LoadLocal(A2, 0), Opd(A0, 1), Lds(A1, S0, "statics"), SetFldX(A1, A0, A2)>>
             \o AddToRememberedSet(A1, A2, A0, Dispatch(5)),
         BC_StoreField |-> StoreFieldCode(2),
         BC_StoreFieldWide |-> StoreFieldCode(5)]

Literals ==
    [BC_LoadLiteralNull |-> <<Push(S4)>> \o Dispatch(1),
     BC_LoadLiteralTrue |-> <<LoadTrue(A2), Push(A2)>> \o Dispatch(1),
     BC_LoadLiteralFalse |-> <<LoadFalse(A2), Push(A2)>> \o Dispatch(1),
     BC_LoadLiteral0 |-> <<Imm(A0, SmiFromWord(0)), Push(A0)>> \o Dispatch(1),
     BC_LoadLiteral1 |-> <<Imm(A0, SmiFromWord(1)), Push(A0)>> \o Dispatch(1),
     BC_LoadLiteral |-> <<Opd(A0, 1), ShiftK("shl", A0, A0, 1), Push(A0)>> \o Dispatch(2),
     BC_LoadLiteralWide |-> <<Opd(A0, 1), ShiftK("shl", A0, A0, 1), Push(A0)>> \o Dispatch(5)]

-----------------------------------------------------------------------------
\* The end of a call: drop the arguments that the arity of the selector counts.
FinishCall(size) == <<DropR(A2), StoreLocal(A0, 0)>> \o Dispatch(size)
SelectorCallReturn ==
    RestoreByteCodePointer(A2) \o <<Opd(S3, 1), AluK("and", A2, S3, kArityMask)>> \o FinishCall(5)
InvokeMethodUnfold(test) ==
    LET
        \* The cache entry is in A0.  The code of the entry is loaded but not called.
        Finish ==
            IF test
            THEN <<Lds(A0, A0, "code"), Imm(ZR, Zero)>>
                 \o ToBoolean(A0, ZR, "eq", A2, <<StoreLocal(A2, 0)>> \o Dispatch(5))
            ELSE LET hit == SaveByteCodePointer(A2)
                            \o JumpLink("InterpreterMethodEntry", "ret_InvokeMethodUnfold")
                 IN <<Lds(A1, A0, "code"), Lds(A0, A0, "target"), JK("ne", A0, Zero, hit),
                      Imm(A0, Lbl("InterpreterMethodEntry"))>> \o hit
        Miss ==
            <<Mov(A1, A0), Mov(A0, S0), Mov(A3, S3),
              CCall("HandleLookupEntry", <<A0, A1, A2, A3>>, V0), Mov(A0, V0)>> \o Finish
        Probe ==
            <<Alu("xor", A3, A2, S3), Imm(A0, Word(kPrimaryMask)), Alu("and", A0, A3, A0),
              Lds(A3, S0, "primary"), CacheEntry(A0, A3, A0), Lds(A3, A0, "class"),
              J("ne", A2, A3, Miss), Lds(A3, A0, "selector"), J("ne", S3, A3, Miss)>>
            \o Finish
    IN  <<Opd(S3, 1)>>
        \o (IF test THEN <<LoadLocal(A1, 0)>> ELSE <<AluK("and", A2, S3, kArityMask), LocX(A1, A2)>>)
        \o <<JT("eq", A1, 1, <<Lds(A2, S6, "smi_class")>> \o Probe), Lds(A2, A1, "class")>>
        \o Probe
NoSuchMethodEntry == <<Lds(A1, S6, "table"), Lds(A1, A1, "entry0")>>
InvokeMethod(test) ==
    LET Answer(load) == <<load, StoreLocal(A2, 0)>> \o Dispatch(5)
        Validated ==
            <<Lds(A0, A1, "target")>> \o SaveByteCodePointer(A2) \o <<Lds(A1, A1, "code")>>
            \o JumpLinkR(A1, "ret_InvokeMethod")
        DispatchEntry ==
            <<Lds(A2, A2, "id"), Alu("add", A2, A2, S3), Entry(A1, A1, A2), Lds(A3, A1, "offset"),
              J("ne", S3, A3, IF test THEN Answer(LoadFalse(A2)) ELSE NoSuchMethodEntry \o Validated)>>
            \o (IF test THEN Answer(LoadTrue(A2)) ELSE Validated)
    IN  <<Opd(S3, 1), Lds(A1, S6, "table")>>
        \o (IF test THEN <<>> ELSE <<AluK("and", A2, S3, kArityMask)>>)
        \o <<Imm(S5, Word(kIdMask)), Alu("and", S3, S3, S5), ShiftK("shr", S3, S3, kIdShift - 1),
             IF test THEN LoadLocal(A2, 0) ELSE LocX(A2, A2),
             JT("eq", A2, 1, <<Lds(A2, S6, "smi_class")>> \o DispatchEntry),
             Lds(A2, A2, "class")>> \o DispatchEntry
InvokeStatic ==
    <<Opd(A0, 1)>> \o SaveByteCodePointer(A2)
    \o JumpLink("InterpreterMethodEntry", "ret_InvokeStatic")
InvokeStaticReturn ==
    RestoreByteCodePointer(A2)
    \o <<Opd(A1, 1), Lds(A1, A1, "arity"), ShiftK("sar", A1, A1, 1), DropR(A1), Push(A0)>>
    \o Dispatch(5)

-----------------------------------------------------------------------------
ContinueWithResult(yield) ==
    LET NativeFailure ==
            IsRetry(A0, A1)
            \o <<Mov(A1, A0), Mov(A0, S0), CCall("HandleObjectFromFailure", <<A0, A1>>, V0), Push(V0)>>
            \o Dispatch(3)
    IN  <<AluK("and", A1, A0, FailureTagMask), JK("eq", A1, Word(3), NativeFailure)>>
        \o (IF ~yield THEN LeaveFrame
            ELSE <<J("eq", A0, S4, <<Jmp("dont_yield")>>), StYield(A0), Imm(V0, Word(kTargetYield))>>
                 \o SaveState("dont_yield") \o <<Exit(V0)>>)
\* A0 is null, or after a yield whatever the prologue left in it.
DontYield == LeaveFrame
InvokeNative(yield, safepoint) ==
    <<Opd(A1, 1), AluK("add", A1, A1, 2), Opd(A0, 2), Mov(A2, A0), LeaX(S3, S2, A1, 0), Mov(A1, S3),
      Mov(A0, S0)>>
    \o (IF safepoint THEN SaveState("continue_with_result") ELSE <<>>)
    \o <<CallNative(A2, <<A0, A1>>, V0), Mov(A0, V0)>>
    \o (IF safepoint THEN RestoreState ELSE ContinueWithResult(yield))

Invokes ==
    [BC_InvokeMethodUnfold |-> InvokeMethodUnfold(FALSE),
     ret_InvokeMethodUnfold |-> SelectorCallReturn,
     BC_InvokeMethod |-> InvokeMethod(FALSE),
     ret_InvokeMethod |-> SelectorCallReturn,
     BC_InvokeNoSuchMethod |->
         NoSuchMethodEntry \o <<Lds(A0, A1, "target")>> \o SaveByteCodePointer(A2)
         \o JumpLink("InterpreterMethodEntry", "ret_InvokeNoSuchMethod"),
     ret_InvokeNoSuchMethod |-> SelectorCallReturn,
     BC_InvokeTestNoSuchMethod |-> <<LoadFalse(A2), StoreLocal(A2, 0)>> \o Dispatch(5),
     BC_InvokeTestUnfold |-> InvokeMethodUnfold(TRUE),
     BC_InvokeTest |-> InvokeMethod(TRUE),
     BC_InvokeStatic |-> InvokeStatic,
     BC_InvokeFactory |-> InvokeStatic,
     ret_InvokeStatic |-> InvokeStaticReturn,
     BC_InvokeLeafNative |-> InvokeNative(FALSE, FALSE),
     BC_InvokeNative |-> InvokeNative(FALSE, TRUE),
     BC_InvokeNativeYield |-> InvokeNative(TRUE, FALSE),
     continue_with_result |-> ContinueWithResult(FALSE),
     dont_yield |-> DontYield,
     BC_InvokeSelector |->
         SaveState("resume_InvokeSelector")
         \o <<Mov(A0, S0), CCall("HandleInvokeSelector", <<A0>>, V0), Mov(A0, V0)>> \o RestoreState,
     resume_InvokeSelector |->
             SaveByteCodePointer(A2) \o JumpLink("InterpreterMethodEntry", "ret_InvokeSelector"),
     ret_InvokeSelector |->
         RestoreByteCodePointer(A2)
         \o <<Imm(S3, Word(-2)), Opd(A2, 1), Alu("sub", S3, S3, A2), LoadFramePointer(A2),
              LeaX(A2, A2, S3, 0), LdSlot(A2, A2, 0), ShiftK("sar", A2, A2, 1),
              AluK("and", A2, A2, kArityMask)>> \o FinishCall(5)]

-----------------------------------------------------------------------------
\* Smi arithmetic: anything else, and overflow, is left to the method call.
SmiOperands(left, right, fallback) ==
    <<LoadLocal(left, 1), SmiTest(left, fallback), LoadLocal(right, 0), SmiTest(right, fallback)>>
BinaryResult(reg) == DropNAndSetTop(1, reg) \o Dispatch(5)
InvokeCompare(fallback, cond) ==
    <<LoadLocal(A0, 0), SmiTest(A0, fallback), LoadLocal(A1, 1), SmiTest(A1, fallback)>>
    \o ToBoolean(A1, A0, cond, A2, BinaryResult(A2))

Arithmetic(fallback) ==
    [Eq |-> InvokeCompare(fallback, "eq"),
     Lt |-> InvokeCompare(fallback, "lt"),
     Le |-> InvokeCompare(fallback, "le"),
     Gt |-> InvokeCompare(fallback, "gt"),
     Ge |-> InvokeCompare(fallback, "ge"),
     \* Operands of different signs cannot overflow; otherwise the sign must not change.
     Add |->
         LET no_overflow == <<Mov(A0, T0)>> \o BinaryResult(A0)
         IN SmiOperands(A0, A1, fallback)
            \o <<Alu("xor", T1, A0, A1), Alu("add", T0, A0, A1), JK("lt", T1, Zero, no_overflow),
                 Alu("xor", T1, T0, A0), JK("lt", T1, Zero, <<Jmp(fallback)>>)>> \o no_overflow,
     Sub |->
         LET no_overflow == <<Mov(A0, T0)>> \o BinaryResult(A0)
         IN SmiOperands(A0, A1, fallback)
            \o <<Alu("xor", T1, A0, A1), ShiftK("shr", T1, T1, W - 1), Alu("sub", T0, A0, A1),
                 JK("eq", T1, Zero, no_overflow), Alu("xor", T1, T0, A0),
                 JK("lt", T1, Zero, <<Jmp(fallback)>>)>> \o no_overflow,
     Mod |-> <<Jmp(fallback)>>,
     \* The product of one untagged operand, in two words; the upper one must be its sign.
     Mul |->
         SmiOperands(A0, A1, fallback)
         \o <<ShiftK("sar", A0, A0, 1), Smull(T0, T1, A0, A1), Mov(A0, T0), ShiftK("sar", T0, T0, W - 1),
              J("ne", T1, T0, <<Jmp(fallback)>>)>> \o BinaryResult(A0),
     TruncDiv |-> <<Jmp(fallback)>>]

Bits(fallback) ==
    LET InvokeBitOp(f) ==
            SmiOperands(A0, A1, fallback) \o <<Alu(f, A0, A0, A1)>> \o BinaryResult(A0)
    IN  [BitNot |->
             <<LoadLocal(A0, 0), SmiTest(A0, fallback), AluK("xor", A1, A0, 2^W - 1),
               AluK("xor", A1, A1, 1), StoreLocal(A1, 0)>> \o Dispatch(5),
         BitAnd |-> InvokeBitOp("and"),
         BitOr |-> InvokeBitOp("or"),
         BitXor |-> InvokeBitOp("xor"),
         BitShr |->
             LET shift == <<Shift("sar", A0, A0, A1), Alu("add", A0, A0, A0)>> \o BinaryResult(A0)
             IN SmiOperands(A0, A1, fallback)
                \o <<ShiftK("sar", A0, A0, 1), ShiftK("sar", A1, A1, 1), JK("lt", A1, Word(W), shift),
                     Imm(A1, Word(W - 1))>> \o shift,
         BitShl |->
             SmiOperands(A0, A1, fallback)
             \o <<ShiftK("sar", A1, A1, 1), ShiftK("sar", T0, A1, LogW), JK("ne", T0, Zero, <<Jmp(fallback)>>),
                  Shift("shl", A2, A0, A1), Shift("sar", A3, A2, A1), J("ne", A3, A0, <<Jmp(fallback)>>)>>
             \o BinaryResult(A2)]

-----------------------------------------------------------------------------
Return(is_return_null) ==
    <<IF is_return_null THEN Mov(A0, S4) ELSE LoadLocal(A0, 0)>> \o LeaveFrame

Branches ==
    LET BranchForward(off) == <<Opd(A0, off), Alu("add", S1, S1, A0)>> \o Dispatch(0)
        BranchBackward(off) == <<Opd(A0, off), Alu("sub", S1, S1, A0)>> \o Dispatch(0)
        BranchOn(reg, cc, target, size) ==
            <<Pop(reg), LoadTrue(A2), J(cc, reg, A2, target)>> \o Dispatch(size)
    IN  [BC_Pop |-> <<Drop(1)>> \o Dispatch(1),
         BC_Drop |-> <<Opd(A0, 1), DropR(A0)>> \o Dispatch(2),
         BC_Return |-> Return(FALSE),
         BC_ReturnNull |-> Return(TRUE),
         BC_BranchWide |-> BranchForward(1),
         BC_BranchIfTrueWide |-> BranchOn(S3, "eq", BranchForward(1), 5),
         BC_BranchIfFalseWide |-> BranchOn(S3, "ne", BranchForward(1), 5),
         BC_BranchBack |-> CheckStackOverflow(0) \o BranchBackward(1),
         BC_BranchBackIfTrue |-> CheckStackOverflow(0) \o BranchOn(A1, "eq", BranchBackward(1), 2),
         BC_BranchBackIfFalse |->
             CheckStackOverflow(0) \o BranchOn(A1, "ne", BranchBackward(1), 2),
         BC_BranchBackWide |-> CheckStackOverflow(0) \o BranchBackward(1),
         BC_BranchBackIfTrueWide |->
             CheckStackOverflow(0) \o BranchOn(A1, "eq", BranchBackward(1), 5),
         BC_BranchBackIfFalseWide |->
             CheckStackOverflow(0) \o BranchOn(A1, "ne", BranchBackward(1), 5),
         BC_PopAndBranchWide |-> <<Opd(A0, 1), DropR(A0)>> \o BranchForward(2),
         BC_PopAndBranchBackWide |->
             CheckStackOverflow(0) \o <<Opd(A0, 1), DropR(A0)>> \o BranchBackward(2)]
Allocate(immutable) ==
    <<Opd(S3, 1), IF immutable THEN AllImmutable(S5, S3) ELSE Imm(S5, Zero), Mov(A0, S0), Mov(A1, S3),
      Mov(A2, S5), CCall("HandleAllocate", <<A0, A1, A2>>, V0),
      Mov(A0, V0)>>
    \o IsRetry(A0, A1) \o <<PopFields(A0, S3), Push(A0)>> \o Dispatch(5)

Objects ==
    [BC_Allocate |-> Allocate(FALSE),
     BC_AllocateImmutable |-> Allocate(TRUE),
     BC_AllocateBoxed |->
         <<LoadLocal(A1, 0), Mov(A0, S0), CCall("HandleAllocateBoxed", <<A0, A1>>, V0), Mov(A0, V0)>>
         \o IsRetry(A0, A1) \o <<StoreLocal(A0, 0)>> \o Dispatch(1),
     BC_Negate |->
         <<LoadLocal(A1, 0), LoadTrue(A2), Mov(T0, A2)>>
         \o AddIf(A1, T0, "eq", A2, kFalseOffset - kTrueOffset, <<StoreLocal(A2, 0)>> \o Dispatch(1)),
     BC_StackOverflowCheck |->
         <<Opd(A0, 1), Lds(A1, S0, "limit"), Neg(A3, A0), LeaX(A3, S2, A3, 0),
           J("be", A3, A1, <<Jmp("check_stack_overflow")>>)>> \o Dispatch(5)]

Control ==
    LET ThrowResume ==
            <<JK("ne", V0, Zero,
                 <<StoreFramePointer(A2), Mov(S1, V0), DropR(A3), StoreLocal(S3, 0)>> \o Dispatch(0)),
              Imm(V0, Word(kUncaughtException)), Jmp("done")>>
    IN  [BC_Throw |-> <<LoadLocal(S3, 0)>> \o SaveState("resume_Throw") \o DoThrowAfterSaveState,
         throw_resume |-> ThrowResume,
         resume_Throw |-> ThrowResume,
         BC_SubroutineCall |->
             <<Opd(A0, 1), Opd(A1, 5), ShiftK("shl", A1, A1, 1), Push(A1), Alu("add", S1, S1, A0)>>
             \o Dispatch(0),
         BC_SubroutineReturn |->
                 <<Pop(A0), ShiftK("shr", A0, A0, 1), Alu("sub", S1, S1, A0)>> \o Dispatch(0),
         BC_ProcessYield |->
             <<LoadLocal(A0, 0), ShiftK("sar", V0, A0, 1), AluK("add", S1, S1, 1), StoreLocal(S4, 0),
               Jmp("done")>>,
         BC_CoroutineChange |->
             <<LoadLocal(S3, 0), LoadLocal(A1, 1), StoreLocal(S4, 0), StoreLocal(S4, 1)>>
             \o SaveState("resume_CoroutineChange")
             \o <<Mov(A0, S0), CCall("HandleCoroutineChange", <<A0, A1>>, V0)>> \o RestoreState,
         resume_CoroutineChange |-> DropNAndSetTop(1, S3) \o Dispatch(1)]

-----------------------------------------------------------------------------
Identity ==
    LET SameObject(left, right) ==
            ToBoolean(left, right, "eq", A2, <<StoreLocal(A2, 1), Drop(1)>> \o Dispatch(1))
    IN  [BC_Identical |->
             LET fast_case == SameObject(A1, A0)
                 bail_out == <<Mov(A2, A0), Mov(A0, S0), CCall("HandleIdentical", <<A0, A1, A2>>, V0)>>
                             \o DropNAndSetTop(1, V0) \o Dispatch(1)
             IN <<LoadLocal(A0, 0), LoadLocal(A1, 1), JT("eq", A0, 1, fast_case),
                  JT("eq", A1, 1, fast_case), Lds(A2, A0, "class"), Lds(A2, A2, "type"),
                  Lds(A3, A1, "class"), Lds(A3, A3, "type"), J("ne", A2, A3, fast_case),
                  JK("eq", A2, <<"type", "DOUBLE_TYPE">>, bail_out),
                  JK("eq", A2, <<"type", "LARGE_INTEGER_TYPE">>, bail_out)>> \o fast_case,
         BC_IdenticalNonNumeric |-> <<LoadLocal(A0, 0), LoadLocal(A1, 1)>> \o SameObject(A0, A1),
         BC_EnterNoSuchMethod |->
             SaveState("interpreter_entry")
             \o <<Mov(A0, S0), CCall("HandleEnterNoSuchMethod", <<A0>>, V0)>> \o RestoreState,
         BC_ExitNoSuchMethod |->
             <<Pop(A0), Pop(A1), ShiftK("shr", A1, A1, 1), SetSP(FP), Pop(A2), StoreFramePointer(A2),
               AluK("and", A2, A1, kKindMask), JK("ne", A2, Word(SETTER * 4), <<Pop(RA), JmpR(RA)>>),
               LoadLocal(A0, 1), Pop(RA), JmpR(RA)>>,
         BC_MethodEnd |-> <<Int3>>]

-----------------------------------------------------------------------------
Intrinsics ==
    LET
        \* Intrinsics: the return address is in RA.
        Failure == <<Jmp("InterpreterMethodEntry")>>
        CheckIndex ==
            <<JT("ne", A1, 1, Failure), JK("lt", A1, Zero, Failure), Fld(A2, A2, 1), Lds(A3, A2, "length"),
              J("ge", A1, A3, Failure)>>
    IN  [Intrinsic_ObjectEquals |->
             <<LoadLocal(A0, 0), LoadLocal(A1, 1)>>
             \o ToBoolean(A0, A1, "eq", A2, <<StoreLocal(A2, -1), Drop(1)>> \o Dispatch(5)),
         Intrinsic_GetField |->
             <<FnByte(A1, A0, 2), LoadLocal(A0, 0), FldX(A0, A0, A1), JmpR(RA)>>,
         Intrinsic_SetField |->
             <<FnByte(A1, A0, 3), LoadLocal(S3, 0), LoadLocal(A2, 1), SetFldX(A2, A1, S3)>>
             \o AddToRememberedSet(A2, S3, A3, <<Mov(A0, S3), JmpR(RA)>>),
         Intrinsic_ListIndexGet |->
                 <<LoadLocal(A1, 0), LoadLocal(A2, 1)>> \o CheckIndex \o <<FldT(A0, A2, A1), JmpR(RA)>>,
         Intrinsic_ListIndexSet |->
             <<LoadLocal(A1, 1), LoadLocal(A2, 2)>> \o CheckIndex
             \o <<LoadLocal(S3, 0), SetFldT(A2, A1, S3), Mov(S5, RA)>>
             \o AddToRememberedSet(A2, S3, A3, <<Mov(A0, S3), JmpR(S5)>>),
         Intrinsic_ListLength |->
             <<LoadLocal(A2, 0), Fld(A2, A2, 1), Lds(A0, A2, "length"), JmpR(RA)>>]

-----------------------------------------------------------------------------
\* The code at every label, as InterpreterGenerator::Generate lays it out.
Generate ==
    Epilogue @@ ("DebugAtBytecode" :> GenerateDebugAtBytecode) @@ Loads @@ Stores @@ Literals
    @@ Invokes @@ SmiCode(LAMBDA fallback : Arithmetic(fallback) @@ Bits(fallback)) @@ Branches
    @@ Objects @@ Control @@ Identity @@ Intrinsics
MIPS == [lab |-> Generate, keep |-> {BCP, FP, PROC, S4, S6}, clobbered |-> Clobbered, esp |-> "dart",
        regs |-> Registers,
        debug |-> [name \in DOMAIN Generate |-> GenerateBytecodePrologue(name)]]
=============================================================================
