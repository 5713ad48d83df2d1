--------------------- MODULE InterpretationBarrierProofs ---------------------
(* Safety of the interpretation barrier for any number of processes and of
   preempting threads. *)
EXTENDS InterpretationBarrier, TLAPS

\* The inductive invariant: BarrierHoldsProcess says who owns the process that
\* is being interpreted at every point of Enter, Leave and PreemptProcess.
BarrierInv == TypeOK /\ BarrierHoldsProcess

LEMMA BarrierInit == Init => BarrierInv
  BY BarrierConstants
  DEF Init, BarrierInv, TypeOK, BarrierHoldsProcess, BarrierValue, StackLimit,
      Inside, Holds

\* Every step of the preempters keeps the invariant.
LEMMA PreempterStep ==
  ASSUME BarrierInv, NEW t \in Preempters,
         PreemptProcess(t) \/ PreemptReturn(t)
  PROVE  BarrierInv'
<1> USE BarrierConstants DEF BarrierInv, TypeOK, BarrierHoldsProcess,
        BarrierValue, StackLimit, Inside, Holds
<1>1. CASE PreemptLoad(t)
  BY <1>1 DEF PreemptLoad
<1>2. CASE PreemptPending(t)
  BY <1>2 DEF PreemptPending
<1>3. CASE PreemptMark(t)
  BY <1>3 DEF PreemptMark
<1>4. CASE PreemptTake(t)
  BY <1>4 DEF PreemptTake
<1>5. CASE PreemptRetry(t)
  BY <1>5 DEF PreemptRetry
<1>6. CASE PreemptTaken(t)
  BY <1>6 DEF PreemptTaken, Preempt
<1>7. CASE PreemptStore(t)
  BY <1>7 DEF PreemptStore
<1>8. CASE PreemptReturn(t)
  BY <1>8 DEF PreemptReturn
<1> QED
  BY <1>1, <1>2, <1>3, <1>4, <1>5, <1>6, <1>7, <1>8 DEF PreemptProcess

\* Every step of the interpreter thread keeps the invariant.
LEMMA InterpreterStep ==
  ASSUME BarrierInv,
         \/ \E p \in Process : InterpretProcess(p) \/ DeleteProcess(p)
         \/ EnterStep \/ Leave
         \/ RunReturns \/ StackCheck \/ ChangeStack \/ DartStep
  PROVE  BarrierInv'
<1> USE BarrierConstants DEF BarrierInv, TypeOK, BarrierHoldsProcess,
        BarrierValue, StackLimit, Inside, Holds
<1>1. ASSUME NEW p \in Process, InterpretProcess(p) PROVE BarrierInv'
  BY <1>1 DEF InterpretProcess
<1>2. ASSUME NEW p \in Process, DeleteProcess(p) PROVE BarrierInv'
  BY <1>2 DEF DeleteProcess
<1>3. CASE EnterLoad
  BY <1>3 DEF EnterLoad
<1>4. CASE EnterMarked
  BY <1>4 DEF EnterMarked, Preempt
<1>5. CASE EnterStore
  BY <1>5 DEF EnterStore
<1>6. CASE EnterExchange
  BY <1>6 DEF EnterExchange
<1>7. CASE Leave
  BY <1>7 DEF Leave
<1>8. CASE RunReturns
  BY <1>8 DEF RunReturns
<1>9. CASE StackCheck
  BY <1>9 DEF StackCheck
<1>10. CASE ClearStackMarker
  BY <1>10 DEF ClearStackMarker
<1>11. CASE ChangeStack
  BY <1>11 DEF ChangeStack
<1>12. CASE UpdateLoad
  BY <1>12 DEF UpdateLoad
<1>13. CASE UpdateExchange
  BY <1>13 DEF UpdateExchange
<1> QED
  BY <1>1, <1>2, <1>3, <1>4, <1>5, <1>6, <1>7, <1>8, <1>9, <1>10, <1>11,
     <1>12, <1>13 DEF EnterStep, DartStep

LEMMA BarrierStep == BarrierInv /\ [Next]_vars => BarrierInv'
<1> SUFFICES ASSUME BarrierInv, [Next]_vars PROVE BarrierInv'
  OBVIOUS
<1>1. CASE Next
  BY <1>1, PreempterStep, InterpreterStep DEF Next
<1>2. CASE UNCHANGED vars
  BY <1>2 DEF vars, BarrierInv, TypeOK, BarrierHoldsProcess, Inside, Holds
<1> QED
  BY <1>1, <1>2

-----------------------------------------------------------------------------
\* The process under interpretation is in the barrier or held by exactly one
\* preempter, at every point of Enter, Leave and PreemptProcess (scheduler.cc
\* 28-73), for any number of preempting threads.
THEOREM BarrierCorrect == Spec => []BarrierHoldsProcess
<1>1. BarrierInv => BarrierHoldsProcess
  BY DEF BarrierInv
<1> QED
  BY <1>1, BarrierInit, BarrierStep, PTL DEF Spec

\* PreemptProcess never calls Preempt() on a deleted process: Leave waits for
\* the calls in progress.
THEOREM PreemptIsSafe == Spec => []PreemptTargetAlive
<1>1. BarrierInv => PreemptTargetAlive
  BY DEF BarrierInv, BarrierHoldsProcess, PreemptTargetAlive, Holds, Inside
<1> QED
  BY <1>1, BarrierInit, BarrierStep, PTL DEF Spec

\* UpdateStackLimit reaches its compare_exchange_strong only with a limit that
\* holds no marker.
LimitRead == ipc \in {"exchange", "clear_exchange"} => ilimit # "marked"

LEMMA LimitReadInit == Init => LimitRead
  BY DEF Init, LimitRead

LEMMA LimitReadStep == LimitRead /\ [Next]_vars => LimitRead'
<1> SUFFICES ASSUME LimitRead, [Next]_vars PROVE LimitRead'
  OBVIOUS
<1> USE DEF LimitRead
<1>1. ASSUME NEW t \in Preempters, PreemptProcess(t) \/ PreemptReturn(t)
      PROVE  UNCHANGED <<ipc, ilimit>>
  BY <1>1 DEF PreemptProcess, PreemptReturn, PreemptLoad, PreemptPending,
     PreemptMark, PreemptTake, PreemptRetry, PreemptTaken, PreemptStore
<1>2. ASSUME NEW p \in Process, InterpretProcess(p) \/ DeleteProcess(p)
      PROVE  LimitRead'
  BY <1>2 DEF InterpretProcess, DeleteProcess
<1>3. CASE EnterStep \/ Leave
  BY <1>3 DEF EnterStep, EnterLoad, EnterMarked, EnterStore, EnterExchange, Leave
<1>4. CASE RunReturns \/ StackCheck \/ ChangeStack
  BY <1>4 DEF RunReturns, StackCheck, ChangeStack
<1>5. CASE DartStep
  BY <1>5 DEF DartStep, ClearStackMarker, UpdateLoad, UpdateExchange
<1>6. CASE UNCHANGED vars
  BY <1>6 DEF vars
<1> QED
  BY <1>1, <1>2, <1>3, <1>4, <1>5, <1>6 DEF Next

\* A step that takes a preempt marker off a stack limit is ClearStackMarker on
\* behalf of the process that is handling the interrupt.
MarkerTaken ==
    \A p \in Process : stack_limit[p] = "marked" /\ stack_limit'[p] # "marked"
                         => ipc = "clear" /\ p = iproc

LEMMA MarkerStep == TypeOK /\ LimitRead /\ [Next]_vars => MarkerTaken
<1> SUFFICES ASSUME TypeOK, LimitRead, [Next]_vars PROVE MarkerTaken
  OBVIOUS
<1> USE DEF MarkerTaken, TypeOK
<1>1. ASSUME NEW t \in Preempters, PreemptProcess(t) \/ PreemptReturn(t)
      PROVE  MarkerTaken
  BY <1>1 DEF PreemptProcess, PreemptReturn, PreemptLoad, PreemptPending,
     PreemptMark, PreemptTake, PreemptRetry, PreemptTaken, PreemptStore, Preempt
<1>2. ASSUME NEW p \in Process, InterpretProcess(p) \/ DeleteProcess(p)
      PROVE  MarkerTaken
  BY <1>2 DEF InterpretProcess, DeleteProcess
<1>3. CASE EnterStep \/ Leave
  BY <1>3 DEF EnterStep, EnterLoad, EnterMarked, EnterStore, EnterExchange,
     Leave, Preempt
<1>4. CASE RunReturns \/ StackCheck \/ ChangeStack
  BY <1>4 DEF RunReturns, StackCheck, ChangeStack
<1>5. CASE DartStep
  BY <1>5 DEF DartStep, ClearStackMarker, UpdateLoad, UpdateExchange, LimitRead
<1>6. CASE UNCHANGED vars
  BY <1>6 DEF vars
<1> QED
  BY <1>1, <1>2, <1>3, <1>4, <1>5, <1>6 DEF Next

\* No step but taking the interrupt removes a preempt marker from a stack
\* limit: UpdateStackLimit (process.cc 527-540) never overwrites one.
THEOREM MarkersAreTaken == Spec => MarkerOnlyTaken
<1>1. BarrierInv /\ LimitRead /\ [Next]_vars => [MarkerTaken]_vars
  BY MarkerStep DEF BarrierInv
<1> QED
  BY <1>1, BarrierInit, BarrierStep, LimitReadInit, LimitReadStep, PTL
  DEF Spec, MarkerOnlyTaken, MarkerTaken
=============================================================================
