-------------------------- MODULE DispatchLoopProofs --------------------------
(***************************************************************************)
(* Proofs about DispatchLoop for every set of rows and requests.           *)
(***************************************************************************)
EXTENDS DispatchLoop, TLAPS

LEMMA TypeInit == Init => TypeOK
<1> SUFFICES ASSUME Init PROVE TypeOK
  OBVIOUS
<1>1. row \in [Rows -> {"absent", "written", "pending", "orphan", "claimed", "done", "gone"}]
  BY DEF Init
<1>2. at \in [Rows -> Nat]
  BY LoopAssumption DEF Init
<1>3. plan \in [claim : SUBSET Rows, recover : SUBSET Rows]
  BY DEF Init, NoPlan
<1> QED
  BY <1>1, <1>2, <1>3 DEF Init, TypeOK

LEMMA TypeNext == TypeOK /\ [Next]_vars => TypeOK'
<1> SUFFICES ASSUME TypeOK, [Next]_vars PROVE TypeOK'
  OBVIOUS
<1> USE LoopAssumption DEF TypeOK, loopVars
<1>1. ASSUME NEW w \in Rows, WriteRow(w) PROVE TypeOK'
  BY <1>1 DEF WriteRow
<1>2. ASSUME NEW q \in Requests, Commit(q) PROVE TypeOK'
  BY <1>2 DEF Commit, WrittenBy
<1>3. ASSUME NEW q \in Requests, Rollback(q) PROVE TypeOK'
  BY <1>3 DEF Rollback
<1>4. ASSUME NEW w \in Rows, HandlerCommits(w) PROVE TypeOK'
  BY <1>4 DEF HandlerCommits
<1>5. CASE DrainReadsNothing
  BY <1>5 DEF DrainReadsNothing
<1>6. CASE DrainReads
  BY <1>6 DEF DrainReads, Ready, StaleOrphans
<1>7. CASE ClaimCommits
  BY <1>7 DEF ClaimCommits, NoPlan
<1>8. CASE LookAndSleep
  BY <1>8 DEF LookAndSleep, Deadlines
<1>9. CASE LookAndContinue \/ WakeBySignal \/ WakeByTimeout \/ LockTimeout
  <2>1. CASE LookAndContinue
    BY <2>1 DEF LookAndContinue
  <2>2. CASE WakeBySignal
    BY <2>2 DEF WakeBySignal
  <2>3. CASE WakeByTimeout
    BY <2>3 DEF WakeByTimeout
  <2>4. CASE LockTimeout
    BY <2>4 DEF LockTimeout, NoPlan
  <2> QED
    BY <1>9, <2>1, <2>2, <2>3, <2>4
<1>10. CASE SignalOnly \/ Tick
  <2>1. CASE SignalOnly
    BY <2>1 DEF SignalOnly
  <2>2. CASE Tick
    BY <2>2 DEF Tick
  <2> QED
    BY <1>10, <2>1, <2>2
<1>11. CASE UNCHANGED vars
  BY <1>11 DEF vars
<1> QED
  BY <1>1, <1>2, <1>3, <1>4, <1>5, <1>6, <1>7, <1>8, <1>9, <1>10, <1>11 DEF Next, LoopStep

\* Every value of every variable has its type.
THEOREM TypeCorrect == Spec => []TypeOK
BY TypeInit, TypeNext, PTL DEF Spec

-----------------------------------------------------------------------------
IInv == TypeOK /\ OnlyLateRowsAreOverslept /\ PlanStaysValid

LEMMA OversleptNext ==
    ASSUME TypeOK, OnlyLateRowsAreOverslept, [Next]_vars
    PROVE  OnlyLateRowsAreOverslept'
<1> USE LoopAssumption DEF OnlyLateRowsAreOverslept, Asleep
<1>1. ASSUME NEW q \in Requests, Commit(q) PROVE OnlyLateRowsAreOverslept'
  BY <1>1 DEF Commit, WrittenBy, loopVars, TypeOK
<1>2. ASSUME NEW q \in Requests, Rollback(q) PROVE OnlyLateRowsAreOverslept'
  BY <1>2 DEF Rollback, WrittenBy, loopVars, TypeOK
<1>3. CASE LookAndSleep
  BY <1>3 DEF LookAndSleep, Deadlines, TypeOK
<1>4. ASSUME NEW w \in Rows, WriteRow(w) PROVE OnlyLateRowsAreOverslept'
  BY <1>4 DEF WriteRow
<1>5. ASSUME NEW w \in Rows, HandlerCommits(w) PROVE OnlyLateRowsAreOverslept'
  BY <1>5 DEF HandlerCommits
<1>6. CASE DrainReadsNothing \/ DrainReads \/ ClaimCommits \/ LookAndContinue
           \/ WakeBySignal \/ WakeByTimeout \/ LockTimeout \/ SignalOnly
  BY <1>6 DEF DrainReadsNothing, DrainReads, ClaimCommits, LookAndContinue, WakeBySignal,
              WakeByTimeout, LockTimeout, SignalOnly
<1>7. CASE Tick \/ UNCHANGED vars
  BY <1>7 DEF Tick, loopVars, vars
<1> QED
  BY <1>1, <1>2, <1>3, <1>4, <1>5, <1>6, <1>7 DEF Next, LoopStep

LEMMA PlanNext ==
    ASSUME TypeOK, PlanStaysValid, [Next]_vars
    PROVE  PlanStaysValid'
<1> USE LoopAssumption DEF PlanStaysValid, TypeOK
<1>1. ASSUME NEW q \in Requests, Commit(q) \/ Rollback(q) PROVE PlanStaysValid'
  BY <1>1 DEF Commit, Rollback, WrittenBy, loopVars
<1>2. ASSUME NEW w \in Rows, WriteRow(w) PROVE PlanStaysValid'
  BY <1>2 DEF WriteRow, loopVars
<1>3. ASSUME NEW w \in Rows, HandlerCommits(w) PROVE PlanStaysValid'
  BY <1>3 DEF HandlerCommits
<1>4. CASE DrainReads
  BY <1>4 DEF DrainReads, Ready, StaleOrphans
<1>5. CASE ClaimCommits \/ LockTimeout
  BY <1>5 DEF ClaimCommits, LockTimeout
<1>6. CASE DrainReadsNothing \/ LookAndSleep \/ LookAndContinue
           \/ WakeBySignal \/ WakeByTimeout
  BY <1>6 DEF DrainReadsNothing, LookAndSleep, LookAndContinue, WakeBySignal, WakeByTimeout
<1>7. CASE SignalOnly \/ Tick \/ UNCHANGED vars
  BY <1>7 DEF SignalOnly, Tick, loopVars, vars
<1> QED
  BY <1>1, <1>2, <1>3, <1>4, <1>5, <1>6, <1>7 DEF Next, LoopStep

\* The inductive invariant holds in every state.
THEOREM Invariance == Spec => []IInv
<1>1. Init => IInv
  BY TypeInit DEF Init, IInv, OnlyLateRowsAreOverslept, Asleep, PlanStaysValid, NoPlan
<1>2. IInv /\ [Next]_vars => IInv'
  BY TypeNext, OversleptNext, PlanNext DEF IInv
<1> QED
  BY <1>1, <1>2, PTL DEF Spec

\* The window between notify and commit is the only way to oversleep a wake.
THEOREM OversleepWindow == Spec => []OnlyLateRowsAreOverslept
<1>1. IInv => OnlyLateRowsAreOverslept
  BY DEF IInv
<1> QED
  BY <1>1, Invariance, PTL

\* What a round has read is still there when it claims it.
THEOREM PlanIsValid == Spec => []PlanStaysValid
<1>1. IInv => PlanStaysValid
  BY DEF IInv
<1> QED
  BY <1>1, Invariance, PTL
=============================================================================
