--------------------------- MODULE WakeQueueProofs ---------------------------
(***************************************************************************)
(* Proofs about WakeQueue for every set of rows, runs and teammates.       *)
(***************************************************************************)
EXTENDS WakeQueue, FiniteSetTheorems, TLAPS

\* A row that is not claimed yet has no run of an earlier claim.
NoRunBeforeClaim ==
    \A e \in Events : status[e] \in {"absent", "pending"} => claimedRun[e] = NoRun

\* A request that is still to insert its row has not inserted it.
CheckedIsAbsent ==
    \A e \in Events : request[e] = "checked" => status[e] = "absent"

\* The run of a claimed row is running and is its own.
ClaimedRunRuns ==
    \A e \in Events : status[e] = "claimed" /\ claimedRun[e] # NoRun =>
      runStatus[claimedRun[e]] = "running" /\ runEvent[claimedRun[e]] = e

\* A handler that has not started its run yet will find its teammate free.
QueuedTargetFree ==
    \A e \in Events : handler[e] = Queued =>
      \A r \in Runs : runStatus[r] = "running" => Target[runEvent[r]] # Target[e]

\* drain claims only after the handlers of the last round.
IdleHasNoHandlers == disp = "idle" => \A e \in Events : handler[e] = NoTask

IInv ==
    /\ TypeOK
    /\ OneOpenPerKey
    /\ OneRunningRunPerAgent
    /\ ClaimHasLease
    /\ RunningRunIsClaimed
    /\ HandlerOwnsClaim
    /\ HandlersDoNotCompete
    /\ NoRunBeforeClaim
    /\ CheckedIsAbsent
    /\ ClaimedRunRuns
    /\ QueuedTargetFree
    /\ IdleHasNoHandlers

-----------------------------------------------------------------------------
LEMMA TypeInit == Init => TypeOK
BY ConstantsAssumption DEF Init, TypeOK, Open, Closed

LEMMA TypeNext == TypeOK /\ [Next]_vars => TypeOK'
<1> SUFFICES ASSUME TypeOK, [Next]_vars PROVE TypeOK'
  OBVIOUS
<1> USE ConstantsAssumption DEF TypeOK, Open, Closed
<1>1. ASSUME NEW e \in Events, EnqueueCheck(e) PROVE TypeOK'
  BY <1>1 DEF EnqueueCheck, rowVars, runVars
<1>2. ASSUME NEW e \in Events, EnqueueInsert(e) PROVE TypeOK'
  BY <1>2 DEF EnqueueInsert, runVars
<1>3. ASSUME NEW e \in Events, EnqueueConflict(e) PROVE TypeOK'
  BY <1>3 DEF EnqueueConflict, rowVars, runVars
<1>4. ASSUME NEW e \in Events, NEW r \in Runs, StartRun(e, r) PROVE TypeOK'
  BY <1>4 DEF StartRun
<1>5. ASSUME NEW e \in Events, NEW o \in Closed, Settle(e, o) PROVE TypeOK'
  BY <1>5 DEF Settle, HandlerEnds
<1>6. ASSUME NEW e \in Events, HandlerFails(e) PROVE TypeOK'
  BY <1>6 DEF HandlerFails, rowVars, runVars
<1>7. ASSUME NEW e \in Events, ReleaseClaim(e) PROVE TypeOK'
  BY <1>7 DEF ReleaseClaim
<1>8. ASSUME NEW a \in Agents, RetireAgent(a) PROVE TypeOK'
  BY <1>8 DEF RetireAgent, rowVars, runVars, taskVars
<1>9. CASE ClaimDueEvents
  BY <1>9 DEF ClaimDueEvents
<1>10. CASE DrainFails \/ StopDispatcher
  BY <1>10 DEF DrainFails, StopDispatcher, rowVars, runVars
<1>11. CASE Restart
  BY <1>11 DEF Restart, rowVars, runVars
<1>12. CASE Tick
  BY <1>12 DEF Tick, rowVars, runVars, taskVars
<1>13. CASE UNCHANGED vars
  BY <1>13 DEF vars
<1> QED
  BY <1>1, <1>2, <1>3, <1>4, <1>5, <1>6, <1>7, <1>8, <1>9, <1>10, <1>11, <1>12, <1>13
     DEF Next, CompleteEvent, IgnoreEvent

\* Every value of every variable has its type.
THEOREM TypeCorrect == Spec => []TypeOK
BY TypeInit, TypeNext, PTL DEF Spec

-----------------------------------------------------------------------------
LEMMA IInvInit == Init => IInv
<1> SUFFICES ASSUME Init PROVE IInv
  OBVIOUS
<1> USE ConstantsAssumption DEF Init
<1>1. HandlersDoNotCompete
  <2>1. {e \in Events : handler[e] # NoTask} = {}
    OBVIOUS
  <2>2. Cardinality({e \in Events : handler[e] # NoTask}) = 0
    BY <2>1, FS_EmptySet
  <2>3. Limit \in Nat
    OBVIOUS
  <2>4. \A e \in Events : handler[e] = NoTask
    OBVIOUS
  <2> HIDE ConstantsAssumption DEF Init
  <2> QED
    BY <2>2, <2>3, <2>4 DEF HandlersDoNotCompete
<1> QED
  BY <1>1, TypeInit
     DEF IInv, OneOpenPerKey, OneRunningRunPerAgent, ClaimHasLease, RunningRunIsClaimed,
         HandlerOwnsClaim, NoRunBeforeClaim, CheckedIsAbsent, ClaimedRunRuns,
         QueuedTargetFree, IdleHasNoHandlers, Open

\* Handlers that only end, or stay, go on not competing.
LEMMA FewerHandlers ==
    ASSUME HandlersDoNotCompete,
           \A e \in Events : handler'[e] # NoTask => handler[e] # NoTask /\ lane'[e] = lane[e]
    PROVE  HandlersDoNotCompete'
<1> DEFINE H == {e \in Events : handler[e] # NoTask}
<1>1. IsFiniteSet(H)
  BY FS_Subset, ConstantsAssumption
<1>2. H' \subseteq H
  OBVIOUS
<1>3. IsFiniteSet(H') /\ Cardinality(H') \in Nat /\ Cardinality(H) \in Nat
      /\ Cardinality(H') <= Cardinality(H)
  BY <1>1, <1>2, FS_Subset, FS_CardinalityType
<1>4. Cardinality(H') <= Limit
  BY <1>3, ConstantsAssumption DEF HandlersDoNotCompete
<1> QED
  BY <1>4 DEF HandlersDoNotCompete, Conflict

\* Steps of a request change at most the row they insert.
LEMMA RequestSteps ==
    ASSUME IInv, TypeOK', NEW e \in Events,
           EnqueueCheck(e) \/ EnqueueInsert(e) \/ EnqueueConflict(e)
    PROVE  IInv'
<1>1. HandlersDoNotCompete'
  <2>1. \A f \in Events : handler'[f] # NoTask => handler[f] # NoTask /\ lane'[f] = lane[f]
    BY DEF IInv, TypeOK, EnqueueCheck, EnqueueInsert, EnqueueConflict, rowVars,
           CheckedIsAbsent, HandlerOwnsClaim
  <2> QED
    BY <2>1, FewerHandlers DEF IInv
<1>2. OneOpenPerKey'
  BY DEF IInv, TypeOK, EnqueueCheck, EnqueueInsert, EnqueueConflict, rowVars,
         OneOpenPerKey, KeyIsOpen, Open
<1>3. ClaimHasLease' /\ NoRunBeforeClaim' /\ CheckedIsAbsent' /\ ClaimedRunRuns'
  BY DEF IInv, TypeOK, EnqueueCheck, EnqueueInsert, EnqueueConflict, rowVars, runVars,
         ClaimHasLease, NoRunBeforeClaim, CheckedIsAbsent, ClaimedRunRuns
<1>4. RunningRunIsClaimed' /\ HandlerOwnsClaim'
  BY DEF IInv, TypeOK, EnqueueCheck, EnqueueInsert, EnqueueConflict, rowVars, runVars,
         RunningRunIsClaimed, HandlerOwnsClaim, CheckedIsAbsent
<1> QED
  BY <1>1, <1>2, <1>3, <1>4
     DEF IInv, EnqueueCheck, EnqueueInsert, EnqueueConflict, rowVars, runVars,
         OneRunningRunPerAgent, QueuedTargetFree, IdleHasNoHandlers

LEMMA StartRunStep ==
    ASSUME IInv, TypeOK', NEW e \in Events, NEW r \in Runs, StartRun(e, r)
    PROVE  IInv'
<1> USE ConstantsAssumption
<1>0. /\ status[e] = "claimed"
      /\ handler[e] = Queued
      /\ claimedRun[e] = NoRun
      /\ \A q \in Runs : runStatus[q] = "running" => q # r /\ runEvent[q] # e
  BY DEF IInv, StartRun, HandlerOwnsClaim, RunningRunIsClaimed, QueuedTargetFree, TypeOK
<1>1. HandlersDoNotCompete'
  BY FewerHandlers DEF IInv, StartRun, TypeOK
<1>2. OneRunningRunPerAgent'
  BY <1>0 DEF IInv, StartRun, TypeOK, OneRunningRunPerAgent, QueuedTargetFree
<1>3. RunningRunIsClaimed' /\ ClaimedRunRuns'
  BY <1>0 DEF IInv, StartRun, TypeOK, RunningRunIsClaimed, ClaimedRunRuns
<1>4. HandlerOwnsClaim'
  BY <1>0 DEF IInv, StartRun, TypeOK, HandlerOwnsClaim, RunningRunIsClaimed
<1>5. QueuedTargetFree'
  BY <1>0 DEF IInv, StartRun, TypeOK, QueuedTargetFree, HandlersDoNotCompete, Conflict
<1>6. NoRunBeforeClaim' /\ IdleHasNoHandlers'
  BY <1>0 DEF IInv, StartRun, TypeOK, NoRunBeforeClaim, IdleHasNoHandlers, Alive
<1> QED
  BY <1>1, <1>2, <1>3, <1>4, <1>5, <1>6
     DEF IInv, StartRun, OneOpenPerKey, ClaimHasLease, CheckedIsAbsent

LEMMA SettleStep ==
    ASSUME IInv, TypeOK', NEW e \in Events, NEW o \in Closed, Settle(e, o)
    PROVE  IInv'
<1> USE ConstantsAssumption DEF Closed
<1>0. /\ status[e] = "claimed"
      /\ claimedRun[e] = handler[e]
      /\ runStatus[handler[e]] = "running"
      /\ runEvent[handler[e]] = e
  BY DEF IInv, Settle, HandlerOwnsClaim, ClaimedRunRuns, TypeOK
<1>1. HandlersDoNotCompete'
  BY FewerHandlers DEF IInv, Settle, HandlerEnds, TypeOK
<1>2. OneRunningRunPerAgent' /\ QueuedTargetFree'
  BY <1>0 DEF IInv, Settle, HandlerEnds, TypeOK, OneRunningRunPerAgent, QueuedTargetFree
<1>3. RunningRunIsClaimed' /\ ClaimedRunRuns'
  BY <1>0 DEF IInv, Settle, TypeOK, RunningRunIsClaimed, ClaimedRunRuns
<1>4. HandlerOwnsClaim'
  BY <1>0 DEF IInv, Settle, HandlerEnds, TypeOK, HandlerOwnsClaim, ClaimedRunRuns
<1>5. IdleHasNoHandlers'
  BY DEF IInv, Settle, HandlerEnds, TypeOK, IdleHasNoHandlers, Alive
<1>6. OneOpenPerKey' /\ ClaimHasLease' /\ CheckedIsAbsent' /\ NoRunBeforeClaim'
  BY <1>0 DEF IInv, Settle, TypeOK, OneOpenPerKey, ClaimHasLease, CheckedIsAbsent,
              NoRunBeforeClaim, Open
<1> QED
  BY <1>1, <1>2, <1>3, <1>4, <1>5, <1>6 DEF IInv

LEMMA HandlerFailsStep ==
    ASSUME IInv, TypeOK', NEW e \in Events, HandlerFails(e)
    PROVE  IInv'
<1>1. HandlersDoNotCompete'
  BY FewerHandlers DEF IInv, HandlerFails, TypeOK, rowVars
<1> QED
  BY <1>1, ConstantsAssumption
     DEF IInv, HandlerFails, rowVars, runVars, TypeOK, OneOpenPerKey, OneRunningRunPerAgent,
         ClaimHasLease, RunningRunIsClaimed, HandlerOwnsClaim, NoRunBeforeClaim,
         CheckedIsAbsent, ClaimedRunRuns, QueuedTargetFree, IdleHasNoHandlers

LEMMA ReleaseStep ==
    ASSUME IInv, TypeOK', NEW e \in Events, ReleaseClaim(e)
    PROVE  IInv'
<1> USE ConstantsAssumption
<1>0. status[e] = "claimed"
  BY DEF IInv, ReleaseClaim, HandlerOwnsClaim
<1>1. HandlersDoNotCompete'
  BY FewerHandlers DEF IInv, ReleaseClaim, TypeOK
<1>2. OneRunningRunPerAgent' /\ QueuedTargetFree' /\ IdleHasNoHandlers'
  BY DEF IInv, ReleaseClaim, TypeOK, OneRunningRunPerAgent, QueuedTargetFree,
         IdleHasNoHandlers
<1>3. RunningRunIsClaimed' /\ ClaimedRunRuns'
  BY <1>0 DEF IInv, ReleaseClaim, TypeOK, RunningRunIsClaimed, ClaimedRunRuns
<1>4. HandlerOwnsClaim'
  BY <1>0 DEF IInv, ReleaseClaim, TypeOK, HandlerOwnsClaim, ClaimedRunRuns
<1>5. OneOpenPerKey' /\ ClaimHasLease' /\ CheckedIsAbsent' /\ NoRunBeforeClaim'
  BY <1>0 DEF IInv, ReleaseClaim, TypeOK, OneOpenPerKey, ClaimHasLease, CheckedIsAbsent,
              NoRunBeforeClaim, Open
<1> QED
  BY <1>1, <1>2, <1>3, <1>4, <1>5 DEF IInv

LEMMA RestartStep ==
    ASSUME IInv, TypeOK', Restart
    PROVE  IInv'
<1>1. HandlersDoNotCompete'
  BY FewerHandlers DEF IInv, Restart, TypeOK, rowVars
<1> QED
  BY <1>1, ConstantsAssumption
     DEF IInv, Restart, rowVars, runVars, TypeOK, OneOpenPerKey, OneRunningRunPerAgent,
         ClaimHasLease, RunningRunIsClaimed, HandlerOwnsClaim, NoRunBeforeClaim,
         CheckedIsAbsent, ClaimedRunRuns, QueuedTargetFree, IdleHasNoHandlers

\* Steps that leave rows, runs and handlers alone.
LEMMA OtherSteps ==
    ASSUME IInv, TypeOK',
           \/ \E a \in Agents : RetireAgent(a)
           \/ DrainFails \/ StopDispatcher \/ Tick \/ UNCHANGED vars
    PROVE  IInv'
<1>1. /\ UNCHANGED <<rowVars, runVars, request, handler>>
      /\ disp' = "idle" => disp = "idle"
  BY DEF RetireAgent, DrainFails, StopDispatcher, Tick, vars, rowVars, runVars, taskVars
<1>2. HandlersDoNotCompete'
  BY <1>1, FewerHandlers DEF IInv, rowVars
<1> QED
  BY <1>1, <1>2
     DEF IInv, rowVars, runVars, OneOpenPerKey, OneRunningRunPerAgent, ClaimHasLease,
         RunningRunIsClaimed, HandlerOwnsClaim, NoRunBeforeClaim, CheckedIsAbsent,
         ClaimedRunRuns, QueuedTargetFree, IdleHasNoHandlers

-----------------------------------------------------------------------------
\* The duplicate branch of claim_due_events never fires: the index did its work.
LEMMA NoDuplicates == IInv => Duplicates = {}
<1> SUFFICES ASSUME IInv, NEW e \in Duplicates PROVE FALSE
  OBVIOUS
<1>1. PICK d \in DueRows : Key[d] = Key[e] /\ due[d] < due[e]
  BY DEF Duplicates
<1>2. d # e /\ {status[d], status[e]} \subseteq Open /\ d \in Events /\ e \in Events
  BY <1>1 DEF Duplicates, DueRows, Stale, Open, IInv, TypeOK
<1> QED
  BY <1>1, <1>2 DEF IInv, OneOpenPerKey, Duplicates

\* Recovery ends exactly the running runs of the rows whose lease has expired.
LEMMA AbandonedAreStale ==
    ASSUME IInv, NEW r \in Runs, runStatus[r] = "running"
    PROVE  r \in AbandonedRuns <=> runEvent[r] \in Stale
BY DEF IInv, AbandonedRuns, Abandoned, Stale, RunningRunIsClaimed, ClaimedRunRuns, TypeOK

LEMMA ClaimStep ==
    ASSUME IInv, TypeOK', ClaimDueEvents
    PROVE  IInv'
<1> USE ConstantsAssumption
<1>1. PICK C \in ClaimableSets :
        /\ status' = [e \in Events |-> IF e \in C THEN "claimed"
                                       ELSE IF e \in Duplicates THEN "ignored"
                                       ELSE IF e \in Stale THEN "pending"
                                       ELSE status[e]]
        /\ lease' = [e \in Events |-> IF e \in C THEN now + LeaseTime
                                      ELSE IF e \in Stale THEN NoLease
                                      ELSE lease[e]]
        /\ handler' = [e \in Events |-> IF e \in C THEN Queued ELSE handler[e]]
        /\ disp' = IF C = {} THEN "idle" ELSE "gather"
  BY DEF ClaimDueEvents
<1>2. /\ C \subseteq DueRows
      /\ Cardinality(C) <= Limit
      /\ \A e \in C : ~Busy(Target[e])
      /\ \A e, f \in C : e # f => ~Conflict(e, f)
  BY DEF ClaimableSets
<1>3. \A e \in Events : handler[e] = NoTask
  BY DEF IInv, IdleHasNoHandlers, ClaimDueEvents
<1>4. Duplicates = {}
  BY NoDuplicates
<1>5. \A e \in Events : /\ status'[e] = "claimed" /\ e \notin C <=>
                            status[e] = "claimed" /\ e \notin Stale /\ e \notin C
                        /\ e \in Stale => status[e] = "claimed"
                        /\ e \in C => status[e] \in Open /\ claimedRun'[e] = NoRun
  BY <1>1, <1>2, <1>4 DEF ClaimDueEvents, DueRows, Stale, Open, IInv, NoRunBeforeClaim, TypeOK
<1>6. \A r \in Runs : runStatus'[r] = "running" <=>
                        runStatus[r] = "running" /\ runEvent[r] \notin Stale
  BY AbandonedAreStale DEF ClaimDueEvents
<1>7. HandlersDoNotCompete'
  <2>1. {e \in Events : handler'[e] # NoTask} = C
    BY <1>1, <1>2, <1>3 DEF DueRows
  <2>2. Cardinality({e \in Events : handler'[e] # NoTask}) <= Limit
    BY <2>1, <1>2
  <2> QED
    BY <2>1, <2>2, <1>2 DEF HandlersDoNotCompete, Conflict, ClaimDueEvents
<1>8. RunningRunIsClaimed'
  <2> SUFFICES ASSUME NEW r \in Runs, runStatus'[r] = "running"
               PROVE  /\ runEvent[r] \in Events
                      /\ status'[runEvent[r]] = "claimed"
                      /\ claimedRun'[runEvent[r]] = r
    BY DEF RunningRunIsClaimed, ClaimDueEvents
  <2>1. /\ runEvent[r] \in Events \ Stale
        /\ status[runEvent[r]] = "claimed"
        /\ claimedRun[runEvent[r]] = r
    BY <1>6 DEF IInv, RunningRunIsClaimed
  <2> QED
    BY <2>1, <1>1, <1>4 DEF ClaimDueEvents
<1>9. OneRunningRunPerAgent'
  BY <1>6 DEF IInv, OneRunningRunPerAgent, ClaimDueEvents
<1>10. ClaimedRunRuns'
  <2> SUFFICES ASSUME NEW e \in Events, status'[e] = "claimed", claimedRun'[e] # NoRun
               PROVE  /\ runStatus'[claimedRun'[e]] = "running"
                      /\ runEvent[claimedRun'[e]] = e
    BY DEF ClaimedRunRuns, ClaimDueEvents
  <2>1. e \notin C /\ e \notin Stale /\ status[e] = "claimed" /\ claimedRun'[e] = claimedRun[e]
    BY <1>5 DEF ClaimDueEvents
  <2>2. claimedRun[e] \in Runs
    BY <2>1 DEF IInv, TypeOK
  <2> QED
    BY <2>1, <2>2, <1>6 DEF IInv, ClaimedRunRuns
<1>11. HandlerOwnsClaim'
  BY <1>1, <1>3, <1>5 DEF HandlerOwnsClaim
<1>12. QueuedTargetFree'
  BY <1>1, <1>2, <1>3, <1>6, AbandonedAreStale
     DEF QueuedTargetFree, Busy, ClaimDueEvents
<1>13. ClaimHasLease'
  BY <1>1, <1>2, <1>4, <1>5 DEF IInv, ClaimHasLease, TypeOK
<1>14. OneOpenPerKey'
  <2>1. \A e \in Events : status'[e] \in Open => status[e] \in Open
    BY <1>1, <1>4, <1>5 DEF Open
  <2> QED
    BY <2>1 DEF IInv, OneOpenPerKey
<1>15. NoRunBeforeClaim'
  BY <1>1, <1>4 DEF IInv, NoRunBeforeClaim, ClaimDueEvents, TypeOK
<1>16. CheckedIsAbsent'
  BY <1>1, <1>4, <1>5 DEF IInv, CheckedIsAbsent, ClaimDueEvents, Open
<1>17. IdleHasNoHandlers'
  BY <1>1, <1>3 DEF IdleHasNoHandlers
<1> QED
  BY <1>7, <1>8, <1>9, <1>10, <1>11, <1>12, <1>13, <1>14, <1>15, <1>16, <1>17 DEF IInv

LEMMA IInvNext == IInv /\ [Next]_vars => IInv'
<1> SUFFICES ASSUME IInv, [Next]_vars PROVE IInv'
  OBVIOUS
<1>1. TypeOK'
  BY TypeNext DEF IInv
<1> QED
  BY <1>1, RequestSteps, StartRunStep, SettleStep, HandlerFailsStep, ReleaseStep, RestartStep,
     OtherSteps, ClaimStep
     DEF Next, CompleteEvent, IgnoreEvent, Closed

\* The inductive invariant holds in every state.
THEOREM Invariance == Spec => []IInv
BY IInvInit, IInvNext, PTL DEF Spec

\* Two open rows never share a dedupe key.
THEOREM Dedupe == Spec => []OneOpenPerKey
<1>1. IInv => OneOpenPerKey
  BY DEF IInv
<1> QED
  BY <1>1, Invariance, PTL

\* A teammate never has two running runs.
THEOREM OneRunEach == Spec => []OneRunningRunPerAgent
<1>1. IInv => OneRunningRunPerAgent
  BY DEF IInv
<1> QED
  BY <1>1, Invariance, PTL

\* Both together, as the run checks them.
THEOREM NothingTwice == Spec => []NothingIsDoneTwice
BY Dedupe, OneRunEach, PTL DEF NothingIsDoneTwice

\* A claim is recoverable, and so is every orphaned run.
THEOREM Recoverable == Spec => []OrphansAreRecoverable
<1>1. IInv => OrphansAreRecoverable
  BY DEF IInv, OrphansAreRecoverable
<1> QED
  BY <1>1, Invariance, PTL

\* A live handler owns its row and its run, and competes with no other handler.
THEOREM Exclusive == Spec => []HandlersAreExclusive
<1>1. IInv => HandlersAreExclusive
  BY DEF IInv, HandlersAreExclusive
<1> QED
  BY <1>1, Invariance, PTL

-----------------------------------------------------------------------------
LEMMA ShownNext == IInv /\ ShownRunningIsRunning /\ [Next]_vars => ShownRunningIsRunning'
<1> SUFFICES ASSUME IInv, ShownRunningIsRunning, [Next]_vars,
                    NEW a \in Agents, agentStatus'[a] = "running"
             PROVE  \E r \in Runs : runStatus'[r] = "running" /\ Target[runEvent'[r]] = a
  BY DEF ShownRunningIsRunning
<1> USE ConstantsAssumption DEF IInv, TypeOK
<1>1. ASSUME NEW e \in Events, NEW q \in Runs, StartRun(e, q)
      PROVE  \E r \in Runs : runStatus'[r] = "running" /\ Target[runEvent'[r]] = a
  <2>1. CASE Target[e] = a
    BY <1>1, <2>1 DEF StartRun
  <2>2. CASE Target[e] # a
    <3>1. PICK r \in Runs : runStatus[r] = "running" /\ Target[runEvent[r]] = a
      BY <1>1, <2>2 DEF StartRun, ShownRunningIsRunning
    <3> QED
      BY <1>1, <3>1 DEF StartRun
  <2> QED
    BY <2>1, <2>2
<1>2. ASSUME NEW e \in Events, NEW o \in Closed, Settle(e, o)
      PROVE  \E r \in Runs : runStatus'[r] = "running" /\ Target[runEvent'[r]] = a
  <2>1. Target[e] # a /\ agentStatus[a] = "running"
    BY <1>2 DEF Settle
  <2>2. PICK r \in Runs : runStatus[r] = "running" /\ Target[runEvent[r]] = a
    BY <2>1 DEF ShownRunningIsRunning
  <2>3. runEvent[handler[e]] = e
    BY <1>2 DEF Settle, HandlerOwnsClaim, ClaimedRunRuns
  <2> QED
    BY <1>2, <2>1, <2>2, <2>3 DEF Settle
<1>3. ASSUME NEW e \in Events, ReleaseClaim(e)
      PROVE  \E r \in Runs : runStatus'[r] = "running" /\ Target[runEvent'[r]] = a
  <2>1. Target[e] # a /\ agentStatus[a] = "running"
    BY <1>3 DEF ReleaseClaim
  <2>2. PICK r \in Runs : runStatus[r] = "running" /\ Target[runEvent[r]] = a
    BY <2>1 DEF ShownRunningIsRunning
  <2>3. claimedRun[e] \in Runs => runStatus[claimedRun[e]] = "running" /\ runEvent[claimedRun[e]] = e
    BY <1>3 DEF ReleaseClaim, HandlerOwnsClaim, ClaimedRunRuns
  <2> QED
    BY <1>3, <2>1, <2>2, <2>3 DEF ReleaseClaim
<1>4. CASE ClaimDueEvents
  <2>1. agentStatus[a] = "running" /\ \A e \in Stale : Target[e] # a
    BY <1>4 DEF ClaimDueEvents
  <2>2. PICK r \in Runs : runStatus[r] = "running" /\ Target[runEvent[r]] = a
    BY <2>1 DEF ShownRunningIsRunning
  <2>3. r \notin AbandonedRuns
    BY <2>1, <2>2, AbandonedAreStale
  <2> QED
    BY <1>4, <2>2, <2>3 DEF ClaimDueEvents
<1>5. CASE UNCHANGED runVars /\ (agentStatus' = agentStatus \/ \E b \in Agents : RetireAgent(b))
  <2>1. agentStatus[a] = "running"
    BY <1>5 DEF RetireAgent
  <2> QED
    BY <1>5, <2>1 DEF ShownRunningIsRunning, runVars
<1>6. ASSUME NEW e \in Events, EnqueueCheck(e) \/ EnqueueInsert(e) \/ EnqueueConflict(e)
      PROVE  UNCHANGED runVars /\ agentStatus' = agentStatus
  BY <1>6 DEF EnqueueCheck, EnqueueInsert, EnqueueConflict
<1>7. ASSUME NEW e \in Events, HandlerFails(e)
      PROVE  UNCHANGED runVars /\ agentStatus' = agentStatus
  BY <1>7 DEF HandlerFails
<1>8. ASSUME DrainFails \/ StopDispatcher \/ Restart \/ Tick \/ UNCHANGED vars
      PROVE  UNCHANGED runVars /\ agentStatus' = agentStatus
  BY <1>8 DEF DrainFails, StopDispatcher, Restart, Tick, vars, runVars
<1>9. ASSUME NEW b \in Agents, RetireAgent(b)
      PROVE  UNCHANGED runVars
  BY <1>9 DEF RetireAgent
<1> QED
  BY <1>1, <1>2, <1>3, <1>4, <1>5, <1>6, <1>7, <1>8, <1>9
     DEF Next, CompleteEvent, IgnoreEvent, Closed

\* No teammate is shown running with nothing running.
THEOREM ShownIsTrue == Spec => []ShownRunningIsRunning
<1>1. Init => ShownRunningIsRunning
  BY DEF Init, ShownRunningIsRunning
<1> QED
  BY <1>1, ShownNext, Invariance, PTL DEF Spec

-----------------------------------------------------------------------------
\* Action properties.

LEMMA RowsAndRunsKept ==
    ASSUME [Next]_vars,
           ~ ClaimDueEvents,
           \A e \in Events : /\ ~EnqueueInsert(e)
                             /\ ~CompleteEvent(e)
                             /\ ~IgnoreEvent(e)
                             /\ ~ReleaseClaim(e)
                             /\ \A r \in Runs : ~StartRun(e, r)
    PROVE  UNCHANGED <<status, claimedRun, runStatus>>
BY DEF Next, EnqueueCheck, EnqueueConflict, HandlerFails, RetireAgent, DrainFails,
       StopDispatcher, Restart, Tick, vars, rowVars, runVars, taskVars

LEMMA StepKeepsSettled == IInv /\ [Next]_vars => SettledStays /\ SettledWithRun
<1> SUFFICES ASSUME IInv, [Next]_vars PROVE SettledStays /\ SettledWithRun
  OBVIOUS
<1> USE ConstantsAssumption DEF IInv, TypeOK, SettledStays, SettledWithRun, Open, Closed
<1>1. CASE ClaimDueEvents
  <2>1. Duplicates = {}
    BY NoDuplicates
  <2>2. \A C \in ClaimableSets : \A e \in C : status[e] \in Open
    BY DEF ClaimableSets, DueRows, Stale
  <2>3. \A e \in Stale : status[e] = "claimed"
    BY DEF Stale
  <2>4. \A r \in AbandonedRuns : runStatus[r] = "running"
    BY DEF AbandonedRuns, Abandoned
  <2> QED
    BY <1>1, <2>1, <2>2, <2>3, <2>4 DEF ClaimDueEvents
<1>2. ASSUME NEW e \in Events, EnqueueInsert(e) PROVE SettledStays /\ SettledWithRun
  BY <1>2 DEF EnqueueInsert, CheckedIsAbsent, runVars
<1>3. ASSUME NEW e \in Events, NEW o \in Closed, Settle(e, o)
      PROVE  SettledStays /\ SettledWithRun
  BY <1>3 DEF Settle, HandlerOwnsClaim
<1>4. ASSUME NEW e \in Events, ReleaseClaim(e) PROVE SettledStays /\ SettledWithRun
  BY <1>4 DEF ReleaseClaim, HandlerOwnsClaim
<1>5. ASSUME NEW e \in Events, NEW r \in Runs, StartRun(e, r)
      PROVE  SettledStays /\ SettledWithRun
  BY <1>5 DEF StartRun
<1>6. CASE UNCHANGED <<status, claimedRun, runStatus>>
  BY <1>6
<1> QED
  BY <1>1, <1>2, <1>3, <1>4, <1>5, <1>6, RowsAndRunsKept DEF CompleteEvent, IgnoreEvent

\* Rows are settled once and only by a run of their own, and results stay.
THEOREM SettledByRun == Spec => SettledByItsRun
<1>1. IInv /\ [Next]_vars => [SettledStays /\ SettledWithRun]_vars
  BY StepKeepsSettled
<1> QED
  BY <1>1, Invariance, PTL DEF Spec, SettledByItsRun

-----------------------------------------------------------------------------
\* Refinement of WakePromise.

StageFn == [e \in Events |-> Stage(e)]

LEMMA StageInit == Init => Promise!Init
<1>1. Init => \A e \in Events : Stage(e) = "none"
  BY DEF Init, Stage, Closed
<1> QED
  BY <1>1 DEF Promise!Init

LEMMA StageStep == IInv /\ [Next]_vars => [Promise!Next]_StageFn
<1> SUFFICES ASSUME IInv, [Next]_vars PROVE Promise!Next \/ UNCHANGED StageFn
  OBVIOUS
<1> USE ConstantsAssumption DEF IInv, TypeOK, Stage, StageFn, Open, Closed
<1>1. CASE ClaimDueEvents
  <2> DEFINE S == {e \in Stale : claimedRun[e] # NoRun}
  <2>1. Duplicates = {}
    BY NoDuplicates
  <2>2. \A C \in ClaimableSets : C \subseteq DueRows
    BY DEF ClaimableSets
  <2>3. \A e \in DueRows : status[e] = "pending" \/ e \in Stale
    BY DEF DueRows
  <2>4. \A e \in Stale : e \in Events /\ status[e] = "claimed"
    BY DEF Stale
  <2>5. PICK C \in ClaimableSets :
          status' = [e \in Events |-> IF e \in C THEN "claimed"
                                     ELSE IF e \in Duplicates THEN "ignored"
                                     ELSE IF e \in Stale THEN "pending"
                                     ELSE status[e]]
    BY <1>1 DEF ClaimDueEvents
  <2>6. claimedRun' = [e \in Events |-> IF e \in Stale THEN NoRun ELSE claimedRun[e]]
    BY <1>1 DEF ClaimDueEvents
  <2>7. \A e \in Events : Stage(e)' = IF e \in S THEN "waiting" ELSE Stage(e)
    BY <2>1, <2>2, <2>3, <2>4, <2>5, <2>6 DEF NoRunBeforeClaim
  <2>8. \A e \in S : Stage(e) = "working"
    BY <2>4
  <2>9. S \in SUBSET Events
    BY <2>4
  <2> HIDE DEF Stage, S
  <2>10. Promise!HandBack(S)
    BY <2>7, <2>8, <2>9 DEF Promise!HandBack
  <2> QED
    BY <2>9, <2>10 DEF Promise!Next
<1>2. ASSUME NEW e \in Events, EnqueueInsert(e) PROVE Promise!Submit(e)
  BY <1>2 DEF EnqueueInsert, CheckedIsAbsent, Promise!Submit
<1>3. ASSUME NEW e \in Events, NEW o \in Closed, Settle(e, o) PROVE Promise!Close(e)
  <2>1. Stage(e) = "working"
    BY <1>3 DEF Settle, HandlerOwnsClaim
  <2>2. \A f \in Events : Stage(f)' = IF f = e THEN "closed" ELSE Stage(f)
    BY <1>3 DEF Settle
  <2> HIDE DEF Stage
  <2> QED
    BY <2>1, <2>2 DEF Promise!Close
<1>4. ASSUME NEW e \in Events, ReleaseClaim(e) PROVE Promise!Next \/ UNCHANGED StageFn
  <2>1. CASE claimedRun[e] = NoRun
    BY <1>4, <2>1 DEF ReleaseClaim, HandlerOwnsClaim
  <2>2. CASE claimedRun[e] # NoRun
    <3>1. Promise!HandBack({e})
      BY <1>4, <2>2 DEF ReleaseClaim, HandlerOwnsClaim, Promise!HandBack
    <3> QED
      BY <3>1 DEF Promise!Next
  <2> QED
    BY <2>1, <2>2
<1>5. ASSUME NEW e \in Events, NEW r \in Runs, StartRun(e, r) PROVE Promise!Begin(e)
  <2>1. status[e] = "claimed" /\ claimedRun[e] = NoRun
    BY <1>5 DEF StartRun, HandlerOwnsClaim
  <2>2. \A f \in Events : Stage(f) = "working" => Target[f] # Target[e]
    BY <1>5 DEF StartRun, QueuedTargetFree, ClaimedRunRuns
  <2>3. StageFn' = [StageFn EXCEPT ![e] = "working"]
    BY <1>5, <2>1 DEF StartRun
  <2> QED
    BY <2>1, <2>2, <2>3 DEF Promise!Begin
<1>6. CASE UNCHANGED <<status, claimedRun, runStatus>>
  BY <1>6
<1> QED
  BY <1>1, <1>2, <1>3, <1>4, <1>5, <1>6, RowsAndRunsKept
     DEF CompleteEvent, IgnoreEvent, Promise!Next

\* The queue, with its leases, crashes and recovery, implements WakePromise.
THEOREM Refinement == Spec => KeepsPromise
<1>1. Init => Promise!Init
  BY StageInit
<1>2. IInv /\ [Next]_vars => [Promise!Next]_StageFn
  BY StageStep
<1> QED
  BY <1>1, <1>2, Invariance, PTL DEF Spec, KeepsPromise, Promise!Spec, StageFn
=============================================================================
