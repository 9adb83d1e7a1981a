------------------------------ MODULE WakeQueue ------------------------------
(***************************************************************************)
(* The wake queue of app/services/team.py and the tasks of                 *)
(* app/dispatcher.py that drain it.  A wake event is a row with a due      *)
(* time, a target teammate, an optional dedupe key and a lane; the         *)
(* dispatcher claims due rows under a lease, runs one Hermes profile per   *)
(* claimed row, and settles the row with the result.  Requests insert rows *)
(* concurrently, the process may crash, be cancelled or lose its           *)
(* dispatcher task at any point, and leases hand the work on.              *)
(*                                                                         *)
(* One action is one database transaction, or one step of a task between   *)
(* two of them.  The dispatcher task claims only when every handler of the *)
(* round before has ended, because drain awaits their gather.              *)
(***************************************************************************)
EXTENDS Naturals, FiniteSets

CONSTANTS
    Events,      \* the wake rows that may be inserted
    Agents,      \* the teammates
    Chief,       \* the root teammate, which cannot be retired
    Runs,        \* run identifiers, issued in increasing order
    Keys,        \* dedupe keys
    NoKey,       \* a row with a NULL dedupe_key
    Target,      \* target_id of each row
    Key,         \* dedupe_key of each row
    Lanes,       \* the execution_lane each row may be given: "shared" or "headless"
    Delays,      \* how far in the future the due_at of each row may lie
    Limit,       \* budgets.max_concurrency
    LeaseTime,   \* budgets.wake_lease_seconds
    NoLease,     \* lease_expires_at IS NULL
    NoRun,       \* claimed_run_id IS NULL
    NoTask,      \* no handler task for the row
    Queued,      \* a handler task that has not started its run
    NoEvent,     \* the event of a run that does not exist yet
    MaxCrashes   \* bound: how often the process stops and starts again

ASSUME ConstantsAssumption ==
    /\ IsFiniteSet(Events)
    /\ Chief \in Agents
    /\ Target \in [Events -> Agents]
    /\ Key \in [Events -> Keys \cup {NoKey}]
    /\ NoKey \notin Keys
    /\ Lanes \in [Events -> SUBSET {"shared", "headless"}]
    /\ Runs \subseteq Nat
    /\ Delays \in [Events -> SUBSET Nat]
    /\ Limit \in Nat \ {0}
    /\ LeaseTime \in Nat \ {0}
    /\ NoLease \notin Nat
    /\ NoRun \notin Runs
    /\ {NoTask, Queued} \cap Runs = {}
    /\ NoTask # Queued
    /\ NoEvent \notin Events
    /\ MaxCrashes \in Nat

VARIABLES
    status,       \* status of each row, "absent" before its insertion
    due,          \* due_at of each row
    lane,         \* execution_lane of each row
    lease,        \* lease_expires_at of each row
    claimedRun,   \* claimed_run_id of each row
    runStatus,    \* status of each run, "free" before its insertion
    runEvent,     \* wake_event_id of each run
    agentStatus,  \* status column of each teammate
    retired,      \* whether retired_at is set
    request,      \* the request inserting the row: "idle" or "checked"
    handler,      \* the task of _run_claimed: NoTask, Queued, or its run
    disp,         \* the dispatcher task
    now,          \* the clock
    crashes       \* how often the process went down

rowVars  == <<status, due, lane, lease, claimedRun>>
runVars  == <<runStatus, runEvent>>
taskVars == <<request, handler, disp>>
vars == <<status, due, lane, lease, claimedRun, runStatus, runEvent, agentStatus,
          retired, request, handler, disp, now, crashes>>

Open == {"pending", "claimed"}
Closed == {"done", "ignored"}

Init ==
    /\ status = [e \in Events |-> "absent"]
    /\ due = [e \in Events |-> 0]
    /\ lane = [e \in Events |-> "headless"]
    /\ lease = [e \in Events |-> NoLease]
    /\ claimedRun = [e \in Events |-> NoRun]
    /\ runStatus = [r \in Runs |-> "free"]
    /\ runEvent = [r \in Runs |-> NoEvent]
    /\ agentStatus = [a \in Agents |-> "idle"]
    /\ retired = [a \in Agents |-> FALSE]
    /\ request = [e \in Events |-> "idle"]
    /\ handler = [e \in Events |-> NoTask]
    /\ disp = "idle"
    /\ now = 0
    /\ crashes = 0

-----------------------------------------------------------------------------
\* Requests: enqueue_wake reads without a lock, and the partial unique index
\* decides at the flush.

KeyIsOpen(k) == k # NoKey /\ \E e \in Events : Key[e] = k /\ status[e] \in Open

EnqueueCheck(e) ==
    /\ request[e] = "idle"
    /\ status[e] = "absent"
    /\ ~retired[Target[e]]
    /\ ~KeyIsOpen(Key[e])
    /\ request' = [request EXCEPT ![e] = "checked"]
    /\ UNCHANGED <<rowVars, runVars, agentStatus, retired, handler, disp, now, crashes>>

\* Mutant: no unique index.
InsertUnindexed(e) ==
    /\ request[e] = "checked"
    /\ \E d \in Delays[e] : due' = [due EXCEPT ![e] = now + d]
    /\ \E l \in Lanes[e] : lane' = [lane EXCEPT ![e] = l]
    /\ status' = [status EXCEPT ![e] = "pending"]
    /\ request' = [request EXCEPT ![e] = "idle"]
    /\ UNCHANGED <<lease, claimedRun, runVars, agentStatus, retired, handler, disp,
                   now, crashes>>

EnqueueInsert(e) ==
    /\ request[e] = "checked"
    /\ ~KeyIsOpen(Key[e])
    /\ \E d \in Delays[e] : due' = [due EXCEPT ![e] = now + d]
    /\ \E l \in Lanes[e] : lane' = [lane EXCEPT ![e] = l]
    /\ status' = [status EXCEPT ![e] = "pending"]
    /\ request' = [request EXCEPT ![e] = "idle"]
    /\ UNCHANGED <<lease, claimedRun, runVars, agentStatus, retired, handler, disp,
                   now, crashes>>

\* The index rejects the row: the request's transaction is rolled back.
EnqueueConflict(e) ==
    /\ request[e] = "checked"
    /\ KeyIsOpen(Key[e])
    /\ request' = [request EXCEPT ![e] = "idle"]
    /\ UNCHANGED <<rowVars, runVars, agentStatus, retired, handler, disp, now, crashes>>

RetireAgent(a) ==
    /\ a # Chief
    /\ ~retired[a]
    /\ retired' = [retired EXCEPT ![a] = TRUE]
    /\ agentStatus' = [agentStatus EXCEPT ![a] = "retired"]
    /\ UNCHANGED <<rowVars, runVars, taskVars, now, crashes>>

-----------------------------------------------------------------------------
\* claim_due_events: expired leases are recovered, then due rows are taken in
\* due order, at most one per target and at most one of the shared lane.

\* Mutant: recovery that asks for a run.
StaleWithRun == {e \in Events : /\ status[e] = "claimed"
                               /\ claimedRun[e] # NoRun
                               /\ lease[e] <= now}

Stale == {e \in Events : /\ status[e] = "claimed"
                         /\ lease[e] # NoLease
                         /\ lease[e] <= now}

\* Mutant: recovery that forgets the run.
AbandonedNone(e) == {}

Abandoned(e) ==
    IF claimedRun[e] # NoRun
      THEN {r \in Runs : r = claimedRun[e] /\ runStatus[r] = "running"}
      ELSE {r \in Runs : runEvent[r] = e /\ runStatus[r] = "running"}

AbandonedRuns == UNION {Abandoned(e) : e \in Stale}

DueRows == {e \in Events : /\ status[e] = "pending" \/ e \in Stale
                           /\ due[e] <= now}

Duplicates == {e \in DueRows : /\ Key[e] # NoKey
                               /\ \E d \in DueRows : Key[d] = Key[e] /\ due[d] < due[e]}

\* Mutant: no look at the running runs.
BusyUnchecked(a) == FALSE

Busy(a) == \E r \in Runs \ AbandonedRuns :
             runStatus[r] = "running" /\ Target[runEvent[r]] = a

Conflict(e, f) ==
    \/ Target[e] = Target[f]
    \/ lane[e] = "shared" /\ lane[f] = "shared"

\* Which sets of rows one pass of the loop can claim, for some order of the
\* rows that are due at the same time.
ClaimableSets ==
    {C \in SUBSET (DueRows \ Duplicates) :
        /\ Cardinality(C) <= Limit
        /\ \A e \in C : ~Busy(Target[e])
        /\ \A e, f \in C : e # f => ~Conflict(e, f)
        /\ \A e \in DueRows \ (Duplicates \cup C) :
              \/ Busy(Target[e])
              \/ \E f \in C : due[f] <= due[e] /\ Conflict(e, f)
              \/ Cardinality({f \in C : due[f] <= due[e]}) = Limit}

ClaimDueEvents ==
    /\ disp = "idle"
    /\ \E C \in ClaimableSets :
         /\ status' = [e \in Events |-> IF e \in C THEN "claimed"
                                        ELSE IF e \in Duplicates THEN "ignored"
                                        ELSE IF e \in Stale THEN "pending"
                                        ELSE status[e]]
         /\ lease' = [e \in Events |-> IF e \in C THEN now + LeaseTime
                                       ELSE IF e \in Stale THEN NoLease
                                       ELSE lease[e]]
         /\ handler' = [e \in Events |-> IF e \in C THEN Queued ELSE handler[e]]
         /\ disp' = IF C = {} THEN "idle" ELSE "gather"
    /\ claimedRun' = [e \in Events |-> IF e \in Stale THEN NoRun ELSE claimedRun[e]]
    /\ runStatus' = [r \in Runs |-> IF r \in AbandonedRuns THEN "error" ELSE runStatus[r]]
    /\ agentStatus' = [a \in Agents |-> IF \E e \in Stale : Target[e] = a
                                        THEN "idle" ELSE agentStatus[a]]
    /\ UNCHANGED <<due, lane, runEvent, retired, request, now, crashes>>

-----------------------------------------------------------------------------
\* The handlers of one round: one _run_claimed task per claimed row.

Alive == disp \in {"gather", "dead"}

LaneFree(e) ==
    lane[e] = "shared" => \A f \in Events : lane[f] = "shared" => handler[f] \notin Runs

StartRun(e, r) ==
    /\ Alive
    /\ handler[e] = Queued
    /\ LaneFree(e)
    /\ runStatus[r] = "free"
    /\ \A q \in Runs : q < r => runStatus[q] # "free"
    /\ runStatus' = [runStatus EXCEPT ![r] = "running"]
    /\ runEvent' = [runEvent EXCEPT ![r] = e]
    /\ claimedRun' = [claimedRun EXCEPT ![e] = r]
    /\ agentStatus' = [agentStatus EXCEPT ![Target[e]] = "running"]
    /\ handler' = [handler EXCEPT ![e] = r]
    /\ UNCHANGED <<status, due, lane, lease, retired, request, disp, now, crashes>>

\* Mutant: drain goes on after the first handler.
HandlerEndsFirst(e) ==
    /\ handler' = [handler EXCEPT ![e] = NoTask]
    /\ disp' = IF disp = "gather" THEN "idle" ELSE disp

\* The task of row e ends; the gather ends with the last of them.
HandlerEnds(e) ==
    /\ handler' = [handler EXCEPT ![e] = NoTask]
    /\ disp' = IF disp = "gather" /\ \A f \in Events \ {e} : handler[f] = NoTask
               THEN "idle" ELSE disp

Settle(e, outcome) ==
    /\ Alive
    /\ handler[e] \in Runs
    /\ status' = [status EXCEPT ![e] = outcome]
    /\ lease' = [lease EXCEPT ![e] = NoLease]
    /\ runStatus' = [runStatus EXCEPT ![handler[e]] = outcome]
    /\ agentStatus' = [agentStatus EXCEPT ![Target[e]] = "idle"]
    /\ HandlerEnds(e)
    /\ UNCHANGED <<due, lane, claimedRun, runEvent, retired, request, now, crashes>>

\* Mutant: a status no query knows.
CompleteUnknown(e) == Settle(e, "complete")

CompleteEvent(e) == Settle(e, "done")
IgnoreEvent(e) == Settle(e, "ignored")

-----------------------------------------------------------------------------
\* What goes wrong: a statement that raises (a locked database, a retired
\* target), cancellation at shutdown, and the end of the process.

\* Mutant: a failed handler drops its row.
HandlerDrops(e) ==
    /\ Alive
    /\ handler[e] # NoTask
    /\ handler' = [handler EXCEPT ![e] = NoTask]
    /\ status' = [status EXCEPT ![e] = "ignored"]
    /\ disp' = "dead"
    /\ UNCHANGED <<due, lane, lease, claimedRun, runVars, agentStatus, retired, request, now, crashes>>

\* An exception of one handler leaves through gather, drain and run_forever.
\* The other handlers run on; nothing starts the dispatcher task again.
HandlerFails(e) ==
    /\ Alive
    /\ handler[e] # NoTask
    /\ handler' = [handler EXCEPT ![e] = NoTask]
    /\ disp' = "dead"
    /\ UNCHANGED <<rowVars, runVars, agentStatus, retired, request, now, crashes>>

DrainFails ==
    /\ disp = "idle"
    /\ disp' = "dead"
    /\ UNCHANGED <<rowVars, runVars, agentStatus, retired, request, handler, now, crashes>>

StopDispatcher ==
    /\ disp \in {"idle", "gather"}
    /\ crashes < MaxCrashes
    /\ disp' = "stopping"
    /\ UNCHANGED <<rowVars, runVars, agentStatus, retired, request, handler, now, crashes>>

ReleaseClaim(e) ==
    /\ disp = "stopping"
    /\ handler[e] # NoTask
    /\ status' = [status EXCEPT ![e] = "pending"]
    /\ lease' = [lease EXCEPT ![e] = NoLease]
    /\ claimedRun' = [claimedRun EXCEPT ![e] = NoRun]
    /\ runStatus' = [r \in Runs |-> IF r = claimedRun[e] /\ runStatus[r] = "running"
                                    THEN "cancelled" ELSE runStatus[r]]
    /\ agentStatus' = [agentStatus EXCEPT ![Target[e]] = "idle"]
    /\ handler' = [handler EXCEPT ![e] = NoTask]
    /\ UNCHANGED <<due, lane, runEvent, retired, request, disp, now, crashes>>

\* The process ends, at any point, and starts again on the same database.
Restart ==
    /\ crashes < MaxCrashes
    /\ crashes' = crashes + 1
    /\ disp' = "idle"
    /\ handler' = [e \in Events |-> NoTask]
    /\ request' = [e \in Events |-> "idle"]
    /\ UNCHANGED <<rowVars, runVars, agentStatus, retired, now>>

\* Time passes as long as some deadline lies ahead.
Tick ==
    /\ \E e \in Events : \/ status[e] = "pending" /\ due[e] > now
                         \/ lease[e] # NoLease /\ lease[e] > now
    /\ now' = now + 1
    /\ UNCHANGED <<rowVars, runVars, agentStatus, retired, taskVars, crashes>>

-----------------------------------------------------------------------------
Next ==
    \/ \E e \in Events : \/ EnqueueCheck(e)
                         \/ EnqueueInsert(e)
                         \/ EnqueueConflict(e)
                         \/ \E r \in Runs : StartRun(e, r)
                         \/ CompleteEvent(e)
                         \/ IgnoreEvent(e)
                         \/ HandlerFails(e)
                         \/ ReleaseClaim(e)
    \/ \E a \in Agents : RetireAgent(a)
    \/ ClaimDueEvents
    \/ DrainFails
    \/ StopDispatcher
    \/ Restart
    \/ Tick

Spec == Init /\ [][Next]_vars

\* The dispatcher task loops, a handler starts its run, and a run ends because
\* Hermes is stopped at its timeout; the clock advances.
Fairness ==
    /\ WF_vars(ClaimDueEvents)
    /\ WF_vars(Tick)
    /\ WF_vars(\E e \in Events, r \in Runs : StartRun(e, r))
    /\ WF_vars(\E e \in Events : CompleteEvent(e) \/ IgnoreEvent(e))

LiveSpec == Spec /\ Fairness

-----------------------------------------------------------------------------
\* Properties.

TypeOK ==
    /\ status \in [Events -> {"absent"} \cup Open \cup Closed]
    /\ due \in [Events -> Nat]
    /\ lane \in [Events -> {"shared", "headless"}]
    /\ lease \in [Events -> Nat \cup {NoLease}]
    /\ claimedRun \in [Events -> Runs \cup {NoRun}]
    /\ runStatus \in [Runs -> {"free", "running", "done", "ignored", "error", "cancelled"}]
    /\ runEvent \in [Runs -> Events \cup {NoEvent}]
    /\ agentStatus \in [Agents -> {"idle", "running", "retired"}]
    /\ retired \in [Agents -> BOOLEAN]
    /\ request \in [Events -> {"idle", "checked"}]
    /\ handler \in [Events -> {NoTask, Queued} \cup Runs]
    /\ disp \in {"idle", "gather", "dead", "stopping"}
    /\ now \in Nat
    /\ crashes \in Nat

\* Two requests that both looked before either inserted never leave two open
\* rows with one dedupe key (the index ix_wake_dedupe_open under enqueue_wake).
OneOpenPerKey ==
    \A e, f \in Events :
      e # f /\ Key[e] = Key[f] /\ Key[e] # NoKey => ~({status[e], status[f]} \subseteq Open)

\* A teammate never has two running runs, whatever crashed or was recovered in
\* between (_running_count and the one-per-target rule of claim_due_events).
OneRunningRunPerAgent ==
    \A r, q \in Runs :
      /\ r # q
      /\ runStatus[r] = "running"
      /\ runStatus[q] = "running"
      => Target[runEvent[r]] # Target[runEvent[q]]

\* A key has one open wake and a teammate one running run, whatever overlaps,
\* crashes or is recovered.
NothingIsDoneTwice == OneOpenPerKey /\ OneRunningRunPerAgent

\* Exactly the claimed rows carry a lease, and every running run is the current
\* run of a claimed row.  So a claim or a run orphaned by a crash is always
\* reached by the recovery pass of claim_due_events, and cannot keep its
\* teammate busy for ever.
ClaimHasLease == \A e \in Events : status[e] = "claimed" <=> lease[e] # NoLease
RunningRunIsClaimed ==
    \A r \in Runs : runStatus[r] = "running" =>
      /\ runEvent[r] \in Events
      /\ status[runEvent[r]] = "claimed"
      /\ claimedRun[runEvent[r]] = r
OrphansAreRecoverable == ClaimHasLease /\ RunningRunIsClaimed

\* While a handler lives nobody else touches its row or its run, so the unguarded
\* UPDATE of complete_event, ignore_event and release_claim never overwrites a
\* newer state; and the handlers of one round never compete: distinct teammates,
\* one shared lane, at most max_concurrency tasks, so no task waits for a
\* semaphore while its lease runs (Dispatcher._run_claimed).
HandlerOwnsClaim ==
    \A e \in Events :
      /\ handler[e] # NoTask => status[e] = "claimed"
      /\ handler[e] = Queued => claimedRun[e] = NoRun
      /\ handler[e] \in Runs => /\ claimedRun[e] = handler[e]
                                /\ runStatus[handler[e]] = "running"
HandlersDoNotCompete ==
    /\ \A e, f \in Events :
         e # f /\ handler[e] # NoTask /\ handler[f] # NoTask => ~Conflict(e, f)
    /\ Cardinality({e \in Events : handler[e] # NoTask}) <= Limit
HandlersAreExclusive == HandlerOwnsClaim /\ HandlersDoNotCompete

\* The status column says "running" only while the teammate has a running run.
ShownRunningIsRunning ==
    \A a \in Agents : agentStatus[a] = "running" =>
      \E r \in Runs : runStatus[r] = "running" /\ Target[runEvent[r]] = a

\* A row is settled once, by a running run of its own that ends with the same
\* outcome, and keeps it, as a finished run does: no wake is dropped without its
\* teammate having been run, and no late handler overwrites a result.
SettledStays ==
    /\ \A e \in Events : status[e] \in Closed => status'[e] = status[e]
    /\ \A r \in Runs : runStatus[r] \notin {"free", "running"} => runStatus'[r] = runStatus[r]
SettledWithRun ==
    \A e \in Events : status[e] \notin Closed /\ status'[e] \in Closed =>
      /\ claimedRun[e] \in Runs
      /\ runStatus[claimedRun[e]] = "running"
      /\ runStatus'[claimedRun[e]] = status'[e]
SettledByItsRun == [][SettledStays /\ SettledWithRun]_vars

\* Every inserted wake is settled, if from some time on the process is up and its
\* dispatcher task lives.
StaysUp == <>[](disp \in {"idle", "gather"})
WakesAreSettled ==
    StaysUp => \A e \in Events : status[e] = "pending" ~> status[e] \in Closed

\* What a reader of the queue may rely on: WakePromise.  A row is in its
\* teammate's hands from the commit of start_run on.
Stage(e) ==
    CASE status[e] = "absent" -> "none"
      [] status[e] = "pending" -> "waiting"
      [] status[e] = "claimed" /\ claimedRun[e] = NoRun -> "waiting"
      [] status[e] = "claimed" /\ claimedRun[e] # NoRun -> "working"
      [] status[e] \in Closed -> "closed"

Promise == INSTANCE WakePromise WITH
    Wakes <- Events,
    Teammates <- Agents,
    TeammateOf <- Target,
    stage <- [e \in Events |-> Stage(e)]

\* The queue keeps its promise: one wake at a time per teammate, closed once, and
\* only by the run that worked on it.
KeepsPromise == Promise!Spec
=============================================================================
