----------------------------- MODULE DispatchLoop -----------------------------
(***************************************************************************)
(* Dispatcher.run_forever with its NewEventSignal, against requests that   *)
(* insert wake rows in transactions of their own.  A request flushes a row,*)
(* calls signal.notify and commits later; until then it holds SQLite's one *)
(* write lock and its rows are invisible.  The dispatcher reads without a  *)
(* lock, claims under it, awaits its handlers, and sleeps until the        *)
(* earliest deadline it has read or until the signal is set.               *)
(*                                                                         *)
(* What a claim may take in full detail is WakeQueue's matter; here it is  *)
(* any non-empty set of due rows, one per target that is not busy.         *)
(***************************************************************************)
EXTENDS Naturals

CONSTANTS
    Rows,       \* wake rows
    Requests,   \* transactions that insert them
    RequestOf,  \* which request inserts a row
    Target,     \* the teammate a row wakes
    Delays,     \* how far in the future the due_at of each row may lie
    Orphans,    \* rows the last process left claimed, with a running run
    LeaseLeft,  \* when the lease of an orphan ends
    Never,      \* wait(None)
    Free        \* nobody holds the write lock

ASSUME LoopAssumption ==
    /\ RequestOf \in [Rows -> Requests]
    /\ Delays \in [Rows -> SUBSET Nat]
    /\ Orphans \subseteq Rows
    /\ \A v, w \in Orphans : v # w => Target[v] # Target[w]
    /\ LeaseLeft \in Nat
    /\ Never \notin Nat
    /\ Free \notin Requests

VARIABLES
    row,      \* "absent", "written" (uncommitted), "pending", "orphan", "claimed", "done",
              \* "gone" (rolled back)
    at,       \* due_at of a row, the end of the lease of an orphan
    lock,     \* the request holding the write lock
    flag,     \* signal.event
    pc,       \* where run_forever is
    plan,     \* rows read by this round: those to claim, those to recover
    handled,  \* drain has claimed something
    wakeAt,   \* end of the current wait
    now,      \* the clock
    late      \* history: open rows committed while the signal was not set

vars == <<row, at, lock, flag, pc, plan, handled, wakeAt, now, late>>
loopVars == <<pc, plan, handled, wakeAt>>

NoPlan == [claim |-> {}, recover |-> {}]

Init ==
    /\ row = [w \in Rows |-> IF w \in Orphans THEN "orphan" ELSE "absent"]
    /\ at = [w \in Rows |-> IF w \in Orphans THEN LeaseLeft ELSE 0]
    /\ lock = Free
    /\ flag = FALSE
    /\ pc = "drain"
    /\ plan = NoPlan
    /\ handled = FALSE
    /\ wakeAt = Never
    /\ now = 0
    /\ late = {}

-----------------------------------------------------------------------------
\* Requests.

\* enqueue_wake: the flush takes the write lock, then the signal is set.
WriteRow(w) ==
    /\ row[w] = "absent"
    /\ lock \in {Free, RequestOf[w]}
    /\ lock' = RequestOf[w]
    /\ row' = [row EXCEPT ![w] = "written"]
    /\ \E d \in Delays[w] : at' = [at EXCEPT ![w] = now + d]
    /\ flag' = TRUE
    /\ UNCHANGED <<loopVars, now, late>>

WrittenBy(q) == {w \in Rows : row[w] = "written" /\ RequestOf[w] = q}

\* get_team commits when the handler returns; nothing sets the signal here.
Commit(q) ==
    /\ lock = q
    /\ lock' = Free
    /\ row' = [w \in Rows |-> IF w \in WrittenBy(q) THEN "pending" ELSE row[w]]
    /\ late' = IF flag THEN late ELSE late \cup WrittenBy(q)
    /\ UNCHANGED <<at, flag, loopVars, now>>

\* A request that fails leaves nothing; its retry inserts another row.
Rollback(q) ==
    /\ lock = q
    /\ lock' = Free
    /\ row' = [w \in Rows |-> IF w \in WrittenBy(q) THEN "gone" ELSE row[w]]
    /\ UNCHANGED <<at, flag, loopVars, now, late>>

\* create_routine and update_routine set the signal without a wake row.
SignalOnly ==
    /\ flag' = TRUE
    /\ UNCHANGED <<row, at, lock, loopVars, now, late>>

-----------------------------------------------------------------------------
\* drain: one round reads, claims and awaits its handlers.

\* Mutant: leases are never recovered.
StaleNever == {w \in Rows : row[w] = "orphan" /\ at[w] = Never}

StaleOrphans == {w \in Rows : row[w] = "orphan" /\ at[w] <= now}

Ready == {w \in Rows :
            /\ row[w] = "pending" \/ w \in StaleOrphans
            /\ at[w] <= now
            /\ \A v \in Rows \ StaleOrphans : row[v] = "orphan" => Target[v] # Target[w]}

DrainReadsNothing ==
    /\ pc = "drain"
    /\ Ready \cup StaleOrphans = {}
    /\ pc' = IF handled THEN "drain" ELSE "look"
    /\ handled' = FALSE
    /\ UNCHANGED <<row, at, lock, flag, plan, wakeAt, now, late>>

DrainReads ==
    /\ pc = "drain"
    /\ \E C \in SUBSET Ready :
         /\ C # {}
         /\ \A v, w \in C : v # w => Target[v] # Target[w]
         /\ plan' = [claim |-> C, recover |-> StaleOrphans]
    /\ pc' = "claiming"
    /\ UNCHANGED <<row, at, lock, flag, handled, wakeAt, now, late>>

ClaimCommits ==
    /\ pc = "claiming"
    /\ lock = Free
    /\ row' = [w \in Rows |-> IF w \in plan.claim THEN "claimed"
                              ELSE IF w \in plan.recover THEN "pending"
                              ELSE row[w]]
    /\ late' = late \ plan.claim
    /\ plan' = NoPlan
    /\ handled' = TRUE
    /\ pc' = "gather"
    /\ UNCHANGED <<at, lock, flag, wakeAt, now>>

\* Mutant: drain goes on after the first handler.
FirstHandlerEndsRound(w) ==
    /\ pc \in {"gather", "dead"}
    /\ row[w] = "claimed"
    /\ lock = Free
    /\ row' = [row EXCEPT ![w] = "done"]
    /\ pc' = IF pc = "gather" THEN "drain" ELSE pc
    /\ UNCHANGED <<at, lock, flag, plan, handled, wakeAt, now, late>>

\* A handler of the round commits its result; drain goes on after the last one.
HandlerCommits(w) ==
    /\ pc \in {"gather", "dead"}
    /\ row[w] = "claimed"
    /\ lock = Free
    /\ row' = [row EXCEPT ![w] = "done"]
    /\ pc' = IF pc = "gather" /\ \A v \in Rows \ {w} : row[v] # "claimed"
             THEN "drain" ELSE pc
    /\ UNCHANGED <<at, lock, flag, plan, handled, wakeAt, now, late>>

\* A writer that waits longer than the busy timeout gets an exception, and
\* neither drain nor run_forever catches it.
LockTimeout ==
    /\ pc \in {"claiming", "gather"}
    /\ lock # Free
    /\ pc' = "dead"
    /\ plan' = NoPlan
    /\ UNCHANGED <<row, at, lock, flag, handled, wakeAt, now, late>>

-----------------------------------------------------------------------------
\* earliest_due and signal.wait.

\* Mutant: earliest_due without the leases.
DeadlinesOfPending == {at[w] : w \in {v \in Rows : row[v] = "pending"}}

Deadlines == {at[w] : w \in {v \in Rows : row[v] \in {"pending", "orphan"}}}

\* Mutant: wait clears the signal first.
SleepClearingFirst ==
    /\ pc = "look"
    /\ \A t \in Deadlines : t > now
    /\ \/ /\ Deadlines = {}
          /\ wakeAt' = Never
       \/ /\ wakeAt' \in Deadlines
          /\ \A t \in Deadlines : wakeAt' <= t
    /\ pc' = "wait"
    /\ flag' = FALSE
    /\ UNCHANGED <<row, at, lock, plan, handled, now, late>>

LookAndSleep ==
    /\ pc = "look"
    /\ \A t \in Deadlines : t > now
    /\ \/ /\ Deadlines = {}
          /\ wakeAt' = Never
       \/ /\ wakeAt' \in Deadlines
          /\ \A t \in Deadlines : wakeAt' <= t
    /\ pc' = "wait"
    /\ UNCHANGED <<row, at, lock, flag, plan, handled, now, late>>

LookAndContinue ==
    /\ pc = "look"
    /\ \E t \in Deadlines : t <= now
    /\ pc' = "drain"
    /\ UNCHANGED <<row, at, lock, flag, plan, handled, wakeAt, now, late>>

WakeBySignal ==
    /\ pc = "wait"
    /\ flag
    /\ flag' = FALSE
    /\ wakeAt' = Never
    /\ pc' = "drain"
    /\ UNCHANGED <<row, at, lock, plan, handled, now, late>>

\* Mutant: a timeout ends the loop in a state of its own.
WakeUntyped ==
    /\ pc = "wait"
    /\ wakeAt # Never
    /\ wakeAt <= now
    /\ wakeAt' = Never
    /\ pc' = "timeout"
    /\ UNCHANGED <<row, at, lock, flag, plan, handled, now, late>>

WakeByTimeout ==
    /\ pc = "wait"
    /\ wakeAt # Never
    /\ wakeAt <= now
    /\ wakeAt' = Never
    /\ pc' = "drain"
    /\ UNCHANGED <<row, at, lock, flag, plan, handled, now, late>>

\* Time passes as long as some deadline lies ahead.
Tick ==
    /\ \E w \in Rows : row[w] \in {"written", "pending", "orphan"} /\ at[w] > now
    /\ now' = now + 1
    /\ UNCHANGED <<row, at, lock, flag, loopVars, late>>

-----------------------------------------------------------------------------
LoopStep == DrainReadsNothing \/ DrainReads \/ ClaimCommits \/ LookAndSleep
            \/ LookAndContinue \/ WakeBySignal \/ WakeByTimeout

Next ==
    \/ \E w \in Rows : WriteRow(w) \/ HandlerCommits(w)
    \/ \E q \in Requests : Commit(q) \/ Rollback(q)
    \/ SignalOnly
    \/ LoopStep
    \/ LockTimeout
    \/ Tick

Spec == Init /\ [][Next]_vars

\* The event loop runs every ready task; a request ends; the clock advances.  A
\* writer gets the lock when it keeps becoming free: SQLite's busy handler polls.
Fairness ==
    /\ WF_vars(LoopStep)
    /\ SF_vars(ClaimCommits)
    /\ SF_vars(\E w \in Rows : HandlerCommits(w))
    /\ WF_vars(\E q \in Requests : Commit(q) \/ Rollback(q))
    /\ WF_vars(Tick)

LiveSpec == Spec /\ Fairness

-----------------------------------------------------------------------------
\* Properties.

TypeOK ==
    /\ row \in [Rows -> {"absent", "written", "pending", "orphan", "claimed", "done", "gone"}]
    /\ at \in [Rows -> Nat]
    /\ lock \in Requests \cup {Free}
    /\ flag \in BOOLEAN
    /\ pc \in {"drain", "claiming", "gather", "look", "wait", "dead"}
    /\ plan \in [claim : SUBSET Rows, recover : SUBSET Rows]
    /\ handled \in BOOLEAN
    /\ wakeAt \in Nat \cup {Never}
    /\ now \in Nat
    /\ late \subseteq Rows

Asleep == pc = "wait" /\ ~flag

\* Only a row whose commit came after its signal was consumed can be overslept:
\* every other open row is seen by earliest_due or announced by the signal.
OnlyLateRowsAreOverslept ==
    Asleep => \A w \in Rows : row[w] \in {"pending", "orphan"} =>
                w \in late \/ (wakeAt # Never /\ wakeAt <= at[w])

\* What a round has read stays claimable until its commit, though the lock was
\* free in between: no request touches a row that another inserted.
PlanStaysValid ==
    /\ pc = "claiming" => /\ \A w \in plan.claim : row[w] \in {"pending", "orphan"}
                          /\ \A w \in plan.recover : row[w] = "orphan"
    /\ pc \in {"drain", "look", "wait"} => \A w \in Rows : row[w] # "claimed"

\* A signal is answered by another look at the queue ("A notify that arrived
\* during drain must still wake us").
SignalIsAnswered == flag ~> pc \in {"drain", "dead"}

\* A wake is done in the end if the dispatcher task survives and signals keep
\* coming: the next message rescues a wake the dispatcher has overslept.
DueWorkIsDone ==
    (<>[](pc # "dead") /\ []<>flag) => \A w \in Rows : row[w] = "pending" ~> row[w] = "done"

\* The dispatcher "sleeps until the next due event or a new signal": it does not
\* sleep over a committed wake that is due.
NeverSleepsOverDueWork ==
    Asleep => \A w \in Rows : row[w] = "pending" /\ at[w] <= now =>
                wakeAt # Never /\ wakeAt <= now
=============================================================================
