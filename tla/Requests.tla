------------------------------ MODULE Requests ------------------------------
(***************************************************************************)
(* How a request of the pages or of the tool API uses the database         *)
(* (app/deps.py, app/services/tools.py).  It reads without a lock; its     *)
(* first write takes SQLite's only write lock and keeps it until the       *)
(* commit or the rollback.  Between the two it may run a command outside,  *)
(* whose effect no rollback undoes.                                        *)
(*                                                                         *)
(* A handoff tool called by a run counts the call in the row of the run    *)
(* before it does anything else, and the first query of its handler        *)
(* flushes that count: such a call holds the write lock all the way.       *)
(* The modules of the components define what their requests check, do      *)
(* outside and write; Office puts them together.                           *)
(***************************************************************************)
EXTENDS Naturals, FiniteSets

CONSTANTS
    Requests,     \* the requests that may be made
    Job,          \* op and arguments of each
    ByRun,        \* those made as tool calls of the one run considered
    MaxHandoffs,  \* max_handoffs of that run
    Free,         \* no request has the write lock
    Mixes         \* bound: how many requests, of which, are made in a behaviour

\* tools.HANDOFF_TOOLS
HandoffOps == {"hire", "dm", "group", "channel", "invite", "card"}

ASSUME RequestAssumption ==
    /\ Free \notin Requests
    /\ ByRun \subseteq Requests
    /\ MaxHandoffs \in Nat
    /\ \A mix \in Mixes : mix.of \subseteq Requests /\ mix.upto \in Nat

VARIABLES
    pc,         \* how far each request has come
    lock,       \* who has the write lock
    used,       \* handoffs_used of the run
    counted,    \* the value of handoffs_used that each call has read
    overlapped  \* history: the pairs of requests that were under way together

requestVars == <<pc, lock, used, counted, overlapped>>

Made(op) == {q \in Requests : Job[q].op = op}
Handoff(q) == q \in ByRun /\ Job[q].op \in HandoffOps
UnderWay == {q \in Requests : pc[q] \notin {"new", "done", "failed"}}
Begun == {q \in Requests : pc[q] # "new"}
\* The bound (Office): the requests that may be made beside those that have been.
Startable ==
    LET begun == Begun
        fitting == {mix \in Mixes : begun \subseteq mix.of /\ Cardinality(begun) < mix.upto}
    IN  UNION {mix.of : mix \in fitting} \ begun

Meeting(q) == overlapped \cup {{p, q} : p \in UnderWay}

RequestInit ==
    /\ pc = [q \in Requests |-> "new"]
    /\ lock = Free
    /\ used = 0
    /\ counted = [q \in Requests |-> 0]
    /\ overlapped = {}

-----------------------------------------------------------------------------
\* Toolbelt.call: the budget of the run is read, and compared, before the lock
\* is taken.
Call(q) ==
    /\ Handoff(q)
    /\ pc[q] = "new"
    /\ used < MaxHandoffs
    /\ counted' = [counted EXCEPT ![q] = used]
    /\ pc' = [pc EXCEPT ![q] = "called"]
    /\ overlapped' = Meeting(q)
    /\ UNCHANGED <<lock, used>>

\* Mutant: the count is not flushed, so a handler reads without the lock.
ReadsUnlocked(q) ==
    /\ pc' = [pc EXCEPT ![q] = "read"]
    /\ UNCHANGED <<used, counted, lock>>
    /\ \/ ~Handoff(q) /\ pc[q] = "new" /\ overlapped' = Meeting(q)
       \/ Handoff(q) /\ pc[q] = "called" /\ UNCHANGED overlapped

\* The queries of a handler, up to its decision: a handoff call has flushed its
\* count before the first of them.
Reads(q) ==
    /\ pc' = [pc EXCEPT ![q] = "read"]
    /\ UNCHANGED <<used, counted>>
    /\ \/ ~Handoff(q) /\ pc[q] = "new" /\ overlapped' = Meeting(q) /\ UNCHANGED lock
       \/ Handoff(q) /\ pc[q] = "called" /\ lock = Free /\ lock' = q /\ UNCHANGED overlapped

\* The first write of a request that goes on to run a command.
Inserts(q) ==
    /\ pc[q] = "read"
    /\ lock = Free
    /\ lock' = q
    /\ pc' = [pc EXCEPT ![q] = "inserted"]
    /\ UNCHANGED <<used, counted, overlapped>>

\* A command outside the database succeeds.
Acts(q, from) ==
    /\ pc[q] = from
    /\ pc' = [pc EXCEPT ![q] = "acted"]
    /\ UNCHANGED <<lock, used, counted, overlapped>>

\* What is written is what was decided; the row of the run gets the count that
\* was read, plus one.
Commits(q, from) ==
    /\ pc[q] = from
    /\ lock \in {Free, q}
    /\ lock' = Free
    /\ pc' = [pc EXCEPT ![q] = "done"]
    /\ used' = IF Handoff(q) THEN counted[q] + 1 ELSE used
    /\ UNCHANGED <<counted, overlapped>>

\* A handler whose queries all come after its first write.
Once(q) ==
    /\ lock = Free
    /\ pc' = [pc EXCEPT ![q] = "done"]
    /\ \/ ~Handoff(q) /\ pc[q] = "new" /\ overlapped' = Meeting(q) /\ UNCHANGED used
       \/ Handoff(q) /\ pc[q] = "called" /\ used' = counted[q] + 1 /\ UNCHANGED overlapped
    /\ UNCHANGED <<lock, counted>>

\* Mutant: the session is left open.
FailWithoutRollback(q) ==
    /\ q \in UnderWay
    /\ pc' = [pc EXCEPT ![q] = "failed"]
    /\ UNCHANGED <<lock, used, counted, overlapped>>

\* The handler raises, a command fails or times out, the lock is held beyond the
\* busy timeout, the commit fails or the process ends: get_team rolls back.
Fail(q) ==
    /\ q \in UnderWay
    /\ pc' = [pc EXCEPT ![q] = "failed"]
    /\ lock' = IF lock = q THEN Free ELSE lock
    /\ UNCHANGED <<used, counted, overlapped>>

-----------------------------------------------------------------------------
\* For the properties.

Phases == {"new", "called", "read", "inserted", "acted", "done", "failed"}

\* Two different requests of S were under way together.
Overlap(S) == \E x \in overlapped : x \subseteq S

\* A request that has the write lock before its first query.
Serialized(q) == Handoff(q) \/ Job[q].op = "ask"

\* Two requests of S were under way together, one of them not serialized.
Unserialized(S) == \E x \in overlapped : x \subseteq S /\ \E q \in x : ~Serialized(q)

RequestTypeOK ==
    /\ pc \in [Requests -> Phases]
    /\ lock \in UnderWay \cup {Free}
    /\ used \in Nat
    /\ counted \in [Requests -> Nat]
    /\ overlapped \subseteq SUBSET Requests
=============================================================================
