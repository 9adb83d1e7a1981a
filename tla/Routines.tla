------------------------------- MODULE Routines -------------------------------
(***************************************************************************)
(* Routines, webhooks and open loops of app/services/team.py, with the     *)
(* filter of app/services/filter.py.  A routine wakes its owner at an      *)
(* interval, on a matching event of a feed, or by hand, at most max_runs   *)
(* times and not after it expired.                                         *)
(*                                                                         *)
(* Every transaction here reads routine rows without a lock, decides from  *)
(* what it read, and writes later, under SQLite's write lock, the columns  *)
(* it changed.  So a transaction is two actions, ...Reads and ...Writes,   *)
(* and the first keeps what was read in "saw".  What becomes of the wakes  *)
(* is WakeQueue's matter: here they are open or not.                       *)
(***************************************************************************)
EXTENDS Naturals

CONSTANTS
    Routines,    \* the routines that may be created
    Agents,
    Owner,       \* agent_id of each routine
    Interval,    \* interval_seconds, 0 for a routine that only hears events
    MaxRuns,     \* max_runs, or NoLimit
    Expiry,      \* expires_at at the creation, or Never
    Expiries,    \* what an update may set expires_at to
    Feed,        \* source, match_any and ignore_any of each routine
    AnySource,   \* the source "" of a routine
    Hooks,       \* the webhook requests
    Event,       \* source, addressee, words and key of each
    Anyone,      \* a webhook that names no agent
    Manual,      \* the requests to run a routine now
    RunOf,       \* their routine
    Pass,        \* the pass of the dispatcher over the routines
    Loops,       \* the open loops that may be scheduled
    LoopDelay,   \* how far in the future each is due
    NoLimit, Never, Unread,
    MaxTime      \* bound: the end of the clock

ASSUME RoutineAssumption ==
    /\ Owner \in [Routines -> Agents]
    /\ Interval \in [Routines -> Nat]
    /\ MaxRuns \in [Routines -> (Nat \ {0}) \cup {NoLimit}]
    /\ Expiry \in [Routines -> Nat \cup {Never}]
    /\ Expiries \subseteq Nat
    /\ RunOf \in [Manual -> Routines]
    /\ LoopDelay \in [Loops -> Nat]
    /\ \A h \in Hooks : Event[h].key \in Nat
    /\ NoLimit \notin Nat
    /\ Never \notin Nat
    /\ Pass \notin Hooks \cup Manual
    /\ Hooks \cap Manual = {}
    /\ MaxTime \in Nat

VARIABLES
    created,   \* the rows that exist
    active,    \* those with active = 1
    gone,      \* those with retired_at set
    count,     \* run_count
    nextDue,   \* next_due_at
    expiry,    \* expires_at
    fired,     \* how many RoutineRun rows, and wakes, each routine has
    raced,     \* history: fired by a transaction that read before another firing
    open,      \* the routine and the key of each wake that is pending or claimed
    retired,   \* the teammates with retired_at set
    saw,       \* what each transaction that may fire has read
    edit,      \* what an update of each routine has read, and is to make of it
    crossed,   \* history: updated by a transaction that read before the retirement
    answered,  \* the requests that have succeeded
    loop,      \* status of each open loop
    loopDue,   \* due_at of each open loop
    disp,      \* the dispatcher task
    now

rowVars  == <<created, active, gone, count, nextDue, expiry>>
fireVars == <<fired, raced, open>>
loopVars == <<loop, loopDue>>
editVars == <<edit, crossed>>
vars == <<created, active, gone, count, nextDue, expiry, fired, raced, open, retired,
          saw, edit, crossed, answered, loop, loopDue, disp, now>>

Tasks == Hooks \cup Manual \cup {Pass}

Init ==
    /\ created = {} /\ active = {} /\ gone = {}
    /\ count = [r \in Routines |-> 0]
    /\ nextDue = [r \in Routines |-> Never]
    /\ expiry = Expiry
    /\ fired = [r \in Routines |-> 0]
    /\ raced = {} /\ open = {} /\ retired = {}
    /\ saw = [t \in Tasks |-> Unread]
    /\ edit = [r \in Routines |-> Unread]
    /\ crossed = {}
    /\ answered = {}
    /\ loop = [l \in Loops |-> "none"]
    /\ loopDue = [l \in Loops |-> 0]
    /\ disp = "alive"
    /\ now = 0

-----------------------------------------------------------------------------
\* The life of a routine.

CreateRoutine(r) ==
    /\ r \notin created
    /\ created' = created \cup {r}
    /\ active' = active \cup {r}
    /\ nextDue' = [nextDue EXCEPT ![r] = IF Interval[r] > 0 THEN now + Interval[r] ELSE Never]
    /\ UNCHANGED <<gone, count, expiry, fireVars, retired, saw, editVars, answered,
                   loopVars, disp, now>>

\* Mutant: resuming sets the due time though there is one.
UpdateReadsResetting(r, on) ==
    /\ r \in created \ gone
    /\ edit[r] = Unread
    /\ edit' = [edit EXCEPT ![r] =
                  [active |-> IF on THEN "on" ELSE "off",
                   due |-> IF on /\ Interval[r] > 0 THEN now + Interval[r] ELSE Never]]
    /\ UNCHANGED <<rowVars, fireVars, retired, saw, crossed, answered, loopVars, disp, now>>

\* update_routine: the owner pauses or resumes a routine, and may set when it expires.
UpdateReads(r, on) ==
    /\ r \in created \ gone
    /\ edit[r] = Unread
    /\ edit' = [edit EXCEPT ![r] =
                  [active |-> IF on = (r \in active) THEN "as it is"
                              ELSE IF on THEN "on" ELSE "off",
                   due |-> IF on /\ nextDue[r] = Never /\ Interval[r] > 0
                           THEN now + Interval[r] ELSE Never]]
    /\ UNCHANGED <<rowVars, fireVars, retired, saw, crossed, answered, loopVars, disp, now>>

\* Only the columns that differ from what was read are written.
UpdateWrites(r) ==
    /\ edit[r] # Unread
    /\ active' = CASE edit[r].active = "on" -> active \cup {r}
                   [] edit[r].active = "off" -> active \ {r}
                   [] OTHER -> active
    /\ nextDue' = IF edit[r].due = Never THEN nextDue ELSE [nextDue EXCEPT ![r] = edit[r].due]
    /\ \E t \in {expiry[r]} \cup Expiries : expiry' = [expiry EXCEPT ![r] = t]
    /\ edit' = [edit EXCEPT ![r] = Unread]
    /\ crossed' = crossed \cup ({r} \cap gone)
    /\ UNCHANGED <<created, gone, count, fireVars, retired, saw, answered, loopVars, disp,
                   now>>

UpdateFails(r) ==
    /\ edit[r] # Unread
    /\ edit' = [edit EXCEPT ![r] = Unread]
    /\ UNCHANGED <<rowVars, fireVars, retired, saw, crossed, answered, loopVars, disp, now>>

RetireRoutine(r) ==
    /\ r \in created \ gone
    /\ active' = active \ {r}
    /\ nextDue' = [nextDue EXCEPT ![r] = Never]
    /\ gone' = gone \cup {r}
    /\ UNCHANGED <<created, count, expiry, fireVars, retired, saw, editVars, answered,
                   loopVars, disp, now>>

\* Retiring a teammate leaves its routines alone.
RetireAgent(a) ==
    /\ a \notin retired
    /\ retired' = retired \cup {a}
    /\ UNCHANGED <<rowVars, fireVars, saw, editVars, answered, loopVars, disp, now>>

ScheduleLoop(l) ==
    /\ loop[l] = "none"
    /\ loop' = [loop EXCEPT ![l] = "open"]
    /\ loopDue' = [loopDue EXCEPT ![l] = now + LoopDelay[l]]
    /\ UNCHANGED <<rowVars, fireVars, retired, saw, editVars, answered, disp, now>>

-----------------------------------------------------------------------------
\* filter.decide.

Decide(e, f) ==
    LET ignored == f.ignore \cap e.words # {}
        matched == f.match \cap e.words # {}
    IN  CASE ignored /\ ~matched -> "no"
          [] matched /\ ~ignored -> "yes"
          [] matched /\ ignored -> "ambiguous"
          [] ~matched /\ ~ignored -> IF f.match # {} THEN "no" ELSE "ambiguous"

\* The routines a webhook is for.
Hears(h, r) ==
    /\ Feed[r].source \in {AnySource, Event[h].source}
    /\ Event[h].agent \in {Anyone, Owner[r]}

-----------------------------------------------------------------------------
\* _routine_available.

Expired(r) == expiry[r] # Never /\ expiry[r] <= now

\* Mutant: one run too many.
ExhaustedLate(r) == MaxRuns[r] # NoLimit /\ count[r] > MaxRuns[r]

Exhausted(r) == MaxRuns[r] # NoLimit /\ count[r] >= MaxRuns[r]

\* Mutant: a routine that lapsed is passed over, but stays active.
LapsedKept(r) == FALSE

\* Looking at a lapsed routine makes it inactive.
Lapsed(r) == Expired(r) \/ Exhausted(r)

Available(r) == r \in active /\ ~Expired(r) /\ ~Exhausted(r)

\* What a transaction makes of the rows it reads: of the routines S it looks at,
\* those of F are to fire, for the given key; the time t is what it keeps of its look
\* at the clock, 0 for a request, which needs it no more.
Reading(t, S, F, key) ==
    [at |-> t,
     fires |-> {r \in F : Available(r)}, lapsed |-> {r \in S : Lapsed(r)},
     key |-> key, count |-> [r \in Routines |-> IF r \in F THEN count[r] ELSE 0]]

-----------------------------------------------------------------------------
\* _fire_routine, with the reading R of a transaction.

\* The routines of a reading that have no open wake with the key of this firing.
Fresh(R) == {r \in R.fires : <<r, R.key[r]>> \notin open}

\* enqueue_wake refuses a retired target.
Refused(R) == \E r \in Fresh(R) : Owner[r] \in retired

Last(R) == {r \in Fresh(R) : MaxRuns[r] # NoLimit /\ R.count[r] + 1 >= MaxRuns[r]}

Fire(R) ==
    /\ open' = open \cup {<<r, R.key[r]>> : r \in Fresh(R)}
    /\ fired' = [r \in Routines |-> IF r \in Fresh(R) THEN fired[r] + 1 ELSE fired[r]]
    /\ count' = [r \in Routines |-> IF r \in Fresh(R) THEN R.count[r] + 1 ELSE count[r]]
    /\ raced' = raced \cup {r \in Fresh(R) : R.count[r] # count[r]}
    /\ active' = active \ (R.lapsed \cup Last(R))

-----------------------------------------------------------------------------
\* Requests: webhooks, and run_routine.

HookReads(h) ==
    /\ h \notin answered
    /\ saw[h] = Unread
    /\ LET S == {r \in active \ gone : Hears(h, r)}
           F == {r \in S : Decide(Event[h], Feed[r]) # "no"}
       IN  saw' = [saw EXCEPT ![h] = Reading(0, S, F, [r \in Routines |-> <<"hook", Event[h].key>>])]
    /\ UNCHANGED <<rowVars, fireVars, retired, editVars, answered, loopVars, disp,
                   now>>

\* The first row ingest_webhook writes, of its record, takes the lock, so the
\* open wakes it looks at stay as they are; all its routines fire, or none.
HookWrites(h) ==
    /\ saw[h] # Unread
    /\ ~Refused(saw[h])
    /\ Fire(saw[h])
    /\ saw' = [saw EXCEPT ![h] = Unread]
    /\ answered' = answered \cup {h}
    /\ UNCHANGED <<created, gone, nextDue, expiry, retired, editVars, loopVars, disp,
                   now>>

ManualReads(q) ==
    /\ q \notin answered
    /\ saw[q] = Unread
    /\ RunOf[q] \in created \ gone
    /\ Available(RunOf[q])
    /\ saw' = [saw EXCEPT ![q] = Reading(0, {}, {RunOf[q]}, [r \in Routines |-> <<"manual", 0>>])]
    /\ UNCHANGED <<rowVars, fireVars, retired, editVars, answered, loopVars, disp,
                   now>>

\* A manual run that finds an earlier one open is refused.
ManualWrites(q) ==
    /\ saw[q] # Unread
    /\ Fresh(saw[q]) = {RunOf[q]}
    /\ ~Refused(saw[q])
    /\ Fire(saw[q])
    /\ saw' = [saw EXCEPT ![q] = Unread]
    /\ answered' = answered \cup {q}
    /\ UNCHANGED <<created, gone, nextDue, expiry, retired, editVars, loopVars, disp,
                   now>>

\* A request that raises, for whatever reason, is rolled back and may come again.
RequestFails(t) ==
    /\ saw[t] # Unread
    /\ saw' = [saw EXCEPT ![t] = Unread]
    /\ UNCHANGED <<rowVars, fireVars, retired, editVars, answered, loopVars, disp,
                   now>>

-----------------------------------------------------------------------------
\* fire_due_routines_and_loops.

DueRoutines == {r \in active \ gone : nextDue[r] # Never /\ nextDue[r] <= now}
LoopsDue(t) == {l \in Loops : loop[l] = "open" /\ loopDue[l] <= t}

PassReads ==
    /\ disp = "alive"
    /\ saw[Pass] = Unread
    /\ LET key == [r \in Routines |-> <<"interval", IF r \in DueRoutines THEN nextDue[r] ELSE 0>>]
       IN  saw' = [saw EXCEPT ![Pass] = Reading(now, active \ gone, DueRoutines, key)]
    /\ UNCHANGED <<rowVars, fireVars, retired, editVars, answered, loopVars, disp,
                   now>>

\* Mutant: a loop is marked with a status no reader knows.
PassWritesClosed ==
    /\ saw[Pass] # Unread
    /\ ~Refused(saw[Pass])
    /\ Fire(saw[Pass])
    /\ nextDue' = [r \in Routines |-> IF r \in saw[Pass].fires /\ Interval[r] > 0
                                      THEN saw[Pass].at + Interval[r] ELSE nextDue[r]]
    /\ loop' = [l \in Loops |-> IF l \in LoopsDue(saw[Pass].at) THEN "closed" ELSE loop[l]]
    /\ saw' = [saw EXCEPT ![Pass] = Unread]
    /\ UNCHANGED <<created, gone, expiry, retired, editVars, answered, loopDue, disp,
                   now>>

\* One look at the clock, when the pass begins, serves for all it decides and sets.
PassWrites ==
    /\ saw[Pass] # Unread
    /\ ~Refused(saw[Pass])
    /\ Fire(saw[Pass])
    /\ nextDue' = [r \in Routines |-> IF r \in saw[Pass].fires /\ Interval[r] > 0
                                      THEN saw[Pass].at + Interval[r] ELSE nextDue[r]]
    /\ loop' = [l \in Loops |-> IF l \in LoopsDue(saw[Pass].at) THEN "fired" ELSE loop[l]]
    /\ saw' = [saw EXCEPT ![Pass] = Unread]
    /\ UNCHANGED <<created, gone, expiry, retired, editVars, answered, loopDue, disp,
                   now>>

\* The error of enqueue_wake leaves through drain and run_forever.
PassFails ==
    /\ saw[Pass] # Unread
    /\ Refused(saw[Pass])
    /\ disp' = "dead"
    /\ saw' = [saw EXCEPT ![Pass] = Unread]
    /\ UNCHANGED <<rowVars, fireVars, retired, editVars, answered, loopVars, now>>

\* The wake of a firing is settled by the dispatcher.
SettleWake(x) ==
    /\ disp = "alive"
    /\ x \in open
    /\ open' = open \ {x}
    /\ UNCHANGED <<rowVars, fired, raced, retired, saw, editVars, answered, loopVars,
                   disp, now>>

\* The process ends and starts again.
Restart ==
    /\ disp' = "alive"
    /\ saw' = [t \in Tasks |-> Unread]
    /\ edit' = [r \in Routines |-> Unread]
    /\ UNCHANGED <<rowVars, fireVars, retired, crossed, answered, loopVars, now>>

Tick ==
    /\ now < MaxTime
    /\ now' = now + 1
    /\ UNCHANGED <<rowVars, fireVars, retired, saw, editVars, answered, loopVars,
                   disp>>

-----------------------------------------------------------------------------
Next ==
    \/ \E r \in Routines : \/ CreateRoutine(r)
                           \/ RetireRoutine(r)
                           \/ \E on \in BOOLEAN : UpdateReads(r, on)
                           \/ UpdateWrites(r) \/ UpdateFails(r)
    \/ \E a \in Agents : RetireAgent(a)
    \/ \E l \in Loops : ScheduleLoop(l)
    \/ \E h \in Hooks : HookReads(h) \/ HookWrites(h)
    \/ \E q \in Manual : ManualReads(q) \/ ManualWrites(q)
    \/ \E t \in Hooks \cup Manual : RequestFails(t)
    \/ PassReads
    \/ PassWrites
    \/ PassFails
    \/ \E x \in open : SettleWake(x)
    \/ Restart
    \/ Tick

Spec == Init /\ [][Next]_vars

\* The dispatcher comes back to the routines, as it does while signals keep coming
\* (DispatchLoop says what it may sleep over), and its transaction ends.
LiveSpec == Spec /\ WF_vars(PassReads) /\ WF_vars(PassWrites \/ PassFails)

-----------------------------------------------------------------------------
\* Properties.

Keys == {"hook", "manual", "interval"} \X Nat
Readings == [at : Nat, fires : SUBSET Routines, lapsed : SUBSET Routines,
             key : [Routines -> Keys], count : [Routines -> Nat]]

Edits == [active : {"on", "off", "as it is"}, due : Nat \cup {Never}]

TypeOK ==
    /\ created \subseteq Routines
    /\ active \subseteq Routines
    /\ gone \subseteq Routines
    /\ count \in [Routines -> Nat]
    /\ nextDue \in [Routines -> Nat \cup {Never}]
    /\ expiry \in [Routines -> Nat \cup {Never}]
    /\ fired \in [Routines -> Nat]
    /\ raced \subseteq Routines
    /\ open \subseteq Routines \X Keys
    /\ retired \subseteq Agents
    /\ saw \in [Tasks -> Readings \cup {Unread}]
    /\ edit \in [Routines -> Edits \cup {Unread}]
    /\ crossed \subseteq gone
    /\ answered \subseteq Tasks
    /\ loop \in [Loops -> {"none", "open", "fired"}]
    /\ loopDue \in [Loops -> Nat]
    /\ disp \in {"alive", "dead"}
    /\ now \in Nat

\* run_count never passes max_runs, and it counts the wakes of a routine exactly
\* as long as no two transactions fired the routine from one reading of its row:
\* resumed, paused, crashed or refused in between, a routine does not fire again.
RunsAreCounted ==
    \A r \in Routines :
      /\ MaxRuns[r] # NoLimit => count[r] <= MaxRuns[r]
      /\ r \notin raced => fired[r] = count[r]

\* An interval routine fires at most once for each time it is due: a firing is for the
\* time that is due, leaves it behind, and nothing brings it back, neither an update or
\* a webhook that read the row earlier, nor a restart, nor the wake of that firing being
\* settled meanwhile.
DueTimes(r) == {x[2][2] : x \in {y \in open' \ open : y[1] = r /\ y[2][1] = "interval"}}
LeavesBehind ==
    \A r \in Routines :
      /\ nextDue[r] # Never => nextDue'[r] = Never \/ nextDue[r] <= nextDue'[r]
      /\ \A t \in DueTimes(r) : nextDue[r] \in {t, Never} /\ t < nextDue'[r]
FiresOnceWhenDue == [][LeavesBehind]_vars

\* The routines whose due time earliest_due finds in the past.
Overdue == {r \in active : nextDue[r] # Never /\ nextDue[r] <= now}

\* From some time on the dispatcher lives and the process stays up.
StaysUp == <>[](disp = "alive") /\ <>[][~Restart]_vars

\* A deadline that has passed is moved or dropped: fired, expired, exhausted or
\* retired, no routine keeps run_forever turning over a due time that stays, unless
\* it is one that was resumed by an update that had read it before its retirement;
\* and every loop that is due is marked as fired.  All that if it stays up.
DeadlinesMove ==
    StaysUp =>
      /\ \A r \in Routines : r \in Overdue ~> (r \notin Overdue \/ r \in crossed)
      /\ \A l \in Loops : l \in LoopsDue(now) ~> loop[l] = "fired"

\* The dispatcher "sleeps until the next due event or a new signal": it does not
\* end because a teammate was retired.
DispatcherLives == disp = "alive"
=============================================================================
