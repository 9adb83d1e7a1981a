--------------------------- MODULE RoutinesProofs ---------------------------
(* Types, the counting of runs and the due times, for all routines,        *)
(* requests and bounds.                                                    *)
EXTENDS Routines, TLAPS

\* A transaction only means to fire what had runs left when it read.
ReadingsHaveRunsLeft ==
    \A t \in Tasks : saw[t] # Unread =>
      \A r \in saw[t].fires : MaxRuns[r] # NoLimit => saw[t].count[r] < MaxRuns[r]

IInv == TypeOK /\ RunsAreCounted /\ ReadingsHaveRunsLeft

\* What _routine_available lets through has runs left, and a reading of the rows
\* has the form the transactions write from.
LEMMA ReadingIsSound ==
    ASSUME TypeOK, NEW t \in Nat, NEW S \in SUBSET Routines, NEW F \in SUBSET Routines,
           NEW key \in [Routines -> Keys]
    PROVE  /\ Reading(t, S, F, key) \in Readings
           /\ \A r \in Reading(t, S, F, key).fires :
                MaxRuns[r] # NoLimit => Reading(t, S, F, key).count[r] < MaxRuns[r]
<1> DEFINE R == Reading(t, S, F, key)
           counts == [r \in Routines |-> IF r \in F THEN count[r] ELSE 0]
<1>1. count \in [Routines -> Nat]
  BY DEF TypeOK
<1>2. counts \in [Routines -> Nat]
  BY <1>1
<1>3. R \in Readings
  BY <1>2 DEF Reading, Readings
<1>4. ASSUME NEW r \in R.fires, MaxRuns[r] # NoLimit
      PROVE  R.count[r] < MaxRuns[r]
  <2>1. r \in F /\ r \in Routines /\ Available(r)
    BY <1>4 DEF Reading
  <2>2. R.count[r] = count[r]
    BY <2>1 DEF Reading
  <2>3. MaxRuns[r] \in Nat /\ count[r] \in Nat
    BY <2>1, <1>1, <1>4, RoutineAssumption
  <2> QED
    BY <2>1, <2>2, <2>3, <1>4 DEF Available, Exhausted
<1> QED
  BY <1>3, <1>4

\* Firing from a reading keeps the types, counts at most max_runs, and counts
\* exactly as long as nobody fired since the reading.
LEMMA FiringCounts ==
    ASSUME IInv, NEW t \in Tasks, saw[t] # Unread, Fire(saw[t])
    PROVE  /\ count' \in [Routines -> Nat]
           /\ fired' \in [Routines -> Nat]
           /\ open' \subseteq Routines \X Keys
           /\ raced' \subseteq Routines
           /\ active' \subseteq Routines
           /\ RunsAreCounted'
<1> DEFINE R == saw[t]
<1>1. R \in Readings /\ R.fires \subseteq Routines /\ R.count \in [Routines -> Nat]
      /\ R.key \in [Routines -> Keys]
  BY DEF IInv, TypeOK, Readings
<1>2. Fresh(R) \subseteq R.fires
  BY DEF Fresh
<1>3. count \in [Routines -> Nat] /\ fired \in [Routines -> Nat]
  BY DEF IInv, TypeOK
<1>4. count' \in [Routines -> Nat] /\ fired' \in [Routines -> Nat]
  BY <1>1, <1>2, <1>3 DEF Fire
<1>5. \A r \in Fresh(R) : <<r, R.key[r]>> \in Routines \X Keys
  BY <1>1, <1>2
<1>6. open' \subseteq Routines \X Keys
  BY <1>5 DEF Fire, IInv, TypeOK
<1>7. raced' \subseteq Routines /\ active' \subseteq Routines
  BY <1>1, <1>2 DEF Fire, IInv, TypeOK
<1>8. ASSUME NEW r \in Routines
      PROVE  /\ MaxRuns[r] # NoLimit => count'[r] <= MaxRuns[r]
             /\ r \notin raced' => fired'[r] = count'[r]
  <2>1. CASE r \notin Fresh(R)
    <3>1. count'[r] = count[r] /\ fired'[r] = fired[r]
      BY <2>1 DEF Fire
    <3>2. r \notin raced' => r \notin raced
      BY DEF Fire
    <3> QED
      BY <3>1, <3>2 DEF IInv, RunsAreCounted
  <2>2. CASE r \in Fresh(R)
    <3>1. count'[r] = R.count[r] + 1 /\ fired'[r] = fired[r] + 1
      BY <2>2 DEF Fire
    <3>2. r \notin raced' => R.count[r] = count[r] /\ r \notin raced
      BY <2>2 DEF Fire
    <3>3. MaxRuns[r] # NoLimit => R.count[r] < MaxRuns[r] /\ MaxRuns[r] \in Nat
      BY <2>2, <1>2, RoutineAssumption DEF IInv, ReadingsHaveRunsLeft
    <3>4. R.count[r] \in Nat
      BY <1>1
    <3>5. r \notin raced => fired[r] = count[r]
      BY DEF IInv, RunsAreCounted
    <3>6. MaxRuns[r] # NoLimit => count'[r] <= MaxRuns[r]
      BY <3>1, <3>3, <3>4
    <3>7. r \notin raced' => fired'[r] = count'[r]
      BY <3>1, <3>2, <3>5
    <3> QED
      BY <3>6, <3>7
  <2> QED
    BY <2>1, <2>2
<1> QED
  BY <1>4, <1>6, <1>7, <1>8 DEF RunsAreCounted

LEMMA InitEstablishes == Init => IInv
<1> SUFFICES ASSUME Init PROVE IInv
  OBVIOUS
<1>1. TypeOK
  BY RoutineAssumption DEF Init, TypeOK
<1>2. RunsAreCounted
  <2>1. \A r \in Routines : count[r] = 0 /\ fired[r] = 0
    BY DEF Init
  <2>2. \A r \in Routines : MaxRuns[r] # NoLimit => MaxRuns[r] \in Nat
    BY RoutineAssumption
  <2>3. \A r \in Routines : MaxRuns[r] # NoLimit => count[r] <= MaxRuns[r]
    BY <2>1, <2>2
  <2> QED
    BY <2>1, <2>3 DEF RunsAreCounted
<1>3. ReadingsHaveRunsLeft
  BY DEF Init, ReadingsHaveRunsLeft
<1> QED
  BY <1>1, <1>2, <1>3 DEF IInv

\* A step that neither reads nor fires keeps what was read and counted.
LEMMA QuietStep ==
    ASSUME IInv, TypeOK', UNCHANGED <<count, fired, raced>>,
           \A t \in Tasks : saw'[t] \in {saw[t], Unread}
    PROVE  IInv'
<1>1. RunsAreCounted'
  BY DEF IInv, RunsAreCounted
<1>2. ReadingsHaveRunsLeft'
  BY DEF IInv, ReadingsHaveRunsLeft
<1> QED
  BY <1>1, <1>2 DEF IInv

\* A step that only reads, soundly.
LEMMA ReadStep ==
    ASSUME IInv, NEW t \in Tasks, NEW R \in Readings,
           \A r \in R.fires : MaxRuns[r] # NoLimit => R.count[r] < MaxRuns[r],
           saw' = [saw EXCEPT ![t] = R],
           UNCHANGED <<rowVars, fireVars, retired, editVars, answered, loopVars, disp, now>>
    PROVE  IInv'
<1> USE DEF rowVars, fireVars, editVars, loopVars
<1>1. TypeOK'
  <2>1. \A u \in Tasks : saw'[u] \in Readings \cup {Unread}
    BY DEF IInv, TypeOK
  <2> QED
    BY <2>1 DEF IInv, TypeOK
<1>2. RunsAreCounted'
  BY DEF IInv, RunsAreCounted
<1>3. ReadingsHaveRunsLeft'
  BY DEF IInv, ReadingsHaveRunsLeft
<1> QED
  BY <1>1, <1>2, <1>3 DEF IInv

LEMMA NextPreserves == IInv /\ [Next]_vars => IInv'
<1> SUFFICES ASSUME IInv, [Next]_vars PROVE IInv'
  OBVIOUS
<1> USE DEF rowVars, fireVars, editVars, loopVars
<1>a. TypeOK /\ now \in Nat /\ Pass \in Tasks /\ Hooks \subseteq Tasks /\ Manual \subseteq Tasks
  BY DEF IInv, TypeOK, Tasks
<1>1. ASSUME NEW r \in Routines, CreateRoutine(r) PROVE IInv'
  <2>1. now + Interval[r] \in Nat
    BY <1>a, RoutineAssumption
  <2>2. TypeOK'
    BY <1>1, <2>1 DEF IInv, TypeOK, CreateRoutine
  <2> QED
    BY <1>1, <2>2, QuietStep DEF CreateRoutine
<1>2. ASSUME NEW r \in Routines, RetireRoutine(r) PROVE IInv'
  <2>1. TypeOK'
    BY <1>2 DEF IInv, TypeOK, RetireRoutine
  <2> QED
    BY <1>2, <2>1, QuietStep DEF RetireRoutine
<1>3. ASSUME NEW r \in Routines,
             UpdateWrites(r) \/ UpdateFails(r) \/ \E on \in BOOLEAN : UpdateReads(r, on)
      PROVE  IInv'
  <2>1. CASE UpdateWrites(r)
    <3>1. edit[r] \in Edits
      <4>1. edit[r] # Unread
        BY <2>1 DEF UpdateWrites
      <4>2. edit \in [Routines -> Edits \cup {Unread}]
        BY DEF IInv, TypeOK
      <4> QED BY <4>1, <4>2
    <3>2. active' \subseteq Routines /\ crossed' \subseteq gone
      BY <2>1 DEF IInv, TypeOK, UpdateWrites
    <3>3. nextDue' \in [Routines -> Nat \cup {Never}]
      <4>1. CASE edit[r].due = Never
        BY <2>1, <4>1 DEF IInv, TypeOK, UpdateWrites
      <4>2. CASE edit[r].due # Never
        <5>1. edit[r].due \in Nat
          BY <3>1, <4>2 DEF Edits
        <5>2. nextDue' = [nextDue EXCEPT ![r] = edit[r].due]
          BY <2>1, <4>2 DEF UpdateWrites
        <5> QED BY <5>1, <5>2 DEF IInv, TypeOK
      <4> QED BY <4>1, <4>2
    <3>4. expiry' \in [Routines -> Nat \cup {Never}]
      BY <2>1, RoutineAssumption DEF IInv, TypeOK, UpdateWrites
    <3>5. TypeOK'
      BY <2>1, <3>2, <3>3, <3>4 DEF IInv, TypeOK, UpdateWrites
    <3> QED BY <2>1, <3>5, QuietStep DEF UpdateWrites
  <2>2. CASE UpdateFails(r)
    <3>1. TypeOK'
      BY <2>2 DEF IInv, TypeOK, UpdateFails
    <3> QED BY <2>2, <3>1, QuietStep DEF UpdateFails
  <2>3. ASSUME NEW on \in BOOLEAN, UpdateReads(r, on)
        PROVE  IInv'
    <3> DEFINE change == [active |-> IF on = (r \in active) THEN "as it is"
                                     ELSE IF on THEN "on" ELSE "off",
                          due |-> IF on /\ nextDue[r] = Never /\ Interval[r] > 0
                                  THEN now + Interval[r] ELSE Never]
    <3>1. change \in Edits
      BY <1>a, RoutineAssumption DEF Edits
    <3>2. edit' = [edit EXCEPT ![r] = change]
      BY <2>3 DEF UpdateReads
    <3> HIDE DEF change
    <3>3. edit' \in [Routines -> Edits \cup {Unread}]
      BY <3>1, <3>2 DEF IInv, TypeOK
    <3>4. UNCHANGED <<rowVars, fireVars, retired, saw, crossed, answered, loopVars, disp, now>>
      BY <2>3 DEF UpdateReads
    <3>5. TypeOK'
      BY <3>3, <3>4 DEF IInv, TypeOK
    <3> QED BY <2>3, <3>5, QuietStep DEF UpdateReads
  <2> QED BY <1>3, <2>1, <2>2, <2>3
<1>4. ASSUME NEW a \in Agents, RetireAgent(a) PROVE IInv'
  <2>1. TypeOK'
    BY <1>4 DEF IInv, TypeOK, RetireAgent
  <2> QED
    BY <1>4, <2>1, QuietStep DEF RetireAgent
<1>5. ASSUME NEW l \in Loops, ScheduleLoop(l) PROVE IInv'
  <2>1. now + LoopDelay[l] \in Nat
    BY <1>a, RoutineAssumption
  <2>2. TypeOK'
    BY <1>5, <2>1 DEF IInv, TypeOK, ScheduleLoop
  <2> QED
    BY <1>5, <2>2, QuietStep DEF ScheduleLoop
<1>6. ASSUME NEW h \in Hooks, HookReads(h) PROVE IInv'
  <2> DEFINE S == {r \in active \ gone : Hears(h, r)}
             F == {r \in S : Decide(Event[h], Feed[r]) # "no"}
             key == [r \in Routines |-> <<"hook", Event[h].key>>]
  <2>1. S \in SUBSET Routines /\ F \in SUBSET Routines
    BY <1>a DEF TypeOK
  <2>2. key \in [Routines -> Keys]
    BY RoutineAssumption DEF Keys
  <2>3. saw' = [saw EXCEPT ![h] = Reading(0, S, F, key)]
    BY <1>6 DEF HookReads
  <2> HIDE DEF S, F, key
  <2>4. /\ Reading(0, S, F, key) \in Readings
        /\ \A r \in Reading(0, S, F, key).fires :
             MaxRuns[r] # NoLimit => Reading(0, S, F, key).count[r] < MaxRuns[r]
    BY <1>a, <2>1, <2>2, ReadingIsSound
  <2> QED
    BY <1>6, <1>a, <2>3, <2>4, ReadStep DEF HookReads
<1>7. ASSUME NEW q \in Manual, ManualReads(q) PROVE IInv'
  <2> DEFINE F == {RunOf[q]}
             key == [r \in Routines |-> <<"manual", 0>>]
  <2>1. {} \in SUBSET Routines /\ F \in SUBSET Routines
    BY RoutineAssumption
  <2>2. key \in [Routines -> Keys]
    BY DEF Keys
  <2>3. saw' = [saw EXCEPT ![q] = Reading(0, {}, F, key)]
    BY <1>7 DEF ManualReads
  <2> HIDE DEF F, key
  <2>4. /\ Reading(0, {}, F, key) \in Readings
        /\ \A r \in Reading(0, {}, F, key).fires :
             MaxRuns[r] # NoLimit => Reading(0, {}, F, key).count[r] < MaxRuns[r]
    BY <1>a, <2>1, <2>2, ReadingIsSound
  <2> QED
    BY <1>7, <1>a, <2>3, <2>4, ReadStep DEF ManualReads
<1>8. CASE PassReads
  <2> DEFINE key == [r \in Routines |-> <<"interval", IF r \in DueRoutines THEN nextDue[r] ELSE 0>>]
  <2>1. active \ gone \in SUBSET Routines /\ DueRoutines \in SUBSET Routines
    BY <1>a DEF TypeOK, DueRoutines
  <2>2. \A r \in DueRoutines : nextDue[r] \in Nat
    BY <1>a, <2>1 DEF TypeOK, DueRoutines
  <2>3. key \in [Routines -> Keys]
    BY <2>2 DEF Keys
  <2>4. saw' = [saw EXCEPT ![Pass] = Reading(now, active \ gone, DueRoutines, key)]
    BY <1>8 DEF PassReads
  <2> HIDE DEF key
  <2>5. /\ Reading(now, active \ gone, DueRoutines, key) \in Readings
        /\ \A r \in Reading(now, active \ gone, DueRoutines, key).fires :
             MaxRuns[r] # NoLimit
               => Reading(now, active \ gone, DueRoutines, key).count[r] < MaxRuns[r]
    BY <1>a, <2>1, <2>3, ReadingIsSound
  <2> QED
    BY <1>8, <1>a, <2>4, <2>5, ReadStep DEF PassReads
<1>9. ASSUME NEW t \in Tasks, saw[t] # Unread, Fire(saw[t]), saw' = [saw EXCEPT ![t] = Unread],
             answered' \in SUBSET Tasks, nextDue' \in [Routines -> Nat \cup {Never}],
             loop' \in [Loops -> {"none", "open", "fired"}],
             UNCHANGED <<created, gone, expiry, retired, editVars, loopDue, disp, now>>
      PROVE  IInv'
  <2>1. /\ count' \in [Routines -> Nat]
        /\ fired' \in [Routines -> Nat]
        /\ open' \subseteq Routines \X Keys
        /\ raced' \subseteq Routines
        /\ active' \subseteq Routines
        /\ RunsAreCounted'
    BY <1>9, FiringCounts
  <2>2. \A u \in Tasks : saw'[u] \in {saw[u], Unread}
    BY <1>9, <1>a DEF TypeOK
  <2>3. TypeOK'
    BY <1>9, <1>a, <2>1, <2>2 DEF TypeOK
  <2>4. ReadingsHaveRunsLeft'
    BY <2>2 DEF IInv, ReadingsHaveRunsLeft
  <2> QED
    BY <2>1, <2>3, <2>4 DEF IInv
<1>10. ASSUME NEW h \in Hooks, HookWrites(h) PROVE IInv'
  BY <1>10, <1>9, <1>a DEF HookWrites, TypeOK
<1>11. ASSUME NEW q \in Manual, ManualWrites(q) PROVE IInv'
  BY <1>11, <1>9, <1>a DEF ManualWrites, TypeOK
<1>12. CASE PassWrites
  <2>1. nextDue' \in [Routines -> Nat \cup {Never}]
    <3>1. saw[Pass].at \in Nat
      BY <1>12, <1>a DEF PassWrites, TypeOK, Readings
    <3>2. \A r \in Routines : saw[Pass].at + Interval[r] \in Nat
      BY <3>1, RoutineAssumption
    <3> QED
      BY <1>12, <1>a, <3>2 DEF PassWrites, TypeOK
  <2>2. loop' \in [Loops -> {"none", "open", "fired"}]
    BY <1>12, <1>a DEF PassWrites, TypeOK
  <2> QED
    BY <1>12, <1>9, <1>a, <2>1, <2>2 DEF PassWrites, TypeOK
<1>13. ASSUME NEW t \in Hooks \cup Manual, RequestFails(t) PROVE IInv'
  <2>1. \A u \in Tasks : saw'[u] \in {saw[u], Unread}
    BY <1>13, <1>a DEF RequestFails
  <2>2. TypeOK'
    BY <1>13, <1>a, <2>1 DEF RequestFails, TypeOK
  <2> QED
    BY <1>13, <2>1, <2>2, QuietStep DEF RequestFails
<1>14. CASE PassFails
  <2>1. \A u \in Tasks : saw'[u] \in {saw[u], Unread}
    BY <1>14, <1>a DEF PassFails
  <2>2. TypeOK'
    BY <1>14, <1>a, <2>1 DEF PassFails, TypeOK
  <2> QED
    BY <1>14, <2>1, <2>2, QuietStep DEF PassFails
<1>15. ASSUME NEW x \in open, SettleWake(x) PROVE IInv'
  <2>1. TypeOK'
    BY <1>15, <1>a DEF SettleWake, TypeOK
  <2> QED
    BY <1>15, <2>1, QuietStep DEF SettleWake
<1>16. CASE Restart
  <2>1. \A u \in Tasks : saw'[u] \in {saw[u], Unread}
    BY <1>16 DEF Restart
  <2>2. TypeOK'
    BY <1>16, <1>a, <2>1 DEF Restart, TypeOK
  <2> QED
    BY <1>16, <2>1, <2>2, QuietStep DEF Restart
<1>17. CASE Tick
  <2>1. TypeOK'
    BY <1>17, <1>a DEF Tick, TypeOK
  <2> QED
    BY <1>17, <2>1, QuietStep DEF Tick
<1>18. CASE UNCHANGED vars
  <2>1. TypeOK'
    BY <1>18, <1>a DEF vars, TypeOK
  <2> QED
    BY <1>18, <2>1, QuietStep DEF vars
<1> QED
  BY <1>1, <1>2, <1>3, <1>4, <1>5, <1>6, <1>7, <1>8, <1>10, <1>11, <1>12, <1>13, <1>14,
     <1>15, <1>16, <1>17, <1>18 DEF Next

\* The inductive invariant holds in every reachable state.
THEOREM Invariance == Spec => []IInv
<1>1. Init => IInv
  BY InitEstablishes
<1>2. IInv /\ [Next]_vars => IInv'
  BY NextPreserves
<1> QED
  BY <1>1, <1>2, PTL DEF Spec

\* Type correctness.
THEOREM TypeCorrect == Spec => []TypeOK
<1>1. IInv => TypeOK
  BY DEF IInv
<1> QED
  BY <1>1, Invariance, PTL

\* run_count of _fire_routine never passes max_runs, and counts every firing that did
\* not read an outdated row.
THEOREM CountedRuns == Spec => []RunsAreCounted
<1>1. IInv => RunsAreCounted
  BY DEF IInv
<1> QED
  BY <1>1, Invariance, PTL

-----------------------------------------------------------------------------
\* Due times.

\* Only an interval routine has a due time, and has one until it is retired; so an
\* update never finds a due time to set.
DueUntilRetired ==
    \A r \in Routines :
      /\ nextDue[r] # Never => r \in created /\ Interval[r] > 0
      /\ r \in created \ gone /\ Interval[r] > 0 => nextDue[r] # Never
      /\ edit[r] # Unread => edit[r].due = Never

\* What the pass means to fire is still due at the time it read, or was retired.
StillDue ==
    saw[Pass] # Unread =>
      \A r \in saw[Pass].fires :
        /\ r \in created /\ Interval[r] > 0
        /\ saw[Pass].key[r][2] <= saw[Pass].at
        /\ nextDue[r] \in {saw[Pass].key[r][2], Never}

\* The keys of requests are not those of intervals.
RequestKeys ==
    \A t \in Hooks \cup Manual : saw[t] # Unread =>
      \A r \in Routines : saw[t].key[r][1] # "interval"

DueInv == DueUntilRetired /\ StillDue /\ RequestKeys

LEMMA InitDue == Init => DueInv
  BY RoutineAssumption DEF Init, DueInv, DueUntilRetired, StillDue, RequestKeys, Tasks

\* A step that sets no due time, and changes what has been read at most by ending it.
LEMMA QuietDue ==
    ASSUME TypeOK, DueInv, UNCHANGED <<created, gone, nextDue>>,
           \A r \in Routines : edit'[r] \in {edit[r], Unread},
           \A t \in Tasks : saw'[t] \in {saw[t], Unread}
    PROVE  DueInv'
<1>1. DueUntilRetired'
  BY DEF DueInv, DueUntilRetired
<1>2. StillDue'
  <2>1. SUFFICES ASSUME saw'[Pass] # Unread, NEW r \in saw'[Pass].fires
                 PROVE  /\ r \in created' /\ Interval[r] > 0
                        /\ saw'[Pass].key[r][2] <= saw'[Pass].at
                        /\ nextDue'[r] \in {saw'[Pass].key[r][2], Never}
    BY DEF StillDue
  <2>2. saw'[Pass] = saw[Pass] /\ saw[Pass] # Unread
    BY <2>1 DEF Tasks
  <2> QED BY <2>1, <2>2 DEF DueInv, StillDue
<1>3. RequestKeys'
  BY DEF DueInv, RequestKeys, Tasks
<1> QED BY <1>1, <1>2, <1>3 DEF DueInv

\* A request that reads: its keys are its own.
LEMMA RequestReadsDue ==
    ASSUME TypeOK, DueInv, NEW t \in Hooks \cup Manual, NEW R,
           \A r \in Routines : R.key[r][1] # "interval",
           saw' = [saw EXCEPT ![t] = R],
           UNCHANGED <<rowVars, edit, now>>
    PROVE  DueInv'
<1>1. t # Pass /\ saw'[Pass] = saw[Pass]
  BY RoutineAssumption
<1>2. DueUntilRetired' /\ StillDue'
  BY <1>1 DEF DueInv, DueUntilRetired, StillDue, rowVars
<1>3. RequestKeys'
  BY DEF DueInv, RequestKeys
<1> QED BY <1>2, <1>3 DEF DueInv

LEMMA PassReadsDue == TypeOK /\ DueInv /\ PassReads => DueInv'
<1> SUFFICES ASSUME TypeOK, DueInv, PassReads PROVE DueInv'
  OBVIOUS
<1> DEFINE key == [r \in Routines |-> <<"interval", IF r \in DueRoutines THEN nextDue[r] ELSE 0>>]
           R == Reading(now, active \ gone, DueRoutines, key)
<1>1. /\ UNCHANGED <<created, gone, nextDue, edit, now>>
      /\ saw' = [saw EXCEPT ![Pass] = R]
  BY DEF PassReads, rowVars, editVars
<1>2. DueUntilRetired' /\ RequestKeys'
  BY <1>1, RoutineAssumption DEF DueInv, DueUntilRetired, RequestKeys
<1>3. ASSUME NEW r \in R.fires
      PROVE  /\ r \in created /\ Interval[r] > 0
             /\ R.key[r][2] <= R.at /\ nextDue[r] \in {R.key[r][2], Never}
  <2>1. r \in DueRoutines
    BY DEF Reading
  <2>2. r \in Routines /\ nextDue[r] # Never /\ nextDue[r] <= now
    BY <2>1 DEF DueRoutines, TypeOK
  <2>3. R.key[r][2] = nextDue[r] /\ R.at = now
    BY <2>1, <2>2 DEF Reading
  <2> QED BY <2>2, <2>3 DEF DueInv, DueUntilRetired
<1> HIDE DEF R, key
<1>4. StillDue'
  <2>1. saw'[Pass] = R
    BY <1>1 DEF TypeOK, Tasks
  <2> QED BY <1>1, <1>3, <2>1 DEF StillDue
<1> QED BY <1>2, <1>4 DEF DueInv

\* The pass moves the due times of what it fires beyond the time it began.
LEMMA PassWritesDue == TypeOK /\ DueInv /\ PassWrites => DueInv'
<1> SUFFICES ASSUME TypeOK, DueInv, PassWrites PROVE DueInv'
  OBVIOUS
<1>1. /\ UNCHANGED <<created, gone, edit, now>>
      /\ saw[Pass] # Unread
      /\ saw' = [saw EXCEPT ![Pass] = Unread]
      /\ \A r \in Routines : nextDue'[r] = IF r \in saw[Pass].fires /\ Interval[r] > 0
                                            THEN saw[Pass].at + Interval[r] ELSE nextDue[r]
  BY DEF PassWrites, editVars
<1>2. \A r \in Routines : saw[Pass].at + Interval[r] # Never
  <2>1. saw[Pass].at \in Nat
    BY <1>1 DEF TypeOK, Tasks, Readings
  <2> QED BY <2>1, RoutineAssumption
<1>3. DueUntilRetired'
  BY <1>1, <1>2 DEF DueInv, DueUntilRetired, StillDue
<1>4. saw'[Pass] = Unread /\ \A t \in Hooks \cup Manual : saw'[t] = saw[t]
  BY <1>1, RoutineAssumption DEF TypeOK, Tasks
<1>5. RequestKeys' /\ StillDue'
  BY <1>4 DEF DueInv, RequestKeys, StillDue
<1> QED BY <1>3, <1>5 DEF DueInv

LEMMA NextDue == TypeOK /\ DueInv /\ [Next]_vars => DueInv'
<1> SUFFICES ASSUME TypeOK, DueInv, [Next]_vars PROVE DueInv'
  OBVIOUS
<1> USE DEF rowVars, fireVars, editVars, loopVars
<1>a. now \in Nat
  BY DEF TypeOK
<1>b. \A t \in Tasks : saw' = [saw EXCEPT ![t] = Unread]
                            => \A u \in Tasks : saw'[u] \in {saw[u], Unread}
  BY DEF TypeOK
<1>1. ASSUME NEW r \in Routines, CreateRoutine(r) PROVE DueInv'
  <2>1. DueUntilRetired'
    <3>1. now + Interval[r] \in Nat /\ Interval[r] \in Nat
      BY <1>a, RoutineAssumption
    <3>2. nextDue[r] = Never
      BY <1>1 DEF CreateRoutine, DueInv, DueUntilRetired
    <3> QED
      BY <1>1, <3>1, <3>2, RoutineAssumption
         DEF CreateRoutine, DueInv, DueUntilRetired, TypeOK
  <2>2. StillDue'
    BY <1>1 DEF CreateRoutine, DueInv, StillDue
  <2>3. RequestKeys'
    BY <1>1 DEF CreateRoutine, DueInv, RequestKeys
  <2> QED BY <2>1, <2>2, <2>3 DEF DueInv
<1>2. ASSUME NEW r \in Routines, RetireRoutine(r) PROVE DueInv'
  <2>1. DueUntilRetired'
    BY <1>2 DEF RetireRoutine, DueInv, DueUntilRetired, TypeOK
  <2>2. StillDue'
    BY <1>2 DEF RetireRoutine, DueInv, StillDue, TypeOK
  <2>3. RequestKeys'
    BY <1>2 DEF RetireRoutine, DueInv, RequestKeys
  <2> QED BY <2>1, <2>2, <2>3 DEF DueInv
<1>3. ASSUME NEW r \in Routines, NEW on \in BOOLEAN, UpdateReads(r, on) PROVE DueInv'
  <2>1. ~(on /\ nextDue[r] = Never /\ Interval[r] > 0)
    BY <1>3 DEF UpdateReads, DueInv, DueUntilRetired
  <2>2. edit'[r].due = Never /\ \A q \in Routines : q # r => edit'[q] = edit[q]
    BY <1>3, <2>1 DEF UpdateReads, TypeOK
  <2>3. DueUntilRetired'
    BY <1>3, <2>2 DEF UpdateReads, DueInv, DueUntilRetired
  <2>4. StillDue' /\ RequestKeys'
    BY <1>3 DEF UpdateReads, DueInv, StillDue, RequestKeys
  <2> QED BY <2>3, <2>4 DEF DueInv
<1>4. ASSUME NEW r \in Routines, UpdateWrites(r) \/ UpdateFails(r) PROVE DueInv'
  <2>1. UNCHANGED <<created, gone, nextDue, saw, now>>
    BY <1>4 DEF UpdateWrites, UpdateFails, DueInv, DueUntilRetired
  <2>2. \A q \in Routines : edit'[q] \in {edit[q], Unread}
    BY <1>4 DEF UpdateWrites, UpdateFails, TypeOK
  <2> QED BY <1>a, <2>1, <2>2, QuietDue
<1>5. ASSUME NEW h \in Hooks, HookReads(h) PROVE DueInv'
  <2> DEFINE S == {r \in active \ gone : Hears(h, r)}
             F == {r \in S : Decide(Event[h], Feed[r]) # "no"}
             R == Reading(0, S, F, [r \in Routines |-> <<"hook", Event[h].key>>])
  <2>1. saw' = [saw EXCEPT ![h] = R]
    BY <1>5 DEF HookReads
  <2>2. \A r \in Routines : R.key[r][1] # "interval"
    BY DEF Reading
  <2> HIDE DEF R
  <2> QED BY <1>5, <2>1, <2>2, RequestReadsDue DEF HookReads
<1>6. ASSUME NEW q \in Manual, ManualReads(q) PROVE DueInv'
  <2> DEFINE R == Reading(0, {}, {RunOf[q]}, [r \in Routines |-> <<"manual", 0>>])
  <2>1. saw' = [saw EXCEPT ![q] = R]
    BY <1>6 DEF ManualReads
  <2>2. \A r \in Routines : R.key[r][1] # "interval"
    BY DEF Reading
  <2> HIDE DEF R
  <2> QED BY <1>6, <2>1, <2>2, RequestReadsDue DEF ManualReads
<1>7. ASSUME NEW t \in Tasks, saw' = [saw EXCEPT ![t] = Unread],
             UNCHANGED <<created, gone, nextDue, edit, now>>
      PROVE  DueInv'
  BY <1>7, <1>a, <1>b, QuietDue
<1>8. ASSUME NEW h \in Hooks, HookWrites(h) PROVE DueInv'
  BY <1>8, <1>7 DEF HookWrites, Tasks
<1>9. ASSUME NEW q \in Manual, ManualWrites(q) PROVE DueInv'
  BY <1>9, <1>7 DEF ManualWrites, Tasks
<1>10. ASSUME NEW t \in Hooks \cup Manual, RequestFails(t) PROVE DueInv'
  BY <1>10, <1>7 DEF RequestFails, Tasks
<1>11. CASE PassFails
  BY <1>11, <1>7 DEF PassFails, Tasks
<1>12. ASSUME UNCHANGED <<created, gone, nextDue, edit, saw>>, now' \in {now, now + 1}
       PROVE  DueInv'
  BY <1>12, <1>a, QuietDue
<1>13. ASSUME \/ \E a \in Agents : RetireAgent(a)
              \/ \E l \in Loops : ScheduleLoop(l)
              \/ \E x \in open : SettleWake(x)
              \/ Tick
              \/ UNCHANGED vars
       PROVE  DueInv'
  BY <1>13, <1>12 DEF RetireAgent, ScheduleLoop, SettleWake, Tick, vars
<1>14. CASE Restart
  <2>1. /\ \A r \in Routines : edit'[r] = Unread
        /\ \A t \in Tasks : saw'[t] = Unread
        /\ UNCHANGED <<created, gone, nextDue, now>>
    BY <1>14 DEF Restart
  <2> QED BY <1>a, <2>1, QuietDue
<1> QED
  BY <1>1, <1>2, <1>3, <1>4, <1>5, <1>6, <1>8, <1>9, <1>10, <1>11, <1>13, <1>14,
     PassReadsDue, PassWritesDue DEF Next

\* Whoever fires, opens wakes with the keys of its reading.
LEMMA FiredKeys ==
    ASSUME TypeOK, NEW t \in Tasks, saw[t] # Unread, Fire(saw[t]), NEW r \in Routines,
           NEW d \in DueTimes(r)
    PROVE  r \in saw[t].fires /\ saw[t].key[r][1] = "interval" /\ saw[t].key[r][2] = d
<1>1. PICK x \in open' \ open : x[1] = r /\ x[2][1] = "interval" /\ x[2][2] = d
  BY DEF DueTimes
<1>2. PICK q \in Fresh(saw[t]) : x = <<q, saw[t].key[q]>>
  BY <1>1 DEF Fire
<1> QED BY <1>1, <1>2 DEF Fresh

LEMMA StepLeavesBehind == TypeOK /\ DueInv /\ Next => LeavesBehind
<1> SUFFICES ASSUME TypeOK, DueInv, Next, NEW r \in Routines
             PROVE  /\ nextDue[r] # Never => nextDue'[r] = Never \/ nextDue[r] <= nextDue'[r]
                    /\ \A d \in DueTimes(r) : nextDue[r] \in {d, Never} /\ d < nextDue'[r]
  BY DEF LeavesBehind
<1> USE DEF rowVars, fireVars, editVars, loopVars
<1>a. nextDue[r] # Never => nextDue[r] \in Nat /\ nextDue[r] <= nextDue[r]
  BY DEF TypeOK
<1>1. ASSUME open' \subseteq open, nextDue'[r] = nextDue[r] \/ nextDue'[r] = Never \/ nextDue[r] = Never
      PROVE  /\ nextDue[r] # Never => nextDue'[r] = Never \/ nextDue[r] <= nextDue'[r]
             /\ \A d \in DueTimes(r) : nextDue[r] \in {d, Never} /\ d < nextDue'[r]
  BY <1>1, <1>a DEF DueTimes
<1>2. ASSUME NEW t \in Hooks \cup Manual, saw[t] # Unread, Fire(saw[t]), UNCHANGED nextDue
      PROVE  /\ nextDue[r] # Never => nextDue'[r] = Never \/ nextDue[r] <= nextDue'[r]
             /\ \A d \in DueTimes(r) : nextDue[r] \in {d, Never} /\ d < nextDue'[r]
  <2>1. DueTimes(r) = {}
    BY <1>2, FiredKeys DEF DueInv, RequestKeys, Tasks
  <2> QED BY <1>2, <1>a, <2>1
<1>3. CASE PassWrites
  <2> DEFINE R == saw[Pass]
  <2>1. /\ R # Unread /\ Fire(R)
        /\ nextDue'[r] = IF r \in R.fires /\ Interval[r] > 0 THEN R.at + Interval[r]
                         ELSE nextDue[r]
    BY <1>3 DEF PassWrites
  <2>2. CASE r \notin R.fires
    <3>1. DueTimes(r) = {}
      BY <2>1, <2>2, FiredKeys DEF Tasks
    <3> QED BY <1>a, <2>1, <2>2, <3>1
  <2>3. CASE r \in R.fires
    <3>1. /\ Interval[r] \in Nat /\ Interval[r] > 0 /\ R.at \in Nat
          /\ R.key[r][2] \in Nat /\ R.key[r][2] <= R.at /\ nextDue[r] \in {R.key[r][2], Never}
      <4>1. R \in Readings
        BY <2>1 DEF TypeOK, Tasks
      <4>2. R.key[r] \in Keys /\ R.at \in Nat
        BY <4>1 DEF Readings
      <4> QED BY <2>1, <2>3, <4>2, RoutineAssumption DEF DueInv, StillDue, Keys, TypeOK
    <3>2. R.key[r][2] < nextDue'[r]
      BY <2>1, <2>3, <3>1
    <3>3. \A d \in DueTimes(r) : d = R.key[r][2]
      BY <2>1, FiredKeys DEF Tasks
    <3> HIDE DEF R
    <3>4. \A d \in DueTimes(r) : nextDue[r] \in {d, Never} /\ d < nextDue'[r]
      BY <3>1, <3>2, <3>3
    <3>5. nextDue[r] # Never => nextDue[r] <= nextDue'[r]
      BY <2>1, <2>3, <3>1
    <3> QED BY <3>4, <3>5
  <2> QED BY <2>2, <2>3
<1>4. ASSUME NEW q \in Routines, UpdateWrites(q)
      PROVE  open' = open /\ nextDue' = nextDue
  BY <1>4 DEF UpdateWrites, DueInv, DueUntilRetired
<1>5. ASSUME NEW q \in Routines, CreateRoutine(q) \/ RetireRoutine(q)
      PROVE  open' = open
             /\ (nextDue'[r] = nextDue[r] \/ nextDue'[r] = Never \/ nextDue[r] = Never)
  BY <1>5 DEF CreateRoutine, RetireRoutine, DueInv, DueUntilRetired, TypeOK
<1>6. ASSUME \/ \E q \in Routines : UpdateFails(q) \/ \E on \in BOOLEAN : UpdateReads(q, on)
             \/ \E a \in Agents : RetireAgent(a)
             \/ \E l \in Loops : ScheduleLoop(l)
             \/ \E h \in Hooks : HookReads(h)
             \/ \E q \in Manual : ManualReads(q)
             \/ \E t \in Hooks \cup Manual : RequestFails(t)
             \/ PassReads \/ PassFails \/ Restart \/ Tick
             \/ \E x \in open : SettleWake(x)
      PROVE  open' \subseteq open /\ nextDue' = nextDue
  BY <1>6 DEF UpdateFails, UpdateReads, RetireAgent, ScheduleLoop, HookReads, ManualReads,
              RequestFails, PassReads, PassFails, Restart, Tick, SettleWake
<1>7. ASSUME (\E h \in Hooks : HookWrites(h)) \/ (\E q \in Manual : ManualWrites(q))
      PROVE  \E t \in Hooks \cup Manual : saw[t] # Unread /\ Fire(saw[t]) /\ UNCHANGED nextDue
  BY <1>7 DEF HookWrites, ManualWrites
<1> QED BY <1>1, <1>2, <1>3, <1>4, <1>5, <1>6, <1>7 DEF Next

\* A routine fires at most once for each time it is due (fire_due_routines_and_loops,
\* _fire_routine), for any routines, requests, updates, retirements and restarts.
THEOREM FiresOnce == Spec => FiresOnceWhenDue
<1>1. TypeOK /\ DueInv /\ [Next]_vars => DueInv'
  BY NextDue
<1>2. TypeOK /\ DueInv /\ [Next]_vars => [LeavesBehind]_vars
  BY StepLeavesBehind
<1> QED BY <1>1, <1>2, InitDue, TypeCorrect, PTL DEF Spec, FiresOnceWhenDue
=============================================================================
