--------------------------- MODULE GroupRoundsProofs ---------------------------
(***************************************************************************)
(* Proofs about the rounds of a group chat, for any number of posts,       *)
(* teammates, rounds and crashes.  The argument follows the outcomes: a    *)
(* round is open exactly while one of its wakes is, and the round after it *)
(* is untouched until its own outcome is "next".  The same argument shows  *)
(* that the handlers together implement RoundsPromise.                     *)
(***************************************************************************)
EXTENDS GroupRounds, TLAPS

IsOpen(w) == wake[w] \in {"pending", "claimed"}

\* The handler that holds the write lock has its wake claimed.
WriterHasClaim == writer # Nobody => wake[writer] = "claimed"

\* A wake that is not closed keeps its round open, and a wake has a round.
OpenWakesKeepRound ==
    \A w \in Wakes : IsOpen(w) => outcome[PostOf(w)][RoundOf(w)] = "open"
WakesHaveRound ==
    \A w \in Wakes : wake[w] # "absent" => outcome[PostOf(w)][RoundOf(w)] # "none"

\* An open round has a wake that is not closed.
RoundHasOpenWake ==
    \A m \in Posts, s \in Rounds : outcome[m][s] = "open" =>
      \E w \in Wakes : PostOf(w) = m /\ RoundOf(w) = s /\ IsOpen(w)

\* A round begins only after the verdict "next" of the one before it.
BeginsAfterNext ==
    \A m \in Posts, s \in Rounds : s + 1 \in Rounds /\ outcome[m][s] # "next" =>
      outcome[m][s + 1] = "none"

\* That verdict needs answers and a round that is not the last.
NextHasAnswers ==
    \A m \in Posts, s \in Rounds : outcome[m][s] = "next" =>
      s < MaxRounds /\ collected[m][s] # {}

UnpostedIsFresh == \A m \in Posts \ posted : outcome[m][1] = "none"

IInv ==
    /\ TypeOK
    /\ WriterHasClaim
    /\ OpenWakesKeepRound
    /\ WakesHaveRound
    /\ RoundHasOpenWake
    /\ BeginsAfterNext
    /\ NextHasAnswers
    /\ UnpostedIsFresh

-----------------------------------------------------------------------------
LEMMA WakeParts ==
    \A w \in Wakes : PostOf(w) \in Posts /\ RoundOf(w) \in Rounds /\ AgentOf(w) \in Agents
BY DEF Wakes, PostOf, RoundOf, AgentOf

LEMMA WakeOfParts ==
    ASSUME NEW m \in Posts, NEW s \in Rounds, NEW a \in Agents
    PROVE  /\ <<m, s, a>> \in Wakes
           /\ PostOf(<<m, s, a>>) = m /\ RoundOf(<<m, s, a>>) = s /\ AgentOf(<<m, s, a>>) = a
BY DEF Wakes, PostOf, RoundOf, AgentOf

LEMMA InitInvariant == Init => IInv
<1> SUFFICES ASSUME Init PROVE IInv
  OBVIOUS
<1> USE GroupAssumption, NobodyAssumption
<1>1. TypeOK
  BY DEF Init, TypeOK, Outcomes
<1>2. WriterHasClaim
  BY DEF Init, WriterHasClaim
<1>3. \A m \in Posts, s \in Rounds : outcome[m][s] = "none"
  BY DEF Init
<1>4. \A w \in Wakes : wake[w] = "absent"
  BY DEF Init
<1>5. OpenWakesKeepRound /\ WakesHaveRound
  BY <1>4 DEF OpenWakesKeepRound, WakesHaveRound, IsOpen
<1>6. RoundHasOpenWake /\ BeginsAfterNext /\ NextHasAnswers
  BY <1>3 DEF RoundHasOpenWake, BeginsAfterNext, NextHasAnswers
<1>7. UnpostedIsFresh
  BY <1>3 DEF UnpostedIsFresh, Rounds
<1> QED BY <1>1, <1>2, <1>5, <1>6, <1>7 DEF IInv

-----------------------------------------------------------------------------
\* Steps that open or close no wake and touch no outcome keep everything: all that is
\* needed is that they leave the lock with a claimed wake.
LEMMA QuietStep ==
    ASSUME IInv, TypeOK', WriterHasClaim',
           \A w \in Wakes : wake'[w] = wake[w] \/ (IsOpen(w) /\ IsOpen(w)'),
           UNCHANGED <<posted, outcome, collected>>
    PROVE  IInv'
<1>1. \A w \in Wakes : /\ IsOpen(w)' <=> IsOpen(w)
                       /\ wake'[w] # "absent" <=> wake[w] # "absent"
  BY DEF IsOpen
<1>2. OpenWakesKeepRound' /\ WakesHaveRound'
  BY <1>1 DEF IInv, OpenWakesKeepRound, WakesHaveRound
<1>3. RoundHasOpenWake'
  BY <1>1 DEF IInv, RoundHasOpenWake
<1>4. BeginsAfterNext' /\ NextHasAnswers' /\ UnpostedIsFresh'
  BY DEF IInv, BeginsAfterNext, NextHasAnswers, UnpostedIsFresh
<1> QED BY <1>2, <1>3, <1>4 DEF IInv

\* Adding the pending wakes of a round that has not begun, and marking it open.
LEMMA SendKeeps ==
    ASSUME IInv, NEW p \in People, NEW m \in Posts, SendMessage(p, m)
    PROVE  IInv'
<1> USE GroupAssumption, NobodyAssumption
<1> DEFINE T == ActiveAgents \ {p}
<1>1. /\ m \notin posted /\ posted' = posted \cup {m}
      /\ writer = Nobody
      /\ wake' = Enqueued(m, 1, T)
      /\ outcome' = IF T = {} THEN outcome ELSE [outcome EXCEPT ![m][1] = "open"]
      /\ UNCHANGED <<members, retired, answer, collected, writer, crashes>>
  BY DEF SendMessage
<1>2. 1 \in Rounds
  BY DEF Rounds
<1>3. T \subseteq Agents
  BY DEF ActiveAgents
<1>4. /\ wake \in [Wakes -> {"absent", "pending", "claimed", "closed"}]
      /\ outcome \in [Posts -> [Rounds -> Outcomes]]
  BY DEF IInv, TypeOK
<1>5. \A w \in Wakes : wake'[w] = IF PostOf(w) = m /\ RoundOf(w) = 1 /\ AgentOf(w) \in T
                                  THEN "pending" ELSE wake[w]
  BY <1>1 DEF Enqueued
<1>6. \A n \in Posts, r \in Rounds :
        outcome'[n][r] = IF T # {} /\ n = m /\ r = 1 THEN "open" ELSE outcome[n][r]
  BY <1>1, <1>2, <1>4
<1>7. TypeOK'
  <2>1. wake' \in [Wakes -> {"absent", "pending", "claimed", "closed"}]
    BY <1>1, <1>4 DEF Enqueued
  <2>2. outcome' \in [Posts -> [Rounds -> Outcomes]]
    BY <1>1, <1>4 DEF Outcomes
  <2> QED BY <1>1, <2>1, <2>2 DEF IInv, TypeOK
<1>8. outcome[m][1] = "none"
  BY <1>1 DEF IInv, UnpostedIsFresh
<1>9. WriterHasClaim'
  BY <1>1 DEF WriterHasClaim
<1>10. OpenWakesKeepRound' /\ WakesHaveRound'
  <2> SUFFICES ASSUME NEW w \in Wakes
               PROVE  /\ IsOpen(w)' => outcome'[PostOf(w)][RoundOf(w)] = "open"
                      /\ wake'[w] # "absent" => outcome'[PostOf(w)][RoundOf(w)] # "none"
    BY DEF OpenWakesKeepRound, WakesHaveRound
  <2>1. PostOf(w) \in Posts /\ RoundOf(w) \in Rounds
    BY WakeParts
  <2>2. CASE PostOf(w) = m /\ RoundOf(w) = 1 /\ AgentOf(w) \in T
    <3>1. outcome'[PostOf(w)][RoundOf(w)] = "open"
      BY <2>1, <2>2, <1>6
    <3> QED BY <3>1
  <2>3. CASE ~(PostOf(w) = m /\ RoundOf(w) = 1 /\ AgentOf(w) \in T)
    <3>1. wake'[w] = wake[w]
      BY <2>3, <1>5
    <3>2. wake[w] = "absent" \/ outcome[PostOf(w)][RoundOf(w)] # "none"
      BY DEF IInv, WakesHaveRound
    <3>3. wake[w] # "absent" =>
            outcome'[PostOf(w)][RoundOf(w)] = outcome[PostOf(w)][RoundOf(w)]
      BY <2>1, <3>2, <1>6, <1>8
    <3> QED BY <3>1, <3>2, <3>3 DEF IInv, OpenWakesKeepRound, IsOpen
  <2> QED BY <2>2, <2>3
<1>11. RoundHasOpenWake'
  <2> SUFFICES ASSUME NEW n \in Posts, NEW r \in Rounds, outcome'[n][r] = "open"
               PROVE  \E w \in Wakes : PostOf(w) = n /\ RoundOf(w) = r /\ IsOpen(w)'
    BY DEF RoundHasOpenWake
  <2>1. CASE T # {} /\ n = m /\ r = 1
    <3>1. PICK a \in T : TRUE
      BY <2>1
    <3>2. /\ <<m, 1, a>> \in Wakes
          /\ PostOf(<<m, 1, a>>) = m /\ RoundOf(<<m, 1, a>>) = 1
          /\ AgentOf(<<m, 1, a>>) = a
      BY <1>2, <1>3, WakeOfParts
    <3>3. wake'[<<m, 1, a>>] = "pending"
      BY <3>2, <1>5
    <3> QED BY <2>1, <3>2, <3>3 DEF IsOpen
  <2>2. CASE ~(T # {} /\ n = m /\ r = 1)
    <3>1. PICK w \in Wakes : PostOf(w) = n /\ RoundOf(w) = r /\ IsOpen(w)
      BY <2>2, <1>6 DEF IInv, RoundHasOpenWake
    <3> QED BY <3>1, <1>5 DEF IsOpen
  <2> QED BY <2>1, <2>2
<1>12. BeginsAfterNext'
  BY <1>6, <1>8 DEF IInv, BeginsAfterNext, Rounds
<1>13. NextHasAnswers' /\ UnpostedIsFresh'
  BY <1>1, <1>2, <1>6 DEF IInv, NextHasAnswers, UnpostedIsFresh
<1> QED BY <1>7, <1>9, <1>10, <1>11, <1>12, <1>13 DEF IInv

-----------------------------------------------------------------------------
\* The handler of a wake closes it; another wake of the round is still open.
LEMMA StillOpenKeeps ==
    ASSUME IInv, NEW w \in Wakes, SiblingStillOpen(w)
    PROVE  IInv'
<1>1. TypeOK' /\ WriterHasClaim'
  BY DEF IInv, TypeOK, WriterHasClaim, SiblingStillOpen
<1>2. /\ \A v \in Wakes : wake'[v] = IF v = w THEN "closed" ELSE wake[v]
      /\ wake[w] = "claimed"
      /\ UNCHANGED <<posted, outcome, collected>>
  BY NobodyAssumption DEF IInv, TypeOK, WriterHasClaim, SiblingStillOpen
<1>3. OpenWakesKeepRound' /\ WakesHaveRound'
  BY <1>2 DEF IInv, OpenWakesKeepRound, WakesHaveRound, IsOpen
<1>4. PICK v \in Siblings(w) \ {w} : IsOpen(v)
  BY DEF SiblingStillOpen, SiblingsOpen, IsOpen
<1>5. v \in Wakes /\ v # w /\ PostOf(v) = PostOf(w) /\ RoundOf(v) = RoundOf(w)
  BY DEF Siblings
<1>6. RoundHasOpenWake'
  <2> SUFFICES ASSUME NEW m \in Posts, NEW s \in Rounds, outcome[m][s] = "open"
               PROVE  \E u \in Wakes : PostOf(u) = m /\ RoundOf(u) = s /\ IsOpen(u)'
    BY <1>2 DEF RoundHasOpenWake
  <2>1. PICK u \in Wakes : PostOf(u) = m /\ RoundOf(u) = s /\ IsOpen(u)
    BY DEF IInv, RoundHasOpenWake
  <2>2. CASE u = w
    BY <2>1, <2>2, <1>2, <1>4, <1>5 DEF IsOpen
  <2>3. CASE u # w
    BY <2>1, <2>3, <1>2 DEF IsOpen
  <2> QED BY <2>2, <2>3
<1>7. BeginsAfterNext' /\ NextHasAnswers' /\ UnpostedIsFresh'
  BY <1>2 DEF IInv, BeginsAfterNext, NextHasAnswers, UnpostedIsFresh
<1> QED BY <1>1, <1>3, <1>6, <1>7 DEF IInv

-----------------------------------------------------------------------------
\* What settling does, read off row by row.
LEMMA SettleEffect ==
    ASSUME IInv, NEW w \in Wakes, SettleGroupRound(w)
    PROVE  LET m == PostOf(w)
               s == RoundOf(w)
               next == Verdict(w) = "next"
           IN  /\ wake[w] = "claimed" /\ outcome[m][s] = "open"
               /\ Verdict(w) \in {"next", "end", "cap"}
               /\ next => /\ s < MaxRounds /\ Responders(w) # {}
                          /\ NextTargets(w) # {} /\ s + 1 \in Rounds
               /\ \A v \in Wakes : wake'[v] =
                    IF v = w THEN "closed"
                    ELSE IF next /\ PostOf(v) = m /\ RoundOf(v) = s + 1
                            /\ AgentOf(v) \in NextTargets(w) THEN "pending"
                    ELSE wake[v]
               /\ \A n \in Posts, r \in Rounds : outcome'[n][r] =
                    IF n = m /\ r = s THEN Verdict(w)
                    ELSE IF n = m /\ next /\ r = s + 1 THEN "open"
                    ELSE outcome[n][r]
               /\ \A n \in Posts, r \in Rounds : collected'[n][r] =
                    IF n = m /\ r = s THEN Responders(w) ELSE collected[n][r]
               /\ \A v \in Wakes : PostOf(v) = m /\ RoundOf(v) = s /\ v # w => ~IsOpen(v)
               /\ TypeOK' /\ WriterHasClaim'
<1> USE GroupAssumption, NobodyAssumption
<1> DEFINE m == PostOf(w)
           s == RoundOf(w)
           next == Verdict(w) = "next"
<1>1. m \in Posts /\ s \in Rounds
  BY WakeParts
<1>2. /\ writer = w /\ ~SiblingsOpen(w)
      /\ wake' = [(IF next THEN Enqueued(m, s + 1, NextTargets(w)) ELSE wake)
                    EXCEPT ![w] = "closed"]
      /\ outcome' = [outcome EXCEPT ![m] =
                       [r \in Rounds |-> IF r = s THEN Verdict(w)
                                         ELSE IF next /\ r = s + 1 THEN "open"
                                         ELSE outcome[m][r]]]
      /\ collected' = [collected EXCEPT ![m][s] = Responders(w)]
      /\ writer' = Nobody
      /\ UNCHANGED <<members, retired, posted, answer, crashes>>
  BY DEF SettleGroupRound
<1>3. /\ wake \in [Wakes -> {"absent", "pending", "claimed", "closed"}]
      /\ outcome \in [Posts -> [Rounds -> Outcomes]]
      /\ collected \in [Posts -> [Rounds -> SUBSET Agents]]
  BY DEF IInv, TypeOK
<1>4. wake[w] = "claimed"
  BY <1>2 DEF IInv, WriterHasClaim
<1>5. outcome[m][s] = "open"
  BY <1>4 DEF IInv, OpenWakesKeepRound, IsOpen
<1>6. Verdict(w) \in {"next", "end", "cap"}
  BY DEF Verdict
<1>7. next => /\ s < MaxRounds /\ Responders(w) # {} /\ NextTargets(w) # {}
              /\ s + 1 \in Rounds
  BY <1>1 DEF Verdict, Rounds
<1>8. \A v \in Wakes : wake'[v] =
        IF v = w THEN "closed"
        ELSE IF next /\ PostOf(v) = m /\ RoundOf(v) = s + 1 /\ AgentOf(v) \in NextTargets(w)
        THEN "pending" ELSE wake[v]
  <2>1. CASE next
    BY <2>1, <1>2, <1>3 DEF Enqueued
  <2>2. CASE ~next
    BY <2>2, <1>2, <1>3
  <2> QED BY <2>1, <2>2
<1>9. \A n \in Posts, r \in Rounds : outcome'[n][r] =
        IF n = m /\ r = s THEN Verdict(w)
        ELSE IF n = m /\ next /\ r = s + 1 THEN "open"
        ELSE outcome[n][r]
  BY <1>1, <1>2, <1>3
<1>10. \A n \in Posts, r \in Rounds : collected'[n][r] =
         IF n = m /\ r = s THEN Responders(w) ELSE collected[n][r]
  BY <1>1, <1>2, <1>3
<1>11. \A v \in Wakes : PostOf(v) = m /\ RoundOf(v) = s /\ v # w => ~IsOpen(v)
  BY <1>2 DEF SiblingsOpen, Siblings, IsOpen
<1>12. Responders(w) \subseteq Agents
  BY WakeParts DEF Responders, Siblings
<1>13. TypeOK'
  <2>1. wake' \in [Wakes -> {"absent", "pending", "claimed", "closed"}]
    <3>1. Enqueued(m, s + 1, NextTargets(w))
            \in [Wakes -> {"absent", "pending", "claimed", "closed"}]
      BY <1>3 DEF Enqueued
    <3>2. CASE next
      BY <3>1, <3>2, <1>2
    <3>3. CASE ~next
      BY <3>3, <1>2, <1>3
    <3> QED BY <3>2, <3>3
  <2>2. outcome' \in [Posts -> [Rounds -> Outcomes]]
    <3>1. [r \in Rounds |-> IF r = s THEN Verdict(w)
                            ELSE IF next /\ r = s + 1 THEN "open"
                            ELSE outcome[m][r]] \in [Rounds -> Outcomes]
      <4>1. outcome[m] \in [Rounds -> Outcomes]
        BY <1>1, <1>3
      <4>2. Verdict(w) \in Outcomes /\ "open" \in Outcomes
        BY <1>6 DEF Outcomes
      <4> QED BY <4>1, <4>2
    <3> QED BY <3>1, <1>2, <1>3
  <2>3. collected' \in [Posts -> [Rounds -> SUBSET Agents]]
    BY <1>2, <1>3, <1>12
  <2> QED BY <1>2, <2>1, <2>2, <2>3 DEF IInv, TypeOK
<1>14. WriterHasClaim'
  BY <1>2 DEF WriterHasClaim
<1> QED
  BY <1>4, <1>5, <1>6, <1>7, <1>8, <1>9, <1>10, <1>11, <1>13, <1>14

LEMMA SettleKeeps ==
    ASSUME IInv, NEW w \in Wakes, SettleGroupRound(w)
    PROVE  IInv'
<1> USE GroupAssumption
<1> DEFINE m == PostOf(w)
           s == RoundOf(w)
           next == Verdict(w) = "next"
<1>0. posted' = posted
  BY DEF SettleGroupRound
<1>1. m \in Posts /\ s \in Rounds
  BY WakeParts
<1>2. /\ wake[w] = "claimed" /\ outcome[m][s] = "open"
      /\ Verdict(w) \in {"next", "end", "cap"}
      /\ next => s < MaxRounds /\ Responders(w) # {} /\ NextTargets(w) # {} /\ s + 1 \in Rounds
  BY SettleEffect
<1>3. \A v \in Wakes : wake'[v] =
        IF v = w THEN "closed"
        ELSE IF next /\ PostOf(v) = m /\ RoundOf(v) = s + 1 /\ AgentOf(v) \in NextTargets(w)
        THEN "pending" ELSE wake[v]
  BY SettleEffect
<1>4. \A n \in Posts, r \in Rounds : outcome'[n][r] =
        IF n = m /\ r = s THEN Verdict(w)
        ELSE IF n = m /\ next /\ r = s + 1 THEN "open"
        ELSE outcome[n][r]
  BY SettleEffect
<1>5. \A n \in Posts, r \in Rounds : collected'[n][r] =
         IF n = m /\ r = s THEN Responders(w) ELSE collected[n][r]
  BY SettleEffect
<1>6. \A v \in Wakes : PostOf(v) = m /\ RoundOf(v) = s /\ v # w => ~IsOpen(v)
  BY SettleEffect
<1>7. TypeOK' /\ WriterHasClaim'
  BY SettleEffect
<1>8. s \in Nat /\ s # s + 1
  BY <1>1 DEF Rounds
<1>9. s + 1 \in Rounds => outcome[m][s + 1] = "none"
  BY <1>1, <1>2 DEF IInv, BeginsAfterNext
<1>10. OpenWakesKeepRound' /\ WakesHaveRound'
  <2> SUFFICES ASSUME NEW v \in Wakes
               PROVE  /\ IsOpen(v)' => outcome'[PostOf(v)][RoundOf(v)] = "open"
                      /\ wake'[v] # "absent" => outcome'[PostOf(v)][RoundOf(v)] # "none"
    BY DEF OpenWakesKeepRound, WakesHaveRound
  <2>1. PostOf(v) \in Posts /\ RoundOf(v) \in Rounds
    BY WakeParts
  <2>2. CASE v = w
    BY <2>1, <2>2, <1>2, <1>3, <1>4 DEF IsOpen
  <2>3. CASE v # w /\ next /\ PostOf(v) = m /\ RoundOf(v) = s + 1
    BY <2>1, <2>3, <1>4, <1>8
  <2>4. CASE v # w /\ PostOf(v) = m /\ RoundOf(v) = s
    <3>1. wake'[v] = wake[v] /\ ~IsOpen(v)
      BY <2>4, <1>3, <1>6, <1>8
    <3>2. outcome'[PostOf(v)][RoundOf(v)] \in {"next", "end", "cap"}
      BY <2>1, <2>4, <1>2, <1>4
    <3> QED BY <3>1, <3>2 DEF IsOpen
  <2>5. CASE /\ v # w
             /\ ~(next /\ PostOf(v) = m /\ RoundOf(v) = s + 1)
             /\ ~(PostOf(v) = m /\ RoundOf(v) = s)
    <3>1. /\ wake'[v] = wake[v]
          /\ outcome'[PostOf(v)][RoundOf(v)] = outcome[PostOf(v)][RoundOf(v)]
      BY <2>1, <2>5, <1>3, <1>4
    <3> QED BY <3>1 DEF IInv, OpenWakesKeepRound, WakesHaveRound, IsOpen
  <2> QED BY <2>2, <2>3, <2>4, <2>5
<1>11. RoundHasOpenWake'
  <2> SUFFICES ASSUME NEW n \in Posts, NEW r \in Rounds, outcome'[n][r] = "open"
               PROVE  \E v \in Wakes : PostOf(v) = n /\ RoundOf(v) = r /\ IsOpen(v)'
    BY DEF RoundHasOpenWake
  <2>1. CASE n = m /\ r = s
    BY <2>1, <1>2, <1>4
  <2>2. CASE n = m /\ next /\ r = s + 1
    <3>1. PICK a \in NextTargets(w) : TRUE
      BY <2>2, <1>2
    <3>2. a \in Agents
      BY DEF NextTargets, ActiveAgents
    <3>3. /\ <<m, s + 1, a>> \in Wakes
          /\ PostOf(<<m, s + 1, a>>) = m /\ RoundOf(<<m, s + 1, a>>) = s + 1
          /\ AgentOf(<<m, s + 1, a>>) = a
      BY <2>2, <3>2, <1>1, <1>2, WakeOfParts
    <3>4. wake'[<<m, s + 1, a>>] = "pending"
      BY <2>2, <3>1, <3>3, <1>3, <1>8
    <3> QED BY <2>2, <3>3, <3>4 DEF IsOpen
  <2>3. CASE ~(n = m /\ r = s) /\ ~(n = m /\ next /\ r = s + 1)
    <3>1. PICK v \in Wakes : PostOf(v) = n /\ RoundOf(v) = r /\ IsOpen(v)
      BY <2>3, <1>4 DEF IInv, RoundHasOpenWake
    <3>2. wake'[v] = wake[v]
      BY <2>3, <3>1, <1>3
    <3> QED BY <3>1, <3>2 DEF IsOpen
  <2> QED BY <2>1, <2>2, <2>3
<1>12. BeginsAfterNext'
  <2> SUFFICES ASSUME NEW n \in Posts, NEW r \in Rounds, r + 1 \in Rounds,
                      outcome'[n][r] # "next"
               PROVE  outcome'[n][r + 1] = "none"
    BY DEF BeginsAfterNext
  <2>1. r \in Nat
    BY DEF Rounds
  <2>2. CASE n = m /\ r = s
    <3>1. ~next
      BY <2>2, <1>4
    <3> QED BY <2>2, <3>1, <1>4, <1>8, <1>9
  <2>3. CASE ~(n = m /\ r = s)
    <3>1. outcome[n][r] # "next"
      BY <2>3, <1>4, <1>9
    <3>2. outcome[n][r + 1] = "none"
      BY <3>1 DEF IInv, BeginsAfterNext
    <3>3. ~(n = m /\ r + 1 = s)
      BY <3>2, <1>2
    <3>4. ~(n = m /\ next /\ r + 1 = s + 1)
      BY <2>1, <2>3, <1>8
    <3> QED BY <3>2, <3>3, <3>4, <1>4
  <2> QED BY <2>2, <2>3
<1>13. NextHasAnswers'
  BY <1>2, <1>4, <1>5 DEF IInv, NextHasAnswers
<1>14. UnpostedIsFresh'
  <2>1. m \in posted \/ s # 1
    BY <1>1, <1>2 DEF IInv, UnpostedIsFresh
  <2>2. 1 \in Rounds /\ 1 # s + 1
    BY <1>1 DEF Rounds
  <2>3. ASSUME NEW n \in Posts \ posted PROVE outcome'[n][1] = "none"
    <3>1. outcome'[n][1] = outcome[n][1]
      BY <1>4, <2>1, <2>2, <2>3
    <3> QED BY <3>1 DEF IInv, UnpostedIsFresh
  <2> QED BY <1>0, <2>3 DEF UnpostedIsFresh
<1> QED BY <1>7, <1>10, <1>11, <1>12, <1>13, <1>14 DEF IInv

-----------------------------------------------------------------------------
LEMMA NextInvariant == IInv /\ [Next]_vars => IInv'
<1> SUFFICES ASSUME IInv, [Next]_vars PROVE IInv'
  OBVIOUS
<1> USE GroupAssumption, NobodyAssumption
<1>1. ASSUME NEW p \in People, Invite(p) PROVE IInv'
  BY <1>1, QuietStep DEF Invite, IInv, TypeOK, WriterHasClaim
<1>2. ASSUME NEW a \in Agents, RetireAgent(a) PROVE IInv'
  BY <1>2, QuietStep DEF RetireAgent, IInv, TypeOK, WriterHasClaim
<1>3. ASSUME NEW w \in Wakes, ClaimWake(w) PROVE IInv'
  BY <1>3, QuietStep DEF ClaimWake, IInv, TypeOK, WriterHasClaim, IsOpen
<1>4. ASSUME NEW w \in Wakes, AnswerBegins(w) \/ AnswerCommits(w) \/ AnswerFails(w)
      PROVE  IInv'
  BY <1>4, QuietStep
     DEF AnswerBegins, AnswerCommits, AnswerFails, IInv, TypeOK, WriterHasClaim
<1>5. ASSUME NEW w \in Wakes, RunEnds(w) PROVE IInv'
  BY <1>5, QuietStep DEF RunEnds, IInv, TypeOK, WriterHasClaim
<1>6. CASE Crash
  <2>1. TypeOK' /\ WriterHasClaim'
    BY <1>6 DEF Crash, IInv, TypeOK, WriterHasClaim
  <2>2. \A w \in Wakes : wake'[w] = wake[w] \/ (IsOpen(w) /\ IsOpen(w)')
    BY <1>6 DEF Crash, IsOpen
  <2>3. UNCHANGED <<posted, outcome, collected>>
    BY <1>6 DEF Crash
  <2> QED BY <2>1, <2>2, <2>3, QuietStep
<1>7. CASE UNCHANGED vars
  BY <1>7, QuietStep DEF vars, IInv, TypeOK, WriterHasClaim
<1> QED
  BY <1>1, <1>2, <1>3, <1>4, <1>5, <1>6, <1>7, SendKeeps, StillOpenKeeps, SettleKeeps
     DEF Next

\* Every reachable state satisfies IInv.
THEOREM Invariance == Spec => []IInv
  BY InitInvariant, NextInvariant, PTL DEF Spec

\* The state is well typed.
THEOREM TypeCorrect == Spec => []TypeOK
<1>1. IInv => TypeOK
  BY DEF IInv
<1> QED BY <1>1, Invariance, PTL

\* A round with wakes is open exactly while one of them is: whoever closes the last one
\* settles the round, and nobody does before (settle_group_round).
THEOREM LastSettles == Spec => []LastOneSettles
<1>1. IInv => LastOneSettles
  <2> SUFFICES ASSUME IInv, NEW m \in Posts, NEW s \in Rounds
               PROVE  outcome[m][s] = "open" <=> ~AllClosed(m, s)
    BY DEF LastOneSettles
  <2>1. outcome[m][s] = "open" => ~AllClosed(m, s)
    BY DEF IInv, RoundHasOpenWake, AllClosed, WakesOf, IsOpen
  <2>2. ASSUME ~AllClosed(m, s) PROVE outcome[m][s] = "open"
    BY <2>2 DEF IInv, TypeOK, OpenWakesKeepRound, AllClosed, WakesOf, IsOpen
  <2> QED BY <2>1, <2>2
<1> QED BY <1>1, Invariance, PTL

\* A round begins only when the one before is closed with answers, and there are never
\* more than max_group_rounds (_enqueue_group_round).
THEOREM RoundsFollow == Spec => []RoundsFollowAnswers
<1>1. IInv => RoundsFollowAnswers
  <2> USE GroupAssumption
  <2> SUFFICES ASSUME IInv, NEW m \in Posts, NEW s \in Rounds, WakesOf(m, s) # {}
               PROVE  /\ s <= MaxRounds
                      /\ s > 1 => /\ AllClosed(m, s - 1)
                                  /\ outcome[m][s - 1] = "next"
                                  /\ collected[m][s - 1] # {}
    BY DEF RoundsFollowAnswers
  <2>1. outcome[m][s] # "none"
    BY DEF IInv, WakesHaveRound, WakesOf
  <2>2. CASE s = 1
    BY <2>2
  <2>3. CASE s > 1
    <3>1. s - 1 \in Rounds /\ (s - 1) + 1 = s
      BY <2>3 DEF Rounds
    <3>2. outcome[m][s - 1] = "next"
      BY <2>1, <3>1 DEF IInv, BeginsAfterNext
    <3>3. s - 1 < MaxRounds /\ collected[m][s - 1] # {}
      BY <3>1, <3>2 DEF IInv, NextHasAnswers
    <3>4. AllClosed(m, s - 1)
      BY <3>1, <3>2 DEF IInv, TypeOK, OpenWakesKeepRound, AllClosed, WakesOf, IsOpen
    <3> QED BY <3>1, <3>2, <3>3, <3>4 DEF Rounds
  <2> QED BY <2>2, <2>3 DEF Rounds
<1> QED BY <1>1, Invariance, PTL

\* What settling a round has recorded is never revised (settle_group_round runs once
\* for a round, under the write lock).
THEOREM Settled == Spec => SettledOnce
<1>1. IInv /\ [Next]_vars => [VerdictStands]_vars
  <2> SUFFICES ASSUME IInv, Next, NEW m \in Posts, NEW s \in Rounds, Decided(m, s)
               PROVE  outcome'[m][s] = outcome[m][s] /\ collected'[m][s] = collected[m][s]
    BY DEF VerdictStands
  <2>1. CASE UNCHANGED <<outcome, collected>>
    BY <2>1
  <2>2. ASSUME NEW p \in People, NEW n \in Posts, SendMessage(p, n)
        PROVE  outcome'[m][s] = outcome[m][s] /\ collected'[m][s] = collected[m][s]
    <3>1. outcome[n][1] = "none" /\ collected' = collected
      BY <2>2 DEF IInv, UnpostedIsFresh, SendMessage
    <3>2. m # n \/ s # 1
      BY <3>1 DEF Decided
    <3>3. outcome' = outcome \/ outcome' = [outcome EXCEPT ![n][1] = "open"]
      BY <2>2 DEF SendMessage
    <3> QED BY <3>1, <3>2, <3>3 DEF IInv, TypeOK
  <2>3. ASSUME NEW w \in Wakes, SettleGroupRound(w)
        PROVE  outcome'[m][s] = outcome[m][s] /\ collected'[m][s] = collected[m][s]
    <3>1. ~(m = PostOf(w) /\ s = RoundOf(w))
      BY <2>3, SettleEffect DEF Decided
    <3>2. Verdict(w) = "next" => outcome[PostOf(w)][RoundOf(w) + 1] = "none"
      BY <2>3, SettleEffect, WakeParts DEF IInv, BeginsAfterNext
    <3>3. ~(m = PostOf(w) /\ Verdict(w) = "next" /\ s = RoundOf(w) + 1)
      BY <3>2 DEF Decided
    <3> QED BY <2>3, <3>1, <3>3, SettleEffect
  <2> QED
    BY <2>1, <2>2, <2>3
       DEF Next, Invite, RetireAgent, ClaimWake, AnswerBegins, AnswerCommits, AnswerFails,
           RunEnds, SiblingStillOpen, Crash
<1> QED BY <1>1, Invariance, PTL DEF Spec, SettledOnce

-----------------------------------------------------------------------------
\* The promise.

Asked == WithWake({"pending", "claimed", "closed"})
Waiting == WithWake({"pending", "claimed"})

LEMMA InitRefines == Init => Promise!Init
  BY DEF Init, Promise!Init, WithWake

\* Whom the promise has asked, and waits for, by the wakes.
LEMMA AskedByWakes ==
    /\ \A v : v \in Asked <=> v \in Wakes /\ wake[v] \in {"pending", "claimed", "closed"}
    /\ \A v : v \in Asked' <=> v \in Wakes /\ wake'[v] \in {"pending", "claimed", "closed"}
    /\ \A v : v \in Waiting <=> v \in Wakes /\ wake[v] \in {"pending", "claimed"}
    /\ \A v : v \in Waiting' <=> v \in Wakes /\ wake'[v] \in {"pending", "claimed"}
  BY DEF Asked, Waiting, WithWake

LEMMA AskedNow ==
    ASSUME TypeOK, NEW v \in Wakes
    PROVE  /\ v \in Asked <=> wake[v] # "absent"
           /\ v \in Waiting <=> IsOpen(v)
  BY AskedByWakes DEF TypeOK, IsOpen

\* The questions of a round, as wakes.
LEMMA QuestionParts ==
    ASSUME NEW m \in Posts, NEW s \in Rounds, NEW T \in SUBSET Agents
    PROVE  \A v : v \in Promise!Questions(m, s, T)
                    <=> v \in Wakes /\ PostOf(v) = m /\ RoundOf(v) = s /\ AgentOf(v) \in T
<1>1. ASSUME NEW v \in Promise!Questions(m, s, T)
      PROVE  v \in Wakes /\ PostOf(v) = m /\ RoundOf(v) = s /\ AgentOf(v) \in T
  <2>1. PICK a \in T : v = <<m, s, a>>
    BY DEF Promise!Questions
  <2> QED BY <2>1 DEF Wakes, PostOf, RoundOf, AgentOf
<1>2. ASSUME NEW v \in Wakes, PostOf(v) = m, RoundOf(v) = s, AgentOf(v) \in T
      PROVE  v \in Promise!Questions(m, s, T)
  BY <1>2 DEF Wakes, PostOf, RoundOf, AgentOf, Promise!Questions
<1> QED BY <1>1, <1>2

\* A round without an outcome has no wakes.
LEMMA NoneAsked ==
    ASSUME IInv, NEW m \in Posts, NEW s \in Rounds, outcome[m][s] = "none"
    PROVE  Promise!NobodyAsked(m, s)
<1>1. ASSUME NEW a \in Agents PROVE <<m, s, a>> \notin Asked
  <2>1. <<m, s, a>> \in Wakes /\ PostOf(<<m, s, a>>) = m /\ RoundOf(<<m, s, a>>) = s
    BY WakeOfParts DEF Wakes
  <2>2. wake[<<m, s, a>>] = "absent"
    BY <2>1 DEF IInv, WakesHaveRound
  <2> QED BY <2>2, AskedByWakes
<1> QED BY <1>1 DEF Promise!NobodyAsked, Asked

\* An open round is not beyond the cap.
LEMMA OpenIsWithinCap ==
    ASSUME IInv, NEW m \in Posts, NEW s \in Rounds, outcome[m][s] = "open"
    PROVE  s \in 1 .. MaxRounds
<1> USE GroupAssumption
<1>1. SUFFICES ASSUME s = MaxRounds + 1 PROVE FALSE
  BY DEF Rounds
<1>2. MaxRounds \in Rounds /\ MaxRounds + 1 \in Rounds
  BY DEF Rounds
<1>3. outcome[m][MaxRounds] = "next"
  BY <1>1, <1>2 DEF IInv, BeginsAfterNext
<1>4. MaxRounds < MaxRounds
  BY <1>2, <1>3 DEF IInv, NextHasAnswers
<1> QED BY <1>4

\* The wake whose handler has the lock, by its parts.
LEMMA WriterParts ==
    ASSUME IInv, NEW w \in Wakes, writer = w
    PROVE  \E m \in Posts, s \in 1 .. MaxRounds, b \in Agents :
             w = <<m, s, b>> /\ PostOf(w) = m /\ RoundOf(w) = s /\ AgentOf(w) = b
                /\ wake[w] = "claimed"
<1>1. PICK m \in Posts, s \in Rounds, b \in Agents : w = <<m, s, b>>
  BY DEF Wakes
<1>2. PostOf(w) = m /\ RoundOf(w) = s /\ AgentOf(w) = b
  BY <1>1, WakeOfParts
<1>3. wake[w] = "claimed"
  BY NobodyAssumption DEF IInv, WriterHasClaim
<1>4. outcome[m][s] = "open"
  BY <1>2, <1>3 DEF IInv, OpenWakesKeepRound, IsOpen
<1>5. s \in 1 .. MaxRounds
  BY <1>4, OpenIsWithinCap
<1> QED BY <1>1, <1>2, <1>3, <1>5

\* A post begins a conversation, unless nobody is there to be woken.
LEMMA SendRefines ==
    ASSUME IInv, NEW p \in People, NEW m \in Posts, SendMessage(p, m)
    PROVE  Promise!Begin(m) \/ UNCHANGED Promise!vars
<1> DEFINE T == ActiveAgents \ {p}
           Q == Promise!Questions(m, 1, T)
<1>1. m \notin posted /\ wake' = Enqueued(m, 1, T)
  BY DEF SendMessage
<1>2. T \in SUBSET Agents /\ 1 \in Rounds
  BY GroupAssumption DEF ActiveAgents, Rounds
<1>3. Promise!NobodyAsked(m, 1)
  BY <1>1, <1>2, NoneAsked DEF IInv, UnpostedIsFresh
<1>4. \A v : v \in Q <=> v \in Wakes /\ PostOf(v) = m /\ RoundOf(v) = 1 /\ AgentOf(v) \in T
  BY <1>2, QuestionParts
<1> HIDE DEF T, Q
<1>5. \A v \in Wakes : wake'[v] = IF v \in Q THEN "pending" ELSE wake[v]
  BY <1>1, <1>4 DEF Enqueued
<1>6. Asked' = Asked \cup Q /\ Waiting' = Waiting \cup Q
  BY <1>4, <1>5, AskedByWakes
<1>7. CASE T = {}
  <2>1. Q = {}
    BY <1>4, <1>7
  <2> QED BY <1>6, <2>1 DEF Asked, Waiting, Promise!vars
<1>8. CASE T # {}
  BY <1>2, <1>3, <1>6, <1>8 DEF Promise!Begin, Asked, Waiting, Q
<1> QED BY <1>7, <1>8

\* A handler that finds a sibling open is one of several.
LEMMA StillOpenRefines ==
    ASSUME IInv, NEW w \in Wakes, SiblingStillOpen(w)
    PROVE  \E t \in Posts, r \in 1 .. MaxRounds, a \in Agents : Promise!Finish(t, r, a)
<1>1. PICK m \in Posts, s \in 1 .. MaxRounds, b \in Agents :
        /\ w = <<m, s, b>> /\ PostOf(w) = m /\ RoundOf(w) = s /\ wake[w] = "claimed"
  BY WriterParts DEF SiblingStillOpen
<1>2. \A v \in Wakes : wake'[v] = IF v = w THEN "closed" ELSE wake[v]
  BY DEF IInv, TypeOK, SiblingStillOpen
<1>3. PICK v \in Wakes : PostOf(v) = m /\ RoundOf(v) = s /\ v # w /\ IsOpen(v)
  BY <1>1 DEF SiblingStillOpen, SiblingsOpen, Siblings, IsOpen
<1>4. PICK c \in Agents : v = <<m, s, c>>
  BY <1>3 DEF Wakes, PostOf, RoundOf
<1>5. w \in Waiting /\ v \in Waiting /\ w \in Asked /\ c # b
  BY <1>1, <1>3, <1>4, AskedByWakes DEF IsOpen
<1>6. Waiting' = Waiting \ {w} /\ Asked' = Asked
  BY <1>2, <1>5, AskedByWakes
<1>7. Promise!Finish(m, s, b)
  BY <1>1, <1>4, <1>5, <1>6 DEF Promise!Finish, Asked, Waiting
<1> QED BY <1>7

\* The handler that settles is the last one of its round, and asks, if anybody, others
\* than those who have answered.
LEMMA SettleRefines ==
    ASSUME IInv, NEW w \in Wakes, SettleGroupRound(w)
    PROVE  \E t \in Posts, r \in 1 .. MaxRounds, a \in Agents :
             Promise!End(t, r, a) \/ Promise!GoOn(t, r, a)
<1>1. PICK m \in Posts, s \in 1 .. MaxRounds, b \in Agents :
        /\ w = <<m, s, b>> /\ PostOf(w) = m /\ RoundOf(w) = s /\ wake[w] = "claimed"
  BY WriterParts DEF SettleGroupRound
<1> DEFINE T == NextTargets(w)
           next == Verdict(w) = "next"
           Q == Promise!Questions(m, s + 1, T)
<1>2. /\ outcome[m][s] = "open"
      /\ next => s < MaxRounds /\ Responders(w) # {} /\ T # {} /\ s + 1 \in Rounds
      /\ \A v \in Wakes : PostOf(v) = m /\ RoundOf(v) = s /\ v # w => ~IsOpen(v)
      /\ \A v \in Wakes : wake'[v] =
           IF v = w THEN "closed"
           ELSE IF next /\ PostOf(v) = m /\ RoundOf(v) = s + 1 /\ AgentOf(v) \in T THEN "pending"
           ELSE wake[v]
  BY <1>1, SettleEffect
<1>3. T \in SUBSET Agents /\ s \in Rounds /\ s + 1 # s
  BY GroupAssumption DEF NextTargets, ActiveAgents, Rounds
<1>4. next => \E c \in Agents \ T : <<m, s, c>> \in Asked
  <2>1. SUFFICES ASSUME next PROVE \E c \in Agents \ T : <<m, s, c>> \in Asked
    OBVIOUS
  <2>2. PICK v \in Siblings(w) : AgentOf(v) \in Responders(w)
    BY <1>2, <2>1 DEF Responders
  <2>3. v \in Wakes /\ PostOf(v) = m /\ RoundOf(v) = s /\ wake[v] # "absent"
    BY <1>1, <2>2 DEF Siblings
  <2>4. PICK c \in Agents : v = <<m, s, c>> /\ AgentOf(v) = c
    BY <2>3 DEF Wakes, PostOf, RoundOf, AgentOf
  <2>5. v \in Asked
    BY <2>3, AskedNow DEF IInv
  <2> QED BY <2>2, <2>4, <2>5 DEF NextTargets
<1>5. next => \A v : v \in Q <=> v \in Wakes /\ PostOf(v) = m /\ RoundOf(v) = s + 1
                                             /\ AgentOf(v) \in T
  BY <1>2, <1>3, QuestionParts
<1>6. w \in Waiting /\ w \in Asked
  BY <1>1, AskedByWakes
<1>7. Promise!LastOne(m, s, b)
  <2>1. ASSUME NEW a \in Agents \ {b} PROVE <<m, s, a>> \notin Waiting
    <3>1. /\ <<m, s, a>> \in Wakes /\ <<m, s, a>> # w
          /\ PostOf(<<m, s, a>>) = m /\ RoundOf(<<m, s, a>>) = s
      BY <1>1, <1>3, WakeOfParts DEF Wakes
    <3>2. ~IsOpen(<<m, s, a>>)
      BY <1>2, <3>1
    <3> QED BY <3>1, <3>2, AskedNow DEF IInv
  <2> QED BY <1>1, <1>6, <2>1 DEF Promise!LastOne, Waiting
<1> HIDE DEF T, next, Q
<1>8. CASE ~next
  <2>1. Waiting' = Waiting \ {w} /\ Asked' = Asked
    BY <1>2, <1>6, <1>8, AskedByWakes
  <2>2. Promise!End(m, s, b)
    BY <1>1, <1>7, <2>1 DEF Promise!End, Asked, Waiting
  <2> QED BY <2>2
<1>9. CASE next
  <2>1. w \notin Q
    BY <1>1, <1>3, <1>5, <1>9
  <2>2. \A v \in Wakes : wake'[v] = IF v = w THEN "closed"
                                    ELSE IF v \in Q THEN "pending" ELSE wake[v]
    BY <1>2, <1>5, <1>9
  <2>3. Waiting' = (Waiting \ {w}) \cup Q /\ Asked' = Asked \cup Q
    BY <1>5, <1>6, <1>9, <2>1, <2>2, AskedByWakes
  <2>4. outcome[m][s + 1] = "none"
    <3>1. s + 1 - 1 = s /\ s + 1 > 1
      BY GroupAssumption
    <3> QED BY <1>2, <1>3, <1>9, <3>1 DEF IInv, BeginsAfterNext
  <2>5. Promise!NobodyAsked(m, s + 1)
    BY <1>2, <1>9, <2>4, NoneAsked
  <2>6. Promise!GoOn(m, s, b)
    BY <1>1, <1>2, <1>3, <1>4, <1>7, <1>9, <2>3, <2>5 DEF Promise!GoOn, Asked, Waiting, Q
  <2> QED BY <2>6
<1> QED BY <1>8, <1>9

\* Claims, crashes, answers and changes of the group are nothing to the promise.
LEMMA QuietRefines ==
    ASSUME \A w \in Wakes : wake'[w] = wake[w] \/ (IsOpen(w) /\ IsOpen(w)')
    PROVE  UNCHANGED Promise!vars
  BY DEF IsOpen, WithWake, Promise!vars

LEMMA NextRefines == IInv /\ [Next]_vars => Promise!Next \/ UNCHANGED Promise!vars
<1> SUFFICES ASSUME IInv, [Next]_vars PROVE Promise!Next \/ UNCHANGED Promise!vars
  OBVIOUS
<1>1. ASSUME NEW p \in People, NEW m \in Posts, SendMessage(p, m)
      PROVE  Promise!Next \/ UNCHANGED Promise!vars
  BY <1>1, SendRefines DEF Promise!Next
<1>2. ASSUME NEW w \in Wakes, SiblingStillOpen(w) \/ SettleGroupRound(w) PROVE Promise!Next
  BY <1>2, StillOpenRefines, SettleRefines DEF Promise!Next
<1>3. ASSUME \/ \E p \in People : Invite(p)
             \/ \E a \in Agents : RetireAgent(a)
             \/ \E w \in Wakes : \/ ClaimWake(w) \/ AnswerBegins(w) \/ AnswerCommits(w)
                                 \/ AnswerFails(w) \/ RunEnds(w)
             \/ Crash
             \/ UNCHANGED vars
      PROVE  UNCHANGED Promise!vars
  <2>1. \A w \in Wakes : wake'[w] = wake[w] \/ (IsOpen(w) /\ IsOpen(w)')
    BY <1>3
    DEF Invite, RetireAgent, ClaimWake, AnswerBegins, AnswerCommits, AnswerFails, RunEnds,
        Crash, vars, IInv, TypeOK, IsOpen
  <2> QED BY <2>1, QuietRefines
<1> QED BY <1>1, <1>2, <1>3 DEF Next

\* The group keeps RoundsPromise, for any number of posts, teammates, rounds and crashes
\* (settle_group_round, _enqueue_group_round).
THEOREM Refinement == Spec => KeepsPromise
<1>1. IInv /\ [Next]_vars => [Promise!Next]_Promise!vars
  BY NextRefines
<1> QED BY InitRefines, <1>1, Invariance, PTL DEF Spec, KeepsPromise, Promise!Spec
=============================================================================
