------------------------------ MODULE GroupRounds ------------------------------
(***************************************************************************)
(* The rounds of one group chat (send_message, _notify_for_message,        *)
(* _enqueue_group_round and settle_group_round of app/services/team.py).   *)
(* A message wakes every other agent of the group; what they answer is     *)
(* collected, and when the last of them is done the agents that did not    *)
(* answer get the answers as the next round, up to max_group_rounds.       *)
(*                                                                         *)
(* A wake of round s of post m to agent a is the triple <<m, s, a>>.       *)
(* A handler is a transaction of its own; the flush of complete_event      *)
(* takes SQLite's one write lock and settle_group_round reads under it.    *)
(* The dispatcher claims one wake of a room at a time and awaits it before *)
(* it claims again: these wakes have no task, so they share a lane.  Here  *)
(* several may be claimed at once, which only allows more.  A tool call    *)
(* that sends an answer is a transaction of the API server and can outlive *)
(* the run that made it.                                                   *)
(***************************************************************************)
EXTENDS Naturals, FiniteSets

CONSTANTS
    Posts,       \* messages that start a conversation, in the order they are sent
    People,      \* teammates that may be in the group
    Humans,      \* those of kind "human"
    Chief,       \* the root teammate, which cannot be retired
    FirstMembers,\* the members at create_group_chat
    MaxMembers,  \* budgets.max_group_participants
    MaxRounds,   \* budgets.max_group_rounds
    Nobody,      \* nobody holds the write lock
    MaxCrashes   \* bound: how often the process goes down

ASSUME GroupAssumption ==
    /\ Posts \subseteq Nat
    /\ Humans \subseteq People
    /\ Chief \in People \ Humans
    /\ FirstMembers \subseteq People
    /\ MaxRounds \in Nat \ {0}
    /\ MaxMembers \in Nat
    /\ MaxCrashes \in Nat

Agents == People \ Humans
Rounds == 1 .. MaxRounds + 1
Wakes == Posts \X Rounds \X Agents
PostOf(w) == w[1]
RoundOf(w) == w[2]
AgentOf(w) == w[3]

ASSUME NobodyAssumption == Nobody \notin Wakes

VARIABLES
    members,    \* memberships of the room
    retired,    \* teammates with retired_at set
    posted,     \* posts whose transaction has committed
    wake,       \* status of each wake row; "closed" is done or ignored
    answer,     \* the message an agent sends from a wake: "no", "sending", "sent"
    outcome,    \* of each round: "none", "open", then what settling recorded
    collected,  \* whose answers settling a round has read
    writer,     \* the wake whose handler holds the write lock
    crashes

vars == <<members, retired, posted, wake, answer, outcome, collected, writer, crashes>>

Init ==
    /\ members = FirstMembers
    /\ retired = {}
    /\ posted = {}
    /\ wake = [w \in Wakes |-> "absent"]
    /\ answer = [w \in Wakes |-> "no"]
    /\ outcome = [m \in Posts |-> [s \in Rounds |-> "none"]]
    /\ collected = [m \in Posts |-> [s \in Rounds |-> {}]]
    /\ writer = Nobody
    /\ crashes = 0

-----------------------------------------------------------------------------
ActiveAgents == (members \cap Agents) \ retired

\* _enqueue_group_round: one pending wake per agent in T, if there is any.
Enqueued(m, s, T) ==
    [w \in Wakes |-> IF PostOf(w) = m /\ RoundOf(w) = s /\ AgentOf(w) \in T
                     THEN "pending" ELSE wake[w]]

\* A member sends a message that is not an answer within a round of this room.
SendMessage(p, m) ==
    /\ p \in members
    /\ m \notin posted
    /\ \A k \in Posts : k < m => k \in posted
    /\ writer = Nobody
    /\ posted' = posted \cup {m}
    /\ LET T == ActiveAgents \ {p}
       IN  /\ wake' = Enqueued(m, 1, T)
           /\ outcome' = IF T = {} THEN outcome ELSE [outcome EXCEPT ![m][1] = "open"]
    /\ UNCHANGED <<members, retired, answer, collected, writer, crashes>>

\* invite; the "assignment" wake it enqueues belongs to no round.
Invite(p) ==
    /\ writer = Nobody
    /\ p \notin members
    /\ p \notin retired
    /\ Cardinality(members) < MaxMembers
    /\ members' = members \cup {p}
    /\ UNCHANGED <<retired, posted, wake, answer, outcome, collected, writer, crashes>>

RetireAgent(a) ==
    /\ writer = Nobody
    /\ a # Chief
    /\ a \notin retired
    /\ retired' = retired \cup {a}
    /\ UNCHANGED <<members, posted, wake, answer, outcome, collected, writer, crashes>>

\* The dispatcher claims a wake and starts its run; an agent has one run at a time.
ClaimWake(w) ==
    /\ writer = Nobody
    /\ wake[w] = "pending"
    /\ \A v \in Wakes : AgentOf(v) = AgentOf(w) => wake[v] # "claimed"
    /\ wake' = [wake EXCEPT ![w] = "claimed"]
    /\ UNCHANGED <<members, retired, posted, answer, outcome, collected, writer, crashes>>

-----------------------------------------------------------------------------
\* messages.send called from the run of a wake: accepted while the run is running,
\* committed later.

AnswerBegins(w) ==
    /\ wake[w] = "claimed"
    /\ answer[w] = "no"
    /\ AgentOf(w) \in members
    /\ answer' = [answer EXCEPT ![w] = "sending"]
    /\ UNCHANGED <<members, retired, posted, wake, outcome, collected, writer, crashes>>

AnswerCommits(w) ==
    /\ answer[w] = "sending"
    /\ writer = Nobody
    /\ answer' = [answer EXCEPT ![w] = "sent"]
    /\ UNCHANGED <<members, retired, posted, wake, outcome, collected, writer, crashes>>

AnswerFails(w) ==
    /\ answer[w] = "sending"
    /\ answer' = [answer EXCEPT ![w] = "no"]
    /\ UNCHANGED <<members, retired, posted, wake, outcome, collected, writer, crashes>>

-----------------------------------------------------------------------------
\* The end of a run: complete_event or ignore_event flushes, then
\* settle_group_round reads the siblings, and both commit together.

RunEnds(w) ==
    /\ wake[w] = "claimed"
    /\ writer = Nobody
    /\ writer' = w
    /\ UNCHANGED <<members, retired, posted, wake, answer, outcome, collected, crashes>>

\* Mutant: the prefix of the dedupe key lacks the round's message.
SiblingsOfAnyPost(w) == {v \in Wakes : RoundOf(v) = RoundOf(w) /\ wake[v] # "absent"}

Siblings(w) == {v \in Wakes : /\ PostOf(v) = PostOf(w)
                              /\ RoundOf(v) = RoundOf(w)
                              /\ wake[v] # "absent"}

\* Mutants: nobody counts; the own row counts.
SiblingsIgnored(w) == FALSE
SiblingsWithOwn(w) == \E v \in Siblings(w) : wake[v] \in {"pending", "claimed"}

SiblingsOpen(w) == \E v \in Siblings(w) \ {w} : wake[v] \in {"pending", "claimed"}

Responders(w) == {AgentOf(v) : v \in {u \in Siblings(w) : answer[u] = "sent"}}

\* Mutant: those who have answered are woken with the others.
NextTargetsAll(w) == ActiveAgents

\* Who is retired is taken from the rows as they are.  The handler's session may keep
\* the row of an agent as it was before the run, and so wake one retired since; that
\* wake is run as any other that was pending when its agent retired.
NextTargets(w) == ActiveAgents \ Responders(w)

\* Mutant: no cap.
VerdictUncapped(w) ==
    IF Responders(w) = {} \/ NextTargets(w) = {} THEN "end" ELSE "next"

\* What settling the last wake of a round records.
Verdict(w) ==
    IF Responders(w) = {} THEN "end"
    ELSE IF RoundOf(w) >= MaxRounds THEN "cap"
    ELSE IF NextTargets(w) = {} THEN "end"
    ELSE "next"

SiblingStillOpen(w) ==
    /\ writer = w
    /\ SiblingsOpen(w)
    /\ wake' = [wake EXCEPT ![w] = "closed"]
    /\ writer' = Nobody
    /\ UNCHANGED <<members, retired, posted, answer, outcome, collected, crashes>>

SettleGroupRound(w) ==
    /\ writer = w
    /\ ~SiblingsOpen(w)
    /\ LET m == PostOf(w)
           s == RoundOf(w)
           next == Verdict(w) = "next"
       IN  /\ wake' = [(IF next THEN Enqueued(m, s + 1, NextTargets(w)) ELSE wake)
                        EXCEPT ![w] = "closed"]
           /\ outcome' = [outcome EXCEPT ![m] =
                            [r \in Rounds |-> IF r = s THEN Verdict(w)
                                              ELSE IF next /\ r = s + 1 THEN "open"
                                              ELSE outcome[m][r]]]
           /\ collected' = [collected EXCEPT ![m][s] = Responders(w)]
    /\ writer' = Nobody
    /\ UNCHANGED <<members, retired, posted, answer, crashes>>

\* The process ends and starts again; expired leases make the claims pending.
Crash ==
    /\ crashes < MaxCrashes
    /\ crashes' = crashes + 1
    /\ writer' = Nobody
    /\ wake' = [w \in Wakes |-> IF wake[w] = "claimed" THEN "pending" ELSE wake[w]]
    /\ answer' = [w \in Wakes |-> IF answer[w] = "sending" THEN "no" ELSE answer[w]]
    /\ UNCHANGED <<members, retired, posted, outcome, collected>>

-----------------------------------------------------------------------------
Next ==
    \/ \E p \in People, m \in Posts : SendMessage(p, m)
    \/ \E p \in People : Invite(p)
    \/ \E a \in Agents : RetireAgent(a)
    \/ \E w \in Wakes : \/ ClaimWake(w)
                        \/ AnswerBegins(w)
                        \/ AnswerCommits(w)
                        \/ AnswerFails(w)
                        \/ RunEnds(w)
                        \/ SiblingStillOpen(w)
                        \/ SettleGroupRound(w)
    \/ Crash

Spec == Init /\ [][Next]_vars

\* The dispatcher claims what is pending, a run ends at its timeout, and a
\* handler that holds the write lock goes on.  Nothing is assumed of any one
\* wake, and nothing of answers.
Fairness ==
    /\ SF_vars(\E w \in Wakes : ClaimWake(w))
    /\ SF_vars(\E w \in Wakes : RunEnds(w))
    /\ WF_vars(\E w \in Wakes : SiblingStillOpen(w) \/ SettleGroupRound(w))

LiveSpec == Spec /\ Fairness

-----------------------------------------------------------------------------
\* Properties.

WakesOf(m, s) == {w \in Wakes : PostOf(w) = m /\ RoundOf(w) = s /\ wake[w] # "absent"}
AllClosed(m, s) == \A w \in WakesOf(m, s) : wake[w] = "closed"
Outcomes == {"none", "open", "next", "end", "cap"}

TypeOK ==
    /\ members \subseteq People
    /\ retired \subseteq Agents
    /\ posted \subseteq Posts
    /\ wake \in [Wakes -> {"absent", "pending", "claimed", "closed"}]
    /\ answer \in [Wakes -> {"no", "sending", "sent"}]
    /\ outcome \in [Posts -> [Rounds -> Outcomes]]
    /\ collected \in [Posts -> [Rounds -> SUBSET Agents]]
    /\ writer \in Wakes \cup {Nobody}
    /\ crashes \in Nat

\* A round that has begun is settled exactly when all its wakes are closed: the
\* handler that finishes last always knows it, and nobody else settles.
LastOneSettles ==
    \A m \in Posts, s \in Rounds :
      WakesOf(m, s) # {} => (outcome[m][s] = "open" <=> ~AllClosed(m, s))

\* The next round begins only after every wake of the round before is closed with
\* at least one answer, and never beyond max_group_rounds.
RoundsFollowAnswers ==
    \A m \in Posts, s \in Rounds :
      WakesOf(m, s) # {} =>
        /\ s <= MaxRounds
        /\ s > 1 => /\ AllClosed(m, s - 1)
                    /\ outcome[m][s - 1] = "next"
                    /\ collected[m][s - 1] # {}

\* A round is settled once, and what it collected is never revised.
Decided(m, s) == outcome[m][s] \in {"next", "end", "cap"}
VerdictStands ==
    \A m \in Posts, s \in Rounds :
      Decided(m, s) => /\ outcome'[m][s] = outcome[m][s]
                       /\ collected'[m][s] = collected[m][s]
SettledOnce == [][VerdictStands]_vars

\* The handlers of a round, whatever their order and however often the process goes
\* down, do together what one moderator does in RoundsPromise.
WithWake(S) == {w \in Wakes : wake[w] \in S}
Promise ==
    INSTANCE RoundsPromise WITH
        Talks <- Posts,
        Speakers <- Agents,
        asked <- WithWake({"pending", "claimed", "closed"}),
        waiting <- WithWake({"pending", "claimed"})
KeepsPromise == Promise!Spec

\* A conversation without new posts ends: from every open round on there comes a
\* state in which all its rounds are settled ("to prevent runaway chatter").
Ongoing(m) == \E s \in Rounds : outcome[m][s] = "open"
ConversationsEnd == \A m \in Posts : Ongoing(m) ~> ~Ongoing(m)
=============================================================================
