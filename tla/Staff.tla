-------------------------------- MODULE Staff --------------------------------
(***************************************************************************)
(* Hiring, reorganizing and retiring (hire_agent, update_agent and         *)
(* retire_agent of app/services/team.py), with the Hermes profiles of      *)
(* app/services/profiles.py.  All of them are tools of chief.              *)
(***************************************************************************)
EXTENDS Requests

CONSTANTS
    Agents,     \* the handles of teammates, hired or not
    Chief, You, \* the root of the organization; the human
    Nobody,     \* reports_to_id and descriptions that are not set
    FirstBoss,  \* the teammates there are in the beginning, with their managers
    MaxAgents   \* max_active_agents

ASSUME StaffAssumption ==
    /\ Chief \in Agents
    /\ You \notin Agents
    /\ Nobody \notin Agents \cup Requests \cup {You}
    /\ DOMAIN FirstBoss \subseteq Agents
    /\ FirstBoss \in [DOMAIN FirstBoss -> (DOMAIN FirstBoss) \cup {Nobody}]
    /\ Chief \in DOMAIN FirstBoss /\ FirstBoss[Chief] = Nobody
    /\ \A S \in SUBSET (DOMAIN FirstBoss) : S # {} => \E a \in S : FirstBoss[a] \notin S
    /\ MaxAgents \in Nat
    /\ IsFiniteSet(DOMAIN FirstBoss) /\ Cardinality(DOMAIN FirstBoss) <= MaxAgents
    /\ \A q \in Made("hire") : Job[q].agent \in Agents /\ Job[q].manager \in Agents
    /\ \A q \in Made("update") :
         Job[q].agent \in Agents /\ Job[q].manager \in Agents \cup {You, Nobody}
    /\ \A q \in Made("retire") : Job[q].agent \in Agents

VARIABLES
    hired,     \* the teammates that have a row
    retired,   \* those with retired_at set
    boss,      \* reports_to_id
    role,      \* the request whose role and description the row has
    profiles,  \* outside: the Hermes profiles there are
    soul,      \* outside: the request whose description SOUL.md has
    saw        \* the teammates a request found, as it needs them later

staffVars == <<hired, retired, boss, role, profiles, soul, saw>>

StaffInit ==
    /\ hired = DOMAIN FirstBoss
    /\ retired = {}
    /\ boss = [a \in Agents |-> IF a \in DOMAIN FirstBoss THEN FirstBoss[a] ELSE Nobody]
    /\ role = [a \in Agents |-> Nobody]
    /\ profiles = DOMAIN FirstBoss
    /\ soul = [a \in Agents |-> Nobody]
    /\ saw = [q \in Requests |-> {}]

Active == hired \ retired

\* Mutant: only the direct manager is looked at.
InLineDirect(m, a) == m \in Agents /\ boss[m] = a

\* _reports_to: a is above m, in that every set that has m, and with each of its
\* members the manager, has a.
InLine(m, a) ==
    \A S \in SUBSET Agents :
      (m \in S /\ \A x \in S : boss[x] \in Agents => boss[x] \in S) => a \in S

-----------------------------------------------------------------------------
HireReads(q) ==
    /\ Job[q].op = "hire"
    /\ Cardinality(Active) < MaxAgents
    /\ Job[q].agent \notin hired
    /\ Job[q].manager \in Active
    /\ Reads(q)
    /\ UNCHANGED staffVars

\* profiles.create: several subprocesses, then SOUL.md.
HireProvisions(q) ==
    /\ Job[q].op = "hire"
    /\ Acts(q, "read")
    /\ profiles' = profiles \cup {Job[q].agent}
    /\ soul' = [soul EXCEPT ![Job[q].agent] = q]
    /\ UNCHANGED <<hired, retired, boss, role, saw>>

\* Mutant: the row is written before the profile is there.
HireWritesFirst(q) ==
    /\ Job[q].op = "hire"
    /\ Commits(q, "read")
    /\ hired' = hired \cup {Job[q].agent}
    /\ boss' = [boss EXCEPT ![Job[q].agent] = Job[q].manager]
    /\ role' = [role EXCEPT ![Job[q].agent] = q]
    /\ UNCHANGED <<retired, profiles, soul, saw>>

\* upsert_agent looks for the handle again, and gives a row that has come into
\* being meanwhile this manager and this description.
HireWrites(q) ==
    /\ Job[q].op = "hire"
    /\ Commits(q, "acted")
    /\ hired' = hired \cup {Job[q].agent}
    /\ boss' = [boss EXCEPT ![Job[q].agent] = Job[q].manager]
    /\ role' = [role EXCEPT ![Job[q].agent] = q]
    /\ UNCHANGED <<retired, profiles, soul, saw>>

\* A request that names no manager changes the description only; each has a text of
\* its own.
UpdateReads(q) ==
    /\ Job[q].op = "update"
    /\ Job[q].agent \in hired \ {Chief}
    /\ Job[q].manager \in hired =>
         Job[q].manager # Job[q].agent /\ ~InLine(Job[q].manager, Job[q].agent)
    /\ Job[q].manager \in hired \cup {You, Nobody}
    /\ Reads(q)
    /\ saw' = [saw EXCEPT ![q] = {a \in {Job[q].agent} : boss[a] = Job[q].manager}]
    /\ UNCHANGED <<hired, retired, boss, role, profiles, soul>>

\* profiles.describe
UpdateDescribes(q) ==
    /\ Job[q].op = "update"
    /\ Acts(q, "read")
    /\ soul' = [soul EXCEPT ![Job[q].agent] = q]
    /\ UNCHANGED <<hired, retired, boss, role, profiles, saw>>

\* A manager that the row had when it was read is not written.
UpdateWrites(q) ==
    /\ Job[q].op = "update"
    /\ Commits(q, "acted")
    /\ boss' = IF Job[q].manager = Nobody \/ Job[q].agent \in saw[q] THEN boss
               ELSE [boss EXCEPT ![Job[q].agent] = Job[q].manager]
    /\ role' = [role EXCEPT ![Job[q].agent] = q]
    /\ UNCHANGED <<hired, retired, profiles, soul, saw>>

RetireReads(q) ==
    /\ Job[q].op = "retire"
    /\ Job[q].agent \in hired \ {Chief}
    /\ Reads(q)
    /\ saw' = [saw EXCEPT ![q] = {a \in Active : boss[a] = Job[q].agent}]
    /\ UNCHANGED <<hired, retired, boss, role, profiles, soul>>

\* The reports that were read go to chief.
RetireWrites(q) ==
    /\ Job[q].op = "retire"
    /\ Commits(q, "read")
    /\ boss' = [a \in Agents |-> IF a \in saw[q] THEN Chief ELSE boss[a]]
    /\ retired' = retired \cup {Job[q].agent}
    /\ UNCHANGED <<hired, role, profiles, soul, saw>>

-----------------------------------------------------------------------------
StaffTypeOK ==
    /\ hired \subseteq Agents
    /\ retired \subseteq Agents
    /\ boss \in [Agents -> Agents \cup {You, Nobody}]
    /\ role \in [Agents -> Requests \cup {Nobody}]
    /\ profiles \subseteq Agents
    /\ soul \in [Agents -> Requests \cup {Nobody}]
    /\ saw \in [Requests -> SUBSET Agents]

\* No one is above himself: in any set of teammates somebody has his manager outside.
NobodyAboveHimself == \A S \in SUBSET Agents : S # {} => \E a \in S : boss[a] \notin S
=============================================================================
