-------------------------------- MODULE Tasks --------------------------------
(***************************************************************************)
(* Tasks of app/services/team.py (create_task, update_task): a card of     *)
(* Hermes' board, outside (app/services/kanban.py), and the row kanban_ref *)
(* that refers to it.  A card is named by the request that makes it.       *)
(***************************************************************************)
EXTENDS Staff

CONSTANT Statuses   \* what tasks.update may set

ASSUME TaskAssumption ==
    /\ "none" \notin Statuses
    /\ \A q \in Made("card") : Job[q].agent \in Agents
    /\ \A q \in Made("move") : Job[q].task \in Requests /\ Job[q].status \in Statuses

VARIABLES
    card,   \* outside: the status of each card, or "none"
    ref,    \* last_status of its row, or "none"
    prev    \* last_status as a request has read it

taskVars == <<card, ref, prev>>

CardStatuses == Statuses \cup {"none", "todo"}

TaskInit ==
    /\ card = [t \in Requests |-> "none"]
    /\ ref = [t \in Requests |-> "none"]
    /\ prev = [q \in Requests |-> "none"]

CardReads(q) ==
    /\ Job[q].op = "card"
    /\ Job[q].agent \in hired
    /\ Reads(q)
    /\ saw' = [saw EXCEPT ![q] = retired]
    /\ UNCHANGED <<hired, retired, boss, role, profiles, soul>>
    /\ UNCHANGED taskVars

CardCreated(q) ==
    /\ Job[q].op = "card"
    /\ Acts(q, "read")
    /\ card' = [card EXCEPT ![q] = "todo"]
    /\ UNCHANGED <<ref, prev>>
    /\ UNCHANGED staffVars

\* The owner's wake is refused if he was retired when he was read.
CardWrites(q) ==
    /\ Job[q].op = "card"
    /\ Job[q].agent \notin saw[q]
    /\ Commits(q, "acted")
    /\ ref' = [ref EXCEPT ![q] = "todo"]
    /\ UNCHANGED <<card, prev>>
    /\ UNCHANGED staffVars

MoveReads(q) ==
    /\ Job[q].op = "move"
    /\ ref[Job[q].task] # "none"
    /\ Reads(q)
    /\ prev' = [prev EXCEPT ![q] = ref[Job[q].task]]
    /\ UNCHANGED <<card, ref>>
    /\ UNCHANGED staffVars

\* Whatever the board shows, update returns the status it was asked for.
MoveActs(q) ==
    /\ Job[q].op = "move"
    /\ Acts(q, "read")
    /\ card' = [card EXCEPT ![Job[q].task] = Job[q].status]
    /\ UNCHANGED <<ref, prev>>
    /\ UNCHANGED staffVars

\* A change wakes the owner, who is read only now.  What does not differ from the
\* status that was read is not written: the row keeps what another one has put there.
MoveWrites(q) ==
    /\ Job[q].op = "move"
    /\ Commits(q, "acted")
    /\ IF prev[q] = Job[q].status THEN UNCHANGED ref
       ELSE /\ Job[Job[q].task].agent \notin retired
            /\ ref' = [ref EXCEPT ![Job[q].task] = Job[q].status]
    /\ UNCHANGED <<card, prev>>
    /\ UNCHANGED staffVars

-----------------------------------------------------------------------------
TaskTypeOK ==
    /\ card \in [Requests -> CardStatuses]
    /\ ref \in [Requests -> CardStatuses]
    /\ prev \in [Requests -> CardStatuses]
=============================================================================
