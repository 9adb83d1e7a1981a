------------------------------- MODULE Office -------------------------------
(***************************************************************************)
(* The requests that change the organization, the conversations, the tasks,*)
(* the requests to the human and the demonstrations, made in any order and *)
(* at the same time, by pages and by tool calls, each in its transaction   *)
(* (Requests) and any of them failing half way.                            *)
(***************************************************************************)
EXTENDS Rooms, Tasks, HumanRequests, Demonstrations

vars == <<requestVars, staffVars, roomVars, taskVars, humanVars, demoVars>>

Init ==
    /\ RequestInit
    /\ StaffInit
    /\ RoomInit
    /\ TaskInit
    /\ HumanRequestInit
    /\ DemoInit

-----------------------------------------------------------------------------
\* hire_agent ends with _join_general, in the same transaction.
Hiring(q) == HireReads(q) \/ HireProvisions(q)
Reorganizing(q) == UpdateReads(q) \/ UpdateDescribes(q) \/ UpdateWrites(q)
Retiring(q) == RetireReads(q) \/ RetireWrites(q)

OrganizationStep(q) ==
    /\ \/ Hiring(q) /\ UNCHANGED roomVars
       \/ HireWrites(q) /\ JoinGeneral(Job[q].agent)
       \/ Reorganizing(q) /\ UNCHANGED roomVars
       \/ Retiring(q) /\ UNCHANGED roomVars
    /\ UNCHANGED <<taskVars, humanVars, demoVars>>

Messaging(q) == DmReads(q) \/ DmWrites(q) \/ MakeGroup(q) \/ FindsIt(q)
Channels(q) ==
    \/ ChannelReads(q) \/ ChannelWrites(q)
    \/ JoinReads(q) \/ JoinWrites(q)
    \/ ArchiveRoom(q)
Renaming(q) == RenameReads(q) \/ RenameWrites(q)
Inviting(q) == InviteReads(q) \/ InviteWrites(q)

RoomStep(q) ==
    /\ \/ Messaging(q) /\ UNCHANGED staffVars
       \/ Channels(q) /\ UNCHANGED staffVars
       \/ Renaming(q)
       \/ Inviting(q)
    /\ UNCHANGED <<taskVars, humanVars, demoVars>>

TaskStep(q) ==
    /\ \/ CardReads(q) \/ CardCreated(q) \/ CardWrites(q)
       \/ MoveReads(q) \/ MoveActs(q) \/ MoveWrites(q)
    /\ UNCHANGED <<roomVars, humanVars, demoVars>>

\* create_human_request posts the prompt in the DM of the teammate and the human.
HumanStep(q) ==
    /\ \/ AskHuman(q) /\ EnsureDm(q, {Job[q].agent, You}) /\ UNCHANGED staffVars
       \/ (ResolveReads(q) \/ StoresSecret(q) \/ ResolveWrites(q)) /\ UNCHANGED roomVars
    /\ UNCHANGED <<taskVars, demoVars>>

DemoStep(q) ==
    /\ \/ StartReads(q) /\ UNCHANGED staffVars
       \/ StartInserts(q) /\ UNCHANGED staffVars
       \/ StartRecords(q) /\ UNCHANGED staffVars
       \/ StartCommits(q) /\ UNCHANGED staffVars
       \/ StopReads(q) \/ StopEnds(q) \/ StopWrites(q)
       \/ VerifyReads(q) /\ UNCHANGED staffVars
       \/ VerifyWrites(q) /\ UNCHANGED staffVars
    /\ UNCHANGED <<roomVars, taskVars, humanVars>>

RequestStep(q) ==
    /\ Call(q) \/ Fail(q)
    /\ UNCHANGED <<staffVars, roomVars, taskVars, humanVars, demoVars>>

AnswerStep ==
    /\ \E r \in Asks : RequestExpires(r) \/ HearAnswer(r)
    /\ UNCHANGED <<requestVars, staffVars, roomVars, taskVars, demoVars>>

RoomOps == {"dm", "group", "channel", "rename", "join", "archive", "invite"}

\* The requests that can take a step.
InPlay == UnderWay \cup Startable

Next ==
    \/ \E q \in InPlay :
         \/ RequestStep(q)
         \/ Job[q].op \in {"hire", "update", "retire"} /\ OrganizationStep(q)
         \/ Job[q].op \in RoomOps /\ RoomStep(q)
         \/ Job[q].op \in {"card", "move"} /\ TaskStep(q)
         \/ Job[q].op \in {"ask", "resolve"} /\ HumanStep(q)
         \/ Job[q].op \in {"start", "stop", "verify"} /\ DemoStep(q)
    \/ AnswerStep

Spec == Init /\ [][Next]_vars

-----------------------------------------------------------------------------
\* Each variable has its type, and a request that is over has not the write lock.
TypeOK ==
    /\ RequestTypeOK
    /\ StaffTypeOK
    /\ RoomTypeOK
    /\ TaskTypeOK
    /\ HumanRequestTypeOK
    /\ DemoTypeOK

\* Whatever fails and whatever overlaps, a row never speaks of what is not there
\* outside: a teammate has his profile, a task its card, an answered request for a
\* secret its entry in the file, a demonstration its recorder and, once it is to be
\* learned, its video (the commands come before the commit).
RowsAreBacked ==
    /\ hired \subseteq profiles
    /\ \A t \in Requests : ref[t] # "none" => card[t] # "none"
    /\ \A r \in Asks :
         Job[r].kind = "secret" /\ answer[r] # NoAnswer => secret[r] # NoAnswer
    /\ \A d \in Demos :
         /\ phase[d] # "none" => recorder[d] # "off"
         /\ phase[d] \in {"learning", "verified"} => recorder[d] = "stopped"

\* The reporting lines have no cycle as long as no two reorganizations, and no two
\* hirings, are under way together: retiring, failing and a hiring beside a
\* reorganization do no harm (update_agent, hire_agent, retire_agent).
ReportingLinesAreATree ==
    NobodyAboveHimself \/ Overlap(Made("update")) \/ Overlap(Made("hire"))

TeamHasItsLimit ==
    Cardinality(Active) <= MaxAgents \/ Unserialized(Made("hire"))

Handoffs == {q \in Requests : Handoff(q)}

RunHasItsBudget ==
    \/ /\ used = Cardinality({q \in Handoffs : pc[q] = "done"})
       /\ used <= MaxHandoffs
    \/ Overlap(Handoffs)

\* The requests that look for the DM of a pair, and make it.
MakersOf(pair) ==
    {q \in Made("dm") : Job[q].members = pair}
      \cup {q \in Made("ask") : {Job[q].agent, You} = pair}

OneDmForEachPair ==
    \A r, s \in {r \in open : kind[r] = "dm" /\ IsPair(members[r])} :
      members[r] = members[s] => r = s \/ Unserialized(MakersOf(members[r]))

TakersOf(t) == {q \in Made("channel") \cup Made("rename") : Job[q].title = t}

OneOpenChannelOfAName ==
    \A t \in Names : Cardinality(Named(t) \cap open) <= 1 \/ Unserialized(TakersOf(t))

InvitesTo(r) == {q \in Made("invite") : Job[q].room = r}

GroupsHaveTheirLimit ==
    \A r \in Rooms :
      kind[r] = "group" => Cardinality(members[r]) <= MaxGroup \/ Unserialized(InvitesTo(r))

\* The recorders that are on.
On == {d \in Demos : recorder[d] = "on"}

\* The recorders left behind by starts that failed after they had recorded: no row
\* knows of them.
LeftBehind == {d \in Made("start") : recorder[d] = "on" /\ pc[d] = "failed"}

OneRecorder == Cardinality(On \ LeftBehind) <= 1 \/ Overlap(Made("start"))

\* The requests that wait for a command outside.
AtCommand(q) ==
    \/ Job[q].op \in {"hire", "update", "card", "move", "stop"} /\ pc[q] = "read"
    \/ Job[q].op = "start" /\ pc[q] = "inserted"

LockIsHeldOverFew ==
    \A q \in Requests :
      AtCommand(q) /\ lock = q =>
        Job[q].op = "start" \/ (Handoff(q) /\ Job[q].op \in {"hire", "card"})

\* What the code checks before it writes still holds after it has written, unless
\* two requests that check the same have read without the lock side by side: the
\* size of the team, the handoffs of the run, one DM for a pair (two requests about
\* that pair), one open channel of a name (about that name), the size of a group
\* (about that group), and one recorder on the one desktop besides those that failed
\* starts have left behind: no row knows of these, so no later start sees them, and
\* nothing stops them.  The calls of one run are serialized by the count of its
\* handoffs, which is written first; the price is that a hiring and a new card keep
\* everyone else from writing while their commands run, as the start of a recording
\* does, and nothing else does.
LimitsHold ==
    /\ TeamHasItsLimit
    /\ RunHasItsBudget
    /\ OneDmForEachPair
    /\ OneOpenChannelOfAName
    /\ GroupsHaveTheirLimit
    /\ OneRecorder
    /\ LockIsHeldOverFew

Told(r) == heard[r] \cup ({wake[r]} \ {NoAnswer})

AnswerIsTold(r) ==
    /\ Told(r) = {answer[r]} \ {NoAnswer}
    /\ Job[r].kind = "secret" /\ answer[r] # NoAnswer => secret[r] = answer[r]

AnswersTo(r) == {q \in Made("resolve") : Job[q].request = r}
MovesOf(t) == {q \in Made("move") : Job[q].task = t}
DescribersOf(a) == {q \in Made("update") \cup Made("hire") : Job[q].agent = a}
StopsOf(d) == {q \in Made("stop") : Job[q].demo = d}

\* What a request has done outside, and not in its row.
Ahead(q) == pc[q] \in {"acted", "failed"}
MovedAhead(t) == \E q \in MovesOf(t) : Ahead(q) /\ card[t] = Job[q].status
DescribedAhead(a) ==
    \E q \in Made("update") : Job[q].agent = a /\ Ahead(q) /\ soul[a] = q

\* The two sides agree, item by item, unless requests about that very item have met,
\* whatever else overlaps and fails: the answer of a row is the one the teammate is
\* told, and the one in the file of secrets; the status of a task is that of its card,
\* or the card is where a move about that task has put it which has not committed, or
\* failed to; the description of a teammate is the one in SOUL.md, or SOUL.md has that
\* of an update of his that has not committed, or failed to; what has been verified
\* stays so.
OutcomesAgree ==
    /\ \A r \in Asks : AnswerIsTold(r) \/ Overlap(AnswersTo(r))
    /\ \A t \in Requests :
         ref[t] \in {"none", card[t]} \/ MovedAhead(t) \/ Overlap(MovesOf(t))
    /\ \A a \in hired :
         soul[a] = role[a] \/ DescribedAhead(a) \/ Overlap(DescribersOf(a))
    /\ \A q \in Made("verify") :
         pc[q] = "done" => phase[Job[q].demo] = "verified" \/ Overlap(StopsOf(Job[q].demo))
=============================================================================
