---------------------------- MODULE OfficeProofs ----------------------------
(***************************************************************************)
(* Proofs about Office, for every set of requests: its types, that rows    *)
(* are backed by what is outside, that the reporting lines are a tree,     *)
(* that the limits hold and that the two sides agree on the outcomes.      *)
(***************************************************************************)
EXTENDS Office, FiniteSetTheorems, TLAPS

\* What a request does to the variables of Requests in any of its steps.
Advance(q) ==
    \/ Call(q) \/ Reads(q) \/ Inserts(q) \/ Once(q) \/ Fail(q)
    \/ \E from \in {"read", "inserted", "acted"} : Acts(q, from) \/ Commits(q, from)

LEMMA AdvanceTypes ==
    ASSUME RequestTypeOK, NEW q \in Requests, Advance(q)
    PROVE  RequestTypeOK'
<1> USE RequestAssumption
<1>1. ASSUME NEW p \in Phases, pc' = [pc EXCEPT ![q] = p],
             lock' \in {lock, Free, q}, lock' = lock => lock # q \/ p \notin {"new", "done", "failed"},
             lock' = q => p \notin {"new", "done", "failed"}
      PROVE  /\ pc' \in [Requests -> Phases]
             /\ lock' \in UnderWay' \cup {Free}
  BY <1>1 DEF RequestTypeOK, UnderWay, Phases
<1>2. Meeting(q) \subseteq SUBSET Requests
  BY DEF Meeting, UnderWay, RequestTypeOK
<1>3. CASE Call(q)
  BY <1>1, <1>2, <1>3 DEF Call, RequestTypeOK, Phases, UnderWay
<1>4. CASE Reads(q)
  BY <1>1, <1>2, <1>4 DEF Reads, RequestTypeOK, Phases, UnderWay
<1>5. CASE Inserts(q)
  BY <1>1, <1>5 DEF Inserts, RequestTypeOK, Phases
<1>6. CASE Once(q)
  BY <1>1, <1>2, <1>6 DEF Once, RequestTypeOK, Phases
<1>7. CASE Fail(q)
  BY <1>1, <1>7 DEF Fail, RequestTypeOK, Phases
<1>8. ASSUME NEW from \in Phases, Acts(q, from)
      PROVE  RequestTypeOK'
  BY <1>1, <1>8 DEF Acts, RequestTypeOK, Phases
<1>9. ASSUME NEW from \in Phases, Commits(q, from)
      PROVE  RequestTypeOK'
  BY <1>1, <1>9 DEF Commits, RequestTypeOK, Phases
<1> QED BY <1>3, <1>4, <1>5, <1>6, <1>7, <1>8, <1>9 DEF Advance, Phases

-----------------------------------------------------------------------------
\* What each step does, component by component.

StaffAction(q) ==
    \/ HireReads(q) \/ HireProvisions(q) \/ HireWrites(q)
    \/ UpdateReads(q) \/ UpdateDescribes(q) \/ UpdateWrites(q)
    \/ RetireReads(q) \/ RetireWrites(q)
    \/ RenameReads(q) \/ InviteReads(q) \/ CardReads(q) \/ ResolveReads(q) \/ StopReads(q)
    \/ UNCHANGED staffVars

RoomAction(q) ==
    \/ DmWrites(q) \/ MakeGroup(q) \/ ChannelWrites(q) \/ RenameWrites(q)
    \/ JoinWrites(q) \/ InviteWrites(q) \/ ArchiveRoom(q)
    \/ HireWrites(q) /\ JoinGeneral(Job[q].agent)
    \/ AskHuman(q) /\ EnsureDm(q, {Job[q].agent, You})
    \/ UNCHANGED roomVars

TaskAction(q) ==
    \/ CardCreated(q) \/ CardWrites(q) \/ MoveReads(q) \/ MoveActs(q) \/ MoveWrites(q)
    \/ UNCHANGED taskVars

HumanAction(q) ==
    \/ AskHuman(q) \/ StoresSecret(q) \/ ResolveWrites(q)
    \/ UNCHANGED humanVars

DemoAction(q) ==
    \/ StartRecords(q) \/ StartCommits(q) \/ StopEnds(q) \/ StopWrites(q) \/ VerifyWrites(q)
    \/ UNCHANGED demoVars

RequestsStep(q) ==
    \/ RequestStep(q) \/ OrganizationStep(q) \/ RoomStep(q) \/ TaskStep(q)
    \/ HumanStep(q) \/ DemoStep(q)

LEMMA StepByComponent ==
    ASSUME NEW q \in Requests, RequestsStep(q)
    PROVE  /\ Advance(q)
           /\ StaffAction(q) /\ RoomAction(q) /\ TaskAction(q)
           /\ HumanAction(q) /\ DemoAction(q)
<1> USE DEF StaffAction, RoomAction, TaskAction, HumanAction, DemoAction
<1>1. CASE RequestStep(q)
  BY <1>1 DEF RequestStep, Advance
<1>2. CASE OrganizationStep(q)
  <2>1. Advance(q)
    BY <1>2 DEF OrganizationStep, Hiring, HireReads, HireProvisions, HireWrites,
         Reorganizing, UpdateReads, UpdateDescribes, UpdateWrites, Retiring,
         RetireReads, RetireWrites, Advance, Phases
  <2> QED BY <1>2, <2>1 DEF OrganizationStep, Hiring, Reorganizing, Retiring
<1>3. CASE RoomStep(q)
  <2>1. Advance(q)
    BY <1>3 DEF RoomStep, Messaging, DmReads, DmWrites, MakeGroup, FindsIt, Channels,
         ChannelReads, ChannelWrites, RenameReads, RenameWrites, JoinReads, JoinWrites,
         ArchiveRoom, Renaming, Inviting, InviteReads, InviteWrites, Advance, Phases
  <2>2. StaffAction(q)
    BY <1>3 DEF RoomStep, Renaming, RenameWrites, Inviting, InviteWrites
  <2>3. RoomAction(q)
    BY <1>3 DEF RoomStep, Messaging, Channels, Renaming, Inviting, DmReads, FindsIt, ChannelReads,
         RenameReads, JoinReads, InviteReads
  <2> QED BY <1>3, <2>1, <2>2, <2>3 DEF RoomStep
<1>4. CASE TaskStep(q)
  <2>1. Advance(q)
    BY <1>4 DEF TaskStep, CardReads, CardCreated, CardWrites, MoveReads, MoveActs,
         MoveWrites, Advance, Phases
  <2>2. StaffAction(q) /\ TaskAction(q)
    BY <1>4 DEF TaskStep, CardReads, CardCreated, CardWrites, MoveReads, MoveActs, MoveWrites
  <2> QED BY <1>4, <2>1, <2>2 DEF TaskStep
<1>5. CASE HumanStep(q)
  <2>1. CASE AskHuman(q) /\ EnsureDm(q, {Job[q].agent, You}) /\ UNCHANGED staffVars
    BY <1>5, <2>1 DEF AskHuman, HumanStep, Advance
  <2>2. CASE ResolveReads(q) /\ UNCHANGED roomVars
    BY <1>5, <2>2 DEF ResolveReads, HumanStep, Advance
  <2>3. CASE StoresSecret(q) /\ UNCHANGED roomVars
    BY <1>5, <2>3 DEF StoresSecret, HumanStep, Advance, Phases
  <2>4. CASE ResolveWrites(q) /\ UNCHANGED roomVars
    BY <1>5, <2>4 DEF ResolveWrites, HumanStep, Advance, Phases
  <2> QED BY <1>5, <2>1, <2>2, <2>3, <2>4 DEF HumanStep
<1>6. CASE DemoStep(q)
  <2>1. Advance(q)
    BY <1>6 DEF DemoStep, StartReads, StartInserts, StartRecords, StartCommits, StopReads,
         StopEnds, StopWrites, VerifyReads, VerifyWrites, Advance, Phases
  <2>2. StaffAction(q) /\ DemoAction(q)
    BY <1>6 DEF DemoStep, StartReads, StartInserts, StopReads, StopEnds, StopWrites, VerifyReads
  <2> QED BY <1>6, <2>1, <2>2 DEF DemoStep
<1> QED BY <1>1, <1>2, <1>3, <1>4, <1>5, <1>6 DEF RequestsStep

-----------------------------------------------------------------------------
\* The types.

LEMMA StaffTypes ==
    ASSUME StaffTypeOK, NEW q \in Requests, StaffAction(q)
    PROVE  StaffTypeOK'
<1> USE StaffAssumption DEF StaffTypeOK, Made
<1>1. CASE HireReads(q) \/ HireProvisions(q) \/ HireWrites(q)
  BY <1>1 DEF HireReads, HireProvisions, HireWrites, staffVars
<1>2. CASE UpdateReads(q) \/ UpdateDescribes(q) \/ UpdateWrites(q)
  BY <1>2 DEF UpdateReads, UpdateDescribes, UpdateWrites, staffVars
<1>3. CASE RetireReads(q) \/ RetireWrites(q)
  BY <1>3 DEF RetireReads, RetireWrites, Active
<1>4. CASE RenameReads(q) \/ InviteReads(q) \/ CardReads(q) \/ ResolveReads(q) \/ StopReads(q)
  BY <1>4, RoomAssumption DEF RenameReads, InviteReads, CardReads, ResolveReads, StopReads
<1>5. CASE UNCHANGED staffVars
  BY <1>5 DEF staffVars
<1> QED BY <1>1, <1>2, <1>3, <1>4, <1>5 DEF StaffAction

LEMMA RoomTypes ==
    ASSUME StaffTypeOK, RoomTypeOK, NEW q \in Requests, RoomAction(q)
    PROVE  RoomTypeOK'
<1> USE StaffAssumption, RoomAssumption DEF RoomTypeOK, Made, InsertRoom, Rooms, People
<1>1. CASE DmWrites(q) \/ MakeGroup(q)
  BY <1>1 DEF DmWrites, MakeGroup
<1>2. CASE ChannelWrites(q)
  BY <1>2 DEF ChannelWrites
<1>3. CASE RenameWrites(q)
  BY <1>3 DEF RenameWrites, StaffTypeOK
<1>4. CASE JoinWrites(q) \/ InviteWrites(q)
  BY <1>4 DEF JoinWrites, InviteWrites
<1>5. CASE ArchiveRoom(q)
  BY <1>5 DEF ArchiveRoom
<1>6. CASE HireWrites(q) /\ JoinGeneral(Job[q].agent)
  BY <1>6 DEF HireWrites, JoinGeneral
<1>7. CASE AskHuman(q) /\ EnsureDm(q, {Job[q].agent, You})
  <2>1. Job[q].agent \in Agents
    BY <1>7, HumanRequestAssumption DEF AskHuman, Asks
  <2> QED BY <1>7, <2>1 DEF EnsureDm, roomVars
<1>8. CASE UNCHANGED roomVars
  BY <1>8 DEF roomVars
<1> QED BY <1>1, <1>2, <1>3, <1>4, <1>5, <1>6, <1>7, <1>8 DEF RoomAction

LEMMA TaskTypes ==
    ASSUME TaskTypeOK, NEW q \in Requests, TaskAction(q)
    PROVE  TaskTypeOK'
  BY TaskAssumption DEF TaskTypeOK, Made, TaskAction, CardCreated, CardWrites, MoveReads,
       MoveActs, MoveWrites, CardStatuses, taskVars

LEMMA HumanTypes ==
    ASSUME HumanRequestTypeOK, NEW q \in Requests, HumanAction(q)
    PROVE  HumanRequestTypeOK'
<1> USE HumanRequestAssumption DEF HumanRequestTypeOK, Made, Asks
<1>1. CASE AskHuman(q)
  BY <1>1 DEF AskHuman
<1>2. CASE StoresSecret(q)
  BY <1>2 DEF StoresSecret
<1>3. CASE ResolveWrites(q)
  BY <1>3 DEF ResolveWrites, TellAnswer
<1>4. CASE UNCHANGED humanVars
  BY <1>4 DEF humanVars
<1> QED BY <1>1, <1>2, <1>3, <1>4 DEF HumanAction

LEMMA DemoTypes ==
    ASSUME DemoTypeOK, NEW q \in Requests, DemoAction(q)
    PROVE  DemoTypeOK'
  BY DemoAssumption DEF DemoTypeOK, Made, Demos, DemoAction, StartRecords, StartCommits,
       StopEnds, StopWrites, VerifyWrites, demoVars

LEMMA AnswerStepTypes ==
    ASSUME TypeOK, AnswerStep
    PROVE  TypeOK'
<1>1. HumanRequestTypeOK'
  BY HumanRequestAssumption DEF TypeOK, AnswerStep, HumanRequestTypeOK, RequestExpires, HearAnswer, Asks
<1> QED BY <1>1 DEF AnswerStep, TypeOK, requestVars, staffVars, roomVars, taskVars, demoVars,
          RequestTypeOK, UnderWay, StaffTypeOK, RoomTypeOK, TaskTypeOK, DemoTypeOK

LEMMA InitTypes == Init => TypeOK
<1> SUFFICES ASSUME Init PROVE TypeOK
  OBVIOUS
<1>1. RequestTypeOK
  BY RequestAssumption DEF Init, RequestInit, RequestTypeOK, Phases
<1>2. StaffTypeOK
  BY StaffAssumption DEF Init, StaffInit, StaffTypeOK
<1>3. RoomTypeOK
  BY RoomAssumption DEF Init, RoomInit, RoomTypeOK, Rooms
<1>4. TaskTypeOK
  BY DEF Init, TaskInit, TaskTypeOK, CardStatuses
<1>5. HumanRequestTypeOK
  BY DEF Init, HumanRequestInit, HumanRequestTypeOK
<1>6. DemoTypeOK
  BY DEF Init, DemoInit, DemoTypeOK
<1> QED BY <1>1, <1>2, <1>3, <1>4, <1>5, <1>6 DEF TypeOK

LEMMA StepTypes ==
    ASSUME TypeOK, [Next]_vars
    PROVE  TypeOK'
<1>1. ASSUME NEW q \in Requests, RequestsStep(q)
      PROVE  TypeOK'
  BY <1>1, StepByComponent, AdvanceTypes, StaffTypes, RoomTypes, TaskTypes, HumanTypes,
     DemoTypes DEF TypeOK
<1>2. CASE UNCHANGED vars
  BY <1>2 DEF vars, requestVars, staffVars, roomVars, taskVars, humanVars, demoVars, TypeOK,
       RequestTypeOK, UnderWay, StaffTypeOK, RoomTypeOK, TaskTypeOK, HumanRequestTypeOK, DemoTypeOK
<1>3. InPlay \subseteq Requests
  BY RequestAssumption DEF InPlay, UnderWay, Startable
<1> QED BY <1>1, <1>2, <1>3, AnswerStepTypes DEF Next, RequestsStep

\* All the variables of the office keep their types, and a request that is over has
\* not the write lock (get_team commits or rolls back).
THEOREM TypeCorrect == Spec => []TypeOK
<1>1. Init => TypeOK
  BY InitTypes
<1>2. TypeOK /\ [Next]_vars => TypeOK'
  BY StepTypes
<1> QED BY <1>1, <1>2, PTL DEF Spec

-----------------------------------------------------------------------------
\* Rows are backed by what is outside.

\* What a request has done outside is still there when it commits, and what it has
\* read of a demonstration has not become less.
WorkIsBacked ==
    \A q \in Requests :
      /\ Job[q].op = "hire" /\ pc[q] = "acted" => Job[q].agent \in profiles
      /\ Job[q].op = "card" /\ pc[q] = "acted" => card[q] # "none"
      /\ Job[q].op = "move" /\ pc[q] \in {"read", "acted"} => card[Job[q].task] # "none"
      /\ Job[q].op = "resolve" /\ pc[q] = "acted" => secret[Job[q].request] # NoAnswer
      /\ Job[q].op = "start" /\ pc[q] = "acted" => recorder[q] # "off"
      /\ Job[q].op = "start" /\ phase[q] # "none" => pc[q] = "done"
      /\ Job[q].op = "stop" /\ pc[q] \in {"read", "acted"} => phase[Job[q].demo] # "none"
      /\ Job[q].op = "stop" /\ pc[q] = "acted" => recorder[Job[q].demo] = "stopped"
      /\ Job[q].op = "verify" /\ pc[q] = "read" => phase[Job[q].demo] \in {"learning", "verified"}

Backing == TypeOK /\ RowsAreBacked /\ WorkIsBacked

\* The steps of a request are those of its operation.
LEMMA StepByOperation ==
    ASSUME NEW q \in Requests, RequestsStep(q)
    PROVE  /\ Job[q].op = "hire" => Call(q) \/ Fail(q) \/ HireReads(q) \/ HireProvisions(q) \/ HireWrites(q)
           /\ Job[q].op = "update" => \/ Call(q) \/ Fail(q) \/ UpdateReads(q) \/ UpdateDescribes(q)
                                      \/ UpdateWrites(q)
           /\ Job[q].op = "retire" => Call(q) \/ Fail(q) \/ RetireReads(q) \/ RetireWrites(q)
           /\ Job[q].op = "card" => Call(q) \/ Fail(q) \/ CardReads(q) \/ CardCreated(q) \/ CardWrites(q)
           /\ Job[q].op = "move" => Call(q) \/ Fail(q) \/ MoveReads(q) \/ MoveActs(q) \/ MoveWrites(q)
           /\ Job[q].op = "resolve" => Call(q) \/ Fail(q) \/ ResolveReads(q) \/ StoresSecret(q) \/ ResolveWrites(q)
           /\ Job[q].op = "start" => \/ Call(q) \/ Fail(q) \/ StartReads(q) \/ StartInserts(q)
                                     \/ StartRecords(q) \/ StartCommits(q)
           /\ Job[q].op = "stop" => Call(q) \/ Fail(q) \/ StopReads(q) \/ StopEnds(q) \/ StopWrites(q)
           /\ Job[q].op = "verify" => Call(q) \/ Fail(q) \/ VerifyReads(q) \/ VerifyWrites(q)
<1>1. CASE RequestStep(q)
  BY <1>1 DEF RequestStep
<1>2. CASE OrganizationStep(q)
  BY <1>2 DEF OrganizationStep, Hiring, HireReads, HireProvisions, HireWrites, Reorganizing,
       UpdateReads, UpdateDescribes, UpdateWrites, Retiring, RetireReads, RetireWrites
<1>3. CASE RoomStep(q)
  BY <1>3 DEF RoomStep, Messaging, DmReads, DmWrites, MakeGroup, FindsIt, Channels,
       ChannelReads, ChannelWrites, RenameReads, RenameWrites, JoinReads, JoinWrites,
       ArchiveRoom, Renaming, Inviting, InviteReads, InviteWrites, Made
<1>4. CASE TaskStep(q)
  BY <1>4 DEF TaskStep, CardReads, CardCreated, CardWrites, MoveReads, MoveActs, MoveWrites
<1>5. CASE HumanStep(q)
  BY <1>5 DEF HumanStep, AskHuman, ResolveReads, StoresSecret, ResolveWrites
<1>6. CASE DemoStep(q)
  BY <1>6 DEF DemoStep, StartReads, StartInserts, StartRecords, StartCommits, StopReads,
       StopEnds, StopWrites, VerifyReads, VerifyWrites
<1> QED BY <1>1, <1>2, <1>3, <1>4, <1>5, <1>6 DEF RequestsStep

\* A step of q leaves the others where they are.
LEMMA OthersStay ==
    ASSUME RequestTypeOK, NEW q \in Requests, Advance(q)
    PROVE  \A p \in Requests : p # q => pc'[p] = pc[p]
  BY DEF RequestTypeOK, Advance, Call, Reads, Inserts, Once, Fail, Acts, Commits

\* The outside only grows, and a demonstration that has a row keeps one.
LEMMA OutsideGrows ==
    ASSUME Backing, NEW q \in Requests, RequestsStep(q)
    PROVE  /\ profiles \subseteq profiles'
           /\ \A t \in Requests : card[t] # "none" => card'[t] # "none"
           /\ \A r \in Asks : secret[r] # NoAnswer => secret'[r] # NoAnswer
           /\ \A d \in Demos : recorder[d] # "off" => recorder'[d] # "off"
           /\ \A d \in Demos : phase[d] # "none" /\ recorder[d] = "stopped" => recorder'[d] = "stopped"
           /\ \A d \in Demos : phase[d] # "none" => phase'[d] # "none"
           /\ \A d \in Demos : phase[d] \in {"learning", "verified"} => phase'[d] \in {"learning", "verified"}
<1> USE DEF Backing, TypeOK
<1>1. profiles \subseteq profiles'
  BY StepByComponent DEF StaffAction, HireReads, HireProvisions, HireWrites, UpdateReads,
       UpdateDescribes, UpdateWrites, RetireReads, RetireWrites, RenameReads, InviteReads, CardReads,
       ResolveReads, StopReads, staffVars
<1>2. \A t \in Requests : card[t] # "none" => card'[t] # "none"
  <2>1. CASE MoveActs(q)
    BY <2>1, TaskAssumption DEF MoveActs, TaskTypeOK, Made
  <2>2. CASE CardCreated(q)
    BY <2>2 DEF CardCreated, TaskTypeOK
  <2> QED BY <2>1, <2>2, StepByComponent DEF TaskAction, CardWrites, MoveReads, MoveWrites, taskVars
<1>3. \A r \in Asks : secret[r] # NoAnswer => secret'[r] # NoAnswer
  <2>1. CASE StoresSecret(q)
    BY <2>1, HumanRequestAssumption DEF StoresSecret, HumanRequestTypeOK, Made
  <2> QED BY <2>1, StepByComponent DEF HumanAction, AskHuman, ResolveWrites, humanVars
<1>4. CASE StartRecords(q)
  <2>1. q \in Demos /\ phase[q] = "none"
    BY <1>4 DEF StartRecords, Acts, WorkIsBacked, Demos, Made
  <2> QED BY <1>1, <1>2, <1>3, <1>4, <2>1 DEF StartRecords, DemoTypeOK
<1>5. CASE ~StartRecords(q)
  <2>1. CASE StartCommits(q)
    <3>1. phase[q] = "none" \/ pc[q] = "done"
      BY <2>1 DEF StartCommits, WorkIsBacked
    <3>2. phase[q] = "none"
      BY <2>1, <3>1 DEF StartCommits, Commits
    <3> QED BY <1>1, <1>2, <1>3, <2>1, <3>2 DEF StartCommits, DemoTypeOK
  <2>2. CASE StopEnds(q)
    BY <1>1, <1>2, <1>3, <2>2 DEF StopEnds, DemoTypeOK
  <2>3. CASE StopWrites(q)
    BY <1>1, <1>2, <1>3, <2>3 DEF StopWrites, DemoTypeOK
  <2>4. CASE VerifyWrites(q)
    BY <1>1, <1>2, <1>3, <2>4 DEF VerifyWrites, DemoTypeOK
  <2> QED BY <1>1, <1>2, <1>3, <1>5, <2>1, <2>2, <2>3, <2>4, StepByComponent DEF DemoAction, demoVars
<1> QED BY <1>4, <1>5

\* The requests other than q: their pc stays, the outside grows.
LEMMA OthersStayBacked ==
    ASSUME Backing, NEW q \in Requests, RequestsStep(q), NEW p \in Requests, p # q
    PROVE  /\ Job[p].op = "hire" /\ pc'[p] = "acted" => Job[p].agent \in profiles'
           /\ Job[p].op = "card" /\ pc'[p] = "acted" => card'[p] # "none"
           /\ Job[p].op = "move" /\ pc'[p] \in {"read", "acted"} => card'[Job[p].task] # "none"
           /\ Job[p].op = "resolve" /\ pc'[p] = "acted" => secret'[Job[p].request] # NoAnswer
           /\ Job[p].op = "start" /\ pc'[p] = "acted" => recorder'[p] # "off"
           /\ Job[p].op = "start" /\ phase'[p] # "none" => pc'[p] = "done"
           /\ Job[p].op = "stop" /\ pc'[p] \in {"read", "acted"} => phase'[Job[p].demo] # "none"
           /\ Job[p].op = "stop" /\ pc'[p] = "acted" => recorder'[Job[p].demo] = "stopped"
           /\ Job[p].op = "verify" /\ pc'[p] = "read" => phase'[Job[p].demo] \in {"learning", "verified"}
<1>1. pc'[p] = pc[p]
  BY OthersStay, StepByComponent DEF Backing, TypeOK
<1>2. WorkIsBacked
  BY DEF Backing
<1>3. ASSUME Job[p].op = "start", phase'[p] # "none", phase[p] = "none"
      PROVE  pc'[p] = "done"
  <2>1. p \in Demos
    BY <1>3 DEF Demos, Made
  <2>2. DemoTypeOK
    BY DEF Backing, TypeOK
  <2>3. \/ Job[q].op = "stop" /\ pc[q] = "acted" /\ Job[q].demo = p
        \/ Job[q].op = "verify" /\ pc[q] = "read" /\ Job[q].demo = p
    BY <1>3, <2>1, <2>2, StepByComponent DEF DemoAction, StartRecords, StartCommits, StopEnds,
       StopWrites, VerifyWrites, Commits, DemoTypeOK, demoVars
  <2> QED BY <1>2, <1>3, <2>3 DEF WorkIsBacked
<1>4. /\ Job[p].op = "resolve" => Job[p].request \in Asks
      /\ Job[p].op = "move" => Job[p].task \in Requests
      /\ Job[p].op \in {"stop", "verify"} => Job[p].demo \in Demos
      /\ Job[p].op = "start" => p \in Demos
  BY HumanRequestAssumption, DemoAssumption, TaskAssumption DEF Made, Demos
<1> QED BY <1>1, <1>2, <1>3, <1>4, OutsideGrows DEF WorkIsBacked

LEMMA StepKeepsWorkBacked ==
    ASSUME Backing, NEW q \in Requests, RequestsStep(q)
    PROVE  WorkIsBacked'
<1> USE DEF Backing, TypeOK
<1>0. pc \in [Requests -> Phases]
  BY DEF RequestTypeOK
<1>1. Job[q].op = "hire" /\ pc'[q] = "acted" => Job[q].agent \in profiles'
  BY <1>0, StepByOperation DEF Call, Fail, HireReads, Reads, HireProvisions, HireWrites, Commits
<1>2. Job[q].op = "card" /\ pc'[q] = "acted" => card'[q] # "none"
  BY <1>0, StepByOperation DEF Call, Fail, CardReads, Reads, CardCreated, CardWrites, Commits, TaskTypeOK
<1>9. Job[q].op = "move" /\ pc'[q] \in {"read", "acted"} => card'[Job[q].task] # "none"
  <2>1. SUFFICES ASSUME Job[q].op = "move", pc'[q] \in {"read", "acted"}
                 PROVE  card'[Job[q].task] # "none"
    OBVIOUS
  <2>2. Job[q].task \in Requests
    BY <2>1, TaskAssumption DEF Made
  <2>3. CASE MoveReads(q)
    BY <2>2, <2>3, OutsideGrows DEF MoveReads, RowsAreBacked
  <2>4. CASE MoveActs(q)
    BY <2>1, <2>2, <2>4, TaskAssumption DEF MoveActs, TaskTypeOK, Made
  <2> QED BY <1>0, <2>1, <2>3, <2>4, StepByOperation DEF Call, Fail, MoveWrites, Commits
<1>3. Job[q].op = "resolve" /\ pc'[q] = "acted" => secret'[Job[q].request] # NoAnswer
  BY <1>0, StepByOperation, HumanRequestAssumption DEF Call, Fail, ResolveReads, Reads, StoresSecret,
     ResolveWrites, Commits, HumanRequestTypeOK, Made
<1>4. Job[q].op = "start" => q \in Demos
  BY DEF Demos, Made
<1>5. Job[q].op = "start" /\ pc'[q] = "acted" => recorder'[q] # "off"
  BY <1>0, <1>4, StepByOperation DEF Call, Fail, StartReads, Reads, StartInserts, Inserts, StartRecords,
     StartCommits, Commits, DemoTypeOK
<1>6. Job[q].op = "start" /\ phase'[q] # "none" => pc'[q] = "done"
  <2>1. SUFFICES ASSUME Job[q].op = "start", phase'[q] # "none" PROVE pc'[q] = "done"
    OBVIOUS
  <2>2. CASE StartCommits(q)
    BY <1>0, <2>2 DEF StartCommits, Commits
  <2>3. CASE ~StartCommits(q)
    <3>1. UNCHANGED phase
      BY <2>1, <2>3, StepByComponent DEF DemoAction, StartRecords, StopEnds, StopWrites, VerifyWrites, demoVars
    <3>2. pc[q] = "done"
      BY <2>1, <3>1 DEF WorkIsBacked
    <3> QED BY <2>1, <2>3, <3>2, StepByOperation DEF Call, Fail,
         UnderWay, StartReads, Reads, StartInserts, Inserts, StartRecords, Acts
  <2> QED BY <2>2, <2>3
<1>7. /\ Job[q].op = "stop" /\ pc'[q] \in {"read", "acted"} => phase'[Job[q].demo] # "none"
      /\ Job[q].op = "stop" /\ pc'[q] = "acted" => recorder'[Job[q].demo] = "stopped"
  <2>1. SUFFICES ASSUME Job[q].op = "stop"
                 PROVE  /\ pc'[q] \in {"read", "acted"} => phase'[Job[q].demo] # "none"
                        /\ pc'[q] = "acted" => recorder'[Job[q].demo] = "stopped"
    OBVIOUS
  <2>2. Job[q].demo \in Demos
    BY <2>1, DemoAssumption DEF Made
  <2>3. CASE StopReads(q)
    BY <1>0, <2>3 DEF StopReads, Reads, demoVars
  <2>4. CASE StopEnds(q)
    BY <1>0, <2>1, <2>2, <2>4 DEF StopEnds, Acts, DemoTypeOK, WorkIsBacked
  <2>5. CASE StopWrites(q) \/ Call(q) \/ Fail(q)
    BY <1>0, <2>5 DEF StopWrites, Commits, Call, Fail
  <2> QED BY <2>1, <2>3, <2>4, <2>5, StepByOperation
<1>8. Job[q].op = "verify" /\ pc'[q] = "read" => phase'[Job[q].demo] \in {"learning", "verified"}
  BY <1>0, StepByOperation DEF Call, Fail, VerifyReads, Reads, VerifyWrites, Commits, demoVars
<1> QED BY <1>1, <1>2, <1>3, <1>5, <1>6, <1>7, <1>8, <1>9, OthersStayBacked DEF WorkIsBacked

LEMMA StepKeepsRowsBacked ==
    ASSUME Backing, NEW q \in Requests, RequestsStep(q)
    PROVE  RowsAreBacked'
<1> USE DEF Backing, TypeOK
<1>1. hired' \subseteq profiles'
  <2>1. CASE HireWrites(q)
    BY <2>1 DEF HireWrites, Commits, WorkIsBacked, RowsAreBacked
  <2>2. CASE ~HireWrites(q)
    <3>1. UNCHANGED hired
      BY <2>2, StepByComponent DEF StaffAction, HireReads, HireProvisions, UpdateReads,
         UpdateDescribes, UpdateWrites, RetireReads, RetireWrites, RenameReads, InviteReads, CardReads,
         ResolveReads, StopReads, staffVars
    <3> QED BY <3>1, OutsideGrows DEF RowsAreBacked
  <2> QED BY <2>1, <2>2
<1>2. \A t \in Requests : ref'[t] # "none" => card'[t] # "none"
  <2>1. CASE CardWrites(q)
    BY <2>1 DEF CardWrites, Commits, WorkIsBacked, RowsAreBacked, TaskTypeOK
  <2>2. CASE MoveWrites(q)
    <3>1. card[Job[q].task] # "none"
      BY <2>2 DEF MoveWrites, Commits, WorkIsBacked
    <3> QED BY <2>2, <3>1 DEF MoveWrites, RowsAreBacked, TaskTypeOK
  <2>3. CASE UNCHANGED ref
    BY <2>3, OutsideGrows DEF RowsAreBacked
  <2> QED BY <2>1, <2>2, <2>3, StepByComponent DEF TaskAction, CardCreated, MoveReads, MoveActs, taskVars
<1>3. \A r \in Asks :
        Job[r].kind = "secret" /\ answer'[r] # NoAnswer => secret'[r] # NoAnswer
  <2>1. CASE ResolveWrites(q)
    BY <2>1 DEF ResolveWrites, Commits, WorkIsBacked, RowsAreBacked, HumanRequestTypeOK
  <2>2. CASE UNCHANGED answer
    BY <2>2, OutsideGrows DEF RowsAreBacked
  <2> QED BY <2>1, <2>2, StepByComponent DEF HumanAction, AskHuman, StoresSecret, humanVars
<1>4. \A d \in Demos :
        /\ phase'[d] # "none" => recorder'[d] # "off"
        /\ phase'[d] \in {"learning", "verified"} => recorder'[d] = "stopped"
  <2>1. CASE StartCommits(q)
    BY <2>1 DEF StartCommits, Commits, WorkIsBacked, RowsAreBacked, DemoTypeOK
  <2>2. CASE StopWrites(q)
    BY <2>2 DEF StopWrites, Commits, WorkIsBacked, RowsAreBacked, DemoTypeOK
  <2>3. CASE VerifyWrites(q)
    BY <2>3 DEF VerifyWrites, Commits, WorkIsBacked, RowsAreBacked, DemoTypeOK
  <2>4. CASE UNCHANGED phase
    BY <2>4, OutsideGrows DEF RowsAreBacked
  <2> QED BY <2>1, <2>2, <2>3, <2>4, StepByComponent DEF DemoAction, StartRecords, StopEnds, demoVars
<1> QED BY <1>1, <1>2, <1>3, <1>4 DEF RowsAreBacked

LEMMA AnswersKeepBacking ==
    ASSUME Backing, AnswerStep
    PROVE  RowsAreBacked' /\ WorkIsBacked'
<1>1. UNCHANGED <<answer, secret, pc, hired, profiles, ref, card, phase, recorder>>
  BY DEF AnswerStep, RequestExpires, HearAnswer, requestVars, staffVars, taskVars, demoVars
<1> QED BY <1>1 DEF Backing, RowsAreBacked, WorkIsBacked

LEMMA StepKeepsBacking ==
    ASSUME Backing, [Next]_vars
    PROVE  Backing'
<1>1. TypeOK'
  BY StepTypes DEF Backing
<1>2. CASE UNCHANGED vars
  BY <1>1, <1>2 DEF vars, requestVars, staffVars, taskVars, humanVars, demoVars, Backing,
       RowsAreBacked, WorkIsBacked
<1>3. InPlay \subseteq Requests
  BY RequestAssumption DEF InPlay, UnderWay, Startable
<1> QED BY <1>1, <1>2, <1>3, StepKeepsRowsBacked, StepKeepsWorkBacked, AnswersKeepBacking
     DEF Next, RequestsStep, Backing

LEMMA InitIsBacked == Init => Backing
<1> SUFFICES ASSUME Init PROVE Backing
  OBVIOUS
<1>1. /\ hired = profiles
      /\ \A q \in Requests : pc[q] = "new" /\ ref[q] = "none"
      /\ \A r \in Asks : answer[r] = NoAnswer
  BY DEF Init, RequestInit, StaffInit, TaskInit, HumanRequestInit
<1>2. PICK D \in SUBSET OldDemos :
        /\ phase = [d \in Demos |-> IF d \in D THEN "recording" ELSE "none"]
        /\ recorder = [d \in Demos |-> IF d \in D THEN "on" ELSE "off"]
  BY DEF Init, DemoInit
<1>3. RowsAreBacked
  BY <1>1, <1>2 DEF RowsAreBacked
<1>4. \A q \in Requests : Job[q].op = "start" => phase[q] = "none"
  BY <1>2, DemoAssumption DEF Demos, Made
<1> QED BY <1>1, <1>3, <1>4, InitTypes DEF Backing, WorkIsBacked

\* Whatever fails and whatever overlaps: a teammate has his profile, a task its card,
\* an answered request for a secret its entry, a demonstration its recorder and, once
\* it is to be learned, its video (the commands of hire_agent, create_task,
\* resolve_human_request and DemonstrationService come before the commit).
THEOREM Backed == Spec => []RowsAreBacked
<1>1. Init => Backing
  BY InitIsBacked
<1>2. Backing /\ [Next]_vars => Backing'
  BY StepKeepsBacking
<1>3. Backing => RowsAreBacked
  BY DEF Backing
<1> QED BY <1>1, <1>2, <1>3, PTL DEF Spec

-----------------------------------------------------------------------------
\* The reporting lines.

Closed(S, b) == \A x \in S : b[x] \in Agents => b[x] \in S
Apart(m, a, b) == \E S \in SUBSET Agents : Closed(S, b) /\ m \in S /\ a \notin S
Tree(b) == \A S \in SUBSET Agents : S # {} => \E a \in S : b[a] \notin S

Bosses == [Agents -> Agents \cup {You, Nobody}]

\* Who is not above his new manager may report to him.
LEMMA MoveKeepsTree ==
    ASSUME NEW b \in Bosses, Tree(b), NEW a \in Agents, NEW m \in Agents, Apart(m, a, b)
    PROVE  Tree([b EXCEPT ![a] = m])
<1> DEFINE c == [b EXCEPT ![a] = m]
<1> SUFFICES ASSUME NEW S \in SUBSET Agents, S # {}, \A x \in S : c[x] \in S
             PROVE  FALSE
  BY DEF Tree
<1>0. /\ \A x \in Agents \ {a} : c[x] = b[x]
      /\ c[a] = m
  BY DEF Bosses
<1> HIDE DEF c
<1>1. CASE a \notin S
  BY <1>0, <1>1 DEF Tree
<1>2. CASE a \in S
  <2>1. PICK C \in SUBSET Agents : Closed(C, b) /\ m \in C /\ a \notin C
    BY DEF Apart
  <2>2. m \in S \cap C
    BY <1>0, <1>2, <2>1
  <2>3. \A x \in S \cap C : b[x] \in S \cap C
    BY <1>0, <2>1 DEF Closed
  <2> QED BY <2>2, <2>3 DEF Tree
<1> QED BY <1>1, <1>2

\* A newcomer, whom nobody reports to, may report to any other.
LEMMA NewcomerKeepsTree ==
    ASSUME NEW b \in Bosses, Tree(b), NEW x \in Agents, NEW m \in Agents \ {x},
           \A y \in Agents : b[y] # x
    PROVE  /\ Tree([b EXCEPT ![x] = m])
           /\ \A k, a \in Agents \ {x} : Apart(k, a, b) => Apart(k, a, [b EXCEPT ![x] = m])
<1> DEFINE c == [b EXCEPT ![x] = m]
<1>0. /\ \A y \in Agents \ {x} : c[y] = b[y]
      /\ c[x] = m
  BY DEF Bosses
<1> HIDE DEF c
<1>1. Tree(c)
  <2> SUFFICES ASSUME NEW S \in SUBSET Agents, S # {}, \A y \in S : c[y] \in S
               PROVE  FALSE
    BY DEF Tree
  <2>1. \A y \in S \ {x} : b[y] \in S \ {x}
    BY <1>0
  <2>2. S \ {x} # {}
    BY <1>0
  <2> QED BY <2>1, <2>2 DEF Tree
<1>2. ASSUME NEW k \in Agents \ {x}, NEW a \in Agents \ {x}, Apart(k, a, b)
      PROVE  Apart(k, a, c)
  <2>1. PICK C \in SUBSET Agents : Closed(C, b) /\ k \in C /\ a \notin C
    BY <1>2 DEF Apart
  <2>2. Closed(C \ {x}, c)
    BY <1>0, <2>1 DEF Closed
  <2> QED BY <2>1, <2>2 DEF Apart
<1> QED BY <1>1, <1>2 DEF c

\* Any number of teammates but the root may come to report to the root.
LEMMA RootKeepsTree ==
    ASSUME NEW b \in Bosses, Tree(b), NEW R \in SUBSET Agents, Chief \in Agents,
           Chief \notin R, b[Chief] = Nobody, Nobody \notin Agents
    PROVE  /\ Tree([a \in Agents |-> IF a \in R THEN Chief ELSE b[a]])
           /\ \A k \in Agents, a \in Agents \ {Chief} :
                Apart(k, a, b) => Apart(k, a, [x \in Agents |-> IF x \in R THEN Chief ELSE b[x]])
<1> DEFINE c == [a \in Agents |-> IF a \in R THEN Chief ELSE b[a]]
<1>0. /\ \A x \in Agents : c[x] = IF x \in R THEN Chief ELSE b[x]
      /\ c[Chief] = Nobody
  OBVIOUS
<1> HIDE DEF c
<1>1. Tree(c)
  <2> SUFFICES ASSUME NEW S \in SUBSET Agents, S # {}, \A y \in S : c[y] \in S
               PROVE  FALSE
    BY DEF Tree
  <2>1. Chief \notin S
    BY <1>0
  <2>2. \A y \in S : b[y] \in S
    BY <1>0, <2>1
  <2> QED BY <2>2 DEF Tree
<1>2. ASSUME NEW k \in Agents, NEW a \in Agents \ {Chief}, Apart(k, a, b)
      PROVE  Apart(k, a, c)
  <2>1. PICK C \in SUBSET Agents : Closed(C, b) /\ k \in C /\ a \notin C
    BY <1>2 DEF Apart
  <2>2. Closed(C \cup {Chief}, c)
    BY <1>0, <2>1 DEF Closed
  <2> QED BY <2>1, <2>2 DEF Apart
<1> QED BY <1>1, <1>2 DEF c

Quiet == ~Overlap(Made("update")) /\ ~Overlap(Made("hire"))

AsRead(q) ==
    /\ Job[q].op = "hire" => Job[q].agent \notin hired /\ Job[q].manager \in hired
    /\ Job[q].op = "update" =>
         /\ Job[q].agent \in hired \ {Chief}
         /\ Job[q].manager \in hired \cup {You, Nobody}
         /\ Job[q].manager \in hired => Apart(Job[q].manager, Job[q].agent, boss)
    /\ Job[q].op = "retire" => Chief \notin saw[q]

\* What holds while no two reorganizations and no two hirings meet: the root has no
\* manager, all managers have been hired, and what the requests under way have read
\* of the reporting lines has not changed to their harm.
LinesInOrder ==
    /\ NobodyAboveHimself
    /\ Chief \in hired /\ boss[Chief] = Nobody
    /\ \A a \in Agents : boss[a] \in hired \cup {You, Nobody}
    /\ \A q \in Requests : pc[q] \in {"read", "acted"} => AsRead(q)

Meetings == \A p, q \in UnderWay : p # q => {p, q} \in overlapped

Lines == TypeOK /\ Meetings /\ (Quiet => LinesInOrder)

LEMMA StepKeepsMeetings ==
    ASSUME RequestTypeOK, Meetings, NEW q \in Requests, Advance(q)
    PROVE  Meetings' /\ (Quiet' => Quiet)
<1>1. overlapped \subseteq overlapped'
  BY DEF Advance, Call, Reads, Inserts, Once, Fail, Acts, Commits, Meeting
<1>2. q \in UnderWay' => q \in UnderWay \/ overlapped' = Meeting(q)
  BY DEF Advance, Call, Reads, Inserts, Once, Fail, Acts, Commits, UnderWay, RequestTypeOK, Phases
<1>3. \A p \in Requests : p # q => pc'[p] = pc[p]
  BY OthersStay
<1>4. ASSUME NEW p \in UnderWay', NEW r \in UnderWay', p # r
      PROVE  {p, r} \in overlapped'
  <2>1. CASE p \in UnderWay /\ r \in UnderWay
    BY <1>1, <1>4, <2>1 DEF Meetings
  <2>2. CASE p = q /\ q \notin UnderWay
    <3>1. r \in UnderWay
      BY <1>3, <1>4, <2>2 DEF UnderWay
    <3>2. {r, q} \in Meeting(q)
      BY <3>1 DEF Meeting
    <3>3. {p, r} = {r, q}
      BY <2>2
    <3> QED BY <1>2, <1>4, <2>2, <3>2, <3>3
  <2>3. CASE r = q /\ q \notin UnderWay
    <3>1. p \in UnderWay
      BY <1>3, <1>4, <2>3 DEF UnderWay
    <3>2. {p, q} \in Meeting(q)
      BY <3>1 DEF Meeting
    <3> QED BY <1>2, <1>4, <2>3, <3>2
  <2> QED BY <1>3, <1>4, <2>1, <2>2, <2>3 DEF UnderWay
<1> QED BY <1>1, <1>4 DEF Meetings, Quiet, Overlap

\* While it is quiet no other hiring is under way beside a hiring, and no other
\* reorganization beside a reorganization.
LEMMA AloneOfItsKind ==
    ASSUME RequestTypeOK, Meetings, Quiet, NEW q \in Requests, NEW p \in Requests, p # q,
           pc[q] \in {"read", "acted"}, pc[p] \in {"read", "acted"},
           Job[q].op \in {"hire", "update"}
    PROVE  Job[p].op # Job[q].op
<1>1. p \in UnderWay /\ q \in UnderWay
  BY DEF UnderWay
<1>2. {p, q} \in overlapped
  BY <1>1 DEF Meetings
<1>3. Job[p].op = Job[q].op => {p, q} \subseteq Made(Job[q].op)
  BY DEF Made
<1> QED BY <1>2, <1>3 DEF Quiet, Overlap

\* Steps that leave the lines as they are.
LEMMA ReadingKeepsOrder ==
    ASSUME TypeOK, LinesInOrder, NEW q \in Requests, RequestsStep(q), UNCHANGED <<hired, boss>>
    PROVE  LinesInOrder'
<1>1. \A p \in Requests : p # q => pc'[p] = pc[p]
  BY OthersStay, StepByComponent DEF TypeOK
<1>2. \A p \in Requests : p # q => saw'[p] = saw[p]
  BY StepByComponent DEF StaffAction, HireReads, HireProvisions, HireWrites, UpdateReads,
     UpdateDescribes, UpdateWrites, RetireReads, RetireWrites, RenameReads, InviteReads, CardReads,
     ResolveReads, StopReads, staffVars, TypeOK, StaffTypeOK
<1>3. ASSUME NEW p \in Requests, p # q, pc'[p] \in {"read", "acted"}
      PROVE  AsRead(p)'
  BY <1>1, <1>2, <1>3 DEF LinesInOrder, AsRead, Apart, Closed
<1>4. ASSUME pc'[q] \in {"read", "acted"}
      PROVE  AsRead(q)'
  <2>0. pc \in [Requests -> Phases]
    BY DEF TypeOK, RequestTypeOK
  <2>1. CASE Job[q].op = "hire"
    <3>1. HireReads(q) \/ (pc[q] = "read" /\ HireProvisions(q))
      BY <1>4, <2>0, <2>1, StepByOperation DEF Call, Fail, HireProvisions, HireWrites, Acts, Commits
    <3> QED BY <2>1, <3>1 DEF HireReads, Active, AsRead, LinesInOrder
  <2>2. CASE Job[q].op = "update"
    <3>1. UpdateReads(q) \/ (pc[q] = "read" /\ UpdateDescribes(q))
      BY <1>4, <2>0, <2>2, StepByOperation DEF Call, Fail, UpdateDescribes, UpdateWrites, Acts, Commits
    <3>2. CASE UpdateReads(q)
      BY <2>2, <3>2 DEF UpdateReads, InLine, Apart, Closed, AsRead
    <3>3. CASE pc[q] = "read"
      BY <2>2, <3>3 DEF LinesInOrder, AsRead, Apart, Closed
    <3> QED BY <3>1, <3>2, <3>3
  <2>3. CASE Job[q].op = "retire"
    <3>1. RetireReads(q)
      BY <1>4, <2>0, <2>3, StepByOperation DEF Call, Fail, RetireWrites, Commits
    <3>2. Job[q].agent # Nobody
      BY <2>3, StaffAssumption DEF Made
    <3> QED BY <2>3, <3>1, <3>2 DEF RetireReads, AsRead, LinesInOrder, TypeOK, StaffTypeOK
  <2> QED BY <2>1, <2>2, <2>3 DEF AsRead
<1> QED BY <1>3, <1>4 DEF LinesInOrder, NobodyAboveHimself

\* hire_agent, when no other hiring is under way.
LEMMA HiringKeepsOrder ==
    ASSUME TypeOK, Meetings, Quiet, LinesInOrder, NEW q \in Requests, HireWrites(q), Advance(q)
    PROVE  LinesInOrder'
<1> DEFINE x == Job[q].agent
           m == Job[q].manager
<1>1. /\ x \in Agents \ hired /\ m \in hired
      /\ Job[q].op = "hire" /\ pc[q] = "acted" /\ q \in Requests
      /\ pc'[q] = "done"
  BY StaffAssumption DEF HireWrites, Commits, LinesInOrder, AsRead, Made, TypeOK, RequestTypeOK
<1>2. /\ hired' = hired \cup {x}
      /\ boss' = [boss EXCEPT ![x] = m]
      /\ saw' = saw
  BY DEF HireWrites
<1>3. boss \in Bosses /\ Tree(boss) /\ hired \subseteq Agents
  BY DEF TypeOK, StaffTypeOK, Bosses, LinesInOrder, NobodyAboveHimself, Tree
<1> HIDE DEF x, m
<1>4. \A y \in Agents : boss[y] # x
  BY <1>1, StaffAssumption DEF LinesInOrder
<1>5. /\ Tree(boss')
      /\ \A k, a \in Agents \ {x} : Apart(k, a, boss) => Apart(k, a, boss')
  BY <1>1, <1>2, <1>3, <1>4, NewcomerKeepsTree
<1>6. ASSUME NEW p \in Requests, pc'[p] \in {"read", "acted"}
      PROVE  AsRead(p)'
  <2>1. p # q /\ pc[p] \in {"read", "acted"}
    BY <1>1, <1>6, OthersStay DEF TypeOK
  <2>2. Job[p].op # "hire"
    BY <1>1, <2>1, AloneOfItsKind DEF TypeOK
  <2>3. AsRead(p)
    BY <2>1 DEF LinesInOrder
  <2>4. Job[p].op = "update" => Job[p].manager \in Agents \cup {You, Nobody}
    BY StaffAssumption DEF Made
  <2>5. Job[p].op = "update" /\ Job[p].manager \in hired' => Job[p].manager \in hired
    BY <1>1, <1>2, <2>3, StaffAssumption DEF AsRead
  <2> QED BY <1>1, <1>2, <1>3, <1>5, <2>2, <2>3, <2>5 DEF AsRead
<1> QED BY <1>1, <1>2, <1>3, <1>5, <1>6 DEF LinesInOrder, NobodyAboveHimself, Tree, Bosses

\* update_agent, when no other reorganization is under way.
LEMMA ReorganizingKeepsOrder ==
    ASSUME TypeOK, Meetings, Quiet, LinesInOrder, NEW q \in Requests, UpdateWrites(q), Advance(q)
    PROVE  LinesInOrder'
<1> DEFINE a == Job[q].agent
           m == Job[q].manager
<1>1. /\ a \in hired \ {Chief} /\ m \in hired \cup {You, Nobody}
      /\ m \in hired => Apart(m, a, boss)
      /\ Job[q].op = "update" /\ pc[q] = "acted" /\ pc'[q] = "done"
  BY DEF UpdateWrites, Commits, LinesInOrder, AsRead, TypeOK, RequestTypeOK
<1>2. /\ boss' = boss \/ (m # Nobody /\ boss' = [boss EXCEPT ![a] = m])
      /\ hired' = hired /\ saw' = saw
  BY DEF UpdateWrites
<1>3. boss \in Bosses /\ Tree(boss) /\ hired \subseteq Agents
  BY DEF TypeOK, StaffTypeOK, Bosses, LinesInOrder, NobodyAboveHimself, Tree
<1> HIDE DEF a, m
<1>4. Tree(boss')
  <2>1. CASE boss' = boss
    BY <1>3, <2>1
  <2>2. CASE m = You /\ boss' # boss
    BY <1>1, <1>2, <1>3, <2>2, StaffAssumption DEF Tree, Bosses
  <2>3. CASE m \in hired /\ boss' # boss
    BY <1>1, <1>2, <1>3, <2>3, MoveKeepsTree, StaffAssumption
  <2> QED BY <1>1, <1>2, <2>1, <2>2, <2>3
<1>5. ASSUME NEW p \in Requests, pc'[p] \in {"read", "acted"}
      PROVE  AsRead(p)'
  <2>1. p # q /\ pc[p] \in {"read", "acted"}
    BY <1>1, <1>5, OthersStay DEF TypeOK
  <2>2. Job[p].op # "update"
    BY <1>1, <2>1, AloneOfItsKind DEF TypeOK
  <2> QED BY <1>2, <2>1, <2>2 DEF LinesInOrder, AsRead
<1> QED BY <1>1, <1>2, <1>3, <1>4, <1>5 DEF LinesInOrder, NobodyAboveHimself, Tree, Bosses

\* retire_agent gives the reports to the root.
LEMMA RetiringKeepsOrder ==
    ASSUME TypeOK, LinesInOrder, NEW q \in Requests, RetireWrites(q), Advance(q)
    PROVE  LinesInOrder'
<1>1. /\ Chief \notin saw[q] /\ saw[q] \in SUBSET Agents
      /\ boss' = [a \in Agents |-> IF a \in saw[q] THEN Chief ELSE boss[a]]
      /\ hired' = hired /\ saw' = saw /\ pc'[q] = "done"
  BY DEF RetireWrites, Commits, LinesInOrder, AsRead, TypeOK, RequestTypeOK, StaffTypeOK
<1>2. /\ boss \in Bosses /\ Tree(boss) /\ hired \subseteq Agents
      /\ Chief \in hired /\ boss[Chief] = Nobody /\ Nobody \notin Agents
  BY StaffAssumption DEF TypeOK, StaffTypeOK, Bosses, LinesInOrder, NobodyAboveHimself, Tree
<1>3. /\ Tree(boss')
      /\ \A k \in Agents, a \in Agents \ {Chief} : Apart(k, a, boss) => Apart(k, a, boss')
  BY <1>1, <1>2, RootKeepsTree
<1>4. ASSUME NEW p \in Requests, pc'[p] \in {"read", "acted"}
      PROVE  AsRead(p)'
  <2>1. pc[p] \in {"read", "acted"}
    BY <1>1, <1>4, OthersStay DEF TypeOK
  <2> QED BY <1>1, <1>2, <1>3, <2>1 DEF LinesInOrder, AsRead
<1>5. \A a \in Agents : boss'[a] \in hired \cup {You, Nobody}
  BY <1>1, <1>2 DEF LinesInOrder
<1> QED BY <1>1, <1>2, <1>3, <1>4, <1>5 DEF LinesInOrder, NobodyAboveHimself, Tree

LEMMA StepKeepsLines ==
    ASSUME Lines, [Next]_vars
    PROVE  Lines'
<1>1. ASSUME NEW q \in Requests, RequestsStep(q)
      PROVE  Lines'
  <2>1. TypeOK /\ RequestTypeOK /\ Meetings /\ Advance(q)
    BY <1>1, StepByComponent DEF Lines, TypeOK
  <2>2. TypeOK'
    BY <1>1, <2>1, StepByComponent, AdvanceTypes, StaffTypes, RoomTypes, TaskTypes, HumanTypes,
       DemoTypes DEF TypeOK
  <2>3. Meetings' /\ (Quiet' => Quiet)
    BY <2>1, StepKeepsMeetings
  <2>4. ASSUME Quiet
        PROVE  LinesInOrder'
    <3>1. LinesInOrder
      BY <2>4 DEF Lines
    <3>2. HireWrites(q) \/ UpdateWrites(q) \/ RetireWrites(q) \/ UNCHANGED <<hired, boss>>
      BY <1>1, StepByComponent DEF StaffAction, HireReads, HireProvisions, UpdateReads,
         UpdateDescribes, RetireReads, RenameReads, InviteReads, CardReads, ResolveReads, StopReads, staffVars
    <3> QED BY <1>1, <2>1, <2>4, <3>1, <3>2, HiringKeepsOrder, ReorganizingKeepsOrder,
               RetiringKeepsOrder, ReadingKeepsOrder
  <2> QED BY <2>2, <2>3, <2>4 DEF Lines
<1>2. ASSUME UNCHANGED <<requestVars, staffVars>>
      PROVE  Meetings' /\ (Quiet' => LinesInOrder')
  BY <1>2 DEF Lines, Meetings, Quiet, Overlap, LinesInOrder, NobodyAboveHimself, AsRead, Apart,
     Closed, UnderWay, requestVars, staffVars
<1>3. TypeOK'
  BY StepTypes DEF Lines
<1>4. InPlay \subseteq Requests
  BY RequestAssumption DEF InPlay, UnderWay, Startable
<1> QED BY <1>1, <1>2, <1>3, <1>4 DEF Next, RequestsStep, AnswerStep, Lines, vars

LEMMA InitInOrder == Init => Lines
<1> SUFFICES ASSUME Init PROVE Lines
  OBVIOUS
<1>1. /\ hired = DOMAIN FirstBoss
      /\ boss = [a \in Agents |-> IF a \in DOMAIN FirstBoss THEN FirstBoss[a] ELSE Nobody]
      /\ \A q \in Requests : pc[q] = "new"
  BY DEF Init, RequestInit, StaffInit
<1>2. NobodyAboveHimself
  <2>1. SUFFICES ASSUME NEW S \in SUBSET Agents, S # {}, \A a \in S : boss[a] \in S
                 PROVE  FALSE
    BY DEF NobodyAboveHimself
  <2>2. S \in SUBSET DOMAIN FirstBoss
    BY <1>1, <2>1, StaffAssumption
  <2>3. PICK a \in S : FirstBoss[a] \notin S
    BY <2>1, <2>2, StaffAssumption
  <2> QED BY <1>1, <2>1, <2>2, <2>3
<1>3. \A a \in Agents : boss[a] \in hired \cup {You, Nobody}
  BY <1>1, StaffAssumption
<1>4. Chief \in hired /\ boss[Chief] = Nobody
  BY <1>1, StaffAssumption
<1>5. Meetings
  BY <1>1 DEF Meetings, UnderWay
<1> QED BY <1>1, <1>2, <1>3, <1>4, <1>5, InitTypes DEF Lines, LinesInOrder

\* The reporting lines have no cycle as long as no two reorganizations, and no two
\* hirings, are under way together (hire_agent, update_agent, retire_agent).
THEOREM ReportingLines == Spec => []ReportingLinesAreATree
<1>1. Init => Lines
  BY InitInOrder
<1>2. Lines /\ [Next]_vars => Lines'
  BY StepKeepsLines
<1>3. Lines => ReportingLinesAreATree
  BY DEF Lines, Quiet, LinesInOrder, ReportingLinesAreATree
<1> QED BY <1>1, <1>2, <1>3, PTL DEF Spec

-----------------------------------------------------------------------------
\* How requests exclude each other.

\* The steps of a request about rooms, and of a question to the human.
LEMMA RoomStepByOperation ==
    ASSUME NEW q \in Requests, RequestsStep(q)
    PROVE  /\ Job[q].op = "dm" => Call(q) \/ Fail(q) \/ DmReads(q) \/ DmWrites(q) \/ FindsIt(q)
           /\ Job[q].op = "group" => Call(q) \/ Fail(q) \/ MakeGroup(q)
           /\ Job[q].op = "channel" => Call(q) \/ Fail(q) \/ ChannelReads(q) \/ ChannelWrites(q)
           /\ Job[q].op = "rename" => Call(q) \/ Fail(q) \/ RenameReads(q) \/ RenameWrites(q)
           /\ Job[q].op = "join" => Call(q) \/ Fail(q) \/ JoinReads(q) \/ JoinWrites(q)
           /\ Job[q].op = "invite" => \/ Call(q) \/ Fail(q) \/ InviteReads(q) \/ InviteWrites(q)
                                      \/ FindsIt(q)
           /\ Job[q].op = "archive" => Call(q) \/ Fail(q) \/ ArchiveRoom(q)
           /\ Job[q].op = "ask" => Call(q) \/ Fail(q) \/ AskHuman(q)
<1>1. CASE RequestStep(q)
  BY <1>1 DEF RequestStep
<1>2. CASE OrganizationStep(q)
  BY <1>2 DEF OrganizationStep, Hiring, HireReads, HireProvisions, HireWrites, Reorganizing,
       UpdateReads, UpdateDescribes, UpdateWrites, Retiring, RetireReads, RetireWrites
<1>3. CASE RoomStep(q)
  BY <1>3 DEF RoomStep, Messaging, DmReads, DmWrites, MakeGroup, FindsIt, Channels,
       ChannelReads, ChannelWrites, RenameReads, RenameWrites, JoinReads, JoinWrites,
       ArchiveRoom, Renaming, Inviting, InviteReads, InviteWrites, Made
<1>4. CASE TaskStep(q)
  BY <1>4 DEF TaskStep, CardReads, CardCreated, CardWrites, MoveReads, MoveActs, MoveWrites
<1>5. CASE HumanStep(q)
  BY <1>5 DEF HumanStep, AskHuman, ResolveReads, StoresSecret, ResolveWrites
<1>6. CASE DemoStep(q)
  BY <1>6 DEF DemoStep, StartReads, StartInserts, StartRecords, StartCommits, StopReads,
       StopEnds, StopWrites, VerifyReads, VerifyWrites
<1> QED BY <1>1, <1>2, <1>3, <1>4, <1>5, <1>6 DEF RequestsStep

\* A request that is over takes no step.
LEMMA OverIsOver ==
    ASSUME NEW q \in Requests, Advance(q)
    PROVE  pc[q] \notin {"done", "failed"}
  BY DEF Advance, Call, Reads, Inserts, Once, Fail, Acts, Commits, UnderWay

\* What has met has met.
LEMMA HistoryGrows ==
    ASSUME RequestTypeOK, NEW q \in Requests, Advance(q), NEW S \in SUBSET Requests
    PROVE  /\ Overlap(S) => Overlap(S)'
           /\ Unserialized(S) => Unserialized(S)'
<1>1. overlapped \subseteq overlapped'
  BY DEF Advance, Call, Reads, Inserts, Once, Fail, Acts, Commits, Meeting
<1> QED BY <1>1 DEF Overlap, Unserialized

\* Past its first query, and not over.
Holding == {"read", "inserted", "acted"}

\* A handoff call holds the lock from its first query on, a question to the human has
\* no query before its first write, the row of a room comes with the end of its
\* request, and a room that was read stays what it is.
Discipline ==
    /\ TypeOK
    /\ Meetings
    /\ \A q \in Requests :
         /\ Handoff(q) /\ pc[q] \in Holding => lock = q
         /\ lock = q /\ pc[q] = "read" => Handoff(q)
         /\ Job[q].op = "ask" => pc[q] \notin Holding
         /\ kind[q] # "none" => pc[q] = "done"
         /\ Job[q].op \in {"rename", "join"} /\ pc[q] = "read" => kind[Job[q].room] = "channel"
         /\ Job[q].op = "invite" /\ pc[q] = "read" => kind[Job[q].room] # "none"

\* Of the requests of S only one is past its first query, unless two have met of
\* which one was not serialized.
LEMMA AloneInside ==
    ASSUME Discipline, NEW S \in SUBSET Requests, ~Unserialized(S),
           NEW p \in S, NEW q \in S, pc[p] \in Holding, pc[q] \in Holding
    PROVE  p = q
<1> SUFFICES ASSUME p # q PROVE FALSE
  OBVIOUS
<1>1. p \in UnderWay /\ q \in UnderWay
  BY DEF Holding, UnderWay
<1>2. {p, q} \in overlapped /\ {p, q} \subseteq S
  BY <1>1 DEF Discipline, Meetings
<1>3. Serialized(p) /\ Serialized(q)
  BY <1>2 DEF Unserialized
<1> QED BY <1>3 DEF Serialized, Discipline

\* A request of one transaction without a wait finds no other inside.
LEMMA OnceFindsNobody ==
    ASSUME Discipline, NEW S \in SUBSET Requests, NEW p \in S, NEW q \in S,
           pc[p] \in Holding, Once(q), ~Unserialized(S)'
    PROVE  FALSE
<1>1. p \in UnderWay /\ p # q
  BY DEF Holding, UnderWay, Once
<1>2. {p, q} \in overlapped'
  <2>1. CASE ~Handoff(q)
    BY <1>1, <2>1 DEF Once, Meeting
  <2>2. CASE Handoff(q)
    BY <1>1, <2>2 DEF Once, Discipline, Meetings, UnderWay
  <2> QED BY <2>1, <2>2
<1>3. Serialized(p)
  BY <1>2 DEF Unserialized
<1> QED BY <1>3, RequestAssumption DEF Serialized, Discipline, Once

\* Requests of S that meet at all are counted by Overlap.
LEMMA AloneUnderWay ==
    ASSUME Meetings, NEW S \in SUBSET Requests, ~Overlap(S),
           NEW p \in S, NEW q \in S, p \in UnderWay, q \in UnderWay
    PROVE  p = q
  BY DEF Meetings, Overlap

\* A room that has a row keeps its type, and only the room of q can open.
LEMMA RoomsStay ==
    ASSUME Discipline, NEW q \in Requests, RequestsStep(q)
    PROVE  /\ \A r \in Rooms : kind[r] # "none" => kind'[r] = kind[r]
           /\ \A r \in Rooms : r # q => kind'[r] = kind[r]
           /\ open' \subseteq open \cup {q}
           /\ kind'[q] # kind[q] => kind[q] = "none" /\ pc'[q] = "done"
<1>1. Advance(q) /\ RoomAction(q)
  BY StepByComponent
<1>2. kind[q] = "none"
  BY <1>1, OverIsOver DEF Discipline
<1>3. q \in Rooms /\ kind \in [Rooms -> {"none", "dm", "group", "channel"}]
  BY DEF Rooms, Discipline, TypeOK, RoomTypeOK
<1>4. pc \in [Requests -> Phases]
  BY DEF Discipline, TypeOK, RequestTypeOK
<1> USE <1>2, <1>3, <1>4
<1>5. CASE DmWrites(q) \/ MakeGroup(q) \/ ChannelWrites(q)
  BY <1>5 DEF DmWrites, MakeGroup, ChannelWrites, InsertRoom, Commits, Once
<1>6. CASE RenameWrites(q) \/ JoinWrites(q) \/ InviteWrites(q) \/ ArchiveRoom(q)
           \/ JoinGeneral(Job[q].agent) \/ UNCHANGED roomVars
  BY <1>6 DEF RenameWrites, JoinWrites, InviteWrites, ArchiveRoom, JoinGeneral, roomVars
<1>7. CASE AskHuman(q) /\ EnsureDm(q, {Job[q].agent, You})
  BY <1>7 DEF AskHuman, EnsureDm, InsertRoom, Once, roomVars
<1> QED BY <1>1, <1>5, <1>6, <1>7 DEF RoomAction

LEMMA StepKeepsDiscipline ==
    ASSUME Discipline, NEW q \in Requests, RequestsStep(q)
    PROVE  Discipline'
<1>1. Advance(q)
  BY StepByComponent
<1>2. /\ pc \in [Requests -> Phases] /\ pc' \in [Requests -> Phases]
      /\ lock \in UnderWay \cup {Free} /\ Free \notin Requests
  BY <1>1, AdvanceTypes, RequestAssumption DEF Discipline, TypeOK, RequestTypeOK
<1>3. TypeOK' /\ Meetings'
  <2>1. TypeOK'
    BY <1>1, StepByComponent, AdvanceTypes, StaffTypes, RoomTypes, TaskTypes, HumanTypes,
       DemoTypes DEF Discipline, TypeOK
  <2> QED BY <1>1, <2>1, StepKeepsMeetings DEF Discipline, TypeOK
<1>4. \A p \in Requests : p # q => pc'[p] = pc[p]
  BY <1>1, OthersStay DEF Discipline, TypeOK
<1>5. ASSUME NEW p \in Requests, Handoff(p), pc'[p] \in Holding
      PROVE  lock' = p
  <2>1. CASE p # q
    <3>1. lock = p
      BY <1>4, <1>5, <2>1 DEF Discipline
    <3> QED BY <1>1, <1>2, <2>1, <3>1 DEF Advance, Call, Reads, Inserts, Once, Fail, Acts, Commits
  <2>2. CASE p = q
    <3>1. CASE Reads(q) \/ Inserts(q)
      BY <1>5, <2>2, <3>1 DEF Reads, Inserts
    <3>2. ASSUME NEW from \in Holding, Acts(q, from)
          PROVE  lock' = p
      BY <1>5, <2>2, <3>2 DEF Acts, Discipline
    <3>3. CASE Call(q) \/ Once(q) \/ Fail(q)
      BY <1>2, <1>5, <2>2, <3>3 DEF Call, Once, Fail, Holding
    <3>4. ASSUME NEW from \in Holding, Commits(q, from)
          PROVE  FALSE
      BY <1>2, <1>5, <2>2, <3>4 DEF Commits, Holding
    <3> QED BY <1>1, <3>1, <3>2, <3>3, <3>4 DEF Advance, Holding
  <2> QED BY <2>1, <2>2
<1>6. ASSUME NEW p \in Requests, lock' = p, pc'[p] = "read"
      PROVE  Handoff(p)
  <2>1. CASE p # q
    BY <1>1, <1>2, <1>4, <1>6, <2>1 DEF Discipline, Advance, Call, Reads, Inserts, Once, Fail, Acts, Commits
  <2>2. CASE p = q /\ ~Reads(q)
    BY <1>1, <1>2, <1>6, <2>2 DEF Advance, Call, Inserts, Once, Fail, Acts, Commits
  <2>3. CASE p = q /\ Reads(q)
    BY <1>2, <1>6, <2>3 DEF Reads, UnderWay
  <2> QED BY <2>1, <2>2, <2>3
<1>7. ASSUME NEW p \in Requests, Job[p].op = "ask"
      PROVE  pc'[p] \notin Holding
  <2>1. CASE p # q
    BY <1>4, <1>7, <2>1 DEF Discipline
  <2>2. CASE p = q
    BY <1>2, <1>7, <2>2, RoomStepByOperation DEF Call, Fail, AskHuman, Once, Holding
  <2> QED BY <2>1, <2>2
<1>8. ASSUME NEW p \in Requests, kind'[p] # "none"
      PROVE  pc'[p] = "done"
  <2>1. CASE kind[p] # "none"
    BY <1>1, <1>4, <2>1, OverIsOver DEF Discipline
  <2>2. CASE kind[p] = "none"
    <3>1. p = q
      BY <1>8, <2>2, RoomsStay DEF Rooms
    <3> QED BY <1>8, <2>2, <3>1, RoomsStay
  <2> QED BY <2>1, <2>2
<1>9. ASSUME NEW p \in Requests, Job[p].op \in {"rename", "join"}, pc'[p] = "read"
      PROVE  kind'[Job[p].room] = "channel"
  <2>1. Job[p].room \in Rooms
    BY <1>9, RoomAssumption DEF Made
  <2>2. kind[Job[p].room] = "channel"
    <3>1. CASE p # q
      BY <1>4, <1>9, <3>1 DEF Discipline
    <3>2. CASE p = q
      BY <1>2, <1>9, <3>2, RoomStepByOperation DEF Call, Fail, RenameReads, RenameWrites, JoinReads,
         JoinWrites, Commits, Named
    <3> QED BY <3>1, <3>2
  <2> QED BY <2>1, <2>2, RoomsStay
<1>10. ASSUME NEW p \in Requests, Job[p].op = "invite", pc'[p] = "read"
       PROVE  kind'[Job[p].room] # "none"
  <2>1. Job[p].room \in Rooms
    BY <1>10, RoomAssumption DEF Made
  <2>2. kind[Job[p].room] # "none"
    <3>1. CASE p # q
      BY <1>4, <1>10, <3>1 DEF Discipline
    <3>2. CASE p = q
      BY <1>2, <1>10, <3>2, RoomStepByOperation DEF Call, Fail, InviteReads, InviteWrites, FindsIt,
         Commits, Once
    <3> QED BY <3>1, <3>2
  <2> QED BY <2>1, <2>2, RoomsStay
<1> QED BY <1>3, <1>5, <1>6, <1>7, <1>8, <1>9, <1>10 DEF Discipline

LEMMA InitDiscipline == Init => Discipline
<1> SUFFICES ASSUME Init PROVE Discipline
  OBVIOUS
<1>1. \A q \in Requests : pc[q] = "new" /\ kind[q] = "none"
  BY RoomAssumption DEF Init, RequestInit, RoomInit, Rooms
<1>2. TypeOK /\ Meetings
  BY InitInOrder DEF Lines
<1> QED BY <1>1, <1>2 DEF Discipline, Holding

\* A hiring and a new card by a handoff call keep the lock over their commands, as the
\* start of a recording does, and nothing else does.
LEMMA LockIsFree == Discipline => LockIsHeldOverFew
  BY DEF Discipline, LockIsHeldOverFew, AtCommand, Handoff, HandoffOps

-----------------------------------------------------------------------------
\* The size of the team and the handoffs of the run.

\* What a hiring has read of the size of the team is still so when it writes.
TeamInOrder ==
    /\ IsFiniteSet(hired)
    /\ \/ Unserialized(Made("hire"))
       \/ /\ Cardinality(Active) <= MaxAgents
          /\ \A q \in Made("hire") : pc[q] \in Holding => Cardinality(Active) < MaxAgents

LEMMA StepKeepsTeam ==
    ASSUME Discipline, TeamInOrder, NEW q \in Requests, RequestsStep(q)
    PROVE  TeamInOrder'
<1> DEFINE H == Made("hire")
<1>1. Advance(q) /\ StaffAction(q) /\ RequestTypeOK /\ pc \in [Requests -> Phases]
  BY StepByComponent DEF Discipline, TypeOK, RequestTypeOK
<1>2. H \in SUBSET Requests
  BY DEF Made
<1>3. retired \subseteq retired'
  BY <1>1 DEF StaffAction, HireReads, HireProvisions, HireWrites, UpdateReads, UpdateDescribes,
     UpdateWrites, RetireReads, RetireWrites, RenameReads, InviteReads, CardReads, ResolveReads,
     StopReads, staffVars
<1>4. hired' = hired \/ (HireWrites(q) /\ hired' = hired \cup {Job[q].agent})
  BY <1>1 DEF StaffAction, HireReads, HireProvisions, HireWrites, UpdateReads, UpdateDescribes,
     UpdateWrites, RetireReads, RetireWrites, RenameReads, InviteReads, CardReads, ResolveReads,
     StopReads, staffVars
<1>5. IsFiniteSet(hired')
  BY <1>4, FS_AddElement DEF TeamInOrder
<1>6. IsFiniteSet(Active) /\ IsFiniteSet(Active') /\ Cardinality(Active) \in Nat /\ Cardinality(Active') \in Nat
  BY <1>5, FS_Subset, FS_CardinalityType DEF TeamInOrder, Active
<1>7. SUFFICES ASSUME ~Unserialized(H)'
               PROVE  /\ Cardinality(Active') <= MaxAgents
                      /\ \A p \in H : pc'[p] \in Holding => Cardinality(Active') < MaxAgents
  BY <1>5 DEF TeamInOrder
<1>8. ~Unserialized(H)
  BY <1>1, <1>2, <1>7, HistoryGrows
<1>9. MaxAgents \in Nat
  BY StaffAssumption
<1>10. CASE hired' = hired
  <2>1. Cardinality(Active') <= Cardinality(Active)
    BY <1>3, <1>6, <1>10, FS_Subset DEF Active
  <2>2. ASSUME NEW p \in H, pc'[p] \in Holding
        PROVE  Cardinality(Active) < MaxAgents
    <3>1. CASE pc[p] \in Holding
      BY <1>8, <2>2, <3>1 DEF TeamInOrder
    <3>2. CASE pc[p] \notin Holding
      <4>1. p = q
        BY <1>1, <1>2, <2>2, <3>2, OthersStay
      <4>2. HireReads(q)
        BY <1>1, <2>2, <3>2, <4>1, StepByOperation DEF Made, Call, Fail, HireProvisions, HireWrites,
           Acts, Commits, Holding
      <4> QED BY <4>2 DEF HireReads
    <3> QED BY <3>1, <3>2
  <2> QED BY <1>6, <1>8, <1>9, <2>1, <2>2 DEF TeamInOrder
<1>11. CASE HireWrites(q) /\ hired' = hired \cup {Job[q].agent}
  <2>1. q \in H /\ pc[q] = "acted" /\ pc'[q] = "done"
    BY <1>1, <1>11 DEF HireWrites, Made, Commits
  <2>2. Cardinality(Active) < MaxAgents
    BY <1>8, <2>1 DEF TeamInOrder, Holding
  <2>3. Active' \subseteq Active \cup {Job[q].agent}
    BY <1>3, <1>11 DEF Active
  <2>4. /\ IsFiniteSet(Active \cup {Job[q].agent})
        /\ Cardinality(Active \cup {Job[q].agent}) <= Cardinality(Active) + 1
    BY <1>6, FS_AddElement
  <2>5. Cardinality(Active \cup {Job[q].agent}) \in Nat
    BY <2>4, FS_CardinalityType
  <2>6. Cardinality(Active') <= Cardinality(Active \cup {Job[q].agent})
    BY <2>3, <2>4, FS_Subset
  <2>7. ASSUME NEW p \in H, pc'[p] \in Holding
        PROVE  FALSE
    <3>1. p # q /\ pc[p] \in Holding
      BY <1>1, <1>2, <2>1, <2>7, OthersStay DEF Holding
    <3> QED BY <1>2, <1>8, <2>1, <3>1, AloneInside DEF Holding
  <2> QED BY <1>6, <1>9, <2>2, <2>4, <2>5, <2>6, <2>7
<1> QED BY <1>4, <1>10, <1>11

DoneHandoffs == {q \in Handoffs : pc[q] = "done"}

\* A call under way has read the count that the row still has.
BudgetInOrder ==
    /\ IsFiniteSet(DoneHandoffs)
    /\ \/ Overlap(Handoffs)
       \/ /\ used = Cardinality(DoneHandoffs)
          /\ used <= MaxHandoffs
          /\ \A q \in Handoffs \cap UnderWay : counted[q] = used /\ used < MaxHandoffs

LEMMA StepKeepsBudget ==
    ASSUME Discipline, BudgetInOrder, NEW q \in Requests, RequestsStep(q)
    PROVE  BudgetInOrder'
<1>1. Advance(q) /\ RequestTypeOK /\ pc \in [Requests -> Phases] /\ used \in Nat
  BY StepByComponent DEF Discipline, TypeOK, RequestTypeOK
<1>2. Handoffs \in SUBSET Requests /\ MaxHandoffs \in Nat
  BY RequestAssumption DEF Handoffs
<1>3. \A p \in Requests : p # q => pc'[p] = pc[p]
  BY <1>1, OthersStay
<1>4. counted \in [Requests -> Nat]
  BY <1>1 DEF RequestTypeOK
<1>5. Overlap(Handoffs) => Overlap(Handoffs)'
  BY <1>1, <1>2, HistoryGrows
<1>6. pc[q] # "done"
  BY <1>1, OverIsOver
<1>7. CASE q \in Handoffs /\ pc'[q] = "done"
  <2>1. q \in UnderWay /\ used' = counted[q] + 1 /\ counted' = counted
    BY <1>1, <1>7 DEF Advance, Call, Reads, Inserts, Once, Fail, Acts, Commits, UnderWay, Handoffs
  <2>2. DoneHandoffs' = DoneHandoffs \cup {q}
    BY <1>2, <1>3, <1>7 DEF DoneHandoffs
  <2>3. q \notin DoneHandoffs
    BY <1>6 DEF DoneHandoffs
  <2>4. /\ IsFiniteSet(DoneHandoffs')
        /\ Cardinality(DoneHandoffs') = Cardinality(DoneHandoffs) + 1
    BY <2>2, <2>3, FS_AddElement DEF BudgetInOrder
  <2>5. ASSUME ~Overlap(Handoffs)'
        PROVE  /\ used' = Cardinality(DoneHandoffs')
               /\ used' <= MaxHandoffs
               /\ \A p \in Handoffs \cap UnderWay' : FALSE
    <3>1. ~Overlap(Handoffs)
      BY <1>5, <2>5
    <3>2. counted[q] = used /\ used < MaxHandoffs /\ used = Cardinality(DoneHandoffs)
      BY <1>7, <2>1, <3>1 DEF BudgetInOrder
    <3>3. ASSUME NEW p \in Handoffs \cap UnderWay'
          PROVE  FALSE
      <4>1. p # q /\ p \in UnderWay
        BY <1>2, <1>3, <1>7, <3>3 DEF UnderWay
      <4> QED BY <1>2, <1>7, <2>1, <3>1, <4>1, AloneUnderWay DEF Discipline
    <3> QED BY <1>1, <1>2, <2>1, <2>4, <3>2, <3>3
  <2> QED BY <2>4, <2>5 DEF BudgetInOrder
<1>8. CASE ~(q \in Handoffs /\ pc'[q] = "done")
  <2>1. DoneHandoffs' = DoneHandoffs
    BY <1>2, <1>3, <1>6, <1>8 DEF DoneHandoffs
  <2>2. used' = used
    BY <1>1, <1>8 DEF Advance, Call, Reads, Inserts, Once, Fail, Acts, Commits, Handoffs
  <2>3. ASSUME ~Overlap(Handoffs)', NEW p \in Handoffs \cap UnderWay'
        PROVE  counted'[p] = used' /\ used' < MaxHandoffs
    <3>1. ~Overlap(Handoffs)
      BY <1>5, <2>3
    <3>2. CASE p \in UnderWay
      <4>1. p # q \/ ~Call(q)
        BY <3>2 DEF Call, UnderWay
      <4>2. counted'[p] = counted[p]
        BY <1>1, <1>2, <1>4, <4>1 DEF Advance, Call, Reads, Inserts, Once, Fail, Acts, Commits
      <4> QED BY <2>2, <2>3, <3>1, <3>2, <4>2 DEF BudgetInOrder
    <3>3. CASE p \notin UnderWay
      <4>1. p = q
        BY <1>2, <1>3, <2>3, <3>3 DEF UnderWay
      <4>2. Call(q)
        BY <1>1, <2>3, <3>3, <4>1 DEF Advance, Reads, Inserts, Once, Fail, Acts, Commits, UnderWay, Handoffs
      <4> QED BY <1>4, <2>2, <4>1, <4>2 DEF Call
    <3> QED BY <3>2, <3>3
  <2> QED BY <1>5, <2>1, <2>2, <2>3 DEF BudgetInOrder
<1> QED BY <1>7, <1>8

LEMMA InitTeamAndBudget == Init => TeamInOrder /\ BudgetInOrder
<1> SUFFICES ASSUME Init PROVE TeamInOrder /\ BudgetInOrder
  OBVIOUS
<1>1. /\ hired = DOMAIN FirstBoss /\ retired = {} /\ used = 0
      /\ \A q \in Requests : pc[q] = "new"
  BY DEF Init, RequestInit, StaffInit
<1>2. TeamInOrder
  BY <1>1, StaffAssumption DEF TeamInOrder, Active, Holding, Made
<1>3. DoneHandoffs = {}
  BY <1>1 DEF DoneHandoffs, Handoffs
<1>4. Handoffs \cap UnderWay = {}
  BY <1>1 DEF UnderWay
<1> QED BY <1>1, <1>2, <1>3, <1>4, FS_EmptySet, RequestAssumption DEF BudgetInOrder

-----------------------------------------------------------------------------
\* The rooms.

\* How the members of a room that is there change: an invitation brings one more, and
\* otherwise only those of channels do.
LEMMA MembersChange ==
    ASSUME Discipline, NEW q \in Requests, RequestsStep(q), NEW r \in Rooms, kind[r] # "none"
    PROVE  \/ members'[r] = members[r]
           \/ kind[r] = "channel"
           \/ /\ InviteWrites(q) /\ r = Job[q].room
              /\ Job[q].person \notin members[r]
              /\ members'[r] = members[r] \cup {Job[q].person}
<1>1. RoomAction(q) /\ RoomTypeOK /\ pc[q] # "done"
  BY StepByComponent, OverIsOver DEF Discipline, TypeOK
<1>2. r # q
  BY <1>1 DEF Discipline
<1>3. CASE DmWrites(q) \/ MakeGroup(q) \/ ChannelWrites(q)
  BY <1>1, <1>2, <1>3 DEF DmWrites, MakeGroup, ChannelWrites, InsertRoom, RoomTypeOK
<1>4. CASE RenameWrites(q)
  BY <1>1, <1>4 DEF RenameWrites, Commits, Discipline, RoomTypeOK
<1>5. CASE JoinWrites(q)
  BY <1>1, <1>5 DEF JoinWrites, Commits, Discipline, RoomTypeOK
<1>6. CASE InviteWrites(q)
  BY <1>1, <1>6 DEF InviteWrites, RoomTypeOK
<1>7. CASE JoinGeneral(Job[q].agent)
  BY <1>1, <1>7 DEF JoinGeneral, Named, RoomTypeOK
<1>8. CASE ArchiveRoom(q) \/ UNCHANGED roomVars
  BY <1>8 DEF ArchiveRoom, roomVars
<1>9. CASE AskHuman(q) /\ EnsureDm(q, {Job[q].agent, You})
  BY <1>1, <1>2, <1>9 DEF EnsureDm, InsertRoom, roomVars, RoomTypeOK
<1> QED BY <1>1, <1>3, <1>4, <1>5, <1>6, <1>7, <1>8, <1>9 DEF RoomAction

\* A new row, and which request makes it.
LEMMA NewRooms ==
    ASSUME Discipline, NEW q \in Requests, RequestsStep(q), kind'[q] # kind[q]
    PROVE  \/ DmWrites(q) /\ kind'[q] = "dm" /\ members'[q] = Job[q].members /\ title'[q] = Nobody
           \/ /\ AskHuman(q) /\ Dms({Job[q].agent, You}) = {}
              /\ kind'[q] = "dm" /\ members'[q] = {Job[q].agent, You} /\ title'[q] = Nobody
           \/ MakeGroup(q) /\ kind'[q] = "group" /\ members'[q] = Job[q].members /\ title'[q] = Nobody
           \/ ChannelWrites(q) /\ kind'[q] = "channel" /\ title'[q] = Job[q].title
<1>1. RoomAction(q) /\ RoomTypeOK /\ q \in Rooms
  BY StepByComponent DEF Discipline, TypeOK, Rooms
<1>2. CASE DmWrites(q) \/ MakeGroup(q) \/ ChannelWrites(q)
  BY <1>1, <1>2 DEF DmWrites, MakeGroup, ChannelWrites, InsertRoom, RoomTypeOK
<1>3. CASE RenameWrites(q) \/ JoinWrites(q) \/ InviteWrites(q) \/ ArchiveRoom(q)
           \/ JoinGeneral(Job[q].agent) \/ UNCHANGED roomVars
  BY <1>3 DEF RenameWrites, JoinWrites, InviteWrites, ArchiveRoom, JoinGeneral, roomVars
<1>4. CASE AskHuman(q) /\ EnsureDm(q, {Job[q].agent, You})
  BY <1>1, <1>4 DEF EnsureDm, InsertRoom, roomVars, RoomTypeOK
<1> QED BY <1>1, <1>2, <1>3, <1>4 DEF RoomAction

\* A DM that has been found missing is still missing when it is made.
DmInOrder(pair) ==
    \/ Unserialized(MakersOf(pair))
    \/ /\ \A r, s \in Dms(pair) : r = s
       /\ \A q \in Made("dm") : Job[q].members = pair /\ pc[q] = "read" => Dms(pair) = {}

DmsInOrder ==
    /\ \A r \in Rooms : kind[r] = "dm" => \E a, b \in members[r] : a # b
    /\ \A pair : IsPair(pair) => DmInOrder(pair)

\* The open DM of a pair was the open DM of that pair, or is the new room.
LEMMA DmOfPairWas ==
    ASSUME Discipline, DmsInOrder, NEW q \in Requests, RequestsStep(q),
           NEW r \in open', kind'[r] = "dm", IsPair(members'[r])
    PROVE  \/ r \in open /\ kind[r] = "dm" /\ members'[r] = members[r]
           \/ r = q /\ kind'[q] # kind[q]
<1>1. r \in Rooms /\ q \in Rooms
  BY StepKeepsDiscipline DEF Discipline, TypeOK, RoomTypeOK, Rooms
<1>2. CASE r = q /\ kind'[q] # kind[q]
  BY <1>2
<1>3. CASE ~(r = q /\ kind'[q] # kind[q])
  <2>1. kind[r] = "dm"
    BY <1>1, <1>3, RoomsStay
  <2>2. r # q
    BY <2>1, StepByComponent, OverIsOver DEF Discipline
  <2>3. r \in open
    BY <2>2, RoomsStay
  <2>4. PICK a, b \in members[r] : a # b
    BY <1>1, <2>1 DEF DmsInOrder
  <2>5. ASSUME NEW x, x \notin members[r], members'[r] = members[r] \cup {x}
        PROVE  FALSE
    BY <2>4, <2>5 DEF IsPair
  <2> QED BY <1>1, <2>1, <2>3, <2>5, MembersChange
<1> QED BY <1>2, <1>3

LEMMA StepKeepsDms ==
    ASSUME Discipline, DmsInOrder, NEW q \in Requests, RequestsStep(q)
    PROVE  DmsInOrder'
<1>1. Advance(q) /\ RequestTypeOK /\ pc \in [Requests -> Phases]
  BY StepByComponent DEF Discipline, TypeOK, RequestTypeOK
<1>2. Discipline'
  BY StepKeepsDiscipline
<1>3. You \notin Agents /\ \A p \in Made("dm") : IsPair(Job[p].members)
  BY StaffAssumption, FirstRoomsAssumption
<1>4. ASSUME NEW r \in Rooms, kind'[r] = "dm"
      PROVE  \E a, b \in members'[r] : a # b
  <2>1. CASE kind[r] = "dm"
    <3>1. PICK a, b \in members[r] : a # b
      BY <2>1 DEF DmsInOrder
    <3> QED BY <2>1, <3>1, MembersChange
  <2>2. CASE kind[r] # "dm"
    <3>1. r = q /\ kind'[q] # kind[q]
      BY <1>4, <2>2, RoomsStay
    <3>2. CASE DmWrites(q) /\ members'[q] = Job[q].members
      BY <1>3, <3>1, <3>2 DEF DmWrites, Made, IsPair
    <3>3. CASE AskHuman(q) /\ members'[q] = {Job[q].agent, You}
      <4>1. Job[q].agent \in Agents
        BY <3>3, HumanRequestAssumption DEF AskHuman, Asks, Made
      <4> QED BY <1>3, <3>1, <3>3, <4>1
    <3> QED BY <1>4, <3>1, <3>2, <3>3, NewRooms
  <2> QED BY <2>1, <2>2
<1>5. ASSUME NEW pair, IsPair(pair)
      PROVE  DmInOrder(pair)'
  <2> DEFINE S == MakersOf(pair)
  <2>1. S \in SUBSET Requests
    BY DEF MakersOf, Made
  <2>2. SUFFICES ASSUME ~Unserialized(S)'
                 PROVE  /\ \A r, s \in Dms(pair)' : r = s
                        /\ \A p \in Made("dm") :
                             Job[p].members = pair /\ pc'[p] = "read" => Dms(pair)' = {}
    BY DEF DmInOrder, Made, MakersOf
  <2>3. ~Unserialized(S)
    BY <1>1, <2>1, <2>2, HistoryGrows
  <2>4. /\ \A r, s \in Dms(pair) : r = s
        /\ \A p \in Made("dm") : Job[p].members = pair /\ pc[p] = "read" => Dms(pair) = {}
    BY <1>5, <2>3 DEF DmsInOrder, DmInOrder
\* A DM of the pair was one, or is new; then there was none, and its request is of S.
  <2>5. ASSUME NEW r \in Dms(pair)', r \notin Dms(pair)
        PROVE  r = q /\ kind'[q] # kind[q]
    BY <1>5, <2>5, DmOfPairWas DEF Dms
  <2>6. ASSUME kind'[q] # kind[q], kind'[q] = "dm", members'[q] = pair
        PROVE  Dms(pair) = {} /\ q \in S
    BY <2>4, <2>6, NewRooms DEF DmWrites, AskHuman, Commits, MakersOf, Made
  <2>7. ASSUME NEW r \in Dms(pair)', NEW s \in Dms(pair)'
        PROVE  r = s
    BY <2>4, <2>5, <2>6 DEF Dms
  <2>8. ASSUME NEW p \in Made("dm"), Job[p].members = pair, pc'[p] = "read"
        PROVE  Dms(pair)' = {}
    <3>1. Dms(pair) = {}
      <4>1. CASE pc[p] = "read"
        BY <2>4, <2>8, <4>1
      <4>2. CASE pc[p] # "read"
        <5>1. p = q
          BY <1>1, <2>8, <4>2, OthersStay DEF Made
        <5> QED BY <1>1, <2>8, <4>2, <5>1, RoomStepByOperation DEF Made, Call, Fail, DmReads,
                DmWrites, FindsIt, Commits, Once
      <4> QED BY <4>1, <4>2
    <3>2. SUFFICES ASSUME NEW r \in Dms(pair)' PROVE FALSE
      OBVIOUS
    <3>3. kind'[q] # kind[q] /\ kind'[q] = "dm" /\ members'[q] = pair
      BY <2>5, <3>1, <3>2 DEF Dms
    <3>4. q \in S /\ p \in S /\ p # q
      BY <2>6, <2>8, <3>3, RoomsStay DEF MakersOf, Made
    <3>5. pc[p] = "read"
      BY <1>1, <2>1, <2>8, <3>4, OthersStay
    <3>6. CASE DmWrites(q)
      BY <2>1, <2>3, <3>4, <3>5, <3>6, AloneInside DEF DmWrites, Commits, Holding
    <3>7. CASE AskHuman(q)
      BY <2>1, <2>2, <3>4, <3>5, <3>7, OnceFindsNobody DEF AskHuman, Holding
    <3> QED BY <3>3, <3>6, <3>7, NewRooms
  <2> QED BY <2>7, <2>8
<1> QED BY <1>4, <1>5 DEF DmsInOrder, Rooms

\* An open channel was that channel, is new, or has been given its name.
LEMMA ChannelWas ==
    ASSUME Discipline, NEW q \in Requests, RequestsStep(q), NEW r \in Rooms, kind'[r] = "channel"
    PROVE  \/ kind[r] = "channel" /\ title'[r] = title[r] /\ (r \in open' => r \in open)
           \/ r = q /\ ChannelWrites(q) /\ title'[r] = Job[q].title
           \/ /\ RenameWrites(q) /\ r = Job[q].room /\ title'[r] = Job[q].title
              /\ kind[r] = "channel" /\ (r \in open' => r \in open)
<1>1. RoomAction(q) /\ RoomTypeOK /\ pc[q] # "done"
  BY StepByComponent, OverIsOver DEF Discipline, TypeOK
<1>2. CASE kind[r] = "channel"
  <2>1. r # q
    BY <1>1, <1>2 DEF Discipline
  <2>2. r \in open' => r \in open
    BY <2>1, RoomsStay
  <2>3. CASE RenameWrites(q)
    BY <1>1, <1>2, <2>2, <2>3 DEF RenameWrites, RoomTypeOK
  <2>4. CASE DmWrites(q) \/ MakeGroup(q) \/ ChannelWrites(q)
    BY <1>1, <1>2, <2>1, <2>2, <2>4 DEF DmWrites, MakeGroup, ChannelWrites, InsertRoom, RoomTypeOK
  <2>5. CASE JoinWrites(q) \/ InviteWrites(q) \/ ArchiveRoom(q) \/ JoinGeneral(Job[q].agent)
             \/ UNCHANGED roomVars
    BY <1>2, <2>2, <2>5 DEF JoinWrites, InviteWrites, ArchiveRoom, JoinGeneral, roomVars
  <2>6. CASE AskHuman(q) /\ EnsureDm(q, {Job[q].agent, You})
    BY <1>1, <1>2, <2>1, <2>2, <2>6 DEF EnsureDm, InsertRoom, roomVars, RoomTypeOK
  <2> QED BY <1>1, <2>3, <2>4, <2>5, <2>6 DEF RoomAction
<1>3. CASE kind[r] # "channel"
  <2>1. r = q /\ kind'[q] # kind[q]
    BY <1>3, RoomsStay
  <2> QED BY <2>1, NewRooms
<1> QED BY <1>2, <1>3

\* A name that has been found free is still free when it is taken.
NameInOrder(t) ==
    \/ Unserialized(TakersOf(t))
    \/ /\ \A r, s \in Named(t) \cap open : r = s
       /\ \A q \in Made("channel") : Job[q].title = t /\ pc[q] = "read" => Named(t) \cap open = {}
       /\ \A q \in Made("rename") : Job[q].title = t /\ pc[q] = "read" => Named(t) \ {Job[q].room} = {}

ChannelsInOrder == \A t \in Names : NameInOrder(t)

LEMMA StepKeepsChannels ==
    ASSUME Discipline, ChannelsInOrder, NEW q \in Requests, RequestsStep(q)
    PROVE  ChannelsInOrder'
<1>1. Advance(q) /\ RequestTypeOK /\ pc \in [Requests -> Phases]
  BY StepByComponent DEF Discipline, TypeOK, RequestTypeOK
<1>2. open' \subseteq Rooms
  BY StepKeepsDiscipline DEF Discipline, TypeOK, RoomTypeOK
<1> SUFFICES ASSUME NEW t \in Names PROVE NameInOrder(t)'
  BY DEF ChannelsInOrder
<1> DEFINE S == TakersOf(t)
           Makes == q \in Made("channel") /\ Job[q].title = t
           Renames == q \in Made("rename") /\ Job[q].title = t
<1>3. S \in SUBSET Requests
  BY DEF TakersOf, Made
<1>4. SUFFICES ASSUME ~Unserialized(S)'
               PROVE  /\ \A r, s \in (Named(t) \cap open)' : r = s
                      /\ \A p \in Made("channel") :
                           Job[p].title = t /\ pc'[p] = "read" => (Named(t) \cap open)' = {}
                      /\ \A p \in Made("rename") :
                           Job[p].title = t /\ pc'[p] = "read" => Named(t)' \ {Job[p].room} = {}
  BY DEF NameInOrder, TakersOf, Made
<1>5. ~Unserialized(S)
  BY <1>1, <1>3, <1>4, HistoryGrows
<1>6. /\ \A r, s \in Named(t) \cap open : r = s
      /\ \A p \in Made("channel") : Job[p].title = t /\ pc[p] = "read" => Named(t) \cap open = {}
      /\ \A p \in Made("rename") :
           Job[p].title = t /\ pc[p] = "read" => Named(t) \ {Job[p].room} = {}
  BY <1>5 DEF ChannelsInOrder, NameInOrder
<1>7. ChannelWrites(q) => q \in Made("channel") /\ pc[q] = "read" /\ pc'[q] = "done"
  BY <1>1 DEF ChannelWrites, Commits, Made
<1>8. RenameWrites(q) => q \in Made("rename") /\ pc[q] = "read" /\ pc'[q] = "done"
  BY <1>1 DEF RenameWrites, Commits, Made
\* A channel of that name had it, or gets it from this request.
<1>9. ASSUME NEW r \in Rooms, r \in Named(t)'
      PROVE  \/ r \in Named(t) /\ (r \in open' => r \in open)
             \/ r = q /\ ChannelWrites(q) /\ Job[q].title = t
             \/ RenameWrites(q) /\ Job[q].title = t /\ r = Job[q].room /\ (r \in open' => r \in open)
  BY <1>9, ChannelWas DEF Named
<1>10. \A r, s \in (Named(t) \cap open)' : r = s
  <2>1. SUFFICES ASSUME NEW r \in Rooms, NEW s \in Rooms, r \in Named(t)', s \in Named(t)',
                        r \in open', s \in open'
                 PROVE  r = s
    BY <1>2
  <2>2. CASE ChannelWrites(q) /\ Job[q].title = t
    <3>1. Named(t) \cap open = {} /\ ~RenameWrites(q)
      BY <1>6, <1>7, <1>8, <2>2 DEF Made
    <3> QED BY <1>9, <2>1, <3>1
  <2>3. CASE ~(ChannelWrites(q) /\ Job[q].title = t)
    BY <1>6, <1>8, <1>9, <2>1, <2>3
  <2> QED BY <2>2, <2>3
\* While p has read, nobody else takes the name.
<1>11. ASSUME NEW p \in S, pc'[p] = "read"
       PROVE  \A r \in Named(t)' : r \in Named(t) /\ (r \in open' => r \in open)
  <2>1. SUFFICES ASSUME q \in S, pc[q] = "read", pc'[q] = "done"
                 PROVE  FALSE
    BY <1>7, <1>8, <1>9 DEF TakersOf, Named
  <2>2. pc[p] = "read" /\ p # q
    BY <1>1, <1>3, <1>11, <2>1, OthersStay
  <2> QED BY <1>3, <1>5, <2>1, <2>2, AloneInside DEF Holding
<1>12. ASSUME NEW p \in Made("channel"), Job[p].title = t, pc'[p] = "read"
       PROVE  (Named(t) \cap open)' = {}
  <2>1. Named(t) \cap open = {}
    <3>1. CASE pc[p] = "read"
      BY <1>6, <1>12, <3>1
    <3>2. CASE pc[p] # "read"
      <4>1. p = q
        BY <1>1, <1>12, <3>2, OthersStay DEF Made
      <4> QED BY <1>1, <1>12, <3>2, <4>1, RoomStepByOperation DEF Made, Call, Fail, ChannelReads,
              ChannelWrites, Commits
    <3> QED BY <3>1, <3>2
  <2> QED BY <1>11, <1>12, <2>1 DEF TakersOf
<1>13. ASSUME NEW p \in Made("rename"), Job[p].title = t, pc'[p] = "read"
       PROVE  Named(t)' \ {Job[p].room} = {}
  <2>1. Named(t) \ {Job[p].room} = {}
    <3>1. CASE pc[p] = "read"
      BY <1>6, <1>13, <3>1
    <3>2. CASE pc[p] # "read"
      <4>1. p = q
        BY <1>1, <1>13, <3>2, OthersStay DEF Made
      <4> QED BY <1>1, <1>13, <3>2, <4>1, RoomStepByOperation DEF Made, Call, Fail, RenameReads,
              RenameWrites, Commits
    <3> QED BY <3>1, <3>2
  <2> QED BY <1>11, <1>13, <2>1 DEF TakersOf
<1> QED BY <1>10, <1>12, <1>13

\* An invitation that has found a place in a group still has it when it is written.
GroupsInOrder ==
    /\ \A r \in Rooms : kind[r] = "group" => IsFiniteSet(members[r])
    /\ \A r \in Rooms :
         \/ Unserialized(InvitesTo(r))
         \/ /\ kind[r] = "group" => Cardinality(members[r]) <= MaxGroup
            /\ \A q \in InvitesTo(r) : pc[q] = "read" => HasPlace(r)

LEMMA StepKeepsGroups ==
    ASSUME Discipline, GroupsInOrder, NEW q \in Requests, RequestsStep(q)
    PROVE  GroupsInOrder'
<1>1. Advance(q) /\ RequestTypeOK /\ pc \in [Requests -> Phases]
  BY StepByComponent DEF Discipline, TypeOK, RequestTypeOK
<1>2. MaxGroup \in Nat
  BY RoomAssumption
\* A group is as it was, has a newcomer, or is new.
<1>3. ASSUME NEW r \in Rooms, kind'[r] = "group"
      PROVE  \/ kind[r] = "group" /\ members'[r] = members[r]
             \/ /\ kind[r] = "group" /\ InviteWrites(q) /\ r = Job[q].room
                /\ Job[q].person \notin members[r]
                /\ members'[r] = members[r] \cup {Job[q].person}
             \/ /\ kind[r] = "none" /\ IsFiniteSet(members'[r])
                /\ Cardinality(members'[r]) <= MaxGroup
  <2>1. CASE kind[r] = "group"
    BY <2>1, MembersChange
  <2>2. CASE kind[r] # "group"
    <3>1. r = q /\ kind'[q] # kind[q]
      BY <1>3, <2>2, RoomsStay
    <3>2. MakeGroup(q) /\ members'[q] = Job[q].members
      BY <1>3, <3>1, NewRooms
    <3>3. IsFiniteSet(Job[q].members)
      BY <3>2, FirstRoomsAssumption DEF MakeGroup, Made
    <3>4. Cardinality(Job[q].members) <= MaxGroup
      BY <1>2, <3>2 DEF MakeGroup
    <3> QED BY <3>1, <3>2, <3>3, <3>4, RoomsStay
  <2> QED BY <2>1, <2>2
<1>4. \A r \in Rooms : kind'[r] = "group" => IsFiniteSet(members'[r])
  BY <1>3, FS_AddElement DEF GroupsInOrder
<1>5. ASSUME NEW r \in Rooms, ~Unserialized(InvitesTo(r))'
      PROVE  /\ kind'[r] = "group" => Cardinality(members'[r]) <= MaxGroup
             /\ \A p \in InvitesTo(r) : pc'[p] = "read" => HasPlace(r)'
  <2> DEFINE S == InvitesTo(r)
  <2>1. S \in SUBSET Requests
    BY DEF InvitesTo, Made
  <2>2. ~Unserialized(S)
    BY <1>1, <1>5, <2>1, HistoryGrows
  <2>3. /\ kind[r] = "group" => IsFiniteSet(members[r]) /\ Cardinality(members[r]) <= MaxGroup
        /\ \A p \in S : pc[p] = "read" => HasPlace(r)
    BY <2>2 DEF GroupsInOrder
  <2>4. InviteWrites(q) /\ r = Job[q].room => q \in S /\ pc[q] = "read" /\ pc'[q] = "done"
    BY <1>1 DEF InviteWrites, Commits, InvitesTo, Made
  <2>5. ASSUME kind'[r] = "group"
        PROVE  Cardinality(members'[r]) <= MaxGroup
    <3>1. CASE InviteWrites(q) /\ r = Job[q].room /\ kind[r] = "group"
               /\ Job[q].person \notin members[r] /\ members'[r] = members[r] \cup {Job[q].person}
      <4>1. Cardinality(members[r]) < MaxGroup
        BY <2>3, <2>4, <3>1 DEF HasPlace
      <4>2. Cardinality(members'[r]) = Cardinality(members[r]) + 1
        <5>1. IsFiniteSet(members[r])
          BY <2>3, <3>1
        <5>2. Cardinality(members[r] \cup {Job[q].person}) = Cardinality(members[r]) + 1
          BY <3>1, <5>1, FS_AddElement
        <5> QED BY <3>1, <5>2
      <4>3. Cardinality(members[r]) \in Nat
        BY <2>3, <3>1, FS_CardinalityType
      <4> QED BY <1>2, <4>1, <4>2, <4>3
    <3> QED BY <1>3, <2>3, <2>5, <3>1
  <2>6. ASSUME NEW p \in S, pc'[p] = "read"
        PROVE  HasPlace(r)'
    <3>1. p \in Made("invite") /\ Job[p].room = r
      BY DEF InvitesTo
    <3>2. HasPlace(r) /\ kind[r] # "none"
      <4>1. CASE pc[p] = "read"
        BY <2>3, <3>1, <4>1 DEF Discipline, Made
      <4>2. CASE pc[p] # "read"
        <5>1. p = q
          BY <1>1, <2>6, <3>1, <4>2, OthersStay DEF Made
        <5> QED BY <1>1, <2>6, <3>1, <4>2, <5>1, RoomStepByOperation DEF Made, Call, Fail, InviteReads,
                InviteWrites, FindsIt, Commits, Once
      <4> QED BY <4>1, <4>2
    <3>3. ~(InviteWrites(q) /\ r = Job[q].room)
      <4>1. SUFFICES ASSUME q \in S, pc[q] = "read", pc'[q] = "done"
                     PROVE  FALSE
        BY <2>4
      <4>2. pc[p] = "read" /\ p # q
        BY <1>1, <2>1, <2>6, <4>1, OthersStay
      <4> QED BY <2>1, <2>2, <4>1, <4>2, AloneInside DEF Holding
    <3> QED BY <1>3, <3>2, <3>3 DEF HasPlace
  <2> QED BY <2>5, <2>6
<1> QED BY <1>4, <1>5 DEF GroupsInOrder, InvitesTo, Made, Rooms

LEMMA InitRooms == Init => DmsInOrder /\ ChannelsInOrder /\ GroupsInOrder
<1> SUFFICES ASSUME Init PROVE DmsInOrder /\ ChannelsInOrder /\ GroupsInOrder
  OBVIOUS
<1>1. \A q \in Requests : pc[q] = "new"
  BY DEF Init, RequestInit
<1>2. /\ open = OldRooms
      /\ \A r \in OldRooms : /\ kind[r] = FirstRoom[r].kind /\ title[r] = FirstRoom[r].title
                             /\ members[r] = FirstRoom[r].members
      /\ \A r \in Rooms \ OldRooms : kind[r] = "none"
  BY DEF Init, RoomInit, Rooms
<1>3. OldRooms \subseteq Rooms
  BY DEF Rooms
<1>4. DmsInOrder
  BY <1>1, <1>2, <1>3, FirstRoomsAssumption DEF DmsInOrder, DmInOrder, Dms, Made
<1>5. ChannelsInOrder
  BY <1>1, <1>2, <1>3, FirstRoomsAssumption DEF ChannelsInOrder, NameInOrder, Named, Made
<1>6. GroupsInOrder
  BY <1>1, <1>2, <1>3, FirstRoomsAssumption DEF GroupsInOrder, InvitesTo, Made
<1> QED BY <1>4, <1>5, <1>6

-----------------------------------------------------------------------------
\* The recorder.

\* The recorders that are on and not left behind.
InUse == On \ LeftBehind

\* A recorder in use has its row, or is that of the request about to commit it;
\* and a start under way has found no recording, and there is none yet.
RecorderInOrder ==
    \/ Overlap(Made("start"))
    \/ /\ \A d, e \in InUse : d = e
       /\ \A d \in InUse : phase[d] = "recording" \/ (d \in Made("start") /\ pc[d] = "acted")
       /\ \A q \in Made("start") : pc[q] \in Holding => \A d \in Demos : phase[d] # "recording"

LEMMA StepKeepsRecorder ==
    ASSUME Discipline, Backing, RecorderInOrder, NEW q \in Requests, RequestsStep(q)
    PROVE  RecorderInOrder'
<1> DEFINE S == Made("start")
           Used(d) == d \in Demos /\ recorder[d] = "on" /\ (d \in S => pc[d] # "failed")
<1>1. /\ Advance(q) /\ DemoAction(q) /\ RequestTypeOK /\ S \in SUBSET Requests
      /\ pc \in [Requests -> Phases] /\ DemoTypeOK /\ S \subseteq Demos
  BY StepByComponent DEF Discipline, TypeOK, RequestTypeOK, Made, Demos
<1>2. \A d : (d \in InUse <=> Used(d)) /\ (d \in InUse' <=> Used(d)')
  BY DEF InUse, On, LeftBehind, Demos, Made
<1>3. SUFFICES ASSUME ~Overlap(S)'
               PROVE  /\ \A d, e \in Demos : Used(d)' /\ Used(e)' => d = e
                      /\ \A d \in Demos : Used(d)' =>
                           phase'[d] = "recording" \/ (d \in S /\ pc'[d] = "acted")
                      /\ \A p \in S : pc'[p] \in Holding => \A d \in Demos : phase'[d] # "recording"
  BY <1>2 DEF RecorderInOrder, Made, Demos
<1>4. /\ \A d, e \in Demos : Used(d) /\ Used(e) => d = e
      /\ \A d \in Demos : Used(d) => phase[d] = "recording" \/ (d \in S /\ pc[d] = "acted")
      /\ \A p \in S : pc[p] \in Holding => \A d \in Demos : phase[d] # "recording"
  BY <1>1, <1>2, <1>3, HistoryGrows DEF RecorderInOrder
<1>5. ASSUME NEW p \in S, NEW r \in S, pc[p] \in Holding, pc[r] \in Holding
      PROVE  p = r
  BY <1>1, <1>3, <1>5, AloneUnderWay, HistoryGrows DEF Discipline, Holding, UnderWay
<1>6. \A p \in S : p # q => pc'[p] = pc[p]
  BY <1>1, OthersStay
<1>7. CASE StartRecords(q)
  <2>1. q \in S /\ pc[q] = "inserted" /\ pc'[q] = "acted" /\ phase' = phase
        /\ recorder' = [recorder EXCEPT ![q] = "on"]
    BY <1>1, <1>7 DEF StartRecords, Acts, Made
  <2>2. \A d \in Demos : ~Used(d)
    BY <1>4, <1>5, <2>1 DEF Holding
  <2>3. \A d \in Demos : Used(d)' => d = q
    BY <1>1, <1>6, <2>1, <2>2 DEF DemoTypeOK
  <2> QED BY <1>4, <1>5, <1>6, <2>1, <2>3 DEF Holding
<1>8. CASE StartCommits(q)
  <2>1. q \in S /\ pc[q] = "acted" /\ pc'[q] = "done" /\ recorder' = recorder
        /\ phase' = [phase EXCEPT ![q] = "recording"]
    BY <1>1, <1>8 DEF StartCommits, Commits, Made
  <2>2. \A p \in S : pc'[p] \notin Holding
    BY <1>5, <1>6, <2>1 DEF Holding
  <2>3. \A d \in Demos : Used(d)' => Used(d)
    BY <1>6, <2>1
  <2>4. ASSUME NEW d \in Demos, Used(d)
        PROVE  phase'[d] = "recording"
    <3>1. d = q
      BY <1>4, <1>5, <2>1, <2>4 DEF Holding
    <3> QED BY <1>1, <2>1, <3>1 DEF DemoTypeOK
  <2> QED BY <1>4, <2>2, <2>3, <2>4
<1>9. CASE ~StartRecords(q) /\ ~StartCommits(q)
  <2>1. \A d \in Demos : /\ recorder'[d] = "on" => recorder[d] = "on"
                         /\ phase'[d] = "recording" => phase[d] = "recording"
    BY <1>1, <1>9 DEF DemoAction, StopEnds, StopWrites, VerifyWrites, demoVars, DemoTypeOK
\* A start that has failed, and one that has recorded, take no step but this one.
  <2>2. ASSUME NEW d \in S
        PROVE  /\ pc[d] = "failed" => pc'[d] = "failed"
               /\ pc[d] = "acted" => pc'[d] \in {"acted", "failed"}
    BY <1>1, <1>6, <1>9, <2>2, StepByOperation
    DEF Made, Call, Fail, StartReads, Reads, StartInserts, Inserts, UnderWay
  <2>3. \A d \in Demos : Used(d)' => Used(d)
    BY <2>1, <2>2
\* What is stopped or verified has its recorder stopped.
  <2>4. ASSUME NEW d \in Demos, recorder'[d] = "on", phase[d] = "recording"
        PROVE  phase'[d] = "recording"
    <3>1. recorder[d] = "on"
      BY <2>1, <2>4
    <3>2. CASE StopWrites(q)
      <4>1. recorder[Job[q].demo] = "stopped"
        BY <3>2 DEF StopWrites, Commits, Backing, WorkIsBacked
      <4> QED BY <1>1, <2>4, <3>1, <3>2, <4>1 DEF StopWrites, DemoTypeOK
    <3>3. CASE VerifyWrites(q)
      <4>1. phase[Job[q].demo] \in {"learning", "verified"}
        BY <3>3 DEF VerifyWrites, Commits, Backing, WorkIsBacked
      <4> QED BY <1>1, <2>4, <3>3, <4>1 DEF VerifyWrites, DemoTypeOK
    <3> QED BY <1>1, <1>9, <2>4, <3>2, <3>3 DEF DemoAction, StopEnds, demoVars
  <2>5. ASSUME NEW p \in S, pc'[p] \in Holding
        PROVE  \A d \in Demos : phase[d] # "recording"
    <3>1. CASE pc[p] \in Holding
      BY <1>4, <3>1
    <3>2. CASE pc[p] \notin Holding
      <4>1. p = q
        BY <1>6, <2>5, <3>2
      <4> QED BY <1>1, <1>9, <2>5, <3>2, <4>1, StepByOperation DEF Made, Call, Fail, StartReads,
              StartInserts, Inserts, Holding
    <3> QED BY <3>1, <3>2
  <2> QED BY <1>4, <2>1, <2>2, <2>3, <2>4, <2>5
<1> QED BY <1>7, <1>8, <1>9

\* A set of at most one member.
LEMMA AtMostOne ==
    ASSUME NEW S
    PROVE  /\ (\A x, y \in S : x = y) => Cardinality(S) <= 1
           /\ IsFiniteSet(S) /\ Cardinality(S) <= 1 => \A x, y \in S : x = y
<1>1. ASSUME \A x, y \in S : x = y
      PROVE  Cardinality(S) <= 1
  <2>1. CASE S = {}
    BY <2>1, FS_EmptySet
  <2>2. CASE S # {}
    <3>1. PICK x \in S : S = {x}
      BY <1>1, <2>2
    <3>2. Cardinality({x}) = 1
      BY FS_Singleton
    <3> QED BY <3>1, <3>2
  <2> QED BY <2>1, <2>2
<1>2. ASSUME IsFiniteSet(S), Cardinality(S) <= 1, NEW x \in S, NEW y \in S, x # y
      PROVE  FALSE
  <2>1. {x, y} \subseteq S /\ IsFiniteSet({x})
    BY FS_Singleton
  <2>2. Cardinality({x} \cup {y}) = 2 /\ IsFiniteSet({x} \cup {y})
    <3>1. Cardinality({x}) = 1
      BY FS_Singleton
    <3>2. y \notin {x}
      BY <1>2
    <3>3. Cardinality({x} \cup {y}) = Cardinality({x}) + 1 /\ IsFiniteSet({x} \cup {y})
      BY <2>1, <3>2, FS_AddElement
    <3> QED BY <3>1, <3>3
  <2>3. {x} \cup {y} \subseteq S
    BY <2>1
  <2>4. Cardinality({x} \cup {y}) <= Cardinality(S)
    BY <1>2, <2>3, FS_Subset
  <2>5. Cardinality(S) \in Nat
    BY <1>2, FS_CardinalityType
  <2> QED BY <1>2, <2>2, <2>4, <2>5
<1> QED BY <1>1, <1>2

LEMMA InitRecorder == Init => RecorderInOrder
<1> SUFFICES ASSUME Init PROVE RecorderInOrder
  OBVIOUS
<1>1. PICK D \in SUBSET OldDemos :
        /\ Cardinality(D) <= 1
        /\ phase = [d \in Demos |-> IF d \in D THEN "recording" ELSE "none"]
        /\ recorder = [d \in Demos |-> IF d \in D THEN "on" ELSE "off"]
  BY DEF Init, DemoInit
<1>2. IsFiniteSet(D)
  BY DemoAssumption, FS_Subset
<1>3. \A d, e \in D : d = e
  BY <1>1, <1>2, AtMostOne
<1>4. \A q \in Requests : pc[q] = "new"
  BY DEF Init, RequestInit
<1> QED BY <1>1, <1>3, <1>4 DEF RecorderInOrder, InUse, On, LeftBehind, Made, Holding

-----------------------------------------------------------------------------
\* The limits.

Limited ==
    /\ Discipline /\ Backing
    /\ TeamInOrder /\ BudgetInOrder
    /\ DmsInOrder /\ ChannelsInOrder /\ GroupsInOrder
    /\ RecorderInOrder

LEMMA NothingKeepsLimits ==
    ASSUME Limited, TypeOK', UNCHANGED <<requestVars, staffVars, roomVars, demoVars>>
    PROVE  /\ Discipline' /\ TeamInOrder' /\ BudgetInOrder'
           /\ DmsInOrder' /\ ChannelsInOrder' /\ GroupsInOrder' /\ RecorderInOrder'
<1>1. UNCHANGED <<pc, lock, used, counted, overlapped, hired, retired, kind, title, open, members,
                  phase, recorder>>
  BY DEF requestVars, staffVars, roomVars, demoVars
<1>2. /\ UnderWay' = UnderWay /\ Active' = Active /\ DoneHandoffs' = DoneHandoffs
      /\ \A S \in SUBSET Requests : /\ Overlap(S)' = Overlap(S)
                                    /\ Unserialized(S)' = Unserialized(S)
  BY <1>1 DEF UnderWay, Active, DoneHandoffs, Overlap, Unserialized
<1>3. Discipline'
  BY <1>1, <1>2 DEF Limited, Discipline, Meetings
<1>4. TeamInOrder' /\ BudgetInOrder'
  BY <1>1, <1>2 DEF Limited, TeamInOrder, BudgetInOrder, Made, Handoffs
<1>5. DmsInOrder' /\ ChannelsInOrder' /\ GroupsInOrder'
  BY <1>1, <1>2 DEF Limited, DmsInOrder, DmInOrder, MakersOf, Dms, ChannelsInOrder, NameInOrder,
     TakersOf, Named, GroupsInOrder, InvitesTo, HasPlace, Made
<1>6. RecorderInOrder'
  BY <1>1, <1>2 DEF Limited, RecorderInOrder, InUse, On, LeftBehind, Made, Demos
<1> QED BY <1>3, <1>4, <1>5, <1>6

LEMMA StepKeepsLimits ==
    ASSUME Limited, [Next]_vars
    PROVE  Limited'
<1>1. Backing' /\ TypeOK'
  BY StepKeepsBacking DEF Limited, Backing
<1>2. ASSUME NEW q \in Requests, RequestsStep(q)
      PROVE  Limited'
  BY <1>1, <1>2, StepKeepsDiscipline, StepKeepsTeam, StepKeepsBudget, StepKeepsDms,
     StepKeepsChannels, StepKeepsGroups, StepKeepsRecorder DEF Limited
<1>3. CASE AnswerStep \/ UNCHANGED vars
  <2>1. UNCHANGED <<requestVars, staffVars, roomVars, demoVars>>
    BY <1>3 DEF AnswerStep, vars
  <2> QED BY <1>1, <2>1, NothingKeepsLimits DEF Limited
<1>4. InPlay \subseteq Requests
  BY RequestAssumption DEF InPlay, UnderWay, Startable
<1> QED BY <1>2, <1>3, <1>4 DEF Next, RequestsStep

LEMMA LimitedIsEnough == Limited => LimitsHold
<1> SUFFICES ASSUME Limited PROVE LimitsHold
  OBVIOUS
<1>1. TeamHasItsLimit
  BY DEF Limited, TeamInOrder, TeamHasItsLimit
<1>2. RunHasItsBudget
  BY DEF Limited, BudgetInOrder, DoneHandoffs, RunHasItsBudget
<1>3. OneDmForEachPair
  BY DEF Limited, DmsInOrder, DmInOrder, Dms, OneDmForEachPair
<1>4. OneOpenChannelOfAName
  BY AtMostOne DEF Limited, ChannelsInOrder, NameInOrder, OneOpenChannelOfAName
<1>5. GroupsHaveTheirLimit
  BY DEF Limited, GroupsInOrder, GroupsHaveTheirLimit
<1>6. OneRecorder
  <2>1. (\A d, e \in InUse : d = e) => Cardinality(InUse) <= 1
    BY AtMostOne
  <2> QED BY <2>1 DEF Limited, RecorderInOrder, InUse, OneRecorder
<1>7. LockIsHeldOverFew
  BY LockIsFree DEF Limited
<1> QED BY <1>1, <1>2, <1>3, <1>4, <1>5, <1>6, <1>7 DEF LimitsHold

\* What the code checks before it writes still holds after it has written, unless two
\* requests that check the same have read side by side: the size of the team
\* (hire_agent), the handoffs of the run (Toolbelt.call), one DM for a pair
\* (get_or_create_dm, create_human_request; two requests about that pair), one open
\* channel of a name (create_channel, update_channel; about that name), the size of a
\* group (invite; to that group), one recorder on the one desktop besides those that
\* failed starts have left behind (DemonstrationService.start).  And only the start of
\* a recording, and a hiring or a new card in a run, keep everyone else from writing
\* while a command runs.
THEOREM Limits == Spec => []LimitsHold
<1>1. Init => Limited
  BY InitDiscipline, InitIsBacked, InitTeamAndBudget, InitRooms, InitRecorder DEF Limited
<1>2. Limited /\ [Next]_vars => Limited'
  BY StepKeepsLimits
<1>3. Limited => LimitsHold
  BY LimitedIsEnough
<1> QED BY <1>1, <1>2, <1>3, PTL DEF Spec

-----------------------------------------------------------------------------
\* The answers.

\* A resolution under way has found no answer, and there is none yet.
AnswerInOrder(r) ==
    \/ Overlap(AnswersTo(r))
    \/ /\ AnswerIsTold(r)
       /\ \A q \in AnswersTo(r) : /\ pc[q] \in Holding => answer[r] = NoAnswer
                                  /\ pc[q] = "acted" => secret[r] = Job[q].answer

AnswersInOrder == \A r \in Asks : AnswerInOrder(r)

LEMMA StepKeepsAnswers ==
    ASSUME Discipline, AnswersInOrder, NEW q \in Requests, RequestsStep(q)
    PROVE  AnswersInOrder'
<1> SUFFICES ASSUME NEW r \in Asks PROVE AnswerInOrder(r)'
  BY DEF AnswersInOrder, Asks, Made
<1> DEFINE S == AnswersTo(r)
<1>1. /\ Advance(q) /\ HumanAction(q) /\ RequestTypeOK /\ S \in SUBSET Requests
      /\ pc \in [Requests -> Phases] /\ HumanRequestTypeOK
  BY StepByComponent DEF Discipline, TypeOK, RequestTypeOK, AnswersTo, Made
<1>2. \A p \in S : Job[p].answer \in Answers /\ Job[p].answer # NoAnswer /\ Job[p].request = r
  BY HumanRequestAssumption DEF AnswersTo
<1>3. SUFFICES ASSUME ~Overlap(S)'
               PROVE  /\ AnswerIsTold(r)'
                      /\ \A p \in S : /\ pc'[p] \in Holding => answer'[r] = NoAnswer
                                      /\ pc'[p] = "acted" => secret'[r] = Job[p].answer
  BY DEF AnswerInOrder, AnswersTo, Made
<1>4. ~Overlap(S)
  BY <1>1, <1>3, HistoryGrows
<1>5. /\ AnswerIsTold(r)
      /\ \A p \in S : /\ pc[p] \in Holding => answer[r] = NoAnswer
                      /\ pc[p] = "acted" => secret[r] = Job[p].answer
  BY <1>4 DEF AnswersInOrder, AnswerInOrder
<1>6. ASSUME NEW p \in S, pc[p] \in Holding, q \in S, pc[q] \in Holding
      PROVE  p = q
  BY <1>1, <1>4, <1>6, AloneUnderWay DEF Discipline, Holding, UnderWay
<1>7. \A p \in S : p # q => pc'[p] = pc[p]
  BY <1>1, OthersStay
<1>8. CASE StoresSecret(q) /\ Job[q].request = r
  <2>1. /\ q \in S /\ pc[q] = "read" /\ pc'[q] = "acted"
        /\ secret' = [secret EXCEPT ![r] = Job[q].answer]
        /\ UNCHANGED <<answer, wake, heard>>
    BY <1>1, <1>8 DEF StoresSecret, Acts, AnswersTo, Made
  <2>2. answer[r] = NoAnswer
    BY <1>5, <2>1 DEF Holding
  <2>3. AnswerIsTold(r)'
    BY <1>1, <1>5, <2>1, <2>2 DEF AnswerIsTold, Told
  <2>4. ASSUME NEW p \in S, pc'[p] \in Holding
        PROVE  p = q
    BY <1>6, <1>7, <2>1, <2>4 DEF Holding
  <2> QED BY <1>1, <2>1, <2>2, <2>3, <2>4 DEF Holding, HumanRequestTypeOK
<1>9. CASE ResolveWrites(q) /\ Job[q].request = r
  <2> DEFINE a == Job[q].answer
  <2>1. /\ q \in S /\ pc[q] \in {"read", "acted"} /\ pc'[q] = "done"
        /\ Job[r].kind = "secret" => pc[q] = "acted"
        /\ answer' = [answer EXCEPT ![r] = a]
        /\ wake' = [wake EXCEPT ![r] = IF @ = NoAnswer THEN a ELSE @]
        /\ UNCHANGED <<heard, secret>>
    BY <1>1, <1>9 DEF ResolveWrites, TellAnswer, Commits, AnswersTo, Made
  <2>2. a \in Answers /\ a # NoAnswer
    BY <1>2, <2>1
  <2>3. answer[r] = NoAnswer /\ (Job[r].kind = "secret" => secret[r] = a)
    BY <1>5, <2>1 DEF Holding
  <2>4. wake[r] = NoAnswer /\ heard[r] = {}
    BY <1>5, <2>3 DEF AnswerIsTold, Told
  <2> HIDE DEF a
  <2>5. AnswerIsTold(r)'
    BY <1>1, <2>1, <2>2, <2>3, <2>4 DEF AnswerIsTold, Told, HumanRequestTypeOK
  <2>6. \A p \in S : pc'[p] \notin Holding
    BY <1>6, <1>7, <2>1 DEF Holding
  <2> QED BY <2>5, <2>6 DEF Holding
<1>10. CASE ~(StoresSecret(q) /\ Job[q].request = r) /\ ~(ResolveWrites(q) /\ Job[q].request = r)
  <2>1. answer'[r] = answer[r] /\ wake'[r] = wake[r] /\ heard'[r] = heard[r] /\ secret'[r] = secret[r]
    BY <1>1, <1>10 DEF HumanAction, AskHuman, StoresSecret, ResolveWrites, TellAnswer, humanVars,
       HumanRequestTypeOK
  <2>2. ASSUME NEW p \in S, pc'[p] \in Holding
        PROVE  /\ answer[r] = NoAnswer
               /\ pc'[p] = "acted" => secret[r] = Job[p].answer
    <3>1. CASE pc'[p] = pc[p]
      BY <1>5, <2>2, <3>1
    <3>2. CASE pc'[p] # pc[p]
      <4>1. p = q /\ Job[q].op = "resolve" /\ Job[q].request = r
        BY <1>7, <3>2 DEF AnswersTo, Made
      <4>2. ResolveReads(q)
        BY <1>1, <1>10, <2>2, <4>1, StepByOperation DEF Call, Fail, Holding
      <4> QED BY <1>1, <4>1, <4>2 DEF ResolveReads, Reads
    <3> QED BY <3>1, <3>2
  <2> QED BY <1>5, <2>1, <2>2 DEF AnswerIsTold, Told, Holding
<1> QED BY <1>8, <1>9, <1>10

\* A run that hears an answer has it from the wake, and nothing else is told.
LEMMA HearingKeepsAnswers ==
    ASSUME Discipline, AnswersInOrder, AnswerStep
    PROVE  AnswersInOrder'
<1>1. UNCHANGED <<pc, overlapped, answer, secret>>
  BY DEF AnswerStep, requestVars, RequestExpires, HearAnswer
<1>2. ASSUME NEW s \in Asks
      PROVE  Told(s)' = Told(s)
  <2>1. PICK r \in Asks : RequestExpires(r) \/ HearAnswer(r)
    BY DEF AnswerStep
  <2>2. CASE RequestExpires(r)
    BY <2>2 DEF RequestExpires, Told
  <2>3. CASE HearAnswer(r)
    BY <2>3 DEF HearAnswer, Told, Discipline, TypeOK, HumanRequestTypeOK
  <2> QED BY <2>1, <2>2, <2>3
<1> QED BY <1>1, <1>2 DEF AnswersInOrder, AnswerInOrder, AnswersTo, AnswerIsTold, Overlap, Asks, Made

-----------------------------------------------------------------------------
\* The cards.

\* While a card has been moved on the board and not yet in its row, the row has what
\* was read.
CardInOrder(t) ==
    \/ Overlap(MovesOf(t))
    \/ /\ \A q \in MovesOf(t) : /\ pc[q] \in Holding => prev[q] = ref[t]
                                /\ pc[q] = "acted" => card[t] = Job[q].status
       /\ ref[t] \in {"none", card[t]} \/ MovedAhead(t)

\* The row of a card comes with the end of its request.
CardsInOrder ==
    /\ \A t \in Requests : ref[t] # "none" => pc[t] = "done"
    /\ \A q \in Made("card") : pc[q] = "acted" => card[q] = "todo"
    /\ \A q \in Made("move") : pc[q] \in Holding => ref[Job[q].task] # "none"
    /\ \A t \in Requests : CardInOrder(t)

\* What does not depend on how moves meet.
LEMMA StepKeepsRefs ==
    ASSUME Discipline, CardsInOrder, NEW q \in Requests, RequestsStep(q)
    PROVE  /\ \A t \in Requests : ref'[t] # "none" => pc'[t] = "done"
           /\ \A p \in Made("card") : pc'[p] = "acted" => card'[p] = "todo"
           /\ \A p \in Made("move") : pc'[p] \in Holding => ref'[Job[p].task] # "none"
           /\ \A t \in Requests : ref[t] # "none" => ref'[t] # "none"
<1>1. /\ Advance(q) /\ TaskAction(q) /\ RequestTypeOK /\ pc \in [Requests -> Phases] /\ TaskTypeOK
      /\ pc[q] # "done"
  BY StepByComponent, OverIsOver DEF Discipline, TypeOK, RequestTypeOK
<1>2. \A p \in Requests : p # q => pc'[p] = pc[p]
  BY <1>1, OthersStay
<1>3. \A p \in Made("move") : Job[p].task \in Requests /\ Job[p].status \in Statuses /\ Job[p].status # "none"
  BY TaskAssumption
<1>4. \A p \in Made("move") : pc[p] \in Holding =>
        Job[p].task # q /\ ref[Job[p].task] # "none" /\ pc[Job[p].task] = "done"
  BY <1>1, <1>3 DEF CardsInOrder
<1>5. ref' = ref \/ CardWrites(q) \/ MoveWrites(q)
  BY <1>1 DEF TaskAction, CardCreated, MoveReads, MoveActs, taskVars
<1>6. MoveWrites(q) => /\ q \in Made("move") /\ pc[q] = "acted"
                       /\ ref' = ref \/ ref' = [ref EXCEPT ![Job[q].task] = Job[q].status]
  BY DEF MoveWrites, Commits, Made
<1>7. CardWrites(q) => ref' = [ref EXCEPT ![q] = "todo"] /\ pc'[q] = "done" /\ q \in Made("card")
  BY <1>1 DEF CardWrites, Commits, Made
<1>8. \A t \in Requests : ref[t] # "none" => ref'[t] # "none"
  BY <1>1, <1>3, <1>5, <1>6, <1>7 DEF TaskTypeOK
<1>9. ASSUME NEW t \in Requests, ref'[t] # "none"
      PROVE  pc'[t] = "done"
  <2>1. CASE ref[t] # "none"
    BY <1>1, <1>2, <2>1 DEF CardsInOrder
  <2>2. CASE ref[t] = "none"
    BY <1>1, <1>4, <1>5, <1>6, <1>7, <1>9, <2>2 DEF TaskTypeOK, Holding
  <2> QED BY <2>1, <2>2
<1>10. ASSUME NEW p \in Made("card"), pc'[p] = "acted"
       PROVE  card'[p] = "todo"
  <2>1. p \in Requests
    BY DEF Made
  <2>2. CASE p # q
    <3>1. pc[p] = "acted" /\ card[p] = "todo"
      BY <1>2, <1>10, <2>1, <2>2 DEF CardsInOrder
    <3>2. CASE MoveActs(q)
      <4>1. q \in Made("move") /\ pc[q] = "read"
        BY <3>2 DEF MoveActs, Acts, Made
      <4>2. Job[q].task # p
        BY <1>4, <3>1, <4>1 DEF Holding
      <4> QED BY <1>1, <2>1, <3>1, <3>2, <4>2 DEF MoveActs, TaskTypeOK
    <3> QED BY <1>1, <2>1, <2>2, <3>1, <3>2 DEF TaskAction, CardCreated, CardWrites, MoveReads,
            MoveWrites, TaskTypeOK, taskVars
  <2>3. CASE p = q
    <3>1. CardCreated(q)
      BY <1>1, <1>10, <2>3, StepByOperation DEF Made, Call, Fail, CardReads, Reads, CardWrites, Commits
    <3> QED BY <1>1, <2>3, <3>1 DEF CardCreated, TaskTypeOK
  <2> QED BY <2>2, <2>3
<1>11. ASSUME NEW p \in Made("move"), pc'[p] \in Holding
       PROVE  ref'[Job[p].task] # "none"
  <2>1. ref[Job[p].task] # "none"
    <3>1. CASE pc[p] \in Holding
      BY <1>4, <3>1
    <3>2. CASE pc[p] \notin Holding
      <4>1. p = q
        BY <1>2, <1>11, <3>2 DEF Made
      <4> QED BY <1>1, <1>11, <3>2, <4>1, StepByOperation DEF Made, Call, Fail, MoveReads, MoveActs,
              MoveWrites, Acts, Commits, Holding
    <3> QED BY <3>1, <3>2
  <2> QED BY <1>3, <1>8, <2>1
<1> QED BY <1>8, <1>9, <1>10, <1>11

LEMMA StepKeepsCard ==
    ASSUME Discipline, CardsInOrder, NEW q \in Requests, RequestsStep(q), NEW t \in Requests
    PROVE  CardInOrder(t)'
<1> DEFINE S == MovesOf(t)
<1>1. /\ Advance(q) /\ TaskAction(q) /\ RequestTypeOK /\ pc \in [Requests -> Phases] /\ TaskTypeOK
      /\ S \in SUBSET Requests
  BY StepByComponent DEF Discipline, TypeOK, RequestTypeOK, MovesOf, Made
<1>2. SUFFICES ASSUME ~Overlap(S)'
               PROVE  /\ \A p \in S : /\ pc'[p] \in Holding => prev'[p] = ref'[t]
                                      /\ pc'[p] = "acted" => card'[t] = Job[p].status
                      /\ \/ ref'[t] \in {"none", card'[t]}
                         \/ \E p \in S : pc'[p] \in {"acted", "failed"} /\ card'[t] = Job[p].status
  BY DEF CardInOrder, MovedAhead, Ahead, MovesOf, Made
<1>3. ~Overlap(S)
  BY <1>1, <1>2, HistoryGrows
<1>4. /\ \A p \in S : /\ pc[p] \in Holding => prev[p] = ref[t]
                      /\ pc[p] = "acted" => card[t] = Job[p].status
      /\ \/ ref[t] \in {"none", card[t]}
         \/ \E p \in S : pc[p] \in {"acted", "failed"} /\ card[t] = Job[p].status
  BY <1>3 DEF CardsInOrder, CardInOrder, MovedAhead, Ahead
<1>5. ASSUME NEW p \in S, pc[p] \in Holding, q \in S, pc[q] \in Holding
      PROVE  p = q
  BY <1>1, <1>3, <1>5, AloneUnderWay DEF Discipline, Holding, UnderWay
<1>6. \A p \in S : p # q => pc'[p] = pc[p]
  BY <1>1, OthersStay
<1>7. \A p \in S : Job[p].task = t /\ Job[p].status \in Statuses /\ p \in Made("move")
  BY TaskAssumption DEF MovesOf
<1>8. ASSUME NEW p \in S, pc[p] \in Holding
      PROVE  ref[t] # "none" /\ pc[t] = "done"
  BY <1>7, <1>8 DEF CardsInOrder
<1>9. CASE MoveActs(q) /\ q \in S
  <2>1. /\ pc[q] = "read" /\ pc'[q] = "acted" /\ UNCHANGED <<ref, prev>>
        /\ card' = [card EXCEPT ![t] = Job[q].status]
    BY <1>1, <1>7, <1>9 DEF MoveActs, Acts
  <2>2. ASSUME NEW p \in S, pc'[p] \in Holding
        PROVE  p = q
    BY <1>5, <1>6, <1>9, <2>1, <2>2 DEF Holding
  <2> QED BY <1>1, <1>4, <1>9, <2>1, <2>2 DEF Holding, TaskTypeOK
<1>10. CASE MoveWrites(q) /\ q \in S
  <2>1. /\ pc[q] = "acted" /\ pc'[q] = "done" /\ UNCHANGED <<card, prev>>
        /\ ref' = IF prev[q] = Job[q].status THEN ref ELSE [ref EXCEPT ![t] = Job[q].status]
    BY <1>1, <1>7, <1>10 DEF MoveWrites, Commits
  <2>2. \A p \in S : pc'[p] \notin Holding
    BY <1>5, <1>6, <1>10, <2>1 DEF Holding
  <2>3. prev[q] = ref[t] /\ card[t] = Job[q].status
    BY <1>4, <1>10, <2>1 DEF Holding
  <2>4. ref'[t] = card'[t]
    BY <1>1, <2>1, <2>3 DEF TaskTypeOK
  <2> QED BY <2>2, <2>4 DEF Holding
\* The card of a request that is not over has no row, so no move is about it.
<1>11. CASE (CardCreated(q) \/ CardWrites(q)) /\ q = t
  <2>1. q \notin S /\ ref[t] = "none" /\ pc[t] # "done"
    BY <1>1, <1>11, OverIsOver DEF CardCreated, CardWrites, MovesOf, Made, CardsInOrder
  <2>2. ref'[t] \in {"none", card'[t]}
    BY <1>1, <1>11, <2>1 DEF CardCreated, CardWrites, Commits, Made, CardsInOrder, TaskTypeOK
  <2>3. \A p \in S : pc'[p] = pc[p] /\ pc[p] \notin Holding
    BY <1>6, <1>8, <2>1
  <2> QED BY <2>2, <2>3 DEF Holding
<1>12. CASE ~(MoveActs(q) /\ q \in S) /\ ~(MoveWrites(q) /\ q \in S)
            /\ ~((CardCreated(q) \/ CardWrites(q)) /\ q = t)
  <2>1. card'[t] = card[t] /\ ref'[t] = ref[t] /\ \A p \in S : p # q => prev'[p] = prev[p]
    BY <1>1, <1>12 DEF TaskAction, MoveReads, MoveActs, MoveWrites, CardCreated, CardWrites, taskVars,
       TaskTypeOK, MovesOf, Made
  <2>2. ASSUME NEW p \in S, pc'[p] \in Holding
        PROVE  prev'[p] = ref[t] /\ (pc'[p] = "acted" => pc[p] = "acted")
    <3>1. CASE p # q
      BY <1>4, <1>6, <2>1, <2>2, <3>1
    <3>2. CASE p = q /\ MoveReads(q)
      BY <1>1, <1>7, <3>2 DEF MoveReads, Reads, TaskTypeOK
    <3>3. CASE p = q /\ ~MoveReads(q)
      <4>1. Fail(q) \/ Call(q)
        BY <1>7, <1>12, <3>3, StepByOperation DEF Made
      <4> QED BY <1>1, <2>2, <3>3, <4>1 DEF Call, Fail, Holding
    <3> QED BY <3>1, <3>2, <3>3
  <2>3. ASSUME NEW p \in S, pc[p] \in {"acted", "failed"}
        PROVE  pc'[p] \in {"acted", "failed"}
    <3>1. SUFFICES ASSUME p = q PROVE pc'[p] = "failed"
      BY <1>6, <2>3
    <3>2. Fail(q)
      BY <1>1, <1>7, <1>12, <2>3, <3>1, StepByOperation, OverIsOver DEF Made, Call, MoveReads, Reads
    <3> QED BY <1>1, <3>1, <3>2 DEF Fail
  <2> QED BY <1>4, <2>1, <2>2, <2>3 DEF Holding
<1> QED BY <1>9, <1>10, <1>11, <1>12

LEMMA StepKeepsCards ==
    ASSUME Discipline, CardsInOrder, NEW q \in Requests, RequestsStep(q)
    PROVE  CardsInOrder'
  BY StepKeepsRefs, StepKeepsCard DEF CardsInOrder, Made

-----------------------------------------------------------------------------
\* The descriptions.

\* A hiring has found no row for the handle, and there is none yet; and what a request
\* has written to SOUL.md stays there until its row says the same.
SoulInOrder(a) ==
    \/ Overlap(DescribersOf(a))
    \/ /\ \A q \in Made("hire") : Job[q].agent = a /\ pc[q] \in Holding => a \notin hired
       /\ \A q \in DescribersOf(a) : pc[q] = "acted" => soul[a] = q
       /\ a \in hired => soul[a] = role[a] \/ DescribedAhead(a)

SoulsInOrder == \A a \in Agents : SoulInOrder(a)

LEMMA StepKeepsSouls ==
    ASSUME Discipline, SoulsInOrder, NEW q \in Requests, RequestsStep(q)
    PROVE  SoulsInOrder'
<1> SUFFICES ASSUME NEW a \in Agents PROVE SoulInOrder(a)'
  BY DEF SoulsInOrder
<1> DEFINE H == {p \in Made("hire") : Job[p].agent = a}
           U == {p \in Made("update") : Job[p].agent = a}
           S == DescribersOf(a)
<1>1. /\ Advance(q) /\ StaffAction(q) /\ RequestTypeOK /\ pc \in [Requests -> Phases] /\ StaffTypeOK
      /\ S \in SUBSET Requests /\ S = H \cup U /\ \A p \in H : p \notin U
  BY StepByComponent DEF Discipline, TypeOK, RequestTypeOK, DescribersOf, Made
<1>2. SUFFICES ASSUME ~Overlap(S)'
               PROVE  /\ \A p \in H : pc'[p] \in Holding => a \notin hired'
                      /\ \A p \in S : pc'[p] = "acted" => soul'[a] = p
                      /\ a \in hired' => \/ soul'[a] = role'[a]
                                         \/ \E p \in U : pc'[p] \in {"acted", "failed"} /\ soul'[a] = p
  BY DEF SoulInOrder, DescribedAhead, Ahead, DescribersOf, Made
<1>3. ~Overlap(S)
  BY <1>1, <1>2, HistoryGrows
<1>4. /\ \A p \in H : pc[p] \in Holding => a \notin hired
      /\ \A p \in S : pc[p] = "acted" => soul[a] = p
      /\ a \in hired => \/ soul[a] = role[a]
                        \/ \E p \in U : pc[p] \in {"acted", "failed"} /\ soul[a] = p
  BY <1>3 DEF SoulsInOrder, SoulInOrder, DescribedAhead, Ahead
<1>5. ASSUME NEW p \in S, pc[p] \in Holding, q \in S, pc[q] \in Holding
      PROVE  p = q
  BY <1>1, <1>3, <1>5, AloneUnderWay DEF Discipline, Holding, UnderWay
<1>6. \A p \in S : p # q => pc'[p] = pc[p]
  BY <1>1, OthersStay
<1>7. CASE HireProvisions(q) /\ q \in H
  <2>1. /\ pc[q] = "read" /\ pc'[q] = "acted" /\ UNCHANGED <<hired, role>>
        /\ soul' = [soul EXCEPT ![a] = q]
    BY <1>1, <1>7 DEF HireProvisions, Acts
  <2>2. \A p \in S : pc'[p] \in Holding => p = q
    BY <1>1, <1>5, <1>6, <1>7, <2>1 DEF Holding
  <2>3. a \notin hired
    BY <1>4, <1>7, <2>1 DEF Holding
  <2> QED BY <1>1, <2>1, <2>2, <2>3 DEF Holding, StaffTypeOK
<1>8. CASE (HireWrites(q) \/ UpdateWrites(q)) /\ q \in S
  <2>1. /\ pc[q] = "acted" /\ pc'[q] = "done" /\ UNCHANGED soul
        /\ role' = [role EXCEPT ![a] = q]
    BY <1>1, <1>8 DEF HireWrites, UpdateWrites, Commits
  <2>2. \A p \in S : pc'[p] \notin Holding
    BY <1>5, <1>6, <1>8, <2>1 DEF Holding
  <2>3. soul'[a] = role'[a]
    BY <1>1, <1>4, <1>8, <2>1 DEF StaffTypeOK
  <2> QED BY <1>1, <2>2, <2>3 DEF Holding
<1>9. CASE UpdateDescribes(q) /\ q \in U
  <2>1. /\ pc[q] = "read" /\ pc'[q] = "acted" /\ UNCHANGED <<hired, role>>
        /\ soul' = [soul EXCEPT ![a] = q]
    BY <1>1, <1>9 DEF UpdateDescribes, Acts
  <2>2. \A p \in S : pc'[p] \in Holding => p = q
    BY <1>1, <1>5, <1>6, <1>9, <2>1 DEF Holding
  <2> QED BY <1>1, <1>9, <2>1, <2>2 DEF Holding, StaffTypeOK
<1>10. CASE ~(HireProvisions(q) /\ q \in H) /\ ~((HireWrites(q) \/ UpdateWrites(q)) /\ q \in S)
            /\ ~(UpdateDescribes(q) /\ q \in U)
  <2>1. soul'[a] = soul[a] /\ role'[a] = role[a] /\ (a \in hired' <=> a \in hired)
    BY <1>1, <1>10 DEF StaffAction, HireReads, HireProvisions, HireWrites, UpdateReads, UpdateDescribes,
       UpdateWrites, RetireReads, RetireWrites, RenameReads, InviteReads, CardReads, ResolveReads,
       StopReads, staffVars, StaffTypeOK, Made
  <2>2. ASSUME NEW p \in H, pc'[p] \in Holding
        PROVE  a \notin hired
    <3>1. CASE pc[p] \in Holding
      BY <1>4, <2>2, <3>1
    <3>2. CASE pc[p] \notin Holding
      <4>1. p = q
        BY <1>1, <1>6, <2>2, <3>2
      <4> QED BY <1>1, <1>10, <2>2, <3>2, <4>1, StepByOperation DEF Made, Call, Fail, HireReads,
              HireProvisions, HireWrites, Acts, Commits, Holding
    <3> QED BY <3>1, <3>2
  <2>3. ASSUME NEW p \in S, pc'[p] = "acted"
        PROVE  pc[p] = "acted"
    <3>1. SUFFICES ASSUME p = q, pc[q] # "acted" PROVE FALSE
      BY <1>6, <2>3
    <3> QED BY <1>1, <1>10, <2>3, <3>1, StepByOperation DEF Made, Call, Fail, HireReads, UpdateReads, Reads
  <2>4. ASSUME NEW p \in U, pc[p] \in {"acted", "failed"}
        PROVE  pc'[p] \in {"acted", "failed"}
    <3>1. SUFFICES ASSUME p = q PROVE pc'[p] = "failed"
      BY <1>1, <1>6, <2>4
    <3>2. Fail(q)
      BY <1>1, <1>10, <2>4, <3>1, StepByOperation, OverIsOver DEF Made, Call, UpdateReads, Reads
    <3> QED BY <1>1, <3>1, <3>2 DEF Fail
  <2> QED BY <1>4, <2>1, <2>2, <2>3, <2>4
<1> QED BY <1>7, <1>8, <1>9, <1>10

-----------------------------------------------------------------------------
\* The demonstrations.

\* What is being stopped is still recording, and what has been verified stays so.
DemoInOrder(d) ==
    \/ Overlap(StopsOf(d))
    \/ /\ \A q \in StopsOf(d) : pc[q] \in Holding => phase[d] = "recording"
       /\ \A q \in Made("verify") : Job[q].demo = d /\ pc[q] = "done" => phase[d] = "verified"

DemosInOrder == \A d \in Demos : DemoInOrder(d)

LEMMA StepKeepsDemos ==
    ASSUME Discipline, Backing, DemosInOrder, NEW q \in Requests, RequestsStep(q)
    PROVE  DemosInOrder'
<1> SUFFICES ASSUME NEW d \in Demos PROVE DemoInOrder(d)'
  BY DEF DemosInOrder, Demos, Made
<1> DEFINE S == StopsOf(d)
           V == {p \in Made("verify") : Job[p].demo = d}
<1>1. /\ Advance(q) /\ DemoAction(q) /\ RequestTypeOK /\ pc \in [Requests -> Phases] /\ DemoTypeOK
      /\ S \in SUBSET Requests /\ V \in SUBSET Requests
  BY StepByComponent DEF Discipline, TypeOK, RequestTypeOK, StopsOf, Made
<1>2. SUFFICES ASSUME ~Overlap(S)'
               PROVE  /\ \A p \in S : pc'[p] \in Holding => phase'[d] = "recording"
                      /\ \A p \in V : pc'[p] = "done" => phase'[d] = "verified"
  BY DEF DemoInOrder, StopsOf, Made
<1>3. ~Overlap(S)
  BY <1>1, <1>2, HistoryGrows
<1>4. /\ \A p \in S : pc[p] \in Holding => phase[d] = "recording"
      /\ \A p \in V : pc[p] = "done" => phase[d] = "verified"
  BY <1>3 DEF DemosInOrder, DemoInOrder
<1>5. ASSUME NEW p \in S, pc[p] \in Holding, q \in S, pc[q] \in Holding
      PROVE  p = q
  BY <1>1, <1>3, <1>5, AloneUnderWay DEF Discipline, Holding, UnderWay
<1>6. \A p \in S \cup V : p # q => pc'[p] = pc[p]
  BY <1>1, OthersStay
<1>7. CASE StopWrites(q) /\ q \in S
  <2>1. /\ pc[q] = "acted" /\ pc'[q] = "done"
        /\ phase' = [phase EXCEPT ![d] = "learning"]
    BY <1>1, <1>7 DEF StopWrites, Commits, StopsOf
  <2>2. \A p \in S : pc'[p] \notin Holding
    BY <1>5, <1>6, <1>7, <2>1 DEF Holding
  <2>3. phase[d] = "recording" /\ q \notin V
    BY <1>4, <1>7, <2>1 DEF Holding, StopsOf, Made
  <2> QED BY <1>4, <1>6, <2>1, <2>2, <2>3
<1>8. CASE VerifyWrites(q) /\ q \in V
  <2>1. /\ q \notin S /\ pc[q] = "read" /\ pc'[q] = "done"
        /\ phase' = [phase EXCEPT ![d] = "verified"]
    BY <1>1, <1>8 DEF VerifyWrites, Commits, StopsOf, Made
  <2>2. phase[d] # "recording"
    BY <1>8, <2>1 DEF Backing, WorkIsBacked, Made
  <2> QED BY <1>1, <1>4, <1>6, <2>1, <2>2 DEF DemoTypeOK
<1>9. CASE ~(StopWrites(q) /\ q \in S) /\ ~(VerifyWrites(q) /\ q \in V)
  <2>1. phase[d] # "none" => phase'[d] = phase[d]
    <3>1. CASE StartCommits(q)
      <4>1. phase[q] = "none"
        BY <3>1 DEF StartCommits, Commits, Backing, WorkIsBacked
      <4> QED BY <1>1, <3>1, <4>1 DEF StartCommits, DemoTypeOK
    <3> QED BY <1>1, <1>9, <3>1 DEF DemoAction, StartRecords, StopEnds, StopWrites, VerifyWrites,
            StopsOf, Made, demoVars, DemoTypeOK
  <2>2. ASSUME NEW p \in S, pc'[p] \in Holding
        PROVE  phase[d] = "recording"
    <3>1. CASE pc[p] \in Holding
      BY <1>4, <3>1
    <3>2. CASE pc[p] \notin Holding
      <4>1. p = q
        BY <1>6, <2>2, <3>2
      <4> QED BY <1>1, <1>9, <2>2, <3>2, <4>1, StepByOperation DEF StopsOf, Made, Call, Fail,
              StopReads, StopEnds, Acts, Holding
    <3> QED BY <3>1, <3>2
  <2>3. ASSUME NEW p \in V, pc'[p] = "done"
        PROVE  phase[d] = "verified"
    <3>1. CASE p # q
      BY <1>4, <1>6, <2>3, <3>1
    <3>2. CASE p = q
      BY <1>1, <1>9, <2>3, <3>2, StepByOperation DEF Made, Call, Fail, VerifyReads, Reads
    <3> QED BY <3>1, <3>2
  <2> QED BY <2>1, <2>2, <2>3
<1> QED BY <1>7, <1>8, <1>9

-----------------------------------------------------------------------------
\* The outcomes.

Agreeing ==
    /\ Discipline /\ Backing
    /\ AnswersInOrder /\ CardsInOrder /\ SoulsInOrder /\ DemosInOrder

LEMMA NothingKeepsOutcomes ==
    ASSUME Agreeing, UNCHANGED <<requestVars, staffVars, taskVars, demoVars>>
    PROVE  CardsInOrder' /\ SoulsInOrder' /\ DemosInOrder'
<1>1. UNCHANGED <<pc, overlapped, hired, role, soul, card, ref, prev, phase>>
  BY DEF requestVars, staffVars, taskVars, demoVars
<1>2. \A S \in SUBSET Requests : Overlap(S)' = Overlap(S)
  BY <1>1 DEF Overlap
<1>3. CardsInOrder'
  BY <1>1, <1>2 DEF Agreeing, CardsInOrder, CardInOrder, MovedAhead, Ahead, MovesOf, Made
<1>4. SoulsInOrder'
  BY <1>1, <1>2 DEF Agreeing, SoulsInOrder, SoulInOrder, DescribedAhead, Ahead, DescribersOf, Made
<1>5. DemosInOrder'
  BY <1>1, <1>2 DEF Agreeing, DemosInOrder, DemoInOrder, StopsOf, Demos, Made
<1> QED BY <1>3, <1>4, <1>5

LEMMA StepKeepsOutcomes ==
    ASSUME Limited, Agreeing, [Next]_vars
    PROVE  Agreeing'
<1>1. Discipline' /\ Backing'
  BY StepKeepsLimits DEF Limited
<1>2. ASSUME NEW q \in Requests, RequestsStep(q)
      PROVE  Agreeing'
  BY <1>1, <1>2, StepKeepsAnswers, StepKeepsCards, StepKeepsSouls, StepKeepsDemos DEF Agreeing
<1>3. CASE AnswerStep
  <2>1. UNCHANGED <<requestVars, staffVars, taskVars, demoVars>>
    BY <1>3 DEF AnswerStep
  <2> QED BY <1>1, <1>3, <2>1, NothingKeepsOutcomes, HearingKeepsAnswers DEF Agreeing
<1>4. CASE UNCHANGED vars
  <2>1. UNCHANGED <<requestVars, staffVars, taskVars, demoVars, humanVars>>
    BY <1>4 DEF vars
  <2>2. AnswersInOrder'
    BY <2>1 DEF Agreeing, AnswersInOrder, AnswerInOrder, AnswersTo, AnswerIsTold, Told, Overlap,
       requestVars, humanVars, Asks, Made
  <2> QED BY <1>1, <2>1, <2>2, NothingKeepsOutcomes DEF Agreeing
<1>5. InPlay \subseteq Requests
  BY RequestAssumption DEF InPlay, UnderWay, Startable
<1> QED BY <1>2, <1>3, <1>4, <1>5 DEF Next, RequestsStep

LEMMA InitOutcomes == Init => AnswersInOrder /\ CardsInOrder /\ SoulsInOrder /\ DemosInOrder
<1> SUFFICES ASSUME Init PROVE AnswersInOrder /\ CardsInOrder /\ SoulsInOrder /\ DemosInOrder
  OBVIOUS
<1>1. \A q \in Requests : pc[q] = "new" /\ ref[q] = "none"
  BY DEF Init, RequestInit, TaskInit
<1>2. \A r \in Asks : AnswerIsTold(r)
  BY DEF Init, HumanRequestInit, AnswerIsTold, Told
<1>3. \A a \in hired : soul[a] = role[a]
  BY StaffAssumption DEF Init, StaffInit
<1>4. AnswersInOrder
  BY <1>1, <1>2 DEF AnswersInOrder, AnswerInOrder, AnswersTo, Made, Holding
<1>5. CardsInOrder
  BY <1>1 DEF CardsInOrder, CardInOrder, MovesOf, Made, Holding
<1>6. SoulsInOrder
  BY <1>1, <1>3 DEF SoulsInOrder, SoulInOrder, DescribersOf, Made, Holding
<1>7. DemosInOrder
  BY <1>1 DEF DemosInOrder, DemoInOrder, StopsOf, Made, Holding
<1> QED BY <1>4, <1>5, <1>6, <1>7

LEMMA AgreeingIsEnough == Agreeing => OutcomesAgree
<1> SUFFICES ASSUME Agreeing PROVE OutcomesAgree
  OBVIOUS
<1>1. \A r \in Asks : AnswerIsTold(r) \/ Overlap(AnswersTo(r))
  BY DEF Agreeing, AnswersInOrder, AnswerInOrder
<1>2. \A t \in Requests : ref[t] \in {"none", card[t]} \/ MovedAhead(t) \/ Overlap(MovesOf(t))
  BY DEF Agreeing, CardsInOrder, CardInOrder
<1>3. \A a \in hired : soul[a] = role[a] \/ DescribedAhead(a) \/ Overlap(DescribersOf(a))
  <2>1. hired \subseteq Agents
    BY DEF Agreeing, Discipline, TypeOK, StaffTypeOK
  <2> QED BY <2>1 DEF Agreeing, SoulsInOrder, SoulInOrder
<1>4. \A q \in Made("verify") :
        pc[q] = "done" => phase[Job[q].demo] = "verified" \/ Overlap(StopsOf(Job[q].demo))
  <2>1. \A q \in Made("verify") : Job[q].demo \in Demos
    BY DemoAssumption
  <2> QED BY <2>1 DEF Agreeing, DemosInOrder, DemoInOrder
<1> QED BY <1>1, <1>2, <1>3, <1>4 DEF OutcomesAgree

\* The two sides agree, item by item, unless requests about that very item have met: the
\* answer of a row is the one the teammate is told, and the one in the file of secrets
\* (resolve_human_request); the status of a task is that of its card, or the card is where
\* a move has put it that has not committed, or failed to (update_task); the description
\* of a teammate is the one in SOUL.md, or SOUL.md has that of an update that has not
\* committed, or failed to (hire_agent, update_agent); what has been verified stays so
\* (verify_demonstration).
THEOREM Outcomes == Spec => []OutcomesAgree
<1>1. Init => Limited /\ Agreeing
  BY InitDiscipline, InitIsBacked, InitTeamAndBudget, InitRooms, InitRecorder, InitOutcomes
  DEF Limited, Agreeing
<1>2. Limited /\ Agreeing /\ [Next]_vars => (Limited /\ Agreeing)'
  BY StepKeepsLimits, StepKeepsOutcomes
<1>3. Agreeing => OutcomesAgree
  BY AgreeingIsEnough
<1> QED BY <1>1, <1>2, <1>3, PTL DEF Spec
=============================================================================
