-------------------------------- MODULE Rooms --------------------------------
(***************************************************************************)
(* Conversations of app/services/team.py: DMs, group chats and channels,   *)
(* and who is in them.  A row that a request makes is named by it.         *)
(***************************************************************************)
EXTENDS Staff

CONSTANTS
    OldRooms,   \* the rooms there are in the beginning
    FirstRoom,  \* type, title and members of each
    Names,      \* titles of channels
    General,    \* the title "general"
    MaxGroup    \* max_group_participants

People == Agents \cup {You}
Rooms == Requests \cup OldRooms

ASSUME RoomAssumption ==
    /\ OldRooms \cap Requests = {}
    /\ Nobody \notin Names
    /\ General \in Names
    /\ \A r \in OldRooms : FirstRoom[r].kind \in {"dm", "group", "channel"}
                           /\ FirstRoom[r].title \in Names \cup {Nobody}
                           /\ FirstRoom[r].members \subseteq People
    /\ \A q \in Made("dm") \cup Made("group") : Job[q].members \subseteq People
    /\ \A q \in Made("channel") : Job[q].title \in Names /\ Job[q].members \subseteq People
    /\ \A q \in Made("rename") :
         Job[q].room \in Rooms /\ Job[q].title \in Names /\ Job[q].owners \subseteq Agents
    /\ \A q \in Made("join") :
         Job[q].room \in Rooms /\ Job[q].title \in Names /\ Job[q].person \in People
    /\ \A q \in Made("invite") : Job[q].room \in Rooms /\ Job[q].person \in Agents
    /\ \A q \in Made("archive") : Job[q].room \in Rooms
    /\ MaxGroup \in Nat

IsPair(M) == \E a, b \in M : a # b /\ M = {a, b}

\* In the beginning the limits hold, and get_or_create_dm wants two participants.
ASSUME FirstRoomsAssumption ==
    /\ \A r \in OldRooms : FirstRoom[r].kind = "dm" => \E a, b \in FirstRoom[r].members : a # b
    /\ \A r \in OldRooms :
         FirstRoom[r].kind = "group" =>
           IsFiniteSet(FirstRoom[r].members) /\ Cardinality(FirstRoom[r].members) <= MaxGroup
    /\ \A r, s \in OldRooms :
         FirstRoom[r].kind = "dm" /\ FirstRoom[s].kind = "dm" /\ IsPair(FirstRoom[r].members)
           /\ FirstRoom[r].members = FirstRoom[s].members => r = s
    /\ \A r, s \in OldRooms :
         FirstRoom[r].kind = "channel" /\ FirstRoom[s].kind = "channel"
           /\ FirstRoom[r].title = FirstRoom[s].title => r = s
    /\ \A q \in Made("dm") : IsPair(Job[q].members)
    /\ \A q \in Made("group") : IsFiniteSet(Job[q].members)

VARIABLES
    kind,     \* type, or "none" while there is no row
    title,
    open,     \* the rooms with lifecycle "open"
    members

roomVars == <<kind, title, open, members>>

RoomInit ==
    /\ kind = [r \in Rooms |-> IF r \in OldRooms THEN FirstRoom[r].kind ELSE "none"]
    /\ title = [r \in Rooms |-> IF r \in OldRooms THEN FirstRoom[r].title ELSE Nobody]
    /\ open = OldRooms
    /\ members = [r \in Rooms |-> IF r \in OldRooms THEN FirstRoom[r].members ELSE {}]

InsertRoom(r, k, t, M) ==
    /\ kind' = [kind EXCEPT ![r] = k]
    /\ title' = [title EXCEPT ![r] = t]
    /\ open' = open \cup {r}
    /\ members' = [members EXCEPT ![r] = M]

Dms(pair) == {r \in open : kind[r] = "dm" /\ members[r] = pair}
Named(t) == {r \in Rooms : kind[r] = "channel" /\ title[r] = t}

-----------------------------------------------------------------------------
\* get_or_create_dm.
DmReads(q) ==
    /\ Job[q].op = "dm"
    /\ Dms(Job[q].members) = {}
    /\ Reads(q)
    /\ UNCHANGED roomVars

DmWrites(q) ==
    /\ Job[q].op = "dm"
    /\ Commits(q, "read")
    /\ InsertRoom(q, "dm", Nobody, Job[q].members)

\* get_or_create_dm in a transaction that writes already.
EnsureDm(r, pair) ==
    IF Dms(pair) = {} THEN InsertRoom(r, "dm", Nobody, pair) ELSE UNCHANGED roomVars

MakeGroup(q) ==
    /\ Job[q].op = "group"
    /\ Cardinality(Job[q].members) \in 2 .. MaxGroup
    /\ Once(q)
    /\ InsertRoom(q, "group", Nobody, Job[q].members)

\* Only the open channels of that name are in the way.
ChannelReads(q) ==
    /\ Job[q].op = "channel"
    /\ Named(Job[q].title) \cap open = {}
    /\ Reads(q)
    /\ UNCHANGED roomVars

ChannelWrites(q) ==
    /\ Job[q].op = "channel"
    /\ Commits(q, "read")
    /\ InsertRoom(q, "channel", Job[q].title, Job[q].members)

\* update_channel, by id: all channels of that name are in the way.  The owners that
\* are not in the channel join it.
RenameReads(q) ==
    /\ Job[q].op = "rename"
    /\ kind[Job[q].room] = "channel" /\ Job[q].room \in open
    /\ title[Job[q].room] = General => Job[q].title = General
    /\ Named(Job[q].title) \ {Job[q].room} = {}
    /\ Job[q].owners \subseteq hired /\ Job[q].owners # {}
    /\ Reads(q)
    /\ saw' = [saw EXCEPT ![q] = Job[q].owners \ members[Job[q].room]]
    /\ UNCHANGED roomVars
    /\ UNCHANGED <<hired, retired, boss, role, profiles, soul>>

\* As in invite, the unique constraint refuses a second row for a pair.
RenameWrites(q) ==
    /\ Job[q].op = "rename"
    /\ saw[q] \cap members[Job[q].room] = {}
    /\ Commits(q, "read")
    /\ title' = [title EXCEPT ![Job[q].room] = Job[q].title]
    /\ members' = [members EXCEPT ![Job[q].room] = @ \cup saw[q]]
    /\ UNCHANGED <<kind, open>>
    /\ UNCHANGED staffVars

\* join_channel by name: _channel looks at all channels of that name, raises if
\* there are two, and then wants the one it has found to be open.
JoinReads(q) ==
    /\ Job[q].op = "join"
    /\ Named(Job[q].title) = {Job[q].room}
    /\ Job[q].room \in open
    /\ Job[q].person \notin members[Job[q].room]
    /\ Reads(q)
    /\ UNCHANGED roomVars

JoinWrites(q) ==
    /\ Job[q].op = "join"
    /\ Job[q].person \notin members[Job[q].room]
    /\ Commits(q, "read")
    /\ members' = [members EXCEPT ![Job[q].room] = @ \cup {Job[q].person}]
    /\ UNCHANGED <<kind, title, open>>

HasPlace(r) == kind[r] = "group" => Cardinality(members[r]) < MaxGroup

InviteReads(q) ==
    /\ Job[q].op = "invite"
    /\ kind[Job[q].room] # "none"
    /\ Job[q].person \in hired \ members[Job[q].room]
    /\ HasPlace(Job[q].room)
    /\ Reads(q)
    /\ saw' = [saw EXCEPT ![q] = retired]
    /\ UNCHANGED roomVars
    /\ UNCHANGED <<hired, retired, boss, role, profiles, soul>>

\* A second row for the pair meets the unique constraint, and the wake of an
\* invitation to a group is refused for a teammate that is retired.
InviteWrites(q) ==
    /\ Job[q].op = "invite"
    /\ Job[q].person \notin members[Job[q].room]
    /\ kind[Job[q].room] = "group" => Job[q].person \notin saw[q]
    /\ Commits(q, "read")
    /\ members' = [members EXCEPT ![Job[q].room] = @ \cup {Job[q].person}]
    /\ UNCHANGED <<kind, title, open>>
    /\ UNCHANGED staffVars

\* A handoff tool that finds what it is asked for is counted all the same.
FindsIt(q) ==
    /\ Handoff(q)
    /\ \/ q \in Made("dm") /\ Dms(Job[q].members) # {}
       \/ Job[q].op = "invite" /\ Job[q].person \in members[Job[q].room]
    /\ Once(q)
    /\ UNCHANGED roomVars

\* resolve_room: anybody, any room.
ArchiveRoom(q) ==
    /\ Job[q].op = "archive"
    /\ kind[Job[q].room] # "none"
    /\ Once(q)
    /\ open' = open \ {Job[q].room}
    /\ UNCHANGED <<kind, title, members>>

\* _join_general raises if there are two rooms of that name, and does nothing if
\* there is none.
JoinGeneral(a) ==
    /\ Cardinality(Named(General)) <= 1
    /\ members' = [r \in Rooms |-> IF r \in Named(General) THEN members[r] \cup {a}
                                   ELSE members[r]]
    /\ UNCHANGED <<kind, title, open>>

-----------------------------------------------------------------------------
RoomTypeOK ==
    /\ kind \in [Rooms -> {"none", "dm", "group", "channel"}]
    /\ title \in [Rooms -> Names \cup {Nobody}]
    /\ open \subseteq Rooms
    /\ members \in [Rooms -> SUBSET People]
=============================================================================
