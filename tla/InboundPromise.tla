---------------------------- MODULE InboundPromise ----------------------------
(***************************************************************************)
(* What the inbound portal promises the person who writes, without polls,  *)
(* listeners, offsets or receipts: the texts are dealt with in the order   *)
(* they were written, one becomes a message at most once and not before    *)
(* those written earlier are dealt with, and as long as the portal is      *)
(* configured for its chat alone no text is dealt with unless its message  *)
(* is there.                                                               *)
(***************************************************************************)
EXTENDS Naturals

CONSTANTS Texts, From, Commands, Chats

VARIABLES
    reached,   \* the texts that reached the portal's bot
    dealt,     \* the texts that are dealt with
    messages,  \* how many messages each text became
    chats      \* the chats the portal has been configured for

vars == <<reached, dealt, messages, chats>>

Init ==
    /\ reached = {}
    /\ dealt = {}
    /\ messages = [u \in Texts |-> 0]
    /\ chats = {}

Before(u) == {v \in Texts : v < u}

Owed(u) == u \notin Commands /\ chats \subseteq {From[u]}

Reach(u) ==
    /\ Before(u) \subseteq reached
    /\ reached' = reached \cup {u}
    /\ UNCHANGED <<dealt, messages, chats>>

Configure(c) ==
    /\ chats' = chats \cup {c}
    /\ UNCHANGED <<reached, dealt, messages>>

\* The text becomes a message, and may be dealt with by that.
Deliver(u) ==
    /\ u \in reached \ Commands
    /\ Before(u) \subseteq dealt
    /\ messages[u] = 0
    /\ messages' = [messages EXCEPT ![u] = 1]
    /\ dealt' \in {dealt, dealt \cup {u}}
    /\ UNCHANGED <<reached, chats>>

\* The text is dealt with: as a message it has become, or it is not for the team.
Settle(u) ==
    /\ u \in reached
    /\ Before(u) \subseteq dealt
    /\ Owed(u) => messages[u] = 1
    /\ dealt' = dealt \cup {u}
    /\ UNCHANGED <<reached, messages, chats>>

Next ==
    \/ \E u \in Texts : Reach(u) \/ Deliver(u) \/ Settle(u)
    \/ \E c \in Chats : Configure(c)

Spec == Init /\ [][Next]_vars
=============================================================================
