------------------------------- MODULE Inbound -------------------------------
(***************************************************************************)
(* Texts of the human coming in: TelegramPortal.listen and _take in        *)
(* app/services/portal.py, the callback on_portal_text of app/main.py and  *)
(* accept_human_text of app/services/inbox.py.  A listener polls the bot's *)
(* updates, works through a batch one by one, and retries an update until  *)
(* the callback returns; only then does its offset move past it, and the   *)
(* next poll confirms it to Telegram.  The callback stores the message and *)
(* a receipt of the update in one transaction.                             *)
(*                                                                         *)
(* Listeners come and go: the process restarts, settings replace the       *)
(* adapter, and replacements that overlap leave the listener of a bot      *)
(* behind (see ManagedPortal), so several may read the same updates.       *)
(***************************************************************************)
EXTENDS Naturals

CONSTANTS
    Updates,      \* update_ids of texts a person writes to the bot
    From,         \* the chat of each update
    Commands,     \* the updates whose text is /start
    Chats,
    NoChat,       \* an adapter not bound to a chat yet
    Listeners,    \* listener tasks
    NoUpdate,     \* a listener outside the callback
    MaxFaults,    \* bound: failing replies and transactions
    MaxStarts     \* bound: listeners started

ASSUME ConstantsAssumption ==
    /\ Updates \subseteq Nat \ {0}
    /\ From \in [Updates -> Chats]
    /\ Commands \subseteq Updates
    /\ NoChat \notin Chats
    /\ NoUpdate \notin Updates
    /\ MaxFaults \in Nat
    /\ MaxStarts \in Nat

VARIABLES
    sent,        \* the updates that reached Telegram
    confirmed,   \* Telegram has forgotten the updates below this id
    running,     \* which listeners run
    chat,        \* chat_id of each listener's adapter
    offset,      \* offset of each listener
    todo,        \* the rest of each listener's batch
    writing,     \* the update whose callback is inside its transaction
    receipts,    \* PortalReceipt rows
    posted,      \* how many messages each update became
    taken,       \* the updates some listener has moved past
    configured,  \* the chats adapters were started with
    faults,
    starts

telegram == <<sent, confirmed>>
listenerVars == <<running, chat, offset, todo, writing>>
database == <<receipts, posted>>
vars == <<sent, confirmed, running, chat, offset, todo, writing, receipts, posted,
          taken, configured, faults, starts>>

Init ==
    /\ sent = {}
    /\ confirmed = 0
    /\ running = [l \in Listeners |-> FALSE]
    /\ chat = [l \in Listeners |-> NoChat]
    /\ offset = [l \in Listeners |-> 0]
    /\ todo = [l \in Listeners |-> {}]
    /\ writing = [l \in Listeners |-> NoUpdate]
    /\ receipts = {}
    /\ posted = [u \in Updates |-> 0]
    /\ taken = {}
    /\ configured = {}
    /\ faults = 0
    /\ starts = 0

-----------------------------------------------------------------------------
\* Somebody writes to the bot.
Write(u) ==
    /\ u \notin sent
    /\ \A v \in Updates : v < u => v \in sent
    /\ sent' = sent \cup {u}
    /\ UNCHANGED <<confirmed, listenerVars, database, taken, faults,
                   configured, starts>>

\* Mutant: a new listener skips what was written before it started.
StartSkipping(l) ==
    /\ ~running[l]
    /\ starts < MaxStarts
    /\ starts' = starts + 1
    /\ running' = [running EXCEPT ![l] = TRUE]
    /\ \E c \in Chats \cup {NoChat} :
         /\ chat' = [chat EXCEPT ![l] = c]
         /\ configured' = configured \cup {c}
    /\ \E n \in {0} \cup {u + 1 : u \in sent} : offset' = [offset EXCEPT ![l] = n]
    /\ todo' = [todo EXCEPT ![l] = {}]
    /\ writing' = [writing EXCEPT ![l] = NoUpdate]
    /\ UNCHANGED <<telegram, database, taken, faults>>

\* A process starts, or settings start an adapter, with offset 0.
Start(l) ==
    /\ ~running[l]
    /\ starts < MaxStarts
    /\ starts' = starts + 1
    /\ running' = [running EXCEPT ![l] = TRUE]
    /\ \E c \in Chats \cup {NoChat} :
         /\ chat' = [chat EXCEPT ![l] = c]
         /\ configured' = configured \cup {c}
    /\ offset' = [offset EXCEPT ![l] = 0]
    /\ todo' = [todo EXCEPT ![l] = {}]
    /\ writing' = [writing EXCEPT ![l] = NoUpdate]
    /\ UNCHANGED <<telegram, database, taken, faults>>

\* The listener is cancelled, or the process stops: a transaction that has
\* not committed is rolled back.
Stop(l) ==
    /\ running[l]
    /\ running' = [running EXCEPT ![l] = FALSE]
    /\ todo' = [todo EXCEPT ![l] = {}]
    /\ writing' = [writing EXCEPT ![l] = NoUpdate]
    /\ UNCHANGED <<chat, offset, telegram, database, taken, faults, configured,
                   starts>>

-----------------------------------------------------------------------------
\* getUpdates forgets everything below the offset and returns the rest.
Poll(l) ==
    /\ running[l]
    /\ todo[l] = {}
    /\ confirmed' = IF offset[l] > confirmed THEN offset[l] ELSE confirmed
    /\ todo' = [todo EXCEPT ![l] = {u \in sent : u >= confirmed' /\ u >= offset[l]}]
    /\ UNCHANGED <<sent, running, chat, offset, writing, database, taken,
                   faults, configured, starts>>

\* Mutant: a batch is worked through in any order.
CurrentAny(l, u) ==
    /\ running[l]
    /\ u \in todo[l]
    /\ writing[l] = NoUpdate

\* The update a listener is working on.
Current(l, u) ==
    /\ running[l]
    /\ u \in todo[l]
    /\ \A v \in todo[l] : u <= v
    /\ writing[l] = NoUpdate

\* _take returned: the listener moves past the update.
MovePast(l, u) ==
    /\ todo' = [todo EXCEPT ![l] = @ \ {u}]
    /\ offset' = [offset EXCEPT ![l] = u + 1]
    /\ taken' = taken \cup {u}

\* The first text binds the adapter; if the reply fails, the update is
\* retried and finds the adapter bound.
Bind(l, u) ==
    /\ Current(l, u)
    /\ chat[l] = NoChat
    /\ chat' = [chat EXCEPT ![l] = From[u]]
    /\ \/ MovePast(l, u) /\ UNCHANGED faults
       \/ /\ faults < MaxFaults /\ faults' = faults + 1
          /\ UNCHANGED <<todo, offset, taken>>
    /\ UNCHANGED <<telegram, running, writing, database, configured, starts>>

\* Mutant: a text of another chat is not moved past.
IgnoreStuck(l, u) ==
    /\ Current(l, u)
    /\ chat[l] \notin {NoChat, From[u]}
    /\ UNCHANGED vars

\* A text of another chat.
Ignore(l, u) ==
    /\ Current(l, u)
    /\ chat[l] \notin {NoChat, From[u]}
    /\ MovePast(l, u)
    /\ UNCHANGED <<telegram, running, chat, writing, database, faults,
                   configured, starts>>

\* /start is answered; a reply that fails is retried.
AnswerStart(l, u) ==
    /\ Current(l, u)
    /\ chat[l] = From[u] /\ u \in Commands
    /\ MovePast(l, u)
    /\ UNCHANGED <<telegram, running, chat, writing, database, faults,
                   configured, starts>>

-----------------------------------------------------------------------------
\* The callback: a receipt means the message is there.
IsText(l, u) == Current(l, u) /\ chat[l] = From[u] /\ u \notin Commands

FindReceipt(l, u) ==
    /\ IsText(l, u)
    /\ u \in receipts
    /\ MovePast(l, u)
    /\ UNCHANGED <<telegram, running, chat, writing, database, faults,
                   configured, starts>>

BeginPost(l, u) ==
    /\ IsText(l, u)
    /\ u \notin receipts
    /\ writing' = [writing EXCEPT ![l] = u]
    /\ UNCHANGED <<telegram, running, chat, offset, todo, database, taken,
                   faults, configured, starts>>

\* Message and receipt are committed together.  The commit may still be
\* reported as failed, and the update is retried.
CommitPost(l, u) ==
    /\ writing[l] = u
    /\ u \notin receipts
    /\ receipts' = receipts \cup {u}
    /\ posted' = [posted EXCEPT ![u] = @ + 1]
    /\ writing' = [writing EXCEPT ![l] = NoUpdate]
    /\ \/ MovePast(l, u) /\ UNCHANGED faults
       \/ /\ faults < MaxFaults /\ faults' = faults + 1
          /\ UNCHANGED <<todo, offset, taken>>
    /\ UNCHANGED <<telegram, running, chat, configured, starts>>

\* Mutant: a failing update is skipped.
SkipPost(l, u) ==
    /\ writing[l] = u
    /\ \/ u \in receipts /\ UNCHANGED faults
       \/ faults < MaxFaults /\ faults' = faults + 1
    /\ MovePast(l, u)
    /\ writing' = [writing EXCEPT ![l] = NoUpdate]
    /\ UNCHANGED <<telegram, running, chat, database, configured, starts>>

\* The receipt's primary key, or any other error, rolls the transaction back.
FailPost(l, u) ==
    /\ writing[l] = u
    /\ \/ u \in receipts /\ UNCHANGED faults
       \/ faults < MaxFaults /\ faults' = faults + 1
    /\ writing' = [writing EXCEPT ![l] = NoUpdate]
    /\ UNCHANGED <<telegram, running, chat, offset, todo, database, taken,
                   configured, starts>>

Take(l) ==
    \E u \in Updates :
        \/ Bind(l, u)
        \/ Ignore(l, u)
        \/ AnswerStart(l, u)
        \/ FindReceipt(l, u)
        \/ BeginPost(l, u)
        \/ CommitPost(l, u)
        \/ FailPost(l, u)

Next ==
    \/ \E u \in Updates : Write(u)
    \/ \E l \in Listeners : Start(l) \/ Stop(l) \/ Poll(l) \/ Take(l)

Spec == Init /\ [][Next]_vars

\* A listener keeps polling and retrying as long as it runs.
FairSpec == Spec /\ \A l \in Listeners : WF_vars(Poll(l) \/ Take(l))

-----------------------------------------------------------------------------
TypeOK ==
    /\ sent \subseteq Updates
    /\ confirmed \in Nat
    /\ running \in [Listeners -> BOOLEAN]
    /\ chat \in [Listeners -> Chats \cup {NoChat}]
    /\ offset \in [Listeners -> Nat]
    /\ todo \in [Listeners -> SUBSET Updates]
    /\ writing \in [Listeners -> Updates \cup {NoUpdate}]
    /\ receipts \subseteq Updates
    /\ posted \in [Updates -> Nat]
    /\ taken \subseteq Updates
    /\ configured \subseteq Chats \cup {NoChat}
    /\ faults \in 0 .. MaxFaults
    /\ starts \in 0 .. MaxStarts

\* A text never becomes two messages, whatever is retried, restarted or read
\* by two listeners at once, and even when a commit that worked is reported
\* as failed (the receipt of accept_human_text).
AtMostOnce == \A u \in Updates : posted[u] <= 1

\* Telegram is told to forget an update only after a listener has moved past
\* it, and no listener moves past an update before the ones before it were
\* dealt with.
ConfirmedIsTaken == \A u \in Updates : u < confirmed => u \in taken
TakenInOrder == \A u \in taken : \A v \in Updates : v < u => v \in taken
NothingIsSkipped == ConfirmedIsTaken /\ TakenInOrder

\* As long as every adapter was started bound to the chat of a text, that text
\* is one message once a listener has moved past it; and no text is ever two.
BoundTextsArrive ==
    \A u \in taken \ Commands : configured \subseteq {From[u]} => posted[u] = 1
ExactlyOnce == AtMostOnce /\ BoundTextsArrive

\* The portal keeps InboundPromise, however many listeners poll, retry, stop and come
\* back: no message overtakes a text written earlier that has not been dealt with.
Promise ==
    INSTANCE InboundPromise WITH
        Texts <- Updates,
        Chats <- Chats \cup {NoChat},
        reached <- sent,
        dealt <- taken,
        messages <- posted,
        chats <- configured
KeepsPromise == Promise!Spec

\* Every text is dealt with if some listener runs for good.
EveryTextIsTaken ==
    \A u \in Updates :
        (\E l \in Listeners : <>[]running[l]) => [](u \in sent => <>(u \in taken))
=============================================================================
