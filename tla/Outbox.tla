------------------------------- MODULE Outbox -------------------------------
(***************************************************************************)
(* The portal outbox: app/services/outbox.py and the rows that             *)
(* TeamService._queue_portal writes for it.  A message of a teammate to    *)
(* the human is queued in the transaction that stores it, bound to the bot *)
(* (and, once known, the chat) it was written for.  One worker task claims *)
(* the oldest due row under a lease, commits, sends one part over the      *)
(* network outside any transaction, and records the outcome in a second    *)
(* one.  The process may stop between any two steps, the answer of a send  *)
(* may be lost, the second transaction may fail, and the human may replace *)
(* the adapter or bind it to a chat at any time.                           *)
(*                                                                         *)
(* Rows are numbered in the order of created_at.  Time is kept as what is  *)
(* left of next_attempt_at and of a send's timeout.                        *)
(***************************************************************************)
EXTENDS Naturals, FiniteSets

CONSTANTS
    Deliveries,       \* the rows that may be queued, in the order of created_at
    Parts,            \* how many parts the text of each row has
    Bots,             \* the delivery_keys of bots
    NoBot,            \* the NullPortal
    Chats,            \* the chats of the human
    NoChat,           \* recipient IS NULL, or an adapter not bound yet
    Lease,            \* the 60 seconds a claim postpones next_attempt_at
    SendTimeout,      \* the 12 seconds after which a send is given up
    Backoffs,         \* the delays a failed send may ask for
    Nobody,           \* the delivery of an idle worker
    MaxFaults,        \* bound: stops, lost writes and failed sends in a behaviour
    MaxReplacements   \* bound: how often the adapter is replaced

ASSUME ConstantsAssumption ==
    /\ Deliveries \subseteq Nat
    /\ Nobody \notin Deliveries
    /\ Parts \in [Deliveries -> Nat \ {0}]
    /\ NoBot \notin Bots
    /\ NoChat \notin Chats
    /\ SendTimeout \in Nat
    /\ Lease \in Nat
    /\ SendTimeout < Lease
    /\ Backoffs \subseteq Nat \ {0}
    /\ MaxFaults \in Nat
    /\ MaxReplacements \in Nat

VARIABLES
    status,        \* "absent", "flushed" (not committed), "dropped", "pending", "sent", "failed"
    key,           \* portal_key of each row
    recipient,     \* recipient of each row
    nextPart,      \* next_part of each row
    wait,          \* time left until next_attempt_at
    adapter,       \* the adapter of the ManagedPortal
    worker,        \* what _deliver_one is doing
    net,           \* the sends on the network
    arrived,       \* the last part of each row that arrived at the human
    places,        \* where parts of each row arrived
    faults,
    replacements

rowVars == <<status, key, recipient, nextPart, wait>>
vars == <<status, key, recipient, nextPart, wait, adapter, worker, net, arrived,
          places, faults, replacements>>

Adapters == [bot : Bots \cup {NoBot}, chat : Chats \cup {NoChat}]
Idle == [job |-> Nobody, part |-> 0, outcome |-> "none"]
Sends == [job : Deliveries, part : Nat, to : [bot : Bots, chat : Chats],
          landed : BOOLEAN, orphan : BOOLEAN, left : 0 .. SendTimeout]

Init ==
    /\ status = [d \in Deliveries |-> "absent"]
    /\ key = [d \in Deliveries |-> NoBot]
    /\ recipient = [d \in Deliveries |-> NoChat]
    /\ nextPart = [d \in Deliveries |-> 0]
    /\ wait = [d \in Deliveries |-> 0]
    /\ adapter \in {a \in Adapters : a.bot = NoBot => a.chat = NoChat}
    /\ worker = Idle
    /\ net = {}
    /\ arrived = [d \in Deliveries |-> 0]
    /\ places = [d \in Deliveries |-> {}]
    /\ faults = 0
    /\ replacements = 0

-----------------------------------------------------------------------------
\* The request that sends the message.

QueuePortal(d) ==
    /\ status[d] = "absent"
    /\ \A c \in Deliveries : c < d => status[c] # "absent"
    /\ adapter.bot # NoBot
    /\ status' = [status EXCEPT ![d] = "flushed"]
    /\ key' = [key EXCEPT ![d] = adapter.bot]
    /\ recipient' = [recipient EXCEPT ![d] = adapter.chat]
    /\ UNCHANGED <<nextPart, wait, adapter, worker, net, arrived, places, faults,
                   replacements>>

EndRequest(d) ==
    /\ status[d] = "flushed"
    /\ \E s \in {"pending", "dropped"} : status' = [status EXCEPT ![d] = s]
    /\ UNCHANGED <<key, recipient, nextPart, wait, adapter, worker, net, arrived,
                   places, faults, replacements>>

\* Settings replace the adapter; the listener binds an unbound one to the
\* first chat that writes to it.
Replace ==
    /\ replacements < MaxReplacements
    /\ \E a \in Adapters : (a.bot = NoBot => a.chat = NoChat) /\ adapter' = a
    /\ replacements' = replacements + 1
    /\ UNCHANGED <<rowVars, worker, net, arrived, places, faults>>

Bind ==
    /\ adapter.bot # NoBot
    /\ adapter.chat = NoChat
    /\ \E c \in Chats : adapter' = [adapter EXCEPT !.chat = c]
    /\ UNCHANGED <<rowVars, worker, net, arrived, places, faults, replacements>>

-----------------------------------------------------------------------------
\* The worker.

\* Mutant: any recipient of the same bot will do.
EligibleAnyChat ==
    {d \in Deliveries :
        status[d] = "pending" /\ key[d] = adapter.bot /\ wait[d] = 0}

\* Mutant: rows queued before the bot was bound are not matched.
EligibleBound ==
    {d \in Deliveries :
        status[d] = "pending" /\ key[d] = adapter.bot /\ wait[d] = 0
        /\ recipient[d] = adapter.chat}

Eligible ==
    {d \in Deliveries :
        /\ status[d] = "pending"
        /\ key[d] = adapter.bot
        /\ recipient[d] \in {NoChat, adapter.chat}
        /\ wait[d] = 0}

Oldest(S) == {d \in S : \A c \in S : d <= c}

\* Mutant: the claim leaves next_attempt_at alone.
ClaimUnleased ==
    /\ worker = Idle
    /\ adapter.bot # NoBot /\ adapter.chat # NoChat
    /\ \E d \in Oldest(Eligible) :
         /\ recipient' = [recipient EXCEPT ![d] = adapter.chat]
         /\ worker' = [job |-> d, part |-> nextPart[d], outcome |-> "waiting"]
         /\ net' = net \cup {[job |-> d, part |-> nextPart[d], to |-> adapter,
                              landed |-> FALSE, orphan |-> FALSE, left |-> SendTimeout]}
    /\ UNCHANGED <<status, key, nextPart, wait, adapter, arrived, places, faults,
                   replacements>>

\* The claim commits, and the send goes out with the adapter captured before
\* it; nothing is awaited in between but that commit.
Claim ==
    /\ worker = Idle
    /\ adapter.bot # NoBot /\ adapter.chat # NoChat
    /\ \E d \in Oldest(Eligible) :
         /\ recipient' = [recipient EXCEPT ![d] = adapter.chat]
         /\ wait' = [wait EXCEPT ![d] = Lease]
         /\ worker' = [job |-> d, part |-> nextPart[d], outcome |-> "waiting"]
         /\ net' = net \cup {[job |-> d, part |-> nextPart[d], to |-> adapter,
                              landed |-> FALSE, orphan |-> FALSE, left |-> SendTimeout]}
    /\ UNCHANGED <<status, key, nextPart, adapter, arrived, places, faults, replacements>>

\* The part reaches the chat.
Land(s) ==
    /\ ~s.landed
    /\ net' = (net \ {s}) \cup {[s EXCEPT !.landed = TRUE]}
    /\ arrived' = [arrived EXCEPT ![s.job] = s.part + 1]
    /\ places' = [places EXCEPT ![s.job] = @ \cup {s.to}]
    /\ UNCHANGED <<rowVars, adapter, worker, faults, replacements>>

Accepted(s) ==
    /\ s.landed /\ ~s.orphan
    /\ worker' = [worker EXCEPT !.outcome = "accepted"]
    /\ net' = net \ {s}
    /\ UNCHANGED <<rowVars, adapter, arrived, places, faults, replacements>>

\* A timeout, a lost answer, an answer of 429 or 5xx, or a refusal for good.
Refused(s) ==
    /\ ~s.orphan
    /\ faults < MaxFaults
    /\ \/ worker' = [worker EXCEPT !.outcome = "retryable"]
       \/ ~s.landed /\ worker' = [worker EXCEPT !.outcome = "rejected"]
    /\ net' = net \ {s}
    /\ faults' = faults + 1
    /\ UNCHANGED <<rowVars, adapter, arrived, places, replacements>>

\* A send whose worker is gone is forgotten.
Forget(s) ==
    /\ s.orphan
    /\ net' = net \ {s}
    /\ UNCHANGED <<rowVars, adapter, worker, arrived, places, faults, replacements>>

-----------------------------------------------------------------------------
Finished(d, part) == part + 1 = Parts[d]

\* Mutant: an uncertain send counts as sent.
RecordUncertain ==
    \E d \in Deliveries :
        /\ worker.job = d
        /\ worker.outcome \in {"accepted", "retryable"}
        /\ nextPart' = [nextPart EXCEPT ![d] = worker.part + 1]
        /\ wait' = [wait EXCEPT ![d] = 0]
        /\ status' = [status EXCEPT ![d] =
                        IF Finished(d, worker.part) THEN "sent" ELSE "pending"]
        /\ worker' = Idle
        /\ UNCHANGED <<key, recipient, adapter, net, arrived, places, faults, replacements>>

RecordSuccess ==
    \E d \in Deliveries :
        /\ worker.job = d
        /\ worker.outcome = "accepted"
        /\ nextPart' = [nextPart EXCEPT ![d] = worker.part + 1]
        /\ wait' = [wait EXCEPT ![d] = 0]
        /\ status' = [status EXCEPT ![d] =
                        IF Finished(d, worker.part) THEN "sent" ELSE "pending"]
        /\ worker' = Idle
        /\ UNCHANGED <<key, recipient, adapter, net, arrived, places, faults, replacements>>

RecordFailure ==
    \E d \in Deliveries :
        /\ worker.job = d
        /\ worker.outcome \in {"retryable", "rejected"}
        /\ \E b \in Backoffs : wait' = [wait EXCEPT ![d] = b]
        /\ status' = [status EXCEPT ![d] =
                        IF worker.outcome = "retryable" THEN "pending" ELSE "failed"]
        /\ worker' = Idle
        /\ UNCHANGED <<key, recipient, nextPart, adapter, net, arrived, places, faults,
                       replacements>>

\* The second transaction fails, the task is cancelled, or the process stops:
\* the row keeps the lease of its claim, and a send on the network goes on.
Abandon ==
    /\ worker # Idle
    /\ faults < MaxFaults
    /\ faults' = faults + 1
    /\ worker' = Idle
    /\ net' = {[s EXCEPT !.orphan = TRUE] : s \in net}
    /\ UNCHANGED <<rowVars, adapter, arrived, places, replacements>>

Tick ==
    /\ \A s \in net : s.left > 0
    /\ net' = {[s EXCEPT !.left = @ - 1] : s \in net}
    /\ wait' = [d \in Deliveries |-> IF wait[d] > 0 THEN wait[d] - 1 ELSE 0]
    /\ UNCHANGED <<status, key, recipient, nextPart, adapter, worker, arrived, places,
                   faults, replacements>>

Network == \E s \in net : Land(s) \/ Accepted(s) \/ Refused(s) \/ Forget(s)

Next ==
    \/ \E d \in Deliveries : QueuePortal(d) \/ EndRequest(d)
    \/ Replace
    \/ Bind
    \/ Claim
    \/ Network
    \/ RecordSuccess
    \/ RecordFailure
    \/ Abandon
    \/ Tick

Spec == Init /\ [][Next]_vars

\* run_forever calls drain again after every error, requests end, sends are
\* answered within their timeout, and time passes.
Fairness ==
    /\ WF_vars(Claim)
    /\ WF_vars(Network)
    /\ WF_vars(RecordSuccess \/ RecordFailure)
    /\ WF_vars(Tick)
    /\ \A d \in Deliveries : WF_vars(EndRequest(d))

FairSpec == Spec /\ Fairness

-----------------------------------------------------------------------------
TypeOK ==
    /\ status \in [Deliveries -> {"absent", "flushed", "dropped", "pending", "sent", "failed"}]
    /\ key \in [Deliveries -> Bots \cup {NoBot}]
    /\ recipient \in [Deliveries -> Chats \cup {NoChat}]
    /\ nextPart \in [Deliveries -> Nat]
    /\ wait \in [Deliveries -> Nat]
    /\ adapter \in Adapters
    /\ worker \in [job : Deliveries \cup {Nobody}, part : Nat,
                   outcome : {"none", "waiting", "accepted", "retryable", "rejected"}]
    /\ net \in SUBSET Sends
    /\ arrived \in [Deliveries -> Nat]
    /\ places \in [Deliveries -> SUBSET [bot : Bots, chat : Chats]]
    /\ faults \in 0 .. MaxFaults
    /\ replacements \in 0 .. MaxReplacements

\* Every part of a message that arrives, arrives at the bot the message was
\* queued for and in one chat, however often the adapter is replaced or bound
\* while the message waits, is being sent, or is between two parts
\* (_deliver_one captures the adapter and matches portal_key and recipient).
NeverRedirected ==
    \A d \in Deliveries :
        places[d] \subseteq {[bot |-> key[d], chat |-> recipient[d]]}

\* Two copies of a message are never on the network together: a claim's lease
\* outlasts the send it covers, even when its worker is gone.
OneCopyInFlight ==
    \A s, t \in net : s.job = t.job => s = t

\* The outbox keeps OutboxPromise: parts in order, none skipped, only the
\* last one again, sent when all arrived, nothing afterwards.
Promise ==
    INSTANCE OutboxPromise WITH
        Letters <- Deliveries,
        Length <- Parts,
        arrived <- arrived,
        verdict <- [d \in Deliveries |->
                      IF status[d] \in {"sent", "failed"} THEN status[d] ELSE "open"]

KeepsPromise == Promise!Spec

\* A queued message is sent or failed for good if its bot and chat stay
\* configured from some time on and the network fails finitely often.
Fits(d) ==
    /\ adapter.bot = key[d]
    /\ adapter.chat # NoChat
    /\ recipient[d] \in {NoChat, adapter.chat}

QueuedIsConcluded ==
    \A d \in Deliveries :
        <>[]Fits(d) => [](status[d] = "pending" => <>(status[d] \in {"sent", "failed"}))
=============================================================================
