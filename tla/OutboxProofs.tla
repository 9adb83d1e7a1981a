---------------------------- MODULE OutboxProofs ----------------------------
(***************************************************************************)
(* Proofs about the portal outbox, for any rows, parts, bots, chats and    *)
(* any lease longer than the send timeout.  The inductive invariant says   *)
(* what a send on the network and a busy worker know about their row.      *)
(***************************************************************************)
EXTENDS Outbox, TLAPS

\* A send on the network is of the part its pending row waits for, goes where
\* the row is bound, and ends before the row can be claimed again.
SendsAreClaimed ==
    \A s \in net :
        /\ status[s.job] = "pending"
        /\ nextPart[s.job] = s.part
        /\ s.to = [bot |-> key[s.job], chat |-> recipient[s.job]]
        /\ s.left < wait[s.job]
        /\ s.landed => arrived[s.job] = s.part + 1
        /\ s.orphan \/ worker.job = s.job
        /\ worker.job = s.job => worker.outcome = "waiting"

WorkerHasRow ==
    /\ worker.job = Nobody => worker = Idle
    /\ worker.job # Nobody =>
         /\ status[worker.job] = "pending"
         /\ nextPart[worker.job] = worker.part
         /\ worker.outcome = "accepted" => arrived[worker.job] = worker.part + 1

\* What arrived is what is recorded, or one part more.
Recorded ==
    \A d \in Deliveries :
        /\ arrived[d] \in {nextPart[d], nextPart[d] + 1}
        /\ arrived[d] <= Parts[d]
        /\ status[d] \in {"absent", "flushed"} => nextPart[d] = 0
        /\ status[d] = "pending" => nextPart[d] < Parts[d]
        /\ status[d] = "sent" => arrived[d] = Parts[d]
        /\ status[d] = "absent" \/ recipient[d] = NoChat => places[d] = {}

IInv ==
    /\ TypeOK
    /\ SendsAreClaimed
    /\ OneCopyInFlight
    /\ WorkerHasRow
    /\ Recorded
    /\ NeverRedirected

\* The fields of a send on the network, and of its copies.
LEMMA SendFields ==
    ASSUME TypeOK, NEW s \in net
    PROVE  /\ s \in Sends
           /\ s.job \in Deliveries /\ s.part \in Nat
           /\ s.to \in [bot : Bots, chat : Chats]
           /\ s.left \in 0 .. SendTimeout /\ s.left \in Nat
<1>1. s \in Sends
  BY DEF TypeOK
<1> QED BY <1>1, ConstantsAssumption DEF Sends

LEMMA SendLanded ==
    ASSUME NEW s \in Sends
    PROVE  LET t == [s EXCEPT !.landed = TRUE]
           IN  /\ t \in Sends /\ t.job = s.job /\ t.part = s.part /\ t.to = s.to
               /\ t.left = s.left /\ t.orphan = s.orphan /\ t.landed
  BY DEF Sends

LEMMA SendOrphaned ==
    ASSUME NEW s \in Sends
    PROVE  LET t == [s EXCEPT !.orphan = TRUE]
           IN  /\ t \in Sends /\ t.job = s.job /\ t.part = s.part /\ t.to = s.to
               /\ t.left = s.left /\ t.orphan /\ t.landed = s.landed
  BY DEF Sends

\* IInv holds initially.
LEMMA InitInvariant == Init => IInv
  BY ConstantsAssumption
  DEF Init, IInv, TypeOK, SendsAreClaimed, OneCopyInFlight, WorkerHasRow, Recorded,
      NeverRedirected, Adapters, Idle

\* Steps that change neither the network, the worker nor what arrived.
LEMMA RequestInvariant ==
    IInv /\ (Replace \/ Bind \/ \E d \in Deliveries : QueuePortal(d) \/ EndRequest(d)) => IInv'
<1> SUFFICES ASSUME IInv,
                    Replace \/ Bind \/ \E d \in Deliveries : QueuePortal(d) \/ EndRequest(d)
             PROVE  IInv'
  OBVIOUS
<1> USE ConstantsAssumption
<1>1. CASE Replace
  BY <1>1
  DEF Replace, IInv, TypeOK, SendsAreClaimed, OneCopyInFlight, WorkerHasRow, Recorded,
      NeverRedirected, rowVars
<1>2. CASE Bind
  BY <1>2
  DEF Bind, IInv, TypeOK, SendsAreClaimed, OneCopyInFlight, WorkerHasRow, Recorded,
      NeverRedirected, rowVars, Adapters
<1>3. ASSUME NEW d \in Deliveries, QueuePortal(d) PROVE IInv'
  <2>1. TypeOK'
    BY <1>3 DEF QueuePortal, IInv, TypeOK, Adapters
  <2>2. SendsAreClaimed'
    BY <1>3 DEF QueuePortal, IInv, TypeOK, SendsAreClaimed, Sends
  <2>3. OneCopyInFlight' /\ WorkerHasRow'
    BY <1>3 DEF QueuePortal, IInv, TypeOK, OneCopyInFlight, WorkerHasRow
  <2>4. Recorded' /\ NeverRedirected'
    BY <1>3 DEF QueuePortal, IInv, TypeOK, Recorded, NeverRedirected
  <2> QED BY <2>1, <2>2, <2>3, <2>4 DEF IInv
<1>4. ASSUME NEW d \in Deliveries, EndRequest(d) PROVE IInv'
  <2>1. TypeOK'
    BY <1>4 DEF EndRequest, IInv, TypeOK
  <2>2. SendsAreClaimed'
    <3>1. \A s \in net : s.job \in Deliveries
      BY SendFields DEF IInv
    <3> QED BY <1>4, <3>1 DEF EndRequest, IInv, TypeOK, SendsAreClaimed
  <2>3. OneCopyInFlight' /\ WorkerHasRow'
    BY <1>4 DEF EndRequest, IInv, TypeOK, OneCopyInFlight, WorkerHasRow
  <2>4. Recorded' /\ NeverRedirected'
    BY <1>4 DEF EndRequest, IInv, TypeOK, Recorded, NeverRedirected
  <2> QED BY <2>1, <2>2, <2>3, <2>4 DEF IInv
<1> QED BY <1>1, <1>2, <1>3, <1>4

\* A claimed row has nothing on the network: its lease ran out after its sends.
LEMMA ClaimInvariant == IInv /\ Claim => IInv'
<1> SUFFICES ASSUME IInv, Claim PROVE IInv'
  OBVIOUS
<1> USE ConstantsAssumption DEF IInv
<1> PICK d \in Oldest(Eligible) :
        /\ recipient' = [recipient EXCEPT ![d] = adapter.chat]
        /\ wait' = [wait EXCEPT ![d] = Lease]
        /\ worker' = [job |-> d, part |-> nextPart[d], outcome |-> "waiting"]
        /\ net' = net \cup {[job |-> d, part |-> nextPart[d], to |-> adapter,
                             landed |-> FALSE, orphan |-> FALSE, left |-> SendTimeout]}
  BY DEF Claim
<1> DEFINE new == [job |-> d, part |-> nextPart[d], to |-> adapter,
                   landed |-> FALSE, orphan |-> FALSE, left |-> SendTimeout]
<1>1. /\ d \in Deliveries
      /\ status[d] = "pending"
      /\ key[d] = adapter.bot
      /\ recipient[d] \in {NoChat, adapter.chat}
      /\ wait[d] = 0
  BY DEF Oldest, Eligible
<1>2. /\ worker = Idle
      /\ adapter.bot \in Bots /\ adapter.chat \in Chats
      /\ adapter = [bot |-> adapter.bot, chat |-> adapter.chat]
      /\ UNCHANGED <<status, key, nextPart, adapter, arrived, places, faults, replacements>>
  BY DEF Claim, TypeOK, Adapters
<1>3. \A s \in net : s.job # d
  <2> SUFFICES ASSUME NEW s \in net, s.job = d PROVE FALSE
    OBVIOUS
  <2>1. s.left \in Nat /\ s.left < wait[d]
    BY SendFields DEF SendsAreClaimed
  <2> QED BY <1>1, <2>1
<1>4. new \in Sends
  <2>1. adapter \in [bot : Bots, chat : Chats]
    BY <1>2
  <2>2. nextPart[d] \in Nat /\ SendTimeout \in 0 .. SendTimeout
    BY <1>1 DEF TypeOK
  <2> QED BY <1>1, <2>1, <2>2 DEF Sends
<1>5. TypeOK'
  <2>1. net' \in SUBSET Sends
    BY <1>4 DEF TypeOK
  <2>2. wait' \in [Deliveries -> Nat] /\ recipient' \in [Deliveries -> Chats \cup {NoChat}]
    BY <1>1, <1>2 DEF TypeOK
  <2>3. worker' \in [job : Deliveries \cup {Nobody}, part : Nat,
                     outcome : {"none", "waiting", "accepted", "retryable", "rejected"}]
    BY <1>1 DEF TypeOK
  <2> QED BY <1>2, <2>1, <2>2, <2>3 DEF TypeOK
<1>6. SendsAreClaimed'
  <2> SUFFICES ASSUME NEW s \in net'
               PROVE  /\ status'[s.job] = "pending"
                      /\ nextPart'[s.job] = s.part
                      /\ s.to = [bot |-> key'[s.job], chat |-> recipient'[s.job]]
                      /\ s.left < wait'[s.job]
                      /\ s.landed => arrived'[s.job] = s.part + 1
                      /\ s.orphan \/ worker'.job = s.job
                      /\ worker'.job = s.job => worker'.outcome = "waiting"
    BY DEF SendsAreClaimed
  <2>1. CASE s = new
    BY <1>1, <1>2, <2>1 DEF TypeOK
  <2>2. CASE s \in net
    <3>1. s.job \in Deliveries /\ s.job # d
      BY <1>3, <2>2 DEF TypeOK, Sends
    <3>2. s.orphan
      BY <1>2, <2>2, <3>1 DEF SendsAreClaimed, Idle
    <3> QED BY <1>2, <2>2, <3>1, <3>2 DEF SendsAreClaimed, TypeOK
  <2> QED BY <2>1, <2>2
<1>7. OneCopyInFlight'
  <2> SUFFICES ASSUME NEW s \in net', NEW t \in net', s.job = t.job PROVE s = t
    BY DEF OneCopyInFlight
  <2>1. net' = net \cup {new} /\ new.job = d
    OBVIOUS
  <2> HIDE DEF new
  <2>2. (s \in net \/ s = new) /\ (t \in net \/ t = new)
    BY <2>1
  <2> QED BY <1>3, <2>1, <2>2 DEF OneCopyInFlight
<1>8. WorkerHasRow'
  BY <1>1, <1>2 DEF WorkerHasRow
<1>9. Recorded' /\ NeverRedirected'
  BY <1>1, <1>2 DEF Recorded, NeverRedirected, TypeOK
<1> QED BY <1>5, <1>6, <1>7, <1>8, <1>9

\* The network.
LEMMA LandInvariant ==
    ASSUME IInv, NEW s \in net, Land(s)
    PROVE  IInv'
<1> USE ConstantsAssumption DEF IInv
<1> DEFINE t == [s EXCEPT !.landed = TRUE]
<1>1. /\ s \in Sends /\ s.job \in Deliveries /\ s.part \in Nat
      /\ s.to \in [bot : Bots, chat : Chats]
      /\ s.part = nextPart[s.job] /\ status[s.job] = "pending"
      /\ s.to = [bot |-> key[s.job], chat |-> recipient[s.job]]
  BY SendFields DEF SendsAreClaimed
<1>2. /\ t \in Sends /\ t.job = s.job /\ t.part = s.part /\ t.to = s.to
      /\ t.left = s.left /\ t.orphan = s.orphan /\ t.landed
  BY <1>1, SendLanded
<1>3. /\ net' = (net \ {s}) \cup {t}
      /\ arrived' = [arrived EXCEPT ![s.job] = s.part + 1]
      /\ places' = [places EXCEPT ![s.job] = @ \cup {s.to}]
      /\ UNCHANGED <<rowVars, adapter, worker, faults, replacements>>
  BY DEF Land
<1>4. TypeOK'
  <2>1. net' \in SUBSET Sends
    BY <1>2, <1>3 DEF TypeOK
  <2>2. arrived' \in [Deliveries -> Nat]
    BY <1>1, <1>3 DEF TypeOK
  <2>3. places' \in [Deliveries -> SUBSET [bot : Bots, chat : Chats]]
    BY <1>1, <1>3 DEF TypeOK
  <2> QED BY <1>3, <2>1, <2>2, <2>3 DEF TypeOK, rowVars
<1>5. SendsAreClaimed'
  <2> SUFFICES ASSUME NEW u \in net'
               PROVE  /\ status[u.job] = "pending"
                      /\ nextPart[u.job] = u.part
                      /\ u.to = [bot |-> key[u.job], chat |-> recipient[u.job]]
                      /\ u.left < wait[u.job]
                      /\ u.landed => arrived'[u.job] = u.part + 1
                      /\ u.orphan \/ worker.job = u.job
                      /\ worker.job = u.job => worker.outcome = "waiting"
    BY <1>3 DEF SendsAreClaimed, rowVars
  <2>1. CASE u = t
    BY <1>1, <1>2, <1>3, <2>1 DEF SendsAreClaimed, TypeOK
  <2>2. CASE u \in net \ {s}
    <3>1. u.job \in Deliveries /\ u.job # s.job
      BY <2>2, SendFields DEF OneCopyInFlight
    <3> QED BY <1>3, <2>2, <3>1 DEF SendsAreClaimed, TypeOK
  <2> QED BY <1>3, <2>1, <2>2
<1>6. OneCopyInFlight'
  <2> SUFFICES ASSUME NEW u \in net', NEW v \in net', u.job = v.job PROVE u = v
    BY DEF OneCopyInFlight
  <2>1. (u \in net \ {s} \/ u = t) /\ (v \in net \ {s} \/ v = t)
    BY <1>3
  <2> QED BY <1>2, <2>1 DEF OneCopyInFlight
<1>7. WorkerHasRow'
  BY <1>1, <1>3 DEF WorkerHasRow, rowVars, TypeOK
<1>8. Recorded'
  <2>1. recipient[s.job] \in Chats
    BY <1>1
  <2> QED BY <1>1, <1>3, <2>1 DEF Recorded, rowVars, TypeOK
<1>9. NeverRedirected'
  BY <1>1, <1>3 DEF NeverRedirected, rowVars, TypeOK
<1> QED BY <1>4, <1>5, <1>6, <1>7, <1>8, <1>9

\* An answer, or a send that is given up, leaves the network.
LEMMA AnswerInvariant ==
    ASSUME IInv, NEW s \in net, Accepted(s) \/ Refused(s) \/ Forget(s)
    PROVE  IInv'
<1> USE ConstantsAssumption DEF IInv
<1>1. s \in Sends /\ s.job \in Deliveries /\ s.part \in Nat
  BY SendFields
<1>2. /\ net' = net \ {s}
      /\ UNCHANGED <<rowVars, adapter, arrived, places, replacements>>
  BY DEF Accepted, Refused, Forget
<1>3. worker.job \in Deliveries \cup {Nobody} /\ worker.part \in Nat
  BY DEF TypeOK
<1>4. \/ worker' = worker
      \/ /\ worker.job = s.job
         /\ \E o \in {"accepted", "retryable", "rejected"} :
              /\ worker' = [worker EXCEPT !.outcome = o]
              /\ o = "accepted" => s.landed
  BY DEF Accepted, Refused, Forget, SendsAreClaimed
<1>5. faults' \in 0 .. MaxFaults
  BY DEF Accepted, Refused, Forget, TypeOK
<1>6. worker' \in [job : Deliveries \cup {Nobody}, part : Nat,
                   outcome : {"none", "waiting", "accepted", "retryable", "rejected"}]
  BY <1>4 DEF TypeOK
<1>7. worker'.job = worker.job /\ worker'.part = worker.part
  BY <1>4 DEF TypeOK
<1>8. TypeOK'
  BY <1>2, <1>5, <1>6 DEF TypeOK, rowVars
<1>9. SendsAreClaimed'
  <2> SUFFICES ASSUME NEW u \in net, u # s
               PROVE  /\ status[u.job] = "pending"
                      /\ nextPart[u.job] = u.part
                      /\ u.to = [bot |-> key[u.job], chat |-> recipient[u.job]]
                      /\ u.left < wait[u.job]
                      /\ u.landed => arrived[u.job] = u.part + 1
                      /\ u.orphan \/ worker'.job = u.job
                      /\ worker'.job = u.job => worker'.outcome = "waiting"
    BY <1>2 DEF SendsAreClaimed, rowVars
  <2>1. u.job # s.job
    BY DEF OneCopyInFlight
  <2> QED BY <1>4, <1>7, <2>1 DEF SendsAreClaimed
<1>10. OneCopyInFlight'
  BY <1>2 DEF OneCopyInFlight
<1>11. WorkerHasRow'
  <2>1. CASE worker' = worker
    BY <1>2, <2>1 DEF WorkerHasRow, rowVars
  <2>2. CASE worker' # worker
    <3>1. worker'.job = s.job /\ worker'.job # Nobody /\ worker'.part = worker.part
      BY <1>1, <1>4, <1>7, <2>2
    <3>2. worker'.outcome = "accepted" => s.landed
      BY <1>4, <2>2 DEF TypeOK
    <3>3. /\ status[s.job] = "pending" /\ nextPart[s.job] = worker.part
          /\ s.landed => arrived[s.job] = worker.part + 1
      <4>1. worker.job = s.job /\ worker.job # Nobody
        BY <1>1, <1>7, <3>1
      <4>2. nextPart[worker.job] = worker.part
        BY <4>1 DEF WorkerHasRow
      <4> QED BY <4>1, <4>2 DEF SendsAreClaimed
    <3> QED BY <1>2, <3>1, <3>2, <3>3 DEF WorkerHasRow, rowVars
  <2> QED BY <2>1, <2>2
<1>12. Recorded' /\ NeverRedirected'
  BY <1>2 DEF Recorded, NeverRedirected, rowVars
<1> QED BY <1>8, <1>9, <1>10, <1>11, <1>12

\* The worker's second transaction.
LEMMA RecordInvariant == IInv /\ (RecordSuccess \/ RecordFailure) => IInv'
<1> SUFFICES ASSUME IInv, RecordSuccess \/ RecordFailure PROVE IInv'
  OBVIOUS
<1> USE ConstantsAssumption DEF IInv
<1> PICK d \in Deliveries :
        /\ worker.job = d
        /\ worker.outcome \in {"accepted", "retryable", "rejected"}
        /\ worker' = Idle
        /\ \E w \in Nat : wait' = [wait EXCEPT ![d] = w]
        /\ \/ /\ worker.outcome = "accepted"
              /\ nextPart' = [nextPart EXCEPT ![d] = worker.part + 1]
              /\ status' = [status EXCEPT ![d] =
                              IF Finished(d, worker.part) THEN "sent" ELSE "pending"]
           \/ /\ nextPart' = nextPart
              /\ status' = [status EXCEPT ![d] =
                              IF worker.outcome = "retryable" THEN "pending" ELSE "failed"]
        /\ UNCHANGED <<key, recipient, adapter, net, arrived, places, faults, replacements>>
  BY DEF RecordSuccess, RecordFailure, TypeOK
<1>1. /\ status[d] = "pending" /\ nextPart[d] = worker.part
      /\ worker.outcome = "accepted" => arrived[d] = worker.part + 1
  BY DEF WorkerHasRow
<1>2. \A s \in net : s.job \in Deliveries /\ s.job # d /\ s.orphan
  <2> SUFFICES ASSUME NEW s \in net PROVE s.job \in Deliveries /\ s.job # d /\ s.orphan
    OBVIOUS
  <2> QED BY SendFields DEF SendsAreClaimed
<1>3. TypeOK'
  BY <1>1 DEF TypeOK, Idle
<1>4. SendsAreClaimed'
  <2> SUFFICES ASSUME NEW s \in net
               PROVE  /\ status'[s.job] = "pending"
                      /\ nextPart'[s.job] = s.part
                      /\ s.to = [bot |-> key[s.job], chat |-> recipient[s.job]]
                      /\ s.left < wait'[s.job]
                      /\ s.landed => arrived[s.job] = s.part + 1
                      /\ s.orphan
                      /\ s.job # Nobody
    BY DEF SendsAreClaimed, Idle
  <2> DEFINE j == s.job
  <2>1. j \in Deliveries /\ j # d /\ s.orphan
    BY <1>2
  <2>2. status'[j] = status[j] /\ nextPart'[j] = nextPart[j] /\ wait'[j] = wait[j]
    <3> HIDE DEF j
    <3> QED BY <2>1 DEF TypeOK
  <2> QED BY <2>1, <2>2 DEF SendsAreClaimed
<1>5. OneCopyInFlight' /\ WorkerHasRow' /\ NeverRedirected'
  BY DEF OneCopyInFlight, WorkerHasRow, NeverRedirected, Idle
<1>6. Recorded'
  BY <1>1 DEF Recorded, TypeOK, Finished
<1> QED BY <1>3, <1>4, <1>5, <1>6

\* The worker is gone, but its row and its send are not.
LEMMA AbandonInvariant == IInv /\ Abandon => IInv'
<1> SUFFICES ASSUME IInv, Abandon PROVE IInv'
  OBVIOUS
<1> USE ConstantsAssumption DEF IInv
<1>1. /\ net' = {[s EXCEPT !.orphan = TRUE] : s \in net}
      /\ worker' = Idle
      /\ faults' = faults + 1 /\ faults < MaxFaults
      /\ UNCHANGED <<rowVars, adapter, arrived, places, replacements>>
  BY DEF Abandon
<1>2. \A u \in net' : \E s \in net :
        /\ u = [s EXCEPT !.orphan = TRUE]
        /\ u \in Sends /\ u.job = s.job /\ u.part = s.part /\ u.to = s.to
        /\ u.left = s.left /\ u.landed = s.landed /\ u.orphan
  <2> TAKE u \in net'
  <2>1. PICK s \in net : u = [s EXCEPT !.orphan = TRUE]
    BY <1>1
  <2>2. s \in Sends
    BY SendFields
  <2> QED BY <2>1, <2>2, SendOrphaned
<1>3. TypeOK'
  <2>1. net' \in SUBSET Sends
    BY <1>2
  <2>2. faults' \in 0 .. MaxFaults
    BY <1>1 DEF TypeOK
  <2>3. Idle \in [job : Deliveries \cup {Nobody}, part : Nat,
                  outcome : {"none", "waiting", "accepted", "retryable", "rejected"}]
    BY DEF Idle
  <2> QED BY <1>1, <2>1, <2>2, <2>3 DEF TypeOK, rowVars
<1>4. SendsAreClaimed'
  <2> SUFFICES ASSUME NEW u \in net'
               PROVE  /\ status[u.job] = "pending"
                      /\ nextPart[u.job] = u.part
                      /\ u.to = [bot |-> key[u.job], chat |-> recipient[u.job]]
                      /\ u.left < wait[u.job]
                      /\ u.landed => arrived[u.job] = u.part + 1
                      /\ u.orphan
                      /\ u.job # Nobody
    BY <1>1 DEF SendsAreClaimed, rowVars, Idle
  <2>1. PICK s \in net :
          /\ u.job = s.job /\ u.part = s.part /\ u.to = s.to
          /\ u.left = s.left /\ u.landed = s.landed /\ u.orphan
    BY <1>2
  <2>2. s.job # Nobody
    BY SendFields
  <2> QED BY <2>1, <2>2 DEF SendsAreClaimed
<1>5. OneCopyInFlight'
  <2> SUFFICES ASSUME NEW u \in net', NEW v \in net', u.job = v.job PROVE u = v
    BY DEF OneCopyInFlight
  <2>1. PICK s \in net : u = [s EXCEPT !.orphan = TRUE] /\ u.job = s.job
    BY <1>2
  <2>2. PICK t \in net : v = [t EXCEPT !.orphan = TRUE] /\ v.job = t.job
    BY <1>2
  <2> QED BY <2>1, <2>2 DEF OneCopyInFlight
<1>6. WorkerHasRow'
  BY <1>1 DEF WorkerHasRow, Idle
<1>7. Recorded' /\ NeverRedirected'
  BY <1>1 DEF Recorded, NeverRedirected, rowVars
<1> QED BY <1>3, <1>4, <1>5, <1>6, <1>7

\* Leases and timeouts run down together.
LEMMA TickInvariant == IInv /\ Tick => IInv'
<1> SUFFICES ASSUME IInv, Tick PROVE IInv'
  OBVIOUS
<1> USE ConstantsAssumption DEF IInv
<1>1. /\ net' = {[s EXCEPT !.left = @ - 1] : s \in net}
      /\ wait' = [d \in Deliveries |-> IF wait[d] > 0 THEN wait[d] - 1 ELSE 0]
      /\ UNCHANGED <<status, key, recipient, nextPart, adapter, worker, arrived, places,
                     faults, replacements>>
  BY DEF Tick
<1>2. \A u \in net' : \E s \in net :
        /\ u = [s EXCEPT !.left = @ - 1]
        /\ u \in Sends /\ s \in Sends /\ u.job = s.job /\ u.part = s.part /\ u.to = s.to
        /\ u.left = s.left - 1 /\ u.landed = s.landed /\ u.orphan = s.orphan
  <2> TAKE u \in net'
  <2>1. PICK s \in net : u = [s EXCEPT !.left = @ - 1]
    BY <1>1
  <2>2. s \in Sends /\ s.left \in 0 .. SendTimeout /\ s.left > 0
    BY SendFields DEF Tick
  <2>3. s.left - 1 \in 0 .. SendTimeout
    BY <2>2
  <2>4. /\ u \in Sends /\ s \in Sends /\ u.job = s.job /\ u.part = s.part
        /\ u.to = s.to /\ u.left = s.left - 1 /\ u.landed = s.landed
        /\ u.orphan = s.orphan
    BY <2>1, <2>2, <2>3 DEF Sends
  <2> QED BY <2>1, <2>4
<1>3. TypeOK'
  <2>1. net' \in SUBSET Sends
    BY <1>2
  <2>2. wait' \in [Deliveries -> Nat]
    BY <1>1 DEF TypeOK
  <2> QED BY <1>1, <2>1, <2>2 DEF TypeOK
<1>4. SendsAreClaimed'
  <2> SUFFICES ASSUME NEW u \in net'
               PROVE  /\ status[u.job] = "pending"
                      /\ nextPart[u.job] = u.part
                      /\ u.to = [bot |-> key[u.job], chat |-> recipient[u.job]]
                      /\ u.left < wait'[u.job]
                      /\ u.landed => arrived[u.job] = u.part + 1
                      /\ u.orphan \/ worker.job = u.job
                      /\ worker.job = u.job => worker.outcome = "waiting"
    BY <1>1 DEF SendsAreClaimed
  <2>1. PICK s \in net :
          /\ s \in Sends /\ u.job = s.job /\ u.part = s.part /\ u.to = s.to
          /\ u.left = s.left - 1 /\ u.landed = s.landed /\ u.orphan = s.orphan
    BY <1>2
  <2>2. s.job \in Deliveries /\ s.left \in Nat /\ wait[s.job] \in Nat /\ s.left < wait[s.job]
    <3>1. s.job \in Deliveries /\ s.left \in Nat
      BY SendFields
    <3> QED BY <3>1 DEF SendsAreClaimed, TypeOK
  <2>3. u.left < wait'[u.job]
    BY <1>1, <2>1, <2>2
  <2> QED BY <2>1, <2>3 DEF SendsAreClaimed
<1>5. OneCopyInFlight'
  <2> SUFFICES ASSUME NEW u \in net', NEW v \in net', u.job = v.job PROVE u = v
    BY DEF OneCopyInFlight
  <2>1. PICK s \in net : u = [s EXCEPT !.left = @ - 1] /\ u.job = s.job
    BY <1>2
  <2>2. PICK t \in net : v = [t EXCEPT !.left = @ - 1] /\ v.job = t.job
    BY <1>2
  <2> QED BY <2>1, <2>2 DEF OneCopyInFlight
<1>6. WorkerHasRow' /\ Recorded' /\ NeverRedirected'
  BY <1>1 DEF WorkerHasRow, Recorded, NeverRedirected
<1> QED BY <1>3, <1>4, <1>5, <1>6

LEMMA NextInvariant == IInv /\ [Next]_vars => IInv'
<1> SUFFICES ASSUME IInv, [Next]_vars PROVE IInv'
  OBVIOUS
<1>1. CASE UNCHANGED vars
  BY <1>1
  DEF vars, IInv, TypeOK, SendsAreClaimed, OneCopyInFlight, WorkerHasRow, Recorded,
      NeverRedirected
<1>2. CASE Network
  BY <1>2, LandInvariant, AnswerInvariant DEF Network
<1> QED
  BY <1>1, <1>2, RequestInvariant, ClaimInvariant, RecordInvariant, AbandonInvariant,
     TickInvariant
  DEF Next

\* Every reachable state of the outbox satisfies IInv.
THEOREM Invariance == Spec => []IInv
  BY InitInvariant, NextInvariant, PTL DEF Spec

\* The state of the outbox is well typed.
THEOREM TypeCorrect == Spec => []TypeOK
  BY Invariance, PTL DEF IInv

\* A message arrives only at the bot and in the chat it is bound to, whatever
\* replaces or binds the adapter while it is queued or being sent.
THEOREM Bound == Spec => []NeverRedirected
  BY Invariance, PTL DEF IInv

\* With a lease longer than the send timeout, a crashed send is off the
\* network before its row is claimed again.
THEOREM OneCopy == Spec => []OneCopyInFlight
  BY Invariance, PTL DEF IInv

-----------------------------------------------------------------------------
\* The outbox implements its promise.


LEMMA InitRefines == Init => Promise!Init
  BY ConstantsAssumption DEF Init, Promise!Init

\* A part that lands is the next one or the last one again, and only the
\* worker's second transaction concludes a message.
LEMMA NextRefines == IInv /\ [Next]_vars => Promise!Next \/ UNCHANGED Promise!vars
<1> SUFFICES ASSUME IInv, [Next]_vars PROVE Promise!Next \/ UNCHANGED Promise!vars
  OBVIOUS
<1> DEFINE verdictOf(st) == [d \in Deliveries |->
                               IF st[d] \in {"sent", "failed"} THEN st[d] ELSE "open"]
<1>1. ASSUME NEW s \in net, Land(s) PROVE Promise!Next \/ UNCHANGED Promise!vars
  <2>1. /\ s.job \in Deliveries /\ s.part \in Nat
        /\ nextPart[s.job] = s.part /\ status[s.job] = "pending"
    BY SendFields DEF IInv, SendsAreClaimed
  <2>2. /\ status' = status
        /\ arrived' = [arrived EXCEPT ![s.job] = s.part + 1]
    BY <1>1 DEF Land, rowVars
  <2>3. /\ arrived[s.job] \in {s.part, s.part + 1}
        /\ s.part < Parts[s.job]
    BY <2>1 DEF IInv, Recorded
  <2>4. CASE arrived[s.job] = s.part
    <3>1. Promise!Arrive(s.job)
      BY <2>1, <2>2, <2>3, <2>4 DEF Promise!Arrive
    <3> QED BY <2>1, <3>1 DEF Promise!Next
  <2>5. CASE arrived[s.job] = s.part + 1
    BY <2>1, <2>2, <2>5 DEF Promise!vars, IInv, TypeOK
  <2> QED BY <2>3, <2>4, <2>5
<1>2. CASE RecordSuccess \/ RecordFailure
  <2> PICK d \in Deliveries :
        /\ worker.job = d
        /\ arrived' = arrived
        /\ \/ /\ worker.outcome = "accepted"
              /\ status' = [status EXCEPT ![d] =
                              IF Finished(d, worker.part) THEN "sent" ELSE "pending"]
           \/ status' = [status EXCEPT ![d] =
                            IF worker.outcome = "retryable" THEN "pending" ELSE "failed"]
    BY <1>2 DEF RecordSuccess, RecordFailure
  <2>1. /\ status[d] = "pending"
        /\ worker.outcome = "accepted" => arrived[d] = worker.part + 1
    BY ConstantsAssumption DEF IInv, WorkerHasRow
  <2>2. CASE status'[d] = "pending"
    <3>1. status' = status
      BY <2>1, <2>2 DEF IInv, TypeOK
    <3> QED BY <3>1 DEF Promise!vars
  <2>3. CASE status'[d] # "pending"
    <3>1. status'[d] \in {"sent", "failed"} /\ status' = [status EXCEPT ![d] = status'[d]]
      BY <2>1, <2>3 DEF IInv, TypeOK
    <3>2. status'[d] = "sent" => arrived[d] = Parts[d]
      BY <2>1, <2>3 DEF Finished, IInv, TypeOK
    <3>3. verdictOf(status') = [verdictOf(status) EXCEPT ![d] = status'[d]]
      BY <3>1 DEF IInv, TypeOK
    <3>4. Promise!Conclude(d)
      BY <2>1, <3>1, <3>2, <3>3 DEF Promise!Conclude
    <3> QED BY <3>4 DEF Promise!Next
  <2> QED BY <2>2, <2>3
<1>3. ASSUME NEW d \in Deliveries, QueuePortal(d) \/ EndRequest(d)
      PROVE  UNCHANGED Promise!vars
  <2>1. /\ arrived' = arrived
        /\ verdictOf(status') = verdictOf(status)
    BY <1>3 DEF QueuePortal, EndRequest, IInv, TypeOK
  <2> QED BY <2>1 DEF Promise!vars
<1>4. CASE arrived' = arrived /\ status' = status
  BY <1>4 DEF Promise!vars
<1> QED
  BY <1>1, <1>2, <1>3, <1>4
  DEF Next, Network, Accepted, Refused, Forget, Replace, Bind, Claim, Abandon, Tick,
      rowVars, vars

\* The outbox keeps OutboxPromise for any messages, adapters and leases.
THEOREM Refinement == Spec => KeepsPromise
<1>1. IInv /\ [Next]_vars => [Promise!Next]_Promise!vars
  BY NextRefines
<1> QED BY InitRefines, <1>1, Invariance, PTL DEF Spec, KeepsPromise, Promise!Spec
=============================================================================
