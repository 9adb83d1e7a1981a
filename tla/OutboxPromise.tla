---------------------------- MODULE OutboxPromise ----------------------------
(***************************************************************************)
(* What the portal outbox promises the human, without leases, workers or   *)
(* adapters: the parts of a message arrive in order, each at least once,   *)
(* only the last one that arrived may arrive again, a message is called    *)
(* sent only when all of it arrived, and nothing arrives after that.       *)
(***************************************************************************)
EXTENDS Naturals

CONSTANTS Letters, Length

VARIABLES
    arrived,   \* how many parts of each message arrived
    verdict    \* "open", "sent" or "failed"

vars == <<arrived, verdict>>

Init ==
    /\ arrived = [m \in Letters |-> 0]
    /\ verdict = [m \in Letters |-> "open"]

Arrive(m) ==
    /\ verdict[m] = "open"
    /\ arrived[m] < Length[m]
    /\ arrived' = [arrived EXCEPT ![m] = @ + 1]
    /\ UNCHANGED verdict

Conclude(m) ==
    /\ verdict[m] = "open"
    /\ \/ /\ arrived[m] = Length[m]
          /\ verdict' = [verdict EXCEPT ![m] = "sent"]
       \/ verdict' = [verdict EXCEPT ![m] = "failed"]
    /\ UNCHANGED arrived

Next == \E m \in Letters : Arrive(m) \/ Conclude(m)

Spec == Init /\ [][Next]_vars
=============================================================================
