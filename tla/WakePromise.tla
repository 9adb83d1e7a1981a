----------------------------- MODULE WakePromise -----------------------------
(***************************************************************************)
(* What the wake queue promises, without rows, leases, tasks or clocks:    *)
(* a wake waits, is worked on by its teammate, may be handed back any      *)
(* number of times, and is closed once, out of its teammate's hands; a     *)
(* teammate works on one wake at a time.                                   *)
(***************************************************************************)
CONSTANTS Wakes, Teammates, TeammateOf

VARIABLE stage

Init == stage = [w \in Wakes |-> "none"]

Submit(w) ==
    /\ stage[w] = "none"
    /\ stage' = [stage EXCEPT ![w] = "waiting"]

Begin(w) ==
    /\ stage[w] = "waiting"
    /\ \A v \in Wakes : stage[v] = "working" => TeammateOf[v] # TeammateOf[w]
    /\ stage' = [stage EXCEPT ![w] = "working"]

\* Several wakes are handed back at once when their leases expire together.
HandBack(S) ==
    /\ \A w \in S : stage[w] = "working"
    /\ stage' = [w \in Wakes |-> IF w \in S THEN "waiting" ELSE stage[w]]

Close(w) ==
    /\ stage[w] = "working"
    /\ stage' = [stage EXCEPT ![w] = "closed"]

Next ==
    \/ \E w \in Wakes : Submit(w) \/ Begin(w) \/ Close(w)
    \/ \E S \in SUBSET Wakes : HandBack(S)

Spec == Init /\ [][Next]_stage
=============================================================================
