---------------------------- MODULE MCWakeQueue ----------------------------
(* Small instances of WakeQueue: two wakes for one teammate, the third for *)
(* another; two of them share a dedupe key and two may meet in the lane of *)
(* the shared desktop.                                                     *)
EXTENDS WakeQueue, TLC

CONSTANTS e1, e2, e3, ann, bob, k

MCEvents == {e1, e2, e3}
MCTarget == (e1 :> ann) @@ (e2 :> ann) @@ (e3 :> bob)
MCKey    == (e1 :> k) @@ (e2 :> NoKey) @@ (e3 :> k)
MCLanes  == (e1 :> {"headless"}) @@ (e2 :> {"shared", "headless"}) @@ (e3 :> {"shared"})

\* The row that others conflict with is deferred.
MCDelays == (e1 :> {0}) @@ (e2 :> {1}) @@ (e3 :> {0})
=============================================================================
