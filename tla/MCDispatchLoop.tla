--------------------------- MODULE MCDispatchLoop ---------------------------
(* A request with two wakes (a group message), one with a single wake, and *)
(* a row the last process left claimed for one of the two teammates.       *)
EXTENDS DispatchLoop, TLC

CONSTANTS w1, w2, w3, w4, group, direct, ann, bob

MCRows == {w1, w2, w3, w4}
MCRequestOf == (w1 :> group) @@ (w2 :> group) @@ (w3 :> group) @@ (w4 :> direct)
MCTarget == (w1 :> ann) @@ (w2 :> bob) @@ (w3 :> ann) @@ (w4 :> bob)

\* Only the single wake may be deferred.
MCDelays == (w1 :> {0}) @@ (w2 :> {0}) @@ (w3 :> {0}) @@ (w4 :> {0, 1})
=============================================================================
