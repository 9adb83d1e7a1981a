----------------------------- MODULE MCRoutines -----------------------------
(* A routine that runs at an interval, at most twice, and watches a feed;  *)
(* a webhook that is ambiguous for it, a manual run and an open loop.      *)
EXTENDS Routines, TLC

CONSTANTS r1, ann, h1, q1, l1, feed, fail, green

MCOwner == r1 :> ann
MCInterval == r1 :> 1
MCMaxRuns == r1 :> 2
MCExpiry == r1 :> Never
MCFeed == r1 :> [source |-> feed, match |-> {fail}, ignore |-> {green}]
MCEvent == h1 :> [source |-> feed, agent |-> Anyone, words |-> {fail, green}, key |-> 1]
MCRunOf == q1 :> r1
MCLoopDelay == l1 :> 1
=============================================================================
