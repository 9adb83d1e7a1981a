---------------------------- MODULE MCGroupRounds ----------------------------
(* A group of a human and an agent, with another that may be invited.       *)
EXTENDS GroupRounds

CONSTANTS you, ann, bob
=============================================================================
