------------------------------ MODULE MCInbound ------------------------------
EXTENDS Inbound, TLC

CONSTANTS c1, c2

\* Two texts and a /start of one chat around a text of another.
MCFrom == (1 :> c1) @@ (2 :> c2) @@ (3 :> c1)
=============================================================================
