------------------------------ MODULE MCOutbox ------------------------------
EXTENDS Outbox
MCParts == [d \in Deliveries |-> IF d = 1 THEN 2 ELSE 1]
=============================================================================
