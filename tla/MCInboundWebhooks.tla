-------------------------- MODULE MCInboundWebhooks --------------------------
(* Small instances of InboundWebhooks for TLC. *)
EXTENDS InboundWebhooks

CONSTANTS y1, y2, g1, g2

\* A gateway with an id per event, and the mock: an id per amount and currency.
OwnIds == [p \in {y1, y2} |-> IF p = y1 THEN g1 ELSE g2]
SameId == [p \in {y1, y2} |-> g1]
=============================================================================
