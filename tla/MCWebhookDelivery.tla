-------------------------- MODULE MCWebhookDelivery --------------------------
(* Small instances of WebhookDelivery for TLC. *)
EXTENDS WebhookDelivery, TLC

CONSTANTS e1, e2, t1, t2, o1

OneEvent  == [e \in {e1} |-> t1]
TwoEvents == [e \in {e1, e2} |-> IF e = e1 THEN t1 ELSE t2]
SameType  == [e \in {e1, e2} |-> t1]
SameObject == [e \in Events |-> o1]
AllPairs == Events \X Endpoints

Symmetry == Permutations(Workers)
=============================================================================
