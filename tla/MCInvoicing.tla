----------------------------- MODULE MCInvoicing -----------------------------
(* Small instances of Invoicing for TLC: a credit balance, and a debt. *)
EXTENDS Invoicing, TLC

CONSTANTS c1, c2

Symmetry == Permutations(Workers)

NoCredit  == [c \in {} |-> 0]
SomeCredit == [c \in {c1} |-> 2]
CreditAndDebt == [c \in {c1, c2} |-> IF c = c1 THEN 2 ELSE -2]
=============================================================================
