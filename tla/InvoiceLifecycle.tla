--------------------------- MODULE InvoiceLifecycle ---------------------------
(***************************************************************************)
(* What the invoicing pillar promises of one invoice, whoever asks: it is  *)
(* edited or deleted as a draft, finalized once, collected while open, and *)
(* ends paid, voided or uncollectible.  Collection never takes back money, *)
(* and bills more than finalization did only for a customer's debt, which  *)
(* it then has billed.                                                     *)
(***************************************************************************)
EXTENDS Integers

CONSTANTS Invoices, Debtors

VARIABLES status, due, paid, owed

money == <<due, paid, owed>>
lifecycle == <<status, due, paid, owed>>

Becomes(i, s) == status' = [status EXCEPT ![i] = s]
Bills(i, n)   == due' = [due EXCEPT ![i] = n]
Holds(i, n)   == paid' = [paid EXCEPT ![i] = n]

Init ==
  /\ status = [i \in Invoices |-> "none"]
  /\ due = [i \in Invoices |-> 0]
  /\ paid = [i \in Invoices |-> 0]
  /\ owed \in [Debtors -> Nat]

Create(i) ==
  /\ status[i] = "none"
  /\ Becomes(i, "draft")
  /\ Bills(i, due'[i]) /\ due'[i] \in Nat
  /\ UNCHANGED <<paid, owed>>

Edit(i) ==
  /\ status[i] = "draft"
  /\ Bills(i, due'[i]) /\ due'[i] \in Nat
  /\ UNCHANGED <<status, paid, owed>>

Delete(i) ==
  /\ status[i] = "draft"
  /\ Becomes(i, "deleted")
  /\ Bills(i, 0)
  /\ UNCHANGED <<paid, owed>>

\* Finalization freezes the amounts.
Finalize(i) ==
  /\ status[i] = "draft"
  /\ Becomes(i, "open")
  /\ UNCHANGED money

\* Credit lowers what is due.
UseCredit(i) == Bills(i, due'[i]) /\ due'[i] \in 0..due[i] /\ UNCHANGED owed

\* A debt is added to it, and is no more.
BillDebt(i, c) ==
  /\ owed[c] > 0
  /\ Bills(i, due[i] + owed[c])
  /\ owed' = [owed EXCEPT ![c] = 0]

\* Cash raises what is paid; the invoice stays open exactly as long as
\* something remains, unless credit settled it.
Collect(i) ==
  /\ status[i] = "open"
  /\ UseCredit(i) \/ \E c \in Debtors : BillDebt(i, c)
  /\ Holds(i, paid'[i]) /\ paid'[i] \in Nat /\ paid'[i] >= paid[i]
  /\ \/ paid'[i] < due'[i] /\ UNCHANGED status
     \/ Becomes(i, "paid")

GiveUp(i) ==
  /\ status[i] = "open"
  /\ Becomes(i, "voided") \/ Becomes(i, "uncollectible")
  /\ UNCHANGED money

Next ==
  \E i \in Invoices :
    Create(i) \/ Edit(i) \/ Delete(i) \/ Finalize(i) \/ Collect(i) \/ GiveUp(i)

Spec == Init /\ [][Next]_lifecycle
===============================================================================
