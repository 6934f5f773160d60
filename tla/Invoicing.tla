------------------------------ MODULE Invoicing ------------------------------
(***************************************************************************)
(* The invoice service: drafts, finalization, collection and the terminal  *)
(* transitions, as concurrent HTTP handlers over one database.             *)
(*                                                                         *)
(* Every `await` of a handler is a point where other handlers run.  A      *)
(* handler that reads a row, awaits and then writes is therefore several   *)
(* actions; what it holds between them (the row it read, the credit it     *)
(* saw, the amounts it settled on) is job[w].  One db.query call, with all *)
(* its statements, is one step: the repository relies on that.             *)
(***************************************************************************)
EXTENDS Integers, FiniteSets, FiniteSetsExt

CONSTANTS
  Invoices,       \* ids, each minted by at most one POST /invoices
  Customers,      \* customer ids a body may name
  OpeningCredit,  \* credit_balance of each customer that has a row; a debt below 0
  Workers,        \* handlers in flight at the same time
  LineTotals,     \* charged totals of the line items a body may carry
  ChargeAmounts,  \* the `amount` a charge body may carry
  Unspecified,    \* a body field left out
  NoCustomer,     \* the customer of an id that has no row
  NoJob,          \* what an idle worker holds
  MaxRequests,    \* bound on the requests of a behaviour
  Faults          \* may a handler die between two of its steps?

Registered == DOMAIN OpeningCredit

ASSUME AmountsAssumption ==
  /\ LineTotals \subseteq Nat
  /\ ChargeAmounts \subseteq Nat \ {0}
  /\ Unspecified \notin Nat
  /\ MaxRequests \in Nat
  /\ Faults \in BOOLEAN

ASSUME CustomersAssumption ==
  /\ OpeningCredit \in [Registered -> Int]
  /\ Registered \subseteq Customers
  /\ NoCustomer \notin Customers

VARIABLES
  invoices,   \* the invoice table
  credit,     \* customer.credit_balance
  events,     \* outbox_event rows per invoice and type
  captured,   \* what the gateway took from the payer, per invoice (its ledger)
  pc, job,    \* per handler: the step it is at and what it holds
  requests    \* requests taken so far

vars == <<invoices, credit, events, captured, pc, job, requests>>

Collections == {"charge_automatically", "send_invoice"}
Terminal == {"paid", "voided", "uncollectible"}
Statuses == {"none", "draft", "open", "deleted"} \cup Terminal

EventTypes ==
  {"invoice.created", "invoice.finalized", "invoice.paid", "invoice.voided",
   "invoice.marked_uncollectible", "invoice.payment_failed",
   "invoice.payment_action_required"}

\* The money buckets of an invoice.
Totals == [due: Nat, paid: Nat, remaining: Nat, overpaid: Nat]

Rows == [status: Statuses, customer: Customers \cup {NoCustomer},
         collection: Collections, lines: Nat, totals: Totals]

\* Nothing paid, all of it remaining.
Unpaid(n) == [due |-> n, paid |-> 0, remaining |-> n, overpaid |-> 0]

\* An id without a row: not yet created, or deleted.
Blank(s) == [status |-> s, customer |-> NoCustomer,
             collection |-> "send_invoice", lines |-> 0, totals |-> Unpaid(0)]

Steps == {"idle", "editing", "deleting", "finalizing", "reading_credit",
          "calling", "settling_credit", "settling", "failed",
          "action_required", "voiding", "writing_off"}

Jobs == [inv: Invoices, read: Rows, amount: ChargeAmounts \cup {Unspecified},
         avail: Int, applied: Int, cash: Nat]

Max0(n) == IF n > 0 THEN n ELSE 0
Least(m, n) == IF m <= n THEN m ELSE n

-----------------------------------------------------------------------------
(* The pure money operators of the service.                                *)

\* The lines and totals computed from a body's, or a draft's, line items.
WithLines(row, n) == [row EXCEPT !.lines = n, !.totals = Unpaid(n)]

\* Mutant: the clamp at zero is missing.
Reduced_Unclamped(due, applied) == due - applied
Reduced(due, applied) == Max0(due - applied)

\* Mutant: the credit applied is also counted as cash paid.
Settled_CreditAsCash(totals, applied, cash) ==
  LET due  == Reduced(totals.due, applied)
      paid == totals.paid + applied + cash
  IN  [due |-> due, paid |-> paid,
       remaining |-> Max0(due - paid), overpaid |-> Max0(paid - due)]

\* The buckets after credit and cash were put towards an invoice.
Settled(totals, applied, cash) ==
  LET due  == Reduced(totals.due, applied)
      paid == totals.paid + cash
  IN  [due |-> due, paid |-> paid,
       remaining |-> Max0(due - paid), overpaid |-> Max0(paid - due)]

ApplyPaid(row, applied) ==
  [row EXCEPT !.totals = Settled(row.totals, applied, 0), !.status = "paid"]

\* Mutant: off by one, an exactly covered invoice stays open.
CoversDue_Strictly(totals) == totals.paid > totals.due
CoversDue(totals) == totals.paid >= totals.due

ApplySuccess(row, applied, cash) ==
  LET totals == Settled(row.totals, applied, cash)
  IN  [row EXCEPT !.totals = totals,
                  !.status = IF CoversDue(totals) THEN "paid" ELSE "open"]

-----------------------------------------------------------------------------
(* The statements of the repository.                                       *)

\* Mutant: the draft-only statements lose their AND status = 'draft'.
WhereDraft_Any(i) == invoices[i].status \notin {"none", "deleted"}
WhereDraft(i) == invoices[i].status = "draft"

Announce(i, type) == events' = [events EXCEPT ![i][type] = @ + 1]

\* UPDATE invoice SET <money, status> WHERE id: the row takes the values the
\* handler computed from the row it read.
WriteMoney(i, next) ==
  invoices' = [invoices EXCEPT ![i].totals = next.totals,
                               ![i].status = next.status]

\* UPDATE customer SET credit_balance = <value>: no row, no effect.
WriteCredit(c, value) ==
  credit' = IF c \in Registered THEN [credit EXCEPT ![c] = value] ELSE credit

-----------------------------------------------------------------------------
(* Control shared by the handlers.                                         *)

Init ==
  /\ invoices = [i \in Invoices |-> Blank("none")]
  /\ credit = OpeningCredit
  /\ events = [i \in Invoices |-> [t \in EventTypes |-> 0]]
  /\ captured = [i \in Invoices |-> 0]
  /\ pc = [w \in Workers |-> "idle"]
  /\ job = [w \in Workers |-> NoJob]
  /\ requests = 0

Accept == requests < MaxRequests /\ requests' = requests + 1

\* A handler has read the row it is about and goes on to `step` with `read`.
Begin(w, i, step, read, amount) ==
  /\ pc[w] = "idle"
  /\ Accept
  /\ pc' = [pc EXCEPT ![w] = step]
  /\ job' = [job EXCEPT ![w] = [inv |-> i, read |-> read, amount |-> amount,
                                avail |-> 0, applied |-> 0, cash |-> 0]]
  /\ UNCHANGED <<invoices, credit, events, captured>>

\* The handler answers: its last step.
Reply(w) ==
  /\ pc' = [pc EXCEPT ![w] = "idle"]
  /\ job' = [job EXCEPT ![w] = NoJob]
  /\ UNCHANGED requests

-----------------------------------------------------------------------------
(* Drafts.                                                                 *)

\* POST /invoices: the row and its event in one request.
CreateInvoice(i, c, method, total) ==
  /\ invoices[i].status = "none"
  /\ Accept
  /\ invoices' = [invoices EXCEPT ![i] =
        WithLines([Blank("draft") EXCEPT !.customer = c,
                                          !.collection = method], total)]
  /\ Announce(i, "invoice.created")
  /\ UNCHANGED <<credit, captured, pc, job>>

\* The check of the draft handlers on the row they read.
Editable(row) == row.status = "draft"

\* PATCH /invoices/:id reads a draft and merges the body into what it read.
ReadForUpdate(w, i, c, method, total) ==
  /\ Editable(invoices[i])
  /\ LET row  == invoices[i]
         head == [row EXCEPT
                    !.customer = IF c = Unspecified THEN @ ELSE c,
                    !.collection = IF method = Unspecified THEN @ ELSE method]
         next == IF total = Unspecified THEN head ELSE WithLines(head, total)
     IN  Begin(w, i, "editing", next, Unspecified)

\* It then replaces the row if that is still a draft.
WriteUpdate(w) ==
  LET i == job[w].inv
      next == job[w].read
  IN  /\ pc[w] = "editing"
      /\ invoices' = IF WhereDraft(i)
                     THEN [invoices EXCEPT ![i] =
                             [next EXCEPT !.status = invoices[i].status]]
                     ELSE invoices
      /\ Reply(w)
      /\ UNCHANGED <<credit, events, captured>>

\* DELETE /invoices/:id.
ReadForDelete(w, i) ==
  /\ Editable(invoices[i])
  /\ Begin(w, i, "deleting", invoices[i], Unspecified)

WriteDelete(w) ==
  LET i == job[w].inv
  IN  /\ pc[w] = "deleting"
      /\ invoices' = IF WhereDraft(i)
                     THEN [invoices EXCEPT ![i] = Blank("deleted")]
                     ELSE invoices
      /\ Reply(w)
      /\ UNCHANGED <<credit, events, captured>>

\* POST /invoices/:id/finalize recomputes the totals from the lines it read.
ReadForFinalize(w, i) ==
  /\ Editable(invoices[i])
  /\ Begin(w, i, "finalizing", WithLines(invoices[i], invoices[i].lines),
           Unspecified)

\* The row is opened if it is still a draft, keeping its own line items; the
\* event is inserted whether or not the row was touched.
WriteFinalize(w) ==
  LET i == job[w].inv
      next == [job[w].read EXCEPT !.status = "open"]
  IN  /\ pc[w] = "finalizing"
      /\ IF WhereDraft(i) THEN WriteMoney(i, next) ELSE UNCHANGED invoices
      /\ Announce(i, "invoice.finalized")
      /\ Reply(w)
      /\ UNCHANGED <<credit, captured>>

-----------------------------------------------------------------------------
(* Collection.                                                             *)

Chargeable(row) ==
  /\ row.collection = "charge_automatically"
  /\ row.status = "open"
  /\ row.totals.due > row.totals.paid

\* POST /invoices/:id/charge reads the invoice.
ReadForCharge(w, i, amount) ==
  /\ Chargeable(invoices[i])
  /\ Begin(w, i, "reading_credit", invoices[i], amount)

CreditUse(avail, requested) == Least(avail, requested)

\* It reads the customer's credit (none without a customer row) and splits
\* the amount between credit and gateway; a debt is charged on top of it.
ReadCredit(w) ==
  LET j == job[w]
      requested == IF j.amount = Unspecified
                   THEN j.read.totals.due - j.read.totals.paid
                   ELSE j.amount
      c       == j.read.customer
      avail   == IF c \in Registered THEN credit[c] ELSE 0
      applied == CreditUse(avail, requested)
      cash    == requested - applied
  IN  /\ pc[w] = "reading_credit"
      /\ job' = [job EXCEPT ![w] = [j EXCEPT !.avail = avail,
                                    !.applied = applied, !.cash = Max0(cash)]]
      /\ pc' = [pc EXCEPT ![w] = IF cash <= 0 THEN "settling_credit"
                                              ELSE "calling"]
      /\ UNCHANGED <<invoices, credit, events, captured, requests>>

\* The routed gateway captures the cash, wants the payer to act, or refuses.
GatewayCaptures(w) ==
  /\ pc[w] = "calling"
  /\ captured' = [captured EXCEPT ![job[w].inv] = @ + job[w].cash]
  /\ pc' = [pc EXCEPT ![w] = "settling"]
  /\ UNCHANGED <<invoices, credit, events, job, requests>>

GatewayDefers(w) ==
  /\ pc[w] = "calling"
  /\ pc' = [pc EXCEPT ![w] = "action_required"]
  /\ UNCHANGED <<invoices, credit, events, captured, job, requests>>

GatewayRefuses(w) ==
  /\ pc[w] = "calling"
  /\ pc' = [pc EXCEPT ![w] = "failed"]
  /\ UNCHANGED <<invoices, credit, events, captured, job, requests>>

\* An outcome that moves no money only inserts its event.
ReportAction(w) ==
  /\ pc[w] = "action_required"
  /\ Announce(job[w].inv, "invoice.payment_action_required")
  /\ Reply(w)
  /\ UNCHANGED <<invoices, credit, captured>>

ReportFailure(w) ==
  /\ pc[w] = "failed"
  /\ Announce(job[w].inv, "invoice.payment_failed")
  /\ Reply(w)
  /\ UNCHANGED <<invoices, credit, captured>>

\* Credit covered the whole amount: the invoice is settled without a charge.
SettleWithCredit(w) ==
  LET j == job[w]
      i == j.inv
  IN  /\ pc[w] = "settling_credit"
      /\ WriteMoney(i, ApplyPaid(j.read, j.applied))
      /\ WriteCredit(j.read.customer, j.avail - j.applied)
      /\ Announce(i, "invoice.paid")
      /\ Reply(w)
      /\ UNCHANGED captured

\* Mutant: a charge that closes the invoice inserts no event.
PaidOut_Silent(next) == FALSE
PaidOut(next) == next.status = "paid"

\* Mutant: the credit the charge used is not taken off the balance.
CreditLeft_Unspent(j, next) == j.avail + next.totals.overpaid
CreditLeft(j, next) == j.avail - j.applied + next.totals.overpaid

\* The gateway took the cash: money buckets, credit and event in one request.
SettleCharge(w) ==
  LET j == job[w]
      i == j.inv
      next == ApplySuccess(j.read, j.applied, j.cash)
  IN  /\ pc[w] = "settling"
      /\ WriteMoney(i, next)
      /\ WriteCredit(j.read.customer, CreditLeft(j, next))
      /\ IF PaidOut(next) THEN Announce(i, "invoice.paid") ELSE UNCHANGED events
      /\ Reply(w)
      /\ UNCHANGED captured

-----------------------------------------------------------------------------
(* The merchant gives the invoice up.                                      *)

ReadForVoid(w, i) ==
  /\ invoices[i].status = "open"
  /\ Begin(w, i, "voiding", invoices[i], Unspecified)

ReadForWriteOff(w, i) ==
  /\ invoices[i].status = "open"
  /\ Begin(w, i, "writing_off", invoices[i], Unspecified)

VoidInvoice(w) ==
  LET i == job[w].inv
  IN  /\ pc[w] = "voiding"
      /\ WriteMoney(i, [job[w].read EXCEPT !.status = "voided"])
      /\ Announce(i, "invoice.voided")
      /\ Reply(w)
      /\ UNCHANGED <<credit, captured>>

MarkUncollectible(w) ==
  LET i == job[w].inv
  IN  /\ pc[w] = "writing_off"
      /\ WriteMoney(i, [job[w].read EXCEPT !.status = "uncollectible"])
      /\ Announce(i, "invoice.marked_uncollectible")
      /\ Reply(w)
      /\ UNCHANGED <<credit, captured>>

-----------------------------------------------------------------------------

\* The handler dies between two steps: the process stops, or the connection
\* to the database or to the gateway throws.
Die(w) ==
  /\ Faults
  /\ pc[w] # "idle"
  /\ Reply(w)
  /\ UNCHANGED <<invoices, credit, events, captured>>

Arrive(w, i) ==
  \/ \E c \in Customers \cup {Unspecified},
        method \in Collections \cup {Unspecified},
        total \in LineTotals \cup {Unspecified} :
        ReadForUpdate(w, i, c, method, total)
  \/ ReadForDelete(w, i)
  \/ ReadForFinalize(w, i)
  \/ \E amount \in ChargeAmounts \cup {Unspecified} : ReadForCharge(w, i, amount)
  \/ ReadForVoid(w, i)
  \/ ReadForWriteOff(w, i)

Proceed(w) ==
  \/ WriteUpdate(w) \/ WriteDelete(w) \/ WriteFinalize(w)
  \/ ReadCredit(w)
  \/ GatewayCaptures(w) \/ GatewayDefers(w) \/ GatewayRefuses(w)
  \/ ReportAction(w) \/ ReportFailure(w)
  \/ SettleWithCredit(w) \/ SettleCharge(w)
  \/ VoidInvoice(w) \/ MarkUncollectible(w)
  \/ Die(w)

Next ==
  \/ \E i \in Invoices, c \in Customers, method \in Collections,
        total \in LineTotals : CreateInvoice(i, c, method, total)
  \/ \E w \in Workers, i \in Invoices : Arrive(w, i)
  \/ \E w \in Workers : Proceed(w)

Spec == Init /\ [][Next]_vars

-----------------------------------------------------------------------------
(* What holds however the handlers interleave and whenever they die.       *)

\* Every variable has its type: the rows, the held jobs and the ledgers.
TypeOK ==
  /\ invoices \in [Invoices -> Rows]
  /\ credit \in [Registered -> Int]
  /\ events \in [Invoices -> [EventTypes -> Nat]]
  /\ captured \in [Invoices -> Nat]
  /\ pc \in [Workers -> Steps]
  /\ job \in [Workers -> Jobs \cup {NoJob}]
  /\ \A w \in Workers : pc[w] # "idle" => job[w] \in Jobs
  /\ requests \in Nat

Finalized(i) == invoices[i].status \in {"open"} \cup Terminal

\* No invoice ever records more cash than the gateway really took for it,
\* although charges settle from stale rows and may die after the capture
\* (InvoiceService.charge reads, awaits the gateway, then overwrites).
PaidWithinCaptured == \A i \in Invoices : invoices[i].totals.paid <= captured[i]

\* Only an invoice collected automatically is ever charged: the check of
\* collection_method in charge() is made on a row read earlier, and a PATCH
\* that could change the method may be between its read and its write.
OnlyAutomaticIsCharged ==
  \A i \in Invoices :
    captured[i] > 0 => invoices[i].collection = "charge_automatically"

\* An open invoice still owes something, unless it was finalized for nothing:
\* an open row with no remaining balance could be neither charged (409) nor
\* ever become paid.  Charges, also of stale rows, decide between open and
\* paid from the numbers they write.
OpenStillOwes ==
  \A i \in Invoices :
    invoices[i].status = "open" =>
      \/ invoices[i].totals.remaining > 0
      \/ invoices[i].totals = Unpaid(0)

\* Finalization and each terminal status reached is in the outbox: no state
\* change without its canonical event (the T01 in-transaction pattern), even
\* where the row is finalized by one handler and closed by another.  (The
\* converse fails: handlers that overlap announce what did not happen.)
ChangesAnnounced ==
  \A i \in Invoices :
    /\ Finalized(i) => events[i]["invoice.finalized"] > 0
    /\ invoices[i].status = "paid" => events[i]["invoice.paid"] > 0
    /\ invoices[i].status = "voided" => events[i]["invoice.voided"] > 0
    /\ invoices[i].status = "uncollectible" =>
         events[i]["invoice.marked_uncollectible"] > 0

\* Finalization is one-way: no stale PATCH, DELETE or finalize takes a row
\* that has left draft back, removes it, or changes what it bills to whom
\* (the WHERE status = 'draft' of the repository's statements).
FinalizationIsOneWay ==
  [][\A i \in Invoices : Finalized(i) =>
       /\ Finalized(i)'
       /\ invoices'[i].lines = invoices[i].lines
       /\ invoices'[i].customer = invoices[i].customer
       /\ invoices'[i].collection = invoices[i].collection]_vars

-----------------------------------------------------------------------------
(* What holds when requests are served one at a time; two handlers that    *)
(* interleave break each of these.                                         *)

\* Money captured for an invoice is money recorded on it, once the handlers
\* that deal with it have answered: nobody pays twice for one balance.
CapturedIsRecorded ==
  \A i \in Invoices :
    (\A w \in Workers : pc[w] = "idle" \/ job[w].inv # i)
      => captured[i] = invoices[i].totals.paid

\* What credit did for the finalized invoices of c: applied to what was due
\* less what overpayment gave back.
CreditUsed(c) ==
  MapThenSumSet(LAMBDA i : invoices[i].lines - invoices[i].totals.due
                             - invoices[i].totals.overpaid,
                {i \in Invoices : Finalized(i) /\ invoices[i].customer = c})

\* A customer's credit is spent once: what is left and what was applied to
\* invoices never exceed what there was and what was overpaid.  Of a debt the
\* same says that it is not forgiven: what is left of it and what invoices
\* billed for it are no less than it was.
CreditSpentOnce ==
  \A c \in Registered : credit[c] + CreditUsed(c) <= OpeningCredit[c]

\* Served one at a time, the service implements the lifecycle it documents, and
\* a debt is billed once, on top of one invoice.
Debt(balance) == Max0(0 - balance)
Lifecycle == INSTANCE InvoiceLifecycle WITH
  Debtors <- Registered,
  status  <- [i \in Invoices |-> invoices[i].status],
  due     <- [i \in Invoices |-> invoices[i].totals.due],
  paid    <- [i \in Invoices |-> invoices[i].totals.paid],
  owed    <- [c \in Registered |-> Debt(credit[c])]

LifecycleSpec == Lifecycle!Spec

-----------------------------------------------------------------------------
(* More of what the documents say; the README tells which of these the     *)
(* code keeps, and when.                                                   *)

\* Paid, voided and uncollectible are terminal: nothing moves a settled
\* invoice again (voidInvoice, markUncollectible and charge all check for
\* open on a row read earlier).
TerminalIsTerminal ==
  [][\A i \in Invoices : invoices[i].status \in Terminal =>
       invoices'[i].status = invoices[i].status]_vars

\* A paid invoice is covered: the cash recorded on it is at least what is due.
PaidIsCovered ==
  \A i \in Invoices :
    invoices[i].status = "paid" => invoices[i].totals.paid >= invoices[i].totals.due

\* invoice.finalized is only inserted by the step that finalizes the row.
FinalizedEventsAreTrue ==
  [][\A i \in Invoices :
       events'[i]["invoice.finalized"] # events[i]["invoice.finalized"]
         => ~Finalized(i) /\ Finalized(i)']_vars

\* What a finalized invoice bills is at most what its line items add up to and,
\* if the customer had one, the debt that prorations left.
DueIsAccountedFor ==
  \A i \in Invoices :
    LET row == invoices[i]
    IN  Finalized(i) =>
          row.totals.due <= row.lines + (IF row.customer \in Registered
                                         THEN Debt(OpeningCredit[row.customer]) ELSE 0)

\* Nor does any of it vanish: credit that is neither left nor applied would
\* be money the customer overpaid and lost.
CreditConserved ==
  \A c \in Registered : credit[c] + CreditUsed(c) >= OpeningCredit[c]
=============================================================================
