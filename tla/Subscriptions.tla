---------------------------- MODULE Subscriptions ----------------------------
(***************************************************************************)
(* One subscription: the period-close that bills it, the dunning loop that *)
(* re-charges a failed cycle invoice, cancellation and the trial notice.   *)
(*                                                                         *)
(* Every request and every run of the dunning ticker is a handler that     *)
(* reads rows, awaits, and later writes what it worked out from them, with *)
(* WHERE clauses that name ids only.  Between two of its steps any other   *)
(* handler may take its own, the merchant may open, delete, collect or     *)
(* close the invoice through the invoicing routes, and the process may     *)
(* stop.                                                                   *)
(***************************************************************************)
EXTENDS Naturals, FiniteSets

CONSTANTS
  Handlers,     \* requests and ticker runs under way at the same time
  Cycles,       \* ids of cycle invoices: 1..n, used in order
  Attempts,     \* ids of dunning_attempt rows: 1..n, used in order
  MaxAttempts,  \* DUNNING_MAX_ATTEMPTS
  Outcomes,     \* what a gateway charge may answer
  Billable,     \* whether the items give line items when a period closes
  Chargeable,   \* whether an opened invoice is one the charge route takes
  Methods,      \* whether a failed charge is reported with a method
  Statuses,     \* the statuses a subscription may be created in
  Ops,          \* the operations the environment uses
  MaxPeriod,    \* bound on the periods closed
  MaxReports    \* bound on the failed charges reported

ASSUME SubscriptionAssumption ==
  /\ MaxAttempts \in Nat \ {0}
  /\ Cycles \subseteq Nat \ {0} /\ Attempts \subseteq Nat \ {0}
  /\ IsFiniteSet(Cycles) /\ IsFiniteSet(Attempts)
  /\ Outcomes \subseteq {"paid", "action", "retryable", "final"}
  /\ Billable \subseteq BOOLEAN /\ Chargeable \subseteq BOOLEAN
  /\ Methods \subseteq BOOLEAN
  /\ Statuses \subseteq {"trialing", "active"}
  /\ MaxPeriod \in Nat /\ MaxReports \in Nat

VARIABLES
  sub,      \* the subscription row
  cycle,    \* the invoices made for it, with their latest payment event
  attempt,  \* the dunning_attempt rows
  pc,       \* per handler: the step it is at
  job,      \* per handler: the rows it read and the ids it works on
  reports,  \* failed charges reported so far (bounded)
  closed,   \* the periods closed (history)
  notices   \* subscription.trial_will_end events in the outbox (history)

vars == <<sub, cycle, attempt, pc, job, reports, closed, notices>>

SubRows == [status: {"trialing", "active", "past_due", "canceled"}, period: Nat,
            cancelAtEnd: BOOLEAN, noticeSent: BOOLEAN]

\* chargeable: collected automatically, with something left to pay.
CycleRows == [status: {"none", "draft", "deleted", "open", "paid", "closed"},
              period: Nat, linked: BOOLEAN, chargeable: BOOLEAN,
              event: Outcomes \cup {"none", "paid"}]
NoCycle == [status |-> "none", period |-> 0, linked |-> FALSE,
            chargeable |-> FALSE, event |-> "none"]

AttemptRows == [state: {"none", "pending", "past_due", "canceled", "deleted"},
                attempt: Nat, due: BOOLEAN, method: BOOLEAN,
                invoice: Cycles \cup {0}]
NoAttempt == [state |-> "none", attempt |-> 0, due |-> FALSE, method |-> FALSE,
              invoice |-> 0]

Steps == {"idle", "create", "link", "check", "finalize", "roll", "seek", "record",
          "find", "stop", "charge", "gateway", "classify", "postpone", "retry", "giveup",
          "reactivate", "cancel", "notify"}
Jobs == [sub: SubRows, id: Attempts \cup {0}, row: AttemptRows, invoice: Cycles \cup {0}]
NewSub(s) == [status |-> s, period |-> 0, cancelAtEnd |-> FALSE, noticeSent |-> FALSE]
NoJob == [sub |-> NewSub("active"), id |-> 0, row |-> NoAttempt, invoice |-> 0]

Init ==
  /\ sub \in {NewSub(s) : s \in Statuses}
  /\ cycle = [c \in Cycles |-> NoCycle]
  /\ attempt = [a \in Attempts |-> NoAttempt]
  /\ pc = [h \in Handlers |-> "idle"]
  /\ job = [h \in Handlers |-> NoJob]
  /\ reports = 0
  /\ closed = {}
  /\ notices = 0

-----------------------------------------------------------------------------
(* A handler's first read is SELECT * FROM subscription; it works on that
   copy for the rest of the request.                                         *)
Read(h, op, step) ==
  /\ op \in Ops
  /\ pc[h] = "idle"
  /\ pc' = [pc EXCEPT ![h] = step]
  /\ job' = [job EXCEPT ![h] = [NoJob EXCEPT !.sub = sub]]

At(h, step) == pc[h] = step

Go(h, step) == pc' = [pc EXCEPT ![h] = step] /\ UNCHANGED job

End(h) ==
  /\ pc' = [pc EXCEPT ![h] = "idle"]
  /\ job' = [job EXCEPT ![h] = NoJob]

Least(S) == CHOOSE x \in S : \A y \in S : x <= y

-----------------------------------------------------------------------------
(* POST /subscriptions/:id/close_period *)

\* An active subscription is billed for the period, a trial becomes active, and
\* a past_due one only rolls; 409 when it is canceled.
ClosePeriod(h) ==
  /\ sub.status # "canceled"
  /\ sub.period < MaxPeriod
  /\ \/ sub.status = "active" /\ TRUE \in Billable /\ Read(h, "close", "create")
     \/ sub.status = "active" /\ FALSE \in Billable /\ Read(h, "close", "roll")
     \/ sub.status # "active" /\ Read(h, "close", "roll")
  /\ UNCHANGED <<sub, cycle, attempt, reports, closed, notices>>

\* Mutant: the invoice is finalized without being linked.
AfterCreate_Finalize == "check"
AfterCreate == "link"

CreateCycleInvoice(h) ==
  LET unused == {c \in Cycles : cycle[c].status = "none"}
      c      == Least(unused)
  IN  /\ At(h, "create")
      /\ unused # {}
      /\ cycle' = [cycle EXCEPT ![c] = [NoCycle EXCEPT !.status = "draft",
                                                       !.period = job[h].sub.period]]
      /\ pc' = [pc EXCEPT ![h] = AfterCreate]
      /\ job' = [job EXCEPT ![h].invoice = c]
      /\ UNCHANGED <<sub, attempt, reports, closed, notices>>

\* UPDATE ... WHERE id: a draft that was deleted has no row to link.
LinkCycleInvoice(h) ==
  LET c == job[h].invoice
  IN  /\ At(h, "link")
      /\ cycle' = [cycle EXCEPT ![c].linked = @ \/ cycle[c].status # "deleted"]
      /\ Go(h, "check")
      /\ UNCHANGED <<sub, attempt, reports, closed, notices>>

\* finalize reads the invoice and answers 404 or 409 unless it is a draft.
CheckCycleInvoice(h) ==
  /\ At(h, "check")
  /\ \/ cycle[job[h].invoice].status = "draft" /\ Go(h, "finalize")
     \/ cycle[job[h].invoice].status # "draft" /\ End(h)
  /\ UNCHANGED <<sub, cycle, attempt, reports, closed, notices>>

\* Opening an invoice is guarded by WHERE status = 'draft'.  What it bills, and
\* how, is as its last edit left it.
Opened(c) ==
  IF cycle[c].status = "draft"
  THEN \E b \in Chargeable :
         cycle' = [cycle EXCEPT ![c].status = "open", ![c].chargeable = b]
  ELSE UNCHANGED cycle

FinalizeCycleInvoice(h) ==
  /\ At(h, "finalize")
  /\ Opened(job[h].invoice)
  /\ Go(h, "roll")
  /\ UNCHANGED <<sub, attempt, reports, closed, notices>>

NextPeriod(p) == p + 1

\* rollPeriod writes the status that was read and drops status_transitions.
RollPeriod(h) ==
  /\ At(h, "roll")
  /\ sub' = [sub EXCEPT !.status = IF job[h].sub.status = "trialing"
                                   THEN "active" ELSE job[h].sub.status,
                        !.period = NextPeriod(job[h].sub.period),
                        !.noticeSent = FALSE]
  /\ closed' = closed \cup {[period  |-> job[h].sub.period,
                             trial   |-> job[h].sub.status = "trialing",
                             invoice |-> job[h].invoice]}
  /\ End(h)
  /\ UNCHANGED <<cycle, attempt, reports, notices>>

-----------------------------------------------------------------------------
(* POST /subscriptions/:id/dunning/on_failed_charge *)

\* The row findDunningAttempt may return: pending or past_due, LIMIT 1.
Active(row) == row.state \in {"pending", "past_due"}

\* Any invoice may be named, whatever its status: nothing looks it up.  (An id
\* of no invoice is answered later as a deleted one is.)
ReportFailedCharge(h) ==
  /\ reports < MaxReports
  /\ reports' = reports + 1
  /\ \E c \in Cycles : /\ cycle[c].status # "none"
                       /\ "fail" \in Ops
                       /\ pc[h] = "idle"
                       /\ pc' = [pc EXCEPT ![h] = "seek"]
                       /\ job' = [job EXCEPT ![h] = [NoJob EXCEPT !.sub = sub,
                                                                  !.invoice = c]]
  /\ UNCHANGED <<sub, cycle, attempt, closed, notices>>

\* Id 0 stands for "none found": the transaction will insert a row.
SeekAttempt(h) ==
  LET found == {a \in Attempts : Active(attempt[a])}
  IN  /\ At(h, "seek")
      /\ \E a \in (IF found = {} THEN {0} ELSE found) :
           job' = [job EXCEPT ![h].id = a]
      /\ pc' = [pc EXCEPT ![h] = "record"]
      /\ UNCHANGED <<sub, cycle, attempt, reports, closed, notices>>

\* Mutant: attempts are counted from zero, which allows one re-charge more.
FirstAttempt_Zero == 0
FirstAttempt == 1

\* UPDATE ... WHERE id writes nothing when the row has been deleted.
Write(a, row) ==
  attempt' = IF attempt[a].state = "deleted" THEN attempt
             ELSE [attempt EXCEPT ![a] = row]

RecordFailedCharge(h) ==
  LET unused == {a \in Attempts : attempt[a].state = "none"}
  IN  /\ At(h, "record")
      /\ job[h].id = 0 => unused # {}
      /\ \E m \in Methods :
           Write(IF job[h].id = 0 THEN Least(unused) ELSE job[h].id,
                 [state |-> "pending", attempt |-> FirstAttempt, due |-> TRUE,
                  method |-> m, invoice |-> job[h].invoice])
      /\ sub' = [sub EXCEPT !.status = "past_due", !.noticeSent = job[h].sub.noticeSent]
      /\ End(h)
      /\ UNCHANGED <<cycle, reports, closed, notices>>

-----------------------------------------------------------------------------
(* runDunning, from the ticker or from POST /subscriptions/:id/dunning/run *)

\* The ticker runs the subscriptions with a pending attempt that is due.
Tick(h) ==
  /\ \E a \in Attempts : attempt[a].state = "pending" /\ attempt[a].due
  /\ Read(h, "tick", "find")
  /\ UNCHANGED <<sub, cycle, attempt, reports, closed, notices>>

RunDunning(h) ==
  /\ Read(h, "run", "find")
  /\ UNCHANGED <<sub, cycle, attempt, reports, closed, notices>>

FindAttempt(h) ==
  LET found == {a \in Attempts : Active(attempt[a])}
  IN  /\ At(h, "find")
      /\ \/ found = {} /\ End(h)
         \/ \E a \in found : ~attempt[a].due /\ End(h)
         \/ \E a \in found :
              /\ attempt[a].due
              /\ job' = [job EXCEPT ![h].id = a, ![h].row = attempt[a]]
              /\ pc' = [pc EXCEPT ![h] = IF attempt[a].method THEN "charge" ELSE "stop"]
      /\ UNCHANGED <<sub, cycle, attempt, reports, closed, notices>>

\* InvoiceService.charge takes an open invoice that is charged automatically
\* and has something left to pay.
Takes(c) == cycle[c].status = "open" /\ cycle[c].chargeable

\* It reads the invoice and answers 404 or 409 to any other one, which ends the
\* run with the attempt as it was.
ChargeInvoice(h) ==
  /\ At(h, "charge")
  /\ \/ Takes(job[h].row.invoice) /\ Go(h, "gateway")
     \/ ~Takes(job[h].row.invoice) /\ End(h)
  /\ UNCHANGED <<sub, cycle, attempt, reports, closed, notices>>

\* Only a captured charge closes the invoice; every answer leaves an event.
Charged(c, o) ==
  cycle' = [cycle EXCEPT ![c].event  = o,
                         ![c].status = IF o = "paid" THEN "paid" ELSE @]

\* Mutant: a charge waiting for the payer counts as recovered.
Recovered_Action(o) == o \in {"paid", "action"}
Recovered(o) == o = "paid"

GatewayAnswers(h) ==
  /\ At(h, "gateway")
  /\ \E o \in Outcomes :
       /\ Charged(job[h].row.invoice, o)
       /\ Go(h, IF Recovered(o) THEN "reactivate" ELSE "classify")
  /\ UNCHANGED <<sub, attempt, reports, closed, notices>>

\* Mutant: a retryable failure does not use up an attempt.
NextAttempt_Same(row) == row.attempt
NextAttempt(row) == row.attempt + 1

\* Mutant: off by one.
Exhausted_Late(n) == n > MaxAttempts + 1
Exhausted(n) == n > MaxAttempts

\* The failure is judged by the latest payment event of the invoice.
Classify(h) ==
  LET event == cycle[job[h].row.invoice].event
  IN  /\ At(h, "classify")
      /\ \/ event = "action" /\ Go(h, "postpone")
         \/ /\ event = "retryable"
            /\ Go(h, IF Exhausted(NextAttempt(job[h].row)) THEN "giveup" ELSE "retry")
         \/ event \notin {"action", "retryable"} /\ Go(h, "stop")
      /\ UNCHANGED <<sub, cycle, attempt, reports, closed, notices>>

\* rescheduleAttempt: attempt, state and, unless it stops, due_at.
Reschedule(h, n, state, due) ==
  /\ Write(job[h].id, [attempt[job[h].id] EXCEPT !.attempt = n, !.state = state,
                                                 !.due = due /\ @])
  /\ End(h)
  /\ UNCHANGED <<sub, cycle, reports, closed, notices>>

Postpone(h) ==
  At(h, "postpone") /\ Reschedule(h, job[h].row.attempt, "pending", FALSE)
Retry(h) ==
  At(h, "retry") /\ Reschedule(h, NextAttempt(job[h].row), "pending", FALSE)
Stop(h) ==
  At(h, "stop") /\ Reschedule(h, job[h].row.attempt, "past_due", TRUE)

\* finalizeCancel: the budget is used up.
GiveUp(h) ==
  /\ At(h, "giveup")
  /\ Write(job[h].id, [attempt[job[h].id] EXCEPT !.state = "canceled"])
  /\ sub' = [sub EXCEPT !.status = "canceled", !.noticeSent = job[h].sub.noticeSent]
  /\ End(h)
  /\ UNCHANGED <<cycle, reports, closed, notices>>

\* finalizeSuccess: the attempt goes and the subscription is active again.
Reactivate(h) ==
  /\ At(h, "reactivate")
  /\ attempt' = [attempt EXCEPT ![job[h].id] = [NoAttempt EXCEPT !.state = "deleted"]]
  /\ sub' = [sub EXCEPT !.status = "active"]
  /\ End(h)
  /\ UNCHANGED <<cycle, reports, closed, notices>>

\* Time passes: due_at <= now.
BecomesDue(a) ==
  /\ attempt[a].state = "pending" /\ ~attempt[a].due
  /\ attempt' = [attempt EXCEPT ![a].due = TRUE]
  /\ UNCHANGED <<sub, cycle, pc, job, reports, closed, notices>>

-----------------------------------------------------------------------------
(* Cancellation, PATCH and the trial notice *)

CancelNow(h) ==
  /\ Read(h, "cancel", "cancel")
  /\ UNCHANGED <<sub, cycle, attempt, reports, closed, notices>>

\* Mutant: the active attempt is left for the ticker.
Terminated_Not(row) == row
Terminated(row) == [row EXCEPT !.state = "canceled"]

ApplyCancel(h) ==
  /\ At(h, "cancel")
  /\ attempt' = [a \in Attempts |-> IF attempt[a].state \in {"pending", "past_due"}
                                    THEN Terminated(attempt[a]) ELSE attempt[a]]
  /\ sub' = [sub EXCEPT !.status = "canceled", !.noticeSent = job[h].sub.noticeSent]
  /\ End(h)
  /\ UNCHANGED <<cycle, reports, closed, notices>>

\* Mode at_period_end only sets the flag; nothing reads it when a period closes.
CancelAtPeriodEnd ==
  /\ "later" \in Ops
  /\ sub' = [sub EXCEPT !.cancelAtEnd = TRUE]
  /\ UNCHANGED <<cycle, attempt, pc, job, reports, closed, notices>>

\* PATCH /subscriptions/:id; a body without the flag writes FALSE.
UpdateSubscription ==
  /\ "later" \in Ops
  /\ \E flag \in BOOLEAN : sub' = [sub EXCEPT !.cancelAtEnd = flag]
  /\ UNCHANGED <<cycle, attempt, pc, job, reports, closed, notices>>

\* Due in a trial whose marker in status_transitions is not set.
NoticeDue(s) == s.status = "trialing" /\ ~s.noticeSent

\* POST /subscriptions/:id/maintain, within a day of trial_end.
Maintain(h) ==
  /\ NoticeDue(sub)
  /\ Read(h, "maintain", "notify")
  /\ UNCHANGED <<sub, cycle, attempt, reports, closed, notices>>

MarkTrialWillEnd(h) ==
  /\ At(h, "notify")
  /\ sub' = [sub EXCEPT !.noticeSent = TRUE]
  /\ notices' = notices + 1
  /\ End(h)
  /\ UNCHANGED <<cycle, attempt, reports, closed>>

-----------------------------------------------------------------------------
(* What happens to the cycle invoice outside this component *)

\* A draft may be finalized or deleted by its id, linked or not.
FinalizedElsewhere(c) ==
  /\ "draft" \in Ops
  /\ cycle[c].status = "draft"
  /\ Opened(c)
  /\ UNCHANGED <<sub, attempt, pc, job, reports, closed, notices>>

DeletedElsewhere(c) ==
  /\ "draft" \in Ops
  /\ cycle[c].status = "draft"
  /\ cycle' = [cycle EXCEPT ![c].status = "deleted"]
  /\ UNCHANGED <<sub, attempt, pc, job, reports, closed, notices>>

ChargedElsewhere(c) ==
  /\ "collect" \in Ops
  /\ Takes(c)
  /\ \E o \in Outcomes : Charged(c, o)
  /\ UNCHANGED <<sub, attempt, pc, job, reports, closed, notices>>

ClosedElsewhere(c) ==
  /\ "void" \in Ops
  /\ cycle[c].status = "open"
  /\ cycle' = [cycle EXCEPT ![c].status = "closed"]
  /\ UNCHANGED <<sub, attempt, pc, job, reports, closed, notices>>

\* The process stops, or a query fails, between two steps of a handler.
Die(h) ==
  /\ "crash" \in Ops
  /\ pc[h] # "idle"
  /\ End(h)
  /\ UNCHANGED <<sub, cycle, attempt, reports, closed, notices>>

Work(h) ==
  \/ CreateCycleInvoice(h) \/ LinkCycleInvoice(h) \/ CheckCycleInvoice(h)
  \/ FinalizeCycleInvoice(h)
  \/ RollPeriod(h) \/ SeekAttempt(h) \/ RecordFailedCharge(h) \/ FindAttempt(h)
  \/ ChargeInvoice(h) \/ GatewayAnswers(h) \/ Classify(h) \/ Postpone(h) \/ Retry(h)
  \/ Stop(h) \/ GiveUp(h) \/ Reactivate(h) \/ ApplyCancel(h) \/ MarkTrialWillEnd(h)

Next ==
  \/ \E h \in Handlers : \/ ClosePeriod(h) \/ ReportFailedCharge(h) \/ Tick(h)
                         \/ RunDunning(h) \/ CancelNow(h) \/ Maintain(h)
                         \/ Work(h) \/ Die(h)
  \/ \E a \in Attempts : BecomesDue(a)
  \/ \E c \in Cycles : \/ FinalizedElsewhere(c) \/ DeletedElsewhere(c)
                       \/ ChargedElsewhere(c) \/ ClosedElsewhere(c)
  \/ CancelAtPeriodEnd \/ UpdateSubscription

Spec == Init /\ [][Next]_vars

\* A handler that has begun goes on, the interval timer fires, time passes.
LiveSpec ==
  /\ Spec
  /\ \A h \in Handlers : WF_vars(Work(h)) /\ WF_vars(Tick(h))
  /\ \A a \in Attempts : WF_vars(BecomesDue(a))
-----------------------------------------------------------------------------
(* Properties *)

\* Every variable has its type.
TypeOK ==
  /\ sub \in SubRows
  /\ cycle \in [Cycles -> CycleRows]
  /\ attempt \in [Attempts -> AttemptRows]
  /\ \A a \in Attempts : attempt[a].state \in {"pending", "past_due"} => attempt[a].attempt > 0
  /\ pc \in [Handlers -> Steps]
  /\ job \in [Handlers -> Jobs]
  /\ reports \in 0..MaxReports
  /\ closed \subseteq [period: Nat, trial: BOOLEAN, invoice: Cycles \cup {0}]
  /\ notices \in Nat

\* A row is active while the ticker or the run endpoint may pick it up.
IsActive(a) == attempt[a].state \in {"pending", "past_due"}

\* However runs, renewals and cancellations overlap, no attempt is scheduled
\* past max_attempts: the counter is written from a stale read, never added to.
BudgetKept == \A a \in Attempts : IsActive(a) => attempt[a].attempt <= MaxAttempts

\* A period that was closed with an invoice left one that carries the
\* subscription, by which dunning finds it, and is no draft any more, although
\* the merchant may open or delete the draft between any two steps of the close.
RolledIsLinked ==
  \A p \in closed : p.invoice # 0 =>
    cycle[p.invoice].linked /\ cycle[p.invoice].status \notin {"none", "draft"}

\* The subscription is past_due exactly while it has an attempt, running or
\* stopped: no recovery, give-up or cancellation leaves one without the other.
DunningTracksStatus == sub.status = "past_due" <=> \E a \in Attempts : IsActive(a)

\* A past_due subscription becomes active only when the invoice its attempt
\* was made for has been paid.
RecoveryIsPaid ==
  [][(sub.status = "past_due" /\ sub'.status = "active")
       => \E a \in Attempts : IsActive(a) /\ cycle[attempt[a].invoice].status = "paid"]_vars

\* A pending attempt does not stay pending: it is paid, given up, stopped or
\* canceled, unless its invoice waits for its payer or is one the charge route
\* refuses: not open, collected by send_invoice, or with nothing left to pay.
DunningEnds ==
  \A a \in Attempts :
    attempt[a].state = "pending" ~>
      \/ attempt[a].state # "pending"
      \/ ~Takes(attempt[a].invoice)
      \/ cycle[attempt[a].invoice].event = "action"

-----------------------------------------------------------------------------
(* What the repository's documents say and the code does not keep; the     *)
(* README tells how each comes about.                                      *)

\* recordFailedCharge renews the attempt it finds, so a subscription never has
\* two: each one would re-charge its invoice on its own schedule.
OneActiveAttempt == Cardinality({a \in Attempts : IsActive(a)}) <= 1

\* Two cycle invoices never bill the same period.
BilledOncePerPeriod ==
  \A c, d \in Cycles :
    (c # d /\ cycle[c].status # "none" /\ cycle[d].status # "none")
      => cycle[c].period # cycle[d].period

\* subscription.trial_will_end is emitted once.
NoticeOnce == notices <= 1

\* A canceled subscription has no attempt left for a ticker to charge.
CanceledIsQuiet == sub.status = "canceled" => \A a \in Attempts : ~IsActive(a)

\* Every period that was closed and was not a trial has its invoice.
ClosedIsBilled ==
  \A p \in closed :
    p.trial \/ \E c \in Cycles : cycle[c].status # "none" /\ cycle[c].period = p.period

\* A subscription that was canceled stays canceled.
CanceledIsTerminal == [][sub.status = "canceled" => sub'.status = "canceled"]_vars

\* A cycle invoice that has left draft carries its subscription.
FinalizedIsLinked ==
  \A c \in Cycles : cycle[c].status \in {"open", "paid", "closed"} => cycle[c].linked

\* A period that closes with cancel_at_period_end set ends the subscription.
CancelAtEndHonoured ==
  [][(sub.cancelAtEnd /\ sub'.period > sub.period) => sub'.status = "canceled"]_vars

\* An attempt is deleted only when the invoice it is about has been paid.
DroppedIsPaid ==
  [][\A a \in Attempts :
       (attempt[a].state # "deleted" /\ attempt'[a].state = "deleted")
         => cycle[attempt[a].invoice].status = "paid"]_vars

\* A stopped attempt is not run again: only a new failed charge renews it and
\* only a cancellation ends it.
StoppedStaysStopped ==
  [][\A a \in Attempts :
       (attempt[a].state = "past_due" /\ attempt'[a] # attempt[a])
         => \/ attempt'[a].state = "canceled"
            \/ attempt'[a].state = "pending" /\ attempt'[a].attempt = FirstAttempt]_vars

\* Once the failed invoice is paid the subscription leaves past_due.
PaidIsRecovered ==
  (sub.status = "past_due" /\ \A c \in Cycles : cycle[c].status \in {"none", "paid"})
    ~> sub.status # "past_due"
=============================================================================
