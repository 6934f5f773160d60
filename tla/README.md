# A formal model of tie-payments

TLA+ modules that model the concurrent core of the payment platform under
`src/`, the TLC configurations that check them on small instances, and TLAPS
proofs of the properties that matter most. Everything is translated from the
TypeScript and SurrealQL sources; `PROJECT.json` ("map") names, for each
definition, the lines it stands for.

## 1. The system

A payment platform for merchants: one Bun/Elysia process in front of one
SurrealDB database. HTTP handlers are `async` functions; each `await` of a query
or of a gateway call lets other handlers run. There are no locks. What protects
the data is (a) the UNIQUE indexes, (b) `WHERE` clauses that some statements
carry, (c) the fact that one `db.query` call reaches the database as one request.
Two timers (the webhook drainer and the dunning ticker) start handlers of their
own, without waiting for the run before.

| Component | State it keeps | Operations | Talks to |
|---|---|---|---|
| Invoicing (`modules/invoicing`) | `invoice` rows with money buckets, `customer.credit_balance`, invoice events in `outbox_event` | create, PATCH, DELETE, finalize, charge, void, mark_uncollectible | gateway (charge), idempotency store (create), outbox |
| Idempotency (`core/idempotency.ts`) | `idempotency` rows: in_progress or completed, TTL, cached response | claim, get, commit | every mutating route that takes a key |
| Payments (`modules/payments`) | `payment` rows | POST /payments (charge, insert), GET | gateway, idempotency |
| Webhook delivery (`modules/webhooks`) | `outbox_event`, `webhook_endpoint`, `event_delivery` rows, the in-memory `cooldownMs` map | endpoint routes, drain pass, redelivery | merchants' endpoints |
| Inbound webhooks (`modules/webhooks`) | `inbound_webhook` rows | POST /gateway/webhooks/:driver | gateways, sandbox, outbox |
| Subscriptions (`modules/subscriptions`) | `subscription`, `dunning_attempt` rows | create, PATCH, close_period, on_failed_charge, dunning run and tick, cancel, maintain | invoicing (create, finalize, charge), outbox |
| Cycle billing (`modules/subscriptions`, `billing.ts`) | `subscription_item` rows with their windows, `price`, `usage_record` rows, `customer.credit_balance` | price PATCH and DELETE, usage report, lines and roll of close_period, quantity change with proration | subscriptions, invoicing (lines, credit) |
| Sandbox (`modules/sandbox`) | `merchant` with its reveal stamp, `api_key`, routing rule | provision (sign-up hook), onboard (page read), complete a mock action | inbound webhooks, auth |
| Customization (`modules/customization`) | `field_schema` (versioned), `theme` | PUT with If-Match, DELETE, PUT theme | none |
| Gateways (`core/gateway`) | none (registry built at start) | route by rules, charge, normalize webhooks | external gateways |
| Auth and context (`auth`, `core/context.ts`, `core/apikey.ts`) | sessions (library), `api_key` | resolve merchant and environment | every route |

What is hard, component by component, and what makes it correct:

* **Invoicing** - a charge reads the invoice, reads the credit, awaits the
  gateway, and then overwrites both with values worked out from what it read.
  Correct: no more is recorded than was captured; terminal states stay; a
  finalized invoice never changes what it bills; credit is spent once; each
  transition has its event and each event its transition.
* **Idempotency** - retries race the original, owners die holding a claim,
  slow owners meet whoever took the claim over. Correct: one execution and one
  answer per key, and an answer in the end.
* **Webhook delivery** - passes overlap, the merchant edits endpoints in
  between, a restart forgets the backoff. Correct: every event delivered or
  dead-lettered, not both; as many tries as asked for; backoff and order kept.
* **Inbound webhooks** - the gateway repeats itself and handlers fail. Correct:
  every completed payment is announced exactly once.
* **Subscriptions** - a period close is four requests; the ticker, the hook, the
  run endpoint and the cancel route all write the same rows by id. Correct: a
  period is billed once, one attempt at a time, an attempt budget, a canceled
  subscription is never charged, a recovery implies a paid invoice, dunning ends.
* **Cycle billing** - the lines of a cycle are worked out from items read earlier, at
  the prices and with the usage of now; the roll writes windows over items whose
  quantity changed; proration adds to a balance that a charge overwrites. Correct:
  each usage record is in one cycle; lines cost what the price says; a quantity is
  billed that was paid for; credit adds up; periods follow on one another.
* **Sandbox** - sign-up hook and page reads provision the same user at once, each
  in several requests, and the raw keys exist in one answer only. Correct: one
  scaffold; keys shown once that go on working; a routing rule in the end.
* **Customization** - two editors work on one schema, clients send a PUT again,
  a schema is deleted while it is edited. Correct: an edit replaces what its
  editor saw, once; one theme per merchant.

`PROJECT.json` lists these hazards at their lines with the properties that
address them.

## 2. The modules

| Module | Models | Checked by | Proved in |
|---|---|---|---|
| `InvoiceLifecycle` | abstract life of an invoice: what `CONTEXT.md` promises | refinement target | |
| `Invoicing` | `invoicing/service.ts`, `repository.ts`, `index.ts` | `MCInvoicing` | `InvoicingProofs` |
| `Idempotency` | `core/idempotency.ts` with POST /payments or POST /invoices around it | `MCIdempotency` | `IdempotencyProofs` |
| `WebhookDelivery` | `webhooks/drainer.ts`, redelivery, endpoint routes | `MCWebhookDelivery` | `WebhookDeliveryProofs` |
| `InboundWebhooks` | `ingestInboundWebhook` and its repository call, mock completion | `MCInboundWebhooks` | `InboundWebhooksProofs` |
| `Subscriptions` | period close, dunning, cancel, trial notice | `MCSubscriptions` | `SubscriptionsProofs` |
| `Billing` | `billing.ts`: tiers, metered amounts, proration, period ends over a calendar | `MCCycleBilling` (ASSUMEs) and `CycleBilling` | `CycleBillingProofs` |
| `CycleBilling` | lines and windows of a close, prices, usage, quantity changes, credit | `MCCycleBilling` | `CycleBillingProofs` |
| `Onboarding` | `provisionScaffold`, `onboard` and their repository calls | itself | `OnboardingProofs` |
| `Customization` | field schemas under If-Match, the theme upsert | `MCCustomization` | `CustomizationProofs` |

### How state and actions correspond to the code

In every module a table is a function from ids to records, a handler is a
process with a step (`pc`, or `pass` and `flight` in `WebhookDelivery`) and what
it holds between two awaits (`job`, `held`). A first action does the first read
and the checks on it (a failed check is an early return that writes nothing, so
it is no step); the following ones do one request each. An operation that
consists of one request is one action.

* **`Invoicing`**: `invoices[i]` is a row (status, customer, collection method,
  charged total of the line items, money buckets), `credit` the customers'
  balances, `events` the outbox per invoice and type, `captured` the gateway's own
  ledger (history). `ReadForCharge`, `ReadCredit`, `GatewayCaptures | Defers |
  Refuses`, `SettleCharge | SettleWithCredit | ReportFailure | ReportAction` are
  the awaits of `InvoiceService.charge`; `ReadForX`/`WriteX` those of the others.
  `Die` is a handler that throws or a process that stops between two steps.
* **`Idempotency`**: `claim[k]` is the row of a namespaced key, `age` the part of its TTL
  gone; `stored`, `charged`, `answers`, `since` are what the operation left behind.
  `Backstop` says whether a UNIQUE index stands behind the key (payments: yes;
  invoices: no).
* **`WebhookDelivery`**: `pass[w]` is a drain pass or replay with the endpoints
  and delivery rows it read, `flight[w][x]` one of its concurrent attempts (its row
  read, POSTed, answered, marked, then the map updated, a step each), `cooling` the
  cooldown map. `SelectDeliveries` and `PostDue` are the SELECT and the POSTs of a pass,
  `Reload` and `Redeliver` those of a replay: anything may happen in between. `window` is
  the backoff as the row's last mark began it, `spared` what was settled when a pass
  began; these, `posts`, `accepted` and `early` are history.
* **`InboundWebhooks`**: `inbound` is the dedup table, `emitted` the outbox. The check,
  the dedup row and the event are three steps, each of which may fail or be the last.
  `overlaps` is history: handlings that passed the check while another was past it.
* **`Subscriptions`**: `sub` is one subscription row, `cycle` its invoices as the
  invoicing routes see them, `attempt` the dunning rows, `job[h]` the copy of the
  subscription (and attempt) the handler read at its start. `chargeable` is whether the
  charge route takes the invoice: charged automatically and something left to pay. The
  merchant may open or delete a draft through the invoice routes (`FinalizedElsewhere`,
  `DeletedElsewhere`), and a close finds that out as it finalizes (`CheckCycleInvoice`).
  `closed` (periods with the invoice that their close made) and `notices` are history.
* **`Customization`**: `schema[t]` is the `field_schema` row of a target, `put[e]` a
  composed PUT (which may arrive any number of times), `job[h]` the edit whose
  If-Match check passed, `themes` the theme rows, `theming[h]` the theme whose UPDATE
  found none. `applied`, `blind`, `deleted` and `overlapped` are history. An editor
  sends the version he saw, and none if there was no schema; a PUT refused with
  409 writes nothing and is no step.
* **`CycleBilling`** (over the operators of `Billing`): `items[i]` is a `subscription_item`
  row (quantity, window), `price` the price rows, `usage` the usage records, `lines` the
  latest cycle invoice. `ReadForClose`, `Bill`, `Roll` are the awaits of `closePeriod`,
  `ReadQuantity`/`WriteQuantity` those of `changeItemQuantity`, `ReadPrice`/`WritePrice` those
  of `updatePrice`, `ReadCredit`/`SettleCharge` what `InvoiceService.charge` does to the
  balance; the rest are single requests. `seats`, `ledger`, `summed`, `disturbed` and the
  marks `late` and `counted` of a usage record are history: what proration accounted
  for, what the balance should be, up to where closes have summed, and which
  exception of a property has occurred.
* **`Onboarding`**: `merchant`, `revealed`, `rules`, `inserted` and `active` are the rows of one
  user, `pc[r]` the database call a request is at; a key is named by the request
  that made it, as only that request's answer has it in the raw. `shown` and `raced`
  are history.

### Abstractions that apply everywhere

* One `db.query` call with several statements is one atomic step where it is a
  transaction (the subscriptions repository has `BEGIN`/`COMMIT`). The invoicing and
  webhooks repositories have none. For the two INSERTs of an inbound webhook the model
  makes them two steps that fail apart, and the second runs when the first is refused;
  for the invoicing calls one step is an assumption about the database (listed as a hazard).
* One merchant and environment: every query binds both and no row is shared.
* Amounts, ids and payloads are small numbers and model values; tax, numbering,
  signatures, envelopes and response bodies are left out.
* Webhook delivery: a pass compares the map with the clock as it was when the pass
  began, as the code does; a POST is answered in the end (the code sets no timeout on
  `fetch`); an UPDATE of a mark does not fail.
* Subscriptions: items are reduced to whether they give line items. Elsewhere the cycle
  invoice may be opened or deleted while it is a draft (in `SubscriptionsOverlap`; the
  serial run leaves this out for its size), and charged, voided or written off while
  open. A PATCH of the draft may change its collection method and lines, so `chargeable` is
  chosen when it opens. The trial window and `due_at` are time that may pass at any
  moment. Mode `at` stores `cancel_at`, which no code reads.
* Invoicing: the opening credit of a customer is any integer; below zero it is a debt that
  prorations left (`CycleBilling`).
* Customization: a PUT replaces the whole edit; the code keeps the old `ui` when a PUT has
  none (`repository.ts:102`), which no property tells apart.
* `CycleBilling`: a read that commutes with every other step is merged with the one
  after it. Instants are days (period arithmetic is by whole UTC days; a time of day
  would be carried along unchanged), and `now` of a quantity change is any of
  `Instants`, as no code compares it with the window. Rounding is exact (`Round`), where
  the code divides floating-point numbers; a tier's rate is a multiple of half a minor
  unit; a tier without `up_to` has the ceiling `Unbounded`, above the quantities in use.
  A close counts (`counted`) every record of the
  windows it closes, those it bills nothing for (a trial, `past_due`, a deleted
  price) too: the property is about where a record falls, not about its price.
* `Onboarding`: when one insert of a key pair fails, the other one is taken to have
  ended before its request does. A mock confirmation only provisions (`Hooks`).

## 3. The runs

Bounds are chosen as the smallest at which each branch and each race happens:
two or three handlers (every race in this code is between a reader and one or two
writers), one or two rows of each table, `max_attempts` of 1 or 2 so that the
budget is reached, a TTL of 1 or 2 ticks so that it passes during an execution.
The counters `MaxRequests`, `MaxChanges`, `MaxReplays`, `MaxRestarts`, `MaxDeaths`,
`MaxCalls`, `MaxFaults`, `MaxPeriod`, `MaxReports`, `MaxDeletes` and `MaxThemePuts` stop
behaviours from growing; a behaviour that used them up (or, in `Onboarding`, whose requests are all
answered) stops, hence `CHECK_DEADLOCK FALSE`. Handlers are symmetric in their
specifications, so `InvoicingConcurrent`, `SubscriptionsOverlap`, `CustomizationEdits` and
`CycleBillingCycles` reduce by symmetry; no run with a liveness property does.

### Passing runs

| Run | Bounds | Shows |
|---|---|---|
| `InvoicingConcurrent` | 3 handlers that may die, 1 invoice, 1 customer with credit 2, 6 requests | under every interleaving: recorded money is real, open invoices owe, no silent transitions, finalization freezes |
| `InvoicingSerial` | 1 handler, 2 invoices, 2 customers, one with credit 2 and one in debt by 2, 8 requests | without overlap: captures are recorded, credit is spent once and a debt billed once, and `Invoicing` implements `InvoiceLifecycle` |
| `IdempotencyPayments` | 3 clients, 1 key, TTL 2, 2 deaths, UNIQUE index | one execution within the TTL, all answers agree, every client is answered in the end |
| `DeliveryOverlap` | 2 workers, 1 event, 1 endpoint, 2 changes, 1 replay, 1 restart | a pass skips what was settled when it began, every wanted event is settled in the end |
| `DeliverySerial` | 1 worker, 2 events, 2 changes, 1 replay, 1 restart | the budget; retries wait, but for one early POST per restart |
| `InboundRepeats` | 2 payments, 3 handlers, 4 notifications, 2 faults | an event is repeated only by handlings that passed the check together or by a failure; only failures lose one |
| `SubscriptionsOverlap` | 2 handlers that may die, 1 cycle, 2 attempts, a merchant who opens and deletes drafts | the dunning budget; a period closed with an invoice leaves it linked and opened |
| `SubscriptionsSerial` | 1 handler, 2 cycles, 2 attempts, every operation and gateway answer | `past_due` iff an attempt, recovery means paid, dunning ends |
| `CycleBillingCycles` | 2 handlers that may die, 2 items (seats or tiers, and metered), 3 tariffs, 4 requests | usage is counted once, lines cost what their prices say, quantities and credit match the prorations, periods follow on one another |
| `OnboardingReveal` | 1 sign-up hook, 2 page reads, 2 deaths | one scaffold, shown keys stay active, a routing rule in the end |
| `CustomizationEdits` | 2 targets, 3 edits that arrive any number of times, 2 handlers that may die, 1 deletion, 3 theme PUTs | up to a deletion no update is lost and none is applied twice; only overlapping first PUTs make a second theme |

`CycleBillingCycles` starts at the 31st of January with a month that runs over into
March, with equal and with unequal periods, and with tiers out of order; four
requests are enough for a usage report, a close, a change of quantity and a charge to
meet, and for a second close to follow the first. The ASSUMEs of `MCCycleBilling` compare
volume tiers of every shape, equal ceilings included, with their reference and check the
calendar over four years; graduated tiers are compared by `LinesFollowPrice`.

The serial runs say what the code keeps when handlers do not overlap. The gap
between a serial run and the concurrent one of its component is where the code
relies on timing; the next section walks through it.

### Runs that must find a violation

Each checks one property that a document or comment of the repository states; TLC's
counterexample is a behaviour of the code as written. `findings` in `PROJECT.json` quotes
the statements.

| Run | What happens |
|---|---|
| `InboundLostEvent` | any error of the inserts is answered 200 "replayed", and the event is lost; nor does "the whole batch roll back" (`repository.ts:426-428`), so that a dedup row without its event answers every repeat |

### Further disagreements, without a run of their own

These were met while modelling. Each is reproduced by checking the named
property under the stated change of a configuration; those not used by a run stand
in the last section of their module.

| Property | Configuration | What happens |
|---|---|---|
| `PaidIsCovered` | `InvoicingSerial` | credit that covers a partial `amount` marks the whole invoice paid: `applyPaid` sets `paid` without looking at what remains (`CONTEXT.md:32`) |
| `CapturedIsRecorded` | `InvoicingSerial` with two workers | two charges of one invoice capture, the second overwrites the first: one is recorded |
| `CreditSpentOnce` | same | two charges spend one balance, read before the gateway and written after |
| `CreditConserved` | `InvoicingSerial` | credit applied beyond the amount due (a body's `amount` above it) vanishes |
| `TerminalIsTerminal` | two workers | a void and a charge overwrite each other's terminal status |
| `FinalizedEventsAreTrue` | two workers | `invoice.finalized` for an invoice the guarded statement did not touch |
| `DueIsAccountedFor` | two workers | an invoice opens with the totals of lines a PATCH has replaced |
| `AnswersAgree` | `IdempotencyPayments` with `Backstop = FALSE` (POST /invoices) | a slow owner and its successor both answer |
| `OneOwner` | same | two handlers take one stale claim over: a read, then an unguarded UPDATE |
| `ChargedOnce` | `IdempotencyPayments` | after a take-over the gateway is charged again; the index refuses only the row |
| `OneOutcome`, `WithinBudget` | `DeliverySerial` with two workers | a row both delivered and dead-lettered; more POSTs than `max_attempts` |
| `RetriesWait` | `DeliverySerial` with two workers, also with `MaxRestarts = 0` | a pass begins after a row was marked failed and before the map knows (`drainer.ts:112-113`), or selected it before the mark: the retry leaves inside its window (and a row that the other pass has just settled is POSTed once more) |
| `InOrder` | `DeliverySerial` with `TypeOf <- SameType` | a failed older event waits for its backoff while a newer one of the same object is accepted |
| `EachPaymentAnnounced` | `InboundLostEvent` with `MaxFaults = 0`, `MaxCalls = 2`, one handler and `IdOf <- SameId` | a second mock payment of the same amount is a "replay" |
| `EventsMatchRows` | `InboundRepeats` | the event says succeeded, no code updates the payment row |
| `FinalizedIsLinked` | `SubscriptionsOverlap` | a close that stopped between the create and the link leaves an unlinked draft, which POST /invoices/:id/finalize opens: dunning will not find its subscription |
| `OneActiveAttempt` | `SubscriptionsOverlap` | two failed-charge reports both find no attempt and insert two |
| `BilledOncePerPeriod` | `SubscriptionsSerial` with `"crash"` | a close that stopped before the roll is repeated and bills again |
| `ClosedIsBilled` | `SubscriptionsSerial` | a `past_due` period rolls without an invoice |
| `NoticeOnce` | two handlers (it holds in `SubscriptionsSerial`) | two `maintain` calls both see the marker unset |
| `CanceledIsQuiet` | two handlers | a run revives the attempt a cancellation ended |
| `CanceledIsTerminal` | `SubscriptionsSerial` | a failed-charge report makes a canceled subscription `past_due` |
| `CancelAtEndHonoured` | `SubscriptionsSerial` | `cancel_at_period_end` is stored and never acted on |
| `DroppedIsPaid` | two handlers | a recovery deletes the row a newer failure was written to |
| `StoppedStaysStopped` | `SubscriptionsSerial` | the run endpoint picks a stopped attempt up again; an overlapping run reschedules one |
| `RecoveryIsPaid` | two handlers | a period close writes the `active` it read over `past_due` |
| `PaidIsRecovered` | `SubscriptionsSerial` | an invoice paid through its own route makes every run a 409: `past_due` for ever; so does a `send_invoice` one, which the charge route always refuses (`invoicing/service.ts:219-233`) |
| `EditorsDoNotClobber` | `CustomizationEdits` | a schema is deleted and made again: version 1 matches the If-Match of an editor of the old one |
| `ThemePerScope` | same | two first PUTs insert two themes; `theme_scope` is not UNIQUE, and a GET returns either |
| `ThemeAsPut` | same | a PUT without `css` answers `css: null` and leaves the old css in the row |
| `UsageInOnePeriod` | `CycleBillingCycles` | items of unequal periods all restart at the latest end: usage between an item's own end and that is in no cycle; a close repeated after it stopped counts twice |
| `CreditIsMoney` | same | an upgrade debits a balance that has no such money: it goes below zero (`.scratch/impl/issues/05-t2-collection.md:17` says "never negative") |
| `CreditOnlyReduces` | same | a negative balance is "applied" and makes a charge larger than requested (comment at `invoicing/service.ts:235-236`) |
| `RevealedIsShown` | `OnboardingReveal` | the request that made the keys stops after the stamp: nobody is ever shown them (`sandbox/service.ts:8-15`) |
| `AnsweredHasRule` | same | a read that meets a half-made scaffold is answered without a routing rule (comment of `provisionScaffold`) |
| `NeverRefused` | same | of two requests that provision at once one fails at the UNIQUE index: "idempotent" holds for calls that follow each other |

Without overlap (the serial runs' configurations) nine of these hold. Five are proved
(section 5): `DueIsAccountedFor` and `TerminalIsTerminal` of `Invoicing`, `OneActiveAttempt`,
`CanceledIsQuiet` and `DroppedIsPaid` of `Subscriptions`. TLC finds no violation of
`FinalizedEventsAreTrue`, `OneOutcome`, `BilledOncePerPeriod` and `NoticeOnce`.

Met while modelling the cycle, and part of the model without a property:

* usage reported for a window that was already summed is never billed (`late`);
* a PATCH of a price reads, merges and writes the whole row: of two that overlap, one
  is lost;
* of two overlapping changes of one quantity both are prorated from the same start;
* an upgrade is debited for the rest of the period and the next invoice of that
  period bills the new quantity in full; a metered item's quantity, which decides
  nothing, is prorated all the same; a tiered item's change is not;
* a deleted price bills nothing, and its item goes on in months;
* units above the last ceiling of graduated tiers cost nothing, those of volume tiers
  cost the last tier's rate;
* a subscription anchored on the 31st drifts to the first days of later months;
* halves are rounded up, so the credit of a downgrade may be a unit less than the debit of
  the same upgrade;
* `rollPeriod` clears `status_transitions`.

### Mutants

Every property of a passing run has a mutant in `PROJECT.json`: a definition of
the model replaced by one a plausible bug would give (a dropped guard, an
off-by-one, a missing reset), under which TLC finds the property violated.

## 4. Fairness

* `Idempotency!LiveSpec`: weak fairness of each handler (the event loop runs every
  ready continuation, and queries answer), of resending (the client retries until
  it is answered) and of the clock; strong fairness of the operation's success, that
  is, a gateway that is asked again and again does not refuse for ever (one that does
  gives no answer to promise). Deaths are bounded and not fair.
* `WebhookDelivery!LiveSpec`: weak fairness of every drain step (the interval timer
  never stops firing), of every attempt (the endpoint accepts, refuses or cannot
  be reached: `fetch` settles) and of the end of a backoff window. Nothing is
  assumed of the merchant, of acceptance over refusal, or of restarts.
* `Subscriptions!LiveSpec`: weak fairness of a handler's next step, of the dunning
  tick and of time. Only due, pending attempts are ticked. `DunningEnds` excepts
  an invoice that waits for its payer (it is charged again every 30 seconds
  without using up an attempt) and those that the charge route refuses with 409 on every
  run: settled elsewhere, collected by `send_invoice`, or with nothing left to pay. The
  attempt of such an invoice stays pending for ever: dunning of a `send_invoice`
  subscription does not end.

* `Onboarding!LiveSpec`: weak fairness of every step of a request that has begun (as
  above). Nobody has to sign up or read the page. Deaths are bounded and not fair;
  `RuleFollows` excepts them, as nobody completes the scaffold of another request.

## 5. What is proved

Every proof follows the same argument: one inductive invariant, shown for `Init` and
kept by every action, from which the theorems follow. Sets of ids, handlers and
amounts are arbitrary and so is every bound; the only assumptions are the named ones on
the constants (kinds of values) and the hypotheses that some theorems state.

Those hypotheses are what the serial runs configure, and without each of them section 3 has
a behaviour that breaks the property: `Alone` (handlers or workers do not overlap),
`MaxAttempts = {m}` (endpoints ask for one number of
attempts), `~Faults` (no handler stops between capture and record), `Backstop` (a UNIQUE
index). `IsFiniteSet(Invoices)` is what makes a sum over a customer's invoices a number.

**`InvoicingProofs`.** The invariant (`Sound`) says of every handler what the row
it *read* still implies about the row that *is*: an invoice that was finalized keeps
its lines, customer and collection method, so a stale charge writes buckets of the
same invoice; a handler that is settling has really captured the cash
it is about to record; the money on a row it read never exceeded the captures. This is
what makes `PaidWithinCaptured` survive handlers that overwrite each other.
From it: `TypeCorrect`, `RecordedMoneyIsReal`, `OpenInvoicesOwe`, `NoSilentChange`, the
action property `FinalizationFreezes`, and `SendInvoiceNeverCharged`, which no run
checks: a `send_invoice` invoice is never charged.

The second part is about one handler. `Serial` adds to `Sound` that what the handler read is
the row as it is (`Fresh`) and that a row's buckets are worked out from its lines,
its customer's debt and captures (`Books`). A customer may begin in debt; a charge then bills
the debt whole, and once (`DebtBilled`). Then at most one row moves in a step, and by a step of
`InvoiceLifecycle` (`RowMoves`, `MoveIsLifecycleStep`): `ImplementsLifecycle`, the refinement, with
`RecordedIsCaptured`, `DueIsLinesAndDebt` (more than its lines an invoice bills only for a debt
that its own customer began with) and `SettledStaysSettled` on the way.

`CreditIsSpentOnce` is about a sum, and the library's induction theorems take an operator
that the provers cannot instantiate. So the sum is taken as its recursive table over
the subsets of a set (`Table`), and what is needed of it (`TableExists`, `SumSplit`, `SumChange`,
`SumZero`) is shown by a smallest counterexample: a non-empty set of subsets of a finite
set has a minimal one (`HasSmallest`, from the well-founded order of finite subsets). The
invariant `Accounts` then says that credit taken off the customer's balance and credit taken
off what invoices owe go together, and that the credit a charge has seen is the credit there is.

**`IdempotencyProofs`.** The invariant relates who is past `claim` to the row and
to its age: `ExecutedOnce` (one execution within the TTL), `AnswersExist` (what a
client is told was stored), and `OneAnswerPerKey`: with a UNIQUE index, all answers
agree, whatever claims were taken over. Without one it is false (section 3).

**`WebhookDeliveryProofs`.** The types need that a replay has one pair and its row made, and
that an attempt in flight is counted (`Held`); attempts are where their pass is (`Placed`).
`SettledStays` holds whatever overlaps and restarts: marks never clear a mark and only a
replay resets a row, so what a pass found settled when it began still is when it
selects (`Spared`). That a pass which began before the mark POSTs the settled row once
more is the code's behaviour, and in the model. `BackoffHolds`, for one pass or replay at a time and
any restarts: a window that the cooldown map does not have belongs to an attempt that is
still to enter it, or was forgotten by a restart (`Waits`), and a pass goes by a map as
full as the present one (`Knows`). `BudgetHolds`, for one at a time as well: the POSTs of a
pair are at most what its row has counted since it was last reset (`Spent`, which takes
in the attempt that flies), a full budget for each replay and one POST for each restart,
which may lose the mark of the attempt in flight (`Granted`).

**`InboundWebhooksProofs`.** `EmittedByTheCheck`: the two INSERTs being two statements, an event and
its dedup row may part, and the UNIQUE index stops no event. What bounds the events of an
id is who is past the check (`CountedOf`): before the row exists, all but one of
those overlapped another and each event is owed to a failure; afterwards nobody passes.
`LossesAreFaults`: the ids taken up for good (a row, an answer) whose event is neither
there nor about to be inserted are a finite set (`Gone`) with no more members than
failures: a step that adds one is a failed statement or a death (`NothingLost`, `OneLost`).

**`CustomizationProofs`.** What an editor saw is the row as it is or an older one
(`SeenIsOlder`), and an applied edit left a newer row than its editor saw
(`AppliedIsNewer`). Hence `NoUpdateIsLost` and `RepeatedPutsAreHarmless`, both up to a deletion,
which restarts the versions. `SecondThemeNeedsOverlap` rests on who may wait for an
INSERT while there is a theme, or together with another.

**`SubscriptionsProofs`.** A handler works on rows it read long ago. What remains true
of them (`JobHolds`) is that rows, once made, are never unmade (`Grown`): the invoice a
close links and finalizes is the one it created, linked unless the merchant deleted it
before, in which case the close ends before the roll; and the count a run writes comes
from a copy that was within the budget. Hence `BudgetIsKept` and
`RolledCarriesSubscription`. That an unused id exists rests on a least element of a
finite set, from the well-founded order of its subsets.

With one handler (`Serial`): `past_due` exactly with an active attempt, at most one of them, and
what the handler holds is what it read (`Current`). Most steps change neither the status nor
which attempts are active (`Steady`); the others are taken one by one. Hence `StatusTracked`,
`AttemptIsOne` and, as only `Reactivate` ends `past_due` with success or deletes an attempt
(`OnlyReactivates`), `RecoveredIsPaid` and `DeletedIsPaid`. The handler may stop anywhere.

**`CycleBillingProofs`.** First the operators of `Billing`. `PeriodsEndLater`: a period of any
interval and count ends after it starts, from any day. A month's start grows with the month
(`MonthsGrow`, from the days of a four-year cycle), and `MonthOf` is a maximum of a finite set
(`MaxOfFinite`). `ProratedIsWhole`: a proration is an integer.

`TiersAreAsMeant`: `computeTiered` charges what `TieredReference` says, a division of the units
`1 .. quantity` among the tiers in which no remainder is carried, for any number of tiers in
any order and with equal ceilings. A tier's `Rank` counts the tiers up to it, so that the sort
is a permutation (`PlaceIs`) in the order of the ceilings (`PlacesInOrder`). A tier covers the
units above the previous ceiling (`UnitsAre`). The loop's invariant `Looped` says that after
`n` passes the total is the sum of the shares of the tiers of the first `n` ranks and the units
up to their last ceiling are taken; `LoopGoesOn` has the cases of `TakeTier`. The induction
principles of the library cannot be cited (they take an operator), so each induction is a least
counterexample (`HasLeast`, `HasSmallest`), also for what a sum over a set is (`SumFirst`,
`SumSplit`) and for the existence of the recursive function (`PassesExist`). The tiers of the
theorem are integers as the model has them, so floating-point rates are as little its subject
as the model's.

The invariant of the component has a part for each exception that a property names: who holds a
close, a quantity change or a charge while nothing is `disturbed`, and what he holds is then
the row as it is (`OneClose`, `OneChange`, `OneCharge`). `Summed` says that, without such an
overlap, each record was counted once exactly when a close has passed its instant;
`EvenWindows`, that windows have one end unless "periods" is noted. `Priced` says that the
lines follow their prices; it needs complete price rows at every bill, and a patch that read
its row before a deletion or another patch still writes a complete one (`MergedIsComplete`).
From it: `TypeCorrect`, `LinesCostTheirPrice`, `UsageIsBilledOnce`, `ChangesAreProrated`,
`CreditAddsUp` and, with `PeriodsEndLater`, the action property `NoPeriodIsSkipped`.

**`OnboardingProofs`.** Only the request that inserted the merchant row is ever at the
provisional keys or the rule (`OneProvisioner`), and without a race only one is
between the rotation and the stamp (`OneRevealer`); a pair on its way to be shown stays
active (`PairsAreSafe`). Hence `OneScaffold` and `ShownKeysStay`.

Only model-checked: the liveness properties `EventuallyAnswered`, `EventuallySettled`,
`RuleFollows` and `DunningEnds` (fairness and ENABLED are out of the prover's reach), and
`CalendarIsSound` of `MCCycleBilling`: the months that `Billing` computes partition the days
of four years. Every invariant and every action property of the passing runs is a theorem.

## 6. Not modelled

Authentication and context, database set-up, error mapping and application wiring
keep no state of their own. Gateway routing is a pure function; a charge is captured,
waits for its payer, or is refused for now or for good. (`invoicing/index.ts:63-65` takes every
answer but `requires_action` for `succeeded`; the mock driver gives no other.) What a field schema says and its validator are
data; the Idempotency-Key of the customization routes is the protocol of
`Idempotency`. The split of an amount into net and tax and the seeding of the default
tax rate, the creation of a subscription (it is the initial state of two modules; its
trial and due instants are not computed) and routes that only read are not modelled.

## 7. Plan

1. A composition of `Subscriptions` with the invoice's own handlers, so that a
   charge during dunning interleaves at its own awaits, and of mock completion with both.
2. Tax: the split of a line into net and tax with its rounding, against a reference.
3. Proofs: the hypothesis of one handler weakened to one handler per invoice (and per
   subscription); the serial properties that only section 3 names.
