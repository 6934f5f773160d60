---------------------------- MODULE CycleBilling ----------------------------
(***************************************************************************)
(* What the cycles of one subscription charge for: its items and their     *)
(* windows, the prices they refer to, reported usage, the lines of the     *)
(* cycle invoice, changes of a quantity with their proration, and the      *)
(* customer's credit balance, which proration moves and charges spend.     *)
(* Handlers interleave between their reads and their writes.  What happens *)
(* to a cycle invoice afterwards is in Invoicing; linking, dunning and     *)
(* cancellation are in Subscriptions.                                      *)
(***************************************************************************)
EXTENDS Billing

CONSTANTS
  Handlers,      \* requests being served at the same time
  NumItems,      \* the items of the subscription are 1 .. NumItems
  Prices,        \* price ids
  PriceOf,       \* the price each item refers to
  Tariffs,       \* what the prices may be at the start: functions on Prices
  Patches,       \* PATCH /prices/:id: a price and a body
  Anchors,       \* instants at which the subscription may be anchored
  Quantities,    \* quantities of an item
  Openings,      \* the quantities of the items at the start
  Amounts,       \* amounts requested by a charge, and opening balances
  Reports,       \* reported usage: item, quantity, instant
  Instants,      \* what a clock may show when a quantity is changed
  NoPrice, NoLine,
  MaxRequests    \* bound on the requests made

Items == 1 .. NumItems

\* assertPrice: a price that is created or patched has what its scheme requires.
Complete(row) == IF row.scheme = "tiered" THEN row.tiers # <<>> ELSE row.unit # Absent

PriceRows ==
  {row \in [scheme : {"per_unit", "metered", "tiered"}, unit : Nat \cup {Absent},
            mode : {"volume", "graduated"}, tiers : Seq(Tiers), period : Periods] :
     Complete(row)}

\* Bodies may leave fields out, and have no scheme; the routes validate those there are.
ASSUME CycleBillingAssumption ==
  /\ NumItems \in Nat \ {0} /\ PriceOf \in [Items -> Prices]
  /\ NoPrice \notin PriceRows /\ Tariffs \subseteq [Prices -> PriceRows]
  /\ \A patch \in Patches :
       /\ patch.price \in Prices
       /\ "scheme" \notin DOMAIN patch.body
       /\ "unit" \in DOMAIN patch.body => patch.body["unit"] \in Nat
       /\ "mode" \in DOMAIN patch.body => patch.body["mode"] \in {"volume", "graduated"}
       /\ "tiers" \in DOMAIN patch.body => patch.body["tiers"] \in Seq(Tiers) \ {<<>>}
       /\ "period" \in DOMAIN patch.body => patch.body["period"] \in Periods
  /\ Quantities \subseteq Nat \ {0} /\ Openings \subseteq [Items -> Quantities]
  /\ Anchors \subseteq Nat /\ Instants \subseteq Int /\ Amounts \subseteq Nat
  /\ Reports \subseteq [item : Items, quantity : Nat, at : Nat]
  /\ MaxRequests \in Nat

VARIABLES
  sub,      \* status and current period
  items,    \* quantity and window of each item
  price,    \* the price rows
  usage,    \* usage records, with two marks of history: see Report and Bill
  credit,   \* the customer's credit balance
  lines,    \* the lines of the latest cycle invoice
  job,      \* what a handler holds between two of its requests
  seats,    \* history: the quantity that proration has accounted for
  ledger,   \* history: the balance that proration and charges add up to
  summed,   \* history: per item, the end of the last window that was closed
  disturbed, \* history: what was overlapped or cut short: see the properties
  made      \* requests made

vars == <<sub, items, price, usage, credit, lines, job, seats, ledger, summed, disturbed, made>>

-----------------------------------------------------------------------------
(* Rows.                                                                   *)

Window(from, to) == [from |-> from, to |-> to]
Idle == [kind |-> "idle"]
UnitAmount(row) == IF row.unit = Absent THEN 0 ELSE row.unit

\* POST /subscriptions: each item's window is one period of its own price; the
\* subscription takes that of its first item.
FirstWindow(tariff, i, anchor) ==
  Window(anchor, AddPeriod(anchor, tariff[PriceOf[i]].period))

Uneven(ends, to) == IF \E i \in Items : ends[i] # to THEN {"periods"} ELSE {}

Init ==
  \E anchor \in Anchors, quantity \in Openings :
    /\ price \in Tariffs
    /\ LET window == [i \in Items |-> FirstWindow(price, i, anchor)] IN
         /\ items = [i \in Items |-> [quantity |-> quantity[i], window |-> window[i]]]
         /\ sub \in [status : {"trialing", "active", "past_due"}, window : {window[1]}]
         /\ disturbed = Uneven([i \in Items |-> window[i].to], window[1].to)
    /\ usage = <<>>
    /\ credit \in Amounts /\ ledger = credit
    /\ lines = [i \in Items |-> NoLine]
    /\ job = [h \in Handlers |-> Idle]
    /\ seats = quantity
    /\ summed = [i \in Items |-> anchor]
    /\ made = 0

Busy(kind, h) == job[h].kind = kind
SomeBusy(kind) == \E h \in Handlers : Busy(kind, h)

\* A handler takes a request and holds what it read.
Begin(h, held) ==
  /\ job[h] = Idle
  /\ made < MaxRequests
  /\ made' = made + 1
  /\ job' = [job EXCEPT ![h] = held]

End(h) == job' = [job EXCEPT ![h] = Idle] /\ UNCHANGED made

\* A request that is one statement.
AtOnce == made < MaxRequests /\ made' = made + 1 /\ UNCHANGED job

-----------------------------------------------------------------------------
(* Prices and usage.                                                       *)

\* The fields of the body over those of the row.
Merged_Body(body, row) == body
Merged(body, row) == [f \in DOMAIN row |-> IF f \in DOMAIN body THEN body[f] ELSE row[f]]

\* updatePrice reads the row and merges the body into it; the scheme is not in a
\* body, so the merged row has what its scheme requires.
ReadPrice(h, patch) ==
  /\ price[patch.price] # NoPrice
  /\ Begin(h, [kind |-> "patch", price |-> patch.price, row |-> Merged(patch.body, price[patch.price])])
  /\ UNCHANGED <<sub, items, price, usage, credit, lines, seats, ledger, summed, disturbed>>

\* ... and writes all of its fields; a row deleted meanwhile is not made again.
WritePrice(h) ==
  /\ Busy("patch", h)
  /\ price' = [price EXCEPT ![job[h].price] = IF @ = NoPrice THEN @ ELSE job[h].row]
  /\ End(h)
  /\ UNCHANGED <<sub, items, usage, credit, lines, seats, ledger, summed, disturbed>>

\* deletePrice does not ask whether an item refers to the price.
DeletePrice(p) ==
  /\ price[p] # NoPrice
  /\ AtOnce
  /\ price' = [price EXCEPT ![p] = NoPrice]
  /\ UNCHANGED <<sub, items, usage, credit, lines, seats, ledger, summed, disturbed>>

\* recordUsage: the client says when the usage was; no code looks at the window.
\* A record is late when a close has already summed up to beyond its instant.
Report(r) ==
  /\ price[PriceOf[r.item]] # NoPrice
  /\ price[PriceOf[r.item]].scheme = "metered"
  /\ AtOnce
  /\ usage' = Append(usage, [item |-> r.item, quantity |-> r.quantity, at |-> r.at,
                             late |-> r.at < summed[r.item], counted |-> 0])
  /\ UNCHANGED <<sub, items, price, credit, lines, seats, ledger, summed, disturbed>>

-----------------------------------------------------------------------------
(* closePeriod.                                                            *)

InWindow_Closed(at, window) == window.from <= at /\ at <= window.to
InWindow(at, window) == window.from <= at /\ at < window.to

UsageOf(i, window) ==
  MapThenSumSet(LAMBDA k : usage[k].quantity,
                {k \in DOMAIN usage : usage[k].item = i /\ InWindow(usage[k].at, window)})

\* The line of an item: none when its price is gone.
LineOf(i, item) ==
  LET row == price[PriceOf[i]]
      total == UsageOf(i, item.window)
  IN  IF row = NoPrice THEN NoLine
      ELSE [row |-> row, quantity |-> item.quantity, usage |-> total,
            amount |-> CASE row.scheme = "per_unit" -> row.unit * item.quantity
                         [] row.scheme = "metered" -> ComputeMetered(row.unit, total)
                         [] row.scheme = "tiered" ->
                              ComputeTiered(row.mode, row.tiers, item.quantity)]

\* The read; a canceled subscription is refused.
ReadForClose(h) ==
  /\ Begin(h, [kind |-> "close", step |-> "bill", sub |-> sub, items |-> items])
  /\ disturbed' = disturbed \cup (IF SomeBusy("close") THEN {"close"} ELSE {})
  /\ UNCHANGED <<sub, items, price, usage, credit, lines, seats, ledger, summed>>

\* A trial becomes active, and past_due stays, both without an invoice.
Billed(held) ==
  [held EXCEPT !.step = "roll", !.sub.status = IF @ = "trialing" THEN "active" ELSE @]

\* An active subscription is invoiced for the items as read, at the prices and with
\* the usage of now.  Every close counts the records in the windows it closes, those
\* of a trial, of past_due or of a deleted price too, though nothing is billed for them.
Bill(h) ==
  /\ Busy("close", h) /\ job[h].step = "bill"
  /\ LET closing == job[h].items
         billed == [i \in Items |-> LineOf(i, closing[i])]
         active == job[h].sub.status = "active" /\ \E i \in Items : billed[i] # NoLine
         Covers(i, at) == InWindow(at, closing[i].window)
     IN  /\ lines' = IF active THEN billed ELSE lines
         /\ usage' = [k \in DOMAIN usage |->
                       IF Covers(usage[k].item, usage[k].at)
                       THEN [usage[k] EXCEPT !.counted = @ + 1] ELSE usage[k]]
         /\ summed' = [i \in Items |-> closing[i].window.to]
  /\ job' = [job EXCEPT ![h] = Billed(@)]
  /\ UNCHANGED <<sub, items, price, credit, seats, ledger, disturbed, made>>

\* A deleted price has the default period of one month.
PeriodOf(i) ==
  IF price[PriceOf[i]] = NoPrice THEN [interval |-> "month", count |-> 1]
  ELSE price[PriceOf[i]].period

\* Every item restarts at the end of the subscription's period.
NextStart_Same(closing) == closing.window.from
NextStart(closing) == closing.window.to

\* rollPeriod writes the windows and leaves the quantities alone.
Rolled_AsRead(h, i, window) == [quantity |-> job[h].items[i].quantity, window |-> window]
Rolled(h, i, window) == [quantity |-> items[i].quantity, window |-> window]

Roll(h) ==
  /\ Busy("close", h) /\ job[h].step = "roll"
  /\ LET start == NextStart(job[h].sub)
         end == [i \in Items |-> AddPeriod(start, PeriodOf(i))]
         last == Max({start} \cup {end[i] : i \in Items})
     IN  /\ items' = [i \in Items |-> Rolled(h, i, Window(start, end[i]))]
         /\ sub' = [status |-> job[h].sub.status, window |-> Window(start, last)]
         /\ disturbed' = disturbed \cup Uneven(end, last)
  /\ End(h)
  /\ UNCHANGED <<price, usage, credit, lines, seats, ledger, summed>>

-----------------------------------------------------------------------------
(* changeItemQuantity.                                                     *)

\* The read; asking for the quantity there is changes nothing.
ReadQuantity(h, i, quantity) ==
  /\ quantity # items[i].quantity
  /\ Begin(h, [kind |-> "quantity", i |-> i, item |-> items[i], quantity |-> quantity])
  /\ disturbed' = disturbed \cup
       (IF \E o \in Handlers : Busy("quantity", o) /\ job[o].i = i THEN {"quantity"} ELSE {})
  /\ UNCHANGED <<sub, items, price, usage, credit, lines, seats, ledger, summed>>

\* A tiered price has no unit amount: its quantity changes without proration.
Proration(h, now) ==
  LET item == job[h].item
      row == price[PriceOf[job[h].i]]
  IN  Prorated(UnitAmount(row), job[h].quantity - item.quantity,
               item.window.from, item.window.to, now)

\* creditDelta: an upgrade debits the balance, a downgrade credits it.
CreditDelta_Debit(h, now) == Proration(h, now)
CreditDelta(h, now) == -Proration(h, now)

\* applyProration: one transaction that sets the quantity and moves the balance.
WriteQuantity(h, now) ==
  /\ Busy("quantity", h)
  /\ price[PriceOf[job[h].i]] # NoPrice
  /\ items' = [items EXCEPT ![job[h].i].quantity = job[h].quantity]
  /\ credit' = credit + CreditDelta(h, now)
  /\ seats' = [seats EXCEPT ![job[h].i] = @ + (job[h].quantity - job[h].item.quantity)]
  /\ ledger' = ledger - Proration(h, now)
  /\ disturbed' = disturbed \cup (IF SomeBusy("charge") THEN {"credit"} ELSE {})
  /\ End(h)
  /\ UNCHANGED <<sub, price, usage, lines, summed>>

\* The price is gone: 404.
RefuseQuantity(h) ==
  /\ Busy("quantity", h)
  /\ price[PriceOf[job[h].i]] = NoPrice
  /\ End(h)
  /\ UNCHANGED <<sub, items, price, usage, credit, lines, seats, ledger, summed, disturbed>>

-----------------------------------------------------------------------------
(* The credit of InvoiceService.charge, without overpayment.               *)

ReadCredit(h, requested) ==
  /\ Begin(h, [kind |-> "charge", available |-> credit,
                applied |-> Min({credit, requested})])
  /\ disturbed' = disturbed \cup (IF SomeBusy("charge") THEN {"credit"} ELSE {})
  /\ UNCHANGED <<sub, items, price, usage, credit, lines, seats, ledger, summed>>

\* The balance is written as a value worked out from the one read.
CreditLeft(h) == job[h].available - job[h].applied

SettleCharge(h) ==
  /\ Busy("charge", h)
  /\ credit' = CreditLeft(h)
  /\ ledger' = ledger - job[h].applied
  /\ End(h)
  /\ UNCHANGED <<sub, items, price, usage, lines, seats, summed, disturbed>>

-----------------------------------------------------------------------------
\* A handler throws or its process stops between two requests (or a gateway
\* refuses a charge): a close that has billed and not rolled is cut short.
Die(h) ==
  /\ job[h] # Idle
  /\ End(h)
  /\ disturbed' = disturbed \cup
       (IF Busy("close", h) /\ job[h].step = "roll" THEN {"close"} ELSE {})
  /\ UNCHANGED <<sub, items, price, usage, credit, lines, seats, ledger, summed>>

Next ==
  \/ \E p \in Prices : DeletePrice(p)
  \/ \E r \in Reports : Report(r)
  \/ \E h \in Handlers :
       \/ \E patch \in Patches : ReadPrice(h, patch)
       \/ WritePrice(h)
       \/ ReadForClose(h) \/ Bill(h) \/ Roll(h)
       \/ \E i \in Items, q \in Quantities : ReadQuantity(h, i, q)
       \/ \E now \in Instants : WriteQuantity(h, now)
       \/ RefuseQuantity(h)
       \/ \E a \in Amounts : ReadCredit(h, a)
       \/ SettleCharge(h)
       \/ Die(h)

Spec == Init /\ [][Next]_vars

-----------------------------------------------------------------------------
(* Properties.                                                             *)

Undisturbed(S) == disturbed \cap S = {}

Windows == {w \in [from : Nat, to : Nat] : w.from < w.to}

\* Price rows are complete, windows are not empty and amounts are not negative; a
\* balance may be.
TypeOK ==
  /\ sub \in [status : {"trialing", "active", "past_due"}, window : Windows]
  /\ items \in [Items -> [quantity : Quantities, window : Windows]]
  /\ price \in [Prices -> PriceRows \cup {NoPrice}]
  /\ \A k \in DOMAIN usage : usage[k].quantity \in Nat /\ usage[k].counted \in Nat
  /\ credit \in Int /\ ledger \in Int
  /\ \A i \in Items : lines[i] # NoLine => lines[i].amount \in Nat
  /\ seats \in [Items -> Int] /\ summed \in [Items -> Nat]
  /\ disturbed \subseteq {"close", "quantity", "credit", "periods"}

\* A usage record is counted by one close, and by no more than one, once the window it
\* falls in is closed: no usage is billed twice and none falls between two periods,
\* however reports, closes, price changes and quantity changes interleave.  The
\* exceptions are a report that came after its window was summed, closes that overlap
\* or stop before the roll, and items whose windows have different ends (closePeriod,
\* sumUsage, rollPeriod).
UsageCountedOnce ==
  Undisturbed({"close", "periods"}) =>
    \A k \in DOMAIN usage :
      usage[k].counted = IF ~usage[k].late /\ usage[k].at < summed[usage[k].item] THEN 1 ELSE 0

\* The amount of a cycle invoice's line is what its price says of its quantity or
\* usage, with tiers understood as a division of the units (buildLineItems,
\* computeTiered and computeMetered).
LinesFollowPrice ==
  \A i \in Items : lines[i] # NoLine =>
    LET row == lines[i].row IN
      lines[i].amount =
        CASE row.scheme = "per_unit" -> row.unit * lines[i].quantity
          [] row.scheme = "metered" -> row.unit * lines[i].usage
          [] row.scheme = "tiered" -> TieredReference(row.mode, row.tiers, lines[i].quantity)

\* The quantity that the next cycle bills is the opening one and the seats that were
\* prorated, unless two changes of one item overlap: a period that rolls in between
\* does not undo a change (applyProration and rollPeriod).
QuantityIsProrated ==
  Undisturbed({"quantity"}) => \A i \in Items : items[i].quantity = seats[i]

\* The credit balance is the opening one and every proration and credit use since,
\* unless a charge that read the balance was overlapped by a proration or by another
\* charge (applyProration adds, transition overwrites).
CreditIsConserved ==
  Undisturbed({"credit"}) => credit = ledger

\* A period is followed by the one that starts at its end, and is never empty or
\* closed a second time, unless closes overlap (closePeriod and rollPeriod).
PeriodsFollowOn ==
  [][sub'.window # sub.window /\ "close" \notin disturbed
       => sub'.window.from = sub.window.to /\ sub'.window.to > sub'.window.from]_vars

-----------------------------------------------------------------------------
(* What documents or comments say and the code does not do; the README     *)
(* gives the configurations that show it.                                  *)

\* A usage record that is there when its period closes is in one cycle, whatever the
\* periods of the items and wherever a close stops.
UsageInOnePeriod ==
  \A k \in DOMAIN usage :
    ~usage[k].late /\ usage[k].at < summed[usage[k].item] => usage[k].counted = 1

\* A balance is money of the customer: it is never negative.
CreditIsMoney == credit >= 0

\* Applying credit never makes a charge larger than requested.
CreditOnlyReduces == \A h \in Handlers : Busy("charge", h) => job[h].applied >= 0
=============================================================================
