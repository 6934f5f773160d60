---------------------------- MODULE InvoicingProofs ----------------------------
(***************************************************************************)
(* Machine-checked proofs about Invoicing, for every number of invoices,   *)
(* customers and concurrent handlers and all amounts.                      *)
(*                                                                         *)
(* None of the invariants is inductive alone: a handler writes what it     *)
(* computed from a row it read earlier, so each needs what the held rows   *)
(* satisfy.  Sound is that strengthening.                                  *)
(*                                                                         *)
(* From "Requests served one at a time" on, the theorems assume that       *)
(* handlers do not overlap: the README shows what breaks each one if two   *)
(* do.                                                                     *)
(***************************************************************************)
EXTENDS Invoicing, FiniteSetTheorems, WellFoundedInduction, TLAPS

\* Cash the gateway took for a handler that has not recorded it yet.
InHand(w) == IF pc[w] = "settling" THEN job[w].cash ELSE 0

ChargeSteps == {"reading_credit", "calling", "settling_credit", "settling",
                "failed", "action_required"}
OpenSteps == ChargeSteps \cup {"voiding", "writing_off"}

Automatic(i) == Finalized(i) /\ invoices[i].collection = "charge_automatically"

\* What holds of a handler at work.
HeldSound(w) ==
  /\ job[w].applied <= job[w].avail
  /\ job[w].read.totals.paid + InHand(w) <= captured[job[w].inv]
  /\ pc[w] \in OpenSteps => Finalized(job[w].inv)
  /\ pc[w] \in ChargeSteps => Automatic(job[w].inv)
  /\ pc[w] = "finalizing" => \E n \in Nat : job[w].read.totals = Unpaid(n)
  /\ pc[w] = "reading_credit" =>
       job[w].read.totals.due > job[w].read.totals.paid

\* The events that go with a status.
Announced == {"invoice.finalized", "invoice.paid", "invoice.voided",
              "invoice.marked_uncollectible"}

\* What holds of an invoice.
RowSound(i) ==
  /\ invoices[i].totals.paid <= captured[i]
  /\ captured[i] > 0 => Automatic(i)
  /\ invoices[i].status = "open" =>
       invoices[i].totals.remaining > 0 \/ invoices[i].totals = Unpaid(0)
  /\ Finalized(i) => events[i]["invoice.finalized"] > 0
  /\ invoices[i].status = "paid" => events[i]["invoice.paid"] > 0
  /\ invoices[i].status = "voided" => events[i]["invoice.voided"] > 0
  /\ invoices[i].status = "uncollectible" =>
       events[i]["invoice.marked_uncollectible"] > 0

Sound ==
  /\ TypeOK
  /\ \A i \in Invoices : RowSound(i)
  /\ \A w \in Workers : pc[w] # "idle" => HeldSound(w)

-----------------------------------------------------------------------------
(* The operators on rows.                                                  *)

LEMMA UnpaidTotals ==
  ASSUME NEW n \in Nat
  PROVE  /\ Unpaid(n) \in Totals
         /\ Unpaid(n).paid = 0
         /\ Unpaid(n).remaining = n
  BY DEF Unpaid, Totals

LEMMA BlankRow ==
  ASSUME NEW s \in Statuses
  PROVE  /\ Blank(s) \in Rows
         /\ Blank(s).totals.paid = 0
         /\ Blank(s).status = s
  BY UnpaidTotals DEF Blank, Rows, Collections

LEMMA WithLinesRow ==
  ASSUME NEW row \in Rows, NEW n \in Nat
  PROVE  /\ WithLines(row, n) \in Rows
         /\ WithLines(row, n).totals = Unpaid(n)
         /\ WithLines(row, n).status = row.status
  BY UnpaidTotals DEF WithLines, Rows

LEMMA SettledTotals ==
  ASSUME NEW t \in Totals, NEW a \in Int, NEW n \in Nat
  PROVE  /\ Settled(t, a, n) \in Totals
         /\ Settled(t, a, n).paid = t.paid + n
         /\ ~CoversDue(Settled(t, a, n)) => Settled(t, a, n).remaining > 0
  BY DEF Settled, Reduced, Totals, Max0, CoversDue

LEMMA ApplyPaidRow ==
  ASSUME NEW row \in Rows, NEW a \in Int
  PROVE  /\ ApplyPaid(row, a) \in Rows
         /\ ApplyPaid(row, a).totals.paid = row.totals.paid
         /\ ApplyPaid(row, a).status = "paid"
<1>a. row.totals \in Totals /\ row.totals.paid \in Nat
  BY DEF Rows, Totals
<1>1. /\ Settled(row.totals, a, 0) \in Totals
      /\ Settled(row.totals, a, 0).paid = row.totals.paid
  BY <1>a, SettledTotals
<1> QED BY <1>1 DEF ApplyPaid, Rows, Statuses, Terminal

LEMMA ApplySuccessRow ==
  ASSUME NEW row \in Rows, NEW a \in Int, NEW n \in Nat
  PROVE  /\ ApplySuccess(row, a, n) \in Rows
         /\ ApplySuccess(row, a, n).totals.paid = row.totals.paid + n
         /\ ApplySuccess(row, a, n).status \in {"open", "paid"}
         /\ ApplySuccess(row, a, n).status = "open" =>
              ApplySuccess(row, a, n).totals.remaining > 0
<1> DEFINE t == Settled(row.totals, a, n)
<1>1. /\ t \in Totals
      /\ t.paid = row.totals.paid + n
      /\ ~CoversDue(t) => t.remaining > 0
  BY SettledTotals DEF Rows
<1> HIDE DEF t
<1>2. ApplySuccess(row, a, n) =
        [row EXCEPT !.totals = t,
                    !.status = IF CoversDue(t) THEN "paid" ELSE "open"]
  BY DEF ApplySuccess, t
<1> QED BY <1>1, <1>2 DEF Rows, Statuses, Terminal

\* The blind UPDATE of the money columns: exactly those columns of one row.
LEMMA WriteMoneyEffect ==
  ASSUME invoices \in [Invoices -> Rows], NEW i \in Invoices,
         NEW next \in Rows, WriteMoney(i, next)
  PROVE  /\ invoices' \in [Invoices -> Rows]
         /\ \A k \in Invoices : k # i => invoices'[k] = invoices[k]
         /\ invoices'[i].status = next.status
         /\ invoices'[i].totals = next.totals
         /\ invoices'[i].lines = invoices[i].lines
         /\ invoices'[i].customer = invoices[i].customer
         /\ invoices'[i].collection = invoices[i].collection
<1>1. invoices' = [invoices EXCEPT
                     ![i] = [@ EXCEPT !.totals = next.totals, !.status = next.status]]
  BY DEF WriteMoney
<1>2. [invoices[i] EXCEPT !.totals = next.totals, !.status = next.status] \in Rows
  BY DEF Rows
<1> QED BY <1>1, <1>2 DEF Rows

LEMMA AnnounceEffect ==
  ASSUME events \in [Invoices -> [EventTypes -> Nat]],
         NEW i \in Invoices, NEW t \in EventTypes, Announce(i, t)
  PROVE  /\ events' \in [Invoices -> [EventTypes -> Nat]]
         /\ events'[i][t] > 0
         /\ \A k \in Invoices, u \in EventTypes : events'[k][u] >= events[k][u]
  BY DEF Announce

-----------------------------------------------------------------------------
(* The control shared by the handlers.                                     *)

\* A handler that begins holds a row whose cash is within what was captured.
LEMMA BeginSound ==
  ASSUME Sound, NEW w \in Workers, NEW i \in Invoices,
         NEW step \in Steps \ {"idle", "settling"}, NEW read \in Rows,
         NEW amount \in ChargeAmounts \cup {Unspecified},
         Begin(w, i, step, read, amount),
         read.totals.paid <= captured[i],
         step \in OpenSteps => Finalized(i),
         step \in ChargeSteps => Automatic(i),
         step = "finalizing" => \E n \in Nat : read.totals = Unpaid(n),
         step = "reading_credit" => read.totals.due > read.totals.paid
  PROVE  Sound'
<1> DEFINE j == [inv |-> i, read |-> read, amount |-> amount,
                 avail |-> 0, applied |-> 0, cash |-> 0]
<1>1. /\ pc[w] = "idle"
      /\ pc' = [pc EXCEPT ![w] = step]
      /\ job' = [job EXCEPT ![w] = j]
      /\ UNCHANGED <<invoices, credit, events, captured>>
      /\ requests' = requests + 1
  BY DEF Begin, Accept
<1>2. j \in Jobs
  BY DEF Jobs
<1>3. TypeOK'
  BY <1>1, <1>2 DEF Sound, TypeOK
<1>4. ASSUME NEW k \in Invoices
      PROVE  RowSound(k)' /\ (Finalized(k)' <=> Finalized(k))
                          /\ (Automatic(k)' <=> Automatic(k))
  BY <1>1 DEF Sound, RowSound, Automatic, Finalized
<1>5. ASSUME NEW v \in Workers, pc'[v] # "idle"
      PROVE  HeldSound(v)'
  <2>1. CASE v = w
    <3>1. pc'[w] = step /\ job'[w] = j
      BY <1>1 DEF Sound, TypeOK
    <3>2. InHand(w)' = 0
      BY <3>1 DEF InHand
    <3>3. read.totals.paid \in Nat /\ captured[i] \in Nat
      BY DEF Rows, Totals, Sound, TypeOK
    <3>4. job'[w].inv = i /\ job'[w].read = read
          /\ job'[w].applied = 0 /\ job'[w].avail = 0
      BY <3>1
    <3> QED
      BY <2>1, <1>1, <1>4, <3>1, <3>2, <3>3, <3>4 DEF HeldSound
  <2>2. CASE v # w
    <3>1. pc'[v] = pc[v] /\ job'[v] = job[v] /\ HeldSound(v) /\ job[v].inv \in Invoices
      BY <1>1, <1>5, <2>2 DEF Sound, TypeOK, Jobs
    <3> QED
      BY <1>1, <1>4, <3>1 DEF HeldSound, InHand
  <2> QED
    BY <2>1, <2>2
<1> QED
  BY <1>3, <1>4, <1>5 DEF Sound

\* A handler that answers leaves the invoices sound if its write does, and
\* disturbs no other handler if finalized invoices stay as they are.
LEMMA ReplySound ==
  ASSUME Sound, NEW w \in Workers, Reply(w),
         invoices' \in [Invoices -> Rows],
         credit' \in [Registered -> Int],
         events' \in [Invoices -> [EventTypes -> Nat]],
         captured' = captured,
         \A i \in Invoices : RowSound(i)',
         \A i \in Invoices : Finalized(i) => Finalized(i)',
         \A i \in Invoices : Automatic(i) => Automatic(i)'
  PROVE  Sound'
<1>1. /\ pc' = [pc EXCEPT ![w] = "idle"]
      /\ job' = [job EXCEPT ![w] = NoJob]
      /\ requests' = requests
  BY DEF Reply
<1>2. TypeOK'
  BY <1>1 DEF Sound, TypeOK, Steps
<1>3. ASSUME NEW v \in Workers, pc'[v] # "idle"
      PROVE  HeldSound(v)'
  <2>1. /\ v # w /\ pc'[v] = pc[v] /\ job'[v] = job[v]
        /\ HeldSound(v) /\ job[v].inv \in Invoices
    BY <1>1, <1>3 DEF Sound, TypeOK, Jobs
  <2> QED
    BY <2>1 DEF HeldSound, InHand
<1> QED
  BY <1>2, <1>3 DEF Sound

\* What a handler at work holds.
LEMMA HeldFacts ==
  ASSUME Sound, NEW w \in Workers, pc[w] # "idle"
  PROVE  /\ HeldSound(w)
         /\ job[w].inv \in Invoices
         /\ job[w].read \in Rows
         /\ job[w].read.totals \in Totals
         /\ job[w].read.totals.paid \in Nat
         /\ job[w].applied \in Int /\ job[w].avail \in Int /\ job[w].cash \in Nat
         /\ captured[job[w].inv] \in Nat
  BY DEF Sound, TypeOK, Jobs, Rows, Totals

\* A step that changes one row and its events, and leaves a finalized row
\* finalized under the same collection method, leaves all rows sound.
LEMMA OneRowSound ==
  ASSUME Sound, NEW i \in Invoices,
         \A k \in Invoices : k # i => invoices'[k] = invoices[k],
         events' \in [Invoices -> [EventTypes -> Nat]],
         \A k \in Invoices, u \in EventTypes : events'[k][u] >= events[k][u],
         captured' = captured,
         RowSound(i)',
         Finalized(i) => Finalized(i)',
         Automatic(i) => Automatic(i)'
  PROVE  /\ \A k \in Invoices : RowSound(k)'
         /\ \A k \in Invoices : Finalized(k) => Finalized(k)'
         /\ \A k \in Invoices : Automatic(k) => Automatic(k)'
<1>1. ASSUME NEW k \in Invoices, k # i
      PROVE  RowSound(k)' /\ (Finalized(k)' <=> Finalized(k))
                          /\ (Automatic(k)' <=> Automatic(k))
  <2>1. /\ invoices'[k] = invoices[k] /\ captured'[k] = captured[k]
        /\ RowSound(k)
    BY <1>1 DEF Sound
  <2>2. \A u \in EventTypes : events[k][u] \in Nat /\ events'[k][u] \in Nat
                                /\ events'[k][u] >= events[k][u]
    BY DEF Sound, TypeOK
  <2>3. \A u \in EventTypes : events[k][u] > 0 => events'[k][u] > 0
    BY <2>2
  <2>4. Announced \subseteq EventTypes
    BY DEF EventTypes, Announced
  <2> QED
    BY <2>1, <2>3, <2>4 DEF RowSound, Announced, Automatic, Finalized
<1> QED
  BY <1>1

-----------------------------------------------------------------------------
(* Drafts.                                                                 *)

LEMMA CreateSound ==
  ASSUME Sound, NEW i \in Invoices, NEW c \in Customers,
         NEW method \in Collections, NEW total \in LineTotals,
         CreateInvoice(i, c, method, total)
  PROVE  Sound'
<1> DEFINE head == [Blank("draft") EXCEPT !.customer = c, !.collection = method]
           row == WithLines(head, total)
<1>a. "draft" \in Statuses
  BY DEF Statuses
<1>b. /\ Blank("draft") \in Rows /\ Blank("draft").status = "draft"
      /\ total \in Nat
  BY <1>a, BlankRow, AmountsAssumption
<1>1. /\ head \in Rows /\ head.status = "draft"
  BY <1>b DEF Rows
<1> HIDE DEF head
<1>2. /\ row \in Rows /\ row.totals.paid = 0 /\ row.status = "draft"
  BY <1>1, <1>b, WithLinesRow, UnpaidTotals
<1> HIDE DEF row
<1>3. /\ invoices[i].status = "none"
      /\ invoices' = [invoices EXCEPT ![i] = row]
      /\ Announce(i, "invoice.created")
      /\ UNCHANGED <<credit, captured, pc, job>>
      /\ requests' = requests + 1
  BY DEF CreateInvoice, row, head, Accept
<1>4. /\ events' \in [Invoices -> [EventTypes -> Nat]]
      /\ \A k \in Invoices, u \in EventTypes : events'[k][u] >= events[k][u]
  BY <1>3, AnnounceEffect DEF Sound, TypeOK, EventTypes
<1>5. invoices' \in [Invoices -> Rows] /\ invoices'[i] = row
  BY <1>2, <1>3 DEF Sound, TypeOK
<1>6. ~Finalized(i) /\ ~Finalized(i)' /\ ~Automatic(i)
  BY <1>2, <1>3, <1>5 DEF Finalized, Automatic, Terminal
<1>7. captured[i] = 0
  BY <1>6 DEF Sound, RowSound, TypeOK
<1>8. RowSound(i)'
  BY <1>2, <1>3, <1>5, <1>6, <1>7 DEF RowSound
<1>9. /\ \A k \in Invoices : RowSound(k)'
      /\ \A k \in Invoices : Finalized(k) => Finalized(k)'
      /\ \A k \in Invoices : Automatic(k) => Automatic(k)'
  BY <1>3, <1>4, <1>6, <1>8, OneRowSound
<1>10. TypeOK'
  BY <1>3, <1>4, <1>5 DEF Sound, TypeOK
<1>11. ASSUME NEW v \in Workers, pc'[v] # "idle"
       PROVE  HeldSound(v)'
  <2>1. HeldSound(v) /\ job[v].inv \in Invoices
    BY <1>3, <1>11 DEF Sound, TypeOK, Jobs
  <2> QED
    BY <1>3, <1>9, <2>1 DEF HeldSound, InHand
<1> QED
  BY <1>9, <1>10, <1>11 DEF Sound

LEMMA ReadForUpdateSound ==
  ASSUME Sound, NEW w \in Workers, NEW i \in Invoices,
         NEW c \in Customers \cup {Unspecified},
         NEW method \in Collections \cup {Unspecified},
         NEW total \in LineTotals \cup {Unspecified},
         ReadForUpdate(w, i, c, method, total)
  PROVE  Sound'
<1> DEFINE row == invoices[i]
           head == [row EXCEPT
                      !.customer = IF c = Unspecified THEN @ ELSE c,
                      !.collection = IF method = Unspecified THEN @ ELSE method]
           next == IF total = Unspecified THEN head ELSE WithLines(head, total)
<1>1. row \in Rows /\ row.totals.paid <= captured[i] /\ captured[i] \in Nat
  BY DEF Sound, TypeOK, RowSound
<1>2. head \in Rows /\ head.totals = row.totals
  BY <1>1 DEF Rows
<1> HIDE DEF head
<1>3. next \in Rows /\ next.totals.paid <= captured[i]
  BY <1>1, <1>2, WithLinesRow, UnpaidTotals, AmountsAssumption
<1>4. Begin(w, i, "editing", next, Unspecified)
  BY DEF ReadForUpdate, head
<1> QED
  BY <1>3, <1>4, BeginSound DEF Steps, OpenSteps, ChargeSteps

LEMMA ReadForDeleteSound ==
  ASSUME Sound, NEW w \in Workers, NEW i \in Invoices, ReadForDelete(w, i)
  PROVE  Sound'
<1>1. invoices[i] \in Rows /\ invoices[i].totals.paid <= captured[i]
  BY DEF Sound, TypeOK, RowSound
<1> QED
  BY <1>1, BeginSound DEF ReadForDelete, Steps, OpenSteps, ChargeSteps

LEMMA ReadForFinalizeSound ==
  ASSUME Sound, NEW w \in Workers, NEW i \in Invoices, ReadForFinalize(w, i)
  PROVE  Sound'
<1> DEFINE n == invoices[i].lines
           read == WithLines(invoices[i], n)
<1>1. n \in Nat /\ invoices[i] \in Rows /\ captured[i] \in Nat
  BY DEF Sound, TypeOK, Rows
<1>2. /\ read \in Rows /\ read.totals = Unpaid(n)
      /\ read.totals.paid <= captured[i]
  BY <1>1, WithLinesRow, UnpaidTotals
<1>3. Begin(w, i, "finalizing", read, Unspecified)
  BY DEF ReadForFinalize
<1> HIDE DEF read
<1>4. \E m \in Nat : read.totals = Unpaid(m)
  BY <1>1, <1>2
<1> QED
  BY <1>2, <1>3, <1>4, BeginSound DEF Steps, OpenSteps, ChargeSteps

\* Answering without a write.
LEMMA NoWriteSound ==
  ASSUME Sound, NEW w \in Workers, Reply(w),
         UNCHANGED <<invoices, credit, events, captured>>
  PROVE  Sound'
<1>1. \A k \in Invoices : RowSound(k)'
  BY DEF Sound, RowSound, Automatic, Finalized
<1>2. /\ \A k \in Invoices : Finalized(k) => Finalized(k)'
      /\ \A k \in Invoices : Automatic(k) => Automatic(k)'
  BY DEF Automatic, Finalized
<1> QED
  BY <1>1, <1>2, ReplySound DEF Sound, TypeOK

\* A statement guarded by status = 'draft' that keeps or deletes the draft.
LEMMA DraftWriteSound ==
  ASSUME Sound, NEW w \in Workers, NEW i \in Invoices, NEW row \in Rows,
         Reply(w), UNCHANGED <<credit, events, captured>>,
         WhereDraft(i), row.status \in {"draft", "deleted"},
         row.totals.paid <= captured[i],
         invoices' = [invoices EXCEPT ![i] = row]
  PROVE  Sound'
<1>1. invoices' \in [Invoices -> Rows] /\ invoices'[i] = row
  BY DEF Sound, TypeOK
<1>2. ~Finalized(i) /\ ~Finalized(i)' /\ ~Automatic(i)
  BY <1>1 DEF WhereDraft, Finalized, Automatic, Terminal
<1>3. captured[i] = 0
  BY <1>2 DEF Sound, RowSound, TypeOK
<1>4. RowSound(i)'
  BY <1>1, <1>2, <1>3 DEF RowSound
<1>5. /\ events' \in [Invoices -> [EventTypes -> Nat]]
      /\ \A k \in Invoices, u \in EventTypes : events'[k][u] >= events[k][u]
      /\ credit' \in [Registered -> Int]
      /\ captured' = captured
  BY DEF Sound, TypeOK
<1>6. \A k \in Invoices : k # i => invoices'[k] = invoices[k]
  BY DEF Sound, TypeOK
<1>7. /\ \A k \in Invoices : RowSound(k)'
      /\ \A k \in Invoices : Finalized(k) => Finalized(k)'
      /\ \A k \in Invoices : Automatic(k) => Automatic(k)'
  BY <1>2, <1>4, <1>5, <1>6, OneRowSound
<1> QED
  BY <1>1, <1>5, <1>7, ReplySound

LEMMA WriteUpdateSound ==
  ASSUME Sound, NEW w \in Workers, WriteUpdate(w)
  PROVE  Sound'
<1>1. /\ pc[w] = "editing" /\ Reply(w)
      /\ UNCHANGED <<credit, events, captured>>
  BY DEF WriteUpdate
<1>2. PICK i \in Invoices : i = job[w].inv
  BY <1>1, HeldFacts
<1>3. CASE ~WhereDraft(i)
  BY <1>1, <1>2, <1>3, NoWriteSound DEF WriteUpdate
<1>4. CASE WhereDraft(i)
  <2> DEFINE row == [job[w].read EXCEPT !.status = invoices[i].status]
  <2>1. invoices' = [invoices EXCEPT ![i] = row]
    BY <1>2, <1>4 DEF WriteUpdate
  <2>2. /\ row \in Rows /\ row.status = "draft"
        /\ row.totals.paid <= captured[i]
    BY <1>1, <1>2, <1>4, HeldFacts
       DEF WhereDraft, Rows, Statuses, HeldSound, InHand
  <2> QED
    BY <1>1, <1>4, <2>1, <2>2, DraftWriteSound
<1> QED
  BY <1>3, <1>4

LEMMA WriteDeleteSound ==
  ASSUME Sound, NEW w \in Workers, WriteDelete(w)
  PROVE  Sound'
<1>1. /\ pc[w] = "deleting" /\ Reply(w)
      /\ UNCHANGED <<credit, events, captured>>
  BY DEF WriteDelete
<1>2. PICK i \in Invoices : i = job[w].inv /\ captured[i] \in Nat
  BY <1>1, HeldFacts
<1>3. CASE ~WhereDraft(i)
  BY <1>1, <1>2, <1>3, NoWriteSound DEF WriteDelete
<1>4. CASE WhereDraft(i)
  <2> DEFINE row == Blank("deleted")
  <2>1. invoices' = [invoices EXCEPT ![i] = row]
    BY <1>2, <1>4 DEF WriteDelete
  <2>2. /\ row \in Rows /\ row.status = "deleted"
        /\ row.totals.paid <= captured[i]
    BY <1>2, BlankRow DEF Statuses
  <2> HIDE DEF row
  <2> QED
    BY <1>1, <1>4, <2>1, <2>2, DraftWriteSound
<1> QED
  BY <1>3, <1>4

LEMMA DieSound ==
  ASSUME Sound, NEW w \in Workers, Die(w)
  PROVE  Sound'
  BY NoWriteSound DEF Die

-----------------------------------------------------------------------------
(* Writes that leave the invoice finalized.                                *)

\* The money columns are overwritten with `next`, which is finalized, within
\* what was captured, and announced.
LEMMA MoneyWriteSound ==
  ASSUME Sound, NEW w \in Workers, NEW i \in Invoices, NEW next \in Rows,
         Reply(w), captured' = captured,
         credit' \in [Registered -> Int],
         events' \in [Invoices -> [EventTypes -> Nat]],
         \A k \in Invoices, u \in EventTypes : events'[k][u] >= events[k][u],
         WriteMoney(i, next),
         next.status \in {"open"} \cup Terminal,
         next.totals.paid <= captured[i],
         next.status = "open" =>
           next.totals.remaining > 0 \/ next.totals = Unpaid(0),
         Finalized(i) \/ events'[i]["invoice.finalized"] > 0,
         next.status = "paid" => events'[i]["invoice.paid"] > 0,
         next.status = "voided" => events'[i]["invoice.voided"] > 0,
         next.status = "uncollectible" =>
           events'[i]["invoice.marked_uncollectible"] > 0
  PROVE  Sound'
<1>1. /\ invoices' \in [Invoices -> Rows]
      /\ \A k \in Invoices : k # i => invoices'[k] = invoices[k]
      /\ invoices'[i].status = next.status
      /\ invoices'[i].totals = next.totals
      /\ invoices'[i].collection = invoices[i].collection
  BY WriteMoneyEffect DEF Sound, TypeOK
<1>2. Finalized(i)' /\ (Automatic(i) => Automatic(i)')
  BY <1>1 DEF Finalized, Automatic
<1>3. events'[i]["invoice.finalized"] > 0
  <2>1. "invoice.finalized" \in EventTypes
    BY DEF EventTypes
  <2>2. /\ events[i]["invoice.finalized"] \in Nat
        /\ events'[i]["invoice.finalized"] \in Nat
        /\ events'[i]["invoice.finalized"] >= events[i]["invoice.finalized"]
    BY <2>1 DEF Sound, TypeOK
  <2> QED
    BY <2>2 DEF Sound, RowSound
<1>4. captured[i] > 0 => Automatic(i)
  BY DEF Sound, RowSound
<1>5. RowSound(i)'
  BY <1>1, <1>2, <1>3, <1>4 DEF RowSound
<1>6. /\ \A k \in Invoices : RowSound(k)'
      /\ \A k \in Invoices : Finalized(k) => Finalized(k)'
      /\ \A k \in Invoices : Automatic(k) => Automatic(k)'
  BY <1>1, <1>2, <1>5, OneRowSound
<1> QED
  BY <1>1, <1>6, ReplySound

LEMMA WriteFinalizeSound ==
  ASSUME Sound, NEW w \in Workers, WriteFinalize(w)
  PROVE  Sound'
<1>1. pc[w] = "finalizing" /\ Reply(w) /\ UNCHANGED <<credit, captured>>
  BY DEF WriteFinalize
<1>2. PICK i \in Invoices : i = job[w].inv /\ captured[i] \in Nat
  BY <1>1, HeldFacts
<1> DEFINE next == [job[w].read EXCEPT !.status = "open"]
<1>3. PICK n \in Nat : job[w].read.totals = Unpaid(n)
  BY <1>1, HeldFacts DEF HeldSound
<1>4. /\ next \in Rows /\ next.status = "open" /\ next.totals = Unpaid(n)
  BY <1>1, <1>3, HeldFacts DEF Rows, Statuses
<1>5. /\ next.totals.paid <= captured[i]
      /\ next.totals.remaining > 0 \/ next.totals = Unpaid(0)
  BY <1>2, <1>3, <1>4, UnpaidTotals
<1>6. Announce(i, "invoice.finalized")
  BY <1>2 DEF WriteFinalize
<1>7. /\ events' \in [Invoices -> [EventTypes -> Nat]]
      /\ \A k \in Invoices, u \in EventTypes : events'[k][u] >= events[k][u]
      /\ events'[i]["invoice.finalized"] > 0
      /\ credit' \in [Registered -> Int]
  BY <1>1, <1>6, AnnounceEffect DEF Sound, TypeOK, EventTypes
<1>8. CASE WhereDraft(i)
  <2>1. WriteMoney(i, next)
    BY <1>2, <1>8 DEF WriteFinalize
  <2> HIDE DEF next
  <2> QED
    BY <1>1, <1>4, <1>5, <1>7, <2>1, MoneyWriteSound
<1>9. CASE ~WhereDraft(i)
  <2>1. UNCHANGED invoices
    BY <1>2, <1>9 DEF WriteFinalize
  <2>2. RowSound(i)' /\ (Finalized(i) => Finalized(i)')
                     /\ (Automatic(i) => Automatic(i)')
    <3>1. \A u \in EventTypes : events[i][u] > 0 => events'[i][u] > 0
      BY <1>7 DEF Sound, TypeOK
    <3>2. Announced \subseteq EventTypes
      BY DEF EventTypes, Announced
    <3> QED
      BY <1>1, <1>7, <2>1, <3>1, <3>2 DEF Announced, Sound, RowSound, Finalized, Automatic
  <2>3. \A k \in Invoices : k # i => invoices'[k] = invoices[k]
    BY <2>1
  <2>4. /\ \A k \in Invoices : RowSound(k)'
        /\ \A k \in Invoices : Finalized(k) => Finalized(k)'
        /\ \A k \in Invoices : Automatic(k) => Automatic(k)'
    BY <1>1, <1>7, <2>2, <2>3, OneRowSound
  <2> QED
    BY <1>1, <1>7, <2>1, <2>4, ReplySound DEF Sound, TypeOK
<1> QED
  BY <1>8, <1>9

LEMMA VoidSound ==
  ASSUME Sound, NEW w \in Workers, VoidInvoice(w) \/ MarkUncollectible(w)
  PROVE  Sound'
<1>1. /\ pc[w] \in {"voiding", "writing_off"} /\ Reply(w)
      /\ UNCHANGED <<credit, captured>>
  BY DEF VoidInvoice, MarkUncollectible
<1>2. PICK i \in Invoices : i = job[w].inv
  BY <1>1, HeldFacts
<1>3. Finalized(i) /\ job[w].read.totals.paid <= captured[i] /\ job[w].read \in Rows
  BY <1>1, <1>2, HeldFacts DEF HeldSound, InHand, OpenSteps
<1>4. ASSUME NEW s \in {"voided", "uncollectible"}, NEW type \in EventTypes,
             s = "voided" => type = "invoice.voided",
             s = "uncollectible" => type = "invoice.marked_uncollectible",
             WriteMoney(i, [job[w].read EXCEPT !.status = s]),
             Announce(i, type)
      PROVE  Sound'
  <2> DEFINE next == [job[w].read EXCEPT !.status = s]
  <2>1. next \in Rows /\ next.status = s /\ next.totals = job[w].read.totals
    BY <1>3 DEF Rows, Statuses, Terminal
  <2>2. /\ events' \in [Invoices -> [EventTypes -> Nat]]
        /\ \A k \in Invoices, u \in EventTypes : events'[k][u] >= events[k][u]
        /\ events'[i][type] > 0
    BY <1>4, AnnounceEffect DEF Sound, TypeOK
  <2>3. WriteMoney(i, next)
    BY <1>4
  <2> HIDE DEF next
  <2> QED
    BY <1>1, <1>3, <1>4, <2>1, <2>2, <2>3, MoneyWriteSound
       DEF Sound, TypeOK, Terminal
<1>5. CASE VoidInvoice(w)
  BY <1>2, <1>4, <1>5 DEF VoidInvoice, EventTypes
<1>6. CASE MarkUncollectible(w)
  BY <1>2, <1>4, <1>6 DEF MarkUncollectible, EventTypes
<1> QED
  BY <1>5, <1>6

-----------------------------------------------------------------------------
(* Collection.                                                             *)

LEMMA ReadOpenSound ==
  ASSUME Sound, NEW w \in Workers, NEW i \in Invoices,
         ReadForVoid(w, i) \/ ReadForWriteOff(w, i)
  PROVE  Sound'
<1>1. /\ invoices[i] \in Rows /\ invoices[i].totals.paid <= captured[i]
      /\ Finalized(i)
  BY DEF Sound, TypeOK, RowSound, ReadForVoid, ReadForWriteOff, Finalized
<1> QED
  BY <1>1, BeginSound
     DEF ReadForVoid, ReadForWriteOff, Steps, OpenSteps, ChargeSteps

LEMMA ReadForChargeSound ==
  ASSUME Sound, NEW w \in Workers, NEW i \in Invoices,
         NEW amount \in ChargeAmounts \cup {Unspecified},
         ReadForCharge(w, i, amount)
  PROVE  Sound'
<1>1. /\ invoices[i] \in Rows /\ invoices[i].totals.paid <= captured[i]
      /\ Automatic(i)
      /\ invoices[i].totals.due > invoices[i].totals.paid
  BY DEF Sound, TypeOK, RowSound, ReadForCharge, Chargeable, Finalized, Automatic
<1> QED
  BY <1>1, BeginSound DEF ReadForCharge, Steps, OpenSteps, ChargeSteps, Automatic

\* A charge moves on without touching the database.
LEMMA MoveOnSound ==
  ASSUME Sound, NEW w \in Workers, pc[w] \in ChargeSteps, pc[w] # "settling",
         NEW step \in ChargeSteps \ {"reading_credit"}, NEW j \in Jobs,
         pc' = [pc EXCEPT ![w] = step], job' = [job EXCEPT ![w] = j],
         j.inv = job[w].inv, j.read = job[w].read, j.applied <= j.avail,
         captured' \in [Invoices -> Nat],
         \A i \in Invoices : captured'[i] >= captured[i],
         \A i \in Invoices : i # j.inv => captured'[i] = captured[i],
         step = "settling" => captured'[j.inv] = captured[j.inv] + j.cash,
         UNCHANGED <<invoices, credit, events, requests>>
  PROVE  Sound'
<1>0. /\ pc'[w] = step /\ job'[w] = j /\ pc[w] # "idle"
  BY DEF Sound, TypeOK, ChargeSteps
<1>1. TypeOK'
  BY <1>0 DEF Sound, TypeOK, Steps, ChargeSteps
<1>2. \A i \in Invoices : (Finalized(i)' <=> Finalized(i))
                          /\ (Automatic(i)' <=> Automatic(i))
  BY DEF Finalized, Automatic
<1>3. Automatic(j.inv) /\ Finalized(j.inv) /\ j.inv \in Invoices
  BY <1>0, HeldFacts DEF HeldSound, Automatic
<1>4. ASSUME NEW i \in Invoices
      PROVE  RowSound(i)'
  <2>1. /\ invoices[i].totals.paid \in Nat /\ captured[i] \in Nat
        /\ captured'[i] \in Nat /\ captured'[i] >= captured[i]
    BY DEF Sound, TypeOK, Rows, Totals
  <2>2. captured'[i] > 0 => Automatic(i)
    BY <1>3 DEF Sound, RowSound
  <2> QED
    BY <1>2, <2>1, <2>2 DEF Sound, RowSound, Finalized
<1>5. ASSUME NEW v \in Workers, pc'[v] # "idle"
      PROVE  HeldSound(v)'
  <2>1. CASE v # w
    <3>1. /\ pc'[v] = pc[v] /\ job'[v] = job[v] /\ HeldSound(v)
          /\ job[v].inv \in Invoices
      BY <1>5, <2>1 DEF Sound, TypeOK, Jobs
    <3>2. /\ captured[job[v].inv] \in Nat /\ captured'[job[v].inv] \in Nat
          /\ job[v].read.totals.paid \in Nat /\ job[v].cash \in Nat
          /\ captured'[job[v].inv] >= captured[job[v].inv]
      BY <1>5, <3>1, HeldFacts
    <3> QED
      BY <1>2, <3>1, <3>2 DEF HeldSound, InHand
  <2>2. CASE v = w
    <3>1. /\ job[w].read.totals.paid <= captured[j.inv]
          /\ j.read.totals.paid \in Nat /\ j.cash \in Nat
          /\ captured[j.inv] \in Nat /\ captured'[j.inv] \in Nat
          /\ captured'[j.inv] >= captured[j.inv]
      BY <1>0, <1>3, HeldFacts DEF HeldSound, InHand, Jobs
    <3>2. InHand(w)' = IF step = "settling" THEN j.cash ELSE 0
      BY <1>0 DEF InHand
    <3>3. j.read.totals.paid + InHand(w)' <= captured'[j.inv]
      BY <3>1, <3>2
    <3>4. step # "finalizing"
      BY DEF ChargeSteps
    <3> QED
      BY <1>0, <1>2, <1>3, <2>2, <3>3, <3>4 DEF HeldSound
  <2> QED
    BY <2>1, <2>2
<1> QED
  BY <1>1, <1>4, <1>5 DEF Sound

LEMMA ReadCreditSound ==
  ASSUME Sound, NEW w \in Workers, ReadCredit(w)
  PROVE  Sound'
<1> DEFINE j == job[w]
           requested == IF j.amount = Unspecified
                        THEN j.read.totals.due - j.read.totals.paid
                        ELSE j.amount
           c       == j.read.customer
           avail   == IF c \in Registered THEN credit[c] ELSE 0
           applied == CreditUse(avail, requested)
           next    == [j EXCEPT !.avail = avail, !.applied = applied,
                                !.cash = Max0(requested - applied)]
<1>1. /\ pc[w] = "reading_credit"
      /\ job' = [job EXCEPT ![w] = next]
      /\ pc' = [pc EXCEPT ![w] = IF requested - applied <= 0
                                 THEN "settling_credit" ELSE "calling"]
      /\ UNCHANGED <<invoices, credit, events, captured, requests>>
  BY DEF ReadCredit
<1>2. j \in Jobs
  BY <1>1 DEF Sound, TypeOK
<1>3. avail \in Int
  BY DEF Sound, TypeOK
<1>4. requested \in Nat
  <2>1. CASE j.amount # Unspecified
    BY <1>2, <2>1, AmountsAssumption DEF Jobs
  <2>2. CASE j.amount = Unspecified
    <3>1. /\ j.read.totals.due \in Nat /\ j.read.totals.paid \in Nat
          /\ j.read.totals.due > j.read.totals.paid
      BY <1>1, <1>2, HeldFacts DEF HeldSound, Totals
    <3> QED
      BY <2>2, <3>1
  <2> QED
    BY <2>1, <2>2
<1>5. applied \in Int /\ applied <= avail
  BY <1>3, <1>4 DEF CreditUse, Least
<1> HIDE DEF requested, avail, applied
<1>7. Max0(requested - applied) \in Nat
  BY <1>4, <1>5 DEF Max0
<1>8. /\ next \in Jobs /\ next.inv = j.inv /\ next.read = j.read
      /\ next.applied <= next.avail
  BY <1>2, <1>3, <1>5, <1>7 DEF Jobs
<1> HIDE DEF next
<1> DEFINE step == IF requested - applied <= 0 THEN "settling_credit" ELSE "calling"
<1>9. step \in ChargeSteps \ {"reading_credit"} /\ step # "settling"
      /\ pc[w] \in ChargeSteps /\ pc[w] # "settling"
  BY <1>1 DEF ChargeSteps
<1>10. /\ captured' \in [Invoices -> Nat]
       /\ \A i \in Invoices : captured'[i] >= captured[i]
       /\ \A i \in Invoices : captured'[i] = captured[i]
  BY <1>1 DEF Sound, TypeOK
<1>11. pc' = [pc EXCEPT ![w] = step]
  BY <1>1
<1> HIDE DEF step
<1>12. UNCHANGED <<invoices, credit, events, requests>>
  BY <1>1
<1>13. job' = [job EXCEPT ![w] = next]
  BY <1>1
<1> QED
  BY <1>8, <1>9, <1>10, <1>11, <1>12, <1>13, MoveOnSound

LEMMA GatewaySound ==
  ASSUME Sound, NEW w \in Workers,
         GatewayCaptures(w) \/ GatewayDefers(w) \/ GatewayRefuses(w)
  PROVE  Sound'
<1>1. /\ pc[w] = "calling"
      /\ UNCHANGED <<invoices, credit, events, job, requests>>
  BY DEF GatewayCaptures, GatewayDefers, GatewayRefuses
<1>2. PICK i \in Invoices : i = job[w].inv
  BY <1>1, HeldFacts
<1>3. /\ job[w] \in Jobs /\ job[w].cash \in Nat
      /\ job[w].applied <= job[w].avail
      /\ captured \in [Invoices -> Nat]
  BY <1>1, HeldFacts DEF HeldSound, Sound, TypeOK
<1>4. /\ job' = [job EXCEPT ![w] = job[w]]
      /\ pc[w] \in ChargeSteps /\ pc[w] # "settling"
  BY <1>1 DEF Sound, TypeOK, ChargeSteps
<1>5. CASE GatewayCaptures(w)
  <2>1. /\ captured' = [captured EXCEPT ![i] = @ + job[w].cash]
        /\ pc' = [pc EXCEPT ![w] = "settling"]
    BY <1>2, <1>5 DEF GatewayCaptures
  <2>2. /\ captured' \in [Invoices -> Nat]
        /\ captured'[i] = captured[i] + job[w].cash
        /\ \A k \in Invoices : captured'[k] >= captured[k]
        /\ \A k \in Invoices : k # i => captured'[k] = captured[k]
    BY <1>3, <2>1
  <2>3. "settling" \in ChargeSteps \ {"reading_credit"}
    BY DEF ChargeSteps
  <2> QED
    BY <1>1, <1>2, <1>3, <1>4, <2>1, <2>2, <2>3, MoveOnSound
<1>6. CASE GatewayDefers(w) \/ GatewayRefuses(w)
  <2>1. PICK step \in {"action_required", "failed"} :
          pc' = [pc EXCEPT ![w] = step] /\ captured' = captured
    BY <1>6 DEF GatewayDefers, GatewayRefuses
  <2>2. step \in ChargeSteps \ {"reading_credit"} /\ step # "settling"
    BY DEF ChargeSteps
  <2>3. \A k \in Invoices : captured'[k] >= captured[k]
    BY <1>3, <2>1
  <2> QED
    BY <1>1, <1>3, <1>4, <2>1, <2>2, <2>3, MoveOnSound
<1> QED
  BY <1>5, <1>6

LEMMA ReportSound ==
  ASSUME Sound, NEW w \in Workers, ReportAction(w) \/ ReportFailure(w)
  PROVE  Sound'
<1>1. /\ pc[w] \in {"action_required", "failed"} /\ Reply(w)
      /\ UNCHANGED <<invoices, credit, captured>>
  BY DEF ReportAction, ReportFailure
<1>2. PICK i \in Invoices : i = job[w].inv
  BY <1>1, HeldFacts
<1>3. PICK t \in EventTypes : Announce(i, t)
  BY <1>2 DEF ReportAction, ReportFailure, EventTypes
<1>4. /\ events' \in [Invoices -> [EventTypes -> Nat]]
      /\ \A k \in Invoices, u \in EventTypes : events'[k][u] >= events[k][u]
  BY <1>3, AnnounceEffect DEF Sound, TypeOK
<1>5. RowSound(i)' /\ (Finalized(i) => Finalized(i)')
                   /\ (Automatic(i) => Automatic(i)')
  <2>1. \A u \in EventTypes : events[i][u] > 0 => events'[i][u] > 0
    BY <1>4 DEF Sound, TypeOK
  <2>2. Announced \subseteq EventTypes
    BY DEF EventTypes, Announced
  <2> QED
    BY <1>1, <2>1, <2>2 DEF Announced, Sound, RowSound, Finalized, Automatic
<1>6. /\ \A k \in Invoices : RowSound(k)'
      /\ \A k \in Invoices : Finalized(k) => Finalized(k)'
      /\ \A k \in Invoices : Automatic(k) => Automatic(k)'
  BY <1>1, <1>4, <1>5, OneRowSound
<1> QED
  BY <1>1, <1>4, <1>6, ReplySound DEF Sound, TypeOK

LEMMA SettleSound ==
  ASSUME Sound, NEW w \in Workers, SettleWithCredit(w) \/ SettleCharge(w)
  PROVE  Sound'
<1>1. /\ pc[w] \in {"settling_credit", "settling"} /\ Reply(w)
      /\ captured' = captured
  BY DEF SettleWithCredit, SettleCharge
<1>2. PICK i \in Invoices : i = job[w].inv
  BY <1>1, HeldFacts
<1> DEFINE j == job[w]
<1>3. /\ j.read \in Rows /\ j.read.totals.paid \in Nat
      /\ j.applied \in Int /\ j.avail \in Int /\ j.cash \in Nat
      /\ j.applied <= j.avail
      /\ Finalized(i)
      /\ j.read.totals.paid + InHand(w) <= captured[i]
  BY <1>1, <1>2, HeldFacts DEF HeldSound, OpenSteps, ChargeSteps
<1>4. ASSUME NEW c, NEW n \in Int, WriteCredit(c, n)
      PROVE  credit' \in [Registered -> Int]
  BY <1>4 DEF WriteCredit, Sound, TypeOK
<1>5. Announced \subseteq EventTypes /\ "invoice.paid" \in Announced
  BY DEF EventTypes, Announced
<1>6. CASE SettleWithCredit(w)
  <2> DEFINE next == ApplyPaid(j.read, j.applied)
  <2>1. next \in Rows /\ next.totals.paid = j.read.totals.paid
                      /\ next.status = "paid"
    BY <1>3, ApplyPaidRow
  <2>2. /\ pc[w] = "settling_credit" /\ WriteMoney(i, next)
        /\ WriteCredit(j.read.customer, j.avail - j.applied)
        /\ Announce(i, "invoice.paid")
    BY <1>2, <1>6 DEF SettleWithCredit
  <2> HIDE DEF next
  <2>3. next.totals.paid <= captured[i]
    BY <1>3, <2>1, <2>2 DEF InHand
  <2>4. credit' \in [Registered -> Int]
    BY <1>3, <1>4, <2>2
  <2>5. /\ events' \in [Invoices -> [EventTypes -> Nat]]
        /\ \A k \in Invoices, u \in EventTypes : events'[k][u] >= events[k][u]
        /\ events'[i]["invoice.paid"] > 0
    BY <1>5, <2>2, AnnounceEffect DEF Sound, TypeOK
  <2> QED
    BY <1>1, <1>3, <2>1, <2>2, <2>3, <2>4, <2>5, MoneyWriteSound DEF Terminal
<1>7. CASE SettleCharge(w)
  <2> DEFINE next == ApplySuccess(j.read, j.applied, j.cash)
  <2>1. /\ next \in Rows /\ next.totals.paid = j.read.totals.paid + j.cash
        /\ next.status \in {"open", "paid"}
        /\ next.status = "open" => next.totals.remaining > 0
    BY <1>3, ApplySuccessRow
  <2>2. /\ pc[w] = "settling" /\ WriteMoney(i, next)
        /\ WriteCredit(j.read.customer, CreditLeft(j, next))
        /\ IF PaidOut(next) THEN Announce(i, "invoice.paid")
                            ELSE UNCHANGED events
    BY <1>2, <1>7 DEF SettleCharge
  <2> HIDE DEF next
  <2>3. next.totals.paid <= captured[i]
    BY <1>3, <2>1, <2>2 DEF InHand
  <2>4. credit' \in [Registered -> Int]
    <3>1. CreditLeft(j, next) \in Int
      BY <1>3, <2>1 DEF CreditLeft, Rows, Totals
    <3> QED
      BY <1>4, <2>2, <3>1
  <2>5. /\ events' \in [Invoices -> [EventTypes -> Nat]]
        /\ \A k \in Invoices, u \in EventTypes : events'[k][u] >= events[k][u]
        /\ next.status = "paid" => events'[i]["invoice.paid"] > 0
    <3>1. CASE PaidOut(next)
      BY <1>5, <2>2, <3>1, AnnounceEffect DEF Sound, TypeOK
    <3>2. CASE ~PaidOut(next)
      BY <2>2, <3>2 DEF PaidOut, Sound, TypeOK
    <3> QED
      BY <3>1, <3>2
  <2> QED
    BY <1>1, <1>3, <2>1, <2>2, <2>3, <2>4, <2>5, MoneyWriteSound DEF Terminal
<1> QED
  BY <1>6, <1>7

-----------------------------------------------------------------------------
(* The theorems.                                                           *)

LEMMA InitSound == Init => Sound
<1> SUFFICES ASSUME Init PROVE Sound
  OBVIOUS
<1>1. "none" \in Statuses
  BY DEF Statuses
<1>2. /\ Blank("none") \in Rows /\ Blank("none").totals.paid = 0
      /\ Blank("none").status = "none"
  BY <1>1, BlankRow
<1>3. TypeOK
  BY <1>2, CustomersAssumption DEF Init, TypeOK, Steps
<1>4. \A i \in Invoices : invoices[i] = Blank("none") /\ captured[i] = 0
  BY DEF Init
<1>5. \A i \in Invoices : RowSound(i)
  BY <1>2, <1>4 DEF RowSound, Finalized, Terminal
<1>6. \A w \in Workers : pc[w] = "idle"
  BY DEF Init
<1> QED
  BY <1>3, <1>5, <1>6 DEF Sound

LEMMA NextSound == Sound /\ [Next]_vars => Sound'
<1> SUFFICES ASSUME Sound, [Next]_vars PROVE Sound'
  OBVIOUS
<1>1. CASE UNCHANGED vars
  BY <1>1 DEF vars, Sound, TypeOK, RowSound, HeldSound, InHand, Finalized,
              Automatic
<1>2. CASE \E i \in Invoices, c \in Customers, method \in Collections,
              total \in LineTotals : CreateInvoice(i, c, method, total)
  BY <1>2, CreateSound
<1>3. ASSUME NEW w \in Workers, NEW i \in Invoices, Arrive(w, i)
      PROVE  Sound'
  BY <1>3, ReadForUpdateSound, ReadForDeleteSound, ReadForFinalizeSound,
     ReadForChargeSound, ReadOpenSound DEF Arrive
<1>4. ASSUME NEW w \in Workers, Proceed(w)
      PROVE  Sound'
  BY <1>4, WriteUpdateSound, WriteDeleteSound, WriteFinalizeSound,
     ReadCreditSound, GatewaySound, ReportSound, SettleSound, VoidSound,
     DieSound DEF Proceed
<1> QED
  BY <1>1, <1>2, <1>3, <1>4 DEF Next

\* The inductive invariant holds throughout.
THEOREM Soundness == Spec => []Sound
  BY InitSound, NextSound, PTL DEF Spec

\* Type correctness, whatever the opening balances.
THEOREM TypeCorrect == Spec => []TypeOK
<1>1. Sound => TypeOK
  BY DEF Sound
<1> QED
  BY <1>1, Soundness, PTL

\* However charges interleave and die, an invoice never records more cash
\* than the gateway captured for it.
THEOREM RecordedMoneyIsReal == Spec => []PaidWithinCaptured
<1>1. Sound => PaidWithinCaptured
  BY DEF Sound, RowSound, PaidWithinCaptured
<1> QED
  BY <1>1, Soundness, PTL

\* The collection_method check of charge() is never outrun by a PATCH.
THEOREM SendInvoiceNeverCharged == Spec => []OnlyAutomaticIsCharged
<1>1. Sound => OnlyAutomaticIsCharged
  BY DEF Sound, RowSound, Automatic, OnlyAutomaticIsCharged
<1> QED
  BY <1>1, Soundness, PTL

\* An open invoice can always still be collected.
THEOREM OpenInvoicesOwe == Spec => []OpenStillOwes
<1>1. Sound => OpenStillOwes
  BY DEF Sound, RowSound, OpenStillOwes
<1> QED
  BY <1>1, Soundness, PTL

\* Every finalized, paid or voided invoice has its event in the outbox.
THEOREM NoSilentChange == Spec => []ChangesAnnounced
<1>1. Sound => ChangesAnnounced
  BY DEF Sound, RowSound, ChangesAnnounced
<1> QED
  BY <1>1, Soundness, PTL

\* A row that is finalized stays finalized and keeps its lines, customer and
\* collection method under the draft-only and the money-only statements.
LEMMA StepKeepsFinalized ==
  ASSUME Sound, [Next]_vars, NEW i \in Invoices, Finalized(i)
  PROVE  /\ Finalized(i)'
         /\ invoices'[i].lines = invoices[i].lines
         /\ invoices'[i].customer = invoices[i].customer
         /\ invoices'[i].collection = invoices[i].collection
<1> DEFINE Kept == /\ Finalized(i)'
                   /\ invoices'[i].lines = invoices[i].lines
                   /\ invoices'[i].customer = invoices[i].customer
                   /\ invoices'[i].collection = invoices[i].collection
<1>1. CASE invoices' = invoices
  BY <1>1 DEF Finalized
<1>2. ASSUME NEW k \in Invoices, NEW row, k # i,
             invoices' = [invoices EXCEPT ![k] = row]
      PROVE  Kept
  BY <1>2 DEF Finalized, Sound, TypeOK
<1>3. ASSUME NEW k \in Invoices, NEW next \in Rows,
             next.status \in {"open"} \cup Terminal, WriteMoney(k, next)
      PROVE  Kept
  BY <1>3, WriteMoneyEffect DEF Finalized, Sound, TypeOK
<1>4. ~WhereDraft(i) /\ invoices[i].status # "none"
  BY DEF WhereDraft, Finalized, Terminal
<1>5. ASSUME NEW k \in Invoices, NEW c \in Customers,
             NEW method \in Collections, NEW total \in LineTotals,
             CreateInvoice(k, c, method, total)
      PROVE  Kept
  BY <1>2, <1>4, <1>5 DEF CreateInvoice
<1>6. ASSUME NEW w \in Workers, NEW k \in Invoices, Arrive(w, k)
      PROVE  Kept
  <2>1. invoices' = invoices
    BY <1>6 DEF Arrive, ReadForUpdate, ReadForDelete, ReadForFinalize,
                ReadForCharge, ReadForVoid, ReadForWriteOff, Begin
  <2> QED
    BY <1>1, <2>1
<1>7. ASSUME NEW w \in Workers, Proceed(w)
      PROVE  Kept
  <2>1. CASE WriteUpdate(w) \/ WriteDelete(w)
    <3>1. pc[w] # "idle"
      BY <2>1 DEF WriteUpdate, WriteDelete
    <3>2. PICK k \in Invoices : k = job[w].inv
      BY <3>1, HeldFacts
    <3>3. CASE WhereDraft(k)
      <4>1. k # i
        BY <1>4, <3>3
      <4>2. \E row : invoices' = [invoices EXCEPT ![k] = row]
        BY <2>1, <3>2, <3>3 DEF WriteUpdate, WriteDelete
      <4> QED
        BY <1>2, <4>1, <4>2
    <3>4. CASE ~WhereDraft(k)
      BY <1>1, <2>1, <3>2, <3>4 DEF WriteUpdate, WriteDelete
    <3> QED
      BY <3>3, <3>4
  <2>2. CASE WriteFinalize(w)
    <3>1. PICK k \in Invoices : k = job[w].inv
      BY <2>2, HeldFacts DEF WriteFinalize
    <3>2. [job[w].read EXCEPT !.status = "open"] \in Rows
          /\ [job[w].read EXCEPT !.status = "open"].status = "open"
      BY <2>2, HeldFacts DEF WriteFinalize, Rows, Statuses
    <3> QED
      BY <1>1, <1>3, <2>2, <3>1, <3>2 DEF WriteFinalize
  <2>3. CASE SettleWithCredit(w)
    <3>1. PICK k \in Invoices : k = job[w].inv
      BY <2>3, HeldFacts DEF SettleWithCredit
    <3>2. /\ ApplyPaid(job[w].read, job[w].applied) \in Rows
          /\ ApplyPaid(job[w].read, job[w].applied).status = "paid"
      BY <2>3, HeldFacts, ApplyPaidRow DEF SettleWithCredit
    <3> QED
      BY <1>3, <2>3, <3>1, <3>2 DEF SettleWithCredit, Terminal
  <2>4. CASE SettleCharge(w)
    <3>1. PICK k \in Invoices : k = job[w].inv
      BY <2>4, HeldFacts DEF SettleCharge
    <3> DEFINE next == ApplySuccess(job[w].read, job[w].applied, job[w].cash)
    <3>2. next \in Rows /\ next.status \in {"open", "paid"}
      BY <2>4, HeldFacts, ApplySuccessRow DEF SettleCharge
    <3>3. WriteMoney(k, next)
      BY <2>4, <3>1 DEF SettleCharge
    <3> HIDE DEF next
    <3> QED
      BY <1>3, <3>2, <3>3 DEF Terminal
  <2>5. CASE VoidInvoice(w) \/ MarkUncollectible(w)
    <3>1. pc[w] # "idle"
      BY <2>5 DEF VoidInvoice, MarkUncollectible
    <3>2. PICK k \in Invoices : k = job[w].inv
      BY <3>1, HeldFacts
    <3>3. \A s \in {"voided", "uncollectible"} :
            /\ [job[w].read EXCEPT !.status = s] \in Rows
            /\ [job[w].read EXCEPT !.status = s].status = s
      BY <3>1, HeldFacts DEF Rows, Statuses, Terminal
    <3>4. PICK s \in {"voided", "uncollectible"} :
            WriteMoney(k, [job[w].read EXCEPT !.status = s])
      BY <2>5, <3>2 DEF VoidInvoice, MarkUncollectible
    <3> QED
      BY <1>3, <3>3, <3>4 DEF Terminal
  <2>6. CASE \/ ReadCredit(w) \/ GatewayCaptures(w) \/ GatewayDefers(w)
             \/ GatewayRefuses(w) \/ ReportAction(w) \/ ReportFailure(w)
             \/ Die(w)
    BY <1>1, <2>6 DEF ReadCredit, GatewayCaptures, GatewayDefers,
                      GatewayRefuses, ReportAction, ReportFailure, Die
  <2> QED
    BY <1>7, <2>1, <2>2, <2>3, <2>4, <2>5, <2>6 DEF Proceed
<1>8. CASE UNCHANGED vars
  BY <1>1, <1>8 DEF vars
<1> QED
  BY <1>5, <1>6, <1>7, <1>8 DEF Next

\* Finalization is one-way and freezes what is billed to whom, whatever
\* stale edits, deletions and finalizations are still in flight.
THEOREM FinalizationFreezes == Spec => FinalizationIsOneWay
<1>1. Sound /\ [Next]_vars =>
        [\A i \in Invoices : Finalized(i) =>
           /\ Finalized(i)'
           /\ invoices'[i].lines = invoices[i].lines
           /\ invoices'[i].customer = invoices[i].customer
           /\ invoices'[i].collection = invoices[i].collection]_vars
  BY StepKeepsFinalized
<1> QED
  BY <1>1, Soundness, PTL DEF Spec, FinalizationIsOneWay

-----------------------------------------------------------------------------
(* Requests served one at a time.  What a handler read is then the row as   *)
(* it is when the handler writes (Fresh), so each request is a step of the  *)
(* lifecycle, and what was captured for an invoice is what is recorded.     *)

Alone == \A v, w \in Workers : v = w

DraftSteps == {"editing", "deleting", "finalizing"}

Collecting(i) == \E w \in Workers : pc[w] = "settling" /\ job[w].inv = i

\* What there is of a customer's credit, and how much of the opening debt was billed.
Funds(c)  == IF c \in Registered THEN credit[c] ELSE 0
Billed(c) == IF c \in Registered THEN Debt(OpeningCredit[c]) - Debt(credit[c]) ELSE 0

\* The credit a charge saw is the credit there is; a debt it takes up as a whole.
Seen(w) ==
  pc[w] \in {"calling", "settling_credit", "settling"} =>
    /\ job[w].avail = Funds(job[w].read.customer)
    /\ job[w].avail >= 0 => job[w].applied >= 0
    /\ job[w].avail < 0 => job[w].applied = job[w].avail
    /\ pc[w] = "settling_credit" => job[w].avail >= 0

Fresh(w) ==
  /\ Seen(w)
  /\ pc[w] \in DraftSteps =>
       invoices[job[w].inv].status = "draft" /\ job[w].read.status = "draft"
  /\ pc[w] = "editing" => job[w].read.totals = Unpaid(job[w].read.lines)
  /\ pc[w] = "finalizing" => job[w].read.totals = invoices[job[w].inv].totals
  /\ pc[w] \in OpenSteps =>
       invoices[job[w].inv].status = "open" /\ job[w].read = invoices[job[w].inv]
  /\ pc[w] = "settling" /\ ~Faults =>
       captured[job[w].inv] = invoices[job[w].inv].totals.paid + job[w].cash

Books(i) ==
  /\ invoices[i].status \in {"none", "deleted"} => invoices[i].totals = Unpaid(0)
  /\ invoices[i].status = "draft" => invoices[i].totals = Unpaid(invoices[i].lines)
  /\ invoices[i].totals.due <= invoices[i].lines + Billed(invoices[i].customer)
  /\ ~Faults /\ ~Collecting(i) => captured[i] = invoices[i].totals.paid

Serial ==
  /\ Sound
  /\ \A w \in Workers : pc[w] # "idle" => Fresh(w)
  /\ \A i \in Invoices : Books(i)
  /\ \A c \in Registered : Debt(credit[c]) <= Debt(OpeningCredit[c])

\* No debt is billed, or that of one customer is, on top of an invoice.
OwedStays == \A c \in Registered : Debt(credit'[c]) = Debt(credit[c])
OwedFalls == \A c \in Registered : Debt(credit'[c]) <= Debt(credit[c])

DebtBilled(i, c) ==
  /\ Debt(credit[c]) > 0 /\ Debt(credit'[c]) = 0
  /\ \A d \in Registered : d # c => Debt(credit'[d]) = Debt(credit[d])
  /\ invoices'[i].totals.due = invoices[i].totals.due + Debt(credit[c])

\* A step of the lifecycle, or none, as it shows in a row.
RowMoves(i) ==
  LET s == invoices[i].status   t == invoices[i].totals
      u == invoices'[i].status  v == invoices'[i].totals
  IN  \/ /\ OwedStays /\ v.paid = t.paid
         /\ \/ u = s /\ v.due = t.due
            \/ s = "none" /\ u = "draft"
            \/ s = "draft" /\ u = "draft"
            \/ s = "draft" /\ u = "deleted" /\ v.due = 0
            \/ s = "draft" /\ u = "open" /\ v.due = t.due
            \/ s = "open" /\ u \in {"voided", "uncollectible"} /\ v.due = t.due
      \/ /\ s = "open" /\ v.paid >= t.paid
         /\ \/ OwedStays /\ v.due <= t.due
            \/ \E c \in Registered : DebtBilled(i, c)
         /\ \/ u = "open" /\ v.paid < v.due
            \/ u = "paid"

\* One row moves, and the others stay.
OneMoves == \E i \in Invoices : /\ RowMoves(i)
                                /\ \A k \in Invoices : k # i => invoices'[k] = invoices[k]

LEMMA NoneMoves ==
  ASSUME NEW i \in Invoices, invoices' = invoices, credit' = credit
  PROVE  OneMoves
BY DEF OneMoves, RowMoves, OwedStays

LEMMA DebtIsNat == ASSUME NEW n \in Int PROVE Debt(n) \in Nat /\ (n >= 0 <=> Debt(n) = 0)
BY DEF Debt, Max0

\* Once billed, a debt stays billed.
LEMMA BilledRises ==
  ASSUME Serial, TypeOK', OwedFalls, NEW c
  PROVE  /\ Billed(c) \in Nat /\ Billed(c)' \in Nat /\ Billed(c)' >= Billed(c)
         /\ c \in Registered => Debt(credit'[c]) <= Debt(OpeningCredit[c])
<1>1. CASE c \notin Registered
  BY <1>1 DEF Billed
<1>2. CASE c \in Registered
  <2>1. credit[c] \in Int /\ credit'[c] \in Int /\ OpeningCredit[c] \in Int
    BY <1>2, CustomersAssumption DEF Serial, Sound, TypeOK
  <2>2. /\ Debt(credit[c]) \in Nat /\ Debt(credit'[c]) \in Nat
        /\ Debt(OpeningCredit[c]) \in Nat
    BY <2>1, DebtIsNat
  <2>3. /\ Debt(credit[c]) <= Debt(OpeningCredit[c])
        /\ Debt(credit'[c]) <= Debt(credit[c])
    BY <1>2 DEF Serial, OwedFalls
  <2>4. /\ Billed(c) = Debt(OpeningCredit[c]) - Debt(credit[c])
        /\ Billed(c)' = Debt(OpeningCredit[c]) - Debt(credit'[c])
    BY <1>2 DEF Billed
  <2> HIDE DEF Billed
  <2> QED
    BY <2>2, <2>3, <2>4
<1> QED
  BY <1>1, <1>2

LEMMA OwedSteady ==
  ASSUME Serial
  PROVE  /\ credit' = credit => OwedStays
         /\ OwedStays => OwedFalls
<1>1. \A c \in Registered : Debt(credit[c]) \in Nat
  BY DebtIsNat DEF Serial, Sound, TypeOK
<1> QED
  BY <1>1 DEF OwedStays, OwedFalls

\* A step of the only handler, about one invoice.
LEMMA SerialStep ==
  ASSUME Alone, Serial, Sound', NEW w \in Workers, NEW i \in Invoices,
         \A k \in Invoices : k # i => invoices'[k] = invoices[k] /\ captured'[k] = captured[k],
         pc[w] = "idle" \/ job[w].inv = i,
         pc'[w] = "idle" \/ job'[w].inv = i,
         pc'[w] # "idle" => Fresh(w)',
         Books(i)', OwedFalls
  PROVE  Serial'
<1>1. \A v \in Workers : v = w
  BY DEF Alone
<1>2. \A v \in Workers : pc'[v] # "idle" => Fresh(v)'
  BY <1>1
<1>3. ASSUME NEW k \in Invoices, k # i PROVE Books(k)'
  <2>1. ~Collecting(k) /\ ~Collecting(k)'
    BY <1>1, <1>3 DEF Collecting
  <2>2. Books(k) /\ invoices'[k] = invoices[k] /\ captured'[k] = captured[k]
    BY <1>3 DEF Serial
  <2>3. invoices[k] \in Rows
    BY DEF Serial, Sound, TypeOK
  <2>4. invoices[k].totals.due \in Nat /\ invoices[k].lines \in Nat
    BY <2>3 DEF Rows, Totals
  <2>5. PICK c : c = invoices[k].customer
    OBVIOUS
  <2>6. Billed(c) \in Nat /\ Billed(c)' \in Nat /\ Billed(c)' >= Billed(c)
    BY BilledRises DEF Sound
  <2>7. invoices[k].totals.due <= invoices[k].lines + Billed(c)
    BY <2>2, <2>5 DEF Books
  <2>8. invoices[k].totals.due <= invoices[k].lines + Billed(c)'
    BY <2>4, <2>6, <2>7
  <2>9. invoices'[k].totals.due <= invoices'[k].lines + Billed(invoices[k].customer)'
    BY <2>2, <2>5, <2>8 DEF Billed
  <2> QED
    BY <2>1, <2>2, <2>9 DEF Books
<1>4. \A c \in Registered : Debt(credit'[c]) <= Debt(OpeningCredit[c])
  BY BilledRises DEF Sound
<1> QED
  BY <1>2, <1>3, <1>4 DEF Serial

\* A handler begins with the row as it is.
LEMMA SerialBegin ==
  ASSUME Alone, Serial, Sound', NEW w \in Workers, NEW i \in Invoices,
         NEW step \in Steps \ {"idle", "settling"}, NEW read, NEW amount,
         Begin(w, i, step, read, amount),
         step \notin {"calling", "settling_credit"},
         step \in DraftSteps => invoices[i].status = "draft" /\ read.status = "draft",
         step = "editing" => read.totals = Unpaid(read.lines),
         step = "finalizing" => read.totals = invoices[i].totals,
         step \in OpenSteps => invoices[i].status = "open" /\ read = invoices[i]
  PROVE  Serial' /\ OneMoves
<1>1. /\ pc[w] = "idle" /\ pc'[w] = step
      /\ job'[w].inv = i /\ job'[w].read = read
      /\ invoices' = invoices /\ captured' = captured /\ credit' = credit
  BY DEF Begin, Serial, Sound, TypeOK
<1>2. Fresh(w)'
  <2>1. Seen(w)'
    BY <1>1 DEF Seen
  <2> QED
    BY <1>1, <2>1 DEF Fresh
<1>3. Books(i)'
  <2>1. ~Collecting(i)
    BY <1>1 DEF Alone, Collecting
  <2> QED
    BY <1>1, <2>1 DEF Serial, Books, Billed
<1>4. OwedFalls
  BY <1>1, OwedSteady
<1> QED
  BY <1>1, <1>2, <1>3, <1>4, SerialStep, NoneMoves

\* A handler answers: what it wrote is in the books.
LEMMA SerialReply ==
  ASSUME Alone, Serial, Sound', NEW w \in Workers, pc[w] # "idle", Reply(w),
         captured' = captured,
         \A k \in Invoices : k # job[w].inv => invoices'[k] = invoices[k],
         RowMoves(job[w].inv), OwedFalls,
         invoices'[job[w].inv].status \in {"none", "deleted"}
           => invoices'[job[w].inv].totals = Unpaid(0),
         invoices'[job[w].inv].status = "draft"
           => invoices'[job[w].inv].totals = Unpaid(invoices'[job[w].inv].lines),
         \A c : c = invoices'[job[w].inv].customer =>
           invoices'[job[w].inv].totals.due <= invoices'[job[w].inv].lines + Billed(c)',
         pc[w] # "settling" =>
           invoices'[job[w].inv].totals.paid = invoices[job[w].inv].totals.paid,
         pc[w] = "settling" =>
           invoices'[job[w].inv].totals.paid = invoices[job[w].inv].totals.paid + job[w].cash
  PROVE  Serial' /\ OneMoves
<1>1. PICK i : i = job[w].inv
  OBVIOUS
<1>2. i \in Invoices
  BY <1>1, HeldFacts DEF Serial
<1>3. pc'[w] = "idle"
  BY DEF Reply, Serial, Sound, TypeOK
<1>4. ~Faults => captured[i] = invoices'[i].totals.paid
  <2>1. CASE pc[w] = "settling"
    <3>1. Fresh(w)
      BY DEF Serial
    <3> QED
      BY <1>1, <2>1, <3>1 DEF Fresh
  <2>2. CASE pc[w] # "settling"
    <3>1. ~Collecting(i)
      BY <2>2 DEF Alone, Collecting
    <3> QED
      BY <1>1, <1>2, <2>2, <3>1 DEF Serial, Books
  <2> QED
    BY <2>1, <2>2
<1>5. Books(i)'
  <2>1. PICK c : c = invoices'[i].customer
    OBVIOUS
  <2>2. invoices'[i].totals.due <= invoices'[i].lines + Billed(c)'
    BY <1>1, <2>1
  <2>3. invoices'[i].totals.due <= invoices'[i].lines + Billed(invoices[i].customer)'
    BY <2>1, <2>2 DEF Billed
  <2> QED
    BY <1>1, <1>4, <2>3 DEF Books
<1>6. OneMoves
  BY <1>1, <1>2 DEF OneMoves
<1> QED
  BY <1>1, <1>2, <1>3, <1>5, <1>6, SerialStep

LEMMA SerialCreate ==
  ASSUME Alone, Serial, Sound', NEW i \in Invoices, NEW c \in Customers,
         NEW method \in Collections, NEW total \in LineTotals,
         CreateInvoice(i, c, method, total)
  PROVE  Serial' /\ OneMoves
<1> DEFINE head == [Blank("draft") EXCEPT !.customer = c, !.collection = method]
           row == WithLines(head, total)
<1>1. head \in Rows /\ head.status = "draft"
  <2>1. Blank("draft") \in Rows /\ Blank("draft").status = "draft"
    BY BlankRow DEF Statuses
  <2> QED
    BY <2>1 DEF Rows
<1>2. total \in Nat
  BY AmountsAssumption
<1>3. /\ invoices[i].status = "none" /\ invoices' = [invoices EXCEPT ![i] = row]
      /\ UNCHANGED <<credit, captured, pc, job>>
  BY DEF CreateInvoice
<1> HIDE DEF head
<1>4. /\ row.totals = Unpaid(total) /\ row.status = "draft" /\ row.lines = total
  BY <1>1, <1>2, WithLinesRow DEF WithLines, Rows
<1> HIDE DEF row
<1>5. /\ invoices'[i] = row
      /\ \A k \in Invoices : k # i => invoices'[k] = invoices[k]
  BY <1>3 DEF Serial, Sound, TypeOK
<1>6. ASSUME NEW v \in Workers, pc'[v] # "idle" PROVE Fresh(v)' /\ job[v].inv # i
  <2>1. Fresh(v) /\ job[v].inv \in Invoices /\ pc[v] \in Steps
    BY <1>3, <1>6, HeldFacts DEF Serial, Sound, TypeOK
  <2>2. pc[v] \in DraftSteps \cup OpenSteps
    BY <1>3, <1>6, <2>1 DEF Steps, DraftSteps, OpenSteps, ChargeSteps
  <2>3. invoices[job[v].inv].status \in {"draft", "open"}
    BY <2>1, <2>2 DEF Fresh
  <2>4. job[v].inv # i
    BY <1>3, <2>3
  <2>5. invoices'[job[v].inv] = invoices[job[v].inv]
    BY <1>5, <2>1, <2>4
  <2>6. Seen(v)'
    BY <1>3, <2>1 DEF Fresh, Seen, Funds
  <2> QED
    BY <1>3, <2>1, <2>4, <2>5, <2>6 DEF Fresh
<1>a. OwedStays /\ OwedFalls
  BY <1>3, OwedSteady
<1>b. \A d : Billed(d)' \in Nat /\ Billed(d)' = Billed(d)
  BY <1>3, <1>a, BilledRises DEF Sound, Billed
<1>7. Unpaid(0).due = 0 /\ Unpaid(total).due = total /\ Unpaid(total).paid = Unpaid(0).paid
  BY DEF Unpaid
<1>8. Books(i)
  BY DEF Serial
<1>9. Books(i)'
  <2>1. ~Collecting(i)
    BY <1>3, <1>6 DEF Collecting
  <2>2. ~Faults => captured'[i] = invoices'[i].totals.paid
    BY <1>3, <1>4, <1>5, <1>7, <1>8, <2>1 DEF Books
  <2>3. row.totals.due <= row.lines + Billed(row.customer)'
    BY <1>2, <1>4, <1>7, <1>b
  <2>4. Books(i)' <=> /\ row.status \in {"none", "deleted"} => row.totals = Unpaid(0)
                      /\ row.status = "draft" => row.totals = Unpaid(row.lines)
                      /\ row.totals.due <= row.lines + Billed(row.customer)'
                      /\ ~Faults /\ ~Collecting(i)' => captured'[i] = row.totals.paid
    BY <1>5 DEF Books, Billed
  <2> QED
    BY <1>4, <1>5, <2>2, <2>3, <2>4
<1>10. ASSUME NEW k \in Invoices, k # i PROVE Books(k)'
  <2>1. Books(k) /\ invoices'[k] = invoices[k]
    BY <1>5, <1>10 DEF Serial
  <2> QED
    BY <1>3, <2>1 DEF Books, Collecting, Billed
<1>11. RowMoves(i)
  BY <1>3, <1>4, <1>5, <1>7, <1>8, <1>a DEF RowMoves, Books
<1>12. \A d \in Registered : Debt(credit'[d]) <= Debt(OpeningCredit[d])
  BY <1>3 DEF Serial
<1> QED
  BY <1>5, <1>6, <1>9, <1>10, <1>11, <1>12 DEF Serial, OneMoves

LEMMA SerialArrive ==
  ASSUME Alone, Serial, Sound', NEW w \in Workers, NEW i \in Invoices, Arrive(w, i)
  PROVE  Serial' /\ OneMoves
<1>1. invoices[i] \in Rows /\ Books(i) /\ invoices[i].lines \in Nat
  BY DEF Serial, Sound, TypeOK, Rows
<1>2. CASE ReadForDelete(w, i)
  BY <1>2, SerialBegin DEF ReadForDelete, Editable, Steps, DraftSteps, OpenSteps, ChargeSteps
<1>3. CASE ReadForFinalize(w, i)
  <2> DEFINE read == WithLines(invoices[i], invoices[i].lines)
  <2>1. invoices[i].status = "draft" /\ Begin(w, i, "finalizing", read, Unspecified)
    BY <1>3 DEF ReadForFinalize, Editable
  <2>2. read.status = "draft" /\ read.totals = invoices[i].totals
    BY <1>1, <2>1, WithLinesRow DEF Books
  <2> HIDE DEF read
  <2> QED
    BY <2>1, <2>2, SerialBegin DEF Steps, DraftSteps, OpenSteps, ChargeSteps
<1>4. CASE ReadForVoid(w, i) \/ ReadForWriteOff(w, i)
  BY <1>4, SerialBegin DEF ReadForVoid, ReadForWriteOff, Steps, DraftSteps
<1>5. CASE \E amount \in ChargeAmounts \cup {Unspecified} : ReadForCharge(w, i, amount)
  BY <1>5, SerialBegin DEF ReadForCharge, Chargeable, Steps, DraftSteps
<1>6. ASSUME NEW c \in Customers \cup {Unspecified},
             NEW method \in Collections \cup {Unspecified},
             NEW total \in LineTotals \cup {Unspecified},
             ReadForUpdate(w, i, c, method, total)
      PROVE  Serial' /\ OneMoves
  <2> DEFINE row == invoices[i]
             head == [row EXCEPT
                        !.customer = IF c = Unspecified THEN @ ELSE c,
                        !.collection = IF method = Unspecified THEN @ ELSE method]
             next == IF total = Unspecified THEN head ELSE WithLines(head, total)
  <2>1. row.status = "draft" /\ Begin(w, i, "editing", next, Unspecified)
    BY <1>6 DEF ReadForUpdate, Editable
  <2>2. /\ head \in Rows /\ head.status = "draft"
        /\ head.totals = row.totals /\ head.lines = row.lines
    BY <1>1, <2>1 DEF Rows
  <2> HIDE DEF head
  <2>3. next.status = "draft" /\ next.totals = Unpaid(next.lines)
    <3>1. CASE total = Unspecified
      BY <1>1, <2>1, <2>2, <3>1 DEF Books
    <3>2. CASE total # Unspecified
      <4>1. total \in Nat
        BY <3>2, AmountsAssumption
      <4>2. /\ WithLines(head, total).totals = Unpaid(total)
            /\ WithLines(head, total).status = "draft"
            /\ WithLines(head, total).lines = total
        BY <2>2, <4>1, WithLinesRow DEF WithLines, Rows
      <4> QED
        BY <3>2, <4>2
    <3> QED
      BY <3>1, <3>2
  <2> HIDE DEF next
  <2> QED
    BY <2>1, <2>3, SerialBegin DEF Steps, DraftSteps, OpenSteps, ChargeSteps
<1> QED
  BY <1>2, <1>3, <1>4, <1>5, <1>6 DEF Arrive

\* What a charge reads of the credit.
LEMMA SeenByRead ==
  ASSUME Sound, NEW w \in Workers, ReadCredit(w)
  PROVE  Seen(w)'
<1> DEFINE j == job[w]
           requested == IF j.amount = Unspecified
                        THEN j.read.totals.due - j.read.totals.paid
                        ELSE j.amount
           avail   == Funds(j.read.customer)
           applied == CreditUse(avail, requested)
           cash    == requested - applied
<1>1. /\ pc[w] = "reading_credit" /\ credit' = credit
      /\ job' = [job EXCEPT ![w] = [j EXCEPT !.avail = avail, !.applied = applied,
                                             !.cash = Max0(cash)]]
      /\ pc'[w] = IF cash <= 0 THEN "settling_credit" ELSE "calling"
  BY DEF ReadCredit, Funds, Sound, TypeOK
<1>2. j \in Jobs
  BY <1>1 DEF Sound, TypeOK
<1>3. avail \in Int
  BY DEF Sound, TypeOK, Funds
<1>4. requested \in Nat
  <2>1. CASE j.amount # Unspecified
    BY <1>2, <2>1, AmountsAssumption DEF Jobs
  <2>2. CASE j.amount = Unspecified
    <3>1. /\ j.read.totals.due \in Nat /\ j.read.totals.paid \in Nat
          /\ j.read.totals.due > j.read.totals.paid
      BY <1>1, <1>2, HeldFacts DEF HeldSound, Totals
    <3> QED
      BY <2>2, <3>1
  <2> QED
    BY <2>1, <2>2
<1> HIDE DEF requested, avail
<1>5. /\ avail >= 0 => applied >= 0
      /\ avail < 0 => applied = avail /\ cash > 0
  BY <1>3, <1>4 DEF CreditUse, Least
<1> HIDE DEF applied, cash
<1>6. /\ job'[w].avail = avail /\ job'[w].applied = applied
      /\ job'[w].read = j.read
  BY <1>1, <1>2 DEF Jobs, Sound, TypeOK
<1>7. Funds(j.read.customer)' = avail
  BY <1>1 DEF avail, Funds
<1>8. job'[w].avail = Funds(job[w].read.customer)'
  BY <1>6, <1>7 DEF Funds
<1>9. cash \in Int
  BY <1>3, <1>4 DEF cash, applied, CreditUse, Least
<1>10. pc'[w] = "settling_credit" => avail >= 0
  BY <1>1, <1>3, <1>5, <1>9
<1> QED
  BY <1>5, <1>6, <1>8, <1>10 DEF Seen, Funds

\* Steps of a charge that write no row.
LEMMA SerialMoveOn ==
  ASSUME Alone, Serial, Sound', NEW w \in Workers,
         ReadCredit(w) \/ GatewayCaptures(w) \/ GatewayDefers(w) \/ GatewayRefuses(w)
  PROVE  Serial' /\ OneMoves
<1>1. PICK i : i = job[w].inv
  OBVIOUS
<1>2. /\ pc[w] \in {"reading_credit", "calling"} /\ invoices' = invoices /\ credit' = credit
      /\ pc'[w] \in ChargeSteps
  BY DEF ReadCredit, GatewayCaptures, GatewayDefers, GatewayRefuses, ChargeSteps,
     Serial, Sound, TypeOK
<1>3. i \in Invoices /\ job[w] \in Jobs /\ Fresh(w) /\ Books(i)
  BY <1>1, <1>2, HeldFacts DEF Serial, Sound, TypeOK
<1>4. job'[w].inv = i /\ job'[w].read = job[w].read
  <2>1. CASE ReadCredit(w)
    <3>1. PICK a, b, c : job' = [job EXCEPT ![w] = [job[w] EXCEPT !.avail = a,
                                                                  !.applied = b, !.cash = c]]
      BY <2>1 DEF ReadCredit
    <3> QED
      BY <1>1, <1>3, <3>1 DEF Jobs, Serial, Sound, TypeOK
  <2>2. CASE job' = job
    BY <1>1, <2>2
  <2> QED
    BY <2>1, <2>2 DEF GatewayCaptures, GatewayDefers, GatewayRefuses
<1>5. invoices[i].status = "open" /\ job[w].read = invoices[i]
  BY <1>1, <1>2, <1>3 DEF Fresh, OpenSteps, ChargeSteps
<1>6. ~Collecting(i) /\ OwedFalls
  BY <1>2, OwedSteady DEF Alone, Collecting
<1>a. Seen(w)'
  <2>1. CASE ReadCredit(w)
    BY <2>1, SeenByRead DEF Serial
  <2>2. CASE job' = job /\ pc[w] = "calling" /\ pc'[w] # "settling_credit"
    BY <1>2, <1>3, <2>2 DEF Fresh, Seen, Funds
  <2> QED
    BY <2>1, <2>2 DEF GatewayCaptures, GatewayDefers, GatewayRefuses, Serial, Sound, TypeOK
<1>7. CASE GatewayCaptures(w)
  <2>1. /\ captured' = [captured EXCEPT ![i] = captured[i] + job[w].cash]
        /\ pc'[w] = "settling" /\ job' = job
    BY <1>1, <1>7 DEF GatewayCaptures, Serial, Sound, TypeOK
  <2>2. /\ captured'[i] = captured[i] + job[w].cash
        /\ \A k \in Invoices : k # i => captured'[k] = captured[k]
    BY <1>3, <2>1 DEF Serial, Sound, TypeOK
  <2>3. ~Faults => captured'[i] = invoices[i].totals.paid + job[w].cash
    BY <1>3, <1>6, <2>2 DEF Books
  <2>4. Fresh(w)'
    BY <1>1, <1>2, <1>5, <1>a, <2>1, <2>3 DEF Fresh, DraftSteps
  <2>5. Collecting(i)'
    BY <1>1, <2>1 DEF Collecting
  <2>6. Books(i)'
    BY <1>2, <1>3, <2>5 DEF Books, Billed
  <2> QED
    BY <1>1, <1>2, <1>3, <1>4, <1>6, <2>2, <2>4, <2>6, SerialStep, NoneMoves
<1>8. CASE ~GatewayCaptures(w)
  <2>1. captured' = captured /\ pc'[w] # "settling"
    BY <1>8 DEF ReadCredit, GatewayDefers, GatewayRefuses, Serial, Sound, TypeOK
  <2>2. Fresh(w)'
    BY <1>2, <1>4, <1>5, <1>a, <2>1 DEF Fresh, DraftSteps, ChargeSteps
  <2>3. Books(i)'
    BY <1>2, <1>3, <1>6, <2>1 DEF Books, Billed
  <2> QED
    BY <1>1, <1>2, <1>3, <1>4, <1>6, <2>1, <2>2, <2>3, SerialStep, NoneMoves
<1> QED
  BY <1>7, <1>8

\* Handlers that answer without a write of a row.
LEMMA SerialNoWrite ==
  ASSUME Alone, Serial, Sound', NEW w \in Workers, pc[w] # "idle", pc[w] # "settling" \/ Faults,
         Reply(w), invoices' = invoices, captured' = captured, credit' = credit
  PROVE  Serial' /\ OneMoves
<1>1. PICK i : i = job[w].inv
  OBVIOUS
<1>2. i \in Invoices /\ Books(i)
  BY <1>1, HeldFacts DEF Serial
<1>3. pc'[w] = "idle"
  BY DEF Reply, Serial, Sound, TypeOK
<1>4. ~Faults => ~Collecting(i)
  BY DEF Alone, Collecting
<1>5. Books(i)' /\ OwedFalls
  BY <1>2, <1>4, OwedSteady DEF Books, Billed
<1> QED
  BY <1>1, <1>2, <1>3, <1>5, SerialStep, NoneMoves

LEMMA SerialDraftWrite ==
  ASSUME Alone, Serial, Sound', NEW w \in Workers, WriteUpdate(w) \/ WriteDelete(w)
  PROVE  Serial' /\ OneMoves
<1>1. PICK i : i = job[w].inv
  OBVIOUS
<1>2. /\ pc[w] \in DraftSteps /\ pc[w] \notin {"idle", "settling"} /\ Reply(w)
      /\ captured' = captured /\ credit' = credit
  BY DEF WriteUpdate, WriteDelete, DraftSteps
<1>a. OwedStays /\ OwedFalls
  BY <1>2, OwedSteady
<1>b. \A d : Billed(d)' \in Nat
  BY <1>a, BilledRises DEF Sound
<1>3. /\ i \in Invoices /\ invoices \in [Invoices -> Rows] /\ invoices[i] \in Rows
      /\ job[w].read \in Rows /\ job[w].read.lines \in Nat /\ Books(i) /\ Fresh(w)
  BY <1>1, <1>2, HeldFacts DEF Serial, Sound, TypeOK, Rows
<1>4. invoices[i].status = "draft" /\ WhereDraft(i)
  BY <1>1, <1>2, <1>3 DEF Fresh, WhereDraft
<1>5. /\ Unpaid(0).due = 0 /\ Unpaid(0).paid = 0
      /\ \A n : Unpaid(n).due = n /\ Unpaid(n).paid = 0
  BY DEF Unpaid
<1>6. invoices[i].totals.paid = 0
  BY <1>3, <1>4, <1>5 DEF Books
<1>7. CASE WriteUpdate(w)
  <2> DEFINE row == [job[w].read EXCEPT !.status = invoices[i].status]
  <2>1. invoices' = [invoices EXCEPT ![i] = row]
    BY <1>1, <1>4, <1>7 DEF WriteUpdate
  <2>2. /\ row.status = "draft" /\ row.totals = job[w].read.totals
        /\ row.lines = job[w].read.lines
    BY <1>3, <1>4 DEF Rows
  <2>3. job[w].read.totals = Unpaid(job[w].read.lines)
    BY <1>3, <1>7 DEF WriteUpdate, Fresh
  <2> HIDE DEF row
  <2>4. /\ invoices'[i] = row
        /\ \A k \in Invoices : k # i => invoices'[k] = invoices[k]
    BY <1>3, <2>1
  <2>5. RowMoves(i)
    BY <1>4, <1>5, <1>6, <1>a, <2>2, <2>3, <2>4 DEF RowMoves
  <2>6. /\ row.totals = Unpaid(row.lines) /\ row.totals.due = row.lines /\ row.lines \in Nat
        /\ row.totals.paid = invoices[i].totals.paid
    BY <1>3, <1>5, <1>6, <2>2, <2>3
  <2>7. \A d : invoices'[i].totals.due <= invoices'[i].lines + Billed(d)'
    BY <1>b, <2>4, <2>6
  <2> QED
    BY <1>1, <1>2, <1>a, <2>2, <2>4, <2>5, <2>6, <2>7, SerialReply
<1>8. CASE WriteDelete(w)
  <2>1. invoices' = [invoices EXCEPT ![i] = Blank("deleted")]
    BY <1>1, <1>4, <1>8 DEF WriteDelete
  <2>2. /\ invoices'[i] = Blank("deleted")
        /\ \A k \in Invoices : k # i => invoices'[k] = invoices[k]
    BY <1>3, <2>1
  <2>3. /\ invoices'[i].status = "deleted" /\ invoices'[i].totals = Unpaid(0)
        /\ invoices'[i].lines = 0
    BY <2>2 DEF Blank
  <2>4. RowMoves(i)
    BY <1>4, <1>5, <1>6, <1>a, <2>3 DEF RowMoves
  <2>5. \A d : invoices'[i].totals.due <= invoices'[i].lines + Billed(d)'
    BY <1>5, <1>b, <2>3
  <2> QED
    BY <1>1, <1>2, <1>a, <1>5, <1>6, <2>2, <2>3, <2>4, <2>5, SerialReply
<1> QED
  BY <1>7, <1>8

\* A write of the money columns by a handler whose row is the row as it is.
LEMMA SerialMoney ==
  ASSUME Alone, Serial, Sound', NEW w \in Workers, NEW i \in Invoices, i = job[w].inv,
         pc[w] # "idle", Reply(w), captured' = captured,
         NEW next \in Rows, WriteMoney(i, next), next.status \in {"open"} \cup Terminal,
         \/ OwedStays /\ next.totals.due <= invoices[i].totals.due
         \/ /\ invoices[i].status = "open" /\ next.status \in {"open", "paid"}
            /\ DebtBilled(i, invoices[i].customer) /\ invoices[i].customer \in Registered,
         IF pc[w] = "settling" THEN next.totals.paid = invoices[i].totals.paid + job[w].cash
                               ELSE next.totals.paid = invoices[i].totals.paid,
         \/ /\ invoices[i].status = "draft" /\ next.status = "open"
            /\ next.totals = invoices[i].totals
         \/ /\ invoices[i].status = "open"
            /\ \/ next.status = "open" /\ next.totals.paid < next.totals.due
               \/ next.status = "paid"
         \/ /\ invoices[i].status = "open" /\ next.status \in {"voided", "uncollectible"}
            /\ next.totals = invoices[i].totals
  PROVE  Serial' /\ OneMoves
<1>1. invoices \in [Invoices -> Rows]
  BY DEF Serial, Sound, TypeOK
<1>2. /\ \A k \in Invoices : k # i => invoices'[k] = invoices[k]
      /\ invoices'[i].status = next.status
      /\ invoices'[i].totals = next.totals
      /\ invoices'[i].lines = invoices[i].lines
      /\ invoices'[i].customer = invoices[i].customer
  BY <1>1, WriteMoneyEffect
<1>3. job[w].cash \in Nat /\ Books(i)
  BY HeldFacts DEF Serial
<1>4. /\ invoices[i].totals.due \in Nat /\ invoices[i].totals.paid \in Nat
      /\ invoices[i].lines \in Nat /\ next.totals.due \in Nat
  BY <1>1 DEF Rows, Totals
<1>5. next.totals.paid >= invoices[i].totals.paid
  BY <1>3, <1>4
<1>6. RowMoves(i)
  <2>1. CASE OwedStays /\ next.totals.due <= invoices[i].totals.due
    BY <1>2, <1>5, <2>1 DEF RowMoves
  <2>2. CASE /\ invoices[i].status = "open" /\ next.status \in {"open", "paid"}
             /\ DebtBilled(i, invoices[i].customer) /\ invoices[i].customer \in Registered
    BY <1>2, <1>5, <2>2 DEF RowMoves
  <2> QED
    BY <2>1, <2>2
<1>a. PICK c : c = invoices[i].customer
  OBVIOUS
<1>b. /\ OwedFalls
      /\ c \in Registered => /\ Debt(credit[c]) \in Nat /\ Debt(credit'[c]) \in Nat
                             /\ Debt(OpeningCredit[c]) \in Nat
  <2>1. \A d \in Registered : /\ Debt(credit[d]) \in Nat /\ Debt(credit'[d]) \in Nat
                               /\ Debt(OpeningCredit[d]) \in Nat
    BY DebtIsNat, CustomersAssumption DEF Serial, Sound, TypeOK
  <2> QED
    BY <2>1, OwedSteady DEF OwedFalls, DebtBilled
<1>c. Billed(c) \in Nat /\ Billed(c)' \in Nat /\ Billed(c)' >= Billed(c)
  BY <1>b, BilledRises DEF Sound
<1>d. invoices[i].totals.due <= invoices[i].lines + Billed(c)
  BY <1>3, <1>a DEF Books
<1>e. next.totals.due <= invoices[i].lines + Billed(c)'
  <2>1. CASE next.totals.due <= invoices[i].totals.due
    BY <1>4, <1>c, <1>d, <2>1
  <2>2. CASE DebtBilled(i, c) /\ c \in Registered
    <3>1. /\ Debt(credit[c]) \in Nat /\ Debt(credit'[c]) = 0
          /\ next.totals.due = invoices[i].totals.due + Debt(credit[c])
      BY <1>2, <1>b, <2>2 DEF DebtBilled
    <3>2. /\ Billed(c) = Debt(OpeningCredit[c]) - Debt(credit[c])
          /\ Billed(c)' = Debt(OpeningCredit[c]) - Debt(credit'[c])
      BY <2>2 DEF Billed
    <3>3. PICK x, y, b : x = Debt(credit[c]) /\ y = Debt(OpeningCredit[c]) /\ b = Billed(c)'
      OBVIOUS
    <3>4. x \in Nat /\ y \in Nat /\ b = y - 0 /\ next.totals.due = invoices[i].totals.due + x
          /\ invoices[i].totals.due <= invoices[i].lines + (y - x)
      BY <1>b, <1>d, <2>2, <3>1, <3>2, <3>3
    <3>5. next.totals.due <= invoices[i].lines + b
      BY <1>4, <3>4
    <3> QED
      BY <3>3, <3>5
  <2> QED
    BY <1>a, <2>1, <2>2
<1>7. \A d : d = invoices'[i].customer =>
               invoices'[i].totals.due <= invoices'[i].lines + Billed(d)'
  BY <1>2, <1>a, <1>e
<1>8. invoices'[i].status \notin {"none", "deleted", "draft"}
  BY <1>2 DEF Terminal
<1> QED
  BY <1>2, <1>6, <1>7, <1>8, <1>b, SerialReply

LEMMA SettledDue ==
  ASSUME NEW t \in Totals, NEW a \in Int, NEW n \in Nat
  PROVE  /\ a >= 0 => Settled(t, a, n).due <= t.due
         /\ a < 0 => Settled(t, a, n).due = t.due - a
         /\ ~CoversDue(Settled(t, a, n)) => Settled(t, a, n).paid < Settled(t, a, n).due
BY DEF Settled, Reduced, Totals, Max0, CoversDue

\* A settlement leaves no debt: one there was is billed now.
LEMMA CreditWritten ==
  ASSUME credit \in [Registered -> Int], NEW c, NEW left \in Nat, WriteCredit(c, left)
  PROVE  /\ Funds(c) >= 0 => OwedStays
         /\ Funds(c) < 0 =>
              /\ c \in Registered
              /\ Debt(credit[c]) = 0 - Funds(c) /\ Debt(credit[c]) > 0 /\ Debt(credit'[c]) = 0
              /\ \A d \in Registered : d # c => Debt(credit'[d]) = Debt(credit[d])
<1>1. CASE c \notin Registered
  BY <1>1 DEF WriteCredit, Funds, OwedStays
<1>2. CASE c \in Registered
  <2>1. /\ credit'[c] = left /\ \A d \in Registered : d # c => credit'[d] = credit[d]
    BY <1>2 DEF WriteCredit
  <2>2. Debt(left) = 0 /\ credit[c] \in Int /\ Funds(c) = credit[c]
    BY <1>2 DEF Debt, Max0, Funds
  <2>3. Funds(c) >= 0 => Debt(credit[c]) = 0
    BY <2>2 DEF Debt, Max0
  <2>4. Funds(c) < 0 => Debt(credit[c]) = 0 - Funds(c) /\ Debt(credit[c]) > 0
    BY <2>2 DEF Debt, Max0
  <2>5. \A d \in Registered : d # c => Debt(credit'[d]) = Debt(credit[d])
    BY <2>1 DEF Debt
  <2>6. Debt(credit'[c]) = 0
    BY <2>1, <2>2
  <2>7. Funds(c) >= 0 => OwedStays
    BY <2>3, <2>5, <2>6 DEF OwedStays
  <2> QED
    BY <1>2, <2>4, <2>5, <2>6, <2>7
<1> QED
  BY <1>1, <1>2

LEMMA SerialMoneyWrite ==
  ASSUME Alone, Serial, Sound', NEW w \in Workers,
         WriteFinalize(w) \/ VoidInvoice(w) \/ MarkUncollectible(w)
           \/ SettleWithCredit(w) \/ SettleCharge(w)
  PROVE  Serial' /\ OneMoves
<1>1. PICK i : i = job[w].inv
  OBVIOUS
<1>2. pc[w] # "idle" /\ Reply(w) /\ captured' = captured
  BY DEF WriteFinalize, VoidInvoice, MarkUncollectible, SettleWithCredit, SettleCharge
<1>3. /\ i \in Invoices /\ invoices[i] \in Rows /\ Fresh(w)
      /\ job[w].read \in Rows /\ job[w].cash \in Nat
      /\ job[w].applied \in Int /\ job[w].avail \in Int /\ job[w].applied <= job[w].avail
  BY <1>1, <1>2, HeldFacts DEF Serial, Sound, TypeOK, HeldSound
<1>a. credit' = credit => OwedStays
  BY OwedSteady
<1>4. invoices[i].totals \in Totals /\ invoices[i].totals.due \in Nat
  BY <1>3 DEF Rows, Totals
<1>5. ASSUME NEW s \in {"open"} \cup Terminal
      PROVE  /\ [job[w].read EXCEPT !.status = s] \in Rows
             /\ [job[w].read EXCEPT !.status = s].status = s
             /\ [job[w].read EXCEPT !.status = s].totals = job[w].read.totals
  BY <1>3 DEF Rows, Statuses
<1>6. CASE WriteFinalize(w)
  <2> DEFINE next == [job[w].read EXCEPT !.status = "open"]
  <2>1. /\ invoices[i].status = "draft" /\ job[w].read.totals = invoices[i].totals
    BY <1>1, <1>3, <1>6 DEF WriteFinalize, Fresh, DraftSteps
  <2>2. WriteMoney(i, next) /\ pc[w] # "settling" /\ OwedStays
    BY <1>1, <1>6, <1>a, <2>1 DEF WriteFinalize, WhereDraft
  <2>3. next \in Rows /\ next.status = "open" /\ next.totals = invoices[i].totals
    BY <1>5, <2>1
  <2> HIDE DEF next
  <2> QED
    BY <1>1, <1>2, <1>3, <1>4, <2>1, <2>2, <2>3, SerialMoney
<1>7. ASSUME NEW s \in {"voided", "uncollectible"}, pc[w] \in {"voiding", "writing_off"},
             credit' = credit, WriteMoney(i, [job[w].read EXCEPT !.status = s])
      PROVE  Serial' /\ OneMoves
  <2> DEFINE next == [job[w].read EXCEPT !.status = s]
  <2>1. invoices[i].status = "open" /\ job[w].read = invoices[i]
    BY <1>1, <1>3, <1>7 DEF Fresh, OpenSteps
  <2>2. s \in Terminal
    BY DEF Terminal
  <2>3. next \in Rows /\ next.status = s /\ next.totals = invoices[i].totals
    BY <1>5, <2>1, <2>2
  <2>4. WriteMoney(i, next) /\ pc[w] # "settling" /\ OwedStays
    BY <1>7, <1>a
  <2> HIDE DEF next
  <2> QED
    BY <1>1, <1>2, <1>3, <1>4, <2>1, <2>2, <2>3, <2>4, SerialMoney
<1>8. CASE VoidInvoice(w) \/ MarkUncollectible(w)
  BY <1>1, <1>7, <1>8 DEF VoidInvoice, MarkUncollectible
<1>9. CASE SettleWithCredit(w)
  <2> DEFINE next == ApplyPaid(job[w].read, job[w].applied)
  <2>1. /\ invoices[i].status = "open" /\ job[w].read = invoices[i]
        /\ WriteMoney(i, next) /\ pc[w] # "settling"
    BY <1>1, <1>3, <1>9 DEF SettleWithCredit, Fresh, OpenSteps, ChargeSteps
  <2>2. /\ next \in Rows /\ next.status = "paid"
        /\ next.totals.paid = invoices[i].totals.paid
    BY <1>3, <2>1, ApplyPaidRow
  <2>a. /\ job[w].avail >= 0 /\ job[w].applied >= 0
        /\ job[w].avail = Funds(invoices[i].customer)
        /\ WriteCredit(invoices[i].customer, job[w].avail - job[w].applied)
    BY <1>1, <1>3, <1>9, <2>1 DEF SettleWithCredit, Fresh, Seen
  <2>3. next.totals.due <= invoices[i].totals.due
    <3>1. next.totals = Settled(invoices[i].totals, job[w].applied, 0)
      BY <1>3, <2>1 DEF ApplyPaid, Rows
    <3> QED
      BY <1>3, <1>4, <2>a, <3>1, SettledDue
  <2>4. OwedStays
    <3>1. job[w].avail - job[w].applied \in Nat
      BY <1>3
    <3> QED
      BY <2>a, <3>1, CreditWritten DEF Serial, Sound, TypeOK
  <2> HIDE DEF next
  <2> QED
    BY <1>1, <1>2, <1>3, <2>1, <2>2, <2>3, <2>4, SerialMoney DEF Terminal
<1>10. CASE SettleCharge(w)
  <2> DEFINE next == ApplySuccess(job[w].read, job[w].applied, job[w].cash)
             t == Settled(invoices[i].totals, job[w].applied, job[w].cash)
  <2>1. /\ invoices[i].status = "open" /\ job[w].read = invoices[i]
        /\ WriteMoney(i, next) /\ pc[w] = "settling"
    BY <1>1, <1>3, <1>10 DEF SettleCharge, Fresh, OpenSteps, ChargeSteps
  <2>2. /\ next \in Rows /\ next.status \in {"open", "paid"}
        /\ next.totals.paid = invoices[i].totals.paid + job[w].cash
    <3>1. /\ next \in Rows /\ next.status \in {"open", "paid"}
          /\ next.totals.paid = job[w].read.totals.paid + job[w].cash
      BY <1>3, ApplySuccessRow
    <3> HIDE DEF next
    <3> QED
      BY <2>1, <3>1
  <2>3. /\ job[w].applied >= 0 => t.due <= invoices[i].totals.due
        /\ job[w].applied < 0 => t.due = invoices[i].totals.due - job[w].applied
        /\ ~CoversDue(t) => t.paid < t.due
    BY <1>3, <1>4, SettledDue
  <2>4. next.totals = t /\ next.status = IF CoversDue(t) THEN "paid" ELSE "open"
    <3> HIDE DEF t
    <3>1. next = [invoices[i] EXCEPT !.totals = t,
                                     !.status = IF CoversDue(t) THEN "paid" ELSE "open"]
      BY <2>1 DEF ApplySuccess, t
    <3> QED
      BY <1>3, <3>1 DEF Rows
  <2>5. next.totals.overpaid \in Nat
    BY <2>2 DEF Rows, Totals
  <2> HIDE DEF next, t
  <2> DEFINE left == CreditLeft(job[w], next)
             c == invoices[i].customer
  <2>6. /\ job[w].avail = Funds(c) /\ WriteCredit(c, left)
        /\ job[w].avail >= 0 => job[w].applied >= 0
        /\ job[w].avail < 0 => job[w].applied = job[w].avail
    BY <1>1, <1>3, <1>10, <2>1 DEF SettleCharge, Fresh, Seen, next
  <2>7. left \in Nat
    BY <1>3, <2>5 DEF CreditLeft
  <2> HIDE DEF left
  <2>8. /\ Funds(c) >= 0 => OwedStays
        /\ Funds(c) < 0 =>
             /\ c \in Registered
             /\ Debt(credit[c]) = 0 - Funds(c) /\ Debt(credit[c]) > 0 /\ Debt(credit'[c]) = 0
             /\ \A d \in Registered : d # c => Debt(credit'[d]) = Debt(credit[d])
    BY <2>6, <2>7, CreditWritten DEF Serial, Sound, TypeOK
  <2>9. CASE job[w].avail >= 0
    <3>1. OwedStays /\ next.totals.due <= invoices[i].totals.due
      BY <2>3, <2>4, <2>6, <2>8, <2>9
    <3> QED
      BY <1>1, <1>2, <1>3, <2>1, <2>2, <2>3, <2>4, <3>1, SerialMoney DEF Terminal
  <2>10. CASE job[w].avail < 0
    <3>1. next.totals.due = invoices[i].totals.due - job[w].avail
      BY <2>3, <2>4, <2>6, <2>10
    <3>2. invoices'[i].totals = next.totals
      <4>1. invoices \in [Invoices -> Rows]
        BY DEF Serial, Sound, TypeOK
      <4> QED
        BY <1>3, <2>1, <2>2, <4>1, WriteMoneyEffect
    <3>3. invoices'[i].totals.due = invoices[i].totals.due + Debt(credit[c])
      <4>1. Debt(credit[c]) = 0 - job[w].avail
        BY <2>6, <2>8, <2>10
      <4> QED
        BY <1>3, <1>4, <3>1, <3>2, <4>1
    <3>4. DebtBilled(i, c) /\ c \in Registered
      BY <2>6, <2>8, <2>10, <3>3 DEF DebtBilled
    <3> QED
      BY <1>1, <1>2, <1>3, <2>1, <2>2, <2>3, <2>4, <3>4, SerialMoney DEF Terminal
  <2> QED
    BY <1>3, <2>9, <2>10
<1> QED
  BY <1>6, <1>8, <1>9, <1>10

\* A write-free answer: the outcome is reported, or the handler dies.
LEMMA SerialAnswer ==
  ASSUME Alone, Serial, Sound', NEW w \in Workers,
         ReportAction(w) \/ ReportFailure(w) \/ Die(w)
  PROVE  Serial' /\ OneMoves
BY SerialNoWrite DEF ReportAction, ReportFailure, Die

LEMMA InitSerial == Init => Serial
<1> SUFFICES ASSUME Init PROVE Serial
  OBVIOUS
<1>1. Sound
  BY InitSound
<1>2. \A w \in Workers : pc[w] = "idle"
  BY DEF Init
<1>3. ASSUME NEW i \in Invoices PROVE Books(i)
  <2>1. /\ invoices[i].status = "none" /\ invoices[i].totals = Unpaid(0)
        /\ invoices[i].lines = 0 /\ captured[i] = 0
    BY DEF Init, Blank
  <2>2. Unpaid(0).due = 0 /\ Unpaid(0).paid = 0
    BY DEF Unpaid
  <2>3. \A c : Billed(c) = 0
    <3>1. ASSUME NEW c PROVE Billed(c) = 0
      <4>1. CASE c \in Registered
        <5>1. credit[c] = OpeningCredit[c] /\ Debt(OpeningCredit[c]) \in Nat
          BY <4>1, DebtIsNat, CustomersAssumption DEF Init
        <5> QED
          BY <4>1, <5>1 DEF Billed
      <4> QED
        BY <4>1 DEF Billed
    <3> QED
      BY <3>1
  <2> QED
    BY <2>1, <2>2, <2>3 DEF Books
<1>4. \A c \in Registered : Debt(credit[c]) <= Debt(OpeningCredit[c])
  BY DebtIsNat, CustomersAssumption DEF Init
<1> QED
  BY <1>1, <1>2, <1>3, <1>4 DEF Serial

LEMMA NextSerial ==
  ASSUME Alone, Serial, [Next]_vars
  PROVE  Serial' /\ (OneMoves \/ UNCHANGED <<invoices, credit>>)
<1>1. Sound'
  BY NextSound DEF Serial
<1>2. CASE UNCHANGED vars
  <2>1. /\ invoices' = invoices /\ pc' = pc /\ job' = job /\ captured' = captured
        /\ credit' = credit
    BY <1>2 DEF vars
  <2>2. \A w \in Workers : pc'[w] # "idle" => Fresh(w)'
    BY <2>1 DEF Serial, Fresh, Seen, Funds
  <2>3. \A i \in Invoices : Books(i)'
    BY <2>1 DEF Serial, Books, Collecting, Billed
  <2>4. \A c \in Registered : Debt(credit'[c]) <= Debt(OpeningCredit[c])
    BY <2>1 DEF Serial
  <2> QED
    BY <1>1, <2>1, <2>2, <2>3, <2>4 DEF Serial
<1>3. ASSUME NEW i \in Invoices, NEW c \in Customers, NEW method \in Collections,
             NEW total \in LineTotals, CreateInvoice(i, c, method, total)
      PROVE  Serial' /\ OneMoves
  BY <1>1, <1>3, SerialCreate
<1>4. ASSUME NEW w \in Workers, NEW i \in Invoices, Arrive(w, i)
      PROVE  Serial' /\ OneMoves
  BY <1>1, <1>4, SerialArrive
<1>5. ASSUME NEW w \in Workers, Proceed(w)
      PROVE  Serial' /\ OneMoves
  BY <1>1, <1>5, SerialMoveOn, SerialDraftWrite, SerialMoneyWrite, SerialAnswer DEF Proceed
<1> QED
  BY <1>2, <1>3, <1>4, <1>5 DEF Next

LEMMA AlwaysSerial == ASSUME Alone PROVE Spec => []Serial
<1>1. Serial /\ [Next]_vars => Serial'
  BY NextSerial
<1> QED
  BY <1>1, InitSerial, PTL DEF Spec

-----------------------------------------------------------------------------
(* What holds when requests are served one at a time.                      *)

\* Served one at a time by handlers that do not die, what the gateway took for an
\* invoice is what the invoice records, once no charge of it is under way.
THEOREM RecordedIsCaptured ==
  ASSUME Alone, ~Faults PROVE Spec => []CapturedIsRecorded
<1>1. Serial => CapturedIsRecorded
  BY DEF Serial, Books, Collecting, CapturedIsRecorded
<1> QED
  BY <1>1, AlwaysSerial, PTL

\* Served one at a time, also when a handler dies half-way, what a finalized invoice
\* bills is accounted for by its own lines and its own customer's opening debt, also
\* when several of his invoices are charged: the debt is billed once at most.
THEOREM DueIsLinesAndDebt == ASSUME Alone PROVE Spec => []DueIsAccountedFor
<1>1. ASSUME Serial PROVE DueIsAccountedFor
  <2>1. ASSUME NEW i \in Invoices
        PROVE  invoices[i].totals.due <= invoices[i].lines
                 + (IF invoices[i].customer \in Registered
                    THEN Debt(OpeningCredit[invoices[i].customer]) ELSE 0)
    <3>1. PICK c : c = invoices[i].customer
      OBVIOUS
    <3>2. invoices[i].totals.due <= invoices[i].lines + Billed(c)
      BY <1>1, <3>1 DEF Serial, Books
    <3>3. invoices[i].totals.due \in Nat /\ invoices[i].lines \in Nat
      BY <1>1 DEF Serial, Sound, TypeOK, Rows, Totals
    <3>4. CASE c \in Registered
      <4>1. Debt(credit[c]) \in Nat /\ Debt(OpeningCredit[c]) \in Nat
        BY <1>1, <3>4, DebtIsNat, CustomersAssumption DEF Serial, Sound, TypeOK
      <4>2. Billed(c) <= Debt(OpeningCredit[c]) /\ Billed(c) \in Int
        BY <3>4, <4>1 DEF Billed
      <4> QED
        BY <3>1, <3>2, <3>3, <3>4, <4>1, <4>2
    <3>5. CASE c \notin Registered
      BY <3>1, <3>2, <3>5 DEF Billed
    <3> QED
      BY <3>4, <3>5
  <2> QED
    BY <2>1 DEF DueIsAccountedFor
<1> QED
  BY <1>1, AlwaysSerial, PTL

\* Served one at a time, nothing moves a paid, voided or uncollectible invoice.
THEOREM SettledStaysSettled == ASSUME Alone PROVE Spec => TerminalIsTerminal
<1>1. ASSUME Serial, [Next]_vars
      PROVE  [\A i \in Invoices : invoices[i].status \in Terminal =>
                invoices'[i].status = invoices[i].status]_vars
  BY <1>1, NextSerial DEF OneMoves, RowMoves, Terminal
<1> QED
  BY <1>1, AlwaysSerial, PTL DEF Spec, TerminalIsTerminal

\* A row that moves makes a step of the lifecycle.
LEMMA MoveIsLifecycleStep ==
  ASSUME Serial, Serial', OneMoves
  PROVE  [Lifecycle!Next]_(Lifecycle!lifecycle)
<1> DEFINE status == [k \in Invoices |-> invoices[k].status]
           due    == [k \in Invoices |-> invoices[k].totals.due]
           paid   == [k \in Invoices |-> invoices[k].totals.paid]
           owed   == [c \in Registered |-> Debt(credit[c])]
<1>1. PICK i \in Invoices : /\ RowMoves(i)
                            /\ \A k \in Invoices : k # i => invoices'[k] = invoices[k]
  BY DEF OneMoves
<1>2. /\ status' = [status EXCEPT ![i] = invoices'[i].status]
      /\ due' = [due EXCEPT ![i] = invoices'[i].totals.due]
      /\ paid' = [paid EXCEPT ![i] = invoices'[i].totals.paid]
  BY <1>1
<1>3. /\ status[i] = invoices[i].status /\ due[i] = invoices[i].totals.due
      /\ paid[i] = invoices[i].totals.paid
      /\ status'[i] = invoices'[i].status /\ due'[i] = invoices'[i].totals.due
      /\ paid'[i] = invoices'[i].totals.paid
  OBVIOUS
<1>4. /\ invoices[i].totals.due \in Nat /\ invoices[i].totals.paid \in Nat
      /\ invoices'[i].totals.due \in Nat /\ invoices'[i].totals.paid \in Nat
  BY DEF Serial, Sound, TypeOK, Rows, Totals
<1>5. /\ invoices'[i].status = invoices[i].status => status' = status
      /\ invoices'[i].totals.due = invoices[i].totals.due => due' = due
      /\ invoices'[i].totals.paid = invoices[i].totals.paid => paid' = paid
      /\ OwedStays => owed' = owed
  BY <1>2 DEF OwedStays
<1>6. CASE /\ OwedStays
           /\ invoices'[i].status = invoices[i].status
           /\ invoices'[i].totals.due = invoices[i].totals.due
           /\ invoices'[i].totals.paid = invoices[i].totals.paid
  BY <1>5, <1>6 DEF Lifecycle!lifecycle
<1>7. CASE /\ OwedStays
           /\ invoices[i].status = "none" /\ invoices'[i].status = "draft"
           /\ invoices'[i].totals.paid = invoices[i].totals.paid
  <2>1. Lifecycle!Create(i)
    BY <1>2, <1>3, <1>4, <1>5, <1>7 DEF Lifecycle!Create, Lifecycle!Becomes, Lifecycle!Bills
  <2> QED
    BY <2>1 DEF Lifecycle!Next
<1>8. CASE /\ OwedStays
           /\ invoices[i].status = "draft" /\ invoices'[i].status = "draft"
           /\ invoices'[i].totals.paid = invoices[i].totals.paid
  <2>1. Lifecycle!Edit(i)
    BY <1>2, <1>3, <1>4, <1>5, <1>8 DEF Lifecycle!Edit, Lifecycle!Bills
  <2> QED
    BY <2>1 DEF Lifecycle!Next
<1>9. CASE /\ OwedStays
           /\ invoices[i].status = "draft" /\ invoices'[i].status = "deleted"
           /\ invoices'[i].totals.due = 0
           /\ invoices'[i].totals.paid = invoices[i].totals.paid
  <2>1. Lifecycle!Delete(i)
    BY <1>2, <1>3, <1>5, <1>9 DEF Lifecycle!Delete, Lifecycle!Becomes, Lifecycle!Bills
  <2> QED
    BY <2>1 DEF Lifecycle!Next
<1>10. CASE /\ OwedStays
            /\ invoices[i].status = "draft" /\ invoices'[i].status = "open"
            /\ invoices'[i].totals.due = invoices[i].totals.due
            /\ invoices'[i].totals.paid = invoices[i].totals.paid
  <2>1. Lifecycle!Finalize(i)
    BY <1>2, <1>3, <1>5, <1>10 DEF Lifecycle!Finalize, Lifecycle!Becomes, Lifecycle!money
  <2> QED
    BY <2>1 DEF Lifecycle!Next
<1>11. CASE /\ invoices[i].status = "open"
            /\ \/ OwedStays /\ invoices'[i].totals.due <= invoices[i].totals.due
               \/ \E c \in Registered : DebtBilled(i, c)
            /\ invoices'[i].totals.paid >= invoices[i].totals.paid
            /\ \/ /\ invoices'[i].status = "open"
                  /\ invoices'[i].totals.paid < invoices'[i].totals.due
               \/ invoices'[i].status = "paid"
  <2>1. due' = [due EXCEPT ![i] = due'[i]] /\ paid' = [paid EXCEPT ![i] = paid'[i]]
    BY <1>2, <1>3
  <2>2. paid'[i] \in Nat /\ paid'[i] >= paid[i] /\ status[i] = "open"
    BY <1>3, <1>4, <1>11
  <2>3. \/ paid'[i] < due'[i] /\ status' = status
        \/ status' = [status EXCEPT ![i] = "paid"]
    BY <1>2, <1>3, <1>5, <1>11
  <2>4. CASE OwedStays /\ invoices'[i].totals.due <= invoices[i].totals.due
    <3>1. due'[i] \in 0 .. due[i] /\ owed' = owed
      BY <1>3, <1>4, <1>5, <2>4
    <3> HIDE DEF owed, due, paid, status
    <3>2. Lifecycle!UseCredit(i)
      BY <2>1, <3>1 DEF Lifecycle!UseCredit, Lifecycle!Bills, owed, due
    <3>3. Lifecycle!Collect(i)
      BY <2>1, <2>2, <2>3, <3>2
         DEF Lifecycle!Collect, Lifecycle!Becomes, Lifecycle!Holds, status, due, paid
    <3> QED
      BY <3>3 DEF Lifecycle!Next
  <2>5. ASSUME NEW c \in Registered, DebtBilled(i, c) PROVE Lifecycle!Next
    <3>1. owed[c] > 0 /\ due'[i] = due[i] + owed[c]
      BY <1>3, <2>5 DEF DebtBilled
    <3>2. owed' = [owed EXCEPT ![c] = 0]
      BY <2>5 DEF DebtBilled
    <3>3. Lifecycle!BillDebt(i, c)
      BY <2>1, <3>1, <3>2 DEF Lifecycle!BillDebt, Lifecycle!Bills
    <3>4. Lifecycle!Collect(i)
      BY <2>1, <2>2, <2>3, <3>3
         DEF Lifecycle!Collect, Lifecycle!Becomes, Lifecycle!Holds
    <3> QED
      BY <3>4 DEF Lifecycle!Next
  <2> QED
    BY <1>11, <2>4, <2>5
<1>12. CASE /\ OwedStays
            /\ invoices[i].status = "open"
            /\ invoices'[i].status \in {"voided", "uncollectible"}
            /\ invoices'[i].totals.due = invoices[i].totals.due
            /\ invoices'[i].totals.paid = invoices[i].totals.paid
  <2>1. Lifecycle!GiveUp(i)
    BY <1>2, <1>3, <1>5, <1>12 DEF Lifecycle!GiveUp, Lifecycle!Becomes, Lifecycle!money
  <2> QED
    BY <2>1 DEF Lifecycle!Next
<1> QED
  BY <1>1, <1>6, <1>7, <1>8, <1>9, <1>10, <1>11, <1>12 DEF RowMoves

\* Served one at a time, and whenever a handler dies, the service implements the
\* lifecycle it documents: every step of it is a step of InvoiceLifecycle or none.
THEOREM ImplementsLifecycle == ASSUME Alone PROVE Spec => LifecycleSpec
<1>1. Init => Lifecycle!Init
  BY DebtIsNat, CustomersAssumption DEF Init, Blank, Unpaid, Lifecycle!Init
<1>2. Serial /\ Serial' /\ [Next]_vars => [Lifecycle!Next]_(Lifecycle!lifecycle)
  <2> SUFFICES ASSUME Serial, Serial', [Next]_vars
               PROVE  [Lifecycle!Next]_(Lifecycle!lifecycle)
    OBVIOUS
  <2>1. CASE OneMoves
    BY <2>1, MoveIsLifecycleStep
  <2>2. CASE UNCHANGED <<invoices, credit>>
    BY <2>2 DEF Lifecycle!lifecycle
  <2> QED
    BY <2>1, <2>2, NextSerial
<1> QED
  BY <1>1, <1>2, AlwaysSerial, PTL DEF Spec, LifecycleSpec, Lifecycle!Spec

-----------------------------------------------------------------------------
(* Sums over finite sets.  The provers cannot do the induction that the       *)
(* recursion of MapThenSumSet calls for; a smallest counterexample serves.    *)

\* The element that comes first, as CHOOSE has it.
Pick(s) == CHOOSE x \in s : TRUE
\* The sums of g over the subsets of S, from smaller ones to larger ones.
Table(g, S, it) ==
  it = [s \in SUBSET S |-> IF s = {} THEN 0 ELSE g[Pick(s)] + it[s \ {Pick(s)}]]
Rule(g, it, s) == it[s] = g[Pick(s)] + it[s \ {Pick(s)}]

Sum(g, S) == (CHOOSE it : Table(g, S, it))[S]

LEMMA PickIn == ASSUME NEW s, s # {} PROVE Pick(s) \in s
BY DEF Pick

\* A nonempty set of subsets of a finite set has one with no smaller one in it.
LEMMA HasSmallest ==
  ASSUME NEW S, IsFiniteSet(S), NEW Bad \in SUBSET SUBSET S, Bad # {}
  PROVE  \E T \in Bad : \A U \in Bad : U \subseteq T => U = T
<1> DEFINE Smaller == {TT \in (SUBSET S) \X (SUBSET S) : TT[1] \subseteq TT[2] /\ TT[1] # TT[2]}
<1>1. IsWellFoundedOn(Smaller, SUBSET S)
  BY FS_StrictSubsetOrderingWellFounded, FS_FiniteSubsetsOfFinite DEF StrictSubsetOrdering
<1>2. PICK T \in Bad : \A U \in Bad : ~(<<U, T>> \in Smaller)
  <2> HIDE DEF Smaller
  <2> QED
    BY <1>1, WFMin
<1> QED
  BY <1>2

LEMMA TableAt ==
  ASSUME NEW g, NEW S, NEW it, Table(g, S, it)
  PROVE  /\ DOMAIN it = SUBSET S
         /\ it[{}] = 0
         /\ \A s \in SUBSET S : s # {} => Rule(g, it, s)
<1> DEFINE F == [t \in SUBSET S |-> IF t = {} THEN 0 ELSE g[Pick(t)] + it[t \ {Pick(t)}]]
<1>1. it = F
  BY DEF Table
<1>2. F[{}] = 0
  OBVIOUS
<1>3. ASSUME NEW s \in SUBSET S, s # {} PROVE F[s] = g[Pick(s)] + it[s \ {Pick(s)}]
  BY <1>3
<1>4. DOMAIN F = SUBSET S
  OBVIOUS
<1> HIDE DEF F
<1> QED
  BY <1>1, <1>2, <1>3, <1>4 DEF Rule

\* There is no more than one table: the values for the subsets without their first
\* element determine the values for the subsets.
LEMMA TableUnique ==
  ASSUME NEW g, NEW h, NEW S, IsFiniteSet(S), NEW T \in SUBSET S,
         NEW it, NEW jt, Table(g, S, it), Table(h, T, jt), \A x \in T : g[x] = h[x]
  PROVE  \A s \in SUBSET T : it[s] = jt[s]
<1> DEFINE Bad == {s \in SUBSET T : it[s] # jt[s]}
<1>1. SUFFICES ASSUME Bad # {} PROVE FALSE
  OBVIOUS
<1>2. IsFiniteSet(T)
  BY FS_Subset
<1>3. PICK s \in Bad : \A u \in Bad : u \subseteq s => u = s
  <2>1. Bad \in SUBSET SUBSET T
    OBVIOUS
  <2> HIDE DEF Bad
  <2> QED
    BY <1>1, <1>2, <2>1, HasSmallest
<1>4. s # {}
  <2>1. it[{}] = 0 /\ jt[{}] = 0
    BY TableAt
  <2> QED
    BY <1>3, <2>1
<1>5. Pick(s) \in s /\ s \in SUBSET T /\ s \in SUBSET S
  BY <1>4, PickIn
<1>6. it[s \ {Pick(s)}] = jt[s \ {Pick(s)}]
  BY <1>3, <1>5
<1>7. /\ it[s] = g[Pick(s)] + it[s \ {Pick(s)}]
      /\ jt[s] = h[Pick(s)] + jt[s \ {Pick(s)}]
  <2>1. Rule(g, it, s) /\ Rule(h, jt, s)
    BY <1>4, <1>5, TableAt
  <2> QED
    BY <2>1 DEF Rule
<1>8. g[Pick(s)] = h[Pick(s)]
  BY <1>5
<1> QED
  BY <1>3, <1>6, <1>7, <1>8

LEMMA TableExists ==
  ASSUME NEW g, NEW S, IsFiniteSet(S)
  PROVE  \E it : Table(g, S, it)
<1> DEFINE Bad == {T \in SUBSET S : ~ \E it : Table(g, T, it)}
<1>1. SUFFICES ASSUME Bad # {} PROVE FALSE
  <2>1. ASSUME Bad = {} PROVE \E it : Table(g, S, it)
    BY <2>1
  <2> QED
    BY <2>1
<1>2. PICK T \in Bad : \A U \in Bad : U \subseteq T => U = T
  <2>1. Bad \in SUBSET SUBSET S
    OBVIOUS
  <2> HIDE DEF Bad
  <2> QED
    BY <1>1, <2>1, HasSmallest
<1>3. ASSUME NEW u \in SUBSET T, u # T PROVE Table(g, u, CHOOSE it : Table(g, u, it))
  <2>1. \E it : Table(g, u, it)
    BY <1>2, <1>3
  <2> QED
    BY <2>1
<1>4. ASSUME NEW u \in SUBSET T, u # T
      PROVE  /\ u = {} => Sum(g, u) = 0
             /\ u # {} => Sum(g, u) = g[Pick(u)] + Sum(g, u \ {Pick(u)})
  <2> DEFINE it == CHOOSE jt : Table(g, u, jt)
  <2>1. Table(g, u, it) /\ Sum(g, u) = it[u]
    BY <1>3, <1>4 DEF Sum
  <2> HIDE DEF it
  <2>2. /\ u = {} => it[u] = 0
        /\ u # {} => it[u] = g[Pick(u)] + it[u \ {Pick(u)}]
    <3>1. u \in SUBSET u
      OBVIOUS
    <3>2. it[{}] = 0 /\ (u # {} => Rule(g, it, u))
      BY <2>1, <3>1, TableAt
    <3> QED
      BY <3>2 DEF Rule
  <2>3. ASSUME u # {} PROVE it[u \ {Pick(u)}] = Sum(g, u \ {Pick(u)})
    <3> DEFINE v == u \ {Pick(u)}
    <3>1. v \in SUBSET T /\ v # T /\ v \in SUBSET u
      BY <2>3, PickIn
    <3> DEFINE jt == CHOOSE kt : Table(g, v, kt)
    <3>2. Table(g, v, jt) /\ Sum(g, v) = jt[v]
      BY <1>3, <3>1 DEF Sum
    <3>3. IsFiniteSet(u)
      BY FS_Subset
    <3> HIDE DEF v, jt
    <3>4. \A s \in SUBSET v : it[s] = jt[s]
      BY <2>1, <3>1, <3>2, <3>3, TableUnique
    <3>5. v \in SUBSET v
      OBVIOUS
    <3> QED
      BY <3>2, <3>4, <3>5 DEF v
  <2> QED
    BY <2>1, <2>2, <2>3
<1> DEFINE new == [s \in SUBSET T |-> IF s = {} THEN 0 ELSE g[Pick(s)] + Sum(g, s \ {Pick(s)})]
<1>5. ASSUME NEW s \in SUBSET T, s # {}
      PROVE  new[s \ {Pick(s)}] = Sum(g, s \ {Pick(s)})
  <2> DEFINE u == s \ {Pick(s)}
  <2>1. u \in SUBSET T /\ u # T
    BY <1>5, PickIn
  <2>2. new[u] = IF u = {} THEN 0 ELSE g[Pick(u)] + Sum(g, u \ {Pick(u)})
    BY <2>1
  <2> HIDE DEF new, u
  <2>3. new[u] = Sum(g, u)
    BY <1>4, <2>1, <2>2
  <2> QED
    BY <2>3 DEF u
<1>6. Table(g, T, new)
  <2>1. new = [s \in SUBSET T |-> IF s = {} THEN 0 ELSE g[Pick(s)] + new[s \ {Pick(s)}]]
    <3> DEFINE F == [s \in SUBSET T |-> IF s = {} THEN 0 ELSE g[Pick(s)] + new[s \ {Pick(s)}]]
    <3>1. ASSUME NEW s \in SUBSET T PROVE new[s] = F[s]
      <4>1. new[s] = IF s = {} THEN 0 ELSE g[Pick(s)] + Sum(g, s \ {Pick(s)})
        OBVIOUS
      <4>2. F[s] = IF s = {} THEN 0 ELSE g[Pick(s)] + new[s \ {Pick(s)}]
        OBVIOUS
      <4> HIDE DEF new, F
      <4> QED
        BY <1>5, <4>1, <4>2
    <3>2. DOMAIN new = SUBSET T /\ DOMAIN F = SUBSET T
      OBVIOUS
    <3>3. new = [s \in SUBSET T |-> new[s]] /\ F = [s \in SUBSET T |-> F[s]]
      OBVIOUS
    <3> QED
      BY <3>1
  <2> HIDE DEF new
  <2> QED
    BY <2>1 DEF Table
<1> QED
  BY <1>2, <1>6

\* The sum of nothing is 0; a sum is its first term and the sum of the rest.
LEMMA SumFirst ==
  ASSUME NEW g, NEW S, IsFiniteSet(S)
  PROVE  /\ S = {} => Sum(g, S) = 0
         /\ S # {} => Sum(g, S) = g[Pick(S)] + Sum(g, S \ {Pick(S)})
<1> DEFINE it == CHOOSE jt : Table(g, S, jt)
<1>1. Table(g, S, it)
  BY TableExists
<1>2. Sum(g, S) = it[S]
  BY DEF Sum
<1> HIDE DEF it
<1>3. /\ S = {} => it[S] = 0
      /\ S # {} => it[S] = g[Pick(S)] + it[S \ {Pick(S)}]
  <2>1. S \in SUBSET S
    OBVIOUS
  <2>2. it[{}] = 0 /\ (S # {} => Rule(g, it, S))
    BY <1>1, <2>1, TableAt
  <2> QED
    BY <2>2 DEF Rule
<1> DEFINE v == S \ {Pick(S)}
<1> DEFINE jt == CHOOSE kt : Table(g, v, kt)
<1>4. v \in SUBSET S /\ IsFiniteSet(v) /\ v \in SUBSET v
  BY FS_Subset
<1>5. Table(g, v, jt) /\ Sum(g, v) = jt[v]
  <2> HIDE DEF v
  <2> QED
    BY <1>4, TableExists DEF Sum
<1>6. it[v] = jt[v]
  <2> HIDE DEF v, jt
  <2> QED
    BY <1>1, <1>4, <1>5, TableUnique
<1> QED
  BY <1>2, <1>3, <1>5, <1>6

LEMMA SumSame ==
  ASSUME NEW g, NEW h, NEW S, IsFiniteSet(S), \A x \in S : g[x] = h[x]
  PROVE  Sum(g, S) = Sum(h, S)
<1>1. PICK it : Table(g, S, it) /\ Sum(g, S) = it[S]
  BY TableExists DEF Sum
<1>2. PICK jt : Table(h, S, jt) /\ Sum(h, S) = jt[S]
  BY TableExists DEF Sum
<1>3. \A s \in SUBSET S : it[s] = jt[s]
  BY <1>1, <1>2, TableUnique
<1> QED
  BY <1>1, <1>2, <1>3

LEMMA SumInt ==
  ASSUME NEW g, NEW S, IsFiniteSet(S), \A x \in S : g[x] \in Int
  PROVE  Sum(g, S) \in Int
<1> DEFINE Bad == {T \in SUBSET S : Sum(g, T) \notin Int}
<1>1. SUFFICES ASSUME Bad # {} PROVE FALSE
  OBVIOUS
<1>2. PICK T \in Bad : \A U \in Bad : U \subseteq T => U = T
  <2>1. Bad \in SUBSET SUBSET S
    OBVIOUS
  <2> HIDE DEF Bad
  <2> QED
    BY <1>1, <2>1, HasSmallest
<1>3. IsFiniteSet(T)
  BY FS_Subset
<1>4. /\ T = {} => Sum(g, T) = 0
      /\ T # {} => Sum(g, T) = g[Pick(T)] + Sum(g, T \ {Pick(T)})
  BY <1>3, SumFirst
<1>5. T # {}
  BY <1>2, <1>4
<1>6. Pick(T) \in T
  BY <1>5, PickIn
<1>7. Sum(g, T \ {Pick(T)}) \in Int
  BY <1>2, <1>6
<1> QED
  BY <1>2, <1>4, <1>5, <1>6, <1>7

\* Any term may come first.
LEMMA SumSplit ==
  ASSUME NEW g, NEW S, IsFiniteSet(S), \A x \in S : g[x] \in Int, NEW y \in S
  PROVE  Sum(g, S) = g[y] + Sum(g, S \ {y})
<1> DEFINE Bad == {T \in SUBSET S : \E x \in T : Sum(g, T) # g[x] + Sum(g, T \ {x})}
<1>1. SUFFICES ASSUME Bad # {} PROVE FALSE
  <2>1. ASSUME Bad = {} PROVE Sum(g, S) = g[y] + Sum(g, S \ {y})
    BY <2>1
  <2> QED
    BY <2>1
<1>2. PICK T \in Bad : \A U \in Bad : U \subseteq T => U = T
  <2>1. Bad \in SUBSET SUBSET S
    OBVIOUS
  <2> HIDE DEF Bad
  <2> QED
    BY <1>1, <2>1, HasSmallest
<1>3. PICK x \in T : Sum(g, T) # g[x] + Sum(g, T \ {x})
  BY <1>2
<1>4. PICK p : p = Pick(T)
  OBVIOUS
<1>5. p \in T
  BY <1>3, <1>4, PickIn
<1>6. IsFiniteSet(T)
  BY FS_Subset
<1>7. Sum(g, T) = g[p] + Sum(g, T \ {p})
  BY <1>3, <1>4, <1>6, SumFirst
<1>8. x # p
  BY <1>3, <1>7
<1> DEFINE W == (T \ {p}) \ {x}
<1>9. Sum(g, T \ {p}) = g[x] + Sum(g, W)
  <2>1. T \ {p} \notin Bad
    BY <1>2, <1>5
  <2> QED
    BY <1>3, <1>8, <2>1
<1>10. Sum(g, T \ {x}) = g[p] + Sum(g, W)
  <2>1. T \ {x} \notin Bad
    BY <1>2, <1>3
  <2>2. (T \ {x}) \ {p} = W
    OBVIOUS
  <2> QED
    BY <1>5, <1>8, <2>1, <2>2
<1>11. g[p] \in Int /\ g[x] \in Int /\ Sum(g, W) \in Int
  <2>1. W \in SUBSET S /\ IsFiniteSet(W)
    BY FS_Subset
  <2> QED
    BY <1>3, <1>5, <2>1, SumInt
<1> HIDE DEF W
<1> QED
  BY <1>3, <1>7, <1>9, <1>10, <1>11

\* Terms that are zero may be left out.
LEMMA SumNonzero ==
  ASSUME NEW g, NEW S, IsFiniteSet(S), \A x \in S : g[x] \in Int,
         NEW T \in SUBSET S, \A x \in S \ T : g[x] = 0
  PROVE  Sum(g, S) = Sum(g, T)
<1> DEFINE Bad == {U \in SUBSET S : T \subseteq U /\ Sum(g, U) # Sum(g, T)}
<1>1. SUFFICES ASSUME Bad # {} PROVE FALSE
  <2>1. ASSUME Bad = {} PROVE Sum(g, S) = Sum(g, T)
    BY <2>1
  <2> QED
    BY <2>1
<1>2. PICK U \in Bad : \A V \in Bad : V \subseteq U => V = U
  <2>1. Bad \in SUBSET SUBSET S
    OBVIOUS
  <2> HIDE DEF Bad
  <2> QED
    BY <1>1, <2>1, HasSmallest
<1>3. PICK x \in U : x \notin T
  <2>1. T \subseteq U /\ T # U
    BY <1>2
  <2> QED
    BY <2>1
<1>4. g[x] = 0 /\ U \ {x} \in SUBSET S /\ T \subseteq U \ {x} /\ U \ {x} # U
  BY <1>3
<1>5. Sum(g, U \ {x}) = Sum(g, T)
  BY <1>2, <1>4
<1>6. Sum(g, U) = g[x] + Sum(g, U \ {x})
  <2>1. IsFiniteSet(U) /\ \A y \in U : g[y] \in Int
    BY FS_Subset
  <2> QED
    BY <1>3, <2>1, SumSplit
<1>7. Sum(g, T) \in Int
  <2>1. IsFiniteSet(T) /\ \A y \in T : g[y] \in Int
    BY FS_Subset
  <2> QED
    BY <2>1, SumInt
<1> QED
  BY <1>2, <1>4, <1>5, <1>6, <1>7

\* When one term changes, the sum changes by as much.
LEMMA SumChange ==
  ASSUME NEW g, NEW h, NEW S, IsFiniteSet(S), NEW y \in S,
         \A x \in S : g[x] \in Int /\ h[x] \in Int,
         \A x \in S \ {y} : g[x] = h[x]
  PROVE  Sum(h, S) = Sum(g, S) + (h[y] - g[y])
<1>1. Sum(g, S) = g[y] + Sum(g, S \ {y}) /\ Sum(h, S) = h[y] + Sum(h, S \ {y})
  BY SumSplit
<1>2. IsFiniteSet(S \ {y})
  BY FS_Subset
<1>3. Sum(g, S \ {y}) = Sum(h, S \ {y})
  BY <1>2, SumSame
<1>4. Sum(g, S \ {y}) \in Int
  BY <1>2, SumInt
<1> QED
  BY <1>1, <1>3, <1>4

LEMMA SumZero ==
  ASSUME NEW g, NEW S, IsFiniteSet(S), \A x \in S : g[x] = 0
  PROVE  Sum(g, S) = 0
<1>1. Sum(g, S) = Sum(g, {})
  BY SumNonzero
<1>2. Sum(g, {}) = 0
  BY FS_EmptySet, SumFirst
<1> QED
  BY <1>1, <1>2

-----------------------------------------------------------------------------
(* Credit.  What a charge saw of it is what there is when it settles, so what *)
(* it takes off the balance is at least what it takes off the amount due.     *)

\* What credit did for a finalized invoice, if it is c's.
Use(i) == IF Finalized(i)
          THEN invoices[i].lines - invoices[i].totals.due - invoices[i].totals.overpaid
          ELSE 0

UseBy(c) == [i \in Invoices |-> IF invoices[i].customer = c THEN Use(i) ELSE 0]

Accounts ==
  /\ \A i \in Invoices : invoices[i].status = "open" => invoices[i].totals.overpaid = 0
  /\ \A c \in Registered : credit[c] + Sum(UseBy(c), Invoices) <= OpeningCredit[c]

LEMMA UseInt ==
  ASSUME TypeOK, NEW c
  PROVE  \A i \in Invoices : UseBy(c)[i] \in Int
<1> SUFFICES ASSUME NEW i \in Invoices PROVE UseBy(c)[i] \in Int
  OBVIOUS
<1>1. invoices[i] \in Rows
  BY DEF TypeOK
<1>2. /\ invoices[i].lines \in Int /\ invoices[i].totals.due \in Int
      /\ invoices[i].totals.overpaid \in Int
  BY <1>1 DEF Rows, Totals
<1>3. Use(i) \in Int
  BY <1>2 DEF Use
<1> QED
  BY <1>3 DEF UseBy

\* A step that changes one row, and leaves its customer no better off.
LEMMA AccountsStep ==
  ASSUME IsFiniteSet(Invoices), Accounts, TypeOK, TypeOK', NEW i \in Invoices,
         \A k \in Invoices : k # i => invoices'[k] = invoices[k],
         invoices'[i].status = "open" => invoices'[i].totals.overpaid = 0,
         \A c \in Registered : credit'[c] + UseBy(c)'[i] <= credit[c] + UseBy(c)[i]
  PROVE  Accounts'
<1>1. ASSUME NEW c \in Registered
      PROVE  credit'[c] + Sum(UseBy(c), Invoices)' <= OpeningCredit[c]
  <2>1. PICK g : g = UseBy(c)
    OBVIOUS
  <2>2. PICK h : h = UseBy(c)'
    OBVIOUS
  <2>3. /\ \A k \in Invoices : g[k] \in Int
        /\ Sum(g, Invoices) \in Int
    BY <2>1, UseInt, SumInt
  <2>4. \A k \in Invoices : h[k] \in Int
    <3>1. ASSUME NEW k \in Invoices PROVE h[k] \in Int
      <4>1. invoices'[k] \in Rows
        BY DEF TypeOK
      <4>2. /\ invoices'[k].lines \in Int /\ invoices'[k].totals.due \in Int
            /\ invoices'[k].totals.overpaid \in Int
        BY <4>1 DEF Rows, Totals
      <4>3. Use(k)' \in Int
        BY <4>2 DEF Use
      <4> QED
        BY <2>2, <4>3 DEF UseBy
    <3> QED
      BY <3>1
  <2>5. \A k \in Invoices \ {i} : g[k] = h[k]
    BY <2>1, <2>2 DEF UseBy, Use, Finalized
  <2>6. Sum(h, Invoices) = Sum(g, Invoices) + (h[i] - g[i])
    BY <2>3, <2>4, <2>5, SumChange
  <2>7. credit'[c] + h[i] <= credit[c] + g[i] /\ credit[c] + Sum(g, Invoices) <= OpeningCredit[c]
    BY <2>1, <2>2 DEF Accounts
  <2>8. credit[c] \in Int /\ credit'[c] \in Int /\ OpeningCredit[c] \in Int
    BY CustomersAssumption DEF TypeOK
  <2>9. Sum(UseBy(c), Invoices)' = Sum(h, Invoices)
    BY <2>2
  <2> QED
    BY <2>3, <2>4, <2>6, <2>7, <2>8, <2>9
<1>2. \A k \in Invoices : invoices'[k].status = "open" => invoices'[k].totals.overpaid = 0
  BY DEF Accounts
<1> QED
  BY <1>1, <1>2 DEF Accounts

\* A step that touches neither rows nor credit.
LEMMA AccountsStay ==
  ASSUME Accounts, invoices' = invoices, credit' = credit
  PROVE  Accounts'
BY DEF Accounts, UseBy, Use, Finalized

LEMMA AccountsArrive ==
  ASSUME Accounts, NEW w \in Workers, NEW i \in Invoices, Arrive(w, i)
  PROVE  Accounts'
<1>1. invoices' = invoices /\ credit' = credit
  BY DEF Arrive, ReadForUpdate, ReadForDelete, ReadForFinalize, ReadForCharge,
         ReadForVoid, ReadForWriteOff, Begin
<1> QED
  BY <1>1, AccountsStay

\* Steps of a charge that settle nothing.
LEMMA AccountsMoveOn ==
  ASSUME Accounts, NEW w \in Workers,
         ReadCredit(w) \/ GatewayCaptures(w) \/ GatewayDefers(w) \/ GatewayRefuses(w)
           \/ ReportAction(w) \/ ReportFailure(w) \/ Die(w)
  PROVE  Accounts'
<1>1. invoices' = invoices /\ credit' = credit
  BY DEF ReadCredit, GatewayCaptures, GatewayDefers, GatewayRefuses, ReportAction,
         ReportFailure, Die
<1> QED
  BY <1>1, AccountsStay

\* A draft, or an id without a row, uses no credit; nor does the invoice that a
\* draft becomes.
LEMMA DraftUsesNone ==
  ASSUME Serial, Serial', NEW i \in Invoices, NEW c,
         invoices[i].status \in {"none", "draft"},
         \/ invoices'[i].status \in {"draft", "deleted"}
         \/ /\ invoices[i].status = "draft" /\ invoices'[i].totals = invoices[i].totals
            /\ invoices'[i].lines = invoices[i].lines
  PROVE  /\ UseBy(c)[i] = 0 /\ UseBy(c)'[i] = 0
         /\ invoices'[i].status = "open" => invoices'[i].totals.overpaid = 0
<1>1. UseBy(c)[i] = 0
  BY DEF UseBy, Use, Finalized, Terminal
<1>2. CASE invoices'[i].status \in {"draft", "deleted"}
  BY <1>1, <1>2 DEF UseBy, Use, Finalized, Terminal
<1>3. CASE /\ invoices[i].status = "draft" /\ invoices'[i].totals = invoices[i].totals
           /\ invoices'[i].lines = invoices[i].lines
  <2>1. invoices[i].totals = Unpaid(invoices[i].lines) /\ invoices[i].lines \in Nat
    BY <1>3 DEF Serial, Books, Sound, TypeOK, Rows
  <2>2. /\ invoices'[i].totals.due = invoices'[i].lines /\ invoices'[i].totals.overpaid = 0
        /\ invoices'[i].lines \in Nat
    BY <1>3, <2>1 DEF Unpaid
  <2>3. invoices'[i].lines - invoices'[i].totals.due - invoices'[i].totals.overpaid = 0
    BY <2>2
  <2> QED
    BY <1>1, <2>2, <2>3 DEF UseBy, Use
<1> QED
  BY <1>2, <1>3

LEMMA AccountsDraft ==
  ASSUME IsFiniteSet(Invoices), Alone, Serial, Serial', Accounts,
         NEW w \in Workers, WriteUpdate(w) \/ WriteDelete(w) \/ WriteFinalize(w)
  PROVE  Accounts'
<1>1. PICK i : i = job[w].inv
  OBVIOUS
<1>2. pc[w] \in DraftSteps /\ pc[w] # "idle" /\ Reply(w) /\ credit' = credit
  BY DEF WriteUpdate, WriteDelete, WriteFinalize, DraftSteps
<1>3. /\ i \in Invoices /\ invoices \in [Invoices -> Rows] /\ Fresh(w)
      /\ job[w].read \in Rows /\ pc'[w] = "idle"
  BY <1>1, <1>2, HeldFacts DEF Serial, Sound, TypeOK, Reply
<1>4. invoices[i].status = "draft" /\ WhereDraft(i)
  BY <1>1, <1>2, <1>3 DEF Fresh, WhereDraft
<1>5. /\ \A k \in Invoices : k # i => invoices'[k] = invoices[k]
      /\ \/ invoices'[i].status \in {"draft", "deleted"}
         \/ invoices'[i].totals = invoices[i].totals /\ invoices'[i].lines = invoices[i].lines
  <2>1. CASE WriteUpdate(w)
    <3> DEFINE row == [job[w].read EXCEPT !.status = invoices[i].status]
    <3>1. invoices' = [invoices EXCEPT ![i] = row]
      BY <1>1, <1>4, <2>1 DEF WriteUpdate
    <3>2. row.status = "draft"
      BY <1>3, <1>4 DEF Rows
    <3> HIDE DEF row
    <3> QED
      BY <1>3, <3>1, <3>2
  <2>2. CASE WriteDelete(w)
    <3>1. invoices' = [invoices EXCEPT ![i] = Blank("deleted")]
      BY <1>1, <1>4, <2>2 DEF WriteDelete
    <3>2. Blank("deleted").status = "deleted"
      BY DEF Blank
    <3> QED
      BY <1>3, <3>1, <3>2
  <2>3. CASE WriteFinalize(w)
    <3> DEFINE next == [job[w].read EXCEPT !.status = "open"]
    <3>1. WriteMoney(i, next) /\ job[w].read.totals = invoices[i].totals
      BY <1>1, <1>3, <1>4, <2>3 DEF WriteFinalize, Fresh
    <3>2. next \in Rows /\ next.totals = invoices[i].totals
      BY <1>3, <3>1 DEF Rows, Statuses
    <3> HIDE DEF next
    <3> QED
      BY <1>3, <3>1, <3>2, WriteMoneyEffect
  <2> QED
    BY <2>1, <2>2, <2>3
<1>6. ASSUME NEW c \in Registered PROVE credit'[c] + UseBy(c)'[i] <= credit[c] + UseBy(c)[i]
  <2>1. UseBy(c)[i] = 0 /\ UseBy(c)'[i] = 0
    BY <1>3, <1>4, <1>5, DraftUsesNone
  <2>2. credit[c] \in Int
    BY DEF Serial, Sound, TypeOK
  <2> QED
    BY <1>2, <2>1, <2>2
<1>7. invoices'[i].status = "open" => invoices'[i].totals.overpaid = 0
  BY <1>3, <1>4, <1>5, DraftUsesNone
<1> QED
  BY <1>3, <1>5, <1>6, <1>7, AccountsStep DEF Serial, Sound

LEMMA AccountsCreate ==
  ASSUME IsFiniteSet(Invoices), Serial, Serial', Accounts,
         NEW i \in Invoices, NEW c \in Customers,
         NEW method \in Collections, NEW total \in LineTotals,
         CreateInvoice(i, c, method, total)
  PROVE  Accounts'
<1> DEFINE head == [Blank("draft") EXCEPT !.customer = c, !.collection = method]
           row == WithLines(head, total)
<1>1. /\ invoices[i].status = "none" /\ invoices' = [invoices EXCEPT ![i] = row]
      /\ UNCHANGED <<credit, pc, job>>
  BY DEF CreateInvoice
<1>2. row.status = "draft"
  BY DEF WithLines, Blank
<1> HIDE DEF row
<1>3. /\ invoices'[i].status = "draft"
      /\ \A k \in Invoices : k # i => invoices'[k] = invoices[k]
  BY <1>1, <1>2 DEF Serial, Sound, TypeOK
<1>4. ASSUME NEW d \in Registered PROVE credit'[d] + UseBy(d)'[i] <= credit[d] + UseBy(d)[i]
  <2>1. UseBy(d)[i] = 0 /\ UseBy(d)'[i] = 0
    BY <1>1, <1>3, DraftUsesNone
  <2>2. credit[d] \in Int
    BY DEF Serial, Sound, TypeOK
  <2> QED
    BY <1>1, <2>1, <2>2
<1> QED
  BY <1>3, <1>4, AccountsStep DEF Serial, Sound

\* The balance due falls by no more than the credit applied.
LEMMA SettledUse ==
  ASSUME NEW t \in Totals, NEW a \in Int, NEW n \in Nat
  PROVE  /\ Settled(t, a, n).due \in Nat /\ Settled(t, a, n).overpaid \in Nat
         /\ t.due - Settled(t, a, n).due <= a
         /\ ~CoversDue(Settled(t, a, n)) => Settled(t, a, n).overpaid = 0
BY DEF Settled, Reduced, Totals, Max0, CoversDue

\* A write of the money columns of an open invoice, whose row is the row as it is:
\* the credit that goes is at least the balance due that goes.
LEMMA AccountsMoney ==
  ASSUME IsFiniteSet(Invoices), Alone, Serial, Serial', Accounts,
         NEW w \in Workers, NEW i \in Invoices, Reply(w),
         invoices[i].status = "open", NEW next \in Rows, WriteMoney(i, next),
         next.status \in {"open"} \cup Terminal,
         next.status = "open" => next.totals.overpaid = 0,
         NEW drop \in Int,
         invoices[i].totals.due - next.totals.due - next.totals.overpaid <= drop,
         \/ credit' = credit /\ drop = 0
         \/ WriteCredit(invoices[i].customer,
                        (IF invoices[i].customer \in Registered
                         THEN credit[invoices[i].customer] ELSE 0) - drop)
  PROVE  Accounts'
<1>1. /\ invoices \in [Invoices -> Rows] /\ credit \in [Registered -> Int]
      /\ pc'[w] = "idle"
  BY DEF Serial, Sound, TypeOK, Reply
<1>2. /\ \A k \in Invoices : k # i => invoices'[k] = invoices[k]
      /\ invoices'[i].status = next.status
      /\ invoices'[i].totals = next.totals
      /\ invoices'[i].lines = invoices[i].lines
      /\ invoices'[i].customer = invoices[i].customer
  BY <1>1, WriteMoneyEffect
<1>3. invoices[i].totals.overpaid = 0
  BY DEF Accounts
<1>4. /\ invoices[i].lines \in Int /\ invoices[i].totals.due \in Int
      /\ next.totals.due \in Int /\ next.totals.overpaid \in Int
  BY <1>1 DEF Rows, Totals
<1>5. /\ Use(i) = invoices[i].lines - invoices[i].totals.due
      /\ Use(i)' = invoices[i].lines - next.totals.due - next.totals.overpaid
  BY <1>2, <1>3, <1>4 DEF Use, Finalized
<1>6. Use(i) \in Int /\ Use(i)' \in Int /\ Use(i)' - Use(i) <= drop
  BY <1>4, <1>5
<1>7. ASSUME NEW c \in Registered PROVE credit'[c] + UseBy(c)'[i] <= credit[c] + UseBy(c)[i]
  <2>1. CASE invoices[i].customer = c
    <3>1. UseBy(c)[i] = Use(i) /\ UseBy(c)'[i] = Use(i)'
      BY <1>2, <2>1 DEF UseBy
    <3>2. credit'[c] = credit[c] - drop
      <4>1. credit[c] \in Int
        BY <1>1
      <4>2. CASE credit' = credit /\ drop = 0
        BY <4>1, <4>2
      <4>3. CASE WriteCredit(c, credit[c] - drop)
        BY <1>1, <4>3 DEF WriteCredit
      <4> QED
        BY <2>1, <4>2, <4>3
    <3> QED
      BY <1>1, <1>6, <3>1, <3>2
  <2>2. CASE invoices[i].customer # c
    <3>1. UseBy(c)[i] = 0 /\ UseBy(c)'[i] = 0
      BY <1>2, <2>2 DEF UseBy
    <3>2. credit'[c] = credit[c]
      BY <1>1, <2>2 DEF WriteCredit
    <3> QED
      BY <1>1, <3>1, <3>2
  <2> QED
    BY <2>1, <2>2
<1> QED
  BY <1>2, <1>7, AccountsStep DEF Serial, Sound

LEMMA AccountsSettle ==
  ASSUME IsFiniteSet(Invoices), Alone, Serial, Serial', Accounts, NEW w \in Workers,
         SettleWithCredit(w) \/ SettleCharge(w) \/ VoidInvoice(w) \/ MarkUncollectible(w)
  PROVE  Accounts'
<1>1. PICK i : i = job[w].inv
  OBVIOUS
<1>2. /\ pc[w] \in OpenSteps /\ pc[w] # "idle" /\ Reply(w)
      /\ pc[w] \notin {"voiding", "writing_off"} => pc[w] \in {"settling", "settling_credit"}
  BY DEF VoidInvoice, MarkUncollectible, SettleWithCredit, SettleCharge, OpenSteps, ChargeSteps
<1>3. /\ i \in Invoices /\ invoices[i] \in Rows /\ Fresh(w)
      /\ job[w].applied \in Int /\ job[w].cash \in Nat
  BY <1>1, <1>2, HeldFacts DEF Serial, Sound, TypeOK
<1>4. invoices[i].status = "open" /\ job[w].read = invoices[i]
  BY <1>1, <1>2, <1>3 DEF Fresh
<1>5. /\ invoices[i].totals \in Totals /\ invoices[i].totals.due \in Nat
      /\ invoices[i].totals.overpaid = 0
  BY <1>3, <1>4 DEF Rows, Totals, Accounts
<1> DEFINE a == job[w].applied
           t == invoices[i].totals
           there == IF invoices[i].customer \in Registered
                    THEN credit[invoices[i].customer] ELSE 0
<1>6. there \in Int
  BY DEF Serial, Sound, TypeOK
<1>7. pc[w] \in {"settling", "settling_credit"} => job[w].avail = there
  BY <1>3, <1>4 DEF Fresh, Seen, Funds
<1> HIDE DEF there
<1>8. CASE SettleWithCredit(w)
  <2> DEFINE next == ApplyPaid(job[w].read, a)
             s == Settled(t, a, 0)
  <2>1. /\ WriteMoney(i, next) /\ WriteCredit(invoices[i].customer, there - a)
    BY <1>1, <1>4, <1>7, <1>8 DEF SettleWithCredit
  <2>2. next \in Rows /\ next.status = "paid"
    BY <1>3, <1>4, ApplyPaidRow
  <2>3. next.totals = s
    <3> HIDE DEF s
    <3>1. next = [invoices[i] EXCEPT !.totals = s, !.status = "paid"]
      BY <1>4 DEF ApplyPaid, s
    <3> QED
      BY <1>3, <3>1 DEF Rows
  <2>4. s.due \in Nat /\ s.overpaid \in Nat /\ t.due - s.due <= a
    BY <1>3, <1>5, SettledUse
  <2> HIDE DEF next, s
  <2>5. t.due - next.totals.due - next.totals.overpaid <= a
    BY <1>3, <1>5, <2>3, <2>4
  <2> QED
    BY <1>2, <1>3, <1>4, <2>1, <2>2, <2>5, AccountsMoney DEF there, Terminal
<1>9. CASE SettleCharge(w)
  <2> DEFINE next == ApplySuccess(job[w].read, a, job[w].cash)
             s == Settled(t, a, job[w].cash)
  <2>1. WriteMoney(i, next) /\ WriteCredit(job[w].read.customer, CreditLeft(job[w], next))
    BY <1>1, <1>9 DEF SettleCharge
  <2>2. next \in Rows
    BY <1>3, <1>4, ApplySuccessRow
  <2>3. next.totals = s /\ next.status = IF CoversDue(s) THEN "paid" ELSE "open"
    <3> HIDE DEF s
    <3>1. next = [invoices[i] EXCEPT !.totals = s,
                                     !.status = IF CoversDue(s) THEN "paid" ELSE "open"]
      BY <1>4 DEF ApplySuccess, s
    <3> QED
      BY <1>3, <3>1 DEF Rows
  <2>4. /\ s.due \in Nat /\ s.overpaid \in Nat /\ t.due - s.due <= a
        /\ ~CoversDue(s) => s.overpaid = 0
    BY <1>3, <1>5, SettledUse
  <2>5. job[w].avail = there
    BY <1>7, <1>9 DEF SettleCharge
  <2> HIDE DEF next, s
  <2> DEFINE drop == a - next.totals.overpaid
  <2>6. drop \in Int /\ t.due - next.totals.due - next.totals.overpaid <= drop
    BY <1>3, <1>5, <2>3, <2>4
  <2>7. WriteCredit(invoices[i].customer, there - drop)
    <3>1. CreditLeft(job[w], next) = there - drop
      BY <1>3, <1>6, <2>3, <2>4, <2>5 DEF CreditLeft
    <3> HIDE DEF drop
    <3> QED
      BY <1>4, <2>1, <3>1
  <2>8. /\ next.status \in {"open"} \cup Terminal
        /\ next.status = "open" => next.totals.overpaid = 0
    BY <2>3, <2>4 DEF Terminal
  <2> HIDE DEF drop
  <2> QED
    BY <1>2, <1>3, <1>4, <2>1, <2>2, <2>6, <2>7, <2>8, AccountsMoney DEF there
<1>10. ASSUME NEW st \in {"voided", "uncollectible"}, credit' = credit,
              WriteMoney(i, [job[w].read EXCEPT !.status = st])
       PROVE  Accounts'
  <2> DEFINE next == [job[w].read EXCEPT !.status = st]
  <2>1. next \in Rows /\ next.status = st /\ next.totals = t /\ st \in Terminal
    BY <1>3, <1>4 DEF Rows, Statuses, Terminal
  <2>2. WriteMoney(i, next)
    BY <1>10
  <2> HIDE DEF next
  <2>3. t.due - next.totals.due - next.totals.overpaid <= 0 /\ st # "open"
    BY <1>5, <2>1
  <2> QED
    BY <1>2, <1>3, <1>4, <1>10, <2>1, <2>2, <2>3, AccountsMoney
<1>11. CASE VoidInvoice(w) \/ MarkUncollectible(w)
  BY <1>1, <1>10, <1>11 DEF VoidInvoice, MarkUncollectible
<1> QED
  BY <1>8, <1>9, <1>11

LEMMA InitAccounts == ASSUME IsFiniteSet(Invoices), Init PROVE Accounts
<1>2. ASSUME NEW i \in Invoices PROVE invoices[i].status = "none" /\ ~Finalized(i)
  BY DEF Init, Blank, Finalized, Terminal
<1>3. ASSUME NEW c \in Registered PROVE credit[c] + Sum(UseBy(c), Invoices) <= OpeningCredit[c]
  <2>1. \A i \in Invoices : UseBy(c)[i] = 0
    BY <1>2 DEF UseBy, Use
  <2>2. Sum(UseBy(c), Invoices) = 0
    BY <2>1, SumZero
  <2> QED
    BY <2>2, CustomersAssumption DEF Init
<1> QED
  BY <1>2, <1>3 DEF Accounts

LEMMA NextAccounts ==
  ASSUME IsFiniteSet(Invoices), Alone, Serial, Serial', Accounts, [Next]_vars
  PROVE  Accounts'
<1>1. CASE UNCHANGED vars
  BY <1>1 DEF vars, Accounts, UseBy, Use, Finalized
<1>2. ASSUME NEW i \in Invoices, NEW c \in Customers, NEW method \in Collections,
             NEW total \in LineTotals, CreateInvoice(i, c, method, total)
      PROVE  Accounts'
  BY <1>2, AccountsCreate
<1>3. ASSUME NEW w \in Workers, NEW i \in Invoices, Arrive(w, i)
      PROVE  Accounts'
  BY <1>3, AccountsArrive DEF Serial, Sound
<1>4. ASSUME NEW w \in Workers, Proceed(w)
      PROVE  Accounts'
  BY <1>4, AccountsMoveOn, AccountsDraft, AccountsSettle DEF Proceed, Serial, Sound
<1> QED
  BY <1>1, <1>2, <1>3, <1>4 DEF Next

\* The sum of the property is the sum of the proof.
LEMMA CreditUsedIsSum ==
  ASSUME IsFiniteSet(Invoices), TypeOK, NEW c
  PROVE  CreditUsed(c) = Sum(UseBy(c), Invoices)
<1> DEFINE His == {i \in Invoices : Finalized(i) /\ invoices[i].customer = c}
           g == UseBy(c)
           E(it) == [s \in SUBSET His |->
                       IF s = {} THEN 0
                       ELSE (invoices[CHOOSE x \in s : TRUE].lines
                               - invoices[CHOOSE x \in s : TRUE].totals.due
                               - invoices[CHOOSE x \in s : TRUE].totals.overpaid)
                            + it[s \ {CHOOSE x \in s : TRUE}]]
           jt == CHOOSE it : it = E(it)
<1>1. CreditUsed(c) = jt[His]
  BY DEF CreditUsed, MapThenSumSet, MapThenFoldSet
<1>2. ASSUME NEW it PROVE Table(g, His, it) <=> it = E(it)
  <2> DEFINE F == [s \in SUBSET His |-> IF s = {} THEN 0 ELSE g[Pick(s)] + it[s \ {Pick(s)}]]
  <2>1. ASSUME NEW s \in SUBSET His, s # {}
        PROVE  g[Pick(s)] = invoices[Pick(s)].lines - invoices[Pick(s)].totals.due
                              - invoices[Pick(s)].totals.overpaid
    <3>1. Pick(s) \in His
      BY <2>1, PickIn
    <3> QED
      BY <3>1 DEF UseBy, Use
  <2>2. ASSUME NEW s \in SUBSET His PROVE F[s] = E(it)[s]
    <3>1. CASE s = {}
      BY <3>1
    <3>2. CASE s # {}
      <4>1. F[s] = g[Pick(s)] + it[s \ {Pick(s)}]
        BY <3>2
      <4>2. E(it)[s] = (invoices[Pick(s)].lines - invoices[Pick(s)].totals.due
                          - invoices[Pick(s)].totals.overpaid) + it[s \ {Pick(s)}]
        BY <3>2 DEF Pick
      <4> QED
        BY <2>1, <3>2, <4>1, <4>2
    <3> QED
      BY <3>1, <3>2
  <2>3. F = E(it)
    <3>1. F = [s \in SUBSET His |-> F[s]] /\ E(it) = [s \in SUBSET His |-> E(it)[s]]
      OBVIOUS
    <3> HIDE DEF F, E
    <3> QED
      BY <2>2, <3>1
  <2> HIDE DEF E
  <2> QED
    BY <2>3 DEF Table
<1>3. His \in SUBSET Invoices /\ IsFiniteSet(His)
  BY FS_Subset
<1>4. Table(g, His, jt)
  <2> HIDE DEF E, His, g
  <2>1. \E it : it = E(it)
    BY <1>2, <1>3, TableExists
  <2> QED
    BY <1>2, <2>1
<1>5. jt[His] = Sum(g, His)
  <2> DEFINE kt == CHOOSE it : Table(g, His, it)
  <2> HIDE DEF E, His, g, jt
  <2>1. Table(g, His, kt) /\ Sum(g, His) = kt[His]
    BY <1>3, TableExists DEF Sum
  <2> HIDE DEF kt
  <2>2. \A s \in SUBSET His : kt[s] = jt[s]
    BY <1>3, <1>4, <2>1, TableUnique
  <2> QED
    BY <2>1, <2>2
<1>6. Sum(g, Invoices) = Sum(g, His)
  <2>1. \A i \in Invoices : g[i] \in Int
    BY UseInt
  <2>2. \A i \in Invoices \ His : g[i] = 0
    BY DEF UseBy, Use
  <2> HIDE DEF g, His
  <2> QED
    BY <1>3, <2>1, <2>2, SumNonzero
<1> QED
  BY <1>1, <1>5, <1>6

\* Served one at a time, also by handlers that die half-way, a customer's credit is
\* spent once: what is left and what finalized invoices used never exceed what there
\* was, whatever is charged, overpaid, voided or written off.
THEOREM CreditIsSpentOnce ==
  ASSUME Alone, IsFiniteSet(Invoices) PROVE Spec => []CreditSpentOnce
<1>1. Init => Accounts
  BY InitAccounts
<1>2. Serial /\ Serial' /\ Accounts /\ [Next]_vars => Accounts'
  BY NextAccounts
<1>3. Serial /\ Accounts => CreditSpentOnce
  BY CreditUsedIsSum DEF Serial, Sound, Accounts, CreditSpentOnce
<1> QED
  BY <1>1, <1>2, <1>3, AlwaysSerial, PTL DEF Spec
=============================================================================
