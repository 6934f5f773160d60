------------------------ MODULE SubscriptionsProofs ------------------------
(***************************************************************************)
(* Proofs about module Subscriptions, for any number of handlers, cycle    *)
(* invoices and attempts, and any gateway answers.                         *)
(*                                                                         *)
(* A handler works on rows it read long ago.  What remains true of them    *)
(* (JobHolds) is that rows, once made, are never unmade (Grown): the       *)
(* invoice of a close is the one it created, it is linked unless it was    *)
(* deleted first, and it is no draft again once it was opened, by whomever;*)
(* the attempt of a run was read within its budget, and the count that is  *)
(* written comes from that copy.                                           *)
(***************************************************************************)
EXTENDS Subscriptions, FiniteSetTheorems, WellFoundedInduction, TLAPS

Sold == {"open", "paid", "closed"}
Left == Sold \cup {"deleted"}
Running == {"stop", "charge", "gateway", "classify", "postpone", "retry", "giveup", "reactivate"}

\* A row that ever was an attempt names its invoice.
RowsHold ==
  \A a \in Attempts : attempt[a].state \notin {"none", "deleted"} => attempt[a].invoice \in Cycles

JobHolds(h) ==
  /\ pc[h] \in {"link", "check", "finalize", "seek", "record"} => job[h].invoice \in Cycles
  /\ pc[h] \in {"link", "check", "finalize"} => cycle[job[h].invoice].status # "none"
  /\ pc[h] = "check" =>
       cycle[job[h].invoice].linked \/ cycle[job[h].invoice].status = "deleted"
  /\ pc[h] = "finalize" => cycle[job[h].invoice].linked
  /\ pc[h] = "roll" /\ job[h].invoice # 0 =>
       /\ job[h].invoice \in Cycles
       /\ cycle[job[h].invoice].linked /\ cycle[job[h].invoice].status \in Left
  /\ pc[h] \in Running =>
       /\ job[h].id \in Attempts /\ attempt[job[h].id].state # "none"
       /\ job[h].row.invoice \in Cycles
       /\ job[h].row.attempt > 0 /\ job[h].row.attempt <= MaxAttempts
  /\ pc[h] = "retry" => job[h].row.attempt + 1 <= MaxAttempts
  /\ pc[h] = "gateway" => cycle[job[h].row.invoice].status \in Sold

IInv ==
  TypeOK /\ RowsHold /\ RolledIsLinked /\ BudgetKept /\ \A h \in Handlers : JobHolds(h)

\* What no step takes back.
Grown ==
  /\ \A c \in Cycles :
       /\ cycle[c].status # "none" => cycle'[c].status # "none"
       /\ cycle[c].status # "none" /\ cycle[c].linked => cycle'[c].linked
       /\ cycle[c].status \in Left => cycle'[c].status \in Left
       /\ cycle[c].status \in Sold => cycle'[c].status \in Sold
       /\ cycle[c].status = "deleted" => cycle'[c].status = "deleted"
  /\ \A a \in Attempts : attempt[a].state # "none" => attempt'[a].state # "none"

-----------------------------------------------------------------------------
(* Rows and jobs.                                                          *)

\* A finite set of numbers has a least element.
LEMMA FiniteHasLeast ==
  ASSUME NEW S \in SUBSET Nat, IsFiniteSet(S), S # {}
  PROVE  Least(S) \in S
<1> DEFINE Bad == {T \in SUBSET S : T # {} /\ ~ \E x \in T : \A y \in T : x <= y}
<1> DEFINE Smaller == {TT \in (SUBSET S) \X (SUBSET S) : TT[1] \subseteq TT[2] /\ TT[1] # TT[2]}
<1>1. SUFFICES ASSUME Bad # {} PROVE FALSE
  <2>1. ASSUME Bad = {} PROVE Least(S) \in S
    <3>1. \E x \in S : \A y \in S : x <= y
      BY <2>1, S \in SUBSET S
    <3> QED
      BY <3>1 DEF Least
  <2> QED
    BY <2>1
<1>2. IsWellFoundedOn(Smaller, SUBSET S)
  BY FS_StrictSubsetOrderingWellFounded, FS_FiniteSubsetsOfFinite DEF StrictSubsetOrdering
<1>3. PICK T \in Bad : \A U \in Bad : ~(<<U, T>> \in Smaller)
  <2>1. Bad \subseteq SUBSET S
    OBVIOUS
  <2> HIDE DEF Bad, Smaller
  <2> QED
    BY <1>1, <1>2, <2>1, WFMin
<1>4. PICK x \in T : TRUE
  OBVIOUS
<1> DEFINE U == T \ {x}
<1>5. U \notin Bad
  BY <1>3, <1>4
<1>6. CASE U = {}
  BY <1>6, <1>4, <1>3
<1>7. CASE U # {}
  <2>1. PICK m \in U : \A y \in U : m <= y
    BY <1>5, <1>7
  <2>2. \A y \in T : y \in Nat
    OBVIOUS
  <2>3. CASE m <= x
    BY <2>1, <2>3, <1>3
  <2>4. CASE ~(m <= x)
    <3>1. \A y \in T : x <= y
      BY <2>1, <2>2, <2>4
    <3> QED
      BY <3>1, <1>3
  <2> QED
    BY <2>3, <2>4
<1> QED
  BY <1>6, <1>7

LEMMA Idle ==
  NoJob \in Jobs /\ NoAttempt \in AttemptRows /\ NoCycle \in CycleRows
<1>1. NewSub("active") \in SubRows
  BY DEF NewSub, SubRows
<1>2. NoAttempt \in AttemptRows
  BY DEF NoAttempt, AttemptRows
<1>3. NoCycle \in CycleRows
  BY DEF NoCycle, CycleRows
<1> QED
  BY <1>1, <1>2, <1>3 DEF NoJob, Jobs

\* Reading the subscription into an empty job.
LEMMA ReadJob ==
  ASSUME NEW s \in SubRows
  PROVE  [NoJob EXCEPT !.sub = s] \in Jobs
BY Idle DEF Jobs

LEMMA JobFields ==
  ASSUME NEW j \in Jobs
  PROVE  /\ j.sub \in SubRows /\ j.row \in AttemptRows
         /\ \A c \in Cycles \cup {0} : /\ [j EXCEPT !.invoice = c] \in Jobs
                                       /\ [j EXCEPT !.invoice = c].invoice = c
         /\ \A a \in Attempts \cup {0} : /\ [j EXCEPT !.id = a] \in Jobs
                                         /\ [j EXCEPT !.id = a].invoice = j.invoice
BY DEF Jobs

LEMMA SubFields ==
  ASSUME NEW s \in SubRows
  PROVE  /\ \A n \in BOOLEAN : [s EXCEPT !.noticeSent = n] \in SubRows
         /\ \A c \in BOOLEAN : [s EXCEPT !.cancelAtEnd = c] \in SubRows
         /\ \A st \in {"active", "past_due", "canceled"} : [s EXCEPT !.status = st] \in SubRows
         /\ \A p \in Nat : [s EXCEPT !.period = p] \in SubRows
BY Zenon DEF SubRows

LEMMA SubUpdates ==
  ASSUME NEW s \in SubRows, NEW n \in BOOLEAN, NEW p \in Nat,
         NEW st \in {"trialing", "active", "past_due", "canceled"}
  PROVE  /\ [s EXCEPT !.status = st, !.noticeSent = n] \in SubRows
         /\ [s EXCEPT !.status = st, !.period = p, !.noticeSent = n] \in SubRows
BY Zenon DEF SubRows

LEMMA CycleUpdates ==
  ASSUME NEW c \in CycleRows
  PROVE  /\ \A b \in BOOLEAN : [c EXCEPT !.linked = b] \in CycleRows
         /\ \A st \in {"deleted", "closed"} : [c EXCEPT !.status = st] \in CycleRows
         /\ \A b \in BOOLEAN : [c EXCEPT !.status = "open", !.chargeable = b] \in CycleRows
         /\ \A o \in Outcomes :
              [c EXCEPT !.event = o, !.status = IF o = "paid" THEN "paid" ELSE @] \in CycleRows
BY Zenon DEF CycleRows

LEMMA NewCycle ==
  ASSUME NEW p \in Nat
  PROVE  /\ [NoCycle EXCEPT !.status = "draft", !.period = p] \in CycleRows
         /\ [NoCycle EXCEPT !.status = "draft", !.period = p].status = "draft"
BY DEF NoCycle, CycleRows

LEMMA AttemptUpdates ==
  ASSUME NEW r \in AttemptRows, NEW n \in Nat, NEW d \in BOOLEAN,
         NEW st \in {"pending", "past_due", "canceled"}
  PROVE  /\ [r EXCEPT !.attempt = n, !.state = st, !.due = d /\ @] \in AttemptRows
         /\ [r EXCEPT !.attempt = n, !.state = st, !.due = d /\ @].state = st
         /\ [r EXCEPT !.attempt = n, !.state = st, !.due = d /\ @].attempt = n
         /\ [r EXCEPT !.attempt = n, !.state = st, !.due = d /\ @].invoice = r.invoice
         /\ [r EXCEPT !.state = st] \in AttemptRows
         /\ [r EXCEPT !.state = st].state = st
         /\ [r EXCEPT !.state = st].invoice = r.invoice
         /\ [r EXCEPT !.due = TRUE] \in AttemptRows
         /\ [r EXCEPT !.due = TRUE].state = r.state
         /\ [r EXCEPT !.due = TRUE].invoice = r.invoice
         /\ [r EXCEPT !.due = TRUE].attempt = r.attempt
BY Zenon DEF AttemptRows

LEMMA Deleted ==
  /\ [NoAttempt EXCEPT !.state = "deleted"] \in AttemptRows
  /\ [NoAttempt EXCEPT !.state = "deleted"].state = "deleted"
BY DEF NoAttempt, AttemptRows

-----------------------------------------------------------------------------
(* What a step changes: nothing, a cycle invoice or an attempt; one job.    *)

RowsOK ==
  /\ cycle \in [Cycles -> CycleRows] /\ attempt \in [Attempts -> AttemptRows]
  /\ \A a \in Attempts : IsActive(a) => attempt[a].attempt > 0
  /\ RowsHold /\ BudgetKept

LEMMA SameRows ==
  ASSUME IInv, UNCHANGED <<cycle, attempt>>
  PROVE  RowsOK' /\ Grown
BY DEF IInv, TypeOK, RowsOK, RowsHold, BudgetKept, IsActive, Grown

LEMMA CycleChange ==
  ASSUME IInv, NEW c \in Cycles, NEW row \in CycleRows,
         cycle' = [cycle EXCEPT ![c] = row], attempt' = attempt,
         row.status # "none",
         cycle[c].status # "none" /\ cycle[c].linked => row.linked,
         cycle[c].status \in Sold => row.status \in Sold,
         cycle[c].status = "deleted" => row.status = "deleted"
  PROVE  RowsOK' /\ Grown
<1>1. cycle' \in [Cycles -> CycleRows]
  BY DEF IInv, TypeOK
<1>2. Grown
  BY DEF IInv, TypeOK, Grown, Left
<1>3. /\ attempt' \in [Attempts -> AttemptRows] /\ RowsHold' /\ BudgetKept'
      /\ \A a \in Attempts : IsActive(a)' => attempt'[a].attempt > 0
  BY DEF IInv, TypeOK, RowsHold, BudgetKept, IsActive
<1> QED
  BY <1>1, <1>2, <1>3 DEF RowsOK

LEMMA AttemptChange ==
  ASSUME IInv, NEW a \in Attempts, NEW row \in AttemptRows,
         attempt' = [attempt EXCEPT ![a] = row], cycle' = cycle,
         row.state # "none",
         row.state # "deleted" => row.invoice \in Cycles,
         row.state \in {"pending", "past_due"} => row.attempt > 0 /\ row.attempt <= MaxAttempts
  PROVE  RowsOK' /\ Grown
<1>1. attempt \in [Attempts -> AttemptRows]
  BY DEF IInv, TypeOK
<1>2. /\ attempt'[a] = row
      /\ \A o \in Attempts : o # a => attempt'[o] = attempt[o]
      /\ attempt' \in [Attempts -> AttemptRows]
  BY <1>1
<1>3. RowsHold' /\ BudgetKept' /\ \A o \in Attempts : IsActive(o)' => attempt'[o].attempt > 0
  BY <1>2 DEF IInv, TypeOK, RowsHold, BudgetKept, IsActive
<1>4. Grown
  BY <1>2 DEF Grown
<1>5. cycle' \in [Cycles -> CycleRows]
  BY DEF IInv, TypeOK
<1> QED
  BY <1>2, <1>3, <1>4, <1>5 DEF RowsOK

\* A deleted row is left alone.
LEMMA WriteChange ==
  ASSUME IInv, NEW a \in Attempts, NEW row \in AttemptRows,
         Write(a, row), cycle' = cycle,
         row.state \notin {"none", "deleted"}, row.invoice \in Cycles,
         row.state \in {"pending", "past_due"} => row.attempt > 0 /\ row.attempt <= MaxAttempts
  PROVE  RowsOK' /\ Grown
BY SameRows, AttemptChange DEF Write

\* What a handler holds is not undone by the steps of others.
LEMMA StillHolds ==
  ASSUME Grown, NEW o \in Handlers, JobHolds(o), TypeOK,
         pc'[o] = pc[o], job'[o] = job[o]
  PROVE  JobHolds(o)'
<1>1. pc[o] = "gateway" => pc[o] \in Running
  BY DEF Running
<1>2. /\ pc'[o] = "check" =>
           cycle'[job'[o].invoice].linked \/ cycle'[job'[o].invoice].status = "deleted"
      /\ pc'[o] = "finalize" => cycle'[job'[o].invoice].linked
      /\ pc'[o] \in {"link", "check", "finalize"} => cycle'[job'[o].invoice].status # "none"
  BY Zenon DEF JobHolds, Grown
<1>3. pc'[o] = "roll" /\ job'[o].invoice # 0 =>
        /\ job'[o].invoice \in Cycles
        /\ cycle'[job'[o].invoice].linked /\ cycle'[job'[o].invoice].status \in Left
  <2>1. "none" \notin Left
    BY DEF Left, Sold
  <2> QED
    BY <2>1, Zenon DEF JobHolds, Grown
<1>4. pc'[o] = "gateway" => cycle'[job'[o].row.invoice].status \in Sold
  BY <1>1, Zenon DEF JobHolds, Grown
<1>5. pc'[o] \in Running => attempt'[job'[o].id].state # "none"
  BY Zenon DEF JobHolds, Grown
<1> QED
  BY <1>2, <1>3, <1>4, <1>5, Zenon DEF JobHolds

SameCounts == UNCHANGED <<reports, closed, notices>>

\* An invoice that a period was closed with stays linked, and no draft.
LEMMA ClosedStays ==
  ASSUME IInv, Grown, closed' = closed
  PROVE  RolledIsLinked'
<1> SUFFICES ASSUME NEW p \in closed, p.invoice # 0
             PROVE  cycle'[p.invoice].linked /\ cycle'[p.invoice].status \notin {"none", "draft"}
  BY DEF RolledIsLinked
<1>1. p.invoice \in Cycles
  BY DEF IInv, TypeOK
<1>2. cycle[p.invoice].linked /\ cycle[p.invoice].status \notin {"none", "draft"}
  BY DEF IInv, RolledIsLinked
<1>3. cycle[p.invoice].status \in Left
  BY <1>1, <1>2 DEF IInv, TypeOK, CycleRows, Left, Sold
<1>4. cycle'[p.invoice].linked /\ cycle'[p.invoice].status \in Left
  BY <1>1, <1>2, <1>3 DEF Grown
<1> QED
  BY <1>4 DEF Left, Sold

LEMMA ClosesOf ==
  ASSUME IInv, RowsOK', Grown, NEW h \in Handlers, NEW step \in Steps, NEW j \in Jobs,
         pc' = [pc EXCEPT ![h] = step], job' = [job EXCEPT ![h] = j], JobHolds(h)',
         sub' \in SubRows, reports' \in 0 .. MaxReports, notices' \in Nat,
         closed' \subseteq [period : Nat, trial : BOOLEAN, invoice : Cycles \cup {0}],
         RolledIsLinked'
  PROVE  IInv'
<1>1. pc' \in [Handlers -> Steps] /\ job' \in [Handlers -> Jobs]
  BY DEF IInv, TypeOK
<1>2. TypeOK'
  BY <1>1, Zenon DEF TypeOK, RowsOK, IsActive
<1>3. \A o \in Handlers : o # h => pc'[o] = pc[o] /\ job'[o] = job[o]
  BY DEF IInv, TypeOK
<1>4. \A o \in Handlers : JobHolds(o)'
  BY <1>3, StillHolds DEF IInv
<1> QED
  BY <1>2, <1>4 DEF IInv, RowsOK

LEMMA StepOf ==
  ASSUME IInv, RowsOK', Grown, NEW h \in Handlers, NEW step \in Steps, NEW j \in Jobs,
         pc' = [pc EXCEPT ![h] = step], job' = [job EXCEPT ![h] = j], JobHolds(h)',
         sub' \in SubRows, reports' \in 0 .. MaxReports, closed' = closed, notices' \in Nat
  PROVE  IInv'
<1>1. closed' \subseteq [period : Nat, trial : BOOLEAN, invoice : Cycles \cup {0}]
  BY DEF IInv, TypeOK
<1> QED
  BY <1>1, ClosedStays, ClosesOf

LEMMA NoStepOf ==
  ASSUME IInv, RowsOK', Grown, UNCHANGED <<pc, job>>,
         sub' \in SubRows, SameCounts
  PROVE  IInv'
<1>1. TypeOK'
  BY Zenon DEF IInv, TypeOK, RowsOK, IsActive, SameCounts
<1>2. \A o \in Handlers : JobHolds(o)'
  BY StillHolds DEF IInv
<1>3. RolledIsLinked'
  BY ClosedStays DEF SameCounts
<1> QED
  BY <1>1, <1>2, <1>3 DEF IInv, RowsOK

\* Steps without a claim about the job.
Free == Steps \ ({"link", "check", "finalize", "roll", "seek", "record"} \cup Running)

LEMMA FreeHolds ==
  ASSUME NEW h \in Handlers, pc'[h] \in Free
  PROVE  JobHolds(h)'
BY DEF JobHolds, Free, Running

LEMMA Ends ==
  ASSUME IInv, RowsOK', Grown, NEW h \in Handlers, End(h),
         sub' \in SubRows, reports' = reports, closed' = closed, notices' \in Nat
  PROVE  IInv'
<1>1. pc'[h] = "idle"
  BY DEF End, IInv, TypeOK
<1>2. JobHolds(h)'
  BY <1>1, FreeHolds DEF Free, Steps, Running
<1>3. NoJob \in Jobs /\ "idle" \in Steps
  BY Idle DEF Steps
<1>4. reports' \in 0 .. MaxReports
  BY DEF IInv, TypeOK
<1> QED
  BY <1>2, <1>3, <1>4, StepOf DEF End

LEMMA Goes ==
  ASSUME IInv, RowsOK', Grown, NEW h \in Handlers, NEW step \in Steps, Go(h, step),
         JobHolds(h)', UNCHANGED sub, SameCounts
  PROVE  IInv'
<1>1. job' = [job EXCEPT ![h] = job[h]] /\ job[h] \in Jobs
  BY DEF Go, IInv, TypeOK
<1>2. /\ sub' \in SubRows /\ reports' \in 0 .. MaxReports
      /\ closed' = closed /\ notices' \in Nat
  BY DEF SameCounts, IInv, TypeOK
<1>3. pc' = [pc EXCEPT ![h] = step]
  BY DEF Go
<1> QED
  BY <1>1, <1>2, <1>3, StepOf

LEMMA Reads ==
  ASSUME IInv, NEW h \in Handlers, NEW op, NEW step \in Free \cup {"roll"}, Read(h, op, step),
         UNCHANGED <<sub, cycle, attempt>>, SameCounts
  PROVE  IInv'
<1>1. RowsOK' /\ Grown
  BY SameRows
<1>2. sub \in SubRows
  BY DEF IInv, TypeOK
<1>3. [NoJob EXCEPT !.sub = sub] \in Jobs
  BY <1>2, ReadJob
<1>4. pc'[h] = step
  BY DEF Read, IInv, TypeOK
<1>5. JobHolds(h)'
  <2>1. CASE step \in Free
    BY <1>4, <2>1, FreeHolds
  <2>2. CASE step = "roll"
    <3>1. job'[h].invoice = 0
      BY DEF Read, NoJob, IInv, TypeOK
    <3> QED
      BY <1>4, <2>2, <3>1 DEF JobHolds, Running
  <2> QED
    BY <2>1, <2>2
<1>6. /\ sub' \in SubRows /\ reports' \in 0 .. MaxReports
      /\ closed' = closed /\ notices' \in Nat
  BY DEF SameCounts, IInv, TypeOK
<1>7. step \in Steps
  BY DEF Free, Steps
<1> QED
  BY <1>1, <1>3, <1>5, <1>6, <1>7, StepOf DEF Read

-----------------------------------------------------------------------------
(* Closing a period.                                                       *)

LEMMA InitIInv == Init => IInv
<1> SUFFICES ASSUME Init PROVE IInv
  OBVIOUS
<1>1. sub \in SubRows
  <2>1. PICK s \in Statuses : sub = NewSub(s)
    BY DEF Init
  <2>2. s \in {"trialing", "active", "past_due", "canceled"} /\ 0 \in Nat /\ FALSE \in BOOLEAN
    BY SubscriptionAssumption
  <2> QED
    BY <2>1, <2>2, Zenon DEF NewSub, SubRows
<1>2. /\ cycle \in [Cycles -> CycleRows] /\ attempt \in [Attempts -> AttemptRows]
      /\ job \in [Handlers -> Jobs]
  BY Idle DEF Init
<1>3. \A c \in Cycles : cycle[c].status = "none"
  BY DEF Init, NoCycle
<1>4. \A a \in Attempts : attempt[a].state = "none"
  BY DEF Init, NoAttempt
<1>5. /\ pc \in [Handlers -> Steps] /\ reports \in 0 .. MaxReports /\ notices \in Nat
      /\ closed = {}
      /\ \A h \in Handlers : pc[h] = "idle"
  BY SubscriptionAssumption DEF Init, Steps
<1>6. TypeOK
  BY <1>1, <1>2, <1>4, <1>5, Zenon DEF TypeOK
<1>7. RowsHold /\ RolledIsLinked /\ BudgetKept
  BY <1>4, <1>5 DEF RowsHold, RolledIsLinked, BudgetKept, IsActive
<1>8. \A h \in Handlers : JobHolds(h)
  BY <1>5 DEF JobHolds, Running
<1> QED
  BY <1>6, <1>7, <1>8 DEF IInv

LEMMA NextClosePeriod ==
  ASSUME IInv, NEW h \in Handlers, ClosePeriod(h)
  PROVE  IInv'
<1>1. "create" \in Free
  BY DEF Free, Steps, Running
<1> QED
  BY <1>1, Reads DEF ClosePeriod, SameCounts

LEMMA NextCreateCycleInvoice ==
  ASSUME IInv, NEW h \in Handlers, CreateCycleInvoice(h)
  PROVE  IInv'
<1> DEFINE unused == {c \in Cycles : cycle[c].status = "none"}
<1> DEFINE c == Least(unused)
<1> DEFINE row == [NoCycle EXCEPT !.status = "draft", !.period = job[h].sub.period]
<1>1. c \in unused
  <2>1. unused \in SUBSET Nat /\ IsFiniteSet(unused)
    BY SubscriptionAssumption, FS_Subset
  <2>2. unused # {}
    BY DEF CreateCycleInvoice
  <2> HIDE DEF unused
  <2> QED
    BY <2>1, <2>2, FiniteHasLeast
<1>2. c \in Cycles /\ cycle[c].status = "none"
  BY <1>1
<1>3. job[h] \in Jobs /\ job[h].sub.period \in Nat
  BY DEF IInv, TypeOK, Jobs, SubRows
<1>4. row \in CycleRows /\ row.status = "draft"
  BY <1>3, NewCycle
<1>5. cycle' = [cycle EXCEPT ![c] = row] /\ attempt' = attempt
  BY DEF CreateCycleInvoice
<1>6. /\ pc' = [pc EXCEPT ![h] = "link"]
      /\ job' = [job EXCEPT ![h] = [job[h] EXCEPT !.invoice = c]]
  BY DEF CreateCycleInvoice, AfterCreate
<1>7. /\ sub' \in SubRows /\ reports' \in 0 .. MaxReports
      /\ closed' = closed /\ notices' \in Nat
  BY DEF CreateCycleInvoice, IInv, TypeOK
<1> HIDE DEF c, row
<1>8. RowsOK' /\ Grown
  BY <1>2, <1>4, <1>5, CycleChange DEF Sold
<1>9. [job[h] EXCEPT !.invoice = c] \in Jobs /\ [job[h] EXCEPT !.invoice = c].invoice = c
  BY <1>2, <1>3, JobFields
<1>10. JobHolds(h)'
  <2>1. pc'[h] = "link" /\ job'[h].invoice = c
    BY <1>6, <1>9 DEF IInv, TypeOK
  <2>2. cycle'[c].status # "none"
    BY <1>2, <1>4, <1>5 DEF IInv, TypeOK
  <2> QED
    BY <1>2, <2>1, <2>2 DEF JobHolds, Running
<1>11. "link" \in Steps
  BY DEF Steps
<1> QED
  BY <1>6, <1>7, <1>8, <1>9, <1>10, <1>11, StepOf

LEMMA NextLinkCycleInvoice ==
  ASSUME IInv, NEW h \in Handlers, LinkCycleInvoice(h)
  PROVE  IInv'
<1> DEFINE c == job[h].invoice
<1> DEFINE row == [cycle[c] EXCEPT !.linked = @ \/ cycle[c].status # "deleted"]
<1>1. c \in Cycles /\ cycle[c].status # "none" /\ cycle[c] \in CycleRows
  BY DEF LinkCycleInvoice, At, IInv, JobHolds, TypeOK
<1>2. /\ row \in CycleRows /\ row.status = cycle[c].status
      /\ cycle[c].linked => row.linked
      /\ row.linked \/ row.status = "deleted"
  <2>1. (cycle[c].linked \/ cycle[c].status # "deleted") \in BOOLEAN
    OBVIOUS
  <2>2. row = [cycle[c] EXCEPT !.linked = cycle[c].linked \/ cycle[c].status # "deleted"]
    OBVIOUS
  <2>3. row \in CycleRows
    BY <1>1, <2>1, <2>2, CycleUpdates
  <2> QED
    BY <1>1, <2>3, Zenon DEF CycleRows
<1>3. cycle' = [cycle EXCEPT ![c] = row] /\ attempt' = attempt
  BY <1>1 DEF LinkCycleInvoice, IInv, TypeOK
<1>4. RowsOK' /\ Grown
  <2> HIDE DEF c, row
  <2> QED
    BY <1>1, <1>2, <1>3, CycleChange
<1>5. Go(h, "check") /\ UNCHANGED sub /\ SameCounts
  BY DEF LinkCycleInvoice, SameCounts
<1>6. JobHolds(h)'
  <2>1. pc'[h] = "check" /\ job'[h].invoice = c
    BY <1>5 DEF Go, IInv, TypeOK
  <2>2. cycle'[c] = row
    BY <1>1, <1>3 DEF IInv, TypeOK
  <2> HIDE DEF c, row
  <2> QED
    BY <1>1, <1>2, <2>1, <2>2 DEF JobHolds, Running
<1>7. "check" \in Steps
  BY DEF Steps
<1> QED
  BY <1>4, <1>5, <1>6, <1>7, Goes

\* A draft that finalize finds after the link is linked.
LEMMA NextCheckCycleInvoice ==
  ASSUME IInv, NEW h \in Handlers, CheckCycleInvoice(h)
  PROVE  IInv'
<1>1. RowsOK' /\ Grown
  BY SameRows DEF CheckCycleInvoice
<1>2. UNCHANGED sub /\ SameCounts
  BY DEF CheckCycleInvoice, SameCounts
<1>3. CASE End(h)
  BY <1>1, <1>2, <1>3, Ends DEF SameCounts, IInv, TypeOK
<1>4. CASE cycle[job[h].invoice].status = "draft" /\ Go(h, "finalize")
  <2>1. pc'[h] = "finalize" /\ job'[h] = job[h] /\ cycle' = cycle
    BY <1>4 DEF Go, CheckCycleInvoice, IInv, TypeOK
  <2>2. job[h].invoice \in Cycles /\ cycle[job[h].invoice].linked
    BY <1>4 DEF CheckCycleInvoice, At, IInv, JobHolds
  <2>3. JobHolds(h)'
    BY <1>4, <2>1, <2>2 DEF JobHolds, Running
  <2>4. "finalize" \in Steps
    BY DEF Steps
  <2> QED
    BY <1>1, <1>2, <1>4, <2>3, <2>4, Goes
<1> QED
  BY <1>3, <1>4 DEF CheckCycleInvoice

\* Whoever opens an invoice, it is no draft then, and as linked as it was.
LEMMA OpenedRows ==
  ASSUME IInv, NEW c \in Cycles, Opened(c), attempt' = attempt, cycle[c].status # "none"
  PROVE  /\ RowsOK' /\ Grown
         /\ cycle'[c].linked = cycle[c].linked /\ cycle'[c].status \in Left
<1>1. cycle \in [Cycles -> CycleRows] /\ cycle[c] \in CycleRows
  BY DEF IInv, TypeOK
<1>2. CASE cycle[c].status # "draft"
  <2>1. cycle' = cycle
    BY <1>2 DEF Opened
  <2>2. cycle[c].status \in Left
    BY <1>1, <1>2 DEF CycleRows, Left, Sold
  <2> QED
    BY <2>1, <2>2, SameRows
<1>3. CASE cycle[c].status = "draft"
  <2>1. PICK b \in Chargeable :
          cycle' = [cycle EXCEPT ![c].status = "open", ![c].chargeable = b]
    BY <1>3 DEF Opened
  <2> DEFINE row == [cycle[c] EXCEPT !.status = "open", !.chargeable = b]
  <2>2. b \in BOOLEAN
    BY SubscriptionAssumption
  <2>3. row \in CycleRows
    BY <1>1, <2>2, CycleUpdates
  <2>4. row.status = "open" /\ row.linked = cycle[c].linked
    BY <1>1, Zenon DEF CycleRows
  <2>5. cycle' = [cycle EXCEPT ![c] = row]
    BY <1>1, <2>1
  <2> HIDE DEF row
  <2>6. RowsOK' /\ Grown
    BY <1>3, <2>3, <2>4, <2>5, CycleChange DEF Sold
  <2>7. cycle'[c] = row
    BY <1>1, <2>5
  <2> QED
    BY <2>4, <2>6, <2>7 DEF Left, Sold
<1> QED
  BY <1>2, <1>3

LEMMA NextFinalizeCycleInvoice ==
  ASSUME IInv, NEW h \in Handlers, FinalizeCycleInvoice(h)
  PROVE  IInv'
<1> DEFINE c == job[h].invoice
<1>1. c \in Cycles /\ cycle[c].linked /\ cycle[c].status # "none"
  BY DEF FinalizeCycleInvoice, At, IInv, JobHolds
<1>2. Opened(c) /\ attempt' = attempt
  BY DEF FinalizeCycleInvoice
<1>3. Go(h, "roll") /\ UNCHANGED sub /\ SameCounts
  BY DEF FinalizeCycleInvoice, SameCounts
<1>4. pc'[h] = "roll" /\ job'[h].invoice = c
  BY <1>3 DEF Go, IInv, TypeOK
<1> HIDE DEF c
<1>5. /\ RowsOK' /\ Grown
      /\ cycle'[c].linked /\ cycle'[c].status \in Left
  BY <1>1, <1>2, OpenedRows
<1>6. JobHolds(h)'
  BY <1>1, <1>4, <1>5 DEF JobHolds, Running
<1>7. "roll" \in Steps
  BY DEF Steps
<1> QED
  BY <1>3, <1>5, <1>6, <1>7, Goes

\* A close that made an invoice rolls the period past one that was finalized.
LEMMA NextRollPeriod ==
  ASSUME IInv, NEW h \in Handlers, RollPeriod(h)
  PROVE  IInv'
<1>1. RowsOK' /\ Grown /\ cycle' = cycle
  BY SameRows DEF RollPeriod
<1> DEFINE old == job[h].sub
<1> DEFINE c == job[h].invoice
<1> DEFINE status == IF old.status = "trialing" THEN "active" ELSE old.status
<1> DEFINE p == [period |-> old.period, trial |-> old.status = "trialing", invoice |-> c]
<1>2. old \in SubRows /\ sub \in SubRows /\ c \in Cycles \cup {0}
  BY DEF IInv, TypeOK, Jobs
<1>3. old.period \in Nat /\ NextPeriod(old.period) \in Nat
  BY <1>2 DEF SubRows, NextPeriod
<1>4. status \in {"trialing", "active", "past_due", "canceled"}
  BY <1>2 DEF SubRows
<1>5. sub' = [sub EXCEPT !.status = status, !.period = NextPeriod(old.period),
                         !.noticeSent = FALSE]
  BY DEF RollPeriod
<1>6. closed' = closed \cup {p}
  BY DEF RollPeriod
<1>7. c # 0 => cycle[c].linked /\ cycle[c].status \in Left
  BY DEF RollPeriod, At, IInv, JobHolds
<1>8. End(h) /\ reports' = reports /\ notices' = notices
  BY DEF RollPeriod
<1> HIDE DEF old, status, c
<1>9. sub' \in SubRows
  BY <1>2, <1>3, <1>4, <1>5, SubUpdates
<1>10. closed' \subseteq [period : Nat, trial : BOOLEAN, invoice : Cycles \cup {0}]
  <2>1. (old.status = "trialing") \in BOOLEAN
    OBVIOUS
  <2>2. p \in [period : Nat, trial : BOOLEAN, invoice : Cycles \cup {0}]
    BY <1>2, <1>3, <2>1, Zenon
  <2>3. closed \subseteq [period : Nat, trial : BOOLEAN, invoice : Cycles \cup {0}]
    BY DEF IInv, TypeOK
  <2> QED
    BY <1>6, <2>2, <2>3, Zenon
<1>11. RolledIsLinked'
  <2>1. p.invoice = c
    OBVIOUS
  <2>2. c # 0 => cycle[c].linked /\ cycle[c].status \notin {"none", "draft"}
    BY <1>7 DEF Left, Sold
  <2> HIDE DEF p
  <2> QED
    BY <1>1, <1>6, <2>1, <2>2 DEF IInv, RolledIsLinked
<1>12. JobHolds(h)'
  <2>1. pc'[h] = "idle"
    BY <1>8 DEF End, IInv, TypeOK
  <2> QED
    BY <2>1, FreeHolds DEF Free, Steps, Running
<1>13. NoJob \in Jobs /\ "idle" \in Steps
  BY Idle DEF Steps
<1>14. reports' \in 0 .. MaxReports /\ notices' \in Nat
  BY <1>8 DEF IInv, TypeOK
<1>15. pc' = [pc EXCEPT ![h] = "idle"] /\ job' = [job EXCEPT ![h] = NoJob]
  BY <1>8 DEF End
<1> QED
  BY <1>1, <1>9, <1>10, <1>11, <1>12, <1>13, <1>14, <1>15, ClosesOf

-----------------------------------------------------------------------------
(* Failed charges and runs.                                                *)

LEMMA NextReportFailedCharge ==
  ASSUME IInv, NEW h \in Handlers, ReportFailedCharge(h)
  PROVE  IInv'
<1>1. RowsOK' /\ Grown
  BY SameRows DEF ReportFailedCharge
<1>2. PICK c \in Cycles :
        /\ pc' = [pc EXCEPT ![h] = "seek"]
        /\ job' = [job EXCEPT ![h] = [NoJob EXCEPT !.sub = sub, !.invoice = c]]
  BY DEF ReportFailedCharge
<1> DEFINE j == [NoJob EXCEPT !.sub = sub, !.invoice = c]
<1>3. j \in Jobs /\ j.invoice = c
  <2>1. sub \in SubRows /\ NoJob \in Jobs
    BY Idle DEF IInv, TypeOK
  <2> QED
    BY <2>1 DEF Jobs
<1>4. JobHolds(h)'
  <2>1. pc'[h] = "seek" /\ job'[h].invoice = c
    BY <1>2, <1>3 DEF IInv, TypeOK
  <2> QED
    BY <2>1 DEF JobHolds, Running
<1>5. reports' \in 0 .. MaxReports
  BY SubscriptionAssumption DEF ReportFailedCharge, IInv, TypeOK
<1>6. "seek" \in Steps
  BY DEF Steps
<1> QED
  BY <1>1, <1>2, <1>3, <1>4, <1>5, <1>6, StepOf DEF ReportFailedCharge, IInv, TypeOK

LEMMA NextSeekAttempt ==
  ASSUME IInv, NEW h \in Handlers, SeekAttempt(h)
  PROVE  IInv'
<1>1. RowsOK' /\ Grown
  BY SameRows DEF SeekAttempt
<1>2. PICK a \in Attempts \cup {0} : job' = [job EXCEPT ![h] = [job[h] EXCEPT !.id = a]]
  BY DEF SeekAttempt
<1>3. job[h] \in Jobs
  BY DEF IInv, TypeOK
<1>4. [job[h] EXCEPT !.id = a] \in Jobs /\ [job[h] EXCEPT !.id = a].invoice = job[h].invoice
  BY <1>3, JobFields
<1>5. JobHolds(h)'
  <2>1. pc'[h] = "record" /\ job'[h].invoice = job[h].invoice
    BY <1>2, <1>4 DEF SeekAttempt, IInv, TypeOK
  <2>2. job[h].invoice \in Cycles
    BY DEF SeekAttempt, At, IInv, JobHolds
  <2> QED
    BY <2>1, <2>2 DEF JobHolds, Running
<1>6. "record" \in Steps
  BY DEF Steps
<1> QED
  BY <1>1, <1>2, <1>4, <1>5, <1>6, StepOf DEF SeekAttempt, IInv, TypeOK

LEMMA NextRecordFailedCharge ==
  ASSUME IInv, NEW h \in Handlers, RecordFailedCharge(h)
  PROVE  IInv'
<1> DEFINE unused == {a \in Attempts : attempt[a].state = "none"}
<1> DEFINE a == IF job[h].id = 0 THEN Least(unused) ELSE job[h].id
<1>1. job[h] \in Jobs /\ job[h].invoice \in Cycles
  BY DEF RecordFailedCharge, At, IInv, JobHolds, TypeOK
<1>2. a \in Attempts
  <2>1. CASE job[h].id = 0
    <3>1. unused \in SUBSET Nat /\ IsFiniteSet(unused)
      BY SubscriptionAssumption, FS_Subset
    <3>2. unused # {}
      BY <2>1 DEF RecordFailedCharge
    <3>3. Least(unused) \in unused
      <4> HIDE DEF unused
      <4> QED
        BY <3>1, <3>2, FiniteHasLeast
    <3> QED
      BY <2>1, <3>3
  <2>2. CASE job[h].id # 0
    BY <1>1, <2>2 DEF Jobs
  <2> QED
    BY <2>1, <2>2
<1>3. PICK m \in Methods :
        Write(a, [state |-> "pending", attempt |-> FirstAttempt, due |-> TRUE,
                  method |-> m, invoice |-> job[h].invoice])
  BY DEF RecordFailedCharge
<1> DEFINE row == [state |-> "pending", attempt |-> FirstAttempt, due |-> TRUE,
                   method |-> m, invoice |-> job[h].invoice]
<1>4. /\ row \in AttemptRows /\ row.state = "pending" /\ row.attempt = 1
      /\ row.invoice = job[h].invoice
  <2>1. m \in BOOLEAN
    BY SubscriptionAssumption
  <2> QED
    BY <1>1, <2>1 DEF AttemptRows, FirstAttempt
<1>5. RowsOK' /\ Grown
  <2>1. cycle' = cycle /\ Write(a, row)
    BY <1>3 DEF RecordFailedCharge
  <2> HIDE DEF a, row
  <2> QED
    BY <1>1, <1>2, <1>4, <2>1, WriteChange, SubscriptionAssumption
<1>6. sub' \in SubRows
  <2>1. sub \in SubRows /\ sub.period \in Nat /\ job[h].sub.noticeSent \in BOOLEAN
    BY <1>1 DEF IInv, TypeOK, Jobs, SubRows
  <2>2. sub' = [sub EXCEPT !.status = "past_due", !.noticeSent = job[h].sub.noticeSent]
    BY DEF RecordFailedCharge
  <2> QED
    BY <2>1, <2>2, SubUpdates
<1> QED
  BY <1>5, <1>6, Ends DEF RecordFailedCharge, IInv, TypeOK

LEMMA NextTick ==
  ASSUME IInv, NEW h \in Handlers, Tick(h) \/ RunDunning(h)
  PROVE  IInv'
<1>1. "find" \in Free
  BY DEF Free, Steps, Running
<1> QED
  BY <1>1, Reads DEF Tick, RunDunning, SameCounts

\* A step of a run that leaves its job alone.
LEMMA RunGoes ==
  ASSUME IInv, RowsOK', Grown, NEW h \in Handlers, pc[h] \in Running,
         NEW step \in Running \ {"retry", "gateway"}, Go(h, step), UNCHANGED sub, SameCounts
  PROVE  IInv'
<1>1. pc'[h] = step /\ job'[h] = job[h]
  BY DEF Go, IInv, TypeOK
<1>2. /\ job[h].id \in Attempts /\ attempt[job[h].id].state # "none"
      /\ job[h].row.invoice \in Cycles
      /\ job[h].row.attempt > 0 /\ job[h].row.attempt <= MaxAttempts
  BY DEF IInv, JobHolds
<1>3. attempt'[job[h].id].state # "none"
  BY <1>2 DEF Grown
<1>4. JobHolds(h)'
  BY <1>1, <1>2, <1>3 DEF JobHolds, Running
<1>5. step \in Steps
  BY DEF Steps, Running
<1> QED
  BY <1>4, <1>5, Goes

LEMMA NextFindAttempt ==
  ASSUME IInv, NEW h \in Handlers, FindAttempt(h)
  PROVE  IInv'
<1>1. RowsOK' /\ Grown
  BY SameRows DEF FindAttempt
<1>2. /\ sub' \in SubRows /\ reports' \in 0 .. MaxReports
      /\ closed' = closed /\ notices' \in Nat
      /\ reports' = reports
  BY DEF FindAttempt, IInv, TypeOK
<1>3. CASE End(h)
  BY <1>1, <1>2, <1>3, Ends
<1>4. ASSUME NEW a \in Attempts, Active(attempt[a]),
             job' = [job EXCEPT ![h].id = a, ![h].row = attempt[a]],
             pc' = [pc EXCEPT ![h] = IF attempt[a].method THEN "charge" ELSE "stop"]
      PROVE  IInv'
  <2> DEFINE j == [job[h] EXCEPT !.id = a, !.row = attempt[a]]
  <2>1. job[h] \in Jobs /\ attempt[a] \in AttemptRows
    BY DEF IInv, TypeOK
  <2>2. j \in Jobs /\ j.id = a /\ j.row = attempt[a]
    BY <2>1 DEF Jobs
  <2>3. job' = [job EXCEPT ![h] = j]
    BY <1>4 DEF IInv, TypeOK
  <2> HIDE DEF j
  <2>4. PICK step \in {"charge", "stop"} : pc' = [pc EXCEPT ![h] = step]
    BY <1>4
  <2>5. JobHolds(h)'
    <3>1. pc'[h] = step /\ job'[h] = j
      BY <2>3, <2>4 DEF IInv, TypeOK
    <3>2. attempt[a].state # "none" /\ attempt[a].invoice \in Cycles
      BY <1>4 DEF Active, IInv, RowsHold
    <3>3. attempt[a].attempt > 0 /\ attempt[a].attempt <= MaxAttempts
      BY <1>4 DEF Active, IInv, TypeOK, BudgetKept, IsActive
    <3>4. attempt' = attempt
      BY DEF FindAttempt
    <3> QED
      BY <2>2, <3>1, <3>2, <3>3, <3>4 DEF JobHolds, Running
  <2>6. step \in Steps
    BY DEF Steps
  <2> QED
    BY <1>1, <1>2, <2>2, <2>3, <2>4, <2>5, <2>6, StepOf
<1> QED
  BY <1>3, <1>4 DEF FindAttempt

LEMMA NextChargeInvoice ==
  ASSUME IInv, NEW h \in Handlers, ChargeInvoice(h)
  PROVE  IInv'
<1>1. RowsOK' /\ Grown
  BY SameRows DEF ChargeInvoice
<1>2. CASE End(h)
  BY <1>1, <1>2, Ends DEF ChargeInvoice, IInv, TypeOK
<1>3. CASE Takes(job[h].row.invoice) /\ Go(h, "gateway")
  <2>1. pc'[h] = "gateway" /\ job'[h] = job[h]
    BY <1>3 DEF Go, IInv, TypeOK
  <2>2. /\ job[h].id \in Attempts /\ attempt[job[h].id].state # "none"
        /\ job[h].row.invoice \in Cycles
        /\ job[h].row.attempt > 0 /\ job[h].row.attempt <= MaxAttempts
    BY DEF ChargeInvoice, At, IInv, JobHolds, Running
  <2>3. attempt' = attempt /\ cycle' = cycle
    BY DEF ChargeInvoice
  <2>4. JobHolds(h)'
    BY <1>3, <2>1, <2>2, <2>3 DEF JobHolds, Running, Takes, Sold
  <2>5. "gateway" \in Steps
    BY DEF Steps
  <2>6. UNCHANGED sub /\ SameCounts
    BY DEF ChargeInvoice, SameCounts
  <2> QED
    BY <1>1, <1>3, <2>4, <2>5, <2>6, Goes
<1> QED
  BY <1>2, <1>3 DEF ChargeInvoice

\* An answer of the gateway is written to a row that left draft.
LEMMA ChargedRows ==
  ASSUME IInv, NEW c \in Cycles, NEW o \in Outcomes, Charged(c, o), attempt' = attempt,
         cycle[c].status \in Sold
  PROVE  RowsOK' /\ Grown
<1> DEFINE row == [cycle[c] EXCEPT !.event = o,
                                   !.status = IF o = "paid" THEN "paid" ELSE @]
<1>1. cycle[c] \in CycleRows
  BY DEF IInv, TypeOK
<1>2. row \in CycleRows
  BY <1>1, CycleUpdates
<1>3. row.linked = cycle[c].linked /\ row.status \in Sold
  BY <1>1 DEF CycleRows, Sold
<1>4. cycle' = [cycle EXCEPT ![c] = row]
  BY DEF Charged, IInv, TypeOK
<1>5. row.status # "none"
  BY <1>3 DEF Sold
<1> HIDE DEF row
<1>6. cycle[c].status # "deleted"
  BY DEF Sold
<1> QED
  BY <1>1, <1>2, <1>3, <1>4, <1>5, <1>6, CycleChange

LEMMA NextGatewayAnswers ==
  ASSUME IInv, NEW h \in Handlers, GatewayAnswers(h)
  PROVE  IInv'
<1>1. PICK o \in Outcomes :
        /\ Charged(job[h].row.invoice, o)
        /\ Go(h, IF Recovered(o) THEN "reactivate" ELSE "classify")
  BY DEF GatewayAnswers
<1>2. pc[h] = "gateway" /\ pc[h] \in Running
  BY DEF GatewayAnswers, At, Running
<1>3. job[h].row.invoice \in Cycles /\ cycle[job[h].row.invoice].status \in Sold
  BY <1>2 DEF IInv, JobHolds
<1>4. RowsOK' /\ Grown
  BY <1>1, <1>3, ChargedRows DEF GatewayAnswers
<1>5. PICK step \in Running \ {"retry", "gateway"} : Go(h, step)
  BY <1>1 DEF Running
<1>6. UNCHANGED sub /\ SameCounts
  BY DEF GatewayAnswers, SameCounts
<1> QED
  BY <1>2, <1>4, <1>5, <1>6, RunGoes

LEMMA NextClassify ==
  ASSUME IInv, NEW h \in Handlers, Classify(h)
  PROVE  IInv'
<1>1. RowsOK' /\ Grown
  BY SameRows DEF Classify
<1>2. pc[h] \in Running
  BY DEF Classify, At, Running
<1>3. UNCHANGED sub /\ SameCounts
  BY DEF Classify, SameCounts
<1>4. ASSUME NEW step \in {"postpone", "giveup", "stop"}, Go(h, step) PROVE IInv'
  BY <1>1, <1>2, <1>3, <1>4, RunGoes DEF Running
<1>5. CASE ~Exhausted(NextAttempt(job[h].row)) /\ Go(h, "retry")
  <2>1. pc'[h] = "retry" /\ job'[h] = job[h]
    BY <1>5 DEF Go, IInv, TypeOK
  <2>2. /\ job[h].id \in Attempts /\ attempt[job[h].id].state # "none"
        /\ job[h].row.invoice \in Cycles
        /\ job[h].row.attempt > 0 /\ job[h].row.attempt <= MaxAttempts
    BY <1>2 DEF IInv, JobHolds
  <2>3. attempt' = attempt
    BY DEF Classify
  <2>4. job[h].row.attempt + 1 <= MaxAttempts
    <3>1. job[h].row.attempt \in Nat
      BY DEF IInv, TypeOK, Jobs, AttemptRows
    <3> QED
      BY <1>5, <3>1, SubscriptionAssumption DEF Exhausted, NextAttempt
  <2>5. JobHolds(h)'
    BY <2>1, <2>2, <2>3, <2>4 DEF JobHolds, Running
  <2>6. "retry" \in Steps
    BY DEF Steps
  <2> QED
    BY <1>1, <1>3, <1>5, <2>5, <2>6, Goes
<1> QED
  BY <1>4, <1>5 DEF Classify

\* The count of a run is written to the row it read, or to none if that is gone.
LEMMA Rescheduled ==
  ASSUME IInv, NEW h \in Handlers, pc[h] \in Running,
         NEW n \in Nat, n > 0, n <= MaxAttempts,
         NEW state \in {"pending", "past_due"}, NEW due \in BOOLEAN,
         Reschedule(h, n, state, due)
  PROVE  IInv'
<1> DEFINE a == job[h].id
<1> DEFINE row == [attempt[a] EXCEPT !.attempt = n, !.state = state, !.due = due /\ @]
<1>1. a \in Attempts /\ attempt[a].state # "none" /\ attempt[a] \in AttemptRows
  BY DEF IInv, JobHolds, TypeOK
<1>2. /\ row \in AttemptRows /\ row.state = state /\ row.attempt = n
      /\ row.invoice = attempt[a].invoice
  BY <1>1, Zenon DEF AttemptRows
<1>3. Write(a, row) /\ cycle' = cycle
  BY DEF Reschedule
<1> HIDE DEF a, row
<1>4. RowsOK' /\ Grown
  <2>1. CASE attempt[a].state = "deleted"
    BY <1>3, <2>1, SameRows DEF Write
  <2>2. CASE attempt[a].state # "deleted"
    <3>1. attempt[a].invoice \in Cycles
      BY <1>1, <2>2 DEF IInv, RowsHold
    <3> QED
      BY <1>1, <1>2, <1>3, <3>1, WriteChange
  <2> QED
    BY <2>1, <2>2
<1> QED
  BY <1>4, Ends DEF Reschedule, IInv, TypeOK

LEMMA NextReschedule ==
  ASSUME IInv, NEW h \in Handlers, Postpone(h) \/ Retry(h) \/ Stop(h)
  PROVE  IInv'
<1>1. pc[h] \in Running
  BY DEF Postpone, Retry, Stop, At, Running
<1>2. job[h].row.attempt \in Nat /\ MaxAttempts \in Nat
  BY SubscriptionAssumption DEF IInv, TypeOK, Jobs, AttemptRows
<1>3. job[h].row.attempt > 0 /\ job[h].row.attempt <= MaxAttempts
  BY <1>1 DEF IInv, JobHolds
<1>4. CASE Postpone(h)
  BY <1>1, <1>2, <1>3, <1>4, Rescheduled DEF Postpone
<1>5. CASE Retry(h)
  <2>1. job[h].row.attempt + 1 <= MaxAttempts
    BY <1>5 DEF Retry, At, IInv, JobHolds
  <2>2. Reschedule(h, job[h].row.attempt + 1, "pending", FALSE)
    BY <1>5 DEF Retry, NextAttempt
  <2>3. job[h].row.attempt + 1 \in Nat /\ job[h].row.attempt + 1 > 0
    BY <1>2
  <2> QED
    BY <1>1, <2>1, <2>2, <2>3, Rescheduled
<1>6. CASE Stop(h)
  BY <1>1, <1>2, <1>3, <1>6, Rescheduled DEF Stop
<1> QED
  BY <1>4, <1>5, <1>6

\* Ending a run or a cancellation with a write of the subscription's status.
LEMMA SubWritten ==
  ASSUME IInv, NEW h \in Handlers, NEW st \in {"active", "past_due", "canceled"},
         \/ sub' = [sub EXCEPT !.status = st, !.noticeSent = job[h].sub.noticeSent]
         \/ sub' = [sub EXCEPT !.status = st]
  PROVE  sub' \in SubRows
<1>1. job[h] \in Jobs /\ sub \in SubRows
  BY DEF IInv, TypeOK
<1>2. job[h].sub \in SubRows
  BY <1>1, JobFields
<1>3. job[h].sub.noticeSent \in BOOLEAN /\ 0 \in Nat
  BY <1>2, Zenon DEF SubRows
<1> QED
  BY <1>1, <1>3, SubUpdates, SubFields

LEMMA NextGiveUp ==
  ASSUME IInv, NEW h \in Handlers, GiveUp(h)
  PROVE  IInv'
<1> DEFINE a == job[h].id
<1> DEFINE row == [attempt[a] EXCEPT !.state = "canceled"]
<1>1. a \in Attempts /\ attempt[a].state # "none" /\ attempt[a] \in AttemptRows
  BY DEF GiveUp, At, Running, IInv, JobHolds, TypeOK
<1>2. row \in AttemptRows /\ row.state = "canceled" /\ row.invoice = attempt[a].invoice
  <2>1. 0 \in Nat /\ TRUE \in BOOLEAN
    OBVIOUS
  <2> QED
    BY <1>1, <2>1, AttemptUpdates
<1>3. Write(a, row) /\ cycle' = cycle
  BY DEF GiveUp
<1>4. sub' \in SubRows
  BY SubWritten DEF GiveUp
<1> HIDE DEF a, row
<1>5. RowsOK' /\ Grown
  <2>1. CASE attempt[a].state = "deleted"
    BY <1>3, <2>1, SameRows DEF Write
  <2>2. CASE attempt[a].state # "deleted"
    <3>1. attempt[a].invoice \in Cycles
      BY <1>1, <2>2 DEF IInv, RowsHold
    <3> QED
      BY <1>1, <1>2, <1>3, <3>1, WriteChange
  <2> QED
    BY <2>1, <2>2
<1> QED
  BY <1>4, <1>5, Ends DEF GiveUp, IInv, TypeOK

LEMMA NextReactivate ==
  ASSUME IInv, NEW h \in Handlers, Reactivate(h)
  PROVE  IInv'
<1>1. job[h].id \in Attempts
  BY DEF Reactivate, At, Running, IInv, JobHolds
<1>2. RowsOK' /\ Grown
  BY <1>1, Deleted, AttemptChange DEF Reactivate
<1>3. sub' \in SubRows
  BY SubWritten DEF Reactivate
<1> QED
  BY <1>2, <1>3, Ends DEF Reactivate, IInv, TypeOK

LEMMA NextBecomesDue ==
  ASSUME IInv, NEW a \in Attempts, BecomesDue(a)
  PROVE  IInv'
<1> DEFINE row == [attempt[a] EXCEPT !.due = TRUE]
<1>1. attempt[a] \in AttemptRows /\ attempt[a].state = "pending"
  BY DEF BecomesDue, IInv, TypeOK
<1>2. /\ row \in AttemptRows /\ row.state = "pending" /\ row.attempt = attempt[a].attempt
      /\ row.invoice = attempt[a].invoice
  <2>1. 0 \in Nat /\ TRUE \in BOOLEAN
    OBVIOUS
  <2> QED
    BY <1>1, <2>1, AttemptUpdates
<1>3. attempt' = [attempt EXCEPT ![a] = row] /\ cycle' = cycle
  BY DEF BecomesDue, IInv, TypeOK
<1>4. /\ attempt[a].invoice \in Cycles
      /\ attempt[a].attempt > 0 /\ attempt[a].attempt <= MaxAttempts
  BY <1>1 DEF IInv, TypeOK, RowsHold, BudgetKept, IsActive
<1> HIDE DEF row
<1>5. RowsOK' /\ Grown
  BY <1>2, <1>3, <1>4, AttemptChange
<1>6. UNCHANGED <<pc, job>> /\ SameCounts /\ sub' \in SubRows
  BY DEF BecomesDue, SameCounts, IInv, TypeOK
<1> QED
  BY <1>5, <1>6, NoStepOf

-----------------------------------------------------------------------------
(* Cancellation, PATCH, the trial notice and the world outside.            *)

LEMMA NextBegin ==
  ASSUME IInv, NEW h \in Handlers, CancelNow(h) \/ Maintain(h)
  PROVE  IInv'
<1>1. "cancel" \in Free /\ "notify" \in Free
  BY DEF Free, Steps, Running
<1> QED
  BY <1>1, Reads DEF CancelNow, Maintain, SameCounts

LEMMA NextApplyCancel ==
  ASSUME IInv, NEW h \in Handlers, ApplyCancel(h)
  PROVE  IInv'
<1>1. attempt \in [Attempts -> AttemptRows] /\ cycle' = cycle
  BY DEF ApplyCancel, IInv, TypeOK
<1>2. ASSUME NEW a \in Attempts
      PROVE  /\ attempt'[a] \in AttemptRows
             /\ attempt[a].state # "none" => attempt'[a].state # "none"
             /\ ~IsActive(a)'
             /\ attempt'[a].state \notin {"none", "deleted"} => attempt'[a].invoice \in Cycles
  <2>1. attempt[a] \in AttemptRows
    BY <1>1
  <2>2. CASE attempt[a].state \in {"pending", "past_due"}
    <3>1. attempt'[a] = [attempt[a] EXCEPT !.state = "canceled"]
      BY <2>2 DEF ApplyCancel, Terminated
    <3>2. /\ attempt'[a] \in AttemptRows /\ attempt'[a].state = "canceled"
          /\ attempt'[a].invoice = attempt[a].invoice
      BY <2>1, <3>1, Zenon DEF AttemptRows
    <3>3. attempt[a].invoice \in Cycles
      BY <2>2 DEF IInv, RowsHold
    <3>4. ~IsActive(a)'
      BY <3>2 DEF IsActive
    <3> QED
      BY <3>2, <3>3, <3>4
  <2>3. CASE attempt[a].state \notin {"pending", "past_due"}
    <3>1. attempt'[a] = attempt[a]
      BY <2>3 DEF ApplyCancel
    <3> QED
      BY <2>1, <2>3, <3>1 DEF IsActive, IInv, RowsHold
  <2> QED
    BY <2>2, <2>3
<1>3. attempt' \in [Attempts -> AttemptRows]
  <2>1. attempt' = [a \in Attempts |-> attempt'[a]]
    BY DEF ApplyCancel
  <2> QED
    BY <1>2, <2>1
<1>4. RowsHold' /\ BudgetKept' /\ \A a \in Attempts : IsActive(a)' => attempt'[a].attempt > 0
  BY <1>2 DEF RowsHold, BudgetKept
<1>5. cycle' \in [Cycles -> CycleRows]
  BY <1>1 DEF IInv, TypeOK
<1>6. Grown
  BY <1>1, <1>2 DEF Grown
<1>7. RowsOK'
  BY <1>3, <1>4, <1>5 DEF RowsOK
<1>8. sub' \in SubRows
  BY SubWritten DEF ApplyCancel
<1> QED
  BY <1>6, <1>7, <1>8, Ends DEF ApplyCancel, IInv, TypeOK

LEMMA NextFlag ==
  ASSUME IInv, CancelAtPeriodEnd \/ UpdateSubscription
  PROVE  IInv'
<1>1. RowsOK' /\ Grown
  BY SameRows DEF CancelAtPeriodEnd, UpdateSubscription
<1>2. PICK flag \in BOOLEAN : sub' = [sub EXCEPT !.cancelAtEnd = flag]
  BY DEF CancelAtPeriodEnd, UpdateSubscription
<1>3. sub' \in SubRows
  BY <1>2, SubFields DEF IInv, TypeOK
<1>4. UNCHANGED <<pc, job>> /\ SameCounts
  BY DEF CancelAtPeriodEnd, UpdateSubscription, SameCounts
<1> QED
  BY <1>1, <1>3, <1>4, NoStepOf

LEMMA NextMarkTrialWillEnd ==
  ASSUME IInv, NEW h \in Handlers, MarkTrialWillEnd(h)
  PROVE  IInv'
<1>1. RowsOK' /\ Grown
  BY SameRows DEF MarkTrialWillEnd
<1>2. sub' \in SubRows
  BY SubFields DEF MarkTrialWillEnd, IInv, TypeOK
<1>3. notices' \in Nat
  BY DEF MarkTrialWillEnd, IInv, TypeOK
<1> QED
  BY <1>1, <1>2, <1>3, Ends DEF MarkTrialWillEnd, IInv, TypeOK

LEMMA NextElsewhere ==
  ASSUME IInv, NEW c \in Cycles,
         \/ FinalizedElsewhere(c) \/ DeletedElsewhere(c)
         \/ ChargedElsewhere(c) \/ ClosedElsewhere(c)
  PROVE  IInv'
<1>1. UNCHANGED <<pc, job>> /\ SameCounts /\ sub' \in SubRows /\ attempt' = attempt
  BY DEF FinalizedElsewhere, DeletedElsewhere, ChargedElsewhere, ClosedElsewhere, SameCounts,
     IInv, TypeOK
<1>2. cycle \in [Cycles -> CycleRows] /\ cycle[c] \in CycleRows
  BY DEF IInv, TypeOK
<1>3. CASE FinalizedElsewhere(c)
  <2>1. RowsOK' /\ Grown
    BY <1>1, <1>3, OpenedRows DEF FinalizedElsewhere
  <2> QED
    BY <1>1, <2>1, NoStepOf
<1>4. CASE ChargedElsewhere(c)
  <2>1. cycle[c].status \in Sold /\ \E o \in Outcomes : Charged(c, o)
    BY <1>4 DEF ChargedElsewhere, Takes, Sold
  <2>2. RowsOK' /\ Grown
    BY <1>1, <2>1, ChargedRows
  <2> QED
    BY <1>1, <2>2, NoStepOf
<1>5. CASE DeletedElsewhere(c) \/ ClosedElsewhere(c)
  <2>1. PICK st \in {"deleted", "closed"} :
          /\ cycle' = [cycle EXCEPT ![c].status = st]
          /\ cycle[c].status = IF st = "deleted" THEN "draft" ELSE "open"
    BY <1>5 DEF DeletedElsewhere, ClosedElsewhere
  <2> DEFINE row == [cycle[c] EXCEPT !.status = st]
  <2>2. row \in CycleRows
    BY <1>2, CycleUpdates
  <2>3. row.status = st /\ row.linked = cycle[c].linked
    BY <1>2, Zenon DEF CycleRows
  <2>4. cycle' = [cycle EXCEPT ![c] = row]
    BY <1>2, <2>1
  <2> HIDE DEF row
  <2>5. /\ row.status # "none" /\ cycle[c].status # "deleted"
        /\ cycle[c].status \in Sold => row.status \in Sold
    BY <2>1, <2>3 DEF Sold
  <2>6. RowsOK' /\ Grown
    BY <1>1, <2>2, <2>3, <2>4, <2>5, CycleChange
  <2> QED
    BY <1>1, <2>6, NoStepOf
<1> QED
  BY <1>3, <1>4, <1>5

LEMMA NextDie ==
  ASSUME IInv, NEW h \in Handlers, Die(h)
  PROVE  IInv'
BY SameRows, Ends DEF Die, IInv, TypeOK

-----------------------------------------------------------------------------
(* The invariant and the theorems.                                         *)

LEMMA NextIInv == IInv /\ [Next]_vars => IInv'
<1> SUFFICES ASSUME IInv, [Next]_vars PROVE IInv'
  OBVIOUS
<1>1. CASE UNCHANGED vars
  <2>1. RowsOK' /\ Grown
    BY <1>1, SameRows DEF vars
  <2> QED
    BY <1>1, <2>1, NoStepOf DEF vars, SameCounts, IInv, TypeOK
<1>2. ASSUME NEW h \in Handlers,
             \/ ClosePeriod(h) \/ ReportFailedCharge(h) \/ Tick(h) \/ RunDunning(h)
             \/ CancelNow(h) \/ Maintain(h) \/ Die(h)
      PROVE  IInv'
  BY <1>2, NextClosePeriod, NextReportFailedCharge, NextTick, NextBegin, NextDie
<1>3. ASSUME NEW h \in Handlers, Work(h) PROVE IInv'
  BY <1>3, NextCreateCycleInvoice, NextLinkCycleInvoice, NextCheckCycleInvoice,
     NextFinalizeCycleInvoice, NextRollPeriod, NextSeekAttempt, NextRecordFailedCharge, NextFindAttempt,
     NextChargeInvoice, NextGatewayAnswers, NextClassify, NextReschedule, NextGiveUp,
     NextReactivate, NextApplyCancel, NextMarkTrialWillEnd DEF Work
<1>4. ASSUME NEW a \in Attempts, BecomesDue(a) PROVE IInv'
  BY <1>4, NextBecomesDue
<1>5. ASSUME NEW c \in Cycles,
             \/ FinalizedElsewhere(c) \/ DeletedElsewhere(c)
             \/ ChargedElsewhere(c) \/ ClosedElsewhere(c)
      PROVE  IInv'
  BY <1>5, NextElsewhere
<1>6. CASE CancelAtPeriodEnd \/ UpdateSubscription
  BY <1>6, NextFlag
<1> QED
  BY <1>1, <1>2, <1>3, <1>4, <1>5, <1>6 DEF Next

LEMMA Inductive == Spec => []IInv
BY InitIInv, NextIInv, PTL DEF Spec

\* Every step keeps the types, and no attempt that may be run has made none.
THEOREM TypeCorrect == Spec => []TypeOK
<1>1. IInv => TypeOK
  BY DEF IInv
<1> QED
  BY <1>1, Inductive, PTL

\* No attempt is scheduled past DUNNING_MAX_ATTEMPTS, for any number of ticks, runs,
\* reports and cancellations that overlap or stop half-way (runDunning writes the
\* count it read, plus one when that is within the budget).
THEOREM BudgetIsKept == Spec => []BudgetKept
<1>1. IInv => BudgetKept
  BY DEF IInv
<1> QED
  BY <1>1, Inductive, PTL

\* A period that was closed with an invoice left one that carries the subscription and
\* is no draft any more, however closes overlap or stop and whatever the merchant does to
\* the draft through the invoice routes meanwhile (closePeriod rolls after finalize, which
\* refuses an invoice that is gone or open already).
THEOREM RolledCarriesSubscription == Spec => []RolledIsLinked
<1>1. IInv => RolledIsLinked
  BY DEF IInv
<1> QED
  BY <1>1, Inductive, PTL

-----------------------------------------------------------------------------
(* Handlers that do not overlap.  What a handler read is then still so when *)
(* it writes: no step but its own changes the subscription's status or      *)
(* which attempts are active, and an invoice that is paid stays paid.       *)

Alone == \A g, h \in Handlers : g = h

Closing == {"create", "link", "check", "finalize", "roll"}

OneAttempt == \A a, b \in Attempts : IsActive(a) /\ IsActive(b) => a = b

Current(h) ==
  /\ pc[h] \in Closing => job[h].sub.status = sub.status
  /\ pc[h] = "record" => IF job[h].id = 0 THEN \A a \in Attempts : ~IsActive(a)
                         ELSE job[h].id \in Attempts /\ IsActive(job[h].id)
  /\ pc[h] \in Running => /\ IsActive(job[h].id)
                          /\ attempt[job[h].id].invoice = job[h].row.invoice
  /\ pc[h] = "reactivate" => cycle[job[h].row.invoice].status = "paid"

Serial ==
  IInv /\ DunningTracksStatus /\ OneAttempt /\ \A h \in Handlers : Current(h)

Tracked == DunningTracksStatus /\ OneAttempt

\* What most steps leave alone: whether the subscription is past_due, which
\* attempts are active, and the invoices they are about.
Steady ==
  /\ sub'.status = "past_due" <=> sub.status = "past_due"
  /\ \A a \in Attempts : /\ IsActive(a)' <=> IsActive(a)
                         /\ IsActive(a) => attempt'[a].invoice = attempt[a].invoice

LEMMA SteadyTracks ==
  ASSUME Tracked, Steady
  PROVE  Tracked'
<1>1. DunningTracksStatus'
  BY DEF Tracked, Steady, DunningTracksStatus
<1>2. OneAttempt'
  BY DEF Tracked, Steady, OneAttempt
<1> QED
  BY <1>1, <1>2 DEF Tracked

LEMMA NoneTracks ==
  ASSUME \A a \in Attempts : ~IsActive(a)', sub'.status # "past_due"
  PROVE  Tracked'
BY DEF Tracked, DunningTracksStatus, OneAttempt

LEMMA OnlyTracks ==
  ASSUME NEW a \in Attempts, IsActive(a)', \A b \in Attempts : b # a => ~IsActive(b)',
         sub'.status = "past_due"
  PROVE  Tracked'
BY DEF Tracked, DunningTracksStatus, OneAttempt

\* Steps that need no claim about the job.
Easy == {"idle", "seek", "find", "cancel", "notify"}

LEMMA EasyCurrent ==
  ASSUME NEW h \in Handlers, pc'[h] \in Easy
  PROVE  Current(h)'
BY DEF Current, Easy, Closing, Running

LEMMA EndsCurrent ==
  ASSUME IInv, NEW h \in Handlers, End(h)
  PROVE  Current(h)'
<1>1. pc'[h] = "idle"
  BY DEF End, IInv, TypeOK
<1> QED
  BY <1>1, EasyCurrent DEF Easy

\* A step of no handler.
LEMMA OutsideCurrent ==
  ASSUME NEW h \in Handlers, IInv, Current(h), Steady, UNCHANGED <<pc, job>>,
         sub'.status = sub.status,
         \A c \in Cycles : cycle[c].status = "paid" => cycle'[c].status = "paid"
  PROVE  Current(h)'
<1>1. pc[h] \in Running => job[h].id \in Attempts /\ job[h].row.invoice \in Cycles
  BY DEF IInv, JobHolds
<1>2. pc[h] = "reactivate" => pc[h] \in Running
  BY DEF Running
<1>3. pc[h] \in Closing => job[h].sub.status = sub'.status
  BY DEF Current
<1>4. pc[h] = "record" => IF job[h].id = 0 THEN \A a \in Attempts : ~IsActive(a)'
                          ELSE job[h].id \in Attempts /\ IsActive(job[h].id)'
  BY DEF Current, Steady
<1>5. pc[h] \in Running => /\ IsActive(job[h].id)'
                           /\ attempt'[job[h].id].invoice = job[h].row.invoice
  BY <1>1 DEF Current, Steady
<1>6. pc[h] = "reactivate" => cycle'[job[h].row.invoice].status = "paid"
  BY <1>1, <1>2 DEF Current
<1>7. pc'[h] = pc[h] /\ job'[h] = job[h]
  OBVIOUS
<1> QED
  BY <1>3, <1>4, <1>5, <1>6, <1>7 DEF Current

\* A step of a run that leaves the attempt and the job alone.
LEMMA RunCurrent ==
  ASSUME IInv, NEW h \in Handlers, Current(h), pc[h] \in Running,
         NEW step \in Running, Go(h, step), attempt' = attempt,
         step = "reactivate" => cycle'[job[h].row.invoice].status = "paid"
  PROVE  Current(h)'
<1>1. pc'[h] = step /\ job'[h] = job[h]
  BY DEF Go, IInv, TypeOK
<1>2. step \notin Closing /\ step # "record"
  BY DEF Running, Closing
<1>3. IsActive(job[h].id)' /\ attempt'[job[h].id].invoice = job[h].row.invoice
  BY <1>1 DEF Current, IsActive
<1> QED
  BY <1>1, <1>2, <1>3 DEF Current

LEMMA SteadyRows ==
  ASSUME attempt' = attempt, sub' = sub
  PROVE  Steady
BY DEF Steady, IsActive

-----------------------------------------------------------------------------
LEMMA SerialRead ==
  ASSUME Serial, NEW h \in Handlers,
         ClosePeriod(h) \/ ReportFailedCharge(h) \/ Tick(h) \/ RunDunning(h)
           \/ CancelNow(h) \/ Maintain(h)
  PROVE  Tracked' /\ Current(h)'
<1>1. Steady
  BY SteadyRows DEF ClosePeriod, ReportFailedCharge, Tick, RunDunning, CancelNow, Maintain
<1>2. Tracked'
  BY <1>1, SteadyTracks DEF Serial, Tracked
<1>3. pc \in [Handlers -> Steps] /\ job \in [Handlers -> Jobs]
  BY DEF Serial, IInv, TypeOK
<1>4. CASE ClosePeriod(h)
  <2>1. PICK step \in {"create", "roll"} : Read(h, "close", step)
    BY <1>4 DEF ClosePeriod
  <2>2. pc'[h] = step /\ job'[h] = [NoJob EXCEPT !.sub = sub] /\ sub' = sub
    BY <1>3, <1>4, <2>1 DEF Read, ClosePeriod
  <2>3. job'[h].sub = sub
    BY <2>2 DEF NoJob
  <2>4. pc'[h] \notin Running /\ pc'[h] # "record" /\ pc'[h] # "reactivate"
    BY <2>2 DEF Running
  <2> QED
    BY <1>2, <2>2, <2>3, <2>4 DEF Current
<1>5. CASE ~ClosePeriod(h)
  <2>1. pc'[h] \in Easy
    BY <1>3, <1>5 DEF ReportFailedCharge, Tick, RunDunning, CancelNow, Maintain, Read, Easy
  <2> QED
    BY <1>2, <2>1, EasyCurrent
<1> QED
  BY <1>4, <1>5

LEMMA SerialClose ==
  ASSUME Serial, NEW h \in Handlers,
         \/ CreateCycleInvoice(h) \/ LinkCycleInvoice(h) \/ CheckCycleInvoice(h)
         \/ FinalizeCycleInvoice(h)
  PROVE  Tracked' /\ Current(h)'
<1>1. Steady /\ sub' = sub
  BY SteadyRows DEF CreateCycleInvoice, LinkCycleInvoice, CheckCycleInvoice,
     FinalizeCycleInvoice
<1>2. Tracked'
  BY <1>1, SteadyTracks DEF Serial, Tracked
<1>3. pc \in [Handlers -> Steps] /\ job \in [Handlers -> Jobs]
  BY DEF Serial, IInv, TypeOK
<1>4. CASE End(h)
  BY <1>2, <1>4, EndsCurrent DEF Serial
<1>5. CASE ~End(h)
  <2>1. pc[h] \in Closing /\ pc'[h] \in {"link", "check", "finalize", "roll"}
    BY <1>3, <1>5 DEF CreateCycleInvoice, LinkCycleInvoice, CheckCycleInvoice,
       FinalizeCycleInvoice, At, Go, Closing, AfterCreate
  <2>2. job'[h].sub = job[h].sub
    <3>1. CASE CreateCycleInvoice(h)
      <4>1. PICK c : job' = [job EXCEPT ![h].invoice = c]
        BY <3>1 DEF CreateCycleInvoice
      <4>2. job'[h] = [job[h] EXCEPT !.invoice = c] /\ job[h] \in Jobs
        BY <1>3, <4>1
      <4> QED
        BY <4>2 DEF Jobs
    <3>2. CASE ~CreateCycleInvoice(h)
      BY <1>5, <3>2 DEF LinkCycleInvoice, CheckCycleInvoice, FinalizeCycleInvoice, Go
    <3> QED
      BY <3>1, <3>2
  <2>3. job[h].sub.status = sub.status
    BY <2>1 DEF Serial, Current
  <2>4. pc'[h] \notin Running /\ pc'[h] # "record" /\ pc'[h] # "reactivate"
    BY <2>1 DEF Running
  <2> QED
    BY <1>1, <1>2, <2>2, <2>3, <2>4 DEF Current
<1> QED
  BY <1>4, <1>5

\* The status that a close writes is the one it read, or active after a trial.
LEMMA SerialRoll ==
  ASSUME Serial, NEW h \in Handlers, RollPeriod(h)
  PROVE  /\ Tracked' /\ Current(h)'
         /\ sub.status = "past_due" => sub'.status = "past_due"
<1>1. job[h].sub.status = sub.status /\ attempt' = attempt
  BY DEF RollPeriod, At, Closing, Serial, Current
<1>2. sub'.status = IF sub.status = "trialing" THEN "active" ELSE sub.status
  BY <1>1 DEF RollPeriod, Serial, IInv, TypeOK, SubRows
<1>3. Steady
  BY <1>1, <1>2 DEF Steady, IsActive
<1> QED
  BY <1>2, <1>3, SteadyTracks, EndsCurrent DEF Serial, Tracked, RollPeriod

LEMMA SerialSeek ==
  ASSUME Serial, NEW h \in Handlers, SeekAttempt(h)
  PROVE  Tracked' /\ Current(h)'
<1>1. Steady
  BY SteadyRows DEF SeekAttempt
<1>2. Tracked'
  BY <1>1, SteadyTracks DEF Serial, Tracked
<1> DEFINE found == {a \in Attempts : Active(attempt[a])}
<1>3. PICK a \in (IF found = {} THEN {0} ELSE found) : job' = [job EXCEPT ![h].id = a]
  BY DEF SeekAttempt
<1>4. pc'[h] = "record" /\ job'[h].id = a
  BY <1>3 DEF SeekAttempt, Serial, IInv, TypeOK, Jobs
<1>5. \A b \in Attempts : b \in found <=> IsActive(b)'
  BY DEF Active, IsActive, SeekAttempt
<1>6. IF a = 0 THEN \A b \in Attempts : ~IsActive(b)' ELSE a \in Attempts /\ IsActive(a)'
  <2>1. CASE found = {}
    BY <1>3, <1>5, <2>1
  <2>2. CASE found # {}
    <3>1. a \in found /\ a \in Attempts /\ a # 0
      BY <1>3, <2>2, SubscriptionAssumption
    <3> QED
      BY <1>5, <3>1
  <2> QED
    BY <2>1, <2>2
<1>7. pc'[h] \notin Running /\ pc'[h] \notin Closing /\ pc'[h] # "reactivate"
  BY <1>4 DEF Running, Closing
<1> HIDE DEF found
<1> QED
  BY <1>2, <1>4, <1>6, <1>7 DEF Current

\* The attempt that was renewed or made is the only one.
LEMMA SerialRecord ==
  ASSUME Serial, NEW h \in Handlers, RecordFailedCharge(h)
  PROVE  Tracked' /\ Current(h)' /\ sub'.status = "past_due"
<1> DEFINE unused == {a \in Attempts : attempt[a].state = "none"}
<1>0. PICK a : a = IF job[h].id = 0 THEN Least(unused) ELSE job[h].id
  OBVIOUS
<1>1. attempt \in [Attempts -> AttemptRows] /\ sub \in SubRows
  BY DEF Serial, IInv, TypeOK
<1>2. IF job[h].id = 0 THEN \A b \in Attempts : ~IsActive(b)
      ELSE job[h].id \in Attempts /\ IsActive(job[h].id)
  BY DEF RecordFailedCharge, At, Serial, Current
<1>3. /\ a \in Attempts /\ attempt[a].state # "deleted"
      /\ \A b \in Attempts : b # a => ~IsActive(b)
  <2>1. CASE job[h].id = 0
    <3>1. unused \in SUBSET Nat /\ IsFiniteSet(unused)
      BY SubscriptionAssumption, FS_Subset
    <3>2. unused # {}
      BY <2>1 DEF RecordFailedCharge
    <3>3. Least(unused) \in unused
      <4> HIDE DEF unused
      <4> QED
        BY <3>1, <3>2, FiniteHasLeast
    <3> QED
      BY <1>0, <1>2, <2>1, <3>3
  <2>2. CASE job[h].id # 0
    <3>1. a = job[h].id
      BY <1>0, <2>2
    <3> QED
      BY <1>2, <2>2, <3>1 DEF IsActive, Serial, OneAttempt
  <2> QED
    BY <2>1, <2>2
<1>4. PICK m \in Methods :
        Write(a, [state |-> "pending", attempt |-> FirstAttempt, due |-> TRUE,
                  method |-> m, invoice |-> job[h].invoice])
  BY <1>0 DEF RecordFailedCharge
<1>5. sub'.status = "past_due"
  BY <1>1 DEF RecordFailedCharge, SubRows
<1> HIDE DEF unused
<1>6. attempt' = [attempt EXCEPT ![a] =
                    [state |-> "pending", attempt |-> FirstAttempt, due |-> TRUE,
                     method |-> m, invoice |-> job[h].invoice]]
  BY <1>3, <1>4 DEF Write
<1>7. IsActive(a)' /\ \A b \in Attempts : b # a => ~IsActive(b)'
  BY <1>1, <1>3, <1>6 DEF IsActive
<1> QED
  BY <1>3, <1>5, <1>7, OnlyTracks, EndsCurrent DEF RecordFailedCharge, Serial

LEMMA SerialFind ==
  ASSUME Serial, NEW h \in Handlers, FindAttempt(h)
  PROVE  Tracked' /\ Current(h)'
<1>1. Steady /\ attempt' = attempt
  BY SteadyRows DEF FindAttempt
<1>2. Tracked'
  BY <1>1, SteadyTracks DEF Serial, Tracked
<1>3. CASE End(h)
  BY <1>2, <1>3, EndsCurrent DEF Serial
<1>4. ASSUME NEW a \in Attempts, Active(attempt[a]),
             job' = [job EXCEPT ![h].id = a, ![h].row = attempt[a]],
             pc' = [pc EXCEPT ![h] = IF attempt[a].method THEN "charge" ELSE "stop"]
      PROVE  Current(h)'
  <2>1. job[h] \in Jobs
    BY DEF Serial, IInv, TypeOK
  <2>2. job'[h].id = a /\ job'[h].row = attempt[a]
    BY <1>4, <2>1 DEF Serial, IInv, TypeOK, Jobs
  <2>3. pc'[h] \in {"charge", "stop"}
    BY <1>4 DEF Serial, IInv, TypeOK
  <2>4. IsActive(a)
    BY <1>4 DEF Active, IsActive
  <2>5. attempt'[job'[h].id].state \in {"pending", "past_due"}
    BY <1>1, <2>2, <2>4 DEF IsActive
  <2>6. attempt'[job'[h].id].invoice = job'[h].row.invoice
    BY <1>1, <2>2
  <2>7. pc'[h] \notin Closing /\ pc'[h] # "record" /\ pc'[h] # "reactivate"
    BY <2>3 DEF Closing
  <2> QED
    BY <2>5, <2>6, <2>7 DEF Current, IsActive
<1> QED
  BY <1>2, <1>3, <1>4 DEF FindAttempt

LEMMA SerialRun ==
  ASSUME Serial, NEW h \in Handlers, ChargeInvoice(h) \/ GatewayAnswers(h) \/ Classify(h)
  PROVE  Tracked' /\ Current(h)'
<1>1. Steady /\ attempt' = attempt
  BY SteadyRows DEF ChargeInvoice, GatewayAnswers, Classify
<1>2. Tracked'
  BY <1>1, SteadyTracks DEF Serial, Tracked
<1>3. pc[h] \in Running
  BY DEF ChargeInvoice, GatewayAnswers, Classify, At, Running
<1>4. CASE End(h)
  BY <1>2, <1>4, EndsCurrent DEF Serial
<1>5. ASSUME NEW step \in Running \ {"reactivate"}, Go(h, step) PROVE Current(h)'
  BY <1>1, <1>3, <1>5, RunCurrent DEF Serial
<1>6. CASE ChargeInvoice(h)
  BY <1>2, <1>4, <1>5, <1>6 DEF ChargeInvoice, Running
<1>7. CASE Classify(h)
  BY <1>2, <1>5, <1>7 DEF Classify, Running
<1>8. CASE GatewayAnswers(h)
  <2>1. PICK o \in Outcomes :
          /\ Charged(job[h].row.invoice, o)
          /\ Go(h, IF Recovered(o) THEN "reactivate" ELSE "classify")
    BY <1>8 DEF GatewayAnswers
  <2>2. CASE Recovered(o)
    <3>1. job[h].row.invoice \in Cycles
      BY <1>3 DEF Serial, IInv, JobHolds
    <3>2. cycle'[job[h].row.invoice].status = "paid"
      BY <2>1, <2>2, <3>1 DEF Recovered, Charged, Serial, IInv, TypeOK, CycleRows
    <3>3. Go(h, "reactivate") /\ "reactivate" \in Running
      BY <2>1, <2>2 DEF Running
    <3> QED
      BY <1>1, <1>2, <1>3, <3>2, <3>3, RunCurrent DEF Serial
  <2>3. CASE ~Recovered(o)
    <3>1. Go(h, "classify") /\ "classify" \in Running \ {"reactivate"}
      BY <2>1, <2>3 DEF Running
    <3> QED
      BY <1>2, <1>5, <3>1
  <2> QED
    BY <2>2, <2>3
<1> QED
  BY <1>6, <1>7, <1>8

\* The attempt a run works on is active, so the write finds it; it stays active.
LEMMA SerialReschedule ==
  ASSUME Serial, NEW h \in Handlers, Postpone(h) \/ Retry(h) \/ Stop(h)
  PROVE  Tracked' /\ Current(h)'
<1>1. pc[h] \in Running
  BY DEF Postpone, Retry, Stop, At, Running
<1>2. PICK state \in {"pending", "past_due"} : \E n, due : Reschedule(h, n, state, due)
  BY DEF Postpone, Retry, Stop
<1> PICK n, due : Reschedule(h, n, state, due)
  BY <1>2
<1>3. PICK a : a = job[h].id
  OBVIOUS
<1>4. a \in Attempts /\ IsActive(a) /\ attempt[a] \in AttemptRows
  BY <1>1, <1>3 DEF Serial, Current, IInv, JobHolds, TypeOK
<1>5. attempt' = [attempt EXCEPT ![a] = [attempt[a] EXCEPT !.attempt = n, !.state = state,
                                                           !.due = due /\ @]]
  BY <1>2, <1>3, <1>4 DEF Reschedule, Write, IsActive
<1>6. /\ attempt'[a].state = state /\ attempt'[a].invoice = attempt[a].invoice
      /\ \A b \in Attempts : b # a => attempt'[b] = attempt[b]
  <2>1. attempt \in [Attempts -> AttemptRows]
    BY DEF Serial, IInv, TypeOK
  <2>2. attempt'[a] = [attempt[a] EXCEPT !.attempt = n, !.state = state, !.due = due /\ @]
    BY <1>4, <1>5, <2>1, Zenon
  <2>3. attempt'[a].state = state /\ attempt'[a].invoice = attempt[a].invoice
    BY <1>4, <2>2, Zenon DEF AttemptRows
  <2> QED
    BY <1>4, <1>5, <2>1, <2>3
<1>7. Steady
  BY <1>2, <1>4, <1>6 DEF Steady, IsActive, Reschedule
<1> QED
  BY <1>2, <1>7, SteadyTracks, EndsCurrent DEF Serial, Tracked, Reschedule

\* Giving up and recovering end the only attempt there is.
LEMMA SerialEndsAttempt ==
  ASSUME Serial, NEW h \in Handlers, GiveUp(h) \/ Reactivate(h)
  PROVE  Tracked' /\ Current(h)'
<1>1. pc[h] \in Running
  BY DEF GiveUp, Reactivate, At, Running
<1>2. PICK a : a = job[h].id
  OBVIOUS
<1>3. a \in Attempts /\ IsActive(a) /\ \A b \in Attempts : b # a => ~IsActive(b)
  BY <1>1, <1>2 DEF Serial, Current, IInv, JobHolds, OneAttempt
<1>4. attempt \in [Attempts -> AttemptRows] /\ attempt[a] \in AttemptRows
  BY <1>3 DEF Serial, IInv, TypeOK
<1>5. /\ attempt'[a].state \in {"canceled", "deleted"}
      /\ \A b \in Attempts : b # a => attempt'[b] = attempt[b]
  <2>1. CASE GiveUp(h)
    <3>1. attempt' = [attempt EXCEPT ![a] = [attempt[a] EXCEPT !.state = "canceled"]]
      BY <1>2, <1>3, <2>1 DEF GiveUp, Write, IsActive
    <3>2. [attempt[a] EXCEPT !.state = "canceled"].state = "canceled"
      BY <1>4 DEF AttemptRows
    <3> QED
      BY <1>3, <1>4, <3>1, <3>2
  <2>2. CASE Reactivate(h)
    <3>1. attempt' = [attempt EXCEPT ![a] = [NoAttempt EXCEPT !.state = "deleted"]]
      BY <1>2, <2>2 DEF Reactivate
    <3> QED
      BY <1>3, <1>4, <3>1, Deleted
  <2> QED
    BY <2>1, <2>2
<1>6. \A b \in Attempts : ~IsActive(b)'
  BY <1>3, <1>5 DEF IsActive
<1>7. sub'.status # "past_due"
  BY DEF GiveUp, Reactivate, Serial, IInv, TypeOK, SubRows
<1> QED
  BY <1>6, <1>7, NoneTracks, EndsCurrent DEF Serial, GiveUp, Reactivate

LEMMA SerialApplyCancel ==
  ASSUME Serial, NEW h \in Handlers, ApplyCancel(h)
  PROVE  Tracked' /\ Current(h)'
<1>1. ASSUME NEW a \in Attempts PROVE ~IsActive(a)'
  <2>1. attempt[a] \in AttemptRows
    BY DEF Serial, IInv, TypeOK
  <2>2. [attempt[a] EXCEPT !.state = "canceled"].state = "canceled"
    BY <2>1 DEF AttemptRows
  <2>3. CASE attempt[a].state \in {"pending", "past_due"}
    <3>1. attempt'[a] = [attempt[a] EXCEPT !.state = "canceled"]
      BY <2>3 DEF ApplyCancel, Terminated
    <3> QED
      BY <2>2, <3>1 DEF IsActive
  <2>4. CASE attempt[a].state \notin {"pending", "past_due"}
    BY <2>4 DEF ApplyCancel, IsActive
  <2> QED
    BY <2>3, <2>4
<1>2. sub'.status = "canceled"
  BY DEF ApplyCancel, Serial, IInv, TypeOK, SubRows
<1> QED
  BY <1>1, <1>2, NoneTracks, EndsCurrent DEF Serial, ApplyCancel

LEMMA SerialMarked ==
  ASSUME Serial, NEW h \in Handlers, MarkTrialWillEnd(h) \/ Die(h)
  PROVE  Tracked' /\ Current(h)'
<1>1. attempt' = attempt /\ sub'.status = sub.status /\ End(h)
  BY DEF MarkTrialWillEnd, Die, Serial, IInv, TypeOK, SubRows
<1>2. Steady
  BY <1>1 DEF Steady, IsActive
<1> QED
  BY <1>1, <1>2, SteadyTracks, EndsCurrent DEF Serial, Tracked

LEMMA SerialOutside ==
  ASSUME Serial,
         \/ UNCHANGED vars
         \/ \E a \in Attempts : BecomesDue(a)
         \/ \E c \in Cycles : \/ FinalizedElsewhere(c) \/ DeletedElsewhere(c)
                              \/ ChargedElsewhere(c) \/ ClosedElsewhere(c)
         \/ CancelAtPeriodEnd \/ UpdateSubscription
  PROVE  Tracked' /\ \A h \in Handlers : Current(h)'
<1>1. UNCHANGED <<pc, job>>
  BY DEF vars, BecomesDue, FinalizedElsewhere, DeletedElsewhere, ChargedElsewhere,
     ClosedElsewhere, CancelAtPeriodEnd, UpdateSubscription
<1>2. sub'.status = sub.status
  BY DEF vars, BecomesDue, FinalizedElsewhere, DeletedElsewhere, ChargedElsewhere,
     ClosedElsewhere, CancelAtPeriodEnd, UpdateSubscription, Serial, IInv, TypeOK, SubRows
<1>3. cycle \in [Cycles -> CycleRows] /\ attempt \in [Attempts -> AttemptRows]
  BY DEF Serial, IInv, TypeOK
<1>4. \A c \in Cycles : cycle[c].status = "paid" => cycle'[c].status = "paid"
  <2>1. ASSUME NEW c \in Cycles,
               \/ FinalizedElsewhere(c) \/ DeletedElsewhere(c)
               \/ ChargedElsewhere(c) \/ ClosedElsewhere(c)
        PROVE  \/ cycle' = cycle
               \/ cycle'[c].status = "paid" \/ cycle[c].status # "paid"
    BY <2>1 DEF FinalizedElsewhere, DeletedElsewhere, ChargedElsewhere, Takes, ClosedElsewhere
  <2>2. ASSUME NEW c \in Cycles,
               \/ FinalizedElsewhere(c) \/ DeletedElsewhere(c)
               \/ ChargedElsewhere(c) \/ ClosedElsewhere(c)
        PROVE  \A d \in Cycles : d # c => cycle'[d] = cycle[d]
    BY <1>3, <2>2 DEF FinalizedElsewhere, Opened, DeletedElsewhere, ChargedElsewhere,
       Charged, ClosedElsewhere
  <2>3. CASE cycle' = cycle
    BY <2>3
  <2>4. CASE \E c \in Cycles : \/ FinalizedElsewhere(c) \/ DeletedElsewhere(c)
                              \/ ChargedElsewhere(c) \/ ClosedElsewhere(c)
    BY <2>1, <2>2, <2>4
  <2> QED
    BY <2>3, <2>4 DEF vars, BecomesDue, CancelAtPeriodEnd, UpdateSubscription
<1>5. Steady
  <2>1. CASE attempt' = attempt
    BY <1>2, <2>1 DEF Steady, IsActive
  <2>2. ASSUME NEW a \in Attempts, BecomesDue(a) PROVE Steady
    <3>1. attempt' = [attempt EXCEPT ![a] = [attempt[a] EXCEPT !.due = TRUE]]
      BY <2>2 DEF BecomesDue
    <3>2. attempt[a] \in AttemptRows /\ 0 \in Nat /\ TRUE \in BOOLEAN
      BY <1>3
    <3>3. /\ [attempt[a] EXCEPT !.due = TRUE].state = attempt[a].state
          /\ [attempt[a] EXCEPT !.due = TRUE].invoice = attempt[a].invoice
      BY <3>2, AttemptUpdates
    <3>4. \A b \in Attempts : /\ attempt'[b].state = attempt[b].state
                              /\ attempt'[b].invoice = attempt[b].invoice
      BY <1>3, <3>1, <3>3
    <3> QED
      BY <1>2, <3>4 DEF Steady, IsActive
  <2> QED
    BY <2>1, <2>2 DEF vars, FinalizedElsewhere, DeletedElsewhere, ChargedElsewhere,
       ClosedElsewhere, CancelAtPeriodEnd, UpdateSubscription
<1> QED
  BY <1>1, <1>2, <1>4, <1>5, SteadyTracks, OutsideCurrent DEF Serial, Tracked

-----------------------------------------------------------------------------
(* What holds as long as handlers do not overlap.                          *)

LEMMA InitSerial == Init => Serial
<1> SUFFICES ASSUME Init PROVE Serial
  OBVIOUS
<1>1. \A a \in Attempts : ~IsActive(a)
  BY DEF Init, NoAttempt, IsActive
<1>2. sub.status # "past_due"
  BY SubscriptionAssumption DEF Init, NewSub
<1>3. \A h \in Handlers : Current(h)
  BY DEF Init, Current, Closing, Running
<1> QED
  BY <1>1, <1>2, <1>3, InitIInv DEF Serial, DunningTracksStatus, OneAttempt

LEMMA NextSerial == Alone /\ Serial /\ [Next]_vars => Serial'
<1> SUFFICES ASSUME Alone, Serial, [Next]_vars PROVE Serial'
  OBVIOUS
<1>1. IInv'
  BY NextIInv DEF Serial
<1>2. ASSUME NEW h \in Handlers, Tracked' /\ Current(h)' PROVE Serial'
  <2>1. \A o \in Handlers : o = h
    BY DEF Alone
  <2>2. \A o \in Handlers : Current(o)'
    BY <1>2, <2>1
  <2> QED
    BY <1>1, <1>2, <2>2 DEF Serial, Tracked
<1>3. ASSUME NEW h \in Handlers,
             \/ ClosePeriod(h) \/ ReportFailedCharge(h) \/ Tick(h) \/ RunDunning(h)
             \/ CancelNow(h) \/ Maintain(h) \/ Die(h)
      PROVE  Serial'
  <2>1. Tracked' /\ Current(h)'
    BY <1>3, SerialRead, SerialMarked
  <2> QED
    BY <1>2, <2>1
<1>4. ASSUME NEW h \in Handlers, Work(h) PROVE Serial'
  <2>1. Tracked' /\ Current(h)'
    BY <1>4, SerialClose, SerialRoll, SerialSeek, SerialRecord, SerialFind, SerialRun,
       SerialReschedule, SerialEndsAttempt, SerialApplyCancel, SerialMarked DEF Work
  <2> QED
    BY <1>2, <2>1
<1>5. CASE \/ UNCHANGED vars
           \/ \E a \in Attempts : BecomesDue(a)
           \/ \E c \in Cycles : \/ FinalizedElsewhere(c) \/ DeletedElsewhere(c)
                                \/ ChargedElsewhere(c) \/ ClosedElsewhere(c)
           \/ CancelAtPeriodEnd \/ UpdateSubscription
  BY <1>1, <1>5, SerialOutside DEF Serial, Tracked
<1> QED
  BY <1>3, <1>4, <1>5 DEF Next

LEMMA AlwaysSerial == ASSUME Alone PROVE Spec => []Serial
BY InitSerial, NextSerial, PTL DEF Spec

\* Steps that may change a status or an attempt.
LEMMA OnlyReactivates ==
  ASSUME Serial, [Next]_vars
  PROVE  /\ sub.status = "past_due" /\ sub'.status = "active"
              => \E h \in Handlers : Reactivate(h)
         /\ \A a \in Attempts : attempt[a].state # "deleted" /\ attempt'[a].state = "deleted"
              => \E h \in Handlers : Reactivate(h) /\ job[h].id = a
<1> DEFINE Goal == /\ sub.status = "past_due" => sub'.status # "active"
                   /\ \A a \in Attempts : attempt'[a].state = "deleted"
                                            => attempt[a].state = "deleted"
<1>1. attempt \in [Attempts -> AttemptRows] /\ sub \in SubRows
  BY DEF Serial, IInv, TypeOK
<1>2. CASE UNCHANGED <<sub, attempt>>
  BY <1>2
<1>3. ASSUME NEW h \in Handlers, RollPeriod(h) PROVE Goal
  BY <1>3, SerialRoll DEF RollPeriod
<1>4. ASSUME NEW h \in Handlers, RecordFailedCharge(h) PROVE Goal
  <2>1. PICK a, row : Write(a, row) /\ row.state = "pending"
    BY <1>4 DEF RecordFailedCharge
  <2> QED
    BY <1>1, <1>4, <2>1, SerialRecord DEF Write
<1>5. ASSUME NEW h \in Handlers, NEW row, Write(job[h].id, row), row.state # "deleted",
             sub'.status \in {sub.status, "canceled"}
      PROVE  Goal
  BY <1>1, <1>5 DEF Write
<1>6. ASSUME NEW h \in Handlers, Postpone(h) \/ Retry(h) \/ Stop(h) PROVE Goal
  <2>0. PICK state \in {"pending", "past_due"} : \E n, due : Reschedule(h, n, state, due)
    BY <1>6 DEF Postpone, Retry, Stop
  <2>1. PICK n, due : Reschedule(h, n, state, due)
    BY <2>0
  <2>2. job[h].id \in Attempts /\ sub' = sub
    BY <1>6, <2>1 DEF Postpone, Retry, Stop, At, Running, Serial, IInv, JobHolds, Reschedule
  <2> DEFINE row == [attempt[job[h].id] EXCEPT !.attempt = n, !.state = state,
                                               !.due = due /\ @]
  <2>3. row.state = state
    BY <1>1, <2>2, Zenon DEF AttemptRows
  <2>4. Write(job[h].id, row)
    BY <2>1 DEF Reschedule
  <2> HIDE DEF row
  <2> QED
    BY <1>5, <2>2, <2>3, <2>4
<1>7. ASSUME NEW h \in Handlers, GiveUp(h) PROVE Goal
  <2>1. job[h].id \in Attempts /\ sub'.status = "canceled"
    BY <1>1, <1>7 DEF GiveUp, At, Running, Serial, IInv, JobHolds, SubRows
  <2>2. [attempt[job[h].id] EXCEPT !.state = "canceled"].state = "canceled"
    BY <1>1, <2>1 DEF AttemptRows
  <2> QED
    BY <1>5, <1>7, <2>1, <2>2 DEF GiveUp
<1>8. ASSUME NEW h \in Handlers, ApplyCancel(h) PROVE Goal
  <2>1. sub'.status = "canceled"
    BY <1>1, <1>8 DEF ApplyCancel, SubRows
  <2>2. \A a \in Attempts : attempt'[a] = attempt[a] \/ attempt'[a].state = "canceled"
    BY <1>1, <1>8 DEF ApplyCancel, Terminated, AttemptRows
  <2> QED
    BY <2>1, <2>2
<1>9. ASSUME NEW a \in Attempts, BecomesDue(a) PROVE Goal
  <2>1. attempt' = [attempt EXCEPT ![a] = [attempt[a] EXCEPT !.due = TRUE]] /\ sub' = sub
    BY <1>9 DEF BecomesDue
  <2>2. [attempt[a] EXCEPT !.due = TRUE].state = attempt[a].state
    BY <1>1 DEF AttemptRows
  <2> QED
    BY <1>1, <2>1, <2>2
<1>10. ASSUME NEW h \in Handlers, Reactivate(h)
       PROVE  \A a \in Attempts : attempt[a].state # "deleted" /\ attempt'[a].state = "deleted"
                => job[h].id = a
  BY <1>1, <1>10 DEF Reactivate
<1>11. ASSUME NEW h \in Handlers, MarkTrialWillEnd(h) PROVE Goal
  BY <1>1, <1>11 DEF MarkTrialWillEnd, SubRows
<1>12. ASSUME CancelAtPeriodEnd \/ UpdateSubscription PROVE Goal
  BY <1>1, <1>12 DEF CancelAtPeriodEnd, UpdateSubscription, SubRows
<1> HIDE DEF Goal
<1>13. \/ UNCHANGED <<sub, attempt>>
       \/ \E h \in Handlers : \/ RollPeriod(h) \/ RecordFailedCharge(h) \/ Postpone(h)
                              \/ Retry(h) \/ Stop(h) \/ GiveUp(h) \/ ApplyCancel(h)
                              \/ MarkTrialWillEnd(h) \/ Reactivate(h)
       \/ \E a \in Attempts : BecomesDue(a)
       \/ CancelAtPeriodEnd \/ UpdateSubscription
  BY DEF Next, Work, vars, ClosePeriod, ReportFailedCharge, Tick, RunDunning, CancelNow,
     Maintain, Die, CreateCycleInvoice, LinkCycleInvoice, CheckCycleInvoice,
     FinalizeCycleInvoice, SeekAttempt, FindAttempt, ChargeInvoice, GatewayAnswers, Classify,
     FinalizedElsewhere, DeletedElsewhere, ChargedElsewhere, ClosedElsewhere
<1>14. Goal \/ UNCHANGED <<sub, attempt>> \/ \E h \in Handlers : Reactivate(h)
  <2>1. ASSUME NEW h \in Handlers,
               \/ RollPeriod(h) \/ RecordFailedCharge(h) \/ Postpone(h) \/ Retry(h) \/ Stop(h)
               \/ GiveUp(h) \/ ApplyCancel(h) \/ MarkTrialWillEnd(h)
        PROVE  Goal
    BY <2>1, <1>3, <1>4, <1>6, <1>7, <1>8, <1>11
  <2>2. ASSUME NEW h \in Handlers,
               \/ RollPeriod(h) \/ RecordFailedCharge(h) \/ Postpone(h) \/ Retry(h) \/ Stop(h)
               \/ GiveUp(h) \/ ApplyCancel(h) \/ MarkTrialWillEnd(h) \/ Reactivate(h)
        PROVE  Goal \/ Reactivate(h)
    BY <2>1, <2>2
  <2>3. CASE \E a \in Attempts : BecomesDue(a)
    BY <1>9, <2>3
  <2>4. CASE CancelAtPeriodEnd \/ UpdateSubscription
    BY <1>12, <2>4
  <2>5. CASE UNCHANGED <<sub, attempt>>
    BY <2>5
  <2>6. CASE \E h \in Handlers :
               \/ RollPeriod(h) \/ RecordFailedCharge(h) \/ Postpone(h) \/ Retry(h) \/ Stop(h)
               \/ GiveUp(h) \/ ApplyCancel(h) \/ MarkTrialWillEnd(h) \/ Reactivate(h)
    <3>1. PICK h \in Handlers :
               \/ RollPeriod(h) \/ RecordFailedCharge(h) \/ Postpone(h) \/ Retry(h) \/ Stop(h)
               \/ GiveUp(h) \/ ApplyCancel(h) \/ MarkTrialWillEnd(h) \/ Reactivate(h)
      BY <2>6
    <3>2. Goal \/ Reactivate(h)
      BY <2>2, <3>1
    <3> QED
      BY <3>2
  <2> QED
    BY <1>13, <2>3, <2>4, <2>5, <2>6
<1>15. CASE Goal
  BY <1>15 DEF Goal
<1> QED
  BY <1>2, <1>10, <1>14, <1>15

\* While handlers do not overlap, a subscription is past_due exactly while it has an
\* attempt, whatever happens to its invoices and wherever a handler stops.
THEOREM StatusTracked == ASSUME Alone PROVE Spec => []DunningTracksStatus
<1>1. Serial => DunningTracksStatus
  BY DEF Serial
<1> QED
  BY <1>1, AlwaysSerial, PTL

\* A recovery works on the only attempt, whose invoice is paid.
LEMMA RecoversPaid ==
  ASSUME Serial, NEW h \in Handlers, Reactivate(h)
  PROVE  /\ job[h].id \in Attempts /\ IsActive(job[h].id)
         /\ cycle[attempt[job[h].id].invoice].status = "paid"
<1>1. pc[h] = "reactivate" /\ pc[h] \in Running
  BY DEF Reactivate, At, Running
<1>2. job[h].id \in Attempts
  BY <1>1 DEF Serial, IInv, JobHolds
<1>3. Current(h)
  BY DEF Serial
<1> QED
  BY <1>1, <1>2, <1>3 DEF Current

\* While handlers do not overlap, only a run whose charge was captured makes a past_due
\* subscription active, and the invoice of its attempt is paid.
THEOREM RecoveredIsPaid == ASSUME Alone PROVE Spec => RecoveryIsPaid
<1>1. ASSUME Serial, [Next]_vars
      PROVE  [(sub.status = "past_due" /\ sub'.status = "active")
                => \E a \in Attempts : IsActive(a) /\ cycle[attempt[a].invoice].status = "paid"]_vars
  <2>1. ASSUME NEW h \in Handlers, Reactivate(h)
        PROVE  \E a \in Attempts : IsActive(a) /\ cycle[attempt[a].invoice].status = "paid"
    BY <1>1, <2>1, RecoversPaid
  <2> QED
    BY <1>1, <2>1, OnlyReactivates
<1> QED
  BY <1>1, AlwaysSerial, PTL DEF Spec, RecoveryIsPaid

\* While handlers do not overlap, an attempt is deleted only by the run that collected
\* the invoice it is about (finalizeSuccess).
THEOREM DeletedIsPaid == ASSUME Alone PROVE Spec => DroppedIsPaid
<1>1. ASSUME Serial, [Next]_vars
      PROVE  [\A a \in Attempts :
                (attempt[a].state # "deleted" /\ attempt'[a].state = "deleted")
                  => cycle[attempt[a].invoice].status = "paid"]_vars
  <2>1. ASSUME NEW h \in Handlers, Reactivate(h)
        PROVE  cycle[attempt[job[h].id].invoice].status = "paid"
    BY <1>1, <2>1, RecoversPaid
  <2> QED
    BY <1>1, <2>1, OnlyReactivates
<1> QED
  BY <1>1, AlwaysSerial, PTL DEF Spec, DroppedIsPaid

\* While handlers do not overlap, recordFailedCharge keeps one active attempt, and a
\* canceled subscription has none.
THEOREM AttemptIsOne == ASSUME Alone PROVE Spec => [](OneActiveAttempt /\ CanceledIsQuiet)
<1>1. ASSUME Serial PROVE OneActiveAttempt /\ CanceledIsQuiet
  <2> DEFINE Found == {a \in Attempts : IsActive(a)}
  <2>1. Found = {} => OneActiveAttempt
    BY FS_EmptySet DEF OneActiveAttempt
  <2>2. ASSUME NEW a \in Found PROVE OneActiveAttempt
    <3>1. Found = {a}
      BY <1>1 DEF Serial, OneAttempt
    <3>2. Cardinality({a}) = 1
      BY FS_Singleton
    <3> QED
      BY <3>1, <3>2 DEF OneActiveAttempt
  <2>3. CanceledIsQuiet
    BY <1>1 DEF Serial, DunningTracksStatus, CanceledIsQuiet
  <2> QED
    BY <2>1, <2>2, <2>3
<1> QED
  BY <1>1, AlwaysSerial, PTL
=============================================================================
