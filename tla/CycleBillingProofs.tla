------------------------- MODULE CycleBillingProofs -------------------------
(***************************************************************************)
(* Proofs about module CycleBilling, for any items, prices, usage and      *)
(* number of handlers.                                                     *)
(*                                                                         *)
(* While closes do not overlap (OneClose), the one under way holds the     *)
(* current windows, so that the next period starts where this one ends and *)
(* every record is summed by the close of the window it falls in (Summed). *)
(* Likewise a change of a quantity starts from the current one             *)
(* (OneChange) and a charge writes from the current balance (OneCharge).   *)
(* First, facts about the computations of module Billing, for every        *)
(* instant, period, amount and quantity: a period never ends before it has *)
(* begun, so that windows never are empty, and a proration is whole.  Then *)
(* the tiers: sorted, they are a permutation in the order of the ceilings  *)
(* (PlaceIs, PlacesInOrder), and after each pass the loop has charged the  *)
(* units up to that ceiling, each to the tier that covers it (Looped), so  *)
(* that a line costs what its price means (Priced).  Where a fact needs an *)
(* induction, a smallest counterexample is refuted.                        *)
(***************************************************************************)
EXTENDS CycleBilling, FiniteSetTheorems, WellFoundedInduction, TLAPS

-----------------------------------------------------------------------------
(* Smallest and greatest elements.                                         *)

\* A nonempty set of subsets of a finite set has one with no smaller one in it.
LEMMA HasSmallest ==
  ASSUME NEW S, IsFiniteSet(S), NEW Bad \in SUBSET SUBSET S, Bad # {}
  PROVE  \E T \in Bad : \A U \in Bad : U \subseteq T => U = T
<1> DEFINE Smaller == {TT \in (SUBSET S) \X (SUBSET S) : TT[1] \subseteq TT[2] /\ TT[1] # TT[2]}
<1>1. IsWellFoundedOn(Smaller, SUBSET S)
  BY FS_StrictSubsetOrderingWellFounded, FS_FiniteSubsetsOfFinite DEF StrictSubsetOrdering
<1>2. PICK T \in Bad : \A U \in Bad : ~(<<U, T>> \in Smaller)
  <2> HIDE DEF Smaller
  <2> QED
    BY <1>1, WFMin
<1> QED
  BY <1>2

\* A nonempty set of numbers has a least one.
LEMMA HasLeast ==
  ASSUME NEW S \in SUBSET Nat, S # {}
  PROVE  \E n \in S : \A m \in S : n <= m
<1>1. PICK n \in S : \A m \in S : ~(<<m, n>> \in OpToRel(<, Nat))
  BY NatLessThanWellFounded, WFMin, Zenon
<1>2. \A m \in S : m \in Nat /\ n \in Nat
  OBVIOUS
<1>3. ASSUME NEW m \in S PROVE n <= m
  <2>1. ~(m < n)
    BY <1>1, <1>2, Zenon DEF OpToRel
  <2> QED
    BY <1>2, <2>1
<1> QED
  BY <1>3

\* A finite set of integers has a greatest element: a smallest set without one would
\* have one as soon as an element is put back.
LEMMA FiniteHasMax ==
  ASSUME NEW S \in SUBSET Int, IsFiniteSet(S), S # {}
  PROVE  \E x \in S : \A y \in S : x >= y
<1> DEFINE Bad == {T \in SUBSET S : T # {} /\ ~ \E x \in T : \A y \in T : x >= y}
<1> DEFINE Smaller == {TT \in (SUBSET S) \X (SUBSET S) : TT[1] \subseteq TT[2] /\ TT[1] # TT[2]}
<1>1. SUFFICES ASSUME Bad # {} PROVE FALSE
  BY S \in SUBSET S
<1>2. IsWellFoundedOn(Smaller, SUBSET S)
  BY FS_StrictSubsetOrderingWellFounded, FS_FiniteSubsetsOfFinite DEF StrictSubsetOrdering
<1>3. PICK T \in Bad : \A U \in Bad : ~(<<U, T>> \in Smaller)
  <2>1. Bad \subseteq SUBSET S
    OBVIOUS
  <2> HIDE DEF Bad, Smaller
  <2> QED
    BY <1>1, <1>2, <2>1, WFMin
<1>4. PICK x \in T : TRUE
  OBVIOUS
<1> DEFINE U == T \ {x}
<1>5. U \notin Bad
  BY <1>3, <1>4
<1>6. CASE U = {}
  BY <1>6, <1>4, <1>3
<1>7. CASE U # {}
  <2>1. PICK m \in U : \A y \in U : m >= y
    BY <1>5, <1>7
  <2>2. \E z \in T : \A y \in T : z >= y
    <3>1. CASE m >= x
      BY <3>1, <2>1
    <3>2. CASE ~(m >= x)
      <4>1. x \in Int /\ \A y \in T : y \in Int
        OBVIOUS
      <4>2. \A y \in T : x >= y
        BY <3>2, <2>1, <4>1
      <4> QED
        BY <4>2
    <3> QED
      BY <3>1, <3>2
  <2> QED
    BY <2>2, <1>3
<1> QED
  BY <1>6, <1>7

LEMMA MaxOfFinite ==
  ASSUME NEW S \in SUBSET Int, IsFiniteSet(S), S # {}
  PROVE  Max(S) \in S /\ \A y \in S : Max(S) >= y
BY FiniteHasMax DEF Max

-----------------------------------------------------------------------------
(* The calendar.                                                           *)

YearStart(y) == 365 * y + y \div 4
InYear(y, k) == DaysBefore[k + 1] + (IF y % 4 = 3 /\ k >= 2 THEN 1 ELSE 0)

LEMMA DivMod ==
  ASSUME NEW m \in Nat
  PROVE  m \div 12 \in Nat /\ m % 12 \in 0 .. 11 /\ m = 12 * (m \div 12) + (m % 12)
BY SMT

LEMMA InYearType ==
  ASSUME NEW y \in Nat, NEW k \in 0 .. 11
  PROVE  InYear(y, k) \in Nat /\ InYear(y, k) <= 335 /\ InYear(y, k) <= 31 * k
BY SMT DEF InYear, DaysBefore

LEMMA InYearGrows ==
  ASSUME NEW y \in Nat, NEW k \in 0 .. 11, NEW l \in 0 .. 11, k < l
  PROVE  InYear(y, k) < InYear(y, l)
<1>1. DaysBefore[k + 1] < DaysBefore[l + 1]
  <2>1. CASE k \in 0 .. 2
    BY <2>1, SMTT(30) DEF DaysBefore
  <2>2. CASE k \in 3 .. 5
    BY <2>2, SMTT(30) DEF DaysBefore
  <2>3. CASE k \in 6 .. 11
    BY <2>3, SMTT(30) DEF DaysBefore
  <2> QED
    BY <2>1, <2>2, <2>3
<1>2. DaysBefore[k + 1] \in Nat /\ DaysBefore[l + 1] \in Nat
  BY SMT DEF DaysBefore
<1> QED
  BY <1>1, <1>2, SMT DEF InYear

LEMMA YearStartGrows ==
  ASSUME NEW y \in Nat, NEW z \in Nat, y < z
  PROVE  YearStart(y) \in Nat /\ YearStart(z) \in Nat /\ YearStart(y) + 365 <= YearStart(z)
BY SMT DEF YearStart

\* A month is longer than nothing, so a later month starts later.
LEMMA MonthStartIs ==
  ASSUME NEW m \in Nat
  PROVE  /\ MonthStart(m) = YearStart(m \div 12) + InYear(m \div 12, m % 12)
         /\ MonthStart(m) \in Nat
<1>1. m \div 12 \in Nat /\ m % 12 \in 0 .. 11
  BY DivMod
<1>2. MonthStart(m) = YearStart(m \div 12) + InYear(m \div 12, m % 12)
  <2>1. DaysBefore[(m % 12) + 1] \in Nat
    BY <1>1, SMT DEF DaysBefore
  <2> QED
    BY <1>1, <2>1, SMT DEF MonthStart, YearStart, InYear
<1>3. InYear(m \div 12, m % 12) \in Nat
  BY <1>1, InYearType
<1>4. YearStart(m \div 12) \in Nat
  BY <1>1, SMT DEF YearStart
<1> QED
  BY <1>2, <1>3, <1>4

LEMMA MonthsGrow ==
  ASSUME NEW m \in Nat, NEW n \in Nat, m < n
  PROVE  MonthStart(m) < MonthStart(n)
<1> DEFINE y == m \div 12
<1> DEFINE z == n \div 12
<1> DEFINE k == m % 12
<1> DEFINE l == n % 12
<1>1. y \in Nat /\ k \in 0 .. 11 /\ m = 12 * y + k
  BY DivMod
<1>2. z \in Nat /\ l \in 0 .. 11 /\ n = 12 * z + l
  BY DivMod
<1>3. MonthStart(m) = YearStart(y) + InYear(y, k) /\ MonthStart(n) = YearStart(z) + InYear(z, l)
  BY MonthStartIs
<1>4. InYear(y, k) \in Nat /\ InYear(y, k) <= 335 /\ InYear(z, l) \in Nat
  BY <1>1, <1>2, InYearType
<1> HIDE DEF y, z, k, l
<1>5. CASE y < z
  <2>1. YearStart(y) \in Nat /\ YearStart(z) \in Nat /\ YearStart(y) + 365 <= YearStart(z)
    BY <1>1, <1>2, <1>5, YearStartGrows
  <2> QED
    BY <2>1, <1>3, <1>4
<1>6. CASE y = z /\ k < l
  <2>1. InYear(y, k) < InYear(z, l)
    BY <1>1, <1>2, <1>6, InYearGrows
  <2>2. YearStart(y) \in Nat
    BY <1>1, SMT DEF YearStart
  <2> QED
    BY <2>1, <2>2, <1>3, <1>4, <1>6
<1>7. y < z \/ (y = z /\ k < l)
  BY <1>1, <1>2
<1> QED
  BY <1>5, <1>6, <1>7

\* A month of 31 days a piece is never ahead of the calendar.
LEMMA MonthsOf31 ==
  ASSUME NEW m \in Nat
  PROVE  MonthStart(m) <= 31 * m
<1> DEFINE y == m \div 12
<1> DEFINE k == m % 12
<1>1. y \in Nat /\ k \in 0 .. 11 /\ m = 12 * y + k
  BY DivMod
<1>2. MonthStart(m) = YearStart(y) + InYear(y, k)
  BY MonthStartIs
<1>3. InYear(y, k) \in Nat /\ InYear(y, k) <= 31 * k
  BY <1>1, InYearType
<1>4. YearStart(y) \in Nat /\ YearStart(y) <= 372 * y
  BY <1>1, SMT DEF YearStart
<1> HIDE DEF y, k
<1> QED
  BY <1>1, <1>2, <1>3, <1>4

LEMMA MonthOfDay ==
  ASSUME NEW day \in Nat
  PROVE  MonthOf(day) \in Nat /\ MonthStart(MonthOf(day)) <= day
<1> DEFINE low == day \div 31
<1> DEFINE high == day \div 28
<1> DEFINE S == {month \in low .. high : MonthStart(month) <= day}
<1>1. low \in Nat /\ high \in Nat /\ low <= high /\ 31 * low <= day
  BY SMT
<1>2. low \in S
  <2>1. MonthStart(low) <= 31 * low /\ MonthStart(low) \in Nat
    BY <1>1, MonthsOf31, MonthStartIs
  <2> HIDE DEF low, high
  <2> QED
    BY <2>1, <1>1
<1>3. IsFiniteSet(S)
  <2>1. IsFiniteSet(low .. high)
    BY <1>1, FS_Interval
  <2>2. S \subseteq low .. high
    OBVIOUS
  <2> QED
    BY <2>1, <2>2, FS_Subset
<1>4. S \in SUBSET Int
  BY <1>1
<1>5. Max(S) \in S
  BY <1>2, <1>3, <1>4, MaxOfFinite
<1>6. MonthOf(day) = Max(S)
  BY DEF MonthOf
<1> QED
  BY <1>1, <1>5, <1>6

-----------------------------------------------------------------------------
(* Periods and prorations.                                                 *)

\* A period of any length ends after it has begun: addInterval returns a later
\* instant, whatever months or leap days it runs over.
THEOREM PeriodsEndLater ==
  ASSUME NEW start \in Nat, NEW period \in Periods
  PROVE  AddPeriod(start, period) \in Nat /\ AddPeriod(start, period) > start
<1>1. period.interval \in Intervals /\ period.count \in Nat \ {0}
  BY DEF Periods
<1>2. ASSUME NEW months \in Nat \ {0}
      PROVE  AddMonths(start, months) \in Nat /\ AddMonths(start, months) > start
  <2> DEFINE m == MonthOf(start)
  <2>1. m \in Nat /\ MonthStart(m) <= start
    BY MonthOfDay
  <2>2. MonthStart(m) \in Nat /\ MonthStart(m + months) \in Nat
    BY <2>1, MonthStartIs
  <2>3. MonthStart(m) < MonthStart(m + months)
    BY <2>1, MonthsGrow
  <2>4. AddMonths(start, months) = MonthStart(m + months) + (start - MonthStart(m))
    BY DEF AddMonths
  <2> HIDE DEF m
  <2> QED
    BY <2>1, <2>2, <2>3, <2>4
<1>3. CASE period.interval = "day"
  BY <1>1, <1>3 DEF AddPeriod
<1>4. CASE period.interval = "week"
  BY <1>1, <1>4 DEF AddPeriod
<1>5. CASE period.interval = "month"
  <2>1. AddPeriod(start, period) = AddMonths(start, period.count)
    BY <1>5 DEF AddPeriod
  <2> QED
    BY <2>1, <1>1, <1>2
<1>6. CASE period.interval = "year"
  <2>1. AddPeriod(start, period) = AddMonths(start, 12 * period.count)
    BY <1>6 DEF AddPeriod
  <2>2. 12 * period.count \in Nat \ {0}
    BY <1>1
  <2> QED
    BY <2>1, <2>2, <1>2
<1> QED
  BY <1>1, <1>3, <1>4, <1>5, <1>6 DEF Intervals

\* Whatever the clock shows, a proration is a whole amount of minor units.
LEMMA ProratedIsWhole ==
  ASSUME NEW unitAmount \in Int, NEW n \in Int, NEW start \in Int, NEW end \in Int,
         NEW now \in Int
  PROVE  Prorated(unitAmount, n, start, end, now) \in Int
<1> DEFINE total == Max({1, end - start})
<1>1. total \in Nat \ {0}
  <2>1. IsFiniteSet({1, end - start})
    <3>1. IsFiniteSet({1})
      BY FS_Singleton
    <3>2. {1, end - start} = {1} \cup {end - start}
      OBVIOUS
    <3> QED
      BY <3>1, <3>2, FS_AddElement
  <2>2. {1, end - start} \in SUBSET Int
    OBVIOUS
  <2>3. total \in {1, end - start} /\ total >= 1
    BY <2>1, <2>2, MaxOfFinite
  <2> QED
    BY <2>3
<1>2. Prorated(unitAmount, n, start, end, now)
        = Round(unitAmount * n * Clamp(end - now, 0, total), total)
  BY DEF Prorated
<1> HIDE DEF total
<1>3. Clamp(end - now, 0, total) \in Int
  BY <1>1 DEF Clamp
<1>4. unitAmount * n * Clamp(end - now, 0, total) \in Int
  <2>1. unitAmount * n \in Int
    OBVIOUS
  <2> QED
    BY <2>1, <1>3
<1>5. ASSUME NEW a \in Int PROVE Round(a, total) \in Int
  <2>1. 2 * a + total \in Int /\ 2 * total \in Nat \ {0}
    BY <1>1
  <2> QED
    BY <2>1 DEF Round
<1> QED
  BY <1>2, <1>4, <1>5

-----------------------------------------------------------------------------
(* Sums over finite sets.  The provers cannot do the induction that the    *)
(* recursion of MapThenSumSet calls for; a smallest counterexample serves. *)

\* The element that comes first, as CHOOSE has it.
Pick(s) == CHOOSE x \in s : TRUE
\* The sums of g over the subsets of S, from smaller ones to larger ones.
Table(g, S, it) ==
  it = [s \in SUBSET S |-> IF s = {} THEN 0 ELSE g[Pick(s)] + it[s \ {Pick(s)}]]
Rule(g, it, s) == it[s] = g[Pick(s)] + it[s \ {Pick(s)}]

Sum(g, S) == (CHOOSE it : Table(g, S, it))[S]

LEMMA PickIn == ASSUME NEW s, s # {} PROVE Pick(s) \in s
BY DEF Pick

LEMMA TableAt ==
  ASSUME NEW g, NEW S, NEW it, Table(g, S, it)
  PROVE  /\ DOMAIN it = SUBSET S
         /\ it[{}] = 0
         /\ \A s \in SUBSET S : s # {} => Rule(g, it, s)
<1> DEFINE F == [t \in SUBSET S |-> IF t = {} THEN 0 ELSE g[Pick(t)] + it[t \ {Pick(t)}]]
<1>1. it = F
  BY DEF Table
<1>2. F[{}] = 0
  OBVIOUS
<1>3. ASSUME NEW s \in SUBSET S, s # {} PROVE F[s] = g[Pick(s)] + it[s \ {Pick(s)}]
  BY <1>3
<1>4. DOMAIN F = SUBSET S
  OBVIOUS
<1> HIDE DEF F
<1> QED
  BY <1>1, <1>2, <1>3, <1>4 DEF Rule

\* There is no more than one table: the values for the subsets without their first
\* element determine the values for the subsets.
LEMMA TableUnique ==
  ASSUME NEW g, NEW h, NEW S, IsFiniteSet(S), NEW T \in SUBSET S,
         NEW it, NEW jt, Table(g, S, it), Table(h, T, jt), \A x \in T : g[x] = h[x]
  PROVE  \A s \in SUBSET T : it[s] = jt[s]
<1> DEFINE Bad == {s \in SUBSET T : it[s] # jt[s]}
<1>1. SUFFICES ASSUME Bad # {} PROVE FALSE
  OBVIOUS
<1>2. IsFiniteSet(T)
  BY FS_Subset
<1>3. PICK s \in Bad : \A u \in Bad : u \subseteq s => u = s
  <2>1. Bad \in SUBSET SUBSET T
    OBVIOUS
  <2> HIDE DEF Bad
  <2> QED
    BY <1>1, <1>2, <2>1, HasSmallest
<1>4. s # {}
  <2>1. it[{}] = 0 /\ jt[{}] = 0
    BY TableAt
  <2> QED
    BY <1>3, <2>1
<1>5. Pick(s) \in s /\ s \in SUBSET T /\ s \in SUBSET S
  BY <1>4, PickIn
<1>6. it[s \ {Pick(s)}] = jt[s \ {Pick(s)}]
  BY <1>3, <1>5
<1>7. /\ it[s] = g[Pick(s)] + it[s \ {Pick(s)}]
      /\ jt[s] = h[Pick(s)] + jt[s \ {Pick(s)}]
  <2>1. Rule(g, it, s) /\ Rule(h, jt, s)
    BY <1>4, <1>5, TableAt
  <2> QED
    BY <2>1 DEF Rule
<1>8. g[Pick(s)] = h[Pick(s)]
  BY <1>5
<1> QED
  BY <1>3, <1>6, <1>7, <1>8

LEMMA TableExists ==
  ASSUME NEW g, NEW S, IsFiniteSet(S)
  PROVE  \E it : Table(g, S, it)
<1> DEFINE Bad == {T \in SUBSET S : ~ \E it : Table(g, T, it)}
<1>1. SUFFICES ASSUME Bad # {} PROVE FALSE
  <2>1. ASSUME Bad = {} PROVE \E it : Table(g, S, it)
    BY <2>1
  <2> QED
    BY <2>1
<1>2. PICK T \in Bad : \A U \in Bad : U \subseteq T => U = T
  <2>1. Bad \in SUBSET SUBSET S
    OBVIOUS
  <2> HIDE DEF Bad
  <2> QED
    BY <1>1, <2>1, HasSmallest
<1>3. ASSUME NEW u \in SUBSET T, u # T PROVE Table(g, u, CHOOSE it : Table(g, u, it))
  <2>1. \E it : Table(g, u, it)
    BY <1>2, <1>3
  <2> QED
    BY <2>1
<1>4. ASSUME NEW u \in SUBSET T, u # T
      PROVE  /\ u = {} => Sum(g, u) = 0
             /\ u # {} => Sum(g, u) = g[Pick(u)] + Sum(g, u \ {Pick(u)})
  <2> DEFINE it == CHOOSE jt : Table(g, u, jt)
  <2>1. Table(g, u, it) /\ Sum(g, u) = it[u]
    BY <1>3, <1>4 DEF Sum
  <2> HIDE DEF it
  <2>2. /\ u = {} => it[u] = 0
        /\ u # {} => it[u] = g[Pick(u)] + it[u \ {Pick(u)}]
    <3>1. u \in SUBSET u
      OBVIOUS
    <3>2. it[{}] = 0 /\ (u # {} => Rule(g, it, u))
      BY <2>1, <3>1, TableAt
    <3> QED
      BY <3>2 DEF Rule
  <2>3. ASSUME u # {} PROVE it[u \ {Pick(u)}] = Sum(g, u \ {Pick(u)})
    <3> DEFINE v == u \ {Pick(u)}
    <3>1. v \in SUBSET T /\ v # T /\ v \in SUBSET u
      BY <2>3, PickIn
    <3> DEFINE jt == CHOOSE kt : Table(g, v, kt)
    <3>2. Table(g, v, jt) /\ Sum(g, v) = jt[v]
      BY <1>3, <3>1 DEF Sum
    <3>3. IsFiniteSet(u)
      BY FS_Subset
    <3> HIDE DEF v, jt
    <3>4. \A s \in SUBSET v : it[s] = jt[s]
      BY <2>1, <3>1, <3>2, <3>3, TableUnique
    <3>5. v \in SUBSET v
      OBVIOUS
    <3> QED
      BY <3>2, <3>4, <3>5 DEF v
  <2> QED
    BY <2>1, <2>2, <2>3
<1> DEFINE new == [s \in SUBSET T |-> IF s = {} THEN 0 ELSE g[Pick(s)] + Sum(g, s \ {Pick(s)})]
<1>5. ASSUME NEW s \in SUBSET T, s # {}
      PROVE  new[s \ {Pick(s)}] = Sum(g, s \ {Pick(s)})
  <2> DEFINE u == s \ {Pick(s)}
  <2>1. u \in SUBSET T /\ u # T
    BY <1>5, PickIn
  <2>2. new[u] = IF u = {} THEN 0 ELSE g[Pick(u)] + Sum(g, u \ {Pick(u)})
    BY <2>1
  <2> HIDE DEF new, u
  <2>3. new[u] = Sum(g, u)
    BY <1>4, <2>1, <2>2
  <2> QED
    BY <2>3 DEF u
<1>6. Table(g, T, new)
  <2>1. new = [s \in SUBSET T |-> IF s = {} THEN 0 ELSE g[Pick(s)] + new[s \ {Pick(s)}]]
    <3> DEFINE F == [s \in SUBSET T |-> IF s = {} THEN 0 ELSE g[Pick(s)] + new[s \ {Pick(s)}]]
    <3>1. ASSUME NEW s \in SUBSET T PROVE new[s] = F[s]
      <4>1. new[s] = IF s = {} THEN 0 ELSE g[Pick(s)] + Sum(g, s \ {Pick(s)})
        OBVIOUS
      <4>2. F[s] = IF s = {} THEN 0 ELSE g[Pick(s)] + new[s \ {Pick(s)}]
        OBVIOUS
      <4> HIDE DEF new, F
      <4> QED
        BY <1>5, <4>1, <4>2
    <3>2. DOMAIN new = SUBSET T /\ DOMAIN F = SUBSET T
      OBVIOUS
    <3>3. new = [s \in SUBSET T |-> new[s]] /\ F = [s \in SUBSET T |-> F[s]]
      OBVIOUS
    <3> QED
      BY <3>1
  <2> HIDE DEF new
  <2> QED
    BY <2>1 DEF Table
<1> QED
  BY <1>2, <1>6

\* The sum of nothing is 0; a sum is its first term and the sum of the rest.
LEMMA SumFirst ==
  ASSUME NEW g, NEW S, IsFiniteSet(S)
  PROVE  /\ S = {} => Sum(g, S) = 0
         /\ S # {} => Sum(g, S) = g[Pick(S)] + Sum(g, S \ {Pick(S)})
<1> DEFINE it == CHOOSE jt : Table(g, S, jt)
<1>1. Table(g, S, it)
  BY TableExists
<1>2. Sum(g, S) = it[S]
  BY DEF Sum
<1> HIDE DEF it
<1>3. /\ S = {} => it[S] = 0
      /\ S # {} => it[S] = g[Pick(S)] + it[S \ {Pick(S)}]
  <2>1. S \in SUBSET S
    OBVIOUS
  <2>2. it[{}] = 0 /\ (S # {} => Rule(g, it, S))
    BY <1>1, <2>1, TableAt
  <2> QED
    BY <2>2 DEF Rule
<1> DEFINE v == S \ {Pick(S)}
<1> DEFINE jt == CHOOSE kt : Table(g, v, kt)
<1>4. v \in SUBSET S /\ IsFiniteSet(v) /\ v \in SUBSET v
  BY FS_Subset
<1>5. Table(g, v, jt) /\ Sum(g, v) = jt[v]
  <2> HIDE DEF v
  <2> QED
    BY <1>4, TableExists DEF Sum
<1>6. it[v] = jt[v]
  <2> HIDE DEF v, jt
  <2> QED
    BY <1>1, <1>4, <1>5, TableUnique
<1> QED
  BY <1>2, <1>3, <1>5, <1>6

LEMMA SumNat ==
  ASSUME NEW g, NEW S, IsFiniteSet(S), \A x \in S : g[x] \in Nat
  PROVE  Sum(g, S) \in Nat
<1> DEFINE Bad == {T \in SUBSET S : Sum(g, T) \notin Nat}
<1>1. SUFFICES ASSUME Bad # {} PROVE FALSE
  OBVIOUS
<1>2. PICK T \in Bad : \A U \in Bad : U \subseteq T => U = T
  <2>1. Bad \in SUBSET SUBSET S
    OBVIOUS
  <2> HIDE DEF Bad
  <2> QED
    BY <1>1, <2>1, HasSmallest
<1>3. IsFiniteSet(T)
  BY FS_Subset
<1>4. /\ T = {} => Sum(g, T) = 0
      /\ T # {} => Sum(g, T) = g[Pick(T)] + Sum(g, T \ {Pick(T)})
  BY <1>3, SumFirst
<1>5. T # {}
  BY <1>2, <1>4
<1>6. Pick(T) \in T
  BY <1>5, PickIn
<1>7. Sum(g, T \ {Pick(T)}) \in Nat
  BY <1>2, <1>6
<1> QED
  BY <1>2, <1>4, <1>5, <1>6, <1>7

\* Any term may come first.
LEMMA SumSplit ==
  ASSUME NEW g, NEW S, IsFiniteSet(S), \A x \in S : g[x] \in Nat, NEW y \in S
  PROVE  Sum(g, S) = g[y] + Sum(g, S \ {y})
<1> DEFINE Bad == {T \in SUBSET S : \E x \in T : Sum(g, T) # g[x] + Sum(g, T \ {x})}
<1>1. SUFFICES ASSUME Bad # {} PROVE FALSE
  <2>1. ASSUME Bad = {} PROVE Sum(g, S) = g[y] + Sum(g, S \ {y})
    BY <2>1
  <2> QED
    BY <2>1
<1>2. PICK T \in Bad : \A U \in Bad : U \subseteq T => U = T
  <2>1. Bad \in SUBSET SUBSET S
    OBVIOUS
  <2> HIDE DEF Bad
  <2> QED
    BY <1>1, <2>1, HasSmallest
<1>3. PICK x \in T : Sum(g, T) # g[x] + Sum(g, T \ {x})
  BY <1>2
<1>4. PICK p : p = Pick(T)
  OBVIOUS
<1>5. p \in T
  BY <1>3, <1>4, PickIn
<1>6. IsFiniteSet(T)
  BY FS_Subset
<1>7. Sum(g, T) = g[p] + Sum(g, T \ {p})
  BY <1>3, <1>4, <1>6, SumFirst
<1>8. x # p
  BY <1>3, <1>7
<1> DEFINE W == (T \ {p}) \ {x}
<1>9. Sum(g, T \ {p}) = g[x] + Sum(g, W)
  <2>1. T \ {p} \notin Bad
    BY <1>2, <1>5
  <2> QED
    BY <1>3, <1>8, <2>1
<1>10. Sum(g, T \ {x}) = g[p] + Sum(g, W)
  <2>1. T \ {x} \notin Bad
    BY <1>2, <1>3
  <2>2. (T \ {x}) \ {p} = W
    OBVIOUS
  <2> QED
    BY <1>5, <1>8, <2>1, <2>2
<1>11. g[p] \in Nat /\ g[x] \in Nat /\ Sum(g, W) \in Nat
  <2>1. W \in SUBSET S /\ IsFiniteSet(W)
    BY FS_Subset
  <2> QED
    BY <1>3, <1>5, <2>1, SumNat
<1> HIDE DEF W
<1> QED
  BY <1>3, <1>7, <1>9, <1>10, <1>11

-----------------------------------------------------------------------------
(* Tiers in the order of their ceilings.                                   *)

\* The tiers up to one, in ceiling order.
UpTo(tiers, i) == {j \in DOMAIN tiers : j = i \/ Before(tiers, j, i)}

LEMMA BeforeOrders ==
  ASSUME NEW tiers \in Seq(Tiers), NEW i \in DOMAIN tiers, NEW j \in DOMAIN tiers
  PROVE  /\ ~Before(tiers, i, i)
         /\ i # j => Before(tiers, i, j) \/ Before(tiers, j, i)
         /\ Before(tiers, i, j) => ~Before(tiers, j, i)
         /\ \A k \in DOMAIN tiers :
              Before(tiers, i, j) /\ Before(tiers, j, k) => Before(tiers, i, k)
<1>1. \A k \in DOMAIN tiers : k \in Int /\ tiers[k].upTo \in Int
  <2>1. \A k \in DOMAIN tiers : k \in Int /\ tiers[k] \in Tiers
    OBVIOUS
  <2>2. \A tier \in Tiers : tier.upTo \in Int
    BY DEF Tiers
  <2> QED
    BY <2>1, <2>2
<1> QED
  BY <1>1 DEF Before

LEMMA UpToFinite ==
  ASSUME NEW tiers \in Seq(Tiers), NEW i \in DOMAIN tiers
  PROVE  /\ IsFiniteSet(UpTo(tiers, i)) /\ UpTo(tiers, i) \subseteq 1 .. Len(tiers)
         /\ Rank(tiers, i) = Cardinality(UpTo(tiers, i))
         /\ Rank(tiers, i) \in 1 .. Len(tiers)
<1>1. DOMAIN tiers = 1 .. Len(tiers) /\ Len(tiers) \in Nat
  OBVIOUS
<1>2. IsFiniteSet(1 .. Len(tiers)) /\ Cardinality(1 .. Len(tiers)) = Len(tiers)
  <2>1. \A n \in Nat : IsFiniteSet(1 .. n) /\ Cardinality(1 .. n) = n
    BY FS_Interval
  <2> QED
    BY <1>1, <2>1
<1>3. UpTo(tiers, i) \subseteq 1 .. Len(tiers) /\ i \in UpTo(tiers, i)
  BY <1>1 DEF UpTo
<1>4. IsFiniteSet(UpTo(tiers, i)) /\ Cardinality(UpTo(tiers, i)) <= Len(tiers)
  BY <1>2, <1>3, FS_Subset
<1>5. Cardinality(UpTo(tiers, i)) \in Nat /\ Cardinality(UpTo(tiers, i)) # 0
  BY <1>3, <1>4, FS_CardinalityType, FS_EmptySet
<1>6. Rank(tiers, i) = Cardinality(UpTo(tiers, i))
  BY DEF Rank, UpTo
<1> QED
  BY <1>1, <1>3, <1>4, <1>5, <1>6

\* A tier's rank is above that of the tiers before it.
LEMMA RankGrows ==
  ASSUME NEW tiers \in Seq(Tiers), NEW i \in DOMAIN tiers, NEW j \in DOMAIN tiers,
         Before(tiers, i, j)
  PROVE  Rank(tiers, i) < Rank(tiers, j)
<1>1. UpTo(tiers, i) \subseteq UpTo(tiers, j) /\ j \in UpTo(tiers, j) /\ j \notin UpTo(tiers, i)
  BY BeforeOrders DEF UpTo
<1>2. Cardinality(UpTo(tiers, i)) < Cardinality(UpTo(tiers, j))
  BY <1>1, UpToFinite, FS_Subset, FS_CardinalityType
<1> QED
  BY <1>2, UpToFinite

Place(tiers, n) == CHOOSE i \in DOMAIN tiers : Rank(tiers, i) = n

\* Every rank is taken, by one tier: ByCeiling is a permutation of the tiers.
LEMMA PlaceIs ==
  ASSUME NEW tiers \in Seq(Tiers), NEW n \in DOMAIN tiers
  PROVE  /\ Place(tiers, n) \in DOMAIN tiers /\ Rank(tiers, Place(tiers, n)) = n
         /\ ByCeiling(tiers)[n] = tiers[Place(tiers, n)]
<1> DEFINE D == 1 .. Len(tiers)
           rank == [i \in D |-> Rank(tiers, i)]
           Taken == {rank[i] : i \in D}
<1>1. DOMAIN tiers = D /\ IsFiniteSet(D)
  BY FS_Interval
<1>2. \A i \in D : rank[i] \in D
  BY <1>1, UpToFinite
<1>3. \A i, j \in D : rank[i] = rank[j] => i = j
  <2> SUFFICES ASSUME NEW i \in D, NEW j \in D, i # j PROVE rank[i] # rank[j]
    OBVIOUS
  <2>1. Before(tiers, i, j) \/ Before(tiers, j, i)
    BY <1>1, BeforeOrders
  <2>2. Rank(tiers, i) < Rank(tiers, j) \/ Rank(tiers, j) < Rank(tiers, i)
    BY <1>1, <2>1, RankGrows
  <2>3. Rank(tiers, i) \in Int /\ Rank(tiers, j) \in Int
    BY <1>1, UpToFinite
  <2> QED
    BY <2>2, <2>3
<1>4. rank \in Bijection(D, Taken)
  BY <1>3 DEF Bijection, Injection, Surjection, IsInjective
<1>5. IsFiniteSet(Taken) /\ Cardinality(Taken) = Cardinality(D)
  <2>1. ExistsBijection(D, Taken)
    BY <1>4 DEF ExistsBijection
  <2> HIDE DEF Taken, D, rank
  <2> QED
    BY <1>1, <2>1, FS_Bijection
<1>6. Taken = D
  <2>1. Taken \subseteq D
    BY <1>2
  <2> HIDE DEF Taken, D, rank
  <2> QED
    BY <1>1, <1>5, <2>1, FS_Subset, FS_CardinalityType
<1>7. \E i \in DOMAIN tiers : Rank(tiers, i) = n
  <2>1. n \in Taken
    BY <1>1, <1>6
  <2> QED
    BY <1>1, <2>1
<1>8. ByCeiling(tiers)[n] = tiers[Place(tiers, n)]
  BY DEF ByCeiling, Place
<1> QED
  BY <1>7, <1>8 DEF Place

LEMMA PlaceOfRank ==
  ASSUME NEW tiers \in Seq(Tiers), NEW i \in DOMAIN tiers
  PROVE  Rank(tiers, i) \in DOMAIN tiers /\ Place(tiers, Rank(tiers, i)) = i
<1>1. Rank(tiers, i) \in DOMAIN tiers
  BY UpToFinite
<1> DEFINE j == Place(tiers, Rank(tiers, i))
<1>2. j \in DOMAIN tiers /\ Rank(tiers, j) = Rank(tiers, i)
  BY <1>1, PlaceIs
<1>3. Rank(tiers, i) \in Int
  BY UpToFinite
<1> HIDE DEF j
<1>4. i = j
  BY <1>2, <1>3, RankGrows, BeforeOrders
<1> QED
  BY <1>1, <1>4 DEF j

\* ... which puts lower ceilings first, and keeps the order of equal ones.
LEMMA PlacesInOrder ==
  ASSUME NEW tiers \in Seq(Tiers), NEW m \in DOMAIN tiers, NEW n \in DOMAIN tiers
  PROVE  m < n <=> Before(tiers, Place(tiers, m), Place(tiers, n))
<1> DEFINE i == Place(tiers, m)
           j == Place(tiers, n)
<1>1. i \in DOMAIN tiers /\ j \in DOMAIN tiers /\ Rank(tiers, i) = m /\ Rank(tiers, j) = n
  BY PlaceIs
<1>2. m \in Int /\ n \in Int
  OBVIOUS
<1> HIDE DEF i, j
<1> SUFFICES m < n <=> Before(tiers, i, j)
  BY DEF i, j
<1>3. Before(tiers, i, j) => m < n
  BY <1>1, RankGrows
<1>4. ASSUME m < n PROVE Before(tiers, i, j)
  <2>1. i # j
    BY <1>1, <1>2, <1>4
  <2>2. Before(tiers, j, i) => n < m
    BY <1>1, RankGrows
  <2> QED
    BY <1>1, <1>2, <1>4, <2>1, <2>2, BeforeOrders
<1> QED
  BY <1>3, <1>4

-----------------------------------------------------------------------------
(* The loop over the tiers.                                                *)

LoopStart(quantity) == [total |-> 0, remaining |-> quantity, prevUpTo |-> 0]

\* The loop's variables after each pass.
Passes(tiers, quantity, k, after) ==
  after = [n \in 0 .. k |-> IF n = 0 THEN LoopStart(quantity)
                            ELSE TakeTier(after[n - 1], ByCeiling(tiers)[n])]

LEMMA PassesAt ==
  ASSUME NEW tiers, NEW quantity, NEW k \in Nat, NEW after,
         Passes(tiers, quantity, k, after)
  PROVE  /\ after[0] = LoopStart(quantity)
         /\ \A n \in 1 .. k : after[n] = TakeTier(after[n - 1], ByCeiling(tiers)[n])
<1> DEFINE F == [n \in 0 .. k |-> IF n = 0 THEN LoopStart(quantity)
                                 ELSE TakeTier(after[n - 1], ByCeiling(tiers)[n])]
<1>1. after = F
  BY DEF Passes
<1>2. F[0] = LoopStart(quantity)
  OBVIOUS
<1>3. ASSUME NEW n \in 1 .. k PROVE F[n] = TakeTier(after[n - 1], ByCeiling(tiers)[n])
  OBVIOUS
<1> HIDE DEF F
<1> QED
  BY <1>1, <1>2, <1>3

LEMMA PassesExist ==
  ASSUME NEW tiers, NEW quantity, NEW k \in Nat
  PROVE  \E after : Passes(tiers, quantity, k, after)
<1> DEFINE Bad == {n \in Nat : ~ \E after : Passes(tiers, quantity, n, after)}
<1>1. SUFFICES ASSUME Bad # {} PROVE FALSE
  <2>1. ASSUME Bad = {} PROVE \E after : Passes(tiers, quantity, k, after)
    BY <2>1
  <2> QED
    BY <2>1
<1>2. PICK n \in Bad : \A m \in Bad : n <= m
  <2>1. Bad \in SUBSET Nat
    OBVIOUS
  <2> HIDE DEF Bad
  <2> QED
    BY <1>1, <2>1, HasLeast
<1>3. n # 0
  <2> SUFFICES ASSUME n = 0 PROVE FALSE
    OBVIOUS
  <2> DEFINE zero == [m \in 0 .. 0 |-> LoopStart(quantity)]
  <2>1. zero = [m \in 0 .. 0 |-> IF m = 0 THEN LoopStart(quantity)
                                 ELSE TakeTier(zero[m - 1], ByCeiling(tiers)[m])]
    OBVIOUS
  <2> HIDE DEF zero
  <2>2. Passes(tiers, quantity, 0, zero)
    BY <2>1 DEF Passes
  <2> QED
    BY <1>2, <2>2
<1>4. n - 1 \in Nat /\ n \in Nat
  BY <1>3
<1>5. PICK it : Passes(tiers, quantity, n - 1, it)
  <2>1. ~(n <= n - 1)
    BY <1>4
  <2> QED
    BY <1>2, <1>4, <2>1
<1> DEFINE last == TakeTier(it[n - 1], ByCeiling(tiers)[n])
           new == [m \in 0 .. n |-> IF m = n THEN last ELSE it[m]]
<1>6. ASSUME NEW m \in 0 .. n
      PROVE  new[m] = IF m = 0 THEN LoopStart(quantity)
                      ELSE TakeTier(new[m - 1], ByCeiling(tiers)[m])
  <2>1. /\ it[0] = LoopStart(quantity)
        /\ \A p \in 1 .. n - 1 : it[p] = TakeTier(it[p - 1], ByCeiling(tiers)[p])
    BY <1>4, <1>5, PassesAt
  <2>2. CASE m = 0
    BY <1>3, <2>1, <2>2
  <2>3. CASE m # 0
    <3>1. m - 1 \in 0 .. n /\ m - 1 # n
      BY <1>4, <2>3
    <3>2. new[m - 1] = it[m - 1]
      BY <3>1
    <3>3. CASE m = n
      <4>1. new[m] = last
        BY <3>3
      <4> HIDE DEF new
      <4> QED
        BY <2>3, <3>2, <3>3, <4>1
    <3>4. CASE m # n
      <4>1. m \in 1 .. n - 1
        BY <1>4, <2>3, <3>4
      <4>2. new[m] = it[m]
        BY <3>4
      <4> HIDE DEF new
      <4> QED
        BY <2>1, <2>3, <3>2, <4>1, <4>2
    <3> QED
      BY <3>3, <3>4
  <2> QED
    BY <2>2, <2>3
<1>7. Passes(tiers, quantity, n, new)
  <2> DEFINE F == [m \in 0 .. n |-> IF m = 0 THEN LoopStart(quantity)
                                   ELSE TakeTier(new[m - 1], ByCeiling(tiers)[m])]
  <2>1. \A m \in 0 .. n : new[m] = F[m]
    <3> SUFFICES ASSUME NEW m \in 0 .. n PROVE new[m] = F[m]
      OBVIOUS
    <3>1. F[m] = IF m = 0 THEN LoopStart(quantity) ELSE TakeTier(new[m - 1], ByCeiling(tiers)[m])
      OBVIOUS
    <3> HIDE DEF F, new
    <3> QED
      BY <1>6, <3>1
  <2>2. new = [m \in 0 .. n |-> new[m]] /\ F = [m \in 0 .. n |-> F[m]]
    OBVIOUS
  <2>3. new = F
    <3> HIDE DEF F, new
    <3> QED
      BY <2>1, <2>2
  <2> HIDE DEF new
  <2> QED
    BY <2>3 DEF Passes
<1> QED
  BY <1>2, <1>7

-----------------------------------------------------------------------------
(* What the loop adds up to.                                               *)

\* The n-th lowest ceiling, and the units of a quantity that are below it.
Ceiling(tiers, n) == IF n = 0 THEN 0 ELSE ByCeiling(tiers)[n].upTo
Covered(tiers, quantity, n) ==
  IF quantity <= Ceiling(tiers, n) THEN quantity ELSE Ceiling(tiers, n)

LEMMA TierTypes ==
  ASSUME NEW tiers \in Seq(Tiers), NEW i \in DOMAIN tiers
  PROVE  /\ tiers[i].upTo \in Nat \ {0} /\ tiers[i].unit \in Nat /\ Flat(tiers[i]) \in Nat
         /\ tiers[i].flat # Absent => tiers[i].flat \in Nat
<1>1. tiers[i] \in Tiers
  OBVIOUS
<1> QED
  BY <1>1 DEF Tiers, Flat

LEMMA CeilingsGrow ==
  ASSUME NEW tiers \in Seq(Tiers), NEW n \in 1 .. Len(tiers)
  PROVE  /\ n \in DOMAIN tiers /\ n - 1 \in 0 .. Len(tiers)
         /\ Ceiling(tiers, n) = tiers[Place(tiers, n)].upTo
         /\ Ceiling(tiers, n) \in Nat \ {0} /\ Ceiling(tiers, n - 1) \in Nat
         /\ Ceiling(tiers, n - 1) <= Ceiling(tiers, n)
<1>1. n \in DOMAIN tiers /\ n # 0
  OBVIOUS
<1>2. /\ Ceiling(tiers, n) = tiers[Place(tiers, n)].upTo
      /\ Ceiling(tiers, n) \in Nat \ {0}
  BY <1>1, PlaceIs, TierTypes DEF Ceiling
<1>3. CASE n = 1
  BY <1>1, <1>2, <1>3 DEF Ceiling
<1>4. CASE n # 1
  <2>1. n - 1 \in DOMAIN tiers /\ n - 1 # 0 /\ n - 1 < n
    BY <1>4
  <2>2. /\ Ceiling(tiers, n - 1) = tiers[Place(tiers, n - 1)].upTo
        /\ Ceiling(tiers, n - 1) \in Nat \ {0}
    BY <2>1, PlaceIs, TierTypes DEF Ceiling
  <2>3. Before(tiers, Place(tiers, n - 1), Place(tiers, n))
    BY <1>1, <2>1, PlacesInOrder
  <2>4. Ceiling(tiers, n - 1) <= Ceiling(tiers, n)
    BY <1>2, <2>2, <2>3 DEF Before
  <2> QED
    BY <1>1, <1>2, <2>1, <2>2, <2>4
<1> QED
  BY <1>3, <1>4

LEMMA CeilingsOrdered ==
  ASSUME NEW tiers \in Seq(Tiers), NEW m \in 1 .. Len(tiers), NEW n \in 1 .. Len(tiers), m <= n
  PROVE  Ceiling(tiers, m) <= Ceiling(tiers, n)
<1>1. Ceiling(tiers, m) \in Int /\ Ceiling(tiers, n) \in Int
  BY CeilingsGrow
<1>2. CASE m = n
  BY <1>1, <1>2
<1>3. CASE m < n
  <2>1. Before(tiers, Place(tiers, m), Place(tiers, n))
    BY <1>3, PlacesInOrder
  <2> QED
    BY <1>1, <2>1, CeilingsGrow DEF Before
<1> QED
  BY <1>2, <1>3

\* A tier covers what is below its ceiling and not below the ceiling before it.
LEMMA UnitsAre ==
  ASSUME NEW tiers \in Seq(Tiers), NEW n \in 1 .. Len(tiers), NEW quantity \in Nat
  PROVE  UnitsOf(tiers, Place(tiers, n), quantity)
           = Ceiling(tiers, n - 1) + 1 .. Covered(tiers, quantity, n)
<1> DEFINE i == Place(tiers, n)
<1>1. i \in DOMAIN tiers /\ Rank(tiers, i) = n
  BY PlaceIs
<1>2. /\ Ceiling(tiers, n) = tiers[i].upTo
      /\ Ceiling(tiers, n) \in Nat \ {0} /\ Ceiling(tiers, n - 1) \in Nat
  BY CeilingsGrow
<1> HIDE DEF i
<1> SUFFICES UnitsOf(tiers, i, quantity)
               = Ceiling(tiers, n - 1) + 1 .. Covered(tiers, quantity, n)
  BY DEF i
<1>3. ASSUME NEW u \in Nat, Ceiling(tiers, n - 1) < u, NEW j \in DOMAIN tiers, Before(tiers, j, i)
      PROVE  tiers[j].upTo < u
  <2> DEFINE m == Rank(tiers, j)
  <2>1. m \in 1 .. Len(tiers) /\ Place(tiers, m) = j
    BY UpToFinite, PlaceOfRank
  <2>2. m < n
    BY <1>1, <1>3, RankGrows
  <2>3. tiers[j].upTo = Ceiling(tiers, m)
    BY <2>1, CeilingsGrow
  <2> HIDE DEF m
  <2>4. m <= n - 1 /\ n - 1 \in 1 .. Len(tiers)
    BY <2>1, <2>2
  <2>5. Ceiling(tiers, m) <= Ceiling(tiers, n - 1) /\ Ceiling(tiers, m) \in Int
    BY <2>1, <2>4, CeilingsOrdered, CeilingsGrow
  <2> QED
    BY <1>2, <1>3, <2>3, <2>5
<1>4. ASSUME NEW u \in Nat \ {0}, \A j \in DOMAIN tiers : Before(tiers, j, i) => tiers[j].upTo < u
      PROVE  Ceiling(tiers, n - 1) < u
  <2>1. CASE n = 1
    BY <2>1 DEF Ceiling
  <2>2. CASE n # 1
    <3>1. n - 1 \in 1 .. Len(tiers) /\ n - 1 < n
      BY <2>2
    <3>2. Place(tiers, n - 1) \in DOMAIN tiers /\ Before(tiers, Place(tiers, n - 1), i)
      BY <3>1, PlaceIs, PlacesInOrder DEF i
    <3>3. Ceiling(tiers, n - 1) = tiers[Place(tiers, n - 1)].upTo
      BY <3>1, CeilingsGrow
    <3> QED
      BY <1>4, <3>2, <3>3
  <2> QED
    BY <2>1, <2>2
<1> DEFINE L == UnitsOf(tiers, i, quantity)
           R == Ceiling(tiers, n - 1) + 1 .. Covered(tiers, quantity, n)
<1>5. ASSUME NEW u \in L PROVE u \in R
  <2>1. u \in 1 .. quantity /\ u <= tiers[i].upTo
    BY DEF UnitsOf
  <2>2. Ceiling(tiers, n - 1) < u
    BY <1>4, <2>1 DEF UnitsOf
  <2> QED
    BY <1>2, <2>1, <2>2 DEF Covered
<1>6. ASSUME NEW u \in R PROVE u \in L
  <2>1. u \in Nat /\ Ceiling(tiers, n - 1) < u /\ u <= quantity /\ u <= tiers[i].upTo /\ u >= 1
    BY <1>2 DEF Covered
  <2>2. \A j \in DOMAIN tiers : Before(tiers, j, i) => tiers[j].upTo < u
    BY <1>3, <2>1
  <2> QED
    BY <2>1, <2>2 DEF UnitsOf
<1> QED
  BY <1>5, <1>6

LEMMA CoveredTypes ==
  ASSUME NEW tiers \in Seq(Tiers), NEW n \in 1 .. Len(tiers), NEW quantity \in Nat
  PROVE  /\ Covered(tiers, quantity, n) \in Nat /\ Covered(tiers, quantity, n - 1) \in Nat
         /\ Covered(tiers, quantity, n - 1) <= Covered(tiers, quantity, n)
         /\ Covered(tiers, quantity, n) <= quantity
         /\ Cardinality(UnitsOf(tiers, Place(tiers, n), quantity))
              = Covered(tiers, quantity, n) - Covered(tiers, quantity, n - 1)
<1> DEFINE c == Ceiling(tiers, n)
           b == Ceiling(tiers, n - 1)
<1>1. c \in Nat \ {0} /\ b \in Nat /\ b <= c
  BY CeilingsGrow
<1>2. /\ Covered(tiers, quantity, n) = IF quantity <= c THEN quantity ELSE c
      /\ Covered(tiers, quantity, n - 1) = IF quantity <= b THEN quantity ELSE b
  BY DEF Covered
<1>3. UnitsOf(tiers, Place(tiers, n), quantity) = b + 1 .. Covered(tiers, quantity, n)
  BY UnitsAre
<1> HIDE DEF c, b
<1>4. \A x, y \in Nat : Cardinality(x + 1 .. y) = IF x + 1 > y THEN 0 ELSE y - (x + 1) + 1
  <2>1. \A x, y \in Int : Cardinality(x .. y) = IF x > y THEN 0 ELSE y - x + 1
    BY FS_Interval
  <2> QED
    BY <2>1
<1>5. Covered(tiers, quantity, n) \in Nat
  BY <1>1, <1>2
<1>6. Cardinality(UnitsOf(tiers, Place(tiers, n), quantity))
        = IF b + 1 > Covered(tiers, quantity, n) THEN 0
          ELSE Covered(tiers, quantity, n) - (b + 1) + 1
  BY <1>1, <1>3, <1>4, <1>5
<1> QED
  BY <1>1, <1>2, <1>6

LEMMA RoundsToNat ==
  ASSUME NEW n \in Nat
  PROVE  Round(n, RateScale) \in Nat
<1>1. 2 * n + 2 \in Nat
  OBVIOUS
<1>2. \A m \in Nat : m \div 4 \in Nat
  OBVIOUS
<1> QED
  BY <1>1, <1>2 DEF Round, RateScale

LEMMA RatedIsNat ==
  ASSUME NEW unit \in Nat, NEW units \in Nat
  PROVE  Round(unit * units, RateScale) \in Nat
<1>1. unit * units \in Nat
  OBVIOUS
<1> QED
  BY <1>1, RoundsToNat

Shares(tiers, quantity) == [i \in DOMAIN tiers |-> TierShare(tiers, i, quantity)]

LEMMA SharesAre ==
  ASSUME NEW tiers \in Seq(Tiers), NEW n \in 1 .. Len(tiers), NEW quantity \in Nat
  PROVE  LET units == Covered(tiers, quantity, n) - Covered(tiers, quantity, n - 1)
             tier == ByCeiling(tiers)[n]
         IN  /\ Shares(tiers, quantity)[Place(tiers, n)] =
                  IF units = 0 THEN 0 ELSE Flat(tier) + Round(tier.unit * units, RateScale)
             /\ Shares(tiers, quantity)[Place(tiers, n)] \in Nat
<1> DEFINE units == Covered(tiers, quantity, n) - Covered(tiers, quantity, n - 1)
           tier == ByCeiling(tiers)[n]
           i == Place(tiers, n)
<1>1. i \in DOMAIN tiers /\ tier = tiers[i]
  BY PlaceIs
<1>2. units \in Nat /\ Cardinality(UnitsOf(tiers, i, quantity)) = units
  <2>1. /\ Covered(tiers, quantity, n) \in Nat /\ Covered(tiers, quantity, n - 1) \in Nat
        /\ Covered(tiers, quantity, n - 1) <= Covered(tiers, quantity, n)
    BY CoveredTypes
  <2>2. Cardinality(UnitsOf(tiers, i, quantity)) = units
    BY CoveredTypes
  <2> QED
    BY <2>1, <2>2
<1>3. tier.unit \in Nat /\ Flat(tier) \in Nat
  BY <1>1, TierTypes
<1> HIDE DEF units, tier, i
<1>4. Shares(tiers, quantity)[i] =
        IF units = 0 THEN 0 ELSE Flat(tier) + Round(tier.unit * units, RateScale)
  BY <1>1, <1>2 DEF Shares, TierShare
<1>5. Round(tier.unit * units, RateScale) \in Nat
  BY <1>2, <1>3, RatedIsNat
<1>6. Shares(tiers, quantity)[i] \in Nat
  BY <1>3, <1>4, <1>5
<1> QED
  BY <1>4, <1>6 DEF units, tier, i

\* The tiers of the first passes.
Seen(tiers, n) == {i \in DOMAIN tiers : Rank(tiers, i) <= n}

\* What the loop has after n passes.
Looped(tiers, quantity, n, after) ==
  /\ after = [total |-> Sum(Shares(tiers, quantity), Seen(tiers, n)),
              remaining |-> quantity - Covered(tiers, quantity, n),
              prevUpTo |-> after.prevUpTo]
  /\ Covered(tiers, quantity, n) < quantity => after.prevUpTo = Ceiling(tiers, n)

LEMMA SharesAreNat ==
  ASSUME NEW tiers \in Seq(Tiers), NEW quantity \in Nat
  PROVE  \A i \in DOMAIN tiers : Shares(tiers, quantity)[i] \in Nat
<1> SUFFICES ASSUME NEW i \in DOMAIN tiers PROVE Shares(tiers, quantity)[i] \in Nat
  OBVIOUS
<1>1. Rank(tiers, i) \in 1 .. Len(tiers) /\ Place(tiers, Rank(tiers, i)) = i
  BY UpToFinite, PlaceOfRank
<1> QED
  BY <1>1, SharesAre

LEMMA SeenFinite ==
  ASSUME NEW tiers \in Seq(Tiers), NEW n
  PROVE  IsFiniteSet(Seen(tiers, n)) /\ Seen(tiers, n) \subseteq DOMAIN tiers
<1>1. Len(tiers) \in Nat /\ DOMAIN tiers = 1 .. Len(tiers)
  OBVIOUS
<1>2. IsFiniteSet(1 .. Len(tiers))
  BY <1>1, FS_Interval
<1> QED
  BY <1>1, <1>2, FS_Subset DEF Seen

\* A pass adds the share of its tier.
LEMMA SeenTotal ==
  ASSUME NEW tiers \in Seq(Tiers), NEW quantity \in Nat, NEW n \in 1 .. Len(tiers)
  PROVE  /\ Sum(Shares(tiers, quantity), Seen(tiers, n - 1)) \in Nat
         /\ Sum(Shares(tiers, quantity), Seen(tiers, n)) =
              Shares(tiers, quantity)[Place(tiers, n)]
                + Sum(Shares(tiers, quantity), Seen(tiers, n - 1))
<1> DEFINE i == Place(tiers, n)
<1>1. i \in DOMAIN tiers /\ Rank(tiers, i) = n /\ n \in Int
  BY PlaceIs
<1>2. Seen(tiers, n) \ {i} = Seen(tiers, n - 1)
  <2>1. \A j \in DOMAIN tiers : Rank(tiers, j) \in Int /\ Place(tiers, Rank(tiers, j)) = j
    BY UpToFinite, PlaceOfRank
  <2>2. \A j \in DOMAIN tiers : j # i => Rank(tiers, j) # n
    BY <2>1
  <2> HIDE DEF i
  <2> QED
    BY <1>1, <2>1, <2>2 DEF Seen
<1>3. i \in Seen(tiers, n)
  BY <1>1 DEF Seen
<1> HIDE DEF i
<1>4. \A j \in Seen(tiers, n) : Shares(tiers, quantity)[j] \in Nat
  BY SharesAreNat DEF Seen
<1>5. Sum(Shares(tiers, quantity), Seen(tiers, n)) =
        Shares(tiers, quantity)[i] + Sum(Shares(tiers, quantity), Seen(tiers, n - 1))
  BY <1>2, <1>3, <1>4, SeenFinite, SumSplit
<1>6. Sum(Shares(tiers, quantity), Seen(tiers, n - 1)) \in Nat
  <2>1. \A j \in Seen(tiers, n - 1) : Shares(tiers, quantity)[j] \in Nat
    BY SharesAreNat DEF Seen
  <2> QED
    BY <2>1, SeenFinite, SumNat
<1> QED
  BY <1>5, <1>6 DEF i

LEMMA LoopBegins ==
  ASSUME NEW tiers \in Seq(Tiers), NEW quantity \in Nat
  PROVE  Looped(tiers, quantity, 0, LoopStart(quantity))
<1>1. Ceiling(tiers, 0) = 0 /\ Covered(tiers, quantity, 0) = 0
  BY DEF Ceiling, Covered
<1>2. Seen(tiers, 0) = {}
  <2>1. \A j \in DOMAIN tiers : Rank(tiers, j) \in 1 .. Len(tiers)
    BY UpToFinite
  <2> QED
    BY <2>1 DEF Seen
<1>3. Sum(Shares(tiers, quantity), Seen(tiers, 0)) = 0
  BY <1>2, FS_EmptySet, SumFirst
<1> QED
  BY <1>1, <1>3 DEF Looped, LoopStart

\* A pass of the loop takes what its tier covers, or nothing if nothing remains or the
\* tier has the ceiling of the one before.
LEMMA LoopGoesOn ==
  ASSUME NEW tiers \in Seq(Tiers), NEW quantity \in Nat, NEW n \in 1 .. Len(tiers),
         NEW before, Looped(tiers, quantity, n - 1, before)
  PROVE  Looped(tiers, quantity, n, TakeTier(before, ByCeiling(tiers)[n]))
<1>1. PICK tier : tier = ByCeiling(tiers)[n]
  OBVIOUS
<1>2. PICK b, c, p, q, sum, new, share :
        /\ b = Ceiling(tiers, n - 1) /\ c = Ceiling(tiers, n)
        /\ p = Covered(tiers, quantity, n - 1) /\ q = Covered(tiers, quantity, n)
        /\ sum = Sum(Shares(tiers, quantity), Seen(tiers, n - 1))
        /\ new = Sum(Shares(tiers, quantity), Seen(tiers, n))
        /\ share = Shares(tiers, quantity)[Place(tiers, n)]
  OBVIOUS
<1>3. b \in Nat /\ c \in Nat \ {0} /\ b <= c /\ tier.upTo = c
  <2>1. n # 0
    OBVIOUS
  <2> QED
    BY <1>1, <1>2, <2>1, CeilingsGrow DEF Ceiling
<1>4. /\ p = IF quantity <= b THEN quantity ELSE b
      /\ q = IF quantity <= c THEN quantity ELSE c
  BY <1>2 DEF Covered
<1>5. /\ q - p = 0 => share = 0
      /\ q - p # 0 => share = Flat(tier) + Round(tier.unit * (q - p), RateScale)
      /\ share \in Nat
  BY <1>1, <1>2, SharesAre
<1>6. sum \in Nat /\ new = share + sum
  BY <1>2, SeenTotal
<1>7. /\ before = [total |-> sum, remaining |-> quantity - p, prevUpTo |-> before.prevUpTo]
      /\ p < quantity => before.prevUpTo = b
  BY <1>2 DEF Looped
<1>8. PICK after : after = TakeTier(before, tier)
  OBVIOUS
<1>9. SUFFICES /\ after = [total |-> new, remaining |-> quantity - q,
                           prevUpTo |-> after.prevUpTo]
               /\ q < quantity => after.prevUpTo = c
  BY <1>1, <1>2, <1>8 DEF Looped
<1>10. /\ before.total = sum /\ before.remaining = quantity - p
  BY <1>7
<1>11. CASE p = quantity
  <2>1. q = p /\ before.remaining <= 0
    BY <1>3, <1>4, <1>10, <1>11
  <2>2. after = before
    BY <1>8, <2>1 DEF TakeTier
  <2>3. new = sum
    BY <1>3, <1>4, <1>5, <1>6, <2>1
  <2> QED
    BY <1>7, <1>11, <2>1, <2>2, <2>3
<1>12. CASE p # quantity
  <2>1. p = b /\ b < quantity /\ before.prevUpTo = b /\ ~(before.remaining <= 0)
    BY <1>3, <1>4, <1>7, <1>10, <1>12
  <2> DEFINE units == Min({before.remaining, tier.upTo - before.prevUpTo})
  <2>2. units = q - p
    <3>1. /\ before.remaining = quantity - p /\ tier.upTo - before.prevUpTo = c - p
          /\ quantity - p \in Int /\ c - p \in Int
      BY <1>3, <1>4, <1>10, <2>1
    <3>2. \A x, y \in Int : Min({x, y}) = IF x <= y THEN x ELSE y
      BY DEF Min
    <3>3. units = IF quantity - p <= c - p THEN quantity - p ELSE c - p
      BY <3>1, <3>2
    <3> HIDE DEF units
    <3> QED
      BY <1>3, <1>4, <2>1, <3>3
  <2>3. CASE q - p = 0
    <3>1. after = [before EXCEPT !.prevUpTo = tier.upTo]
      BY <1>8, <2>1, <2>2, <2>3 DEF TakeTier
    <3>2. after.prevUpTo = c /\ new = sum /\ quantity - q = quantity - p
      <4>1. after.prevUpTo = c
        BY <1>3, <1>7, <3>1
      <4> QED
        BY <1>3, <1>4, <1>5, <1>6, <2>3, <4>1
    <3> QED
      BY <1>3, <1>7, <3>1, <3>2
  <2>4. CASE q - p # 0
    <3>1. q - p > 0
      BY <1>3, <1>4, <2>1, <2>4
    <3>2. after = [total |-> sum + Flat(tier) + Round(tier.unit * (q - p), RateScale),
                   remaining |-> quantity - p - (q - p), prevUpTo |-> c]
      <4>1. ~(units <= 0) /\ units = q - p
        BY <2>2, <3>1, <1>3, <1>4
      <4> HIDE DEF units
      <4>2. after = [total |-> before.total + Flat(tier) + Round(tier.unit * units, RateScale),
                     remaining |-> before.remaining - units, prevUpTo |-> tier.upTo]
        BY <1>8, <2>1, <4>1 DEF TakeTier, units
      <4> QED
        BY <1>3, <1>10, <4>1, <4>2
    <3>3. quantity - p - (q - p) = quantity - q
      BY <1>3, <1>4
    <3>4. sum + Flat(tier) + Round(tier.unit * (q - p), RateScale) = new
      <4>1. n \in DOMAIN tiers
        OBVIOUS
      <4>2. tier.unit \in Nat /\ Flat(tier) \in Nat
        BY <1>1, <4>1, PlaceIs, TierTypes
      <4>3. Round(tier.unit * (q - p), RateScale) \in Nat
        <5>1. q - p \in Nat
          BY <1>3, <1>4, <3>1
        <5> QED
          BY <4>2, <5>1, RatedIsNat
      <4> QED
        BY <1>5, <1>6, <2>4, <4>2, <4>3
    <3> QED
      BY <3>2, <3>3, <3>4
  <2> QED
    BY <2>3, <2>4
<1> QED
  BY <1>11, <1>12

LEMMA GraduatedIs ==
  ASSUME NEW tiers \in Seq(Tiers), NEW quantity \in Nat
  PROVE  /\ Graduated(tiers, quantity) = Sum(Shares(tiers, quantity), DOMAIN tiers)
         /\ Graduated(tiers, quantity) \in Nat
<1> DEFINE N == Len(tiers)
           after == CHOOSE it : Passes(tiers, quantity, N, it)
<1>1. N \in Nat /\ DOMAIN tiers = 1 .. N
  OBVIOUS
<1>2. Graduated(tiers, quantity) = after[N].total
  BY DEF Graduated, Passes, LoopStart
<1>3. Passes(tiers, quantity, N, after)
  BY <1>1, PassesExist
<1> HIDE DEF after
<1> DEFINE Bad == {n \in 0 .. N : ~Looped(tiers, quantity, n, after[n])}
<1>4. Bad = {}
  <2> SUFFICES ASSUME Bad # {} PROVE FALSE
    OBVIOUS
  <2>1. PICK n \in Bad : \A m \in Bad : n <= m
    <3>1. Bad \in SUBSET Nat
      OBVIOUS
    <3> HIDE DEF Bad
    <3> QED
      BY <3>1, HasLeast
  <2>2. n # 0
    <3>1. after[0] = LoopStart(quantity)
      BY <1>1, <1>3, PassesAt
    <3>2. Looped(tiers, quantity, 0, after[0])
      BY <3>1, LoopBegins
    <3> QED
      BY <2>1, <3>2
  <2>3. n \in 1 .. N /\ n - 1 \in 0 .. N /\ ~(n <= n - 1)
    BY <1>1, <2>1, <2>2
  <2>4. Looped(tiers, quantity, n - 1, after[n - 1])
    BY <2>1, <2>3
  <2>5. after[n] = TakeTier(after[n - 1], ByCeiling(tiers)[n])
    BY <1>1, <1>3, <2>3, PassesAt
  <2> QED
    BY <2>1, <2>3, <2>4, <2>5, LoopGoesOn
<1>5. Looped(tiers, quantity, N, after[N])
  BY <1>1, <1>4
<1>6. Seen(tiers, N) = DOMAIN tiers
  BY <1>1, UpToFinite DEF Seen
<1>7. after[N].total = Sum(Shares(tiers, quantity), DOMAIN tiers)
  <2> HIDE DEF N
  <2> QED
    BY <1>5, <1>6 DEF Looped
<1>8. Sum(Shares(tiers, quantity), DOMAIN tiers) \in Nat
  BY <1>1, SharesAreNat, FS_Interval, SumNat
<1> QED
  BY <1>2, <1>7, <1>8

LEMMA SharesSum ==
  ASSUME NEW tiers \in Seq(Tiers), NEW quantity \in Nat
  PROVE  GraduatedReference(tiers, quantity) = Sum(Shares(tiers, quantity), DOMAIN tiers)
<1> DEFINE S == DOMAIN tiers
           g == Shares(tiers, quantity)
           E(it) == [s \in SUBSET S |->
                       IF s = {} THEN 0
                       ELSE TierShare(tiers, CHOOSE x \in s : TRUE, quantity)
                              + it[s \ {CHOOSE x \in s : TRUE}]]
<1>1. GraduatedReference(tiers, quantity) = (CHOOSE it : it = E(it))[S]
  BY DEF GraduatedReference, MapThenSumSet, MapThenFoldSet
<1>2. ASSUME NEW it PROVE Table(g, S, it) <=> it = E(it)
  <2> DEFINE F == [s \in SUBSET S |-> IF s = {} THEN 0 ELSE g[Pick(s)] + it[s \ {Pick(s)}]]
  <2>1. ASSUME NEW s \in SUBSET S PROVE F[s] = E(it)[s]
    <3>1. CASE s = {}
      BY <3>1
    <3>2. CASE s # {}
      <4>1. g[Pick(s)] = TierShare(tiers, Pick(s), quantity)
        BY <3>2, PickIn DEF Shares
      <4>2. F[s] = g[Pick(s)] + it[s \ {Pick(s)}]
        BY <3>2
      <4>3. E(it)[s] = TierShare(tiers, Pick(s), quantity) + it[s \ {Pick(s)}]
        BY <3>2 DEF Pick
      <4> QED
        BY <4>1, <4>2, <4>3
    <3> QED
      BY <3>1, <3>2
  <2>2. F = [s \in SUBSET S |-> F[s]] /\ E(it) = [s \in SUBSET S |-> E(it)[s]]
    OBVIOUS
  <2>3. F = E(it)
    <3> HIDE DEF F, E
    <3> QED
      BY <2>1, <2>2
  <2> HIDE DEF E
  <2> QED
    BY <2>3 DEF Table
<1>3. (CHOOSE it : Table(g, S, it)) = CHOOSE it : it = E(it)
  <2> HIDE DEF E, S, g
  <2> QED
    BY <1>2
<1> HIDE DEF E, S, g
<1> QED
  BY <1>1, <1>3 DEF Sum, S, g

\* The tier whose bucket has a quantity covers its last unit.
LEMMA VolumeIs ==
  ASSUME NEW tiers \in Seq(Tiers), tiers # <<>>, NEW quantity \in Nat \ {0}
  PROVE  /\ Volume(tiers, quantity) = VolumeReference(tiers, quantity)
         /\ Volume(tiers, quantity) \in Nat
<1> DEFINE N == Len(tiers)
           sorted == ByCeiling(tiers)
           covering == {n \in DOMAIN sorted : quantity <= sorted[n].upTo}
           n == IF covering = {} THEN Len(sorted) ELSE Min(covering)
           wide == {i \in DOMAIN tiers : quantity \in UnitsOf(tiers, i, quantity)}
           last == {i \in DOMAIN tiers : \A j \in DOMAIN tiers : ~Before(tiers, i, j)}
           i == CHOOSE j \in (IF wide = {} THEN last ELSE wide) : TRUE
           Cost(tier) == IF tier.flat # Absent THEN tier.flat
                         ELSE Round(tier.unit * quantity, RateScale)
<1>1. N \in Nat \ {0} /\ DOMAIN tiers = 1 .. N /\ DOMAIN sorted = 1 .. N /\ Len(sorted) = N
  <2>1. Len(tiers) \in Nat /\ DOMAIN tiers = 1 .. Len(tiers) /\ Len(tiers) # 0
    OBVIOUS
  <2>2. DOMAIN sorted = 1 .. Len(tiers)
    BY <2>1 DEF ByCeiling
  <2>3. sorted \in Seq(Tiers)
    <3>1. \A m \in 1 .. N : sorted[m] \in Tiers
      BY <2>1, PlaceIs
    <3>2. sorted = [m \in 1 .. N |-> sorted[m]]
      BY <2>1 DEF ByCeiling
    <3> HIDE DEF sorted
    <3> QED
      BY <2>1, <3>1, <3>2
  <2>4. Len(sorted) = Len(tiers)
    <3> HIDE DEF sorted
    <3> QED
      BY <2>1, <2>2, <2>3
  <2> QED
    BY <2>1, <2>2, <2>4
<1>2. Volume(tiers, quantity) = Cost(sorted[n]) /\ VolumeReference(tiers, quantity) = Cost(tiers[i])
  BY DEF Volume, VolumeReference
<1>3. \A m \in 1 .. N : /\ Place(tiers, m) \in DOMAIN tiers
                       /\ sorted[m] = tiers[Place(tiers, m)]
                       /\ sorted[m].upTo = Ceiling(tiers, m)
                       /\ Ceiling(tiers, m) \in Nat
  <2> SUFFICES ASSUME NEW m \in 1 .. N
               PROVE  /\ Place(tiers, m) \in DOMAIN tiers
                      /\ sorted[m] = tiers[Place(tiers, m)]
                      /\ sorted[m].upTo = Ceiling(tiers, m)
                      /\ Ceiling(tiers, m) \in Nat
    OBVIOUS
  <2>1. Place(tiers, m) \in DOMAIN tiers /\ sorted[m] = tiers[Place(tiers, m)]
    BY <1>1, PlaceIs
  <2>2. Ceiling(tiers, m) = tiers[Place(tiers, m)].upTo /\ Ceiling(tiers, m) \in Nat
    BY CeilingsGrow
  <2> QED
    BY <2>1, <2>2
<1>4. ASSUME NEW m \in 1 .. N
      PROVE  Place(tiers, m) \in wide
               <=> Ceiling(tiers, m - 1) < quantity /\ quantity <= Ceiling(tiers, m)
  <2>1. UnitsOf(tiers, Place(tiers, m), quantity)
          = Ceiling(tiers, m - 1) + 1 .. Covered(tiers, quantity, m)
    BY UnitsAre
  <2>2. Ceiling(tiers, m - 1) \in Nat /\ Ceiling(tiers, m) \in Nat
    BY CeilingsGrow
  <2>3. quantity \in UnitsOf(tiers, Place(tiers, m), quantity)
          <=> Ceiling(tiers, m - 1) < quantity /\ quantity <= Ceiling(tiers, m)
    BY <2>1, <2>2 DEF Covered
  <2> QED
    BY <1>3, <2>3
<1>5. ASSUME NEW j \in DOMAIN tiers PROVE Cost(tiers[j]) \in Nat
  BY TierTypes, RatedIsNat
<1>6. CASE covering = {}
  <2>1. wide = {}
    <3> SUFFICES ASSUME NEW j \in wide PROVE FALSE
      OBVIOUS
    <3>1. Rank(tiers, j) \in 1 .. N /\ Place(tiers, Rank(tiers, j)) = j
      BY UpToFinite, PlaceOfRank
    <3>2. quantity <= Ceiling(tiers, Rank(tiers, j))
      BY <1>4, <3>1
    <3>3. Rank(tiers, j) \in covering
      BY <1>1, <1>3, <3>1, <3>2
    <3> QED
      BY <1>6, <3>3
  <2>2. ASSUME NEW j \in DOMAIN tiers
        PROVE  j \in last <=> j = Place(tiers, N)
    <3>1. /\ Rank(tiers, j) \in 1 .. N /\ Place(tiers, Rank(tiers, j)) = j
          /\ N \in DOMAIN tiers /\ Rank(tiers, j) \in DOMAIN tiers
      BY <1>1, UpToFinite, PlaceOfRank
    <3>2. ASSUME j \in last PROVE Rank(tiers, j) = N
      <4>1. ~Before(tiers, j, Place(tiers, N))
        BY <1>3, <3>1, <3>2
      <4>2. ~(Rank(tiers, j) < N)
        BY <3>1, <4>1, PlacesInOrder
      <4> QED
        BY <1>1, <3>1, <4>2
    <3>3. ASSUME j = Place(tiers, N), NEW k \in DOMAIN tiers PROVE ~Before(tiers, j, k)
      <4>1. Rank(tiers, k) \in 1 .. N /\ Rank(tiers, j) = N
        BY <3>1, <3>3, UpToFinite, PlaceIs
      <4>2. ~(Rank(tiers, j) < Rank(tiers, k))
        BY <1>1, <4>1
      <4> QED
        BY <4>2, RankGrows
    <3> QED
      BY <3>1, <3>2, <3>3
  <2>3. last = {Place(tiers, N)}
    <3>1. Place(tiers, N) \in DOMAIN tiers
      BY <1>1, <1>3
    <3> QED
      BY <2>2, <3>1
  <2>4. i = Place(tiers, N)
    BY <2>1, <2>3
  <2>5. n = N
    BY <1>1, <1>6
  <2> QED
    <3> HIDE DEF sorted, n, i, Cost
    <3>1. sorted[n] = tiers[i] /\ i \in DOMAIN tiers
      BY <1>1, <1>3, <2>4, <2>5
    <3> QED
      BY <1>2, <1>5, <3>1
<1>7. CASE covering # {}
  <2>1. covering \in SUBSET (1 .. N)
    BY <1>1
  <2>2. PICK m \in covering : \A k \in covering : m <= k
    <3>1. covering \in SUBSET Nat
      BY <2>1
    <3> HIDE DEF covering
    <3> QED
      BY <1>7, <3>1, HasLeast
  <2>3. n = m
    <3> DEFINE C == covering
    <3>1. C # {} /\ C \in SUBSET Int /\ m \in C /\ \A k \in C : m <= k
      BY <1>7, <2>1, <2>2
    <3>2. Min(C) = m
      <4> HIDE DEF C
      <4>1. Min(C) \in C /\ \A k \in C : Min(C) <= k
        BY <3>1 DEF Min
      <4>2. Min(C) \in Int /\ m \in Int /\ Min(C) <= m /\ m <= Min(C)
        BY <3>1, <4>1
      <4> QED
        BY <4>2
    <3> QED
      BY <1>7, <3>2
  <2>4. m \in 1 .. N /\ quantity <= Ceiling(tiers, m)
    BY <1>3, <2>1
  <2>5. Ceiling(tiers, m - 1) < quantity
    <3>1. CASE m = 1
      BY <3>1 DEF Ceiling
    <3>2. CASE m # 1
      <4>1. m - 1 \in 1 .. N /\ ~(m <= m - 1)
        BY <2>4, <3>2
      <4>2. m - 1 \notin covering
        BY <2>2, <4>1
      <4>3. ~(quantity <= sorted[m - 1].upTo)
        BY <1>1, <4>1, <4>2
      <4> HIDE DEF sorted
      <4> QED
        BY <1>3, <4>1, <4>3
    <3> QED
      BY <3>1, <3>2
  <2>6. ASSUME NEW j \in wide PROVE j = Place(tiers, m)
    <3> DEFINE r == Rank(tiers, j)
    <3>1. r \in 1 .. N /\ Place(tiers, r) = j
      BY UpToFinite, PlaceOfRank
    <3> HIDE DEF r
    <3>2. Ceiling(tiers, r - 1) < quantity /\ quantity <= Ceiling(tiers, r)
      BY <1>4, <3>1
    <3>3. r \in covering
      BY <1>1, <1>3, <3>1, <3>2
    <3>4. m <= r
      BY <2>2, <3>3
    <3>5. m # r => m <= r - 1 /\ r - 1 \in 1 .. N
      BY <2>4, <3>1, <3>4
    <3>6. m # r => Ceiling(tiers, m) <= Ceiling(tiers, r - 1)
      BY <2>4, <3>5, CeilingsOrdered
    <3>7. m # r => Ceiling(tiers, r - 1) \in Nat /\ Ceiling(tiers, m) \in Nat
      BY <1>3, <2>4, <3>5
    <3>8. m = r
      BY <2>4, <3>2, <3>6, <3>7
    <3> QED
      BY <3>1, <3>8
  <2>7. wide = {Place(tiers, m)}
    <3>1. Place(tiers, m) \in wide
      BY <1>4, <2>4, <2>5
    <3> HIDE DEF wide
    <3> QED
      BY <2>6, <3>1
  <2>8. i = Place(tiers, m)
    BY <2>7
  <2> QED
    <3> HIDE DEF sorted, n, i, Cost
    <3>1. sorted[n] = tiers[i] /\ i \in DOMAIN tiers
      BY <1>1, <1>3, <2>3, <2>4, <2>8
    <3> QED
      BY <1>2, <1>5, <3>1
<1> QED
  BY <1>6, <1>7

\* What tiers cost is what they are meant to cost, for any number of tiers sent in any
\* order, with ceilings that may be equal: the loop over the sorted tiers charges each
\* unit to the tier that covers it (computeTiered).
THEOREM TiersAreAsMeant ==
  ASSUME NEW mode, NEW tiers \in Seq(Tiers), tiers # <<>>, NEW quantity \in Nat \ {0}
  PROVE  /\ ComputeTiered(mode, tiers, quantity) = TieredReference(mode, tiers, quantity)
         /\ ComputeTiered(mode, tiers, quantity) \in Nat
BY VolumeIs, GraduatedIs, SharesSum DEF ComputeTiered, TieredReference

-----------------------------------------------------------------------------
(* The inductive invariant.                                                *)

ItemRows == [quantity : Quantities, window : Windows]
SubRows == [status : {"trialing", "active", "past_due"}, window : Windows]
Records == [item : Items, quantity : Nat, at : Nat, late : BOOLEAN, counted : Nat]
CloseJobs == [kind : {"close"}, step : {"bill", "roll"}, sub : SubRows, items : [Items -> ItemRows]]

Held(j) ==
  /\ j.kind = "patch" => j.row \in PriceRows
  /\ j.kind = "close" => j \in CloseJobs
  /\ j.kind = "quantity" => j.i \in Items /\ j.item \in ItemRows /\ j.quantity \in Quantities
  /\ j.kind = "charge" => j.available \in Int /\ j.applied \in Int

Types ==
  /\ price \in [Prices -> PriceRows \cup {NoPrice}]
  /\ sub \in SubRows /\ items \in [Items -> ItemRows]
  /\ usage \in Seq(Records)
  /\ credit \in Int /\ ledger \in Int
  /\ seats \in [Items -> Int] /\ summed \in [Items -> Nat]
  /\ DOMAIN job = Handlers /\ \A h \in Handlers : Held(job[h])

\* Closes that do not overlap hold the current windows.
OneClose ==
  Undisturbed({"close"}) =>
    /\ \A h, o \in Handlers : Busy("close", h) /\ Busy("close", o) => h = o
    /\ \A h \in Handlers : Busy("close", h) =>
         /\ job[h].sub.window = sub.window
         /\ \A i \in Items : job[h].items[i].window = items[i].window

EvenWindows ==
  Undisturbed({"periods"}) => \A i \in Items : items[i].window.to = sub.window.to

Rolling == \E h \in Handlers : Busy("close", h) /\ job[h].step = "roll"

\* What is expected of a record once usage is summed up to an instant.
Expected(record, upTo) ==
  /\ record.late => record.at < upTo
  /\ record.counted = IF ~record.late /\ record.at < upTo THEN 1 ELSE 0

\* Usage has been summed up to the start of the current windows, or to their end once
\* the close under way has billed.
Summed ==
  Undisturbed({"close", "periods"}) =>
    /\ \A i \in Items : summed[i] = IF Rolling THEN items[i].window.to ELSE items[i].window.from
    /\ \A k \in DOMAIN usage : Expected(usage[k], summed[usage[k].item])

\* Changes of one item's quantity that do not overlap start from the current one.
OneChange ==
  Undisturbed({"quantity"}) =>
    /\ \A i \in Items : items[i].quantity = seats[i]
    /\ \A h \in Handlers : Busy("quantity", h) => items[job[h].i].quantity = job[h].item.quantity
    /\ \A h, o \in Handlers :
         Busy("quantity", h) /\ Busy("quantity", o) /\ job[h].i = job[o].i => h = o

\* Charges that neither overlap each other nor a proration have read the current balance.
OneCharge ==
  Undisturbed({"credit"}) =>
    /\ credit = ledger
    /\ \A h \in Handlers : Busy("charge", h) => job[h].available = credit
    /\ \A h, o \in Handlers : Busy("charge", h) /\ Busy("charge", o) => h = o

\* A line of a cycle invoice costs what its price says.
FollowsPrice(line) ==
  line.amount =
    CASE line.row.scheme = "per_unit" -> line.row.unit * line.quantity
      [] line.row.scheme = "metered" -> line.row.unit * line.usage
      [] line.row.scheme = "tiered" ->
           TieredReference(line.row.mode, line.row.tiers, line.quantity)

LinesPriced ==
  \A i \in Items : lines[i] # NoLine => lines[i].amount \in Nat /\ FollowsPrice(lines[i])

Priced == LinesPriced /\ disturbed \subseteq {"close", "quantity", "credit", "periods"}

IInv == Types /\ Priced /\ OneClose /\ EvenWindows /\ Summed /\ OneChange /\ OneCharge

-----------------------------------------------------------------------------
(* What a step does to the handlers' jobs, and what it computes.           *)

LEMMA Began ==
  ASSUME NEW h \in Handlers, NEW held, Begin(h, held), DOMAIN job = Handlers
  PROVE  /\ DOMAIN job' = Handlers /\ job'[h] = held /\ job[h] = Idle
         /\ \A o \in Handlers : o # h => job'[o] = job[o]
BY DEF Begin

LEMMA Ended ==
  ASSUME NEW h \in Handlers, End(h), DOMAIN job = Handlers
  PROVE  /\ DOMAIN job' = Handlers /\ job'[h] = Idle
         /\ \A o \in Handlers : o # h => job'[o] = job[o]
BY DEF End

LEMMA IdleHolds ==
  /\ Held(Idle)
  /\ Idle.kind \notin {"patch", "close", "quantity", "charge"}
BY DEF Held, Idle

LEMMA Numbers == Quantities \subseteq Int /\ Amounts \subseteq Int /\ NumItems \in Nat \ {0}
BY CycleBillingAssumption

LEMMA BilledKeeps ==
  ASSUME NEW held \in CloseJobs
  PROVE  /\ Billed(held) \in CloseJobs
         /\ Billed(held).step = "roll"
         /\ Billed(held).sub.window = held.sub.window
         /\ Billed(held).items = held.items
<1> DEFINE status == IF held.sub.status = "trialing" THEN "active" ELSE held.sub.status
<1>1. held.sub \in SubRows /\ held.items \in [Items -> ItemRows]
  BY DEF CloseJobs
<1>2. Billed(held) = [held EXCEPT !.step = "roll", !.sub = [held.sub EXCEPT !.status = status]]
  BY DEF Billed, CloseJobs, SubRows
<1>3. /\ [held.sub EXCEPT !.status = status] \in SubRows
      /\ [held.sub EXCEPT !.status = status].window = held.sub.window
  BY <1>1 DEF SubRows
<1> HIDE DEF status
<1> QED
  BY <1>1, <1>2, <1>3 DEF CloseJobs

LEMMA CountedOnce ==
  ASSUME NEW record \in Records
  PROVE  [record EXCEPT !.counted = @ + 1] \in Records
<1>1. record.counted + 1 \in Nat
  BY DEF Records
<1> DEFINE n == record.counted + 1
<1>2. [record EXCEPT !.counted = n] \in Records
  <2> HIDE DEF n
  <2> QED
    BY <1>1, SMTT(30) DEF Records, n
<1> QED
  BY <1>2

LEMMA MinOfTwo ==
  ASSUME NEW a \in Int, NEW b \in Int
  PROVE  Min({a, b}) \in {a, b}
<1>1. \E x \in {a, b} : \A y \in {a, b} : x <= y
  <2>1. CASE a <= b
    BY <2>1
  <2>2. CASE b <= a
    BY <2>2
  <2> QED
    BY <2>1, <2>2
<1> QED
  BY <1>1 DEF Min

LEMMA PriceFields ==
  ASSUME NEW row \in PriceRows
  PROVE  /\ row.unit \in Int /\ row.period \in Periods
         /\ row.scheme # "tiered" => row.unit \in Nat
         /\ row.scheme \in {"per_unit", "metered", "tiered"}
         /\ row.tiers \in Seq(Tiers)
         /\ row.scheme = "tiered" => row.tiers # <<>>
BY DEF PriceRows, Complete, Absent

LEMMA MergedIsComplete ==
  ASSUME NEW row \in PriceRows, NEW patch \in Patches
  PROVE  Merged(patch.body, row) \in PriceRows
<1> DEFINE next == Merged(patch.body, row)
<1>1. /\ DOMAIN row = {"scheme", "unit", "mode", "tiers", "period"}
      /\ row.scheme \in {"per_unit", "metered", "tiered"} /\ row.unit \in Nat \cup {Absent}
      /\ row.mode \in {"volume", "graduated"} /\ row.tiers \in Seq(Tiers)
      /\ row.period \in Periods /\ Complete(row)
  BY DEF PriceRows
<1>2. next = [scheme |-> next.scheme, unit |-> next.unit, mode |-> next.mode,
              tiers |-> next.tiers, period |-> next.period]
  BY <1>1 DEF Merged
<1>3. /\ next.scheme = row.scheme
      /\ next.unit = row.unit \/ next.unit \in Nat
      /\ next.mode = row.mode \/ next.mode \in {"volume", "graduated"}
      /\ next.tiers = row.tiers \/ next.tiers \in Seq(Tiers) \ {<<>>}
      /\ next.period = row.period \/ next.period \in Periods
  BY <1>1, CycleBillingAssumption DEF Merged
<1> HIDE DEF next
<1>4. Complete(next)
  BY <1>1, <1>3 DEF Complete, Absent
<1>5. next \in [scheme : {"per_unit", "metered", "tiered"}, unit : Nat \cup {Absent},
                mode : {"volume", "graduated"}, tiers : Seq(Tiers), period : Periods]
  BY <1>1, <1>2, <1>3
<1> QED
  BY <1>4, <1>5 DEF PriceRows, next

LEMMA PeriodIsOne ==
  ASSUME Types, NEW i \in Items
  PROVE  PeriodOf(i) \in Periods
<1>1. [interval |-> "month", count |-> 1] \in Periods
  BY DEF Periods, Intervals
<1>2. PriceOf[i] \in Prices
  BY CycleBillingAssumption
<1>3. CASE price[PriceOf[i]] = NoPrice
  BY <1>1, <1>3 DEF PeriodOf
<1>4. CASE price[PriceOf[i]] # NoPrice
  <2>1. price[PriceOf[i]] \in PriceRows
    BY <1>2, <1>4 DEF Types
  <2> QED
    BY <1>4, <2>1, PriceFields DEF PeriodOf
<1> QED
  BY <1>3, <1>4

LEMMA ProrationIsWhole ==
  ASSUME Types, NEW h \in Handlers, Busy("quantity", h), price[PriceOf[job[h].i]] # NoPrice,
         NEW now \in Instants
  PROVE  Proration(h, now) \in Int
<1>1. job[h].i \in Items /\ job[h].item \in ItemRows /\ job[h].quantity \in Quantities
  BY DEF Types, Busy, Held
<1>2. PriceOf[job[h].i] \in Prices
  BY <1>1, CycleBillingAssumption
<1>3. UnitAmount(price[PriceOf[job[h].i]]) \in Int
  <2>1. price[PriceOf[job[h].i]] \in PriceRows
    BY <1>2 DEF Types
  <2> QED
    BY <2>1, PriceFields DEF UnitAmount
<1>4. job[h].quantity - job[h].item.quantity \in Int
  <2>1. job[h].item.quantity \in Quantities
    BY <1>1 DEF ItemRows
  <2>2. job[h].quantity \in Int /\ job[h].item.quantity \in Int
    BY <1>1, <2>1, Numbers, Zenon
  <2> QED
    BY <2>2
<1>5. job[h].item.window.from \in Int /\ job[h].item.window.to \in Int
  BY <1>1 DEF ItemRows, Windows
<1>6. now \in Int
  BY CycleBillingAssumption
<1> QED
  BY <1>3, <1>4, <1>5, <1>6, ProratedIsWhole DEF Proration

\* The windows that a roll writes: all start where the closed period ended.
LEMMA RollsOn ==
  ASSUME Types, NEW h \in Handlers, Roll(h)
  PROVE  /\ items' \in [Items -> ItemRows] /\ sub' \in SubRows
         /\ sub'.window.from = job[h].sub.window.to
         /\ sub'.window.to > sub'.window.from
         /\ \A i \in Items : /\ items'[i].window.from = job[h].sub.window.to
                            /\ items'[i].quantity = items[i].quantity
         /\ "periods" \notin disturbed' => \A i \in Items : items'[i].window.to = sub'.window.to
<1> DEFINE start == job[h].sub.window.to
<1> DEFINE end == [i \in Items |-> AddPeriod(start, PeriodOf(i))]
<1> DEFINE ends == {start} \cup {end[i] : i \in Items}
<1> DEFINE last == Max(ends)
<1>1. job[h] \in CloseJobs
  BY DEF Roll, Busy, Types, Held
<1>2. start \in Nat
  BY <1>1 DEF CloseJobs, SubRows, Windows
<1>3. \A i \in Items : end[i] \in Nat /\ end[i] > start
  BY <1>2, PeriodIsOne, PeriodsEndLater
<1>4. ends \in SUBSET Int
  BY <1>2, <1>3
<1>5. IsFiniteSet(ends)
  <2>1. IsFiniteSet(Items)
    BY FS_Interval, Numbers DEF Items
  <2>2. IsFiniteSet({end[i] : i \in Items})
    <3>1. end \in Surjection(Items, {end[i] : i \in Items})
      BY DEF Surjection
    <3> QED
      BY <2>1, <3>1, FS_Surjection
  <2>3. ends = {end[i] : i \in Items} \cup {start}
    OBVIOUS
  <2> QED
    BY <2>2, <2>3, FS_AddElement
<1>6. last \in ends /\ \A y \in ends : last >= y
  BY <1>4, <1>5, MaxOfFinite
<1>7. last \in Nat /\ last > start
  <2>1. 1 \in Items
    BY Numbers DEF Items
  <2>2. end[1] \in ends /\ end[1] > start
    BY <2>1, <1>3
  <2>3. last \in Nat
    BY <1>2, <1>3, <1>6
  <2>4. last >= end[1] /\ end[1] \in Nat
    BY <2>1, <2>2, <1>3, <1>6
  <2> HIDE DEF start, end, last
  <2> QED
    BY <2>2, <2>3, <2>4, <1>2
<1>8. /\ items' = [i \in Items |-> [quantity |-> items[i].quantity,
                                   window |-> Window(start, end[i])]]
      /\ sub' = [status |-> job[h].sub.status, window |-> Window(start, last)]
      /\ disturbed' = disturbed \cup Uneven(end, last)
  BY DEF Roll, NextStart, Rolled
<1> HIDE DEF start, end, last
<1>9. Window(start, last) \in Windows /\ \A i \in Items : Window(start, end[i]) \in Windows
  BY <1>2, <1>3, <1>7 DEF Window, Windows
<1>10. sub' \in SubRows
  BY <1>1, <1>8, <1>9 DEF SubRows, CloseJobs
<1>11. items' \in [Items -> ItemRows]
  BY <1>8, <1>9 DEF ItemRows, Types
<1>12. "periods" \notin disturbed' => \A i \in Items : end[i] = last
  BY <1>8 DEF Uneven
<1> QED
  BY <1>7, <1>8, <1>10, <1>11, <1>12 DEF Window, start

-----------------------------------------------------------------------------
(* Types.                                                                  *)

LEMMA HeldAfterBegin ==
  ASSUME Types, NEW h \in Handlers, NEW held, Begin(h, held), Held(held)
  PROVE  DOMAIN job' = Handlers /\ \A o \in Handlers : Held(job'[o])
BY Began DEF Types

LEMMA HeldAfterEnd ==
  ASSUME Types, NEW h \in Handlers, End(h)
  PROVE  DOMAIN job' = Handlers /\ \A o \in Handlers : Held(job'[o])
BY Ended, IdleHolds DEF Types

LEMMA InitTypes == Init => Types
<1> SUFFICES ASSUME Init PROVE Types
  OBVIOUS
<1> DEFINE Start(anchor, quantity, window) ==
      /\ price \in Tariffs
      /\ items = [i \in Items |-> [quantity |-> quantity[i], window |-> window[i]]]
      /\ sub \in [status : {"trialing", "active", "past_due"}, window : {window[1]}]
      /\ seats = quantity
      /\ summed = [i \in Items |-> anchor]
<1>1. PICK anchor \in Anchors, quantity \in Openings :
        Start(anchor, quantity, [i \in Items |-> FirstWindow(price, i, anchor)])
  BY Zenon DEF Init
<1>2. price \in [Prices -> PriceRows]
  BY <1>1, CycleBillingAssumption
<1>4. anchor \in Nat /\ quantity \in [Items -> Quantities]
  BY <1>1, CycleBillingAssumption
<1>5. \A i \in Items : FirstWindow(price, i, anchor) \in Windows
  <2> SUFFICES ASSUME NEW i \in Items PROVE FirstWindow(price, i, anchor) \in Windows
    OBVIOUS
  <2> DEFINE to == AddPeriod(anchor, price[PriceOf[i]].period)
  <2>1. PriceOf[i] \in Prices
    BY CycleBillingAssumption
  <2>2. price[PriceOf[i]].period \in Periods
    BY <1>2, <2>1, PriceFields
  <2>3. to \in Nat /\ to > anchor
    BY <2>2, <1>4, PeriodsEndLater
  <2>4. FirstWindow(price, i, anchor) = Window(anchor, to)
    BY DEF FirstWindow
  <2> HIDE DEF to
  <2> QED
    BY <2>3, <2>4, <1>4 DEF Window, Windows
<1>6. items \in [Items -> ItemRows]
  BY <1>1, <1>4, <1>5 DEF ItemRows
<1>7. sub \in SubRows
  <2>1. 1 \in Items
    BY Numbers DEF Items
  <2> QED
    BY <1>1, <1>5, <2>1, SMTT(30) DEF SubRows
<1>8. seats \in [Items -> Int] /\ summed \in [Items -> Nat]
  BY <1>1, <1>4, Numbers
<1>9. usage \in Seq(Records)
  BY DEF Init
<1>10. credit \in Int /\ ledger \in Int
  BY Numbers DEF Init
<1>11. DOMAIN job = Handlers /\ \A h \in Handlers : Held(job[h])
  BY IdleHolds DEF Init
<1> QED
  BY <1>2, <1>6, <1>7, <1>8, <1>9, <1>10, <1>11 DEF Types

\* The steps, and what each leaves of the rows a bill needs.
LEMMA NextTypes ==
  ASSUME Types, Next
  PROVE  Types'
<1>1. ASSUME NEW p \in Prices, DeletePrice(p) PROVE Types'
  BY <1>1 DEF DeletePrice, AtOnce, Types
<1>2. ASSUME NEW r \in Reports, Report(r) PROVE Types'
  <2> DEFINE record == [item |-> r.item, quantity |-> r.quantity, at |-> r.at,
                        late |-> r.at < summed[r.item], counted |-> 0]
  <2>1. record \in Records
    BY CycleBillingAssumption DEF Records
  <2>2. usage' = Append(usage, record)
    BY <1>2 DEF Report
  <2> HIDE DEF record
  <2>3. usage' \in Seq(Records)
    BY <2>1, <2>2 DEF Types
  <2> QED
    BY <1>2, <2>3 DEF Report, AtOnce, Types
<1>3. ASSUME NEW h \in Handlers, NEW patch \in Patches, ReadPrice(h, patch) PROVE Types'
  <2> DEFINE held == [kind |-> "patch", price |-> patch.price,
                      row |-> Merged(patch.body, price[patch.price])]
  <2>1. patch.price \in Prices /\ price[patch.price] # NoPrice
    BY <1>3, CycleBillingAssumption DEF ReadPrice
  <2>2. Merged(patch.body, price[patch.price]) \in PriceRows
    BY <2>1, MergedIsComplete DEF Types
  <2>3. Held(held)
    BY <2>2 DEF Held
  <2>4. Begin(h, held)
    BY <1>3 DEF ReadPrice
  <2>5. DOMAIN job' = Handlers /\ \A o \in Handlers : Held(job'[o])
    BY <2>3, <2>4, HeldAfterBegin
  <2> QED
    BY <1>3, <2>5 DEF ReadPrice, Types
<1>4. ASSUME NEW h \in Handlers, WritePrice(h) PROVE Types'
  <2>1. DOMAIN job' = Handlers /\ \A o \in Handlers : Held(job'[o])
    BY <1>4, HeldAfterEnd DEF WritePrice
  <2>2. job[h].row \in PriceRows
    BY <1>4 DEF WritePrice, Busy, Types, Held
  <2>3. price' = [price EXCEPT ![job[h].price] =
                    IF price[job[h].price] = NoPrice THEN NoPrice ELSE job[h].row]
    BY <1>4 DEF WritePrice
  <2>4. price' \in [Prices -> PriceRows \cup {NoPrice}]
    BY <2>2, <2>3 DEF Types
  <2> QED
    BY <1>4, <2>1, <2>4 DEF WritePrice, Types
<1>5. ASSUME NEW h \in Handlers, ReadForClose(h) PROVE Types'
  <2> DEFINE held == [kind |-> "close", step |-> "bill", sub |-> sub, items |-> items]
  <2>1. Held(held)
    BY DEF Held, CloseJobs, Types
  <2>2. Begin(h, held)
    BY <1>5 DEF ReadForClose
  <2>3. DOMAIN job' = Handlers /\ \A o \in Handlers : Held(job'[o])
    BY <2>1, <2>2, HeldAfterBegin
  <2> QED
    BY <1>5, <2>3 DEF ReadForClose, Types
<1>6. ASSUME NEW h \in Handlers, Bill(h) PROVE Types'
  <2>1. job[h] \in CloseJobs /\ job' = [job EXCEPT ![h] = Billed(job[h])]
    BY <1>6 DEF Bill, Busy, Types, Held
  <2>2. Billed(job[h]) \in CloseJobs
    BY <2>1, BilledKeeps
  <2>3. Held(Billed(job[h]))
    BY <2>2 DEF Held, CloseJobs
  <2>4. DOMAIN job' = Handlers /\ \A o \in Handlers : Held(job'[o])
    BY <2>1, <2>3 DEF Types
  <2>5. usage' \in Seq(Records)
    <3> DEFINE Covers(i, at) == InWindow(at, job[h].items[i].window)
    <3>1. usage' = [k \in DOMAIN usage |-> IF Covers(usage[k].item, usage[k].at)
                       THEN [usage[k] EXCEPT !.counted = @ + 1] ELSE usage[k]]
      BY <1>6 DEF Bill
    <3> HIDE DEF Covers
    <3>2. \A k \in DOMAIN usage :
            usage[k] \in Records /\ [usage[k] EXCEPT !.counted = @ + 1] \in Records
      BY CountedOnce DEF Types
    <3>3. DOMAIN usage = 1 .. Len(usage) /\ Len(usage) \in Nat
      BY DEF Types
    <3>4. usage' \in [1 .. Len(usage) -> Records]
      BY <3>1, <3>2, <3>3
    <3> QED
      BY <3>3, <3>4
  <2>6. summed' \in [Items -> Nat]
    <3>1. summed' = [i \in Items |-> job[h].items[i].window.to]
      BY <1>6 DEF Bill
    <3>2. \A i \in Items : job[h].items[i] \in ItemRows
      BY <2>1 DEF CloseJobs
    <3> QED
      BY <3>1, <3>2 DEF ItemRows, Windows
  <2> QED
    BY <1>6, <2>4, <2>5, <2>6 DEF Bill, Types
<1>7. ASSUME NEW h \in Handlers, Roll(h) PROVE Types'
  <2>1. items' \in [Items -> ItemRows] /\ sub' \in SubRows
    BY <1>7, RollsOn
  <2>2. DOMAIN job' = Handlers /\ \A o \in Handlers : Held(job'[o])
    BY <1>7, HeldAfterEnd DEF Roll
  <2> QED
    BY <1>7, <2>1, <2>2 DEF Roll, Types
<1>8. ASSUME NEW h \in Handlers, NEW i \in Items, NEW q \in Quantities, ReadQuantity(h, i, q)
      PROVE Types'
  <2> DEFINE held == [kind |-> "quantity", i |-> i, item |-> items[i], quantity |-> q]
  <2>1. Held(held)
    BY DEF Held, Types
  <2>2. Begin(h, held)
    BY <1>8 DEF ReadQuantity
  <2>3. DOMAIN job' = Handlers /\ \A o \in Handlers : Held(job'[o])
    BY <2>1, <2>2, HeldAfterBegin
  <2> QED
    BY <1>8, <2>3 DEF ReadQuantity, Types
<1>9. ASSUME NEW h \in Handlers, NEW now \in Instants, WriteQuantity(h, now) PROVE Types'
  <2>1. job[h].i \in Items /\ job[h].item \in ItemRows /\ job[h].quantity \in Quantities
    BY <1>9 DEF WriteQuantity, Types, Busy, Held
  <2>2. DOMAIN job' = Handlers /\ \A o \in Handlers : Held(job'[o])
    BY <1>9, HeldAfterEnd DEF WriteQuantity
  <2>3. items' \in [Items -> ItemRows]
    <3>1. items' = [items EXCEPT ![job[h].i] = [items[job[h].i] EXCEPT !.quantity = job[h].quantity]]
      BY <1>9, <2>1 DEF WriteQuantity, Types
    <3>2. [items[job[h].i] EXCEPT !.quantity = job[h].quantity] \in ItemRows
      BY <2>1 DEF Types, ItemRows
    <3> QED
      BY <3>1, <3>2, <2>1 DEF Types
  <2>4. credit' \in Int /\ ledger' \in Int
    <3>1. Proration(h, now) \in Int
      BY <1>9, ProrationIsWhole DEF WriteQuantity
    <3> QED
      BY <1>9, <3>1 DEF WriteQuantity, CreditDelta, Types
  <2>5. seats' \in [Items -> Int]
    <3>1. job[h].quantity - job[h].item.quantity \in Int
      <4>1. job[h].item.quantity \in Quantities
        BY <2>1 DEF ItemRows
      <4>2. job[h].quantity \in Int /\ job[h].item.quantity \in Int
        BY <2>1, <4>1, Numbers, Zenon
      <4> QED
        BY <4>2
    <3>2. seats[job[h].i] \in Int
      BY <2>1 DEF Types
    <3> DEFINE changed == seats[job[h].i] + (job[h].quantity - job[h].item.quantity)
    <3>3. seats' = [seats EXCEPT ![job[h].i] = changed]
      BY <1>9, <2>1 DEF WriteQuantity, Types
    <3>4. changed \in Int
      BY <3>1, <3>2
    <3> HIDE DEF changed
    <3> QED
      BY <2>1, <3>3, <3>4 DEF Types
  <2> QED
    BY <1>9, <2>2, <2>3, <2>4, <2>5 DEF WriteQuantity, Types
<1>10. ASSUME NEW h \in Handlers, RefuseQuantity(h) PROVE Types'
  <2>1. DOMAIN job' = Handlers /\ \A o \in Handlers : Held(job'[o])
    BY <1>10, HeldAfterEnd DEF RefuseQuantity
  <2> QED
    BY <1>10, <2>1 DEF RefuseQuantity, Types
<1>11. ASSUME NEW h \in Handlers, NEW a \in Amounts, ReadCredit(h, a) PROVE Types'
  <2> DEFINE held == [kind |-> "charge", available |-> credit, applied |-> Min({credit, a})]
  <2>1. credit \in Int /\ a \in Int
    BY Numbers DEF Types
  <2>2. Min({credit, a}) \in Int
    BY <2>1, MinOfTwo
  <2>3. Held(held)
    BY <2>1, <2>2 DEF Held
  <2>4. Begin(h, held)
    BY <1>11 DEF ReadCredit
  <2>5. DOMAIN job' = Handlers /\ \A o \in Handlers : Held(job'[o])
    BY <2>3, <2>4, HeldAfterBegin
  <2> QED
    BY <1>11, <2>5 DEF ReadCredit, Types
<1>12. ASSUME NEW h \in Handlers, SettleCharge(h) PROVE Types'
  <2>1. DOMAIN job' = Handlers /\ \A o \in Handlers : Held(job'[o])
    BY <1>12, HeldAfterEnd DEF SettleCharge
  <2>2. job[h].available \in Int /\ job[h].applied \in Int
    BY <1>12 DEF SettleCharge, Busy, Types, Held
  <2> QED
    BY <1>12, <2>1, <2>2 DEF SettleCharge, CreditLeft, Types
<1>13. ASSUME NEW h \in Handlers, Die(h) PROVE Types'
  <2>1. DOMAIN job' = Handlers /\ \A o \in Handlers : Held(job'[o])
    BY <1>13, HeldAfterEnd DEF Die
  <2> QED
    BY <1>13, <2>1 DEF Die, Types
<1> QED
  BY <1>1, <1>2, <1>3, <1>4, <1>5, <1>6, <1>7, <1>8, <1>9, <1>10, <1>11, <1>12, <1>13 DEF Next

-----------------------------------------------------------------------------
(* Closes.                                                                 *)

Closing(h) == ReadForClose(h) \/ Bill(h) \/ Roll(h)

\* What every other step leaves alone: windows and sums, and the closes under way,
\* one of which it may cut short.
LeavesCloses ==
  /\ sub' = sub /\ summed' = summed /\ disturbed \subseteq disturbed'
  /\ \A i \in Items : items'[i].window = items[i].window
  /\ \A o \in Handlers :
       \/ job'[o] = job[o]
       \/ /\ job'[o].kind # "close"
          /\ Busy("close", o) /\ job[o].step = "roll" => "close" \in disturbed'

LEMMA OthersLeaveCloses ==
  ASSUME Types, Next
  PROVE  LeavesCloses \/ \E h \in Handlers : Closing(h)
<1> USE DEF LeavesCloses
<1>1. ASSUME NEW p \in Prices, DeletePrice(p) PROVE LeavesCloses
  BY <1>1 DEF DeletePrice, AtOnce
<1>2. ASSUME NEW r \in Reports, Report(r) PROVE LeavesCloses
  BY <1>2 DEF Report, AtOnce
<1>3. ASSUME NEW h \in Handlers, NEW held, Begin(h, held), held.kind # "close"
      PROVE  \A o \in Handlers :
               \/ job'[o] = job[o]
               \/ /\ job'[o].kind # "close"
                  /\ Busy("close", o) /\ job[o].step = "roll" => "close" \in disturbed'
  BY <1>3, Began, IdleHolds DEF Types, Busy
<1>4. ASSUME NEW h \in Handlers, End(h), ~Busy("close", h)
      PROVE  \A o \in Handlers :
               \/ job'[o] = job[o]
               \/ /\ job'[o].kind # "close"
                  /\ Busy("close", o) /\ job[o].step = "roll" => "close" \in disturbed'
  BY <1>4, Ended, IdleHolds DEF Types
<1>5. ASSUME NEW h \in Handlers, NEW patch \in Patches, ReadPrice(h, patch) PROVE LeavesCloses
  BY <1>3, <1>5 DEF ReadPrice
<1>6. ASSUME NEW h \in Handlers, WritePrice(h) PROVE LeavesCloses
  BY <1>4, <1>6 DEF WritePrice, Busy
<1>7. ASSUME NEW h \in Handlers, NEW i \in Items, NEW q \in Quantities, ReadQuantity(h, i, q)
      PROVE LeavesCloses
  BY <1>3, <1>7 DEF ReadQuantity
<1>8. ASSUME NEW h \in Handlers, NEW now \in Instants, WriteQuantity(h, now) PROVE LeavesCloses
  <2>1. \A i \in Items : items'[i].window = items[i].window
    BY <1>8 DEF WriteQuantity, Types, ItemRows
  <2> QED
    BY <1>4, <1>8, <2>1 DEF WriteQuantity, Busy
<1>9. ASSUME NEW h \in Handlers, RefuseQuantity(h) PROVE LeavesCloses
  BY <1>4, <1>9 DEF RefuseQuantity, Busy
<1>10. ASSUME NEW h \in Handlers, NEW a \in Amounts, ReadCredit(h, a) PROVE LeavesCloses
  BY <1>3, <1>10 DEF ReadCredit
<1>11. ASSUME NEW h \in Handlers, SettleCharge(h) PROVE LeavesCloses
  BY <1>4, <1>11 DEF SettleCharge, Busy
<1>12. ASSUME NEW h \in Handlers, Die(h) PROVE LeavesCloses
  BY <1>12, Ended, IdleHolds DEF Die, Types, Busy
<1> QED
  BY <1>1, <1>2, <1>5, <1>6, <1>7, <1>8, <1>9, <1>10, <1>11, <1>12 DEF Next, Closing

LEMMA NextOneClose ==
  ASSUME Types, OneClose, Next
  PROVE  OneClose'
<1>1. ASSUME LeavesCloses PROVE OneClose'
  BY <1>1 DEF OneClose, LeavesCloses, Busy, Undisturbed
<1>2. ASSUME NEW h \in Handlers, ReadForClose(h) PROVE OneClose'
  <2> DEFINE held == [kind |-> "close", step |-> "bill", sub |-> sub, items |-> items]
  <2>1. /\ job'[h] = held /\ \A o \in Handlers : o # h => job'[o] = job[o]
        /\ sub' = sub /\ items' = items
    BY <1>2, Began DEF ReadForClose, Types
  <2>2. SomeBusy("close") => "close" \in disturbed'
    BY <1>2 DEF ReadForClose
  <2>3. held.kind = "close" /\ held.sub = sub /\ held.items = items
    OBVIOUS
  <2> HIDE DEF held
  <2> QED
    BY <2>1, <2>2, <2>3 DEF OneClose, Undisturbed, SomeBusy, Busy
<1>3. ASSUME NEW h \in Handlers, Bill(h) PROVE OneClose'
  <2>1. job[h] \in CloseJobs /\ job' = [job EXCEPT ![h] = Billed(job[h])]
    BY <1>3 DEF Bill, Busy, Types, Held
  <2>2. /\ Billed(job[h]).kind = "close" /\ Billed(job[h]).sub.window = job[h].sub.window
        /\ Billed(job[h]).items = job[h].items
    BY <2>1, BilledKeeps DEF CloseJobs
  <2>3. \A o \in Handlers : /\ Busy("close", o)' <=> Busy("close", o)
                            /\ job'[o].sub.window = job[o].sub.window
                            /\ job'[o].items = job[o].items
    BY <1>3, <2>1, <2>2 DEF Bill, Busy, Types
  <2> QED
    BY <1>3, <2>3 DEF Bill, OneClose, Undisturbed
<1>4. ASSUME NEW h \in Handlers, Roll(h) PROVE OneClose'
  <2>1. job'[h] = Idle /\ \A o \in Handlers : o # h => job'[o] = job[o]
    BY <1>4, Ended DEF Roll, Types
  <2>2. Undisturbed({"close"})' => Undisturbed({"close"}) /\ Busy("close", h)
    BY <1>4 DEF Roll, Undisturbed
  <2> QED
    BY <2>1, <2>2, IdleHolds DEF OneClose, Busy
<1> QED
  BY <1>1, <1>2, <1>3, <1>4, OthersLeaveCloses DEF Closing

LEMMA NextEven ==
  ASSUME Types, EvenWindows, Next
  PROVE  EvenWindows'
<1>1. ASSUME LeavesCloses PROVE EvenWindows'
  BY <1>1 DEF EvenWindows, LeavesCloses, Undisturbed
<1>2. ASSUME NEW h \in Handlers, ReadForClose(h) PROVE EvenWindows'
  BY <1>2 DEF ReadForClose, EvenWindows, Undisturbed
<1>3. ASSUME NEW h \in Handlers, Bill(h) PROVE EvenWindows'
  BY <1>3 DEF Bill, EvenWindows, Undisturbed
<1>4. ASSUME NEW h \in Handlers, Roll(h) PROVE EvenWindows'
  BY <1>4, RollsOn DEF EvenWindows, Undisturbed
<1> QED
  BY <1>1, <1>2, <1>3, <1>4, OthersLeaveCloses DEF Closing

-----------------------------------------------------------------------------
(* Usage.                                                                  *)

LEMMA RollingKept ==
  ASSUME Types, LeavesCloses, Undisturbed({"close"})'
  PROVE  Rolling' <=> Rolling
BY DEF LeavesCloses, Rolling, Busy, Undisturbed

LEMMA UsageKept ==
  ASSUME Next
  PROVE  usage' = usage \/ (\E r \in Reports : Report(r)) \/ (\E h \in Handlers : Bill(h))
BY DEF Next, DeletePrice, ReadPrice, WritePrice, ReadForClose, Roll, ReadQuantity,
  WriteQuantity, RefuseQuantity, ReadCredit, SettleCharge, Die

\* A report is late exactly when its instant has been summed already.
LEMMA ReportExpected ==
  ASSUME Types, NEW r \in Reports, Report(r),
         \A k \in DOMAIN usage : Expected(usage[k], summed[usage[k].item])
  PROVE  \A k \in DOMAIN usage' : Expected(usage'[k], summed'[usage'[k].item])
<1> DEFINE record == [item |-> r.item, quantity |-> r.quantity, at |-> r.at,
                      late |-> r.at < summed[r.item], counted |-> 0]
<1>1. Expected(record, summed[record.item])
  BY DEF Expected
<1>2. usage' = Append(usage, record) /\ summed' = summed
  BY DEF Report
<1> HIDE DEF record
<1>3. usage \in Seq(Records)
  BY DEF Types
<1>4. \A k \in DOMAIN usage' :
        \/ k \in DOMAIN usage /\ usage'[k] = usage[k]
        \/ usage'[k] = record
  BY <1>2, <1>3
<1> QED
  BY <1>1, <1>2, <1>4

\* A bill counts the records of the windows that it sums, none of them for the second
\* time and all of those that came in time.
LEMMA BillExpected ==
  ASSUME NEW record \in Records, NEW window \in Windows, Expected(record, window.from)
  PROVE  Expected(IF InWindow(record.at, window)
                  THEN [record EXCEPT !.counted = @ + 1] ELSE record, window.to)
<1>1. record.at \in Nat /\ window.from \in Nat /\ window.to \in Nat /\ window.from < window.to
  BY DEF Records, Windows
<1>2. CASE InWindow(record.at, window)
  <2>1. ~(record.at < window.from) /\ record.at < window.to
    BY <1>1, <1>2 DEF InWindow
  <2>2. ~record.late /\ record.counted = 0
    BY <2>1 DEF Expected
  <2> DEFINE next == [record EXCEPT !.counted = @ + 1]
  <2>3. next.late = record.late /\ next.at = record.at /\ next.counted = 1
    BY <2>2 DEF Records
  <2> HIDE DEF next
  <2>4. Expected(next, window.to)
    BY <2>1, <2>2, <2>3 DEF Expected
  <2> QED
    BY <1>2, <2>4 DEF next
<1>3. CASE ~InWindow(record.at, window)
  <2>1. record.at < window.from \/ ~(record.at < window.to)
    BY <1>1, <1>3 DEF InWindow
  <2>2. record.at < window.from <=> record.at < window.to
    BY <1>1, <2>1
  <2>3. Expected(record, window.to)
    BY <2>2 DEF Expected
  <2> QED
    BY <1>3, <2>3
<1> QED
  BY <1>2, <1>3

LEMMA NextSummed ==
  ASSUME Types, OneClose, EvenWindows, Summed, Next
  PROVE  Summed'
<1> DEFINE Quiet == Undisturbed({"close", "periods"})
<1>1. ASSUME LeavesCloses, ~ \E h \in Handlers : Bill(h) PROVE Summed'
  <2> SUFFICES ASSUME Quiet' PROVE Summed'
    BY DEF Summed
  <2>1. Quiet /\ Undisturbed({"close"})'
    BY <1>1 DEF LeavesCloses, Undisturbed
  <2>2. Rolling' <=> Rolling
    BY <1>1, <2>1, RollingKept
  <2>3. \A i \in Items :
          summed'[i] = IF Rolling' THEN items'[i].window.to ELSE items'[i].window.from
    BY <1>1, <2>1, <2>2 DEF LeavesCloses, Summed
  <2>4. \A k \in DOMAIN usage' : Expected(usage'[k], summed'[usage'[k].item])
    <3>1. \A k \in DOMAIN usage : Expected(usage[k], summed[usage[k].item])
      BY <2>1 DEF Summed
    <3>2. CASE usage' = usage
      BY <1>1, <3>1, <3>2 DEF LeavesCloses
    <3>3. CASE \E r \in Reports : Report(r)
      BY <3>1, <3>3, ReportExpected
    <3> QED
      BY <1>1, <3>2, <3>3, UsageKept
  <2> QED
    BY <2>3, <2>4 DEF Summed
<1>2. ASSUME NEW h \in Handlers, ReadForClose(h) PROVE Summed'
  <2> SUFFICES ASSUME Quiet' PROVE Summed'
    BY DEF Summed
  <2>1. Quiet /\ ~SomeBusy("close")
    BY <1>2 DEF ReadForClose, Undisturbed
  <2>2. ~Rolling
    BY <2>1 DEF Rolling, SomeBusy
  <2>3. ~Rolling'
    <3> DEFINE held == [kind |-> "close", step |-> "bill", sub |-> sub, items |-> items]
    <3>1. job'[h] = held /\ \A o \in Handlers : o # h => job'[o] = job[o]
      BY <1>2, Began DEF ReadForClose, Types
    <3>2. held.step = "bill"
      OBVIOUS
    <3> HIDE DEF held
    <3> QED
      BY <2>2, <3>1, <3>2 DEF Rolling, Busy
  <2> QED
    BY <1>2, <2>1, <2>2, <2>3 DEF ReadForClose, Summed
<1>3. ASSUME NEW h \in Handlers, Bill(h) PROVE Summed'
  <2> SUFFICES ASSUME Quiet' PROVE Summed'
    BY DEF Summed
  <2>1. Quiet /\ Undisturbed({"close"})
    BY <1>3 DEF Bill, Undisturbed
  <2>2. Busy("close", h) /\ job[h].step = "bill" /\ job[h] \in CloseJobs
    BY <1>3 DEF Bill, Busy, Types, Held
  <2>3. ~Rolling
    BY <2>1, <2>2 DEF OneClose, Rolling
  <2>4. Rolling'
    <3>1. job'[h] = Billed(job[h])
      BY <1>3 DEF Bill, Types
    <3>2. Billed(job[h]).kind = "close" /\ Billed(job[h]).step = "roll"
      BY <2>2, BilledKeeps DEF CloseJobs
    <3> QED
      BY <3>1, <3>2 DEF Rolling, Busy
  <2>5. \A i \in Items : job[h].items[i].window = items[i].window /\ items[i].window \in Windows
    BY <2>1, <2>2 DEF OneClose, Types, ItemRows
  <2>6. summed' = [i \in Items |-> job[h].items[i].window.to] /\ items' = items
    BY <1>3 DEF Bill
  <2>7. \A k \in DOMAIN usage' : Expected(usage'[k], summed'[usage'[k].item])
    <3> SUFFICES ASSUME NEW k \in DOMAIN usage'
                 PROVE  Expected(usage'[k], summed'[usage'[k].item])
      OBVIOUS
    <3> DEFINE Covers(i, at) == InWindow(at, job[h].items[i].window)
    <3> DEFINE i == usage[k].item
    <3>1. usage' = [n \in DOMAIN usage |-> IF Covers(usage[n].item, usage[n].at)
                       THEN [usage[n] EXCEPT !.counted = @ + 1] ELSE usage[n]]
      BY <1>3 DEF Bill
    <3>2. k \in DOMAIN usage /\ usage[k] \in Records
      BY <3>1 DEF Types
    <3>3. i \in Items
      BY <3>2 DEF Records
    <3>4. Expected(usage[k], items[i].window.from)
      BY <2>1, <2>3, <3>2, <3>3 DEF Summed
    <3>5. usage'[k] = IF InWindow(usage[k].at, items[i].window)
                      THEN [usage[k] EXCEPT !.counted = @ + 1] ELSE usage[k]
      BY <2>5, <3>1, <3>2, <3>3
    <3>6. Expected(usage'[k], items[i].window.to)
      BY <2>5, <3>2, <3>3, <3>4, <3>5, BillExpected
    <3>7. usage'[k].item = i
      BY <3>2, <3>5 DEF Records
    <3> QED
      BY <2>5, <2>6, <3>3, <3>6, <3>7
  <2> QED
    BY <2>4, <2>5, <2>6, <2>7 DEF Summed
<1>4. ASSUME NEW h \in Handlers, Roll(h) PROVE Summed'
  <2> SUFFICES ASSUME Quiet' PROVE Summed'
    BY DEF Summed
  <2>1. Quiet /\ Undisturbed({"close"}) /\ Undisturbed({"periods"})
    BY <1>4 DEF Roll, Undisturbed
  <2>2. Busy("close", h) /\ job[h].step = "roll"
    BY <1>4 DEF Roll
  <2>3. Rolling
    BY <2>2 DEF Rolling
  <2>4. ~Rolling'
    <3>1. job'[h] = Idle /\ \A o \in Handlers : o # h => job'[o] = job[o]
      BY <1>4, Ended DEF Roll, Types
    <3> QED
      BY <2>1, <2>2, <3>1, IdleHolds DEF OneClose, Rolling, Busy
  <2>5. \A i \in Items : summed[i] = items'[i].window.from
    <3>1. \A i \in Items : items'[i].window.from = job[h].sub.window.to
      BY <1>4, RollsOn
    <3>2. job[h].sub.window = sub.window
      BY <2>1, <2>2 DEF OneClose
    <3> QED
      BY <2>1, <2>3, <3>1, <3>2 DEF EvenWindows, Summed
  <2>6. usage' = usage /\ summed' = summed
    BY <1>4 DEF Roll
  <2> QED
    BY <2>1, <2>4, <2>5, <2>6 DEF Summed
<1>5. ASSUME LeavesCloses PROVE Summed'
  BY <1>1, <1>3, <1>5
<1> QED
  BY <1>2, <1>3, <1>4, <1>5, OthersLeaveCloses DEF Closing

-----------------------------------------------------------------------------
(* The lines of a cycle invoice.                                           *)

\* The usage of a window is a number, being a sum of numbers.
LEMMA UsageIsNat ==
  ASSUME Types, NEW i \in Items, NEW window
  PROVE  UsageOf(i, window) \in Nat
<1> DEFINE S == {k \in DOMAIN usage : usage[k].item = i /\ InWindow(usage[k].at, window)}
           g == [k \in S |-> usage[k].quantity]
           E(it) == [s \in SUBSET S |->
                       IF s = {} THEN 0
                       ELSE usage[CHOOSE x \in s : TRUE].quantity
                              + it[s \ {CHOOSE x \in s : TRUE}]]
<1>1. UsageOf(i, window) = (CHOOSE it : it = E(it))[S]
  BY DEF UsageOf, MapThenSumSet, MapThenFoldSet
<1>2. ASSUME NEW it PROVE Table(g, S, it) <=> it = E(it)
  <2> DEFINE F == [s \in SUBSET S |-> IF s = {} THEN 0 ELSE g[Pick(s)] + it[s \ {Pick(s)}]]
  <2>1. ASSUME NEW s \in SUBSET S PROVE F[s] = E(it)[s]
    <3>1. CASE s = {}
      BY <3>1
    <3>2. CASE s # {}
      <4>1. g[Pick(s)] = usage[Pick(s)].quantity
        <5>1. Pick(s) \in S
          BY <3>2, PickIn
        <5> HIDE DEF S
        <5> QED
          BY <5>1
      <4>2. F[s] = g[Pick(s)] + it[s \ {Pick(s)}]
        BY <3>2
      <4>3. E(it)[s] = usage[Pick(s)].quantity + it[s \ {Pick(s)}]
        BY <3>2 DEF Pick
      <4> QED
        BY <4>1, <4>2, <4>3
    <3> QED
      BY <3>1, <3>2
  <2>2. F = [s \in SUBSET S |-> F[s]] /\ E(it) = [s \in SUBSET S |-> E(it)[s]]
    OBVIOUS
  <2>3. F = E(it)
    <3> HIDE DEF F, E
    <3> QED
      BY <2>1, <2>2
  <2> HIDE DEF E
  <2> QED
    BY <2>3 DEF Table
<1>3. (CHOOSE it : Table(g, S, it)) = CHOOSE it : it = E(it)
  <2> HIDE DEF E, S, g
  <2> QED
    BY <1>2
<1>4. IsFiniteSet(S)
  <2>1. DOMAIN usage = 1 .. Len(usage) /\ Len(usage) \in Nat
    BY DEF Types
  <2>2. IsFiniteSet(1 .. Len(usage))
    BY <2>1, FS_Interval
  <2>3. S \subseteq 1 .. Len(usage)
    BY <2>1
  <2> HIDE DEF S
  <2> QED
    BY <2>2, <2>3, FS_Subset
<1>5. \A k \in S : g[k] \in Nat
  <2> SUFFICES ASSUME NEW k \in S PROVE usage[k].quantity \in Nat
    OBVIOUS
  <2>1. usage[k] \in Records
    BY DEF Types
  <2> HIDE DEF S
  <2> QED
    BY <2>1 DEF Records
<1> HIDE DEF E, S, g
<1>6. Sum(g, S) \in Nat
  BY <1>4, <1>5, SumNat
<1> QED
  BY <1>1, <1>3, <1>6 DEF Sum

\* A line is what its price says: of its quantity, of its usage, or of its tiers.
LEMMA LineIs ==
  ASSUME Types, NEW i \in Items, NEW item \in ItemRows, LineOf(i, item) # NoLine
  PROVE  LineOf(i, item).amount \in Nat /\ FollowsPrice(LineOf(i, item))
<1>1. PICK row, total, quantity :
        row = price[PriceOf[i]] /\ total = UsageOf(i, item.window) /\ quantity = item.quantity
  OBVIOUS
<1>2. row # NoPrice
  BY <1>1 DEF LineOf
<1>3. row \in PriceRows
  BY <1>1, <1>2, CycleBillingAssumption DEF Types
<1>4. total \in Nat
  BY <1>1, UsageIsNat
<1>5. quantity \in Nat \ {0}
  BY <1>1, CycleBillingAssumption DEF ItemRows
<1>6. PICK amount :
        amount = CASE row.scheme = "per_unit" -> row.unit * quantity
                   [] row.scheme = "metered" -> ComputeMetered(row.unit, total)
                   [] row.scheme = "tiered" -> ComputeTiered(row.mode, row.tiers, quantity)
  OBVIOUS
<1>7. LineOf(i, item) = [row |-> row, quantity |-> quantity, usage |-> total, amount |-> amount]
  BY <1>1, <1>2, <1>6 DEF LineOf
<1>8. PICK line : line = LineOf(i, item)
  OBVIOUS
<1>9. line.row = row /\ line.quantity = quantity /\ line.usage = total /\ line.amount = amount
  BY <1>7, <1>8
<1> DEFINE Meant == CASE row.scheme = "per_unit" -> row.unit * quantity
                      [] row.scheme = "metered" -> row.unit * total
                      [] row.scheme = "tiered" -> TieredReference(row.mode, row.tiers, quantity)
<1>10. FollowsPrice(line) <=> amount = Meant
  BY <1>9 DEF FollowsPrice
<1>11. SUFFICES amount \in Nat /\ amount = Meant
  BY <1>8, <1>9, <1>10
<1>12. CASE row.scheme = "per_unit"
  <2>1. row.unit \in Nat
    BY <1>3, <1>12, PriceFields
  <2>2. row.unit * quantity \in Nat
    BY <1>5, <2>1
  <2> QED
    BY <1>6, <1>12, <2>2
<1>13. CASE row.scheme = "metered"
  <2>1. row.unit \in Nat
    BY <1>3, <1>13, PriceFields
  <2>2. row.unit * total \in Nat
    BY <1>4, <2>1
  <2> QED
    BY <1>6, <1>13, <2>2 DEF ComputeMetered
<1>14. CASE row.scheme = "tiered"
  <2>1. row.tiers \in Seq(Tiers) /\ row.tiers # <<>>
    BY <1>3, <1>14, PriceFields
  <2>2. /\ ComputeTiered(row.mode, row.tiers, quantity)
             = TieredReference(row.mode, row.tiers, quantity)
        /\ ComputeTiered(row.mode, row.tiers, quantity) \in Nat
    BY <1>5, <2>1, TiersAreAsMeant
  <2> QED
    BY <1>6, <1>14, <2>2
<1>15. row.scheme \in {"per_unit", "metered", "tiered"}
  BY <1>3, PriceFields
<1> QED
  BY <1>12, <1>13, <1>14, <1>15

LEMMA NextPriced ==
  ASSUME Types, Priced, Next
  PROVE  Priced'
<1>1. ASSUME lines' = lines PROVE LinesPriced'
  BY <1>1 DEF Priced, LinesPriced
<1>2. ASSUME NEW h \in Handlers, Bill(h) PROVE LinesPriced'
  <2> DEFINE billed == [i \in Items |-> LineOf(i, job[h].items[i])]
  <2>1. lines' = lines \/ lines' = billed
    BY <1>2 DEF Bill
  <2>2. \A i \in Items : job[h].items[i] \in ItemRows
    BY <1>2 DEF Bill, Busy, Types, Held, CloseJobs
  <2>3. ASSUME lines' = billed, NEW i \in Items, lines'[i] # NoLine
        PROVE  lines'[i].amount \in Nat /\ FollowsPrice(lines'[i])
    <3>1. lines'[i] = LineOf(i, job[h].items[i])
      BY <2>3
    <3> QED
      BY <2>2, <2>3, <3>1, LineIs
  <2> HIDE DEF billed
  <2> QED
    BY <1>1, <2>1, <2>3 DEF LinesPriced
<1>3. lines' = lines \/ \E h \in Handlers : Bill(h)
  BY DEF Next, DeletePrice, Report, ReadPrice, WritePrice, ReadForClose, Roll, ReadQuantity,
    WriteQuantity, RefuseQuantity, ReadCredit, SettleCharge, Die
<1>4. \/ disturbed' = disturbed
      \/ disturbed' \subseteq disturbed \cup {"close", "quantity", "credit", "periods"}
  <2>1. ASSUME NEW ends, NEW to PROVE Uneven(ends, to) \subseteq {"periods"}
    BY DEF Uneven
  <2>2. ASSUME NEW h \in Handlers, Roll(h)
        PROVE disturbed' \subseteq disturbed \cup {"periods"}
    BY <2>1, <2>2 DEF Roll
  <2> QED
    BY <2>2 DEF Next, DeletePrice, Report, ReadPrice, WritePrice, ReadForClose, Bill, ReadQuantity,
      WriteQuantity, RefuseQuantity, ReadCredit, SettleCharge, Die
<1> QED
  BY <1>1, <1>2, <1>3, <1>4 DEF Priced

LEMMA InitPriced == Init => Priced
<1>1. ASSUME NEW ends, NEW to PROVE Uneven(ends, to) \subseteq {"periods"}
  BY DEF Uneven
<1> QED
  BY <1>1 DEF Init, Priced, LinesPriced

-----------------------------------------------------------------------------
(* Changes of a quantity.                                                  *)

Changing(h) ==
  \/ \E i \in Items, q \in Quantities : ReadQuantity(h, i, q)
  \/ \E now \in Instants : WriteQuantity(h, now)

\* What every other step leaves alone; a roll among them.
LeavesQuantities ==
  /\ seats' = seats /\ disturbed \subseteq disturbed'
  /\ \A i \in Items : items'[i].quantity = items[i].quantity
  /\ \A o \in Handlers : job'[o] = job[o] \/ job'[o].kind # "quantity"

LEMMA OthersLeaveQuantities ==
  ASSUME Types, Next
  PROVE  LeavesQuantities \/ \E h \in Handlers : Changing(h)
<1> USE DEF LeavesQuantities
<1>1. ASSUME NEW p \in Prices, DeletePrice(p) PROVE LeavesQuantities
  BY <1>1 DEF DeletePrice, AtOnce
<1>2. ASSUME NEW r \in Reports, Report(r) PROVE LeavesQuantities
  BY <1>2 DEF Report, AtOnce
<1>3. ASSUME NEW h \in Handlers, NEW held, Begin(h, held), held.kind # "quantity"
      PROVE  \A o \in Handlers : job'[o] = job[o] \/ job'[o].kind # "quantity"
  BY <1>3, Began DEF Types
<1>4. ASSUME NEW h \in Handlers, End(h)
      PROVE  \A o \in Handlers : job'[o] = job[o] \/ job'[o].kind # "quantity"
  BY <1>4, Ended, IdleHolds DEF Types
<1>5. ASSUME NEW h \in Handlers, NEW patch \in Patches, ReadPrice(h, patch) PROVE LeavesQuantities
  BY <1>3, <1>5 DEF ReadPrice
<1>6. ASSUME NEW h \in Handlers, WritePrice(h) PROVE LeavesQuantities
  BY <1>4, <1>6 DEF WritePrice
<1>7. ASSUME NEW h \in Handlers, ReadForClose(h) PROVE LeavesQuantities
  BY <1>3, <1>7 DEF ReadForClose
<1>8. ASSUME NEW h \in Handlers, Bill(h) PROVE LeavesQuantities
  <2>1. job[h] \in CloseJobs /\ job' = [job EXCEPT ![h] = Billed(job[h])]
    BY <1>8 DEF Bill, Busy, Types, Held
  <2>2. Billed(job[h]).kind # "quantity"
    BY <2>1, BilledKeeps DEF CloseJobs
  <2> QED
    BY <1>8, <2>1, <2>2 DEF Bill, Types
<1>9. ASSUME NEW h \in Handlers, Roll(h) PROVE LeavesQuantities
  <2>1. \A i \in Items : items'[i].quantity = items[i].quantity
    BY <1>9, RollsOn
  <2> QED
    BY <1>4, <1>9, <2>1 DEF Roll
<1>10. ASSUME NEW h \in Handlers, RefuseQuantity(h) PROVE LeavesQuantities
  BY <1>4, <1>10 DEF RefuseQuantity
<1>11. ASSUME NEW h \in Handlers, NEW a \in Amounts, ReadCredit(h, a) PROVE LeavesQuantities
  BY <1>3, <1>11 DEF ReadCredit
<1>12. ASSUME NEW h \in Handlers, SettleCharge(h) PROVE LeavesQuantities
  BY <1>4, <1>12 DEF SettleCharge
<1>13. ASSUME NEW h \in Handlers, Die(h) PROVE LeavesQuantities
  BY <1>4, <1>13 DEF Die
<1> QED
  BY <1>1, <1>2, <1>5, <1>6, <1>7, <1>8, <1>9, <1>10, <1>11, <1>12, <1>13 DEF Next, Changing

LEMMA NextOneChange ==
  ASSUME Types, OneChange, Next
  PROVE  OneChange'
<1>1. ASSUME LeavesQuantities PROVE OneChange'
  BY <1>1 DEF OneChange, LeavesQuantities, Types, Held, Busy, Undisturbed
<1>2. ASSUME NEW h \in Handlers, NEW i \in Items, NEW q \in Quantities, ReadQuantity(h, i, q)
      PROVE  OneChange'
  <2> DEFINE held == [kind |-> "quantity", i |-> i, item |-> items[i], quantity |-> q]
  <2>1. /\ job'[h] = held /\ \A o \in Handlers : o # h => job'[o] = job[o]
        /\ items' = items /\ seats' = seats
    BY <1>2, Began DEF ReadQuantity, Types
  <2>2. Undisturbed({"quantity"})' =>
          Undisturbed({"quantity"}) /\ \A o \in Handlers : ~(Busy("quantity", o) /\ job[o].i = i)
    BY <1>2 DEF ReadQuantity, Undisturbed
  <2>3. held.i = i /\ held.item = items[i]
    OBVIOUS
  <2> HIDE DEF held
  <2> QED
    BY <2>1, <2>2, <2>3 DEF OneChange, Busy
<1>3. ASSUME NEW h \in Handlers, NEW now \in Instants, WriteQuantity(h, now) PROVE OneChange'
  <2> SUFFICES ASSUME Undisturbed({"quantity"})' PROVE OneChange'
    BY DEF OneChange
  <2> DEFINE i == job[h].i
  <2>1. Undisturbed({"quantity"}) /\ Busy("quantity", h)
    BY <1>3 DEF WriteQuantity, Undisturbed
  <2>2. i \in Items /\ job[h].item \in ItemRows /\ job[h].quantity \in Int
          /\ job[h].item.quantity \in Int
    <3>1. i \in Items /\ job[h].item \in ItemRows /\ job[h].quantity \in Quantities
      BY <2>1 DEF Types, Busy, Held
    <3>2. job[h].item.quantity \in Quantities
      BY <3>1 DEF ItemRows
    <3> QED
      BY <3>1, <3>2, Numbers, Zenon
  <2>3. job'[h] = Idle /\ \A o \in Handlers : o # h => job'[o] = job[o]
    BY <1>3, Ended DEF WriteQuantity, Types
  <2>4. items[i].quantity = job[h].item.quantity /\ items[i].quantity = seats[i]
    BY <2>1, <2>2 DEF OneChange
  <2>5. items'[i].quantity = job[h].quantity
    BY <1>3, <2>2 DEF WriteQuantity, Types, ItemRows
  <2>6. seats'[i] = seats[i] + (job[h].quantity - job[h].item.quantity)
    BY <1>3, <2>2 DEF WriteQuantity, Types
  <2>7. \A j \in Items : j # i => items'[j] = items[j] /\ seats'[j] = seats[j]
    BY <1>3, <2>2 DEF WriteQuantity, Types
  <2>8. \A j \in Items : items'[j].quantity = seats'[j]
    <3>1. seats'[i] = job[h].quantity
      <4> DEFINE old == job[h].item.quantity
      <4> DEFINE new == job[h].quantity
      <4>1. old \in Int /\ new \in Int /\ seats[i] = old /\ seats'[i] = old + (new - old)
        BY <2>2, <2>4, <2>6, Zenon
      <4> HIDE DEF old, new
      <4>2. seats'[i] = new
        BY <4>1
      <4> QED
        BY <4>2 DEF new
    <3> QED
      BY <2>1, <2>5, <2>7, <3>1 DEF OneChange
  <2>9. \A o \in Handlers : Busy("quantity", o)' =>
          o # h /\ Busy("quantity", o) /\ job'[o] = job[o] /\ job[o].i \in Items /\ job[o].i # i
    BY <2>1, <2>3, IdleHolds DEF OneChange, Busy, Types, Held
  <2> HIDE DEF i
  <2> QED
    BY <2>1, <2>7, <2>8, <2>9 DEF OneChange
<1> QED
  BY <1>1, <1>2, <1>3, OthersLeaveQuantities DEF Changing

-----------------------------------------------------------------------------
(* The credit balance.                                                     *)

Moving(h) ==
  \/ \E now \in Instants : WriteQuantity(h, now)
  \/ \E a \in Amounts : ReadCredit(h, a)
  \/ SettleCharge(h)

LeavesCredit ==
  /\ credit' = credit /\ ledger' = ledger /\ disturbed \subseteq disturbed'
  /\ \A o \in Handlers : job'[o] = job[o] \/ job'[o].kind # "charge"

LEMMA OthersLeaveCredit ==
  ASSUME Types, Next
  PROVE  LeavesCredit \/ \E h \in Handlers : Moving(h)
<1> USE DEF LeavesCredit
<1>1. ASSUME NEW p \in Prices, DeletePrice(p) PROVE LeavesCredit
  BY <1>1 DEF DeletePrice, AtOnce
<1>2. ASSUME NEW r \in Reports, Report(r) PROVE LeavesCredit
  BY <1>2 DEF Report, AtOnce
<1>3. ASSUME NEW h \in Handlers, NEW held, Begin(h, held), held.kind # "charge"
      PROVE  \A o \in Handlers : job'[o] = job[o] \/ job'[o].kind # "charge"
  BY <1>3, Began DEF Types
<1>4. ASSUME NEW h \in Handlers, End(h)
      PROVE  \A o \in Handlers : job'[o] = job[o] \/ job'[o].kind # "charge"
  BY <1>4, Ended, IdleHolds DEF Types
<1>5. ASSUME NEW h \in Handlers, NEW patch \in Patches, ReadPrice(h, patch) PROVE LeavesCredit
  BY <1>3, <1>5 DEF ReadPrice
<1>6. ASSUME NEW h \in Handlers, WritePrice(h) PROVE LeavesCredit
  BY <1>4, <1>6 DEF WritePrice
<1>7. ASSUME NEW h \in Handlers, ReadForClose(h) PROVE LeavesCredit
  BY <1>3, <1>7 DEF ReadForClose
<1>8. ASSUME NEW h \in Handlers, Bill(h) PROVE LeavesCredit
  <2>1. job[h] \in CloseJobs /\ job' = [job EXCEPT ![h] = Billed(job[h])]
    BY <1>8 DEF Bill, Busy, Types, Held
  <2>2. Billed(job[h]).kind # "charge"
    BY <2>1, BilledKeeps DEF CloseJobs
  <2> QED
    BY <1>8, <2>1, <2>2 DEF Bill, Types
<1>9. ASSUME NEW h \in Handlers, Roll(h) PROVE LeavesCredit
  BY <1>4, <1>9 DEF Roll
<1>10. ASSUME NEW h \in Handlers, NEW i \in Items, NEW q \in Quantities, ReadQuantity(h, i, q)
       PROVE LeavesCredit
  BY <1>3, <1>10 DEF ReadQuantity
<1>11. ASSUME NEW h \in Handlers, RefuseQuantity(h) PROVE LeavesCredit
  BY <1>4, <1>11 DEF RefuseQuantity
<1>12. ASSUME NEW h \in Handlers, Die(h) PROVE LeavesCredit
  BY <1>4, <1>12 DEF Die
<1> QED
  BY <1>1, <1>2, <1>5, <1>6, <1>7, <1>8, <1>9, <1>10, <1>11, <1>12 DEF Next, Moving

LEMMA NextOneCharge ==
  ASSUME Types, OneCharge, Next
  PROVE  OneCharge'
<1>1. ASSUME LeavesCredit PROVE OneCharge'
  BY <1>1 DEF OneCharge, LeavesCredit, Busy, Undisturbed
<1>2. ASSUME NEW h \in Handlers, NEW now \in Instants, WriteQuantity(h, now) PROVE OneCharge'
  <2> SUFFICES ASSUME Undisturbed({"credit"})' PROVE OneCharge'
    BY DEF OneCharge
  <2>1. Undisturbed({"credit"}) /\ ~SomeBusy("charge")
    BY <1>2 DEF WriteQuantity, Undisturbed
  <2>2. Proration(h, now) \in Int
    BY <1>2, ProrationIsWhole DEF WriteQuantity
  <2>3. credit' = credit + (-Proration(h, now)) /\ ledger' = ledger - Proration(h, now)
    BY <1>2 DEF WriteQuantity, CreditDelta
  <2>4. credit' = ledger'
    BY <2>1, <2>2, <2>3 DEF OneCharge, Types
  <2>5. \A o \in Handlers : ~Busy("charge", o)'
    <3>1. job'[h] = Idle /\ \A o \in Handlers : o # h => job'[o] = job[o]
      BY <1>2, Ended DEF WriteQuantity, Types
    <3> QED
      BY <2>1, <3>1, IdleHolds DEF SomeBusy, Busy
  <2> QED
    BY <2>4, <2>5 DEF OneCharge
<1>3. ASSUME NEW h \in Handlers, NEW a \in Amounts, ReadCredit(h, a) PROVE OneCharge'
  <2> DEFINE held == [kind |-> "charge", available |-> credit, applied |-> Min({credit, a})]
  <2>1. /\ job'[h] = held /\ \A o \in Handlers : o # h => job'[o] = job[o]
        /\ credit' = credit /\ ledger' = ledger
    BY <1>3, Began DEF ReadCredit, Types
  <2>2. Undisturbed({"credit"})' => Undisturbed({"credit"}) /\ ~SomeBusy("charge")
    BY <1>3 DEF ReadCredit, Undisturbed
  <2>3. held.available = credit
    OBVIOUS
  <2> HIDE DEF held
  <2> QED
    BY <2>1, <2>2, <2>3 DEF OneCharge, SomeBusy, Busy
<1>4. ASSUME NEW h \in Handlers, SettleCharge(h) PROVE OneCharge'
  <2>1. job'[h] = Idle /\ \A o \in Handlers : o # h => job'[o] = job[o]
    BY <1>4, Ended DEF SettleCharge, Types
  <2>2. /\ Busy("charge", h) /\ disturbed' = disturbed
        /\ credit' = job[h].available - job[h].applied /\ ledger' = ledger - job[h].applied
    BY <1>4 DEF SettleCharge, CreditLeft
  <2> QED
    BY <2>1, <2>2, IdleHolds DEF OneCharge, Undisturbed, Busy
<1> QED
  BY <1>1, <1>2, <1>3, <1>4, OthersLeaveCredit DEF Moving

-----------------------------------------------------------------------------
(* The theorems.                                                           *)

LEMMA InitIInv == Init => IInv
<1> SUFFICES ASSUME Init PROVE IInv
  OBVIOUS
<1>1. Types
  BY InitTypes
<1>2. \A h \in Handlers, kind \in {"close", "quantity", "charge"} : ~Busy(kind, h)
  BY IdleHolds DEF Init, Busy
<1> DEFINE Start(anchor, quantity, window) ==
      /\ window = [i \in Items |-> FirstWindow(price, i, anchor)]
      /\ items = [i \in Items |-> [quantity |-> quantity[i], window |-> window[i]]]
      /\ sub \in [status : {"trialing", "active", "past_due"}, window : {window[1]}]
      /\ disturbed = Uneven([i \in Items |-> window[i].to], window[1].to)
      /\ seats = quantity
      /\ summed = [i \in Items |-> anchor]
<1>3. PICK anchor \in Anchors, quantity \in Openings :
        Start(anchor, quantity, [i \in Items |-> FirstWindow(price, i, anchor)])
  BY Zenon DEF Init
<1>4. OneClose
  BY <1>2 DEF OneClose
<1>5. EvenWindows
  <2>1. sub.window = FirstWindow(price, 1, anchor)
    <3>1. 1 \in Items
      BY Numbers DEF Items
    <3> QED
      BY <1>3, <3>1
  <2>2. \A i \in Items : items[i].window = FirstWindow(price, i, anchor)
    BY <1>3
  <2>3. disturbed = Uneven([i \in Items |-> FirstWindow(price, i, anchor).to],
                           FirstWindow(price, 1, anchor).to)
    <3>1. 1 \in Items
      BY Numbers DEF Items
    <3> QED
      BY <1>3, <3>1
  <2> QED
    BY <2>1, <2>2, <2>3 DEF EvenWindows, Undisturbed, Uneven
<1>6. Summed
  <2>1. \A i \in Items : summed[i] = items[i].window.from
    BY <1>3 DEF FirstWindow, Window
  <2>2. ~Rolling
    BY <1>2 DEF Rolling
  <2>3. DOMAIN usage = {}
    BY DEF Init
  <2> QED
    BY <2>1, <2>2, <2>3 DEF Summed
<1>7. OneChange
  <2>1. \A i \in Items : items[i].quantity = seats[i]
    BY <1>3
  <2> QED
    BY <1>2, <2>1 DEF OneChange
<1>8. OneCharge
  BY <1>2 DEF OneCharge, Init
<1>9. Priced
  BY InitPriced
<1> QED
  BY <1>1, <1>4, <1>5, <1>6, <1>7, <1>8, <1>9 DEF IInv

LEMMA NextIInv == IInv /\ [Next]_vars => IInv'
<1>1. ASSUME IInv, Next PROVE IInv'
  BY <1>1, NextTypes, NextPriced, NextOneClose, NextEven, NextSummed, NextOneChange,
    NextOneCharge DEF IInv
<1>2. ASSUME IInv, UNCHANGED vars PROVE IInv'
  BY <1>2 DEF vars, IInv, Types, Priced, LinesPriced, OneClose, EvenWindows, Summed, OneChange,
    OneCharge, Rolling, Busy, Undisturbed
<1> QED
  BY <1>1, <1>2

LEMMA Inductive == Spec => []IInv
<1> QED
  BY InitIInv, NextIInv, PTL DEF Spec

\* Price rows stay complete for their scheme whatever is patched or deleted between a
\* read and a write, windows are never empty, no usage record or line is negative
\* (assertPrice, updatePrice, rollPeriod, buildLineItems).
THEOREM TypeCorrect == Spec => []TypeOK
<1>1. IInv => TypeOK
  <2> SUFFICES ASSUME IInv PROVE TypeOK
    OBVIOUS
  <2>1. Types /\ Priced
    BY DEF IInv
  <2>2. \A k \in DOMAIN usage : usage[k].quantity \in Nat /\ usage[k].counted \in Nat
    <3> SUFFICES ASSUME NEW k \in DOMAIN usage
                 PROVE  usage[k].quantity \in Nat /\ usage[k].counted \in Nat
      OBVIOUS
    <3>1. usage[k] \in Records
      BY <2>1 DEF Types
    <3> QED
      BY <3>1 DEF Records
  <2> QED
    BY <2>1, <2>2 DEF Types, TypeOK, Priced, LinesPriced, SubRows, ItemRows
<1> QED
  BY <1>1, Inductive, PTL

\* The lines of a cycle invoice cost what their prices say, tiers being a division of
\* the units in ceiling order: for any prices, tiers and quantities (buildLineItems,
\* computeTiered, computeMetered).
THEOREM LinesCostTheirPrice == Spec => []LinesFollowPrice
<1>1. IInv => LinesFollowPrice
  BY DEF IInv, Priced, LinesPriced, FollowsPrice, LinesFollowPrice
<1> QED
  BY <1>1, Inductive, PTL

\* A usage record is summed by exactly one close once its window is closed, unless it
\* came too late, closes overlap or stop half-way, or the items' periods differ: for any
\* prices, any interleaving with changes of prices and quantities, any number of
\* handlers (closePeriod, sumUsage, rollPeriod).
THEOREM UsageIsBilledOnce == Spec => []UsageCountedOnce
<1>1. IInv => UsageCountedOnce
  <2> SUFFICES ASSUME IInv, Undisturbed({"close", "periods"}), NEW k \in DOMAIN usage
               PROVE  usage[k].counted =
                        IF ~usage[k].late /\ usage[k].at < summed[usage[k].item] THEN 1 ELSE 0
    BY DEF UsageCountedOnce
  <2> QED
    BY DEF IInv, Summed, Expected
<1> QED
  BY <1>1, Inductive, PTL

\* Changes of an item's quantity that do not overlap are what proration charged for,
\* whatever periods roll in between (applyProration, rollPeriod).
THEOREM ChangesAreProrated == Spec => []QuantityIsProrated
<1>1. IInv => QuantityIsProrated
  BY DEF IInv, OneChange, QuantityIsProrated
<1> QED
  BY <1>1, Inductive, PTL

\* Credit is neither made nor lost unless a charge is overlapped by a proration or
\* another charge (applyProration, InvoiceService.charge).
THEOREM CreditAddsUp == Spec => []CreditIsConserved
<1>1. IInv => CreditIsConserved
  BY DEF IInv, OneCharge, CreditIsConserved
<1> QED
  BY <1>1, Inductive, PTL

\* Without overlapping closes a period is followed by the one that starts at its end,
\* and no period is empty (closePeriod, rollPeriod, addInterval).
THEOREM NoPeriodIsSkipped == Spec => PeriodsFollowOn
<1> DEFINE Follows == sub'.window # sub.window /\ "close" \notin disturbed
             => sub'.window.from = sub.window.to /\ sub'.window.to > sub'.window.from
<1>1. ASSUME IInv, Next PROVE Follows
  <2>1. ASSUME NEW h \in Handlers, Roll(h) PROVE Follows
    <3>1. Busy("close", h)
      BY <2>1 DEF Roll
    <3>2. "close" \notin disturbed => job[h].sub.window = sub.window
      BY <1>1, <3>1 DEF IInv, OneClose, Undisturbed
    <3>3. sub'.window.from = job[h].sub.window.to /\ sub'.window.to > sub'.window.from
      BY <1>1, <2>1, RollsOn DEF IInv
    <3> QED
      BY <3>2, <3>3
  <2>2. ASSUME NEW h \in Handlers, ReadForClose(h) \/ Bill(h) PROVE Follows
    BY <2>2 DEF ReadForClose, Bill
  <2>3. ASSUME LeavesCloses PROVE Follows
    BY <2>3 DEF LeavesCloses
  <2> QED
    BY <1>1, <2>1, <2>2, <2>3, OthersLeaveCloses DEF IInv, Closing
<1>2. ASSUME IInv, [Next]_vars PROVE [Follows]_vars
  BY <1>1, <1>2
<1> QED
  BY <1>2, Inductive, PTL DEF Spec, PeriodsFollowOn
=============================================================================
