------------------------------ MODULE Billing ------------------------------
(***************************************************************************)
(* The pure computations of a billing period: what a quantity costs under  *)
(* a price, and where a period that starts at an instant ends.  Instants   *)
(* are days counted from the 1st of January of a year that is no leap      *)
(* year (the third one after it is).  Amounts are minor units; a tier's    *)
(* unit amount is not rounded when it is stored, so it is a number of      *)
(* 1/RateScale of a minor unit.                                            *)
(***************************************************************************)
EXTENDS Integers, Sequences, SequencesExt

Absent == -1         \* an optional amount that was not given
Unbounded == 1000000 \* the ceiling of a tier without up_to
RateScale == 2       \* tiers are rated in halves of a minor unit

\* Math.round(n / d): the nearest integer, halves upwards.
Round(n, d) == (2 * n + d) \div (2 * d)

Clamp(n, low, high) == IF n < low THEN low ELSE IF n > high THEN high ELSE n

-----------------------------------------------------------------------------
(* Amounts.                                                                *)

\* One tier: the ceiling of the units it covers, a flat and a unit amount.
Tiers == [upTo : Nat \ {0}, flat : Nat \cup {Absent}, unit : Nat]

\* toSorted is stable: tiers of one ceiling stay in their order.
Before(tiers, i, j) ==
  \/ tiers[i].upTo < tiers[j].upTo
  \/ tiers[i].upTo = tiers[j].upTo /\ i < j

Rank(tiers, i) == Cardinality({j \in DOMAIN tiers : j = i \/ Before(tiers, j, i)})

ByCeiling(tiers) ==
  [n \in DOMAIN tiers |-> tiers[CHOOSE i \in DOMAIN tiers : Rank(tiers, i) = n]]

Flat(tier) == IF tier.flat = Absent THEN 0 ELSE tier.flat

\* One bucket for the whole quantity: the first tier that covers it, else the last.
Volume(tiers, quantity) ==
  LET sorted == ByCeiling(tiers)
      covering == {i \in DOMAIN sorted : quantity <= sorted[i].upTo}
      tier == sorted[IF covering = {} THEN Len(sorted) ELSE Min(covering)]
  IN  IF tier.flat # Absent THEN tier.flat ELSE Round(tier.unit * quantity, RateScale)

\* One pass of the loop over the tiers: it takes the units up to its ceiling.
TakeTier_FromZero(sum, tier) ==
  LET units == Min({sum.remaining, tier.upTo})
  IN  IF sum.remaining <= 0 THEN sum
      ELSE [total |-> sum.total + Flat(tier) + Round(tier.unit * units, RateScale),
            remaining |-> sum.remaining - units,
            prevUpTo |-> tier.upTo]

TakeTier(sum, tier) ==
  LET units == Min({sum.remaining, tier.upTo - sum.prevUpTo})
  IN  IF sum.remaining <= 0 THEN sum
      ELSE IF units <= 0 THEN [sum EXCEPT !.prevUpTo = tier.upTo]
      ELSE [total |-> sum.total + Flat(tier) + Round(tier.unit * units, RateScale),
            remaining |-> sum.remaining - units,
            prevUpTo |-> tier.upTo]

Graduated(tiers, quantity) ==
  LET sorted == ByCeiling(tiers)
      after[n \in 0 .. Len(tiers)] ==
        IF n = 0 THEN [total |-> 0, remaining |-> quantity, prevUpTo |-> 0]
        ELSE TakeTier(after[n - 1], sorted[n])
  IN  after[Len(tiers)].total

ComputeTiered(mode, tiers, quantity) ==
  IF quantity <= 0 THEN 0
  ELSE IF mode = "volume" THEN Volume(tiers, quantity) ELSE Graduated(tiers, quantity)

ComputeMetered(unitAmount, usage) == unitAmount * usage

\* The change of a quantity by some seats, for the rest of a period at an instant:
\* the fraction that remains is cut to 0..1.
Prorated(unitAmount, seats, start, end, now) ==
  LET total == Max({1, end - start})
  IN  Round(unitAmount * seats * Clamp(end - now, 0, total), total)

-----------------------------------------------------------------------------
(* Periods.                                                                *)

Intervals == {"day", "week", "month", "year"}
Periods == [interval : Intervals, count : Nat \ {0}]

\* The days of a common year before each of its months.
DaysBefore == <<0, 31, 59, 90, 120, 151, 181, 212, 243, 273, 304, 334>>

\* The first day of a month, of months counted from that January.
MonthStart(month) ==
  LET year == month \div 12
      leapDay == IF year % 4 = 3 /\ month % 12 >= 2 THEN 1 ELSE 0
  IN  365 * year + year \div 4 + DaysBefore[(month % 12) + 1] + leapDay

MonthOf(day) == Max({month \in day \div 31 .. day \div 28 : MonthStart(month) <= day})

\* setUTCMonth: the same day of a later month; a day that month does not have runs
\* over into the next one.
AddMonths(day, months) ==
  LET month == MonthOf(day) IN MonthStart(month + months) + (day - MonthStart(month))

AddPeriod(start, period) ==
  CASE period.interval = "day" -> start + period.count
    [] period.interval = "week" -> start + 7 * period.count
    [] period.interval = "month" -> AddMonths(start, period.count)
    [] period.interval = "year" -> AddMonths(start, 12 * period.count)

-----------------------------------------------------------------------------
(* What the amounts are meant to be: the tiers seen as a division of the   *)
(* units 1 .. quantity, without a running remainder.                       *)

\* The units a tier covers: those above every lower ceiling and up to its own.  Of
\* two tiers of one ceiling the later one has nothing left to cover.
UnitsOf(tiers, i, quantity) ==
  {u \in 1 .. quantity :
    /\ u <= tiers[i].upTo
    /\ \A j \in DOMAIN tiers : Before(tiers, j, i) => tiers[j].upTo < u}

TierShare(tiers, i, quantity) ==
  LET units == Cardinality(UnitsOf(tiers, i, quantity))
  IN  IF units = 0 THEN 0 ELSE Flat(tiers[i]) + Round(tiers[i].unit * units, RateScale)

GraduatedReference(tiers, quantity) ==
  MapThenSumSet(LAMBDA i : TierShare(tiers, i, quantity), DOMAIN tiers)

\* The tier that covers the last unit, or else the one that no other is above.
VolumeReference(tiers, quantity) ==
  LET wide == {i \in DOMAIN tiers : quantity \in UnitsOf(tiers, i, quantity)}
      last == {i \in DOMAIN tiers : \A j \in DOMAIN tiers : ~Before(tiers, i, j)}
      tier == tiers[CHOOSE i \in (IF wide = {} THEN last ELSE wide) : TRUE]
  IN  IF tier.flat # Absent THEN tier.flat ELSE Round(tier.unit * quantity, RateScale)

TieredReference(mode, tiers, quantity) ==
  IF mode = "volume" THEN VolumeReference(tiers, quantity)
  ELSE GraduatedReference(tiers, quantity)
=============================================================================
