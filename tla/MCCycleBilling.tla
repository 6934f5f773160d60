-------------------------- MODULE MCCycleBilling --------------------------
(* A small instance of CycleBilling for TLC. *)
EXTENDS CycleBilling

Day(n) == [interval |-> "day", count |-> n]
Month(n) == [interval |-> "month", count |-> n]

\* Tiers as a client may send them, out of order, with and without a last ceiling.
Steps ==
  << [upTo |-> 3, flat |-> Absent, unit |-> 3], [upTo |-> 1, flat |-> 2, unit |-> 5] >>
OpenEnded ==
  << [upTo |-> 2, flat |-> 1, unit |-> 1], [upTo |-> Unbounded, flat |-> Absent, unit |-> 3] >>

PriceRow(scheme, unit, mode, tiers, period) ==
  [scheme |-> scheme, unit |-> unit, mode |-> mode, tiers |-> tiers, period |-> period]

Seat(unit, period) == PriceRow("per_unit", unit, "volume", <<>>, period)
Metered(unit, period) == PriceRow("metered", unit, "volume", <<>>, period)
Tiered(mode, tiers, period) == PriceRow("tiered", Absent, mode, tiers, period)

MCPriceOf == <<"p1", "p2">>

\* Seats or tiers with usage, in equal and in unequal periods.
MCTariffs ==
  { [p1 |-> Seat(3, Month(1)), p2 |-> Metered(2, Month(1))],
    [p1 |-> Tiered("graduated", Steps, Month(1)), p2 |-> Metered(2, Month(1))],
    [p1 |-> Tiered("volume", OpenEnded, Day(7)), p2 |-> Metered(2, Month(1))] }

MCPatches == { [price |-> "p1", body |-> [period |-> Day(7)]], [price |-> "p2", body |-> [unit |-> 4]] }
MCAnchors == {30}                        \* the 31st of January
MCOpenings == {<<2, 1>>, <<4, 1>>}
MCReports == { [item |-> 2, quantity |-> 1, at |-> 40], [item |-> 2, quantity |-> 2, at |-> 61] }
MCInstants == {29, 45, 70}               \* before, within and after the first window

\* Volume tiers of every shape, in any order and with equal ceilings, cost what they are
\* meant to cost.
SomeTiers == [upTo : {1, 3, Unbounded}, flat : {Absent, 0, 2}, unit : {0, 1, 3}]
ASSUME VolumeIsAsMeant ==
  \A s, t \in SomeTiers, quantity \in 1 .. 5 :
    Volume(<<s, t>>, quantity) = VolumeReference(<<s, t>>, quantity)

\* Months partition the days, and the 31st of January runs over into March.
ASSUME CalendarIsSound ==
  /\ \A day \in 0 .. 1500 : LET month == MonthOf(day) IN
       MonthStart(month) <= day /\ day < MonthStart(month + 1)
  /\ AddPeriod(30, Month(1)) = MonthStart(2) + 2

\* Handlers are only compared.
Symmetry == Permutations(Handlers)
=============================================================================
