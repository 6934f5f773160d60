------------------------ MODULE WebhookDeliveryProofs ------------------------
(***************************************************************************)
(* Proofs about WebhookDelivery for any events, endpoints, workers and     *)
(* bounds.                                                                 *)
(*                                                                         *)
(* Types and SettledIsSkipped hold whatever overlaps and restarts.  The    *)
(* backoff and the budget hold while one pass or replay runs at a time,    *)
(* the budget also needs endpoints that ask for one number of attempts:    *)
(* Alone and the hypotheses of the theorems say so, and the README shows   *)
(* what goes wrong without them.                                           *)
(***************************************************************************)
EXTENDS WebhookDelivery, TLAPS

Replaying == {"ensuring", "resetting", "reloading", "reloaded"}
InFlight(w, x) == flight[w][x].stage # "none"

\* A replay is about one pair, which has its row once ensured; an attempt that
\* is made has been counted.
Held ==
  \A w \in Workers :
    /\ pass[w].step \in Replaying => \E x \in Pairs : pass[w].todo = {x}
    /\ pass[w].step \in {"resetting", "reloading"} =>
         \A x \in pass[w].todo : delivery[x].made
    /\ \A x \in Pairs : InFlight(w, x) => flight[w][x].attempt >= 1

Typed == TypeOK /\ Held

-----------------------------------------------------------------------------
(* Rows.                                                                   *)

LEMMA EmittedAreEvents ==
  ASSUME outbox \in Seq(Events) PROVE Emitted \subseteq Events
  BY DEF Emitted, Range

LEMMA RowTypes ==
  /\ NoDelivery \in DeliveryRows /\ FirstAttempt \in DeliveryRows
  /\ NoEndpoint \in EndpointRows /\ NoFlight \in Flights /\ NoPass \in Passes
  BY DEF NoDelivery, FirstAttempt, DeliveryRows, NoEndpoint, EndpointRows,
         NoFlight, Flights, Stages, NoPass, Passes, Steps

\* The rows that a mark leaves.
LEMMA Marks ==
  ASSUME NEW row \in DeliveryRows, NEW n \in Nat
  PROVE  /\ [row EXCEPT !.delivered = TRUE] \in DeliveryRows
         /\ [row EXCEPT !.attempt = n] \in DeliveryRows
         /\ [row EXCEPT !.deadlettered = TRUE, !.attempt = n] \in DeliveryRows
  BY Zenon DEF DeliveryRows

\* Rows are never unmade, and a row that is made has been counted.
Kept ==
  /\ delivery' \in [Pairs -> DeliveryRows]
  /\ \A x \in Pairs : delivery[x].made => delivery'[x].made
  /\ \A x \in Pairs : delivery'[x].made => delivery'[x].attempt >= 1

\* An insert that meets a row keeps it.
LEMMA InsertKeeps ==
  ASSUME Typed, NEW x \in Pairs, delivery' = Inserted(x)
  PROVE  Kept /\ delivery'[x].made
<1>1. CASE delivery[x].made
  BY <1>1 DEF Typed, TypeOK, Kept, Inserted
<1>2. CASE ~delivery[x].made
  <2>1. delivery' = [delivery EXCEPT ![x] = FirstAttempt]
    BY <1>2 DEF Inserted
  <2>2. FirstAttempt.made /\ FirstAttempt.attempt = 1
    BY DEF FirstAttempt
  <2> QED
    BY <2>1, <2>2, RowTypes DEF Typed, TypeOK, Kept
<1> QED
  BY <1>1, <1>2

LEMMA ResetKeeps ==
  ASSUME Typed, NEW x \in Pairs, delivery' = [delivery EXCEPT ![x] = FirstAttempt]
  PROVE  Kept
<1>1. FirstAttempt.made /\ FirstAttempt.attempt = 1
  BY DEF FirstAttempt
<1> QED
  BY <1>1, RowTypes DEF Typed, TypeOK, Kept

-----------------------------------------------------------------------------
(* What every step but one of a worker's own leaves of the types.          *)

\* The parts of TypeOK and Held that are about passes and attempts.
PassesOK ==
  /\ pass \in [Workers -> Passes]
  /\ \A w \in Workers :
       /\ pass[w].step \in Replaying => \E x \in Pairs : pass[w].todo = {x}
       /\ pass[w].step \in {"resetting", "reloading"} =>
            \A x \in pass[w].todo : delivery[x].made
FlightsOK ==
  /\ flight \in [Workers -> [Pairs -> Flights]]
  /\ \A w \in Workers, x \in Pairs :
       InFlight(w, x) => delivery[x].made /\ flight[w][x].attempt >= 1
RowsOK ==
  /\ delivery \in [Pairs -> DeliveryRows]
  /\ \A x \in Pairs : delivery[x].made => delivery[x].attempt >= 1
RestOK ==
  /\ outbox \in Seq(Events)
  /\ endpoint \in [Endpoints -> EndpointRows]
  /\ cooling \subseteq Pairs /\ window \subseteq Pairs /\ accepted \subseteq Pairs
  /\ posts \in [Watched -> Nat] /\ early \in [Watched -> Nat]
  /\ spared \in [Workers -> SUBSET Pairs]
  /\ changes \in Nat /\ replays \in Nat /\ restarts \in Nat

LEMMA Parts == Typed <=> PassesOK /\ FlightsOK /\ RowsOK /\ RestOK
<1>1. ASSUME Typed PROVE PassesOK /\ FlightsOK /\ RowsOK /\ RestOK
  <2>1. PassesOK
    BY <1>1 DEF Typed, TypeOK, Held, PassesOK
  <2>2. FlightsOK
    BY <1>1 DEF Typed, TypeOK, Held, FlightsOK, InFlight
  <2> QED
    BY <1>1, <2>1, <2>2 DEF Typed, TypeOK, RowsOK, RestOK
<1>2. ASSUME PassesOK, FlightsOK, RowsOK, RestOK PROVE Typed
  <2>1. TypeOK
    BY <1>2 DEF TypeOK, PassesOK, FlightsOK, RowsOK, RestOK, InFlight
  <2>2. Held
    BY <1>2 DEF Held, PassesOK, FlightsOK
  <2> QED
    BY <2>1, <2>2 DEF Typed
<1> QED
  BY <1>1, <1>2

\* Rows that are kept do not disturb the passes and attempts of anybody.
LEMMA KeptLeavesPasses ==
  ASSUME Typed, Kept, UNCHANGED pass PROVE PassesOK'
  BY DEF Typed, TypeOK, Held, Kept, PassesOK, Passes

LEMMA KeptLeavesFlights ==
  ASSUME Typed, Kept, UNCHANGED flight PROVE FlightsOK'
  BY DEF Typed, TypeOK, Held, Kept, FlightsOK, InFlight

LEMMA UnchangedIsKept ==
  ASSUME Typed, UNCHANGED delivery PROVE Kept
  BY DEF Typed, TypeOK, Kept

\* One worker's pass becomes another one.
LEMMA NewPass ==
  ASSUME Typed, Kept, NEW w \in Workers, NEW q \in Passes,
         pass' = [pass EXCEPT ![w] = q],
         q.step \in Replaying => \E x \in Pairs : q.todo = {x},
         q.step \in {"resetting", "reloading"} => \A x \in q.todo : delivery'[x].made
  PROVE  PassesOK'
<1> SUFFICES ASSUME NEW v \in Workers
             PROVE  /\ pass'[v].step \in Replaying => \E x \in Pairs : pass'[v].todo = {x}
                    /\ pass'[v].step \in {"resetting", "reloading"} =>
                         \A x \in pass'[v].todo : delivery'[x].made
  BY DEF Typed, TypeOK, PassesOK
<1>1. CASE v = w
  BY <1>1 DEF Typed, TypeOK
<1>2. CASE v # w
  <2>1. pass'[v] = pass[v] /\ pass[v].todo \subseteq Pairs
    BY <1>2 DEF Typed, TypeOK, Passes
  <2> QED
    BY <2>1 DEF Typed, Held, Kept
<1> QED
  BY <1>1, <1>2

LEMMA NoPassIs ==
  NoPass.step = "idle" /\ NoPass.todo = {} /\ NoPass.seen = {} /\ NoPass.missing = {}
  BY DEF NoPass

\* One attempt becomes another one.
LEMMA NewFlight ==
  ASSUME Typed, Kept, NEW w \in Workers, NEW x \in Pairs, NEW f \in Flights,
         flight' = [flight EXCEPT ![w][x] = f],
         f.stage # "none" => InFlight(w, x) /\ f.attempt = flight[w][x].attempt
  PROVE  FlightsOK'
<1>1. flight' \in [Workers -> [Pairs -> Flights]]
  BY DEF Typed, TypeOK
<1>2. ASSUME NEW v \in Workers, NEW y \in Pairs, InFlight(v, y)'
      PROVE  delivery'[y].made /\ flight'[v][y].attempt >= 1
  <2>1. flight'[v][y] = IF v = w /\ y = x THEN f ELSE flight[v][y]
    BY DEF Typed, TypeOK
  <2>2. InFlight(v, y) /\ flight'[v][y].attempt = flight[v][y].attempt
    BY <1>2, <2>1 DEF InFlight
  <2> QED
    BY <2>2 DEF Typed, TypeOK, Held, Kept, InFlight
<1> QED
  BY <1>1, <1>2 DEF FlightsOK

\* The attempts that a pass or replay prepares from the rows it has read.
LEMMA HoldTypes ==
  ASSUME Typed, NEW w \in Workers, NEW work \in SUBSET Pairs, Hold(w, work),
         \A x \in work : delivery[x].made, UNCHANGED delivery
  PROVE  FlightsOK'
<1> DEFINE f(x) == IF x \in work
                   THEN [stage |-> "read", attempt |-> delivery[x].attempt,
                         max |-> pass[w].rows[x[2]].max]
                   ELSE NoFlight
<1>1. \A x \in Pairs : f(x) \in Flights
  <2> SUFFICES ASSUME NEW x \in Pairs PROVE f(x) \in Flights
    OBVIOUS
  <2>1. delivery[x].attempt \in Nat
    BY DEF Typed, TypeOK, DeliveryRows
  <2>2. pass[w].rows[x[2]].max \in MaxAttempts \cup {0}
    <3>1. x[2] \in Endpoints /\ pass[w].rows \in [Endpoints -> EndpointRows]
      BY DEF Typed, TypeOK, Passes, Pairs
    <3> QED
      BY <3>1 DEF EndpointRows
  <2> QED
    BY <2>1, <2>2, RowTypes DEF Flights, Stages
<1>2. flight' = [flight EXCEPT ![w] = [x \in Pairs |-> f(x)]]
  BY DEF Hold
<1>3. \A x \in Pairs : f(x).stage # "none" => x \in work /\ f(x).attempt = delivery[x].attempt
  BY DEF NoFlight
<1> HIDE DEF f
<1>4. flight' \in [Workers -> [Pairs -> Flights]]
  BY <1>1, <1>2 DEF Typed, TypeOK
<1>5. ASSUME NEW v \in Workers, NEW x \in Pairs, InFlight(v, x)'
      PROVE  delivery'[x].made /\ flight'[v][x].attempt >= 1
  <2>1. CASE v = w
    <3>1. flight'[v][x] = f(x)
      BY <1>2, <2>1 DEF Typed, TypeOK
    <3> QED
      BY <1>3, <1>5, <3>1 DEF InFlight, Typed, TypeOK
  <2>2. CASE v # w
    <3>1. flight'[v] = flight[v]
      BY <1>2, <2>2 DEF Typed, TypeOK
    <3> QED
      BY <1>5, <3>1 DEF InFlight, Typed, TypeOK, Held
  <2> QED
    BY <2>1, <2>2
<1> QED
  BY <1>4, <1>5 DEF FlightsOK

\* The attempts that leave, and the ones that are let go.
LEMMA PostFlights ==
  ASSUME Typed, NEW w \in Workers, NEW work \in SUBSET Pairs, Post(w, work)
  PROVE  /\ \A x \in Pairs :
              flight'[w][x] = IF x \in work THEN [flight[w][x] EXCEPT !.stage = "posted"]
                              ELSE NoFlight
         /\ \A v \in Workers : v # w => flight'[v] = flight[v]
         /\ flight' \in [Workers -> [Pairs -> Flights]]
<1> DEFINE g(x) == IF x \in work THEN [flight[w][x] EXCEPT !.stage = "posted"]
                   ELSE NoFlight
<1>1. \A x \in Pairs : g(x) \in Flights
  <2> SUFFICES ASSUME NEW x \in Pairs PROVE g(x) \in Flights
    OBVIOUS
  <2>1. flight[w][x] \in Flights
    BY DEF Typed, TypeOK
  <2>2. [flight[w][x] EXCEPT !.stage = "posted"] \in Flights
    BY <2>1 DEF Flights, Stages
  <2> QED
    BY <2>2, RowTypes
<1>2. flight' = [flight EXCEPT ![w] = [x \in Pairs |-> g(x)]]
  BY DEF Post
<1> HIDE DEF g
<1>3. /\ \A x \in Pairs : flight'[w][x] = g(x)
      /\ \A v \in Workers : v # w => flight'[v] = flight[v]
      /\ flight' \in [Workers -> [Pairs -> Flights]]
  BY <1>1, <1>2 DEF Typed, TypeOK
<1> QED
  BY <1>3 DEF g

LEMMA PostTypes ==
  ASSUME Typed, NEW w \in Workers, NEW work \in SUBSET Pairs, Post(w, work),
         \A x \in work : InFlight(w, x), UNCHANGED delivery
  PROVE  /\ FlightsOK'
         /\ posts' \in [Watched -> Nat]
<1>1. flight' \in [Workers -> [Pairs -> Flights]]
  BY PostFlights
<1>2. ASSUME NEW v \in Workers, NEW x \in Pairs, InFlight(v, x)'
      PROVE  delivery'[x].made /\ flight'[v][x].attempt >= 1
  <2>1. CASE v = w
    <3>1. flight'[v][x] = IF x \in work THEN [flight[w][x] EXCEPT !.stage = "posted"]
                          ELSE NoFlight
      BY <2>1, PostFlights
    <3>2. x \in work
      BY <1>2, <3>1 DEF InFlight, NoFlight
    <3>3. flight'[v][x].attempt = flight[w][x].attempt
      BY <3>1, <3>2 DEF Typed, TypeOK, Flights
    <3> QED
      BY <3>2, <3>3 DEF InFlight, Typed, TypeOK, Held
  <2>2. CASE v # w
    <3>1. flight'[v] = flight[v]
      BY <2>2, PostFlights
    <3> QED
      BY <1>2, <3>1 DEF InFlight, Typed, TypeOK, Held
  <2> QED
    BY <2>1, <2>2
<1>3. posts' \in [Watched -> Nat]
  BY DEF Post, Typed, TypeOK
<1> QED
  BY <1>1, <1>2, <1>3 DEF FlightsOK

-----------------------------------------------------------------------------
(* Types.                                                                  *)

LEMMA TypesInit == Init => Typed
<1> SUFFICES ASSUME Init PROVE Typed
  OBVIOUS
<1>1. PassesOK
  BY RowTypes, NoPassIs DEF Init, PassesOK, Replaying
<1>2. FlightsOK
  BY RowTypes DEF Init, FlightsOK, InFlight, NoFlight
<1>3. RowsOK
  BY RowTypes DEF Init, RowsOK, NoDelivery
<1>4. RestOK
  BY RowTypes DEF Init, RestOK
<1> QED
  BY <1>1, <1>2, <1>3, <1>4, Parts

\* A step that keeps the rows, and leaves the passes and the attempts typed.
LEMMA Together ==
  ASSUME Typed, Kept, PassesOK', FlightsOK', RestOK'
  PROVE  Typed'
<1>1. RowsOK'
  BY DEF Kept, RowsOK
<1>2. TypeOK'
  BY <1>1 DEF TypeOK, PassesOK, FlightsOK, RowsOK, RestOK, InFlight
<1>3. Held'
  BY DEF Held, PassesOK, FlightsOK
<1> QED
  BY <1>2, <1>3 DEF Typed

\* The domain and the merchant.
LEMMA EmitTypes ==
  ASSUME Typed, NEW e \in Events, Emit(e) PROVE Typed'
<1>1. Kept /\ PassesOK' /\ FlightsOK'
  BY UnchangedIsKept, KeptLeavesPasses, KeptLeavesFlights DEF Emit
<1>2. RestOK'
  BY DEF Emit, history, bounds, Typed, TypeOK, RestOK
<1> QED
  BY <1>1, <1>2, Together

LEMMA ChangeTypes ==
  ASSUME Typed, NEW p \in Endpoints, NEW row \in EndpointRows, Change(p, row)
  PROVE  Typed'
<1>1. Kept /\ PassesOK' /\ FlightsOK'
  BY UnchangedIsKept, KeptLeavesPasses, KeptLeavesFlights DEF Change
<1>2. RestOK'
  BY DEF Change, history, Typed, TypeOK, RestOK
<1> QED
  BY <1>1, <1>2, Together

LEMMA MerchantChanges ==
  ASSUME Typed, Merchant
  PROVE  \E p \in Endpoints, row \in EndpointRows :
           Change(p, row) /\ (row.live => row.max \in MaxAttempts)
<1>1. PICK p \in Endpoints :
        \/ \E enabled \in BOOLEAN, types \in SUBSET Types, max \in MaxAttempts :
             CreateEndpoint(p, enabled, types, max) \/ PatchEndpoint(p, enabled, types, max)
        \/ DeleteEndpoint(p)
  BY DEF Merchant
<1>2. endpoint[p] \in EndpointRows
  BY DEF Typed, TypeOK
<1>3. ASSUME NEW enabled \in BOOLEAN, NEW types \in SUBSET Types, NEW max \in MaxAttempts,
             CreateEndpoint(p, enabled, types, max)
      PROVE  \E row \in EndpointRows :
               Change(p, row) /\ (row.live => row.max \in MaxAttempts)
  <2> DEFINE row == [live |-> TRUE, enabled |-> enabled, events |-> types, max |-> max]
  <2>1. row \in EndpointRows /\ row.max = max
    BY DEF EndpointRows
  <2>2. Change(p, row)
    BY <1>3 DEF CreateEndpoint
  <2> HIDE DEF row
  <2> QED
    BY <2>1, <2>2
<1>4. ASSUME NEW enabled \in BOOLEAN, NEW types \in SUBSET Types, NEW max \in MaxAttempts,
             PatchEndpoint(p, enabled, types, max)
      PROVE  \E row \in EndpointRows :
               Change(p, row) /\ (row.live => row.max \in MaxAttempts)
  <2> DEFINE row == [endpoint[p] EXCEPT !.enabled = enabled, !.events = types, !.max = max]
  <2>1. row \in EndpointRows /\ row.max = max
    BY <1>2 DEF EndpointRows
  <2>2. Change(p, row)
    BY <1>4 DEF PatchEndpoint
  <2> HIDE DEF row
  <2> QED
    BY <2>1, <2>2
<1>5. ASSUME DeleteEndpoint(p)
      PROVE  \E row \in EndpointRows :
               Change(p, row) /\ (row.live => row.max \in MaxAttempts)
  <2> DEFINE row == [endpoint[p] EXCEPT !.live = FALSE]
  <2>1. row \in EndpointRows
    BY <1>2, Zenon DEF EndpointRows
  <2>2. ~row.live
    BY <1>2 DEF EndpointRows
  <2>3. Change(p, row)
    BY <1>5 DEF DeleteEndpoint
  <2> HIDE DEF row
  <2> QED
    BY <2>1, <2>2, <2>3
<1> QED
  BY <1>1, <1>3, <1>4, <1>5

\* The steps that move a pass alone.
LEMMA MoveTypes ==
  ASSUME Typed, NEW w \in Workers,
         BeginPass(w) \/ ListEndpoints(w) \/ ListDeliveries(w) \/ EndPass(w)
           \/ \E x \in Pairs : BeginReplay(w, x)
  PROVE  Typed'
<1>1. Kept /\ FlightsOK'
  BY UnchangedIsKept, KeptLeavesFlights
  DEF BeginPass, ListEndpoints, ListDeliveries, EndPass, BeginReplay
<1>2. RestOK'
  <2>1. /\ replays' \in Nat /\ spared' \in [Workers -> SUBSET Pairs]
        /\ UNCHANGED <<outbox, endpoint, cooling, posts, accepted, window, early, changes,
                       restarts>>
    <3>1. replays \in Nat /\ spared \in [Workers -> SUBSET Pairs]
      BY DEF Typed, TypeOK
    <3>2. CASE \E x \in Pairs : BeginReplay(w, x)
      <4>1. /\ replays' = replays + 1
            /\ UNCHANGED <<outbox, endpoint, cooling, history, changes, restarts>>
        BY <3>2 DEF BeginReplay
      <4> QED
        BY <3>1, <4>1 DEF history
    <3>3. CASE ListEndpoints(w) \/ ListDeliveries(w)
      BY <3>1, <3>3 DEF ListEndpoints, ListDeliveries, history, bounds
    <3>4. CASE BeginPass(w) \/ EndPass(w)
      <4>1. PICK S \in SUBSET Pairs : spared' = [spared EXCEPT ![w] = S]
        BY <3>4 DEF BeginPass, EndPass
      <4>2. UNCHANGED <<outbox, endpoint, cooling, posts, accepted, window, early, bounds>>
        BY <3>4 DEF BeginPass, EndPass
      <4> QED
        BY <3>1, <4>1, <4>2 DEF bounds
    <3> QED
      BY <3>2, <3>3, <3>4
  <2> QED
    BY <2>1 DEF Typed, TypeOK, RestOK
<1>3. pass[w] \in Passes /\ endpoint \in [Endpoints -> EndpointRows]
  BY DEF Typed, TypeOK
<1>4. ASSUME BeginPass(w) PROVE PassesOK'
  <2>1. Emitted \subseteq Events
    BY EmittedAreEvents DEF Typed, TypeOK
  <2> DEFINE q == [NoPass EXCEPT !.step = "listing_endpoints", !.seen = Emitted,
                                 !.hot = cooling]
  <2>2. q \in Passes /\ q.step = "listing_endpoints"
    BY <2>1, RowTypes DEF Passes, Steps, Typed, TypeOK
  <2>3. pass' = [pass EXCEPT ![w] = q]
    BY <1>4 DEF BeginPass
  <2> HIDE DEF q
  <2> QED
    BY <1>1, <2>2, <2>3, NewPass DEF Replaying
<1>5. ASSUME ListEndpoints(w) PROVE PassesOK'
  <2> DEFINE q == [pass[w] EXCEPT !.step = "listing_deliveries", !.rows = endpoint,
                                  !.todo = Owed(pass[w].seen, endpoint)]
  <2>1. Owed(pass[w].seen, endpoint) \subseteq Pairs
    BY <1>3 DEF Owed, Pairs, Passes
  <2>2. q \in Passes /\ q.step = "listing_deliveries"
    BY <1>3, <2>1 DEF Passes, Steps
  <2>3. pass' = [pass EXCEPT ![w] = q]
    BY <1>5 DEF ListEndpoints
  <2> HIDE DEF q
  <2> QED
    BY <1>1, <2>2, <2>3, NewPass DEF Replaying
<1>6. ASSUME ListDeliveries(w) PROVE PassesOK'
  <2> DEFINE q == [pass[w] EXCEPT !.step = "creating",
                     !.missing = {x \in pass[w].todo : ~delivery[x].made}]
  <2>1. q \in Passes /\ q.step = "creating"
    BY <1>3 DEF Passes, Steps
  <2>2. pass' = [pass EXCEPT ![w] = q]
    BY <1>6 DEF ListDeliveries
  <2> HIDE DEF q
  <2> QED
    BY <1>1, <2>1, <2>2, NewPass DEF Replaying
<1>7. ASSUME EndPass(w) PROVE PassesOK'
  BY <1>1, <1>7, NewPass, NoPassIs, RowTypes DEF EndPass, Replaying
<1>8. ASSUME NEW x \in Pairs, BeginReplay(w, x) PROVE PassesOK'
  <2> DEFINE q == [NoPass EXCEPT !.step = "ensuring", !.todo = {x}, !.rows = endpoint]
  <2>1. q \in Passes /\ q.step = "ensuring" /\ q.todo = {x}
    BY <1>3, RowTypes DEF Passes, Steps
  <2>2. pass' = [pass EXCEPT ![w] = q]
    BY <1>8 DEF BeginReplay
  <2> HIDE DEF q
  <2> QED
    BY <1>1, <2>1, <2>2, NewPass
<1> QED
  BY <1>1, <1>2, <1>4, <1>5, <1>6, <1>7, <1>8, Together

\* The steps that make and reset rows.
LEMMA RowsTypes ==
  ASSUME Typed, NEW w \in Workers,
         (\E x \in Pairs : CreateDelivery(w, x)) \/ EnsureDelivery(w) \/ ResetForReplay(w)
  PROVE  Typed'
<1>1. UNCHANGED <<outbox, endpoint, cooling, flight, posts, accepted, window, early, bounds>>
  BY DEF CreateDelivery, EnsureDelivery, ResetForReplay, history
<1>2. RestOK'
  <2>1. spared' \in [Workers -> SUBSET Pairs]
    BY DEF CreateDelivery, EnsureDelivery, ResetForReplay, history, Typed, TypeOK
  <2> QED
    BY <1>1, <2>1 DEF bounds, Typed, TypeOK, RestOK
<1>3. pass[w] \in Passes
  BY DEF Typed, TypeOK
<1>4. ASSUME NEW x \in Pairs, CreateDelivery(w, x) PROVE Kept /\ PassesOK'
  <2> DEFINE q == [pass[w] EXCEPT !.missing = pass[w].missing \ {x}]
  <2>1. Kept
    BY <1>4, InsertKeeps DEF CreateDelivery
  <2>2. q \in Passes /\ q.step = "creating"
    BY <1>3, <1>4 DEF CreateDelivery, Passes, Steps
  <2>3. pass' = [pass EXCEPT ![w] = q]
    BY <1>4 DEF CreateDelivery, Typed, TypeOK
  <2> HIDE DEF q
  <2> QED
    BY <2>1, <2>2, <2>3, NewPass DEF Replaying
<1>5. ASSUME EnsureDelivery(w) PROVE Kept /\ PassesOK'
  <2>1. PICK x \in Pairs : pass[w].todo = {x}
    BY <1>5 DEF EnsureDelivery, Replaying, Typed, Held
  <2>2. Kept /\ delivery'[x].made
    BY <1>5, <2>1, InsertKeeps DEF EnsureDelivery
  <2> DEFINE q == [pass[w] EXCEPT !.step = "resetting"]
  <2>3. q \in Passes /\ q.step = "resetting" /\ q.todo = {x}
    BY <1>3, <2>1 DEF Passes, Steps
  <2>4. pass' = [pass EXCEPT ![w] = q]
    BY <1>5 DEF EnsureDelivery, Step, Typed, TypeOK
  <2> HIDE DEF q
  <2> QED
    BY <2>2, <2>3, <2>4, NewPass
<1>6. ASSUME ResetForReplay(w) PROVE Kept /\ PassesOK'
  <2>1. PICK x \in Pairs : pass[w].todo = {x}
    BY <1>6 DEF ResetForReplay, Replaying, Typed, Held
  <2>2. delivery[x].made
    BY <1>6, <2>1 DEF ResetForReplay, Typed, Held
  <2>3. Kept
    BY <1>6, <2>1, ResetKeeps DEF ResetForReplay
  <2> DEFINE q == [pass[w] EXCEPT !.step = "reloading"]
  <2>4. q \in Passes /\ q.step = "reloading" /\ q.todo = {x}
    BY <1>3, <2>1 DEF Passes, Steps
  <2>5. pass' = [pass EXCEPT ![w] = q]
    BY <1>6 DEF ResetForReplay, Step, Typed, TypeOK
  <2>6. delivery'[x].made
    BY <2>2, <2>3 DEF Kept
  <2> HIDE DEF q
  <2> QED
    BY <2>3, <2>4, <2>5, <2>6, NewPass
<1>7. Kept /\ PassesOK'
  BY <1>4, <1>5, <1>6
<1>8. FlightsOK'
  BY <1>1, <1>7, KeptLeavesFlights
<1> QED
  BY <1>2, <1>7, <1>8, Together

\* The steps that read the rows, and the steps that POST.
LEMMA ReadingTypes ==
  ASSUME Typed, NEW w \in Workers, SelectDeliveries(w) \/ Reload(w) PROVE Typed'
<1>1. UNCHANGED <<outbox, endpoint, delivery, cooling, history, bounds>>
  BY DEF SelectDeliveries, Reload
<1>2. Kept
  BY <1>1, UnchangedIsKept
<1>3. PICK work \in SUBSET Pairs : Hold(w, work) /\ \A x \in work : delivery[x].made
  <2>1. pass[w].todo \subseteq Pairs
    BY DEF Typed, TypeOK, Passes
  <2>2. CASE SelectDeliveries(w)
    BY <2>1, <2>2 DEF SelectDeliveries, Pending
  <2>3. CASE Reload(w)
    BY <2>1, <2>3 DEF Reload, Typed, Held
  <2> QED
    BY <2>2, <2>3
<1>4. FlightsOK'
  BY <1>1, <1>3, HoldTypes
<1>5. RestOK'
  BY <1>1 DEF history, bounds, Typed, TypeOK, RestOK
<1>6. PassesOK'
  <2>1. CASE SelectDeliveries(w)
    <3> DEFINE q == [pass[w] EXCEPT !.step = "selected"]
    <3>1. q \in Passes /\ q.step = "selected"
      BY DEF Typed, TypeOK, Passes, Steps
    <3>2. pass' = [pass EXCEPT ![w] = q]
      BY <2>1 DEF SelectDeliveries, Step, Typed, TypeOK
    <3> HIDE DEF q
    <3> QED
      BY <1>2, <3>1, <3>2, NewPass DEF Replaying
  <2>2. CASE Reload(w)
    <3>1. PICK x \in Pairs : pass[w].todo = {x}
      BY <2>2 DEF Reload, Replaying, Typed, Held
    <3> DEFINE q == [pass[w] EXCEPT !.step = "reloaded"]
    <3>2. q \in Passes /\ q.step = "reloaded" /\ q.todo = {x}
      BY <3>1 DEF Typed, TypeOK, Passes, Steps
    <3>3. pass' = [pass EXCEPT ![w] = q]
      BY <2>2 DEF Reload, Step, Typed, TypeOK
    <3> HIDE DEF q
    <3> QED
      BY <1>2, <3>2, <3>3, NewPass
  <2> QED
    BY <2>1, <2>2
<1> QED
  BY <1>2, <1>4, <1>5, <1>6, Together

\* What leaves has been read.
LEMMA PostsWhatWasRead ==
  ASSUME NEW w \in Workers, PostDue(w) \/ Redeliver(w)
  PROVE  \E work \in SUBSET ReadBy(w) : Post(w, work)
<1>1. CASE PostDue(w)
  BY <1>1 DEF PostDue
<1>2. CASE Redeliver(w)
  BY <1>2 DEF Redeliver
<1> QED
  BY <1>1, <1>2

LEMMA PostingTypes ==
  ASSUME Typed, NEW w \in Workers, PostDue(w) \/ Redeliver(w) PROVE Typed'
<1>1. UNCHANGED <<outbox, endpoint, delivery, cooling, accepted, window, spared, bounds>>
  BY DEF PostDue, Redeliver
<1>2. Kept
  BY <1>1, UnchangedIsKept
<1>3. PICK work \in SUBSET ReadBy(w) : Post(w, work)
  BY PostsWhatWasRead
<1>4. work \in SUBSET Pairs /\ \A x \in work : InFlight(w, x)
  BY DEF ReadBy, InFlight
<1>5. FlightsOK' /\ posts' \in [Watched -> Nat]
  BY <1>1, <1>3, <1>4, PostTypes
<1>6. early' \in [Watched -> Nat]
  <2>1. early \in [Watched -> Nat]
    BY DEF Typed, TypeOK
  <2>2. CASE PostDue(w)
    BY <2>1, <2>2 DEF PostDue
  <2>3. CASE Redeliver(w)
    BY <2>1, <2>3 DEF Redeliver
  <2> QED
    BY <2>2, <2>3
<1>7. RestOK'
  BY <1>1, <1>5, <1>6 DEF bounds, Typed, TypeOK, RestOK
<1>8. PassesOK'
  <2> DEFINE q == [pass[w] EXCEPT !.step = "sending"]
  <2>1. q \in Passes /\ q.step = "sending"
    BY DEF Typed, TypeOK, Passes, Steps
  <2>2. pass' = [pass EXCEPT ![w] = q]
    BY DEF PostDue, Redeliver, Step, Typed, TypeOK
  <2> HIDE DEF q
  <2> QED
    BY <1>2, <2>1, <2>2, NewPass DEF Replaying
<1> QED
  BY <1>2, <1>5, <1>7, <1>8, Together

\* The steps of one attempt.
LEMMA AnswerTypes ==
  ASSUME Typed, NEW w \in Workers, NEW x \in Pairs, Accepts(w, x) \/ Refuses(w, x)
  PROVE  Typed'
<1>1. UNCHANGED <<outbox, endpoint, delivery, cooling, pass, posts, window, early, spared,
                  bounds>>
  BY DEF Accepts, Refuses
<1>2. Kept /\ PassesOK'
  BY <1>1, UnchangedIsKept, KeptLeavesPasses
<1>3. RestOK'
  <2>1. accepted' \in {accepted, accepted \cup {x}}
    BY DEF Accepts, Refuses
  <2> QED
    BY <1>1, <2>1 DEF bounds, Typed, TypeOK, RestOK
<1>4. PICK stage \in {"accepted", "refused"} :
        flight[w][x].stage = "posted" /\ flight' = [flight EXCEPT ![w][x].stage = stage]
  BY DEF Accepts, Refuses
<1> DEFINE f == [flight[w][x] EXCEPT !.stage = stage]
<1>5. f \in Flights /\ f.attempt = flight[w][x].attempt
  <2>1. flight[w][x] \in Flights
    BY DEF Typed, TypeOK
  <2> QED
    BY <2>1 DEF Flights, Stages
<1>6. flight' = [flight EXCEPT ![w][x] = f]
  BY <1>4 DEF Typed, TypeOK
<1>7. InFlight(w, x)
  BY <1>4 DEF InFlight
<1> HIDE DEF f
<1>8. FlightsOK'
  BY <1>2, <1>5, <1>6, <1>7, NewFlight
<1> QED
  BY <1>2, <1>3, <1>8, Together

LEMMA MarkTypes ==
  ASSUME Typed, NEW w \in Workers, NEW x \in Pairs,
         MarkDelivered(w, x) \/ MarkDeadlettered(w, x) \/ MarkFailed(w, x)
  PROVE  Typed'
<1>1. UNCHANGED <<outbox, endpoint, cooling, pass, posts, accepted, early, spared, bounds>>
      /\ InFlight(w, x)
  BY DEF MarkDelivered, MarkDeadlettered, MarkFailed, Marked, Is2xx, InFlight
<1>2. flight[w][x].attempt \in Nat /\ flight[w][x].attempt >= 1
  BY <1>1 DEF Typed, TypeOK, Held, Flights
<1>3. delivery[x] \in DeliveryRows /\ delivery[x].made
  BY <1>1 DEF Typed, TypeOK, InFlight
<1>4. PICK row \in DeliveryRows :
        delivery' = [delivery EXCEPT ![x] = row] /\ row.made /\ row.attempt >= 1
  <2>1. CASE MarkDelivered(w, x)
    <3> DEFINE r == [delivery[x] EXCEPT !.delivered = TRUE]
    <3>1. r \in DeliveryRows /\ r.made /\ r.attempt = delivery[x].attempt
      <4>1. r \in DeliveryRows
        BY <1>2, <1>3, Marks
      <4> QED
        BY <1>3, <4>1 DEF DeliveryRows
    <3>2. delivery' = [delivery EXCEPT ![x] = r]
      BY <2>1 DEF MarkDelivered, Marked, Typed, TypeOK
    <3> QED
      BY <1>3, <3>1, <3>2 DEF Typed, TypeOK
  <2>2. CASE MarkDeadlettered(w, x)
    <3> DEFINE r == [delivery[x] EXCEPT !.deadlettered = TRUE,
                                        !.attempt = flight[w][x].attempt]
    <3>1. r \in DeliveryRows /\ r.made /\ r.attempt = flight[w][x].attempt
      <4>1. r \in DeliveryRows
        BY <1>2, <1>3, Marks
      <4> QED
        BY <1>3, <4>1 DEF DeliveryRows
    <3>2. delivery' = [delivery EXCEPT ![x] = r]
      BY <2>2 DEF MarkDeadlettered, Marked, Typed, TypeOK
    <3> QED
      BY <1>2, <3>1, <3>2
  <2>3. CASE MarkFailed(w, x)
    <3> DEFINE r == [delivery[x] EXCEPT !.attempt = NextAttempt(flight[w][x])]
    <3>1. NextAttempt(flight[w][x]) \in Nat /\ NextAttempt(flight[w][x]) >= 1
      BY <1>2 DEF NextAttempt
    <3>2. r \in DeliveryRows /\ r.made /\ r.attempt = NextAttempt(flight[w][x])
      <4>1. r \in DeliveryRows
        BY <1>3, <3>1, Marks
      <4> QED
        BY <1>3, <4>1 DEF DeliveryRows
    <3>3. delivery' = [delivery EXCEPT ![x] = r]
      BY <2>3 DEF MarkFailed, Marked, Typed, TypeOK
    <3> QED
      BY <3>1, <3>2, <3>3
  <2> QED
    BY <2>1, <2>2, <2>3
<1>5. Kept
  BY <1>4 DEF Kept, Typed, TypeOK
<1>6. FlightsOK'
  <2>1. PICK stage \in {"settled", "failed"} : flight' = [flight EXCEPT ![w][x].stage = stage]
    BY DEF MarkDelivered, MarkDeadlettered, MarkFailed, Marked
  <2> DEFINE f == [flight[w][x] EXCEPT !.stage = stage]
  <2>2. f \in Flights /\ f.attempt = flight[w][x].attempt
    <3>1. flight[w][x] \in Flights
      BY DEF Typed, TypeOK
    <3> QED
      BY <3>1 DEF Flights, Stages
  <2>3. flight' = [flight EXCEPT ![w][x] = f]
    BY <2>1 DEF Typed, TypeOK
  <2> HIDE DEF f
  <2> QED
    BY <1>1, <1>5, <2>2, <2>3, NewFlight
<1>7. RestOK'
  <2>1. window' \in {window \ {x}, window \cup {x}}
    BY DEF MarkDelivered, MarkDeadlettered, MarkFailed, Marked
  <2> QED
    BY <1>1, <2>1 DEF bounds, Typed, TypeOK, RestOK
<1> QED
  BY <1>1, <1>5, <1>6, <1>7, KeptLeavesPasses, Together

\* The cooldown map is written, for every pass under way.
LEMMA CooldownPasses ==
  ASSUME Typed, NEW w \in Workers, NEW x \in Pairs, Forget(w, x) \/ Remember(w, x),
         NEW v \in Workers
  PROVE  /\ pass'[v] \in Passes
         /\ pass'[v].step = pass[v].step /\ pass'[v].todo = pass[v].todo
         /\ pass'[v].rows = pass[v].rows
         /\ pass[v].step # "idle" /\ cooling \subseteq pass[v].hot =>
              cooling' \subseteq pass'[v].hot
<1>1. pass[v] \in Passes
  BY DEF Typed, TypeOK
<1>2. CASE Forget(w, x)
  <2>1. pass'[v] = [pass[v] EXCEPT !.hot = pass[v].hot \ {x}] /\ cooling' = cooling \ {x}
    BY <1>2 DEF Forget
  <2> QED
    BY <1>1, <2>1 DEF Passes
<1>3. CASE Remember(w, x) /\ pass[v].step = "idle"
  BY <1>1, <1>3 DEF Remember
<1>4. CASE Remember(w, x) /\ pass[v].step # "idle"
  <2>1. /\ pass'[v] = [pass[v] EXCEPT !.hot = pass[v].hot \cup {x}]
        /\ cooling' = cooling \cup {x}
    BY <1>4 DEF Remember
  <2> QED
    BY <1>1, <2>1 DEF Passes
<1> QED
  BY <1>2, <1>3, <1>4

LEMMA CooldownTypes ==
  ASSUME Typed, NEW w \in Workers, NEW x \in Pairs, Forget(w, x) \/ Remember(w, x)
  PROVE  Typed'
<1>1. UNCHANGED <<outbox, endpoint, delivery, history, bounds>>
  BY DEF Forget, Remember
<1>2. Kept
  BY <1>1, UnchangedIsKept
<1>3. PassesOK'
  <2>1. DOMAIN pass' = Workers /\ pass' = [v \in Workers |-> pass'[v]]
    BY DEF Forget, Remember
  <2>2. pass' \in [Workers -> Passes]
    BY <2>1, CooldownPasses
  <2>3. ASSUME NEW v \in Workers
        PROVE  /\ pass'[v].step \in Replaying => \E y \in Pairs : pass'[v].todo = {y}
               /\ pass'[v].step \in {"resetting", "reloading"} =>
                    \A y \in pass'[v].todo : delivery'[y].made
    <3>1. pass'[v].step = pass[v].step /\ pass'[v].todo = pass[v].todo
      BY CooldownPasses
    <3> QED
      BY <1>1, <3>1 DEF Typed, Held
  <2> QED
    BY <2>2, <2>3 DEF PassesOK
<1>4. FlightsOK'
  <2>1. flight' = [flight EXCEPT ![w][x] = NoFlight]
    BY DEF Forget, Remember
  <2> QED
    BY <1>2, <2>1, RowTypes, NewFlight DEF NoFlight
<1>5. RestOK'
  <2>1. cooling' \in {cooling \ {x}, cooling \cup {x}}
    BY DEF Forget, Remember
  <2> QED
    BY <1>1, <2>1 DEF history, bounds, Typed, TypeOK, RestOK
<1> QED
  BY <1>2, <1>3, <1>4, <1>5, Together

LEMMA ElapseTypes ==
  ASSUME Typed, NEW x \in Pairs, Elapse(x) PROVE Typed'
<1>1. Kept /\ PassesOK' /\ FlightsOK'
  BY UnchangedIsKept, KeptLeavesPasses, KeptLeavesFlights DEF Elapse
<1>2. RestOK'
  BY DEF Elapse, bounds, Typed, TypeOK, RestOK
<1> QED
  BY <1>1, <1>2, Together

LEMMA RestartTypes ==
  ASSUME Typed, Restart PROVE Typed'
<1>1. Kept
  BY UnchangedIsKept DEF Restart
<1>2. PassesOK'
  BY RowTypes, NoPassIs DEF Restart, PassesOK, Replaying
<1>3. FlightsOK'
  BY RowTypes DEF Restart, FlightsOK, InFlight, NoFlight
<1>4. RestOK'
  BY DEF Restart, Typed, TypeOK, RestOK
<1> QED
  BY <1>1, <1>2, <1>3, <1>4, Together

LEMMA TypesStep == Typed /\ [Next]_vars => Typed'
<1> SUFFICES ASSUME Typed, [Next]_vars PROVE Typed'
  OBVIOUS
<1>1. ASSUME Merchant PROVE Typed'
  BY <1>1, MerchantChanges, ChangeTypes
<1>2. ASSUME NEW w \in Workers, Drain(w) \/ Replay(w) PROVE Typed'
  BY <1>2, MoveTypes, RowsTypes, ReadingTypes, PostingTypes DEF Drain, Replay
<1>3. ASSUME NEW w \in Workers, NEW x \in Pairs, BeginReplay(w, x) \/ Attempt(w, x)
      PROVE  Typed'
  BY <1>3, MoveTypes, AnswerTypes, MarkTypes, CooldownTypes DEF Attempt
<1>4. CASE UNCHANGED vars
  <2>1. Kept /\ PassesOK' /\ FlightsOK'
    BY <1>4, UnchangedIsKept, KeptLeavesPasses, KeptLeavesFlights DEF vars
  <2> QED
    BY <1>4, <2>1, Together DEF vars, Typed, TypeOK, RestOK
<1> QED
  BY <1>1, <1>2, <1>3, <1>4, EmitTypes, ElapseTypes, RestartTypes DEF Next

LEMMA AlwaysTyped == Spec => []Typed
  BY TypesInit, TypesStep, PTL DEF Spec

\* Types are kept by every pass, replay and mark, however they overlap and
\* whenever the process restarts; in particular no attempt is made for a pair
\* without a delivery row (drainEndpoint creates it before it POSTs).
THEOREM TypeCorrect == Spec => []TypeOK
<1>1. Typed => TypeOK
  BY DEF Typed
<1> QED
  BY <1>1, AlwaysTyped, PTL

-----------------------------------------------------------------------------
(* Where attempts can be.                                                  *)

\* An attempt is read before its pass or replay sends, and is POSTed, answered
\* and marked while it does.
PlacedFor(w) ==
  \A x \in Pairs :
    \/ flight[w][x] = NoFlight
    \/ /\ InFlight(w, x)
       /\ pass[w].step \in IF flight[w][x].stage = "read" THEN {"selected", "reloaded"}
                           ELSE {"sending"}
Placed == \A w \in Workers : PlacedFor(w)

LEMMA QuietHasNone ==
  ASSUME NEW w \in Workers, PlacedFor(w),
         pass[w].step \notin {"selected", "reloaded", "sending"}, NEW x \in Pairs
  PROVE  flight[w][x] = NoFlight
  BY DEF PlacedFor

LEMMA OthersPlaced ==
  ASSUME Placed, NEW w \in Workers, PlacedFor(w)',
         \A v \in Workers : v # w => flight'[v] = flight[v] /\ pass'[v].step = pass[v].step
  PROVE  Placed'
<1> SUFFICES ASSUME NEW v \in Workers, v # w PROVE PlacedFor(v)'
  BY DEF Placed
<1>1. flight'[v] = flight[v] /\ pass'[v].step = pass[v].step /\ PlacedFor(v)
  BY DEF Placed
<1> QED
  BY <1>1 DEF PlacedFor, InFlight

\* The steps of a pass or replay that leave its attempts alone have none.
LEMMA MovePlaced ==
  ASSUME Typed, Placed, NEW w \in Workers,
         \/ BeginPass(w) \/ ListEndpoints(w) \/ ListDeliveries(w) \/ EndPass(w)
         \/ EnsureDelivery(w) \/ ResetForReplay(w)
         \/ \E x \in Pairs : CreateDelivery(w, x) \/ BeginReplay(w, x)
  PROVE  Placed' /\ \A x \in Pairs : flight[w][x] = NoFlight
<1>1. \A x \in Pairs : flight[w][x] = NoFlight
  <2>1. CASE EndPass(w)
    BY <2>1 DEF EndPass
  <2>2. CASE ~EndPass(w)
    <3>1. pass[w].step \notin {"selected", "reloaded", "sending"}
      BY <2>2 DEF BeginPass, ListEndpoints, ListDeliveries, EnsureDelivery,
                  ResetForReplay, CreateDelivery, BeginReplay
    <3> QED
      BY <3>1, QuietHasNone DEF Placed
  <2> QED
    BY <2>1, <2>2
<1>2. UNCHANGED flight
  BY DEF BeginPass, ListEndpoints, ListDeliveries, EndPass, EnsureDelivery,
         ResetForReplay, CreateDelivery, BeginReplay
<1>3. \A v \in Workers : v # w => pass'[v] = pass[v]
  <2>1. CASE BeginPass(w) \/ ListEndpoints(w) \/ ListDeliveries(w) \/ EndPass(w)
    BY <2>1 DEF BeginPass, ListEndpoints, ListDeliveries, EndPass, Typed, TypeOK
  <2>2. CASE EnsureDelivery(w) \/ ResetForReplay(w)
    BY <2>2 DEF EnsureDelivery, ResetForReplay, Step, Typed, TypeOK
  <2>3. CASE \E x \in Pairs : CreateDelivery(w, x) \/ BeginReplay(w, x)
    BY <2>3 DEF CreateDelivery, BeginReplay, Typed, TypeOK
  <2> QED
    BY <2>1, <2>2, <2>3
<1>4. PlacedFor(w)'
  BY <1>1, <1>2 DEF PlacedFor
<1> QED
  BY <1>1, <1>2, <1>3, <1>4, OthersPlaced

LEMMA ReadingPlaced ==
  ASSUME Typed, Placed, NEW w \in Workers, SelectDeliveries(w) \/ Reload(w)
  PROVE  /\ Placed'
         /\ \A x \in Pairs : flight[w][x] = NoFlight
         /\ \A v \in Workers : v # w => flight'[v] = flight[v]
<1>1. PICK work : Hold(w, work)
  BY DEF SelectDeliveries, Reload
<1>2. \A x \in Pairs :
        IF x \in work THEN flight'[w][x].stage = "read" ELSE flight'[w][x] = NoFlight
  BY <1>1 DEF Hold, Typed, TypeOK
<1>3. pass'[w].step \in {"selected", "reloaded"}
  BY DEF SelectDeliveries, Reload, Step, Typed, TypeOK, Passes
<1>4. PlacedFor(w)'
  <2> SUFFICES ASSUME NEW x \in Pairs
               PROVE  flight'[w][x] = NoFlight \/ flight'[w][x].stage = "read"
    BY <1>3 DEF PlacedFor, InFlight
  <2>1. CASE x \in work
    BY <1>2, <2>1
  <2>2. CASE x \notin work
    BY <1>2, <2>2
  <2> QED
    BY <2>1, <2>2
<1>5. \A v \in Workers : v # w => flight'[v] = flight[v] /\ pass'[v] = pass[v]
  BY <1>1 DEF Hold, SelectDeliveries, Reload, Step, Typed, TypeOK
<1>6. \A x \in Pairs : flight[w][x] = NoFlight
  BY QuietHasNone DEF Placed, SelectDeliveries, Reload
<1> QED
  BY <1>4, <1>5, <1>6, OthersPlaced

LEMMA PostingPlaced ==
  ASSUME Typed, Placed, NEW w \in Workers, PostDue(w) \/ Redeliver(w) PROVE Placed'
<1>1. PICK work \in SUBSET ReadBy(w) : Post(w, work)
  BY PostsWhatWasRead
<1>2. /\ \A x \in Pairs :
           flight'[w][x] = IF x \in work THEN [flight[w][x] EXCEPT !.stage = "posted"]
                           ELSE NoFlight
      /\ \A v \in Workers : v # w => flight'[v] = flight[v]
  BY <1>1, PostFlights DEF ReadBy
<1>3. pass'[w].step = "sending" /\ \A v \in Workers : v # w => pass'[v] = pass[v]
  BY DEF PostDue, Redeliver, Step, Typed, TypeOK, Passes
<1>4. PlacedFor(w)'
  <2> SUFFICES ASSUME NEW x \in Pairs, x \in work
               PROVE  flight'[w][x].stage = "posted"
    BY <1>2, <1>3 DEF PlacedFor, InFlight
  <2>1. flight[w][x] \in Flights
    BY DEF Typed, TypeOK, ReadBy
  <2> QED
    BY <1>2, <2>1 DEF Flights
<1> QED
  BY <1>2, <1>3, <1>4, OthersPlaced

\* An attempt is answered or marked.
LEMMA AttemptMoves ==
  ASSUME Typed, NEW w \in Workers, NEW x \in Pairs,
         \/ Accepts(w, x) \/ Refuses(w, x)
         \/ MarkDelivered(w, x) \/ MarkDeadlettered(w, x) \/ MarkFailed(w, x)
  PROVE  /\ UNCHANGED pass
         /\ flight[w][x].stage \in {"posted", "accepted", "refused"}
         /\ flight'[w][x].stage \in {"accepted", "refused", "settled", "failed"}
         /\ flight'[w][x].attempt = flight[w][x].attempt
         /\ flight'[w][x].max = flight[w][x].max
         /\ \A v \in Workers, y \in Pairs :
              ~(v = w /\ y = x) => flight'[v][y] = flight[v][y]
         /\ \A v \in Workers : v # w => flight'[v] = flight[v]
<1>1. PICK stage \in {"accepted", "refused", "settled", "failed"} :
        flight' = [flight EXCEPT ![w][x].stage = stage]
  BY DEF Accepts, Refuses, MarkDelivered, MarkDeadlettered, MarkFailed, Marked
<1>2. UNCHANGED pass /\ flight[w][x].stage \in {"posted", "accepted", "refused"}
  BY DEF Accepts, Refuses, MarkDelivered, MarkDeadlettered, MarkFailed, Marked, Is2xx
<1>3. flight[w][x] \in Flights
  BY DEF Typed, TypeOK
<1>4. flight'[w][x] = [flight[w][x] EXCEPT !.stage = stage]
  BY <1>1 DEF Typed, TypeOK
<1>5. /\ flight'[w][x].stage = stage
      /\ flight'[w][x].attempt = flight[w][x].attempt
      /\ flight'[w][x].max = flight[w][x].max
  BY <1>3, <1>4 DEF Flights
<1>6. /\ \A v \in Workers, y \in Pairs :
           ~(v = w /\ y = x) => flight'[v][y] = flight[v][y]
      /\ \A v \in Workers : v # w => flight'[v] = flight[v]
  BY <1>1 DEF Typed, TypeOK
<1> QED
  BY <1>2, <1>5, <1>6

LEMMA AttemptPlaced ==
  ASSUME Typed, Placed, NEW w \in Workers, NEW x \in Pairs, Attempt(w, x)
  PROVE  Placed'
<1>1. CASE \/ Accepts(w, x) \/ Refuses(w, x)
           \/ MarkDelivered(w, x) \/ MarkDeadlettered(w, x) \/ MarkFailed(w, x)
  <2>1. /\ UNCHANGED pass
        /\ flight[w][x].stage \in {"posted", "accepted", "refused"}
        /\ flight'[w][x].stage \in {"accepted", "refused", "settled", "failed"}
        /\ \A y \in Pairs : y # x => flight'[w][y] = flight[w][y]
        /\ \A v \in Workers : v # w => flight'[v] = flight[v]
    BY <1>1, AttemptMoves
  <2>2. pass[w].step = "sending"
    BY <2>1 DEF Placed, PlacedFor, NoFlight
  <2>3. PlacedFor(w)'
    BY <2>1, <2>2 DEF Placed, PlacedFor, InFlight
  <2> QED
    BY <2>1, <2>3, OthersPlaced
<1>2. CASE Forget(w, x) \/ Remember(w, x)
  <2>1. \A v \in Workers : pass'[v].step = pass[v].step
    BY <1>2, CooldownPasses
  <2>2. flight' = [flight EXCEPT ![w][x] = NoFlight]
    BY <1>2 DEF Forget, Remember
  <2>3. /\ flight'[w][x] = NoFlight
        /\ \A y \in Pairs : y # x => flight'[w][y] = flight[w][y]
        /\ \A v \in Workers : v # w => flight'[v] = flight[v]
    BY <2>2 DEF Typed, TypeOK
  <2>4. PlacedFor(w)'
    BY <2>1, <2>3 DEF Placed, PlacedFor, InFlight
  <2> QED
    BY <2>1, <2>3, <2>4, OthersPlaced
<1> QED
  BY <1>1, <1>2 DEF Attempt

LEMMA PlacedStep == Typed /\ Placed /\ [Next]_vars => Placed'
<1> SUFFICES ASSUME Typed, Placed, [Next]_vars PROVE Placed'
  OBVIOUS
<1>1. ASSUME UNCHANGED <<pass, flight>> PROVE Placed'
  BY <1>1 DEF Placed, PlacedFor, InFlight
<1>2. CASE \/ \E e \in Events : Emit(e)
           \/ \E x \in Pairs : Elapse(x)
           \/ UNCHANGED vars
  BY <1>1, <1>2 DEF Emit, Elapse, vars
<1>3. CASE Merchant
  BY <1>1, <1>3, MerchantChanges DEF Change
<1>4. ASSUME NEW w \in Workers, Drain(w) \/ Replay(w) PROVE Placed'
  BY <1>4, MovePlaced, ReadingPlaced, PostingPlaced DEF Drain, Replay
<1>5. ASSUME NEW w \in Workers, NEW x \in Pairs, BeginReplay(w, x) \/ Attempt(w, x)
      PROVE  Placed'
  BY <1>5, MovePlaced, AttemptPlaced
<1>6. CASE Restart
  BY <1>6 DEF Restart, Placed, PlacedFor
<1> QED
  BY <1>2, <1>3, <1>4, <1>5, <1>6 DEF Next

LEMMA AlwaysPlaced == Spec => [](Typed /\ Placed)
<1>1. Init => Placed
  BY DEF Init, Placed, PlacedFor
<1> QED
  BY <1>1, TypesInit, TypesStep, PlacedStep, PTL DEF Spec

-----------------------------------------------------------------------------
(* Settled deliveries.                                                     *)

\* What a pass found settled when it began still is, but for what a replay has
\* reset since; a replay has no such pairs.
SparedFor(w) ==
  /\ \A x \in spared[w] : Settled(delivery[x]) /\ flight[w][x] = NoFlight
  /\ pass[w].step \in Replaying \cup {"idle"} => spared[w] = {}
Spared ==
  /\ \A x \in Pairs : Settled(delivery[x]) => delivery[x].made
  /\ \A w \in Workers : SparedFor(w)

\* What was settled still is, and what is settled has its row.
Keeps(S) ==
  /\ \A x \in S : Settled(delivery[x]) => Settled(delivery'[x])
  /\ \A x \in Pairs : Settled(delivery'[x]) => delivery'[x].made

\* A step leaves a worker's settled pairs alone.
LEMMA SparedStays ==
  ASSUME Typed, Keeps(Pairs), NEW w \in Workers, SparedFor(w),
         spared'[w] = spared[w], flight'[w] = flight[w], pass'[w].step = pass[w].step
  PROVE  SparedFor(w)'
<1>1. spared[w] \subseteq Pairs
  BY DEF Typed, TypeOK
<1>2. \A x \in spared'[w] : Settled(delivery'[x]) /\ flight'[w][x] = NoFlight
  BY <1>1 DEF SparedFor, Keeps
<1> QED
  BY <1>2 DEF SparedFor, Settled

LEMMA SparedOthers ==
  ASSUME Typed, Spared, Keeps(Pairs), UNCHANGED spared, NEW w \in Workers, SparedFor(w)',
         \A v \in Workers : v # w => flight'[v] = flight[v] /\ pass'[v].step = pass[v].step
  PROVE  Spared'
<1>1. \A x \in Pairs : Settled(delivery'[x]) => delivery'[x].made
  BY DEF Keeps
<1>2. ASSUME NEW v \in Workers, v # w PROVE SparedFor(v)'
  BY <1>2, SparedStays DEF Spared
<1> QED
  BY <1>1, <1>2 DEF Spared, Settled

LEMMA SameRowsKeep ==
  ASSUME Spared, UNCHANGED delivery PROVE Keeps(Pairs)
  BY DEF Spared, Keeps

\* Inserts do not touch rows that are there.
LEMMA InsertKeepsSettled ==
  ASSUME Typed, Spared, NEW x \in Pairs, delivery' = Inserted(x) PROVE Keeps(Pairs)
<1>1. CASE delivery[x].made
  BY <1>1, SameRowsKeep DEF Inserted
<1>2. CASE ~delivery[x].made
  <2>1. \A y \in Pairs : delivery'[y] = IF y = x THEN FirstAttempt ELSE delivery[y]
    BY <1>2 DEF Inserted, Typed, TypeOK
  <2>2. FirstAttempt.made /\ ~Settled(delivery[x])
    BY <1>2 DEF FirstAttempt, Spared
  <2> QED
    BY <2>1, <2>2 DEF Keeps, Spared
<1> QED
  BY <1>1, <1>2

\* The steps of a pass: it takes up rows that are not settled.
LEMMA SparedDrain ==
  ASSUME Typed, Placed, Spared, NEW w \in Workers, Drain(w)
  PROVE  Spared'
<1>1. SparedFor(w) /\ spared[w] \subseteq Pairs /\ pass[w] \in Passes
  BY DEF Spared, Typed, TypeOK
<1>2. ASSUME BeginPass(w) \/ EndPass(w) PROVE Spared'
  <2>1. /\ UNCHANGED <<delivery, flight>>
        /\ \A v \in Workers : v # w => pass'[v] = pass[v] /\ spared'[v] = spared[v]
    BY <1>2 DEF BeginPass, EndPass, Typed, TypeOK
  <2>2. \A x \in Pairs : flight[w][x] = NoFlight
    BY <1>2, MovePlaced
  <2>3. CASE BeginPass(w)
    <3>1. pass'[w].step = "listing_endpoints"
      BY <2>3 DEF BeginPass, NoPass, Typed, TypeOK
    <3>2. spared'[w] = {x \in Pairs : Settled(delivery[x])}
      BY <2>3 DEF BeginPass, Typed, TypeOK
    <3>3. SparedFor(w)'
      BY <2>1, <2>2, <3>1, <3>2 DEF SparedFor, Replaying, Settled
    <3> QED
      BY <2>1, <3>3, SparedStays, SameRowsKeep DEF Spared, Settled
  <2>4. CASE EndPass(w)
    <3>1. spared'[w] = {}
      BY <2>4 DEF EndPass, Typed, TypeOK
    <3>2. SparedFor(w)'
      BY <3>1 DEF SparedFor
    <3> QED
      BY <2>1, <3>2, SparedStays, SameRowsKeep DEF Spared, Settled
  <2> QED
    BY <1>2, <2>3, <2>4
<1>3. ASSUME \/ ListEndpoints(w) \/ ListDeliveries(w)
             \/ \E x \in Pairs : CreateDelivery(w, x)
      PROVE  Spared'
  <2>1. UNCHANGED <<flight, spared>>
    BY <1>3 DEF ListEndpoints, ListDeliveries, CreateDelivery, history
  <2>2. Keeps(Pairs)
    <3>1. ASSUME NEW x \in Pairs, CreateDelivery(w, x) PROVE Keeps(Pairs)
      BY <3>1, InsertKeepsSettled DEF CreateDelivery
    <3>2. ASSUME ListEndpoints(w) \/ ListDeliveries(w) PROVE Keeps(Pairs)
      BY <3>2, SameRowsKeep DEF ListEndpoints, ListDeliveries
    <3> QED
      BY <1>3, <3>1, <3>2
  <2>3. /\ pass'[w].step \in {"listing_deliveries", "creating"}
        /\ \A v \in Workers : v # w => pass'[v] = pass[v]
    <3>1. CASE ListEndpoints(w) \/ ListDeliveries(w)
      BY <1>1, <3>1 DEF ListEndpoints, ListDeliveries, Typed, TypeOK, Passes
    <3>2. CASE \E x \in Pairs : CreateDelivery(w, x)
      BY <1>1, <3>2 DEF CreateDelivery, Typed, TypeOK, Passes
    <3> QED
      BY <1>3, <3>1, <3>2
  <2>4. \A x \in spared'[w] : Settled(delivery'[x]) /\ flight'[w][x] = NoFlight
    BY <1>1, <2>1, <2>2 DEF SparedFor, Keeps
  <2>5. SparedFor(w)'
    BY <2>3, <2>4 DEF SparedFor, Replaying, Settled
  <2> QED
    BY <2>1, <2>2, <2>3, <2>5, SparedOthers
<1>4. ASSUME SelectDeliveries(w) \/ PostDue(w) PROVE Spared'
  <2>1. UNCHANGED <<delivery, spared>>
    BY <1>4 DEF SelectDeliveries, PostDue, history
  <2>2. /\ pass'[w].step \in {"selected", "sending"}
        /\ \A v \in Workers : v # w => pass'[v] = pass[v]
    BY <1>1, <1>4 DEF SelectDeliveries, PostDue, Step, Typed, TypeOK, Passes
  <2>3. /\ \A x \in spared[w] : flight'[w][x] = NoFlight
        /\ \A v \in Workers : v # w => flight'[v] = flight[v]
    <3>1. CASE SelectDeliveries(w)
      <4>1. Hold(w, {x \in pass[w].todo : Pending(x)})
        BY <3>1 DEF SelectDeliveries
      <4>2. \A x \in spared[w] : ~Pending(x)
        BY <1>1 DEF SparedFor, Pending
      <4>3. \A x \in spared[w] : flight'[w][x] = NoFlight
        BY <1>1, <4>1, <4>2 DEF Hold, Typed, TypeOK
      <4>4. \A v \in Workers : v # w => flight'[v] = flight[v]
        BY <3>1, ReadingPlaced
      <4> QED
        BY <4>3, <4>4
    <3>2. CASE PostDue(w)
      <4>1. PICK work \in SUBSET ReadBy(w) : Post(w, work)
        BY <3>2, PostsWhatWasRead
      <4>2. \A x \in spared[w] : x \notin work
        BY <1>1, <4>1 DEF SparedFor, ReadBy, NoFlight
      <4>3. work \in SUBSET Pairs
        BY DEF ReadBy
      <4> QED
        BY <1>1, <4>1, <4>2, <4>3, PostFlights
    <3> QED
      BY <1>4, <3>1, <3>2
  <2>4. SparedFor(w)'
    BY <1>1, <2>1, <2>2, <2>3 DEF SparedFor, Replaying, Settled
  <2> QED
    BY <2>1, <2>2, <2>3, <2>4, SparedOthers, SameRowsKeep
<1> QED
  BY <1>2, <1>3, <1>4 DEF Drain

\* The steps of a replay, which resets no pair that a pass still counts settled.
LEMMA SparedReplay ==
  ASSUME Typed, Placed, Spared, NEW w \in Workers,
         Replay(w) \/ \E x \in Pairs : BeginReplay(w, x)
  PROVE  Spared'
<1>1. SparedFor(w) /\ spared[w] = {} /\ pass[w] \in Passes
  BY DEF Spared, SparedFor, Typed, TypeOK, Replay, EnsureDelivery, ResetForReplay,
         Reload, Redeliver, BeginReplay, Replaying
<1>2. ASSUME Replay(w), ~ResetForReplay(w) PROVE Spared'
  <2>1. UNCHANGED spared
    BY <1>2 DEF Replay, EnsureDelivery, Reload, Redeliver, history
  <2>2. Keeps(Pairs)
    <3>1. CASE EnsureDelivery(w)
      BY <3>1, InsertKeepsSettled DEF EnsureDelivery, Typed, TypeOK, Passes
    <3>2. CASE Reload(w) \/ Redeliver(w)
      BY <3>2, SameRowsKeep DEF Reload, Redeliver
    <3> QED
      BY <1>2, <3>1, <3>2 DEF Replay
  <2>3. \A v \in Workers : v # w => pass'[v] = pass[v] /\ flight'[v] = flight[v]
    <3>1. \A v \in Workers : v # w => pass'[v] = pass[v]
      BY <1>2 DEF Replay, EnsureDelivery, Reload, Redeliver, Step, Typed, TypeOK
    <3>2. CASE EnsureDelivery(w)
      BY <3>1, <3>2 DEF EnsureDelivery
    <3>3. CASE Reload(w)
      BY <3>1, <3>3, ReadingPlaced
    <3>4. CASE Redeliver(w)
      BY <3>1, <3>4, PostFlights DEF Redeliver, ReadBy
    <3> QED
      BY <1>2, <3>2, <3>3, <3>4 DEF Replay
  <2>4. SparedFor(w)'
    BY <1>1, <2>1 DEF SparedFor
  <2> QED
    BY <2>1, <2>2, <2>3, <2>4, SparedOthers
<1>3. ASSUME NEW x \in Pairs, BeginReplay(w, x) PROVE Spared'
  <2>1. UNCHANGED <<delivery, flight, spared>>
    BY <1>3 DEF BeginReplay, history
  <2>2. \A v \in Workers : v # w => pass'[v] = pass[v]
    BY <1>3 DEF BeginReplay, Typed, TypeOK
  <2>3. SparedFor(w)'
    BY <1>1, <2>1 DEF SparedFor
  <2> QED
    BY <2>1, <2>2, <2>3, SparedOthers, SameRowsKeep
<1>4. ASSUME ResetForReplay(w) PROVE Spared'
  <2>1. PICK x \in Pairs : /\ delivery' = [delivery EXCEPT ![x] = FirstAttempt]
                           /\ spared' = [v \in Workers |-> spared[v] \ {x}]
    BY <1>4 DEF ResetForReplay, Typed, TypeOK, Passes
  <2>2. /\ \A y \in Pairs : y # x => delivery'[y] = delivery[y]
        /\ delivery'[x] = FirstAttempt
        /\ UNCHANGED flight
    BY <1>4, <2>1 DEF ResetForReplay, Typed, TypeOK
  <2>3. ~Settled(FirstAttempt)
    BY DEF FirstAttempt, Settled
  <2>4. ASSUME NEW v \in Workers PROVE SparedFor(v)'
    <3>1. spared'[v] = spared[v] \ {x} /\ SparedFor(v) /\ spared[v] \subseteq Pairs
      BY <2>1 DEF Spared, Typed, TypeOK
    <3>2. \A y \in spared'[v] : Settled(delivery'[y]) /\ flight'[v][y] = NoFlight
      BY <2>2, <3>1 DEF SparedFor
    <3>3. pass'[v].step \in Replaying \cup {"idle"} => spared'[v] = {}
      <4>1. CASE v = w
        BY <1>1, <3>1, <4>1
      <4>2. CASE v # w
        <5>1. pass'[v] = pass[v]
          BY <1>4, <4>2 DEF ResetForReplay, Step, Typed, TypeOK
        <5> QED
          BY <3>1, <5>1 DEF SparedFor
      <4> QED
        BY <4>1, <4>2
    <3> QED
      BY <3>2, <3>3 DEF SparedFor, Settled
  <2>5. \A y \in Pairs : Settled(delivery'[y]) => delivery'[y].made
    BY <2>2, <2>3 DEF Spared
  <2> QED
    BY <2>4, <2>5 DEF Spared, Settled
<1> QED
  BY <1>2, <1>3, <1>4 DEF Replay

\* The steps of an attempt: marks are never taken off a row.
LEMMA SparedAttempt ==
  ASSUME Typed, Placed, Spared, NEW w \in Workers, NEW x \in Pairs, Attempt(w, x)
  PROVE  Spared'
<1>1. SparedFor(w) /\ spared[w] \subseteq Pairs
  BY DEF Spared, Typed, TypeOK
<1>2. ASSUME \/ Accepts(w, x) \/ Refuses(w, x)
             \/ MarkDelivered(w, x) \/ MarkDeadlettered(w, x) \/ MarkFailed(w, x)
      PROVE  Spared'
  <2>1. /\ UNCHANGED <<pass, spared>> /\ InFlight(w, x)
        /\ \A y \in Pairs : y # x => flight'[w][y] = flight[w][y]
        /\ \A v \in Workers : v # w => flight'[v] = flight[v]
    <3>1. UNCHANGED spared
      BY <1>2 DEF Accepts, Refuses, MarkDelivered, MarkDeadlettered, MarkFailed, Marked
    <3>2. /\ UNCHANGED pass /\ flight[w][x].stage \in {"posted", "accepted", "refused"}
          /\ \A y \in Pairs : y # x => flight'[w][y] = flight[w][y]
          /\ \A v \in Workers : v # w => flight'[v] = flight[v]
      BY <1>2, AttemptMoves
    <3> QED
      BY <3>1, <3>2 DEF InFlight
  <2>2. Keeps(Pairs)
    <3>1. CASE Accepts(w, x) \/ Refuses(w, x)
      BY <3>1, SameRowsKeep DEF Accepts, Refuses
    <3>2. CASE ~(Accepts(w, x) \/ Refuses(w, x))
      <4>1. delivery[x] \in DeliveryRows /\ delivery[x].made
        BY <2>1 DEF Typed, TypeOK, InFlight
      <4>2. PICK row : /\ delivery' = [delivery EXCEPT ![x] = row]
                       /\ row.made = delivery[x].made
                       /\ Settled(delivery[x]) => Settled(row)
        <5> DEFINE won == [delivery[x] EXCEPT !.delivered = TRUE]
                   lost == [delivery[x] EXCEPT !.deadlettered = TRUE,
                                               !.attempt = flight[w][x].attempt]
                   again == [delivery[x] EXCEPT !.attempt = NextAttempt(flight[w][x])]
        <5>1. /\ won.made = delivery[x].made /\ won.delivered
              /\ lost.made = delivery[x].made /\ lost.deadlettered
              /\ again.made = delivery[x].made
              /\ again.delivered = delivery[x].delivered
              /\ again.deadlettered = delivery[x].deadlettered
          BY <4>1 DEF DeliveryRows
        <5>2. \/ delivery' = [delivery EXCEPT ![x] = won]
              \/ delivery' = [delivery EXCEPT ![x] = lost]
              \/ delivery' = [delivery EXCEPT ![x] = again]
          BY <1>2, <3>2 DEF MarkDelivered, MarkDeadlettered, MarkFailed, Marked
        <5> HIDE DEF won, lost, again
        <5> QED
          BY <5>1, <5>2 DEF Settled
      <4>3. \A y \in Pairs : delivery'[y] = IF y = x THEN row ELSE delivery[y]
        BY <4>2 DEF Typed, TypeOK
      <4> QED
        BY <4>1, <4>2, <4>3 DEF Keeps, Spared
    <3> QED
      BY <3>1, <3>2
  <2>3. x \notin spared[w]
    BY <1>1, <2>1 DEF SparedFor, InFlight, NoFlight
  <2>4. \A y \in spared'[w] : Settled(delivery'[y]) /\ flight'[w][y] = NoFlight
    BY <1>1, <2>1, <2>2, <2>3 DEF SparedFor, Keeps
  <2>5. SparedFor(w)'
    BY <1>1, <2>1, <2>4 DEF SparedFor, Settled
  <2> QED
    BY <2>1, <2>2, <2>5, SparedOthers
<1>3. ASSUME Forget(w, x) \/ Remember(w, x) PROVE Spared'
  <2>1. /\ UNCHANGED <<delivery, spared>>
        /\ flight' = [flight EXCEPT ![w][x] = NoFlight]
    BY <1>3 DEF Forget, Remember, history
  <2>2. \A v \in Workers : pass'[v].step = pass[v].step
    BY <1>3, CooldownPasses
  <2>3. /\ flight'[w][x] = NoFlight
        /\ \A y \in Pairs : y # x => flight'[w][y] = flight[w][y]
        /\ \A v \in Workers : v # w => flight'[v] = flight[v]
    BY <2>1 DEF Typed, TypeOK
  <2>4. SparedFor(w)'
    BY <1>1, <2>1, <2>2, <2>3 DEF SparedFor, Settled
  <2> QED
    BY <2>1, <2>2, <2>3, <2>4, SparedOthers, SameRowsKeep
<1> QED
  BY <1>2, <1>3 DEF Attempt

LEMMA SparedStep == Typed /\ Placed /\ Spared /\ [Next]_vars => Spared'
<1> SUFFICES ASSUME Typed, Placed, Spared, [Next]_vars PROVE Spared'
  OBVIOUS
<1>1. ASSUME UNCHANGED <<delivery, pass, flight, spared>> PROVE Spared'
  BY <1>1 DEF Spared, SparedFor, Settled
<1>2. CASE \/ \E e \in Events : Emit(e)
           \/ \E x \in Pairs : Elapse(x)
           \/ UNCHANGED vars
  BY <1>1, <1>2 DEF Emit, Elapse, vars, history
<1>3. CASE Merchant
  BY <1>1, <1>3, MerchantChanges DEF Change, history
<1>4. ASSUME NEW w \in Workers, Drain(w) \/ Replay(w) PROVE Spared'
  BY <1>4, SparedDrain, SparedReplay
<1>5. ASSUME NEW w \in Workers, NEW x \in Pairs, BeginReplay(w, x) \/ Attempt(w, x)
      PROVE  Spared'
  BY <1>5, SparedReplay, SparedAttempt
<1>6. CASE Restart
  <2>1. spared' = [w \in Workers |-> {}] /\ UNCHANGED delivery
    BY <1>6 DEF Restart
  <2> QED
    BY <2>1 DEF Spared, SparedFor, Settled
<1> QED
  BY <1>2, <1>3, <1>4, <1>5, <1>6 DEF Next

\* A pass does not take up what was settled when it began, unless a replay has
\* reset it since, however many passes overlap, whatever late marks of other
\* attempts write and whenever the process restarts: a mark sets the attempt
\* count and its own timestamp, and never clears one (repository.ts, the marks).
THEOREM SettledStays == Spec => []SettledIsSkipped
<1>1. Init => Spared
  BY DEF Init, Spared, SparedFor, Settled, NoDelivery
<1>2. Typed /\ Spared => SettledIsSkipped
  <2> SUFFICES ASSUME Spared, NEW w \in Workers, NEW x \in Pairs, x \in spared[w]
               PROVE  flight[w][x] = NoFlight
    BY DEF SettledIsSkipped
  <2> QED
    BY DEF Spared, SparedFor
<1> QED
  BY <1>1, <1>2, SparedStep, AlwaysPlaced, PTL DEF Spec

-----------------------------------------------------------------------------
(* Backoff, while one pass or replay runs at a time.                       *)

Alone == \A v, w \in Workers : v = w

\* A pass that has not selected its deliveries finds in the cooldown map all
\* that is there now.
Draining == {"listing_endpoints", "listing_deliveries", "creating", "selected"}
Knows == \A w \in Workers : pass[w].step \in Draining => cooling \subseteq pass[w].hot

\* A POST was made that has not reached the cooldown map.
Sent(w, x) == flight[w][x].stage \in {"posted", "accepted", "refused", "failed"}

\* A window that the cooldown map does not know, with no attempt that is about
\* to tell it, is one that a restart has forgotten.
Waits ==
  /\ \A x \in Watched :
       /\ early[x] <= restarts
       /\ x \in window \ cooling =>
            (\E w \in Workers : Sent(w, x)) \/ early[x] < restarts
  /\ \A w \in Workers, x \in Pairs : flight[w][x].stage = "settled" => x \notin window

LEMMA KnowsStep == Typed /\ Knows /\ [Next]_vars => Knows'
<1> SUFFICES ASSUME Typed, Knows, [Next]_vars PROVE Knows'
  OBVIOUS
<1>1. ASSUME UNCHANGED cooling, NEW w \in Workers, NEW q,
             pass' = [pass EXCEPT ![w] = q],
             q.step \in Draining => cooling \subseteq q.hot
      PROVE  Knows'
  <2> SUFFICES ASSUME NEW v \in Workers, pass'[v].step \in Draining
               PROVE  cooling \subseteq pass'[v].hot
    BY <1>1 DEF Knows
  <2>1. pass'[v] = IF v = w THEN q ELSE pass[v]
    BY <1>1 DEF Typed, TypeOK
  <2> QED
    BY <1>1, <2>1 DEF Knows
<1>2. ASSUME UNCHANGED pass, cooling' \subseteq cooling PROVE Knows'
  BY <1>2 DEF Knows
<1>3. CASE \/ \E e \in Events : Emit(e)
           \/ \E x \in Pairs : Elapse(x)
           \/ UNCHANGED vars
  BY <1>2, <1>3 DEF Emit, Elapse, vars
<1>4. CASE Merchant
  BY <1>2, <1>4, MerchantChanges DEF Change
<1>5. ASSUME NEW w \in Workers, Drain(w) PROVE Knows'
  <2>1. pass[w] \in Passes
    BY DEF Typed, TypeOK
  <2>2. ASSUME BeginPass(w) PROVE Knows'
    <3> DEFINE q == [NoPass EXCEPT !.step = "listing_endpoints", !.seen = Emitted,
                                   !.hot = cooling]
    <3>1. q.hot = cooling
      BY DEF NoPass
    <3>2. pass' = [pass EXCEPT ![w] = q] /\ UNCHANGED cooling
      BY <2>2 DEF BeginPass
    <3> HIDE DEF q
    <3> QED
      BY <1>1, <3>1, <3>2
  <2>3. ASSUME ListEndpoints(w) PROVE Knows'
    <3> DEFINE q == [pass[w] EXCEPT !.step = "listing_deliveries", !.rows = endpoint,
                                    !.todo = Owed(pass[w].seen, endpoint)]
    <3>1. q.hot = pass[w].hot
      BY <2>1 DEF Passes
    <3>2. pass' = [pass EXCEPT ![w] = q] /\ UNCHANGED cooling
      BY <2>3 DEF ListEndpoints
    <3>3. cooling \subseteq pass[w].hot
      BY <2>3 DEF ListEndpoints, Knows, Draining
    <3> HIDE DEF q
    <3> QED
      BY <1>1, <3>1, <3>2, <3>3
  <2>4. ASSUME ListDeliveries(w) PROVE Knows'
    <3> DEFINE q == [pass[w] EXCEPT !.step = "creating",
                       !.missing = {x \in pass[w].todo : ~delivery[x].made}]
    <3>1. q.hot = pass[w].hot
      BY <2>1 DEF Passes
    <3>2. pass' = [pass EXCEPT ![w] = q] /\ UNCHANGED cooling
      BY <2>4 DEF ListDeliveries
    <3>3. cooling \subseteq pass[w].hot
      BY <2>4 DEF ListDeliveries, Knows, Draining
    <3> HIDE DEF q
    <3> QED
      BY <1>1, <3>1, <3>2, <3>3
  <2>5. ASSUME NEW x \in Pairs, CreateDelivery(w, x) PROVE Knows'
    <3> DEFINE q == [pass[w] EXCEPT !.missing = pass[w].missing \ {x}]
    <3>1. q.hot = pass[w].hot
      BY <2>1 DEF Passes
    <3>2. pass' = [pass EXCEPT ![w] = q] /\ UNCHANGED cooling
      BY <2>5 DEF CreateDelivery, Typed, TypeOK
    <3>3. cooling \subseteq pass[w].hot
      BY <2>5 DEF CreateDelivery, Knows, Draining
    <3> HIDE DEF q
    <3> QED
      BY <1>1, <3>1, <3>2, <3>3
  <2>6. ASSUME SelectDeliveries(w) PROVE Knows'
    <3> DEFINE q == [pass[w] EXCEPT !.step = "selected"]
    <3>1. q.hot = pass[w].hot
      BY <2>1 DEF Passes
    <3>2. pass' = [pass EXCEPT ![w] = q] /\ UNCHANGED cooling
      BY <2>6 DEF SelectDeliveries, Step, Typed, TypeOK
    <3>3. cooling \subseteq pass[w].hot
      BY <2>6 DEF SelectDeliveries, Knows, Draining
    <3> HIDE DEF q
    <3> QED
      BY <1>1, <3>1, <3>2, <3>3
  <2>7. ASSUME PostDue(w) PROVE Knows'
    <3> DEFINE q == [pass[w] EXCEPT !.step = "sending"]
    <3>1. q.step = "sending"
      BY <2>1 DEF Passes
    <3>2. pass' = [pass EXCEPT ![w] = q] /\ UNCHANGED cooling
      BY <2>7 DEF PostDue, Step, Typed, TypeOK
    <3> HIDE DEF q
    <3> QED
      BY <1>1, <3>1, <3>2 DEF Draining
  <2>8. ASSUME EndPass(w) PROVE Knows'
    BY <1>1, <2>8, NoPassIs DEF EndPass, Draining
  <2> QED
    BY <1>5, <2>2, <2>3, <2>4, <2>5, <2>6, <2>7, <2>8 DEF Drain
<1>6. ASSUME NEW w \in Workers, Replay(w) PROVE Knows'
  <2>1. PICK step \in {"resetting", "reloading", "reloaded", "sending"} :
          pass' = [pass EXCEPT ![w].step = step]
    BY <1>6 DEF Replay, EnsureDelivery, ResetForReplay, Reload, Redeliver, Step
  <2> DEFINE q == [pass[w] EXCEPT !.step = step]
  <2>2. q.step = step
    BY DEF Typed, TypeOK, Passes
  <2>3. pass' = [pass EXCEPT ![w] = q]
    BY <2>1 DEF Typed, TypeOK
  <2>4. UNCHANGED cooling
    BY <1>6 DEF Replay, EnsureDelivery, ResetForReplay, Reload, Redeliver
  <2> HIDE DEF q
  <2> QED
    BY <1>1, <2>2, <2>3, <2>4 DEF Draining
<1>7. ASSUME NEW w \in Workers, NEW x \in Pairs, BeginReplay(w, x) PROVE Knows'
  <2> DEFINE q == [NoPass EXCEPT !.step = "ensuring", !.todo = {x}, !.rows = endpoint]
  <2>1. q.step = "ensuring"
    BY DEF NoPass
  <2>2. pass' = [pass EXCEPT ![w] = q] /\ UNCHANGED cooling
    BY <1>7 DEF BeginReplay
  <2> HIDE DEF q
  <2> QED
    BY <1>1, <2>1, <2>2 DEF Draining
<1>8. ASSUME NEW w \in Workers, NEW x \in Pairs, Attempt(w, x) PROVE Knows'
  <2>1. CASE Forget(w, x) \/ Remember(w, x)
    BY <2>1, CooldownPasses DEF Knows, Draining
  <2>2. CASE ~(Forget(w, x) \/ Remember(w, x))
    BY <1>2, <1>8, <2>2 DEF Attempt, Accepts, Refuses, MarkDelivered, MarkDeadlettered,
                            MarkFailed, Marked
  <2> QED
    BY <2>1, <2>2
<1>9. CASE Restart
  BY <1>9, NoPassIs DEF Restart, Knows, Draining
<1> QED
  BY <1>3, <1>4, <1>5, <1>6, <1>7, <1>8, <1>9 DEF Next

\* A step that lets no attempt go and opens no window.
LEMMA WaitsStays ==
  ASSUME Waits, UNCHANGED <<cooling, window, early, restarts>>,
         \A w \in Workers, x \in Pairs :
           /\ Sent(w, x) => Sent(w, x)'
           /\ flight'[w][x].stage = "settled" => flight[w][x].stage = "settled"
  PROVE  Waits'
<1>1. Watched \subseteq Pairs
  BY DeliveryAssumption DEF Pairs
<1> QED
  BY <1>1 DEF Waits

\* While nobody is sending, no POST is on its way.
LEMMA NobodySends ==
  ASSUME Alone, Placed, NEW w \in Workers, pass[w].step # "sending",
         NEW v \in Workers, NEW x \in Pairs
  PROVE  ~Sent(v, x) /\ flight[v][x].stage # "settled"
<1>1. v = w /\ PlacedFor(w)
  BY DEF Alone, Placed
<1> QED
  BY <1>1 DEF PlacedFor, Sent, NoFlight

LEMMA WaitsDrain ==
  ASSUME Alone, Typed, Placed, Knows, Waits, NEW w \in Workers, Drain(w) \/ Replay(w)
  PROVE  Waits'
<1>1. CASE \/ BeginPass(w) \/ ListEndpoints(w) \/ ListDeliveries(w) \/ EndPass(w)
           \/ EnsureDelivery(w) \/ ResetForReplay(w) \/ \E x \in Pairs : CreateDelivery(w, x)
  <2>1. UNCHANGED <<cooling, window, early, restarts, flight>>
    BY <1>1 DEF BeginPass, ListEndpoints, ListDeliveries, EndPass, EnsureDelivery,
                ResetForReplay, CreateDelivery, history, bounds
  <2> QED
    BY <2>1, WaitsStays DEF Sent
<1>2. CASE SelectDeliveries(w) \/ Reload(w)
  <2>1. /\ UNCHANGED <<cooling, window, early, restarts>>
        /\ pass[w].step # "sending" /\ pass'[w].step # "sending"
    BY <1>2 DEF SelectDeliveries, Reload, history, bounds, Step, Typed, TypeOK, Passes
  <2>2. \A v \in Workers, x \in Pairs : flight'[v][x].stage # "settled"
    <3>1. Placed'
      BY <1>2, ReadingPlaced
    <3> QED
      BY <2>1, <3>1 DEF Alone, Placed, PlacedFor, NoFlight
  <2> QED
    BY <2>1, <2>2, NobodySends, WaitsStays
<1>3. ASSUME PostDue(w) \/ Redeliver(w), NEW v \in Workers, NEW x \in Pairs
      PROVE  ~Sent(v, x) /\ flight'[v][x].stage # "settled"
  <2>1. PICK work \in SUBSET ReadBy(w) : Post(w, work)
    BY <1>3, PostsWhatWasRead
  <2>2. v = w /\ work \in SUBSET Pairs
    BY DEF Alone, ReadBy
  <2>3. flight'[w][x] = IF x \in work THEN [flight[w][x] EXCEPT !.stage = "posted"]
                        ELSE NoFlight
    BY <2>1, <2>2, PostFlights
  <2>4. flight[w][x] \in Flights
    BY DEF Typed, TypeOK
  <2>5. flight'[v][x].stage # "settled"
    BY <2>2, <2>3, <2>4 DEF Flights, NoFlight
  <2>6. pass[w].step # "sending"
    BY <1>3 DEF PostDue, Redeliver
  <2> QED
    BY <2>5, <2>6, NobodySends
<1>4. CASE Redeliver(w)
  <2>1. UNCHANGED <<cooling, window, early, restarts>>
    BY <1>4 DEF Redeliver, bounds
  <2> QED
    BY <1>3, <1>4, <2>1, WaitsStays
<1>5. CASE PostDue(w)
  <2> DEFINE due == {x \in ReadBy(w) : Cooled(w, x)}
  <2>1. /\ UNCHANGED <<cooling, window, restarts>> /\ Post(w, due)
        /\ early' = [x \in Watched |-> early[x] + (IF x \in due \cap window THEN 1 ELSE 0)]
    BY <1>5 DEF PostDue, bounds
  <2>2. due \in SUBSET Pairs /\ \A x \in due : x \notin cooling
    BY <1>5 DEF ReadBy, Cooled, PostDue, Knows, Draining
  <2>3. \A x \in due : Sent(w, x)'
    <3> SUFFICES ASSUME NEW x \in due PROVE flight'[w][x].stage = "posted"
      BY DEF Sent
    <3> HIDE DEF due
    <3>1. flight'[w][x] = [flight[w][x] EXCEPT !.stage = "posted"]
      BY <2>1, <2>2, PostFlights
    <3>2. flight[w][x] \in Flights
      BY <2>2 DEF Typed, TypeOK
    <3> QED
      BY <3>1, <3>2 DEF Flights
  <2> HIDE DEF due
  <2>4. ASSUME NEW x \in Watched
        PROVE  /\ early'[x] <= restarts
               /\ x \in window \ cooling =>
                    (\E v \in Workers : Sent(v, x)') \/ early'[x] < restarts
    <3>1. x \in Pairs
      BY DeliveryAssumption DEF Pairs
    <3>2. \A v \in Workers : ~Sent(v, x)
      BY <1>3, <1>5, <3>1
    <3>3. /\ early[x] \in Nat /\ restarts \in Nat /\ early[x] <= restarts
          /\ x \in window \ cooling => early[x] < restarts
      BY <3>2 DEF Waits, Typed, TypeOK
    <3>4. early'[x] = early[x] + (IF x \in due \cap window THEN 1 ELSE 0)
      BY <2>1
    <3> QED
      BY <2>2, <2>3, <3>3, <3>4
  <2> QED
    BY <1>3, <1>5, <2>1, <2>4 DEF Waits
<1> QED
  BY <1>1, <1>2, <1>4, <1>5 DEF Drain, Replay

LEMMA WaitsAttempt ==
  ASSUME Alone, Typed, Waits, NEW w \in Workers, NEW x \in Pairs, Attempt(w, x)
  PROVE  Waits'
<1>0. Watched \subseteq Pairs
  BY DeliveryAssumption DEF Pairs
<1>1. CASE Accepts(w, x) \/ Refuses(w, x)
  <2>1. UNCHANGED <<cooling, window, early, restarts>>
    BY <1>1 DEF Accepts, Refuses, bounds
  <2>2. /\ flight'[w][x].stage \in {"accepted", "refused"}
        /\ \A v \in Workers, y \in Pairs :
             ~(v = w /\ y = x) => flight'[v][y] = flight[v][y]
    BY <1>1 DEF Accepts, Refuses, Typed, TypeOK, Flights
  <2> QED
    BY <2>1, <2>2, WaitsStays DEF Sent
<1>2. CASE MarkDelivered(w, x) \/ MarkDeadlettered(w, x) \/ MarkFailed(w, x)
  <2>1. UNCHANGED <<cooling, early, restarts>>
    BY <1>2 DEF MarkDelivered, MarkDeadlettered, MarkFailed, Marked, bounds
  <2>2. \A v \in Workers, y \in Pairs : y # x => flight'[v][y] = flight[v][y]
    BY <1>2, AttemptMoves
  <2>3. \/ flight'[w][x].stage = "settled" /\ window' = window \ {x}
        \/ flight'[w][x].stage = "failed" /\ window' = window \cup {x}
    BY <1>2 DEF MarkDelivered, MarkDeadlettered, MarkFailed, Marked, Typed, TypeOK, Flights
  <2>4. ASSUME NEW y \in Watched
        PROVE  /\ early'[y] <= restarts'
               /\ y \in window' \ cooling' =>
                    (\E v \in Workers : Sent(v, y)') \/ early'[y] < restarts'
    BY <1>0, <2>1, <2>2, <2>3 DEF Waits, Sent
  <2>5. ASSUME NEW v \in Workers, NEW y \in Pairs, flight'[v][y].stage = "settled"
        PROVE  y \notin window'
    BY <2>2, <2>3, <2>5 DEF Waits, Alone
  <2> QED
    BY <2>4, <2>5 DEF Waits
<1>3. CASE Forget(w, x) \/ Remember(w, x)
  <2>1. UNCHANGED <<window, early, restarts>>
    BY <1>3 DEF Forget, Remember, history, bounds
  <2>2. /\ \A v \in Workers, y \in Pairs : y # x => flight'[v][y] = flight[v][y]
        /\ \A v \in Workers : flight'[v][x] = NoFlight
    BY <1>3 DEF Forget, Remember, Alone, Typed, TypeOK
  <2>3. \/ x \notin window /\ cooling' = cooling \ {x}
        \/ cooling' = cooling \cup {x}
    BY <1>3 DEF Forget, Remember, Waits
  <2>4. ASSUME NEW y \in Watched
        PROVE  /\ early'[y] <= restarts'
               /\ y \in window' \ cooling' =>
                    (\E v \in Workers : Sent(v, y)') \/ early'[y] < restarts'
    BY <1>0, <2>1, <2>2, <2>3 DEF Waits, Sent
  <2>5. ASSUME NEW v \in Workers, NEW y \in Pairs, flight'[v][y].stage = "settled"
        PROVE  y \notin window'
    BY <2>1, <2>2, <2>5 DEF Waits, NoFlight
  <2> QED
    BY <2>4, <2>5 DEF Waits
<1> QED
  BY <1>1, <1>2, <1>3 DEF Attempt

LEMMA WaitsStep ==
  ASSUME Alone PROVE Typed /\ Placed /\ Knows /\ Waits /\ [Next]_vars => Waits'
<1> SUFFICES ASSUME Typed, Placed, Knows, Waits, [Next]_vars PROVE Waits'
  OBVIOUS
<1>1. ASSUME UNCHANGED <<cooling, window, early, restarts, flight>> PROVE Waits'
  BY <1>1, WaitsStays DEF Sent
<1>2. CASE (\E e \in Events : Emit(e)) \/ UNCHANGED vars
  BY <1>1, <1>2 DEF Emit, vars, history, bounds
<1>3. CASE Merchant
  BY <1>1, <1>3, MerchantChanges DEF Change, history
<1>4. ASSUME NEW w \in Workers, NEW x \in Pairs, BeginReplay(w, x) PROVE Waits'
  BY <1>1, <1>4 DEF BeginReplay, history
<1>5. ASSUME NEW x \in Pairs, Elapse(x) PROVE Waits'
  <2>1. /\ UNCHANGED <<early, restarts, flight>>
        /\ cooling' = cooling \ {x} /\ window' = window \ {x}
    BY <1>5 DEF Elapse, bounds
  <2> QED
    BY <2>1 DEF Waits, Sent
<1>6. CASE Restart
  <2>1. restarts' = restarts + 1 /\ UNCHANGED <<early, window>>
    BY <1>6 DEF Restart
  <2>2. \A w \in Workers, x \in Pairs : flight'[w][x].stage = "none"
    BY <1>6 DEF Restart, NoFlight
  <2>3. \A x \in Watched : early'[x] < restarts' /\ early'[x] <= restarts'
    BY <2>1 DEF Waits, Typed, TypeOK
  <2> QED
    BY <2>2, <2>3 DEF Waits
<1> QED
  BY <1>2, <1>3, <1>4, <1>5, <1>6, WaitsDrain, WaitsAttempt DEF Next

\* While one pass or replay runs at a time, a pass POSTs a pair inside its
\* backoff window at most once for each restart: the failed mark is written and
\* the window remembered before the next pass reads the clock, and only a restart
\* empties the map (drainEndpoint's cooldownMs).
THEOREM BackoffHolds ==
  ASSUME Alone
  PROVE  Spec => []RetriesWait
<1>1. Init => Knows /\ Waits
  BY NoPassIs DEF Init, Knows, Draining, Waits, NoFlight
<1>2. Waits => RetriesWait
  BY DEF Waits, RetriesWait
<1>3. Typed /\ Placed /\ Knows /\ Waits /\ [Next]_vars => Waits'
  BY WaitsStep
<1> QED
  BY <1>1, <1>2, <1>3, KnowsStep, AlwaysPlaced, PTL DEF Spec

-----------------------------------------------------------------------------
(* The budget, while one pass or replay runs at a time.                    *)

\* Every endpoint asks for m attempts.
EndpointsAsk(m) == \A p \in Endpoints : endpoint[p].live => endpoint[p].max = m

\* What replays have granted, and what restarts may have left uncounted.
Granted(m) == m * replays + restarts

\* A POST was made that its row does not count as failed or settled yet.
Out(w, x) == flight[w][x].stage \in {"posted", "accepted", "refused"}

\* A pass works for endpoints that asked for m; its attempts are the ones the
\* rows count; a replay has been granted and starts a row over.
PassesAsk(m) ==
  \A w \in Workers :
    /\ \A x \in pass[w].todo : pass[w].rows[x[2]].max = m
    /\ \A x \in Pairs :
         flight[w][x].stage = "read" \/ Out(w, x) =>
           flight[w][x].attempt = delivery[x].attempt /\ flight[w][x].max = m
    /\ \A x \in Pairs : flight[w][x].stage = "read" => ~Settled(delivery[x])
    /\ pass[w].step \in Replaying =>
         \A x \in pass[w].todo \cap Watched : posts[x] <= Granted(m)
    /\ pass[w].step \in {"reloading", "reloaded"} =>
         \A x \in pass[w].todo : delivery[x] = FirstAttempt

\* The POSTs that the row of a pair accounts for, since it was last reset.
Spent(m, x) ==
  IF ~delivery[x].made THEN 0
  ELSE IF \E w \in Workers : Out(w, x) THEN delivery[x].attempt
  ELSE IF Settled(delivery[x]) THEN m
  ELSE delivery[x].attempt - 1

Counted(m) ==
  /\ \A x \in Pairs : delivery[x].made => delivery[x].attempt <= m
  /\ \A x \in Watched : posts[x] <= Granted(m) + Spent(m, x)

Budget(m) == EndpointsAsk(m) /\ PassesAsk(m) /\ Counted(m)

LEMMA GrantedType ==
  ASSUME Typed, NEW m \in Nat
  PROVE  /\ Granted(m) \in Nat
         /\ replays' = replays + 1 /\ restarts' = restarts => Granted(m)' = Granted(m) + m
<1>1. replays \in Nat /\ restarts \in Nat
  BY DEF Typed, TypeOK
<1>2. \A r \in Nat : m * r \in Nat /\ m * (r + 1) = m * r + m
  OBVIOUS
<1> QED
  BY <1>1, <1>2 DEF Granted

LEMMA WatchedPairs == Watched \subseteq Pairs
  BY DeliveryAssumption DEF Pairs

LEMMA SpentType ==
  ASSUME Typed, NEW m \in Nat, Counted(m), NEW x \in Pairs
  PROVE  Spent(m, x) \in Nat /\ Spent(m, x) <= m
<1>1. delivery[x].attempt \in Nat /\ (delivery[x].made => delivery[x].attempt >= 1)
  BY DEF Typed, TypeOK, DeliveryRows
<1> QED
  BY <1>1 DEF Spent, Counted

\* A step that changes no row, no POST and no attempt.
LEMMA CountedStays ==
  ASSUME NEW m, Counted(m), UNCHANGED <<delivery, flight, posts, replays, restarts>>
  PROVE  Counted(m)'
  BY WatchedPairs DEF Counted, Granted, Spent, Out, Settled

\* The steps of the domain, the merchant and time.
LEMMA OutsideBudget ==
  ASSUME Typed, NEW m \in Nat \ {0}, MaxAttempts = {m}, Budget(m),
         (\E e \in Events : Emit(e)) \/ Merchant \/ (\E x \in Pairs : Elapse(x))
           \/ UNCHANGED vars
  PROVE  Budget(m)'
<1>1. ASSUME UNCHANGED <<delivery, pass, flight, posts, replays, restarts>>
      PROVE  PassesAsk(m)' /\ Counted(m)'
  BY <1>1, CountedStays DEF Budget, PassesAsk, Granted, Out, Settled
<1>2. ASSUME UNCHANGED endpoint PROVE EndpointsAsk(m)'
  BY <1>2 DEF Budget, EndpointsAsk
<1>3. CASE (\E e \in Events : Emit(e)) \/ (\E x \in Pairs : Elapse(x)) \/ UNCHANGED vars
  BY <1>1, <1>2, <1>3 DEF Emit, Elapse, vars, history, bounds, Budget
<1>4. CASE Merchant
  <2>1. PICK p \in Endpoints, row \in EndpointRows :
          Change(p, row) /\ (row.live => row.max = m)
    BY <1>4, MerchantChanges
  <2>2. EndpointsAsk(m)'
    BY <2>1 DEF Change, EndpointsAsk, Budget, Typed, TypeOK
  <2> QED
    BY <1>1, <2>1, <2>2 DEF Change, history, Budget
<1> QED
  BY <1>3, <1>4

\* The only worker's pass becomes another one, with no attempt under way.
LEMMA PassAsks ==
  ASSUME Alone, Typed, NEW m, NEW w \in Workers, NEW q,
         UNCHANGED flight, \A x \in Pairs : flight[w][x] = NoFlight,
         pass' = [pass EXCEPT ![w] = q],
         \A x \in q.todo : q.rows[x[2]].max = m,
         q.step \in Replaying => \A x \in q.todo \cap Watched : posts'[x] <= Granted(m)',
         q.step \in {"reloading", "reloaded"} =>
           \A x \in q.todo : delivery'[x] = FirstAttempt
  PROVE  PassesAsk(m)'
<1> SUFFICES ASSUME NEW v \in Workers
             PROVE  /\ \A x \in pass'[v].todo : pass'[v].rows[x[2]].max = m
                    /\ \A x \in Pairs : flight'[v][x].stage = "none"
                    /\ pass'[v].step \in Replaying =>
                         \A x \in pass'[v].todo \cap Watched : posts'[x] <= Granted(m)'
                    /\ pass'[v].step \in {"reloading", "reloaded"} =>
                         \A x \in pass'[v].todo : delivery'[x] = FirstAttempt
  BY DEF PassesAsk, Out
<1>1. pass'[v] = q
  BY DEF Alone, Typed, TypeOK
<1>2. \A x \in Pairs : flight'[v][x].stage = "none"
  BY DEF Alone, NoFlight
<1> QED
  BY <1>1, <1>2

\* A row that is made, or started over, has spent nothing.
LEMMA FirstIsFree ==
  ASSUME Typed, NEW m \in Nat \ {0}, NEW x \in Pairs, Counted(m),
         UNCHANGED <<flight, posts, replays, restarts>>,
         \A w \in Workers, y \in Pairs : flight[w][y] = NoFlight,
         delivery' = [delivery EXCEPT ![x] = FirstAttempt],
         x \in Watched => posts[x] <= Granted(m)
  PROVE  Counted(m)'
<1>1. Granted(m)' = Granted(m)
  BY DEF Granted
<1>2. \A w \in Workers, y \in Pairs : ~Out(w, y) /\ ~Out(w, y)'
  BY DEF Out, NoFlight
<1>3. /\ delivery'[x] = FirstAttempt
      /\ \A y \in Pairs : y # x => delivery'[y] = delivery[y]
  BY DEF Typed, TypeOK
<1>4. /\ FirstAttempt.made /\ FirstAttempt.attempt = 1
      /\ ~FirstAttempt.delivered /\ ~FirstAttempt.deadlettered
  BY DEF FirstAttempt
<1>5. \A y \in Pairs : delivery'[y].made => delivery'[y].attempt <= m
  BY <1>3, <1>4 DEF Counted
<1>6. ASSUME NEW y \in Watched PROVE posts'[y] <= Granted(m)' + Spent(m, y)'
  <2>1. CASE y = x
    <3>1. Spent(m, y)' = 0
      BY <1>2, <1>3, <1>4, <2>1 DEF Spent, Settled
    <3>2. posts[y] \in Nat /\ Granted(m) \in Nat
      BY GrantedType DEF Typed, TypeOK
    <3> QED
      BY <1>1, <2>1, <3>1, <3>2
  <2>2. CASE y # x
    <3>1. Spent(m, y)' = Spent(m, y)
      BY <1>2, <1>3, <2>2, WatchedPairs DEF Spent, Settled
    <3> QED
      BY <1>1, <3>1 DEF Counted
  <2> QED
    BY <2>1, <2>2
<1> QED
  BY <1>5, <1>6 DEF Counted

LEMMA InsertIsFree ==
  ASSUME Typed, NEW m \in Nat \ {0}, NEW x \in Pairs, Counted(m),
         UNCHANGED <<flight, posts, replays, restarts>>,
         \A w \in Workers, y \in Pairs : flight[w][y] = NoFlight,
         delivery' = Inserted(x)
  PROVE  Counted(m)'
<1>1. CASE delivery[x].made
  BY <1>1, CountedStays DEF Inserted
<1>2. CASE ~delivery[x].made
  <2>1. x \in Watched => posts[x] <= Granted(m)
    <3>1. Spent(m, x) = 0 /\ Granted(m) \in Nat
      BY <1>2, GrantedType DEF Spent
    <3> QED
      BY <3>1 DEF Counted
  <2> QED
    BY <1>2, <2>1, FirstIsFree DEF Inserted
<1> QED
  BY <1>1, <1>2

\* The steps of a pass or replay that neither read rows, nor POST, nor begin a replay.
LEMMA MoveBudget ==
  ASSUME Alone, Typed, Placed, NEW m \in Nat \ {0}, Budget(m), NEW w \in Workers,
         \/ BeginPass(w) \/ ListEndpoints(w) \/ ListDeliveries(w) \/ EndPass(w)
         \/ \E x \in Pairs : CreateDelivery(w, x)
         \/ EnsureDelivery(w) \/ ResetForReplay(w)
  PROVE  Budget(m)'
<1>1. UNCHANGED <<endpoint, flight, posts, replays, restarts>>
  BY DEF BeginPass, ListEndpoints, ListDeliveries, EndPass, CreateDelivery,
         EnsureDelivery, ResetForReplay, history, bounds
<1>2. EndpointsAsk(m)' /\ Granted(m)' = Granted(m)
  BY <1>1 DEF Budget, EndpointsAsk, Granted
<1>3. \A x \in Pairs : flight[w][x] = NoFlight
  BY MovePlaced
<1>4. \A v \in Workers, x \in Pairs : flight[v][x] = NoFlight
  BY <1>3 DEF Alone
<1>5. pass[w] \in Passes /\ \A x \in pass[w].todo : pass[w].rows[x[2]].max = m
  BY DEF Typed, TypeOK, Budget, PassesAsk
<1>6. CASE BeginPass(w)
  <2> DEFINE q == [NoPass EXCEPT !.step = "listing_endpoints", !.seen = Emitted,
                                 !.hot = cooling]
  <2>1. q.step = "listing_endpoints" /\ q.todo = {}
    BY DEF NoPass
  <2>2. pass' = [pass EXCEPT ![w] = q]
    BY <1>6 DEF BeginPass
  <2> HIDE DEF q
  <2>3. PassesAsk(m)'
    BY <1>1, <1>3, <2>1, <2>2, PassAsks DEF Replaying
  <2> QED
    BY <1>1, <1>2, <1>6, <2>3, CountedStays DEF BeginPass, Budget
<1>7. CASE ListEndpoints(w)
  <2> DEFINE q == [pass[w] EXCEPT !.step = "listing_deliveries", !.rows = endpoint,
                                  !.todo = Owed(pass[w].seen, endpoint)]
  <2>1. q.step = "listing_deliveries" /\ q.rows = endpoint
        /\ q.todo = Owed(pass[w].seen, endpoint)
    BY <1>5 DEF Passes
  <2>2. pass' = [pass EXCEPT ![w] = q]
    BY <1>7 DEF ListEndpoints
  <2>3. \A x \in Owed(pass[w].seen, endpoint) : endpoint[x[2]].max = m
    BY DEF Owed, Subscribed, Budget, EndpointsAsk
  <2> HIDE DEF q
  <2>4. PassesAsk(m)'
    BY <1>1, <1>3, <2>1, <2>2, <2>3, PassAsks DEF Replaying
  <2> QED
    BY <1>1, <1>2, <1>7, <2>4, CountedStays DEF ListEndpoints, Budget
<1>8. CASE ListDeliveries(w)
  <2> DEFINE q == [pass[w] EXCEPT !.step = "creating",
                     !.missing = {x \in pass[w].todo : ~delivery[x].made}]
  <2>1. q.step = "creating" /\ q.rows = pass[w].rows /\ q.todo = pass[w].todo
    BY <1>5 DEF Passes
  <2>2. pass' = [pass EXCEPT ![w] = q]
    BY <1>8 DEF ListDeliveries
  <2> HIDE DEF q
  <2>3. PassesAsk(m)'
    BY <1>1, <1>3, <1>5, <2>1, <2>2, PassAsks DEF Replaying
  <2> QED
    BY <1>1, <1>2, <1>8, <2>3, CountedStays DEF ListDeliveries, Budget
<1>9. CASE EndPass(w)
  <2>1. PassesAsk(m)'
    <3>1. \A v \in Workers : pass'[v] = NoPass
      BY <1>9 DEF EndPass, Alone, Typed, TypeOK
    <3>2. \A v \in Workers, x \in Pairs : flight'[v][x].stage = "none"
      BY <1>1, <1>4 DEF NoFlight
    <3> QED
      BY <3>1, <3>2, NoPassIs DEF PassesAsk, Out, Replaying
  <2> QED
    BY <1>1, <1>2, <1>9, <2>1, CountedStays DEF EndPass, Budget
<1>10. ASSUME NEW x \in Pairs, CreateDelivery(w, x) PROVE Budget(m)'
  <2> DEFINE q == [pass[w] EXCEPT !.missing = pass[w].missing \ {x}]
  <2>1. q.step = "creating" /\ q.rows = pass[w].rows /\ q.todo = pass[w].todo
    BY <1>5, <1>10 DEF CreateDelivery, Passes
  <2>2. pass' = [pass EXCEPT ![w] = q]
    BY <1>10 DEF CreateDelivery, Typed, TypeOK
  <2> HIDE DEF q
  <2>3. PassesAsk(m)'
    BY <1>1, <1>3, <1>5, <2>1, <2>2, PassAsks DEF Replaying
  <2>4. Counted(m)'
    BY <1>1, <1>4, <1>10, InsertIsFree DEF CreateDelivery, Budget
  <2> QED
    BY <1>2, <2>3, <2>4 DEF Budget
<1>11. CASE EnsureDelivery(w)
  <2>1. PICK x \in Pairs : pass[w].todo = {x}
    BY <1>11 DEF EnsureDelivery, Replaying, Typed, Held
  <2> DEFINE q == [pass[w] EXCEPT !.step = "resetting"]
  <2>2. q.step = "resetting" /\ q.rows = pass[w].rows /\ q.todo = pass[w].todo
    BY <1>5 DEF Passes
  <2>3. pass' = [pass EXCEPT ![w] = q]
    BY <1>11 DEF EnsureDelivery, Step, Typed, TypeOK
  <2>4. /\ \A y \in q.todo \cap Watched : posts'[y] <= Granted(m)'
        /\ \A y \in q.todo : q.rows[y[2]].max = m
        /\ q.step \notin {"reloading", "reloaded"}
    BY <1>1, <1>2, <1>5, <1>11, <2>2 DEF EnsureDelivery, Replaying, Budget, PassesAsk
  <2> HIDE DEF q
  <2>5. PassesAsk(m)'
    BY <1>1, <1>3, <2>3, <2>4, PassAsks
  <2>6. Counted(m)'
    BY <1>1, <1>4, <1>11, <2>1, InsertIsFree DEF EnsureDelivery, Budget
  <2> QED
    BY <1>2, <2>5, <2>6 DEF Budget
<1>12. CASE ResetForReplay(w)
  <2>1. PICK x \in Pairs : pass[w].todo = {x}
    BY <1>12 DEF ResetForReplay, Replaying, Typed, Held
  <2>2. x \in Watched => posts[x] <= Granted(m)
    BY <1>12, <2>1 DEF ResetForReplay, Replaying, Budget, PassesAsk
  <2> DEFINE q == [pass[w] EXCEPT !.step = "reloading"]
  <2>3. q.step = "reloading" /\ q.rows = pass[w].rows /\ q.todo = {x}
    BY <1>5, <2>1 DEF Passes
  <2>4. pass' = [pass EXCEPT ![w] = q]
    BY <1>12 DEF ResetForReplay, Step, Typed, TypeOK
  <2>5. delivery' = [delivery EXCEPT ![x] = FirstAttempt]
    BY <1>12, <2>1 DEF ResetForReplay
  <2>6. delivery'[x] = FirstAttempt /\ (x \in Watched => posts'[x] <= Granted(m)')
    BY <1>1, <1>2, <2>2, <2>5 DEF Typed, TypeOK
  <2> HIDE DEF q
  <2>7. PassesAsk(m)'
    BY <1>1, <1>3, <1>5, <2>1, <2>3, <2>4, <2>6, PassAsks
  <2>8. Counted(m)'
    BY <1>1, <1>4, <2>2, <2>5, FirstIsFree DEF Budget
  <2> QED
    BY <1>2, <2>7, <2>8 DEF Budget
<1> QED
  BY <1>6, <1>7, <1>8, <1>9, <1>10, <1>11, <1>12

\* A replay grants m POSTs more.
LEMMA BeginReplayBudget ==
  ASSUME Alone, Typed, Placed, NEW m \in Nat \ {0}, Budget(m), NEW w \in Workers,
         NEW x \in Pairs, BeginReplay(w, x)
  PROVE  Budget(m)'
<1>1. UNCHANGED <<endpoint, delivery, flight, posts, restarts>> /\ replays' = replays + 1
  BY DEF BeginReplay, history
<1>2. /\ Granted(m) \in Nat /\ Granted(m)' = Granted(m) + m
      /\ EndpointsAsk(m)'
  BY <1>1, GrantedType DEF Budget, EndpointsAsk
<1>3. \A y \in Watched : /\ posts[y] \in Nat /\ Spent(m, y) \in Nat /\ Spent(m, y) <= m
                         /\ posts[y] <= Granted(m) + Spent(m, y)
                         /\ Spent(m, y)' = Spent(m, y)
  <2> SUFFICES ASSUME NEW y \in Watched
               PROVE  /\ posts[y] \in Nat /\ Spent(m, y) \in Nat /\ Spent(m, y) <= m
                      /\ posts[y] <= Granted(m) + Spent(m, y)
                      /\ Spent(m, y)' = Spent(m, y)
    OBVIOUS
  <2>1. Spent(m, y)' = Spent(m, y)
    BY <1>1 DEF Spent, Out, Settled
  <2>2. Spent(m, y) \in Nat /\ Spent(m, y) <= m
    BY WatchedPairs, SpentType DEF Budget
  <2> QED
    BY <2>1, <2>2 DEF Typed, TypeOK, Budget, Counted
<1>4. \A y \in Watched : posts'[y] <= Granted(m)' /\ posts'[y] <= Granted(m)' + Spent(m, y)'
  BY <1>1, <1>2, <1>3
<1>5. Counted(m)'
  BY <1>1, <1>4 DEF Counted, Budget
<1> DEFINE q == [NoPass EXCEPT !.step = "ensuring", !.todo = {x}, !.rows = endpoint]
<1>6. q.step = "ensuring" /\ q.todo = {x} /\ q.rows = endpoint
  BY DEF NoPass
<1>7. endpoint[x[2]].max = m
  <2>1. x[2] \in Endpoints
    BY DEF Pairs
  <2> QED
    BY <2>1 DEF BeginReplay, Budget, EndpointsAsk
<1>8. pass' = [pass EXCEPT ![w] = q] /\ \A y \in Pairs : flight[w][y] = NoFlight
  BY MovePlaced DEF BeginReplay
<1> HIDE DEF q
<1>9. PassesAsk(m)'
  BY <1>1, <1>4, <1>6, <1>7, <1>8, PassAsks
<1> QED
  BY <1>2, <1>5, <1>9 DEF Budget

\* Rows that are read are not settled, and their attempts are the ones they count.
LEMMA ReadingBudget ==
  ASSUME Alone, Typed, Placed, NEW m \in Nat \ {0}, Budget(m), NEW w \in Workers,
         SelectDeliveries(w) \/ Reload(w)
  PROVE  Budget(m)'
<1>1. UNCHANGED <<endpoint, delivery, posts, replays, restarts>>
  BY DEF SelectDeliveries, Reload, history, bounds
<1>2. EndpointsAsk(m)' /\ Granted(m)' = Granted(m)
  BY <1>1 DEF Budget, EndpointsAsk, Granted
<1>3. \A v \in Workers, x \in Pairs : flight[v][x] = NoFlight
  BY ReadingPlaced DEF Alone
<1>4. PICK work \in SUBSET pass[w].todo :
        Hold(w, work) /\ \A x \in work : ~Settled(delivery[x])
  <2>1. CASE SelectDeliveries(w)
    BY <2>1 DEF SelectDeliveries, Pending
  <2>2. CASE Reload(w)
    <3>1. \A x \in pass[w].todo : delivery[x] = FirstAttempt
      BY <2>2 DEF Reload, Budget, PassesAsk
    <3> QED
      BY <2>2, <3>1 DEF Reload, FirstAttempt, Settled
  <2> QED
    BY <2>1, <2>2
<1>5. ASSUME NEW v \in Workers, NEW x \in Pairs
      PROVE  /\ ~Out(v, x)'
             /\ flight'[v][x].stage = "read" =>
                  /\ flight'[v][x].attempt = delivery[x].attempt
                  /\ flight'[v][x].max = m
                  /\ ~Settled(delivery[x])
  <2>1. v = w
    BY DEF Alone
  <2>2. flight'[v][x] = IF x \in work
                        THEN [stage |-> "read", attempt |-> delivery[x].attempt,
                              max |-> pass[w].rows[x[2]].max]
                        ELSE NoFlight
    BY <1>4, <2>1 DEF Hold, Typed, TypeOK
  <2>3. CASE x \in work
    <3>1. /\ flight'[v][x].stage = "read"
          /\ flight'[v][x].attempt = delivery[x].attempt
          /\ flight'[v][x].max = pass[w].rows[x[2]].max
      BY <2>2, <2>3
    <3>2. pass[w].rows[x[2]].max = m
      BY <2>3 DEF Budget, PassesAsk
    <3> QED
      BY <1>4, <2>3, <3>1, <3>2 DEF Out
  <2>4. CASE x \notin work
    BY <2>2, <2>4 DEF Out, NoFlight
  <2> QED
    BY <2>3, <2>4
<1>6. PassesAsk(m)'
  <2>1. pass[w] \in Passes
    BY DEF Typed, TypeOK
  <2> SUFFICES ASSUME NEW v \in Workers
               PROVE  /\ \A x \in pass'[v].todo : pass'[v].rows[x[2]].max = m
                      /\ pass'[v].step \in Replaying =>
                           \A x \in pass'[v].todo \cap Watched : posts'[x] <= Granted(m)'
                      /\ pass'[v].step \in {"reloading", "reloaded"} =>
                           \A x \in pass'[v].todo : delivery'[x] = FirstAttempt
    BY <1>1, <1>5 DEF PassesAsk, Settled
  <2>2. v = w
    BY DEF Alone
  <2>3. /\ pass'[v].todo = pass[w].todo /\ pass'[v].rows = pass[w].rows
        /\ \/ pass'[v].step = "selected"
           \/ pass'[v].step = "reloaded" /\ pass[w].step = "reloading"
    BY <2>1, <2>2 DEF SelectDeliveries, Reload, Step, Typed, TypeOK, Passes
  <2> QED
    BY <1>1, <1>2, <2>3 DEF Replaying, Budget, PassesAsk
<1>7. \A x \in Pairs : Spent(m, x)' = Spent(m, x)
  BY <1>1, <1>3, <1>5 DEF Spent, Settled, Out, NoFlight
<1>8. Counted(m)'
  BY <1>1, <1>2, <1>7, WatchedPairs DEF Counted, Budget
<1> QED
  BY <1>2, <1>6, <1>8 DEF Budget

\* A POST is made for rows that count it.
LEMMA PostingBudget ==
  ASSUME Alone, Typed, Placed, NEW m \in Nat \ {0}, Budget(m), NEW w \in Workers,
         PostDue(w) \/ Redeliver(w)
  PROVE  Budget(m)'
<1>1. UNCHANGED <<endpoint, delivery, replays, restarts>> /\ pass[w].step # "sending"
  BY DEF PostDue, Redeliver, bounds
<1>2. EndpointsAsk(m)' /\ Granted(m)' = Granted(m)
  BY <1>1 DEF Budget, EndpointsAsk, Granted
<1>3. \A v \in Workers, x \in Pairs : ~Out(v, x)
  BY <1>1, NobodySends DEF Sent, Out
<1>4. PICK work \in SUBSET ReadBy(w) : Post(w, work)
  BY PostsWhatWasRead
<1>5. \A x \in work : /\ x \in Pairs /\ delivery[x].made /\ ~Settled(delivery[x])
                      /\ flight[w][x].attempt = delivery[x].attempt
                      /\ flight[w][x].max = m
  <2> SUFFICES ASSUME NEW x \in work
               PROVE  /\ x \in Pairs /\ delivery[x].made /\ ~Settled(delivery[x])
                      /\ flight[w][x].attempt = delivery[x].attempt
                      /\ flight[w][x].max = m
    OBVIOUS
  <2>1. x \in Pairs /\ flight[w][x].stage = "read"
    BY DEF ReadBy
  <2> QED
    BY <2>1 DEF Typed, TypeOK, Budget, PassesAsk
<1>6. ASSUME NEW v \in Workers, NEW x \in Pairs
      PROVE  /\ Out(v, x)' <=> x \in work
             /\ flight'[v][x].stage # "read"
             /\ x \in work => /\ flight'[v][x].attempt = delivery[x].attempt
                              /\ flight'[v][x].max = m
  <2>1. v = w /\ work \in SUBSET Pairs
    BY DEF Alone, ReadBy
  <2>2. flight'[w][x] = IF x \in work THEN [flight[w][x] EXCEPT !.stage = "posted"]
                        ELSE NoFlight
    BY <1>4, <2>1, PostFlights
  <2>3. CASE x \in work
    <3>1. flight[w][x] \in Flights
      BY DEF Typed, TypeOK
    <3>2. /\ flight'[w][x].stage = "posted"
          /\ flight'[w][x].attempt = flight[w][x].attempt
          /\ flight'[w][x].max = flight[w][x].max
      BY <2>2, <2>3, <3>1 DEF Flights
    <3> QED
      BY <1>5, <2>1, <2>3, <3>2 DEF Out
  <2>4. CASE x \notin work
    BY <2>1, <2>2, <2>4 DEF Out, NoFlight
  <2> QED
    BY <2>3, <2>4
<1>7. PassesAsk(m)'
  <2> SUFFICES ASSUME NEW v \in Workers
               PROVE  /\ pass'[v].step = "sending"
                      /\ \A x \in pass'[v].todo : pass'[v].rows[x[2]].max = m
    BY <1>1, <1>6 DEF PassesAsk, Replaying
  <2>1. v = w /\ pass[w] \in Passes
    BY DEF Alone, Typed, TypeOK
  <2>2. pass'[v].step = "sending" /\ pass'[v].todo = pass[w].todo
        /\ pass'[v].rows = pass[w].rows
    BY <2>1 DEF PostDue, Redeliver, Step, Typed, TypeOK, Passes
  <2> QED
    BY <2>2 DEF Budget, PassesAsk
<1>8. ASSUME NEW x \in Watched PROVE posts'[x] <= Granted(m) + Spent(m, x)'
  <2>0. x \in Pairs
    BY WatchedPairs
  <2>1. posts'[x] = posts[x] + (IF x \in work THEN 1 ELSE 0)
    BY <1>4 DEF Post
  <2>2. /\ posts[x] \in Nat /\ Granted(m) \in Nat /\ delivery[x].attempt \in Nat
        /\ posts[x] <= Granted(m) + Spent(m, x)
    BY <2>0, GrantedType DEF Typed, TypeOK, DeliveryRows, Budget, Counted
  <2>3. CASE x \in work
    <3>1. Spent(m, x) = delivery[x].attempt - 1
      BY <1>3, <1>5, <2>0, <2>3 DEF Spent
    <3>2. Spent(m, x)' = delivery[x].attempt
      BY <1>1, <1>5, <1>6, <2>0, <2>3 DEF Spent
    <3> QED
      BY <2>1, <2>2, <2>3, <3>1, <3>2
  <2>4. CASE x \notin work
    <3>1. Spent(m, x)' = Spent(m, x)
      BY <1>1, <1>3, <1>6, <2>0, <2>4 DEF Spent, Settled
    <3> QED
      BY <2>1, <2>2, <2>4, <3>1
  <2> QED
    BY <2>3, <2>4
<1>9. Counted(m)'
  BY <1>1, <1>2, <1>8 DEF Counted, Budget
<1> QED
  BY <1>2, <1>7, <1>9 DEF Budget

LEMMA AnswerBudget ==
  ASSUME Typed, NEW m \in Nat \ {0}, Budget(m), NEW w \in Workers, NEW x \in Pairs,
         Accepts(w, x) \/ Refuses(w, x)
  PROVE  Budget(m)'
<1>1. UNCHANGED <<endpoint, delivery, pass, posts, replays, restarts>>
  BY DEF Accepts, Refuses, bounds
<1>2. ASSUME NEW v \in Workers, NEW y \in Pairs
      PROVE  /\ Out(v, y)' <=> Out(v, y)
             /\ flight'[v][y].stage = "read" => flight[v][y].stage = "read"
             /\ flight'[v][y].attempt = flight[v][y].attempt
             /\ flight'[v][y].max = flight[v][y].max
  <2>1. CASE v = w /\ y = x
    <3>1. /\ flight[w][x].stage = "posted"
          /\ flight'[w][x].stage \in {"accepted", "refused"}
      BY DEF Accepts, Refuses, Typed, TypeOK, Flights
    <3>2. /\ flight'[w][x].attempt = flight[w][x].attempt
          /\ flight'[w][x].max = flight[w][x].max
      BY AttemptMoves
    <3> QED
      BY <2>1, <3>1, <3>2 DEF Out
  <2>2. CASE ~(v = w /\ y = x)
    <3>1. flight'[v][y] = flight[v][y]
      BY <2>2, AttemptMoves
    <3> QED
      BY <3>1 DEF Out
  <2> QED
    BY <2>1, <2>2
<1>3. Granted(m)' = Granted(m) /\ EndpointsAsk(m)'
  BY <1>1 DEF Granted, Budget, EndpointsAsk
<1>4. PassesAsk(m)'
  BY <1>1, <1>2, <1>3 DEF Budget, PassesAsk, Settled
<1>5. \A y \in Pairs : Spent(m, y)' = Spent(m, y)
  BY <1>1, <1>2 DEF Spent, Settled
<1>6. Counted(m)'
  BY <1>1, <1>3, <1>5, WatchedPairs DEF Counted, Budget
<1> QED
  BY <1>3, <1>4, <1>6 DEF Budget

\* A mark leaves the row as many attempts as it has spent.
LEMMA MarkBudget ==
  ASSUME Alone, Typed, Placed, NEW m \in Nat \ {0}, Budget(m), NEW w \in Workers,
         NEW x \in Pairs,
         MarkDelivered(w, x) \/ MarkDeadlettered(w, x) \/ MarkFailed(w, x)
  PROVE  Budget(m)'
<1>1. /\ UNCHANGED <<endpoint, pass, posts, replays, restarts>>
      /\ Out(w, x)
  BY DEF MarkDelivered, MarkDeadlettered, MarkFailed, Marked, Is2xx, Out, bounds
<1>2. Granted(m)' = Granted(m) /\ EndpointsAsk(m)'
  BY <1>1 DEF Granted, Budget, EndpointsAsk
<1>3. /\ pass[w].step = "sending" /\ flight[w][x].max = m
      /\ flight[w][x].attempt = delivery[x].attempt
      /\ delivery[x].made /\ delivery[x].attempt \in Nat
      /\ delivery[x].attempt >= 1 /\ delivery[x].attempt <= m
  <2>1. pass[w].step = "sending"
    BY <1>1 DEF Placed, PlacedFor, Out, NoFlight
  <2>2. flight[w][x].max = m /\ flight[w][x].attempt = delivery[x].attempt
    BY <1>1 DEF Budget, PassesAsk
  <2>3. delivery[x].made
    BY <1>1 DEF Typed, TypeOK, Out
  <2> QED
    BY <2>1, <2>2, <2>3 DEF Budget, Counted, Typed, TypeOK, DeliveryRows
<1>4. \A y \in Pairs : y # x => delivery'[y] = delivery[y]
  BY DEF MarkDelivered, MarkDeadlettered, MarkFailed, Marked, Typed, TypeOK
<1>5. /\ delivery'[x].made /\ delivery'[x].attempt <= m
      /\ \/ Settled(delivery'[x])
         \/ delivery'[x].attempt = delivery[x].attempt + 1
  <2>1. delivery[x] \in DeliveryRows
    BY DEF Typed, TypeOK
  <2>2. CASE MarkDelivered(w, x)
    <3>1. delivery'[x] = [delivery[x] EXCEPT !.delivered = TRUE]
      BY <2>2 DEF MarkDelivered, Marked, Typed, TypeOK
    <3> QED
      BY <1>3, <2>1, <3>1 DEF DeliveryRows, Settled
  <2>3. CASE MarkDeadlettered(w, x)
    <3>1. delivery'[x] = [delivery[x] EXCEPT !.deadlettered = TRUE,
                                             !.attempt = flight[w][x].attempt]
      BY <2>3 DEF MarkDeadlettered, Marked, Typed, TypeOK
    <3> QED
      BY <1>3, <2>1, <3>1 DEF DeliveryRows, Settled
  <2>4. CASE MarkFailed(w, x)
    <3>1. delivery'[x] = [delivery[x] EXCEPT !.attempt = delivery[x].attempt + 1]
      BY <1>3, <2>4 DEF MarkFailed, Marked, NextAttempt, Typed, TypeOK
    <3>2. delivery[x].attempt < m
      BY <1>3, <2>4 DEF MarkFailed, Exhausted
    <3> QED
      BY <1>3, <2>1, <3>1, <3>2 DEF DeliveryRows
  <2> QED
    BY <2>2, <2>3, <2>4
<1>6. /\ \A v \in Workers, y \in Pairs : y # x => flight'[v][y] = flight[v][y]
      /\ \A v \in Workers : flight'[v][x].stage \in {"settled", "failed"}
  <2>1. flight'[w][x].stage \in {"settled", "failed"}
    BY DEF MarkDelivered, MarkDeadlettered, MarkFailed, Marked, Typed, TypeOK, Flights
  <2> QED
    BY <2>1, AttemptMoves DEF Alone
<1>7. PassesAsk(m)'
  <2> SUFFICES ASSUME NEW v \in Workers
               PROVE  /\ pass'[v].step = "sending"
                      /\ \A y \in pass'[v].todo : pass'[v].rows[y[2]].max = m
                      /\ \A y \in Pairs :
                           flight'[v][y].stage = "read" \/ Out(v, y)' =>
                             /\ flight'[v][y].attempt = delivery'[y].attempt
                             /\ flight'[v][y].max = m
                             /\ flight'[v][y].stage = "read" => ~Settled(delivery'[y])
    BY DEF PassesAsk, Replaying, Settled
  <2>1. v = w
    BY DEF Alone
  <2>2. ASSUME NEW y \in Pairs, flight'[v][y].stage = "read" \/ Out(v, y)'
        PROVE  /\ flight'[v][y].attempt = delivery'[y].attempt
               /\ flight'[v][y].max = m
               /\ flight'[v][y].stage = "read" => ~Settled(delivery'[y])
    <3>1. y # x /\ flight'[v][y] = flight[v][y]
      BY <1>6, <2>2 DEF Out
    <3> QED
      BY <1>4, <2>2, <3>1 DEF Out, Budget, PassesAsk
  <2> QED
    BY <1>1, <1>3, <2>1, <2>2 DEF Budget, PassesAsk
<1>8. \A y \in Pairs : delivery'[y].made => delivery'[y].attempt <= m
  BY <1>4, <1>5 DEF Budget, Counted
<1>9. ASSUME NEW y \in Watched PROVE posts'[y] <= Granted(m) + Spent(m, y)'
  <2>0. y \in Pairs
    BY WatchedPairs
  <2>1. CASE y = x
    <3>1. \A v \in Workers : ~Out(v, x)'
      BY <1>6 DEF Out
    <3>2. Spent(m, x)' \in {m, delivery[x].attempt}
      BY <1>3, <1>5, <3>1 DEF Spent, Settled
    <3>3. Spent(m, x) = delivery[x].attempt
      BY <1>1, <1>3 DEF Spent
    <3>4. posts[x] \in Nat /\ Granted(m) \in Nat /\ posts[x] <= Granted(m) + Spent(m, x)
      BY <2>1, GrantedType DEF Typed, TypeOK, Budget, Counted
    <3> QED
      BY <1>1, <1>3, <2>1, <3>2, <3>3, <3>4
  <2>2. CASE y # x
    <3>1. \A v \in Workers : Out(v, y)' <=> Out(v, y)
      BY <1>6, <2>0, <2>2 DEF Out
    <3>2. Spent(m, y)' = Spent(m, y)
      BY <1>4, <2>0, <2>2, <3>1 DEF Spent, Settled
    <3> QED
      BY <1>1, <3>2 DEF Budget, Counted
  <2> QED
    BY <2>1, <2>2
<1>10. Counted(m)'
  BY <1>2, <1>8, <1>9 DEF Counted
<1> QED
  BY <1>2, <1>7, <1>10 DEF Budget

\* The attempt is over when the cooldown map is written; its row was marked before.
LEMMA CooldownBudget ==
  ASSUME Typed, NEW m \in Nat \ {0}, Budget(m), NEW w \in Workers, NEW x \in Pairs,
         Forget(w, x) \/ Remember(w, x)
  PROVE  Budget(m)'
<1>1. UNCHANGED <<endpoint, delivery, posts, replays, restarts>>
  BY DEF Forget, Remember, history, bounds
<1>2. ASSUME NEW v \in Workers, NEW y \in Pairs
      PROVE  /\ Out(v, y)' <=> Out(v, y)
             /\ \/ flight'[v][y] = flight[v][y]
                \/ flight'[v][y].stage = "none"
  <2>1. flight' = [flight EXCEPT ![w][x] = NoFlight]
        /\ flight[w][x].stage \in {"settled", "failed"}
    BY DEF Forget, Remember
  <2>2. flight'[v][y] = IF v = w /\ y = x THEN NoFlight ELSE flight[v][y]
    BY <2>1 DEF Typed, TypeOK
  <2> QED
    BY <2>1, <2>2 DEF Out, NoFlight
<1>3. \A v \in Workers : /\ pass'[v].step = pass[v].step /\ pass'[v].todo = pass[v].todo
                         /\ pass'[v].rows = pass[v].rows
  BY CooldownPasses
<1>4. Granted(m)' = Granted(m) /\ EndpointsAsk(m)'
  BY <1>1 DEF Granted, Budget, EndpointsAsk
<1>5. PassesAsk(m)'
  <2> SUFFICES ASSUME NEW v \in Workers
               PROVE  /\ \A y \in pass[v].todo : pass[v].rows[y[2]].max = m
                      /\ \A y \in Pairs :
                           flight'[v][y].stage = "read" \/ Out(v, y)' =>
                             /\ flight'[v][y].attempt = delivery[y].attempt
                             /\ flight'[v][y].max = m
                             /\ flight'[v][y].stage = "read" => ~Settled(delivery[y])
                      /\ pass[v].step \in Replaying =>
                           \A y \in pass[v].todo \cap Watched : posts[y] <= Granted(m)
                      /\ pass[v].step \in {"reloading", "reloaded"} =>
                           \A y \in pass[v].todo : delivery[y] = FirstAttempt
    BY <1>1, <1>3, <1>4 DEF PassesAsk, Settled
  <2>1. ASSUME NEW y \in Pairs, flight'[v][y].stage = "read" \/ Out(v, y)'
        PROVE  /\ flight'[v][y].attempt = delivery[y].attempt
               /\ flight'[v][y].max = m
               /\ flight'[v][y].stage = "read" => ~Settled(delivery[y])
    <3>1. flight'[v][y] = flight[v][y]
      BY <1>2, <2>1 DEF Out
    <3> QED
      BY <2>1, <3>1 DEF Out, Budget, PassesAsk
  <2> QED
    BY <2>1 DEF Budget, PassesAsk
<1>6. \A y \in Pairs : Spent(m, y)' = Spent(m, y)
  BY <1>1, <1>2 DEF Spent, Settled
<1>7. Counted(m)'
  BY <1>1, <1>4, <1>6, WatchedPairs DEF Counted, Budget
<1> QED
  BY <1>4, <1>5, <1>7 DEF Budget

\* A restart leaves the POSTs that were out uncounted, one for each pair at most.
LEMMA RestartBudget ==
  ASSUME Alone, Typed, NEW m \in Nat \ {0}, Budget(m), Restart
  PROVE  Budget(m)'
<1>1. UNCHANGED <<endpoint, delivery, posts, replays>> /\ restarts' = restarts + 1
  BY DEF Restart
<1>2. \A w \in Workers : pass'[w] = NoPass /\ \A x \in Pairs : flight'[w][x].stage = "none"
  BY DEF Restart, NoFlight
<1>3. EndpointsAsk(m)' /\ PassesAsk(m)'
  BY <1>1, <1>2, NoPassIs DEF Budget, EndpointsAsk, PassesAsk, Out, Replaying
<1>4. Granted(m) \in Nat /\ Granted(m)' = Granted(m) + 1
  <2>1. Granted(m) \in Nat /\ m * replays \in Nat /\ restarts \in Nat
    BY GrantedType DEF Typed, TypeOK
  <2> QED
    BY <1>1, <2>1 DEF Granted
<1>5. ASSUME NEW x \in Watched PROVE posts'[x] <= Granted(m)' + Spent(m, x)'
  <2>0. x \in Pairs
    BY WatchedPairs
  <2>1. /\ delivery[x].attempt \in Nat /\ posts[x] \in Nat
        /\ delivery[x].made => delivery[x].attempt >= 1 /\ delivery[x].attempt <= m
        /\ posts[x] <= Granted(m) + Spent(m, x)
    BY <2>0 DEF Typed, TypeOK, DeliveryRows, Budget, Counted
  <2>2. Spent(m, x)' = IF ~delivery[x].made THEN 0
                       ELSE IF Settled(delivery[x]) THEN m ELSE delivery[x].attempt - 1
    BY <1>1, <1>2, <2>0 DEF Spent, Settled, Out
  <2>3. Spent(m, x) \in Nat /\ Spent(m, x)' \in Nat /\ Spent(m, x) <= Spent(m, x)' + 1
    BY <2>1, <2>2 DEF Spent
  <2> QED
    BY <1>1, <1>4, <2>1, <2>3
<1>6. Counted(m)'
  BY <1>1, <1>5 DEF Budget, Counted
<1> QED
  BY <1>3, <1>6 DEF Budget

LEMMA BudgetInit == ASSUME NEW m \in Nat \ {0} PROVE Init => Budget(m)
<1> SUFFICES ASSUME Init PROVE Budget(m)
  OBVIOUS
<1>1. EndpointsAsk(m)
  BY DEF Init, EndpointsAsk, NoEndpoint
<1>2. PassesAsk(m)
  BY NoPassIs DEF Init, PassesAsk, Replaying, Out, NoFlight
<1>3. Counted(m)
  BY WatchedPairs DEF Init, Counted, Granted, Spent, NoDelivery
<1> QED
  BY <1>1, <1>2, <1>3 DEF Budget

LEMMA BudgetStep ==
  ASSUME Alone, NEW m \in Nat \ {0}, MaxAttempts = {m}, Typed, Placed, Budget(m),
         [Next]_vars
  PROVE  Budget(m)'
<1>1. ASSUME NEW w \in Workers, Drain(w) \/ Replay(w) PROVE Budget(m)'
  BY <1>1, MoveBudget, ReadingBudget, PostingBudget DEF Drain, Replay
<1>2. ASSUME NEW w \in Workers, NEW x \in Pairs, BeginReplay(w, x) \/ Attempt(w, x)
      PROVE  Budget(m)'
  BY <1>2, BeginReplayBudget, AnswerBudget, MarkBudget, CooldownBudget DEF Attempt
<1> QED
  BY <1>1, <1>2, RestartBudget, OutsideBudget DEF Next

\* While one pass or replay runs at a time and no endpoint changes the number of
\* attempts it asks for, no more POSTs are made for a pair than that number, as
\* many again for each replay, and one more for each restart
\* (drainEndpoint writes the attempt it read plus one).
THEOREM BudgetHolds ==
  ASSUME Alone, NEW m \in Nat \ {0}, MaxAttempts = {m}
  PROVE  Spec => []WithinBudget
<1>1. Init => Budget(m)
  BY BudgetInit
<1>2. Typed /\ Placed /\ Budget(m) /\ [Next]_vars => Budget(m)'
  BY BudgetStep
<1>3. Typed /\ Budget(m) => WithinBudget
  <2> SUFFICES ASSUME Typed, Budget(m), NEW x \in Watched, endpoint[x[2]].live
               PROVE  posts[x] <= (replays + 1) * endpoint[x[2]].max + restarts
    BY DEF WithinBudget
  <2>1. endpoint[x[2]].max = m
    BY WatchedPairs DEF Budget, EndpointsAsk, Pairs
  <2>2. /\ posts[x] \in Nat /\ Granted(m) \in Nat /\ replays \in Nat /\ restarts \in Nat
        /\ Spent(m, x) \in Nat /\ Spent(m, x) <= m
        /\ posts[x] <= Granted(m) + Spent(m, x)
    BY GrantedType, SpentType, WatchedPairs DEF Typed, TypeOK, Budget, Counted
  <2>3. (replays + 1) * m + restarts = Granted(m) + m
    <3>1. m * replays \in Nat /\ (replays + 1) * m = m * replays + m
      BY <2>2
    <3> QED
      BY <2>2, <3>1 DEF Granted
  <2> QED
    BY <2>1, <2>2, <2>3
<1> QED
  BY <1>1, <1>2, <1>3, AlwaysPlaced, PTL DEF Spec
=============================================================================
