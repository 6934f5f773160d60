--------------------------- MODULE IdempotencyProofs ---------------------------
(***************************************************************************)
(* The Idempotency-Key store, for every number of keys, clients, crashes   *)
(* and every TTL: what is answered was stored, the payments route answers  *)
(* a key with one resource, and until a claim can expire the operation of  *)
(* a key runs once.                                                        *)
(***************************************************************************)
EXTENDS Idempotency, TLAPS

\* A cached response, and a resource a handler is about to answer, is a row
\* of its key; a handler that has executed holds a resource.
ResponsesStored ==
  /\ \A k \in Keys :
       claim[k].status = "completed" => claim[k].response \in stored[k]
  /\ \A c \in Clients :
       pc[c] = "storing" => held[c] \in Resources
  /\ \A c \in Clients :
       pc[c] \in {"committing", "responding"} => held[c] \in stored[key[c]]

\* With the UNIQUE index a key has at most one row.
OneRow ==
  Backstop => \A k \in Keys : \A r, s \in stored[k] : r = s

StoreInv == TypeOK /\ ResponsesStored /\ AnswersAreStored /\ OneRow

\* Before a claim can expire its age is the time since the key was first
\* claimed, so nobody takes it over; whoever runs the operation is alone and
\* has not charged yet; a replay finds the finished row it saw.
Gate(k) ==
  /\ charged[k] <= 1
  /\ claim[k].status # "none" => claim[k].age = since[k]
  /\ \A c \in Clients : key[c] = k =>
       /\ pc[c] # "reclaiming"
       /\ pc[c] = "replaying" => claim[k].status = "completed"
       /\ pc[c] = "executing" => charged[k] = 0
       /\ \A d \in Clients :
            key[d] = k /\ pc[c] = "executing" /\ pc[d] = "executing" => c = d

\* A key nobody has claimed: no time has passed for it, nobody works on it.
Untouched(k) ==
  /\ since[k] = 0
  /\ charged[k] = 0
  /\ \A c \in Clients : key[c] = k => pc[c] \in {"claiming", "refused"}

GateInv ==
  /\ \A k \in Keys : since[k] < TTL => Gate(k)
  /\ \A k \in Keys : claim[k].status = "none" => Untouched(k)

-----------------------------------------------------------------------------

LEMMA StoreInit == Init => StoreInv
  BY IdempotencyAssumption, SMT
  DEF Init, StoreInv, TypeOK, ResponsesStored, AnswersAreStored, OneRow, Claims,
      Statuses, Steps, Resources

\* What the statements of the store make of a row is a row.
LEMMA RowsStayTyped ==
  ASSUME NEW row \in Claims, NEW r \in Resources
  PROVE  /\ [row EXCEPT !.status = "in_progress", !.age = 0] \in Claims
         /\ [row EXCEPT !.status = "completed", !.response = r] \in Claims
         /\ [row EXCEPT !.status = "in_progress", !.age = 0].status # "completed"
<1>1. 0 \in 0..TTL
  BY IdempotencyAssumption, SMT
<1>2. "in_progress" \in Statuses /\ "completed" \in Statuses
  BY DEF Statuses
<1>3. [row EXCEPT !.status = "in_progress", !.age = 0] \in Claims
  BY <1>1, <1>2, Zenon DEF Claims
<1>4. [row EXCEPT !.status = "completed", !.response = r] \in Claims
  BY <1>2, Zenon DEF Claims
<1>5. [row EXCEPT !.status = "in_progress", !.age = 0].status # "completed"
  BY SMT DEF Claims
<1> QED BY <1>3, <1>4, <1>5

\* Taking a claim renews its row and no other.
LEMMA ClaimedRow ==
  ASSUME TypeOK, NEW k \in Keys, Claimed(k)
  PROVE  /\ claim'[k].status = "in_progress" /\ claim'[k].age = 0
         /\ \A j \in Keys \ {k} : claim'[j] = claim[j]
  BY Zenon DEF TypeOK, Claims, Claimed

\* The steps that change neither a row nor a response.
LEMMA QuietStore ==
  ASSUME StoreInv, NEW c \in Clients,
         \/ \E k \in Keys : Send(c, k)
         \/ Inspect(c) \/ Refuse(c) \/ Resend(c) \/ Die(c)
  PROVE  StoreInv'
<1>1. TypeOK'
  <2>1. UNCHANGED <<claim, stored, charged, answers, since, runs>>
    BY DEF Send, Inspect, Refuse, Resend, Die
  <2>2. /\ pc' \in [Clients -> Steps]
        /\ key' \in [Clients -> Keys \cup {NoKey}]
        /\ \A d \in Clients : pc'[d] # "new" => key'[d] \in Keys
    <3>1. CASE \E k \in Keys : Send(c, k)
      BY <3>1, SMT DEF StoreInv, TypeOK, Steps, Goto, Send
    <3>2. CASE Inspect(c) \/ Refuse(c) \/ Resend(c) \/ Die(c)
      <4>1. \E step \in Steps : pc' = [pc EXCEPT ![c] = step]
        BY <3>2 DEF Steps, Goto, Inspect, Refuse, Resend, Die
      <4>2. UNCHANGED key /\ pc[c] # "new"
        BY <3>2 DEF Inspect, Refuse, Resend, Die, AtWork
      <4> QED BY <4>1, <4>2, SMT DEF StoreInv, TypeOK
    <3> QED BY <3>1, <3>2
  <2>3. held' \in [Clients -> Resources \cup {NoResource}] /\ deaths' \in Nat
    BY SMT DEF StoreInv, TypeOK, Resources, Send, Inspect, Refuse, Resend, Die
  <2> QED BY <2>1, <2>2, <2>3 DEF StoreInv, TypeOK
<1>2. ResponsesStored'
  BY SMT
  DEF StoreInv, TypeOK, ResponsesStored, Steps, Resources, Goto, Send, Inspect, Refuse,
      Resend, Die
<1>3. AnswersAreStored' /\ OneRow'
  BY DEF StoreInv, AnswersAreStored, OneRow, Send, Inspect, Refuse, Resend, Die
<1> QED BY <1>1, <1>2, <1>3 DEF StoreInv

\* Taking a claim, or taking one over, keeps the rows and the responses.
LEMMA ClaimStore ==
  ASSUME StoreInv, NEW c \in Clients, Claim(c) \/ Reclaim(c)
  PROVE  StoreInv'
<1>1. TypeOK'
  <2>1. UNCHANGED <<stored, charged, answers, since, key, held, runs, deaths>>
    BY DEF Claim, Reclaim
  <2>2. claim' \in [Keys -> Claims]
    <3>1. [claim[key[c]] EXCEPT !.status = "in_progress", !.age = 0] \in Claims
      BY RowsStayTyped, 0 \in Resources DEF StoreInv, TypeOK, Claim, Reclaim, Resources
    <3> QED BY <3>1, SMT DEF StoreInv, TypeOK, Claim, Reclaim, Claimed
  <2>3. /\ pc' \in [Clients -> Steps]
        /\ \A d \in Clients : pc'[d] # "new" => key[d] \in Keys
    BY SMT DEF StoreInv, TypeOK, Steps, Goto, Claim, Reclaim
  <2> QED BY <2>1, <2>2, <2>3 DEF StoreInv, TypeOK
<1>0. key[c] \in Keys /\ claim[key[c]] \in Claims
  BY DEF StoreInv, TypeOK, Claim, Reclaim
<1>2. ResponsesStored'
  <2>1. UNCHANGED claim \/ Claimed(key[c])
    BY DEF Claim, Reclaim
  <2>2. \A k \in Keys : claim'[k].status = "completed" => claim'[k] = claim[k]
    <3>1. CASE Claimed(key[c])
      <4>1. PICK row : /\ claim' = [claim EXCEPT ![key[c]] = row]
                       /\ row.status # "completed"
        BY <1>0, <3>1, RowsStayTyped, 0 \in Resources, Zenon DEF Claimed, Resources
      <4> QED BY <1>0, <4>1, SMT DEF StoreInv, TypeOK
    <3> QED BY <2>1, <3>1
  <2>3. \A d \in Clients :
          pc'[d] \in {"storing", "committing", "responding"} => pc'[d] = pc[d]
    BY SMT DEF StoreInv, TypeOK, Goto, Claim, Reclaim
  <2> QED BY <2>2, <2>3, SMT DEF StoreInv, ResponsesStored, Claim, Reclaim
<1>3. AnswersAreStored' /\ OneRow'
  BY DEF StoreInv, AnswersAreStored, OneRow, Claim, Reclaim
<1> QED BY <1>1, <1>2, <1>3 DEF StoreInv

\* A client is answered with a row of its key.
LEMMA AnswerStore ==
  ASSUME StoreInv, NEW c \in Clients, Replay(c) \/ Respond(c)
  PROVE  StoreInv'
<1>0. key[c] \in Keys
  BY DEF StoreInv, TypeOK, Replay, Respond
<1>1. TypeOK'
  <2>1. UNCHANGED <<claim, stored, charged, since, key, held, runs, deaths>>
    BY DEF Replay, Respond
  <2>2. answers' \in [Keys -> SUBSET Resources]
    <3>1. ASSUME NEW r \in stored[key[c]]
          PROVE  [answers EXCEPT ![key[c]] = @ \cup {r}] \in [Keys -> SUBSET Resources]
      BY <1>0, SMT DEF StoreInv, TypeOK
    <3>2. \/ UNCHANGED answers
          \/ \E r \in stored[key[c]] :
               answers' = [answers EXCEPT ![key[c]] = @ \cup {r}]
      BY <1>0 DEF StoreInv, ResponsesStored, Replay, Respond, Answer, Finished
    <3> QED BY <3>1, <3>2 DEF StoreInv, TypeOK
  <2>3. /\ pc' \in [Clients -> Steps]
        /\ \A d \in Clients : pc'[d] # "new" => key[d] \in Keys
    BY SMT DEF StoreInv, TypeOK, Steps, Goto, Replay, Respond, Answer
  <2> QED BY <2>1, <2>2, <2>3 DEF StoreInv, TypeOK
<1>2. ResponsesStored'
  BY <1>0, SMT
  DEF StoreInv, TypeOK, ResponsesStored, Steps, Resources, Goto, Replay, Respond,
      Answer
<1>3. AnswersAreStored'
  BY <1>0, SMT
  DEF StoreInv, TypeOK, ResponsesStored, AnswersAreStored, Goto, Replay, Respond,
      Answer, Finished
<1>4. OneRow'
  BY DEF StoreInv, OneRow, Replay, Respond
<1> QED BY <1>1, <1>2, <1>3, <1>4 DEF StoreInv

LEMMA CommitStore ==
  ASSUME StoreInv, NEW c \in Clients, Commit(c)
  PROVE  StoreInv'
<1>0. key[c] \in Keys /\ held[c] \in stored[key[c]] /\ held[c] \in Resources
  BY DEF StoreInv, TypeOK, ResponsesStored, Commit
<1>1. TypeOK'
  <2>1. UNCHANGED <<stored, charged, answers, since, key, held, runs, deaths>>
    BY DEF Commit
  <2>2. claim' \in [Keys -> Claims]
    <3>1. [claim[key[c]] EXCEPT !.status = "completed", !.response = held[c]]
            \in Claims
      BY <1>0, RowsStayTyped DEF StoreInv, TypeOK
    <3> QED BY <1>0, <3>1, SMT DEF StoreInv, TypeOK, Commit
  <2>3. /\ pc' \in [Clients -> Steps]
        /\ \A d \in Clients : pc'[d] # "new" => key[d] \in Keys
    BY SMT DEF StoreInv, TypeOK, Steps, Goto, Commit
  <2> QED BY <2>1, <2>2, <2>3 DEF StoreInv, TypeOK
<1>2. ResponsesStored'
  BY <1>0, SMT
  DEF StoreInv, TypeOK, ResponsesStored, Claims, Steps, Resources, Goto, Commit
<1>3. AnswersAreStored' /\ OneRow'
  BY DEF StoreInv, AnswersAreStored, OneRow, Commit
<1> QED BY <1>1, <1>2, <1>3 DEF StoreInv

LEMMA ExecuteStore ==
  ASSUME StoreInv, NEW c \in Clients, Execute(c)
  PROVE  StoreInv'
<1>1. TypeOK'
  BY IdempotencyAssumption, SMT
  DEF StoreInv, TypeOK, Claims, Statuses, Steps, Resources, Goto, Execute
<1>2. ResponsesStored'
  BY SMT
  DEF StoreInv, TypeOK, ResponsesStored, Steps, Resources, Goto, Execute
<1>3. AnswersAreStored' /\ OneRow'
  BY DEF StoreInv, AnswersAreStored, OneRow, Execute
<1> QED BY <1>1, <1>2, <1>3 DEF StoreInv

\* The insert adds a row, or finds the one row of the key.
LEMMA InsertStore ==
  ASSUME StoreInv, NEW c \in Clients, Store(c)
  PROVE  StoreInv'
<1>0. key[c] \in Keys /\ held[c] \in Resources
  BY DEF StoreInv, TypeOK, ResponsesStored, Store
<1>1. CASE Duplicate(key[c])
  <2>1. PICK r \in stored[key[c]] : held' = [held EXCEPT ![c] = r]
    BY <1>1 DEF Store
  <2>2. r \in Resources
    BY <1>0 DEF StoreInv, TypeOK
  <2>3. TypeOK'
    BY <1>0, <1>1, <2>1, <2>2, IdempotencyAssumption, SMT
    DEF StoreInv, TypeOK, Claims, Statuses, Steps, Resources, Goto, Store
  <2>4. ResponsesStored'
    BY <1>0, <1>1, <2>1, SMT
    DEF StoreInv, TypeOK, ResponsesStored, Steps, Resources, Goto, Store
  <2>5. AnswersAreStored' /\ OneRow'
    BY <1>1 DEF StoreInv, AnswersAreStored, OneRow, Store
  <2> QED BY <2>3, <2>4, <2>5 DEF StoreInv
<1>2. CASE ~Duplicate(key[c])
  <2>1. TypeOK'
    BY <1>0, <1>2, IdempotencyAssumption, SMT
    DEF StoreInv, TypeOK, Claims, Statuses, Steps, Resources, Goto, Store
  <2>2. /\ stored' = [stored EXCEPT ![key[c]] = @ \cup {held[c]}]
        /\ UNCHANGED <<claim, answers, key, held>>
        /\ pc' = [pc EXCEPT ![c] = "committing"]
    BY <1>2 DEF Store, Goto
  <2>3. \A k \in Keys : stored[k] \subseteq stored'[k]
    BY <1>0, <2>2, SMT DEF StoreInv, TypeOK
  <2>4. ResponsesStored'
    <3>1. \A k \in Keys :
            claim'[k].status = "completed" => claim'[k].response \in stored'[k]
      BY <2>2, <2>3 DEF StoreInv, ResponsesStored
    <3>2. \A d \in Clients : pc'[d] = "storing" => held'[d] \in Resources
      BY <2>2, SMT DEF StoreInv, TypeOK, ResponsesStored
    <3>3. \A d \in Clients :
            pc'[d] \in {"committing", "responding"} => held'[d] \in stored'[key'[d]]
      BY <1>0, <2>2, <2>3, SMT DEF StoreInv, TypeOK, ResponsesStored
    <3> QED BY <3>1, <3>2, <3>3 DEF ResponsesStored
  <2>5. AnswersAreStored'
    BY <2>2, <2>3 DEF StoreInv, AnswersAreStored
  <2>6. OneRow'
    BY <1>0, <1>2, <2>2, SMT DEF StoreInv, TypeOK, OneRow, Duplicate
  <2> QED BY <2>1, <2>4, <2>5, <2>6 DEF StoreInv
<1> QED BY <1>1, <1>2

LEMMA TickStore ==
  ASSUME StoreInv, Tick
  PROVE  StoreInv'
<1>1. /\ claim' \in [Keys -> Claims]
      /\ \A k \in Keys : /\ claim'[k].status = claim[k].status
                         /\ claim'[k].response = claim[k].response
  <2> SUFFICES ASSUME NEW k \in Keys
      PROVE  LET next == IF claim[k].status = "none" THEN claim[k]
                         ELSE [claim[k] EXCEPT !.age = Older(@)]
             IN  /\ next \in Claims
                 /\ next.status = claim[k].status
                 /\ next.response = claim[k].response
    BY DEF Tick
  <2> QED BY IdempotencyAssumption, SMT
          DEF StoreInv, TypeOK, Claims, Statuses, Older
<1>2. since' \in [Keys -> 0..TTL]
  BY IdempotencyAssumption, SMT DEF StoreInv, TypeOK, Tick, Older
<1>3. TypeOK'
  BY <1>1, <1>2 DEF StoreInv, TypeOK, Tick
<1>4. ResponsesStored'
  BY <1>1 DEF StoreInv, ResponsesStored, Tick
<1>5. AnswersAreStored' /\ OneRow'
  BY DEF StoreInv, AnswersAreStored, OneRow, Tick
<1> QED BY <1>3, <1>4, <1>5 DEF StoreInv

LEMMA NextStore == StoreInv /\ [Next]_vars => StoreInv'
<1> SUFFICES ASSUME StoreInv, [Next]_vars PROVE StoreInv'
  OBVIOUS
<1>1. CASE UNCHANGED vars
  BY <1>1
  DEF vars, StoreInv, TypeOK, ResponsesStored, AnswersAreStored, OneRow
<1>2. CASE Tick
  BY <1>2, TickStore
<1>3. ASSUME NEW c \in Clients,
             (\E k \in Keys : Send(c, k)) \/ Resend(c) \/ Die(c) \/ Handle(c)
      PROVE  StoreInv'
  BY <1>3, QuietStore, ClaimStore, AnswerStore, CommitStore, ExecuteStore,
     InsertStore
  DEF Handle
<1> QED BY <1>1, <1>2, <1>3 DEF Next

LEMMA StoreSound == Spec => []StoreInv
  BY StoreInit, NextStore, PTL DEF Spec

\* Every variable of the store and its handlers keeps its type; no client is
\* ever answered with an empty cached response.
THEOREM TypeCorrect == Spec => []TypeOK
<1>1. StoreInv => TypeOK
  BY DEF StoreInv
<1> QED BY StoreSound, <1>1, PTL

\* A resource is answered only after its row was inserted, whichever handler
\* made it and however claims were taken over.
THEOREM AnswersExist == Spec => []AnswersAreStored
<1>1. StoreInv => AnswersAreStored
  BY DEF StoreInv
<1> QED BY StoreSound, <1>1, PTL

\* On a route whose table has the UNIQUE idempotency_key, all clients of a key
\* are answered with the same resource, although take-overs run the operation
\* more than once.
THEOREM OneAnswerPerKey == Spec => [](Backstop => AnswersAgree)
<1>1. StoreInv => (Backstop => AnswersAgree)
  BY DEF StoreInv, OneRow, AnswersAreStored, AnswersAgree
<1> QED BY StoreSound, <1>1, PTL

-----------------------------------------------------------------------------
(* The gate.                                                               *)

LEMMA GateInit == Init => GateInv
<1> SUFFICES ASSUME Init PROVE GateInv
  OBVIOUS
<1>1. \A k \in Keys : Untouched(k) /\ Gate(k)
  BY IdempotencyAssumption, SMT DEF Init, Untouched, Gate
<1> QED BY <1>1 DEF GateInv

\* Steps that leave the store and the ledger alone and only move one client:
\* where it may go is what the gate needs to know.
LEMMA MoveGate ==
  ASSUME StoreInv, GateInv, NEW c \in Clients, NEW step \in Steps,
         pc' = [pc EXCEPT ![c] = step],
         UNCHANGED <<claim, charged, since>>,
         NEW k \in Keys, key' = [key EXCEPT ![c] = k],
         step # "executing",
         step = "reclaiming" => since[k] = TTL,
         step = "replaying" => claim[k].status = "completed",
         claim[k].status = "none" => step \in {"claiming", "refused"}
  PROVE  GateInv'
<1>1. ASSUME NEW j \in Keys, since'[j] < TTL
      PROVE  Gate(j)'
  BY <1>1, IdempotencyAssumption, SMT DEF StoreInv, TypeOK, GateInv, Gate
<1>2. ASSUME NEW j \in Keys, claim'[j].status = "none"
      PROVE  Untouched(j)'
  BY <1>2, SMT DEF StoreInv, TypeOK, GateInv, Untouched
<1> QED BY <1>1, <1>2 DEF GateInv

LEMMA SendGate ==
  ASSUME StoreInv, GateInv, NEW c \in Clients, NEW k \in Keys, Send(c, k)
  PROVE  GateInv'
  BY MoveGate DEF Send, Goto, Steps

\* A handler that sees a fresh claim goes away; an expired one is old.
LEMMA WalkGate ==
  ASSUME StoreInv, GateInv, NEW c \in Clients,
         \/ Inspect(c) \/ Refuse(c) \/ Store(c) \/ Resend(c) \/ Die(c)
         \/ Respond(c)
  PROVE  GateInv'
<1>1. key[c] \in Keys /\ key' = [key EXCEPT ![c] = key[c]]
  <2>1. pc[c] # "new" /\ UNCHANGED key
    BY DEF Inspect, Refuse, Store, Resend, Die, Respond, AtWork
  <2> QED BY <2>1, SMT DEF StoreInv, TypeOK
<1>2. PICK step \in Steps \ {"executing"} : pc' = [pc EXCEPT ![c] = step]
  BY DEF Inspect, Refuse, Store, Resend, Die, Respond, Answer, Goto, Steps
<1>3. UNCHANGED <<claim, charged, since>>
  BY DEF Inspect, Refuse, Store, Resend, Die, Respond
<1>4. pc'[c] = step
  BY <1>2, SMT DEF StoreInv, TypeOK
<1>5. step = "reclaiming" => since[key[c]] = TTL
  <2> SUFFICES ASSUME step = "reclaiming" PROVE since[key[c]] = TTL
    OBVIOUS
  <2>1. claim[key[c]].status = "in_progress" /\ claim[key[c]].age = TTL
    BY <1>4, SMT
    DEF StoreInv, TypeOK, Goto, Inspect, Refuse, Store, Resend, Die, Respond, Answer,
        Expired
  <2>2. since[key[c]] \in 0..TTL
    BY <1>1 DEF StoreInv, TypeOK
  <2> QED BY <1>1, <2>1, <2>2, IdempotencyAssumption, SMT DEF GateInv, Gate
<1>6. step = "replaying" => claim[key[c]].status = "completed"
  BY <1>4, SMT
  DEF StoreInv, TypeOK, Goto, Inspect, Refuse, Store, Resend, Die, Respond, Answer,
      Finished
<1>7. claim[key[c]].status = "none" => step \in {"claiming", "refused"}
  <2>1. claim[key[c]].status = "none" => pc[c] \in {"claiming", "refused"}
    BY <1>1 DEF GateInv, Untouched
  <2>2. pc[c] \in {"claiming", "refused"} => pc'[c] \in {"claiming", "refused"}
    BY SMT
    DEF StoreInv, TypeOK, Goto, Inspect, Refuse, Store, Resend, Die, Respond, Answer,
        AtWork
  <2> QED BY <1>4, <2>1, <2>2
<1> QED BY <1>1, <1>2, <1>3, <1>5, <1>6, <1>7, MoveGate

\* The claim is granted to one handler: nobody was at work on the key.
LEMMA ClaimGate ==
  ASSUME StoreInv, GateInv, NEW c \in Clients, Claim(c)
  PROVE  GateInv'
<1>1. key[c] \in Keys
  BY DEF StoreInv, TypeOK, Claim
<1>2. CASE Vacant(key[c])
  <2>1. /\ Untouched(key[c])
        /\ UNCHANGED <<charged, since, key>>
        /\ pc' = [pc EXCEPT ![c] = "executing"]
    BY <1>1, <1>2 DEF GateInv, Vacant, Claim, Goto
  <2>2. /\ claim'[key[c]].status = "in_progress" /\ claim'[key[c]].age = 0
        /\ \A j \in Keys \ {key[c]} : claim'[j] = claim[j]
    BY <1>1, <1>2, ClaimedRow DEF Claim, StoreInv
  <2>3. ASSUME NEW j \in Keys, since'[j] < TTL
        PROVE  Gate(j)'
    <3>1. CASE j = key[c]
      BY <1>1, <2>1, <2>2, <3>1, SMT DEF StoreInv, TypeOK, Untouched, Gate
    <3>2. CASE j # key[c]
      BY <2>1, <2>2, <2>3, <3>2, SMT DEF StoreInv, TypeOK, GateInv, Gate
    <3> QED BY <3>1, <3>2
  <2>4. ASSUME NEW j \in Keys, claim'[j].status = "none"
        PROVE  Untouched(j)'
    BY <2>1, <2>2, <2>4, SMT DEF StoreInv, TypeOK, GateInv, Untouched
  <2> QED BY <2>3, <2>4 DEF GateInv
<1>3. CASE ~Vacant(key[c])
  <2>1. key' = [key EXCEPT ![c] = key[c]]
    BY SMT DEF StoreInv, TypeOK, Claim
  <2> QED BY <1>1, <1>3, <2>1, MoveGate DEF Claim, Goto, Steps, Vacant
<1> QED BY <1>2, <1>3

\* A take-over happens only to a claim that was old.
LEMMA ReclaimGate ==
  ASSUME StoreInv, GateInv, NEW c \in Clients, Reclaim(c)
  PROVE  GateInv'
<1>1. key[c] \in Keys /\ since[key[c]] \in 0..TTL /\ pc[c] = "reclaiming"
  BY DEF StoreInv, TypeOK, Reclaim
<1>2. since[key[c]] = TTL
  BY <1>1, IdempotencyAssumption, SMT DEF GateInv, Gate
<1>3. /\ UNCHANGED <<charged, since, key>>
      /\ pc' = [pc EXCEPT ![c] = "executing"]
  BY DEF Reclaim, Goto
<1>4. /\ claim'[key[c]].status = "in_progress"
      /\ \A j \in Keys \ {key[c]} : claim'[j] = claim[j]
  BY <1>1, ClaimedRow DEF Reclaim, StoreInv
<1>5. ASSUME NEW j \in Keys, since'[j] < TTL
      PROVE  Gate(j)'
  <2>1. j # key[c]
    BY <1>2, <1>3, <1>5, IdempotencyAssumption, SMT
  <2> QED BY <1>3, <1>4, <1>5, <2>1, SMT DEF StoreInv, TypeOK, GateInv, Gate
<1>6. ASSUME NEW j \in Keys, claim'[j].status = "none"
      PROVE  Untouched(j)'
  BY <1>3, <1>4, <1>6, SMT DEF StoreInv, TypeOK, GateInv, Untouched
<1> QED BY <1>5, <1>6 DEF GateInv

\* A replay that no longer finds the finished row has lost it to a take-over.
LEMMA ReplayGate ==
  ASSUME StoreInv, GateInv, NEW c \in Clients, Replay(c)
  PROVE  GateInv'
<1>1. /\ key[c] \in Keys /\ since[key[c]] \in 0..TTL
      /\ key' = [key EXCEPT ![c] = key[c]]
      /\ claim[key[c]].status # "none"
  BY SMT DEF StoreInv, TypeOK, Replay, GateInv, Untouched
<1>2. CASE Finished(key[c])
  BY <1>1, <1>2, MoveGate DEF Replay, Answer, Goto, Steps, Finished
<1>3. CASE ~Finished(key[c])
  <2>1. since[key[c]] = TTL
    BY <1>1, <1>3, IdempotencyAssumption, SMT DEF Replay, GateInv, Gate, Finished
  <2>2. /\ UNCHANGED <<claim, charged, since, key>>
        /\ pc' = [pc EXCEPT ![c] = "executing"]
    BY <1>3 DEF Replay, Goto
  <2>3. ASSUME NEW j \in Keys, since'[j] < TTL
        PROVE  Gate(j)'
    <3>1. j # key[c]
      BY <2>1, <2>2, <2>3, IdempotencyAssumption, SMT
    <3> QED BY <2>2, <2>3, <3>1, SMT DEF StoreInv, TypeOK, GateInv, Gate
  <2>4. ASSUME NEW j \in Keys, claim'[j].status = "none"
        PROVE  Untouched(j)'
    BY <1>1, <2>2, <2>4, SMT DEF StoreInv, TypeOK, GateInv, Untouched
  <2> QED BY <2>3, <2>4 DEF GateInv
<1> QED BY <1>2, <1>3

\* The charge: the handler was alone and the key had not been charged.
LEMMA ExecuteGate ==
  ASSUME StoreInv, GateInv, NEW c \in Clients, Execute(c)
  PROVE  GateInv'
<1>1. /\ key[c] \in Keys /\ claim[key[c]].status # "none"
      /\ pc[c] = "executing"
  BY DEF StoreInv, TypeOK, Execute, GateInv, Untouched
<1>2. /\ UNCHANGED <<claim, since, key>>
      /\ charged' = [charged EXCEPT ![key[c]] = @ + 1]
      /\ pc' = [pc EXCEPT ![c] = "storing"]
  BY DEF Execute, Goto
<1>3. ASSUME NEW j \in Keys, since'[j] < TTL
      PROVE  Gate(j)'
  <2>1. CASE j = key[c]
    BY <1>1, <1>2, <1>3, <2>1, SMT DEF StoreInv, TypeOK, GateInv, Gate
  <2>2. CASE j # key[c]
    BY <1>2, <1>3, <2>2, SMT DEF StoreInv, TypeOK, GateInv, Gate
  <2> QED BY <2>1, <2>2
<1>4. ASSUME NEW j \in Keys, claim'[j].status = "none"
      PROVE  Untouched(j)'
  BY <1>1, <1>2, <1>4, SMT DEF StoreInv, TypeOK, GateInv, Untouched
<1> QED BY <1>3, <1>4 DEF GateInv

LEMMA CommitGate ==
  ASSUME StoreInv, GateInv, NEW c \in Clients, Commit(c)
  PROVE  GateInv'
<1>1. key[c] \in Keys /\ claim[key[c]].status # "none"
  BY DEF StoreInv, TypeOK, Commit, GateInv, Untouched
<1>2. /\ UNCHANGED <<charged, since, key>>
      /\ pc' = [pc EXCEPT ![c] = "responding"]
  BY DEF Commit, Goto
<1>3. /\ claim'[key[c]].status = "completed"
      /\ claim'[key[c]].age = claim[key[c]].age
      /\ \A j \in Keys \ {key[c]} : claim'[j] = claim[j]
  BY <1>1, Zenon DEF StoreInv, TypeOK, Claims, Commit
<1>4. ASSUME NEW j \in Keys, since'[j] < TTL
      PROVE  Gate(j)'
  <2>1. CASE j = key[c]
    BY <1>1, <1>2, <1>3, <1>4, <2>1, SMT DEF StoreInv, TypeOK, GateInv, Gate
  <2>2. CASE j # key[c]
    BY <1>2, <1>3, <1>4, <2>2, SMT DEF StoreInv, TypeOK, GateInv, Gate
  <2> QED BY <2>1, <2>2
<1>5. ASSUME NEW j \in Keys, claim'[j].status = "none"
      PROVE  Untouched(j)'
  BY <1>2, <1>3, <1>5, SMT DEF StoreInv, TypeOK, GateInv, Untouched
<1> QED BY <1>4, <1>5 DEF GateInv

\* Time ages a claim and its key together.
LEMMA TickGate ==
  ASSUME StoreInv, GateInv, Tick
  PROVE  GateInv'
<1>1. ASSUME NEW j \in Keys
      PROVE  /\ claim'[j].status = claim[j].status
             /\ claim[j].status # "none" => /\ claim'[j].age = Older(claim[j].age)
                                            /\ since'[j] = Older(since[j])
             /\ claim[j].status = "none" => since'[j] = since[j]
  BY SMT DEF StoreInv, TypeOK, Claims, Tick
<1>2. UNCHANGED <<charged, key, pc>>
  BY DEF Tick
<1>3. ASSUME NEW j \in Keys, since'[j] < TTL
      PROVE  Gate(j)'
  <2>1. since[j] < TTL
    BY <1>1, <1>3, IdempotencyAssumption, SMT DEF StoreInv, TypeOK, Older
  <2> QED BY <1>1, <1>2, <2>1, SMT DEF GateInv, Gate
<1>4. ASSUME NEW j \in Keys, claim'[j].status = "none"
      PROVE  Untouched(j)'
  BY <1>1, <1>2, <1>4 DEF GateInv, Untouched
<1> QED BY <1>3, <1>4 DEF GateInv

LEMMA NextGate == StoreInv /\ GateInv /\ [Next]_vars => GateInv'
<1> SUFFICES ASSUME StoreInv, GateInv, [Next]_vars PROVE GateInv'
  OBVIOUS
<1>1. CASE UNCHANGED vars
  BY <1>1 DEF vars, GateInv, Gate, Untouched
<1>2. CASE Tick
  BY <1>2, TickGate
<1>3. ASSUME NEW c \in Clients,
             (\E k \in Keys : Send(c, k)) \/ Resend(c) \/ Die(c) \/ Handle(c)
      PROVE  GateInv'
  BY <1>3, SendGate, WalkGate, ClaimGate, ReclaimGate, ReplayGate, ExecuteGate,
     CommitGate
  DEF Handle
<1> QED BY <1>1, <1>2, <1>3 DEF Next

\* Until a key's first claim could have expired its operation runs at most
\* once, for any number of retries and of handlers that die.
THEOREM ExecutedOnce == Spec => []OnceWithinTTL
<1>1. Init => StoreInv /\ GateInv
  BY StoreInit, GateInit
<1>2. StoreInv /\ GateInv /\ [Next]_vars => (StoreInv /\ GateInv)'
  BY NextStore, NextGate
<1>3. StoreInv /\ GateInv => OnceWithinTTL
  BY DEF GateInv, Gate, OnceWithinTTL
<1> QED BY <1>1, <1>2, <1>3, PTL DEF Spec
=============================================================================
