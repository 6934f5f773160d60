----------------------------- MODULE Idempotency -----------------------------
(***************************************************************************)
(* The durable Idempotency-Key store and the POST handlers it guards:      *)
(* claim the key, run the operation (a gateway charge, then a row), commit *)
(* the response.  Clients resend a request with the same key after a 409,  *)
(* an error or a lost connection, so several handlers work on one key.     *)
(*                                                                         *)
(* Time matters only against CLAIM_TTL_SECONDS, so it is kept as the age   *)
(* of each claim, counted up to TTL and no further.                        *)
(***************************************************************************)
EXTENDS Naturals, FiniteSets

CONSTANTS
  Keys,       \* namespaced Idempotency-Keys of one tenant
  Clients,    \* requests; each is resent until it is answered
  TTL,        \* age at which an in-progress claim may be taken over
  Backstop,   \* has the route's table a UNIQUE idempotency_key (payments)?
  NoKey,      \* the key of a client that has not sent anything
  NoResource, \* no response cached, no resource made
  MayRefuse,  \* may the operation fail before it has any effect?
  MaxDeaths   \* bound on the handlers that die at work

ASSUME IdempotencyAssumption ==
  /\ TTL \in Nat \ {0}
  /\ MaxDeaths \in Nat
  /\ Backstop \in BOOLEAN /\ MayRefuse \in BOOLEAN
  /\ NoKey \notin Keys /\ NoResource \notin Nat

VARIABLES
  claim,    \* the idempotency table: status, age and response of each key
  stored,   \* the resources a key's operations inserted
  charged,  \* how often the gateway was charged for a key
  answers,  \* the resources clients were answered (201) for a key
  since,    \* age of the first claim of each key (history)
  pc, key, held,  \* per client: step, key, resource its handler has made
  runs,     \* resources made so far: the next id
  deaths

vars == <<claim, stored, charged, answers, since, pc, key, held, runs, deaths>>

Statuses == {"none", "in_progress", "completed"}
Resources == Nat
Claims == [status: Statuses, age: 0..TTL, response: Resources \cup {NoResource}]

Steps == {"new", "claiming", "inspecting", "reclaiming", "replaying",
          "executing", "storing", "committing", "responding", "refused",
          "answered"}
AtWork == {"inspecting", "reclaiming", "replaying", "executing", "storing",
           "committing", "responding"}

Init ==
  /\ claim = [k \in Keys |-> [status |-> "none", age |-> 0,
                              response |-> NoResource]]
  /\ stored = [k \in Keys |-> {}]
  /\ charged = [k \in Keys |-> 0]
  /\ answers = [k \in Keys |-> {}]
  /\ since = [k \in Keys |-> 0]
  /\ pc = [c \in Clients |-> "new"]
  /\ key = [c \in Clients |-> NoKey]
  /\ held = [c \in Clients |-> NoResource]
  /\ runs = 0
  /\ deaths = 0

Goto(c, step) == pc' = [pc EXCEPT ![c] = step]

-----------------------------------------------------------------------------
(* The store.                                                              *)

\* Mutant: the UNIQUE index does not gate the claim.
Vacant_Always(k) == TRUE
Vacant(k) == claim[k].status = "none"

\* Mutant: a claim whose owner died is never given up.
Expired_Never(k) == FALSE
Expired(k) == claim[k].age = TTL

\* Mutant: any row counts as a finished one, also one still in progress.
Finished_AnyRow(k) == claim[k].status # "none"
Finished(k) == claim[k].status = "completed"

Claimed(k) ==
  claim' = [claim EXCEPT ![k] = [@ EXCEPT !.status = "in_progress", !.age = 0]]

\* INSERT: the index lets the first one in; a violation is inspected next.
Claim(c) ==
  LET k == key[c]
  IN  /\ pc[c] = "claiming"
      /\ IF Vacant(k) THEN Claimed(k) /\ Goto(c, "executing")
                      ELSE Goto(c, "inspecting") /\ UNCHANGED claim
      /\ UNCHANGED <<stored, charged, answers, since, key, held, runs, deaths>>

\* The row of a key that is taken: replay, conflict (409) or a stale claim.
Inspect(c) ==
  LET k == key[c]
  IN  /\ pc[c] = "inspecting"
      /\ \/ Finished(k) /\ Goto(c, "replaying")
         \/ claim[k].status = "in_progress" /\ ~Expired(k) /\ Goto(c, "refused")
         \/ claim[k].status = "in_progress" /\ Expired(k) /\ Goto(c, "reclaiming")
      /\ UNCHANGED <<claim, stored, charged, answers, since, key, held, runs,
                     deaths>>

\* The take-over is an unguarded UPDATE: whatever became of the row since.
Reclaim(c) ==
  /\ pc[c] = "reclaiming"
  /\ Claimed(key[c])
  /\ Goto(c, "executing")
  /\ UNCHANGED <<stored, charged, answers, since, key, held, runs, deaths>>

Answer(c, r) ==
  /\ answers' = [answers EXCEPT ![key[c]] = @ \cup {r}]
  /\ Goto(c, "answered")

\* The cached response is read again; if the row is no longer completed the
\* handler falls through to the operation.
Replay(c) ==
  LET k == key[c]
  IN  /\ pc[c] = "replaying"
      /\ \/ Finished(k) /\ Answer(c, claim[k].response)
         \/ ~Finished(k) /\ Goto(c, "executing") /\ UNCHANGED answers
      /\ UNCHANGED <<claim, stored, charged, since, key, held, runs, deaths>>

\* The response is cached, whoever owns the claim by now.
Commit(c) ==
  LET k == key[c]
  IN  /\ pc[c] = "committing"
      /\ claim' = [claim EXCEPT ![k] = [@ EXCEPT !.status = "completed",
                                                !.response = held[c]]]
      /\ Goto(c, "responding")
      /\ UNCHANGED <<stored, charged, answers, since, key, held, runs, deaths>>

\* The handler answers 201 with the resource it made or found.
Respond(c) ==
  /\ pc[c] = "responding"
  /\ Answer(c, held[c])
  /\ UNCHANGED <<claim, stored, charged, since, key, held, runs, deaths>>

-----------------------------------------------------------------------------
(* The operation of the route.                                             *)

\* The gateway is charged; the handler makes a fresh resource for it.
Execute(c) ==
  /\ pc[c] = "executing"
  /\ charged' = [charged EXCEPT ![key[c]] = @ + 1]
  /\ runs' = runs + 1
  /\ held' = [held EXCEPT ![c] = runs']
  /\ Goto(c, "storing")
  /\ UNCHANGED <<claim, stored, answers, since, key, deaths>>

\* It throws (a declined card, an invalid body): the claim stays in progress.
Refuse(c) ==
  /\ MayRefuse
  /\ pc[c] = "executing"
  /\ Goto(c, "refused")
  /\ UNCHANGED <<claim, stored, charged, answers, since, key, held, runs,
                 deaths>>

\* Mutant: the UNIQUE idempotency_key of the payment table is missing.
Duplicate_Never(k) == FALSE
Duplicate(k) == Backstop /\ stored[k] # {}

\* The row is inserted; on a duplicate key the existing row is used instead.
Store(c) ==
  LET k == key[c]
  IN  /\ pc[c] = "storing"
      /\ IF Duplicate(k)
         THEN /\ \E r \in stored[k] : held' = [held EXCEPT ![c] = r]
              /\ UNCHANGED stored
         ELSE /\ stored' = [stored EXCEPT ![k] = @ \cup {held[c]}]
              /\ UNCHANGED held
      /\ Goto(c, "committing")
      /\ UNCHANGED <<claim, charged, answers, since, key, runs, deaths>>

-----------------------------------------------------------------------------
(* Clients, time and crashes.                                              *)

Send(c, k) ==
  /\ pc[c] = "new"
  /\ key' = [key EXCEPT ![c] = k]
  /\ Goto(c, "claiming")
  /\ UNCHANGED <<claim, stored, charged, answers, since, held, runs, deaths>>

\* A refused or unanswered request is sent again with the same key.
Resend(c) ==
  /\ pc[c] = "refused"
  /\ Goto(c, "claiming")
  /\ held' = [held EXCEPT ![c] = NoResource]
  /\ UNCHANGED <<claim, stored, charged, answers, since, key, runs, deaths>>

Die(c) ==
  /\ pc[c] \in AtWork
  /\ deaths < MaxDeaths
  /\ deaths' = deaths + 1
  /\ Goto(c, "refused")
  /\ UNCHANGED <<claim, stored, charged, answers, since, key, held, runs>>

Older(n) == IF n < TTL THEN n + 1 ELSE TTL

\* Time passes for every claimed key.
Tick ==
  /\ \E k \in Keys : claim[k].status # "none" /\ (claim[k].age < TTL \/ since[k] < TTL)
  /\ claim' = [k \in Keys |-> IF claim[k].status = "none" THEN claim[k]
                              ELSE [claim[k] EXCEPT !.age = Older(@)]]
  /\ since' = [k \in Keys |-> IF claim[k].status = "none" THEN since[k]
                              ELSE Older(since[k])]
  /\ UNCHANGED <<stored, charged, answers, pc, key, held, runs, deaths>>

Handle(c) ==
  \/ Claim(c) \/ Inspect(c) \/ Reclaim(c) \/ Replay(c)
  \/ Commit(c) \/ Respond(c) \/ Execute(c) \/ Refuse(c) \/ Store(c)

Next ==
  \/ \E c \in Clients : (\E k \in Keys : Send(c, k)) \/ Resend(c) \/ Die(c)
                        \/ Handle(c)
  \/ Tick

Spec == Init /\ [][Next]_vars

\* The event loop runs every ready continuation, clients resend, time passes,
\* and an operation that is tried over and over is not refused every time.
LiveSpec ==
  /\ Spec
  /\ WF_vars(Tick)
  /\ \A c \in Clients :
       WF_vars(Handle(c)) /\ WF_vars(Resend(c)) /\ SF_vars(Execute(c))

-----------------------------------------------------------------------------
(* Properties.                                                             *)

\* Every variable has its type, and a request that was sent has a key: the
\* claim rows, the resources they answer with and the handlers' steps.
TypeOK ==
  /\ claim \in [Keys -> Claims]
  /\ stored \in [Keys -> SUBSET Resources]
  /\ charged \in [Keys -> Nat]
  /\ answers \in [Keys -> SUBSET Resources]
  /\ since \in [Keys -> 0..TTL]
  /\ pc \in [Clients -> Steps]
  /\ key \in [Clients -> Keys \cup {NoKey}]
  /\ \A c \in Clients : pc[c] # "new" => key[c] \in Keys
  /\ held \in [Clients -> Resources \cup {NoResource}]
  /\ runs \in Nat /\ deaths \in Nat

\* Until a claim could have expired for the first time, the operation of its
\* key runs once, however many retries arrive and handlers die: the UNIQUE
\* index and the in_progress row keep every other handler out.
OnceWithinTTL == \A k \in Keys : since[k] < TTL => charged[k] <= 1

\* What a client is told exists: every resource answered for a key is a row
\* (the response is cached and sent only after the insert).
AnswersAreStored == \A k \in Keys : answers[k] \subseteq stored[k]

\* Every answer for a key is the same resource, also when a slow owner and a
\* take-over, or two take-overs, both ran the operation.  On the payments
\* route the UNIQUE idempotency_key makes this true; other routes have none.
AnswersAgree ==
  \A k \in Keys : \A r, s \in answers[k] : r = s

\* A client that keeps resending is answered, although handlers died with
\* the claim in progress: the claim goes stale and is taken over.
EventuallyAnswered ==
  \A c \in Clients : (pc[c] = "claiming") ~> (pc[c] = "answered")

-----------------------------------------------------------------------------
(* What the repository's documents say and the code does not keep; the     *)
(* README tells how each comes about.                                      *)

\* The gateway is charged at most once for a key.
ChargedOnce == \A k \in Keys : charged[k] <= 1

\* "claimed" means ownership: two handlers never both run a key's operation
\* while the newest claim is still fresh.
OneOwner ==
  \A k \in Keys : claim[k].age = 0 =>
    Cardinality({c \in Clients : key[c] = k /\ pc[c] = "executing"}) <= 1
=============================================================================
