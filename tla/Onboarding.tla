----------------------------- MODULE Onboarding -----------------------------
(***************************************************************************)
(* A signed-up user's merchant scaffold and the one-time reveal of its     *)
(* test keys.  The sign-up hook and every read of the onboarding page      *)
(* first make sure of the scaffold (merchant, provisional keys, routing    *)
(* rule); a read that finds the keys unrevealed rotates in a fresh pair    *)
(* and shows it.  None of it is one transaction: requests interleave and   *)
(* may stop between any two of their database calls.  The model is of one  *)
(* user; the raw keys exist only in the answer of the request that made    *)
(* them, so a key is named by its request.                                 *)
(***************************************************************************)
EXTENDS Naturals, FiniteSets

CONSTANTS
  Requests,     \* sign-up hooks and onboarding reads of one user
  Hooks,        \* those that only provision: sign-up hooks, mock confirmations
  NoMerchant,
  MaxDeaths     \* bound on the requests that stop half-way

Roles == {"sk", "pk"}
Keys == [by : Requests, made : {"scaffold", "reveal"}, role : Roles]

ASSUME OnboardingAssumption ==
  Hooks \subseteq Requests /\ NoMerchant \notin Requests /\ MaxDeaths \in Nat

VARIABLES
  merchant,  \* the merchant row of the user, named by the request that made it
  revealed,  \* settings.sandbox_keys_revealed_at is set
  rules,     \* how many routing rules were inserted
  inserted,  \* the api_key rows
  active,    \* those of them that are active
  pc,        \* where a request is
  shown,     \* history: requests that answered with raw keys
  raced,     \* history: two reads were both making the pair to reveal
  deaths

vars == <<merchant, revealed, rules, inserted, active, pc, shown, raced, deaths>>

Init ==
  /\ merchant = NoMerchant /\ revealed = FALSE /\ rules = 0
  /\ inserted = {} /\ active = {}
  /\ pc = [r \in Requests |-> "start"]
  /\ shown = {} /\ raced = FALSE /\ deaths = 0

Goto(r, step) == pc' = [pc EXCEPT ![r] = step]

\* A hook is done with the scaffold; a read goes on to the keys.
AfterScaffold_Read(r) == "read"
AfterScaffold(r) == IF r \in Hooks THEN "done" ELSE "read"

\* The order of the database calls: merchant, provisional pair, rule; then, for a
\* read that reveals, the rotation, the pair to show, and the stamp.
After_MarkFirst(r, step) ==
  CASE step = "scaffold" -> "rule"
    [] step = "rotate" -> "mark"
    [] step = "mark" -> "reveal"
    [] step = "reveal" -> "list"

After_NoRule(r, step) ==
  CASE step = "scaffold" -> AfterScaffold(r)
    [] step = "rotate" -> "reveal"
    [] step = "reveal" -> "mark"
    [] step = "mark" -> "list"

After(r, step) ==
  CASE step = "scaffold" -> "rule"
    [] step = "rotate" -> "reveal"
    [] step = "reveal" -> "mark"
    [] step = "mark" -> "list"

-----------------------------------------------------------------------------
(* provisionScaffold.                                                      *)

\* A user who has a merchant has been provisioned.
Find(r) ==
  /\ pc[r] = "start"
  /\ Goto(r, IF merchant = NoMerchant THEN "create" ELSE AfterScaffold(r))
  /\ UNCHANGED <<merchant, revealed, rules, inserted, active, shown, raced, deaths>>

\* merchant_auth_user is UNIQUE: of two requests that found none, one inserts.
NoSuchUser_Unindexed(r) == TRUE
NoSuchUser(r) == merchant = NoMerchant

CreateMerchant(r) ==
  /\ pc[r] = "create" /\ NoSuchUser(r)
  /\ merchant' = r
  /\ Goto(r, "scaffold")
  /\ UNCHANGED <<revealed, rules, inserted, active, shown, raced, deaths>>

\* The other one's request fails (the hook's error is swallowed by the sign-up).
RefuseMerchant(r) ==
  /\ pc[r] = "create" /\ ~NoSuchUser(r)
  /\ Goto(r, "failed")
  /\ UNCHANGED <<merchant, revealed, rules, inserted, active, shown, raced, deaths>>

Pair(r, made) == {[by |-> r, made |-> made, role |-> role] : role \in Roles}

\* issueKeyPair: the two inserts are made at the same time and end in either order.
InsertKey(r, role) ==
  /\ pc[r] \in {"scaffold", "reveal"}
  /\ LET key == [by |-> r, made |-> pc[r], role |-> role] IN
       /\ key \notin inserted
       /\ inserted' = inserted \cup {key}
       /\ active' = active \cup {key}
  /\ UNCHANGED <<merchant, revealed, rules, pc, shown, raced, deaths>>

KeysIssued(r) ==
  /\ pc[r] \in {"scaffold", "reveal"}
  /\ Pair(r, pc[r]) \subseteq inserted
  /\ Goto(r, After(r, pc[r]))
  /\ UNCHANGED <<merchant, revealed, rules, inserted, active, shown, raced, deaths>>

CreateRule(r) ==
  /\ pc[r] = "rule"
  /\ rules' = rules + 1
  /\ Goto(r, AfterScaffold(r))
  /\ UNCHANGED <<merchant, revealed, inserted, active, shown, raced, deaths>>

-----------------------------------------------------------------------------
(* onboard.                                                                *)

Revealing == {"rotate", "reveal", "mark"}

\* findMerchantById: the stamp decides whether this read shows the keys.
NextOfRead(r) == IF revealed THEN "list" ELSE "rotate"

ReadMerchant(r) ==
  /\ pc[r] = "read"
  /\ Goto(r, NextOfRead(r))
  /\ raced' = (raced \/ (~revealed /\ \E o \in Requests : pc[o] \in Revealing))
  /\ UNCHANGED <<merchant, revealed, rules, inserted, active, shown, deaths>>

\* deactivateActiveTestKeys: every active test key of the merchant.
Rotate(r) ==
  /\ pc[r] = "rotate"
  /\ active' = {}
  /\ Goto(r, After(r, "rotate"))
  /\ UNCHANGED <<merchant, revealed, rules, inserted, shown, raced, deaths>>

MarkRevealed(r) ==
  /\ pc[r] = "mark"
  /\ revealed' = TRUE
  /\ Goto(r, After(r, "mark"))
  /\ UNCHANGED <<merchant, rules, inserted, active, shown, raced, deaths>>

\* listActiveTestKeys and the answer: raw keys if this request made the pair, else
\* masked prefixes.
Answer(r) ==
  /\ pc[r] = "list"
  /\ shown' = IF Pair(r, "reveal") \subseteq inserted THEN shown \cup {r} ELSE shown
  /\ Goto(r, "done")
  /\ UNCHANGED <<merchant, revealed, rules, inserted, active, raced, deaths>>

-----------------------------------------------------------------------------
\* A query fails or the process stops: what was written stays.
Die(r) ==
  /\ pc[r] \notin {"start", "done", "failed"}
  /\ deaths < MaxDeaths
  /\ deaths' = deaths + 1
  /\ Goto(r, "failed")
  /\ UNCHANGED <<merchant, revealed, rules, inserted, active, shown, raced>>

Step(r) ==
  \/ CreateMerchant(r) \/ RefuseMerchant(r)
  \/ \E role \in Roles : InsertKey(r, role)
  \/ KeysIssued(r) \/ CreateRule(r)
  \/ ReadMerchant(r) \/ Rotate(r) \/ MarkRevealed(r) \/ Answer(r)

Next == \E r \in Requests : Find(r) \/ Step(r) \/ Die(r)

Spec == Init /\ [][Next]_vars

\* Nobody has to sign up or to read the page; a request that began goes on, as the
\* event loop runs every ready continuation and queries answer.
LiveSpec == Spec /\ \A r \in Requests : WF_vars(Step(r))

-----------------------------------------------------------------------------
(* Properties.                                                             *)

\* Only rows that were inserted are active, and a sign-up hook reveals nothing.
TypeOK ==
  /\ merchant \in Requests \cup {NoMerchant}
  /\ revealed \in BOOLEAN /\ raced \in BOOLEAN
  /\ rules \in Nat /\ deaths \in 0 .. MaxDeaths
  /\ active \subseteq inserted /\ inserted \subseteq Keys
  /\ shown \subseteq Requests \ Hooks
  /\ pc \in [Requests -> {"start", "create", "scaffold", "rule", "read", "list",
                          "done", "failed"} \cup Revealing]

\* Whatever requests overlap and wherever they stop, a user has one merchant with
\* one provisional pair and one routing rule at most: every provisioning but one
\* fails at the UNIQUE index before it makes anything (provisionScaffold).
ScaffoldOnce ==
  /\ rules <= 1
  /\ \A k, l \in inserted : k.made = "scaffold" /\ l.made = "scaffold" => k.by = l.by

\* Raw keys are in one answer only and stay active, and once the stamp is set some
\* pair made to be shown is: no later request, and no stop half-way, takes from the
\* user what he was shown.  The exception is two reads that were making the pair at
\* the same time, as onboard checks the stamp first and sets it last
\* (deactivateActiveTestKeys, markSecretsRevealed).
RevealedKeysWork ==
  ~raced =>
    /\ \A r, o \in shown : r = o
    /\ \A r \in shown : Pair(r, "reveal") \subseteq active
    /\ revealed => \E r \in Requests : Pair(r, "reveal") \subseteq active

\* A merchant gets its routing rule in the end, unless a request stopped half-way
\* (provisionScaffold: nobody completes the scaffold of another request).
RuleFollows == merchant # NoMerchant ~> rules = 1 \/ deaths > 0

-----------------------------------------------------------------------------
(* What the comments of sandbox/service.ts say and the code does not do;   *)
(* the README gives the configurations that show it.                       *)

\* "the FIRST read rotates in a fresh hashed key pair and returns the raw values
\* exactly once": once the stamp is set, some read shows the keys.
RevealedIsShown ==
  revealed => shown # {} \/ \E r \in Requests : pc[r] = "list" /\ Pair(r, "reveal") \subseteq inserted

\* "Ensure a merchant + hashed test keys + default mock routing rule exist": a read
\* that is answered finds the rule there.
AnsweredHasRule == \A r \in Requests \ Hooks : pc[r] = "done" => rules = 1

\* "Idempotent: a second call for an already-provisioned user is a no-op": without
\* a death no request fails.
NeverRefused == deaths = 0 => \A r \in Requests : pc[r] # "failed"
=============================================================================
