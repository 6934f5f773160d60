-------------------------- MODULE OnboardingProofs --------------------------
(***************************************************************************)
(* Proofs about module Onboarding, for any number of requests of a user.   *)
(*                                                                         *)
(* ScaffoldOnce: whoever inserted the merchant row is the only request     *)
(* that goes on to the provisional keys and the rule (OneProvisioner), so  *)
(* there is one of each.                                                   *)
(*                                                                         *)
(* RevealedKeysWork: without a race at most one request is between the     *)
(* rotation and the stamp, and the stamp is not set then (OneRevealer); so *)
(* the keys it issued are still active when it sets the stamp, and nobody  *)
(* rotates after that (PairsAreSafe).                                      *)
(***************************************************************************)
EXTENDS Onboarding, TLAPS

Before == {"start", "create", "scaffold", "rule", "read", "rotate"}

\* Only the request whose merchant row was inserted provisions, and only while there
\* is no rule yet.
OneProvisioner ==
  /\ merchant = NoMerchant =>
       /\ rules = 0 /\ inserted = {}
       /\ \A r \in Requests : pc[r] \in {"start", "create", "failed"}
  /\ \A r \in Requests : pc[r] \in {"scaffold", "rule"} => merchant = r
  /\ \A k \in inserted : k.made = "scaffold" => k.by = merchant
  /\ rules <= 1
  /\ rules = 1 => \A r \in Requests : pc[r] \notin {"scaffold", "rule"}

\* Without a race, one request at a time makes the pair to show, and only before the
\* stamp is set.
OneRevealer ==
  ~raced =>
    /\ \A r, o \in Requests : pc[r] \in Revealing /\ pc[o] \in Revealing => r = o
    /\ \A r \in Requests : pc[r] \in Revealing => ~revealed

Key(r, role) == [by |-> r, made |-> "reveal", role |-> role]
Issued(r) == \A role \in Roles : Key(r, role) \in inserted
Works(r) == \A role \in Roles : Key(r, role) \in active

\* A request makes its pair after its rotation, and has all of it when it goes on.
PairsAreWhole ==
  \A r \in Requests :
    /\ pc[r] \in Before => \A role \in Roles : Key(r, role) \notin inserted
    /\ pc[r] = "mark" => Issued(r)
    /\ r \in shown => pc[r] = "done" /\ Issued(r)

\* Without a race, a pair is active from its insertion on, there is one that was
\* finished, and the stamp tells of it.
PairsAreSafe ==
  ~raced =>
    /\ \A r \in Requests, role \in Roles :
         pc[r] \in Revealing /\ Key(r, role) \in inserted => Key(r, role) \in active
    /\ \A r \in Requests : pc[r] \in {"list", "done"} /\ Issued(r) => revealed /\ Works(r)
    /\ \A r, o \in Requests :
         /\ pc[r] \in {"list", "done"} /\ Issued(r)
         /\ pc[o] \in {"list", "done"} /\ Issued(o)
         => r = o
    /\ revealed => \E r \in Requests : Works(r)

\* Only a read of the page comes to the keys to show.
HooksOnlyProvision ==
  \A r \in Hooks : pc[r] \notin {"read", "list"} \cup Revealing

IInv == TypeOK /\ HooksOnlyProvision /\ OneProvisioner /\ OneRevealer /\ PairsAreWhole /\ PairsAreSafe

-----------------------------------------------------------------------------
(* Keys and pairs.                                                         *)

\* Keys to show differ from provisional ones and from those of other requests.
LEMMA KeysDiffer ==
  ASSUME NEW r, NEW o, NEW role, NEW other, NEW made
  PROVE  /\ Key(r, role) = [by |-> o, made |-> made, role |-> other]
              => r = o /\ made = "reveal" /\ role = other
         /\ Key(r, role).by = r /\ Key(r, role).made = "reveal" /\ Key(r, role).role = role
BY SMT DEF Key

\* The pair of a request, seen key by key.
LEMMA PairByKey ==
  ASSUME NEW r, NEW S
  PROVE  Pair(r, "reveal") \subseteq S <=> \A role \in Roles : Key(r, role) \in S
BY DEF Pair, Key

\* A request that issued a pair did it with both of its keys.
LEMMA IssuedIsPair ==
  ASSUME NEW r
  PROVE  /\ Pair(r, "reveal") \subseteq inserted <=> Issued(r)
         /\ Pair(r, "reveal") \subseteq active <=> Works(r)
BY PairByKey DEF Issued, Works

-----------------------------------------------------------------------------
(* The invariant.                                                          *)

\* There is nothing at the start.
LEMMA InitInv == Init => IInv
<1> SUFFICES ASSUME Init PROVE IInv
  OBVIOUS
<1> USE OnboardingAssumption DEF Init
<1>1. TypeOK
  <2>1. pc \in [Requests -> {"start"}] /\ deaths \in 0 .. MaxDeaths
    OBVIOUS
  <2> QED
    BY <2>1 DEF TypeOK
<1>2. HooksOnlyProvision
  BY DEF HooksOnlyProvision, Revealing
<1>3. OneProvisioner
  BY DEF OneProvisioner
<1>4. OneRevealer
  BY DEF OneRevealer, Revealing
<1>5. PairsAreWhole
  BY DEF PairsAreWhole, Before
<1>6. PairsAreSafe
  BY DEF PairsAreSafe, Revealing
<1> QED
  BY <1>1, <1>2, <1>3, <1>4, <1>5, <1>6 DEF IInv

\* A request that looks the merchant up writes nothing: it has no pair yet.
LEMMA FindInv ==
  ASSUME IInv, NEW r \in Requests, Find(r)
  PROVE  IInv'
<1> USE OnboardingAssumption DEF IInv, Find, Goto, AfterScaffold
<1>1. TypeOK'
  BY DEF TypeOK, HooksOnlyProvision, Revealing, Keys, Roles
<1>2. HooksOnlyProvision'
  BY DEF TypeOK, HooksOnlyProvision, Revealing
<1>3. OneProvisioner'
  BY DEF TypeOK, OneProvisioner, Revealing
<1>4. OneRevealer'
  BY DEF TypeOK, OneRevealer, Revealing
<1>5. PairsAreWhole'
  BY DEF TypeOK, PairsAreWhole, Issued, Before
<1>6. PairsAreSafe'
  <2>1. ~Issued(r) /\ \A o \in Requests : (Issued(o)' <=> Issued(o)) /\ (Works(o)' <=> Works(o))
    BY DEF PairsAreWhole, Issued, Works, Before, Roles, Key
  <2>2. \A o \in Requests : o # r => pc'[o] = pc[o]
    BY DEF TypeOK
  <2>3. pc'[r] \in Revealing => pc'[r] = "rotate" /\ ~Issued(r)'
    BY <2>1 DEF TypeOK, Revealing
  <2> QED
    BY <2>1, <2>2, <2>3 DEF TypeOK, PairsAreWhole, PairsAreSafe, OneRevealer, Issued, Works,
         Revealing, Before, Key, Roles
<1> QED
  BY <1>1, <1>2, <1>3, <1>4, <1>5, <1>6

\* The first merchant row: the request that inserts it becomes the provisioner.
LEMMA CreateMerchantInv ==
  ASSUME IInv, NEW r \in Requests, CreateMerchant(r)
  PROVE  IInv'
<1> USE OnboardingAssumption DEF IInv, CreateMerchant, Goto, NoSuchUser
<1>1. TypeOK'
  BY DEF TypeOK, HooksOnlyProvision, Revealing, Keys, Roles
<1>2. HooksOnlyProvision'
  BY DEF TypeOK, HooksOnlyProvision, Revealing
<1>3. OneProvisioner'
  BY DEF TypeOK, OneProvisioner, Revealing
<1>4. OneRevealer'
  BY DEF TypeOK, OneRevealer, Revealing
<1>5. PairsAreWhole'
  BY DEF TypeOK, PairsAreWhole, Issued, Before
<1>6. PairsAreSafe'
  BY DEF TypeOK, PairsAreWhole, PairsAreSafe, OneRevealer, Issued, Works, Revealing, Before
<1> QED
  BY <1>1, <1>2, <1>3, <1>4, <1>5, <1>6

\* A request that is refused by the UNIQUE index is out of the way.
LEMMA RefuseMerchantInv ==
  ASSUME IInv, NEW r \in Requests, RefuseMerchant(r)
  PROVE  IInv'
<1> USE OnboardingAssumption DEF IInv, RefuseMerchant, Goto
<1>1. TypeOK'
  BY DEF TypeOK, HooksOnlyProvision, Revealing, Keys, Roles
<1>2. HooksOnlyProvision'
  BY DEF TypeOK, HooksOnlyProvision, Revealing
<1>3. OneProvisioner'
  BY DEF TypeOK, OneProvisioner, Revealing
<1>4. OneRevealer'
  BY DEF TypeOK, OneRevealer, Revealing
<1>5. PairsAreWhole'
  BY DEF TypeOK, PairsAreWhole, Issued, Before
<1>6. PairsAreSafe'
  BY DEF TypeOK, PairsAreWhole, PairsAreSafe, OneRevealer, Issued, Works, Revealing, Before
<1> QED
  BY <1>1, <1>2, <1>3, <1>4, <1>5, <1>6

\* A key is inserted active, by the provisioner or by the one request that reveals.
LEMMA InsertKeyInv ==
  ASSUME IInv, NEW r \in Requests, NEW role \in Roles, InsertKey(r, role)
  PROVE  IInv'
<1> USE OnboardingAssumption DEF IInv, InsertKey, Goto
<1>1. TypeOK'
  BY DEF TypeOK, HooksOnlyProvision, Revealing, Keys, Roles
<1>2. HooksOnlyProvision'
  BY DEF TypeOK, HooksOnlyProvision, Revealing
<1>3. OneProvisioner'
  BY DEF TypeOK, OneProvisioner, Revealing
<1>4. OneRevealer'
  BY DEF TypeOK, OneRevealer, Revealing
<1>5. PairsAreWhole'
  BY KeysDiffer, IssuedIsPair DEF TypeOK, PairsAreWhole, Issued, Before
<1>6. PairsAreSafe'
  BY KeysDiffer, IssuedIsPair DEF TypeOK, PairsAreWhole, PairsAreSafe, OneRevealer, Issued,
       Works, Revealing, Before
<1> QED
  BY <1>1, <1>2, <1>3, <1>4, <1>5, <1>6

\* A request goes on when it has both of its keys.
LEMMA KeysIssuedInv ==
  ASSUME IInv, NEW r \in Requests, KeysIssued(r)
  PROVE  IInv'
<1> USE OnboardingAssumption DEF IInv, KeysIssued, Goto, After
<1>1. TypeOK'
  BY DEF TypeOK, HooksOnlyProvision, Revealing, Keys, Roles
<1>2. HooksOnlyProvision'
  BY DEF TypeOK, HooksOnlyProvision, Revealing
<1>3. OneProvisioner'
  BY DEF TypeOK, OneProvisioner, Revealing
<1>4. OneRevealer'
  BY DEF TypeOK, OneRevealer, Revealing
<1>5. PairsAreWhole'
  BY IssuedIsPair DEF TypeOK, PairsAreWhole, Issued, Before
<1>6. PairsAreSafe'
  BY IssuedIsPair DEF TypeOK, PairsAreWhole, PairsAreSafe, OneRevealer, Issued, Works,
       Revealing, Before
<1> QED
  BY <1>1, <1>2, <1>3, <1>4, <1>5, <1>6

\* The provisioner inserts the only rule.
LEMMA CreateRuleInv ==
  ASSUME IInv, NEW r \in Requests, CreateRule(r)
  PROVE  IInv'
<1> USE OnboardingAssumption DEF IInv, CreateRule, Goto, AfterScaffold
<1>1. TypeOK'
  BY DEF TypeOK, HooksOnlyProvision, Revealing, Keys, Roles
<1>2. HooksOnlyProvision'
  BY DEF TypeOK, HooksOnlyProvision, Revealing
<1>3. OneProvisioner'
  BY DEF TypeOK, OneProvisioner, Revealing
<1>4. OneRevealer'
  BY DEF TypeOK, OneRevealer, Revealing
<1>5. PairsAreWhole'
  BY DEF TypeOK, PairsAreWhole, Issued, Before
<1>6. PairsAreSafe'
  <2>1. ~Issued(r) /\ \A o \in Requests : (Issued(o)' <=> Issued(o)) /\ (Works(o)' <=> Works(o))
    BY DEF PairsAreWhole, Issued, Works, Before, Roles, Key
  <2>2. \A o \in Requests : o # r => pc'[o] = pc[o]
    BY DEF TypeOK
  <2>3. pc'[r] \in Revealing => pc'[r] = "rotate" /\ ~Issued(r)'
    BY <2>1 DEF TypeOK, Revealing
  <2> QED
    BY <2>1, <2>2, <2>3 DEF TypeOK, PairsAreWhole, PairsAreSafe, OneRevealer, Issued, Works,
         Revealing, Before, Key, Roles
<1> QED
  BY <1>1, <1>2, <1>3, <1>4, <1>5, <1>6

\* A second request that sees no stamp while one is revealing is a race.
LEMMA ReadMerchantInv ==
  ASSUME IInv, NEW r \in Requests, ReadMerchant(r)
  PROVE  IInv'
<1> USE OnboardingAssumption DEF IInv, ReadMerchant, Goto, NextOfRead
<1>1. TypeOK'
  BY DEF TypeOK, HooksOnlyProvision, Revealing, Keys, Roles
<1>2. HooksOnlyProvision'
  BY DEF TypeOK, HooksOnlyProvision, Revealing
<1>3. OneProvisioner'
  BY DEF TypeOK, OneProvisioner, Revealing
<1>4. OneRevealer'
  BY DEF TypeOK, OneRevealer, Revealing
<1>5. PairsAreWhole'
  BY DEF TypeOK, PairsAreWhole, Issued, Before
<1>6. PairsAreSafe'
  <2>1. ~Issued(r) /\ \A o \in Requests : (Issued(o)' <=> Issued(o)) /\ (Works(o)' <=> Works(o))
    BY DEF PairsAreWhole, Issued, Works, Before, Roles, Key
  <2>2. \A o \in Requests : o # r => pc'[o] = pc[o]
    BY DEF TypeOK
  <2>3. pc'[r] \in Revealing => pc'[r] = "rotate" /\ ~Issued(r)'
    BY <2>1 DEF TypeOK, Revealing
  <2> QED
    BY <2>1, <2>2, <2>3 DEF TypeOK, PairsAreWhole, PairsAreSafe, OneRevealer, Issued, Works,
         Revealing, Before, Key, Roles
<1> QED
  BY <1>1, <1>2, <1>3, <1>4, <1>5, <1>6

\* Without a race only the revealing request rotates, and it has issued nothing yet.
LEMMA RotateInv ==
  ASSUME IInv, NEW r \in Requests, Rotate(r)
  PROVE  IInv'
<1> USE OnboardingAssumption DEF IInv, Rotate, Goto, After
<1>1. TypeOK'
  BY DEF TypeOK, HooksOnlyProvision, Revealing, Keys, Roles
<1>2. HooksOnlyProvision'
  BY DEF TypeOK, HooksOnlyProvision, Revealing
<1>3. OneProvisioner'
  BY DEF TypeOK, OneProvisioner, Revealing
<1>4. OneRevealer'
  BY DEF TypeOK, OneRevealer, Revealing
<1>5. PairsAreWhole'
  BY DEF TypeOK, PairsAreWhole, Issued, Before
<1>6. PairsAreSafe'
  BY DEF TypeOK, PairsAreWhole, PairsAreSafe, OneRevealer, Issued, Works, Revealing, Before
<1> QED
  BY <1>1, <1>2, <1>3, <1>4, <1>5, <1>6

\* The stamp follows a whole pair that is still active.
LEMMA MarkRevealedInv ==
  ASSUME IInv, NEW r \in Requests, MarkRevealed(r)
  PROVE  IInv'
<1> USE OnboardingAssumption DEF IInv, MarkRevealed, Goto, After
<1>1. TypeOK'
  BY DEF TypeOK, HooksOnlyProvision, Revealing, Keys, Roles
<1>2. HooksOnlyProvision'
  BY DEF TypeOK, HooksOnlyProvision, Revealing
<1>3. OneProvisioner'
  BY DEF TypeOK, OneProvisioner, Revealing
<1>4. OneRevealer'
  BY DEF TypeOK, OneRevealer, Revealing
<1>5. PairsAreWhole'
  BY DEF TypeOK, PairsAreWhole, Issued, Before
<1>6. PairsAreSafe'
  BY DEF TypeOK, PairsAreWhole, PairsAreSafe, OneRevealer, Issued, Works, Revealing, Before
<1> QED
  BY <1>1, <1>2, <1>3, <1>4, <1>5, <1>6

\* The answer shows the keys of its own request.
LEMMA AnswerInv ==
  ASSUME IInv, NEW r \in Requests, Answer(r)
  PROVE  IInv'
<1> USE OnboardingAssumption DEF IInv, Answer, Goto
<1>1. TypeOK'
  BY DEF TypeOK, HooksOnlyProvision, Revealing, Keys, Roles
<1>2. HooksOnlyProvision'
  BY DEF TypeOK, HooksOnlyProvision, Revealing
<1>3. OneProvisioner'
  BY DEF TypeOK, OneProvisioner, Revealing
<1>4. OneRevealer'
  BY DEF TypeOK, OneRevealer, Revealing
<1>5. PairsAreWhole'
  BY IssuedIsPair DEF TypeOK, PairsAreWhole, Issued, Before
<1>6. PairsAreSafe'
  BY IssuedIsPair DEF TypeOK, PairsAreWhole, PairsAreSafe, OneRevealer, Issued, Works,
       Revealing, Before
<1> QED
  BY <1>1, <1>2, <1>3, <1>4, <1>5, <1>6

\* A request that stops keeps what it wrote and goes nowhere.
LEMMA DieInv ==
  ASSUME IInv, NEW r \in Requests, Die(r)
  PROVE  IInv'
<1> USE OnboardingAssumption DEF IInv, Die, Goto
<1>1. TypeOK'
  BY DEF TypeOK, HooksOnlyProvision, Revealing, Keys, Roles
<1>2. HooksOnlyProvision'
  BY DEF TypeOK, HooksOnlyProvision, Revealing
<1>3. OneProvisioner'
  BY DEF TypeOK, OneProvisioner, Revealing
<1>4. OneRevealer'
  BY DEF TypeOK, OneRevealer, Revealing
<1>5. PairsAreWhole'
  BY DEF TypeOK, PairsAreWhole, Issued, Before
<1>6. PairsAreSafe'
  BY DEF TypeOK, PairsAreWhole, PairsAreSafe, OneRevealer, Issued, Works, Revealing, Before
<1> QED
  BY <1>1, <1>2, <1>3, <1>4, <1>5, <1>6

\* Every step keeps the invariant, and so does a step that changes nothing.
LEMMA NextInv == IInv /\ [Next]_vars => IInv'
<1> SUFFICES ASSUME IInv, [Next]_vars PROVE IInv'
  OBVIOUS
<1>1. CASE UNCHANGED vars
  BY <1>1 DEF vars, IInv, TypeOK, HooksOnlyProvision, OneProvisioner, OneRevealer, PairsAreWhole,
              PairsAreSafe, Issued, Works, Key
<1>2. CASE Next
  <2> SUFFICES ASSUME NEW r \in Requests, Find(r) \/ Step(r) \/ Die(r) PROVE IInv'
    BY <1>2 DEF Next
  <2> QED
    BY FindInv, CreateMerchantInv, RefuseMerchantInv, InsertKeyInv, KeysIssuedInv, CreateRuleInv,
       ReadMerchantInv, RotateInv, MarkRevealedInv, AnswerInv, DieInv DEF Step
<1> QED
  BY <1>1, <1>2

\* The invariant holds in every reachable state, for any set of requests of a user and
\* any number of deaths (provisionScaffold, onboard).
THEOREM Soundness == Spec => []IInv
BY InitInv, NextInv, PTL DEF Spec

-----------------------------------------------------------------------------
(* What follows.                                                           *)

\* Types are kept, and a request that only provisions never reveals keys.
THEOREM TypeCorrect == Spec => []TypeOK
<1>1. IInv => TypeOK
  BY DEF IInv
<1> QED
  BY <1>1, Soundness, PTL

\* A user has one merchant with one provisional pair and at most one routing rule,
\* for any number of overlapping sign-up hooks and reads that may stop anywhere.
THEOREM OneScaffold == Spec => []ScaffoldOnce
<1>1. IInv => ScaffoldOnce
  BY DEF IInv, OneProvisioner, ScaffoldOnce
<1> QED
  BY <1>1, Soundness, PTL

\* Without two reads that make the pair at the same time, raw keys are in one answer
\* only and stay active, and some such pair is active once the stamp is set.
THEOREM ShownKeysStay == Spec => []RevealedKeysWork
<1>1. IInv => RevealedKeysWork
  <2> SUFFICES ASSUME IInv, ~raced PROVE RevealedKeysWork!2
    BY DEF RevealedKeysWork
  <2>1. \A r \in shown : r \in Requests /\ pc[r] = "done" /\ Issued(r)
    BY DEF IInv, TypeOK, PairsAreWhole
  <2> QED
    BY <2>1, IssuedIsPair DEF IInv, PairsAreSafe
<1> QED
  BY <1>1, Soundness, PTL
=============================================================================
