---------------------------- MODULE ConsumeStore ----------------------------
(***************************************************************************)
(* The consume-once registry of @vaduno/guard: `ConsumeStore.claim`,       *)
(* `settle` and `pruneMandates`, as the memory, file and Postgres stores   *)
(* implement them.  Each call is one atomic step for every process that    *)
(* shares the store.                                                       *)
(*                                                                         *)
(* `pruneMandates` is only safe for mandates "already dead by another      *)
(* check": `sealed` is the set of mandates no caller will claim again,     *)
(* because their expiry has been observed by every consumeOnce in flight.  *)
(***************************************************************************)
EXTENDS Integers, FiniteSets

CONSTANTS
  Mandate,   \* mandate ids
  UseKey,    \* idempotency keys: intent ids
  Digest,    \* intentDigest() values
  MaxUses    \* mandate -> constraints.maxUses

VARIABLES
  claims,    \* claims[m][k]: the stored UseClaim
  wins,      \* history: how often claim() answered "winner" for (m, k)
  sealed     \* mandates that are dead for good

consumeVars == <<claims, wins, sealed>>

ASSUME ConsumeAssumption ==
  /\ \A m \in Mandate : MaxUses[m] \in Nat
  /\ IsFiniteSet(UseKey)
  /\ Digest # {}

Outcome == {"executed", "failed"}

Claim == [status : {"none", "pending"} \cup Outcome, digest : Digest]

-----------------------------------------------------------------------------
Claimed(m, k) == claims[m][k].status # "none"

Used(m) == {k \in UseKey : Claimed(m, k)}

(* The use budget is checked inside claim(), in the same atomic step. *)
BudgetLeftOffByOne(m) == Cardinality(Used(m)) <= MaxUses[m]   \* mutant

BudgetLeft(m) == Cardinality(Used(m)) < MaxUses[m]

ConsumeInit ==
  /\ claims \in [Mandate -> [UseKey -> {c \in Claim : c.status = "none"}]]
  /\ \A m \in Mandate, k \in UseKey :
       claims[m][k].digest = CHOOSE d \in Digest : TRUE
  /\ wins = [m \in Mandate |-> [k \in UseKey |-> 0]]
  /\ sealed = {}

ClaimDuplicate(m, k) ==
  /\ Claimed(m, k)
  /\ UNCHANGED consumeVars

ClaimExhausted(m, k) ==
  /\ ~Claimed(m, k)
  /\ ~BudgetLeft(m)
  /\ UNCHANGED consumeVars

ClaimWon(m, k, d) ==
  /\ ~Claimed(m, k)
  /\ BudgetLeft(m)
  /\ claims' = [claims EXCEPT ![m][k] = [status |-> "pending", digest |-> d]]
  /\ wins' = [wins EXCEPT ![m][k] = @ + 1]
  /\ UNCHANGED sealed

(* settle(): first write wins; an absent claim is left absent. *)
SettleUseLastWins(m, k, o) ==   \* mutant
  /\ claims' = IF Claimed(m, k) THEN [claims EXCEPT ![m][k].status = o] ELSE claims
  /\ UNCHANGED <<wins, sealed>>

SettleUse(m, k, o) ==
  /\ claims' = IF claims[m][k].status = "pending"
                 THEN [claims EXCEPT ![m][k].status = o] ELSE claims
  /\ UNCHANGED <<wins, sealed>>

PruneMandates(dead) ==
  /\ claims' = [m \in Mandate |-> [k \in UseKey |->
                  IF m \in dead THEN [status |-> "none", digest |-> claims[m][k].digest]
                                ELSE claims[m][k]]]
  /\ UNCHANGED <<wins, sealed>>

(* The world: a mandate expires and the last consumeOnce that had seen it  *)
(* alive is over. *)
Seal(m) ==
  /\ sealed' = sealed \cup {m}
  /\ UNCHANGED <<claims, wins>>

PruneAllowed(dead) == dead \subseteq sealed

ConsumeNext ==
  \/ \E m \in Mandate \ sealed, k \in UseKey :
       \/ ClaimDuplicate(m, k)
       \/ ClaimExhausted(m, k)
       \/ \E d \in Digest : ClaimWon(m, k, d)
  \/ \E m \in Mandate, k \in UseKey, o \in Outcome : SettleUse(m, k, o)
  \/ \E dead \in SUBSET Mandate : PruneAllowed(dead) /\ PruneMandates(dead)
  \/ \E m \in Mandate : Seal(m)

ConsumeSpec == ConsumeInit /\ [][ConsumeNext]_consumeVars

-----------------------------------------------------------------------------
(* Correctness *)

(* Types; and a stored claim was won: settle() never creates one. *)
ConsumeTypeOK ==
  /\ claims \in [Mandate -> [UseKey -> Claim]]
  /\ wins \in [Mandate -> [UseKey -> Nat]]
  /\ sealed \subseteq Mandate
  /\ \A m \in Mandate, k \in UseKey : Claimed(m, k) => wins[m][k] > 0

(* A mandate is consumed at most maxUses times over its whole life, by     *)
(* however many processes, counting the uses pruneMandates() deleted. *)
UsesWithinBudget ==
  \A m \in Mandate : Cardinality({k \in UseKey : wins[m][k] > 0}) <= MaxUses[m]

(* One (mandate, intent id) wins at most once, however often it is         *)
(* retried: the winner is the only caller that may reach the rail. *)
UseWonOnce == \A m \in Mandate, k \in UseKey : wins[m][k] <= 1

(* What claim() lets through: each use once, and no use beyond the budget. *)
UsesHold == UsesWithinBudget /\ UseWonOnce

(* The first terminal outcome of a use stands: a late settle() never       *)
(* rewrites it, and no claim is re-opened or re-bound to another payment   *)
(* while its mandate can still be used. *)
FirstOutcomeWins ==
  [][\A m \in Mandate \ sealed, k \in UseKey :
       /\ claims[m][k].status \in Outcome => claims'[m][k] = claims[m][k]
       /\ Claimed(m, k) => claims'[m][k].digest = claims[m][k].digest]_consumeVars
=============================================================================
