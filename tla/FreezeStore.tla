----------------------------- MODULE FreezeStore -----------------------------
(***************************************************************************)
(* The shared freeze row, the cross-process half of the kill switch.       *)
(* freeze() bumps the epoch; unfreeze(expectedEpoch) is a compare-and-set. *)
(* A memory store does it in one synchronous body, a file store under its  *)
(* mutex, Postgres in one UPDATE and, for epoch 0, an INSERT of its own:   *)
(* there the row may not exist yet.  Operators read, think, and lift.      *)
(***************************************************************************)
EXTENDS Integers

CONSTANTS
  Operator,
  MaxEpoch     \* bound: epochs the row goes through

VARIABLES
  freezeRow,   \* the row, none before the first write
  seen,        \* what each operator read last
  lifting,     \* operators between the UPDATE and the INSERT of unfreeze(0)
  lifter       \* history: whose unfreeze() applied last

freezeRowVars == <<freezeRow, seen, lifting, lifter>>

ASSUME FreezeStoreAssumption == MaxEpoch \in Nat

Unfrozen == [epoch |-> 0, frozen |-> FALSE]

(* load(): a row that was never written reads as unfrozen, epoch 0. *)
Loaded == IF freezeRow = {} THEN Unfrozen ELSE CHOOSE s \in freezeRow : TRUE

FreezeStoreInit ==
  /\ freezeRow = {}
  /\ seen = [o \in Operator |-> {}]
  /\ lifting = {} /\ lifter = {}

(* read(); it throws when the backend cannot answer, and nothing is seen. *)
ReadRow(o) ==
  /\ o \notin lifting
  /\ seen' = [seen EXCEPT ![o] = {Loaded}]
  /\ UNCHANGED <<freezeRow, lifting, lifter>>

(* freeze() returns the state after it: the fence of a later unfreeze. *)
FreezeRow(o) ==
  /\ o \notin lifting
  /\ Loaded.epoch < MaxEpoch
  /\ freezeRow' = {[epoch |-> Loaded.epoch + 1, frozen |-> TRUE]}
  /\ seen' = [seen EXCEPT ![o] = freezeRow']
  /\ UNCHANGED <<lifting, lifter>>

\* Mutant: the lift is not fenced by the epoch that was looked at.
LiftUnfenced(o, s) == Loaded.epoch < MaxEpoch

(* The fence: the epoch is still the one the operator looked at. *)
Lift(o, s) == s.epoch = Loaded.epoch /\ Loaded.epoch < MaxEpoch

(* The memory and file stores, and the UPDATE of Postgres. *)
UnfreezeRow(o) ==
  /\ o \notin lifting
  /\ \E s \in seen[o] : Lift(o, s)
  /\ freezeRow' = {[epoch |-> Loaded.epoch + 1, frozen |-> FALSE]}
  /\ lifter' = {o}
  /\ UNCHANGED <<seen, lifting>>

(* Postgres, epoch 0: the UPDATE found no row, the INSERT follows. *)
UpdateNothing(o) ==
  /\ o \notin lifting
  /\ Unfrozen \in seen[o] /\ freezeRow = {}
  /\ lifting' = lifting \cup {o}
  /\ UNCHANGED <<freezeRow, seen, lifter>>

(* ON CONFLICT DO NOTHING: whoever wrote the row meanwhile stands. *)
InsertUnfrozen(o) ==
  /\ o \in lifting
  /\ lifting' = lifting \ {o}
  /\ IF freezeRow = {} /\ MaxEpoch > 0
       THEN freezeRow' = {[epoch |-> 1, frozen |-> FALSE]} /\ lifter' = {o}
       ELSE UNCHANGED <<freezeRow, lifter>>
  /\ UNCHANGED seen

FreezeStoreNext ==
  \E o \in Operator : \/ ReadRow(o) \/ FreezeRow(o) \/ UnfreezeRow(o)
                      \/ UpdateNothing(o) \/ InsertUnfrozen(o)

FreezeStoreSpec == FreezeStoreInit /\ [][FreezeStoreNext]_freezeRowVars

-----------------------------------------------------------------------------
(* "the operator lifts the freeze they LOOKED AT, never one that moved      *)
(* under them": an unfreeze() that lifts a freeze comes from an operator    *)
(* whose last look is that very freeze. *)
LiftsWhatWasSeen ==
  [][(\E s \in freezeRow : s.frozen) /\ (\E s \in freezeRow' : ~s.frozen)
       => \E o \in lifter' : seen[o] = freezeRow]_freezeRowVars
=============================================================================
