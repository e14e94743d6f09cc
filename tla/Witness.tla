------------------------------ MODULE Witness ------------------------------
(***************************************************************************)
(* A witness of a log (transparency/src/witness.ts): the monitor that      *)
(* follows signed tree heads, and the cosigning witness, whose state is    *)
(* stored by onCommit() before a cosignature leaves it.                    *)
(*                                                                         *)
(* A root is the sequence of leaves it commits to, and a right consistency *)
(* proof is accepted exactly when one is a prefix of the other, which is   *)
(* what MerkleTree!ProofsProve establishes of the verifier.                *)
(***************************************************************************)
EXTENDS Naturals, FiniteSets, Sequences, SequencesExt

CONSTANTS
  Bodies,       \* checkpoints the log may sign: [leaves, ext]
  NoBody,
  MaxCrashes    \* bound: restarts of the witness

VARIABLES
  lastHead,     \* last head the monitor accepted
  accepted,     \* every head it accepted
  state,        \* lastCosigned, in memory
  stored,       \* lastCosigned, as onCommit() last stored it
  committing,   \* the checkpoint whose onCommit() is awaited
  released,     \* checkpoints whose cosignature was handed out
  crashes

witnessVars == <<lastHead, accepted, state, stored, committing, released, crashes>>

SignedLeaves == UNION {{b.leaves[i] : i \in DOMAIN b.leaves} : b \in Bodies}

ASSUME WitnessAssumption ==
  /\ NoBody \notin Bodies
  /\ \A b \in Bodies : b.leaves \in Seq(SignedLeaves)
  /\ MaxCrashes \in Nat

(* What a log may send: a head or a note, and a proof or none.              *)
Notes ==
  [body : Bodies, wellFormed : BOOLEAN, origin : BOOLEAN, logSigned : BOOLEAN, proof : BOOLEAN]

WitnessInit ==
  /\ lastHead = NoBody /\ accepted = {}
  /\ state = NoBody /\ stored = NoBody /\ committing = NoBody
  /\ released = {} /\ crashes = 0

Proven(prev, note) ==
  \/ prev.leaves = <<>>
  \/ note.proof /\ IsPrefix(prev.leaves, note.body.leaves)

Grows(prev, note) == Len(note.body.leaves) > Len(prev.leaves) /\ Proven(prev, note)

-----------------------------------------------------------------------------
(* witnessObserve(): the head is for this log and signed, and follows the   *)
(* last one.                                                                *)

Follows(prev, note) ==
  prev # NoBody => note.body.leaves = prev.leaves \/ Grows(prev, note)

WitnessObserve(note) ==
  /\ note.origin /\ note.logSigned
  /\ Follows(lastHead, note)
  /\ lastHead' = note.body
  /\ accepted' = accepted \cup {note.body}
  /\ UNCHANGED <<state, stored, committing, released, crashes>>

(* detectSplitView(): two heads of one size with two roots.                 *)
SplitView(heads) ==
  \E a, b \in heads : Len(a.leaves) = Len(b.leaves) /\ a.leaves # b.leaves

-----------------------------------------------------------------------------
(* CosigningWitness.cosign(), one at a time through its queue.              *)

Agrees(prev, note) ==
  prev # NoBody => note.body = prev \/ Grows(prev, note)

Cosign(note) ==
  /\ committing = NoBody
  /\ note.wellFormed /\ note.origin /\ note.logSigned
  /\ Agrees(state, note)
  /\ state' = note.body
  /\ committing' = note.body
  /\ UNCHANGED <<lastHead, accepted, stored, released, crashes>>

(* onCommit() ends: it stored the state, or threw, before or after the      *)
(* write.                                                                   *)
HandedOutAnyway(resolved) == {committing}
HandedOut(resolved) == IF resolved THEN {committing} ELSE {}

Commit(resolved) ==
  /\ committing # NoBody
  /\ IF resolved THEN stored' = committing ELSE stored' \in {stored, committing}
  /\ released' = released \cup HandedOut(resolved)
  /\ committing' = NoBody
  /\ UNCHANGED <<lastHead, accepted, state, crashes>>

WitnessRestarts ==
  /\ crashes < MaxCrashes /\ crashes' = crashes + 1
  /\ stored' \in {stored} \cup ({committing} \ {NoBody})
  /\ state' = stored'
  /\ committing' = NoBody
  /\ UNCHANGED <<lastHead, accepted, released>>

WitnessNext ==
  \/ \E note \in Notes : WitnessObserve(note)
  \/ \E note \in Notes : Cosign(note)
  \/ \E resolved \in BOOLEAN : Commit(resolved)
  \/ WitnessRestarts

WitnessSpec == WitnessInit /\ [][WitnessNext]_witnessVars

-----------------------------------------------------------------------------
(* The checkpoints a witness hands cosignatures out for are one history,    *)
(* with one body for each of its trees, whatever the log sends, whenever    *)
(* onCommit() throws and wherever the witness restarts; the heads its       *)
(* monitor accepts are one history too, and never a split view.             *)
NeverContradictsItself ==
  /\ \A a, b \in released :
       \/ a.leaves = b.leaves /\ a = b
       \/ a.leaves # b.leaves /\ (IsPrefix(a.leaves, b.leaves) \/ IsPrefix(b.leaves, a.leaves))
  /\ \A a, b \in accepted : IsPrefix(a.leaves, b.leaves) \/ IsPrefix(b.leaves, a.leaves)
  /\ ~SplitView(accepted)
=============================================================================
