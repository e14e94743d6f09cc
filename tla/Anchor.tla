------------------------------- MODULE Anchor -------------------------------
(***************************************************************************)
(* What a quorum of cosignatures proves to a third party: the signatures   *)
(* of transparency/src/cosign.ts over the notes of checkpoint.ts, and the  *)
(* quorum and anchor computed from them.                                   *)
(*                                                                         *)
(* The state is what each witness really cosigned, who else can sign, the  *)
(* verifier's settings, and the note, to which anyone attaches signature   *)
(* lines.  A signature names its key and exactly what it is over; of a     *)
(* line's time only the signed copy is protected.                          *)
(***************************************************************************)
EXTENDS Naturals, FiniteSets, Sequences, SequencesExt

CONSTANTS
  Witnesses,      \* who holds one Ed25519 and one ML-DSA-44 key each
  Checkpoints,    \* what a witness may have cosigned: [leaves, ext]
  Note,           \* the checkpoint that is shown to the verifier
  Configs,        \* lists of KnownWitness entries: [name, keys]
  Verifiers,      \* settings: k, the binding met or not, clock, pq available
  Threats,        \* who forges: [corrupt, edForged]
  Times, MadeAt,  \* times a line may claim; when the witnesses cosigned
  MaxLines,       \* bound: lines attached to the note
  None            \* no bound, no time

Ed == "Ed25519"
MlDsa == "ML-DSA-44"
Key(w, alg) == [owner |-> w, alg |-> alg]

(* The keys are the witnesses' own, each in one of the two families.        *)
ASSUME AnchorAssumption ==
  /\ IsFiniteSet(Witnesses) /\ MadeAt \in Nat
  /\ \A c \in Configs :
       /\ Len(c) \in Nat /\ DOMAIN c = 1..Len(c)
       /\ \A n \in DOMAIN c : c[n].keys \subseteq
            UNION {{Key(w, Ed), Key(w, MlDsa)} : w \in Witnesses}
  /\ \A v \in Verifiers : v.k \in Nat
  /\ \A t \in Threats : t.corrupt \subseteq Witnesses

VARIABLES cosigned, threat, config, verifier, lines

anchorVars == <<cosigned, threat, config, verifier, lines>>

-----------------------------------------------------------------------------
(* The signed messages: the whole body, or the tree under the signer's name.*)

CosignaturePayload(body, time) == [time |-> time, body |-> body]
MlDsa44CosignaturePayload(name, body, time) ==
  [time |-> time, name |-> name, leaves |-> body.leaves]

Message(name, alg, body, time) ==
  IF alg = Ed THEN CosignaturePayload(body, time) ELSE MlDsa44CosignaturePayload(name, body, time)

Signature(key, message) == [by |-> key, over |-> message]

CosignCheckpoint(w) == Signature(Key(w, Ed), CosignaturePayload(cosigned[w], MadeAt))
CosignCheckpointMlDsa44(w) ==
  Signature(Key(w, MlDsa), MlDsa44CosignaturePayload(w, cosigned[w], MadeAt))

(* What the witnesses signed, and what the attacker can sign over the note. *)
Genuine == UNION {{CosignCheckpoint(w), CosignCheckpointMlDsa44(w)} : w \in Witnesses}

Forgeable(key) == key.owner \in threat.corrupt \/ (key.alg = Ed /\ threat.edForged)

(* Any signature by the key, under the time of the forger's choice.         *)
LinesOf(n, key) ==
  [name : {config[n].name}, key : {key}, time : Times, sig : {s \in Genuine : s.by = key}]
  \cup {[name |-> config[n].name, key |-> key, time |-> t,
         sig |-> Signature(key, Message(config[n].name, key.alg, Note, t))] :
          t \in {u \in Times : Forgeable(key)}}

AnchorInit ==
  /\ cosigned \in [Witnesses -> Checkpoints]
  /\ threat \in Threats
  /\ config \in Configs
  /\ verifier \in Verifiers
  /\ lines = <<>>

(* Only the order of one entry's lines matters: they come entry by entry.   *)
Upto(n) == {config[m].name : m \in 1..n}

AttachCosignature ==
  /\ Len(lines) < MaxLines
  /\ \E n \in DOMAIN config : \E key \in config[n].keys :
       \E line \in LinesOf(n, key) \ ToSet(lines) :
         /\ \A m \in DOMAIN lines : lines[m].name \in Upto(n)
         /\ lines' = Append(lines, line)
  /\ UNCHANGED <<cosigned, threat, config, verifier>>

AnchorNext == AttachCosignature

AnchorSpec == AnchorInit /\ [][AnchorNext]_anchorVars

-----------------------------------------------------------------------------
TimestampAcceptable(time) ==
  /\ time <= verifier.now + verifier.skew
  /\ verifier.maxAge # None => time + verifier.maxAge >= verifier.now

Verifies(line, entry, key) ==
  /\ line.name = entry.name /\ line.key = key
  /\ TimestampAcceptable(line.time)
  /\ line.sig = Signature(key, Message(entry.name, key.alg, Note, line.time))

(* The first line of this entry's key that verifies.                        *)
VerifyOne(entry, key) ==
  LET found == {n \in DOMAIN lines : Verifies(lines[n], entry, key)} IN
  {[name |-> entry.name, time |-> lines[n].time, alg |-> key.alg] :
     n \in {m \in found : \A l \in found : m <= l}}

(* Entries after the first of one name are not looked at.  Entries are a    *)
(* function of their positions in the list.                                 *)
Looked(entries) ==
  {n \in DOMAIN entries : \A m \in DOMAIN entries : m < n => entries[m].name # entries[n].name}

Usable(keys) == {key \in keys : key.alg = MlDsa => verifier.pq}

VerifyCosignatures(entries) ==
  UNION {UNION {VerifyOne(entries[n], key) : key \in Usable(entries[n].keys)} :
           n \in Looked(entries)}

(* groupParties(): an entry joins the party of the first of its keys that   *)
(* is known, Ed25519 before ML-DSA-44, and takes all its keys there.        *)
KnownKeys(entry, party) == {key \in entry.keys : key \in DOMAIN party}

FirstKnown(keys) ==
  IF \E key \in keys : key.alg = Ed THEN CHOOSE key \in keys : key.alg = Ed
  ELSE CHOOSE key \in keys : TRUE

Join(acc, entry) ==
  LET known == KnownKeys(entry, acc.of)
      party == IF known = {} THEN acc.next ELSE acc.of[FirstKnown(known)] IN
  IF entry.keys = {} THEN acc
  ELSE [of |-> [key \in DOMAIN acc.of \cup entry.keys |->
                  IF key \in entry.keys THEN party ELSE acc.of[key]],
        named |-> [name \in DOMAIN acc.named \cup {entry.name} |->
                     IF name = entry.name THEN party ELSE acc.named[name]],
        next |-> IF known = {} THEN acc.next + 1 ELSE acc.next]

NoParty == [of |-> << >>, named |-> << >>, next |-> 0]

Grouped(acc, entries, n) == IF n \in Looked(entries) THEN Join(acc, entries[n]) ELSE acc

GroupParties(entries) ==
  LET group[n \in 0..Len(config)] ==
        IF n = 0 THEN NoParty ELSE Grouped(group[n - 1], entries, n)
  IN group[Len(config)].named

CheckCosignatureQuorum(entries) ==
  LET party == GroupParties(entries)
      verified == VerifyCosignatures(entries)
      ok == /\ verifier.bound /\ verifier.k >= 1
            /\ verifier.k <= Cardinality({party[name] : name \in DOMAIN party})
            /\ Cardinality({party[v.name] : v \in verified}) >= verifier.k IN
  [ok |-> ok, verified |-> IF ok THEN verified ELSE {}]

(* assessCheckpointAnchor(): a quorum of ML-DSA-44 alone, then of any.      *)
PqOnly(entries) ==
  LET only(keys) == {key \in keys : key.alg = MlDsa} IN
  [n \in {m \in DOMAIN entries : only(entries[m].keys) # {}} |->
     [name |-> entries[n].name, keys |-> only(entries[n].keys)]]

Earliest(verified) == CHOOSE t \in {v.time : v \in verified} : \A v \in verified : t <= v.time

Strength(classical, pq) ==
  IF pq.ok THEN "witnessed-pq" ELSE IF classical.ok THEN "witnessed" ELSE "unwitnessed"

WitnessedAtAny(strength, classical, pq) ==
  IF strength = "unwitnessed" THEN None ELSE Earliest(classical.verified)

WitnessedAt(strength, classical, pq) ==
  CASE strength = "witnessed-pq" -> Earliest(pq.verified)
    [] strength = "witnessed" -> Earliest(classical.verified)
    [] OTHER -> None

Assessment ==
  LET classical == CheckCosignatureQuorum(config)
      pq == CheckCosignatureQuorum(PqOnly(config))
      strength == Strength(classical, pq) IN
  [strength |-> strength, at |-> WitnessedAt(strength, classical, pq)]

-----------------------------------------------------------------------------
(* A quorum of k is k witnesses: those who forge, and others that really    *)
(* cosigned this tree; and when no witness forges, the time of the anchor   *)
(* is when they did.  At the strength of ML-DSA-44 both survive the forging *)
(* of every Ed25519 signature.                                              *)
SignedTree == {w \in Witnesses \ threat.corrupt :
                 cosigned[w].leaves = Note.leaves}

AnchorHolds ==
  LET a == Assessment
      colluding == Cardinality(threat.corrupt) IN
  a.strength = "witnessed-pq" \/ (a.strength = "witnessed" /\ ~threat.edForged) =>
    /\ Cardinality(SignedTree) + colluding >= verifier.k
    /\ colluding = 0 => a.at = MadeAt

(* The lists on which groupParties() tells witnesses apart: the keys of an   *)
(* entry are one witness's, and the entries of one witness share a key, so   *)
(* that no later entry bridges two parties.                                  *)
Linked(entries) ==
  \A m, n \in DOMAIN entries : \A x \in entries[m].keys, y \in entries[n].keys :
    /\ m = n => x.owner = y.owner
    /\ x.owner = y.owner => entries[m].keys \cap entries[n].keys # {}

(* A quorum of k counts k DISTINCT witnesses (cosign.ts:545, 592-595): names*)
(* that share a key, of either family, are one.                             *)
QuorumCountsParties ==
  CheckCosignatureQuorum(config).ok /\ ~threat.edForged =>
    Cardinality(SignedTree \cup threat.corrupt) >= verifier.k
=============================================================================
