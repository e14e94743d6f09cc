--------------------------- MODULE MCTransparency ---------------------------
(* The transparency log: its proofs, the tree file that mirrors a ledger,    *)
(* a witness, and the quorum of witnesses a third party checks.  Each        *)
(* behaviour follows one of them.                                            *)
EXTENDS MerkleTree, LedgerMirror, Witness, Anchor

VARIABLE focus

MCVars == <<merkleVars, mirrorVars, witnessVars, anchorVars, focus>>

Body(leaves, ext) == [leaves |-> leaves, ext |-> ext]

MCBodies ==
  {Body(<<>>, "-"), Body(<<"x">>, "-"), Body(<<"x">>, "ext"), Body(<<"y">>, "-"),
   Body(<<"x", "x">>, "-"), Body(<<"y", "x">>, "-")}

MCNote == Body(<<"x">>, "-")
MCCheckpoints == {MCNote, Body(<<"x">>, "ext"), Body(<<"y">>, "-")}

-----------------------------------------------------------------------------
Both(w) == {Key(w, Ed), Key(w, MlDsa)}
Known(name, keys) == [name |-> name, keys |-> keys]

(* Three witnesses; one of them under a second name, an entry repeated.      *)
MCPlain == <<Known("w1", Both("w1")), Known("w2", Both("w2")), Known("w3", Both("w3"))>>
MCAliased ==
  <<Known("w1", Both("w1")), Known("w1b", {Key("w1", Ed)}), Known("w3", Both("w3")),
    Known("w3", Both("w2"))>>
MCConfigs == {MCPlain, MCAliased}

(* The hypothesis of QuorumsAreWitnesses is met by these lists.              *)
ASSUME MCConfigsAreLinked == \A c \in MCConfigs : Linked(c)

(* One witness under three names, of which the last holds both its keys.     *)
MCBridged ==
  {<<Known("w1b", {Key("w1", Ed)}), Known("w1", {Key("w1", MlDsa)}), Known("w1c", Both("w1")),
     Known("w2", Both("w2"))>>}

Verifier(k) == [k |-> k, bound |-> TRUE, now |-> 1, skew |-> 1, maxAge |-> None, pq |-> TRUE]
MCVerifiers ==
  {Verifier(2), Verifier(3), [Verifier(2) EXCEPT !.maxAge = 0], [Verifier(1) EXCEPT !.pq = FALSE],
   [Verifier(1) EXCEPT !.bound = FALSE]}

MCThreats ==
  {[corrupt |-> {}, edForged |-> FALSE], [corrupt |-> {"w3"}, edForged |-> FALSE],
   [corrupt |-> {}, edForged |-> TRUE]}

-----------------------------------------------------------------------------
MCInit ==
  /\ focus \in {"merkle", "mirror", "witness", "anchor"}
  /\ MirrorInit /\ WitnessInit
  /\ IF focus = "merkle" THEN MerkleInit ELSE older = <<>> /\ newer = <<>> /\ path = <<>>
  /\ IF focus = "anchor" THEN AnchorInit
     ELSE /\ cosigned = [w \in Witnesses |-> Note] /\ lines = <<>>
          /\ threat = [corrupt |-> {}, edForged |-> FALSE]
          /\ config = <<>> /\ verifier = Verifier(2)

MCNext ==
  /\ UNCHANGED focus
  /\ \/ focus = "merkle" /\ MerkleNext /\ UNCHANGED <<mirrorVars, witnessVars, anchorVars>>
     \/ focus = "mirror" /\ MirrorNext /\ UNCHANGED <<merkleVars, witnessVars, anchorVars>>
     \/ focus = "witness" /\ WitnessNext /\ UNCHANGED <<merkleVars, mirrorVars, anchorVars>>
     \/ focus = "anchor" /\ AnchorNext /\ UNCHANGED <<merkleVars, mirrorVars, witnessVars>>

MCSpec == MCInit /\ [][MCNext]_MCVars
=============================================================================
