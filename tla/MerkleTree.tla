----------------------------- MODULE MerkleTree -----------------------------
(***************************************************************************)
(* The RFC 9162 tree of transparency/src/merkle.ts: roots, inclusion and   *)
(* consistency proofs and their verifiers.  SHA-256 is ideal: a hash is    *)
(* the term it was computed from, so equal hashes have equal preimages and *)
(* the prefixes keep leaves and nodes apart.                               *)
(*                                                                         *)
(* The state is two logs, of which a prover claims that the second extends *)
(* the first, and the path it sends to a verifier, node by node.           *)
(***************************************************************************)
EXTENDS Integers, FiniteSets, Sequences, SequencesExt

CONSTANTS
  LeafData,   \* what a leaf may say
  MaxLeaves,  \* bound: leaves of a log
  MaxPath     \* bound: nodes of a forged path

ASSUME MerkleAssumption == MaxLeaves \in Nat

VARIABLES older, newer, path

merkleVars == <<older, newer, path>>

LeafHash(data) == <<"leaf", data>>
NodeHash(left, right) == <<"node", left, right>>
EmptyTreeRoot == <<"empty">>

Pow2[i \in Nat] == IF i = 0 THEN 1 ELSE 2 * Pow2[i - 1]

(* The largest power of two below n. *)
SplitPoint(n) == CHOOSE k \in {Pow2[i] : i \in 0..n} : k < n /\ n <= 2 * k

First(hashes, k) == SubSeq(hashes, 1, k)

(* The ranges [start, end) of a list, of which a tree hangs over each.      *)
Ranges(hashes) == {r \in (0..Len(hashes)) \X (0..Len(hashes)) : r[1] <= r[2]}
Mid(r) == r[1] + SplitPoint(r[2] - r[1])
Left(r) == <<r[1], Mid(r)>>
Right(r) == <<Mid(r), r[2]>>

SubtreeRoots(hashes) ==
  LET root[r \in Ranges(hashes)] ==
        IF r[1] = r[2] THEN EmptyTreeRoot
        ELSE IF r[1] + 1 = r[2] THEN hashes[r[2]]
        ELSE NodeHash(root[Left(r)], root[Right(r)])
  IN root

Root(hashes) == SubtreeRoots(hashes)[<<0, Len(hashes)>>]

(* proveInclusion(), leaves first. *)
ProveInclusion(hashes, index) ==
  LET roots == SubtreeRoots(hashes)
      audit[r \in Ranges(hashes)] ==
        IF r[2] <= r[1] + 1 THEN <<>>
        ELSE IF index < Mid(r) THEN Append(audit[Left(r)], roots[Right(r)])
        ELSE Append(audit[Right(r)], roots[Left(r)])
  IN audit[<<0, Len(hashes)>>]

(* subproof(): `complete` holds of the ranges that begin with the first     *)
(* leaf, and a range of one leaf always ends with the first tree.           *)
ProveConsistency(hashes, first) ==
  LET roots == SubtreeRoots(hashes)
      subproof[r \in Ranges(hashes)] ==
        IF r[2] = first \/ r[2] <= r[1] + 1 THEN IF r[1] = 0 THEN <<>> ELSE <<roots[r]>>
        ELSE IF first <= Mid(r) THEN Append(subproof[Left(r)], roots[Right(r)])
        ELSE Append(subproof[Right(r)], roots[Left(r)])
  IN subproof[<<0, Len(hashes)>>]

-----------------------------------------------------------------------------
(* One node of a path: fn climbs from the leaf, sn from the last leaf, and  *)
(* a left sibling skips the levels where the last leaf has none.            *)

(* The power of two by which n is shifted right until its last bit is set. *)
LowBit(n) == CHOOSE w \in {Pow2[i] : i \in 0..n} : n % w = 0 /\ (n \div w) % 2 = 1

Shift(p, w) == [fn |-> p.fn \div w, sn |-> p.sn \div w]

FromLeft(p) == p.fn % 2 = 1 \/ p.fn = p.sn

SkipLevels(p) == IF p.fn = 0 THEN p ELSE Shift(p, LowBit(p.fn))

Up(p) == Shift(IF FromLeft(p) THEN SkipLevels(p) ELSE p, 2)

(* Shifted until the last bit of fn is clear. *)
SkipOdd(p) == Shift(p, LowBit(p.fn + 1))

ClimbStep(acc, node) ==
  [fr |-> IF FromLeft(acc.p) THEN NodeHash(node, acc.fr) ELSE acc.fr,
   sr |-> IF FromLeft(acc.p) THEN NodeHash(node, acc.sr) ELSE NodeHash(acc.sr, node),
   p |-> Up(acc.p), ok |-> acc.ok /\ acc.p.sn # 0]

(* The loop of both verifiers; that of inclusion has no use for fr.         *)
Climb(hash, p, nodes) ==
  LET run[i \in 0..Len(nodes)] ==
        IF i = 0 THEN [fr |-> hash, sr |-> hash, p |-> p, ok |-> TRUE]
        ELSE ClimbStep(run[i - 1], nodes[i])
  IN run[Len(nodes)]

VerifyInclusion(leaf, index, size, nodes, root) ==
  LET end == Climb(leaf, [fn |-> index, sn |-> size - 1], nodes) IN
  /\ Len(nodes) <= 64
  /\ index < size
  /\ end.ok /\ end.p.sn = 0 /\ end.sr = root

NewRootOnly(end, firstRoot, secondRoot) == end.sr = secondRoot   \* mutant
BothRoots(end, firstRoot, secondRoot) == end.fr = firstRoot /\ end.sr = secondRoot

VerifyConsistency(firstRoot, secondRoot, first, second, nodes) ==
  LET whole == \E i \in 0..first : first = Pow2[i]
      hashes == IF whole THEN <<firstRoot>> \o nodes ELSE nodes
      end == Climb(hashes[1], SkipOdd([fn |-> first - 1, sn |-> second - 1]), Tail(hashes)) IN
  /\ 1 <= first /\ first <= second /\ Len(nodes) <= 130
  /\ IF first = second THEN nodes = <<>> /\ firstRoot = secondRoot
     ELSE /\ nodes # <<>>
          /\ end.ok /\ end.p.sn = 0 /\ BothRoots(end, firstRoot, secondRoot)

-----------------------------------------------------------------------------
Leaves(log) == [n \in DOMAIN log |-> LeafHash(log[n])]

(* Every node either log has, and so every node a path can usefully hold.  *)
Nodes(hashes) ==
  {SubtreeRoots(hashes)[r] : r \in {q \in Ranges(hashes) : q[1] < q[2]}}

MerkleInit ==
  /\ older \in UNION {[1..n -> LeafData] : n \in 1..MaxLeaves}
  /\ newer \in UNION {[1..n -> LeafData] : n \in 1..MaxLeaves}
  /\ Len(older) <= Len(newer)
  /\ path = <<>>

SendNode ==
  /\ Len(path) < MaxPath
  /\ \E node \in Nodes(Leaves(older)) \cup Nodes(Leaves(newer)) : path' = Append(path, node)
  /\ UNCHANGED <<older, newer>>

MerkleNext == SendNode

MerkleSpec == MerkleInit /\ [][MerkleNext]_merkleVars
-----------------------------------------------------------------------------
(* Under the sizes their heads state, the roots of two logs accept a path  *)
(* only when the first log is a prefix of the second, and a root accepts a *)
(* leaf only at the index where it is, whatever path is sent.  The proofs  *)
(* the log makes are always accepted.                                      *)
ProofsProve ==
  LET old == Leaves(older)
      new == Leaves(newer) IN
  /\ VerifyConsistency(Root(old), Root(new), Len(old), Len(new), path) => IsPrefix(older, newer)
  /\ \A index \in 0..Len(new) : \A data \in LeafData :
       VerifyInclusion(LeafHash(data), index, Len(new), path, Root(new))
         => newer[index + 1] = data
  /\ path = <<>> =>
       /\ \A m \in DOMAIN newer :
            VerifyConsistency(Root(First(new, m)), Root(new), m, Len(new), ProveConsistency(new, m))
       /\ \A m \in DOMAIN newer :
            VerifyInclusion(new[m], m - 1, Len(new), ProveInclusion(new, m - 1), Root(new))
=============================================================================
