---------------------------- MODULE CanonicalJson ----------------------------
(* canonicalJson() of guard/src/ledger/hash.ts, the bytes every hash and     *)
(* signature of the system is taken over.                                    *)
EXTENDS JsonValues, Integers, Sequences

CONSTANTS
  CanonicalMaxDepth,  \* CANONICAL_MAX_DEPTH
  KeyOrder            \* the property names, in code unit order

Throws == <<"throws">>

(* The parts of a value, and theirs, as deep as bytes reach.                 *)
Level(v, depth) == Levels(v, CanonicalMaxDepth)[depth]

InOrder(keys) ==
  LET upTo[n \in 0..Len(KeyOrder)] ==
        IF n = 0 THEN <<>>
        ELSE IF KeyOrder[n] \in keys THEN Append(upTo[n - 1], KeyOrder[n])
        ELSE upTo[n - 1]
  IN upTo[Len(KeyOrder)]

Enumerated(fields) == {k \in DOMAIN fields : fields[k].t # "undef"}

(* A reference to an ancestor runs into the depth limit.                     *)
LeafTokens(v) ==
  CASE v.t = "null" -> <<"null">>
    [] v.t = "negzero" -> <<"num", "0">>
    [] v.t \in {"str", "num"} -> <<v.t, v.v>>
    [] OTHER -> Throws

(* A container's output, Throws if any part of it throws.                    *)
Joined(open, parts, close) ==
  LET rest[n \in 1..Len(parts) + 1] ==
        IF n > Len(parts) THEN <<close>> ELSE parts[n] \o rest[n + 1]
  IN IF \E n \in DOMAIN parts : parts[n] = Throws THEN Throws ELSE <<open>> \o rest[1]

Property(text, k, x) == IF text[x] = Throws THEN Throws ELSE <<"key", k>> \o text[x]

(* The body of serialize(), given the output for what is one level down.     *)
SerializeStep(text, v) ==
  IF v.t = "arr" THEN Joined("[", [n \in DOMAIN v.v |-> text[v.v[n]]], "]")
  ELSE IF v.t = "obj" THEN
    LET keys == InOrder(Enumerated(v.v)) IN
    Joined("{", [n \in DOMAIN keys |-> Property(text, keys[n], v.v[keys[n]])], "}")
  ELSE LeafTokens(v)

CanonicalJsonOf(v) ==
  LET text[depth \in 0..CanonicalMaxDepth + 1] ==
        [x \in Level(v, depth) |->
           IF depth > CanonicalMaxDepth THEN Throws ELSE SerializeStep(text[depth + 1], x)]
  IN text[0][v]

(* What two values may share, the code says: an absent property and an       *)
(* undefined one are the same statement, and so, by JSON.stringify(), are    *)
(* zero and negative zero.                                                   *)
MeaningStep(meaning, v) ==
  CASE v.t = "arr" -> Arr([n \in DOMAIN v.v |-> meaning[v.v[n]]])
    [] v.t = "obj" -> Obj([k \in Enumerated(v.v) |-> meaning[v.v[k]]])
    [] v.t = "negzero" -> Num("0")
    [] OTHER -> v

Meaning(v) ==
  LET meaning[depth \in 0..CanonicalMaxDepth + 1] ==
        [x \in Level(v, depth) |->
           IF depth > CanonicalMaxDepth THEN x ELSE MeaningStep(meaning[depth + 1], x)]
  IN meaning[0][v]

(* There is one null, an array has its elements in a sequence, and an object *)
(* properties with names.                                                    *)
WellFormed(v) ==
  /\ IsValue(v)
  /\ v.t = "null" => v = Leaf("null")
  /\ v.t = "arr" => v.v \in Seq(Parts(v))
  /\ v.t = "obj" => DOMAIN v.v \subseteq {KeyOrder[n] : n \in DOMAIN KeyOrder}
=============================================================================
