----------------------------- MODULE IntentShape -----------------------------
(* inspectIntentShape() of guard/src/policy/intent-shape.ts: what the guard  *)
(* does with an intent no ledger row can hold.  It walks the intent and, if  *)
(* anything is wrong, builds a copy with markers in the place of what cannot *)
(* be recorded, so that the refusal always leaves evidence of bounded size.  *)
EXTENDS CanonicalJson, FiniteSets

CONSTANTS
  Intents,              \* what a caller may pass as an intent
  MaxContainerEntries,  \* MAX_CONTAINER_ENTRIES
  MaxWalkNodes          \* MAX_WALK_NODES

VARIABLES intent, report, row

shapeVars == <<intent, report, row>>

EntryEnvelopeDepth == 2

(* MAX_INTENT_DEPTH: the limit of the serializer, less the two containers of *)
(* the entry around the intent and the marker's own level.                   *)
MaxIntentDepth == CanonicalMaxDepth - EntryEnvelopeDepth - 1

Marker == Str("<unrepresentable>")

(* A walk's result: the copy, the nodes visited, the problems found.         *)
Flagged(nodes) == [out |-> Marker, nodes |-> nodes, problems |-> 1]

Keeps(v, nodes) == [out |-> v, nodes |-> nodes, problems |-> 0]

(* The children of a container in their order, each with its key.            *)
Children(v) ==
  IF v.t = "arr" THEN [n \in DOMAIN v.v |-> <<n, v.v[n]>>]
  ELSE LET keys == InOrder(DOMAIN v.v) IN [n \in DOMAIN keys |-> <<keys[n], v.v[keys[n]]>>]

Assemble(v, kept, skipped) ==
  LET tail == IF skipped THEN << <<"<truncated>", Marker>> >> ELSE <<>>
      all == kept \o tail IN
  IF v.t = "arr" THEN Arr([n \in DOMAIN all |-> all[n][2]])
  ELSE Obj([k \in {all[n][1] : n \in DOMAIN all} |->
              all[CHOOSE n \in DOMAIN all : all[n][1] = k /\ \A m \in n + 1..Len(all) : all[m][1] # k][2]])

BudgetInChild(nodes) == TRUE   \* mutant

(* The budget is tested in the loop, before each child.                      *)
WithinBudget(nodes) == nodes < MaxWalkNodes

(* The body of the loop, given the walks one level down: an object's         *)
(* undefined property is absent, but counts against the cap.                 *)
LookAt(walk, v, seen, child) ==
  IF v.t = "obj" /\ child[2].t = "undef" THEN [seen EXCEPT !.looked = @ + 1]
  ELSE LET result == walk[<<child[2], seen.nodes>>] IN
       [kept |-> Append(seen.kept, <<child[1], result.out>>), nodes |-> result.nodes,
        problems |-> seen.problems + result.problems, looked |-> seen.looked + 1]

ChildStep(seen, walk, v, nodes, n) ==
  IF n = 0 THEN [kept |-> <<>>, nodes |-> nodes, problems |-> 0, looked |-> 0]
  ELSE IF n > MaxContainerEntries \/ ~WithinBudget(seen[n - 1].nodes) THEN seen[n - 1]
  ELSE LookAt(walk, v, seen[n - 1], Children(v)[n])

(* Of the children: the pairs kept, the nodes and problems so far, and how   *)
(* many were looked at.                                                      *)
WalkChildren(walk, v, nodes) ==
  LET seen[n \in 0..Len(Children(v))] == ChildStep(seen, walk, v, nodes, n)
  IN seen[Len(Children(v))]

WalkStep(walk, depth, v, nodes) ==
  LET done == WalkChildren(walk[depth + 1], v, nodes)
      skipped == done.looked < Len(Children(v)) IN
  IF nodes > MaxWalkNodes \/ depth > MaxIntentDepth THEN Flagged(nodes)
  ELSE IF v.t \in Containers THEN
    [out |-> Assemble(v, done.kept, skipped), nodes |-> done.nodes,
     problems |-> done.problems + (IF skipped THEN 1 ELSE 0)]
  ELSE IF v.t \in {"null", "str", "num", "negzero"} THEN Keeps(v, nodes)
  ELSE Flagged(nodes)

(* Each walk goes on from the nodes visited before it.                       *)
InspectIntentShape(v) ==
  LET walk[depth \in 0..MaxIntentDepth + 1] ==
        [p \in Level(v, depth) \X Nat |-> WalkStep(walk, depth, p[1], p[2] + 1)]
  IN walk[0][<<v, 0>>]

(* The ledger entry around the intent, as recordIntent() builds it.          *)
Envelope(v) == Obj([data \in {"data"} |-> Obj([key \in {"intent"} |-> v])])

(* Intents are trees of values of any depth and width.                       *)
ASSUME ShapeAssumption ==
  /\ CanonicalMaxDepth \in Nat /\ CanonicalMaxDepth > EntryEnvelopeDepth
  /\ MaxContainerEntries \in Nat /\ MaxWalkNodes \in Nat \ {0}
  /\ KeyOrder \in Seq({KeyOrder[n] : n \in DOMAIN KeyOrder})
  /\ {"data", "intent"} \subseteq {KeyOrder[n] : n \in DOMAIN KeyOrder}
  /\ \A v \in Intents : \A depth \in 0..CanonicalMaxDepth + 1 : \A x \in Level(v, depth) : WellFormed(x)

-----------------------------------------------------------------------------
ShapeInit ==
  /\ intent \in Intents
  /\ report = [out |-> intent, nodes |-> 0, problems |-> 0] /\ row = Throws

(* requestPayment(): the intent is inspected, and the row has it as it is or *)
(* its sanitized copy.                                                       *)
Inspect ==
  /\ report.nodes = 0
  /\ report' = InspectIntentShape(intent)
  /\ row' = CanonicalJsonOf(Envelope(IF report'.problems = 0 THEN intent ELSE report'.out))
  /\ UNCHANGED intent

ShapeNext == Inspect

ShapeSpec == ShapeInit /\ [][ShapeNext]_shapeVars
-----------------------------------------------------------------------------
(* Every intent gets its row: what passes inspection can be serialized       *)
(* inside the entry, and so can the sanitized copy of what does not, however *)
(* deep, wide, cyclic or strange it is.                                      *)
EveryIntentHasARow == report.nodes > 0 => row # Throws

(* How many values a value has in it: the ways that lead to one.             *)
Through(key, ways) == {<<key>> \o way : way \in ways}

PlacesStep(places, v) ==
  {<<>>} \cup (IF v.t \notin Containers THEN {}
               ELSE UNION {Through(k, places[v.v[k]]) : k \in DOMAIN v.v})

Places(v, depth) ==
  LET places[n \in 0..depth + 1] ==
        [x \in Levels(v, depth)[n] |-> IF n > depth THEN {<<>>} ELSE PlacesStep(places[n + 1], x)]
  IN places[0][v]

Size(v) == Cardinality(Places(v, MaxIntentDepth + 1))

(* A refused intent cannot make the ledger grow with its own size: the copy  *)
(* has at most one value and one truncation marker per node of the budget.   *)
EvidenceIsBounded ==
  report.nodes > 0 => report.nodes <= MaxWalkNodes /\ Size(report.out) <= 2 * MaxWalkNodes

(* "distinct inputs must produce distinct output": the context hash of a     *)
(* mandate, an entry's hash and every signature name one value only, up to   *)
(* the omission the code announces and the sign of zero.                     *)
HashNamesOneValue ==
  LET bytes == CanonicalJsonOf(intent) IN
  row # Throws /\ bytes # Throws =>
    \A other \in Intents : CanonicalJsonOf(other) = bytes => Meaning(other) = Meaning(intent)

(* What the ledger keeps of an intent, however hostile its shape: one row,   *)
(* of bounded size, and no other intent behind the same bytes.               *)
EvidenceIsFaithful == EveryIntentHasARow /\ EvidenceIsBounded /\ HashNamesOneValue
=============================================================================
