------------------------------ MODULE JsonValues ------------------------------
(* The JavaScript values that intents, mandates and typed data are made of.  *)
(* A value is [t, v]: "null", "str" and "num" with their text, "arr" with a  *)
(* sequence (of values, or holes), "obj" with a function on its keys, and    *)
(* what JSON has no word for: "nan", "negzero", "big", "undef", "hole",      *)
(* "class" and "loop", a reference to an ancestor.                           *)
EXTENDS Naturals

Leaf(t) == [t |-> t, v |-> 0]
Str(text) == [t |-> "str", v |-> text]
Num(text) == [t |-> "num", v |-> text]
Arr(items) == [t |-> "arr", v |-> items]
Obj(fields) == [t |-> "obj", v |-> fields]

Containers == {"arr", "obj"}

-----------------------------------------------------------------------------
(* What a recursion over a value visits, one level of nesting at a time.     *)
Parts(v) == IF v.t \in Containers THEN {v.v[k] : k \in DOMAIN v.v} ELSE {}

Levels(v, depth) ==
  LET level[n \in 0..depth + 1] ==
        IF n = 0 THEN {v} ELSE UNION {Parts(x) : x \in level[n - 1]}
  IN level

Within(v, depth) == UNION {Levels(v, depth)[n] : n \in 0..depth}

NestsWithin(v, depth) == Levels(v, depth)[depth + 1] = {}

(* A container is what its parts make it, and a leaf its kind and its text.  *)
IsValue(v) ==
  /\ v = [t |-> v.t, v |-> v.v]
  /\ v.t \in Containers => v.v = [k \in DOMAIN v.v |-> v.v[k]]
=============================================================================
