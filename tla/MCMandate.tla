----------------------------- MODULE MCMandate -----------------------------
(* One mandate of one use and three calls: two present the same intent id, *)
(* perhaps for different payments, the third another id.  The memory store *)
(* serves one process, the durable store a second one as well.  The third  *)
(* call is there for the budget: nobody asks what became of its rail.      *)
EXTENDS MandateManager, TLC

CONSTANTS m1, k1, k2, p1, p2, c1, c2, c3

MCMaxUses == m1 :> 1
MCKeyMandates == k1 :> {m1} @@ k2 :> {m1}

MCInit ==
  /\ ManagerInit
  /\ task[c1].process = p1 /\ task[c1].key = k1 /\ task[c1].digest = "d1"
  /\ task[c2].key = k1
  /\ task[c3].key = k2 /\ task[c3].digest = "d1" /\ task[c3].process = task[c2].process
  /\ store = "memory" => task[c2].process = p1
  /\ store = "shared" => task[c2].process = p2

MCNext ==
  /\ ManagerNext
  /\ store = "memory" => ready' \subseteq {p1} /\ states'[p2] = states[p2]
  /\ task'[c3].rail \in {"none", "over"}

MCSpec == MCInit /\ [][MCNext]_managerVars
=============================================================================
