----------------------------- MODULE MCRevocation -----------------------------
(* Two mandates of one agent.  The two readers of the registry, the guard's *)
(* check and the published lists with their verifier, do not touch each     *)
(* other: each run has one of them, the guard with one operation more.      *)
EXTENDS StatusListCheck, FreezeStore, TLC

CONSTANTS m1, m2, a1, o1, o2

MCMandates == {m1, m2}
MCAgents == {a1}
MCOperators == {o1, o2}

VARIABLE reader

MCVars == <<listVars, freezeRowVars, reader>>

MCInit ==
  /\ StatusListInit /\ FreezeStoreInit
  /\ reader \in {"guard", "verifier", "operators"}

RegistryMoves ==
  \/ QueueNext /\ UNCHANGED checkVars
  \/ reader = "guard" /\ CheckNext /\ UNCHANGED checkVars
  \/ reader = "verifier" /\ PublishNext /\ UNCHANGED checkVars
  \/ reader = "verifier" /\ VerifierNext

MCNext ==
  /\ UNCHANGED reader
  /\ \/ reader # "operators" /\ RegistryMoves /\ UNCHANGED freezeRowVars
     \/ reader = "operators" /\ FreezeStoreNext /\ UNCHANGED listVars

MCSpec == MCInit /\ [][MCNext]_MCVars

OpsBound == reader = "verifier" => ops <= 3

MandatesAlike == Permutations(MCMandates)
=============================================================================
