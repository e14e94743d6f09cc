--------------------------- MODULE StatusListCheck ---------------------------
(***************************************************************************)
(* The verifier's side of revocation: createStatusListCheck() fetches a    *)
(* signed list and reads its bit.  It owns no registry; whoever serves the *)
(* list may answer with any list ever signed, as old as it likes within    *)
(* its lifetime, so a rolled back version is the hazard.  The floor is     *)
(* persisted by onFloorAdvance and seeded back; the content seen at the    *)
(* floor is not.                                                           *)
(***************************************************************************)
EXTENDS Revocation

VARIABLES
  floor,         \* highestVersion
  floorContent,  \* the list that set the floor, if this instance saw it
  warned,        \* history: mandates dead before an accepted list was asked for
  reinstated     \* history: warned mandates that were allowed again

checkVars == <<floor, floorContent, warned, reinstated>>
listVars == <<store, log, task, lastPublished, publishes, credentials, check,
              ops, faults, issued, dead, paid, floor, floorContent, warned, reinstated>>

VerifierInit ==
  /\ floor = -1 /\ floorContent = {}
  /\ warned = {} /\ reinstated = {}

RolledBack(c) ==
  \/ c.version < floor
  \/ c.version = floor /\ floorContent # {} /\ floorContent # {c.bits}

(* checkStatus() up to the entry: the purpose is pinned by the caller. *)
Authentic(c) == c.purpose = "revocation"

\* Mutant: a list that revokes the mandate does not pin its version.
AdvanceUnlessRevoked(c, i) ==
  IF i \in c.bits THEN UNCHANGED <<floor, floorContent>>
  ELSE floor' = c.version /\ floorContent' = {c.bits}

(* The floor advances with every authentic list, whatever the entry says. *)
Advance(c, i) == floor' = c.version /\ floorContent' = {c.bits}

VerifyList(m, c) ==
  /\ \E i \in issued[m] :
       /\ ~RolledBack(c) /\ Authentic(c)
       /\ Advance(c, i)
       /\ warned' = warned \cup c.knew
       /\ reinstated' = IF i \notin c.bits THEN reinstated \cup ({m} \cap warned') ELSE reinstated
  /\ UNCHANGED regVars

(* A restart seeds initialVersionFloor. *)
RestartVerifier ==
  /\ floorContent # {} /\ floorContent' = {}
  /\ UNCHANGED <<floor, warned, reinstated, regVars>>

StatusListInit == RegistryInit /\ VerifierInit

VerifierNext ==
  \/ \E m \in Mandate, c \in credentials : VerifyList(m, c)
  \/ RestartVerifier

StatusListNext ==
  \/ RegistryNext /\ UNCHANGED checkVars
  \/ VerifierNext

StatusListSpec == StatusListInit /\ [][StatusListNext]_listVars

-----------------------------------------------------------------------------
(* "an attacker replaying an OLD (pre-revocation) but still-fresh snapshot" *)
(* fails: once a verifier accepted any list asked for after a permanent     *)
(* kill was acknowledged, it never allows that mandate again, whatever list *)
(* it is served, however publishes overlapped and across restarts of both.  *)
NeverReinstated == reinstated = {}
=============================================================================
