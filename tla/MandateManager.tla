--------------------------- MODULE MandateManager ---------------------------
(***************************************************************************)
(* MandateManager of guard/src/mandate/mandate.ts over the consume-once    *)
(* registry: registration, revocation, consumeOnce() with its awaits,      *)
(* settlement, and the state a restarted process rebuilds from the ledger. *)
(* What a mandate says of amounts, merchants and signatures is the subject *)
(* of MandateCheck; here a mandate that is registered, unrevoked and       *)
(* unexpired covers every intent.                                          *)
(*                                                                         *)
(* Either several live processes share a durable store, or one process has *)
(* the memory store, which a crash empties.                                *)
(***************************************************************************)
EXTENDS ConsumeStore, Sequences, SequencesExt

CONSTANTS
  Instance,
  Call,         \* calls of consumeOnce()
  KeyMandates,  \* intent id -> the mandates it may be presented under
  RegisterLate, \* BOOLEAN: register() after hydrateFromLedger()
  MaxFailures   \* bound: crashes, lost rows and failed store calls

VARIABLES
  store,        \* "memory" or "shared": the kind of consume store
  states,       \* by process: mandate -> "unknown", "live", "revoked"
  ready,        \* the processes that have hydrated
  born,         \* the mandates that have been signed, here or elsewhere
  expired,      \* those past expiresAt
  rows,         \* the ledger's rows about mandates and executions
  task,         \* the calls
  inQueue,      \* by process: who is in the promise queue's critical part
  granted,      \* history: the calls ever answered "consumed", by (m, k)
  outcome,      \* history: what became of the rail, by (m, k)
  killed,       \* history: by process, revocations acknowledged or restored
  failures

managerVars == <<consumeVars, store, states, ready, born, expired, rows, task, inQueue,
                 granted, outcome, killed, failures>>

MandateRow(type, m, k, x) == [type |-> type, mandate |-> m, key |-> k, value |-> x]

Fresh == [m \in Mandate |-> "unknown"]

Tasks == {[process |-> p, mandate |-> m, key |-> k, digest |-> d, pc |-> "new",
           dead |-> FALSE, answer |-> "none", status |-> "none", rail |-> "none"] :
             p \in Instance, m \in Mandate, k \in UseKey, d \in Digest}

ManagerInit ==
  /\ ConsumeInit
  /\ store \in {"memory", "shared"}
  /\ states = [p \in Instance |-> Fresh]
  /\ ready = {} /\ born \in SUBSET Mandate /\ expired = {} /\ rows = <<>>
  /\ task \in [Call -> {t \in Tasks : t.mandate \in KeyMandates[t.key]}]
  /\ inQueue = [p \in Instance |-> {}]
  /\ granted = [m \in Mandate |-> [k \in UseKey |-> {}]]
  /\ outcome = [m \in Mandate |-> [k \in UseKey |-> "none"]]
  /\ killed = [p \in Instance |-> {}]
  /\ failures = 0

Fails == failures < MaxFailures /\ failures' = failures + 1

(* A hard append lands; or it throws, and its row may have landed anyway.  *)
Lands(r) == rows' = Append(rows, r) /\ UNCHANGED failures
Throws(r) == Fails /\ rows' \in {rows, Append(rows, r)}

-----------------------------------------------------------------------------
(* register() and issue().  A mandate that was issued is registered even   *)
(* when its row is lost and issue() throws.                                *)
Register(p, m) ==
  /\ m \in born /\ states[p][m] = "unknown"
  /\ p \in ready => RegisterLate
  /\ states' = [states EXCEPT ![p][m] = "live"]
  /\ UNCHANGED <<store, consumeVars, ready, born, expired, rows, task, inQueue, granted, outcome,
                 killed, failures>>

Issue(p, m) ==
  /\ p \in ready /\ m \notin born
  /\ born' = born \cup {m}
  /\ states' = [states EXCEPT ![p][m] = "live"]
  /\ Lands(MandateRow("issued", m, "-", "-")) \/ Throws(MandateRow("issued", m, "-", "-"))
  /\ UNCHANGED <<store, consumeVars, ready, expired, task, inQueue, granted, outcome, killed>>

(* revoke(): an unknown mandate is left alone, silently. *)
Revoke(p, m) ==
  LET r == MandateRow("revoked", m, "-", "-") IN
  /\ p \in ready /\ states[p][m] = "live"
  /\ states' = [states EXCEPT ![p][m] = "revoked"]
  /\ \/ Lands(r) /\ killed' = [killed EXCEPT ![p] = @ \cup {m}]
     \/ Throws(r) /\ UNCHANGED killed
  /\ UNCHANGED <<store, consumeVars, ready, born, expired, task, inQueue, granted, outcome>>

Expire(m) ==
  /\ m \in born /\ m \notin expired
  /\ expired' = expired \cup {m}
  /\ UNCHANGED <<store, consumeVars, states, ready, born, rows, task, inQueue, granted, outcome,
                 killed, failures>>

(* pruneMandates(): the operator's duty is to wait until no consumeOnce()  *)
(* that saw the mandate alive is still on its way to claim().              *)
Prune(m) ==
  /\ m \in expired /\ m \notin sealed
  /\ \A c \in Call : task[c].mandate = m => task[c].pc # "claim"
  /\ sealed' = sealed \cup {m}
  /\ claims' = [claims EXCEPT ![m] = [k \in UseKey |-> [@[k] EXCEPT !.status = "none"]]]
  /\ UNCHANGED <<store, wins, states, ready, born, expired, rows, task, inQueue, granted, outcome,
                 killed, failures>>

-----------------------------------------------------------------------------
(* consumeOnce() *)

Ask(c) ==
  LET t == task[c] IN
  /\ t.pc = "new" /\ t.process \in ready
  /\ task' = [task EXCEPT ![c].pc = "queued", ![c].dead = t.mandate \in killed[t.process]]
  /\ UNCHANGED <<store, consumeVars, states, ready, born, expired, rows, inQueue, granted, outcome,
                 killed, failures>>

Leaves(c, answer, status) ==
  /\ task' = [task EXCEPT ![c].pc = "done", ![c].answer = answer, ![c].status = status]
  /\ inQueue' = [inQueue EXCEPT ![task[c].process] = {}]

Goes(c, pc) == task' = [task EXCEPT ![c].pc = pc]

ReplaysAnyPayment(c) ==
  LET status == claims[task[c].mandate][task[c].key].status IN
  Leaves(c, "replayed", IF status = "pending" THEN "unresolved" ELSE status)

(* replayOutcome(): the claim as it was read, a pending one "unresolved".  *)
Replays(c) ==
  LET claim == claims[task[c].mandate][task[c].key] IN
  IF claim.digest # task[c].digest
    THEN Leaves(c, "otherPayment", "none")
    ELSE Leaves(c, "replayed", IF claim.status = "pending" THEN "unresolved" ELSE claim.status)

Valid(p, m) == states[p][m] = "live" /\ m \notin expired

(* The replay is recorded with a hard append, which may throw instead.  The *)
(* row itself is left out: nothing reads it back.                          *)
AnswersReplay(c) ==
  \/ Replays(c) /\ UNCHANGED failures
  \/ Fails /\ Leaves(c, "threw", "none")

(* The prior claim is looked up first; then everything but the use count.  *)
Lookup(c) ==
  LET t == task[c] IN
  /\ t.pc = "queued" /\ inQueue[t.process] = {}
  /\ \/ /\ states[t.process][t.mandate] # "unknown" /\ Claimed(t.mandate, t.key)
        /\ AnswersReplay(c)
     \/ /\ states[t.process][t.mandate] = "unknown" \/ ~Claimed(t.mandate, t.key)
        /\ ~Valid(t.process, t.mandate)
        /\ Leaves(c, "rejected", "none") /\ UNCHANGED failures
     \/ /\ ~Claimed(t.mandate, t.key) /\ Valid(t.process, t.mandate)
        /\ Goes(c, "claim")
        /\ inQueue' = [inQueue EXCEPT ![t.process] = {c}] /\ UNCHANGED failures
  /\ UNCHANGED <<store, consumeVars, states, ready, born, expired, rows, granted, outcome, killed>>

ClaimUse(c) ==
  LET t == task[c] IN
  /\ t.pc = "claim"
  /\ \/ ClaimDuplicate(t.mandate, t.key) /\ AnswersReplay(c)
     \/ /\ ClaimExhausted(t.mandate, t.key) /\ Leaves(c, "rejected", "none")
        /\ UNCHANGED failures
     \/ /\ ClaimWon(t.mandate, t.key, t.digest) /\ Goes(c, "row")
        /\ UNCHANGED <<inQueue, failures>>
  /\ UNCHANGED <<store, states, ready, born, expired, rows, granted, outcome, killed>>

ClaimThrows(c) ==
  LET t == task[c] IN
  /\ t.pc = "claim" /\ Fails
  /\ UNCHANGED consumeVars \/ ClaimWon(t.mandate, t.key, t.digest)
  /\ Leaves(c, "threw", "none")
  /\ UNCHANGED <<store, states, ready, born, expired, rows, granted, outcome, killed>>

Grants(c) ==
  /\ granted' = [granted EXCEPT ![task[c].mandate][task[c].key] = @ \cup {c}]
  /\ Leaves(c, "consumed", "none")

UseRow(c) == MandateRow("consumed", task[c].mandate, task[c].key, task[c].digest)

UseRecordedBestEffort(c) ==
  /\ task[c].pc = "row"
  /\ Lands(UseRow(c)) \/ Throws(UseRow(c))
  /\ Grants(c)

(* The use is on the ledger before anybody learns that it was consumed.    *)
UseRecorded(c) ==
  /\ task[c].pc = "row"
  /\ \/ Lands(UseRow(c)) /\ Grants(c)
     \/ Throws(UseRow(c)) /\ Leaves(c, "threw", "none") /\ UNCHANGED granted

RecordUse(c) ==
  /\ UseRecorded(c)
  /\ UNCHANGED <<store, consumeVars, states, ready, born, expired, outcome, killed>>

(* The caller's rail has run: settleUse() and the execution_result row,    *)
(* the first a failing store may miss, the second a lost append.           *)
RailEnds(c, o) ==
  LET t == task[c] IN
  /\ t.answer = "consumed" /\ t.rail = "none"
  /\ outcome' = [outcome EXCEPT ![t.mandate][t.key] = o]
  /\ task' = [task EXCEPT ![c].rail = "settling"]
  /\ UNCHANGED <<store, consumeVars, states, ready, born, expired, rows, inQueue, granted, killed, failures>>

SettleConsumed(c) ==
  LET t == task[c] IN
  /\ t.rail = "settling"
  /\ \/ SettleUse(t.mandate, t.key, outcome[t.mandate][t.key]) /\ UNCHANGED failures
     \/ Fails /\ UNCHANGED consumeVars
  /\ task' = [task EXCEPT ![c].rail = "recording"]
  /\ UNCHANGED <<store, states, ready, born, expired, rows, inQueue, granted, outcome, killed>>

RecordResult(c) ==
  LET t == task[c]
      r == MandateRow("result", "-", t.key, outcome[t.mandate][t.key]) IN
  /\ t.rail = "recording"
  /\ Lands(r) \/ Throws(r)
  /\ task' = [task EXCEPT ![c].rail = "over"]
  /\ UNCHANGED <<store, consumeVars, states, ready, born, expired, inQueue, granted, outcome, killed>>

-----------------------------------------------------------------------------
(* hydrateFromLedger(): one pass over the rows.  A use is claimed without  *)
(* a budget, it passed the gate when it happened; a result settles the     *)
(* oldest use of its intent id that still waits for one.                   *)

Claims(acc, r) ==
  [acc EXCEPT !.claims[r.mandate][r.key] =
                IF @.status = "none" THEN [status |-> "pending", digest |-> r.value] ELSE @,
              !.waiting[r.key] = Append(@, r.mandate)]

Pairs(acc, r) ==
  IF acc.waiting[r.key] = <<>> THEN acc
  ELSE [acc EXCEPT !.claims[Head(acc.waiting[r.key])][r.key].status =
                     IF @ = "pending" THEN r.value ELSE @,
                   !.waiting[r.key] = Tail(@)]

(* "revoked" is only taken for a mandate this process knows by then. *)
Restores(acc, r) ==
  [acc EXCEPT !.states[r.mandate] = IF @ = "unknown" THEN @ ELSE "revoked"]

Replay(acc, r) ==
  CASE r.type = "issued"   -> [acc EXCEPT !.states[r.mandate] = IF @ = "unknown" THEN "live" ELSE @]
    [] r.type = "consumed" -> Claims(acc, r)
    [] r.type = "result"   -> Pairs(acc, r)
    [] r.type = "revoked"  -> Restores(acc, r)

(* The state after all rows, from the state s before them. *)
Replayed(s) ==
  LET after[n \in 0..Len(rows)] == IF n = 0 THEN s ELSE Replay(after[n - 1], rows[n])
  IN after[Len(rows)]

Hydrate(p) ==
  LET all == Replayed([states |-> states[p], claims |-> claims,
                       waiting |-> [k \in UseKey |-> <<>>]]) IN
  /\ p \notin ready /\ (store = "memory" => ready = {})
  /\ ready' = ready \cup {p}
  /\ states' = [states EXCEPT ![p] = all.states]
  /\ claims' = all.claims
  /\ killed' = [killed EXCEPT ![p] = {m \in Mandate : \E i \in DOMAIN rows :
                  rows[i].type = "revoked" /\ rows[i].mandate = m}]
  /\ UNCHANGED <<store, wins, sealed, born, expired, rows, task, inQueue, granted, outcome, failures>>

(* A process dies with the calls it serves; the memory store dies with it. *)
Dies(p) ==
  /\ p \in ready /\ Fails
  /\ ready' = ready \ {p}
  /\ states' = [states EXCEPT ![p] = Fresh]
  /\ killed' = [killed EXCEPT ![p] = {}]
  /\ inQueue' = [inQueue EXCEPT ![p] = {}]
  /\ task' = [c \in Call |->
       IF task[c].process = p /\ task[c].pc # "new"
         THEN [task[c] EXCEPT !.pc = "done", !.rail = "over"] ELSE task[c]]
  /\ claims' = IF store = "shared" THEN claims
               ELSE [m \in Mandate |-> [k \in UseKey |-> [claims[m][k] EXCEPT !.status = "none"]]]
  /\ UNCHANGED <<store, wins, sealed, born, expired, rows, granted, outcome>>

ManagerNext ==
  \/ \E p \in Instance : Hydrate(p) \/ Dies(p)
  \/ \E p \in Instance, m \in Mandate : Register(p, m) \/ Issue(p, m) \/ Revoke(p, m)
  \/ \E m \in Mandate : Expire(m) \/ Prune(m)
  \/ \E c \in Call :
       \/ Ask(c) \/ Lookup(c) \/ ClaimUse(c) \/ ClaimThrows(c) \/ RecordUse(c)
       \/ \E o \in Outcome : RailEnds(c, o)
       \/ SettleConsumed(c) \/ RecordResult(c)

ManagerSpec == ManagerInit /\ [][ManagerNext]_managerVars
-----------------------------------------------------------------------------
(* Over all lives of all processes a mandate grants at most maxUses        *)
(* executions and each intent id one, even when a crash has emptied the    *)
(* registry and the ledger had to rebuild it.                              *)
GrantsSurviveRestart ==
  \A m \in Mandate :
    /\ Cardinality({k \in UseKey : granted[m][k] # {}}) <= MaxUses[m]
    /\ \A k \in UseKey : Cardinality(granted[m][k]) <= 1

(* A process in which revoke() was acknowledged, or that has hydrated from *)
(* a ledger with the revocation, never consumes the mandate again.         *)
RevokedStaysDead ==
  \A c \in Call : task[c].dead => task[c].answer # "consumed"

(* A replay tells the truth about the first attempt, across settlements    *)
(* that failed, restarts, and payments that reuse the id: an outcome it    *)
(* names is what became of the rail of the same payment.                   *)
ReplayTellsTruth ==
  \A c \in Call : task[c].answer = "replayed" /\ task[c].status \in Outcome =>
    /\ outcome[task[c].mandate][task[c].key] = task[c].status
    /\ \A w \in granted[task[c].mandate][task[c].key] : task[w].digest = task[c].digest

(* What a mandate has granted and that it was revoked outlives the process *)
(* that knew it.                                                           *)
RestartForgetsNothing == GrantsSurviveRestart /\ RevokedStaysDead
=============================================================================
