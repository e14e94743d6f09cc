----------------------------- MODULE Revocation -----------------------------
(***************************************************************************)
(* The revocation registry of @vaduno/revocation: index assignment, the    *)
(* kill path, suspensions, publishing of status lists, the restart from    *)
(* the ledger, and the guard's check that reads it.                        *)
(*                                                                         *)
(* One registry process over a store it owns and a durable ledger.  The    *)
(* promise queue `run()` lets one operation in at a time: that operation   *)
(* is `task`, and a caller still waiting has not called.  publish() does   *)
(* not ride the queue.  An optional value is a set of at most one element. *)
(***************************************************************************)
EXTENDS Integers, Sequences, FiniteSets, SequencesExt

CONSTANTS
  Mandate, Agent,
  Entries,      \* bits of the status list
  LostRows,     \* may a ledger row be lost while its process lives on
  MaxOps,       \* bound: operations called
  MaxFaults,    \* bound: failures and crashes
  MaxVersion    \* bound: the highest version asked for

VARIABLES
  store,        \* indices, agents, records and blocks of the RevocationStore
  log,          \* ledger rows of the registry, durable
  task,         \* the operation at the head of the queue
  lastPublished,\* lastPublishedVersion
  publishes,    \* publish() calls in progress, by version (signingVersions)
  credentials,  \* signed lists that were returned: anyone may hold them
  check,        \* the guard's check in progress
  ops, faults,
  issued,       \* history: indices returned by assignIndex
  dead,         \* history: what was killed for good, and its caller was told
  paid          \* history: mandates a check allowed although they were dead

regVars == <<store, log, task, lastPublished, publishes, credentials, check,
             ops, faults, issued, dead, paid>>

ASSUME RevocationAssumption ==
  /\ Entries \in Nat /\ LostRows \in BOOLEAN
  /\ MaxOps \in Nat /\ MaxFaults \in Nat /\ MaxVersion \in Nat

Purpose == {"revocation", "suspension"}
Index == 0..(Entries - 1)
Version == 0..MaxVersion

-----------------------------------------------------------------------------
(* The store *)

EmptyStore ==
  [index  |-> [m \in Mandate |-> {}], agent |-> [m \in Mandate |-> {}],
   byAgent |-> [a \in Agent |-> {}], record |-> [m \in Mandate |-> {}],
   block |-> [a \in Agent |-> {}], next |-> 0]

Linked(s, m, a) ==
  [s EXCEPT !.agent[m] = a,
            !.byAgent = [b \in Agent |-> @[b] \cup {n \in {m} : b \in a}]]

(* allocate(): the index a mandate has, or the next one; full is no index. *)
Allocated(s, m, a) ==
  LET linked == IF a = {} THEN s ELSE Linked(s, m, a) IN
  IF s.index[m] # {} THEN linked
  ELSE IF s.next >= Entries THEN s
  ELSE [linked EXCEPT !.index[m] = {s.next}, !.next = s.next + 1]

Revoked(s, m, r) == [s EXCEPT !.record[m] = {r}]

\* Mutant: a suspension replaces a permanent block.
BlockedAnyway(s, a, p) == [s EXCEPT !.block[a] = {p}]

(* blockAgent(): a permanent block is never downgraded. *)
Blocked(s, a, p) ==
  IF "revocation" \in s.block[a] THEN s ELSE [s EXCEPT !.block[a] = {p}]

-----------------------------------------------------------------------------
(* hydrateFromLedger(): the rows are replayed, in order, on a new store. *)

Row == [type : {"assigned", "revoked", "unsuspended", "agent_revoked", "agent_unblocked"},
        mandate : SUBSET Mandate, agent : SUBSET Agent,
        index : SUBSET Index, purpose : Purpose]

RowOf(type, m, a, i, p) ==
  [type |-> type, mandate |-> m, agent |-> a, index |-> i, purpose |-> p]

ReplayedKill(s, row, m) ==
  LET held == Allocated(s, m, row.agent)
      index == IF row.index # {} THEN row.index ELSE held.index[m] IN
  Revoked(held, m, [index |-> index, purpose |-> row.purpose])

Replayed(s, row) ==
  LET m == CHOOSE m \in row.mandate : TRUE
      a == CHOOSE a \in row.agent : TRUE IN
  CASE row.type = "assigned"        -> Allocated(s, m, row.agent)
    [] row.type = "revoked"         -> ReplayedKill(s, row, m)
    [] row.type = "unsuspended"     -> [s EXCEPT !.record[m] = {}]
    [] row.type = "agent_revoked"   -> Blocked(s, a, row.purpose)
    [] row.type = "agent_unblocked" -> [s EXCEPT !.block[a] = {}]
    [] OTHER                        -> s

Restored(rows) ==
  LET after[n \in 0..Len(rows)] ==
        IF n = 0 THEN EmptyStore ELSE Replayed(after[n - 1], rows[n])
  IN after[Len(rows)]

-----------------------------------------------------------------------------
Idle == [op |-> "none"]
NoCheck == [at |-> "none"]

RegistryInit ==
  /\ store = EmptyStore
  /\ log = [rows |-> <<>>, published |-> -1]
  /\ task = Idle
  /\ lastPublished = -1
  /\ publishes = {}
  /\ credentials = {}
  /\ check = NoCheck
  /\ ops = 0 /\ faults = 0
  /\ issued = [m \in Mandate |-> {}]
  /\ dead = [mandates |-> {}, agents |-> {}]
  /\ paid = {}

Ready == task = Idle /\ ops < MaxOps /\ ops' = ops + 1

(* A row lands, or the append throws: then it is on the ledger or not. *)
Lands(row) == log' = [log EXCEPT !.rows = Append(@, row)]

AppendThrows(row) ==
  /\ faults < MaxFaults /\ faults' = faults + 1
  /\ \/ Lands(row)
     \/ LostRows /\ UNCHANGED log

(* assignIndex(): allocate and link, then the row. *)
AssignIndex(m, a) ==
  /\ Ready
  /\ store' = Allocated(store, m, {a})
  /\ task' = IF Allocated(store, m, {a}).index[m] = {} THEN Idle
             ELSE [op |-> "assign", mandate |-> m, agent |-> a]
  /\ UNCHANGED <<log, lastPublished, publishes, credentials, check, faults, issued, dead, paid>>

AssignedRow ==
  RowOf("assigned", {task.mandate}, {task.agent}, store.index[task.mandate], "revocation")

RecordAssignment ==
  /\ task.op = "assign"
  /\ task' = Idle
  /\ \/ /\ Lands(AssignedRow)
        /\ issued' = [issued EXCEPT ![task.mandate] = @ \cup store.index[task.mandate]]
        /\ UNCHANGED faults
     \/ AppendThrows(AssignedRow) /\ UNCHANGED issued
  /\ UNCHANGED <<store, lastPublished, publishes, credentials, check, ops, dead, paid>>

-----------------------------------------------------------------------------
(* The kill path.  `rest` is what a revokeAgent() has still to kill, `whole` *)
(* whose agent it is, `failed` whether a mandate's kill threw.               *)

Kill(m, a, p, rest, whole, failed) ==
  [op |-> "kill", mandate |-> m, agent |-> a, purpose |-> p, rest |-> rest,
   whole |-> whole, failed |-> failed]

Loop(a, p, rest, failed) ==
  [op |-> "loop", agent |-> a, purpose |-> p, rest |-> rest, failed |-> failed]

KilledForGood(m) == \E r \in store.record[m] : r.purpose = "revocation"

(* revokeMandate() of a mandate that is dead already returns its record. *)
RevokeMandate(m, p) ==
  /\ Ready
  /\ IF KilledForGood(m)
       THEN dead' = [dead EXCEPT !.mandates = @ \cup {m}] /\ UNCHANGED task
       ELSE task' = Kill(m, store.agent[m], p, {}, {}, FALSE) /\ UNCHANGED dead
  /\ UNCHANGED <<store, log, lastPublished, publishes, credentials, check, faults, issued, paid>>

(* killLocally(): allocate if need be, then the record, in two store calls; *)
(* nothing but a crash or a reader comes between them. *)
AllocateForKill ==
  /\ task.op = "kill"
  /\ store.index[task.mandate] = {} /\ store.next < Entries
  /\ store' = Allocated(store, task.mandate, task.agent)
  /\ UNCHANGED <<log, task, lastPublished, publishes, credentials, check, ops, faults,
                 issued, dead, paid>>

RecordKill ==
  /\ task.op = "kill"
  /\ store.index[task.mandate] # {} \/ store.next >= Entries
  /\ store' = Revoked(store, task.mandate,
                      [index |-> store.index[task.mandate], purpose |-> task.purpose])
  /\ task' = [task EXCEPT !.op = "killed"]
  /\ UNCHANGED <<log, lastPublished, publishes, credentials, check, ops, faults,
                 issued, dead, paid>>

KilledRow ==
  RowOf("revoked", {task.mandate}, task.agent, store.index[task.mandate], task.purpose)

(* Back to the caller, or to the loop of revokeAgent(). *)
KillDone(threw) ==
  task' = IF task.whole = {} THEN Idle
          ELSE Loop(task.whole, task.purpose, task.rest, task.failed \/ threw)

LogKill ==
  /\ task.op = "killed"
  /\ \/ /\ Lands(KilledRow)
        /\ KillDone(FALSE)
        /\ dead' = IF task.purpose = "revocation"
                     THEN [dead EXCEPT !.mandates = @ \cup {task.mandate}] ELSE dead
        /\ UNCHANGED faults
     \/ AppendThrows(KilledRow) /\ KillDone(TRUE) /\ UNCHANGED dead
  /\ UNCHANGED <<store, lastPublished, publishes, credentials, check, ops, issued, paid>>

(* revokeAgent(): block first, then the row, then every linked mandate. *)
RevokeAgent(a, p) ==
  /\ Ready
  /\ store' = Blocked(store, a, p)
  /\ task' = [op |-> "blocked", agent |-> {a}, purpose |-> p]
  /\ UNCHANGED <<log, lastPublished, publishes, credentials, check, faults, issued, dead, paid>>

BlockedRow == RowOf("agent_revoked", {}, task.agent, {}, task.purpose)

LogBlock ==
  /\ task.op = "blocked"
  /\ \/ /\ Lands(BlockedRow)
        /\ task' = Loop(task.agent, task.purpose,
                        UNION {store.byAgent[a] : a \in task.agent}, FALSE)
        /\ dead' = IF task.purpose = "revocation"
                     THEN [dead EXCEPT !.agents = @ \cup task.agent] ELSE dead
        /\ UNCHANGED faults
     \/ AppendThrows(BlockedRow) /\ task' = Idle /\ UNCHANGED dead
  /\ UNCHANGED <<store, lastPublished, publishes, credentials, check, ops, issued, paid>>

(* The next mandate of the loop; one that is dead for good is skipped, and  *)
(* a failure is collected (its agent_revoke_partial row restores nothing). *)
NextKill ==
  /\ task.op = "loop"
  /\ \/ task.rest = {} /\ task' = Idle
     \/ \E m \in task.rest :
          LET rest == task.rest \ {m} IN
          task' = IF KilledForGood(m)
                    THEN Loop(task.agent, task.purpose, rest, task.failed)
                    ELSE Kill(m, task.agent, task.purpose, rest, task.agent, task.failed)
  /\ UNCHANGED <<store, log, lastPublished, publishes, credentials, check, ops, faults,
                 issued, dead, paid>>

-----------------------------------------------------------------------------
(* Suspensions are lifted, revocations are not. *)

Liftable(held) == held = {"suspension"}

UnsuspendMandate(m) ==
  /\ Ready
  /\ Liftable({r.purpose : r \in store.record[m]})
  /\ store' = [store EXCEPT !.record[m] = {}]
  /\ task' = [op |-> "lifted", row |-> RowOf("unsuspended", {m}, {}, {}, "suspension")]
  /\ UNCHANGED <<log, lastPublished, publishes, credentials, check, faults, issued, dead, paid>>

UnblockAgent(a) ==
  /\ Ready
  /\ Liftable(store.block[a])
  /\ store' = [store EXCEPT !.block[a] = {}]
  /\ task' = [op |-> "lifted", row |-> RowOf("agent_unblocked", {}, {a}, {}, "suspension")]
  /\ UNCHANGED <<log, lastPublished, publishes, credentials, check, faults, issued, dead, paid>>

LogLift ==
  /\ task.op = "lifted"
  /\ task' = Idle
  /\ \/ Lands(task.row) /\ UNCHANGED faults
     \/ AppendThrows(task.row)
  /\ UNCHANGED <<store, lastPublished, publishes, credentials, check, ops, issued, dead, paid>>

-----------------------------------------------------------------------------
(* publish(): outside the queue. *)

MaxOf(S) == CHOOSE x \in S : \A y \in S : y <= x

\* Mutant: the floor does not know the versions being signed.
VersionFloorSigned == lastPublished

VersionFloor == MaxOf({lastPublished} \cup {p.version : p \in publishes})

(* What a list published from now on must show: a link to a dead agent that *)
(* is not on the ledger yet may be lost with its process, unacknowledged.   *)
DeadOnRecord ==
  {m \in Mandate : issued[m] # {} /\
     \/ m \in dead.mandates
     \/ \E a \in dead.agents : m \in Restored(log.rows).byAgent[a]}

(* The version is reserved before the first await. `knew` is history. *)
Publish(v, p) ==
  /\ v > VersionFloor
  /\ publishes' = publishes \cup
       {[at |-> "reserved", version |-> v, purpose |-> p, bits |-> {}, blocked |-> {},
         knew |-> DeadOnRecord]}
  /\ UNCHANGED <<store, log, task, lastPublished, credentials, check, ops, faults, issued, dead, paid>>

Moves(p, q) == publishes' = (publishes \ {p}) \cup {q}

(* The snapshot: records with their index, and who is blocked. *)
Snapshot(p) ==
  /\ p.at = "reserved"
  /\ Moves(p, [p EXCEPT !.at = "snapshot",
         !.bits = UNION {r.index : r \in {r \in UNION {store.record[m] : m \in Mandate} :
                                            r.purpose = p.purpose}},
         !.blocked = {a \in Agent : store.block[a] # {}}])
  /\ UNCHANGED <<store, log, task, lastPublished, credentials, check, ops, faults, issued, dead, paid>>

(* Every linked mandate of a blocked agent: the blocks are read again. *)
CollectAgents(p) ==
  /\ p.at = "snapshot"
  /\ Moves(p, [p EXCEPT !.at = "signing", !.bits = @ \cup
         UNION {store.index[m] : m \in UNION {store.byAgent[a] :
                  a \in {a \in p.blocked : p.purpose \in store.block[a]}}}])
  /\ UNCHANGED <<store, log, task, lastPublished, credentials, check, ops, faults, issued, dead, paid>>

(* The signer may fail: the reservation is released, the floor unchanged. *)
SignFails(p) ==
  /\ p.at = "signing"
  /\ faults < MaxFaults /\ faults' = faults + 1
  /\ publishes' = publishes \ {p}
  /\ UNCHANGED <<store, log, task, lastPublished, credentials, check, ops, issued, dead, paid>>

Sign(p) ==
  /\ p.at = "signing"
  /\ Moves(p, [p EXCEPT !.at = "signed"])
  /\ lastPublished' = MaxOf({lastPublished, p.version})
  /\ UNCHANGED <<store, log, task, credentials, check, ops, faults, issued, dead, paid>>

(* The credential is returned once its row has landed. *)
LogPublish(p) ==
  /\ p.at = "signed"
  /\ publishes' = publishes \ {p}
  /\ \/ /\ log' = [log EXCEPT !.published = MaxOf({@, p.version})]
        /\ credentials' = credentials \cup
             {[version |-> p.version, purpose |-> p.purpose, bits |-> p.bits, knew |-> p.knew]}
        /\ UNCHANGED faults
     \/ /\ faults < MaxFaults /\ faults' = faults + 1
        /\ log' \in {log, [log EXCEPT !.published = MaxOf({@, p.version})]}
        /\ UNCHANGED credentials
  /\ UNCHANGED <<store, task, lastPublished, check, ops, issued, dead, paid>>

-----------------------------------------------------------------------------
(* createRegistryCheck(): first the agent, then the mandate; one check in   *)
(* progress.  `doomed` is history: what was dead when it began. *)

StartCheck(m, a) ==
  /\ check = NoCheck
  /\ check' = IF store.block[a] # {} THEN NoCheck
              ELSE [at |-> "mandate", mandate |-> m,
                    doomed |-> m \in dead.mandates \/ a \in dead.agents]
  /\ UNCHANGED <<store, log, task, lastPublished, publishes, credentials, ops, faults,
                 issued, dead, paid>>

EndCheck ==
  /\ check.at = "mandate"
  /\ paid' = IF store.record[check.mandate] = {} /\ check.doomed
               THEN paid \cup {check.mandate} ELSE paid
  /\ check' = NoCheck
  /\ UNCHANGED <<store, log, task, lastPublished, publishes, credentials, ops, faults,
                 issued, dead>>

(* A crash takes the memory with it; the start awaits hydrateFromLedger()   *)
(* before it serves anyone.  A row that was under way may still land. *)
PendingRow ==
  CASE task.op = "assign"  -> <<AssignedRow>>
    [] task.op = "killed"  -> <<KilledRow>>
    [] task.op = "blocked" -> <<BlockedRow>>
    [] task.op = "lifted"  -> <<task.row>>
    [] OTHER               -> <<>>

Crash ==
  /\ faults < MaxFaults /\ faults' = faults + 1
  /\ \E rows \in {log.rows, log.rows \o PendingRow},
        v \in {log.published} \cup {MaxOf({log.published, p.version}) : p \in
                                     {p \in publishes : p.at = "signed"}} :
       log' = [rows |-> rows, published |-> v]
  /\ store' = Restored(log'.rows)
  /\ lastPublished' = log.published
  /\ task' = Idle /\ publishes' = {} /\ check' = NoCheck
  /\ UNCHANGED <<credentials, ops, issued, dead, paid>>

QueueStep ==
  \/ RecordAssignment \/ AllocateForKill \/ RecordKill \/ LogKill
  \/ LogBlock \/ NextKill \/ LogLift

PublishStep(p) ==
  Snapshot(p) \/ CollectAgents(p) \/ SignFails(p) \/ Sign(p) \/ LogPublish(p)

QueueNext ==
  \/ \E m \in Mandate, a \in Agent : AssignIndex(m, a)
  \/ \E m \in Mandate, p \in Purpose : RevokeMandate(m, p)
  \/ \E a \in Agent, p \in Purpose : RevokeAgent(a, p)
  \/ \E m \in Mandate : UnsuspendMandate(m)
  \/ \E a \in Agent : UnblockAgent(a)
  \/ QueueStep
  \/ Crash

PublishNext ==
  \/ \E v \in Version, p \in Purpose : Publish(v, p)
  \/ \E p \in publishes : PublishStep(p)

CheckNext == EndCheck \/ \E m \in Mandate, a \in Agent : StartCheck(m, a)

RegistryNext == QueueNext \/ PublishNext \/ CheckNext

RegistrySpec == RegistryInit /\ [][RegistryNext]_regVars

-----------------------------------------------------------------------------
(* Correctness *)

(* "would make one revocation silently revoke the wrong mandate": an index *)
(* that assignIndex() returned is its mandate's for good and nobody else's, *)
(* across restarts, inline kills and a full list. *)
IndexOwned ==
  /\ \A m \in Mandate : issued[m] \subseteq store.index[m]
  /\ \A m, n \in Mandate : m # n => store.index[m] \cap store.index[n] = {}
  /\ \A m \in Mandate : \A r \in store.record[m] : r.index = store.index[m]

(* "Nothing spends under a revoked mandate again": a check that began after *)
(* a permanent kill of the mandate or its agent was acknowledged denies,    *)
(* whatever was suspended, lifted or retried since, and after a restart;    *)
(* for an agent even if its mandates' own kills failed. *)
DeadNeverPays == paid = {}

(* "two validly-signed credentials at the SAME version" are never returned, *)
(* by concurrent publishes or around a crash. *)
OneListPerVersion ==
  \A c, d \in credentials : c.version = d.version => c = d

(* What verifiers elsewhere rely on: a bit of a signed list is one mandate's *)
(* for good, and a version of a list is one list.                            *)
ListsHold == IndexOwned /\ OneListPerVersion
=============================================================================
