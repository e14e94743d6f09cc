--------------------------- MODULE FreezeHydrate ---------------------------
(***************************************************************************)
(* The kill switch of VadunoGuard and its durability: freeze(),            *)
(* unfreeze(), hydrateFromLedger(), the hydration gate of run() and the    *)
(* freeze checks of commit(), for guard processes that share one ledger    *)
(* and restart.                                                            *)
(*                                                                         *)
(* The flag flips at once; its ledger row is appended later, or never.     *)
(* hydrateFromLedger() runs in the promise queue of the payments, in four  *)
(* steps: it waits for the rows issued before it, verifies, reads, and     *)
(* applies what it read.  Flips may fall between any two of them.          *)
(***************************************************************************)
EXTENDS Integers, Sequences, FiniteSets

CONSTANTS
  Process,           \* guard instances; a restart makes a fresh one
  Payment,           \* calls of execute()
  HostOf,            \* the process of each payment
  RequireHydration,  \* the option of that name
  MaxFlips,          \* bound on freezes and unfreezes of a process
  MaxFaults          \* bound on ledger failures and crashes

VARIABLES
  ledger,         \* the guard_frozen and guard_unfrozen rows, in order
  frozen,         \* the in-memory flag
  freezeEpoch,    \* how often the flag was flipped in this instance
  freezeWrites,   \* rows issued and not yet settled, oldest first
  freezeDegraded, \* isFreezeDegraded()
  hydrated,
  hydrateFailed,
  critical,       \* runExclusive(): payments and hydrations in line
  hydrate,        \* the hydration of each process
  pc,             \* where each payment is
  latest,         \* history: the operator's latest flip and whether its row landed
  flips,
  faults

flagVars == <<frozen, freezeEpoch, freezeWrites, freezeDegraded, latest, flips>>
hydrationVars == <<hydrated, hydrateFailed, hydrate>>
freezeVars == <<ledger, flagVars, hydrationVars, critical, pc, faults>>

Task == Payment \cup {"hydrate"}

ASSUME FreezeAssumption ==
  /\ "hydrate" \notin Payment
  /\ HostOf \in [Payment -> Process]
  /\ RequireHydration \in BOOLEAN
  /\ MaxFlips \in Nat /\ MaxFaults \in Nat

-----------------------------------------------------------------------------
Row == [by : Process, freeze : BOOLEAN]

Idle == [at |-> "idle", epochAtCall |-> 0, waits |-> 0, snapshot |-> FALSE]

FreezeInit ==
  /\ ledger = <<>>
  /\ frozen = [g \in Process |-> FALSE]
  /\ freezeEpoch = [g \in Process |-> 0]
  /\ freezeWrites = [g \in Process |-> <<>>]
  /\ freezeDegraded = [g \in Process |-> FALSE]
  /\ hydrated = [g \in Process |-> FALSE]
  /\ hydrateFailed = [g \in Process |-> FALSE]
  /\ critical = [g \in Process |-> <<>>]
  /\ hydrate = [g \in Process |-> Idle]
  /\ pc = [p \in Payment |-> "new"]
  /\ latest = [g \in Process |-> [freeze |-> FALSE, durable |-> TRUE, live |-> FALSE]]
  /\ flips = [g \in Process |-> 0]
  /\ faults = 0

Fault == faults < MaxFaults /\ faults' = faults + 1

InLine(g, t) == critical[g] # <<>> /\ Head(critical[g]) = t

Join(g, t) == critical' = [critical EXCEPT ![g] = Append(@, t)]

HandOn(g, t) == InLine(g, t) /\ critical' = [critical EXCEPT ![g] = Tail(@)]

-----------------------------------------------------------------------------
(* The switch *)

Flip(g, freeze) ==
  /\ flips[g] < MaxFlips
  /\ frozen' = [frozen EXCEPT ![g] = freeze]
  /\ freezeEpoch' = [freezeEpoch EXCEPT ![g] = @ + 1]
  /\ freezeWrites' = [freezeWrites EXCEPT ![g] = Append(@, [by |-> g, freeze |-> freeze])]
  /\ latest' = [latest EXCEPT ![g] = [freeze |-> freeze, durable |-> FALSE, live |-> TRUE]]
  /\ flips' = [flips EXCEPT ![g] = @ + 1]
  /\ UNCHANGED <<ledger, freezeDegraded, hydrationVars, critical, pc, faults>>

(* The oldest row settles: it lands, it fails, or it lands and its answer  *)
(* is lost.  A hydration waits for the rows issued before it. *)
Settled(g) ==
  /\ freezeWrites' = [freezeWrites EXCEPT ![g] = Tail(@)]
  /\ hydrate' = [hydrate EXCEPT ![g].waits = IF @ > 0 THEN @ - 1 ELSE 0]

Durable(g) ==
  latest' = [latest EXCEPT ![g].durable = @ \/ Len(freezeWrites[g]) = 1]

LandRowUnderMutex(g) ==   \* mutant
  /\ freezeWrites[g] # <<>> /\ critical[g] = <<>>
  /\ ledger' = Append(ledger, Head(freezeWrites[g]))
  /\ Durable(g) /\ Settled(g)
  /\ UNCHANGED <<frozen, freezeEpoch, freezeDegraded, flips, hydrated, hydrateFailed, critical,
                 pc, faults>>

LandRow(g) ==
  /\ freezeWrites[g] # <<>>
  /\ ledger' = Append(ledger, Head(freezeWrites[g]))
  /\ Durable(g) /\ Settled(g)
  /\ UNCHANGED <<frozen, freezeEpoch, freezeDegraded, flips, hydrated, hydrateFailed, critical,
                 pc, faults>>

LoseRow(g) ==
  /\ freezeWrites[g] # <<>>
  /\ Fault
  /\ ledger' \in {ledger, Append(ledger, Head(freezeWrites[g]))}
  /\ freezeDegraded' = [freezeDegraded EXCEPT ![g] = TRUE]
  /\ Settled(g)
  /\ UNCHANGED <<frozen, freezeEpoch, latest, flips, hydrated, hydrateFailed, critical, pc>>

-----------------------------------------------------------------------------
(* hydrateFromLedger() *)

CallHydrate(g) ==
  /\ hydrate[g].at = "idle" /\ ~hydrated[g]
  /\ hydrate' = [hydrate EXCEPT ![g] = [Idle EXCEPT !.at = "queued",
                                                    !.epochAtCall = freezeEpoch[g]]]
  /\ Join(g, "hydrate")
  /\ UNCHANGED <<ledger, flagVars, hydrated, hydrateFailed, pc, faults>>

(* await this.freezeWrites: the latest row issued so far, so all of them. *)
BeginRestore(g) ==
  /\ InLine(g, "hydrate") /\ hydrate[g].at = "queued"
  /\ hydrate' = [hydrate EXCEPT ![g].at = "waiting", ![g].waits = Len(freezeWrites[g])]
  /\ UNCHANGED <<ledger, flagVars, hydrated, hydrateFailed, critical, pc, faults>>

Verify(g) ==
  /\ hydrate[g].at = "waiting" /\ hydrate[g].waits = 0
  /\ hydrate' = [hydrate EXCEPT ![g].at = "verified"]
  /\ UNCHANGED <<ledger, flagVars, hydrated, hydrateFailed, critical, pc, faults>>

(* The last guard_frozen or guard_unfrozen row, whoever wrote it. *)
ReadRows(g) ==
  /\ hydrate[g].at = "verified"
  /\ hydrate' = [hydrate EXCEPT ![g].at = "read",
                   ![g].snapshot = ledger # <<>> /\ ledger[Len(ledger)].freeze]
  /\ UNCHANGED <<ledger, flagVars, hydrated, hydrateFailed, critical, pc, faults>>

(* Verification fails, or the ledger cannot be read. *)
FailHydrate(g) ==
  /\ hydrate[g].at \in {"waiting", "verified"} /\ hydrate[g].waits = 0
  /\ Fault
  /\ hydrateFailed' = [hydrateFailed EXCEPT ![g] = TRUE]
  /\ hydrate' = [hydrate EXCEPT ![g] = Idle]
  /\ HandOn(g, "hydrate")
  /\ UNCHANGED <<ledger, flagVars, hydrated, pc>>

(* The epoch stamp, and the merge toward frozen. *)
ApplyIgnoringEpoch(g) ==   \* mutant
  /\ hydrate[g].at = "read"
  /\ frozen' = [frozen EXCEPT ![g] = hydrate[g].snapshot \/ @]
  /\ hydrated' = [hydrated EXCEPT ![g] = TRUE]
  /\ hydrateFailed' = [hydrateFailed EXCEPT ![g] = FALSE]
  /\ hydrate' = [hydrate EXCEPT ![g] = Idle]
  /\ HandOn(g, "hydrate")
  /\ UNCHANGED <<ledger, freezeEpoch, freezeWrites, freezeDegraded, latest, flips, pc, faults>>

Apply(g) ==
  /\ hydrate[g].at = "read"
  /\ frozen' = [frozen EXCEPT ![g] =
       IF freezeEpoch[g] = hydrate[g].epochAtCall THEN hydrate[g].snapshot \/ @ ELSE @]
  /\ hydrated' = [hydrated EXCEPT ![g] = TRUE]
  /\ hydrateFailed' = [hydrateFailed EXCEPT ![g] = FALSE]
  /\ hydrate' = [hydrate EXCEPT ![g] = Idle]
  /\ HandOn(g, "hydrate")
  /\ UNCHANGED <<ledger, freezeEpoch, freezeWrites, freezeDegraded, latest, flips, pc, faults>>

-----------------------------------------------------------------------------
(* Payments *)

GateOpenUnhydrated(g) == ~hydrateFailed[g] /\ ~frozen[g]   \* mutant

GateOpen(g) == ~hydrateFailed[g] /\ (RequireHydration => hydrated[g]) /\ ~frozen[g]

Goto(p, there) == pc' = [pc EXCEPT ![p] = there]

(* run(): the gates, and perhaps an approval to wait for *)
Admit(p) ==
  LET g == HostOf[p] IN
  /\ pc[p] = "new"
  /\ IF GateOpen(g)
       THEN \/ Goto(p, "approval") /\ UNCHANGED critical
            \/ Goto(p, "queued") /\ Join(g, p)
       ELSE Goto(p, "denied") /\ UNCHANGED critical
  /\ UNCHANGED <<ledger, flagVars, hydrationVars, faults>>

Approved(p) ==
  /\ pc[p] = "approval"
  /\ Goto(p, "queued") /\ Join(HostOf[p], p)
  /\ UNCHANGED <<ledger, flagVars, hydrationVars, faults>>

(* commit(): its first check, its last one, and the rail between that and  *)
(* the end of the critical section *)
Check(p, from, to) ==
  LET g == HostOf[p] IN
  /\ InLine(g, p) /\ pc[p] = from
  /\ IF frozen[g] THEN Goto(p, "denied") /\ HandOn(g, p)
                  ELSE Goto(p, to) /\ UNCHANGED critical
  /\ UNCHANGED <<ledger, flagVars, hydrationVars, faults>>

LeaveRail(p) ==
  /\ pc[p] = "rail"
  /\ Goto(p, "done") /\ HandOn(HostOf[p], p)
  /\ UNCHANGED <<ledger, flagVars, hydrationVars, faults>>

-----------------------------------------------------------------------------
(* A restart: what was in memory is gone; the row being written may land.  *)
Crash(g) ==
  /\ Fault
  /\ \/ ledger' = ledger
     \/ freezeWrites[g] # <<>> /\ ledger' = Append(ledger, Head(freezeWrites[g]))
  /\ latest' = [latest EXCEPT ![g].live = FALSE]
  /\ frozen' = [frozen EXCEPT ![g] = FALSE]
  /\ freezeEpoch' = [freezeEpoch EXCEPT ![g] = 0]
  /\ freezeWrites' = [freezeWrites EXCEPT ![g] = <<>>]
  /\ freezeDegraded' = [freezeDegraded EXCEPT ![g] = FALSE]
  /\ hydrated' = [hydrated EXCEPT ![g] = FALSE]
  /\ hydrateFailed' = [hydrateFailed EXCEPT ![g] = FALSE]
  /\ hydrate' = [hydrate EXCEPT ![g] = Idle]
  /\ critical' = [critical EXCEPT ![g] = <<>>]
  /\ pc' = [p \in Payment |->
              IF HostOf[p] = g /\ pc[p] \in {"approval", "queued", "deciding", "rail"}
                THEN "crashed" ELSE pc[p]]
  /\ UNCHANGED flips

HydrateStep(g) == BeginRestore(g) \/ Verify(g) \/ ReadRows(g) \/ Apply(g)

PaymentStep(p) ==
  Check(p, "queued", "deciding") \/ Check(p, "deciding", "rail") \/ LeaveRail(p)

FreezeNext ==
  \/ \E g \in Process :
       \/ \E b \in BOOLEAN : Flip(g, b)
       \/ LandRow(g) \/ LoseRow(g)
       \/ CallHydrate(g) \/ HydrateStep(g) \/ FailHydrate(g)
       \/ Crash(g)
  \/ \E p \in Payment : Admit(p) \/ Approved(p) \/ PaymentStep(p)

FreezeSpec == FreezeInit /\ [][FreezeNext]_freezeVars

(* The event loop, a ledger that answers, and executors that return. *)
FreezeFairness ==
  /\ \A g \in Process : WF_freezeVars(LandRow(g)) /\ WF_freezeVars(HydrateStep(g))
  /\ \A p \in Payment : WF_freezeVars(PaymentStep(p))

-----------------------------------------------------------------------------
(* Correctness *)

Hydration == [at : {"idle", "queued", "waiting", "verified", "read"},
              epochAtCall : Nat, waits : Nat, snapshot : BOOLEAN]

FieldsTyped ==
  /\ ledger \in Seq(Row)
  /\ frozen \in [Process -> BOOLEAN]
  /\ freezeEpoch \in [Process -> Nat]
  /\ freezeWrites \in [Process -> Seq(Row)]
  /\ freezeDegraded \in [Process -> BOOLEAN]
  /\ hydrated \in [Process -> BOOLEAN] /\ hydrateFailed \in [Process -> BOOLEAN]
  /\ critical \in [Process -> Seq(Task)]
  /\ hydrate \in [Process -> Hydration]
  /\ pc \in [Payment -> {"new", "approval", "queued", "deciding", "rail", "done", "denied",
                         "crashed"}]
  /\ latest \in [Process -> [freeze : BOOLEAN, durable : BOOLEAN, live : BOOLEAN]]
  /\ flips \in [Process -> 0..MaxFlips] /\ faults \in 0..MaxFaults

WaitsArePending == \A g \in Process : hydrate[g].waits <= Len(freezeWrites[g])

(* The type invariant; a hydration never waits for a row that is gone. *)
FreezeTypeOK == FieldsTyped /\ WaitsArePending

(* "the LATEST synchronous flip is always the truth", toward frozen: no    *)
(* hydration, whatever it read and whatever was lost, lifts a freeze that  *)
(* the operator issued on this instance. *)
LiveFreezeStands ==
  \A g \in Process : latest[g].live /\ latest[g].freeze => frozen[g]

(* The lifts of g that landed come after every freeze that landed. *)
Lifted(g) ==
  \A i \in 1..Len(ledger) : ledger[i].freeze =>
     \E j \in i..Len(ledger) : ledger[j].by = g /\ ~ledger[j].freeze

(* ... and toward unfrozen: a hydration does not resurrect a freeze that   *)
(* was lifted on this instance, once the lift is on record behind it. *)
NoResurrection ==
  \A g \in Process :
    latest[g].live /\ ~latest[g].freeze /\ Lifted(g) => ~frozen[g]

(* "a restart honours it": with requireHydration no payment reaches the    *)
(* rail of a process whose operator's latest word, on record, was freeze - *)
(* across restarts, failed hydrations and approvals that took long. *)
RecordedFreezeStops ==
  [][\A p \in Payment : (pc[p] # "rail" /\ pc'[p] = "rail") =>
       ~ (latest[HostOf[p]].freeze /\ latest[HostOf[p]].durable)]_freezeVars

(* What the operator said last on this instance is the state of its flag.  *)
FreezesHold == LiveFreezeStands /\ NoResurrection

(* "Lock-free waits on lock-free writes: no cycle with the mutex": a       *)
(* hydration that was called returns. *)
HydrateReturns ==
  \A g \in Process : hydrate[g].at = "queued" ~> hydrate[g].at = "idle"
=============================================================================
