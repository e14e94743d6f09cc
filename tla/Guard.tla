------------------------------- MODULE Guard -------------------------------
(***************************************************************************)
(* The payment pipeline of @vaduno/guard: VadunoGuard.execute(),           *)
(* authorize(), settle(), releaseSpend(), freeze() and unfreeze(), for     *)
(* several guard processes that share one SpendLimiter and one             *)
(* ConsumeStore.                                                           *)
(*                                                                         *)
(* A call runs from one `await` to the next in one step.  What it reads of *)
(* shared state before an await may be stale after it.  Policy, risk,      *)
(* mandate terms, revocation and the human approver are arbitrary          *)
(* verdicts: what is modelled is what the guard does with them, in which   *)
(* order, and what it gives back on each exit.                             *)
(***************************************************************************)
EXTENDS SpendLimiter, ConsumeStore, Sequences

CONSTANTS
  Process,         \* guard processes
  Call,            \* calls of execute() and authorize()
  Workload,        \* the intents those calls may carry: Call -> Intent
  PolicyScope,     \* policy.id with policy.currency
  MistakenRelease, \* may releaseSpend() be called without proof?
  MaxFaults        \* bound on store failures and crashes

VARIABLES
  intent,           \* the intent of each call
  pc,               \* where each call is
  ours,             \* calls that took their reservation: ourReservation
  consumed,         \* calls that won a mandate use: consumedMandateId
  reply,            \* GuardResult.status, denials by their code
  line,             \* runExclusive(): the promise queue, its head runs
  frozen,           \* the local kill switch of each process
  limiterDegraded,  \* calls whose commit or release failed: limiterDegraded
  owner,            \* history: the call that took the reservation of an id
  moved,            \* history: calls whose rail moved the money
  stopped,          \* history: calls overtaken by a freeze still in force
  faults

callVars == <<intent, pc, ours, consumed, reply, line>>
historyVars == <<owner, moved, stopped>>
guardVars == <<limiterVars, consumeVars, callVars, frozen, limiterDegraded,
               historyVars, faults>>

-----------------------------------------------------------------------------
Intent == [process : Process, id : ReservationId \cap UseKey, amount : Int,
           key : KeyOption, digest : Digest, twoPhase : BOOLEAN,
           mandate : {{}} \cup {{m} : m \in Mandate}]

ASSUME GuardAssumption ==
  /\ Workload \subseteq [Call -> Intent]
  /\ PolicyScope \in Scope
  /\ MistakenRelease \in BOOLEAN
  /\ MaxFaults \in Nat

ProcessOf(a) == intent[a].process
Id(a) == intent[a].id
Amount(a) == intent[a].amount
Mandated(a) == intent[a].mandate # {}
Under(a, m) == intent[a].mandate = {m}

Waiting == {"new", "approval", "queued", "approved"}

(* inside commit(), the payment not yet decided *)
Gate == {"reserve", "lookup", "claim", "lastExit"}

(* the last freeze check is passed: the rail may run, or has run *)
Rail == {"starting", "rail", "authorized", "commit", "settleExecuted"}

(* the decision is taken and is being unwound *)
Exit == {"giveback", "settleFailed"}

Over == {"done", "crashed"}

Pc == Waiting \cup Gate \cup Rail \cup Exit \cup Over

Replay == {"replayed_executed", "replayed_failed", "replayed_unresolved"}

Reply == {"none", "denied", "frozen", "unbudgeted", "internal", "approval_rejected",
          "executed", "failed"} \cup Replay

GuardInit ==
  /\ LimiterInit
  /\ ConsumeInit
  /\ intent \in Workload
  /\ pc = [a \in Call |-> "new"]
  /\ ours = {} /\ consumed = {}
  /\ reply = [a \in Call |-> "none"]
  /\ line = [g \in Process |-> <<>>]
  /\ frozen = [g \in Process |-> FALSE]
  /\ limiterDegraded = {}
  /\ owner = [i \in ReservationId |-> {}]
  /\ moved = {} /\ stopped = {}
  /\ faults = 0

-----------------------------------------------------------------------------
(* Parts of steps *)

At(a, p) == pc[a] = p

Goto(a, p) == pc' = [pc EXCEPT ![a] = p]

Enqueue(a, p) ==
  Goto(a, p) /\ line' = [line EXCEPT ![ProcessOf(a)] = Append(@, a)]

(* Leaving the critical section hands it to the next call in line. *)
LeaveOnlyAfterRail(a) ==   \* mutant
  line' = [line EXCEPT ![ProcessOf(a)] =
             IF @ # <<>> /\ Head(@) = a /\ pc[a] \in Rail THEN Tail(@) ELSE @]

Leave(a) ==
  line' = [line EXCEPT ![ProcessOf(a)] =
             IF @ # <<>> /\ Head(@) = a THEN Tail(@) ELSE @]

Answer(a, r) == reply' = [reply EXCEPT ![a] = r]

Finish(a, r) == Goto(a, "done") /\ Answer(a, r) /\ Leave(a)

(* releaseIfOurs() comes first on an exit that took a reservation. *)
GiveBack(a, r) ==
  IF a \in ours THEN Goto(a, "giveback") /\ Answer(a, r) /\ UNCHANGED line
                ELSE Finish(a, r)

Fault == faults < MaxFaults /\ faults' = faults + 1

(* What the steps of a call leave alone. *)
Same == UNCHANGED <<intent, frozen, stopped>>

-----------------------------------------------------------------------------
(* run(): everything before the critical section *)

(* The audit write, the intent's shape and identity, hydration, the mandate *)
(* pre-flight, policy or risk may deny; a freeze in force does. *)
Receive(a) ==
  /\ At(a, "new")
  /\ \/ Finish(a, "denied")
     \/ frozen[ProcessOf(a)] /\ Finish(a, "frozen")
     \/ /\ ~frozen[ProcessOf(a)]
        /\ \/ Goto(a, "approval") /\ UNCHANGED line
           \/ Enqueue(a, "queued")
        /\ UNCHANGED reply
  /\ Same
  /\ UNCHANGED <<limiterVars, consumeVars, ours, consumed, limiterDegraded, owner, moved, faults>>

Approve(a) ==
  /\ At(a, "approval")
  /\ \/ Enqueue(a, "approved") /\ UNCHANGED reply
     \/ Finish(a, "approval_rejected")
     \/ Finish(a, "internal")
  /\ Same
  /\ UNCHANGED <<limiterVars, consumeVars, ours, consumed, limiterDegraded, owner, moved, faults>>

-----------------------------------------------------------------------------
(* commit(): the critical section of one process *)

(* Freeze, policy, risk and revocation again.  None of them changes the    *)
(* stores, so the awaits between them are one step. *)
EnterCommit(a) ==
  LET g == ProcessOf(a) IN
  /\ pc[a] \in {"queued", "approved"}
  /\ line[g] # <<>> /\ Head(line[g]) = a
  /\ IF frozen[g]
       THEN Finish(a, "frozen")
       ELSE \E stance \in {"allow", "require_approval", "deny"} :
              IF stance = "allow" \/ (stance = "require_approval" /\ At(a, "approved"))
                THEN Goto(a, "reserve") /\ UNCHANGED <<line, reply>>
                ELSE Finish(a, "denied")
  /\ Same
  /\ UNCHANGED <<limiterVars, consumeVars, ours, consumed, limiterDegraded, owner, moved, faults>>

RequestOf(a, ms) ==
  [id |-> Id(a), scope |-> PolicyScope, amount |-> Amount(a), ms |-> ms, key |-> intent[a].key]

TakeReservationCheckThenAct(a) ==   \* mutant
  /\ At(a, "reserve")
  /\ records' = records \cup {RequestOf(a, clock)}
  /\ status' = [status EXCEPT ![Id(a)] = "reserved"]
  /\ owner' = [owner EXCEPT ![Id(a)] = {a}]
  /\ Goto(a, IF Mandated(a) THEN "lookup" ELSE "lastExit")
  /\ ours' = ours \cup {a}
  /\ UNCHANGED <<pruned, clock, line, reply, faults>>
  /\ Same
  /\ UNCHANGED <<consumeVars, consumed, limiterDegraded, moved>>

(* A call without a mandate takes a replayed reservation for a replay of   *)
(* itself; with one, the consume registry decides. *)
TakeReservation(a) ==
  /\ At(a, "reserve")
  /\ \E ms \in (clock - MaxWait)..clock :
       LET req == RequestOf(a, ms) IN
       \/ /\ ReserveRefused(req)
          /\ Finish(a, "denied")
          /\ UNCHANGED <<ours, owner, faults>>
       \/ /\ ReserveReplayed(req)
          /\ IF Mandated(a)
               THEN Goto(a, "lookup") /\ UNCHANGED <<line, reply>>
               ELSE Finish(a, IF status[Id(a)] = "committed" THEN "replayed_executed"
                                                            ELSE "replayed_unresolved")
          /\ UNCHANGED <<ours, owner, faults>>
       \/ /\ ReserveGranted(req)
          /\ owner' = [owner EXCEPT ![Id(a)] = {a}]
          /\ \/ /\ Goto(a, IF Mandated(a) THEN "lookup" ELSE "lastExit")
                /\ ours' = ours \cup {a}
                /\ UNCHANGED <<line, reply, faults>>
             \/ (* the store answers with an error after the insert *)
                /\ Fault
                /\ Finish(a, "internal")
                /\ UNCHANGED ours
  /\ Same
  /\ UNCHANGED <<consumeVars, consumed, limiterDegraded, moved>>

(* replayOutcome(), and what commit() answers to it *)
ReplayUseAnyPayment(a, m) ==   \* mutant
  LET c == claims[m][Id(a)] IN
  GiveBack(a, IF c.status = "executed" THEN "replayed_executed"
              ELSE IF c.status = "failed" THEN "replayed_failed"
              ELSE "replayed_unresolved")

ReplayUse(a, m) ==
  LET c == claims[m][Id(a)] IN
  GiveBack(a, IF c.digest # intent[a].digest THEN "denied"
              ELSE IF c.status = "executed" THEN "replayed_executed"
              ELSE IF c.status = "failed" THEN "replayed_failed"
              ELSE "replayed_unresolved")

(* consumeOnce(), up to the claim: the replay lookup and checkState() *)
LookUpUse(a) ==
  /\ At(a, "lookup")
  /\ \E m \in intent[a].mandate :
       IF Claimed(m, Id(a))
         THEN ReplayUse(a, m)
         ELSE \/ Goto(a, "claim") /\ UNCHANGED <<line, reply>>
              \/ GiveBack(a, "denied")
  /\ Same
  /\ UNCHANGED <<limiterVars, consumeVars, ours, consumed, limiterDegraded, owner, moved, faults>>

(* consumeOnce(), the claim and its ledger row; a fresh use without a      *)
(* reservation of its own is refused: INTENT_ID_NOT_BUDGETED. *)
ConsumeUseUnbudgeted(a) ==   \* mutant
  /\ At(a, "claim")
  /\ \E m \in intent[a].mandate :
       /\ ClaimWon(m, Id(a), intent[a].digest)
       /\ consumed' = consumed \cup {a}
       /\ Goto(a, "lastExit")
       /\ UNCHANGED <<line, reply, faults>>
  /\ Same
  /\ UNCHANGED <<limiterVars, ours, limiterDegraded, owner, moved>>

ConsumeUse(a) ==
  /\ At(a, "claim")
  /\ \E m \in intent[a].mandate :
       \/ /\ ClaimDuplicate(m, Id(a))
          /\ ReplayUse(a, m)
          /\ UNCHANGED <<consumed, faults>>
       \/ /\ ClaimExhausted(m, Id(a))
          /\ GiveBack(a, "denied")
          /\ UNCHANGED <<consumed, faults>>
       \/ /\ ClaimWon(m, Id(a), intent[a].digest)
          /\ \/ /\ consumed' = consumed \cup {a}
                /\ IF a \in ours
                     THEN Goto(a, "lastExit") /\ UNCHANGED reply
                     ELSE Goto(a, "settleFailed") /\ Answer(a, "unbudgeted")
                /\ UNCHANGED <<line, faults>>
             \/ (* the claim landed, its answer or its ledger row did not *)
                /\ Fault
                /\ Finish(a, "internal")
                /\ UNCHANGED consumed
  /\ Same
  /\ UNCHANGED <<limiterVars, ours, limiterDegraded, owner, moved>>

(* The last freeze check before execution_started. *)
LastExit(a) ==
  /\ At(a, "lastExit")
  /\ IF frozen[ProcessOf(a)]
       THEN GiveBack(a, "frozen")
       ELSE Goto(a, "starting") /\ UNCHANGED <<line, reply>>
  /\ Same
  /\ UNCHANGED <<limiterVars, consumeVars, ours, consumed, limiterDegraded, owner, moved, faults>>

(* releaseBestEffort() *)
ReleaseBestEffort(a) ==
  /\ At(a, "giveback")
  /\ \/ Release(Id(a)) /\ UNCHANGED <<limiterDegraded, faults>>
     \/ /\ Fault
        /\ Release(Id(a)) \/ UNCHANGED limiterVars
        /\ limiterDegraded' = limiterDegraded \cup {a}
  /\ IF reply[a] = "frozen" /\ a \in consumed
       THEN Goto(a, "settleFailed") /\ UNCHANGED line
       ELSE Goto(a, "done") /\ Leave(a)
  /\ Same
  /\ UNCHANGED <<consumeVars, ours, consumed, reply, owner, moved>>

(* settleBestEffort(..., "failed"): a payment that was refused after its   *)
(* use was won, or whose rail threw. *)
SettleFailed(a) ==
  /\ At(a, "settleFailed")
  /\ \E m \in intent[a].mandate :
       \/ SettleUse(m, Id(a), "failed") /\ UNCHANGED faults
       \/ Fault /\ UNCHANGED consumeVars
  /\ Goto(a, "done") /\ Leave(a)
  /\ Same
  /\ UNCHANGED <<limiterVars, ours, consumed, reply, limiterDegraded, owner, moved>>

(* A hard append or a store call that throws before it did anything: run() *)
(* catches it and denies.  What was already taken stays taken. *)
CaughtByRun(a) ==
  /\ pc[a] \in {"reserve", "lookup", "claim", "starting"}
  /\ Fault
  /\ Finish(a, "internal")
  /\ Same
  /\ UNCHANGED <<limiterVars, consumeVars, ours, consumed, limiterDegraded, owner, moved>>

(* execution_started; a two-phase call leaves the critical section. *)
Start(a) ==
  /\ At(a, "starting")
  /\ IF intent[a].twoPhase
       THEN Goto(a, "authorized") /\ Leave(a)
       ELSE Goto(a, "rail") /\ UNCHANGED line
  /\ Same
  /\ UNCHANGED <<limiterVars, consumeVars, ours, consumed, reply, limiterDegraded, owner, moved,
                 faults>>

(* The executor, or the caller of authorize() who reports with settle().   *)
(* A failure may have moved the money all the same. *)
RunRail(a) ==
  /\ pc[a] \in {"rail", "authorized"}
  /\ \/ /\ moved' = moved \cup {a}
        /\ Goto(a, "commit")
        /\ UNCHANGED <<line, reply>>
     \/ /\ moved' \in {moved, moved \cup {a}}
        /\ IF a \in consumed
             THEN Goto(a, "settleFailed") /\ Answer(a, "failed") /\ UNCHANGED line
             ELSE Finish(a, "failed")
  /\ Same
  /\ UNCHANGED <<limiterVars, consumeVars, ours, consumed, limiterDegraded, owner, faults>>

(* commitBestEffort() *)
CommitBestEffort(a) ==
  /\ At(a, "commit")
  /\ \/ Commit(Id(a)) /\ UNCHANGED <<limiterDegraded, faults>>
     \/ /\ Fault
        /\ Commit(Id(a)) \/ UNCHANGED limiterVars
        /\ limiterDegraded' = limiterDegraded \cup {a}
  /\ IF a \in consumed
       THEN Goto(a, "settleExecuted") /\ UNCHANGED <<line, reply>>
       ELSE Finish(a, "executed")
  /\ Same
  /\ UNCHANGED <<consumeVars, ours, consumed, owner, moved>>

SettleExecuted(a) ==
  /\ At(a, "settleExecuted")
  /\ \E m \in intent[a].mandate :
       \/ SettleUse(m, Id(a), "executed") /\ UNCHANGED faults
       \/ Fault /\ UNCHANGED consumeVars
  /\ Finish(a, "executed")
  /\ Same
  /\ UNCHANGED <<limiterVars, ours, consumed, limiterDegraded, owner, moved>>

-----------------------------------------------------------------------------
(* The operator and the environment *)

(* releaseSpend(), called by someone who can prove that the call holding   *)
(* the reservation is over and moved no money - or by mistake. *)
ReleaseProven(i) == \A a \in owner[i] : pc[a] \in Over /\ a \notin moved

ReleaseSpend(i) ==
  /\ MistakenRelease \/ ReleaseProven(i)
  /\ Release(i)
  /\ UNCHANGED <<consumeVars, callVars, frozen, limiterDegraded, historyVars, faults>>

Freeze(g) ==
  /\ ~frozen[g]
  /\ frozen' = [frozen EXCEPT ![g] = TRUE]
  /\ stopped' = stopped \cup
       {a \in Call : ProcessOf(a) = g /\ pc[a] \in Waiting \cup Gate}
  /\ UNCHANGED <<limiterVars, consumeVars, callVars, limiterDegraded, owner, moved, faults>>

Unfreeze(g) ==
  /\ frozen[g]
  /\ frozen' = [frozen EXCEPT ![g] = FALSE]
  /\ stopped' = {a \in stopped : ProcessOf(a) # g}
  /\ UNCHANGED <<limiterVars, consumeVars, callVars, limiterDegraded, owner, moved, faults>>

(* A two-phase payment is out of the process that authorized it. *)
Detached(a) ==
  intent[a].twoPhase /\ (pc[a] \in Rail \ {"starting"} \/ reply[a] = "failed")

(* The calls of a process die with it; a rail that was running may still   *)
(* have moved the money.  The local freeze is in memory. *)
Crash(g) ==
  LET dead == {a \in Call : ProcessOf(a) = g /\ pc[a] \notin {"new"} \cup Over /\ ~Detached(a)} IN
  /\ dead # {}
  /\ Fault
  /\ pc' = [a \in Call |-> IF a \in dead THEN "crashed" ELSE pc[a]]
  /\ line' = [line EXCEPT ![g] = <<>>]
  /\ moved' \in {moved, moved \cup {a \in dead : At(a, "rail")}}
  /\ frozen' = [frozen EXCEPT ![g] = FALSE]
  /\ stopped' = {a \in stopped : ProcessOf(a) # g}
  /\ UNCHANGED <<limiterVars, consumeVars, intent, ours, consumed, reply, limiterDegraded, owner>>

GuardTick ==
  /\ Tick
  /\ UNCHANGED <<consumeVars, callVars, frozen, limiterDegraded, historyVars, faults>>

(* The steps of a call inside the critical section, and of a settlement. *)
CallStep(a) ==
  \/ EnterCommit(a) \/ TakeReservation(a) \/ LookUpUse(a) \/ ConsumeUse(a) \/ LastExit(a)
  \/ ReleaseBestEffort(a) \/ SettleFailed(a) \/ Start(a) \/ CommitBestEffort(a)
  \/ SettleExecuted(a)

GuardNext ==
  \/ \E a \in Call : Receive(a) \/ Approve(a) \/ CallStep(a) \/ RunRail(a) \/ CaughtByRun(a)
  \/ \E i \in ReservationId : ReleaseSpend(i)
  \/ \E g \in Process : Freeze(g) \/ Unfreeze(g) \/ Crash(g)
  \/ GuardTick

GuardSpec == GuardInit /\ [][GuardNext]_guardVars

(* The event loop runs what is enabled, and an executor returns; a human   *)
(* or the caller of authorize() may never answer. *)
GuardFairness ==
  \A a \in Call : /\ WF_guardVars(CallStep(a))
                  /\ WF_guardVars(At(a, "rail") /\ RunRail(a))

FairGuardSpec == GuardSpec /\ GuardFairness

-----------------------------------------------------------------------------
(* Correctness *)

GuardTypeOK ==
  /\ intent \in Workload
  /\ pc \in [Call -> Pc]
  /\ ours \subseteq Call /\ consumed \subseteq Call
  /\ reply \in [Call -> Reply]
  /\ line \in [Process -> Seq(Call)]
  /\ frozen \in [Process -> BOOLEAN]
  /\ limiterDegraded \subseteq Call
  /\ owner \in [ReservationId -> {{}} \cup {{a} : a \in Call}]
  /\ moved \subseteq Call /\ stopped \subseteq Call
  /\ faults \in 0..MaxFaults

(* "NOTHING EXECUTES ON A RESERVATION IT DID NOT TAKE": from the last      *)
(* freeze check on, and for ever once money moved, the call's own amount   *)
(* is in the limiter under its id - so no two calls of one id move money,  *)
(* whatever processes, mandates, retries, crashes and store errors do. *)
RailIsBudgeted ==
  \A a \in Call : (pc[a] \in Rail \/ a \in moved) =>
    /\ owner[Id(a)] = {a}
    /\ \E r \in records : r.id = Id(a) /\ r.amount = Amount(a)

(* The money that really moved, summed over calls and not over records,    *)
(* stays within every cap of the policy; a payment the limiter forgot is   *)
(* in every window. *)
MovedWithinCap ==
  \A w \in WindowsOf[PolicyScope] : \A c \in w.capMinor : \A t \in 0..clock :
    LET inside == {a \in moved : \A r \in Spent :
                     r.id = Id(a) => t - w.windowMs < r.ms /\ r.ms <= t}
    IN (w.dimension = "scope" /\ inside # {}) =>
         Cardinality({u \in inside \X (1..MaxSafeInteger) : u[2] <= Amount(u[1])}) <= c

(* The rail runs at most once per (mandate, intent id) and at most maxUses *)
(* times per mandate. *)
RailWithinMandate ==
  \A m \in Mandate :
    LET paid == {a \in moved : Under(a, m)} IN
    /\ Cardinality(paid) <= MaxUses[m]
    /\ \A a, b \in paid : Id(a) = Id(b) => a = b

(* A denied or replayed call keeps no budget: what it reserved is released *)
(* unless the limiter failed; and "denials must never burn a mandate use". *)
RefusedHoldsNothing ==
  \A a \in Call :
    (At(a, "done") /\ reply[a] \in {"denied", "frozen", "unbudgeted"} \cup Replay) =>
      /\ a \in limiterDegraded \/ status[Id(a)] = "none" \/ owner[Id(a)] # {a}
      /\ a \in consumed => reply[a] \in {"frozen", "unbudgeted"}

(* A replay never invents an outcome: "executed" is only reported when a   *)
(* call with that id, mandate and payment did move the money (or the       *)
(* limiter knew the id as spent from before), "failed" only when the use   *)
(* it stands for was not reported executed. *)
ReplayTruthful ==
  \A a \in Call :
    /\ reply[a] = "replayed_executed" =>
         \/ \E b \in moved : /\ Id(b) = Id(a)
                             /\ Mandated(a) => /\ intent[b].mandate = intent[a].mandate
                                               /\ intent[b].digest = intent[a].digest
         \/ ~Mandated(a) /\ \E r \in Legacy : r.id = Id(a)
    /\ reply[a] = "replayed_failed" =>
         ~ \E b \in Call : /\ Id(b) = Id(a) /\ intent[b].mandate = intent[a].mandate
                           /\ reply[b] = "executed"

(* A freeze that lands before a call's last check, and is still in force,  *)
(* stops that call: freeze() does not wait for the critical section. *)
FreezeHonoured == \A a \in stopped : pc[a] \notin Rail /\ a \notin moved

(* "a SUCCESSFUL execution's spend is committed": and stays counted. *)
ExecutedIsCommitted ==
  \A a \in Call : reply[a] = "executed" =>
    status[Id(a)] = "committed" \/ a \in limiterDegraded

(* Whoever reaches the rail has its own reservation, a use of its mandate  *)
(* and no freeze against it, and what moved is within every cap - with two *)
(* processes, retries, lost answers of the stores, crashes and releases.   *)
RailIsSafe == RailIsBudgeted /\ MovedWithinCap /\ RailWithinMandate /\ FreezeHonoured

(* What a caller is told agrees with what the limiter, the registry and    *)
(* the rail did, for denials, replays and executions alike. *)
AnswersMatchBooks == RefusedHoldsNothing /\ ReplayTruthful /\ ExecutedIsCommitted

(* commit() uses both stores as their contracts say: each of its steps is  *)
(* a step of the limiter and of the registry, or leaves them alone. *)
UsesStoresAsSpecified == LimiterSpec /\ ConsumeSpec

(* "A retry - same mandate, same intent id - never reaches here": no call  *)
(* is refused as INTENT_ID_NOT_BUDGETED on account of the same payment. *)
RetryNeverUnbudgeted ==
  \A a, b \in Call : (reply[a] = "unbudgeted" /\ owner[Id(a)] = {b}) =>
    ~ (intent[b].mandate = intent[a].mandate /\ intent[b].digest = intent[a].digest)

(* Every call that is in line leaves the critical section. *)
EveryCallLeaves ==
  \A a \in Call : pc[a] \in {"queued", "approved"} ~> pc[a] \in {"authorized"} \cup Over
=============================================================================
