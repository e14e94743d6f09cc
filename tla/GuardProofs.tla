---------------------------- MODULE GuardProofs -----------------------------
(***************************************************************************)
(* The payment pipeline, in three parts that build on each other.  First,  *)
(* the pipeline uses the two stores only through their operations, every   *)
(* payment that reaches the rail is paid for by its own reservation, and a *)
(* freeze in force is honoured.  Second, the money behind the guard: what  *)
(* its rails moved is within the caps of the policy and the uses of each   *)
(* mandate.  Third, what the guard tells its callers: denials hold         *)
(* nothing, replays are truthful, executed payments stay committed.        *)
(***************************************************************************)
EXTENDS Guard, StoreProofs

(* The head of a line leaves, or nobody does. *)
LEMMA LeaveType ==
  ASSUME GuardTypeOK, NEW a \in Call, Leave(a)
  PROVE  line' \in [Process -> Seq(Call)]
<1> DEFINE q == line[ProcessOf(a)]
           n == IF q # <<>> /\ Head(q) = a THEN Tail(q) ELSE q
<1>1. line' = [line EXCEPT ![ProcessOf(a)] = n]
  BY DEF Leave
<1>2. ProcessOf(a) \in Process
  BY GuardAssumption DEF GuardTypeOK, Intent, ProcessOf
<1>3. q \in Seq(Call)
  BY <1>2 DEF GuardTypeOK
<1>4. n \in Seq(Call)
  BY <1>3
<1>5. QED BY <1>1, <1>4 DEF GuardTypeOK

(* A call joins the end of its process's line. *)
LEMMA EnqueueType ==
  ASSUME GuardTypeOK, NEW a \in Call, NEW p, Enqueue(a, p)
  PROVE  line' \in [Process -> Seq(Call)]
<1>1. ProcessOf(a) \in Process
  BY GuardAssumption DEF GuardTypeOK, Intent, ProcessOf
<1>2. Append(line[ProcessOf(a)], a) \in Seq(Call)
  BY <1>1 DEF GuardTypeOK
<1>3. QED BY <1>2 DEF Enqueue, GuardTypeOK

(* The two ways a step ends a call. *)
LEMMA FinishType ==
  ASSUME GuardTypeOK, NEW a \in Call, NEW r \in Reply, Finish(a, r)
  PROVE  /\ pc' \in [Call -> Pc] /\ reply' \in [Call -> Reply]
         /\ line' \in [Process -> Seq(Call)]
         /\ pc' = [pc EXCEPT ![a] = "done"]
BY LeaveType DEF Finish, Goto, Answer, GuardTypeOK, Pc, Over

LEMMA GiveBackType ==
  ASSUME GuardTypeOK, NEW a \in Call, NEW r \in Reply, GiveBack(a, r)
  PROVE  /\ pc' \in [Call -> Pc] /\ reply' \in [Call -> Reply]
         /\ line' \in [Process -> Seq(Call)]
         /\ \/ pc' = [pc EXCEPT ![a] = "done"] /\ a \notin ours
            \/ pc' = [pc EXCEPT ![a] = "giveback"] /\ a \in ours
<1>1. CASE a \in ours
  BY <1>1 DEF GiveBack, Goto, Answer, GuardTypeOK, Pc, Exit
<1>2. CASE a \notin ours
  BY <1>2, FinishType DEF GiveBack
<1>3. QED BY <1>1, <1>2

LEMMA ReplayUseType ==
  ASSUME GuardTypeOK, NEW a \in Call, NEW m, ReplayUse(a, m)
  PROVE  /\ pc' \in [Call -> Pc] /\ reply' \in [Call -> Reply]
         /\ line' \in [Process -> Seq(Call)]
         /\ \/ pc' = [pc EXCEPT ![a] = "done"] /\ a \notin ours
            \/ pc' = [pc EXCEPT ![a] = "giveback"] /\ a \in ours
<1>1. PICK r \in Reply : GiveBack(a, r)
  BY DEF ReplayUse, Reply, Replay
<1>2. QED BY <1>1, GiveBackType

(* A fault is counted, up to the bound. *)
LEMMA FaultType ==
  ASSUME GuardTypeOK, Fault \/ UNCHANGED faults
  PROVE  faults' \in 0..MaxFaults
BY GuardAssumption DEF Fault, GuardTypeOK

-----------------------------------------------------------------------------
(* Every step of the pipeline from a well-typed state is well typed. *)
LEMMA GuardTypeStep ==
  ASSUME GuardTypeOK, [GuardNext]_guardVars
  PROVE  GuardTypeOK'
<1> USE DEF Same
<1>1. ASSUME NEW a \in Call, Receive(a) PROVE GuardTypeOK'
  <2>1. CASE Finish(a, "denied") \/ Finish(a, "frozen")
    BY <1>1, <2>1, FinishType DEF Receive, GuardTypeOK, Reply
  <2>2. CASE Goto(a, "approval") /\ UNCHANGED <<line, reply>>
    BY <1>1, <2>2 DEF Receive, GuardTypeOK, Goto, Pc, Waiting
  <2>3. CASE Enqueue(a, "queued") /\ UNCHANGED reply
    BY <1>1, <2>3, EnqueueType DEF Receive, Enqueue, GuardTypeOK, Goto, Pc, Waiting
  <2>4. QED BY <1>1, <2>1, <2>2, <2>3 DEF Receive
<1>2. ASSUME NEW a \in Call, Approve(a) PROVE GuardTypeOK'
  <2>1. CASE Enqueue(a, "approved") /\ UNCHANGED reply
    BY <1>2, <2>1, EnqueueType DEF Approve, Enqueue, GuardTypeOK, Goto, Pc, Waiting
  <2>2. CASE Finish(a, "approval_rejected") \/ Finish(a, "internal")
    BY <1>2, <2>2, FinishType DEF Approve, GuardTypeOK, Reply
  <2>3. QED BY <1>2, <2>1, <2>2 DEF Approve
<1>3. ASSUME NEW a \in Call, EnterCommit(a) PROVE GuardTypeOK'
  <2>1. CASE Finish(a, "denied") \/ Finish(a, "frozen")
    BY <1>3, <2>1, FinishType DEF EnterCommit, GuardTypeOK, Reply
  <2>2. CASE Goto(a, "reserve") /\ UNCHANGED <<line, reply>>
    BY <1>3, <2>2 DEF EnterCommit, GuardTypeOK, Goto, Pc, Gate
  <2>3. QED BY <1>3, <2>1, <2>2 DEF EnterCommit
<1>4. ASSUME NEW a \in Call, TakeReservation(a) PROVE GuardTypeOK'
  <2>1. /\ Fault \/ UNCHANGED faults
        /\ ours' \subseteq Call
        /\ \/ UNCHANGED owner
           \/ owner' = [owner EXCEPT ![Id(a)] = {a}]
        /\ \/ \E r \in Reply : Finish(a, r)
           \/ /\ Goto(a, "lookup") \/ Goto(a, "lastExit")
              /\ UNCHANGED <<line, reply>>
    BY <1>4 DEF TakeReservation, GuardTypeOK, Reply, Replay
  <2>2. /\ pc' \in [Call -> Pc] /\ reply' \in [Call -> Reply]
        /\ line' \in [Process -> Seq(Call)]
    BY <2>1, FinishType DEF GuardTypeOK, Goto, Pc, Gate
  <2>3. owner' \in [ReservationId -> {{}} \cup {{b} : b \in Call}]
    BY <2>1 DEF GuardTypeOK
  <2>4. QED BY <1>4, <2>1, <2>2, <2>3, FaultType DEF TakeReservation, GuardTypeOK
<1>5. ASSUME NEW a \in Call, LookUpUse(a) PROVE GuardTypeOK'
  <2>1. PICK m \in intent[a].mandate :
          \/ ReplayUse(a, m)
          \/ Goto(a, "claim") /\ UNCHANGED <<line, reply>>
          \/ GiveBack(a, "denied")
    BY <1>5 DEF LookUpUse
  <2>2. /\ pc' \in [Call -> Pc] /\ reply' \in [Call -> Reply]
        /\ line' \in [Process -> Seq(Call)]
    BY <2>1, ReplayUseType, GiveBackType DEF GuardTypeOK, Goto, Pc, Gate, Reply
  <2>3. QED BY <1>5, <2>2 DEF LookUpUse, GuardTypeOK
<1>6. ASSUME NEW a \in Call, ConsumeUse(a) PROVE GuardTypeOK'
  <2>1. /\ Fault \/ UNCHANGED faults
        /\ consumed' \subseteq Call
        /\ \E m \in intent[a].mandate :
             \/ ReplayUse(a, m)
             \/ GiveBack(a, "denied")
             \/ Finish(a, "internal")
             \/ Goto(a, "lastExit") /\ UNCHANGED <<line, reply>>
             \/ Goto(a, "settleFailed") /\ Answer(a, "unbudgeted") /\ UNCHANGED line
    BY <1>6 DEF ConsumeUse, GuardTypeOK
  <2>2. /\ pc' \in [Call -> Pc] /\ reply' \in [Call -> Reply]
        /\ line' \in [Process -> Seq(Call)]
    BY <2>1, ReplayUseType, GiveBackType, FinishType
    DEF GuardTypeOK, Goto, Answer, Pc, Gate, Exit, Reply
  <2>3. QED BY <1>6, <2>1, <2>2, FaultType DEF ConsumeUse, GuardTypeOK
<1>7. ASSUME NEW a \in Call, LastExit(a) PROVE GuardTypeOK'
  <2>1. CASE GiveBack(a, "frozen")
    BY <1>7, <2>1, GiveBackType DEF LastExit, GuardTypeOK, Reply
  <2>2. CASE Goto(a, "starting") /\ UNCHANGED <<line, reply>>
    BY <1>7, <2>2 DEF LastExit, GuardTypeOK, Goto, Pc, Rail
  <2>3. QED BY <1>7, <2>1, <2>2 DEF LastExit
<1>8. ASSUME NEW a \in Call, ReleaseBestEffort(a) PROVE GuardTypeOK'
  <2>1. /\ Fault \/ UNCHANGED faults
        /\ limiterDegraded' \subseteq Call
    BY <1>8 DEF ReleaseBestEffort, GuardTypeOK
  <2>2. CASE Goto(a, "settleFailed") /\ UNCHANGED line
    BY <1>8, <2>1, <2>2, FaultType
    DEF ReleaseBestEffort, GuardTypeOK, Goto, Pc, Exit
  <2>3. CASE Goto(a, "done") /\ Leave(a)
    BY <1>8, <2>1, <2>3, FaultType, LeaveType
    DEF ReleaseBestEffort, GuardTypeOK, Goto, Pc, Over
  <2>4. QED BY <1>8, <2>2, <2>3 DEF ReleaseBestEffort
<1>9. ASSUME NEW a \in Call, SettleFailed(a) PROVE GuardTypeOK'
  <2>1. /\ Fault \/ UNCHANGED faults
    BY <1>9 DEF SettleFailed
  <2>2. QED BY <1>9, <2>1, FaultType, LeaveType DEF SettleFailed, GuardTypeOK, Goto, Pc, Over
<1>10. ASSUME NEW a \in Call, CaughtByRun(a) PROVE GuardTypeOK'
  BY <1>10, FaultType, FinishType DEF CaughtByRun, GuardTypeOK, Reply
<1>11. ASSUME NEW a \in Call, Start(a) PROVE GuardTypeOK'
  <2>1. CASE Goto(a, "authorized") /\ Leave(a)
    BY <1>11, <2>1, LeaveType DEF Start, GuardTypeOK, Goto, Pc, Rail
  <2>2. CASE Goto(a, "rail") /\ UNCHANGED line
    BY <1>11, <2>2 DEF Start, GuardTypeOK, Goto, Pc, Rail
  <2>3. QED BY <1>11, <2>1, <2>2 DEF Start
<1>12. ASSUME NEW a \in Call, RunRail(a) PROVE GuardTypeOK'
  <2>1. moved' \subseteq Call
    BY <1>12 DEF RunRail, GuardTypeOK
  <2>2. CASE Goto(a, "commit") /\ UNCHANGED <<line, reply>>
    BY <1>12, <2>1, <2>2 DEF RunRail, GuardTypeOK, Goto, Pc, Rail
  <2>3. CASE Goto(a, "settleFailed") /\ Answer(a, "failed") /\ UNCHANGED line
    BY <1>12, <2>1, <2>3 DEF RunRail, GuardTypeOK, Goto, Answer, Pc, Exit, Reply
  <2>4. CASE Finish(a, "failed")
    BY <1>12, <2>1, <2>4, FinishType DEF RunRail, GuardTypeOK, Reply
  <2>5. QED BY <1>12, <2>2, <2>3, <2>4 DEF RunRail
<1>13. ASSUME NEW a \in Call, CommitBestEffort(a) PROVE GuardTypeOK'
  <2>1. /\ Fault \/ UNCHANGED faults
        /\ limiterDegraded' \subseteq Call
    BY <1>13 DEF CommitBestEffort, GuardTypeOK
  <2>2. CASE Goto(a, "settleExecuted") /\ UNCHANGED <<line, reply>>
    BY <1>13, <2>1, <2>2, FaultType
    DEF CommitBestEffort, GuardTypeOK, Goto, Pc, Rail
  <2>3. CASE Finish(a, "executed")
    BY <1>13, <2>1, <2>3, FaultType, FinishType DEF CommitBestEffort, GuardTypeOK, Reply
  <2>4. QED BY <1>13, <2>2, <2>3 DEF CommitBestEffort
<1>14. ASSUME NEW a \in Call, SettleExecuted(a) PROVE GuardTypeOK'
  <2>1. Fault \/ UNCHANGED faults
    BY <1>14 DEF SettleExecuted
  <2>2. QED BY <1>14, <2>1, FaultType, FinishType DEF SettleExecuted, GuardTypeOK, Reply
<1>15. ASSUME NEW i \in ReservationId, ReleaseSpend(i) PROVE GuardTypeOK'
  BY <1>15 DEF ReleaseSpend, GuardTypeOK, callVars, historyVars
<1>16. ASSUME NEW g \in Process, Freeze(g) PROVE GuardTypeOK'
  BY <1>16 DEF Freeze, GuardTypeOK, callVars
<1>17. ASSUME NEW g \in Process, Unfreeze(g) PROVE GuardTypeOK'
  BY <1>17 DEF Unfreeze, GuardTypeOK, callVars
<1>18. ASSUME NEW g \in Process, Crash(g) PROVE GuardTypeOK'
  <2>1. faults' \in 0..MaxFaults
    BY <1>18, FaultType DEF Crash
  <2>2. pc' \in [Call -> Pc]
    BY <1>18 DEF Crash, GuardTypeOK, Pc, Over
  <2>3. moved' \subseteq Call
    BY <1>18 DEF Crash, GuardTypeOK
  <2>4. line' \in [Process -> Seq(Call)]
    BY <1>18 DEF Crash, GuardTypeOK
  <2>5. QED BY <1>18, <2>1, <2>2, <2>3, <2>4 DEF Crash, GuardTypeOK
<1>19. CASE GuardTick
  BY <1>19 DEF GuardTick, GuardTypeOK, callVars, historyVars
<1>20. CASE UNCHANGED guardVars
  BY <1>20 DEF guardVars, GuardTypeOK, callVars, historyVars
<1>21. QED
  BY <1>1, <1>2, <1>3, <1>4, <1>5, <1>6, <1>7, <1>8, <1>9, <1>10, <1>11, <1>12, <1>13,
     <1>14, <1>15, <1>16, <1>17, <1>18, <1>19, <1>20
  DEF GuardNext, CallStep

(* The pipeline's state is well typed for every number of processes,       *)
(* calls, ids, mandates and faults. *)
THEOREM GuardTypeCorrect == GuardSpec => []GuardTypeOK
<1>1. GuardInit => GuardTypeOK
  BY GuardAssumption
  DEF GuardInit, GuardTypeOK, Pc, Waiting, Reply
<1>2. QED BY <1>1, GuardTypeStep, PTL DEF GuardSpec

-----------------------------------------------------------------------------
(* A request of a call is one the limiter's specification expects. *)
LEMMA RequestOfType ==
  ASSUME GuardTypeOK, NEW a \in Call, NEW ms \in (clock - MaxWait)..clock,
         Admits(RequestOf(a, ms))
  PROVE  RequestOf(a, ms) \in Request
<1>1. Id(a) \in ReservationId /\ intent[a].key \in KeyOption /\ PolicyScope \in Scope
  BY GuardAssumption DEF GuardTypeOK, Intent, Id
<1>2. Amount(a) \in 0..MaxSafeInteger
  BY DEF Admits, RequestOf
<1>3. Amount(a) \in -1..MaxSafeInteger
  BY <1>2, LimiterAssumption
<1>4. QED BY <1>1, <1>3 DEF Request, RequestOf

(* Whatever a step of the pipeline does to the limiter is one operation of *)
(* it, or nothing. *)
LEMMA GuardStepUsesLimiter ==
  ASSUME GuardTypeOK, [GuardNext]_guardVars
  PROVE  [LimiterNext]_limiterVars
<1> USE DEF Same
<1>1. ASSUME NEW a \in Call, TakeReservation(a) PROVE [LimiterNext]_limiterVars
  <2>1. PICK ms \in (clock - MaxWait)..clock :
          \/ ReserveRefused(RequestOf(a, ms)) \/ ReserveReplayed(RequestOf(a, ms))
          \/ ReserveGranted(RequestOf(a, ms))
    BY <1>1 DEF TakeReservation
  <2>2. CASE ReserveGranted(RequestOf(a, ms))
    <3>1. RequestOf(a, ms) \in Request
      BY <2>2, RequestOfType DEF ReserveGranted
    <3>2. QED BY <2>2, <3>1 DEF LimiterNext
  <2>3. CASE ReserveRefused(RequestOf(a, ms)) \/ ReserveReplayed(RequestOf(a, ms))
    BY <2>3 DEF ReserveRefused, ReserveReplayed
  <2>4. QED BY <2>1, <2>2, <2>3
<1>2. ASSUME NEW a \in Call, ReleaseBestEffort(a) \/ CommitBestEffort(a)
      PROVE  [LimiterNext]_limiterVars
  <2>1. Id(a) \in ReservationId
    BY GuardAssumption DEF GuardTypeOK, Intent, Id
  <2>2. Release(Id(a)) \/ Commit(Id(a)) \/ UNCHANGED limiterVars
    BY <1>2 DEF ReleaseBestEffort, CommitBestEffort
  <2>3. QED BY <2>1, <2>2 DEF LimiterNext
<1>3. ASSUME NEW a \in Call,
             Receive(a) \/ Approve(a) \/ EnterCommit(a) \/ LookUpUse(a) \/ ConsumeUse(a)
             \/ LastExit(a) \/ SettleFailed(a) \/ CaughtByRun(a) \/ Start(a) \/ RunRail(a)
             \/ SettleExecuted(a)
      PROVE  UNCHANGED limiterVars
  BY <1>3 DEF Receive, Approve, EnterCommit, LookUpUse, ConsumeUse, LastExit, SettleFailed,
              CaughtByRun, Start, RunRail, SettleExecuted
<1>4. ASSUME NEW i \in ReservationId, ReleaseSpend(i) PROVE [LimiterNext]_limiterVars
  BY <1>4 DEF ReleaseSpend, LimiterNext
<1>5. ASSUME NEW g \in Process, Freeze(g) \/ Unfreeze(g) \/ Crash(g)
      PROVE  UNCHANGED limiterVars
  BY <1>5 DEF Freeze, Unfreeze, Crash
<1>6. CASE GuardTick
  BY <1>6 DEF GuardTick, LimiterNext
<1>7. CASE UNCHANGED guardVars
  BY <1>7 DEF guardVars
<1>8. QED BY <1>1, <1>2, <1>3, <1>4, <1>5, <1>6, <1>7 DEF GuardNext, CallStep

(* The pipeline implements the limiter's specification: reservations are   *)
(* taken, committed and released by the limiter's own atomic operations,   *)
(* so its caps hold of every guard composed with it. *)
THEOREM GuardUsesLimiter == GuardSpec => LimiterSpec
<1>1. GuardInit => LimiterInit
  BY DEF GuardInit
<1>2. GuardTypeOK /\ [GuardNext]_guardVars => [LimiterNext]_limiterVars
  BY GuardStepUsesLimiter
<1>3. QED BY <1>1, <1>2, GuardTypeCorrect, PTL DEF GuardSpec, LimiterSpec

-----------------------------------------------------------------------------
(* No step of the pipeline seals or prunes a mandate. *)
NothingSealed == sealed = {}

(* Whatever a step of the pipeline does to the consume registry is one     *)
(* operation of it, or nothing; no mandate is sealed behind its back. *)
LEMMA GuardStepUsesConsume ==
  ASSUME GuardTypeOK, NothingSealed, [GuardNext]_guardVars
  PROVE  [ConsumeNext]_consumeVars /\ NothingSealed'
<1> USE DEF Same, NothingSealed
<1>0. \A a \in Call : /\ Id(a) \in UseKey /\ intent[a].digest \in Digest
                      /\ intent[a].mandate \subseteq Mandate
  <2> SUFFICES ASSUME NEW a \in Call
               PROVE  /\ Id(a) \in UseKey /\ intent[a].digest \in Digest
                      /\ intent[a].mandate \subseteq Mandate
    OBVIOUS
  <2>1. intent[a] \in Intent
    BY GuardAssumption DEF GuardTypeOK
  <2>2. intent[a].mandate \in {{}} \cup {{m} : m \in Mandate}
    BY <2>1 DEF Intent
  <2>3. QED BY <2>1, <2>2 DEF Intent, Id
<1>1. ASSUME NEW a \in Call, ConsumeUse(a)
      PROVE  [ConsumeNext]_consumeVars /\ NothingSealed'
  <2>1. PICK m \in intent[a].mandate :
          \/ ClaimDuplicate(m, Id(a)) \/ ClaimExhausted(m, Id(a))
          \/ ClaimWon(m, Id(a), intent[a].digest)
    BY <1>1 DEF ConsumeUse
  <2>2. m \in Mandate \ sealed
    BY <1>0
  <2>3. QED
    BY <1>0, <2>1, <2>2
    DEF ConsumeNext, consumeVars, ClaimDuplicate, ClaimExhausted, ClaimWon
<1>2. ASSUME NEW a \in Call, SettleFailed(a) \/ SettleExecuted(a)
      PROVE  [ConsumeNext]_consumeVars /\ NothingSealed'
  <2>1. \/ \E m \in Mandate, o \in Outcome : SettleUse(m, Id(a), o)
        \/ UNCHANGED consumeVars
    BY <1>0, <1>2 DEF SettleFailed, SettleExecuted, Outcome
  <2>2. QED BY <1>0, <2>1 DEF ConsumeNext, SettleUse, consumeVars
<1>3. ASSUME NEW a \in Call,
             Receive(a) \/ Approve(a) \/ EnterCommit(a) \/ TakeReservation(a) \/ LookUpUse(a)
             \/ LastExit(a) \/ ReleaseBestEffort(a) \/ CaughtByRun(a) \/ Start(a)
             \/ RunRail(a) \/ CommitBestEffort(a)
      PROVE  UNCHANGED consumeVars
  BY <1>3 DEF Receive, Approve, EnterCommit, TakeReservation, LookUpUse, LastExit,
              ReleaseBestEffort, CaughtByRun, Start, RunRail, CommitBestEffort
<1>4. ASSUME NEW i \in ReservationId, ReleaseSpend(i) PROVE UNCHANGED consumeVars
  BY <1>4 DEF ReleaseSpend
<1>5. ASSUME NEW g \in Process, Freeze(g) \/ Unfreeze(g) \/ Crash(g)
      PROVE  UNCHANGED consumeVars
  BY <1>5 DEF Freeze, Unfreeze, Crash
<1>6. CASE GuardTick
  BY <1>6 DEF GuardTick, consumeVars
<1>7. CASE UNCHANGED guardVars
  BY <1>7 DEF guardVars, consumeVars
<1>8. QED
  BY <1>1, <1>2, <1>3, <1>4, <1>5, <1>6, <1>7 DEF GuardNext, CallStep, consumeVars

(* The pipeline implements the consume registry's specification, so the    *)
(* lifetime use budget holds of every guard composed with it. *)
THEOREM GuardUsesConsume == GuardSpec => ConsumeSpec
<1>1. GuardInit => ConsumeInit /\ NothingSealed
  BY DEF GuardInit, ConsumeInit, NothingSealed
<1>2. GuardTypeOK /\ NothingSealed /\ [GuardNext]_guardVars
        => [ConsumeNext]_consumeVars /\ NothingSealed'
  BY GuardStepUsesConsume
<1>3. QED BY <1>1, <1>2, GuardTypeCorrect, PTL DEF GuardSpec, ConsumeSpec

(* Every behaviour of the guard, with its crashes, lost answers and store  *)
(* errors, is one of both stores: what holds of them holds below it. *)
THEOREM GuardUsesStores == GuardSpec => UsesStoresAsSpecified
BY GuardUsesLimiter, GuardUsesConsume DEF UsesStoresAsSpecified

-----------------------------------------------------------------------------
(* The budget a call holds: from the reservation it took until it gives it *)
(* back or its rail has failed without moving money. *)
Holds(a) ==
  \/ pc[a] \in Rail
  \/ a \in moved
  \/ a \in ours /\ pc[a] \in {"lookup", "claim", "lastExit", "giveback"}

Budgeted(a) ==
  /\ owner[Id(a)] = {a}
  /\ status[Id(a)] # "none"
  /\ \E r \in records : r.id = Id(a) /\ r.amount = Amount(a)

HoldsBudget == \A a \in Call : Holds(a) => Budgeted(a)

(* Only a call that took its reservation gets to the last exit, and only a *)
(* call past it has moved money. *)
PathInv ==
  \A a \in Call :
    /\ pc[a] \in {"lastExit", "giveback"} => a \in ours
    /\ pc[a] \in Waiting \cup {"reserve"} => a \notin ours
    /\ a \in moved => pc[a] \in {"commit", "settleExecuted", "settleFailed", "done", "crashed"}

BudgetInv == GuardTypeOK /\ LimiterTypeOK /\ PathInv /\ HoldsBudget

LEMMA CallTypes ==
  ASSUME GuardTypeOK, NEW a \in Call
  PROVE  Id(a) \in ReservationId /\ ProcessOf(a) \in Process
BY GuardAssumption DEF GuardTypeOK, Intent, Id, ProcessOf

(* A step that neither touches the limiter nor gives a call a new claim to *)
(* budget keeps the invariant. *)
LEMMA NoNewHolder ==
  ASSUME HoldsBudget, UNCHANGED <<records, status, owner, intent>>,
         \A a \in Call : Holds(a)' => Holds(a)
  PROVE  HoldsBudget'
BY DEF HoldsBudget, Budgeted, Id, Amount

(* Commit keeps the record, whatever the limiter answers. *)
LEMMA CommitKeepsBudget ==
  ASSUME BudgetInv, NEW i \in ReservationId, Commit(i) \/ UNCHANGED limiterVars,
         UNCHANGED <<owner, intent>>,
         \A a \in Call : Holds(a)' => Holds(a)
  PROVE  HoldsBudget'
<1>1. records' = records
  BY DEF Commit, limiterVars
<1>2. \A j \in ReservationId : status[j] # "none" => status'[j] # "none"
  BY DEF Commit, limiterVars, BudgetInv, LimiterTypeOK
<1>3. QED
  BY <1>1, <1>2, CallTypes DEF BudgetInv, HoldsBudget, Budgeted, Id, Amount

(* A release only takes the budget of a call that holds it no longer. *)
LEMMA ReleaseKeepsBudget ==
  ASSUME BudgetInv, NEW i \in ReservationId, Release(i) \/ UNCHANGED limiterVars,
         UNCHANGED <<owner, intent>>,
         \A a \in Call : Holds(a)' => Holds(a),
         \A a \in Call : owner[i] = {a} => ~Holds(a)'
  PROVE  HoldsBudget'
<1> SUFFICES ASSUME NEW a \in Call, Holds(a)' PROVE Budgeted(a)'
  BY DEF HoldsBudget
<1>1. Budgeted(a) /\ Id(a)' = Id(a) /\ Amount(a)' = Amount(a) /\ Id(a) \in ReservationId
  BY CallTypes DEF BudgetInv, HoldsBudget, Id, Amount
<1>2. Id(a) # i
  BY <1>1 DEF Budgeted
<1>3. status'[Id(a)] = status[Id(a)]
  BY <1>1, <1>2 DEF Release, limiterVars, BudgetInv, LimiterTypeOK
<1>4. \A r \in records : r.id = Id(a) => r \in records'
  BY <1>2 DEF Release, limiterVars
<1>5. QED BY <1>1, <1>3, <1>4 DEF Budgeted

(* The one place a call takes a budget: the limiter grants an id only when *)
(* nobody holds it. *)
LEMMA ReservationKeepsBudget ==
  ASSUME BudgetInv, NEW a \in Call, TakeReservation(a), LimiterTypeOK'
  PROVE  PathInv' /\ HoldsBudget'
<1> USE DEF BudgetInv, GuardTypeOK
<1>1. PICK ms \in (clock - MaxWait)..clock :
        LET req == RequestOf(a, ms) IN
        \/ /\ ReserveRefused(req) \/ ReserveReplayed(req)
           /\ \/ \E r \in Reply : Finish(a, r)
              \/ Goto(a, "lookup")
           /\ UNCHANGED <<ours, owner>>
        \/ /\ ReserveGranted(req)
           /\ owner' = [owner EXCEPT ![Id(a)] = {a}]
           /\ \/ /\ Goto(a, "lookup") \/ Goto(a, "lastExit")
                 /\ ours' = ours \cup {a}
              \/ /\ \E r \in Reply : Finish(a, r)
                 /\ UNCHANGED ours
  BY DEF TakeReservation, Reply, Replay
<1>2. pc[a] = "reserve" /\ a \notin ours /\ UNCHANGED <<intent, moved>>
  BY DEF TakeReservation, At, PathInv, Same
<1>3. \A b \in Call \ {a} : pc'[b] = pc[b] /\ (b \in ours' <=> b \in ours)
  BY <1>1 DEF Finish, Goto
<1>4. a \notin moved
  BY <1>2 DEF PathInv
<1>5. pc'[a] \in {"done", "lookup", "lastExit"} /\ (pc'[a] = "lastExit" => a \in ours')
  BY <1>1 DEF Finish, Goto
<1>6. PathInv'
  BY <1>2, <1>3, <1>4, <1>5 DEF PathInv, Waiting
<1>7. \A b \in Call \ {a} : Holds(b)' => Holds(b)
  BY <1>2, <1>3 DEF Holds
<1>8. CASE UNCHANGED <<records, status, ours, owner>>
  <2>1. ~Holds(a)'
    BY <1>2, <1>4, <1>5, <1>8 DEF Holds, Rail
  <2>2. \A b \in Call : Holds(b)' => Holds(b)
    BY <1>7, <2>1
  <2>3. QED BY <1>2, <1>6, <1>8, <2>2, NoNewHolder
<1>9. CASE ReserveGranted(RequestOf(a, ms)) /\ owner' = [owner EXCEPT ![Id(a)] = {a}]
  <2>1. /\ records' = records \cup {RequestOf(a, ms)}
        /\ status' = [status EXCEPT ![Id(a)] = "reserved"]
        /\ status[Id(a)] = "none"
    BY <1>9 DEF ReserveGranted, Replayed, RequestOf
  <2>2. Id(a) \in ReservationId /\ Id(a)' = Id(a) /\ Amount(a)' = Amount(a)
    BY <1>2, CallTypes DEF Id, Amount
  <2>3. Budgeted(a)'
    BY <1>9, <2>1, <2>2 DEF Budgeted, RequestOf, LimiterTypeOK
  <2>4. ASSUME NEW b \in Call \ {a}, Holds(b)' PROVE Budgeted(b)'
    <3>1. Budgeted(b) /\ Id(b)' = Id(b) /\ Amount(b)' = Amount(b) /\ Id(b) \in ReservationId
      BY <1>2, <1>7, <2>4, CallTypes DEF HoldsBudget, Id, Amount
    <3>2. Id(b) # Id(a)
      BY <2>1, <3>1 DEF Budgeted
    <3>3. owner'[Id(b)] = {b} /\ status'[Id(b)] # "none"
      BY <1>9, <2>1, <3>1, <3>2 DEF Budgeted, LimiterTypeOK
    <3>4. \E r \in records' : r.id = Id(b) /\ r.amount = Amount(b)
      BY <2>1, <3>1 DEF Budgeted
    <3>5. QED BY <3>1, <3>3, <3>4 DEF Budgeted
  <2>5. QED BY <1>6, <2>3, <2>4 DEF HoldsBudget
<1>10. QED
  BY <1>1, <1>6, <1>8, <1>9 DEF ReserveRefused, ReserveReplayed, limiterVars

(* Every step keeps the budget of every call that holds one, unless        *)
(* releaseSpend() is called without proof. *)
LEMMA BudgetStep ==
  ASSUME ~MistakenRelease, BudgetInv, [GuardNext]_guardVars, LimiterTypeOK'
  PROVE  BudgetInv'
<1>0. GuardTypeOK'
  BY GuardTypeStep DEF BudgetInv
<1> SUFFICES PathInv' /\ HoldsBudget'
  BY <1>0 DEF BudgetInv
<1> USE DEF BudgetInv, Same
<1>1. ASSUME NEW a \in Call, TakeReservation(a) PROVE PathInv' /\ HoldsBudget'
  BY <1>1, ReservationKeepsBudget
<1>2. ASSUME NEW a \in Call,
             Receive(a) \/ Approve(a) \/ EnterCommit(a) \/ CaughtByRun(a) \/ LookUpUse(a)
             \/ ConsumeUse(a) \/ LastExit(a)
      PROVE  PathInv' /\ HoldsBudget'
  <2>1. UNCHANGED <<records, status, owner, intent, moved, ours>>
    BY <1>2 DEF Receive, Approve, EnterCommit, CaughtByRun, LookUpUse, ConsumeUse, LastExit,
                limiterVars
  <2>2. pc[a] \in Waiting \cup {"reserve", "lookup", "claim", "lastExit", "starting"}
    BY <1>2 DEF Receive, Approve, EnterCommit, CaughtByRun, LookUpUse, ConsumeUse, LastExit,
                At, Waiting
  <2>3. \E p \in Pc :
          /\ pc' = [pc EXCEPT ![a] = p]
          /\ \/ p = "done"
             \/ p = "giveback" /\ a \in ours
             \/ p \in {"approval", "queued", "approved", "reserve"} /\ pc[a] \in Waiting
             \/ p = "claim" /\ pc[a] = "lookup"
             \/ p = "lastExit" /\ a \in ours
             \/ p = "settleFailed"
             \/ p = "starting" /\ pc[a] = "lastExit"
    <3>1. CASE Receive(a) \/ Approve(a) \/ EnterCommit(a) \/ CaughtByRun(a)
      BY <3>1 DEF Receive, Approve, EnterCommit, CaughtByRun, Finish, Goto, Enqueue, At,
                  Pc, Waiting, Gate, Over
    <3>2. CASE LookUpUse(a)
      <4>1. \/ \E m : ReplayUse(a, m)
            \/ GiveBack(a, "denied")
            \/ Goto(a, "claim") /\ pc[a] = "lookup"
        BY <3>2 DEF LookUpUse, At
      <4>2. QED BY <4>1, ReplayUseType, GiveBackType DEF Goto, Pc, Gate, Exit, Over, Reply
    <3>3. CASE ConsumeUse(a)
      <4>1. \/ \E m : ReplayUse(a, m)
            \/ GiveBack(a, "denied")
            \/ Finish(a, "internal")
            \/ Goto(a, "lastExit") /\ a \in ours
            \/ Goto(a, "settleFailed")
        BY <3>3 DEF ConsumeUse
      <4>2. QED
        BY <4>1, ReplayUseType, GiveBackType DEF Finish, Goto, Pc, Gate, Exit, Over, Reply
    <3>4. CASE LastExit(a)
      <4>1. \/ GiveBack(a, "frozen")
            \/ Goto(a, "starting") /\ pc[a] = "lastExit"
        BY <3>4 DEF LastExit, At
      <4>2. QED BY <4>1, GiveBackType DEF Goto, Pc, Rail, Exit, Over, Reply
    <3>5. QED BY <1>2, <3>1, <3>2, <3>3, <3>4
  <2>4. PICK p \in Pc :
          /\ pc' = [pc EXCEPT ![a] = p]
          /\ \/ p = "done"
             \/ p = "giveback" /\ a \in ours
             \/ p \in {"approval", "queued", "approved", "reserve"} /\ pc[a] \in Waiting
             \/ p = "claim" /\ pc[a] = "lookup"
             \/ p = "lastExit" /\ a \in ours
             \/ p = "settleFailed"
             \/ p = "starting" /\ pc[a] = "lastExit"
    BY <2>3
  <2>5. pc'[a] = p /\ \A b \in Call \ {a} : pc'[b] = pc[b]
    BY <2>4 DEF GuardTypeOK
  <2>6. a \notin moved
    BY <2>2 DEF PathInv, Waiting
  <2>7. PathInv'
    BY <2>1, <2>2, <2>4, <2>5, <2>6 DEF PathInv, Waiting
  <2>8. \A b \in Call \ {a} : Holds(b)' => Holds(b)
    BY <2>1, <2>5 DEF Holds
  <2>9. Holds(a)' => Holds(a)
    BY <2>1, <2>2, <2>4, <2>5, <2>6 DEF Holds, Rail, PathInv, Waiting
  <2>10. \A b \in Call : Holds(b)' => Holds(b)
    BY <2>8, <2>9
  <2>11. QED BY <2>1, <2>7, <2>10, NoNewHolder
<1>3. ASSUME NEW a \in Call,
             SettleFailed(a) \/ Start(a) \/ RunRail(a) \/ SettleExecuted(a)
      PROVE  PathInv' /\ HoldsBudget'
  <2>1. UNCHANGED <<records, status, owner, intent, ours>>
    BY <1>3 DEF SettleFailed, Start, RunRail, SettleExecuted, limiterVars
  <2>2. PICK p \in Pc :
          /\ pc' = [pc EXCEPT ![a] = p]
          /\ \/ p = "done" /\ moved' = moved /\ pc[a] \in {"settleFailed", "settleExecuted"}
             \/ p \in {"rail", "authorized"} /\ moved' = moved /\ pc[a] = "starting"
             \/ /\ p \in {"commit", "settleFailed", "done"}
                /\ pc[a] \in {"rail", "authorized"}
                /\ moved' \in {moved, moved \cup {a}}
    BY <1>3 DEF SettleFailed, Start, RunRail, SettleExecuted, Finish, Goto, At,
                Pc, Rail, Exit, Over
  <2>3. pc'[a] = p /\ \A b \in Call \ {a} : pc'[b] = pc[b] /\ (b \in moved' <=> b \in moved)
    BY <2>2 DEF GuardTypeOK
  <2>4. PathInv'
    BY <2>1, <2>2, <2>3 DEF PathInv, Waiting
  <2>5. \A b \in Call \ {a} : Holds(b)' => Holds(b)
    BY <2>1, <2>3 DEF Holds
  <2>6. Holds(a)' => Holds(a)
    BY <2>1, <2>2, <2>3 DEF Holds, Rail
  <2>7. \A b \in Call : Holds(b)' => Holds(b)
    BY <2>5, <2>6
  <2>8. QED BY <2>1, <2>4, <2>7, NoNewHolder
<1>4. ASSUME NEW a \in Call, CommitBestEffort(a) PROVE PathInv' /\ HoldsBudget'
  <2>1. /\ UNCHANGED <<owner, intent, ours, moved>>
        /\ Commit(Id(a)) \/ UNCHANGED limiterVars
        /\ pc[a] = "commit"
    BY <1>4 DEF CommitBestEffort, At
  <2>2. PICK p \in {"settleExecuted", "done"} : pc' = [pc EXCEPT ![a] = p]
    BY <1>4 DEF CommitBestEffort, Finish, Goto
  <2>3. pc'[a] = p /\ \A b \in Call \ {a} : pc'[b] = pc[b]
    BY <2>2 DEF GuardTypeOK
  <2>4. PathInv'
    BY <2>1, <2>2, <2>3 DEF PathInv, Waiting
  <2>5. \A b \in Call : Holds(b)' => Holds(b)
    BY <2>1, <2>2, <2>3 DEF Holds, Rail
  <2>6. QED BY <2>1, <2>4, <2>5, CommitKeepsBudget, CallTypes
<1>5. ASSUME NEW a \in Call, ReleaseBestEffort(a) PROVE PathInv' /\ HoldsBudget'
  <2>1. /\ UNCHANGED <<owner, intent, ours, moved>>
        /\ Release(Id(a)) \/ UNCHANGED limiterVars
        /\ pc[a] = "giveback"
    BY <1>5 DEF ReleaseBestEffort, At
  <2>2. PICK p \in {"settleFailed", "done"} : pc' = [pc EXCEPT ![a] = p]
    BY <1>5 DEF ReleaseBestEffort, Goto
  <2>3. pc'[a] = p /\ \A b \in Call \ {a} : pc'[b] = pc[b]
    BY <2>2 DEF GuardTypeOK
  <2>4. a \in ours /\ a \notin moved
    BY <2>1 DEF PathInv
  <2>5. PathInv'
    BY <2>1, <2>2, <2>3, <2>4 DEF PathInv, Waiting
  <2>6. ~Holds(a)' /\ \A b \in Call : Holds(b)' => Holds(b)
    BY <2>1, <2>2, <2>3, <2>4 DEF Holds, Rail
  <2>7. Holds(a)
    BY <2>1, <2>4 DEF Holds
  <2>8. owner[Id(a)] = {a}
    BY <2>7 DEF HoldsBudget, Budgeted
  <2>9. \A b \in Call : owner[Id(a)] = {b} => ~Holds(b)'
    BY <2>6, <2>8
  <2>10. QED BY <2>1, <2>5, <2>6, <2>9, ReleaseKeepsBudget, CallTypes
<1>6. ASSUME NEW i \in ReservationId, ReleaseSpend(i) PROVE PathInv' /\ HoldsBudget'
  <2>1. Release(i) /\ ReleaseProven(i) /\ UNCHANGED <<owner, intent, ours, moved, pc>>
    BY <1>6 DEF ReleaseSpend, callVars, historyVars
  <2>2. PathInv' /\ \A b \in Call : Holds(b)' <=> Holds(b)
    BY <2>1 DEF PathInv, Holds
  <2>3. \A b \in Call : owner[i] = {b} => ~Holds(b)
    BY <2>1 DEF ReleaseProven, Holds, Over, Rail
  <2>4. QED BY <2>1, <2>2, <2>3, ReleaseKeepsBudget
<1>7. ASSUME NEW g \in Process, Crash(g) PROVE PathInv' /\ HoldsBudget'
  <2> DEFINE dead == {a \in Call : ProcessOf(a) = g /\ pc[a] \notin {"new"} \cup Over /\ ~Detached(a)}
  <2>1. /\ UNCHANGED <<records, status, owner, intent, ours>>
        /\ pc' = [a \in Call |-> IF a \in dead THEN "crashed" ELSE pc[a]]
        /\ moved' \in {moved, moved \cup {a \in dead : At(a, "rail")}}
    BY <1>7 DEF Crash, limiterVars
  <2>2. PathInv'
    BY <2>1 DEF PathInv, Waiting, At
  <2>3. \A b \in Call : Holds(b)' => Holds(b)
    BY <2>1 DEF Holds, Rail, At
  <2>4. QED BY <2>1, <2>2, <2>3, NoNewHolder
<1>8. ASSUME NEW g \in Process, Freeze(g) \/ Unfreeze(g) PROVE PathInv' /\ HoldsBudget'
  <2>1. UNCHANGED <<records, status, owner, intent, ours, moved, pc>>
    BY <1>8 DEF Freeze, Unfreeze, callVars, limiterVars
  <2>2. PathInv' /\ \A b \in Call : Holds(b)' => Holds(b)
    BY <2>1 DEF PathInv, Holds
  <2>3. QED BY <2>1, <2>2, NoNewHolder
<1>9. CASE GuardTick \/ UNCHANGED guardVars
  <2>1. UNCHANGED <<records, status, owner, intent, ours, moved, pc>>
    BY <1>9 DEF GuardTick, Tick, guardVars, callVars, limiterVars, historyVars
  <2>2. PathInv' /\ \A b \in Call : Holds(b)' => Holds(b)
    BY <2>1 DEF PathInv, Holds
  <2>3. QED BY <2>1, <2>2, NoNewHolder
<1>10. QED
  BY <1>1, <1>2, <1>3, <1>4, <1>5, <1>6, <1>7, <1>8, <1>9 DEF GuardNext, CallStep

(* Nothing executes on a reservation it did not take, for every number of  *)
(* processes, calls, mandates, crashes and store failures, as long as      *)
(* releaseSpend() is only called with proof: so two calls of one intent id *)
(* never both move money. *)
THEOREM RailAlwaysBudgeted ==
  ASSUME ~MistakenRelease
  PROVE  GuardSpec => []RailIsBudgeted
<1>1. GuardInit => BudgetInv
  <2> SUFFICES ASSUME GuardInit PROVE BudgetInv
    OBVIOUS
  <2>1. GuardTypeOK
    BY GuardAssumption DEF GuardInit, GuardTypeOK, Pc, Waiting, Reply
  <2>2. LimiterTypeOK
    BY LimiterAssumption DEF GuardInit, LimiterInit, LimiterTypeOK
  <2>3. PathInv /\ HoldsBudget
    BY DEF GuardInit, PathInv, HoldsBudget, Holds, Rail
  <2>4. QED BY <2>1, <2>2, <2>3 DEF BudgetInv
<1>2. BudgetInv /\ [GuardNext]_guardVars /\ LimiterTypeOK' => BudgetInv'
  BY BudgetStep
<1>3. BudgetInv => RailIsBudgeted
  BY DEF BudgetInv, HoldsBudget, Holds, Budgeted, RailIsBudgeted
<1>4. QED
  BY <1>1, <1>2, <1>3, GuardUsesLimiter, LimiterTypeCorrect, PTL DEF GuardSpec

-----------------------------------------------------------------------------
(* A call overtaken by a freeze is still on this side of the last exit, in *)
(* a process that is still frozen. *)
StopInv ==
  /\ \A a \in moved : pc[a] \notin Waiting \cup Gate
  /\ \A a \in stopped : /\ frozen[ProcessOf(a)]
                        /\ pc[a] \notin Rail
                        /\ a \notin moved

LEMMA StopStep ==
  ASSUME GuardTypeOK, StopInv, [GuardNext]_guardVars
  PROVE  StopInv'
<1> USE DEF Same
<1>1. ASSUME NEW a \in Call,
             Receive(a) \/ Approve(a) \/ EnterCommit(a) \/ TakeReservation(a) \/ LookUpUse(a)
             \/ ConsumeUse(a) \/ LastExit(a) \/ ReleaseBestEffort(a) \/ SettleFailed(a)
             \/ CaughtByRun(a)
      PROVE  StopInv'
  <2>1. UNCHANGED <<intent, frozen, stopped, moved>>
    BY <1>1 DEF Receive, Approve, EnterCommit, TakeReservation, LookUpUse, ConsumeUse, LastExit,
                ReleaseBestEffort, SettleFailed, CaughtByRun
  <2>2. PICK p \in Pc :
          /\ pc' = [pc EXCEPT ![a] = p]
          /\ \/ p \in Over \cup Exit
             \/ p \in Waiting \cup Gate /\ pc[a] \in Waiting \cup Gate
             \/ p = "starting" /\ pc[a] = "lastExit" /\ ~frozen[ProcessOf(a)]
    <3>1. CASE Receive(a) \/ Approve(a) \/ EnterCommit(a) \/ CaughtByRun(a)
      BY <3>1 DEF Receive, Approve, EnterCommit, CaughtByRun, Finish, Goto, Enqueue, At,
                  Pc, Waiting, Gate, Over
    <3>2. CASE TakeReservation(a)
      <4>1. \/ \E r : Finish(a, r)
            \/ Goto(a, "lookup") /\ pc[a] = "reserve"
            \/ Goto(a, "lastExit") /\ pc[a] = "reserve"
        BY <3>2 DEF TakeReservation, At
      <4>2. QED BY <4>1 DEF Finish, Goto, Pc, Gate, Over
    <3>3. CASE LookUpUse(a)
      <4>1. \/ \E m : ReplayUse(a, m)
            \/ GiveBack(a, "denied")
            \/ Goto(a, "claim") /\ pc[a] = "lookup"
        BY <3>3 DEF LookUpUse, At
      <4>2. QED BY <4>1, ReplayUseType, GiveBackType DEF Goto, Pc, Gate, Exit, Over, Reply
    <3>4. CASE ConsumeUse(a)
      <4>1. \/ \E m : ReplayUse(a, m)
            \/ GiveBack(a, "denied")
            \/ Finish(a, "internal")
            \/ Goto(a, "lastExit") /\ pc[a] = "claim"
            \/ Goto(a, "settleFailed")
        BY <3>4 DEF ConsumeUse, At
      <4>2. QED
        BY <4>1, ReplayUseType, GiveBackType DEF Finish, Goto, Pc, Gate, Exit, Over, Reply
    <3>5. CASE LastExit(a)
      <4>1. \/ GiveBack(a, "frozen")
            \/ Goto(a, "starting") /\ pc[a] = "lastExit" /\ ~frozen[ProcessOf(a)]
        BY <3>5 DEF LastExit, At
      <4>2. QED BY <4>1, GiveBackType DEF Goto, Pc, Rail, Exit, Over, Reply
    <3>6. CASE ReleaseBestEffort(a) \/ SettleFailed(a)
      BY <3>6 DEF ReleaseBestEffort, SettleFailed, Goto, Pc, Exit, Over
    <3>7. QED BY <1>1, <3>1, <3>2, <3>3, <3>4, <3>5, <3>6
  <2>3. pc'[a] = p /\ \A b \in Call \ {a} : pc'[b] = pc[b]
    BY <2>2 DEF GuardTypeOK
  <2>4. \A b \in moved' : pc'[b] \notin Waiting \cup Gate
    BY <2>1, <2>2, <2>3 DEF StopInv, GuardTypeOK, Waiting, Gate, Exit, Over
  <2>5. \A b \in stopped' : frozen'[ProcessOf(b)'] /\ b \notin moved'
    BY <2>1 DEF StopInv, ProcessOf
  <2>6. \A b \in stopped' : pc'[b] \notin Rail
    BY <2>1, <2>2, <2>3 DEF StopInv, GuardTypeOK, Waiting, Gate, Exit, Over, Rail
  <2>7. QED BY <2>4, <2>5, <2>6 DEF StopInv
<1>2. ASSUME NEW a \in Call, Start(a) \/ RunRail(a) \/ CommitBestEffort(a) \/ SettleExecuted(a)
      PROVE  StopInv'
  <2>1. /\ UNCHANGED <<intent, frozen, stopped>>
        /\ moved' \subseteq moved \cup {a}
        /\ pc[a] \in Rail
    BY <1>2 DEF Start, RunRail, CommitBestEffort, SettleExecuted, At, Rail
  <2>2. PICK p \in Rail \cup Exit \cup Over : pc' = [pc EXCEPT ![a] = p]
    BY <1>2 DEF Start, RunRail, CommitBestEffort, SettleExecuted, Finish, Goto, Rail, Exit, Over
  <2>3. pc'[a] = p /\ \A b \in Call \ {a} : pc'[b] = pc[b]
    BY <2>2 DEF GuardTypeOK
  <2>4. a \notin stopped
    BY <2>1 DEF StopInv
  <2>5. p \notin Waiting \cup Gate
    BY <2>2 DEF Waiting, Gate, Rail, Exit, Over
  <2>6. \A b \in moved' : pc'[b] \notin Waiting \cup Gate
    BY <2>1, <2>3, <2>5 DEF StopInv, GuardTypeOK
  <2>7. \A b \in stopped' : frozen'[ProcessOf(b)'] /\ b \notin moved' /\ pc'[b] \notin Rail
    BY <2>1, <2>3, <2>4 DEF StopInv, GuardTypeOK, ProcessOf
  <2>8. QED BY <2>6, <2>7 DEF StopInv
<1>3. ASSUME NEW g \in Process, Freeze(g) PROVE StopInv'
  <2>1. /\ UNCHANGED <<intent, pc, moved>>
        /\ frozen' = [frozen EXCEPT ![g] = TRUE]
        /\ stopped' = stopped \cup {a \in Call : ProcessOf(a) = g /\ pc[a] \in Waiting \cup Gate}
    BY <1>3 DEF Freeze, callVars
  <2>2. ASSUME NEW b \in stopped'
        PROVE  frozen'[ProcessOf(b)'] /\ b \notin moved' /\ pc'[b] \notin Rail
    <3>1. ProcessOf(b)' = ProcessOf(b) /\ ProcessOf(b) \in Process
      BY <2>1, <2>2, CallTypes DEF ProcessOf, GuardTypeOK
    <3>2. frozen'[ProcessOf(b)]
      BY <2>1, <2>2, <3>1 DEF StopInv, GuardTypeOK
    <3>3. b \notin moved /\ pc[b] \notin Rail
      BY <2>1, <2>2 DEF StopInv, Waiting, Gate, Rail
    <3>4. QED BY <2>1, <3>1, <3>2, <3>3
  <2>3. \A b \in moved' : pc'[b] \notin Waiting \cup Gate
    BY <2>1 DEF StopInv
  <2>4. QED BY <2>2, <2>3 DEF StopInv
<1>4. ASSUME NEW g \in Process, Unfreeze(g) \/ Crash(g) PROVE StopInv'
  <2>1. /\ UNCHANGED intent
        /\ frozen' = [frozen EXCEPT ![g] = FALSE]
        /\ stopped' = {a \in stopped : ProcessOf(a) # g}
    BY <1>4 DEF Unfreeze, Crash, callVars
  <2>2. /\ \A b \in Call : pc'[b] = pc[b] \/ pc'[b] = "crashed"
        /\ moved' \subseteq moved \cup {a \in Call : pc[a] = "rail" /\ pc'[a] = "crashed"}
    BY <1>4 DEF Unfreeze, Crash, callVars, GuardTypeOK, At, Detached, Over
  <2>3. \A b \in moved' : pc'[b] \notin Waiting \cup Gate
    BY <2>2 DEF StopInv, GuardTypeOK, Waiting, Gate
  <2>4. ASSUME NEW b \in stopped'
        PROVE  frozen'[ProcessOf(b)'] /\ b \notin moved' /\ pc'[b] \notin Rail
    <3>1. b \in stopped /\ b \in Call /\ ProcessOf(b) # g /\ ProcessOf(b)' = ProcessOf(b)
      BY <2>1, <2>4 DEF GuardTypeOK, ProcessOf
    <3>2. frozen'[ProcessOf(b)]
      BY <2>1, <3>1, CallTypes DEF StopInv, GuardTypeOK
    <3>3. pc[b] \notin Rail /\ b \notin moved
      BY <3>1 DEF StopInv
    <3>4. QED BY <2>2, <3>1, <3>2, <3>3 DEF Rail
  <2>5. QED BY <2>3, <2>4 DEF StopInv
<1>5. ASSUME NEW i \in ReservationId, ReleaseSpend(i) PROVE StopInv'
  BY <1>5 DEF ReleaseSpend, callVars, historyVars, StopInv, ProcessOf
<1>6. CASE GuardTick \/ UNCHANGED guardVars
  BY <1>6 DEF GuardTick, guardVars, callVars, historyVars, StopInv, ProcessOf
<1>7. QED BY <1>1, <1>2, <1>3, <1>4, <1>5, <1>6 DEF GuardNext, CallStep

(* A freeze in force stops every call that had not passed its last check   *)
(* when freeze() was called, however many awaits it was in the middle of. *)
THEOREM FreezeAlwaysHonoured == GuardSpec => []FreezeHonoured
<1>1. GuardInit => StopInv
  BY DEF GuardInit, StopInv
<1>2. StopInv => FreezeHonoured
  BY DEF StopInv, FreezeHonoured
<1>3. QED BY <1>1, <1>2, StopStep, GuardTypeCorrect, PTL DEF GuardSpec

-----------------------------------------------------------------------------
(* The money the rails moved. *)

(* What a step of the guard does to the limiter and to the history of its  *)
(* reservations. *)
LEMMA LimiterEffect ==
  ASSUME GuardTypeOK, [GuardNext]_guardVars
  PROVE  \/ UNCHANGED <<records, status, owner>>
         \/ UNCHANGED owner /\ \E i \in ReservationId : Commit(i) \/ Release(i)
         \/ \E a \in Call, ms \in (clock - MaxWait)..clock :
              /\ ReserveGranted(RequestOf(a, ms))
              /\ owner' = [owner EXCEPT ![Id(a)] = {a}]
<1> DEFINE Effect ==
      \/ UNCHANGED <<records, status, owner>>
      \/ UNCHANGED owner /\ \E i \in ReservationId : Commit(i) \/ Release(i)
      \/ \E a \in Call, ms \in (clock - MaxWait)..clock :
           /\ ReserveGranted(RequestOf(a, ms))
           /\ owner' = [owner EXCEPT ![Id(a)] = {a}]
<1> SUFFICES Effect
  OBVIOUS
<1> USE DEF Same
<1>1. ASSUME NEW a \in Call, TakeReservation(a) PROVE Effect
  BY <1>1 DEF TakeReservation, ReserveRefused, ReserveReplayed, limiterVars
<1>2. ASSUME NEW a \in Call, ReleaseBestEffort(a) \/ CommitBestEffort(a) PROVE Effect
  <2>1. /\ UNCHANGED owner
        /\ Release(Id(a)) \/ Commit(Id(a)) \/ UNCHANGED limiterVars
    BY <1>2 DEF ReleaseBestEffort, CommitBestEffort
  <2>2. QED BY <2>1, CallTypes DEF limiterVars
<1>3. ASSUME NEW a \in Call,
             Receive(a) \/ Approve(a) \/ EnterCommit(a) \/ LookUpUse(a) \/ ConsumeUse(a)
             \/ LastExit(a) \/ SettleFailed(a) \/ CaughtByRun(a) \/ Start(a) \/ RunRail(a)
             \/ SettleExecuted(a)
      PROVE  Effect
  BY <1>3 DEF Receive, Approve, EnterCommit, LookUpUse, ConsumeUse, LastExit, SettleFailed,
              CaughtByRun, Start, RunRail, SettleExecuted, limiterVars
<1>4. ASSUME NEW i \in ReservationId, ReleaseSpend(i) PROVE Effect
  BY <1>4 DEF ReleaseSpend, historyVars
<1>5. ASSUME NEW g \in Process, Freeze(g) \/ Unfreeze(g) \/ Crash(g) PROVE Effect
  BY <1>5 DEF Freeze, Unfreeze, Crash, limiterVars
<1>6. CASE GuardTick \/ UNCHANGED guardVars
  BY <1>6 DEF GuardTick, Tick, guardVars, historyVars, limiterVars
<1>7. QED BY <1>1, <1>2, <1>3, <1>4, <1>5, <1>6 DEF GuardNext, CallStep

-----------------------------------------------------------------------------
(* The guard adds records of its own policy only, and never in the place   *)
(* of one the store already held. *)
ScopeInv ==
  /\ \A r \in Legacy : status[r.id] = "committed" /\ owner[r.id] = {}
  /\ \A r \in records \ Legacy : r.scope = PolicyScope

LEMMA ScopeStep ==
  ASSUME GuardTypeOK, LimiterTypeOK, ScopeInv, [GuardNext]_guardVars
  PROVE  ScopeInv'
<1>0. \A r \in Legacy : r.id \in ReservationId
  BY LimiterAssumption DEF SpendRecord
<1>1. CASE UNCHANGED <<records, status, owner>>
  BY <1>1 DEF ScopeInv
<1>2. ASSUME UNCHANGED owner, NEW i \in ReservationId, Commit(i) \/ Release(i)
      PROVE  ScopeInv'
  <2>1. records' \subseteq records
    BY <1>2 DEF Commit, Release
  <2>2. \A r \in Legacy : status'[r.id] = "committed"
    BY <1>0, <1>2 DEF ScopeInv, Commit, Release, LimiterTypeOK
  <2>3. QED BY <1>2, <2>1, <2>2 DEF ScopeInv
<1>3. ASSUME NEW a \in Call, NEW ms \in (clock - MaxWait)..clock,
             ReserveGranted(RequestOf(a, ms)), owner' = [owner EXCEPT ![Id(a)] = {a}]
      PROVE  ScopeInv'
  <2>1. /\ records' = records \cup {RequestOf(a, ms)}
        /\ status' = [status EXCEPT ![Id(a)] = "reserved"]
        /\ status[Id(a)] = "none"
        /\ RequestOf(a, ms).scope = PolicyScope
    BY <1>3 DEF ReserveGranted, Replayed, RequestOf
  <2>2. \A r \in Legacy : r.id # Id(a)
    BY <2>1 DEF ScopeInv
  <2>3. \A r \in Legacy : status'[r.id] = "committed" /\ owner'[r.id] = {}
    BY <1>0, <1>3, <2>1, <2>2 DEF ScopeInv, LimiterTypeOK, GuardTypeOK
  <2>4. QED BY <2>1, <2>3 DEF ScopeInv
<1>4. QED BY <1>1, <1>2, <1>3, LimiterEffect

(* Each unit that moved is a unit the limiter counts in the same span, and *)
(* no two calls share one: the cap on records is a cap on money. *)
LEMMA MoneyIsCounted ==
  ASSUME BudgetInv, ScopeInv, SpanInv, NoSpendUnderBrokenConfig, MerchantKey # {}
  PROVE  MovedWithinCap
<1> SUFFICES ASSUME NEW w \in WindowsOf[PolicyScope], NEW c \in w.capMinor, NEW t \in 0..clock,
                    w.dimension = "scope",
                    {a \in moved : \A r \in Spent :
                       r.id = Id(a) => t - w.windowMs < r.ms /\ r.ms <= t} # {}
             PROVE  Cardinality({u \in {a \in moved : \A r \in Spent :
                                          r.id = Id(a) => t - w.windowMs < r.ms /\ r.ms <= t}
                                   \X (1..MaxSafeInteger) : u[2] <= Amount(u[1])}) <= c
  BY DEF MovedWithinCap
<1> DEFINE inside == {a \in moved : \A r \in Spent :
                        r.id = Id(a) => t - w.windowMs < r.ms /\ r.ms <= t}
           money == {u \in inside \X (1..MaxSafeInteger) : u[2] <= Amount(u[1])}
<1>1. PICK m : m \in MerchantKey
  OBVIOUS
<1> DEFINE S == Span(PolicyScope, w, {m}, t)
           rec == [a \in inside |-> CHOOSE r \in records : r.id = Id(a) /\ r.amount = Amount(a)]
<1>2. ASSUME NEW a \in inside
      PROVE  /\ rec[a] \in S \ Legacy /\ rec[a].id = Id(a) /\ rec[a].amount = Amount(a)
             /\ owner[Id(a)] = {a}
  <2>1. Budgeted(a)
    BY DEF BudgetInv, HoldsBudget, Holds, GuardTypeOK
  <2>2. rec[a] \in records /\ rec[a].id = Id(a) /\ rec[a].amount = Amount(a)
    BY <2>1 DEF Budgeted
  <2>3. t - w.windowMs < rec[a].ms /\ rec[a].ms <= t
    BY <2>2 DEF Spent
  <2>4. rec[a] \notin Legacy
    BY <2>1, <2>2 DEF ScopeInv, Budgeted
  <2>5. rec[a].scope = PolicyScope
    BY <2>2, <2>4 DEF ScopeInv
  <2>6. rec[a] \in S
    BY <2>2, <2>3, <2>5 DEF Span, Spent, SameMerchant
  <2>7. QED BY <2>1, <2>2, <2>4, <2>6 DEF Budgeted
<1>3. TotalMinor(S) <= c
  <2>1. t \in Stamp
    BY LimiterAssumption DEF BudgetInv, LimiterTypeOK, Stamp
  <2>2. S \ Legacy # {}
    BY <1>2
  <2>3. PolicyScope \in Scope
    BY GuardAssumption
  <2>4. QED BY <1>1, <2>1, <2>2, <2>3 DEF SpanInv, SpanTotalBounded
<1>4. IsFiniteSet(Units(S)) /\ Cardinality(Units(S)) \in Nat
  <2>1. IsFiniteSet(Spent)
    BY FS_Union DEF SpanInv, Spent
  <2>2. S \in SUBSET Spent
    BY DEF Span
  <2>3. QED BY <2>1, <2>2, FS_Subset, UnitsFinite
<1> HIDE DEF rec, S
<1> DEFINE f == [u \in money |-> <<rec[u[1]], u[2]>>]
<1>5. f \in Injection(money, Units(S))
  <2>1. ASSUME NEW u \in money
        PROVE  u = <<u[1], u[2]>> /\ u[1] \in inside /\ u[2] \in 1..MaxSafeInteger
               /\ u[2] <= Amount(u[1])
    OBVIOUS
  <2>2. ASSUME NEW u \in money PROVE f[u] \in Units(S)
    <3>1. f[u] = <<rec[u[1]], u[2]>>
      OBVIOUS
    <3>2. rec[u[1]] \in S /\ u[2] \in 1..MaxSafeInteger /\ u[2] <= rec[u[1]].amount
      BY <1>2, <2>1
    <3>3. <<rec[u[1]], u[2]>> \in Units(S)
      BY <3>2 DEF Units
    <3>4. QED BY <3>1, <3>3
  <2>3. ASSUME NEW u \in money, NEW v \in money, f[u] = f[v] PROVE u = v
    <3>0. f[u] = <<rec[u[1]], u[2]>> /\ f[v] = <<rec[v[1]], v[2]>>
      OBVIOUS
    <3>1. rec[u[1]] = rec[v[1]] /\ u[2] = v[2]
      BY <2>3, <3>0
    <3>2. owner[Id(u[1])] = {u[1]} /\ owner[Id(v[1])] = {v[1]} /\ Id(u[1]) = Id(v[1])
      BY <1>2, <2>1, <3>1
    <3>3. QED BY <2>1, <3>1, <3>2
  <2>4. QED BY <2>2, <2>3 DEF Injection, IsInjective
<1>6. Cardinality(money) <= Cardinality(Units(S)) /\ IsFiniteSet(money)
  BY <1>4, <1>5, FS_Injection
<1>7. Cardinality(money) \in Nat /\ c \in Int
  BY <1>6, FS_CardinalityType, LimiterAssumption, GuardAssumption
<1>8. QED BY <1>3, <1>4, <1>6, <1>7 DEF TotalMinor

-----------------------------------------------------------------------------
(* A mandated call that is past its consume step holds a use of its own,   *)
(* and a use that was won stays claimed. *)
Railed(a) == pc[a] \in {"lastExit"} \cup Rail \/ a \in moved

UseInv ==
  /\ \A a \in Call : Railed(a) /\ Mandated(a) => a \in consumed
  /\ \A m \in Mandate : \A a \in consumed : Under(a, m) => wins[m][Id(a)] > 0
  /\ \A m \in Mandate : \A a, b \in consumed :
       (Under(a, m) /\ Under(b, m) /\ Id(a) = Id(b)) => a = b
  /\ \A m \in Mandate, k \in UseKey : wins[m][k] > 0 => Claimed(m, k)

(* A step that wins no use and takes no call past its consume step. *)
LEMMA NoNewUse ==
  ASSUME UseInv, UNCHANGED <<intent, consumed, wins>>,
         \A m \in Mandate, k \in UseKey : Claimed(m, k) => Claimed(m, k)',
         \A a \in Call : Railed(a)' /\ Mandated(a) => Railed(a)
  PROVE  UseInv'
BY DEF UseInv, Mandated, Under, Id

(* settle() un-claims nothing. *)
LEMMA SettleKeepsClaims ==
  ASSUME ConsumeTypeOK, NEW m \in Mandate, NEW k \in UseKey, NEW o \in Outcome,
         SettleUse(m, k, o) \/ UNCHANGED consumeVars
  PROVE  wins' = wins /\ \A n \in Mandate, j \in UseKey : Claimed(n, j) => Claimed(n, j)'
<1>1. wins' = wins /\ (claims' = claims \/ claims' = [claims EXCEPT ![m][k].status = o])
  BY DEF SettleUse, consumeVars
<1>2. CASE claims' = claims
  BY <1>1, <1>2 DEF Claimed
<1>3. CASE claims' = [claims EXCEPT ![m][k].status = o]
  <2>1. claims'[m][k].status = o /\ o # "none"
    BY <1>3 DEF ConsumeTypeOK, Claim, Outcome
  <2>2. ASSUME NEW n \in Mandate, NEW j \in UseKey, ~(n = m /\ j = k)
        PROVE  claims'[n][j] = claims[n][j]
    BY <1>3, <2>2 DEF ConsumeTypeOK
  <2>3. QED BY <1>1, <2>1, <2>2 DEF Claimed
<1>4. QED BY <1>1, <1>2, <1>3

LEMMA UseKeys ==
  ASSUME GuardTypeOK, NEW a \in Call
  PROVE  /\ Id(a) \in UseKey /\ intent[a].digest \in Digest
         /\ intent[a].mandate \subseteq Mandate
         /\ \A m \in intent[a].mandate : intent[a].mandate = {m}
<1>1. intent[a] \in Intent
  BY GuardAssumption DEF GuardTypeOK
<1>2. intent[a].mandate \in {{}} \cup {{m} : m \in Mandate}
  BY <1>1 DEF Intent
<1>3. QED BY <1>1, <1>2 DEF Intent, Id

(* The one place a call wins a use: the registry grants a pair of mandate  *)
(* and intent id once. *)
LEMMA ConsumeKeepsUses ==
  ASSUME GuardTypeOK, ConsumeTypeOK, PathInv, UseInv, NEW a \in Call, ConsumeUse(a)
  PROVE  UseInv'
<1> USE DEF Same
<1>1. /\ UNCHANGED <<intent, moved>> /\ pc[a] = "claim" /\ a \notin moved
  BY DEF ConsumeUse, At, PathInv
<1>2. PICK m \in intent[a].mandate :
        \/ /\ UNCHANGED <<consumeVars, consumed>>
           /\ ReplayUse(a, m) \/ GiveBack(a, "denied")
        \/ /\ ClaimWon(m, Id(a), intent[a].digest)
           /\ \/ consumed' = consumed \cup {a} /\ (Goto(a, "lastExit") \/ Goto(a, "settleFailed"))
              \/ consumed' = consumed /\ Finish(a, "internal")
  BY DEF ConsumeUse, ClaimDuplicate, ClaimExhausted
<1>3. m \in Mandate /\ Id(a) \in UseKey /\ Under(a, m)
  BY UseKeys DEF Under
<1>4. \A b \in Call \ {a} : Railed(b)' => Railed(b)
  <2>1. \E p : pc' = [pc EXCEPT ![a] = p]
    BY <1>2, ReplayUseType, GiveBackType DEF Finish, Goto, Reply
  <2>2. QED BY <1>1, <2>1 DEF Railed, GuardTypeOK
<1>5. CASE UNCHANGED <<consumeVars, consumed>> /\ (ReplayUse(a, m) \/ GiveBack(a, "denied"))
  <2>1. ~Railed(a)'
    BY <1>1, <1>5, ReplayUseType, GiveBackType DEF Railed, Rail, Reply, GuardTypeOK
  <2>2. \A b \in Call : Railed(b)' /\ Mandated(b) => Railed(b)
    BY <1>4, <2>1
  <2>3. QED BY <1>1, <1>5, <2>2, NoNewUse DEF consumeVars, Claimed
<1>6. CASE ClaimWon(m, Id(a), intent[a].digest)
  <2>1. /\ ~Claimed(m, Id(a))
        /\ \A n \in Mandate, k \in UseKey :
             <<n, k>> # <<m, Id(a)>> => wins'[n][k] = wins[n][k] /\ claims'[n][k] = claims[n][k]
        /\ wins'[m][Id(a)] > 0 /\ Claimed(m, Id(a))'
    <3>1. /\ ~Claimed(m, Id(a))
          /\ claims' = [claims EXCEPT ![m][Id(a)] =
                          [status |-> "pending", digest |-> intent[a].digest]]
          /\ wins' = [wins EXCEPT ![m][Id(a)] = @ + 1]
      BY <1>6 DEF ClaimWon
    <3>2. claims'[m][Id(a)].status = "pending" /\ wins'[m][Id(a)] > 0
      BY <1>3, <3>1 DEF ConsumeTypeOK
    <3>3. Claimed(m, Id(a))'
      BY <1>1, <3>2 DEF Claimed, Id
    <3>4. ASSUME NEW n \in Mandate, NEW k \in UseKey, <<n, k>> # <<m, Id(a)>>
          PROVE  wins'[n][k] = wins[n][k] /\ claims'[n][k] = claims[n][k]
      BY <1>3, <3>1, <3>4 DEF ConsumeTypeOK
    <3>5. QED BY <3>1, <3>2, <3>3, <3>4
  <2>2. ~(wins[m][Id(a)] > 0)
    BY <1>3, <2>1 DEF UseInv
  <2>3. consumed' \in {consumed, consumed \cup {a}}
    BY <1>2, <1>6
  <2>4. \A n \in Mandate, k \in UseKey : wins'[n][k] > 0 => Claimed(n, k)'
    <3> SUFFICES ASSUME NEW n \in Mandate, NEW k \in UseKey, wins'[n][k] > 0
                 PROVE  Claimed(n, k)'
      OBVIOUS
    <3>1. CASE <<n, k>> = <<m, Id(a)>>
      BY <2>1, <3>1, <1>1 DEF Claimed, Id
    <3>2. CASE <<n, k>> # <<m, Id(a)>>
      BY <2>1, <3>2 DEF UseInv, Claimed
    <3>3. QED BY <3>1, <3>2
  <2>5. \A b \in consumed : b \in Call
    BY DEF GuardTypeOK
  <2>6. ASSUME NEW n \in Mandate, NEW b \in consumed', Under(b, n)
        PROVE  wins'[n][Id(b)] > 0
    <3>1. CASE b \in consumed
      BY <2>1, <2>5, <2>6, <3>1, UseKeys DEF UseInv
    <3>2. CASE b = a
      BY <1>3, <2>1, <2>6, <3>2 DEF Under
    <3>3. QED BY <2>3, <3>1, <3>2
  <2>7. ASSUME NEW n \in Mandate, NEW b \in consumed, Under(b, n), Under(a, n), Id(b) = Id(a)
        PROVE  FALSE
    <3>1. n = m
      BY <1>3, <2>7 DEF Under
    <3>2. wins[m][Id(a)] > 0
      BY <2>7, <3>1 DEF UseInv
    <3>3. QED BY <2>2, <3>2
  <2>8. ASSUME NEW n \in Mandate, NEW b \in consumed', NEW d \in consumed',
               Under(b, n), Under(d, n), Id(b) = Id(d)
        PROVE  b = d
    BY <2>3, <2>7, <2>8 DEF UseInv
  <2>9. ASSUME NEW b \in Call, Railed(b)', Mandated(b) PROVE b \in consumed'
    <3>1. CASE b # a
      BY <1>4, <2>3, <2>9, <3>1 DEF UseInv
    <3>2. CASE b = a
      <4>1. pc'[a] \in {"lastExit"} \cup Rail
        BY <1>1, <2>9, <3>2 DEF Railed
      <4>2. ~Finish(a, "internal") /\ ~ReplayUse(a, m) /\ ~GiveBack(a, "denied")
        BY ZenonT(40), <4>1, ReplayUseType, GiveBackType
          DEF Finish, Goto, Rail, Reply, GuardTypeOK
      <4>3. QED BY <1>2, <3>2, <4>2
    <3>3. QED BY <3>1, <3>2
  <2>10. \A b : Id(b)' = Id(b) /\ Mandated(b)' = Mandated(b) /\ \A n : Under(b, n)' = Under(b, n)
    BY <1>1 DEF Id, Mandated, Under
  <2>11. QED BY <2>4, <2>6, <2>8, <2>9, <2>10 DEF UseInv
<1>7. QED BY <1>2, <1>5, <1>6

(* Every step of the guard keeps the uses with their calls. *)
LEMMA UseStep ==
  ASSUME GuardTypeOK, ConsumeTypeOK, PathInv, UseInv, [GuardNext]_guardVars
  PROVE  UseInv'
<1> USE DEF Same
<1>1. ASSUME NEW a \in Call, ConsumeUse(a) PROVE UseInv'
  BY <1>1, ConsumeKeepsUses
<1>2. ASSUME NEW a \in Call, TakeReservation(a) PROVE UseInv'
  <2>1. /\ UNCHANGED <<intent, consumed, moved, consumeVars>>
        /\ \/ \E r : Finish(a, r)
           \/ Goto(a, "lookup")
           \/ Goto(a, "lastExit") /\ ~Mandated(a)
    BY <1>2 DEF TakeReservation
  <2>2. \A b \in Call : Railed(b)' /\ Mandated(b) => Railed(b)
    BY <2>1 DEF Railed, Rail, Finish, Goto, GuardTypeOK
  <2>3. QED BY <2>1, <2>2, NoNewUse DEF consumeVars, Claimed
<1>3. ASSUME NEW a \in Call,
             Receive(a) \/ Approve(a) \/ EnterCommit(a) \/ LookUpUse(a) \/ LastExit(a)
             \/ ReleaseBestEffort(a) \/ CaughtByRun(a)
      PROVE  UseInv'
  <2>1. UNCHANGED <<intent, consumed, moved, consumeVars>>
    BY <1>3 DEF Receive, Approve, EnterCommit, LookUpUse, LastExit, ReleaseBestEffort,
                CaughtByRun
  <2>2. \/ \E p \in Over \cup Exit \cup Waiting \cup {"reserve", "claim"} : Goto(a, p)
        \/ Goto(a, "starting") /\ pc[a] = "lastExit"
    <3>1. CASE LookUpUse(a)
      <4>1. \/ \E m : ReplayUse(a, m)
            \/ GiveBack(a, "denied")
            \/ Goto(a, "claim")
        BY <3>1 DEF LookUpUse
      <4>2. QED BY <4>1 DEF ReplayUse, GiveBack, Finish, Goto, Over, Exit
    <3>2. CASE ~LookUpUse(a)
      BY <1>3, <3>2 DEF Receive, Approve, EnterCommit, LastExit, ReleaseBestEffort, CaughtByRun,
                  Enqueue, Finish, GiveBack, At, Over, Exit, Waiting
    <3>3. QED BY <3>1, <3>2
  <2>3. \A b \in Call : Railed(b)' /\ Mandated(b) => Railed(b)
    BY <2>1, <2>2 DEF Railed, Rail, Goto, GuardTypeOK, Over, Exit, Waiting
  <2>4. QED BY <2>1, <2>3, NoNewUse DEF consumeVars, Claimed
<1>4. ASSUME NEW a \in Call, Start(a) \/ RunRail(a) \/ CommitBestEffort(a) \/ SettleExecuted(a)
             \/ SettleFailed(a)
      PROVE  UseInv'
  <2>1. UNCHANGED <<intent, consumed>>
    BY <1>4 DEF Start, RunRail, CommitBestEffort, SettleExecuted, SettleFailed
  <2>2. /\ moved' = moved \/ (pc[a] \in Rail /\ moved' = moved \cup {a})
        /\ \E p \in Rail \cup Over \cup Exit : Goto(a, p)
        /\ pc[a] \in Rail \/ \E p \in Over : Goto(a, p)
    BY <1>4 DEF Start, RunRail, CommitBestEffort, SettleExecuted, SettleFailed, Finish, At,
                Rail, Over, Exit
  <2>3. \A b \in Call : Railed(b)' /\ Mandated(b) => Railed(b)
    BY <2>2 DEF Railed, Rail, Over, Exit, Goto, GuardTypeOK
  <2>4. \/ UNCHANGED consumeVars
        \/ \E m \in Mandate, o \in Outcome : SettleUse(m, Id(a), o)
    BY <1>4, UseKeys
    DEF Start, RunRail, CommitBestEffort, SettleExecuted, SettleFailed, Outcome
  <2>5. wins' = wins /\ \A m \in Mandate, k \in UseKey : Claimed(m, k) => Claimed(m, k)'
    BY <2>4, UseKeys, SettleKeepsClaims DEF consumeVars, Claimed
  <2>6. QED BY <2>1, <2>3, <2>5, NoNewUse
<1>5. ASSUME NEW g \in Process, Crash(g) PROVE UseInv'
  <2>1. UNCHANGED <<intent, consumed, consumeVars>>
    BY <1>5 DEF Crash
  <2>2. /\ \A b \in Call : pc'[b] = pc[b] \/ pc'[b] = "crashed"
        /\ \A b \in moved' : b \in moved \/ pc[b] = "rail"
    BY <1>5 DEF Crash, At, GuardTypeOK
  <2>3. \A b \in Call : Railed(b)' /\ Mandated(b) => Railed(b)
    BY <2>2 DEF Railed, Rail
  <2>4. QED BY <2>1, <2>3, NoNewUse DEF consumeVars, Claimed
<1>6. ASSUME UNCHANGED <<intent, consumed, consumeVars, pc, moved>> PROVE UseInv'
  BY <1>6, NoNewUse DEF consumeVars, Claimed, Railed
<1>7. ASSUME NEW g \in Process, Freeze(g) \/ Unfreeze(g) PROVE UseInv'
  BY <1>6, <1>7 DEF Freeze, Unfreeze, callVars
<1>8. ASSUME NEW i \in ReservationId, ReleaseSpend(i) PROVE UseInv'
  BY <1>6, <1>8 DEF ReleaseSpend, callVars, historyVars
<1>9. CASE GuardTick \/ UNCHANGED guardVars
  BY <1>6, <1>9 DEF GuardTick, guardVars, callVars, historyVars
<1>10. QED
  BY <1>1, <1>2, <1>3, <1>4, <1>5, <1>7, <1>8, <1>9 DEF GuardNext, CallStep

(* The calls that paid under a mandate are no more than its uses. *)
LEMMA UsesArePaid ==
  ASSUME GuardTypeOK, UseInv, UsesWithinBudget
  PROVE  RailWithinMandate
<1> SUFFICES ASSUME NEW m \in Mandate
             PROVE  /\ Cardinality({a \in moved : Under(a, m)}) <= MaxUses[m]
                    /\ \A a, b \in {c \in moved : Under(c, m)} : Id(a) = Id(b) => a = b
  BY DEF RailWithinMandate
<1> DEFINE paid == {a \in moved : Under(a, m)}
           used == {k \in UseKey : wins[m][k] > 0}
<1>1. ASSUME NEW a \in paid PROVE a \in consumed /\ Id(a) \in used
  <2>1. a \in Call /\ Railed(a) /\ Mandated(a)
    BY DEF GuardTypeOK, Railed, Mandated, Under
  <2>2. QED BY <2>1, UseKeys DEF UseInv
<1>2. \A a, b \in paid : Id(a) = Id(b) => a = b
  BY <1>1 DEF UseInv
<1> DEFINE f == [a \in paid |-> Id(a)]
<1>3. f \in Injection(paid, used)
  <2>1. f \in [paid -> used]
    BY <1>1
  <2>2. \A a, b \in paid : f[a] = f[b] => a = b
    BY <1>2
  <2>3. QED BY <2>1, <2>2 DEF Injection, IsInjective
<1>4. IsFiniteSet(used)
  BY ConsumeAssumption, FS_Subset
<1>5. Cardinality(paid) <= Cardinality(used) /\ IsFiniteSet(paid)
  BY <1>3, <1>4, FS_Injection
<1>6. /\ Cardinality(paid) \in Nat /\ Cardinality(used) \in Nat
      /\ MaxUses[m] \in Nat /\ Cardinality(used) <= MaxUses[m]
  BY <1>4, <1>5, FS_CardinalityType, ConsumeAssumption DEF UsesWithinBudget
<1>7. QED BY <1>2, <1>5, <1>6

-----------------------------------------------------------------------------
(* Whoever reaches the rail has its own reservation, a use of its mandate  *)
(* and no freeze against it, and the money that moved is within every cap: *)
(* for every number of processes, calls, mandates, windows, crashes and    *)
(* store failures, as long as releaseSpend() is only called with proof and *)
(* records are kept as long as a waiting request may still ask for them. *)
THEOREM RailAlwaysSafe ==
  ASSUME ~MistakenRelease, PruneMargin >= MaxWait, MerchantKey # {}
  PROVE  GuardSpec => []RailIsSafe
<1> DEFINE Limits == LimiterTypeOK /\ SpanInv /\ NoSpendUnderBrokenConfig
           Uses == ConsumeTypeOK /\ UsesHold
           Inv == BudgetInv /\ ScopeInv /\ UseInv
<1>1. LimiterSpec => []Limits
  <2>1. LimiterInit => SpanInv /\ NoSpendUnderBrokenConfig
    BY SpanInvInit DEF LimiterInit, NoSpendUnderBrokenConfig, Spent
  <2>2. SpanInv /\ [LimiterNext]_limiterVars /\ LimiterTypeOK' => SpanInv'
    BY SpanInvStep
  <2>3. QED BY <2>1, <2>2, BrokenStaysUnspent, LimiterTypeCorrect, PTL DEF LimiterSpec
<1>2. ConsumeSpec => []Uses
  BY ConsumeTypeCorrect, ConsumeBudgetHolds, PTL
<1>3. GuardInit => Inv
  <2> SUFFICES ASSUME GuardInit PROVE Inv
    OBVIOUS
  <2>1. GuardTypeOK
    BY GuardAssumption DEF GuardInit, GuardTypeOK, Pc, Waiting, Reply
  <2>2. LimiterTypeOK
    BY LimiterAssumption DEF GuardInit, LimiterInit, LimiterTypeOK
  <2>3. PathInv /\ HoldsBudget
    BY DEF GuardInit, PathInv, HoldsBudget, Holds, Rail
  <2>4. ScopeInv
    BY LimiterAssumption DEF GuardInit, LimiterInit, ScopeInv, SpendRecord
  <2>5. UseInv
    BY DEF GuardInit, ConsumeInit, UseInv, Railed, Rail
  <2>6. QED BY <2>1, <2>2, <2>3, <2>4, <2>5 DEF BudgetInv
<1>4. Inv /\ [GuardNext]_guardVars /\ Uses /\ Limits' => Inv'
  <2> SUFFICES ASSUME Inv, [GuardNext]_guardVars, Uses, Limits' PROVE Inv'
    OBVIOUS
  <2>1. BudgetInv'
    BY BudgetStep
  <2>2. ScopeInv'
    BY ScopeStep DEF BudgetInv
  <2>3. UseInv'
    BY UseStep DEF BudgetInv
  <2>4. QED BY <2>1, <2>2, <2>3
<1>5. Inv /\ Limits /\ Uses /\ FreezeHonoured => RailIsSafe
  <2> SUFFICES ASSUME Inv, Limits, Uses, FreezeHonoured PROVE RailIsSafe
    OBVIOUS
  <2>1. RailIsBudgeted
    BY DEF BudgetInv, HoldsBudget, Holds, Budgeted, RailIsBudgeted
  <2>2. MovedWithinCap
    BY MoneyIsCounted
  <2>3. RailWithinMandate
    BY UsesArePaid DEF BudgetInv, UsesHold
  <2>4. QED BY <2>1, <2>2, <2>3 DEF RailIsSafe
<1>6. QED
  BY <1>1, <1>2, <1>3, <1>4, <1>5, GuardUsesLimiter, GuardUsesConsume, FreezeAlwaysHonoured, PTL
  DEF GuardSpec

-----------------------------------------------------------------------------
(* What the callers are told. *)

(* The limiter still holds what this call reserved. *)
Own(a) == owner[Id(a)] = {a} /\ status[Id(a)] # "none"

(* Where a call can be that has a reservation and has not given it back. *)
Placed(a) ==
  \/ a \in ours /\ pc[a] \in {"lookup", "claim", "lastExit", "giveback"} \cup Rail
  \/ pc[a] = "settleFailed" /\ reply[a] = "failed"
  \/ pc[a] = "done" /\ reply[a] \in {"internal", "executed", "failed"}
  \/ pc[a] = "crashed"
  \/ a \in limiterDegraded

Kept(a) == status[Id(a)] = "committed" \/ a \in limiterDegraded

(* The limiter's side of an answer. *)
BooksInv ==
  /\ \A a \in Call : Own(a) => Placed(a)
  /\ \A a \in Call : (a \in ours /\ pc[a] \in {"lookup", "claim", "lastExit", "giveback"}) =>
       status[Id(a)] = "reserved"
  /\ \A a \in Call : (pc[a] = "settleExecuted" \/ reply[a] = "executed") => Kept(a)
  /\ \A i \in ReservationId : status[i] = "committed" =>
       (\E r \in Legacy : r.id = i) \/ (\E a \in moved : Id(a) = i)
  /\ \A a \in Call : pc[a] \in {"commit", "settleExecuted"} => a \in moved
  /\ \A a \in Call : reply[a] = "executed" => pc[a] = "done"

(* Where a call can be that won a mandate use. *)
Landed(a) ==
  \/ pc[a] \in {"lastExit"} \cup Rail
  \/ pc[a] = "settleFailed" /\ reply[a] \in {"unbudgeted", "frozen", "failed"}
  \/ pc[a] = "giveback" /\ reply[a] = "frozen"
  \/ pc[a] = "done" /\ reply[a] \in {"frozen", "unbudgeted", "executed", "failed", "internal"}
  \/ pc[a] = "crashed"

(* The claim a call won is bound to its payment, open until the call is    *)
(* over, and never recorded as failed for one that executed. *)
Bound(a, c) ==
  /\ c.status # "none" /\ c.digest = intent[a].digest
  /\ pc[a] \notin Over => c.status = "pending"
  /\ reply[a] = "executed" => c.status # "failed"

(* The registry's side of an answer. *)
OutcomeInv ==
  /\ \A a \in consumed : Landed(a)
  /\ \A a \in Call : pc[a] \in {"settleFailed", "settleExecuted"} => a \in consumed
  /\ \A m \in Mandate : \A a \in consumed : Under(a, m) => Bound(a, claims[m][Id(a)])
  /\ \A m \in Mandate, k \in UseKey : claims[m][k].status = "executed" =>
       \E a \in moved : Under(a, m) /\ Id(a) = k /\ intent[a].digest = claims[m][k].digest
  /\ \A a \in Call : reply[a] = "executed" /\ Mandated(a) => a \in consumed

(* What a replay reported is still so. *)
ReplayInv ==
  /\ \A a \in Call : reply[a] = "replayed_failed" =>
       \E m \in intent[a].mandate : claims[m][Id(a)].status = "failed"
  /\ \A a \in Call : reply[a] = "replayed_executed" =>
       \/ \E b \in moved : /\ Id(b) = Id(a)
                           /\ Mandated(a) => /\ intent[b].mandate = intent[a].mandate
                                             /\ intent[b].digest = intent[a].digest
       \/ ~Mandated(a) /\ \E r \in Legacy : r.id = Id(a)

-----------------------------------------------------------------------------
(* The steps of a call that neither touch the limiter nor read a replay:   *)
(* from where to where they go, and what is answered. *)
QuietMove(a, p, r) ==
  \/ /\ pc[a] \in Waiting /\ p \in Waiting \cup {"reserve", "done"}
     /\ r = reply[a] \/ r \in {"denied", "frozen", "internal", "approval_rejected"}
  \/ pc[a] \in {"reserve", "lookup", "claim", "starting"} /\ p = "done" /\ r = "internal"
  \/ /\ pc[a] \in {"lookup", "claim"} /\ r \in {"denied"} \cup Replay
     /\ (p = "done" /\ a \notin ours) \/ (p = "giveback" /\ a \in ours)
  \/ pc[a] = "lookup" /\ p = "claim" /\ r = reply[a]
  \/ pc[a] = "claim" /\ p = "lastExit" /\ a \in ours /\ r = reply[a]
  \/ pc[a] = "claim" /\ p = "settleFailed" /\ a \notin ours /\ r = "unbudgeted"
  \/ /\ pc[a] = "lastExit" /\ r = "frozen"
     /\ (p = "done" /\ a \notin ours) \/ (p = "giveback" /\ a \in ours)
  \/ pc[a] = "lastExit" /\ p = "starting" /\ r = reply[a]
  \/ pc[a] = "starting" /\ p \in {"rail", "authorized"} /\ r = reply[a]
  \/ pc[a] \in {"rail", "authorized"} /\ p = "commit" /\ r = reply[a]
  \/ pc[a] \in {"rail", "authorized"} /\ p = "settleFailed" /\ a \in consumed /\ r = "failed"
  \/ pc[a] \in {"rail", "authorized"} /\ p = "done" /\ a \notin consumed /\ r = "failed"
  \/ pc[a] = "settleFailed" /\ p = "done" /\ r = reply[a]
  \/ pc[a] = "settleExecuted" /\ p = "done" /\ r = "executed"

Quiet(a) ==
  \/ Receive(a) \/ Approve(a) \/ EnterCommit(a) \/ LookUpUse(a) \/ ConsumeUse(a) \/ LastExit(a)
  \/ SettleFailed(a) \/ CaughtByRun(a) \/ Start(a) \/ RunRail(a) \/ SettleExecuted(a)

LEMMA GiveBackMoves ==
  ASSUME NEW a \in Call, NEW r, GiveBack(a, r)
  PROVE  /\ reply' = [reply EXCEPT ![a] = r]
         /\ \/ a \notin ours /\ pc' = [pc EXCEPT ![a] = "done"]
            \/ a \in ours /\ pc' = [pc EXCEPT ![a] = "giveback"]
BY DEF GiveBack, Finish, Goto, Answer

LEMMA ReplayUseMoves ==
  ASSUME NEW a \in Call, NEW m, ReplayUse(a, m)
  PROVE  \E r \in {"denied"} \cup Replay :
           /\ reply' = [reply EXCEPT ![a] = r]
           /\ \/ a \notin ours /\ pc' = [pc EXCEPT ![a] = "done"]
              \/ a \in ours /\ pc' = [pc EXCEPT ![a] = "giveback"]
<1>1. PICK r \in {"denied"} \cup Replay : GiveBack(a, r)
  BY DEF ReplayUse, Replay
<1>2. QED BY <1>1, GiveBackMoves

LEMMA QuietMoves ==
  ASSUME GuardTypeOK, NEW a \in Call, Quiet(a)
  PROVE  /\ \E p, r : /\ pc' = [pc EXCEPT ![a] = p] /\ reply' = [reply EXCEPT ![a] = r]
                      /\ QuietMove(a, p, r)
         /\ UNCHANGED <<intent, limiterVars, ours, owner, limiterDegraded>>
         /\ moved' = moved \/ (moved' = moved \cup {a} /\ pc[a] \in {"rail", "authorized"})
         /\ pc'[a] = "commit" => a \in moved'
<1> DEFINE Moves == \E p, r : /\ pc' = [pc EXCEPT ![a] = p] /\ reply' = [reply EXCEPT ![a] = r]
                              /\ QuietMove(a, p, r)
<1> USE DEF Same
<1>1. UNCHANGED <<intent, limiterVars, ours, owner, limiterDegraded>>
  BY DEF Quiet, Receive, Approve, EnterCommit, LookUpUse, ConsumeUse, LastExit, SettleFailed,
         CaughtByRun, Start, RunRail, SettleExecuted
<1>2. reply = [reply EXCEPT ![a] = reply[a]]
  BY DEF GuardTypeOK
<1>3. CASE Receive(a) \/ Approve(a) \/ EnterCommit(a)
  <2>1. /\ pc[a] \in Waiting /\ moved' = moved
        /\ \/ \E p \in {"approval", "queued", "approved", "reserve"} : Goto(a, p) /\ reply' = reply
           \/ \E r \in {"denied", "frozen", "internal", "approval_rejected"} : Finish(a, r)
    BY <1>3 DEF Receive, Approve, EnterCommit, Enqueue, At, Waiting
  <2>2. CASE \E p \in {"approval", "queued", "approved", "reserve"} : Goto(a, p) /\ reply' = reply
    <3>1. PICK p \in {"approval", "queued", "approved", "reserve"} : Goto(a, p) /\ reply' = reply
      BY <2>2
    <3>2. QuietMove(a, p, reply[a]) /\ p # "commit"
      BY <2>1 DEF QuietMove, Waiting
    <3>3. QED BY <1>1, <1>2, <2>1, <3>1, <3>2 DEF Goto, GuardTypeOK
  <2>3. CASE \E r \in {"denied", "frozen", "internal", "approval_rejected"} : Finish(a, r)
    <3>1. PICK r \in {"denied", "frozen", "internal", "approval_rejected"} : Finish(a, r)
      BY <2>3
    <3>2. QuietMove(a, "done", r)
      BY <2>1 DEF QuietMove
    <3>3. QED BY <1>1, <2>1, <3>1, <3>2 DEF Finish, Goto, Answer, GuardTypeOK
  <2>4. QED BY <2>1, <2>2, <2>3
<1>4. CASE LookUpUse(a)
  <2>1. /\ pc[a] = "lookup" /\ moved' = moved
        /\ \/ \E m : ReplayUse(a, m)
           \/ Goto(a, "claim") /\ reply' = reply
           \/ GiveBack(a, "denied")
    BY <1>4 DEF LookUpUse, At
  <2>2. Moves /\ pc'[a] # "commit"
    BY <1>2, <2>1, ReplayUseMoves, GiveBackMoves DEF QuietMove, Goto, GuardTypeOK
  <2>3. QED BY <1>1, <2>1, <2>2
<1>5. CASE ConsumeUse(a)
  <2>1. /\ pc[a] = "claim" /\ moved' = moved
        /\ \/ \E m : ReplayUse(a, m)
           \/ GiveBack(a, "denied")
           \/ Goto(a, "lastExit") /\ a \in ours /\ reply' = reply
           \/ Goto(a, "settleFailed") /\ a \notin ours /\ Answer(a, "unbudgeted")
           \/ Finish(a, "internal")
    BY <1>5 DEF ConsumeUse, At
  <2>2. Moves /\ pc'[a] # "commit"
    BY <1>2, <2>1, ReplayUseMoves, GiveBackMoves DEF QuietMove, Goto, Answer, Finish, GuardTypeOK
  <2>3. QED BY <1>1, <2>1, <2>2
<1>6. CASE LastExit(a)
  <2>1. /\ pc[a] = "lastExit" /\ moved' = moved
        /\ \/ GiveBack(a, "frozen")
           \/ Goto(a, "starting") /\ reply' = reply
    BY <1>6 DEF LastExit, At
  <2>2. Moves /\ pc'[a] # "commit"
    BY <1>2, <2>1, GiveBackMoves DEF QuietMove, Goto, GuardTypeOK
  <2>3. QED BY <1>1, <2>1, <2>2
<1>7. CASE SettleFailed(a) \/ SettleExecuted(a) \/ CaughtByRun(a) \/ Start(a)
  <2>1. /\ moved' = moved
        /\ \/ pc[a] = "settleFailed" /\ Goto(a, "done") /\ reply' = reply
           \/ pc[a] = "settleExecuted" /\ Finish(a, "executed")
           \/ pc[a] \in {"reserve", "lookup", "claim", "starting"} /\ Finish(a, "internal")
           \/ /\ pc[a] = "starting" /\ reply' = reply
              /\ Goto(a, "authorized") \/ Goto(a, "rail")
    BY <1>7 DEF SettleFailed, SettleExecuted, CaughtByRun, Start, At
  <2>2. Moves /\ pc'[a] # "commit"
    BY <1>2, <2>1 DEF QuietMove, Goto, Answer, Finish, GuardTypeOK
  <2>3. QED BY <1>1, <2>1, <2>2
<1>8. CASE RunRail(a)
  <2>1. /\ pc[a] \in {"rail", "authorized"}
        /\ moved' = moved \/ moved' = moved \cup {a}
        /\ \/ moved' = moved \cup {a} /\ Goto(a, "commit") /\ reply' = reply
           \/ a \in consumed /\ Goto(a, "settleFailed") /\ Answer(a, "failed")
           \/ a \notin consumed /\ Finish(a, "failed")
    BY <1>8 DEF RunRail
  <2>2. Moves
    BY <1>2, <2>1 DEF QuietMove, Goto, Answer, Finish
  <2>3. pc'[a] = "commit" => a \in moved'
    BY <2>1 DEF Goto, Finish, GuardTypeOK
  <2>4. QED BY <1>1, <2>1, <2>2, <2>3
<1>9. QED BY <1>3, <1>4, <1>5, <1>6, <1>7, <1>8 DEF Quiet

-----------------------------------------------------------------------------
(* A reservation that was granted is the caller's, and nobody else's. *)
LEMMA ReservationBooks ==
  ASSUME BudgetInv, BooksInv, NEW a \in Call, TakeReservation(a)
  PROVE  BooksInv'
<1> USE DEF BudgetInv, GuardTypeOK, LimiterTypeOK
<1>1. PICK ms \in (clock - MaxWait)..clock, p \in {"done", "lookup", "lastExit"}, r \in Reply :
        /\ pc' = [pc EXCEPT ![a] = p] /\ reply' = [reply EXCEPT ![a] = r] /\ r # "executed"
        /\ \/ UNCHANGED <<records, status, owner, ours>> /\ p # "lastExit"
           \/ /\ ReserveGranted(RequestOf(a, ms))
              /\ owner' = [owner EXCEPT ![Id(a)] = {a}]
              /\ (p # "done" /\ ours' = ours \cup {a})
                   \/ (p = "done" /\ r = "internal" /\ ours' = ours)
  <2>1. pc[a] = "reserve"
    BY DEF TakeReservation, At
  <2>2. reply[a] \in Reply /\ reply[a] # "executed" /\ reply = [reply EXCEPT ![a] = reply[a]]
    BY <2>1 DEF BooksInv
  <2>3. QED
    BY <2>2 DEF TakeReservation, ReserveRefused, ReserveReplayed, limiterVars, Finish, Goto, Answer,
                Reply, Replay
<1>2. /\ pc[a] = "reserve" /\ a \notin ours /\ reply[a] # "executed"
      /\ UNCHANGED <<intent, moved, limiterDegraded>>
  BY DEF TakeReservation, At, PathInv, Same, BooksInv
<1>3. /\ pc'[a] = p /\ reply'[a] = r
      /\ \A b \in Call \ {a} : pc'[b] = pc[b] /\ reply'[b] = reply[b] /\ (b \in ours' <=> b \in ours)
      /\ \A b : Id(b)' = Id(b)
      /\ \A b \in Call : Id(b) \in ReservationId
  BY <1>1, <1>2, CallTypes DEF Id
<1>4. CASE UNCHANGED <<records, status, owner, ours>> /\ p # "lastExit"
  <2>1. \A b \in Call : Own(b)' => Own(b)
    BY <1>3, <1>4 DEF Own
  <2>2. \A b \in Call : Own(b)' => Placed(b)'
    BY <1>2, <1>3, <1>4, <2>1 DEF BooksInv, Placed, Rail
  <2>3. QED BY <1>1, <1>2, <1>3, <1>4, <2>2 DEF BooksInv, Kept
<1>5. CASE /\ ReserveGranted(RequestOf(a, ms))
           /\ owner' = [owner EXCEPT ![Id(a)] = {a}]
           /\ (p # "done" /\ ours' = ours \cup {a}) \/ (p = "done" /\ r = "internal" /\ ours' = ours)
  <2>1. /\ status' = [status EXCEPT ![Id(a)] = "reserved"]
        /\ status[Id(a)] = "none"
    BY <1>5 DEF ReserveGranted, Replayed, RequestOf
  <2>2. /\ status'[Id(a)] = "reserved" /\ owner'[Id(a)] = {a}
        /\ \A i \in ReservationId \ {Id(a)} : status'[i] = status[i] /\ owner'[i] = owner[i]
    BY <1>3, <1>5, <2>1
  <2>3. ASSUME NEW b \in Call \ {a}, Own(b)' PROVE Placed(b)'
    <3>1. Id(b) # Id(a)
      BY <1>3, <2>2, <2>3 DEF Own
    <3>2. Own(b)
      BY <1>3, <2>2, <2>3, <3>1 DEF Own
    <3>3. QED BY <1>2, <1>3, <3>2 DEF BooksInv, Placed
  <2>4. Placed(a)'
    BY <1>3, <1>5 DEF Placed, Reply
  <2>5. ASSUME NEW b \in Call, b \in ours', pc'[b] \in {"lookup", "claim", "lastExit", "giveback"}
        PROVE  status'[Id(b)] = "reserved"
    BY <1>3, <2>2, <2>5 DEF BooksInv
  <2>6. \A b \in Call \ {a} : (pc'[b] = "settleExecuted" \/ reply'[b] = "executed") => Kept(b)'
    <3> SUFFICES ASSUME NEW b \in Call \ {a}, pc'[b] = "settleExecuted" \/ reply'[b] = "executed"
                 PROVE  Kept(b)'
      OBVIOUS
    <3>1. Kept(b)
      BY <1>3 DEF BooksInv
    <3>2. QED BY <1>2, <1>3, <2>1, <2>2, <3>1 DEF Kept
  <2>7. pc'[a] # "settleExecuted" /\ reply'[a] # "executed" /\ pc'[a] # "commit"
    BY <1>1, <1>3
  <2>8. \A i \in ReservationId : status'[i] = "committed" =>
          (\E q \in Legacy : q.id = i) \/ (\E b \in moved' : Id(b)' = i)
    BY <1>2, <1>3, <2>2 DEF BooksInv
  <2>9. \A b \in Call : pc'[b] \in {"commit", "settleExecuted"} => b \in moved'
    BY <1>2, <1>3, <2>7 DEF BooksInv
  <2>10. \A b \in Call : reply'[b] = "executed" => pc'[b] = "done"
    BY <1>3, <2>7 DEF BooksInv
  <2>11. QED BY <1>3, <2>3, <2>4, <2>5, <2>6, <2>7, <2>8, <2>9, <2>10 DEF BooksInv
<1>6. QED BY <1>1, <1>4, <1>5

(* A commit of the holder's own reservation. *)
LEMMA CommitBooks ==
  ASSUME BudgetInv, BooksInv, NEW a \in Call, CommitBestEffort(a)
  PROVE  BooksInv'
<1> USE DEF BudgetInv, GuardTypeOK, LimiterTypeOK
<1>1. PICK p \in {"settleExecuted", "done"}, r \in Reply :
        /\ pc' = [pc EXCEPT ![a] = p] /\ reply' = [reply EXCEPT ![a] = r]
        /\ (p = "settleExecuted" /\ r = reply[a]) \/ (p = "done" /\ r = "executed")
  <2>1. reply[a] \in Reply /\ reply = [reply EXCEPT ![a] = reply[a]]
    OBVIOUS
  <2>2. QED BY <2>1 DEF CommitBestEffort, Finish, Goto, Answer, Reply
<1>2. /\ pc[a] = "commit" /\ a \in moved /\ UNCHANGED <<intent, moved, ours, owner>>
      /\ \/ Commit(Id(a)) /\ limiterDegraded' = limiterDegraded
         \/ /\ Commit(Id(a)) \/ UNCHANGED limiterVars
            /\ limiterDegraded' = limiterDegraded \cup {a}
  BY DEF CommitBestEffort, At, Same, BooksInv
<1>3. /\ pc'[a] = p /\ reply'[a] = r
      /\ \A b \in Call \ {a} : pc'[b] = pc[b] /\ reply'[b] = reply[b]
      /\ \A b : Id(b)' = Id(b)
      /\ \A b \in Call : Id(b) \in ReservationId
  BY <1>1, <1>2, CallTypes DEF Id
<1>4. Budgeted(a)
  BY <1>2 DEF HoldsBudget, Holds, Rail
<1>5. /\ \A i \in ReservationId \ {Id(a)} : status'[i] = status[i]
      /\ status'[Id(a)] \in {status[Id(a)], "committed"}
      /\ a \notin limiterDegraded' => status'[Id(a)] = "committed"
  BY <1>2, <1>3, <1>4 DEF Commit, limiterVars, Budgeted
<1>6. ASSUME NEW b \in Call, Own(b)' PROVE Placed(b)'
  <2>1. Own(b)
    BY <1>2, <1>3, <1>4, <1>5, <1>6 DEF Own, Budgeted
  <2>2. Placed(b)
    BY <2>1 DEF BooksInv
  <2>3. QED BY <1>1, <1>2, <1>3, <2>2 DEF Placed, Rail
<1>7. ASSUME NEW b \in Call, b \in ours', pc'[b] \in {"lookup", "claim", "lastExit", "giveback"}
      PROVE  status'[Id(b)] = "reserved"
  <2>1. b # a /\ b \in ours /\ pc'[b] = pc[b]
    BY <1>1, <1>2, <1>3, <1>7
  <2>2. Budgeted(b)
    BY <1>7, <2>1 DEF HoldsBudget, Holds
  <2>3. Id(b) # Id(a)
    BY <1>4, <2>1, <2>2 DEF Budgeted
  <2>4. QED BY <1>3, <1>5, <1>7, <2>1, <2>3 DEF BooksInv
<1>8. ASSUME NEW b \in Call, pc'[b] = "settleExecuted" \/ reply'[b] = "executed" PROVE Kept(b)'
  <2>1. CASE b = a
    BY <1>3, <1>5, <2>1 DEF Kept
  <2>2. CASE b # a
    <3>1. Kept(b)
      BY <1>3, <1>8, <2>2 DEF BooksInv
    <3>2. QED BY <1>2, <1>3, <1>5, <3>1 DEF Kept
  <2>3. QED BY <2>1, <2>2
<1>9. \A i \in ReservationId : status'[i] = "committed" =>
        (\E q \in Legacy : q.id = i) \/ (\E b \in moved' : Id(b)' = i)
  BY <1>2, <1>3, <1>5 DEF BooksInv
<1>10. \A b \in Call : /\ pc'[b] \in {"commit", "settleExecuted"} => b \in moved'
                       /\ reply'[b] = "executed" => pc'[b] = "done"
  BY <1>1, <1>2, <1>3 DEF BooksInv
<1>11. QED BY <1>3, <1>6, <1>7, <1>8, <1>9, <1>10 DEF BooksInv

(* A release takes what its caller reserved, and never committed money. *)
LEMMA ReleaseBooks ==
  ASSUME BudgetInv, BooksInv, NEW i \in ReservationId,
         Release(i) \/ UNCHANGED limiterVars, UNCHANGED <<intent, owner, ours, moved>>,
         limiterDegraded \subseteq limiterDegraded',
         \A b \in Call : Own(b)' /\ Placed(b) => Placed(b)',
         \A b \in Call : (b \in ours /\ pc'[b] \in {"lookup", "claim", "lastExit", "giveback"}) =>
           pc[b] = pc'[b] /\ (Id(b) # i \/ UNCHANGED status),
         \A b \in Call : pc'[b] \in {"commit", "settleExecuted"} => pc[b] = pc'[b],
         \A b \in Call : pc[b] = "done" => pc'[b] = "done",
         UNCHANGED reply
  PROVE  BooksInv'
<1> USE DEF BudgetInv, GuardTypeOK, LimiterTypeOK
<1>1. /\ \A j \in ReservationId \ {i} : status'[j] = status[j]
      /\ status'[i] = status[i] \/ (status[i] = "reserved" /\ status'[i] = "none")
  BY DEF Release, limiterVars
<1>2. \A b : Id(b)' = Id(b)
  BY DEF Id
<1>3. \A b \in Call : Id(b) \in ReservationId
  BY CallTypes
<1>4. ASSUME NEW b \in Call, Own(b)' PROVE Placed(b)'
  <2>1. Own(b)
    BY <1>1, <1>2, <1>3, <1>4 DEF Own
  <2>2. QED BY <1>4, <2>1 DEF BooksInv
<1>5. ASSUME NEW b \in Call, b \in ours', pc'[b] \in {"lookup", "claim", "lastExit", "giveback"}
      PROVE  status'[Id(b)] = "reserved"
  BY <1>1, <1>2, <1>3, <1>5 DEF BooksInv
<1>6. ASSUME NEW b \in Call, pc'[b] = "settleExecuted" \/ reply'[b] = "executed" PROVE Kept(b)'
  <2>1. Kept(b)
    BY <1>6 DEF BooksInv
  <2>2. QED BY <1>1, <1>2, <1>3, <2>1 DEF Kept
<1>7. \A j \in ReservationId : status'[j] = "committed" =>
        (\E q \in Legacy : q.id = j) \/ (\E b \in moved' : Id(b)' = j)
  BY <1>1, <1>2 DEF BooksInv
<1>8. \A b \in Call : /\ pc'[b] \in {"commit", "settleExecuted"} => b \in moved'
                      /\ reply'[b] = "executed" => pc'[b] = "done"
  BY DEF BooksInv
<1>9. QED BY <1>2, <1>4, <1>5, <1>6, <1>7, <1>8 DEF BooksInv

(* Every step of the guard keeps the books. *)
LEMMA BooksStep ==
  ASSUME ~MistakenRelease, BudgetInv, BooksInv, [GuardNext]_guardVars
  PROVE  BooksInv'
<1> USE DEF BudgetInv, GuardTypeOK, LimiterTypeOK
<1>1. ASSUME NEW a \in Call, Quiet(a) PROVE BooksInv'
  <2>1. PICK p, r : /\ pc' = [pc EXCEPT ![a] = p] /\ reply' = [reply EXCEPT ![a] = r]
                    /\ QuietMove(a, p, r)
    BY <1>1, QuietMoves
  <2>2. /\ UNCHANGED <<intent, records, status, ours, owner, limiterDegraded>>
        /\ moved \subseteq moved'
        /\ pc'[a] = "commit" => a \in moved'
    BY <1>1, QuietMoves DEF limiterVars
  <2>3. /\ pc'[a] = p /\ reply'[a] = r
        /\ \A b \in Call \ {a} : pc'[b] = pc[b] /\ reply'[b] = reply[b]
        /\ \A b : /\ Id(b)' = Id(b) /\ (Own(b)' <=> Own(b)) /\ (Kept(b)' <=> Kept(b))
    BY <2>1, <2>2 DEF Id, Own, Kept
  <2>4. reply[a] = "executed" => pc[a] = "done"
    BY DEF BooksInv
  <2>5. pc[a] # "done" /\ reply[a] # "executed"
    BY <2>1, <2>4 DEF QuietMove, Waiting
  <2>6. ASSUME Own(a) PROVE Placed(a)'
    <3>1. Placed(a)
      BY <2>6 DEF BooksInv
    <3>2. CASE a \in limiterDegraded
      BY <2>2, <3>2 DEF Placed
    <3>3. CASE a \in ours /\ pc[a] \in {"lookup", "claim", "lastExit", "giveback"} \cup Rail
      BY <2>1, <2>2, <2>3, <3>3 DEF Placed, Rail, QuietMove, Waiting
    <3>4. CASE pc[a] = "settleFailed" /\ reply[a] = "failed"
      BY <2>1, <2>3, <3>4 DEF Placed, QuietMove, Waiting
    <3>5. CASE pc[a] = "crashed"
      BY <2>1, <3>5 DEF QuietMove, Waiting
    <3>6. QED BY <2>5, <3>1, <3>2, <3>3, <3>4, <3>5 DEF Placed
  <2>7. \A b \in Call : Own(b)' => Placed(b)'
    <3>1. \A b \in Call \ {a} : Placed(b) => Placed(b)'
      BY <2>2, <2>3 DEF Placed
    <3>2. QED BY <2>3, <2>6, <3>1 DEF BooksInv
  <2>8. (a \in ours /\ p \in {"lookup", "claim", "lastExit", "giveback"}) =>
          pc[a] \in {"lookup", "claim", "lastExit", "giveback"}
    BY <2>1 DEF QuietMove, Waiting
  <2>9. (p = "settleExecuted" \/ r = "executed") => Kept(a)
    BY <2>1, <2>5 DEF QuietMove, Waiting, BooksInv, Replay
  <2>10. p = "settleExecuted" => FALSE
    BY <2>1 DEF QuietMove, Waiting
  <2>11. r = "executed" => p = "done"
    BY <2>1, <2>5 DEF QuietMove, Waiting, Replay
  <2>12. \A b \in Call : (b \in ours' /\ pc'[b] \in {"lookup", "claim", "lastExit", "giveback"}) =>
           status'[Id(b)] = "reserved"
    BY <2>2, <2>3, <2>8 DEF BooksInv
  <2>13. \A b \in Call : (pc'[b] = "settleExecuted" \/ reply'[b] = "executed") => Kept(b)'
    BY <2>3, <2>9 DEF BooksInv
  <2>14. \A i \in ReservationId : status'[i] = "committed" =>
           (\E q \in Legacy : q.id = i) \/ (\E b \in moved' : Id(b)' = i)
    BY <2>2, <2>3 DEF BooksInv
  <2>15. \A b \in Call : /\ pc'[b] \in {"commit", "settleExecuted"} => b \in moved'
                         /\ reply'[b] = "executed" => pc'[b] = "done"
    BY <2>2, <2>3, <2>10, <2>11 DEF BooksInv
  <2>16. QED BY <2>3, <2>7, <2>12, <2>13, <2>14, <2>15 DEF BooksInv
<1>2. ASSUME NEW a \in Call, TakeReservation(a) PROVE BooksInv'
  BY <1>2, ReservationBooks
<1>3. ASSUME NEW a \in Call, CommitBestEffort(a) PROVE BooksInv'
  BY <1>3, CommitBooks
<1>4. ASSUME NEW a \in Call, ReleaseBestEffort(a) PROVE BooksInv'
  <2>1. /\ Release(Id(a)) \/ UNCHANGED limiterVars
        /\ UNCHANGED <<intent, owner, ours, moved, reply>>
        /\ pc[a] = "giveback"
        /\ \/ Release(Id(a)) /\ limiterDegraded' = limiterDegraded
           \/ limiterDegraded' = limiterDegraded \cup {a}
    BY <1>4 DEF ReleaseBestEffort, At, Same
  <2>2. PICK p \in {"settleFailed", "done"} : pc' = [pc EXCEPT ![a] = p]
    BY <1>4 DEF ReleaseBestEffort, Goto
  <2>3. pc'[a] = p /\ \A b \in Call \ {a} : pc'[b] = pc[b]
    BY <2>2
  <2>4. a \in ours /\ Budgeted(a)
    BY <2>1 DEF PathInv, HoldsBudget, Holds
  <2>5. Id(a) \in ReservationId /\ Id(a)' = Id(a)
    BY <2>1, CallTypes DEF Id
  <2>6. status[Id(a)] = "reserved"
    BY <2>1, <2>4 DEF BooksInv
  <2>7. Own(a)' => a \in limiterDegraded'
    BY <2>1, <2>5, <2>6 DEF Own, Release
  <2>8. \A b \in Call : Own(b)' /\ Placed(b) => Placed(b)'
    BY <2>1, <2>3, <2>7 DEF Placed
  <2>9. ASSUME NEW b \in Call, b \in ours, pc'[b] \in {"lookup", "claim", "lastExit", "giveback"}
        PROVE  pc[b] = pc'[b] /\ Id(b) # Id(a)
    <3>1. b # a /\ pc'[b] = pc[b]
      BY <2>3, <2>9
    <3>2. Budgeted(b)
      BY <2>9, <3>1 DEF HoldsBudget, Holds
    <3>3. QED BY <2>4, <3>1, <3>2 DEF Budgeted
  <2>10. limiterDegraded \subseteq limiterDegraded'
    BY <2>1
  <2>11. \A b \in Call : /\ pc'[b] \in {"commit", "settleExecuted"} => pc[b] = pc'[b]
                         /\ pc[b] = "done" => pc'[b] = "done"
    BY <2>1, <2>3
  <2>12. QED BY <2>1, <2>5, <2>8, <2>9, <2>10, <2>11, ReleaseBooks
<1>5. ASSUME NEW i \in ReservationId, ReleaseSpend(i) PROVE BooksInv'
  <2>1. /\ Release(i) /\ ReleaseProven(i)
        /\ UNCHANGED <<intent, owner, ours, moved, reply, pc, limiterDegraded>>
    BY <1>5 DEF ReleaseSpend, callVars, historyVars
  <2>2. ASSUME NEW b \in Call, b \in ours, pc[b] \in {"lookup", "claim", "lastExit", "giveback"}
        PROVE  Id(b) # i
    <3>1. owner[Id(b)] = {b}
      BY <2>2 DEF HoldsBudget, Holds, Budgeted
    <3>2. QED BY <2>1, <2>2, <3>1 DEF ReleaseProven, Over
  <2>3. \A b \in Call : Placed(b)' <=> Placed(b)
    BY <2>1 DEF Placed
  <2>4. QED BY <2>1, <2>2, <2>3, ReleaseBooks
<1>6. ASSUME NEW g \in Process, Crash(g) PROVE BooksInv'
  <2>1. /\ UNCHANGED <<intent, records, status, ours, owner, limiterDegraded, reply>>
        /\ moved \subseteq moved'
    BY <1>6 DEF Crash, limiterVars
  <2>2. \A b \in Call : pc'[b] = pc[b] \/ (pc[b] \notin Over /\ pc'[b] = "crashed")
    BY <1>6 DEF Crash
  <2>3. \A b : Id(b)' = Id(b) /\ (Own(b)' <=> Own(b)) /\ (Kept(b)' <=> Kept(b))
    BY <2>1 DEF Id, Own, Kept
  <2>4. \A b \in Call : Placed(b) => Placed(b)'
    BY <2>1, <2>2 DEF Placed
  <2>5. \A b \in Call : (b \in ours' /\ pc'[b] \in {"lookup", "claim", "lastExit", "giveback"}) =>
           status'[Id(b)] = "reserved"
    BY <2>1, <2>2 DEF BooksInv
  <2>6. \A b \in Call : (pc'[b] = "settleExecuted" \/ reply'[b] = "executed") => Kept(b)'
    BY <2>1, <2>2, <2>3 DEF BooksInv
  <2>7. \A i \in ReservationId : status'[i] = "committed" =>
           (\E q \in Legacy : q.id = i) \/ (\E b \in moved' : Id(b)' = i)
    BY <2>1, <2>3 DEF BooksInv
  <2>8. \A b \in Call : /\ pc'[b] \in {"commit", "settleExecuted"} => b \in moved'
                        /\ reply'[b] = "executed" => pc'[b] = "done"
    BY <2>1, <2>2 DEF BooksInv, Over
  <2>9. QED BY <2>3, <2>4, <2>5, <2>6, <2>7, <2>8 DEF BooksInv
<1>7. ASSUME UNCHANGED <<intent, status, ours, owner, limiterDegraded, reply, pc, moved>>
      PROVE  BooksInv'
  <2>1. \A b : Id(b)' = Id(b) /\ (Own(b)' <=> Own(b)) /\ (Kept(b)' <=> Kept(b))
               /\ (Placed(b)' <=> Placed(b))
    BY <1>7 DEF Id, Own, Kept, Placed
  <2>2. QED BY <1>7, <2>1 DEF BooksInv
<1>8. ASSUME NEW g \in Process, Freeze(g) \/ Unfreeze(g) PROVE BooksInv'
  BY <1>7, <1>8 DEF Freeze, Unfreeze, callVars, limiterVars
<1>9. CASE GuardTick \/ UNCHANGED guardVars
  BY <1>7, <1>9 DEF GuardTick, Tick, guardVars, callVars, historyVars, limiterVars
<1>10. QED
  BY <1>1, <1>2, <1>3, <1>4, <1>5, <1>6, <1>8, <1>9 DEF GuardNext, CallStep, Quiet

-----------------------------------------------------------------------------
(* settle() closes the open claim it is for, and changes nothing else. *)
LEMMA SettleEffect ==
  ASSUME ConsumeTypeOK, NEW m \in Mandate, NEW k \in UseKey, NEW o \in Outcome,
         SettleUse(m, k, o)
  PROVE  /\ \A n \in Mandate, j \in UseKey : ~(n = m /\ j = k) => claims'[n][j] = claims[n][j]
         /\ claims'[m][k].digest = claims[m][k].digest
         /\ claims'[m][k].status = IF claims[m][k].status = "pending" THEN o
                                   ELSE claims[m][k].status
<1>1. CASE claims[m][k].status = "pending"
  <2>1. claims' = [claims EXCEPT ![m][k].status = o]
    BY <1>1 DEF SettleUse
  <2>2. claims'[m][k] = [claims[m][k] EXCEPT !.status = o]
    BY <2>1 DEF ConsumeTypeOK
  <2>3. claims'[m][k].status = o /\ claims'[m][k].digest = claims[m][k].digest
    BY <2>2 DEF ConsumeTypeOK, Claim
  <2>4. \A n \in Mandate, j \in UseKey : ~(n = m /\ j = k) => claims'[n][j] = claims[n][j]
    BY <2>1 DEF ConsumeTypeOK
  <2>5. QED BY <1>1, <2>3, <2>4
<1>2. CASE claims[m][k].status # "pending"
  BY <1>2 DEF SettleUse
<1>3. QED BY <1>1, <1>2

(* A claim that is won was nobody's. *)
LEMMA WonEffect ==
  ASSUME ConsumeTypeOK, NEW m \in Mandate, NEW k \in UseKey, NEW d \in Digest,
         ClaimWon(m, k, d)
  PROVE  /\ \A n \in Mandate, j \in UseKey : ~(n = m /\ j = k) => claims'[n][j] = claims[n][j]
         /\ claims'[m][k] = [status |-> "pending", digest |-> d]
         /\ claims[m][k].status = "none"
BY DEF ClaimWon, Claimed, ConsumeTypeOK

(* Steps that leave the registry and its winners alone. *)
LEMMA SameOutcomes ==
  ASSUME GuardTypeOK, OutcomeInv, UNCHANGED <<intent, claims, consumed>>, moved \subseteq moved',
         \A b \in consumed : Landed(b) => Landed(b)',
         \A b \in Call : pc'[b] \in {"settleFailed", "settleExecuted"} => b \in consumed,
         \A b \in consumed : pc'[b] \notin Over => pc[b] \notin Over,
         \A b \in Call : reply'[b] = "executed" =>
           \/ reply[b] = "executed"
           \/ pc[b] \notin Over /\ (Mandated(b) => b \in consumed)
  PROVE  OutcomeInv'
<1>1. \A b : Id(b)' = Id(b) /\ Mandated(b)' = Mandated(b) /\ \A m : Under(b, m)' = Under(b, m)
  BY DEF Id, Mandated, Under
<1>2. \A b \in consumed : b \in Call
  BY DEF GuardTypeOK
<1>3. ASSUME NEW m \in Mandate, NEW b \in consumed', Under(b, m) PROVE Bound(b, claims[m][Id(b)])'
  <2>1. Bound(b, claims[m][Id(b)])
    BY <1>3 DEF OutcomeInv
  <2>2. pc'[b] \notin Over => claims[m][Id(b)].status = "pending"
    BY <1>3, <2>1 DEF Bound
  <2>3. reply'[b] = "executed" => claims[m][Id(b)].status # "failed"
    BY <1>2, <1>3, <2>1 DEF Bound
  <2>4. QED BY <1>1, <2>1, <2>2, <2>3 DEF Bound
<1>4. \A b \in consumed' : Landed(b)'
  BY DEF OutcomeInv
<1>5. \A m \in Mandate, k \in UseKey : claims'[m][k].status = "executed" =>
        \E a \in moved' : Under(a, m)' /\ Id(a)' = k /\ intent'[a].digest = claims'[m][k].digest
  BY <1>1 DEF OutcomeInv
<1>6. \A b \in Call : reply'[b] = "executed" /\ Mandated(b) => b \in consumed'
  BY DEF OutcomeInv
<1>7. QED BY <1>1, <1>3, <1>4, <1>5, <1>6 DEF OutcomeInv

(* The winner's claim is its own, and open. *)
LEMMA ConsumeOutcomes ==
  ASSUME GuardTypeOK, ConsumeTypeOK, OutcomeInv, BooksInv, NEW a \in Call, ConsumeUse(a)
  PROVE  OutcomeInv'
<1> USE DEF Same
<1>1. UNCHANGED <<intent, moved>> /\ pc[a] = "claim"
  BY DEF ConsumeUse, At
<1>2. a \notin consumed /\ reply[a] # "executed"
  BY <1>1 DEF OutcomeInv, Landed, Rail, BooksInv
<1>3. PICK p, r : /\ pc' = [pc EXCEPT ![a] = p] /\ reply' = [reply EXCEPT ![a] = r]
                  /\ QuietMove(a, p, r)
  BY QuietMoves DEF Quiet
<1>4. /\ pc'[a] = p /\ reply'[a] = r
      /\ \A b \in Call \ {a} : pc'[b] = pc[b] /\ reply'[b] = reply[b]
  BY <1>3 DEF GuardTypeOK
<1>5. r # "executed" /\ p # "settleExecuted"
  BY <1>1, <1>2, <1>3 DEF QuietMove, Waiting, Replay
<1>6. \/ UNCHANGED <<claims, consumed>> /\ p # "settleFailed"
      \/ \E m \in intent[a].mandate :
           /\ ClaimWon(m, Id(a), intent[a].digest)
           /\ \/ consumed' = consumed \cup {a} /\ (p = "lastExit" \/ (p = "settleFailed" /\ r = "unbudgeted"))
              \/ consumed' = consumed /\ p = "done"
  <2>1. PICK m \in intent[a].mandate :
          \/ UNCHANGED <<consumeVars, consumed>> /\ (ReplayUse(a, m) \/ GiveBack(a, "denied"))
          \/ /\ ClaimWon(m, Id(a), intent[a].digest)
             /\ \/ /\ consumed' = consumed \cup {a}
                   /\ Goto(a, "lastExit") \/ (Goto(a, "settleFailed") /\ Answer(a, "unbudgeted"))
                \/ consumed' = consumed /\ Finish(a, "internal")
    BY DEF ConsumeUse, ClaimDuplicate, ClaimExhausted
  <2>2. CASE UNCHANGED <<consumeVars, consumed>> /\ (ReplayUse(a, m) \/ GiveBack(a, "denied"))
    BY ZenonT(40), <1>3, <1>4, <2>2, ReplayUseMoves, GiveBackMoves DEF GuardTypeOK, consumeVars
  <2>3. CASE /\ ClaimWon(m, Id(a), intent[a].digest)
             /\ \/ /\ consumed' = consumed \cup {a}
                   /\ Goto(a, "lastExit") \/ (Goto(a, "settleFailed") /\ Answer(a, "unbudgeted"))
                \/ consumed' = consumed /\ Finish(a, "internal")
    BY <1>4, <2>3 DEF Goto, Answer, Finish, GuardTypeOK
  <2>4. QED BY <2>1, <2>2, <2>3
<1>7. CASE UNCHANGED <<claims, consumed>> /\ p # "settleFailed"
  <2>1. \A b \in consumed : Landed(b)' <=> Landed(b)
    BY <1>2, <1>4 DEF Landed, GuardTypeOK
  <2>2. \A b \in Call : pc'[b] \in {"settleFailed", "settleExecuted"} => b \in consumed
    BY <1>4, <1>5, <1>7 DEF OutcomeInv
  <2>3. \A b \in consumed : pc'[b] = pc[b]
    BY <1>2, <1>4 DEF GuardTypeOK
  <2>4. \A b \in Call : reply'[b] = "executed" => reply[b] = "executed"
    BY <1>4, <1>5
  <2>5. QED BY <1>1, <1>7, <2>1, <2>2, <2>3, <2>4, SameOutcomes
<1>8. ASSUME NEW m \in intent[a].mandate, ClaimWon(m, Id(a), intent[a].digest),
             \/ consumed' = consumed \cup {a} /\ (p = "lastExit" \/ (p = "settleFailed" /\ r = "unbudgeted"))
             \/ consumed' = consumed /\ p = "done"
      PROVE  OutcomeInv'
  <2>1. m \in Mandate /\ Id(a) \in UseKey /\ intent[a].digest \in Digest /\ intent[a].mandate = {m}
    BY UseKeys
  <2>2. /\ \A n \in Mandate, j \in UseKey : ~(n = m /\ j = Id(a)) => claims'[n][j] = claims[n][j]
        /\ claims'[m][Id(a)] = [status |-> "pending", digest |-> intent[a].digest]
        /\ claims[m][Id(a)].status = "none"
    BY <1>8, <2>1, WonEffect
  <2>3. \A b : /\ Id(b)' = Id(b) /\ Mandated(b)' = Mandated(b)
               /\ \A n : Under(b, n)' = Under(b, n)
    BY <1>1 DEF Id, Mandated, Under
  <2>4. \A b \in consumed : b \in Call \ {a}
    BY <1>2 DEF GuardTypeOK
  <2>5. ASSUME NEW b \in consumed' PROVE Landed(b)'
    <3>1. CASE b \in consumed
      BY <1>4, <2>4, <3>1 DEF OutcomeInv, Landed
    <3>2. CASE b = a /\ b \notin consumed
      BY <1>4, <1>8, <3>2 DEF Landed
    <3>3. QED BY <1>8, <3>1, <3>2
  <2>6. ASSUME NEW n \in Mandate, NEW b \in consumed', Under(b, n)
        PROVE  Bound(b, claims[n][Id(b)])'
    <3>1. CASE b \in consumed
      <4>1. Bound(b, claims[n][Id(b)])
        BY <2>6, <3>1 DEF OutcomeInv
      <4>2. Id(b) \in UseKey
        BY <2>4, <3>1, UseKeys
      <4>3. claims'[n][Id(b)] = claims[n][Id(b)]
        BY <2>2, <4>1, <4>2 DEF Bound
      <4>4. QED BY <1>1, <1>4, <2>3, <2>4, <3>1, <4>1, <4>3 DEF Bound
    <3>2. CASE b = a
      <4>1. n = m
        BY <2>1, <2>6, <3>2 DEF Under
      <4>2. QED BY <1>1, <1>4, <1>5, <2>2, <2>3, <3>2, <4>1 DEF Bound
    <3>3. QED BY <1>8, <3>1, <3>2
  <2>7. \A b \in Call : pc'[b] \in {"settleFailed", "settleExecuted"} => b \in consumed'
    BY <1>4, <1>5, <1>8 DEF OutcomeInv
  <2>8. ASSUME NEW n \in Mandate, NEW k \in UseKey, claims'[n][k].status = "executed"
        PROVE  \E b \in moved' : Under(b, n)' /\ Id(b)' = k /\ intent'[b].digest = claims'[n][k].digest
    <3>1. claims'[n][k] = claims[n][k]
      BY <2>2, <2>8
    <3>2. QED BY <1>1, <2>3, <2>8, <3>1 DEF OutcomeInv
  <2>9. \A b \in Call : reply'[b] = "executed" /\ Mandated(b) => b \in consumed'
    BY <1>4, <1>5, <1>8 DEF OutcomeInv
  <2>10. QED BY <2>3, <2>5, <2>6, <2>7, <2>8, <2>9 DEF OutcomeInv
<1>9. QED BY <1>6, <1>7, <1>8

(* Only the winner of a use settles it. *)
LEMMA SettleOutcomes ==
  ASSUME GuardTypeOK, ConsumeTypeOK, UseInv, OutcomeInv, BooksInv,
         NEW a \in Call, SettleFailed(a) \/ SettleExecuted(a)
  PROVE  OutcomeInv'
<1> USE DEF Same
<1>1. /\ UNCHANGED <<intent, moved, consumed>>
      /\ pc[a] \in {"settleFailed", "settleExecuted"} /\ a \in consumed
  BY DEF SettleFailed, SettleExecuted, At, OutcomeInv
<1>2. /\ pc'[a] = "done" /\ \A b \in Call \ {a} : pc'[b] = pc[b] /\ reply'[b] = reply[b]
      /\ reply'[a] = IF pc[a] = "settleExecuted" THEN "executed" ELSE reply[a]
  BY DEF SettleFailed, SettleExecuted, At, Finish, Goto, Answer, GuardTypeOK
<1>3. PICK m \in intent[a].mandate, o \in Outcome :
        /\ SettleUse(m, Id(a), o) \/ UNCHANGED consumeVars
        /\ o = "executed" <=> pc[a] = "settleExecuted"
  BY DEF SettleFailed, SettleExecuted, At, Outcome
<1>4. m \in Mandate /\ Id(a) \in UseKey /\ Under(a, m)
  BY UseKeys DEF Under
<1>5. /\ \A n \in Mandate, j \in UseKey : ~(n = m /\ j = Id(a)) => claims'[n][j] = claims[n][j]
      /\ claims'[m][Id(a)].digest = claims[m][Id(a)].digest
      /\ claims'[m][Id(a)].status \in {claims[m][Id(a)].status, o}
  BY <1>3, <1>4, SettleEffect DEF consumeVars
<1>6. /\ claims[m][Id(a)].status = "pending" /\ claims[m][Id(a)].digest = intent[a].digest
      /\ reply[a] # "executed"
  BY <1>1, <1>4 DEF OutcomeInv, Bound, Over, BooksInv
<1>7. \A b : /\ Id(b)' = Id(b) /\ Mandated(b)' = Mandated(b)
             /\ \A n : Under(b, n)' = Under(b, n)
  BY <1>1 DEF Id, Mandated, Under
<1>8. \A b \in consumed : b \in Call
  BY DEF GuardTypeOK
<1>9. ASSUME NEW b \in consumed' PROVE Landed(b)'
  <2>1. CASE b # a
    BY <1>1, <1>2, <1>8, <1>9, <2>1 DEF OutcomeInv, Landed
  <2>2. CASE b = a
    <3>1. Landed(a)
      BY <1>1 DEF OutcomeInv
    <3>2. QED BY <1>1, <1>2, <2>2, <3>1 DEF Landed, Rail
  <2>3. QED BY <2>1, <2>2
<1>10. ASSUME NEW n \in Mandate, NEW b \in consumed', Under(b, n)
       PROVE  Bound(b, claims[n][Id(b)])'
  <2>1. Bound(b, claims[n][Id(b)]) /\ Id(b) \in UseKey
    BY <1>1, <1>8, <1>10, UseKeys DEF OutcomeInv
  <2>2. CASE b # a
    <3>1. ~(n = m /\ Id(b) = Id(a))
      BY <1>1, <1>4, <1>10, <2>2 DEF UseInv
    <3>2. claims'[n][Id(b)] = claims[n][Id(b)]
      BY <1>5, <2>1, <3>1
    <3>3. QED BY <1>1, <1>2, <1>7, <1>8, <1>10, <2>1, <2>2, <3>2 DEF Bound
  <2>3. CASE b = a
    <3>1. n = m
      BY <1>4, <1>10, <2>3 DEF Under
    <3>2. claims'[m][Id(a)].status # "none"
      BY <1>5, <1>6 DEF Outcome
    <3>3. reply'[a] = "executed" => claims'[m][Id(a)].status # "failed"
      BY <1>2, <1>3, <1>5, <1>6
    <3>4. QED BY <1>1, <1>2, <1>5, <1>6, <1>7, <2>3, <3>1, <3>2, <3>3 DEF Bound, Over
  <2>4. QED BY <2>2, <2>3
<1>11. \A b \in Call : pc'[b] \in {"settleFailed", "settleExecuted"} => b \in consumed'
  BY <1>1, <1>2 DEF OutcomeInv
<1>12. ASSUME NEW n \in Mandate, NEW k \in UseKey, claims'[n][k].status = "executed"
       PROVE  \E b \in moved' : Under(b, n)' /\ Id(b)' = k /\ intent'[b].digest = claims'[n][k].digest
  <2>1. CASE claims'[n][k] = claims[n][k]
    BY <1>1, <1>7, <1>12, <2>1 DEF OutcomeInv
  <2>2. CASE n = m /\ k = Id(a)
    <3>1. pc[a] = "settleExecuted"
      BY <1>3, <1>5, <1>6, <1>12, <2>2
    <3>2. a \in moved
      BY <3>1 DEF BooksInv
    <3>3. QED BY <1>1, <1>4, <1>5, <1>6, <1>7, <2>2, <3>2
  <2>3. QED BY <1>5, <2>1, <2>2
<1>13. \A b \in Call : reply'[b] = "executed" /\ Mandated(b) => b \in consumed'
  BY <1>1, <1>2 DEF OutcomeInv
<1>14. QED BY <1>7, <1>9, <1>10, <1>11, <1>12, <1>13 DEF OutcomeInv

(* Every step of the guard keeps the registry's side. *)
LEMMA OutcomeStep ==
  ASSUME GuardTypeOK, ConsumeTypeOK, UseInv, BooksInv, OutcomeInv, [GuardNext]_guardVars
  PROVE  OutcomeInv'
<1> USE DEF Same
<1>0. \A b \in consumed : b \in Call
  BY DEF GuardTypeOK
<1>1. ASSUME NEW a \in Call, ConsumeUse(a) PROVE OutcomeInv'
  BY <1>1, ConsumeOutcomes
<1>2. ASSUME NEW a \in Call, SettleFailed(a) \/ SettleExecuted(a) PROVE OutcomeInv'
  BY <1>2, SettleOutcomes
<1>3. ASSUME NEW a \in Call,
             Receive(a) \/ Approve(a) \/ EnterCommit(a) \/ LookUpUse(a) \/ LastExit(a)
             \/ CaughtByRun(a) \/ Start(a) \/ RunRail(a)
      PROVE  OutcomeInv'
  <2>1. PICK p, r : /\ pc' = [pc EXCEPT ![a] = p] /\ reply' = [reply EXCEPT ![a] = r]
                    /\ QuietMove(a, p, r)
    BY <1>3, QuietMoves DEF Quiet
  <2>2. UNCHANGED <<intent, claims, consumed>> /\ moved \subseteq moved'
    BY <1>3, QuietMoves DEF Quiet, Receive, Approve, EnterCommit, LookUpUse, LastExit, CaughtByRun,
                            Start, RunRail, consumeVars
  <2>3. /\ pc'[a] = p /\ reply'[a] = r
        /\ \A b \in Call \ {a} : pc'[b] = pc[b] /\ reply'[b] = reply[b]
    BY <2>1 DEF GuardTypeOK
  <2>4. pc[a] = "claim" => p = "done"
    BY <1>3, <2>3 DEF Receive, Approve, EnterCommit, LookUpUse, LastExit, CaughtByRun, Start,
                      RunRail, At, Finish, Goto, GuardTypeOK
  <2>5. pc[a] \notin Over
    BY <2>1 DEF QuietMove, Waiting, Over
  <2>6. ASSUME a \in consumed PROVE Landed(a)'
    <3>1. Landed(a)
      BY <2>6 DEF OutcomeInv
    <3>2. QED BY <2>1, <2>3, <2>5, <2>6, <3>1 DEF Landed, QuietMove, Rail, Waiting, Over
  <2>7. \A b \in consumed : Landed(b) => Landed(b)'
    BY <1>0, <2>3, <2>6 DEF Landed
  <2>8. p \in {"settleFailed", "settleExecuted"} => a \in consumed
    BY <2>1, <2>4 DEF QuietMove, Waiting
  <2>9. r = "executed" => a \in consumed \/ reply[a] = "executed"
    BY <2>1 DEF QuietMove, Waiting, Replay, OutcomeInv
  <2>10. \A b \in Call : pc'[b] \in {"settleFailed", "settleExecuted"} => b \in consumed
    BY <2>3, <2>8 DEF OutcomeInv
  <2>11. \A b \in consumed : pc'[b] \notin Over => pc[b] \notin Over
    BY <1>0, <2>3, <2>5
  <2>12. \A b \in Call : reply'[b] = "executed" =>
           \/ reply[b] = "executed"
           \/ pc[b] \notin Over /\ (Mandated(b) => b \in consumed)
    BY <2>3, <2>5, <2>9
  <2>13. QED BY <2>2, <2>7, <2>10, <2>11, <2>12, SameOutcomes
<1>4. ASSUME NEW a \in Call, TakeReservation(a) PROVE OutcomeInv'
  <2>1. UNCHANGED <<intent, claims, consumed, moved>> /\ pc[a] = "reserve"
    BY <1>4 DEF TakeReservation, At, consumeVars
  <2>2. a \notin consumed
    BY <2>1 DEF OutcomeInv, Landed, Rail
  <2>3. /\ pc'[a] \in {"done", "lookup", "lastExit"} /\ (reply'[a] = "executed" => reply[a] = "executed")
        /\ \A b \in Call \ {a} : pc'[b] = pc[b] /\ reply'[b] = reply[b]
    <3>1. reply = [reply EXCEPT ![a] = reply[a]]
      BY DEF GuardTypeOK
    <3>2. PICK p \in {"done", "lookup", "lastExit"}, r \in {reply[a], "denied", "internal"} \cup Replay :
            pc' = [pc EXCEPT ![a] = p] /\ reply' = [reply EXCEPT ![a] = r]
      BY <1>4, <3>1 DEF TakeReservation, Finish, Goto, Answer, Replay
    <3>3. QED BY <3>2 DEF GuardTypeOK, Replay
  <2>4. \A b \in consumed : pc'[b] = pc[b] /\ reply'[b] = reply[b]
    BY <1>0, <2>2, <2>3
  <2>5. \A b \in consumed : Landed(b) => Landed(b)'
    BY <2>4 DEF Landed
  <2>6. \A b \in Call : pc'[b] \in {"settleFailed", "settleExecuted"} => b \in consumed
    BY <2>3 DEF OutcomeInv
  <2>7. \A b \in Call : reply'[b] = "executed" => reply[b] = "executed"
    BY <2>3
  <2>8. QED BY <2>1, <2>4, <2>5, <2>6, <2>7, SameOutcomes
<1>5. ASSUME NEW a \in Call, CommitBestEffort(a) PROVE OutcomeInv'
  <2>1. UNCHANGED <<intent, claims, consumed, moved>> /\ pc[a] = "commit"
    BY <1>5 DEF CommitBestEffort, At, consumeVars
  <2>2. /\ \/ a \in consumed /\ pc'[a] = "settleExecuted" /\ reply'[a] = reply[a]
           \/ a \notin consumed /\ pc'[a] = "done" /\ reply'[a] = "executed"
        /\ \A b \in Call \ {a} : pc'[b] = pc[b] /\ reply'[b] = reply[b]
    BY <1>5 DEF CommitBestEffort, Finish, Goto, Answer, GuardTypeOK
  <2>3. Mandated(a) => a \in consumed
    BY <2>1 DEF UseInv, Railed, Rail
  <2>4. \A b \in consumed : Landed(b) => Landed(b)'
    BY <1>0, <2>2 DEF Landed, Rail
  <2>5. \A b \in Call : pc'[b] \in {"settleFailed", "settleExecuted"} => b \in consumed
    BY <2>2 DEF OutcomeInv
  <2>6. \A b \in consumed : pc'[b] \notin Over => pc[b] \notin Over
    BY <1>0, <2>1, <2>2 DEF Over
  <2>7. \A b \in Call : reply'[b] = "executed" =>
          \/ reply[b] = "executed"
          \/ pc[b] \notin Over /\ (Mandated(b) => b \in consumed)
    BY <2>1, <2>2, <2>3 DEF Over
  <2>8. QED BY <2>1, <2>4, <2>5, <2>6, <2>7, SameOutcomes
<1>6. ASSUME NEW a \in Call, ReleaseBestEffort(a) PROVE OutcomeInv'
  <2>1. UNCHANGED <<intent, claims, consumed, moved, reply>> /\ pc[a] = "giveback"
    BY <1>6 DEF ReleaseBestEffort, At, consumeVars
  <2>2. /\ \/ a \in consumed /\ reply[a] = "frozen" /\ pc'[a] = "settleFailed"
           \/ ~(a \in consumed /\ reply[a] = "frozen") /\ pc'[a] = "done"
        /\ \A b \in Call \ {a} : pc'[b] = pc[b]
    BY <1>6 DEF ReleaseBestEffort, Goto, GuardTypeOK
  <2>3. a \in consumed => reply[a] = "frozen"
    BY <2>1 DEF OutcomeInv, Landed, Rail
  <2>4. \A b \in consumed : Landed(b) => Landed(b)'
    BY <1>0, <2>1, <2>2, <2>3 DEF Landed
  <2>5. \A b \in Call : pc'[b] \in {"settleFailed", "settleExecuted"} => b \in consumed
    BY <2>2 DEF OutcomeInv
  <2>6. \A b \in consumed : pc'[b] \notin Over => pc[b] \notin Over
    BY <1>0, <2>1, <2>2 DEF Over
  <2>7. QED BY <2>1, <2>4, <2>5, <2>6, SameOutcomes
<1>7. ASSUME NEW g \in Process, Crash(g) PROVE OutcomeInv'
  <2>1. UNCHANGED <<intent, claims, consumed, reply>> /\ moved \subseteq moved'
    BY <1>7 DEF Crash, consumeVars
  <2>2. \A b \in Call : pc'[b] = pc[b] \/ (pc[b] \notin Over /\ pc'[b] = "crashed")
    BY <1>7 DEF Crash
  <2>3. \A b \in consumed : Landed(b) => Landed(b)'
    BY <1>0, <2>1, <2>2 DEF Landed
  <2>4. \A b \in Call : pc'[b] \in {"settleFailed", "settleExecuted"} => b \in consumed
    BY <2>2 DEF OutcomeInv
  <2>5. \A b \in consumed : pc'[b] \notin Over => pc[b] \notin Over
    BY <1>0, <2>2 DEF Over
  <2>6. QED BY <2>1, <2>3, <2>4, <2>5, SameOutcomes
<1>8. ASSUME UNCHANGED <<intent, claims, consumed, moved, reply, pc>> PROVE OutcomeInv'
  <2>1. \A b \in consumed : Landed(b) => Landed(b)'
    BY <1>8 DEF Landed
  <2>2. \A b \in Call : pc'[b] \in {"settleFailed", "settleExecuted"} => b \in consumed
    BY <1>8 DEF OutcomeInv
  <2>3. QED BY <1>8, <2>1, <2>2, SameOutcomes
<1>9. ASSUME NEW i \in ReservationId, ReleaseSpend(i) PROVE OutcomeInv'
  BY <1>8, <1>9 DEF ReleaseSpend, callVars, historyVars, consumeVars
<1>10. ASSUME NEW g \in Process, Freeze(g) \/ Unfreeze(g) PROVE OutcomeInv'
  BY <1>8, <1>10 DEF Freeze, Unfreeze, callVars, consumeVars
<1>11. CASE GuardTick \/ UNCHANGED guardVars
  BY <1>8, <1>11 DEF GuardTick, guardVars, callVars, historyVars, consumeVars
<1>12. QED
  BY <1>1, <1>2, <1>3, <1>4, <1>5, <1>6, <1>7, <1>9, <1>10, <1>11 DEF GuardNext, CallStep

-----------------------------------------------------------------------------
(* What makes "replayed: executed" true of a call. *)
PaidBefore(a) ==
  \/ \E b \in moved : /\ Id(b) = Id(a)
                      /\ Mandated(a) => /\ intent[b].mandate = intent[a].mandate
                                        /\ intent[b].digest = intent[a].digest
  \/ ~Mandated(a) /\ \E r \in Legacy : r.id = Id(a)

(* A recorded failure is final, and money that moved stays moved. *)
LEMMA FailuresStand ==
  ASSUME GuardTypeOK, ConsumeTypeOK, [GuardNext]_guardVars
  PROVE  /\ intent' = intent /\ moved \subseteq moved'
         /\ \A m \in Mandate, k \in UseKey :
              claims[m][k].status = "failed" => claims'[m][k].status = "failed"
<1> DEFINE Stand == \A m \in Mandate, k \in UseKey :
                      claims[m][k].status = "failed" => claims'[m][k].status = "failed"
<1> USE DEF Same
<1>1. intent' = intent /\ moved \subseteq moved'
  <2>1. ASSUME NEW a \in Call, Quiet(a) PROVE intent' = intent /\ moved \subseteq moved'
    BY <2>1, QuietMoves
  <2>2. ASSUME NEW a \in Call, TakeReservation(a) \/ CommitBestEffort(a) \/ ReleaseBestEffort(a)
        PROVE  intent' = intent /\ moved \subseteq moved'
    BY <2>2 DEF TakeReservation, CommitBestEffort, ReleaseBestEffort
  <2>3. ASSUME NEW g \in Process, Freeze(g) \/ Unfreeze(g) \/ Crash(g)
        PROVE  intent' = intent /\ moved \subseteq moved'
    BY <2>3 DEF Freeze, Unfreeze, Crash, callVars
  <2>4. CASE (\E i \in ReservationId : ReleaseSpend(i)) \/ GuardTick \/ UNCHANGED guardVars
    BY <2>4 DEF ReleaseSpend, GuardTick, guardVars, callVars, historyVars
  <2>5. QED BY <2>1, <2>2, <2>3, <2>4 DEF GuardNext, CallStep, Quiet
<1>2. ASSUME NEW a \in Call, ConsumeUse(a) PROVE Stand
  <2>1. PICK m \in intent[a].mandate :
          UNCHANGED consumeVars \/ ClaimWon(m, Id(a), intent[a].digest)
    BY <1>2 DEF ConsumeUse, ClaimDuplicate, ClaimExhausted
  <2>2. m \in Mandate /\ Id(a) \in UseKey /\ intent[a].digest \in Digest
    BY UseKeys
  <2>3. ASSUME ClaimWon(m, Id(a), intent[a].digest) PROVE Stand
    <3>1. /\ \A n \in Mandate, j \in UseKey :
               ~(n = m /\ j = Id(a)) => claims'[n][j] = claims[n][j]
          /\ claims[m][Id(a)].status = "none"
      BY <2>2, <2>3, WonEffect
    <3>2. QED BY <3>1
  <2>4. QED BY <2>1, <2>3 DEF consumeVars
<1>3. ASSUME NEW a \in Call, SettleFailed(a) \/ SettleExecuted(a) PROVE Stand
  <2>1. PICK m \in intent[a].mandate, o \in Outcome :
          SettleUse(m, Id(a), o) \/ UNCHANGED consumeVars
    BY <1>3 DEF SettleFailed, SettleExecuted, Outcome
  <2>2. m \in Mandate /\ Id(a) \in UseKey
    BY UseKeys
  <2>3. ASSUME SettleUse(m, Id(a), o) PROVE Stand
    <3>1. /\ \A n \in Mandate, j \in UseKey :
               ~(n = m /\ j = Id(a)) => claims'[n][j] = claims[n][j]
          /\ claims'[m][Id(a)].status = IF claims[m][Id(a)].status = "pending" THEN o
                                        ELSE claims[m][Id(a)].status
      BY <2>2, <2>3, SettleEffect
    <3>2. QED BY <3>1
  <2>4. QED BY <2>1, <2>3 DEF consumeVars
<1>4. ASSUME NEW a \in Call,
             Receive(a) \/ Approve(a) \/ EnterCommit(a) \/ TakeReservation(a) \/ LookUpUse(a)
             \/ LastExit(a) \/ ReleaseBestEffort(a) \/ CaughtByRun(a) \/ Start(a) \/ RunRail(a)
             \/ CommitBestEffort(a)
      PROVE  Stand
  BY <1>4 DEF Receive, Approve, EnterCommit, TakeReservation, LookUpUse, LastExit,
              ReleaseBestEffort, CaughtByRun, Start, RunRail, CommitBestEffort, consumeVars
<1>5. ASSUME NEW g \in Process, Freeze(g) \/ Unfreeze(g) \/ Crash(g) PROVE Stand
  BY <1>5 DEF Freeze, Unfreeze, Crash, consumeVars
<1>6. ASSUME (\E i \in ReservationId : ReleaseSpend(i)) \/ GuardTick \/ UNCHANGED guardVars
      PROVE  Stand
  BY <1>6 DEF ReleaseSpend, GuardTick, guardVars, consumeVars
<1> HIDE DEF Stand
<1>7. Stand
  BY <1>2, <1>3, <1>4, <1>5, <1>6 DEF GuardNext, CallStep
<1>8. QED BY <1>1, <1>7 DEF Stand

(* The two registries never invent the outcome a replay reports. *)
LEMMA ReplayAnswers ==
  ASSUME GuardTypeOK, BooksInv, OutcomeInv, [GuardNext]_guardVars,
         NEW a \in Call, reply'[a] \in Replay, reply'[a] # reply[a]
  PROVE  /\ reply'[a] = "replayed_executed" => PaidBefore(a)
         /\ reply'[a] = "replayed_failed" =>
              \E m \in intent[a].mandate : claims[m][Id(a)].status = "failed"
<1> USE DEF Same
<1>1. TakeReservation(a) \/ LookUpUse(a) \/ ConsumeUse(a)
  <2>1. ASSUME NEW b \in Call, b # a, Receive(b) \/ Approve(b) \/ CallStep(b) \/ RunRail(b) \/ CaughtByRun(b)
        PROVE  FALSE
    <3>1. ASSUME NEW r, reply' = [reply EXCEPT ![b] = r] PROVE FALSE
      BY <2>1, <3>1 DEF GuardTypeOK
    <3>2. CASE Quiet(b)
      BY <3>1, <3>2, QuietMoves
    <3>3. CASE TakeReservation(b) \/ CommitBestEffort(b) \/ ReleaseBestEffort(b)
      BY <3>1, <3>3 DEF TakeReservation, CommitBestEffort, ReleaseBestEffort, Finish, Answer
    <3>4. QED BY <2>1, <3>2, <3>3 DEF CallStep, Quiet
  <2>2. ASSUME Receive(a) \/ Approve(a) \/ EnterCommit(a) \/ LastExit(a) \/ ReleaseBestEffort(a)
               \/ SettleFailed(a) \/ CaughtByRun(a) \/ Start(a) \/ RunRail(a)
               \/ CommitBestEffort(a) \/ SettleExecuted(a)
        PROVE  FALSE
    BY <2>2 DEF Receive, Approve, EnterCommit, LastExit, ReleaseBestEffort, SettleFailed,
                CaughtByRun, Start, RunRail, CommitBestEffort, SettleExecuted, Finish, GiveBack,
                Answer, Enqueue, Replay, GuardTypeOK
  <2>3. ~(UNCHANGED reply)
    OBVIOUS
  <2>4. ~(\E i \in ReservationId : ReleaseSpend(i)) /\ ~GuardTick /\ ~(UNCHANGED guardVars)
    BY <2>3 DEF ReleaseSpend, GuardTick, guardVars, callVars
  <2>5. ~(\E g \in Process : Freeze(g) \/ Unfreeze(g) \/ Crash(g))
    BY <2>3 DEF Freeze, Unfreeze, Crash, callVars
  <2>6. QED BY <2>1, <2>2, <2>4, <2>5 DEF GuardNext, CallStep
<1>2. CASE TakeReservation(a)
  <2>1. /\ ~Mandated(a)
        /\ reply'[a] = "replayed_executed" => status[Id(a)] = "committed"
        /\ reply'[a] # "replayed_failed"
    BY <1>2 DEF TakeReservation, Finish, Answer, Replay, GuardTypeOK
  <2>2. QED BY <2>1, CallTypes DEF BooksInv, PaidBefore
<1>3. CASE LookUpUse(a) \/ ConsumeUse(a)
  <2>1. PICK m \in intent[a].mandate : ReplayUse(a, m)
    BY <1>3 DEF LookUpUse, ConsumeUse, GiveBack, Finish, Answer, Replay, GuardTypeOK
  <2>2. m \in Mandate /\ Id(a) \in UseKey /\ intent[a].mandate = {m}
    BY UseKeys
  <2>3. /\ reply'[a] = "replayed_executed" =>
             claims[m][Id(a)].status = "executed" /\ claims[m][Id(a)].digest = intent[a].digest
        /\ reply'[a] = "replayed_failed" => claims[m][Id(a)].status = "failed"
    BY <2>1 DEF ReplayUse, GiveBack, Finish, Answer, GuardTypeOK
  <2>4. ASSUME claims[m][Id(a)].status = "executed", claims[m][Id(a)].digest = intent[a].digest
        PROVE  PaidBefore(a)
    <3>1. PICK b \in moved : Under(b, m) /\ Id(b) = Id(a) /\ intent[b].digest = claims[m][Id(a)].digest
      BY <2>2, <2>4 DEF OutcomeInv
    <3>2. QED BY <2>2, <2>4, <3>1 DEF PaidBefore, Under
  <2>5. QED BY <2>3, <2>4
<1>4. QED BY <1>1, <1>2, <1>3

LEMMA ReplayStep ==
  ASSUME GuardTypeOK, ConsumeTypeOK, BooksInv, OutcomeInv, ReplayInv, [GuardNext]_guardVars
  PROVE  ReplayInv'
<1>1. /\ intent' = intent /\ moved \subseteq moved'
      /\ \A m \in Mandate, k \in UseKey :
           claims[m][k].status = "failed" => claims'[m][k].status = "failed"
  BY FailuresStand
<1>2. \A a : Id(a)' = Id(a) /\ Mandated(a)' = Mandated(a)
  BY <1>1 DEF Id, Mandated
<1>3. ASSUME NEW a \in Call, reply'[a] = "replayed_failed"
      PROVE  \E m \in intent'[a].mandate : claims'[m][Id(a)'].status = "failed"
  <2>1. PICK m \in intent[a].mandate : claims[m][Id(a)].status = "failed"
    BY <1>3, ReplayAnswers DEF ReplayInv, Replay
  <2>2. QED BY <1>1, <1>2, <2>1, UseKeys
<1>4. ASSUME NEW a \in Call, reply'[a] = "replayed_executed" PROVE PaidBefore(a)'
  <2>1. PaidBefore(a)
    BY <1>4, ReplayAnswers DEF ReplayInv, Replay, PaidBefore
  <2>2. QED BY <1>1, <1>2, <2>1 DEF PaidBefore
<1>5. QED BY <1>3, <1>4 DEF ReplayInv, PaidBefore

-----------------------------------------------------------------------------
(* What a caller is told agrees with the books, for every number of        *)
(* processes, calls, mandates, crashes and store failures: a refused or    *)
(* replayed call holds no budget and burns no use, a replay reports what   *)
(* happened to the payment it stands for, and executed spend stays         *)
(* committed - as long as releaseSpend() is only called with proof. *)
THEOREM AnswersAlwaysMatch ==
  ASSUME ~MistakenRelease
  PROVE  GuardSpec => []AnswersMatchBooks
<1> DEFINE Inv == BudgetInv /\ UseInv /\ BooksInv /\ OutcomeInv /\ ReplayInv
<1>1. GuardInit => Inv
  <2> SUFFICES ASSUME GuardInit PROVE Inv
    OBVIOUS
  <2>1. GuardTypeOK
    BY GuardAssumption DEF GuardInit, GuardTypeOK, Pc, Waiting, Reply
  <2>2. LimiterTypeOK
    BY LimiterAssumption DEF GuardInit, LimiterInit, LimiterTypeOK
  <2>3. PathInv /\ HoldsBudget
    BY DEF GuardInit, PathInv, HoldsBudget, Holds, Rail
  <2>4. UseInv
    BY DEF GuardInit, ConsumeInit, UseInv, Railed, Rail
  <2>5. BooksInv
    BY <2>1, CallTypes DEF GuardInit, LimiterInit, BooksInv, Own
  <2>6. OutcomeInv /\ ReplayInv
    BY DEF GuardInit, ConsumeInit, OutcomeInv, ReplayInv
  <2>7. QED BY <2>1, <2>2, <2>3, <2>4, <2>5, <2>6 DEF BudgetInv
<1>2. Inv /\ ConsumeTypeOK /\ [GuardNext]_guardVars /\ LimiterTypeOK' => Inv'
  <2> SUFFICES ASSUME Inv, ConsumeTypeOK, [GuardNext]_guardVars, LimiterTypeOK' PROVE Inv'
    OBVIOUS
  <2>1. BudgetInv'
    BY BudgetStep
  <2>2. UseInv'
    BY UseStep DEF BudgetInv
  <2>3. BooksInv'
    BY BooksStep
  <2>4. OutcomeInv'
    BY OutcomeStep DEF BudgetInv
  <2>5. ReplayInv'
    BY ReplayStep DEF BudgetInv
  <2>6. QED BY <2>1, <2>2, <2>3, <2>4, <2>5
<1>3. Inv => AnswersMatchBooks
  <2> SUFFICES ASSUME Inv PROVE AnswersMatchBooks
    OBVIOUS
  <2>1. RefusedHoldsNothing
    <3> SUFFICES ASSUME NEW a \in Call, At(a, "done"),
                        reply[a] \in {"denied", "frozen", "unbudgeted"} \cup Replay
                 PROVE  /\ a \in limiterDegraded \/ status[Id(a)] = "none" \/ owner[Id(a)] # {a}
                        /\ a \in consumed => reply[a] \in {"frozen", "unbudgeted"}
      BY DEF RefusedHoldsNothing
    <3>1. Own(a) => a \in limiterDegraded
      BY DEF BooksInv, Placed, At, Rail, Replay
    <3>2. a \in consumed => reply[a] \in {"frozen", "unbudgeted"}
      BY DEF OutcomeInv, Landed, At, Rail, Replay
    <3>3. QED BY <3>1, <3>2 DEF Own
  <2>2. ReplayTruthful
    <3>1. ASSUME NEW a \in Call, reply[a] = "replayed_failed", NEW b \in Call, Id(b) = Id(a),
                 intent[b].mandate = intent[a].mandate, reply[b] = "executed"
          PROVE  FALSE
      <4>1. PICK m \in intent[a].mandate : claims[m][Id(a)].status = "failed"
        BY <3>1 DEF ReplayInv
      <4>2. m \in Mandate /\ intent[a].mandate = {m}
        BY UseKeys DEF BudgetInv
      <4>3. b \in consumed /\ Under(b, m)
        BY <3>1, <4>2 DEF OutcomeInv, Mandated, Under
      <4>4. Bound(b, claims[m][Id(b)])
        BY <4>2, <4>3 DEF OutcomeInv
      <4>5. QED BY <3>1, <4>1, <4>4 DEF Bound
    <3>2. QED BY <3>1 DEF ReplayInv, ReplayTruthful
  <2>3. ExecutedIsCommitted
    BY DEF BooksInv, Kept, ExecutedIsCommitted
  <2>4. QED BY <2>1, <2>2, <2>3 DEF AnswersMatchBooks
<1>4. QED
  BY <1>1, <1>2, <1>3, GuardUsesLimiter, GuardUsesConsume, LimiterTypeCorrect,
     ConsumeTypeCorrect, PTL
  DEF GuardSpec
=============================================================================
