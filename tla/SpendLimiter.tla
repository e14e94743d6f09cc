---------------------------- MODULE SpendLimiter ----------------------------
(***************************************************************************)
(* The atomic spend limiter of @vaduno/guard: `SpendLimiter.reserve`,      *)
(* `commit`, `release` and `pruneBefore`, as MemorySpendLimiter,           *)
(* FileSpendLimiter and PostgresSpendLimiter all implement them.           *)
(*                                                                         *)
(* Every call is one atomic step: the memory store has no `await` in its   *)
(* critical section, the file store holds a lock file across load and      *)
(* save, the Postgres store holds an advisory lock for the transaction.    *)
(* What is NOT atomic is the caller's clock: `nowMs` is read before the    *)
(* call waits for the lock, and different processes disagree about the     *)
(* time, so a request may carry a reading up to MaxWait old.               *)
(***************************************************************************)
EXTENDS Integers, FiniteSets

CONSTANTS
  ReservationId,   \* intent ids: the idempotency keys of reservations
  Scope,           \* budgets: a (policy id, currency) pair, see scopeKey()
  MerchantKey,     \* values of merchantKeyOf()
  WindowsOf,       \* the rolling windows of each scope's policy
  MaxSafeInteger,  \* Number.MAX_SAFE_INTEGER
  Legacy,          \* committed records already in the store at start
  MaxTime,         \* bound on the clock
  MaxWait,         \* how old a request's nowMs can be when it is evaluated
  PruneMargin      \* how far beyond the widest window the operator prunes

VARIABLES
  records,  \* the stored SpendRecords, without their state
  status,   \* the state of the reservation each id holds, "none" if absent
  pruned,   \* history: records pruneBefore() has deleted
  clock     \* real time

limiterVars == <<records, status, pruned, clock>>

-----------------------------------------------------------------------------
(* An optional value of the source is a set of at most one element. *)

KeyOption == {{}} \cup {{m} : m \in MerchantKey}

Stamp == (0 - MaxWait)..MaxTime

SpendRecord == [id : ReservationId, scope : Scope, amount : 0..MaxSafeInteger,
                ms : Stamp, key : KeyOption]

ASSUME LimiterAssumption ==
  /\ MaxSafeInteger \in Nat /\ MaxTime \in Nat /\ MaxWait \in Nat /\ PruneMargin \in Nat
  /\ \A s \in Scope : \A w \in WindowsOf[s] :
       /\ w.windowMs \in Int /\ w.capMinor \subseteq Int /\ w.maxCount \subseteq Int
  /\ Legacy \subseteq SpendRecord
  /\ IsFiniteSet(Legacy)
  /\ \A r, q \in Legacy : r.id = q.id => r = q

-----------------------------------------------------------------------------
(* windowConfigError(w) = null *)
WindowValid(w) ==
  /\ w.windowMs > 0
  /\ w.capMinor \subseteq 0..MaxSafeInteger
  /\ w.maxCount \subseteq 1..MaxSafeInteger
  /\ w.capMinor # {} \/ w.maxCount # {}
  /\ w.dimension \in {"scope", "merchant"}

(* A keyless record counts toward every merchant. *)
SameMerchant(w, r, key) == w.dimension = "merchant" => (r.key = {} \/ r.key = key)

(* The records window w counts for a request of this scope, key and nowMs. *)
Counted(w, req) ==
  {r \in records : /\ r.scope = req.scope
                   /\ r.ms > req.ms - w.windowMs
                   /\ SameMerchant(w, r, req.key)}

(* The minor units of a set of records, one element per unit, so that the  *)
(* sum of the amounts is a cardinality. *)
Units(S) == {u \in S \X (1..MaxSafeInteger) : u[2] <= u[1].amount}

TotalMinor(S) == Cardinality(Units(S))

(* One window against one request.  The source also refuses a total that   *)
(* is no safe integer; capMinor being one, the comparison refuses it too.  *)
WindowAdmitsIgnoringAmount(w, req) ==   \* mutant
  /\ w.dimension = "merchant" => req.key # {}
  /\ \A c \in w.capMinor : TotalMinor(Counted(w, req)) <= c
  /\ \A n \in w.maxCount : Cardinality(Counted(w, req)) + 1 <= n

WindowAdmits(w, req) ==
  /\ w.dimension = "merchant" => req.key # {}
  /\ \A c \in w.capMinor : TotalMinor(Counted(w, req)) + req.amount <= c
  /\ \A n \in w.maxCount : Cardinality(Counted(w, req)) + 1 <= n

(* firstViolatedWindow(...) = null: every window is validated first. *)
Admits(req) ==
  /\ \A w \in WindowsOf[req.scope] : WindowValid(w)
  /\ req.amount \in 0..MaxSafeInteger
  /\ \A w \in WindowsOf[req.scope] : WindowAdmits(w, req)

-----------------------------------------------------------------------------
LimiterInit ==
  /\ records = Legacy
  /\ status = [i \in ReservationId |->
                 IF \E r \in Legacy : r.id = i THEN "committed" ELSE "none"]
  /\ pruned = {}
  /\ clock = 0

(* A retry of an id that already holds a reservation consumes nothing. *)
Replayed(req) == status[req.id] # "none"

ReserveReplayed(req) ==
  /\ Replayed(req)
  /\ UNCHANGED limiterVars

ReserveRefused(req) ==
  /\ ~Replayed(req)
  /\ ~Admits(req)
  /\ UNCHANGED limiterVars

ReserveGranted(req) ==
  /\ ~Replayed(req)
  /\ Admits(req)
  /\ records' = records \cup {req}
  /\ status' = [status EXCEPT ![req.id] = "reserved"]
  /\ UNCHANGED <<pruned, clock>>

Commit(i) ==
  /\ status' = [status EXCEPT ![i] = IF @ = "none" THEN @ ELSE "committed"]
  /\ UNCHANGED <<records, pruned, clock>>

(* Only a reservation can be given back: committed spend is real money. *)
ReleaseAny(i) ==   \* mutant
  /\ records' = {r \in records : r.id # i}
  /\ status' = [status EXCEPT ![i] = "none"]
  /\ UNCHANGED <<pruned, clock>>

Release(i) ==
  /\ IF status[i] = "reserved"
       THEN /\ records' = {r \in records : r.id # i}
            /\ status' = [status EXCEPT ![i] = "none"]
       ELSE UNCHANGED <<records, status>>
  /\ UNCHANGED <<pruned, clock>>

(* The cutoff the operator may pass: older than the widest window. *)
CutoffAllowed(before) ==
  \A s \in Scope : \A w \in WindowsOf[s] : before + w.windowMs + PruneMargin <= clock

PruneBefore(before) ==
  LET old == {r \in records : r.ms < before} IN
  /\ records' = records \ old
  /\ status' = [i \in ReservationId |->
                  IF \E r \in old : r.id = i THEN "none" ELSE status[i]]
  /\ pruned' = pruned \cup old
  /\ UNCHANGED clock

Tick ==
  /\ clock < MaxTime
  /\ clock' = clock + 1
  /\ UNCHANGED <<records, status, pruned>>

(* A request's nowMs was read at most MaxWait ago. *)
Request == [id : ReservationId, scope : Scope, amount : -1..MaxSafeInteger,
            ms : (clock - MaxWait)..clock, key : KeyOption]

LimiterNext ==
  \/ \E req \in Request :
       ReserveReplayed(req) \/ ReserveRefused(req) \/ ReserveGranted(req)
  \/ \E i \in ReservationId : Commit(i) \/ Release(i)
  \/ \E before \in Stamp : CutoffAllowed(before) /\ PruneBefore(before)
  \/ Tick

LimiterSpec == LimiterInit /\ [][LimiterNext]_limiterVars

-----------------------------------------------------------------------------
(* Correctness *)

Spent == records \cup pruned

LimiterTypeOK ==
  /\ records \subseteq SpendRecord
  /\ status \in [ReservationId -> {"none", "reserved", "committed"}]
  /\ pruned \subseteq SpendRecord
  /\ clock \in 0..MaxTime

(* The spend the window w of scope s sees at instant t for merchant key k. *)
Span(s, w, k, t) ==
  {r \in Spent : /\ r.scope = s
                 /\ t - w.windowMs < r.ms
                 /\ r.ms <= t
                 /\ SameMerchant(w, r, k)}

(* Every span of a window's length, ending at any instant, holds at most   *)
(* maxCount payments once a payment of the limiter's own is in it - however *)
(* stale or out of order the callers' clocks were, and counting what was   *)
(* pruned: the velocity limit of firstViolatedWindow(). *)
SpanCountBounded ==
  \A s \in Scope : \A w \in WindowsOf[s] : \A m \in MerchantKey : \A t \in Stamp :
    LET S == Span(s, w, {m}, t) IN
    (S \ Legacy # {}) => \A n \in w.maxCount : Cardinality(S) <= n

(* ... and at most capMinor minor units: "total spend <= cap" of the       *)
(* SpendLimiter contract, across processes. *)
SpanTotalBounded ==
  \A s \in Scope : \A w \in WindowsOf[s] : \A m \in MerchantKey : \A t \in Stamp :
    LET S == Span(s, w, {m}, t) IN
    (S \ Legacy # {}) => \A c \in w.capMinor : TotalMinor(S) <= c

(* A retry storm reserves once: an id never holds two records, and the id  *)
(* index (byId) and the budget index (byScope) never disagree. *)
IndexesAgree ==
  /\ \A r, q \in records : r.id = q.id => r = q
  /\ \A i \in ReservationId : status[i] # "none" <=> \E r \in records : r.id = i

(* A single malformed window refuses everything under its policy: no       *)
(* payment is ever counted under a scope windowConfigError() rejects. *)
NoSpendUnderBrokenConfig ==
  \A r \in Spent \ Legacy : \A w \in WindowsOf[r.scope] : WindowValid(w)

(* The spend a store has let through, whatever was pruned since, is what   *)
(* its budgets allow: no cap, no count and no validation is ever outrun.   *)
CapsHold == SpanCountBounded /\ SpanTotalBounded /\ NoSpendUnderBrokenConfig

(* Committed money is un-counted only once no window of its scope, nor of  *)
(* a request still waiting with an old clock, can see it (release() on     *)
(* committed spend and pruneBefore() are the two ways to lose it). *)
CommittedStaysCounted ==
  [][\A r \in records :
       (status[r.id] = "committed" /\ r \notin records') =>
         \A w \in WindowsOf[r.scope] : r.ms + w.windowMs + MaxWait < clock]_limiterVars

=============================================================================
