---------------------------- MODULE StoreProofs -----------------------------
(***************************************************************************)
(* The two stores every payment passes, and the lock of the file-backed    *)
(* ones.  The spend limiter: its types, the agreement of its two budget    *)
(* indexes, and the velocity and cap bounds over every span of time.  The  *)
(* consume-once registry: its types, the lifetime use budget, the single   *)
(* winner, and the stability of an outcome.  The lock file: its types, the *)
(* waits it imposes, and one holder at a time.                             *)
(***************************************************************************)
EXTENDS SpendLimiter, ConsumeStore, FileMutex, FiniteSetTheorems, TLAPS

(* Every limiter step from a well-typed state is well typed. *)
THEOREM LimiterTypeCorrect == LimiterSpec => []LimiterTypeOK
<1>1. LimiterInit => LimiterTypeOK
  BY LimiterAssumption DEF LimiterInit, LimiterTypeOK
<1>2. LimiterTypeOK /\ [LimiterNext]_limiterVars => LimiterTypeOK'
  <2> SUFFICES ASSUME LimiterTypeOK, [LimiterNext]_limiterVars
               PROVE  LimiterTypeOK'
    OBVIOUS
  <2> USE LimiterAssumption DEF LimiterTypeOK
  <2>1. ASSUME NEW req \in Request, ReserveGranted(req) PROVE LimiterTypeOK'
    <3>1. req \in SpendRecord
      BY <2>1 DEF ReserveGranted, Admits, Request, SpendRecord, Stamp
    <3>2. QED BY <2>1, <3>1 DEF ReserveGranted
  <2>2. ASSUME NEW i \in ReservationId, Commit(i) PROVE LimiterTypeOK'
    BY <2>2 DEF Commit
  <2>3. ASSUME NEW i \in ReservationId, Release(i) PROVE LimiterTypeOK'
    BY <2>3 DEF Release
  <2>4. ASSUME NEW before \in Stamp, PruneBefore(before) PROVE LimiterTypeOK'
    BY <2>4 DEF PruneBefore
  <2>5. CASE Tick
    BY <2>5 DEF Tick
  <2>6. CASE UNCHANGED limiterVars
    BY <2>6 DEF limiterVars
  <2>7. QED
    BY <2>1, <2>2, <2>3, <2>4, <2>5, <2>6
    DEF LimiterNext, ReserveReplayed, ReserveRefused
<1>3. QED BY <1>1, <1>2, PTL DEF LimiterSpec

-----------------------------------------------------------------------------
(* What pruneBefore() deleted is out of every window's sight, for every    *)
(* request that can still arrive. *)
PrunedOutOfSight ==
  \A p \in pruned : \A w \in WindowsOf[p.scope] : p.ms + w.windowMs + MaxWait < clock

(* The inductive invariant behind the velocity and cap bounds. *)
SpanInv ==
  /\ LimiterTypeOK
  /\ IsFiniteSet(records)
  /\ IsFiniteSet(pruned)
  /\ PrunedOutOfSight
  /\ SpanCountBounded
  /\ SpanTotalBounded

(* Units of a finite set of records is a finite set. *)
LEMMA UnitsFinite ==
  ASSUME NEW S, IsFiniteSet(S)
  PROVE  IsFiniteSet(Units(S)) /\ Cardinality(Units(S)) \in Nat
<1>1. IsFiniteSet(1..MaxSafeInteger)
  BY LimiterAssumption, FS_Interval
<1>2. IsFiniteSet(S \X (1..MaxSafeInteger))
  BY <1>1, FS_Product
<1>3. QED BY <1>2, FS_Subset, FS_CardinalityType DEF Units

(* A larger set of records has at least as many units. *)
LEMMA UnitsMonotone ==
  ASSUME NEW S, IsFiniteSet(S), NEW T \in SUBSET S
  PROVE  TotalMinor(T) <= TotalMinor(S)
<1>1. Units(T) \subseteq Units(S)
  BY DEF Units
<1>2. QED BY <1>1, UnitsFinite, FS_Subset DEF TotalMinor

(* One more record adds at most its amount. *)
LEMMA UnitsAdd ==
  ASSUME NEW S, IsFiniteSet(S), NEW r \in SpendRecord
  PROVE  TotalMinor(S \cup {r}) <= TotalMinor(S) + r.amount
<1> DEFINE R == {r} \X (1..r.amount)
<1>1. r.amount \in 0..MaxSafeInteger /\ r.amount \in Int
  BY LimiterAssumption DEF SpendRecord
<1>2. IsFiniteSet(1..r.amount) /\ Cardinality(1..r.amount) = r.amount
  <2> DEFINE n == r.amount
  <2> HIDE DEF n
  <2>1. n \in Int /\ n >= 0
    BY <1>1, LimiterAssumption DEF n
  <2>2. IsFiniteSet(1..n) /\ Cardinality(1..n) = IF 1 > n THEN 0 ELSE n - 1 + 1
    BY <2>1, FS_Interval
  <2>3. IsFiniteSet(1..n) /\ Cardinality(1..n) = n
    BY <2>1, <2>2
  <2>4. QED BY <2>3 DEF n
<1>3. IsFiniteSet(R) /\ Cardinality(R) = r.amount
  <2> DEFINE A == {r}
             B == 1..r.amount
  <2>1. IsFiniteSet(A) /\ Cardinality(A) = 1
    BY FS_Singleton
  <2>2. IsFiniteSet(B) /\ Cardinality(B) = r.amount
    BY <1>2
  <2> HIDE DEF A, B
  <2>3. IsFiniteSet(A \X B) /\ Cardinality(A \X B) = Cardinality(A) * Cardinality(B)
    BY <2>1, <2>2, FS_Product
  <2>4. IsFiniteSet(A \X B) /\ Cardinality(A \X B) = r.amount
    BY <1>1, <2>1, <2>2, <2>3
  <2>5. QED BY <2>4 DEF A, B
<1>4. Units(S \cup {r}) \subseteq Units(S) \cup R
  BY <1>1, LimiterAssumption DEF Units
<1>5. IsFiniteSet(Units(S)) /\ Cardinality(Units(S)) \in Nat
  BY UnitsFinite
<1>6. /\ IsFiniteSet(Units(S) \cup R)
      /\ Cardinality(Units(S) \cup R) = Cardinality(Units(S)) + Cardinality(R)
                                        - Cardinality(Units(S) \cap R)
  BY <1>3, <1>5, FS_Union
<1>7. Cardinality(Units(S) \cap R) \in Nat
  BY <1>5, FS_Intersection, FS_CardinalityType
<1>8. Cardinality(Units(S \cup {r})) <= Cardinality(Units(S) \cup R)
  BY <1>4, <1>6, FS_Subset
<1>9. Cardinality(Units(S \cup {r})) \in Nat
  BY <1>4, <1>6, FS_Subset, FS_CardinalityType
<1>10. QED BY <1>1, <1>3, <1>5, <1>6, <1>7, <1>8, <1>9 DEF TotalMinor

(* The heart of the argument: whatever instant a span ends at, if it holds *)
(* the request being granted then the limiter has counted all the rest of  *)
(* it, because a span of length W around nowMs starts after nowMs - W, and *)
(* nothing pruned is recent enough to be missed. *)
LEMMA CountedCoversSpan ==
  ASSUME LimiterTypeOK, PrunedOutOfSight,
         NEW req \in Request, Admits(req),
         NEW w \in WindowsOf[req.scope], NEW m \in MerchantKey, NEW t \in Stamp,
         t - w.windowMs < req.ms, req.ms <= t, SameMerchant(w, req, {m})
  PROVE  Span(req.scope, w, {m}, t) \subseteq Counted(w, req)
<1>1. /\ req.ms \in Int /\ req.ms >= clock - MaxWait /\ clock \in Int /\ t \in Int
      /\ w.windowMs \in Int /\ MaxWait \in Int /\ req.scope \in Scope
  BY LimiterAssumption DEF Request, LimiterTypeOK, Stamp
<1>2. w.dimension = "merchant" => req.key = {m}
  BY DEF Admits, WindowAdmits, SameMerchant
<1>3. ASSUME NEW r \in Span(req.scope, w, {m}, t)
      PROVE  r \in Counted(w, req)
  <2>1. /\ r \in records \cup pruned /\ r.scope = req.scope /\ t - w.windowMs < r.ms
        /\ SameMerchant(w, r, {m})
    BY <1>3 DEF Span, Spent
  <2>2. r.ms \in Int
    BY <2>1, LimiterAssumption DEF LimiterTypeOK, SpendRecord, Stamp
  <2>3. r.ms > req.ms - w.windowMs
    BY <1>1, <2>1, <2>2
  <2>4. r \notin pruned
    <3> SUFFICES ASSUME r \in pruned PROVE FALSE
      OBVIOUS
    <3>1. r.ms + w.windowMs + MaxWait < clock
      BY <2>1 DEF PrunedOutOfSight
    <3>2. QED BY <1>1, <2>2, <2>3, <3>1
  <2>5. SameMerchant(w, r, req.key)
    BY <1>2, <2>1 DEF SameMerchant
  <2>6. QED BY <2>1, <2>3, <2>4, <2>5 DEF Counted
<1>4. QED BY <1>3

(* A step that counts no new record keeps every bound. *)
LEMMA ShrinkingKeepsBounds ==
  ASSUME SpanCountBounded, SpanTotalBounded, IsFiniteSet(Spent), Spent' \subseteq Spent
  PROVE  SpanCountBounded' /\ SpanTotalBounded'
<1> SUFFICES ASSUME NEW s \in Scope, NEW w \in WindowsOf[s], NEW m \in MerchantKey,
                    NEW t \in Stamp, Span(s, w, {m}, t)' \ Legacy # {}
             PROVE  /\ \A n \in w.maxCount : Cardinality(Span(s, w, {m}, t)') <= n
                    /\ \A c \in w.capMinor : TotalMinor(Span(s, w, {m}, t)') <= c
  BY DEF SpanCountBounded, SpanTotalBounded, TotalMinor, Units
<1> DEFINE S == Span(s, w, {m}, t)
           T == Span(s, w, {m}, t)'
<1>1. T \subseteq S /\ S \subseteq Spent
  BY DEF Span, SameMerchant
<1>2. IsFiniteSet(S) /\ IsFiniteSet(T)
  BY <1>1, FS_Subset
<1>3. /\ Cardinality(S) \in Nat /\ Cardinality(T) \in Nat
      /\ TotalMinor(S) \in Nat /\ TotalMinor(T) \in Nat
  BY <1>2, FS_CardinalityType, UnitsFinite DEF TotalMinor
<1>4. Cardinality(T) <= Cardinality(S) /\ TotalMinor(T) <= TotalMinor(S)
  BY <1>1, <1>2, FS_Subset, UnitsMonotone
<1>5. S \ Legacy # {}
  BY <1>1
<1>6. /\ \A n \in w.maxCount : Cardinality(S) <= n
      /\ \A c \in w.capMinor : TotalMinor(S) <= c
  BY <1>5 DEF SpanCountBounded, SpanTotalBounded
<1>7. w.maxCount \subseteq Int /\ w.capMinor \subseteq Int
  BY LimiterAssumption
<1>8. QED BY <1>3, <1>4, <1>6, <1>7

(* Granting a request keeps the bounds of every span it falls into. *)
LEMMA GrantKeepsBounds ==
  ASSUME SpanInv, NEW req \in Request, ReserveGranted(req)
  PROVE  SpanCountBounded' /\ SpanTotalBounded'
<1> SUFFICES ASSUME NEW s \in Scope, NEW w \in WindowsOf[s], NEW m \in MerchantKey,
                    NEW t \in Stamp, Span(s, w, {m}, t)' \ Legacy # {}
             PROVE  /\ \A n \in w.maxCount : Cardinality(Span(s, w, {m}, t)') <= n
                    /\ \A c \in w.capMinor : TotalMinor(Span(s, w, {m}, t)') <= c
  BY DEF SpanCountBounded, SpanTotalBounded, TotalMinor, Units
<1> USE DEF SpanInv
<1> DEFINE S == Span(s, w, {m}, t)
           T == Span(s, w, {m}, t)'
           K == Counted(w, req)
<1>1. Admits(req) /\ Spent' = Spent \cup {req} /\ req \in SpendRecord
  <2>1. Admits(req) /\ Spent' = Spent \cup {req}
    BY DEF ReserveGranted, Spent
  <2>2. req \in SpendRecord
    BY <2>1, LimiterAssumption DEF Admits, Request, SpendRecord, Stamp, LimiterTypeOK
  <2>3. QED BY <2>1, <2>2
<1>2. w.maxCount \subseteq Int /\ w.capMinor \subseteq Int
  BY LimiterAssumption
<1>3. IsFiniteSet(Spent) /\ IsFiniteSet(records)
  BY FS_Union DEF Spent
<1>4. CASE req \notin T
  <2>1. T = S
    BY <1>1, <1>4 DEF Span, SameMerchant
  <2>2. S \ Legacy # {}
    BY <2>1
  <2>3. QED BY <2>1, <2>2 DEF SpanCountBounded, SpanTotalBounded
<1>5. CASE req \in T
  <2>1. /\ req.scope = s /\ t - w.windowMs < req.ms /\ req.ms <= t
        /\ SameMerchant(w, req, {m})
    BY <1>5 DEF Span, SameMerchant
  <2>2. S \subseteq K
    BY <1>1, <2>1, CountedCoversSpan
  <2>3. T \subseteq K \cup {req}
    BY <1>1, <2>2 DEF Span, SameMerchant
  <2>4. IsFiniteSet(K)
    BY <1>3, FS_Subset DEF Counted
  <2>5. IsFiniteSet(K \cup {req}) /\ Cardinality(K \cup {req}) <= Cardinality(K) + 1
    <3> HIDE DEF K
    <3>1. Cardinality(K) \in Nat
      BY <2>4, FS_CardinalityType
    <3>2. IsFiniteSet(K \cup {req})
      BY <2>4, FS_AddElement
    <3>3. Cardinality(K \cup {req}) = IF req \in K THEN Cardinality(K) ELSE Cardinality(K) + 1
      BY <2>4, FS_AddElement
    <3>4. QED BY <3>1, <3>2, <3>3
  <2>6. IsFiniteSet(T) /\ Cardinality(T) <= Cardinality(K \cup {req})
    BY <2>3, <2>5, FS_Subset
  <2>7. TotalMinor(T) <= TotalMinor(K \cup {req})
    BY <2>3, <2>5, UnitsMonotone
  <2>8. TotalMinor(K \cup {req}) <= TotalMinor(K) + req.amount
    BY <1>1, <2>4, UnitsAdd
  <2>9. /\ Cardinality(T) \in Nat /\ Cardinality(K) \in Nat
        /\ Cardinality(K \cup {req}) \in Nat
    BY <2>4, <2>5, <2>6, FS_CardinalityType
  <2>10. /\ TotalMinor(T) \in Nat /\ TotalMinor(K) \in Nat
         /\ TotalMinor(K \cup {req}) \in Nat
    BY <2>4, <2>5, <2>6, UnitsFinite DEF TotalMinor
  <2>11. /\ \A n \in w.maxCount : Cardinality(K) + 1 <= n
         /\ \A c \in w.capMinor : TotalMinor(K) + req.amount <= c
    BY <1>1, <2>1 DEF Admits, WindowAdmits
  <2>12. req.amount \in Int
    BY <1>1, LimiterAssumption DEF SpendRecord
  <2>13. ASSUME NEW n \in w.maxCount PROVE Cardinality(T) <= n
    BY <1>2, <2>5, <2>6, <2>9, <2>11
  <2>14. ASSUME NEW c \in w.capMinor PROVE TotalMinor(T) <= c
    BY <1>2, <2>7, <2>8, <2>10, <2>11, <2>12
  <2>15. QED BY <2>13, <2>14
<1>6. QED BY <1>4, <1>5

(* The invariant holds at start: every span is legacy only. *)
LEMMA SpanInvInit ==
  ASSUME LimiterInit
  PROVE  SpanInv
<1>1. LimiterTypeOK
  BY LimiterAssumption DEF LimiterInit, LimiterTypeOK
<1>2. IsFiniteSet(records) /\ IsFiniteSet(pruned)
  BY LimiterAssumption, FS_EmptySet DEF LimiterInit
<1>3. PrunedOutOfSight
  BY DEF LimiterInit, PrunedOutOfSight
<1>4. \A s \in Scope : \A w \in WindowsOf[s] : \A m \in MerchantKey : \A t \in Stamp :
        Span(s, w, {m}, t) \subseteq Legacy
  BY DEF LimiterInit, Span, Spent
<1>5. SpanCountBounded /\ SpanTotalBounded
  BY <1>4 DEF SpanCountBounded, SpanTotalBounded
<1>6. QED BY <1>1, <1>2, <1>3, <1>5 DEF SpanInv

(* Every limiter step preserves the invariant, when the operator's prune   *)
(* margin covers the longest wait of a request. *)
LEMMA SpanInvStep ==
  ASSUME PruneMargin >= MaxWait, SpanInv, [LimiterNext]_limiterVars, LimiterTypeOK'
  PROVE  SpanInv'
<1> USE DEF SpanInv
<1>0. IsFiniteSet(Spent)
  BY FS_Union DEF Spent
<1>1. ASSUME NEW req \in Request, ReserveGranted(req) PROVE SpanInv'
  <2>1. IsFiniteSet(records') /\ IsFiniteSet(pruned')
    BY <1>1, FS_AddElement DEF ReserveGranted
  <2>2. PrunedOutOfSight'
    BY <1>1 DEF ReserveGranted, PrunedOutOfSight
  <2>3. QED BY <1>1, <2>1, <2>2, GrantKeepsBounds
<1>2. ASSUME NEW i \in ReservationId, Commit(i) PROVE SpanInv'
  <2>1. Spent' \subseteq Spent /\ records' = records /\ pruned' = pruned
    BY <1>2 DEF Commit, Spent
  <2>2. PrunedOutOfSight'
    BY <1>2 DEF Commit, PrunedOutOfSight
  <2>3. QED BY <1>0, <2>1, <2>2, ShrinkingKeepsBounds
<1>3. ASSUME NEW i \in ReservationId, Release(i) PROVE SpanInv'
  <2>1. Spent' \subseteq Spent /\ records' \subseteq records /\ pruned' = pruned
    BY <1>3 DEF Release, Spent
  <2>2. PrunedOutOfSight'
    BY <1>3 DEF Release, PrunedOutOfSight
  <2>3. IsFiniteSet(records')
    BY <2>1, FS_Subset
  <2>4. QED BY <1>0, <2>1, <2>2, <2>3, ShrinkingKeepsBounds
<1>4. ASSUME NEW before \in Stamp, CutoffAllowed(before), PruneBefore(before) PROVE SpanInv'
  <2>1. /\ Spent' \subseteq Spent /\ records' \subseteq records
        /\ pruned' \subseteq pruned \cup {r \in records : r.ms < before}
    BY <1>4 DEF PruneBefore, Spent
  <2>2. IsFiniteSet(records') /\ IsFiniteSet(pruned')
    <3>1. pruned' \subseteq Spent
      BY <2>1 DEF Spent
    <3>2. QED BY <1>0, <2>1, <3>1, FS_Subset
  <2>3. PrunedOutOfSight'
    <3> SUFFICES ASSUME NEW p \in pruned', NEW w \in WindowsOf[p.scope]
                 PROVE  p.ms + w.windowMs + MaxWait < clock
      BY <1>4 DEF PruneBefore, PrunedOutOfSight
    <3>1. CASE p \in pruned
      BY <3>1 DEF PrunedOutOfSight
    <3>2. CASE p \in records /\ p.ms < before
      <4>1. /\ p.scope \in Scope /\ p.ms \in Int /\ w.windowMs \in Int /\ before \in Int
            /\ MaxWait \in Int /\ PruneMargin \in Int /\ clock \in Int
        BY <3>2, LimiterAssumption DEF LimiterTypeOK, SpendRecord, Stamp
      <4>2. before + w.windowMs + PruneMargin <= clock
        BY <1>4, <4>1 DEF CutoffAllowed
      <4>3. QED BY <3>2, <4>1, <4>2
    <3>3. QED BY <2>1, <3>1, <3>2
  <2>4. QED BY <1>0, <2>1, <2>2, <2>3, ShrinkingKeepsBounds
<1>5. CASE Tick
  <2>1. Spent' \subseteq Spent /\ records' = records /\ pruned' = pruned
    BY <1>5 DEF Tick, Spent
  <2>2. PrunedOutOfSight'
    <3> SUFFICES ASSUME NEW p \in pruned, NEW w \in WindowsOf[p.scope]
                 PROVE  p.ms + w.windowMs + MaxWait < clock + 1
      BY <1>5 DEF Tick, PrunedOutOfSight
    <3>1. /\ p.scope \in Scope /\ p.ms \in Int /\ w.windowMs \in Int
          /\ MaxWait \in Int /\ clock \in Int
      BY LimiterAssumption DEF LimiterTypeOK, SpendRecord, Stamp
    <3>2. p.ms + w.windowMs + MaxWait < clock
      BY DEF PrunedOutOfSight
    <3>3. QED BY <3>1, <3>2
  <2>3. QED BY <1>0, <2>1, <2>2, ShrinkingKeepsBounds
<1>6. CASE UNCHANGED limiterVars
  <2>1. Spent' \subseteq Spent /\ records' = records /\ pruned' = pruned
    BY <1>6 DEF limiterVars, Spent
  <2>2. PrunedOutOfSight'
    BY <1>6 DEF limiterVars, PrunedOutOfSight
  <2>3. QED BY <1>0, <2>1, <2>2, ShrinkingKeepsBounds
<1>7. QED
  BY <1>1, <1>2, <1>3, <1>4, <1>5, <1>6 DEF LimiterNext, ReserveReplayed, ReserveRefused

(* The spend caps hold for every number of processes, windows, merchants   *)
(* and ids, however stale the clocks, provided old records are pruned with *)
(* a margin that covers the longest wait: every span of every window holds *)
(* at most maxCount payments and capMinor minor units. *)
THEOREM LimiterCapsHold ==
  ASSUME PruneMargin >= MaxWait
  PROVE  LimiterSpec => [](SpanCountBounded /\ SpanTotalBounded)
<1>1. LimiterSpec => []LimiterTypeOK
  BY LimiterTypeCorrect
<1>2. LimiterInit => SpanInv
  BY SpanInvInit
<1>3. SpanInv /\ [LimiterNext]_limiterVars /\ LimiterTypeOK' => SpanInv'
  BY SpanInvStep
<1>4. SpanInv => SpanCountBounded /\ SpanTotalBounded
  BY DEF SpanInv
<1>5. QED BY <1>1, <1>2, <1>3, <1>4, PTL DEF LimiterSpec

(* A scope with one malformed window never gets a record of the limiter's  *)
(* own, and what pruneBefore() deletes was such a record or an old one. *)
LEMMA BrokenStaysUnspent ==
  NoSpendUnderBrokenConfig /\ [LimiterNext]_limiterVars => NoSpendUnderBrokenConfig'
<1> SUFFICES ASSUME NoSpendUnderBrokenConfig, [LimiterNext]_limiterVars
             PROVE  NoSpendUnderBrokenConfig'
  OBVIOUS
<1> USE DEF NoSpendUnderBrokenConfig, Spent
<1>1. ASSUME NEW req \in Request, ReserveGranted(req) PROVE NoSpendUnderBrokenConfig'
  <2>1. \A w \in WindowsOf[req.scope] : WindowValid(w)
    BY <1>1 DEF ReserveGranted, Admits
  <2>2. records' = records \cup {req} /\ pruned' = pruned
    BY <1>1 DEF ReserveGranted
  <2>3. QED BY <2>1, <2>2
<1>2. ASSUME NEW i \in ReservationId, Commit(i) PROVE NoSpendUnderBrokenConfig'
  BY <1>2 DEF Commit
<1>3. ASSUME NEW i \in ReservationId, Release(i) PROVE NoSpendUnderBrokenConfig'
  <2>1. records' \subseteq records /\ pruned' = pruned
    BY <1>3 DEF Release
  <2>2. QED BY <2>1
<1>4. ASSUME NEW before \in Stamp, PruneBefore(before) PROVE NoSpendUnderBrokenConfig'
  <2>1. records' \cup pruned' = records \cup pruned
    BY <1>4 DEF PruneBefore
  <2>2. QED BY <2>1
<1>5. CASE Tick
  BY <1>5 DEF Tick
<1>6. CASE UNCHANGED limiterVars
  BY <1>6 DEF limiterVars
<1>7. QED
  BY <1>1, <1>2, <1>3, <1>4, <1>5, <1>6
  DEF LimiterNext, ReserveReplayed, ReserveRefused, limiterVars

(* The whole of what a budget promises (CapsHold): caps, counts and the    *)
(* refusal of a malformed policy. *)
THEOREM LimiterBudgetsHold ==
  ASSUME PruneMargin >= MaxWait
  PROVE  LimiterSpec => []CapsHold
<1>1. LimiterSpec => [](SpanCountBounded /\ SpanTotalBounded)
  BY LimiterCapsHold
<1>2. LimiterInit => NoSpendUnderBrokenConfig
  BY DEF LimiterInit, NoSpendUnderBrokenConfig, Spent
<1>3. SpanCountBounded /\ SpanTotalBounded /\ NoSpendUnderBrokenConfig => CapsHold
  BY DEF CapsHold
<1>4. QED BY <1>1, <1>2, <1>3, BrokenStaysUnspent, PTL DEF LimiterSpec

-----------------------------------------------------------------------------
(* A reservation id never holds two records, and the two indexes agree:    *)
(* every retry of a granted id finds the one reservation it already has. *)
THEOREM LimiterIndexesAgree == LimiterSpec => []IndexesAgree
<1>1. LimiterSpec => []LimiterTypeOK
  BY LimiterTypeCorrect
<1>2. LimiterInit => IndexesAgree
  BY LimiterAssumption DEF LimiterInit, IndexesAgree
<1>3. LimiterTypeOK /\ IndexesAgree /\ [LimiterNext]_limiterVars => IndexesAgree'
  <2> SUFFICES ASSUME LimiterTypeOK, IndexesAgree, [LimiterNext]_limiterVars
               PROVE  IndexesAgree'
    OBVIOUS
  <2> USE DEF LimiterTypeOK, IndexesAgree
  <2>1. ASSUME NEW req \in Request, ReserveGranted(req) PROVE IndexesAgree'
    BY <2>1 DEF ReserveGranted, Replayed, Request
  <2>2. ASSUME NEW i \in ReservationId, Commit(i) PROVE IndexesAgree'
    BY <2>2 DEF Commit
  <2>3. ASSUME NEW i \in ReservationId, Release(i) PROVE IndexesAgree'
    BY <2>3 DEF Release
  <2>4. ASSUME NEW before \in Stamp, PruneBefore(before) PROVE IndexesAgree'
    BY <2>4 DEF PruneBefore
  <2>5. CASE Tick
    BY <2>5 DEF Tick
  <2>6. CASE UNCHANGED limiterVars
    BY <2>6 DEF limiterVars
  <2>7. QED
    BY <2>1, <2>2, <2>3, <2>4, <2>5, <2>6
    DEF LimiterNext, ReserveReplayed, ReserveRefused
<1>4. QED BY <1>1, <1>2, <1>3, PTL DEF LimiterSpec

(* Committed spend leaves the store only through pruneBefore(), and only   *)
(* once no window and no waiting request can see it: release() never       *)
(* un-counts real money. *)
THEOREM CommittedSpendStays ==
  ASSUME PruneMargin >= MaxWait
  PROVE  LimiterSpec => CommittedStaysCounted
<1> DEFINE Stays == \A r \in records :
                      (status[r.id] = "committed" /\ r \notin records') =>
                        \A w \in WindowsOf[r.scope] : r.ms + w.windowMs + MaxWait < clock
<1>1. LimiterSpec => []LimiterTypeOK
  BY LimiterTypeCorrect
<1>2. LimiterTypeOK /\ [LimiterNext]_limiterVars => [Stays]_limiterVars
  <2> SUFFICES ASSUME LimiterTypeOK, LimiterNext,
                      NEW r \in records, status[r.id] = "committed", r \notin records',
                      NEW w \in WindowsOf[r.scope]
               PROVE  r.ms + w.windowMs + MaxWait < clock
    OBVIOUS
  <2>1. PICK before \in Stamp : CutoffAllowed(before) /\ PruneBefore(before)
    BY DEF LimiterNext, ReserveReplayed, ReserveRefused, ReserveGranted, Commit, Release,
           Tick, limiterVars
  <2>2. /\ r.scope \in Scope /\ r.ms \in Int /\ w.windowMs \in Int /\ before \in Int
        /\ MaxWait \in Int /\ PruneMargin \in Int /\ clock \in Int
    BY LimiterAssumption DEF LimiterTypeOK, SpendRecord, Stamp
  <2>3. r.ms < before
    BY <2>1, <2>2 DEF PruneBefore
  <2>4. before + w.windowMs + PruneMargin <= clock
    BY <2>1, <2>2 DEF CutoffAllowed
  <2>5. QED BY <2>2, <2>3, <2>4
<1>3. QED BY <1>1, <1>2, PTL DEF LimiterSpec, CommittedStaysCounted

-----------------------------------------------------------------------------
(* The consume-once registry. *)

(* The intent ids that ever won a use of m. *)
Won(m) == {k \in UseKey : wins[m][k] > 0}

(* The inductive invariant: while a mandate can still be used, what the    *)
(* store remembers of it is exactly what was won under it. *)
ConsumeInv ==
  /\ ConsumeTypeOK
  /\ UseWonOnce
  /\ UsesWithinBudget
  /\ \A m \in Mandate \ sealed : Won(m) = Used(m)

(* The invariant holds at start: nothing is claimed, nothing is won. *)
LEMMA ConsumeInvInit ==
  ASSUME ConsumeInit
  PROVE  ConsumeInv
<1>1. ConsumeTypeOK
  BY DEF ConsumeInit, ConsumeTypeOK, Claimed, Claim, Outcome
<1>2. \A m \in Mandate : Won(m) = {} /\ Used(m) = {}
  BY DEF ConsumeInit, Won, Used, Claimed
<1>3. UsesWithinBudget
  <2>1. \A m \in Mandate : {k \in UseKey : wins[m][k] > 0} = {}
    BY <1>2 DEF Won
  <2>2. Cardinality({}) = 0
    BY FS_EmptySet
  <2>3. \A m \in Mandate : 0 <= MaxUses[m]
    BY ConsumeAssumption
  <2>4. QED BY <2>1, <2>2, <2>3 DEF UsesWithinBudget
<1>4. UseWonOnce
  BY DEF ConsumeInit, UseWonOnce
<1>5. QED BY <1>1, <1>2, <1>3, <1>4 DEF ConsumeInv

(* A won claim is one more use, within the budget claim() checked. *)
LEMMA ClaimWonKeepsBudget ==
  ASSUME ConsumeInv, NEW m \in Mandate \ sealed, NEW k \in UseKey, NEW d \in Digest,
         ClaimWon(m, k, d)
  PROVE  ConsumeInv'
<1> USE DEF ConsumeInv, ConsumeTypeOK
<1>1. claims[m][k].status = "none" /\ wins[m][k] = 0
  BY DEF ClaimWon, Claimed, Used, Won
<1>2. ConsumeTypeOK'
  BY DEF ClaimWon, Claim, Claimed
<1>3. UseWonOnce'
  BY <1>1 DEF ClaimWon, UseWonOnce
<1>4. \A n \in Mandate : n # m => Won(n)' = Won(n) /\ Used(n)' = Used(n)
  BY DEF ClaimWon, Won, Used, Claimed
<1>5. Won(m)' = Won(m) \cup {k} /\ Used(m)' = Used(m) \cup {k} /\ Won(m) = Used(m)
  <2>1. Won(m)' = Won(m) \cup {k}
    BY <1>1 DEF ClaimWon, Won
  <2>2. Used(m)' = Used(m) \cup {k}
    BY DEF ClaimWon, Used, Claimed, Claim
  <2>3. QED BY <2>1, <2>2
<1>6. IsFiniteSet(Used(m)) /\ Cardinality(Used(m)) \in Nat
  BY ConsumeAssumption, FS_Subset, FS_CardinalityType DEF Used
<1>7. Cardinality(Won(m)') <= MaxUses[m]
  <2>1. Cardinality(Used(m) \cup {k}) <= Cardinality(Used(m)) + 1
    <3> DEFINE U == Used(m)
    <3>1. Cardinality(U \cup {k}) = IF k \in U THEN Cardinality(U) ELSE Cardinality(U) + 1
      <4> HIDE DEF U
      <4>1. IsFiniteSet(U)
        BY <1>6 DEF U
      <4>2. QED BY <4>1, FS_AddElement
    <3>2. QED BY <1>6, <3>1
  <2>2. Cardinality(Used(m)) < MaxUses[m] /\ MaxUses[m] \in Nat
    BY ConsumeAssumption DEF ClaimWon, BudgetLeft
  <2>3. IsFiniteSet(Used(m) \cup {k}) /\ Cardinality(Used(m) \cup {k}) \in Nat
    BY <1>6, FS_AddElement, FS_CardinalityType
  <2>4. QED BY <1>5, <1>6, <2>1, <2>2, <2>3
<1>8. UsesWithinBudget'
  BY <1>4, <1>7 DEF UsesWithinBudget, Won
<1>9. \A n \in Mandate \ sealed' : Won(n)' = Used(n)'
  BY <1>4, <1>5 DEF ClaimWon
<1>10. QED BY <1>2, <1>3, <1>8, <1>9

(* Every store step preserves the invariant. *)
LEMMA ConsumeInvStep ==
  ASSUME ConsumeInv, [ConsumeNext]_consumeVars
  PROVE  ConsumeInv'
<1> USE DEF ConsumeInv, ConsumeTypeOK
<1>1. ASSUME NEW m \in Mandate \ sealed, NEW k \in UseKey, NEW d \in Digest,
             ClaimWon(m, k, d)
      PROVE  ConsumeInv'
  BY <1>1, ClaimWonKeepsBudget
<1>2. ASSUME NEW m \in Mandate, NEW k \in UseKey, NEW o \in Outcome, SettleUse(m, k, o)
      PROVE  ConsumeInv'
  <2>1. /\ claims' \in [Mandate -> [UseKey -> Claim]]
        /\ \A n \in Mandate, j \in UseKey : Claimed(n, j)' <=> Claimed(n, j)
    <3>1. CASE claims[m][k].status = "pending"
      <4>1. claims' = [claims EXCEPT ![m] = [claims[m] EXCEPT ![k] =
                         [claims[m][k] EXCEPT !.status = o]]]
        BY <1>2, <3>1 DEF SettleUse
      <4>2. [claims[m][k] EXCEPT !.status = o] \in Claim
        BY DEF Claim
      <4>3. claims' \in [Mandate -> [UseKey -> Claim]]
        BY <4>1, <4>2
      <4>4. o # "none"
        BY DEF Outcome
      <4>5. [claims[m][k] EXCEPT !.status = o].status = o
        BY DEF Claim
      <4>6. \A n \in Mandate, j \in UseKey : Claimed(n, j)' <=> Claimed(n, j)
        BY <3>1, <4>1, <4>4, <4>5 DEF Claimed
      <4>7. QED BY <4>3, <4>6
    <3>2. CASE claims[m][k].status # "pending"
      BY <1>2, <3>2 DEF SettleUse, Claimed
    <3>3. QED BY <3>1, <3>2
  <2>2. \A n \in Mandate : Won(n)' = Won(n) /\ Used(n)' = Used(n)
    BY <1>2, <2>1 DEF SettleUse, Won, Used
  <2>3. QED BY <1>2, <2>1, <2>2 DEF SettleUse, UseWonOnce, UsesWithinBudget
<1>3. ASSUME NEW dead \in SUBSET Mandate, PruneAllowed(dead), PruneMandates(dead)
      PROVE  ConsumeInv'
  <2>1. /\ claims' \in [Mandate -> [UseKey -> Claim]]
        /\ \A n \in Mandate, j \in UseKey : Claimed(n, j)' => Claimed(n, j)
        /\ \A n \in Mandate \ sealed, j \in UseKey : Claimed(n, j)' <=> Claimed(n, j)
    <3>1. \A n \in Mandate, j \in UseKey :
            [status |-> "none", digest |-> claims[n][j].digest] \in Claim
      BY DEF Claim
    <3>2. \A n \in Mandate, j \in UseKey :
            claims'[n][j] = IF n \in dead THEN [status |-> "none", digest |-> claims[n][j].digest]
                                          ELSE claims[n][j]
      BY <1>3 DEF PruneMandates
    <3>4. claims' \in [Mandate -> [UseKey -> Claim]]
      BY <1>3, <3>1 DEF PruneMandates
    <3>5. \A n \in Mandate, j \in UseKey : Claimed(n, j)' => Claimed(n, j)
      <4> SUFFICES ASSUME NEW n \in Mandate, NEW j \in UseKey, claims'[n][j].status # "none"
                   PROVE  claims[n][j].status # "none"
        BY DEF Claimed
      <4>1. CASE n \in dead
        <5>1. claims'[n][j] = [status |-> "none", digest |-> claims[n][j].digest]
          BY <3>2, <4>1
        <5>2. QED BY <5>1
      <4>2. CASE n \notin dead
        BY <3>2, <4>2
      <4>3. QED BY <4>1, <4>2
    <3>6. \A n \in Mandate \ sealed, j \in UseKey : Claimed(n, j)' <=> Claimed(n, j)
      BY <1>3, <3>2 DEF PruneAllowed, Claimed
    <3>7. QED BY <3>4, <3>5, <3>6
  <2>2. /\ \A n \in Mandate : Won(n)' = Won(n)
        /\ \A n \in Mandate \ sealed : Used(n)' = Used(n)
    BY <1>3, <2>1 DEF PruneMandates, Won, Used
  <2>3. QED BY <1>3, <2>1, <2>2 DEF PruneMandates, UseWonOnce, UsesWithinBudget
<1>4. ASSUME NEW m \in Mandate, Seal(m)
      PROVE  ConsumeInv'
  <2>1. \A n \in Mandate : Won(n)' = Won(n) /\ Used(n)' = Used(n)
    BY <1>4 DEF Seal, Won, Used, Claimed
  <2>2. QED BY <1>4, <2>1 DEF Seal, UseWonOnce, UsesWithinBudget, Claimed
<1>5. CASE UNCHANGED consumeVars
  BY <1>5 DEF consumeVars, Won, Used, Claimed, UseWonOnce, UsesWithinBudget
<1>6. QED
  BY <1>1, <1>2, <1>3, <1>4, <1>5 DEF ConsumeNext, ClaimDuplicate, ClaimExhausted

(* Types hold in every state of the registry. *)
THEOREM ConsumeTypeCorrect == ConsumeSpec => []ConsumeTypeOK
<1>1. ConsumeInv => ConsumeTypeOK
  BY DEF ConsumeInv
<1>2. QED BY ConsumeInvInit, ConsumeInvStep, <1>1, PTL DEF ConsumeSpec

(* For every number of mandates, intent ids and callers: a mandate is used *)
(* at most maxUses times over its whole life, and each intent id wins at   *)
(* most one of those uses - prunes of dead mandates included. *)
THEOREM ConsumeBudgetHolds == ConsumeSpec => []UsesHold
<1>1. ConsumeInv => UsesHold
  BY DEF ConsumeInv, UsesHold
<1>2. QED BY ConsumeInvInit, ConsumeInvStep, <1>1, PTL DEF ConsumeSpec

(* The first outcome of a use is the one every replay reports. *)
THEOREM OutcomesAreStable == ConsumeSpec => FirstOutcomeWins
<1> DEFINE Stable ==
      \A m \in Mandate \ sealed, k \in UseKey :
        /\ claims[m][k].status \in Outcome => claims'[m][k] = claims[m][k]
        /\ Claimed(m, k) => claims'[m][k].digest = claims[m][k].digest
<1>1. ConsumeTypeOK /\ [ConsumeNext]_consumeVars => [Stable]_consumeVars
  <2> SUFFICES ASSUME ConsumeTypeOK, ConsumeNext PROVE Stable
    OBVIOUS
  <2> USE DEF ConsumeTypeOK, Claimed
  <2>1. ASSUME NEW m \in Mandate \ sealed, NEW k \in UseKey, NEW d \in Digest,
               ClaimWon(m, k, d)
        PROVE  Stable
    BY <2>1 DEF ClaimWon, Outcome
  <2>2. ASSUME NEW m \in Mandate, NEW k \in UseKey, NEW o \in Outcome, SettleUse(m, k, o)
        PROVE  Stable
    BY <2>2 DEF SettleUse, Outcome, Claim
  <2>3. ASSUME NEW dead \in SUBSET Mandate, PruneAllowed(dead), PruneMandates(dead)
        PROVE  Stable
    BY <2>3 DEF PruneMandates, PruneAllowed
  <2>4. ASSUME NEW m \in Mandate, Seal(m) PROVE Stable
    BY <2>4 DEF Seal
  <2>5. CASE UNCHANGED consumeVars
    BY <2>5 DEF consumeVars
  <2>6. QED
    BY <2>1, <2>2, <2>3, <2>4, <2>5
    DEF ConsumeNext, ClaimDuplicate, ClaimExhausted
<1>2. QED BY ConsumeTypeCorrect, <1>1, PTL DEF ConsumeSpec, FirstOutcomeWins

-----------------------------------------------------------------------------
(* The lock file.  The inductive invariant has two halves: where each       *)
(* contender stands in time (WaitInv), which needs nothing else, and what   *)
(* protects a holder (HolderInv), which needs that one contender at a time  *)
(* removes a lock.                                                          *)
Held == {"section", "releasing", "unlinking"}
Queued == {"opening", "looking", "napping", "removing"}

\* No clock reading is in the future.
Past == \A p \in Contender : beat[p] <= boxClock /\ start[p] <= boxClock

\* Who sleeps is a holder; a box stalls or its clock jumps.
StallsFew ==
  /\ \A p \in suspended : stage[p] \in {"section", "unlinking"}
  /\ stalls = 0 => suspended = {}
  /\ jumped # 0 => stalls = 0

\* A flag is what a contender saw: a lock that looked stale; who
\* removes a lock has flagged it.
FlagsTrue ==
  \A q \in Contender :
    /\ flagged[q] # NoFlag =>
         flagged[q].at <= boxClock /\ flagged[q].at + jumped - flagged[q].mtime > Stale
    /\ stage[q] = "removing" => flagged[q] # NoFlag

\* A contender naps at most Nap, and only within its budget.
Naps ==
  \A p \in Contender :
    /\ stage[p] = "napping" => boxClock - beat[p] <= Nap /\ beat[p] - start[p] < Budget
    /\ stage[p] \in Queued => boxClock - start[p] <= Budget + Nap

\* The lock was there before p began to wait, and nobody refreshed it since.
OldLock(p) == lock # NoLock /\ lock.mtime < start[p]

\* How far a contender has come with an orphan, and by when: it sees that the
\* lock is stale within FlagBy, and has confirmed it within RemoveBy.
FlagBy(p) == start[p] + Stale - 1 + Nap
Delay == refusals * Nap
RemoveBy(p) == start[p] + Stale + Confirm - 2 + Nap + Delay

Reclaims ==
  \A p \in Contender : stage[p] \in Queued /\ OldLock(p) =>
    \/ /\ flagged[p] = NoFlag
       /\ boxClock <= FlagBy(p)
       /\ stage[p] = "napping" => beat[p] + Nap <= FlagBy(p)
    \/ /\ flagged[p] # NoFlag /\ flagged[p].mtime = lock.mtime /\ flagged[p].at <= FlagBy(p)
       /\ boxClock <= RemoveBy(p) + Nap
       /\ stage[p] = "napping" => beat[p] <= RemoveBy(p)

WaitInv == Past /\ StallsFew /\ FlagsTrue /\ Naps /\ Reclaims /\ OrphanOutwaited

\* The lock file is the holder's, and no one is about to remove it.
HeldOwn == \A p \in Contender : stage[p] \in Held => lock.owner = p
NoRobber ==
  \A p, q \in Contender : stage[q] = "removing" => stage[p] \notin Held /\ lock # NoLock

\* A holder has beaten within a period, or the box stalled; and its lock is
\* as fresh as its last beat.
HolderTimes ==
  \A p \in Contender : stage[p] \in Held =>
    /\ lock.mtime >= beat[p]
    /\ boxClock - beat[p] <= Period \/ (stalls # 0 /\ boxClock - beat[p] <= StallLimit)

\* A beat after the flag moves the mtime that was flagged.
FlagsOld ==
  \A p, q \in Contender :
    stage[p] \in Held /\ flagged[q] # NoFlag /\ flagged[q].at < beat[p] =>
      flagged[q].mtime < lock.mtime

HolderInv == HeldOwn /\ NoRobber /\ HolderTimes /\ FlagsOld

-----------------------------------------------------------------------------
\* Every step keeps the types.
LEMMA MutexTypesStep ==
  ASSUME MutexTypeOK, [MutexNext]_mutexVars
  PROVE  MutexTypeOK'
<1> USE MutexAssumption DEF MutexTypeOK
<1>1. CASE UNCHANGED mutexVars
  BY <1>1 DEF mutexVars, bounds
<1>2. CASE MutexTick
  BY <1>2 DEF MutexTick, OnTime, bounds
<1>3. CASE JumpForward
  BY <1>3 DEF JumpForward, bounds
<1>4. ASSUME NEW p \in Contender, Run(p) PROVE MutexTypeOK'
  BY <1>4 DEF Stands, Step, Run, bounds, NoFlag
<1>5. ASSUME NEW p \in Contender, Open(p) PROVE MutexTypeOK'
  <2>1. Wall \in Nat
    BY DEF Wall
  <2>2. lock' \in [owner : Contender \cup {"none"}, mtime : Nat]
    BY <1>5, <2>1 DEF Open
  <2>3. beat' \in [Contender -> 0..MutexMaxTime]
    BY <1>5 DEF Open
  <2> QED
    BY <1>5, <2>2, <2>3 DEF Open, Step, bounds
<1>6. ASSUME NEW p \in Contender, Look(p) PROVE MutexTypeOK'
  BY <1>6 DEF Stands, Step, Look, NapOrGiveUp, bounds, NoFlag
<1>7. ASSUME NEW p \in Contender, Wake(p) PROVE MutexTypeOK'
  BY <1>7 DEF Stands, Step, Wake, bounds
<1>8. ASSUME NEW p \in Contender, Remove(p) PROVE MutexTypeOK'
  BY <1>8 DEF Stands, Step, Remove, bounds, NoLock, NoFlag
<1>9. ASSUME NEW p \in Contender, RemoveRefused(p) PROVE MutexTypeOK'
  BY <1>9 DEF Stands, Step, RemoveRefused, NapOrGiveUp
<1>10. ASSUME NEW p \in Contender, Beat(p) PROVE MutexTypeOK'
  BY <1>10 DEF Stands, Beat, bounds, Wall
<1>11. ASSUME NEW p \in Contender, EndSection(p) PROVE MutexTypeOK'
  BY <1>11 DEF Stands, Step, EndSection, bounds
<1>12. ASSUME NEW p \in Contender, ReadToken(p) PROVE MutexTypeOK'
  BY <1>12 DEF Stands, Step, ReadToken, bounds
<1>13. ASSUME NEW p \in Contender, Unlink(p) PROVE MutexTypeOK'
  BY <1>13 DEF Stands, Step, Unlink, bounds, NoLock
<1>14. ASSUME NEW p \in Contender, UnlinkRefused(p) PROVE MutexTypeOK'
  BY <1>14 DEF Stands, Step, UnlinkRefused
<1>15. ASSUME NEW p \in Contender, HolderDies(p) PROVE MutexTypeOK'
  BY <1>15 DEF Step, HolderDies
<1>16. ASSUME NEW p \in Contender, Suspend(p) PROVE MutexTypeOK'
  BY <1>16 DEF Suspend
<1>17. ASSUME NEW p \in Contender, Resume(p) PROVE MutexTypeOK'
  BY <1>17 DEF Resume, bounds
<1> QED
  BY <1>1, <1>2, <1>3, <1>4, <1>5, <1>6, <1>7, <1>8, <1>9,
     <1>10, <1>11, <1>12, <1>13, <1>14, <1>15, <1>16, <1>17 DEF MutexNext

\* A reading of the clock stays in the past.
LEMMA PastStep ==
  ASSUME MutexTypeOK, Past, [MutexNext]_mutexVars
  PROVE  Past'
<1> USE DEF MutexTypeOK, Past
<1>1. CASE UNCHANGED mutexVars
  BY <1>1 DEF mutexVars, bounds
<1>2. CASE MutexTick
  BY <1>2 DEF MutexTick, OnTime, bounds
<1>3. CASE JumpForward
  BY <1>3 DEF JumpForward, bounds
<1>4. ASSUME NEW p \in Contender, Run(p) PROVE Past'
  BY <1>4 DEF Stands, Step, Run, bounds
<1>5. ASSUME NEW p \in Contender, Open(p) PROVE Past'
  BY <1>5 DEF Stands, Step, Open, bounds, Wall, NoLock
<1>6. ASSUME NEW p \in Contender, Look(p) PROVE Past'
  BY <1>6 DEF Stands, Step, Look, NapOrGiveUp, bounds, NoFlag
<1>7. ASSUME NEW p \in Contender, Wake(p) PROVE Past'
  BY <1>7 DEF Stands, Step, Wake, bounds
<1>8. ASSUME NEW p \in Contender, Remove(p) PROVE Past'
  BY <1>8 DEF Stands, Step, Remove, bounds, NoLock, NoFlag
<1>9. ASSUME NEW p \in Contender, RemoveRefused(p) PROVE Past'
  BY <1>9 DEF Stands, Step, RemoveRefused, NapOrGiveUp
<1>10. ASSUME NEW p \in Contender, Beat(p) PROVE Past'
  BY <1>10 DEF Stands, Beat, bounds, Wall
<1>11. ASSUME NEW p \in Contender, EndSection(p) PROVE Past'
  BY <1>11 DEF Stands, Step, EndSection, bounds
<1>12. ASSUME NEW p \in Contender, ReadToken(p) PROVE Past'
  BY <1>12 DEF Stands, Step, ReadToken, bounds
<1>13. ASSUME NEW p \in Contender, Unlink(p) PROVE Past'
  BY <1>13 DEF Stands, Step, Unlink, bounds, NoLock
<1>14. ASSUME NEW p \in Contender, UnlinkRefused(p) PROVE Past'
  BY <1>14 DEF Stands, Step, UnlinkRefused
<1>15. ASSUME NEW p \in Contender, HolderDies(p) PROVE Past'
  BY <1>15 DEF Step, HolderDies
<1>16. ASSUME NEW p \in Contender, Suspend(p) PROVE Past'
  BY <1>16 DEF Suspend
<1>17. ASSUME NEW p \in Contender, Resume(p) PROVE Past'
  BY <1>17 DEF Resume, bounds
<1> QED
  BY <1>1, <1>2, <1>3, <1>4, <1>5, <1>6, <1>7, <1>8, <1>9,
     <1>10, <1>11, <1>12, <1>13, <1>14, <1>15, <1>16, <1>17 DEF MutexNext

\* A box stalls or its clock jumps.
LEMMA StallsStep ==
  ASSUME MutexTypeOK, StallsFew, [MutexNext]_mutexVars
  PROVE  StallsFew'
<1> USE MutexAssumption DEF MutexTypeOK, StallsFew
<1>1. CASE UNCHANGED mutexVars
  BY <1>1 DEF mutexVars, bounds
<1>2. CASE MutexTick
  BY <1>2 DEF MutexTick, OnTime, bounds
<1>3. CASE JumpForward
  BY <1>3 DEF JumpForward, bounds
<1>4. ASSUME NEW p \in Contender, Run(p) PROVE StallsFew'
  BY <1>4 DEF Stands, Step, Run, bounds
<1>5. ASSUME NEW p \in Contender, Open(p) PROVE StallsFew'
  BY <1>5 DEF Stands, Step, Open, bounds, Wall, NoLock
<1>6. ASSUME NEW p \in Contender, Look(p) PROVE StallsFew'
  BY <1>6 DEF Stands, Step, Look, NapOrGiveUp, bounds, NoFlag
<1>7. ASSUME NEW p \in Contender, Wake(p) PROVE StallsFew'
  BY <1>7 DEF Stands, Step, Wake, bounds
<1>8. ASSUME NEW p \in Contender, Remove(p) PROVE StallsFew'
  BY <1>8 DEF Stands, Step, Remove, bounds, NoLock, NoFlag
<1>9. ASSUME NEW p \in Contender, RemoveRefused(p) PROVE StallsFew'
  BY <1>9 DEF Stands, Step, RemoveRefused, NapOrGiveUp
<1>10. ASSUME NEW p \in Contender, Beat(p) PROVE StallsFew'
  BY <1>10 DEF Stands, Beat, bounds, Wall
<1>11. ASSUME NEW p \in Contender, EndSection(p) PROVE StallsFew'
  BY <1>11 DEF Stands, Step, EndSection, bounds
<1>12. ASSUME NEW p \in Contender, ReadToken(p) PROVE StallsFew'
  BY <1>12 DEF Stands, Step, ReadToken, bounds
<1>13. ASSUME NEW p \in Contender, Unlink(p) PROVE StallsFew'
  BY <1>13 DEF Stands, Step, Unlink, bounds, NoLock
<1>14. ASSUME NEW p \in Contender, UnlinkRefused(p) PROVE StallsFew'
  BY <1>14 DEF Stands, Step, UnlinkRefused
<1>15. ASSUME NEW p \in Contender, HolderDies(p) PROVE StallsFew'
  BY <1>15 DEF Step, HolderDies
<1>16. ASSUME NEW p \in Contender, Suspend(p) PROVE StallsFew'
  BY <1>16 DEF Suspend
<1>17. ASSUME NEW p \in Contender, Resume(p) PROVE StallsFew'
  BY <1>17 DEF Resume, bounds
<1> QED
  BY <1>1, <1>2, <1>3, <1>4, <1>5, <1>6, <1>7, <1>8, <1>9,
     <1>10, <1>11, <1>12, <1>13, <1>14, <1>15, <1>16, <1>17 DEF MutexNext

\* A flag stays true.
LEMMA FlagsTrueStep ==
  ASSUME MutexTypeOK, FlagsTrue, [MutexNext]_mutexVars
  PROVE  FlagsTrue'
<1> USE MutexAssumption DEF MutexTypeOK, FlagsTrue
<1>1. CASE UNCHANGED mutexVars
  BY <1>1 DEF mutexVars, bounds
<1>2. CASE MutexTick
  BY <1>2 DEF MutexTick, OnTime, bounds
<1>3. CASE JumpForward
  BY <1>3 DEF JumpForward, bounds
<1>4. ASSUME NEW p \in Contender, Run(p) PROVE FlagsTrue'
  BY <1>4 DEF Stands, Step, Run, bounds
<1>5. ASSUME NEW p \in Contender, Open(p) PROVE FlagsTrue'
  BY <1>5 DEF Stands, Step, Open, bounds, Wall, NoLock
<1>6. ASSUME NEW p \in Contender, Look(p) PROVE FlagsTrue'
  <2>0. \A q \in Contender : (stage[q] = "removing" => flagged[q] # NoFlag)'
    BY <1>6 DEF Stands, Step, Look, NapOrGiveUp, Confirmed
  <2> SUFFICES ASSUME NEW q \in Contender, flagged'[q] # NoFlag
               PROVE  (/\ flagged[q].at <= boxClock
                       /\ flagged[q].at + jumped - flagged[q].mtime > Stale)'
    BY <2>0
  <2>1. CASE flagged'[q] = flagged[q]
    BY <1>6, <2>1 DEF Look
  <2>2. CASE flagged'[q] # flagged[q]
    <3>1. q = p /\ LooksStale /\ flagged'[q] = [mtime |-> lock.mtime, at |-> boxClock]
      BY <1>6, <2>2 DEF Look
    <3> QED
      BY <1>6, <3>1 DEF Look, LooksStale, Wall
  <2> QED
    BY <2>1, <2>2
<1>7. ASSUME NEW p \in Contender, Wake(p) PROVE FlagsTrue'
  BY <1>7 DEF Stands, Step, Wake, bounds
<1>8. ASSUME NEW p \in Contender, Remove(p) PROVE FlagsTrue'
  BY <1>8 DEF Stands, Step, Remove, bounds, NoLock, NoFlag
<1>9. ASSUME NEW p \in Contender, RemoveRefused(p) PROVE FlagsTrue'
  BY <1>9 DEF Stands, Step, RemoveRefused, NapOrGiveUp
<1>10. ASSUME NEW p \in Contender, Beat(p) PROVE FlagsTrue'
  BY <1>10 DEF Stands, Beat, bounds, Wall
<1>11. ASSUME NEW p \in Contender, EndSection(p) PROVE FlagsTrue'
  BY <1>11 DEF Stands, Step, EndSection, bounds
<1>12. ASSUME NEW p \in Contender, ReadToken(p) PROVE FlagsTrue'
  BY <1>12 DEF Stands, Step, ReadToken, bounds
<1>13. ASSUME NEW p \in Contender, Unlink(p) PROVE FlagsTrue'
  BY <1>13 DEF Stands, Step, Unlink, bounds, NoLock
<1>14. ASSUME NEW p \in Contender, UnlinkRefused(p) PROVE FlagsTrue'
  BY <1>14 DEF Stands, Step, UnlinkRefused
<1>15. ASSUME NEW p \in Contender, HolderDies(p) PROVE FlagsTrue'
  BY <1>15 DEF Step, HolderDies
<1>16. ASSUME NEW p \in Contender, Suspend(p) PROVE FlagsTrue'
  BY <1>16 DEF Suspend
<1>17. ASSUME NEW p \in Contender, Resume(p) PROVE FlagsTrue'
  BY <1>17 DEF Resume, bounds
<1> QED
  BY <1>1, <1>2, <1>3, <1>4, <1>5, <1>6, <1>7, <1>8, <1>9,
     <1>10, <1>11, <1>12, <1>13, <1>14, <1>15, <1>16, <1>17 DEF MutexNext

\* A contender naps within its budget.
LEMMA NapsStep ==
  ASSUME MutexTypeOK, Past, StallsFew, Naps, [MutexNext]_mutexVars
  PROVE  Naps'
<1> USE MutexAssumption DEF MutexTypeOK, Past, StallsFew, Naps, Queued
<1>1. CASE UNCHANGED mutexVars
  BY <1>1 DEF mutexVars, bounds
<1>2. CASE MutexTick
  BY <1>2 DEF MutexTick, OnTime, bounds
<1>3. CASE JumpForward
  BY <1>3 DEF JumpForward, bounds
<1>4. ASSUME NEW p \in Contender, Run(p) PROVE Naps'
  BY <1>4 DEF Stands, Step, Run, bounds
<1>5. ASSUME NEW p \in Contender, Open(p) PROVE Naps'
  BY <1>5 DEF Stands, Step, Open, bounds, Wall, NoLock
<1>6. ASSUME NEW p \in Contender, Look(p) PROVE Naps'
  BY <1>6 DEF Stands, Step, Look, NapOrGiveUp, bounds, NoFlag
<1>7. ASSUME NEW p \in Contender, Wake(p) PROVE Naps'
  BY <1>7 DEF Stands, Step, Wake, bounds
<1>8. ASSUME NEW p \in Contender, Remove(p) PROVE Naps'
  BY <1>8 DEF Stands, Step, Remove, bounds, NoLock, NoFlag
<1>9. ASSUME NEW p \in Contender, RemoveRefused(p) PROVE Naps'
  BY <1>9 DEF Stands, Step, RemoveRefused, NapOrGiveUp
<1>10. ASSUME NEW p \in Contender, Beat(p) PROVE Naps'
  BY <1>10 DEF Stands, Beat, bounds, Wall
<1>11. ASSUME NEW p \in Contender, EndSection(p) PROVE Naps'
  BY <1>11 DEF Stands, Step, EndSection, bounds
<1>12. ASSUME NEW p \in Contender, ReadToken(p) PROVE Naps'
  BY <1>12 DEF Stands, Step, ReadToken, bounds
<1>13. ASSUME NEW p \in Contender, Unlink(p) PROVE Naps'
  BY <1>13 DEF Stands, Step, Unlink, bounds, NoLock
<1>14. ASSUME NEW p \in Contender, UnlinkRefused(p) PROVE Naps'
  BY <1>14 DEF Stands, Step, UnlinkRefused
<1>15. ASSUME NEW p \in Contender, HolderDies(p) PROVE Naps'
  BY <1>15 DEF Step, HolderDies
<1>16. ASSUME NEW p \in Contender, Suspend(p) PROVE Naps'
  BY <1>16 DEF Suspend
<1>17. ASSUME NEW p \in Contender, Resume(p) PROVE Naps'
  BY <1>17 DEF Resume, bounds
<1> QED
  BY <1>1, <1>2, <1>3, <1>4, <1>5, <1>6, <1>7, <1>8, <1>9,
     <1>10, <1>11, <1>12, <1>13, <1>14, <1>15, <1>16, <1>17 DEF MutexNext

\* Each refused removal costs a nap, and the budget covers them all.
LEMMA DelayKnown ==
  ASSUME MutexTypeOK
  PROVE  /\ Delay \in Nat
         /\ Stale + Confirm + Delay + Nap <= Budget
         /\ refusals < MaxRefusals => Stale + Confirm + Delay + 2 * Nap <= Budget
<1>1. refusals \in Nat /\ MaxRefusals \in Nat /\ Nap \in Nat /\ refusals <= MaxRefusals
  BY MutexAssumption DEF MutexTypeOK
<1>2. Delay \in Nat
  BY <1>1 DEF Delay
<1>3. \A m, n \in Nat : m <= n => m * Nap <= n * Nap
  BY <1>1
<1>4. (refusals + 1) * Nap = Delay + Nap /\ (MaxRefusals + 1) * Nap = MaxRefusals * Nap + Nap
  BY <1>1 DEF Delay
<1>5. Delay <= MaxRefusals * Nap
  BY <1>1, <1>3 DEF Delay
<1>6. refusals < MaxRefusals => Delay + Nap <= MaxRefusals * Nap
  <2> HAVE refusals < MaxRefusals
  <2>1. refusals + 1 \in Nat /\ refusals + 1 <= MaxRefusals
    BY <1>1
  <2> QED
    BY <1>1, <1>3, <1>4, <2>1
<1>7. MaxRefusals * Nap \in Nat
  BY <1>1
<1>8. Stale \in Nat /\ Confirm \in Nat /\ Budget \in Nat
  BY MutexAssumption
<1>9. Stale + Confirm + MaxRefusals * Nap + Nap <= Budget
  BY <1>1, <1>4, <1>7, <1>8, MutexDeadlines
<1> QED
  BY <1>1, <1>2, <1>5, <1>6, <1>7, <1>8, <1>9

\* The delay grows with a refusal only.
LEMMA DelayMoves ==
  ASSUME MutexTypeOK
  PROVE  /\ refusals' = refusals => Delay' = Delay
         /\ refusals' = refusals + 1 => Delay' = Delay + Nap
<1>1. refusals \in Nat /\ Nap \in Nat
  BY MutexAssumption DEF MutexTypeOK
<1>2. (refusals + 1) * Nap = refusals * Nap + Nap
  BY <1>1
<1> QED
  BY <1>2 DEF Delay

\* A contender makes progress with an orphan.
LEMMA ReclaimsStep ==
  ASSUME MutexTypeOK, Past, StallsFew, FlagsTrue, Reclaims, [MutexNext]_mutexVars
  PROVE  Reclaims'
<1> USE MutexAssumption, MutexDeadlines, DelayKnown, DelayMoves
       DEF MutexTypeOK, Past, StallsFew, Reclaims, Queued, OldLock, FlagBy, RemoveBy
<1>1. CASE UNCHANGED mutexVars
  BY <1>1 DEF mutexVars, bounds
<1>2. CASE MutexTick
  BY <1>2 DEF MutexTick, OnTime, bounds
<1>3. CASE JumpForward
  BY <1>3 DEF JumpForward, bounds
<1>4. ASSUME NEW p \in Contender, Run(p) PROVE Reclaims'
  BY <1>4 DEF Stands, Step, Run, bounds, NoFlag
<1>5. ASSUME NEW p \in Contender, Open(p) PROVE Reclaims'
  BY <1>5 DEF Stands, Step, Open, bounds, Wall, NoLock
<1>6. ASSUME NEW p \in Contender, Look(p) PROVE Reclaims'
  BY <1>6 DEF Stands, Step, Look, NapOrGiveUp, bounds, NoFlag, LooksStale, Confirmed, Wall, FlagsTrue
<1>7. ASSUME NEW p \in Contender, Wake(p) PROVE Reclaims'
  BY <1>7 DEF Stands, Step, Wake, bounds
<1>8. ASSUME NEW p \in Contender, Remove(p) PROVE Reclaims'
  BY <1>8 DEF Stands, Step, Remove, bounds, NoLock, NoFlag
<1>9. ASSUME NEW p \in Contender, RemoveRefused(p) PROVE Reclaims'
  <2>1. Delay' = Delay + Nap /\ Delay \in Nat
    BY <1>9, DelayMoves, DelayKnown DEF RemoveRefused
  <2> HIDE DelayMoves
  <2> SUFFICES ASSUME NEW q \in Contender, (stage[q] \in Queued /\ OldLock(q))'
               PROVE  \/ (/\ flagged[q] = NoFlag
                          /\ boxClock <= FlagBy(q)
                          /\ stage[q] = "napping" => beat[q] + Nap <= FlagBy(q))'
                      \/ (/\ flagged[q] # NoFlag /\ flagged[q].mtime = lock.mtime
                          /\ flagged[q].at <= FlagBy(q)
                          /\ boxClock <= RemoveBy(q) + Nap
                          /\ stage[q] = "napping" => beat[q] <= RemoveBy(q))'
    BY DEF Reclaims
  <2>2. stage[q] \in Queued /\ OldLock(q)
    BY <1>9 DEF Stands, Step, RemoveRefused, NapOrGiveUp
  <2>3. CASE q = p
    BY <1>9, <2>1, <2>2, <2>3 DEF Stands, Step, RemoveRefused, NapOrGiveUp, FlagsTrue
  <2>4. CASE q # p
    BY <1>9, <2>1, <2>2, <2>4 DEF Stands, Step, RemoveRefused, NapOrGiveUp
  <2> QED
    BY <2>3, <2>4
<1>10. ASSUME NEW p \in Contender, Beat(p) PROVE Reclaims'
  BY <1>10 DEF Stands, Beat, bounds, Wall
<1>11. ASSUME NEW p \in Contender, EndSection(p) PROVE Reclaims'
  BY <1>11 DEF Stands, Step, EndSection, bounds
<1>12. ASSUME NEW p \in Contender, ReadToken(p) PROVE Reclaims'
  BY <1>12 DEF Stands, Step, ReadToken, bounds
<1>13. ASSUME NEW p \in Contender, Unlink(p) PROVE Reclaims'
  BY <1>13 DEF Stands, Step, Unlink, bounds, NoLock
<1>14. ASSUME NEW p \in Contender, UnlinkRefused(p) PROVE Reclaims'
  BY <1>14 DEF Stands, Step, UnlinkRefused
<1>15. ASSUME NEW p \in Contender, HolderDies(p) PROVE Reclaims'
  BY <1>15 DEF Step, HolderDies
<1>16. ASSUME NEW p \in Contender, Suspend(p) PROVE Reclaims'
  BY <1>16 DEF Suspend
<1>17. ASSUME NEW p \in Contender, Resume(p) PROVE Reclaims'
  BY <1>17 DEF Resume, bounds
<1> QED
  BY <1>1, <1>2, <1>3, <1>4, <1>5, <1>6, <1>7, <1>8, <1>9,
     <1>10, <1>11, <1>12, <1>13, <1>14, <1>15, <1>16, <1>17 DEF MutexNext

\* Who gives up has not waited for an orphan alone.
LEMMA OrphanStep ==
  ASSUME MutexTypeOK, Past, Reclaims, FlagsTrue, OrphanOutwaited, [MutexNext]_mutexVars
  PROVE  OrphanOutwaited'
<1> USE MutexAssumption, DelayKnown
       DEF MutexTypeOK, Past, Reclaims, Queued, OldLock, FlagBy, RemoveBy, OrphanOutwaited
<1>1. CASE UNCHANGED mutexVars
  BY <1>1 DEF mutexVars, bounds
<1>2. CASE MutexTick
  BY <1>2 DEF MutexTick, OnTime, bounds
<1>3. CASE JumpForward
  BY <1>3 DEF JumpForward, bounds
<1>4. ASSUME NEW p \in Contender, Run(p) PROVE OrphanOutwaited'
  BY <1>4 DEF Stands, Step, Run, bounds
<1>5. ASSUME NEW p \in Contender, Open(p) PROVE OrphanOutwaited'
  BY <1>5 DEF Stands, Step, Open, bounds, Wall, NoLock
<1>6. ASSUME NEW p \in Contender, Look(p) PROVE OrphanOutwaited'
  BY <1>6 DEF Stands, Step, Look, NapOrGiveUp, bounds, NoFlag, LooksStale, Confirmed, Wall, FlagsTrue
<1>7. ASSUME NEW p \in Contender, Wake(p) PROVE OrphanOutwaited'
  BY <1>7 DEF Stands, Step, Wake, bounds
<1>8. ASSUME NEW p \in Contender, Remove(p) PROVE OrphanOutwaited'
  BY <1>8 DEF Stands, Step, Remove, bounds, NoLock, NoFlag
<1>9. ASSUME NEW p \in Contender, RemoveRefused(p) PROVE OrphanOutwaited'
  BY <1>9 DEF Stands, Step, RemoveRefused, NapOrGiveUp
<1>10. ASSUME NEW p \in Contender, Beat(p) PROVE OrphanOutwaited'
  BY <1>10 DEF Stands, Beat, bounds, Wall
<1>11. ASSUME NEW p \in Contender, EndSection(p) PROVE OrphanOutwaited'
  BY <1>11 DEF Stands, Step, EndSection, bounds
<1>12. ASSUME NEW p \in Contender, ReadToken(p) PROVE OrphanOutwaited'
  BY <1>12 DEF Stands, Step, ReadToken, bounds
<1>13. ASSUME NEW p \in Contender, Unlink(p) PROVE OrphanOutwaited'
  BY <1>13 DEF Stands, Step, Unlink, bounds, NoLock
<1>14. ASSUME NEW p \in Contender, UnlinkRefused(p) PROVE OrphanOutwaited'
  BY <1>14 DEF Stands, Step, UnlinkRefused
<1>15. ASSUME NEW p \in Contender, HolderDies(p) PROVE OrphanOutwaited'
  BY <1>15 DEF Step, HolderDies
<1>16. ASSUME NEW p \in Contender, Suspend(p) PROVE OrphanOutwaited'
  BY <1>16 DEF Suspend
<1>17. ASSUME NEW p \in Contender, Resume(p) PROVE OrphanOutwaited'
  BY <1>17 DEF Resume, bounds
<1> QED
  BY <1>1, <1>2, <1>3, <1>4, <1>5, <1>6, <1>7, <1>8, <1>9,
     <1>10, <1>11, <1>12, <1>13, <1>14, <1>15, <1>16, <1>17 DEF MutexNext

\* The lock file stays the holder's.
LEMMA HeldOwnStep ==
  ASSUME MutexTypeOK, HeldOwn, NoRobber, [MutexNext]_mutexVars
  PROVE  HeldOwn'
<1> USE MutexAssumption DEF MutexTypeOK, HeldOwn, NoRobber, Held
<1>1. CASE UNCHANGED mutexVars
  BY <1>1 DEF mutexVars, bounds
<1>2. CASE MutexTick
  BY <1>2 DEF MutexTick, OnTime, bounds
<1>3. CASE JumpForward
  BY <1>3 DEF JumpForward, bounds
<1>4. ASSUME NEW p \in Contender, Run(p) PROVE HeldOwn'
  BY <1>4 DEF Stands, Step, Run, bounds
<1>5. ASSUME NEW p \in Contender, Open(p) PROVE HeldOwn'
  BY <1>5 DEF Stands, Step, Open, bounds, Wall, NoLock
<1>6. ASSUME NEW p \in Contender, Look(p) PROVE HeldOwn'
  BY <1>6 DEF Stands, Step, Look, NapOrGiveUp, bounds, NoFlag
<1>7. ASSUME NEW p \in Contender, Wake(p) PROVE HeldOwn'
  BY <1>7 DEF Stands, Step, Wake, bounds
<1>8. ASSUME NEW p \in Contender, Remove(p) PROVE HeldOwn'
  BY <1>8 DEF Stands, Step, Remove, bounds, NoLock, NoFlag
<1>9. ASSUME NEW p \in Contender, RemoveRefused(p) PROVE HeldOwn'
  BY <1>9 DEF Stands, Step, RemoveRefused, NapOrGiveUp
<1>10. ASSUME NEW p \in Contender, Beat(p) PROVE HeldOwn'
  BY <1>10 DEF Stands, Beat, bounds, Wall
<1>11. ASSUME NEW p \in Contender, EndSection(p) PROVE HeldOwn'
  BY <1>11 DEF Stands, Step, EndSection, bounds
<1>12. ASSUME NEW p \in Contender, ReadToken(p) PROVE HeldOwn'
  BY <1>12 DEF Stands, Step, ReadToken, bounds
<1>13. ASSUME NEW p \in Contender, Unlink(p) PROVE HeldOwn'
  BY <1>13 DEF Stands, Step, Unlink, bounds, NoLock
<1>14. ASSUME NEW p \in Contender, UnlinkRefused(p) PROVE HeldOwn'
  BY <1>14 DEF Stands, Step, UnlinkRefused
<1>15. ASSUME NEW p \in Contender, HolderDies(p) PROVE HeldOwn'
  BY <1>15 DEF Step, HolderDies
<1>16. ASSUME NEW p \in Contender, Suspend(p) PROVE HeldOwn'
  BY <1>16 DEF Suspend
<1>17. ASSUME NEW p \in Contender, Resume(p) PROVE HeldOwn'
  BY <1>17 DEF Resume, bounds
<1> QED
  BY <1>1, <1>2, <1>3, <1>4, <1>5, <1>6, <1>7, <1>8, <1>9,
     <1>10, <1>11, <1>12, <1>13, <1>14, <1>15, <1>16, <1>17 DEF MutexNext

\* A lock whose holder lives is not confirmed as abandoned.
LEMMA LiveNotConfirmed ==
  ASSUME MutexTypeOK, StallsFew, FlagsTrue, HolderTimes, FlagsOld,
         NEW p \in Contender, stage[p] \in Held, NEW q \in Contender
  PROVE  ~Confirmed(q)
<1> SUFFICES ASSUME Confirmed(q) PROVE FALSE
  OBVIOUS
<1>1. /\ flagged[q] # NoFlag /\ flagged[q].mtime = lock.mtime
      /\ boxClock - flagged[q].at >= Confirm
      /\ flagged[q].at <= boxClock /\ flagged[q].at + jumped - flagged[q].mtime > Stale
  BY DEF Confirmed, FlagsTrue
<1>2. /\ lock.mtime >= beat[p]
      /\ boxClock - beat[p] <= Period \/ (stalls # 0 /\ boxClock - beat[p] <= StallLimit)
  BY DEF HolderTimes
<1>3. /\ flagged[q].at \in Int /\ flagged[q].mtime \in Nat /\ beat[p] \in Nat /\ boxClock \in Nat
      /\ lock.mtime \in Nat /\ jumped \in Nat
      /\ Period \in Nat /\ Confirm \in Nat /\ Stale \in Nat /\ StallLimit \in Nat
  BY MutexAssumption DEF MutexTypeOK
<1>4. flagged[q].at >= beat[p]
  BY <1>1, <1>3 DEF FlagsOld
<1>5. CASE jumped = 0
  BY <1>1, <1>2, <1>3, <1>4, <1>5, MutexDeadlines
<1>6. CASE jumped # 0
  BY <1>1, <1>2, <1>3, <1>4, <1>6, MutexDeadlines DEF StallsFew
<1> QED
  BY <1>5, <1>6

\* Who confirms a lock as abandoned finds no holder.
LEMMA NoRobberStep ==
  ASSUME MutexTypeOK, OneReclaims, StallsFew, FlagsTrue, HeldOwn, NoRobber, HolderTimes, FlagsOld,
         [MutexNext]_mutexVars
  PROVE  NoRobber'
<1> USE MutexAssumption DEF MutexTypeOK, OneReclaims, HeldOwn, NoRobber, Held
<1>1. CASE UNCHANGED mutexVars
  BY <1>1 DEF mutexVars, bounds
<1>2. CASE MutexTick
  BY <1>2 DEF MutexTick, OnTime, bounds
<1>3. CASE JumpForward
  BY <1>3 DEF JumpForward, bounds
<1>4. ASSUME NEW p \in Contender, Run(p) PROVE NoRobber'
  BY <1>4 DEF Stands, Step, Run, bounds
<1>5. ASSUME NEW p \in Contender, Open(p) PROVE NoRobber'
  BY <1>5 DEF Stands, Step, Open, bounds, Wall, NoLock
<1>6. ASSUME NEW p \in Contender, Look(p) PROVE NoRobber'
  <2>1. CASE stage'[p] = "removing"
    <3>1. lock # NoLock /\ Confirmed(p)
      BY <1>6, <2>1 DEF Stands, Step, Look, NapOrGiveUp
    <3>2. \A r \in Contender : stage[r] \notin Held
      BY <3>1, LiveNotConfirmed
    <3> QED
      BY <1>6, <3>1, <3>2 DEF Stands, Step, Look, NapOrGiveUp
  <2>2. CASE stage'[p] # "removing"
    BY <1>6, <2>2 DEF Stands, Step, Look, NapOrGiveUp
  <2> QED
    BY <2>1, <2>2
<1>7. ASSUME NEW p \in Contender, Wake(p) PROVE NoRobber'
  BY <1>7 DEF Stands, Step, Wake, bounds
<1>8. ASSUME NEW p \in Contender, Remove(p) PROVE NoRobber'
  BY <1>8 DEF Stands, Step, Remove, bounds, NoLock, NoFlag
<1>9. ASSUME NEW p \in Contender, RemoveRefused(p) PROVE NoRobber'
  BY <1>9 DEF Stands, Step, RemoveRefused, NapOrGiveUp
<1>10. ASSUME NEW p \in Contender, Beat(p) PROVE NoRobber'
  BY <1>10 DEF Stands, Beat, bounds, Wall
<1>11. ASSUME NEW p \in Contender, EndSection(p) PROVE NoRobber'
  BY <1>11 DEF Stands, Step, EndSection, bounds
<1>12. ASSUME NEW p \in Contender, ReadToken(p) PROVE NoRobber'
  BY <1>12 DEF Stands, Step, ReadToken, bounds
<1>13. ASSUME NEW p \in Contender, Unlink(p) PROVE NoRobber'
  BY <1>13 DEF Stands, Step, Unlink, bounds, NoLock
<1>14. ASSUME NEW p \in Contender, UnlinkRefused(p) PROVE NoRobber'
  BY <1>14 DEF Stands, Step, UnlinkRefused
<1>15. ASSUME NEW p \in Contender, HolderDies(p) PROVE NoRobber'
  BY <1>15 DEF Step, HolderDies
<1>16. ASSUME NEW p \in Contender, Suspend(p) PROVE NoRobber'
  BY <1>16 DEF Suspend
<1>17. ASSUME NEW p \in Contender, Resume(p) PROVE NoRobber'
  BY <1>17 DEF Resume, bounds
<1> QED
  BY <1>1, <1>2, <1>3, <1>4, <1>5, <1>6, <1>7, <1>8, <1>9,
     <1>10, <1>11, <1>12, <1>13, <1>14, <1>15, <1>16, <1>17 DEF MutexNext

\* A holder beats in time, and its beats reach the lock.
LEMMA HolderTimesStep ==
  ASSUME MutexTypeOK, Past, StallsFew, HeldOwn, NoRobber, HolderTimes, [MutexNext]_mutexVars
  PROVE  HolderTimes'
<1> USE MutexAssumption DEF MutexTypeOK, Past, StallsFew, HeldOwn, NoRobber, HolderTimes, Held
<1>1. CASE UNCHANGED mutexVars
  BY <1>1 DEF mutexVars, bounds
<1>2. CASE MutexTick
  BY <1>2 DEF MutexTick, OnTime, bounds
<1>3. CASE JumpForward
  BY <1>3 DEF JumpForward, bounds
<1>4. ASSUME NEW p \in Contender, Run(p) PROVE HolderTimes'
  BY <1>4 DEF Stands, Step, Run, bounds
<1>5. ASSUME NEW p \in Contender, Open(p) PROVE HolderTimes'
  BY <1>5 DEF Stands, Step, Open, bounds, Wall, NoLock
<1>6. ASSUME NEW p \in Contender, Look(p) PROVE HolderTimes'
  BY <1>6 DEF Stands, Step, Look, NapOrGiveUp, bounds, NoFlag
<1>7. ASSUME NEW p \in Contender, Wake(p) PROVE HolderTimes'
  BY <1>7 DEF Stands, Step, Wake, bounds
<1>8. ASSUME NEW p \in Contender, Remove(p) PROVE HolderTimes'
  BY <1>8 DEF Stands, Step, Remove, bounds, NoLock, NoFlag
<1>9. ASSUME NEW p \in Contender, RemoveRefused(p) PROVE HolderTimes'
  BY <1>9 DEF Stands, Step, RemoveRefused, NapOrGiveUp
<1>10. ASSUME NEW p \in Contender, Beat(p) PROVE HolderTimes'
  BY <1>10 DEF Stands, Beat, bounds, Wall, NoLock
<1>11. ASSUME NEW p \in Contender, EndSection(p) PROVE HolderTimes'
  BY <1>11 DEF Stands, Step, EndSection, bounds
<1>12. ASSUME NEW p \in Contender, ReadToken(p) PROVE HolderTimes'
  BY <1>12 DEF Stands, Step, ReadToken, bounds
<1>13. ASSUME NEW p \in Contender, Unlink(p) PROVE HolderTimes'
  BY <1>13 DEF Stands, Step, Unlink, bounds, NoLock
<1>14. ASSUME NEW p \in Contender, UnlinkRefused(p) PROVE HolderTimes'
  BY <1>14 DEF Stands, Step, UnlinkRefused
<1>15. ASSUME NEW p \in Contender, HolderDies(p) PROVE HolderTimes'
  BY <1>15 DEF Step, HolderDies
<1>16. ASSUME NEW p \in Contender, Suspend(p) PROVE HolderTimes'
  BY <1>16 DEF Suspend
<1>17. ASSUME NEW p \in Contender, Resume(p) PROVE HolderTimes'
  BY <1>17 DEF Resume, bounds
<1> QED
  BY <1>1, <1>2, <1>3, <1>4, <1>5, <1>6, <1>7, <1>8, <1>9,
     <1>10, <1>11, <1>12, <1>13, <1>14, <1>15, <1>16, <1>17 DEF MutexNext

\* A beat after the flag moves the mtime.
LEMMA FlagsOldStep ==
  ASSUME MutexTypeOK, Past, FlagsTrue, HeldOwn, NoRobber, FlagsOld, [MutexNext]_mutexVars
  PROVE  FlagsOld'
<1> USE MutexAssumption DEF MutexTypeOK, Past, HeldOwn, NoRobber, FlagsTrue, FlagsOld, Held
<1>1. CASE UNCHANGED mutexVars
  BY <1>1 DEF mutexVars, bounds
<1>2. CASE MutexTick
  BY <1>2 DEF MutexTick, OnTime, bounds
<1>3. CASE JumpForward
  BY <1>3 DEF JumpForward, bounds
<1>4. ASSUME NEW p \in Contender, Run(p) PROVE FlagsOld'
  BY <1>4 DEF Stands, Step, Run, bounds
<1>5. ASSUME NEW p \in Contender, Open(p) PROVE FlagsOld'
  BY <1>5 DEF Stands, Step, Open, bounds, Wall, NoLock
<1>6. ASSUME NEW p \in Contender, Look(p) PROVE FlagsOld'
  <2> SUFFICES ASSUME NEW h \in Contender, NEW q \in Contender,
                      (stage[h] \in Held /\ flagged[q] # NoFlag /\ flagged[q].at < beat[h])'
               PROVE  (flagged[q].mtime < lock.mtime)'
    BY DEF FlagsOld
  <2>1. stage[h] \in Held /\ h # p /\ beat'[h] = beat[h] /\ lock' = lock
    BY <1>6 DEF Stands, Step, Look, NapOrGiveUp
  <2>2. CASE flagged'[q] = flagged[q]
    BY <2>1, <2>2
  <2>3. CASE flagged'[q] # flagged[q]
    <3>1. flagged'[q] = [mtime |-> lock.mtime, at |-> boxClock]
      BY <1>6, <2>3 DEF Look
    <3> QED
      BY <2>1, <3>1
  <2> QED
    BY <2>2, <2>3
<1>7. ASSUME NEW p \in Contender, Wake(p) PROVE FlagsOld'
  BY <1>7 DEF Stands, Step, Wake, bounds
<1>8. ASSUME NEW p \in Contender, Remove(p) PROVE FlagsOld'
  BY <1>8 DEF Stands, Step, Remove, bounds, NoLock, NoFlag
<1>9. ASSUME NEW p \in Contender, RemoveRefused(p) PROVE FlagsOld'
  BY <1>9 DEF Stands, Step, RemoveRefused, NapOrGiveUp
<1>10. ASSUME NEW p \in Contender, Beat(p) PROVE FlagsOld'
  BY <1>10 DEF Stands, Beat, bounds, Wall, NoLock
<1>11. ASSUME NEW p \in Contender, EndSection(p) PROVE FlagsOld'
  BY <1>11 DEF Stands, Step, EndSection, bounds
<1>12. ASSUME NEW p \in Contender, ReadToken(p) PROVE FlagsOld'
  BY <1>12 DEF Stands, Step, ReadToken, bounds
<1>13. ASSUME NEW p \in Contender, Unlink(p) PROVE FlagsOld'
  BY <1>13 DEF Stands, Step, Unlink, bounds, NoLock
<1>14. ASSUME NEW p \in Contender, UnlinkRefused(p) PROVE FlagsOld'
  BY <1>14 DEF Stands, Step, UnlinkRefused
<1>15. ASSUME NEW p \in Contender, HolderDies(p) PROVE FlagsOld'
  BY <1>15 DEF Step, HolderDies
<1>16. ASSUME NEW p \in Contender, Suspend(p) PROVE FlagsOld'
  BY <1>16 DEF Suspend
<1>17. ASSUME NEW p \in Contender, Resume(p) PROVE FlagsOld'
  BY <1>17 DEF Resume, bounds
<1> QED
  BY <1>1, <1>2, <1>3, <1>4, <1>5, <1>6, <1>7, <1>8, <1>9,
     <1>10, <1>11, <1>12, <1>13, <1>14, <1>15, <1>16, <1>17 DEF MutexNext

\* Whoever waits for the lock, and with it every clock, is as WaitInv says.
LEMMA WaitInvStep ==
  ASSUME MutexTypeOK, WaitInv, [MutexNext]_mutexVars
  PROVE  WaitInv'
<1>1. Past' /\ StallsFew' /\ FlagsTrue'
  BY PastStep, StallsStep, FlagsTrueStep DEF WaitInv
<1>2. Naps' /\ Reclaims' /\ OrphanOutwaited'
  BY NapsStep, ReclaimsStep, OrphanStep DEF WaitInv
<1> QED
  BY <1>1, <1>2 DEF WaitInv

LEMMA HolderInvStep ==
  ASSUME MutexTypeOK, WaitInv, HolderInv, OneReclaims, [MutexNext]_mutexVars
  PROVE  HolderInv'
<1>1. HeldOwn' /\ NoRobber'
  BY HeldOwnStep, NoRobberStep DEF HolderInv, WaitInv
<1>2. HolderTimes' /\ FlagsOld'
  BY HolderTimesStep, FlagsOldStep DEF HolderInv, WaitInv
<1> QED
  BY <1>1, <1>2 DEF HolderInv

LEMMA MutexInitHolds ==
  ASSUME MutexInit PROVE MutexTypeOK /\ WaitInv /\ HolderInv
<1> USE MutexAssumption DEF MutexInit
<1>1. MutexTypeOK
  BY DEF MutexTypeOK, NoLock, NoFlag
<1>2. Past /\ StallsFew /\ FlagsTrue /\ Naps /\ Reclaims /\ OrphanOutwaited
  BY DEF Past, StallsFew, FlagsTrue, Naps, Reclaims, OrphanOutwaited, Queued, OldLock
<1>3. HeldOwn /\ NoRobber /\ HolderTimes /\ FlagsOld
  BY DEF HeldOwn, NoRobber, HolderTimes, FlagsOld, Held
<1> QED
  BY <1>1, <1>2, <1>3 DEF WaitInv, HolderInv

(* Every step of the mutex from a well-typed state is well typed. *)
THEOREM MutexTypeCorrect == MutexSpec => []MutexTypeOK
<1>1. MutexInit => MutexTypeOK
  BY MutexInitHolds
<1>2. MutexTypeOK /\ [MutexNext]_mutexVars => MutexTypeOK'
  BY MutexTypesStep
<1> QED
  BY <1>1, <1>2, PTL DEF MutexSpec

(* No contender waits beyond its budget, and none gives up before an orphan *)
(* that was there when it came: the budget of acquire() covers the stale    *)
(* time, the confirmation window and every refused removal.                 *)
THEOREM WaitsAreBounded == MutexSpec => [](BudgetKept /\ OrphanOutwaited)
<1>1. MutexInit => WaitInv
  BY MutexInitHolds
<1>2. MutexTypeOK /\ WaitInv /\ [MutexNext]_mutexVars => WaitInv'
  BY WaitInvStep
<1>3. WaitInv => BudgetKept /\ OrphanOutwaited
  BY DEF WaitInv, Naps, Queued, BudgetKept
<1> QED
  BY <1>1, <1>2, <1>3, MutexTypeCorrect, PTL DEF MutexSpec

(* However many processes share the lock file, whatever dies or stalls and  *)
(* wherever the wall clock jumps, the lock is what the stores rely on, as   *)
(* long as no two contenders remove one orphan at the same time.            *)
THEOREM LockIsExclusive == MutexSpec /\ []OneReclaims => []LockHolds
<1>1. MutexInit => WaitInv /\ HolderInv
  BY MutexInitHolds
<1>2. /\ MutexTypeOK /\ WaitInv /\ HolderInv /\ OneReclaims /\ [MutexNext]_mutexVars
      => WaitInv' /\ HolderInv'
  BY WaitInvStep, HolderInvStep
<1>3. HolderInv => MutualExclusion /\ ReleaseOnlyOwn
  BY MutexAssumption DEF HolderInv, HeldOwn, Held, MutualExclusion, ReleaseOnlyOwn
<1>4. MutexTypeOK /\ BudgetKept /\ OrphanOutwaited /\ MutualExclusion /\ ReleaseOnlyOwn
      => LockHolds
  BY DEF LockHolds
<1> QED
  BY <1>1, <1>2, <1>3, <1>4, MutexTypeCorrect, WaitsAreBounded, PTL DEF MutexSpec
=============================================================================
