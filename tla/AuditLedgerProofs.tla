------------------------- MODULE AuditLedgerProofs -------------------------
(***************************************************************************)
(* Theorems about AuditLedger for any number of instances, appends,        *)
(* attempts and failures: types, the linear chain, the order of the        *)
(* timestamps, that the ledger implements AppendOnlyLog, who makes an      *)
(* append give up, and what a tampered chain shows.                        *)
(***************************************************************************)
EXTENDS AuditLedger, FiniteSetTheorems, SequenceTheorems, WellFoundedInduction, TLAPS

-----------------------------------------------------------------------------
(* Types *)

\* An entry built on a well-typed tip is well typed and commits to that tip.
LEMMA ChainedIsEntry ==
  ASSUME NEW c \in Call, tip[c] \in Tip, NEW at \in Time
  PROVE  LET e == Chained(c, at) IN
         /\ e \in Entry
         /\ e.seq = tip[c].next /\ e.prevHash = tip[c].hash
         /\ e.at = at /\ e.by = c
         /\ e.hash = EntryHash(e)
<1> DEFINE d == [seq |-> tip[c].next, at |-> at, by |-> c,
                 prevHash |-> tip[c].hash, hash |-> Genesis]
           h == Append(tip[c].hash, [seq |-> tip[c].next, at |-> at, by |-> c])
<1>1. tip[c].next \in Nat /\ tip[c].hash \in Digest
  BY DEF Tip
<1>2. [seq |-> tip[c].next, at |-> at, by |-> c] \in [seq : Nat, at : Time, by : Call]
  BY <1>1
<1>3. h \in Digest
  BY <1>1, <1>2 DEF Digest
<1>4. Chained(c, at) = [seq |-> tip[c].next, at |-> at, by |-> c,
                        prevHash |-> tip[c].hash, hash |-> h]
  BY SMTT(30) DEF Chained, EntryHash
<1> QED
  BY <1>1, <1>3, <1>4 DEF Entry, EntryHash

\* The tip of a well-typed chain is well typed.
LEMMA TipOfIsTip ==
  ASSUME NEW t \in Seq(Entry)
  PROVE  TipOf(t) \in Tip
<1>1. Genesis \in Digest
  BY DEF Genesis, Digest
<1>2. CASE Len(t) = 0
  BY <1>1, <1>2 DEF TipOf, NextSeq, PrevHash, Tip
<1>3. CASE Len(t) # 0
  <2>1. Len(t) \in Nat /\ Len(t) + 1 # 1 /\ Len(t) + 1 - 1 = Len(t)
    BY <1>3
  <2>2. t[Len(t)] \in Entry
    BY <1>3
  <2>3. t[Len(t)].seq + 1 \in Nat /\ t[Len(t)].hash \in Digest
    BY <2>2 DEF Entry
  <2> QED
    BY <2>1, <2>3 DEF TipOf, NextSeq, PrevHash, Tip
<1> QED
  BY <1>2, <1>3

LEMMA NothingIsTyped ==
  ASSUME LedgerAssumption, NEW c \in Call
  PROVE  NoTip \in Tip /\ NoEntry \in Entry
<1>1. Genesis \in Digest /\ 0 \in Nat /\ 0 \in Time
  BY DEF Genesis, Digest, Time, LedgerAssumption
<1>2. (CHOOSE d \in Call : TRUE) \in Call
  OBVIOUS
<1> QED
  BY <1>1, <1>2 DEF NoTip, NoEntry, Tip, Entry

\* Forgetting locals keeps their types.
LEMMA ForgetIsTyped ==
  ASSUME LedgerAssumption, LedgerTypeOK, NEW S, ForgetLocals(S)
  PROVE  /\ tip' \in [Call -> Tip] /\ entry' \in [Call -> Entry]
         /\ attempts' \in [Call -> 0..MaxAttempts - 1] /\ start' \in [Call -> Nat]
<1>1. tip' \in [Call -> Tip]
  BY NothingIsTyped DEF ForgetLocals, LedgerTypeOK
<1>2. entry' \in [Call -> Entry]
  BY NothingIsTyped DEF ForgetLocals, LedgerTypeOK
<1>3. attempts' \in [Call -> 0..MaxAttempts - 1]
  BY DEF ForgetLocals, LedgerTypeOK, LedgerAssumption
<1>4. start' \in [Call -> Nat]
  BY DEF ForgetLocals, LedgerTypeOK
<1> QED
  BY <1>1, <1>2, <1>3, <1>4

States == Waiting \cup {"new", "ok", "raced", "failed", "dead"}

\* A settled append leaves the queue and forgets its locals.
LEMMA SettleIsTyped ==
  ASSUME LedgerAssumption, LedgerTypeOK, NEW c \in Call, Running(c),
         NEW how \in States, Settle(c, how)
  PROVE  /\ queue' \in [Instance -> Seq(Call)] /\ pc' \in [Call -> States]
         /\ tip' \in [Call -> Tip] /\ entry' \in [Call -> Entry]
         /\ attempts' \in [Call -> 0..MaxAttempts - 1] /\ start' \in [Call -> Nat]
<1>1. Home[c] \in Instance /\ queue[Home[c]] \in Seq(Call) /\ queue[Home[c]] # << >>
  BY DEF LedgerAssumption, LedgerTypeOK, Running
<1>2. Tail(queue[Home[c]]) \in Seq(Call)
  BY <1>1
<1>3. queue' \in [Instance -> Seq(Call)]
  BY <1>2 DEF LedgerTypeOK, Settle
<1>4. pc' \in [Call -> States]
  BY DEF LedgerTypeOK, Settle, States
<1>5. ForgetLocals({c})
  BY DEF Settle
<1> QED
  BY <1>3, <1>4, <1>5, ForgetIsTyped

\* So does one that lost its last attempt; the others go on with the new tip.
LEMMA RetryIsTyped ==
  ASSUME LedgerAssumption, LedgerTypeOK, NEW c \in Call, Running(c),
         Retry(c, TipOf(rows))
  PROVE  /\ queue' \in [Instance -> Seq(Call)] /\ pc' \in [Call -> States]
         /\ tip' \in [Call -> Tip] /\ entry' \in [Call -> Entry]
         /\ attempts' \in [Call -> 0..MaxAttempts - 1] /\ start' \in [Call -> Nat]
<1>1. CASE attempts[c] + 1 < MaxAttempts
  <2>1. TipOf(rows) \in Tip
    BY TipOfIsTip DEF LedgerTypeOK
  <2>2. tip' \in [Call -> Tip] /\ UNCHANGED <<queue, entry, start>>
    BY <1>1, <2>1 DEF Retry, LedgerTypeOK
  <2>3. attempts[c] + 1 \in 0..MaxAttempts - 1
    BY <1>1 DEF LedgerTypeOK, LedgerAssumption
  <2>4. attempts' \in [Call -> 0..MaxAttempts - 1]
    BY <1>1, <2>3 DEF Retry, LedgerTypeOK
  <2>5. pc' \in [Call -> States]
    BY <1>1 DEF Retry, LedgerTypeOK, States, Waiting
  <2> QED
    BY <2>2, <2>4, <2>5 DEF LedgerTypeOK
<1>2. CASE ~(attempts[c] + 1 < MaxAttempts)
  <2>1. Settle(c, "raced") /\ "raced" \in States
    BY <1>2 DEF Retry, States
  <2> QED
    BY <2>1, SettleIsTyped
<1> QED
  BY <1>1, <1>2

THEOREM TypesInit == LedgerAssumption /\ LedgerInit => LedgerTypeOK
<1> SUFFICES ASSUME LedgerAssumption, LedgerInit PROVE LedgerTypeOK
  OBVIOUS
<1>1. tip \in [Call -> Tip] /\ entry \in [Call -> Entry]
  BY NothingIsTyped DEF LedgerInit
<1>2. attempts \in [Call -> 0..MaxAttempts - 1] /\ start \in [Call -> Nat]
  BY DEF LedgerInit, LedgerAssumption
<1>3. clock \in Time /\ faults \in 0..MaxFaults
  BY DEF LedgerInit, LedgerAssumption, Time
<1>4. /\ rows \in Seq(Entry) /\ stray \subseteq Entry
      /\ queue \in [Instance -> Seq(Call)]
      /\ pc \in [Call -> Waiting \cup {"new", "ok", "raced", "failed", "dead"}]
  BY DEF LedgerInit
<1> QED
  BY <1>1, <1>2, <1>3, <1>4 DEF LedgerTypeOK

THEOREM TypesNext ==
  LedgerAssumption /\ LedgerTypeOK /\ [LedgerNext]_ledgerVars => LedgerTypeOK'
<1> SUFFICES ASSUME LedgerAssumption, LedgerTypeOK, [LedgerNext]_ledgerVars
             PROVE  LedgerTypeOK'
  OBVIOUS
<1> USE DEF States
<1>1. ASSUME NEW c \in Call, RequestAppend(c) PROVE LedgerTypeOK'
  <2>1. Home[c] \in Instance /\ queue[Home[c]] \in Seq(Call)
    BY DEF LedgerAssumption, LedgerTypeOK
  <2>2. Append(queue[Home[c]], c) \in Seq(Call)
    BY <2>1
  <2>3. queue' \in [Instance -> Seq(Call)]
    BY <1>1, <2>2 DEF RequestAppend, LedgerTypeOK
  <2>4. pc' \in [Call -> States]
    BY <1>1 DEF RequestAppend, LedgerTypeOK, Waiting
  <2> QED
    BY <1>1, <2>3, <2>4 DEF RequestAppend, LedgerTypeOK, task
<1>2. ASSUME NEW c \in Call, ReadTip(c) PROVE LedgerTypeOK'
  <2>1. TipOf(rows) \in Tip /\ Len(rows) \in Nat
    BY TipOfIsTip DEF LedgerTypeOK
  <2>2. pc' \in [Call -> States]
    BY <1>2 DEF ReadTip, LedgerTypeOK, Waiting
  <2>3. tip' \in [Call -> Tip] /\ start' \in [Call -> Nat]
    BY <1>2, <2>1 DEF ReadTip, LedgerTypeOK
  <2> QED
    BY <1>2, <2>2, <2>3 DEF ReadTip, LedgerTypeOK
<1>3. ASSUME NEW c \in Call, Build(c) PROVE LedgerTypeOK'
  <2>1. Stamped(c) \in Entry
    BY ChainedIsEntry DEF LedgerTypeOK, Stamped
  <2>2. pc' \in [Call -> States]
    BY <1>3 DEF Build, LedgerTypeOK, Waiting
  <2>3. entry' \in [Call -> Entry]
    BY <1>3, <2>1 DEF Build, LedgerTypeOK
  <2> QED
    BY <1>3, <2>2, <2>3 DEF Build, LedgerTypeOK
<1>4. ASSUME NEW c \in Call, StoreAppends(c) PROVE LedgerTypeOK'
  <2>1. entry[c] \in Entry
    BY DEF LedgerTypeOK
  <2>2. rows' \in Seq(Entry)
    BY <1>4, <2>1 DEF StoreAppends, LedgerTypeOK
  <2>3. pc' \in [Call -> States]
    BY <1>4 DEF StoreAppends, LedgerTypeOK, Waiting
  <2> QED
    BY <1>4, <2>2, <2>3 DEF StoreAppends, LedgerTypeOK, task
<1>5. ASSUME NEW c \in Call, Return(c) PROVE LedgerTypeOK'
  <2>1. Running(c) /\ Settle(c, "ok") /\ UNCHANGED <<rows, stray, clock, faults>>
    BY <1>5 DEF Return
  <2> QED
    BY <2>1, SettleIsTyped DEF LedgerTypeOK
<1>6. ASSUME NEW c \in Call, StoreRefuses(c) \/ Reread(c) PROVE LedgerTypeOK'
  <2>1. Running(c) /\ Retry(c, TipOf(rows)) /\ UNCHANGED <<rows, stray, clock, faults>>
    BY <1>6 DEF StoreRefuses, Reread
  <2> QED
    BY <2>1, RetryIsTyped DEF LedgerTypeOK
<1>7. ASSUME NEW c \in Call, ConstraintRefuses(c) PROVE LedgerTypeOK'
  BY <1>7 DEF ConstraintRefuses, LedgerTypeOK, Waiting, task
<1>8. ASSUME NEW c \in Call, LoseAnswer(c) PROVE LedgerTypeOK'
  <2>1. Running(c) /\ Settle(c, "failed") /\ UNCHANGED <<rows, clock>>
    BY <1>8 DEF LoseAnswer
  <2>2. stray' \subseteq Entry /\ faults' \in 0..MaxFaults
    BY <1>8 DEF LoseAnswer, LedgerTypeOK, LedgerAssumption
  <2> QED
    BY <2>1, <2>2, SettleIsTyped DEF LedgerTypeOK
<1>9. ASSUME NEW e \in stray, StrayArrives(e) PROVE LedgerTypeOK'
  <2>1. rows' \in Seq(Entry)
    BY <1>9 DEF StrayArrives, LedgerTypeOK
  <2>2. stray' \subseteq Entry
    BY <1>9 DEF StrayArrives, LedgerTypeOK
  <2> QED
    BY <1>9, <2>1, <2>2 DEF StrayArrives, LedgerTypeOK, task
<1>10. ASSUME NEW i \in Instance, Crash(i) PROVE LedgerTypeOK'
  <2>1. ForgetLocals(Dying(i)) /\ UNCHANGED <<rows, clock>>
    BY <1>10 DEF Crash
  <2>2. stray' \subseteq Entry /\ faults' \in 0..MaxFaults
    <3>1. \A c \in Dying(i) : c \in Call
      BY DEF Dying
    <3>2. {entry[c] : c \in {d \in Dying(i) : pc[d] = "sent"}} \subseteq Entry
      BY <3>1 DEF LedgerTypeOK
    <3>3. stray' \subseteq Entry
      BY <1>10, <3>2 DEF Crash, LedgerTypeOK
    <3>4. faults' \in 0..MaxFaults
      BY <1>10 DEF Crash, LedgerTypeOK, LedgerAssumption
    <3> QED
      BY <3>3, <3>4
  <2>3. pc' \in [Call -> States] /\ queue' \in [Instance -> Seq(Call)]
    BY <1>10 DEF Crash, LedgerTypeOK
  <2> QED
    BY <2>1, <2>2, <2>3, ForgetIsTyped DEF LedgerTypeOK
<1>11. ASSUME Tick PROVE LedgerTypeOK'
  BY <1>11 DEF Tick, LedgerTypeOK, LedgerAssumption, Time, task
<1>12. ASSUME UNCHANGED ledgerVars PROVE LedgerTypeOK'
  BY <1>12 DEF ledgerVars, task, LedgerTypeOK
<1> QED
  BY <1>1, <1>2, <1>3, <1>4, <1>5, <1>6, <1>7, <1>8, <1>9, <1>10, <1>11, <1>12
     DEF LedgerNext, AppendStep

\* Every variable of the ledger keeps its type.
THEOREM LedgerTypeCorrect == LedgerSpec => []LedgerTypeOK
  BY LedgerAssumption, TypesInit, TypesNext, PTL DEF LedgerSpec

-----------------------------------------------------------------------------
(* The chain *)

InFlight == stray \cup {entry[c] : c \in {d \in Call : pc[d] = "sent"}}

\* e was chained onto an entry that is in the store, after it was written.
ChainsOnto(t, now, e) ==
  /\ e.seq <= Len(t)
  /\ e.prevHash = PrevHash(t, e.seq + 1)
  /\ e.hash = EntryHash(e)
  /\ e.at <= now
  /\ e.seq > 0 => t[e.seq].at <= e.at

\* Every entry chains onto the one before it.
Linear(t, now) ==
  \A i \in DOMAIN t : /\ t[i].seq = i - 1
                      /\ t[i].prevHash = PrevHash(t, i)
                      /\ t[i].hash = EntryHash(t[i])
                      /\ t[i].at <= now
                      /\ i > 1 => t[i - 1].at <= t[i].at

KnowsTip(t, k) == k.next <= Len(t) /\ k.hash = PrevHash(t, k.next + 1)

ChainInv ==
  /\ Linear(rows, clock)
  /\ \A e \in InFlight : ChainsOnto(rows, clock, e)
  /\ \A c \in Call : pc[c] = "build" => KnowsTip(rows, tip[c])

\* The tip of a linear chain is its last entry.
LEMMA LinearTip ==
  ASSUME NEW t \in Seq(Entry), NEW now, Linear(t, now)
  PROVE  TipOf(t).next = Len(t) /\ KnowsTip(t, TipOf(t))
<1>1. Len(t) \in Nat
  OBVIOUS
<1>2. NextSeq(t, Len(t) + 1) = Len(t)
  <2>1. CASE Len(t) = 0
    BY <2>1 DEF NextSeq
  <2>2. CASE Len(t) # 0
    <3>1. Len(t) \in DOMAIN t /\ Len(t) + 1 # 1 /\ Len(t) + 1 - 1 = Len(t)
      BY <2>2, <1>1
    <3>2. t[Len(t)].seq = Len(t) - 1
      BY <3>1 DEF Linear
    <3> QED
      BY <3>1, <3>2, <1>1 DEF NextSeq
  <2> QED
    BY <2>1, <2>2
<1> QED
  BY <1>1, <1>2 DEF TipOf, KnowsTip

\* What was chained onto an entry still is when the chain has grown.
LEMMA ChainedStays ==
  ASSUME NEW t \in Seq(Entry), NEW r \in Entry, NEW k \in Nat, k <= Len(t)
  PROVE  /\ PrevHash(Append(t, r), k + 1) = PrevHash(t, k + 1)
         /\ k > 0 => Append(t, r)[k] = t[k]
         /\ k <= Len(Append(t, r))
<1>1. Len(t) \in Nat /\ Len(Append(t, r)) = Len(t) + 1
  OBVIOUS
<1>2. k > 0 => Append(t, r)[k] = t[k]
  BY <1>1
<1>3. k + 1 = 1 <=> k = 0
  OBVIOUS
<1>4. k + 1 - 1 = k
  OBVIOUS
<1> QED
  BY <1>1, <1>2, <1>3, <1>4 DEF PrevHash

LEMMA GrownChainKnown ==
  ASSUME NEW t \in Seq(Entry), NEW r \in Entry, NEW now
  PROVE  /\ \A e \in Entry : ChainsOnto(t, now, e) => ChainsOnto(Append(t, r), now, e)
         /\ \A k \in Tip : KnowsTip(t, k) => KnowsTip(Append(t, r), k)
<1>1. ASSUME NEW e \in Entry, ChainsOnto(t, now, e) PROVE ChainsOnto(Append(t, r), now, e)
  <2>1. e.seq \in Nat /\ e.seq <= Len(t)
    BY <1>1 DEF Entry, ChainsOnto
  <2> QED
    BY <1>1, <2>1, ChainedStays DEF ChainsOnto
<1>2. ASSUME NEW k \in Tip, KnowsTip(t, k) PROVE KnowsTip(Append(t, r), k)
  <2>1. k.next \in Nat /\ k.next <= Len(t)
    BY <1>2 DEF Tip, KnowsTip
  <2> QED
    BY <1>2, <2>1, ChainedStays DEF KnowsTip
<1> QED
  BY <1>1, <1>2

\* Only a child of the tip is admitted, by comparison or by constraint.
LEMMA AdmittedIsNext ==
  ASSUME LedgerTypeOK, Linear(rows, clock), NEW e \in Entry,
         ChainsOnto(rows, clock, e), Admits(e)
  PROVE  e.seq = Len(rows)
<1>1. rows \in Seq(Entry) /\ Len(rows) \in Nat /\ e.seq \in Nat
  BY DEF LedgerTypeOK, Entry
<1>2. CASE Home[e.by] \in ByConstraint
  <2>1. SUFFICES ASSUME e.seq < Len(rows) PROVE FALSE
    BY <1>1 DEF ChainsOnto
  <2>2. e.seq + 1 \in DOMAIN rows
    BY <1>1, <2>1
  <2>3. rows[e.seq + 1].seq = e.seq
    BY <1>1, <2>2 DEF Linear
  <2> QED
    BY <1>2, <2>2, <2>3 DEF Admits
<1>3. CASE Home[e.by] \notin ByConstraint
  <2>1. TipOf(rows).next = Len(rows)
    BY <1>1, LinearTip
  <2>2. TipOf(rows) = [next |-> e.seq, hash |-> e.prevHash]
    BY <1>3 DEF Admits
  <2> QED
    BY <2>1, <2>2
<1> QED
  BY <1>2, <1>3

\* A child of the tip keeps the chain linear.
LEMMA ChildKeepsLinear ==
  ASSUME NEW t \in Seq(Entry), NEW now, Linear(t, now), NEW e \in Entry,
         ChainsOnto(t, now, e), e.seq = Len(t)
  PROVE  Linear(Append(t, e), now)
<1> DEFINE u == Append(t, e)
<1>1. Len(t) \in Nat /\ Len(u) = Len(t) + 1 /\ DOMAIN u = 1..Len(t) + 1 /\ DOMAIN t = 1..Len(t)
  OBVIOUS
<1>2. \A i \in 1..Len(t) : u[i] = t[i]
  OBVIOUS
<1>3. u[Len(t) + 1] = e
  OBVIOUS
<1> HIDE DEF u
<1> SUFFICES ASSUME NEW i \in DOMAIN u
             PROVE  /\ u[i].seq = i - 1
                    /\ u[i].prevHash = PrevHash(u, i)
                    /\ u[i].hash = EntryHash(u[i])
                    /\ u[i].at <= now
                    /\ i > 1 => u[i - 1].at <= u[i].at
  BY DEF Linear, u
<1>4. i \in Nat /\ i > 0 /\ (i > 1 => i - 1 \in 1..Len(t))
  BY <1>1
<1>5. PrevHash(u, i) = PrevHash(t, i)
  BY <1>2, <1>4 DEF PrevHash
<1>6. CASE i \in 1..Len(t)
  <2>1. i \in DOMAIN t /\ u[i] = t[i]
    BY <1>1, <1>2, <1>6
  <2>2. i > 1 => u[i - 1] = t[i - 1]
    BY <1>2, <1>4
  <2> QED
    BY <2>1, <2>2, <1>5 DEF Linear
<1>7. CASE i = Len(t) + 1
  <2>1. u[i] = e /\ i - 1 = Len(t)
    BY <1>1, <1>3, <1>7
  <2>2. i > 1 => u[i - 1] = t[e.seq] /\ e.seq > 0
    BY <2>1, <1>1, <1>2, <1>4
  <2>3. e.prevHash = PrevHash(t, i)
    BY <2>1, <1>1, <1>7 DEF ChainsOnto
  <2> QED
    BY <2>1, <2>2, <2>3, <1>5 DEF ChainsOnto
<1> QED
  BY <1>1, <1>6, <1>7

\* A linear chain passes verify() and head() vouches for it.
LEMMA LinearVerifies ==
  ASSUME NEW t \in Seq(Entry), NEW now, Linear(t, now)
  PROVE  Problem(t) = "none" /\ ~HeadRefused(t)
<1>1. ASSUME NEW i \in DOMAIN t PROVE ProblemAt(t, i) = "none"
  <2>1. i \in Nat /\ i > 0 /\ (i # 1 => i - 1 \in DOMAIN t)
    OBVIOUS
  <2>2. t[i].seq = i - 1 /\ t[i].prevHash = PrevHash(t, i) /\ t[i].hash = EntryHash(t[i])
    BY DEF Linear
  <2>3. NextSeq(t, i) = i - 1
    <3>1. CASE i = 1
      BY <3>1 DEF NextSeq
    <3>2. CASE i # 1
      <4>1. t[i - 1].seq = i - 1 - 1
        BY <2>1, <3>2 DEF Linear
      <4> QED
        BY <2>1, <3>2, <4>1 DEF NextSeq
    <3> QED
      BY <3>1, <3>2
  <2> QED
    BY <2>1, <2>2, <2>3 DEF ProblemAt
<1>2. BadEntries(t) = {}
  BY <1>1 DEF BadEntries
<1>3. TipOf(t).next = Len(t)
  BY LinearTip
<1> QED
  BY <1>2, <1>3 DEF Problem, HeadRefused

LEMMA InFlightTyped ==
  ASSUME LedgerTypeOK PROVE InFlight \subseteq Entry
  BY DEF LedgerTypeOK, InFlight

\* Time that passes changes nothing for what is already stamped.
LEMMA LaterStill ==
  ASSUME LedgerTypeOK, NEW now \in Nat, clock <= now
  PROVE  /\ Linear(rows, clock) => Linear(rows, now)
         /\ \A e \in Entry : ChainsOnto(rows, clock, e) => ChainsOnto(rows, now, e)
<1>1. clock \in Nat /\ \A e \in Entry : e.at \in Nat
  BY DEF LedgerTypeOK, Entry, Time
<1>2. \A i \in DOMAIN rows : rows[i].at \in Nat
  BY <1>1 DEF LedgerTypeOK
<1>3. Linear(rows, clock) => Linear(rows, now)
  BY <1>1, <1>2 DEF Linear
<1>4. ASSUME NEW e \in Entry, ChainsOnto(rows, clock, e) PROVE ChainsOnto(rows, now, e)
  BY <1>1, <1>4 DEF ChainsOnto
<1> QED
  BY <1>3, <1>4

\* A step that writes nothing and learns only the true tip.
LEMMA QuietStep ==
  ASSUME LedgerTypeOK, ChainInv, rows' = rows,
         clock' \in Nat, clock <= clock', InFlight' \subseteq InFlight,
         \A c \in Call : pc'[c] = "build" =>
            (pc[c] = "build" /\ tip'[c] = tip[c]) \/ tip'[c] = TipOf(rows)
  PROVE  ChainInv'
<1>1. Linear(rows, clock')
  BY LaterStill DEF ChainInv
<1>2. \A e \in InFlight' : ChainsOnto(rows, clock', e)
  BY LaterStill, InFlightTyped DEF ChainInv
<1>3. KnowsTip(rows, TipOf(rows))
  BY LinearTip DEF ChainInv, LedgerTypeOK
<1>4. \A c \in Call : pc'[c] = "build" => KnowsTip(rows, tip'[c])
  BY <1>3 DEF ChainInv
<1> QED
  BY <1>1, <1>2, <1>4 DEF ChainInv

\* A step that writes an entry which was in flight.
LEMMA WritingStep ==
  ASSUME LedgerTypeOK, ChainInv, NEW e \in InFlight, Admits(e),
         rows' = Append(rows, e), clock' = clock, InFlight' \subseteq InFlight,
         tip' = tip, \A c \in Call : pc'[c] = "build" => pc[c] = "build"
  PROVE  ChainInv'
<1>1. rows \in Seq(Entry) /\ e \in Entry /\ ChainsOnto(rows, clock, e)
  BY InFlightTyped DEF LedgerTypeOK, ChainInv
<1>2. e.seq = Len(rows)
  BY <1>1, AdmittedIsNext DEF ChainInv
<1>3. Linear(rows', clock')
  BY <1>1, <1>2, ChildKeepsLinear DEF ChainInv
<1>4. \A f \in InFlight' : ChainsOnto(rows', clock', f)
  BY <1>1, GrownChainKnown, InFlightTyped DEF ChainInv
<1>5. \A c \in Call : pc'[c] = "build" => KnowsTip(rows', tip'[c])
  BY <1>1, GrownChainKnown DEF ChainInv, LedgerTypeOK
<1> QED
  BY <1>3, <1>4, <1>5 DEF ChainInv

\* A settled append takes nothing into flight.
LEMMA SettleSendsNothing ==
  ASSUME LedgerTypeOK, NEW c \in Call, NEW how, how # "sent", how # "build", Settle(c, how)
  PROVE  /\ \A d \in Call : pc'[d] = "sent" => pc[d] = "sent" /\ entry'[d] = entry[d]
         /\ \A d \in Call : pc'[d] = "build" => pc[d] = "build" /\ tip'[d] = tip[d]
  BY DEF Settle, ForgetLocals, LedgerTypeOK

LEMMA RetrySendsNothing ==
  ASSUME LedgerTypeOK, NEW c \in Call, Retry(c, TipOf(rows))
  PROVE  /\ \A d \in Call : pc'[d] = "sent" => pc[d] = "sent" /\ entry'[d] = entry[d]
         /\ \A d \in Call : pc'[d] = "build" =>
              (pc[d] = "build" /\ tip'[d] = tip[d]) \/ tip'[d] = TipOf(rows)
<1>1. CASE attempts[c] + 1 < MaxAttempts
  BY <1>1 DEF Retry, LedgerTypeOK
<1>2. CASE ~(attempts[c] + 1 < MaxAttempts)
  <2>1. Settle(c, "raced")
    BY <1>2 DEF Retry
  <2> QED
    BY <2>1, SettleSendsNothing
<1> QED
  BY <1>1, <1>2

THEOREM ChainInit == LedgerInit => ChainInv
<1> SUFFICES ASSUME LedgerInit PROVE ChainInv
  OBVIOUS
<1>1. Linear(rows, clock) /\ InFlight = {}
  BY DEF LedgerInit, Linear, InFlight
<1> QED
  BY <1>1 DEF LedgerInit, ChainInv

THEOREM ChainNext ==
  LedgerAssumption /\ LedgerTypeOK /\ LedgerTypeOK' /\ ChainInv /\ [LedgerNext]_ledgerVars
    => ChainInv'
<1> SUFFICES ASSUME LedgerAssumption, LedgerTypeOK, LedgerTypeOK', ChainInv,
                    [LedgerNext]_ledgerVars
             PROVE  ChainInv'
  OBVIOUS
<1> USE DEF task
<1>0. clock \in Nat /\ clock' \in Nat /\ clock <= clock
  BY DEF LedgerTypeOK, Time
<1>1. ASSUME NEW c \in Call, RequestAppend(c) PROVE ChainInv'
  <2>1. \A d \in Call : pc'[d] \in {"sent", "build"} => pc'[d] = pc[d]
    BY <1>1 DEF RequestAppend, LedgerTypeOK
  <2>2. UNCHANGED <<rows, stray, tip, entry, clock>>
    BY <1>1 DEF RequestAppend
  <2>3. InFlight' \subseteq InFlight
    BY <2>1, <2>2 DEF InFlight
  <2> QED
    BY <1>0, <2>1, <2>2, <2>3, QuietStep
<1>2. ASSUME NEW c \in Call, ReadTip(c) PROVE ChainInv'
  <2>1. \A d \in Call : /\ pc'[d] = "sent" => pc[d] = "sent"
                        /\ pc'[d] = "build" =>
                             (pc[d] = "build" /\ tip'[d] = tip[d]) \/ tip'[d] = TipOf(rows)
    BY <1>2 DEF ReadTip, LedgerTypeOK
  <2>2. UNCHANGED <<rows, stray, entry, clock>>
    BY <1>2 DEF ReadTip
  <2>3. InFlight' \subseteq InFlight
    BY <2>1, <2>2 DEF InFlight
  <2> QED
    BY <1>0, <2>1, <2>2, <2>3, QuietStep
<1>3. ASSUME NEW c \in Call, Build(c) PROVE ChainInv'
  <2> DEFINE e == Stamped(c)
  <2>1. tip[c] \in Tip /\ clock \in Time
    BY DEF LedgerTypeOK
  <2>2. /\ e \in Entry
        /\ e.seq = tip[c].next /\ e.prevHash = tip[c].hash
        /\ e.at = clock
        /\ e.hash = EntryHash(e)
    BY <2>1, ChainedIsEntry DEF Stamped
  <2>3. KnowsTip(rows, tip[c])
    BY <1>3 DEF Build, ChainInv
  <2> HIDE DEF e
  <2>4. e.seq > 0 => rows[e.seq].at <= e.at
    <3>1. e.seq \in Nat /\ e.seq <= Len(rows) /\ Len(rows) \in Nat
      BY <2>2, <2>3 DEF KnowsTip, Entry, LedgerTypeOK
    <3>2. e.seq > 0 => e.seq \in DOMAIN rows
      BY <3>1 DEF LedgerTypeOK
    <3> QED
      BY <2>2, <3>2 DEF ChainInv, Linear
  <2>5. ChainsOnto(rows, clock, e)
    BY <1>0, <2>2, <2>3, <2>4 DEF ChainsOnto, KnowsTip
  <2>6. UNCHANGED <<rows, stray, tip, clock>>
    BY <1>3 DEF Build
  <2>7. /\ \A d \in Call : pc'[d] = "sent" =>
             (pc[d] = "sent" /\ entry'[d] = entry[d]) \/ entry'[d] = e
        /\ \A d \in Call : pc'[d] = "build" => pc[d] = "build"
    BY <1>3 DEF Build, LedgerTypeOK, e
  <2>8. \A f \in InFlight' : f \in InFlight \/ f = e
    BY <2>6, <2>7 DEF InFlight
  <2>9. \A f \in InFlight' : ChainsOnto(rows', clock', f)
    BY <2>5, <2>6, <2>8 DEF ChainInv
  <2>10. \A d \in Call : pc'[d] = "build" => KnowsTip(rows', tip'[d])
    BY <2>6, <2>7 DEF ChainInv
  <2>11. Linear(rows', clock')
    BY <2>6 DEF ChainInv
  <2> QED
    BY <2>9, <2>10, <2>11 DEF ChainInv
<1>4. ASSUME NEW c \in Call, StoreAppends(c) PROVE ChainInv'
  <2>1. entry[c] \in InFlight /\ Admits(entry[c]) /\ rows' = Append(rows, entry[c])
    BY <1>4 DEF StoreAppends, InFlight
  <2>2. UNCHANGED <<stray, tip, entry, clock>>
    BY <1>4 DEF StoreAppends
  <2>3. \A d \in Call : pc'[d] \in {"sent", "build"} => pc'[d] = pc[d]
    BY <1>4 DEF StoreAppends, LedgerTypeOK
  <2>4. InFlight' \subseteq InFlight
    BY <2>2, <2>3 DEF InFlight
  <2> QED
    BY <2>1, <2>2, <2>3, <2>4, WritingStep
<1>5. ASSUME NEW c \in Call, Return(c) PROVE ChainInv'
  <2>1. Settle(c, "ok") /\ UNCHANGED <<rows, stray, clock>>
    BY <1>5 DEF Return
  <2>2. /\ \A d \in Call : pc'[d] = "sent" => pc[d] = "sent" /\ entry'[d] = entry[d]
        /\ \A d \in Call : pc'[d] = "build" => pc[d] = "build" /\ tip'[d] = tip[d]
    BY <2>1, SettleSendsNothing
  <2>3. InFlight' \subseteq InFlight
    BY <2>1, <2>2 DEF InFlight
  <2> QED
    BY <1>0, <2>1, <2>2, <2>3, QuietStep
<1>6. ASSUME NEW c \in Call, StoreRefuses(c) \/ Reread(c) PROVE ChainInv'
  <2>1. Retry(c, TipOf(rows)) /\ UNCHANGED <<rows, stray, clock>>
    BY <1>6 DEF StoreRefuses, Reread
  <2>2. /\ \A d \in Call : pc'[d] = "sent" => pc[d] = "sent" /\ entry'[d] = entry[d]
        /\ \A d \in Call : pc'[d] = "build" =>
              (pc[d] = "build" /\ tip'[d] = tip[d]) \/ tip'[d] = TipOf(rows)
    BY <2>1, RetrySendsNothing
  <2>3. InFlight' \subseteq InFlight
    BY <2>1, <2>2 DEF InFlight
  <2> QED
    BY <1>0, <2>1, <2>2, <2>3, QuietStep
<1>7. ASSUME NEW c \in Call, ConstraintRefuses(c) PROVE ChainInv'
  <2>1. \A d \in Call : pc'[d] \in {"sent", "build"} => pc'[d] = pc[d]
    BY <1>7 DEF ConstraintRefuses, LedgerTypeOK
  <2>2. UNCHANGED <<rows, stray, tip, entry, clock>>
    BY <1>7 DEF ConstraintRefuses
  <2>3. InFlight' \subseteq InFlight
    BY <2>1, <2>2 DEF InFlight
  <2> QED
    BY <1>0, <2>1, <2>2, <2>3, QuietStep
<1>8. ASSUME NEW c \in Call, LoseAnswer(c) PROVE ChainInv'
  <2>1. /\ Settle(c, "failed") /\ UNCHANGED <<rows, clock>>
        /\ stray' = IF pc[c] = "sent" THEN stray \cup {entry[c]} ELSE stray
    BY <1>8 DEF LoseAnswer
  <2>2. /\ \A d \in Call : pc'[d] = "sent" => pc[d] = "sent" /\ entry'[d] = entry[d]
        /\ \A d \in Call : pc'[d] = "build" => pc[d] = "build" /\ tip'[d] = tip[d]
    BY <2>1, SettleSendsNothing
  <2>3. InFlight' \subseteq InFlight
    BY <2>1, <2>2 DEF InFlight
  <2> QED
    BY <1>0, <2>1, <2>2, <2>3, QuietStep
<1>9. ASSUME NEW e \in stray, StrayArrives(e) PROVE ChainInv'
  <2>1. UNCHANGED <<pc, tip, entry, clock>> /\ stray' \subseteq stray
    BY <1>9 DEF StrayArrives
  <2>2. InFlight' \subseteq InFlight /\ e \in InFlight
    BY <2>1 DEF InFlight
  <2>3. CASE Admits(e)
    <3>1. rows' = Append(rows, e)
      BY <1>9, <2>3 DEF StrayArrives
    <3> QED
      BY <2>1, <2>2, <2>3, <3>1, WritingStep
  <2>4. CASE ~Admits(e)
    <3>1. rows' = rows
      BY <1>9, <2>4 DEF StrayArrives
    <3> QED
      BY <1>0, <2>1, <2>2, <3>1, QuietStep
  <2> QED
    BY <2>3, <2>4
<1>10. ASSUME NEW i \in Instance, Crash(i) PROVE ChainInv'
  <2>1. /\ \A d \in Call : pc'[d] = "sent" => pc[d] = "sent" /\ entry'[d] = entry[d]
        /\ \A d \in Call : pc'[d] = "build" => pc[d] = "build" /\ tip'[d] = tip[d]
    BY <1>10 DEF Crash, ForgetLocals, LedgerTypeOK
  <2>2. \A e \in stray' : e \in InFlight
    <3>1. \A c \in Dying(i) : c \in Call
      BY DEF Dying
    <3> QED
      BY <1>10, <3>1 DEF Crash, InFlight
  <2>3. UNCHANGED <<rows, clock>>
    BY <1>10 DEF Crash
  <2>4. InFlight' \subseteq InFlight
    BY <2>1, <2>2 DEF InFlight
  <2> QED
    BY <1>0, <2>1, <2>3, <2>4, QuietStep
<1>11. ASSUME Tick PROVE ChainInv'
  <2>1. UNCHANGED <<rows, stray, pc, tip, entry>> /\ clock <= clock'
    BY <1>0, <1>11 DEF Tick
  <2>2. InFlight' \subseteq InFlight
    BY <2>1 DEF InFlight
  <2> QED
    BY <1>0, <2>1, <2>2, QuietStep
<1>12. ASSUME UNCHANGED ledgerVars PROVE ChainInv'
  <2>1. UNCHANGED <<rows, stray, pc, tip, entry, clock>>
    BY <1>12 DEF ledgerVars
  <2>2. InFlight' \subseteq InFlight
    BY <2>1 DEF InFlight
  <2> QED
    BY <1>0, <2>1, <2>2, QuietStep
<1> QED
  BY <1>1, <1>2, <1>3, <1>4, <1>5, <1>6, <1>7, <1>8, <1>9, <1>10, <1>11, <1>12
     DEF LedgerNext, AppendStep

LEMMA ChainAlways == LedgerSpec => [](LedgerTypeOK /\ ChainInv)
<1>1. LedgerInit => LedgerTypeOK /\ ChainInv
  BY LedgerAssumption, TypesInit, ChainInit
<1>2. LedgerTypeOK /\ ChainInv /\ [LedgerNext]_ledgerVars => (LedgerTypeOK /\ ChainInv)'
  BY LedgerAssumption, TypesNext, ChainNext
<1> QED
  BY <1>1, <1>2, PTL DEF LedgerSpec

\* The chain passes verify() and head() in every state, whatever the writers.
THEOREM ChainIsLinear == LedgerSpec => []ChainLinear
<1>1. LedgerTypeOK /\ ChainInv => ChainLinear
  BY LinearVerifies DEF LedgerTypeOK, ChainInv, ChainLinear
<1> QED
  BY <1>1, ChainAlways, PTL

\* Timestamps never decrease along the chain.
THEOREM TimestampsInOrder == LedgerSpec => []TimestampsMonotone
<1>1. LedgerTypeOK /\ ChainInv => TimestampsMonotone
  BY DEF ChainInv, Linear, TimestampsMonotone
<1> QED
  BY <1>1, ChainAlways, PTL

-----------------------------------------------------------------------------
(* The refinement *)

Lost == {"failed", "dead"}
Written(c) == \E i \in DOMAIN rows : rows[i].by = c

\* Only the call itself, or its one stray, can still put its entry on the chain.
OnceInv ==
  /\ \A i \in DOMAIN rows : pc[rows[i].by] \in {"answered", "ok"} \cup Lost
  /\ \A c \in Call : pc[c] \in {"answered", "ok"} => Written(c)
  /\ \A c \in Call : pc[c] = "sent" => entry[c].by = c
  /\ \A e \in stray : pc[e.by] \in Lost /\ ~Written(e.by)
  /\ \A e, f \in stray : e.by = f.by => e = f

LEMMA RowsByCalls ==
  ASSUME LedgerTypeOK PROVE \A i \in DOMAIN rows : rows[i].by \in Call
<1>1. ASSUME NEW i \in DOMAIN rows PROVE rows[i].by \in Call
  <2>1. rows[i] \in Entry
    BY DEF LedgerTypeOK
  <2> QED
    BY <2>1 DEF Entry
<1> QED
  BY <1>1

\* A step that writes nothing, sends nothing, and moves appends onward only.
LEMMA OnceQuiet ==
  ASSUME LedgerTypeOK, OnceInv, rows' = rows, stray' = stray,
         \A c \in Call :
           /\ pc[c] \in Lost => pc'[c] \in Lost
           /\ pc[c] \in {"answered", "ok"} => pc'[c] \in {"answered", "ok"}
           /\ pc'[c] \in {"answered", "ok"} => pc[c] \in {"answered", "ok"}
           /\ pc'[c] = "sent" => entry'[c].by = c
  PROVE  OnceInv'
<1>1. \A i \in DOMAIN rows : rows[i].by \in Call
  BY RowsByCalls
<1>2. \A e \in stray : e.by \in Call
  BY DEF LedgerTypeOK, Entry
<1> QED
  BY <1>1, <1>2 DEF OnceInv, Written

THEOREM OnceInit == LedgerInit => OnceInv
  BY DEF LedgerInit, OnceInv, Written

\* Appending the entry of an append that is not on the chain puts it there.
LEMMA WrittenAfter ==
  ASSUME LedgerTypeOK, NEW e \in Entry, rows' = Append(rows, e)
  PROVE  /\ \A c \in Call : Written(c)' <=> Written(c) \/ c = e.by
         /\ \A i \in DOMAIN rows' : rows'[i] = e \/ (i \in DOMAIN rows /\ rows'[i] = rows[i])
<1>1. /\ rows \in Seq(Entry) /\ Len(rows) \in Nat
      /\ DOMAIN rows = 1..Len(rows) /\ DOMAIN rows' = 1..Len(rows) + 1
  BY DEF LedgerTypeOK
<1>2. \A i \in 1..Len(rows) : rows'[i] = rows[i]
  BY <1>1
<1>3. rows'[Len(rows) + 1] = e
  BY <1>1
<1>4. \A i \in 1..Len(rows) + 1 : i \in 1..Len(rows) \/ i = Len(rows) + 1
  BY <1>1
<1>5. \A i \in DOMAIN rows' : rows'[i] = e \/ (i \in DOMAIN rows /\ rows'[i] = rows[i])
  BY <1>1, <1>2, <1>3, <1>4
<1>6. ASSUME NEW c \in Call, Written(c) PROVE Written(c)'
  <2>1. PICK i \in DOMAIN rows : rows[i].by = c
    BY <1>6 DEF Written
  <2>2. i \in DOMAIN rows' /\ rows'[i] = rows[i]
    BY <1>1, <1>2, <2>1
  <2> QED
    BY <2>1, <2>2 DEF Written
<1>7. Len(rows) + 1 \in DOMAIN rows'
  BY <1>1
<1>8. ASSUME NEW c \in Call, c = e.by PROVE Written(c)'
  BY <1>3, <1>7, <1>8 DEF Written
<1>9. ASSUME NEW c \in Call, Written(c)' PROVE Written(c) \/ c = e.by
  BY <1>5, <1>9 DEF Written
<1> QED
  BY <1>5, <1>6, <1>8, <1>9

THEOREM OnceNext ==
  LedgerAssumption /\ LedgerTypeOK /\ OnceInv /\ [LedgerNext]_ledgerVars => OnceInv'
<1> SUFFICES ASSUME LedgerAssumption, LedgerTypeOK, OnceInv, [LedgerNext]_ledgerVars
             PROVE  OnceInv'
  OBVIOUS
<1> USE DEF task
<1>0. /\ \A i \in DOMAIN rows : rows[i].by \in Call
      /\ \A e \in stray : e \in Entry /\ e.by \in Call
  BY RowsByCalls DEF LedgerTypeOK, Entry
<1>1. ASSUME NEW c \in Call, RequestAppend(c) PROVE OnceInv'
  BY <1>1, OnceQuiet DEF RequestAppend, LedgerTypeOK, Lost, OnceInv
<1>2. ASSUME NEW c \in Call, ReadTip(c) PROVE OnceInv'
  BY <1>2, OnceQuiet DEF ReadTip, LedgerTypeOK, Lost, OnceInv
<1>3. ASSUME NEW c \in Call, Build(c) PROVE OnceInv'
  <2>1. Stamped(c).by = c
    BY ChainedIsEntry DEF LedgerTypeOK, Stamped
  <2> QED
    BY <1>3, <2>1, OnceQuiet DEF Build, LedgerTypeOK, Lost, OnceInv
<1>4. ASSUME NEW c \in Call, StoreAppends(c) PROVE OnceInv'
  <2>1. /\ pc[c] = "sent" /\ rows' = Append(rows, entry[c]) /\ UNCHANGED <<stray, entry>>
        /\ pc' = [pc EXCEPT ![c] = "answered"]
    BY <1>4 DEF StoreAppends
  <2>2. entry[c] \in Entry /\ entry[c].by = c
    BY <2>1 DEF LedgerTypeOK, OnceInv
  <2>3. /\ \A d \in Call : Written(d)' <=> Written(d) \/ d = c
        /\ \A i \in DOMAIN rows' :
             rows'[i].by = c \/ (i \in DOMAIN rows /\ rows'[i] = rows[i])
    BY <2>1, <2>2, WrittenAfter
  <2>4. pc'[c] = "answered" /\ \A d \in Call : d # c => pc'[d] = pc[d]
    BY <2>1 DEF LedgerTypeOK
  <2>5. \A i \in DOMAIN rows' : pc'[rows'[i].by] \in {"answered", "ok"} \cup Lost
    BY <1>0, <2>3, <2>4 DEF OnceInv
  <2>6. \A d \in Call : pc'[d] \in {"answered", "ok"} => Written(d)'
    BY <2>3, <2>4 DEF OnceInv
  <2>7. \A d \in Call : pc'[d] = "sent" => entry'[d].by = d
    BY <2>1, <2>4 DEF OnceInv
  <2>8. \A e \in stray' : e.by # c
    BY <2>1 DEF OnceInv, Lost
  <2>9. \A e \in stray' : pc'[e.by] \in Lost /\ ~Written(e.by)'
    BY <1>0, <2>1, <2>3, <2>4, <2>8 DEF OnceInv
  <2> QED
    BY <2>1, <2>5, <2>6, <2>7, <2>9 DEF OnceInv
<1>5. ASSUME NEW c \in Call, Return(c) PROVE OnceInv'
  <2>1. Settle(c, "ok") /\ pc[c] = "answered" /\ UNCHANGED <<rows, stray>>
    BY <1>5 DEF Return
  <2>2. \A d \in Call : pc'[d] = "sent" => pc[d] = "sent" /\ entry'[d] = entry[d]
    BY <2>1, SettleSendsNothing
  <2>3. pc'[c] = "ok" /\ \A d \in Call : d # c => pc'[d] = pc[d]
    BY <2>1 DEF Settle, LedgerTypeOK
  <2> QED
    BY <2>1, <2>2, <2>3, OnceQuiet DEF Lost, OnceInv
<1>6. ASSUME NEW c \in Call, StoreRefuses(c) \/ Reread(c) PROVE OnceInv'
  <2>1. /\ Retry(c, TipOf(rows)) /\ UNCHANGED <<rows, stray>>
        /\ pc[c] \in {"sent", "reread"}
    BY <1>6 DEF StoreRefuses, Reread
  <2>2. \A d \in Call : pc'[d] = "sent" => pc[d] = "sent" /\ entry'[d] = entry[d]
    BY <2>1, RetrySendsNothing
  <2>3. pc'[c] \in {"build", "raced"} /\ \A d \in Call : d # c => pc'[d] = pc[d]
    BY <2>1 DEF Retry, Settle, LedgerTypeOK
  <2> QED
    BY <2>1, <2>2, <2>3, OnceQuiet DEF Lost, OnceInv
<1>7. ASSUME NEW c \in Call, ConstraintRefuses(c) PROVE OnceInv'
  BY <1>7, OnceQuiet DEF ConstraintRefuses, LedgerTypeOK, Lost, OnceInv
<1>8. ASSUME NEW c \in Call, LoseAnswer(c) PROVE OnceInv'
  <2>1. /\ Settle(c, "failed") /\ rows' = rows /\ pc[c] \in Asking
        /\ stray' = IF pc[c] = "sent" THEN stray \cup {entry[c]} ELSE stray
    BY <1>8 DEF LoseAnswer
  <2>2. \A d \in Call : pc'[d] = "sent" => pc[d] = "sent" /\ entry'[d] = entry[d]
    BY <2>1, SettleSendsNothing
  <2>3. pc'[c] = "failed" /\ \A d \in Call : d # c => pc'[d] = pc[d]
    BY <2>1 DEF Settle, LedgerTypeOK
  <2>4. \A d \in Call : Written(d)' <=> Written(d)
    BY <2>1 DEF Written
  <2>5. \A i \in DOMAIN rows' : pc'[rows'[i].by] \in {"answered", "ok"} \cup Lost
    BY <1>0, <2>1, <2>3 DEF OnceInv, Lost
  <2>6. /\ \A d \in Call : pc'[d] \in {"answered", "ok"} => Written(d)'
        /\ \A d \in Call : pc'[d] = "sent" => entry'[d].by = d
    BY <2>2, <2>3, <2>4 DEF OnceInv
  <2>7. \A e \in stray : e.by # c
    BY <2>1 DEF OnceInv, Lost, Asking
  <2>8. \A e \in stray' : e \in stray \/ (e = entry[c] /\ e.by = c /\ pc[c] = "sent")
    BY <2>1 DEF OnceInv
  <2>9. pc[c] = "sent" => ~Written(c)
    BY DEF OnceInv, Written, Lost
  <2>10. \A e \in stray' : pc'[e.by] \in Lost /\ ~Written(e.by)'
    BY <1>0, <2>3, <2>4, <2>7, <2>8, <2>9 DEF OnceInv, Lost
  <2>11. \A e, f \in stray' : e.by = f.by => e = f
    BY <2>7, <2>8 DEF OnceInv
  <2> QED
    BY <2>5, <2>6, <2>10, <2>11 DEF OnceInv
<1>9. ASSUME NEW e \in stray, StrayArrives(e) PROVE OnceInv'
  <2>1. UNCHANGED <<pc, entry>> /\ stray' = stray \ {e}
    BY <1>9 DEF StrayArrives
  <2>2. CASE Admits(e)
    <3>1. rows' = Append(rows, e) /\ e \in Entry /\ e.by \in Call
      BY <1>0, <1>9, <2>2 DEF StrayArrives
    <3>2. /\ \A d \in Call : Written(d)' <=> Written(d) \/ d = e.by
          /\ \A i \in DOMAIN rows' : rows'[i] = e \/ (i \in DOMAIN rows /\ rows'[i] = rows[i])
      BY <3>1, WrittenAfter
    <3>3. \A i \in DOMAIN rows' : pc'[rows'[i].by] \in {"answered", "ok"} \cup Lost
      BY <2>1, <3>2 DEF OnceInv
    <3>4. \A f \in stray' : f \in stray /\ f.by # e.by
      BY <2>1 DEF OnceInv
    <3>5. \A f \in stray' : pc'[f.by] \in Lost /\ ~Written(f.by)'
      BY <1>0, <2>1, <3>2, <3>4 DEF OnceInv
    <3> QED
      BY <2>1, <3>2, <3>3, <3>4, <3>5 DEF OnceInv
  <2>3. CASE ~Admits(e)
    <3>1. rows' = rows
      BY <1>9, <2>3 DEF StrayArrives
    <3> QED
      BY <2>1, <3>1 DEF OnceInv, Written
  <2> QED
    BY <2>2, <2>3
<1>10. ASSUME NEW i \in Instance, Crash(i) PROVE OnceInv'
  <2>1. /\ rows' = rows
        /\ \A d \in Dying(i) : d \in Call /\ pc[d] \in Waiting /\ pc'[d] = "dead"
        /\ \A d \in Call \ Dying(i) : pc'[d] = pc[d] /\ entry'[d] = entry[d]
    BY <1>10 DEF Crash, ForgetLocals, Dying
  <2>2. \A e \in stray' : e \in stray \/
          \E d \in Dying(i) : pc[d] = "sent" /\ e = entry[d] /\ e.by = d
    <3>1. stray' = stray \cup {entry[c] : c \in {d \in Dying(i) : pc[d] = "sent"}}
      BY <1>10 DEF Crash
    <3>2. \A d \in Dying(i) : pc[d] = "sent" => entry[d].by = d
      BY <2>1 DEF OnceInv
    <3> QED
      BY <3>1, <3>2
  <2>3. \A d \in Call : Written(d)' <=> Written(d)
    BY <2>1 DEF Written
  <2>4. \A d \in Call : pc'[d] \in {"answered", "ok"} => pc'[d] = pc[d]
    BY <2>1
  <2>5. \A j \in DOMAIN rows' : pc'[rows'[j].by] \in {"answered", "ok"} \cup Lost
    BY <1>0, <2>1 DEF OnceInv, Lost
  <2>6. /\ \A d \in Call : pc'[d] \in {"answered", "ok"} => Written(d)'
        /\ \A d \in Call : pc'[d] = "sent" => entry'[d].by = d
    BY <2>1, <2>3, <2>4 DEF OnceInv
  <2>7. \A d \in Call : pc[d] = "sent" => ~Written(d)
    BY DEF OnceInv, Written, Lost
  <2>8. \A e \in stray : e.by \notin Dying(i)
    BY <2>1 DEF OnceInv, Lost, Waiting
  <2>9. \A e \in stray' : pc'[e.by] \in Lost /\ ~Written(e.by)'
    BY <1>0, <2>1, <2>2, <2>3, <2>7, <2>8 DEF OnceInv, Lost
  <2>10. \A e, f \in stray' : e.by = f.by => e = f
    BY <2>2, <2>8 DEF OnceInv
  <2> QED
    BY <2>5, <2>6, <2>9, <2>10 DEF OnceInv
<1>11. ASSUME Tick PROVE OnceInv'
  BY <1>11 DEF Tick, OnceInv, Written
<1>12. ASSUME UNCHANGED ledgerVars PROVE OnceInv'
  BY <1>12 DEF ledgerVars, OnceInv, Written
<1> QED
  BY <1>1, <1>2, <1>3, <1>4, <1>5, <1>6, <1>7, <1>8, <1>9, <1>10, <1>11, <1>12
     DEF LedgerNext, AppendStep

OneTold(p) ==
  CASE p = "new" -> "idle"
    [] p = "ok" -> "ok"
    [] p = "raced" -> "refused"
    [] p \in {"failed", "dead"} -> "unknown"
    [] p \in Waiting -> "asked"

\* The answers of the abstract log, one append at a time.
LEMMA ToldIs ==
  /\ Told = [c \in Call |-> OneTold(pc[c])]
  /\ Told' = [c \in Call |-> OneTold(pc'[c])]
  BY DEF Told, OneTold

LEMMA ToldValues ==
  /\ OneTold("new") = "idle" /\ OneTold("ok") = "ok" /\ OneTold("raced") = "refused"
  /\ OneTold("failed") = "unknown" /\ OneTold("dead") = "unknown"
  /\ \A p \in Waiting : OneTold(p) = "asked"
<1>1. \A p \in Waiting : p \notin {"new", "ok", "raced", "failed", "dead"}
  BY DEF Waiting
<1> QED
  BY <1>1 DEF OneTold

LEMMA OnLogIs ==
  ASSUME NEW c PROVE Log!OnLog(c) <=> Written(c)
  BY DEF Log!OnLog, Appended, Written

LEMMA AppendedGrows ==
  ASSUME LedgerTypeOK, NEW e \in Entry, rows' = Append(rows, e)
  PROVE  Appended' = Append(Appended, e.by)
<1>1. rows \in Seq(Entry) /\ Len(rows) \in Nat /\ DOMAIN rows = 1..Len(rows)
  BY DEF LedgerTypeOK
<1>2. DOMAIN rows' = 1..Len(rows) + 1
  BY <1>1
<1>3. \A i \in 1..Len(rows) + 1 : rows'[i].by = IF i = Len(rows) + 1 THEN e.by ELSE rows[i].by
  BY <1>1
<1>4. Appended' = [i \in 1..Len(rows) + 1 |-> IF i = Len(rows) + 1 THEN e.by ELSE rows[i].by]
  BY <1>2, <1>3 DEF Appended
<1>5. Appended = [i \in 1..Len(rows) |-> rows[i].by] /\ Appended \in Seq(Call)
  <2>1. \A i \in 1..Len(rows) : rows[i].by \in Call
    BY <1>1, RowsByCalls
  <2>2. Appended = [i \in 1..Len(rows) |-> rows[i].by]
    BY <1>1 DEF Appended
  <2> QED
    BY <1>1, <2>1, <2>2
<1>6. Len(Appended) = Len(rows)
  BY <1>1, <1>5
<1>7. e.by \in Call
  BY DEF Entry
<1>8. /\ DOMAIN Append(Appended, e.by) = 1..Len(rows) + 1
      /\ Append(Appended, e.by) \in Seq(Call)
      /\ \A i \in 1..Len(rows) : Append(Appended, e.by)[i] = rows[i].by
      /\ Append(Appended, e.by)[Len(rows) + 1] = e.by
  BY <1>1, <1>5, <1>6, <1>7
<1>9. Append(Appended, e.by)
        = [i \in 1..Len(rows) + 1 |-> IF i = Len(rows) + 1 THEN e.by ELSE rows[i].by]
  <2>1. \A i \in 1..Len(rows) + 1 :
          Append(Appended, e.by)[i] = IF i = Len(rows) + 1 THEN e.by ELSE rows[i].by
    BY <1>1, <1>8
  <2>2. Append(Appended, e.by) = [i \in DOMAIN Append(Appended, e.by) |-> Append(Appended, e.by)[i]]
    BY <1>5, <1>7
  <2> QED
    BY <1>8, <2>1, <2>2
<1> QED
  BY <1>4, <1>9

\* Moving one append changes what one caller is told.
LEMMA ToldMoves ==
  ASSUME LedgerTypeOK, NEW c \in Call, NEW p,
         pc'[c] = p, \A d \in Call : d # c => pc'[d] = pc[d]
  PROVE  /\ Told' = [Told EXCEPT ![c] = OneTold(p)]
         /\ OneTold(p) = OneTold(pc[c]) => Told' = Told
  BY ToldIs

THEOREM RefineInit == LedgerInit => Log!LogInit
<1> SUFFICES ASSUME LedgerInit PROVE Log!LogInit
  OBVIOUS
<1>1. Appended = << >>
  BY DEF LedgerInit, Appended
<1>2. Told = [c \in Call |-> "idle"]
  BY ToldIs, ToldValues DEF LedgerInit
<1> QED
  BY <1>1, <1>2 DEF Log!LogInit

\* Every step of the ledger is a step of the log or changes nothing of it.
THEOREM RefineNext ==
  LedgerAssumption /\ LedgerTypeOK /\ OnceInv /\ [LedgerNext]_ledgerVars
    => [Log!LogNext]_(Log!logVars)
<1> SUFFICES ASSUME LedgerAssumption, LedgerTypeOK, OnceInv, [LedgerNext]_ledgerVars
             PROVE  Log!LogNext \/ (Appended' = Appended /\ Told' = Told)
  BY DEF Log!logVars
<1> USE DEF task
<1>0. /\ \A c \in Call : Told[c] = OneTold(pc[c])
      /\ "queued" \in Waiting /\ "build" \in Waiting /\ "sent" \in Waiting
      /\ "reread" \in Waiting /\ "answered" \in Waiting
  BY ToldIs DEF Waiting
<1> DEFINE Goal == Log!LogNext \/ (Appended' = Appended /\ Told' = Told)
<1>1. ASSUME NEW c \in Call, RequestAppend(c) PROVE Goal
  <2>1. /\ pc[c] = "new" /\ pc'[c] = "queued" /\ rows' = rows
        /\ \A d \in Call : d # c => pc'[d] = pc[d]
    BY <1>1 DEF RequestAppend, LedgerTypeOK
  <2>2. Told' = [Told EXCEPT ![c] = "asked"] /\ Told[c] = "idle"
    BY <1>0, <2>1, ToldMoves, ToldValues
  <2>3. Appended' = Appended
    BY <2>1 DEF Appended
  <2>4. Log!Ask(c)
    BY <2>2, <2>3 DEF Log!Ask
  <2> QED
    BY <2>4 DEF Log!LogNext
<1>2. ASSUME NEW c \in Call, ReadTip(c) \/ Build(c) \/ ConstraintRefuses(c) PROVE Goal
  <2>1. /\ pc[c] \in Waiting /\ pc'[c] \in Waiting /\ rows' = rows
        /\ \A d \in Call : d # c => pc'[d] = pc[d]
    BY <1>0, <1>2 DEF ReadTip, Build, ConstraintRefuses, LedgerTypeOK
  <2>2. Told' = Told
    BY <2>1, ToldMoves, ToldValues
  <2> QED
    BY <2>1, <2>2 DEF Appended
<1>3. ASSUME NEW c \in Call, StoreAppends(c) PROVE Goal
  <2>1. /\ pc[c] = "sent" /\ pc'[c] = "answered" /\ rows' = Append(rows, entry[c])
        /\ \A d \in Call : d # c => pc'[d] = pc[d]
    BY <1>3 DEF StoreAppends, LedgerTypeOK
  <2>2. entry[c] \in Entry /\ entry[c].by = c /\ ~Written(c)
    BY <2>1 DEF LedgerTypeOK, OnceInv, Written, Lost
  <2>3. Appended' = Append(Appended, c)
    BY <2>1, <2>2, AppendedGrows
  <2>4. Told' = Told /\ Told[c] = "asked"
    BY <1>0, <2>1, ToldMoves, ToldValues
  <2>5. Log!Commit(c)
    BY <2>2, <2>3, <2>4, OnLogIs DEF Log!Commit
  <2> QED
    BY <2>5 DEF Log!LogNext
<1>4. ASSUME NEW c \in Call, Return(c) PROVE Goal
  <2>1. /\ pc[c] = "answered" /\ pc'[c] = "ok" /\ rows' = rows
        /\ \A d \in Call : d # c => pc'[d] = pc[d]
    BY <1>4 DEF Return, Settle, LedgerTypeOK
  <2>2. Told' = [Told EXCEPT ![c] = "ok"] /\ Told[c] = "asked"
    BY <1>0, <2>1, ToldMoves, ToldValues
  <2>3. Written(c) /\ Appended' = Appended
    BY <2>1 DEF OnceInv, Appended
  <2>4. Log!Acknowledge(c)
    BY <2>2, <2>3, OnLogIs DEF Log!Acknowledge
  <2> QED
    BY <2>4 DEF Log!LogNext
<1>5. ASSUME NEW c \in Call, StoreRefuses(c) \/ Reread(c) PROVE Goal
  <2>1. /\ pc[c] \in {"sent", "reread"} /\ pc'[c] \in {"build", "raced"} /\ rows' = rows
        /\ \A d \in Call : d # c => pc'[d] = pc[d]
    BY <1>5 DEF StoreRefuses, Reread, Retry, Settle, LedgerTypeOK
  <2>2. Appended' = Appended /\ Told[c] = "asked"
    BY <1>0, <2>1, ToldValues DEF Appended
  <2>3. CASE pc'[c] = "build"
    BY <1>0, <2>1, <2>2, <2>3, ToldMoves, ToldValues
  <2>4. CASE pc'[c] = "raced"
    <3>1. Told' = [Told EXCEPT ![c] = "refused"]
      BY <2>1, <2>4, ToldMoves, ToldValues
    <3>2. ~Written(c)
      BY <2>1 DEF OnceInv, Written, Lost
    <3>3. Log!Refuse(c)
      BY <2>2, <3>1, <3>2, OnLogIs DEF Log!Refuse
    <3> QED
      BY <3>3 DEF Log!LogNext
  <2> QED
    BY <2>1, <2>3, <2>4
<1>6. ASSUME NEW c \in Call, LoseAnswer(c) PROVE Goal
  <2>1. /\ pc[c] \in Waiting /\ pc'[c] = "failed" /\ rows' = rows
        /\ \A d \in Call : d # c => pc'[d] = pc[d]
    BY <1>0, <1>6 DEF LoseAnswer, Asking, Settle, LedgerTypeOK
  <2>2. Told[c] = "asked"
    BY <1>0, <2>1, ToldValues
  <2>3. Told' = [d \in Call |-> IF d \in {c} THEN "unknown" ELSE Told[d]]
    BY <1>0, <2>1, ToldIs, ToldValues
  <2>4. Log!Abandon({c})
    BY <2>1, <2>2, <2>3 DEF Log!Abandon, Appended
  <2> QED
    BY <2>4 DEF Log!LogNext
<1>7. ASSUME NEW e \in stray, StrayArrives(e) PROVE Goal
  <2>1. pc' = pc /\ e \in Entry /\ e.by \in Call
    BY <1>7 DEF StrayArrives, LedgerTypeOK, Entry
  <2>2. Told' = Told
    BY <2>1, ToldIs
  <2>3. CASE Admits(e)
    <3>1. rows' = Append(rows, e)
      BY <1>7, <2>3 DEF StrayArrives
    <3>2. Appended' = Append(Appended, e.by)
      BY <2>1, <3>1, AppendedGrows
    <3>3. pc[e.by] \in {"failed", "dead"} /\ ~Written(e.by)
      BY DEF OnceInv, Lost
    <3>4. Told[e.by] = "unknown"
      BY <1>0, <2>1, <3>3, ToldValues
    <3>5. Log!Commit(e.by)
      BY <2>2, <3>2, <3>3, <3>4, OnLogIs DEF Log!Commit
    <3> QED
      BY <2>1, <3>5 DEF Log!LogNext
  <2>4. CASE ~Admits(e)
    BY <1>7, <2>2, <2>4 DEF StrayArrives, Appended
  <2> QED
    BY <2>3, <2>4
<1>8. ASSUME NEW i \in Instance, Crash(i) PROVE Goal
  <2>1. /\ rows' = rows
        /\ \A d \in Dying(i) : d \in Call /\ pc[d] \in Waiting /\ pc'[d] = "dead"
        /\ \A d \in Call \ Dying(i) : pc'[d] = pc[d]
    BY <1>8 DEF Crash, Dying
  <2>2. \A d \in Dying(i) : Told[d] = "asked"
    BY <1>0, <2>1, ToldValues
  <2>3. Told' = [d \in Call |-> IF d \in Dying(i) THEN "unknown" ELSE Told[d]]
    BY <1>0, <2>1, ToldIs, ToldValues
  <2>4. Log!Abandon(Dying(i)) /\ Dying(i) \in SUBSET Call
    BY <2>1, <2>2, <2>3 DEF Log!Abandon, Appended
  <2> QED
    BY <2>4 DEF Log!LogNext
<1>9. ASSUME Tick \/ UNCHANGED ledgerVars PROVE Goal
  <2>1. rows' = rows /\ pc' = pc
    BY <1>9 DEF Tick, ledgerVars
  <2> QED
    BY <2>1, ToldIs DEF Appended
<1> QED
  BY <1>1, <1>2, <1>3, <1>4, <1>5, <1>6, <1>7, <1>8, <1>9 DEF LedgerNext, AppendStep

\* The ledger implements the append-only log, for every number of writers,
\* delayed entries and crashes.
THEOREM LedgerIsAppendOnlyLog == LedgerSpec => RefinesLog
<1>1. LedgerInit => LedgerTypeOK /\ OnceInv
  BY LedgerAssumption, TypesInit, OnceInit
<1>2. LedgerTypeOK /\ OnceInv /\ [LedgerNext]_ledgerVars => (LedgerTypeOK /\ OnceInv)'
  BY LedgerAssumption, TypesNext, OnceNext
<1>3. LedgerTypeOK /\ OnceInv /\ [LedgerNext]_ledgerVars => [Log!LogNext]_(Log!logVars)
  BY LedgerAssumption, RefineNext
<1> QED
  BY <1>1, <1>2, <1>3, RefineInit, PTL DEF LedgerSpec, RefinesLog, Log!LogSpec

-----------------------------------------------------------------------------
(* What verify() says of a tampered chain *)

\* verify() reports the first bad entry.
LEMMA FirstProblem ==
  ASSUME NEW t, NEW n \in Nat, DOMAIN t = 1..n, NEW k \in 1..n, ProblemAt(t, k) # "none",
         \A j \in 1..n : j < k => ProblemAt(t, j) = "none"
  PROVE  Problem(t) = ProblemAt(t, k)
<1> DEFINE bad == BadEntries(t)
           least == CHOOSE i \in bad : \A j \in bad : i <= j
<1>1. k \in bad /\ \A j \in bad : j \in 1..n /\ k <= j
  BY DEF BadEntries
<1>2. least \in bad /\ \A j \in bad : least <= j
  BY <1>1
<1>3. least = k
  <2>1. least \in 1..n /\ k <= least /\ least <= k
    BY <1>1, <1>2
  <2> HIDE DEF least
  <2> QED
    BY <2>1
<1>4. Problem(t) = ProblemAt(t, least)
  BY <1>1 DEF Problem
<1> QED
  BY <1>3, <1>4

\* An entry of a linear chain has no problem; its place is its seq.
LEMMA LinearAt ==
  ASSUME NEW t \in Seq(Entry), NEW now, Linear(t, now), NEW i \in DOMAIN t
  PROVE  /\ ProblemAt(t, i) = "none"
         /\ NextSeq(t, i) = i - 1 /\ t[i].seq = i - 1
         /\ t[i].prevHash = PrevHash(t, i) /\ t[i].hash = EntryHash(t[i])
<1>1. i \in Nat /\ i > 0 /\ (i # 1 => i - 1 \in DOMAIN t)
  OBVIOUS
<1>2. t[i].seq = i - 1 /\ t[i].prevHash = PrevHash(t, i) /\ t[i].hash = EntryHash(t[i])
  BY DEF Linear
<1>3. NextSeq(t, i) = i - 1
  <2>1. CASE i = 1
    BY <2>1 DEF NextSeq
  <2>2. CASE i # 1
    <3>1. t[i - 1].seq = i - 1 - 1
      BY <1>1, <2>2 DEF Linear
    <3> QED
      BY <1>1, <2>2, <3>1 DEF NextSeq
  <2> QED
    BY <2>1, <2>2
<1> QED
  BY <1>1, <1>2, <1>3 DEF ProblemAt

\* A chain that starts like a linear one is fine as far as it does.
LEMMA SameStart ==
  ASSUME NEW t \in Seq(Entry), NEW now, Linear(t, now), NEW u, NEW k \in Nat, k <= Len(t),
         \A j \in 1..k : u[j] = t[j]
  PROVE  /\ \A j \in 1..k : ProblemAt(u, j) = "none"
         /\ NextSeq(u, k + 1) = k
         /\ PrevHash(u, k + 1) = PrevHash(t, k + 1)
<1>1. Len(t) \in Nat /\ DOMAIN t = 1..Len(t)
  OBVIOUS
<1>2. ASSUME NEW j \in 1..k PROVE ProblemAt(u, j) = "none"
  <2>1. j \in DOMAIN t /\ u[j] = t[j] /\ (j # 1 => u[j - 1] = t[j - 1])
    BY <1>1
  <2>2. ProblemAt(t, j) = "none"
    BY <2>1, LinearAt
  <2>3. NextSeq(u, j) = NextSeq(t, j) /\ PrevHash(u, j) = PrevHash(t, j)
    BY <2>1 DEF NextSeq, PrevHash
  <2> QED
    BY <2>1, <2>2, <2>3 DEF ProblemAt
<1>3. k # 0 => k \in DOMAIN t /\ u[k] = t[k] /\ k + 1 # 1 /\ k + 1 - 1 = k
  BY <1>1
<1>4. NextSeq(u, k + 1) = k
  <2>1. CASE k = 0
    BY <2>1 DEF NextSeq
  <2>2. CASE k # 0
    <3>1. t[k].seq = k - 1
      BY <1>3, <2>2 DEF Linear
    <3> QED
      BY <1>3, <2>2, <3>1 DEF NextSeq
  <2> QED
    BY <2>1, <2>2
<1>5. PrevHash(u, k + 1) = PrevHash(t, k + 1)
  BY <1>3 DEF PrevHash
<1> QED
  BY <1>2, <1>4, <1>5

\* The first k entries are t's, and the next has the wrong seq.
LEMMA WrongSeq ==
  ASSUME NEW t \in Seq(Entry), NEW now, Linear(t, now),
         NEW u, NEW n \in Nat, DOMAIN u = 1..n,
         NEW k \in Nat, k < n, k <= Len(t), \A j \in 1..k : u[j] = t[j],
         u[k + 1].seq \in Nat
  PROVE  /\ u[k + 1].seq > k => Problem(u) = "gap"
         /\ u[k + 1].seq < k => Problem(u) = "fork"
<1>1. NextSeq(u, k + 1) = k /\ \A j \in 1..k : ProblemAt(u, j) = "none"
  BY SameStart
<1>2. k + 1 \in 1..n /\ \A j \in 1..n : j < k + 1 => j \in 1..k
  OBVIOUS
<1>3. u[k + 1].seq > k => ProblemAt(u, k + 1) = "gap"
  BY <1>1 DEF ProblemAt
<1>4. u[k + 1].seq < k => ProblemAt(u, k + 1) = "fork"
  BY <1>1 DEF ProblemAt
<1> QED
  BY <1>1, <1>2, <1>3, <1>4, FirstProblem

\* head() goes by the last row.
LEMMA LastRow ==
  ASSUME NEW u, NEW n \in Nat, n > 0, Len(u) = n, u[n].seq \in Nat
  PROVE  HeadRefused(u) <=> u[n].seq + 1 # n
<1>1. n + 1 # 1 /\ n + 1 - 1 = n
  OBVIOUS
<1> QED
  BY <1>1 DEF HeadRefused, TipOf, NextSeq

\* The digest depends on the writer.
LEMMA HashDiffers ==
  ASSUME NEW e \in Entry, NEW d \in Call, d # e.by
  PROVE  /\ EntryHash([e EXCEPT !.by = d]) # EntryHash(e)
         /\ EntryHash(e) \in Digest
<1> DEFINE x == [seq |-> e.seq, at |-> e.at, by |-> e.by]
           y == [seq |-> e.seq, at |-> e.at, by |-> d]
           R == [seq : Nat, at : Time, by : Call]
<1>1. x \in R /\ y \in R /\ x # y
  BY DEF Entry
<1>2. e.prevHash \in Seq(R)
  BY DEF Entry, Digest
<1>3. /\ EntryHash(e) = Append(e.prevHash, x)
      /\ EntryHash([e EXCEPT !.by = d]) = Append(e.prevHash, y)
  BY DEF EntryHash, Entry
<1> HIDE DEF x, y, R
<1>4. /\ Append(e.prevHash, x)[Len(e.prevHash) + 1] = x
      /\ Append(e.prevHash, y)[Len(e.prevHash) + 1] = y
      /\ Append(e.prevHash, x) \in Seq(R)
  BY <1>1, <1>2, AppendProperties
<1>5. Seq(R) = Digest
  BY DEF R, Digest
<1> QED
  BY <1>1, <1>3, <1>4, <1>5

\* An entry under another writer's name, hashed again.
LEMMA RehashedIsEntry ==
  ASSUME NEW e \in Entry, NEW d \in Call
  PROVE  LET r == Rehashed([e EXCEPT !.by = d]) IN
         /\ r \in Entry /\ r.seq = e.seq /\ r.at = e.at /\ r.by = d /\ r.prevHash = e.prevHash
         /\ r.hash = EntryHash([e EXCEPT !.by = d]) /\ r.hash = EntryHash(r)
<1> DEFINE R == [seq : Nat, at : Time, by : Call]
           x == [seq |-> e.seq, at |-> e.at, by |-> d]
           h == Append(e.prevHash, x)
<1>1. e.prevHash \in Seq(R) /\ x \in R
  BY DEF Entry, Digest
<1>2. h \in Digest
  <2> HIDE DEF R, x
  <2>1. h \in Seq(R)
    BY <1>1, AppendProperties
  <2> QED
    BY <2>1 DEF R, Digest
<1>3. EntryHash([e EXCEPT !.by = d]) = h
  BY DEF EntryHash, Entry
<1> HIDE DEF h
<1>4. Rehashed([e EXCEPT !.by = d])
        = [seq |-> e.seq, at |-> e.at, by |-> d, prevHash |-> e.prevHash, hash |-> h]
  <2>1. [e EXCEPT !.by = d]
          = [seq |-> e.seq, at |-> e.at, by |-> d, prevHash |-> e.prevHash, hash |-> e.hash]
    BY DEF Entry
  <2> DEFINE q == [e EXCEPT !.by = d]
  <2>2. Rehashed(q) = [q EXCEPT !.hash = EntryHash(q)]
    BY DEF Rehashed
  <2>3. q = [seq |-> e.seq, at |-> e.at, by |-> d, prevHash |-> e.prevHash, hash |-> e.hash]
        /\ EntryHash(q) = h
    BY <1>3, <2>1
  <2> HIDE DEF q
  <2>4. Rehashed(q) = [seq |-> e.seq, at |-> e.at, by |-> d, prevHash |-> e.prevHash, hash |-> h]
    BY <2>2, <2>3
  <2> QED
    BY <2>4 DEF q
<1>5. EntryHash([seq |-> e.seq, at |-> e.at, by |-> d, prevHash |-> e.prevHash, hash |-> h]) = h
  BY DEF EntryHash, h
<1> QED
  BY <1>2, <1>3, <1>4, <1>5 DEF Entry

\* Rows cut out: the ones before stay, the ones behind move up.
LEMMA CutIs ==
  ASSUME NEW t \in Seq(Entry), NEW i \in 1..Len(t)
  PROVE  /\ Cut(t, i) \in Seq(Entry) /\ Len(Cut(t, i)) = Len(t) - 1
         /\ \A j \in 1..Len(t) - 1 : Cut(t, i)[j] = IF j < i THEN t[j] ELSE t[j + 1]
<1> DEFINE a == SubSeq(t, 1, i - 1)
           b == SubSeq(t, i + 1, Len(t))
<1>1. Len(t) \in Nat /\ i \in Nat /\ \A j \in 1..Len(t) : t[j] \in Entry
  OBVIOUS
<1>2. a \in Seq(Entry) /\ Len(a) = i - 1 /\ \A j \in 1..i - 1 : a[j] = t[j]
  <2>1. \A j \in 1..i - 1 : t[j] \in Entry
    BY <1>1
  <2>2. /\ a \in Seq(Entry)
        /\ Len(a) = IF 1 <= i - 1 THEN i - 1 - 1 + 1 ELSE 0
        /\ \A j \in 1..(i - 1 - 1 + 1) : a[j] = t[1 + j - 1]
    BY <1>1, <2>1, SubSeqProperties
  <2> HIDE DEF a
  <2> QED
    BY <1>1, <2>2
<1>3. b \in Seq(Entry) /\ Len(b) = Len(t) - i /\ \A j \in 1..Len(t) - i : b[j] = t[i + j]
  <2>1. \A j \in i + 1..Len(t) : t[j] \in Entry
    BY <1>1
  <2>2. /\ b \in Seq(Entry)
        /\ Len(b) = IF i + 1 <= Len(t) THEN Len(t) - (i + 1) + 1 ELSE 0
        /\ \A j \in 1..(Len(t) - (i + 1) + 1) : b[j] = t[i + 1 + j - 1]
    BY <1>1, <2>1, SubSeqProperties
  <2> HIDE DEF b
  <2> QED
    BY <1>1, <2>2
<1> HIDE DEF a, b
<1>4. /\ a \o b \in Seq(Entry) /\ Len(a \o b) = Len(a) + Len(b)
      /\ \A j \in 1..Len(a) + Len(b) : (a \o b)[j] = IF j <= Len(a) THEN a[j] ELSE b[j - Len(a)]
  BY <1>2, <1>3, ConcatProperties
<1>5. Cut(t, i) = a \o b
  BY DEF Cut, a, b
<1>6. ASSUME NEW j \in 1..Len(t) - 1
      PROVE  (a \o b)[j] = IF j < i THEN t[j] ELSE t[j + 1]
  <2>1. j \in 1..Len(a) + Len(b) /\ j \in Int
    BY <1>1, <1>2, <1>3
  <2>2. (a \o b)[j] = IF j <= Len(a) THEN a[j] ELSE b[j - Len(a)]
    BY <1>4, <2>1
  <2>3. CASE j < i
    BY <1>1, <1>2, <2>1, <2>2, <2>3
  <2>4. CASE ~(j < i)
    <3>1. j - Len(a) \in 1..Len(t) - i /\ i + (j - Len(a)) = j + 1 /\ ~(j <= Len(a))
      BY <1>1, <1>2, <2>1, <2>4
    <3> QED
      BY <1>3, <2>2, <2>4, <3>1
  <2> QED
    BY <2>3, <2>4
<1>7. Len(a \o b) = Len(t) - 1
  BY <1>1, <1>2, <1>3, <1>4
<1> QED
  BY <1>4, <1>5, <1>6, <1>7

\* A row with a second child of the same parent behind it.
LEMMA DoubledIs ==
  ASSUME NEW t \in Seq(Entry), NEW i \in 1..Len(t), NEW d \in Call
  PROVE  LET u == Doubled(t, i, d) IN
         /\ Len(u) = Len(t) + 1 /\ DOMAIN u = 1..Len(t) + 1
         /\ \A j \in 1..i : u[j] = t[j]
         /\ u[i + 1] = Rehashed([t[i] EXCEPT !.by = d])
         /\ i < Len(t) => u[Len(t) + 1] = t[Len(t)]
<1> DEFINE r == Rehashed([t[i] EXCEPT !.by = d])
           a == SubSeq(t, 1, i)
           m == <<r>>
           b == SubSeq(t, i + 1, Len(t))
<1>1. Len(t) \in Nat /\ i \in Nat /\ \A j \in 1..Len(t) : t[j] \in Entry
  OBVIOUS
<1>2. a \in Seq(Entry) /\ Len(a) = i /\ \A j \in 1..i : a[j] = t[j]
  <2>1. \A j \in 1..i : t[j] \in Entry
    BY <1>1
  <2>2. /\ a \in Seq(Entry)
        /\ Len(a) = IF 1 <= i THEN i - 1 + 1 ELSE 0
        /\ \A j \in 1..(i - 1 + 1) : a[j] = t[1 + j - 1]
    BY <1>1, <2>1, SubSeqProperties
  <2> HIDE DEF a
  <2> QED
    BY <1>1, <2>2
<1>3. b \in Seq(Entry) /\ Len(b) = Len(t) - i /\ \A j \in 1..Len(t) - i : b[j] = t[i + j]
  <2>1. \A j \in i + 1..Len(t) : t[j] \in Entry
    BY <1>1
  <2>2. /\ b \in Seq(Entry)
        /\ Len(b) = IF i + 1 <= Len(t) THEN Len(t) - (i + 1) + 1 ELSE 0
        /\ \A j \in 1..(Len(t) - (i + 1) + 1) : b[j] = t[i + 1 + j - 1]
    BY <1>1, <2>1, SubSeqProperties
  <2> HIDE DEF b
  <2> QED
    BY <1>1, <2>2
<1>4. r \in Entry
  BY <1>1, RehashedIsEntry
<1> HIDE DEF r, a, b
<1>5. m \in Seq(Entry) /\ Len(m) = 1 /\ m[1] = r
  BY <1>4
<1> HIDE DEF m
<1>6. /\ a \o m \in Seq(Entry) /\ Len(a \o m) = Len(a) + Len(m)
      /\ \A j \in 1..Len(a) + Len(m) : (a \o m)[j] = IF j <= Len(a) THEN a[j] ELSE m[j - Len(a)]
  BY <1>2, <1>5, ConcatProperties
<1> DEFINE am == a \o m
<1> HIDE DEF am
<1>7. am \in Seq(Entry) /\ Len(am) = i + 1 /\ am[i + 1] = r /\ \A j \in 1..i : am[j] = t[j]
  <2>1. i + 1 \in 1..Len(a) + Len(m) /\ i + 1 - Len(a) = 1 /\ ~(i + 1 <= Len(a))
    BY <1>1, <1>2, <1>5
  <2>2. \A j \in 1..i : j \in 1..Len(a) + Len(m) /\ j <= Len(a)
    BY <1>1, <1>2, <1>5
  <2>3. Len(a) + Len(m) = i + 1
    BY <1>1, <1>2, <1>5
  <2> QED
    BY <1>2, <1>5, <1>6, <2>1, <2>2, <2>3 DEF am
<1> DEFINE u == am \o b
<1>8. /\ u \in Seq(Entry) /\ Len(u) = Len(am) + Len(b)
      /\ \A j \in 1..Len(am) + Len(b) :
           u[j] = IF j <= Len(am) THEN am[j] ELSE b[j - Len(am)]
  BY <1>3, <1>7, ConcatProperties
<1>9. Doubled(t, i, d) = u
  BY DEF Doubled, am, a, m, b, r
<1> HIDE DEF u
<1>10. Len(am) + Len(b) = Len(t) + 1
  BY <1>1, <1>3, <1>7
<1>11. Len(u) = Len(t) + 1 /\ DOMAIN u = 1..Len(t) + 1
  BY <1>1, <1>8, <1>10
<1>12. u[i + 1] = r /\ \A j \in 1..i : u[j] = t[j]
  <2>1. \A j \in 1..i + 1 : j \in 1..Len(am) + Len(b) /\ j <= Len(am)
    BY <1>1, <1>7, <1>10
  <2> QED
    BY <1>1, <1>7, <1>8, <2>1
<1>13. i < Len(t) => u[Len(t) + 1] = t[Len(t)]
  <2> HAVE i < Len(t)
  <2>1. /\ Len(t) + 1 \in 1..Len(am) + Len(b) /\ ~(Len(t) + 1 <= Len(am))
        /\ Len(t) + 1 - Len(am) = Len(t) - i /\ Len(t) - i \in 1..Len(t) - i
        /\ i + (Len(t) - i) = Len(t)
    BY <1>1, <1>7, <1>10
  <2>2. u[Len(t) + 1] = b[Len(t) + 1 - Len(am)]
    BY <1>8, <2>1
  <2>3. b[Len(t) - i] = t[i + (Len(t) - i)]
    BY <1>3, <2>1
  <2> QED
    BY <2>1, <2>2, <2>3
<1> QED
  BY <1>9, <1>11, <1>12, <1>13 DEF r

\* A chain whose entries have no problem has none.
LEMMA NoProblem ==
  ASSUME NEW t, \A j \in DOMAIN t : ProblemAt(t, j) = "none"
  PROVE  Problem(t) = "none"
  BY DEF Problem, BadEntries

\* A missing row is a gap; a missing end is found by the retained head.
LEMMA CutShows ==
  ASSUME NEW t \in Seq(Entry), NEW now, Linear(t, now), NEW i \in 1..Len(t)
  PROVE  /\ i < Len(t) => Problem(Cut(t, i)) = "gap" /\ HeadRefused(Cut(t, i))
         /\ i = Len(t) => /\ Problem(Cut(t, i)) = "none"
                          /\ Verify(Cut(t, i), HeadOf(t)) = "rewritten"
<1> DEFINE u == Cut(t, i)
<1>1. Len(t) \in Nat /\ i \in Nat /\ DOMAIN t = 1..Len(t) /\ 1 <= i /\ i <= Len(t)
  OBVIOUS
<1>2. /\ u \in Seq(Entry) /\ Len(u) = Len(t) - 1
      /\ \A j \in 1..Len(t) - 1 : u[j] = IF j < i THEN t[j] ELSE t[j + 1]
  BY CutIs
<1> HIDE DEF u
<1>3. DOMAIN u = 1..Len(t) - 1
  BY <1>2
<1>4. i - 1 \in Nat /\ i - 1 <= Len(t) /\ Len(t) - 1 \in Nat
  BY <1>1
<1>5. \A j \in 1..i - 1 : u[j] = t[j]
  BY <1>1, <1>2
<1>6. CASE i < Len(t)
  <2>1. i + 1 \in DOMAIN t /\ i \in 1..Len(t) - 1 /\ i - 1 + 1 = i /\ i - 1 < Len(t) - 1
    BY <1>1, <1>6
  <2>2. u[i] = t[i + 1] /\ t[i + 1].seq = i + 1 - 1
    <3>1. ~(i < i)
      BY <1>1
    <3>2. u[i] = t[i + 1]
      BY <1>2, <2>1, <3>1
    <3> QED
      BY <2>1, <3>2 DEF Linear
  <2>3. u[i - 1 + 1].seq \in Nat /\ u[i - 1 + 1].seq > i - 1
    BY <1>1, <2>1, <2>2
  <2>4. Problem(u) = "gap"
    BY <1>3, <1>4, <1>5, <2>1, <2>3, WrongSeq
  <2>5. Len(t) - 1 \in 1..Len(t) - 1 /\ ~(Len(t) - 1 < i) /\ Len(t) - 1 + 1 = Len(t)
        /\ Len(t) \in DOMAIN t
    BY <1>1, <1>6
  <2>6. u[Len(t) - 1] = t[Len(t)] /\ t[Len(t)].seq = Len(t) - 1
    BY <1>2, <2>5 DEF Linear
  <2>7. HeadRefused(u)
    <3>1. \A n, m \in Nat : 1 <= m /\ m < n => n - 1 > 0 /\ n - 1 + 1 # n - 1
      OBVIOUS
    <3> QED
      BY <1>1, <1>2, <1>4, <1>6, <2>6, <3>1, LastRow
  <2> QED
    BY <1>6, <2>4, <2>7 DEF u
<1>7. CASE i = Len(t)
  <2>1. \A j \in 1..i - 1 : ProblemAt(u, j) = "none"
    BY <1>4, <1>5, SameStart
  <2>2. Problem(u) = "none"
    BY <1>3, <1>7, <2>1, NoProblem
  <2>3. HeadOf(u) # HeadOf(t)
    <3>1. HeadOf(u).entries = Len(t) - 1 /\ HeadOf(t).entries = Len(t)
      BY <1>2 DEF HeadOf
    <3> QED
      BY <1>1, <3>1
  <2> QED
    BY <1>7, <2>2, <2>3 DEF Verify, u
<1> QED
  BY <1>1, <1>6, <1>7

\* Rows that change places leave a gap.
LEMMA SwappedShows ==
  ASSUME NEW t \in Seq(Entry), NEW now, Linear(t, now),
         NEW i \in 1..Len(t), NEW j \in i + 1..Len(t)
  PROVE  Problem(Swapped(t, i, j)) = "gap"
<1> DEFINE u == Swapped(t, i, j)
<1>1. Len(t) \in Nat /\ i \in Nat /\ j \in Nat /\ i < j /\ DOMAIN t = 1..Len(t) /\ j \in DOMAIN t
  OBVIOUS
<1>2. DOMAIN u = 1..Len(t) /\ u[i] = t[j] /\ \A m \in 1..Len(t) : m < i => u[m] = t[m]
  BY <1>1 DEF Swapped
<1> HIDE DEF u
<1>3. t[j].seq = j - 1
  BY <1>1 DEF Linear
<1>4. /\ i - 1 \in Nat /\ i - 1 < Len(t) /\ i - 1 <= Len(t) /\ i - 1 + 1 = i
      /\ \A m \in 1..i - 1 : m \in 1..Len(t) /\ m < i
  BY <1>1
<1>5. u[i - 1 + 1].seq \in Nat /\ u[i - 1 + 1].seq > i - 1
  BY <1>1, <1>2, <1>3, <1>4
<1> QED
  BY <1>1, <1>2, <1>4, <1>5, WrongSeq DEF u

\* A second child of the same parent is a fork.
LEMMA DoubledShows ==
  ASSUME NEW t \in Seq(Entry), NEW now, Linear(t, now), NEW i \in 1..Len(t), NEW d \in Call
  PROVE  Problem(Doubled(t, i, d)) = "fork" /\ HeadRefused(Doubled(t, i, d))
<1> DEFINE u == Doubled(t, i, d)
           r == Rehashed([t[i] EXCEPT !.by = d])
<1>1. /\ Len(t) \in Nat /\ i \in Nat /\ DOMAIN t = 1..Len(t) /\ t[i] \in Entry
      /\ i <= Len(t) /\ 1 <= i /\ Len(t) \in 1..Len(t)
  OBVIOUS
<1>2. /\ Len(u) = Len(t) + 1 /\ DOMAIN u = 1..Len(t) + 1
      /\ \A j \in 1..i : u[j] = t[j]
      /\ u[i + 1] = r
      /\ i < Len(t) => u[Len(t) + 1] = t[Len(t)]
  BY DoubledIs
<1>3. r.seq = t[i].seq
  BY <1>1, RehashedIsEntry
<1> HIDE DEF u, r
<1>4. t[i].seq = i - 1 /\ t[Len(t)].seq = Len(t) - 1
  BY <1>1 DEF Linear
<1>5. i < Len(t) + 1 /\ i <= Len(t) /\ Len(t) + 1 \in Nat /\ i - 1 \in Nat /\ i - 1 < i
  BY <1>1
<1>6. Problem(u) = "fork"
  BY <1>1, <1>2, <1>3, <1>4, <1>5, WrongSeq
<1>7. u[Len(t) + 1].seq = Len(t) - 1
  <2>1. CASE i < Len(t)
    BY <1>2, <1>4, <2>1
  <2>2. CASE i = Len(t)
    BY <1>2, <1>3, <1>4, <2>2
  <2>3. i < Len(t) \/ i = Len(t)
    <3>1. \A m, n \in Nat : m <= n => m < n \/ m = n
      OBVIOUS
    <3> QED
      BY <1>1, <3>1
  <2> QED
    BY <2>1, <2>2, <2>3
<1>8. HeadRefused(u)
  <2>1. Len(t) - 1 \in Nat /\ Len(t) - 1 + 1 # Len(t) + 1 /\ Len(t) + 1 > 0
    <3>1. \A n \in Nat : n >= 1 => n - 1 \in Nat /\ n - 1 + 1 # n + 1 /\ n + 1 > 0
      OBVIOUS
    <3>2. Len(t) >= 1
      BY <1>1
    <3> QED
      BY <1>1, <3>1, <3>2
  <2> QED
    BY <1>2, <1>5, <1>7, <2>1, LastRow
<1> QED
  BY <1>6, <1>8 DEF u

\* A row altered in place no longer has its hash; with a new hash, the next
\* row no longer has its parent.
LEMMA AlteredShows ==
  ASSUME NEW t \in Seq(Entry), NEW now, Linear(t, now), NEW i \in 1..Len(t),
         NEW d \in Call, d # t[i].by
  PROVE  Problem(Altered(t, i, d)) = "tampered"
<1> DEFINE u == Altered(t, i, d)
           e == [t[i] EXCEPT !.by = d]
<1>1. Len(t) \in Nat /\ i \in Nat /\ DOMAIN t = 1..Len(t) /\ t[i] \in Entry
  OBVIOUS
<1>2. DOMAIN u = 1..Len(t) /\ u[i] = e /\ \A m \in 1..Len(t) : m # i => u[m] = t[m]
  BY <1>1 DEF Altered
<1>3. e.seq = t[i].seq /\ e.prevHash = t[i].prevHash /\ e.hash = t[i].hash
  BY <1>1 DEF Entry
<1>4. EntryHash(e) # EntryHash(t[i])
  BY <1>1, HashDiffers
<1> HIDE DEF u, e
<1>5. /\ i - 1 \in Nat /\ i - 1 <= Len(t) /\ i - 1 + 1 = i
      /\ \A m \in 1..i - 1 : m \in 1..Len(t) /\ m # i
      /\ \A m \in 1..Len(t) : m < i => m \in 1..i - 1
  BY <1>1
<1>6. /\ NextSeq(u, i - 1 + 1) = i - 1 /\ PrevHash(u, i - 1 + 1) = PrevHash(t, i - 1 + 1)
      /\ \A m \in 1..i - 1 : ProblemAt(u, m) = "none"
  <2>1. \A m \in 1..i - 1 : u[m] = t[m]
    BY <1>2, <1>5
  <2> QED
    BY <1>5, <2>1, SameStart
<1>7. /\ t[i].seq = i - 1 /\ t[i].prevHash = PrevHash(t, i) /\ t[i].hash = EntryHash(t[i])
  BY <1>1 DEF Linear
<1>8. ProblemAt(u, i) = "tampered"
  <2>1. u[i].seq = i - 1 /\ u[i].prevHash = PrevHash(u, i) /\ NextSeq(u, i) = i - 1
    BY <1>2, <1>3, <1>5, <1>6, <1>7
  <2>2. u[i].hash # EntryHash(u[i])
    BY <1>2, <1>3, <1>4, <1>7
  <2> QED
    BY <1>1, <2>1, <2>2 DEF ProblemAt
<1>9. Problem(u) = ProblemAt(u, i)
  BY <1>1, <1>2, <1>5, <1>6, <1>8, FirstProblem
<1> QED
  BY <1>8, <1>9 DEF u

LEMMA RehashedShows ==
  ASSUME NEW t \in Seq(Entry), NEW now, Linear(t, now), NEW i \in 1..Len(t), i < Len(t),
         NEW d \in Call, d # t[i].by
  PROVE  Problem([t EXCEPT ![i] = Rehashed([@ EXCEPT !.by = d])]) = "broken"
<1> DEFINE r == Rehashed([t[i] EXCEPT !.by = d])
           u == [t EXCEPT ![i] = Rehashed([@ EXCEPT !.by = d])]
<1>1. Len(t) \in Nat /\ i \in Nat /\ DOMAIN t = 1..Len(t) /\ t[i] \in Entry
  OBVIOUS
<1>2. DOMAIN u = 1..Len(t) /\ u[i] = r /\ \A m \in 1..Len(t) : m # i => u[m] = t[m]
  BY <1>1
<1>3. /\ r.seq = t[i].seq /\ r.prevHash = t[i].prevHash /\ r.hash = EntryHash(r)
      /\ r.hash # EntryHash(t[i])
  BY <1>1, RehashedIsEntry, HashDiffers
<1> HIDE DEF u, r
<1>4. /\ i - 1 \in Nat /\ i - 1 <= Len(t) /\ i - 1 + 1 = i
      /\ \A m \in 1..i - 1 : m \in 1..Len(t) /\ m # i
      /\ \A m \in 1..Len(t) : m < i + 1 => m \in 1..i - 1 \/ m = i
      /\ i + 1 \in 1..Len(t) /\ i + 1 # i /\ i + 1 # 1 /\ i + 1 - 1 = i
  BY <1>1
<1>5. /\ NextSeq(u, i - 1 + 1) = i - 1 /\ PrevHash(u, i - 1 + 1) = PrevHash(t, i - 1 + 1)
      /\ \A m \in 1..i - 1 : ProblemAt(u, m) = "none"
  BY <1>2, <1>4, SameStart
<1>6. /\ t[i].seq = i - 1 /\ t[i].prevHash = PrevHash(t, i) /\ t[i].hash = EntryHash(t[i])
      /\ t[i + 1].seq = i + 1 - 1 /\ t[i + 1].prevHash = PrevHash(t, i + 1)
  BY <1>1, <1>4 DEF Linear
<1>7. ProblemAt(u, i) = "none"
  <2>1. /\ u[i].seq = i - 1 /\ u[i].prevHash = PrevHash(u, i) /\ NextSeq(u, i) = i - 1
        /\ u[i].hash = EntryHash(u[i])
    BY <1>2, <1>3, <1>4, <1>5, <1>6
  <2> QED
    BY <1>1, <2>1 DEF ProblemAt
<1>8. ProblemAt(u, i + 1) = "broken"
  <2>1. u[i + 1] = t[i + 1] /\ t[i + 1].prevHash = t[i].hash
    BY <1>2, <1>4, <1>6 DEF PrevHash
  <2>2. NextSeq(u, i + 1) = i /\ PrevHash(u, i + 1) = r.hash
    BY <1>1, <1>2, <1>3, <1>4, <1>6 DEF NextSeq, PrevHash
  <2>3. u[i + 1].seq = i /\ u[i + 1].prevHash # PrevHash(u, i + 1)
    BY <1>1, <1>3, <1>4, <1>6, <2>1, <2>2
  <2> QED
    BY <1>1, <2>2, <2>3 DEF ProblemAt
<1>9. Problem(u) = ProblemAt(u, i + 1)
  BY <1>1, <1>2, <1>4, <1>5, <1>7, <1>8, FirstProblem
<1> QED
  BY <1>8, <1>9 DEF u

-----------------------------------------------------------------------------
(* A forged chain: from the i-th row on everything is hashed again.  It is  *)
(* right in itself, and its last hash tells it from the chain it replaces.  *)

Fact == [seq : Nat, at : Time, by : Call]
FactOf(e) == [seq |-> e.seq, at |-> e.at, by |-> e.by]

\* What a chain of facts commits to is a digest.
LEMMA CommittedIs ==
  ASSUME NEW t, NEW k \in Nat, \A j \in 1..k : FactOf(t[j]) \in Fact
  PROVE  /\ Committed(t, k) \in Digest /\ Len(Committed(t, k)) = k
         /\ Committed(t, k) = [j \in 1..k |-> FactOf(t[j])]
<1>1. Committed(t, k) = [j \in 1..k |-> FactOf(t[j])]
  BY DEF Committed, FactOf
<1>2. [j \in 1..k |-> FactOf(t[j])] \in [1..k -> Fact]
  OBVIOUS
<1>3. [j \in 1..k |-> FactOf(t[j])] \in Seq(Fact)
  BY <1>2
<1>4. Len([j \in 1..k |-> FactOf(t[j])]) = k
  BY <1>3
<1> QED
  BY <1>1, <1>3, <1>4 DEF Digest, Fact

LEMMA CommittedLen ==
  ASSUME NEW t, NEW n \in Nat, \A j \in 1..n : FactOf(t[j]) \in Fact
  PROVE  \A k \in 1..n : Len(Committed(t, k)) = k
<1> TAKE k \in 1..n
<1>1. k \in Nat /\ \A j \in 1..k : j \in 1..n
  OBVIOUS
<1> QED
  BY <1>1, CommittedIs

\* Each digest is the one before and one fact more.
LEMMA CommittedNext ==
  ASSUME NEW t, NEW k \in Nat, k > 0, \A j \in 1..k : FactOf(t[j]) \in Fact
  PROVE  Committed(t, k) = Append(Committed(t, k - 1), FactOf(t[k]))
<1> DEFINE s == Committed(t, k - 1)
           a == Append(s, FactOf(t[k]))
<1>1. /\ k - 1 \in Nat /\ k - 1 + 1 = k /\ k \in 1..k
      /\ \A j \in 1..k : j \in 1..k - 1 \/ j = k
      /\ \A j \in 1..k - 1 : j \in 1..k
  OBVIOUS
<1>2. s \in Seq(Fact) /\ Len(s) = k - 1 /\ s = [j \in 1..k - 1 |-> FactOf(t[j])]
  BY <1>1, CommittedIs DEF Digest, Fact
<1>3. Committed(t, k) = [j \in 1..k |-> FactOf(t[j])]
  BY CommittedIs
<1>4. FactOf(t[k]) \in Fact
  BY <1>1
<1> HIDE DEF s
<1>5. /\ a \in Seq(Fact) /\ Len(a) = k
      /\ \A j \in 1..k - 1 : a[j] = s[j]
      /\ a[k] = FactOf(t[k])
  BY <1>1, <1>2, <1>4, AppendProperties
<1> HIDE DEF a
<1>6. a = [j \in 1..k |-> a[j]]
  BY <1>5
<1>7. \A j \in 1..k : a[j] = FactOf(t[j])
  BY <1>1, <1>2, <1>5
<1>8. a = Committed(t, k)
  BY <1>3, <1>6, <1>7
<1> QED
  BY <1>8 DEF a, s

LEMMA CommittedEmpty ==
  ASSUME NEW t
  PROVE  Committed(t, 0) = Genesis
<1>1. Committed(t, 0) \in Seq(Fact) /\ Len(Committed(t, 0)) = 0
  <2>1. \A j \in 1..0 : FactOf(t[j]) \in Fact
    OBVIOUS
  <2> QED
    BY <2>1, CommittedIs DEF Digest, Fact
<1>2. Committed(t, 0) = << >>
  BY <1>1, EmptySeq
<1> QED
  BY <1>2 DEF Genesis

LEMMA EntryFacts ==
  ASSUME NEW t \in Seq(Entry)
  PROVE  \A j \in 1..Len(t) : FactOf(t[j]) \in Fact
<1> TAKE j \in 1..Len(t)
<1>1. t[j] \in Entry
  OBVIOUS
<1>2. t[j].seq \in Nat /\ t[j].at \in Time /\ t[j].by \in Call
  BY <1>1 DEF Entry
<1> QED
  BY <1>2 DEF FactOf, Fact

LEMMA LeastOf ==
  ASSUME NEW S \in SUBSET Nat, S # {}
  PROVE  \E n \in S : \A m \in S : n <= m
<1> DEFINE R == {pair \in Nat \X Nat : pair[1] < pair[2]}
<1>1. IsWellFoundedOn(R, Nat)
  BY NatLessThanWellFounded DEF OpToRel
<1>2. \A m, n \in Nat : m < n => <<m, n>> \in R
  OBVIOUS
<1> HIDE DEF R
<1>3. PICK n \in S : \A m \in S : <<m, n>> \notin R
  BY <1>1, WFMin
<1>4. \A m \in S : n <= m
  <2> SUFFICES ASSUME NEW m \in S, ~(n <= m) PROVE FALSE
    OBVIOUS
  <2>1. m \in Nat /\ n \in Nat /\ m < n
    OBVIOUS
  <2> QED
    BY <1>2, <1>3, <2>1
<1> QED
  BY <1>4

\* Each entry of a linear chain commits to all of the chain up to itself: the
\* first that did not would follow one that does.
LEMMA LinearCommits ==
  ASSUME NEW t \in Seq(Entry), NEW now, Linear(t, now)
  PROVE  \A k \in 1..Len(t) : t[k].hash = Committed(t, k)
<1> DEFINE bad == {k \in 1..Len(t) : t[k].hash # Committed(t, k)}
<1> SUFFICES ASSUME bad # {} PROVE FALSE
  OBVIOUS
<1>1. Len(t) \in Nat /\ DOMAIN t = 1..Len(t) /\ bad \in SUBSET Nat
  OBVIOUS
<1>2. PICK k \in bad : \A j \in bad : k <= j
  BY <1>1, LeastOf
<1>3. /\ k \in 1..Len(t) /\ k \in Nat /\ k > 0 /\ k - 1 \in Nat
      /\ \A j \in 1..k : j \in 1..Len(t)
      /\ k # 1 => k - 1 \in 1..Len(t) /\ ~(k <= k - 1)
      /\ t[k].hash # Committed(t, k)
  BY <1>1
<1>4. t[k].prevHash = PrevHash(t, k) /\ t[k].hash = EntryHash(t[k])
  BY <1>1, <1>3 DEF Linear
<1>5. t[k].hash = Append(t[k].prevHash, FactOf(t[k]))
  BY <1>4 DEF EntryHash, FactOf
<1>6. t[k].prevHash = Committed(t, k - 1)
  <2>1. CASE k = 1
    <3>1. k - 1 = 0
      BY <2>1
    <3> QED
      BY <1>4, <2>1, <3>1, CommittedEmpty DEF PrevHash
  <2>2. CASE k # 1
    <3>1. k - 1 \notin bad
      BY <1>2, <1>3, <2>2
    <3>2. t[k - 1].hash = Committed(t, k - 1)
      BY <1>3, <2>2, <3>1
    <3> QED
      BY <1>4, <2>2, <3>2 DEF PrevHash
  <2> QED
    BY <2>1, <2>2
<1>7. \A j \in 1..k : FactOf(t[j]) \in Fact
  BY <1>3, EntryFacts
<1> QED
  BY <1>3, <1>5, <1>6, <1>7, CommittedNext

LEMMA ForgedShows ==
  ASSUME NEW t \in Seq(Entry), NEW now, Linear(t, now), NEW i \in 1..Len(t),
         NEW d \in Call, d # t[i].by
  PROVE  /\ Problem(Forged(t, i, d)) = "none"
         /\ Verify(Forged(t, i, d), HeadOf(t)) = "rewritten"
<1> DEFINE u == Altered(t, i, d)
           f == Forged(t, i, d)
           n == Len(t)
<1>1. /\ n \in Nat /\ n > 0 /\ i \in Nat /\ DOMAIN t = 1..n /\ n \in 1..n
      /\ n + 1 # 1 /\ n + 1 - 1 = n
  OBVIOUS
<1>2. /\ DOMAIN u = 1..n /\ u \in Seq(Entry) /\ Len(u) = n
      /\ \A k \in 1..n : u[k] \in Entry /\ u[k].seq = t[k].seq
      /\ u[i].by = d
  <2>1. u = [t EXCEPT ![i] = [t[i] EXCEPT !.by = d]]
    BY <1>1 DEF Altered
  <2>2. [t[i] EXCEPT !.by = d] \in Entry /\ [t[i] EXCEPT !.by = d].seq = t[i].seq
        /\ [t[i] EXCEPT !.by = d].by = d
    <3>1. t[i] \in Entry
      BY <1>1
    <3>2. [t[i] EXCEPT !.by = d]
            = [seq |-> t[i].seq, at |-> t[i].at, by |-> d,
               prevHash |-> t[i].prevHash, hash |-> t[i].hash]
      BY <3>1 DEF Entry
    <3>3. /\ t[i].seq \in Nat /\ t[i].at \in Time
          /\ t[i].prevHash \in Digest /\ t[i].hash \in Digest
      BY <3>1 DEF Entry
    <3> QED
      BY <3>2, <3>3 DEF Entry
  <2> HIDE DEF u
  <2> QED
    BY <1>1, <2>1, <2>2
<1>3. \A k \in 1..n : FactOf(u[k]) \in Fact
  BY <1>2, EntryFacts
<1>4. f = [k \in 1..n |->
             [u[k] EXCEPT !.prevHash = Committed(u, k - 1), !.hash = Committed(u, k)]]
  BY <1>1 DEF Forged
<1>5. DOMAIN f = 1..n /\ Len(f) = n
  <2>1. DOMAIN f = 1..n /\ f = [k \in 1..n |-> f[k]]
    BY <1>4
  <2>2. f \in Seq({f[k] : k \in 1..n})
    BY <1>1, <2>1
  <2> QED
    BY <1>1, <2>1, <2>2
<1> HIDE DEF u, f
<1>6. \A k \in 1..n : /\ f[k].seq = t[k].seq /\ FactOf(f[k]) = FactOf(u[k])
                      /\ f[k].prevHash = Committed(u, k - 1) /\ f[k].hash = Committed(u, k)
  BY <1>2, <1>4 DEF FactOf, Entry
<1>7. \A k \in 1..n : ProblemAt(f, k) = "none"
  <2> TAKE k \in 1..n
  <2>1. /\ k \in Nat /\ k > 0 /\ \A j \in 1..k : j \in 1..n
        /\ k # 1 => k - 1 \in 1..n /\ k - 1 - 1 + 1 = k - 1
        /\ k = 1 => k - 1 = 0
    BY <1>1
  <2>2. Committed(u, k) = Append(Committed(u, k - 1), FactOf(u[k]))
    BY <1>3, <2>1, CommittedNext
  <2>3. f[k].hash = EntryHash(f[k])
    BY <1>6, <2>2 DEF EntryHash, FactOf
  <2>4. f[k].prevHash = PrevHash(f, k)
    BY <1>6, <2>1, CommittedEmpty DEF PrevHash
  <2>5. \A j \in 1..n : t[j].seq = j - 1
    BY <1>1 DEF Linear
  <2>6. f[k].seq = k - 1 /\ NextSeq(f, k) = k - 1
    BY <1>6, <2>1, <2>5 DEF NextSeq
  <2> QED
    BY <2>1, <2>3, <2>4, <2>6 DEF ProblemAt
<1>8. Problem(f) = "none"
  BY <1>5, <1>7, NoProblem
<1>9. TipOf(f).hash = Committed(u, n) /\ TipOf(t).hash = Committed(t, n)
  <2>1. TipOf(f).hash = f[n].hash /\ TipOf(t).hash = t[n].hash
    BY <1>1, <1>5 DEF TipOf, PrevHash
  <2> QED
    BY <1>1, <1>6, <2>1, LinearCommits
<1>10. Committed(u, n) # Committed(t, n)
  <2>1. Committed(u, n)[i].by = u[i].by /\ Committed(t, n)[i].by = t[i].by
    BY DEF Committed
  <2> QED
    BY <1>2, <2>1
<1>11. HeadOf(f) # HeadOf(t)
  BY <1>9, <1>10 DEF HeadOf
<1> QED
  BY <1>8, <1>11 DEF Verify, f

\* Every way of tampering with a linear chain is named for what it is.
LEMMA TamperingShows ==
  ASSUME LedgerTypeOK, Linear(rows, clock)
  PROVE  TamperingIsNamed
<1>1. rows \in Seq(Entry) /\ DOMAIN rows = 1..Len(rows) /\ Len(rows) \in Nat
  BY DEF LedgerTypeOK
<1>2. \A i \in 1..Len(rows) : i < Len(rows) \/ i = Len(rows)
  <2>1. \A n \in Nat : \A i \in 1..n : i < n \/ i = n
    OBVIOUS
  <2> QED
    BY <1>1, <2>1
<1> SUFFICES ASSUME NEW i \in 1..Len(rows)
             PROVE  /\ IF i < Len(rows)
                       THEN Problem(Cut(rows, i)) = "gap" /\ HeadRefused(Cut(rows, i))
                       ELSE /\ Problem(Cut(rows, i)) = "none"
                            /\ Verify(Cut(rows, i), HeadOf(rows)) = "rewritten"
                    /\ \A j \in i + 1..Len(rows) : Problem(Swapped(rows, i, j)) = "gap"
                    /\ \A d \in Call \ {rows[i].by} :
                         /\ Problem(Doubled(rows, i, d)) = "fork"
                         /\ HeadRefused(Doubled(rows, i, d))
                         /\ Problem(Altered(rows, i, d)) = "tampered"
                         /\ i < Len(rows) =>
                              Problem([rows EXCEPT ![i] = Rehashed([@ EXCEPT !.by = d])])
                                = "broken"
                         /\ Problem(Forged(rows, i, d)) = "none"
                         /\ Verify(Forged(rows, i, d), HeadOf(rows)) = "rewritten"
  BY <1>1 DEF TamperingIsNamed
<1>3. IF i < Len(rows)
      THEN Problem(Cut(rows, i)) = "gap" /\ HeadRefused(Cut(rows, i))
      ELSE /\ Problem(Cut(rows, i)) = "none"
           /\ Verify(Cut(rows, i), HeadOf(rows)) = "rewritten"
  BY <1>1, <1>2, CutShows
<1>4. \A j \in i + 1..Len(rows) : Problem(Swapped(rows, i, j)) = "gap"
  BY <1>1, SwappedShows
<1>5. ASSUME NEW d \in Call \ {rows[i].by}
      PROVE  /\ Problem(Doubled(rows, i, d)) = "fork" /\ HeadRefused(Doubled(rows, i, d))
             /\ Problem(Altered(rows, i, d)) = "tampered"
             /\ i < Len(rows) =>
                  Problem([rows EXCEPT ![i] = Rehashed([@ EXCEPT !.by = d])]) = "broken"
             /\ Problem(Forged(rows, i, d)) = "none"
             /\ Verify(Forged(rows, i, d), HeadOf(rows)) = "rewritten"
  <2>1. d \in Call /\ d # rows[i].by
    OBVIOUS
  <2>2. Problem(Doubled(rows, i, d)) = "fork" /\ HeadRefused(Doubled(rows, i, d))
    BY <1>1, <2>1, DoubledShows
  <2>3. Problem(Altered(rows, i, d)) = "tampered"
    BY <1>1, <2>1, AlteredShows
  <2>4. i < Len(rows) =>
          Problem([rows EXCEPT ![i] = Rehashed([@ EXCEPT !.by = d])]) = "broken"
    BY <1>1, <2>1, RehashedShows
  <2>5. /\ Problem(Forged(rows, i, d)) = "none"
        /\ Verify(Forged(rows, i, d), HeadOf(rows)) = "rewritten"
    BY <1>1, <2>1, ForgedShows
  <2> QED
    BY <2>2, <2>3, <2>4, <2>5
<1> QED
  BY <1>3, <1>4, <1>5

-----------------------------------------------------------------------------
(* An append that gives up was overtaken once in every attempt. *)

Trying == {"build", "sent", "reread"}
Active == Trying \cup {"answered"}

\* Whoever is past the wait for its turn is the head of its queue.
TurnInv == \A c \in Call : pc[c] \in Active => Running(c)

RivalRow(c, i) == Home[rows[i].by] # Home[c] \/ pc[rows[i].by] \in Lost

\* While an append tries, only rivals write; each attempt it lost has seen the
\* chain grow, and the tip it builds on is at most as old as its attempt.
RaceOf(c) ==
  /\ pc[c] \in {"new", "queued"} => attempts[c] = 0
  /\ pc[c] \in Trying =>
       /\ start[c] + attempts[c] <= tip[c].next
       /\ \A i \in start[c] + 1..Len(rows) : RivalRow(c, i)
  /\ pc[c] = "sent" => entry[c].seq = tip[c].next
  /\ pc[c] = "reread" => tip[c].next < Len(rows)
  /\ pc[c] = "raced" => \E n \in Nat : /\ start[c] + MaxAttempts <= n /\ n <= Len(rows)
                                       /\ \A i \in start[c] + 1..n : RivalRow(c, i)

RaceInv == \A c \in Call : RaceOf(c)

\* Appending to a queue or to that of another instance leaves its head.
LEMMA TurnInit == LedgerInit => TurnInv
  BY DEF LedgerInit, TurnInv, Active, Trying

LEMMA OneRuns ==
  ASSUME NEW c \in Call, NEW d \in Call, Running(c), Running(d), Home[c] = Home[d]
  PROVE  c = d
  BY DEF Running

LEMMA TurnNext ==
  ASSUME LedgerAssumption, LedgerTypeOK, TurnInv, [LedgerNext]_ledgerVars
  PROVE  TurnInv'
<1> USE DEF task
<1>0. /\ \A c \in Call : Home[c] \in Instance
      /\ \A i \in Instance : queue[i] \in Seq(Call)
      /\ queue \in [Instance -> Seq(Call)] /\ pc \in [Call -> States]
  BY DEF LedgerAssumption, LedgerTypeOK, States
<1>1. ASSUME NEW c \in Call, RequestAppend(c) PROVE TurnInv'
  <2>1. /\ pc' = [pc EXCEPT ![c] = "queued"]
        /\ queue' = [queue EXCEPT ![Home[c]] = Append(@, c)]
    BY <1>1 DEF RequestAppend
  <2>2. \A i \in Instance : queue[i] # << >> =>
          queue'[i] # << >> /\ Head(queue'[i]) = Head(queue[i])
    <3> SUFFICES ASSUME NEW i \in Instance, queue[i] # << >>
                 PROVE  queue'[i] # << >> /\ Head(queue'[i]) = Head(queue[i])
      OBVIOUS
    <3>1. CASE i = Home[c]
      <4>1. queue'[i] = Append(queue[i], c) /\ queue[i] \in Seq(Call)
        BY <1>0, <2>1, <3>1
      <4> QED
        BY <4>1
    <3>2. CASE i # Home[c]
      BY <1>0, <2>1, <3>2
    <3> QED
      BY <3>1, <3>2
  <2>3. \A d \in Call : pc'[d] \in Active => pc[d] \in Active
    BY <1>0, <2>1 DEF Active, Trying
  <2> QED
    BY <1>0, <2>2, <2>3 DEF TurnInv, Running
<1>2. ASSUME NEW c \in Call, Running(c), queue' = queue,
             \A d \in Call : d # c => pc'[d] = pc[d]
      PROVE  TurnInv'
  BY <1>2 DEF TurnInv, Running
<1>3. ASSUME NEW c \in Call, Running(c), NEW how \in {"ok", "failed", "raced"}, Settle(c, how)
      PROVE  TurnInv'
  <2>1. /\ pc' = [pc EXCEPT ![c] = how]
        /\ queue' = [queue EXCEPT ![Home[c]] = Tail(@)]
    BY <1>3 DEF Settle
  <2>2. ASSUME NEW d \in Call, pc'[d] \in Active PROVE Running(d)'
    <3>1. d # c /\ pc[d] \in Active
      BY <1>0, <2>1, <2>2 DEF Active, Trying
    <3>2. Running(d) /\ Home[d] # Home[c]
      BY <1>3, <3>1, OneRuns DEF TurnInv
    <3>3. queue'[Home[d]] = queue[Home[d]]
      BY <1>0, <2>1, <3>2
    <3> QED
      BY <3>2, <3>3 DEF Running
  <2> QED
    BY <2>2 DEF TurnInv
<1>4. ASSUME NEW c \in Call, AppendStep(c) PROVE TurnInv'
  <2>1. CASE ReadTip(c) \/ Build(c) \/ StoreAppends(c) \/ ConstraintRefuses(c)
    <3>1. Running(c) /\ queue' = queue /\ \A d \in Call : d # c => pc'[d] = pc[d]
      BY <1>0, <2>1 DEF ReadTip, Build, StoreAppends, ConstraintRefuses
    <3> QED
      BY <1>2, <3>1
  <2>2. CASE Return(c)
    BY <1>3, <2>2 DEF Return
  <2>3. CASE StoreRefuses(c) \/ Reread(c)
    <3>1. Running(c) /\ Retry(c, TipOf(rows))
      BY <2>3 DEF StoreRefuses, Reread
    <3>2. CASE attempts[c] + 1 < MaxAttempts
      <4>1. queue' = queue /\ \A d \in Call : d # c => pc'[d] = pc[d]
        BY <1>0, <3>1, <3>2 DEF Retry
      <4> QED
        BY <1>2, <3>1, <4>1
    <3>3. CASE ~(attempts[c] + 1 < MaxAttempts)
      BY <1>3, <3>1, <3>3 DEF Retry
    <3> QED
      BY <3>2, <3>3
  <2> QED
    BY <1>4, <2>1, <2>2, <2>3 DEF AppendStep
<1>5. ASSUME NEW c \in Call, LoseAnswer(c) PROVE TurnInv'
  BY <1>3, <1>5 DEF LoseAnswer
<1>6. ASSUME NEW e \in stray, StrayArrives(e) PROVE TurnInv'
  BY <1>6 DEF StrayArrives, TurnInv, Running
<1>7. ASSUME NEW i \in Instance, Crash(i) PROVE TurnInv'
  <2>1. /\ pc' = [c \in Call |-> IF c \in Dying(i) THEN "dead" ELSE pc[c]]
        /\ queue' = [queue EXCEPT ![i] = << >>]
    BY <1>7 DEF Crash
  <2>2. ASSUME NEW d \in Call, pc'[d] \in Active PROVE Running(d)'
    <3>1. d \notin Dying(i) /\ pc[d] \in Active
      BY <2>1, <2>2 DEF Active, Trying
    <3>2. Home[d] # i
      BY <3>1 DEF Dying, Active, Trying, Waiting
    <3>3. queue'[Home[d]] = queue[Home[d]] /\ Running(d)
      BY <1>0, <2>1, <3>1, <3>2 DEF TurnInv
    <3> QED
      BY <3>3 DEF Running
  <2> QED
    BY <2>2 DEF TurnInv
<1>8. ASSUME Tick \/ UNCHANGED ledgerVars PROVE TurnInv'
  BY <1>8 DEF Tick, ledgerVars, TurnInv, Running
<1> QED
  BY <1>1, <1>4, <1>5, <1>6, <1>7, <1>8 DEF LedgerNext

\* An entry the store refuses is not at the end of the chain any more.
LEMMA RefusedIsBehind ==
  ASSUME LedgerTypeOK, Linear(rows, clock), NEW e \in Entry,
         ChainsOnto(rows, clock, e), ~Admits(e)
  PROVE  e.seq < Len(rows)
<1>1. /\ rows \in Seq(Entry) /\ Len(rows) \in Nat /\ DOMAIN rows = 1..Len(rows)
      /\ e.seq \in Nat /\ e.seq <= Len(rows) /\ e.prevHash = PrevHash(rows, e.seq + 1)
  BY DEF LedgerTypeOK, Entry, ChainsOnto
<1> SUFFICES ASSUME e.seq = Len(rows) PROVE FALSE
  BY <1>1
<1>2. TipOf(rows) = [next |-> e.seq, hash |-> e.prevHash]
  BY <1>1, LinearTip DEF TipOf
<1>3. \A k \in 1..Len(rows) : Len(rows[k].hash) = k
  BY <1>1, EntryFacts, LinearCommits, CommittedLen
<1>4. \A k \in 1..Len(rows) : Len(PrevHash(rows, k)) = k - 1
  <2> TAKE k \in 1..Len(rows)
  <2>1. k \in Nat /\ (k # 1 => k - 1 \in 1..Len(rows))
    BY <1>1
  <2>2. CASE k = 1
    <3>1. PrevHash(rows, k) = << >> /\ k - 1 = 0
      BY <2>2 DEF PrevHash, Genesis
    <3> QED
      BY <3>1
  <2>3. CASE k # 1
    BY <1>3, <2>1, <2>3 DEF PrevHash
  <2> QED
    BY <2>2, <2>3
<1>5. Len(e.prevHash) = Len(rows)
  <2>1. CASE Len(rows) = 0
    <3>1. e.prevHash = << >>
      BY <1>1, <2>1 DEF PrevHash, Genesis
    <3> QED
      BY <2>1, <3>1
  <2>2. CASE Len(rows) # 0
    <3>1. e.seq + 1 # 1 /\ e.seq + 1 - 1 = Len(rows) /\ Len(rows) \in 1..Len(rows)
      BY <1>1, <2>2
    <3> QED
      BY <1>1, <1>3, <3>1 DEF PrevHash
  <2> QED
    BY <2>1, <2>2
<1>6. \A i \in 1..Len(rows) : /\ rows[i].seq = i - 1 /\ rows[i].prevHash = PrevHash(rows, i)
                              /\ i - 1 # Len(rows)
  BY <1>1 DEF Linear
<1>7. \A i \in DOMAIN rows : rows[i].seq # e.seq /\ rows[i].prevHash # e.prevHash
  BY <1>1, <1>4, <1>5, <1>6
<1> QED
  BY <1>2, <1>7 DEF Admits

LEMMA GrownByOne ==
  ASSUME NEW t \in Seq(Entry), NEW e \in Entry
  PROVE  /\ Len(Append(t, e)) = Len(t) + 1 /\ Append(t, e)[Len(t) + 1] = e
         /\ \A i \in 1..Len(t) : Append(t, e)[i] = t[i]
  OBVIOUS

\* A call that does not move keeps its part of the invariant, as long as only
\* rivals write while it tries.
LEMMA RaceOther ==
  ASSUME LedgerTypeOK, NEW c \in Call, RaceOf(c),
         pc'[c] = pc[c], tip'[c] = tip[c], entry'[c] = entry[c],
         attempts'[c] = attempts[c], start'[c] = start[c],
         \A d \in Call : pc[d] \in Lost => pc'[d] \in Lost,
         \/ rows' = rows
         \/ \E e \in Entry : /\ rows' = Append(rows, e)
                             /\ pc[c] \in Trying => Home[e.by] # Home[c] \/ pc'[e.by] \in Lost
  PROVE  RaceOf(c)'
<1>1. /\ rows \in Seq(Entry) /\ Len(rows) \in Nat /\ DOMAIN rows = 1..Len(rows)
      /\ start[c] \in Nat /\ tip[c].next \in Nat
      /\ \A i \in DOMAIN rows : rows[i].by \in Call
  BY RowsByCalls DEF LedgerTypeOK, Tip
<1>2. /\ Len(rows') \in Nat /\ Len(rows) <= Len(rows')
      /\ \A i \in 1..Len(rows) : rows'[i] = rows[i]
  <2>1. CASE rows' = rows
    BY <1>1, <2>1
  <2>2. CASE \E e \in Entry : rows' = Append(rows, e)
    <3>1. PICK e \in Entry : rows' = Append(rows, e)
      BY <2>2
    <3>2. Len(rows') = Len(rows) + 1 /\ \A i \in 1..Len(rows) : rows'[i] = rows[i]
      BY <1>1, <3>1, GrownByOne
    <3> QED
      BY <1>1, <3>2
  <2> QED
    BY <2>1, <2>2
<1>3. \A i \in 1..Len(rows) : RivalRow(c, i) => RivalRow(c, i)'
  BY <1>1, <1>2 DEF RivalRow
<1>4. pc[c] \in Trying => \A i \in start[c] + 1..Len(rows') : RivalRow(c, i)'
  <2> SUFFICES ASSUME pc[c] \in Trying, NEW i \in start[c] + 1..Len(rows')
               PROVE  RivalRow(c, i)'
    OBVIOUS
  <2>1. CASE i \in 1..Len(rows)
    <3>1. i \in start[c] + 1..Len(rows)
      BY <1>1, <2>1
    <3> QED
      BY <1>3, <2>1, <3>1 DEF RaceOf
  <2>2. CASE i \notin 1..Len(rows)
    <3>1. i \in Nat /\ i > Len(rows) /\ i <= Len(rows')
      BY <1>1, <1>2, <2>2
    <3>2. PICK e \in Entry : /\ rows' = Append(rows, e)
                             /\ Home[e.by] # Home[c] \/ pc'[e.by] \in Lost
      BY <1>1, <3>1
    <3>3. Len(rows') = Len(rows) + 1 /\ rows'[Len(rows) + 1] = e
      BY <1>1, <3>2, GrownByOne
    <3>4. rows'[i] = e
      <4>1. i = Len(rows) + 1
        BY <1>1, <3>1, <3>3
      <4> QED
        BY <3>3, <4>1
    <3> QED
      BY <3>2, <3>4 DEF RivalRow
  <2> QED
    BY <2>1, <2>2
<1>5. pc[c] = "reread" => tip[c].next < Len(rows')
  BY <1>1, <1>2 DEF RaceOf
<1>6. pc[c] = "raced" => \E n \in Nat : /\ start[c] + MaxAttempts <= n /\ n <= Len(rows')
                                        /\ \A i \in start[c] + 1..n : RivalRow(c, i)'
  <2> SUFFICES ASSUME pc[c] = "raced"
               PROVE  \E n \in Nat : /\ start[c] + MaxAttempts <= n /\ n <= Len(rows')
                                     /\ \A i \in start[c] + 1..n : RivalRow(c, i)'
    OBVIOUS
  <2>1. PICK n \in Nat : /\ start[c] + MaxAttempts <= n /\ n <= Len(rows)
                         /\ \A i \in start[c] + 1..n : RivalRow(c, i)
    BY DEF RaceOf
  <2>2. n <= Len(rows')
    BY <1>1, <1>2, <2>1
  <2>3. \A i \in start[c] + 1..n : i \in 1..Len(rows)
    BY <1>1, <2>1
  <2> QED
    BY <1>3, <2>1, <2>2, <2>3
<1>7. /\ pc[c] \in {"new", "queued"} => attempts[c] = 0
      /\ pc[c] \in Trying => start[c] + attempts[c] <= tip[c].next
      /\ pc[c] = "sent" => entry[c].seq = tip[c].next
  BY DEF RaceOf
<1> QED
  BY <1>4, <1>5, <1>6, <1>7 DEF RaceOf

\* Calls that neither run nor are run over: the condition of RaceOther for all.
Bystander(c) ==
  /\ pc'[c] = pc[c] /\ tip'[c] = tip[c] /\ entry'[c] = entry[c]
  /\ attempts'[c] = attempts[c] /\ start'[c] = start[c]

LostStays == \A d \in Call : pc[d] \in Lost => pc'[d] \in Lost

LEMMA Bystanders ==
  ASSUME LedgerTypeOK, RaceInv, NEW S, LostStays, rows' = rows,
         \A d \in Call \ S : Bystander(d), \A c \in Call \cap S : RaceOf(c)'
  PROVE  RaceInv'
<1>1. ASSUME NEW d \in Call \ S PROVE RaceOf(d)'
  <2>1. RaceOf(d) /\ Bystander(d)
    BY DEF RaceInv
  <2> QED
    BY <2>1, RaceOther DEF Bystander, LostStays
<1> QED
  BY <1>1 DEF RaceInv

\* One call moves.
LEMMA OneMoves ==
  ASSUME LedgerTypeOK, RaceInv, NEW c \in Call, LostStays, rows' = rows,
         \A d \in Call \ {c} : Bystander(d), RaceOf(c)'
  PROVE  RaceInv'
<1>1. \A d \in Call \cap {c} : RaceOf(d)'
  OBVIOUS
<1> QED
  BY <1>1, Bystanders

\* An append that settles, unless it gave up, promises nothing any more.
LEMMA SettleRace ==
  ASSUME LedgerTypeOK, RaceInv, NEW c \in Call, pc[c] \notin Lost, rows' = rows,
         NEW how \in {"ok", "failed"}, Settle(c, how)
  PROVE  RaceInv'
<1>1. pc' = [pc EXCEPT ![c] = how] /\ pc \in [Call -> States] /\ ForgetLocals({c})
  BY DEF Settle, LedgerTypeOK, States
<1>2. \A d \in Call \ {c} : Bystander(d)
  BY <1>1 DEF ForgetLocals, Bystander
<1>3. RaceOf(c)'
  BY <1>1 DEF RaceOf, Trying
<1>4. LostStays
  BY <1>1 DEF LostStays
<1> QED
  BY <1>2, <1>3, <1>4, OneMoves

\* A lost attempt has seen the chain grow; after the last one, MaxAttempts times.
LEMMA RetryRace ==
  ASSUME LedgerAssumption, LedgerTypeOK, ChainInv, RaceInv,
         NEW c \in Call, pc[c] \in Trying, tip[c].next < Len(rows),
         rows' = rows, Retry(c, TipOf(rows))
  PROVE  RaceInv'
<1>1. /\ Len(rows) \in Nat /\ start[c] \in Nat /\ attempts[c] \in Nat
      /\ tip[c].next \in Nat /\ MaxAttempts \in Nat
      /\ pc \in [Call -> States] /\ tip \in [Call -> Tip]
      /\ attempts \in [Call -> 0..MaxAttempts - 1]
  BY DEF LedgerTypeOK, LedgerAssumption, Tip, States
<1>2. /\ start[c] + attempts[c] <= tip[c].next
      /\ \A i \in start[c] + 1..Len(rows) : RivalRow(c, i)
  BY DEF RaceInv, RaceOf
<1>3. start[c] + (attempts[c] + 1) <= Len(rows)
  BY <1>1, <1>2
<1>4. CASE attempts[c] + 1 < MaxAttempts
  <2>1. /\ pc' = [pc EXCEPT ![c] = "build"] /\ tip' = [tip EXCEPT ![c] = TipOf(rows)]
        /\ attempts' = [attempts EXCEPT ![c] = @ + 1] /\ entry' = entry /\ start' = start
    BY <1>4 DEF Retry
  <2>2. /\ pc'[c] = "build" /\ attempts'[c] = attempts[c] + 1 /\ tip'[c] = TipOf(rows)
        /\ \A d \in Call \ {c} : Bystander(d)
    BY <1>1, <2>1 DEF Bystander
  <2>3. TipOf(rows).next = Len(rows)
    BY LinearTip DEF ChainInv, LedgerTypeOK
  <2>4. LostStays
    BY <1>1, <2>1 DEF LostStays, Trying, Lost
  <2>5. \A i \in start[c] + 1..Len(rows) : RivalRow(c, i)'
    <3>1. \A i \in start[c] + 1..Len(rows) : rows[i].by \in Call
      <4>1. \A i \in start[c] + 1..Len(rows) : i \in DOMAIN rows
        BY <1>1 DEF LedgerTypeOK
      <4> QED
        BY <4>1, RowsByCalls
    <3> QED
      BY <1>2, <2>4, <3>1 DEF RivalRow, LostStays
  <2>6. RaceOf(c)'
    BY <1>3, <2>1, <2>2, <2>3, <2>5 DEF RaceOf
  <2> QED
    BY <2>2, <2>4, <2>6, OneMoves
<1>5. CASE ~(attempts[c] + 1 < MaxAttempts)
  <2>1. pc' = [pc EXCEPT ![c] = "raced"] /\ ForgetLocals({c})
    BY <1>5 DEF Retry, Settle
  <2>2. pc'[c] = "raced" /\ start'[c] = start[c] /\ \A d \in Call \ {c} : Bystander(d)
    BY <1>1, <2>1 DEF ForgetLocals, Bystander
  <2>3. LostStays
    BY <1>1, <2>1 DEF LostStays, Trying, Lost
  <2>4. \A i \in start[c] + 1..Len(rows) : RivalRow(c, i)'
    <3>1. \A i \in start[c] + 1..Len(rows) : rows[i].by \in Call
      <4>1. \A i \in start[c] + 1..Len(rows) : i \in DOMAIN rows
        BY <1>1 DEF LedgerTypeOK
      <4> QED
        BY <4>1, RowsByCalls
    <3> QED
      BY <1>2, <2>3, <3>1 DEF RivalRow, LostStays
  <2>5. start[c] + MaxAttempts <= Len(rows)
    BY <1>1, <1>3, <1>5
  <2>6. RaceOf(c)'
    BY <1>1, <2>2, <2>4, <2>5 DEF RaceOf, Trying
  <2> QED
    BY <2>2, <2>3, <2>6, OneMoves
<1> QED
  BY <1>4, <1>5

LEMMA RaceInit == LedgerInit => RaceInv
  BY DEF LedgerInit, RaceInv, RaceOf, Trying

LEMMA RaceNext ==
  ASSUME LedgerAssumption, LedgerTypeOK, ChainInv, OnceInv, TurnInv, RaceInv,
         [LedgerNext]_ledgerVars
  PROVE  RaceInv'
<1> USE DEF task
<1>0. /\ pc \in [Call -> States] /\ tip \in [Call -> Tip] /\ entry \in [Call -> Entry]
      /\ start \in [Call -> Nat] /\ rows \in Seq(Entry) /\ Len(rows) \in Nat
      /\ attempts \in [Call -> 0..MaxAttempts - 1]
      /\ \A c \in Call : tip[c].next \in Nat /\ attempts[c] \in Nat /\ RaceOf(c)
      /\ MaxAttempts \in Nat
  BY DEF LedgerTypeOK, LedgerAssumption, Tip, States, RaceInv
<1>1. ASSUME NEW c \in Call, RequestAppend(c) PROVE RaceInv'
  <2>1. /\ pc[c] = "new" /\ pc' = [pc EXCEPT ![c] = "queued"]
        /\ rows' = rows /\ UNCHANGED <<tip, entry, attempts, start>>
    BY <1>1 DEF RequestAppend
  <2>2. RaceOf(c)'
    BY <1>0, <2>1 DEF RaceOf, Trying
  <2>3. LostStays /\ \A d \in Call \ {c} : Bystander(d)
    BY <1>0, <2>1 DEF LostStays, Bystander, Lost
  <2> QED
    BY <2>1, <2>2, <2>3, OneMoves
<1>2. ASSUME NEW c \in Call, ReadTip(c) PROVE RaceInv'
  <2>1. /\ pc[c] = "queued" /\ pc' = [pc EXCEPT ![c] = "build"]
        /\ tip' = [tip EXCEPT ![c] = TipOf(rows)] /\ start' = [start EXCEPT ![c] = Len(rows)]
        /\ rows' = rows /\ UNCHANGED <<entry, attempts>>
    BY <1>2 DEF ReadTip
  <2>2. /\ pc'[c] = "build" /\ tip'[c] = TipOf(rows) /\ start'[c] = Len(rows)
        /\ attempts'[c] = 0 /\ TipOf(rows).next = Len(rows)
    BY <1>0, <2>1, LinearTip DEF RaceOf, ChainInv
  <2>3. \A i \in Len(rows) + 1..Len(rows) : FALSE
    BY <1>0
  <2>4. RaceOf(c)'
    BY <1>0, <2>1, <2>2, <2>3 DEF RaceOf
  <2>5. LostStays /\ \A d \in Call \ {c} : Bystander(d)
    BY <1>0, <2>1 DEF LostStays, Bystander, Lost
  <2> QED
    BY <2>1, <2>4, <2>5, OneMoves
<1>3. ASSUME NEW c \in Call, Build(c) PROVE RaceInv'
  <2>1. /\ pc[c] = "build" /\ pc' = [pc EXCEPT ![c] = "sent"]
        /\ entry' = [entry EXCEPT ![c] = Stamped(c)]
        /\ rows' = rows /\ UNCHANGED <<tip, attempts, start>>
    BY <1>3 DEF Build
  <2>2. entry'[c].seq = tip[c].next
    <3>1. tip[c] \in Tip /\ clock \in Time
      BY DEF LedgerTypeOK
    <3>2. Stamped(c).seq = tip[c].next
      BY <3>1, ChainedIsEntry DEF Stamped
    <3> QED
      BY <1>0, <2>1, <3>2
  <2>3. LostStays /\ \A d \in Call \ {c} : Bystander(d)
    BY <1>0, <2>1 DEF LostStays, Bystander, Lost
  <2>4. \A i \in start[c] + 1..Len(rows) : RivalRow(c, i)'
    <3>1. \A i \in start[c] + 1..Len(rows) : rows[i].by \in Call /\ RivalRow(c, i)
      <4>1. \A i \in start[c] + 1..Len(rows) : i \in DOMAIN rows
        BY <1>0
      <4> QED
        BY <1>0, <2>1, <4>1, RowsByCalls DEF RaceOf, Trying
    <3> QED
      BY <2>1, <2>3, <3>1 DEF RivalRow, LostStays
  <2>5. RaceOf(c)'
    BY <1>0, <2>1, <2>2, <2>4 DEF RaceOf, Trying
  <2> QED
    BY <2>1, <2>3, <2>5, OneMoves
<1>4. ASSUME NEW c \in Call, StoreAppends(c) PROVE RaceInv'
  <2>1. /\ Running(c) /\ pc[c] = "sent" /\ pc' = [pc EXCEPT ![c] = "answered"]
        /\ rows' = Append(rows, entry[c]) /\ entry[c] \in Entry /\ entry[c].by = c
        /\ UNCHANGED <<tip, entry, attempts, start>>
    BY <1>0, <1>4 DEF StoreAppends, OnceInv
  <2>2. LostStays /\ \A d \in Call \ {c} : Bystander(d)
    BY <1>0, <2>1 DEF LostStays, Bystander, Lost
  <2>3. RaceOf(c)'
    BY <1>0, <2>1 DEF RaceOf, Trying
  <2>4. ASSUME NEW d \in Call \ {c} PROVE RaceOf(d)'
    <3>1. pc[d] \in Trying => Home[c] # Home[d]
      BY <2>1, OneRuns DEF TurnInv, Active
    <3> QED
      BY <1>0, <2>1, <2>2, <3>1, RaceOther DEF Bystander, LostStays
  <2> QED
    BY <2>3, <2>4 DEF RaceInv
<1>5. ASSUME NEW c \in Call, Return(c) PROVE RaceInv'
  BY <1>5, SettleRace DEF Return, Lost
<1>6. ASSUME NEW c \in Call, pc[c] = "sent", ~Admits(entry[c]) PROVE tip[c].next < Len(rows)
  <2>1. entry[c] \in InFlight /\ entry[c] \in Entry
    BY <1>0, <1>6 DEF InFlight
  <2>2. ChainsOnto(rows, clock, entry[c]) /\ Linear(rows, clock)
    BY <2>1 DEF ChainInv
  <2> QED
    BY <1>0, <1>6, <2>1, <2>2, RefusedIsBehind DEF RaceOf
<1>7. ASSUME NEW c \in Call, StoreRefuses(c) PROVE RaceInv'
  BY <1>6, <1>7, RetryRace DEF StoreRefuses, Trying
<1>8. ASSUME NEW c \in Call, ConstraintRefuses(c) PROVE RaceInv'
  <2>1. /\ pc[c] = "sent" /\ pc' = [pc EXCEPT ![c] = "reread"]
        /\ rows' = rows /\ UNCHANGED <<tip, entry, attempts, start>>
        /\ tip[c].next < Len(rows)
    BY <1>6, <1>8 DEF ConstraintRefuses
  <2>2. LostStays /\ \A d \in Call \ {c} : Bystander(d)
    BY <1>0, <2>1 DEF LostStays, Bystander, Lost
  <2>3. \A i \in start[c] + 1..Len(rows) : RivalRow(c, i)'
    <3>1. \A i \in start[c] + 1..Len(rows) : rows[i].by \in Call /\ RivalRow(c, i)
      <4>1. \A i \in start[c] + 1..Len(rows) : i \in DOMAIN rows
        BY <1>0
      <4> QED
        BY <1>0, <2>1, <4>1, RowsByCalls DEF RaceOf, Trying
    <3> QED
      BY <2>1, <2>2, <3>1 DEF RivalRow, LostStays
  <2>4. RaceOf(c)'
    BY <1>0, <2>1, <2>3 DEF RaceOf, Trying
  <2> QED
    BY <2>1, <2>2, <2>4, OneMoves
<1>9. ASSUME NEW c \in Call, Reread(c) PROVE RaceInv'
  BY <1>0, <1>9, RetryRace DEF Reread, Trying, RaceOf
<1>10. ASSUME NEW c \in Call, LoseAnswer(c) PROVE RaceInv'
  BY <1>10, SettleRace DEF LoseAnswer, Asking, Lost
<1>11. ASSUME NEW e \in stray, StrayArrives(e) PROVE RaceInv'
  <2>1. /\ pc' = pc /\ UNCHANGED <<tip, entry, attempts, start>>
        /\ rows' = rows \/ rows' = Append(rows, e)
        /\ e \in Entry /\ pc[e.by] \in Lost
    BY <1>11 DEF StrayArrives, LedgerTypeOK, OnceInv
  <2>2. ASSUME NEW d \in Call PROVE RaceOf(d)'
    BY <1>0, <2>1, RaceOther
  <2> QED
    BY <2>2 DEF RaceInv
<1>12. ASSUME NEW i \in Instance, Crash(i) PROVE RaceInv'
  <2>1. /\ pc' = [c \in Call |-> IF c \in Dying(i) THEN "dead" ELSE pc[c]]
        /\ rows' = rows /\ ForgetLocals(Dying(i)) /\ Dying(i) \subseteq Call
    BY <1>12 DEF Crash, Dying
  <2>2. \A d \in Call \ Dying(i) : Bystander(d)
    BY <2>1 DEF ForgetLocals, Bystander
  <2>3. \A c \in Call \cap Dying(i) : RaceOf(c)'
    BY <2>1 DEF RaceOf, Trying
  <2>4. LostStays
    BY <2>1 DEF LostStays, Lost
  <2> QED
    BY <2>1, <2>2, <2>3, <2>4, Bystanders
<1>13. ASSUME Tick \/ UNCHANGED ledgerVars PROVE RaceInv'
  <2>1. rows' = rows /\ pc' = pc /\ UNCHANGED <<tip, entry, attempts, start>>
    BY <1>13 DEF Tick, ledgerVars
  <2>2. LostStays /\ \A d \in Call \ {} : Bystander(d)
    BY <2>1 DEF LostStays, Bystander
  <2>3. \A c \in Call \cap {} : RaceOf(c)'
    OBVIOUS
  <2> QED
    BY <2>1, <2>2, <2>3, Bystanders
<1> QED
  BY <1>1, <1>2, <1>3, <1>4, <1>5, <1>7, <1>8, <1>9, <1>10, <1>11, <1>12, <1>13
     DEF LedgerNext, AppendStep

\* Whoever gave up has MaxAttempts entries of rivals behind it.
LEMMA RacedHaveRivals ==
  ASSUME LedgerAssumption, LedgerTypeOK, RaceInv
  PROVE  RacedByOthers
<1> SUFFICES ASSUME NEW c \in Call, pc[c] = "raced"
             PROVE  Cardinality(Rivals(c)) >= MaxAttempts
  BY DEF RacedByOthers
<1>1. PICK n \in Nat : /\ start[c] + MaxAttempts <= n /\ n <= Len(rows)
                       /\ \A i \in start[c] + 1..n : RivalRow(c, i)
  BY DEF RaceInv, RaceOf
<1>2. Len(rows) \in Nat /\ start[c] \in Nat /\ MaxAttempts \in Nat
  BY DEF LedgerTypeOK, LedgerAssumption
<1>3. start[c] + 1..n \subseteq Rivals(c)
  BY <1>1, <1>2 DEF Rivals, RivalRow, Lost
<1>4. IsFiniteSet(start[c] + 1..Len(rows)) /\ Rivals(c) \subseteq start[c] + 1..Len(rows)
  <2>1. start[c] + 1 \in Int /\ Len(rows) \in Int
    BY <1>2
  <2> QED
    BY <2>1, FS_Interval DEF Rivals
<1>5. IsFiniteSet(Rivals(c))
  BY <1>4, FS_Subset
<1>6. Cardinality(start[c] + 1..n) <= Cardinality(Rivals(c)) /\ Cardinality(Rivals(c)) \in Nat
  BY <1>3, <1>5, FS_Subset, FS_CardinalityType
<1>7. Cardinality(start[c] + 1..n) = n - start[c]
  <2>1. start[c] + 1 \in Int /\ n \in Int
    BY <1>2
  <2>2. Cardinality(start[c] + 1..n) = IF start[c] + 1 > n THEN 0 ELSE n - (start[c] + 1) + 1
    BY <2>1, FS_Interval
  <2> QED
    BY <1>1, <1>2, <2>2
<1> QED
  BY <1>1, <1>2, <1>6, <1>7

\* What several writers build is one linear chain in the order of its timestamps;
\* an append gives up only when others have overtaken it MAX_APPEND_ATTEMPTS
\* times; and verify() and head() name every tampering with that chain for what
\* it is (ledger.ts), for any number of instances, appends and failures.
THEOREM ChainAlwaysHolds == LedgerSpec => []ChainHolds
<1> DEFINE Inv == LedgerTypeOK /\ ChainInv /\ OnceInv /\ TurnInv /\ RaceInv
<1>1. LedgerInit => Inv
  BY LedgerAssumption, TypesInit, ChainInit, OnceInit, TurnInit, RaceInit
<1>2. Inv /\ [LedgerNext]_ledgerVars => Inv'
  BY LedgerAssumption, TypesNext, ChainNext, OnceNext, TurnNext, RaceNext
<1>3. Inv => ChainHolds
  <2> SUFFICES ASSUME Inv PROVE ChainHolds
    OBVIOUS
  <2>1. ChainLinear
    BY LinearVerifies DEF ChainInv, ChainLinear, LedgerTypeOK
  <2>2. TimestampsMonotone
    BY DEF ChainInv, Linear, TimestampsMonotone
  <2>3. RacedByOthers
    BY LedgerAssumption, RacedHaveRivals
  <2>4. TamperingIsNamed
    BY TamperingShows DEF ChainInv
  <2> QED
    BY <2>1, <2>2, <2>3, <2>4 DEF ChainHolds
<1> HIDE DEF Inv
<1> QED
  BY <1>1, <1>2, <1>3, PTL DEF LedgerSpec
=============================================================================
