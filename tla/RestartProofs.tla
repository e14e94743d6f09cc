---------------------------- MODULE RestartProofs ----------------------------
(***************************************************************************)
(* What processes rebuild when they start, and what the ledger and the     *)
(* stores keep for them: proofs for any number of processes, payments,     *)
(* mandates and calls, any bounds.                                         *)
(*                                                                         *)
(*   - the freeze a process hydrates (FreezeHydrate): a live flip outranks *)
(*     every snapshot, with and without requireHydration; with it, a       *)
(*     freeze on record stops the payments of the restarted process;       *)
(*   - the mandates and their uses (MandateManager): a restart forgets     *)
(*     nothing, and a replay tells the truth.                              *)
(***************************************************************************)
EXTENDS FreezeHydrate, MandateManager, FiniteSetTheorems, WellFoundedInduction, TLAPS

-----------------------------------------------------------------------------
(* The promise queue stays a queue of tasks. *)
LEMMA HandOnType ==
  ASSUME critical \in [Process -> Seq(Task)], NEW g \in Process, NEW t, HandOn(g, t)
  PROVE  critical' \in [Process -> Seq(Task)]
<1>1. critical[g] \in Seq(Task) /\ critical[g] # <<>>
  BY DEF HandOn, InLine
<1>2. Tail(critical[g]) \in Seq(Task)
  BY <1>1
<1>3. QED BY <1>2 DEF HandOn

LEMMA JoinType ==
  ASSUME critical \in [Process -> Seq(Task)], NEW g \in Process, NEW t \in Task, Join(g, t)
  PROVE  critical' \in [Process -> Seq(Task)]
<1>1. Append(critical[g], t) \in Seq(Task)
  OBVIOUS
<1>2. QED BY <1>1 DEF Join

(* A row settles: one less pending, one less waited for. *)
LEMMA SettledType ==
  ASSUME FreezeTypeOK, NEW g \in Process, freezeWrites[g] # <<>>, Settled(g)
  PROVE  /\ freezeWrites' \in [Process -> Seq(Row)] /\ hydrate' \in [Process -> Hydration]
         /\ Head(freezeWrites[g]) \in Row
         /\ WaitsArePending'
<1> DEFINE w == hydrate[g].waits
           n == IF w > 0 THEN w - 1 ELSE 0
<1> USE DEF FreezeTypeOK, FieldsTyped
<1>1. hydrate' = [hydrate EXCEPT ![g] = [@ EXCEPT !.waits = n]]
  BY DEF Settled
<1>2. w \in Nat /\ w <= Len(freezeWrites[g])
  BY DEF WaitsArePending, Hydration
<1>3. n \in Nat
  BY <1>2
<1>4. [hydrate[g] EXCEPT !.waits = n] \in Hydration
  BY ZenonT(40), <1>3 DEF Hydration
<1>5. hydrate' \in [Process -> Hydration]
  BY <1>1, <1>4
<1>6. Tail(freezeWrites[g]) \in Seq(Row) /\ Len(Tail(freezeWrites[g])) = Len(freezeWrites[g]) - 1
  OBVIOUS
<1>7. freezeWrites' \in [Process -> Seq(Row)]
  BY <1>6 DEF Settled
<1>8. hydrate'[g].waits = n /\ Len(freezeWrites'[g]) = Len(freezeWrites[g]) - 1
  BY <1>1, <1>6 DEF Settled, Hydration
<1>9. n <= Len(freezeWrites[g]) - 1
  BY <1>2, <1>6
<1>10. ASSUME NEW h \in Process, h # g
       PROVE  hydrate'[h].waits = hydrate[h].waits /\ freezeWrites'[h] = freezeWrites[h]
  BY <1>1, <1>10 DEF Settled
<1>11. WaitsArePending'
  BY <1>8, <1>9, <1>10 DEF WaitsArePending
<1>12. QED BY <1>5, <1>7, <1>11

(* The hydration of g moves and nothing else changes what it waits for. *)
LEMMA HydrateMoves ==
  ASSUME FreezeTypeOK, NEW g \in Process, NEW h \in Hydration,
         h.waits <= Len(freezeWrites[g]), hydrate' = [hydrate EXCEPT ![g] = h],
         UNCHANGED freezeWrites
  PROVE  hydrate' \in [Process -> Hydration] /\ WaitsArePending'
<1>1. hydrate' \in [Process -> Hydration]
  BY DEF FreezeTypeOK, FieldsTyped
<1>2. QED BY <1>1 DEF FreezeTypeOK, FieldsTyped, WaitsArePending

-----------------------------------------------------------------------------
(* FreezeTypeOK is invariant: every state of the switch and of the         *)
(* hydration is well typed, and a hydration never waits for more rows than *)
(* are pending. *)
LEMMA TypeInit == FreezeInit => FreezeTypeOK
BY FreezeAssumption
DEF FreezeInit, FreezeTypeOK, FieldsTyped, WaitsArePending, Idle, Hydration, Row, Task

LEMMA FlipType ==
  ASSUME FreezeTypeOK, NEW g \in Process, NEW b \in BOOLEAN, Flip(g, b)
  PROVE  FreezeTypeOK'
<1> USE DEF FreezeTypeOK, FieldsTyped
<1>1. [by |-> g, freeze |-> b] \in Row
  BY DEF Row
<1>2. freezeWrites' \in [Process -> Seq(Row)]
  BY <1>1 DEF Flip
<1>3. \A h \in Process : Len(freezeWrites'[h]) >= Len(freezeWrites[h])
  <2>1. Len(Append(freezeWrites[g], [by |-> g, freeze |-> b])) = Len(freezeWrites[g]) + 1
    BY <1>1
  <2>2. QED BY <2>1 DEF Flip
<1>4. WaitsArePending'
  BY <1>2, <1>3 DEF Flip, hydrationVars, WaitsArePending, Hydration
<1>5. latest' \in [Process -> [freeze : BOOLEAN, durable : BOOLEAN, live : BOOLEAN]]
  BY DEF Flip
<1>6. flips' \in [Process -> 0..MaxFlips]
  BY FreezeAssumption DEF Flip
<1>7. frozen' \in [Process -> BOOLEAN] /\ freezeEpoch' \in [Process -> Nat]
  BY DEF Flip
<1>8. QED BY <1>2, <1>4, <1>5, <1>6, <1>7 DEF Flip, hydrationVars

LEMMA RowType ==
  ASSUME FreezeTypeOK, NEW g \in Process, LandRow(g) \/ LoseRow(g)
  PROVE  FreezeTypeOK'
<1> USE DEF FreezeTypeOK, FieldsTyped
<1>1. /\ freezeWrites' \in [Process -> Seq(Row)] /\ hydrate' \in [Process -> Hydration]
      /\ Head(freezeWrites[g]) \in Row
      /\ WaitsArePending'
  BY SettledType DEF LandRow, LoseRow
<1>2. ledger' \in Seq(Row)
  <2>1. Append(ledger, Head(freezeWrites[g])) \in Seq(Row)
    BY <1>1
  <2>2. QED BY <2>1 DEF LandRow, LoseRow
<1>3. latest' \in [Process -> [freeze : BOOLEAN, durable : BOOLEAN, live : BOOLEAN]]
  <2> DEFINE d == latest[g].durable \/ Len(freezeWrites[g]) = 1
  <2>1. Durable(g) <=> latest' = [latest EXCEPT ![g] = [@ EXCEPT !.durable = d]]
    BY DEF Durable
  <2>2. d \in BOOLEAN
    OBVIOUS
  <2> HIDE DEF d
  <2>3. [latest[g] EXCEPT !.durable = d] \in [freeze : BOOLEAN, durable : BOOLEAN, live : BOOLEAN]
    BY <2>2
  <2>4. Durable(g) => latest' \in [Process -> [freeze : BOOLEAN, durable : BOOLEAN, live : BOOLEAN]]
    BY ZenonT(40), <2>1, <2>3
  <2>5. QED BY <2>4 DEF LandRow, LoseRow
<1>4. faults' \in 0..MaxFaults
  BY FreezeAssumption DEF LandRow, LoseRow, Fault
<1>5. CASE LandRow(g)
  BY <1>1, <1>2, <1>3, <1>4, <1>5 DEF LandRow
<1>6. CASE LoseRow(g)
  BY <1>1, <1>2, <1>3, <1>4, <1>6 DEF LoseRow
<1>7. QED BY <1>5, <1>6

LEMMA HydrateType ==
  ASSUME FreezeTypeOK, NEW g \in Process,
         CallHydrate(g) \/ HydrateStep(g) \/ FailHydrate(g)
  PROVE  FreezeTypeOK'
<1> USE DEF FreezeTypeOK, FieldsTyped
<1>1. Idle \in Hydration /\ Idle.waits = 0
  BY DEF Idle, Hydration
<1>2. PICK n \in Hydration :
        n.waits <= Len(freezeWrites[g]) /\ hydrate' = [hydrate EXCEPT ![g] = n]
  <2>0. hydrate[g] \in Hydration /\ hydrate[g].waits <= Len(freezeWrites[g])
        /\ Len(freezeWrites[g]) \in Nat
    BY DEF WaitsArePending
  <2>1. CASE CallHydrate(g)
    <3> DEFINE m == [Idle EXCEPT !.at = "queued", !.epochAtCall = freezeEpoch[g]]
    <3>1. m \in Hydration /\ m.waits = 0
      BY DEF Idle, Hydration
    <3>2. hydrate' = [hydrate EXCEPT ![g] = m]
      BY <2>1 DEF CallHydrate
    <3>3. m.waits <= Len(freezeWrites[g])
      BY <3>1, <2>0
    <3> HIDE DEF m
    <3>4. QED BY <3>1, <3>2, <3>3
  <2>2. CASE BeginRestore(g)
    <3> DEFINE m == [hydrate[g] EXCEPT !.at = "waiting", !.waits = Len(freezeWrites[g])]
    <3>1. m \in Hydration /\ m.waits = Len(freezeWrites[g])
      BY <2>0 DEF Hydration
    <3>2. hydrate' = [hydrate EXCEPT ![g] = m]
      BY <2>2 DEF BeginRestore
    <3>3. m.waits <= Len(freezeWrites[g])
      BY <3>1, <2>0
    <3> HIDE DEF m
    <3>4. QED BY <3>1, <3>2, <3>3
  <2>3. CASE Verify(g)
    <3> DEFINE m == [hydrate[g] EXCEPT !.at = "verified"]
    <3>1. m \in Hydration /\ m.waits = hydrate[g].waits
      BY <2>0 DEF Hydration
    <3>2. hydrate' = [hydrate EXCEPT ![g] = m]
      BY <2>3 DEF Verify
    <3> HIDE DEF m
    <3>3. QED BY <3>1, <3>2, <2>0
  <2>4. CASE ReadRows(g)
    <3> DEFINE b == ledger # <<>> /\ ledger[Len(ledger)].freeze
               m == [hydrate[g] EXCEPT !.at = "read", !.snapshot = b]
    <3>0. b \in BOOLEAN
      BY DEF Row
    <3>1. m \in Hydration /\ m.waits = hydrate[g].waits
      BY <2>0, <3>0 DEF Hydration
    <3>2. hydrate' = [hydrate EXCEPT ![g] = m]
      BY <2>4 DEF ReadRows
    <3> HIDE DEF m
    <3>3. QED BY <3>1, <3>2, <2>0
  <2>5. CASE Apply(g) \/ FailHydrate(g)
    BY <2>5, <2>0, <1>1 DEF Apply, FailHydrate
  <2>6. QED BY <2>1, <2>2, <2>3, <2>4, <2>5 DEF HydrateStep
<1>3. UNCHANGED freezeWrites
  BY DEF CallHydrate, HydrateStep, BeginRestore, Verify, ReadRows, Apply, FailHydrate, flagVars
<1>4. hydrate' \in [Process -> Hydration] /\ WaitsArePending'
  BY <1>2, <1>3, HydrateMoves
<1>5. critical' \in [Process -> Seq(Task)]
  BY HandOnType, JoinType
  DEF CallHydrate, HydrateStep, BeginRestore, Verify, ReadRows, Apply, FailHydrate, Task
<1>6. frozen' \in [Process -> BOOLEAN]
  BY ZenonT(40), <1>2
    DEF CallHydrate, HydrateStep, BeginRestore, Verify, ReadRows, Apply, FailHydrate,
              flagVars, Hydration
<1>7. hydrated' \in [Process -> BOOLEAN] /\ hydrateFailed' \in [Process -> BOOLEAN]
  BY DEF CallHydrate, HydrateStep, BeginRestore, Verify, ReadRows, Apply, FailHydrate
<1>8. faults' \in 0..MaxFaults
  BY FreezeAssumption
  DEF CallHydrate, HydrateStep, BeginRestore, Verify, ReadRows, Apply, FailHydrate, Fault
<1>9. QED
  BY <1>3, <1>4, <1>5, <1>6, <1>7, <1>8
  DEF CallHydrate, HydrateStep, BeginRestore, Verify, ReadRows, Apply, FailHydrate, flagVars

LEMMA CrashType ==
  ASSUME FreezeTypeOK, NEW g \in Process, Crash(g)
  PROVE  FreezeTypeOK'
<1> USE DEF FreezeTypeOK, FieldsTyped
<1>1. ledger' \in Seq(Row)
  <2>1. freezeWrites[g] # <<>> => Head(freezeWrites[g]) \in Row
    OBVIOUS
  <2>2. freezeWrites[g] # <<>> => Append(ledger, Head(freezeWrites[g])) \in Seq(Row)
    BY <2>1
  <2>3. QED BY <2>2 DEF Crash
<1>2. Idle \in Hydration /\ Idle.waits = 0
  BY DEF Idle, Hydration
<1>3. hydrate' \in [Process -> Hydration] /\ freezeWrites' \in [Process -> Seq(Row)]
  BY <1>2 DEF Crash
<1>4. WaitsArePending'
  BY <1>2 DEF Crash, WaitsArePending
<1>5. latest' \in [Process -> [freeze : BOOLEAN, durable : BOOLEAN, live : BOOLEAN]]
  BY DEF Crash
<1>6. faults' \in 0..MaxFaults
  BY FreezeAssumption DEF Crash, Fault
<1>7. critical' \in [Process -> Seq(Task)]
  BY DEF Crash
<1>8. QED BY <1>1, <1>3, <1>4, <1>5, <1>6, <1>7 DEF Crash

LEMMA PaymentType ==
  ASSUME FreezeTypeOK, NEW p \in Payment, Admit(p) \/ Approved(p) \/ PaymentStep(p)
  PROVE  FreezeTypeOK'
<1> USE DEF FreezeTypeOK, FieldsTyped
<1>1. HostOf[p] \in Process /\ p \in Task
  BY FreezeAssumption DEF Task
<1>2. critical' \in [Process -> Seq(Task)]
  BY <1>1, HandOnType, JoinType DEF Admit, Approved, PaymentStep, Check, LeaveRail
<1>3. QED
  BY <1>2 DEF Admit, Approved, PaymentStep, Check, LeaveRail, Goto, WaitsArePending,
              flagVars, hydrationVars

LEMMA TypeNext == FreezeTypeOK /\ [FreezeNext]_freezeVars => FreezeTypeOK'
<1> SUFFICES ASSUME FreezeTypeOK, [FreezeNext]_freezeVars PROVE FreezeTypeOK'
  OBVIOUS
<1>1. CASE UNCHANGED freezeVars
  BY <1>1
  DEF FreezeTypeOK, FieldsTyped, WaitsArePending, freezeVars, flagVars, hydrationVars
<1>2. QED
  BY <1>1, FlipType, RowType, HydrateType, CrashType, PaymentType DEF FreezeNext

THEOREM FreezeTypeCorrect == FreezeSpec => []FreezeTypeOK
BY TypeInit, TypeNext, PTL DEF FreezeSpec

-----------------------------------------------------------------------------
LEMMA DurableKeepsFlip ==
  ASSUME FreezeTypeOK, NEW g \in Process, Durable(g)
  PROVE  \A h \in Process : latest'[h].live = latest[h].live /\ latest'[h].freeze = latest[h].freeze
<1> DEFINE d == latest[g].durable \/ Len(freezeWrites[g]) = 1
<1>1. latest' = [latest EXCEPT ![g] = [@ EXCEPT !.durable = d]]
  BY DEF Durable
<1> HIDE DEF d
<1>2. QED BY <1>1 DEF FreezeTypeOK, FieldsTyped

(* Toward frozen: freeze() sets the flag, and what Apply writes is at least *)
(* as frozen as what it found. *)
LEMMA LiveFreezeNext ==
  ASSUME FreezeTypeOK, LiveFreezeStands, [FreezeNext]_freezeVars
  PROVE  LiveFreezeStands'
<1> USE DEF FreezeTypeOK, FieldsTyped
<1>1. ASSUME NEW g \in Process, NEW b \in BOOLEAN, Flip(g, b) PROVE LiveFreezeStands'
  BY <1>1 DEF Flip, LiveFreezeStands
<1>2. ASSUME NEW g \in Process, LandRow(g) \/ LoseRow(g) PROVE LiveFreezeStands'
  <2>1. \A h \in Process : latest'[h].live = latest[h].live /\ latest'[h].freeze = latest[h].freeze
    BY <1>2, DurableKeepsFlip DEF LandRow, LoseRow
  <2>2. UNCHANGED frozen
    BY <1>2 DEF LandRow, LoseRow
  <2>3. QED BY <2>1, <2>2 DEF LiveFreezeStands
<1>3. ASSUME NEW g \in Process, Apply(g) PROVE LiveFreezeStands'
  BY <1>3 DEF Apply, LiveFreezeStands
<1>4. ASSUME NEW g \in Process, Crash(g) PROVE LiveFreezeStands'
  BY <1>4 DEF Crash, LiveFreezeStands
<1>5. ASSUME UNCHANGED <<frozen, latest>> PROVE LiveFreezeStands'
  BY <1>5 DEF LiveFreezeStands
<1>6. QED
  BY <1>1, <1>2, <1>3, <1>4, <1>5
  DEF FreezeNext, HydrateStep, CallHydrate, BeginRestore, Verify, ReadRows, FailHydrate, Admit,
      Approved, PaymentStep, Check, LeaveRail, freezeVars, flagVars

(* LiveFreezeStands is invariant: a freeze issued on a running instance    *)
(* stays in force until that instance's own unfreeze(), whatever its       *)
(* hydrations read and whichever rows are lost. *)
THEOREM FreezeIsNeverLifted == FreezeSpec => []LiveFreezeStands
<1>1. FreezeInit => LiveFreezeStands
  BY DEF FreezeInit, LiveFreezeStands
<1>2. QED BY <1>1, FreezeTypeCorrect, LiveFreezeNext, PTL DEF FreezeSpec

-----------------------------------------------------------------------------
(* Toward unfrozen.  A hydration with no flip since its call finds every   *)
(* row of its own process settled once it verifies; so if its snapshot     *)
(* says frozen, no lift of its own is on record behind that freeze, and    *)
(* none can land before it is applied. *)
OwnRows ==
  \A g \in Process : \A i \in 1..Len(freezeWrites[g]) : freezeWrites[g][i].by = g

Undisturbed(g) == freezeEpoch[g] = hydrate[g].epochAtCall

News(g) ==
  /\ hydrate[g].at # "idle" => hydrate[g].epochAtCall <= freezeEpoch[g]
  /\ hydrate[g].at \in {"waiting", "verified", "read"} /\ Undisturbed(g)
       => Len(freezeWrites[g]) <= hydrate[g].waits
  /\ hydrate[g].at \in {"verified", "read"} => hydrate[g].waits = 0
  /\ hydrate[g].at = "read" /\ Undisturbed(g) /\ hydrate[g].snapshot => ~Lifted(g)
  /\ latest[g].live /\ ~latest[g].freeze /\ frozen[g] =>
       freezeWrites[g] = <<>> /\ ~Lifted(g)

SwitchInv == OwnRows /\ \A g \in Process : News(g)

(* A row of another process does not put a lift of g on record. *)
LEMMA OthersDoNotLift ==
  ASSUME ledger \in Seq(Row), NEW r \in Row, NEW g, r.by # g,
         ledger' = ledger \/ ledger' = Append(ledger, r), ~Lifted(g)
  PROVE  ~Lifted(g)'
<1>1. CASE ledger' = ledger
  BY <1>1 DEF Lifted
<1>2. CASE ledger' = Append(ledger, r)
  <2>1. PICK i \in 1..Len(ledger) :
          ledger[i].freeze /\ \A j \in i..Len(ledger) : ~ (ledger[j].by = g /\ ~ledger[j].freeze)
    BY DEF Lifted
  <2>2. /\ Len(ledger') = Len(ledger) + 1 /\ Len(ledger) \in Nat
        /\ ledger'[Len(ledger) + 1] = r
        /\ \A j \in 1..Len(ledger) : ledger'[j] = ledger[j]
    BY <1>2
  <2>3. i \in 1..Len(ledger') /\ ledger'[i].freeze
    BY <2>1, <2>2
  <2>4. ASSUME NEW j \in i..Len(ledger') PROVE ~ (ledger'[j].by = g /\ ~ledger'[j].freeze)
    <3>1. CASE j = Len(ledger) + 1
      BY <3>1, <2>2
    <3>2. CASE j # Len(ledger) + 1
      <4>1. j \in i..Len(ledger) /\ j \in 1..Len(ledger)
        BY <3>2, <2>2
      <4>2. QED BY <4>1, <2>1, <2>2
    <3>3. QED BY <3>1, <3>2
  <2>5. QED BY <2>3, <2>4 DEF Lifted
<1>3. QED BY <1>1, <1>2

(* What News(h) speaks of, when a step of another process leaves it alone. *)
LEMMA OthersDoNotDisturb ==
  ASSUME FreezeTypeOK, NEW h \in Process, News(h), NEW r \in Row, r.by # h,
         ledger' = ledger \/ ledger' = Append(ledger, r),
         hydrate'[h] = hydrate[h], freezeEpoch'[h] = freezeEpoch[h],
         freezeWrites'[h] = freezeWrites[h], frozen'[h] = frozen[h],
         latest'[h].live = latest[h].live, latest'[h].freeze = latest[h].freeze
  PROVE  News(h)'
<1>1. ~Lifted(h) => ~Lifted(h)'
  BY OthersDoNotLift DEF FreezeTypeOK, FieldsTyped
<1>2. QED BY <1>1 DEF News, Undisturbed

LEMMA SwitchInit == FreezeInit => SwitchInv
BY DEF FreezeInit, SwitchInv, OwnRows, News, Idle, Undisturbed

LEMMA OwnRowsNext ==
  ASSUME FreezeTypeOK, OwnRows, [FreezeNext]_freezeVars
  PROVE  OwnRows'
<1> USE DEF FreezeTypeOK, FieldsTyped
<1>1. ASSUME NEW g \in Process, NEW b \in BOOLEAN, Flip(g, b) PROVE OwnRows'
  <2>1. [by |-> g, freeze |-> b] \in Row
    BY DEF Row
  <2>2. \A i \in 1..Len(Append(freezeWrites[g], [by |-> g, freeze |-> b])) :
          Append(freezeWrites[g], [by |-> g, freeze |-> b])[i].by = g
    BY <2>1 DEF OwnRows
  <2>3. QED BY <2>2, <1>1 DEF Flip, OwnRows
<1>2. ASSUME NEW g \in Process, freezeWrites[g] # <<>>, Settled(g) PROVE OwnRows'
  <2>1. \A i \in 1..Len(Tail(freezeWrites[g])) : Tail(freezeWrites[g])[i].by = g
    BY <1>2 DEF OwnRows
  <2>2. QED BY <2>1, <1>2 DEF Settled, OwnRows
<1>3. ASSUME NEW g \in Process, Crash(g) PROVE OwnRows'
  BY <1>3 DEF Crash, OwnRows
<1>4. ASSUME UNCHANGED freezeWrites PROVE OwnRows'
  BY <1>4 DEF OwnRows
<1>5. QED
  BY <1>1, <1>2, <1>3, <1>4
  DEF FreezeNext, HydrateStep, CallHydrate, BeginRestore, Verify, ReadRows, FailHydrate, Apply,
      Admit, Approved, PaymentStep, Check, LeaveRail, LandRow, LoseRow, freezeVars, flagVars

LEMMA FlipNews ==
  ASSUME FreezeTypeOK, SwitchInv, NEW g \in Process, NEW b \in BOOLEAN, Flip(g, b),
         NEW h \in Process
  PROVE  News(h)'
<1> USE DEF FreezeTypeOK, FieldsTyped
<1>1. CASE h = g
  <2>1. freezeEpoch'[g] = freezeEpoch[g] + 1 /\ frozen'[g] = b /\ latest'[g].freeze = b
        /\ hydrate'[g] = hydrate[g]
    BY <1>1 DEF Flip, hydrationVars
  <2>2. freezeEpoch[g] \in Nat /\ hydrate[g].epochAtCall \in Nat
    BY DEF Hydration
  <2>3. News(g)
    BY DEF SwitchInv
  <2>4. hydrate[g].at # "idle" => hydrate[g].epochAtCall <= freezeEpoch[g]
    BY <2>3 DEF News
  <2>5. hydrate[g].at # "idle" =>
          hydrate[g].epochAtCall <= freezeEpoch'[g] /\ ~Undisturbed(g)'
    BY <2>1, <2>2, <2>4 DEF Undisturbed
  <2>6. hydrate[g].at \in {"verified", "read"} => hydrate[g].waits = 0
    BY <2>3 DEF News
  <2>7. ~ (~latest'[g].freeze /\ frozen'[g])
    BY <2>1
  <2>8. QED BY <1>1, <2>1, <2>5, <2>6, <2>7 DEF News
<1>2. CASE h # g
  <2>1. [by |-> g, freeze |-> b] \in Row /\ [by |-> g, freeze |-> b].by # h
    BY <1>2 DEF Row
  <2>2. QED BY <1>2, <2>1, OthersDoNotDisturb DEF Flip, hydrationVars, SwitchInv
<1>3. QED BY <1>1, <1>2

LEMMA RowNews ==
  ASSUME FreezeTypeOK, SwitchInv, NEW g \in Process, LandRow(g) \/ LoseRow(g),
         NEW h \in Process
  PROVE  News(h)'
<1> DEFINE r == Head(freezeWrites[g])
           w == hydrate[g].waits
           n == IF w > 0 THEN w - 1 ELSE 0
<1> USE DEF FreezeTypeOK, FieldsTyped
<1>1. freezeWrites[g] # <<>> /\ Settled(g) /\ UNCHANGED <<freezeEpoch, frozen>>
  BY DEF LandRow, LoseRow
<1>2. r \in Row /\ r.by = g
  BY <1>1 DEF SwitchInv, OwnRows
<1>3. ledger' = ledger \/ ledger' = Append(ledger, r)
  BY DEF LandRow, LoseRow
<1>4. latest'[h].live = latest[h].live /\ latest'[h].freeze = latest[h].freeze
  BY DurableKeepsFlip DEF LandRow, LoseRow
<1>5. hydrate' = [hydrate EXCEPT ![g] = [@ EXCEPT !.waits = n]]
  BY <1>1 DEF Settled
<1>6. CASE h = g
  <2>1. /\ hydrate'[g].at = hydrate[g].at /\ hydrate'[g].epochAtCall = hydrate[g].epochAtCall
        /\ hydrate'[g].snapshot = hydrate[g].snapshot /\ hydrate'[g].waits = n
    BY <1>5 DEF Hydration
  <2>2. Len(freezeWrites'[g]) = Len(freezeWrites[g]) - 1 /\ Len(freezeWrites[g]) \in Nat \ {0}
    BY <1>1 DEF Settled
  <2>3. w \in Nat
    BY DEF Hydration
  <2>4. hydrate[g].at \in {"waiting", "verified", "read"} /\ Undisturbed(g)
          => Len(freezeWrites[g]) <= w /\ w > 0
    BY <2>2, <2>3 DEF SwitchInv, News
  <2>5. ~ (hydrate[g].at = "read" /\ Undisturbed(g))
    BY <2>3, <2>4 DEF SwitchInv, News
  <2>6. ~ (latest[g].live /\ ~latest[g].freeze /\ frozen[g])
    BY <1>1 DEF SwitchInv, News
  <2>7. Undisturbed(g)' <=> Undisturbed(g)
    BY <2>1, <1>1 DEF Undisturbed
  <2>8. hydrate[g].at \in {"waiting", "verified", "read"} /\ Undisturbed(g)
          => Len(freezeWrites'[g]) <= n
    BY <2>2, <2>3, <2>4
  <2>9. hydrate[g].at \in {"verified", "read"} => n = 0
    BY <2>3 DEF SwitchInv, News
  <2>10. hydrate[g].at # "idle" => hydrate[g].epochAtCall <= freezeEpoch[g]
    BY DEF SwitchInv, News
  <2>11. QED
    BY <1>1, <1>4, <1>6, <2>1, <2>5, <2>6, <2>7, <2>8, <2>9, <2>10 DEF News
<1>7. CASE h # g
  <2>1. hydrate'[h] = hydrate[h] /\ freezeWrites'[h] = freezeWrites[h]
    BY <1>1, <1>5, <1>7 DEF Settled
  <2>2. QED
    BY <1>1, <1>2, <1>3, <1>4, <1>7, <2>1, OthersDoNotDisturb DEF SwitchInv
<1>8. QED BY <1>6, <1>7

LEMMA HydrateNews ==
  ASSUME FreezeTypeOK, SwitchInv, NEW g \in Process,
         CallHydrate(g) \/ HydrateStep(g) \/ FailHydrate(g),
         NEW h \in Process
  PROVE  News(h)'
<1> USE DEF FreezeTypeOK, FieldsTyped
<1>1. UNCHANGED <<ledger, freezeEpoch, freezeWrites, latest>>
  BY DEF CallHydrate, HydrateStep, BeginRestore, Verify, ReadRows, Apply, FailHydrate, flagVars
<1>2. CASE h # g
  <2>1. hydrate'[h] = hydrate[h] /\ frozen'[h] = frozen[h]
    BY <1>2
    DEF CallHydrate, HydrateStep, BeginRestore, Verify, ReadRows, Apply, FailHydrate, flagVars
  <2>2. Lifted(h)' <=> Lifted(h)
    BY <1>1 DEF Lifted
  <2>3. QED BY <1>1, <2>1, <2>2 DEF SwitchInv, News, Undisturbed
<1>3. Lifted(g)' <=> Lifted(g)
  BY <1>1 DEF Lifted
<1>4. News(g) /\ hydrate[g] \in Hydration /\ freezeEpoch[g] \in Nat
      /\ Len(freezeWrites[g]) \in Nat
  BY DEF SwitchInv
<1>5. CASE CallHydrate(g)
  <2>1. hydrate'[g].at = "queued" /\ hydrate'[g].epochAtCall = freezeEpoch[g]
    BY <1>5 DEF CallHydrate, Idle
  <2>2. UNCHANGED frozen
    BY <1>5 DEF CallHydrate, flagVars
  <2>3. News(g)'
    BY <1>1, <1>3, <1>4, <2>1, <2>2 DEF News
  <2>4. QED BY <1>2, <2>3
<1>6. CASE BeginRestore(g)
  <2>1. /\ hydrate'[g].at = "waiting" /\ hydrate'[g].epochAtCall = hydrate[g].epochAtCall
        /\ hydrate'[g].waits = Len(freezeWrites[g]) /\ hydrate[g].at # "idle"
    BY <1>6 DEF BeginRestore, Hydration
  <2>2. UNCHANGED frozen
    BY <1>6 DEF BeginRestore, flagVars
  <2>3. News(g)'
    BY <1>1, <1>3, <1>4, <2>1, <2>2 DEF News
  <2>4. QED BY <1>2, <2>3
<1>7. CASE Verify(g)
  <2>1. /\ hydrate'[g].at = "verified" /\ hydrate'[g].epochAtCall = hydrate[g].epochAtCall
        /\ hydrate'[g].waits = hydrate[g].waits /\ hydrate[g].at = "waiting"
        /\ hydrate[g].waits = 0
    BY <1>7 DEF Verify, Hydration
  <2>2. UNCHANGED frozen
    BY <1>7 DEF Verify, flagVars
  <2>3. News(g)'
    BY <1>1, <1>3, <1>4, <2>1, <2>2 DEF News, Undisturbed
  <2>4. QED BY <1>2, <2>3
<1>8. CASE ReadRows(g)
  <2> DEFINE b == ledger # <<>> /\ ledger[Len(ledger)].freeze
  <2>1. /\ hydrate'[g].at = "read" /\ hydrate'[g].epochAtCall = hydrate[g].epochAtCall
        /\ hydrate'[g].waits = hydrate[g].waits /\ hydrate[g].at = "verified"
        /\ hydrate'[g].snapshot = b
    BY <1>8 DEF ReadRows, Hydration
  <2>2. UNCHANGED frozen
    BY <1>8 DEF ReadRows, flagVars
  <2>3. ASSUME b PROVE ~Lifted(g)
    <3>1. Len(ledger) \in Nat \ {0} /\ ledger[Len(ledger)].freeze
      BY <2>3
    <3>2. \A j \in Len(ledger)..Len(ledger) : j = Len(ledger)
      BY <3>1
    <3>3. QED BY <3>1, <3>2 DEF Lifted
  <2> HIDE DEF b
  <2>4. News(g)'
    BY <1>1, <1>3, <1>4, <2>1, <2>2, <2>3 DEF News, Undisturbed
  <2>5. QED BY <1>2, <2>4
<1>9. CASE FailHydrate(g)
  <2>1. hydrate'[g].at = "idle"
    <3>1. Idle.at = "idle"
      BY DEF Idle
    <3>2. QED BY <3>1, <1>9 DEF FailHydrate
  <2>2. UNCHANGED frozen
    BY <1>9 DEF FailHydrate, flagVars
  <2>3. News(g)'
    BY <1>1, <1>3, <1>4, <2>1, <2>2 DEF News
  <2>4. QED BY <1>2, <2>3
<1>10. CASE Apply(g)
  <2>1. hydrate'[g].at = "idle" /\ hydrate[g].at = "read"
    <3>1. Idle.at = "idle"
      BY DEF Idle
    <3>2. QED BY <3>1, <1>10 DEF Apply
  <2>2. frozen'[g] =
          IF Undisturbed(g) THEN hydrate[g].snapshot \/ frozen[g] ELSE frozen[g]
    BY <1>10 DEF Apply, Undisturbed
  <2>3. Undisturbed(g) => Len(freezeWrites[g]) = 0
    BY <1>4, <2>1 DEF News
  <2>4. Undisturbed(g) => freezeWrites[g] = <<>>
    BY <2>3
  <2>5. frozen'[g] /\ ~frozen[g] => freezeWrites[g] = <<>> /\ ~Lifted(g)
    BY <1>4, <2>1, <2>2, <2>4 DEF News
  <2>6. News(g)'
    BY <1>1, <1>3, <1>4, <2>1, <2>5 DEF News
  <2>7. QED BY <1>2, <2>6
<1>11. QED BY <1>5, <1>6, <1>7, <1>8, <1>9, <1>10 DEF HydrateStep

LEMMA CrashNews ==
  ASSUME FreezeTypeOK, SwitchInv, NEW g \in Process, Crash(g), NEW h \in Process
  PROVE  News(h)'
<1> USE DEF FreezeTypeOK, FieldsTyped
<1>1. CASE h = g
  BY <1>1 DEF Crash, News, Idle
<1>2. CASE h # g
  <2>1. /\ hydrate'[h] = hydrate[h] /\ freezeEpoch'[h] = freezeEpoch[h]
        /\ freezeWrites'[h] = freezeWrites[h] /\ frozen'[h] = frozen[h]
        /\ latest'[h] = latest[h]
    BY <1>2 DEF Crash
  <2>2. \E r \in Row : r.by # h /\ (ledger' = ledger \/ ledger' = Append(ledger, r))
    <3>1. CASE freezeWrites[g] = <<>>
      <4>1. [by |-> g, freeze |-> TRUE] \in Row
        BY DEF Row
      <4>2. QED BY <3>1, <4>1, <1>2 DEF Crash
    <3>2. CASE freezeWrites[g] # <<>>
      <4>1. Head(freezeWrites[g]) \in Row /\ Head(freezeWrites[g]).by = g
        BY <3>2 DEF SwitchInv, OwnRows
      <4>2. QED BY <4>1, <1>2 DEF Crash
    <3>3. QED BY <3>1, <3>2
  <2>3. QED BY <2>1, <2>2, OthersDoNotDisturb DEF SwitchInv
<1>3. QED BY <1>1, <1>2

LEMMA QuietNews ==
  ASSUME SwitchInv, NEW h \in Process,
         UNCHANGED <<ledger, frozen, freezeEpoch, freezeWrites, latest, hydrate>>
  PROVE  News(h)'
<1>1. Lifted(h)' <=> Lifted(h)
  BY DEF Lifted
<1>2. QED BY <1>1 DEF SwitchInv, News, Undisturbed

LEMMA SwitchNext ==
  ASSUME FreezeTypeOK, SwitchInv, [FreezeNext]_freezeVars
  PROVE  SwitchInv'
<1>1. ASSUME NEW h \in Process PROVE News(h)'
  <2>1. CASE \E g \in Process : \E b \in BOOLEAN : Flip(g, b)
    BY <2>1, FlipNews
  <2>2. CASE \E g \in Process : LandRow(g) \/ LoseRow(g)
    BY <2>2, RowNews
  <2>3. CASE \E g \in Process : CallHydrate(g) \/ HydrateStep(g) \/ FailHydrate(g)
    BY <2>3, HydrateNews
  <2>4. CASE \E g \in Process : Crash(g)
    BY <2>4, CrashNews
  <2>5. CASE \E p \in Payment : Admit(p) \/ Approved(p) \/ PaymentStep(p)
    BY <2>5, QuietNews
    DEF Admit, Approved, PaymentStep, Check, LeaveRail, flagVars, hydrationVars
  <2>6. CASE UNCHANGED freezeVars
    BY <2>6, QuietNews DEF freezeVars, flagVars, hydrationVars
  <2>7. QED BY <2>1, <2>2, <2>3, <2>4, <2>5, <2>6 DEF FreezeNext
<1>2. OwnRows'
  BY OwnRowsNext DEF SwitchInv
<1>3. QED BY <1>1, <1>2 DEF SwitchInv

(* NoResurrection is invariant: once an unfreeze() of a running instance   *)
(* is on record behind the freezes, no hydration of that instance brings   *)
(* the freeze back. *)
THEOREM LiftIsNeverUndone == FreezeSpec => []NoResurrection
<1>1. SwitchInv => NoResurrection
  BY DEF SwitchInv, News, NoResurrection
<1>2. QED BY <1>1, SwitchInit, SwitchNext, FreezeTypeCorrect, PTL DEF FreezeSpec

(* The flag of a running instance follows its operator's latest word, in   *)
(* both directions, whatever its hydrations read (FreezesHold). *)
THEOREM FlagFollowsOperator == FreezeSpec => []FreezesHold
<1>1. LiveFreezeStands /\ NoResurrection => FreezesHold
  BY DEF FreezesHold
<1>2. QED BY <1>1, FreezeIsNeverLifted, LiftIsNeverUndone, PTL

-----------------------------------------------------------------------------
(* A restarted process honours the freeze on record: what the operator's word  *)
(* leaves on the ledger, what a hydration makes of it, and who may pass.       *)

(* A payment that was admitted was admitted by a hydrated process. *)
AdmittedHydrated ==
  \A p \in Payment :
    pc[p] \in {"approval", "queued", "deciding", "rail"} => hydrated[HostOf[p]]

(* The last row on its way is the operator's latest word, and a word that is *)
(* on record is the last row there, until the operator speaks again.         *)
WordOnRecord(g) ==
  /\ freezeWrites[g] # <<>> =>
       latest[g].live /\ freezeWrites[g][Len(freezeWrites[g])].freeze = latest[g].freeze
  /\ latest[g].durable => freezeWrites[g] = <<>>
  /\ latest[g].durable /\ latest[g].freeze => ledger # <<>> /\ ledger[Len(ledger)].freeze

(* A restarted process that has heard no word since is at its first epoch, *)
(* and what it restores is the word on record.                             *)
WordRestored(g) ==
  ~latest[g].live =>
    /\ freezeEpoch[g] = 0
    /\ hydrate[g].at # "idle" => hydrate[g].epochAtCall = 0
    /\ latest[g].durable /\ latest[g].freeze =>
         /\ hydrate[g].at = "read" => hydrate[g].snapshot
         /\ hydrated[g] => frozen[g]

RecordInv ==
  /\ FreezeTypeOK /\ LiveFreezeStands /\ AdmittedHydrated
  /\ \A g \in Process : WordOnRecord(g) /\ WordRestored(g)

LEMMA RecordInit == FreezeInit => RecordInv
<1>1. FreezeInit => FreezeTypeOK
  BY TypeInit
<1>2. FreezeInit => LiveFreezeStands /\ AdmittedHydrated
  BY DEF FreezeInit, LiveFreezeStands, AdmittedHydrated
<1>3. FreezeInit => \A g \in Process : WordOnRecord(g) /\ WordRestored(g)
  BY DEF FreezeInit, WordOnRecord, WordRestored, Idle
<1> QED
  BY <1>1, <1>2, <1>3 DEF RecordInv

LEMMA LastOfAppend ==
  ASSUME NEW s \in Seq(Row), NEW r \in Row
  PROVE  Append(s, r) # <<>> /\ Append(s, r)[Len(Append(s, r))] = r
<1>1. Len(Append(s, r)) = Len(s) + 1 /\ Len(s) \in Nat /\ Append(s, r)[Len(s) + 1] = r
  OBVIOUS
<1>2. Append(s, r) # <<>>
  BY <1>1
<1> QED
  BY <1>1, <1>2

LEMMA OneRowLeft ==
  ASSUME NEW s \in Seq(Row), Len(s) = 1
  PROVE  Head(s) = s[Len(s)] /\ Tail(s) = <<>>
<1>1. CASE s = <<>>
  <2>1. Len(<<>>) = 0
    OBVIOUS
  <2> QED
    BY <1>1, <2>1
<1>2. CASE s # <<>>
  <2>1. Tail(s) \in Seq(Row) /\ Len(Tail(s)) = 0 /\ Head(s) = s[1]
    BY <1>2
  <2>2. \A u \in Seq(Row) : Len(u) = 0 => u = <<>>
    OBVIOUS
  <2> QED
    BY <2>1, <2>2
<1> QED
  BY <1>1, <1>2

LEMMA FlipRecorded ==
  ASSUME RecordInv, NEW g \in Process, NEW b \in BOOLEAN, Flip(g, b), \A h \in Process : h = g
  PROVE  WordOnRecord(g)' /\ WordRestored(g)' /\ AdmittedHydrated'
<1> USE DEF RecordInv, FreezeTypeOK, FieldsTyped
<1>1. [by |-> g, freeze |-> b] \in Row
  BY DEF Row
<1>2. PICK r \in Row : r = [by |-> g, freeze |-> b]
  BY <1>1
<1>3. freezeWrites'[g] = Append(freezeWrites[g], r)
  BY <1>2 DEF Flip
<1>4. freezeWrites[g] \in Seq(Row)
  OBVIOUS
<1>5. /\ freezeWrites'[g] # <<>>
      /\ freezeWrites'[g][Len(freezeWrites'[g])] = r
  BY <1>3, <1>4, LastOfAppend
<1>6. latest'[g] = [freeze |-> b, durable |-> FALSE, live |-> TRUE]
  BY DEF Flip
<1>7. r.freeze = b
  BY <1>2
<1>8. WordOnRecord(g)' /\ WordRestored(g)'
  BY <1>5, <1>6, <1>7 DEF WordOnRecord, WordRestored
<1>9. AdmittedHydrated'
  BY DEF Flip, AdmittedHydrated, hydrationVars
<1> QED
  BY <1>8, <1>9

LEMMA RowRecorded ==
  ASSUME RecordInv, NEW g \in Process, LandRow(g) \/ LoseRow(g)
  PROVE  WordOnRecord(g)' /\ WordRestored(g)' /\ AdmittedHydrated'
<1> USE DEF RecordInv, FreezeTypeOK, FieldsTyped
<1>1. freezeWrites[g] # <<>> /\ Settled(g) /\ UNCHANGED <<freezeEpoch, frozen, hydrated, pc>>
      /\ freezeWrites[g] \in Seq(Row) /\ ledger \in Seq(Row)
  BY DEF LandRow, LoseRow
<1>2. latest[g].live /\ ~latest[g].durable
      /\ freezeWrites[g][Len(freezeWrites[g])].freeze = latest[g].freeze
  BY <1>1 DEF WordOnRecord
<1>3. latest'[g].live = latest[g].live /\ latest'[g].freeze = latest[g].freeze
  <2>1. CASE LandRow(g)
    BY <2>1, DurableKeepsFlip DEF LandRow
  <2>2. CASE LoseRow(g)
    BY <2>2 DEF LoseRow
  <2> QED
    BY <2>1, <2>2
<1>4. /\ freezeWrites'[g] = Tail(freezeWrites[g])
      /\ Len(freezeWrites'[g]) = Len(freezeWrites[g]) - 1
      /\ freezeWrites'[g] # <<>> =>
           freezeWrites'[g][Len(freezeWrites'[g])] = freezeWrites[g][Len(freezeWrites[g])]
  <2>1. freezeWrites'[g] = Tail(freezeWrites[g])
    BY <1>1 DEF Settled
  <2>2. ASSUME NEW s \in Seq(Row), s # <<>>
        PROVE  /\ Len(Tail(s)) = Len(s) - 1
               /\ Tail(s) # <<>> => Tail(s)[Len(Tail(s))] = s[Len(s)]
    BY <2>2
  <2> QED
    BY <1>1, <2>1, <2>2
<1>5. latest'[g].durable =>
        /\ freezeWrites'[g] = <<>>
        /\ latest[g].freeze => ledger' # <<>> /\ ledger'[Len(ledger')].freeze
  <2>1. CASE LandRow(g)
    <3>1. latest'[g].durable => Len(freezeWrites[g]) = 1
      <4> DEFINE d == latest[g].durable \/ Len(freezeWrites[g]) = 1
      <4>1. latest' = [latest EXCEPT ![g] = [latest[g] EXCEPT !.durable = d]]
        BY <2>1 DEF LandRow, Durable
      <4>2. latest'[g].durable = d
        <5> HIDE DEF d
        <5> QED BY <4>1
      <4> QED
        BY <1>2, <4>2, Zenon
    <3>2. Head(freezeWrites[g]) \in Row /\ ledger' = Append(ledger, Head(freezeWrites[g]))
      BY <1>1, <2>1 DEF LandRow
    <3>3. ledger' # <<>> /\ ledger'[Len(ledger')] = Head(freezeWrites[g])
      BY <1>1, <3>2, LastOfAppend
    <3>4. Len(freezeWrites[g]) = 1 =>
            /\ Head(freezeWrites[g]) = freezeWrites[g][Len(freezeWrites[g])]
            /\ Tail(freezeWrites[g]) = <<>>
      <4>1. \A s \in Seq(Row) : Len(s) = 1 => Head(s) = s[Len(s)] /\ Tail(s) = <<>>
        BY OneRowLeft
      <4> QED
        BY <1>1, <4>1
    <3> QED
      BY <1>2, <1>4, <3>1, <3>3, <3>4
  <2>2. CASE LoseRow(g)
    BY <1>2, <2>2 DEF LoseRow
  <2> QED
    BY <2>1, <2>2
<1>6. WordOnRecord(g)'
  BY <1>2, <1>3, <1>4, <1>5 DEF WordOnRecord
<1>7. WordRestored(g)'
  BY <1>2, <1>3 DEF WordRestored
<1>8. AdmittedHydrated'
  BY <1>1 DEF AdmittedHydrated
<1> QED
  BY <1>6, <1>7, <1>8

LEMMA HydrateRecorded ==
  ASSUME RecordInv, NEW g \in Process, CallHydrate(g) \/ HydrateStep(g) \/ FailHydrate(g),
         \A h \in Process : h = g
  PROVE  WordOnRecord(g)' /\ WordRestored(g)' /\ AdmittedHydrated'
<1> USE DEF RecordInv, FreezeTypeOK, FieldsTyped
<1>1. UNCHANGED <<ledger, freezeWrites, latest, freezeEpoch, pc>>
  BY DEF CallHydrate, HydrateStep, FailHydrate, BeginRestore, Verify, ReadRows, Apply, flagVars
<1>2. WordOnRecord(g)'
  BY <1>1 DEF WordOnRecord
<1>3. AdmittedHydrated'
  <2>1. \A h \in Process : hydrated[h] => hydrated'[h]
    BY DEF CallHydrate, HydrateStep, FailHydrate, BeginRestore, Verify, ReadRows, Apply
  <2>2. \A p \in Payment : HostOf[p] \in Process
    BY FreezeAssumption
  <2> QED
    BY <1>1, <2>1, <2>2 DEF AdmittedHydrated
<1>4. ASSUME ~latest[g].live
      PROVE  /\ hydrate'[g].at # "idle" => hydrate'[g].epochAtCall = 0
             /\ latest[g].durable /\ latest[g].freeze =>
                  /\ hydrate'[g].at = "read" => hydrate'[g].snapshot
                  /\ hydrated'[g] => frozen'[g]
  <2>1. /\ freezeEpoch[g] = 0
        /\ hydrate[g].at # "idle" => hydrate[g].epochAtCall = 0
        /\ latest[g].durable /\ latest[g].freeze =>
             /\ ledger # <<>> /\ ledger[Len(ledger)].freeze
             /\ hydrate[g].at = "read" => hydrate[g].snapshot
             /\ hydrated[g] => frozen[g]
    BY <1>4 DEF WordOnRecord, WordRestored
  <2>2. hydrate[g] \in Hydration
    OBVIOUS
  <2>3. CASE CallHydrate(g)
    BY <2>1, <2>2, <2>3 DEF CallHydrate, Idle, flagVars
  <2>4. CASE BeginRestore(g)
    <3>1. hydrate' = [hydrate EXCEPT ![g] = [hydrate[g] EXCEPT !.at = "waiting",
                                                      !.waits = Len(freezeWrites[g])]]
      BY <2>4 DEF BeginRestore
    <3> QED
      BY <2>1, <2>2, <2>4, <3>1 DEF BeginRestore, Hydration, flagVars
  <2>5. CASE Verify(g)
    <3>1. hydrate' = [hydrate EXCEPT ![g] = [hydrate[g] EXCEPT !.at = "verified"]]
      BY <2>5 DEF Verify
    <3> QED
      BY <2>1, <2>2, <2>5, <3>1 DEF Verify, Hydration, flagVars
  <2>6. CASE ReadRows(g)
    <3>1. PICK seen \in BOOLEAN : seen = (ledger # <<>> /\ ledger[Len(ledger)].freeze)
      OBVIOUS
    <3>2. hydrate' = [hydrate EXCEPT ![g] = [hydrate[g] EXCEPT !.at = "read", !.snapshot = seen]]
      BY <2>6, <3>1 DEF ReadRows
    <3>3. hydrate'[g].snapshot = seen
      BY <2>2, <3>2, Zenon DEF Hydration
    <3>4. hydrate'[g].epochAtCall = hydrate[g].epochAtCall /\ hydrate[g].at # "idle"
      BY <2>2, <2>6, <3>2 DEF ReadRows, Hydration
    <3> QED
      BY <2>1, <2>6, <3>1, <3>3, <3>4 DEF ReadRows, flagVars
  <2>7. CASE Apply(g)
    BY <2>1, <2>2, <2>7 DEF Apply, Idle
  <2>8. CASE FailHydrate(g)
    BY <2>1, <2>2, <2>8 DEF FailHydrate, Idle, flagVars
  <2> QED
    BY <2>3, <2>4, <2>5, <2>6, <2>7, <2>8 DEF HydrateStep
<1>5. WordRestored(g)'
  BY <1>1, <1>4 DEF WordRestored
<1> QED
  BY <1>2, <1>3, <1>5

LEMMA CrashRecorded ==
  ASSUME RecordInv, NEW g \in Process, Crash(g), \A h \in Process : h = g
  PROVE  WordOnRecord(g)' /\ WordRestored(g)' /\ AdmittedHydrated'
<1> USE DEF RecordInv, FreezeTypeOK, FieldsTyped
<1>1. latest' = [latest EXCEPT ![g] = [latest[g] EXCEPT !.live = FALSE]]
  BY DEF Crash
<1>2. /\ latest'[g].live = FALSE /\ latest'[g].durable = latest[g].durable
      /\ latest'[g].freeze = latest[g].freeze
  BY <1>1
<1>3. latest[g].durable => ledger' = ledger
  BY DEF Crash, WordOnRecord
<1>4. freezeWrites'[g] = <<>> /\ freezeEpoch'[g] = 0 /\ hydrate'[g] = Idle /\ ~hydrated'[g]
  BY DEF Crash
<1>5. WordOnRecord(g)'
  BY <1>2, <1>3, <1>4 DEF WordOnRecord
<1>6. WordRestored(g)'
  BY <1>2, <1>4 DEF WordRestored, Idle
<1>7. AdmittedHydrated'
  BY FreezeAssumption DEF Crash, AdmittedHydrated
<1> QED
  BY <1>5, <1>6, <1>7

LEMMA PaymentRecorded ==
  ASSUME RecordInv, RequireHydration, NEW p \in Payment, Admit(p) \/ Approved(p) \/ PaymentStep(p),
         NEW g \in Process
  PROVE  WordOnRecord(g)' /\ WordRestored(g)' /\ AdmittedHydrated'
<1> USE DEF RecordInv, FreezeTypeOK, FieldsTyped
<1>1. UNCHANGED <<ledger, flagVars, hydrationVars>>
  BY DEF Admit, Approved, PaymentStep, Check, LeaveRail
<1>2. WordOnRecord(g)' /\ WordRestored(g)'
  BY <1>1 DEF flagVars, hydrationVars, WordOnRecord, WordRestored
<1>3. HostOf[p] \in Process
  BY FreezeAssumption
<1>4. AdmittedHydrated'
  <2>1. CASE Admit(p)
    <3>1. pc'[p] \in {"approval", "queued", "deciding", "rail"} => hydrated[HostOf[p]]
      BY <2>1 DEF Admit, Goto, GateOpen
    <3>2. \A q \in Payment : q # p => pc'[q] = pc[q]
      BY <2>1 DEF Admit, Goto
    <3> QED
      BY <1>1, <3>1, <3>2 DEF AdmittedHydrated, hydrationVars
  <2>2. CASE Approved(p) \/ PaymentStep(p)
    BY <1>1, <2>2 DEF Approved, PaymentStep, Check, LeaveRail, Goto, AdmittedHydrated, hydrationVars
  <2> QED
    BY <2>1, <2>2
<1> QED
  BY <1>2, <1>4

LEMMA RecordNext ==
  ASSUME RequireHydration, \A g, h \in Process : g = h, RecordInv, [FreezeNext]_freezeVars
  PROVE  RecordInv'
<1>1. FreezeTypeOK' /\ LiveFreezeStands'
  BY TypeNext, LiveFreezeNext DEF RecordInv
<1>2. ASSUME NEW g \in Process PROVE WordOnRecord(g)' /\ WordRestored(g)' /\ AdmittedHydrated'
  <2>1. ASSUME NEW h \in Process, \E b \in BOOLEAN : Flip(h, b)
        PROVE  WordOnRecord(g)' /\ WordRestored(g)' /\ AdmittedHydrated'
    <3>1. g = h
      OBVIOUS
    <3> QED
      BY <2>1, <3>1, FlipRecorded
  <2>2. ASSUME NEW h \in Process,
               \/ LandRow(h) \/ LoseRow(h) \/ Crash(h)
               \/ CallHydrate(h) \/ HydrateStep(h) \/ FailHydrate(h)
        PROVE  WordOnRecord(g)' /\ WordRestored(g)' /\ AdmittedHydrated'
    <3>1. g = h
      OBVIOUS
    <3> QED
      BY <2>2, <3>1, RowRecorded, HydrateRecorded, CrashRecorded
  <2>3. ASSUME NEW p \in Payment, Admit(p) \/ Approved(p) \/ PaymentStep(p)
        PROVE  WordOnRecord(g)' /\ WordRestored(g)' /\ AdmittedHydrated'
    BY <2>3, PaymentRecorded
  <2>4. CASE UNCHANGED freezeVars
    BY <2>4 DEF freezeVars, flagVars, hydrationVars, RecordInv, WordOnRecord, WordRestored,
                AdmittedHydrated
  <2> QED
    BY <2>1, <2>2, <2>3, <2>4 DEF FreezeNext
<1>3. AdmittedHydrated'
  <2>1. CASE Process = {}
    <3>1. Payment = {}
      BY <2>1, FreezeAssumption
    <3> QED
      BY <3>1 DEF AdmittedHydrated
  <2>2. CASE Process # {}
    BY <1>2, <2>2
  <2> QED
    BY <2>1, <2>2
<1> QED
  BY <1>1, <1>2, <1>3 DEF RecordInv

(* Only the last check lets a payment onto the rail. *)
LEMMA RecordStops ==
  ASSUME RecordInv, [FreezeNext]_freezeVars, NEW p \in Payment, pc[p] # "rail", pc'[p] = "rail"
  PROVE  ~ (latest[HostOf[p]].freeze /\ latest[HostOf[p]].durable)
<1> USE DEF RecordInv, FreezeTypeOK, FieldsTyped
<1>1. PICK q \in Payment : Check(q, "deciding", "rail")
  <2>1. ASSUME NEW g \in Process, NEW b \in BOOLEAN, Flip(g, b) PROVE FALSE
    BY <2>1 DEF Flip
  <2>2. ASSUME NEW g \in Process, LandRow(g) \/ LoseRow(g) PROVE FALSE
    BY <2>2 DEF LandRow, LoseRow
  <2>3. ASSUME NEW g \in Process, CallHydrate(g) \/ HydrateStep(g) \/ FailHydrate(g) PROVE FALSE
    BY <2>3 DEF CallHydrate, HydrateStep, FailHydrate, BeginRestore, Verify, ReadRows, Apply
  <2>4. ASSUME NEW g \in Process, Crash(g) PROVE FALSE
    BY <2>4 DEF Crash
  <2>5. ASSUME NEW q \in Payment,
               Admit(q) \/ Approved(q) \/ Check(q, "queued", "deciding") \/ LeaveRail(q)
        PROVE  FALSE
    BY <2>5 DEF Admit, Approved, Check, LeaveRail, Goto
  <2>6. ASSUME UNCHANGED freezeVars PROVE FALSE
    BY <2>6 DEF freezeVars
  <2> QED
    BY <2>1, <2>2, <2>3, <2>4, <2>5, <2>6 DEF FreezeNext, PaymentStep
<1>2. q = p /\ pc[p] = "deciding" /\ ~frozen[HostOf[p]]
  BY <1>1 DEF Check, Goto
<1>3. HostOf[p] \in Process
  BY FreezeAssumption
<1>4. hydrated[HostOf[p]]
  BY <1>2 DEF AdmittedHydrated
<1> QED
  BY <1>2, <1>3, <1>4 DEF LiveFreezeStands, WordRestored

(* With requireHydration, a freeze that is on record stops every payment of    *)
(* its process, across crashes, failed hydrations and approvals that took      *)
(* long (guard.ts, hydrateFromLedger() and the gates of run()), as long as     *)
(* no other process writes to the ledger: a peer's unfreeze would lift it.     *)
THEOREM FreezeOutlivesRestart ==
  ASSUME RequireHydration, \A g, h \in Process : g = h
  PROVE  FreezeSpec => RecordedFreezeStops
<1>1. RecordInv /\ [FreezeNext]_freezeVars =>
        [\A p \in Payment : (pc[p] # "rail" /\ pc'[p] = "rail") =>
           ~ (latest[HostOf[p]].freeze /\ latest[HostOf[p]].durable)]_freezeVars
  BY RecordStops
<1>2. RecordInv /\ [FreezeNext]_freezeVars => RecordInv'
  BY RecordNext
<1> QED
  BY <1>1, <1>2, RecordInit, PTL DEF FreezeSpec, RecordedFreezeStops

-----------------------------------------------------------------------------
(***************************************************************************)
(* The mandate manager                                                     *)
(***************************************************************************)

(* The rows the manager writes. *)
IsManagerRow(r) ==
  \/ \E m \in Mandate, type \in {"issued", "revoked"} : r = MandateRow(type, m, "-", "-")
  \/ \E k \in UseKey, m \in Mandate, d \in Digest :
       m \in KeyMandates[k] /\ r = MandateRow("consumed", m, k, d)
  \/ \E k \in UseKey, o \in Outcome : r = MandateRow("result", "-", k, o)

ManagerRow ==
  {r \in [type : {"issued", "revoked", "consumed", "result"}, mandate : Mandate \cup {"-"},
          key : UseKey \cup {"-"}, value : Digest \cup Outcome \cup {"-"}] : IsManagerRow(r)}

CallRecord ==
  [process : Instance, mandate : Mandate, key : UseKey, digest : Digest,
   pc : {"new", "queued", "claim", "row", "done"}, dead : BOOLEAN,
   answer : {"none", "rejected", "replayed", "otherPayment", "threw", "consumed"},
   status : {"none", "unresolved"} \cup Outcome,
   rail : {"none", "settling", "recording", "over"}]

ManagerTypeOK ==
  /\ claims \in [Mandate -> [UseKey -> Claim]]
  /\ store \in {"memory", "shared"}
  /\ states \in [Instance -> [Mandate -> {"unknown", "live", "revoked"}]]
  /\ ready \subseteq Instance /\ born \subseteq Mandate
  /\ sealed \subseteq Mandate /\ expired \subseteq Mandate
  /\ rows \in Seq(ManagerRow)
  /\ task \in [Call -> CallRecord]
  /\ \A c \in Call : task[c].mandate \in KeyMandates[task[c].key]
  /\ granted \in [Mandate -> [UseKey -> SUBSET Call]]
  /\ outcome \in [Mandate -> [UseKey -> {"none"} \cup Outcome]]
  /\ killed \in [Instance -> SUBSET Mandate]

(* The row of a use of m under k is among the first n, for payment d. *)
UsedBy(n, m, k, d) == \E i \in 1..n : rows[i] = MandateRow("consumed", m, k, d)

OnRecord(m, k, d) == UsedBy(Len(rows), m, k, d)

Recording(c, m, k) == task[c].pc = "row" /\ task[c].mandate = m /\ task[c].key = k

(* The calls: they run in a process that has hydrated, and one that has     *)
(* seen its mandate alive claims before the mandate is pruned.              *)
CallsOK ==
  /\ \A c \in Call :
       /\ task[c].pc \in {"queued", "claim", "row"} => task[c].process \in ready
       /\ task[c].pc # "done" => task[c].answer = "none" /\ task[c].rail = "none"
       /\ task[c].pc = "new" => ~task[c].dead
       /\ task[c].pc = "claim" => task[c].mandate \notin sealed
  /\ sealed \subseteq expired
  /\ store = "memory" => \A p, q \in ready : p = q
  /\ store = "memory" /\ ready = {} => \A m \in Mandate, k \in UseKey : ~Claimed(m, k)

(* A mandate is issued before it is revoked, on the ledger too. *)
BirthOK ==
  /\ \A p \in Instance, m \in Mandate : states[p][m] # "unknown" => m \in born
  /\ \A i \in 1..Len(rows), m \in Mandate :
       rows[i] \in {MandateRow("issued", m, "-", "-"), MandateRow("revoked", m, "-", "-")}
         => m \in born
  /\ \A i, j \in 1..Len(rows), m \in Mandate :
       rows[i] = MandateRow("issued", m, "-", "-") /\ rows[j] = MandateRow("revoked", m, "-", "-")
         => i < j

KillsOK ==
  /\ \A p \in Instance : \A m \in killed[p] :
       p \in ready /\ m \in born /\ states[p][m] # "live"
  /\ \A c \in Call : task[c].dead =>
       /\ task[c].pc \in {"queued", "done"} /\ task[c].answer # "consumed"
       /\ task[c].pc = "queued" => task[c].mandate \in killed[task[c].process]

(* The store still knows what the ledger has and what is about to be there. *)
Knows(m) == m \notin sealed /\ (store = "shared" \/ ready # {})

UsesOK ==
  \A m \in Mandate, k \in UseKey :
    /\ \A d, e \in Digest : OnRecord(m, k, d) /\ OnRecord(m, k, e) => d = e
    /\ \A c \in Call : Recording(c, m, k) =>
         /\ \A d \in Digest : ~OnRecord(m, k, d)
         /\ \A b \in Call : Recording(b, m, k) => b = c
         /\ Claimed(m, k) => claims[m][k].digest = task[c].digest
         /\ Knows(m) => Claimed(m, k)
    /\ \A d \in Digest : OnRecord(m, k, d) =>
         /\ Claimed(m, k) => claims[m][k].digest = d
         /\ Knows(m) => Claimed(m, k)

GrantsOK ==
  /\ \A m \in Mandate, k \in UseKey : \A c \in granted[m][k] :
       /\ task[c].mandate = m /\ task[c].key = k /\ OnRecord(m, k, task[c].digest)
       /\ \A b \in granted[m][k] : b = c
  /\ \A c \in Call : task[c].answer = "consumed" => c \in granted[task[c].mandate][task[c].key]

Taken(m) ==
  {k \in UseKey : \/ \E d \in Digest : OnRecord(m, k, d)
                  \/ \E c \in Call : Recording(c, m, k)}

BudgetOK == \A m \in Mandate : Cardinality(Taken(m)) <= MaxUses[m]

(* What the registry and the ledger say of a use is what became of its rail. *)
RailsOK ==
  /\ \A m \in Mandate, k \in UseKey : outcome[m][k] # "none" =>
       \E c \in granted[m][k] : task[c].rail # "none"
  /\ \A c \in Call : task[c].rail \in {"settling", "recording"} =>
       outcome[task[c].mandate][task[c].key] # "none"

OneMandatePerId == \A k \in UseKey : \A m, n \in KeyMandates[k] : m = n

OutcomesOK ==
  /\ \A m \in Mandate, k \in UseKey : claims[m][k].status \in Outcome =>
       outcome[m][k] = claims[m][k].status
  /\ \A i \in 1..Len(rows), k \in UseKey, o \in Outcome :
       rows[i] = MandateRow("result", "-", k, o) => 
         \A m \in Mandate : m \in KeyMandates[k] => outcome[m][k] = o

ManagerIInv ==
  /\ ManagerTypeOK /\ CallsOK /\ BirthOK /\ UsesOK /\ GrantsOK /\ BudgetOK /\ RailsOK
  /\ ~RegisterLate => KillsOK
  /\ OneMandatePerId => OutcomesOK /\ ReplayTellsTruth

-----------------------------------------------------------------------------
LEMMA FewerTaken ==
  ASSUME NEW S \in SUBSET UseKey, NEW T \in SUBSET UseKey, S \subseteq T, NEW n \in Nat,
         Cardinality(T) <= n
  PROVE  Cardinality(S) <= n /\ Cardinality(S) \in Nat
<1>1. IsFiniteSet(T) /\ IsFiniteSet(S)
  BY ConsumeAssumption, FS_Subset DEF ConsumeAssumption
<1>2. Cardinality(S) <= Cardinality(T) /\ Cardinality(S) \in Nat /\ Cardinality(T) \in Nat
  BY <1>1, FS_Subset, FS_CardinalityType
<1> QED
  BY <1>2

-----------------------------------------------------------------------------
(* Rows *)

LEMMA RowsWritten ==
  ASSUME NEW m \in Mandate, NEW k \in UseKey, m \in KeyMandates[k]
  PROVE  /\ \A type \in {"issued", "revoked"} : MandateRow(type, m, "-", "-") \in ManagerRow
         /\ \A d \in Digest : MandateRow("consumed", m, k, d) \in ManagerRow
         /\ \A o \in Outcome : MandateRow("result", "-", k, o) \in ManagerRow
BY DEF ManagerRow, IsManagerRow, MandateRow

LEMMA LifeRowsWritten ==
  ASSUME NEW m \in Mandate, NEW type \in {"issued", "revoked"}
  PROVE  MandateRow(type, m, "-", "-") \in ManagerRow
BY DEF ManagerRow, IsManagerRow, MandateRow

LEMMA RowsApart ==
  ASSUME NEW s, NEW t, NEW m, NEW n, NEW k, NEW l, NEW x, NEW y,
         MandateRow(s, m, k, x) = MandateRow(t, n, l, y)
  PROVE  s = t /\ m = n /\ k = l /\ x = y
BY DEF MandateRow

(* A row that lands is the last one. *)
LEMMA RowLands ==
  ASSUME ManagerTypeOK, NEW r \in ManagerRow, rows' = Append(rows, r)
  PROVE  /\ rows' \in Seq(ManagerRow) /\ Len(rows) \in Nat /\ Len(rows') = Len(rows) + 1
         /\ \A i \in 1..Len(rows) : rows'[i] = rows[i]
         /\ rows'[Len(rows) + 1] = r
BY DEF ManagerTypeOK

LEMMA OnRecordAfter ==
  ASSUME ManagerTypeOK, NEW r \in ManagerRow, rows' = Append(rows, r),
         NEW m \in Mandate, NEW k \in UseKey, NEW d \in Digest
  PROVE  OnRecord(m, k, d)' <=> OnRecord(m, k, d) \/ r = MandateRow("consumed", m, k, d)
<1>1. /\ rows' \in Seq(ManagerRow) /\ Len(rows) \in Nat /\ Len(rows') = Len(rows) + 1
      /\ \A i \in 1..Len(rows) : rows'[i] = rows[i]
      /\ rows'[Len(rows) + 1] = r
  BY RowLands
<1> DEFINE n == Len(rows)
           u == MandateRow("consumed", m, k, d)
<1>2. OnRecord(m, k, d)' <=> \E i \in 1..(n + 1) : rows'[i] = u
  BY <1>1 DEF OnRecord, UsedBy, MandateRow
<1>3. OnRecord(m, k, d) <=> \E i \in 1..n : rows[i] = u
  BY DEF OnRecord, UsedBy
<1> HIDE DEF u
<1>4. ASSUME NEW i \in 1..(n + 1), rows'[i] = u PROVE (\E j \in 1..n : rows[j] = u) \/ r = u
  BY <1>1, <1>4
<1>5. ASSUME NEW i \in 1..n, rows[i] = u PROVE \E j \in 1..(n + 1) : rows'[j] = u
  BY <1>1, <1>5
<1>6. ASSUME r = u PROVE \E j \in 1..(n + 1) : rows'[j] = u
  BY <1>1, <1>6
<1> QED
  BY <1>2, <1>3, <1>4, <1>5, <1>6 DEF u

LEMMA OnRecordStays ==
  ASSUME rows' = rows, NEW m, NEW k, NEW d
  PROVE  OnRecord(m, k, d)' <=> OnRecord(m, k, d)
BY DEF OnRecord, UsedBy, MandateRow

-----------------------------------------------------------------------------
(* Calls *)

(* Call c moves on; what it presents stays. *)
SameCall(b) ==
  /\ task'[b].process = task[b].process /\ task'[b].mandate = task[b].mandate
  /\ task'[b].key = task[b].key /\ task'[b].digest = task[b].digest

CallMoves(c) ==
  /\ task' \in [Call -> CallRecord]
  /\ \A b \in Call : b # c => task'[b] = task[b]
  /\ \A b \in Call : SameCall(b)

LEMMA CallLeaves ==
  ASSUME ManagerTypeOK, NEW c \in Call,
         NEW answer \in {"none", "rejected", "replayed", "otherPayment", "threw", "consumed"},
         NEW status \in {"none", "unresolved"} \cup Outcome,
         Leaves(c, answer, status)
  PROVE  /\ CallMoves(c)
         /\ task'[c].pc = "done" /\ task'[c].answer = answer /\ task'[c].status = status
         /\ task'[c].dead = task[c].dead /\ task'[c].rail = task[c].rail
<1>1. task \in [Call -> CallRecord]
  BY DEF ManagerTypeOK
<1>2. task' = [task EXCEPT ![c] = [task[c] EXCEPT !.pc = "done", !.answer = answer,
                                                  !.status = status]]
  BY <1>1 DEF Leaves, CallRecord
<1>3. /\ task' \in [Call -> CallRecord] /\ \A b \in Call : b # c => task'[b] = task[b]
      /\ task'[c] = [task[c] EXCEPT !.pc = "done", !.answer = answer, !.status = status]
  <2>1. [task[c] EXCEPT !.pc = "done", !.answer = answer, !.status = status] \in CallRecord
    BY <1>1 DEF CallRecord
  <2> QED
    BY <1>1, <1>2, <2>1
<1>4. task[c] \in CallRecord
  BY <1>1
<1>5. /\ SameCall(c) /\ task'[c].pc = "done" /\ task'[c].answer = answer
      /\ task'[c].status = status /\ task'[c].dead = task[c].dead
      /\ task'[c].rail = task[c].rail
  BY <1>3, <1>4 DEF SameCall, CallRecord
<1>6. \A b \in Call : SameCall(b)
  BY <1>3, <1>5 DEF SameCall
<1> QED
  BY <1>3, <1>5, <1>6 DEF CallMoves

LEMMA CallGoes ==
  ASSUME ManagerTypeOK, NEW c \in Call, NEW to \in {"new", "queued", "claim", "row", "done"},
         Goes(c, to)
  PROVE  /\ CallMoves(c)
         /\ task'[c].pc = to /\ task'[c].answer = task[c].answer
         /\ task'[c].status = task[c].status
         /\ task'[c].dead = task[c].dead /\ task'[c].rail = task[c].rail
<1>1. task \in [Call -> CallRecord]
  BY DEF ManagerTypeOK
<1>2. task' = [task EXCEPT ![c] = [task[c] EXCEPT !.pc = to]]
  BY <1>1 DEF Goes, CallRecord
<1> QED
  BY <1>1, <1>2 DEF CallMoves, SameCall, CallRecord

LEMMA RailGoes ==
  ASSUME ManagerTypeOK, NEW c \in Call, NEW rail \in {"none", "settling", "recording", "over"},
         task' = [task EXCEPT ![c].rail = rail]
  PROVE  /\ CallMoves(c)
         /\ task'[c].pc = task[c].pc /\ task'[c].answer = task[c].answer
         /\ task'[c].status = task[c].status
         /\ task'[c].dead = task[c].dead /\ task'[c].rail = rail
<1>1. task \in [Call -> CallRecord]
  BY DEF ManagerTypeOK
<1>2. task' = [task EXCEPT ![c] = [task[c] EXCEPT !.rail = rail]]
  BY <1>1 DEF CallRecord
<1> QED
  BY <1>1, <1>2 DEF CallMoves, SameCall, CallRecord

(* What a call that moves leaves of the grants, the rails and the replays.  *)
LEMMA CallGrants ==
  ASSUME ManagerIInv, task' \in [Call -> CallRecord], \A b \in Call : SameCall(b),
         granted' = granted,
         \A m \in Mandate, k \in UseKey, d \in Digest : OnRecord(m, k, d) => OnRecord(m, k, d)',
         \A b \in Call : task'[b].answer = "consumed" => task[b].answer = "consumed"
  PROVE  GrantsOK'
<1> USE DEF ManagerIInv
<1>1. granted' = granted /\ granted \in [Mandate -> [UseKey -> SUBSET Call]]
  BY DEF ManagerTypeOK
<1>2. ASSUME NEW m \in Mandate, NEW k \in UseKey, NEW b \in granted'[m][k]
      PROVE  /\ task'[b].mandate = m /\ task'[b].key = k
             /\ OnRecord(m, k, task[b].digest)'
             /\ \A a \in granted'[m][k] : a = b
  <2>1. b \in Call /\ b \in granted[m][k]
    BY <1>1, <1>2
  <2>2. PICK d \in Digest : d = task[b].digest /\ d = task'[b].digest
    BY <2>1 DEF SameCall, CallRecord
  <2>3. /\ task[b].mandate = m /\ task[b].key = k /\ OnRecord(m, k, task[b].digest)
        /\ \A a \in granted[m][k] : a = b
    BY <2>1 DEF GrantsOK
  <2>4. OnRecord(m, k, d)
    BY <2>2, <2>3
  <2>5. OnRecord(m, k, task[b].digest)' <=> OnRecord(m, k, d)'
    BY <2>2 DEF OnRecord, UsedBy, MandateRow
  <2> QED
    BY <1>1, <2>1, <2>3, <2>4, <2>5 DEF SameCall
<1>3. ASSUME NEW b \in Call, task'[b].answer = "consumed"
      PROVE  b \in granted'[task'[b].mandate][task'[b].key]
  BY <1>1, <1>3 DEF GrantsOK, SameCall
<1> QED
  BY <1>2, <1>3 DEF GrantsOK

LEMMA CallRails ==
  ASSUME ManagerIInv, NEW c \in Call, CallMoves(c), UNCHANGED <<outcome, granted>>,
         task[c].rail # "none" => task'[c].rail # "none",
         task'[c].rail \in {"settling", "recording"} =>
           \/ task[c].rail = task'[c].rail
           \/ outcome[task[c].mandate][task[c].key] # "none"
  PROVE  RailsOK'
<1> USE DEF ManagerIInv
<1>11. (\A b \in Call : b # c => task'[b] = task[b]) /\ \A b \in Call : SameCall(b)
  BY DEF CallMoves
<1>1. ASSUME NEW m \in Mandate, NEW k \in UseKey, outcome'[m][k] # "none"
      PROVE  \E b \in granted'[m][k] : task'[b].rail # "none"
  <2>1. PICK b \in granted[m][k] : task[b].rail # "none"
    BY <1>1 DEF RailsOK
  <2>2. b \in Call
    BY <2>1 DEF ManagerTypeOK
  <2>3. task'[b].rail # "none"
    BY <1>11, <2>1, <2>2
  <2> QED
    BY <2>1, <2>3
<1>2. ASSUME NEW b \in Call, task'[b].rail \in {"settling", "recording"}
      PROVE  outcome'[task'[b].mandate][task'[b].key] # "none"
  BY <1>11, <1>2 DEF RailsOK, SameCall
<1> QED
  BY <1>1, <1>2 DEF RailsOK

LEMMA CallReplays ==
  ASSUME ManagerIInv, OneMandatePerId, NEW c \in Call, CallMoves(c), UNCHANGED <<outcome, granted>>,
         task'[c].answer = "replayed" /\ task'[c].status \in Outcome =>
           /\ outcome[task[c].mandate][task[c].key] = task'[c].status
           /\ \A w \in granted[task[c].mandate][task[c].key] : task[w].digest = task[c].digest
  PROVE  ReplayTellsTruth'
<1> USE DEF ManagerIInv
<1>11. task' \in [Call -> CallRecord] /\ (\A b \in Call : b # c => task'[b] = task[b])
      /\ \A b \in Call : SameCall(b)
  BY DEF CallMoves
<1>2. ASSUME NEW b \in Call, task'[b].answer = "replayed", task'[b].status \in Outcome
      PROVE  /\ outcome'[task'[b].mandate][task'[b].key] = task'[b].status
             /\ \A w \in granted'[task'[b].mandate][task'[b].key] :
                  task'[w].digest = task'[b].digest
  <2>1. task'[b].mandate = task[b].mandate /\ task'[b].key = task[b].key
        /\ task'[b].digest = task[b].digest
        /\ task[b].mandate \in Mandate /\ task[b].key \in UseKey
    BY <1>11 DEF SameCall, ManagerTypeOK, CallRecord
  <2>2. /\ outcome[task[b].mandate][task[b].key] = task'[b].status
        /\ \A w \in granted[task[b].mandate][task[b].key] : task[w].digest = task[b].digest
    <3>1. CASE b = c
      BY <1>2, <3>1
    <3>2. CASE b # c
      BY <1>11, <1>2, <3>2 DEF ReplayTellsTruth
    <3> QED
      BY <3>1, <3>2
  <2>3. ASSUME NEW w \in granted[task[b].mandate][task[b].key]
        PROVE  task'[w].digest = task[w].digest
    BY <1>11, <2>1 DEF SameCall, ManagerTypeOK
  <2> QED
    BY <2>1, <2>2, <2>3
<1> QED
  BY <1>2 DEF ReplayTellsTruth

(* A call answers, or goes on, and nothing else changes: it may stop        *)
(* recording, never begin. *)
LEMMA CallAlone ==
  ASSUME ManagerIInv, NEW c \in Call, CallMoves(c),
         UNCHANGED <<store, claims, sealed, states, ready, born, expired, rows, granted, outcome,
                     killed>>,
         task'[c].pc # "new", task[c].pc # "new" => task'[c].dead = task[c].dead,
         task'[c].pc = "row" => task[c].pc = "row",
         task'[c].pc \in {"queued", "claim", "row"} => task[c].process \in ready,
         task'[c].pc # "done" => task'[c].answer = "none" /\ task'[c].rail = "none",
         task'[c].pc = "claim" => task[c].mandate \notin sealed,
         task'[c].answer = "consumed" => task[c].answer = "consumed",
         task[c].rail # "none" => task'[c].rail # "none",
         task'[c].rail \in {"settling", "recording"} =>
           outcome[task[c].mandate][task[c].key] # "none",
         ~RegisterLate => (task'[c].dead =>
           /\ task'[c].pc \in {"queued", "done"} /\ task'[c].answer # "consumed"
           /\ task'[c].pc = "queued" => task[c].mandate \in killed[task[c].process]),
         OneMandatePerId => (task'[c].answer = "replayed" /\ task'[c].status \in Outcome =>
           /\ outcome[task[c].mandate][task[c].key] = task'[c].status
           /\ \A w \in granted[task[c].mandate][task[c].key] : task[w].digest = task[c].digest)
  PROVE  ManagerIInv'
<1> USE DEF ManagerIInv
<1>1. task' \in [Call -> CallRecord] /\ (\A b \in Call : b # c => task'[b] = task[b])
      /\ \A b \in Call : SameCall(b)
  BY DEF CallMoves
<1>2. ManagerTypeOK'
  BY <1>1 DEF ManagerTypeOK, SameCall
<1>3. CallsOK'
  BY <1>1 DEF CallsOK, SameCall, Claimed
<1>4. BirthOK'
  BY DEF BirthOK, MandateRow
<1>5. ASSUME NEW m, NEW k, NEW d PROVE OnRecord(m, k, d)' <=> OnRecord(m, k, d)
  BY OnRecordStays
<1>6. ASSUME NEW b \in Call, NEW m, NEW k, Recording(b, m, k)' PROVE Recording(b, m, k)
  BY <1>1, <1>6 DEF Recording, SameCall
<1>7. UsesOK'
  BY <1>1, <1>5, <1>6 DEF UsesOK, SameCall, Claimed, Knows
<1>8. GrantsOK'
  BY <1>1, <1>5, CallGrants
<1>9. BudgetOK'
  <2>1. ASSUME NEW m \in Mandate PROVE Taken(m)' \subseteq Taken(m)
    BY <1>5, <1>6 DEF Taken
  <2>2. ASSUME NEW m \in Mandate PROVE Taken(m)' \in SUBSET UseKey /\ Taken(m) \in SUBSET UseKey
    BY DEF Taken
  <2>3. ASSUME NEW m \in Mandate PROVE Cardinality(Taken(m)') <= MaxUses[m]
    <3>1. MaxUses[m] \in Nat /\ Cardinality(Taken(m)) <= MaxUses[m]
      BY ConsumeAssumption DEF ConsumeAssumption, BudgetOK
    <3> QED
      BY <2>1, <2>2, <3>1, FewerTaken
  <2> QED
    BY <2>3 DEF BudgetOK
<1>10. RailsOK'
  BY CallRails
<1>11. ~RegisterLate => KillsOK'
  BY <1>1 DEF KillsOK, SameCall
<1>12. ASSUME OneMandatePerId PROVE OutcomesOK' /\ ReplayTellsTruth'
  <2>1. OutcomesOK'
    BY <1>12 DEF OutcomesOK, MandateRow
  <2> QED
    BY <1>12, <2>1, CallReplays
<1> QED
  BY <1>2, <1>3, <1>4, <1>7, <1>8, <1>9, <1>10, <1>11, <1>12

(* What a row of another kind leaves of the rows there were. *)
LEMMA LifeStays ==
  ASSUME ManagerIInv, NEW r \in ManagerRow, rows' = Append(rows, r),
         \A m \in Mandate : r # MandateRow("issued", m, "-", "-"),
         \A m \in Mandate : r = MandateRow("revoked", m, "-", "-") => m \in born,
         born \subseteq born',
         \A p \in Instance, m \in Mandate : states'[p][m] # "unknown" => m \in born'
  PROVE  BirthOK'
<1>1. /\ rows' \in Seq(ManagerRow) /\ Len(rows) \in Nat /\ Len(rows') = Len(rows) + 1
      /\ \A i \in 1..Len(rows) : rows'[i] = rows[i]
      /\ rows'[Len(rows) + 1] = r
  BY RowLands DEF ManagerIInv
<1>2. ASSUME NEW i \in 1..Len(rows') PROVE i \in 1..Len(rows) \/ i = Len(rows) + 1
  BY <1>1
<1>3. ASSUME NEW i \in 1..Len(rows'), NEW m \in Mandate,
             rows'[i] \in {MandateRow("issued", m, "-", "-"), MandateRow("revoked", m, "-", "-")}
      PROVE  m \in born'
  BY <1>1, <1>2, <1>3 DEF ManagerIInv, BirthOK
<1>4. ASSUME NEW i \in 1..Len(rows'), NEW j \in 1..Len(rows'), NEW m \in Mandate,
             rows'[i] = MandateRow("issued", m, "-", "-"),
             rows'[j] = MandateRow("revoked", m, "-", "-")
      PROVE  i < j
  <2>1. i \in 1..Len(rows) /\ rows[i] = MandateRow("issued", m, "-", "-")
    BY <1>1, <1>2, <1>4
  <2>2. CASE j \in 1..Len(rows)
    <3>1. rows[j] = MandateRow("revoked", m, "-", "-")
      BY <1>1, <1>4, <2>2
    <3> QED
      BY <2>1, <2>2, <3>1 DEF ManagerIInv, BirthOK
  <2>3. CASE j = Len(rows) + 1
    BY <1>1, <2>1, <2>3
  <2> QED
    BY <1>2, <2>2, <2>3
<1>5. MandateRow("issued", "-", "-", "-")' = MandateRow("issued", "-", "-", "-")
  BY DEF MandateRow
<1> QED
  BY <1>3, <1>4 DEF BirthOK, MandateRow

LEMMA ResultsStay ==
  ASSUME ManagerIInv, OutcomesOK, NEW r \in ManagerRow, rows' = Append(rows, r),
         \A k \in UseKey, o \in Outcome : r = MandateRow("result", "-", k, o) =>
            \A m \in Mandate : m \in KeyMandates[k] => outcome[m][k] = o,
         UNCHANGED <<claims, outcome>>
  PROVE  OutcomesOK'
<1>1. /\ rows' \in Seq(ManagerRow) /\ Len(rows) \in Nat /\ Len(rows') = Len(rows) + 1
      /\ \A i \in 1..Len(rows) : rows'[i] = rows[i]
      /\ rows'[Len(rows) + 1] = r
  BY RowLands DEF ManagerIInv
<1>2. ASSUME NEW i \in 1..Len(rows') PROVE i \in 1..Len(rows) \/ i = Len(rows) + 1
  BY <1>1
<1>3. ASSUME NEW i \in 1..Len(rows'), NEW k \in UseKey, NEW o \in Outcome,
             rows'[i] = MandateRow("result", "-", k, o), NEW m \in Mandate, m \in KeyMandates[k]
      PROVE  outcome'[m][k] = o
  BY <1>1, <1>2, <1>3 DEF OutcomesOK
<1> QED
  BY <1>3 DEF OutcomesOK, MandateRow

(* What the calls are recording, what is on record, and what the store still *)
(* knows of it is all that the uses and the budget depend on. *)
LEMMA CallsRecord ==
  ASSUME ManagerIInv, task' \in [Call -> CallRecord], \A b \in Call : SameCall(b),
         \A n \in Mandate : Knows(n)' => Knows(n),
         \A m \in Mandate, k \in UseKey, d \in Digest : OnRecord(m, k, d)' <=> OnRecord(m, k, d),
         \A b \in Call, n \in Mandate, l \in UseKey : Recording(b, n, l)' => Recording(b, n, l),
         \A n \in Mandate, l \in UseKey :
           /\ Claimed(n, l)' => Claimed(n, l)
           /\ Knows(n)' /\ Claimed(n, l) => Claimed(n, l)'
           /\ claims'[n][l].digest = claims[n][l].digest
  PROVE  UsesOK' /\ BudgetOK'
<1> USE DEF ManagerIInv
<1>3. UsesOK'
  <2> SUFFICES ASSUME NEW n \in Mandate, NEW l \in UseKey
      PROVE  /\ \A e, f \in Digest : OnRecord(n, l, e)' /\ OnRecord(n, l, f)' => e = f
             /\ \A b \in Call : Recording(b, n, l)' =>
                  /\ \A e \in Digest : ~OnRecord(n, l, e)'
                  /\ \A a \in Call : Recording(a, n, l)' => a = b
                  /\ Claimed(n, l)' => claims'[n][l].digest = task'[b].digest
                  /\ Knows(n)' => Claimed(n, l)'
             /\ \A e \in Digest : OnRecord(n, l, e)' =>
                  /\ Claimed(n, l)' => claims'[n][l].digest = e
                  /\ Knows(n)' => Claimed(n, l)'
    BY DEF UsesOK
  <2> QED
    BY DEF UsesOK, SameCall
<1>4. BudgetOK'
  <2>1. ASSUME NEW m \in Mandate PROVE Taken(m)' \subseteq Taken(m)
    BY DEF Taken
  <2>2. ASSUME NEW m \in Mandate PROVE Taken(m)' \in SUBSET UseKey /\ Taken(m) \in SUBSET UseKey
    BY DEF Taken
  <2>3. ASSUME NEW m \in Mandate PROVE Cardinality(Taken(m)') <= MaxUses[m]
    <3>1. MaxUses[m] \in Nat /\ Cardinality(Taken(m)) <= MaxUses[m]
      BY ConsumeAssumption DEF ConsumeAssumption, BudgetOK
    <3> QED
      BY <2>1, <2>2, <3>1, FewerTaken
  <2> QED
    BY <2>3 DEF BudgetOK
<1> QED
  BY <1>3, <1>4

-----------------------------------------------------------------------------
(* A use is claimed *)

LEMMA UseClaimed ==
  ASSUME ManagerIInv, NEW c \in Call, task[c].pc = "claim", CallMoves(c),
         ClaimWon(task[c].mandate, task[c].key, task[c].digest),
         task'[c].pc \in {"row", "done"}, task'[c].dead = task[c].dead,
         task'[c].rail = task[c].rail,
         task'[c].pc = "row" => task'[c].answer = task[c].answer,
         task'[c].pc = "done" => task'[c].answer = "threw",
         UNCHANGED <<store, states, ready, born, expired, rows, granted, outcome, killed>>
  PROVE  ManagerIInv'
<1> USE DEF ManagerIInv
<1>0. PICK m \in Mandate, k \in UseKey, d \in Digest :
        m = task[c].mandate /\ k = task[c].key /\ d = task[c].digest
  BY DEF ManagerTypeOK, CallRecord
<1>1. task' \in [Call -> CallRecord] /\ (\A b \in Call : b # c => task'[b] = task[b])
      /\ \A b \in Call : SameCall(b)
  BY DEF CallMoves
<1>2. m \in Mandate /\ k \in UseKey /\ d \in Digest /\ task[c].process \in Instance
  BY DEF ManagerTypeOK, CallRecord
<1>3. /\ ~Claimed(m, k) /\ BudgetLeft(m) /\ sealed' = sealed
      /\ claims' = [claims EXCEPT ![m][k] = [status |-> "pending", digest |-> d]]
  BY <1>0 DEF ClaimWon
<1>4. /\ claims' \in [Mandate -> [UseKey -> Claim]]
      /\ claims'[m][k].status = "pending" /\ claims'[m][k].digest = d
      /\ \A n \in Mandate, l \in UseKey : n # m \/ l # k => claims'[n][l] = claims[n][l]
  <2>1. [status |-> "pending", digest |-> d] \in Claim
    BY <1>2 DEF Claim
  <2>2. claims \in [Mandate -> [UseKey -> Claim]]
    BY DEF ManagerTypeOK
  <2>3. claims' = [claims EXCEPT ![m] =
                     [claims[m] EXCEPT ![k] = [status |-> "pending", digest |-> d]]]
    BY <1>3
  <2> QED
    BY <1>2, <2>1, <2>2, <2>3
<1>5. /\ m \notin sealed /\ task[c].process \in ready /\ Knows(m)
      /\ task[c].answer = "none" /\ (~RegisterLate => ~task[c].dead)
  BY <1>0 DEF CallsOK, KillsOK, Knows
<1>6. /\ \A e \in Digest : ~OnRecord(m, k, e)
      /\ \A b \in Call : ~Recording(b, m, k)
  BY <1>2, <1>3, <1>5 DEF UsesOK
<1>7. ManagerTypeOK'
  BY <1>1, <1>3, <1>4 DEF ManagerTypeOK, SameCall
<1>8. CallsOK'
  <2>1. ~(store = "memory" /\ ready = {})
    BY <1>5
  <2> QED
    BY <1>1, <1>3, <1>5, <2>1 DEF CallsOK, SameCall
<1>9. BirthOK'
  BY DEF BirthOK, MandateRow
<1>10. ASSUME NEW n, NEW l, NEW e PROVE OnRecord(n, l, e)' <=> OnRecord(n, l, e)
  BY OnRecordStays
<1>11. ASSUME NEW b \in Call, NEW n, NEW l, Recording(b, n, l)'
       PROVE  (Recording(b, n, l) /\ b # c) \/ (b = c /\ n = m /\ l = k)
  BY <1>0, <1>1, <1>11 DEF Recording, SameCall
<1>12. \A n \in Mandate, l \in UseKey : Claimed(n, l)' <=> Claimed(n, l) \/ (n = m /\ l = k)
  BY <1>4 DEF Claimed
<1>13. UsesOK'
  <2> SUFFICES ASSUME NEW n \in Mandate, NEW l \in UseKey
      PROVE  /\ \A e, f \in Digest : OnRecord(n, l, e)' /\ OnRecord(n, l, f)' => e = f
             /\ \A b \in Call : Recording(b, n, l)' =>
                  /\ \A e \in Digest : ~OnRecord(n, l, e)'
                  /\ \A a \in Call : Recording(a, n, l)' => a = b
                  /\ Claimed(n, l)' => claims'[n][l].digest = task'[b].digest
                  /\ Knows(n)' => Claimed(n, l)'
             /\ \A e \in Digest : OnRecord(n, l, e)' =>
                  /\ Claimed(n, l)' => claims'[n][l].digest = e
                  /\ Knows(n)' => Claimed(n, l)'
    BY DEF UsesOK
  <2>1. Knows(n)' <=> Knows(n)
    BY <1>3 DEF Knows
  <2>2. CASE n = m /\ l = k
    <3>1. \A e \in Digest : ~OnRecord(n, l, e)'
      BY <1>6, <1>10, <2>2
    <3>2. ASSUME NEW b \in Call, Recording(b, n, l)' PROVE b = c
      BY <1>6, <1>11, <2>2, <3>2
    <3>3. claims'[n][l].digest = task'[c].digest /\ Claimed(n, l)'
      BY <1>0, <1>1, <1>4, <1>12, <2>2 DEF SameCall
    <3> QED
      BY <3>1, <3>2, <3>3
  <2>3. CASE n # m \/ l # k
    <3>1. ASSUME NEW b \in Call, Recording(b, n, l)'
          PROVE  Recording(b, n, l) /\ task'[b].digest = task[b].digest
      BY <1>1, <1>11, <2>3, <3>1 DEF SameCall
    <3>2. claims'[n][l] = claims[n][l] /\ (Claimed(n, l)' <=> Claimed(n, l))
      BY <1>4, <1>12, <2>3
    <3> QED
      BY <1>10, <2>1, <3>1, <3>2 DEF UsesOK
  <2> QED
    BY <2>2, <2>3
<1>14. GrantsOK'
  <2>1. \A b \in Call : task'[b].answer = "consumed" => task[b].answer = "consumed"
    BY <1>1, <1>5
  <2> QED
    BY <1>1, <1>10, <2>1, CallGrants
<1>15. BudgetOK'
  <2>1. ASSUME NEW n \in Mandate PROVE Taken(n)' \subseteq Taken(n) \cup (IF n = m THEN {k} ELSE {})
    BY <1>10, <1>11 DEF Taken
  <2>2. ASSUME NEW n \in Mandate PROVE Taken(n)' \in SUBSET UseKey /\ Taken(n) \in SUBSET UseKey
    BY DEF Taken
  <2>3. Cardinality(Taken(m)') <= MaxUses[m]
    <3>1. Taken(m) \subseteq Used(m)
      BY <1>2, <1>5 DEF Taken, Used, UsesOK
    <3>2. Used(m) \in SUBSET UseKey /\ IsFiniteSet(UseKey)
      BY ConsumeAssumption DEF ConsumeAssumption, Used
    <3>3. IsFiniteSet(Used(m)) /\ Cardinality(Used(m)) \in Nat
      BY <3>2, FS_Subset, FS_CardinalityType
    <3>4. Cardinality(Used(m) \cup {k}) \in {Cardinality(Used(m)), Cardinality(Used(m)) + 1}
      BY <3>3, FS_AddElement
    <3>5. IsFiniteSet(Used(m) \cup {k}) /\ Cardinality(Used(m) \cup {k}) \in Nat
      BY <3>3, FS_AddElement, FS_CardinalityType
    <3>6. Cardinality(Used(m) \cup {k}) <= MaxUses[m] /\ MaxUses[m] \in Nat
      BY <1>2, <1>3, <3>3, <3>4, <3>5, ConsumeAssumption DEF BudgetLeft, ConsumeAssumption
    <3>7. Taken(m)' \subseteq Used(m) \cup {k} /\ Used(m) \cup {k} \in SUBSET UseKey
      <4>1. Taken(m)' \subseteq Taken(m) \cup {k}
        BY <1>2, <2>1
      <4> QED
        BY <1>2, <3>1, <3>2, <4>1
    <3> QED
      BY <1>2, <2>2, <3>6, <3>7, FewerTaken
  <2>4. ASSUME NEW n \in Mandate, n # m PROVE Cardinality(Taken(n)') <= MaxUses[n]
    <3>1. MaxUses[n] \in Nat /\ Cardinality(Taken(n)) <= MaxUses[n]
      BY ConsumeAssumption DEF ConsumeAssumption, BudgetOK
    <3> QED
      BY <2>1, <2>2, <2>4, <3>1, FewerTaken
  <2>5. ASSUME NEW n \in Mandate PROVE Cardinality(Taken(n)') <= MaxUses[n]
    BY <2>3, <2>4
  <2> QED
    BY <2>5 DEF BudgetOK
<1>16. RailsOK'
  BY <1>1, CallRails
<1>17. ~RegisterLate => KillsOK'
  BY <1>1, <1>5 DEF KillsOK, SameCall
<1>18. ASSUME OneMandatePerId PROVE OutcomesOK' /\ ReplayTellsTruth'
  <2>1. OutcomesOK'
    <3>1. ASSUME NEW n \in Mandate, NEW l \in UseKey, claims'[n][l].status \in Outcome
          PROVE  outcome'[n][l] = claims'[n][l].status
      BY <1>4, <1>18, <3>1 DEF OutcomesOK, Outcome
    <3> QED
      BY <1>18, <3>1 DEF OutcomesOK, MandateRow
  <2> QED
    BY <1>1, <1>5, <1>18, <2>1, CallReplays
<1> QED
  BY <1>7, <1>8, <1>9, <1>13, <1>14, <1>15, <1>16, <1>17, <1>18

-----------------------------------------------------------------------------
(* The use goes on the ledger: answered "consumed", or lost after it landed. *)

LEMMA UseLands ==
  ASSUME ManagerIInv, NEW c \in Call, task[c].pc = "row", CallMoves(c),
         rows' = Append(rows, UseRow(c)),
         task'[c].pc = "done", task'[c].dead = task[c].dead, task'[c].rail = task[c].rail,
         \/ task'[c].answer = "threw" /\ granted' = granted
         \/ /\ task'[c].answer = "consumed"
            /\ granted' = [granted EXCEPT ![task[c].mandate][task[c].key] = @ \cup {c}],
         UNCHANGED <<store, claims, sealed, states, ready, born, expired, outcome, killed>>
  PROVE  ManagerIInv'
<1> USE DEF ManagerIInv
<1>0. PICK m \in Mandate, k \in UseKey, d \in Digest :
        m = task[c].mandate /\ k = task[c].key /\ d = task[c].digest
  BY DEF ManagerTypeOK, CallRecord
<1>1. task' \in [Call -> CallRecord] /\ (\A b \in Call : b # c => task'[b] = task[b])
      /\ \A b \in Call : SameCall(b)
  BY DEF CallMoves
<1>2. UseRow(c) = MandateRow("consumed", m, k, d) /\ UseRow(c) \in ManagerRow
  BY <1>0, RowsWritten DEF ManagerTypeOK, UseRow
<1>3. /\ rows' \in Seq(ManagerRow) /\ Len(rows) \in Nat /\ Len(rows') = Len(rows) + 1
      /\ \A i \in 1..Len(rows) : rows'[i] = rows[i]
      /\ rows'[Len(rows) + 1] = UseRow(c)
  BY <1>2, RowLands
<1>4. Recording(c, m, k)
  BY <1>0 DEF Recording
<1>5. /\ \A e \in Digest : ~OnRecord(m, k, e)
      /\ \A b \in Call : Recording(b, m, k) => b = c
      /\ Claimed(m, k) => claims[m][k].digest = d
      /\ Knows(m) => Claimed(m, k)
  BY <1>0, <1>4 DEF UsesOK
<1>6. ASSUME NEW n \in Mandate, NEW l \in UseKey, NEW e \in Digest
      PROVE  OnRecord(n, l, e)' <=> OnRecord(n, l, e) \/ (n = m /\ l = k /\ e = d)
  BY <1>2, OnRecordAfter, RowsApart
<1>7. granted[m][k] = {} /\ granted \in [Mandate -> [UseKey -> SUBSET Call]]
  BY <1>5 DEF GrantsOK, ManagerTypeOK, CallRecord
<1>8. /\ granted' \in [Mandate -> [UseKey -> SUBSET Call]]
      /\ \A n \in Mandate, l \in UseKey : n # m \/ l # k => granted'[n][l] = granted[n][l]
      /\ granted'[m][k] = IF task'[c].answer = "consumed" THEN {c} ELSE {}
  <2>1. CASE task'[c].answer = "threw" /\ granted' = granted
    BY <1>7, <2>1
  <2>2. CASE /\ task'[c].answer = "consumed"
             /\ granted' = [granted EXCEPT ![task[c].mandate][task[c].key] = @ \cup {c}]
    <3>1. granted' = [granted EXCEPT ![m] = [granted[m] EXCEPT ![k] = {c}]]
      BY <1>0, <1>7, <2>2
    <3>2. granted'[m][k] = {c} /\ granted' \in [Mandate -> [UseKey -> SUBSET Call]]
      BY <1>7, <3>1
    <3>3. ASSUME NEW n \in Mandate, NEW l \in UseKey, n # m \/ l # k
          PROVE  granted'[n][l] = granted[n][l]
      BY <1>7, <3>1, <3>3
    <3> QED
      BY <2>2, <3>2, <3>3
  <2> QED
    BY <2>1, <2>2
<1>9. ASSUME NEW n \in Mandate, NEW l \in UseKey
      PROVE  granted[n][l] \subseteq granted'[n][l]
  BY <1>7, <1>8
<1>10. ASSUME NEW b \in Call, NEW n, NEW l, Recording(b, n, l)'
       PROVE  Recording(b, n, l) /\ b # c
  BY <1>1, <1>10 DEF Recording, SameCall
<1>11. ManagerTypeOK'
  BY <1>1, <1>3, <1>8 DEF ManagerTypeOK, SameCall
<1>12. CallsOK'
  BY <1>1 DEF CallsOK, SameCall, Claimed
<1>13. BirthOK'
  BY <1>2, <1>3, RowsApart, LifeStays DEF BirthOK
<1>14. UsesOK'
  <2> SUFFICES ASSUME NEW n \in Mandate, NEW l \in UseKey
      PROVE  /\ \A e, f \in Digest : OnRecord(n, l, e)' /\ OnRecord(n, l, f)' => e = f
             /\ \A b \in Call : Recording(b, n, l)' =>
                  /\ \A e \in Digest : ~OnRecord(n, l, e)'
                  /\ \A a \in Call : Recording(a, n, l)' => a = b
                  /\ Claimed(n, l)' => claims'[n][l].digest = task'[b].digest
                  /\ Knows(n)' => Claimed(n, l)'
             /\ \A e \in Digest : OnRecord(n, l, e)' =>
                  /\ Claimed(n, l)' => claims'[n][l].digest = e
                  /\ Knows(n)' => Claimed(n, l)'
    BY DEF UsesOK
  <2>1. (Knows(n)' <=> Knows(n)) /\ (Claimed(n, l)' <=> Claimed(n, l))
    BY DEF Knows, Claimed
  <2>2. CASE n = m /\ l = k
    BY <1>5, <1>6, <1>10, <2>1, <2>2
  <2>3. CASE n # m \/ l # k
    <3>1. ASSUME NEW b \in Call, Recording(b, n, l)'
          PROVE  Recording(b, n, l) /\ task'[b].digest = task[b].digest
      BY <1>1, <1>10, <3>1 DEF SameCall
    <3>2. \A e \in Digest : OnRecord(n, l, e)' <=> OnRecord(n, l, e)
      BY <1>6, <2>3
    <3> QED
      BY <2>1, <3>1, <3>2 DEF UsesOK
  <2> QED
    BY <2>2, <2>3
<1>15. GrantsOK'
  <2>1. ASSUME NEW n \in Mandate, NEW l \in UseKey, NEW b \in granted'[n][l]
        PROVE  /\ task'[b].mandate = n /\ task'[b].key = l
               /\ OnRecord(n, l, task[b].digest)'
               /\ \A a \in granted'[n][l] : a = b
    <3>1. b \in Call
      BY <1>8, <2>1
    <3>2. task'[b].digest = task[b].digest /\ task'[b].digest \in Digest
      BY <1>1, <3>1 DEF SameCall, CallRecord
    <3>3. PICK e \in Digest : e = task[b].digest /\ e = task'[b].digest
      BY <3>2
    <3>6. OnRecord(n, l, task[b].digest)' <=> OnRecord(n, l, e)'
      BY <3>3 DEF OnRecord, UsedBy, MandateRow
    <3>4. CASE n = m /\ l = k
      <4>1. b = c /\ granted'[n][l] = {c}
        BY <1>8, <2>1, <3>4
      <4>2. OnRecord(n, l, e)'
        BY <1>0, <1>6, <3>3, <3>4, <4>1
      <4> QED
        BY <1>0, <1>1, <3>4, <3>6, <4>1, <4>2 DEF SameCall
    <3>5. CASE n # m \/ l # k
      <4>1. granted'[n][l] = granted[n][l]
        BY <1>8, <3>5
      <4>2. /\ task[b].mandate = n /\ task[b].key = l /\ OnRecord(n, l, e)
            /\ \A a \in granted[n][l] : a = b
        <5>1. b \in granted[n][l] /\ GrantsOK
          BY <2>1, <4>1
        <5>2. /\ task[b].mandate = n /\ task[b].key = l /\ OnRecord(n, l, task[b].digest)
              /\ \A a \in granted[n][l] : a = b
          BY <5>1 DEF GrantsOK
        <5>3. OnRecord(n, l, task[b].digest) <=> OnRecord(n, l, e)
          BY <3>3
        <5> QED
          BY <5>2, <5>3
      <4> QED
        BY <1>1, <1>6, <3>1, <3>6, <4>1, <4>2 DEF SameCall
    <3> QED
      BY <3>4, <3>5
  <2>2. ASSUME NEW b \in Call, task'[b].answer = "consumed"
        PROVE  b \in granted'[task'[b].mandate][task'[b].key]
    <3>1. CASE b = c
      BY <1>0, <1>1, <1>8, <2>2, <3>1 DEF SameCall
    <3>2. CASE b # c
      <4>1. b \in granted[task[b].mandate][task[b].key]
        BY <1>1, <2>2, <3>2 DEF GrantsOK
      <4> QED
        BY <1>1, <1>9, <4>1 DEF SameCall, ManagerTypeOK, CallRecord
    <3> QED
      BY <3>1, <3>2
  <2> QED
    BY <2>1, <2>2 DEF GrantsOK
<1>16. BudgetOK'
  <2>1. ASSUME NEW n \in Mandate PROVE Taken(n)' \subseteq Taken(n)
    BY <1>4, <1>6, <1>10 DEF Taken
  <2>2. ASSUME NEW n \in Mandate PROVE Taken(n)' \in SUBSET UseKey /\ Taken(n) \in SUBSET UseKey
    BY DEF Taken
  <2>3. ASSUME NEW n \in Mandate PROVE Cardinality(Taken(n)') <= MaxUses[n]
    <3>1. MaxUses[n] \in Nat /\ Cardinality(Taken(n)) <= MaxUses[n]
      BY ConsumeAssumption DEF ConsumeAssumption, BudgetOK
    <3> QED
      BY <2>1, <2>2, <3>1, FewerTaken
  <2> QED
    BY <2>3 DEF BudgetOK
<1>17. RailsOK'
  <2>1. ASSUME NEW n \in Mandate, NEW l \in UseKey, outcome'[n][l] # "none"
        PROVE  \E b \in granted'[n][l] : task'[b].rail # "none"
    <3>1. PICK b \in granted[n][l] : task[b].rail # "none"
      BY <2>1 DEF RailsOK
    <3>2. b \in Call /\ b \in granted'[n][l]
      BY <1>7, <1>9, <3>1
    <3>3. task'[b].rail # "none"
      BY <1>1, <3>1, <3>2
    <3> QED
      BY <3>2, <3>3
  <2>2. ASSUME NEW b \in Call, task'[b].rail \in {"settling", "recording"}
        PROVE  outcome'[task'[b].mandate][task'[b].key] # "none"
    BY <1>1, <2>2 DEF RailsOK, SameCall
  <2> QED
    BY <2>1, <2>2 DEF RailsOK
<1>18. ASSUME ~RegisterLate PROVE KillsOK'
  <2>1. ~task[c].dead
    BY <1>18 DEF KillsOK
  <2> QED
    BY <1>1, <1>18, <2>1 DEF KillsOK, SameCall
<1>19. ASSUME OneMandatePerId PROVE OutcomesOK' /\ ReplayTellsTruth'
  <2>1. OutcomesOK'
    BY <1>2, <1>3, <1>19, RowsApart, ResultsStay DEF OutcomesOK
  <2>2. ASSUME NEW b \in Call, task'[b].answer = "replayed", task'[b].status \in Outcome
        PROVE  /\ outcome'[task'[b].mandate][task'[b].key] = task'[b].status
               /\ \A w \in granted'[task'[b].mandate][task'[b].key] :
                    task'[w].digest = task'[b].digest
    <3>1. b # c /\ task'[b] = task[b]
      BY <1>1, <2>2
    <3>2. PICK n \in Mandate, l \in UseKey : n = task[b].mandate /\ l = task[b].key
      BY DEF ManagerTypeOK, CallRecord
    <3>3. /\ outcome[n][l] = task[b].status
          /\ \A w \in granted[n][l] : task[w].digest = task[b].digest
      BY <1>19, <2>2, <3>1, <3>2 DEF ReplayTellsTruth
    <3>4. n # m \/ l # k
      BY <1>7, <2>2, <3>1, <3>3 DEF RailsOK, Outcome
    <3>5. granted'[n][l] = granted[n][l]
      BY <1>8, <3>4
    <3>6. \A w \in granted[n][l] : task'[w].digest = task[w].digest
      BY <1>1, <1>7 DEF SameCall
    <3> QED
      BY <3>1, <3>2, <3>3, <3>5, <3>6
  <2> QED
    BY <2>1, <2>2 DEF ReplayTellsTruth
<1> QED
  BY <1>11, <1>12, <1>13, <1>14, <1>15, <1>16, <1>17, <1>18, <1>19

-----------------------------------------------------------------------------
(* The rail *)

LEMMA RailEndsStep ==
  ASSUME ManagerIInv, NEW c \in Call, NEW o \in Outcome, RailEnds(c, o)
  PROVE  ManagerIInv'
<1> USE DEF ManagerIInv
<1>0. PICK m \in Mandate, k \in UseKey : m = task[c].mandate /\ k = task[c].key
  BY DEF ManagerTypeOK, CallRecord
<1>1. /\ task[c].answer = "consumed" /\ task[c].rail = "none"
      /\ outcome' = [outcome EXCEPT ![m][k] = o]
      /\ task' = [task EXCEPT ![c].rail = "settling"]
      /\ UNCHANGED <<store, consumeVars, states, ready, born, expired, rows, inQueue, granted,
                     killed, failures>>
  BY <1>0 DEF RailEnds
<1>2. /\ CallMoves(c) /\ task'[c].pc = task[c].pc /\ task'[c].answer = task[c].answer
      /\ task'[c].status = task[c].status
      /\ task'[c].dead = task[c].dead /\ task'[c].rail = "settling"
  BY <1>1, RailGoes
<1>3. task' \in [Call -> CallRecord] /\ (\A b \in Call : b # c => task'[b] = task[b])
      /\ \A b \in Call : SameCall(b)
  BY <1>2 DEF CallMoves
<1>4. c \in granted[m][k] /\ \A b \in granted[m][k] : b = c
  BY <1>0, <1>1 DEF GrantsOK
<1>5. outcome[m][k] = "none"
  BY <1>1, <1>4 DEF RailsOK
<1>6. /\ outcome' \in [Mandate -> [UseKey -> {"none"} \cup Outcome]]
      /\ outcome'[m][k] = o /\ o # "none"
      /\ \A n \in Mandate, l \in UseKey : n # m \/ l # k => outcome'[n][l] = outcome[n][l]
  <2>1. outcome' = [outcome EXCEPT ![m] = [outcome[m] EXCEPT ![k] = o]]
    BY <1>1
  <2>2. outcome \in [Mandate -> [UseKey -> {"none"} \cup Outcome]]
    BY DEF ManagerTypeOK
  <2> QED
    BY <2>1, <2>2 DEF Outcome
<1>7. UNCHANGED <<store, claims, sealed, states, ready, born, expired, rows, granted, killed>>
  BY <1>1 DEF consumeVars
<1>8. ManagerTypeOK'
  BY <1>3, <1>6, <1>7 DEF ManagerTypeOK, SameCall
<1>9. CallsOK'
  BY <1>1, <1>2, <1>3, <1>7 DEF CallsOK, SameCall, Claimed
<1>10. BirthOK'
  BY <1>7 DEF BirthOK, MandateRow
<1>11. ASSUME NEW b \in Call, NEW n, NEW l PROVE Recording(b, n, l)' <=> Recording(b, n, l)
  BY <1>2, <1>3 DEF Recording, SameCall
<1>12. ASSUME NEW n, NEW l, NEW d PROVE OnRecord(n, l, d)' <=> OnRecord(n, l, d)
  BY <1>7, OnRecordStays
<1>13. UsesOK' /\ BudgetOK' /\ GrantsOK'
  BY <1>2, <1>3, <1>7, <1>11, <1>12, CallsRecord, CallGrants DEF Claimed, Knows
<1>14. RailsOK'
  <2>1. ASSUME NEW n \in Mandate, NEW l \in UseKey, outcome'[n][l] # "none"
        PROVE  \E b \in granted'[n][l] : task'[b].rail # "none"
    <3>1. CASE n = m /\ l = k
      BY <1>2, <1>4, <1>7, <3>1
    <3>2. CASE n # m \/ l # k
      <4>1. PICK b \in granted[n][l] : task[b].rail # "none"
        BY <1>6, <2>1, <3>2 DEF RailsOK
      <4>2. b \in Call
        BY <4>1 DEF ManagerTypeOK
      <4> QED
        BY <1>2, <1>3, <1>7, <4>1, <4>2
    <3> QED
      BY <3>1, <3>2
  <2>2. ASSUME NEW b \in Call, task'[b].rail \in {"settling", "recording"}
        PROVE  outcome'[task'[b].mandate][task'[b].key] # "none"
    <3>1. PICK n \in Mandate, l \in UseKey : n = task[b].mandate /\ l = task[b].key
      BY DEF ManagerTypeOK, CallRecord
    <3>2. task'[b].mandate = n /\ task'[b].key = l
      BY <1>3, <3>1 DEF SameCall
    <3>3. CASE n = m /\ l = k
      BY <1>6, <3>2, <3>3
    <3>4. CASE n # m \/ l # k
      <4>1. b # c /\ task[b].rail \in {"settling", "recording"}
        BY <1>0, <1>3, <2>2, <3>1, <3>4
      <4>2. outcome[n][l] # "none"
        BY <3>1, <4>1 DEF RailsOK
      <4> QED
        BY <1>6, <3>2, <3>4, <4>2
    <3> QED
      BY <3>3, <3>4
  <2> QED
    BY <2>1, <2>2 DEF RailsOK
<1>15. ~RegisterLate => KillsOK'
  BY <1>2, <1>3, <1>7 DEF KillsOK, SameCall
<1>16. ASSUME OneMandatePerId PROVE OutcomesOK' /\ ReplayTellsTruth'
  <2>1. ASSUME NEW n \in Mandate, NEW l \in UseKey, claims'[n][l].status \in Outcome
        PROVE  outcome'[n][l] = claims'[n][l].status
    BY <1>5, <1>6, <1>7, <1>16, <2>1 DEF OutcomesOK, Outcome
  <2>2. ASSUME NEW i \in 1..Len(rows), NEW l \in UseKey, NEW e \in Outcome,
               rows[i] = MandateRow("result", "-", l, e), NEW n \in Mandate, n \in KeyMandates[l]
        PROVE  outcome'[n][l] = e
    BY <1>5, <1>6, <1>16, <2>2 DEF OutcomesOK, Outcome
  <2>3. OutcomesOK'
    BY <1>7, <2>1, <2>2 DEF OutcomesOK, MandateRow
  <2>4. ASSUME NEW b \in Call, task'[b].answer = "replayed", task'[b].status \in Outcome
        PROVE  /\ outcome'[task'[b].mandate][task'[b].key] = task'[b].status
               /\ \A w \in granted'[task'[b].mandate][task'[b].key] :
                    task'[w].digest = task'[b].digest
    <3>1. b # c /\ task'[b] = task[b]
      BY <1>1, <1>2, <1>3, <2>4
    <3>2. PICK n \in Mandate, l \in UseKey : n = task[b].mandate /\ l = task[b].key
      BY DEF ManagerTypeOK, CallRecord
    <3>3. /\ outcome[n][l] = task[b].status
          /\ \A w \in granted[n][l] : task[w].digest = task[b].digest
      BY <1>16, <2>4, <3>1, <3>2 DEF ReplayTellsTruth
    <3>4. outcome'[n][l] = outcome[n][l]
      BY <1>5, <1>6, <2>4, <3>1, <3>3 DEF Outcome
    <3>5. \A w \in granted[n][l] : task'[w].digest = task[w].digest
      BY <1>3 DEF SameCall, ManagerTypeOK
    <3> QED
      BY <1>7, <3>1, <3>2, <3>3, <3>4, <3>5
  <2> QED
    BY <2>3, <2>4 DEF ReplayTellsTruth
<1> QED
  BY <1>8, <1>9, <1>10, <1>12, <1>13, <1>14, <1>15, <1>16

LEMMA SettleStep ==
  ASSUME ManagerIInv, NEW c \in Call, SettleConsumed(c)
  PROVE  ManagerIInv'
<1> USE DEF ManagerIInv
<1>0. PICK m \in Mandate, k \in UseKey : m = task[c].mandate /\ k = task[c].key
  BY DEF ManagerTypeOK, CallRecord
<1>1. /\ task[c].rail = "settling"
      /\ SettleUse(m, k, outcome[m][k]) \/ UNCHANGED consumeVars
      /\ task' = [task EXCEPT ![c].rail = "recording"]
      /\ UNCHANGED <<store, states, ready, born, expired, rows, inQueue, granted, outcome, killed>>
  BY <1>0 DEF SettleConsumed
<1>2. /\ CallMoves(c) /\ task'[c].pc = task[c].pc /\ task'[c].answer = task[c].answer
      /\ task'[c].status = task[c].status
      /\ task'[c].dead = task[c].dead /\ task'[c].rail = "recording"
  BY <1>1, RailGoes
<1>3. task' \in [Call -> CallRecord] /\ (\A b \in Call : b # c => task'[b] = task[b])
      /\ \A b \in Call : SameCall(b)
  BY <1>2 DEF CallMoves
<1>4. outcome[m][k] \in Outcome
  BY <1>0, <1>1 DEF RailsOK, ManagerTypeOK
<1>5. /\ claims' \in [Mandate -> [UseKey -> Claim]] /\ sealed' = sealed
      /\ claims'[m][k] = claims[m][k]
           \/ /\ claims[m][k].status = "pending" /\ claims'[m][k].status = outcome[m][k]
              /\ claims'[m][k].digest = claims[m][k].digest
      /\ \A n \in Mandate, l \in UseKey : n # m \/ l # k => claims'[n][l] = claims[n][l]
  <2>1. claims \in [Mandate -> [UseKey -> Claim]]
    BY DEF ManagerTypeOK
  <2>2. CASE claims' = claims
    BY <1>1, <2>1, <2>2 DEF SettleUse, consumeVars
  <2>3. CASE claims[m][k].status = "pending" /\ SettleUse(m, k, outcome[m][k])
    <3> DEFINE x == [claims[m][k] EXCEPT !.status = outcome[m][k]]
    <3>1. claims' = [claims EXCEPT ![m] = [claims[m] EXCEPT ![k] = x]]
      BY <2>3 DEF SettleUse
    <3>2. x \in Claim /\ x.status = outcome[m][k] /\ x.digest = claims[m][k].digest
      BY <1>4, <2>1 DEF Claim
    <3> HIDE DEF x
    <3> QED
      BY <2>1, <2>3, <3>1, <3>2 DEF SettleUse
  <2> QED
    BY <1>1, <2>2, <2>3 DEF SettleUse, consumeVars
<1>6. \A n \in Mandate, l \in UseKey :
        (Claimed(n, l)' <=> Claimed(n, l)) /\ claims'[n][l].digest = claims[n][l].digest
  BY <1>4, <1>5 DEF Claimed, Outcome
<1>7. UNCHANGED <<store, sealed, states, ready, born, expired, rows, granted, outcome, killed>>
  BY <1>1, <1>5
<1>8. ManagerTypeOK'
  BY <1>3, <1>5, <1>7 DEF ManagerTypeOK, SameCall
<1>9. CallsOK'
  <2>1. ASSUME NEW b \in Call
        PROVE  /\ task'[b].pc \in {"queued", "claim", "row"} => task'[b].process \in ready'
               /\ task'[b].pc # "done" => task'[b].answer = "none" /\ task'[b].rail = "none"
               /\ task'[b].pc = "new" => ~task'[b].dead
               /\ task'[b].pc = "claim" => task'[b].mandate \notin sealed'
    BY <1>1, <1>2, <1>3, <1>7 DEF CallsOK, SameCall
  <2> QED
    BY <1>6, <1>7, <2>1 DEF CallsOK
<1>10. BirthOK'
  BY <1>7 DEF BirthOK, MandateRow
<1>11. ASSUME NEW b \in Call, NEW n, NEW l PROVE Recording(b, n, l)' <=> Recording(b, n, l)
  BY <1>2, <1>3 DEF Recording, SameCall
<1>12. ASSUME NEW n, NEW l, NEW d PROVE OnRecord(n, l, d)' <=> OnRecord(n, l, d)
  BY <1>7, OnRecordStays
<1>13. UsesOK' /\ BudgetOK' /\ GrantsOK'
  BY <1>2, <1>3, <1>6, <1>7, <1>11, <1>12, CallsRecord, CallGrants DEF Knows
<1>14. RailsOK'
  BY <1>0, <1>2, <1>4, <1>7, CallRails DEF Outcome
<1>15. ~RegisterLate => KillsOK'
  BY <1>2, <1>3, <1>7 DEF KillsOK, SameCall
<1>16. ASSUME OneMandatePerId PROVE OutcomesOK' /\ ReplayTellsTruth'
  <2>1. ASSUME NEW n \in Mandate, NEW l \in UseKey, claims'[n][l].status \in Outcome
        PROVE  outcome'[n][l] = claims'[n][l].status
    BY <1>5, <1>7, <1>16, <2>1 DEF OutcomesOK
  <2>2. OutcomesOK'
    BY <1>7, <1>16, <2>1 DEF OutcomesOK, MandateRow
  <2>3. task[c].answer # "replayed" \/ ~(task[c].status \in Outcome) \/ ReplayTellsTruth
    BY <1>16
  <2>4. ReplayTellsTruth'
    BY <1>2, <1>7, <1>16, CallReplays DEF ReplayTellsTruth
  <2> QED
    BY <2>2, <2>4
<1> QED
  BY <1>8, <1>9, <1>10, <1>12, <1>13, <1>14, <1>15, <1>16

LEMMA ResultStep ==
  ASSUME ManagerIInv, NEW c \in Call, RecordResult(c)
  PROVE  ManagerIInv'
<1> USE DEF ManagerIInv
<1>0. PICK m \in Mandate, k \in UseKey : m = task[c].mandate /\ k = task[c].key
  BY DEF ManagerTypeOK, CallRecord
<1> DEFINE r == MandateRow("result", "-", k, outcome[m][k])
<1>1. /\ task[c].rail = "recording"
      /\ rows' = rows \/ rows' = Append(rows, r)
      /\ task' = [task EXCEPT ![c].rail = "over"]
      /\ UNCHANGED <<store, claims, sealed, states, ready, born, expired, inQueue, granted, outcome,
                     killed>>
  BY <1>0 DEF RecordResult, Lands, Throws, consumeVars
<1>2. /\ CallMoves(c) /\ task'[c].pc = task[c].pc /\ task'[c].answer = task[c].answer
      /\ task'[c].status = task[c].status
      /\ task'[c].dead = task[c].dead /\ task'[c].rail = "over"
  BY <1>1, RailGoes
<1>3. outcome[m][k] \in Outcome /\ m \in KeyMandates[k]
  BY <1>0, <1>1 DEF RailsOK, ManagerTypeOK
<1>4. CASE rows' = rows
  <2>1. ~RegisterLate => (task'[c].dead =>
          /\ task'[c].pc \in {"queued", "done"} /\ task'[c].answer # "consumed"
          /\ task'[c].pc = "queued" => task[c].mandate \in killed[task[c].process])
    BY <1>2 DEF KillsOK
  <2>2. OneMandatePerId => (task'[c].answer = "replayed" /\ task'[c].status \in Outcome =>
          /\ outcome[task[c].mandate][task[c].key] = task'[c].status
          /\ \A w \in granted[task[c].mandate][task[c].key] : task[w].digest = task[c].digest)
    BY <1>2 DEF ReplayTellsTruth
  <2>3. /\ task'[c].pc \in {"queued", "claim", "row"} => task[c].process \in ready
        /\ task'[c].pc = "done"
    BY <1>1, <1>2 DEF CallsOK
  <2> QED
    BY <1>1, <1>2, <1>4, <2>1, <2>2, <2>3, CallAlone
<1>5. CASE rows' = Append(rows, r)
  <2>1. r \in ManagerRow
    BY <1>3, RowsWritten
  <2>2. task' \in [Call -> CallRecord] /\ (\A b \in Call : b # c => task'[b] = task[b])
        /\ \A b \in Call : SameCall(b)
    BY <1>2 DEF CallMoves
  <2>3. rows' \in Seq(ManagerRow)
    BY <1>5, <2>1, RowLands
  <2>4. ManagerTypeOK'
    BY <1>1, <2>2, <2>3 DEF ManagerTypeOK, SameCall
  <2>5. CallsOK'
    BY <1>1, <1>2, <2>2 DEF CallsOK, SameCall, Claimed
  <2>6. /\ \A n \in Mandate, l \in UseKey, d \in Digest : r # MandateRow("consumed", n, l, d)
        /\ \A n \in Mandate : r # MandateRow("issued", n, "-", "-")
        /\ \A n \in Mandate : r # MandateRow("revoked", n, "-", "-")
    BY RowsApart
  <2>7. \A n \in Mandate, l \in UseKey, d \in Digest : OnRecord(n, l, d)' <=> OnRecord(n, l, d)
    BY <1>5, <2>1, <2>6, OnRecordAfter
  <2>8. ASSUME NEW b \in Call, NEW n, NEW l PROVE Recording(b, n, l)' <=> Recording(b, n, l)
    BY <1>2, <2>2 DEF Recording, SameCall
  <2>9. UsesOK' /\ BudgetOK' /\ GrantsOK'
    BY <1>1, <1>2, <2>2, <2>7, <2>8, CallsRecord, CallGrants DEF Claimed, Knows
  <2>10. BirthOK'
    <3>1. \A p \in Instance, n \in Mandate : states'[p][n] # "unknown" => n \in born'
      BY <1>1 DEF BirthOK
    <3> QED
      BY <1>1, <1>5, <2>1, <2>6, <3>1, LifeStays
  <2>11. RailsOK'
    BY <1>1, <1>2, CallRails
  <2>12. ~RegisterLate => KillsOK'
    BY <1>1, <1>2, <2>2 DEF KillsOK, SameCall
  <2>13. ASSUME OneMandatePerId PROVE OutcomesOK' /\ ReplayTellsTruth'
    <3>1. ASSUME NEW l \in UseKey, NEW o \in Outcome, r = MandateRow("result", "-", l, o),
                 NEW n \in Mandate, n \in KeyMandates[l]
          PROVE  outcome[n][l] = o
      BY <1>3, <2>13, <3>1, RowsApart DEF OneMandatePerId
    <3>2. OutcomesOK'
      BY <1>1, <1>5, <2>1, <2>13, <3>1, ResultsStay
    <3>3. ReplayTellsTruth'
      BY <1>1, <1>2, <2>13, CallReplays DEF ReplayTellsTruth
    <3> QED
      BY <3>2, <3>3
  <2> QED
    BY <2>4, <2>5, <2>9, <2>10, <2>11, <2>12, <2>13
<1> QED
  BY <1>1, <1>4, <1>5

-----------------------------------------------------------------------------
(* consumeOnce() *)

LEMMA AskStep ==
  ASSUME ManagerIInv, NEW c \in Call, Ask(c)
  PROVE  ManagerIInv'
<1> USE DEF ManagerIInv
<1>1. task \in [Call -> CallRecord] /\ task[c].pc = "new" /\ task[c].process \in ready
  BY DEF Ask, ManagerTypeOK
<1>0. PICK dead \in BOOLEAN : dead <=> task[c].mandate \in killed[task[c].process]
  OBVIOUS
<1>2. task' = [task EXCEPT ![c] = [task[c] EXCEPT !.pc = "queued", !.dead = dead]]
  <2>1. dead = (task[c].mandate \in killed[task[c].process])
    BY <1>0
  <2> QED
    BY <1>1, <2>1 DEF Ask, CallRecord
<1>3. /\ CallMoves(c) /\ task'[c].pc = "queued" /\ task'[c].answer = task[c].answer
      /\ task'[c].status = task[c].status /\ task'[c].rail = task[c].rail
      /\ task'[c].dead = dead
  BY <1>1, <1>2 DEF CallMoves, SameCall, CallRecord
<1>4. UNCHANGED <<store, claims, sealed, states, ready, born, expired, rows, granted, outcome,
                  killed>>
  BY DEF Ask, consumeVars
<1>5. task[c].answer = "none" /\ task[c].rail = "none"
  BY <1>1 DEF CallsOK
<1> QED
  BY <1>0, <1>1, <1>3, <1>4, <1>5, CallAlone

(* A call that answers without "consumed". *)
LEMMA CallAnswers ==
  ASSUME ManagerIInv, NEW c \in Call, task[c].pc \in {"queued", "claim", "row"},
         NEW answer \in {"rejected", "replayed", "otherPayment", "threw"},
         NEW status \in {"none", "unresolved"} \cup Outcome,
         Leaves(c, answer, status),
         UNCHANGED <<store, claims, sealed, states, ready, born, expired, rows, granted, outcome,
                     killed>>,
         answer = "replayed" /\ status \in Outcome =>
           /\ Claimed(task[c].mandate, task[c].key)
           /\ claims[task[c].mandate][task[c].key].status = status
           /\ claims[task[c].mandate][task[c].key].digest = task[c].digest
  PROVE  ManagerIInv'
<1> USE DEF ManagerIInv
<1>1. /\ CallMoves(c)
      /\ task'[c].pc = "done" /\ task'[c].answer = answer /\ task'[c].status = status
      /\ task'[c].dead = task[c].dead /\ task'[c].rail = task[c].rail
  BY CallLeaves
<1>2. task[c].answer = "none" /\ task[c].rail = "none"
  BY DEF CallsOK
<1>3. ASSUME OneMandatePerId, answer = "replayed", status \in Outcome
      PROVE  /\ outcome[task[c].mandate][task[c].key] = status
             /\ \A w \in granted[task[c].mandate][task[c].key] : task[w].digest = task[c].digest
  <2>0. PICK m \in Mandate, k \in UseKey : m = task[c].mandate /\ k = task[c].key
    BY DEF ManagerTypeOK, CallRecord
  <2>1. outcome[m][k] = status
    BY <1>3, <2>0 DEF OutcomesOK
  <2>2. ASSUME NEW w \in granted[m][k] PROVE task[w].digest = task[c].digest
    <3>1. w \in Call /\ OnRecord(m, k, task[w].digest)
      BY <2>2 DEF GrantsOK, ManagerTypeOK
    <3>2. PICK d \in Digest : d = task[w].digest
      BY <3>1 DEF ManagerTypeOK, CallRecord
    <3>3. OnRecord(m, k, d)
      BY <3>1, <3>2
    <3> QED
      BY <1>3, <2>0, <3>2, <3>3 DEF UsesOK
  <2> QED
    BY <2>0, <2>1, <2>2
<1> QED
  BY <1>1, <1>2, <1>3, CallAlone

LEMMA ReplayAnswers ==
  ASSUME ManagerIInv, NEW c \in Call, task[c].pc \in {"queued", "claim", "row"},
         Claimed(task[c].mandate, task[c].key), AnswersReplay(c),
         UNCHANGED <<store, claims, sealed, states, ready, born, expired, rows, granted, outcome,
                     killed>>
  PROVE  ManagerIInv'
<1>0. PICK m \in Mandate, k \in UseKey : m = task[c].mandate /\ k = task[c].key
  BY DEF ManagerIInv, ManagerTypeOK, CallRecord
<1>1. claims[m][k] \in Claim /\ claims[m][k].status # "none"
  BY <1>0 DEF ManagerIInv, ManagerTypeOK, Claimed
<1> DEFINE status == IF claims[m][k].status = "pending" THEN "unresolved" ELSE claims[m][k].status
<1>2. status \in {"none", "unresolved"} \cup Outcome
  BY <1>1 DEF Claim
<1>3. \/ Leaves(c, "threw", "none")
      \/ claims[m][k].digest # task[c].digest /\ Leaves(c, "otherPayment", "none")
      \/ claims[m][k].digest = task[c].digest /\ Leaves(c, "replayed", status)
  BY <1>0 DEF AnswersReplay, Replays
<1>4. status \in Outcome => claims[m][k].status = status
  BY <1>1 DEF Outcome
<1> HIDE DEF status
<1>5. CASE Leaves(c, "threw", "none")
  BY <1>5, CallAnswers
<1>6. CASE Leaves(c, "otherPayment", "none")
  BY <1>6, CallAnswers
<1>7. CASE claims[m][k].digest = task[c].digest /\ Leaves(c, "replayed", status)
  BY <1>0, <1>2, <1>4, <1>7, CallAnswers
<1> QED
  BY <1>3, <1>5, <1>6, <1>7

LEMMA LookupStep ==
  ASSUME ManagerIInv, NEW c \in Call, Lookup(c)
  PROVE  ManagerIInv'
<1> USE DEF ManagerIInv
<1>1. /\ task[c].pc = "queued"
      /\ UNCHANGED <<store, claims, sealed, states, ready, born, expired, rows, granted, outcome,
                     killed>>
  BY DEF Lookup, consumeVars
<1>2. CASE Claimed(task[c].mandate, task[c].key) /\ AnswersReplay(c)
  BY <1>1, <1>2, ReplayAnswers
<1>3. CASE Leaves(c, "rejected", "none")
  BY <1>1, <1>3, CallAnswers
<1>4. CASE Valid(task[c].process, task[c].mandate) /\ Goes(c, "claim")
  <2>1. /\ CallMoves(c) /\ task'[c].pc = "claim" /\ task'[c].answer = task[c].answer
        /\ task'[c].status = task[c].status
        /\ task'[c].dead = task[c].dead /\ task'[c].rail = task[c].rail
    BY <1>4, CallGoes
  <2>2. /\ task[c].process \in ready /\ task[c].answer = "none" /\ task[c].rail = "none"
        /\ task[c].mandate \notin sealed
    BY <1>1, <1>4 DEF CallsOK, Valid
  <2>3. ~RegisterLate => ~task[c].dead
    BY <1>1, <1>4 DEF KillsOK, Valid, ManagerTypeOK, CallRecord
  <2> QED
    BY <1>1, <2>1, <2>2, <2>3, CallAlone
<1> QED
  BY <1>2, <1>3, <1>4 DEF Lookup

LEMMA ClaimStep ==
  ASSUME ManagerIInv, NEW c \in Call, ClaimUse(c) \/ ClaimThrows(c)
  PROVE  ManagerIInv'
<1> USE DEF ManagerIInv
<1> DEFINE same == UNCHANGED <<claims, sealed>>
<1>1. /\ task[c].pc = "claim"
      /\ UNCHANGED <<store, states, ready, born, expired, rows, granted, outcome, killed>>
  BY DEF ClaimUse, ClaimThrows
<1>2. CASE same /\ Claimed(task[c].mandate, task[c].key) /\ AnswersReplay(c)
  BY <1>1, <1>2, ReplayAnswers
<1>3. CASE same /\ Leaves(c, "rejected", "none")
  BY <1>1, <1>3, CallAnswers
<1>4. CASE same /\ Leaves(c, "threw", "none")
  BY <1>1, <1>4, CallAnswers
<1>5. CASE ClaimWon(task[c].mandate, task[c].key, task[c].digest) /\ Leaves(c, "threw", "none")
  <2>1. /\ CallMoves(c)
        /\ task'[c].pc = "done" /\ task'[c].answer = "threw"
        /\ task'[c].dead = task[c].dead /\ task'[c].rail = task[c].rail
    BY <1>5, CallLeaves
  <2> QED
    BY <1>1, <1>5, <2>1, UseClaimed
<1>6. CASE ClaimWon(task[c].mandate, task[c].key, task[c].digest) /\ Goes(c, "row")
  <2>1. /\ CallMoves(c)
        /\ task'[c].pc = "row" /\ task'[c].answer = task[c].answer
        /\ task'[c].dead = task[c].dead /\ task'[c].rail = task[c].rail
    BY <1>6, CallGoes
  <2> QED
    BY <1>1, <1>6, <2>1, UseClaimed
<1> QED
  BY <1>2, <1>3, <1>4, <1>5, <1>6 DEF ClaimUse, ClaimThrows, ClaimDuplicate, ClaimExhausted, consumeVars

LEMMA RecordUseStep ==
  ASSUME ManagerIInv, NEW c \in Call, RecordUse(c)
  PROVE  ManagerIInv'
<1> USE DEF ManagerIInv
<1>1. /\ task[c].pc = "row"
      /\ UNCHANGED <<store, claims, sealed, states, ready, born, expired, outcome, killed>>
  BY DEF RecordUse, UseRecorded, consumeVars
<1>2. CASE rows' = rows /\ Leaves(c, "threw", "none") /\ granted' = granted
  BY <1>1, <1>2, CallAnswers
<1>3. CASE rows' = Append(rows, UseRow(c)) /\ Leaves(c, "threw", "none") /\ granted' = granted
  <2>1. /\ CallMoves(c)
        /\ task'[c].pc = "done" /\ task'[c].answer = "threw"
        /\ task'[c].dead = task[c].dead /\ task'[c].rail = task[c].rail
    BY <1>3, CallLeaves
  <2> QED
    BY <1>1, <1>3, <2>1, UseLands
<1>4. CASE rows' = Append(rows, UseRow(c)) /\ Grants(c)
  <2>1. /\ CallMoves(c)
        /\ task'[c].pc = "done" /\ task'[c].answer = "consumed"
        /\ task'[c].dead = task[c].dead /\ task'[c].rail = task[c].rail
    BY <1>4, CallLeaves DEF Grants
  <2> QED
    BY <1>1, <1>4, <2>1, UseLands DEF Grants
<1> QED
  BY <1>2, <1>3, <1>4 DEF RecordUse, UseRecorded, Lands, Throws

-----------------------------------------------------------------------------
(* Mandates come and go: no call moves, and nothing that is known of a use  *)
(* is forgotten before its mandate is dead for good. *)

LEMMA UsesStay ==
  ASSUME ManagerIInv, ManagerTypeOK', UNCHANGED <<task, store, ready, granted, outcome>>,
         sealed \subseteq sealed',
         \A m \in Mandate, k \in UseKey, d \in Digest : OnRecord(m, k, d)' <=> OnRecord(m, k, d),
         \A m \in Mandate, k \in UseKey :
           /\ Claimed(m, k)' => Claimed(m, k)
           /\ m \notin sealed' /\ Claimed(m, k) => Claimed(m, k)'
           /\ claims'[m][k].digest = claims[m][k].digest
  PROVE  /\ UsesOK' /\ GrantsOK' /\ BudgetOK' /\ RailsOK'
         /\ OneMandatePerId => ReplayTellsTruth'
<1> USE DEF ManagerIInv
<1>1. \A b \in Call : \A n, l : Recording(b, n, l)' <=> Recording(b, n, l)
  BY DEF Recording
<1>2. \A n \in Mandate : Knows(n)' => Knows(n) /\ n \notin sealed'
  BY DEF Knows
<1>3. task' \in [Call -> CallRecord] /\ \A b \in Call : SameCall(b)
  BY DEF SameCall, ManagerTypeOK
<1>4. UsesOK' /\ BudgetOK'
  BY <1>1, <1>2, <1>3, CallsRecord
<1>5. GrantsOK'
  BY <1>3, CallGrants
<1>6. RailsOK'
  BY DEF RailsOK
<1>7. OneMandatePerId => ReplayTellsTruth'
  BY DEF ReplayTellsTruth
<1> QED
  BY <1>4, <1>5, <1>6, <1>7

LEMMA RegisterStep ==
  ASSUME ManagerIInv, NEW p \in Instance, NEW m \in Mandate, Register(p, m)
  PROVE  ManagerIInv'
<1> USE DEF ManagerIInv
<1>1. /\ m \in born /\ (p \in ready => RegisterLate)
      /\ states' = [states EXCEPT ![p] = [states[p] EXCEPT ![m] = "live"]]
      /\ UNCHANGED <<store, claims, sealed, ready, born, expired, rows, task, granted, outcome,
                     killed>>
  BY DEF Register, consumeVars
<1>2. ManagerTypeOK'
  BY <1>1 DEF ManagerTypeOK
<1>3. states \in [Instance -> [Mandate -> {"unknown", "live", "revoked"}]]
  BY DEF ManagerTypeOK
<1>4. \A q \in Instance, n \in Mandate : (q = p /\ n = m) \/ states'[q][n] = states[q][n]
  BY <1>1, <1>3
<1>5. CallsOK'
  BY <1>1 DEF CallsOK, Claimed
<1>6. BirthOK'
  <2>1. \A q \in Instance, n \in Mandate : states'[q][n] # "unknown" => n \in born'
    BY <1>1, <1>4 DEF BirthOK
  <2> QED
    BY <1>1, <2>1 DEF BirthOK, MandateRow
<1>7. \A n, l, d : OnRecord(n, l, d)' <=> OnRecord(n, l, d)
  BY <1>1, OnRecordStays
<1>8. /\ UsesOK' /\ GrantsOK' /\ BudgetOK' /\ RailsOK'
      /\ OneMandatePerId => ReplayTellsTruth'
  BY <1>1, <1>2, <1>7, UsesStay DEF Claimed
<1>9. ASSUME ~RegisterLate PROVE KillsOK'
  <2>1. \A q \in Instance : \A n \in killed'[q] :
          q \in ready' /\ n \in born' /\ states'[q][n] # "live"
    BY <1>1, <1>4, <1>9 DEF KillsOK, ManagerTypeOK
  <2> QED
    BY <1>1, <1>9, <2>1 DEF KillsOK
<1>10. OneMandatePerId => OutcomesOK'
  BY <1>1 DEF OutcomesOK, MandateRow
<1> QED
  BY <1>2, <1>5, <1>6, <1>8, <1>9, <1>10

LEMMA ExpireStep ==
  ASSUME ManagerIInv, NEW m \in Mandate, Expire(m)
  PROVE  ManagerIInv'
<1> USE DEF ManagerIInv
<1>1. /\ expired' = expired \cup {m}
      /\ UNCHANGED <<store, claims, sealed, states, ready, born, rows, task, granted, outcome,
                     killed>>
  BY DEF Expire, consumeVars
<1>2. ManagerTypeOK'
  BY <1>1 DEF ManagerTypeOK
<1>3. CallsOK'
  BY <1>1 DEF CallsOK, Claimed
<1>4. BirthOK'
  BY <1>1 DEF BirthOK, MandateRow
<1>5. \A n, l, d : OnRecord(n, l, d)' <=> OnRecord(n, l, d)
  BY <1>1, OnRecordStays
<1>6. /\ UsesOK' /\ GrantsOK' /\ BudgetOK' /\ RailsOK'
      /\ OneMandatePerId => ReplayTellsTruth'
  BY <1>1, <1>2, <1>5, UsesStay DEF Claimed
<1>7. ~RegisterLate => KillsOK'
  BY <1>1 DEF KillsOK
<1>8. OneMandatePerId => OutcomesOK'
  BY <1>1 DEF OutcomesOK, MandateRow
<1> QED
  BY <1>2, <1>3, <1>4, <1>6, <1>7, <1>8

LEMMA PruneStep ==
  ASSUME ManagerIInv, NEW m \in Mandate, Prune(m)
  PROVE  ManagerIInv'
<1> USE DEF ManagerIInv
<1>1. /\ m \in expired /\ sealed' = sealed \cup {m}
      /\ \A c \in Call : task[c].mandate = m => task[c].pc # "claim"
      /\ UNCHANGED <<store, states, ready, born, expired, rows, task, granted, outcome, killed>>
  BY DEF Prune
<1>2. /\ claims' \in [Mandate -> [UseKey -> Claim]]
      /\ \A n \in Mandate, l \in UseKey :
           /\ claims'[n][l].digest = claims[n][l].digest
           /\ n = m => claims'[n][l].status = "none"
           /\ n # m => claims'[n][l] = claims[n][l]
  <2>1. claims \in [Mandate -> [UseKey -> Claim]]
    BY DEF ManagerTypeOK
  <2> DEFINE row == [l \in UseKey |-> [claims[m][l] EXCEPT !.status = "none"]]
  <2>2. claims' = [claims EXCEPT ![m] = row]
    BY DEF Prune
  <2>3. /\ row \in [UseKey -> Claim]
        /\ \A l \in UseKey : row[l].status = "none" /\ row[l].digest = claims[m][l].digest
    BY <2>1 DEF Claim
  <2> HIDE DEF row
  <2> QED
    BY <2>1, <2>2, <2>3
<1>3. ManagerTypeOK'
  BY <1>1, <1>2 DEF ManagerTypeOK
<1>4. \A n \in Mandate, l \in UseKey :
        /\ Claimed(n, l)' => Claimed(n, l)
        /\ n \notin sealed' /\ Claimed(n, l) => Claimed(n, l)'
        /\ claims'[n][l].digest = claims[n][l].digest
  BY <1>1, <1>2 DEF Claimed
<1>5. CallsOK'
  BY <1>1, <1>4 DEF CallsOK
<1>6. BirthOK'
  BY <1>1 DEF BirthOK, MandateRow
<1>7. \A n, l, d : OnRecord(n, l, d)' <=> OnRecord(n, l, d)
  BY <1>1, OnRecordStays
<1>8. /\ UsesOK' /\ GrantsOK' /\ BudgetOK' /\ RailsOK'
      /\ OneMandatePerId => ReplayTellsTruth'
  BY <1>1, <1>3, <1>4, <1>7, UsesStay
<1>9. ~RegisterLate => KillsOK'
  BY <1>1 DEF KillsOK
<1>10. ASSUME OneMandatePerId PROVE OutcomesOK'
  <2>1. \A n \in Mandate, l \in UseKey : claims'[n][l].status \in Outcome =>
          outcome'[n][l] = claims'[n][l].status
    BY <1>1, <1>2, <1>10 DEF OutcomesOK, Outcome
  <2> QED
    BY <1>1, <1>10, <2>1 DEF OutcomesOK, MandateRow
<1> QED
  BY <1>3, <1>5, <1>6, <1>8, <1>9, <1>10

LEMMA RevokeStep ==
  ASSUME ManagerIInv, NEW p \in Instance, NEW m \in Mandate, Revoke(p, m)
  PROVE  ManagerIInv'
<1> USE DEF ManagerIInv
<1> DEFINE r == MandateRow("revoked", m, "-", "-")
<1>1. /\ p \in ready /\ states[p][m] = "live"
      /\ states' = [states EXCEPT ![p] = [states[p] EXCEPT ![m] = "revoked"]]
      /\ rows' = rows \/ rows' = Append(rows, r)
      /\ killed' = killed \/ killed' = [killed EXCEPT ![p] = killed[p] \cup {m}]
      /\ UNCHANGED <<store, claims, sealed, ready, born, expired, task, granted, outcome>>
  BY DEF Revoke, consumeVars, Lands, Throws
<1>2. m \in born
  BY <1>1 DEF BirthOK
<1>3. r \in ManagerRow
  BY LifeRowsWritten
<1>4. states \in [Instance -> [Mandate -> {"unknown", "live", "revoked"}]]
      /\ killed \in [Instance -> SUBSET Mandate]
  BY DEF ManagerTypeOK
<1>5. /\ states' \in [Instance -> [Mandate -> {"unknown", "live", "revoked"}]]
      /\ states'[p][m] = "revoked"
      /\ \A q \in Instance, n \in Mandate : (q = p /\ n = m) \/ states'[q][n] = states[q][n]
  BY <1>1, <1>4
<1>6. /\ killed' \in [Instance -> SUBSET Mandate]
      /\ \A q \in Instance : killed[q] \subseteq killed'[q]
      /\ \A q \in Instance : \A n \in killed'[q] : n \in killed[q] \/ (q = p /\ n = m)
  BY <1>1, <1>4
<1>7. rows' \in Seq(ManagerRow)
  BY <1>1, <1>3, RowLands DEF ManagerTypeOK
<1>8. ManagerTypeOK'
  BY <1>1, <1>5, <1>6, <1>7 DEF ManagerTypeOK
<1>9. CallsOK'
  BY <1>1 DEF CallsOK, Claimed
<1>10. \A q \in Instance, n \in Mandate : states'[q][n] # "unknown" => n \in born'
  BY <1>1, <1>2, <1>5 DEF BirthOK
<1>11. BirthOK'
  <2>1. CASE rows' = rows
    BY <1>1, <1>10, <2>1 DEF BirthOK, MandateRow
  <2>2. CASE rows' = Append(rows, r)
    <3>1. /\ \A n \in Mandate : r # MandateRow("issued", n, "-", "-")
          /\ \A n \in Mandate : r = MandateRow("revoked", n, "-", "-") => n \in born
      BY <1>2, RowsApart
    <3> HIDE DEF r
    <3> QED
      BY <1>1, <1>3, <1>10, <2>2, <3>1, LifeStays
  <2> QED
    BY <1>1, <2>1, <2>2
<1>12. \A n \in Mandate, l \in UseKey, d \in Digest : OnRecord(n, l, d)' <=> OnRecord(n, l, d)
  <2>1. CASE rows' = rows
    BY <2>1, OnRecordStays
  <2>2. CASE rows' = Append(rows, r)
    <3>1. \A n \in Mandate, l \in UseKey, d \in Digest : r # MandateRow("consumed", n, l, d)
      BY RowsApart
    <3> QED
      BY <1>3, <2>2, <3>1, OnRecordAfter
  <2> QED
    BY <1>1, <2>1, <2>2
<1>13. /\ UsesOK' /\ GrantsOK' /\ BudgetOK' /\ RailsOK'
       /\ OneMandatePerId => ReplayTellsTruth'
  BY <1>1, <1>8, <1>12, UsesStay DEF Claimed
<1>14. ASSUME ~RegisterLate PROVE KillsOK'
  <2>1. \A q \in Instance : \A n \in killed'[q] :
          q \in ready' /\ n \in born' /\ states'[q][n] # "live"
    BY <1>1, <1>2, <1>5, <1>6, <1>14 DEF KillsOK, ManagerTypeOK
  <2>2. ASSUME NEW c \in Call, task'[c].dead
        PROVE  /\ task'[c].pc \in {"queued", "done"} /\ task'[c].answer # "consumed"
               /\ task'[c].pc = "queued" => task'[c].mandate \in killed'[task'[c].process]
    <3>1. task[c].process \in Instance
      BY DEF ManagerTypeOK, CallRecord
    <3> QED
      BY <1>1, <1>6, <1>14, <2>2, <3>1 DEF KillsOK
  <2> QED
    BY <2>1, <2>2 DEF KillsOK
<1>15. ASSUME OneMandatePerId PROVE OutcomesOK'
  <2>1. CASE rows' = rows
    BY <1>1, <1>15, <2>1 DEF OutcomesOK, MandateRow
  <2>2. CASE rows' = Append(rows, r)
    <3>1. \A l \in UseKey, o \in Outcome : r # MandateRow("result", "-", l, o)
      BY RowsApart
    <3> HIDE DEF r
    <3> QED
      BY <1>1, <1>3, <1>15, <2>2, <3>1, ResultsStay
  <2> QED
    BY <1>1, <2>1, <2>2
<1> QED
  BY <1>8, <1>9, <1>11, <1>13, <1>14, <1>15

LEMMA IssueStep ==
  ASSUME ManagerIInv, NEW p \in Instance, NEW m \in Mandate, Issue(p, m)
  PROVE  ManagerIInv'
<1> USE DEF ManagerIInv
<1> DEFINE r == MandateRow("issued", m, "-", "-")
<1>1. /\ p \in ready /\ m \notin born /\ born' = born \cup {m}
      /\ states' = [states EXCEPT ![p] = [states[p] EXCEPT ![m] = "live"]]
      /\ rows' = rows \/ rows' = Append(rows, r)
      /\ UNCHANGED <<store, claims, sealed, ready, expired, task, granted, outcome, killed>>
  BY DEF Issue, consumeVars, Lands, Throws
<1>3. r \in ManagerRow
  BY LifeRowsWritten
<1>4. states \in [Instance -> [Mandate -> {"unknown", "live", "revoked"}]]
  BY DEF ManagerTypeOK
<1>5. /\ states' \in [Instance -> [Mandate -> {"unknown", "live", "revoked"}]]
      /\ \A q \in Instance, n \in Mandate : (q = p /\ n = m) \/ states'[q][n] = states[q][n]
  BY <1>1, <1>4
<1>7. rows' \in Seq(ManagerRow)
  BY <1>1, <1>3, RowLands DEF ManagerTypeOK
<1>8. ManagerTypeOK'
  BY <1>1, <1>5, <1>7 DEF ManagerTypeOK
<1>9. CallsOK'
  BY <1>1 DEF CallsOK, Claimed
<1>10. \A q \in Instance, n \in Mandate : states'[q][n] # "unknown" => n \in born'
  BY <1>1, <1>5 DEF BirthOK
<1>11. BirthOK'
  <2>1. CASE rows' = rows
    BY <1>1, <1>10, <2>1 DEF BirthOK, MandateRow
  <2>2. CASE rows' = Append(rows, r)
    <3>1. /\ rows' \in Seq(ManagerRow) /\ Len(rows) \in Nat /\ Len(rows') = Len(rows) + 1
          /\ \A i \in 1..Len(rows) : rows'[i] = rows[i]
          /\ rows'[Len(rows) + 1] = r
      BY <1>3, <2>2, RowLands
    <3>2. \A i \in 1..Len(rows') : i \in 1..Len(rows) \/ i = Len(rows) + 1
      BY <3>1
    <3>3. \A n \in Mandate : r # MandateRow("revoked", n, "-", "-")
      BY RowsApart
    <3>4. \A n \in Mandate : r = MandateRow("issued", n, "-", "-") => n = m
      BY RowsApart
    <3> HIDE DEF r
    <3>5. ASSUME NEW i \in 1..Len(rows'), NEW n \in Mandate,
                 rows'[i] \in {MandateRow("issued", n, "-", "-"),
                               MandateRow("revoked", n, "-", "-")}
          PROVE  n \in born'
      BY <1>1, <3>1, <3>2, <3>3, <3>4, <3>5 DEF BirthOK
    <3>6. ASSUME NEW i \in 1..Len(rows'), NEW j \in 1..Len(rows'), NEW n \in Mandate,
                 rows'[i] = MandateRow("issued", n, "-", "-"),
                 rows'[j] = MandateRow("revoked", n, "-", "-")
          PROVE  i < j
      <4>1. j \in 1..Len(rows) /\ rows[j] = MandateRow("revoked", n, "-", "-")
        BY <3>1, <3>2, <3>3, <3>6
      <4>2. n \in born
        BY <4>1 DEF BirthOK
      <4>3. i \in 1..Len(rows) /\ rows[i] = MandateRow("issued", n, "-", "-")
        BY <1>1, <3>1, <3>2, <3>4, <3>6, <4>2
      <4> QED
        BY <4>1, <4>3 DEF BirthOK
    <3> QED
      BY <1>10, <3>5, <3>6 DEF BirthOK, MandateRow
  <2> QED
    BY <1>1, <2>1, <2>2
<1>12. \A n \in Mandate, l \in UseKey, d \in Digest : OnRecord(n, l, d)' <=> OnRecord(n, l, d)
  <2>1. CASE rows' = rows
    BY <2>1, OnRecordStays
  <2>2. CASE rows' = Append(rows, r)
    <3>1. \A n \in Mandate, l \in UseKey, d \in Digest : r # MandateRow("consumed", n, l, d)
      BY RowsApart
    <3> QED
      BY <1>3, <2>2, <3>1, OnRecordAfter
  <2> QED
    BY <1>1, <2>1, <2>2
<1>13. /\ UsesOK' /\ GrantsOK' /\ BudgetOK' /\ RailsOK'
       /\ OneMandatePerId => ReplayTellsTruth'
  BY <1>1, <1>8, <1>12, UsesStay DEF Claimed
<1>14. ASSUME ~RegisterLate PROVE KillsOK'
  <2>1. \A q \in Instance : \A n \in killed'[q] :
          q \in ready' /\ n \in born' /\ states'[q][n] # "live"
    BY <1>1, <1>5, <1>14 DEF KillsOK, ManagerTypeOK
  <2> QED
    BY <1>1, <1>14, <2>1 DEF KillsOK
<1>15. ASSUME OneMandatePerId PROVE OutcomesOK'
  <2>1. CASE rows' = rows
    BY <1>1, <1>15, <2>1 DEF OutcomesOK, MandateRow
  <2>2. CASE rows' = Append(rows, r)
    <3>1. \A l \in UseKey, o \in Outcome : r # MandateRow("result", "-", l, o)
      BY RowsApart
    <3> HIDE DEF r
    <3> QED
      BY <1>1, <1>3, <1>15, <2>2, <3>1, ResultsStay
  <2> QED
    BY <1>1, <2>1, <2>2
<1> QED
  BY <1>8, <1>9, <1>11, <1>13, <1>14, <1>15

-----------------------------------------------------------------------------
(* Replaying: hydrateFromLedger() reads one row after the other. *)

LEMMA LeastOf ==
  ASSUME NEW S \in SUBSET Nat, S # {}
  PROVE  \E n \in S : \A m \in S : n <= m
<1> DEFINE R == {pair \in Nat \X Nat : pair[1] < pair[2]}
<1>1. IsWellFoundedOn(R, Nat)
  BY NatLessThanWellFounded DEF OpToRel
<1>2. \A m, n \in Nat : m < n => <<m, n>> \in R
  OBVIOUS
<1> HIDE DEF R
<1>3. PICK n \in S : \A m \in S : <<m, n>> \notin R
  BY <1>1, WFMin
<1>4. \A m \in S : n <= m
  <2> SUFFICES ASSUME NEW m \in S, ~(n <= m) PROVE FALSE
    OBVIOUS
  <2>1. m \in Nat /\ n \in Nat /\ m < n
    OBVIOUS
  <2> QED
    BY <1>2, <1>3, <2>1
<1> QED
  BY <1>4

(* The states after each of the first k rows, from s. *)
ReplaySteps(after, s, k) ==
  after = [n \in 0..k |-> IF n = 0 THEN s ELSE Replay(after[n - 1], rows[n])]

LEMMA ReplayStepsExist ==
  ASSUME NEW s, NEW k \in Nat
  PROVE  \E after : ReplaySteps(after, s, k)
<1> DEFINE T == {n \in Nat : ~\E after : ReplaySteps(after, s, n)}
<1>1. ASSUME T # {} PROVE FALSE
  <2>1. PICK n \in T : \A m \in T : n <= m
    BY <1>1, LeastOf
  <2>2. n \in Nat /\ ~\E after : ReplaySteps(after, s, n)
    BY <2>1
  <2>3. CASE n = 0
    <3> DEFINE g == [i \in 0..0 |-> s]
    <3>1. g = [i \in 0..0 |-> IF i = 0 THEN s ELSE Replay(g[i - 1], rows[i])]
      OBVIOUS
    <3> HIDE DEF g
    <3> QED
      BY <2>2, <2>3, <3>1 DEF ReplaySteps
  <2>4. CASE n > 0
    <3>1. n - 1 \in Nat /\ n - 1 \notin T
      BY <2>1, <2>2, <2>4
    <3>2. PICK f : ReplaySteps(f, s, n - 1)
      BY <3>1
    <3> DEFINE g == [i \in 0..n |-> IF i < n THEN f[i] ELSE Replay(f[n - 1], rows[n])]
               h == [i \in 0..n |-> IF i = 0 THEN s ELSE Replay(g[i - 1], rows[i])]
    <3>3. ASSUME NEW i \in 0..n PROVE g[i] = h[i]
      <4>1. CASE i = n
        BY <2>2, <2>4, <4>1
      <4>2. CASE i < n
        <5>1. f[i] = IF i = 0 THEN s ELSE Replay(f[i - 1], rows[i])
          BY <2>2, <3>2, <4>2 DEF ReplaySteps
        <5>2. i # 0 => i - 1 \in 0..n /\ i - 1 < n
          BY <2>2, <4>2
        <5> QED
          BY <4>2, <5>1, <5>2
      <4> QED
        BY <2>2, <4>1, <4>2
    <3>4. g = h
      BY <3>3
    <3> HIDE DEF g
    <3> QED
      BY <2>2, <3>4 DEF ReplaySteps
  <2> QED
    BY <2>2, <2>3, <2>4
<1> QED
  BY <1>1

LEMMA ReplayedIsTheLast ==
  ASSUME NEW s, Len(rows) \in Nat
  PROVE  \E f : ReplaySteps(f, s, Len(rows)) /\ Replayed(s) = f[Len(rows)]
<1> DEFINE f == CHOOSE after : ReplaySteps(after, s, Len(rows))
<1>1. ReplaySteps(f, s, Len(rows))
  BY ReplayStepsExist
<1>2. Replayed(s) = f[Len(rows)]
  BY DEF Replayed, ReplaySteps
<1> QED
  BY <1>1, <1>2

Replica ==
  [states : [Mandate -> {"unknown", "live", "revoked"}],
   claims : [Mandate -> [UseKey -> Claim]], waiting : [UseKey -> Seq(Mandate)]]

(* What has been read after the first n rows: the mandates that were born,   *)
(* no revoked one alive; the claims there were and the uses among the rows;  *)
(* the outcomes that came to be.                                             *)
ReadAfter(acc, n) ==
  /\ acc \in Replica
  /\ \A m \in Mandate : acc.states[m] # "unknown" => m \in born
  /\ \A i \in 1..n, m \in Mandate :
       rows[i] = MandateRow("revoked", m, "-", "-") => acc.states[m] # "live"
  /\ \A m \in Mandate, k \in UseKey :
       /\ Claimed(m, k) => acc.claims[m][k].status # "none"
                           /\ acc.claims[m][k].digest = claims[m][k].digest
       /\ \A d \in Digest : UsedBy(n, m, k, d) => acc.claims[m][k].status # "none"
       /\ ~Claimed(m, k) /\ acc.claims[m][k].status # "none" =>
            UsedBy(n, m, k, acc.claims[m][k].digest)
       /\ OneMandatePerId /\ acc.claims[m][k].status \in Outcome =>
            outcome[m][k] = acc.claims[m][k].status
  /\ \A k \in UseKey : acc.waiting[k] \in Seq({m \in Mandate : m \in KeyMandates[k]})

LEMMA UsedByNext ==
  ASSUME NEW n \in Nat, n > 0, NEW m, NEW k, NEW d
  PROVE  UsedBy(n, m, k, d) <=> UsedBy(n - 1, m, k, d) \/ rows[n] = MandateRow("consumed", m, k, d)
<1> DEFINE u == MandateRow("consumed", m, k, d)
<1>1. \A i : i \in 1..n <=> i \in 1..(n - 1) \/ i = n
  OBVIOUS
<1> HIDE DEF u
<1>2. (\E i \in 1..n : rows[i] = u) <=> (\E i \in 1..(n - 1) : rows[i] = u) \/ rows[n] = u
  BY <1>1
<1> QED
  BY <1>2 DEF UsedBy, u

(* A row that is no use leaves the uses. *)
LEMMA NoUse ==
  ASSUME NEW n \in Nat, n > 0, NEW m, NEW k, NEW d, rows[n].type # "consumed"
  PROVE  UsedBy(n, m, k, d) <=> UsedBy(n - 1, m, k, d)
<1>1. rows[n] # MandateRow("consumed", m, k, d)
  BY DEF MandateRow
<1> QED
  BY <1>1, UsedByNext

LEMMA ReadIssued ==
  ASSUME ManagerIInv, NEW n \in 1..Len(rows), NEW acc, ReadAfter(acc, n - 1), NEW m \in Mandate,
         rows[n] = MandateRow("issued", m, "-", "-")
  PROVE  ReadAfter(Replay(acc, rows[n]), n)
<1> DEFINE after == [acc.states EXCEPT ![m] = IF acc.states[m] = "unknown" THEN "live" ELSE @]
           next == [states |-> after, claims |-> acc.claims, waiting |-> acc.waiting]
<1>1. acc \in Replica /\ Len(rows) \in Nat /\ n \in Nat /\ n > 0 /\ n <= Len(rows)
  BY DEF ReadAfter, ManagerIInv, ManagerTypeOK
<1>2. rows[n].type = "issued" /\ rows[n].mandate = m
  BY DEF MandateRow
<1>3. Replay(acc, rows[n]) = next
  BY <1>1, <1>2 DEF Replay, Replica
<1>4. /\ next \in Replica /\ next.states = after /\ next.claims = acc.claims
      /\ next.waiting = acc.waiting
  BY <1>1 DEF Replica
<1>5. /\ \A k \in Mandate : k # m => after[k] = acc.states[k]
      /\ after[m] = "live" \/ after[m] = acc.states[m]
  BY <1>1 DEF Replica
<1>6. m \in born /\ \A i \in 1..n : rows[i] # MandateRow("revoked", m, "-", "-")
  <2>1. \A i \in 1..Len(rows) : rows[i] = MandateRow("revoked", m, "-", "-") => n < i
    BY DEF ManagerIInv, BirthOK
  <2> QED
    BY <1>1, <2>1 DEF ManagerIInv, BirthOK
<1> HIDE DEF next, after
<1>7. \A k \in Mandate : next.states[k] # "unknown" => k \in born
  BY <1>4, <1>5, <1>6 DEF ReadAfter
<1>8. ASSUME NEW i \in 1..n, NEW k \in Mandate, rows[i] = MandateRow("revoked", k, "-", "-")
      PROVE  next.states[k] # "live"
  <2>1. k # m
    BY <1>6, <1>8
  <2>2. i # n
    BY <1>2, <1>8 DEF MandateRow
  <2>3. i \in 1..(n - 1)
    BY <1>1, <2>2
  <2> QED
    BY <1>4, <1>5, <1>8, <2>1, <2>3 DEF ReadAfter
<1>9. \A k \in Mandate, l \in UseKey : \A d : UsedBy(n, k, l, d) <=> UsedBy(n - 1, k, l, d)
  BY <1>1, <1>2, NoUse
<1> QED
  BY <1>3, <1>4, <1>7, <1>8, <1>9 DEF ReadAfter

LEMMA ReadRevoked ==
  ASSUME ManagerIInv, NEW n \in 1..Len(rows), NEW acc, ReadAfter(acc, n - 1), NEW m \in Mandate,
         rows[n] = MandateRow("revoked", m, "-", "-")
  PROVE  ReadAfter(Replay(acc, rows[n]), n)
<1> DEFINE after == [acc.states EXCEPT ![m] = IF acc.states[m] = "unknown" THEN @ ELSE "revoked"]
           next == [states |-> after, claims |-> acc.claims, waiting |-> acc.waiting]
<1>1. acc \in Replica /\ Len(rows) \in Nat /\ n \in Nat /\ n > 0 /\ n <= Len(rows)
  BY DEF ReadAfter, ManagerIInv, ManagerTypeOK
<1>2. rows[n].type = "revoked" /\ rows[n].mandate = m
  BY DEF MandateRow
<1>3. Replay(acc, rows[n]) = next
  BY <1>1, <1>2 DEF Replay, Restores, Replica
<1>4. /\ next \in Replica /\ next.states = after /\ next.claims = acc.claims
      /\ next.waiting = acc.waiting
  BY <1>1 DEF Replica
<1>5. /\ \A k \in Mandate : k # m => after[k] = acc.states[k]
      /\ after[m] \in {"unknown", "revoked"} /\ (after[m] = "unknown" <=> acc.states[m] = "unknown")
  BY <1>1 DEF Replica
<1> HIDE DEF next, after
<1>7. \A k \in Mandate : next.states[k] # "unknown" => k \in born
  BY <1>4, <1>5 DEF ReadAfter
<1>8. ASSUME NEW i \in 1..n, NEW k \in Mandate, rows[i] = MandateRow("revoked", k, "-", "-")
      PROVE  next.states[k] # "live"
  <2>1. CASE k = m
    BY <1>4, <1>5, <2>1
  <2>2. CASE k # m
    <3>1. i # n
      BY <1>2, <1>8, <2>2 DEF MandateRow
    <3>2. i \in 1..(n - 1)
      BY <1>1, <3>1
    <3> QED
      BY <1>4, <1>5, <1>8, <2>2, <3>2 DEF ReadAfter
  <2> QED
    BY <2>1, <2>2
<1>9. \A k \in Mandate, l \in UseKey : \A d : UsedBy(n, k, l, d) <=> UsedBy(n - 1, k, l, d)
  BY <1>1, <1>2, NoUse
<1> QED
  BY <1>3, <1>4, <1>7, <1>8, <1>9 DEF ReadAfter

(* A use of m under k: claimed unless it was, and waiting for its result. *)
LEMMA ReadUse ==
  ASSUME ManagerIInv, NEW n \in 1..Len(rows), NEW acc, ReadAfter(acc, n - 1),
         NEW m \in Mandate, NEW k \in UseKey, NEW d \in Digest, m \in KeyMandates[k],
         rows[n] = MandateRow("consumed", m, k, d)
  PROVE  ReadAfter(Replay(acc, rows[n]), n)
<1> DEFINE x == IF acc.claims[m][k].status = "none" THEN [status |-> "pending", digest |-> d]
                ELSE acc.claims[m][k]
           after == [acc.claims EXCEPT ![m] = [acc.claims[m] EXCEPT ![k] = x]]
           queue == [acc.waiting EXCEPT ![k] = Append(acc.waiting[k], m)]
           next == [states |-> acc.states, claims |-> after, waiting |-> queue]
<1>1. acc \in Replica /\ Len(rows) \in Nat /\ n \in Nat /\ n > 0 /\ n <= Len(rows)
  BY DEF ReadAfter, ManagerIInv, ManagerTypeOK
<1>2. /\ rows[n].type = "consumed" /\ rows[n].mandate = m /\ rows[n].key = k
      /\ rows[n].value = d
  BY DEF MandateRow
<1>3. Replay(acc, rows[n]) = next
  <2>1. Replay(acc, rows[n]) = Claims(acc, rows[n])
    BY <1>2 DEF Replay
  <2>2. Claims(acc, rows[n]) =
          [acc EXCEPT !.claims[m][k] = IF acc.claims[m][k].status = "none"
                                         THEN [status |-> "pending", digest |-> d]
                                         ELSE acc.claims[m][k],
                      !.waiting[k] = Append(acc.waiting[k], m)]
    BY <1>2 DEF Claims
  <2>3. acc.claims \in [Mandate -> [UseKey -> Claim]] /\ acc.waiting \in [UseKey -> Seq(Mandate)]
        /\ acc = [states |-> acc.states, claims |-> acc.claims, waiting |-> acc.waiting]
    BY <1>1 DEF Replica
  <2> QED
    BY <2>1, <2>2, <2>3
<1>4. x \in Claim /\ x.status # "none"
      /\ (acc.claims[m][k].status = "none" => x.status = "pending" /\ x.digest = d)
      /\ (acc.claims[m][k].status # "none" => x = acc.claims[m][k])
  <2>1. acc.claims[m][k] \in Claim
    BY <1>1 DEF Replica
  <2> QED
    BY <2>1 DEF Claim
<1> HIDE DEF x
<1>5. /\ after \in [Mandate -> [UseKey -> Claim]] /\ after[m][k] = x
      /\ \A a \in Mandate, l \in UseKey : a # m \/ l # k => after[a][l] = acc.claims[a][l]
  BY <1>1, <1>4 DEF Replica
<1>6. /\ queue \in [UseKey -> Seq(Mandate)]
      /\ \A l \in UseKey : queue[l] \in Seq({a \in Mandate : a \in KeyMandates[l]})
  <2>1. acc.waiting \in [UseKey -> Seq(Mandate)]
    BY <1>1 DEF Replica
  <2>2. \A l \in UseKey : acc.waiting[l] \in Seq({a \in Mandate : a \in KeyMandates[l]})
    BY DEF ReadAfter
  <2>3. Append(acc.waiting[k], m) \in Seq({a \in Mandate : a \in KeyMandates[k]})
        /\ Append(acc.waiting[k], m) \in Seq(Mandate)
    BY <2>1, <2>2
  <2> QED
    BY <2>1, <2>2, <2>3
<1> HIDE DEF after, queue
<1>7. /\ next \in Replica /\ next.states = acc.states /\ next.claims = after
      /\ next.waiting = queue
  BY <1>1, <1>5, <1>6 DEF Replica
<1> HIDE DEF next
<1>8. ASSUME NEW i \in 1..n, NEW a \in Mandate, rows[i] = MandateRow("revoked", a, "-", "-")
      PROVE  next.states[a] # "live"
  <2>1. i # n
    BY <1>2, <1>8 DEF MandateRow
  <2>2. i \in 1..(n - 1)
    BY <1>1, <2>1
  <2> QED
    BY <1>7, <1>8, <2>2 DEF ReadAfter
<1>9. ASSUME NEW a \in Mandate, NEW l \in UseKey, NEW e
      PROVE  UsedBy(n, a, l, e) <=> UsedBy(n - 1, a, l, e) \/ (a = m /\ l = k /\ e = d)
  BY <1>1, UsedByNext, RowsApart
<1>10. ASSUME NEW a \in Mandate, NEW l \in UseKey
       PROVE  /\ Claimed(a, l) => next.claims[a][l].status # "none"
                                  /\ next.claims[a][l].digest = claims[a][l].digest
              /\ \A e \in Digest : UsedBy(n, a, l, e) => next.claims[a][l].status # "none"
              /\ ~Claimed(a, l) /\ next.claims[a][l].status # "none" =>
                   UsedBy(n, a, l, next.claims[a][l].digest)
              /\ OneMandatePerId /\ next.claims[a][l].status \in Outcome =>
                   outcome[a][l] = next.claims[a][l].status
  <2>1. CASE a = m /\ l = k
    <3>1. next.claims[a][l] = x
      BY <1>5, <1>7, <2>1
    <3>2. UsedBy(n, a, l, d)
      BY <1>9, <2>1
    <3>3. CASE acc.claims[m][k].status = "none"
      BY <1>4, <2>1, <3>1, <3>2, <3>3 DEF ReadAfter, Outcome
    <3>4. CASE acc.claims[m][k].status # "none"
      BY <1>4, <1>9, <2>1, <3>1, <3>4 DEF ReadAfter
    <3> QED
      BY <3>3, <3>4
  <2>2. CASE a # m \/ l # k
    <3>1. next.claims[a][l] = acc.claims[a][l]
      BY <1>5, <1>7, <2>2
    <3>2. \A e : UsedBy(n, a, l, e) <=> UsedBy(n - 1, a, l, e)
      BY <1>9, <2>2
    <3> QED
      BY <3>1, <3>2 DEF ReadAfter
  <2> QED
    BY <2>1, <2>2
<1> QED
  BY <1>3, <1>6, <1>7, <1>8, <1>10 DEF ReadAfter

(* A result settles the oldest use of its intent id that still waits. *)
LEMMA ReadResult ==
  ASSUME ManagerIInv, NEW n \in 1..Len(rows), NEW acc, ReadAfter(acc, n - 1),
         NEW k \in UseKey, NEW o \in Outcome, rows[n] = MandateRow("result", "-", k, o)
  PROVE  ReadAfter(Replay(acc, rows[n]), n)
<1>1. acc \in Replica /\ Len(rows) \in Nat /\ n \in Nat /\ n > 0 /\ n <= Len(rows)
  BY DEF ReadAfter, ManagerIInv, ManagerTypeOK
<1>2. rows[n].type = "result" /\ rows[n].key = k /\ rows[n].value = o
  BY DEF MandateRow
<1>3. Replay(acc, rows[n]) = Pairs(acc, rows[n])
  BY <1>2 DEF Replay
<1>4. \A a \in Mandate, l \in UseKey : \A d : UsedBy(n, a, l, d) <=> UsedBy(n - 1, a, l, d)
  BY <1>1, <1>2, NoUse
<1>5. ASSUME NEW i \in 1..n, NEW a \in Mandate, rows[i] = MandateRow("revoked", a, "-", "-")
      PROVE  acc.states[a] # "live"
  <2>1. i # n
    BY <1>2, <1>5 DEF MandateRow
  <2>2. i \in 1..(n - 1)
    BY <1>1, <2>1
  <2> QED
    BY <1>5, <2>2 DEF ReadAfter
<1>6. CASE acc.waiting[k] = <<>>
  <2>1. Replay(acc, rows[n]) = acc
    BY <1>2, <1>3, <1>6 DEF Pairs
  <2> QED
    BY <1>4, <1>5, <2>1 DEF ReadAfter
<1>7. CASE acc.waiting[k] # <<>>
  <2>1. acc.waiting[k] \in Seq({a \in Mandate : a \in KeyMandates[k]})
        /\ acc.waiting[k] \in Seq(Mandate)
    BY <1>1 DEF ReadAfter, Replica
  <2>2. PICK m \in Mandate : m = Head(acc.waiting[k]) /\ m \in KeyMandates[k]
    BY <1>7, <2>1
  <2>3. Tail(acc.waiting[k]) \in Seq({a \in Mandate : a \in KeyMandates[k]})
        /\ Tail(acc.waiting[k]) \in Seq(Mandate)
    BY <1>7, <2>1
  <2> DEFINE x == [acc.claims[m][k] EXCEPT !.status = IF acc.claims[m][k].status = "pending"
                                                      THEN o ELSE acc.claims[m][k].status]
             after == [acc.claims EXCEPT ![m] = [acc.claims[m] EXCEPT ![k] = x]]
             queue == [acc.waiting EXCEPT ![k] = Tail(acc.waiting[k])]
             next == [states |-> acc.states, claims |-> after, waiting |-> queue]
  <2>4. Replay(acc, rows[n]) = next
    <3>1. Pairs(acc, rows[n]) =
            [acc EXCEPT !.claims[m][k].status = IF acc.claims[m][k].status = "pending"
                                                THEN o ELSE acc.claims[m][k].status,
                        !.waiting[k] = Tail(acc.waiting[k])]
      BY <1>2, <1>7, <2>2 DEF Pairs
    <3>2. acc.claims \in [Mandate -> [UseKey -> Claim]] /\ acc.waiting \in [UseKey -> Seq(Mandate)]
          /\ acc = [states |-> acc.states, claims |-> acc.claims, waiting |-> acc.waiting]
      BY <1>1 DEF Replica
    <3> QED
      BY <1>3, <3>1, <3>2
  <2>5. /\ x \in Claim /\ x.digest = acc.claims[m][k].digest
        /\ (x.status = "none" <=> acc.claims[m][k].status = "none")
        /\ x.status = acc.claims[m][k].status \/ x.status = o
    <3>1. acc.claims[m][k] \in Claim
      BY <1>1 DEF Replica
    <3> QED
      BY <3>1 DEF Claim, Outcome
  <2> HIDE DEF x
  <2>6. /\ after \in [Mandate -> [UseKey -> Claim]] /\ after[m][k] = x
        /\ \A a \in Mandate, l \in UseKey : a # m \/ l # k => after[a][l] = acc.claims[a][l]
    BY <1>1, <2>5 DEF Replica
  <2>7. /\ queue \in [UseKey -> Seq(Mandate)]
        /\ \A l \in UseKey : queue[l] \in Seq({a \in Mandate : a \in KeyMandates[l]})
    <3>1. acc.waiting \in [UseKey -> Seq(Mandate)]
      BY <1>1 DEF Replica
    <3>2. \A l \in UseKey : acc.waiting[l] \in Seq({a \in Mandate : a \in KeyMandates[l]})
      BY DEF ReadAfter
    <3> QED
      BY <2>3, <3>1, <3>2
  <2> HIDE DEF after, queue
  <2>8. /\ next \in Replica /\ next.states = acc.states /\ next.claims = after
        /\ next.waiting = queue
    BY <1>1, <2>6, <2>7 DEF Replica
  <2> HIDE DEF next
  <2>9. OneMandatePerId => outcome[m][k] = o
    BY <2>2 DEF ManagerIInv, OutcomesOK
  <2>10. ASSUME NEW a \in Mandate, NEW l \in UseKey
         PROVE  /\ Claimed(a, l) => next.claims[a][l].status # "none"
                                    /\ next.claims[a][l].digest = claims[a][l].digest
                /\ \A e \in Digest : UsedBy(n, a, l, e) => next.claims[a][l].status # "none"
                /\ ~Claimed(a, l) /\ next.claims[a][l].status # "none" =>
                     UsedBy(n, a, l, next.claims[a][l].digest)
                /\ OneMandatePerId /\ next.claims[a][l].status \in Outcome =>
                     outcome[a][l] = next.claims[a][l].status
    <3>1. /\ next.claims[a][l].digest = acc.claims[a][l].digest
          /\ (next.claims[a][l].status = "none" <=> acc.claims[a][l].status = "none")
          /\ OneMandatePerId => \/ next.claims[a][l].status = acc.claims[a][l].status
                                \/ next.claims[a][l].status = outcome[a][l]
      BY <2>5, <2>6, <2>8, <2>9
    <3> QED
      BY <1>4, <3>1 DEF ReadAfter
  <2> QED
    BY <1>5, <2>4, <2>7, <2>8, <2>10 DEF ReadAfter
<1> QED
  BY <1>6, <1>7

LEMMA ReadOn ==
  ASSUME ManagerIInv, NEW n \in 1..Len(rows), NEW acc, ReadAfter(acc, n - 1)
  PROVE  ReadAfter(Replay(acc, rows[n]), n)
<1>1. IsManagerRow(rows[n])
  BY DEF ManagerIInv, ManagerTypeOK, ManagerRow
<1>2. CASE \E m \in Mandate : rows[n] = MandateRow("issued", m, "-", "-")
  BY <1>2, ReadIssued
<1>3. CASE \E m \in Mandate : rows[n] = MandateRow("revoked", m, "-", "-")
  BY <1>3, ReadRevoked
<1>4. CASE \E k \in UseKey, m \in Mandate, d \in Digest :
             m \in KeyMandates[k] /\ rows[n] = MandateRow("consumed", m, k, d)
  BY <1>4, ReadUse
<1>5. CASE \E k \in UseKey, o \in Outcome : rows[n] = MandateRow("result", "-", k, o)
  BY <1>5, ReadResult
<1> QED
  BY <1>1, <1>2, <1>3, <1>4, <1>5 DEF IsManagerRow

LEMMA AllRead ==
  ASSUME ManagerIInv, NEW p \in Instance
  PROVE  ReadAfter(Replayed([states |-> states[p], claims |-> claims,
                             waiting |-> [k \in UseKey |-> <<>>]]), Len(rows))
<1> DEFINE s == [states |-> states[p], claims |-> claims, waiting |-> [k \in UseKey |-> <<>>]]
           last == Len(rows)
<1>1. last \in Nat
  BY DEF ManagerIInv, ManagerTypeOK
<1>2. PICK f : ReplaySteps(f, s, last) /\ Replayed(s) = f[last]
  BY <1>1, ReplayedIsTheLast
<1>3. ReadAfter(s, 0)
  <2>1. /\ s \in Replica /\ s.states = states[p] /\ s.claims = claims
        /\ s.waiting = [k \in UseKey |-> <<>>]
    BY DEF Replica, ManagerIInv, ManagerTypeOK
  <2> HIDE DEF s
  <2>2. \A m, k, d : ~UsedBy(0, m, k, d)
    BY DEF UsedBy
  <2> QED
    BY <2>1, <2>2 DEF ReadAfter, ManagerIInv, BirthOK, OutcomesOK, Claimed
<1> HIDE DEF s, last
<1>4. \A n \in 0..last : f[n] = IF n = 0 THEN s ELSE Replay(f[n - 1], rows[n])
  BY <1>1, <1>2 DEF ReplaySteps
<1> DEFINE T == {n \in 0..last : ~ReadAfter(f[n], n)}
<1>5. ASSUME T # {} PROVE FALSE
  <2>0. T \in SUBSET Nat
    BY <1>1
  <2>1. PICK n \in T : \A m \in T : n <= m
    BY <1>5, <2>0, LeastOf
  <2>2. n \in 0..last /\ ~ReadAfter(f[n], n)
    BY <2>1
  <2>3. n # 0
    BY <1>3, <1>4, <2>2
  <2>4. n - 1 \in 0..last /\ n - 1 \notin T /\ n \in 1..last
    BY <1>1, <2>1, <2>2, <2>3
  <2>5. ReadAfter(f[n - 1], n - 1)
    BY <2>4
  <2> QED
    BY <1>4, <2>2, <2>3, <2>4, <2>5, ReadOn DEF last
<1>6. ReadAfter(f[last], last)
  BY <1>1, <1>5
<1> QED
  BY <1>2, <1>6 DEF s, last

LEMMA RehydrateStep ==
  ASSUME ManagerIInv, NEW p \in Instance, Hydrate(p)
  PROVE  ManagerIInv'
<1> USE DEF ManagerIInv
<1>1. PICK acc :
        /\ acc = Replayed([states |-> states[p], claims |-> claims,
                           waiting |-> [k \in UseKey |-> <<>>]])
        /\ states' = [states EXCEPT ![p] = acc.states] /\ claims' = acc.claims
  BY DEF Hydrate
<1> DEFINE revoked == {m \in Mandate : \E i \in DOMAIN rows :
                         rows[i].type = "revoked" /\ rows[i].mandate = m}
<1>2. /\ p \notin ready /\ (store = "memory" => ready = {}) /\ ready' = ready \cup {p}
      /\ killed' = [killed EXCEPT ![p] = revoked]
      /\ UNCHANGED <<store, sealed, born, expired, rows, task, granted, outcome>>
  BY DEF Hydrate
<1>3. ReadAfter(acc, Len(rows))
  BY <1>1, AllRead
<1>4. /\ states' \in [Instance -> [Mandate -> {"unknown", "live", "revoked"}]]
      /\ states'[p] = acc.states /\ \A q \in Instance : q # p => states'[q] = states[q]
      /\ claims' \in [Mandate -> [UseKey -> Claim]]
  BY <1>1, <1>3 DEF ReadAfter, Replica, ManagerTypeOK
<1>5. /\ killed' \in [Instance -> SUBSET Mandate]
      /\ killed'[p] = revoked /\ \A q \in Instance : q # p => killed'[q] = killed[q]
  BY <1>2 DEF ManagerTypeOK
<1>6. ASSUME NEW m \in revoked
      PROVE  /\ m \in born
             /\ \E i \in 1..Len(rows) : rows[i] = MandateRow("revoked", m, "-", "-")
  <2>1. PICK i \in 1..Len(rows) : rows[i].type = "revoked" /\ rows[i].mandate = m
    BY <1>6 DEF ManagerTypeOK
  <2>2. IsManagerRow(rows[i])
    BY DEF ManagerTypeOK, ManagerRow
  <2>3. rows[i] = MandateRow("revoked", m, "-", "-")
    <3>1. CASE \E n \in Mandate, type \in {"issued", "revoked"} :
                 rows[i] = MandateRow(type, n, "-", "-")
      <4>1. PICK n \in Mandate, type \in {"issued", "revoked"} :
              rows[i] = MandateRow(type, n, "-", "-")
        BY <3>1
      <4>2. type = "revoked" /\ n = m
        BY <2>1, <4>1 DEF MandateRow
      <4> QED
        BY <4>1, <4>2
    <3>2. CASE \E k \in UseKey, n \in Mandate, d \in Digest :
                 n \in KeyMandates[k] /\ rows[i] = MandateRow("consumed", n, k, d)
      BY <2>1, <3>2 DEF MandateRow
    <3>3. CASE \E k \in UseKey, o \in Outcome : rows[i] = MandateRow("result", "-", k, o)
      BY <2>1, <3>3 DEF MandateRow
    <3> QED
      BY <2>2, <3>1, <3>2, <3>3 DEF IsManagerRow
  <2> QED
    BY <1>6, <2>3 DEF BirthOK
<1> HIDE DEF revoked
<1>7. \A m \in Mandate, k \in UseKey :
        /\ Claimed(m, k) => Claimed(m, k)' /\ claims'[m][k].digest = claims[m][k].digest
        /\ \A d \in Digest : OnRecord(m, k, d) => Claimed(m, k)'
        /\ ~Claimed(m, k) /\ Claimed(m, k)' => OnRecord(m, k, claims'[m][k].digest)
        /\ OneMandatePerId /\ claims'[m][k].status \in Outcome =>
             outcome[m][k] = claims'[m][k].status
  BY <1>1, <1>3 DEF ReadAfter, OnRecord, Claimed
<1>8. ManagerTypeOK'
  BY <1>2, <1>4, <1>5 DEF ManagerTypeOK
<1>9. CallsOK'
  <2>1. p \in ready'
    BY <1>2
  <2> QED
    BY <1>2, <2>1 DEF CallsOK
<1>10. BirthOK'
  <2>1. \A q \in Instance, m \in Mandate : states'[q][m] # "unknown" => m \in born'
    BY <1>2, <1>3, <1>4 DEF BirthOK, ReadAfter
  <2> QED
    BY <1>2, <2>1 DEF BirthOK, MandateRow
<1>11. \A n, l, d : OnRecord(n, l, d)' <=> OnRecord(n, l, d)
  BY <1>2, OnRecordStays
<1>12. \A b \in Call : \A n, l : Recording(b, n, l)' <=> Recording(b, n, l)
  BY <1>2 DEF Recording
<1>13. UsesOK'
  <2> SUFFICES ASSUME NEW n \in Mandate, NEW l \in UseKey
      PROVE  /\ \A e, f \in Digest : OnRecord(n, l, e)' /\ OnRecord(n, l, f)' => e = f
             /\ \A b \in Call : Recording(b, n, l)' =>
                  /\ \A e \in Digest : ~OnRecord(n, l, e)'
                  /\ \A a \in Call : Recording(a, n, l)' => a = b
                  /\ Claimed(n, l)' => claims'[n][l].digest = task'[b].digest
                  /\ Knows(n)' => Claimed(n, l)'
             /\ \A e \in Digest : OnRecord(n, l, e)' =>
                  /\ Claimed(n, l)' => claims'[n][l].digest = e
                  /\ Knows(n)' => Claimed(n, l)'
    BY DEF UsesOK
  <2>1. PICK x \in Digest : x = claims'[n][l].digest
    BY <1>4 DEF Claim
  <2>2. ~Claimed(n, l) /\ Claimed(n, l)' => OnRecord(n, l, x)
    <3>1. ~Claimed(n, l) /\ Claimed(n, l)' => OnRecord(n, l, claims'[n][l].digest)
      BY <1>7
    <3>2. OnRecord(n, l, claims'[n][l].digest) <=> OnRecord(n, l, x)
      BY <2>1
    <3> QED
      BY <3>1, <3>2
  <2>3. ASSUME NEW b \in Call, Recording(b, n, l)
        PROVE  /\ \A e \in Digest : ~OnRecord(n, l, e)
               /\ \A a \in Call : Recording(a, n, l) => a = b
               /\ Claimed(n, l)' => claims'[n][l].digest = task[b].digest
               /\ Knows(n)' => Claimed(n, l)'
    <3>1. /\ \A e \in Digest : ~OnRecord(n, l, e)
          /\ \A a \in Call : Recording(a, n, l) => a = b
          /\ Claimed(n, l) => claims[n][l].digest = task[b].digest
          /\ Knows(n) => Claimed(n, l)
      BY <2>3 DEF UsesOK
    <3>2. Claimed(n, l)' => Claimed(n, l)
      BY <2>2, <3>1
    <3>3. task[b].process \in ready
      BY <2>3 DEF Recording, CallsOK
    <3>4. Knows(n)' => Knows(n)
      BY <1>2, <3>3 DEF Knows
    <3> QED
      BY <1>7, <3>1, <3>2, <3>4
  <2>4. ASSUME NEW e \in Digest, OnRecord(n, l, e)
        PROVE  Claimed(n, l)' /\ claims'[n][l].digest = e
    <3>1. Claimed(n, l)'
      BY <1>7, <2>4
    <3>2. CASE Claimed(n, l)
      BY <1>7, <2>4, <3>2 DEF UsesOK
    <3>3. CASE ~Claimed(n, l)
      <4>1. OnRecord(n, l, x)
        BY <2>2, <3>1, <3>3
      <4>2. x = e
        BY <2>4, <4>1 DEF UsesOK
      <4> QED
        BY <2>1, <3>1, <4>2
    <3> QED
      BY <3>2, <3>3, <3>1
  <2>5. \A e, f \in Digest : OnRecord(n, l, e) /\ OnRecord(n, l, f) => e = f
    BY DEF UsesOK
  <2> QED
    BY <1>2, <1>11, <1>12, <2>3, <2>4, <2>5
<1>14. GrantsOK'
  <2>1. task' \in [Call -> CallRecord] /\ \A b \in Call : SameCall(b)
    BY <1>2 DEF SameCall, ManagerTypeOK
  <2> QED
    BY <1>2, <1>11, <2>1, CallGrants
<1>15. BudgetOK'
  <2>1. ASSUME NEW n \in Mandate PROVE Taken(n)' = Taken(n)
    BY <1>11, <1>12 DEF Taken
  <2> QED
    BY <2>1 DEF BudgetOK
<1>16. RailsOK'
  BY <1>2 DEF RailsOK
<1>17. ASSUME ~RegisterLate PROVE KillsOK'
  <2>1. ASSUME NEW q \in Instance, NEW m \in killed'[q]
        PROVE  q \in ready' /\ m \in born' /\ states'[q][m] # "live"
    <3>1. CASE q = p
      <4>1. m \in Mandate /\ m \in revoked
        BY <1>5, <2>1, <3>1
      <4>2. acc.states[m] # "live"
        BY <1>3, <1>6, <4>1 DEF ReadAfter
      <4> QED
        BY <1>2, <1>4, <1>6, <3>1, <4>1, <4>2
    <3>2. CASE q # p
      BY <1>2, <1>4, <1>5, <1>17, <2>1, <3>2 DEF KillsOK
    <3> QED
      BY <3>1, <3>2
  <2>2. ASSUME NEW c \in Call, task'[c].dead
        PROVE  /\ task'[c].pc \in {"queued", "done"} /\ task'[c].answer # "consumed"
               /\ task'[c].pc = "queued" => task'[c].mandate \in killed'[task'[c].process]
    <3>1. /\ task[c].pc \in {"queued", "done"} /\ task[c].answer # "consumed"
          /\ task[c].pc = "queued" => task[c].mandate \in killed[task[c].process]
      BY <1>2, <1>17, <2>2 DEF KillsOK
    <3>2. task[c].pc = "queued" => task[c].process \in ready /\ task[c].process \in Instance
      BY DEF CallsOK, ManagerTypeOK
    <3> QED
      BY <1>2, <1>5, <3>1, <3>2
  <2> QED
    BY <2>1, <2>2 DEF KillsOK
<1>18. ASSUME OneMandatePerId PROVE OutcomesOK' /\ ReplayTellsTruth'
  <2>1. OutcomesOK'
    BY <1>2, <1>7, <1>18 DEF OutcomesOK, MandateRow
  <2> QED
    BY <1>2, <1>18, <2>1 DEF ReplayTellsTruth
<1> QED
  BY <1>8, <1>9, <1>10, <1>13, <1>14, <1>15, <1>16, <1>17, <1>18

-----------------------------------------------------------------------------
(* A process dies. *)

LEMMA DiesStep ==
  ASSUME ManagerIInv, NEW p \in Instance, Dies(p)
  PROVE  ManagerIInv'
<1> USE DEF ManagerIInv
<1>1. /\ p \in ready /\ ready' = ready \ {p}
      /\ states' = [states EXCEPT ![p] = Fresh] /\ killed' = [killed EXCEPT ![p] = {}]
      /\ UNCHANGED <<store, sealed, born, expired, rows, granted, outcome>>
  BY DEF Dies
<1>2. /\ states' \in [Instance -> [Mandate -> {"unknown", "live", "revoked"}]]
      /\ killed' \in [Instance -> SUBSET Mandate]
      /\ killed'[p] = {} /\ \A m \in Mandate : states'[p][m] = "unknown"
      /\ \A q \in Instance : q # p => states'[q] = states[q] /\ killed'[q] = killed[q]
  BY <1>1 DEF ManagerTypeOK, Fresh
<1>3. /\ task' \in [Call -> CallRecord] /\ \A c \in Call : SameCall(c)
      /\ \A c \in Call :
           /\ task'[c].answer = task[c].answer /\ task'[c].status = task[c].status
           /\ task'[c].dead = task[c].dead
           /\ \/ task'[c] = task[c] /\ (task[c].process # p \/ task[c].pc = "new")
              \/ task'[c].pc = "done" /\ task'[c].rail = "over"
  <2>1. task \in [Call -> CallRecord]
    BY DEF ManagerTypeOK
  <2>2. task' = [c \in Call |->
                   IF task[c].process = p /\ task[c].pc # "new"
                     THEN [task[c] EXCEPT !.pc = "done", !.rail = "over"] ELSE task[c]]
    BY DEF Dies
  <2>3. ASSUME NEW c \in Call
        PROVE  /\ task'[c] \in CallRecord /\ SameCall(c)
               /\ task'[c].answer = task[c].answer /\ task'[c].status = task[c].status
               /\ task'[c].dead = task[c].dead
               /\ \/ task'[c] = task[c] /\ (task[c].process # p \/ task[c].pc = "new")
                  \/ task'[c].pc = "done" /\ task'[c].rail = "over"
    <3>1. task[c] \in CallRecord
      BY <2>1
    <3>2. CASE task[c].process = p /\ task[c].pc # "new"
      <4>1. task'[c] = [task[c] EXCEPT !.pc = "done", !.rail = "over"]
        BY <2>2, <3>2
      <4> QED
        BY <3>1, <4>1 DEF CallRecord, SameCall
    <3>3. CASE ~(task[c].process = p /\ task[c].pc # "new")
      <4>1. task'[c] = task[c]
        BY <2>2, <3>3
      <4> QED
        BY <3>1, <3>3, <4>1 DEF SameCall
    <3> QED
      BY <3>2, <3>3
  <2> QED
    BY <2>2, <2>3
<1>4. /\ claims' \in [Mandate -> [UseKey -> Claim]]
      /\ \A m \in Mandate, k \in UseKey :
           /\ claims'[m][k].digest = claims[m][k].digest
           /\ store = "shared" => claims'[m][k] = claims[m][k]
           /\ store # "shared" => claims'[m][k].status = "none"
  <2>1. claims \in [Mandate -> [UseKey -> Claim]]
    BY DEF ManagerTypeOK
  <2>2. CASE store = "shared"
    BY <2>1, <2>2 DEF Dies
  <2>3. CASE store # "shared"
    <3> DEFINE none(m, k) == [claims[m][k] EXCEPT !.status = "none"]
    <3>1. claims' = [m \in Mandate |-> [k \in UseKey |-> none(m, k)]]
      BY <2>3 DEF Dies
    <3>2. ASSUME NEW m \in Mandate, NEW k \in UseKey
          PROVE  /\ none(m, k) \in Claim /\ none(m, k).status = "none"
                 /\ none(m, k).digest = claims[m][k].digest
      <4>1. claims[m][k] \in Claim
        BY <2>1
      <4> QED
        BY <4>1 DEF Claim
    <3> HIDE DEF none
    <3> QED
      BY <2>3, <3>1, <3>2
  <2> QED
    BY <2>2, <2>3
<1>5. ManagerTypeOK'
  BY <1>1, <1>2, <1>3, <1>4 DEF ManagerTypeOK, SameCall
<1>6. store = "memory" => ready' = {}
  BY <1>1 DEF CallsOK
<1>7. CallsOK'
  <2>1. ASSUME NEW c \in Call
        PROVE  /\ task'[c].pc \in {"queued", "claim", "row"} => task'[c].process \in ready'
               /\ task'[c].pc # "done" => task'[c].answer = "none" /\ task'[c].rail = "none"
               /\ task'[c].pc = "new" => ~task'[c].dead
               /\ task'[c].pc = "claim" => task'[c].mandate \notin sealed'
    BY <1>1, <1>3 DEF CallsOK
  <2> QED
    BY <1>1, <1>4, <1>6, <2>1 DEF CallsOK, Claimed
<1>8. BirthOK'
  <2>1. \A q \in Instance, m \in Mandate : states'[q][m] # "unknown" => m \in born'
    BY <1>1, <1>2 DEF BirthOK
  <2> QED
    BY <1>1, <2>1 DEF BirthOK, MandateRow
<1>9. \A n, l, d : OnRecord(n, l, d)' <=> OnRecord(n, l, d)
  BY <1>1, OnRecordStays
<1>10. ASSUME NEW b \in Call, NEW n, NEW l, Recording(b, n, l)' PROVE Recording(b, n, l)
  BY <1>3, <1>10 DEF Recording
<1>11. \A n \in Mandate : Knows(n)' => Knows(n) /\ store = "shared"
  BY <1>1, <1>6 DEF Knows, ManagerTypeOK
<1>12. UsesOK' /\ BudgetOK'
  <2>1. \A n \in Mandate, l \in UseKey :
          /\ Claimed(n, l)' => Claimed(n, l)
          /\ Knows(n)' /\ Claimed(n, l) => Claimed(n, l)'
          /\ claims'[n][l].digest = claims[n][l].digest
    BY <1>4, <1>11 DEF Claimed
  <2> QED
    BY <1>3, <1>9, <1>10, <1>11, <2>1, CallsRecord
<1>13. GrantsOK'
  BY <1>1, <1>3, <1>9, CallGrants
<1>14. RailsOK'
  <2>1. ASSUME NEW m \in Mandate, NEW k \in UseKey, outcome'[m][k] # "none"
        PROVE  \E c \in granted'[m][k] : task'[c].rail # "none"
    <3>1. PICK c \in granted[m][k] : task[c].rail # "none"
      BY <1>1, <2>1 DEF RailsOK
    <3>2. c \in Call
      BY <3>1 DEF ManagerTypeOK
    <3> QED
      BY <1>1, <1>3, <3>1, <3>2
  <2>2. ASSUME NEW c \in Call, task'[c].rail \in {"settling", "recording"}
        PROVE  outcome'[task'[c].mandate][task'[c].key] # "none"
    BY <1>1, <1>3, <2>2 DEF RailsOK
  <2> QED
    BY <2>1, <2>2 DEF RailsOK
<1>15. ASSUME ~RegisterLate PROVE KillsOK'
  <2>1. ASSUME NEW q \in Instance, NEW m \in killed'[q]
        PROVE  q \in ready' /\ m \in born' /\ states'[q][m] # "live"
    BY <1>1, <1>2, <1>15, <2>1 DEF KillsOK
  <2>2. ASSUME NEW c \in Call, task'[c].dead
        PROVE  /\ task'[c].pc \in {"queued", "done"} /\ task'[c].answer # "consumed"
               /\ task'[c].pc = "queued" => task'[c].mandate \in killed'[task'[c].process]
    <3>1. /\ task[c].pc \in {"queued", "done"} /\ task[c].answer # "consumed"
          /\ task[c].pc = "queued" => task[c].mandate \in killed[task[c].process]
      BY <1>3, <1>15, <2>2 DEF KillsOK
    <3>2. task[c].process \in Instance
      BY DEF ManagerTypeOK, CallRecord
    <3> QED
      BY <1>2, <1>3, <3>1, <3>2
  <2> QED
    BY <2>1, <2>2 DEF KillsOK
<1>16. ASSUME OneMandatePerId PROVE OutcomesOK' /\ ReplayTellsTruth'
  <2>1. \A m \in Mandate, k \in UseKey : claims'[m][k].status \in Outcome =>
          outcome'[m][k] = claims'[m][k].status
    BY <1>1, <1>4, <1>16 DEF OutcomesOK, Outcome
  <2>2. OutcomesOK'
    BY <1>1, <1>16, <2>1 DEF OutcomesOK, MandateRow
  <2>3. ASSUME NEW c \in Call, task'[c].answer = "replayed", task'[c].status \in Outcome
        PROVE  /\ outcome'[task'[c].mandate][task'[c].key] = task'[c].status
               /\ \A w \in granted'[task'[c].mandate][task'[c].key] :
                    task'[w].digest = task'[c].digest
    <3>1. PICK m \in Mandate, k \in UseKey : m = task[c].mandate /\ k = task[c].key
      BY DEF ManagerTypeOK, CallRecord
    <3>2. /\ outcome[m][k] = task[c].status
          /\ \A w \in granted[m][k] : task[w].digest = task[c].digest
      BY <1>3, <1>16, <2>3, <3>1 DEF ReplayTellsTruth
    <3>3. \A w \in granted[m][k] : task'[w].digest = task[w].digest
      BY <1>3 DEF SameCall, ManagerTypeOK
    <3> QED
      BY <1>1, <1>3, <3>1, <3>2, <3>3 DEF SameCall
  <2> QED
    BY <2>2, <2>3 DEF ReplayTellsTruth
<1> QED
  BY <1>5, <1>7, <1>8, <1>12, <1>13, <1>14, <1>15, <1>16

-----------------------------------------------------------------------------
(* The theorems *)

LEMMA ManagerStarts ==
  ASSUME ManagerInit PROVE ManagerIInv
<1>1. /\ states = [p \in Instance |-> Fresh] /\ ready = {} /\ rows = <<>> /\ expired = {}
      /\ born \in SUBSET Mandate /\ store \in {"memory", "shared"} /\ sealed = {}
      /\ granted = [m \in Mandate |-> [k \in UseKey |-> {}]]
      /\ outcome = [m \in Mandate |-> [k \in UseKey |-> "none"]]
      /\ killed = [p \in Instance |-> {}]
  BY DEF ManagerInit, ConsumeInit
<1>2. /\ claims \in [Mandate -> [UseKey -> Claim]]
      /\ \A m \in Mandate, k \in UseKey : claims[m][k].status = "none"
  BY DEF ManagerInit, ConsumeInit
<1>3. ASSUME NEW c \in Call
      PROVE  /\ task[c] \in CallRecord /\ task[c].mandate \in KeyMandates[task[c].key]
             /\ task[c].pc = "new" /\ ~task[c].dead /\ task[c].answer = "none"
             /\ task[c].rail = "none"
  <2>1. task[c] \in Tasks /\ task[c].mandate \in KeyMandates[task[c].key]
    BY DEF ManagerInit
  <2> DEFINE t(p, m, k, d) ==
        [process |-> p, mandate |-> m, key |-> k, digest |-> d, pc |-> "new",
         dead |-> FALSE, answer |-> "none", status |-> "none", rail |-> "none"]
  <2>2. Tasks = {t(p, m, k, d) : p \in Instance, m \in Mandate, k \in UseKey, d \in Digest}
    BY DEF Tasks
  <2>3. ASSUME NEW p \in Instance, NEW m \in Mandate, NEW k \in UseKey, NEW d \in Digest
        PROVE  /\ t(p, m, k, d) \in CallRecord /\ t(p, m, k, d).pc = "new"
               /\ ~t(p, m, k, d).dead /\ t(p, m, k, d).answer = "none"
               /\ t(p, m, k, d).rail = "none"
    BY DEF CallRecord
  <2> HIDE DEF t
  <2> QED
    BY <2>1, <2>2, <2>3
<1>4. task \in [Call -> CallRecord]
  BY <1>3 DEF ManagerInit
<1>5. ManagerTypeOK
  BY <1>1, <1>2, <1>3, <1>4 DEF ManagerTypeOK, Fresh
<1>6. Len(rows) = 0 /\ \A m, k, d : ~OnRecord(m, k, d)
  BY <1>1 DEF OnRecord, UsedBy
<1>7. \A c \in Call : \A m, k : ~Recording(c, m, k)
  BY <1>3 DEF Recording
<1>8. CallsOK
  BY <1>1, <1>2, <1>3 DEF CallsOK, Claimed
<1>9. BirthOK
  BY <1>1, <1>6 DEF BirthOK, Fresh
<1>10. UsesOK
  BY <1>6, <1>7 DEF UsesOK
<1>11. GrantsOK
  BY <1>1, <1>3 DEF GrantsOK
<1>12. BudgetOK
  <2>1. ASSUME NEW m \in Mandate PROVE Cardinality(Taken(m)) <= MaxUses[m]
    <3>1. Taken(m) = {}
      BY <1>6, <1>7 DEF Taken
    <3> QED
      BY <3>1, FS_EmptySet, ConsumeAssumption DEF ConsumeAssumption
  <2> QED
    BY <2>1 DEF BudgetOK
<1>13. RailsOK /\ KillsOK /\ OutcomesOK /\ ReplayTellsTruth
  BY <1>1, <1>2, <1>3, <1>6 DEF RailsOK, KillsOK, OutcomesOK, ReplayTellsTruth, Outcome
<1> QED
  BY <1>5, <1>8, <1>9, <1>10, <1>11, <1>12, <1>13 DEF ManagerIInv

LEMMA ManagerMoves ==
  ASSUME ManagerIInv, [ManagerNext]_managerVars
  PROVE  ManagerIInv'
<1>1. CASE UNCHANGED managerVars
  <2>1. UNCHANGED <<claims, sealed, store, states, ready, born, expired, rows, task, granted,
                    outcome, killed>>
    BY <1>1 DEF managerVars, consumeVars
  <2>2. \A b \in Call : \A n, l : Recording(b, n, l)' <=> Recording(b, n, l)
    BY <2>1 DEF Recording
  <2>3. \A n, l, d : OnRecord(n, l, d)' <=> OnRecord(n, l, d)
    BY <2>1, OnRecordStays
  <2>4. ManagerTypeOK' /\ CallsOK' /\ BirthOK'
    BY <2>1 DEF ManagerIInv, ManagerTypeOK, CallsOK, BirthOK, Claimed, MandateRow
  <2>5. /\ UsesOK' /\ GrantsOK' /\ BudgetOK' /\ RailsOK'
        /\ OneMandatePerId => ReplayTellsTruth'
    BY <2>1, <2>3, <2>4, UsesStay DEF Claimed
  <2>6. (~RegisterLate => KillsOK') /\ (OneMandatePerId => OutcomesOK')
    BY <2>1 DEF ManagerIInv, KillsOK, OutcomesOK, MandateRow
  <2> QED
    BY <2>4, <2>5, <2>6 DEF ManagerIInv
<1>2. CASE \E p \in Instance : Hydrate(p) \/ Dies(p)
  BY <1>2, RehydrateStep, DiesStep
<1>3. CASE \E p \in Instance, m \in Mandate : Register(p, m) \/ Issue(p, m) \/ Revoke(p, m)
  BY <1>3, RegisterStep, IssueStep, RevokeStep
<1>4. CASE \E m \in Mandate : Expire(m) \/ Prune(m)
  BY <1>4, ExpireStep, PruneStep
<1>5. CASE \E c \in Call : Ask(c) \/ Lookup(c)
  BY <1>5, AskStep, LookupStep
<1>6. CASE \E c \in Call : ClaimUse(c) \/ ClaimThrows(c) \/ RecordUse(c)
  BY <1>6, ClaimStep, RecordUseStep
<1>7. CASE \E c \in Call : \E o \in Outcome : RailEnds(c, o)
  BY <1>7, RailEndsStep
<1>8. CASE \E c \in Call : SettleConsumed(c) \/ RecordResult(c)
  BY <1>8, SettleStep, ResultStep
<1> QED
  BY <1>1, <1>2, <1>3, <1>4, <1>5, <1>6, <1>7, <1>8 DEF ManagerNext

LEMMA ManagerGrants ==
  ASSUME ManagerIInv PROVE GrantsSurviveRestart
<1> USE DEF ManagerIInv
<1>1. ASSUME NEW m \in Mandate
      PROVE  /\ Cardinality({k \in UseKey : granted[m][k] # {}}) <= MaxUses[m]
             /\ \A k \in UseKey : Cardinality(granted[m][k]) <= 1
  <2>1. {k \in UseKey : granted[m][k] # {}} \subseteq Taken(m) /\ Taken(m) \in SUBSET UseKey
    <3>1. ASSUME NEW k \in UseKey, granted[m][k] # {} PROVE k \in Taken(m)
      <4>1. PICK c \in granted[m][k] : c \in Call /\ OnRecord(m, k, task[c].digest)
        BY <3>1 DEF GrantsOK, ManagerTypeOK
      <4>2. task[c].digest \in Digest
        BY <4>1 DEF ManagerTypeOK, CallRecord
      <4> QED
        BY <4>1, <4>2 DEF Taken
    <3> QED
      BY <3>1 DEF Taken
  <2>2. Cardinality(Taken(m)) <= MaxUses[m] /\ MaxUses[m] \in Nat
    BY ConsumeAssumption DEF ConsumeAssumption, BudgetOK
  <2>3. Cardinality({k \in UseKey : granted[m][k] # {}}) <= MaxUses[m]
    BY <2>1, <2>2, FewerTaken
  <2>4. ASSUME NEW k \in UseKey PROVE Cardinality(granted[m][k]) <= 1
    <3>1. CASE granted[m][k] = {}
      BY <3>1, FS_EmptySet
    <3>2. CASE granted[m][k] # {}
      <4>1. PICK c \in granted[m][k] : \A b \in granted[m][k] : b = c
        BY <3>2 DEF GrantsOK
      <4>2. granted[m][k] = {c}
        BY <4>1
      <4>3. Cardinality({c}) = 1
        BY FS_Singleton
      <4> QED
        BY <4>2, <4>3
    <3> QED
      BY <3>1, <3>2
  <2> QED
    BY <2>3, <2>4
<1> QED
  BY <1>1 DEF GrantsSurviveRestart

(* However many processes, on a shared store or one in memory, whatever dies *)
(* and hydrates again, and whenever mandates are registered: a mandate       *)
(* grants at most maxUses executions, and each intent id one. *)
THEOREM GrantsSurviveRestarts ==
  ManagerSpec => []GrantsSurviveRestart
<1>1. ManagerInit => ManagerIInv
  BY ManagerStarts
<1>2. ManagerIInv /\ [ManagerNext]_managerVars => ManagerIInv'
  BY ManagerMoves
<1>3. ManagerIInv => GrantsSurviveRestart
  BY ManagerGrants
<1> QED
  BY <1>1, <1>2, <1>3, PTL DEF ManagerSpec

(* And a process in which revoke() was acknowledged, or that has read the    *)
(* revocation back, never consumes the mandate again: when the mandates are  *)
(* registered before hydrateFromLedger() reads the ledger. *)
THEOREM RestartsForgetNothing ==
  ASSUME ~RegisterLate
  PROVE  ManagerSpec => []RestartForgetsNothing
<1>1. ManagerInit => ManagerIInv
  BY ManagerStarts
<1>2. ManagerIInv /\ [ManagerNext]_managerVars => ManagerIInv'
  BY ManagerMoves
<1>3. ManagerIInv => RestartForgetsNothing
  BY ManagerGrants DEF ManagerIInv, KillsOK, RevokedStaysDead, RestartForgetsNothing
<1> QED
  BY <1>1, <1>2, <1>3, PTL DEF ManagerSpec

(* The outcome a replay names is what became of the rail of the same payment, *)
(* when an intent id is only ever presented under one mandate. *)
THEOREM ReplaysTellTheTruth ==
  ASSUME OneMandatePerId
  PROVE  ManagerSpec => []ReplayTellsTruth
<1>1. ManagerInit => ManagerIInv
  BY ManagerStarts
<1>2. ManagerIInv /\ [ManagerNext]_managerVars => ManagerIInv'
  BY ManagerMoves
<1>3. ManagerIInv => ReplayTellsTruth
  BY DEF ManagerIInv
<1> QED
  BY <1>1, <1>2, <1>3, PTL DEF ManagerSpec
=============================================================================
