---------------------------- MODULE RiskScorecard ----------------------------
(* RiskScorecard of guard/src/risk/scorecard.ts: signals computed over the    *)
(* ledger, their weights summed, a tier.  An assessment names the ledger      *)
(* prefix it was scored over (its anchor) and is meant to be recomputed from  *)
(* it at any later time.  Rows of other types than the three the scorer       *)
(* reads, and the hash that makes an anchor unforgeable, are left out: an     *)
(* anchor is the number of rows.                                              *)
EXTENDS Integers, FiniteSets, Sequences, SequencesExt

CONSTANTS
  RiskIntents,     \* requests: [id, merchant, amount, mandate]
  RiskConfigs,     \* the scorecards an operator writes, broken ones included
  PerDay,          \* limits.perDayMinor of the policy, or 0 when it has none
  Day,             \* DAY_MS in ticks
  Hours,           \* UtcMinuteWindow: the ticks of day inside a declared window
  MaxClock, MaxRows, MaxAssessed   \* bounds

Windowed == {"VELOCITY_BURST", "DENY_STREAK"}   \* signals with a window of their own

\* An unreadable window is refused before it is compared with the lookback.
ASSUME RiskAssumption ==
  /\ Day \in Nat \ {0} /\ MaxClock \in Nat
  /\ \A c \in RiskConfigs : c.lookback \in Int /\ c.window \in [Windowed -> Int]

VARIABLES
  config,      \* the scorecard
  ledger,      \* the rows, each with its timestamp
  clock,
  assessed     \* the assessments made

riskVars == <<config, ledger, clock, assessed>>

Signals == {"FIRST_SEEN_MERCHANT", "AMOUNT_ABOVE_MERCHANT_TYPICAL",
            "AMOUNT_ABOVE_GLOBAL_TYPICAL", "OUT_OF_HOURS", "VELOCITY_BURST",
            "DENY_STREAK", "FIRST_USE_OF_MANDATE", "CAP_APPROACH"}

-----------------------------------------------------------------------------
(* violationsOf(): what the constructor refuses.  A config is a lookback,     *)
(* the tiers, and the weight, threshold and window of each signal, weight 0   *)
(* where the signal is not configured.                                        *)
On(cfg, s) == cfg.weight[s] > 0

TotalWeight(cfg, fired) == FoldSet(LAMBDA s, sum : sum + cfg.weight[s], 0, fired)

(* A window that looks further back than the lookback sees too little.        *)
WindowsSeen(cfg) ==
  /\ \A s \in Windowed : On(cfg, s) => cfg.window[s] <= cfg.lookback
  /\ On(cfg, "CAP_APPROACH") => cfg.lookback >= Day

Admissible(cfg) ==
  /\ cfg.lookback > 0 /\ cfg.stepUpAt > 0 /\ cfg.stepUpAt <= cfg.denyAt
  /\ cfg.autoFreeze = 0 \/ cfg.autoFreeze >= cfg.denyAt
  /\ \E s \in Signals : On(cfg, s)
  /\ cfg.minHistory > 0 /\ \A s \in Signals : On(cfg, s) => cfg.limit[s] > 0
  /\ WindowsSeen(cfg)

-----------------------------------------------------------------------------
(* What assess() reads from the rows.                                         *)

ExecutedRows(rows) == {n \in DOMAIN rows : rows[n].type = "execution_result" /\ rows[n].success}

DenyRows(rows) == {n \in DOMAIN rows : rows[n].type = "policy_decision" /\ rows[n].deny}

After(rows, since, ns) == {n \in ns : rows[n].at > since}

Spends(rows, cfg, now) ==
  After(rows, now - cfg.lookback, ExecutedRows(rows))

Denies(rows, cfg, now) ==
  After(rows, now - cfg.lookback, DenyRows(rows))

PriorUse(rows, i) ==
  {n \in DOMAIN rows : /\ rows[n].type = "mandate_consumed"
                        /\ rows[n].mandate = i.mandate /\ rows[n].id # i.id}

Of(rows, ns, m) == {n \in ns : rows[n].merchant = m}

Sorted(rows, ns) ==
  SortSeq(SetToSeq(ns), LAMBDA x, y : rows[x].amount < rows[y].amount)

LowerMedian(rows, ns) == rows[Sorted(rows, ns)[(Cardinality(ns) - 1) \div 2 + 1]].amount

Total(rows, ns) == FoldSet(LAMBDA n, sum : sum + rows[n].amount, 0, ns)

(* Enough history, and more than limit/2 times its lower median.              *)
Untypical(rows, ns, amount, cfg, s) ==
  /\ Cardinality(ns) >= cfg.minHistory
  /\ 2 * amount > cfg.limit[s] * LowerMedian(rows, ns)

(* CAP_APPROACH's threshold is limit/2 of perDayMinor.                        *)
Fires(rows, cfg, i, now, s) ==
  LET spends == Spends(rows, cfg, now) IN
  CASE s = "FIRST_SEEN_MERCHANT" -> Of(rows, spends, i.merchant) = {}
    [] s = "AMOUNT_ABOVE_MERCHANT_TYPICAL" ->
         Untypical(rows, Of(rows, spends, i.merchant), i.amount, cfg, s)
    [] s = "AMOUNT_ABOVE_GLOBAL_TYPICAL" -> Untypical(rows, spends, i.amount, cfg, s)
    [] s = "OUT_OF_HOURS" -> (now % Day) \notin Hours
    [] s = "VELOCITY_BURST" ->
         Cardinality(After(rows, now - cfg.window[s], spends)) >= cfg.limit[s]
    [] s = "DENY_STREAK" ->
         Cardinality(After(rows, now - cfg.window[s], Denies(rows, cfg, now))) >= cfg.limit[s]
    [] s = "FIRST_USE_OF_MANDATE" -> i.mandate # "none" /\ PriorUse(rows, i) = {}
    [] s = "CAP_APPROACH" ->
         2 * (Total(rows, After(rows, now - Day, spends)) + i.amount) >= cfg.limit[s] * PerDay

Tier(cfg, score) ==
  IF score >= cfg.denyAt THEN "high" ELSE IF score >= cfg.stepUpAt THEN "elevated" ELSE "low"

(* A cap to approach that the policy does not have makes it unscorable.       *)
Assess(rows, cfg, i, now) ==
  LET fired == {s \in Signals : On(cfg, s) /\ Fires(rows, cfg, i, now, s)}
      score == TotalWeight(cfg, fired) IN
  IF On(cfg, "CAP_APPROACH") /\ PerDay = 0
    THEN [tier |-> "unscorable", score |-> 0, fired |-> {}, anchor |-> Len(rows)]
    ELSE [tier |-> Tier(cfg, score), score |-> score, fired |-> fired, anchor |-> Len(rows)]

LooseAnchor(rows, anchor) == SubSeq(rows, 1, Min({anchor + 1, Len(rows)}))   \* mutant

AnchoredPrefix(rows, anchor) == SubSeq(rows, 1, anchor)

-----------------------------------------------------------------------------
RiskInit ==
  /\ config \in {c \in RiskConfigs : Admissible(c)}
  /\ ledger = <<>> /\ clock = 0 /\ assessed = {}

RiskRows(i, t) ==
  {[type |-> "execution_result", success |-> ok, merchant |-> i.merchant, amount |-> i.amount,
    at |-> t] : ok \in BOOLEAN}
  \cup {[type |-> "policy_decision", deny |-> TRUE, at |-> t]}
  \cup (IF i.mandate = "none" THEN {}
        ELSE {[type |-> "mandate_consumed", mandate |-> i.mandate, id |-> i.id, at |-> t]})

RiskTick == clock < MaxClock /\ clock' = clock + 1 /\ UNCHANGED <<config, ledger, assessed>>

AppendRow ==
  /\ Len(ledger) < MaxRows
  /\ \E i \in RiskIntents : \E r \in RiskRows(i, clock) : ledger' = Append(ledger, r)
  /\ UNCHANGED <<config, clock, assessed>>

AssessIntent ==
  /\ Cardinality(assessed) < MaxAssessed
  /\ \E i \in RiskIntents :
       assessed' = assessed \cup {[intent |-> i, at |-> clock,
                                   answer |-> Assess(ledger, config, i, clock)]}
  /\ UNCHANGED <<config, ledger, clock>>

RiskNext == RiskTick \/ AppendRow \/ AssessIntent

RiskSpec == RiskInit /\ [][RiskNext]_riskVars
-----------------------------------------------------------------------------
(* "The whole assessment can be replayed bit-for-bit against the ledger       *)
(* prefix it was scored over": recomputing it from the anchored prefix and    *)
(* the recorded instant gives what was recorded, whatever was appended since, *)
(* the intent's own rows and rows of the same instant included.               *)
AssessmentReplays ==
  \A a \in assessed :
    Assess(AnchoredPrefix(ledger, a.answer.anchor), config, a.intent, a.at) = a.answer

(* A scorecard the constructor admits sees everything its windows speak of:   *)
(* the lookback never hides a spend or a denial a signal should have counted. *)
LookbackHidesNothing ==
  LET all == ExecutedRows(ledger)
      denies == DenyRows(ledger)
      same(seen, rows, s, width) ==
        On(config, s) =>
          After(ledger, clock - width, seen) = After(ledger, clock - width, rows) IN
  /\ same(Spends(ledger, config, clock), all, "VELOCITY_BURST", config.window["VELOCITY_BURST"])
  /\ same(Denies(ledger, config, clock), denies, "DENY_STREAK", config.window["DENY_STREAK"])
  /\ same(Spends(ledger, config, clock), all, "CAP_APPROACH", Day)

(* A score leaves nothing out that was on the ledger when it was made and     *)
(* lets in nothing that came later.                                           *)
AssessmentHolds == AssessmentReplays /\ LookbackHidesNothing
=============================================================================
