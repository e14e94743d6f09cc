---------------------------- MODULE AuditLedger ----------------------------
(***************************************************************************)
(* The hash-chained ledger (ledger/ledger.ts) over a shared store: several *)
(* AuditLedger instances, each with its own promise queue, extend one      *)
(* chain by compare-and-append.                                            *)
(*                                                                         *)
(* The digest of an entry is ideal: it is the sequence of everything the   *)
(* chain committed to up to that entry, so that two digests are equal      *)
(* exactly when the histories are.  The content of an entry is the append  *)
(* that wrote it and its timestamp.  A tip is the seq of the next entry    *)
(* (`seq + 1`) with the hash to chain onto; `null` is [next |-> 0].        *)
(***************************************************************************)
EXTENDS Naturals, Sequences, FiniteSets

CONSTANTS
  Instance,       \* AuditLedger objects over one store
  Call,           \* calls of append()
  Home,           \* the instance each call is made on
  ByConstraint,   \* instances whose store relies on UNIQUE (seq), (prev_hash)
  MaxAttempts,    \* MAX_APPEND_ATTEMPTS
  MaxTime, MaxFaults   \* bounds of the clock and of the failures

ASSUME LedgerAssumption ==
  /\ Home \in [Call -> Instance] /\ ByConstraint \subseteq Instance
  /\ MaxAttempts \in Nat \ {0}
  /\ MaxTime \in Nat /\ MaxFaults \in Nat

VARIABLES
  rows,           \* the entries in the store
  stray,          \* entries sent whose writer no longer waits for the answer
  queue,          \* the appends of each instance not yet settled, in order
  pc, tip, entry, attempts,   \* the locals of each append
  clock,
  faults,         \* failures so far (bound)
  start           \* history: how long the chain was when the append began

task == <<tip, entry, attempts, start>>
ledgerVars == <<rows, stray, queue, pc, task, clock, faults>>

Time == 0..MaxTime
Digest == Seq([seq : Nat, at : Time, by : Call])
Genesis == << >>
Tip == [next : Nat, hash : Digest]
Entry == [seq : Nat, at : Time, by : Call, prevHash : Digest, hash : Digest]
NoEntry == [seq |-> 0, at |-> 0, by |-> CHOOSE c \in Call : TRUE,
            prevHash |-> Genesis, hash |-> Genesis]

EntryHash(e) == Append(e.prevHash, [seq |-> e.seq, at |-> e.at, by |-> e.by])
NextSeq(t, i) == IF i = 1 THEN 0 ELSE t[i - 1].seq + 1
PrevHash(t, i) == IF i = 1 THEN Genesis ELSE t[i - 1].hash
TipOf(t) == [next |-> NextSeq(t, Len(t) + 1), hash |-> PrevHash(t, Len(t) + 1)]

-----------------------------------------------------------------------------
(* verify() and head() *)

\* The first test an entry fails, in the order verify() makes them.
ProblemAt(t, i) ==
  CASE t[i].seq < NextSeq(t, i) -> "fork"
    [] t[i].seq > NextSeq(t, i) -> "gap"
    [] t[i].seq = NextSeq(t, i) /\ t[i].prevHash # PrevHash(t, i) -> "broken"
    [] OTHER -> IF t[i].hash # EntryHash(t[i]) THEN "tampered" ELSE "none"

BadEntries(t) == {i \in DOMAIN t : ProblemAt(t, i) # "none"}

Problem(t) ==
  LET bad == BadEntries(t) IN
  IF bad = {} THEN "none" ELSE ProblemAt(t, CHOOSE i \in bad : \A j \in bad : i <= j)

HeadOf(t) == [entries |-> Len(t), hash |-> TipOf(t).hash]
HeadRefused(t) == Len(t) # TipOf(t).next

Verify(t, expected) ==
  IF Problem(t) # "none" THEN Problem(t)
  ELSE IF HeadOf(t) # expected THEN "rewritten" ELSE "none"

-----------------------------------------------------------------------------
NoTip == [next |-> 0, hash |-> Genesis]

LedgerInit ==
  /\ rows = << >> /\ stray = {}
  /\ queue = [i \in Instance |-> << >>]
  /\ pc = [c \in Call |-> "new"]
  /\ tip = [c \in Call |-> NoTip]
  /\ entry = [c \in Call |-> NoEntry]
  /\ attempts = [c \in Call |-> 0]
  /\ start = [c \in Call |-> 0]
  /\ clock = 0 /\ faults = 0

\* The locals of the appends in S go out of scope.  (`start` is kept for those
\* that gave up, which RacedByOthers is about.)
ForgetLocals(S) ==
  /\ tip' = [c \in Call |-> IF c \in S THEN NoTip ELSE tip[c]]
  /\ entry' = [c \in Call |-> IF c \in S THEN NoEntry ELSE entry[c]]
  /\ attempts' = [c \in Call |-> IF c \in S THEN 0 ELSE attempts[c]]
  /\ start' = [c \in Call |-> IF c \in S /\ pc'[c] # "raced" THEN 0 ELSE start[c]]

Waiting == {"queued", "build", "sent", "reread", "answered"}

Running(c) == queue[Home[c]] # << >> /\ Head(queue[Home[c]]) = c

RequestAppend(c) ==
  /\ pc[c] = "new"
  /\ pc' = [pc EXCEPT ![c] = "queued"]
  /\ queue' = [queue EXCEPT ![Home[c]] = Append(@, c)]
  /\ UNCHANGED <<rows, stray, task, clock, faults>>

\* Mutant: a failed append breaks the queue behind it.
SettleOnlyGood(c, how) ==
  /\ pc' = [pc EXCEPT ![c] = how]
  /\ queue' = IF how = "ok" THEN [queue EXCEPT ![Home[c]] = Tail(@)] ELSE queue
  /\ ForgetLocals({c})

\* The append settles, with an entry or an error: either way the queue goes on.
Settle(c, how) ==
  /\ pc' = [pc EXCEPT ![c] = how]
  /\ queue' = [queue EXCEPT ![Home[c]] = Tail(@)]
  /\ ForgetLocals({c})

\* store.last()
ReadTip(c) ==
  /\ Running(c) /\ pc[c] = "queued"
  /\ pc' = [pc EXCEPT ![c] = "build"]
  /\ tip' = [tip EXCEPT ![c] = TipOf(rows)]
  /\ start' = [start EXCEPT ![c] = Len(rows)]
  /\ UNCHANGED <<rows, stray, queue, entry, attempts, clock, faults>>

Chained(c, at) ==
  LET e == [seq |-> tip[c].next, at |-> at, by |-> c,
            prevHash |-> tip[c].hash, hash |-> Genesis]
  IN  [e EXCEPT !.hash = EntryHash(e)]

\* Every attempt reads the clock again.
Stamped(c) == Chained(c, clock)

Build(c) ==
  /\ Running(c) /\ pc[c] = "build"
  /\ pc' = [pc EXCEPT ![c] = "sent"]
  /\ entry' = [entry EXCEPT ![c] = Stamped(c)]
  /\ UNCHANGED <<rows, stray, queue, tip, attempts, start, clock, faults>>

-----------------------------------------------------------------------------
(* store.append(entry, expected): the comparison and the write are atomic. *)

\* Mutant: a store that appends without comparing.
AdmitsAnything(e) == e \in Entry

\* A tip compared with the expected one, or two unique columns.
Admits(e) ==
  IF Home[e.by] \in ByConstraint
  THEN \A i \in DOMAIN rows : rows[i].seq # e.seq /\ rows[i].prevHash # e.prevHash
  ELSE TipOf(rows) = [next |-> e.seq, hash |-> e.prevHash]

StoreAppends(c) ==
  /\ Running(c) /\ pc[c] = "sent" /\ Admits(entry[c])
  /\ rows' = Append(rows, entry[c])
  /\ pc' = [pc EXCEPT ![c] = "answered"]
  /\ UNCHANGED <<stray, queue, task, clock, faults>>

Return(c) ==
  /\ Running(c) /\ pc[c] = "answered"
  /\ Settle(c, "ok")
  /\ UNCHANGED <<rows, stray, clock, faults>>

\* One attempt lost; t is the tip the store reports.
Retry(c, t) ==
  IF attempts[c] + 1 < MaxAttempts
  THEN /\ pc' = [pc EXCEPT ![c] = "build"]
       /\ attempts' = [attempts EXCEPT ![c] = @ + 1]
       /\ tip' = [tip EXCEPT ![c] = t]
       /\ UNCHANGED <<queue, entry, start>>
  ELSE Settle(c, "raced")

StoreRefuses(c) ==
  /\ Running(c) /\ pc[c] = "sent" /\ ~Admits(entry[c])
  /\ Home[c] \notin ByConstraint
  /\ Retry(c, TipOf(rows))
  /\ UNCHANGED <<rows, stray, clock, faults>>

\* A violated constraint does not say what the tip is: it is read afterwards.
ConstraintRefuses(c) ==
  /\ Running(c) /\ pc[c] = "sent" /\ ~Admits(entry[c])
  /\ Home[c] \in ByConstraint
  /\ pc' = [pc EXCEPT ![c] = "reread"]
  /\ UNCHANGED <<rows, stray, queue, task, clock, faults>>

Reread(c) ==
  /\ Running(c) /\ pc[c] = "reread"
  /\ Retry(c, TipOf(rows))
  /\ UNCHANGED <<rows, stray, clock, faults>>

-----------------------------------------------------------------------------
(* The environment *)

Asking == {"queued", "sent", "reread", "answered"}   \* awaiting the store

\* Mutant: an append whose answer is lost is sent again.
LoseAndRetry(c) ==
  /\ Running(c) /\ pc[c] \in Asking /\ faults < MaxFaults
  /\ faults' = faults + 1
  /\ stray' = IF pc[c] = "sent" THEN stray \cup {entry[c]} ELSE stray
  /\ pc' = [pc EXCEPT ![c] = "queued"]
  /\ UNCHANGED <<rows, queue, task, clock>>

\* The store throws, or its answer is lost.  What was sent may yet arrive.
LoseAnswer(c) ==
  /\ Running(c) /\ pc[c] \in Asking /\ faults < MaxFaults
  /\ faults' = faults + 1
  /\ stray' = IF pc[c] = "sent" THEN stray \cup {entry[c]} ELSE stray
  /\ Settle(c, "failed")
  /\ UNCHANGED <<rows, clock>>

StrayArrives(e) ==
  /\ e \in stray
  /\ stray' = stray \ {e}
  /\ rows' = IF Admits(e) THEN Append(rows, e) ELSE rows
  /\ UNCHANGED <<queue, pc, task, clock, faults>>

Dying(i) == {c \in Call : Home[c] = i /\ pc[c] \in Waiting}

\* The process dies with its queue; another takes over under the same name.
Crash(i) ==
  /\ Dying(i) # {} /\ faults < MaxFaults
  /\ faults' = faults + 1
  /\ pc' = [c \in Call |-> IF c \in Dying(i) THEN "dead" ELSE pc[c]]
  /\ queue' = [queue EXCEPT ![i] = << >>]
  /\ stray' = stray \cup {entry[c] : c \in {d \in Dying(i) : pc[d] = "sent"}}
  /\ ForgetLocals(Dying(i))
  /\ UNCHANGED <<rows, clock>>

Tick ==
  /\ clock < MaxTime
  /\ clock' = clock + 1
  /\ UNCHANGED <<rows, stray, queue, pc, task, faults>>

AppendStep(c) ==
  \/ ReadTip(c) \/ Build(c) \/ StoreAppends(c) \/ Return(c)
  \/ StoreRefuses(c) \/ ConstraintRefuses(c) \/ Reread(c)

LedgerNext ==
  \/ \E c \in Call : RequestAppend(c) \/ AppendStep(c) \/ LoseAnswer(c)
  \/ \E e \in stray : StrayArrives(e)
  \/ \E i \in Instance : Crash(i)
  \/ Tick

LedgerSpec == LedgerInit /\ [][LedgerNext]_ledgerVars

\* The event loop goes on and the store answers, with a value or an error.
InstanceStep(i) == \E c \in Call : Home[c] = i /\ AppendStep(c)
LedgerFairness == \A i \in Instance : WF_ledgerVars(InstanceStep(i))

-----------------------------------------------------------------------------
(* Properties *)

\* Every variable has its type; attempts stay below the bound of the loop.
LedgerTypeOK ==
  /\ rows \in Seq(Entry) /\ stray \subseteq Entry
  /\ queue \in [Instance -> Seq(Call)]
  /\ pc \in [Call -> Waiting \cup {"new", "ok", "raced", "failed", "dead"}]
  /\ tip \in [Call -> Tip] /\ entry \in [Call -> Entry]
  /\ attempts \in [Call -> 0..MaxAttempts - 1] /\ start \in [Call -> Nat]
  /\ clock \in Time /\ faults \in 0..MaxFaults

\* Whatever the writers, the delays and the failures, the chain has no fork and
\* no gap, every hash and link is right, and head() does not refuse it
\* (ledger.ts, the class comment: concurrent writers keep the chain linear).
ChainLinear == Problem(rows) = "none" /\ ~HeadRefused(rows)

\* Timestamps never decrease along the chain, on one clock: an entry is stamped
\* after its parent was committed, also in a later attempt or when it arrives
\* late (the comment in the loop of append()).
TimestampsMonotone ==
  \A i \in DOMAIN rows : i > 1 => rows[i - 1].at <= rows[i].at

\* The entries added while c was trying, by others than the calls queued with it.
Rivals(c) ==
  {i \in start[c] + 1..Len(rows) :
     \/ Home[rows[i].by] # Home[c]
     \/ pc[rows[i].by] \in {"failed", "dead"}}

\* An append gives up only after MAX_APPEND_ATTEMPTS commits of other writers:
\* callers of one instance never cost each other an attempt, and neither does a
\* store that reads the tip after the refusal (the comment at the constant).
RacedByOthers == \A c \in Call : pc[c] = "raced" => Cardinality(Rivals(c)) >= MaxAttempts

Appended == [i \in DOMAIN rows |-> rows[i].by]

Told == [c \in Call |-> CASE pc[c] = "new" -> "idle"
                          [] pc[c] = "ok" -> "ok"
                          [] pc[c] = "raced" -> "refused"
                          [] pc[c] \in {"failed", "dead"} -> "unknown"
                          [] pc[c] \in Waiting -> "asked"]

Log == INSTANCE AppendOnlyLog WITH log <- Appended, told <- Told

\* What an append tells its caller is what an append-only log would tell it:
\* acknowledged entries are on the chain for good, no append is on it twice,
\* one that lost the race is on it never, not even late.
RefinesLog == Log!LogSpec

\* No queue wedges: the appends that were asked for all return or fail, again
\* and again, whatever became of those queued before them (each is asked once).
AppendReturns == []<>(\A c \in Call : pc[c] \notin Waiting)

-----------------------------------------------------------------------------
(* What a tampered store shows: rows cut out, doubled by a second writer,  *)
(* altered in place (hash kept or renewed), swapped, or a forged chain.    *)

Rehashed(e) == [e EXCEPT !.hash = EntryHash(e)]
Cut(t, i) == SubSeq(t, 1, i - 1) \o SubSeq(t, i + 1, Len(t))
Altered(t, i, d) == [t EXCEPT ![i].by = d]
Doubled(t, i, d) ==
  SubSeq(t, 1, i) \o <<Rehashed([t[i] EXCEPT !.by = d])>> \o SubSeq(t, i + 1, Len(t))
Swapped(t, i, j) == [t EXCEPT ![i] = t[j], ![j] = t[i]]

\* The digest of the k-th entry of a chain: all that it commits to.
Committed(t, k) == [j \in 1..k |-> [seq |-> t[j].seq, at |-> t[j].at, by |-> t[j].by]]

Forged(t, i, d) ==
  LET u == Altered(t, i, d)
  IN  [k \in DOMAIN t |->
         [u[k] EXCEPT !.prevHash = Committed(u, k - 1), !.hash = Committed(u, k)]]

\* verify() names each kind of tampering: a missing row is a gap, a second
\* child a fork, and never the other way round; what is consistent in itself
\* (truncation, a forged chain) is caught by the head retained before; head()
\* refuses to vouch for rows that are missing or doubled (ledger.ts, the
\* comments in verify() and at head()).
TamperingIsNamed ==
  \A i \in DOMAIN rows :
    LET cut == Cut(rows, i) IN
    /\ IF i < Len(rows) THEN Problem(cut) = "gap" /\ HeadRefused(cut)
       ELSE Problem(cut) = "none" /\ Verify(cut, HeadOf(rows)) = "rewritten"
    /\ \A j \in i + 1..Len(rows) : Problem(Swapped(rows, i, j)) = "gap"
    /\ \A d \in Call \ {rows[i].by} :
         /\ Problem(Doubled(rows, i, d)) = "fork" /\ HeadRefused(Doubled(rows, i, d))
         /\ Problem(Altered(rows, i, d)) = "tampered"
         /\ i < Len(rows) =>
              Problem([rows EXCEPT ![i] = Rehashed([@ EXCEPT !.by = d])]) = "broken"
         /\ Problem(Forged(rows, i, d)) = "none"
         /\ Verify(Forged(rows, i, d), HeadOf(rows)) = "rewritten"

\* The chain that several writers build, with what a lost race means for its
\* loser, and what verify() makes of that chain once it is tampered with.
ChainHolds == ChainLinear /\ TimestampsMonotone /\ RacedByOthers /\ TamperingIsNamed
=============================================================================
