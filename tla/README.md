# A TLA+ verification project for vaduno

vaduno is a *spend firewall and flight recorder for AI agents*: a payment that
an agent wants to make is an intent; the guard decides on it (policy, risk,
mandate, revocation, human approval, rolling spend caps), runs the payment on
its rail, and writes every step to a hash-chained ledger. It never holds funds:
what it has is the decision whether an executor may run, and the evidence.

This directory holds TLA+ models of its core, their TLC configurations and
proofs checked by TLAPS. Paths below are relative to `src/packages/`.

## 1. Inventory

| component | state | operations | what must be true of it |
|---|---|---|---|
| Spend limiter `guard/src/enforce/*spend-limiter.ts`, `postgres/src/spend-limiter.ts` | records of reserved and committed money by id and by budget | `reserve` `commit` `release` `pruneBefore` `hydrate` | every rolling window is respected under stale and skewed clocks; an id reserves once; committed money stays counted |
| Consume-once registry `guard/src/enforce/*consume-store.ts`, `postgres/src/consume-store.ts` | claims by (mandate, intent id) with payment digest and outcome | `claim` `settle` `pruneMandates` | maxUses over the whole life; one winner; the first outcome stands |
| Guard pipeline `guard/src/guard.ts` | freeze flag and epoch, promise queue, executed history, degraded flags | `execute` `authorize` `settle` `releaseSpend` `freeze` `unfreeze` `setPolicy` `hydrateFromLedger` | the rail runs only on the call's own reservation and use; denials hold nothing; replays are truthful; freezes win; nobody waits for ever |
| Mandate manager `guard/src/mandate/` | registered mandates, mirror of use counts, queue | `issue` `register` `revoke` `check` `consumeOnce` `settleUse` `hydrateFromLedger` | a use is consumed at most once across processes and restarts |
| Policy engine, risk scorecard `guard/src/policy/`, `guard/src/risk/` | none | `evaluatePolicy`, `scoreRisk` | deterministic, deny on anything unreadable |
| Audit ledger `guard/src/ledger/`, `postgres/src/ledger-store.ts` | the chain; an append queue per instance | `append` `verify` `head` | no fork with several writers, no gap, tail truncation visible against a retained head |
| File mutex `guard/src/enforce/file-mutex.ts` | the lock file, its token and mtime; a heartbeat | `run` (acquire, reclaim, release) | one holder; a dead holder is reclaimed |
| Approval queue `guard/src/approval/` | pending requests, decisions | `enqueue` `resolve` `getDecision` polling | a decision is for the payment the human saw, and is final |
| Revocation `revocation/src/`, `postgres/src/revocation-store.ts` | revocation records, agent blocks, index allocation, published versions; the verifier's version floor | `assignIndex` `revokeMandate` `revokeAgent` `unsuspend` `publish` `hydrate`, `createStatusListCheck` | revoked stays revoked; an index never changes owner; no rollback |
| Shared freeze store `revocation/src/freeze-store.ts`, `postgres/src/freeze-store.ts` | frozen flag, epoch | `freeze` `unfreeze(expectedEpoch)` `read` | a stale unfreeze never lifts a newer freeze |
| Stripe handler `stripe/src/` | decision cache, in-flight map, deadline | webhook handling | one decision per authorization, an answer by the deadline, both sides agree |
| x402 fetch `x402/src/` | none (a fresh id for each request) | `x402Fetch` | what is paid is what was decided |
| Guarded signer and host `cloudflare/src/` | none (ids are digests) | `signTypedData` | no signature without counted budget |
| Agent hooks `agent/src/` | in-flight map of tool calls | `preToolUse` `postToolUse` `postToolUseFailure` | every authorization is settled once, with its own outcome |
| Transparency `transparency/src/` | Merkle tree leaves, witness heads | `appendLeaves`, proofs, `sync`, `cosign`, `detectSplitView` | append-only, provable, split views detected |
| Dashboard, examples, scripts | - | - | not part of the firewall |

How they interact: an adapter (Stripe, x402, signer, agent hooks) calls the
guard. The guard awaits, in this order, the ledger, the policy engine, the
approval handler, the revocation check, the limiter, the consume registry
(through the mandate manager), the executor, and on the way out the limiter,
the registry and the ledger again. Guards in different processes share only
the stores. The file-backed stores make each operation atomic with the file
mutex, the Postgres ones with a transaction and an advisory lock.

What makes it hard:

- *the awaits*: everything read before one may be stale after it;
- *two stores, two awaits*: budget and mandate use are not taken together;
- *ambiguity of failure*: a rail that threw, a store whose answer was lost, and
  a process that died all may have done what they were asked to do;
- *retries*: the intent id is the idempotency key of two registries with
  different notions of "the same payment";
- *no lock for the kill switch*: `freeze()` takes effect without waiting;
- *clocks*: window arithmetic uses the callers' clocks.

The hazards this gives rise to are listed with their lines in `PROJECT.json`.

## 2. The modules

### SpendLimiter

One action per outcome of a store call. An optional value of the source
(`capMinor?`, `merchantKey?`) is a set of at most one element. `records` is
`byScope`, `status` is the state kept with `byId`; amounts are summed as the
cardinality of a set of units (`Units`), so that the sums are plain set theory
for the provers. `Admits` is `firstViolatedWindow(...) = null`: every window is
validated first, an over-range amount is refused, then each window is compared.
A request carries its own reading `ms` of the clock, at most `MaxWait` old; the
store does not know the time. `pruned` and `clock` are history and environment.
`CutoffAllowed` is the operator's duty: a cutoff older than the widest window,
with a margin `PruneMargin`.

The window properties are not a restatement of the guard. `reserve` compares
one window *ending at the request's reading*; the property is about every
window-long span of real time, with readings out of order, releases in between,
records pruned and refused duplicates.

### ConsumeStore

`claims[m][k]` is the stored `UseClaim`; `wins` counts how often `claim`
answered "winner"; `sealed` is the set of mandates that are over for good, which
is when pruning is safe according to the contract of `pruneMandates`.

### Guard

Extends both stores and uses their actions, so each store call of the pipeline
is the store's own action. A step of a call goes from one await that matters to
the next; `pc` names where it is:

| pc | code |
|---|---|
| `new`, `approval`, `queued`, `approved` | `run()` up to `runExclusive` |
| `reserve` | `commit()` after its first checks, at `limiter.reserve` |
| `lookup`, `claim` | the two store calls of `consumeOnce` |
| `lastExit` | the last freeze check |
| `starting` | `execution_started` |
| `rail`, `authorized` | the executor, or the caller of `authorize()` |
| `commit`, `settleExecuted` | `commitBestEffort`, `settleBestEffort("executed")` |
| `giveback`, `settleFailed` | `releaseIfOurs`, `settleBestEffort("failed")` |
| `done`, `crashed` | |

`line` is the promise queue of `runExclusive`. Policy, risk, mandate terms,
revocation and the approver are arbitrary verdicts: every property holds
whatever they answer. The awaits between the first freeze check and `reserve`
touch neither store, so they are one step (`freeze()` may fall anywhere in
between: the flag is read again later). `Fault` stands for a store that fails,
before or after it did what it was asked, and for a crash; `MaxFaults` bounds
how often. The replies collapse the ordinary denial codes into "denied". A
two-phase payment survives its process: the caller of `authorize()` may settle
from anywhere, and passes the mandate id along. A restarted process starts
unfrozen; how a freeze survives a restart is the question of `FreezeHydrate`.
Pruning by the operator is left to the stores' own models.

`owner`, `moved` and `stopped` are history variables: who took a reservation,
whose rail moved money, and which calls a standing freeze overtook.

### FreezeHydrate

The same guard seen from its kill switch. `frozen`, `freezeEpoch`, `hydrated`,
`hydrateFailed` and `freezeDegraded` are the fields of those names;
`freezeWrites` is the tail of appends the ledger's own queue still holds, and
`ledger` the freeze rows that landed. `Flip` is the synchronous part of
`freeze()` and `unfreeze()`; `LandRow` and `LoseRow` settle the oldest append
(a lost one may have landed without its answer). `hydrateFromLedger()` is
`CallHydrate`, then, at the head of the queue `critical`, `BeginRestore` (wait
for the rows issued so far), `Verify`, `ReadRows` and `Apply`, or
`FailHydrate`; flips fall between any two of them. Calls of `execute()` are
reduced to what the switch sees of them: `Admit` with its gate, an approval,
the queue, the two freeze checks of `commit()` (`Check`), the rail. One
hydration of a process is in flight at a time, and the ledger rows are only the
freeze rows: spend restoration is the subject of `Settlement`.
`latest` is history: the operator's last flip, whether its row landed, and
whether the instance that took it is still running.

### FileMutex

The lock under the file-backed stores, in discrete time. `lock` is the file at
the path: whose token it holds and its mtime. `Open` is the exclusive create
(with the token: nobody reads an empty file differently), `Look` the `stat` and
the staleness and confirmation tests, `Remove` the unlink of a confirmed lock,
`Beat` the heartbeat, which like the code's `utimes` touches whatever file is
there; `ReadToken` and `Unlink` are the two awaits of `release()`. The errors
that mean contention are one answer; a refused unlink that outlasts its retries
is `RemoveRefused` and `UnlinkRefused`. `Tick` advances the monotonic clock
only when nobody who runs is late: naps last at most `Nap`, a holder beats every
`Period`, all other steps take no time. A suspended process (a blocked event
loop) is late by at most `StallLimit` since its last beat. `MutexDeadlines` is the order
of these times, as the defaults of the constructor and the documented limit on
suspension give it; `OneReclaims` says that no two contenders are removing an
orphan at the same time, which the code does not ensure. The wall clock, which
mtimes use, may jump ahead once. A box stalls or its clock jumps, not both: the
confirmation window covers either, and not their sum.

### AuditLedger and AppendOnlyLog

The writers of the ledger. `rows` is the store, `queue` the promise queue of
each `AuditLedger` object, `pc` and the `task` variables the locals of an
`append()`: `ReadTip` is `store.last()`, `Build` stamps, chains and hashes,
`StoreAppends` and the two refusals are the store's atomic step, `Retry` the end
of an attempt. A store either compares tips (memory, JSONL under its mutex,
Postgres) or relies on its unique columns and reads the tip afterwards
(Supabase, and Postgres after 23505); both kinds share one chain here.
`LoseAnswer` is a store that throws; the entry it was sent becomes `stray` and
may land at any later time, also after its writer has crashed. A digest is the
whole history it commits to, so it is ideal: equal digests, equal histories.
`Problem`, `Verify` and `HeadRefused` are `verify()` and `head()`.

`AppendOnlyLog` is what a caller may rely on: acknowledged means on the log for
good, refused means never, any other failure means unknown, and no append is on
the log twice. `AuditLedger` implements it.

### MandateManager and MandateCheck

`MandateManager` follows `consumeOnce()` from its queue to the ledger row: `Ask`,
`Lookup` (the prior claim, then `checkState`), `ClaimUse`, `RecordUse`; then the
rail, `settleUse()` and the `execution_result` row. `states` is what a process
knows of each mandate, `rows` the ledger, and `Hydrate` folds `Replay` over it as
`hydrateFromLedger()` does: uses are claimed without a budget, results settle the
oldest waiting use of their intent id. The store is shared by two processes, or a
memory store that dies with one. `granted` and `outcome` are history.

`MandateCheck` is the other half of the class: the constructor's key rules
(`Buildable`, `VerifyKeys`), `issue` and `issueHybrid`, and `check` in the order
of the code, version and algorithms first, then Ed25519, the post-quantum half,
revocation, time, uses, and the constraints. Signatures are ideal: `[by, over]`.

### PolicyEngine and RiskScorecard

`EvaluatePolicy` collects the reasons of every rule, as `evaluatePolicy()` does,
over structured names: a network is a form, an id and its leading zeros, a host
the sequence of its labels. `Tighten` and `Respell` are the two environments the
properties speak of: an operator who makes one field stricter, a counterparty who
writes the same chain differently. `RiskScorecard` is `Admissible` (the
constructor), `Assess` over the ledger rows, and the replay of an assessment from
its anchor.

### JsonValues, IntentShape, CanonicalJson and SignerWire

`JsonValues` is the JavaScript values these modules are about: trees of arrays and
objects, with the leaves JSON has no word for, and `Within`, the values a
recursion visits, level by level of nesting. `CanonicalJson` is the serializer the
ledger hashes with: `SerializeStep`, the body of `serialize()` for one value, gives
its token sequence or a throw. `IntentShape` walks an intent before anything looks
at it (`WalkStep`, the body of `walk()` with its depth, width and node budget, and
`ChildStep`, that of its loops) and substitutes markers, so that a row of evidence
can always be written. All of them are folded over the levels of nesting that bytes
reach, from the deepest up. `SignerWire` is the tagging codec between a remote signer and
its host, over `JSON.stringify` as an external function. `EncodeStep` and
`DecodeStep` are the bodies of `encodeWire()` and `decodeWire()` for one value,
given what they make of its parts; the recursion goes over the value's levels,
`MaxNesting` of them for what a caller presents and twice as many and one for its
encoding.

### GuardedSigner and TypedDataTypes

`GuardedSigner` follows `gatedSignTypedData()`: snapshot, recognition and
commitment (`Admitted`), the auth-capture receiver, scaling to minor units, the
policy of `PolicyEngine`, `Authorize`, `Sign`, `Settle` or `Release`, and the
re-signing of a replay; `TransportFails` and `Return` are the remote end.
`TypedDataTypes` is the question inside `Admitted`: which fields does a digest
cover, when structs are nested, recursive or in arrays. `Check` has the refusals in
the order of the code: a shape that is no payment, a fact the types leave out, a
message that has no digest (`DIGEST_UNCOMPUTABLE`, a null where a struct is
declared), a record that would have to be cut short. A message is a JavaScript
value. `VisitStep` and `FieldStep` are the bodies of `visit()` and of its loop, one
level of structs at a time; `CoverStep` is what viem's `encodeField()` (external)
does with one value of one type, and `Covered` the recursion over both.

### X402Fetch, StripeHandler, AgentHooks and ApprovalQueue

The adapters, each over the guard as it looks from outside. `X402Fetch` has both
protocol versions, from the answer of the server to the second answer, with
`SetPolicy` at any moment. `StripeHandler` has one timer per delivery, a decision
store that may be slow, hang or fail, and single flight; whatever was awaited
goes on behind the deadline. `AgentHooks` is the in-flight map under its
correlation keys. `ApprovalQueue` has several waiters of one intent id and a
human who looks at a list and decides later.

### Settlement

The rows of `settle()`: `ReadTrail` and `RecordSettlement` are the two halves of
`recordSettlement()` in its critical section, `Duplicate` its comparison with the
rows since the last authorization, `RestoredRows` and `SkippedRows` what
`restoreFromLedger()` makes of them.

### Revocation, StatusListCheck and FreezeStore

`store` is the revocation store, `log` the ledger, `task` the operation that runs
in the registry's promise queue, step by step between its awaits; `Restored(log)`
is `hydrateFromLedger()`. Publishing is outside that queue, as in the code:
`Publish`, `Snapshot`, `CollectAgents`, `Sign`, `LogPublish`. `StartCheck` and
`EndCheck` are the two reads of the guard's registry check. `StatusListCheck`
adds a verifier that is served any list ever signed; its floor is persisted, the
content behind it is not. `FreezeStore` is one row with an epoch, frozen
unconditionally and lifted only at the epoch the operator saw.

### MerkleTree, LedgerMirror, Witness, Anchor and CheckpointNote

`MerkleTree` is RFC 6962 hashing and its two verifiers, with the loop state of
the code; `SendNode` lets a prover send any path. `LedgerMirror` is the tree file
with torn writes and the repair in `load()`, `sync()`, `audit()` and the signed
heads. `Witness` keeps `state` in memory and `stored` behind `onCommit()`, and
asks for a consistency proof. `Anchor` is the quorum a third party checks, over
lines anyone may write and keys somebody may forge. `CheckpointNote` is the text
format: what a note signs and what a parser reads, with a text as a sequence of
characters, in which a size, a root and a signature are one character each (so
`MaxNoteLength` stands for the limit in bytes), and lines as a recursive function over
the text. The attempts to write what a body or a line may not hold are among the
inputs of the run.

## 3. What the runs show

Components that share nothing are checked in one run: the MC module has a variable
`focus`, chosen at the start, and in each behaviour only the focused component
moves. This is a product of independent models and not an interaction; those are
in `Guard` (both stores), `StatusListCheck` (with the registry), `GuardedSigner`,
`X402Fetch` and `MandateCheck` (with the policy engine) and `SignerWire`,
`IntentShape` (with the serializer).

| run | bounds | shows |
|---|---|---|
| `guard` | 2 processes, 3 calls in four workloads (retries of one payment, one id under two mandates, races for a cap and a mandate, two-phase), 1 fault | `RailIsSafe`, `AnswersMatchBooks`, `UsesStoresAsSpecified` |
| `guard_live` | 1 process, 3 calls, 1 fault | `EveryCallLeaves` |
| `stores` | limiter: 3 ids (one legacy record), 2 merchants, four kinds of window, 5 instants, readings up to 1 old; registry: 2 mandates, 3 keys, 2 payments; lock: a holder and a contender, a crash, a stall or a clock jump, a refused unlink, 11 ticks; kill switch: 3 flips, 2 faults or crashes, 2 payments | `CapsHold`, `CommittedStaysCounted`; `UsesHold`, `FirstOutcomeWins`; `LockHolds`; `FreezesHold`, `RecordedFreezeStops`, `HydrateReturns` |
| `mandate` | 1 mandate of one use, 3 calls with colliding ids and payments (the third competes for the use only: its rail does not fail), 2 processes or a memory store, 2 failures | `RestartForgetsNothing`, `ReplayTellsTruth` |
| `judgement` | 6 policies and 2 edits over 50 requests; every key configuration of 2 Ed25519 and 1 ML-DSA key; 12 scorecards, 3 rows; some 250 server answers, 3 policies; 13 typed messages, 2 callers | `TighteningNeverLoosens`, `SpellingDoesNotMatter`; `SignaturesHold`; `AssessmentHolds`; `PaidAsJudged`; `SignedAsJudged` |
| `edges` | 3 approval waiters of one id; 2 deliveries; 4 tool calls; 4 settlements, 2 authorizations, 1 failure; 2 ledger instances with 2 queued appends each, one per kind of store, 2 attempts, 1 lost answer or crash, 2 instants; some 5,800 values and requests, of which the typed data on the wire nest twice and those of the gate four times | `ApprovalsHold`; `ApprovedIsCounted`, `DeadlineAnswers`; `SettledAsItRan`; `RestartRestoresSettled`; `ChainHolds`, `RefinesLog`, `AppendReturns`; `EvidenceIsFaithful`, `SignedAsPresented`, `DigestFixesPayment`, `NoteReadsBack` |
| `revocation` | 2 mandates of 1 agent, 2 indexes, 4 operations (3 beside a verifier), 1 fault, 2 versions; 2 operators, 4 epochs | `ListsHold`, `DeadNeverPays`, `NeverReinstated`, `LiftsWhatWasSeen` |
| `transparency` | trees of up to 4 leaves, paths of 3; 2 ledger rows, 2 faults; 6 checkpoints, 2 crashes; 3 witnesses, 3 lines | `ProofsProve`, `MirrorsTheLedger`, `NeverContradictsItself`, `AnchorHolds` |
| `guard_retry`, `revocation_lost`, `torn_reader`, `orphan_race` | | counterexamples to sentences of the code's documentation, see below |

Several of these properties are conjunctions of named parts, each with its own
comment in the module:

- `RailIsSafe`: `RailIsBudgeted`, `MovedWithinCap`, `RailWithinMandate`,
  `FreezeHonoured`. `AnswersMatchBooks`: `RefusedHoldsNothing`, `ReplayTruthful`,
  `ExecutedIsCommitted`. `UsesStoresAsSpecified`: `LimiterSpec`, `ConsumeSpec`.
- `CapsHold`: `SpanCountBounded`, `SpanTotalBounded`, `NoSpendUnderBrokenConfig`.
  `UsesHold`: `UsesWithinBudget`, `UseWonOnce`. `LockHolds`: `MutexTypeOK`,
  `MutualExclusion`, `BudgetKept`, `ReleaseOnlyOwn`, `OrphanOutwaited`.
  `FreezesHold`: `LiveFreezeStands`, `NoResurrection`.
- `ChainHolds`: `ChainLinear`, `TimestampsMonotone`, `TamperingIsNamed`,
  `RacedByOthers`. `MAX_APPEND_ATTEMPTS` is 32 in the code; `RacedByOthers`
  compares the bound with the commits of rivals since the append began, so 2
  shows as much.
- `RestartForgetsNothing`: `GrantsSurviveRestart`, `RevokedStaysDead`.
  `AssessmentHolds`: `AssessmentReplays`, `LookbackHidesNothing`.
  `SignaturesHold`: `IssuedVerifies`, `AcceptedIsAuthentic`. `PaidAsJudged`:
  `PolicySawWhatWasSigned`, `SentIsCounted`. `SignedAsJudged`:
  `SignedBytesWereJudged`, `SignedIsCounted`.
- `EvidenceIsFaithful`: `EveryIntentHasARow`, `EvidenceIsBounded`,
  `HashNamesOneValue`. `DigestFixesPayment`: `OneDigestOnePayment`,
  `EvidenceIsComplete`. `ApprovalsHold`: `HumanApprovedIt`, `TimedOutStaysClosed`.
- `ListsHold`: `IndexOwned`, `OneListPerVersion`.

The bounds are small because the hazards are about few actors: two payments of
one id race; a third competes with both for the cap or the mandate; one failure
at any point of any of them is enough to separate what was taken from what is
known. The times of `FileMutex` keep the order the code's defaults have
(heartbeat < confirmation window < staleMs, budget = staleMs + confirmation +
headroom). Two instants more than the longest window let a record leave it and be
pruned. A tree of four leaves has every shape of path the verifiers' loops tell
apart: complete, with one and with two skipped levels. Value sets (policies,
server answers, typed data, notes) hold, for each rule of the code, a value on
either side of it.

Fairness. `guard_live` assumes weak fairness of the steps of a call inside the
critical section, which is the event loop and stores that answer (with a value
or an error), and that a running executor returns. The code gives the executor
no timeout, so this is an assumption on the integrator. Approvals, the caller
of `authorize()`, freezes and crashes are under no fairness. The kill switch
(`FreezeFairness`) adds that the ledger settles each freeze row, one way or the
other, and weak fairness of the hydration's own steps. `LedgerFairness` is weak
fairness of each ledger instance: its event loop runs and its store answers with
a value or an error; every append then returns, again and again
(`AppendReturns`). `StripeFairness` is the
event loop and the timers only: the store and the guard owe nothing, which is
what the deadline is for.

The runs that may stop (`CHECK_DEADLOCK FALSE`) are those whose calls, flips and
faults are all used up.

### Disagreements between documentation and code

With a run:

- `guard_retry`: the comment at `INTENT_ID_NOT_BUDGETED` says that a retry of
  the same payment never gets there. Two processes retrying together do: one
  wins the reservation, the other the use. The direction is safe (nobody pays)
  but the use is burned.
- `revocation_lost`: "revocation is INSTANT and GUARANTEED". A kill whose ledger
  row is lost is on record in the memory of the process only; the retry finds it
  there, answers that the mandate is revoked, and writes no row. A restart
  restores nothing.
- `torn_reader` (a bug): every read of the tree file repairs its tail. A proof
  asked for while the same process is appending cuts off the half-written line,
  and the tree then has a leaf less than its signed head says.
- `orphan_race` (a bug): three contenders of one abandoned lock. Two confirm the
  orphan; the faster removes it, creates its own lock and enters; the slower then
  removes whatever is at the path, which is that lock. Two are inside although
  every holder's heart beats. The comment says that the loser simply retries
  (`file-mutex.ts:279-290`). `OneReclaims` excludes it, and `LockHolds` is proved
  under it; with one contender beside the dead holder (run `stores`) it holds.

Met while modelling, described here only:

- Pruning of spend records is documented as unable to change a decision. It also
  forgets the reservation id, so a retry after it is new money
  (`spend-limiter.ts:222`, `types.ts:397-399`).
- `releaseSpend()` is documented as safe when called by mistake. During a running
  executor it un-counts the money that then moves (`guard.ts:508-513`;
  `MistakenRelease = TRUE` breaks `ExecutedIsCommitted`).
- A failed hydration is documented to deny until a retry succeeds. The gate is at
  the entrance only: without `requireHydration` a call that passed it during the
  hydration runs after the failure (`guard.ts:558-560`, `guard.ts:1049`).
- A pending approval is replaced when another payment is enqueued under its id
  while the human looks (`approval.ts:161`); the fingerprint then binds the answer
  to the newer payment, which is what `HumanApprovedIt` says.
- `X402PaymentFailedError.transmitted` is false when the fetch that carried the
  authorization threw, although it may have been sent (`fetch.ts:655-677`).
- A remote signer that loses its transport reports "no signature exists"; the
  host may have signed and counted one (`signer-host.ts:483-495`).
- The Stripe deadline may pass after the guard counted the payment: the network
  is told DECLINE and the spend stays counted (`handler.ts:147-153`).
- `groupParties()` gives a witness the party of the first of its keys that is
  known; an entry that bridges two known parties does not merge them
  (`cosign.ts:605-617`, against 592-595). `SharedKey.cfg` with `MCTransparency` is
  an extra configuration in which `QuorumCountsParties` fails.
- `cosign.ts:38-41` promises that two conflicting quorums expose a witness. That
  takes k > n/2, and a colluding minority smaller than 2k - n + 1.
- A mandate registered after hydration is live although its revocation is on
  the ledger (`mandate.ts:515-518`; `RegisterLate = TRUE` breaks
  `RevokedStaysDead`), and `revoke()` of a mandate nobody registered does nothing.
- `signCheckpoint()` signs size 0 with a root that is not the empty tree's; no
  parser accepts that note.

### Limits without a run

What a reader might expect of the code and no property says:

- The freeze flag is one process's own. `RecordedFreezeStops` is about one
  process; at a restart the ledger of all of them is folded, so a peer's unfreeze
  lifts too. `FreezeStore` is the answer of the code and is shared.
- `release()` of the file mutex reads the token and unlinks in two awaits. A
  process suspended between them for longer than `staleMs` may unlink its
  successor's lock; `StallLimit` excludes that.
- Two settlements of one authorization by two processes are compared only within
  each process (`guard.ts:395`); two registries over one Postgres store write rows
  without a common order; an assignment row lost before a restart shifts the
  indexes after it (`registry.ts:264`); publishing is not ordered with the
  registry's queue.
- Two deliveries of one Stripe authorization are single-flighted after the
  decision store has answered both (`handler.ts:86-88`). Two agent calls without
  a tool use id and with equal inputs share a key (`KeysApart`).
- Mandate hydration pairs results with uses first in, first out, so two uses of
  one intent id may swap outcomes (`mandate.ts:459-462`); a claim in flight may
  win just before its mandate is pruned (`mandate.ts:1054`).
- `setPolicy()` between the gate of `x402Fetch` and the guard's evaluation is
  judged by the newer policy. Canonical bytes do not tell -0 from 0.
- A Merkle proof is only as good as the pair (size, root) it is checked against:
  both must come from one signed head. Two mirrors over one tree file are not
  supported by the code. A witness without `onCommit` starts from nothing after a
  restart.

## 4. What is proved

All theorems are about the same modules TLC runs, for every value of the constants
under their named assumptions. Those say that the bounds are numbers, that the
values which stand for an absence (`None`, a missing tail) are not values of the
domain, and what the code's own validation guarantees of its inputs:
`LimiterAssumption`, `ConsumeAssumption`, `MutexAssumption`, `GuardAssumption`,
`FreezeAssumption`, `LedgerAssumption`, `WitnessAssumption`, `MirrorAssumption`,
`FreezeStoreAssumption`, `RevocationAssumption`, `X402Assumption`,
`SignerAssumption`, `ForeignAssumption`, `PolicyAssumption`, `RiskAssumption`,
`AnchorAssumption`, `MerkleAssumption`, `WireAssumption`, `ShapeAssumption` (an intent
is a tree of values of any depth and width, whose arrays have their elements in a
sequence and whose objects have properties with names), `NoteAssumption` (names,
origins and extensions are texts), `TypesAssumption` (a type is a name with a number
of brackets, a declared one a list of fields, a message a finite tree), `OneIntent`. Four say
more. `MutexDeadlines` orders the times of the lock file. `KeysApart` gives
concurrent tool calls keys of their own, which hosts without tool use ids do not
(section 3). `PolicyAssumption` includes that a name no alias is known for is not
the number of a chain. `WireAssumption` says that what a caller presents is a
finite tree of values, of whatever depth (an object that contains itself has a
leaf of its own, which is refused), and that a request for another capability or
version, or with data that does not decode, is what else may arrive at the host: a
second caller's typed data is that caller's to have signed. A theorem that needs
more than its module assumes says so in its own `ASSUME`; each of these hypotheses
is listed below with what happens without it.

*StoreProofs*, the two stores and the lock.

- Spend limiter: types; the agreement of the two indexes
  (`LimiterIndexesAgree`); `LimiterBudgetsHold`, which is `CapsHold`, from
  `PruneMargin >= MaxWait`. The caps are not inductive: a new record may be older
  than records already there, so the span that is nearly full may end after the
  request's reading. The invariant therefore speaks of spans ending at every
  instant up to the bound of the readings and is strengthened with: what was
  pruned is older than any window a reading can still see. That is where the
  margin is needed. `CommittedSpendStays` is the action property, from the same
  facts.
- Consume registry: `ConsumeBudgetHolds`, which is `UsesHold`, from: a won use
  is still claimed unless its mandate is sealed; `OutcomesAreStable`.
- File mutex: types; `WaitsAreBounded` and `LockIsExclusive`, which is
  `LockHolds`, for any number of contenders. `WaitInv` follows each contender
  through its deadlines: by when it has flagged a lock it found (`FlagBy`), by when
  it has confirmed and removed it (`RemoveBy`), with a nap for every refused
  removal; `MutexDeadlines` puts the sum below the budget, so nobody gives up
  before an orphan that was there when it came. `HolderInv` is the other half: a
  holder who runs has beaten within `Period`, one who is suspended within
  `StallLimit`, and a beat after a flag moves the mtime that was flagged
  (`FlagsOld`), so only a dead holder's lock is ever confirmed. That one contender
  does not remove what another has just created (`NoRobber`) needs
  `[]OneReclaims`; `orphan_race` is what happens without it.

*GuardProofs*, the pipeline.

- Types; every step of the guard is a step or a stutter of each store
  (`GuardUsesStores`), so the stores' theorems hold of the composition;
  `RailAlwaysBudgeted`, whose invariant ties `owner`, `ours`, `status` and the
  place of the call together; `FreezeAlwaysHonoured`.
- `RailAlwaysSafe`, which is `RailIsSafe`. Two injections carry
  it. Each unit of money that moved maps to a unit the limiter counts, in the same
  span (`MoneyIsCounted`), for which the guard must be known to add records only
  of its own policy and never to shadow one that was there before (`ScopeInv`);
  each call that paid maps to a use its mandate's registry has won (`UseInv`,
  `UsesArePaid`). The stores' theorems bound the images. Assumes
  `PruneMargin >= MaxWait` and a merchant.
- `AnswersAlwaysMatch`, which is `AnswersMatchBooks`. A denial
  or a replay is decided several steps before it is told, so the invariants speak
  of the calls on the way: `BooksInv` ties the place of a call to what the limiter
  holds for it, `OutcomeInv` the outcome recorded for a use to the calls that won
  it, and `ReplayInv` keeps what a replay has read true until it is told, because
  neither a commit nor an outcome is ever taken back.
- The theorems on the rail and the answers assume that `releaseSpend()` is called with proof
  only (`~MistakenRelease`); a release during a running executor un-counts money
  that then moves.

*RestartProofs*, what a process rebuilds.

- Kill switch: types; `FlagFollowsOperator`, which is `FreezesHold`:
  `FreezeIsNeverLifted` is inductive because `Apply` merges toward frozen;
  `LiftIsNeverUndone` needs `SwitchInv`: with no flip since its call, a hydration
  that has verified finds all rows of its own process settled, so a snapshot that
  says frozen proves that no lift of its own stands behind the last freeze, and
  none can land before `Apply`. `FreezeOutlivesRestart` is `RecordedFreezeStops`,
  under `RequireHydration` and with one process on the ledger, since a peer's
  unfreeze would lift the freeze: `RecordInv` says that whoever is admitted was
  admitted after a hydration, that the last row on its way is the operator's latest
  word, and that a word on record stays the last row until the next flip, so a
  restarted process restores it.
- Mandates: `GrantsSurviveRestarts`, `RestartsForgetNothing` (which is
  `RestartForgetsNothing`) and `ReplaysTellTheTruth` (which is `ReplayTellsTruth`),
  for any number of processes, mandates and calls, on a shared store or in memory.
  `ManagerIInv` says that the store still knows every use that is on the ledger or
  about to be recorded there, unless its mandate is sealed; that the uses on record
  are distinct and bounded; that a revocation a process knows of bars the mandate
  there; that an outcome on the ledger or in the store is the one of the rail.
  What a hydration computes from any ledger is a recursive function on its rows;
  the facts about it (`ReplayStepsExist` and those that follow) are proved by the
  least counterexample, with `NatLessThanWellFounded`. `RestartsForgetNothing`
  assumes `~RegisterLate`: a mandate registered after the hydration has missed its
  own revocation. `ReplaysTellTheTruth` assumes `OneMandatePerId`: results are
  paired with uses by intent id only, so an id under two mandates may swap their
  outcomes.

*AuditLedgerProofs*, the ledger.

- Types; `ChainIsLinear` and `TimestampsInOrder`, from: every
  entry in flight was chained onto an entry of the store, not necessarily the
  last, and stamped after it. Only a child of the last one is admitted
  (`AdmittedIsNext`), by comparison or because its seq is taken.
  `LedgerIsAppendOnlyLog` needs `OnceInv`: an append whose entry is in flight is
  not on the chain, and it has at most one stray.
- `ChainAlwaysHolds`, which is `ChainHolds`. That tampering is named is an
  induction along the chain, again by the least counterexample: a hash commits to
  the whole history before it, so two linear chains with one last hash are one
  chain (`LinearCommits`); a row cut, doubled, swapped or altered breaks a link,
  and a chain forged anew to its end is consistent and differs from the retained
  head. `RaceInv` bounds the retries: while an append tries only rivals write, and
  each attempt that lost saw the chain grow.

*RevocationProofs*, the registry, its lists and the shared freeze.

- `TheDeadNeverPay`, which is `DeadNeverPays`, and `ListsAreSound`, which is
  `ListsHold`: the ledger, replayed, is the store except for the row of the
  operation in progress or an index a kill has just taken (`Behind`); what was
  killed and acknowledged is on both, a check in progress has read no less than
  was acknowledged when it began, a version on file is below the one last
  published. The replay is a recursive function on the rows. `NoListReinstates`,
  which is `NeverReinstated`, adds the verifier: a list at or above its floor was
  made after the kill it showed. All three assume `~LostRows`; `revocation_lost`
  is what happens without it.
- `LiftsOnlyWhatWasSeen`, which is `LiftsWhatWasSeen`: an epoch names one state of
  the row (`RowInv`).

*EdgeProofs*, between the guard and the world.

- `ApprovalsAreSound`, which is `ApprovalsHold`: the approvals on file are the
  human's, and whoever waits has a request pending or decided, which is why a late
  answer cannot overturn a timeout.
- `ApprovalsAreAllCounted`, which is `ApprovedIsCounted`: every copy of "approve",
  in the decision store, in what a delivery has read from it and in what it joined,
  stands for a run the guard has counted.
- `SettlementsTellTheTruth`, which is `SettledAsItRan`: an intent is granted to one
  tool call, and what the map remembers under a key is that call's.
- `RestartsRestoreSettled`, which is `RestartRestoresSettled`: the rows of the
  success of one authorization are one, as long as the trail was read in the same
  critical section as it was written.
- `WireIsFaithful`, which is `SignedAsPresented`, for values of every shape, every
  property name and every depth. The codec's functions are recursive over values, so
  they are first shown to exist, level by level of nesting, and every value within
  the depth to be encoded by one application of `EncodeStep` (`Below`, `Levels`).
  Then encoding, JSON text and decoding are followed together from the leaves up:
  what `encodeWire()` makes of a value is text JSON does not change, and decodes to
  the value (`LeafCrosses`, `ContainerCrosses`, by the least level at which it would
  not). The tags are the point: an object with a tag's name among its own is wrapped
  once, so the only objects with a bare tag are the codec's.
- `NotesReadBack`, which is `NoteReadsBack`, for every checkpoint, name and number of
  lines. The invariant (`Formed`): a note is its body, a blank line and a sequence of
  lines, none with a newline in it, whose signatures, in order, are those that were put
  on it. Two facts about texts carry it. A text written line by line is read into those
  lines (`WrittenIsRead`, `LineWritten`). The first blank line is the one after the body
  (`NoteDivides`), because a body ends in a newline and no line of it is empty
  (`LinesAreNotBlank`): that is what `checkpointBody()` refuses an empty extension for.
- `SignedBytesAreOnePayment`, which is `DigestFixesPayment`, for any declarations,
  recursive ones included, and messages of any depth. What a visit adds to the record
  has all it refers to, and lies in every closed set of structs that has what was
  there (`Recorded`, followed over the fields of a struct and then over the levels);
  so a record that is not too deep is the least closed set with the primary type,
  which is what the digest covers (`RecordIsHashed`). The levels of brackets the
  record looks at and those the digest does are the same unless the walk throws
  (`ReferenceIsDeclared`). Two requests with one digest are followed from the top
  along the fields the gate asks for (`FieldIsFixed`), one struct down for an
  authorization, two for a permit, to the same address or amount (`LeafIsFixed`),
  also when a caller declares a struct called `address`: then neither is one.
- `EvidenceAlwaysFaithful`, which is `EvidenceIsFaithful`, for intents of any shape.
  The walk returns, whatever it is given, a copy that can be written within the levels that
  are left, of at most two places for every node it spent, and no problem counted only
  where the value itself can be written (`Sound`; for the loop over the children
  `LoopHolds`, kept by every child whether it is walked, absent or cut off). Two levels
  of entry around what is so bounded still fit under the serializer's limit
  (`EnvelopeIsWritten`), so the row never throws. The bytes: a text of the serializer
  decodes to one meaning, whatever follows it. It begins with a token that tells its
  kind (`StepStarts`); no part of a container begins with its closing bracket, and so
  two containers that go on to the same have as many parts, each equal to its
  counterpart (`PartsDecode`), their names included (`PropertyDecodes`). Followed from
  the deepest level up (`OneMeaning`).

*JudgementProofs*, what a judgement is worth.

- `PaymentsAreAsJudged` (`PaidAsJudged`): the offer a call has chosen stays the one
  its intent was made of, whatever the answer was, and nothing is sent before it
  is counted. `SignaturesAreJudged` (`SignedAsJudged`): whoever owns a digest on
  its way to the account has it reserved, alone, with the intent of its message;
  a digest that is signed stays counted.
- `MandatesAreAuthentic` (`SignaturesHold`), `TighteningIsMonotone`
  (`TighteningNeverLoosens`), rule by rule, and `SpellingIsIgnored`
  (`SpellingDoesNotMatter`), which are about functions and need no history.
- `AssessmentsAlwaysHold` (`AssessmentHolds`): a prefix stays a prefix when rows are
  appended, and what lies within a window lies within every longer lookback.

*HistoryProofs*, append-only histories and who stands behind them.

- `WitnessNeverContradicts`, which is `NeverContradictsItself`: the
  released checkpoints lie below the stored one and that one below the state in
  memory (`WitnessInv`), which runs ahead of it after a failed commit but never
  beside it, so a restart from either leaves one history.
- `MirrorIsFaithful`, which is `MirrorsTheLedger`: every signed head is a prefix of
  the repaired file, the repaired file of what the ledger held, and what `sync()`
  has read is current until it writes. Assumes `~ProofsOfTorn`; `torn_reader` is
  what happens without it.
- `QuorumsAreWitnesses`, which is `AnchorHolds`: the parties of `groupParties()`
  hold the keys of the entries seen so far, all keys of one owner in one party
  (`GroupInv`, followed to the least entry that would break it), so k parties that
  verify are k owners; and a line that verifies under a key nobody forges is a line
  its owner signed, over this tree and at this time (`AnchorInv`, which bounds what
  can be written). Assumes `Linked` of every list: an entry shows one witness's
  keys, and entries of one witness share one, so none bridges two parties. Nothing
  in `cosign.ts` ensures it; `MCTransparency` checks it of the lists it uses, and
  `SharedKey.cfg`, a configuration kept beside the runs, is what happens without it.
- `ProofsAlwaysProve`, which is `ProofsProve`, for trees of every size and every path
  a prover may send. Soundness: whatever the nodes are, if the hash after a
  step is the root of the range the counters stand for, the hash before it was the
  root of the range below (`ClimbBack`, hashing being injective); so the hash the
  climb began with is the leaf of that index (`InclusionSound`), or the last whole
  subtree of the older tree (`ConsistencySound`). What ties the
  loop's counters to ranges is `Track`: `fn` times a width is the first leaf of the
  range, `sn` times it that of the last range of that width, which may be cut short;
  a skipped level is one where there is no right half. Completeness
  is read upwards, by the least width of a range whose proof would not climb to its
  root (`AuditedRange`, `SubprovedRange`). Assumes `MaxLeaves < Pow2[53]`, since a size is
  a safe integer (`safeSize()`): only the limits on the length of a path, 64 and 130
  nodes, need it.

Only model-checked:

- liveness (`EveryCallLeaves`, `HydrateReturns`, `AppendReturns`,
  `DeadlineAnswers`), which is beyond the prover.

## 5. Plan

Done: every component of the inventory that keeps state is modelled and checked,
and every invariant that a run checks is proved for all values of the constants.
Left, in this order:

1. The torn row of the JSONL ledger file (`jsonl.ts:81`).
2. Two registries over one revocation store, with the Postgres transaction as
   the atomic step.

Not modelled, and why: cryptography (ideal signatures and digests throughout);
the compression and the bits of a status list (a list is the set of indexes it
marks); Stripe provisioning (one sequence of HTTP calls with no state of its
own); HTTP and SQL plumbing (the stores' atomic steps are modelled, not how a
transaction is opened or retried); the dashboard (reads only), the examples and
the release scripts (no part of the firewall).
