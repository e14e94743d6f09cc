----------------------------- MODULE FileMutex -----------------------------
(***************************************************************************)
(* The advisory lock of the file-backed stores (enforce/file-mutex.ts):    *)
(* exclusive create of a lockfile, a heartbeat that refreshes its mtime,   *)
(* and reclaim of a lock whose mtime is old and stood still for a          *)
(* confirmation window.                                                    *)
(*                                                                         *)
(* Time is discrete.  `boxClock` is the monotonic clock of the box, the    *)
(* wall clock runs ahead of it by `jumped`.  The timers of the code are    *)
(* deadlines that MutexTick respects: a process naps at most Nap, a holder *)
(* beats every Period, and a step between two awaits takes no time -       *)
(* unless the process is dead or suspended.                                *)
(***************************************************************************)
EXTENDS Integers, FiniteSets

CONSTANTS
  Contender,    \* instances of FileMutex on one lockfile
  Stale,        \* staleMs
  Period,       \* the heartbeat's period
  Confirm,      \* confirmWindowMs()
  Nap,          \* the longest backoff
  Budget,       \* budgetMs
  Jump,         \* how far the wall clock may jump forward
  StallLimit,   \* how long after its last beat a suspended process may sleep
  MutexMaxTime, MaxRuns, MaxCrashes, MaxStalls, MaxRefusals   \* bounds

VARIABLES
  lock,      \* the lockfile: the process whose token is in it, and its mtime
  stage,
  flagged,   \* the stale-looking mtime a contender saw, and when
  start,     \* when the contender's acquire() began
  beat,      \* when a holder last beat, and a contender last looked
  boxClock,
  jumped,
  suspended,
  runs,      \* how often each process called run()
  crashes,
  refusals,
  stalls

mutexVars == <<lock, stage, flagged, start, beat, boxClock, jumped, suspended, runs, crashes,
               refusals, stalls>>
bounds == <<runs, crashes, refusals, stalls>>

NoLock == [owner |-> "none", mtime |-> 0]
NoFlag == [mtime |-> 0, at |-> -1]

ASSUME MutexAssumption ==
  /\ "none" \notin Contender
  /\ Stale \in Nat /\ Confirm \in Nat /\ Budget \in Nat /\ Jump \in Nat /\ StallLimit \in Nat
  /\ Period \in Nat \ {0} /\ Nap \in Nat \ {0}
  /\ {MutexMaxTime, MaxRuns, MaxCrashes, MaxStalls, MaxRefusals} \subseteq Nat

(* The order of the times: a holder beats within any confirmation window   *)
(* (confirmWindowMs), a box stalls for less than staleMs and the window    *)
(* (the documented limit), and the default budget exceeds the horizon of a *)
(* reclaim whose removals are refused MaxRefusals times (budgetMs).        *)
ASSUME MutexDeadlines ==
  /\ Period < Confirm
  /\ StallLimit <= Stale + Confirm
  /\ Stale + Confirm + (MaxRefusals + 1) * Nap <= Budget

-----------------------------------------------------------------------------
Wall == boxClock + jumped

MutexInit ==
  /\ lock = NoLock
  /\ stage = [p \in Contender |-> "idle"]
  /\ flagged = [p \in Contender |-> NoFlag]
  /\ start = [p \in Contender |-> 0]
  /\ beat = [p \in Contender |-> 0]
  /\ boxClock = 0 /\ jumped = 0
  /\ suspended = {}
  /\ runs = [p \in Contender |-> 0]
  /\ crashes = 0 /\ refusals = 0 /\ stalls = 0

Stands(p, here) == stage[p] = here /\ p \notin suspended
Step(p, there) == stage' = [stage EXCEPT ![p] = there]

-----------------------------------------------------------------------------
(* acquire() *)

Run(p) ==
  /\ Stands(p, "idle") /\ runs[p] < MaxRuns
  /\ Step(p, "opening")
  /\ start' = [start EXCEPT ![p] = boxClock]
  /\ flagged' = [flagged EXCEPT ![p] = NoFlag]
  /\ runs' = [runs EXCEPT ![p] = @ + 1]
  /\ UNCHANGED <<lock, beat, boxClock, jumped, suspended, crashes, refusals, stalls>>

(* open(lockPath, "wx"), and the token *)
Open(p) ==
  /\ Stands(p, "opening")
  /\ IF lock = NoLock
       THEN /\ lock' = [owner |-> p, mtime |-> Wall]
            /\ beat' = [beat EXCEPT ![p] = boxClock]
            /\ Step(p, "section")
       ELSE Step(p, "looking") /\ UNCHANGED <<lock, beat>>
  /\ UNCHANGED <<flagged, start, boxClock, jumped, suspended, bounds>>

LooksStale == Wall - lock.mtime > Stale

ConfirmedOnSight(p) == TRUE   \* mutant

Confirmed(p) ==
  /\ flagged[p] # NoFlag /\ flagged[p].mtime = lock.mtime
  /\ boxClock - flagged[p].at >= Confirm

(* The nap, or the end of the budget *)
NapOrGiveUp(p) ==
  /\ Step(p, IF boxClock - start[p] >= Budget THEN "gaveUp" ELSE "napping")
  /\ beat' = [beat EXCEPT ![p] = boxClock]

(* stat(lockPath) *)
Look(p) ==
  /\ Stands(p, "looking")
  /\ IF lock # NoLock /\ LooksStale /\ Confirmed(p)
       THEN Step(p, "removing") /\ UNCHANGED <<flagged, beat>>
       ELSE /\ flagged' = [flagged EXCEPT ![p] =
                 IF lock = NoLock \/ ~LooksStale THEN NoFlag
                 ELSE IF @ # NoFlag /\ @.mtime = lock.mtime THEN @
                 ELSE [mtime |-> lock.mtime, at |-> boxClock]]
            /\ NapOrGiveUp(p)
  /\ UNCHANGED <<lock, start, boxClock, jumped, suspended, bounds>>

Wake(p) ==
  /\ Stands(p, "napping")
  /\ Step(p, "opening")
  /\ UNCHANGED <<lock, flagged, start, beat, boxClock, jumped, suspended, bounds>>

(* removeLockfileWithRetry(): whatever file is at the path *)
Remove(p) ==
  /\ Stands(p, "removing")
  /\ lock' = NoLock
  /\ flagged' = [flagged EXCEPT ![p] = NoFlag]
  /\ Step(p, "opening")
  /\ UNCHANGED <<start, beat, boxClock, jumped, suspended, bounds>>

RemoveRefused(p) ==
  /\ Stands(p, "removing") /\ refusals < MaxRefusals
  /\ refusals' = refusals + 1
  /\ NapOrGiveUp(p)
  /\ UNCHANGED <<lock, flagged, start, boxClock, jumped, suspended, runs, crashes, stalls>>

-----------------------------------------------------------------------------
(* The holder *)

(* The timer refreshes whatever file is at the path. *)
Beat(p) ==
  /\ Stands(p, "section") /\ beat[p] < boxClock
  /\ beat' = [beat EXCEPT ![p] = boxClock]
  /\ lock' = IF lock = NoLock THEN lock ELSE [lock EXCEPT !.mtime = Wall]
  /\ UNCHANGED <<stage, flagged, start, boxClock, jumped, suspended, bounds>>

EndSection(p) ==
  /\ Stands(p, "section")
  /\ Step(p, "releasing")
  /\ UNCHANGED <<lock, flagged, start, beat, boxClock, jumped, suspended, bounds>>

(* release(): the token is read, and then the file is removed. *)
ReadToken(p) ==
  /\ Stands(p, "releasing")
  /\ Step(p, IF lock.owner = p THEN "unlinking" ELSE "idle")
  /\ UNCHANGED <<lock, flagged, start, beat, boxClock, jumped, suspended, bounds>>

Unlink(p) ==
  /\ Stands(p, "unlinking")
  /\ lock' = NoLock
  /\ Step(p, "idle")
  /\ UNCHANGED <<flagged, start, beat, boxClock, jumped, suspended, bounds>>

(* The file is held open elsewhere for longer than the retries of release() *)
UnlinkRefused(p) ==
  /\ Stands(p, "unlinking") /\ refusals < MaxRefusals
  /\ refusals' = refusals + 1
  /\ Step(p, "idle")
  /\ UNCHANGED <<lock, flagged, start, beat, boxClock, jumped, suspended, runs, crashes, stalls>>

-----------------------------------------------------------------------------
(* The environment.  A box stalls or its wall clock jumps, not both: after *)
(* a jump the confirmation window alone protects a holder. *)

HolderDies(p) ==
  /\ stage[p] \in {"section", "releasing", "unlinking"} /\ crashes < MaxCrashes
  /\ crashes' = crashes + 1
  /\ Step(p, "dead")
  /\ suspended' = suspended \ {p}
  /\ UNCHANGED <<lock, flagged, start, beat, boxClock, jumped, runs, refusals, stalls>>

Suspend(p) ==
  /\ stage[p] \in {"section", "unlinking"} /\ p \notin suspended /\ stalls < MaxStalls
  /\ jumped = 0
  /\ stalls' = stalls + 1
  /\ suspended' = suspended \cup {p}
  /\ UNCHANGED <<lock, stage, flagged, start, beat, boxClock, jumped, runs, crashes, refusals>>

Resume(p) ==
  /\ p \in suspended
  /\ suspended' = suspended \ {p}
  /\ UNCHANGED <<lock, stage, flagged, start, beat, boxClock, jumped, bounds>>

JumpForward ==
  /\ jumped = 0 /\ Jump > 0 /\ stalls = 0
  /\ jumped' = Jump
  /\ UNCHANGED <<lock, stage, flagged, start, beat, boxClock, suspended, bounds>>

(* A process that runs is never late; one whose event loop is blocked is   *)
(* late by a bounded time. *)
OnTime(p) ==
  \/ p \in suspended /\ boxClock - beat[p] < StallLimit
  \/ stage[p] \in {"idle", "dead", "gaveUp"}
  \/ p \notin suspended /\ stage[p] = "section" /\ boxClock - beat[p] < Period
  \/ stage[p] = "napping" /\ boxClock - beat[p] < Nap

MutexTick ==
  /\ boxClock < MutexMaxTime
  /\ \A p \in Contender : OnTime(p)
  /\ boxClock' = boxClock + 1
  /\ UNCHANGED <<lock, stage, flagged, start, beat, jumped, suspended, bounds>>

MutexNext ==
  \/ MutexTick \/ JumpForward
  \/ \E p \in Contender :
       \/ Run(p) \/ Open(p) \/ Look(p) \/ Wake(p) \/ Remove(p) \/ RemoveRefused(p)
       \/ Beat(p) \/ EndSection(p) \/ ReadToken(p) \/ Unlink(p) \/ UnlinkRefused(p)
       \/ HolderDies(p) \/ Suspend(p) \/ Resume(p)

MutexSpec == MutexInit /\ [][MutexNext]_mutexVars

-----------------------------------------------------------------------------
(* Correctness *)

(* The type invariant. *)
MutexTypeOK ==
  /\ lock \in [owner : Contender \cup {"none"}, mtime : Nat]
  /\ stage \in [Contender -> {"idle", "opening", "looking", "napping", "removing", "section",
                              "releasing", "unlinking", "dead", "gaveUp"}]
  /\ flagged \in [Contender -> [mtime : Nat, at : Int]]
  /\ start \in [Contender -> 0..MutexMaxTime] /\ beat \in [Contender -> 0..MutexMaxTime]
  /\ boxClock \in 0..MutexMaxTime /\ jumped \in {0, Jump}
  /\ suspended \subseteq Contender
  /\ runs \in [Contender -> 0..MaxRuns]
  /\ crashes \in 0..MaxCrashes /\ refusals \in 0..MaxRefusals /\ stalls \in 0..MaxStalls

(* Two holders at once would fork the ledger or spend a budget twice.  A   *)
(* holder is not robbed, however long it holds the lock and wherever the   *)
(* wall clock jumps, nor one that stalls for less than staleMs and the     *)
(* confirmation window - as long as no two contenders remove one orphan:   *)
(* the second would remove the lock that the first has taken (its unlink   *)
(* is by path, file-mutex.ts:279-290). *)
MutualExclusion ==
  \A p, q \in Contender : stage[p] = "section" /\ stage[q] = "section" => p = q

(* At most one contender is removing a lock it confirmed as abandoned. *)
OneReclaims ==
  \A p, q \in Contender : stage[p] = "removing" /\ stage[q] = "removing" => p = q

(* A contender waits no longer than its budget. *)
BudgetKept ==
  \A p \in Contender : stage[p] \in {"looking", "napping", "removing"} =>
    boxClock - start[p] <= Budget + Nap

(* "a process can never unlock a lock that another process already         *)
(* reclaimed after treating us as stale": what release() is about to       *)
(* remove is its own lock or nothing. *)
ReleaseOnlyOwn ==
  \A p \in Contender : stage[p] = "unlinking" => lock.owner \in {p, "none"}

(* "the default acquisition budget exceeds the full orphan-reclaim         *)
(* horizon": whoever runs out of budget has waited for a lock that was     *)
(* taken or refreshed while it waited, never for an orphan alone. *)
OrphanOutwaited ==
  \A p \in Contender : stage[p] = "gaveUp" => lock = NoLock \/ lock.mtime >= start[p]

(* What the stores may rely on when a holder dies, stalls, or the clock of *)
(* the box jumps while others wait for the lock. *)
LockHolds == MutexTypeOK /\ MutualExclusion /\ BudgetKept /\ ReleaseOnlyOwn /\ OrphanOutwaited
=============================================================================
