----------------------------- MODULE Settlement -----------------------------
(***************************************************************************)
(* Two-phase payments of guard.ts: authorize() and settle() of one intent  *)
(* id, the rows they leave in the ledger, and the spend a restart restores *)
(* from those rows.  A failed payment may be released with proof and the   *)
(* same id authorized again; settle() calls may be retried, late, and in   *)
(* parallel.  One process: runExclusive() orders its settlements.          *)
(***************************************************************************)
EXTENDS Naturals, FiniteSets, Sequences

CONSTANTS
  Settler,            \* calls of settle()
  MaxAuthorizations,  \* bound: authorizations of the id
  MaxFailures         \* bound: failed trail reads and lost rows

VARIABLES
  held,      \* the limiter's reservation: "free", "reserved", "committed"
  moved,     \* environment: whether the rail moved the money
  trail,     \* trailFor(intentId)
  settler,   \* the settle() calls
  critical,  \* who is inside runExclusive(): at most one
  unread,    \* how many trail reads failed
  lost,      \* how many result rows were lost
  reported   \* history: the authorizations some finished settle() called executed

settleVars == <<held, moved, trail, settler, critical, unread, lost, reported>>

Started == [type |-> "execution_started", success |-> FALSE, amount |-> TRUE]
Result(success, amount) ==
  [type |-> "execution_result", success |-> success, amount |-> amount]

Authorizations == {i \in DOMAIN trail : trail[i].type = "execution_started"}
Current == Cardinality(Authorizations)

SettlementInit ==
  /\ held = "free" /\ moved = FALSE /\ trail = <<>>
  /\ settler = [s \in Settler |-> [pc |-> "idle", success |-> FALSE, of |-> 0, read |-> {}]]
  /\ critical = {} /\ unread = 0 /\ lost = 0 /\ reported = {}

(* authorize() reserves the id once and writes the economic snapshot, in   *)
(* the critical section.                                                   *)
AuthorizeTwoPhase ==
  /\ held = "free" /\ Current < MaxAuthorizations /\ critical = {}
  /\ held' = "reserved" /\ moved' = FALSE
  /\ trail' = Append(trail, Started)
  /\ UNCHANGED <<settler, critical, unread, lost, reported>>

RailMoves ==
  /\ held = "reserved" /\ ~moved
  /\ moved' = TRUE
  /\ UNCHANGED <<held, trail, settler, critical, unread, lost, reported>>

(* releaseSpend(): only with proof that the rail did not move money, and   *)
(* never committed money.                                                  *)
ReleaseSpend ==
  /\ held = "reserved" /\ ~moved
  /\ held' = "free"
  /\ UNCHANGED <<moved, trail, settler, critical, unread, lost, reported>>

(* settle(): "executed" is the truth, "failed" may be a guess; a retry of  *)
(* a failed outcome may come after the id has been authorized again.       *)
CallSettle(s, success) ==
  /\ settler[s].pc = "idle" /\ Current > 0
  /\ success => moved
  /\ settler' = [settler EXCEPT ![s] =
       [pc |-> IF success THEN "commit" ELSE "queued", success |-> success,
        of |-> Current, read |-> {}]]
  /\ UNCHANGED <<held, moved, trail, critical, unread, lost, reported>>

CommitSettled(s) ==
  /\ settler[s].pc = "commit"
  /\ settler' = [settler EXCEPT ![s].pc = "queued"]
  /\ held' = IF held = "reserved" THEN "committed" ELSE held
  /\ UNCHANGED <<moved, trail, critical, unread, lost, reported>>

(* recordSettlement(): inside the critical section, read the trail. *)
EnterCritical(s) ==
  /\ critical = {}
  /\ critical' = {s}

ReadTrail(s) ==
  /\ settler[s].pc = "queued"
  /\ EnterCritical(s)
  /\ \/ /\ settler' = [settler EXCEPT ![s].pc = "record", ![s].read = {trail}]
        /\ UNCHANGED unread
     \/ /\ unread + lost < MaxFailures
        /\ settler' = [settler EXCEPT ![s].pc = "record"]
        /\ unread' = unread + 1
  /\ UNCHANGED <<held, moved, trail, lost, reported>>

(* The result rows after the current authorization snapshot. *)
ResultsSince(t) ==
  {i \in DOMAIN t : t[i].type = "execution_result"
                     /\ \A j \in i..Len(t) : t[j].type # "execution_started"}

PositionalDuplicate(t, success) == ResultsSince(t) # {}

(* Deduped by outcome: "executed" only by a success row, "failed" by any.  *)
Duplicate(t, success) == \E i \in ResultsSince(t) : ~success \/ t[i].success

(* A trail that was not read yields no duplicate and no amount. *)
Row(s) == Result(settler[s].success, settler[s].read # {})

RecordSettlement(s) ==
  LET recorded == \E t \in settler[s].read : Duplicate(t, settler[s].success) IN
  /\ settler[s].pc = "record"
  /\ \/ trail' = (IF recorded THEN trail ELSE Append(trail, Row(s))) /\ UNCHANGED lost
     \/ ~recorded /\ unread + lost < MaxFailures /\ lost' = lost + 1 /\ UNCHANGED trail
  /\ settler' = [settler EXCEPT ![s].pc = "done"]
  /\ critical' = critical \ {s}
  /\ reported' = IF settler[s].success THEN reported \cup {settler[s].of} ELSE reported
  /\ UNCHANGED <<held, moved, unread>>

SettlementNext ==
  \/ AuthorizeTwoPhase \/ RailMoves \/ ReleaseSpend
  \/ \E s \in Settler : \/ \E success \in BOOLEAN : CallSettle(s, success)
                        \/ CommitSettled(s) \/ ReadTrail(s) \/ RecordSettlement(s)

SettlementSpec == SettlementInit /\ [][SettlementNext]_settleVars

(* hydrateFromLedger(): a restart counts the success rows with an amount   *)
(* and reports the ones without.                                           *)
RestoredRows(t) == {i \in DOMAIN t : t[i].success /\ t[i].amount}
SkippedRows(t) == {i \in DOMAIN t : t[i].success /\ ~t[i].amount}
-----------------------------------------------------------------------------
(* A restart restores every settled payment exactly once, whatever retries *)
(* and late failure reports surround it: never more rows than payments     *)
(* that happened, and unless a row was lost, for each reported payment a   *)
(* counted row or, if its trail could not be read, one the report names.   *)
RestartRestoresSettled ==
  LET happened == {settler[s].of : s \in {u \in Settler : settler[u].success}}
      restored == Cardinality(RestoredRows(trail))
      skipped  == Cardinality(SkippedRows(trail)) IN
  /\ restored <= Cardinality(happened)
  /\ lost = 0 => restored + skipped >= Cardinality(reported)
  /\ skipped > 0 => unread > 0
=============================================================================
