--------------------------- MODULE ApprovalQueue ---------------------------
(***************************************************************************)
(* The queued approval handler of guard/src/approval and its two stores.   *)
(* A handler call (a waiter) enqueues the payment it waits for, polls for  *)
(* a decision and gives up at its deadline; a human looks at the pending   *)
(* items and decides by intent id.  The memory store answers at once, the  *)
(* file store works under its mutex, so both are one atomic step a call.   *)
(* A payment stands for its fingerprint, which is injective.               *)
(***************************************************************************)
EXTENDS FiniteSets

CONSTANTS Waiter, Intent, Payment

VARIABLES
  pending,    \* what waits for a human: at most one payment an intent id
  decisions,  \* the decision of an intent id: at most one
  waiter,     \* the handler calls
  screen,     \* what listPending() last showed the human
  yes         \* history: the payments the human's approvals were bound to

approvalVars == <<pending, decisions, waiter, screen, yes>>

Answers == {"none", "approved", "denied", "mismatch", "timedOut", "threw"}

ApprovalInit ==
  /\ pending = [i \in Intent |-> {}]
  /\ decisions = [i \in Intent |-> {}]
  /\ waiter \in [Waiter -> {[pc |-> "idle", intent |-> i, payment |-> p,
                             answer |-> "none"] : i \in Intent, p \in Payment}]
  /\ screen = [i \in Intent |-> {}]
  /\ yes = {}

(* enqueue(): a second request of an undecided id replaces the first. *)
Enqueued(i, p) ==
  pending' = [pending EXCEPT ![i] = IF decisions[i] = {} THEN {p} ELSE @]

(* resolve(): decides only what is pending, and the first decision stands. *)
Resolved(i, approved) ==
  LET open == decisions[i] = {} IN
  /\ decisions' = [decisions EXCEPT ![i] =
       IF open THEN {[payment |-> p, approved |-> approved] : p \in pending[i]} ELSE @]
  /\ pending' = [pending EXCEPT ![i] = IF open THEN {} ELSE @]

Goes(w, pc, answer) ==
  waiter' = [waiter EXCEPT ![w].pc = pc, ![w].answer = answer]

Ask(w) ==
  /\ waiter[w].pc = "idle"
  /\ Enqueued(waiter[w].intent, waiter[w].payment)
  /\ Goes(w, "polling", "none")
  /\ UNCHANGED <<decisions, screen, yes>>

(* A store that throws ends the handler, and the guard denies; whether the *)
(* item was stored is open.                                                *)
AskThrows(w) ==
  /\ waiter[w].pc = "idle"
  /\ \/ UNCHANGED pending
     \/ Enqueued(waiter[w].intent, waiter[w].payment)
  /\ Goes(w, "done", "threw")
  /\ UNCHANGED <<decisions, screen, yes>>

(* What the handler makes of the decision on file for its payment. *)
Verdict(d, p) ==
  IF d.payment # p THEN "mismatch" ELSE IF d.approved THEN "approved" ELSE "denied"

Poll(w) ==
  LET i == waiter[w].intent IN
  /\ waiter[w].pc = "polling"
  /\ IF decisions[i] = {}
     THEN Goes(w, "undecided", "none")
     ELSE \E d \in decisions[i] : Goes(w, "done", Verdict(d, waiter[w].payment))
  /\ UNCHANGED <<pending, decisions, screen, yes>>

Sleep(w) ==
  /\ waiter[w].pc = "undecided"
  /\ Goes(w, "polling", "none")
  /\ UNCHANGED <<pending, decisions, screen, yes>>

TimesOutSilently(w) ==
  /\ UNCHANGED <<pending, decisions>>
  /\ Goes(w, "done", "timedOut")

(* A human may have decided since the poll: the store keeps that decision, *)
(* and this caller is told "timed out" all the same.                       *)
TimesOut(w) ==
  /\ Resolved(waiter[w].intent, FALSE)
  /\ Goes(w, "done", "timedOut")

Deadline(w) ==
  /\ waiter[w].pc = "undecided"
  /\ \/ TimesOut(w)
     \/ Goes(w, "done", "threw") /\ UNCHANGED <<pending, decisions>>
  /\ UNCHANGED <<screen, yes>>

(* The human's side: listPending(), and resolve() of what it showed. *)
Look ==
  /\ screen' = pending
  /\ UNCHANGED <<pending, decisions, waiter, yes>>

Decide(i, approved) ==
  /\ screen[i] # {}
  /\ Resolved(i, approved)
  /\ yes' = yes \cup {<<i, d.payment>> : d \in {e \in decisions'[i] \ decisions[i] : e.approved}}
  /\ UNCHANGED <<waiter, screen>>

ApprovalNext ==
  \/ \E w \in Waiter : Ask(w) \/ AskThrows(w) \/ Poll(w) \/ Sleep(w) \/ Deadline(w)
  \/ Look
  \/ \E i \in Intent, approved \in BOOLEAN : Decide(i, approved)

ApprovalSpec == ApprovalInit /\ [][ApprovalNext]_approvalVars
-----------------------------------------------------------------------------
AskedFor(w) == <<waiter[w].intent, waiter[w].payment>>

(* No call is approved unless a human said yes while exactly this payment  *)
(* was the pending one of the id, whatever other calls of the id asked for *)
(* or timed out in between (approvalFingerprint and its comparison).       *)
HumanApprovedIt ==
  \A w \in Waiter : waiter[w].answer = "approved" => AskedFor(w) \in yes

(* After one caller has been told "timed out" the id is closed: no human   *)
(* who answers late turns it into an approval for a retry.                 *)
TimedOutStaysClosed ==
  [][\A w \in Waiter : waiter[w].answer = "timedOut" =>
       decisions'[waiter[w].intent] = decisions[waiter[w].intent]]_approvalVars

(* A yes is a human's for this payment, and a no by the clock is final.    *)
ApprovalsHold == []HumanApprovedIt /\ TimedOutStaysClosed
=============================================================================
