--------------------------- MODULE StripeHandler ---------------------------
(***************************************************************************)
(* The real-time authorization webhook of stripe/src/handler.ts and its    *)
(* decision store, over the guard as it looks from here.  A delivery reads *)
(* the store, joins the delivery of its authorization that is in flight or *)
(* lets the guard decide, writes the answer and answers; one timer, armed  *)
(* at the start, bounds all of it.  The store and the guard may be slow,   *)
(* hang, or fail; what they still do after the timer goes on behind it.    *)
(***************************************************************************)
EXTENDS FiniteSets

CONSTANTS Delivery, Auth

VARIABLES
  authOf,    \* the authorization id each delivery is about
  at,        \* where handle() is
  expired,   \* deadline.expired
  cached,    \* the race of store.get() against the timer
  verdict,   \* the race of guard.execute() against the timer
  reply,     \* the response of the delivery
  joined,    \* whose promise a delivery returns: at most one
  inflight,  \* the deliveries deciding, by authorization: at most one
  saved,     \* the decision store: at most one response an authorization
  writing,   \* store.set() of a delivery: none, issued or over
  run        \* guard.execute() of a delivery

stripeVars == <<authOf, at, expired, cached, verdict, reply, joined, inflight,
                saved, writing, run>>

StripeInit ==
  /\ authOf \in [Delivery -> Auth]
  /\ at = [d \in Delivery |-> "new"]
  /\ expired = [d \in Delivery |-> FALSE]
  /\ cached = [d \in Delivery |-> "open"]
  /\ verdict = [d \in Delivery |-> "open"]
  /\ reply = [d \in Delivery |-> "none"]
  /\ joined = [d \in Delivery |-> {}]
  /\ inflight = [a \in Auth |-> {}]
  /\ saved = [a \in Auth |-> {}]
  /\ writing = [d \in Delivery |-> "no"]
  /\ run = [d \in Delivery |-> "idle"]

(* A bad signature is answered 400 before the timer exists; events that    *)
(* are no authorization request are acknowledged and decide nothing.       *)
Receive(d) ==
  /\ at[d] = "new"
  /\ \/ at' = [at EXCEPT ![d] = "reading"] /\ UNCHANGED reply
     \/ at' = [at EXCEPT ![d] = "answered"] /\ reply' = [reply EXCEPT ![d] = "refused"]
  /\ UNCHANGED <<authOf, expired, cached, verdict, joined, inflight, saved, writing, run>>

(* The timer settles whatever race is still open. *)
TimerFires(d) ==
  /\ at[d] \in {"reading", "deciding", "recording"} /\ ~expired[d]
  /\ expired' = [expired EXCEPT ![d] = TRUE]
  /\ cached' = [cached EXCEPT ![d] = IF at[d] = "reading" /\ @ = "open" THEN "miss" ELSE @]
  /\ verdict' = [verdict EXCEPT ![d] = IF at[d] = "deciding" /\ @ = "open" THEN "timedOut" ELSE @]
  /\ UNCHANGED <<authOf, at, reply, joined, inflight, saved, writing, run>>

(* get() answers with what it finds; an error is a miss. *)
ReadLands(d) ==
  /\ at[d] = "reading" /\ cached[d] = "open"
  /\ \E r \in saved[authOf[d]] \cup {"miss"} : cached' = [cached EXCEPT ![d] = r]
  /\ UNCHANGED <<authOf, at, expired, verdict, reply, joined, inflight, saved, writing, run>>

AnswerCached(d) ==
  /\ at[d] = "reading" /\ cached[d] \notin {"open", "miss"}
  /\ at' = [at EXCEPT ![d] = "answered"]
  /\ reply' = [reply EXCEPT ![d] = cached[d]]
  /\ UNCHANGED <<authOf, expired, cached, verdict, joined, inflight, saved, writing, run>>

(* Single flight: the joining delivery's own timer is cleared. *)
Join(d) ==
  /\ at[d] = "reading" /\ cached[d] = "miss"
  /\ inflight[authOf[d]] # {}
  /\ at' = [at EXCEPT ![d] = "joined"]
  /\ joined' = [joined EXCEPT ![d] = inflight[authOf[d]]]
  /\ UNCHANGED <<authOf, expired, cached, verdict, reply, inflight, saved, writing, run>>

Lead(d) ==
  /\ at[d] = "reading" /\ cached[d] = "miss"
  /\ inflight[authOf[d]] = {}
  /\ at' = [at EXCEPT ![d] = "deciding"]
  /\ inflight' = [inflight EXCEPT ![authOf[d]] = {d}]
  /\ run' = [run EXCEPT ![d] = "admission"]
  /\ verdict' = [verdict EXCEPT ![d] = IF expired[d] THEN "timedOut" ELSE @]
  /\ UNCHANGED <<authOf, expired, cached, reply, joined, saved, writing>>

(* guard.execute(): an authorization id reserves once, so a second run is  *)
(* replayed; the executor refuses to approve once the timer has fired, and *)
(* the ledger rows after it may take any time or fail.                     *)
Outstanding(a) ==
  \E e \in Delivery : authOf[e] = a /\ run[e] \in {"executor", "counted", "failed"}

GuardStep(d) ==
  \/ run[d] = "admission" /\ ~Outstanding(authOf[d]) /\ run' = [run EXCEPT ![d] = "executor"]
  \/ run[d] = "executor" /\ run' = [run EXCEPT ![d] = IF expired[d] THEN "failed" ELSE "counted"]

GuardRuns(d) ==
  /\ GuardStep(d)
  /\ UNCHANGED <<authOf, at, expired, cached, verdict, reply, joined, inflight, saved, writing>>

(* GuardResult.status; a guard that throws is a lost race. *)
Outcome(d) ==
  CASE run[d] = "admission" -> {"denied", "timedOut"}
                                  \cup IF Outstanding(authOf[d]) THEN {"replayed"} ELSE {}
    [] run[d] = "counted"   -> {"executed"}
    [] run[d] = "failed"    -> {"failed"}
    [] OTHER                -> {}

GuardAnswers(d) ==
  /\ at[d] = "deciding" /\ verdict[d] = "open"
  /\ \E v \in Outcome(d) :
       /\ verdict' = [verdict EXCEPT ![d] = v]
       /\ run' = [run EXCEPT ![d] = IF v = "replayed" \/ run[d] = "admission" THEN "idle" ELSE @]
  /\ UNCHANGED <<authOf, at, expired, cached, reply, joined, inflight, saved, writing>>

ReplayApproves(v) == v \in {"executed", "replayed"}
Approves(v) == v = "executed"

Respond(d) ==
  /\ at[d] = "deciding" /\ verdict[d] # "open"
  /\ at' = [at EXCEPT ![d] = "recording"]
  /\ reply' = [reply EXCEPT ![d] = IF Approves(verdict[d]) THEN "approve" ELSE "decline"]
  /\ writing' = [writing EXCEPT ![d] = "issued"]
  /\ UNCHANGED <<authOf, expired, cached, verdict, joined, inflight, saved, run>>

(* A write lands or fails, at its own time. *)
WriteLands(d) ==
  /\ writing[d] = "issued"
  /\ writing' = [writing EXCEPT ![d] = "over"]
  /\ \/ saved' = [saved EXCEPT ![authOf[d]] = {reply[d]}]
     \/ UNCHANGED saved
  /\ UNCHANGED <<authOf, at, expired, cached, verdict, reply, joined, inflight, run>>

WriteAwaited(d) == writing[d] = "over"
RecordedInTime(d) == writing[d] = "over" \/ expired[d]

Answer(d) ==
  /\ at[d] = "recording" /\ RecordedInTime(d)
  /\ at' = [at EXCEPT ![d] = "answered"]
  /\ inflight' = [inflight EXCEPT ![authOf[d]] = {}]
  /\ UNCHANGED <<authOf, expired, cached, verdict, reply, joined, saved, writing, run>>

AnswerJoined(d) ==
  /\ at[d] = "joined"
  /\ \E e \in joined[d] :
       /\ at[e] = "answered"
       /\ at' = [at EXCEPT ![d] = "answered"]
       /\ reply' = [reply EXCEPT ![d] = reply[e]]
  /\ UNCHANGED <<authOf, expired, cached, verdict, joined, inflight, saved, writing, run>>

(* MemoryDecisionStore: the time to live and the size cap. *)
Forget(a) ==
  /\ saved[a] # {}
  /\ saved' = [saved EXCEPT ![a] = {}]
  /\ UNCHANGED <<authOf, at, expired, cached, verdict, reply, joined, inflight, writing, run>>

HandlerStep(d) ==
  AnswerCached(d) \/ Join(d) \/ Lead(d) \/ Respond(d) \/ Answer(d) \/ AnswerJoined(d)

StripeNext ==
  \/ \E d \in Delivery : \/ Receive(d) \/ TimerFires(d) \/ HandlerStep(d)
                         \/ ReadLands(d) \/ GuardRuns(d) \/ GuardAnswers(d) \/ WriteLands(d)
  \/ \E a \in Auth : Forget(a)

(* The event loop and the timers run; the store and the guard owe nothing. *)
StripeFairness ==
  \A d \in Delivery : WF_stripeVars(TimerFires(d)) /\ WF_stripeVars(HandlerStep(d))

StripeSpec == StripeInit /\ [][StripeNext]_stripeVars /\ StripeFairness
-----------------------------------------------------------------------------
(* The network is told to pay only what the guard has counted, also when   *)
(* the answer comes from the store, from another delivery, after a failed  *)
(* first attempt or around the deadline ("an approval computed after       *)
(* expiry is never honoured").                                             *)
ApprovedIsCounted ==
  \A d \in Delivery : reply[d] = "approve" =>
    \E e \in Delivery : authOf[e] = authOf[d] /\ run[e] = "counted"

(* The request path never blocks past the deadline: the deliveries that    *)
(* were received are all answered, again and again, even when the store    *)
(* and the guard hang.                                                     *)
DeadlineAnswers == []<>(\A d \in Delivery : at[d] \in {"new", "answered"})
=============================================================================
