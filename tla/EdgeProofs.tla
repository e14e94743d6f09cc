----------------------------- MODULE EdgeProofs -----------------------------
(***************************************************************************)
(* What stands between the guard and the world outside it: that a human's  *)
(* yes, the card network's approval, an agent host's report and a settled  *)
(* payment mean what they say, for any number of calls, ids and retries,   *)
(* that what a remote signer is sent is what it judges, that a signed note *)
(* reads back as what was signed, that the bytes of a typed message are    *)
(* good for the payment that was judged alone, and that an intent of any   *)
(* shape leaves one bounded row of evidence, whose bytes are its own.      *)
(* One part a component: its inductive invariant, one lemma an action that *)
(* is not immediate, and the theorem.                                      *)
(***************************************************************************)
EXTENDS ApprovalQueue, StripeHandler, AgentHooks, Settlement, SignerWire, CheckpointNote,
        TypedDataTypes, IntentShape,
        FiniteSetTheorems, SequenceTheorems, WellFoundedInduction, TLAPS

-----------------------------------------------------------------------------
(* The approval queue.  The approvals on file are the human's, and what a  *)
(* caller waits for is still pending or has been decided: that is why a    *)
(* timeout always leaves a decision behind it.                             *)

Decision == [payment : Payment, approved : BOOLEAN]

ApprovalTypeOK ==
  /\ pending \in [Intent -> SUBSET Payment]
  /\ decisions \in [Intent -> SUBSET Decision]
  /\ waiter \in [Waiter -> [pc : {"idle", "polling", "undecided", "done"}, intent : Intent,
                            payment : Payment, answer : Answers]]

ApprovalsAreTheHumans ==
  \A i \in Intent : \A d \in decisions[i] : d.approved => <<i, d.payment>> \in yes

Asked(w) == pending[waiter[w].intent] # {} \/ decisions[waiter[w].intent] # {}

WaitersAreQueued ==
  \A w \in Waiter :
    /\ waiter[w].pc \in {"polling", "undecided"} => Asked(w)
    /\ waiter[w].answer = "timedOut" => decisions[waiter[w].intent] # {}

ApprovalIInv ==
  /\ ApprovalTypeOK
  /\ ApprovalsAreTheHumans
  /\ WaitersAreQueued
  /\ HumanApprovedIt

(* Whoever decides, a decided id keeps its decision, an undecided one gets *)
(* the decision of what was pending, and only then is the pending item     *)
(* dropped (resolve() of both stores).                                     *)
LEMMA ResolvedDecides ==
  ASSUME ApprovalTypeOK, NEW i \in Intent, NEW approved \in BOOLEAN, Resolved(i, approved)
  PROVE  /\ pending' \in [Intent -> SUBSET Payment]
         /\ decisions' \in [Intent -> SUBSET Decision]
         /\ \A j \in Intent : j # i => decisions'[j] = decisions[j] /\ pending'[j] = pending[j]
         /\ decisions[i] # {} => decisions'[i] = decisions[i]
         /\ decisions[i] = {} => \A d \in decisions'[i] : d.approved = approved
         /\ decisions[i] # {} \/ pending[i] # {} => decisions'[i] # {}
         /\ decisions[i] = {} /\ pending[i] = {} => decisions'[i] = {}
<1> DEFINE D == {[payment |-> p, approved |-> approved] : p \in pending[i]}
<1>1. D \in SUBSET Decision /\ (\A d \in D : d.approved = approved) /\ (D = {} <=> pending[i] = {})
  <2>1. pending[i] \in SUBSET Payment
    BY DEF ApprovalTypeOK
  <2>2. D \in SUBSET Decision
    BY <2>1 DEF Decision
  <2>3. \A d \in D : d.approved = approved
    OBVIOUS
  <2>4. \A p \in pending[i] : [payment |-> p, approved |-> approved] \in D
    OBVIOUS
  <2>5. \A d \in D : \E p \in pending[i] : d = [payment |-> p, approved |-> approved]
    OBVIOUS
  <2> HIDE DEF D
  <2> QED
    BY <2>2, <2>3, <2>4, <2>5
<1>2. /\ pending' = [pending EXCEPT ![i] = IF decisions[i] = {} THEN {} ELSE @]
      /\ decisions' = [decisions EXCEPT ![i] = IF decisions[i] = {} THEN D ELSE @]
  BY DEF Resolved
<1> HIDE DEF D
<1>3. /\ pending' \in [Intent -> SUBSET Payment]
      /\ decisions' \in [Intent -> SUBSET Decision]
      /\ \A j \in Intent : j # i => decisions'[j] = decisions[j] /\ pending'[j] = pending[j]
      /\ decisions'[i] = IF decisions[i] = {} THEN D ELSE decisions[i]
  BY <1>1, <1>2 DEF ApprovalTypeOK
<1> QED
  BY <1>1, <1>3

LEMMA ApprovalInitiallyHolds == ApprovalInit => ApprovalIInv
<1> SUFFICES ASSUME ApprovalInit PROVE ApprovalIInv
  OBVIOUS
<1> QED
  BY DEF ApprovalInit, ApprovalIInv, ApprovalTypeOK, ApprovalsAreTheHumans, WaitersAreQueued,
         HumanApprovedIt, Answers

(* What changes when one handler call moves on and nobody decides.         *)
LEMMA WaiterMoves ==
  ASSUME ApprovalIInv, NEW w \in Waiter, NEW pc, NEW told, Goes(w, pc, told),
         pc \in {"polling", "undecided", "done"}, told \in Answers,
         pending' \in [Intent -> SUBSET Payment], UNCHANGED <<decisions, yes>>,
         \A i \in Intent : pending[i] # {} => pending'[i] # {},
         pc # "done" => Asked(w)', told # "timedOut",
         told = "approved" => AskedFor(w) \in yes
  PROVE  ApprovalIInv'
<1>1. /\ waiter' = [waiter EXCEPT ![w] = [waiter[w] EXCEPT !.pc = pc, !.answer = told]]
      /\ ApprovalTypeOK'
  BY DEF Goes, ApprovalIInv, ApprovalTypeOK, Decision
<1>2. \A u \in Waiter : waiter'[u].intent = waiter[u].intent
                        /\ waiter'[u].payment = waiter[u].payment
  BY <1>1 DEF ApprovalIInv, ApprovalTypeOK
<1>3. \A u \in Waiter : u # w => waiter'[u] = waiter[u]
  BY <1>1 DEF ApprovalIInv, ApprovalTypeOK
<1>4. waiter'[w].pc = pc /\ waiter'[w].answer = told
  BY <1>1 DEF ApprovalIInv, ApprovalTypeOK
<1>5. ApprovalsAreTheHumans'
  BY DEF ApprovalIInv, ApprovalsAreTheHumans
<1>6. WaitersAreQueued'
  BY <1>1, <1>2, <1>3, <1>4 DEF ApprovalIInv, ApprovalTypeOK, WaitersAreQueued, Asked
<1>7. HumanApprovedIt'
  BY <1>2, <1>3, <1>4 DEF ApprovalIInv, HumanApprovedIt, AskedFor
<1> QED
  BY <1>1, <1>5, <1>6, <1>7 DEF ApprovalIInv

LEMMA EnqueuedWaits ==
  ASSUME ApprovalTypeOK, NEW i \in Intent, NEW p \in Payment, Enqueued(i, p)
  PROVE  /\ pending' \in [Intent -> SUBSET Payment]
         /\ \A j \in Intent : pending[j] # {} => pending'[j] # {}
         /\ pending'[i] # {} \/ decisions[i] # {}
BY DEF ApprovalTypeOK, Enqueued

LEMMA ApprovalStep ==
  ASSUME ApprovalIInv, [ApprovalNext]_approvalVars
  PROVE  ApprovalIInv'
<1> USE DEF ApprovalIInv
<1>1. ASSUME NEW w \in Waiter, Ask(w) PROVE ApprovalIInv'
  <2>1. waiter[w].intent \in Intent /\ waiter[w].payment \in Payment
    BY DEF ApprovalTypeOK
  <2>2. Asked(w)'
    BY <1>1, <2>1, EnqueuedWaits DEF Ask, Asked, Goes, ApprovalTypeOK
  <2> QED
    BY <1>1, <2>1, <2>2, EnqueuedWaits, WaiterMoves DEF Ask, Answers
<1>2. ASSUME NEW w \in Waiter, AskThrows(w) PROVE ApprovalIInv'
  <2>1. waiter[w].intent \in Intent /\ waiter[w].payment \in Payment
    BY DEF ApprovalTypeOK
  <2>2. pending' \in [Intent -> SUBSET Payment] /\ \A i \in Intent : pending[i] # {} => pending'[i] # {}
    BY <1>2, <2>1, EnqueuedWaits DEF AskThrows, ApprovalTypeOK
  <2> QED
    BY <1>2, <2>2, WaiterMoves DEF AskThrows, Answers
<1>3. ASSUME NEW w \in Waiter, Poll(w) PROVE ApprovalIInv'
  <2> DEFINE i == waiter[w].intent
  <2>1. i \in Intent /\ pending \in [Intent -> SUBSET Payment] /\ Asked(w)
    BY <1>3 DEF ApprovalTypeOK, Poll, WaitersAreQueued
  <2>2. UNCHANGED <<pending, decisions, yes>> /\ Asked(w)'
    BY <1>3, <2>1 DEF Poll, Asked, Goes, ApprovalTypeOK
  <2>3. CASE decisions[i] = {}
    <3>1. Goes(w, "undecided", "none")
      BY <1>3, <2>3 DEF Poll
    <3> QED
      BY <2>1, <2>2, <3>1, WaiterMoves DEF Answers
  <2>4. CASE decisions[i] # {}
    <3>1. PICK d \in decisions[i] : Goes(w, "done", Verdict(d, waiter[w].payment))
      BY <1>3, <2>4 DEF Poll
    <3>2. Verdict(d, waiter[w].payment) \in {"mismatch", "approved", "denied"}
      BY DEF Verdict
    <3>3. Verdict(d, waiter[w].payment) = "approved" => AskedFor(w) \in yes
      BY <2>1 DEF Verdict, ApprovalsAreTheHumans, AskedFor
    <3> QED
      BY <2>1, <2>2, <3>1, <3>2, <3>3, WaiterMoves DEF Answers
  <2> QED
    BY <2>3, <2>4
<1>4. ASSUME NEW w \in Waiter, Sleep(w) PROVE ApprovalIInv'
  <2>1. Asked(w)' /\ pending' \in [Intent -> SUBSET Payment]
    BY <1>4 DEF Sleep, Asked, Goes, WaitersAreQueued, ApprovalTypeOK
  <2> QED
    BY <1>4, <2>1, WaiterMoves DEF Sleep, Answers
<1>5. ASSUME NEW w \in Waiter, Deadline(w) PROVE ApprovalIInv'
  <2> DEFINE i == waiter[w].intent
  <2>1. i \in Intent /\ Asked(w) /\ pending \in [Intent -> SUBSET Payment]
    BY <1>5 DEF ApprovalTypeOK, Deadline, WaitersAreQueued
  <2>2. CASE Goes(w, "done", "threw") /\ UNCHANGED <<pending, decisions>>
    BY <1>5, <2>1, <2>2, WaiterMoves DEF Deadline, Answers
  <2>3. CASE TimesOut(w)
    <3>1. Resolved(i, FALSE) /\ Goes(w, "done", "timedOut") /\ yes' = yes
      BY <1>5, <2>3 DEF TimesOut, Deadline
    <3>2. /\ pending' \in [Intent -> SUBSET Payment]
          /\ decisions' \in [Intent -> SUBSET Decision]
          /\ \A j \in Intent : j # i => decisions'[j] = decisions[j] /\ pending'[j] = pending[j]
          /\ decisions[i] # {} => decisions'[i] = decisions[i]
          /\ decisions[i] = {} => \A d \in decisions'[i] : d.approved = FALSE
          /\ decisions'[i] # {}
      BY <2>1, <3>1, ResolvedDecides DEF Asked
    <3>3. waiter' = [waiter EXCEPT ![w] = [waiter[w] EXCEPT !.pc = "done", !.answer = "timedOut"]]
      BY <3>1 DEF Goes, ApprovalTypeOK
    <3>4. ApprovalTypeOK'
      BY ZenonT(40), <3>2, <3>3 DEF ApprovalTypeOK, Answers
    <3>5. ApprovalsAreTheHumans'
      BY <3>1, <3>2 DEF ApprovalsAreTheHumans
    <3>6. \A u \in Waiter : /\ waiter'[u].intent = waiter[u].intent
                            /\ waiter'[u].payment = waiter[u].payment
                            /\ u # w => waiter'[u] = waiter[u]
      BY <3>3 DEF ApprovalTypeOK
    <3>7. waiter'[w].pc = "done" /\ waiter'[w].answer = "timedOut"
      BY <3>3 DEF ApprovalTypeOK
    <3>8. WaitersAreQueued'
      BY <3>2, <3>6, <3>7 DEF WaitersAreQueued, Asked, ApprovalTypeOK
    <3>9. HumanApprovedIt'
      BY <3>1, <3>6, <3>7 DEF HumanApprovedIt, AskedFor
    <3> QED
      BY <3>4, <3>5, <3>8, <3>9
  <2> QED
    BY <1>5, <2>2, <2>3 DEF Deadline
<1>6. CASE Look
  BY <1>6 DEF Look, ApprovalTypeOK, ApprovalsAreTheHumans, WaitersAreQueued, Asked,
              HumanApprovedIt, AskedFor
<1>7. ASSUME NEW i \in Intent, NEW approved \in BOOLEAN, Decide(i, approved) PROVE ApprovalIInv'
  <2>1. /\ pending' \in [Intent -> SUBSET Payment]
        /\ decisions' \in [Intent -> SUBSET Decision]
        /\ \A j \in Intent : j # i => decisions'[j] = decisions[j] /\ pending'[j] = pending[j]
        /\ decisions[i] # {} => decisions'[i] = decisions[i]
        /\ decisions[i] # {} \/ pending[i] # {} => decisions'[i] # {}
    BY <1>7, ResolvedDecides DEF Decide
  <2>2. waiter' = waiter /\ yes \subseteq yes'
    BY <1>7 DEF Decide
  <2>3. \A d \in decisions'[i] \ decisions[i] : d.approved => <<i, d.payment>> \in yes'
    BY <1>7 DEF Decide
  <2>4. ApprovalsAreTheHumans'
    BY <2>1, <2>2, <2>3 DEF ApprovalsAreTheHumans
  <2>5. WaitersAreQueued'
    BY <2>1, <2>2 DEF WaitersAreQueued, Asked, ApprovalTypeOK
  <2> QED
    BY <2>1, <2>2, <2>4, <2>5 DEF ApprovalTypeOK, HumanApprovedIt, AskedFor
<1>8. CASE UNCHANGED approvalVars
  BY <1>8 DEF approvalVars, ApprovalTypeOK, ApprovalsAreTheHumans, WaitersAreQueued, Asked,
              HumanApprovedIt, AskedFor
<1> QED
  BY <1>1, <1>2, <1>3, <1>4, <1>5, <1>6, <1>7, <1>8 DEF ApprovalNext

(* An id that is decided keeps its decision through every step. *)
LEMMA DecidedStays ==
  ASSUME ApprovalIInv, [ApprovalNext]_approvalVars
  PROVE  \A i \in Intent : decisions[i] # {} => decisions'[i] = decisions[i]
<1>1. ASSUME NEW j \in Intent, NEW approved \in BOOLEAN, Resolved(j, approved)
      PROVE  \A i \in Intent : decisions[i] # {} => decisions'[i] = decisions[i]
  BY <1>1, ResolvedDecides DEF ApprovalIInv
<1>2. ASSUME NEW w \in Waiter, Deadline(w)
      PROVE  \A i \in Intent : decisions[i] # {} => decisions'[i] = decisions[i]
  BY <1>1, <1>2 DEF Deadline, TimesOut, ApprovalIInv, ApprovalTypeOK
<1> QED
  BY <1>1, <1>2 DEF ApprovalNext, Ask, AskThrows, Poll, Sleep, Look, Decide, approvalVars

(* A call is told "approved" only where a human said yes to exactly its    *)
(* payment, and once a call has been told "timed out" no later answer      *)
(* changes the decision of its id (QueuedApprovalHandler over both stores).*)
THEOREM ApprovalsAreSound == ApprovalSpec => ApprovalsHold
<1>1. ApprovalInit => ApprovalIInv
  BY ApprovalInitiallyHolds
<1>2. ApprovalIInv /\ [ApprovalNext]_approvalVars => ApprovalIInv'
  BY ApprovalStep
<1>3. ApprovalIInv => HumanApprovedIt
  BY DEF ApprovalIInv
<1>4. ApprovalIInv /\ [ApprovalNext]_approvalVars =>
        [\A w \in Waiter : waiter[w].answer = "timedOut" =>
           decisions'[waiter[w].intent] = decisions[waiter[w].intent]]_approvalVars
  BY DecidedStays DEF ApprovalIInv, WaitersAreQueued, ApprovalTypeOK
<1> QED
  BY <1>1, <1>2, <1>3, <1>4, PTL DEF ApprovalSpec, ApprovalsHold, TimedOutStaysClosed

-----------------------------------------------------------------------------
(* The card network's webhook.  Every place an approval can come from - the *)
(* race the guard won, the decision store, the read of it, the delivery a   *)
(* joiner waits for - holds one only for an authorization that has a        *)
(* counted run; a run once counted stays counted.                           *)

HasCountedRun(a) == \E e \in Delivery : authOf[e] = a /\ run[e] = "counted"

StripeTypeOK ==
  /\ authOf \in [Delivery -> Auth]
  /\ DOMAIN at = Delivery /\ DOMAIN run = Delivery /\ DOMAIN reply = Delivery
  /\ DOMAIN cached = Delivery /\ DOMAIN verdict = Delivery /\ DOMAIN joined = Delivery
  /\ DOMAIN saved = Auth /\ DOMAIN inflight = Auth

(* A delivery that has not reached the guard has no run of its own, and a  *)
(* flight is only joined by deliveries of its authorization.               *)
FlightsApart ==
  /\ \A d \in Delivery : at[d] \in {"new", "reading"} => run[d] = "idle"
  /\ \A a \in Auth : \A d \in inflight[a] : d \in Delivery /\ authOf[d] = a
  /\ \A d \in Delivery : \A e \in joined[d] : e \in Delivery /\ authOf[e] = authOf[d]

ApprovalsAreCounted ==
  /\ \A d \in Delivery :
       verdict[d] = "executed" \/ cached[d] = "approve" => HasCountedRun(authOf[d])
  /\ \A a \in Auth : "approve" \in saved[a] => HasCountedRun(a)

StripeIInv == StripeTypeOK /\ FlightsApart /\ ApprovalsAreCounted /\ ApprovedIsCounted

LEMMA StripeInitiallyHolds == StripeInit => StripeIInv
<1> SUFFICES ASSUME StripeInit PROVE StripeIInv
  OBVIOUS
<1> QED
  BY DEF StripeInit, StripeIInv, StripeTypeOK, FlightsApart, ApprovalsAreCounted, ApprovedIsCounted

LEMMA StripeStep ==
  ASSUME StripeIInv, [StripeNext]_stripeVars
  PROVE  StripeIInv'
<1> USE DEF StripeIInv
<1> DEFINE Kept == StripeTypeOK' /\ FlightsApart' /\ ApprovalsAreCounted' /\ ApprovedIsCounted'
<1>1. ASSUME NEW d \in Delivery, Receive(d) PROVE Kept
  BY <1>1 DEF Receive, StripeTypeOK, FlightsApart, ApprovalsAreCounted, ApprovedIsCounted,
              HasCountedRun
<1>2. ASSUME NEW d \in Delivery, TimerFires(d) PROVE Kept
  BY <1>2 DEF TimerFires, StripeTypeOK, FlightsApart, ApprovalsAreCounted, ApprovedIsCounted,
              HasCountedRun
<1>3. ASSUME NEW d \in Delivery, ReadLands(d) PROVE Kept
  BY <1>3 DEF ReadLands, StripeTypeOK, FlightsApart, ApprovalsAreCounted, ApprovedIsCounted,
              HasCountedRun
<1>4. ASSUME NEW d \in Delivery, AnswerCached(d) PROVE Kept
  BY <1>4 DEF AnswerCached, StripeTypeOK, FlightsApart, ApprovalsAreCounted, ApprovedIsCounted,
              HasCountedRun
<1>5. ASSUME NEW d \in Delivery, Join(d) PROVE Kept
  BY <1>5 DEF Join, StripeTypeOK, FlightsApart, ApprovalsAreCounted, ApprovedIsCounted,
              HasCountedRun
<1>6. ASSUME NEW d \in Delivery, Lead(d) PROVE Kept
  <2>1. run[d] = "idle" /\ run' = [run EXCEPT ![d] = "admission"]
    BY <1>6 DEF Lead, FlightsApart
  <2>2. \A a \in Auth : HasCountedRun(a) => HasCountedRun(a)'
    BY <1>6, <2>1 DEF Lead, HasCountedRun, StripeTypeOK
  <2>3. /\ verdict' = [verdict EXCEPT ![d] = IF expired[d] THEN "timedOut" ELSE @]
        /\ UNCHANGED <<authOf, cached, reply, joined, saved>>
        /\ at' = [at EXCEPT ![d] = "deciding"]
        /\ inflight' = [inflight EXCEPT ![authOf[d]] = {d}]
    BY <1>6 DEF Lead
  <2>4. StripeTypeOK'
    BY <2>1, <2>3 DEF StripeTypeOK
  <2>5. FlightsApart'
    BY <2>1, <2>3 DEF StripeTypeOK, FlightsApart
  <2>6. ApprovalsAreCounted' /\ ApprovedIsCounted'
    BY <2>2, <2>3 DEF StripeTypeOK, ApprovalsAreCounted, ApprovedIsCounted, HasCountedRun
  <2> QED
    BY <2>4, <2>5, <2>6
<1>7. ASSUME NEW d \in Delivery, GuardRuns(d) PROVE Kept
  <2>1. \A a \in Auth : HasCountedRun(a) => HasCountedRun(a)'
    BY <1>7 DEF GuardRuns, GuardStep, HasCountedRun, StripeTypeOK
  <2>2. run[d] # "idle" /\ DOMAIN run' = Delivery /\ \A e \in Delivery : e # d => run'[e] = run[e]
    BY <1>7 DEF GuardRuns, GuardStep, StripeTypeOK
  <2>3. UNCHANGED <<authOf, at, expired, cached, verdict, reply, joined, inflight, saved>>
    BY <1>7 DEF GuardRuns
  <2> QED
    BY <2>1, <2>2, <2>3 DEF StripeTypeOK, FlightsApart, ApprovalsAreCounted, ApprovedIsCounted,
                            HasCountedRun
<1>8. ASSUME NEW d \in Delivery, GuardAnswers(d) PROVE Kept
  <2>1. PICK v \in Outcome(d) :
          /\ verdict' = [verdict EXCEPT ![d] = v]
          /\ run' = [run EXCEPT ![d] = IF v = "replayed" \/ run[d] = "admission" THEN "idle" ELSE @]
    BY <1>8 DEF GuardAnswers
  <2>2. run[d] \in {"admission", "counted", "failed"}
    BY DEF Outcome
  <2>3. /\ run[d] = "counted" => run'[d] = "counted"
        /\ v = "executed" => run'[d] = "counted"
        /\ run[d] # "idle"
    BY <2>1, <2>2 DEF Outcome, StripeTypeOK
  <2>4. \A a \in Auth : HasCountedRun(a) => HasCountedRun(a)'
    BY <1>8, <2>1, <2>3 DEF GuardAnswers, HasCountedRun, StripeTypeOK
  <2>5. UNCHANGED <<authOf, at, expired, cached, reply, joined, inflight, saved>>
    BY <1>8 DEF GuardAnswers
  <2>6. v = "executed" => HasCountedRun(authOf[d])'
    BY <2>3, <2>5 DEF HasCountedRun
  <2>7. StripeTypeOK' /\ FlightsApart'
    BY <1>8, <2>1, <2>5 DEF StripeTypeOK, FlightsApart, GuardAnswers
  <2>8. ApprovalsAreCounted' /\ ApprovedIsCounted'
    BY <2>1, <2>4, <2>5, <2>6 DEF StripeTypeOK, ApprovalsAreCounted, ApprovedIsCounted,
                                  HasCountedRun
  <2> QED
    BY <2>7, <2>8
<1>9. ASSUME NEW d \in Delivery, Respond(d) PROVE Kept
  BY <1>9 DEF Respond, Approves, StripeTypeOK, FlightsApart, ApprovalsAreCounted,
              ApprovedIsCounted, HasCountedRun
<1>10. ASSUME NEW d \in Delivery, WriteLands(d) PROVE Kept
  BY <1>10 DEF WriteLands, StripeTypeOK, FlightsApart, ApprovalsAreCounted, ApprovedIsCounted,
               HasCountedRun
<1>11. ASSUME NEW d \in Delivery, Answer(d) PROVE Kept
  BY <1>11 DEF Answer, StripeTypeOK, FlightsApart, ApprovalsAreCounted, ApprovedIsCounted,
               HasCountedRun
<1>12. ASSUME NEW d \in Delivery, AnswerJoined(d) PROVE Kept
  BY <1>12 DEF AnswerJoined, StripeTypeOK, FlightsApart, ApprovalsAreCounted, ApprovedIsCounted,
               HasCountedRun
<1>13. ASSUME NEW a \in Auth, Forget(a) PROVE Kept
  BY <1>13 DEF Forget, StripeTypeOK, FlightsApart, ApprovalsAreCounted, ApprovedIsCounted,
               HasCountedRun
<1>14. CASE UNCHANGED stripeVars
  BY <1>14 DEF stripeVars, StripeTypeOK, FlightsApart, ApprovalsAreCounted, ApprovedIsCounted,
               HasCountedRun
<1> QED
  BY <1>1, <1>2, <1>3, <1>4, <1>5, <1>6, <1>7, <1>8, <1>9, <1>10, <1>11, <1>12, <1>13, <1>14
     DEF StripeNext, HandlerStep

(* The network is told to pay only what some run of the guard has counted, *)
(* whichever way the answer came: decided, stored, or another delivery's   *)
(* (handle() of stripe/src/handler.ts).                                    *)
THEOREM ApprovalsAreAllCounted == StripeSpec => []ApprovedIsCounted
<1>1. StripeInit => StripeIInv
  BY StripeInitiallyHolds
<1>2. StripeIInv /\ [StripeNext]_stripeVars => StripeIInv'
  BY StripeStep
<1>3. StripeIInv => ApprovedIsCounted
  BY DEF StripeIInv
<1> QED
  BY <1>1, <1>2, <1>3, PTL DEF StripeSpec

-----------------------------------------------------------------------------
(* The agent host's hooks.  What the guard knows of a payment is held by at *)
(* most one tool call: the one it authorized.  Between the two hooks that   *)
(* call's key, which no other payment's call has, remembers the payment.    *)

GrantedCall == {"authorized", "allowed", "executed", "failed", "over"}
RememberedCall == {"allowed", "executed", "failed"}

HooksTypeOK ==
  /\ call \in [ToolCall -> {"new", "noOpinion", "asking", "denied"} \cup GrantedCall]
  /\ DOMAIN granted = Payments /\ DOMAIN settled = Payments /\ DOMAIN inFlight = Keys

(* What the guard was told of payment i when call c holds it. *)
ToldOf(c, i) ==
  IF call[c] = "over" THEN settled[i] \in {{<<c, "executed">>}, {<<c, "failed">>}}
                      ELSE settled[i] = {}

OneCallHolds ==
  \A i \in Payments :
    \/ granted[i] = {} /\ settled[i] = {}
    \/ \E c \in ToolCall : i \in IntentOf[c] /\ granted[i] = {c} /\ ToldOf(c, i)

CallsHoldTheirs ==
  \A c \in ToolCall : \A i \in IntentOf[c] :
    /\ call[c] # "noOpinion"
    /\ call[c] \in GrantedCall => granted[i] = {c}
    /\ call[c] \in RememberedCall => i \in inFlight[CorrelationKey(c)]

KeysRemember ==
  \A k \in Keys : \A i \in inFlight[k] :
    \E c \in ToolCall : k = CorrelationKey(c) /\ i \in IntentOf[c] /\ call[c] \in RememberedCall

HooksIInv == HooksTypeOK /\ OneCallHolds /\ CallsHoldTheirs /\ KeysRemember

LEMMA HooksInitiallyHolds == HooksInit => HooksIInv
<1> SUFFICES ASSUME HooksInit PROVE HooksIInv
  OBVIOUS
<1> QED
  BY DEF HooksInit, HooksIInv, HooksTypeOK, OneCallHolds, CallsHoldTheirs, KeysRemember,
         GrantedCall, RememberedCall

(* A call that moves without holding a payment, or from one place of the   *)
(* granted ones to another, disturbs nothing.                              *)
LEMMA CallMoves ==
  ASSUME HooksIInv, NEW c \in ToolCall, NEW to, Moves(c, to), UNCHANGED <<granted, inFlight, settled>>,
         \/ /\ call[c] \notin GrantedCall
            /\ to \in {"noOpinion", "asking", "denied"}
            /\ to = "noOpinion" => IntentOf[c] = {}
         \/ /\ call[c] \in RememberedCall \/ (call[c] = "noOpinion" /\ IntentOf[c] = {})
            /\ to \in {"executed", "failed"}
  PROVE  HooksIInv'
<1> USE DEF HooksIInv, GrantedCall, RememberedCall
<1>1. /\ call'[c] = to
      /\ \A d \in ToolCall : d # c => call'[d] = call[d]
      /\ HooksTypeOK'
  BY DEF Moves, HooksTypeOK
<1>2. \A d \in ToolCall : \A i \in IntentOf[d] :
        granted[i] = {d} => (call'[d] = "over" <=> call[d] = "over")
  BY <1>1
<1>3. OneCallHolds'
  BY <1>1, <1>2 DEF OneCallHolds, ToldOf
<1>4. CallsHoldTheirs'
  BY <1>1 DEF CallsHoldTheirs
<1>5. KeysRemember'
  BY <1>1 DEF KeysRemember
<1> QED
  BY <1>1, <1>3, <1>4, <1>5

LEMMA HooksStep ==
  ASSUME HooksIInv, [HooksNext]_hookVars
  PROVE  HooksIInv'
<1> USE DEF HooksIInv
<1>1. ASSUME NEW c \in ToolCall, Resolve(c) PROVE HooksIInv'
  BY <1>1, CallMoves DEF Resolve, GrantedCall
<1>2. ASSUME NEW c \in ToolCall, Authorize(c) PROVE HooksIInv'
  <2>1. CASE Moves(c, "denied") /\ UNCHANGED granted
    BY <1>2, <2>1, CallMoves DEF Authorize, GrantedCall
  <2>2. ASSUME NEW i \in IntentOf[c], granted[i] = {}, Moves(c, "authorized"),
               granted' = [granted EXCEPT ![i] = {c}]
        PROVE  HooksIInv'
    <3>1. /\ call[c] = "asking" /\ call'[c] = "authorized"
          /\ \A d \in ToolCall : d # c => call'[d] = call[d]
          /\ i \in Payments /\ granted'[i] = {c}
          /\ \A j \in Payments : j # i => granted'[j] = granted[j]
          /\ HooksTypeOK' /\ UNCHANGED <<inFlight, settled>>
      BY <1>2, <2>2 DEF Authorize, Moves, HooksTypeOK, GrantedCall, Payments
    <3>2. settled[i] = {} /\ ToldOf(c, i)'
      BY <2>2, <3>1 DEF OneCallHolds, ToldOf
    <3>3. \A j \in Payments \ {i} : \A d \in ToolCall : granted[j] = {d} /\ ToldOf(d, j) => ToldOf(d, j)'
      BY <3>1 DEF ToldOf
    <3>4. OneCallHolds'
      BY <3>1, <3>2, <3>3 DEF OneCallHolds
    <3>5. \A j \in IntentOf[c] : j = i
      BY OneIntent DEF OneIntent
    <3>6. CallsHoldTheirs'
      BY <2>2, <3>1, <3>5 DEF CallsHoldTheirs, GrantedCall, RememberedCall, Payments
    <3>7. KeysRemember'
      BY <3>1 DEF KeysRemember, RememberedCall
    <3> QED
      BY <3>1, <3>4, <3>6, <3>7
  <2> QED
    BY <1>2, <2>1, <2>2 DEF Authorize, ReplayDenies
<1>3. ASSUME NEW c \in ToolCall, Remember(c) PROVE HooksIInv'
  <2> DEFINE k == CorrelationKey(c)
  <2>1. /\ call[c] = "authorized" /\ call'[c] = "allowed"
        /\ \A d \in ToolCall : d # c => call'[d] = call[d]
        /\ k \in Keys /\ inFlight'[k] = IntentOf[c]
        /\ \A l \in Keys : l # k => inFlight'[l] = inFlight[l]
        /\ HooksTypeOK' /\ UNCHANGED <<granted, settled>>
    BY <1>3 DEF Remember, Moves, HooksTypeOK, GrantedCall, Keys
  <2>2. \A j \in Payments : \A d \in ToolCall : granted[j] = {d} /\ ToldOf(d, j) => ToldOf(d, j)'
    BY <2>1 DEF ToldOf
  <2>3. OneCallHolds'
    BY <2>1, <2>2 DEF OneCallHolds
  <2>4. \A d \in ToolCall : d # c /\ IntentOf[d] # {} => CorrelationKey(d) # k
    BY KeysApart DEF KeysApart
  <2>5. CallsHoldTheirs'
    BY <2>1, <2>4 DEF CallsHoldTheirs, GrantedCall, RememberedCall, Keys
  <2>6. KeysRemember'
    <3> SUFFICES ASSUME NEW l \in Keys, NEW i \in inFlight'[l]
                 PROVE  \E d \in ToolCall : l = CorrelationKey(d) /\ i \in IntentOf[d]
                                            /\ call'[d] \in RememberedCall
      BY DEF KeysRemember
    <3>1. CASE l = k
      BY <2>1, <3>1 DEF RememberedCall
    <3>2. CASE l # k
      BY <2>1, <3>2 DEF RememberedCall, KeysRemember
    <3> QED
      BY <3>1, <3>2
  <2> QED
    BY <2>1, <2>3, <2>5, <2>6
<1>4. ASSUME NEW c \in ToolCall, RunTool(c) PROVE HooksIInv'
  <2>1. PICK outcome \in {"executed", "failed"} : Moves(c, outcome)
    BY <1>4 DEF RunTool
  <2>2. call[c] = "noOpinion" => IntentOf[c] = {}
    BY DEF CallsHoldTheirs
  <2> QED
    BY <1>4, <2>1, <2>2, CallMoves DEF RunTool, RememberedCall
<1>5. ASSUME NEW c \in ToolCall, PostToolUse(c) PROVE HooksIInv'
  <2> DEFINE k == CorrelationKey(c)
  <2>1. /\ call[c] \in {"executed", "failed"} /\ call'[c] = "over"
        /\ \A d \in ToolCall : d # c => call'[d] = call[d]
        /\ k \in Keys /\ inFlight'[k] = {}
        /\ \A l \in Keys : l # k => inFlight'[l] = inFlight[l]
        /\ HooksTypeOK' /\ UNCHANGED granted
        /\ settled' = [i \in Payments |->
             settled[i] \cup IF i \in inFlight[k] THEN {<<c, call[c]>>} ELSE {}]
    BY <1>5 DEF PostToolUse, Moves, HooksTypeOK, GrantedCall, Keys
  <2>2. \A d \in ToolCall : d # c /\ IntentOf[d] # {} => CorrelationKey(d) # k
    BY KeysApart DEF KeysApart
  <2>3. \A i \in IntentOf[c] : i \in inFlight[k] /\ granted[i] = {c} /\ i \in Payments
    BY <2>1 DEF CallsHoldTheirs, GrantedCall, RememberedCall, Payments
  <2>4. \A i \in inFlight[k] : i \in IntentOf[c]
    BY <2>1, <2>2 DEF KeysRemember
  <2>5. OneCallHolds'
    <3> SUFFICES ASSUME NEW i \in Payments
                 PROVE  \/ granted'[i] = {} /\ settled'[i] = {}
                        \/ \E d \in ToolCall : i \in IntentOf[d] /\ granted'[i] = {d} /\ ToldOf(d, i)'
      BY DEF OneCallHolds
    <3>1. CASE i \in inFlight[k]
      <4>1. granted[i] = {c} /\ i \in IntentOf[c]
        BY <2>3, <2>4, <3>1
      <4>2. settled[i] = {}
        BY <2>1, <4>1 DEF OneCallHolds, ToldOf
      <4>3. settled'[i] = {<<c, call[c]>>}
        BY <2>1, <3>1, <4>2
      <4>4. ToldOf(c, i)'
        BY <2>1, <4>3 DEF ToldOf
      <4> QED
        BY <2>1, <4>1, <4>4
    <3>2. CASE i \notin inFlight[k]
      <4>1. settled'[i] = settled[i] /\ i \notin IntentOf[c]
        BY <2>1, <2>3, <3>2
      <4>2. \A d \in ToolCall : i \in IntentOf[d] /\ ToldOf(d, i) => ToldOf(d, i)'
        BY <2>1, <4>1 DEF ToldOf
      <4> QED
        BY <2>1, <4>1, <4>2 DEF OneCallHolds
    <3> QED
      BY <3>1, <3>2
  <2>6. CallsHoldTheirs'
    BY <2>1, <2>2 DEF CallsHoldTheirs, GrantedCall, RememberedCall, Keys
  <2>7. KeysRemember'
    BY <2>1, <2>2 DEF KeysRemember, RememberedCall
  <2> QED
    BY <2>1, <2>5, <2>6, <2>7
<1>6. CASE UNCHANGED hookVars
  BY <1>6 DEF hookVars, HooksTypeOK, OneCallHolds, CallsHoldTheirs, KeysRemember, ToldOf
<1> QED
  BY <1>1, <1>2, <1>3, <1>4, <1>5, <1>6 DEF HooksNext

(* What the guard is told of a payment is what became of the one tool call *)
(* it authorized for it, and a payment tool that is over has been settled  *)
(* (preToolUse, postToolUse and postToolUseFailure of agent/src), for any  *)
(* number of concurrent calls that keep keys of their own.                 *)
THEOREM SettlementsTellTheTruth == HooksSpec => []SettledAsItRan
<1>1. HooksInit => HooksIInv
  BY HooksInitiallyHolds
<1>2. HooksIInv /\ [HooksNext]_hookVars => HooksIInv'
  BY HooksStep
<1>3. HooksIInv => SettledAsItRan
  <2> SUFFICES ASSUME HooksIInv, NEW c \in ToolCall, NEW i \in IntentOf[c]
               PROVE  /\ call[c] \in {"allowed", "executed", "failed", "over"} => granted[i] = {c}
                      /\ call[c] = "over" => settled[i] \in {{<<c, "executed">>}, {<<c, "failed">>}}
                      /\ \A s \in settled[i] : s[1] = c \/ granted[i] # {c}
    BY DEF SettledAsItRan
  <2>1. i \in Payments
    BY DEF Payments
  <2>2. call[c] \in {"allowed", "executed", "failed", "over"} => granted[i] = {c}
    BY DEF HooksIInv, CallsHoldTheirs, GrantedCall
  <2>3. granted[i] = {c} => ToldOf(c, i)
    BY <2>1 DEF HooksIInv, OneCallHolds
  <2> QED
    BY <2>2, <2>3 DEF ToldOf
<1> QED
  BY <1>1, <1>2, <1>3, PTL DEF HooksSpec

-----------------------------------------------------------------------------
(* Two-phase settlement.  An "executed" report is only true once the rail   *)
(* has moved the money, moved money is never released, and so the id is not *)
(* authorized again: every success row stands behind the one authorization  *)
(* the reports are of, and the critical section keeps a second one out.     *)

TrailRow == [type : {"execution_started", "execution_result"}, success : BOOLEAN, amount : BOOLEAN]

SettlementTypeOK ==
  /\ trail \in Seq(TrailRow)
  /\ settler \in [Settler -> [pc : {"idle", "commit", "queued", "record", "done"},
                              success : BOOLEAN, of : Nat, read : SUBSET Seq(TrailRow)]]
  /\ unread \in Nat /\ lost \in Nat

(* Who reports "executed" reports the current authorization. *)
ReportsAreCurrent ==
  /\ moved => held # "free"
  /\ \A s \in Settler : settler[s].success =>
       settler[s].pc # "idle" /\ moved /\ settler[s].of = Current

(* The one who is to write its row has read the trail it writes to. *)
RecorderReadLast ==
  \A s \in Settler :
    /\ settler[s].pc \in {"idle", "commit", "queued"} => settler[s].read = {}
    /\ settler[s].pc = "record" =>
         critical = {s} /\ settler[s].read \subseteq {trail} /\ (settler[s].read = {} => unread > 0)

SuccessRows(t) == {i \in DOMAIN t : t[i].success}

SuccessesAreCurrent ==
  \A i \in SuccessRows(trail) :
    /\ \A j \in i..Len(trail) : trail[j].type = "execution_result"
    /\ \E s \in Settler : settler[s].success
    /\ ~trail[i].amount => unread > 0

RestoredAtMostOnce == \A i, j \in RestoredRows(trail) : i = j

ReportedIsOnFile ==
  \A a \in reported :
    /\ \E s \in Settler : settler[s].success /\ settler[s].of = a
    /\ lost = 0 => SuccessRows(trail) # {}

SettlementIInv ==
  /\ SettlementTypeOK /\ ReportsAreCurrent /\ RecorderReadLast
  /\ SuccessesAreCurrent /\ RestoredAtMostOnce /\ ReportedIsOnFile

(* A row after the last one leaves the others where they are. *)
LEMMA AppendedRow ==
  ASSUME NEW t \in Seq(TrailRow), NEW added \in TrailRow
  PROVE  LET u == Append(t, added) IN
         /\ u \in Seq(TrailRow) /\ Len(u) = Len(t) + 1 /\ DOMAIN u = 1..Len(t) + 1
         /\ DOMAIN t = 1..Len(t) /\ Len(t) \in Nat
         /\ u[Len(t) + 1] = added /\ \A i \in 1..Len(t) : u[i] = t[i]
OBVIOUS

LEMMA CurrentIsNat == SettlementTypeOK => Current \in Nat
<1> SUFFICES ASSUME SettlementTypeOK PROVE Current \in Nat
  OBVIOUS
<1>1. Len(trail) \in Nat /\ Authorizations \in SUBSET (1..Len(trail))
  BY DEF SettlementTypeOK, Authorizations
<1>2. IsFiniteSet(1..Len(trail))
  BY <1>1, FS_Interval
<1>3. IsFiniteSet(Authorizations)
  BY <1>1, <1>2, FS_Subset
<1> QED
  BY <1>3, FS_CardinalityType DEF Current

LEMMA SettlementInitiallyHolds == SettlementInit => SettlementIInv
<1> SUFFICES ASSUME SettlementInit PROVE SettlementIInv
  OBVIOUS
<1>1. trail = <<>> /\ DOMAIN trail = {} /\ trail \in Seq(TrailRow)
  BY DEF SettlementInit
<1> QED
  BY <1>1 DEF SettlementInit, SettlementIInv, SettlementTypeOK, ReportsAreCurrent,
    RecorderReadLast, SuccessesAreCurrent, RestoredAtMostOnce, ReportedIsOnFile, SuccessRows,
    RestoredRows

LEMMA SettlementStep ==
  ASSUME SettlementIInv, [SettlementNext]_settleVars
  PROVE  SettlementIInv'
<1> USE DEF SettlementIInv
<1>1. CASE AuthorizeTwoPhase
  <2>1. \A s \in Settler : ~settler[s].success /\ settler[s].pc # "record"
    BY <1>1 DEF AuthorizeTwoPhase, ReportsAreCurrent, RecorderReadLast, SettlementTypeOK
  <2>2. SuccessRows(trail) = {} /\ reported = {}
    BY <2>1 DEF SuccessesAreCurrent, ReportedIsOnFile
  <2>3. Started \in TrailRow /\ ~Started.success
    BY DEF Started, TrailRow
  <2>4. trail' = Append(trail, Started) /\ trail \in Seq(TrailRow)
        /\ UNCHANGED <<settler, critical, unread, lost, reported>>
    BY <1>1 DEF AuthorizeTwoPhase, SettlementTypeOK
  <2>5. SuccessRows(trail)' = {} /\ RestoredRows(trail)' = {}
    BY <2>2, <2>3, <2>4, AppendedRow DEF SuccessRows, RestoredRows
  <2>6. SettlementTypeOK'
    BY <2>3, <2>4, AppendedRow DEF SettlementTypeOK
  <2>7. ReportsAreCurrent' /\ RecorderReadLast'
    BY <1>1, <2>1, <2>4 DEF AuthorizeTwoPhase, ReportsAreCurrent, RecorderReadLast
  <2>8. SuccessesAreCurrent' /\ RestoredAtMostOnce' /\ ReportedIsOnFile'
    BY <2>2, <2>4, <2>5 DEF SuccessesAreCurrent, RestoredAtMostOnce, ReportedIsOnFile
  <2> QED
    BY <2>6, <2>7, <2>8
<1>2. CASE RailMoves \/ ReleaseSpend
  <2>1. Current' = Current /\ UNCHANGED <<settler, trail, critical, unread, lost, reported>>
    BY <1>2 DEF RailMoves, ReleaseSpend, Current, Authorizations
  <2>2. ReportsAreCurrent'
    BY <1>2, <2>1 DEF RailMoves, ReleaseSpend, ReportsAreCurrent
  <2> QED
    BY <2>1, <2>2 DEF SettlementTypeOK, RecorderReadLast, SuccessesAreCurrent, RestoredAtMostOnce,
      ReportedIsOnFile
<1>3. ASSUME NEW s \in Settler, NEW success \in BOOLEAN, CallSettle(s, success)
      PROVE  SettlementIInv'
  <2>1. /\ settler[s].pc = "idle" /\ (success => moved)
        /\ settler' = [settler EXCEPT ![s] =
             [pc |-> IF success THEN "commit" ELSE "queued", success |-> success,
              of |-> Current, read |-> {}]]
        /\ UNCHANGED <<held, moved, trail, critical, unread, lost, reported>>
    BY <1>3 DEF CallSettle
  <2>2. /\ ~settler[s].success
        /\ settler'[s].success = success /\ settler'[s].of = Current
        /\ settler'[s].pc \in {"commit", "queued"}
        /\ \A u \in Settler : u # s => settler'[u] = settler[u]
        /\ Current' = Current
    BY <2>1 DEF ReportsAreCurrent, SettlementTypeOK, Current, Authorizations
  <2>4. SettlementTypeOK'
    BY <2>1, <2>2, CurrentIsNat DEF SettlementTypeOK
  <2>5. ReportsAreCurrent' /\ RecorderReadLast'
    BY <2>1, <2>2 DEF ReportsAreCurrent, RecorderReadLast
  <2>6. SuccessesAreCurrent' /\ ReportedIsOnFile' /\ RestoredAtMostOnce'
    BY <2>1, <2>2 DEF SuccessesAreCurrent, ReportedIsOnFile, RestoredAtMostOnce
  <2> QED
    BY <2>4, <2>5, <2>6
<1>4. ASSUME NEW s \in Settler, CommitSettled(s) PROVE SettlementIInv'
  <2>1. /\ settler[s].pc = "commit"
        /\ settler' = [settler EXCEPT ![s] = [settler[s] EXCEPT !.pc = "queued"]]
        /\ held' = IF held = "reserved" THEN "committed" ELSE held
        /\ UNCHANGED <<moved, trail, critical, unread, lost, reported>>
    BY <1>4 DEF CommitSettled, SettlementTypeOK
  <2>2. /\ settler'[s] = [settler[s] EXCEPT !.pc = "queued"]
        /\ settler'[s].pc = "queued" /\ settler'[s].read = settler[s].read
        /\ settler'[s].success = settler[s].success /\ settler'[s].of = settler[s].of
        /\ \A u \in Settler : u # s => settler'[u] = settler[u]
        /\ Current' = Current
    BY <2>1 DEF SettlementTypeOK, Current, Authorizations
  <2>3. SettlementTypeOK'
    BY <2>1, <2>2 DEF SettlementTypeOK
  <2>4. ReportsAreCurrent' /\ RecorderReadLast'
    BY <2>1, <2>2 DEF ReportsAreCurrent, RecorderReadLast
  <2>5. SuccessesAreCurrent' /\ ReportedIsOnFile' /\ RestoredAtMostOnce'
    BY <2>1, <2>2 DEF SuccessesAreCurrent, ReportedIsOnFile, RestoredAtMostOnce
  <2> QED
    BY <2>3, <2>4, <2>5
<1>5. ASSUME NEW s \in Settler, ReadTrail(s) PROVE SettlementIInv'
  <2>1. /\ settler[s].pc = "queued" /\ critical = {} /\ critical' = {s}
        /\ UNCHANGED <<held, moved, trail, lost, reported>>
    BY <1>5 DEF ReadTrail, EnterCritical
  <2>2. PICK read \in {{trail}, settler[s].read} :
          /\ settler' = [settler EXCEPT ![s] = [settler[s] EXCEPT !.pc = "record", !.read = read]]
          /\ unread' \in {unread, unread + 1}
          /\ read = {trail} \/ (read = settler[s].read /\ unread' = unread + 1)
    BY <1>5 DEF ReadTrail, SettlementTypeOK
  <2>3. /\ settler'[s].pc = "record" /\ settler'[s].read = read
        /\ settler'[s].success = settler[s].success /\ settler'[s].of = settler[s].of
        /\ \A u \in Settler : u # s => settler'[u] = settler[u]
        /\ Current' = Current
    BY <2>1, <2>2 DEF SettlementTypeOK, Current, Authorizations
  <2>4. SettlementTypeOK'
    <3>1. read \in SUBSET Seq(TrailRow) /\ unread' \in Nat
      BY <2>2 DEF SettlementTypeOK
    <3> QED
      BY <2>1, <2>2, <3>1 DEF SettlementTypeOK
  <2>5. ReportsAreCurrent'
    BY <2>1, <2>3 DEF ReportsAreCurrent
  <2>6. RecorderReadLast'
    <3>1. settler[s].read = {} /\ (read = {} => unread' > 0) /\ read \subseteq {trail}
      <4>1. settler[s].read = {} /\ unread \in Nat
        BY <2>1 DEF RecorderReadLast, SettlementTypeOK
      <4>2. read = {trail} \/ (read = {} /\ unread' = unread + 1)
        BY <2>2, <4>1
      <4> QED
        BY <4>1, <4>2
    <3>2. \A u \in Settler : u # s => settler[u].pc # "record"
      BY <2>1 DEF RecorderReadLast
    <3>3. \A u \in Settler : u # s => settler'[u].pc # "record" /\ settler'[u] = settler[u]
      BY <2>3, <3>2
    <3>4. settler'[s].pc = "record" /\ settler'[s].read = read /\ critical' = {s} /\ trail' = trail
      BY <2>1, <2>3
    <3> HIDE DEF SettlementIInv
    <3> QED
      BY <3>1, <3>3, <3>4 DEF RecorderReadLast, SettlementIInv
  <2>7. SuccessesAreCurrent' /\ ReportedIsOnFile' /\ RestoredAtMostOnce'
    BY <2>1, <2>2, <2>3 DEF SuccessesAreCurrent, ReportedIsOnFile, RestoredAtMostOnce, SettlementTypeOK
  <2> QED
    BY <2>4, <2>5, <2>6, <2>7
<1>6. ASSUME NEW s \in Settler, RecordSettlement(s) PROVE SettlementIInv'
  <2> DEFINE ok == settler[s].success
  <2> DEFINE recorded == \E t \in settler[s].read : Duplicate(t, settler[s].success)
  <2>1. /\ settler[s].pc = "record"
        /\ settler' = [settler EXCEPT ![s] = [settler[s] EXCEPT !.pc = "done"]]
        /\ critical' = critical \ {s}
        /\ reported' = IF ok THEN reported \cup {settler[s].of} ELSE reported
        /\ UNCHANGED <<held, moved, unread>>
        /\ \/ trail' = (IF recorded THEN trail ELSE Append(trail, Row(s))) /\ UNCHANGED lost
           \/ ~recorded /\ lost' = lost + 1 /\ UNCHANGED trail
    BY <1>6 DEF RecordSettlement, SettlementTypeOK
  <2>2. /\ settler'[s].pc = "done" /\ settler'[s].read = settler[s].read
        /\ settler'[s].success = ok /\ settler'[s].of = settler[s].of
        /\ \A u \in Settler : u # s => settler'[u] = settler[u] /\ settler[u].pc # "record"
    BY ZenonT(40), <2>1 DEF SettlementTypeOK, RecorderReadLast
  <2>3. /\ settler[s].read \subseteq {trail} /\ trail \in Seq(TrailRow)
        /\ (settler[s].read = {} => unread > 0)
        /\ (ok => settler[s].of = Current)
    BY <2>1 DEF RecorderReadLast, ReportsAreCurrent, SettlementTypeOK
  <2>4. recorded /\ ok => SuccessRows(trail) # {}
    BY <2>3 DEF Duplicate, ResultsSince, SuccessRows
  <2>5. Row(s) \in TrailRow /\ Row(s).success = ok /\ Row(s).type = "execution_result"
        /\ (Row(s).amount <=> settler[s].read # {})
    BY DEF Row, Result, TrailRow, SettlementTypeOK
  <2>6. ~recorded /\ ok /\ settler[s].read # {} => SuccessRows(trail) = {}
    <3> SUFFICES ASSUME settler[s].read = {trail}, ok, NEW i \in SuccessRows(trail)
                 PROVE  recorded
      BY <2>3
    <3>1. i \in ResultsSince(trail)
      BY <2>3 DEF SuccessesAreCurrent, ResultsSince, SuccessRows
    <3> QED
      BY <3>1 DEF Duplicate, SuccessRows
  <2>7. CASE trail' = trail
    <3>1. Current' = Current
      BY <2>7 DEF Current, Authorizations
    <3>2. SettlementTypeOK'
      <4>1. lost' \in Nat
        BY <2>1 DEF SettlementTypeOK
      <4> QED
        BY <2>1, <2>7, <4>1 DEF SettlementTypeOK
    <3>3. ReportsAreCurrent' /\ RecorderReadLast'
      BY <2>1, <2>2, <3>1 DEF ReportsAreCurrent, RecorderReadLast
    <3>4. SuccessesAreCurrent' /\ RestoredAtMostOnce'
      BY <2>1, <2>2, <2>7 DEF SuccessesAreCurrent, RestoredAtMostOnce
    <3>5. recorded \/ lost' = lost + 1
      <4>1. Len(Append(trail, Row(s))) # Len(trail)
        BY <2>3, <2>5, AppendedRow
      <4> QED
        BY <2>1, <2>7, <4>1
    <3>6. ReportedIsOnFile'
      BY <2>1, <2>2, <2>4, <2>7, <3>5 DEF ReportedIsOnFile, SettlementTypeOK
    <3> QED
      BY <3>2, <3>3, <3>4, <3>6
  <2>8. CASE ~recorded /\ trail' = Append(trail, Row(s)) /\ UNCHANGED lost
    <3> DEFINE n == Len(trail) + 1
    <3>1. /\ trail' \in Seq(TrailRow) /\ Len(trail') = n /\ DOMAIN trail' = 1..n
          /\ DOMAIN trail = 1..Len(trail) /\ Len(trail) \in Nat
          /\ trail'[n] = Row(s) /\ \A i \in 1..Len(trail) : trail'[i] = trail[i]
      BY <2>3, <2>5, <2>8, AppendedRow
    <3>2. Current' = Current
      <4>1. Authorizations' = Authorizations
        BY <2>5, <3>1 DEF Authorizations
      <4> QED
        BY <4>1 DEF Current
    <3>3. SettlementTypeOK'
      BY <2>1, <2>2, <2>8, <3>1 DEF SettlementTypeOK
    <3>4. ReportsAreCurrent' /\ RecorderReadLast'
      BY <2>1, <2>2, <3>2 DEF ReportsAreCurrent, RecorderReadLast
    <3>5. SuccessRows(trail) \subseteq SuccessRows(trail)'
          /\ SuccessRows(trail)' \subseteq SuccessRows(trail) \cup (IF ok THEN {n} ELSE {})
          /\ (ok => n \in SuccessRows(trail)')
      BY <2>5, <3>1 DEF SuccessRows
    <3>6. \E u \in Settler : settler'[u].success
          \/ (~ok /\ SuccessRows(trail) = {})
      BY <2>2 DEF SuccessesAreCurrent
    <3>7. SuccessesAreCurrent'
      BY SMTT(30), <2>1, <2>2, <2>3, <2>5, <3>1, <3>5, <3>6 DEF SuccessesAreCurrent, SuccessRows
    <3>8. RestoredAtMostOnce'
      BY <2>5, <2>6, <2>8, <3>1 DEF RestoredAtMostOnce, RestoredRows, SuccessRows
    <3>9. ReportedIsOnFile'
      BY <2>1, <2>2, <2>8, <3>5 DEF ReportedIsOnFile
    <3> QED
      BY <3>3, <3>4, <3>7, <3>8, <3>9
  <2> QED
    BY <2>1, <2>7, <2>8
<1>7. CASE UNCHANGED settleVars
  BY <1>7 DEF settleVars, SettlementTypeOK, ReportsAreCurrent, RecorderReadLast,
    SuccessesAreCurrent, RestoredAtMostOnce, ReportedIsOnFile, Current, Authorizations
<1> QED
  BY <1>1, <1>2, <1>3, <1>4, <1>5, <1>6, <1>7 DEF SettlementNext

LEMMA AtMostOneCounts ==
  ASSUME NEW S, \A x, y \in S : x = y
  PROVE  /\ IsFiniteSet(S) /\ Cardinality(S) \in 0..1
         /\ (S # {} => Cardinality(S) = 1) /\ (S = {} => Cardinality(S) = 0)
<1>1. CASE S = {}
  BY <1>1, FS_EmptySet
<1>2. CASE S # {}
  <2>1. PICK x \in S : S = {x}
    BY <1>2
  <2>2. IsFiniteSet({x}) /\ Cardinality({x}) = 1
    BY FS_Singleton
  <2> QED
    BY <2>1, <2>2
<1> QED
  BY <1>1, <1>2

(* A restart restores every settled payment exactly once, whatever retries *)
(* and late failure reports surround it, and a row it cannot count is one  *)
(* whose trail could not be read (recordSettlement and hydrateFromLedger   *)
(* of guard.ts), for any number of settlers, authorizations and failures.  *)
THEOREM RestartsRestoreSettled == SettlementSpec => []RestartRestoresSettled
<1>1. SettlementInit => SettlementIInv
  BY SettlementInitiallyHolds
<1>2. SettlementIInv /\ [SettlementNext]_settleVars => SettlementIInv'
  BY SettlementStep
<1>3. SettlementIInv => RestartRestoresSettled
  <2> SUFFICES ASSUME SettlementIInv PROVE RestartRestoresSettled
    OBVIOUS
  <2> USE DEF SettlementIInv
  <2> DEFINE happened == {settler[s].of : s \in {u \in Settler : settler[u].success}}
  <2> DEFINE restored == RestoredRows(trail)
  <2> DEFINE skipped == SkippedRows(trail)
  <2>1. \A a, b \in happened : a = b
    BY DEF ReportsAreCurrent
  <2>2. \A a \in reported : a \in happened
    BY DEF ReportedIsOnFile
  <2>3. \A i, j \in restored : i = j
    BY DEF RestoredAtMostOnce
  <2>4. restored \cup skipped = SuccessRows(trail) /\ restored \cap skipped = {}
    BY DEF RestoredRows, SkippedRows, SuccessRows
  <2>5. IsFiniteSet(skipped) /\ Cardinality(skipped) \in Nat
        /\ (Cardinality(skipped) > 0 => skipped # {})
        /\ (skipped # {} => Cardinality(skipped) > 0)
    <3>1. skipped \in SUBSET (1..Len(trail)) /\ Len(trail) \in Nat
      BY DEF SkippedRows, SettlementTypeOK
    <3> HIDE DEF skipped
    <3>2. IsFiniteSet(skipped)
      <4>1. IsFiniteSet(1..Len(trail))
        BY <3>1, FS_Interval
      <4> QED
        BY <3>1, <4>1, FS_Subset
    <3>3. Cardinality(skipped) \in Nat /\ (Cardinality(skipped) = 0 <=> skipped = {})
      BY <3>2, FS_CardinalityType, FS_EmptySet
    <3> QED
      BY <3>2, <3>3
  <2>6. restored # {} => happened # {}
    BY <2>4 DEF SuccessesAreCurrent
  <2>7. skipped # {} => unread > 0
    BY <2>4 DEF SuccessesAreCurrent, SkippedRows
  <2>8. lost = 0 /\ reported # {} => restored # {} \/ skipped # {}
    BY <2>4 DEF ReportedIsOnFile
  <2>9. /\ Cardinality(restored) \in 0..1 /\ (restored # {} => Cardinality(restored) = 1)
        /\ (restored = {} => Cardinality(restored) = 0)
    BY <2>3, AtMostOneCounts
  <2>10. /\ Cardinality(happened) \in 0..1 /\ (happened # {} => Cardinality(happened) = 1)
    BY <2>1, AtMostOneCounts
  <2>11. /\ Cardinality(reported) \in 0..1 /\ (reported = {} => Cardinality(reported) = 0)
    <3>1. \A a, b \in reported : a = b
      BY <2>1, <2>2
    <3> QED
      BY <3>1, AtMostOneCounts
  <2>12. Cardinality(restored) <= Cardinality(happened)
    BY <2>6, <2>9, <2>10
  <2>13. lost = 0 => Cardinality(restored) + Cardinality(skipped) >= Cardinality(reported)
    BY <2>5, <2>8, <2>9, <2>11
  <2>14. Cardinality(skipped) > 0 => unread > 0
    BY <2>5, <2>7
  <2> QED
    BY <2>12, <2>13, <2>14 DEF RestartRestoresSettled
<1> QED
  BY <1>1, <1>2, <1>3, PTL DEF SettlementSpec

-----------------------------------------------------------------------------
(* The wire of a remote signer.  The codec recurses over a value of any     *)
(* shape, so its functions are shown to exist level by level of nesting and *)
(* then followed together from the leaves up: the encoding of every part is *)
(* JSON text already, and decodes to the part.                              *)

(* A nonempty set of numbers has a least one. *)
LEMMA LeastOf ==
  ASSUME NEW S \in SUBSET Nat, S # {}
  PROVE  \E n \in S : \A m \in S : n <= m
<1> DEFINE R == {pair \in Nat \X Nat : pair[1] < pair[2]}
<1>1. IsWellFoundedOn(R, Nat)
  BY NatLessThanWellFounded DEF OpToRel
<1>2. \A m, n \in Nat : m < n => <<m, n>> \in R
  OBVIOUS
<1> HIDE DEF R
<1>3. PICK n \in S : \A m \in S : <<m, n>> \notin R
  BY <1>1, WFMin
<1>4. \A m \in S : n <= m
  <2> SUFFICES ASSUME NEW m \in S, ~(n <= m) PROVE FALSE
    OBVIOUS
  <2>1. m \in Nat /\ n \in Nat /\ m < n
    OBVIOUS
  <2> QED
    BY <1>2, <1>3, <2>1
<1> QED
  BY <1>4

(* The first levels of a value. *)
LevelSteps(f, v, n) ==
  f = [i \in 0..n |-> IF i = 0 THEN {v} ELSE UNION {Parts(x) : x \in f[i - 1]}]

(* They can be computed as far as one likes. *)
LEMMA LevelStepsExist ==
  ASSUME NEW v, NEW n \in Nat
  PROVE  \E f : LevelSteps(f, v, n)
<1> DEFINE T == {k \in Nat : ~\E f : LevelSteps(f, v, k)}
<1>1. ASSUME T # {} PROVE FALSE
  <2>1. PICK k \in T : \A m \in T : k <= m
    BY <1>1, LeastOf
  <2>2. k \in Nat /\ ~\E f : LevelSteps(f, v, k)
    BY <2>1
  <2>3. k # 0
    <3> DEFINE g == [i \in 0..0 |-> {v}]
    <3>1. \A i \in 0..0 : i = 0
      OBVIOUS
    <3>2. LevelSteps(g, v, 0)
      BY <3>1 DEF LevelSteps
    <3> QED
      BY <2>2, <3>2
  <2>4. k - 1 \in Nat /\ k - 1 \notin T
    BY <2>1, <2>2, <2>3
  <2>5. PICK f : LevelSteps(f, v, k - 1)
    BY <2>4
  <2> DEFINE g == [i \in 0..k |-> IF i = 0 THEN {v} ELSE UNION {Parts(x) : x \in f[i - 1]}]
  <2>6. ASSUME NEW i \in 0..k - 1 PROVE g[i] = f[i]
    <3>1. i \in 0..k
      BY <2>2
    <3>2. f[i] = IF i = 0 THEN {v} ELSE UNION {Parts(x) : x \in f[i - 1]}
      BY <2>5 DEF LevelSteps
    <3> QED
      BY <3>1, <3>2
  <2> HIDE DEF g
  <2>7. ASSUME NEW i \in 0..k, i # 0 PROVE g[i - 1] = f[i - 1]
    <3>1. i - 1 \in 0..k - 1
      BY <2>2, <2>7
    <3> QED
      BY <2>6, <3>1
  <2>8. g = [i \in 0..k |-> IF i = 0 THEN {v} ELSE UNION {Parts(x) : x \in g[i - 1]}]
    BY <2>7 DEF g
  <2> QED
    BY <2>2, <2>8 DEF LevelSteps
<1> QED
  BY <1>1

(* The value is on top, and the parts of what is on one level on the next. *)
LEMMA LevelsAre ==
  ASSUME NEW v, NEW depth \in Nat
  PROVE  /\ Levels(v, depth)[0] = {v}
         /\ \A n \in 0..depth :
              Levels(v, depth)[n + 1] = UNION {Parts(x) : x \in Levels(v, depth)[n]}
<1> DEFINE level == Levels(v, depth)
<1>0. depth + 1 \in Nat
  OBVIOUS
<1>1. PICK f : LevelSteps(f, v, depth + 1)
  BY <1>0, LevelStepsExist
<1>2. level = [n \in 0..depth + 1 |-> IF n = 0 THEN {v} ELSE UNION {Parts(x) : x \in level[n - 1]}]
  BY <1>1 DEF LevelSteps, Levels
<1> HIDE DEF level
<1>3. level[0] = {v}
  BY <1>0, <1>2
<1>4. ASSUME NEW n \in 0..depth PROVE level[n + 1] = UNION {Parts(x) : x \in level[n]}
  <2>1. n + 1 \in 0..depth + 1 /\ n + 1 # 0 /\ (n + 1) - 1 = n
    OBVIOUS
  <2>2. level[n + 1] = UNION {Parts(x) : x \in level[(n + 1) - 1]}
    BY <1>2, <2>1
  <2> QED
    BY <2>1, <2>2
<1> QED
  BY <1>3, <1>4 DEF level

(* A recursion visits the value, and with everything its parts. *)
LEMMA WithinFacts ==
  ASSUME NEW v, NEW depth \in Nat, NestsWithin(v, depth)
  PROVE  /\ v \in Within(v, depth)
         /\ \A x \in Within(v, depth) : Parts(x) \subseteq Within(v, depth)
<1> DEFINE level == Levels(v, depth)
<1>1. v \in Within(v, depth)
  <2>1. 0 \in 0..depth /\ v \in Levels(v, depth)[0]
    BY LevelsAre
  <2> QED
    BY <2>1 DEF Within
<1>2. ASSUME NEW x \in Within(v, depth), NEW y \in Parts(x) PROVE y \in Within(v, depth)
  <2>1. PICK n \in 0..depth : x \in level[n]
    BY DEF Within
  <2>2. y \in level[n + 1]
    BY <2>1, LevelsAre
  <2>3. n + 1 \in 0..depth
    <3>1. n # depth
      BY <2>2 DEF NestsWithin
    <3> QED
      BY <3>1
  <2> QED
    BY <2>2, <2>3 DEF Within
<1> QED
  BY <1>1, <1>2

(* What a value has from a level on. *)
Below(v, depth, n) == UNION {Levels(v, depth)[m] : m \in n..depth}

(* It is without the level itself what is from the next level on. *)
LEMMA BelowFacts ==
  ASSUME NEW v, NEW depth \in Nat, NestsWithin(v, depth)
  PROVE  /\ Below(v, depth, 0) = Within(v, depth)
         /\ \A n \in 0..depth :
              /\ Below(v, depth, n + 1) \subseteq Below(v, depth, n)
              /\ \A x \in Below(v, depth, n) :
                   /\ Parts(x) \subseteq Below(v, depth, n + 1)
                   /\ \A y \in Parts(x) : Parts(y) \subseteq Below(v, depth, n + 1)
<1>1. Below(v, depth, 0) = Within(v, depth)
  BY DEF Below, Within
<1>2. ASSUME NEW n \in 0..depth PROVE Below(v, depth, n + 1) \subseteq Below(v, depth, n)
  <2>1. n + 1..depth \subseteq n..depth
    OBVIOUS
  <2> QED
    BY <2>1 DEF Below
<1>3. ASSUME NEW n \in 0..depth, NEW x \in Below(v, depth, n)
      PROVE  Parts(x) \subseteq Below(v, depth, n + 1)
  <2>1. PICK m \in n..depth : x \in Levels(v, depth)[m]
    BY DEF Below
  <2>2. m \in 0..depth
    OBVIOUS
  <2> SUFFICES ASSUME NEW y \in Parts(x) PROVE y \in Below(v, depth, n + 1)
    OBVIOUS
  <2>3. y \in Levels(v, depth)[m + 1]
    BY <2>1, <2>2, LevelsAre
  <2>4. m # depth
    BY <2>3 DEF NestsWithin
  <2>5. m + 1 \in n + 1..depth
    BY <2>4
  <2> QED
    BY <2>3, <2>5 DEF Below
<1>4. ASSUME NEW n \in 0..depth, NEW x \in Below(v, depth, n), NEW y \in Parts(x)
      PROVE  Parts(y) \subseteq Below(v, depth, n + 1)
  <2>1. y \in Below(v, depth, n)
    BY <1>2, <1>3
  <2> QED
    BY <1>3, <2>1
<1> QED
  BY <1>1, <1>2, <1>3, <1>4

-----------------------------------------------------------------------------
(* The codec of the signer's wire, one value of the recursion at a time. *)
EncodeSteps(f, S) == f = [x \in S |-> EncodeStep(f, x)]
JsonSteps(f, S) == f = [x \in S |-> JsonStep(f, x)]
DecodeSteps(f, S) == f = [x \in S |-> DecodeStep(f, x)]

(* A step looks at the results for the parts. *)
LEMMA EncodeAgrees ==
  ASSUME NEW f, NEW g, NEW x, \A y \in Parts(x) : f[y] = g[y]
  PROVE  EncodeStep(f, x) = EncodeStep(g, x)
<1>1. CASE x.t \in Containers
  <2>1. [k \in DOMAIN x.v |-> f[x.v[k]]] = [k \in DOMAIN x.v |-> g[x.v[k]]]
    BY <1>1 DEF Parts
  <2> QED
    BY <1>1, <2>1 DEF EncodeStep, Containers
<1>2. CASE x.t \notin Containers
  BY <1>2 DEF EncodeStep, Containers
<1> QED
  BY <1>1, <1>2

(* A step looks at the results for the parts. *)
LEMMA JsonAgrees ==
  ASSUME NEW f, NEW g, NEW x, \A y \in Parts(x) : f[y] = g[y]
  PROVE  JsonStep(f, x) = JsonStep(g, x)
<1>1. CASE x.t \in Containers
  <2>1. \A k \in DOMAIN x.v : f[x.v[k]] = g[x.v[k]]
    BY <1>1 DEF Parts
  <2> QED
    BY <1>1, <2>1 DEF JsonStep, Containers
<1>2. CASE x.t \notin Containers
  BY <1>2 DEF JsonStep, Containers
<1> QED
  BY <1>1, <1>2

(* A step looks at the results for the parts, and for those of a wrapped object. *)
LEMMA DecodeAgrees ==
  ASSUME NEW f, NEW g, NEW x,
         \A y \in Parts(x) : f[y] = g[y] /\ \A z \in Parts(y) : f[z] = g[z]
  PROVE  DecodeStep(f, x) = DecodeStep(g, x)
<1>1. CASE x.t \in Containers /\ ~IsTagged(x, EscapeTag)
  <2>1. \A k \in DOMAIN x.v : f[x.v[k]] = g[x.v[k]]
    BY <1>1 DEF Parts
  <2>2. [k \in DOMAIN x.v |-> f[x.v[k]]] = [k \in DOMAIN x.v |-> g[x.v[k]]]
    BY <2>1
  <2> QED
    BY <1>1, <2>2 DEF DecodeStep, Containers
<1>2. CASE IsTagged(x, EscapeTag)
  <2>1. x.t = "obj" /\ x.v[EscapeTag] \in Parts(x)
    BY <1>2 DEF IsTagged, Parts, Containers
  <2> DEFINE outer == x.v[EscapeTag]
  <2>2. ~IsTagged(x, BigintTag)
    BY <1>2 DEF IsTagged, BigintTag, EscapeTag
  <2>3. CASE outer.t = "obj"
    <3>1. \A k \in DOMAIN outer.v : f[outer.v[k]] = g[outer.v[k]]
      BY <2>1, <2>3 DEF Parts, Containers
    <3>2. [k \in DOMAIN outer.v |-> f[outer.v[k]]] = [k \in DOMAIN outer.v |-> g[outer.v[k]]]
      BY <3>1
    <3> QED
      BY <1>2, <2>1, <2>2, <3>2 DEF DecodeStep, Containers
  <2>4. CASE outer.t # "obj"
    BY <1>2, <2>1, <2>2, <2>4 DEF DecodeStep, Containers
  <2> QED
    BY <2>3, <2>4
<1>3. CASE x.t \notin Containers
  BY <1>3 DEF DecodeStep, Containers, IsTagged
<1> QED
  BY <1>1, <1>2, <1>3

(* The encoder reaches every part: what is computed from a level on is
   computed on the level above it. *)
LEMMA EncodeStepsExist ==
  ASSUME NEW v, NEW depth \in Nat, NestsWithin(v, depth)
  PROVE  \E f : EncodeSteps(f, Within(v, depth))
<1> DEFINE T == {k \in Nat : k <= depth + 1 /\ ~\E f : EncodeSteps(f, Below(v, depth, depth + 1 - k))}
<1>1. ASSUME T # {} PROVE FALSE
  <2>1. PICK k \in T : \A m \in T : k <= m
    BY <1>1, LeastOf
  <2>2. k \in Nat /\ k <= depth + 1 /\ ~\E f : EncodeSteps(f, Below(v, depth, depth + 1 - k))
    BY <2>1
  <2>3. k # 0
    <3> DEFINE g == [x \in {} |-> 0]
    <3>1. EncodeSteps(g, {})
      BY DEF EncodeSteps
    <3>2. Below(v, depth, depth + 1) = {}
      BY DEF Below
    <3> QED
      BY <2>2, <3>1, <3>2
  <2>4. k - 1 \in Nat /\ k - 1 <= depth + 1 /\ k - 1 \notin T /\ depth + 1 - (k - 1) = (depth + 1 - k) + 1
    BY <2>1, <2>2, <2>3
  <2>5. PICK n \in 0..depth : n = depth + 1 - k
    BY <2>2, <2>3
  <2>6. PICK f : EncodeSteps(f, Below(v, depth, n + 1))
    BY <2>4, <2>5
  <2> DEFINE g == [x \in Below(v, depth, n) |-> EncodeStep(f, x)]
  <2>7. ASSUME NEW y \in Below(v, depth, n + 1) PROVE g[y] = f[y]
    <3>1. y \in Below(v, depth, n)
      BY BelowFacts
    <3> QED
      BY <2>6, <3>1 DEF EncodeSteps
  <2> HIDE DEF g
  <2>8. ASSUME NEW x \in Below(v, depth, n) PROVE EncodeStep(f, x) = EncodeStep(g, x)
    <3>1. \A y \in Parts(x) : y \in Below(v, depth, n + 1) /\ Parts(y) \subseteq Below(v, depth, n + 1)
      BY BelowFacts
    <3> QED
      BY <2>7, <3>1, EncodeAgrees
  <2>9. EncodeSteps(g, Below(v, depth, n))
    BY <2>8 DEF g, EncodeSteps
  <2> QED
    BY <2>2, <2>5, <2>9
<1>2. depth + 1 \in Nat /\ depth + 1 <= depth + 1 /\ depth + 1 - (depth + 1) = 0
  OBVIOUS
<1>3. depth + 1 \notin T
  BY <1>1
<1>4. \E f : EncodeSteps(f, Below(v, depth, 0))
  BY <1>2, <1>3
<1> QED
  BY <1>4, BelowFacts

(* So does the text. *)
LEMMA JsonStepsExist ==
  ASSUME NEW v, NEW depth \in Nat, NestsWithin(v, depth)
  PROVE  \E f : JsonSteps(f, Within(v, depth))
<1> DEFINE T == {k \in Nat : k <= depth + 1 /\ ~\E f : JsonSteps(f, Below(v, depth, depth + 1 - k))}
<1>1. ASSUME T # {} PROVE FALSE
  <2>1. PICK k \in T : \A m \in T : k <= m
    BY <1>1, LeastOf
  <2>2. k \in Nat /\ k <= depth + 1 /\ ~\E f : JsonSteps(f, Below(v, depth, depth + 1 - k))
    BY <2>1
  <2>3. k # 0
    <3> DEFINE g == [x \in {} |-> 0]
    <3>1. JsonSteps(g, {})
      BY DEF JsonSteps
    <3>2. Below(v, depth, depth + 1) = {}
      BY DEF Below
    <3> QED
      BY <2>2, <3>1, <3>2
  <2>4. k - 1 \in Nat /\ k - 1 <= depth + 1 /\ k - 1 \notin T /\ depth + 1 - (k - 1) = (depth + 1 - k) + 1
    BY <2>1, <2>2, <2>3
  <2>5. PICK n \in 0..depth : n = depth + 1 - k
    BY <2>2, <2>3
  <2>6. PICK f : JsonSteps(f, Below(v, depth, n + 1))
    BY <2>4, <2>5
  <2> DEFINE g == [x \in Below(v, depth, n) |-> JsonStep(f, x)]
  <2>7. ASSUME NEW y \in Below(v, depth, n + 1) PROVE g[y] = f[y]
    <3>1. y \in Below(v, depth, n)
      BY BelowFacts
    <3> QED
      BY <2>6, <3>1 DEF JsonSteps
  <2> HIDE DEF g
  <2>8. ASSUME NEW x \in Below(v, depth, n) PROVE JsonStep(f, x) = JsonStep(g, x)
    <3>1. \A y \in Parts(x) : y \in Below(v, depth, n + 1) /\ Parts(y) \subseteq Below(v, depth, n + 1)
      BY BelowFacts
    <3> QED
      BY <2>7, <3>1, JsonAgrees
  <2>9. JsonSteps(g, Below(v, depth, n))
    BY <2>8 DEF g, JsonSteps
  <2> QED
    BY <2>2, <2>5, <2>9
<1>2. depth + 1 \in Nat /\ depth + 1 <= depth + 1 /\ depth + 1 - (depth + 1) = 0
  OBVIOUS
<1>3. depth + 1 \notin T
  BY <1>1
<1>4. \E f : JsonSteps(f, Below(v, depth, 0))
  BY <1>2, <1>3
<1> QED
  BY <1>4, BelowFacts

(* And so does the decoder. *)
LEMMA DecodeStepsExist ==
  ASSUME NEW v, NEW depth \in Nat, NestsWithin(v, depth)
  PROVE  \E f : DecodeSteps(f, Within(v, depth))
<1> DEFINE T == {k \in Nat : k <= depth + 1 /\ ~\E f : DecodeSteps(f, Below(v, depth, depth + 1 - k))}
<1>1. ASSUME T # {} PROVE FALSE
  <2>1. PICK k \in T : \A m \in T : k <= m
    BY <1>1, LeastOf
  <2>2. k \in Nat /\ k <= depth + 1 /\ ~\E f : DecodeSteps(f, Below(v, depth, depth + 1 - k))
    BY <2>1
  <2>3. k # 0
    <3> DEFINE g == [x \in {} |-> 0]
    <3>1. DecodeSteps(g, {})
      BY DEF DecodeSteps
    <3>2. Below(v, depth, depth + 1) = {}
      BY DEF Below
    <3> QED
      BY <2>2, <3>1, <3>2
  <2>4. k - 1 \in Nat /\ k - 1 <= depth + 1 /\ k - 1 \notin T /\ depth + 1 - (k - 1) = (depth + 1 - k) + 1
    BY <2>1, <2>2, <2>3
  <2>5. PICK n \in 0..depth : n = depth + 1 - k
    BY <2>2, <2>3
  <2>6. PICK f : DecodeSteps(f, Below(v, depth, n + 1))
    BY <2>4, <2>5
  <2> DEFINE g == [x \in Below(v, depth, n) |-> DecodeStep(f, x)]
  <2>7. ASSUME NEW y \in Below(v, depth, n + 1) PROVE g[y] = f[y]
    <3>1. y \in Below(v, depth, n)
      BY BelowFacts
    <3> QED
      BY <2>6, <3>1 DEF DecodeSteps
  <2> HIDE DEF g
  <2>8. ASSUME NEW x \in Below(v, depth, n) PROVE DecodeStep(f, x) = DecodeStep(g, x)
    <3>1. \A y \in Parts(x) : y \in Below(v, depth, n + 1) /\ Parts(y) \subseteq Below(v, depth, n + 1)
      BY BelowFacts
    <3> QED
      BY <2>7, <3>1, DecodeAgrees
  <2>9. DecodeSteps(g, Below(v, depth, n))
    BY <2>8 DEF g, DecodeSteps
  <2> QED
    BY <2>2, <2>5, <2>9
<1>2. depth + 1 \in Nat /\ depth + 1 <= depth + 1 /\ depth + 1 - (depth + 1) = 0
  OBVIOUS
<1>3. depth + 1 \notin T
  BY <1>1
<1>4. \E f : DecodeSteps(f, Below(v, depth, 0))
  BY <1>2, <1>3
<1> QED
  BY <1>4, BelowFacts

(* What the encoder computes, step by step. *)
LEMMA EncodeIs ==
  ASSUME NEW v, MaxNesting \in Nat, NestsWithin(v, MaxNesting)
  PROVE  \E f : EncodeSteps(f, Within(v, MaxNesting)) /\ EncodeWire(v) = f[v]
<1> DEFINE f == CHOOSE g : EncodeSteps(g, Within(v, MaxNesting))
<1>1. EncodeSteps(f, Within(v, MaxNesting))
  BY EncodeStepsExist
<1>2. EncodeWire(v) = f[v]
  BY DEF EncodeWire, EncodeSteps
<1> QED
  BY <1>1, <1>2

(* What JSON makes of a value. *)
LEMMA JsonIs ==
  ASSUME NEW v, WireNesting \in Nat, NestsWithin(v, WireNesting)
  PROVE  \E f : JsonSteps(f, Within(v, WireNesting)) /\ Json(v) = f[v]
<1> DEFINE f == CHOOSE g : JsonSteps(g, Within(v, WireNesting))
<1>1. JsonSteps(f, Within(v, WireNesting))
  BY JsonStepsExist
<1>2. Json(v) = f[v]
  BY DEF Json, JsonSteps
<1> QED
  BY <1>1, <1>2

(* What the decoder computes. *)
LEMMA DecodeIs ==
  ASSUME NEW v, WireNesting \in Nat, NestsWithin(v, WireNesting)
  PROVE  \E f : DecodeSteps(f, Within(v, WireNesting)) /\ DecodeWire(v) = f[v]
<1> DEFINE f == CHOOSE g : DecodeSteps(g, Within(v, WireNesting))
<1>1. DecodeSteps(f, Within(v, WireNesting))
  BY DecodeStepsExist
<1>2. DecodeWire(v) = f[v]
  BY DEF DecodeWire, DecodeSteps
<1> QED
  BY <1>1, <1>2

(* What is encoded of a container, before an object is wrapped. *)
Bare(f, x) == [t |-> x.t, v |-> [k \in DOMAIN x.v |-> f[x.v[k]]]]

LooksTagged(x) == x.t = "obj" /\ {BigintTag, EscapeTag} \cap DOMAIN x.v # {}

(* An accepted container is its bare encoding or wraps it, and all its parts
   are accepted. *)
LEMMA EncodedContainer ==
  ASSUME NEW f, NEW x, x.t \in Containers, EncodeStep(f, x) # Refused
  PROVE  /\ \A k \in DOMAIN x.v : f[x.v[k]] # Refused
         /\ EncodeStep(f, x) = IF LooksTagged(x) THEN Wrap(EscapeTag, Bare(f, x)) ELSE Bare(f, x)
<1> DEFINE parts == [k \in DOMAIN x.v |-> f[x.v[k]]]
<1>1. EncodeStep(f, x) = IF \E k \in DOMAIN parts : parts[k] = Refused THEN Refused
                         ELSE IF x.t = "arr" THEN Arr(parts) ELSE Escape(parts)
  BY DEF EncodeStep, Containers
<1>2. \A k \in DOMAIN x.v : f[x.v[k]] # Refused
  BY <1>1
<1>3. EncodeStep(f, x) = IF x.t = "arr" THEN Arr(parts) ELSE Escape(parts)
  BY <1>1
<1>4. DOMAIN parts = DOMAIN x.v /\ Bare(f, x) = [t |-> x.t, v |-> parts]
  BY DEF Bare
<1> HIDE DEF parts
<1> QED
  BY <1>2, <1>3, <1>4 DEF Arr, Escape, Wrap, Obj, LooksTagged, Containers

(* A value crosses when its encoding is text already, and decodes to it. *)
Crosses(encode, json, decode, x) ==
  /\ encode[x].t \in {"null", "str", "num", "arr", "obj"}
  /\ json[encode[x]] = encode[x]
  /\ decode[encode[x]] = x

(* A container crosses if its parts do. *)
LEMMA ContainerCrosses ==
  ASSUME NEW encode, NEW json, NEW decode, NEW x, x.t \in Containers, IsValue(x),
         encode[x] = EncodeStep(encode, x), encode[x] # Refused,
         NEW W, encode[x] \in W, \A z \in W : Parts(z) \subseteq W,
         JsonSteps(json, W), DecodeSteps(decode, W),
         \A k \in DOMAIN x.v : Crosses(encode, json, decode, x.v[k]),
         \A k \in DOMAIN x.v : x.v[k] # Refused
  PROVE  Crosses(encode, json, decode, x)
<1> DEFINE parts == [k \in DOMAIN x.v |-> encode[x.v[k]]]
           bare == Bare(encode, x)
<1>1. encode[x] = IF LooksTagged(x) THEN Wrap(EscapeTag, bare) ELSE bare
  BY EncodedContainer
<1>2. bare.t = x.t /\ bare.v = parts /\ DOMAIN parts = DOMAIN x.v /\ bare = [t |-> x.t, v |-> parts]
  BY DEF Bare
<1>3. \A k \in DOMAIN x.v : parts[k] = encode[x.v[k]] /\ parts[k].t \in {"null", "str", "num", "arr", "obj"}
                           /\ json[parts[k]] = parts[k] /\ decode[parts[k]] = x.v[k]
  BY DEF Crosses
<1>4. [k \in DOMAIN parts |-> parts[k]] = parts
  OBVIOUS
<1>5. x = [t |-> x.t, v |-> x.v] /\ x.v = [k \in DOMAIN x.v |-> x.v[k]]
  BY DEF IsValue
<1> HIDE DEF parts, bare
<1>6. bare \in W
  <2>1. CASE LooksTagged(x)
    <3>1. encode[x].t = "obj" /\ encode[x].v = [k \in {EscapeTag} |-> bare]
      BY <1>1, <2>1 DEF Wrap, Obj
    <3>2. bare \in Parts(encode[x])
      BY <3>1 DEF Parts, Containers
    <3> QED
      BY <3>2
  <2>2. CASE ~LooksTagged(x)
    BY <1>1, <2>2
  <2> QED
    BY <2>1, <2>2
(* The text. *)
<1>7. json[bare] = bare
  <2>1. json[bare] = JsonStep(json, bare)
    BY <1>6 DEF JsonSteps
  <2>2. CASE x.t = "arr"
    <3>1. JsonStep(json, bare) =
            Arr([n \in DOMAIN bare.v |->
                   IF bare.v[n].t \in {"hole", "undef"} THEN Leaf("null") ELSE json[bare.v[n]]])
      BY <1>2, <2>2 DEF JsonStep
    <3>2. [n \in DOMAIN bare.v |->
             IF bare.v[n].t \in {"hole", "undef"} THEN Leaf("null") ELSE json[bare.v[n]]]
            = [k \in DOMAIN parts |-> parts[k]]
      BY <1>2, <1>3
    <3> QED
      BY <1>2, <1>4, <2>1, <2>2, <3>1, <3>2 DEF Arr
  <2>3. CASE x.t = "obj"
    <3>1. JsonStep(json, bare) =
            Obj([k \in {y \in DOMAIN bare.v : bare.v[y].t # "undef"} |-> json[bare.v[k]]])
      BY <1>2, <2>3 DEF JsonStep
    <3>2. {y \in DOMAIN bare.v : bare.v[y].t # "undef"} = DOMAIN parts
      BY <1>2, <1>3
    <3>3. [k \in {y \in DOMAIN bare.v : bare.v[y].t # "undef"} |-> json[bare.v[k]]]
            = [k \in DOMAIN parts |-> parts[k]]
      BY <1>2, <1>3, <3>2
    <3> QED
      BY <1>2, <1>4, <2>1, <2>3, <3>1, <3>3 DEF Obj
  <2> QED
    BY <2>2, <2>3 DEF Containers
<1>8. json[encode[x]] = encode[x]
  <2>1. CASE LooksTagged(x)
    <3> DEFINE fields == [k \in {EscapeTag} |-> bare]
    <3>1. encode[x].t = "obj" /\ encode[x].v = fields /\ encode[x] = [t |-> "obj", v |-> fields]
      BY <1>1, <2>1 DEF Wrap, Obj
    <3>2. DOMAIN fields = {EscapeTag} /\ fields[EscapeTag] = bare /\ fields = [k \in {EscapeTag} |-> bare]
      OBVIOUS
    <3>3. bare.t # "undef"
      BY <1>2 DEF Containers
    <3> HIDE DEF fields
    <3>4. json[encode[x]] = JsonStep(json, encode[x])
      BY DEF JsonSteps
    <3>5. JsonStep(json, encode[x]) =
            Obj([k \in {y \in DOMAIN fields : fields[y].t # "undef"} |-> json[fields[k]]])
      BY <3>1 DEF JsonStep
    <3>6. {y \in DOMAIN fields : fields[y].t # "undef"} = {EscapeTag}
      BY <3>2, <3>3
    <3>7. [k \in {y \in DOMAIN fields : fields[y].t # "undef"} |-> json[fields[k]]] = fields
      BY <1>7, <3>2, <3>6
    <3> QED
      BY <3>1, <3>4, <3>5, <3>7 DEF Obj
  <2>2. CASE ~LooksTagged(x)
    BY <1>1, <1>7, <2>2
  <2> QED
    BY <2>1, <2>2
(* The decoder. *)
<1>9. [k \in DOMAIN parts |-> decode[parts[k]]] = x.v
  BY <1>2, <1>3, <1>5
<1>10. \A k \in DOMAIN parts : decode[parts[k]] # Refused
  BY <1>2, <1>3
<1>11. decode[encode[x]] = x
  <2>1. decode[encode[x]] = DecodeStep(decode, encode[x])
    BY DEF DecodeSteps
  <2>2. CASE LooksTagged(x)
    <3> DEFINE fields == [k \in {EscapeTag} |-> bare]
    <3>1. encode[x].t = "obj" /\ encode[x].v = fields
      BY <1>1, <2>2 DEF Wrap, Obj
    <3>2. DOMAIN fields = {EscapeTag} /\ fields[EscapeTag] = bare
      OBVIOUS
    <3> HIDE DEF fields
    <3>3. IsTagged(encode[x], EscapeTag) /\ ~IsTagged(encode[x], BigintTag)
      BY <3>1, <3>2 DEF IsTagged, BigintTag, EscapeTag
    <3>4. encode[x].v[EscapeTag] = bare /\ bare.t = "obj" /\ x.t = "obj"
      BY <1>2, <2>2, <3>1, <3>2 DEF LooksTagged
    <3>5. DecodeStep(decode, encode[x]) =
            IF bare.t # "obj" \/ \E k \in DOMAIN parts : decode[parts[k]] = Refused
              THEN Refused
            ELSE [t |-> "obj", v |-> [k \in DOMAIN parts |-> decode[parts[k]]]]
      BY <1>2, <3>1, <3>3, <3>4 DEF DecodeStep, Containers
    <3> QED
      BY <1>5, <1>9, <1>10, <2>1, <3>4, <3>5
  <2>3. CASE ~LooksTagged(x)
    <3>1. encode[x] = bare
      BY <1>1, <2>3
    <3>2. ~IsTagged(bare, EscapeTag) /\ ~IsTagged(bare, BigintTag)
      BY <1>2, <2>3 DEF IsTagged, LooksTagged
    <3>3. DecodeStep(decode, bare) =
            IF \E k \in DOMAIN parts : decode[parts[k]] = Refused THEN Refused
            ELSE [t |-> x.t, v |-> [k \in DOMAIN parts |-> decode[parts[k]]]]
      BY <1>2, <3>2 DEF DecodeStep, Containers
    <3> QED
      BY <1>5, <1>9, <1>10, <2>1, <3>1, <3>3
  <2> QED
    BY <2>2, <2>3
<1>12. encode[x].t \in {"null", "str", "num", "arr", "obj"}
  BY <1>1, <1>2 DEF Wrap, Obj, Containers
<1> QED
  BY <1>8, <1>11, <1>12 DEF Crosses

(* A leaf crosses, or is refused. *)
LEMMA LeafCrosses ==
  ASSUME NEW encode, NEW json, NEW decode, NEW x, x.t \notin Containers, IsValue(x),
         encode[x] = EncodeStep(encode, x), encode[x] # Refused,
         NEW W, encode[x] \in W, \A z \in W : Parts(z) \subseteq W,
         JsonSteps(json, W), DecodeSteps(decode, W)
  PROVE  Crosses(encode, json, decode, x)
<1>1. json[encode[x]] = JsonStep(json, encode[x]) /\ decode[encode[x]] = DecodeStep(decode, encode[x])
  BY DEF JsonSteps, DecodeSteps
<1>2. CASE x.t \in {"null", "str", "num"}
  <2>1. encode[x] = x
    BY <1>2 DEF EncodeStep
  <2>2. JsonStep(json, x) = x
    BY <1>2 DEF JsonStep
  <2>3. DecodeStep(decode, x) = x
    BY <1>2 DEF DecodeStep, IsTagged, Containers
  <2> QED
    BY <1>1, <1>2, <2>1, <2>2, <2>3 DEF Crosses
<1>3. CASE x.t = "big"
  <2> DEFINE text == Str(x.v)
             fields == [k \in {BigintTag} |-> text]
  <2>1. encode[x] = Obj(fields)
    BY <1>3 DEF EncodeStep, Wrap, Containers
  <2>2. DOMAIN fields = {BigintTag} /\ fields[BigintTag] = text /\ fields = [k \in {BigintTag} |-> text]
    OBVIOUS
  <2>3. text.t = "str" /\ text.v = x.v
    BY DEF Str
  <2> HIDE DEF fields, text
  <2>4. encode[x].t = "obj" /\ encode[x].v = fields /\ encode[x] = [t |-> "obj", v |-> fields]
    BY <2>1 DEF Obj
  <2>5. text \in W
    BY <2>2, <2>4 DEF Parts, Containers
  <2>6. json[text] = text
    BY <2>3, <2>5 DEF JsonSteps, JsonStep
  <2>7. JsonStep(json, encode[x]) = encode[x]
    <3>1. JsonStep(json, encode[x]) =
            Obj([k \in {y \in DOMAIN fields : fields[y].t # "undef"} |-> json[fields[k]]])
      BY <2>4 DEF JsonStep
    <3>2. {y \in DOMAIN fields : fields[y].t # "undef"} = {BigintTag}
      BY <2>2, <2>3
    <3>3. [k \in {y \in DOMAIN fields : fields[y].t # "undef"} |-> json[fields[k]]] = fields
      BY <2>2, <2>6, <3>2
    <3> QED
      BY <2>4, <3>1, <3>3 DEF Obj
  <2>8. IsTagged(encode[x], BigintTag) /\ encode[x].v[BigintTag] = text
    BY <2>2, <2>4 DEF IsTagged
  <2>9. DecodeStep(decode, encode[x]) = [t |-> "big", v |-> x.v]
    BY <2>3, <2>4, <2>8 DEF DecodeStep, Containers
  <2>10. x = [t |-> "big", v |-> x.v]
    BY <1>3 DEF IsValue
  <2> QED
    BY <1>1, <2>4, <2>7, <2>9, <2>10 DEF Crosses
<1>4. CASE x.t \notin {"null", "str", "num", "big"}
  BY <1>4 DEF EncodeStep
<1> QED
  BY <1>2, <1>3, <1>4

(* Whatever has been accepted, all it is made of has. *)
LEMMA AllAccepted ==
  ASSUME NEW v, NEW depth \in Nat, NestsWithin(v, depth), NEW encode,
         EncodeSteps(encode, Within(v, depth)), encode[v] # Refused,
         NEW n, n \in 0..depth, NEW x, x \in Levels(v, depth)[n]
  PROVE  encode[x] # Refused
<1> DEFINE T == {k \in Nat : k <= depth /\ \E y \in Levels(v, depth)[k] : encode[y] = Refused}
<1>1. ASSUME T # {} PROVE FALSE
  <2>1. PICK k \in T : \A m \in T : k <= m
    BY <1>1, LeastOf
  <2>2. k \in 0..depth /\ k \in Nat
    BY <2>1
  <2>3. PICK y \in Levels(v, depth)[k] : encode[y] = Refused
    BY <2>1
  <2>4. k # 0
    BY <2>3, LevelsAre
  <2>5. k - 1 \in Nat /\ k - 1 \in 0..depth /\ k - 1 \notin T /\ (k - 1) + 1 = k
    BY <2>1, <2>2, <2>4
  <2>6. PICK z \in Levels(v, depth)[k - 1] : y \in Parts(z)
    BY <2>3, <2>5, LevelsAre
  <2>7. encode[z] # Refused
    BY <2>5
  <2>8. z \in Within(v, depth)
    BY <2>5 DEF Within
  <2>9. encode[z] = EncodeStep(encode, z)
    BY <2>8 DEF EncodeSteps
  <2>10. z.t \in Containers /\ \E j \in DOMAIN z.v : y = z.v[j]
    BY <2>6 DEF Parts
  <2> QED
    BY <2>3, <2>7, <2>9, <2>10, EncodedContainer
<1>2. n \notin T
  BY <1>1
<1> QED
  BY <1>2

(* What the m-th level of an encoding holds: the encoding of a part, what was
   wrapped of one, or text. *)
Encoding(v, depth, encode, z, m) ==
  \E n \in 0..depth : \E x \in Levels(v, depth)[n] :
    \/ z = encode[x] /\ m <= 2 * n
    \/ x.t \in Containers /\ z = Bare(encode, x) /\ m <= 2 * n + 1
    \/ Parts(z) = {} /\ m <= 2 * n + 1

(* On the next level there are such again. *)
LEMMA EncodingStep ==
  ASSUME NEW v, NEW depth \in Nat, NestsWithin(v, depth), NEW encode,
         EncodeSteps(encode, Within(v, depth)), encode[v] # Refused,
         NEW z, NEW m \in Nat, Encoding(v, depth, encode, z, m), NEW y \in Parts(z)
  PROVE  Encoding(v, depth, encode, y, m + 1)
<1>0. PICK n \in 0..depth : \E x \in Levels(v, depth)[n] :
         \/ z = encode[x] /\ m <= 2 * n
         \/ x.t \in Containers /\ z = Bare(encode, x) /\ m <= 2 * n + 1
         \/ Parts(z) = {} /\ m <= 2 * n + 1
  BY DEF Encoding
<1>1. PICK x \in Levels(v, depth)[n] :
         \/ z = encode[x] /\ m <= 2 * n
         \/ x.t \in Containers /\ z = Bare(encode, x) /\ m <= 2 * n + 1
         \/ Parts(z) = {} /\ m <= 2 * n + 1
  BY <1>0
<1>2. x \in Within(v, depth)
  BY <1>1 DEF Within
<1>3. encode[x] = EncodeStep(encode, x) /\ encode[x] # Refused
  BY <1>1, <1>2, AllAccepted DEF EncodeSteps
<1>4. ASSUME x.t \in Containers, z = Bare(encode, x), m <= 2 * n + 1
      PROVE  Encoding(v, depth, encode, y, m + 1)
  <2>1. PICK k \in DOMAIN x.v : y = encode[x.v[k]]
    BY <1>4 DEF Bare, Parts
  <2>2. x.v[k] \in Parts(x)
    BY <1>4, <2>1 DEF Parts
  <2>3. x.v[k] \in Levels(v, depth)[n + 1]
    BY <1>1, <2>2, LevelsAre
  <2>4. n # depth
    BY <2>3 DEF NestsWithin
  <2>5. n + 1 \in 0..depth /\ m + 1 <= 2 * (n + 1)
    BY <1>4, <2>4
  <2> QED
    BY <2>1, <2>3, <2>5 DEF Encoding
<1>5. CASE z = encode[x] /\ m <= 2 * n
  <2>0. m <= 2 * n + 1 /\ m + 1 <= 2 * n + 1
    BY <1>5
  <2>1. CASE x.t \in Containers /\ LooksTagged(x)
    <3>1. z = Wrap(EscapeTag, Bare(encode, x))
      BY <1>3, <1>5, <2>1, EncodedContainer
    <3>2. z.t = "obj" /\ z.v = [k \in {EscapeTag} |-> Bare(encode, x)]
      BY <3>1 DEF Wrap, Obj
    <3>3. y = Bare(encode, x)
      BY <3>2 DEF Parts
    <3> QED
      BY <1>1, <2>0, <2>1, <3>3 DEF Encoding
  <2>2. CASE x.t \in Containers /\ ~LooksTagged(x)
    BY <1>3, <1>4, <1>5, <2>0, <2>2, EncodedContainer
  <2>3. CASE x.t = "big"
    <3>1. z = Wrap(BigintTag, Str(x.v))
      BY <1>3, <1>5, <2>3 DEF EncodeStep, Containers
    <3>2. z.t = "obj" /\ z.v = [k \in {BigintTag} |-> Str(x.v)]
      BY <3>1 DEF Wrap, Obj
    <3>3. y = Str(x.v)
      BY <3>2 DEF Parts
    <3>4. Parts(y) = {}
      BY <3>3 DEF Parts, Str, Containers
    <3> QED
      BY <1>1, <2>0, <3>4 DEF Encoding
  <2>4. CASE x.t \in {"null", "str", "num"}
    BY <1>3, <1>5, <2>4 DEF EncodeStep, Parts, Containers
  <2>5. CASE x.t \notin Containers \cup {"null", "str", "num", "big"}
    BY <1>3, <2>5 DEF EncodeStep
  <2> QED
    BY <2>1, <2>2, <2>3, <2>4, <2>5
<1> QED
  BY <1>1, <1>4, <1>5

(* An encoding is at most twice as deep, and one level more. *)
LEMMA EncodedNesting ==
  ASSUME NEW v, MaxNesting \in Nat, NestsWithin(v, MaxNesting), NEW encode,
         EncodeSteps(encode, Within(v, MaxNesting)), encode[v] # Refused
  PROVE  NestsWithin(encode[v], WireNesting)
<1> DEFINE w == encode[v]
           T == {k \in Nat : k <= WireNesting + 1
                   /\ \E z \in Levels(w, WireNesting)[k] : ~Encoding(v, MaxNesting, encode, z, k)}
<1>0. WireNesting \in Nat /\ WireNesting = 2 * MaxNesting + 1
  BY DEF WireNesting
<1>1. ASSUME T # {} PROVE FALSE
  <2>1. PICK k \in T : \A m \in T : k <= m
    BY <1>1, LeastOf
  <2>2. k \in Nat /\ k <= WireNesting + 1
    BY <2>1
  <2>3. PICK y \in Levels(w, WireNesting)[k] : ~Encoding(v, MaxNesting, encode, y, k)
    BY <2>1
  <2>4. k # 0
    <3>1. ASSUME k = 0 PROVE FALSE
      <4>1. y = encode[v]
        BY <1>0, <2>3, <3>1, LevelsAre
      <4>2. 0 \in 0..MaxNesting /\ v \in Levels(v, MaxNesting)[0] /\ 0 <= 2 * 0
        BY LevelsAre
      <4>3. Encoding(v, MaxNesting, encode, y, 0)
        BY <4>1, <4>2 DEF Encoding
      <4> QED
        BY <2>3, <3>1, <4>3
    <3> QED
      BY <3>1
  <2>5. PICK n \in 0..WireNesting : n \in Nat /\ k = n + 1
    <3>1. k - 1 \in 0..WireNesting /\ k - 1 \in Nat /\ k = (k - 1) + 1
      BY <1>0, <2>2, <2>4
    <3> QED
      BY <3>1
  <2>6. PICK z \in Levels(w, WireNesting)[n] : y \in Parts(z)
    BY <1>0, <2>3, <2>5, LevelsAre
  <2>7. n \notin T /\ n <= WireNesting + 1
    BY <1>0, <2>1, <2>5
  <2>8. Encoding(v, MaxNesting, encode, z, n)
    BY <2>5, <2>6, <2>7
  <2> QED
    BY <2>3, <2>5, <2>6, <2>8, EncodingStep
<1>2. ASSUME NEW z \in Levels(w, WireNesting)[WireNesting + 1] PROVE FALSE
  <2>1. WireNesting + 1 \in Nat /\ WireNesting + 1 <= WireNesting + 1
    BY <1>0
  <2>2. Encoding(v, MaxNesting, encode, z, WireNesting + 1)
    BY <1>1, <2>1
  <2>3. PICK n \in 0..MaxNesting : WireNesting + 1 <= 2 * n + 1
    <3>1. PICK n \in 0..MaxNesting : WireNesting + 1 <= 2 * n \/ WireNesting + 1 <= 2 * n + 1
      BY <2>2 DEF Encoding
    <3> QED
      BY <1>0, <3>1
  <2> QED
    BY <1>0, <2>3
<1> QED
  BY <1>2 DEF NestsWithin

(* All that a recursion visits of a value is visited, encoded, of its
   encoding. *)
LEMMA EncodedWithin ==
  ASSUME NEW v, NEW depth \in Nat, NestsWithin(v, depth), NEW encode,
         EncodeSteps(encode, Within(v, depth)), encode[v] # Refused,
         NEW W, encode[v] \in W, \A z \in W : Parts(z) \subseteq W,
         NEW n, n \in 0..depth, NEW x, x \in Levels(v, depth)[n]
  PROVE  encode[x] \in W
<1> DEFINE T == {k \in Nat : k <= depth /\ \E y \in Levels(v, depth)[k] : encode[y] \notin W}
<1>1. ASSUME T # {} PROVE FALSE
  <2>1. PICK k \in T : \A m \in T : k <= m
    BY <1>1, LeastOf
  <2>2. k \in 0..depth /\ k \in Nat
    BY <2>1
  <2>3. PICK y \in Levels(v, depth)[k] : encode[y] \notin W
    BY <2>1
  <2>4. k # 0
    BY <2>3, LevelsAre
  <2>5. k - 1 \in Nat /\ k - 1 \in 0..depth /\ k - 1 \notin T /\ (k - 1) + 1 = k
    BY <2>1, <2>2, <2>4
  <2>6. PICK z \in Levels(v, depth)[k - 1] : y \in Parts(z)
    BY <2>3, <2>5, LevelsAre
  <2>7. encode[z] \in W
    BY <2>5
  <2>8. z \in Within(v, depth)
    BY <2>5 DEF Within
  <2>9. encode[z] = EncodeStep(encode, z) /\ encode[z] # Refused
    BY <2>5, <2>8, AllAccepted DEF EncodeSteps
  <2>10. z.t \in Containers
    BY <2>6 DEF Parts
  <2>11. PICK j \in DOMAIN z.v : y = z.v[j]
    BY <2>6, <2>10 DEF Parts
  <2>12. encode[y] \in Parts(Bare(encode, z))
    <3>1. Bare(encode, z).t = z.t /\ Bare(encode, z).v = [i \in DOMAIN z.v |-> encode[z.v[i]]]
      BY DEF Bare
    <3> QED
      BY <2>10, <2>11, <3>1 DEF Parts
  <2>13. Bare(encode, z) \in W
    <3>1. CASE LooksTagged(z)
      <4>1. encode[z] = Wrap(EscapeTag, Bare(encode, z))
        BY <2>9, <2>10, <3>1, EncodedContainer
      <4>2. Bare(encode, z) \in Parts(encode[z])
        BY <4>1 DEF Parts, Wrap, Obj, Containers
      <4> QED
        BY <2>7, <4>2
    <3>2. CASE ~LooksTagged(z)
      BY <2>7, <2>9, <2>10, <3>2, EncodedContainer
    <3> QED
      BY <3>1, <3>2
  <2> QED
    BY <2>3, <2>12, <2>13
<1>2. n \notin T
  BY <1>1
<1> QED
  BY <1>2

(* What the codec accepts comes out of it as it went in. *)
LEMMA RoundTrip ==
  ASSUME NEW v, MaxNesting \in Nat, NestsWithin(v, MaxNesting),
         \A x \in Within(v, MaxNesting) : IsValue(x), EncodeWire(v) # Refused
  PROVE  DecodeWire(Json(EncodeWire(v))) = v
<1>0. WireNesting \in Nat
  BY DEF WireNesting
<1>1. PICK encode : EncodeSteps(encode, Within(v, MaxNesting)) /\ EncodeWire(v) = encode[v]
  BY EncodeIs
<1> DEFINE w == encode[v]
           W == Within(w, WireNesting)
<1>2. NestsWithin(w, WireNesting)
  BY <1>1, EncodedNesting
<1>3. PICK json : JsonSteps(json, W) /\ Json(w) = json[w]
  BY <1>0, <1>2, JsonIs
<1>4. PICK decode : DecodeSteps(decode, W) /\ DecodeWire(w) = decode[w]
  BY <1>0, <1>2, DecodeIs
<1>5. w \in W /\ \A z \in W : Parts(z) \subseteq W
  BY <1>0, <1>2, WithinFacts
<1>6. ASSUME NEW n \in 0..MaxNesting, NEW x \in Levels(v, MaxNesting)[n]
      PROVE  /\ encode[x] # Refused /\ encode[x] \in W /\ x \in Within(v, MaxNesting)
             /\ encode[x] = EncodeStep(encode, x) /\ IsValue(x)
  <2>1. encode[x] # Refused
    BY <1>1, AllAccepted
  <2>2. encode[x] \in W
    BY <1>1, <1>5, EncodedWithin
  <2>3. x \in Within(v, MaxNesting)
    BY DEF Within
  <2> QED
    BY <1>1, <2>1, <2>2, <2>3 DEF EncodeSteps
<1> HIDE DEF w, W
<1> DEFINE T == {k \in Nat : k <= MaxNesting + 1
                   /\ \E x \in Levels(v, MaxNesting)[MaxNesting + 1 - k] : ~Crosses(encode, json, decode, x)}
<1>7. ASSUME T # {} PROVE FALSE
  <2>1. PICK k \in T : \A m \in T : k <= m
    BY <1>7, LeastOf
  <2>2. k \in Nat /\ k <= MaxNesting + 1
    BY <2>1
  <2>3. PICK x \in Levels(v, MaxNesting)[MaxNesting + 1 - k] : ~Crosses(encode, json, decode, x)
    BY <2>1
  <2>4. k # 0
    BY <2>3 DEF NestsWithin
  <2>5. PICK n \in 0..MaxNesting : n = MaxNesting + 1 - k /\ n + 1 = MaxNesting + 1 - (k - 1)
    BY <2>2, <2>4
  <2>6. k - 1 \in Nat /\ k - 1 <= MaxNesting + 1 /\ k - 1 \notin T
    BY <2>1, <2>2, <2>4
  <2>7. \A y \in Levels(v, MaxNesting)[n + 1] : Crosses(encode, json, decode, y)
    BY <2>5, <2>6
  <2>8. x \in Levels(v, MaxNesting)[n]
    BY <2>3, <2>5
  <2>9. /\ encode[x] # Refused /\ encode[x] \in W /\ x \in Within(v, MaxNesting)
        /\ encode[x] = EncodeStep(encode, x) /\ IsValue(x)
    BY <1>6, <2>8
  <2>10. CASE x.t \in Containers
    <3>1. ASSUME NEW j \in DOMAIN x.v
          PROVE  Crosses(encode, json, decode, x.v[j]) /\ x.v[j] # Refused
      <4>1. x.v[j] \in Levels(v, MaxNesting)[n + 1]
        <5>1. x.v[j] \in Parts(x)
          BY <2>10 DEF Parts
        <5> QED
          BY <2>8, <5>1, LevelsAre
      <4>2. Crosses(encode, json, decode, x.v[j])
        BY <2>7, <4>1
      <4>3. encode[x.v[j]] # Refused
        BY <2>9, <2>10, EncodedContainer
      <4>4. x.v[j] \in Within(v, MaxNesting)
        BY <2>9, <2>10, WithinFacts DEF Parts
      <4>5. encode[x.v[j]] = EncodeStep(encode, x.v[j])
        BY <1>1, <4>4 DEF EncodeSteps
      <4>6. x.v[j] # Refused
        <5>1. EncodeStep(encode, Refused) = Refused
          BY DEF EncodeStep, Refused, Leaf, Containers
        <5> QED
          BY <4>3, <4>5, <5>1
      <4> QED
        BY <4>2, <4>6
    <3> QED
      BY <1>3, <1>4, <1>5, <2>3, <2>9, <2>10, <3>1, ContainerCrosses
  <2>11. CASE x.t \notin Containers
    BY <1>3, <1>4, <1>5, <2>3, <2>9, <2>11, LeafCrosses
  <2> QED
    BY <2>10, <2>11
<1>8. Crosses(encode, json, decode, v)
  <2>1. MaxNesting + 1 \in Nat /\ MaxNesting + 1 <= MaxNesting + 1 /\ MaxNesting + 1 - (MaxNesting + 1) = 0
    OBVIOUS
  <2>2. v \in Levels(v, MaxNesting)[0]
    BY LevelsAre
  <2> QED
    BY <1>7, <2>1, <2>2
<1>9. json[w] = w /\ decode[w] = v
  BY <1>8 DEF Crosses, w
<1> QED
  BY <1>1, <1>3, <1>4, <1>9 DEF w

-----------------------------------------------------------------------------
(* What is on its way is what the caller's value is encoded as. *)
WireInv ==
  /\ presented \in Presented
  /\ outgoing # Nothing =>
       EncodeWire(presented) # Refused /\ outgoing = Json(EncodeWire(presented))
  /\ answer = "signed" => received = presented

(* It holds before anything is sent. *)
LEMMA WireInitInv == WireInit => WireInv
BY DEF WireInit, WireInv

(* Neither end breaks it. *)
LEMMA WireNextInv == WireInv /\ [WireNext]_wireVars => WireInv'
<1> SUFFICES ASSUME WireInv, [WireNext]_wireVars PROVE WireInv'
  OBVIOUS
<1>1. CASE SendTypedData
  BY <1>1 DEF SendTypedData, WireInv, Nothing
<1>2. CASE Handle
  <2>1. outgoing # Nothing /\ answer = "none" /\ UNCHANGED <<presented, outgoing>>
    BY <1>2 DEF Handle
  <2>2. ASSUME answer' = "signed" PROVE received' = presented
    <3>1. PICK request \in Requests \cup {[version |-> 1, method |-> "signTypedData", data |-> outgoing]} :
            /\ request.version = 1 /\ request.method = "signTypedData"
            /\ DecodeWire(request.data) # Refused
            /\ received' = DecodeWire(request.data)
      BY <1>2, <2>2 DEF Handle
    <3>2. request \notin Requests
      BY <3>1, WireAssumption
    <3>3. request.data = outgoing
      BY <3>1, <3>2
    <3>4. DecodeWire(outgoing) = presented
      <4>1. outgoing = Json(EncodeWire(presented)) /\ EncodeWire(presented) # Refused /\ presented \in Presented
        BY <2>1 DEF WireInv
      <4> QED
        BY <4>1, WireAssumption, RoundTrip
    <3> QED
      BY <3>1, <3>3, <3>4
  <2> QED
    BY <2>1, <2>2 DEF WireInv
<1>3. CASE UNCHANGED wireVars
  BY <1>3 DEF WireInv, wireVars
<1> QED
  BY <1>1, <1>2, <1>3 DEF WireNext

(* The host judges and signs the very value the caller presented to
   remoteSigner(), however deep it is and whatever its keys are. *)
THEOREM WireIsFaithful == WireSpec => []SignedAsPresented
<1>1. WireInv => SignedAsPresented
  BY DEF WireInv, SignedAsPresented
<1> QED
  BY <1>1, WireInitInv, WireNextInv, PTL DEF WireSpec

-----------------------------------------------------------------------------
(* Signed notes.  A note is the lines of its body, a blank line and the    *)
(* lines put on it since.  The first blank line is the one after the body, *)
(* for no line of a body that may be written is empty, and a text is read  *)
(* into the very lines it was written in, for no line holds a newline.     *)

(* Flattening, one sequence at a time. *)
Flattens(f, s, n) == f = [i \in 1..n |-> IF i = 1 THEN s[i] ELSE f[i - 1] \o s[i]]

(* The recursive function that flattens exists. *)
LEMMA FlatteningExists ==
  ASSUME NEW C, NEW s \in Seq(Seq(C)), NEW k \in Nat, k <= Len(s)
  PROVE  \E f : Flattens(f, s, k)
<1> DEFINE T == {n \in Nat : n <= Len(s) /\ ~\E f : Flattens(f, s, n)}
<1> SUFFICES ASSUME T # {} PROVE FALSE
  OBVIOUS
<1>1. PICK n \in T : \A m \in T : n <= m
  BY LeastOf
<1>2. n \in Nat /\ n <= Len(s) /\ ~\E f : Flattens(f, s, n)
  OBVIOUS
<1>3. CASE n = 0
  <2>1. Flattens([i \in 1..0 |-> 0], s, 0)
    BY DEF Flattens
  <2> QED
    BY <1>2, <1>3, <2>1
<1>4. CASE n > 0
  <2>1. n - 1 \in Nat /\ n - 1 <= Len(s) /\ ~(n <= n - 1)
    BY <1>2, <1>4
  <2>2. PICK f : Flattens(f, s, n - 1)
    BY <2>1, <1>1
  <2> DEFINE g == [i \in 1..n |-> IF i # n THEN f[i]
                                  ELSE IF i = 1 THEN s[i] ELSE f[i - 1] \o s[i]]
  <2>3. ASSUME NEW i \in 1..n
        PROVE  g[i] = IF i = 1 THEN s[i] ELSE g[i - 1] \o s[i]
    <3>1. CASE i = n
      <4>1. i # 1 => i - 1 \in 1..n /\ i - 1 # n
        BY <1>2, <1>4, <3>1
      <4>2. i # 1 => g[i - 1] = f[i - 1]
        BY <4>1
      <4> QED
        BY <4>2, <3>1
    <3>2. CASE i # n
      <4>1. i \in 1..(n - 1) /\ (i # 1 => i - 1 \in 1..n /\ i - 1 # n)
        BY <1>2, <1>4, <3>2
      <4>2. f[i] = IF i = 1 THEN s[i] ELSE f[i - 1] \o s[i]
        BY <2>2, <4>1 DEF Flattens
      <4>3. i # 1 => g[i - 1] = f[i - 1]
        BY <4>1
      <4> QED
        BY <4>2, <4>3, <3>2
    <3> QED
      BY <3>1, <3>2
  <2> HIDE DEF g
  <2>4. DOMAIN g = 1..n /\ g = [i \in 1..n |-> g[i]]
    BY DEF g
  <2>5. Flattens(g, s, n)
    BY <2>3, <2>4 DEF Flattens
  <2> QED
    BY <1>2, <2>5
<1> QED
  BY <1>2, <1>3, <1>4

(* What it is of one sequence more. *)
LEMMA FlatteningUnfolds ==
  ASSUME NEW C, NEW s \in Seq(Seq(C)), s # <<>>
  PROVE  \E f : Flattens(f, s, Len(s)) /\ FlattenSeq(s) = f[Len(s)]
<1> DEFINE flatten == CHOOSE f :
                       f = [i \in 1..Len(s) |-> IF i = 1 THEN s[i] ELSE f[i - 1] \o s[i]]
<1>1. Len(s) \in Nat /\ Len(s) # 0
  OBVIOUS
<1>2. PICK f : Flattens(f, s, Len(s))
  BY <1>1, FlatteningExists
<1>3. \E g : g = [i \in 1..Len(s) |-> IF i = 1 THEN s[i] ELSE g[i - 1] \o s[i]]
  BY <1>2 DEF Flattens
<1>4. FlattenSeq(s) = flatten[Len(s)]
  BY <1>1 DEF FlattenSeq
<1>5. flatten = [i \in 1..Len(s) |-> IF i = 1 THEN s[i] ELSE flatten[i - 1] \o s[i]]
  BY <1>3
<1> HIDE DEF flatten
<1> QED
  BY <1>4, <1>5 DEF Flattens

(* Any two of them agree on what they have in common. *)
LEMMA FlatteningAgrees ==
  ASSUME NEW C, NEW s \in Seq(Seq(C)), NEW t \in Seq(Seq(C)), NEW f, NEW g,
         Len(s) <= Len(t), \A i \in 1..Len(s) : s[i] = t[i],
         Flattens(f, s, Len(s)), Flattens(g, t, Len(t))
  PROVE  \A i \in 1..Len(s) : f[i] = g[i] /\ f[i] \in Seq(C)
<1> DEFINE T == {n \in Nat : n \in 1..Len(s) /\ ~(f[n] = g[n] /\ f[n] \in Seq(C))}
<1>1. 1..Len(s) \subseteq Nat
  OBVIOUS
<1> SUFFICES ASSUME T # {} PROVE FALSE
  BY <1>1
<1>2. PICK n \in T : \A m \in T : n <= m
  BY LeastOf
<1>3. n \in 1..Len(s) /\ ~(f[n] = g[n] /\ f[n] \in Seq(C))
  OBVIOUS
<1>4. n \in 1..Len(s) /\ n \in 1..Len(t) /\ s[n] = t[n] /\ s[n] \in Seq(C)
  BY <1>3
<1>5. /\ f[n] = IF n = 1 THEN s[n] ELSE f[n - 1] \o s[n]
      /\ g[n] = IF n = 1 THEN t[n] ELSE g[n - 1] \o t[n]
  BY <1>4 DEF Flattens
<1>6. CASE n = 1
  BY <1>3, <1>4, <1>5, <1>6
<1>7. CASE n # 1
  <2>1. n - 1 \in 1..Len(s) /\ n - 1 \in Nat /\ ~(n <= n - 1)
    BY <1>3, <1>7
  <2>2. f[n - 1] = g[n - 1] /\ f[n - 1] \in Seq(C)
    BY <2>1, <1>2
  <2> HIDE DEF T
  <2>3. f[n - 1] \o s[n] \in Seq(C)
    BY <2>2, <1>4
  <2> QED
    BY <1>3, <1>4, <1>5, <1>7, <2>2, <2>3
<1> QED
  BY <1>6, <1>7

(* What FlattenSeq is: of no sequence, and of one more. *)
LEMMA Flattening ==
  ASSUME NEW C, NEW s \in Seq(Seq(C))
  PROVE  /\ FlattenSeq(<<>>) = <<>> /\ FlattenSeq(s) \in Seq(C)
         /\ \A x \in Seq(C) : FlattenSeq(Append(s, x)) = FlattenSeq(s) \o x
<1>1. FlattenSeq(<<>>) = <<>>
  BY DEF FlattenSeq
<1>2. FlattenSeq(s) \in Seq(C)
  <2>1. CASE s = <<>>
    BY <1>1, <2>1, EmptySeq, Zenon
  <2>2. CASE s # <<>>
    <3>1. PICK f : Flattens(f, s, Len(s)) /\ FlattenSeq(s) = f[Len(s)]
      BY <2>2, FlatteningUnfolds
    <3>2. Len(s) \in Nat /\ Len(s) \in 1..Len(s)
      BY <2>2
    <3>3. f[Len(s)] \in Seq(C)
      BY <3>1, <3>2, FlatteningAgrees
    <3> QED
      BY <3>1, <3>3
  <2> QED
    BY <2>1, <2>2
<1>3. ASSUME NEW x \in Seq(C) PROVE FlattenSeq(Append(s, x)) = FlattenSeq(s) \o x
  <2> DEFINE t == Append(s, x)
  <2>1. /\ t \in Seq(Seq(C)) /\ t # <<>> /\ Len(t) = Len(s) + 1 /\ t[Len(s) + 1] = x
        /\ \A i \in 1..Len(s) : s[i] = t[i]
    BY AppendProperties
  <2> HIDE DEF t
  <2>2. PICK g : Flattens(g, t, Len(t)) /\ FlattenSeq(t) = g[Len(t)]
    BY <2>1, FlatteningUnfolds
  <2>3. Len(s) \in Nat /\ Len(t) \in 1..Len(t)
    BY <2>1
  <2>4. g[Len(t)] = IF Len(t) = 1 THEN t[Len(t)] ELSE g[Len(t) - 1] \o t[Len(t)]
    BY <2>2, <2>3 DEF Flattens
  <2>5. CASE s = <<>>
    BY <1>1, <2>1, <2>2, <2>4, <2>5
  <2>6. CASE s # <<>>
    <3>1. PICK f : Flattens(f, s, Len(s)) /\ FlattenSeq(s) = f[Len(s)]
      BY <2>6, FlatteningUnfolds
    <3>2. /\ Len(s) \in 1..Len(s) /\ Len(s) <= Len(s) /\ Len(s) <= Len(t)
          /\ Len(t) - 1 = Len(s) /\ Len(t) # 1
      BY <2>1, <2>6
    <3>3. \A i \in 1..Len(s) : f[i] = g[i] /\ f[i] \in Seq(C)
      BY <3>1, <3>2, <2>1, <2>2, <2>3, FlatteningAgrees
    <3> QED
      BY <2>1, <2>2, <2>4, <3>1, <3>2, <3>3 DEF t
  <2> QED
    BY <2>5, <2>6 DEF t
<1> QED
  BY <1>1, <1>2, <1>3

(* Induction on sequences, for a set of them. *)
LEMMA SequencesByAppend ==
  ASSUME NEW S, NEW P, <<>> \in P,
         \A s \in Seq(S) : \A x \in S : s \in P => Append(s, x) \in P
  PROVE  Seq(S) \subseteq P
<1> DEFINE T == {n \in Nat : \E s \in Seq(S) : Len(s) = n /\ s \notin P}
<1> SUFFICES ASSUME NEW t \in Seq(S), t \notin P PROVE FALSE
  OBVIOUS
<1>1. Len(t) \in T
  OBVIOUS
<1>2. PICK n \in T : \A m \in T : n <= m
  BY <1>1, LeastOf
<1>3. PICK s \in Seq(S) : Len(s) = n /\ s \notin P
  BY <1>2
<1>4. s # <<>>
  BY <1>3, Zenon
<1> DEFINE front == SubSeq(s, 1, Len(s) - 1)
<1>5. front \in Seq(S) /\ s[Len(s)] \in S /\ Append(front, s[Len(s)]) = s /\ Len(front) = n - 1
  BY <1>3, <1>4
<1>6. n \in Nat /\ n - 1 \in Nat /\ ~(n <= n - 1)
  BY <1>3, <1>4
<1>7. front \in P
  <2>1. n - 1 \notin T
    BY <1>2, <1>6
  <2> QED
    BY <2>1, <1>5, <1>6
<1> HIDE DEF front
<1> QED
  BY <1>3, <1>5, <1>7

-----------------------------------------------------------------------------
(* Reading a text, character by character. *)
Reads(f, text, n) == f = [i \in 0..n |-> ReadStep(f, text, i)]

(* The recursive function that reads a text exists. *)
LEMMA ReadingExists ==
  ASSUME NEW C, NEW text \in Seq(C), NEW k \in Nat
  PROVE  \E f : Reads(f, text, k)
<1> DEFINE T == {n \in Nat : ~\E f : Reads(f, text, n)}
<1> SUFFICES ASSUME T # {} PROVE FALSE
  OBVIOUS
<1>1. PICK n \in T : \A m \in T : n <= m
  BY LeastOf
<1>2. n \in Nat /\ ~\E f : Reads(f, text, n)
  OBVIOUS
<1>3. CASE n = 0
  <2> DEFINE g == [i \in 0..0 |-> [done |-> <<>>, line |-> <<>>]]
  <2>1. ASSUME NEW i \in 0..0 PROVE g[i] = ReadStep(g, text, i)
    BY DEF ReadStep
  <2>2. g = [i \in 0..0 |-> g[i]]
    OBVIOUS
  <2> HIDE DEF g
  <2>3. Reads(g, text, 0)
    BY <2>1, <2>2 DEF Reads
  <2> QED
    BY <1>2, <1>3, <2>3
<1>4. CASE n > 0
  <2>1. n - 1 \in Nat /\ ~(n <= n - 1)
    BY <1>2, <1>4
  <2>2. PICK f : Reads(f, text, n - 1)
    BY <2>1, <1>1
  <2> DEFINE g == [i \in 0..n |-> IF i = n THEN ReadStep(f, text, i) ELSE f[i]]
  <2>3. ASSUME NEW i \in 0..n PROVE g[i] = ReadStep(g, text, i)
    <3>1. i # 0 => g[i - 1] = f[i - 1]
      BY <1>2
    <3>2. ReadStep(g, text, i) = ReadStep(f, text, i)
      <4> HIDE DEF g
      <4> QED
        BY <3>1 DEF ReadStep
    <3>3. CASE i = n
      BY <3>2, <3>3
    <3>4. CASE i # n
      <4>1. i \in 0..(n - 1)
        BY <1>2, <1>4, <3>4
      <4>2. f[i] = ReadStep(f, text, i)
        BY <2>2, <4>1 DEF Reads
      <4> QED
        BY <4>2, <3>2, <3>4
    <3> QED
      BY <3>3, <3>4
  <2>4. g = [i \in 0..n |-> g[i]]
    OBVIOUS
  <2> HIDE DEF g
  <2>5. Reads(g, text, n)
    BY <2>3, <2>4 DEF Reads
  <2> QED
    BY <1>2, <2>5
<1> QED
  BY <1>2, <1>3, <1>4

(* A text that has been read to its last newline, and its lines. *)
WrittenAs(text, ls) ==
  \A f : Reads(f, text, Len(text)) => f[Len(text)] = [done |-> ls, line |-> <<>>]

(* Such a text is read into those lines. *)
LEMMA WrittenIsRead ==
  ASSUME NEW C, NEW text \in Seq(C), NEW ls, WrittenAs(text, ls)
  PROVE  LinesOfText(text) = ls
<1> DEFINE read == CHOOSE read : read = [n \in 0..Len(text) |-> ReadStep(read, text, n)]
<1>1. PICK f : Reads(f, text, Len(text))
  BY ReadingExists
<1>2. \E r : r = [n \in 0..Len(text) |-> ReadStep(r, text, n)]
  BY <1>1 DEF Reads
<1>3. read = [n \in 0..Len(text) |-> ReadStep(read, text, n)]
  BY <1>2
<1>4. LinesOfText(text) = IF read[Len(text)].line = <<>> THEN read[Len(text)].done
                          ELSE Append(read[Len(text)].done, read[Len(text)].line)
  BY DEF LinesOfText
<1> HIDE DEF read
<1>5. read[Len(text)] = [done |-> ls, line |-> <<>>]
  BY <1>3 DEF Reads, WrittenAs
<1> QED
  BY <1>4, <1>5

LEMMA NothingWritten == WrittenAs(<<>>, <<>>)
<1> SUFFICES ASSUME NEW f, Reads(f, <<>>, 0) PROVE f[0] = [done |-> <<>>, line |-> <<>>]
  BY DEF WrittenAs
<1> QED
  BY DEF Reads, ReadStep

(* A text that grows by a line is read with one line more. *)
LEMMA LineWritten ==
  ASSUME NEW C, NL \in C, NEW text \in Seq(C), NEW ls, WrittenAs(text, ls),
         NEW x \in Seq(C), ~Has(x, NL)
  PROVE  WrittenAs(text \o Line(x), Append(ls, x))
<1> DEFINE t == text \o Line(x)
           k == Len(text)
<1>1. /\ k \in Nat /\ Len(x) \in Nat /\ Len(t) = k + Len(x) + 1
      /\ \A i \in 1..k : t[i] = text[i]
      /\ \A i \in 1..Len(x) : t[k + i] = x[i]
      /\ t[k + Len(x) + 1] = NL
  BY DEF Line
<1> HIDE DEF t
<1> SUFFICES ASSUME NEW f, Reads(f, t, Len(t))
             PROVE  f[Len(t)] = [done |-> Append(ls, x), line |-> <<>>]
  BY DEF WrittenAs, t
<1>2. \A i \in 0..Len(t) : f[i] = ReadStep(f, t, i)
  BY DEF Reads
<1>3. f[k] = [done |-> ls, line |-> <<>>]
  <2> DEFINE g == [i \in 0..k |-> f[i]]
  <2>1. ASSUME NEW i \in 0..k PROVE g[i] = ReadStep(g, text, i)
    <3>1. i \in 0..Len(t) /\ (i # 0 => i \in 1..k /\ i - 1 \in 0..k)
      BY <1>1
    <3>2. g[i] = f[i] /\ (i # 0 => g[i - 1] = f[i - 1] /\ t[i] = text[i])
      BY <3>1, <1>1
    <3>3. f[i] = ReadStep(f, t, i)
      BY <3>1, <1>2
    <3> HIDE DEF g
    <3> QED
      BY <3>2, <3>3 DEF ReadStep
  <2>2. g = [i \in 0..k |-> g[i]]
    OBVIOUS
  <2>3. g[k] = f[k]
    BY <1>1
  <2> HIDE DEF g
  <2>4. Reads(g, text, Len(text))
    BY <2>1, <2>2 DEF Reads
  <2> QED
    BY <2>3, <2>4 DEF WrittenAs
<1> HIDE DEF k
<1> DEFINE T == {j \in Nat : j <= Len(x) /\ f[k + j] # [done |-> ls, line |-> SubSeq(x, 1, j)]}
<1>4. T = {}
  <2> SUFFICES ASSUME T # {} PROVE FALSE
    OBVIOUS
  <2>1. PICK j \in T : \A m \in T : j <= m
    BY LeastOf
  <2>2. j \in Nat /\ j <= Len(x) /\ f[k + j] # [done |-> ls, line |-> SubSeq(x, 1, j)]
    OBVIOUS
  <2>3. CASE j = 0
    <3>1. SubSeq(x, 1, 0) = <<>>
      OBVIOUS
    <3> QED
      BY <1>1, <1>3, <2>2, <2>3, <3>1
  <2>4. CASE j # 0
    <3>1. j - 1 \in Nat /\ j - 1 <= Len(x) /\ ~(j <= j - 1)
      BY <2>2, <2>4, <1>1
    <3>2. f[k + (j - 1)] = [done |-> ls, line |-> SubSeq(x, 1, j - 1)]
      BY <3>1, <2>1
    <3>3. k + j \in 0..Len(t) /\ k + j # 0 /\ (k + j) - 1 = k + (j - 1) /\ j \in 1..Len(x)
      BY <1>1, <2>2, <2>4
    <3>4. t[k + j] = x[j] /\ x[j] # NL
      BY <1>1, <3>3 DEF Has
    <3>5. f[k + j] = [done |-> f[(k + j) - 1].done,
                          line |-> Append(f[(k + j) - 1].line, t[k + j])]
      BY <1>2, <3>3, <3>4 DEF ReadStep
    <3>6. Append(SubSeq(x, 1, j - 1), x[j]) = SubSeq(x, 1, j)
      BY <3>3, <3>1, <1>1
    <3>7. f[k + j] = [done |-> ls, line |-> Append(SubSeq(x, 1, j - 1), x[j])]
      <4>1. f[(k + j) - 1] = [done |-> ls, line |-> SubSeq(x, 1, j - 1)]
        BY <3>2, <3>3
      <4> QED
        BY <4>1, <3>4, <3>5
    <3> QED
      BY <2>2, <3>6, <3>7, Zenon
  <2> QED
    BY <2>3, <2>4
<1>5. f[k + Len(x)] = [done |-> ls, line |-> x]
  <2>1. SubSeq(x, 1, Len(x)) = x
    OBVIOUS
  <2> QED
    BY <1>1, <1>4, <2>1
<1>6. Len(t) \in 0..Len(t) /\ Len(t) # 0 /\ Len(t) - 1 = k + Len(x) /\ t[Len(t)] = NL
  BY <1>1
<1> HIDE DEF T
<1>7. f[Len(t)] = [done |-> Append(f[k + Len(x)].done, f[k + Len(x)].line), line |-> <<>>]
  BY <1>2, <1>6 DEF ReadStep
<1> QED
  BY <1>5, <1>7

-----------------------------------------------------------------------------
(* Lines, each with its newline. *)
TextOf(ls) == FlattenSeq([n \in DOMAIN ls |-> Line(ls[n])])

(* What is written grows with the lines. *)
LEMMA TextGrows ==
  ASSUME NEW C, NL \in C, NEW ls \in Seq(Seq(C))
  PROVE  /\ TextOf(<<>>) = <<>> /\ TextOf(ls) \in Seq(C)
         /\ \A x \in Seq(C) : TextOf(Append(ls, x)) = TextOf(ls) \o Line(x)
<1> DEFINE s == [n \in DOMAIN ls |-> Line(ls[n])]
<1>1. \A x \in Seq(C) : Line(x) \in Seq(C)
  BY DEF Line
<1>2. s \in Seq(Seq(C))
  <2>1. \A n \in 1..Len(ls) : Line(ls[n]) \in Seq(C)
    BY <1>1
  <2>2. s \in [1..Len(ls) -> Seq(C)] /\ Len(ls) \in Nat
    BY <2>1
  <2> HIDE DEF s
  <2> QED
    BY <2>2, SeqDef, Zenon
<1>3. ASSUME NEW x \in Seq(C) PROVE TextOf(Append(ls, x)) = TextOf(ls) \o Line(x)
  <2> DEFINE t == Append(ls, x)
             u == [n \in DOMAIN t |-> Line(t[n])]
  <2>1. /\ DOMAIN t = 1..Len(ls) + 1 /\ DOMAIN ls = 1..Len(ls) /\ t[Len(ls) + 1] = x
        /\ \A n \in 1..Len(ls) : t[n] = ls[n]
        /\ t \in Seq(Seq(C)) /\ Len(ls) \in Nat
    OBVIOUS
  <2>2. u \in Seq(Seq(C)) /\ Len(u) = Len(ls) + 1
    <3>1. \A n \in 1..Len(ls) + 1 : Line(t[n]) \in Seq(C)
      BY <2>1, <1>1
    <3> HIDE DEF t
    <3> QED
      BY <2>1, <3>1
  <2>3. Append(s, Line(x)) \in Seq(Seq(C)) /\ Len(Append(s, Line(x))) = Len(ls) + 1
    BY <1>1, <1>2
  <2>4. ASSUME NEW n \in 1..Len(ls) + 1 PROVE u[n] = Append(s, Line(x))[n]
    <3>1. CASE n = Len(ls) + 1
      BY <2>1, <1>1, <1>2, <3>1
    <3>2. CASE n # Len(ls) + 1
      <4>1. n \in 1..Len(ls)
        BY <2>1, <3>2
      <4> QED
        BY <4>1, <2>1, <1>1, <1>2
    <3> QED
      BY <3>1, <3>2
  <2> HIDE DEF u, s
  <2>5. u = Append(s, Line(x))
    BY <2>2, <2>3, <2>4
  <2>6. FlattenSeq(u) = FlattenSeq(s) \o Line(x)
    BY <2>5, <1>1, <1>2, Flattening
  <2> QED
    BY <2>6 DEF TextOf, s, u
<1>4. TextOf(<<>>) = <<>>
  <2>1. [n \in DOMAIN <<>> |-> Line(<<>>[n])] = <<>>
    OBVIOUS
  <2> QED
    BY <2>1, <1>2, Flattening DEF TextOf
<1>5. TextOf(ls) \in Seq(C)
  BY <1>2, Flattening DEF TextOf
<1> QED
  BY <1>3, <1>4, <1>5

(* What is written line by line is read line by line. *)
LEMMA TextWritten ==
  ASSUME NEW C, NL \in C, NEW text \in Seq(C), NEW prior \in Seq(Seq(C)),
         WrittenAs(text, prior)
  PROVE  \A ls \in Seq({x \in Seq(C) : ~Has(x, NL)}) :
           WrittenAs(text \o TextOf(ls), prior \o ls)
<1> DEFINE X == {x \in Seq(C) : ~Has(x, NL)}
           P == {ls \in Seq(X) : WrittenAs(text \o TextOf(ls), prior \o ls)}
<1>1. \A ls \in Seq(X) : ls \in Seq(Seq(C))
  OBVIOUS
<1>2. <<>> \in P
  <2>1. <<>> \in Seq(X) /\ <<>> \in Seq(Seq(C))
    BY EmptySeq
  <2>2. text \o <<>> = text /\ prior \o <<>> = prior
    OBVIOUS
  <2>3. TextOf(<<>>) = <<>>
    BY <2>1, TextGrows
  <2> QED
    BY <2>1, <2>2, <2>3
<1>3. ASSUME NEW ls \in Seq(X), NEW x \in X, ls \in P PROVE Append(ls, x) \in P
  <2>1. ls \in Seq(Seq(C)) /\ x \in Seq(C) /\ ~Has(x, NL) /\ Append(ls, x) \in Seq(X)
    BY <1>1
  <2>2. TextOf(ls) \in Seq(C) /\ TextOf(Append(ls, x)) = TextOf(ls) \o Line(x)
    BY <2>1, TextGrows
  <2>3. Line(x) \in Seq(C)
    BY <2>1 DEF Line
  <2>4. WrittenAs((text \o TextOf(ls)) \o Line(x), Append(prior \o ls, x))
    <3>1. text \o TextOf(ls) \in Seq(C) /\ WrittenAs(text \o TextOf(ls), prior \o ls)
      BY <2>2, <1>3
    <3> QED
      BY <2>1, <3>1, LineWritten
  <2>5. (text \o TextOf(ls)) \o Line(x) = text \o TextOf(Append(ls, x))
    BY <2>2, <2>3
  <2>6. Append(prior \o ls, x) = prior \o Append(ls, x)
    <3>1. x \in Seq(C) /\ prior \o ls \in Seq(Seq(C)) /\ <<x>> \in Seq(Seq(C))
      BY <2>1
    <3>2. (prior \o ls) \o <<x>> = prior \o (ls \o <<x>>)
      BY <2>1, <3>1, ConcatAssociative
    <3> QED
      BY <2>1, <3>1, <3>2, AppendIsConcat
  <2> QED
    BY <2>1, <2>4, <2>5, <2>6
<1> HIDE DEF P, X
<1>4. Seq(X) \subseteq P
  BY <1>2, <1>3, SequencesByAppend
<1> QED
  BY <1>4 DEF P, X

(* A blank line is two newlines in a row: no line of a text is one. *)
NoBlank(text) == Blank(text) = {}
Ended(text) == text # <<>> => text[Len(text)] = NL

(* A line that is not empty, put on a text, leaves it without a blank one. *)
LEMMA LineIsNotBlank ==
  ASSUME NEW C, NL \in C, NEW text \in Seq(C), NoBlank(text), Ended(text),
         NEW x \in Seq(C), OneLine(x)
  PROVE  NoBlank(text \o Line(x)) /\ Ended(text \o Line(x))
<1> DEFINE t == text \o Line(x)
<1>1. /\ Len(text) \in Nat /\ Len(x) \in Nat /\ Len(x) # 0 /\ Len(t) = Len(text) + Len(x) + 1
      /\ \A n \in 1..Len(text) : t[n] = text[n]
      /\ \A n \in 1..Len(x) : t[Len(text) + n] = x[n]
      /\ t[Len(text) + Len(x) + 1] = NL
  BY DEF Line, OneLine
<1>2. \A n \in 1..Len(x) : x[n] # NL
  BY DEF OneLine, Has
<1> HIDE DEF t
<1>3. Ended(t)
  BY <1>1 DEF Ended
<1>4. ASSUME NEW n \in 1..Len(t) - 1, t[n] = NL, t[n + 1] = NL PROVE FALSE
  <2>1. CASE n < Len(text)
    <3>1. n \in 1..Len(text) - 1 /\ n \in 1..Len(text) /\ n + 1 \in 1..Len(text)
      BY <1>1, <2>1
    <3> QED
      BY <3>1, <1>1, <1>4 DEF NoBlank, Blank
  <2>2. CASE n = Len(text) + Len(x)
    <3>1. Len(x) \in 1..Len(x) /\ t[n] = x[Len(x)]
      BY <1>1, <2>2
    <3> QED
      BY <3>1, <1>2, <1>4
  <2>3. CASE n >= Len(text) /\ n # Len(text) + Len(x)
    <3>1. n + 1 - Len(text) \in 1..Len(x) /\ n + 1 = Len(text) + (n + 1 - Len(text))
      <4>1. /\ Len(text) \in Nat /\ Len(x) \in Nat /\ Len(t) = Len(text) + Len(x) + 1
            /\ n \in Int /\ n <= Len(t) - 1
        BY <1>1
      <4> QED
        BY <4>1, <2>3
    <3>2. t[n + 1] = x[n + 1 - Len(text)]
      BY <3>1, <1>1
    <3>3. x[n + 1 - Len(text)] # NL
      BY <3>1, <1>2
    <3> QED
      BY <3>2, <3>3, <1>4
  <2> QED
    BY <1>1, <2>1, <2>2, <2>3
<1>5. NoBlank(t)
  BY <1>4 DEF NoBlank, Blank
<1> QED
  BY <1>3, <1>5 DEF t

(* So does any number of them. *)
LEMMA LinesAreNotBlank ==
  ASSUME NEW C, NL \in C, NEW text \in Seq(C), NoBlank(text), Ended(text)
  PROVE  \A ls \in Seq({x \in Seq(C) : OneLine(x)}) :
           NoBlank(text \o TextOf(ls)) /\ Ended(text \o TextOf(ls))
<1> DEFINE X == {x \in Seq(C) : OneLine(x)}
           P == {ls \in Seq(X) : NoBlank(text \o TextOf(ls)) /\ Ended(text \o TextOf(ls))}
<1>1. \A ls \in Seq(X) : ls \in Seq(Seq(C))
  OBVIOUS
<1>2. <<>> \in P
  <2>1. <<>> \in Seq(X) /\ <<>> \in Seq(Seq(C))
    BY EmptySeq
  <2>2. text \o <<>> = text
    OBVIOUS
  <2>3. TextOf(<<>>) = <<>>
    BY <2>1, TextGrows
  <2> QED
    BY <2>1, <2>2, <2>3
<1>3. ASSUME NEW ls \in Seq(X), NEW x \in X, ls \in P PROVE Append(ls, x) \in P
  <2>1. ls \in Seq(Seq(C)) /\ x \in Seq(C) /\ OneLine(x) /\ Append(ls, x) \in Seq(X)
    BY <1>1
  <2>2. TextOf(ls) \in Seq(C) /\ TextOf(Append(ls, x)) = TextOf(ls) \o Line(x)
    BY <2>1, TextGrows
  <2>3. Line(x) \in Seq(C)
    BY <2>1 DEF Line
  <2>4. text \o TextOf(ls) \in Seq(C) /\ NoBlank(text \o TextOf(ls)) /\ Ended(text \o TextOf(ls))
    BY <2>2, <1>3
  <2>5. /\ NoBlank((text \o TextOf(ls)) \o Line(x))
        /\ Ended((text \o TextOf(ls)) \o Line(x))
    BY <2>1, <2>4, LineIsNotBlank
  <2>6. (text \o TextOf(ls)) \o Line(x) = text \o TextOf(Append(ls, x))
    BY <2>2, <2>3
  <2> QED
    BY <2>1, <2>5, <2>6
<1> HIDE DEF P, X
<1>4. Seq(X) \subseteq P
  BY <1>2, <1>3, SequencesByAppend
<1> QED
  BY <1>4 DEF P, X

-----------------------------------------------------------------------------
(* Tuples are built by appending. *)
LEMMA AppendTuples ==
  ASSUME NEW S, NEW a \in S, NEW b \in S, NEW c \in S
  PROVE  Append(<<a>>, b) = <<a, b>> /\ Append(<<a, b>>, c) = <<a, b, c>>
<1>1. /\ <<a>> \in Seq(S) /\ Len(<<a>>) = 1 /\ <<a, b>> \in Seq(S) /\ Len(<<a, b>>) = 2
      /\ <<a, b, c>> \in Seq(S) /\ Len(<<a, b, c>>) = 3
  OBVIOUS
<1>2. /\ <<a>>[1] = a /\ <<a, b>>[1] = a /\ <<a, b>>[2] = b
      /\ <<a, b, c>>[1] = a /\ <<a, b, c>>[2] = b /\ <<a, b, c>>[3] = c
  OBVIOUS
<1>3. /\ Append(<<a>>, b) \in Seq(S) /\ Len(Append(<<a>>, b)) = 2
      /\ Append(<<a>>, b)[1] = a /\ Append(<<a>>, b)[2] = b
  BY <1>1, <1>2, AppendProperties
<1>4. /\ Append(<<a, b>>, c) \in Seq(S) /\ Len(Append(<<a, b>>, c)) = 3
      /\ Append(<<a, b>>, c)[1] = a /\ Append(<<a, b>>, c)[2] = b
      /\ Append(<<a, b>>, c)[3] = c
  BY <1>1, <1>2, AppendProperties
<1>5. \A s, t \in Seq(S) : Len(s) = 2 /\ Len(t) = 2 /\ s[1] = t[1] /\ s[2] = t[2] => s = t
  OBVIOUS
<1>6. \A s, t \in Seq(S) : Len(s) = 3 /\ Len(t) = 3 /\ s[1] = t[1] /\ s[2] = t[2] /\ s[3] = t[3]
                            => s = t
  OBVIOUS
<1> QED
  BY <1>1, <1>2, <1>3, <1>4, <1>5, <1>6

Text == Seq(Characters)
Unbroken == {x \in Text : ~Has(x, NL)}

BodyLines(cp) == <<cp.origin, <<cp.treeSize>>, <<cp.rootHash>>>> \o cp.extensions

(* The body of a checkpoint that may be written is its lines and no blank one. *)
LEMMA BodyIsItsLines ==
  ASSUME NEW cp \in CheckpointInputs, Writable(cp)
  PROVE  /\ CheckpointBody(cp) \in Text /\ CheckpointBody(cp) # <<>>
         /\ BodyLines(cp) \in Seq(Text)
         /\ WrittenAs(CheckpointBody(cp), BodyLines(cp))
         /\ NoBlank(CheckpointBody(cp)) /\ Ended(CheckpointBody(cp))
<1> DEFINE one == cp.origin
           two == <<cp.treeSize>>
           three == <<cp.rootHash>>
           first == <<>> \o Line(one)
           second == first \o Line(two)
           third == second \o Line(three)
<1>1. /\ cp.origin \in Text /\ cp.treeSize \in Characters /\ cp.rootHash \in Characters
      /\ cp.extensions \in Seq(Text) /\ NL \in Characters
  BY NoteAssumption DEF Text
<1>2. OneLine(one) /\ cp.treeSize \in Sizes /\ cp.rootHash \in Roots
      /\ \A n \in DOMAIN cp.extensions : OneLine(cp.extensions[n])
  BY DEF Writable, ExtensionsOk
<1>3. two \in Text /\ OneLine(two) /\ three \in Text /\ OneLine(three)
  <2>1. cp.treeSize # NL /\ cp.rootHash # NL
    BY <1>2 DEF Sizes, Roots, NL, EmptyTreeRootHex
  <2> QED
    BY <1>1, <2>1 DEF Text, OneLine, Has
<1>4. \A x \in Text : Line(x) \in Text
  BY <1>1 DEF Line, Text
<1>5. \A x : OneLine(x) => ~Has(x, NL)
  BY DEF OneLine
<1>6. <<>> \in Text /\ WrittenAs(<<>>, <<>>) /\ NoBlank(<<>>) /\ Ended(<<>>)
  <2>1. NoBlank(<<>>) /\ Ended(<<>>)
    BY DEF NoBlank, Blank, Ended
  <2> QED
    BY <2>1, NothingWritten, EmptySeq DEF Text
<1>7. first \in Text /\ second \in Text /\ third \in Text
  <2>1. \A x, y \in Text : x \o y \in Text
    BY ConcatProperties DEF Text
  <2>2. Line(one) \in Text /\ Line(two) \in Text /\ Line(three) \in Text
    BY <1>1, <1>3, <1>4
  <2> QED
    BY <2>1, <2>2, <1>6, Zenon
<1>8. CheckpointBody(cp) = third \o TextOf(cp.extensions)
  <2>1. <<>> \o Line(one) = Line(one)
    BY <1>1, <1>4 DEF Text
  <2> QED
    BY <2>1 DEF CheckpointBody, TextOf
<1> HIDE DEF one, two, three
<1>9. NoBlank(first) /\ Ended(first)
  BY <1>1, <1>2, <1>6, LineIsNotBlank DEF Text, one
<1>10. WrittenAs(first, <<one>>)
  <2>1. WrittenAs(first, Append(<<>>, one))
    BY <1>1, <1>2, <1>5, <1>6, LineWritten DEF Text, one
  <2>2. Append(<<>>, one) = <<one>>
    OBVIOUS
  <2> QED
    BY <2>1, <2>2
<1> HIDE DEF first
<1>11. NoBlank(second) /\ Ended(second)
  BY <1>1, <1>3, <1>7, <1>9, LineIsNotBlank DEF Text
<1>12. WrittenAs(second, <<one, two>>)
  <2>1. WrittenAs(second, Append(<<one>>, two))
    <3>1. ~Has(two, NL) /\ two \in Seq(Characters) /\ first \in Seq(Characters)
      BY <1>3, <1>5, <1>7 DEF Text
    <3> QED
      BY <3>1, <1>1, <1>10, LineWritten
  <2>2. Append(<<one>>, two) = <<one, two>>
    BY <1>1, <1>3, AppendTuples DEF one
  <2> QED
    BY <2>1, <2>2
<1> HIDE DEF second
<1>13. NoBlank(third) /\ Ended(third)
  BY <1>1, <1>3, <1>7, <1>11, LineIsNotBlank DEF Text
<1>14. WrittenAs(third, <<one, two, three>>)
  <2>1. WrittenAs(third, Append(<<one, two>>, three))
    <3>1. ~Has(three, NL) /\ three \in Seq(Characters) /\ second \in Seq(Characters)
      BY <1>3, <1>5, <1>7 DEF Text
    <3> QED
      BY <3>1, <1>1, <1>12, LineWritten
  <2>2. Append(<<one, two>>, three) = <<one, two, three>>
    BY <1>1, <1>3, AppendTuples DEF one
  <2> QED
    BY <2>1, <2>2
<1>15. third # <<>> /\ Len(third) \in Nat \ {0}
  BY <1>3, <1>7 DEF third, Line, Text
<1> HIDE DEF third
<1>16. <<one, two, three>> \in Seq(Text)
  BY <1>1, <1>3 DEF one
<1>17. cp.extensions \in Seq({x \in Text : OneLine(x)})
       /\ cp.extensions \in Seq({x \in Text : ~Has(x, NL)})
  BY <1>1, <1>2, <1>5
<1>18. WrittenAs(third \o TextOf(cp.extensions), <<one, two, three>> \o cp.extensions)
  BY <1>1, <1>7, <1>14, <1>16, <1>17, TextWritten DEF Text
<1>19. NoBlank(third \o TextOf(cp.extensions)) /\ Ended(third \o TextOf(cp.extensions))
  BY <1>1, <1>7, <1>13, <1>17, LinesAreNotBlank DEF Text
<1>20. TextOf(cp.extensions) \in Text
  BY <1>1, TextGrows DEF Text
<1>21. third \o TextOf(cp.extensions) \in Text /\ third \o TextOf(cp.extensions) # <<>>
  BY <1>7, <1>15, <1>20 DEF Text
<1>22. BodyLines(cp) = <<one, two, three>> \o cp.extensions /\ BodyLines(cp) \in Seq(Text)
  BY <1>1, <1>16 DEF BodyLines, one, two, three
<1> QED
  BY <1>8, <1>18, <1>19, <1>21, <1>22

(* The first blank line is the one after the body. *)
Divides(text, body, tail) ==
  /\ text \in Text /\ Blank(text) # {} /\ FirstOf(Blank(text)) = Len(body)
  /\ SubSeq(text, 1, Len(body)) = body
  /\ SubSeq(text, Len(body) + 2, Len(text)) = tail

(* So divides a body without a blank line, a newline and what follows. *)
LEMMA NoteDivides ==
  ASSUME NEW body \in Text, body # <<>>, NoBlank(body), Ended(body), NEW tail \in Text
  PROVE  Divides(body \o <<NL>> \o tail, body, tail)
<1> DEFINE text == body \o <<NL>> \o tail
<1>1. <<NL>> \in Text
  BY NoteAssumption DEF Text
<1>2. /\ text \in Text /\ Len(body) \in Nat /\ Len(body) # 0 /\ Len(tail) \in Nat
      /\ Len(text) = Len(body) + 1 + Len(tail)
      /\ \A n \in 1..Len(body) : text[n] = body[n]
      /\ text[Len(body) + 1] = NL
      /\ \A n \in 1..Len(tail) : text[Len(body) + 1 + n] = tail[n]
  BY <1>1 DEF Text
<1> HIDE DEF text
<1>3. body[Len(body)] = NL
  BY DEF Ended
<1>4. Len(body) \in Blank(text)
  <2>1. Len(body) \in 1..Len(text) - 1 /\ Len(body) \in 1..Len(body)
    BY <1>2
  <2> QED
    BY <2>1, <1>2, <1>3 DEF Blank
<1>5. ASSUME NEW n \in Blank(text) PROVE Len(body) <= n
  <2> SUFFICES ASSUME ~(Len(body) <= n) PROVE FALSE
    OBVIOUS
  <2>1. n \in 1..Len(text) - 1 /\ text[n] = NL /\ text[n + 1] = NL
    BY DEF Blank
  <2>2. n \in 1..Len(body) - 1 /\ n \in 1..Len(body) /\ n + 1 \in 1..Len(body)
    BY <2>1, <1>2
  <2>3. body[n] = NL /\ body[n + 1] = NL
    BY <2>1, <2>2, <1>2
  <2> QED
    BY <2>2, <2>3 DEF NoBlank, Blank
<1>6. FirstOf(Blank(text)) = Len(body)
  <2>1. \A n \in Blank(text) : n \in Int
    BY <1>2 DEF Blank
  <2>2. \A n \in Blank(text) : (\A m \in Blank(text) : n <= m) => n = Len(body)
    BY <2>1, <1>4, <1>5, <1>2
  <2> QED
    BY <2>2, <1>4, <1>5 DEF FirstOf
<1>7. SubSeq(text, 1, Len(body)) = body
  BY <1>2 DEF Text
<1>8. SubSeq(text, Len(body) + 2, Len(text)) = tail
  BY <1>2 DEF Text
<1> QED
  BY <1>2, <1>4, <1>6, <1>7, <1>8 DEF text, Divides

(* A signature line is read as it was written, and a malformed one as none. *)
LEMMA SignatureIsRead ==
  ASSUME NEW name \in Text, OneLine(name), ~Has(name, Space), NEW sig \in Sigs
  PROVE  SignatureOf(Prefix \o name \o <<Space, sig>>) = << [name |-> name, sig |-> sig] >>
<1> DEFINE line == Prefix \o name \o <<Space, sig>>
           k == Len(name)
           rest == name \o <<Space, sig>>
<1>1. /\ line \in Text /\ k \in Nat /\ k # 0 /\ Len(line) = k + 4
      /\ SubSeq(line, 1, 2) = Prefix /\ SubSeq(line, 3, Len(line)) = rest
  <2>1. /\ Prefix \in Text /\ <<Space, sig>> \in Text
        /\ Len(Prefix) = 2 /\ Len(<<Space, sig>>) = 2
    BY NoteAssumption DEF Text, Prefix
  <2>2. line \in Text /\ k \in Nat /\ Len(line) = k + 4 /\ rest \in Text /\ Len(rest) = k + 2
    <3>1. Prefix \o name \in Text /\ Len(Prefix \o name) = 2 + k /\ k \in Nat
      <4>1. name \in Seq(Characters) /\ Prefix \in Seq(Characters)
        BY <2>1 DEF Text
      <4>2. Prefix \o name \in Seq(Characters) /\ Len(Prefix \o name) = Len(Prefix) + Len(name)
        BY <4>1, ConcatProperties, Zenon
      <4> QED
        BY <2>1, <4>1, <4>2 DEF Text
    <3>2. line \in Text /\ Len(line) = (2 + k) + 2 /\ rest \in Text /\ Len(rest) = k + 2
      BY <2>1, <3>1, ConcatProperties DEF Text
    <3> QED
      BY <3>1, <3>2
  <2>3. k # 0
    BY EmptySeq DEF Text, OneLine
  <2>4. /\ line = Prefix \o rest
    BY <2>1 DEF Text
  <2> HIDE DEF line, rest
  <2>5. SubSeq(line, 1, 2) = Prefix /\ SubSeq(line, 3, Len(line)) = rest
    BY <2>1, <2>2, <2>4 DEF Text
  <2> QED
    BY <2>2, <2>3, <2>5
<1>2. /\ rest \in Text /\ Len(rest) = k + 2 /\ DOMAIN rest = 1..k + 2
      /\ rest[k + 1] = Space /\ rest[k + 2] = sig
      /\ \A n \in 1..k : rest[n] = name[n]
  <2>1. <<Space, sig>> \in Text
    BY NoteAssumption DEF Text
  <2> QED
    BY <2>1 DEF Text
<1>3. SubSeq(rest, 1, k) = name /\ SubSeq(rest, k + 2, Len(rest)) = <<sig>>
  <2>1. <<Space, sig>> \in Text
    BY NoteAssumption DEF Text
  <2>2. SubSeq(rest, 1, k) = name
    BY <2>1, <1>1, <1>2 DEF Text
  <2> HIDE DEF rest
  <2>3. SubSeq(rest, k + 2, Len(rest)) = <<sig>>
    <3>1. /\ k + 2 \in Int /\ Len(rest) \in Int /\ Len(rest) - (k + 2) + 1 = 1
          /\ (k + 2) + 1 - 1 = k + 2
      BY <1>1, <1>2
    <3>2. \A i \in k + 2..Len(rest) : rest[i] \in Characters
      BY <1>1, <1>2 DEF Text
    <3>3. /\ SubSeq(rest, k + 2, Len(rest)) \in Text
          /\ Len(SubSeq(rest, k + 2, Len(rest))) = 1
          /\ SubSeq(rest, k + 2, Len(rest))[1] = rest[k + 2]
      BY <3>1, <3>2, <1>1, <1>2, SubSeqProperties DEF Text
    <3>4. \A s \in Text : Len(s) = 1 => s = <<s[1]>>
      BY DEF Text
    <3> QED
      BY <3>3, <3>4, <1>2
  <2> QED
    BY <2>2, <2>3
<1> HIDE DEF line, rest
<1> DEFINE spaces == {n \in DOMAIN rest : rest[n] = Space}
<1>4. spaces = {k + 1}
  <2>1. \A n \in 1..k : rest[n] # Space
    BY <1>2 DEF Has, Text
  <2>2. sig # Space
    BY DEF Sigs, Space
  <2>3. \A n \in 1..k + 2 : n \in 1..k \/ n = k + 1 \/ n = k + 2
    BY <1>1
  <2>4. k + 1 \in 1..k + 2
    BY <1>1
  <2> QED
    BY <1>2, <2>1, <2>2, <2>3, <2>4
<1> HIDE DEF spaces
<1>5. FirstOf(spaces) = k + 1
  BY <1>1, <1>4 DEF FirstOf
<1>6. /\ (k + 1) + 1 = k + 2 /\ (k + 1) - 1 = k /\ 1 # k + 1
  BY <1>1
<1>7. Len(<<sig>>) = 1 /\ <<sig>>[1] = sig
  OBVIOUS
<1> DEFINE payload == SubSeq(rest, FirstOf(spaces) + 1, Len(rest))
<1>8. /\ ~(Len(line) < 2) /\ spaces # {} /\ 1 \notin spaces
      /\ Len(payload) = 1 /\ payload[1] = sig
  <2>1. payload = <<sig>>
    BY <1>3, <1>5, <1>6
  <2> HIDE DEF payload
  <2> QED
    BY <2>1, <1>1, <1>4, <1>6, <1>7
<1>9. SignatureOf(line) =
        IF Len(line) < 2 \/ SubSeq(line, 1, 2) # Prefix \/ spaces = {} \/ 1 \in spaces
           \/ Len(payload) # 1 \/ payload[1] \notin Sigs
        THEN <<>>
        ELSE << [name |-> SubSeq(rest, 1, FirstOf(spaces) - 1), sig |-> payload[1]] >>
  BY <1>1 DEF SignatureOf, spaces
<1> HIDE DEF payload
<1> QED
  BY <1>1, <1>3, <1>5, <1>6, <1>8, <1>9 DEF line

(* What a line may sign. *)
Signatures == [name : Text, sig : Sigs]

(* A malformed line is one line, and signs nothing. *)
LEMMA JunkSignsNothing ==
  ASSUME NEW line \in JunkLines
  PROVE  line \in Unbroken /\ SignatureOf(line) = <<>>
<1>1. /\ Dash \in Characters /\ Space \in Characters /\ Junk \in Characters /\ "a" \in Characters
      /\ Dash # NL /\ Space # NL /\ Junk # NL /\ "a" # NL /\ "a" # Space /\ Junk # Space
      /\ Junk \notin Sigs
  BY NoteAssumption DEF Dash, Space, Junk, NL, Sigs
<1>2. CASE line = <<Junk>>
  <2>1. Len(line) = 1 /\ line \in Unbroken
    BY <1>1, <1>2 DEF Unbroken, Has, Text
  <2> QED
    BY <2>1 DEF SignatureOf
<1>3. CASE line = <<Dash, Space, Space, Junk>>
  <2> DEFINE rest == SubSeq(line, 3, Len(line))
  <2>1. /\ line \in Unbroken /\ Len(line) = 4 /\ line[3] = Space /\ line[4] = Junk
        /\ \A i \in 3..4 : line[i] \in Characters
    BY <1>1, <1>3 DEF Unbroken, Has, Text
  <2>2. rest \in Text /\ Len(rest) = 2 /\ rest[1] = Space
    BY <2>1, SubSeqProperties DEF Text
  <2>3. 1 \in {n \in DOMAIN rest : rest[n] = Space}
    BY <2>2 DEF Text
  <2> HIDE DEF rest
  <2>4. SignatureOf(line) = <<>>
    BY <2>3 DEF SignatureOf, rest
  <2> QED
    BY <2>1, <2>4
<1>4. CASE line = <<Dash, Space, "a", Space, Junk>>
  <2> DEFINE rest == SubSeq(line, 3, Len(line))
             spaces == {n \in DOMAIN rest : rest[n] = Space}
             payload == SubSeq(rest, FirstOf(spaces) + 1, Len(rest))
  <2>1. /\ line \in Unbroken /\ Len(line) = 5
        /\ line[3] = "a" /\ line[4] = Space /\ line[5] = Junk
        /\ \A i \in 3..5 : line[i] \in Characters
    BY <1>1, <1>4 DEF Unbroken, Has, Text
  <2>2. rest \in Text /\ Len(rest) = 3 /\ rest[1] = "a" /\ rest[2] = Space /\ rest[3] = Junk
    BY <2>1, SubSeqProperties DEF Text
  <2> HIDE DEF rest
  <2>3. spaces = {2}
    <3>1. DOMAIN rest = 1..3 /\ \A n \in 1..3 : n = 1 \/ n = 2 \/ n = 3
      BY <2>2 DEF Text
    <3> QED
      BY <1>1, <2>2, <3>1
  <2>4. FirstOf(spaces) = 2
    BY <2>3 DEF FirstOf
  <2>5. Len(payload) = 1 /\ payload[1] = Junk
    <3>1. \A i \in 3..3 : rest[i] \in Characters
      BY <1>1, <2>2
    <3>2. FirstOf(spaces) + 1 = 3
      BY <2>4
    <3> HIDE DEF spaces
    <3> QED
      BY <2>2, <3>1, <3>2, SubSeqProperties
  <2> HIDE DEF payload
  <2>6. SignatureOf(line) = <<>>
    BY <2>5, <1>1 DEF SignatureOf, rest, payload
  <2> QED
    BY <2>1, <2>6
<1> QED
  BY <1>2, <1>3, <1>4 DEF JunkLines

(* The lines of a body are the checkpoint's, in order. *)
LEMMA BodyLinesAre ==
  ASSUME NEW cp \in CheckpointInputs
  PROVE  /\ Len(BodyLines(cp)) = 3 + Len(cp.extensions) /\ Len(cp.extensions) \in Nat
         /\ BodyLines(cp)[1] = cp.origin
         /\ BodyLines(cp)[2] = <<cp.treeSize>> /\ BodyLines(cp)[3] = <<cp.rootHash>>
         /\ SubSeq(BodyLines(cp), 4, Len(BodyLines(cp))) = cp.extensions
<1> DEFINE h == <<cp.origin, <<cp.treeSize>>, <<cp.rootHash>>>>
<1>1. h \in Seq(Text) /\ Len(h) = 3 /\ cp.extensions \in Seq(Text)
  BY NoteAssumption DEF Text
<1>2. h[1] = cp.origin /\ h[2] = <<cp.treeSize>> /\ h[3] = <<cp.rootHash>>
  OBVIOUS
<1> HIDE DEF h
<1>3. BodyLines(cp) = h \o cp.extensions
  BY DEF BodyLines, h
<1> DEFINE all == h \o cp.extensions
<1>4. /\ all \in Seq(Text) /\ Len(all) = 3 + Len(cp.extensions) /\ Len(cp.extensions) \in Nat
      /\ \A i \in 1..3 : all[i] = h[i]
      /\ \A i \in 1..Len(cp.extensions) : all[3 + i] = cp.extensions[i]
  <2>1. /\ all \in Seq(Text) /\ Len(all) = Len(h) + Len(cp.extensions)
        /\ \A i \in 1..Len(h) + Len(cp.extensions) :
              all[i] = IF i <= Len(h) THEN h[i] ELSE cp.extensions[i - Len(h)]
    BY <1>1, ConcatProperties
  <2> HIDE DEF all
  <2>2. Len(cp.extensions) \in Nat
    BY <1>1
  <2>3. \A i \in 1..Len(cp.extensions) :
          3 + i \in 1..3 + Len(cp.extensions) /\ ~(3 + i <= 3) /\ (3 + i) - 3 = i
    BY <2>2
  <2>4. \A i \in 1..3 : i \in 1..3 + Len(cp.extensions) /\ i <= 3
    BY <2>2
  <2> QED
    BY <1>1, <2>1, <2>2, <2>3, <2>4
<1> HIDE DEF all
<1>5. SubSeq(all, 4, Len(all)) = cp.extensions
  BY <1>1, <1>4
<1> QED
  BY <1>2, <1>3, <1>4, <1>5 DEF all

(* A note is read as the body that was written, its checkpoint, and what its *)
(* lines sign. *)
LEMMA NoteIsRead ==
  ASSUME NEW cp \in CheckpointInputs, Writable(cp), NEW ls \in Seq(Unbroken),
         NEW text, text = CheckpointBody(cp) \o <<NL>> \o TextOf(ls)
  PROVE  ParseNote(text) =
           IF TooLong(text) \/ Len(ls) > MaxSignatureLines
              \/ (cp.treeSize = "0" /\ cp.rootHash # EmptyTreeRootHex) THEN {}
           ELSE {[checkpoint |-> cp, body |-> CheckpointBody(cp),
                  signatures |-> FlattenSeq([n \in DOMAIN ls |-> SignatureOf(ls[n])])]}
<1> DEFINE body == CheckpointBody(cp)
           tail == TextOf(ls)
           head == BodyLines(cp)
<1>1. NL \in Characters /\ ls \in Seq(Text)
  BY NoteAssumption DEF Unbroken
<1>2. tail \in Text
  BY <1>1, TextGrows DEF Text
<1>3. /\ body \in Text /\ body # <<>> /\ head \in Seq(Text)
      /\ WrittenAs(body, head) /\ NoBlank(body) /\ Ended(body)
  BY BodyIsItsLines
<1>4. LinesOfText(body) = head
  BY <1>3, WrittenIsRead DEF Text
<1>5. LinesOfText(tail) = ls
  <2>1. <<>> \in Seq(Characters) /\ <<>> \in Seq(Seq(Characters))
    BY EmptySeq
  <2>2. WrittenAs(<<>> \o TextOf(ls), <<>> \o ls)
    BY <1>1, <2>1, NothingWritten, TextWritten DEF Unbroken, Text
  <2>3. <<>> \o TextOf(ls) = TextOf(ls) /\ <<>> \o ls = ls
    BY <1>1, <1>2 DEF Text
  <2> QED
    BY <1>2, <2>2, <2>3, WrittenIsRead DEF Text
<1>6. text = body \o <<NL>> \o tail
  OBVIOUS
<1> HIDE DEF body, tail
<1>7. /\ Blank(text) # {} /\ FirstOf(Blank(text)) = Len(body)
      /\ SubSeq(text, 1, Len(body)) = body /\ SubSeq(text, Len(body) + 2, Len(text)) = tail
  <2>1. body \in Text /\ body # <<>> /\ NoBlank(body) /\ Ended(body)
    BY <1>3
  <2>2. Divides(body \o <<NL>> \o tail, body, tail)
    BY <1>2, <2>1, NoteDivides
  <2> QED
    BY <1>6, <2>2 DEF Divides
<1>8. Len(body) \in Nat /\ Len(body) # 0
  BY <1>3, EmptySeq DEF Text
<1>9. /\ Len(head) = 3 + Len(cp.extensions) /\ Len(cp.extensions) \in Nat
      /\ head[1] = cp.origin /\ head[2] = <<cp.treeSize>> /\ head[3] = <<cp.rootHash>>
      /\ SubSeq(head, 4, Len(head)) = cp.extensions
  BY BodyLinesAre
<1> HIDE DEF head
<1> DEFINE sigs == FlattenSeq([n \in DOMAIN ls |-> SignatureOf(ls[n])])
           read == [checkpoint |-> [origin |-> head[1], treeSize |-> Head(head[2]),
                                    rootHash |-> Head(head[3]), extensions |-> cp.extensions],
                    body |-> body, signatures |-> sigs]
<1>10. ParseNote(text) =
        IF TooLong(text) \/ Len(body) = 0 \/ Len(head) < 3 \/ Len(ls) > MaxSignatureLines THEN {}
        ELSE {p \in {read} :
                /\ head[1] # <<>>
                /\ Len(head[2]) = 1 /\ p.checkpoint.treeSize \in Sizes
                /\ Len(head[3]) = 1 /\ p.checkpoint.rootHash \in Roots
                /\ p.checkpoint.treeSize = "0" => p.checkpoint.rootHash = EmptyTreeRootHex
                /\ ExtensionsOk(cp.extensions)}
  <2> DEFINE sep == IF Blank(text) = {} THEN 0 ELSE FirstOf(Blank(text))
             b == SubSeq(text, 1, sep)
             h == LinesOfText(b)
             t == LinesOfText(SubSeq(text, sep + 2, Len(text)))
             e == SubSeq(h, 4, Len(h))
             r == [checkpoint |-> [origin |-> h[1], treeSize |-> Head(h[2]),
                                   rootHash |-> Head(h[3]), extensions |-> e],
                   body |-> b, signatures |-> FlattenSeq([n \in DOMAIN t |-> SignatureOf(t[n])])]
  <2>1. sep = Len(body)
    BY <1>7
  <2>2. b = body
    BY <2>1, <1>7
  <2>3. h = head
    BY <2>2, <1>4
  <2>4. t = ls
    BY <2>1, <1>5, <1>7
  <2>5. e = cp.extensions
    BY <2>3, <1>9
  <2>6. ParseNote(text) =
          IF TooLong(text) \/ sep = 0 \/ Len(h) < 3 \/ Len(t) > MaxSignatureLines THEN {}
          ELSE {p \in {r} :
                  /\ h[1] # <<>>
                  /\ Len(h[2]) = 1 /\ p.checkpoint.treeSize \in Sizes
                  /\ Len(h[3]) = 1 /\ p.checkpoint.rootHash \in Roots
                  /\ p.checkpoint.treeSize = "0" => p.checkpoint.rootHash = EmptyTreeRootHex
                  /\ ExtensionsOk(e)}
    BY Zenon DEF ParseNote
  <2> HIDE DEF sep, b, h, t, e
  <2> QED
    BY <2>1, <2>2, <2>3, <2>4, <2>5, <2>6, Zenon
<1>11. read = [checkpoint |-> cp, body |-> body, signatures |-> sigs]
  <2>1. cp = [origin |-> cp.origin, treeSize |-> cp.treeSize, rootHash |-> cp.rootHash,
              extensions |-> cp.extensions]
    BY NoteAssumption
  <2>2. Head(<<cp.treeSize>>) = cp.treeSize /\ Head(<<cp.rootHash>>) = cp.rootHash
    OBVIOUS
  <2> HIDE DEF sigs
  <2> QED
    BY <2>1, <2>2, <1>9
<1> HIDE DEF read, sigs
<1>12. read.checkpoint = cp
  BY <1>11
<1>13. /\ head[1] # <<>> /\ Len(head[2]) = 1 /\ Len(head[3]) = 1
       /\ cp.treeSize \in Sizes /\ cp.rootHash \in Roots /\ ExtensionsOk(cp.extensions)
  BY <1>9 DEF Writable, OneLine
<1>14. Len(head) >= 3
  BY <1>9
<1>15. ParseNote(text) =
         IF TooLong(text) \/ Len(ls) > MaxSignatureLines
            \/ (cp.treeSize = "0" /\ cp.rootHash # EmptyTreeRootHex)
         THEN {} ELSE {read}
  <2>1. ~(Len(body) = 0 \/ Len(head) < 3)
    BY <1>8, <1>9
  <2> QED
    BY <2>1, <1>10, <1>12, <1>13
<1> QED
  BY <1>11, <1>15 DEF body, sigs

(* A function over 1..n is a sequence. *)
LEMMA TuplesAreSequences ==
  ASSUME NEW S, NEW n \in Nat, NEW f \in [1..n -> S]
  PROVE  f \in Seq(S)
BY SeqDef, Zenon

(* What the lines of a note sign. *)
Signed(ls) == FlattenSeq([n \in DOMAIN ls |-> SignatureOf(ls[n])])
Signing(ls) == \A n \in DOMAIN ls : SignatureOf(ls[n]) \in Seq(Signatures)

(* What they sign grows with them. *)
LEMMA SignedGrows ==
  ASSUME NEW ls \in Seq(Unbroken), Signing(ls),
         NEW x \in Unbroken, SignatureOf(x) \in Seq(Signatures)
  PROVE  /\ Signing(Append(ls, x)) /\ Append(ls, x) \in Seq(Unbroken)
         /\ Signed(Append(ls, x)) = Signed(ls) \o SignatureOf(x)
         /\ Signed(ls) \in Seq(Signatures)
<1> DEFINE t == Append(ls, x)
           s == [n \in DOMAIN ls |-> SignatureOf(ls[n])]
           u == [n \in DOMAIN t |-> SignatureOf(t[n])]
<1>1. /\ DOMAIN t = 1..Len(ls) + 1 /\ DOMAIN ls = 1..Len(ls) /\ t[Len(ls) + 1] = x
      /\ \A n \in 1..Len(ls) : t[n] = ls[n]
      /\ t \in Seq(Unbroken) /\ Len(ls) \in Nat
  OBVIOUS
<1> HIDE DEF t
<1>2. \A n \in 1..Len(ls) + 1 : n \in 1..Len(ls) \/ n = Len(ls) + 1
  BY <1>1
<1>3. \A n \in 1..Len(ls) + 1 : SignatureOf(t[n]) \in Seq(Signatures)
  BY <1>1, <1>2 DEF Signing
<1>4. s \in [1..Len(ls) -> Seq(Signatures)] /\ u \in [1..Len(ls) + 1 -> Seq(Signatures)]
  BY <1>1, <1>3 DEF Signing
<1>5. ASSUME NEW n \in 1..Len(ls) PROVE u[n] = s[n]
  <2>1. n \in 1..Len(ls) + 1
    BY <1>1
  <2> QED
    BY <2>1, <1>1
<1>6. u[Len(ls) + 1] = SignatureOf(x)
  <2>1. Len(ls) + 1 \in 1..Len(ls) + 1
    BY <1>1
  <2> QED
    BY <2>1, <1>1
<1> HIDE DEF s, u
<1>7. /\ s \in Seq(Seq(Signatures)) /\ u \in Seq(Seq(Signatures))
      /\ Len(s) = Len(ls) /\ Len(u) = Len(ls) + 1
  <2>1. Len(ls) + 1 \in Nat
    BY <1>1
  <2>2. s \in Seq(Seq(Signatures)) /\ u \in Seq(Seq(Signatures))
    <3>1. Len(ls) \in Nat
      BY <1>1
    <3> QED
      BY <2>1, <3>1, <1>4, TuplesAreSequences
  <2>3. DOMAIN s = 1..Len(ls) /\ DOMAIN u = 1..Len(ls) + 1
    BY <1>4
  <2> QED
    BY <2>1, <2>2, <2>3, <1>1
<1>8. Append(s, SignatureOf(x)) = u
  <2>1. /\ Append(s, SignatureOf(x)) \in Seq(Seq(Signatures))
        /\ Len(Append(s, SignatureOf(x))) = Len(ls) + 1
        /\ \A n \in 1..Len(ls) : Append(s, SignatureOf(x))[n] = s[n]
        /\ Append(s, SignatureOf(x))[Len(ls) + 1] = SignatureOf(x)
    BY <1>7, AppendProperties
  <2>2. \A n \in 1..Len(ls) + 1 : Append(s, SignatureOf(x))[n] = u[n]
    BY <2>1, <1>2, <1>5, <1>6
  <2> QED
    BY <2>1, <2>2, <1>7
<1>9. FlattenSeq(u) = FlattenSeq(s) \o SignatureOf(x) /\ FlattenSeq(s) \in Seq(Signatures)
  BY <1>7, <1>8, Flattening
<1> QED
  BY <1>1, <1>3, <1>9 DEF Signed, Signing, s, t, u

(* A note that was signed: its body, and lines of which some are signatures. *)
Formed(ls, cp, text, count, sigs) ==
  /\ ls \in Seq(Unbroken) /\ Len(ls) = count
  /\ text = CheckpointBody(cp) \o <<NL>> \o TextOf(ls)
  /\ Signing(ls) /\ Signed(ls) = sigs

NoteInv ==
  /\ signing \in CheckpointInputs
  /\ note # NoNote =>
       Writable(signing) /\ \E ls \in Seq(Unbroken) : Formed(ls, signing, note, lines, signatures)

(* A line attached to such a note leaves it such a note. *)
LEMMA LineAttached ==
  ASSUME NEW cp \in CheckpointInputs, Writable(cp), NEW ls, NEW text, NEW count, NEW sigs,
         Formed(ls, cp, text, count, sigs), NEW x \in Unbroken, SignatureOf(x) \in Seq(Signatures)
  PROVE  Formed(Append(ls, x), cp, text \o Line(x), count + 1, sigs \o SignatureOf(x))
<1>1. /\ ls \in Seq(Unbroken) /\ Len(ls) = count /\ Signing(ls) /\ Signed(ls) = sigs
      /\ text = CheckpointBody(cp) \o <<NL>> \o TextOf(ls)
  BY DEF Formed
<1>2. /\ Signing(Append(ls, x)) /\ Append(ls, x) \in Seq(Unbroken)
      /\ Signed(Append(ls, x)) = Signed(ls) \o SignatureOf(x)
  BY <1>1, SignedGrows
<1>3. NL \in Characters /\ ls \in Seq(Seq(Characters)) /\ x \in Seq(Characters)
  BY <1>1, NoteAssumption DEF Unbroken, Text
<1>4. TextOf(ls) \in Text /\ TextOf(Append(ls, x)) = TextOf(ls) \o Line(x)
  BY <1>3, TextGrows DEF Text
<1>5. CheckpointBody(cp) \in Text /\ <<NL>> \in Text /\ Line(x) \in Text
  BY <1>3, BodyIsItsLines DEF Text, Line
<1>6. CheckpointBody(cp) \o <<NL>> \in Text
  BY <1>5 DEF Text
<1>7. (CheckpointBody(cp) \o <<NL>> \o TextOf(ls)) \o Line(x)
        = CheckpointBody(cp) \o <<NL>> \o (TextOf(ls) \o Line(x))
  BY <1>4, <1>5, <1>6, ConcatAssociative DEF Text
<1>8. Len(Append(ls, x)) = count + 1
  BY <1>1
<1> QED
  BY <1>1, <1>2, <1>4, <1>7, <1>8 DEF Formed

(* A signature line is one line, which signs its signature. *)
LEMMA SignatureLineIsOne ==
  ASSUME NEW name \in KeyNames, OneLine(name), ~Has(name, Space), NEW sig \in Sigs
  PROVE  \E x \in Unbroken : /\ SignatureLine(name, sig) = Line(x)
                            /\ SignatureOf(x) \in Seq(Signatures)
                            /\ SignatureOf(x) = << [name |-> name, sig |-> sig] >>
<1> DEFINE x == Prefix \o name \o <<Space, sig>>
<1>1. name \in Text /\ Prefix \in Text /\ <<Space, sig>> \in Text
  BY NoteAssumption DEF Text, Prefix
<1>2. /\ x \in Text
      /\ \A n \in DOMAIN x :
            \/ \E i \in DOMAIN Prefix : x[n] = Prefix[i]
            \/ \E i \in DOMAIN name : x[n] = name[i]
            \/ \E i \in DOMAIN <<Space, sig>> : x[n] = <<Space, sig>>[i]
  <2> DEFINE s == Prefix \o name
             last == <<Space, sig>>
  <2>1. \A a, b \in Text :
          /\ a \o b \in Text
          /\ \A n \in DOMAIN (a \o b) :
                \/ \E i \in DOMAIN a : (a \o b)[n] = a[i]
                \/ \E i \in DOMAIN b : (a \o b)[n] = b[i]
    <3> SUFFICES ASSUME NEW a \in Text, NEW b \in Text
                 PROVE  /\ a \o b \in Text
                        /\ \A n \in DOMAIN (a \o b) :
                              \/ \E i \in DOMAIN a : (a \o b)[n] = a[i]
                              \/ \E i \in DOMAIN b : (a \o b)[n] = b[i]
      OBVIOUS
    <3>1. /\ a \o b \in Text /\ Len(a) \in Nat /\ Len(b) \in Nat
          /\ DOMAIN a = 1..Len(a) /\ DOMAIN b = 1..Len(b)
          /\ DOMAIN (a \o b) = 1..Len(a) + Len(b)
          /\ \A n \in 1..Len(a) + Len(b) :
                (a \o b)[n] = IF n <= Len(a) THEN a[n] ELSE b[n - Len(a)]
      BY ConcatProperties DEF Text
    <3>2. \A n \in 1..Len(a) + Len(b) :
            (n <= Len(a) => n \in 1..Len(a)) /\ (~(n <= Len(a)) => n - Len(a) \in 1..Len(b))
      BY <3>1
    <3> QED
      BY <3>1, <3>2
  <2>2. /\ s \in Text
        /\ \A n \in DOMAIN s :
              \/ \E i \in DOMAIN Prefix : s[n] = Prefix[i]
              \/ \E i \in DOMAIN name : s[n] = name[i]
    BY <2>1, <1>1, Zenon
  <2> HIDE DEF s, last
  <2>3. /\ s \o last \in Text
        /\ \A n \in DOMAIN (s \o last) :
              \/ \E i \in DOMAIN s : (s \o last)[n] = s[i]
              \/ \E i \in DOMAIN last : (s \o last)[n] = last[i]
    BY <2>1, <2>2, <1>1, Zenon DEF last
  <2>4. x = s \o last
    BY DEF s, last
  <2>5. last = <<Space, sig>>
    BY DEF last
  <2>6. ASSUME NEW n \in DOMAIN x
        PROVE  \/ \E i \in DOMAIN Prefix : x[n] = Prefix[i]
               \/ \E i \in DOMAIN name : x[n] = name[i]
               \/ \E i \in DOMAIN <<Space, sig>> : x[n] = <<Space, sig>>[i]
    <3> HIDE DEF x
    <3>1. CASE \E i \in DOMAIN s : x[n] = s[i]
      BY <2>2, <3>1
    <3>2. CASE \E i \in DOMAIN last : x[n] = last[i]
      BY <2>5, <3>2
    <3> QED
      BY <2>3, <2>4, <3>1, <3>2
  <2>7. x \in Text
    BY <2>3, <2>4
  <2> HIDE DEF x
  <2> QED
    BY <2>6, <2>7, Zenon
<1>3. /\ \A i \in DOMAIN Prefix : Prefix[i] # NL
      /\ \A i \in DOMAIN name : name[i] # NL
      /\ \A i \in DOMAIN <<Space, sig>> : <<Space, sig>>[i] # NL
  <2>1. \A i \in DOMAIN name : name[i] # NL
    BY DEF OneLine, Has
  <2>2. \A i \in DOMAIN Prefix : Prefix[i] # NL
    <3>1. DOMAIN Prefix = 1..2 /\ Prefix[1] = Dash /\ Prefix[2] = Space
      BY DEF Prefix
    <3>2. Dash # NL /\ Space # NL
      BY DEF Dash, Space, NL
    <3>3. \A i \in 1..2 : i = 1 \/ i = 2
      OBVIOUS
    <3> QED
      BY <3>1, <3>2, <3>3
  <2>3. \A i \in DOMAIN <<Space, sig>> : <<Space, sig>>[i] # NL
    <3>1. DOMAIN <<Space, sig>> = 1..2 /\ <<Space, sig>>[1] = Space /\ <<Space, sig>>[2] = sig
      OBVIOUS
    <3>2. sig # NL /\ Space # NL
      BY DEF Sigs, Space, NL
    <3> QED
      BY <3>1, <3>2
  <2> QED
    BY <2>1, <2>2, <2>3
<1>4. SignatureLine(name, sig) = Line(x)
  BY DEF SignatureLine
<1>5. SignatureOf(x) = << [name |-> name, sig |-> sig] >>
  BY <1>1, SignatureIsRead
<1> HIDE DEF x
<1>6. x \in Unbroken
  BY <1>2, <1>3 DEF Unbroken, Has
<1>7. << [name |-> name, sig |-> sig] >> \in Seq(Signatures)
  BY <1>1 DEF Signatures
<1> QED
  BY <1>4, <1>5, <1>6, <1>7

(* Every line that is put on a note, by whoever, leaves it one to be read. *)
LEMMA NoteStep ==
  ASSUME NoteInv, [NoteNext]_noteVars
  PROVE  NoteInv'
<1>1. ASSUME NEW name \in KeyNames, NEW remote \in BOOLEAN, SignCheckpoint(name, remote)
      PROVE  NoteInv'
  <2>1. /\ Writable(signing) /\ OneLine(name) /\ ~Has(name, Space) /\ signing' = signing
        /\ note' = CheckpointBody(signing) \o <<NL>> \o SignatureLine(name, "log signature")
        /\ lines' = 1 /\ signatures' = <<[name |-> name, sig |-> "log signature"]>>
    BY <1>1 DEF SignCheckpoint
  <2>2. "log signature" \in Sigs
    BY DEF Sigs
  <2>3. PICK x \in Unbroken :
          /\ SignatureLine(name, "log signature") = Line(x) /\ SignatureOf(x) \in Seq(Signatures)
          /\ SignatureOf(x) = << [name |-> name, sig |-> "log signature"] >>
    BY <2>1, <2>2, SignatureLineIsOne
  <2> DEFINE start == CheckpointBody(signing) \o <<NL>> \o <<>>
  <2>4. /\ CheckpointBody(signing) \o <<NL>> \in Text /\ start = CheckpointBody(signing) \o <<NL>>
    <3>1. CheckpointBody(signing) \in Text /\ <<NL>> \in Text
      <4>1. CheckpointBody(signing) \in Text
        BY <2>1, BodyIsItsLines DEF NoteInv
      <4>2. NL \in Characters
        BY NoteAssumption
      <4> QED
        BY <4>1, <4>2 DEF Text
    <3>2. CheckpointBody(signing) \o <<NL>> \in Text
      BY <3>1 DEF Text
    <3> HIDE DEF start
    <3>3. \A s \in Text : s \o <<>> = s
      BY DEF Text
    <3> QED
      BY <3>2, <3>3 DEF start
  <2>5. Formed(<<>>, signing, start, 0, <<>>)
    <3>1. <<>> \in Seq(Unbroken) /\ Len(<<>>) = 0 /\ Signing(<<>>)
      BY EmptySeq DEF Signing
    <3>2. TextOf(<<>>) = <<>>
      <4>1. <<>> \in Seq(Seq(Characters)) /\ NL \in Characters
        BY EmptySeq, NoteAssumption
      <4> QED
        BY <4>1, TextGrows
    <3>3. Signed(<<>>) = <<>>
      <4>1. [n \in DOMAIN <<>> |-> SignatureOf(<<>>[n])] = <<>>
        OBVIOUS
      <4>2. <<>> \in Seq(Seq(Characters))
        BY EmptySeq
      <4> QED
        BY <4>1, <4>2, Flattening DEF Signed
    <3> QED
      BY <3>1, <3>2, <3>3 DEF Formed
  <2> HIDE DEF start
  <2>6. Formed(Append(<<>>, x), signing, start \o Line(x), 0 + 1, <<>> \o SignatureOf(x))
    BY <2>1, <2>3, <2>5, LineAttached DEF NoteInv
  <2>7. <<>> \o SignatureOf(x) = SignatureOf(x) /\ 0 + 1 = 1 /\ start \o Line(x) = note'
    <3>1. \A s \in Seq(Signatures) : <<>> \o s = s
      OBVIOUS
    <3>2. start \o Line(x) = note'
      BY <2>1, <2>3, <2>4, Zenon
    <3>3. <<>> \o SignatureOf(x) = SignatureOf(x)
      BY <2>3, <3>1, Zenon
    <3>4. 0 + 1 = 1
      OBVIOUS
    <3> QED
      BY <3>2, <3>3, <3>4
  <2>8. Formed(Append(<<>>, x), signing, note', lines', signatures')
    BY <2>1, <2>3, <2>6, <2>7
  <2>9. Append(<<>>, x) \in Seq(Unbroken)
    BY <2>8 DEF Formed
  <2> QED
    BY <2>1, <2>8, <2>9 DEF NoteInv
<1>2. ASSUME NEW x \in Unbroken, SignatureOf(x) \in Seq(Signatures), Attach(Line(x)),
             \/ \E r : SignatureOf(x) = <<r>> /\ signatures' = Append(signatures, r)
             \/ SignatureOf(x) = <<>> /\ signatures' = signatures
      PROVE  NoteInv'
  <2>1. note # NoNote /\ note' = note \o Line(x) /\ lines' = lines + 1 /\ signing' = signing
    BY <1>2 DEF Attach
  <2>2. PICK ls \in Seq(Unbroken) : Formed(ls, signing, note, lines, signatures)
    BY <2>1 DEF NoteInv
  <2>3. Writable(signing) /\ signing \in CheckpointInputs
    BY <2>1 DEF NoteInv
  <2>4. Formed(Append(ls, x), signing, note', lines', signatures \o SignatureOf(x))
    BY <1>2, <2>1, <2>2, <2>3, LineAttached
  <2>5. Append(ls, x) \in Seq(Unbroken)
    BY <2>4 DEF Formed
  <2>6. signatures' = signatures \o SignatureOf(x)
    <3>1. signatures \in Seq(Signatures)
      BY <1>2, <2>2, SignedGrows DEF Formed
    <3>2. CASE SignatureOf(x) = <<>> /\ signatures' = signatures
      BY <3>1, <3>2
    <3>3. CASE \E r : SignatureOf(x) = <<r>> /\ signatures' = Append(signatures, r)
      <4>1. PICK r : SignatureOf(x) = <<r>> /\ signatures' = Append(signatures, r)
        BY <3>3
      <4>2. r \in Signatures
        <5>1. Len(<<r>>) = 1 /\ <<r>>[1] = r
          OBVIOUS
        <5> QED
          BY <1>2, <4>1, <5>1, ElementOfSeq
      <4> QED
        BY <3>1, <4>1, <4>2, AppendIsConcat
    <3> QED
      BY <1>2, <3>2, <3>3
  <2>7. Formed(Append(ls, x), signing', note', lines', signatures')
    BY <2>1, <2>4, <2>6
  <2> QED
    BY <2>1, <2>3, <2>5, <2>7 DEF NoteInv
<1>3. ASSUME NEW name \in KeyNames, AttachLine(name) PROVE NoteInv'
  <2>1. /\ OneLine(name) /\ ~Has(name, Space) /\ Attach(SignatureLine(name, "cosignature"))
        /\ signatures' = Append(signatures, [name |-> name, sig |-> "cosignature"])
    BY <1>3 DEF AttachLine
  <2>2. "cosignature" \in Sigs
    BY DEF Sigs
  <2>3. PICK x \in Unbroken :
          /\ SignatureLine(name, "cosignature") = Line(x) /\ SignatureOf(x) \in Seq(Signatures)
          /\ SignatureOf(x) = << [name |-> name, sig |-> "cosignature"] >>
    BY <2>1, <2>2, SignatureLineIsOne
  <2>4. Attach(Line(x))
    BY <2>1, <2>3
  <2> QED
    BY <1>2, <2>1, <2>3, <2>4
<1>4. ASSUME AttachJunk PROVE NoteInv'
  <2>1. PICK x \in JunkLines : Attach(Line(x))
    BY <1>4 DEF AttachJunk
  <2>2. x \in Unbroken /\ SignatureOf(x) = <<>>
    BY JunkSignsNothing
  <2>3. SignatureOf(x) \in Seq(Signatures)
    BY <2>2, EmptySeq
  <2>4. signatures' = signatures
    BY <1>4 DEF AttachJunk
  <2> QED
    BY <1>2, <2>1, <2>2, <2>3, <2>4
<1>5. CASE UNCHANGED noteVars
  BY <1>5 DEF noteVars, NoteInv
<1> QED
  BY <1>1, <1>3, <1>4, <1>5 DEF NoteNext

(* A note reads back as what was signed: its body to the byte, the checkpoint, *)
(* and every signature on it in order, whatever the caller's checkpoint and    *)
(* names are and whatever lines others attach, unless it is refused: too long, *)
(* with too many lines, or of an empty tree with another root.                 *)
THEOREM NotesReadBack == NoteSpec => []NoteReadsBack
<1>1. NoteInit => NoteInv
  BY DEF NoteInit, NoteInv
<1>2. NoteInv /\ [NoteNext]_noteVars => NoteInv'
  BY NoteStep
<1>3. NoteInv => NoteReadsBack
  <2> SUFFICES ASSUME NoteInv, note # NoNote PROVE NoteReadsBack
    BY DEF NoteReadsBack
  <2>1. PICK ls \in Seq(Unbroken) : Formed(ls, signing, note, lines, signatures)
    BY DEF NoteInv
  <2>2. /\ signing \in CheckpointInputs /\ Writable(signing) /\ Len(ls) = lines
        /\ note = CheckpointBody(signing) \o <<NL>> \o TextOf(ls)
        /\ FlattenSeq([n \in DOMAIN ls |-> SignatureOf(ls[n])]) = signatures
    BY <2>1 DEF NoteInv, Formed, Signed
  <2>3. ParseNote(note) =
          IF TooLong(note) \/ Len(ls) > MaxSignatureLines
             \/ (signing.treeSize = "0" /\ signing.rootHash # EmptyTreeRootHex) THEN {}
          ELSE {[checkpoint |-> signing, body |-> CheckpointBody(signing),
                 signatures |-> FlattenSeq([n \in DOMAIN ls |-> SignatureOf(ls[n])])]}
    BY <2>2, NoteIsRead
  <2> QED
    BY <2>2, <2>3 DEF NoteReadsBack
<1> QED
  BY <1>1, <1>2, <1>3, PTL DEF NoteSpec

-----------------------------------------------------------------------------
(* Typed data.  The record of what a signature covers is kept while the     *)
(* structs are visited, depth first and up to a limit: what a visit adds    *)
(* has all that it refers to, and is in every closed set of structs that    *)
(* has what was there before, so that a record that is not too deep is the  *)
(* least closed set with the primary type.  The digest of two requests is   *)
(* then followed from the top, along the fields that the gate asks for, one *)
(* struct down for an authorization and two for a permit.                   *)

TypeName == STRING \X Nat
Declarations(types) ==
  /\ DOMAIN types \subseteq TypeName
  /\ types \in [DOMAIN types -> Seq([name : STRING, type : TypeName])]

(* The least of some levels is one of them. *)
LEMMA LevelledFacts ==
  ASSUME NEW types, NEW type \in TypeName, Levelled(types, type) # {}
  PROVE  /\ Min(Levelled(types, type)) \in Nat /\ Min(Levelled(types, type)) <= type[2]
         /\ <<type[1], type[2] - Min(Levelled(types, type))>> \in DOMAIN types
<1> DEFINE L == Levelled(types, type)
<1>1. type[2] \in Nat
  BY DEF TypeName
<1>2. \A n \in L : n \in Nat /\ n <= type[2] /\ <<type[1], type[2] - n>> \in DOMAIN types
  BY <1>1 DEF Levelled, Declared
<1> HIDE DEF L
<1>3. L \in SUBSET Nat /\ L # {}
  BY <1>2 DEF L
<1>4. PICK m \in L : \A k \in L : m <= k
  BY <1>3, LeastOf
<1>5. Min(L) \in L
  BY <1>4 DEF Min
<1> QED
  BY <1>2, <1>5 DEF L

(* The reference of a field is a declared struct, or it is none. *)
LEMMA ReferenceIsDeclared ==
  ASSUME NEW types, Declarations(types), NEW type \in TypeName
  PROVE  LET ref == ResolveStructRef(types, type) IN
         \/ ref = TooDeep
         \/ ref = NoType /\ Levelled(types, type) = {}
         \/ /\ ref \in DOMAIN types /\ Levelled(types, type) # {}
            /\ ref = <<type[1], type[2] - Min(Levelled(types, type))>>
<1> DEFINE L == Levelled(types, type)
<1>1. type[2] \in Nat /\ L \subseteq Nat
  BY DEF TypeName, Levelled
<1>2. CASE L = {}
  BY <1>2 DEF ResolveStructRef
<1>3. CASE L # {}
  <2>3. Min(L) <= type[2] /\ Min(L) \in Nat
    BY <1>3, LevelledFacts
  <2>4. <<type[1], type[2] - Min(L)>> \in DOMAIN types
    BY <1>3, LevelledFacts
  <2> HIDE DEF L
  <2>5. Min(L) <= ArrayNestingLimit \/ type[2] > ArrayNestingLimit
    BY <2>3, <1>1, TypesAssumption
  <2>6. ResolveStructRef(types, type) =
          IF L # {} /\ Min(L) <= ArrayNestingLimit THEN <<type[1], type[2] - Min(L)>>
          ELSE IF type[2] > ArrayNestingLimit THEN TooDeep
          ELSE NoType
    BY DEF ResolveStructRef, L
  <2> QED
    BY <1>3, <2>4, <2>5, <2>6 DEF L
<1> QED
  BY <1>2, <1>3

(* A declared name is neither of the two that stand for none. *)
LEMMA DeclaredIsNone ==
  ASSUME NEW types, Declarations(types)
  PROVE  NoType \notin DOMAIN types /\ TooDeep \notin DOMAIN types /\ NoType # TooDeep
<1>1. \A n \in Nat : n # -1
  OBVIOUS
<1>2. TooDeep \notin TypeName /\ NoType \notin TypeName
  BY <1>1 DEF TooDeep, NoType, TypeName
<1>3. NoType # TooDeep
  BY DEF TooDeep, NoType
<1> QED
  BY <1>2, <1>3 DEF Declarations

(* What the fields of a struct refer to, by the record's resolution and by the
   digest's, which has no limits. *)
LEMMA ReferencesAre ==
  ASSUME NEW types, Declarations(types), NEW s \in DOMAIN types
  PROVE  /\ \A n \in DOMAIN types[s] :
              LET ref == ResolveStructRef(types, types[s][n].type) IN
              ref \notin {TooDeep, NoType, DomainType} => ref \in Refs(types, s) /\ ref \in DOMAIN types
         /\ \A r \in Refs(types, s) : \E n \in DOMAIN types[s] :
              /\ ResolveStructRef(types, types[s][n].type) \in {r, TooDeep}
              /\ r \notin {NoType, DomainType}
<1> DEFINE ref(type) == <<type[1], type[2] - Min(Levelled(types, type))>>
           named == {type \in {types[s][n].type : n \in DOMAIN types[s]} : Levelled(types, type) # {}}
<1>1. Refs(types, s) = {ref(type) : type \in named} \ {DomainType}
  BY DEF Refs
<1>2. \A n \in DOMAIN types[s] : types[s][n].type \in TypeName
  <2>1. types[s] \in Seq([name : STRING, type : TypeName])
    BY DEF Declarations
  <2>2. ASSUME NEW n \in DOMAIN types[s] PROVE types[s][n] \in [name : STRING, type : TypeName]
    <3>1. n \in 1..Len(types[s])
      BY <2>1
    <3> QED
      BY <2>1, <3>1, ElementOfSeq
  <2> QED
    BY <2>2
<1>3. ASSUME NEW n \in DOMAIN types[s],
             ResolveStructRef(types, types[s][n].type) \notin {TooDeep, NoType, DomainType}
      PROVE  /\ ResolveStructRef(types, types[s][n].type) \in Refs(types, s)
             /\ ResolveStructRef(types, types[s][n].type) \in DOMAIN types
  <2> DEFINE type == types[s][n].type
  <2>1. /\ ResolveStructRef(types, type) \in DOMAIN types /\ Levelled(types, type) # {}
        /\ ResolveStructRef(types, type) = ref(type)
    BY <1>2, <1>3, ReferenceIsDeclared
  <2>2. type \in named
    BY <2>1
  <2> QED
    BY <1>1, <1>3, <2>1, <2>2
<1>4. ASSUME NEW r \in Refs(types, s)
      PROVE  \E n \in DOMAIN types[s] :
               /\ ResolveStructRef(types, types[s][n].type) \in {r, TooDeep}
               /\ r \notin {NoType, DomainType}
  <2>1. PICK type \in named : r = ref(type)
    BY <1>1
  <2>2. PICK n \in DOMAIN types[s] : type = types[s][n].type
    BY <2>1
  <2>3. type \in TypeName /\ Levelled(types, type) # {}
    BY <1>2, <2>1, <2>2
  <2>4. ResolveStructRef(types, type) \in {r, TooDeep}
    BY <2>1, <2>3, ReferenceIsDeclared
  <2>5. r # NoType
    BY <2>1, <2>3, LevelledFacts, DeclaredIsNone
  <2> QED
    BY <1>1, <2>2, <2>4, <2>5
<1> QED
  BY <1>3, <1>4

(* What a visit leaves in the record: too deep, or what was there and the
   struct, with all that what is new refers to and nothing that is not
   referred to. *)
Grown(types, struct, C) == C \subseteq DOMAIN types /\ Closed(types, C) /\ struct \subseteq C

Recorded(types, struct, name, R) ==
  \/ R = {TooDeep}
  \/ /\ struct \subseteq R /\ R \subseteq DOMAIN types
     /\ name \in DOMAIN types => name \in R
     /\ \A s \in R \ struct : Refs(types, s) \subseteq R
     /\ \A C : Grown(types, struct, C) /\ name \in C => R \subseteq C

Records(visit, types, N) ==
  \A name \in N : \A struct \in SUBSET DOMAIN types :
    Recorded(types, struct, name, visit[<<name, struct>>])

(* The walk over the fields of a struct, up to one of them. *)
WalkSteps(f, visit, types, fields, start, n) ==
  f = [i \in 0..n |-> FieldStep(f, visit, types, fields, start, i)]

(* It can be computed as far as one likes. *)
LEMMA WalkStepsExist ==
  ASSUME NEW visit, NEW types, NEW fields, NEW start, NEW n \in Nat
  PROVE  \E f : WalkSteps(f, visit, types, fields, start, n)
<1> DEFINE T == {k \in Nat : ~\E f : WalkSteps(f, visit, types, fields, start, k)}
<1>1. ASSUME T # {} PROVE FALSE
  <2>1. PICK k \in T : \A m \in T : k <= m
    BY <1>1, LeastOf
  <2>2. k \in Nat /\ ~\E f : WalkSteps(f, visit, types, fields, start, k)
    BY <2>1
  <2>3. k # 0
    <3> DEFINE g == [i \in 0..0 |-> start]
    <3>1. \A i \in 0..0 : i = 0
      OBVIOUS
    <3>2. WalkSteps(g, visit, types, fields, start, 0)
      BY <3>1 DEF WalkSteps, FieldStep
    <3> QED
      BY <2>2, <3>2
  <2>4. k - 1 \in Nat /\ k - 1 \notin T
    BY <2>1, <2>2, <2>3
  <2>5. PICK f : WalkSteps(f, visit, types, fields, start, k - 1)
    BY <2>4
  <2> DEFINE g == [i \in 0..k |-> FieldStep(f, visit, types, fields, start, i)]
  <2>6. ASSUME NEW i \in 0..k - 1 PROVE g[i] = f[i]
    <3>1. i \in 0..k
      BY <2>2
    <3>2. f[i] = FieldStep(f, visit, types, fields, start, i)
      BY <2>5 DEF WalkSteps
    <3> QED
      BY <3>1, <3>2
  <2> HIDE DEF g
  <2>7. ASSUME NEW i \in 0..k
        PROVE  FieldStep(f, visit, types, fields, start, i) = FieldStep(g, visit, types, fields, start, i)
    <3>1. i # 0 => i - 1 \in 0..k - 1
      BY <2>2
    <3>2. i # 0 => g[i - 1] = f[i - 1]
      BY <2>6, <3>1
    <3> QED
      BY <3>2 DEF FieldStep
  <2>8. WalkSteps(g, visit, types, fields, start, k)
    BY <2>7 DEF g, WalkSteps
  <2> QED
    BY <2>2, <2>8
<1> QED
  BY <1>1

(* Where the walk over the fields of a struct stands after some of them. *)
Walked(types, struct, name, n, W) ==
  \/ W = {TooDeep}
  \/ /\ struct \cup {name} \subseteq W /\ W \subseteq DOMAIN types
     /\ \A s \in W \ (struct \cup {name}) : Refs(types, s) \subseteq W
     /\ \A i \in 1..n : ResolveStructRef(types, types[name][i].type) \in W \cup {NoType, DomainType}
     /\ \A C : Grown(types, struct, C) /\ name \in C => W \subseteq C

(* A field more. *)
LEMMA FieldIsWalked ==
  ASSUME NEW types, Declarations(types), NEW N, DOMAIN types \subseteq N,
         NEW visit, Records(visit, types, N), NEW name \in DOMAIN types,
         NEW struct \in SUBSET DOMAIN types, NEW n \in DOMAIN types[name], n # 0,
         NEW walk, Walked(types, struct, name, n - 1, walk[n - 1]), NEW start
  PROVE  Walked(types, struct, name, n, FieldStep(walk, visit, types, types[name], start, n))
<1> DEFINE W == walk[n - 1]
           ref == ResolveStructRef(types, types[name][n].type)
           V == FieldStep(walk, visit, types, types[name], start, n)
           R == visit[<<ref, W>>]
<1>1. n \in Nat /\ 1..n = (1..n - 1) \cup {n}
  <2>1. types[name] \in Seq([name : STRING, type : TypeName])
    BY DEF Declarations
  <2>2. n \in Nat
    BY <2>1
  <2> QED
    BY <2>2
<1>2. CASE W = {TooDeep} \/ ref = TooDeep
  BY <1>2 DEF FieldStep, Walked
<1>3. CASE ~(W = {TooDeep} \/ ref = TooDeep) /\ ref \in {NoType, DomainType}
  <2>1. V = W
    BY <1>3 DEF FieldStep
  <2> HIDE DEF V, W
  <2>2. Walked(types, struct, name, n - 1, W)
    BY DEF W
  <2> HIDE DEF ref
  <2>3. \A i \in 1..n : ResolveStructRef(types, types[name][i].type) \in W \cup {NoType, DomainType}
    <3>1. ref \in W \cup {NoType, DomainType}
      BY <1>3
    <3>2. \A i \in 1..n - 1 :
            ResolveStructRef(types, types[name][i].type) \in W \cup {NoType, DomainType}
      BY <2>2, <1>3 DEF Walked
    <3> QED
      BY <1>1, <3>1, <3>2 DEF ref
  <2>4. Walked(types, struct, name, n, W)
    BY <2>2, <2>3, <1>3, Zenon DEF Walked
  <2> QED
    BY <2>1, <2>4 DEF V
<1>4. CASE ~(W = {TooDeep} \/ ref = TooDeep) /\ ref \notin {NoType, DomainType}
  <2>1. V = R
    BY <1>4 DEF FieldStep
  <2>2. ref \in Refs(types, name) /\ ref \in DOMAIN types
    BY <1>4, ReferencesAre
  <2> HIDE DEF V, ref
  <2>3. /\ struct \cup {name} \subseteq W /\ W \subseteq DOMAIN types
        /\ \A s \in W \ (struct \cup {name}) : Refs(types, s) \subseteq W
        /\ \A i \in 1..n - 1 :
              ResolveStructRef(types, types[name][i].type) \in W \cup {NoType, DomainType}
        /\ \A C : Grown(types, struct, C) /\ name \in C => W \subseteq C
    BY <1>4 DEF Walked
  <2> HIDE DEF W
  <2>4. Recorded(types, W, ref, R)
    BY <2>2, <2>3 DEF Records
  <2> HIDE DEF R
  <2>5. CASE R = {TooDeep}
    BY <2>1, <2>5 DEF Walked, V
  <2>6. CASE R # {TooDeep}
    <3>1. /\ W \subseteq R /\ R \subseteq DOMAIN types /\ ref \in R
          /\ \A s \in R \ W : Refs(types, s) \subseteq R
          /\ \A C : Grown(types, W, C) /\ ref \in C => R \subseteq C
      BY <2>2, <2>4, <2>6 DEF Recorded
    <3>2. \A s \in R \ (struct \cup {name}) : Refs(types, s) \subseteq R
      BY <2>3, <3>1
    <3>3. \A i \in 1..n : ResolveStructRef(types, types[name][i].type) \in R \cup {NoType, DomainType}
      BY <1>1, <2>3, <3>1 DEF ref
    <3>4. ASSUME NEW C, Grown(types, struct, C), name \in C PROVE R \subseteq C
      <4>1. W \subseteq C
        BY <2>3, <3>4
      <4>2. ref \in C
        BY <2>2, <3>4 DEF Grown, Closed
      <4> QED
        BY <3>1, <3>4, <4>1, <4>2 DEF Grown
    <3>5. Walked(types, struct, name, n, R)
      BY <2>3, <3>1, <3>2, <3>3, <3>4 DEF Walked
    <3> QED
      BY <2>1, <3>5 DEF V
  <2> QED
    BY <2>5, <2>6
<1> QED
  BY <1>2, <1>3, <1>4

(* All of them: a struct that is visited is recorded with its own. *)
LEMMA FieldsAreRecorded ==
  ASSUME NEW types, Declarations(types), NEW N, DOMAIN types \subseteq N,
         NEW visit, Records(visit, types, N), NEW name \in DOMAIN types,
         NEW struct \in SUBSET DOMAIN types
  PROVE  Recorded(types, struct, name, VisitFields(visit, types, types[name], struct \cup {name}))
<1> DEFINE fields == types[name]
           start == struct \cup {name}
           walk == CHOOSE walk :
                     walk = [n \in 0..Len(fields) |-> FieldStep(walk, visit, types, fields, start, n)]
           T == {n \in Nat : n <= Len(fields) /\ ~Walked(types, struct, name, n, walk[n])}
<1>1. /\ Len(fields) \in Nat /\ DOMAIN fields = 1..Len(fields)
      /\ fields = types[name] /\ start = struct \cup {name}
  <2>1. fields \in Seq([name : STRING, type : TypeName])
    BY DEF Declarations
  <2> QED
    BY <2>1
<1> HIDE DEF fields, start
<1>2. \E f : f = [n \in 0..Len(fields) |-> FieldStep(f, visit, types, fields, start, n)]
  BY <1>1, WalkStepsExist DEF WalkSteps
<1>3. walk = [n \in 0..Len(fields) |-> FieldStep(walk, visit, types, fields, start, n)]
  BY <1>2
<1>4. VisitFields(visit, types, fields, start) = walk[Len(fields)]
  BY DEF VisitFields
<1> HIDE DEF walk
<1>5. \A n \in 0..Len(fields) : walk[n] = FieldStep(walk, visit, types, fields, start, n)
  BY <1>3
<1>6. ASSUME T # {} PROVE FALSE
  <2>1. PICK n \in T : \A m \in T : n <= m
    BY <1>6, LeastOf
  <2>2. n \in Nat /\ n <= Len(fields) /\ ~Walked(types, struct, name, n, walk[n])
    BY <2>1
  <2>3. walk[n] = FieldStep(walk, visit, types, fields, start, n)
    <3> HIDE DEF T
    <3>1. n \in 0..Len(fields)
      BY <1>1, <2>2
    <3> QED
      BY <1>5, <3>1, Zenon
  <2>4. CASE n = 0
    <3>1. walk[n] = start
      BY <2>3, <2>4 DEF FieldStep
    <3>2. Walked(types, struct, name, 0, start)
      BY <1>1 DEF Walked, Grown
    <3> QED
      BY <2>2, <2>4, <3>1, <3>2
  <2>5. CASE n # 0
    <3>1. n - 1 \in Nat /\ n - 1 <= Len(fields) /\ ~(n <= n - 1) /\ n \in DOMAIN fields
      BY <1>1, <2>2, <2>5
    <3>2. Walked(types, struct, name, n - 1, walk[n - 1])
      BY <2>1, <3>1
    <3>3. Walked(types, struct, name, n, FieldStep(walk, visit, types, fields, start, n))
      BY <1>1, <2>5, <3>1, <3>2, FieldIsWalked
    <3> QED
      BY <2>2, <2>3, <3>3
  <2> QED
    BY <2>4, <2>5
<1> DEFINE R == walk[Len(fields)]
<1>7. Walked(types, struct, name, Len(fields), R)
  BY <1>1, <1>6
<1> HIDE DEF R, T
<1>8. CASE R = {TooDeep}
  BY <1>1, <1>4, <1>8 DEF R, Recorded
<1>9. CASE R # {TooDeep}
  <2>1. /\ struct \cup {name} \subseteq R /\ R \subseteq DOMAIN types
        /\ \A s \in R \ (struct \cup {name}) : Refs(types, s) \subseteq R
        /\ \A i \in 1..Len(fields) : ResolveStructRef(types, types[name][i].type) \in R \cup {NoType, DomainType}
        /\ \A C : Grown(types, struct, C) /\ name \in C => R \subseteq C
    BY <1>7, <1>9 DEF Walked
  <2>2. Refs(types, name) \subseteq R
    <3> SUFFICES ASSUME NEW r \in Refs(types, name) PROVE r \in R
      OBVIOUS
    <3>1. PICK n \in DOMAIN types[name] :
            /\ ResolveStructRef(types, types[name][n].type) \in {r, TooDeep}
            /\ r \notin {NoType, DomainType}
      BY ReferencesAre
    <3>2. ResolveStructRef(types, types[name][n].type) \in R \cup {NoType, DomainType}
      BY <1>1, <2>1
    <3>3. TooDeep \notin R /\ TooDeep # NoType
      BY <2>1, DeclaredIsNone
    <3>4. TooDeep # DomainType
      BY DEF TooDeep, DomainType, Word
    <3> QED
      BY <3>1, <3>2, <3>3, <3>4
  <2>3. \A s \in R \ struct : Refs(types, s) \subseteq R
    BY <2>1, <2>2
  <2>4. Recorded(types, struct, name, R)
    BY <2>1, <2>3 DEF Recorded
  <2> QED
    BY <1>1, <1>4, <2>4 DEF R
<1> QED
  BY <1>8, <1>9

(* A visit is recorded as it should be when those one level down are. *)
LEMMA VisitIsRecorded ==
  ASSUME NEW types, Declarations(types), NEW N, DOMAIN types \subseteq N, NEW left \in Nat,
         NEW visit, left # 0 => Records(visit[left - 1], types, N),
         NEW name \in N, NEW struct \in SUBSET DOMAIN types
  PROVE  Recorded(types, struct, name, VisitStep(visit, types, left, name, struct))
<1> DEFINE R == VisitStep(visit, types, left, name, struct)
<1>1. CASE name \in struct
  BY <1>1 DEF VisitStep, Recorded, Grown
<1>2. CASE name \notin struct /\ left = 0
  BY <1>2 DEF VisitStep, Recorded
<1>3. CASE name \notin struct /\ left # 0 /\ name \notin DOMAIN types
  BY <1>3 DEF VisitStep, Recorded, Grown, Declared
<1>4. CASE name \notin struct /\ left # 0 /\ name \in DOMAIN types
  <2>1. VisitStep(visit, types, left, name, struct)
          = VisitFields(visit[left - 1], types, types[name], struct \cup {name})
    BY <1>4 DEF VisitStep, Declared
  <2> QED
    BY <1>4, <2>1, FieldsAreRecorded
<1> QED
  BY <1>1, <1>2, <1>3, <1>4

(* The visits of up to so many levels. *)
VisitSteps(f, types, N, n) ==
  f = [left \in 0..n |->
         [p \in N \X SUBSET DOMAIN types |-> VisitStep(f, types, left, p[1], p[2])]]

(* They can be computed as far as one likes. *)
LEMMA VisitStepsExist ==
  ASSUME NEW types, NEW N, NEW n \in Nat
  PROVE  \E f : VisitSteps(f, types, N, n)
<1> DEFINE P == N \X SUBSET DOMAIN types
           T == {k \in Nat : ~\E f : VisitSteps(f, types, N, k)}
<1> HIDE DEF P
<1>1. ASSUME T # {} PROVE FALSE
  <2>1. PICK k \in T : \A m \in T : k <= m
    BY <1>1, LeastOf
  <2>2. k \in Nat /\ ~\E f : VisitSteps(f, types, N, k)
    BY <2>1
  <2>3. k # 0
    <3> DEFINE g == [left \in 0..0 |-> [p \in P |-> VisitStep(<<>>, types, 0, p[1], p[2])]]
    <3>1. \A left \in 0..0 : left = 0
      OBVIOUS
    <3>2. \A f, name, struct :
            VisitStep(f, types, 0, name, struct) = VisitStep(<<>>, types, 0, name, struct)
      BY DEF VisitStep
    <3>3. g = [left \in 0..0 |-> [p \in P |-> VisitStep(g, types, left, p[1], p[2])]]
      BY <3>1, <3>2
    <3> QED
      BY <2>2, <3>3 DEF VisitSteps, P
  <2>4. k - 1 \in Nat /\ k - 1 \notin T
    BY <2>1, <2>2, <2>3
  <2>5. PICK f : VisitSteps(f, types, N, k - 1)
    BY <2>4
  <2> DEFINE g == [left \in 0..k |-> [p \in P |-> VisitStep(f, types, left, p[1], p[2])]]
  <2>6. ASSUME NEW left \in 0..k - 1 PROVE g[left] = f[left]
    <3>1. left \in 0..k
      BY <2>2
    <3>2. f[left] = [p \in P |-> VisitStep(f, types, left, p[1], p[2])]
      BY <2>5 DEF VisitSteps, P
    <3> QED
      BY <3>1, <3>2
  <2> HIDE DEF g
  <2>7. ASSUME NEW left \in 0..k, NEW p \in P
        PROVE  VisitStep(f, types, left, p[1], p[2]) = VisitStep(g, types, left, p[1], p[2])
    <3>1. left # 0 => left - 1 \in 0..k - 1
      BY <2>2
    <3>2. left # 0 => g[left - 1] = f[left - 1]
      BY <2>6, <3>1
    <3> QED
      BY <3>2 DEF VisitStep
  <2>8. g = [left \in 0..k |-> [p \in P |-> VisitStep(g, types, left, p[1], p[2])]]
    BY <2>7 DEF g
  <2> QED
    BY <2>2, <2>8 DEF VisitSteps, P
<1> QED
  BY <1>1

(* So is what is visited from the primary type. *)
LEMMA PrimaryIsRecorded ==
  ASSUME NEW types, Declarations(types), NEW name
  PROVE  Recorded(types, {}, name, Visit(types, name))
<1> DEFINE N == DOMAIN types \cup {name}
           K == StructNestingLimit + 1
           visit == CHOOSE visit :
                      visit = [left \in 0..K |->
                                 [p \in N \X SUBSET DOMAIN types |->
                                    VisitStep(visit, types, left, p[1], p[2])]]
           T == {k \in Nat : k <= K /\ ~Records(visit[k], types, N)}
<1>1. K \in Nat
  BY TypesAssumption
<1>2. Visit(types, name) = visit[K][<<name, {}>>]
  BY DEF Visit
<1> HIDE DEF K, N
<1>3. \E f : VisitSteps(f, types, N, K)
  BY <1>1, VisitStepsExist
<1>4. VisitSteps(visit, types, N, K)
  BY <1>3 DEF VisitSteps
<1> HIDE DEF visit
<1>5. ASSUME NEW k \in 0..K, NEW x \in N, NEW struct \in SUBSET DOMAIN types
      PROVE  visit[k][<<x, struct>>] = VisitStep(visit, types, k, x, struct)
  <2>1. visit[k] = [p \in N \X SUBSET DOMAIN types |-> VisitStep(visit, types, k, p[1], p[2])]
    BY <1>4 DEF VisitSteps
  <2> QED
    BY <2>1
<1>6. ASSUME T # {} PROVE FALSE
  <2>1. PICK k \in T : \A m \in T : k <= m
    BY <1>6, LeastOf
  <2>2. k \in Nat /\ k <= K /\ ~Records(visit[k], types, N)
    BY <2>1
  <2>3. k # 0 => Records(visit[k - 1], types, N)
    <3>1. k # 0 => k - 1 \in Nat /\ k - 1 <= K /\ ~(k <= k - 1)
      BY <1>1, <2>2
    <3> QED
      BY <2>1, <3>1
  <2>4. ASSUME NEW x \in N, NEW struct \in SUBSET DOMAIN types
        PROVE  Recorded(types, struct, x, visit[k][<<x, struct>>])
    <3>1. k \in 0..K /\ DOMAIN types \subseteq N
      BY <1>1, <2>2 DEF N
    <3>2. Recorded(types, struct, x, VisitStep(visit, types, k, x, struct))
      BY <2>2, <2>3, <3>1, VisitIsRecorded
    <3> QED
      BY <1>5, <3>1, <3>2
  <2> QED
    BY <2>2, <2>4 DEF Records
<1>7. Records(visit[K], types, N)
  BY <1>1, <1>6
<1>8. name \in N /\ {} \in SUBSET DOMAIN types
  BY DEF N
<1> QED
  BY <1>2, <1>7, <1>8 DEF Records

(* A record that is made has the structs the digest covers, and no other. *)
LEMMA RecordIsHashed ==
  ASSUME NEW t \in Typed, t.primaryType \in DOMAIN t.types, TooDeep \notin DOMAIN CommittedFieldSet(t)
  PROVE  DOMAIN CommittedFieldSet(t) = Hashed(t.types, t.primaryType)
<1> DEFINE types == t.types
           name == t.primaryType
           R == Visit(types, name)
<1>1. Declarations(types)
  BY TypesAssumption DEF Declarations, TypeName
<1>2. R # {TooDeep} /\ DOMAIN CommittedFieldSet(t) = R
  <2>1. R # {TooDeep}
    <3> SUFFICES ASSUME R = {TooDeep} PROVE FALSE
      OBVIOUS
    <3>1. CommittedFieldSet(t) = [d \in {TooDeep} |-> <<>>]
      BY DEF CommittedFieldSet
    <3> QED
      BY <3>1
  <2> QED
    BY <2>1 DEF CommittedFieldSet
<1>3. Recorded(types, {}, name, R)
  BY <1>1, PrimaryIsRecorded
<1> HIDE DEF R
<1>4. /\ R \subseteq DOMAIN types /\ name \in R /\ Closed(types, R)
      /\ \A C : Grown(types, {}, C) /\ name \in C => R \subseteq C
  BY <1>2, <1>3 DEF Recorded, Closed
<1>5. Hashed(types, name) \subseteq R
  BY <1>4 DEF Hashed
<1>6. R \subseteq Hashed(types, name)
  BY <1>4 DEF Hashed, Grown
<1> QED
  BY <1>2, <1>5, <1>6

(* The names a digest may look at: those of the fields, and what is left of
   one when brackets are taken off. *)
LEMMA TypeNamesFacts ==
  ASSUME NEW t \in Typed
  PROVE  /\ t.primaryType \in TypeNames(t)
         /\ \A s \in DOMAIN t.types : \A n \in DOMAIN t.types[s] : t.types[s][n].type \in TypeNames(t)
         /\ \A type \in TypeNames(t) : type[2] > 0 => Shorter(type) \in TypeNames(t)
<1> DEFINE Named == {t.primaryType} \cup
                      UNION {{t.types[s][n].type : n \in DOMAIN t.types[s]} : s \in DOMAIN t.types}
<1>1. TypeNames(t) = UNION {Shortened(type) : type \in Named}
  BY DEF TypeNames
<1>2. Named \subseteq TypeName
  <2>1. t.primaryType \in TypeName
    BY TypesAssumption DEF TypeName
  <2>2. ASSUME NEW s \in DOMAIN t.types, NEW n \in DOMAIN t.types[s]
        PROVE  t.types[s][n].type \in TypeName
    <3>1. t.types[s] \in Seq([name : STRING, type : TypeName])
      BY TypesAssumption DEF TypeName
    <3>2. n \in 1..Len(t.types[s])
      BY <3>1
    <3>3. t.types[s][n] \in [name : STRING, type : TypeName]
      BY <3>1, <3>2, ElementOfSeq
    <3> QED
      BY <3>3
  <2> QED
    BY <2>1, <2>2
<1> HIDE DEF Named
<1>3. ASSUME NEW type \in TypeName
      PROVE  /\ type \in Shortened(type)
             /\ \A k \in Shortened(type) : k[2] > 0 => Shorter(k) \in Shortened(type)
  <2>1. type[2] \in Nat /\ type = <<type[1], type[2]>>
    BY DEF TypeName
  <2>2. type \in Shortened(type)
    BY <2>1 DEF Shortened
  <2>3. ASSUME NEW k \in Shortened(type), k[2] > 0 PROVE Shorter(k) \in Shortened(type)
    <3>1. PICK n \in 0..type[2] : k = <<type[1], n>>
      BY DEF Shortened
    <3>2. n - 1 \in 0..type[2] /\ Shorter(k) = <<type[1], n - 1>>
      BY <2>1, <2>3, <3>1 DEF Shorter
    <3> QED
      BY <3>2 DEF Shortened
  <2> QED
    BY <2>2, <2>3
<1>4. \A type \in Named : type \in TypeNames(t)
  BY <1>1, <1>2, <1>3
<1>5. ASSUME NEW k \in TypeNames(t), k[2] > 0 PROVE Shorter(k) \in TypeNames(t)
  <2>1. PICK type \in Named : k \in Shortened(type)
    BY <1>1
  <2>2. Shorter(k) \in Shortened(type)
    BY <1>2, <1>3, <1>5, <2>1
  <2> QED
    BY <1>1, <2>2
<1> QED
  BY <1>4, <1>5 DEF Named

(* What a digest covers of some values, one step of the recursion at a time. *)
CoverSteps(f, t, S) == f = [p \in TypeNames(t) \X S |-> CoverStep(f, t.types, p[1], p[2])]

(* A step looks at the results for the parts. *)
LEMMA CoverAgrees ==
  ASSUME NEW t \in Typed, NEW f, NEW g, NEW type \in TypeNames(t), NEW x,
         \A k \in TypeNames(t) : \A y \in Parts(x) : f[<<k, y>>] = g[<<k, y>>]
  PROVE  CoverStep(f, t.types, type, x) = CoverStep(g, t.types, type, x)
<1> DEFINE types == t.types
<1>1. CASE ~Fits(types, type, x) \/ x.t \notin Containers
  BY <1>1 DEF CoverStep
<1>2. CASE Fits(types, type, x) /\ x.t \in Containers
  <2>1. \A k \in TypeNames(t) : \A i \in DOMAIN x.v : f[<<k, x.v[i]>>] = g[<<k, x.v[i]>>]
    BY <1>2 DEF Parts
  <2>2. EncodeData(f, types, type, x) = EncodeData(g, types, type, x)
    <3>1. CASE type \in DOMAIN types
      <4>1. \A n \in DOMAIN types[type] :
              /\ types[type][n].type \in TypeNames(t)
              /\ types[type][n].name \in DOMAIN x.v
        BY <1>2, <3>1, TypeNamesFacts DEF Fits, Declared, Names
      <4>2. \A n \in DOMAIN types[type] :
              f[<<types[type][n].type, x.v[types[type][n].name]>>]
                = g[<<types[type][n].type, x.v[types[type][n].name]>>]
        BY <2>1, <4>1
      <4> QED
        BY <3>1, <4>2 DEF EncodeData, Declared
    <3>2. CASE type \notin DOMAIN types
      <4>1. type[2] > 0
        BY <1>2, <3>2 DEF Fits, Declared, Containers
      <4>2. Shorter(type) \in TypeNames(t)
        BY <4>1, TypeNamesFacts
      <4>3. \A n \in DOMAIN x.v : f[<<Shorter(type), x.v[n]>>] = g[<<Shorter(type), x.v[n]>>]
        BY <2>1, <4>2
      <4> QED
        BY <3>2, <4>3 DEF EncodeData, Declared
    <3> QED
      BY <3>1, <3>2
  <2> QED
    BY <2>2 DEF CoverStep
<1> QED
  BY <1>1, <1>2

(* It reaches every part: what is covered from a level on is covered on the
   level above it. *)
LEMMA CoverStepsExist ==
  ASSUME NEW t \in Typed, NEW depth \in Nat, NestsWithin(t.message, depth)
  PROVE  \E f : CoverSteps(f, t, Within(t.message, depth))
<1> DEFINE v == t.message
           N == TypeNames(t)
           T == {k \in Nat : k <= depth + 1 /\ ~\E f : CoverSteps(f, t, Below(v, depth, depth + 1 - k))}
<1> HIDE DEF N
<1>1. ASSUME T # {} PROVE FALSE
  <2>1. PICK k \in T : \A m \in T : k <= m
    BY <1>1, LeastOf
  <2>2. k \in Nat /\ k <= depth + 1 /\ ~\E f : CoverSteps(f, t, Below(v, depth, depth + 1 - k))
    BY <2>1
  <2>3. k # 0
    <3> DEFINE g == [p \in N \X {} |-> 0]
    <3>1. N \X {} = {}
      OBVIOUS
    <3>2. g = [p \in N \X {} |-> CoverStep(g, t.types, p[1], p[2])]
      BY <3>1
    <3>3. CoverSteps(g, t, {})
      BY <3>2 DEF CoverSteps, N
    <3>4. Below(v, depth, depth + 1) = {}
      BY DEF Below
    <3> QED
      BY <2>2, <3>3, <3>4
  <2>4. k - 1 \in Nat /\ k - 1 <= depth + 1 /\ k - 1 \notin T /\ depth + 1 - (k - 1) = (depth + 1 - k) + 1
    BY <2>1, <2>2, <2>3
  <2>5. PICK n \in 0..depth : n = depth + 1 - k
    BY <2>2, <2>3
  <2>6. PICK f : CoverSteps(f, t, Below(v, depth, n + 1))
    BY <2>4, <2>5
  <2> DEFINE g == [p \in N \X Below(v, depth, n) |-> CoverStep(f, t.types, p[1], p[2])]
  <2>7. ASSUME NEW type \in N, NEW y \in Below(v, depth, n + 1) PROVE g[<<type, y>>] = f[<<type, y>>]
    <3>1. y \in Below(v, depth, n)
      BY BelowFacts
    <3>2. g[<<type, y>>] = CoverStep(f, t.types, type, y)
      BY <3>1
    <3>3. f = [p \in N \X Below(v, depth, n + 1) |-> CoverStep(f, t.types, p[1], p[2])]
      BY <2>6 DEF CoverSteps, N
    <3> HIDE DEF g
    <3>4. f[<<type, y>>] = CoverStep(f, t.types, type, y)
      BY <3>3
    <3> QED
      BY <3>2, <3>4
  <2> HIDE DEF g
  <2>8. ASSUME NEW type \in N, NEW x \in Below(v, depth, n)
        PROVE  CoverStep(f, t.types, type, x) = CoverStep(g, t.types, type, x)
    <3>1. \A y \in Parts(x) : y \in Below(v, depth, n + 1)
      BY BelowFacts
    <3>2. \A m \in TypeNames(t) : \A y \in Parts(x) : f[<<m, y>>] = g[<<m, y>>]
      BY <2>7, <3>1, Zenon DEF N
    <3>3. type \in TypeNames(t)
      BY DEF N
    <3> HIDE DEF T, v
    <3>4. \A m \in TypeNames(t) : \A z \in Parts(x) : f[<<m, z>>] = g[<<m, z>>]
      BY <3>2, Zenon
    <3> QED
      BY <3>3, <3>4, CoverAgrees, SMTT(30)
  <2>9. CoverSteps(g, t, Below(v, depth, n))
    <3>1. \A p \in N \X Below(v, depth, n) :
            CoverStep(f, t.types, p[1], p[2]) = CoverStep(g, t.types, p[1], p[2])
      BY <2>8
    <3>2. g = [p \in N \X Below(v, depth, n) |-> CoverStep(g, t.types, p[1], p[2])]
      BY <3>1 DEF g
    <3> QED
      BY <3>2 DEF CoverSteps, N
  <2> QED
    BY <2>2, <2>5, <2>9
<1>2. depth + 1 \in Nat /\ depth + 1 <= depth + 1 /\ depth + 1 - (depth + 1) = 0
  OBVIOUS
<1>3. depth + 1 \notin T
  BY <1>1
<1>4. \E f : CoverSteps(f, t, Below(v, depth, 0))
  BY <1>2, <1>3
<1> QED
  BY <1>4, BelowFacts

(* What a digest covers is computed from one recursion over the message. *)
Covers(f, t) ==
  \A type \in TypeNames(t) : \A x \in Within(t.message, MessageNesting) :
    f[<<type, x>>] = CoverStep(f, t.types, type, x)

LEMMA CoveredIs ==
  ASSUME NEW t \in Typed
  PROVE  \E f : Covers(f, t) /\ Covered(t) = f[<<t.primaryType, t.message>>]
<1> DEFINE P == TypeNames(t) \X Within(t.message, MessageNesting)
           cover == CHOOSE cover : cover = [p \in P |-> CoverStep(cover, t.types, p[1], p[2])]
<1>1. \E f : CoverSteps(f, t, Within(t.message, MessageNesting))
  BY TypesAssumption, CoverStepsExist
<1>2. \E f : f = [p \in P |-> CoverStep(f, t.types, p[1], p[2])]
  BY <1>1 DEF CoverSteps
<1>3. cover = [p \in P |-> CoverStep(cover, t.types, p[1], p[2])]
  BY <1>2
<1>4. Covered(t) = cover[<<t.primaryType, t.message>>]
  BY DEF Covered
<1> HIDE DEF cover
<1>5. Covers(cover, t)
  BY <1>3 DEF Covers
<1> QED
  BY <1>4, <1>5

(* A struct that has a digest is an object with all its fields, each of which
   has one. *)
LEMMA StructIsCovered ==
  ASSUME NEW t \in Typed, NEW f, Covers(f, t),
         NEW type \in TypeNames(t), type \in DOMAIN t.types,
         NEW x \in Within(t.message, MessageNesting), f[<<type, x>>] # Uncomputable
  PROVE  /\ x.t = "obj"
         /\ \A n \in DOMAIN t.types[type] :
              LET part == Get(x, t.types[type][n].name) IN
              /\ part \in Within(t.message, MessageNesting)
              /\ f[<<type, x>>].v[n] = f[<<t.types[type][n].type, part>>]
              /\ f[<<t.types[type][n].type, part>>] # Uncomputable
<1> DEFINE fields == t.types[type]
           data == EncodeData(f, t.types, type, x)
           c == f[<<type, x>>]
<1>1. c = CoverStep(f, t.types, type, x)
  BY DEF Covers
<1>2. x.t = "obj" /\ Names(fields) \subseteq DOMAIN x.v
  BY <1>1 DEF CoverStep, Fits, Declared
<1>3. c = [t |-> "data", v |-> data] /\ \A n \in DOMAIN data : data[n] # Uncomputable
  BY <1>1, <1>2 DEF CoverStep, Containers
<1>4. data = [n \in DOMAIN fields |-> f[<<fields[n].type, x.v[fields[n].name]>>]]
  BY DEF EncodeData, Declared
<1> HIDE DEF c, data
<1>5. Parts(x) \subseteq Within(t.message, MessageNesting)
  BY TypesAssumption, WithinFacts
<1>6. ASSUME NEW n \in DOMAIN fields
      PROVE  /\ Get(x, fields[n].name) \in Within(t.message, MessageNesting)
             /\ c.v[n] = f[<<fields[n].type, Get(x, fields[n].name)>>]
             /\ f[<<fields[n].type, Get(x, fields[n].name)>>] # Uncomputable
  <2>1. fields[n].name \in DOMAIN x.v
    BY <1>2 DEF Names
  <2>2. Get(x, fields[n].name) = x.v[fields[n].name]
    BY <1>2, <2>1 DEF Get
  <2>3. x.v[fields[n].name] \in Parts(x)
    BY <1>2, <2>1 DEF Parts, Containers
  <2>4. c.v[n] = f[<<fields[n].type, x.v[fields[n].name]>>] /\ c.v[n] # Uncomputable
    BY <1>3, <1>4
  <2> QED
    BY <1>5, <2>2, <2>3, <2>4
<1> QED
  BY <1>2, <1>6 DEF c

(* The first field of a name is a field of the name. *)
LEMMA FirstIsField ==
  ASSUME NEW fields, DOMAIN fields \subseteq Nat, NEW name, First(fields, name) # NoType
  PROVE  \E n \in DOMAIN fields : fields[n].name = name /\ fields[n].type = First(fields, name)
<1> DEFINE hits == {n \in DOMAIN fields : fields[n].name = name}
<1>1. hits # {} /\ First(fields, name) = fields[Min(hits)].type
  BY DEF First
<1>2. hits \in SUBSET Nat
  OBVIOUS
<1> HIDE DEF hits
<1>3. PICK m \in hits : \A k \in hits : m <= k
  BY <1>1, <1>2, LeastOf
<1>4. Min(hits) \in hits
  BY <1>3 DEF Min
<1> QED
  BY <1>1, <1>4 DEF hits

(* Two requests with the same types. *)
Alike(a, b) == a \in Typed /\ b \in Typed /\ a.types = b.types /\ a.primaryType = b.primaryType

(* The same digest of a struct means the same digest of a field it commits to. *)
LEMMA FieldIsFixed ==
  ASSUME NEW a, NEW b, Alike(a, b), NEW f, Covers(f, a), NEW g, Covers(g, b),
         NEW struct \in TypeNames(a), struct \in DOMAIN a.types,
         NEW x \in Within(a.message, MessageNesting), NEW y \in Within(b.message, MessageNesting),
         f[<<struct, x>>] = g[<<struct, y>>], f[<<struct, x>>] # Uncomputable,
         NEW name, NEW type, type # NoType, First(a.types[struct], name) = type
  PROVE  /\ type \in TypeNames(a) /\ x.t = "obj" /\ y.t = "obj"
         /\ Get(x, name) \in Within(a.message, MessageNesting)
         /\ Get(y, name) \in Within(b.message, MessageNesting)
         /\ f[<<type, Get(x, name)>>] = g[<<type, Get(y, name)>>]
         /\ f[<<type, Get(x, name)>>] # Uncomputable
<1> DEFINE fields == a.types[struct]
<1>1. a \in Typed /\ b \in Typed /\ b.types = a.types /\ TypeNames(b) = TypeNames(a)
  BY DEF Alike, TypeNames
<1>2. DOMAIN fields \subseteq Nat
  <2>1. fields \in Seq([name : STRING, type : STRING \X Nat])
    BY <1>1, TypesAssumption
  <2> QED
    BY <2>1
<1>3. PICK n \in DOMAIN fields : fields[n].name = name /\ fields[n].type = type
  BY <1>2, FirstIsField
<1>4. type \in TypeNames(a)
  BY <1>1, <1>3, TypeNamesFacts
<1>5. /\ x.t = "obj" /\ Get(x, name) \in Within(a.message, MessageNesting)
      /\ f[<<struct, x>>].v[n] = f[<<type, Get(x, name)>>]
      /\ f[<<type, Get(x, name)>>] # Uncomputable
  BY <1>1, <1>3, StructIsCovered
<1>6. /\ y.t = "obj" /\ Get(y, name) \in Within(b.message, MessageNesting)
      /\ g[<<struct, y>>].v[n] = g[<<type, Get(y, name)>>]
  BY <1>1, <1>3, StructIsCovered
<1> QED
  BY <1>4, <1>5, <1>6

(* The same digest of an address means the same address, and of a number the
   same amount: of a struct that has such a name there is neither. *)
LEMMA LeafIsFixed ==
  ASSUME NEW a, NEW b, Alike(a, b), NEW f, Covers(f, a), NEW g, Covers(g, b),
         NEW type \in {Address, Uint}, type \in TypeNames(a),
         NEW x \in Within(a.message, MessageNesting), NEW y \in Within(b.message, MessageNesting),
         f[<<type, x>>] = g[<<type, y>>], f[<<type, x>>] # Uncomputable
  PROVE  /\ type = Address => NormAddress(x) = NormAddress(y)
         /\ type = Uint => AsBigInt(x) = AsBigInt(y)
<1>1. a \in Typed /\ b \in Typed /\ b.types = a.types /\ TypeNames(b) = TypeNames(a)
  BY DEF Alike, TypeNames
<1>2. /\ f[<<type, x>>] = CoverStep(f, a.types, type, x)
      /\ g[<<type, y>>] = CoverStep(g, a.types, type, y)
  BY <1>1 DEF Covers
<1>3. Fits(a.types, type, x) /\ Fits(a.types, type, y)
  BY <1>2 DEF CoverStep
<1>4. CASE Declared(a.types, type)
  <2>1. x.t = "obj" /\ y.t = "obj"
    BY <1>3, <1>4 DEF Fits
  <2> QED
    BY <2>1 DEF NormAddress, AsBigInt
<1>5. CASE ~Declared(a.types, type)
  <2>1. type[2] = 0 /\ Address # Uint
    BY DEF Address, Uint, Word
  <2>2. x.t \notin Containers /\ y.t \notin Containers
    BY <1>3, <1>5, <2>1 DEF Fits
  <2>3. EncodeLeaf(type, x) = EncodeLeaf(type, y)
    BY <1>2, <1>3, <2>2 DEF CoverStep
  <2> QED
    BY <2>1, <2>3 DEF EncodeLeaf
<1> QED
  BY <1>4, <1>5

(* The same digest of a struct means the same address or the same amount in
   a field that it commits to as such. *)
LEMMA MemberIsFixed ==
  ASSUME NEW a, NEW b, Alike(a, b), NEW f, Covers(f, a), NEW g, Covers(g, b),
         NEW struct \in TypeNames(a), struct \in DOMAIN a.types,
         NEW x \in Within(a.message, MessageNesting), NEW y \in Within(b.message, MessageNesting),
         f[<<struct, x>>] = g[<<struct, y>>], f[<<struct, x>>] # Uncomputable, NEW name
  PROVE  /\ First(a.types[struct], name) = Address =>
              NormAddress(Get(x, name)) = NormAddress(Get(y, name))
         /\ First(a.types[struct], name) = Uint => AsBigInt(Get(x, name)) = AsBigInt(Get(y, name))
<1>1. ASSUME NEW type \in {Address, Uint}, First(a.types[struct], name) = type
      PROVE  /\ type = Address => NormAddress(Get(x, name)) = NormAddress(Get(y, name))
             /\ type = Uint => AsBigInt(Get(x, name)) = AsBigInt(Get(y, name))
  <2>1. type # NoType
    BY DEF Address, Uint, Word, NoType
  <2>2. /\ type \in TypeNames(a)
        /\ Get(x, name) \in Within(a.message, MessageNesting)
        /\ Get(y, name) \in Within(b.message, MessageNesting)
        /\ f[<<type, Get(x, name)>>] = g[<<type, Get(y, name)>>]
        /\ f[<<type, Get(x, name)>>] # Uncomputable
    BY <1>1, <2>1, FieldIsFixed
  <2> QED
    BY <2>2, LeafIsFixed
<1> QED
  BY <1>1

(* The digest of the domain means its chain and its contract when both are
   committed to. *)
LEMMA DomainIsFixed ==
  ASSUME NEW a, NEW b, DigestOf(a) = DigestOf(b), ~MissingDomain(a)
  PROVE  /\ a.domain["chainId"].value = b.domain["chainId"].value
         /\ a.domain["verifyingContract"].value = b.domain["verifyingContract"].value
<1> DEFINE D(t) == CommittedDomainFields(t)
           data(t) == [n \in DOMAIN D(t) |-> <<D(t)[n].name, t.domain[D(t)[n].name].value>>]
<1>1. data(a) = data(b)
  BY DEF DigestOf
<1> HIDE DEF D
<1>2. DOMAIN D(a) = DOMAIN D(b)
  BY <1>1
<1>3. ASSUME NEW name, First(D(a), name) # NoType
      PROVE  a.domain[name].value = b.domain[name].value
  <2>2. PICK n \in DOMAIN D(a) : D(a)[n].name = name
    BY <1>3 DEF First
  <2>3. data(a)[n] = <<D(a)[n].name, a.domain[D(a)[n].name].value>>
    OBVIOUS
  <2>4. data(b)[n] = <<D(b)[n].name, b.domain[D(b)[n].name].value>>
    BY <1>2
  <2> HIDE DEF data
  <2>5. D(a)[n].name = D(b)[n].name
    BY <1>1, <2>3, <2>4
  <2>6. a.domain[D(a)[n].name].value = b.domain[D(b)[n].name].value
    BY <1>1, <2>3, <2>4
  <2> QED
    BY <2>2, <2>5, <2>6
<1>4. First(D(a), "chainId") = Uint /\ First(D(a), "verifyingContract") = Address
  BY DEF D, MissingDomain, Commits
<1>5. Uint # NoType /\ Address # NoType
  BY DEF Uint, Address, Word, NoType
<1> QED
  BY <1>3, <1>4, <1>5

(* What the gate lets through commits to the struct it is signed as. *)
LEMMA PrimaryIsDeclared ==
  ASSUME NEW t \in Typed, ~Uncommitted(t)
  PROVE  t.primaryType \in DOMAIN t.types
<1>1. CASE t.primaryType = Permit
  BY <1>1 DEF Uncommitted, Missing, Declared
<1>2. CASE t.primaryType # Permit
  BY <1>2 DEF Uncommitted, Missing, Declared
<1> QED
  BY <1>1, <1>2

(* A digest of what the gate lets through means one payment: what it is told
   of an authorization is in the struct itself, and of a permit in the struct,
   the permission and the witness. *)
LEMMA DigestFixesFacts ==
  ASSUME NEW a \in Typed, ~Uncommitted(a), Hashable(a),
         NEW b \in Typed, b.types = a.types, b.primaryType = a.primaryType,
         DigestOf(b) = DigestOf(a)
  PROVE  Facts(b) = Facts(a)
<1> DEFINE types == a.types
           x == a.message
           y == b.message
           permitted == Word("TokenPermissions")
           witness == First(types[Permit], "witness")
<1>1. Alike(a, b)
  BY DEF Alike
<1>2. PICK f : Covers(f, a) /\ Covered(a) = f[<<a.primaryType, a.message>>]
  BY CoveredIs
<1>3. PICK g : Covers(g, b) /\ Covered(b) = g[<<b.primaryType, b.message>>]
  BY CoveredIs
<1>4. Covered(a) = Covered(b)
  BY DEF DigestOf
<1>5. /\ f[<<a.primaryType, x>>] = g[<<a.primaryType, y>>]
      /\ f[<<a.primaryType, x>>] # Uncomputable
  BY <1>2, <1>3, <1>4 DEF Hashable
<1>6. /\ x \in Within(a.message, MessageNesting) /\ y \in Within(b.message, MessageNesting)
      /\ a.primaryType \in TypeNames(a) /\ a.primaryType \in DOMAIN types
  BY TypesAssumption, WithinFacts, TypeNamesFacts, PrimaryIsDeclared
<1>7. /\ a.domain["chainId"].value = b.domain["chainId"].value
      /\ a.domain["verifyingContract"].value = b.domain["verifyingContract"].value
  <2>1. ~MissingDomain(a)
    BY DEF Uncommitted
  <2> QED
    BY <2>1, DomainIsFixed
<1>8. CASE a.primaryType # Permit
  <2>1. First(types[a.primaryType], "to") = Address /\ First(types[a.primaryType], "value") = Uint
    BY <1>8 DEF Uncommitted, Missing, Commits
  <2>2. /\ NormAddress(Get(x, "to")) = NormAddress(Get(y, "to"))
        /\ AsBigInt(Get(x, "value")) = AsBigInt(Get(y, "value"))
    BY <1>1, <1>2, <1>3, <1>5, <1>6, <2>1, MemberIsFixed
  <2> QED
    BY <1>7, <1>8, <2>2 DEF Facts
<1>9. CASE a.primaryType = Permit
  <2>1. /\ First(types[Permit], "permitted") = permitted /\ First(types[Permit], "spender") = Address
        /\ permitted \in DOMAIN types
        /\ First(types[permitted], "token") = Address /\ First(types[permitted], "amount") = Uint
        /\ witness # NoType /\ witness \in DOMAIN types /\ First(types[witness], "to") = Address
    BY <1>6, <1>9 DEF Uncommitted, Missing, Commits, Declared
  <2>2. NormAddress(Get(x, "spender")) = NormAddress(Get(y, "spender"))
    BY <1>1, <1>2, <1>3, <1>5, <1>6, <1>9, <2>1, MemberIsFixed
  <2>3. permitted # NoType
    BY DEF Word, NoType
  <2> HIDE DEF permitted, witness
  <2>4. /\ permitted \in TypeNames(a)
        /\ Get(x, "permitted") \in Within(a.message, MessageNesting)
        /\ Get(y, "permitted") \in Within(b.message, MessageNesting)
        /\ f[<<permitted, Get(x, "permitted")>>] = g[<<permitted, Get(y, "permitted")>>]
        /\ f[<<permitted, Get(x, "permitted")>>] # Uncomputable
    BY <1>1, <1>2, <1>3, <1>5, <1>6, <1>9, <2>1, <2>3, FieldIsFixed
  <2>5. /\ NormAddress(Get(Get(x, "permitted"), "token")) = NormAddress(Get(Get(y, "permitted"), "token"))
        /\ AsBigInt(Get(Get(x, "permitted"), "amount")) = AsBigInt(Get(Get(y, "permitted"), "amount"))
    BY <1>1, <1>2, <1>3, <2>1, <2>4, MemberIsFixed
  <2>6. /\ witness \in TypeNames(a)
        /\ Get(x, "witness") \in Within(a.message, MessageNesting)
        /\ Get(y, "witness") \in Within(b.message, MessageNesting)
        /\ f[<<witness, Get(x, "witness")>>] = g[<<witness, Get(y, "witness")>>]
        /\ f[<<witness, Get(x, "witness")>>] # Uncomputable
    <3>1. witness = First(types[Permit], "witness")
      BY DEF witness
    <3> QED
      BY <1>1, <1>2, <1>3, <1>5, <1>6, <1>9, <2>1, <3>1, FieldIsFixed
  <2>7. NormAddress(Get(Get(x, "witness"), "to")) = NormAddress(Get(Get(y, "witness"), "to"))
    BY <1>1, <1>2, <1>3, <2>1, <2>6, MemberIsFixed
  <2> QED
    BY <1>7, <1>9, <2>2, <2>5, <2>7 DEF Facts
<1> QED
  BY <1>8, <1>9

(* What has passed the gate commits to what it has to, has a digest, and is
   recorded with all the structs that the digest covers. *)
TypesInv ==
  /\ typed \in Typed
  /\ gate = "committed" =>
       /\ ~Uncommitted(typed) /\ Hashable(typed)
       /\ TooDeep \notin DOMAIN CommittedFieldSet(typed)
       /\ record = CommittedFieldSet(typed)

(* DigestFixesPayment for any declarations and any message: bytes that the
   signer signs are valid for the payment the guard judged and for no other,
   and the ledger row names every struct that they cover and no other. *)
THEOREM SignedBytesAreOnePayment == TypesSpec => []DigestFixesPayment
<1>1. TypesInit => TypesInv
  BY DEF TypesInit, TypesInv
<1>2. TypesInv /\ [TypesNext]_typesVars => TypesInv'
  <2> SUFFICES ASSUME TypesInv, [TypesNext]_typesVars PROVE TypesInv'
    OBVIOUS
  <2>1. CASE UNCHANGED typesVars
    BY <2>1 DEF TypesInv, typesVars
  <2>2. CASE Check
    <3>1. typed' = typed
      BY <2>2 DEF Check
    <3>2. gate' = "committed" =>
            /\ ~Uncommitted(typed) /\ Hashable(typed)
            /\ TooDeep \notin DOMAIN CommittedFieldSet(typed)
            /\ record' = CommittedFieldSet(typed)
      BY <2>2 DEF Check
    <3> QED
      BY <3>1, <3>2 DEF TypesInv
  <2> QED
    BY <2>1, <2>2 DEF TypesNext
<1>3. TypesInv => DigestFixesPayment
  <2> SUFFICES ASSUME TypesInv PROVE DigestFixesPayment
    OBVIOUS
  <2>1. OneDigestOnePayment
    <3> SUFFICES ASSUME gate = "committed", NEW other \in Typed, other.types = typed.types,
                        other.primaryType = typed.primaryType, DigestOf(other) = DigestOf(typed)
                 PROVE  Facts(other) = Facts(typed)
      BY DEF OneDigestOnePayment
    <3>1. typed \in Typed /\ ~Uncommitted(typed) /\ Hashable(typed)
      BY DEF TypesInv
    <3> QED
      BY <3>1, DigestFixesFacts
  <2>2. EvidenceIsComplete
    <3> SUFFICES ASSUME gate = "committed"
                 PROVE  DOMAIN record = Hashed(typed.types, typed.primaryType)
      BY DEF EvidenceIsComplete
    <3>1. /\ typed \in Typed /\ ~Uncommitted(typed)
          /\ TooDeep \notin DOMAIN CommittedFieldSet(typed) /\ record = CommittedFieldSet(typed)
      BY DEF TypesInv
    <3>2. typed.primaryType \in DOMAIN typed.types
      BY <3>1, PrimaryIsDeclared
    <3> QED
      BY <3>1, <3>2, RecordIsHashed
  <2> QED
    BY <2>1, <2>2 DEF DigestFixesPayment
<1> QED
  BY <1>1, <1>2, <1>3, PTL DEF TypesSpec

-----------------------------------------------------------------------------
(* Intents and their bytes.  What inspectIntentShape() and canonicalJson() *)
(* compute is a recursion over the levels of a value: the proofs take the  *)
(* least level at which a property fails, so every property is stated for  *)
(* one level given the next (the ...Steps and what they define), and once  *)
(* for all of them.  NamesTo, that the recursions define anything at all.    *)
(* The bytes of what lies at some level or deeper. *)
TextSteps(f, v, n) ==
  f = [d \in n..CanonicalMaxDepth + 1 |->
         [x \in Level(v, d) |->
            IF d > CanonicalMaxDepth THEN Throws ELSE SerializeStep(f[d + 1], x)]]

(* They can be computed from the deepest level up. *)
LEMMA TextStepsExist ==
  ASSUME NEW v
  PROVE  \E f : TextSteps(f, v, 0)
<1> DEFINE M == CanonicalMaxDepth
           T == {k \in Nat : k <= M + 1 /\ ~\E f : TextSteps(f, v, M + 1 - k)}
<1>0. M \in Nat
  BY ShapeAssumption
<1> HIDE DEF M
<1>1. ASSUME T # {} PROVE FALSE
  <2>1. PICK k \in T : \A m \in T : k <= m
    BY <1>1, LeastOf
  <2>2. k \in Nat /\ k <= M + 1 /\ ~\E f : TextSteps(f, v, M + 1 - k)
    BY <2>1
  <2>3. k # 0
    <3> DEFINE g == [d \in M + 1..M + 1 |-> [x \in Level(v, d) |-> Throws]]
    <3>1. \A d \in M + 1..M + 1 : d > M
      BY <1>0
    <3>2. g = [d \in M + 1..M + 1 |->
                 [x \in Level(v, d) |-> IF d > M THEN Throws ELSE SerializeStep(g[d + 1], x)]]
      BY <3>1
    <3>3. M + 1 - 0 = M + 1
      BY <1>0
    <3>4. TextSteps(g, v, M + 1)
      BY <3>2 DEF TextSteps, M
    <3> QED
      BY <2>2, <3>3, <3>4
  <2>4. k - 1 \in Nat /\ k - 1 <= M + 1 /\ k - 1 \notin T /\ M + 1 - (k - 1) = (M + 1 - k) + 1
    BY <1>0, <2>1, <2>2, <2>3
  <2>5. PICK n \in 0..M : n = M + 1 - k
    BY <1>0, <2>2, <2>3
  <2>6. PICK f : TextSteps(f, v, n + 1)
    BY <2>4, <2>5
  <2> DEFINE g == [d \in n..M + 1 |->
                     [x \in Level(v, d) |-> IF d > M THEN Throws ELSE SerializeStep(f[d + 1], x)]]
  <2>7. ASSUME NEW d \in n + 1..M + 1 PROVE g[d] = f[d]
    <3>1. d \in n..M + 1
      BY <1>0, <2>5
    <3>2. f[d] = [x \in Level(v, d) |-> IF d > M THEN Throws ELSE SerializeStep(f[d + 1], x)]
      BY <2>6 DEF TextSteps, M
    <3> QED
      BY <3>1, <3>2
  <2> HIDE DEF g
  <2>8. ASSUME NEW d \in n..M + 1
        PROVE  [x \in Level(v, d) |-> IF d > M THEN Throws ELSE SerializeStep(f[d + 1], x)]
                 = [x \in Level(v, d) |-> IF d > M THEN Throws ELSE SerializeStep(g[d + 1], x)]
    <3>1. CASE d > M
      BY <3>1
    <3>2. CASE ~(d > M)
      <4>1. d + 1 \in n + 1..M + 1
        BY <1>0, <2>5, <3>2
      <4> QED
        BY <2>7, <4>1
    <3> QED
      BY <3>1, <3>2
  <2>9. TextSteps(g, v, n)
    <3>1. g = [d \in n..M + 1 |->
                 [x \in Level(v, d) |-> IF d > M THEN Throws ELSE SerializeStep(g[d + 1], x)]]
      BY <2>8 DEF g
    <3> QED
      BY <3>1 DEF TextSteps, M
  <2> QED
    BY <2>2, <2>5, <2>9
<1>2. M + 1 \in Nat /\ M + 1 <= M + 1 /\ M + 1 - (M + 1) = 0
  BY <1>0
<1>3. M + 1 \notin T
  BY <1>1
<1> QED
  BY <1>2, <1>3

(* The output of serialize() for every part at its depth. *)
Texts(f, v) ==
  /\ \A x \in Level(v, CanonicalMaxDepth + 1) : f[CanonicalMaxDepth + 1][x] = Throws
  /\ \A d \in 0..CanonicalMaxDepth : \A x \in Level(v, d) : f[d][x] = SerializeStep(f[d + 1], x)

(* serialize() computes them, and the outermost is the canonical bytes. *)
LEMMA TextsAre ==
  ASSUME NEW v
  PROVE  \E f : Texts(f, v) /\ CanonicalJsonOf(v) = f[0][v]
<1> DEFINE M == CanonicalMaxDepth
           text == CHOOSE text :
                     text = [depth \in 0..M + 1 |->
                               [x \in Level(v, depth) |->
                                  IF depth > M THEN Throws ELSE SerializeStep(text[depth + 1], x)]]
<1>0. M \in Nat
  BY ShapeAssumption
<1>1. CanonicalJsonOf(v) = text[0][v]
  BY DEF CanonicalJsonOf
<1>2. \E f : TextSteps(f, v, 0)
  BY TextStepsExist
<1>3. TextSteps(text, v, 0)
  BY <1>2 DEF TextSteps
<1> HIDE DEF text
<1>4. ASSUME NEW d \in 0..M + 1, NEW x \in Level(v, d)
      PROVE  text[d][x] = IF d > M THEN Throws ELSE SerializeStep(text[d + 1], x)
  <2>1. text[d] = [y \in Level(v, d) |-> IF d > M THEN Throws ELSE SerializeStep(text[d + 1], y)]
    BY <1>3 DEF TextSteps
  <2> QED
    BY <2>1
<1> HIDE DEF M
<1>5. M + 1 \in 0..M + 1 /\ M + 1 > M /\ \A d \in 0..M : d \in 0..M + 1 /\ ~(d > M)
  BY <1>0
<1>6. Texts(text, v)
  BY <1>4, <1>5 DEF Texts, M
<1> QED
  BY <1>1, <1>6

(* What a value means, level by level. *)
MeaningSteps(f, v, n) ==
  f = [d \in n..CanonicalMaxDepth + 1 |->
         [x \in Level(v, d) |-> IF d > CanonicalMaxDepth THEN x ELSE MeaningStep(f[d + 1], x)]]

(* It can be computed from the deepest level up. *)
LEMMA MeaningStepsExist ==
  ASSUME NEW v
  PROVE  \E f : MeaningSteps(f, v, 0)
<1> DEFINE M == CanonicalMaxDepth
           T == {k \in Nat : k <= M + 1 /\ ~\E f : MeaningSteps(f, v, M + 1 - k)}
<1>0. M \in Nat
  BY ShapeAssumption
<1> HIDE DEF M
<1>1. ASSUME T # {} PROVE FALSE
  <2>1. PICK k \in T : \A m \in T : k <= m
    BY <1>1, LeastOf
  <2>2. k \in Nat /\ k <= M + 1 /\ ~\E f : MeaningSteps(f, v, M + 1 - k)
    BY <2>1
  <2>3. k # 0
    <3> DEFINE g == [d \in M + 1..M + 1 |-> [x \in Level(v, d) |-> x]]
    <3>1. \A d \in M + 1..M + 1 : d > M
      BY <1>0
    <3>2. g = [d \in M + 1..M + 1 |->
                 [x \in Level(v, d) |-> IF d > M THEN x ELSE MeaningStep(g[d + 1], x)]]
      BY <3>1
    <3>3. M + 1 - 0 = M + 1
      BY <1>0
    <3>4. MeaningSteps(g, v, M + 1)
      BY <3>2 DEF MeaningSteps, M
    <3> QED
      BY <2>2, <3>3, <3>4
  <2>4. k - 1 \in Nat /\ k - 1 <= M + 1 /\ k - 1 \notin T /\ M + 1 - (k - 1) = (M + 1 - k) + 1
    BY <1>0, <2>1, <2>2, <2>3
  <2>5. PICK n \in 0..M : n = M + 1 - k
    BY <1>0, <2>2, <2>3
  <2>6. PICK f : MeaningSteps(f, v, n + 1)
    BY <2>4, <2>5
  <2> DEFINE g == [d \in n..M + 1 |->
                     [x \in Level(v, d) |-> IF d > M THEN x ELSE MeaningStep(f[d + 1], x)]]
  <2>7. ASSUME NEW d \in n + 1..M + 1 PROVE g[d] = f[d]
    <3>1. d \in n..M + 1
      BY <1>0, <2>5
    <3>2. f[d] = [x \in Level(v, d) |-> IF d > M THEN x ELSE MeaningStep(f[d + 1], x)]
      BY <2>6 DEF MeaningSteps, M
    <3> QED
      BY <3>1, <3>2
  <2> HIDE DEF g
  <2>8. ASSUME NEW d \in n..M + 1
        PROVE  [x \in Level(v, d) |-> IF d > M THEN x ELSE MeaningStep(f[d + 1], x)]
                 = [x \in Level(v, d) |-> IF d > M THEN x ELSE MeaningStep(g[d + 1], x)]
    <3>1. CASE d > M
      BY <3>1
    <3>2. CASE ~(d > M)
      <4>1. d + 1 \in n + 1..M + 1
        BY <1>0, <2>5, <3>2
      <4> QED
        BY <2>7, <4>1
    <3> QED
      BY <3>1, <3>2
  <2>9. MeaningSteps(g, v, n)
    <3>1. g = [d \in n..M + 1 |->
                 [x \in Level(v, d) |-> IF d > M THEN x ELSE MeaningStep(g[d + 1], x)]]
      BY <2>8 DEF g
    <3> QED
      BY <3>1 DEF MeaningSteps, M
  <2> QED
    BY <2>2, <2>5, <2>9
<1>2. M + 1 \in Nat /\ M + 1 <= M + 1 /\ M + 1 - (M + 1) = 0
  BY <1>0
<1>3. M + 1 \notin T
  BY <1>1
<1> QED
  BY <1>2, <1>3

(* The meaning of every part. *)
Meanings(f, v) ==
  \A d \in 0..CanonicalMaxDepth : \A x \in Level(v, d) : f[d][x] = MeaningStep(f[d + 1], x)

(* The meaning of a value is that of its outermost level. *)
LEMMA MeaningsAre ==
  ASSUME NEW v
  PROVE  \E f : Meanings(f, v) /\ Meaning(v) = f[0][v]
<1> DEFINE M == CanonicalMaxDepth
           meaning == CHOOSE meaning :
                     meaning = [depth \in 0..M + 1 |->
                                  [x \in Level(v, depth) |->
                                     IF depth > M THEN x ELSE MeaningStep(meaning[depth + 1], x)]]
<1>0. M \in Nat
  BY ShapeAssumption
<1>1. Meaning(v) = meaning[0][v]
  BY DEF Meaning
<1>2. \E f : MeaningSteps(f, v, 0)
  BY MeaningStepsExist
<1>3. MeaningSteps(meaning, v, 0)
  BY <1>2 DEF MeaningSteps
<1> HIDE DEF meaning
<1>4. ASSUME NEW d \in 0..M + 1, NEW x \in Level(v, d)
      PROVE  meaning[d][x] = IF d > M THEN x ELSE MeaningStep(meaning[d + 1], x)
  <2>1. meaning[d] = [y \in Level(v, d) |-> IF d > M THEN y ELSE MeaningStep(meaning[d + 1], y)]
    BY <1>3 DEF MeaningSteps
  <2> QED
    BY <2>1
<1> HIDE DEF M
<1>5. \A d \in 0..M : d \in 0..M + 1 /\ ~(d > M)
  BY <1>0
<1>6. Meanings(meaning, v)
  BY <1>4, <1>5 DEF Meanings, M
<1> QED
  BY <1>1, <1>6

(* What a value has at a level, however deep one looks. *)
At(v, n) == Levels(v, n)[n]

(* It is the same there for every depth that one looks to. *)
LEMMA AtIs ==
  ASSUME NEW v, NEW depth \in Nat, NEW n \in 0..depth + 1
  PROVE  Levels(v, depth)[n] = At(v, n)
<1> DEFINE T == {k \in Nat :
                   k <= depth + 1 /\ ~\A m \in Nat : k <= m + 1 => Levels(v, depth)[k] = Levels(v, m)[k]}
<1>1. ASSUME T # {} PROVE FALSE
  <2>1. PICK k \in T : \A m \in T : k <= m
    BY <1>1, LeastOf
  <2>2. PICK m \in Nat :
          k \in Nat /\ k <= depth + 1 /\ k <= m + 1 /\ Levels(v, depth)[k] # Levels(v, m)[k]
    BY <2>1
  <2>3. k # 0
    BY <2>2, LevelsAre
  <2>4. PICK j \in Nat : k = j + 1 /\ j \in 0..depth /\ j \in 0..m
    <3>1. k - 1 \in Nat /\ k = (k - 1) + 1 /\ k - 1 \in 0..depth /\ k - 1 \in 0..m
      BY <2>2, <2>3
    <3> QED
      BY <3>1
  <2>5. j \notin T /\ j <= depth + 1 /\ j <= m + 1
    BY <2>1, <2>2, <2>4
  <2>6. Levels(v, depth)[j] = Levels(v, m)[j]
    BY <2>5
  <2>7. /\ Levels(v, depth)[j + 1] = UNION {Parts(x) : x \in Levels(v, depth)[j]}
        /\ Levels(v, m)[j + 1] = UNION {Parts(x) : x \in Levels(v, m)[j]}
    BY <2>4, LevelsAre
  <2> QED
    BY <2>2, <2>4, <2>6, <2>7
<1>2. n \in Nat /\ n <= depth + 1 /\ n <= n + 1 /\ n \notin T
  BY <1>1
<1> QED
  BY <1>2 DEF At

(* At first there is the value, and then what its parts are. *)
LEMMA AtFacts ==
  ASSUME NEW v
  PROVE  /\ At(v, 0) = {v}
         /\ \A n \in Nat : At(v, n + 1) = UNION {Parts(x) : x \in At(v, n)}
<1>1. At(v, 0) = {v}
  BY LevelsAre DEF At
<1>2. ASSUME NEW n \in Nat PROVE At(v, n + 1) = UNION {Parts(x) : x \in At(v, n)}
  <2>1. n \in 0..n /\ n \in 0..n + 1 /\ n + 1 \in 0..n + 1
    OBVIOUS
  <2>2. Levels(v, n)[n + 1] = UNION {Parts(x) : x \in Levels(v, n)[n]}
    BY <2>1, LevelsAre
  <2>3. Levels(v, n)[n + 1] = At(v, n + 1)
    BY <2>1, AtIs
  <2> QED
    BY <2>2, <2>3 DEF At
<1> QED
  BY <1>1, <1>2

(* A level of a value is that of its parts, one less. *)
LEMMA AtParts ==
  ASSUME NEW v, NEW n \in Nat
  PROVE  At(v, n + 1) = UNION {At(p, n) : p \in Parts(v)}
<1> DEFINE T == {k \in Nat : ~(At(v, k + 1) = UNION {At(p, k) : p \in Parts(v)})}
<1>1. ASSUME T # {} PROVE FALSE
  <2>1. PICK k \in T : \A m \in T : k <= m
    BY <1>1, LeastOf
  <2>2. k \in Nat /\ ~(At(v, k + 1) = UNION {At(p, k) : p \in Parts(v)})
    BY <2>1
  <2>3. k # 0
    <3>1. At(v, 0 + 1) = UNION {Parts(x) : x \in At(v, 0)}
      BY AtFacts
    <3>2. At(v, 0) = {v}
      BY AtFacts
    <3> HIDE DEF T
    <3>3. \A p \in Parts(v) : At(p, 0) = {p}
      BY AtFacts
    <3>4. UNION {At(p, 0) : p \in Parts(v)} = Parts(v)
      BY <3>3
    <3>5. At(v, 0 + 1) = UNION {At(p, 0) : p \in Parts(v)}
      BY <3>1, <3>2, <3>4
    <3> QED
      BY <2>2, <3>5
  <2>4. PICK j \in Nat : k = j + 1 /\ j \notin T
    <3>1. k - 1 \in Nat /\ k = (k - 1) + 1 /\ k - 1 \notin T
      BY <2>1, <2>2, <2>3
    <3> QED
      BY <3>1
  <2>5. At(v, j + 1) = UNION {At(p, j) : p \in Parts(v)}
    BY <2>4
  <2>6. At(v, (j + 1) + 1) = UNION {Parts(x) : x \in At(v, j + 1)}
    BY AtFacts
  <2>7. \A p \in Parts(v) : At(p, j + 1) = UNION {Parts(x) : x \in At(p, j)}
    BY AtFacts
  <2>8. At(v, (j + 1) + 1) = UNION {At(p, j + 1) : p \in Parts(v)}
    BY <2>5, <2>6, <2>7
  <2> QED
    BY <2>2, <2>4, <2>8
<1>2. n \notin T
  BY <1>1
<1> QED
  BY <1>2

-----------------------------------------------------------------------------
(* What serialize() takes, and takes to no more than a depth: an undefined  *)
(* value only as a property.                                                *)
Fine(x) ==
  /\ x.t \in Containers \cup {"null", "str", "num", "negzero", "undef"}
  /\ x.t = "arr" => x.v \in Seq(Parts(x)) /\ \A p \in Parts(x) : p.t # "undef"

CanBeWritten(v, n) == At(v, n + 1) = {} /\ \A m \in 0..n : \A x \in At(v, m) : Fine(x)

(* A leaf that is fine can be written. *)
LEMMA LeafIsWritable ==
  ASSUME NEW v, v.t \notin Containers, Fine(v), NEW n \in Nat
  PROVE  CanBeWritten(v, n)
<1>1. Parts(v) = {}
  BY DEF Parts
<1>2. \A m \in Nat : At(v, m + 1) = {}
  BY <1>1, AtParts
<1>3. ASSUME NEW m \in 0..n, NEW x \in At(v, m) PROVE Fine(x)
  <2>1. m = 0
    <3>1. m # 0 => m - 1 \in Nat /\ m = (m - 1) + 1
      OBVIOUS
    <3> QED
      BY <1>2, <3>1
  <2> QED
    BY <2>1, AtFacts
<1> QED
  BY <1>2, <1>3 DEF CanBeWritten

(* A container takes one level more than its parts. *)
LEMMA ContainerIsWritable ==
  ASSUME NEW v, Fine(v), NEW n \in Nat, \A p \in Parts(v) : CanBeWritten(p, n)
  PROVE  CanBeWritten(v, n + 1)
<1>1. At(v, (n + 1) + 1) = UNION {At(p, n + 1) : p \in Parts(v)}
  BY AtParts
<1>2. At(v, (n + 1) + 1) = {}
  BY <1>1 DEF CanBeWritten
<1>3. ASSUME NEW m \in 0..n + 1, NEW x \in At(v, m) PROVE Fine(x)
  <2>1. CASE m = 0
    BY <2>1, AtFacts
  <2>2. CASE m # 0
    <3>1. m - 1 \in Nat /\ m = (m - 1) + 1 /\ m - 1 \in 0..n
      BY <2>2
    <3>2. At(v, (m - 1) + 1) = UNION {At(p, m - 1) : p \in Parts(v)}
      BY <3>1, AtParts
    <3>3. PICK p \in Parts(v) : x \in At(p, m - 1)
      BY <3>1, <3>2
    <3> QED
      BY <3>1, <3>3 DEF CanBeWritten
  <2> QED
    BY <2>1, <2>2
<1> QED
  BY <1>2, <1>3 DEF CanBeWritten

PropertyNames == {KeyOrder[n] : n \in DOMAIN KeyOrder}

(* The keys in order, of the first names. *)
OrderSteps(f, keys, n) ==
  f = [i \in 0..n |-> IF i = 0 THEN <<>>
                      ELSE IF KeyOrder[i] \in keys THEN Append(f[i - 1], KeyOrder[i])
                      ELSE f[i - 1]]

(* They can be listed name by name. *)
LEMMA OrderStepsExist ==
  ASSUME NEW keys, NEW n \in Nat
  PROVE  \E f : OrderSteps(f, keys, n)
<1> DEFINE T == {k \in Nat : ~\E f : OrderSteps(f, keys, k)}
<1>1. ASSUME T # {} PROVE FALSE
  <2>1. PICK k \in T : \A m \in T : k <= m
    BY <1>1, LeastOf
  <2>2. k \in Nat /\ ~\E f : OrderSteps(f, keys, k)
    BY <2>1
  <2>3. k # 0
    <3> DEFINE g == [i \in 0..0 |-> <<>>]
    <3>1. \A i \in 0..0 : i = 0
      OBVIOUS
    <3>2. OrderSteps(g, keys, 0)
      BY <3>1 DEF OrderSteps
    <3> QED
      BY <2>2, <3>2
  <2>4. k - 1 \in Nat /\ k - 1 \notin T
    BY <2>1, <2>2, <2>3
  <2>5. PICK f : OrderSteps(f, keys, k - 1)
    BY <2>4
  <2> DEFINE g == [i \in 0..k |-> IF i = 0 THEN <<>>
                                  ELSE IF KeyOrder[i] \in keys THEN Append(f[i - 1], KeyOrder[i])
                                  ELSE f[i - 1]]
  <2>6. ASSUME NEW i \in 0..k - 1 PROVE g[i] = f[i]
    <3>1. i \in 0..k
      BY <2>2
    <3>2. f[i] = IF i = 0 THEN <<>>
                 ELSE IF KeyOrder[i] \in keys THEN Append(f[i - 1], KeyOrder[i]) ELSE f[i - 1]
      BY <2>5 DEF OrderSteps
    <3> QED
      BY <3>1, <3>2
  <2> HIDE DEF g
  <2>7. ASSUME NEW i \in 0..k, i # 0 PROVE g[i - 1] = f[i - 1]
    <3>1. i - 1 \in 0..k - 1
      BY <2>2, <2>7
    <3> QED
      BY <2>6, <3>1
  <2>8. g = [i \in 0..k |-> IF i = 0 THEN <<>>
                            ELSE IF KeyOrder[i] \in keys THEN Append(g[i - 1], KeyOrder[i])
                            ELSE g[i - 1]]
    BY <2>7 DEF g
  <2> QED
    BY <2>2, <2>8 DEF OrderSteps
<1> QED
  BY <1>1

(* InOrder() lists the keys that are names. *)
LEMMA InOrderIs ==
  ASSUME NEW keys
  PROVE  /\ InOrder(keys) \in Seq(PropertyNames)
         /\ {InOrder(keys)[i] : i \in DOMAIN InOrder(keys)} = keys \cap PropertyNames
<1> DEFINE L == Len(KeyOrder)
           upTo == CHOOSE upTo :
                     upTo = [n \in 0..L |-> IF n = 0 THEN <<>>
                                            ELSE IF KeyOrder[n] \in keys
                                            THEN Append(upTo[n - 1], KeyOrder[n])
                                            ELSE upTo[n - 1]]
           NamesTo(n) == {KeyOrder[i] : i \in 1..n}
           T == {n \in Nat : n <= L
                   /\ ~(/\ upTo[n] \in Seq(PropertyNames)
                        /\ {upTo[n][i] : i \in DOMAIN upTo[n]} = keys \cap NamesTo(n))}
<1>0. L \in Nat /\ DOMAIN KeyOrder = 1..L /\ KeyOrder \in Seq(PropertyNames)
  BY ShapeAssumption DEF PropertyNames
<1>1. InOrder(keys) = upTo[L]
  BY DEF InOrder
<1>2. \E f : OrderSteps(f, keys, L)
  BY <1>0, OrderStepsExist
<1>3. OrderSteps(upTo, keys, L)
  BY <1>2 DEF OrderSteps
<1> HIDE DEF upTo
<1>4. ASSUME NEW n \in 0..L
      PROVE  upTo[n] = IF n = 0 THEN <<>>
                       ELSE IF KeyOrder[n] \in keys THEN Append(upTo[n - 1], KeyOrder[n])
                       ELSE upTo[n - 1]
  BY <1>3 DEF OrderSteps
<1>5. ASSUME T # {} PROVE FALSE
  <2>1. PICK n \in T : \A m \in T : n <= m
    BY <1>5, LeastOf
  <2>2. n \in 0..L /\ ~(/\ upTo[n] \in Seq(PropertyNames)
                        /\ {upTo[n][i] : i \in DOMAIN upTo[n]} = keys \cap NamesTo(n))
    BY <1>0, <2>1
  <2> HIDE DEF T
  <2>3. n # 0
    <3>1. upTo[0] = <<>> /\ NamesTo(0) = {}
      BY <1>0, <1>4
    <3>2. <<>> \in Seq(PropertyNames) /\ {<<>>[i] : i \in DOMAIN <<>>} = {}
      OBVIOUS
    <3> HIDE DEF NamesTo
    <3> QED
      BY <2>2, <3>1, <3>2
  <2>4. PICK k \in Nat : n = k + 1 /\ k \in 0..L /\ k \notin T /\ n \in 1..L
    <3>1. n - 1 \in Nat /\ n = (n - 1) + 1 /\ n - 1 \in 0..L /\ n - 1 \notin T /\ n \in 1..L
      BY <1>0, <2>1, <2>2, <2>3
    <3> QED
      BY <3>1
  <2>5. upTo[k] \in Seq(PropertyNames) /\ {upTo[k][i] : i \in DOMAIN upTo[k]} = keys \cap NamesTo(k)
    BY <1>0, <2>4 DEF T
  <2>6. KeyOrder[n] \in PropertyNames /\ upTo[n] = IF KeyOrder[n] \in keys THEN Append(upTo[k], KeyOrder[n])
                                           ELSE upTo[k]
    <3>1. n - 1 = k
      BY <2>4
    <3> QED
      BY <1>0, <1>4, <2>3, <2>4, <3>1 DEF PropertyNames
  <2>7. NamesTo(n) = NamesTo(k) \cup {KeyOrder[n]}
    <3>1. 1..n = (1..k) \cup {n}
      BY <2>4
    <3> QED
      BY <3>1
  <2> HIDE DEF NamesTo
  <2>8. CASE KeyOrder[n] \in keys
    <3>1. upTo[n] = Append(upTo[k], KeyOrder[n])
      BY <2>6, <2>8
    <3>2. upTo[n] \in Seq(PropertyNames)
      BY <2>5, <2>6, <3>1
    <3>3. {upTo[n][i] : i \in DOMAIN upTo[n]} = {upTo[k][i] : i \in DOMAIN upTo[k]} \cup {KeyOrder[n]}
      <4>1. DOMAIN upTo[k] = 1..Len(upTo[k]) /\ Len(upTo[k]) \in Nat
        BY <2>5
      <4>2. DOMAIN upTo[n] = (1..Len(upTo[k])) \cup {Len(upTo[k]) + 1}
        BY <2>5, <2>6, <3>1
      <4>3. upTo[n][Len(upTo[k]) + 1] = KeyOrder[n] /\ \A i \in 1..Len(upTo[k]) : upTo[n][i] = upTo[k][i]
        BY <2>5, <2>6, <3>1
      <4> QED
        BY <4>1, <4>2, <4>3
    <3> QED
      BY <2>2, <2>5, <2>7, <2>8, <3>2, <3>3
  <2>9. CASE KeyOrder[n] \notin keys
    BY <2>2, <2>5, <2>6, <2>7, <2>9
  <2> QED
    BY <2>8, <2>9
<1> HIDE DEF T
<1>6. L \in Nat /\ L <= L /\ L \notin T
  BY <1>0, <1>5
<1>7. NamesTo(L) = PropertyNames
  BY <1>0 DEF PropertyNames
<1>8. upTo[L] \in Seq(PropertyNames) /\ {upTo[L][i] : i \in DOMAIN upTo[L]} = keys \cap PropertyNames
  BY <1>6, <1>7 DEF T
<1> QED
  BY <1>1, <1>8

-----------------------------------------------------------------------------
(* What a container's output has after each of its parts. *)
Rests(f, parts, close) ==
  f = [n \in 1..Len(parts) + 1 |-> IF n > Len(parts) THEN <<close>> ELSE parts[n] \o f[n + 1]]

RestSteps(f, parts, close, n) ==
  f = [i \in n..Len(parts) + 1 |-> IF i > Len(parts) THEN <<close>> ELSE parts[i] \o f[i + 1]]

(* It can be built from the last part back. *)
LEMMA RestsExist ==
  ASSUME NEW S, NEW parts \in Seq(S), NEW close
  PROVE  \E f : Rests(f, parts, close)
<1> DEFINE L == Len(parts)
           T == {k \in Nat : k <= L /\ ~\E f : RestSteps(f, parts, close, L + 1 - k)}
<1>0. L \in Nat
  OBVIOUS
<1> HIDE DEF L
<1>1. ASSUME T # {} PROVE FALSE
  <2>1. PICK k \in T : \A m \in T : k <= m
    BY <1>1, LeastOf
  <2>2. k \in Nat /\ k <= L /\ ~\E f : RestSteps(f, parts, close, L + 1 - k)
    BY <2>1
  <2> HIDE DEF T
  <2>3. k # 0
    <3> DEFINE g == [i \in L + 1..L + 1 |-> <<close>>]
    <3>1. \A i \in L + 1..L + 1 : i > L
      BY <1>0
    <3>2. g = [i \in L + 1..L + 1 |-> IF i > L THEN <<close>> ELSE parts[i] \o g[i + 1]]
      BY <3>1
    <3>3. L + 1 - 0 = L + 1
      BY <1>0
    <3>4. RestSteps(g, parts, close, L + 1)
      BY <3>2 DEF RestSteps, L
    <3> QED
      BY <2>2, <3>3, <3>4
  <2>4. k - 1 \in Nat /\ k - 1 <= L /\ k - 1 \notin T /\ L + 1 - (k - 1) = (L + 1 - k) + 1
    BY <1>0, <2>1, <2>2, <2>3
  <2>5. PICK n \in 1..L : n = L + 1 - k
    BY <1>0, <2>2, <2>3
  <2>6. PICK f : RestSteps(f, parts, close, n + 1)
    BY <2>4, <2>5 DEF T
  <2> DEFINE g == [i \in n..L + 1 |-> IF i > L THEN <<close>> ELSE parts[i] \o f[i + 1]]
  <2>7. ASSUME NEW i \in n + 1..L + 1 PROVE g[i] = f[i]
    <3>1. i \in n..L + 1
      BY <1>0, <2>5
    <3>2. f[i] = IF i > L THEN <<close>> ELSE parts[i] \o f[i + 1]
      BY <2>6 DEF RestSteps, L
    <3> QED
      BY <3>1, <3>2
  <2> HIDE DEF g
  <2>8. ASSUME NEW i \in n..L + 1, ~(i > L) PROVE f[i + 1] = g[i + 1]
    <3>1. i + 1 \in n + 1..L + 1
      BY <1>0, <2>5, <2>8
    <3> QED
      BY <2>7, <3>1
  <2>9. g = [i \in n..L + 1 |-> IF i > L THEN <<close>> ELSE parts[i] \o g[i + 1]]
    BY <2>8 DEF g
  <2>10. RestSteps(g, parts, close, n)
    BY <2>9 DEF RestSteps, L
  <2> QED
    BY <2>2, <2>5, <2>10
<1> HIDE DEF T
<1>2. L \in Nat /\ L <= L /\ L \notin T /\ L + 1 - L = 1
  BY <1>0, <1>1
<1>3. PICK f : RestSteps(f, parts, close, 1)
  BY <1>2 DEF T
<1> QED
  BY <1>3 DEF RestSteps, Rests

(* A container's output goes on from its opening, part by part, to its end. *)
Splits(tokens, open, parts, close, S) ==
  \E f :
    /\ tokens = <<open>> \o f[1]
    /\ f[Len(parts) + 1] = <<close>>
    /\ \A n \in 1..Len(parts) + 1 : f[n] \in Seq(S)
    /\ \A n \in 1..Len(parts) : f[n] = parts[n] \o f[n + 1]

(* It has one if none of its parts throws. *)
LEMMA JoinedIs ==
  ASSUME NEW S, NEW parts \in Seq(Seq(S)), NEW open \in S, NEW close \in S
  PROVE  \/ Joined(open, parts, close) = Throws /\ \E n \in DOMAIN parts : parts[n] = Throws
         \/ /\ \A n \in DOMAIN parts : parts[n] # Throws
            /\ Splits(Joined(open, parts, close), open, parts, close, S)
<1> DEFINE L == Len(parts)
           rest == CHOOSE rest :
                     rest = [n \in 1..L + 1 |-> IF n > L THEN <<close>> ELSE parts[n] \o rest[n + 1]]
<1>0. L \in Nat /\ DOMAIN parts = 1..L
  OBVIOUS
<1>1. Joined(open, parts, close) = IF \E n \in DOMAIN parts : parts[n] = Throws THEN Throws
                                   ELSE <<open>> \o rest[1]
  BY DEF Joined
<1>2. \E f : Rests(f, parts, close)
  BY RestsExist
<1>3. Rests(rest, parts, close)
  BY <1>2 DEF Rests
<1> HIDE DEF rest
<1>4. ASSUME NEW n \in 1..L + 1 PROVE rest[n] = IF n > L THEN <<close>> ELSE parts[n] \o rest[n + 1]
  BY <1>3 DEF Rests
<1> HIDE DEF L
<1>5. rest[L + 1] = <<close>> /\ \A n \in 1..L : rest[n] = parts[n] \o rest[n + 1]
  <2>1. L + 1 \in 1..L + 1 /\ L + 1 > L /\ \A n \in 1..L : n \in 1..L + 1 /\ ~(n > L)
    BY <1>0
  <2> QED
    BY <1>4, <2>1
<1>6. ASSUME NEW n \in 1..L + 1 PROVE rest[n] \in Seq(S)
  <2> DEFINE T == {k \in Nat : k <= L /\ ~(rest[L + 1 - k] \in Seq(S))}
  <2>1. ASSUME T # {} PROVE FALSE
    <3>1. PICK k \in T : \A m \in T : k <= m
      BY <2>1, LeastOf
    <3>2. k \in Nat /\ k <= L /\ ~(rest[L + 1 - k] \in Seq(S))
      BY <3>1
    <3> HIDE DEF T
    <3>3. k # 0
      <4>1. L + 1 - 0 = L + 1 /\ <<close>> \in Seq(S)
        BY <1>0
      <4> QED
        BY <1>5, <3>2, <4>1
    <3>4. k - 1 \in Nat /\ k - 1 <= L /\ k - 1 \notin T /\ L + 1 - (k - 1) = (L + 1 - k) + 1
          /\ L + 1 - k \in 1..L
      BY <1>0, <3>1, <3>2, <3>3
    <3>5. rest[(L + 1 - k) + 1] \in Seq(S) /\ parts[L + 1 - k] \in Seq(S)
      BY <1>0, <3>4 DEF T
    <3>6. parts[L + 1 - k] \o rest[(L + 1 - k) + 1] \in Seq(S)
      BY <3>5
    <3> QED
      BY <1>5, <3>2, <3>4, <3>6
  <2> HIDE DEF T
  <2>2. L + 1 - n \in Nat /\ L + 1 - n <= L /\ L + 1 - n \notin T /\ L + 1 - (L + 1 - n) = n
    BY <1>0, <2>1
  <2> QED
    BY <2>2 DEF T
<1>7. CASE \A n \in DOMAIN parts : parts[n] # Throws
  BY <1>1, <1>5, <1>6, <1>7 DEF L, Splits
<1> QED
  BY <1>1, <1>7

(* What output is made of, but for the text of leaves. *)
Words == {"null", "num", "0", "str", "[", "]", "{", "}", "key", "throws"} \cup PropertyNames

(* The outputs that a container's is joined from. *)
Written(x) == InOrder(Enumerated(x.v))

Outputs(text, x) ==
  IF x.t = "arr" THEN [n \in DOMAIN x.v |-> text[x.v[n]]]
  ELSE [n \in DOMAIN Written(x) |-> Property(text, Written(x)[n], x.v[Written(x)[n]])]

Opens(x) == IF x.t = "arr" THEN "[" ELSE "{"
Closes(x) == IF x.t = "arr" THEN "]" ELSE "}"

(* The output of a container is joined from these. *)
LEMMA ContainerText ==
  ASSUME NEW text, NEW x, x.t \in Containers
  PROVE  SerializeStep(text, x) = Joined(Opens(x), Outputs(text, x), Closes(x))
<1>1. CASE x.t = "arr"
  BY <1>1 DEF SerializeStep, Opens, Closes, Outputs
<1>2. CASE x.t = "obj"
  BY <1>2 DEF SerializeStep, Opens, Closes, Outputs, Written
<1> QED
  BY <1>1, <1>2 DEF Containers

(* The part that is written at some place. *)
PartAt(x, n) == IF x.t = "arr" THEN x.v[n] ELSE x.v[Written(x)[n]]

(* They are sequences of words, one for each part that is written, and one throws
   where the part does. *)
LEMMA OutputsAre ==
  ASSUME NEW text, NEW x, x.t \in Containers, x.t = "arr" => x.v \in Seq(Parts(x)),
         NEW S, Words \subseteq S, \A p \in Parts(x) : text[p] \in Seq(S)
  PROVE  /\ Outputs(text, x) \in Seq(Seq(S))
         /\ Opens(x) \in S /\ Closes(x) \in S
         /\ \A n \in DOMAIN Outputs(text, x) :
              /\ PartAt(x, n) \in Parts(x)
              /\ x.t = "obj" => PartAt(x, n).t # "undef"
              /\ Outputs(text, x)[n] = Throws <=> text[PartAt(x, n)] = Throws
<1>0. Opens(x) \in S /\ Closes(x) \in S /\ "key" \in S /\ PropertyNames \subseteq S
  BY DEF Opens, Closes, Words
<1>1. CASE x.t = "arr"
  <2>1. Outputs(text, x) = [n \in DOMAIN x.v |-> text[x.v[n]]]
    BY <1>1 DEF Outputs
  <2>2. Len(x.v) \in Nat /\ DOMAIN x.v = 1..Len(x.v) /\ \A n \in DOMAIN x.v : x.v[n] \in Parts(x)
    BY <1>1
  <2>3. [n \in 1..Len(x.v) |-> text[x.v[n]]] \in Seq(Seq(S))
    BY <2>2
  <2>4. \A n \in DOMAIN Outputs(text, x) : PartAt(x, n) = x.v[n] /\ Outputs(text, x)[n] = text[x.v[n]]
    BY <1>1, <2>1 DEF PartAt
  <2> QED
    BY <1>0, <1>1, <2>1, <2>2, <2>3, <2>4
<1>2. CASE x.t = "obj"
  <2> DEFINE keys == Written(x)
  <2>1. Outputs(text, x) = [n \in DOMAIN keys |-> Property(text, keys[n], x.v[keys[n]])]
    BY <1>2 DEF Outputs
  <2>2. keys \in Seq(PropertyNames) /\ {keys[n] : n \in DOMAIN keys} = Enumerated(x.v) \cap PropertyNames
    BY InOrderIs DEF Written
  <2> HIDE DEF keys
  <2>3. ASSUME NEW n \in DOMAIN keys
        PROVE  x.v[keys[n]] \in Parts(x) /\ x.v[keys[n]].t # "undef" /\ keys[n] \in PropertyNames
    <3>1. keys[n] \in Enumerated(x.v) /\ keys[n] \in PropertyNames
      BY <2>2
    <3> QED
      BY <3>1 DEF Enumerated, Parts
  <2>4. ASSUME NEW n \in DOMAIN keys
        PROVE  /\ Property(text, keys[n], x.v[keys[n]]) \in Seq(S)
               /\ Property(text, keys[n], x.v[keys[n]]) = Throws <=> text[x.v[keys[n]]] = Throws
    <3> DEFINE t == text[x.v[keys[n]]]
               k == keys[n]
    <3>1. Property(text, keys[n], x.v[keys[n]]) = IF t = Throws THEN Throws ELSE <<"key", k>> \o t
      BY DEF Property
    <3>2. t \in Seq(S) /\ k \in S
      BY <1>0, <2>3
    <3> HIDE DEF t, k
    <3>3. <<"key", k>> \in Seq(S)
      BY <1>0, <3>2
    <3>4. <<"key", k>> \o t \in Seq(S) /\ (<<"key", k>> \o t)[1] = "key"
      BY <3>2, <3>3
    <3>5. <<"key", k>> \o t # Throws
      <4>1. Throws[1] = "throws"
        BY DEF Throws
      <4> QED
        BY <3>4, <4>1
    <3>6. Throws \in Seq(S)
      <4>1. "throws" \in S
        BY DEF Words
      <4> QED
        BY <4>1 DEF Throws
    <3> QED
      BY <3>1, <3>4, <3>5, <3>6 DEF t
  <2>5. DOMAIN keys = 1..Len(keys) /\ Len(keys) \in Nat
    BY <2>2
  <2>6. [n \in 1..Len(keys) |-> Property(text, keys[n], x.v[keys[n]])] \in Seq(Seq(S))
    BY <2>4, <2>5
  <2>7. Outputs(text, x) \in Seq(Seq(S)) /\ DOMAIN Outputs(text, x) = DOMAIN keys
    BY <2>1, <2>5, <2>6
  <2>8. \A n \in DOMAIN keys : PartAt(x, n) = x.v[keys[n]]
    BY <1>2 DEF PartAt, keys
  <2>9. \A n \in DOMAIN keys : Outputs(text, x)[n] = Property(text, keys[n], x.v[keys[n]])
    BY <2>1
  <2>10. ASSUME NEW n \in DOMAIN Outputs(text, x)
         PROVE  /\ PartAt(x, n) \in Parts(x) /\ PartAt(x, n).t # "undef"
                /\ Outputs(text, x)[n] = Throws <=> text[PartAt(x, n)] = Throws
    <3>1. n \in DOMAIN keys
      BY <2>7
    <3>2. PartAt(x, n) = x.v[keys[n]] /\ Outputs(text, x)[n] = Property(text, keys[n], x.v[keys[n]])
      BY <2>8, <2>9, <3>1, Zenon
    <3> QED
      BY <2>3, <2>4, <3>1, <3>2, Zenon
  <2> QED
    BY <1>0, <2>7, <2>10
<1> QED
  BY <1>1, <1>2 DEF Containers

(* What output it has: that of all its parts. *)
ContainerWrites(text, x, S) ==
  /\ \A n \in DOMAIN Outputs(text, x) : text[PartAt(x, n)] # Throws
  /\ Splits(SerializeStep(text, x), Opens(x), Outputs(text, x), Closes(x), S)

(* A container throws where one of its written parts does, and only there. *)
LEMMA ContainerIsWritten ==
  ASSUME NEW text, NEW x, x.t \in Containers, x.t = "arr" => x.v \in Seq(Parts(x)),
         NEW S, Words \subseteq S, \A p \in Parts(x) : text[p] \in Seq(S)
  PROVE  /\ SerializeStep(text, x) \in Seq(S)
         /\ SerializeStep(text, x) # Throws => ContainerWrites(text, x, S)
         /\ (\A n \in DOMAIN Outputs(text, x) : text[PartAt(x, n)] # Throws)
              => SerializeStep(text, x) # Throws
<1> DEFINE parts == Outputs(text, x)
           open == Opens(x)
           close == Closes(x)
<1>1. /\ parts \in Seq(Seq(S)) /\ open \in S /\ close \in S
      /\ \A n \in DOMAIN parts : parts[n] = Throws <=> text[PartAt(x, n)] = Throws
  BY OutputsAre
<1>2. SerializeStep(text, x) = Joined(open, parts, close)
  BY ContainerText
<1>3. Throws \in Seq(S)
  <2>1. "throws" \in S
    BY DEF Words
  <2> QED
    BY <2>1 DEF Throws
<1>4. open # "throws"
  BY DEF Opens
<1> HIDE DEF parts, open, close
<1>5. CASE SerializeStep(text, x) = Throws /\ \E n \in DOMAIN parts : parts[n] = Throws
  BY <1>1, <1>3, <1>5 DEF parts
<1>6. ASSUME \A n \in DOMAIN parts : parts[n] # Throws,
             Splits(SerializeStep(text, x), open, parts, close, S)
      PROVE  /\ SerializeStep(text, x) \in Seq(S) /\ SerializeStep(text, x) # Throws
             /\ ContainerWrites(text, x, S)
  <2>1. PICK f : SerializeStep(text, x) = <<open>> \o f[1] /\ \A n \in 1..Len(parts) + 1 : f[n] \in Seq(S)
    BY <1>6 DEF Splits
  <2>2. 1 \in 1..Len(parts) + 1
    BY <1>1
  <2>3. f[1] \in Seq(S) /\ <<open>> \in Seq(S)
    BY <1>1, <2>1, <2>2
  <2>4. <<open>> \o f[1] \in Seq(S) /\ (<<open>> \o f[1])[1] = open
    BY <2>3
  <2>5. Throws[1] = "throws"
    BY DEF Throws
  <2>6. <<open>> \o f[1] # Throws
    BY <1>4, <2>4, <2>5
  <2>7. ContainerWrites(text, x, S)
    BY <1>1, <1>6 DEF ContainerWrites, parts, open, close
  <2> QED
    BY <2>1, <2>4, <2>6, <2>7
<1>7. \/ SerializeStep(text, x) = Throws /\ \E n \in DOMAIN parts : parts[n] = Throws
      \/ (\A n \in DOMAIN parts : parts[n] # Throws)
           /\ Splits(SerializeStep(text, x), open, parts, close, S)
  <2>1. \/ Joined(open, parts, close) = Throws /\ \E n \in DOMAIN parts : parts[n] = Throws
        \/ (\A n \in DOMAIN parts : parts[n] # Throws)
             /\ Splits(Joined(open, parts, close), open, parts, close, S)
    BY <1>1, JoinedIs
  <2> QED
    BY <1>2, <2>1, Zenon
<1> QED
  BY <1>1, <1>5, <1>6, <1>7 DEF parts

(* A leaf throws if JSON has no word for it. *)
LEMMA LeafIsWritten ==
  ASSUME NEW text, NEW x, x.t \notin Containers, NEW S, Words \subseteq S, x.v \in S
  PROVE  /\ SerializeStep(text, x) = LeafTokens(x)
         /\ LeafTokens(x) \in Seq(S)
         /\ LeafTokens(x) = Throws <=> x.t \notin {"null", "negzero", "str", "num"}
<1>1. SerializeStep(text, x) = LeafTokens(x)
  BY DEF SerializeStep, Containers
<1>2. "null" \in S /\ "num" \in S /\ "str" \in S /\ "0" \in S /\ "throws" \in S
  BY DEF Words
<1>3. LeafTokens(x) \in Seq(S)
  BY <1>2 DEF LeafTokens, Throws
<1>4. LeafTokens(x) = Throws <=> x.t \notin {"null", "negzero", "str", "num"}
  <2>1. <<"null">> # Throws
    BY DEF Throws
  <2>2. \A a, b : <<a, b>> # Throws
    BY DEF Throws
  <2> QED
    BY <2>1, <2>2 DEF LeafTokens
<1> QED
  BY <1>1, <1>3, <1>4

(* The levels of the serializer are those of the value. *)
LEMMA LevelIs ==
  ASSUME NEW v
  PROVE  /\ \A d \in 0..CanonicalMaxDepth + 1 : Level(v, d) = At(v, d)
         /\ \A d \in 0..CanonicalMaxDepth : \A x \in Level(v, d) : Parts(x) \subseteq Level(v, d + 1)
<1>0. CanonicalMaxDepth \in Nat
  BY ShapeAssumption
<1>1. \A d \in 0..CanonicalMaxDepth + 1 : Level(v, d) = At(v, d)
  BY <1>0, AtIs DEF Level
<1>2. \A d \in 0..CanonicalMaxDepth : Level(v, d + 1) = UNION {Parts(x) : x \in Level(v, d)}
  BY <1>0, LevelsAre DEF Level
<1> QED
  BY <1>1, <1>2

(* S has the words that the output of a value is made of. *)
Spells(S, v) ==
  /\ Words \subseteq S
  /\ \A d \in 0..CanonicalMaxDepth : \A x \in Level(v, d) :
       x.v \in S /\ (x.t = "arr" => x.v \in Seq(Parts(x)))

(* All that serialize() returns is a sequence of these words. *)
LEMMA TextsAreWords ==
  ASSUME NEW v, NEW f, Texts(f, v), NEW S, Spells(S, v)
  PROVE  \A d \in 0..CanonicalMaxDepth + 1 : \A x \in Level(v, d) : f[d][x] \in Seq(S)
<1> DEFINE M == CanonicalMaxDepth
           T == {k \in Nat : k <= M + 1 /\ \E x \in Level(v, M + 1 - k) : f[M + 1 - k][x] \notin Seq(S)}
<1>0. M \in Nat
  BY ShapeAssumption
<1> HIDE DEF M
<1>1. ASSUME T # {} PROVE FALSE
  <2>1. PICK k \in T : \A m \in T : k <= m
    BY <1>1, LeastOf
  <2>2. PICK x \in Level(v, M + 1 - k) : k \in Nat /\ k <= M + 1 /\ f[M + 1 - k][x] \notin Seq(S)
    BY <2>1
  <2> HIDE DEF T
  <2>3. k # 0
    <3>1. ASSUME k = 0 PROVE FALSE
      <4>1. M + 1 - k = M + 1
        BY <1>0, <3>1
      <4>2. f[M + 1][x] = Throws
        BY <2>2, <4>1 DEF Texts, M
      <4>3. "throws" \in S
        BY DEF Spells, Words
      <4>4. Throws \in Seq(S)
        BY <4>3 DEF Throws
      <4> QED
        BY <2>2, <4>1, <4>2, <4>4
    <3> QED
      BY <3>1
  <2>4. PICK d \in 0..M : M + 1 - k = d /\ k - 1 \in Nat /\ k - 1 <= M + 1 /\ k - 1 \notin T
                          /\ M + 1 - (k - 1) = d + 1
    <3>1. /\ M + 1 - k \in 0..M /\ k - 1 \in Nat /\ k - 1 <= M + 1 /\ k - 1 \notin T
          /\ M + 1 - (k - 1) = (M + 1 - k) + 1
      BY <1>0, <2>1, <2>2, <2>3
    <3> QED
      BY <3>1
  <2>5. x \in Level(v, d) /\ f[d][x] \notin Seq(S)
    BY <2>2, <2>4
  <2>6. \A y \in Level(v, d + 1) : f[d + 1][y] \in Seq(S)
    BY <2>4 DEF T
  <2>7. \A p \in Parts(x) : f[d + 1][p] \in Seq(S)
    BY <2>4, <2>5, <2>6, LevelIs DEF M
  <2>8. f[d][x] = SerializeStep(f[d + 1], x)
    BY <2>4, <2>5 DEF Texts, M
  <2>9. Words \subseteq S /\ x.v \in S /\ (x.t = "arr" => x.v \in Seq(Parts(x)))
    BY <2>4, <2>5 DEF Spells, M
  <2> DEFINE g == f[d + 1]
  <2>10. \A p \in Parts(x) : g[p] \in Seq(S)
    BY <2>7
  <2> HIDE DEF g
  <2>11. SerializeStep(g, x) \in Seq(S)
    <3>1. CASE x.t \in Containers
      BY <2>9, <2>10, <3>1, ContainerIsWritten
    <3>2. CASE x.t \notin Containers
      BY <2>9, <3>2, LeafIsWritten
    <3> QED
      BY <3>1, <3>2
  <2> QED
    BY <2>5, <2>8, <2>11 DEF g
<1> HIDE DEF T
<1>2. ASSUME NEW d \in 0..M + 1, NEW x \in Level(v, d) PROVE f[d][x] \in Seq(S)
  <2>1. M + 1 - d \in Nat /\ M + 1 - d <= M + 1 /\ M + 1 - d \notin T /\ M + 1 - (M + 1 - d) = d
    BY <1>0, <1>1
  <2> QED
    BY <2>1 DEF T
<1> QED
  BY <1>2 DEF M

(* There are enough words for all values. *)
LEMMA WordsExist ==
  ASSUME NEW v, NEW w,
         \A d \in 0..CanonicalMaxDepth : \A x \in Level(v, d) \cup Level(w, d) :
           x.t = "arr" => x.v \in Seq(Parts(x))
  PROVE  \E S : Spells(S, v) /\ Spells(S, w)
<1> DEFINE S == Words \cup UNION {{x.v : x \in Level(v, d) \cup Level(w, d)} : d \in 0..CanonicalMaxDepth}
<1>1. Spells(S, v) /\ Spells(S, w)
  BY DEF Spells
<1> QED
  BY <1>1

-----------------------------------------------------------------------------
(* What may be written of an intent is written in its row. *)
LEMMA AllIsWritten ==
  ASSUME NEW v, CanBeWritten(v, CanonicalMaxDepth), v.t # "undef"
  PROVE  CanonicalJsonOf(v) # Throws
<1> DEFINE M == CanonicalMaxDepth
<1>0. M \in Nat
  BY ShapeAssumption
<1>1. PICK f : Texts(f, v) /\ CanonicalJsonOf(v) = f[0][v]
  BY TextsAre
<1>2. /\ \A d \in 0..M : \A x \in Level(v, d) : Fine(x)
      /\ Level(v, M + 1) = {}
  <2>1. M + 1 \in 0..M + 1 /\ 0..M \subseteq 0..M + 1
    BY <1>0
  <2> QED
    BY <2>1, LevelIs DEF CanBeWritten
<1>3. PICK S : Spells(S, v)
  BY <1>2, WordsExist DEF Fine
<1>4. \A d \in 0..M + 1 : \A x \in Level(v, d) : f[d][x] \in Seq(S)
  BY <1>1, <1>3, TextsAreWords
<1> DEFINE T == {k \in Nat : k <= M + 1
                   /\ \E x \in Level(v, M + 1 - k) : x.t # "undef" /\ f[M + 1 - k][x] = Throws}
<1> HIDE DEF M
<1>5. ASSUME T # {} PROVE FALSE
  <2>1. PICK k \in T : \A m \in T : k <= m
    BY <1>5, LeastOf
  <2>2. PICK x \in Level(v, M + 1 - k) : /\ k \in Nat /\ k <= M + 1 /\ x.t # "undef"
                                         /\ f[M + 1 - k][x] = Throws
    BY <2>1
  <2> HIDE DEF T
  <2>3. k # 0
    <3>1. ASSUME k = 0 PROVE FALSE
      <4>1. M + 1 - k = M + 1
        BY <1>0, <3>1
      <4> QED
        BY <1>2, <2>2, <4>1
    <3> QED
      BY <3>1
  <2>4. PICK d \in 0..M : M + 1 - k = d /\ k - 1 \in Nat /\ k - 1 <= M + 1 /\ k - 1 \notin T
                          /\ M + 1 - (k - 1) = d + 1 /\ d + 1 \in 0..M + 1
    <3>1. /\ M + 1 - k \in 0..M /\ k - 1 \in Nat /\ k - 1 <= M + 1 /\ k - 1 \notin T
          /\ M + 1 - (k - 1) = (M + 1 - k) + 1 /\ (M + 1 - k) + 1 \in 0..M + 1
      BY <1>0, <2>1, <2>2, <2>3
    <3> QED
      BY <3>1
  <2>5. x \in Level(v, d) /\ f[d][x] = Throws /\ Fine(x) /\ f[d][x] = SerializeStep(f[d + 1], x)
    BY <1>1, <1>2, <2>2, <2>4 DEF Texts, M
  <2>6. \A y \in Level(v, d + 1) : y.t # "undef" => f[d + 1][y] # Throws
    BY <2>4 DEF T
  <2>7. Parts(x) \subseteq Level(v, d + 1)
    BY <2>4, <2>5, LevelIs DEF M
  <2>8. Words \subseteq S /\ x.v \in S /\ (x.t = "arr" => x.v \in Seq(Parts(x)))
    BY <1>3, <2>4, <2>5 DEF Spells, M
  <2> DEFINE g == f[d + 1]
  <2>9. \A p \in Parts(x) : g[p] \in Seq(S) /\ (p.t # "undef" => g[p] # Throws)
    BY <1>4, <2>4, <2>6, <2>7
  <2> HIDE DEF g
  <2>10. SerializeStep(g, x) # Throws
    <3>1. CASE x.t \in Containers
      <4>1. \A n \in DOMAIN Outputs(g, x) :
              PartAt(x, n) \in Parts(x) /\ (x.t = "obj" => PartAt(x, n).t # "undef")
        BY <2>8, <2>9, <3>1, OutputsAre
      <4>2. \A n \in DOMAIN Outputs(g, x) : g[PartAt(x, n)] # Throws
        BY <2>5, <2>9, <3>1, <4>1 DEF Fine, Containers
      <4> QED
        BY <2>8, <2>9, <3>1, <4>2, ContainerIsWritten
    <3>2. CASE x.t \notin Containers
      <4>1. x.t \in {"null", "negzero", "str", "num"}
        BY <2>2, <2>5, <3>2 DEF Fine
      <4> QED
        BY <2>8, <3>2, <4>1, LeafIsWritten
    <3> QED
      BY <3>1, <3>2
  <2> QED
    BY <2>5, <2>10 DEF g
<1> HIDE DEF T
<1>6. M + 1 \in Nat /\ M + 1 <= M + 1 /\ M + 1 - (M + 1) = 0 /\ M + 1 \notin T
  BY <1>0, <1>5
<1>7. v \in Level(v, 0)
  <2>1. 0 \in 0..M + 1
    BY <1>0
  <2>2. Level(v, 0) = At(v, 0)
    BY <2>1, LevelIs DEF M
  <2> QED
    BY <2>2, AtFacts
<1> QED
  BY <1>1, <1>6, <1>7 DEF T

(* The envelope takes two levels. *)
LEMMA EnvelopeIsWritten ==
  ASSUME NEW v, CanBeWritten(v, MaxIntentDepth + 1), v.t # "undef"
  PROVE  CanonicalJsonOf(Envelope(v)) # Throws
<1> DEFINE inner == Obj([key \in {"intent"} |-> v])
           N == MaxIntentDepth + 1
<1>0. N \in Nat /\ (N + 1) + 1 = CanonicalMaxDepth /\ N + 1 \in Nat
  BY ShapeAssumption DEF MaxIntentDepth, EntryEnvelopeDepth
<1>1. Envelope(v) = Obj([data \in {"data"} |-> inner])
  BY DEF Envelope
<1>2. inner.t = "obj" /\ Parts(inner) = {v}
  BY DEF Obj, Parts, Containers
<1> HIDE DEF inner
<1>3. Envelope(v).t = "obj" /\ Parts(Envelope(v)) = {inner}
  BY <1>1 DEF Obj, Parts, Containers
<1>4. Fine(inner) /\ Fine(Envelope(v)) /\ Envelope(v).t # "undef"
  BY <1>2, <1>3 DEF Fine, Containers
<1>5. CanBeWritten(v, N)
  OBVIOUS
<1> HIDE DEF N
<1>6. CanBeWritten(inner, N + 1)
  BY <1>0, <1>2, <1>4, <1>5, ContainerIsWritable
<1>7. CanBeWritten(Envelope(v), (N + 1) + 1)
  BY <1>0, <1>3, <1>4, <1>6, ContainerIsWritable
<1>8. CanBeWritten(Envelope(v), CanonicalMaxDepth)
  BY <1>0, <1>7
<1> QED
  BY <1>4, <1>8, AllIsWritten

-----------------------------------------------------------------------------
(* The ways into what lies at some level or deeper. *)
PlacesSteps(f, v, depth, n) ==
  f = [i \in n..depth + 1 |->
         [x \in Levels(v, depth)[i] |-> IF i > depth THEN {<<>>} ELSE PlacesStep(f[i + 1], x)]]

(* They can be collected from the deepest level up. *)
LEMMA PlacesStepsExist ==
  ASSUME NEW v, NEW M \in Nat
  PROVE  \E f : PlacesSteps(f, v, M, 0)
<1> DEFINE T == {k \in Nat : k <= M + 1 /\ ~\E f : PlacesSteps(f, v, M, M + 1 - k)}
<1>1. ASSUME T # {} PROVE FALSE
  <2>1. PICK k \in T : \A m \in T : k <= m
    BY <1>1, LeastOf
  <2>2. k \in Nat /\ k <= M + 1 /\ ~\E f : PlacesSteps(f, v, M, M + 1 - k)
    BY <2>1
  <2>3. k # 0
    <3> DEFINE g == [d \in M + 1..M + 1 |-> [x \in Levels(v, M)[d] |-> {<<>>}]]
    <3>1. \A d \in M + 1..M + 1 : d > M
      OBVIOUS
    <3>2. g = [d \in M + 1..M + 1 |->
                 [x \in Levels(v, M)[d] |-> IF d > M THEN {<<>>} ELSE PlacesStep(g[d + 1], x)]]
      BY <3>1
    <3>3. M + 1 - 0 = M + 1
      OBVIOUS
    <3>4. PlacesSteps(g, v, M, M + 1)
      BY <3>2 DEF PlacesSteps
    <3> QED
      BY <2>2, <3>3, <3>4
  <2>4. k - 1 \in Nat /\ k - 1 <= M + 1 /\ k - 1 \notin T /\ M + 1 - (k - 1) = (M + 1 - k) + 1
    BY <2>1, <2>2, <2>3
  <2>5. PICK n \in 0..M : n = M + 1 - k
    BY <2>2, <2>3
  <2>6. PICK f : PlacesSteps(f, v, M, n + 1)
    BY <2>4, <2>5
  <2> DEFINE g == [d \in n..M + 1 |->
                     [x \in Levels(v, M)[d] |-> IF d > M THEN {<<>>} ELSE PlacesStep(f[d + 1], x)]]
  <2>7. ASSUME NEW d \in n + 1..M + 1 PROVE g[d] = f[d]
    <3>1. d \in n..M + 1
      BY <2>5
    <3>2. f[d] = [x \in Levels(v, M)[d] |-> IF d > M THEN {<<>>} ELSE PlacesStep(f[d + 1], x)]
      BY <2>6 DEF PlacesSteps
    <3> QED
      BY <3>1, <3>2
  <2> HIDE DEF g
  <2>8. ASSUME NEW d \in n..M + 1
        PROVE  [x \in Levels(v, M)[d] |-> IF d > M THEN {<<>>} ELSE PlacesStep(f[d + 1], x)]
                 = [x \in Levels(v, M)[d] |-> IF d > M THEN {<<>>} ELSE PlacesStep(g[d + 1], x)]
    <3>1. CASE d > M
      BY <3>1
    <3>2. CASE ~(d > M)
      <4>1. d + 1 \in n + 1..M + 1
        BY <2>5, <3>2
      <4> QED
        BY <2>7, <4>1
    <3> QED
      BY <3>1, <3>2
  <2>9. PlacesSteps(g, v, M, n)
    <3>1. g = [d \in n..M + 1 |->
                 [x \in Levels(v, M)[d] |-> IF d > M THEN {<<>>} ELSE PlacesStep(g[d + 1], x)]]
      BY <2>8 DEF g
    <3> QED
      BY <3>1 DEF PlacesSteps
  <2> QED
    BY <2>2, <2>5, <2>9
<1>2. M + 1 \in Nat /\ M + 1 <= M + 1 /\ M + 1 - (M + 1) = 0
  OBVIOUS
<1>3. M + 1 \notin T
  BY <1>1
<1> QED
  BY <1>2, <1>3

Ways(f, v, M) ==
  /\ \A x \in At(v, M + 1) : f[M + 1][x] = {<<>>}
  /\ \A d \in 0..M : \A x \in At(v, d) : f[d][x] = PlacesStep(f[d + 1], x)

(* The ways to the parts of a value, level by level. *)
LEMMA PlacesAre ==
  ASSUME NEW v, NEW M \in Nat
  PROVE  \E f : Ways(f, v, M) /\ Places(v, M) = f[0][v]
<1> DEFINE places == CHOOSE places :
                     places = [i \in 0..M + 1 |->
                               [x \in Levels(v, M)[i] |->
                                  IF i > M THEN {<<>>} ELSE PlacesStep(places[i + 1], x)]]
<1>1. Places(v, M) = places[0][v]
  BY DEF Places
<1>2. \E f : PlacesSteps(f, v, M, 0)
  BY PlacesStepsExist
<1>3. PlacesSteps(places, v, M, 0)
  BY <1>2 DEF PlacesSteps
<1> HIDE DEF places
<1>4. ASSUME NEW d \in 0..M + 1, NEW x \in At(v, d)
      PROVE  places[d][x] = IF d > M THEN {<<>>} ELSE PlacesStep(places[d + 1], x)
  <2>1. places[d] = [y \in Levels(v, M)[d] |-> IF d > M THEN {<<>>} ELSE PlacesStep(places[d + 1], y)]
    BY <1>3 DEF PlacesSteps
  <2>2. Levels(v, M)[d] = At(v, d)
    BY AtIs
  <2> QED
    BY <2>1, <2>2
<1>5. M + 1 \in 0..M + 1 /\ M + 1 > M /\ \A d \in 0..M : d \in 0..M + 1 /\ ~(d > M)
  OBVIOUS
<1>6. Ways(places, v, M)
  BY <1>4, <1>5 DEF Ways
<1> QED
  BY <1>1, <1>6

(* A step looks at the ways into the parts. *)
LEMMA PlacesAgree ==
  ASSUME NEW f, NEW g, NEW x, x.t \in Containers => \A k \in DOMAIN x.v : f[x.v[k]] = g[x.v[k]]
  PROVE  PlacesStep(f, x) = PlacesStep(g, x)
<1>1. CASE x.t \in Containers
  <2>1. \A k \in DOMAIN x.v : Through(k, f[x.v[k]]) = Through(k, g[x.v[k]])
    BY <1>1
  <2>2. UNION {Through(k, f[x.v[k]]) : k \in DOMAIN x.v}
          = UNION {Through(k, g[x.v[k]]) : k \in DOMAIN x.v}
    BY <2>1
  <2> QED
    BY <1>1, <2>2 DEF PlacesStep
<1>2. CASE x.t \notin Containers
  BY <1>2 DEF PlacesStep
<1> QED
  BY <1>1, <1>2

(* The ways into a container are the empty one, and through a key one of those
   into the part that is there. *)
LEMMA PlacesOfContainer ==
  ASSUME NEW v, v.t \in Containers, NEW M \in Nat
  PROVE  Places(v, M + 1) = {<<>>} \cup UNION {Through(k, Places(v.v[k], M)) : k \in DOMAIN v.v}
<1>0. M + 1 \in Nat
  OBVIOUS
<1>1. PICK f : Ways(f, v, M + 1) /\ Places(v, M + 1) = f[0][v]
  BY <1>0, PlacesAre
<1>2. ASSUME NEW p \in Parts(v) PROVE f[1][p] = Places(p, M)
  <2>1. PICK g : Ways(g, p, M) /\ Places(p, M) = g[0][p]
    BY PlacesAre
  <2> DEFINE T == {k \in Nat :
                     k <= M + 1 /\ \E x \in At(p, M + 1 - k) : f[M + 1 - k + 1][x] # g[M + 1 - k][x]}
  <2>2. \A d \in Nat : At(p, d) \subseteq At(v, d + 1)
    BY AtParts
  <2>3. ASSUME T # {} PROVE FALSE
    <3>1. PICK k \in T : \A m \in T : k <= m
      BY <2>3, LeastOf
    <3>2. PICK x \in At(p, M + 1 - k) : k \in Nat /\ k <= M + 1 /\ f[M + 1 - k + 1][x] # g[M + 1 - k][x]
      BY <3>1
    <3> HIDE DEF T
    <3>3. k # 0
      <4>1. ASSUME k = 0 PROVE FALSE
        <5>1. M + 1 - k = M + 1 /\ M + 1 \in Nat
          BY <4>1
        <5>2. x \in At(p, M + 1) /\ x \in At(v, (M + 1) + 1)
          BY <2>2, <3>2, <5>1
        <5> QED
          BY <1>1, <2>1, <3>2, <5>1, <5>2 DEF Ways
      <4> QED
        BY <4>1
    <3>4. PICK d \in 0..M : M + 1 - k = d /\ k - 1 \in Nat /\ k - 1 <= M + 1 /\ k - 1 \notin T
                            /\ M + 1 - (k - 1) = d + 1 /\ d \in Nat /\ d + 1 \in 0..M + 1
      <4>1. /\ M + 1 - k \in 0..M /\ k - 1 \in Nat /\ k - 1 <= M + 1 /\ k - 1 \notin T
            /\ M + 1 - (k - 1) = (M + 1 - k) + 1 /\ M + 1 - k \in Nat /\ (M + 1 - k) + 1 \in 0..M + 1
        BY <3>1, <3>2, <3>3
      <4> QED
        BY <4>1
    <3>5. x \in At(p, d) /\ x \in At(v, d + 1) /\ f[d + 1][x] # g[d][x]
      BY <2>2, <3>2, <3>4
    <3>6. f[d + 1][x] = PlacesStep(f[(d + 1) + 1], x) /\ g[d][x] = PlacesStep(g[d + 1], x)
      BY <1>1, <2>1, <3>4, <3>5 DEF Ways
    <3>7. \A y \in At(p, d + 1) : f[(d + 1) + 1][y] = g[d + 1][y]
      BY <3>4 DEF T
    <3>8. \A y \in Parts(x) : y \in At(p, d + 1)
      BY <3>4, <3>5, AtFacts
    <3>9. x.t \in Containers => \A i \in DOMAIN x.v : f[(d + 1) + 1][x.v[i]] = g[d + 1][x.v[i]]
      BY <3>7, <3>8 DEF Parts
    <3>10. PlacesStep(f[(d + 1) + 1], x) = PlacesStep(g[d + 1], x)
      BY <3>9, PlacesAgree
    <3> QED
      BY <3>5, <3>6, <3>10
  <2> HIDE DEF T
  <2>4. M + 1 \in Nat /\ M + 1 <= M + 1 /\ M + 1 - (M + 1) = 0 /\ M + 1 \notin T /\ 0 + 1 = 1
    BY <2>3
  <2>5. p \in At(p, 0)
    BY AtFacts
  <2>6. f[1][p] = g[0][p]
    BY <2>4, <2>5 DEF T
  <2> QED
    BY <2>1, <2>6
<1>3. 0 \in 0..M + 1 /\ v \in At(v, 0) /\ 0 + 1 = 1
  BY AtFacts
<1>4. f[0][v] = PlacesStep(f[1], v)
  BY <1>1, <1>3 DEF Ways
<1>5. \A k \in DOMAIN v.v : f[1][v.v[k]] = Places(v.v[k], M)
  BY <1>2 DEF Parts
<1>6. PlacesStep(f[1], v)
        = {<<>>} \cup UNION {Through(k, f[1][v.v[k]]) : k \in DOMAIN v.v}
  BY DEF PlacesStep
<1>7. \A k \in DOMAIN v.v : Through(k, f[1][v.v[k]]) = Through(k, Places(v.v[k], M))
  BY <1>5
<1>8. UNION {Through(k, f[1][v.v[k]]) : k \in DOMAIN v.v}
        = UNION {Through(k, Places(v.v[k], M)) : k \in DOMAIN v.v}
  BY <1>7
<1> QED
  BY <1>1, <1>4, <1>6, <1>8

(* A leaf is one place. *)
LEMMA PlacesOfLeaf ==
  ASSUME NEW v, v.t \notin Containers, NEW M \in Nat
  PROVE  Places(v, M) = {<<>>}
<1>1. PICK f : Ways(f, v, M) /\ Places(v, M) = f[0][v]
  BY PlacesAre
<1>2. 0 \in 0..M /\ v \in At(v, 0)
  BY AtFacts
<1>3. f[0][v] = PlacesStep(f[0 + 1], v)
  BY <1>1, <1>2 DEF Ways
<1> QED
  BY <1>1, <1>3 DEF PlacesStep

(* An image has no more elements. *)
LEMMA ImageIsSmall ==
  ASSUME NEW S, IsFiniteSet(S), NEW f
  PROVE  IsFiniteSet({f[x] : x \in S}) /\ Cardinality({f[x] : x \in S}) <= Cardinality(S)
<1> DEFINE R == {f[x] : x \in S}
           g == [x \in S |-> f[x]]
<1>1. g \in [S -> R] /\ \A y \in R : \E x \in S : g[x] = y
  OBVIOUS
<1>2. g \in Surjection(S, R)
  BY <1>1 DEF Surjection
<1> QED
  BY <1>2, FS_Surjection

(* The ways into each of a list of values, told apart by its place. *)
Pairs(all, n) == UNION {{i} \X Places(all[i][2], n) : i \in DOMAIN all}

(* One more pair adds the places of its value. *)
LEMMA PairsGrow ==
  ASSUME NEW T, NEW all \in Seq(T), NEW e \in T, NEW n \in Nat,
         IsFiniteSet(Pairs(all, n)), IsFiniteSet(Places(e[2], n))
  PROVE  /\ IsFiniteSet(Pairs(Append(all, e), n))
         /\ Cardinality(Pairs(Append(all, e), n)) \in Nat
         /\ Cardinality(Pairs(Append(all, e), n))
              <= Cardinality(Pairs(all, n)) + Cardinality(Places(e[2], n))
<1> DEFINE more == Append(all, e)
           L == Len(all)
           A == Pairs(all, n)
           P == Places(e[2], n)
           B == {L + 1} \X P
           f == [way \in P |-> <<L + 1, way>>]
<1>1. /\ L \in Nat /\ DOMAIN all = 1..L /\ DOMAIN more = (1..L) \cup {L + 1} /\ more[L + 1] = e
      /\ \A i \in 1..L : more[i] = all[i]
  OBVIOUS
<1> HIDE DEF more, L
<1>2. Pairs(more, n) = A \cup B
  <2>1. \A i \in 1..L : {i} \X Places(more[i][2], n) = {i} \X Places(all[i][2], n)
    BY <1>1
  <2>2. {L + 1} \X Places(more[L + 1][2], n) = B
    BY <1>1
  <2> DEFINE G == [i \in DOMAIN more |-> {i} \X Places(more[i][2], n)]
  <2>3. Pairs(more, n) = UNION {G[i] : i \in DOMAIN more}
    BY DEF Pairs
  <2>4. A = UNION {G[i] : i \in 1..L}
    <3>1. \A i \in 1..L : {i} \X Places(all[i][2], n) = G[i]
      BY <1>1, <2>1
    <3>2. A = UNION {{i} \X Places(all[i][2], n) : i \in 1..L}
      BY <1>1 DEF Pairs
    <3> HIDE DEF G
    <3> QED
      BY <3>1, <3>2
  <2>5. G[L + 1] = B
    BY <1>1, <2>2
  <2> HIDE DEF G, B, A
  <2> QED
    BY <1>1, <2>3, <2>4, <2>5
<1>3. B = {f[way] : way \in P}
  OBVIOUS
<1>4. IsFiniteSet(B) /\ Cardinality(B) <= Cardinality(P)
  <2> HIDE DEF B, P, f
  <2>1. IsFiniteSet(P)
    BY DEF P
  <2> QED
    BY <1>3, <2>1, ImageIsSmall
<1> HIDE DEF A, B, P
<1>5. IsFiniteSet(A) /\ IsFiniteSet(P)
  BY DEF A, P
<1>6. /\ IsFiniteSet(A \cup B) /\ IsFiniteSet(A \cap B)
      /\ Cardinality(A \cup B) = Cardinality(A) + Cardinality(B) - Cardinality(A \cap B)
  <2>1. A \cap B \in SUBSET A
    OBVIOUS
  <2> QED
    BY <1>4, <1>5, <2>1, FS_Union, FS_Subset
<1>7. Cardinality(A) \in Nat /\ Cardinality(B) \in Nat /\ Cardinality(P) \in Nat
      /\ Cardinality(A \cap B) \in Nat /\ Cardinality(A \cup B) \in Nat
  BY <1>4, <1>5, <1>6, FS_CardinalityType
<1>8. Cardinality(A \cup B) <= Cardinality(A) + Cardinality(P)
  BY <1>4, <1>6, <1>7
<1> QED
  BY <1>2, <1>6, <1>7, <1>8 DEF more, A, P

(* A container has no more ways than a list of its parts, and the empty one. *)
LEMMA CopyIsSmall ==
  ASSUME NEW o, o.t \in Containers, NEW n \in Nat, NEW all, IsFiniteSet(Pairs(all, n)), NEW J,
         \A j \in DOMAIN o.v : \E i \in DOMAIN all : J[i] = j /\ o.v[j] = all[i][2]
  PROVE  /\ IsFiniteSet(Places(o, n + 1)) /\ Cardinality(Places(o, n + 1)) \in Nat
         /\ Cardinality(Places(o, n + 1)) <= Cardinality(Pairs(all, n)) + 1
<1> DEFINE A == Pairs(all, n)
           f == [p \in A |-> <<J[p[1]]>> \o p[2]]
           R == {f[p] : p \in A}
<1>1. Places(o, n + 1) = {<<>>} \cup UNION {Through(j, Places(o.v[j], n)) : j \in DOMAIN o.v}
  BY PlacesOfContainer
<1>2. ASSUME NEW j \in DOMAIN o.v, NEW way \in Places(o.v[j], n)
      PROVE  <<j>> \o way \in R
  <2>1. PICK i \in DOMAIN all : J[i] = j /\ o.v[j] = all[i][2]
    OBVIOUS
  <2>2. <<i, way>> \in A
    BY <1>2, <2>1 DEF Pairs
  <2>3. f[<<i, way>>] = <<j>> \o way
    BY <2>1, <2>2
  <2> QED
    BY <2>2, <2>3
<1> HIDE DEF R
<1>3. Places(o, n + 1) \subseteq R \cup {<<>>}
  <2>1. ASSUME NEW j \in DOMAIN o.v PROVE Through(j, Places(o.v[j], n)) \subseteq R
    BY <1>2 DEF Through
  <2>2. UNION {Through(j, Places(o.v[j], n)) : j \in DOMAIN o.v} \subseteq R
    BY <2>1
  <2> QED
    BY <1>1, <2>2
<1>4. IsFiniteSet(R) /\ Cardinality(R) <= Cardinality(A)
  <2> HIDE DEF A, f
  <2>1. IsFiniteSet(A)
    BY DEF A
  <2> QED
    BY <2>1, ImageIsSmall DEF R
<1> HIDE DEF A
<1>5. IsFiniteSet(R \cup {<<>>}) /\ Cardinality(R \cup {<<>>}) <= Cardinality(A) + 1
  <2>1. IsFiniteSet(A)
    BY DEF A
  <2>2. Cardinality(R) \in Nat /\ Cardinality(A) \in Nat
    BY <1>4, <2>1, FS_CardinalityType
  <2>3. IsFiniteSet(R \cup {<<>>})
        /\ \/ Cardinality(R \cup {<<>>}) = Cardinality(R)
           \/ Cardinality(R \cup {<<>>}) = Cardinality(R) + 1
    BY <1>4, FS_AddElement
  <2> QED
    BY <1>4, <2>2, <2>3
<1>6. IsFiniteSet(Places(o, n + 1)) /\ Cardinality(Places(o, n + 1)) <= Cardinality(R \cup {<<>>})
  BY <1>3, <1>5, FS_Subset
<1>7. /\ Cardinality(Places(o, n + 1)) \in Nat /\ Cardinality(R \cup {<<>>}) \in Nat
      /\ IsFiniteSet(A) /\ Cardinality(A) \in Nat
  BY <1>5, <1>6, FS_CardinalityType DEF A
<1> QED
  BY <1>5, <1>6, <1>7 DEF A

(* A copy has the values that were kept, and the marker if any were skipped. *)
AllKept(kept, skipped) == kept \o (IF skipped THEN << <<"<truncated>", Marker>> >> ELSE <<>>)

CopyOf(o, all, v) ==
  /\ o.t = v.t /\ (o.t = "arr" => o.v \in Seq(Parts(o)))
  /\ Parts(o) \subseteq {all[i][2] : i \in DOMAIN all}
  /\ \E J : \A j \in DOMAIN o.v : \E i \in DOMAIN all : J[i] = j /\ o.v[j] = all[i][2]

(* The copy has the kept values, each at its place or under its key. *)
LEMMA AssembleIs ==
  ASSUME NEW v, v.t \in Containers, NEW T, NEW kept \in Seq(T), <<"<truncated>", Marker>> \in T,
         NEW skipped \in BOOLEAN
  PROVE  /\ AllKept(kept, skipped)
              = IF skipped THEN Append(kept, <<"<truncated>", Marker>>) ELSE kept
         /\ AllKept(kept, skipped) \in Seq(T)
         /\ CopyOf(Assemble(v, kept, skipped), AllKept(kept, skipped), v)
<1> DEFINE all == AllKept(kept, skipped)
           o == Assemble(v, kept, skipped)
           e == <<"<truncated>", Marker>>
           L == Len(all)
<1>1. all = IF skipped THEN Append(kept, e) ELSE kept
  <2>1. kept \o << e >> = Append(kept, e) /\ kept \o <<>> = kept
    OBVIOUS
  <2> QED
    BY <2>1 DEF AllKept
<1>2. all \in Seq(T)
  <2> HIDE DEF all, e
  <2>1. e \in T
    BY DEF e
  <2> QED
    BY <1>1, <2>1
<1>3. L \in Nat /\ DOMAIN all = 1..L
  <2> HIDE DEF all
  <2> QED
    BY <1>2
<1>4. o = IF v.t = "arr" THEN Arr([n \in DOMAIN all |-> all[n][2]])
          ELSE Obj([k \in {all[n][1] : n \in DOMAIN all} |->
                      all[CHOOSE n \in DOMAIN all : all[n][1] = k
                                   /\ \A m \in n + 1..Len(all) : all[m][1] # k][2]])
  BY DEF Assemble, AllKept
<1> HIDE DEF all, o, e, L
<1>5. ASSUME v.t = "arr"
      PROVE  /\ o.t = v.t /\ (o.t = "arr" => o.v \in Seq(Parts(o)))
             /\ Parts(o) \subseteq {all[i][2] : i \in DOMAIN all}
             /\ \E J : \A j \in DOMAIN o.v : \E i \in DOMAIN all : J[i] = j /\ o.v[j] = all[i][2]
  <2>1. o.t = "arr" /\ o.v = [n \in 1..L |-> all[n][2]]
    BY <1>3, <1>4, <1>5 DEF Arr
  <2>2. Parts(o) = {all[n][2] : n \in 1..L}
    BY <2>1 DEF Parts, Containers
  <2>3. o.v \in Seq(Parts(o))
    BY <1>3, <2>1, <2>2
  <2> DEFINE J == [i \in DOMAIN all |-> i]
  <2>4. \A i \in DOMAIN all : J[i] = i
    OBVIOUS
  <2> HIDE DEF J
  <2>5. \A j \in DOMAIN o.v : \E i \in DOMAIN all : J[i] = j /\ o.v[j] = all[i][2]
    BY <1>3, <2>1, <2>4
  <2> QED
    BY <1>3, <1>5, <2>1, <2>2, <2>3, <2>5
<1>6. ASSUME v.t = "obj"
      PROVE  /\ o.t = v.t /\ (o.t = "arr" => o.v \in Seq(Parts(o)))
             /\ Parts(o) \subseteq {all[i][2] : i \in DOMAIN all}
             /\ \E J : \A j \in DOMAIN o.v : \E i \in DOMAIN all : J[i] = j /\ o.v[j] = all[i][2]
  <2> DEFINE LastPlace(n, k) == all[n][1] = k /\ \A m \in n + 1..Len(all) : all[m][1] # k
             placeOf(k) == CHOOSE n \in DOMAIN all : LastPlace(n, k)
  <2>1. o.t = "obj" /\ o.v = [k \in {all[n][1] : n \in DOMAIN all} |-> all[placeOf(k)][2]]
    BY <1>4, <1>6 DEF Obj
  <2>2. ASSUME NEW k \in DOMAIN o.v PROVE placeOf(k) \in DOMAIN all /\ all[placeOf(k)][1] = k
    <3>1. PICK n0 \in 1..L : all[n0][1] = k
      BY <1>3, <2>1
    <3> DEFINE S == {i \in Nat : i <= L /\ L - i \in 1..L /\ all[L - i][1] = k}
    <3>2. L - n0 \in Nat /\ L - n0 <= L /\ L - (L - n0) = n0
      BY <1>3
    <3>3. S # {} /\ S \subseteq Nat
      BY <3>1, <3>2
    <3>4. PICK i \in S : \A m \in S : i <= m
      BY <3>3, LeastOf
    <3>5. i \in Nat /\ L - i \in 1..L /\ all[L - i][1] = k
      BY <3>4
    <3>6. ASSUME NEW m \in (L - i) + 1..L, all[m][1] = k PROVE FALSE
      <4>1. L - m \in Nat /\ L - m <= L /\ L - (L - m) = m /\ m \in 1..L /\ ~(i <= L - m)
        BY <1>3, <3>5
      <4> HIDE DEF S
      <4>2. L - m \in S
        BY <3>6, <4>1 DEF S
      <4> QED
        BY <3>4, <4>1, <4>2
    <3>7. L - i \in DOMAIN all /\ LastPlace(L - i, k)
      BY <1>3, <3>5, <3>6 DEF L
    <3> HIDE DEF LastPlace, S
    <3>8. placeOf(k) \in DOMAIN all /\ LastPlace(placeOf(k), k)
      BY <3>7
    <3> QED
      BY <3>8 DEF LastPlace
  <2> HIDE DEF placeOf
  <2>3. Parts(o) \subseteq {all[i][2] : i \in DOMAIN all}
    BY <2>1, <2>2 DEF Parts, Containers
  <2> DEFINE J == [i \in DOMAIN all |-> all[i][1]]
  <2>4. \A i \in DOMAIN all : J[i] = all[i][1]
    OBVIOUS
  <2> HIDE DEF J
  <2>5. \A j \in DOMAIN o.v : \E i \in DOMAIN all : J[i] = j /\ o.v[j] = all[i][2]
    BY <2>1, <2>2, <2>4
  <2>6. o.t = v.t /\ o.t # "arr"
    BY <1>6, <2>1
  <2> QED
    BY <2>3, <2>5, <2>6, Zenon
<1>7. v.t = "arr" \/ v.t = "obj"
  BY DEF Containers
<1>8. CopyOf(o, all, v)
  BY <1>5, <1>6, <1>7, Zenon DEF CopyOf
<1> QED
  BY <1>1, <1>2, <1>8 DEF all, o, e

LimitDepth == MaxIntentDepth + 1

(* The walk stops two levels above the limit of the serializer. *)
LEMMA LimitIs == LimitDepth \in Nat /\ LimitDepth > 0 /\ LimitDepth + 2 = CanonicalMaxDepth
BY ShapeAssumption DEF LimitDepth, MaxIntentDepth, EntryEnvelopeDepth

(* The walks of what lies at some level or deeper. *)
InspectSteps(f, v, n) ==
  f = [d \in n..LimitDepth |-> [p \in Level(v, d) \X Nat |-> WalkStep(f, d, p[1], p[2] + 1)]]

(* A walk goes on with those one level down. *)
LEMMA InspectAgrees ==
  ASSUME NEW f, NEW g, NEW d, f[d + 1] = g[d + 1] \/ d > MaxIntentDepth
  PROVE  \A x, n : WalkStep(f, d, x, n) = WalkStep(g, d, x, n)
<1>1. CASE f[d + 1] = g[d + 1]
  BY <1>1 DEF WalkStep
<1>2. CASE d > MaxIntentDepth
  BY <1>2 DEF WalkStep
<1> QED
  BY <1>1, <1>2

(* They can be computed from the deepest level up. *)
LEMMA InspectStepsExist ==
  ASSUME NEW v
  PROVE  \E f : InspectSteps(f, v, 0)
<1> DEFINE M == LimitDepth
           T == {k \in Nat : k <= M /\ ~\E f : InspectSteps(f, v, M - k)}
<1>0. M \in Nat /\ M > MaxIntentDepth
  BY LimitIs DEF LimitDepth, MaxIntentDepth, EntryEnvelopeDepth
<1> HIDE DEF M
<1>1. ASSUME T # {} PROVE FALSE
  <2>1. PICK k \in T : \A m \in T : k <= m
    BY <1>1, LeastOf
  <2>2. k \in Nat /\ k <= M /\ ~\E f : InspectSteps(f, v, M - k)
    BY <2>1
  <2> HIDE DEF T
  <2>3. k # 0
    <3> DEFINE none == <<>>
               g == [d \in M..M |-> [p \in Level(v, d) \X Nat |-> WalkStep(none, d, p[1], p[2] + 1)]]
    <3> HIDE DEF none
    <3>1. \A d \in M..M : d > MaxIntentDepth
      BY <1>0
    <3>2. ASSUME NEW h, NEW d \in M..M
          PROVE  [p \in Level(v, d) \X Nat |-> WalkStep(none, d, p[1], p[2] + 1)]
                   = [p \in Level(v, d) \X Nat |-> WalkStep(h, d, p[1], p[2] + 1)]
      <4>1. d > MaxIntentDepth
        BY <3>1
      <4>2. \A x, n : WalkStep(none, d, x, n) = WalkStep(h, d, x, n)
        BY <4>1, InspectAgrees
      <4> QED
        BY <4>2
    <3>3. \A h : \A d \in M..M : [p \in Level(v, d) \X Nat |-> WalkStep(none, d, p[1], p[2] + 1)]
                                   = [p \in Level(v, d) \X Nat |-> WalkStep(h, d, p[1], p[2] + 1)]
      BY <3>2
    <3>4. g = [d \in M..M |-> [p \in Level(v, d) \X Nat |-> WalkStep(g, d, p[1], p[2] + 1)]]
      BY <3>3
    <3>5. M - 0 = M
      BY <1>0
    <3>6. InspectSteps(g, v, M)
      BY <3>4 DEF InspectSteps, M
    <3> QED
      BY <2>2, <3>5, <3>6
  <2>4. PICK n \in 0..M - 1 :
          n = M - k /\ k - 1 \notin T /\ M - (k - 1) = n + 1 /\ k - 1 \in Nat /\ k - 1 <= M
    <3>1. /\ M - k \in 0..M - 1 /\ k - 1 \notin T /\ M - (k - 1) = (M - k) + 1
          /\ k - 1 \in Nat /\ k - 1 <= M
      BY <1>0, <2>1, <2>2, <2>3
    <3> QED
      BY <3>1
  <2>5. PICK f : InspectSteps(f, v, n + 1)
    BY <2>4 DEF T
  <2> DEFINE g == [d \in n..M |-> [p \in Level(v, d) \X Nat |-> WalkStep(f, d, p[1], p[2] + 1)]]
  <2>6. ASSUME NEW d \in n + 1..M PROVE g[d] = f[d]
    <3>1. d \in n..M
      BY <1>0, <2>4
    <3>2. f[d] = [p \in Level(v, d) \X Nat |-> WalkStep(f, d, p[1], p[2] + 1)]
      BY <2>5 DEF InspectSteps, M
    <3> QED
      BY <3>1, <3>2
  <2> HIDE DEF g
  <2>7. ASSUME NEW d \in n..M
        PROVE  [p \in Level(v, d) \X Nat |-> WalkStep(f, d, p[1], p[2] + 1)]
                 = [p \in Level(v, d) \X Nat |-> WalkStep(g, d, p[1], p[2] + 1)]
    <3>1. f[d + 1] = g[d + 1] \/ d > MaxIntentDepth
      <4>1. CASE d = M
        BY <1>0, <4>1
      <4>2. CASE d # M
        <5>1. d + 1 \in n + 1..M
          BY <1>0, <2>4, <4>2
        <5> QED
          BY <2>6, <5>1
      <4> QED
        BY <4>1, <4>2
    <3>2. \A x, i : WalkStep(f, d, x, i) = WalkStep(g, d, x, i)
      <4>1. CASE f[d + 1] = g[d + 1]
        BY <4>1, InspectAgrees
      <4>2. CASE d > MaxIntentDepth
        BY <4>2, InspectAgrees
      <4> QED
        BY <3>1, <4>1, <4>2
    <3> QED
      BY <3>2
  <2>8. g = [d \in n..M |-> [p \in Level(v, d) \X Nat |-> WalkStep(g, d, p[1], p[2] + 1)]]
    BY <2>7 DEF g
  <2>9. InspectSteps(g, v, n)
    BY <2>8 DEF InspectSteps, M
  <2> QED
    BY <2>2, <2>4, <2>9
<1> HIDE DEF T
<1>2. M \in Nat /\ M <= M /\ M - M = 0 /\ M \notin T
  BY <1>0, <1>1
<1> QED
  BY <1>2 DEF T

(* The walk of every part from any count of nodes. *)
Inspects(f, v) ==
  \A d \in 0..LimitDepth : \A x \in Level(v, d) : \A n \in Nat :
    f[d][<<x, n>>] = WalkStep(f, d, x, n + 1)

(* The inspection is the walk of the intent at the outermost level. *)
LEMMA InspectionIs ==
  ASSUME NEW v
  PROVE  \E f : Inspects(f, v) /\ InspectIntentShape(v) = f[0][<<v, 0>>]
<1> DEFINE walk == CHOOSE walk :
                     walk = [depth \in 0..MaxIntentDepth + 1 |->
                               [p \in Level(v, depth) \X Nat |-> WalkStep(walk, depth, p[1], p[2] + 1)]]
<1>1. InspectIntentShape(v) = walk[0][<<v, 0>>]
  BY DEF InspectIntentShape
<1>2. \E f : InspectSteps(f, v, 0)
  BY InspectStepsExist
<1>3. InspectSteps(walk, v, 0)
  BY <1>2 DEF InspectSteps, LimitDepth
<1> HIDE DEF walk
<1>4. ASSUME NEW d \in 0..LimitDepth, NEW x \in Level(v, d), NEW n \in Nat
      PROVE  walk[d][<<x, n>>] = WalkStep(walk, d, x, n + 1)
  <2>1. walk[d] = [p \in Level(v, d) \X Nat |-> WalkStep(walk, d, p[1], p[2] + 1)]
    BY <1>3 DEF InspectSteps
  <2>2. <<x, n>> \in Level(v, d) \X Nat /\ <<x, n>>[1] = x /\ <<x, n>>[2] = n
    OBVIOUS
  <2> QED
    BY <2>1, <2>2
<1> QED
  BY <1>1, <1>4 DEF Inspects

-----------------------------------------------------------------------------
(* The loop over the children, as far as some child. *)
SeenSteps(f, walk, v, nodes, n) == f = [i \in 0..n |-> ChildStep(f, walk, v, nodes, i)]

(* The loop over the children goes from one to the next. *)
LEMMA SeenStepsExist ==
  ASSUME NEW walk, NEW v, NEW nodes, NEW n \in Nat
  PROVE  \E f : SeenSteps(f, walk, v, nodes, n)
<1> DEFINE T == {k \in Nat : ~\E f : SeenSteps(f, walk, v, nodes, k)}
<1>1. ASSUME T # {} PROVE FALSE
  <2>1. PICK k \in T : \A m \in T : k <= m
    BY <1>1, LeastOf
  <2>2. k \in Nat /\ ~\E f : SeenSteps(f, walk, v, nodes, k)
    BY <2>1
  <2> HIDE DEF T
  <2>3. k # 0
    <3> DEFINE none == <<>>
               g == [i \in 0..0 |-> ChildStep(none, walk, v, nodes, i)]
    <3> HIDE DEF none
    <3>1. \A i \in 0..0 : i = 0
      OBVIOUS
    <3>2. \A h : \A i \in 0..0 : ChildStep(none, walk, v, nodes, i) = ChildStep(h, walk, v, nodes, i)
      BY <3>1 DEF ChildStep
    <3>3. g = [i \in 0..0 |-> ChildStep(g, walk, v, nodes, i)]
      BY <3>2
    <3>4. SeenSteps(g, walk, v, nodes, 0)
      BY <3>3 DEF SeenSteps
    <3> QED
      BY <2>2, <3>4
  <2>4. k - 1 \in Nat /\ k - 1 \notin T
    BY <2>1, <2>2, <2>3
  <2>5. PICK f : SeenSteps(f, walk, v, nodes, k - 1)
    BY <2>4 DEF T
  <2> DEFINE g == [i \in 0..k |-> ChildStep(f, walk, v, nodes, i)]
  <2>6. ASSUME NEW i \in 0..k - 1 PROVE g[i] = f[i]
    <3>1. i \in 0..k
      BY <2>2
    <3>2. f[i] = ChildStep(f, walk, v, nodes, i)
      BY <2>5 DEF SeenSteps
    <3> QED
      BY <3>1, <3>2
  <2> HIDE DEF g
  <2>7. ASSUME NEW i \in 0..k
        PROVE  ChildStep(f, walk, v, nodes, i) = ChildStep(g, walk, v, nodes, i)
    <3>1. i = 0 \/ i - 1 \in 0..k - 1
      BY <2>2
    <3>2. f[i - 1] = g[i - 1] \/ i = 0
      BY <2>6, <3>1
    <3> QED
      BY <3>2 DEF ChildStep
  <2>8. g = [i \in 0..k |-> ChildStep(g, walk, v, nodes, i)]
    BY <2>7 DEF g
  <2> QED
    BY <2>2, <2>8 DEF SeenSteps
<1> QED
  BY <1>1

(* What it has seen at its end is what the walk of the container goes by. *)
LEMMA ChildrenAreSeen ==
  ASSUME NEW walk, NEW v, NEW nodes, Len(Children(v)) \in Nat
  PROVE  \E f : /\ WalkChildren(walk, v, nodes) = f[Len(Children(v))]
                /\ \A n \in 0..Len(Children(v)) : f[n] = ChildStep(f, walk, v, nodes, n)
<1> DEFINE seen == CHOOSE seen :
                     seen = [n \in 0..Len(Children(v)) |-> ChildStep(seen, walk, v, nodes, n)]
<1>1. WalkChildren(walk, v, nodes) = seen[Len(Children(v))]
  BY DEF WalkChildren
<1>2. \E f : SeenSteps(f, walk, v, nodes, Len(Children(v)))
  BY SeenStepsExist
<1>3. SeenSteps(seen, walk, v, nodes, Len(Children(v)))
  BY <1>2 DEF SeenSteps
<1> HIDE DEF seen
<1>4. \A n \in 0..Len(Children(v)) : seen[n] = ChildStep(seen, walk, v, nodes, n)
  BY <1>3 DEF SeenSteps
<1> QED
  BY <1>1, <1>4

(* What a walk promises: a copy that can be written, no larger than the budget
   it used, and no problem only where there is none. *)
Sound(r, x, n, k) ==
  /\ r.nodes \in Nat /\ n < r.nodes /\ r.nodes <= MaxWalkNodes /\ r.problems \in Nat
  /\ CanBeWritten(r.out, k) /\ r.out.t # "undef"
  /\ IsFiniteSet(Places(r.out, k)) /\ Cardinality(Places(r.out, k)) <= 2 * (r.nodes - n)
  /\ r.problems = 0 => CanBeWritten(x, k) /\ x.t # "undef"

(* What the loop over the children keeps to, after n of them. *)
LoopHolds(s, v, nodes, k, n, T) ==
  /\ s = [kept |-> s.kept, nodes |-> s.nodes, problems |-> s.problems, looked |-> s.looked]
  /\ s.nodes \in Nat /\ nodes <= s.nodes /\ s.nodes <= MaxWalkNodes /\ s.problems \in Nat
  /\ s.looked \in Nat /\ s.looked <= n
  /\ s.kept \in Seq(T)
  /\ \A i \in DOMAIN s.kept : CanBeWritten(s.kept[i][2], k) /\ s.kept[i][2].t # "undef"
  /\ IsFiniteSet(Pairs(s.kept, k)) /\ Cardinality(Pairs(s.kept, k)) <= 2 * (s.nodes - nodes)
  /\ s.problems = 0 /\ s.looked = n =>
       \A i \in 1..n : /\ CanBeWritten(Children(v)[i][2], k)
                       /\ v.t = "arr" => Children(v)[i][2].t # "undef"

(* The children of a container are its parts. *)
LEMMA ChildrenAre ==
  ASSUME NEW v, v.t \in Containers, WellFormed(v)
  PROVE  /\ Len(Children(v)) \in Nat
         /\ \A n \in 1..Len(Children(v)) : Children(v)[n][2] \in Parts(v)
         /\ \A p \in Parts(v) : \E n \in 1..Len(Children(v)) : Children(v)[n][2] = p
<1>1. CASE v.t = "arr"
  <2>1. v.v \in Seq(Parts(v)) /\ Len(v.v) \in Nat /\ DOMAIN v.v = 1..Len(v.v)
    BY <1>1 DEF WellFormed
  <2>2. Children(v) = [n \in 1..Len(v.v) |-> <<n, v.v[n]>>]
    BY <1>1, <2>1 DEF Children
  <2>3. Len(Children(v)) = Len(v.v)
    BY <2>1, <2>2
  <2>4. \A n \in 1..Len(v.v) : Children(v)[n][2] = v.v[n]
    BY <2>2
  <2> QED
    BY <2>1, <2>3, <2>4 DEF Parts
<1>2. CASE v.t = "obj"
  <2> DEFINE keys == InOrder(DOMAIN v.v)
  <2>1. keys \in Seq(PropertyNames) /\ {keys[i] : i \in DOMAIN keys} = DOMAIN v.v \cap PropertyNames
    BY InOrderIs
  <2>2. Children(v) = [n \in DOMAIN keys |-> <<keys[n], v.v[keys[n]]>>]
    BY <1>2 DEF Children
  <2> HIDE DEF keys
  <2>3. Len(keys) \in Nat /\ DOMAIN keys = 1..Len(keys)
    BY <2>1
  <2>4. Len(Children(v)) = Len(keys)
    BY <2>2, <2>3
  <2>5. {keys[i] : i \in 1..Len(keys)} = DOMAIN v.v
    BY <1>2, <2>1, <2>3 DEF WellFormed, PropertyNames
  <2>6. \A n \in 1..Len(keys) : Children(v)[n][2] = v.v[keys[n]]
    BY <2>2, <2>3
  <2> QED
    BY <2>3, <2>4, <2>5, <2>6 DEF Parts
<1> QED
  BY <1>1, <1>2 DEF Containers

(* One more child keeps to it. *)
LEMMA LoopGoesOn ==
  ASSUME NEW walk, NEW v, NEW nodes \in Nat, NEW k \in Nat, NEW n \in Nat, NEW T, NEW s, NEW child,
         child = Children(v)[n + 1], v.t \in Containers,
         \A m \in Nat : m < MaxWalkNodes => Sound(walk[<<child[2], m>>], child[2], m, k),
         \A m \in Nat : <<child[1], walk[<<child[2], m>>].out>> \in T,
         LoopHolds(s, v, nodes, k, n, T), WithinBudget(s.nodes)
  PROVE  LoopHolds(LookAt(walk, v, s, child), v, nodes, k, n + 1, T)
<1> DEFINE after == LookAt(walk, v, s, child)
<1>0. MaxWalkNodes \in Nat /\ s.nodes \in Nat /\ s.nodes < MaxWalkNodes
  BY ShapeAssumption DEF LoopHolds, WithinBudget
<1>1. CASE v.t = "obj" /\ child[2].t = "undef"
  <2>1. after = [s EXCEPT !.looked = @ + 1]
    BY <1>1 DEF LookAt
  <2>2. after = [kept |-> s.kept, nodes |-> s.nodes, problems |-> s.problems, looked |-> s.looked + 1]
    BY <2>1 DEF LoopHolds
  <2>3. CanBeWritten(child[2], k)
    <3>1. child[2].t \notin Containers /\ Fine(child[2])
      BY <1>1 DEF Containers, Fine
    <3> QED
      BY <3>1, LeafIsWritable
  <2>4. ASSUME s.problems = 0, s.looked + 1 = n + 1, NEW i \in 1..n + 1
        PROVE  CanBeWritten(Children(v)[i][2], k) /\ (v.t = "arr" => Children(v)[i][2].t # "undef")
    <3>1. CASE i = n + 1
      BY <1>1, <2>3, <3>1
    <3>2. CASE i # n + 1
      <4>1. i \in 1..n /\ s.looked = n
        BY <2>4, <3>2 DEF LoopHolds
      <4> QED
        BY <2>4, <4>1 DEF LoopHolds
    <3> QED
      BY <3>1, <3>2
  <2> HIDE DEF after
  <2>5. /\ after.kept = s.kept /\ after.nodes = s.nodes /\ after.problems = s.problems
        /\ after.looked = s.looked + 1
    BY <2>2
  <2>6. after = [kept |-> after.kept, nodes |-> after.nodes, problems |-> after.problems,
                 looked |-> after.looked]
    BY <2>2, <2>5
  <2>7. after.looked \in Nat /\ after.looked <= n + 1
    BY <2>5 DEF LoopHolds
  <2>8. LoopHolds(after, v, nodes, k, n + 1, T)
    BY <2>4, <2>5, <2>6, <2>7 DEF LoopHolds
  <2> QED
    BY <2>8 DEF after
<1>2. CASE ~(v.t = "obj" /\ child[2].t = "undef")
  <2> DEFINE result == walk[<<child[2], s.nodes>>]
             e == <<child[1], result.out>>
  <2>1. after = [kept |-> Append(s.kept, e), nodes |-> result.nodes,
                 problems |-> s.problems + result.problems, looked |-> s.looked + 1]
    BY <1>2 DEF LookAt
  <2>2. Sound(result, child[2], s.nodes, k) /\ e \in T /\ e[2] = result.out
    BY <1>0
  <2> HIDE DEF after, result, e
  <2>3. /\ after.kept = Append(s.kept, e) /\ after.nodes = result.nodes
        /\ after.problems = s.problems + result.problems /\ after.looked = s.looked + 1
        /\ after = [kept |-> after.kept, nodes |-> after.nodes, problems |-> after.problems,
                    looked |-> after.looked]
    BY <2>1
  <2>4. /\ after.nodes \in Nat /\ nodes <= after.nodes /\ after.nodes <= MaxWalkNodes
        /\ after.problems \in Nat /\ after.looked \in Nat /\ after.looked <= n + 1
    <3>1. /\ result.nodes \in Nat /\ s.nodes < result.nodes /\ result.nodes <= MaxWalkNodes
          /\ result.problems \in Nat
      BY <2>2 DEF Sound
    <3>2. nodes <= s.nodes /\ s.problems \in Nat /\ s.looked \in Nat /\ s.looked <= n
      BY DEF LoopHolds
    <3>3. after.nodes \in Nat /\ nodes <= after.nodes /\ after.nodes <= MaxWalkNodes
      BY <1>0, <2>3, <3>1, <3>2
    <3>4. after.problems \in Nat
      BY <2>3, <3>1, <3>2
    <3>5. after.looked \in Nat /\ after.looked <= n + 1
      BY <2>3, <3>2
    <3> QED
      BY <3>3, <3>4, <3>5
  <2>5. after.kept \in Seq(T)
    BY <2>2, <2>3 DEF LoopHolds
  <2>6. ASSUME NEW i \in DOMAIN after.kept
        PROVE  CanBeWritten(after.kept[i][2], k) /\ after.kept[i][2].t # "undef"
    <3>1. s.kept \in Seq(T)
      BY DEF LoopHolds
    <3>2. (i \in DOMAIN s.kept /\ after.kept[i] = s.kept[i]) \/ after.kept[i] = e
      BY <2>2, <2>3, <3>1
    <3> QED
      BY <2>2, <3>2 DEF LoopHolds, Sound
  <2>7. /\ IsFiniteSet(Pairs(after.kept, k))
        /\ Cardinality(Pairs(after.kept, k)) <= 2 * (after.nodes - nodes)
    <3>1. s.kept \in Seq(T) /\ IsFiniteSet(Pairs(s.kept, k)) /\ IsFiniteSet(Places(e[2], k))
      BY <2>2 DEF LoopHolds, Sound
    <3>2. /\ IsFiniteSet(Pairs(after.kept, k)) /\ Cardinality(Pairs(after.kept, k)) \in Nat
          /\ Cardinality(Pairs(after.kept, k))
               <= Cardinality(Pairs(s.kept, k)) + Cardinality(Places(e[2], k))
      BY <2>2, <2>3, <3>1, PairsGrow
    <3>3. /\ Cardinality(Pairs(s.kept, k)) \in Nat /\ Cardinality(Places(e[2], k)) \in Nat
          /\ Cardinality(Pairs(s.kept, k)) <= 2 * (s.nodes - nodes)
          /\ Cardinality(Places(e[2], k)) <= 2 * (result.nodes - s.nodes)
      BY <2>2, <3>1, FS_CardinalityType DEF LoopHolds, Sound
    <3>4. result.nodes \in Nat /\ after.nodes = result.nodes
      BY <2>3, <2>4
    <3> HIDE DEF LoopHolds
    <3> QED
      BY <1>0, <3>2, <3>3, <3>4
  <2>8. ASSUME after.problems = 0, after.looked = n + 1, NEW i \in 1..n + 1
        PROVE  CanBeWritten(Children(v)[i][2], k) /\ (v.t = "arr" => Children(v)[i][2].t # "undef")
    <3>1. s.problems = 0 /\ result.problems = 0 /\ s.looked = n
      BY <2>2, <2>3, <2>8 DEF LoopHolds, Sound
    <3>2. CASE i = n + 1
      BY <2>2, <3>1, <3>2 DEF Sound
    <3>3. CASE i # n + 1
      <4>1. i \in 1..n
        BY <3>3
      <4> QED
        BY <3>1, <4>1 DEF LoopHolds
    <3> QED
      BY <3>2, <3>3
  <2>9. LoopHolds(after, v, nodes, k, n + 1, T)
    BY <2>3, <2>4, <2>5, <2>6, <2>7, <2>8 DEF LoopHolds
  <2> QED
    BY <2>9 DEF after
<1> QED
  BY <1>1, <1>2

(* What the copy of a container has last if children were left out. *)
Truncated == <<"<truncated>", Marker>>

(* So it holds at the end of the loop, wherever the loop stops. *)
LEMMA LoopIsSound ==
  ASSUME NEW walk, NEW v, v.t \in Containers, WellFormed(v),
         NEW nodes \in Nat, nodes <= MaxWalkNodes, NEW k \in Nat,
         \A p \in Parts(v) : \A m \in Nat : m < MaxWalkNodes => Sound(walk[<<p, m>>], p, m, k)
  PROVE  \E T : /\ Truncated \in T
                /\ LoopHolds(WalkChildren(walk, v, nodes), v, nodes, k, Len(Children(v)), T)
<1> DEFINE c == Children(v)
           L == Len(c)
           T == {Truncated} \cup {<<c[i][1], walk[<<c[i][2], m>>].out>> : i \in 1..L, m \in Nat}
<1>0. L \in Nat /\ \A n \in 1..L : c[n][2] \in Parts(v)
  BY ChildrenAre
<1>1. PICK f : /\ WalkChildren(walk, v, nodes) = f[L]
               /\ \A n \in 0..L : f[n] = ChildStep(f, walk, v, nodes, n)
  BY <1>0, ChildrenAreSeen
<1> DEFINE U == {n \in Nat : n <= L /\ ~LoopHolds(f[n], v, nodes, k, n, T)}
<1>2. Truncated \in T /\ \A i \in 1..L : \A m \in Nat : <<c[i][1], walk[<<c[i][2], m>>].out>> \in T
  OBVIOUS
<1> HIDE DEF T, L, c
<1>3. ASSUME U # {} PROVE FALSE
  <2>1. PICK n \in U : \A m \in U : n <= m
    BY <1>3, LeastOf
  <2>2. n \in Nat /\ n <= L /\ ~LoopHolds(f[n], v, nodes, k, n, T) /\ n \in 0..L
    BY <1>0, <2>1
  <2> HIDE DEF U
  <2>3. ASSUME n = 0 PROVE FALSE
    <3> DEFINE s == f[0]
    <3>1. s = [kept |-> <<>>, nodes |-> nodes, problems |-> 0, looked |-> 0]
      BY <1>1, <2>2, <2>3 DEF ChildStep
    <3> HIDE DEF s
    <3>2. s.kept = <<>> /\ s.nodes = nodes /\ s.problems = 0 /\ s.looked = 0
      BY <3>1
    <3>3. Pairs(<<>>, k) = {}
      BY DEF Pairs
    <3>4. IsFiniteSet({}) /\ Cardinality({}) = 0 /\ 2 * (nodes - nodes) = 0
      BY FS_EmptySet
    <3>5. /\ s = [kept |-> s.kept, nodes |-> s.nodes, problems |-> s.problems, looked |-> s.looked]
          /\ s.kept \in Seq(T) /\ DOMAIN s.kept = {}
      BY <3>1, <3>2
    <3>6. IsFiniteSet(Pairs(s.kept, k)) /\ Cardinality(Pairs(s.kept, k)) <= 2 * (s.nodes - nodes)
      <4>1. Pairs(s.kept, k) = {} /\ 2 * (s.nodes - nodes) = 0
        BY <3>2, <3>3, <3>4
      <4> QED
        BY <3>4, <4>1
    <3>7. \A i \in 1..0 : FALSE
      OBVIOUS
    <3>8. LoopHolds(s, v, nodes, k, 0, T)
      BY <3>2, <3>5, <3>6, <3>7 DEF LoopHolds
    <3> QED
      BY <2>2, <2>3, <3>8 DEF s
  <2>4. PICK j \in Nat : n = j + 1 /\ j \notin U /\ j <= L /\ n \in 1..L
    <3>1. n - 1 \in Nat /\ n = (n - 1) + 1 /\ n - 1 \notin U /\ n - 1 <= L /\ n \in 1..L
      BY <1>0, <2>1, <2>2, <2>3
    <3> QED
      BY <3>1
  <2> DEFINE s == f[j]
             child == c[n]
  <2>5. LoopHolds(s, v, nodes, k, j, T)
    BY <2>4 DEF U
  <2>6. f[n] = IF n > MaxContainerEntries \/ ~WithinBudget(s.nodes) THEN s ELSE LookAt(walk, v, s, child)
    <3>1. n # 0 /\ n - 1 = j
      BY <2>4
    <3> QED
      BY <1>1, <2>2, <3>1 DEF ChildStep, c
  <2>7. /\ child = Children(v)[j + 1]
        /\ \A m \in Nat : m < MaxWalkNodes => Sound(walk[<<child[2], m>>], child[2], m, k)
        /\ \A m \in Nat : <<child[1], walk[<<child[2], m>>].out>> \in T
    <3>1. child[2] \in Parts(v)
      BY <1>0, <2>4
    <3> QED
      BY <1>2, <2>4, <3>1 DEF c
  <2> HIDE DEF s, child
  <2>8. LoopHolds(s, v, nodes, k, j + 1, T)
    BY <2>5 DEF LoopHolds
  <2>9. WithinBudget(s.nodes) => LoopHolds(LookAt(walk, v, s, child), v, nodes, k, j + 1, T)
    BY <2>4, <2>5, <2>7, LoopGoesOn
  <2> QED
    BY <2>2, <2>4, <2>6, <2>8, <2>9
<1> HIDE DEF U
<1>4. L \in Nat /\ L <= L /\ L \notin U
  BY <1>0, <1>3
<1>5. LoopHolds(WalkChildren(walk, v, nodes), v, nodes, k, L, T)
  BY <1>1, <1>4 DEF U
<1> QED
  BY <1>2, <1>5 DEF L, c

(* A marker can be written anywhere, and is one place. *)
LEMMA MarkerIs ==
  ASSUME NEW k \in Nat
  PROVE  /\ CanBeWritten(Marker, k) /\ Marker.t # "undef"
         /\ Places(Marker, k) = {<<>>} /\ IsFiniteSet(Places(Marker, k))
         /\ Cardinality(Places(Marker, k)) = 1
<1>1. Marker.t = "str" /\ Marker.t \notin Containers /\ Fine(Marker)
  BY DEF Marker, Str, Containers, Fine
<1>2. Places(Marker, k) = {<<>>}
  BY <1>1, PlacesOfLeaf
<1> QED
  BY <1>1, <1>2, LeafIsWritable, FS_Singleton

(* The copy of a container is sound if the walks of its children are. *)
LEMMA CopyIsSound ==
  ASSUME NEW walk, NEW depth, ~(depth > MaxIntentDepth), NEW v, v.t \in Containers, WellFormed(v),
         NEW n \in Nat, n < MaxWalkNodes, NEW k \in Nat,
         \A p \in Parts(v) : \A m \in Nat :
           m < MaxWalkNodes => Sound(walk[depth + 1][<<p, m>>], p, m, k)
  PROVE  Sound(WalkStep(walk, depth, v, n + 1), v, n, k + 1)
<1> DEFINE L == Len(Children(v))
           done == WalkChildren(walk[depth + 1], v, n + 1)
           skipped == done.looked < L
           all == AllKept(done.kept, skipped)
           out == Assemble(v, done.kept, skipped)
           r == WalkStep(walk, depth, v, n + 1)
<1>0. MaxWalkNodes \in Nat /\ n + 1 \in Nat /\ n + 1 <= MaxWalkNodes /\ ~(n + 1 > MaxWalkNodes)
  BY ShapeAssumption
<1>1. PICK T : Truncated \in T /\ LoopHolds(done, v, n + 1, k, L, T)
  BY <1>0, LoopIsSound
<1>2. r = [out |-> out, nodes |-> done.nodes, problems |-> done.problems + (IF skipped THEN 1 ELSE 0)]
  BY <1>0 DEF WalkStep
<1>3. skipped \in BOOLEAN
  OBVIOUS
<1>4. L \in Nat /\ \A p \in Parts(v) : \E i \in 1..L : Children(v)[i][2] = p
  BY ChildrenAre
<1> HIDE DEF done, L, skipped
<1>5. done.kept \in Seq(T)
  BY <1>1 DEF LoopHolds
<1>6. /\ all = (IF skipped THEN Append(done.kept, Truncated) ELSE done.kept)
      /\ all \in Seq(T) /\ CopyOf(out, all, v)
  BY <1>1, <1>3, <1>5, AssembleIs DEF Truncated
<1> HIDE DEF all, out, r
<1>7. ASSUME NEW i \in DOMAIN all PROVE CanBeWritten(all[i][2], k) /\ all[i][2].t # "undef"
  <2>1. (i \in DOMAIN done.kept /\ all[i] = done.kept[i]) \/ all[i] = Truncated
    BY <1>1, <1>5, <1>6
  <2>2. Truncated[2] = Marker
    BY DEF Truncated
  <2> QED
    BY <1>1, <2>1, <2>2, MarkerIs DEF LoopHolds
<1>8. CanBeWritten(out, k + 1) /\ out.t # "undef"
  <2>1. \A p \in Parts(out) : CanBeWritten(p, k) /\ p.t # "undef"
    BY <1>6, <1>7 DEF CopyOf
  <2>2. Fine(out) /\ out.t # "undef"
    BY <1>6, <2>1 DEF Fine, Containers, CopyOf
  <2> QED
    BY <2>1, <2>2, ContainerIsWritable
<1>9. /\ IsFiniteSet(Pairs(done.kept, k)) /\ Cardinality(Pairs(done.kept, k)) \in Nat
      /\ Cardinality(Pairs(done.kept, k)) <= 2 * (done.nodes - (n + 1))
      /\ done.nodes \in Nat /\ n + 1 <= done.nodes /\ done.nodes <= MaxWalkNodes /\ done.problems \in Nat
  <2>1. IsFiniteSet(Pairs(done.kept, k))
    BY <1>1 DEF LoopHolds
  <2> QED
    BY <1>1, <2>1, FS_CardinalityType DEF LoopHolds
<1>10. /\ IsFiniteSet(Pairs(all, k)) /\ Cardinality(Pairs(all, k)) \in Nat
       /\ Cardinality(Pairs(all, k)) <= Cardinality(Pairs(done.kept, k)) + 1
  <2>1. CASE skipped
    <3>1. /\ Truncated \in T /\ Truncated[2] = Marker
          /\ IsFiniteSet(Places(Marker, k)) /\ Cardinality(Places(Marker, k)) = 1
      BY <1>1, MarkerIs DEF Truncated
    <3> QED
      BY <1>5, <1>6, <1>9, <2>1, <3>1, PairsGrow
  <2>2. CASE ~skipped
    <3>1. all = done.kept
      BY <1>6, <2>2
    <3> QED
      BY <1>9, <3>1
  <2> QED
    BY <2>1, <2>2
<1>11. /\ IsFiniteSet(Places(out, k + 1)) /\ Cardinality(Places(out, k + 1)) \in Nat
       /\ Cardinality(Places(out, k + 1)) <= Cardinality(Pairs(all, k)) + 1
  <2>1. out.t \in Containers
    BY <1>6 DEF CopyOf
  <2>2. PICK J : \A j \in DOMAIN out.v : \E i \in DOMAIN all : J[i] = j /\ out.v[j] = all[i][2]
    BY <1>6 DEF CopyOf
  <2> QED
    BY <1>10, <2>1, <2>2, CopyIsSmall
<1>12. Cardinality(Places(out, k + 1)) <= 2 * (done.nodes - n)
  BY <1>9, <1>10, <1>11
<1>13. r.out = out /\ r.nodes = done.nodes /\ r.problems \in Nat
       /\ (r.problems = 0 => done.problems = 0 /\ ~skipped)
  BY <1>2, <1>9
<1>14. ASSUME r.problems = 0 PROVE CanBeWritten(v, k + 1) /\ v.t # "undef"
  <2>1. done.problems = 0 /\ done.looked = L
    <3>1. done.problems = 0 /\ ~skipped
      BY <1>13, <1>14
    <3>2. done.looked \in Nat /\ done.looked <= L
      BY <1>1 DEF LoopHolds
    <3> QED
      BY <1>4, <3>1, <3>2 DEF skipped
  <2>2. \A i \in 1..L : CanBeWritten(Children(v)[i][2], k) /\ (v.t = "arr" => Children(v)[i][2].t # "undef")
    BY <1>1, <2>1 DEF LoopHolds
  <2>3. \A p \in Parts(v) : CanBeWritten(p, k) /\ (v.t = "arr" => p.t # "undef")
    BY <1>4, <2>2
  <2>4. Fine(v)
    BY <2>3 DEF Fine, WellFormed
  <2> QED
    BY <2>3, <2>4, ContainerIsWritable DEF Containers
<1>15. Sound(r, v, n, k + 1)
  <2>1. r.nodes \in Nat /\ n < r.nodes /\ r.nodes <= MaxWalkNodes
    BY <1>9, <1>13
  <2> QED
    BY <1>8, <1>11, <1>12, <1>13, <1>14, <2>1 DEF Sound
<1> QED
  BY <1>15 DEF r

(* What is flagged, or kept as it is. *)
LEMMA LeafIsSound ==
  ASSUME NEW walk, NEW depth, NEW x, NEW n \in Nat, n < MaxWalkNodes, NEW k \in Nat,
         depth > MaxIntentDepth \/ x.t \notin Containers
  PROVE  Sound(WalkStep(walk, depth, x, n + 1), x, n, k)
<1> DEFINE r == WalkStep(walk, depth, x, n + 1)
<1>0. /\ MaxWalkNodes \in Nat /\ n + 1 \in Nat /\ n < n + 1
      /\ n + 1 <= MaxWalkNodes /\ ~(n + 1 > MaxWalkNodes)
      /\ 1 <= 2 * ((n + 1) - n)
  <2>1. MaxWalkNodes \in Nat
    BY ShapeAssumption
  <2>2. n + 1 \in Nat /\ (n + 1) - n = 1
    OBVIOUS
  <2>3. n < n + 1 /\ n + 1 <= MaxWalkNodes /\ ~(n + 1 > MaxWalkNodes)
    BY <2>1
  <2>4. 1 <= 2 * ((n + 1) - n)
    BY <2>2
  <2> QED
    BY <2>1, <2>2, <2>3, <2>4
<1>1. \/ r = Flagged(n + 1)
      \/ r = Keeps(x, n + 1) /\ x.t \in {"null", "str", "num", "negzero"} /\ x.t \notin Containers
  BY <1>0 DEF WalkStep
<1> HIDE DEF r
<1>2. CASE r = Flagged(n + 1)
  <2>1. r.out = Marker /\ r.nodes = n + 1 /\ r.problems = 1
    BY <1>2 DEF Flagged
  <2>2. /\ CanBeWritten(Marker, k) /\ Marker.t # "undef"
        /\ IsFiniteSet(Places(Marker, k)) /\ Cardinality(Places(Marker, k)) = 1
    BY MarkerIs
  <2>3. Sound(r, x, n, k)
    BY <1>0, <2>1, <2>2 DEF Sound
  <2> QED
    BY <2>3 DEF r
<1>3. CASE r = Keeps(x, n + 1) /\ x.t \in {"null", "str", "num", "negzero"} /\ x.t \notin Containers
  <2>1. r.out = x /\ r.nodes = n + 1 /\ r.problems = 0
    BY <1>3 DEF Keeps
  <2>2. Fine(x) /\ x.t # "undef"
    BY <1>3 DEF Fine, Containers
  <2>3. CanBeWritten(x, k) /\ Places(x, k) = {<<>>}
    BY <1>3, <2>2, LeafIsWritable, PlacesOfLeaf
  <2>4. IsFiniteSet(Places(x, k)) /\ Cardinality(Places(x, k)) = 1
    BY <2>3, FS_Singleton
  <2>5. Sound(r, x, n, k)
    BY <1>0, <2>1, <2>2, <2>3, <2>4 DEF Sound
  <2> QED
    BY <2>5 DEF r
<1> QED
  BY <1>1, <1>2, <1>3

(* Whatever the intent is, so far as the walk looks. *)
LEMMA InspectionIsSound ==
  ASSUME NEW v, \A d \in 0..CanonicalMaxDepth + 1 : \A x \in Level(v, d) : WellFormed(x)
  PROVE  Sound(InspectIntentShape(v), v, 0, LimitDepth)
<1> DEFINE N == LimitDepth
           M == CanonicalMaxDepth
<1>0. /\ N \in Nat /\ N > MaxIntentDepth /\ N + 2 = M /\ M \in Nat /\ MaxWalkNodes \in Nat
      /\ 0 < MaxWalkNodes /\ \A d \in 0..N - 1 : ~(d > MaxIntentDepth)
  BY LimitIs, ShapeAssumption DEF LimitDepth, MaxIntentDepth, EntryEnvelopeDepth
<1>1. PICK f : Inspects(f, v) /\ InspectIntentShape(v) = f[0][<<v, 0>>]
  BY InspectionIs
<1> DEFINE Good(d, x, n) == Sound(f[d][<<x, n>>], x, n, N - d)
           T == {k \in Nat : k <= N /\ \E x \in Level(v, N - k) : \E n \in Nat :
                               n < MaxWalkNodes /\ ~Good(N - k, x, n)}
<1> HIDE DEF N, M, Good
<1>2. ASSUME T # {} PROVE FALSE
  <2>1. PICK k \in T : \A m \in T : k <= m
    BY <1>2, LeastOf
  <2>2. PICK x \in Level(v, N - k), n \in Nat :
          k \in Nat /\ k <= N /\ n < MaxWalkNodes /\ ~Good(N - k, x, n)
    BY <2>1
  <2> HIDE DEF T
  <2>3. PICK d \in 0..N : N - k = d /\ N - d = k /\ d \in 0..M /\ d \in 0..M + 1
    <3>1. N - k \in 0..N /\ N - (N - k) = k /\ N - k \in 0..M /\ N - k \in 0..M + 1
      BY <1>0, <2>2
    <3> QED
      BY <3>1
  <2>4. x \in Level(v, d) /\ WellFormed(x) /\ f[d][<<x, n>>] = WalkStep(f, d, x, n + 1)
    BY <1>1, <2>2, <2>3 DEF Inspects, N, M
  <2>5. ~Sound(WalkStep(f, d, x, n + 1), x, n, k)
    BY <2>2, <2>3, <2>4 DEF Good
  <2>6. x.t \in Containers /\ ~(d > MaxIntentDepth)
    BY <2>2, <2>5, LeafIsSound
  <2>7. PICK j \in Nat : k = j + 1 /\ j \notin T /\ j <= N /\ N - j = d + 1 /\ N - (d + 1) = j
    <3>1. k # 0
      BY <1>0, <2>3, <2>6
    <3>2. /\ k - 1 \in Nat /\ k = (k - 1) + 1 /\ k - 1 \notin T /\ k - 1 <= N
          /\ N - (k - 1) = d + 1 /\ N - (d + 1) = k - 1
      BY <1>0, <2>1, <2>2, <2>3, <3>1
    <3> QED
      BY <3>2
  <2>8. \A p \in Level(v, d + 1) : \A m \in Nat : m < MaxWalkNodes => Sound(f[d + 1][<<p, m>>], p, m, j)
    <3>1. \A p \in Level(v, d + 1) : \A m \in Nat : m < MaxWalkNodes => Good(d + 1, p, m)
      BY <2>7 DEF T
    <3> QED
      BY <2>7, <3>1 DEF Good
  <2>9. Parts(x) \subseteq Level(v, d + 1)
    BY <2>3, <2>4, LevelIs DEF M
  <2>10. \A p \in Parts(x) : \A m \in Nat : m < MaxWalkNodes => Sound(f[d + 1][<<p, m>>], p, m, j)
    BY <2>8, <2>9
  <2>11. Sound(WalkStep(f, d, x, n + 1), x, n, j + 1)
    BY <2>2, <2>4, <2>6, <2>10, CopyIsSound
  <2> QED
    BY <2>5, <2>7, <2>11
<1> HIDE DEF T
<1>3. N \in Nat /\ N <= N /\ N - N = 0 /\ N - 0 = N /\ N \notin T
  BY <1>0, <1>2
<1>4. v \in Level(v, 0)
  <2>1. 0 \in 0..M + 1
    BY <1>0
  <2>2. Level(v, 0) = At(v, 0)
    BY <2>1, LevelIs DEF M
  <2> QED
    BY <2>2, AtFacts
<1>5. Good(0, v, 0)
  BY <1>0, <1>3, <1>4 DEF T
<1> QED
  BY <1>1, <1>3, <1>5 DEF Good, N

(* Sequences that go on from a token, and from a sequence. *)
LEMMA TokenFirst ==
  ASSUME NEW S, NEW a \in S, NEW b \in S, NEW s \in Seq(S), NEW t \in Seq(S), <<a>> \o s = <<b>> \o t
  PROVE  a = b /\ s = t
<1>1. <<a>> \in Seq(S) /\ <<b>> \in Seq(S)
  OBVIOUS
<1>2. (<<a>> \o s)[1] = a /\ (<<b>> \o t)[1] = b
  BY <1>1
<1>3. Len(<<a>> \o s) = Len(s) + 1 /\ Len(<<b>> \o t) = Len(t) + 1
  BY <1>1
<1>4. Len(s) \in Nat /\ Len(t) \in Nat /\ Len(s) = Len(t)
  BY <1>3
<1>5. ASSUME NEW i \in 1..Len(s) PROVE s[i] = t[i]
  <2>1. (<<a>> \o s)[i + 1] = s[i] /\ (<<b>> \o t)[i + 1] = t[i]
    BY <1>1, <1>4
  <2> QED
    BY <2>1
<1>6. s = t
  BY <1>4, <1>5, SeqEqual
<1> QED
  BY <1>2, <1>6

(* What begins with a part begins as the part does. *)
LEMMA PartGoesOn ==
  ASSUME NEW S, NEW p \in Seq(S), p # <<>>, NEW r \in Seq(S), NEW s \in Seq(S)
  PROVE  (p \o r) \o s = p \o (r \o s) /\ r \o s \in Seq(S) /\ ((p \o r) \o s)[1] = p[1]
<1>1. (p \o r) \o s = p \o (r \o s)
  BY ConcatAssociative
<1>2. r \o s \in Seq(S)
  OBVIOUS
<1>3. (p \o (r \o s))[1] = p[1]
  BY <1>2
<1> QED
  BY <1>1, <1>2, <1>3

(* The outputs of parts, one after the other, before a closing that begins none
   of them. *)
ClosedBy(f, parts, close, S) ==
  /\ parts \in Seq(Seq(S)) /\ close \in S
  /\ f[Len(parts) + 1] = <<close>>
  /\ \A n \in 1..Len(parts) + 1 : f[n] \in Seq(S)
  /\ \A n \in 1..Len(parts) : /\ f[n] = parts[n] \o f[n + 1]
                             /\ parts[n] # <<>> /\ parts[n][1] # close

GoesOn(f, parts, close, S, s) ==
  /\ Len(parts) \in Nat
  /\ \A n \in 1..Len(parts) : /\ f[n] \o s = parts[n] \o (f[n + 1] \o s)
                             /\ f[n + 1] \o s \in Seq(S)
                             /\ (f[n] \o s)[1] # close
  /\ f[Len(parts) + 1] \o s = <<close>> \o s /\ (f[Len(parts) + 1] \o s)[1] = close

(* That holds whatever comes after the closing. *)
LEMMA ClosedFacts ==
  ASSUME NEW f, NEW parts, NEW close, NEW S, ClosedBy(f, parts, close, S), NEW s \in Seq(S)
  PROVE  GoesOn(f, parts, close, S, s)
<1>0. parts \in Seq(Seq(S)) /\ Len(parts) \in Nat /\ <<close>> \in Seq(S) /\ close \in S
  BY DEF ClosedBy
<1>1. ASSUME NEW n \in 1..Len(parts)
      PROVE  /\ f[n] \o s = parts[n] \o (f[n + 1] \o s) /\ f[n + 1] \o s \in Seq(S)
             /\ (f[n] \o s)[1] # close
  <2>1. n + 1 \in 1..Len(parts) + 1
    BY <1>0
  <2>2. parts[n] \in Seq(S)
    BY <1>0
  <2>3. parts[n] # <<>> /\ parts[n][1] # close /\ f[n] = parts[n] \o f[n + 1] /\ f[n + 1] \in Seq(S)
    BY <2>1 DEF ClosedBy
  <2> DEFINE p == parts[n]
             r == f[n + 1]
  <2> HIDE DEF p, r
  <2>4. p \in Seq(S) /\ p # <<>> /\ p[1] # close /\ r \in Seq(S) /\ f[n] = p \o r
    BY <2>2, <2>3 DEF p, r
  <2>5. (p \o r) \o s = p \o (r \o s) /\ r \o s \in Seq(S) /\ ((p \o r) \o s)[1] = p[1]
    BY <2>4, PartGoesOn
  <2> QED
    BY <2>4, <2>5 DEF p, r
<1>2. f[Len(parts) + 1] = <<close>>
  BY DEF ClosedBy
<1>3. (<<close>> \o s)[1] = close
  BY <1>0
<1>4. f[Len(parts) + 1] \o s = <<close>> \o s /\ (f[Len(parts) + 1] \o s)[1] = close
  BY <1>2, <1>3, Zenon
<1> QED
  BY <1>0, <1>1, <1>4 DEF GoesOn

(* Two outputs go on to the same. *)
Meet(a, s, b, t) == a \o s = b \o t

(* The parts that go on to the same are the same. *)
ToldApart(pa, pb, Same, S) ==
  \A n \in 1..Len(pa) : n <= Len(pb) =>
    \A s, t \in Seq(S) : Meet(pa[n], s, pb[n], t) => s = t /\ n \in Same

(* What is so written has the same parts, if they can be told apart, and goes
   on with the same. *)
LEMMA PartsDecode ==
  ASSUME NEW S, NEW close, NEW pa, NEW ra, ClosedBy(ra, pa, close, S),
         NEW pb, NEW rb, ClosedBy(rb, pb, close, S), NEW Same, ToldApart(pa, pb, Same, S),
         NEW s \in Seq(S), NEW t \in Seq(S), Meet(ra[1], s, rb[1], t)
  PROVE  Len(pa) = Len(pb) /\ s = t /\ 1..Len(pa) \subseteq Same
<1> DEFINE A == Len(pa)
           B == Len(pb)
           E(n) == n <= B + 1 /\ ra[n] \o s = rb[n] \o t /\ \A i \in 1..n - 1 : i \in Same
           T == {n \in Nat : n \in 1..A + 1 /\ ~E(n)}
<1>01. GoesOn(ra, pa, close, S, s)
  BY ClosedFacts, Zenon
<1>02. GoesOn(rb, pb, close, S, t)
  BY ClosedFacts, Zenon
<1>1. /\ A \in Nat
      /\ \A n \in 1..A : /\ ra[n] \o s = pa[n] \o (ra[n + 1] \o s) /\ ra[n + 1] \o s \in Seq(S)
                         /\ (ra[n] \o s)[1] # close
      /\ ra[A + 1] \o s = <<close>> \o s /\ (ra[A + 1] \o s)[1] = close
  BY <1>01, Zenon DEF GoesOn
<1>2. /\ B \in Nat
      /\ \A n \in 1..B : /\ rb[n] \o t = pb[n] \o (rb[n + 1] \o t) /\ rb[n + 1] \o t \in Seq(S)
                         /\ (rb[n] \o t)[1] # close
      /\ rb[B + 1] \o t = <<close>> \o t /\ (rb[B + 1] \o t)[1] = close
  BY <1>02, Zenon DEF GoesOn
<1>3. \A n \in 1..A : n <= B => \A x, y \in Seq(S) : pa[n] \o x = pb[n] \o y => x = y /\ n \in Same
  BY Zenon DEF ToldApart, Meet
<1>4. close \in S
  BY DEF ClosedBy
<1> HIDE DEF A, B
<1>05. ra[1] \o s = rb[1] \o t
  BY Zenon DEF Meet
<1>5. E(1)
  BY <1>2, <1>05
<1> HIDE DEF E
<1>6. ASSUME T # {} PROVE FALSE
  <2>1. PICK n \in T : \A m \in T : n <= m
    BY <1>6, LeastOf
  <2>2. n \in 1..A + 1 /\ ~E(n)
    BY <2>1
  <2> HIDE DEF T
  <2>3. PICK j \in 1..A : n = j + 1 /\ j \notin T /\ j \in 1..A + 1 /\ j \in Nat
    <3>1. n # 1
      BY <1>5, <2>2
    <3>2. n - 1 \in 1..A /\ n = (n - 1) + 1 /\ n - 1 \notin T /\ n - 1 \in 1..A + 1 /\ n - 1 \in Nat
      BY <1>1, <2>1, <2>2, <3>1
    <3> QED
      BY <3>2
  <2>4. j <= B + 1 /\ ra[j] \o s = rb[j] \o t /\ \A i \in 1..j - 1 : i \in Same
    BY <2>3 DEF T, E
  <2>5. j <= B /\ j \in 1..B
    <3>1. ASSUME j = B + 1 PROVE FALSE
      <4>1. (ra[j] \o s)[1] # close
        BY <1>1, Zenon
      <4>2. (rb[j] \o t)[1] = close
        BY <1>2, <3>1, Zenon
      <4> QED
        BY <2>4, <4>1, <4>2, Zenon
    <3>2. j <= B + 1 /\ B \in Nat /\ j \in 1..A /\ j \in Nat
      BY <1>2, <2>3, <2>4, Zenon
    <3> QED
      BY <3>1, <3>2
  <2>6. pa[j] \o (ra[j + 1] \o s) = pb[j] \o (rb[j + 1] \o t)
    BY <1>1, <1>2, <2>4, <2>5, Zenon
  <2>7. ra[j + 1] \o s \in Seq(S) /\ rb[j + 1] \o t \in Seq(S)
    BY <1>1, <1>2, <2>5, Zenon
  <2>8. ra[j + 1] \o s = rb[j + 1] \o t /\ j \in Same
    BY <1>3, <2>5, <2>6, <2>7, Zenon
  <2>9. j + 1 <= B + 1 /\ \A i \in 1..(j + 1) - 1 : i = j \/ i \in 1..j - 1
    BY <1>2, <2>5
  <2>10. E(j + 1)
    BY <2>4, <2>8, <2>9 DEF E
  <2> QED
    BY <2>2, <2>3, <2>10
<1> HIDE DEF T
<1>7. A + 1 \in 1..A + 1 /\ A + 1 \in Nat /\ A + 1 \notin T
  BY <1>1, <1>6
<1>8. A + 1 <= B + 1 /\ ra[A + 1] \o s = rb[A + 1] \o t /\ \A i \in 1..(A + 1) - 1 : i \in Same
  BY <1>7 DEF T, E
<1>9. A = B
  <2>1. ASSUME A # B PROVE FALSE
    <3>1. A + 1 \in 1..B
      BY <1>1, <1>2, <1>8, <2>1
    <3>2. (rb[A + 1] \o t)[1] # close
      BY <1>2, <3>1, Zenon
    <3> QED
      BY <1>1, <1>8, <3>2, Zenon
  <2> QED
    BY <2>1
<1>10. s = t
  <2>1. <<close>> \o s = <<close>> \o t
    BY <1>1, <1>2, <1>8, <1>9, Zenon
  <2>2. s \in Seq(S) /\ t \in Seq(S)
    OBVIOUS
  <2>3. \A a, b \in S : \A x, y \in Seq(S) : <<a>> \o x = <<b>> \o y => a = b /\ x = y
    BY TokenFirst, Zenon
  <2>4. <<close>> \o s = <<close>> \o t => close = close /\ s = t
    BY <1>4, <2>2, <2>3, Zenon
  <2> QED
    BY <2>1, <2>4
<1>11. (A + 1) - 1 = A
  BY <1>1
<1> QED
  BY <1>8, <1>9, <1>10, <1>11 DEF A, B

-----------------------------------------------------------------------------
(* The output of a value tells from its first token what the value is. *)
Heads == {"null", "num", "str", "[", "{"}

HeadOf(x) == IF x.t \in Containers THEN Opens(x) ELSE IF x.t = "negzero" THEN "num" ELSE x.t

Starts(tokens, h) == tokens # <<>> /\ tokens[1] = h

(* A value whose parts are written, each with a beginning. *)
Ready(f, x, S) ==
  /\ Words \subseteq S /\ x.v \in S /\ WellFormed(x)
  /\ \A p \in Parts(x) :
       f[p] \in Seq(S) /\ (f[p] # Throws => Starts(f[p], HeadOf(p)) /\ HeadOf(p) \in Heads)

(* What the lemmas on single outputs need of it. *)
LEMMA ReadyFacts ==
  ASSUME NEW f, NEW x, NEW S, Ready(f, x, S)
  PROVE  /\ Words \subseteq S /\ x.v \in S
         /\ x.t = "arr" => x.v \in Seq(Parts(x))
         /\ \A p \in Parts(x) : f[p] \in Seq(S)
  BY DEF Ready, WellFormed

(* The outputs of its parts begin otherwise than its closing. *)
LEMMA ContainerCloses ==
  ASSUME NEW f, NEW x, NEW S, Ready(f, x, S), x.t \in Containers, SerializeStep(f, x) # Throws
  PROVE  \E g : SerializeStep(f, x) = <<Opens(x)>> \o g[1] /\ ClosedBy(g, Outputs(f, x), Closes(x), S)
<1> DEFINE parts == Outputs(f, x)
<1>1. /\ Words \subseteq S /\ x.v \in S
      /\ x.t = "arr" => x.v \in Seq(Parts(x))
      /\ \A p \in Parts(x) : f[p] \in Seq(S)
  BY ReadyFacts
<1>2. /\ parts \in Seq(Seq(S)) /\ Closes(x) \in S
      /\ \A n \in DOMAIN parts : PartAt(x, n) \in Parts(x)
  BY <1>1, OutputsAre
<1>3. ContainerWrites(f, x, S)
  BY <1>1, ContainerIsWritten
<1>4. PICK g : /\ SerializeStep(f, x) = <<Opens(x)>> \o g[1]
               /\ g[Len(parts) + 1] = <<Closes(x)>>
               /\ \A n \in 1..Len(parts) + 1 : g[n] \in Seq(S)
               /\ \A n \in 1..Len(parts) : g[n] = parts[n] \o g[n + 1]
  <2>1. Splits(SerializeStep(f, x), Opens(x), parts, Closes(x), S)
    BY <1>3 DEF ContainerWrites
  <2> HIDE DEF parts
  <2> QED
    BY <2>1 DEF Splits
<1>5. ASSUME NEW n \in DOMAIN parts PROVE parts[n] # <<>> /\ parts[n][1] # Closes(x)
  <2>1. PartAt(x, n) \in Parts(x) /\ f[PartAt(x, n)] # Throws
    BY <1>2, <1>3 DEF ContainerWrites
  <2>2. f[PartAt(x, n)] \in Seq(S) /\ f[PartAt(x, n)] # <<>> /\ f[PartAt(x, n)][1] \in Heads
    BY <2>1 DEF Ready, Starts
  <2>3. CASE x.t = "arr"
    <3>1. parts[n] = f[PartAt(x, n)]
      BY <2>3 DEF Outputs, PartAt
    <3>2. Closes(x) \notin Heads
      BY <2>3 DEF Closes, Heads
    <3> QED
      BY <2>2, <3>1, <3>2
  <2>4. CASE x.t = "obj"
    <3>1. parts[n] = Property(f, Written(x)[n], PartAt(x, n))
      BY <2>4 DEF Outputs, PartAt
    <3>2. parts[n] = <<"key", Written(x)[n]>> \o f[PartAt(x, n)]
      BY <2>1, <3>1 DEF Property
    <3> DEFINE k == Written(x)[n]
               r == f[PartAt(x, n)]
               Wider == S \cup {"key", k}
    <3> HIDE DEF k, r
    <3>3. r \in Seq(Wider)
      BY <2>2 DEF r
    <3>4. <<"key", k>> \in Seq(Wider)
      OBVIOUS
    <3> HIDE DEF Wider
    <3>5. (<<"key", k>> \o r)[1] = "key" /\ Len(<<"key", k>> \o r) = 2 + Len(r) /\ Len(r) \in Nat
      BY <3>3, <3>4
    <3>6. <<"key", k>> \o r # <<>>
      BY <3>5
    <3>7. Closes(x) # "key"
      BY DEF Closes
    <3> QED
      BY <3>2, <3>5, <3>6, <3>7 DEF k, r
  <2> QED
    BY <2>3, <2>4 DEF Containers
<1>6. DOMAIN parts = 1..Len(parts)
  BY <1>2
<1>7. ClosedBy(g, parts, Closes(x), S)
  BY <1>2, <1>4, <1>5, <1>6 DEF ClosedBy
<1> QED
  BY <1>4, <1>7

(* A leaf is one token or two, and means what they say. *)
Says(tokens, m) ==
  \/ tokens = <<"null">> /\ m = Leaf("null")
  \/ \E k \in {"num", "str"} : \E w : tokens = <<k, w>> /\ m = [t |-> k, v |-> w]

(* The tokens of a leaf say what it means. *)
LEMMA LeafMeans ==
  ASSUME NEW x, x.t \notin Containers, WellFormed(x), LeafTokens(x) # Throws, NEW m
  PROVE  Says(LeafTokens(x), MeaningStep(m, x)) /\ Starts(LeafTokens(x), HeadOf(x)) /\ HeadOf(x) \in Heads
<1>1. x.t \in {"null", "negzero", "str", "num"}
  BY DEF LeafTokens
<1>2. CASE x.t = "null"
  <2>1. x = Leaf("null") /\ LeafTokens(x) = <<"null">> /\ MeaningStep(m, x) = x /\ HeadOf(x) = "null"
    BY <1>2 DEF WellFormed, LeafTokens, MeaningStep, HeadOf, Containers
  <2>2. <<"null">> # <<>> /\ <<"null">>[1] = "null"
    OBVIOUS
  <2> QED
    BY <2>1, <2>2 DEF Says, Starts, Heads
<1>3. CASE x.t = "negzero"
  <2>1. /\ LeafTokens(x) = <<"num", "0">> /\ MeaningStep(m, x) = [t |-> "num", v |-> "0"]
        /\ HeadOf(x) = "num"
    BY <1>3 DEF LeafTokens, MeaningStep, HeadOf, Containers, Num
  <2> QED
    BY <2>1 DEF Says, Starts, Heads
<1>4. CASE x.t \in {"str", "num"}
  <2>1. LeafTokens(x) = <<x.t, x.v>> /\ MeaningStep(m, x) = x /\ HeadOf(x) = x.t
    BY <1>4 DEF LeafTokens, MeaningStep, HeadOf, Containers
  <2>2. x = [t |-> x.t, v |-> x.v]
    BY DEF WellFormed, IsValue
  <2>3. x.t \in {"num", "str"}
    BY <1>4
  <2>4. \E w : LeafTokens(x) = <<x.t, w>> /\ MeaningStep(m, x) = [t |-> x.t, v |-> w]
    BY <2>1, <2>2, Zenon
  <2>5. LeafTokens(x) # <<>> /\ LeafTokens(x)[1] = x.t
    BY <2>1
  <2> QED
    BY <2>1, <2>3, <2>4, <2>5 DEF Says, Starts, Heads
<1> QED
  BY <1>1, <1>2, <1>3, <1>4

(* Every output begins, with the head of its value. *)
LEMMA StepStarts ==
  ASSUME NEW f, NEW x, NEW S, Ready(f, x, S), SerializeStep(f, x) # Throws
  PROVE  /\ SerializeStep(f, x) \in Seq(S)
         /\ Starts(SerializeStep(f, x), HeadOf(x)) /\ HeadOf(x) \in Heads
<1>1. /\ Words \subseteq S /\ x.v \in S
      /\ x.t = "arr" => x.v \in Seq(Parts(x))
      /\ \A p \in Parts(x) : f[p] \in Seq(S)
  BY ReadyFacts
<1>2. CASE x.t \in Containers
  <2>1. SerializeStep(f, x) \in Seq(S)
    BY <1>1, <1>2, ContainerIsWritten
  <2>2. PICK g : SerializeStep(f, x) = <<Opens(x)>> \o g[1] /\ ClosedBy(g, Outputs(f, x), Closes(x), S)
    BY <1>2, ContainerCloses
  <2>3. Len(Outputs(f, x)) \in Nat
    BY <2>2 DEF ClosedBy
  <2>4. 1 \in 1..Len(Outputs(f, x)) + 1
    BY <2>3
  <2>5. g[1] \in Seq(S)
    BY <2>2, <2>4 DEF ClosedBy
  <2>6. Opens(x) \in S
    BY <1>1 DEF Opens, Words
  <2>7. (<<Opens(x)>> \o g[1])[1] = Opens(x) /\ <<Opens(x)>> \o g[1] # <<>>
    BY <2>5, <2>6
  <2>8. HeadOf(x) = Opens(x) /\ HeadOf(x) \in Heads
    BY <1>2 DEF HeadOf, Heads, Opens
  <2> QED
    BY <2>1, <2>2, <2>7, <2>8 DEF Starts
<1>3. CASE x.t \notin Containers
  <2>1. SerializeStep(f, x) = LeafTokens(x) /\ LeafTokens(x) \in Seq(S)
    BY <1>1, <1>3, LeafIsWritten
  <2> QED
    BY <1>3, <2>1, LeafMeans DEF Ready
<1> QED
  BY <1>2, <1>3

(* The outputs of two parts tell them apart, up to what they mean, and where
   they end. *)
Decodes(f, p, m, g, q, k, S) ==
  f[p] # Throws /\ g[q] # Throws =>
    \A s, t \in Seq(S) : Meet(f[p], s, g[q], t) => s = t /\ m[p] = k[q]

(* A part that is written, and what it means. *)
PartMeans(x, n, y, m, k) ==
  /\ m[PartAt(x, n)] = k[PartAt(y, n)]
  /\ x.t = "obj" => Written(x)[n] = Written(y)[n]

(* One sequence after another. *)
Cat(s, t) == s \o t

(* Sequences can be regrouped. *)
LEMMA CatFacts ==
  ASSUME NEW S, NEW s \in Seq(S), NEW t \in Seq(S), NEW u \in Seq(S)
  PROVE  Cat(s, t) \in Seq(S) /\ Cat(Cat(s, t), u) = Cat(s, Cat(t, u))
<1>1. s \o t \in Seq(S)
  OBVIOUS
<1>2. (s \o t) \o u = s \o (t \o u)
  BY ConcatAssociative, SMTT(30)
<1> QED
  BY <1>1, <1>2, Zenon DEF Cat

(* They are equal if what they begin with and what follows are. *)
LEMMA CatFirst ==
  ASSUME NEW S, NEW a \in S, NEW b \in S, NEW s \in Seq(S), NEW t \in Seq(S)
  PROVE  Cat(<<a>>, s) = Cat(<<b>>, t) => a = b /\ s = t
<1>1. ASSUME <<a>> \o s = <<b>> \o t PROVE a = b /\ s = t
  BY <1>1, TokenFirst
<1> QED
  BY <1>1, Zenon DEF Cat

(* A property's output: its name, and that of its value. *)
Named(k, tokens) == Cat(<<"key", k>>, tokens)

(* A property begins with two tokens, the mark of a key and the name. *)
LEMMA NamedIs ==
  ASSUME NEW S, NEW k \in S, "key" \in S, NEW a \in Seq(S), NEW s \in Seq(S)
  PROVE  /\ Cat(Named(k, a), s) = Cat(<<"key">>, Cat(<<k>>, Cat(a, s)))
         /\ Cat(a, s) \in Seq(S) /\ Cat(<<k>>, Cat(a, s)) \in Seq(S)
<1>0. <<k>> \in Seq(S) /\ <<"key">> \in Seq(S)
  OBVIOUS
<1>1. PICK K \in Seq(S) : K = <<k>>
  BY <1>0, Zenon
<1>2. PICK Q \in Seq(S) : Q = <<"key">>
  BY <1>0, Zenon
<1>3. <<"key", k>> = <<"key">> \o <<k>>
  OBVIOUS
<1>4. <<"key", k>> = Cat(Q, K)
  BY <1>1, <1>2, <1>3, Zenon DEF Cat
<1>5. Cat(Q, K) \in Seq(S) /\ Cat(a, s) \in Seq(S)
  BY CatFacts
<1>6. Cat(K, Cat(a, s)) \in Seq(S)
  BY <1>5, CatFacts
<1>7. Cat(Cat(Cat(Q, K), a), s) = Cat(Cat(Q, K), Cat(a, s))
  BY <1>5, CatFacts
<1>8. Cat(Cat(Q, K), Cat(a, s)) = Cat(Q, Cat(K, Cat(a, s)))
  BY <1>5, CatFacts
<1> QED
  BY <1>1, <1>2, <1>4, <1>5, <1>6, <1>7, <1>8, Zenon DEF Named

(* The name can be told from them, and where the value begins. *)
LEMMA PropertyDecodes ==
  ASSUME NEW S, NEW k \in S, NEW l \in S, "key" \in S, NEW a \in Seq(S), NEW b \in Seq(S),
         NEW s \in Seq(S), NEW t \in Seq(S)
  PROVE  Cat(Named(k, a), s) = Cat(Named(l, b), t) => k = l /\ Cat(a, s) = Cat(b, t)
<1> DEFINE A == Cat(a, s)
           B == Cat(b, t)
<1>1. /\ Cat(Named(k, a), s) = Cat(<<"key">>, Cat(<<k>>, A))
      /\ A \in Seq(S) /\ Cat(<<k>>, A) \in Seq(S)
  BY NamedIs
<1>2. /\ Cat(Named(l, b), t) = Cat(<<"key">>, Cat(<<l>>, B))
      /\ B \in Seq(S) /\ Cat(<<l>>, B) \in Seq(S)
  BY NamedIs
<1> HIDE DEF A, B
<1>3. Cat(<<k>>, A) = Cat(<<l>>, B) => k = l /\ A = B
  BY <1>1, <1>2, CatFirst
<1>4. Cat(<<"key">>, Cat(<<k>>, A)) = Cat(<<"key">>, Cat(<<l>>, B)) => Cat(<<k>>, A) = Cat(<<l>>, B)
  BY <1>1, <1>2, CatFirst
<1> QED
  BY <1>1, <1>2, <1>3, <1>4, Zenon DEF A, B

(* One written part can be told from what follows it. *)
LEMMA PartDecodes ==
  ASSUME NEW S, NEW f, NEW x, Ready(f, x, S), NEW g, NEW y, Ready(g, y, S),
         x.t \in Containers, x.t = y.t,
         NEW m, NEW k, \A p \in Parts(x) : \A q \in Parts(y) : Decodes(f, p, m, g, q, k, S),
         SerializeStep(f, x) # Throws, SerializeStep(g, y) # Throws,
         NEW n \in DOMAIN Outputs(f, x), n \in DOMAIN Outputs(g, y),
         NEW s \in Seq(S), NEW t \in Seq(S), Meet(Outputs(f, x)[n], s, Outputs(g, y)[n], t)
  PROVE  s = t /\ PartMeans(x, n, y, m, k)
<1> DEFINE p == PartAt(x, n)
           q == PartAt(y, n)
<1>1. /\ Words \subseteq S
      /\ x.t = "arr" => x.v \in Seq(Parts(x))
      /\ \A r \in Parts(x) : f[r] \in Seq(S)
      /\ y.t = "arr" => y.v \in Seq(Parts(y))
      /\ \A r \in Parts(y) : g[r] \in Seq(S)
  BY ReadyFacts
<1>2. p \in Parts(x) /\ q \in Parts(y)
  <2>1. \A i \in DOMAIN Outputs(f, x) : PartAt(x, i) \in Parts(x)
    BY <1>1, OutputsAre
  <2>2. \A i \in DOMAIN Outputs(g, y) : PartAt(y, i) \in Parts(y)
    BY <1>1, OutputsAre
  <2> QED
    BY <2>1, <2>2
<1>3. f[p] # Throws /\ g[q] # Throws
  <2>1. ContainerWrites(f, x, S)
    BY <1>1, ContainerIsWritten
  <2>2. ContainerWrites(g, y, S)
    BY <1>1, ContainerIsWritten
  <2> QED
    BY <2>1, <2>2 DEF ContainerWrites
<1>4. f[p] \in Seq(S) /\ g[q] \in Seq(S) /\ Decodes(f, p, m, g, q, k, S)
  BY <1>1, <1>2
<1>5. CASE x.t = "arr"
  <2>1. Outputs(f, x)[n] = f[p] /\ Outputs(g, y)[n] = g[q]
    BY <1>5 DEF Outputs, PartAt
  <2> HIDE DEF p, q
  <2>2. s = t /\ m[p] = k[q]
    BY <1>3, <1>4, <2>1, Zenon DEF Decodes
  <2> QED
    BY <1>5, <2>2 DEF PartMeans, p, q
<1>6. CASE x.t = "obj"
  <2> DEFINE a == Written(x)[n]
             b == Written(y)[n]
  <2>1. Outputs(f, x)[n] = Property(f, a, p) /\ Outputs(g, y)[n] = Property(g, b, q)
    BY <1>6 DEF Outputs, PartAt
  <2>2. Outputs(f, x)[n] = <<"key", a>> \o f[p] /\ Outputs(g, y)[n] = <<"key", b>> \o g[q]
    BY <1>3, <2>1 DEF Property
  <2>3. n \in DOMAIN Written(x) /\ n \in DOMAIN Written(y)
    BY <1>6 DEF Outputs
  <2>4. Written(x) \in Seq(PropertyNames) /\ Written(y) \in Seq(PropertyNames)
    BY InOrderIs DEF Written
  <2>5. a \in S /\ b \in S /\ "key" \in S
    <3>1. PropertyNames \subseteq S /\ "key" \in S
      BY <1>1 DEF Words
    <3>2. a \in PropertyNames
      BY <2>3, <2>4
    <3>3. b \in PropertyNames
      BY <2>3, <2>4
    <3> QED
      BY <3>1, <3>2, <3>3
  <2> HIDE DEF p, q, a, b
  <2> DEFINE fp == f[p]
             gq == g[q]
  <2>6. fp \in Seq(S) /\ gq \in Seq(S) /\ Cat(Named(a, fp), s) = Cat(Named(b, gq), t)
    BY <1>4, <2>2, Zenon DEF Named, Cat, Meet, fp, gq
  <2>7. a = b /\ Cat(fp, s) = Cat(gq, t)
    BY <2>5, <2>6, PropertyDecodes
  <2>8. s = t /\ m[p] = k[q]
    BY <1>3, <1>4, <2>7, Zenon DEF Decodes, Cat, Meet, fp, gq
  <2> QED
    BY <2>7, <2>8 DEF PartMeans, p, q, a, b
<1> QED
  BY <1>5, <1>6 DEF Containers

(* Parts that mean the same make values that do. *)
LEMMA PartsMean ==
  ASSUME NEW S, NEW f, NEW x, Ready(f, x, S), NEW g, NEW y, Ready(g, y, S),
         x.t \in Containers, x.t = y.t, NEW m, NEW k,
         DOMAIN Outputs(f, x) = DOMAIN Outputs(g, y),
         \A n \in DOMAIN Outputs(f, x) : PartMeans(x, n, y, m, k)
  PROVE  MeaningStep(m, x) = MeaningStep(k, y)
<1>1. CASE x.t = "arr"
  <2>1. DOMAIN x.v = DOMAIN y.v /\ DOMAIN x.v = DOMAIN Outputs(f, x)
    BY <1>1 DEF Outputs
  <2>2. \A n \in DOMAIN x.v : m[x.v[n]] = k[y.v[n]]
    BY <1>1, <2>1 DEF PartMeans, PartAt
  <2>3. [n \in DOMAIN x.v |-> m[x.v[n]]] = [n \in DOMAIN y.v |-> k[y.v[n]]]
    BY <2>1, <2>2
  <2> QED
    BY <1>1, <2>3 DEF MeaningStep
<1>2. CASE x.t = "obj"
  <2> DEFINE W == Written(x)
             V == Written(y)
  <2>1. DOMAIN W = DOMAIN V /\ DOMAIN W = DOMAIN Outputs(f, x)
    BY <1>2 DEF Outputs
  <2>2. \A n \in DOMAIN W : W[n] = V[n] /\ m[x.v[W[n]]] = k[y.v[V[n]]]
    BY <1>2, <2>1 DEF PartMeans, PartAt
  <2>3. {W[n] : n \in DOMAIN W} = Enumerated(x.v)
    <3>1. Enumerated(x.v) \subseteq PropertyNames
      BY <1>2 DEF Ready, WellFormed, Enumerated, PropertyNames
    <3> QED
      BY <3>1, InOrderIs DEF Written
  <2>4. {V[n] : n \in DOMAIN V} = Enumerated(y.v)
    <3>1. Enumerated(y.v) \subseteq PropertyNames
      BY <1>2 DEF Ready, WellFormed, Enumerated, PropertyNames
    <3> QED
      BY <3>1, InOrderIs DEF Written
  <2> HIDE DEF W, V
  <2>5. Enumerated(x.v) = Enumerated(y.v)
    BY <2>1, <2>2, <2>3, <2>4
  <2>6. ASSUME NEW j \in Enumerated(x.v) PROVE m[x.v[j]] = k[y.v[j]]
    <3>1. PICK n \in DOMAIN W : W[n] = j
      BY <2>3
    <3> QED
      BY <2>2, <3>1
  <2>7. [j \in Enumerated(x.v) |-> m[x.v[j]]] = [j \in Enumerated(y.v) |-> k[y.v[j]]]
    BY <2>5, <2>6
  <2> QED
    BY <1>2, <2>7 DEF MeaningStep
<1> QED
  BY <1>1, <1>2 DEF Containers

(* So a container's output tells what the container means. *)
LEMMA ContainerDecodes ==
  ASSUME NEW S, NEW f, NEW x, Ready(f, x, S), NEW g, NEW y, Ready(g, y, S),
         x.t \in Containers, x.t = y.t,
         NEW m, NEW k, \A p \in Parts(x) : \A q \in Parts(y) : Decodes(f, p, m, g, q, k, S),
         SerializeStep(f, x) # Throws, SerializeStep(g, y) # Throws,
         NEW s \in Seq(S), NEW t \in Seq(S), Cat(SerializeStep(f, x), s) = Cat(SerializeStep(g, y), t)
  PROVE  s = t /\ MeaningStep(m, x) = MeaningStep(k, y)
<1> DEFINE pa == Outputs(f, x)
           pb == Outputs(g, y)
<1>1. PICK F : SerializeStep(f, x) = <<Opens(x)>> \o F[1] /\ ClosedBy(F, pa, Closes(x), S)
  BY ContainerCloses
<1>2. y.t \in Containers
  OBVIOUS
<1>3. PICK G : SerializeStep(g, y) = <<Opens(y)>> \o G[1] /\ ClosedBy(G, pb, Closes(y), S)
  BY <1>2, ContainerCloses
<1>4. Opens(x) = Opens(y) /\ Closes(x) = Closes(y) /\ Opens(x) \in S
  BY ReadyFacts DEF Opens, Closes, Words
<1>5. pa \in Seq(Seq(S)) /\ pb \in Seq(Seq(S))
  BY <1>1, <1>3 DEF ClosedBy
<1>6. ASSUME NEW n \in DOMAIN pa, n \in DOMAIN pb, NEW u \in Seq(S), NEW v \in Seq(S),
             Meet(pa[n], u, pb[n], v)
      PROVE  u = v /\ PartMeans(x, n, y, m, k)
  BY <1>6, PartDecodes
<1> HIDE DEF pa, pb
<1>7. /\ DOMAIN pa = 1..Len(pa) /\ DOMAIN pb = 1..Len(pb) /\ Len(pa) \in Nat /\ Len(pb) \in Nat
      /\ 1 \in 1..Len(pa) + 1 /\ 1 \in 1..Len(pb) + 1
  BY <1>5
<1>8. F[1] \in Seq(S) /\ G[1] \in Seq(S)
  BY <1>1, <1>3, <1>7 DEF ClosedBy
<1>9. Meet(F[1], s, G[1], t)
  <2> DEFINE a == F[1]
             b == G[1]
             o == Opens(x)
  <2>1. a \in Seq(S) /\ b \in Seq(S) /\ o \in S
    BY <1>4, <1>8
  <2>2. SerializeStep(f, x) = Cat(<<o>>, a) /\ SerializeStep(g, y) = Cat(<<o>>, b)
    BY <1>1, <1>3, <1>4, Zenon DEF Cat
  <2> HIDE DEF a, b, o
  <2>3. <<o>> \in Seq(S)
    BY <2>1
  <2>4. /\ Cat(Cat(<<o>>, a), s) = Cat(<<o>>, Cat(a, s)) /\ Cat(a, s) \in Seq(S)
        /\ Cat(Cat(<<o>>, b), t) = Cat(<<o>>, Cat(b, t)) /\ Cat(b, t) \in Seq(S)
    <3>1. PICK O \in Seq(S) : O = <<o>>
      BY <2>3, Zenon
    <3>2. Cat(Cat(O, a), s) = Cat(O, Cat(a, s)) /\ Cat(a, s) \in Seq(S)
      BY <2>1, CatFacts
    <3>3. Cat(Cat(O, b), t) = Cat(O, Cat(b, t)) /\ Cat(b, t) \in Seq(S)
      BY <2>1, CatFacts
    <3> QED
      BY <3>1, <3>2, <3>3, Zenon
  <2>5. Cat(<<o>>, Cat(a, s)) = Cat(<<o>>, Cat(b, t)) => o = o /\ Cat(a, s) = Cat(b, t)
    BY <2>1, <2>4, CatFirst
  <2>6. Cat(a, s) = Cat(b, t)
    BY <2>2, <2>4, <2>5, Zenon
  <2> QED
    BY <2>6, Zenon DEF Cat, Meet, a, b
<1> DEFINE Same == {n \in 1..Len(pa) : PartMeans(x, n, y, m, k)}
<1>10. ToldApart(pa, pb, Same, S)
  <2> SUFFICES ASSUME NEW n \in 1..Len(pa), n <= Len(pb), NEW u \in Seq(S), NEW v \in Seq(S),
                      Meet(pa[n], u, pb[n], v)
               PROVE  u = v /\ n \in Same
    BY Zenon DEF ToldApart
  <2>1. n \in DOMAIN pa /\ n \in DOMAIN pb
    BY <1>7
  <2>2. u = v /\ PartMeans(x, n, y, m, k)
    BY <1>6, <2>1, Zenon
  <2> QED
    BY <2>2 DEF Same
<1> HIDE DEF Same
<1>11. ClosedBy(F, pa, Closes(x), S) /\ ClosedBy(G, pb, Closes(x), S)
  BY <1>1, <1>3, <1>4, Zenon
<1>12. Len(pa) = Len(pb) /\ s = t /\ 1..Len(pa) \subseteq Same
  BY <1>9, <1>10, <1>11, PartsDecode
<1>13. DOMAIN pa = DOMAIN pb /\ \A n \in DOMAIN pa : PartMeans(x, n, y, m, k)
  BY <1>7, <1>12 DEF Same
<1>14. MeaningStep(m, x) = MeaningStep(k, y)
  BY <1>13, PartsMean DEF pa, pb
<1> QED
  BY <1>12, <1>14

(* Outputs that go on to the same begin with the same token. *)
LEMMA MeetFirst ==
  ASSUME NEW S, NEW a \in Seq(S), a # <<>>, NEW b \in Seq(S), b # <<>>,
         NEW s \in Seq(S), NEW t \in Seq(S), Meet(a, s, b, t)
  PROVE  a[1] = b[1]
<1>1. (a \o s)[1] = a[1]
  OBVIOUS
<1>2. (b \o t)[1] = b[1]
  OBVIOUS
<1> QED
  BY <1>1, <1>2, Zenon DEF Meet

(* After one token the rest is the same. *)
LEMMA MeetOne ==
  ASSUME NEW S, NEW a \in S, NEW s \in Seq(S), NEW t \in Seq(S), Meet(<<a>>, s, <<a>>, t)
  PROVE  s = t
<1>1. Cat(<<a>>, s) = Cat(<<a>>, t) => a = a /\ s = t
  BY CatFirst
<1> QED
  BY <1>1, Zenon DEF Meet, Cat

(* Two tokens are one and another. *)
LEMMA TwoAreOnes ==
  ASSUME NEW S, NEW k \in S, NEW w \in S
  PROVE  <<k, w>> = <<k>> \o <<w>>
<1> DEFINE p == <<k, w>>
           q == <<k>> \o <<w>>
<1>1. p \in Seq(S) /\ Len(p) = 2 /\ p[1] = k /\ p[2] = w
  OBVIOUS
<1>2. q \in Seq(S) /\ Len(q) = 2 /\ q[1] = k /\ q[2] = w
  <2>0. <<k>> \in Seq(S) /\ <<w>> \in Seq(S)
    OBVIOUS
  <2>1. PICK W \in Seq(S) : W = <<w>>
    BY <2>0, Zenon
  <2>2. Len(W) = 1 /\ W[1] = w
    BY <2>1
  <2>3. <<k>> \o W \in Seq(S)
    BY <2>0
  <2>4. (<<k>> \o W)[1] = k
    BY <2>0
  <2>5. Len(<<k>> \o W) = Len(W) + 1
    BY <2>0
  <2>6. (<<k>> \o W)[1 + 1] = W[1]
    BY <2>0, <2>2
  <2>7. Len(W) + 1 = 2 /\ 1 + 1 = 2
    BY <2>2
  <2> QED
    BY <2>1, <2>2, <2>3, <2>4, <2>5, <2>6, <2>7, Zenon
<1> HIDE DEF p, q
<1>3. \A i \in 1..Len(p) : p[i] = q[i]
  BY <1>1, <1>2
<1>4. p = q
  BY <1>1, <1>2, <1>3, SeqEqual
<1> QED
  BY <1>4 DEF p, q

(* So with leaves of two tokens. *)
LEMMA MeetTwo ==
  ASSUME NEW S, NEW k \in S, NEW w \in S, NEW l \in S, NEW u \in S, NEW s \in Seq(S), NEW t \in Seq(S),
         Meet(<<k, w>>, s, <<l, u>>, t)
  PROVE  k = l /\ w = u /\ s = t
<1>0. <<k>> \in Seq(S) /\ <<w>> \in Seq(S) /\ <<l>> \in Seq(S) /\ <<u>> \in Seq(S)
  OBVIOUS
<1>1. <<k, w>> = <<k>> \o <<w>> /\ <<l, u>> = <<l>> \o <<u>>
  BY TwoAreOnes
<1>2. Cat(Cat(<<k>>, <<w>>), s) = Cat(Cat(<<l>>, <<u>>), t)
  BY <1>1, Zenon DEF Meet, Cat
<1>3. PICK K \in Seq(S), W \in Seq(S), L \in Seq(S), U \in Seq(S) :
        K = <<k>> /\ W = <<w>> /\ L = <<l>> /\ U = <<u>>
  BY <1>0, Zenon
<1>4. Cat(Cat(K, W), s) = Cat(K, Cat(W, s)) /\ Cat(W, s) \in Seq(S)
  BY CatFacts
<1>5. Cat(Cat(L, U), t) = Cat(L, Cat(U, t)) /\ Cat(U, t) \in Seq(S)
  BY CatFacts
<1>6. Cat(<<k>>, Cat(W, s)) = Cat(<<l>>, Cat(U, t))
  BY <1>2, <1>3, <1>4, <1>5, Zenon
<1>7. Cat(<<k>>, Cat(W, s)) = Cat(<<l>>, Cat(U, t)) => k = l /\ Cat(W, s) = Cat(U, t)
  BY <1>4, <1>5, CatFirst
<1>8. Cat(<<w>>, s) = Cat(<<u>>, t) => w = u /\ s = t
  BY CatFirst
<1> QED
  BY <1>3, <1>6, <1>7, <1>8, Zenon

(* The outputs of the parts of two values tell what the parts mean. *)
PartsDecoded(f, x, m, g, y, k, S) ==
  \A p \in Parts(x) : \A q \in Parts(y) : Decodes(f, p, m, g, q, k, S)

(* Two outputs that go on to the same are those of one meaning. *)
LEMMA StepDecodes ==
  ASSUME NEW S, NEW f, NEW x, Ready(f, x, S), NEW g, NEW y, Ready(g, y, S),
         NEW m, NEW k, PartsDecoded(f, x, m, g, y, k, S),
         SerializeStep(f, x) # Throws, SerializeStep(g, y) # Throws,
         NEW s \in Seq(S), NEW t \in Seq(S), Meet(SerializeStep(f, x), s, SerializeStep(g, y), t)
  PROVE  s = t /\ MeaningStep(m, x) = MeaningStep(k, y)
<1>1. /\ SerializeStep(f, x) \in Seq(S) /\ Starts(SerializeStep(f, x), HeadOf(x))
      /\ SerializeStep(g, y) \in Seq(S) /\ Starts(SerializeStep(g, y), HeadOf(y))
  BY StepStarts
<1>2. HeadOf(x) = HeadOf(y)
  <2> DEFINE a == SerializeStep(f, x)
             b == SerializeStep(g, y)
  <2> HIDE DEF a, b
  <2>1. a \in Seq(S) /\ a # <<>> /\ b \in Seq(S) /\ b # <<>> /\ a[1] = HeadOf(x) /\ b[1] = HeadOf(y)
    BY <1>1 DEF Starts, a, b
  <2>2. Meet(a, s, b, t)
    BY DEF a, b
  <2>3. a[1] = b[1]
    BY <2>1, <2>2, MeetFirst
  <2> QED
    BY <2>1, <2>3
<1>3. /\ x.t \notin Containers => SerializeStep(f, x) = LeafTokens(x) /\ LeafTokens(x) # Throws
      /\ y.t \notin Containers => SerializeStep(g, y) = LeafTokens(y) /\ LeafTokens(y) # Throws
  BY ReadyFacts, LeafIsWritten
<1>4. /\ x.t \notin Containers => x.t \in {"null", "negzero", "str", "num"}
      /\ y.t \notin Containers => y.t \in {"null", "negzero", "str", "num"}
  BY <1>3 DEF LeafTokens
<1>5. CASE x.t \in Containers
  <2>1. x.t = y.t
    <3>1. HeadOf(x) = Opens(x) /\ Opens(x) \in {"[", "{"}
      BY <1>5 DEF HeadOf, Opens
    <3>2. y.t \notin Containers => HeadOf(y) \in {"null", "num", "str"}
      BY <1>4 DEF HeadOf
    <3>3. y.t \in Containers
      BY <1>2, <3>1, <3>2
    <3>4. Opens(x) = Opens(y)
      BY <1>2, <3>1, <3>3 DEF HeadOf
    <3>5. x.t \in {"arr", "obj"} /\ y.t \in {"arr", "obj"}
      BY <1>5, <3>3 DEF Containers
    <3>6. CASE x.t = "arr"
      BY <3>4, <3>5, <3>6 DEF Opens
    <3>7. CASE x.t = "obj"
      BY <3>4, <3>5, <3>7 DEF Opens
    <3> QED
      BY <3>5, <3>6, <3>7
  <2>2. Cat(SerializeStep(f, x), s) = Cat(SerializeStep(g, y), t)
    BY Zenon DEF Meet, Cat
  <2>3. \A p \in Parts(x) : \A q \in Parts(y) : Decodes(f, p, m, g, q, k, S)
    BY Zenon DEF PartsDecoded
  <2> QED
    BY <1>5, <2>1, <2>2, <2>3, ContainerDecodes
<1>6. CASE x.t \notin Containers
  <2>1. y.t \notin Containers
    BY <1>2, <1>4, <1>6 DEF HeadOf, Opens, Containers
  <2> DEFINE a == LeafTokens(x)
             b == LeafTokens(y)
  <2>2. WellFormed(x) /\ WellFormed(y)
    BY DEF Ready
  <2>3. Says(a, MeaningStep(m, x)) /\ Starts(a, HeadOf(x))
    BY <1>3, <1>6, <2>2, LeafMeans
  <2>4. Says(b, MeaningStep(k, y)) /\ Starts(b, HeadOf(y))
    BY <1>3, <2>1, <2>2, LeafMeans
  <2>5. Meet(a, s, b, t) /\ a \in Seq(S) /\ b \in Seq(S)
    BY <1>1, <1>3, <1>6, <2>1
  <2> DEFINE mx == MeaningStep(m, x)
             my == MeaningStep(k, y)
  <2> HIDE DEF a, b, mx, my
  <2>6. Says(a, mx) /\ Says(b, my) /\ a[1] = b[1]
    BY <1>2, <2>3, <2>4 DEF mx, my, Starts
  <2>7. CASE a = <<"null">> /\ mx = Leaf("null")
    <3>1. b = <<"null">> /\ my = Leaf("null")
      BY <2>6, <2>7 DEF Says
    <3>2. "null" \in S
      BY ReadyFacts DEF Words
    <3>3. s = t
      BY <2>5, <2>7, <3>1, <3>2, MeetOne
    <3> QED
      BY <2>7, <3>1, <3>3 DEF mx, my
  <2>8. ASSUME NEW c \in {"num", "str"}, NEW w, a = <<c, w>>, mx = [t |-> c, v |-> w]
        PROVE  s = t /\ mx = my
    <3>0. PICK d \in {"num", "str"} : \E u : b = <<d, u>> /\ my = [t |-> d, v |-> u]
      BY <2>6, <2>8 DEF Says
    <3>1. PICK u : b = <<d, u>> /\ my = [t |-> d, v |-> u]
      BY <3>0
    <3>2. c \in S /\ w \in S /\ d \in S /\ u \in S
      BY <2>5, <2>8, <3>1
    <3>3. Meet(<<c, w>>, s, <<d, u>>, t)
      BY <2>5, <2>8, <3>1, Zenon
    <3>4. c = d /\ w = u /\ s = t
      BY <3>2, <3>3, MeetTwo
    <3> QED
      BY <2>8, <3>1, <3>4
  <2> QED
    BY <2>6, <2>7, <2>8 DEF Says, mx, my
<1> QED
  BY <1>5, <1>6

(* Values as a program has them, at every level. *)
AllWellFormed(v) == \A d \in 0..CanonicalMaxDepth + 1 : \A x \in Level(v, d) : WellFormed(x)

(* Every value at every level has its parts written, each with a beginning. *)
LEMMA TextsAreReady ==
  ASSUME NEW v, AllWellFormed(v), NEW f, Texts(f, v), NEW S, Spells(S, v)
  PROVE  \A d \in 0..CanonicalMaxDepth : \A x \in Level(v, d) : Ready(f[d + 1], x, S)
<1> DEFINE M == CanonicalMaxDepth
           P(d) == \A x \in Level(v, d) :
                     f[d][x] # Throws => Starts(f[d][x], HeadOf(x)) /\ HeadOf(x) \in Heads
           T == {k \in Nat : k <= M + 1 /\ ~P(M + 1 - k)}
<1>0. M \in Nat
  BY ShapeAssumption
<1>1. \A d \in 0..M + 1 : \A x \in Level(v, d) : f[d][x] \in Seq(S)
  BY TextsAreWords
<1>2. \A d \in 0..M : \A x \in Level(v, d) : Parts(x) \subseteq Level(v, d + 1) /\ WellFormed(x)
                                             /\ Words \subseteq S /\ x.v \in S
  BY <1>0, LevelIs DEF AllWellFormed, Spells
<1>3. /\ \A x \in Level(v, M + 1) : f[M + 1][x] = Throws
      /\ \A d \in 0..M : \A x \in Level(v, d) : f[d][x] = SerializeStep(f[d + 1], x)
  BY DEF Texts
<1> HIDE DEF M
<1>4. ASSUME NEW d \in 0..M, P(d + 1), NEW x \in Level(v, d) PROVE Ready(f[d + 1], x, S)
  <2>1. d + 1 \in 0..M + 1
    BY <1>0
  <2>2. \A p \in Parts(x) : p \in Level(v, d + 1)
    BY <1>2
  <2>3. \A p \in Parts(x) : f[d + 1][p] \in Seq(S)
    BY <1>1, <2>1, <2>2
  <2>4. \A p \in Parts(x) : f[d + 1][p] # Throws => Starts(f[d + 1][p], HeadOf(p)) /\ HeadOf(p) \in Heads
    BY <1>4, <2>2
  <2> QED
    BY <1>2, <2>3, <2>4 DEF Ready
<1>5. ASSUME T # {} PROVE FALSE
  <2>1. PICK k \in T : \A j \in T : k <= j
    BY <1>5, LeastOf
  <2>2. k \in Nat /\ k <= M + 1 /\ ~P(M + 1 - k)
    BY <2>1
  <2> HIDE DEF T
  <2>3. k # 0
    <3>1. M + 1 - 0 = M + 1
      BY <1>0
    <3>2. P(M + 1)
      BY <1>3
    <3> HIDE DEF P
    <3> QED
      BY <2>2, <3>1, <3>2
  <2>4. /\ M + 1 - k \in 0..M /\ k - 1 \in Nat /\ k - 1 <= M + 1 /\ k - 1 \notin T
        /\ M + 1 - (k - 1) = (M + 1 - k) + 1
    <3> HIDE DEF P
    <3> QED
      BY <1>0, <2>1, <2>2, <2>3
  <2>5. PICK d \in 0..M : d = M + 1 - k /\ M + 1 - (k - 1) = d + 1
    BY <2>4
  <2>6. P(d + 1)
    <3> HIDE DEF P
    <3> QED
      BY <2>4, <2>5 DEF T
  <2>7. ASSUME NEW x \in Level(v, d), f[d][x] # Throws
        PROVE  Starts(f[d][x], HeadOf(x)) /\ HeadOf(x) \in Heads
    <3>1. Ready(f[d + 1], x, S)
      BY <1>4, <2>6
    <3>2. f[d][x] = SerializeStep(f[d + 1], x)
      BY <1>3
    <3> DEFINE g == f[d + 1]
    <3> HIDE DEF g
    <3>3. Ready(g, x, S) /\ SerializeStep(g, x) # Throws
      BY <2>7, <3>1, <3>2 DEF g
    <3>4. Starts(SerializeStep(g, x), HeadOf(x)) /\ HeadOf(x) \in Heads
      BY <3>3, StepStarts
    <3> QED
      BY <3>2, <3>4 DEF g
  <2>8. P(d)
    BY <2>7
  <2> HIDE DEF P
  <2> QED
    BY <2>2, <2>5, <2>8
<1> HIDE DEF T
<1>6. ASSUME NEW d \in 0..M PROVE P(d + 1)
  <2> HIDE DEF P
  <2>1. M - d \in Nat /\ M - d <= M + 1 /\ M - d \notin T /\ M + 1 - (M - d) = d + 1
    BY <1>0, <1>5
  <2> QED
    BY <2>1 DEF T
<1> HIDE DEF P
<1> QED
  BY <1>4, <1>6 DEF M

-----------------------------------------------------------------------------
(* What two values' bytes are at a level decides what they mean there. *)
LEMMA OneMeaning ==
  ASSUME NEW v, NEW w, AllWellFormed(v), AllWellFormed(w),
         CanonicalJsonOf(v) = CanonicalJsonOf(w), CanonicalJsonOf(v) # Throws
  PROVE  Meaning(v) = Meaning(w)
<1> DEFINE M == CanonicalMaxDepth
<1>0. M \in Nat
  BY ShapeAssumption
<1>1. PICK f : Texts(f, v) /\ CanonicalJsonOf(v) = f[0][v]
  BY TextsAre
<1>2. PICK g : Texts(g, w) /\ CanonicalJsonOf(w) = g[0][w]
  BY TextsAre
<1>3. PICK m : Meanings(m, v) /\ Meaning(v) = m[0][v]
  BY MeaningsAre
<1>4. PICK k : Meanings(k, w) /\ Meaning(w) = k[0][w]
  BY MeaningsAre
<1>5. PICK S : Spells(S, v) /\ Spells(S, w)
  <2>1. \A d \in 0..M : \A x \in Level(v, d) \cup Level(w, d) : x.t = "arr" => x.v \in Seq(Parts(x))
    BY <1>0 DEF AllWellFormed, WellFormed
  <2> QED
    BY <2>1, WordsExist
<1>6. \A d \in 0..M : \A x \in Level(v, d) : Ready(f[d + 1], x, S)
  BY <1>1, <1>5, TextsAreReady
<1>7. \A d \in 0..M : \A y \in Level(w, d) : Ready(g[d + 1], y, S)
  BY <1>2, <1>5, TextsAreReady
<1>8. /\ \A d \in 0..M : \A x \in Level(v, d) : Parts(x) \subseteq Level(v, d + 1)
      /\ \A d \in 0..M : \A y \in Level(w, d) : Parts(y) \subseteq Level(w, d + 1)
  BY LevelIs
<1>9. /\ \A x \in Level(v, M + 1) : f[M + 1][x] = Throws
      /\ \A d \in 0..M : \A x \in Level(v, d) :
           f[d][x] = SerializeStep(f[d + 1], x) /\ m[d][x] = MeaningStep(m[d + 1], x)
      /\ \A d \in 0..M : \A y \in Level(w, d) :
           g[d][y] = SerializeStep(g[d + 1], y) /\ k[d][y] = MeaningStep(k[d + 1], y)
  BY <1>1, <1>2, <1>3, <1>4 DEF Texts, Meanings
<1> DEFINE P(d) == \A x \in Level(v, d) : \A y \in Level(w, d) : Decodes(f[d], x, m[d], g[d], y, k[d], S)
           T == {n \in Nat : n <= M + 1 /\ ~P(M + 1 - n)}
<1> HIDE DEF M
<1>10. ASSUME NEW d \in 0..M, P(d + 1) PROVE P(d)
  <2> SUFFICES ASSUME NEW x \in Level(v, d), NEW y \in Level(w, d)
               PROVE  Decodes(f[d], x, m[d], g[d], y, k[d], S)
    OBVIOUS
  <2> DEFINE F == f[d + 1]
             G == g[d + 1]
             A == m[d + 1]
             B == k[d + 1]
  <2>1. Ready(F, x, S) /\ Ready(G, y, S)
    BY <1>6, <1>7
  <2>2. /\ f[d][x] = SerializeStep(F, x) /\ g[d][y] = SerializeStep(G, y)
        /\ m[d][x] = MeaningStep(A, x) /\ k[d][y] = MeaningStep(B, y)
    BY <1>9
  <2>3. PartsDecoded(F, x, A, G, y, B, S)
    <3>1. \A p \in Parts(x) : \A q \in Parts(y) : Decodes(F, p, A, G, q, B, S)
      BY <1>8, <1>10
    <3> QED
      BY <3>1, Zenon DEF PartsDecoded
  <2> HIDE DEF F, G, A, B, P
  <2>4. ASSUME f[d][x] # Throws, g[d][y] # Throws, NEW s \in Seq(S), NEW t \in Seq(S),
               Meet(f[d][x], s, g[d][y], t)
        PROVE  s = t /\ m[d][x] = k[d][y]
    <3>1. /\ SerializeStep(F, x) # Throws /\ SerializeStep(G, y) # Throws
          /\ Meet(SerializeStep(F, x), s, SerializeStep(G, y), t)
      BY <2>2, <2>4
    <3>2. s = t /\ MeaningStep(A, x) = MeaningStep(B, y)
      <4>1. s \in Seq(S) /\ t \in Seq(S)
        OBVIOUS
      <4> QED
        BY <2>1, <2>3, <3>1, <4>1, StepDecodes
    <3> QED
      BY <2>2, <3>2
  <2> QED
    BY <2>4, Zenon DEF Decodes
<1>11. P(M + 1)
  BY <1>9 DEF Decodes
<1> HIDE DEF P
<1>12. ASSUME T # {} PROVE FALSE
  <2>1. PICK n \in T : \A j \in T : n <= j
    BY <1>12, LeastOf
  <2>2. n \in Nat /\ n <= M + 1 /\ ~P(M + 1 - n)
    BY <2>1
  <2> HIDE DEF T
  <2>3. n # 0
    <3>1. M + 1 - 0 = M + 1
      BY <1>0
    <3> QED
      BY <1>11, <2>2, <3>1
  <2>4. /\ M + 1 - n \in 0..M /\ n - 1 \in Nat /\ n - 1 <= M + 1 /\ n - 1 \notin T
        /\ M + 1 - (n - 1) = (M + 1 - n) + 1
    BY <1>0, <2>1, <2>2, <2>3
  <2>5. PICK d \in 0..M : d = M + 1 - n /\ M + 1 - (n - 1) = d + 1
    BY <2>4
  <2>6. P(d + 1)
    BY <2>4, <2>5 DEF T
  <2> QED
    BY <1>10, <2>2, <2>5, <2>6
<1> HIDE DEF T
<1>13. P(0)
  <2>1. M + 1 \in Nat /\ M + 1 <= M + 1 /\ M + 1 \notin T /\ M + 1 - (M + 1) = 0
    BY <1>0, <1>12
  <2> QED
    BY <2>1 DEF T
<1>14. v \in Level(v, 0) /\ w \in Level(w, 0)
  <2>1. 0 \in 0..M + 1
    BY <1>0
  <2>2. Level(v, 0) = At(v, 0) /\ Level(w, 0) = At(w, 0)
    BY <2>1, LevelIs DEF M
  <2> QED
    BY <2>2, AtFacts
<1>15. Decodes(f[0], v, m[0], g[0], w, k[0], S)
  BY <1>13, <1>14 DEF P
<1>16. f[0][v] = g[0][w] /\ f[0][v] # Throws /\ <<>> \in Seq(S)
  <2>1. <<>> \in Seq(S)
    OBVIOUS
  <2> QED
    BY <1>1, <1>2, <2>1, Zenon
<1>17. Meet(f[0][v], <<>>, g[0][w], <<>>)
  BY <1>16, Zenon DEF Meet
<1>18. m[0][v] = k[0][w]
  BY <1>15, <1>16, <1>17, Zenon DEF Decodes
<1> QED
  BY <1>3, <1>4, <1>18

-----------------------------------------------------------------------------
(* A report is that of the intent, and the row that of the intent or of its
   copy. *)
ShapeInv ==
  /\ intent \in Intents
  /\ \/ report.nodes = 0 /\ row = Throws
     \/ /\ report = InspectIntentShape(intent)
        /\ row = CanonicalJsonOf(Envelope(IF report.problems = 0 THEN intent ELSE report.out))

(* It holds from the start, and the one step establishes its second half. *)
LEMMA ShapeInvariant == ShapeSpec => []ShapeInv
<1>1. ShapeInit => ShapeInv
  BY DEF ShapeInit, ShapeInv
<1>2. ShapeInv /\ [ShapeNext]_shapeVars => ShapeInv'
  <2> SUFFICES ASSUME ShapeInv, [ShapeNext]_shapeVars PROVE ShapeInv'
    OBVIOUS
  <2>1. CASE Inspect
    BY <2>1 DEF Inspect, ShapeInv
  <2>2. CASE UNCHANGED shapeVars
    BY <2>2 DEF shapeVars, ShapeInv
  <2> QED
    BY <2>1, <2>2 DEF ShapeNext
<1> QED
  BY <1>1, <1>2, PTL DEF ShapeSpec

(* The inspected intent, or the copy in its place, has a row of bounded size. *)
LEMMA RowIsWritten ==
  ASSUME NEW v, AllWellFormed(v), NEW r, r = InspectIntentShape(v)
  PROVE  /\ CanonicalJsonOf(Envelope(IF r.problems = 0 THEN v ELSE r.out)) # Throws
         /\ r.nodes > 0 /\ r.nodes <= MaxWalkNodes /\ Size(r.out) <= 2 * MaxWalkNodes
<1>1. Sound(r, v, 0, LimitDepth)
  BY InspectionIsSound DEF AllWellFormed
<1>2. LimitDepth = MaxIntentDepth + 1
  BY DEF LimitDepth
<1> DEFINE Bytes == CanonicalJsonOf(Envelope(IF r.problems = 0 THEN v ELSE r.out))
<1>3. ASSUME r.problems = 0 PROVE Bytes # Throws
  <2>1. CanBeWritten(v, MaxIntentDepth + 1) /\ v.t # "undef"
    BY <1>1, <1>2, <1>3 DEF Sound
  <2> QED
    BY <1>3, <2>1, EnvelopeIsWritten
<1>4. ASSUME r.problems # 0 PROVE Bytes # Throws
  <2>1. CanBeWritten(r.out, MaxIntentDepth + 1) /\ r.out.t # "undef"
    BY <1>1, <1>2 DEF Sound
  <2> QED
    BY <1>4, <2>1, EnvelopeIsWritten
<1>5. r.nodes \in Nat /\ 0 < r.nodes /\ r.nodes <= MaxWalkNodes
  BY <1>1 DEF Sound
<1>6. Size(r.out) <= 2 * MaxWalkNodes
  <2> DEFINE c == Cardinality(Places(r.out, LimitDepth))
  <2>1. c <= 2 * (r.nodes - 0) /\ IsFiniteSet(Places(r.out, LimitDepth))
    BY <1>1 DEF Sound
  <2>2. Size(r.out) = c /\ c \in Nat
    BY <1>2, <2>1, FS_CardinalityType DEF Size
  <2> HIDE DEF c
  <2> QED
    BY <1>5, <2>1, <2>2, ShapeAssumption
<1> QED
  BY <1>3, <1>4, <1>5, <1>6

(* EvidenceIsFaithful: for intents of any shape, depth and width, inspectIntentShape()
   and canonicalJson() leave one row that can be written, of a size that the
   budget of the walk bounds, and no two intents of different meaning have the
   same bytes. *)
THEOREM EvidenceAlwaysFaithful == ShapeSpec => []EvidenceIsFaithful
<1>1. ShapeInv => EvidenceIsFaithful
  <2> SUFFICES ASSUME ShapeInv PROVE EvidenceIsFaithful
    OBVIOUS
  <2>1. \A v \in Intents : AllWellFormed(v)
    BY ShapeAssumption DEF AllWellFormed
  <2>2. intent \in Intents
    BY DEF ShapeInv
  <2>3. CASE report.nodes = 0 /\ row = Throws
    BY <2>3 DEF EvidenceIsFaithful, EveryIntentHasARow, EvidenceIsBounded, HashNamesOneValue
  <2>4. CASE /\ report = InspectIntentShape(intent)
             /\ row = CanonicalJsonOf(Envelope(IF report.problems = 0 THEN intent ELSE report.out))
    <3>1. /\ row # Throws
          /\ report.nodes <= MaxWalkNodes /\ Size(report.out) <= 2 * MaxWalkNodes
      BY <2>1, <2>2, <2>4, RowIsWritten
    <3>2. EveryIntentHasARow /\ EvidenceIsBounded
      BY <3>1 DEF EveryIntentHasARow, EvidenceIsBounded
    <3>3. HashNamesOneValue
      <4> SUFFICES ASSUME CanonicalJsonOf(intent) # Throws,
                          NEW other \in Intents, CanonicalJsonOf(other) = CanonicalJsonOf(intent)
                   PROVE  Meaning(other) = Meaning(intent)
        BY Zenon DEF HashNamesOneValue
      <4> QED
        BY <2>1, <2>2, OneMeaning
    <3> QED
      BY <3>2, <3>3 DEF EvidenceIsFaithful
  <2> QED
    BY <2>3, <2>4 DEF ShapeInv
<1> QED
  BY <1>1, ShapeInvariant, PTL
=============================================================================
