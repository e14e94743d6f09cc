--------------------------- MODULE JudgementProofs ---------------------------
(***************************************************************************)
(* What two rails do with the judgement of the guard, and what a mandate's *)
(* verification is worth: the x402 fetch adapter signs what was judged, the*)
(* guarded signer's signatures are judged and counted, and an accepted     *)
(* mandate is authentic.  At the end, the risk assessment a judgement may  *)
(* rest on.                                                                *)
(***************************************************************************)
EXTENDS X402Fetch, GuardedSigner, MandateCheck, RiskScorecard, WellFoundedInduction, TLAPS

-----------------------------------------------------------------------------
(* The first of the indexes that satisfy a condition exists. *)
LEMMA LeastOf ==
  ASSUME NEW S \in SUBSET Nat, S # {}
  PROVE  (CHOOSE n \in S : \A m \in S : n <= m) \in S
<1> DEFINE R == {pair \in Nat \X Nat : pair[1] < pair[2]}
<1>1. IsWellFoundedOn(R, Nat)
  BY NatLessThanWellFounded DEF OpToRel
<1>2. \A m, n \in Nat : m < n => <<m, n>> \in R
  OBVIOUS
<1> HIDE DEF R
<1>3. PICK n \in S : \A m \in S : <<m, n>> \notin R
  BY <1>1, WFMin
<1>4. \A m \in S : n <= m
  <2> SUFFICES ASSUME NEW m \in S, ~(n <= m) PROVE FALSE
    OBVIOUS
  <2>1. m \in Nat /\ n \in Nat /\ m < n
    OBVIOUS
  <2> QED
    BY <1>2, <1>3, <2>1
<1> QED
  BY <1>4

(* FirstRule() answers nothing exactly when no rule applies. *)
LEMMA FirstRuleSilent ==
  ASSUME NEW names, DOMAIN names \in SUBSET Nat, \A n \in DOMAIN names : names[n][1] # None,
         FirstRule(names) = None
  PROVE  \A n \in DOMAIN names : ~names[n][2]
<1> DEFINE hits == {n \in DOMAIN names : names[n][2]}
<1>1. ASSUME hits # {} PROVE FALSE
  <2>1. (CHOOSE n \in hits : \A h \in hits : n <= h) \in hits
    BY <1>1, LeastOf
  <2> QED
    BY <1>1, <2>1 DEF FirstRule
<1> QED
  BY <1>1

-----------------------------------------------------------------------------
(* The x402 fetch adapter.  From the offer on, the requirement that will be *)
(* signed and the intent the guard judges are one: the second is computed   *)
(* from the first, and neither is assigned again.                           *)

Offered == {"judge", "pay", "send", "finish"}

X402TypeOK ==
  /\ deployment \in Deployments /\ answer \in Answers
  /\ DOMAIN call = {"pc", "version", "req", "intent", "result"}
  /\ DOMAIN wire = {"signed", "sent", "counted", "told", "transmitted"}
  /\ wire.sent \in BOOLEAN /\ wire.counted \in BOOLEAN

OfferIsIntent ==
  call.pc \in Offered \/ wire.signed # None =>
    /\ call.req # None
    /\ call.version \in 1..2 /\ (call.version = 2 <=> answer.header # None)
    /\ call.intent = RequirementToIntent(call.version, call.req)
    /\ ~Unlisted(call.version, call.req)

CountedBeforePaid ==
  /\ call.pc \in {"pay", "send", "finish"} \/ wire.signed # None \/ wire.sent =>
       wire.counted /\ call.intent.amount > 0
  /\ call.pc \in {"start", "first", "judge", "pay"} => wire.signed = None /\ ~wire.sent
  /\ call.pc \in {"start", "first", "judge"} => ~wire.counted
  /\ call.pc = "send" => wire.signed # None
  /\ call.pc # "done" => wire.told = None
  /\ call.pc = "finish" => call.result \in {"ok", "error", "failed"}
  /\ wire.signed # None => wire.signed = call.req

X402IInv == X402TypeOK /\ OfferIsIntent /\ CountedBeforePaid /\ SentIsCounted

LEMMA X402InitiallyHolds == X402Init => X402IInv
BY DEF X402Init, X402IInv, X402TypeOK, OfferIsIntent, CountedBeforePaid, SentIsCounted, Offered

(* What is selected is an entry of the offer. *)
LEMMA SelectedIsOffered ==
  ASSUME NEW accepts, DOMAIN accepts \in SUBSET Nat, 1 \in DOMAIN accepts,
         \A n \in DOMAIN accepts : accepts[n] # None
  PROVE  DefaultSelect(accepts) # None
<1> DEFINE exact == {n \in DOMAIN accepts : accepts[n].scheme = "exact"}
<1>1. CASE exact = {}
  BY <1>1 DEF DefaultSelect
<1>2. CASE exact # {}
  <2>1. (CHOOSE n \in exact : \A m \in exact : n <= m) \in exact
    BY <1>2, LeastOf
  <2> QED
    BY <1>2, <2>1 DEF DefaultSelect
<1> QED
  BY <1>1, <1>2

(* An offer that parses has an entry. *)
LEMMA ParsedOffers ==
  ASSUME NEW version, NEW payload, Parse(version, payload) = None
  PROVE  payload.accepts # <<>>
<1> USE X402Assumption DEF X402Assumption
<1>1. CASE version = 2
  <2> DEFINE rs == << <<"version", payload.version = "future">>,
               <<"protocol", payload.version # "2" \/ payload.resource = None>>,
               <<"protocol", payload.accepts = <<>> \/ ~payload.sound>>,
               <<"protocol", \E n \in DOMAIN payload.accepts :
                   \/ payload.accepts[n].maxAmountRequired # None
                   \/ payload.accepts[n].resource # None
                   \/ payload.accepts[n].amount = None
                   \/ payload.accepts[n].network.form # "caip">> >>
  <2>1. FirstRule(rs) = None
    BY <1>1 DEF Parse, ParseV2
  <2>2. DOMAIN rs = 1..4 /\ \A n \in 1..4 : rs[n][1] # None
    OBVIOUS
  <2>3. rs[3][2] <=> (payload.accepts = <<>> \/ ~payload.sound)
    OBVIOUS
  <2> HIDE DEF rs
  <2> QED
    BY <2>1, <2>2, <2>3, FirstRuleSilent
<1>2. CASE version # 2
  <2> DEFINE rs == << <<"protocol", payload.version = "invalid">>,
               <<"version", payload.version \in {"2", "future"} \/ V2Shaped(payload)>>,
               <<"protocol", payload.accepts = <<>> \/ ~payload.sound>>,
               <<"protocol", \E n \in DOMAIN payload.accepts :
                   None \in {payload.accepts[n].maxAmountRequired,
                             payload.accepts[n].resource}>> >>
  <2>1. FirstRule(rs) = None
    BY <1>2 DEF Parse, ParseV1
  <2>2. DOMAIN rs = 1..4 /\ \A n \in 1..4 : rs[n][1] # None
    OBVIOUS
  <2>3. rs[3][2] <=> (payload.accepts = <<>> \/ ~payload.sound)
    OBVIOUS
  <2> HIDE DEF rs
  <2> QED
    BY <2>1, <2>2, <2>3, FirstRuleSilent
<1> QED
  BY <1>1, <1>2

(* An offer the gates let through asks for a token of the registry. *)
LEMMA GatedIsListed ==
  ASSUME NEW version, NEW payload, NEW req, Gate(version, payload, req) = None
  PROVE  ~Unlisted(version, req)
<1> DEFINE rs == << <<"NETWORK_UNGATED", ChainUngated>>,
               <<"RECIPIENT_UNGATED", RecipientUngated>>,
               <<"PAYTO_ROLE_REFUSED", RoleRefused(version, req)>>,
               <<"RESOURCE_ORIGIN_MISMATCH", OriginMismatch(version, payload, req)>>,
               <<"ASSET_NOT_ALLOWED", Unlisted(version, req)>> >>
<1>1. FirstRule(rs) = None
  BY DEF Gate
<1>2. DOMAIN rs = 1..5 /\ \A n \in 1..5 : rs[n][1] # None
  BY X402Assumption DEF X402Assumption
<1>3. rs[5][2] <=> Unlisted(version, req)
  OBVIOUS
<1> HIDE DEF rs
<1> QED
  BY <1>1, <1>2, <1>3, FirstRuleSilent

(* What the guard does not deny moves a real amount. *)
LEMMA DeniesNothing ==
  ASSUME NEW i, NEW p, NEW spent, EvaluatePolicy(i, p, spent) # "deny"
  PROVE  i.amount > 0 /\ Reasons(i, p, spent) = {}
BY DEF EvaluatePolicy, Reasons, When, AmountValid

LEMMA X402Step ==
  ASSUME X402IInv, [X402Next]_x402Vars
  PROVE  X402IInv'
<1> USE DEF X402IInv, Offered
<1>1. CASE FirstFetch
  BY <1>1 DEF FirstFetch, Tell, X402TypeOK, OfferIsIntent, CountedBeforePaid, SentIsCounted
<1>2. CASE Negotiate
  <2> DEFINE version == IF answer.header # None THEN 2 ELSE 1
             payload == IF version = 2 THEN answer.header ELSE answer.body
             parsed == IF version = 2 /\ ~deployment.v2 THEN "V2_NOT_CONFIGURED"
                       ELSE Parse(version, payload)
             req == DefaultSelect(payload.accepts)
             refusal == IF parsed # None THEN parsed ELSE Gate(version, payload, req)
  <2>1. /\ call.pc = "first" /\ UNCHANGED <<deployment, rules, answer>>
        /\ \/ refusal # None /\ Tell(refusal, FALSE)
           \/ /\ refusal = None
              /\ call' = [call EXCEPT !.pc = "judge", !.version = version, !.req = req,
                                      !.intent = RequirementToIntent(version, req)]
              /\ UNCHANGED wire
    BY <1>2 DEF Negotiate
  <2>2. CASE refusal # None /\ Tell(refusal, FALSE)
    BY <2>1, <2>2 DEF Tell, X402TypeOK, OfferIsIntent, CountedBeforePaid, SentIsCounted
  <2>3. CASE refusal = None /\ UNCHANGED wire /\
               call' = [call EXCEPT !.pc = "judge", !.version = version, !.req = req,
                                    !.intent = RequirementToIntent(version, req)]
    <3>1. payload # None /\ payload \in {answer.header, answer.body} /\ answer \in Answers
      BY X402Assumption DEF X402Assumption, X402TypeOK
    <3>2. /\ DOMAIN payload.accepts \in SUBSET Nat
          /\ payload.accepts = <<>> \/ 1 \in DOMAIN payload.accepts
          /\ \A n \in DOMAIN payload.accepts : payload.accepts[n] # None
      BY <3>1, X402Assumption DEF X402Assumption
    <3>3. parsed = None /\ Gate(version, payload, req) = None
      BY <2>3
    <3>4. Parse(version, payload) = None
      BY <3>3, X402Assumption DEF X402Assumption
    <3>5. version \in 1..2 /\ (version = 2 <=> answer.header # None)
      OBVIOUS
    <3> HIDE DEF version, payload, parsed, refusal
    <3>6. req # None /\ ~Unlisted(version, req)
      BY <3>2, <3>3, <3>4, GatedIsListed, SelectedIsOffered, ParsedOffers
    <3> HIDE DEF req
    <3>7. X402TypeOK' /\ CountedBeforePaid' /\ SentIsCounted'
      BY <2>1, <2>3 DEF X402TypeOK, CountedBeforePaid, SentIsCounted
    <3>8. OfferIsIntent'
      <4> DEFINE wanted == RequirementToIntent(version, req)
      <4> HIDE DEF wanted
      <4>1. call' = [call EXCEPT !.pc = "judge", !.version = version, !.req = req,
                                 !.intent = wanted]
        BY <2>3 DEF wanted
      <4>2. call'.req = req /\ call'.version = version /\ call'.intent = wanted
        BY <4>1 DEF X402TypeOK
      <4>3. /\ (RequirementToIntent(call.version, call.req))' = RequirementToIntent(version, req)
            /\ (Unlisted(call.version, call.req))' = Unlisted(version, req)
        <5>1. (Listed(call.version, call.req))' = Listed(version, req)
          BY <2>1, <4>2 DEF Listed, Matches
        <5>2. (Currency(call.version, call.req))' = Currency(version, req)
          BY <2>1, <4>2, <5>1 DEF Currency
        <5>3. (Amount(call.version, call.req))' = Amount(version, req)
          BY <4>2 DEF Amount
        <5> QED
          BY <2>1, <4>2, <5>1, <5>2, <5>3 DEF RequirementToIntent, Unlisted
      <4> QED
        BY <2>1, <3>5, <3>6, <4>2, <4>3 DEF OfferIsIntent, wanted
    <3> QED
      BY <3>7, <3>8
  <2> QED
    BY <2>1, <2>2, <2>3
<1>3. CASE Judge
  <2> DEFINE decision == EvaluatePolicy(call.intent, rules, [total |-> 0, count |-> 0])
  <2>1. /\ call.pc = "judge" /\ UNCHANGED <<deployment, rules, answer>>
        /\ \/ decision # "allow" /\ Tell("blocked", FALSE)
           \/ /\ decision # "deny"
              /\ call' = [call EXCEPT !.pc = "pay"]
              /\ wire' = [wire EXCEPT !.counted = TRUE]
    BY <1>3 DEF Judge
  <2>2. decision # "deny" => call.intent.amount > 0
    BY DeniesNothing
  <2> HIDE DEF decision
  <2>3. /\ call'.req = call.req /\ call'.version = call.version /\ call'.intent = call.intent
        /\ UNCHANGED <<deployment, answer>>
    BY <2>1 DEF Tell, X402TypeOK
  <2>4. /\ (RequirementToIntent(call.version, call.req))' = RequirementToIntent(call.version, call.req)
        /\ (Unlisted(call.version, call.req))' = Unlisted(call.version, call.req)
    BY <2>3 DEF RequirementToIntent, Unlisted, Currency, Listed, Matches, Amount
  <2>5. X402TypeOK' /\ CountedBeforePaid' /\ SentIsCounted'
    BY <2>1, <2>2 DEF Tell, X402TypeOK, CountedBeforePaid, SentIsCounted
  <2>6. OfferIsIntent'
    BY <2>1, <2>3, <2>4 DEF Tell, OfferIsIntent, X402TypeOK, CountedBeforePaid
  <2> QED
    BY <2>5, <2>6
<1>4. CASE Pay \/ Send \/ FinishGuardResult \/ SetPolicy \/ UNCHANGED x402Vars
  <2>1. /\ call'.req = call.req /\ call'.version = call.version /\ call'.intent = call.intent
        /\ UNCHANGED <<deployment, answer>>
    BY <1>4 DEF Pay, Send, FinishGuardResult, SetPolicy, Fails, Tell, X402TypeOK, x402Vars,
                CountedBeforePaid
  <2>2. /\ (RequirementToIntent(call.version, call.req))' = RequirementToIntent(call.version, call.req)
        /\ (Unlisted(call.version, call.req))' = Unlisted(call.version, call.req)
    BY <2>1 DEF RequirementToIntent, Unlisted, Currency, Listed, Matches, Amount
  <2>3. call'.pc \in Offered \/ wire'.signed # None => call.pc \in Offered \/ wire.signed # None
    BY <1>4 DEF Pay, Send, FinishGuardResult, SetPolicy, Fails, Tell, X402TypeOK, x402Vars,
                CountedBeforePaid
  <2>4. OfferIsIntent'
    BY <2>1, <2>2, <2>3 DEF OfferIsIntent
  <2>5. CASE Pay
    BY ZenonT(60), <2>4, <2>5
      DEF Pay, Fails, X402TypeOK, OfferIsIntent, CountedBeforePaid, SentIsCounted
  <2>6. CASE Send
    BY ZenonT(60), <2>4, <2>6
      DEF Send, Fails, X402TypeOK, OfferIsIntent, CountedBeforePaid, SentIsCounted
  <2>7. CASE FinishGuardResult
    BY ZenonT(60), <2>4, <2>7
      DEF FinishGuardResult, Tell, X402TypeOK, OfferIsIntent, CountedBeforePaid,
                      SentIsCounted
  <2>8. CASE SetPolicy \/ UNCHANGED x402Vars
    BY <2>4, <2>8 DEF SetPolicy, x402Vars, X402TypeOK, CountedBeforePaid, SentIsCounted
  <2> QED
    BY <1>4, <2>5, <2>6, <2>7, <2>8
<1> QED
  BY <1>1, <1>2, <1>3, <1>4 DEF X402Next

(* A token that the registry lists is the very token the policy saw. *)
LEMMA ListedIsTrusted ==
  ASSUME NEW version, NEW req, deployment \in Deployments, deployment.assets # None,
         ~Unlisted(version, req), version = 2 \/ req.network.id \in EvmChains
  PROVE  \E n \in DOMAIN deployment.assets :
           /\ Token(deployment.assets[n].network, deployment.assets[n].asset)
                = Token(req.network, req.asset)
           /\ deployment.assets[n].symbol = Currency(version, req)
<1> DEFINE first == CHOOSE n \in Listed(version, req) : \A m \in Listed(version, req) : n <= m
<1>1. Listed(version, req) \in SUBSET Nat /\ Listed(version, req) # {}
  BY X402Assumption DEF X402Assumption, Listed, Unlisted
<1>2. first \in Listed(version, req)
  BY <1>1, LeastOf
<1>3. Currency(version, req) = deployment.assets[first].symbol
  BY DEF Currency
<1> HIDE DEF first
<1>4. first \in DOMAIN deployment.assets /\ Matches(version, deployment.assets[first], req)
  BY <1>2 DEF Listed
<1>5. Token(deployment.assets[first].network, deployment.assets[first].asset)
        = Token(req.network, req.asset)
  BY <1>4 DEF Matches, Token
<1> QED
  BY <1>3, <1>4, <1>5

(* What is signed is what the guard judged - recipient, chain, a real       *)
(* amount and the registry's own token - and what may have left is counted, *)
(* whatever the server offered and however often the policy was replaced    *)
(* in between (createX402Fetch() of x402/src), for any deployment.          *)
THEOREM PaymentsAreAsJudged == X402Spec => []PaidAsJudged
<1>1. X402Init => X402IInv
  BY X402InitiallyHolds
<1>2. X402IInv /\ [X402Next]_x402Vars => X402IInv'
  BY X402Step
<1>3. X402IInv => PaidAsJudged
  <2> SUFFICES ASSUME X402IInv PROVE PaidAsJudged
    OBVIOUS
  <2> SUFFICES ASSUME wire.signed # None PROVE PolicySawWhatWasSigned
    BY DEF X402IInv, PaidAsJudged, PolicySawWhatWasSigned
  <2>1. /\ wire.signed = call.req /\ call.intent = RequirementToIntent(call.version, call.req)
        /\ call.intent.amount > 0 /\ (call.version = 2 <=> answer.header # None)
        /\ ~Unlisted(call.version, call.req) /\ deployment \in Deployments
    BY DEF X402IInv, OfferIsIntent, CountedBeforePaid, X402TypeOK
  <2>2. /\ call.intent.merchant.id = call.req.payTo /\ call.intent.network = call.req.network
        /\ call.intent.amount = Amount(call.version, call.req)
        /\ call.intent.currency = Currency(call.version, call.req)
    BY <2>1 DEF RequirementToIntent
  <2>3. deployment.assets # None /\ (call.version = 2 \/ call.req.network.id \in EvmChains) =>
          \E n \in DOMAIN deployment.assets :
            /\ Token(deployment.assets[n].network, deployment.assets[n].asset)
                 = Token(call.req.network, call.req.asset)
            /\ deployment.assets[n].symbol = call.intent.currency
    BY <2>1, <2>2, ListedIsTrusted
  <2> QED
    BY <2>1, <2>2, <2>3 DEF PolicySawWhatWasSigned
<1> QED
  BY <1>1, <1>2, <1>3, PTL DEF X402Spec

-----------------------------------------------------------------------------
(* The guarded signer.  A digest fixes every field that was judged, so it   *)
(* is enough that each reservation was judged for one message of its        *)
(* digest.  A reservation is only given back by the one call that made it   *)
(* and that has not signed.                                                 *)

SignerTypeOK ==
  /\ DOMAIN job = Caller
  /\ \A c \in Caller : DOMAIN job[c] = {"pc", "snap", "payee", "told"}
  /\ \A d \in DOMAIN reserved : DOMAIN reserved[d] = {"state", "intent"}

DigestOfJob(c) == Digest(job[c].snap)

JobsAreAdmitted ==
  \A c \in Caller :
    /\ job[c].pc \in {"resolve", "authorize", "sign", "settle", "release", "resign"} =>
         job[c].snap \in TypedData /\ Admitted(job[c].snap)
    /\ job[c].pc = "resolve" => Collector(job[c].snap) # None
    /\ job[c].pc = "authorize" => job[c].payee = Receiver(job[c].snap)

JudgedFor(digest) ==
  \E td \in TypedData : /\ Admitted(td) /\ Digest(td) = digest
                        /\ reserved[digest].intent = IntentOf(td, Receiver(td))
                        /\ reserved[digest].intent.amount > 0

ReservedIsJudged == \A digest \in DOMAIN reserved : JudgedFor(digest)

(* Between its reservation and its answer a call owns the reservation. *)
Owning == {"sign", "settle", "release"}

OwnersAreApart ==
  /\ \A c \in Caller : job[c].pc \in Owning =>
       DigestOfJob(c) \in DOMAIN reserved /\ reserved[DigestOfJob(c)].state = "reserved"
  /\ \A c, d \in Caller :
       job[c].pc \in Owning /\ job[d].pc \in Owning /\ DigestOfJob(c) = DigestOfJob(d) => c = d
  /\ \A c \in Caller : job[c].pc = "resign" =>
       DigestOfJob(c) \in DOMAIN reserved /\ reserved[DigestOfJob(c)].state = "committed"
  /\ \A c \in Caller : job[c].pc \in {"sign", "release"} => DigestOfJob(c) \notin signatures

SignerIInv ==
  /\ SignerTypeOK /\ JobsAreAdmitted /\ ReservedIsJudged /\ OwnersAreApart /\ SignedIsCounted

LEMMA SignerInitiallyHolds == SignerInit => SignerIInv
<1> SUFFICES ASSUME SignerInit PROVE SignerIInv
  OBVIOUS
<1>1. DOMAIN reserved = {} /\ signatures = {}
  BY DEF SignerInit
<1> QED
  BY <1>1 DEF SignerInit, SignerIInv, SignerTypeOK, JobsAreAdmitted, ReservedIsJudged,
              OwnersAreApart, Owning, SignedIsCounted

(* A call that owns nothing moves to where it owns nothing. *)
LEMMA JobMoves ==
  ASSUME SignerIInv, NEW c \in Caller, NEW j,
         job' = [job EXCEPT ![c] = j], UNCHANGED <<reserved, signatures>>,
         DOMAIN j = {"pc", "snap", "payee", "told"},
         j.pc \in {"resolve", "authorize", "done", "back", "resign"},
         j.pc \in {"resolve", "authorize", "resign"} => j.snap \in TypedData /\ Admitted(j.snap),
         j.pc = "resolve" => Collector(j.snap) # None,
         j.pc = "authorize" => j.payee = Receiver(j.snap),
         j.pc = "resign" => /\ Digest(j.snap) \in DOMAIN reserved
                            /\ reserved[Digest(j.snap)].state = "committed"
  PROVE  SignerIInv'
<1> USE DEF SignerIInv
<1>1. job'[c] = j /\ \A d \in Caller : d # c => job'[d] = job[d]
  BY DEF SignerTypeOK
<1>2. SignerTypeOK'
  BY <1>1 DEF SignerTypeOK
<1>3. JobsAreAdmitted'
  BY <1>1 DEF JobsAreAdmitted
<1>4. \A d \in Caller : d # c => DigestOfJob(d)' = DigestOfJob(d)
  BY <1>1 DEF DigestOfJob
<1>5. DigestOfJob(c)' = Digest(j.snap)
  BY <1>1 DEF DigestOfJob
<1>6. OwnersAreApart'
  BY <1>1, <1>4, <1>5 DEF OwnersAreApart, Owning
<1>7. ReservedIsJudged' /\ SignedIsCounted'
  BY DEF ReservedIsJudged, JudgedFor, SignedIsCounted
<1> QED
  BY <1>2, <1>3, <1>6, <1>7

(* Answering is such a move. *)
LEMMA RepliesMoves ==
  ASSUME SignerTypeOK, NEW c \in Caller, NEW told, Replies(c, told)
  PROVE  /\ job' = [job EXCEPT ![c] = [job[c] EXCEPT !.pc = IF c \in Remote THEN "back" ELSE "done",
                                                     !.told = told]]
         /\ DOMAIN job' = Caller /\ job'[c].pc \in {"back", "done"}
         /\ DOMAIN job'[c] = {"pc", "snap", "payee", "told"}
         /\ \A d \in Caller : d # c => job'[d] = job[d]
BY DEF Replies, SignerTypeOK

LEMMA AnswerMoves ==
  ASSUME SignerIInv, NEW c \in Caller, NEW told, Replies(c, told), UNCHANGED <<reserved, signatures>>
  PROVE  SignerIInv'
<1> DEFINE j == [job[c] EXCEPT !.pc = IF c \in Remote THEN "back" ELSE "done", !.told = told]
<1>1. job' = [job EXCEPT ![c] = j]
  BY RepliesMoves DEF SignerIInv
<1>2. DOMAIN j = {"pc", "snap", "payee", "told"} /\ j.pc \in {"back", "done"}
  BY DEF SignerIInv, SignerTypeOK
<1> HIDE DEF j
<1> QED
  BY <1>1, <1>2, JobMoves

LEMMA SignerStep ==
  ASSUME SignerIInv, [SignerNext]_signerVars
  PROVE  SignerIInv'
<1> USE DEF SignerIInv
<1>1. ASSUME NEW c \in Caller, Receive(c) PROVE SignerIInv'
  <2>1. PICK td \in TypedData :
       \/ job' = [job EXCEPT ![c] = [pc |-> IF c \in Remote THEN "back" ELSE "done",
                                     snap |-> td, payee |-> None, told |-> "refused"]]
       \/ /\ Admitted(td) /\ Collector(td) = None
          /\ job' = [job EXCEPT ![c] = [pc |-> "authorize", snap |-> td, payee |-> td.message.to,
                                        told |-> None]]
       \/ /\ Admitted(td) /\ Collector(td) # None
          /\ job' = [job EXCEPT ![c] = [pc |-> "resolve", snap |-> td, payee |-> None,
                                        told |-> None]]
    BY <1>1 DEF Receive, Starts
  <2>2. UNCHANGED <<reserved, signatures>>
    BY <1>1 DEF Receive
  <2>3. Collector(td) = None => td.message.to = Receiver(td)
    BY DEF Receiver
  <2>4. ASSUME NEW pc \in {"back", "done", "authorize", "resolve"}, NEW payee, NEW told,
               job' = [job EXCEPT ![c] = [pc |-> pc, snap |-> td, payee |-> payee, told |-> told]],
               pc \in {"authorize", "resolve"} => Admitted(td),
               pc = "resolve" => Collector(td) # None,
               pc = "authorize" => payee = Receiver(td)
        PROVE  SignerIInv'
    <3> DEFINE j == [pc |-> pc, snap |-> td, payee |-> payee, told |-> told]
    <3>1. /\ DOMAIN j = {"pc", "snap", "payee", "told"}
          /\ j.pc = pc /\ j.snap = td /\ j.payee = payee
      OBVIOUS
    <3>2. job' = [job EXCEPT ![c] = j]
      BY <2>4
    <3> HIDE DEF j
    <3> QED
      BY <2>2, <2>4, <3>1, <3>2, JobMoves
  <2> QED
    BY <2>1, <2>3, <2>4
<1>2. ASSUME NEW c \in Caller, Resolve(c) PROVE SignerIInv'
  <2> DEFINE td == job[c].snap
  <2>1. td \in TypedData /\ Admitted(td) /\ Collector(td) # None
    BY <1>2 DEF Resolve, JobsAreAdmitted
  <2>2. UNCHANGED <<reserved, signatures>>
    BY <1>2 DEF Resolve
  <2>3. CASE Replies(c, "refused")
    BY <2>2, <2>3, AnswerMoves
  <2>4. ASSUME NEW declared, Derives(td, declared),
               job' = [job EXCEPT ![c].pc = "authorize", ![c].payee = declared.receiver]
        PROVE  SignerIInv'
    <3>1. declared.receiver = Receiver(td)
      BY <2>1, <2>4 DEF Derives, Receiver
    <3>2. job' = [job EXCEPT ![c] = [job[c] EXCEPT !.pc = "authorize", !.payee = declared.receiver]]
      BY <2>4 DEF SignerTypeOK
    <3> DEFINE j == [job[c] EXCEPT !.pc = "authorize", !.payee = declared.receiver]
    <3>3. /\ DOMAIN j = {"pc", "snap", "payee", "told"}
          /\ j.pc = "authorize" /\ j.snap = td /\ j.payee = declared.receiver
      BY DEF SignerTypeOK
    <3> HIDE DEF j
    <3> QED
      BY <2>1, <2>2, <3>1, <3>2, <3>3, JobMoves DEF j
  <2> QED
    BY <1>2, <2>3, <2>4 DEF Resolve
<1>3. ASSUME NEW c \in Caller, Authorize(c) PROVE SignerIInv'
  <2> DEFINE td == job[c].snap
             id == Digest(td)
             intent == IntentOf(td, job[c].payee)
             spent == [total |-> Reserved, count |-> Cardinality(DOMAIN reserved)]
  <2>1. /\ td \in TypedData /\ Admitted(td) /\ job[c].payee = Receiver(td)
        /\ job[c].pc = "authorize" /\ signatures' = signatures
    BY <1>3 DEF Authorize, JobsAreAdmitted
  <2>2. CASE Replies(c, "refused") /\ UNCHANGED reserved
    BY <2>1, <2>2, AnswerMoves
  <2>3. CASE Replies(c, "unresolved") /\ UNCHANGED reserved
    BY <2>1, <2>3, AnswerMoves
  <2>4. CASE /\ id \in DOMAIN reserved /\ reserved[id].state = "committed"
             /\ job' = [job EXCEPT ![c].pc = "resign"] /\ UNCHANGED reserved
    <3> DEFINE j == [job[c] EXCEPT !.pc = "resign"]
    <3>1. job' = [job EXCEPT ![c] = j]
      BY <2>4 DEF SignerTypeOK
    <3>2. DOMAIN j = {"pc", "snap", "payee", "told"} /\ j.pc = "resign" /\ j.snap = td
      BY DEF SignerTypeOK
    <3> HIDE DEF j
    <3> QED
      BY ZenonT(60), <2>1, <2>4, <3>1, <3>2, JobMoves
  <2>5. CASE /\ id \notin DOMAIN reserved
             /\ EvaluatePolicy(intent, SignerPolicy, spent) = "allow"
             /\ reserved' = [d \in DOMAIN reserved \cup {id} |->
                  IF d = id THEN [state |-> "reserved", intent |-> intent] ELSE reserved[d]]
             /\ job' = [job EXCEPT ![c].pc = "sign"]
    <3>1. intent.amount > 0
      BY <2>5, DeniesNothing
    <3>2. intent = IntentOf(td, Receiver(td))
      BY <2>1
    <3> HIDE DEF id, intent
    <3>3. /\ DOMAIN reserved' = DOMAIN reserved \cup {id}
          /\ reserved'[id] = [state |-> "reserved", intent |-> intent]
          /\ \A d \in DOMAIN reserved : reserved'[d] = reserved[d]
      BY <2>5
    <3>4. /\ DOMAIN job' = Caller /\ job'[c].pc = "sign" /\ job'[c].snap = td
          /\ DOMAIN job'[c] = {"pc", "snap", "payee", "told"}
          /\ \A d \in Caller : d # c => job'[d] = job[d]
      BY <2>5 DEF SignerTypeOK
    <3> HIDE DEF td
    <3>5. SignerTypeOK'
      BY <3>3, <3>4 DEF SignerTypeOK
    <3>6. JobsAreAdmitted'
      BY <2>1, <3>4 DEF JobsAreAdmitted
    <3>7. ReservedIsJudged'
      <4> SUFFICES ASSUME NEW d \in DOMAIN reserved' PROVE JudgedFor(d)'
        BY DEF ReservedIsJudged
      <4>1. CASE d = id
        <5>1. reserved'[d].intent = intent /\ intent.amount > 0 /\ td \in TypedData
          BY <2>1, <3>1, <3>3, <4>1
        <5>2. Admitted(td) /\ Digest(td) = d
          BY <2>1, <4>1 DEF id
        <5> QED
          BY <3>2, <5>1, <5>2 DEF JudgedFor
      <4>2. CASE d # id
        <5>1. d \in DOMAIN reserved /\ reserved'[d] = reserved[d]
          BY <3>3, <4>2
        <5> QED
          BY <5>1 DEF JudgedFor, ReservedIsJudged
      <4> QED
        BY <4>1, <4>2
    <3>8. DigestOfJob(c)' = id /\ \A d \in Caller : d # c => DigestOfJob(d)' = DigestOfJob(d)
      BY <3>4 DEF DigestOfJob, id
    <3>9. id \notin signatures
      BY <2>5 DEF SignedIsCounted
    <3>10. OwnersAreApart'
      BY <2>1, <2>5, <3>3, <3>4, <3>8, <3>9 DEF OwnersAreApart, Owning
    <3>11. SignedIsCounted'
      BY <2>1, <3>3 DEF SignedIsCounted
    <3> QED
      BY <3>5, <3>6, <3>7, <3>10, <3>11
  <2> QED
    BY <1>3, <2>2, <2>3, <2>4, <2>5 DEF Authorize
<1>4. ASSUME NEW c \in Caller, Sign(c) PROVE SignerIInv'
  <2>1. /\ job[c].pc = "sign" /\ UNCHANGED reserved
        /\ \/ signatures' = signatures \cup {DigestOfJob(c)} /\ job'[c].pc = "settle"
           \/ signatures' = signatures /\ job'[c].pc = "release"
        /\ DOMAIN job' = Caller /\ DOMAIN job'[c] = {"pc", "snap", "payee", "told"}
        /\ job'[c].snap = job[c].snap /\ \A d \in Caller : d # c => job'[d] = job[d]
    BY <1>4 DEF Sign, SignerTypeOK, DigestOfJob
  <2>2. \A d \in Caller : DigestOfJob(d)' = DigestOfJob(d)
    BY <2>1 DEF DigestOfJob
  <2>3. SignerTypeOK' /\ JobsAreAdmitted'
    BY <2>1 DEF SignerTypeOK, JobsAreAdmitted
  <2>4. ReservedIsJudged'
    BY <2>1 DEF ReservedIsJudged, JudgedFor
  <2>5. OwnersAreApart' /\ SignedIsCounted'
    BY <2>1, <2>2 DEF OwnersAreApart, Owning, SignedIsCounted
  <2> QED
    BY <2>3, <2>4, <2>5
<1>5. ASSUME NEW c \in Caller, Settle(c) PROVE SignerIInv'
  <2> DEFINE id == DigestOfJob(c)
  <2>1. job[c].pc = "settle" /\ signatures' = signatures
    BY <1>5 DEF Settle
  <2>2. \E told : Replies(c, told)
    BY <1>5 DEF Settle
  <2>3. /\ id \in DOMAIN reserved
        /\ \/ reserved' = [reserved EXCEPT ![id].state = "committed"]
           \/ UNCHANGED reserved
    BY <1>5, <2>1 DEF Settle, OwnersAreApart, Owning, DigestOfJob
  <2> HIDE DEF id
  <2>4. /\ DOMAIN reserved' = DOMAIN reserved
        /\ \A d \in DOMAIN reserved : /\ reserved'[d].intent = reserved[d].intent
                                      /\ DOMAIN reserved'[d] = {"state", "intent"}
                                      /\ d # id => reserved'[d] = reserved[d]
                                      /\ reserved[d].state = "committed" => reserved'[d].state = "committed"
    BY <2>3 DEF SignerTypeOK
  <2>5. /\ DOMAIN job' = Caller /\ job'[c].pc \in {"back", "done"}
        /\ DOMAIN job'[c] = {"pc", "snap", "payee", "told"}
        /\ \A d \in Caller : d # c => job'[d] = job[d]
    BY <2>2, RepliesMoves
  <2>6. \A d \in Caller : d # c => DigestOfJob(d)' = DigestOfJob(d)
    BY <2>5 DEF DigestOfJob
  <2>7. SignerTypeOK' /\ JobsAreAdmitted'
    BY <2>4, <2>5 DEF SignerTypeOK, JobsAreAdmitted
  <2>8. ReservedIsJudged' /\ SignedIsCounted'
    BY <2>1, <2>4 DEF ReservedIsJudged, JudgedFor, SignedIsCounted
  <2>9. \A d \in Caller : d # c /\ job[d].pc \in Owning => DigestOfJob(d) # id
    BY <2>1 DEF OwnersAreApart, Owning, id
  <2>10. OwnersAreApart'
    BY <2>1, <2>4, <2>5, <2>6, <2>9 DEF OwnersAreApart, Owning
  <2> QED
    BY <2>7, <2>8, <2>10
<1>6. ASSUME NEW c \in Caller, Release(c) PROVE SignerIInv'
  <2> DEFINE id == DigestOfJob(c)
  <2>1. job[c].pc = "release" /\ signatures' = signatures /\ Replies(c, "failed")
    BY <1>6 DEF Release
  <2>2. \/ reserved' = [d \in DOMAIN reserved \ {id} |-> reserved[d]]
        \/ UNCHANGED reserved
    BY <1>6 DEF Release, DigestOfJob
  <2> HIDE DEF id
  <2>3. /\ DOMAIN reserved' \subseteq DOMAIN reserved
        /\ DOMAIN reserved \ {id} \subseteq DOMAIN reserved'
        /\ \A d \in DOMAIN reserved' : reserved'[d] = reserved[d]
    BY <2>2
  <2>4. /\ DOMAIN job' = Caller /\ job'[c].pc \in {"back", "done"}
        /\ DOMAIN job'[c] = {"pc", "snap", "payee", "told"}
        /\ \A d \in Caller : d # c => job'[d] = job[d]
    BY <2>1, RepliesMoves
  <2>5. \A d \in Caller : d # c => DigestOfJob(d)' = DigestOfJob(d)
    BY <2>4 DEF DigestOfJob
  <2>6. SignerTypeOK' /\ JobsAreAdmitted'
    BY <2>3, <2>4 DEF SignerTypeOK, JobsAreAdmitted
  <2>7. ReservedIsJudged'
    BY <2>3 DEF ReservedIsJudged, JudgedFor
  <2>8. id \notin signatures
    BY <2>1 DEF OwnersAreApart, id
  <2>9. SignedIsCounted'
    BY <2>1, <2>3, <2>8 DEF SignedIsCounted
  <2>10. \A d \in Caller : d # c /\ job[d].pc \in Owning \cup {"resign"} => DigestOfJob(d) # id
    BY <2>1 DEF OwnersAreApart, Owning, id
  <2>11. OwnersAreApart'
    BY <2>1, <2>3, <2>4, <2>5, <2>10 DEF OwnersAreApart, Owning
  <2> QED
    BY <2>6, <2>7, <2>9, <2>11
<1>7. ASSUME NEW c \in Caller, SignAgain(c) PROVE SignerIInv'
  <2>1. /\ job[c].pc = "resign" /\ UNCHANGED reserved /\ (\E told : Replies(c, told))
        /\ signatures' \subseteq signatures \cup {DigestOfJob(c)} /\ signatures \subseteq signatures'
    BY <1>7 DEF SignAgain, DigestOfJob
  <2>2. /\ DOMAIN job' = Caller /\ job'[c].pc \in {"back", "done"}
        /\ DOMAIN job'[c] = {"pc", "snap", "payee", "told"}
        /\ \A d \in Caller : d # c => job'[d] = job[d]
    BY <2>1, RepliesMoves
  <2>3. \A d \in Caller : d # c => DigestOfJob(d)' = DigestOfJob(d)
    BY <2>2 DEF DigestOfJob
  <2>4. SignerTypeOK' /\ JobsAreAdmitted'
    BY <2>1, <2>2 DEF SignerTypeOK, JobsAreAdmitted
  <2>5. ReservedIsJudged'
    BY <2>1 DEF ReservedIsJudged, JudgedFor
  <2>6. DigestOfJob(c) \in DOMAIN reserved /\ reserved[DigestOfJob(c)].state = "committed"
    BY <2>1 DEF OwnersAreApart
  <2>7. OwnersAreApart' /\ SignedIsCounted'
    BY <2>1, <2>2, <2>3, <2>6 DEF OwnersAreApart, Owning, SignedIsCounted
  <2> QED
    BY <2>4, <2>5, <2>7
<1>8. ASSUME NEW c \in Caller, TransportFails(c) \/ Return(c) PROVE SignerIInv'
  <2>1. UNCHANGED <<reserved, signatures>>
    BY <1>8 DEF TransportFails, Return
  <2>2. ASSUME NEW td, job' = [job EXCEPT ![c] = [pc |-> "done", snap |-> td, payee |-> None,
                                                 told |-> "noSignatureExists"]]
        PROVE  SignerIInv'
    BY <2>1, <2>2, JobMoves
  <2>3. ASSUME NEW told, job' = [job EXCEPT ![c] = [job[c] EXCEPT !.pc = "done", !.told = told]]
        PROVE  SignerIInv'
    <3> DEFINE j == [job[c] EXCEPT !.pc = "done", !.told = told]
    <3>1. DOMAIN j = {"pc", "snap", "payee", "told"} /\ j.pc = "done"
      BY DEF SignerTypeOK
    <3>2. job' = [job EXCEPT ![c] = j]
      BY <2>3
    <3> HIDE DEF j
    <3> QED
      BY <2>1, <3>1, <3>2, JobMoves
  <2>4. CASE job' = [job EXCEPT ![c].pc = "done"]
    <3>1. job' = [job EXCEPT ![c] = [job[c] EXCEPT !.pc = "done", !.told = job[c].told]]
      BY <2>4 DEF SignerTypeOK
    <3> QED
      BY <2>3, <3>1
  <2>5. CASE job' = [job EXCEPT ![c].pc = "done", ![c].told = "noSignatureExists"]
    <3>1. job' = [job EXCEPT ![c] = [job[c] EXCEPT !.pc = "done", !.told = "noSignatureExists"]]
      BY <2>5 DEF SignerTypeOK
    <3> QED
      BY <2>3, <3>1
  <2> QED
    BY <1>8, <2>2, <2>4, <2>5 DEF TransportFails, Return
<1>9. CASE UNCHANGED signerVars
  BY <1>9 DEF signerVars, SignerTypeOK, JobsAreAdmitted, ReservedIsJudged, JudgedFor,
              OwnersAreApart, Owning, DigestOfJob, SignedIsCounted
<1> QED
  BY <1>1, <1>2, <1>3, <1>4, <1>5, <1>6, <1>7, <1>8, <1>9 DEF SignerNext

(* Rounding up to minor units never loses value.                             *)
LEMMA ScalingKeepsValue ==
  ASSUME NEW v \in Nat, NEW from \in Nat, NEW to \in Nat
  PROVE  /\ ScaleToMinor(v, from, to) \in Nat
         /\ ScaleToMinor(v, from, to) * Pow10(from - to) >= v
<1>1. Pow10(from - to) \in {1, 10, 100} /\ Pow10(to - from) \in {1, 10, 100}
  BY DEF Pow10
<1>2. CASE to >= from
  BY <1>1, <1>2 DEF ScaleToMinor
<1>3. CASE ~(to >= from)
  <2>1. ScaleToMinor(v, from, to) = (v + Pow10(from - to) - 1) \div Pow10(from - to)
    BY <1>3 DEF ScaleToMinor
  <2>2. ASSUME NEW p \in {1, 10, 100} PROVE (v + p - 1) \div p \in Nat /\ ((v + p - 1) \div p) * p >= v
    OBVIOUS
  <2> QED
    BY <1>1, <2>1, <2>2
<1> QED
  BY <1>2, <1>3

(* Two messages of one digest, one of them with every judged field declared, *)
(* say the same of the payment.                                              *)
LEMMA DigestFixesTheJudged ==
  ASSUME NEW td \in TypedData, NEW other \in TypedData,
         Admitted(td), Recognized(other), Digest(other) = Digest(td)
  PROVE  /\ Receiver(other) = Receiver(td) /\ other.message.chain = td.message.chain
         /\ other.message.token = td.message.token /\ other.message.value = td.message.value
<1>1. other.primaryType = td.primaryType
  BY DEF Digest
<1>2. [f \in other.declares |-> other.message[f]] = [f \in td.declares |-> td.message[f]]
  BY DEF Digest
<1>3. other.declares = td.declares
  BY <1>2
<1>4. \A f \in td.declares : other.message[f] = td.message[f]
  BY <1>2, <1>3
<1>5. Shapes[td.primaryType] \subseteq td.declares /\ td.primaryType \in DOMAIN Shapes
  BY DEF Admitted, Recognized, Committed
<1>6. \A f \in Shapes[td.primaryType] : other.message[f] = td.message[f]
  BY <1>4, <1>5
<1>7. td.primaryType \in {"TransferWithAuthorization", "PermitWitnessTransferFrom"}
  BY <1>5 DEF Shapes
<1>8. /\ {"chain", "token", "value", "to", "nonce"} \subseteq Shapes[td.primaryType]
      /\ IsPermit(td) => "spender" \in Shapes[td.primaryType]
  BY <1>7 DEF Shapes, IsPermit
<1>9. /\ other.message.chain = td.message.chain /\ other.message.token = td.message.token
      /\ other.message.value = td.message.value /\ other.message.to = td.message.to
      /\ other.message.nonce = td.message.nonce
      /\ IsPermit(td) => other.message.spender = td.message.spender
  BY <1>6, <1>8
<1>10. Collector(other) = Collector(td)
  BY <1>1, <1>9 DEF Collector, IsPermit
<1> QED
  BY <1>9, <1>10 DEF Receiver

(* A signature means what the guard judged and is in its books: every message *)
(* a signed digest stands for pays the receiver, on the chain, in the token  *)
(* and at most the amount of the counted reservation (guardedSigner() of     *)
(* cloudflare/src), for any callers, messages and failures.                  *)
THEOREM SignaturesAreJudged == SignerSpec => []SignedAsJudged
<1>1. SignerInit => SignerIInv
  BY SignerInitiallyHolds
<1>2. SignerIInv /\ [SignerNext]_signerVars => SignerIInv'
  BY SignerStep
<1>3. SignerIInv => SignedAsJudged
  <2> SUFFICES ASSUME SignerIInv PROVE SignedAsJudged
    OBVIOUS
  <2> SUFFICES ASSUME NEW digest \in signatures, digest \in DOMAIN reserved,
                      NEW other \in TypedData, Recognized(other), Digest(other) = digest
               PROVE  LET seen == reserved[digest].intent IN
                      /\ seen.merchant.id = Receiver(other) /\ seen.network.id = other.message.chain
                      /\ Known(other) /\ seen.currency = Entry(other).symbol
                      /\ MinorDecimals # None =>
                           seen.amount * Pow10(Entry(other).decimals - MinorDecimals)
                             >= other.message.value
    BY DEF SignerIInv, SignedAsJudged, SignedBytesWereJudged
  <2>1. PICK td \in TypedData : /\ Admitted(td) /\ Digest(td) = digest
                               /\ reserved[digest].intent = IntentOf(td, Receiver(td))
                               /\ reserved[digest].intent.amount > 0
    BY DEF SignerIInv, ReservedIsJudged, JudgedFor
  <2>2. /\ Receiver(other) = Receiver(td) /\ other.message.chain = td.message.chain
        /\ other.message.token = td.message.token /\ other.message.value = td.message.value
    BY <2>1, DigestFixesTheJudged
  <2> DEFINE seen == reserved[digest].intent
  <2>3. /\ seen.merchant.id = Receiver(td) /\ seen.network.id = td.message.chain
        /\ seen.currency = IF Known(td) THEN Entry(td).symbol ELSE "UNKNOWN"
        /\ seen.amount = AmountMinor(td) /\ seen.amount > 0
    BY <2>1 DEF IntentOf
  <2>4. Known(td) /\ td.message.value # None
    BY <2>3 DEF AmountMinor
  <2>5. Known(other) = Known(td) /\ Entry(other) = Entry(td)
    BY <2>2 DEF Known, Entry
  <2>6. ASSUME MinorDecimals # None
        PROVE  seen.amount * Pow10(Entry(td).decimals - MinorDecimals) >= td.message.value
    <3>1. td.message.value \in Nat /\ Entry(td).decimals \in Nat /\ MinorDecimals \in Nat
      BY <2>4, <2>6, SignerAssumption DEF Known, Entry
    <3>2. seen.amount = ScaleToMinor(td.message.value, Entry(td).decimals, MinorDecimals)
      BY <2>3, <2>4, <2>6 DEF AmountMinor
    <3> QED
      BY <3>1, <3>2, ScalingKeepsValue
  <2> QED
    BY <2>2, <2>3, <2>4, <2>5, <2>6
<1> QED
  BY <1>1, <1>2, <1>3, PTL DEF SignerSpec

-----------------------------------------------------------------------------
(* Verifying a mandate.  A manager is what one accepted configuration built, *)
(* so it holds the public half of each key it signs with; a check answers OK *)
(* only when none of the rules applies.                                      *)

(* The first rule that applies is the answer. *)
LEMMA FirstOfAnswers ==
  ASSUME NEW codes, DOMAIN codes \in SUBSET Nat
  PROVE  \/ FirstOf(codes) = "OK" /\ \A n \in DOMAIN codes : ~codes[n][2]
         \/ \E n \in DOMAIN codes : codes[n][2] /\ FirstOf(codes) = codes[n][1]
<1> DEFINE hits == {n \in DOMAIN codes : codes[n][2]}
<1>1. CASE hits = {}
  BY <1>1 DEF FirstOf
<1>2. CASE hits # {}
  <2>1. (CHOOSE n \in hits : \A h \in hits : n <= h) \in hits
    BY <1>2, LeastOf
  <2> QED
    BY <1>2, <2>1 DEF FirstOf
<1> QED
  BY <1>1, <1>2

(* A scope is refused under none of the codes of a signature. *)
SignatureCodes ==
  {"VERSION_UNSUPPORTED", "ALG_UNSUPPORTED", "KEY_UNKNOWN", "SIGNATURE_INVALID", "MALFORMED"}

LEMMA ScopeCodes ==
  ASSUME NEW s PROVE Scope(s) \notin SignatureCodes
<1> DEFINE c == s.constraints
           i == s.intent
           rs == << <<"REVOKED", s.revoked>>,
             <<"TIME_UNPARSEABLE", c.from = None \/ c.expires = None>>,
             <<"NOT_YET_VALID", c.from # None /\ c.expires # None /\ s.now < c.from>>,
             <<"EXPIRED", c.from # None /\ c.expires # None /\ s.now >= c.expires>>,
             <<"USES_EXHAUSTED", s.uses >= c.maxUses>>,
             <<"AGENT_MISMATCH", c.agent # i.agent>>,
             <<"CURRENCY_MISMATCH", c.currency # i.currency>>,
             <<"AMOUNT_EXCEEDS_MANDATE", i.amount > c.max>>,
             <<"MERCHANT_NOT_COVERED", c.merchants # {} /\ \A p \in c.merchants : ~MerchantMatches(i, p)>>,
             <<"CATEGORY_NOT_COVERED", c.categories # {} /\ i.category \notin c.categories>>,
             <<"CONTEXT_MISMATCH", ContextMismatch(c, i)>> >>
<1>1. Scope(s) = FirstOf(rs)
  BY DEF Scope
<1>2. /\ DOMAIN rs = 1..11
      /\ rs[1][1] = "REVOKED" /\ rs[2][1] = "TIME_UNPARSEABLE" /\ rs[3][1] = "NOT_YET_VALID"
      /\ rs[4][1] = "EXPIRED" /\ rs[5][1] = "USES_EXHAUSTED" /\ rs[6][1] = "AGENT_MISMATCH"
      /\ rs[7][1] = "CURRENCY_MISMATCH" /\ rs[8][1] = "AMOUNT_EXCEEDS_MANDATE"
      /\ rs[9][1] = "MERCHANT_NOT_COVERED" /\ rs[10][1] = "CATEGORY_NOT_COVERED"
      /\ rs[11][1] = "CONTEXT_MISMATCH"
  OBVIOUS
<1> HIDE DEF rs
<1>3. \A n \in 1..11 : rs[n][1] \notin SignatureCodes \cup {"OK"}
  BY <1>2 DEF SignatureCodes
<1> QED
  BY <1>1, <1>2, <1>3, FirstOfAnswers DEF SignatureCodes

(* What each half of a verification demands, and how it refuses. *)
LEMMA SignatureV1Answers ==
  ASSUME NEW m, NEW x
  PROVE  /\ SignatureV1(m, x) = "OK" <=>
               /\ x.v = 1 /\ x.alg = Ed /\ m.require \subseteq {Ed}
               /\ x.kid \in m.verify /\ Verifies(x.sig, x.kid, "v1")
         /\ x.v = 1 /\ x.alg = Ed /\ x.kid \in m.verify /\ Verifies(x.sig, x.kid, "v1") =>
               SignatureV1(m, x) \in {"OK", "ALG_REQUIREMENT_NOT_MET"}
<1> DEFINE rs == << <<"VERSION_UNSUPPORTED", x.v # 1>>,
             <<"ALG_UNSUPPORTED", x.alg # Ed>>,
             <<"ALG_REQUIREMENT_NOT_MET", ~(m.require \subseteq {Ed})>>,
             <<"KEY_UNKNOWN", x.kid \notin m.verify>>,
             <<"SIGNATURE_INVALID", ~Verifies(x.sig, x.kid, "v1")>> >>
<1>1. SignatureV1(m, x) = FirstOf(rs)
  BY DEF SignatureV1
<1>2. /\ DOMAIN rs = 1..5 /\ rs[1][1] = "VERSION_UNSUPPORTED" /\ rs[2][1] = "ALG_UNSUPPORTED"
      /\ rs[3][1] = "ALG_REQUIREMENT_NOT_MET" /\ rs[4][1] = "KEY_UNKNOWN"
      /\ rs[5][1] = "SIGNATURE_INVALID"
  OBVIOUS
<1>3. /\ rs[1][2] <=> x.v # 1
      /\ rs[2][2] <=> x.alg # Ed
      /\ rs[3][2] <=> ~(m.require \subseteq {Ed})
      /\ rs[4][2] <=> x.kid \notin m.verify
      /\ rs[5][2] <=> ~Verifies(x.sig, x.kid, "v1")
  OBVIOUS
<1> HIDE DEF rs
<1>4. \/ FirstOf(rs) = "OK" /\ \A n \in 1..5 : ~rs[n][2]
      \/ \E n \in 1..5 : rs[n][2] /\ FirstOf(rs) = rs[n][1]
  BY <1>2, FirstOfAnswers
<1> QED
  BY <1>1, <1>2, <1>3, <1>4

LEMMA PqHalfAnswers ==
  ASSUME NEW m, NEW x
  PROVE  /\ PqHalf(m, x) = "OK" /\ MlDsa \in m.require =>
               x.pqKid \in m.pqVerify /\ Verifies(x.pqSig, x.pqKid, "v2")
         /\ m.native /\ x.pqKid \in m.pqVerify /\ Verifies(x.pqSig, x.pqKid, "v2") =>
               PqHalf(m, x) = "OK"
<1> DEFINE required == MlDsa \in m.require
           rs == << <<"ALG_REQUIREMENT_NOT_MET", ~m.native /\ required>>,
             <<"KEY_UNKNOWN", m.native /\ x.pqKid \notin m.pqVerify /\ required>>,
             <<"SIGNATURE_INVALID", m.native /\ x.pqKid \in m.pqVerify
                                      /\ ~Verifies(x.pqSig, x.pqKid, "v2")>> >>
<1>1. PqHalf(m, x) = FirstOf(rs)
  BY DEF PqHalf
<1>2. /\ DOMAIN rs = 1..3 /\ rs[1][1] = "ALG_REQUIREMENT_NOT_MET"
      /\ rs[2][1] = "KEY_UNKNOWN" /\ rs[3][1] = "SIGNATURE_INVALID"
  OBVIOUS
<1>3. /\ rs[1][2] <=> ~m.native /\ required
      /\ rs[2][2] <=> m.native /\ x.pqKid \notin m.pqVerify /\ required
      /\ rs[3][2] <=> m.native /\ x.pqKid \in m.pqVerify /\ ~Verifies(x.pqSig, x.pqKid, "v2")
  OBVIOUS
<1> HIDE DEF rs
<1>4. \/ FirstOf(rs) = "OK" /\ \A n \in 1..3 : ~rs[n][2]
      \/ \E n \in 1..3 : rs[n][2] /\ FirstOf(rs) = rs[n][1]
  BY <1>2, FirstOfAnswers
<1> QED
  BY <1>1, <1>2, <1>3, <1>4

LEMMA SignatureV2Answers ==
  ASSUME NEW m, NEW x
  PROVE  /\ SignatureV2(m, x) = "OK" =>
               /\ WellFormed(x) /\ x.kid \in m.verify /\ Verifies(x.sig, x.kid, "v2")
               /\ PqHalf(m, x) = "OK"
         /\ WellFormed(x) /\ x.kid \in m.verify /\ Verifies(x.sig, x.kid, "v2") =>
               SignatureV2(m, x) = PqHalf(m, x)
<1> DEFINE rs == << <<"MALFORMED", ~WellFormed(x)>>,
                    <<"KEY_UNKNOWN", x.kid \notin m.verify>>,
                    <<"SIGNATURE_INVALID", ~Verifies(x.sig, x.kid, "v2")>> >>
<1>1. SignatureV2(m, x) = IF FirstOf(rs) = "OK" THEN PqHalf(m, x) ELSE FirstOf(rs)
  BY DEF SignatureV2
<1>2. /\ DOMAIN rs = 1..3 /\ rs[1][1] = "MALFORMED"
      /\ rs[2][1] = "KEY_UNKNOWN" /\ rs[3][1] = "SIGNATURE_INVALID"
  OBVIOUS
<1>3. /\ rs[1][2] <=> ~WellFormed(x)
      /\ rs[2][2] <=> x.kid \notin m.verify
      /\ rs[3][2] <=> ~Verifies(x.sig, x.kid, "v2")
  OBVIOUS
<1> HIDE DEF rs
<1>4. \/ FirstOf(rs) = "OK" /\ \A n \in 1..3 : ~rs[n][2]
      \/ \E n \in 1..3 : rs[n][2] /\ FirstOf(rs) = rs[n][1]
  BY <1>2, FirstOfAnswers
<1> QED
  BY <1>1, <1>2, <1>3, <1>4

(* The managers a configuration can build, and what they may emit. *)
ManagerIsBuilt == manager # None => \E cfg \in Configs : Buildable(cfg) /\ manager = Built(cfg)

Emitted(m) == V1(m) \cup (IF m.pqSign = None THEN {} ELSE V2(m))

MandateIsWritten ==
  mandate # None =>
    /\ manager # None
    /\ IF issuedHere THEN mandate \in Emitted(manager) ELSE mandate \in Foreign

CheckIsOfMandate ==
  check # None => mandate # None /\ \E s \in Scopes : check = <<CheckState(manager, mandate, s), s>>

CheckIInv ==
  issuedHere \in BOOLEAN /\ ManagerIsBuilt /\ MandateIsWritten /\ CheckIsOfMandate

LEMMA CheckStep == CheckIInv /\ [CheckNext]_checkVars => CheckIInv'
<1> SUFFICES ASSUME CheckIInv, [CheckNext]_checkVars PROVE CheckIInv'
  OBVIOUS
<1> USE DEF CheckIInv
<1>1. ASSUME NEW cfg \in Configs, Construct(cfg) PROVE CheckIInv'
  BY <1>1 DEF Construct, ManagerIsBuilt, MandateIsWritten, CheckIsOfMandate
<1>2. CASE IssueOne
  BY <1>2 DEF IssueOne, ManagerIsBuilt, MandateIsWritten, CheckIsOfMandate, Emitted
<1>3. CASE Present
  BY <1>3 DEF Present, ManagerIsBuilt, MandateIsWritten, CheckIsOfMandate
<1>4. ASSUME NEW s \in Scopes, CheckOne(s) PROVE CheckIInv'
  BY <1>4 DEF CheckOne, ManagerIsBuilt, MandateIsWritten, CheckIsOfMandate, CheckState
<1>5. CASE UNCHANGED checkVars
  BY <1>5 DEF checkVars, ManagerIsBuilt, MandateIsWritten, CheckIsOfMandate, Emitted
<1> QED
  BY <1>1, <1>2, <1>3, <1>4, <1>5 DEF CheckNext

(* What a manager emits, its own check refuses for no fault of the mandate. *)
LEMMA EmittedVerifies ==
  ASSUME NEW cfg \in Configs, Buildable(cfg), NEW x \in Emitted(Built(cfg)), NEW s
  PROVE  CheckState(Built(cfg), x, s) \notin SignatureCodes
<1> DEFINE m == Built(cfg)
<1>1. /\ m.kid \in m.verify
      /\ m.pqSign # None => m.native /\ m.pqKid \in m.pqVerify
  BY DEF Built, VerifyKeys, Buildable
<1> HIDE DEF m
<1>2. CASE x \in V1(m)
  <2>1. PICK sig \in CheckedSign(m.kid, "v1") :
          x = [v |-> 1, alg |-> Ed, algs |-> <<>>, fields |-> TRUE, kid |-> m.kid, sig |-> sig,
               pqKid |-> None, pqSig |-> None]
    BY <1>2 DEF V1
  <2>2. Verifies(sig, m.kid, "v1")
    BY DEF CheckedSign
  <2>3. x.v = 1 /\ x.alg = Ed /\ x.kid \in m.verify /\ Verifies(x.sig, x.kid, "v1")
    BY <1>1, <2>1, <2>2
  <2>4. SignatureV1(m, x) \in {"OK", "ALG_REQUIREMENT_NOT_MET"}
    BY <2>3, SignatureV1Answers
  <2> QED
    BY <2>3, <2>4, ScopeCodes DEF CheckState, SignatureCodes, m
<1>3. CASE m.pqSign # None /\ x \in V2(m)
  <2>1. PICK sig \in CheckedSign(m.kid, "v2"), q \in PqSign(m, "v2") :
          x = [v |-> 2, alg |-> Ed, algs |-> <<Ed, MlDsa>>, fields |-> TRUE, kid |-> m.kid,
               sig |-> sig, pqKid |-> m.pqKid, pqSig |-> q]
    BY <1>3 DEF V2
  <2>2. /\ sig.bytes = 64 /\ Verifies(sig, m.kid, "v2")
        /\ q.bytes = 2420 /\ Verifies(q, m.pqKid, "v2")
    BY DEF CheckedSign, PqSign
  <2>3. /\ x.v = 2 /\ WellFormed(x) /\ x.kid \in m.verify /\ Verifies(x.sig, x.kid, "v2")
        /\ m.native /\ x.pqKid \in m.pqVerify /\ Verifies(x.pqSig, x.pqKid, "v2")
    BY <1>1, <1>3, <2>1, <2>2 DEF WellFormed
  <2>4. SignatureV2(m, x) = "OK"
    BY <2>3, SignatureV2Answers, PqHalfAnswers
  <2> QED
    BY <2>3, <2>4, ScopeCodes DEF CheckState, SignatureCodes, m
<1> QED
  BY <1>2, <1>3 DEF Emitted, m

(* What passes is authentic under all the verifier demands. *)
LEMMA OkIsAuthentic ==
  ASSUME NEW m, NEW x, NEW s, CheckState(m, x, s) = "OK",
         x.v = 2 => x.pqSig = [by |-> x.pqSig.by, over |-> x.pqSig.over, bytes |-> x.pqSig.bytes]
  PROVE  /\ x.kid \in m.verify /\ x.sig.by = x.kid
         /\ x.sig.over = IF x.v = 1 THEN "v1" ELSE "v2"
         /\ MlDsa \in m.require =>
              /\ x.pqKid \in m.pqVerify
              /\ x.pqSig = [by |-> x.pqKid, over |-> "v2", bytes |-> 2420]
<1>1. CASE x.v = 2
  <2>1. SignatureV2(m, x) = "OK"
    BY <1>1 DEF CheckState
  <2>2. /\ WellFormed(x) /\ x.kid \in m.verify /\ Verifies(x.sig, x.kid, "v2")
        /\ MlDsa \in m.require => x.pqKid \in m.pqVerify /\ Verifies(x.pqSig, x.pqKid, "v2")
    BY <2>1, SignatureV2Answers, PqHalfAnswers
  <2> QED
    BY <1>1, <2>2 DEF WellFormed, Verifies
<1>2. CASE x.v # 2
  <2>1. SignatureV1(m, x) = "OK"
    BY <1>2 DEF CheckState
  <2>2. /\ x.v = 1 /\ m.require \subseteq {Ed}
        /\ x.kid \in m.verify /\ Verifies(x.sig, x.kid, "v1")
    BY <2>1, SignatureV1Answers
  <2>3. MlDsa \notin m.require
    BY <2>2 DEF Ed, MlDsa
  <2> QED
    BY <2>2, <2>3 DEF Verifies
<1> QED
  BY <1>1, <1>2

(* What verify() of a mandate means (guard/src/mandate), for any keys, any   *)
(* configuration the constructor accepts and any mandate presented: what is  *)
(* issued verifies, and what is accepted is authentic.                       *)
THEOREM MandatesAreAuthentic == CheckSpec => []SignaturesHold
<1>1. CheckInit => CheckIInv
  BY DEF CheckInit, CheckIInv, ManagerIsBuilt, MandateIsWritten, CheckIsOfMandate
<1>2. CheckIInv /\ [CheckNext]_checkVars => CheckIInv'
  BY CheckStep
<1>3. CheckIInv => SignaturesHold
  <2> SUFFICES ASSUME CheckIInv, check # None PROVE SignaturesHold
    BY DEF SignaturesHold, IssuedVerifies, AcceptedIsAuthentic
  <2>1. PICK s \in Scopes : check = <<CheckState(manager, mandate, s), s>>
    BY DEF CheckIInv, CheckIsOfMandate
  <2>2. check[1] = CheckState(manager, mandate, s)
    BY <2>1
  <2>3. PICK cfg \in Configs : Buildable(cfg) /\ manager = Built(cfg)
    BY DEF CheckIInv, CheckIsOfMandate, MandateIsWritten, ManagerIsBuilt
  <2>4. IF issuedHere THEN mandate \in Emitted(manager) ELSE mandate \in Foreign
    BY DEF CheckIInv, CheckIsOfMandate, MandateIsWritten
  <2>5. IssuedVerifies
    BY <2>2, <2>3, <2>4, EmittedVerifies DEF IssuedVerifies, SignatureCodes
  <2>6. mandate.v = 2 => mandate.pqSig = [by |-> mandate.pqSig.by, over |-> mandate.pqSig.over,
                                          bytes |-> mandate.pqSig.bytes]
    BY <2>4, ForeignAssumption DEF CheckIInv, Emitted, V1, V2, PqSign
  <2>7. AcceptedIsAuthentic
    <3> SUFFICES ASSUME CheckState(manager, mandate, s) = "OK"
                 PROVE  /\ mandate.kid \in manager.verify /\ mandate.sig.by = mandate.kid
                        /\ mandate.sig.over = IF mandate.v = 1 THEN "v1" ELSE "v2"
                        /\ MlDsa \in manager.require =>
                             /\ mandate.pqKid \in manager.pqVerify
                             /\ mandate.pqSig = [by |-> mandate.pqKid, over |-> "v2", bytes |-> 2420]
      BY <2>2 DEF AcceptedIsAuthentic
    <3> DEFINE m == manager
               x == mandate
    <3>1. CheckState(m, x, s) = "OK"
      OBVIOUS
    <3> HIDE DEF m, x
    <3> QED
      BY <2>6, <3>1, OkIsAuthentic DEF m, x
  <2> QED
    BY <2>5, <2>7 DEF SignaturesHold
<1> QED
  BY <1>1, <1>2, <1>3, PTL DEF CheckSpec

-----------------------------------------------------------------------------
(* The policy engine.  Each list and each window only adds reasons, so an    *)
(* edit that adds an entry to a block list, takes one off an allow list,     *)
(* lowers a cap or adds a window keeps every reason there was.               *)

LEMMA NetworksOnlyTighten ==
  ASSUME NEW i, NEW p, NEW q, PolicyShape(p), NEW n \in Spellings,
         \/ q.networks = [p.networks EXCEPT !.block = Blocks(@, n)]
         \/ /\ q.networks = [p.networks EXCEPT !.allow = IF @ = None THEN {n} ELSE @ \ {n}]
            /\ p.networks.allow # None => NormNetwork(n) # None,
         NetworkReasons(i, q) = {}
  PROVE  NetworkReasons(i, p) = {}
<1> DEFINE listed(list) == \E o \in list : NormNetwork(o) = NormNetwork(i.network)
<1>1. ASSUME NEW r, r.networks.allow # None \/ r.networks.block # None
      PROVE  NetworkReasons(i, r) = {} <=>
               /\ \A o \in Given(r.networks.allow) \cup Given(r.networks.block) : NormNetwork(o) # None
               /\ NormNetwork(i.network) # None
               /\ ~listed(Given(r.networks.block))
               /\ r.networks.allow # None => listed(Given(r.networks.allow))
  BY <1>1 DEF NetworkReasons, When
<1>2. \A list : list \subseteq Spellings => list # None
  BY PolicyAssumption DEF PolicyAssumption
<1>3. CASE q.networks = [p.networks EXCEPT !.block = Blocks(@, n)]
  <2>1. /\ q.networks.allow = p.networks.allow
        /\ q.networks.block = Given(p.networks.block) \cup {n}
    BY <1>3 DEF PolicyShape, Blocks
  <2>2. q.networks.block # None /\ Given(q.networks.block) = Given(p.networks.block) \cup {n}
    BY <1>2, <2>1 DEF PolicyShape, Given
  <2>3. CASE p.networks.allow = None /\ p.networks.block = None
    BY <2>3 DEF NetworkReasons
  <2>4. CASE p.networks.allow # None \/ p.networks.block # None
    BY <1>1, <2>1, <2>2, <2>4
  <2> QED
    BY <2>3, <2>4
<1>4. CASE /\ q.networks = [p.networks EXCEPT !.allow = IF @ = None THEN {n} ELSE @ \ {n}]
           /\ p.networks.allow # None => NormNetwork(n) # None
  <2>1. /\ q.networks.block = p.networks.block
        /\ q.networks.allow = IF p.networks.allow = None THEN {n} ELSE p.networks.allow \ {n}
    BY <1>4 DEF PolicyShape
  <2>2. q.networks.allow # None
    BY <1>2, <2>1 DEF PolicyShape
  <2>3. CASE p.networks.allow = None /\ p.networks.block = None
    BY <2>3 DEF NetworkReasons
  <2>4. CASE p.networks.allow # None \/ p.networks.block # None
    <3>1. \A o \in Given(p.networks.allow) : o \in Given(q.networks.allow) \/ o = n
      BY <2>1, <2>2 DEF Given
    <3>2. p.networks.allow # None => Given(q.networks.allow) \subseteq Given(p.networks.allow)
      BY <2>1, <2>2 DEF Given
    <3> QED
      BY <1>1, <1>4, <2>1, <2>2, <2>4, <3>1, <3>2 DEF Given
  <2> QED
    BY <2>3, <2>4
<1> QED
  BY <1>3, <1>4

LEMMA MerchantsOnlyTighten ==
  ASSUME NEW i, NEW p, NEW q, PolicyShape(p), NEW m \in Patterns,
         \/ q.merchants = [p.merchants EXCEPT !.block = Blocks(@, m)]
         \/ q.merchants = [p.merchants EXCEPT !.allow = IF @ = None THEN {m} ELSE @ \ {m}],
         MerchantReasons(i, q) = {}
  PROVE  MerchantReasons(i, p) = {}
<1>1. ASSUME NEW list, list \subseteq Patterns PROVE list # None
  <2>1. list \in (SUBSET Spellings) \cup (SUBSET Patterns)
    BY <1>1
  <2> QED
    BY <2>1, PolicyAssumption DEF PolicyAssumption
<1>2. ASSUME NEW r
      PROVE  MerchantReasons(i, r) = {} <=>
               /\ ~(i.merchant.host = None /\ \E o \in Given(r.merchants.block) : o.form = "host")
               /\ \A o \in Given(r.merchants.block) : ~MerchantMatches(i, o)
               /\ \/ r.merchants.allow = None
                  \/ \E o \in Given(r.merchants.allow) : MerchantMatches(i, o)
  <2>1. Given(r.merchants.allow) = IF r.merchants.allow = None THEN {} ELSE r.merchants.allow
    BY DEF Given
  <2> QED
    BY <2>1 DEF MerchantReasons, When, ListAdmits
<1>3. /\ Given(p.merchants.block) \subseteq Given(q.merchants.block)
      /\ \/ q.merchants.allow = p.merchants.allow
         \/ p.merchants.allow = None
         \/ q.merchants.allow # None /\ Given(q.merchants.allow) \subseteq Given(p.merchants.allow)
  <2>1. CASE q.merchants = [p.merchants EXCEPT !.block = Blocks(@, m)]
    <3>1. q.merchants.allow = p.merchants.allow /\ q.merchants.block = Given(p.merchants.block) \cup {m}
      BY <2>1 DEF PolicyShape, Blocks
    <3>2. Given(p.merchants.block) \subseteq Patterns
      BY DEF PolicyShape, Given
    <3> QED
      BY <1>1, <3>1, <3>2 DEF Given
  <2>2. CASE q.merchants = [p.merchants EXCEPT !.allow = IF @ = None THEN {m} ELSE @ \ {m}]
    <3>1. /\ q.merchants.block = p.merchants.block
          /\ q.merchants.allow = IF p.merchants.allow = None THEN {m} ELSE p.merchants.allow \ {m}
      BY <2>2 DEF PolicyShape
    <3>2. q.merchants.allow # None
      BY <1>1, <3>1 DEF PolicyShape
    <3> QED
      BY <3>1, <3>2 DEF Given
  <2> QED
    BY <2>1, <2>2
<1> QED
  BY <1>2, <1>3

(* A window that is refused, or that would be exceeded, gives a reason. *)
Exceeded(i, spent, w) ==
  \/ w.cap # None /\ AmountValid(i) /\ spent.total + i.amount > w.cap
  \/ w.maxCount # None /\ spent.count + 1 > w.maxCount

LEMMA WindowsGiveReasons ==
  ASSUME NEW i, NEW p, NEW spent
  PROVE  WindowReasons(i, p, spent) = {} <=>
           \A w \in PolicyWindows(p) : ~Misconfigured(w) /\ ~Exceeded(i, spent, w)
BY DEF WindowReasons, Exceeded

(* The limits of another policy that has them all, or lower ones. *)
LEMMA LimitsOnlyTighten ==
  ASSUME NEW i, NEW p, NEW q, NEW spent, PolicyShape(p),
         i.amount \in Int, spent.total \in Int,
         q.perDay = p.perDay \/ (q.perDay \in -1..2 /\ Lowered(p.perDay, q.perDay)),
         p.maxTransactions \subseteq q.maxTransactions,
         q.maxPerMerchant = p.maxPerMerchant,
         WindowReasons(i, q, spent) = {}
  PROVE  WindowReasons(i, p, spent) = {}
<1> SUFFICES ASSUME NEW w \in PolicyWindows(p) PROVE ~Misconfigured(w) /\ ~Exceeded(i, spent, w)
  BY WindowsGiveReasons
<1>1. \A v \in PolicyWindows(q) : ~Misconfigured(v) /\ ~Exceeded(i, spent, v)
  BY WindowsGiveReasons
<1>2. CASE w \in PolicyWindows(q)
  BY <1>1, <1>2
<1>3. CASE w \notin PolicyWindows(q)
  <2>1. /\ p.perDay # None /\ w = Window("PER_DAY_LIMIT_EXCEEDED", p.perDay, None)
        /\ q.perDay # p.perDay
    BY <1>3 DEF PolicyWindows
  <2>2. /\ p.perDay \in Int /\ q.perDay \in -1..2 /\ q.perDay < p.perDay
        /\ q.perDay # None
    BY <2>1, PolicyAssumption DEF PolicyAssumption, PolicyShape, Lowered
  <2> DEFINE v == Window("PER_DAY_LIMIT_EXCEEDED", q.perDay, None)
  <2>3. v \in PolicyWindows(q)
    BY <2>2 DEF PolicyWindows
  <2>4. ~Exceeded(i, spent, v)
    BY <1>1, <2>3
  <2>5. ~(AmountValid(i) /\ spent.total + i.amount > q.perDay)
    BY <2>2, <2>4 DEF Exceeded, Window
  <2>6. ~(AmountValid(i) /\ spent.total + i.amount > p.perDay)
    BY <2>2, <2>5
  <2>7. w.cap = p.perDay /\ w.maxCount = None
    BY <2>1 DEF Window
  <2>8. None # -1 /\ p.perDay # -1
    BY <2>2, PolicyAssumption DEF PolicyAssumption
  <2> QED
    BY <2>6, <2>7, <2>8 DEF Misconfigured, Exceeded
<1> QED
  BY <1>2, <1>3

(* One edit keeps what there was: every reason, and the call for approval. *)
LEMMA EditOnlyTightens ==
  ASSUME NEW i, NEW p, NEW spent, PolicyShape(p), i.amount \in Int,
         spent.total \in Int, spent.count \in Int, NEW q \in Tightened(p)
  PROVE  Rank(EvaluatePolicy(i, q, spent)) >= Rank(EvaluatePolicy(i, p, spent))
<1> DEFINE Asks(r) == r.always \/ (r.above # None /\ i.amount >= r.above)
           Kept(r) == /\ r.expiry = p.expiry /\ r.currency = p.currency /\ r.rails = p.rails
                      /\ r.categories = p.categories /\ r.maxPerMerchant = p.maxPerMerchant
           NetworksKept(r) ==
             \/ r.networks = p.networks
             \/ \E n \in Spellings :
                  \/ r.networks = [p.networks EXCEPT !.block = Blocks(@, n)]
                  \/ /\ r.networks = [p.networks EXCEPT !.allow = IF @ = None THEN {n} ELSE @ \ {n}]
                     /\ p.networks.allow # None => NormNetwork(n) # None
           MerchantsKept(r) ==
             \/ r.merchants = p.merchants
             \/ \E m \in Patterns :
                  \/ r.merchants = [p.merchants EXCEPT !.block = Blocks(@, m)]
                  \/ r.merchants = [p.merchants EXCEPT !.allow = IF @ = None THEN {m} ELSE @ \ {m}]
           LimitsKept(r) ==
             /\ (r.perTxn = p.perTxn \/ (r.perTxn \in 0..2 /\ Lowered(p.perTxn, r.perTxn)))
             /\ (r.perDay = p.perDay \/ (r.perDay \in -1..2 /\ Lowered(p.perDay, r.perDay)))
             /\ p.maxTransactions \subseteq r.maxTransactions
             /\ (r.above = p.above \/ (r.above \in 0..2 /\ Lowered(p.above, r.above)))
             /\ p.always => r.always
           Facts(r) == Kept(r) /\ NetworksKept(r) /\ MerchantsKept(r) /\ LimitsKept(r)
<1>1. Facts(q)
  <2>1. ASSUME NEW n \in Spellings, q = [p EXCEPT !.networks.block = Blocks(@, n)] PROVE Facts(q)
    <3>1. q = [p EXCEPT !.networks = [p.networks EXCEPT !.block = Blocks(@, n)]]
      BY <2>1 DEF PolicyShape
    <3> QED
      BY <3>1 DEF PolicyShape
  <2>2. ASSUME NEW n \in Spellings, p.networks.allow # None => NormNetwork(n) # None,
               q = [p EXCEPT !.networks.allow = IF @ = None THEN {n} ELSE @ \ {n}]
        PROVE  Facts(q)
    <3>1. q = [p EXCEPT !.networks = [p.networks EXCEPT !.allow = IF @ = None THEN {n} ELSE @ \ {n}]]
      BY <2>2 DEF PolicyShape
    <3> QED
      BY <2>2, <3>1 DEF PolicyShape
  <2>3. ASSUME NEW m \in Patterns, q = [p EXCEPT !.merchants.block = Blocks(@, m)] PROVE Facts(q)
    <3>1. q = [p EXCEPT !.merchants = [p.merchants EXCEPT !.block = Blocks(@, m)]]
      BY <2>3 DEF PolicyShape
    <3> QED
      BY <3>1 DEF PolicyShape
  <2>4. ASSUME NEW m \in Patterns, q = [p EXCEPT !.merchants.allow = IF @ = None THEN {m} ELSE @ \ {m}]
        PROVE  Facts(q)
    <3>1. q = [p EXCEPT !.merchants = [p.merchants EXCEPT !.allow = IF @ = None THEN {m} ELSE @ \ {m}]]
      BY <2>4 DEF PolicyShape
    <3> QED
      BY <3>1 DEF PolicyShape
  <2>5. ASSUME NEW n \in 0..2, Lowered(p.perTxn, n), q = [p EXCEPT !.perTxn = n] PROVE Facts(q)
    BY <2>5 DEF PolicyShape
  <2>6. ASSUME NEW n \in -1..2, Lowered(p.perDay, n), q = [p EXCEPT !.perDay = n] PROVE Facts(q)
    BY <2>6 DEF PolicyShape
  <2>7. ASSUME NEW n \in -1..2, q = [p EXCEPT !.maxTransactions = @ \cup {n}] PROVE Facts(q)
    BY <2>7 DEF PolicyShape
  <2>8. ASSUME NEW n \in 0..2, Lowered(p.above, n), q = [p EXCEPT !.above = n] PROVE Facts(q)
    BY <2>8 DEF PolicyShape
  <2>9. CASE q = [p EXCEPT !.always = TRUE]
    BY <2>9 DEF PolicyShape
  <2> HIDE DEF Facts
  <2> QED
    BY <2>1, <2>2, <2>3, <2>4, <2>5, <2>6, <2>7, <2>8, <2>9 DEF Tightened
<1>2. NetworksKept(q)
  BY <1>1
<1>3. MerchantsKept(q)
  BY <1>1
<1>4. Kept(q) /\ LimitsKept(q)
  BY <1>1
<1> HIDE DEF Facts
<1>5. Asks(p) => Asks(q)
  BY <1>4, PolicyAssumption DEF PolicyAssumption, PolicyShape, Lowered
<1>6. ASSUME Reasons(i, q, spent) = {} PROVE Reasons(i, p, spent) = {}
  <2>1. NetworkReasons(i, q) = {} /\ MerchantReasons(i, q) = {} /\ WindowReasons(i, q, spent) = {}
    BY <1>6 DEF Reasons
  <2>2. NetworkReasons(i, p) = {}
    <3>1. CASE q.networks = p.networks
      BY <2>1, <3>1 DEF NetworkReasons
    <3>2. CASE q.networks # p.networks
      BY <1>2, <2>1, <3>2, NetworksOnlyTighten
    <3> QED
      BY <3>1, <3>2
  <2>3. MerchantReasons(i, p) = {}
    <3>1. CASE q.merchants = p.merchants
      BY <2>1, <3>1 DEF MerchantReasons
    <3>2. CASE q.merchants # p.merchants
      BY <1>3, <2>1, <3>2, MerchantsOnlyTighten
    <3> QED
      BY <3>1, <3>2
  <2>4. WindowReasons(i, p, spent) = {}
    BY <1>4, <2>1, LimitsOnlyTighten
  <2>5. ~(AmountValid(i) /\ p.perTxn # None /\ i.amount > p.perTxn)
    <3>1. ~(AmountValid(i) /\ q.perTxn # None /\ i.amount > q.perTxn)
      BY <1>6 DEF Reasons, When
    <3> QED
      BY <1>4, <3>1, PolicyAssumption DEF PolicyAssumption, PolicyShape, Lowered
  <2>6. CategoryReasons(i, q) = CategoryReasons(i, p)
    BY <1>4 DEF CategoryReasons
  <2>7. /\ When("INVALID_AMOUNT", ~AmountValid(i)) = {}
        /\ When("POLICY_EXPIRY_UNPARSEABLE", p.expiry = "unparseable") = {}
        /\ When("POLICY_EXPIRED", p.expiry = "past") = {}
        /\ When("CURRENCY_MISMATCH", i.currency # p.currency) = {}
        /\ When("RAIL_NOT_ALLOWED", ~ListAdmits(p.rails, {i.rail})) = {}
        /\ CategoryReasons(i, p) = {}
    BY <1>4, <1>6, <2>6 DEF Reasons
  <2>8. When("PER_TXN_LIMIT_EXCEEDED", AmountValid(i) /\ p.perTxn # None /\ i.amount > p.perTxn) = {}
    BY <2>5 DEF When
  <2> QED
    BY <2>2, <2>3, <2>4, <2>7, <2>8 DEF Reasons
<1>7. \A r : EvaluatePolicy(i, r, spent) = IF Reasons(i, r, spent) # {} THEN "deny"
                                          ELSE IF Asks(r) THEN "require_approval" ELSE "allow"
  BY DEF EvaluatePolicy
<1>8. Rank("allow") = 0 /\ Rank("require_approval") = 1 /\ Rank("deny") = 2
  BY DEF Rank
<1> HIDE DEF Asks
<1> QED
  BY <1>5, <1>6, <1>7, <1>8

(* The engine reads a network through NormNetwork alone, and two spellings   *)
(* of a chain have one normal form.                                          *)
Written == Spellings \cup {i.network : i \in Intents}

LEMMA OneChainOneForm ==
  ASSUME NEW n \in Written, NEW o \in Written, SameChain(n, o)
  PROVE  NormNetwork(n) = NormNetwork(o)
<1>1. \A x, y \in Written :
        x.form = "bare" /\ x.id \notin DOMAIN Aliases =>
          /\ x.id \notin {Aliases[a] : a \in DOMAIN Aliases}
          /\ y.form = "caip" => y.id # x.id
  BY PolicyAssumption DEF PolicyAssumption, Written
<1>2. n.form \in {"bare", "caip"} /\ o.form \in {"bare", "caip"} /\ ChainOf(n) = ChainOf(o)
  BY DEF SameChain
<1> DEFINE Alias(x) == x.form = "bare" /\ x.id \in DOMAIN Aliases
           Name(x) == x.form = "bare" /\ x.id \notin DOMAIN Aliases
<1>3. \A x : /\ Alias(x) => ChainOf(x) = Aliases[x.id] /\ NormNetwork(x) = <<"eip155", Aliases[x.id]>>
             /\ x.form = "caip" => ChainOf(x) = x.id /\ NormNetwork(x) = <<"eip155", x.id>>
             /\ Name(x) => ChainOf(x) = x.id /\ NormNetwork(x) = <<"name", x.id>>
  BY DEF ChainOf, NormNetwork
<1>4. ASSUME Name(n) \/ Name(o) PROVE Name(n) /\ Name(o)
  BY <1>1, <1>2, <1>3, <1>4
<1> QED
  BY <1>2, <1>3, <1>4

LEMMA EditKeepsShape ==
  ASSUME NEW p, PolicyShape(p), NEW q \in Tightened(p)
  PROVE  PolicyShape(q)
<1>1. ASSUME NEW n \in Spellings,
            q = [p EXCEPT !.networks.block = Blocks(@, n)]
      PROVE  PolicyShape(q)
  <2>1. q = [p EXCEPT !.networks = [p.networks EXCEPT !.block = Blocks(@, n)]]
    BY <1>1 DEF PolicyShape
  <2> QED
    BY <2>1 DEF PolicyShape, Given, Blocks
<1>2. ASSUME NEW n \in Spellings,
            q = [p EXCEPT !.networks.allow = IF @ = None THEN {n} ELSE @ \ {n}]
      PROVE  PolicyShape(q)
  <2>1. q = [p EXCEPT !.networks = [p.networks EXCEPT !.allow = IF @ = None THEN {n} ELSE @ \ {n}]]
    BY <1>2 DEF PolicyShape
  <2> QED
    BY <2>1 DEF PolicyShape, Given, Blocks
<1>3. ASSUME NEW m \in Patterns,
            q = [p EXCEPT !.merchants.block = Blocks(@, m)]
      PROVE  PolicyShape(q)
  <2>1. q = [p EXCEPT !.merchants = [p.merchants EXCEPT !.block = Blocks(@, m)]]
    BY <1>3 DEF PolicyShape
  <2> QED
    BY <2>1 DEF PolicyShape, Given, Blocks
<1>4. ASSUME NEW m \in Patterns,
            q = [p EXCEPT !.merchants.allow = IF @ = None THEN {m} ELSE @ \ {m}]
      PROVE  PolicyShape(q)
  <2>1. q = [p EXCEPT !.merchants = [p.merchants EXCEPT !.allow = IF @ = None THEN {m} ELSE @ \ {m}]]
    BY <1>4 DEF PolicyShape
  <2> QED
    BY <2>1 DEF PolicyShape, Given, Blocks
<1>5. ASSUME NEW n \in 0..2, q = [p EXCEPT !.perTxn = n] PROVE PolicyShape(q)
  BY <1>5 DEF PolicyShape
<1>6. ASSUME NEW n \in -1..2, q = [p EXCEPT !.perDay = n] PROVE PolicyShape(q)
  BY <1>6 DEF PolicyShape
<1>7. ASSUME NEW n \in -1..2, q = [p EXCEPT !.maxTransactions = @ \cup {n}] PROVE PolicyShape(q)
  BY <1>7 DEF PolicyShape
<1>8. ASSUME NEW n \in 0..2, q = [p EXCEPT !.above = n] PROVE PolicyShape(q)
  BY <1>8 DEF PolicyShape
<1>9. CASE q = [p EXCEPT !.always = TRUE]
  BY <1>9 DEF PolicyShape
<1> HIDE DEF PolicyShape
<1> QED
  BY <1>1, <1>2, <1>3, <1>4, <1>5, <1>6, <1>7, <1>8, <1>9 DEF Tightened

PolicyIInv ==
  /\ PolicyShape(policy)
  /\ DOMAIN request = {"intent", "spent"}
  /\ "network" \in DOMAIN request.intent /\ request.intent.network \in Written
  /\ request.intent.amount \in Int /\ request.spent.total \in Int /\ request.spent.count \in Int
  /\ verdict = EvaluatePolicy(request.intent, policy, request.spent)

LEMMA PolicyInitiallyHolds == PolicyInit => PolicyIInv
<1> SUFFICES ASSUME PolicyInit PROVE PolicyIInv
  OBVIOUS
<1>1. PICK i \in Intents, s \in Spent : request = [intent |-> i, spent |-> s]
  BY DEF PolicyInit
<1>2. policy \in Policies /\ verdict = EvaluatePolicy(request.intent, policy, request.spent)
  BY DEF PolicyInit
<1> QED
  BY <1>1, <1>2, PolicyAssumption DEF PolicyAssumption, PolicyIInv, Written

(* A new spelling of a network is all that Respell changes, and the engine   *)
(* answers as before.                                                        *)
LEMMA SpellingIsNormalized ==
  ASSUME PolicyIInv, Respell
  PROVE  PolicyIInv' /\ verdict' = verdict
<1> USE DEF PolicyIInv
<1>1. PICK n \in Spellings :
        /\ SameChain(n, request.intent.network)
        /\ request' = [request EXCEPT !.intent.network = n]
  BY DEF Respell
<1> DEFINE i == request.intent
           j == request'.intent
<1>2. /\ request' = [request EXCEPT !.intent = [i EXCEPT !.network = n]]
      /\ policy' = policy /\ verdict' = EvaluatePolicy(j, policy, request.spent)
  BY <1>1 DEF Respell
<1>3. /\ j = [i EXCEPT !.network = n] /\ request'.spent = request.spent
      /\ DOMAIN request' = {"intent", "spent"}
  BY <1>2
<1>4. /\ DOMAIN j = DOMAIN i /\ j.network = n
      /\ j.amount = i.amount /\ j.currency = i.currency /\ j.rail = i.rail
      /\ j.merchant = i.merchant /\ j.category = i.category
  BY <1>3
<1> HIDE DEF i, j
<1>5. NormNetwork(n) = NormNetwork(i.network) /\ n.form # "absent" /\ i.network.form # "absent"
  BY <1>1, OneChainOneForm DEF Written, SameChain, i
<1>6. NetworkReasons(j, policy) = NetworkReasons(i, policy)
  BY <1>4, <1>5 DEF NetworkReasons
<1>7. MerchantReasons(j, policy) = MerchantReasons(i, policy)
  BY <1>4 DEF MerchantReasons, MerchantMatches
<1>8. /\ CategoryReasons(j, policy) = CategoryReasons(i, policy)
      /\ WindowReasons(j, policy, request.spent) = WindowReasons(i, policy, request.spent)
      /\ AmountValid(j) = AmountValid(i)
  BY <1>4 DEF CategoryReasons, WindowReasons, AmountValid
<1>9. Reasons(j, policy, request.spent) = Reasons(i, policy, request.spent)
  BY <1>4, <1>6, <1>7, <1>8 DEF Reasons
<1>10. EvaluatePolicy(j, policy, request.spent) = EvaluatePolicy(i, policy, request.spent)
  BY <1>4, <1>9 DEF EvaluatePolicy
<1>11. verdict' = verdict
  BY <1>2, <1>10 DEF i
<1>12. PolicyIInv'
  BY <1>2, <1>3, <1>4, <1>11 DEF Written, i, j
<1> QED
  BY <1>11, <1>12

LEMMA PolicyStep == PolicyIInv /\ [PolicyNext]_policyVars => PolicyIInv'
<1> SUFFICES ASSUME PolicyIInv, [PolicyNext]_policyVars PROVE PolicyIInv'
  OBVIOUS
<1>1. CASE Tighten
  BY <1>1, EditKeepsShape DEF Tighten, PolicyIInv
<1>2. CASE Respell
  BY <1>2, SpellingIsNormalized
<1>3. CASE UNCHANGED policyVars
  BY <1>3 DEF policyVars, PolicyIInv
<1> QED
  BY <1>1, <1>2, <1>3 DEF PolicyNext

(* A stricter policy is a stricter answer (evaluatePolicy() of guard/src),   *)
(* for any policy of the validated shape and any request.                    *)
THEOREM TighteningIsMonotone == PolicySpec => TighteningNeverLoosens
<1>1. PolicyIInv /\ [PolicyNext]_policyVars
        => [request' = request => Rank(verdict') >= Rank(verdict)]_policyVars
  <2> SUFFICES ASSUME PolicyIInv, PolicyNext, request' = request
               PROVE  Rank(verdict') >= Rank(verdict)
    OBVIOUS
  <2>1. verdict = EvaluatePolicy(request.intent, policy, request.spent)
    BY DEF PolicyIInv
  <2>2. Rank(verdict) \in Int
    BY <2>1 DEF EvaluatePolicy, Rank
  <2>3. CASE Tighten
    BY <2>1, <2>3, EditOnlyTightens DEF PolicyIInv, Tighten
  <2>4. CASE Respell
    BY <2>2, <2>4, SpellingIsNormalized
  <2> QED
    BY <2>3, <2>4 DEF PolicyNext
<1> QED
  BY <1>1, PolicyInitiallyHolds, PolicyStep, PTL DEF PolicySpec, TighteningNeverLoosens

(* Writing a chain differently gets no other answer (normalization of        *)
(* network ids in guard/src/policy/engine.ts), for any aliases and spellings *)
(* in which an unknown name is not a chain's number.                         *)
THEOREM SpellingIsIgnored == PolicySpec => SpellingDoesNotMatter
<1>1. PolicyIInv /\ [PolicyNext]_policyVars => [policy' = policy => verdict' = verdict]_policyVars
  <2> SUFFICES ASSUME PolicyIInv, PolicyNext, policy' = policy PROVE verdict' = verdict
    OBVIOUS
  <2>1. CASE Tighten
    BY <2>1 DEF Tighten, PolicyIInv
  <2>2. CASE Respell
    BY <2>2, SpellingIsNormalized
  <2> QED
    BY <2>1, <2>2 DEF PolicyNext
<1> QED
  BY <1>1, PolicyInitiallyHolds, PolicyStep, PTL DEF PolicySpec, SpellingDoesNotMatter

-----------------------------------------------------------------------------
(* The risk scorecard. *)

RiskRow == UNION {UNION {RiskRows(i, t) : i \in RiskIntents} : t \in 0..MaxClock}

RiskTypeOK ==
  /\ config \in RiskConfigs /\ Admissible(config)
  /\ ledger \in Seq(RiskRow) /\ clock \in 0..MaxClock

\* An assessment is over a prefix of the ledger and says what that prefix says.
AnchoredInv ==
  \A a \in assessed :
    /\ a.answer.anchor \in Nat /\ a.answer.anchor <= Len(ledger)
    /\ a.answer = Assess(AnchoredPrefix(ledger, a.answer.anchor), config, a.intent, a.at)

RiskInv == RiskTypeOK /\ AnchoredInv

\* The anchor of an assessment is the number of rows it was scored over.
LEMMA AnchorIsLength ==
  ASSUME NEW rows, NEW cfg, NEW i, NEW now
  PROVE  Assess(rows, cfg, i, now).anchor = Len(rows)
BY DEF Assess

\* A row appended later is not among the rows an anchor names.
LEMMA PrefixStays ==
  ASSUME NEW rows \in Seq(RiskRow), NEW r \in RiskRow, NEW n \in Nat, n <= Len(rows)
  PROVE  /\ AnchoredPrefix(Append(rows, r), n) = AnchoredPrefix(rows, n)
         /\ n = Len(rows) => AnchoredPrefix(rows, n) = rows
<1>1. Len(rows) \in Nat /\ Append(rows, r) \in Seq(RiskRow) /\ Len(Append(rows, r)) = Len(rows) + 1
      /\ \A j \in 1..Len(rows) : Append(rows, r)[j] = rows[j]
  OBVIOUS
<1>2. \A u \in Seq(RiskRow) : n <= Len(u) =>
        /\ SubSeq(u, 1, n) = [j \in 1..n |-> u[j]]
  OBVIOUS
<1>3. SubSeq(Append(rows, r), 1, n) = [j \in 1..n |-> Append(rows, r)[j]]
  BY <1>1, <1>2
<1>4. SubSeq(rows, 1, n) = [j \in 1..n |-> rows[j]]
  BY <1>2
<1>5. \A j \in 1..n : Append(rows, r)[j] = rows[j]
  BY <1>1
<1>6. n = Len(rows) => [j \in 1..n |-> rows[j]] = rows
  OBVIOUS
<1> QED
  BY <1>3, <1>4, <1>5, <1>6 DEF AnchoredPrefix

LEMMA RiskInitInv == RiskInit => RiskInv
<1> SUFFICES ASSUME RiskInit PROVE RiskInv
  OBVIOUS
<1>1. 0 \in 0..MaxClock
  BY RiskAssumption
<1> QED
  BY <1>1 DEF RiskInit, RiskInv, RiskTypeOK, AnchoredInv

LEMMA RiskNextInv ==
  ASSUME RiskInv, [RiskNext]_riskVars PROVE RiskInv'
<1> USE DEF RiskInv
<1>1. CASE RiskTick
  <2>1. clock + 1 \in 0..MaxClock /\ clock' = clock + 1 /\ UNCHANGED <<config, ledger, assessed>>
    BY <1>1, RiskAssumption DEF RiskTick, RiskTypeOK
  <2> QED
    BY <2>1 DEF RiskTypeOK, AnchoredInv
<1>2. CASE AppendRow
  <2>1. PICK i \in RiskIntents : \E r \in RiskRows(i, clock) : ledger' = Append(ledger, r)
    BY <1>2 DEF AppendRow
  <2>2. PICK r \in RiskRows(i, clock) : ledger' = Append(ledger, r)
    BY <2>1
  <2>3. r \in RiskRow /\ UNCHANGED <<config, clock, assessed>>
    BY <1>2 DEF AppendRow, RiskRow, RiskTypeOK
  <2>4. ledger \in Seq(RiskRow) /\ ledger' \in Seq(RiskRow) /\ Len(ledger) \in Nat
        /\ Len(ledger') = Len(ledger) + 1
    BY <2>2, <2>3 DEF RiskTypeOK
  <2>5. ASSUME NEW a \in assessed
        PROVE  /\ a.answer.anchor \in Nat /\ a.answer.anchor <= Len(ledger')
               /\ AnchoredPrefix(ledger', a.answer.anchor) = AnchoredPrefix(ledger, a.answer.anchor)
    <3>1. a.answer.anchor \in Nat /\ a.answer.anchor <= Len(ledger)
      BY DEF AnchoredInv
    <3> QED
      BY <2>2, <2>3, <2>4, <3>1, PrefixStays
  <2> QED
    BY <2>3, <2>4, <2>5 DEF RiskTypeOK, AnchoredInv
<1>3. CASE AssessIntent
  <2>1. PICK i \in RiskIntents :
          assessed' = assessed \cup {[intent |-> i, at |-> clock,
                                      answer |-> Assess(ledger, config, i, clock)]}
    BY <1>3 DEF AssessIntent
  <2>2. UNCHANGED <<config, ledger, clock>>
    BY <1>3 DEF AssessIntent
  <2> DEFINE x == Assess(ledger, config, i, clock)
  <2>3. x.anchor = Len(ledger)
    BY AnchorIsLength
  <2>4. AnchoredPrefix(ledger, Len(ledger)) = ledger /\ Len(ledger) \in Nat
    BY DEF RiskTypeOK, AnchoredPrefix
  <2>5. x = Assess(AnchoredPrefix(ledger, x.anchor), config, i, clock)
    BY <2>3, <2>4
  <2> HIDE DEF x
  <2>6. \A a \in assessed' : a \in assessed \/ a = [intent |-> i, at |-> clock, answer |-> x]
    BY <2>1 DEF x
  <2>7. ASSUME NEW a \in assessed'
        PROVE  /\ a.answer.anchor \in Nat /\ a.answer.anchor <= Len(ledger)
               /\ a.answer = Assess(AnchoredPrefix(ledger, a.answer.anchor), config, a.intent, a.at)
    <3>1. CASE a \in assessed
      BY <3>1 DEF AnchoredInv
    <3>2. CASE a = [intent |-> i, at |-> clock, answer |-> x]
      <4>1. a.answer = x /\ a.intent = i /\ a.at = clock
        BY <3>2
      <4> QED
        BY <2>3, <2>4, <2>5, <4>1
    <3> QED
      BY <2>6, <3>1, <3>2
  <2> QED
    BY <2>2, <2>7 DEF RiskTypeOK, AnchoredInv
<1>4. CASE UNCHANGED riskVars
  BY <1>4 DEF riskVars, RiskTypeOK, AnchoredInv
<1> QED
  BY <1>1, <1>2, <1>3, <1>4 DEF RiskNext

LEMMA RiskRowsAreDated ==
  ASSUME RiskTypeOK PROVE \A n \in DOMAIN ledger : ledger[n].at \in Int
<1> SUFFICES ASSUME NEW n \in DOMAIN ledger PROVE ledger[n].at \in Int
  OBVIOUS
<1>1. ledger[n] \in RiskRow
  BY DEF RiskTypeOK
<1>2. PICK t \in 0..MaxClock : \E i \in RiskIntents : ledger[n] \in RiskRows(i, t)
  BY <1>1 DEF RiskRow
<1>3. PICK i \in RiskIntents : ledger[n] \in RiskRows(i, t)
  BY <1>2
<1>4. ledger[n].at = t
  BY <1>3 DEF RiskRows
<1> QED
  BY <1>4

\* What lies within a window lies within every lookback that is no shorter.
LEMMA WindowIsCovered ==
  ASSUME NEW rows, NEW cfg, NEW now \in Int, NEW width \in Int, cfg.lookback \in Int,
         width <= cfg.lookback, \A n \in DOMAIN rows : rows[n].at \in Int
  PROVE  /\ After(rows, now - width, Spends(rows, cfg, now))
               = After(rows, now - width, ExecutedRows(rows))
         /\ After(rows, now - width, Denies(rows, cfg, now))
               = After(rows, now - width, DenyRows(rows))
<1>1. PICK near \in Int : near = now - width
  OBVIOUS
<1>2. PICK far \in Int : far = now - cfg.lookback
  OBVIOUS
<1>3. far <= near
  BY <1>1, <1>2
<1>4. \A t \in Int : t > near => t > far
  BY <1>3
<1>5. \A n \in DOMAIN rows : rows[n].at > near => rows[n].at > far
  BY <1>4
<1>6. ExecutedRows(rows) \subseteq DOMAIN rows /\ DenyRows(rows) \subseteq DOMAIN rows
  BY DEF ExecutedRows, DenyRows
<1>7. ASSUME NEW ns, ns \subseteq DOMAIN rows
      PROVE  After(rows, near, After(rows, far, ns)) = After(rows, near, ns)
  BY <1>5, <1>7 DEF After
<1>8. /\ Spends(rows, cfg, now) = After(rows, far, ExecutedRows(rows))
      /\ Denies(rows, cfg, now) = After(rows, far, DenyRows(rows))
  BY <1>2 DEF Spends, Denies
<1> QED
  BY <1>1, <1>6, <1>7, <1>8

LEMMA NothingIsHidden ==
  ASSUME RiskTypeOK PROVE LookbackHidesNothing
<1>1. /\ clock \in Int /\ config.lookback \in Int /\ Day \in Int
      /\ config.window["VELOCITY_BURST"] \in Int /\ config.window["DENY_STREAK"] \in Int
      /\ On(config, "VELOCITY_BURST") => config.window["VELOCITY_BURST"] <= config.lookback
      /\ On(config, "DENY_STREAK") => config.window["DENY_STREAK"] <= config.lookback
      /\ On(config, "CAP_APPROACH") => Day <= config.lookback
  <2>1. config \in RiskConfigs /\ WindowsSeen(config)
    BY DEF RiskTypeOK, Admissible
  <2>2. "VELOCITY_BURST" \in Windowed /\ "DENY_STREAK" \in Windowed
    BY DEF Windowed
  <2>3. clock \in Int /\ config.lookback \in Int /\ Day \in Int
        /\ config.window["VELOCITY_BURST"] \in Int /\ config.window["DENY_STREAK"] \in Int
    BY <2>1, <2>2, RiskAssumption DEF RiskTypeOK
  <2> QED
    BY <2>1, <2>2, <2>3 DEF WindowsSeen
<1>2. \A n \in DOMAIN ledger : ledger[n].at \in Int
  BY RiskRowsAreDated
<1>3. ASSUME On(config, "VELOCITY_BURST")
      PROVE  After(ledger, clock - config.window["VELOCITY_BURST"], Spends(ledger, config, clock))
               = After(ledger, clock - config.window["VELOCITY_BURST"], ExecutedRows(ledger))
  <2> DEFINE w == config.window["VELOCITY_BURST"]
  <2>1. w \in Int /\ w <= config.lookback /\ clock \in Int /\ config.lookback \in Int
    BY <1>1, <1>3
  <2> HIDE DEF w
  <2>2. After(ledger, clock - w, Spends(ledger, config, clock))
          = After(ledger, clock - w, ExecutedRows(ledger))
    BY <1>2, <2>1, WindowIsCovered
  <2> QED
    BY <2>2 DEF w
<1>4. ASSUME On(config, "DENY_STREAK")
      PROVE  After(ledger, clock - config.window["DENY_STREAK"], Denies(ledger, config, clock))
               = After(ledger, clock - config.window["DENY_STREAK"], DenyRows(ledger))
  <2> DEFINE w == config.window["DENY_STREAK"]
  <2>1. w \in Int /\ w <= config.lookback /\ clock \in Int /\ config.lookback \in Int
    BY <1>1, <1>4
  <2> HIDE DEF w
  <2>2. After(ledger, clock - w, Denies(ledger, config, clock))
          = After(ledger, clock - w, DenyRows(ledger))
    BY <1>2, <2>1, WindowIsCovered
  <2> QED
    BY <2>2 DEF w
<1>5. ASSUME On(config, "CAP_APPROACH")
      PROVE  After(ledger, clock - Day, Spends(ledger, config, clock))
               = After(ledger, clock - Day, ExecutedRows(ledger))
  BY <1>1, <1>2, <1>5, WindowIsCovered
<1> QED
  BY <1>3, <1>4, <1>5 DEF LookbackHidesNothing

\* An assessment recomputed from its anchor is the one on record, whatever was
\* appended since, and the lookback of an admitted scorecard never hides a row
\* from a signal's window (risk/scorecard.ts), for every scorecard and ledger.
THEOREM AssessmentsAlwaysHold == RiskSpec => []AssessmentHolds
<1>1. RiskInv => AssessmentHolds
  <2>1. RiskInv => AssessmentReplays
    BY DEF RiskInv, AnchoredInv, AssessmentReplays
  <2> QED
    BY <2>1, NothingIsHidden DEF RiskInv, AssessmentHolds
<1> QED
  BY <1>1, RiskInitInv, RiskNextInv, PTL DEF RiskSpec
=============================================================================
