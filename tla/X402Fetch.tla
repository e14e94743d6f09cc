------------------------------ MODULE X402Fetch ------------------------------
(* createX402Fetch() of x402/src: a fetch that pays.  The server answers 402 *)
(* and names what it wants, in the PAYMENT-REQUIRED header (v2) or the body  *)
(* (v1); one requirement is selected, gated, judged by the guard as an       *)
(* intent, signed by the operator's payer and sent again.  The operator may  *)
(* replace the policy at any moment.  The guard's own steps are the subject  *)
(* of Guard; here it judges, counts, and runs the executor.                  *)
EXTENDS PolicyEngine

CONSTANTS
  Deployments,   \* the options an operator writes
  Answers,       \* what a server may answer first
  Rules,         \* policies the operator may put in force
  EvmChains,     \* chain references whose asset ids ignore case
  RoleNames      \* recipients of the shape of a v2 role constant

(* A refusal has a code; a registry and an offer are lists.                  *)
ASSUME X402Assumption ==
  /\ None \notin {"protocol", "version", "V2_NOT_CONFIGURED", "NETWORK_UNGATED",
                  "RECIPIENT_UNGATED", "PAYTO_ROLE_REFUSED", "RESOURCE_ORIGIN_MISMATCH",
                  "ASSET_NOT_ALLOWED"}
  /\ \A d \in Deployments : d.assets = None \/ DOMAIN d.assets \subseteq Nat
  /\ \A a \in Answers : \A payload \in {a.header, a.body} \ {None} :
       /\ DOMAIN payload.accepts \subseteq Nat
       /\ payload.accepts = <<>> \/ 1 \in DOMAIN payload.accepts
       /\ \A n \in DOMAIN payload.accepts : payload.accepts[n] # None
  /\ \A a \in Answers : a.body # None

VARIABLES deployment, rules, answer, call, wire

x402Vars == <<deployment, rules, answer, call, wire>>

FirstRule(names) ==
  LET hits == {n \in DOMAIN names : names[n][2]} IN
  IF hits = {} THEN None ELSE names[CHOOSE n \in hits : \A h \in hits : n <= h][1]

-----------------------------------------------------------------------------
(* Parsing.  A payload has its version as classifyX402Version() sees it, a   *)
(* body-level resource or None, and `accepts`; `sound` stands for the shape  *)
(* rules on sizes, strings, extra and extensions, and a body that is no JSON.  An entry has both         *)
(* protocols' money and binding fields, None where it is absent; an amount   *)
(* that is no positive safe integer is 0.                                    *)

V2Shaped(payload) ==
  \/ payload.resource # None
  \/ \E n \in DOMAIN payload.accepts :
       payload.accepts[n].maxAmountRequired = None /\ payload.accepts[n].amount # None

ParseV1(payload) ==
  FirstRule(<< <<"protocol", payload.version = "invalid">>,
               <<"version", payload.version \in {"2", "future"} \/ V2Shaped(payload)>>,
               <<"protocol", payload.accepts = <<>> \/ ~payload.sound>>,
               <<"protocol", \E n \in DOMAIN payload.accepts :
                   None \in {payload.accepts[n].maxAmountRequired,
                             payload.accepts[n].resource}>> >>)

ParseV2(payload) ==
  FirstRule(<< <<"version", payload.version = "future">>,
               <<"protocol", payload.version # "2" \/ payload.resource = None>>,
               <<"protocol", payload.accepts = <<>> \/ ~payload.sound>>,
               <<"protocol", \E n \in DOMAIN payload.accepts :
                   \/ payload.accepts[n].maxAmountRequired # None
                   \/ payload.accepts[n].resource # None
                   \/ payload.accepts[n].amount = None
                   \/ payload.accepts[n].network.form # "caip">> >>)

Parse(version, payload) == IF version = 2 THEN ParseV2(payload) ELSE ParseV1(payload)

(* The first "exact" scheme, or else the first.                              *)
DefaultSelect(accepts) ==
  LET exact == {n \in DOMAIN accepts : accepts[n].scheme = "exact"} IN
  accepts[IF exact = {} THEN 1 ELSE CHOOSE n \in exact : \A m \in exact : n <= m]

-----------------------------------------------------------------------------
(* The gates, in the order of the code.                                      *)

RecipientUngated ==
  /\ ~deployment.hostOnly
  /\ \E m \in Given(rules.merchants.allow) : m.form = "host"

ChainUngated ==
  ~deployment.chainBlind /\ deployment.assets = None /\ rules.networks.allow = None

RoleRefused(version, req) ==
  version = 2 /\ req.payTo \in RoleNames /\ req.payTo \notin deployment.roles

Claimed(version, payload, req) == IF version = 2 THEN payload.resource ELSE req.resource

OriginMismatch(version, payload, req) ==
  /\ deployment.originMatch
  /\ Claimed(version, payload, req) # deployment.origin

MatchesFolded(version, entry, req) ==   \* mutant
  entry.network = req.network /\ entry.asset.id = req.asset.id

(* v1 folds the case of everything it compares; v2 only of EVM assets.       *)
Matches(version, entry, req) ==
  /\ entry.network = req.network
  /\ entry.asset.id = req.asset.id
  /\ version = 2 /\ req.network.id \notin EvmChains => entry.asset.case = req.asset.case

Listed(version, req) ==
  {n \in DOMAIN deployment.assets : Matches(version, deployment.assets[n], req)}

Unlisted(version, req) == deployment.assets # None /\ Listed(version, req) = {}

Currency(version, req) ==
  IF deployment.assets # None
    THEN deployment.assets[CHOOSE n \in Listed(version, req) :
                             \A m \in Listed(version, req) : n <= m].symbol
  ELSE IF req.symbol # None THEN req.symbol ELSE req.asset.id

Amount(version, req) == IF version = 2 THEN req.amount ELSE req.maxAmountRequired

RequirementToIntent(version, req) ==
  [amount |-> Amount(version, req), currency |-> Currency(version, req), rail |-> "x402",
   network |-> req.network, merchant |-> [id |-> req.payTo, host |-> deployment.origin],
   category |-> None, agent |-> "a1", context |-> None]

Gate(version, payload, req) ==
  FirstRule(<< <<"NETWORK_UNGATED", ChainUngated>>,
               <<"RECIPIENT_UNGATED", RecipientUngated>>,
               <<"PAYTO_ROLE_REFUSED", RoleRefused(version, req)>>,
               <<"RESOURCE_ORIGIN_MISMATCH", OriginMismatch(version, payload, req)>>,
               <<"ASSET_NOT_ALLOWED", Unlisted(version, req)>> >>)

-----------------------------------------------------------------------------
(* wire: what was signed, whether it left, what the guard counted, and what  *)
(* the caller was told, with X402PaymentFailedError.transmitted.             *)

X402Init ==
  /\ deployment \in Deployments /\ rules \in Rules /\ answer \in Answers
  /\ call = [pc |-> "start", version |-> None, req |-> None, intent |-> None, result |-> None]
  /\ wire = [signed |-> None, sent |-> FALSE, counted |-> FALSE, told |-> None,
             transmitted |-> FALSE]

Tell(code, transmitted) ==
  /\ call' = [call EXCEPT !.pc = "done"]
  /\ wire' = [wire EXCEPT !.told = code, !.transmitted = transmitted]

FirstFetch ==
  /\ call.pc = "start"
  /\ IF answer.status = "402" THEN call' = [call EXCEPT !.pc = "first"] /\ UNCHANGED wire
     ELSE Tell(answer.status, FALSE)
  /\ UNCHANGED <<deployment, rules, answer>>

(* A header decides for v2 whatever the body says, even when v2 is not       *)
(* configured; then the whole of the parsing and gating is one step.         *)
Negotiate ==
  LET version == IF answer.header # None THEN 2 ELSE 1
      payload == IF version = 2 THEN answer.header ELSE answer.body
      parsed == IF version = 2 /\ ~deployment.v2 THEN "V2_NOT_CONFIGURED"
                ELSE Parse(version, payload)
      req == DefaultSelect(payload.accepts)
      refusal == IF parsed # None THEN parsed ELSE Gate(version, payload, req) IN
  /\ call.pc = "first"
  /\ \/ /\ refusal # None
        /\ Tell(refusal, FALSE)
     \/ /\ refusal = None
        /\ call' = [call EXCEPT !.pc = "judge", !.version = version, !.req = req,
                                !.intent = RequirementToIntent(version, req)]
        /\ UNCHANGED wire
  /\ UNCHANGED <<deployment, rules, answer>>

(* The guard judges under the policy of this moment and counts before the    *)
(* executor runs; a human may stand in between.                              *)
Judge ==
  LET decision == EvaluatePolicy(call.intent, rules, [total |-> 0, count |-> 0]) IN
  /\ call.pc = "judge"
  /\ \/ decision # "allow" /\ Tell("blocked", FALSE)
     \/ /\ decision # "deny"
        /\ call' = [call EXCEPT !.pc = "pay"]
        /\ wire' = [wire EXCEPT !.counted = TRUE]
  /\ UNCHANGED <<deployment, rules, answer>>

(* The executor throws: the guard answers "failed", and what was counted     *)
(* stays counted.                                                            *)
Fails(sent) ==
  /\ call' = [call EXCEPT !.pc = "finish", !.result = "failed"]
  /\ wire' = [wire EXCEPT !.sent = sent]

Pay ==
  /\ call.pc = "pay"
  /\ \/ call' = [call EXCEPT !.pc = "send"] /\ wire' = [wire EXCEPT !.signed = call.req]
     \/ Fails(FALSE)
  /\ UNCHANGED <<deployment, rules, answer>>

(* The paid request: an answer of any status, or a fetch that throws, before *)
(* the request left or after.                                                *)
Send ==
  /\ call.pc = "send"
  /\ \/ \E result \in {"ok", "error"} :
          /\ call' = [call EXCEPT !.pc = "finish", !.result = result]
          /\ wire' = [wire EXCEPT !.sent = TRUE]
     \/ \E sent \in BOOLEAN : Fails(sent)
  /\ UNCHANGED <<deployment, rules, answer>>

FinishGuardResult ==
  /\ call.pc = "finish"
  /\ CASE call.result = "ok" -> Tell("paid", TRUE)
       [] call.result = "error" -> Tell("failed", TRUE)
       [] call.result = "failed" -> Tell("failed", FALSE)
  /\ UNCHANGED <<deployment, rules, answer>>

SetPolicy ==
  /\ call.pc \notin {"start", "done"}
  /\ rules' \in Rules \ {rules}
  /\ UNCHANGED <<deployment, answer, call, wire>>

X402Next ==
  FirstFetch \/ Negotiate \/ Judge \/ Pay \/ Send \/ FinishGuardResult \/ SetPolicy

X402Spec == X402Init /\ [][X402Next]_x402Vars
-----------------------------------------------------------------------------
(* The identity of a token in the world (external).                          *)
Token(network, asset) ==
  <<network, asset.id, IF network.id \in EvmChains THEN 0 ELSE asset.case>>

(* What the guard judged is what was signed: recipient, chain, a real amount *)
(* and, with a registry, the very token the registry trusts under the        *)
(* symbol the policy saw (v1 off EVM excepted, where the code says it folds  *)
(* case).  And the server's header, when there is one, is what was paid.     *)
PolicySawWhatWasSigned ==
  LET req == wire.signed
      seen == call.intent IN
  req # None =>
    /\ seen.merchant.id = req.payTo /\ seen.network = req.network
    /\ seen.amount = Amount(call.version, req) /\ seen.amount > 0
    /\ call.version = 2 <=> answer.header # None
    /\ deployment.assets # None /\ (call.version = 2 \/ req.network.id \in EvmChains) =>
         \E n \in DOMAIN deployment.assets :
           /\ Token(deployment.assets[n].network, deployment.assets[n].asset)
                = Token(req.network, req.asset)
           /\ deployment.assets[n].symbol = seen.currency

(* Whatever left with an authorization stays counted against the caps, even  *)
(* if the fetch then threw; a refusal, of the adapter or the guard, signed   *)
(* and counted nothing.                                                      *)
SentIsCounted ==
  /\ wire.sent => wire.signed # None /\ wire.counted
  /\ wire.told \notin {None, "paid", "failed"} => wire.signed = None /\ ~wire.counted

(* Between the offer of a server and the signature nothing changes that the  *)
(* guard judged, and what may have been paid is in its books.                *)
PaidAsJudged == PolicySawWhatWasSigned /\ SentIsCounted
=============================================================================
