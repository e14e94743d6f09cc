---------------------------- MODULE MCJudgement ----------------------------
(* How one payment is judged, and what two rails do with the judgement: the  *)
(* policy engine, the risk scorecard, the verification of a mandate, the x402 *)
(* fetch adapter and the guarded signer.  Each behaviour follows one of them. *)
EXTENDS MandateCheck, RiskScorecard, X402Fetch, GuardedSigner

VARIABLE focus

MCVars == <<policyVars, checkVars, riskVars, x402Vars, signerVars, focus>>

MCAliases == "base" :> "8453" @@ "sepolia" :> "84532"
Net(form, id, zeros) == [form |-> form, id |-> id, zeros |-> zeros]
MCSpellings == {Net("caip", "8453", 0), Net("caip", "8453", 1), Net("bare", "base", 0),
                Net("bare", "solana", 0), Net("malformed", "8453", 0), Net("absent", "", 0)}
Host(labels) == [form |-> "host", value |-> labels]
MCPatterns == {Host(<<"com", "shop">>), Host(<<>>), [form |-> "id", value |-> "m1"]}
Merchant(id, host) == [id |-> id, host |-> host]

Payment(n, m, network, category) ==
  [amount |-> n, currency |-> "USD", rail |-> "x402", network |-> network, merchant |-> m,
   category |-> category, agent |-> "a1", context |-> None]

MCIntents ==
  {Payment(n, m, network, "food") :
     n \in 0..1, network \in MCSpellings,
     m \in {Merchant("m1", <<"com", "shop", "api">>), Merchant("m2", None)}}
  \cup {Payment(2, Merchant("m2", <<"com", "shop2">>), Net("caip", "8453", 0), None)}

Open ==
  [networks |-> [allow |-> None, block |-> None], merchants |-> [allow |-> None, block |-> None],
   categories |-> [allow |-> None, block |-> None], rails |-> None, currency |-> "USD",
   expiry |-> "none", perTxn |-> None, perDay |-> None, maxTransactions |-> {},
   maxPerMerchant |-> {}, above |-> None, always |-> FALSE]

MCPolicies ==
  {Open, [Open EXCEPT !.expiry = "unparseable"],
   [Open EXCEPT !.networks = [allow |-> {Net("caip", "8453", 0)}, block |-> {}]],
   [Open EXCEPT !.networks.block = {Net("bare", "base", 0)}, !.maxPerMerchant = {1}],
   [Open EXCEPT !.merchants.allow = MCPatterns, !.perTxn = 1, !.rails = {"x402"}],
   [Open EXCEPT !.categories.allow = {"food"}, !.perDay = 2, !.above = 1]}

MCSpent == {[total |-> 0, count |-> 0], [total |-> 1, count |-> 1]}

-----------------------------------------------------------------------------
MCContext == [agent |-> "a1", merchant |-> "m1"]

MCConstraints ==
  [from |-> 1, expires |-> 3, maxUses |-> 1, agent |-> "a1", currency |-> "USD", max |-> 1,
   merchants |-> {Host(<<"com", "shop">>)}, categories |-> {}, context |-> MCContext]

MCCovered ==
  [Payment(1, Merchant("m1", <<"com", "shop">>), Net("absent", "", 0), "food")
     EXCEPT !.context = MCContext]

MCScope == [constraints |-> MCConstraints, intent |-> MCCovered, revoked |-> FALSE,
            now |-> 1, uses |-> 0]

MCScopes ==
  {MCScope, [MCScope EXCEPT !.revoked = TRUE], [MCScope EXCEPT !.now = 3],
   [MCScope EXCEPT !.uses = 1], [MCScope EXCEPT !.intent.amount = 2]}

Sig(k, over) == [by |-> k, over |-> over, bytes |-> 64]

Presented(v, algs, s, q) ==
  [v |-> v, alg |-> Ed, algs |-> algs, fields |-> TRUE, kid |-> "ed2", sig |-> s,
   pqKid |-> "pq1", pqSig |-> q]

Pq(over, bytes) == [by |-> "pq1", over |-> over, bytes |-> bytes]
Genuine == Presented(2, <<Ed, MlDsa>>, Sig("ed2", "v2"), Pq("v2", 2420))

MCForeign ==
  {Presented(v, algs, s, q) :
     v \in 1..2, algs \in {<<Ed, MlDsa>>, <<Ed>>},
     s \in {Sig("ed2", "v1"), Sig("ed2", "v2"), Sig("ed1", "v1")},
     q \in {Pq("v2", 2420), Pq("v2", 2419), Pq("other", 2420)}}
  \cup {[Genuine EXCEPT !.v = 3], [Genuine EXCEPT !.fields = FALSE]}

-----------------------------------------------------------------------------
MCRiskIntents ==
  {[id |-> "i1", merchant |-> "m1", amount |-> 1, mandate |-> "g1"],
   [id |-> "i2", merchant |-> "m2", amount |-> 3, mandate |-> "none"]}

(* Every signal, a velocity and a denial window, a lookback.                 *)
RiskConfig(lookback, velocity, signals, tiers) ==
  [weight |-> [s \in Signals |-> IF s \in signals THEN 1 ELSE 0],
   limit |-> [s \in Signals |-> 2],
   window |-> [s \in Windowed |-> velocity],
   lookback |-> lookback, stepUpAt |-> tiers[1], denyAt |-> tiers[2], autoFreeze |-> 0,
   minHistory |-> 2]

MCRiskConfigs ==
  {RiskConfig(lookback, velocity, signals, tiers) :
     lookback \in {0, 2, 4}, velocity \in {1, 3}, tiers \in {<<1, 3>>, <<3, 1>>},
     signals \in {Signals, {"VELOCITY_BURST", "DENY_STREAK"}, {}}}

-----------------------------------------------------------------------------
Base == Net("bare", "base", 0)
Base2 == Net("caip", "8453", 0)
Solana == Net("caip", "solana", 0)
Shop == <<"com", "shop">>
IdOf(x) == [form |-> "id", value |-> x]

MCOpen ==
  [networks |-> [allow |-> None, block |-> None], merchants |-> [allow |-> None, block |-> None],
   categories |-> [allow |-> None, block |-> None], rails |-> None, currency |-> "USDC",
   expiry |-> "none", perTxn |-> 2, perDay |-> None, maxTransactions |-> {},
   maxPerMerchant |-> {}, above |-> None, always |-> FALSE]

MCRules ==
  {MCOpen, [MCOpen EXCEPT !.networks.allow = {Base2, Solana}, !.merchants.allow = {IdOf("0xm")}],
   [MCOpen EXCEPT !.merchants.allow = {[form |-> "host", value |-> Shop]}, !.above = 1]}

Usdc(case) == [id |-> "usdc", case |-> case]

MCDeployments ==
  {[chainBlind |-> blind, hostOnly |-> FALSE, originMatch |-> TRUE, origin |-> Shop,
    assets |-> assets, v2 |-> v2, roles |-> {}] :
     blind \in BOOLEAN, v2 \in BOOLEAN,
     assets \in {None, <<[network |-> Base, asset |-> Usdc(0), symbol |-> "USDC"],
                         [network |-> Base2, asset |-> Usdc(0), symbol |-> "USDC"],
                         [network |-> Solana, asset |-> Usdc(0), symbol |-> "USDC"]>>}}

Entry1(network, case, n, payTo, resource) ==
  [scheme |-> "exact", network |-> network, asset |-> Usdc(case), payTo |-> payTo,
   symbol |-> "USDC", maxAmountRequired |-> n, amount |-> None, resource |-> resource]

Entry2(network, case, n, payTo) ==
  [scheme |-> "exact", network |-> network, asset |-> Usdc(case), payTo |-> payTo,
   symbol |-> "USDC", maxAmountRequired |-> None, amount |-> n, resource |-> None]

Body(version, accepts) ==
  [version |-> version, resource |-> None, accepts |-> accepts, sound |-> TRUE]
Header(version, accepts) == [Body(version, accepts) EXCEPT !.resource = Shop]
NoBody == [version |-> "absent", resource |-> None, accepts |-> <<>>, sound |-> FALSE]

MCHeaders ==
  {Header("2", <<Entry2(network, case, n, payTo)>>) :
     network \in {Base2, Solana}, case \in 0..1, n \in {0, 1, 3}, payTo \in {"0xm", "0xe"}}
  \cup {Header("1", <<Entry2(Base2, 0, 1, "0xm")>>), Header("future", <<>>),
        Header("2", <<[Entry2(Base2, 0, 1, "0xm") EXCEPT !.maxAmountRequired = 2]>>),
        Header("2", <<Entry2(Base2, 0, 1, "merchant")>>)}

MCBodies ==
  {Body("1", <<Entry1(Base, case, n, payTo, Shop)>>) : case \in 0..1, n \in {0, 1}, payTo \in {"0xm", "0xe"}}
  \cup {Body("absent", <<[Entry1(Base, 0, 1, "0xm", Shop) EXCEPT !.scheme = "upto"],
                         Entry1(Base, 0, 2, "0xm", Shop)>>),
        Body("1", <<Entry1(Base, 0, 1, "0xm", <<"com", "other">>)>>),
        Body("2", <<Entry1(Base, 0, 1, "0xm", Shop)>>), Header("1", <<Entry1(Base, 0, 1, "0xm", Shop)>>)}

MCAnswers ==
  {[status |-> "200", header |-> None, body |-> NoBody]}
  \cup {[status |-> "402", header |-> None, body |-> b] : b \in MCBodies \cup {NoBody}}
  \cup {[status |-> "402", header |-> h, body |-> b] :
          h \in MCHeaders, b \in {NoBody, Body("1", <<Entry1(Base, 0, 1, "0xm", Shop)>>)}}

-----------------------------------------------------------------------------
MCRegistry ==
  <<"8453", "usdc">> :> [symbol |-> "USDC", decimals |-> 1]
    @@ <<"84532", "usdc">> :> [symbol |-> "USDC", decimals |-> 0]

Declared(receiver) == [receiver |-> receiver, salt |-> 0]
MCDeclarations == {Declared("0xm"), Declared("0xe")}
Plain == [receiver |-> "none", salt |-> 1]

Transfer(to, value, nonce) ==
  [primaryType |-> "TransferWithAuthorization",
   declares |-> Shapes["TransferWithAuthorization"],
   message |-> [chain |-> "8453", token |-> "usdc", from |-> "0xw", to |-> to, value |-> value,
                validAfter |-> 0, validBefore |-> 2, nonce |-> nonce]]

Permit(to, spender) ==
  [primaryType |-> "PermitWitnessTransferFrom",
   declares |-> Shapes["PermitWitnessTransferFrom"],
   message |-> [chain |-> "8453", permit2 |-> "p2", token |-> "usdc", value |-> 10,
                spender |-> spender, nonce |-> Plain, validBefore |-> 2, to |-> to]]

MCTypedData ==
  {Transfer("0xm", 60, Plain), [Transfer("0xm", 10, Plain) EXCEPT !.message.validBefore = 6],
   Transfer("0xm", 11, Plain), Transfer("0xm", 20, Plain), Transfer("0xe", 10, Plain),
   Transfer("collector", 10, Declared("0xm")), Transfer("collector", 10, Declared("0xe")),
   [Transfer("0xm", 10, Plain) EXCEPT !.declares = @ \ {"to"}],
   [Transfer("0xe", 10, Plain) EXCEPT !.declares = @ \ {"to"}],
   [Transfer("0xm", 10, Plain) EXCEPT !.message.chain = "1"],
   Permit("0xm", "0xs"), Permit("0xm", "0xe"),
   [Transfer("0xm", 10, Plain) EXCEPT !.primaryType = "Permit"]}

MCSignerPolicy ==
  [MCOpen EXCEPT !.merchants.allow = {IdOf("0xm")}, !.networks.allow = {Base2}, !.perDay = 3,
                 !.perTxn = None]

-----------------------------------------------------------------------------
MCInit ==
  /\ focus \in {"policy", "mandate", "risk", "x402", "signer"}
  /\ IF focus = "policy" THEN PolicyInit
     ELSE /\ request = CHOOSE r \in [intent : MCIntents, spent : MCSpent] : TRUE
          /\ policy = Open /\ verdict = "allow" /\ edits = 0
  /\ IF focus = "risk" THEN TRUE ELSE config = RiskConfig(4, 1, Signals, <<1, 3>>)
  /\ IF focus = "x402" THEN TRUE
     ELSE /\ deployment = CHOOSE d \in Deployments : TRUE
          /\ rules = MCOpen
          /\ answer = [status |-> "200", header |-> None, body |-> NoBody]
  /\ CheckInit /\ RiskInit /\ X402Init /\ SignerInit

MCNext ==
  /\ UNCHANGED focus
  /\ \/ /\ focus = "policy" /\ PolicyNext
        /\ UNCHANGED <<checkVars, riskVars, x402Vars, signerVars>>
     \/ /\ focus = "mandate" /\ CheckNext
        /\ UNCHANGED <<policyVars, riskVars, x402Vars, signerVars>>
     \/ /\ focus = "risk" /\ RiskNext
        /\ UNCHANGED <<policyVars, checkVars, x402Vars, signerVars>>
     \/ /\ focus = "x402" /\ X402Next
        /\ UNCHANGED <<policyVars, checkVars, riskVars, signerVars>>
     \/ /\ focus = "signer" /\ SignerNext
        /\ UNCHANGED <<policyVars, checkVars, riskVars, x402Vars>>

MCSpec == MCInit /\ [][MCNext]_MCVars
=============================================================================
