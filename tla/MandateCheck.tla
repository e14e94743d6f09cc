---------------------------- MODULE MandateCheck ----------------------------
(* What MandateManager accepts and signs (guard/src/mandate: mandate.ts,     *)
(* hybrid.ts, pq.ts, signer.ts): how a manager is constructed, how it signs, *)
(* and how it verifies version, algorithms, keys, signatures and scope.      *)
(* Signatures are ideal: one is [by, over], the key that made it and the     *)
(* payload it covers, and it verifies under that key and payload alone.      *)
(* A v1 and a v2 payload of the same mandate differ by their domain tag.     *)
EXTENDS PolicyEngine

CONSTANTS
  EdKey, PqKey,   \* key pairs
  Scopes,         \* a presented intent against the mandate's constraints
  Foreign         \* mandates written elsewhere

(* A v2 mandate carries a second signature, right or wrong.                  *)
ASSUME ForeignAssumption ==
  \A x \in Foreign : x.v = 2 =>
    x.pqSig = [by |-> x.pqSig.by, over |-> x.pqSig.over, bytes |-> x.pqSig.bytes]

VARIABLES
  manager,   \* the MandateManager, or None before or without construction
  mandate,   \* the mandate under scrutiny, or None
  issuedHere,
  check      \* the code of the last check, or None

checkVars == <<manager, mandate, issuedHere, check>>

Ed == "Ed25519"
MlDsa == "ML-DSA-44"

(* The first rule that does not hold names the refusal.                      *)
FirstOf(rules) ==
  LET hits == {n \in DOMAIN rules : rules[n][2]} IN
  IF hits = {} THEN "OK" ELSE rules[CHOOSE n \in hits : \A h \in hits : n <= h][1]

-----------------------------------------------------------------------------
(* The constructor.  cfg.sign is the key of the signer or of privateKeyPem;  *)
(* cfg.two when both are passed; a PQ key pair is named by its public half,  *)
(* cfg.pqSign the key behind mlDsa44PrivateKeyPem.                           *)

Buildable(cfg) ==
  /\ ~cfg.two
  /\ cfg.sign # None /\ cfg.pub # None => cfg.pub = cfg.sign
  /\ cfg.sign # None \/ cfg.pub # None
  /\ cfg.require \subseteq {Ed, MlDsa}
  /\ cfg.pqSign # None => cfg.pqPub # None /\ cfg.native

VerifyKeys(cfg) == cfg.extra \cup {IF cfg.pub # None THEN cfg.pub ELSE cfg.sign}

Built(cfg) ==
  [sign |-> cfg.sign, kid |-> IF cfg.pub # None THEN cfg.pub ELSE cfg.sign,
   verify |-> VerifyKeys(cfg),
   pqSign |-> cfg.pqSign, pqKid |-> cfg.pqPub,
   pqVerify |-> cfg.pqExtra \cup (IF cfg.pqPub = None THEN {} ELSE {cfg.pqPub}),
   native |-> cfg.native, require |-> cfg.require]

-----------------------------------------------------------------------------
(* checkedSign(): whatever the signer does, only 64 bytes that verify over   *)
(* the original message under the key frozen at construction come out.  A    *)
(* signer may rotate its key, sign something else, return other bytes,       *)
(* reject, or miss the deadline.                                             *)
SignerAnswers(k, message) ==
  [by : EdKey, over : {message, "other"}, bytes : {64}]
    \cup {[by |-> k, over |-> message, bytes |-> 63], None}

Verifies(sig, k, message) == sig # None /\ sig.by = k /\ sig.over = message

CheckedSign(k, message) ==
  {sig \in SignerAnswers(k, message) :
     /\ sig # None
     /\ sig.bytes = 64
     /\ Verifies(sig, k, message)}

PqSign(m, message) ==
  {sig \in {[by |-> m.pqSign, over |-> message, bytes |-> n] : n \in {2420, 2419}} :
     sig.bytes = 2420 /\ Verifies(sig, m.pqKid, message)}

(* issue() and issueHybrid(): the mandates they may emit; none when a step   *)
(* throws.                                                                   *)
V1(m) ==
  {[v |-> 1, alg |-> Ed, algs |-> <<>>, fields |-> TRUE, kid |-> m.kid, sig |-> s, pqKid |-> None, pqSig |-> None] :
     s \in CheckedSign(m.kid, "v1")}

V2(m) ==
  {[v |-> 2, alg |-> Ed, algs |-> <<Ed, MlDsa>>, fields |-> TRUE, kid |-> m.kid, sig |-> s, pqKid |-> m.pqKid, pqSig |-> q] :
     s \in CheckedSign(m.kid, "v2"), q \in PqSign(m, "v2")}

-----------------------------------------------------------------------------
(* checkStateV1(), checkStateV2().                                           *)

SignatureV1(m, x) ==
  FirstOf(<< <<"VERSION_UNSUPPORTED", x.v # 1>>,
             <<"ALG_UNSUPPORTED", x.alg # Ed>>,
             <<"ALG_REQUIREMENT_NOT_MET", ~(m.require \subseteq {Ed})>>,
             <<"KEY_UNKNOWN", x.kid \notin m.verify>>,
             <<"SIGNATURE_INVALID", ~Verifies(x.sig, x.kid, "v1")>> >>)

(* checkMandateV2Structure(): the exact suite in its order, one signature of *)
(* the exact length for each, kids and other fields of the right shape.      *)
WellFormed(x) ==
  /\ x.v = 2 /\ x.algs = <<Ed, MlDsa>>
  /\ x.sig.bytes = 64 /\ x.pqSig.bytes = 2420
  /\ x.fields

PqOptional(m, x) == "OK"   \* mutant

PqHalf(m, x) ==
  LET required == MlDsa \in m.require IN
  FirstOf(<< <<"ALG_REQUIREMENT_NOT_MET", ~m.native /\ required>>,
             <<"KEY_UNKNOWN", m.native /\ x.pqKid \notin m.pqVerify /\ required>>,
             <<"SIGNATURE_INVALID", m.native /\ x.pqKid \in m.pqVerify
                                      /\ ~Verifies(x.pqSig, x.pqKid, "v2")>> >>)

SignatureV2(m, x) ==
  LET classical == FirstOf(<< <<"MALFORMED", ~WellFormed(x)>>,
                              <<"KEY_UNKNOWN", x.kid \notin m.verify>>,
                              <<"SIGNATURE_INVALID", ~Verifies(x.sig, x.kid, "v2")>> >>) IN
  IF classical = "OK" THEN PqHalf(m, x) ELSE classical

(* checkStateShared(): a scope is the mandate's constraints beside the       *)
(* intent presented under them and the state of both at this instant.        *)

(* The context object must be the approved one, and an agent or a merchant   *)
(* it names must be the intent's.                                            *)
ContextMismatch(c, i) ==
  /\ c.context # None
  /\ \/ i.context # c.context
     \/ c.context.agent \notin {None, i.agent}
     \/ c.context.merchant \notin {None, i.merchant.id}

Scope(s) ==
  LET c == s.constraints
      i == s.intent IN
  FirstOf(<< <<"REVOKED", s.revoked>>,
             <<"TIME_UNPARSEABLE", c.from = None \/ c.expires = None>>,
             <<"NOT_YET_VALID", c.from # None /\ c.expires # None /\ s.now < c.from>>,
             <<"EXPIRED", c.from # None /\ c.expires # None /\ s.now >= c.expires>>,
             <<"USES_EXHAUSTED", s.uses >= c.maxUses>>,
             <<"AGENT_MISMATCH", c.agent # i.agent>>,
             <<"CURRENCY_MISMATCH", c.currency # i.currency>>,
             <<"AMOUNT_EXCEEDS_MANDATE", i.amount > c.max>>,
             <<"MERCHANT_NOT_COVERED", c.merchants # {} /\ \A p \in c.merchants : ~MerchantMatches(i, p)>>,
             <<"CATEGORY_NOT_COVERED", c.categories # {} /\ i.category \notin c.categories>>,
             <<"CONTEXT_MISMATCH", ContextMismatch(c, i)>> >>)

CheckState(m, x, s) ==
  LET signature == IF x.v = 2 THEN SignatureV2(m, x) ELSE SignatureV1(m, x) IN
  IF signature = "OK" THEN Scope(s) ELSE signature

-----------------------------------------------------------------------------
CheckInit ==
  manager = None /\ mandate = None /\ issuedHere = FALSE /\ check = None

Construct(cfg) ==
  /\ manager = None /\ Buildable(cfg)
  /\ manager' = Built(cfg)
  /\ UNCHANGED <<mandate, issuedHere, check>>

IssueOne ==
  /\ manager # None /\ manager.sign # None /\ mandate = None
  /\ mandate' \in V1(manager) \cup (IF manager.pqSign = None THEN {} ELSE V2(manager))
  /\ issuedHere' = TRUE
  /\ UNCHANGED <<manager, check>>

Present ==
  /\ manager # None /\ mandate = None
  /\ mandate' \in Foreign /\ issuedHere' = FALSE
  /\ UNCHANGED <<manager, check>>

CheckOne(s) ==
  /\ mandate # None /\ check = None
  /\ check' = <<CheckState(manager, mandate, s), s>>
  /\ UNCHANGED <<manager, mandate, issuedHere>>

Configs ==
  [sign : EdKey \cup {None}, pub : EdKey \cup {None}, two : BOOLEAN, extra : {{}, EdKey},
   pqSign : PqKey \cup {None}, pqPub : PqKey \cup {None}, pqExtra : {{}, PqKey},
   native : BOOLEAN, require : SUBSET {Ed, MlDsa, "ml-dsa-44"}]

CheckNext ==
  \/ \E cfg \in Configs : Construct(cfg)
  \/ IssueOne \/ Present
  \/ \E s \in Scopes : CheckOne(s)

CheckSpec == CheckInit /\ [][CheckNext]_checkVars
-----------------------------------------------------------------------------
(* What a manager issues it can verify itself, whatever its signer returned  *)
(* and however its keys were configured: nothing it emits is refused for a   *)
(* key it does not hold, a bad signature or a malformed field.               *)
IssuedVerifies ==
  issuedHere /\ check # None =>
    check[1] \notin {"VERSION_UNSUPPORTED", "ALG_UNSUPPORTED", "KEY_UNKNOWN",
                     "SIGNATURE_INVALID", "MALFORMED"}

(* An accepted mandate is authentic under everything the verifier demands:   *)
(* the key it names signed this very payload of this version, and with       *)
(* ML-DSA-44 required a held ML-DSA key did too, on every runtime.           *)
AcceptedIsAuthentic ==
  check # None /\ check[1] = "OK" =>
    /\ mandate.kid \in manager.verify /\ mandate.sig.by = mandate.kid
    /\ mandate.sig.over = IF mandate.v = 1 THEN "v1" ELSE "v2"
    /\ MlDsa \in manager.require =>
         /\ mandate.pqKid \in manager.pqVerify
         /\ mandate.pqSig = [by |-> mandate.pqKid, over |-> "v2", bytes |-> 2420]

(* What verify() of a mandate means, for its issuer and for its reader.       *)
SignaturesHold == IssuedVerifies /\ AcceptedIsAuthentic
=============================================================================
