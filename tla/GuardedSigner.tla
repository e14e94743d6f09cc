---------------------------- MODULE GuardedSigner ----------------------------
(* guardedSigner() of cloudflare/src/guarded-signer.ts, and the remote end   *)
(* of signer-host.ts: an account that signs typed data only when the guard   *)
(* has judged and counted the payment the signed bytes authorize.  The       *)
(* argument is snapshotted on entry, so what a caller does to its object     *)
(* while a resolver, the guard or the account is awaited changes nothing.  A *)
(* digest is the committed fields themselves, and a derived auth-capture     *)
(* nonce is the declaration it was derived from.                             *)
EXTENDS PolicyEngine

CONSTANTS
  Caller, Remote,   \* signTypedData() calls, and those made over a transport
  TypedData,        \* objects a caller may present
  Declarations,     \* PaymentInfos resolveAuthCapture() may return
  Wallet,           \* the account's address
  Collectors, Spenders,   \* authCaptureCollectors, permit2Spenders
  Registry,         \* <<chain, token>> -> [symbol, decimals]
  MinorDecimals,    \* currencyDecimals, or None
  MaxMinor,         \* Number.MAX_SAFE_INTEGER
  MaxValidity,      \* maxValiditySeconds, or None
  Now,
  SignerPolicy      \* the policy of the guard

(* Amounts and decimals are what the parsers of the source let through: a    *)
(* value that is no integer is None, and a token has whole decimals.         *)
ASSUME SignerAssumption ==
  /\ \A e \in DOMAIN Registry : Registry[e].decimals \in Nat
  /\ MinorDecimals \in Nat \cup {None}
  /\ \A td \in TypedData : td.message.value \in Nat \cup {None}

VARIABLES
  job,        \* by caller, its current call: [pc, snap, payee, told]
  reserved,   \* by digest: the guard's reservation, [state, intent]
  signatures  \* the digests a signature exists for, wherever it is

signerVars == <<job, reserved, signatures>>

Shapes ==
  [TransferWithAuthorization |->
     {"chain", "token", "from", "to", "value", "validAfter", "validBefore", "nonce"},
   PermitWitnessTransferFrom |->
     {"chain", "permit2", "token", "value", "spender", "nonce", "validBefore", "to"}]

(* hashTypedData(): the primary type, the fields the declared types list,    *)
(* and nothing else.                                                         *)
Digest(td) == <<td.primaryType, [f \in td.declares |-> td.message[f]]>>

-----------------------------------------------------------------------------
(* extractPayment() and the refusals before anything is awaited.             *)

Recognized(td) ==
  /\ td.primaryType \in DOMAIN Shapes
  /\ \A f \in {"chain", "token", "to", "nonce"} : td.message[f] # None

(* missingCommitment(), missingDomainCommitment(): every field that is read  *)
(* must be one the signature commits to.                                     *)
Committed(td) == Shapes[td.primaryType] \subseteq td.declares

IsPermit(td) == td.primaryType = "PermitWitnessTransferFrom"

Collector(td) ==
  IF IsPermit(td) /\ td.message.spender \in Collectors THEN td.message.spender
  ELSE IF td.message.to \in Collectors THEN td.message.to ELSE None

(* An unrecognized struct naming a collector is refused under another code.  *)
TooLong(td) ==
  LET from == IF ~IsPermit(td) /\ td.message.validAfter > 0 THEN td.message.validAfter ELSE Now IN
  MaxValidity # None /\ td.message.validBefore - from > MaxValidity

Admitted(td) ==
  /\ Recognized(td) /\ Committed(td)
  /\ ~IsPermit(td) => td.message.from = Wallet
  /\ td.message.validBefore # None =>
       td.message.validBefore > Now /\ ~TooLong(td)
  /\ IsPermit(td) => td.message.spender \in Spenders

-----------------------------------------------------------------------------
(* The amount in the policy's minor units, rounded up; 0, which the policy   *)
(* refuses, when it is not an integer or the token is not registered.        *)

Pow10(n) == IF n = 0 THEN 1 ELSE IF n = 1 THEN 10 ELSE 100

ScaleToMinor(atomic, from, to) ==
  IF to >= from THEN atomic * Pow10(to - from)
  ELSE (atomic + Pow10(from - to) - 1) \div Pow10(from - to)

Known(td) == <<td.message.chain, td.message.token>> \in DOMAIN Registry

Entry(td) == Registry[<<td.message.chain, td.message.token>>]

Granularities(symbol) == {Registry[e].decimals : e \in {d \in DOMAIN Registry : Registry[d].symbol = symbol}}

Ambiguous(td) ==
  Known(td) /\ MinorDecimals = None /\ Cardinality(Granularities(Entry(td).symbol)) > 1

AmountMinor(td) ==
  IF ~Known(td) \/ td.message.value = None THEN 0
  ELSE ScaleToMinor(td.message.value, Entry(td).decimals,
                    IF MinorDecimals # None THEN MinorDecimals ELSE Entry(td).decimals)

(* AMBIGUOUS_CURRENCY_DECIMALS, AMOUNT_NOT_REPRESENTABLE.                    *)
Unscalable(td) == Ambiguous(td) \/ AmountMinor(td) > MaxMinor

IntentOf(td, payee) ==
  [amount |-> AmountMinor(td), currency |-> IF Known(td) THEN Entry(td).symbol ELSE "UNKNOWN",
   rail |-> "x402", network |-> [form |-> "caip", id |-> td.message.chain, zeros |-> 0],
   merchant |-> [id |-> payee, host |-> None], category |-> None, agent |-> "a1",
   context |-> None]

-----------------------------------------------------------------------------
SignerInit ==
  /\ job = [c \in Caller |-> [pc |-> "new", snap |-> None, payee |-> None, told |-> None]]
  /\ reserved = <<>> /\ signatures = {}

(* Done with an answer; a remote caller's answer has the way back to go.     *)
Replies(c, told) ==
  job' = [job EXCEPT ![c].pc = IF c \in Remote THEN "back" ELSE "done", ![c].told = told]

Starts(c, td, pc, payee) ==
  job' = [job EXCEPT ![c] = [pc |-> pc, snap |-> td, payee |-> payee, told |-> None]]

(* A call, the caller's first or a later one.  The snapshot is taken first,  *)
(* and everything is read from it.  A refusal is audited as an intent of     *)
(* amount 0, which no guard authorizes.                                      *)
Receive(c) ==
  /\ job[c].pc \in {"new", "done"}
  /\ \E td \in TypedData :
       \/ /\ ~Admitted(td) \/ (Collector(td) = None /\ Unscalable(td))
          /\ job' = [job EXCEPT ![c] = [pc |-> IF c \in Remote THEN "back" ELSE "done",
                                       snap |-> td, payee |-> None, told |-> "refused"]]
       \/ /\ Admitted(td) /\ Collector(td) = None /\ ~Unscalable(td)
          /\ Starts(c, td, "authorize", td.message.to)
       \/ /\ Admitted(td) /\ Collector(td) # None
          /\ Starts(c, td, "resolve", None)
  /\ UNCHANGED <<reserved, signatures>>

(* The declaration counts only if the nonce being signed derives from it.    *)
Derives(td, declared) == declared # None /\ td.message.nonce = declared

Resolve(c) ==
  LET td == job[c].snap IN
  /\ job[c].pc = "resolve"
  /\ \E declared \in Declarations \cup {None} :
       IF /\ td.message.value # None /\ td.message.validBefore # None
          /\ Derives(td, declared) /\ ~Unscalable(td)
         THEN job' = [job EXCEPT ![c].pc = "authorize", ![c].payee = declared.receiver]
         ELSE Replies(c, "refused")
  /\ UNCHANGED <<reserved, signatures>>

Spend(digest) == reserved[digest].intent.amount

Reserved == FoldSet(LAMBDA d, sum : sum + Spend(d), 0, DOMAIN reserved)

(* guard.authorize() under the id of the digest (external, see Guard): the   *)
(* policy first, and a reservation that is there already is a replay.        *)
Authorize(c) ==
  LET td == job[c].snap
      id == Digest(td)
      intent == IntentOf(td, job[c].payee)
      spent == [total |-> Reserved, count |-> Cardinality(DOMAIN reserved)] IN
  /\ job[c].pc = "authorize"
  /\ IF EvaluatePolicy(intent, SignerPolicy, spent) # "allow"
       THEN Replies(c, "refused") /\ UNCHANGED reserved
     ELSE IF id \notin DOMAIN reserved
       THEN /\ reserved' = [d \in DOMAIN reserved \cup {id} |->
                 IF d = id THEN [state |-> "reserved", intent |-> intent] ELSE reserved[d]]
            /\ job' = [job EXCEPT ![c].pc = "sign"]
     ELSE IF reserved[id].state = "committed"
       THEN job' = [job EXCEPT ![c].pc = "resign"] /\ UNCHANGED reserved
     ELSE Replies(c, "unresolved") /\ UNCHANGED reserved
  /\ UNCHANGED signatures

(* account.signTypedData(), which may throw.                                 *)
Sign(c) ==
  /\ job[c].pc = "sign"
  /\ \/ /\ signatures' = signatures \cup {Digest(job[c].snap)}
        /\ job' = [job EXCEPT ![c].pc = "settle"]
     \/ job' = [job EXCEPT ![c].pc = "release"] /\ UNCHANGED signatures
  /\ UNCHANGED reserved

SettleInsideTry(c) ==   \* mutant
  LET id == Digest(job[c].snap) IN
  /\ job[c].pc = "settle"
  /\ \/ reserved' = [reserved EXCEPT ![id].state = "committed"] /\ Replies(c, "signed")
     \/ UNCHANGED reserved /\ job' = [job EXCEPT ![c].pc = "release"]
  /\ UNCHANGED signatures

(* A settle that fails leaves the reservation unresolved.                    *)
Settle(c) ==
  LET id == Digest(job[c].snap) IN
  /\ job[c].pc = "settle"
  /\ \/ reserved' = [reserved EXCEPT ![id].state = "committed"] /\ Replies(c, "signed")
     \/ UNCHANGED reserved /\ Replies(c, "failed")
  /\ UNCHANGED signatures

(* settle(failed) and releaseSpend(), which may throw or fail silently; a    *)
(* committed spend is never released.                                        *)
Release(c) ==
  LET id == Digest(job[c].snap) IN
  /\ job[c].pc = "release"
  /\ \/ /\ id \in DOMAIN reserved /\ reserved[id].state = "reserved"
        /\ reserved' = [d \in DOMAIN reserved \ {id} |-> reserved[d]]
     \/ UNCHANGED reserved
  /\ Replies(c, "failed")
  /\ UNCHANGED signatures

(* A replay of what was signed signs the same bytes again and counts nothing. *)
SignAgain(c) ==
  /\ job[c].pc = "resign"
  /\ \/ signatures' = signatures \cup {Digest(job[c].snap)} /\ Replies(c, "signed")
     \/ Replies(c, "failed") /\ UNCHANGED signatures
  /\ UNCHANGED reserved

-----------------------------------------------------------------------------
(* remoteSigner(): the transport fails on the way there or back.              *)
TransportFails(c) ==
  /\ c \in Remote
  /\ \/ /\ job[c].pc \in {"new", "done"}
        /\ \E td \in TypedData :
             job' = [job EXCEPT ![c] = [pc |-> "done", snap |-> td, payee |-> None,
                                        told |-> "noSignatureExists"]]
     \/ /\ job[c].pc = "back"
        /\ job' = [job EXCEPT ![c].pc = "done", ![c].told = "noSignatureExists"]
  /\ UNCHANGED <<reserved, signatures>>

Return(c) ==
  /\ job[c].pc = "back"
  /\ job' = [job EXCEPT ![c].pc = "done"]
  /\ UNCHANGED <<reserved, signatures>>

SignerNext ==
  \E c \in Caller :
    \/ Receive(c) \/ Resolve(c) \/ Authorize(c) \/ Sign(c) \/ Settle(c)
    \/ Release(c) \/ SignAgain(c) \/ TransportFails(c) \/ Return(c)

SignerSpec == SignerInit /\ [][SignerNext]_signerVars
-----------------------------------------------------------------------------
(* Whom, where and how much a message moves, in the world (external): the    *)
(* receiver hidden in an auth-capture nonce, not the collector.              *)
Receiver(td) == IF Collector(td) # None THEN td.message.nonce.receiver ELSE td.message.to

(* A signature authorizes every message of its digest, whatever the object   *)
(* the caller showed: for each of them the guard judged the receiver, the    *)
(* chain and a registered token, and counted at least the amount.            *)
SignedBytesWereJudged ==
  \A digest \in signatures : digest \in DOMAIN reserved =>
    \A td \in TypedData : Recognized(td) /\ Digest(td) = digest =>
      LET seen == reserved[digest].intent IN
      /\ seen.merchant.id = Receiver(td) /\ seen.network.id = td.message.chain
      /\ Known(td) /\ seen.currency = Entry(td).symbol
      /\ MinorDecimals # None =>
           seen.amount * Pow10(Entry(td).decimals - MinorDecimals) >= td.message.value

(* Whatever has been signed is counted, as one payment, as long as it can    *)
(* settle: retries, replays, concurrent calls and failures of the account,   *)
(* the settlement or the transport never give its budget back.               *)
SignedIsCounted == signatures \subseteq DOMAIN reserved

(* A signature means what the guard judged and is in its books.              *)
SignedAsJudged == SignedBytesWereJudged /\ SignedIsCounted
=============================================================================
