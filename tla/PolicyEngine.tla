---------------------------- MODULE PolicyEngine ----------------------------
(* evaluatePolicy() of guard/src/policy/engine.ts: every rule is evaluated,  *)
(* all reasons are collected, and one reason denies.  Names are compared     *)
(* after case folding and trimming in the code; here they are values.        *)
(*                                                                           *)
(* The state is one request under one policy and the engine's answer; the    *)
(* operator edits the policy and the counterparty spells the network anew,   *)
(* and the request is evaluated again.                                       *)
EXTENDS Integers, FiniteSets, Sequences, SequencesExt

CONSTANTS
  Aliases,      \* V1_NETWORK_ALIASES: bare name -> eip155 chain number
  Intents,      \* the requests
  Policies,     \* the policies they meet first
  Spellings,    \* network ids a policy or a counterparty may write
  Patterns,     \* merchant patterns an operator may add
  Spent,        \* what history counts in a window: [total, count]
  MaxEdits,     \* bound: edits and new spellings of one behaviour
  None          \* an optional field that is absent

(* What the validation of a policy lets through, as far as the engine's      *)
(* arithmetic and its lists depend on it.                                    *)
PolicyShape(p) ==
  /\ DOMAIN p = {"networks", "merchants", "categories", "rails", "currency", "expiry", "perTxn",
                 "perDay", "maxTransactions", "maxPerMerchant", "above", "always"}
  /\ {p.perTxn, p.perDay, p.above} \subseteq Int \cup {None}
  /\ p.maxTransactions \subseteq Int /\ p.maxPerMerchant \subseteq Int
  /\ p.always \in BOOLEAN
  /\ DOMAIN p.networks = {"allow", "block"} /\ DOMAIN p.merchants = {"allow", "block"}
  /\ \A list \in {p.networks.allow, p.networks.block} : list = None \/ list \subseteq Spellings
  /\ \A list \in {p.merchants.allow, p.merchants.block} : list = None \/ list \subseteq Patterns

(* An amount is a number, an absent field neither a number nor a list, and a *)
(* name no alias is known for is not the number of a chain.                  *)
ASSUME PolicyAssumption ==
  /\ \A p \in Policies : PolicyShape(p)
  /\ \A i \in Intents : "network" \in DOMAIN i /\ i.amount \in Int
  /\ \A s \in Spent : s.total \in Int /\ s.count \in Int
  /\ None \notin Int
  /\ \A list \in (SUBSET Spellings) \cup (SUBSET Patterns) : list # None
  /\ LET written == Spellings \cup {i.network : i \in Intents} IN
     \A n, o \in written :
       n.form = "bare" /\ n.id \notin DOMAIN Aliases =>
         /\ n.id \notin {Aliases[a] : a \in DOMAIN Aliases}
         /\ o.form = "caip" => o.id # n.id

VARIABLES request, policy, verdict, edits

policyVars == <<request, policy, verdict, edits>>

Rank(decision) ==
  CASE decision = "allow" -> 0 [] decision = "require_approval" -> 1 [] decision = "deny" -> 2

When(code, holds) == IF holds THEN {code} ELSE {}

Given(list) == IF list = None THEN {} ELSE list

-----------------------------------------------------------------------------
(* A network id: "caip" with a decimal reference and leading zeros, "bare",  *)
(* "malformed" with a colon, or "absent".                                    *)

NormNetworkTextual(n) ==   \* mutant
  CASE n.form = "caip" -> <<"eip155", n.id, n.zeros>> [] n.form = "bare" -> <<"name", n.id, 0>>
    [] OTHER -> None

NormNetwork(n) ==
  CASE n.form = "caip" -> <<"eip155", n.id>>
    [] n.form = "bare" /\ n.id \in DOMAIN Aliases -> <<"eip155", Aliases[n.id]>>
    [] n.form = "bare" /\ n.id \notin DOMAIN Aliases -> <<"name", n.id>>
    [] OTHER -> None

NetworkReasons(i, p) ==
  LET allow == p.networks.allow
      block == p.networks.block
      network == NormNetwork(i.network)
      listed(list) == \E n \in list : NormNetwork(n) = network IN
  IF allow = None /\ block = None THEN {}
  ELSE IF \E n \in Given(allow) \cup Given(block) : NormNetwork(n) = None
    THEN {"NETWORK_POLICY_INVALID"}
  ELSE IF network = None
    THEN {IF i.network.form = "absent" THEN "NETWORK_MISSING" ELSE "NETWORK_UNPARSEABLE"}
  ELSE When("NETWORK_BLOCKED", listed(Given(block)))
       \cup When("NETWORK_NOT_ALLOWED", allow # None /\ ~listed(Given(allow)))

(* A host is its labels from the right, so a dot boundary is a prefix.       *)
HostMatches(host, p) == host # None /\ p # <<>> /\ IsPrefix(p, host)

MerchantMatches(i, pattern) ==
  \/ pattern.form = "id" /\ i.merchant.id = pattern.value
  \/ pattern.form = "host" /\ HostMatches(i.merchant.host, pattern.value)

EmptyListAdmits(list, hits) == list = None \/ list = {} \/ hits \cap list # {}   \* mutant

(* An allow list that is present and empty admits nobody.                    *)
ListAdmits(list, hits) == list = None \/ hits \cap list # {}

MerchantReasons(i, p) ==
  LET hits == {m \in Given(p.merchants.allow) \cup Given(p.merchants.block) :
                 MerchantMatches(i, m)}
      block == Given(p.merchants.block) IN
  When("MERCHANT_URL_UNVERIFIABLE",
       i.merchant.host = None /\ \E m \in block : m.form = "host")
  \cup When("MERCHANT_BLOCKED", block \cap hits # {})
  \cup When("MERCHANT_NOT_ALLOWED", ~ListAdmits(p.merchants.allow, hits))

CategoryReasons(i, p) ==
  When("CATEGORY_BLOCKED", i.category \in Given(p.categories.block))
  \cup When("CATEGORY_NOT_ALLOWED", ~ListAdmits(p.categories.allow, {i.category}))

-----------------------------------------------------------------------------
(* policyWindows(): rolling caps, then counts, then counts per merchant;     *)
(* `cap` -1 stands for a number the validation refuses.                      *)
Window(code, cap, maxCount) == [code |-> code, cap |-> cap, maxCount |-> maxCount]

PolicyWindows(p) ==
  (IF p.perDay = None THEN {} ELSE {Window("PER_DAY_LIMIT_EXCEEDED", p.perDay, None)})
  \cup {Window("VELOCITY_EXCEEDED", None, n) : n \in p.maxTransactions}
  \cup {Window("MERCHANT_VELOCITY_EXCEEDED", None, n) : n \in p.maxPerMerchant}

Misconfigured(w) == w.cap = -1 \/ w.maxCount = -1

AmountValid(i) == i.amount > 0

WindowReasons(i, p, spent) ==
  LET windows == PolicyWindows(p) IN
  IF \E w \in windows : Misconfigured(w) THEN {"SPEND_WINDOW_INVALID"}
  ELSE {w.code : w \in {v \in windows :
          \/ v.cap # None /\ AmountValid(i) /\ spent.total + i.amount > v.cap
          \/ v.maxCount # None /\ spent.count + 1 > v.maxCount}}

Reasons(i, p, spent) ==
  When("INVALID_AMOUNT", ~AmountValid(i))
  \cup When("POLICY_EXPIRY_UNPARSEABLE", p.expiry = "unparseable")
  \cup When("POLICY_EXPIRED", p.expiry = "past")
  \cup When("CURRENCY_MISMATCH", i.currency # p.currency)
  \cup When("RAIL_NOT_ALLOWED", ~ListAdmits(p.rails, {i.rail}))
  \cup NetworkReasons(i, p) \cup MerchantReasons(i, p) \cup CategoryReasons(i, p)
  \cup When("PER_TXN_LIMIT_EXCEEDED", AmountValid(i) /\ p.perTxn # None /\ i.amount > p.perTxn)
  \cup WindowReasons(i, p, spent)

EvaluatePolicy(i, p, spent) ==
  IF Reasons(i, p, spent) # {} THEN "deny"
  ELSE IF p.always \/ (p.above # None /\ i.amount >= p.above) THEN "require_approval"
  ELSE "allow"

-----------------------------------------------------------------------------
PolicyInit ==
  /\ request \in {[intent |-> i, spent |-> s] : i \in Intents, s \in Spent}
  /\ policy \in Policies
  /\ verdict = EvaluatePolicy(request.intent, policy, request.spent)
  /\ edits = 0

(* What an operator does to be stricter, to one field of the policy; taking  *)
(* a broken entry off a list is a repair and not among them.                 *)
Blocks(list, x) == Given(list) \cup {x}

Lowered(cap, n) == cap = None \/ n < cap

Tightened(p) ==
  {[p EXCEPT !.networks.block = Blocks(@, n)] : n \in Spellings}
  \cup {[p EXCEPT !.networks.allow = IF @ = None THEN {n} ELSE @ \ {n}] :
          n \in {s \in Spellings : p.networks.allow # None => NormNetwork(s) # None}}
  \cup {[p EXCEPT !.merchants.block = Blocks(@, m)] : m \in Patterns}
  \cup {[p EXCEPT !.merchants.allow = IF @ = None THEN {m} ELSE @ \ {m}] : m \in Patterns}
  \cup {[p EXCEPT !.perTxn = n] : n \in {k \in 0..2 : Lowered(p.perTxn, k)}}
  \cup {[p EXCEPT !.perDay = n] : n \in {k \in -1..2 : Lowered(p.perDay, k)}}
  \cup {[p EXCEPT !.maxTransactions = @ \cup {n}] : n \in -1..2}
  \cup {[p EXCEPT !.above = n] : n \in {k \in 0..2 : Lowered(p.above, k)}}
  \cup {[p EXCEPT !.always = TRUE]}

Tighten ==
  /\ policy' \in Tightened(policy)
  /\ verdict' = EvaluatePolicy(request.intent, policy', request.spent)
  /\ edits < MaxEdits /\ edits' = edits + 1
  /\ UNCHANGED request

(* The chain a spelling names in the world (external).                       *)
ChainOf(n) ==
  IF n.form = "bare" /\ n.id \in DOMAIN Aliases THEN Aliases[n.id] ELSE n.id

SameChain(n, o) ==
  /\ {n.form, o.form} \subseteq {"bare", "caip"}
  /\ ChainOf(n) = ChainOf(o)

Respell ==
  /\ \E n \in Spellings :
       /\ SameChain(n, request.intent.network)
       /\ request' = [request EXCEPT !.intent.network = n]
  /\ verdict' = EvaluatePolicy(request'.intent, policy, request.spent)
  /\ edits < MaxEdits /\ edits' = edits + 1
  /\ UNCHANGED policy

PolicyNext == Tighten \/ Respell

PolicySpec == PolicyInit /\ [][PolicyNext]_policyVars
-----------------------------------------------------------------------------
(* Being stricter in one field, a broken entry or cap included, never lets   *)
(* a request through that the looser policy stopped: no rule switches off    *)
(* another one, and no empty list or refused number means "no constraint".   *)
TighteningNeverLoosens ==
  [][request' = request => Rank(verdict') >= Rank(verdict)]_policyVars

(* A counterparty cannot talk its way around a network list by writing the   *)
(* same chain differently: as its x402 v1 name, or with leading zeros.       *)
SpellingDoesNotMatter ==
  [][policy' = policy => verdict' = verdict]_policyVars
=============================================================================
