------------------------------ MODULE MCEdges ------------------------------
(* What stands around the guard - a human's approvals, the card network, an *)
(* agent framework, two-phase settlement, the ledger - and the values that  *)
(* cross those edges: intents and their canonical bytes, the wire format of *)
(* a remote signer, typed data, signed notes.  They share nothing but the   *)
(* guard, so each behaviour follows one of them, its focus.                 *)
EXTENDS ApprovalQueue, StripeHandler, AgentHooks, Settlement, AuditLedger,
        IntentShape, SignerWire, TypedDataTypes, CheckpointNote

VARIABLE focus

callVars == <<approvalVars, stripeVars, hookVars, settleVars, ledgerVars>>
valueVars == <<shapeVars, wireVars, typesVars, noteVars>>
MCVars == <<callVars, valueVars, focus>>

MCToolUseId == [c \in ToolCall |-> IF c \in {"c1", "c2"} THEN {c} ELSE {}]
MCInputOf == [c \in ToolCall |-> {IF c \in {"c1", "c2"} THEN "pay" ELSE c}]
MCIntentOf == [c \in ToolCall |-> CASE c \in {"c1", "c3"} -> {"i1"} [] c = "c2" -> {"i2"}
                                    [] OTHER -> {}]

(* Two ledger instances over one store, one of which relies on constraints. *)
MCHome == [c \in Call |-> IF c \in {"a1", "a2"} THEN "host1" ELSE "host2"]

-----------------------------------------------------------------------------
MCKeyOrder ==
  <<"$vadunoBigint", "$vadunoEscape", "<truncated>", "__proto__", "a", "b", "data", "intent">>

MCLeaves ==
  {Leaf("null"), Str("1"), Str("1n"), Num("1"), Num("0"), [t |-> "big", v |-> "1"],
   Leaf("nan"), Leaf("negzero"), Leaf("undef"), Leaf("class"), Leaf("loop")}

Few == {Num("0"), Str("1"), Leaf("nan"), Leaf("undef")}

Objects(keys, S) == {Obj(f) : f \in UNION {[K -> S] : K \in SUBSET keys}}
Arrays(S, n) == {Arr(s) : s \in BoundedSeq(S, n)}

Flat == MCLeaves \cup Arrays(MCLeaves \cup {Leaf("hole")}, 2) \cup Objects({"a", "__proto__"}, MCLeaves)

Nested == Arrays(Arrays(Few, 1) \cup Objects({"a"}, Few), 2)

Tower(n, top) ==
  LET up[k \in 0..n] == IF k = 0 THEN top ELSE IF k % 2 = 0 THEN Arr(<<up[k - 1]>>)
                                               ELSE Obj("b" :> up[k - 1])
  IN up[n]

Wide == {Arr([k \in 1..n |-> Arr(<<x, x>>)]) : n \in 3..5, x \in Few}
        \cup {Obj([k \in {MCKeyOrder[j] : j \in 3..n + 2} |-> x]) : n \in 4..5, x \in Few}

MCIntents ==
  Flat \cup Nested \cup Wide
    \cup {Tower(n, top) : n \in 1..7, top \in Few \cup {Arr(<<Num("1"), Num("1"), Num("1"), Num("1")>>)}}

-----------------------------------------------------------------------------
Tags == {"$vadunoBigint", "$vadunoEscape"}
Tagged == Objects(Tags, {Str("1"), Num("1"), [t |-> "big", v |-> "1"], Leaf("hole")})

MCPresented ==
  Flat \cup Tagged \cup Objects(Tags \cup {"a"}, Tagged \cap Objects(Tags, {Str("1"), [t |-> "big", v |-> "1"]}))

MCRequests ==
  {[version |-> 2, method |-> "signTypedData", data |-> Num("1")],
   [version |-> 1, method |-> "address", data |-> Leaf("null")],
   [version |-> 1, method |-> "signTransaction", data |-> Num("1")],
   [version |-> 1, method |-> "signTypedData", data |-> Obj("$vadunoBigint" :> Num("1"))],
   [version |-> 1, method |-> "signTypedData", data |-> Obj("$vadunoEscape" :> Str("1"))]}

-----------------------------------------------------------------------------
Field(name, type) == [name |-> name, type |-> type]
Chain == Field("chainId", Uint)
Contract == Field("verifyingContract", Address)
PermitType == Word("PermitWitnessTransferFrom")
TransferType == Word("TransferWithAuthorization")

MCDomains ==
  {[chainId |-> [form |-> form, value |-> chain],
    verifyingContract |-> [form |-> "string", value |-> token]] :
     form \in {"number", "string"}, chain \in {"1", "2"}, token \in {"usdc", "eurc"}}

DomainTypes == {<<>>, DomainType :> <<Chain, Contract>>, DomainType :> <<Contract>>}

To == Field("to", Address)

Transfers ==
  {TransferType :> <<To, Field("value", Uint)>>,
   TransferType :> <<Field("value", Uint)>>, TransferType :> <<Field("to", Uint), Field("value", Uint)>>,
   TransferType :> <<To, Field("value", Uint), Field("extra", Word("Extra"))>>
     @@ (Word("Extra") :> <<Field("fee", Uint)>>),
   TransferType :> <<To, Field("value", Uint)>> @@ (Address :> <<Field("fee", Uint)>>),
   TransferType :> <<To, Field("value", Uint)>> @@ (Uint :> <<Field("fee", Word("uint8"))>>)}

PermitOf(witness, more) ==
  PermitType :> <<Field("permitted", Word("TokenPermissions")), Field("spender", Address),
                  Field("witness", witness)>> \o more

Permissions == Word("TokenPermissions") :> <<Field("token", Address), Field("amount", Uint)>>

Witness == Word("Witness")
Witnesses == <<"Witness", 1>>

Permits ==
  {PermitOf(Witness, <<>>) @@ Permissions @@ (Witness :> <<To>>),
   PermitOf(Witness, <<>>) @@ Permissions @@ (Witness :> <<Field("fee", Uint)>>),
   PermitOf(Witness, <<>>) @@ (Witness :> <<To>>),
   PermitOf(Witnesses, <<>>) @@ Permissions @@ (Witness :> <<Field("fee", Uint)>>) @@ (Witnesses :> <<To>>),
   PermitOf(Witnesses, <<>>) @@ Permissions @@ (Witness :> <<To>>),
   PermitOf(Witness, <<Field("self", <<"PermitWitnessTransferFrom", 1>>), Field("extra", <<"Extra", 2>>)>>)
     @@ Permissions @@ (Witness :> <<To>>) @@ (Word("Extra") :> <<Field("fee", Uint)>>),
   PermitOf(Witness, <<Field("self", <<"PermitWitnessTransferFrom", 1>>)>>)
     @@ Permissions @@ (Witness :> <<To>>),
   PermitOf(Witness, <<>>) @@ Permissions @@ (Witness :> <<To, Field("next", <<"S1", 1>>)>>)
     @@ (Word("S1") :> <<Field("next", <<"S2", 1>>), Field("back", <<"Witness", 1>>)>>)
     @@ (Word("S2") :> <<Field("fee", Uint)>>),
   PermitOf(Witness, <<>>) @@ Permissions @@ (Witness :> <<To, Field("next", <<"S1", 1>>)>>)
     @@ (Word("S1") :> <<Field("fee", Uint)>>)}

None == Arr(<<>>)
Fee == Obj("fee" :> Num("1"))

(* A struct of the message, or the null that has no digest.                 *)
Extras == {Fee, Null}

Paid == {<<Str("m"), Num("1")>>, <<Str("e"), Num("1")>>, <<Str("m"), Num("2")>>, <<Str("m"), Str("1")>>,
         <<Fee, Num("1")>>, <<Str("m"), Fee>>}

MCPayments ==
  {[primaryType |-> TransferType, types |-> d @@ s, domain |-> domain,
    message |-> Obj("to" :> paid[1] @@ "value" :> paid[2] @@ "extra" :> extra)] :
     d \in DomainTypes, s \in Transfers, domain \in MCDomains, paid \in Paid, extra \in Extras}
  \cup
  {[primaryType |-> PermitType, types |-> s, domain |-> domain,
    message |-> Obj("permitted" :> Obj("token" :> Str(token) @@ "amount" :> Num("1"))
                    @@ "spender" :> Str(spender) @@ "self" :> None @@ "extra" :> None
                    @@ "witness" :> Obj("to" :> Str(to) @@ "fee" :> Num("1") @@ "next" :> next))] :
     s \in Permits, domain \in MCDomains, to \in {"m", "e"}, token \in {"usdc", "eurc"},
     spender \in {"x", "y"}, next \in {None, Arr(<<Fee, Fee>>)}}

(* An approval is no payment.                                               *)
MCTyped == MCPayments \cup 
  {[t EXCEPT !.primaryType = Word("Permit")] : t \in {p \in MCPayments : p.primaryType = PermitType}}

MCNoTyped == CHOOSE t \in MCTyped : TRUE

-----------------------------------------------------------------------------
MCCharacters == {NL, Dash, Space, Junk, "a", "-1", "AB", "control"} \cup Sizes \cup Roots \cup Sigs

MCNames == {<<"a">>, <<"a", " ">>, <<>>, <<"a", NL>>}

MCCheckpoints ==
  [origin : {<<"a">>, <<"control">>, <<Dash, " ", "a">>, <<>>, <<"a", NL, "a">>},
   treeSize : {"0", "1", "-1"}, rootHash : {"empty root", "root", "AB"},
   extensions : {<<>>, <<<<"a">>>>, <<<<"a">>, <<"1">>>>, <<<<>>>>, <<<<"a">>, <<>>>>, <<<<"a", NL>>>>}]

-----------------------------------------------------------------------------
CallInit ==
  /\ IF focus = "stripe" THEN TRUE ELSE authOf = [d \in Delivery |-> CHOOSE a \in Auth : TRUE]
  /\ IF focus = "approval" THEN TRUE
     ELSE waiter = [w \in Waiter |-> [pc |-> "idle", intent |-> CHOOSE i \in Intent : TRUE,
                                      payment |-> CHOOSE p \in Payment : TRUE, answer |-> "none"]]
  /\ ApprovalInit /\ StripeInit /\ HooksInit /\ SettlementInit /\ LedgerInit

ValueInit ==
  /\ IF focus = "shape" THEN TRUE ELSE intent = Leaf("null")
  /\ IF focus = "wire" THEN TRUE ELSE presented = Leaf("null")
  /\ IF focus = "types" THEN TRUE ELSE typed = MCNoTyped
  /\ ShapeInit /\ WireInit /\ TypesInit
  /\ IF focus = "note" THEN NoteInit ELSE signing = <<>> /\ note = NoNote /\ lines = 0
                                           /\ signatures = <<>>

MCInit ==
  /\ focus \in {"approval", "stripe", "hooks", "settlement", "ledger", "shape", "wire", "types", "note"}
  /\ CallInit /\ ValueInit

CallNext ==
  \/ /\ focus = "approval" /\ ApprovalNext
     /\ UNCHANGED <<stripeVars, hookVars, settleVars, ledgerVars>>
  \/ /\ focus = "stripe" /\ StripeNext
     /\ UNCHANGED <<approvalVars, hookVars, settleVars, ledgerVars>>
  \/ /\ focus = "hooks" /\ HooksNext
     /\ UNCHANGED <<approvalVars, stripeVars, settleVars, ledgerVars>>
  \/ /\ focus = "settlement" /\ SettlementNext
     /\ UNCHANGED <<approvalVars, stripeVars, hookVars, ledgerVars>>
  \/ /\ focus = "ledger" /\ LedgerNext
     /\ UNCHANGED <<approvalVars, stripeVars, hookVars, settleVars>>

ValueNext ==
  \/ focus = "shape" /\ ShapeNext /\ UNCHANGED <<wireVars, typesVars, noteVars>>
  \/ focus = "wire" /\ WireNext /\ UNCHANGED <<shapeVars, typesVars, noteVars>>
  \/ focus = "types" /\ TypesNext /\ UNCHANGED <<shapeVars, wireVars, noteVars>>
  \/ focus = "note" /\ NoteNext /\ UNCHANGED <<shapeVars, wireVars, typesVars>>

MCNext ==
  /\ UNCHANGED focus
  /\ \/ CallNext /\ UNCHANGED valueVars
     \/ ValueNext /\ UNCHANGED callVars

(* Nothing that a fairness condition is about is enabled before its focus   *)
(* moves.                                                                   *)
MCSpec ==
  /\ MCInit /\ [][MCNext]_MCVars
  /\ StripeFairness /\ LedgerFairness
=============================================================================
