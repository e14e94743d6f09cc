--------------------------- MODULE TypedDataTypes ---------------------------
(* What an EIP-712 signature commits to, as cloudflare/src/guarded-signer.ts *)
(* derives it: the gate that refuses a request whose declared types leave    *)
(* out a field the guard is told about, and the record of the covered fields *)
(* that goes into the ledger row.  A type name is <<word, n>>, the word with *)
(* n pairs of brackets; `types` is a function from declared names to their   *)
(* fields, each [name, type]; a message is a JavaScript value.               *)
EXTENDS Integers, Sequences, FiniteSets, FiniteSetsExt, Functions, TLC, JsonValues

CONSTANTS
  Typed,               \* requests: [primaryType, types, domain, message]
  StructNestingLimit, ArrayNestingLimit,
  MessageNesting       \* how deep a message nests

VARIABLES typed, gate, record

typesVars == <<typed, gate, record>>

Word(w) == <<w, 0>>
Address == Word("address")
Uint == Word("uint256")
Shorter(type) == <<type[1], type[2] - 1>>
DomainType == Word("EIP712Domain")

(* What stands for no type, and for a name with more levels than are looked  *)
(* at: no name has fewer than no brackets.                                   *)
NoType == <<"undeclared", -1>>
TooDeep == <<"throws", -1>>

Declared(types, name) == name \in DOMAIN types

First(fields, name) ==
  LET hits == {n \in DOMAIN fields : fields[n].name = name} IN
  IF hits = {} THEN NoType ELSE fields[Min(hits)].type

-----------------------------------------------------------------------------
(* extractPayment(): the facts the guard is told, read from the message.     *)
Permit == Word("PermitWitnessTransferFrom")
PaymentTypes == {Word("TransferWithAuthorization"), Word("ReceiveWithAuthorization"), Permit}

Null == Leaf("null")
Get(x, key) == IF x.t = "obj" /\ key \in DOMAIN x.v THEN x.v[key] ELSE Null
NormAddress(x) == IF x.t = "str" THEN x ELSE Null
AsBigInt(x) == IF x.t \in {"str", "num", "big"} THEN Num(x.v) ELSE Null

Facts(t) ==
  LET message(key) == Get(t.message, key) IN
  [chainId |-> t.domain["chainId"].value,
   asset |-> <<t.domain["verifyingContract"].value,
               IF t.primaryType # Permit THEN Null ELSE NormAddress(Get(message("permitted"), "token"))>>,
   payee |-> NormAddress(IF t.primaryType # Permit THEN message("to") ELSE Get(message("witness"), "to")),
   value |-> AsBigInt(IF t.primaryType # Permit THEN message("value")
                      ELSE Get(message("permitted"), "amount")),
   spender |-> IF t.primaryType # Permit THEN Null ELSE NormAddress(message("spender"))]

Unrecognized(t) ==
  \/ t.primaryType \notin PaymentTypes
  \/ Facts(t).payee = Null
  \/ t.primaryType = Permit /\ Facts(t).asset[2] = Null

-----------------------------------------------------------------------------
(* getTypesForEIP712Domain() of viem (external): chainId only if it is a     *)
(* number, a field with a false value not at all.                            *)
Inferred(domain) ==
  LET covered(name) == domain[name].form \in (IF name = "chainId" THEN {"number"} ELSE {"string"})
      types == [chainId |-> Uint, verifyingContract |-> Address]
      names == SelectSeq(<<"chainId", "verifyingContract">>, covered)
  IN [n \in DOMAIN names |-> [name |-> names[n], type |-> types[names[n]]]]

CommittedDomainFields(t) ==
  IF Declared(t.types, DomainType) THEN t.types[DomainType] ELSE Inferred(t.domain)

Commits(fields, required) == \A r \in required : First(fields, r[1]) = r[2]

Missing(types, struct, required) ==
  ~Declared(types, struct) \/ ~Commits(types[struct], required)

InferredIsCommitted(t) ==   \* mutant
  Declared(t.types, DomainType) /\
    ~Commits(t.types[DomainType],
             {<<"chainId", Uint>>, <<"verifyingContract", Address>>})

MissingDomain(t) ==
  ~Commits(CommittedDomainFields(t),
           {<<"chainId", Uint>>, <<"verifyingContract", Address>>})

Uncommitted(t) ==
  LET witness == IF Declared(t.types, Permit) THEN First(t.types[Permit], "witness") ELSE NoType IN
  IF t.primaryType = Permit
    THEN \/ MissingDomain(t)
         \/ Missing(t.types, Permit, {<<"permitted", Word("TokenPermissions")>>,
                                      <<"spender", Address>>})
         \/ Missing(t.types, Word("TokenPermissions"), {<<"token", Address>>,
                                                        <<"amount", Uint>>})
         \/ witness = NoType \/ Missing(t.types, witness, {<<"to", Address>>})
  ELSE \/ MissingDomain(t)
       \/ Missing(t.types, t.primaryType, {<<"to", Address>>, <<"value", Uint>>})

-----------------------------------------------------------------------------
Levelled(types, type) == {n \in 0..type[2] : Declared(types, <<type[1], type[2] - n>>)}

(* The full name first, then with one pair of brackets less at a time.       *)
ResolveStructRef(types, type) ==
  LET levels == Levelled(types, type) IN
  IF levels # {} /\ Min(levels) <= ArrayNestingLimit THEN <<type[1], type[2] - Min(levels)>>
  ELSE IF type[2] > ArrayNestingLimit THEN TooDeep
  ELSE NoType

(* The fields of a struct, in order, given what `visit` records of a struct  *)
(* one level further down.                                                   *)
FieldStep(walk, visit, types, fields, start, n) ==
  LET ref == ResolveStructRef(types, fields[n].type) IN
  IF n = 0 THEN start
  ELSE IF walk[n - 1] = {TooDeep} \/ ref = TooDeep THEN {TooDeep}
  ELSE IF ref \in {NoType, DomainType} THEN walk[n - 1]
  ELSE visit[<<ref, walk[n - 1]>>]

VisitFields(visit, types, fields, start) ==
  LET walk[n \in 0..Len(fields)] == FieldStep(walk, visit, types, fields, start, n)
  IN walk[Len(fields)]

(* Recorded first, so that recursive declarations end; too deep is an error, *)
(* never a shorter record.                                                   *)
VisitStep(visit, types, left, name, struct) ==
  IF name \in struct THEN struct
  ELSE IF left = 0 THEN {TooDeep}
  ELSE IF ~Declared(types, name) THEN struct
  ELSE VisitFields(visit[left - 1], types, types[name], struct \cup {name})

Visit(types, name) ==
  LET visit[left \in 0..StructNestingLimit + 1] ==
        [p \in (DOMAIN types \cup {name}) \X SUBSET DOMAIN types |->
           VisitStep(visit, types, left, p[1], p[2])]
  IN visit[StructNestingLimit + 1][<<name, {}>>]

CommittedFieldSet(t) ==
  LET struct == Visit(t.types, t.primaryType) IN
  IF struct = {TooDeep} THEN [s \in {TooDeep} |-> <<>>] ELSE [s \in struct |-> t.types[s]]

-----------------------------------------------------------------------------
(* viem's hashTypedData() (external): which values a digest covers.  A field *)
(* of a declared name is a struct, one with brackets a sequence of the       *)
(* shorter name, and any other one is a word, in which an amount is the same *)
(* number however it is written; a value that does not fit its type, a null  *)
(* struct first of all, has no digest.                                       *)
Uncomputable == Leaf("uncomputable")

Names(fields) == {fields[n].name : n \in DOMAIN fields}

EncodeLeaf(type, x) ==
  IF type = Address THEN NormAddress(x) ELSE IF type = Uint THEN AsBigInt(x) ELSE x

Fits(types, type, x) ==
  IF Declared(types, type)
    THEN x.t = "obj" /\ Names(types[type]) \subseteq DOMAIN x.v
  ELSE IF type[2] > 0 THEN x.t = "arr"
  ELSE x.t \notin Containers /\ EncodeLeaf(type, x) # Null

EncodeData(cover, types, type, x) ==
  IF Declared(types, type)
    THEN [n \in DOMAIN types[type] |-> cover[<<types[type][n].type, x.v[types[type][n].name]>>]]
  ELSE [n \in DOMAIN x.v |-> cover[<<Shorter(type), x.v[n]>>]]

CoverStep(cover, types, type, x) ==
  LET data == EncodeData(cover, types, type, x) IN
  IF ~Fits(types, type, x) THEN Uncomputable
  ELSE IF x.t \notin Containers THEN EncodeLeaf(type, x)
  ELSE IF \E n \in DOMAIN data : data[n] = Uncomputable THEN Uncomputable
  ELSE [t |-> "data", v |-> data]

Shortened(type) == {<<type[1], n>> : n \in 0..type[2]}

TypeNames(t) ==
  Shortened(t.primaryType) \cup
  UNION {UNION {Shortened(t.types[s][n].type) : n \in DOMAIN t.types[s]} : s \in DOMAIN t.types}

Covered(t) ==
  LET cover[p \in TypeNames(t) \X Within(t.message, MessageNesting)] ==
        CoverStep(cover, t.types, p[1], p[2])
  IN cover[<<t.primaryType, t.message>>]

Hashable(t) == Covered(t) # Uncomputable

DigestOf(t) ==
  <<[n \in DOMAIN CommittedDomainFields(t) |->
       <<CommittedDomainFields(t)[n].name, t.domain[CommittedDomainFields(t)[n].name].value>>],
    t.primaryType, Covered(t)>>

-----------------------------------------------------------------------------
(* Names are words with their brackets, and a message is a finite tree.      *)
ASSUME TypesAssumption ==
  /\ StructNestingLimit \in Nat /\ ArrayNestingLimit \in Nat /\ MessageNesting \in Nat
  /\ \A t \in Typed :
       /\ t.primaryType \in STRING \X Nat
       /\ DOMAIN t.types \subseteq STRING \X Nat
       /\ t.types \in [DOMAIN t.types -> Seq([name : STRING, type : STRING \X Nat])]
       /\ NestsWithin(t.message, MessageNesting)

TypesInit == typed \in Typed /\ gate = "none" /\ record = <<>>

(* gatedSignTypedData(), from what it reads to the record of what it covers. *)
Check ==
  /\ gate = "none"
  /\ IF Unrecognized(typed) THEN gate' = "UNRECOGNIZED_TYPED_DATA" /\ UNCHANGED record
     ELSE IF Uncommitted(typed) THEN gate' = "TYPED_DATA_NOT_COMMITTED" /\ UNCHANGED record
     ELSE IF ~Hashable(typed) THEN gate' = "DIGEST_UNCOMPUTABLE" /\ UNCHANGED record
     ELSE IF TooDeep \in DOMAIN CommittedFieldSet(typed)
       THEN gate' = "COMMITMENT_RECORD_UNCOMPUTABLE" /\ UNCHANGED record
     ELSE gate' = "committed" /\ record' = CommittedFieldSet(typed)
  /\ UNCHANGED typed

TypesNext == Check

TypesSpec == TypesInit /\ [][TypesNext]_typesVars
-----------------------------------------------------------------------------
(* Bytes the gate lets through mean one payment: a request with the same     *)
(* types and the same digest has the same facts.  "The same signature is     *)
(* valid at a different token" is what the gate is there to refuse.          *)
OneDigestOnePayment ==
  gate = "committed" =>
    \A other \in {t \in Typed : t.types = typed.types /\ t.primaryType = typed.primaryType} :
      Hashable(other) /\ DigestOf(other) = DigestOf(typed) => Facts(other) = Facts(typed)

(* The structs a digest covers, directly or through others: what is in every *)
(* set of structs that has the primary one and whatever its members name.    *)
Refs(types, s) ==
  LET ref(type) == <<type[1], type[2] - Min(Levelled(types, type))>>
      named == {type \in {types[s][n].type : n \in DOMAIN types[s]} : Levelled(types, type) # {}}
  IN {ref(type) : type \in named} \ {DomainType}

Closed(types, S) == \A s \in S : Refs(types, s) \subseteq S

Hashed(types, name) ==
  {s \in DOMAIN types : \A S \in SUBSET DOMAIN types : name \in S /\ Closed(types, S) => s \in S}

(* The ledger row leaves no struct out that the signature covers, and names  *)
(* none it does not.                                                         *)
EvidenceIsComplete ==
  gate = "committed" => DOMAIN record = Hashed(typed.types, typed.primaryType)

(* The digest that is signed fixes what the gate and the record speak of.    *)
DigestFixesPayment == OneDigestOnePayment /\ EvidenceIsComplete
=============================================================================
