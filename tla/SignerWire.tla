----------------------------- MODULE SignerWire -----------------------------
(* The codec of cloudflare/src/signer-host.ts, over which a remote signer    *)
(* sends typed data as text, and the host's dispatch.  JSON.stringify() and  *)
(* JSON.parse() stand between the two ends (external).                       *)
EXTENDS JsonValues

CONSTANTS
  Presented,   \* the values a caller presents as typed data
  Requests,    \* other wire requests: records [version, method, data]
  MaxNesting   \* how deep the values nest that a caller presents

VARIABLES presented, outgoing, received, answer

wireVars == <<presented, outgoing, received, answer>>

BigintTag == "$vadunoBigint"
EscapeTag == "$vadunoEscape"

Refused == Leaf("refused")

Wrap(tag, v) == Obj([k \in {tag} |-> v])

NoEscape(fields) == Obj(fields)   \* mutant

(* An object that looks like one of the codec's tags is wrapped once.        *)
Escape(fields) ==
  IF {BigintTag, EscapeTag} \cap DOMAIN fields # {} THEN Wrap(EscapeTag, Obj(fields))
  ELSE Obj(fields)

(* One value, given what `encode` makes of its parts.                        *)
EncodeStep(encode, x) ==
  LET parts == [k \in DOMAIN x.v |-> encode[x.v[k]]] IN
  CASE x.t \in {"null", "str", "num"} -> x
    [] x.t = "big" -> Wrap(BigintTag, Str(x.v))
    [] x.t \in Containers ->
         IF \E k \in DOMAIN parts : parts[k] = Refused THEN Refused
         ELSE IF x.t = "arr" THEN Arr(parts) ELSE Escape(parts)
    [] OTHER -> Refused

EncodeWire(v) ==
  LET encode[x \in Within(v, MaxNesting)] == EncodeStep(encode, x) IN encode[v]

(* Every level may be wrapped, and the text of a bigint is one more.         *)
WireNesting == 2 * MaxNesting + 1

(* JSON text and back, for whoever does not refuse first.                    *)
JsonStep(json, x) ==
  CASE x.t = "arr" ->
         Arr([n \in DOMAIN x.v |->
                IF x.v[n].t \in {"hole", "undef"} THEN Leaf("null") ELSE json[x.v[n]]])
    [] x.t = "obj" -> Obj([k \in {y \in DOMAIN x.v : x.v[y].t # "undef"} |-> json[x.v[k]]])
    [] x.t = "nan" -> Leaf("null")
    [] x.t = "negzero" -> Num("0")
    [] x.t = "class" -> Obj(<<>>)
    [] OTHER -> x

Json(v) == LET json[x \in Within(v, WireNesting)] == JsonStep(json, x) IN json[v]

IsTagged(v, tag) == v.t = "obj" /\ DOMAIN v.v = {tag}

(* Exactly one level is unwrapped: the keys of the inner object are literal. *)
DecodeStep(decode, x) ==
  LET escaped == IsTagged(x, EscapeTag)
      outer == IF escaped THEN x.v[EscapeTag] ELSE x
      parts == [k \in DOMAIN outer.v |-> decode[outer.v[k]]] IN
  CASE x.t \in {"null", "str", "num"} -> x
    [] IsTagged(x, BigintTag) ->
         IF x.v[BigintTag].t = "str" THEN [t |-> "big", v |-> x.v[BigintTag].v] ELSE Refused
    [] x.t \in Containers /\ ~IsTagged(x, BigintTag) ->
         IF (escaped /\ outer.t # "obj") \/ \E k \in DOMAIN parts : parts[k] = Refused
           THEN Refused
         ELSE [t |-> x.t, v |-> parts]
    [] OTHER -> Refused

DecodeWire(v) ==
  LET decode[x \in Within(v, WireNesting)] == DecodeStep(decode, x) IN decode[v]

-----------------------------------------------------------------------------
(* Values are trees: a reference to an ancestor is a "loop", which does not   *)
(* cross.  A request of another kind is refused, whatever it carries; one     *)
(* that decodes is a value that was presented.                                *)
ASSUME WireAssumption ==
  /\ MaxNesting \in Nat
  /\ \A v \in Presented :
       NestsWithin(v, MaxNesting) /\ \A x \in Within(v, MaxNesting) : IsValue(x)
  /\ \A r \in Requests :
       r.version = 1 /\ r.method = "signTypedData" => DecodeWire(r.data) = Refused

Nothing == Leaf("nothing")

WireInit ==
  /\ presented \in Presented
  /\ outgoing = Nothing /\ received = Nothing /\ answer = "none"

(* remoteSigner(): what cannot cross faithfully is refused before it leaves. *)
SendTypedData ==
  /\ outgoing = Nothing /\ answer = "none"
  /\ LET encoded == EncodeWire(presented) IN
     IF encoded = Refused THEN answer' = "TYPED_DATA_NOT_SERIALIZABLE" /\ UNCHANGED outgoing
     ELSE outgoing' = Json(encoded) /\ UNCHANGED answer
  /\ UNCHANGED <<presented, received>>

(* createSignerHost().handle(): one capability, and every other request is a *)
(* refusal; the data is decoded and goes to the guarded signer.              *)
Handle ==
  /\ outgoing # Nothing /\ answer = "none"
  /\ \E request \in Requests \cup {[version |-> 1, method |-> "signTypedData", data |-> outgoing]} :
       LET data == DecodeWire(request.data) IN
       IF request.version # 1 THEN answer' = "HOST_PROTOCOL_VERSION" /\ UNCHANGED received
       ELSE IF request.method = "address" THEN answer' = "address" /\ UNCHANGED received
       ELSE IF request.method # "signTypedData"
         THEN answer' = "HOST_METHOD_DISABLED" /\ UNCHANGED received
       ELSE IF data = Refused THEN answer' = "HOST_TYPED_DATA_UNDECODABLE" /\ UNCHANGED received
       ELSE received' = data /\ answer' = "signed"
  /\ UNCHANGED <<presented, outgoing>>

WireNext == SendTypedData \/ Handle

WireSpec == WireInit /\ [][WireNext]_wireVars
-----------------------------------------------------------------------------
(* The host judges and signs the very value the caller presented, whatever   *)
(* its shape and its property names: what JSON text would change on the way  *)
(* is refused before it leaves.                                              *)
SignedAsPresented == answer = "signed" => received = presented
=============================================================================
