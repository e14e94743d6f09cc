----------------------------- MODULE AgentHooks -----------------------------
(***************************************************************************)
(* The tool hooks of an agent framework (agent/src): preToolUse asks the   *)
(* guard for an authorization and remembers it under the correlation key   *)
(* of the tool call, the host runs the tool, postToolUse or                *)
(* postToolUseFailure takes it back and settles.  The guard is the one of  *)
(* Settlement seen from outside: an intent is authorized at most once.     *)
(***************************************************************************)
EXTENDS FiniteSets

CONSTANTS
  ToolCall,
  ToolUseId,    \* [ToolCall -> sets of at most one id]: tool_use_id
  InputOf,      \* [ToolCall -> tool name and input]
  IntentOf      \* [ToolCall -> sets of at most one intent]: resolve()

VARIABLES
  call,         \* where each tool call is
  granted,      \* guard: the tool calls it answered "authorized", by intent
  inFlight,     \* memoryInFlight(): by key, at most one intent
  settled       \* guard: the settlements it was told of, by intent

hookVars == <<call, granted, inFlight, settled>>

(* tool_use_id where the host sends one, else tool name and stable input.  *)
CorrelationKey(c) == IF ToolUseId[c] # {} THEN ToolUseId[c] ELSE InputOf[c]

Payments == UNION {IntentOf[c] : c \in ToolCall}
Keys == {CorrelationKey(c) : c \in ToolCall}

HooksInit ==
  /\ call = [c \in ToolCall |-> "new"]
  /\ granted = [i \in Payments |-> {}]
  /\ inFlight = [k \in Keys |-> {}]
  /\ settled = [i \in Payments |-> {}]

Moves(c, to) == call' = [call EXCEPT ![c] = to]

(* decide(): a resolver that throws denies; no intent, no opinion. *)
Resolve(c) ==
  /\ call[c] = "new"
  /\ \/ IntentOf[c] = {} /\ Moves(c, "noOpinion")
     \/ IntentOf[c] # {} /\ Moves(c, "asking")
     \/ Moves(c, "denied")
  /\ UNCHANGED <<granted, inFlight, settled>>

ReplayAllows(c) == Moves(c, "authorized") /\ UNCHANGED granted

(* A replay is denied whatever became of the first attempt (replayReason). *)
ReplayDenies(c) == Moves(c, "denied") /\ UNCHANGED granted

(* guard.authorize() answers "authorized" or "replayed", refuses or throws. *)
Authorize(c) ==
  /\ call[c] = "asking"
  /\ \E i \in IntentOf[c] :
       \/ granted[i] = {} /\ Moves(c, "authorized")
          /\ granted' = [granted EXCEPT ![i] = {c}]
       \/ granted[i] # {} /\ ReplayDenies(c)
       \/ Moves(c, "denied") /\ UNCHANGED granted
  /\ UNCHANGED <<inFlight, settled>>

(* The answer reaches preToolUse, which remembers it and allows the tool.  *)
Remember(c) ==
  /\ call[c] = "authorized"
  /\ inFlight' = [inFlight EXCEPT ![CorrelationKey(c)] = IntentOf[c]]
  /\ Moves(c, "allowed")
  /\ UNCHANGED <<granted, settled>>

(* The host runs what is allowed, and what nobody had an opinion about; a  *)
(* failing or interrupted tool is reported as a failure event.             *)
RunTool(c) ==
  /\ call[c] \in {"allowed", "noOpinion"}
  /\ \E outcome \in {"executed", "failed"} : Moves(c, outcome)
  /\ UNCHANGED <<granted, inFlight, settled>>

PostToolUse(c) ==
  LET k == CorrelationKey(c) IN
  /\ call[c] \in {"executed", "failed"}
  /\ inFlight' = [inFlight EXCEPT ![k] = {}]
  /\ settled' = [i \in Payments |->
       settled[i] \cup IF i \in inFlight[k] THEN {<<c, call[c]>>} ELSE {}]
  /\ Moves(c, "over")
  /\ UNCHANGED granted

HooksNext ==
  \E c \in ToolCall :
    Resolve(c) \/ Authorize(c) \/ Remember(c) \/ RunTool(c) \/ PostToolUse(c)

HooksSpec == HooksInit /\ [][HooksNext]_hookVars
-----------------------------------------------------------------------------
(* resolve() answers with one payment or with none. *)
ASSUME OneIntent == \A c \in ToolCall : \A i, j \in IntentOf[c] : i = j

(* Hosts that send an id, and calls whose payment inputs differ, have keys *)
(* of their own.  Two equal calls without an id would share one.           *)
ASSUME KeysApart ==
  \A c, d \in ToolCall : c # d /\ IntentOf[c] # {} => CorrelationKey(c) # CorrelationKey(d)

(* A payment tool runs at most once an intent, on its own authorization,   *)
(* and what the guard is told of an intent is what became of exactly the   *)
(* tool call it authorized, however the events of concurrent calls         *)
(* interleave; a finished payment has been settled.                        *)
SettledAsItRan ==
  \A c \in ToolCall : \A i \in IntentOf[c] :
    /\ call[c] \in {"allowed", "executed", "failed", "over"} => granted[i] = {c}
    /\ call[c] = "over" => settled[i] \in {{<<c, "executed">>}, {<<c, "failed">>}}
    /\ \A s \in settled[i] : s[1] = c \/ granted[i] # {c}
=============================================================================
