--------------------------- MODULE AppendOnlyLog ---------------------------
(***************************************************************************)
(* What the audit ledger promises to whoever appends to it: entries are    *)
(* only ever added at the end, each at most once; an append that was       *)
(* acknowledged is on the log, one that lost the race for the tip never    *)
(* will be, and of one that failed in any other way nothing is promised.   *)
(***************************************************************************)
EXTENDS Naturals, Sequences

CONSTANT Call         \* the appends that are ever asked for

VARIABLES
  log,                \* the appends on the log, in order
  told                \* what the caller of each append has been told

logVars == <<log, told>>

Answer == {"idle", "asked", "ok", "refused", "unknown"}

OnLog(c) == \E i \in DOMAIN log : log[i] = c

LogInit == log = << >> /\ told = [c \in Call |-> "idle"]

Ask(c) ==
  /\ told[c] = "idle"
  /\ told' = [told EXCEPT ![c] = "asked"]
  /\ UNCHANGED log

\* An append whose caller was told of a failure may still land.
Commit(c) ==
  /\ told[c] \in {"asked", "unknown"}
  /\ ~OnLog(c)
  /\ log' = Append(log, c)
  /\ UNCHANGED told

Acknowledge(c) ==
  /\ told[c] = "asked" /\ OnLog(c)
  /\ told' = [told EXCEPT ![c] = "ok"]
  /\ UNCHANGED log

Refuse(c) ==
  /\ told[c] = "asked" /\ ~OnLog(c)
  /\ told' = [told EXCEPT ![c] = "refused"]
  /\ UNCHANGED log

\* Several at once: a writer that dies takes its whole queue with it.
Abandon(S) ==
  /\ \A c \in S : told[c] = "asked"
  /\ told' = [c \in Call |-> IF c \in S THEN "unknown" ELSE told[c]]
  /\ UNCHANGED log

LogNext ==
  \/ \E c \in Call : Ask(c) \/ Commit(c) \/ Acknowledge(c) \/ Refuse(c)
  \/ \E S \in SUBSET Call : Abandon(S)

LogSpec == LogInit /\ [][LogNext]_logVars
=============================================================================
