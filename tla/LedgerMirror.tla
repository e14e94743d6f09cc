---------------------------- MODULE LedgerMirror ----------------------------
(***************************************************************************)
(* A ledger mirrored into a transparency tree and its published heads:     *)
(* LedgerMirror of transparency/src/mirror.ts over TransparencyLog         *)
(* (tree.ts) and the JSONL tree file (stores/jsonl.ts).                    *)
(*                                                                         *)
(* A leaf is the row it is the hash of, a root the leaves it commits to.   *)
(* A torn write leaves an unterminated last line: a part of a leaf, or a   *)
(* whole leaf without its newline.  Every load repairs it, so what only    *)
(* reads the tree also writes the file: load() reads, and later appends a  *)
(* newline or truncates to the length it saw.                              *)
(***************************************************************************)
EXTENDS Naturals, FiniteSets, Sequences, SequencesExt

CONSTANTS
  Rows,          \* what a ledger row may say
  MaxRows,       \* bound: rows the ledger reaches
  MaxFaults,     \* bound: torn writes, edits of the ledger, lines gone bad
  ProofsOfTorn   \* are proofs asked for while the tree file has a torn line

VARIABLES
  ledger,     \* the rows the audit ledger returns
  file,       \* the tree file: terminated lines, unterminated tail
  raw,        \* what a load() has read and not yet repaired, per loader
  pc,         \* where the task of the mirror's queue stands
  task,       \* its locals: entries, before, first, rows still to append, head
  heads,      \* signed tree heads handed out
  audited,    \* last audit(): its result, the ledger it read, the heads signed before
  torn, tampered,
  rotten      \* faults so far: torn writes, ledger edits, lines of the tree file gone bad

mirrorVars == <<ledger, file, raw, pc, task, heads, audited, torn, tampered, rotten>>

Faults == torn + tampered + rotten

Garbage == "garbage"
NoTail == "none"
Nothing == [lines |-> <<>>, tail |-> "unread"]
Loaders == {"mirror", "reader"}
NoTask == [entries |-> <<>>, before |-> 0, first |-> 0, fresh |-> <<>>, head |-> <<>>]

(* A row is not what stands for the absence of one.                         *)
ASSUME MirrorAssumption ==
  Rows \cap {Garbage, NoTail, Nothing.tail} = {} /\ ProofsOfTorn \in BOOLEAN

MirrorInit ==
  /\ ledger = <<>>
  /\ file = [lines |-> <<>>, tail |-> NoTail]
  /\ raw = [l \in Loaders |-> Nothing]
  /\ pc = "idle" /\ task = NoTask
  /\ heads = {}
  /\ audited = [ok |-> TRUE, entries |-> <<>>, signed |-> {}]
  /\ torn = 0 /\ tampered = 0 /\ rotten = 0

(* The lines of a file as load() returns them. *)
Repaired(f) == IF f.tail \in {NoTail, Garbage} THEN f.lines ELSE Append(f.lines, f.tail)
Corrupt(f) == \E n \in DOMAIN Repaired(f) : Repaired(f)[n] = Garbage

(* The writes of a repair: a newline, or a truncation to where the torn     *)
(* line began; past the end of a file cut meanwhile, it pads with garbage.  *)
Terminated(f) ==
  IF f.tail = NoTail THEN f ELSE [lines |-> Append(f.lines, f.tail), tail |-> NoTail]

CutTo(n, f) ==
  IF n > Len(f.lines) THEN [f EXCEPT !.tail = Garbage]
  ELSE [lines |-> SubSeq(f.lines, 1, n), tail |-> NoTail]

RepairNewline(seen, f) == IF seen.tail = NoTail THEN f ELSE Terminated(f)

Repair(seen, f) ==
  IF seen.tail = NoTail THEN f
  ELSE IF seen.tail = Garbage THEN CutTo(Len(seen.lines), f)
  ELSE Terminated(f)

-----------------------------------------------------------------------------
(* load(), by a step of the mirror's task or by a proof being made.         *)

ReadTree(l) ==
  /\ raw[l] = Nothing
  /\ IF l = "mirror" THEN pc \in {"size", "before", "all", "audit"} ELSE ProofsOfTorn \/ file.tail = NoTail
  /\ raw' = [raw EXCEPT ![l] = file]
  /\ UNCHANGED <<ledger, file, pc, task, heads, audited, torn, tampered, rotten>>

Loaded(l) ==
  /\ raw[l] # Nothing
  /\ raw' = [raw EXCEPT ![l] = Nothing]
  /\ file' = Repair(raw[l], file)

ProofMade ==
  /\ Loaded("reader")
  /\ UNCHANGED <<ledger, pc, task, heads, audited, torn, tampered, rotten>>

Reject == pc' = "idle" /\ task' = NoTask

Unreadable ==
  /\ Loaded("mirror") /\ Corrupt(raw["mirror"])
  /\ Reject
  /\ UNCHANGED <<ledger, heads, audited, torn, tampered, rotten>>

TreeIs(lines) == Loaded("mirror") /\ ~Corrupt(raw["mirror"]) /\ lines = Repaired(raw["mirror"])

-----------------------------------------------------------------------------
(* sync() and audit(), one at a time through the mirror's queue.            *)

Start ==
  /\ pc = "idle"
  /\ pc' \in {"size", "audit"}
  /\ task' = [NoTask EXCEPT !.entries = ledger]
  /\ UNCHANGED <<ledger, file, raw, heads, audited, torn, tampered, rotten>>

SizeKnown(lines) ==
  /\ pc = "size"
  /\ IF Len(lines) > Len(task.entries) THEN Reject
     ELSE LET fresh == SubSeq(task.entries, Len(lines) + 1, Len(task.entries)) IN
          /\ pc' = IF fresh = <<>> THEN "all" ELSE "before"
          /\ task' = [task EXCEPT !.before = Len(lines), !.first = Len(lines), !.fresh = fresh]
  /\ UNCHANGED <<ledger, heads, audited, torn, tampered, rotten>>

BatchStarts(lines) ==
  /\ pc = "before"
  /\ pc' = "append" /\ task' = [task EXCEPT !.first = Len(lines)]
  /\ UNCHANGED <<ledger, heads, audited, torn, tampered, rotten>>

Ready(f) == [lines |-> Repaired(f), tail |-> NoTail]

AppendLeaf ==
  /\ pc = "append"
  /\ file' = [Ready(file) EXCEPT !.lines = Append(@, Head(task.fresh))]
  /\ task' = [task EXCEPT !.fresh = Tail(@)]
  /\ pc' = IF Tail(task.fresh) = <<>> THEN "all" ELSE "append"
  /\ UNCHANGED <<ledger, raw, heads, audited, torn, tampered, rotten>>

(* The write stops half way: the disk is full, or the process dies.         *)
TornAppend ==
  /\ pc = "append" /\ Faults < MaxFaults /\ torn' = torn + 1
  /\ \E left \in {Garbage, Head(task.fresh)} : file' = [Ready(file) EXCEPT !.tail = left]
  /\ Reject
  /\ UNCHANGED <<ledger, raw, heads, audited, tampered, rotten>>

HeadKnown(lines) ==
  /\ pc = "all"
  /\ IF task.first # task.before THEN Reject
     ELSE pc' = "sign" /\ task' = [task EXCEPT !.head = lines]
  /\ UNCHANGED <<ledger, heads, audited, torn, tampered, rotten>>

SignHead ==
  /\ pc = "sign"
  /\ heads' \in {heads, heads \cup {task.head}}
  /\ Reject
  /\ UNCHANGED <<ledger, file, raw, audited, torn, tampered, rotten>>

AuditRuns(lines) ==
  /\ pc = "audit"
  /\ audited' = [ok |-> IsPrefix(lines, task.entries), entries |-> task.entries, signed |-> heads]
  /\ Reject
  /\ UNCHANGED <<ledger, heads, torn, tampered, rotten>>

TaskLoads ==
  \E lines \in {Repaired(raw["mirror"])} :
    /\ TreeIs(lines)
    /\ SizeKnown(lines) \/ BatchStarts(lines) \/ HeadKnown(lines) \/ AuditRuns(lines)

-----------------------------------------------------------------------------
Crash ==
  /\ raw' = [l \in Loaders |-> Nothing]
  /\ Reject
  /\ UNCHANGED <<ledger, file, heads, audited, torn, tampered, rotten>>

(* The guard's ledger grows under the mirror; someone edits its store.      *)
GuardAppends ==
  /\ Len(ledger) < MaxRows
  /\ \E row \in Rows : ledger' = Append(ledger, row)
  /\ UNCHANGED <<file, raw, pc, task, heads, audited, torn, tampered, rotten>>

Tamper ==
  /\ Faults < MaxFaults /\ tampered' = tampered + 1
  /\ \E n \in DOMAIN ledger :
       \/ \E row \in Rows \ {ledger[n]} : ledger' = [ledger EXCEPT ![n] = row]
       \/ ledger' = SubSeq(ledger, 1, n - 1)
  /\ UNCHANGED <<file, raw, pc, task, heads, audited, torn, rotten>>

Rot ==
  /\ Faults < MaxFaults /\ rotten' = rotten + 1
  /\ \E n \in DOMAIN file.lines : file' = [file EXCEPT !.lines[n] = Garbage]
  /\ UNCHANGED <<ledger, raw, pc, task, heads, audited, torn, tampered>>

MirrorNext ==
  \/ ReadTree("mirror") \/ ReadTree("reader")
  \/ ProofMade \/ Unreadable \/ TaskLoads
  \/ Start \/ AppendLeaf \/ TornAppend \/ SignHead
  \/ Crash \/ GuardAppends \/ Tamper \/ Rot

MirrorSpec == MirrorInit /\ [][MirrorNext]_mirrorVars

-----------------------------------------------------------------------------
(* Published history only grows: every signed head is a prefix of what the  *)
(* tree file now loads as, and while nobody edits the ledger the tree is a  *)
(* readable prefix of it, through torn writes, failed signers and restarts  *)
(* between any two steps.                                                   *)
HistoryOnlyGrows ==
  rotten = 0 =>
    /\ \A head \in heads : IsPrefix(head, Repaired(file))
    /\ ~Corrupt(file)
    /\ tampered = 0 => IsPrefix(Repaired(file), ledger)

(* As above; no head is ever signed over a line that went bad; and audit()  *)
(* tells the truth of the ledger it read: it passes only a ledger that      *)
(* begins with every head signed so far, and blames only an edited one.     *)
MirrorsTheLedger ==
  /\ HistoryOnlyGrows
  /\ \A head \in heads : \A n \in DOMAIN head : head[n] # Garbage
  /\ IF audited.ok THEN \A head \in audited.signed : IsPrefix(head, audited.entries)
     ELSE tampered > 0
=============================================================================
