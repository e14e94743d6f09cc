---------------------------- MODULE HistoryProofs ----------------------------
(* The proofs of Witness, of LedgerMirror, of Anchor and of MerkleTree: what *)
(* one party vouched for stays the beginning of what it vouches for next,    *)
(* across whatever fails, a quorum of cosignatures is a quorum of witnesses, *)
(* and what the verifiers of the tree accept is what the proofs claim.       *)
EXTENDS MerkleTree, Witness, LedgerMirror, Anchor, FiniteSetTheorems, WellFoundedInduction,
        TLAPS

(* A prefix, element by element. *)
LEMMA PrefixElements ==
  ASSUME NEW S, NEW s \in Seq(S), NEW t \in Seq(S)
  PROVE  IsPrefix(s, t) <=> Len(s) <= Len(t) /\ \A i \in 1..Len(s) : s[i] = t[i]
<1>1. ASSUME Len(s) <= Len(t)
      PROVE  /\ SubSeq(s, 1, Len(s)) = s
             /\ SubSeq(t, 1, Len(s)) = [i \in 1..Len(s) |-> t[i]]
  BY <1>1
<1>2. s = [i \in 1..Len(s) |-> s[i]] OBVIOUS
<1>3. QED BY <1>1, <1>2 DEF IsPrefix

(* A prefix of a prefix is a prefix. *)
LEMMA PrefixTransitive ==
  ASSUME NEW S, NEW s \in Seq(S), NEW t \in Seq(S), NEW u \in Seq(S),
         IsPrefix(s, t), IsPrefix(t, u)
  PROVE  IsPrefix(s, u)
BY PrefixElements

(* Every sequence is a prefix of itself, and one of its own length is all of *)
(* it. *)
LEMMA PrefixSameLength ==
  ASSUME NEW S, NEW s \in Seq(S), NEW t \in Seq(S)
  PROVE  /\ IsPrefix(s, s)
         /\ IsPrefix(s, t) /\ Len(s) = Len(t) => s = t
<1>1. IsPrefix(s, s) BY PrefixElements
<1>2. ASSUME IsPrefix(s, t), Len(s) = Len(t) PROVE s = t
  BY <1>2, PrefixElements
<1>3. QED BY <1>1, <1>2

-----------------------------------------------------------------------------
(* The witness.  What it holds only ever grows from what it stored, and what *)
(* it stored from what it handed out: the state in memory may run ahead of   *)
(* the stored one, by failed commits, but never beside it. *)

(* `b` is `a` itself, or a larger tree that `a` is a prefix of. *)
Below(a, b) ==
  a = b \/ (Len(a.leaves) < Len(b.leaves) /\ IsPrefix(a.leaves, b.leaves))

OneHistory(a, b) ==
  \/ a.leaves = b.leaves /\ a = b
  \/ a.leaves # b.leaves /\ (IsPrefix(a.leaves, b.leaves) \/ IsPrefix(b.leaves, a.leaves))

WitnessInv ==
  /\ released \subseteq Bodies /\ {state, stored, committing} \subseteq Bodies \cup {NoBody}
  /\ committing # NoBody => committing = state
  /\ stored # NoBody => state # NoBody /\ Below(stored, state)
  /\ \A r \in released : stored # NoBody /\ Below(r, stored)
  /\ \A a, b \in released : OneHistory(a, b)

(* The monitor: its last head is the largest of those it accepted. *)
MonitorInv ==
  /\ accepted \subseteq Bodies /\ lastHead \in Bodies \cup {NoBody}
  /\ lastHead = NoBody => accepted = {}
  /\ \A h \in accepted : IsPrefix(h.leaves, lastHead.leaves)
  /\ \A a, b \in accepted : IsPrefix(a.leaves, b.leaves) \/ IsPrefix(b.leaves, a.leaves)

(* A right consistency proof, or an empty tree before it, shows a prefix. *)
LEMMA GrowsIsBelow ==
  ASSUME NEW prev \in Bodies, NEW note \in Notes, Grows(prev, note)
  PROVE  /\ note.body \in Bodies
         /\ Len(prev.leaves) < Len(note.body.leaves)
         /\ IsPrefix(prev.leaves, note.body.leaves)
<1>1. note.body \in Bodies BY DEF Notes
<1>2. prev.leaves \in Seq(SignedLeaves) /\ note.body.leaves \in Seq(SignedLeaves)
  BY <1>1, WitnessAssumption
<1>3. IsPrefix(prev.leaves, note.body.leaves)
  <2>1. CASE prev.leaves = <<>>
    <3>1. Len(prev.leaves) = 0 /\ Len(note.body.leaves) \in Nat BY <1>2, <2>1
    <3>2. QED BY <1>2, <3>1, PrefixElements
  <2>2. CASE IsPrefix(prev.leaves, note.body.leaves) BY <2>2
  <2>3. QED BY <2>1, <2>2 DEF Grows, Proven
<1>4. QED BY <1>1, <1>2, <1>3 DEF Grows

LEMMA BelowTransitive ==
  ASSUME NEW a \in Bodies, NEW b \in Bodies, NEW c \in Bodies, Below(a, b), Below(b, c)
  PROVE  Below(a, c)
<1>1. /\ a.leaves \in Seq(SignedLeaves) /\ b.leaves \in Seq(SignedLeaves)
      /\ c.leaves \in Seq(SignedLeaves)
  BY WitnessAssumption
<1>2. /\ Len(a.leaves) \in Nat /\ Len(b.leaves) \in Nat /\ Len(c.leaves) \in Nat
  BY <1>1
<1>3. CASE a = b \/ b = c BY <1>3
<1>4. CASE a # b /\ b # c
  <2>1. IsPrefix(a.leaves, b.leaves) /\ IsPrefix(b.leaves, c.leaves) BY <1>4 DEF Below
  <2>2. IsPrefix(a.leaves, c.leaves) BY <1>1, <2>1, PrefixTransitive
  <2>3. Len(a.leaves) < Len(b.leaves) /\ Len(b.leaves) < Len(c.leaves) BY <1>4 DEF Below
  <2>4. QED BY <1>2, <2>2, <2>3 DEF Below
<1>5. QED BY <1>3, <1>4

(* What is below another tree is of one history with it. *)
LEMMA BelowIsOneHistory ==
  ASSUME NEW a \in Bodies, NEW b \in Bodies, Below(a, b)
  PROVE  OneHistory(a, b) /\ OneHistory(b, a)
<1>1. CASE a = b BY <1>1 DEF OneHistory
<1>2. CASE a # b
  <2>1. Len(a.leaves) \in Nat /\ Len(b.leaves) \in Nat BY WitnessAssumption
  <2>2. Len(a.leaves) < Len(b.leaves) /\ IsPrefix(a.leaves, b.leaves) BY <1>2 DEF Below
  <2>3. a.leaves # b.leaves BY <2>1, <2>2
  <2>4. QED BY <2>2, <2>3 DEF OneHistory
<1>3. QED BY <1>1, <1>2

LEMMA WitnessInvInit == ASSUME WitnessInit PROVE WitnessInv
BY WitnessAssumption DEF WitnessInit, WitnessInv

LEMMA WitnessInvStep ==
  ASSUME WitnessInv, [WitnessNext]_witnessVars
  PROVE  WitnessInv'
<1> USE DEF WitnessInv
<1>1. ASSUME NEW note \in Notes, WitnessObserve(note) PROVE WitnessInv'
  BY <1>1 DEF WitnessObserve, OneHistory, Below
<1>2. ASSUME NEW note \in Notes, Cosign(note) PROVE WitnessInv'
  <2>1. /\ state' = note.body /\ committing' = note.body /\ note.body \in Bodies
        /\ stored' = stored /\ released' = released
    BY <1>2 DEF Cosign, Notes
  <2>2. note.body # NoBody BY <2>1, WitnessAssumption
  <2>3. ASSUME stored # NoBody PROVE Below(stored, note.body)
    <3>1. stored \in Bodies /\ state \in Bodies /\ Below(stored, state) BY <2>3
    <3>2. CASE note.body = state BY <3>1, <3>2
    <3>3. CASE Grows(state, note)
      <4>1. Below(state, note.body) BY <3>1, <3>3, GrowsIsBelow DEF Below
      <4>2. QED BY <2>1, <3>1, <4>1, BelowTransitive
    <3>4. QED BY <1>2, <2>3, <3>2, <3>3 DEF Cosign, Agrees
  <2>4. QED BY <2>1, <2>2, <2>3 DEF OneHistory, Below
<1>3. ASSUME NEW resolved \in BOOLEAN, Commit(resolved) PROVE WitnessInv'
  <2>1. /\ committing # NoBody /\ committing = state /\ committing \in Bodies
        /\ state' = state /\ committing' = NoBody
        /\ stored' \in {stored, committing}
        /\ released' \subseteq released \cup {committing}
    BY <1>3 DEF Commit, HandedOut
  <2>2. released' = released \/ stored' = committing
    BY <1>3 DEF Commit, HandedOut
  <2>3. ASSUME NEW r \in released PROVE r \in Bodies /\ stored \in Bodies /\ Below(r, stored)
    BY <2>3
  <2>4. ASSUME NEW r \in released PROVE Below(r, committing)
    <3>1. stored # NoBody /\ Below(stored, committing) BY <2>1, <2>3, <2>4
    <3>2. QED BY <2>1, <2>3, <2>4, <3>1, BelowTransitive
  <2>5. stored' # NoBody => Below(stored', state') BY <2>1 DEF Below
  <2>6. \A r \in released' : stored' # NoBody /\ Below(r, stored')
    <3>1. CASE stored' = committing BY <2>1, <2>4, <3>1 DEF Below
    <3>2. CASE stored' = stored /\ released' = released BY <3>2
    <3>3. QED BY <2>1, <2>2, <3>1, <3>2
  <2>7. ASSUME NEW a \in released', NEW b \in released' PROVE OneHistory(a, b)
    <3>1. CASE a \in released /\ b \in released BY <3>1
    <3>2. CASE a \in released /\ b = committing
      BY <2>1, <2>3, <2>4, <3>2, BelowIsOneHistory
    <3>3. CASE a = committing /\ b \in released
      BY <2>1, <2>3, <2>4, <3>3, BelowIsOneHistory
    <3>4. CASE a = committing /\ b = committing BY <3>4 DEF OneHistory
    <3>5. QED BY <2>1, <2>7, <3>1, <3>2, <3>3, <3>4
  <2>8. \A a, b \in released' : OneHistory(a, b)' BY <2>7 DEF OneHistory
  <2>9. QED BY <2>1, <2>5, <2>6, <2>8 DEF Below
<1>4. ASSUME WitnessRestarts PROVE WitnessInv'
  <2>1. /\ stored' \in {stored} \cup ({committing} \ {NoBody})
        /\ state' = stored' /\ committing' = NoBody /\ released' = released
    BY <1>4 DEF WitnessRestarts
  <2>2. ASSUME NEW r \in released PROVE stored' # NoBody /\ Below(r, stored')
    <3>1. r \in Bodies /\ stored \in Bodies /\ stored # NoBody /\ Below(r, stored) BY <2>2
    <3>2. CASE stored' = stored BY <3>1, <3>2
    <3>3. CASE stored' = committing /\ committing # NoBody
      <4>1. committing \in Bodies /\ Below(stored, committing) BY <3>1, <3>3
      <4>2. QED BY <3>1, <3>3, <4>1, BelowTransitive
    <3>4. QED BY <2>1, <3>2, <3>3
  <2>3. \A r \in released' : (stored # NoBody /\ Below(r, stored))'
    BY <2>1, <2>2 DEF Below
  <2>4. QED BY <2>1, <2>3 DEF OneHistory, Below
<1>5. ASSUME UNCHANGED witnessVars PROVE WitnessInv'
  BY <1>5 DEF witnessVars, OneHistory, Below
<1>6. QED BY <1>1, <1>2, <1>3, <1>4, <1>5 DEF WitnessNext

LEMMA MonitorInvInit == ASSUME WitnessInit PROVE MonitorInv
BY DEF WitnessInit, MonitorInv

LEMMA MonitorInvStep ==
  ASSUME MonitorInv, [WitnessNext]_witnessVars
  PROVE  MonitorInv'
<1> USE DEF MonitorInv
<1>1. ASSUME NEW note \in Notes, WitnessObserve(note) PROVE MonitorInv'
  <2>1. /\ lastHead' = note.body /\ note.body \in Bodies
        /\ accepted' = accepted \cup {note.body}
    BY <1>1 DEF WitnessObserve, Notes
  <2>2. note.body.leaves \in Seq(SignedLeaves) /\ IsPrefix(note.body.leaves, note.body.leaves)
    BY <2>1, WitnessAssumption, PrefixSameLength
  <2>3. ASSUME NEW h \in accepted PROVE IsPrefix(h.leaves, note.body.leaves)
    <3>1. /\ lastHead \in Bodies /\ lastHead # NoBody
          /\ h.leaves \in Seq(SignedLeaves) /\ lastHead.leaves \in Seq(SignedLeaves)
          /\ IsPrefix(h.leaves, lastHead.leaves)
      BY <2>3, WitnessAssumption
    <3>2. CASE note.body.leaves = lastHead.leaves BY <3>1, <3>2
    <3>3. CASE Grows(lastHead, note)
      BY <2>2, <3>1, <3>3, GrowsIsBelow, PrefixTransitive
    <3>4. QED BY <1>1, <3>1, <3>2, <3>3 DEF WitnessObserve, Follows
  <2>4. lastHead' # NoBody BY <2>1, WitnessAssumption
  <2>5. QED BY <2>1, <2>2, <2>3, <2>4
<1>2. ASSUME UNCHANGED <<lastHead, accepted>> PROVE MonitorInv'
  BY <1>2
<1>3. QED
  BY <1>1, <1>2 DEF WitnessNext, Cosign, Commit, WitnessRestarts, witnessVars

(* The cosigned checkpoints are one history with one body for each of its    *)
(* trees, and the heads the monitor accepted are one history and no split    *)
(* view: for every set of checkpoints the log may sign, with whatever proofs *)
(* it sends, every throw of onCommit() and every number of restarts. *)
THEOREM WitnessNeverContradicts == WitnessSpec => []NeverContradictsItself
<1>1. WitnessInv /\ MonitorInv => NeverContradictsItself
  <2>1. ASSUME WitnessInv, MonitorInv, NEW a \in accepted, NEW b \in accepted,
               Len(a.leaves) = Len(b.leaves)
        PROVE  a.leaves = b.leaves
    <3>1. a.leaves \in Seq(SignedLeaves) /\ b.leaves \in Seq(SignedLeaves)
      BY <2>1, WitnessAssumption DEF MonitorInv
    <3>2. IsPrefix(a.leaves, b.leaves) \/ IsPrefix(b.leaves, a.leaves)
      BY <2>1 DEF MonitorInv
    <3>3. QED BY <2>1, <3>1, <3>2, PrefixSameLength
  <2>2. QED BY <2>1 DEF WitnessInv, MonitorInv, NeverContradictsItself, OneHistory, SplitView
<1>2. QED
  BY <1>1, WitnessInvInit, WitnessInvStep, MonitorInvInit, MonitorInvStep, PTL DEF WitnessSpec

-----------------------------------------------------------------------------
(* The mirror.  Between any two steps the tree file loads as one sequence of *)
(* lines, Tree: a torn tail is a leaf of it or no part of it, and repairing  *)
(* the file as it was read does not change it.  Only the step that appends   *)
(* makes it longer; a line gone bad leaves its length.  So whatever was      *)
(* signed, read or computed from the tree agrees with it, but for such lines.*)

Lines == Rows \cup {Garbage}

FileOK(f) == f.lines \in Seq(Lines) /\ f.tail \in Rows \cup {NoTail, Garbage}

Tree == Repaired(file)

(* `read` begins with `head`, and is the beginning of `rows`: but for read   *)
(* gone bad. *)
Holds(head, read) ==
  Len(head) <= Len(read) /\ \A n \in 1..Len(head) : read[n] = head[n] \/ read[n] = Garbage

UpTo(read, rows) ==
  Len(read) <= Len(rows) /\ \A n \in 1..Len(read) : read[n] = rows[n] \/ read[n] = Garbage

MirrorTypeOK ==
  /\ ledger \in Seq(Rows) /\ FileOK(file)
  /\ DOMAIN raw = Loaders /\ \A l \in Loaders : raw[l] = Nothing \/ FileOK(raw[l])
  /\ pc \in {"idle", "size", "before", "append", "all", "sign", "audit"}
  /\ DOMAIN task = {"entries", "before", "first", "fresh", "head"}
  /\ task.entries \in Seq(Rows) /\ task.fresh \in Seq(Rows)
  /\ heads \subseteq Seq(Rows)
  /\ tampered \in Nat /\ rotten \in Nat

(* What a loader has read: the file of now, but for lines gone bad since.    *)
ReadIsCurrent ==
  /\ raw["reader"] # Nothing => raw["reader"].tail = NoTail
  /\ raw["mirror"] # Nothing =>
       LET seen == raw["mirror"] IN
       /\ pc \in {"size", "before", "all", "audit"}
       /\ seen.tail = file.tail /\ Len(seen.lines) = Len(file.lines)
       /\ \A n \in 1..Len(seen.lines) : file.lines[n] = seen.lines[n] \/ file.lines[n] = Garbage
       /\ \A head \in heads : Holds(head, Repaired(seen))
       /\ tampered = 0 => UpTo(Repaired(seen), task.entries)

TreeIsSound ==
  /\ rotten = 0 => \A n \in 1..Len(file.lines) : file.lines[n] # Garbage
  /\ \A head \in heads : Holds(head, Tree)
  /\ tampered = 0 => UpTo(Tree, ledger)

(* What a task works with: a ledger that has only grown, the rows that come  *)
(* after the tree, a head the tree begins with.                              *)
TaskIsSound ==
  /\ pc # "idle" /\ tampered = 0 => UpTo(Tree, task.entries) /\ UpTo(task.entries, ledger)
  /\ pc \in {"before", "append"} =>
       /\ task.fresh # <<>> /\ Len(Tree) + Len(task.fresh) = Len(task.entries)
       /\ \A n \in 1..Len(task.fresh) : task.fresh[n] = task.entries[Len(Tree) + n]
  /\ pc = "sign" => task.head \in Seq(Rows) /\ Holds(task.head, Tree)

AuditIsSound ==
  /\ audited.ok \in BOOLEAN
  /\ IF audited.ok THEN \A head \in audited.signed : IsPrefix(head, audited.entries)
     ELSE tampered > 0

MirrorIInv == MirrorTypeOK /\ ReadIsCurrent /\ TreeIsSound /\ TaskIsSound /\ AuditIsSound

LEMMA RepairedLines ==
  ASSUME NEW f, FileOK(f)
  PROVE  /\ Repaired(f) \in Seq(Lines)
         /\ f.tail \in {NoTail, Garbage} => Repaired(f) = f.lines
         /\ f.tail \notin {NoTail, Garbage} =>
              /\ Repaired(f) = Append(f.lines, f.tail) /\ f.tail \in Rows
              /\ Len(Repaired(f)) = Len(f.lines) + 1 /\ Repaired(f)[Len(f.lines) + 1] = f.tail
              /\ \A n \in 1..Len(f.lines) : Repaired(f)[n] = f.lines[n]
BY DEF Repaired, FileOK, Lines

(* Repairing a file as it was read leaves what it loads as. *)
LEMMA RepairKeepsTree ==
  ASSUME NEW f, NEW seen, FileOK(f), seen.tail = f.tail, Len(seen.lines) = Len(f.lines)
  PROVE  LET g == Repair(seen, f) IN
         /\ FileOK(g) /\ Repaired(g) = Repaired(f)
         /\ (\A n \in 1..Len(f.lines) : f.lines[n] # Garbage) =>
              \A n \in 1..Len(g.lines) : g.lines[n] # Garbage
<1> DEFINE g == Repair(seen, f)
<1>1. CASE f.tail = NoTail
  BY <1>1 DEF Repair
<1>2. CASE f.tail = Garbage
  <2>1. g = [lines |-> SubSeq(f.lines, 1, Len(f.lines)), tail |-> NoTail]
    BY <1>2 DEF Repair, CutTo, FileOK, Garbage, NoTail
  <2>2. SubSeq(f.lines, 1, Len(f.lines)) = f.lines
    BY DEF FileOK
  <2> QED
    BY <1>2, <2>1, <2>2 DEF FileOK, Repaired
<1>3. CASE f.tail \notin {NoTail, Garbage}
  <2>1. g = [lines |-> Append(f.lines, f.tail), tail |-> NoTail]
    BY <1>3 DEF Repair, Terminated
  <2>2. f.tail \in Rows /\ f.tail # Garbage
    BY <1>3 DEF FileOK
  <2> QED
    BY <1>3, <2>1, <2>2 DEF FileOK, Repaired, Lines
<1> QED
  BY <1>1, <1>2, <1>3

LEMMA MirrorInitiallyHolds == MirrorInit => MirrorIInv
<1> SUFFICES ASSUME MirrorInit PROVE MirrorIInv
  OBVIOUS
<1>1. FileOK(file) /\ Tree = <<>>
  BY DEF MirrorInit, FileOK, Tree, Repaired, NoTail
<1> QED
  BY <1>1 DEF MirrorInit, MirrorIInv, MirrorTypeOK, ReadIsCurrent, TreeIsSound, TaskIsSound,
              AuditIsSound, Loaders, NoTask, UpTo

(* What a task's load returns and leaves. *)
LEMMA LoadKeepsTree ==
  ASSUME MirrorIInv, Loaded("mirror")
  PROVE  LET read == Repaired(raw["mirror"]) IN
         /\ pc \in {"size", "before", "all", "audit"}
         /\ DOMAIN raw' = Loaders /\ raw'["mirror"] = Nothing /\ raw'["reader"] = raw["reader"]
         /\ FileOK(file') /\ Tree' = Tree
         /\ rotten = 0 => \A n \in 1..Len(file'.lines) : file'.lines[n] # Garbage
         /\ read \in Seq(Lines) /\ Tree \in Seq(Lines) /\ Len(Tree) = Len(read)
         /\ \A n \in 1..Len(read) : Tree[n] = read[n] \/ Tree[n] = Garbage
         /\ \A head \in heads : Holds(head, read)
         /\ tampered = 0 => UpTo(read, task.entries)
<1> DEFINE seen == raw["mirror"]
<1>1. /\ pc \in {"size", "before", "all", "audit"}
      /\ FileOK(file) /\ FileOK(seen)
      /\ seen.tail = file.tail /\ Len(seen.lines) = Len(file.lines)
      /\ \A n \in 1..Len(seen.lines) : file.lines[n] = seen.lines[n] \/ file.lines[n] = Garbage
      /\ \A head \in heads : Holds(head, Repaired(seen))
      /\ tampered = 0 => UpTo(Repaired(seen), task.entries)
  BY DEF Loaded, MirrorIInv, MirrorTypeOK, ReadIsCurrent, Loaders
<1>2. /\ DOMAIN raw' = Loaders /\ raw'["mirror"] = Nothing /\ raw'["reader"] = raw["reader"]
      /\ file' = Repair(seen, file)
  BY DEF Loaded, MirrorIInv, MirrorTypeOK, Loaders
<1>3. /\ FileOK(file') /\ Repaired(file') = Repaired(file)
      /\ rotten = 0 => \A n \in 1..Len(file'.lines) : file'.lines[n] # Garbage
  BY <1>1, <1>2, RepairKeepsTree DEF MirrorIInv, TreeIsSound
<1>4. /\ Repaired(seen) \in Seq(Lines) /\ Repaired(file) \in Seq(Lines)
      /\ Len(Repaired(file)) = Len(Repaired(seen))
      /\ \A n \in 1..Len(Repaired(seen)) :
           Repaired(file)[n] = Repaired(seen)[n] \/ Repaired(file)[n] = Garbage
  <2>1. CASE file.tail \in {NoTail, Garbage}
    BY <1>1, <2>1, RepairedLines
  <2>2. CASE file.tail \notin {NoTail, Garbage}
    <3>1. /\ Repaired(seen) \in Seq(Lines) /\ Len(Repaired(seen)) = Len(file.lines) + 1
          /\ Repaired(seen)[Len(file.lines) + 1] = file.tail
          /\ \A n \in 1..Len(file.lines) : Repaired(seen)[n] = seen.lines[n]
      BY <1>1, <2>2, RepairedLines
    <3>2. /\ Repaired(file) \in Seq(Lines) /\ Len(Repaired(file)) = Len(file.lines) + 1
          /\ Repaired(file)[Len(file.lines) + 1] = file.tail
          /\ \A n \in 1..Len(file.lines) : Repaired(file)[n] = file.lines[n]
      BY <1>1, <2>2, RepairedLines
    <3>3. Len(file.lines) \in Nat
      BY <1>1 DEF FileOK
    <3> QED
      BY <1>1, <3>1, <3>2, <3>3
  <2> QED
    BY <2>1, <2>2
<1> QED
  BY <1>1, <1>2, <1>3, <1>4 DEF Tree

(* A load leaves the invariant to what its task does with it. *)
LEMMA LoadIsSound ==
  ASSUME MirrorIInv, Loaded("mirror"), UNCHANGED <<ledger, heads, tampered, rotten>>,
         pc' \in {"idle", "size", "before", "append", "all", "sign", "audit"},
         DOMAIN task' = {"entries", "before", "first", "fresh", "head"},
         task'.entries \in Seq(Rows), task'.fresh \in Seq(Rows),
         TaskIsSound', AuditIsSound'
  PROVE  MirrorIInv'
<1>1. /\ DOMAIN raw' = Loaders /\ raw'["mirror"] = Nothing /\ raw'["reader"] = raw["reader"]
      /\ FileOK(file') /\ Tree' = Tree
      /\ rotten = 0 => \A n \in 1..Len(file'.lines) : file'.lines[n] # Garbage
  BY LoadKeepsTree
<1>2. MirrorTypeOK'
  BY <1>1 DEF MirrorIInv, MirrorTypeOK, Loaders
<1>3. ReadIsCurrent'
  BY <1>1 DEF MirrorIInv, ReadIsCurrent
<1>4. TreeIsSound'
  BY <1>1 DEF MirrorIInv, TreeIsSound
<1> QED
  BY <1>2, <1>3, <1>4 DEF MirrorIInv

(* A task that gives up leaves nothing to hold. *)
LEMMA RejectIsSound ==
  ASSUME Reject
  PROVE  /\ TaskIsSound' /\ pc' = "idle"
         /\ DOMAIN task' = {"entries", "before", "first", "fresh", "head"}
         /\ task'.entries \in Seq(Rows) /\ task'.fresh \in Seq(Rows)
BY DEF Reject, NoTask, TaskIsSound

(* A sequence of rows that the lines begin with, none of them gone bad, is   *)
(* a prefix. *)
LEMMA SoundIsPrefix ==
  ASSUME NEW read \in Seq(Lines), \A n \in 1..Len(read) : read[n] # Garbage
  PROVE  /\ \A head \in Seq(Rows) : Holds(head, read) => IsPrefix(head, read)
         /\ \A rows \in Seq(Rows) : UpTo(read, rows) => IsPrefix(read, rows)
<1>1. read \in Seq(Rows)
  BY DEF Lines
<1>2. \A head \in Seq(Rows) : Holds(head, read) => IsPrefix(head, read)
  BY <1>1, PrefixElements DEF Holds
<1>3. \A rows \in Seq(Rows) : UpTo(read, rows) => IsPrefix(read, rows)
  BY <1>1, PrefixElements DEF UpTo
<1> QED
  BY <1>2, <1>3

(* While no line goes bad, every line of the tree is readable. *)
LEMMA TreeIsReadable ==
  ASSUME MirrorIInv
  PROVE  Tree \in Seq(Lines) /\ (rotten = 0 => \A n \in 1..Len(Tree) : Tree[n] # Garbage)
<1>1. FileOK(file)
  BY DEF MirrorIInv, MirrorTypeOK
<1>2. Tree \in Seq(Lines)
  BY <1>1, RepairedLines DEF Tree
<1>3. CASE file.tail \in {NoTail, Garbage}
  BY <1>1, <1>2, <1>3, RepairedLines DEF Tree, MirrorIInv, TreeIsSound
<1>4. CASE file.tail \notin {NoTail, Garbage}
  <2>1. /\ file.tail # Garbage /\ Len(Tree) = Len(file.lines) + 1
        /\ Tree[Len(file.lines) + 1] = file.tail
        /\ \A n \in 1..Len(file.lines) : Tree[n] = file.lines[n]
    BY <1>1, <1>4, RepairedLines DEF Tree
  <2>2. Len(file.lines) \in Nat
    BY <1>1 DEF FileOK
  <2> QED
    BY <1>2, <2>1, <2>2 DEF MirrorIInv, TreeIsSound
<1> QED
  BY <1>2, <1>3, <1>4

LEMMA MirrorStep ==
  ASSUME ~ProofsOfTorn, MirrorIInv, [MirrorNext]_mirrorVars
  PROVE  MirrorIInv'
<1> USE DEF MirrorIInv
<1>1. CASE ReadTree("mirror")
  <2>1. /\ raw' = [raw EXCEPT !["mirror"] = file] /\ pc \in {"size", "before", "all", "audit"}
        /\ UNCHANGED <<ledger, file, pc, task, heads, audited, tampered, rotten>>
    BY <1>1 DEF ReadTree
  <2>2. DOMAIN raw' = Loaders /\ raw'["mirror"] = file /\ raw'["reader"] = raw["reader"]
    BY <2>1 DEF MirrorTypeOK, Loaders
  <2>3. MirrorTypeOK' /\ TreeIsSound' /\ TaskIsSound' /\ AuditIsSound'
    BY <2>1, <2>2 DEF MirrorTypeOK, TreeIsSound, TaskIsSound, AuditIsSound, Tree, Loaders
  <2>4. ReadIsCurrent'
    BY <2>1, <2>2 DEF ReadIsCurrent, TreeIsSound, TaskIsSound, Tree
  <2> QED
    BY <2>3, <2>4
<1>2. CASE ReadTree("reader")
  <2>1. /\ raw' = [raw EXCEPT !["reader"] = file] /\ file.tail = NoTail
        /\ UNCHANGED <<ledger, file, pc, task, heads, audited, tampered, rotten>>
    BY <1>2 DEF ReadTree
  <2>2. DOMAIN raw' = Loaders /\ raw'["reader"] = file /\ raw'["mirror"] = raw["mirror"]
    BY <2>1 DEF MirrorTypeOK, Loaders
  <2>3. MirrorTypeOK' /\ TreeIsSound' /\ TaskIsSound' /\ AuditIsSound'
    BY <2>1, <2>2 DEF MirrorTypeOK, TreeIsSound, TaskIsSound, AuditIsSound, Tree, Loaders
  <2>4. ReadIsCurrent'
    BY <2>1, <2>2 DEF ReadIsCurrent
  <2> QED
    BY <2>3, <2>4
<1>3. CASE ProofMade
  <2>1. /\ raw["reader"].tail = NoTail /\ raw' = [raw EXCEPT !["reader"] = Nothing]
        /\ file' = Repair(raw["reader"], file)
        /\ UNCHANGED <<ledger, pc, task, heads, audited, tampered, rotten>>
    BY <1>3 DEF ProofMade, Loaded, ReadIsCurrent
  <2>2. file' = file
    BY <2>1 DEF Repair
  <2>3. DOMAIN raw' = Loaders /\ raw'["reader"] = Nothing /\ raw'["mirror"] = raw["mirror"]
    BY <2>1 DEF MirrorTypeOK, Loaders
  <2> QED
    BY <2>1, <2>2, <2>3 DEF MirrorTypeOK, ReadIsCurrent, TreeIsSound, TaskIsSound, AuditIsSound,
                            Tree, Loaders
<1>4. CASE Unreadable
  BY <1>4, LoadIsSound, RejectIsSound DEF Unreadable, AuditIsSound
<1>5. CASE TaskLoads
  <2> DEFINE read == Repaired(raw["mirror"])
  <2>1. /\ Loaded("mirror") /\ ~Corrupt(raw["mirror"])
        /\ SizeKnown(read) \/ BatchStarts(read) \/ HeadKnown(read) \/ AuditRuns(read)
    BY <1>5 DEF TaskLoads, TreeIs
  <2>2. /\ Tree' = Tree /\ read \in Seq(Lines) /\ Tree \in Seq(Lines) /\ Len(Tree) = Len(read)
        /\ \A n \in 1..Len(read) : Tree[n] = read[n] \/ Tree[n] = Garbage
        /\ \A head \in heads : Holds(head, read)
        /\ tampered = 0 => UpTo(read, task.entries)
    BY <2>1, LoadKeepsTree
  <2>3. \A n \in 1..Len(read) : read[n] # Garbage
    BY <2>1, <2>2 DEF Corrupt
  <2> HIDE DEF read
  <2>4. CASE SizeKnown(read)
    <3>1. UNCHANGED <<ledger, heads, audited, tampered, rotten>> /\ pc = "size"
      BY <2>4 DEF SizeKnown
    <3>2. CASE Reject
      BY <2>1, <3>1, <3>2, LoadIsSound, RejectIsSound DEF AuditIsSound
    <3>3. CASE ~Reject
      <4> DEFINE fresh == SubSeq(task.entries, Len(read) + 1, Len(task.entries))
      <4>1. /\ Len(read) <= Len(task.entries)
            /\ pc' = IF fresh = <<>> THEN "all" ELSE "before"
            /\ task' = [task EXCEPT !.before = Len(read), !.first = Len(read), !.fresh = fresh]
        BY <2>2, <2>4, <3>3 DEF SizeKnown, MirrorTypeOK
      <4>2. /\ DOMAIN task' = DOMAIN task /\ task'.entries = task.entries /\ task'.fresh = fresh
        BY <4>1 DEF MirrorTypeOK
      <4>3. /\ fresh \in Seq(Rows) /\ Len(read) + Len(fresh) = Len(task.entries)
            /\ \A n \in 1..Len(fresh) : fresh[n] = task.entries[Len(read) + n]
        BY <2>2, <4>1 DEF MirrorTypeOK
      <4> HIDE DEF fresh
      <4>4. TaskIsSound'
        BY <2>2, <3>1, <4>1, <4>2, <4>3 DEF TaskIsSound
      <4> QED
        BY <2>1, <3>1, <4>1, <4>2, <4>3, <4>4, LoadIsSound DEF AuditIsSound, MirrorTypeOK
    <3> QED
      BY <3>2, <3>3
  <2>5. CASE BatchStarts(read)
    <3>1. /\ UNCHANGED <<ledger, heads, audited, tampered, rotten>> /\ pc = "before"
          /\ pc' = "append" /\ task' = [task EXCEPT !.first = Len(read)]
      BY <2>5 DEF BatchStarts
    <3>2. /\ DOMAIN task' = DOMAIN task /\ task'.entries = task.entries
          /\ task'.fresh = task.fresh
      BY <3>1 DEF MirrorTypeOK
    <3>3. TaskIsSound'
      BY <2>2, <3>1, <3>2 DEF TaskIsSound
    <3> QED
      BY <2>1, <3>1, <3>2, <3>3, LoadIsSound DEF AuditIsSound, MirrorTypeOK
  <2>6. CASE HeadKnown(read)
    <3>1. UNCHANGED <<ledger, heads, audited, tampered, rotten>> /\ pc = "all"
      BY <2>6 DEF HeadKnown
    <3>2. CASE Reject
      BY <2>1, <3>1, <3>2, LoadIsSound, RejectIsSound DEF AuditIsSound
    <3>3. CASE pc' = "sign" /\ task' = [task EXCEPT !.head = read]
      <4>1. /\ DOMAIN task' = DOMAIN task /\ task'.entries = task.entries
            /\ task'.fresh = task.fresh /\ task'.head = read
        BY <3>3 DEF MirrorTypeOK
      <4>2. read \in Seq(Rows) /\ Holds(read, Tree)
        BY <2>2, <2>3 DEF Holds, Lines
      <4>3. TaskIsSound'
        BY <2>2, <3>1, <3>3, <4>1, <4>2 DEF TaskIsSound
      <4> QED
        BY <2>1, <3>1, <3>3, <4>1, <4>3, LoadIsSound DEF AuditIsSound, MirrorTypeOK
    <3> QED
      BY <2>6, <3>2, <3>3 DEF HeadKnown
  <2>7. CASE AuditRuns(read)
    <3>1. /\ UNCHANGED <<ledger, heads, tampered, rotten>> /\ Reject
          /\ audited' =
               [ok |-> IsPrefix(read, task.entries), entries |-> task.entries, signed |-> heads]
      BY <2>7 DEF AuditRuns
    <3>2. /\ read \in Seq(Rows)
          /\ task.entries \in Seq(Rows) /\ heads \subseteq Seq(Rows) /\ tampered \in Nat
      <4>1. read \in Seq(Rows)
        BY <2>2, <2>3 DEF Lines
      <4> QED
        BY <4>1 DEF MirrorTypeOK
    <3>3. ASSUME IsPrefix(read, task.entries), NEW head \in heads
          PROVE  IsPrefix(head, task.entries)
      BY <2>2, <2>3, <3>2, <3>3, SoundIsPrefix, PrefixTransitive
    <3>4. ASSUME ~IsPrefix(read, task.entries) PROVE tampered > 0
      BY <2>2, <2>3, <3>2, <3>4, SoundIsPrefix
    <3>5. /\ audited'.ok = IsPrefix(read, task.entries)
          /\ audited'.entries = task.entries /\ audited'.signed = heads
      BY <3>1
    <3>6. IsPrefix(read, task.entries) \in BOOLEAN
      BY DEF IsPrefix
    <3>7. AuditIsSound'
      BY <3>1, <3>3, <3>4, <3>5, <3>6 DEF AuditIsSound
    <3> QED
      BY <2>1, <3>1, <3>7, LoadIsSound, RejectIsSound
  <2> QED
    BY <2>1, <2>4, <2>5, <2>6, <2>7
<1>6. CASE Start
  <2>1. /\ pc = "idle" /\ pc' \in {"size", "audit"}
        /\ task' = [NoTask EXCEPT !.entries = ledger]
        /\ UNCHANGED <<ledger, file, raw, heads, audited, tampered, rotten>>
    BY <1>6 DEF Start
  <2>2. /\ DOMAIN task' = {"entries", "before", "first", "fresh", "head"}
        /\ task'.entries = ledger /\ task'.fresh = <<>>
    BY <2>1 DEF NoTask
  <2>3. raw["mirror"] = Nothing
    BY <2>1 DEF ReadIsCurrent
  <2>4. MirrorTypeOK'
    <3>1. ledger \in Seq(Rows) /\ <<>> \in Seq(Rows)
      BY DEF MirrorTypeOK
    <3> QED
      BY <2>1, <2>2, <3>1 DEF MirrorTypeOK
  <2>5. UpTo(ledger, ledger)
    BY DEF UpTo, MirrorTypeOK
  <2>6. ReadIsCurrent' /\ TreeIsSound' /\ TaskIsSound' /\ AuditIsSound'
    BY <2>1, <2>2, <2>3, <2>5 DEF ReadIsCurrent, TreeIsSound, TaskIsSound, AuditIsSound, Tree
  <2> QED
    BY <2>4, <2>6
<1>7. ASSUME NEW read, NEW tail, file' = [lines |-> read, tail |-> tail],
             FileOK(file'), pc = "append", \A n \in 1..Len(Tree) : Tree'[n] = Tree[n],
             Tree' \in Seq(Lines),
             \/ Len(Tree') = Len(Tree)
             \/ Len(Tree') = Len(Tree) + 1 /\ Tree'[Len(Tree) + 1] = Head(task.fresh),
             rotten = 0 => \A n \in 1..Len(read) : read[n] # Garbage,
             UNCHANGED <<ledger, raw, heads, audited, tampered, rotten>>
      PROVE  /\ ReadIsCurrent' /\ TreeIsSound' /\ AuditIsSound'
             /\ tampered = 0 => UpTo(Tree', task.entries) /\ UpTo(task.entries, ledger)
  <2>1. raw["mirror"] = Nothing
    BY <1>7 DEF ReadIsCurrent
  <2>2. ReadIsCurrent' /\ AuditIsSound'
    BY <1>7, <2>1 DEF ReadIsCurrent, AuditIsSound
  <2>3. Tree \in Seq(Lines) /\ ledger \in Seq(Rows) /\ heads \subseteq Seq(Rows)
        /\ task.entries \in Seq(Rows) /\ task.fresh \in Seq(Rows)
    BY RepairedLines DEF Tree, MirrorTypeOK
  <2>4. /\ Len(Tree) + 1 <= Len(task.entries)
        /\ Head(task.fresh) = task.entries[Len(Tree) + 1]
    <3>1. /\ task.fresh # <<>> /\ Len(Tree) + Len(task.fresh) = Len(task.entries)
          /\ \A n \in 1..Len(task.fresh) : task.fresh[n] = task.entries[Len(Tree) + n]
      BY <1>7 DEF TaskIsSound
    <3>2. Len(task.fresh) >= 1 /\ Head(task.fresh) = task.fresh[1]
      BY <2>3, <3>1
    <3> QED
      BY <2>3, <3>1, <3>2
  <2> DEFINE old == Tree
             new == Tree'
  <2>0. /\ old \in Seq(Lines) /\ new \in Seq(Lines) /\ \A n \in 1..Len(old) : new[n] = old[n]
        /\ \/ Len(new) = Len(old)
           \/ Len(new) = Len(old) + 1 /\ new[Len(old) + 1] = task.entries[Len(old) + 1]
        /\ Len(old) + 1 <= Len(task.entries)
    BY <1>7, <2>3, <2>4
  <2> HIDE DEF old, new
  <2>5. \A head \in heads : Holds(head, new)
    <3> SUFFICES ASSUME NEW head \in heads PROVE Holds(head, new)
      OBVIOUS
    <3>1. Holds(head, old) /\ head \in Seq(Rows)
      BY <2>3 DEF TreeIsSound, old
    <3> QED
      BY SMTT(30), <2>0, <3>1 DEF Holds
  <2>6. ASSUME tampered = 0 PROVE UpTo(new, task.entries) /\ UpTo(task.entries, ledger)
    <3>1. UpTo(old, task.entries) /\ UpTo(task.entries, ledger)
      BY <1>7, <2>6 DEF TaskIsSound, old
    <3> QED
      BY <2>0, <2>3, <3>1 DEF UpTo
  <2>7. ASSUME tampered = 0 PROVE UpTo(new, ledger)
    <3>1. \A n \in 1..Len(task.entries) : task.entries[n] # Garbage
      BY <2>3, MirrorAssumption DEF MirrorAssumption
    <3>2. UpTo(new, task.entries) /\ UpTo(task.entries, ledger)
      BY <2>6, <2>7
    <3>3. /\ Len(new) <= Len(task.entries) /\ Len(task.entries) <= Len(ledger)
          /\ \A n \in 1..Len(new) : new[n] = task.entries[n] \/ new[n] = Garbage
          /\ \A n \in 1..Len(task.entries) : task.entries[n] = ledger[n]
      BY <3>1, <3>2 DEF UpTo
    <3>4. Len(new) \in Nat /\ Len(task.entries) \in Nat /\ Len(ledger) \in Nat
      BY <2>0, <2>3
    <3> QED
      BY <3>3, <3>4 DEF UpTo
  <2>8. TreeIsSound'
    BY <1>7, <2>5, <2>7 DEF TreeIsSound, new
  <2> QED
    BY <2>2, <2>6, <2>8 DEF new
<1>8. Tree \in Seq(Lines) /\ (rotten = 0 => \A n \in 1..Len(Tree) : Tree[n] # Garbage)
  BY TreeIsReadable
<1>9. ASSUME pc = "append"
      PROVE  /\ task.fresh \in Seq(Rows) /\ task.fresh # <<>> /\ Head(task.fresh) \in Rows
             /\ Tail(task.fresh) \in Seq(Rows) /\ Len(Tail(task.fresh)) = Len(task.fresh) - 1
             /\ \A n \in 1..Len(task.fresh) - 1 : Tail(task.fresh)[n] = task.fresh[n + 1]
  BY <1>9 DEF MirrorTypeOK, TaskIsSound
<1>10. CASE AppendLeaf
  <2> DEFINE leaf == Head(task.fresh)
             read == Append(Tree, leaf)
  <2>1. /\ pc = "append" /\ UNCHANGED <<ledger, raw, heads, audited, tampered, rotten>>
        /\ task' = [task EXCEPT !.fresh = Tail(task.fresh)]
        /\ pc' = IF Tail(task.fresh) = <<>> THEN "all" ELSE "append"
        /\ file' = [lines |-> read, tail |-> NoTail]
    BY <1>10 DEF AppendLeaf, Ready, Tree
  <2>2. leaf \in Rows /\ leaf # Garbage
    BY <1>9, <2>1, MirrorAssumption DEF MirrorAssumption
  <2> HIDE DEF leaf
  <2>3. /\ read \in Seq(Lines) /\ Len(read) = Len(Tree) + 1 /\ read[Len(Tree) + 1] = leaf
        /\ \A n \in 1..Len(Tree) : read[n] = Tree[n]
    BY <1>8, <2>2 DEF Lines
  <2>4. rotten = 0 => \A n \in 1..Len(read) : read[n] # Garbage
    BY <1>8, <2>2, <2>3
  <2> HIDE DEF read
  <2>5. FileOK(file') /\ Tree' = read
    BY <2>1, <2>3 DEF FileOK, Tree, Repaired
  <2>6. /\ ReadIsCurrent' /\ TreeIsSound' /\ AuditIsSound'
        /\ tampered = 0 => UpTo(Tree', task.entries) /\ UpTo(task.entries, ledger)
    BY <1>7, <2>1, <2>3, <2>4, <2>5 DEF leaf
  <2>7. /\ DOMAIN task' = DOMAIN task /\ task'.entries = task.entries
        /\ task'.fresh = Tail(task.fresh)
    BY <2>1 DEF MirrorTypeOK
  <2>8. MirrorTypeOK'
    BY <1>9, <2>1, <2>5, <2>7 DEF MirrorTypeOK
  <2>9. TaskIsSound'
    <3>1. /\ Len(Tree) + Len(task.fresh) = Len(task.entries) /\ Len(Tree) \in Nat
          /\ Len(task.fresh) \in Nat
          /\ \A n \in 1..Len(task.fresh) : task.fresh[n] = task.entries[Len(Tree) + n]
      BY <1>8, <1>9, <2>1 DEF TaskIsSound
    <3>2. Len(Tree') + Len(task'.fresh) = Len(task'.entries)
      <4>1. Len(task'.fresh) = Len(task.fresh) - 1
        BY <1>9, <2>1, <2>7
      <4>2. Len(Tree') = Len(Tree) + 1 /\ Len(task'.entries) = Len(task.entries)
        BY <2>3, <2>5, <2>7
      <4>3. /\ Len(Tree) + Len(task.fresh) = Len(task.entries)
            /\ Len(Tree) \in Nat /\ Len(task.fresh) \in Nat
        BY <3>1
      <4>4. \A m, n \in Nat : (m + 1) + (n - 1) = m + n
        OBVIOUS
      <4>5. (Len(Tree) + 1) + (Len(task.fresh) - 1) = Len(task.entries)
        BY <4>3, <4>4
      <4> QED
        BY <4>1, <4>2, <4>5, Zenon
    <3>3. \A n \in 1..Len(task'.fresh) : task'.fresh[n] = task'.entries[Len(Tree') + n]
      <4> SUFFICES ASSUME NEW n \in 1..Len(task.fresh) - 1
                   PROVE  Tail(task.fresh)[n] = task.entries[Len(Tree) + 1 + n]
        BY <1>9, <2>1, <2>3, <2>5, <2>7
      <4>1. Tail(task.fresh)[n] = task.fresh[n + 1] /\ n + 1 \in 1..Len(task.fresh)
        BY <1>9, <2>1, <3>1
      <4>2. task.fresh[n + 1] = task.entries[Len(Tree) + (n + 1)]
        BY <3>1, <4>1
      <4>3. Len(Tree) + (n + 1) = Len(Tree) + 1 + n
        BY <3>1
      <4> QED
        BY <4>1, <4>2, <4>3
    <3> QED
      BY <2>1, <2>6, <2>7, <3>2, <3>3 DEF TaskIsSound
  <2> QED
    BY <2>6, <2>8, <2>9
<1>11. CASE TornAppend
  <2> DEFINE leaf == Head(task.fresh)
  <2>1. PICK left \in {Garbage, leaf} : file' = [lines |-> Tree, tail |-> left]
    BY <1>11 DEF TornAppend, Ready, Tree
  <2>2. pc = "append" /\ Reject /\ UNCHANGED <<ledger, raw, heads, audited, tampered, rotten>>
    BY <1>11 DEF TornAppend
  <2>3. leaf \in Rows /\ leaf \notin {Garbage, NoTail}
    BY <1>9, <2>2, MirrorAssumption DEF MirrorAssumption
  <2> HIDE DEF leaf
  <2>4. FileOK(file') /\ (rotten = 0 => \A n \in 1..Len(Tree) : Tree[n] # Garbage)
    BY <1>8, <2>1, <2>3 DEF FileOK
  <2>5. /\ Tree' \in Seq(Lines) /\ \A n \in 1..Len(Tree) : Tree'[n] = Tree[n]
        /\ Len(Tree') = Len(Tree) \/ (Len(Tree') = Len(Tree) + 1 /\ Tree'[Len(Tree) + 1] = leaf)
    <3>1. CASE left = Garbage
      BY <1>8, <2>1, <3>1 DEF Tree, Repaired
    <3>2. CASE left = leaf
      <4>1. Tree' = Append(Tree, leaf)
        BY <2>1, <2>3, <3>2 DEF Tree, Repaired
      <4> QED
        BY <1>8, <2>3, <4>1 DEF Lines
    <3> QED
      BY <3>1, <3>2
  <2>6. ReadIsCurrent' /\ TreeIsSound' /\ AuditIsSound'
    BY <1>7, <2>1, <2>2, <2>4, <2>5 DEF leaf
  <2>7. MirrorTypeOK' /\ TaskIsSound'
    BY <2>2, <2>4, RejectIsSound DEF MirrorTypeOK
  <2> QED
    BY <2>6, <2>7
<1>12. CASE SignHead
  <2>1. /\ pc = "sign" /\ Reject /\ heads' \in {heads, heads \cup {task.head}}
        /\ UNCHANGED <<ledger, file, raw, audited, tampered, rotten>>
    BY <1>12 DEF SignHead
  <2>2. task.head \in Seq(Rows) /\ Holds(task.head, Tree) /\ raw["mirror"] = Nothing
    BY <2>1 DEF TaskIsSound, ReadIsCurrent
  <2>3. MirrorTypeOK' /\ TaskIsSound'
    BY <2>1, <2>2, RejectIsSound DEF MirrorTypeOK
  <2>4. ReadIsCurrent' /\ TreeIsSound' /\ AuditIsSound'
    BY <2>1, <2>2 DEF ReadIsCurrent, TreeIsSound, AuditIsSound, Tree
  <2> QED
    BY <2>3, <2>4
<1>13. CASE Crash
  <2>1. /\ raw' = [l \in Loaders |-> Nothing] /\ Reject
        /\ UNCHANGED <<ledger, file, heads, audited, tampered, rotten>>
    BY <1>13 DEF Crash
  <2>2. DOMAIN raw' = Loaders /\ raw'["mirror"] = Nothing /\ raw'["reader"] = Nothing
    BY <2>1 DEF Loaders
  <2>3. MirrorTypeOK' /\ TaskIsSound'
    BY <2>1, <2>2, RejectIsSound DEF MirrorTypeOK, Loaders
  <2>4. ReadIsCurrent' /\ TreeIsSound' /\ AuditIsSound'
    BY <2>1, <2>2 DEF ReadIsCurrent, TreeIsSound, AuditIsSound, Tree
  <2> QED
    BY <2>3, <2>4
<1>14. CASE GuardAppends
  <2>1. PICK row \in Rows : ledger' = Append(ledger, row)
    BY <1>14 DEF GuardAppends
  <2>2. UNCHANGED <<file, raw, pc, task, heads, audited, tampered, rotten>>
    BY <1>14 DEF GuardAppends
  <2>3. /\ ledger' \in Seq(Rows) /\ Len(ledger') = Len(ledger) + 1 /\ Len(ledger) \in Nat
        /\ \A n \in 1..Len(ledger) : ledger'[n] = ledger[n]
    BY <2>1 DEF MirrorTypeOK
  <2>4. ASSUME NEW s, Len(s) \in Nat, UpTo(s, ledger) PROVE UpTo(s, ledger')
    BY <2>3, <2>4 DEF UpTo
  <2>5. Len(Tree) \in Nat /\ Len(task.entries) \in Nat
    BY <1>8 DEF MirrorTypeOK
  <2>6. MirrorTypeOK' /\ ReadIsCurrent' /\ AuditIsSound'
    BY <2>2, <2>3 DEF MirrorTypeOK, ReadIsCurrent, AuditIsSound
  <2>7. TreeIsSound' /\ TaskIsSound'
    BY <2>2, <2>4, <2>5 DEF TreeIsSound, TaskIsSound, Tree
  <2> QED
    BY <2>6, <2>7
<1>15. CASE Tamper
  <2>1. /\ tampered' = tampered + 1
        /\ UNCHANGED <<file, raw, pc, task, heads, audited, rotten>>
    BY <1>15 DEF Tamper
  <2>2. tampered' \in Nat /\ tampered' > 0
    BY <2>1 DEF MirrorTypeOK
  <2>3. ledger' \in Seq(Rows)
    <3>1. PICK n \in DOMAIN ledger : \/ \E row \in Rows : ledger' = [ledger EXCEPT ![n] = row]
                                    \/ ledger' = SubSeq(ledger, 1, n - 1)
      BY <1>15 DEF Tamper
    <3>2. ledger \in Seq(Rows) /\ n \in 1..Len(ledger)
      BY DEF MirrorTypeOK
    <3> QED
      BY <3>1, <3>2
  <2>4. MirrorTypeOK'
    BY <2>1, <2>2, <2>3 DEF MirrorTypeOK
  <2>5. ReadIsCurrent' /\ TreeIsSound' /\ TaskIsSound' /\ AuditIsSound'
    BY <2>1, <2>2 DEF ReadIsCurrent, TreeIsSound, TaskIsSound, AuditIsSound, Tree
  <2> QED
    BY <2>4, <2>5
<1>16. CASE Rot
  <2>1. /\ rotten' = rotten + 1
        /\ UNCHANGED <<ledger, raw, pc, task, heads, audited, tampered>>
    BY <1>16 DEF Rot
  <2>2. PICK n \in DOMAIN file.lines : file' = [file EXCEPT !.lines[n] = Garbage]
    BY <1>16 DEF Rot
  <2>3. rotten' \in Nat /\ rotten' # 0
    BY <2>1 DEF MirrorTypeOK
  <2>4. FileOK(file) /\ FileOK(file')
    BY <2>2 DEF MirrorTypeOK, FileOK, Lines
  <2>5. /\ file'.tail = file.tail /\ Len(file'.lines) = Len(file.lines)
        /\ \A k \in 1..Len(file.lines) :
             file'.lines[k] = file.lines[k] \/ file'.lines[k] = Garbage
    BY <2>2, <2>4 DEF FileOK
  <2>6. /\ Tree' \in Seq(Lines) /\ Len(Tree') = Len(Tree)
        /\ \A k \in 1..Len(Tree) : Tree'[k] = Tree[k] \/ Tree'[k] = Garbage
    <3>1. CASE file.tail \in {NoTail, Garbage}
      BY <2>4, <2>5, <3>1, RepairedLines DEF Tree
    <3>2. CASE file.tail \notin {NoTail, Garbage}
      <4>1. /\ Tree' \in Seq(Lines) /\ Len(Tree') = Len(file.lines) + 1
            /\ Tree'[Len(file.lines) + 1] = file.tail
            /\ \A k \in 1..Len(file.lines) : Tree'[k] = file'.lines[k]
        BY <2>4, <2>5, <3>2, RepairedLines DEF Tree
      <4>2. /\ Len(Tree) = Len(file.lines) + 1 /\ Tree[Len(file.lines) + 1] = file.tail
            /\ \A k \in 1..Len(file.lines) : Tree[k] = file.lines[k]
        BY <2>4, <3>2, RepairedLines DEF Tree
      <4>3. Len(file.lines) \in Nat
        BY <2>4 DEF FileOK
      <4> QED
        BY <2>5, <4>1, <4>2, <4>3
    <3> QED
      BY <3>1, <3>2
  <2>7. ASSUME NEW s PROVE /\ Holds(s, Tree) => Holds(s, Tree')
                           /\ UpTo(Tree, s) => UpTo(Tree', s)
    <3> DEFINE old == Tree
               new == Tree'
    <3>1. /\ old \in Seq(Lines) /\ Len(new) = Len(old)
          /\ \A k \in 1..Len(old) : new[k] = old[k] \/ new[k] = Garbage
      BY <1>8, <2>6
    <3> HIDE DEF old, new
    <3>2. Holds(s, old) => Holds(s, new)
      BY <3>1 DEF Holds
    <3>3. UpTo(old, s) => UpTo(new, s)
      BY <3>1 DEF UpTo
    <3> QED
      BY <3>2, <3>3 DEF old, new
  <2>8. MirrorTypeOK' /\ AuditIsSound'
    BY <2>1, <2>3, <2>4 DEF MirrorTypeOK, AuditIsSound
  <2>9. ReadIsCurrent'
    BY <2>1, <2>5 DEF ReadIsCurrent
  <2>10. TreeIsSound' /\ TaskIsSound'
    BY <2>1, <2>3, <2>6, <2>7 DEF TreeIsSound, TaskIsSound
  <2> QED
    BY <2>8, <2>9, <2>10
<1>17. CASE UNCHANGED mirrorVars
  BY <1>17 DEF mirrorVars, MirrorTypeOK, ReadIsCurrent, TreeIsSound, TaskIsSound, AuditIsSound, Tree
<1> QED
  BY <1>1, <1>2, <1>3, <1>4, <1>5, <1>6, <1>10, <1>11, <1>12, <1>13, <1>14, <1>15, <1>16, <1>17
     DEF MirrorNext

(* What a mirror published stays the beginning of what it publishes, and its *)
(* audit tells the truth (LedgerMirror of transparency/src/mirror.ts over    *)
(* the tree file of stores/jsonl.ts): for any ledger, any torn writes, edits,*)
(* lines gone bad and restarts, while no proof is asked for of a torn file.  *)
THEOREM MirrorIsFaithful ==
  ASSUME ~ProofsOfTorn
  PROVE  MirrorSpec => []MirrorsTheLedger
<1>1. MirrorInit => MirrorIInv
  BY MirrorInitiallyHolds
<1>2. MirrorIInv /\ [MirrorNext]_mirrorVars => MirrorIInv'
  BY MirrorStep
<1>3. MirrorIInv => MirrorsTheLedger
  <2> SUFFICES ASSUME MirrorIInv PROVE MirrorsTheLedger
    OBVIOUS
  <2>1. heads \subseteq Seq(Rows) /\ ledger \in Seq(Rows) /\ Tree \in Seq(Lines)
    BY TreeIsReadable DEF MirrorIInv, MirrorTypeOK
  <2>2. ASSUME rotten = 0
        PROVE  /\ \A head \in heads : IsPrefix(head, Repaired(file))
               /\ ~Corrupt(file)
               /\ tampered = 0 => IsPrefix(Repaired(file), ledger)
    <3>1. \A n \in 1..Len(Tree) : Tree[n] # Garbage
      BY <2>2, TreeIsReadable
    <3>2. \A head \in heads : IsPrefix(head, Tree)
      BY <2>1, <3>1, SoundIsPrefix DEF MirrorIInv, TreeIsSound
    <3>3. ASSUME tampered = 0 PROVE IsPrefix(Tree, ledger)
      BY <2>1, <3>1, <3>3, SoundIsPrefix DEF MirrorIInv, TreeIsSound
    <3> QED
      BY <2>1, <3>1, <3>2, <3>3 DEF Tree, Corrupt
  <2>3. \A head \in heads : \A n \in DOMAIN head : head[n] # Garbage
    BY <2>1, MirrorAssumption DEF MirrorAssumption
  <2>4. IF audited.ok THEN \A head \in audited.signed : IsPrefix(head, audited.entries)
        ELSE tampered > 0
    BY DEF MirrorIInv, AuditIsSound
  <2> QED
    BY <2>2, <2>3, <2>4 DEF MirrorsTheLedger, HistoryOnlyGrows
<1> QED
  BY <1>1, <1>2, <1>3, PTL DEF MirrorSpec

-----------------------------------------------------------------------------
(* A set of naturals has a least: the loop below is followed to the first    *)
(* entry after which it would be wrong.                                      *)
LEMMA LeastOf ==
  ASSUME NEW S \in SUBSET Nat, S # {}
  PROVE  \E n \in S : \A m \in S : n <= m
<1> DEFINE R == {pair \in Nat \X Nat : pair[1] < pair[2]}
<1>1. IsWellFoundedOn(R, Nat)
  BY NatLessThanWellFounded DEF OpToRel
<1>2. \A m, n \in Nat : m < n => <<m, n>> \in R
  OBVIOUS
<1> HIDE DEF R
<1>3. PICK n \in S : \A m \in S : <<m, n>> \notin R
  BY <1>1, WFMin
<1>4. \A m \in S : n <= m
  <2> SUFFICES ASSUME NEW m \in S, ~(n <= m) PROVE FALSE
    OBVIOUS
  <2>1. m \in Nat /\ n \in Nat /\ m < n
    OBVIOUS
  <2> QED
    BY <1>2, <1>3, <2>1
<1> QED
  BY <1>4

(* The loop of groupParties() over a list of k entries, after each of them. *)
GroupSteps(group, entries, k) ==
  group = [n \in 0..k |-> IF n = 0 THEN NoParty ELSE Grouped(group[n - 1], entries, n)]

(* The recursive function of groupParties() exists for every list. *)
LEMMA GroupStepsExist ==
  ASSUME NEW entries, NEW k \in Nat
  PROVE  \E group : GroupSteps(group, entries, k)
<1> DEFINE T == {n \in Nat : ~\E group : GroupSteps(group, entries, n)}
<1>1. ASSUME T # {} PROVE FALSE
  <2>1. PICK n \in T : \A m \in T : n <= m
    BY <1>1, LeastOf
  <2>2. n \in Nat /\ ~\E group : GroupSteps(group, entries, n)
    BY <2>1
  <2>3. CASE n = 0
    <3> DEFINE g == [i \in 0..0 |-> NoParty]
    <3>1. g = [i \in 0..0 |-> IF i = 0 THEN NoParty ELSE Grouped(g[i - 1], entries, i)]
      OBVIOUS
    <3> HIDE DEF g
    <3> QED
      BY <2>2, <2>3, <3>1 DEF GroupSteps
  <2>4. CASE n > 0
    <3>1. n - 1 \in Nat /\ n - 1 \notin T
      BY <2>1, <2>2, <2>4
    <3>2. PICK f : GroupSteps(f, entries, n - 1)
      BY <3>1
    <3> DEFINE g == [i \in 0..n |-> IF i < n THEN f[i] ELSE Grouped(f[n - 1], entries, n)]
               h == [i \in 0..n |-> IF i = 0 THEN NoParty ELSE Grouped(g[i - 1], entries, i)]
    <3>3. ASSUME NEW i \in 0..n PROVE g[i] = h[i]
      <4>1. CASE i = n
        BY <2>2, <2>4, <4>1
      <4>2. CASE i < n
        <5>1. f[i] = IF i = 0 THEN NoParty ELSE Grouped(f[i - 1], entries, i)
          BY <2>2, <3>2, <4>2 DEF GroupSteps
        <5>2. i # 0 => i - 1 \in 0..n /\ i - 1 < n
          BY <2>2, <4>2
        <5> QED
          BY <4>2, <5>1, <5>2
      <4> QED
        BY <2>2, <4>1, <4>2
    <3>4. g = h
      BY <3>3
    <3> HIDE DEF g
    <3> QED
      BY <2>2, <3>4 DEF GroupSteps
  <2> QED
    BY <2>2, <2>3, <2>4
<1> QED
  BY <1>1

Done(entries, n) == {m \in Looked(entries) : m <= n}

(* After n entries the parties hold the keys seen so far, an owner's keys    *)
(* are one party, and a name stands for the party of its entry's keys.       *)
GroupInv(acc, entries, n) ==
  /\ DOMAIN acc.of = UNION {entries[m].keys : m \in Done(entries, n)}
  /\ \A x, y \in DOMAIN acc.of : x.owner = y.owner => acc.of[x] = acc.of[y]
  /\ \A m \in Done(entries, n) : \A x \in entries[m].keys :
       entries[m].name \in DOMAIN acc.named /\ acc.named[entries[m].name] = acc.of[x]

(* An entry joins the party that its witness already has, if it has one. *)
LEMMA JoinKeepsParties ==
  ASSUME NEW acc, NEW entries, NEW n \in Nat, DOMAIN entries \subseteq Nat, Linked(entries),
         GroupInv(acc, entries, n), n + 1 \in Looked(entries)
  PROVE  GroupInv(Join(acc, entries[n + 1]), entries, n + 1)
<1> DEFINE e == entries[n + 1]
           new == Join(acc, e)
<1>1. /\ Looked(entries) \subseteq DOMAIN entries /\ n + 1 \in DOMAIN entries
      /\ Done(entries, n + 1) = Done(entries, n) \cup {n + 1}
      /\ Done(entries, n) \subseteq Looked(entries)
      /\ \A m \in Done(entries, n) : m <= n /\ m \in DOMAIN entries /\ m < n + 1
  <2>1. Looked(entries) \subseteq DOMAIN entries
    BY DEF Looked
  <2>2. \A m \in Nat : m <= n + 1 <=> m <= n \/ m = n + 1
    OBVIOUS
  <2>3. \A m \in Nat : m <= n => m < n + 1
    OBVIOUS
  <2> QED
    BY <2>1, <2>2, <2>3 DEF Done
<1>2. CASE e.keys = {}
  <2>1. new = acc
    BY <1>2 DEF Join
  <2>2. UNION {entries[m].keys : m \in Done(entries, n + 1)}
          = UNION {entries[m].keys : m \in Done(entries, n)}
    BY <1>1, <1>2
  <2> QED
    BY <1>1, <1>2, <2>1, <2>2 DEF GroupInv
<1>3. CASE e.keys # {}
  <2> DEFINE known == KnownKeys(e, acc.of)
  <2>1. PICK p : p = IF known = {} THEN acc.next ELSE acc.of[FirstKnown(known)]
    OBVIOUS
  <2>2. /\ new.of = [key \in DOMAIN acc.of \cup e.keys |->
                       IF key \in e.keys THEN p ELSE acc.of[key]]
        /\ new.named = [name \in DOMAIN acc.named \cup {e.name} |->
                          IF name = e.name THEN p ELSE acc.named[name]]
    BY <1>3, <2>1 DEF Join
  <2> HIDE DEF new
  <2>3. \A x, y \in e.keys : x.owner = y.owner
    BY <1>1 DEF Linked
  <2>4. ASSUME NEW x \in DOMAIN acc.of, NEW y \in e.keys, x.owner = y.owner
        PROVE  acc.of[x] = p
    <3>1. PICK m \in Done(entries, n) : x \in entries[m].keys
      BY DEF GroupInv
    <3>2. PICK z \in entries[m].keys : z \in e.keys
      <4>1. entries[m].keys \cap entries[n + 1].keys # {}
        BY <1>1, <2>4, <3>1 DEF Linked
      <4> QED
        BY <4>1
    <3>3. z \in DOMAIN acc.of
      BY <3>1, <3>2 DEF GroupInv
    <3>4. z \in known
      BY <3>2, <3>3 DEF KnownKeys
    <3>5. FirstKnown(known) \in known
      BY <3>4 DEF FirstKnown
    <3>6. p = acc.of[FirstKnown(known)] /\ FirstKnown(known) \in e.keys
          /\ FirstKnown(known) \in DOMAIN acc.of
      BY <2>1, <3>4, <3>5 DEF KnownKeys
    <3>7. FirstKnown(known).owner = x.owner
      BY <2>3, <2>4, <3>6
    <3> QED
      BY <3>6, <3>7 DEF GroupInv
  <2>5. DOMAIN new.of = UNION {entries[m].keys : m \in Done(entries, n + 1)}
    BY <1>1, <2>2 DEF GroupInv
  <2>6. \A x \in DOMAIN acc.of : new.of[x] = acc.of[x]
    BY <2>2, <2>4
  <2>7. \A x \in e.keys : new.of[x] = p
    BY <2>2
  <2>8. ASSUME NEW x \in DOMAIN new.of, NEW y \in DOMAIN new.of, x.owner = y.owner
        PROVE  new.of[x] = new.of[y]
    <3>1. (x \in DOMAIN acc.of \/ x \in e.keys) /\ (y \in DOMAIN acc.of \/ y \in e.keys)
      BY <2>2
    <3> QED
      BY <2>4, <2>6, <2>7, <2>8, <3>1 DEF GroupInv
  <2>9. ASSUME NEW m \in Done(entries, n + 1), NEW x \in entries[m].keys
        PROVE  entries[m].name \in DOMAIN new.named /\ new.named[entries[m].name] = new.of[x]
    <3>1. CASE m = n + 1
      <4>1. x \in e.keys /\ entries[m].name = e.name
        BY <2>9, <3>1
      <4>2. new.of[x] = p
        BY <2>7, <4>1
      <4>3. e.name \in DOMAIN new.named /\ new.named[e.name] = p
        BY <2>2, Zenon
      <4>4. entries[m].name \in DOMAIN new.named /\ new.named[entries[m].name] = p
        BY <3>1, <4>3
      <4> QED
        BY <4>2, <4>4, Zenon
    <3>2. CASE m \in Done(entries, n)
      <4>1. entries[m].name # e.name
        BY <1>1, <3>2 DEF Looked
      <4>2. x \in DOMAIN acc.of
        BY <2>9, <3>2 DEF GroupInv
      <4>3. entries[m].name \in DOMAIN acc.named /\ acc.named[entries[m].name] = acc.of[x]
        BY <2>9, <3>2 DEF GroupInv
      <4>4. entries[m].name \in DOMAIN new.named
            /\ new.named[entries[m].name] = acc.named[entries[m].name]
        BY <2>2, <4>1, <4>3
      <4>5. new.of[x] = acc.of[x]
        BY <2>6, <4>2
      <4> QED
        BY <4>3, <4>4, <4>5
    <3> QED
      BY <1>1, <3>1, <3>2
  <2> QED
    BY <2>5, <2>8, <2>9 DEF GroupInv, new
<1> QED
  BY <1>2, <1>3

(* So every list is grouped by the owners of its keys. *)
LEMMA GroupedParties ==
  ASSUME NEW entries, NEW k \in Nat, NEW f, GroupSteps(f, entries, k),
         DOMAIN entries \subseteq 1..k, Linked(entries)
  PROVE  GroupInv(f[k], entries, k)
<1>0. DOMAIN entries \subseteq Nat
  OBVIOUS
<1> DEFINE T == {n \in 0..k : ~GroupInv(f[n], entries, n)}
<1>1. ASSUME T # {} PROVE FALSE
  <2>1. T \in SUBSET Nat
    OBVIOUS
  <2>2. PICK n \in T : \A m \in T : n <= m
    BY <1>1, <2>1, LeastOf
  <2>3. n \in 0..k /\ n \in Nat /\ ~GroupInv(f[n], entries, n)
    BY <2>2
  <2>4. f[n] = IF n = 0 THEN NoParty ELSE Grouped(f[n - 1], entries, n)
    BY <2>3 DEF GroupSteps
  <2>5. CASE n = 0
    <3>1. Done(entries, 0) = {}
      BY DEF Done, Looked
    <3>2. f[n] = NoParty
      BY <2>4, <2>5
    <3>3. DOMAIN NoParty.of = {}
      BY DEF NoParty
    <3>4. UNION {entries[m].keys : m \in Done(entries, 0)} = {}
      BY <3>1
    <3> QED
      BY <2>3, <2>5, <3>1, <3>2, <3>3, <3>4 DEF GroupInv
  <2>6. CASE n # 0
    <3>1. PICK o \in Nat : n = o + 1
      <4>1. n - 1 \in Nat /\ n = (n - 1) + 1
        BY <2>3, <2>6
      <4> QED
        BY <4>1
    <3>2. o \in 0..k /\ o \notin T
      BY <2>2, <2>3, <3>1
    <3>3. GroupInv(f[o], entries, o)
      BY <3>2
    <3>4. f[n] = Grouped(f[o], entries, o + 1)
      BY <2>4, <2>6, <3>1
    <3>5. CASE o + 1 \in Looked(entries)
      BY <1>0, <2>3, <3>1, <3>3, <3>4, <3>5, JoinKeepsParties DEF Grouped
    <3>6. CASE o + 1 \notin Looked(entries)
      <4>1. \A m \in Nat : m <= o + 1 <=> m <= o \/ m = o + 1
        OBVIOUS
      <4>2. Done(entries, o + 1) = Done(entries, o)
        BY <1>0, <3>6, <4>1 DEF Done, Looked
      <4>3. f[n] = f[o]
        BY <3>4, <3>6 DEF Grouped
      <4> QED
        BY <2>3, <3>1, <3>3, <4>2, <4>3 DEF GroupInv
    <3> QED
      BY <3>5, <3>6
  <2> QED
    BY <2>5, <2>6
<1>2. k \in 0..k
  OBVIOUS
<1> QED
  BY <1>1, <1>2

(* The party of a name depends on who owns the keys of its entry only. *)
LEMMA PartyOfOwner ==
  ASSUME NEW entries, Len(config) \in Nat, DOMAIN entries \subseteq 1..Len(config), Linked(entries)
  PROVE  \E partyOf : \A n \in Looked(entries) : \A x \in entries[n].keys :
           GroupParties(entries)[entries[n].name] = partyOf[x.owner]
<1> DEFINE k == Len(config)
           f == CHOOSE group : GroupSteps(group, entries, k)
<1>1. GroupSteps(f, entries, k)
  BY GroupStepsExist
<1>2. GroupParties(entries) = f[k].named
  BY DEF GroupParties, GroupSteps
<1> HIDE DEF f
<1>3. GroupInv(f[k], entries, k)
  BY <1>1, GroupedParties
<1>4. Done(entries, k) = Looked(entries)
  BY DEF Done, Looked
<1> DEFINE of == f[k].of
           owners == {x.owner : x \in DOMAIN of}
           partyOf == [w \in owners |-> of[CHOOSE x \in DOMAIN of : x.owner = w]]
<1>5. ASSUME NEW n \in Looked(entries), NEW x \in entries[n].keys
      PROVE  GroupParties(entries)[entries[n].name] = partyOf[x.owner]
  <2>1. x \in DOMAIN of
    BY <1>3, <1>4, <1>5 DEF GroupInv
  <2>2. partyOf[x.owner] = of[CHOOSE y \in DOMAIN of : y.owner = x.owner]
    BY <2>1
  <2>3. PICK y \in DOMAIN of : y = (CHOOSE z \in DOMAIN of : z.owner = x.owner) /\ y.owner = x.owner
    BY <2>1
  <2>4. of[y] = of[x]
    BY <1>3, <2>1, <2>3 DEF GroupInv
  <2>5. f[k].named[entries[n].name] = of[x]
    BY <1>3, <1>4, <1>5 DEF GroupInv
  <2> QED
    BY <1>2, <2>2, <2>3, <2>4, <2>5
<1> QED
  BY <1>5

(* A quorum of k is made by k owners of the keys that verify. *)
LEMMA QuorumOfOwners ==
  ASSUME NEW entries, Len(config) \in Nat, DOMAIN entries \subseteq 1..Len(config),
         Linked(entries), verifier.k \in Nat, CheckCosignatureQuorum(entries).ok,
         NEW S, IsFiniteSet(S),
         \A n \in Looked(entries) : \A key \in Usable(entries[n].keys) :
           VerifyOne(entries[n], key) # {} => key.owner \in S
  PROVE  Cardinality(S) >= verifier.k
<1> DEFINE party == GroupParties(entries)
           verified == VerifyCosignatures(entries)
           counted == {party[v.name] : v \in verified}
<1>1. Cardinality(counted) >= verifier.k
  BY DEF CheckCosignatureQuorum
<1>2. PICK partyOf : \A n \in Looked(entries) : \A x \in entries[n].keys :
                       party[entries[n].name] = partyOf[x.owner]
  BY PartyOfOwner
<1> DEFINE f == [w \in S |-> partyOf[w]]
           image == {partyOf[w] : w \in S}
<1>3. f \in Surjection(S, image)
  BY DEF Surjection
<1>4. IsFiniteSet(image) /\ Cardinality(image) <= Cardinality(S)
  BY <1>3, FS_Surjection
<1>5. counted \subseteq image
  <2> SUFFICES ASSUME NEW v \in verified PROVE party[v.name] \in image
    OBVIOUS
  <2>1. PICK n \in Looked(entries) :
          v \in UNION {VerifyOne(entries[n], key) : key \in Usable(entries[n].keys)}
    BY DEF VerifyCosignatures
  <2>2. PICK key \in Usable(entries[n].keys) : v \in VerifyOne(entries[n], key)
    BY <2>1
  <2>3. v.name = entries[n].name
    BY <2>2 DEF VerifyOne
  <2>4. key \in entries[n].keys /\ key.owner \in S
    BY <2>2 DEF Usable
  <2>5. party[v.name] = partyOf[key.owner]
    BY <1>2, <2>3, <2>4
  <2> QED
    BY <2>4, <2>5
<1>6. Cardinality(counted) <= Cardinality(image)
  BY <1>4, <1>5, FS_Subset
<1>7. Cardinality(counted) \in Nat /\ Cardinality(image) \in Nat /\ Cardinality(S) \in Nat
  BY <1>4, <1>5, FS_Subset, FS_CardinalityType
<1> QED
  BY <1>1, <1>4, <1>6, <1>7

-----------------------------------------------------------------------------
(* The lines of the note are genuine, or by a key that somebody can forge. *)

WitnessKeys == UNION {{Key(w, Ed), Key(w, MlDsa)} : w \in Witnesses}

Written == UNION {UNION {LinesOf(n, key) : key \in config[n].keys} : n \in DOMAIN config}

AnchorInv ==
  /\ config \in Configs /\ verifier \in Verifiers /\ threat \in Threats
  /\ lines \in Seq(Written)

(* No line is attached yet. *)
LEMMA AnchorInitInv == AnchorInit => AnchorInv
BY DEF AnchorInit, AnchorInv

(* Every line attached is one somebody could write. *)
LEMMA AnchorNextInv == AnchorInv /\ [AnchorNext]_anchorVars => AnchorInv'
<1> SUFFICES ASSUME AnchorInv, [AnchorNext]_anchorVars PROVE AnchorInv'
  OBVIOUS
<1>1. UNCHANGED <<cosigned, threat, config, verifier>>
  BY DEF AnchorNext, AttachCosignature, anchorVars
<1>2. Written' = Written
  BY <1>1 DEF Written, LinesOf, Genuine, Forgeable, CosignCheckpoint, CosignCheckpointMlDsa44
<1>3. CASE AttachCosignature
  <2>1. PICK n \in DOMAIN config : \E key \in config[n].keys :
               \E line \in LinesOf(n, key) : lines' = Append(lines, line)
    BY <1>3 DEF AttachCosignature
  <2>2. PICK key \in config[n].keys : \E line \in LinesOf(n, key) : lines' = Append(lines, line)
    BY <2>1
  <2>3. PICK line \in LinesOf(n, key) : lines' = Append(lines, line)
    BY <2>2
  <2>4. line \in Written
    BY <2>3 DEF Written
  <2>5. lines' \in Seq(Written)
    BY <2>3, <2>4 DEF AnchorInv
  <2> QED
    BY <1>1, <1>2, <2>5 DEF AnchorInv
<1>4. CASE UNCHANGED anchorVars
  BY <1>1, <1>2, <1>4 DEF AnchorInv, anchorVars
<1> QED
  BY <1>3, <1>4 DEF AnchorNext

(* A line that verifies under a key nobody forges is its owner's own: over   *)
(* this tree, and made when it says.                                         *)
LEMMA VerifiedIsSigned ==
  ASSUME AnchorInv, NEW n \in DOMAIN lines, NEW entry, NEW key \in WitnessKeys,
         ~Forgeable(key), Verifies(lines[n], entry, key)
  PROVE  key.owner \in SignedTree /\ lines[n].time = MadeAt
<1> DEFINE line == lines[n]
<1>1. line.sig = Signature(key, Message(entry.name, key.alg, Note, line.time))
  BY DEF Verifies
<1>2. line.sig.by = key /\ line.sig.over = Message(entry.name, key.alg, Note, line.time)
  BY <1>1 DEF Signature
<1>3. line \in Written
  BY DEF AnchorInv
<1>4. PICK m \in DOMAIN config : \E k \in config[m].keys : line \in LinesOf(m, k)
  BY <1>3 DEF Written
<1>5. PICK k \in config[m].keys : line \in LinesOf(m, k)
  BY <1>4
<1>6. line.sig \in Genuine
  <2>1. CASE line \in [name : {config[m].name}, key : {k}, time : Times,
                       sig : {s \in Genuine : s.by = k}]
    BY <2>1
  <2>2. CASE line \in {[name |-> config[m].name, key |-> k, time |-> t,
                        sig |-> Signature(k, Message(config[m].name, k.alg, Note, t))] :
                         t \in {u \in Times : Forgeable(k)}}
    <3>1. Forgeable(k) /\ line.sig.by = k
      BY <2>2 DEF Signature
    <3> QED
      BY <1>2, <3>1
  <2> QED
    BY <1>5, <2>1, <2>2 DEF LinesOf
<1>7. PICK w \in Witnesses : line.sig = CosignCheckpoint(w) \/ line.sig = CosignCheckpointMlDsa44(w)
  BY <1>6 DEF Genuine
<1>8. Ed # MlDsa
  BY DEF Ed, MlDsa
<1>9. CASE line.sig = CosignCheckpoint(w)
  <2>1. key = Key(w, Ed) /\ line.sig.over = CosignaturePayload(cosigned[w], MadeAt)
    BY <1>2, <1>9 DEF CosignCheckpoint, Signature
  <2>2. key.owner = w /\ key.alg = Ed
    BY <2>1 DEF Key
  <2>3. CosignaturePayload(cosigned[w], MadeAt) = CosignaturePayload(Note, line.time)
    BY <1>2, <2>1, <2>2 DEF Message
  <2>4. MadeAt = line.time /\ cosigned[w] = Note
    BY <2>3 DEF CosignaturePayload
  <2> QED
    BY <2>2, <2>4 DEF SignedTree, Forgeable
<1>10. CASE line.sig = CosignCheckpointMlDsa44(w)
  <2>1. key = Key(w, MlDsa) /\ line.sig.over = MlDsa44CosignaturePayload(w, cosigned[w], MadeAt)
    BY <1>2, <1>10 DEF CosignCheckpointMlDsa44, Signature
  <2>2. key.owner = w /\ key.alg = MlDsa
    BY <2>1 DEF Key
  <2>3. MlDsa44CosignaturePayload(w, cosigned[w], MadeAt)
          = MlDsa44CosignaturePayload(entry.name, Note, line.time)
    BY <1>2, <1>8, <2>1, <2>2 DEF Message
  <2>4. MadeAt = line.time /\ cosigned[w].leaves = Note.leaves
    BY <2>3 DEF MlDsa44CosignaturePayload
  <2> QED
    BY <2>2, <2>4 DEF SignedTree, Forgeable
<1> QED
  BY <1>7, <1>9, <1>10

(* A quorum over keys that only the corrupt forge. *)
LEMMA QuorumIsSigned ==
  ASSUME AnchorInv, NEW entries, DOMAIN entries \subseteq DOMAIN config, Linked(entries),
         \A n \in DOMAIN entries : \A key \in entries[n].keys :
           key \in WitnessKeys /\ (Forgeable(key) => key.owner \in threat.corrupt),
         CheckCosignatureQuorum(entries).ok
  PROVE  /\ Cardinality(SignedTree) + Cardinality(threat.corrupt) >= verifier.k
         /\ Cardinality(threat.corrupt) = 0 =>
              Earliest(CheckCosignatureQuorum(entries).verified) = MadeAt
<1> DEFINE S == SignedTree \cup threat.corrupt
           verified == VerifyCosignatures(entries)
<1>1. /\ Len(config) \in Nat /\ DOMAIN entries \subseteq 1..Len(config) /\ verifier.k \in Nat
      /\ IsFiniteSet(SignedTree) /\ IsFiniteSet(threat.corrupt)
  <2>1. Len(config) \in Nat /\ DOMAIN config = 1..Len(config) /\ verifier.k \in Nat
        /\ threat.corrupt \in SUBSET Witnesses
    BY AnchorAssumption DEF AnchorInv
  <2>2. SignedTree \in SUBSET Witnesses /\ IsFiniteSet(Witnesses)
    BY AnchorAssumption DEF SignedTree
  <2> QED
    BY <2>1, <2>2, FS_Subset
<1>2. ASSUME NEW n \in Looked(entries), NEW key \in Usable(entries[n].keys),
             NEW v \in VerifyOne(entries[n], key)
      PROVE  /\ key.owner \in S
             /\ threat.corrupt = {} => v.time = MadeAt
  <2>1. PICK l \in DOMAIN lines : Verifies(lines[l], entries[n], key) /\ v.time = lines[l].time
    BY <1>2 DEF VerifyOne
  <2>2. n \in DOMAIN entries /\ key \in entries[n].keys
    BY <1>2 DEF Looked, Usable
  <2>3. key \in WitnessKeys /\ (Forgeable(key) => key.owner \in threat.corrupt)
    BY <2>2
  <2>4. CASE Forgeable(key)
    BY <2>3, <2>4
  <2>5. CASE ~Forgeable(key)
    BY <2>1, <2>3, <2>5, VerifiedIsSigned
  <2> QED
    BY <2>4, <2>5
<1>3. \A n \in Looked(entries) : \A key \in Usable(entries[n].keys) :
        VerifyOne(entries[n], key) # {} => key.owner \in S
  BY <1>2
<1>4. IsFiniteSet(S) /\ Cardinality(S) <= Cardinality(SignedTree) + Cardinality(threat.corrupt)
  <2>1. IsFiniteSet(S) /\ Cardinality(S) = Cardinality(SignedTree) + Cardinality(threat.corrupt)
                                             - Cardinality(SignedTree \cap threat.corrupt)
    BY <1>1, FS_Union
  <2>2. IsFiniteSet(SignedTree \cap threat.corrupt)
    BY <1>1, FS_Subset
  <2>3. /\ Cardinality(SignedTree) \in Nat /\ Cardinality(threat.corrupt) \in Nat
        /\ Cardinality(SignedTree \cap threat.corrupt) \in Nat
    BY <1>1, <2>2, FS_CardinalityType
  <2> QED
    BY <2>1, <2>3
<1>5. Cardinality(S) >= verifier.k
  BY <1>1, <1>3, <1>4, QuorumOfOwners
<1>6. Cardinality(SignedTree) + Cardinality(threat.corrupt) >= verifier.k
  <2>1. /\ Cardinality(SignedTree) \in Nat /\ Cardinality(threat.corrupt) \in Nat
        /\ Cardinality(S) \in Nat
    BY <1>1, <1>4, FS_CardinalityType
  <2> QED
    BY <1>1, <1>4, <1>5, <2>1
<1>7. ASSUME Cardinality(threat.corrupt) = 0
      PROVE  Earliest(CheckCosignatureQuorum(entries).verified) = MadeAt
  <2>1. threat.corrupt = {}
    BY <1>1, <1>7, FS_EmptySet
  <2>2. \A v \in verified : v.time = MadeAt
    <3> SUFFICES ASSUME NEW v \in verified PROVE v.time = MadeAt
      OBVIOUS
    <3>1. PICK n \in Looked(entries) :
            v \in UNION {VerifyOne(entries[n], key) : key \in Usable(entries[n].keys)}
      BY DEF VerifyCosignatures
    <3>2. PICK key \in Usable(entries[n].keys) : v \in VerifyOne(entries[n], key)
      BY <3>1
    <3> QED
      BY <1>2, <2>1, <3>2
  <2>3. CheckCosignatureQuorum(entries).verified = verified
    BY DEF CheckCosignatureQuorum
  <2>4. verified # {}
    <3> DEFINE counted == {GroupParties(entries)[v.name] : v \in verified}
    <3>1. Cardinality(counted) >= verifier.k /\ verifier.k >= 1
      BY DEF CheckCosignatureQuorum
    <3>2. ASSUME verified = {} PROVE FALSE
      <4>1. counted = {}
        BY <3>2
      <4>2. Cardinality(counted) = 0
        BY <4>1, FS_EmptySet
      <4> QED
        BY <1>1, <3>1, <4>2
    <3> QED
      BY <3>2
  <2> HIDE DEF verified
  <2>5. {v.time : v \in verified} = {MadeAt}
    BY <2>2, <2>4
  <2>6. MadeAt <= MadeAt
    BY AnchorAssumption
  <2> QED
    BY <2>2, <2>3, <2>5, <2>6 DEF Earliest
<1> QED
  BY <1>6, <1>7

(* The entries that show an ML-DSA-44 key are as linked as all entries are: *)
(* a witness has one such key.                                               *)
LEMMA PqOnlyLinked ==
  ASSUME AnchorInv, Linked(config)
  PROVE  /\ DOMAIN PqOnly(config) \subseteq DOMAIN config /\ Linked(PqOnly(config))
         /\ \A n \in DOMAIN PqOnly(config) : \A key \in PqOnly(config)[n].keys :
              key \in WitnessKeys /\ key.alg = MlDsa
<1> DEFINE pq == PqOnly(config)
<1>1. /\ DOMAIN pq \subseteq DOMAIN config
      /\ \A n \in DOMAIN pq : pq[n].keys = {key \in config[n].keys : key.alg = MlDsa}
  BY DEF PqOnly
<1>2. \A n \in DOMAIN config : config[n].keys \subseteq WitnessKeys
  BY AnchorAssumption DEF AnchorInv, WitnessKeys
<1>3. \A x \in WitnessKeys : x.alg = MlDsa => x = Key(x.owner, MlDsa)
  BY DEF WitnessKeys, Key, Ed, MlDsa
<1> HIDE DEF pq
<1>4. ASSUME NEW m \in DOMAIN pq, NEW n \in DOMAIN pq, NEW x \in pq[m].keys, NEW y \in pq[n].keys
      PROVE  /\ m = n => x.owner = y.owner
             /\ x.owner = y.owner => pq[m].keys \cap pq[n].keys # {}
  <2>1. m \in DOMAIN config /\ n \in DOMAIN config /\ x \in config[m].keys /\ y \in config[n].keys
        /\ x.alg = MlDsa /\ y.alg = MlDsa
    BY <1>1, <1>4
  <2>2. m = n => x.owner = y.owner
    BY <2>1 DEF Linked
  <2>3. x.owner = y.owner => x = y
    BY <1>2, <1>3, <2>1
  <2> QED
    BY <1>4, <2>2, <2>3
<1> QED
  BY <1>1, <1>2, <1>4 DEF Linked, pq

(* AnchorHolds: a quorum of k is k witnesses, the colluding ones among them, *)
(* that really cosigned this tree, at the strength of ML-DSA-44 even when    *)
(* every Ed25519 key is forged, and their time is theirs (cosign.ts) - for   *)
(* any witnesses, lines and thresholds, if no entry bridges two parties.     *)
THEOREM QuorumsAreWitnesses ==
  ASSUME \A c \in Configs : Linked(c)
  PROVE  AnchorSpec => []AnchorHolds
<1>1. ASSUME AnchorInv PROVE AnchorHolds
  <2> DEFINE classical == CheckCosignatureQuorum(config)
             pq == CheckCosignatureQuorum(PqOnly(config))
  <2>1. Linked(config)
    BY <1>1 DEF AnchorInv
  <2>2. CASE pq.ok
    <3>1. \A n \in DOMAIN PqOnly(config) : \A key \in PqOnly(config)[n].keys :
            key \in WitnessKeys /\ (Forgeable(key) => key.owner \in threat.corrupt)
      BY <1>1, <2>1, PqOnlyLinked DEF Forgeable, Ed, MlDsa
    <3>2. /\ Cardinality(SignedTree) + Cardinality(threat.corrupt) >= verifier.k
          /\ Cardinality(threat.corrupt) = 0 => Earliest(pq.verified) = MadeAt
      BY <1>1, <2>1, <2>2, <3>1, PqOnlyLinked, QuorumIsSigned
    <3>3. Assessment.strength = "witnessed-pq" /\ Assessment.at = Earliest(pq.verified)
      BY <2>2 DEF Assessment, Strength, WitnessedAt
    <3> QED
      BY <3>2, <3>3 DEF AnchorHolds
  <2>3. CASE ~pq.ok /\ classical.ok
    <3>1. Assessment.strength = "witnessed" /\ Assessment.at = Earliest(classical.verified)
      BY <2>3 DEF Assessment, Strength, WitnessedAt
    <3>2. ASSUME ~threat.edForged
          PROVE  /\ Cardinality(SignedTree) + Cardinality(threat.corrupt) >= verifier.k
                 /\ Cardinality(threat.corrupt) = 0 => Earliest(classical.verified) = MadeAt
      <4>1. \A n \in DOMAIN config : \A key \in config[n].keys :
              key \in WitnessKeys /\ (Forgeable(key) => key.owner \in threat.corrupt)
        BY <1>1, <3>2, AnchorAssumption DEF AnchorInv, WitnessKeys, Forgeable
      <4> QED
        BY <1>1, <2>1, <2>3, <4>1, QuorumIsSigned
    <3> QED
      BY <3>1, <3>2 DEF AnchorHolds
  <2>4. CASE ~pq.ok /\ ~classical.ok
    <3>1. Assessment.strength = "unwitnessed"
      BY <2>4 DEF Assessment, Strength
    <3> QED
      BY <3>1 DEF AnchorHolds
  <2> QED
    BY <2>2, <2>3, <2>4
<1> QED
  BY <1>1, AnchorInitInv, AnchorNextInv, PTL DEF AnchorSpec

-----------------------------------------------------------------------------
(* The Merkle tree.  A verifier stands on a node of the tree, given by the
   first of the leaves below it and by its width, and every node of a path
   takes it to one above.  Read downwards from the roots it knows, a path that
   is accepted ends in the leaf, or in what the first tree shares with the
   second; read upwards, the paths the log makes arrive at the root. *)

(* The powers of two up to the n-th. *)
PowSteps(f, n) == f = [i \in 0..n |-> IF i = 0 THEN 1 ELSE 2 * f[i - 1]]

(* They can be computed as far as one likes. *)
LEMMA PowStepsExist ==
  ASSUME NEW n \in Nat
  PROVE  \E f : PowSteps(f, n)
<1> DEFINE T == {k \in Nat : ~\E f : PowSteps(f, k)}
<1>1. ASSUME T # {} PROVE FALSE
  <2>1. PICK k \in T : \A m \in T : k <= m
    BY <1>1, LeastOf
  <2>2. k \in Nat /\ ~\E f : PowSteps(f, k)
    BY <2>1
  <2>3. CASE k = 0
    <3> DEFINE g == [i \in 0..0 |-> 1]
    <3>1. g = [i \in 0..0 |-> IF i = 0 THEN 1 ELSE 2 * g[i - 1]]
      OBVIOUS
    <3> QED
      BY <2>2, <2>3, <3>1 DEF PowSteps
  <2>4. CASE k # 0
    <3>1. k - 1 \in Nat /\ k - 1 \notin T
      BY <2>1, <2>2, <2>4
    <3>2. PICK f : PowSteps(f, k - 1)
      BY <3>1
    <3> DEFINE g == [i \in 0..k |-> IF i = 0 THEN 1 ELSE 2 * f[i - 1]]
    <3>3. \A i \in 0..k - 1 : g[i] = f[i]
      BY <2>2, <3>2 DEF PowSteps
    <3>4. ASSUME NEW i \in 0..k
          PROVE  (IF i = 0 THEN 1 ELSE 2 * f[i - 1]) = IF i = 0 THEN 1 ELSE 2 * g[i - 1]
      <4>1. i = 0 \/ i - 1 \in 0..k - 1
        BY <2>2
      <4> QED
        BY <3>3, <4>1
    <3>5. g = [i \in 0..k |-> IF i = 0 THEN 1 ELSE 2 * g[i - 1]]
      BY <3>4
    <3> QED
      BY <2>2, <3>5 DEF PowSteps
  <2> QED
    BY <2>3, <2>4
<1> QED
  BY <1>1

(* However far they are computed, the n-th is the same. *)
LEMMA PowStepsAgree ==
  ASSUME NEW m \in Nat, NEW n \in Nat, NEW f, PowSteps(f, m), NEW g, PowSteps(g, n), m <= n
  PROVE  f[m] = g[m]
<1> DEFINE T == {k \in 0..m : f[k] # g[k]}
<1>1. ASSUME T # {} PROVE FALSE
  <2>1. T \in SUBSET Nat
    OBVIOUS
  <2>2. PICK k \in T : \A j \in T : k <= j
    BY <1>1, <2>1, LeastOf
  <2>3. k \in 0..m /\ k \in 0..n /\ k \in Nat /\ f[k] # g[k]
    BY <2>2
  <2>4. f[k] = (IF k = 0 THEN 1 ELSE 2 * f[k - 1]) /\ g[k] = (IF k = 0 THEN 1 ELSE 2 * g[k - 1])
    BY <2>3 DEF PowSteps
  <2>5. k # 0 /\ k - 1 \in 0..m
    BY <2>3, <2>4
  <2>6. k - 1 \notin T
    BY <2>2, <2>3, <2>5
  <2> QED
    BY <2>3, <2>4, <2>5, <2>6
<1> QED
  BY <1>1

(* What the recursion computes. *)
LEMMA Pow2Is == \A i \in Nat : Pow2[i] = IF i = 0 THEN 1 ELSE 2 * Pow2[i - 1]
<1> DEFINE at(n) == CHOOSE f : PowSteps(f, n)
           g == [n \in Nat |-> at(n)[n]]
<1>1. \A n \in Nat : PowSteps(at(n), n)
  BY PowStepsExist
<1> HIDE DEF at
<1>2. ASSUME NEW n \in Nat PROVE g[n] = IF n = 0 THEN 1 ELSE 2 * g[n - 1]
  <2>1. at(n)[n] = IF n = 0 THEN 1 ELSE 2 * at(n)[n - 1]
    BY <1>1 DEF PowSteps
  <2>2. n # 0 => at(n - 1)[n - 1] = at(n)[n - 1]
    BY <1>1, PowStepsAgree
  <2> QED
    BY <2>1, <2>2
<1>3. g = [n \in Nat |-> IF n = 0 THEN 1 ELSE 2 * g[n - 1]]
  BY <1>2
<1> HIDE DEF g
<1>4. Pow2 = [n \in Nat |-> IF n = 0 THEN 1 ELSE 2 * Pow2[n - 1]]
  BY <1>3 DEF Pow2
<1> QED
  BY <1>4

(* All of them. *)
Pow == {Pow2[i] : i \in Nat}

(* A power of two exceeds its exponent. *)
LEMMA Pow2Type == \A i \in Nat : Pow2[i] \in Nat /\ i < Pow2[i]
<1> DEFINE T == {k \in Nat : ~(Pow2[k] \in Nat /\ k < Pow2[k])}
<1>1. ASSUME T # {} PROVE FALSE
  <2>1. PICK k \in T : \A j \in T : k <= j
    BY <1>1, LeastOf
  <2>2. k \in Nat /\ ~(Pow2[k] \in Nat /\ k < Pow2[k])
    BY <2>1
  <2>3. k # 0
    BY <2>2, Pow2Is
  <2>4. k - 1 \in Nat /\ k - 1 \notin T
    BY <2>1, <2>2, <2>3
  <2>5. Pow2[k - 1] \in Nat /\ k - 1 < Pow2[k - 1] /\ Pow2[k] = 2 * Pow2[k - 1]
    BY <2>2, <2>3, <2>4, Pow2Is
  <2>6. \A a \in Nat : k - 1 < a => 2 * a \in Nat /\ k < 2 * a
    BY <2>2, <2>3
  <2> QED
    BY <2>2, <2>5, <2>6
<1> QED
  BY <1>1

(* The powers of two are one and the doubles of powers of two, and none is
   below its exponent. *)
LEMMA PowFacts ==
  /\ Pow \subseteq Nat \ {0} /\ 1 \in Pow
  /\ \A w \in Pow : 2 * w \in Pow /\ \E i \in 0..w : w = Pow2[i]
  /\ \A w \in Pow : w = 1 \/ \E v \in Pow : w = 2 * v
<1>1. Pow \subseteq Nat \ {0} /\ 1 \in Pow
  BY Pow2Type, Pow2Is DEF Pow
<1>2. ASSUME NEW w \in Pow
      PROVE  /\ 2 * w \in Pow /\ \E i \in 0..w : w = Pow2[i]
             /\ w = 1 \/ \E v \in Pow : w = 2 * v
  <2>1. PICK i \in Nat : w = Pow2[i]
    BY DEF Pow
  <2>2. i < w /\ w \in Nat
    BY <2>1, Pow2Type
  <2>3. Pow2[i + 1] = 2 * w
    BY <2>1, Pow2Is
  <2>4. 2 * w \in Pow
    BY <2>3 DEF Pow
  <2>5. \E j \in 0..w : w = Pow2[j]
    <3>1. i \in 0..w
      BY <2>2
    <3> QED
      BY <2>1, <3>1
  <2>6. CASE i = 0
    BY <2>1, <2>4, <2>5, <2>6, Pow2Is
  <2>7. CASE i # 0
    <3>1. i - 1 \in Nat /\ w = 2 * Pow2[i - 1]
      BY <2>1, <2>7, Pow2Is
    <3>2. Pow2[i - 1] \in Pow
      BY <3>1 DEF Pow
    <3> QED
      BY <2>4, <2>5, <3>1, <3>2
  <2> QED
    BY <2>6, <2>7
<1> QED
  BY <1>1, <1>2

(* Of two powers of two the larger is a multiple of the smaller. *)
LEMMA PowQuotient ==
  ASSUME NEW v \in Pow, NEW w \in Pow, v <= w
  PROVE  \E d \in Pow : w = d * v /\ (d = 1 \/ d % 2 = 0)
<1> DEFINE Good(x) == \E d \in Pow : x = d * v /\ (d = 1 \/ d % 2 = 0)
           T == {x \in Pow : v <= x /\ ~Good(x)}
<1>1. ASSUME T # {} PROVE FALSE
  <2>1. T \in SUBSET Nat
    BY PowFacts
  <2>2. PICK x \in T : \A y \in T : x <= y
    BY <1>1, <2>1, LeastOf
  <2>3. x \in Pow /\ v <= x /\ ~Good(x) /\ x \in Nat /\ v \in Nat /\ v # 0
    BY <2>2, PowFacts
  <2>4. x # v
    <3>1. ASSUME x = v PROVE FALSE
      <4>1. x = 1 * v
        BY <2>3, <3>1
      <4> QED
        BY <2>3, <4>1, PowFacts
    <3> QED
      BY <3>1
  <2>5. PICK y \in Pow : x = 2 * y
    <3>1. x # 1
      BY <2>3, <2>4
    <3> QED
      BY <2>3, <3>1, PowFacts
  <2>6. y \in Nat /\ y # 0 /\ y < x
    BY <2>5, PowFacts
  <2>7. v <= y
    <3>1. ASSUME y < v PROVE FALSE
      <4> DEFINE U == {z \in Pow : \E t \in Pow : z < t /\ t < 2 * z}
      <4>1. v \in Nat /\ y < v /\ v < 2 * y
        BY <2>3, <2>4, <2>5, <2>6, <3>1
      <4>2. y \in U
        BY <4>1
      <4>3. U \in SUBSET Nat
        BY PowFacts
      <4>4. PICK z \in U : \A t \in U : z <= t
        BY <4>2, <4>3, LeastOf
      <4>5. PICK t \in Pow : z < t /\ t < 2 * z
        BY <4>4
      <4>6. z \in Pow /\ z \in Nat /\ z # 0 /\ t \in Nat
        BY <4>4, PowFacts
      <4>7. z # 1 /\ t # 1
        BY <4>5, <4>6
      <4>8. PICK z2 \in Pow : z = 2 * z2
        BY <4>6, <4>7, PowFacts
      <4>9. PICK t2 \in Pow : t = 2 * t2
        BY <4>7, PowFacts
      <4>10. z2 \in Nat /\ t2 \in Nat /\ z2 < t2 /\ t2 < 2 * z2 /\ z2 < z
        BY <4>5, <4>6, <4>8, <4>9, PowFacts
      <4> QED
        BY <4>4, <4>10
    <3> QED
      BY <2>3, <2>6, <3>1
  <2>8. y \notin T
    BY <2>2, <2>3, <2>6
  <2>9. PICK d \in Pow : y = d * v
    BY <2>7, <2>8
  <2>10. d \in Nat /\ x = (2 * d) * v /\ (2 * d) % 2 = 0
    BY <2>3, <2>5, <2>9, PowFacts
  <2> QED
    BY <2>3, <2>10, PowFacts
<1> QED
  BY <1>1

(* A product of powers of two is one. *)
LEMMA PowTimes ==
  ASSUME NEW v \in Pow, NEW w \in Pow
  PROVE  v * w \in Pow
<1> DEFINE T == {x \in Pow : x * w \notin Pow}
<1>1. ASSUME T # {} PROVE FALSE
  <2>1. T \in SUBSET Nat
    BY PowFacts
  <2>2. PICK x \in T : \A y \in T : x <= y
    BY <1>1, <2>1, LeastOf
  <2>3. x \in Pow /\ x \in Nat /\ w \in Nat /\ x * w \notin Pow
    BY <2>2, PowFacts
  <2>4. x # 1
    <3>1. 1 * w = w
      BY <2>3
    <3> QED
      BY <2>3, <3>1
  <2>5. PICK y \in Pow : x = 2 * y
    BY <2>3, <2>4, PowFacts
  <2>6. y \in Nat /\ y < x
    BY <2>3, <2>5, PowFacts
  <2>7. y * w \in Pow
    BY <2>2, <2>3, <2>6
  <2>8. x * w = 2 * (y * w)
    BY <2>3, <2>5, <2>6
  <2> QED
    BY <2>3, <2>7, <2>8, PowFacts
<1> QED
  BY <1>1

-----------------------------------------------------------------------------
(* A number is an odd multiple of one power of two only ... *)
LEMMA OddPartUnique ==
  ASSUME NEW v \in Pow, NEW w \in Pow, NEW m \in Nat, NEW n \in Nat,
         m % 2 = 1, n % 2 = 1, m * v = n * w
  PROVE  v = w /\ m = n
<1>1. \A x, y \in Pow : \A i, j \in Nat : x < y /\ i % 2 = 1 => i * x # j * y
  <2> SUFFICES ASSUME NEW x \in Pow, NEW y \in Pow, NEW i \in Nat, NEW j \in Nat,
                      x < y, i % 2 = 1, i * x = j * y
               PROVE  FALSE
    OBVIOUS
  <2>1. x \in Nat /\ y \in Nat /\ x # 0 /\ y # 0
    BY PowFacts
  <2>2. PICK d \in Pow : y = d * x /\ (d = 1 \/ d % 2 = 0)
    BY <2>1, PowQuotient
  <2>3. d \in Nat /\ d # 1
    BY <2>1, <2>2, PowFacts
  <2>4. i * x = (j * d) * x
    BY <2>1, <2>2, <2>3
  <2>5. i = j * d
    BY <2>1, <2>3, <2>4
  <2>6. PICK e \in Nat : d = 2 * e
    BY <2>2, <2>3
  <2>7. i = 2 * (j * e)
    BY <2>5, <2>6
  <2> QED
    BY <2>6, <2>7
<1>2. v \in Nat /\ w \in Nat /\ v # 0
  BY PowFacts
<1>3. v = w
  <2>1. w \in Nat
    BY PowFacts
  <2>2. ~(v < w)
    BY <1>1
  <2>3. ~(w < v)
    BY <1>1
  <2> QED
    BY <1>2, <2>1, <2>2, <2>3
<1> QED
  BY <1>2, <1>3

(* A number that is an odd multiple of a power of two is shifted by it. *)
LEMMA LowBitIs ==
  ASSUME NEW w \in Pow, NEW n \in Nat, n % 2 = 1
  PROVE  LowBit(n * w) = w
<1>1. w \in Nat /\ w # 0 /\ n # 0 /\ n * w \in Nat /\ w <= n * w
  BY PowFacts
<1>2. PICK i \in 0..w : w = Pow2[i]
  BY PowFacts
<1>3. w \in {Pow2[j] : j \in 0..n * w}
  <2>1. i \in 0..n * w
    BY <1>1
  <2> QED
    BY <1>2, <2>1
<1>4. (n * w) % w = 0 /\ (n * w) \div w = n
  BY <1>1
<1>5. ASSUME NEW v \in {Pow2[j] : j \in 0..n * w}, (n * w) % v = 0, ((n * w) \div v) % 2 = 1
      PROVE  v = w
  <2>1. v \in Pow /\ v \in Nat /\ v # 0
    <3>1. v \in Pow
      BY DEF Pow
    <3> QED
      BY <3>1, PowFacts
  <2>2. \A b \in Nat : b \div v \in Nat /\ (b % v = 0 => b = (b \div v) * v)
    BY <2>1
  <2>3. PICK m \in Nat : m = (n * w) \div v /\ n * w = m * v
    BY <1>1, <1>5, <2>2
  <2> QED
    BY <1>5, <2>1, <2>3, OddPartUnique
<1> QED
  BY <1>3, <1>4, <1>5 DEF LowBit

(* ... and every number but zero is one of one. *)
LEMMA OddPart ==
  ASSUME NEW n \in Nat, n # 0
  PROVE  \E w \in Pow : \E m \in Nat : m % 2 = 1 /\ n = m * w
<1> DEFINE Good(x) == \E w \in Pow : \E m \in Nat : m % 2 = 1 /\ x = m * w
           T == {x \in Nat : x # 0 /\ ~Good(x)}
<1>1. ASSUME T # {} PROVE FALSE
  <2>1. PICK x \in T : \A y \in T : x <= y
    BY <1>1, LeastOf
  <2>2. x \in Nat /\ x # 0 /\ ~Good(x)
    BY <2>1
  <2>3. x % 2 # 1
    <3>1. x = x * 1
      BY <2>2
    <3> QED
      BY <2>2, <3>1, PowFacts
  <2>4. PICK y \in Nat : x = 2 * y
    BY <2>2, <2>3
  <2>5. y # 0 /\ y < x /\ y \notin T
    BY <2>1, <2>2, <2>4
  <2>6. PICK w \in Pow, m \in Nat : m % 2 = 1 /\ y = m * w
    BY <2>5
  <2>7. x = m * (2 * w) /\ 2 * w \in Pow
    BY <2>4, <2>6, PowFacts
  <2> QED
    BY <2>2, <2>6, <2>7
<1> QED
  BY <1>1

(* The split point of n is the power of two that n exceeds by at most itself. *)
LEMMA SplitPointIs ==
  ASSUME NEW w \in Pow, NEW n \in Nat, w < n, n <= 2 * w
  PROVE  SplitPoint(n) = w
<1>1. w \in Nat /\ w # 0
  BY PowFacts
<1>2. PICK i \in 0..w : w = Pow2[i]
  BY PowFacts
<1>3. w \in {Pow2[j] : j \in 0..n}
  <2>1. i \in 0..n
    BY <1>1
  <2> QED
    BY <1>2, <2>1
<1>4. \A x, y \in Pow : x < y => 2 * x <= y
  <2> SUFFICES ASSUME NEW x \in Pow, NEW y \in Pow, x < y PROVE 2 * x <= y
    OBVIOUS
  <2>1. x \in Nat /\ y \in Nat
    BY PowFacts
  <2>2. PICK d \in Pow : y = d * x
    BY <2>1, PowQuotient
  <2>3. d \in Nat /\ d # 0 /\ d # 1
    BY <2>1, <2>2, PowFacts
  <2> QED
    BY <2>1, <2>2, <2>3
<1>5. ASSUME NEW v \in {Pow2[j] : j \in 0..n}, v < n, n <= 2 * v PROVE v = w
  <2>1. v \in Pow
    BY DEF Pow
  <2>2. v \in Nat
    BY <2>1, PowFacts
  <2> QED
    BY <1>1, <1>4, <1>5, <2>1, <2>2
<1> QED
  BY <1>3, <1>5 DEF SplitPoint

(* Two leaves or more can be split. *)
LEMMA SplitExists ==
  ASSUME NEW n \in Nat, 2 <= n
  PROVE  \E w \in Pow : w < n /\ n <= 2 * w
<1> DEFINE Good(x) == \E w \in Pow : w < x /\ x <= 2 * w
           T == {x \in Nat : 2 <= x /\ ~Good(x)}
<1>1. ASSUME T # {} PROVE FALSE
  <2>1. PICK x \in T : \A y \in T : x <= y
    BY <1>1, LeastOf
  <2>2. x \in Nat /\ 2 <= x /\ ~Good(x)
    BY <2>1
  <2>3. x # 2
    BY <2>2, PowFacts
  <2>4. x - 1 \in Nat /\ 2 <= x - 1 /\ x - 1 \notin T
    BY <2>1, <2>2, <2>3
  <2>5. PICK w \in Pow : w < x - 1 /\ x - 1 <= 2 * w
    BY <2>4
  <2>6. w \in Nat /\ 2 * w \in Pow
    BY PowFacts
  <2>7. w < x /\ (x <= 2 * w \/ (2 * w < x /\ x <= 2 * (2 * w)))
    BY <2>2, <2>5, <2>6
  <2> QED
    BY <2>2, <2>6, <2>7
<1> QED
  BY <1>1

(* The ranges of at most k leaves. *)
UpToWidth(hashes, k) == {r \in Ranges(hashes) : r[2] <= r[1] + k}

(* Those of one leaf less are among them. *)
LEMMA WiderRanges ==
  ASSUME NEW hashes, Len(hashes) \in Nat, NEW k \in Nat, k # 0, NEW r \in UpToWidth(hashes, k - 1)
  PROVE  r \in UpToWidth(hashes, k)
BY DEF UpToWidth, Ranges

(* A range of at most one leaf is empty or has one. *)
LEMMA ShortRanges ==
  ASSUME NEW hashes, Len(hashes) \in Nat, NEW r \in Ranges(hashes), r[2] <= r[1] + 1
  PROVE  r[1] = r[2] \/ r[1] + 1 = r[2]
BY DEF Ranges

(* A range of two leaves or more is split inside. *)
LEMMA SplitRange ==
  ASSUME NEW hashes, Len(hashes) \in Nat, NEW r \in Ranges(hashes), ~(r[2] <= r[1] + 1)
  PROVE  \E v \in Pow : /\ Mid(r) = r[1] + v /\ Mid(r) \in Nat
                        /\ r[1] + v < r[2] /\ r[2] <= r[1] + 2 * v
<1>1. r[1] \in Nat /\ r[2] \in Nat /\ r[2] - r[1] \in Nat /\ 2 <= r[2] - r[1]
  BY DEF Ranges
<1>2. PICK v \in Pow : v < r[2] - r[1] /\ r[2] - r[1] <= 2 * v
  BY <1>1, SplitExists
<1>3. v \in Nat /\ SplitPoint(r[2] - r[1]) = v
  BY <1>1, <1>2, PowFacts, SplitPointIs
<1> QED
  BY <1>1, <1>2, <1>3 DEF Mid

(* Both halves of a range are shorter than it. *)
LEMMA ShorterRanges ==
  ASSUME NEW hashes, Len(hashes) \in Nat, NEW k \in Nat, NEW r \in UpToWidth(hashes, k),
         ~(r[2] <= r[1] + 1)
  PROVE  /\ k # 0
         /\ Left(r) \in UpToWidth(hashes, k - 1) /\ Right(r) \in UpToWidth(hashes, k - 1)
<1>1. /\ r \in Ranges(hashes) /\ r[1] \in 0..Len(hashes) /\ r[2] \in 0..Len(hashes)
      /\ r[2] <= r[1] + k
  BY DEF UpToWidth, Ranges
<1>2. PICK v \in Pow : Mid(r) = r[1] + v /\ r[1] + v < r[2]
  BY <1>1, SplitRange
<1>3. v \in Nat /\ v # 0
  BY PowFacts
<1>4. k # 0 /\ Mid(r) \in 0..Len(hashes) /\ r[1] <= Mid(r) /\ Mid(r) <= r[2]
      /\ Mid(r) <= r[1] + (k - 1) /\ r[2] <= Mid(r) + (k - 1)
  <2>1. PICK a \in Nat, b \in Nat : a = r[1] /\ b = r[2]
    BY <1>1
  <2>2. b <= Len(hashes) /\ b <= a + k /\ a + v < b /\ Mid(r) = a + v
    BY <1>1, <1>2, <2>1
  <2>3. k # 0 /\ a + v \in 0..Len(hashes) /\ a <= a + v /\ a + v <= b
        /\ a + v <= a + (k - 1) /\ b <= (a + v) + (k - 1)
    BY <1>3, <2>2
  <2> QED
    BY <2>1, <2>2, <2>3
<1> QED
  BY <1>1, <1>4 DEF Left, Right, UpToWidth, Ranges

(* subtreeRoot() of one range, from those of its halves. *)
RootAt(f, hashes, r) ==
  IF r[1] = r[2] THEN EmptyTreeRoot
  ELSE IF r[1] + 1 = r[2] THEN hashes[r[2]]
  ELSE NodeHash(f[Left(r)], f[Right(r)])

RootSteps(f, hashes, k) == f = [r \in UpToWidth(hashes, k) |-> RootAt(f, hashes, r)]

(* The recursive function of subtreeRoot() exists for every list. *)
LEMMA RootStepsExist ==
  ASSUME NEW hashes, Len(hashes) \in Nat, NEW n \in Nat
  PROVE  \E f : RootSteps(f, hashes, n)
<1> DEFINE T == {k \in Nat : ~\E f : RootSteps(f, hashes, k)}
<1>1. ASSUME T # {} PROVE FALSE
  <2>1. PICK k \in T : \A m \in T : k <= m
    BY <1>1, LeastOf
  <2>2. k \in Nat /\ ~\E f : RootSteps(f, hashes, k)
    BY <2>1
  <2>3. PICK f : k # 0 => RootSteps(f, hashes, k - 1)
    <3>1. k # 0 => k - 1 \in Nat /\ k - 1 \notin T
      BY <2>1, <2>2
    <3> QED
      BY <3>1
  <2> DEFINE g == [r \in UpToWidth(hashes, k) |-> RootAt(f, hashes, r)]
  <2>4. ASSUME k # 0, NEW r \in UpToWidth(hashes, k - 1) PROVE g[r] = f[r]
    <3>1. r \in UpToWidth(hashes, k)
      BY <2>2, <2>4, WiderRanges
    <3>2. f[r] = RootAt(f, hashes, r)
      BY <2>3, <2>4 DEF RootSteps
    <3> QED
      BY <3>1, <3>2
  <2> HIDE DEF g
  <2>5. ASSUME NEW r \in UpToWidth(hashes, k)
        PROVE  RootAt(f, hashes, r) = RootAt(g, hashes, r)
    <3> r \in Ranges(hashes)
      BY DEF UpToWidth
    <3>1. CASE r[2] <= r[1] + 1
      BY <3>1, ShortRanges DEF RootAt
    <3>2. CASE ~(r[2] <= r[1] + 1)
      <4>1. k # 0 /\ Left(r) \in UpToWidth(hashes, k - 1) /\ Right(r) \in UpToWidth(hashes, k - 1)
        BY <2>2, <3>2, ShorterRanges
      <4>2. g[Left(r)] = f[Left(r)] /\ g[Right(r)] = f[Right(r)]
        BY <2>4, <4>1
      <4> QED
        BY <4>2 DEF RootAt
    <3> QED
      BY <3>1, <3>2
  <2>6. g = [r \in UpToWidth(hashes, k) |-> RootAt(g, hashes, r)]
    BY <2>5 DEF g
  <2> QED
    BY <2>2, <2>6 DEF RootSteps
<1> QED
  BY <1>1

(* No range is longer than the list. *)
LEMMA AllRanges ==
  ASSUME NEW hashes, Len(hashes) \in Nat
  PROVE  UpToWidth(hashes, Len(hashes)) = Ranges(hashes)
BY DEF UpToWidth, Ranges

(* The root over a range is its leaf, or joins the roots over its halves. *)
LEMMA RootIs ==
  ASSUME NEW hashes, Len(hashes) \in Nat
  PROVE  LET root == SubtreeRoots(hashes) IN
         /\ \A a \in Nat : a < Len(hashes) => root[<<a, a + 1>>] = hashes[a + 1]
         /\ \A a, b \in Nat : \A v \in Pow : a + v < b /\ b <= a + 2 * v /\ b <= Len(hashes)
              => root[<<a, b>>] = NodeHash(root[<<a, a + v>>], root[<<a + v, b>>])
<1> DEFINE root == CHOOSE f : RootSteps(f, hashes, Len(hashes))
<1>1. RootSteps(root, hashes, Len(hashes))
  BY RootStepsExist
<1>2. SubtreeRoots(hashes) = root
  BY AllRanges DEF SubtreeRoots, RootSteps, RootAt
<1> HIDE DEF root
<1>3. \A r \in Ranges(hashes) : root[r] = RootAt(root, hashes, r)
  BY <1>1, AllRanges DEF RootSteps
<1>4. ASSUME NEW a \in Nat, a < Len(hashes) PROVE root[<<a, a + 1>>] = hashes[a + 1]
  <2>1. <<a, a + 1>> \in Ranges(hashes)
    BY <1>4 DEF Ranges
  <2> QED
    BY <1>3, <2>1 DEF RootAt
<1>5. ASSUME NEW a \in Nat, NEW b \in Nat, NEW v \in Pow,
             a + v < b, b <= a + 2 * v, b <= Len(hashes)
      PROVE  root[<<a, b>>] = NodeHash(root[<<a, a + v>>], root[<<a + v, b>>])
  <2>1. v \in Nat /\ v # 0
    BY PowFacts
  <2>2. <<a, b>> \in Ranges(hashes) /\ a # b /\ a + 1 # b
    BY <1>5, <2>1 DEF Ranges
  <2>3. SplitPoint(b - a) = v
    BY <1>5, <2>1, SplitPointIs
  <2>4. Left(<<a, b>>) = <<a, a + v>> /\ Right(<<a, b>>) = <<a + v, b>>
    BY <2>3 DEF Left, Right, Mid
  <2> QED
    BY <1>3, <2>2, <2>4 DEF RootAt
<1> QED
  BY <1>2, <1>4, <1>5

(* Two lists have the same root over a range exactly if they agree there.   *)
SameOver(f, g, c, n) ==
  SubtreeRoots(f)[<<c, c + n>>] = SubtreeRoots(g)[<<c, c + n>>]
    <=> \A i \in c + 1..c + n : f[i] = g[i]

(* If two lists agree over the halves as their roots say, they do over the
   range. *)
LEMMA SameJoin ==
  ASSUME NEW f, NEW g, Len(f) \in Nat, Len(g) \in Nat,
         NEW c \in Nat, NEW n \in Nat, NEW v \in Pow,
         c + n <= Len(f), c + n <= Len(g), v < n, n <= 2 * v,
         SameOver(f, g, c, v), SameOver(f, g, c + v, n - v)
  PROVE  SameOver(f, g, c, n)
<1> v \in Nat /\ v # 0
  BY PowFacts
<1> DEFINE rf == SubtreeRoots(f)
           rg == SubtreeRoots(g)
           b == c + n
<1>0. /\ b \in Nat /\ c + v < b /\ b <= c + 2 * v /\ (c + v) + (n - v) = b
      /\ b <= Len(f) /\ b <= Len(g)
  OBVIOUS
<1>1. rf[<<c, b>>] = NodeHash(rf[<<c, c + v>>], rf[<<c + v, b>>])
  <2> HIDE DEF b
  <2> QED
    BY <1>0, RootIs
<1>2. rg[<<c, b>>] = NodeHash(rg[<<c, c + v>>], rg[<<c + v, b>>])
  <2> HIDE DEF b
  <2> QED
    BY <1>0, RootIs
<1> HIDE DEF rf, rg
<1>3. rf[<<c, b>>] = rg[<<c, b>>]
        <=> rf[<<c, c + v>>] = rg[<<c, c + v>>] /\ rf[<<c + v, b>>] = rg[<<c + v, b>>]
  BY <1>1, <1>2 DEF NodeHash
<1>4. rf[<<c, c + v>>] = rg[<<c, c + v>>] <=> \A i \in c + 1..c + v : f[i] = g[i]
  BY DEF SameOver, rf, rg
<1>5. rf[<<c + v, b>>] = rg[<<c + v, b>>] <=> \A i \in c + v + 1..b : f[i] = g[i]
  BY <1>0 DEF SameOver, rf, rg
<1>6. (\A i \in c + 1..b : f[i] = g[i])
        <=> (\A i \in c + 1..c + v : f[i] = g[i]) /\ (\A i \in c + v + 1..b : f[i] = g[i])
  <2>1. \A i : i \in c + 1..b <=> i \in c + 1..c + v \/ i \in c + v + 1..b
    BY <1>0
  <2> QED
    BY <2>1, Zenon
<1>7. rf[<<c, b>>] = rg[<<c, b>>] <=> \A i \in c + 1..b : f[i] = g[i]
  BY <1>3, <1>4, <1>5, <1>6
<1> QED
  BY <1>7 DEF SameOver, rf, rg

(* And so over every range, followed down to the leaves. *)
LEMMA EqualRoots ==
  ASSUME NEW f, NEW g, Len(f) \in Nat, Len(g) \in Nat, NEW k \in Nat, NEW a \in Nat,
         a + k <= Len(f), a + k <= Len(g), k # 0
  PROVE  SameOver(f, g, a, k)
<1> DEFINE In(c, n) == c + n <= Len(f) /\ c + n <= Len(g)
           T == {n \in Nat : n # 0 /\ \E c \in Nat : In(c, n) /\ ~SameOver(f, g, c, n)}
<1>1. ASSUME T # {} PROVE FALSE
  <2>1. PICK n \in T : \A m \in T : n <= m
    BY <1>1, LeastOf
  <2>2. n \in Nat /\ n # 0
    BY <2>1
  <2>3. PICK c \in Nat : In(c, n) /\ ~SameOver(f, g, c, n)
    BY <2>1
  <2>4. n # 1
    <3>1. ASSUME n = 1 PROVE FALSE
      <4>1. SubtreeRoots(f)[<<c, c + 1>>] = f[c + 1] /\ SubtreeRoots(g)[<<c, c + 1>>] = g[c + 1]
        BY <2>3, <3>1, RootIs
      <4>2. c + 1..c + 1 = {c + 1}
        OBVIOUS
      <4> QED
        BY <2>3, <3>1, <4>1, <4>2 DEF SameOver
    <3> QED
      BY <3>1
  <2>5. PICK v \in Pow : v < n /\ n <= 2 * v
    BY <2>2, <2>4, SplitExists
  <2>6. v \in Nat /\ v # 0 /\ n - v \in Nat /\ n - v # 0 /\ n - v < n
    BY <2>2, <2>5, PowFacts
  <2>7. In(c, v) /\ In(c + v, n - v) /\ c + v \in Nat
    BY <2>2, <2>3, <2>5, <2>6
  <2>8. v \notin T /\ n - v \notin T
    <3>1. ~(n <= v) /\ ~(n <= n - v)
      BY <2>2, <2>5, <2>6
    <3> HIDE DEF T
    <3> QED
      BY <2>1, <3>1
  <2>9. SameOver(f, g, c, v) /\ SameOver(f, g, c + v, n - v)
    BY <2>6, <2>7, <2>8
  <2> QED
    BY <2>2, <2>3, <2>5, <2>9, SameJoin
<1>2. k \notin T
  BY <1>1
<1> QED
  BY <1>2

(* The verifier stands on the node of width w over the leaves from lo on,   *)
(* in a tree of n leaves.                                                   *)
Track(p, lo, w, n) ==
  /\ w \in Pow /\ lo \in Nat /\ p.fn \in Nat /\ p.sn \in Nat
  /\ lo = p.fn * w /\ lo < n
  /\ p.sn * w < n /\ n <= p.sn * w + w

(* Where that node ends: the last one may be cut short. *)
End(lo, w, n) == IF lo + w <= n THEN lo + w ELSE n

(* What a shift to the right drops is less than the divisor. *)
LEMMA Floor ==
  ASSUME NEW m \in Nat, NEW z \in Nat, z # 0
  PROVE  m \div z \in Nat /\ (m \div z) * z <= m /\ m + 1 <= (m \div z) * z + z
OBVIOUS

(* A shift of both counters goes up to the node over the one it stands on. *)
LEMMA ShiftTrack ==
  ASSUME NEW p, NEW lo, NEW w, NEW n \in Nat, Track(p, lo, w, n), NEW z \in Pow
  PROVE  Track(Shift(p, z), (p.fn \div z) * (z * w), z * w, n)
<1> DEFINE f == p.fn
           s == p.sn
           f2 == f \div z
           s2 == s \div z
<1>1. /\ w \in Nat /\ w # 0 /\ z \in Nat /\ z # 0 /\ z * w \in Pow /\ z * w \in Nat
      /\ f \in Nat /\ s \in Nat /\ lo \in Nat
      /\ lo = f * w /\ lo < n /\ s * w < n /\ n <= s * w + w
  BY PowFacts, PowTimes DEF Track
<1>2. Shift(p, z).fn = f2 /\ Shift(p, z).sn = s2
  BY DEF Shift
<1> HIDE DEF f, s
<1>3. /\ f2 \in Nat /\ s2 \in Nat /\ f2 * z <= f /\ s2 * z <= s /\ s + 1 <= s2 * z + z
  BY <1>1, Floor
<1> HIDE DEF f2, s2
<1>4. \A a, b \in Nat : a <= b => a * w <= b * w
  BY <1>1
<1>5. f2 * z \in Nat /\ s2 * z \in Nat /\ s2 * z + z \in Nat /\ s + 1 \in Nat
  BY <1>1, <1>3
<1>6. (f2 * z) * w <= f * w /\ (s2 * z) * w <= s * w /\ (s + 1) * w <= (s2 * z + z) * w
  BY <1>1, <1>3, <1>4, <1>5
<1>7. (f2 * z) * w = f2 * (z * w) /\ (s2 * z) * w = s2 * (z * w)
      /\ (s + 1) * w = s * w + w /\ (s2 * z + z) * w = s2 * (z * w) + z * w
  BY <1>1, <1>3
<1>8. f2 * (z * w) \in Nat /\ s2 * (z * w) \in Nat
  BY <1>1, <1>3
<1> QED
  BY <1>1, <1>2, <1>3, <1>6, <1>7, <1>8 DEF Track, f, f2

(* One node of the path joins the tracked node to its sibling: from the    *)
(* left it is the node before, and from the right the one after.            *)
LEMMA ClimbTrack ==
  ASSUME NEW p, NEW lo, NEW w, NEW n \in Nat, Track(p, lo, w, n), p.sn # 0
  PROVE  \E lo2 \in Nat, v \in Pow :
           /\ Track(Up(p), lo2, 2 * v, n) /\ lo2 + v < n /\ w <= v
           /\ FromLeft(p) => lo = lo2 + v /\ End(lo, w, n) = End(lo2, 2 * v, n)
           /\ ~FromLeft(p) => lo = lo2 /\ v = w
<1>1. /\ w \in Pow /\ w \in Nat /\ w # 0
      /\ p.fn \in Nat /\ p.sn \in Nat /\ lo \in Nat
      /\ lo = p.fn * w /\ lo < n /\ p.sn * w < n /\ n <= p.sn * w + w
  BY PowFacts DEF Track
<1>2. 1 \in Pow /\ 2 \in Pow
  BY PowFacts
<1>3. p.fn <= p.sn
  <2>1. ASSUME p.sn + 1 <= p.fn PROVE FALSE
    <3>1. \A a, b \in Nat : a <= b => a * w <= b * w
      BY <1>1
    <3>2. (p.sn + 1) * w <= p.fn * w /\ (p.sn + 1) * w = p.sn * w + w
      BY <1>1, <2>1, <3>1
    <3> QED
      BY <1>1, <3>2
  <2> QED
    BY <1>1, <2>1
<1>4. CASE FromLeft(p)
  <2>1. p.fn # 0
    BY <1>1, <1>4 DEF FromLeft
  <2>2. PICK z \in Pow, m \in Nat : m % 2 = 1 /\ p.fn = m * z
    BY <1>1, <2>1, OddPart
  <2>3. z \in Nat /\ z # 0 /\ z * w \in Pow /\ z * w \in Nat
    BY <1>1, <2>2, PowFacts, PowTimes
  <2>4. LowBit(p.fn) = z /\ SkipLevels(p) = Shift(p, z)
    BY <2>1, <2>2, LowBitIs DEF SkipLevels
  <2>5. p.fn \div z = m
    BY <2>2, <2>3
  <2>6. m * (z * w) = lo
    BY <1>1, <2>2, <2>3
  <2> DEFINE v == z * w
             q == Shift(p, z)
             lo2 == lo - v
  <2>7. Track(q, lo, v, n)
    BY <2>5, <2>6, ShiftTrack
  <2>8. Up(p) = Shift(q, 2) /\ q.fn = m
    BY <1>4, <2>4, <2>5 DEF Up, Shift
  <2>9. Track(Up(p), (m \div 2) * (2 * v), 2 * v, n)
    <3> HIDE DEF v, q
    <3> QED
      BY <1>2, <2>7, <2>8, ShiftTrack
  <2>10. (m \div 2) * (2 * v) = lo2 /\ lo2 \in Nat
    <3>1. m = 2 * (m \div 2) + 1 /\ m \div 2 \in Nat
      BY <2>2
    <3>2. PICK h \in Nat : h = m \div 2 /\ m = 2 * h + 1
      BY <3>1
    <3>3. v \in Nat /\ (2 * h + 1) * v = h * (2 * v) + v
      BY <2>3, <3>2
    <3>4. h * (2 * v) \in Nat
      BY <3>2, <3>3
    <3> QED
      BY <1>1, <2>6, <3>2, <3>3, <3>4
  <2>11. w <= v /\ lo2 + v = lo
    BY <1>1, <2>3, <2>10
  <2>12. End(lo, w, n) = End(lo2, 2 * v, n)
    <3>0. v \in Nat /\ lo2 + 2 * v = lo + v
      BY <1>1, <2>3, <2>11, <2>10
    <3>1. CASE z = 1
      BY <1>1, <3>0, <3>1 DEF End
    <3>2. CASE z # 1
      <4>1. PICK y \in Pow : z = 2 * y
        BY <3>2, PowFacts
      <4>2. y \in Nat
        BY PowFacts
      <4>3. p.fn = 2 * (m * y) /\ m * y \in Nat
        BY <2>2, <4>1, <4>2
      <4>4. p.fn % 2 = 0
        BY <4>3
      <4>5. p.fn = p.sn
        BY <1>4, <4>4 DEF FromLeft
      <4> QED
        BY <1>1, <2>11, <3>0, <4>5 DEF End
    <3> QED
      BY <3>1, <3>2
  <2> QED
    <3> HIDE DEF v, q
    <3>1. lo2 \in Nat /\ v \in Pow /\ Track(Up(p), lo2, 2 * v, n)
      BY <2>3, <2>9, <2>10 DEF v
    <3> HIDE DEF lo2
    <3> QED
      BY <1>1, <1>4, <2>11, <2>12, <3>1
<1>5. CASE ~FromLeft(p)
  <2>1. p.fn % 2 = 0 /\ p.fn < p.sn
    BY <1>1, <1>3, <1>5 DEF FromLeft
  <2>2. Up(p) = Shift(p, 2)
    BY <1>5 DEF Up
  <2>3. Track(Up(p), (p.fn \div 2) * (2 * w), 2 * w, n)
    BY <1>2, <2>2, ShiftTrack
  <2>4. (p.fn \div 2) * (2 * w) = lo
    <3>1. PICK h \in Nat : h = p.fn \div 2 /\ p.fn = 2 * h
      BY <1>1, <2>1
    <3> QED
      BY <1>1, <3>1
  <2>5. lo + w < n
    <3>1. \A a, b \in Nat : a <= b => a * w <= b * w
      BY <1>1
    <3>2. p.fn + 1 \in Nat /\ p.fn + 1 <= p.sn
      BY <1>1, <2>1
    <3>3. (p.fn + 1) * w <= p.sn * w
      BY <1>1, <3>1, <3>2
    <3>4. (p.fn + 1) * w = lo + w
      BY <1>1
    <3> QED
      BY <1>1, <3>3, <3>4
  <2> QED
    BY <1>1, <1>5, <2>3, <2>4, <2>5
<1> QED
  BY <1>4, <1>5

-----------------------------------------------------------------------------
(* The loop of the verifiers, up to the k-th node.                          *)
ClimbStart(hash, p) == [fr |-> hash, sr |-> hash, p |-> p, ok |-> TRUE]

ClimbSteps(run, hash, p, nodes, k) ==
  run = [i \in 0..k |-> IF i = 0 THEN ClimbStart(hash, p) ELSE ClimbStep(run[i - 1], nodes[i])]

(* The loop can be run over any path. *)
LEMMA ClimbStepsExist ==
  ASSUME NEW hash, NEW p, NEW nodes, NEW n \in Nat
  PROVE  \E run : ClimbSteps(run, hash, p, nodes, n)
<1> DEFINE T == {k \in Nat : ~\E run : ClimbSteps(run, hash, p, nodes, k)}
<1>1. ASSUME T # {} PROVE FALSE
  <2>1. PICK k \in T : \A m \in T : k <= m
    BY <1>1, LeastOf
  <2>2. k \in Nat /\ ~\E run : ClimbSteps(run, hash, p, nodes, k)
    BY <2>1
  <2>3. k # 0
    <3> DEFINE g == [i \in 0..0 |-> ClimbStart(hash, p)]
    <3>1. \A i \in 0..0 : i = 0
      OBVIOUS
    <3>2. ClimbSteps(g, hash, p, nodes, 0)
      BY <3>1 DEF ClimbSteps
    <3> QED
      BY <2>2, <3>2
  <2>4. k - 1 \in Nat /\ k - 1 \notin T
    BY <2>1, <2>2, <2>3
  <2>5. PICK f : ClimbSteps(f, hash, p, nodes, k - 1)
    BY <2>4
  <2> DEFINE g == [i \in 0..k |-> IF i = 0 THEN ClimbStart(hash, p)
                                  ELSE ClimbStep(f[i - 1], nodes[i])]
  <2>6. ASSUME NEW i \in 0..k - 1 PROVE g[i] = f[i]
    <3>1. i \in 0..k
      BY <2>2
    <3>2. f[i] = IF i = 0 THEN ClimbStart(hash, p) ELSE ClimbStep(f[i - 1], nodes[i])
      BY <2>5 DEF ClimbSteps
    <3> QED
      BY <3>1, <3>2
  <2> HIDE DEF g
  <2>7. ASSUME NEW i \in 0..k, i # 0 PROVE g[i - 1] = f[i - 1]
    <3>1. i - 1 \in 0..k - 1
      BY <2>2, <2>7
    <3> QED
      BY <2>6, <3>1
  <2>8. g = [i \in 0..k |-> IF i = 0 THEN ClimbStart(hash, p) ELSE ClimbStep(g[i - 1], nodes[i])]
    BY <2>7 DEF g
  <2> QED
    BY <2>2, <2>8 DEF ClimbSteps
<1> QED
  BY <1>1

(* What the loop ends with is where its steps lead. *)
LEMMA ClimbRun ==
  ASSUME NEW hash, NEW p, NEW nodes, Len(nodes) \in Nat
  PROVE  \E run : /\ ClimbSteps(run, hash, p, nodes, Len(nodes))
                  /\ Climb(hash, p, nodes) = run[Len(nodes)]
<1> DEFINE run == CHOOSE r : ClimbSteps(r, hash, p, nodes, Len(nodes))
<1>1. ClimbSteps(run, hash, p, nodes, Len(nodes))
  BY ClimbStepsExist
<1>2. Climb(hash, p, nodes) = run[Len(nodes)]
  BY DEF Climb, ClimbSteps, ClimbStart
<1> QED
  BY <1>1, <1>2

(* Without a node the loop ends where it starts ... *)
LEMMA ClimbEmpty ==
  ASSUME NEW hash, NEW p
  PROVE  Climb(hash, p, <<>>) = ClimbStart(hash, p)
<1>1. Len(<<>>) = 0 /\ Len(<<>>) \in Nat /\ 0 \in 0..0
  OBVIOUS
<1>2. PICK run : ClimbSteps(run, hash, p, <<>>, 0) /\ Climb(hash, p, <<>>) = run[0]
  BY <1>1, ClimbRun
<1> QED
  BY <1>1, <1>2 DEF ClimbSteps

(* ... and one node more is one step more. *)
LEMMA ClimbAppend ==
  ASSUME NEW S, NEW hash, NEW p, NEW nodes \in Seq(S), NEW node \in S
  PROVE  Climb(hash, p, Append(nodes, node)) = ClimbStep(Climb(hash, p, nodes), node)
<1> DEFINE k == Len(nodes)
           more == Append(nodes, node)
<1>1. /\ k \in Nat /\ Len(more) = k + 1 /\ more[k + 1] = node
      /\ \A i \in 1..k : more[i] = nodes[i]
  OBVIOUS
<1> HIDE DEF more, k
<1>2. PICK f : ClimbSteps(f, hash, p, nodes, k) /\ Climb(hash, p, nodes) = f[k]
  BY <1>1, ClimbRun DEF k
<1>3. PICK g : ClimbSteps(g, hash, p, more, k + 1) /\ Climb(hash, p, more) = g[k + 1]
  <2>1. Len(more) \in Nat
    BY <1>1
  <2> QED
    BY <1>1, <2>1, ClimbRun
<1>4. /\ f[0] = ClimbStart(hash, p) /\ g[0] = ClimbStart(hash, p)
      /\ \A i \in 1..k : f[i] = ClimbStep(f[i - 1], nodes[i])
      /\ \A i \in 1..k + 1 : g[i] = ClimbStep(g[i - 1], more[i])
  BY <1>1, <1>2, <1>3 DEF ClimbSteps
<1> DEFINE T == {i \in 0..k : f[i] # g[i]}
<1>5. ASSUME T # {} PROVE FALSE
  <2>0. T \in SUBSET Nat
    BY <1>1
  <2>1. PICK i \in T : \A m \in T : i <= m
    <3> HIDE DEF T
    <3> QED
      BY <1>5, <2>0, LeastOf
  <2>2. i \in 1..k /\ i \in 1..k + 1
    BY <1>1, <1>4, <2>1
  <2>3. i - 1 \in 0..k /\ ~(i <= i - 1)
    BY <1>1, <2>2
  <2>4. f[i - 1] = g[i - 1]
    BY <2>1, <2>3
  <2> QED
    BY <1>1, <1>4, <2>1, <2>2, <2>4
<1>6. f[k] = g[k]
  BY <1>1, <1>5
<1>7. g[k + 1] = ClimbStep(g[k], node)
  BY <1>1, <1>4
<1> QED
  BY <1>2, <1>3, <1>6, <1>7 DEF more

-----------------------------------------------------------------------------
(* What the node joined and the node before it are, seen from the one above. *)
BackTo(hashes, acc, node, lo, w, lo2, v) ==
  LET root == SubtreeRoots(hashes)
      n == Len(hashes)
      next == ClimbStep(acc, node)
      b == End(lo2, 2 * v, n) IN
  /\ acc.ok /\ Track(next.p, lo2, 2 * v, n) /\ lo2 + v < n /\ w <= v
  /\ FromLeft(acc.p) => lo = lo2 + v /\ End(lo, w, n) = b
  /\ ~FromLeft(acc.p) => lo = lo2 /\ v = w /\ End(lo, w, n) = lo + v
  /\ next.sr = root[<<lo2, b>>] => acc.sr = root[<<lo, End(lo, w, n)>>]
  /\ FromLeft(acc.p) /\ next.sr = root[<<lo2, b>>] => node = root[<<lo2, lo>>]

(* A node the climb reaches holds over the leaves it stands for only if the *)
(* node it was joined from does.                                            *)
LEMMA ClimbBack ==
  ASSUME NEW hashes, Len(hashes) \in Nat, NEW acc, NEW node, NEW lo, NEW w,
         Track(acc.p, lo, w, Len(hashes)), ClimbStep(acc, node).ok
  PROVE  \E lo2 \in Nat, v \in Pow : BackTo(hashes, acc, node, lo, w, lo2, v)
<1> DEFINE n == Len(hashes)
           root == SubtreeRoots(hashes)
           next == ClimbStep(acc, node)
<1>1. acc.ok /\ acc.p.sn # 0 /\ next.p = Up(acc.p)
  BY DEF ClimbStep
<1>2. PICK lo2 \in Nat, v \in Pow :
           /\ Track(Up(acc.p), lo2, 2 * v, n) /\ lo2 + v < n /\ w <= v
           /\ FromLeft(acc.p) => lo = lo2 + v /\ End(lo, w, n) = End(lo2, 2 * v, n)
           /\ ~FromLeft(acc.p) => lo = lo2 /\ v = w
  BY <1>1, ClimbTrack
<1> DEFINE b == End(lo2, 2 * v, n)
<1>3. v \in Nat /\ v # 0 /\ n \in Nat
  BY PowFacts
<1>4. b \in Nat /\ lo2 + v < b /\ b <= lo2 + 2 * v /\ b <= n
  BY <1>2, <1>3 DEF End
<1>5. root[<<lo2, b>>] = NodeHash(root[<<lo2, lo2 + v>>], root[<<lo2 + v, b>>])
  <2> HIDE DEF b
  <2> QED
    BY <1>4, RootIs
<1> HIDE DEF b, root
<1>6. CASE FromLeft(acc.p)
  <2>1. next.sr = NodeHash(node, acc.sr)
    BY <1>6 DEF ClimbStep
  <2>2. next.sr = root[<<lo2, b>>] => node = root[<<lo2, lo>>] /\ acc.sr = root[<<lo, b>>]
    BY <1>2, <1>5, <1>6, <2>1 DEF NodeHash
  <2> QED
    BY <1>1, <1>2, <1>6, <2>2 DEF b, root, BackTo
<1>7. CASE ~FromLeft(acc.p)
  <2>1. next.sr = NodeHash(acc.sr, node)
    BY <1>7 DEF ClimbStep
  <2>2. next.sr = root[<<lo2, b>>] => acc.sr = root[<<lo, lo + v>>]
    BY <1>2, <1>5, <1>7, <2>1 DEF NodeHash
  <2>3. End(lo, w, n) = lo + v
    BY <1>2, <1>3, <1>7 DEF End
  <2> QED
    BY <1>1, <1>2, <1>7, <2>2, <2>3 DEF b, root, BackTo
<1> QED
  BY <1>6, <1>7

(* Where sn is zero the verifier stands on the root. *)
LEMMA TopTrack ==
  ASSUME NEW p, NEW lo, NEW w, NEW n \in Nat, Track(p, lo, w, n), p.sn = 0
  PROVE  lo = 0 /\ End(lo, w, n) = n
<1>1. /\ w \in Nat /\ w # 0 /\ p.fn \in Nat /\ lo = p.fn * w /\ lo < n /\ n <= w
  BY PowFacts DEF Track
<1>2. p.fn = 0
  <2>1. ASSUME 1 <= p.fn PROVE FALSE
    <3>1. \A a, b \in Nat : a <= b => a * w <= b * w
      BY <1>1
    <3>2. 1 * w <= p.fn * w
      BY <1>1, <2>1, <3>1
    <3> QED
      BY <1>1, <3>2
  <2> QED
    BY <1>1, <2>1
<1> QED
  BY <1>1, <1>2 DEF End

(* The climb of a leaf: the node it stands on is over that leaf, and holds  *)
(* only if the leaf does.                                                   *)
LeafClimb(hashes, leaf, index, acc) ==
  acc.ok => \E lo \in Nat, w \in Pow :
    /\ Track(acc.p, lo, w, Len(hashes))
    /\ acc.sr = SubtreeRoots(hashes)[<<lo, End(lo, w, Len(hashes))>>] => leaf = hashes[index + 1]

(* Each node of the path keeps that. *)
LEMMA LeafClimbStep ==
  ASSUME NEW hashes, Len(hashes) \in Nat, NEW leaf, NEW index, NEW acc, NEW node,
         LeafClimb(hashes, leaf, index, acc)
  PROVE  LeafClimb(hashes, leaf, index, ClimbStep(acc, node))
<1> DEFINE n == Len(hashes)
           root == SubtreeRoots(hashes)
           next == ClimbStep(acc, node)
<1> SUFFICES ASSUME next.ok
             PROVE  \E lo \in Nat, w \in Pow :
                      /\ Track(next.p, lo, w, n)
                      /\ next.sr = root[<<lo, End(lo, w, n)>>] => leaf = hashes[index + 1]
  BY DEF LeafClimb
<1>1. acc.ok
  BY DEF ClimbStep
<1>2. PICK lo \in Nat, w \in Pow :
         /\ Track(acc.p, lo, w, n)
         /\ acc.sr = root[<<lo, End(lo, w, n)>>] => leaf = hashes[index + 1]
  BY <1>1 DEF LeafClimb
<1>3. PICK lo2 \in Nat, v \in Pow : BackTo(hashes, acc, node, lo, w, lo2, v)
  BY <1>2, ClimbBack
<1>4. /\ Track(next.p, lo2, 2 * v, n)
      /\ next.sr = root[<<lo2, End(lo2, 2 * v, n)>>] => acc.sr = root[<<lo, End(lo, w, n)>>]
  BY <1>3 DEF BackTo
<1>5. 2 * v \in Pow
  BY PowFacts
<1> QED
  BY <1>2, <1>4, <1>5

(* What is verified of an index is the leaf that is there. *)
LEMMA InclusionSound ==
  ASSUME NEW hashes, Len(hashes) \in Nat, NEW leaf, NEW index \in Nat, index < Len(hashes),
         NEW nodes, Len(nodes) \in Nat,
         VerifyInclusion(leaf, index, Len(hashes), nodes, Root(hashes))
  PROVE  leaf = hashes[index + 1]
<1> DEFINE n == Len(hashes)
           p == [fn |-> index, sn |-> n - 1]
           k == Len(nodes)
<1>1. PICK run : ClimbSteps(run, leaf, p, nodes, k) /\ Climb(leaf, p, nodes) = run[k]
  BY ClimbRun
<1>2. /\ run[0] = ClimbStart(leaf, p)
      /\ \A i \in 1..k : run[i] = ClimbStep(run[i - 1], nodes[i])
  <2> k \in Nat
    OBVIOUS
  <2> HIDE DEF k, p
  <2> QED
    BY <1>1 DEF ClimbSteps
<1>3. /\ run[k].ok /\ run[k].p.sn = 0 /\ run[k].sr = SubtreeRoots(hashes)[<<0, n>>]
  BY <1>1 DEF VerifyInclusion, Root
<1>4. LeafClimb(hashes, leaf, index, run[0])
  <2>0. p.fn = index /\ p.sn = n - 1 /\ n - 1 \in Nat /\ index * 1 = index /\ (n - 1) * 1 = n - 1
    OBVIOUS
  <2>1. Track(p, index, 1, n) /\ End(index, 1, n) = index + 1
    <3>1. 1 \in Pow /\ index < n /\ n \in Nat
      BY PowFacts
    <3> HIDE DEF p, n
    <3>2. Track(p, index, 1, n)
      BY <2>0, <3>1 DEF Track
    <3>3. End(index, 1, n) = index + 1
      BY <3>1 DEF End
    <3> QED
      BY <3>2, <3>3
  <2>2. SubtreeRoots(hashes)[<<index, index + 1>>] = hashes[index + 1]
    BY RootIs
  <2>3. run[0].p = p /\ run[0].sr = leaf
    BY <1>2 DEF ClimbStart
  <2> HIDE DEF p
  <2>4. 1 \in Pow /\ Track(run[0].p, index, 1, n)
    BY <2>1, <2>3, PowFacts
  <2>5. run[0].sr = SubtreeRoots(hashes)[<<index, End(index, 1, n)>>] => leaf = hashes[index + 1]
    BY <2>1, <2>2, <2>3
  <2> HIDE DEF n
  <2> QED
    BY <2>4, <2>5 DEF LeafClimb, n
<1> DEFINE T == {i \in 0..k : ~LeafClimb(hashes, leaf, index, run[i])}
<1>5. ASSUME T # {} PROVE FALSE
  <2>0. T \in SUBSET Nat
    OBVIOUS
  <2>1. PICK i \in T : \A m \in T : i <= m
    <3> HIDE DEF T
    <3> QED
      BY <1>5, <2>0, LeastOf
  <2>2. i \in 1..k
    BY <1>4, <2>1
  <2>3. i - 1 \in 0..k /\ ~(i <= i - 1)
    BY <2>2
  <2>4. i - 1 \notin T
    <3> HIDE DEF T
    <3> QED
      BY <2>1, <2>3
  <2>5. LeafClimb(hashes, leaf, index, run[i - 1])
    BY <2>3, <2>4
  <2>6. LeafClimb(hashes, leaf, index, run[i])
    BY <1>2, <2>2, <2>5, LeafClimbStep
  <2> QED
    BY <2>1, <2>6
<1>6. LeafClimb(hashes, leaf, index, run[k])
  BY <1>5
<1>7. PICK lo \in Nat, w \in Pow :
         /\ Track(run[k].p, lo, w, n)
         /\ run[k].sr = SubtreeRoots(hashes)[<<lo, End(lo, w, n)>>] => leaf = hashes[index + 1]
  BY <1>3, <1>6 DEF LeafClimb
<1>8. lo = 0 /\ End(lo, w, n) = n
  BY <1>3, <1>7, TopTrack
<1>9. run[k].sr = SubtreeRoots(hashes)[<<lo, End(lo, w, n)>>]
  <2>1. run[k].sr = SubtreeRoots(hashes)[<<0, n>>]
    BY <1>3
  <2>2. <<lo, End(lo, w, n)>> = <<0, n>>
    BY <1>8
  <2> HIDE DEF n, k
  <2> QED
    BY <2>1, <2>2, Zenon
<1> QED
  BY <1>7, <1>9

(* Where the climb of a consistency path begins: on the last node of the   *)
(* first tree, the largest whose width divides its size.                    *)
LEMMA StartTrack ==
  ASSUME NEW m \in Nat, NEW n \in Nat, m <= n, NEW w \in Pow, NEW g \in Nat, g % 2 = 1, m = g * w
  PROVE  LET p == [fn |-> m - 1, sn |-> n - 1] IN
         /\ m - w \in Nat /\ m - w < m /\ m - w = (g - 1) * w
         /\ Track(SkipOdd(p), m - w, w, n)
<1> DEFINE p == [fn |-> m - 1, sn |-> n - 1]
<1>1. w \in Nat /\ w # 0 /\ g - 1 \in Nat
  <2>1. w \in Nat /\ w # 0
    BY PowFacts
  <2>2. g - 1 \in Nat
    OBVIOUS
  <2> QED
    BY <2>1, <2>2
<1>2. m = (g - 1) * w + w /\ (g - 1) * w \in Nat
  <2>1. PICK h \in Nat : g = h + 1
    BY <1>1
  <2>2. (h + 1) * w = h * w + w /\ h * w \in Nat
    BY <1>1, <2>1
  <2> QED
    BY <2>1, <2>2
<1>3. m - 1 \in Nat /\ n - 1 \in Nat /\ m - w \in Nat /\ m - w = (g - 1) * w /\ m - w < m
  BY <1>1, <1>2
<1>4. p.fn = m - 1 /\ p.sn = n - 1 /\ (m - 1) * 1 = m - 1 /\ (n - 1) * 1 = n - 1 /\ p.fn + 1 = m
  BY <1>3
<1>5. SkipOdd(p) = Shift(p, w)
  BY <1>4, LowBitIs DEF SkipOdd
<1> HIDE DEF p
<1>6. Track(p, m - 1, 1, n)
  BY <1>3, <1>4, PowFacts DEF Track
<1>7. Track(Shift(p, w), (p.fn \div w) * (w * 1), w * 1, n)
  BY <1>6, ShiftTrack
<1>8. p.fn \div w = g - 1
  <2>1. PICK h \in Nat : h = g - 1
    BY <1>1
  <2>2. p.fn = h * w + (w - 1) /\ w - 1 \in 0..w - 1
    BY <1>1, <1>2, <1>4, <2>1
  <2>3. (h * w + (w - 1)) \div w = h
    BY <1>1
  <2> QED
    BY <2>1, <2>2, <2>3
<1>9. w * 1 = w
  BY <1>1
<1> QED
  BY <1>3, <1>5, <1>7, <1>8, <1>9 DEF p

(* The climb of a consistency path: the node it stands on is over the last *)
(* leaf of the first tree, and in both trees only if they agree on it.      *)
Climbing(old, new, acc, lo, w) ==
  /\ Track(acc.p, lo, w, Len(new)) /\ lo < Len(old) /\ Len(old) <= lo + w
  /\ /\ acc.fr = SubtreeRoots(old)[<<lo, Len(old)>>]
     /\ acc.sr = SubtreeRoots(new)[<<lo, End(lo, w, Len(new))>>]
     => \A j \in lo + 1..Len(old) : old[j] = new[j]

BothClimb(old, new, acc) ==
  acc.ok => \E lo \in Nat, w \in Pow : Climbing(old, new, acc, lo, w)

(* Each node of the path keeps that ... *)
LEMMA BothClimbStep ==
  ASSUME NEW old, Len(old) \in Nat, NEW new, Len(new) \in Nat, Len(old) <= Len(new),
         NEW acc, NEW node, BothClimb(old, new, acc)
  PROVE  BothClimb(old, new, ClimbStep(acc, node))
<1> DEFINE m == Len(old)
           n == Len(new)
           ro == SubtreeRoots(old)
           rn == SubtreeRoots(new)
           next == ClimbStep(acc, node)
<1> SUFFICES ASSUME next.ok PROVE \E lo \in Nat, w \in Pow : Climbing(old, new, next, lo, w)
  BY DEF BothClimb
<1>1. acc.ok
  BY DEF ClimbStep
<1>2. PICK lo \in Nat, w \in Pow : Climbing(old, new, acc, lo, w)
  BY <1>1 DEF BothClimb
<1>3. Track(acc.p, lo, w, n) /\ lo < m /\ m <= lo + w
  BY <1>2 DEF Climbing
<1>4. PICK lo2 \in Nat, v \in Pow : BackTo(new, acc, node, lo, w, lo2, v)
  BY <1>3, ClimbBack
<1> DEFINE b == End(lo2, 2 * v, n)
<1>5. /\ Track(next.p, lo2, 2 * v, n) /\ lo2 + v < n /\ w <= v
      /\ FromLeft(acc.p) => lo = lo2 + v /\ End(lo, w, n) = b
      /\ ~FromLeft(acc.p) => lo = lo2 /\ v = w /\ End(lo, w, n) = lo + v
      /\ next.sr = rn[<<lo2, b>>] => acc.sr = rn[<<lo, End(lo, w, n)>>]
      /\ FromLeft(acc.p) /\ next.sr = rn[<<lo2, b>>] => node = rn[<<lo2, lo>>]
  BY <1>4 DEF BackTo
<1>6. v \in Nat /\ w \in Nat /\ 2 * v \in Pow /\ m \in Nat /\ n \in Nat /\ v # 0
  BY PowFacts
<1>7. lo2 < m /\ m <= lo2 + 2 * v
  BY <1>3, <1>5, <1>6
<1>8. ASSUME next.fr = ro[<<lo2, m>>], next.sr = rn[<<lo2, b>>]
      PROVE  \A j \in lo2 + 1..m : old[j] = new[j]
  <2>1. CASE FromLeft(acc.p)
    <3>1. next.fr = NodeHash(node, acc.fr)
      BY <2>1 DEF ClimbStep
    <3>2. lo = lo2 + v /\ lo2 + v < m
      BY <1>3, <1>5, <2>1
    <3>3. ro[<<lo2, m>>] = NodeHash(ro[<<lo2, lo2 + v>>], ro[<<lo2 + v, m>>])
      <4> HIDE DEF m
      <4>1. m <= Len(old)
        BY <1>6 DEF m
      <4> QED
        BY <1>6, <1>7, <3>2, <4>1, RootIs
    <3>4. node = ro[<<lo2, lo2 + v>>] /\ acc.fr = ro[<<lo, m>>]
      <4>1. NodeHash(node, acc.fr) = NodeHash(ro[<<lo2, lo2 + v>>], ro[<<lo, m>>])
        BY <1>8, <3>1, <3>2, <3>3
      <4> HIDE DEF ro, m
      <4> QED
        BY <4>1 DEF NodeHash
    <3>5. node = rn[<<lo2, lo2 + v>>]
      BY <1>5, <1>8, <2>1, <3>2
    <3>6. \A j \in lo2 + 1..lo2 + v : old[j] = new[j]
      <4>1. lo2 + v <= Len(old) /\ lo2 + v <= Len(new)
        BY <1>5, <3>2
      <4>2. SameOver(old, new, lo2, v)
        BY <1>6, <4>1, EqualRoots
      <4> QED
        BY <3>4, <3>5, <4>2 DEF SameOver
    <3>7. \A j \in lo + 1..m : old[j] = new[j]
      BY <1>2, <1>5, <1>8, <3>4 DEF Climbing
    <3>8. \A j \in lo2 + 1..m : j \in lo2 + 1..lo2 + v \/ j \in lo + 1..m
      BY <1>6, <3>2
    <3> QED
      BY <3>6, <3>7, <3>8
  <2>2. CASE ~FromLeft(acc.p)
    <3>1. next.fr = acc.fr
      BY <2>2 DEF ClimbStep
    <3> QED
      BY <1>2, <1>5, <1>8, <2>2, <3>1 DEF Climbing
  <2> QED
    BY <2>1, <2>2
<1>9. Climbing(old, new, next, lo2, 2 * v)
  BY <1>5, <1>7, <1>8 DEF Climbing
<1> QED
  BY <1>6, <1>9

(* ... and it holds where the climb begins. *)
LEMMA BothClimbStart ==
  ASSUME NEW old, Len(old) \in Nat, NEW new, Len(new) \in Nat, Len(old) <= Len(new), Len(old) # 0,
         NEW hash
  PROVE  BothClimb(old, new,
                   ClimbStart(hash, SkipOdd([fn |-> Len(old) - 1, sn |-> Len(new) - 1])))
<1> DEFINE m == Len(old)
           n == Len(new)
           p == SkipOdd([fn |-> m - 1, sn |-> n - 1])
           acc == ClimbStart(hash, p)
<1>1. PICK w \in Pow, g \in Nat : g % 2 = 1 /\ m = g * w
  BY OddPart
<1> DEFINE lo == m - w
<1>2. lo \in Nat /\ lo < m /\ Track(p, lo, w, n)
  BY <1>1, StartTrack
<1>3. w \in Nat /\ w # 0 /\ lo + w = m /\ m \in Nat /\ n \in Nat
  BY <1>2, PowFacts
<1>4. End(lo, w, n) = m
  BY <1>3 DEF End
<1>5. acc.p = p /\ acc.fr = hash /\ acc.sr = hash
  BY DEF ClimbStart
<1>6. SameOver(old, new, lo, w)
  BY <1>2, <1>3, EqualRoots
<1>7. SubtreeRoots(old)[<<lo, m>>] = SubtreeRoots(new)[<<lo, m>>]
        => \A j \in lo + 1..m : old[j] = new[j]
  BY <1>3, <1>6 DEF SameOver
<1> HIDE DEF p, acc, lo
<1>8. Climbing(old, new, acc, lo, w)
  BY <1>2, <1>3, <1>4, <1>5, <1>7 DEF Climbing
<1> QED
  BY <1>2, <1>8 DEF BothClimb, acc, p

(* The path that is climbed is not empty. *)
LEMMA PathLength ==
  ASSUME NEW S, NEW nodes \in Seq(S), NEW x, NEW whole \in BOOLEAN, whole \/ nodes # <<>>
  PROVE  LET hashes == IF whole THEN <<x>> \o nodes ELSE nodes IN
         hashes \in Seq(S \cup {x}) /\ hashes # <<>> /\ Len(Tail(hashes)) \in Nat
<1>1. nodes \in Seq(S \cup {x}) /\ <<x>> \in Seq(S \cup {x})
  OBVIOUS
<1>2. <<x>> \o nodes \in Seq(S \cup {x}) /\ Len(<<x>> \o nodes) = 1 + Len(nodes)
  BY <1>1
<1> DEFINE hashes == IF whole THEN <<x>> \o nodes ELSE nodes
<1>3. hashes \in Seq(S \cup {x}) /\ hashes # <<>>
  <2>1. CASE whole
    <3>1. <<x>> \o nodes # <<>>
      BY <1>2
    <3> QED
      BY <1>2, <2>1, <3>1
  <2>2. CASE ~whole
    BY <1>1, <2>2
  <2> QED
    BY <2>1, <2>2
<1> HIDE DEF hashes
<1>4. Len(Tail(hashes)) \in Nat
  BY <1>3
<1> QED
  BY <1>3, <1>4 DEF hashes

(* Two roots that a path joins are of trees of which the second extends the first. *)
LEMMA ConsistencySound ==
  ASSUME NEW old, Len(old) \in Nat, NEW new, Len(new) \in Nat, Len(old) # 0,
         NEW S, NEW nodes \in Seq(S),
         VerifyConsistency(Root(old), Root(new), Len(old), Len(new), nodes)
  PROVE  Len(old) <= Len(new) /\ \A j \in 1..Len(old) : old[j] = new[j]
<1> DEFINE m == Len(old)
           n == Len(new)
           whole == \E i \in 0..m : m = Pow2[i]
           hashes == IF whole THEN <<Root(old)>> \o nodes ELSE nodes
           p == SkipOdd([fn |-> m - 1, sn |-> n - 1])
           end == Climb(hashes[1], p, Tail(hashes))
<1>1. /\ m <= n
      /\ m = n => Root(old) = Root(new)
      /\ m # n => /\ nodes # <<>> /\ end.ok /\ end.p.sn = 0
                  /\ end.fr = Root(old) /\ end.sr = Root(new)
  BY DEF VerifyConsistency, BothRoots
<1>2. CASE m = n
  <2>1. SameOver(old, new, 0, m)
    BY <1>2, EqualRoots
  <2> QED
    BY <1>1, <1>2, <2>1 DEF SameOver, Root
<1>3. CASE m # n
  <2>0. Len(Tail(hashes)) \in Nat
    BY <1>1, <1>3, PathLength
  <2> DEFINE rest == Tail(hashes)
             k == Len(rest)
             x == hashes[1]
  <2>1. k \in Nat
    BY <2>0
  <2>2. BothClimb(old, new, ClimbStart(x, p))
    BY <1>1, BothClimbStart
  <2>3. end = Climb(x, p, rest)
    OBVIOUS
  <2> HIDE DEF rest, x, p, end
  <2>4. PICK run : ClimbSteps(run, x, p, rest, k) /\ end = run[k]
    BY <2>1, <2>3, ClimbRun
  <2> HIDE DEF k
  <2>5. run[0] = ClimbStart(x, p) /\ \A i \in 1..k : run[i] = ClimbStep(run[i - 1], rest[i])
    BY <2>1, <2>4 DEF ClimbSteps
  <2> DEFINE T == {i \in 0..k : ~BothClimb(old, new, run[i])}
  <2>6. ASSUME T # {} PROVE FALSE
    <3>0. T \in SUBSET Nat
      BY <2>1
    <3>1. PICK i \in T : \A j \in T : i <= j
      <4> HIDE DEF T
      <4> QED
        BY <2>6, <3>0, LeastOf
    <3>2. i \in 1..k
      BY <2>1, <2>2, <2>5, <3>1
    <3>3. i - 1 \in 0..k /\ ~(i <= i - 1)
      BY <2>1, <3>2
    <3>4. i - 1 \notin T
      <4> HIDE DEF T
      <4> QED
        BY <3>1, <3>3
    <3>5. BothClimb(old, new, run[i - 1])
      BY <3>3, <3>4
    <3>6. BothClimb(old, new, run[i])
      BY <1>1, <2>5, <3>2, <3>5, BothClimbStep
    <3> QED
      BY <3>1, <3>6
  <2>7. BothClimb(old, new, end)
    BY <2>1, <2>4, <2>6
  <2>8. PICK lo \in Nat, w \in Pow : Climbing(old, new, end, lo, w)
    BY <1>1, <1>3, <2>7 DEF BothClimb
  <2>9. lo = 0 /\ End(lo, w, n) = n
    BY <1>1, <1>3, <2>8, TopTrack DEF Climbing
  <2>10. end.fr = SubtreeRoots(old)[<<lo, m>>] /\ end.sr = SubtreeRoots(new)[<<lo, End(lo, w, n)>>]
    BY <1>1, <1>3, <2>9 DEF Root
  <2>11. \A j \in lo + 1..m : old[j] = new[j]
    BY <2>8, <2>10 DEF Climbing
  <2> QED
    BY <1>1, <2>9, <2>11
<1> QED
  BY <1>2, <1>3

(* A larger exponent is a larger power. *)
LEMMA Pow2Rises ==
  ASSUME NEW i \in Nat, NEW j \in Nat, i < j
  PROVE  Pow2[i] < Pow2[j]
<1> DEFINE T == {k \in Nat : i < k /\ ~(Pow2[i] < Pow2[k])}
<1>1. ASSUME T # {} PROVE FALSE
  <2>1. PICK k \in T : \A m \in T : k <= m
    BY <1>1, LeastOf
  <2>2. k \in Nat /\ i < k /\ ~(Pow2[i] < Pow2[k])
    BY <2>1
  <2>3. k - 1 \in Nat /\ k # 0 /\ ~(k <= k - 1) /\ i <= k - 1
    BY <2>2
  <2>4. k - 1 \notin T
    <3> HIDE DEF T
    <3> QED
      BY <2>1, <2>3
  <2>5. i = k - 1 \/ Pow2[i] < Pow2[k - 1]
    BY <2>3, <2>4
  <2>6. Pow2[k] = 2 * Pow2[k - 1] /\ Pow2[k - 1] \in Nat /\ 0 < Pow2[k - 1] /\ Pow2[i] \in Nat
    <3>1. Pow2[k - 1] \in Nat /\ k - 1 < Pow2[k - 1] /\ Pow2[i] \in Nat
      BY <2>3, Pow2Type
    <3>2. Pow2[k] = 2 * Pow2[k - 1]
      BY <2>2, <2>3, Pow2Is
    <3> QED
      BY <2>3, <3>1, <3>2
  <2>7. Pow2[i] < Pow2[k]
    BY <2>5, <2>6
  <2> QED
    BY <2>2, <2>7
<1>2. j \notin T
  BY <1>1
<1> QED
  BY <1>2

(* A path climbs at most one node for every time the width doubles. *)
Short(nodes, w) == \E i \in Nat : w = Pow2[i] /\ Len(nodes) <= i

(* One node more for a width at least doubled. *)
LEMMA ShortAppend ==
  ASSUME NEW S, NEW nodes \in Seq(S), NEW node \in S, NEW u \in Pow, NEW v \in Pow, u <= v,
         Short(nodes, u)
  PROVE  Short(Append(nodes, node), 2 * v)
<1>1. PICK i \in Nat : u = Pow2[i] /\ Len(nodes) <= i
  BY DEF Short
<1>2. PICK j \in Nat : v = Pow2[j]
  BY DEF Pow
<1>3. i <= j
  <2>1. Pow2[i] \in Nat /\ Pow2[j] \in Nat
    BY Pow2Type
  <2>2. j < i => Pow2[j] < Pow2[i]
    BY Pow2Rises
  <2> QED
    BY <1>1, <1>2, <2>1, <2>2
<1>4. 2 * v = Pow2[j + 1]
  <2>1. j + 1 \in Nat /\ j + 1 # 0 /\ (j + 1) - 1 = j
    OBVIOUS
  <2> QED
    BY <1>2, <2>1, Pow2Is
<1>5. Len(Append(nodes, node)) <= j + 1
  BY <1>1, <1>3
<1> QED
  BY <1>4, <1>5 DEF Short

(* A range of the leaves over which the tree has a node. *)
Fits(a, b, w, n) ==
  /\ w \in Pow /\ a \in Nat /\ b \in Nat /\ a < b
  /\ \E g \in Nat : a = g * w
  /\ b - a <= w /\ w < 2 * (b - a) /\ b = End(a, w, n)

(* The whole list is such a range ... *)
LEMMA WholeFits ==
  ASSUME NEW n \in Nat, n # 0
  PROVE  \E w \in Pow : Fits(0, n, w, n)
<1>1. CASE n = 1
  BY <1>1, PowFacts DEF Fits, End
<1>2. CASE n # 1
  <2>1. PICK v \in Pow : v < n /\ n <= 2 * v
    BY <1>2, SplitExists
  <2>2. 2 * v \in Pow /\ v \in Nat /\ 0 = 0 * (2 * v)
    BY PowFacts
  <2>3. End(0, 2 * v, n) = n
    BY <2>1, <2>2 DEF End
  <2>4. n - 0 <= 2 * v /\ 2 * v < 2 * (n - 0)
    BY <2>1, <2>2
  <2>5. Fits(0, n, 2 * v, n)
    BY <2>2, <2>3, <2>4 DEF Fits
  <2> QED
    BY <2>2, <2>5
<1> QED
  BY <1>1, <1>2

(* ... and so are the halves of one. *)
LEMMA FitsSplit ==
  ASSUME NEW n \in Nat, NEW a, NEW b, NEW w, Fits(a, b, w, n), ~(b <= a + 1)
  PROVE  \E v, u \in Pow :
           /\ w = 2 * v /\ a + v < b /\ b <= a + 2 * v /\ b <= n /\ u <= v
           /\ Fits(a, a + v, v, n) /\ Fits(a + v, b, u, n)
<1>1. /\ w \in Pow /\ a \in Nat /\ b \in Nat /\ a < b /\ b - a <= w /\ w < 2 * (b - a)
      /\ b = End(a, w, n) /\ w \in Nat
  BY PowFacts DEF Fits
<1>2. PICK g \in Nat : a = g * w
  BY DEF Fits
<1>3. PICK v \in Pow : w = 2 * v
  BY <1>1, PowFacts
<1>4. v \in Nat /\ v # 0 /\ a + v < b /\ b <= a + 2 * v /\ b <= n
  BY <1>1, <1>3, PowFacts DEF End
<1>5. a = (2 * g) * v /\ a + v = (2 * g + 1) * v /\ 2 * g \in Nat /\ 2 * g + 1 \in Nat
  BY <1>2, <1>3, <1>4
<1>6. Fits(a, a + v, v, n)
  <2>0. \E h \in Nat : a = h * v
    BY <1>5
  <2>1. /\ a + v \in Nat /\ a < a + v /\ (a + v) - a <= v /\ v < 2 * ((a + v) - a)
        /\ a + v = End(a, v, n)
    BY <1>1, <1>4 DEF End
  <2> QED
    BY <1>1, <1>4, <2>0, <2>1 DEF Fits
<1> DEFINE s == b - (a + v)
<1>7. s \in Nat /\ s # 0 /\ s <= v
  BY <1>1, <1>4
<1>8. PICK u \in Pow : s <= u /\ u < 2 * s
  <2>1. CASE s = 1
    BY <2>1, PowFacts
  <2>2. CASE s # 1
    <3> HIDE DEF s
    <3>1. PICK x \in Pow : x < s /\ s <= 2 * x
      BY <1>7, <2>2, SplitExists
    <3>2. 2 * x \in Pow /\ 2 * x < 2 * s
      BY <1>7, <3>1, PowFacts
    <3> QED
      BY <3>1, <3>2
  <2> QED
    BY <2>1, <2>2
<1>9. u \in Nat /\ u # 0
  BY PowFacts
<1> HIDE DEF s
<1>10. u <= v
  <2>1. ASSUME ~(u <= v) PROVE FALSE
    <3>1. v <= u
      BY <1>4, <1>9, <2>1
    <3>2. PICK d \in Pow : u = d * v /\ (d = 1 \/ d % 2 = 0)
      BY <3>1, PowQuotient
    <3>3. d \in Nat /\ d # 1 /\ d # 0
      BY <1>4, <1>9, <2>1, <3>2, PowFacts
    <3>4. PICK e \in Pow : d = 2 * e
      BY <3>3, PowFacts
    <3>5. e \in Nat /\ e # 0
      BY PowFacts
    <3>6. u = 2 * (e * v) /\ e * v \in Nat /\ v <= e * v
      BY <1>4, <3>2, <3>4, <3>5
    <3> QED
      BY <1>4, <1>7, <1>8, <1>9, <3>6
  <2> QED
    BY <2>1
<1>11. PICK d \in Pow : v = d * u
  BY <1>10, PowQuotient
<1>12. (2 * g + 1) * d \in Nat /\ a + v = ((2 * g + 1) * d) * u
  <2>1. d \in Nat
    BY PowFacts
  <2>2. PICK h \in Nat : h = 2 * g + 1
    BY <1>5
  <2>3. h * d \in Nat /\ h * v = (h * d) * u
    BY <1>9, <1>11, <2>1
  <2> QED
    BY <1>5, <2>2, <2>3
<1>13. b = End(a + v, u, n)
  <2>1. b = a + v + s /\ (b = a + 2 * v \/ b = n)
    BY <1>1, <1>3, <1>4 DEF End, s
  <2>2. CASE b = a + 2 * v
    <3>1. s = v
      BY <1>1, <1>4, <2>2 DEF s
    <3> QED
      BY <1>1, <1>4, <1>8, <1>9, <1>10, <2>2, <3>1 DEF End
  <2>3. CASE b = n
    BY <1>1, <1>4, <1>7, <1>8, <1>9, <2>1, <2>3 DEF End
  <2> QED
    BY <2>1, <2>2, <2>3
<1>14. Fits(a + v, b, u, n)
  <2>1. a + v \in Nat /\ b - (a + v) = s
    BY <1>1, <1>4 DEF s
  <2> QED
    BY <1>1, <1>4, <1>8, <1>12, <1>13, <2>1 DEF Fits
<1> QED
  BY <1>3, <1>4, <1>6, <1>10, <1>14

(* From the left half of a range the climb takes its right half ...         *)
LEMMA LeftHalf ==
  ASSUME NEW n \in Nat, NEW a, NEW b, NEW v \in Pow, Fits(a, b, 2 * v, n), a + v < b,
         NEW p, Track(p, a, v, n)
  PROVE  p.sn # 0 /\ ~FromLeft(p) /\ Track(Up(p), a, 2 * v, n)
<1>1. /\ v \in Nat /\ v # 0 /\ a \in Nat /\ b \in Nat /\ b <= n
      /\ p.fn \in Nat /\ p.sn \in Nat /\ a = p.fn * v /\ n <= p.sn * v + v
  BY PowFacts DEF Fits, Track, End
<1>2. PICK g \in Nat : a = g * (2 * v)
  BY DEF Fits
<1>3. p.fn = 2 * g
  <2>1. p.fn * v = (2 * g) * v /\ 2 * g \in Nat
    BY <1>1, <1>2
  <2>2. \A x, y \in Nat : x * v = y * v => x = y
    BY <1>1
  <2> QED
    BY <1>1, <2>1, <2>2
<1>4. p.fn % 2 = 0
  BY <1>3
<1>5. p.fn # p.sn
  BY <1>1
<1>6. p.sn # 0
  <2>1. ASSUME p.sn = 0 PROVE FALSE
    BY <1>1, <2>1
  <2> QED
    BY <2>1
<1>7. ~FromLeft(p)
  BY <1>4, <1>5 DEF FromLeft
<1> QED
  BY <1>6, <1>7, ClimbTrack

(* ... and from the right half it takes the left, however narrow that was. *)
LEMMA RightHalf ==
  ASSUME NEW n \in Nat, NEW a, NEW b, NEW v \in Pow, Fits(a, b, 2 * v, n), a + v < b,
         NEW u \in Pow, u <= v, Fits(a + v, b, u, n), NEW p, Track(p, a + v, u, n)
  PROVE  p.sn # 0 /\ FromLeft(p) /\ Track(Up(p), a, 2 * v, n)
<1>1. /\ v \in Nat /\ v # 0 /\ u \in Nat /\ u # 0 /\ a \in Nat /\ b \in Nat /\ b <= n
      /\ p.fn \in Nat /\ p.sn \in Nat /\ a + v = p.fn * u
      /\ a + v < n /\ p.sn * u < n /\ n <= p.sn * u + u
      /\ b = End(a, 2 * v, n) /\ b = End(a + v, u, n)
  BY PowFacts DEF Fits, Track, End
<1>2. PICK g \in Nat : a = g * (2 * v)
  BY DEF Fits
<1>3. a + v = (2 * g + 1) * v /\ 2 * g + 1 \in Nat /\ (2 * g + 1) % 2 = 1
  BY <1>1, <1>2
<1>4. \A x, y \in Nat : x <= y => x * u <= y * u
  BY <1>1
<1>5. p.sn # 0
  <2>1. ASSUME p.sn = 0 PROVE FALSE
    <3>1. p.fn # 0
      BY <1>1
    <3>2. 1 * u <= p.fn * u
      BY <1>1, <1>4, <3>1
    <3> QED
      BY <1>1, <2>1, <3>2
  <2> QED
    BY <2>1
<1>6. FromLeft(p)
  <2>1. CASE u = v
    <3>1. \A x, y \in Nat : x * v = y * v => x = y
      BY <1>1
    <3>2. p.fn = 2 * g + 1
      BY <1>1, <1>3, <2>1, <3>1
    <3> QED
      BY <1>3, <3>2 DEF FromLeft
  <2>2. CASE u # v
    <3>1. n <= a + v + u
      BY <1>1, <2>2 DEF End
    <3>2. p.sn <= p.fn
      <4>1. ASSUME p.fn + 1 <= p.sn PROVE FALSE
        <5>1. (p.fn + 1) * u <= p.sn * u
          BY <1>1, <1>4, <4>1
        <5>2. (p.fn + 1) * u = p.fn * u + u
          BY <1>1
        <5> QED
          BY <1>1, <3>1, <5>1, <5>2
      <4> QED
        BY <1>1, <4>1
    <3>3. p.fn <= p.sn
      <4>1. ASSUME p.sn + 1 <= p.fn PROVE FALSE
        <5>1. (p.sn + 1) * u <= p.fn * u
          BY <1>1, <1>4, <4>1
        <5>2. (p.sn + 1) * u = p.sn * u + u
          BY <1>1
        <5> QED
          BY <1>1, <5>1, <5>2
      <4> QED
        BY <1>1, <4>1
    <3> QED
      BY <1>1, <3>2, <3>3 DEF FromLeft
  <2> QED
    BY <2>1, <2>2
<1>7. PICK lo2 \in Nat, x \in Pow : Track(Up(p), lo2, 2 * x, n) /\ a + v = lo2 + x
  BY <1>5, <1>6, ClimbTrack
<1>8. PICK h \in Nat : lo2 = h * (2 * x)
  BY <1>7 DEF Track
<1>9. x \in Nat /\ a + v = (2 * h + 1) * x /\ 2 * h + 1 \in Nat /\ (2 * h + 1) % 2 = 1
  <2>1. x \in Nat
    BY PowFacts
  <2> QED
    BY <1>7, <1>8, <2>1
<1>10. v = x
  <2>1. PICK i \in Nat : i = 2 * g + 1
    BY <1>3
  <2>2. PICK j \in Nat : j = 2 * h + 1
    BY <1>9
  <2>3. i % 2 = 1 /\ j % 2 = 1 /\ i * v = j * x
    BY <1>3, <1>9, <2>1, <2>2
  <2> QED
    BY <2>3, OddPartUnique
<1>11. lo2 = a
  BY <1>1, <1>7, <1>10
<1> QED
  BY <1>5, <1>6, <1>7, <1>10, <1>11

-----------------------------------------------------------------------------
(* The halves of a range, at its power of two. *)
LEMMA HalvesAre ==
  ASSUME NEW hashes, Len(hashes) \in Nat, NEW a \in Nat, NEW b \in Nat, NEW v \in Pow,
         a + v < b, b <= a + 2 * v, b <= Len(hashes)
  PROVE  /\ <<a, b>> \in Ranges(hashes) /\ ~(b <= a + 1) /\ Mid(<<a, b>>) = a + v
         /\ Left(<<a, b>>) = <<a, a + v>> /\ Right(<<a, b>>) = <<a + v, b>>
<1>1. v \in Nat /\ v # 0
  BY PowFacts
<1>2. <<a, b>> \in Ranges(hashes) /\ ~(b <= a + 1)
  BY <1>1 DEF Ranges
<1>3. SplitPoint(b - a) = v
  BY <1>1, SplitPointIs
<1> QED
  BY <1>2, <1>3 DEF Left, Right, Mid

(* The audit path of proveInclusion() below one range. *)
AuditAt(f, hashes, index, r) ==
  IF r[2] <= r[1] + 1 THEN <<>>
  ELSE IF index < Mid(r) THEN Append(f[Left(r)], SubtreeRoots(hashes)[Right(r)])
  ELSE Append(f[Right(r)], SubtreeRoots(hashes)[Left(r)])

AuditSteps(f, hashes, index, k) ==
  f = [r \in UpToWidth(hashes, k) |-> AuditAt(f, hashes, index, r)]

(* The recursive function of proveInclusion() exists for every list. *)
LEMMA AuditStepsExist ==
  ASSUME NEW hashes, Len(hashes) \in Nat, NEW index, NEW n \in Nat
  PROVE  \E f : AuditSteps(f, hashes, index, n)
<1> DEFINE T == {k \in Nat : ~\E f : AuditSteps(f, hashes, index, k)}
<1>1. ASSUME T # {} PROVE FALSE
  <2>1. PICK k \in T : \A m \in T : k <= m
    BY <1>1, LeastOf
  <2>2. k \in Nat /\ ~\E f : AuditSteps(f, hashes, index, k)
    BY <2>1
  <2>3. PICK f : k # 0 => AuditSteps(f, hashes, index, k - 1)
    <3>1. k # 0 => k - 1 \in Nat /\ k - 1 \notin T
      BY <2>1, <2>2
    <3> QED
      BY <3>1
  <2> DEFINE g == [r \in UpToWidth(hashes, k) |-> AuditAt(f, hashes, index, r)]
  <2>4. ASSUME k # 0, NEW r \in UpToWidth(hashes, k - 1) PROVE g[r] = f[r]
    <3>1. r \in UpToWidth(hashes, k)
      BY <2>2, <2>4, WiderRanges
    <3>2. f[r] = AuditAt(f, hashes, index, r)
      BY <2>3, <2>4 DEF AuditSteps
    <3> QED
      BY <3>1, <3>2
  <2> HIDE DEF g
  <2>5. ASSUME NEW r \in UpToWidth(hashes, k)
        PROVE  AuditAt(f, hashes, index, r) = AuditAt(g, hashes, index, r)
    <3>1. CASE r[2] <= r[1] + 1
      BY <3>1 DEF AuditAt
    <3>2. CASE ~(r[2] <= r[1] + 1)
      <4>1. k # 0 /\ Left(r) \in UpToWidth(hashes, k - 1) /\ Right(r) \in UpToWidth(hashes, k - 1)
        BY <2>2, <3>2, ShorterRanges
      <4>2. g[Left(r)] = f[Left(r)] /\ g[Right(r)] = f[Right(r)]
        BY <2>4, <4>1
      <4> QED
        BY <4>2 DEF AuditAt
    <3> QED
      BY <3>1, <3>2
  <2>6. g = [r \in UpToWidth(hashes, k) |-> AuditAt(g, hashes, index, r)]
    BY <2>5 DEF g
  <2> QED
    BY <2>2, <2>6 DEF AuditSteps
<1> QED
  BY <1>1

(* That path below every range. *)
AuditOf(f, hashes, index) == \A r \in Ranges(hashes) : f[r] = AuditAt(f, hashes, index, r)

(* What proveInclusion() returns is that path for the whole list. *)
LEMMA AuditIs ==
  ASSUME NEW hashes, Len(hashes) \in Nat, NEW index
  PROVE  \E f :
    /\ ProveInclusion(hashes, index) = f[<<0, Len(hashes)>>]
    /\ AuditOf(f, hashes, index)
<1> DEFINE audit == CHOOSE f : f = [r \in Ranges(hashes) |-> AuditAt(f, hashes, index, r)]
<1>1. audit = [r \in Ranges(hashes) |-> AuditAt(audit, hashes, index, r)]
  <2>1. PICK f : AuditSteps(f, hashes, index, Len(hashes))
    BY AuditStepsExist
  <2>2. f = [r \in Ranges(hashes) |-> AuditAt(f, hashes, index, r)]
    BY <2>1, AllRanges DEF AuditSteps
  <2> QED
    BY <2>2
<1>2. ProveInclusion(hashes, index) = audit[<<0, Len(hashes)>>]
  BY DEF ProveInclusion, AuditAt
<1> HIDE DEF audit
<1>3. AuditOf(audit, hashes, index)
  BY <1>1 DEF AuditOf
<1> QED
  BY <1>2, <1>3

(* The path of subproof() below one range. *)
SubproofAt(f, hashes, first, r) ==
  IF r[2] = first \/ r[2] <= r[1] + 1 THEN IF r[1] = 0 THEN <<>> ELSE <<SubtreeRoots(hashes)[r]>>
  ELSE IF first <= Mid(r) THEN Append(f[Left(r)], SubtreeRoots(hashes)[Right(r)])
  ELSE Append(f[Right(r)], SubtreeRoots(hashes)[Left(r)])

SubproofSteps(f, hashes, first, k) ==
  f = [r \in UpToWidth(hashes, k) |-> SubproofAt(f, hashes, first, r)]

(* The recursive function of subproof() exists for every list. *)
LEMMA SubproofStepsExist ==
  ASSUME NEW hashes, Len(hashes) \in Nat, NEW first, NEW n \in Nat
  PROVE  \E f : SubproofSteps(f, hashes, first, n)
<1> DEFINE T == {k \in Nat : ~\E f : SubproofSteps(f, hashes, first, k)}
<1>1. ASSUME T # {} PROVE FALSE
  <2>1. PICK k \in T : \A m \in T : k <= m
    BY <1>1, LeastOf
  <2>2. k \in Nat /\ ~\E f : SubproofSteps(f, hashes, first, k)
    BY <2>1
  <2>3. PICK f : k # 0 => SubproofSteps(f, hashes, first, k - 1)
    <3>1. k # 0 => k - 1 \in Nat /\ k - 1 \notin T
      BY <2>1, <2>2
    <3> QED
      BY <3>1
  <2> DEFINE g == [r \in UpToWidth(hashes, k) |-> SubproofAt(f, hashes, first, r)]
  <2>4. ASSUME k # 0, NEW r \in UpToWidth(hashes, k - 1) PROVE g[r] = f[r]
    <3>1. r \in UpToWidth(hashes, k)
      BY <2>2, <2>4, WiderRanges
    <3>2. f[r] = SubproofAt(f, hashes, first, r)
      BY <2>3, <2>4 DEF SubproofSteps
    <3> QED
      BY <3>1, <3>2
  <2> HIDE DEF g
  <2>5. ASSUME NEW r \in UpToWidth(hashes, k)
        PROVE  SubproofAt(f, hashes, first, r) = SubproofAt(g, hashes, first, r)
    <3>1. CASE r[2] <= r[1] + 1
      BY <3>1 DEF SubproofAt
    <3>2. CASE ~(r[2] <= r[1] + 1)
      <4>1. k # 0 /\ Left(r) \in UpToWidth(hashes, k - 1) /\ Right(r) \in UpToWidth(hashes, k - 1)
        BY <2>2, <3>2, ShorterRanges
      <4>2. g[Left(r)] = f[Left(r)] /\ g[Right(r)] = f[Right(r)]
        BY <2>4, <4>1
      <4> QED
        BY <4>2 DEF SubproofAt
    <3> QED
      BY <3>1, <3>2
  <2>6. g = [r \in UpToWidth(hashes, k) |-> SubproofAt(g, hashes, first, r)]
    BY <2>5 DEF g
  <2> QED
    BY <2>2, <2>6 DEF SubproofSteps
<1> QED
  BY <1>1

(* That path below every range. *)
SubproofOf(f, hashes, first) == \A r \in Ranges(hashes) : f[r] = SubproofAt(f, hashes, first, r)

(* What proveConsistency() returns is that path for the whole list. *)
LEMMA SubproofIs ==
  ASSUME NEW hashes, Len(hashes) \in Nat, NEW first
  PROVE  \E f :
    /\ ProveConsistency(hashes, first) = f[<<0, Len(hashes)>>]
    /\ SubproofOf(f, hashes, first)
<1> DEFINE subproof == CHOOSE f : f = [r \in Ranges(hashes) |-> SubproofAt(f, hashes, first, r)]
<1>1. subproof = [r \in Ranges(hashes) |-> SubproofAt(subproof, hashes, first, r)]
  <2>1. PICK f : SubproofSteps(f, hashes, first, Len(hashes))
    BY SubproofStepsExist
  <2>2. f = [r \in Ranges(hashes) |-> SubproofAt(f, hashes, first, r)]
    BY <2>1, AllRanges DEF SubproofSteps
  <2> QED
    BY <2>2
<1>2. ProveConsistency(hashes, first) = subproof[<<0, Len(hashes)>>]
  BY DEF ProveConsistency, SubproofAt
<1> HIDE DEF subproof
<1>3. SubproofOf(subproof, hashes, first)
  BY <1>1 DEF SubproofOf
<1> QED
  BY <1>2, <1>3

-----------------------------------------------------------------------------
(* The climb that takes the halves of a range to the range. *)
AllRoots(hashes) == {SubtreeRoots(hashes)[r] : r \in Ranges(hashes)}

(* The climb stands on the range and holds its root. *)
Reached(hashes, acc, a, b, w) ==
  /\ Track(acc.p, a, w, Len(hashes)) /\ acc.ok /\ acc.sr = SubtreeRoots(hashes)[<<a, b>>]

(* Either half and the root of the other make the range. *)
LEMMA JoinHalves ==
  ASSUME NEW hashes, Len(hashes) \in Nat, NEW a, NEW b, NEW v \in Pow, NEW u \in Pow, u <= v,
         Fits(a, b, 2 * v, Len(hashes)), a + v < b, b <= a + 2 * v, b <= Len(hashes),
         Fits(a + v, b, u, Len(hashes)), NEW acc
  PROVE  LET root == SubtreeRoots(hashes) IN
         /\ Reached(hashes, acc, a, a + v, v)
              => /\ Reached(hashes, ClimbStep(acc, root[<<a + v, b>>]), a, b, 2 * v)
                 /\ ClimbStep(acc, root[<<a + v, b>>]).fr = acc.fr
         /\ Reached(hashes, acc, a + v, b, u)
              => /\ Reached(hashes, ClimbStep(acc, root[<<a, a + v>>]), a, b, 2 * v)
                 /\ ClimbStep(acc, root[<<a, a + v>>]).fr = NodeHash(root[<<a, a + v>>], acc.fr)
         /\ root[<<a + v, b>>] \in AllRoots(hashes) /\ root[<<a, a + v>>] \in AllRoots(hashes)
<1> DEFINE n == Len(hashes)
           root == SubtreeRoots(hashes)
           x == root[<<a + v, b>>]
           y == root[<<a, a + v>>]
<1>1. v \in Nat /\ v # 0 /\ a \in Nat /\ b \in Nat /\ n \in Nat /\ b <= n
  BY PowFacts DEF Fits
<1>2. root[<<a, b>>] = NodeHash(y, x)
  BY <1>1, RootIs
<1>3. x \in AllRoots(hashes) /\ y \in AllRoots(hashes)
  <2>1. <<a + v, b>> \in Ranges(hashes) /\ <<a, a + v>> \in Ranges(hashes)
    BY <1>1 DEF Ranges
  <2> QED
    BY <2>1 DEF AllRoots
<1>4. ASSUME Reached(hashes, acc, a, a + v, v)
      PROVE  Reached(hashes, ClimbStep(acc, x), a, b, 2 * v) /\ ClimbStep(acc, x).fr = acc.fr
  <2>1. acc.p.sn # 0 /\ ~FromLeft(acc.p) /\ Track(Up(acc.p), a, 2 * v, n) /\ acc.ok /\ acc.sr = y
    BY <1>1, <1>4, LeftHalf DEF Reached
  <2> HIDE DEF x, y, root
  <2>2. ClimbStep(acc, x) = [fr |-> acc.fr, sr |-> NodeHash(y, x), p |-> Up(acc.p), ok |-> TRUE]
    BY <2>1 DEF ClimbStep
  <2> QED
    BY <1>2, <2>1, <2>2 DEF Reached, root
<1>5. ASSUME Reached(hashes, acc, a + v, b, u)
      PROVE  Reached(hashes, ClimbStep(acc, y), a, b, 2 * v)
             /\ ClimbStep(acc, y).fr = NodeHash(y, acc.fr)
  <2>1. acc.p.sn # 0 /\ FromLeft(acc.p) /\ Track(Up(acc.p), a, 2 * v, n) /\ acc.ok /\ acc.sr = x
    BY <1>1, <1>5, RightHalf DEF Reached
  <2> HIDE DEF x, y, root
  <2>2. ClimbStep(acc, y) = [fr |-> NodeHash(y, acc.fr), sr |-> NodeHash(y, x),
                             p |-> Up(acc.p), ok |-> TRUE]
    BY <2>1 DEF ClimbStep
  <2> QED
    BY <1>2, <2>1, <2>2 DEF Reached, root
<1> QED
  BY <1>3, <1>4, <1>5

(* What it is to be such a range. *)
LEMMA FitsFacts ==
  ASSUME NEW n \in Nat, NEW a, NEW b, NEW w, Fits(a, b, w, n)
  PROVE  /\ w \in Nat /\ w # 0 /\ a \in Nat /\ b \in Nat /\ a < b /\ b <= n
         /\ b - a <= w /\ w < 2 * (b - a) /\ b = End(a, w, n)
<1>1. w \in Nat /\ w # 0
  BY PowFacts DEF Fits
<1>2. a \in Nat /\ b \in Nat /\ a < b /\ b - a <= w /\ w < 2 * (b - a) /\ b = End(a, w, n)
  BY DEF Fits
<1>3. b <= n
  BY <1>1, <1>2 DEF End
<1> QED
  BY <1>1, <1>2, <1>3

(* The audit path below a range takes the climb from its leaf to the range. *)
Audited(hashes, index, f, a, b, w) ==
  /\ f[<<a, b>>] \in Seq(AllRoots(hashes)) /\ Short(f[<<a, b>>], w)
  /\ LET p == [fn |-> index, sn |-> Len(hashes) - 1] IN
     Reached(hashes, Climb(hashes[index + 1], p, f[<<a, b>>]), a, b, w)

(* So for all ranges of fewer than k leaves. *)
AuditedBelow(hashes, index, f, k) ==
  \A a, b \in Nat : \A w \in Pow :
    Fits(a, b, w, Len(hashes)) /\ a <= index /\ index < b /\ b - a < k
      => Audited(hashes, index, f, a, b, w)

(* If that is so of all shorter ranges, it is of this one ... *)
LEMMA AuditedStep ==
  ASSUME NEW hashes, Len(hashes) \in Nat, NEW index \in Nat,
         NEW f, AuditOf(f, hashes, index),
         NEW a \in Nat, NEW b \in Nat, NEW w \in Pow, Fits(a, b, w, Len(hashes)),
         a <= index, index < b,
         AuditedBelow(hashes, index, f, b - a)
  PROVE  Audited(hashes, index, f, a, b, w)
<1> DEFINE n == Len(hashes)
           p == [fn |-> index, sn |-> n - 1]
           leaf == hashes[index + 1]
           root == SubtreeRoots(hashes)
<1>1. /\ w \in Nat /\ w # 0 /\ n \in Nat /\ a < b /\ b <= n /\ b - a <= w /\ w < 2 * (b - a)
      /\ b = End(a, w, n)
  BY FitsFacts
<1>2. <<a, b>> \in Ranges(hashes)
  BY <1>1 DEF Ranges
<1>3. CASE b <= a + 1
  <2>1. b = a + 1 /\ index = a /\ w = 1
    BY <1>1, <1>3
  <2>2. f[<<a, b>>] = <<>>
    BY <1>2, <1>3 DEF AuditAt, AuditOf
  <2>3. Climb(leaf, p, f[<<a, b>>]) = ClimbStart(leaf, p)
    BY <2>2, ClimbEmpty
  <2>4. p.fn = index /\ p.sn = n - 1 /\ n - 1 \in Nat /\ index * 1 = index /\ (n - 1) * 1 = n - 1
    BY <1>1
  <2>5. Track(p, a, w, n)
    <3>1. 1 \in Pow /\ index < n
      BY <1>1, <2>1, PowFacts
    <3> HIDE DEF p, n
    <3>2. Track(p, index, 1, n)
      BY <1>1, <2>4, <3>1 DEF Track
    <3> QED
      BY <2>1, <3>2
  <2>6. leaf = root[<<a, b>>]
    BY <1>1, <2>1, RootIs
  <2>7. Short(<<>>, w)
    <3>1. 1 = Pow2[0] /\ Len(<<>>) = 0
      BY Pow2Is
    <3> QED
      BY <2>1, <3>1 DEF Short
  <2> HIDE DEF p, leaf, root
  <2>8. Reached(hashes, ClimbStart(leaf, p), a, b, w)
    BY <2>5, <2>6 DEF Reached, ClimbStart, root
  <2>9. <<>> \in Seq(AllRoots(hashes))
    OBVIOUS
  <2> QED
    BY <2>2, <2>3, <2>7, <2>8, <2>9 DEF Audited, p, leaf
<1>4. CASE ~(b <= a + 1)
  <2>1. PICK v, u \in Pow :
          /\ w = 2 * v /\ a + v < b /\ b <= a + 2 * v /\ b <= n /\ u <= v
          /\ Fits(a, a + v, v, n) /\ Fits(a + v, b, u, n)
    BY <1>1, <1>4, FitsSplit
  <2>2. v \in Nat /\ v # 0 /\ a + v \in Nat /\ (a + v) - a < b - a /\ b - (a + v) < b - a
    BY <2>1, PowFacts
  <2> DEFINE at(q) == Climb(leaf, p, f[q])
             left == <<a, a + v>>
             right == <<a + v, b>>
  <2>3. f[<<a, b>>] = IF index < a + v THEN Append(f[left], root[right])
                      ELSE Append(f[right], root[left])
    <3>1. Mid(<<a, b>>) = a + v /\ Left(<<a, b>>) = left /\ Right(<<a, b>>) = right
      <4>1. a + v < b /\ b <= a + 2 * v /\ b <= Len(hashes)
        BY <2>1
      <4> QED
        BY <4>1, HalvesAre
    <3>2. f[<<a, b>>] = AuditAt(f, hashes, index, <<a, b>>)
      BY <1>2 DEF AuditOf
    <3> HIDE DEF left, right, root
    <3> QED
      BY <1>4, <3>1, <3>2 DEF AuditAt, root
  <2>4. /\ Reached(hashes, at(left), a, a + v, v)
             => Reached(hashes, ClimbStep(at(left), root[right]), a, b, w)
        /\ Reached(hashes, at(right), a + v, b, u)
             => Reached(hashes, ClimbStep(at(right), root[left]), a, b, w)
        /\ root[right] \in AllRoots(hashes) /\ root[left] \in AllRoots(hashes)
    BY <1>1, <2>1, JoinHalves
  <2>5. CASE index < a + v
    <3>1. Audited(hashes, index, f, a, a + v, v)
      BY <2>1, <2>2, <2>5 DEF AuditedBelow
    <3>2. /\ f[left] \in Seq(AllRoots(hashes)) /\ Short(f[left], v)
          /\ Reached(hashes, at(left), a, a + v, v)
      BY <3>1 DEF Audited
    <3>3. f[<<a, b>>] = Append(f[left], root[right])
      BY <2>3, <2>5
    <3> HIDE DEF root, left, right, p, leaf
    <3>4. at(<<a, b>>) = ClimbStep(at(left), root[right])
      BY <2>4, <3>2, <3>3, ClimbAppend
    <3>5. Short(f[<<a, b>>], w) /\ f[<<a, b>>] \in Seq(AllRoots(hashes))
      BY <2>1, <2>2, <2>4, <3>2, <3>3, ShortAppend
    <3> QED
      BY <2>4, <3>2, <3>4, <3>5 DEF Audited, p, leaf
  <2>6. CASE ~(index < a + v)
    <3>1. Audited(hashes, index, f, a + v, b, u)
      BY <2>1, <2>2, <2>6 DEF AuditedBelow
    <3>2. /\ f[right] \in Seq(AllRoots(hashes)) /\ Short(f[right], u)
          /\ Reached(hashes, at(right), a + v, b, u)
      BY <3>1 DEF Audited
    <3>3. f[<<a, b>>] = Append(f[right], root[left])
      BY <2>3, <2>6
    <3> HIDE DEF root, left, right, p, leaf
    <3>4. at(<<a, b>>) = ClimbStep(at(right), root[left])
      BY <2>4, <3>2, <3>3, ClimbAppend
    <3>5. Short(f[<<a, b>>], w) /\ f[<<a, b>>] \in Seq(AllRoots(hashes))
      BY <2>1, <2>2, <2>4, <3>2, <3>3, ShortAppend
    <3> QED
      BY <2>4, <3>2, <3>4, <3>5 DEF Audited, p, leaf
  <2> QED
    BY <2>5, <2>6
<1> QED
  BY <1>3, <1>4

(* ... and so it is of every range that holds the leaf. *)
LEMMA AuditedRange ==
  ASSUME NEW hashes, Len(hashes) \in Nat, NEW index \in Nat,
         NEW f, AuditOf(f, hashes, index),
         NEW a \in Nat, NEW b \in Nat, NEW w \in Pow, Fits(a, b, w, Len(hashes)),
         a <= index, index < b
  PROVE  Audited(hashes, index, f, a, b, w)
<1> DEFINE Bad(x, y, z) == /\ Fits(x, y, z, Len(hashes)) /\ x <= index /\ index < y
                           /\ ~Audited(hashes, index, f, x, y, z)
           T == {k \in Nat : \E x, y \in Nat : \E z \in Pow : y - x = k /\ Bad(x, y, z)}
<1>1. ASSUME T # {} PROVE FALSE
  <2>0. T \in SUBSET Nat
    OBVIOUS
  <2>1. PICK k \in T : \A m \in T : k <= m
    <3> HIDE DEF T
    <3> QED
      BY <1>1, <2>0, LeastOf
  <2>2. PICK x, y \in Nat : \E z \in Pow : y - x = k /\ Bad(x, y, z)
    BY <2>1
  <2>3. PICK z \in Pow : y - x = k /\ Bad(x, y, z)
    BY <2>2
  <2>4. ASSUME NEW a2 \in Nat, NEW b2 \in Nat, NEW w2 \in Pow,
               Fits(a2, b2, w2, Len(hashes)), a2 <= index, index < b2, b2 - a2 < y - x
        PROVE  Audited(hashes, index, f, a2, b2, w2)
    <3>1. b2 - a2 \in Nat /\ ~(k <= b2 - a2)
      BY <2>0, <2>1, <2>3, <2>4
    <3>2. b2 - a2 \notin T
      <4> HIDE DEF T
      <4> QED
        BY <2>1, <3>1
    <3> QED
      BY <2>4, <3>1, <3>2
  <2> HIDE DEF T
  <2>5. Audited(hashes, index, f, x, y, z)
    <3>1. AuditedBelow(hashes, index, f, y - x)
      BY <2>4 DEF AuditedBelow
    <3> QED
      BY <2>3, <3>1, AuditedStep
  <2> QED
    BY <2>3, <2>5
<1>2. b - a \in Nat
  BY DEF Fits
<1>3. b - a \notin T
  BY <1>1
<1> QED
  BY <1>2, <1>3

(* A path to the root is no longer than the verifiers take: the sizes of    *)
(* the code are safe integers.                                              *)
LEMMA TopReached ==
  ASSUME NEW n \in Nat, n <= Pow2[53], NEW w, Fits(0, n, w, n), NEW nodes, Len(nodes) \in Nat,
         Short(nodes, w)
  PROVE  Len(nodes) <= 54
<1>1. PICK i \in Nat : w = Pow2[i] /\ Len(nodes) <= i
  BY DEF Short
<1>2. w < 2 * n /\ w \in Nat /\ n - 0 = n
  BY PowFacts DEF Fits
<1>3. Pow2[54] = 2 * Pow2[53] /\ Pow2[53] \in Nat /\ Pow2[54] \in Nat
  <2>1. 53 \in Nat /\ 54 \in Nat /\ 54 # 0 /\ 54 - 1 = 53
    OBVIOUS
  <2>2. Pow2[54] = IF 54 = 0 THEN 1 ELSE 2 * Pow2[54 - 1]
    BY <2>1, Pow2Is
  <2>3. Pow2[53] \in Nat /\ Pow2[54] \in Nat
    BY <2>1, Pow2Type
  <2> QED
    BY <2>1, <2>2, <2>3
<1>4. ~(54 < i)
  <2>1. 54 < i => Pow2[54] < Pow2[i]
    BY Pow2Rises
  <2> QED
    BY <1>1, <1>2, <1>3, <2>1
<1> QED
  BY <1>1, <1>4

(* Who stands on the root of the whole tree has no level left. *)
LEMMA TopIsLast ==
  ASSUME NEW n \in Nat, NEW w, Fits(0, n, w, n), NEW p, Track(p, 0, w, n)
  PROVE  p.sn = 0
<1>1. w \in Nat /\ p.sn \in Nat /\ n <= w /\ p.sn * w < n
  BY PowFacts DEF Fits, Track
<1>2. \A x \in Nat : x # 0 => w <= x * w
  BY <1>1
<1> QED
  BY <1>1, <1>2

(* The audit path of a leaf is accepted. *)
LEMMA InclusionComplete ==
  ASSUME NEW hashes, Len(hashes) \in Nat, Len(hashes) <= Pow2[53],
         NEW index \in Nat, index < Len(hashes)
  PROVE  VerifyInclusion(hashes[index + 1], index, Len(hashes), ProveInclusion(hashes, index),
                         Root(hashes))
<1> DEFINE n == Len(hashes)
           nodes == ProveInclusion(hashes, index)
           acc == Climb(hashes[index + 1], [fn |-> index, sn |-> n - 1], nodes)
<1>1. PICK f : /\ nodes = f[<<0, n>>]
               /\ AuditOf(f, hashes, index)
  BY AuditIs
<1>2. n \in Nat /\ n # 0
  OBVIOUS
<1>3. PICK w \in Pow : Fits(0, n, w, n)
  BY <1>2, WholeFits
<1>4. Audited(hashes, index, f, 0, n, w)
  BY <1>1, <1>2, <1>3, AuditedRange
<1>5. /\ nodes \in Seq(AllRoots(hashes)) /\ Short(nodes, w) /\ Track(acc.p, 0, w, n)
      /\ acc.ok /\ acc.sr = SubtreeRoots(hashes)[<<0, n>>]
  BY <1>1, <1>4 DEF Audited, Reached
<1>6. Len(nodes) <= 64
  <2>1. Len(nodes) \in Nat
    BY <1>5
  <2>2. Len(nodes) <= 54
    BY <1>2, <1>3, <1>5, <2>1, TopReached
  <2> QED
    BY <2>1, <2>2
<1>7. acc.p.sn = 0
  BY <1>2, <1>3, <1>5, TopIsLast
<1> QED
  BY <1>5, <1>6, <1>7 DEF VerifyInclusion, Root

(* A node put after a path is put after all but its first. *)
LEMMA AppendRest ==
  ASSUME NEW S, NEW s \in Seq(S), NEW x \in S
  PROVE  /\ Append(s, x) \in Seq(S) /\ Append(s, x) # <<>>
         /\ s # <<>> => /\ Append(s, x)[1] = s[1] /\ Tail(s) \in Seq(S)
                        /\ Tail(Append(s, x)) = Append(Tail(s), x)
         /\ \A y \in S : <<y>> \o Append(s, x) = Append(<<y>> \o s, x)
                         /\ <<y>> \o s \in Seq(S) /\ <<y>> \o s # <<>>
OBVIOUS

(* The path the verifier climbs: the root of a first tree that is a power  *)
(* of two goes before it.                                                   *)
Path(nodes, whole, firstRoot) == IF whole THEN <<firstRoot>> \o nodes ELSE nodes

(* The path of subproof() below a range takes the climb to the range, in    *)
(* the second tree and as far as the first one goes.                        *)
Subproved(hashes, first, f, a, b, w) ==
  LET root == SubtreeRoots(hashes)
      nodes == f[<<a, b>>]
      hs == Path(nodes, first \in Pow, root[<<0, first>>])
      acc == Climb(hs[1], SkipOdd([fn |-> first - 1, sn |-> Len(hashes) - 1]), Tail(hs)) IN
  /\ nodes \in Seq(AllRoots(hashes)) /\ (b # first => nodes # <<>>)
  /\ hs \in Seq(AllRoots(hashes)) /\ hs # <<>> /\ Short(Tail(hs), w)
  /\ Reached(hashes, acc, a, b, w) /\ acc.fr = root[<<a, first>>]

(* So for all ranges of fewer than k leaves: one that ends with the first
   tree is the left half of another. *)
SubprovedBelow(hashes, first, f, k) ==
  \A a, b \in Nat : \A w \in Pow :
    /\ Fits(a, b, w, Len(hashes)) /\ a < first /\ first <= b /\ b - a < k
    /\ b = first => \E h \in Nat : a = h * (2 * w)
    => Subproved(hashes, first, f, a, b, w)

(* Where the ranges end with the first tree, the climb begins. *)
LEMMA SubprovedStart ==
  ASSUME NEW hashes, Len(hashes) \in Nat, NEW first \in Nat, first < Len(hashes),
         NEW f, SubproofOf(f, hashes, first),
         NEW a \in Nat, NEW w \in Pow, Fits(a, first, w, Len(hashes)),
         NEW h \in Nat, a = h * (2 * w)
  PROVE  Subproved(hashes, first, f, a, first, w)
<1> DEFINE n == Len(hashes)
           root == SubtreeRoots(hashes)
           p == SkipOdd([fn |-> first - 1, sn |-> n - 1])
           top == root[<<a, first>>]
           hs == Path(f[<<a, first>>], first \in Pow, root[<<0, first>>])
<1>1. /\ w \in Nat /\ w # 0 /\ n \in Nat /\ a < first /\ first = a + w
  <2>1. /\ w \in Nat /\ w # 0 /\ n \in Nat /\ a < first /\ first = End(a, w, n)
    BY FitsFacts
  <2> QED
    BY <2>1 DEF End
<1>2. first = (2 * h + 1) * w /\ 2 * h + 1 \in Nat /\ (2 * h + 1) % 2 = 1
  BY <1>1
<1>3. Track(p, a, w, n)
  <2>1. PICK g \in Nat : g = 2 * h + 1
    BY <1>2
  <2>2. g % 2 = 1 /\ first = g * w /\ first <= n
    BY <1>1, <1>2, <2>1
  <2>3. Track(p, first - w, w, n)
    BY <2>2, StartTrack
  <2>4. first - w = a
    BY <1>1
  <2> HIDE DEF p, n
  <2> QED
    BY <2>3, <2>4
<1>4. first \in Pow <=> a = 0
  <2>1. ASSUME first \in Pow PROVE a = 0
    <3>1. PICK g \in Nat : g = 2 * h + 1
      BY <1>2
    <3>2. g % 2 = 1 /\ 1 % 2 = 1 /\ 1 \in Nat /\ 1 * first = g * w
      BY <1>2, <3>1
    <3>3. first = w
      BY <2>1, <3>2, OddPartUnique
    <3> QED
      BY <1>1, <3>3
  <2>2. ASSUME a = 0 PROVE first \in Pow
    BY <1>1, <2>2
  <2> QED
    BY <2>1, <2>2
<1>5. <<a, first>> \in Ranges(hashes) /\ top \in AllRoots(hashes)
  <2>1. <<a, first>> \in Ranges(hashes)
    BY <1>1 DEF Ranges
  <2> QED
    BY <2>1 DEF AllRoots
<1>6. f[<<a, first>>] = IF a = 0 THEN <<>> ELSE <<top>>
  <2>1. f[<<a, first>>] = SubproofAt(f, hashes, first, <<a, first>>)
    BY <1>5 DEF SubproofOf
  <2> QED
    BY <2>1 DEF SubproofAt
<1> HIDE DEF top, p
<1>7. hs = <<top>>
  <2>1. CASE a = 0
    <3>1. <<top>> \o <<>> = <<top>>
      OBVIOUS
    <3> QED
      BY <1>4, <1>6, <2>1, <3>1 DEF Path, top
  <2>2. CASE a # 0
    BY <1>4, <1>6, <2>2 DEF Path
  <2> QED
    BY <2>1, <2>2
<1> HIDE DEF hs
<1>8. hs \in Seq(AllRoots(hashes)) /\ hs # <<>> /\ hs[1] = top /\ Tail(hs) = <<>>
  BY <1>5, <1>7
<1>9. f[<<a, first>>] \in Seq(AllRoots(hashes))
  BY <1>5, <1>6
<1>10. Climb(hs[1], p, Tail(hs)) = ClimbStart(top, p)
  BY <1>8, ClimbEmpty
<1>11. Short(Tail(hs), w)
  <2>1. PICK i \in Nat : w = Pow2[i]
    BY DEF Pow
  <2>2. Len(<<>>) = 0 /\ 0 <= i
    OBVIOUS
  <2>3. Short(<<>>, w)
    BY <2>1, <2>2 DEF Short
  <2> QED
    BY <1>8, <2>3
<1>12. Reached(hashes, ClimbStart(top, p), a, first, w) /\ ClimbStart(top, p).fr = top
  BY <1>3 DEF Reached, ClimbStart, top
<1> QED
  BY <1>8, <1>9, <1>10, <1>11, <1>12 DEF Subproved, hs, p, top

(* If that is so of all shorter ranges, it is of this one ... *)
LEMMA SubprovedStep ==
  ASSUME NEW hashes, Len(hashes) \in Nat, NEW first \in Nat, first < Len(hashes),
         NEW f, SubproofOf(f, hashes, first),
         NEW a \in Nat, NEW b \in Nat, NEW w \in Pow, Fits(a, b, w, Len(hashes)),
         a < first, first <= b, b = first => \E h \in Nat : a = h * (2 * w),
         SubprovedBelow(hashes, first, f, b - a)
  PROVE  Subproved(hashes, first, f, a, b, w)
<1> DEFINE n == Len(hashes)
           root == SubtreeRoots(hashes)
           p == SkipOdd([fn |-> first - 1, sn |-> n - 1])
           whole == first \in Pow
           path0(nodes) == Path(nodes, whole, root[<<0, first>>])
           climb(nodes) == Climb(path0(nodes)[1], p, Tail(path0(nodes)))
<1>1. CASE b = first
  BY <1>1, SubprovedStart
<1>2. CASE b # first
  <2>0. n \in Nat /\ a < b /\ b <= n /\ ~(b <= a + 1)
    <3>1. n \in Nat /\ a < b /\ b <= n
      BY FitsFacts
    <3> QED
      BY <1>2, <3>1
  <2>1. PICK v, u \in Pow :
          /\ w = 2 * v /\ a + v < b /\ b <= a + 2 * v /\ b <= n /\ u <= v
          /\ Fits(a, a + v, v, n) /\ Fits(a + v, b, u, n)
    BY <2>0, FitsSplit
  <2>2. v \in Nat /\ v # 0 /\ a + v \in Nat /\ (a + v) - a < b - a /\ b - (a + v) < b - a
    BY <2>1, PowFacts
  <2> DEFINE left == <<a, a + v>>
             right == <<a + v, b>>
  <2>3. /\ f[<<a, b>>] = IF first <= a + v THEN Append(f[left], root[right])
                         ELSE Append(f[right], root[left])
    <3>1. Mid(<<a, b>>) = a + v /\ Left(<<a, b>>) = left /\ Right(<<a, b>>) = right
          /\ <<a, b>> \in Ranges(hashes)
      <4>1. a + v < b /\ b <= a + 2 * v /\ b <= Len(hashes)
        BY <2>1
      <4> QED
        BY <4>1, HalvesAre
    <3>2. f[<<a, b>>] = SubproofAt(f, hashes, first, <<a, b>>)
      BY <3>1 DEF SubproofOf
    <3> HIDE DEF left, right, root
    <3> QED
      BY <1>2, <2>0, <3>1, <3>2 DEF SubproofAt, root
  <2>4. \A acc :
          /\ Reached(hashes, acc, a, a + v, v)
               => /\ Reached(hashes, ClimbStep(acc, root[right]), a, b, w)
                  /\ ClimbStep(acc, root[right]).fr = acc.fr
          /\ Reached(hashes, acc, a + v, b, u)
               => /\ Reached(hashes, ClimbStep(acc, root[left]), a, b, w)
                  /\ ClimbStep(acc, root[left]).fr = NodeHash(root[left], acc.fr)
    BY <2>0, <2>1, JoinHalves
  <2>5. root[right] \in AllRoots(hashes) /\ root[left] \in AllRoots(hashes)
    BY <2>0, <2>1, JoinHalves
  <2>6. root[<<0, first>>] \in AllRoots(hashes)
    <3>1. <<0, first>> \in Ranges(hashes)
      BY DEF Ranges
    <3> QED
      BY <3>1 DEF AllRoots
  <2>7. ASSUME NEW nodes \in Seq(AllRoots(hashes)), path0(nodes) # <<>>,
               path0(nodes) \in Seq(AllRoots(hashes)),
               NEW node \in AllRoots(hashes), NEW x \in Pow, x <= v, Short(Tail(path0(nodes)), x)
        PROVE  LET more == Append(nodes, node) IN
               /\ more \in Seq(AllRoots(hashes)) /\ more # <<>>
               /\ path0(more) \in Seq(AllRoots(hashes)) /\ path0(more) # <<>>
               /\ climb(more) = ClimbStep(climb(nodes), node)
               /\ Short(Tail(path0(more)), w)
    <3> DEFINE more == Append(nodes, node)
    <3>1. more \in Seq(AllRoots(hashes)) /\ more # <<>>
      BY AppendRest
    <3>2. path0(more) = Append(path0(nodes), node)
      BY <2>6, AppendRest DEF Path
    <3> HIDE DEF path0, more, p
    <3>3. /\ path0(more) \in Seq(AllRoots(hashes)) /\ path0(more) # <<>>
          /\ path0(more)[1] = path0(nodes)[1] /\ Tail(path0(nodes)) \in Seq(AllRoots(hashes))
          /\ Tail(path0(more)) = Append(Tail(path0(nodes)), node)
      BY <2>7, <3>2, AppendRest
    <3>4. climb(more) = ClimbStep(climb(nodes), node)
      <4>1. Climb(path0(nodes)[1], p, Append(Tail(path0(nodes)), node))
              = ClimbStep(Climb(path0(nodes)[1], p, Tail(path0(nodes))), node)
        <5>1. PICK s \in Seq(AllRoots(hashes)) : s = Tail(path0(nodes))
          BY <3>3
        <5>2. PICK top : top = path0(nodes)[1]
          OBVIOUS
        <5>3. Climb(top, p, Append(s, node)) = ClimbStep(Climb(top, p, s), node)
          BY ClimbAppend
        <5> QED
          BY <5>1, <5>2, <5>3
      <4> QED
        BY <3>3, <4>1
    <3>5. Short(Tail(path0(more)), w)
      BY <2>1, <2>7, <3>3, ShortAppend
    <3> QED
      BY <3>1, <3>3, <3>4, <3>5 DEF more
  <2>8. CASE first <= a + v
    <3>1. Subproved(hashes, first, f, a, a + v, v)
      <4>1. PICK g \in Nat : a = g * (2 * v)
        BY <2>1 DEF Fits
      <4> QED
        BY <2>1, <2>2, <2>8, <4>1 DEF SubprovedBelow
    <3>2. /\ f[left] \in Seq(AllRoots(hashes)) /\ path0(f[left]) # <<>>
          /\ path0(f[left]) \in Seq(AllRoots(hashes)) /\ Short(Tail(path0(f[left])), v)
          /\ Reached(hashes, climb(f[left]), a, a + v, v)
          /\ climb(f[left]).fr = root[<<a, first>>]
      BY <3>1 DEF Subproved
    <3>3. f[<<a, b>>] = Append(f[left], root[right])
      BY <2>3, <2>8
    <3> HIDE DEF root, left, right, path0, climb
    <3>4. /\ f[<<a, b>>] \in Seq(AllRoots(hashes)) /\ f[<<a, b>>] # <<>>
          /\ path0(f[<<a, b>>]) \in Seq(AllRoots(hashes)) /\ path0(f[<<a, b>>]) # <<>>
          /\ climb(f[<<a, b>>]) = ClimbStep(climb(f[left]), root[right])
          /\ Short(Tail(path0(f[<<a, b>>])), w)
      <4>1. v <= v
        BY <2>2
      <4> QED
        BY <2>5, <2>7, <3>2, <3>3, <4>1
    <3>5. /\ Reached(hashes, climb(f[<<a, b>>]), a, b, w)
          /\ climb(f[<<a, b>>]).fr = root[<<a, first>>]
      BY <2>4, <3>2, <3>4
    <3> QED
      BY <3>4, <3>5 DEF Subproved, root, path0, climb
  <2>9. CASE ~(first <= a + v)
    <3>1. Subproved(hashes, first, f, a + v, b, u)
      <4>1. a + v < first
        BY <2>2, <2>9
      <4> QED
        BY <1>2, <2>1, <2>2, <4>1 DEF SubprovedBelow
    <3>2. /\ f[right] \in Seq(AllRoots(hashes)) /\ path0(f[right]) # <<>>
          /\ path0(f[right]) \in Seq(AllRoots(hashes)) /\ Short(Tail(path0(f[right])), u)
          /\ Reached(hashes, climb(f[right]), a + v, b, u)
          /\ climb(f[right]).fr = root[<<a + v, first>>]
      BY <3>1 DEF Subproved
    <3>3. f[<<a, b>>] = Append(f[right], root[left])
      BY <2>3, <2>9
    <3>4. root[<<a, first>>] = NodeHash(root[<<a, a + v>>], root[<<a + v, first>>])
      <4>1. a + v < first /\ first <= a + 2 * v /\ first <= Len(hashes)
        BY <2>0, <2>1, <2>2, <2>9
      <4> QED
        BY <4>1, RootIs
    <3> HIDE DEF root, right, path0, climb
    <3>5. /\ f[<<a, b>>] \in Seq(AllRoots(hashes)) /\ f[<<a, b>>] # <<>>
          /\ path0(f[<<a, b>>]) \in Seq(AllRoots(hashes)) /\ path0(f[<<a, b>>]) # <<>>
          /\ climb(f[<<a, b>>]) = ClimbStep(climb(f[right]), root[left])
          /\ Short(Tail(path0(f[<<a, b>>])), w)
      BY <2>1, <2>5, <2>7, <3>2, <3>3
    <3>6. /\ Reached(hashes, climb(f[<<a, b>>]), a, b, w)
          /\ climb(f[<<a, b>>]).fr = root[<<a, first>>]
      BY <2>4, <3>2, <3>4, <3>5
    <3> QED
      BY <3>5, <3>6 DEF Subproved, root, path0, climb
  <2> QED
    BY <2>8, <2>9
<1> QED
  BY <1>1, <1>2

(* ... and so it is of every range that the first tree ends inside. *)
LEMMA SubprovedRange ==
  ASSUME NEW hashes, Len(hashes) \in Nat, NEW first \in Nat, first < Len(hashes),
         NEW f, SubproofOf(f, hashes, first),
         NEW a \in Nat, NEW b \in Nat, NEW w \in Pow, Fits(a, b, w, Len(hashes)),
         a < first, first < b
  PROVE  Subproved(hashes, first, f, a, b, w)
<1> DEFINE Bad(x, y, z) == /\ Fits(x, y, z, Len(hashes)) /\ x < first /\ first <= y
                           /\ y = first => \E h \in Nat : x = h * (2 * z)
                           /\ ~Subproved(hashes, first, f, x, y, z)
           T == {k \in Nat : \E x, y \in Nat : \E z \in Pow : y - x = k /\ Bad(x, y, z)}
<1>1. ASSUME T # {} PROVE FALSE
  <2>0. T \in SUBSET Nat
    OBVIOUS
  <2>1. PICK k \in T : \A m \in T : k <= m
    <3> HIDE DEF T
    <3> QED
      BY <1>1, <2>0, LeastOf
  <2>2. PICK x, y \in Nat : \E z \in Pow : y - x = k /\ Bad(x, y, z)
    BY <2>1
  <2>3. PICK z \in Pow : y - x = k /\ Bad(x, y, z)
    BY <2>2
  <2>4. ASSUME NEW a2 \in Nat, NEW b2 \in Nat, NEW w2 \in Pow,
               Fits(a2, b2, w2, Len(hashes)), a2 < first, first <= b2, b2 - a2 < y - x,
               b2 = first => \E h \in Nat : a2 = h * (2 * w2)
        PROVE  Subproved(hashes, first, f, a2, b2, w2)
    <3>1. b2 - a2 \in Nat /\ ~(k <= b2 - a2)
      BY <2>0, <2>1, <2>3, <2>4
    <3>2. b2 - a2 \notin T
      <4> HIDE DEF T
      <4> QED
        BY <2>1, <3>1
    <3> QED
      BY <2>4, <3>1, <3>2
  <2> HIDE DEF T
  <2>5. Subproved(hashes, first, f, x, y, z)
    <3>1. SubprovedBelow(hashes, first, f, y - x)
      BY <2>4 DEF SubprovedBelow
    <3> QED
      BY <2>3, <3>1, SubprovedStep
  <2> QED
    BY <2>3, <2>5
<1>2. b - a \in Nat
  BY DEF Fits
<1>3. b - a \notin T
  BY <1>1
<1> QED
  BY <1>2, <1>3

(* A root put before a path makes it no shorter. *)
LEMMA PathLonger ==
  ASSUME NEW S, NEW nodes \in Seq(S), NEW x, NEW hs, hs = nodes \/ hs = <<x>> \o nodes
  PROVE  Len(nodes) <= Len(hs)
<1>1. Len(nodes) \in Nat
  OBVIOUS
<1>2. Len(<<x>> \o nodes) = 1 + Len(nodes)
  <2>1. nodes \in Seq(S \cup {x}) /\ <<x>> \in Seq(S \cup {x}) /\ Len(<<x>>) = 1
    OBVIOUS
  <2> QED
    BY <2>1
<1> QED
  BY <1>1, <1>2

(* What the second half of verifyConsistency() asks. *)
LEMMA VerifyFrom ==
  ASSUME NEW r1, NEW r2, NEW first \in Nat, NEW second \in Nat, NEW nodes, NEW hs, NEW end,
         1 <= first, first < second, Len(nodes) <= 130, nodes # <<>>,
         hs = IF \E i \in 0..first : first = Pow2[i] THEN <<r1>> \o nodes ELSE nodes,
         end = Climb(hs[1], SkipOdd([fn |-> first - 1, sn |-> second - 1]), Tail(hs)),
         end.ok, end.p.sn = 0, BothRoots(end, r1, r2)
  PROVE  VerifyConsistency(r1, r2, first, second, nodes)
<1> DEFINE hashes == IF \E i \in 0..first : first = Pow2[i] THEN <<r1>> \o nodes ELSE nodes
           top == Climb(hashes[1], SkipOdd([fn |-> first - 1, sn |-> second - 1]), Tail(hashes))
<1>1. hs = hashes
  OBVIOUS
<1>2. end = top
  BY <1>1
<1> HIDE DEF hashes, top
<1>3. /\ 1 <= first /\ first <= second /\ Len(nodes) <= 130
      /\ IF first = second THEN nodes = <<>> /\ r1 = r2
         ELSE /\ nodes # <<>>
              /\ top.ok /\ top.p.sn = 0 /\ BothRoots(top, r1, r2)
  BY <1>2
<1> QED
  BY <1>3 DEF VerifyConsistency, hashes, top

(* The proof that a log extends its own beginning is accepted. *)
LEMMA ConsistencyComplete ==
  ASSUME NEW S, NEW hashes \in Seq(S), Len(hashes) <= Pow2[53],
         NEW first \in 1..Len(hashes)
  PROVE  VerifyConsistency(Root(First(hashes, first)), Root(hashes), first, Len(hashes),
                           ProveConsistency(hashes, first))
<1> DEFINE n == Len(hashes)
           begin == First(hashes, first)
           nodes == ProveConsistency(hashes, first)
           root == SubtreeRoots(hashes)
           p == SkipOdd([fn |-> first - 1, sn |-> n - 1])
           hs == Path(nodes, first \in Pow, root[<<0, first>>])
           acc == Climb(hs[1], p, Tail(hs))
<1>1. n \in Nat /\ n # 0 /\ first \in Nat /\ first # 0 /\ first <= n
  OBVIOUS
<1>2. Root(begin) = root[<<0, first>>]
  <2>1. Len(begin) = first /\ \A i \in 1..first : begin[i] = hashes[i]
    BY <1>1 DEF First
  <2> HIDE DEF begin
  <2>2. SameOver(begin, hashes, 0, first)
    BY <1>1, <2>1, EqualRoots
  <2> QED
    BY <1>1, <2>1, <2>2 DEF SameOver, Root
<1>3. PICK f : nodes = f[<<0, n>>] /\ SubproofOf(f, hashes, first)
  BY <1>1, SubproofIs
<1>4. CASE first = n
  <2>1. <<0, n>> \in Ranges(hashes)
    BY <1>1 DEF Ranges
  <2>2. nodes = <<>>
    BY <1>3, <1>4, <2>1 DEF SubproofOf, SubproofAt
  <2>3. Len(nodes) = 0
    BY <2>2
  <2>4. VerifyConsistency(Root(begin), Root(hashes), first, n, nodes)
    <3> HIDE DEF nodes, begin
    <3> QED
      BY <1>1, <1>2, <1>4, <2>2, <2>3 DEF VerifyConsistency, Root
  <2> QED
    BY <2>4
<1>5. CASE first # n
  <2>1. first < n
    BY <1>1, <1>5
  <2>2. PICK w \in Pow : Fits(0, n, w, n)
    BY <1>1, WholeFits
  <2>3. Subproved(hashes, first, f, 0, n, w)
    BY <1>1, <1>3, <2>1, <2>2, SubprovedRange
  <2>4. /\ nodes \in Seq(AllRoots(hashes)) /\ nodes # <<>>
        /\ hs \in Seq(AllRoots(hashes)) /\ hs # <<>> /\ Short(Tail(hs), w)
        /\ Track(acc.p, 0, w, n) /\ acc.ok /\ acc.sr = root[<<0, n>>]
        /\ acc.fr = root[<<0, first>>]
    BY <1>3, <1>5, <2>3 DEF Subproved, Reached
  <2>5. acc.p.sn = 0
    BY <1>1, <2>2, <2>4, TopIsLast
  <2>6. Len(nodes) <= 130
    <3>1. Len(nodes) \in Nat /\ Len(hs) \in Nat /\ Len(Tail(hs)) = Len(hs) - 1 /\ Len(hs) # 0
      <4> HIDE DEF hs, nodes
      <4> QED
        BY <2>4
    <3>2. Len(nodes) <= Len(hs)
      <4>1. hs = nodes \/ hs = <<root[<<0, first>>]>> \o nodes
        BY DEF Path
      <4> HIDE DEF hs, nodes, root
      <4> QED
        BY <2>4, <4>1, PathLonger
    <3>3. Len(Tail(hs)) \in Nat
      BY <3>1
    <3>4. Len(Tail(hs)) <= 54
      <4> HIDE DEF hs
      <4> QED
        BY <1>1, <2>2, <2>4, <3>3, TopReached
    <3> HIDE DEF hs, nodes
    <3> QED
      BY <3>1, <3>2, <3>4
  <2>7. first \in Pow <=> \E i \in 0..first : first = Pow2[i]
    <3>1. ASSUME first \in Pow PROVE \E i \in 0..first : first = Pow2[i]
      BY <3>1, PowFacts
    <3>2. ASSUME NEW i \in 0..first, first = Pow2[i] PROVE first \in Pow
      BY <3>2 DEF Pow
    <3> QED
      BY <3>1, <3>2
  <2>8. hs = IF \E i \in 0..first : first = Pow2[i] THEN <<Root(begin)>> \o nodes ELSE nodes
    BY <1>2, <2>7 DEF Path
  <2>9. /\ nodes # <<>> /\ acc.ok /\ acc.p.sn = 0
        /\ BothRoots(acc, Root(begin), Root(hashes))
    <3> HIDE DEF nodes, begin, acc
    <3> QED
      BY <1>2, <2>4, <2>5 DEF BothRoots, Root
  <2>10. VerifyConsistency(Root(begin), Root(hashes), first, n, nodes)
    <3>1. acc = Climb(hs[1], SkipOdd([fn |-> first - 1, sn |-> n - 1]), Tail(hs))
      OBVIOUS
    <3>2. first \in Nat /\ n \in Nat /\ 1 <= first
      BY <1>1
    <3> HIDE DEF nodes, begin, hs, acc, n
    <3> QED
      BY <2>1, <2>6, <2>8, <2>9, <3>1, <3>2, VerifyFrom
  <2> QED
    BY <2>10
<1> QED
  BY <1>4, <1>5

-----------------------------------------------------------------------------
(* The logs are within the bound, and the path is of their nodes. *)
LogOf(log) == log \in Seq(LeafData) /\ Len(log) \in 1..MaxLeaves

MerkleInv ==
  /\ LogOf(older) /\ LogOf(newer) /\ Len(older) <= Len(newer)
  /\ path \in Seq(Nodes(Leaves(older)) \cup Nodes(Leaves(newer)))

(* So it is at the start ... *)
LEMMA MerkleInvInit == MerkleInit => MerkleInv
<1> SUFFICES ASSUME MerkleInit PROVE MerkleInv
  OBVIOUS
<1>1. ASSUME NEW log \in UNION {[1..n -> LeafData] : n \in 1..MaxLeaves} PROVE LogOf(log)
  <2>1. PICK n \in 1..MaxLeaves : log \in [1..n -> LeafData]
    BY <1>1
  <2>2. n \in Nat
    BY MerkleAssumption
  <2> QED
    BY <2>1, <2>2 DEF LogOf
<1>2. LogOf(older) /\ LogOf(newer) /\ Len(older) <= Len(newer)
  BY <1>1 DEF MerkleInit
<1>3. path = <<>>
  BY DEF MerkleInit
<1> QED
  BY <1>2, <1>3 DEF MerkleInv

(* ... and after every node that is sent. *)
LEMMA MerkleInvStep == MerkleInv /\ [MerkleNext]_merkleVars => MerkleInv'
<1> SUFFICES ASSUME MerkleInv, [MerkleNext]_merkleVars PROVE MerkleInv'
  OBVIOUS
<1>1. CASE MerkleNext
  <2>1. PICK node \in Nodes(Leaves(older)) \cup Nodes(Leaves(newer)) : path' = Append(path, node)
    BY <1>1 DEF MerkleNext, SendNode
  <2>2. older' = older /\ newer' = newer
    BY <1>1 DEF MerkleNext, SendNode
  <2> QED
    BY <2>1, <2>2 DEF MerkleInv
<1>2. CASE UNCHANGED merkleVars
  BY <1>2 DEF MerkleInv, merkleVars
<1> QED
  BY <1>1, <1>2

(* The hashes of a log, one for each entry. *)
LEMMA LeavesAre ==
  ASSUME NEW log, LogOf(log)
  PROVE  /\ Leaves(log) \in Seq({LeafHash(d) : d \in LeafData}) /\ Len(Leaves(log)) = Len(log)
         /\ Len(log) \in Nat /\ Len(log) # 0 /\ Len(log) <= MaxLeaves
         /\ DOMAIN log = 1..Len(log)
         /\ \A i \in 1..Len(log) : Leaves(log)[i] = LeafHash(log[i]) /\ log[i] \in LeafData
<1>1. /\ log \in Seq(LeafData) /\ Len(log) \in Nat /\ Len(log) # 0 /\ Len(log) <= MaxLeaves
      /\ DOMAIN log = 1..Len(log) /\ \A i \in 1..Len(log) : log[i] \in LeafData
  BY MerkleAssumption DEF LogOf
<1> DEFINE k == Len(log)
<1>2. Leaves(log) = [i \in 1..k |-> LeafHash(log[i])]
  BY <1>1 DEF Leaves
<1>3. \A i \in 1..k : LeafHash(log[i]) \in {LeafHash(d) : d \in LeafData}
  BY <1>1
<1>4. Leaves(log) \in [1..k -> {LeafHash(d) : d \in LeafData}] /\ k \in Nat
  BY <1>1, <1>2, <1>3
<1> HIDE DEF k
<1>5. Leaves(log) \in Seq({LeafHash(d) : d \in LeafData}) /\ Len(Leaves(log)) = k
  BY <1>4
<1> QED
  BY <1>1, <1>2, <1>5 DEF k

(* Equal leaf hashes are of equal leaves. *)
LEMMA LeafHashIsIdeal ==
  ASSUME NEW x, NEW y, LeafHash(x) = LeafHash(y)
  PROVE  x = y
BY DEF LeafHash

(* The two halves together, for the logs and the path of any state. *)
LEMMA ProofsProveOf ==
  ASSUME MerkleInv, MaxLeaves < Pow2[53]
  PROVE  ProofsProve
<1> DEFINE old == Leaves(older)
           new == Leaves(newer)
           S == {LeafHash(d) : d \in LeafData}
           N == Nodes(old) \cup Nodes(new)
<1>1. /\ old \in Seq(S) /\ new \in Seq(S) /\ Len(old) = Len(older) /\ Len(new) = Len(newer)
      /\ Len(older) \in Nat /\ Len(newer) \in Nat /\ Len(older) # 0 /\ Len(newer) # 0
      /\ Len(newer) <= MaxLeaves /\ DOMAIN newer = 1..Len(newer)
      /\ \A i \in 1..Len(older) : old[i] = LeafHash(older[i])
      /\ \A i \in 1..Len(newer) : new[i] = LeafHash(newer[i])
      /\ older \in Seq(LeafData) /\ newer \in Seq(LeafData) /\ Len(older) <= Len(newer)
      /\ path \in Seq(N)
  BY LeavesAre DEF MerkleInv, LogOf
<1>2. Len(new) <= Pow2[53]
  <2>1. Pow2[53] \in Nat
    BY Pow2Type
  <2> QED
    BY <1>1, <2>1, MerkleAssumption
<1> HIDE DEF S, N, old, new
<1>3. ASSUME VerifyConsistency(Root(old), Root(new), Len(old), Len(new), path)
      PROVE  IsPrefix(older, newer)
  <2>1. \A j \in 1..Len(old) : old[j] = new[j]
    BY <1>1, <1>3, ConsistencySound
  <2>2. ASSUME NEW j \in 1..Len(older) PROVE older[j] = newer[j]
    <3>1. j \in 1..Len(newer)
      BY <1>1
    <3>2. LeafHash(older[j]) = LeafHash(newer[j])
      BY <1>1, <2>1, <3>1
    <3> QED
      BY <3>2, LeafHashIsIdeal
  <2> QED
    BY <1>1, <2>2, PrefixElements
<1>4. ASSUME NEW index \in 0..Len(new), NEW data \in LeafData,
             VerifyInclusion(LeafHash(data), index, Len(new), path, Root(new))
      PROVE  newer[index + 1] = data
  <2>1. index \in Nat /\ index < Len(new)
    BY <1>1, <1>4 DEF VerifyInclusion
  <2>2. LeafHash(data) = new[index + 1]
    <3>1. Len(path) \in Nat /\ Len(new) \in Nat
      BY <1>1
    <3> QED
      BY <1>4, <2>1, <3>1, InclusionSound
  <2>3. new[index + 1] = LeafHash(newer[index + 1])
    BY <1>1, <2>1
  <2> QED
    BY <2>2, <2>3, LeafHashIsIdeal
<1>5. ASSUME NEW m \in DOMAIN newer
      PROVE  /\ VerifyConsistency(Root(First(new, m)), Root(new), m, Len(new),
                                  ProveConsistency(new, m))
             /\ VerifyInclusion(new[m], m - 1, Len(new), ProveInclusion(new, m - 1), Root(new))
  <2>1. m \in 1..Len(new) /\ m - 1 \in Nat /\ m - 1 < Len(new) /\ (m - 1) + 1 = m
        /\ Len(new) \in Nat
    BY <1>1
  <2>2. VerifyConsistency(Root(First(new, m)), Root(new), m, Len(new), ProveConsistency(new, m))
    BY <1>1, <1>2, <2>1, ConsistencyComplete
  <2>3. PICK i \in Nat : i = m - 1
    BY <2>1
  <2>4. VerifyInclusion(new[i + 1], i, Len(new), ProveInclusion(new, i), Root(new))
    BY <1>2, <2>1, <2>3, InclusionComplete
  <2> QED
    BY <2>1, <2>2, <2>3, <2>4
<1> QED
  BY <1>3, <1>4, <1>5 DEF ProofsProve, old, new

(* ProofsProve, for logs of any size the code takes: verifyConsistency() and
   verifyInclusion() accept no path that is not a proof, whatever nodes it is
   made of, and they accept those that proveConsistency() and proveInclusion()
   make.  The sizes are safe integers, as safeSize() demands; only the bounds
   on the length of a path need that. *)
THEOREM ProofsAlwaysProve ==
  ASSUME MaxLeaves < Pow2[53]
  PROVE  MerkleSpec => []ProofsProve
<1>1. MerkleInit => MerkleInv
  BY MerkleInvInit
<1>2. MerkleInv /\ [MerkleNext]_merkleVars => MerkleInv'
  BY MerkleInvStep
<1>3. MerkleInv => ProofsProve
  BY ProofsProveOf
<1> QED
  BY <1>1, <1>2, <1>3, PTL DEF MerkleSpec
=============================================================================
