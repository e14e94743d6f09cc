---------------------------- MODULE RevocationProofs ---------------------------
(***************************************************************************)
(* The proofs of the revocation registry, of the verifier of its lists and *)
(* of the shared freeze row: what was killed for good and acknowledged     *)
(* never pays again, at the registry or at a verifier elsewhere; and what  *)
(* one operator looked at is what a lift undoes.                           *)
(***************************************************************************)
EXTENDS StatusListCheck, FreezeStore, WellFoundedInduction, TLAPS

-----------------------------------------------------------------------------
(* The registry.  Its store and what its ledger restores are compared field  *)
(* by field: the ledger is behind by the row of the operation in progress,   *)
(* or by the index a kill has taken, and a crash falls back to it.           *)

(* What the rows on the ledger restore. *)
OnLedger == Restored(log.rows)

(* A record holds its mandate's index, or none because the list is full.     *)
RecordOK(s, m, held) ==
  \/ held = {}
  \/ \E p \in Purpose : /\ held = {[index |-> s.index[m], purpose |-> p]}
                        /\ s.index[m] = {} => s.next = Entries

(* A store of the program: one index per mandate, each below the next one.  *)
StoreOK(s) ==
  /\ DOMAIN s = {"index", "agent", "byAgent", "record", "block", "next"}
  /\ s.next \in 0..Entries
  /\ s.index \in [Mandate -> SUBSET Nat] /\ s.agent \in [Mandate -> SUBSET Agent]
  /\ s.byAgent \in [Agent -> SUBSET Mandate] /\ s.block \in [Agent -> SUBSET Purpose]
  /\ DOMAIN s.record = Mandate
  /\ \A m \in Mandate : s.index[m] = {} \/ \E i \in 0..(s.next - 1) : s.index[m] = {i}
  /\ \A m, n \in Mandate : m # n => s.index[m] \cap s.index[n] = {}
  /\ \A m \in Mandate : RecordOK(s, m, s.record[m])
  /\ \A m \in Mandate : \A a \in s.agent[m] : m \in s.byAgent[a]

(* The rows the registry writes. *)
IsRow(row) ==
  \/ \E type \in {"assigned", "revoked"}, m \in Mandate, A \in SUBSET Agent,
        i \in SUBSET Index, p \in Purpose : row = RowOf(type, {m}, A, i, p)
  \/ \E m \in Mandate : row = RowOf("unsuspended", {m}, {}, {}, "suspension")
  \/ \E a \in Agent, p \in Purpose : row = RowOf("agent_revoked", {}, {a}, {}, p)
  \/ \E a \in Agent : row = RowOf("agent_unblocked", {}, {a}, {}, "suspension")

(* Two stores that differ at most in the agent a mandate was last linked to. *)
Same(s, t) ==
  /\ s.index = t.index /\ s.byAgent = t.byAgent /\ s.record = t.record
  /\ s.block = t.block /\ s.next = t.next

TaskOK ==
  /\ task.op \in {"none", "assign", "kill", "killed", "blocked", "loop", "lifted"}
  /\ task.op = "none" => task = Idle
  /\ task.op = "assign" =>
       /\ DOMAIN task = {"op", "mandate", "agent"}
       /\ task.mandate \in Mandate /\ task.agent \in Agent
  /\ task.op \in {"kill", "killed"} =>
       /\ DOMAIN task = {"op", "mandate", "agent", "purpose", "rest", "whole", "failed"}
       /\ task.mandate \in Mandate /\ task.agent \in SUBSET Agent /\ task.purpose \in Purpose
       /\ task.rest \in SUBSET Mandate /\ task.whole \in SUBSET Agent
       /\ \A a \in task.agent : task.mandate \in store.byAgent[a]
       /\ \A a \in task.whole : task.rest \subseteq store.byAgent[a]
  /\ task.op = "kill" => ~KilledForGood(task.mandate)
  /\ task.op = "killed" /\ task.purpose = "revocation" => KilledForGood(task.mandate)
  /\ task.op \in {"blocked", "loop"} =>
       task.purpose \in Purpose /\ task.agent \in SUBSET Agent
  /\ task.op = "blocked" =>
       /\ \E a \in Agent : task.agent = {a}
       /\ task.purpose = "revocation" => \A a \in task.agent : "revocation" \in store.block[a]
  /\ task.op = "loop" =>
       task.rest \in SUBSET Mandate /\ \A a \in task.agent : task.rest \subseteq store.byAgent[a]
  /\ task.op = "lifted" =>
       \/ \E m \in Mandate : task.row = RowOf("unsuspended", {m}, {}, {}, "suspension")
       \/ \E a \in Agent : task.row = RowOf("agent_unblocked", {}, {a}, {}, "suspension")

(* The store is what the ledger restores once the row of the operation in    *)
(* progress has landed; a kill that has no row yet may have taken an index.  *)
Behind ==
  /\ task.op \in {"none", "loop"} => Same(store, OnLedger)
  /\ task.op = "kill" =>
       \/ Same(store, OnLedger)
       \/ Same(store, Allocated(OnLedger, task.mandate, task.agent))
  /\ task.op = "assign" => Same(store, Replayed(OnLedger, AssignedRow))
  /\ task.op = "killed" => Same(store, Replayed(OnLedger, KilledRow))
  /\ task.op = "blocked" => Same(store, Replayed(OnLedger, BlockedRow))
  /\ task.op = "lifted" => Same(store, Replayed(OnLedger, task.row))

LogOK ==
  /\ DOMAIN log = {"rows", "published"} /\ log.rows \in Seq(Row) /\ StoreOK(OnLedger)

(* What was killed for good, and its caller told, is down in a store. *)
DownIn(s) ==
  /\ \A m \in dead.mandates : \E r \in s.record[m] : r.purpose = "revocation"
  /\ \A a \in dead.agents : "revocation" \in s.block[a]

DeadOK ==
  /\ dead.mandates \subseteq Mandate /\ dead.agents \subseteq Agent
  /\ DOMAIN dead = {"mandates", "agents"}
  /\ DownIn(store) /\ DownIn(OnLedger)

IssuedOK ==
  /\ DOMAIN issued = Mandate
  /\ \A m \in Mandate : issued[m] \subseteq store.index[m] /\ issued[m] \subseteq OnLedger.index[m]

(* A check under way is of a mandate that is dead itself, if it is of a dead *)
(* one: a dead agent was denied at once. *)
CheckOK ==
  /\ paid = {}
  /\ check.at # "none" => /\ check.at = "mandate" /\ check.mandate \in Mandate
                          /\ check.doomed => check.mandate \in dead.mandates

(* Versions are signed once: reserved above every list signed or reserved.   *)
VersionsOK ==
  /\ lastPublished \in -1..MaxVersion /\ log.published \in -1..MaxVersion
  /\ \A p \in publishes :
       /\ DOMAIN p = {"at", "version", "purpose", "bits", "blocked", "knew"}
       /\ p.at \in {"reserved", "snapshot", "signing", "signed"} /\ p.version \in Version
       /\ p.at = "signed" => p.version <= lastPublished
       /\ \A q \in publishes : q.version = p.version => q = p
       /\ \A c \in credentials : c.version # p.version
  /\ \A c \in credentials :
       /\ c.version \in Version /\ c.version <= lastPublished /\ c.version <= log.published
       /\ \A d \in credentials : d.version = c.version => d = c

(* Whoever asks later knows of more dead. *)
KnewOK ==
  \A p \in publishes \cup credentials :
    /\ p.knew \subseteq DeadOnRecord
    /\ \A q \in publishes \cup credentials : p.version <= q.version => p.knew \subseteq q.knew

(* A list shows all it knew of, by record or by agent. *)
ShownOK ==
  /\ \A p \in publishes : p.purpose = "revocation" =>
       /\ p.at = "snapshot" => \A m \in p.knew :
            \/ issued[m] \subseteq p.bits
            \/ \E a \in dead.agents \cap p.blocked : m \in OnLedger.byAgent[a]
       /\ p.at \in {"signing", "signed"} => \A m \in p.knew : issued[m] \subseteq p.bits
  /\ \A c \in credentials : c.purpose = "revocation" =>
       \A m \in c.knew : issued[m] \subseteq c.bits

QueueIInv == StoreOK(store) /\ TaskOK /\ LogOK /\ Behind /\ DeadOK /\ IssuedOK

(* What no step takes back. *)
Grows ==
  /\ dead.mandates \subseteq dead'.mandates /\ dead.agents \subseteq dead'.agents
  /\ \A m \in Mandate : issued[m] # {} => issued'[m] = issued[m]
  /\ \A a \in Agent : OnLedger.byAgent[a] \subseteq OnLedger'.byAgent[a]

RegistryIInv == QueueIInv /\ CheckOK /\ VersionsOK /\ KnewOK /\ ShownOK

VerifierIInv ==
  /\ reinstated = {}
  /\ warned = {} \/ \E c \in credentials : c.version = floor /\ warned \subseteq c.knew

-----------------------------------------------------------------------------
(* Replaying: hydrateFromLedger() replays one row after the other. *)

LEMMA LeastOf ==
  ASSUME NEW S \in SUBSET Nat, S # {}
  PROVE  \E n \in S : \A m \in S : n <= m
<1> DEFINE R == {pair \in Nat \X Nat : pair[1] < pair[2]}
<1>1. IsWellFoundedOn(R, Nat)
  BY NatLessThanWellFounded DEF OpToRel
<1>2. \A m, n \in Nat : m < n => <<m, n>> \in R
  OBVIOUS
<1> HIDE DEF R
<1>3. PICK n \in S : \A m \in S : <<m, n>> \notin R
  BY <1>1, WFMin
<1>4. \A m \in S : n <= m
  <2> SUFFICES ASSUME NEW m \in S, ~(n <= m) PROVE FALSE
    OBVIOUS
  <2>1. m \in Nat /\ n \in Nat /\ m < n
    OBVIOUS
  <2> QED
    BY <1>2, <1>3, <2>1
<1> QED
  BY <1>4

(* The stores after each of the first k rows. *)
Steps(after, rows, k) ==
  after = [n \in 0..k |-> IF n = 0 THEN EmptyStore ELSE Replayed(after[n - 1], rows[n])]

StoreAfter(rows) == CHOOSE after : Steps(after, rows, Len(rows))

LEMMA StepsExist ==
  ASSUME NEW rows, NEW k \in Nat
  PROVE  \E after : Steps(after, rows, k)
<1> DEFINE T == {n \in Nat : ~\E after : Steps(after, rows, n)}
<1>1. ASSUME T # {} PROVE FALSE
  <2>1. PICK n \in T : \A m \in T : n <= m
    BY <1>1, LeastOf
  <2>2. n \in Nat /\ ~\E after : Steps(after, rows, n)
    BY <2>1
  <2>3. CASE n = 0
    <3> DEFINE g == [i \in 0..0 |-> EmptyStore]
    <3>1. g = [i \in 0..0 |-> IF i = 0 THEN EmptyStore ELSE Replayed(g[i - 1], rows[i])]
      OBVIOUS
    <3> HIDE DEF g
    <3> QED
      BY <2>2, <2>3, <3>1 DEF Steps
  <2>4. CASE n > 0
    <3>1. n - 1 \in Nat /\ n - 1 \notin T
      BY <2>1, <2>2, <2>4
    <3>2. PICK f : Steps(f, rows, n - 1)
      BY <3>1
    <3> DEFINE g == [i \in 0..n |-> IF i < n THEN f[i] ELSE Replayed(f[n - 1], rows[n])]
               h == [i \in 0..n |-> IF i = 0 THEN EmptyStore ELSE Replayed(g[i - 1], rows[i])]
    <3>3. ASSUME NEW i \in 0..n PROVE g[i] = h[i]
      <4>1. CASE i = n
        BY <2>2, <2>4, <4>1
      <4>2. CASE i < n
        <5>1. f[i] = IF i = 0 THEN EmptyStore ELSE Replayed(f[i - 1], rows[i])
          BY <2>2, <3>2, <4>2 DEF Steps
        <5>2. i # 0 => i - 1 \in 0..n /\ i - 1 < n
          BY <2>2, <4>2
        <5> QED
          BY <4>2, <5>1, <5>2
      <4> QED
        BY <2>2, <4>1, <4>2
    <3>4. g = h
      BY <3>3
    <3> HIDE DEF g
    <3> QED
      BY <2>2, <3>4 DEF Steps
  <2> QED
    BY <2>2, <2>3, <2>4
<1> QED
  BY <1>1

LEMMA RestoredIsTheLast ==
  ASSUME NEW rows, Len(rows) \in Nat
  PROVE  Steps(StoreAfter(rows), rows, Len(rows)) /\ Restored(rows) = StoreAfter(rows)[Len(rows)]
<1>1. Steps(StoreAfter(rows), rows, Len(rows))
  BY StepsExist DEF StoreAfter
<1>2. Restored(rows) = StoreAfter(rows)[Len(rows)]
  BY DEF Restored, StoreAfter, Steps
<1> QED
  BY <1>1, <1>2

LEMMA RestoredRows ==
  /\ Restored(<<>>) = EmptyStore
  /\ \A rows \in Seq(Row) : \A row \in Row :
       Restored(Append(rows, row)) = Replayed(Restored(rows), row)
<1>1. Restored(<<>>) = EmptyStore
  BY RestoredIsTheLast DEF Steps
<1>2. ASSUME NEW rows \in Seq(Row), NEW row \in Row
      PROVE  Restored(Append(rows, row)) = Replayed(Restored(rows), row)
  <2> DEFINE more == Append(rows, row)
             k == Len(rows)
             f == StoreAfter(rows)
             g == StoreAfter(more)
             T == {n \in 0..k : f[n] # g[n]}
  <2>1. k \in Nat /\ Len(more) = k + 1 /\ more[k + 1] = row /\ \A n \in 1..k : more[n] = rows[n]
    OBVIOUS
  <2>2. /\ Restored(rows) = f[k] /\ Restored(more) = g[k + 1]
        /\ Steps(f, rows, k) /\ Steps(g, more, k + 1)
    <3>1. Restored(rows) = f[k] /\ Steps(f, rows, k)
      BY <2>1, RestoredIsTheLast
    <3>2. Len(more) \in Nat /\ Len(more) = k + 1
      BY <2>1
    <3> HIDE DEF more, k
    <3>3. Restored(more) = g[Len(more)] /\ Steps(g, more, Len(more))
      BY <3>2, RestoredIsTheLast
    <3> QED
      BY <3>1, <3>2, <3>3
  <2> HIDE DEF more, k, f, g
  <2>3. \A n \in 0..k : f[n] = IF n = 0 THEN EmptyStore ELSE Replayed(f[n - 1], rows[n])
    BY <2>1, <2>2 DEF Steps
  <2>4. \A n \in 0..(k + 1) : g[n] = IF n = 0 THEN EmptyStore ELSE Replayed(g[n - 1], more[n])
    BY <2>1, <2>2 DEF Steps
  <2>5. ASSUME T # {} PROVE FALSE
    <3>0. T \in SUBSET Nat
      BY <2>1
    <3>1. PICK n \in T : \A m \in T : n <= m
      BY <2>5, <3>0, LeastOf
    <3>2. n \in 0..k /\ n \in 0..(k + 1) /\ f[n] # g[n]
      BY <2>1, <3>1
    <3>3. n # 0
      BY <2>3, <2>4, <3>2
    <3>4. n - 1 \in 0..k /\ n - 1 \notin T /\ n \in 1..k
      BY <2>1, <3>1, <3>2, <3>3
    <3>5. f[n - 1] = g[n - 1]
      BY <3>4
    <3> QED
      BY <2>1, <2>3, <2>4, <3>2, <3>3, <3>4, <3>5
  <2>6. f[k] = g[k]
    BY <2>1, <2>5
  <2> QED
    BY <2>1, <2>2, <2>4, <2>6 DEF more
<1> QED
  BY <1>1, <1>2

-----------------------------------------------------------------------------
(* The store *)

Fields == {"index", "agent", "byAgent", "record", "block", "next"}

TakesIndex(s, m) == s.index[m] = {} /\ ~(s.next >= Entries)
LinksNothing(s, m, A) == (s.index[m] = {} /\ s.next >= Entries) \/ A = {}
WithLinks(s, m, A) == [b \in Agent |-> s.byAgent[b] \cup {n \in {m} : b \in A}]

(* allocate(), field by field. *)
IsAllocated(t, s, m, A) ==
  /\ DOMAIN t = Fields /\ t.record = s.record /\ t.block = s.block
  /\ t.index = IF TakesIndex(s, m) THEN [s.index EXCEPT ![m] = {s.next}] ELSE s.index
  /\ t.next = IF TakesIndex(s, m) THEN s.next + 1 ELSE s.next
  /\ t.agent = IF LinksNothing(s, m, A) THEN s.agent ELSE [s.agent EXCEPT ![m] = A]
  /\ t.byAgent = IF LinksNothing(s, m, A) THEN s.byAgent ELSE WithLinks(s, m, A)

LEMMA AllocatedFields ==
  ASSUME NEW s, DOMAIN s = Fields, NEW m \in Mandate, NEW A \in SUBSET Agent
  PROVE  IsAllocated(Allocated(s, m, A), s, m, A)
<1> DEFINE linked == IF A = {} THEN s ELSE Linked(s, m, A)
<1>1. /\ DOMAIN linked = Fields /\ linked.record = s.record /\ linked.block = s.block
      /\ linked.index = s.index /\ linked.next = s.next
      /\ linked.agent = IF A = {} THEN s.agent ELSE [s.agent EXCEPT ![m] = A]
      /\ linked.byAgent = IF A = {} THEN s.byAgent
                          ELSE [b \in Agent |-> s.byAgent[b] \cup {n \in {m} : b \in A}]
  BY DEF Linked, Fields
<1> HIDE DEF linked
<1>2. Allocated(s, m, A) =
        IF s.index[m] # {} THEN linked
        ELSE IF s.next >= Entries THEN s
        ELSE [linked EXCEPT !.index = [linked.index EXCEPT ![m] = {s.next}], !.next = s.next + 1]
  BY DEF Allocated, linked
<1>3. CASE s.index[m] # {}
  BY <1>1, <1>2, <1>3 DEF IsAllocated, TakesIndex, LinksNothing, WithLinks
<1>4. CASE s.index[m] = {} /\ s.next >= Entries
  BY <1>1, <1>2, <1>4 DEF IsAllocated, TakesIndex, LinksNothing, WithLinks
<1>5. CASE s.index[m] = {} /\ ~(s.next >= Entries)
  <2>1. Allocated(s, m, A) =
          [linked EXCEPT !.index = [linked.index EXCEPT ![m] = {s.next}], !.next = s.next + 1]
    BY <1>2, <1>5
  <2> QED
    BY <1>1, <1>5, <2>1 DEF IsAllocated, Fields, TakesIndex, LinksNothing, WithLinks
<1> QED
  BY <1>3, <1>4, <1>5

LEMMA AllocatedStore ==
  ASSUME NEW s, StoreOK(s), NEW m \in Mandate, NEW A \in SUBSET Agent
  PROVE  LET t == Allocated(s, m, A) IN
         /\ StoreOK(t) /\ t.record = s.record /\ t.block = s.block
         /\ \A n \in Mandate : s.index[n] # {} => t.index[n] = s.index[n]
         /\ \A a \in Agent : s.byAgent[a] \subseteq t.byAgent[a]
         /\ t.index[m] = {} => t = s /\ s.next = Entries
         /\ t.index[m] # {} => \A a \in A : m \in t.byAgent[a]
<1> DEFINE t == Allocated(s, m, A)
           new == TakesIndex(s, m)
           kept == LinksNothing(s, m, A)
<1>1. /\ DOMAIN s = Fields /\ s.next \in 0..Entries /\ Entries \in Nat
      /\ s.index \in [Mandate -> SUBSET Nat] /\ s.agent \in [Mandate -> SUBSET Agent]
      /\ s.byAgent \in [Agent -> SUBSET Mandate] /\ s.block \in [Agent -> SUBSET Purpose]
      /\ DOMAIN s.record = Mandate
  BY RevocationAssumption DEF StoreOK, Fields, RevocationAssumption
<1>2. /\ DOMAIN t = Fields /\ t.record = s.record /\ t.block = s.block
      /\ t.index = IF new THEN [s.index EXCEPT ![m] = {s.next}] ELSE s.index
      /\ t.next = IF new THEN s.next + 1 ELSE s.next
      /\ t.agent = IF kept THEN s.agent ELSE [s.agent EXCEPT ![m] = A]
      /\ t.byAgent = IF kept THEN s.byAgent ELSE WithLinks(s, m, A)
  <2>1. IsAllocated(t, s, m, A)
    BY <1>1, AllocatedFields
  <2> HIDE DEF t
  <2> QED
    BY <2>1 DEF IsAllocated
<1>0. /\ new <=> s.index[m] = {} /\ ~(s.next >= Entries)
      /\ kept <=> (s.index[m] = {} /\ s.next >= Entries) \/ A = {}
      /\ \A b \in Agent : WithLinks(s, m, A)[b] = s.byAgent[b] \cup {n \in {m} : b \in A}
      /\ WithLinks(s, m, A) \in [Agent -> SUBSET Mandate]
  BY <1>1 DEF TakesIndex, LinksNothing, WithLinks
<1> HIDE DEF t, new, kept
<1>3. /\ t.next \in 0..Entries /\ t.index \in [Mandate -> SUBSET Nat]
      /\ t.agent \in [Mandate -> SUBSET Agent] /\ t.byAgent \in [Agent -> SUBSET Mandate]
  BY <1>0, <1>1, <1>2
<1>4. \A n \in Mandate : t.index[n] = {} \/ \E i \in 0..(t.next - 1) : t.index[n] = {i}
  BY <1>0, <1>1, <1>2 DEF StoreOK
<1>5. \A n, o \in Mandate : n # o => t.index[n] \cap t.index[o] = {}
  <2>1. CASE new
    <3>1. \A n \in Mandate : s.next \notin s.index[n]
      BY <1>1 DEF StoreOK
    <3> QED
      BY <1>0, <1>1, <1>2, <2>1, <3>1 DEF StoreOK
  <2>2. CASE ~new
    BY <1>0, <1>1, <1>2, <2>2 DEF StoreOK
  <2> QED
    BY <2>1, <2>2
<1>6. \A n \in Mandate : s.index[n] # {} => t.index[n] = s.index[n]
  BY <1>0, <1>1, <1>2
<1>7. \A n \in Mandate : RecordOK(t, n, t.record[n])
  <2>1. CASE new
    <3>1. \A n \in Mandate : s.record[n] = {} \/ s.index[n] # {}
      BY <1>0, <1>1, <2>1 DEF StoreOK, RecordOK
    <3> QED
      BY <1>2, <1>6, <3>1 DEF StoreOK, RecordOK
  <2>2. CASE ~new
    BY <1>0, <1>1, <1>2, <2>2 DEF StoreOK, RecordOK
  <2> QED
    BY <2>1, <2>2
<1>8. \A n \in Mandate : \A a \in t.agent[n] : n \in t.byAgent[a]
  BY <1>0, <1>1, <1>2 DEF StoreOK
<1>9. StoreOK(t)
  BY <1>0, <1>1, <1>2, <1>3, <1>4, <1>5, <1>7, <1>8 DEF StoreOK, Fields
<1>10. \A a \in Agent : s.byAgent[a] \subseteq t.byAgent[a]
  BY <1>0, <1>1, <1>2
<1>11. t.index[m] = {} => t = s /\ s.next = Entries
  <2>1. CASE new
    BY <1>1, <1>2, <2>1
  <2>2. CASE ~new /\ t.index[m] = {}
    <3>1. s.index[m] = {} /\ s.next >= Entries
      BY <1>0, <1>2, <2>2
    <3> QED
      BY <1>1, <3>1 DEF t, Allocated
  <2> QED
    BY <2>1, <2>2
<1>12. t.index[m] # {} => \A a \in A : m \in t.byAgent[a]
  BY <1>0, <1>1, <1>2
<1> QED
  BY <1>2, <1>6, <1>9, <1>10, <1>11, <1>12 DEF t

LEMMA AllocatedSame ==
  ASSUME NEW s, NEW t, DOMAIN s = Fields, DOMAIN t = Fields, Same(s, t),
         NEW m \in Mandate, NEW A \in SUBSET Agent
  PROVE  Same(Allocated(s, m, A), Allocated(t, m, A))
<1>1. /\ s.index = t.index /\ s.byAgent = t.byAgent /\ s.record = t.record
      /\ s.block = t.block /\ s.next = t.next
  BY DEF Same
<1>2. /\ TakesIndex(s, m) <=> TakesIndex(t, m)
      /\ LinksNothing(s, m, A) <=> LinksNothing(t, m, A)
      /\ WithLinks(s, m, A) = WithLinks(t, m, A)
  BY <1>1 DEF TakesIndex, LinksNothing, WithLinks
<1> DEFINE x == Allocated(s, m, A)
           y == Allocated(t, m, A)
<1>3. IsAllocated(x, s, m, A) /\ IsAllocated(y, t, m, A)
  BY AllocatedFields
<1> HIDE DEF x, y
<1>4. Same(x, y)
  BY <1>1, <1>2, <1>3 DEF Same, IsAllocated
<1> QED
  BY <1>4 DEF x, y

(* Linking a mandate that has its index and its links changes nothing. *)
LEMMA LinkedAlready ==
  ASSUME NEW s, StoreOK(s), NEW m \in Mandate, NEW A \in SUBSET Agent,
         s.index[m] # {} \/ s.next >= Entries, \A a \in A : m \in s.byAgent[a]
  PROVE  Same(s, Allocated(s, m, A))
<1> DEFINE t == Allocated(s, m, A)
<1>1. /\ DOMAIN s = Fields /\ s.byAgent \in [Agent -> SUBSET Mandate]
  BY DEF StoreOK, Fields
<1>2. /\ t.record = s.record /\ t.block = s.block /\ t.index = s.index /\ t.next = s.next
      /\ \/ t.byAgent = s.byAgent
         \/ t.byAgent = WithLinks(s, m, A)
  <2>1. ~TakesIndex(s, m)
    BY DEF TakesIndex
  <2>2. IsAllocated(t, s, m, A)
    BY <1>1, AllocatedFields
  <2> HIDE DEF t
  <2> QED
    BY <2>1, <2>2 DEF IsAllocated
<1>3. WithLinks(s, m, A) = s.byAgent
  BY <1>1 DEF WithLinks
<1> HIDE DEF t
<1>4. Same(s, t)
  BY <1>2, <1>3 DEF Same
<1> QED
  BY <1>4 DEF t

(* Stores that agree are both sound, once their last links are. *)
LEMMA SameStore ==
  ASSUME NEW s, NEW t, StoreOK(s), Same(s, t), DOMAIN t = Fields,
         t.agent \in [Mandate -> SUBSET Agent],
         \A m \in Mandate : \A a \in t.agent[m] : m \in t.byAgent[a]
  PROVE  StoreOK(t)
BY DEF StoreOK, RecordOK, Same, Fields

-----------------------------------------------------------------------------
(* What a row restores *)

LEMMA OneMember == ASSUME NEW x PROVE (CHOOSE y \in {x} : TRUE) = x
OBVIOUS

LEMMA ReplayedAssigned ==
  ASSUME NEW s, NEW m, NEW A, NEW i, NEW p
  PROVE  Replayed(s, RowOf("assigned", {m}, A, i, p)) = Allocated(s, m, A)
BY OneMember DEF Replayed, RowOf

LEMMA ReplayedRevoked ==
  ASSUME NEW s, NEW m, NEW A, NEW i, NEW p
  PROVE  Replayed(s, RowOf("revoked", {m}, A, i, p)) =
           Revoked(Allocated(s, m, A), m,
                   [index   |-> IF i # {} THEN i ELSE Allocated(s, m, A).index[m],
                    purpose |-> p])
<1> DEFINE row == RowOf("revoked", {m}, A, i, p)
<1>1. /\ row.type = "revoked" /\ row.mandate = {m} /\ row.agent = A
      /\ row.index = i /\ row.purpose = p
  BY DEF RowOf
<1> HIDE DEF row
<1>2. Replayed(s, row) = ReplayedKill(s, row, m)
  BY <1>1, OneMember DEF Replayed
<1> QED
  BY <1>1, <1>2 DEF ReplayedKill, row

LEMMA ReplayedUnsuspended ==
  ASSUME NEW s, NEW m
  PROVE  Replayed(s, RowOf("unsuspended", {m}, {}, {}, "suspension")) =
           [s EXCEPT !.record[m] = {}]
BY OneMember DEF Replayed, RowOf

LEMMA ReplayedBlock ==
  ASSUME NEW s, NEW a, NEW p
  PROVE  Replayed(s, RowOf("agent_revoked", {}, {a}, {}, p)) = Blocked(s, a, p)
BY OneMember DEF Replayed, RowOf

LEMMA ReplayedUnblock ==
  ASSUME NEW s, NEW a
  PROVE  Replayed(s, RowOf("agent_unblocked", {}, {a}, {}, "suspension")) =
           [s EXCEPT !.block[a] = {}]
BY OneMember DEF Replayed, RowOf

(* No row undoes a link. *)
LEMMA ReplayedLinks ==
  ASSUME NEW s, StoreOK(s), NEW row, IsRow(row)
  PROVE  LET t == Replayed(s, row) IN
         /\ row \in Row /\ DOMAIN t = Fields /\ t.agent \in [Mandate -> SUBSET Agent]
         /\ \A a \in Agent : s.byAgent[a] \subseteq t.byAgent[a]
         /\ \A m \in Mandate : \A a \in t.agent[m] : m \in t.byAgent[a]
<1> DEFINE Holds(t) ==
             /\ DOMAIN t = Fields /\ t.agent \in [Mandate -> SUBSET Agent]
             /\ \A a \in Agent : s.byAgent[a] \subseteq t.byAgent[a]
             /\ \A m \in Mandate : \A a \in t.agent[m] : m \in t.byAgent[a]
<1>1. row \in Row
  BY DEF IsRow, Row, RowOf, Purpose
<1>2. Holds(s)
  BY DEF StoreOK, Fields
<1>3. \A t, v : Holds(t) => Holds([t EXCEPT !.record = v]) /\ Holds([t EXCEPT !.block = v])
  BY DEF Fields
<1>4. \A m \in Mandate, A \in SUBSET Agent : Holds(Allocated(s, m, A))
  <2> SUFFICES ASSUME NEW m \in Mandate, NEW A \in SUBSET Agent PROVE Holds(Allocated(s, m, A))
    OBVIOUS
  <2> DEFINE t == Allocated(s, m, A)
  <2>1. StoreOK(t) /\ \A a \in Agent : s.byAgent[a] \subseteq t.byAgent[a]
    BY AllocatedStore
  <2> HIDE DEF t
  <2>2. Holds(t)
    BY <2>1 DEF StoreOK, Fields
  <2> QED
    BY <2>2 DEF t
<1> HIDE DEF Holds
<1>5. Holds(Replayed(s, row))
  <2>1. ASSUME NEW m \in Mandate, NEW A \in SUBSET Agent, NEW i, NEW p,
               row = RowOf("assigned", {m}, A, i, p)
        PROVE  Holds(Replayed(s, row))
    BY <1>4, <2>1, ReplayedAssigned
  <2>2. ASSUME NEW m \in Mandate, NEW A \in SUBSET Agent, NEW i, NEW p,
               row = RowOf("revoked", {m}, A, i, p)
        PROVE  Holds(Replayed(s, row))
    <3> DEFINE t == Allocated(s, m, A)
               r == [index |-> IF i # {} THEN i ELSE t.index[m], purpose |-> p]
    <3>1. Replayed(s, row) = Revoked(t, m, r)
      BY <2>2, ReplayedRevoked
    <3>2. Holds(t)
      BY <1>4
    <3> HIDE DEF t, r
    <3>3. Revoked(t, m, r) = [t EXCEPT !.record = [t.record EXCEPT ![m] = {r}]]
      BY DEF Revoked
    <3>4. Holds([t EXCEPT !.record = [t.record EXCEPT ![m] = {r}]])
      BY <1>3, <3>2
    <3> QED
      BY <3>1, <3>3, <3>4
  <2>3. ASSUME NEW m \in Mandate, row = RowOf("unsuspended", {m}, {}, {}, "suspension")
        PROVE  Holds(Replayed(s, row))
    <3>1. Replayed(s, row) = [s EXCEPT !.record[m] = {}]
      BY <2>3, ReplayedUnsuspended
    <3>2. [s EXCEPT !.record[m] = {}] = [s EXCEPT !.record = [s.record EXCEPT ![m] = {}]]
      OBVIOUS
    <3>3. Holds([s EXCEPT !.record = [s.record EXCEPT ![m] = {}]])
      BY <1>2, <1>3
    <3> QED
      BY <3>1, <3>2, <3>3
  <2>4. ASSUME NEW a \in Agent, NEW p, row = RowOf("agent_revoked", {}, {a}, {}, p)
        PROVE  Holds(Replayed(s, row))
    <3>1. Replayed(s, row) = Blocked(s, a, p)
      BY <2>4, ReplayedBlock
    <3>2. [s EXCEPT !.block[a] = {p}] = [s EXCEPT !.block = [s.block EXCEPT ![a] = {p}]]
      OBVIOUS
    <3>3. Holds([s EXCEPT !.block = [s.block EXCEPT ![a] = {p}]])
      BY <1>2, <1>3
    <3> QED
      BY <1>2, <3>1, <3>2, <3>3 DEF Blocked
  <2>5. ASSUME NEW a \in Agent, row = RowOf("agent_unblocked", {}, {a}, {}, "suspension")
        PROVE  Holds(Replayed(s, row))
    <3>1. Replayed(s, row) = [s EXCEPT !.block[a] = {}]
      <4>1. Replayed(s, RowOf("agent_unblocked", {}, {a}, {}, "suspension")) =
              [s EXCEPT !.block[a] = {}]
        BY ReplayedUnblock
      <4> QED
        BY <2>5, <4>1
    <3>2. [s EXCEPT !.block[a] = {}] = [s EXCEPT !.block = [s.block EXCEPT ![a] = {}]]
      OBVIOUS
    <3>3. Holds([s EXCEPT !.block = [s.block EXCEPT ![a] = {}]])
      BY <1>2, <1>3
    <3> QED
      BY <3>1, <3>2, <3>3
  <2> QED
    BY <2>1, <2>2, <2>3, <2>4, <2>5 DEF IsRow
<1> QED
  BY <1>1, <1>5 DEF Holds

-----------------------------------------------------------------------------
(* The writes of the store *)

(* A record or a block replaced, all else as it was. *)
WithRecord(s, m, held) == [s EXCEPT !.record[m] = held]
WithBlock(s, a, held) == [s EXCEPT !.block[a] = held]

LEMMA RecordWritten ==
  ASSUME NEW s, StoreOK(s), NEW m \in Mandate, NEW held,
         RecordOK(s, m, held)
  PROVE  LET t == WithRecord(s, m, held) IN
         /\ StoreOK(t) /\ t.index = s.index /\ t.byAgent = s.byAgent /\ t.block = s.block
         /\ t.next = s.next /\ t.record[m] = held
         /\ \A n \in Mandate : n # m => t.record[n] = s.record[n]
<1> DEFINE t == WithRecord(s, m, held)
<1>1. /\ DOMAIN t = DOMAIN s /\ t.index = s.index /\ t.byAgent = s.byAgent /\ t.block = s.block
      /\ t.next = s.next /\ t.agent = s.agent
      /\ t.record = [s.record EXCEPT ![m] = held]
  BY DEF StoreOK, WithRecord
<1>2. DOMAIN s.record = Mandate
  BY DEF StoreOK
<1> HIDE DEF t
<1>3. /\ DOMAIN t.record = Mandate /\ t.record[m] = held
      /\ \A n \in Mandate : n # m => t.record[n] = s.record[n]
  BY <1>1, <1>2
<1>4. StoreOK(t)
  BY <1>1, <1>3 DEF StoreOK, RecordOK
<1> QED
  BY <1>1, <1>3, <1>4 DEF t

LEMMA BlockWritten ==
  ASSUME NEW s, StoreOK(s), NEW a \in Agent, NEW held \in SUBSET Purpose
  PROVE  LET t == WithBlock(s, a, held) IN
         /\ StoreOK(t) /\ t.index = s.index /\ t.byAgent = s.byAgent /\ t.record = s.record
         /\ t.next = s.next /\ t.block[a] = held
         /\ \A b \in Agent : b # a => t.block[b] = s.block[b]
<1> DEFINE t == WithBlock(s, a, held)
<1>1. /\ DOMAIN t = DOMAIN s /\ t.index = s.index /\ t.byAgent = s.byAgent /\ t.record = s.record
      /\ t.next = s.next /\ t.agent = s.agent
      /\ t.block = [s.block EXCEPT ![a] = held]
  BY DEF StoreOK, WithBlock
<1>2. s.block \in [Agent -> SUBSET Purpose]
  BY DEF StoreOK
<1> HIDE DEF t
<1>3. /\ t.block \in [Agent -> SUBSET Purpose] /\ t.block[a] = held
      /\ \A b \in Agent : b # a => t.block[b] = s.block[b]
  BY <1>1, <1>2
<1>4. StoreOK(t)
  BY <1>1, <1>3 DEF StoreOK, RecordOK
<1> QED
  BY <1>1, <1>3, <1>4 DEF t

(* The same row replayed on stores that agree. *)
LEMMA SameWrites ==
  ASSUME NEW s, NEW t, DOMAIN s = Fields, DOMAIN t = Fields, Same(s, t)
  PROVE  /\ \A m, held : Same(WithRecord(s, m, held), WithRecord(t, m, held))
         /\ \A a, held : Same(WithBlock(s, a, held), WithBlock(t, a, held))
BY DEF Same, Fields, WithRecord, WithBlock

-----------------------------------------------------------------------------
(* The steps of the queue *)

LEMMA RowsOfTasks ==
  ASSUME QueueIInv
  PROVE  /\ task.op = "assign" => IsRow(AssignedRow)
         /\ task.op = "killed" => IsRow(KilledRow)
         /\ task.op = "blocked" => IsRow(BlockedRow)
         /\ task.op = "lifted" => IsRow(task.row)
<1>1. \A m \in Mandate : store.index[m] \in SUBSET Index
  BY RevocationAssumption DEF QueueIInv, StoreOK, Index, RevocationAssumption
<1>2. task.op = "assign" => IsRow(AssignedRow)
  BY ZenonT(40), <1>1 DEF QueueIInv, TaskOK, IsRow, AssignedRow, Purpose
<1>3. task.op = "killed" => IsRow(KilledRow)
  BY <1>1 DEF QueueIInv, TaskOK, IsRow, KilledRow
<1>4. task.op = "blocked" => IsRow(BlockedRow)
  BY DEF QueueIInv, TaskOK, IsRow, BlockedRow
<1>5. task.op = "lifted" => IsRow(task.row)
  BY DEF QueueIInv, TaskOK, IsRow
<1> QED
  BY <1>2, <1>3, <1>4, <1>5

(* A row that lands catches the ledger up with the store. *)
LEMMA CaughtUp ==
  ASSUME QueueIInv, NEW row, IsRow(row), Same(store, Replayed(OnLedger, row))
  PROVE  LET t == Restored(Append(log.rows, row)) IN
         /\ Append(log.rows, row) \in Seq(Row)
         /\ StoreOK(t) /\ Same(store, t)
         /\ \A a \in Agent : OnLedger.byAgent[a] \subseteq t.byAgent[a]
<1> DEFINE t == Replayed(OnLedger, row)
<1>1. StoreOK(store) /\ StoreOK(OnLedger) /\ log.rows \in Seq(Row)
  BY DEF QueueIInv, LogOK
<1>2. /\ row \in Row /\ DOMAIN t = Fields /\ t.agent \in [Mandate -> SUBSET Agent]
      /\ \A a \in Agent : OnLedger.byAgent[a] \subseteq t.byAgent[a]
      /\ \A m \in Mandate : \A a \in t.agent[m] : m \in t.byAgent[a]
  BY <1>1, ReplayedLinks
<1>3. Restored(Append(log.rows, row)) = t
  BY <1>1, <1>2, RestoredRows DEF OnLedger
<1> HIDE DEF t
<1>4. Same(store, t)
  BY DEF t
<1>5. StoreOK(t)
  BY <1>1, <1>2, <1>4, SameStore
<1> QED
  BY <1>1, <1>2, <1>3, <1>4, <1>5

(* The end of an operation: its row lands, nothing else of the store moves.  *)
LEMMA RowDone ==
  ASSUME QueueIInv, ~LostRows, NEW row, IsRow(row), Same(store, Replayed(OnLedger, row)),
         Lands(row) \/ AppendThrows(row), UNCHANGED store,
         TaskOK', task'.op \in {"none", "loop"},
         DOMAIN dead' = {"mandates", "agents"}, dead'.mandates \subseteq Mandate,
         dead'.agents \subseteq Agent,
         dead.mandates \subseteq dead'.mandates, dead.agents \subseteq dead'.agents,
         \A m \in dead'.mandates : KilledForGood(m),
         \A a \in dead'.agents : "revocation" \in store.block[a],
         DOMAIN issued' = Mandate,
         \A m \in Mandate : issued'[m] \in {issued[m], store.index[m]}
  PROVE  QueueIInv' /\ Grows /\ log'.published = log.published
<1> DEFINE t == Restored(Append(log.rows, row))
<1>1. log' = [log EXCEPT !.rows = Append(log.rows, row)]
  BY DEF AppendThrows, Lands
<1>2. /\ Append(log.rows, row) \in Seq(Row) /\ StoreOK(t) /\ Same(store, t)
      /\ \A a \in Agent : OnLedger.byAgent[a] \subseteq t.byAgent[a]
  BY CaughtUp
<1>3. /\ log'.rows = Append(log.rows, row) /\ DOMAIN log' = {"rows", "published"}
      /\ log'.published = log.published
  BY <1>1 DEF QueueIInv, LogOK
<1>4. OnLedger' = t
  BY <1>3 DEF OnLedger
<1> HIDE DEF t
<1>5. StoreOK(store)' /\ TaskOK' /\ LogOK' /\ Behind'
  BY <1>2, <1>3, <1>4 DEF QueueIInv, LogOK, Behind
<1>6. DownIn(store)' /\ DownIn(OnLedger)'
  <2>1. t.record = store.record /\ t.block = store.block
    BY <1>2 DEF Same
  <2>2. \A m \in dead'.mandates : \E r \in store.record[m] : r.purpose = "revocation"
    BY DEF KilledForGood
  <2> QED
    BY <1>4, <2>1, <2>2 DEF DownIn
<1>7. ASSUME NEW m \in Mandate
      PROVE  /\ issued[m] \subseteq store.index[m] /\ issued'[m] \subseteq store.index[m]
             /\ issued[m] # {} => issued'[m] = issued[m]
  <2>1. issued[m] \subseteq store.index[m]
    BY DEF QueueIInv, IssuedOK
  <2>2. store.index[m] = {} \/ \E i \in Nat : store.index[m] = {i}
    BY DEF QueueIInv, StoreOK
  <2> QED
    BY <2>1, <2>2
<1>8. DeadOK'
  BY <1>6 DEF DeadOK
<1>9. IssuedOK'
  BY <1>2, <1>4, <1>7 DEF IssuedOK, Same
<1>10. Grows
  BY <1>2, <1>4, <1>7 DEF Grows
<1> QED
  BY <1>3, <1>5, <1>8, <1>9, <1>10 DEF QueueIInv

(* A step before the row. *)
LEMMA NoRowYet ==
  ASSUME QueueIInv, UNCHANGED <<log, issued>>, StoreOK(store)', TaskOK', Behind',
         \A m \in Mandate : store.index[m] # {} => store'.index[m] = store.index[m],
         DOMAIN dead' = {"mandates", "agents"}, dead'.mandates \subseteq Mandate,
         dead'.agents = dead.agents, dead.mandates \subseteq dead'.mandates,
         DownIn(store)', DownIn(OnLedger)'
  PROVE  QueueIInv' /\ Grows /\ log'.published = log.published
<1>1. OnLedger' = OnLedger
  BY DEF OnLedger
<1>2. LogOK'
  BY <1>1 DEF QueueIInv, LogOK
<1>3. DeadOK'
  BY DEF QueueIInv, DeadOK
<1>4. IssuedOK'
  BY <1>1 DEF QueueIInv, IssuedOK, StoreOK
<1>5. Grows
  BY <1>1 DEF Grows
<1> QED
  BY <1>2, <1>3, <1>4, <1>5 DEF QueueIInv

LEMMA AssignStep ==
  ASSUME QueueIInv, NEW m \in Mandate, NEW a \in Agent, AssignIndex(m, a)
  PROVE  QueueIInv' /\ Grows /\ log'.published = log.published
<1> DEFINE t == Allocated(store, m, {a})
<1>1. /\ task = Idle /\ store' = t /\ UNCHANGED <<log, issued, dead>>
      /\ task' = IF t.index[m] = {} THEN Idle ELSE [op |-> "assign", mandate |-> m, agent |-> a]
  BY DEF AssignIndex, Ready
<1>2. /\ StoreOK(store) /\ StoreOK(OnLedger) /\ Same(store, OnLedger) /\ OnLedger' = OnLedger
      /\ DownIn(store) /\ DownIn(OnLedger)
  BY <1>1 DEF QueueIInv, LogOK, Behind, DeadOK, Idle, OnLedger
<1>3. /\ StoreOK(t) /\ t.record = store.record /\ t.block = store.block
      /\ \A n \in Mandate : store.index[n] # {} => t.index[n] = store.index[n]
      /\ t.index[m] = {} => t = store
  BY <1>2, AllocatedStore
<1>4. Same(t, Allocated(OnLedger, m, {a}))
  BY <1>2, AllocatedSame DEF StoreOK, Fields
<1> HIDE DEF t
<1>5. DownIn(store)' /\ DownIn(OnLedger)'
  BY <1>1, <1>2, <1>3 DEF DownIn
<1>6. TaskOK'
  BY <1>1 DEF TaskOK, Idle
<1>7. Behind'
  <2>1. CASE t.index[m] = {}
    BY <1>1, <1>2, <1>3, <2>1 DEF Behind, Idle
  <2>2. CASE t.index[m] # {}
    <3>1. task' = [op |-> "assign", mandate |-> m, agent |-> a]
      BY <1>1, <2>2
    <3>2. AssignedRow' = RowOf("assigned", {m}, {a}, store'.index[m], "revocation")
      BY <3>1 DEF AssignedRow
    <3>3. Replayed(OnLedger', AssignedRow') = Allocated(OnLedger, m, {a})
      BY <1>2, <3>2, ReplayedAssigned
    <3> QED
      BY <1>1, <1>4, <3>1, <3>3 DEF Behind
  <2> QED
    BY <2>1, <2>2
<1>8. DOMAIN dead' = {"mandates", "agents"} /\ dead'.mandates \subseteq Mandate
  BY <1>1 DEF QueueIInv, DeadOK
<1> QED
  BY <1>1, <1>3, <1>5, <1>6, <1>7, <1>8, NoRowYet

LEMMA RecordAssignmentStep ==
  ASSUME QueueIInv, ~LostRows, RecordAssignment
  PROVE  QueueIInv' /\ Grows /\ log'.published = log.published
<1>1. /\ task.op = "assign" /\ task' = Idle /\ UNCHANGED <<store, dead>>
      /\ Lands(AssignedRow) \/ AppendThrows(AssignedRow)
      /\ \/ issued' = [issued EXCEPT ![task.mandate] = @ \cup store.index[task.mandate]]
         \/ issued' = issued
  BY DEF RecordAssignment
<1>2. IsRow(AssignedRow) /\ Same(store, Replayed(OnLedger, AssignedRow))
  BY <1>1, RowsOfTasks DEF QueueIInv, Behind
<1>3. TaskOK' /\ task'.op \in {"none", "loop"}
  BY <1>1 DEF TaskOK, Idle
<1>4. DOMAIN issued = Mandate /\ \A m \in Mandate : issued[m] \subseteq store.index[m]
  BY DEF QueueIInv, IssuedOK
<1>5. DOMAIN issued' = Mandate /\ \A m \in Mandate : issued'[m] \in {issued[m], store.index[m]}
  <2>1. CASE issued' = issued
    BY <1>4, <2>1
  <2>2. CASE issued' = [issued EXCEPT ![task.mandate] = issued[task.mandate] \cup store.index[task.mandate]]
    BY <1>4, <2>2
  <2> QED
    BY <1>1, <2>1, <2>2
<1>6. /\ DOMAIN dead' = {"mandates", "agents"} /\ dead'.mandates \subseteq Mandate
      /\ dead'.agents \subseteq Agent
      /\ \A m \in dead'.mandates : KilledForGood(m)
      /\ \A a \in dead'.agents : "revocation" \in store.block[a]
  BY <1>1 DEF QueueIInv, DeadOK, DownIn, KilledForGood
<1> QED
  BY <1>1, <1>2, <1>3, <1>5, <1>6, RowDone

LEMMA RevokeMandateStep ==
  ASSUME QueueIInv, NEW m \in Mandate, NEW p \in Purpose, RevokeMandate(m, p)
  PROVE  QueueIInv' /\ Grows /\ log'.published = log.published
<1>1. /\ task = Idle /\ UNCHANGED <<store, log, issued>>
      /\ \/ /\ KilledForGood(m) /\ dead' = [dead EXCEPT !.mandates = @ \cup {m}]
            /\ task' = task
         \/ /\ ~KilledForGood(m) /\ dead' = dead
            /\ task' = Kill(m, store.agent[m], p, {}, {}, FALSE)
  BY DEF RevokeMandate, Ready
<1>2. /\ StoreOK(store) /\ Same(store, OnLedger) /\ OnLedger' = OnLedger /\ TaskOK
      /\ DownIn(store) /\ DownIn(OnLedger) /\ DOMAIN dead = {"mandates", "agents"}
      /\ dead.mandates \subseteq Mandate /\ Behind
  BY <1>1 DEF QueueIInv, Behind, DeadOK, Idle, OnLedger
<1>3. CASE KilledForGood(m) /\ dead' = [dead EXCEPT !.mandates = @ \cup {m}] /\ task' = task
  <2>1. /\ dead'.mandates = dead.mandates \cup {m} /\ dead'.agents = dead.agents
        /\ DOMAIN dead' = DOMAIN dead
    BY <1>2, <1>3
  <2>2. DownIn(store)' /\ DownIn(OnLedger)'
    <3>1. \A n \in dead'.mandates : \E r \in store.record[n] : r.purpose = "revocation"
      BY <1>2, <1>3, <2>1 DEF DownIn, KilledForGood
    <3>2. OnLedger.record = store.record /\ OnLedger.block = store.block
      BY <1>2 DEF Same
    <3> QED
      BY <1>1, <1>2, <2>1, <3>1, <3>2 DEF DownIn
  <2>3. TaskOK' /\ Behind'
    BY <1>1, <1>2, <1>3 DEF TaskOK, Behind, Idle
  <2> QED
    BY <1>1, <1>2, <2>1, <2>2, <2>3, NoRowYet
<1>4. CASE ~KilledForGood(m) /\ dead' = dead /\ task' = Kill(m, store.agent[m], p, {}, {}, FALSE)
  <2>1. /\ DOMAIN task' = {"op", "mandate", "agent", "purpose", "rest", "whole", "failed"}
        /\ task'.op = "kill" /\ task'.mandate = m /\ task'.agent = store.agent[m]
        /\ task'.purpose = p /\ task'.rest = {} /\ task'.whole = {}
    BY <1>4 DEF Kill
  <2>2. store.agent[m] \in SUBSET Agent /\ \A a \in store.agent[m] : m \in store.byAgent[a]
    BY <1>2 DEF StoreOK
  <2>3. TaskOK'
    BY <1>1, <1>4, <2>1, <2>2 DEF TaskOK, KilledForGood
  <2>4. Behind'
    BY <1>1, <1>2, <2>1 DEF Behind
  <2>5. DownIn(store)' /\ DownIn(OnLedger)'
    BY <1>1, <1>2, <1>4 DEF DownIn
  <2> QED
    BY <1>1, <1>2, <1>4, <2>3, <2>4, <2>5, NoRowYet
<1> QED
  BY <1>1, <1>3, <1>4

LEMMA AllocateForKillStep ==
  ASSUME QueueIInv, AllocateForKill
  PROVE  QueueIInv' /\ Grows /\ log'.published = log.published
<1> DEFINE m == task.mandate
           t == Allocated(store, m, task.agent)
<1>1. /\ task.op = "kill" /\ store.index[m] = {} /\ store.next < Entries /\ store' = t
      /\ UNCHANGED <<log, task, issued, dead>>
  BY DEF AllocateForKill
<1>2. /\ StoreOK(store) /\ StoreOK(OnLedger) /\ OnLedger' = OnLedger
      /\ DownIn(store) /\ DownIn(OnLedger) /\ DOMAIN dead = {"mandates", "agents"}
      /\ dead.mandates \subseteq Mandate
      /\ m \in Mandate /\ task.agent \in SUBSET Agent
  BY <1>1 DEF QueueIInv, LogOK, DeadOK, OnLedger, TaskOK
<1>3. /\ StoreOK(t) /\ t.record = store.record /\ t.block = store.block
      /\ \A n \in Mandate : store.index[n] # {} => t.index[n] = store.index[n]
      /\ \A a \in Agent : store.byAgent[a] \subseteq t.byAgent[a]
  BY <1>2, AllocatedStore
<1>4. Same(t, Allocated(OnLedger, m, task.agent))
  <2>1. CASE Same(store, OnLedger)
    BY <1>2, <2>1, AllocatedSame DEF StoreOK, Fields
  <2>2. CASE Same(store, Allocated(OnLedger, m, task.agent))
    <3>1. Allocated(OnLedger, m, task.agent).index[m] = {}
      BY <1>1, <2>2 DEF Same
    <3>2. Allocated(OnLedger, m, task.agent) = OnLedger
      BY <1>2, <3>1, AllocatedStore
    <3> QED
      BY <1>2, <2>2, <3>2, AllocatedSame DEF StoreOK, Fields
  <2> QED
    BY <1>1, <2>1, <2>2 DEF QueueIInv, Behind
<1> HIDE DEF t
<1>5. DownIn(store)' /\ DownIn(OnLedger)'
  BY <1>1, <1>2, <1>3 DEF DownIn
<1>6. TaskOK'
  <2>1. TaskOK
    BY DEF QueueIInv
  <2>2. /\ \A a \in task.agent : m \in t.byAgent[a]
        /\ \A a \in task.whole : task.rest \subseteq t.byAgent[a]
    BY <1>1, <1>3, <2>1 DEF TaskOK
  <2> QED
    BY <1>1, <1>3, <2>1, <2>2 DEF TaskOK, KilledForGood
<1>7. Behind'
  BY <1>1, <1>2, <1>4 DEF Behind
<1> QED
  BY <1>1, <1>2, <1>3, <1>5, <1>6, <1>7, NoRowYet

LEMMA RecordKillStep ==
  ASSUME QueueIInv, RecordKill
  PROVE  QueueIInv' /\ Grows /\ log'.published = log.published
<1> DEFINE m == task.mandate
           r == [index |-> store.index[m], purpose |-> task.purpose]
           t == WithRecord(store, m, {r})
           led == Allocated(OnLedger, m, task.agent)
<1>1. /\ task.op = "kill" /\ (store.index[m] # {} \/ store.next >= Entries) /\ store' = t
      /\ task' = [task EXCEPT !.op = "killed"] /\ UNCHANGED <<log, issued, dead>>
  BY DEF RecordKill, Revoked, WithRecord
<1>2. /\ StoreOK(store) /\ StoreOK(OnLedger) /\ OnLedger' = OnLedger
      /\ DownIn(store) /\ DownIn(OnLedger) /\ DOMAIN dead = {"mandates", "agents"}
      /\ dead.mandates \subseteq Mandate
      /\ m \in Mandate /\ task.agent \in SUBSET Agent /\ task.purpose \in Purpose
      /\ DOMAIN task = {"op", "mandate", "agent", "purpose", "rest", "whole", "failed"}
      /\ ~KilledForGood(m) /\ TaskOK
  BY <1>1 DEF QueueIInv, LogOK, DeadOK, OnLedger, TaskOK
<1>3. store.next >= Entries => store.next = Entries
  BY <1>2, RevocationAssumption DEF StoreOK, RevocationAssumption
<1>4. /\ StoreOK(t) /\ t.index = store.index /\ t.byAgent = store.byAgent /\ t.block = store.block
      /\ t.next = store.next /\ t.record[m] = {r}
      /\ \A n \in Mandate : n # m => t.record[n] = store.record[n]
  <2> DEFINE held == {r}
  <2>1. RecordOK(store, m, held)
    BY <1>1, <1>2, <1>3 DEF RecordOK
  <2>2. StoreOK(store) /\ m \in Mandate
    BY <1>2
  <2> HIDE DEF held, m
  <2>3. LET u == WithRecord(store, m, held) IN
        /\ StoreOK(u) /\ u.index = store.index /\ u.byAgent = store.byAgent
        /\ u.block = store.block /\ u.next = store.next /\ u.record[m] = held
        /\ \A n \in Mandate : n # m => u.record[n] = store.record[n]
    BY <2>1, <2>2, RecordWritten
  <2> QED
    BY <2>3 DEF held
<1>5. /\ DOMAIN task' = DOMAIN task /\ task'.op = "killed" /\ task'.mandate = m
      /\ task'.agent = task.agent /\ task'.purpose = task.purpose /\ task'.rest = task.rest
      /\ task'.whole = task.whole
  BY <1>1, <1>2
<1>6. Same(store, led)
  <2>1. CASE Same(store, OnLedger)
    <3>1. \A a \in task.agent : m \in store.byAgent[a]
      BY <1>1, <1>2 DEF TaskOK
    <3>2. Same(store, Allocated(store, m, task.agent))
      BY <1>1, <1>2, <3>1, LinkedAlready
    <3>3. Same(Allocated(store, m, task.agent), led)
      BY <1>2, <2>1, AllocatedSame DEF StoreOK, Fields
    <3> QED
      BY <3>2, <3>3 DEF Same
  <2> QED
    BY <1>1, <2>1 DEF QueueIInv, Behind
<1>7. Same(t, Replayed(OnLedger, KilledRow'))
  <2>1. KilledRow' = RowOf("revoked", {m}, task.agent, store.index[m], task.purpose)
    BY <1>1, <1>4, <1>5 DEF KilledRow
  <2>2. led.index[m] = store.index[m]
    BY <1>6 DEF Same
  <2>3. Replayed(OnLedger, KilledRow') = Revoked(led, m, r)
    BY <2>1, <2>2, ReplayedRevoked
  <2>4. DOMAIN led = Fields /\ DOMAIN store = Fields
    <3>1. StoreOK(led)
      BY <1>2, AllocatedStore
    <3> QED
      BY <1>2, <3>1 DEF StoreOK, Fields
  <2> HIDE DEF led, r
  <2>5. Same(t, WithRecord(led, m, {r}))
    BY <1>6, <2>4, SameWrites
  <2> QED
    BY <2>3, <2>5 DEF Revoked, WithRecord
<1> HIDE DEF t
<1>8. TaskOK'
  <2>1. /\ \A a \in task.agent : m \in t.byAgent[a]
        /\ \A a \in task.whole : task.rest \subseteq t.byAgent[a]
        /\ task.rest \in SUBSET Mandate /\ task.whole \in SUBSET Agent
    BY <1>1, <1>2, <1>4 DEF TaskOK
  <2>2. task.purpose = "revocation" => \E x \in t.record[m] : x.purpose = "revocation"
    BY <1>4
  <2> QED
    BY <1>1, <1>2, <1>5, <2>1, <2>2 DEF TaskOK, KilledForGood
<1>9. DownIn(store)' /\ DownIn(OnLedger)'
  <2>1. m \notin dead.mandates
    BY <1>2 DEF DownIn, KilledForGood
  <2> QED
    BY <1>1, <1>2, <1>4, <2>1 DEF DownIn
<1>10. Behind'
  BY <1>1, <1>2, <1>5, <1>7 DEF Behind
<1> QED
  BY <1>1, <1>2, <1>4, <1>8, <1>9, <1>10, NoRowYet

LEMMA LogKillStep ==
  ASSUME QueueIInv, ~LostRows, LogKill
  PROVE  QueueIInv' /\ Grows /\ log'.published = log.published
<1>1. /\ task.op = "killed" /\ UNCHANGED <<store, issued>>
      /\ Lands(KilledRow) \/ AppendThrows(KilledRow)
      /\ KillDone(FALSE) \/ KillDone(TRUE)
      /\ \/ dead' = dead
         \/ /\ task.purpose = "revocation"
            /\ dead' = [dead EXCEPT !.mandates = @ \cup {task.mandate}]
  BY DEF LogKill
<1>2. IsRow(KilledRow) /\ Same(store, Replayed(OnLedger, KilledRow)) /\ TaskOK
  BY <1>1, RowsOfTasks DEF QueueIInv, Behind
<1>3. TaskOK' /\ task'.op \in {"none", "loop"}
  <2>1. /\ task.rest \in SUBSET Mandate /\ task.whole \in SUBSET Agent /\ task.purpose \in Purpose
        /\ \A a \in task.whole : task.rest \subseteq store.byAgent[a]
    BY <1>1, <1>2 DEF TaskOK
  <2>2. \/ task' = Idle
        \/ \E b : task' = Loop(task.whole, task.purpose, task.rest, b)
    BY <1>1 DEF KillDone
  <2>3. CASE task' = Idle
    BY <2>3 DEF TaskOK, Idle
  <2>4. ASSUME NEW b, task' = Loop(task.whole, task.purpose, task.rest, b)
        PROVE  TaskOK' /\ task'.op \in {"none", "loop"}
    <3>1. /\ task'.op = "loop" /\ task'.agent = task.whole /\ task'.purpose = task.purpose
          /\ task'.rest = task.rest
      BY <2>4 DEF Loop
    <3> QED
      BY <1>1, <2>1, <3>1 DEF TaskOK
  <2> QED
    BY <2>2, <2>3, <2>4
<1>4. /\ DOMAIN dead = {"mandates", "agents"} /\ dead.mandates \subseteq Mandate
      /\ dead.agents \subseteq Agent
      /\ \A m \in dead.mandates : KilledForGood(m)
      /\ \A a \in dead.agents : "revocation" \in store.block[a]
  BY DEF QueueIInv, DeadOK, DownIn, KilledForGood
<1>5. /\ DOMAIN dead' = {"mandates", "agents"} /\ dead'.agents = dead.agents
      /\ \/ dead'.mandates = dead.mandates
         \/ dead'.mandates = dead.mandates \cup {task.mandate} /\ task.purpose = "revocation"
  BY <1>1, <1>4
<1>6. /\ task.mandate \in Mandate
      /\ task.purpose = "revocation" => KilledForGood(task.mandate)
  BY <1>1, <1>2 DEF TaskOK
<1>7. /\ dead'.mandates \subseteq Mandate /\ dead.mandates \subseteq dead'.mandates
      /\ \A m \in dead'.mandates : KilledForGood(m)
  BY <1>4, <1>5, <1>6
<1>8. DOMAIN issued' = Mandate /\ \A m \in Mandate : issued'[m] \in {issued[m], store.index[m]}
  BY <1>1 DEF QueueIInv, IssuedOK
<1> QED
  BY <1>1, <1>2, <1>3, <1>4, <1>5, <1>7, <1>8, RowDone

LEMMA RevokeAgentStep ==
  ASSUME QueueIInv, NEW a \in Agent, NEW p \in Purpose, RevokeAgent(a, p)
  PROVE  QueueIInv' /\ Grows /\ log'.published = log.published
<1>1. /\ task = Idle /\ store' = Blocked(store, a, p) /\ UNCHANGED <<log, issued, dead>>
      /\ task' = [op |-> "blocked", agent |-> {a}, purpose |-> p]
  BY DEF RevokeAgent, Ready
<1>2. /\ StoreOK(store) /\ StoreOK(OnLedger) /\ Same(store, OnLedger) /\ OnLedger' = OnLedger
      /\ DownIn(store) /\ DownIn(OnLedger) /\ DOMAIN dead = {"mandates", "agents"}
      /\ dead.mandates \subseteq Mandate /\ dead.agents \subseteq Agent
  BY <1>1 DEF QueueIInv, LogOK, Behind, DeadOK, Idle, OnLedger
<1> DEFINE t == Blocked(store, a, p)
<1>3. /\ StoreOK(t) /\ t.index = store.index /\ t.byAgent = store.byAgent
      /\ t.record = store.record
      /\ p = "revocation" => "revocation" \in t.block[a]
      /\ \A b \in Agent : "revocation" \in store.block[b] => "revocation" \in t.block[b]
  <2>1. CASE "revocation" \in store.block[a]
    BY <1>2, <2>1 DEF Blocked
  <2>2. CASE "revocation" \notin store.block[a]
    <3> DEFINE u == WithBlock(store, a, {p})
    <3>1. /\ StoreOK(u) /\ u.index = store.index /\ u.byAgent = store.byAgent
          /\ u.record = store.record /\ u.block[a] = {p}
          /\ \A b \in Agent : b # a => u.block[b] = store.block[b]
      BY <1>2, BlockWritten
    <3> HIDE DEF u
    <3>2. t = u
      BY <2>2 DEF Blocked, WithBlock, u
    <3> QED
      BY <2>2, <3>1, <3>2
  <2> QED
    BY <2>1, <2>2
<1>4. Same(t, Replayed(OnLedger, RowOf("agent_revoked", {}, {a}, {}, p)))
  <2>1. Replayed(OnLedger, RowOf("agent_revoked", {}, {a}, {}, p)) = Blocked(OnLedger, a, p)
    BY ReplayedBlock
  <2>2. DOMAIN store = Fields /\ DOMAIN OnLedger = Fields /\ store.block = OnLedger.block
    BY <1>2 DEF StoreOK, Fields, Same
  <2>3. Same(WithBlock(store, a, {p}), WithBlock(OnLedger, a, {p}))
    BY <1>2, <2>2, SameWrites
  <2> QED
    BY <1>2, <2>1, <2>2, <2>3 DEF Blocked, WithBlock
<1> HIDE DEF t
<1>5. /\ task'.op = "blocked" /\ task'.agent = {a} /\ task'.purpose = p
  BY <1>1
<1>6. TaskOK'
  BY <1>1, <1>3, <1>5 DEF TaskOK, t
<1>7. Behind'
  <2>1. BlockedRow' = RowOf("agent_revoked", {}, {a}, {}, p)
    BY <1>5 DEF BlockedRow
  <2> QED
    BY <1>1, <1>2, <1>4, <1>5, <2>1 DEF Behind, t
<1>8. DownIn(store)' /\ DownIn(OnLedger)'
  BY <1>1, <1>2, <1>3 DEF DownIn, t
<1> QED
  BY <1>1, <1>2, <1>3, <1>6, <1>7, <1>8, NoRowYet DEF t

LEMMA LogBlockStep ==
  ASSUME QueueIInv, ~LostRows, LogBlock
  PROVE  QueueIInv' /\ Grows /\ log'.published = log.published
<1>1. /\ task.op = "blocked" /\ UNCHANGED <<store, issued>>
      /\ Lands(BlockedRow) \/ AppendThrows(BlockedRow)
      /\ \/ task' = Idle /\ dead' = dead
         \/ /\ task' = Loop(task.agent, task.purpose,
                             UNION {store.byAgent[a] : a \in task.agent}, FALSE)
            /\ dead' = IF task.purpose = "revocation"
                         THEN [dead EXCEPT !.agents = @ \cup task.agent] ELSE dead
  BY DEF LogBlock
<1>2. /\ IsRow(BlockedRow) /\ Same(store, Replayed(OnLedger, BlockedRow)) /\ StoreOK(store)
      /\ task.purpose \in Purpose
      /\ task.purpose = "revocation" => \A a \in task.agent : "revocation" \in store.block[a]
  BY <1>1, RowsOfTasks DEF QueueIInv, Behind, TaskOK
<1>3. PICK a \in Agent : task.agent = {a}
  BY <1>1 DEF QueueIInv, TaskOK
<1>4. TaskOK' /\ task'.op \in {"none", "loop"}
  <2>1. CASE task' = Idle
    BY <2>1 DEF TaskOK, Idle
  <2>2. CASE task' = Loop(task.agent, task.purpose,
                          UNION {store.byAgent[b] : b \in task.agent}, FALSE)
    <3>1. UNION {store.byAgent[b] : b \in task.agent} = store.byAgent[a]
      BY <1>3
    <3>2. /\ task'.op = "loop" /\ task'.agent = {a} /\ task'.purpose = task.purpose
          /\ task'.rest = store.byAgent[a]
      BY <1>3, <2>2, <3>1 DEF Loop
    <3>3. store.byAgent[a] \in SUBSET Mandate
      BY <1>2 DEF StoreOK
    <3> QED
      BY <1>1, <1>2, <3>2, <3>3 DEF TaskOK
  <2> QED
    BY <1>1, <2>1, <2>2
<1>5. /\ DOMAIN dead = {"mandates", "agents"} /\ dead.mandates \subseteq Mandate
      /\ dead.agents \subseteq Agent
      /\ \A m \in dead.mandates : KilledForGood(m)
      /\ \A b \in dead.agents : "revocation" \in store.block[b]
  BY DEF QueueIInv, DeadOK, DownIn, KilledForGood
<1>6. /\ DOMAIN dead' = {"mandates", "agents"} /\ dead'.mandates = dead.mandates
      /\ \/ dead'.agents = dead.agents
         \/ dead'.agents = dead.agents \cup task.agent /\ task.purpose = "revocation"
  BY <1>1, <1>5
<1>7. /\ dead'.agents \subseteq Agent /\ dead.agents \subseteq dead'.agents
      /\ \A b \in dead'.agents : "revocation" \in store.block[b]
  BY <1>2, <1>3, <1>5, <1>6
<1>8. DOMAIN issued' = Mandate /\ \A m \in Mandate : issued'[m] \in {issued[m], store.index[m]}
  BY <1>1 DEF QueueIInv, IssuedOK
<1> QED
  BY <1>1, <1>2, <1>4, <1>5, <1>6, <1>7, <1>8, RowDone

LEMMA NextKillStep ==
  ASSUME QueueIInv, NextKill
  PROVE  QueueIInv' /\ Grows /\ log'.published = log.published
<1>1. /\ task.op = "loop" /\ UNCHANGED <<store, log, issued, dead>>
  BY DEF NextKill
<1>2. /\ StoreOK(store) /\ Same(store, OnLedger) /\ OnLedger' = OnLedger
      /\ DownIn(store) /\ DownIn(OnLedger) /\ DOMAIN dead = {"mandates", "agents"}
      /\ dead.mandates \subseteq Mandate
      /\ task.purpose \in Purpose /\ task.agent \in SUBSET Agent
      /\ task.rest \in SUBSET Mandate /\ \A a \in task.agent : task.rest \subseteq store.byAgent[a]
  BY <1>1 DEF QueueIInv, LogOK, Behind, DeadOK, TaskOK, OnLedger
<1>3. TaskOK' /\ Behind'
  <2>1. CASE task' = Idle
    BY <1>1, <1>2, <2>1 DEF TaskOK, Behind, Idle
  <2>2. ASSUME NEW m \in task.rest, KilledForGood(m),
               task' = Loop(task.agent, task.purpose, task.rest \ {m}, task.failed)
        PROVE  TaskOK' /\ Behind'
    <3>1. /\ task'.op = "loop" /\ task'.agent = task.agent /\ task'.purpose = task.purpose
          /\ task'.rest = task.rest \ {m}
      BY <2>2 DEF Loop
    <3> QED
      BY <1>1, <1>2, <3>1 DEF TaskOK, Behind
  <2>3. ASSUME NEW m \in task.rest, ~KilledForGood(m),
               task' = Kill(m, task.agent, task.purpose, task.rest \ {m}, task.agent, task.failed)
        PROVE  TaskOK' /\ Behind'
    <3>1. /\ DOMAIN task' = {"op", "mandate", "agent", "purpose", "rest", "whole", "failed"}
          /\ task'.op = "kill" /\ task'.mandate = m /\ task'.agent = task.agent
          /\ task'.purpose = task.purpose /\ task'.rest = task.rest \ {m}
          /\ task'.whole = task.agent
      BY <2>3 DEF Kill
    <3>2. Behind'
      BY <1>1, <1>2, <3>1 DEF Behind
    <3>3. TaskOK'
      BY <1>1, <1>2, <2>3, <3>1 DEF TaskOK, KilledForGood
    <3> QED
      BY <3>2, <3>3
  <2> QED
    BY <2>1, <2>2, <2>3 DEF NextKill
<1>4. DownIn(store)' /\ DownIn(OnLedger)'
  BY <1>1, <1>2 DEF DownIn
<1> QED
  BY <1>1, <1>2, <1>3, <1>4, NoRowYet

LEMMA UnsuspendStep ==
  ASSUME QueueIInv, NEW m \in Mandate, UnsuspendMandate(m)
  PROVE  QueueIInv' /\ Grows /\ log'.published = log.published
<1> DEFINE t == WithRecord(store, m, {})
<1>1. /\ task = Idle /\ store' = t /\ UNCHANGED <<log, issued, dead>>
      /\ {r.purpose : r \in store.record[m]} = {"suspension"}
      /\ task' = [op |-> "lifted", row |-> RowOf("unsuspended", {m}, {}, {}, "suspension")]
  BY DEF UnsuspendMandate, Ready, Liftable, WithRecord
<1>2. /\ StoreOK(store) /\ StoreOK(OnLedger) /\ Same(store, OnLedger) /\ OnLedger' = OnLedger
      /\ DownIn(store) /\ DownIn(OnLedger) /\ DOMAIN dead = {"mandates", "agents"}
      /\ dead.mandates \subseteq Mandate
  BY <1>1 DEF QueueIInv, LogOK, Behind, DeadOK, Idle, OnLedger
<1>3. /\ StoreOK(t) /\ t.index = store.index /\ t.byAgent = store.byAgent
      /\ t.block = store.block
      /\ \A n \in Mandate : n # m => t.record[n] = store.record[n]
  BY <1>2, RecordWritten DEF RecordOK
<1>4. Same(t, Replayed(OnLedger, RowOf("unsuspended", {m}, {}, {}, "suspension")))
  <2>1. Replayed(OnLedger, RowOf("unsuspended", {m}, {}, {}, "suspension")) = WithRecord(OnLedger, m, {})
    BY ReplayedUnsuspended DEF WithRecord
  <2> QED
    BY <1>2, <2>1, SameWrites DEF StoreOK, Fields
<1> HIDE DEF t
<1>5. task'.op = "lifted" /\ task'.row = RowOf("unsuspended", {m}, {}, {}, "suspension")
  BY <1>1
<1>6. TaskOK'
  BY <1>5 DEF TaskOK
<1>7. Behind'
  BY <1>1, <1>2, <1>4, <1>5 DEF Behind
<1>8. DownIn(store)' /\ DownIn(OnLedger)'
  <2>1. m \notin dead.mandates
    BY <1>1, <1>2 DEF DownIn
  <2> QED
    BY <1>1, <1>2, <1>3, <2>1 DEF DownIn
<1> QED
  BY <1>1, <1>2, <1>3, <1>6, <1>7, <1>8, NoRowYet

LEMMA UnblockStep ==
  ASSUME QueueIInv, NEW a \in Agent, UnblockAgent(a)
  PROVE  QueueIInv' /\ Grows /\ log'.published = log.published
<1> DEFINE t == WithBlock(store, a, {})
<1>1. /\ task = Idle /\ store' = t /\ UNCHANGED <<log, issued, dead>>
      /\ store.block[a] = {"suspension"}
      /\ task' = [op |-> "lifted", row |-> RowOf("agent_unblocked", {}, {a}, {}, "suspension")]
  BY DEF UnblockAgent, Ready, Liftable, WithBlock
<1>2. /\ StoreOK(store) /\ StoreOK(OnLedger) /\ Same(store, OnLedger) /\ OnLedger' = OnLedger
      /\ DownIn(store) /\ DownIn(OnLedger) /\ DOMAIN dead = {"mandates", "agents"}
      /\ dead.mandates \subseteq Mandate /\ dead.agents \subseteq Agent
  BY <1>1 DEF QueueIInv, LogOK, Behind, DeadOK, Idle, OnLedger
<1>3. /\ StoreOK(t) /\ t.index = store.index /\ t.byAgent = store.byAgent
      /\ t.record = store.record
      /\ \A b \in Agent : b # a => t.block[b] = store.block[b]
  BY <1>2, BlockWritten
<1>4. Same(t, Replayed(OnLedger, RowOf("agent_unblocked", {}, {a}, {}, "suspension")))
  <2>1. Replayed(OnLedger, RowOf("agent_unblocked", {}, {a}, {}, "suspension")) = WithBlock(OnLedger, a, {})
    <3>1. Replayed(OnLedger, RowOf("agent_unblocked", {}, {a}, {}, "suspension")) =
            [OnLedger EXCEPT !.block[a] = {}]
      BY ReplayedUnblock
    <3> QED
      BY <3>1 DEF WithBlock
  <2> QED
    BY <1>2, <2>1, SameWrites DEF StoreOK, Fields
<1> HIDE DEF t
<1>5. task'.op = "lifted" /\ task'.row = RowOf("agent_unblocked", {}, {a}, {}, "suspension")
  BY <1>1
<1>6. TaskOK'
  BY <1>5 DEF TaskOK
<1>7. Behind'
  BY <1>1, <1>2, <1>4, <1>5 DEF Behind
<1>8. DownIn(store)' /\ DownIn(OnLedger)'
  <2>1. a \notin dead.agents
    BY <1>1, <1>2 DEF DownIn
  <2> QED
    BY <1>1, <1>2, <1>3, <2>1 DEF DownIn
<1> QED
  BY <1>1, <1>2, <1>3, <1>6, <1>7, <1>8, NoRowYet

LEMMA LogLiftStep ==
  ASSUME QueueIInv, ~LostRows, LogLift
  PROVE  QueueIInv' /\ Grows /\ log'.published = log.published
<1>1. /\ task.op = "lifted" /\ task' = Idle /\ UNCHANGED <<store, issued, dead>>
      /\ Lands(task.row) \/ AppendThrows(task.row)
  BY DEF LogLift
<1>2. IsRow(task.row) /\ Same(store, Replayed(OnLedger, task.row))
  BY <1>1, RowsOfTasks DEF QueueIInv, Behind
<1>3. TaskOK' /\ task'.op \in {"none", "loop"}
  BY <1>1 DEF TaskOK, Idle
<1>4. /\ DOMAIN dead' = {"mandates", "agents"} /\ dead'.mandates \subseteq Mandate
      /\ dead'.agents \subseteq Agent /\ dead' = dead
      /\ \A m \in dead'.mandates : KilledForGood(m)
      /\ \A a \in dead'.agents : "revocation" \in store.block[a]
  BY <1>1 DEF QueueIInv, DeadOK, DownIn, KilledForGood
<1>5. DOMAIN issued' = Mandate /\ \A m \in Mandate : issued'[m] \in {issued[m], store.index[m]}
  BY <1>1 DEF QueueIInv, IssuedOK
<1> QED
  BY <1>1, <1>2, <1>3, <1>4, <1>5, RowDone

(* A crash falls back to the ledger, with or without the row under way. *)
LEMMA CrashStep ==
  ASSUME QueueIInv, Crash
  PROVE  QueueIInv' /\ Grows
<1>1. /\ log'.rows \in {log.rows, log.rows \o PendingRow} /\ DOMAIN log' = {"rows", "published"}
      /\ store' = Restored(log'.rows) /\ task' = Idle /\ UNCHANGED <<issued, dead>>
  BY DEF Crash
<1>2. /\ StoreOK(OnLedger) /\ log.rows \in Seq(Row) /\ DownIn(store) /\ DownIn(OnLedger)
      /\ \A m \in Mandate : issued[m] \subseteq store.index[m] /\ issued[m] \subseteq OnLedger.index[m]
  BY DEF QueueIInv, LogOK, DeadOK, IssuedOK
<1>3. /\ log'.rows \in Seq(Row) /\ StoreOK(OnLedger)' /\ DownIn(OnLedger')
      /\ \A m \in Mandate : issued[m] \subseteq OnLedger'.index[m]
      /\ \A a \in Agent : OnLedger.byAgent[a] \subseteq OnLedger'.byAgent[a]
  <2>1. CASE log'.rows = log.rows
    <3>1. OnLedger' = OnLedger
      BY <2>1 DEF OnLedger
    <3> QED
      BY <1>2, <2>1, <3>1
  <2>2. ASSUME NEW row, IsRow(row), Same(store, Replayed(OnLedger, row)),
               log'.rows = log.rows \o <<row>>
        PROVE  /\ log'.rows \in Seq(Row) /\ StoreOK(OnLedger)' /\ DownIn(OnLedger')
               /\ \A m \in Mandate : issued[m] \subseteq OnLedger'.index[m]
               /\ \A a \in Agent : OnLedger.byAgent[a] \subseteq OnLedger'.byAgent[a]
    <3> DEFINE t == Restored(Append(log.rows, row))
    <3>1. /\ Append(log.rows, row) \in Seq(Row) /\ StoreOK(t) /\ Same(store, t)
          /\ \A a \in Agent : OnLedger.byAgent[a] \subseteq t.byAgent[a]
      BY <2>2, CaughtUp
    <3>2. row \in Row
      BY <1>2, <2>2, ReplayedLinks
    <3>3. log.rows \o <<row>> = Append(log.rows, row)
      BY <1>2, <3>2
    <3>4. OnLedger' = t
      BY <2>2, <3>3 DEF OnLedger
    <3> HIDE DEF t
    <3>5. DownIn(t) /\ \A m \in Mandate : issued[m] \subseteq t.index[m]
      BY <1>2, <3>1 DEF DownIn, Same
    <3> QED
      BY <2>2, <3>1, <3>3, <3>4, <3>5
  <2>3. \/ PendingRow = <<>>
        \/ task.op = "assign" /\ PendingRow = <<AssignedRow>>
        \/ task.op = "killed" /\ PendingRow = <<KilledRow>>
        \/ task.op = "blocked" /\ PendingRow = <<BlockedRow>>
        \/ task.op = "lifted" /\ PendingRow = <<task.row>>
    BY DEF PendingRow
  <2>4. CASE log'.rows = log.rows \o PendingRow /\ PendingRow = <<>>
    <3>1. log'.rows = log.rows
      BY <1>2, <2>4
    <3> QED
      BY <2>1, <3>1
  <2>5. CASE log'.rows = log.rows \o PendingRow /\ PendingRow # <<>>
    BY <2>2, <2>3, <2>5, RowsOfTasks DEF QueueIInv, Behind
  <2> QED
    BY <1>1, <2>1, <2>4, <2>5
<1>4. store' = OnLedger'
  BY <1>1 DEF OnLedger
<1>5. StoreOK(store)' /\ TaskOK' /\ LogOK' /\ Behind'
  <2>1. Same(store, OnLedger)'
    BY <1>4 DEF Same
  <2>2. Behind' /\ TaskOK'
    BY <1>1, <2>1 DEF Behind, TaskOK, Idle
  <2> QED
    BY <1>1, <1>3, <1>4, <2>2 DEF LogOK
<1>6. DeadOK'
  <2>1. DownIn(OnLedger)'
    BY <1>1, <1>3 DEF DownIn
  <2>2. DownIn(store)'
    BY <1>4, <2>1 DEF DownIn
  <2> QED
    BY <1>1, <2>1, <2>2 DEF QueueIInv, DeadOK
<1>7. IssuedOK'
  BY <1>1, <1>3, <1>4 DEF QueueIInv, IssuedOK
<1>8. Grows
  BY <1>1, <1>3 DEF Grows
<1> QED
  BY <1>5, <1>6, <1>7, <1>8 DEF QueueIInv

-----------------------------------------------------------------------------
(* Lists *)

LEMMA GreatestOf ==
  ASSUME NEW S \in SUBSET (-1..MaxVersion), S # {}
  PROVE  MaxOf(S) \in S /\ \A y \in S : y <= MaxOf(S)
<1> DEFINE T == {MaxVersion - x : x \in S}
<1>1. MaxVersion \in Nat
  BY RevocationAssumption DEF RevocationAssumption
<1>2. T \in SUBSET Nat /\ T # {}
  <2>1. \A x \in S : MaxVersion - x \in Nat
    BY <1>1
  <2>2. T \in SUBSET Nat
    BY <2>1
  <2> QED
    BY <2>2
<1>3. PICK n \in T : \A k \in T : n <= k
  BY <1>2, LeastOf
<1>4. PICK x \in S : n = MaxVersion - x
  BY <1>3
<1>5. \A y \in S : y <= x
  <2> SUFFICES ASSUME NEW y \in S PROVE y <= x
    OBVIOUS
  <2>1. MaxVersion - y \in T
    OBVIOUS
  <2>2. MaxVersion - x <= MaxVersion - y
    BY <1>3, <1>4, <2>1
  <2> QED
    BY <1>1, <2>2
<1> QED
  BY <1>5 DEF MaxOf

LEMMA GreaterOf ==
  ASSUME NEW x \in -1..MaxVersion, NEW y \in -1..MaxVersion
  PROVE  MaxOf({x, y}) \in -1..MaxVersion /\ x <= MaxOf({x, y}) /\ y <= MaxOf({x, y})
BY GreatestOf

Asked == publishes \cup credentials

(* Whatever was asked for is still there, or a step of it with its version.  *)
LEMMA ShownStill ==
  ASSUME KnewOK, \A x \in Asked' : \E y \in Asked : x.version = y.version /\ x.knew = y.knew,
         DeadOnRecord \subseteq DeadOnRecord'
  PROVE  KnewOK'
<1>1. \A x \in Asked' : x.knew \subseteq DeadOnRecord'
  BY DEF KnewOK, Asked
<1>2. ASSUME NEW x \in Asked', NEW y \in Asked', x.version <= y.version
      PROVE  x.knew \subseteq y.knew
  <2>1. PICK u \in Asked : x.version = u.version /\ x.knew = u.knew
    OBVIOUS
  <2>2. PICK v \in Asked : y.version = v.version /\ y.knew = v.knew
    OBVIOUS
  <2> QED
    BY <1>2, <2>1, <2>2 DEF KnewOK, Asked
<1> QED
  BY <1>1, <1>2 DEF KnewOK, Asked

(* What is on record stays, with the one index it was issued. *)
LEMMA RecordGrows ==
  ASSUME QueueIInv, Grows, DOMAIN issued' = Mandate, dead'.agents \subseteq Agent
  PROVE  DeadOnRecord \subseteq DeadOnRecord'
BY DEF QueueIInv, DeadOK, Grows, DeadOnRecord, OnLedger

LEMMA ListsGrow ==
  ASSUME QueueIInv, QueueIInv', Grows, KnewOK, ShownOK, UNCHANGED <<publishes, credentials>>
  PROVE  KnewOK' /\ ShownOK'
<1>1. DeadOnRecord \subseteq DeadOnRecord'
  BY RecordGrows DEF QueueIInv, IssuedOK, DeadOK
<1>2. KnewOK'
  BY <1>1, ShownStill DEF Asked
<1>3. \A x \in Asked : \A m \in x.knew : m \in Mandate /\ issued'[m] = issued[m]
  BY DEF KnewOK, Asked, DeadOnRecord, Grows
<1>4. dead.agents \subseteq Agent /\ dead.agents \subseteq dead'.agents
  BY DEF QueueIInv, DeadOK, Grows
<1>5. ShownOK'
  <2>1. ASSUME NEW p \in publishes, p.purpose = "revocation", p.at = "snapshot", NEW m \in p.knew
        PROVE  issued'[m] \subseteq p.bits \/ \E a \in dead'.agents \cap p.blocked : m \in OnLedger'.byAgent[a]
    <3>1. issued[m] \subseteq p.bits \/ \E a \in dead.agents \cap p.blocked : m \in OnLedger.byAgent[a]
      BY <2>1 DEF ShownOK
    <3>2. issued'[m] = issued[m]
      BY <1>3 DEF Asked
    <3> QED
      BY <1>4, <3>1, <3>2 DEF Grows
  <2>2. ASSUME NEW p \in publishes, p.purpose = "revocation", p.at \in {"signing", "signed"},
               NEW m \in p.knew
        PROVE  issued'[m] \subseteq p.bits
    BY <1>3, <2>2 DEF ShownOK, Asked
  <2>3. ASSUME NEW c \in credentials, c.purpose = "revocation", NEW m \in c.knew
        PROVE  issued'[m] \subseteq c.bits
    BY <1>3, <2>3 DEF ShownOK, Asked
  <2> QED
    BY <2>1, <2>2, <2>3 DEF ShownOK
<1> QED
  BY <1>2, <1>5

LEMMA QueueMoves ==
  ASSUME RegistryIInv, ~LostRows, QueueNext
  PROVE  RegistryIInv'
<1> USE DEF RegistryIInv
<1>1. CASE Crash
  <2>1. QueueIInv' /\ Grows
    BY <1>1, CrashStep
  <2>2. /\ publishes' = {} /\ check' = NoCheck /\ UNCHANGED <<paid, credentials>>
        /\ lastPublished' = log.published
        /\ log'.published \in {log.published} \cup {MaxOf({log.published, p.version}) :
                                 p \in {p \in publishes : p.at = "signed"}}
    <3>1. PICK rows \in {log.rows, log.rows \o PendingRow},
               v \in {log.published} \cup {MaxOf({log.published, p.version}) :
                                            p \in {p \in publishes : p.at = "signed"}} :
                 log' = [rows |-> rows, published |-> v]
      BY <1>1 DEF Crash
    <3>2. log'.published = v
      BY <3>1
    <3> QED
      BY <1>1, <3>1, <3>2 DEF Crash
  <2>3. CheckOK'
    BY <2>2 DEF CheckOK, NoCheck
  <2>4. log.published \in -1..MaxVersion /\ \A p \in publishes : p.version \in -1..MaxVersion
    BY RevocationAssumption DEF VersionsOK, Version, RevocationAssumption
  <2>5. log'.published \in -1..MaxVersion /\ log.published <= log'.published
    <3>1. \A p \in publishes : /\ MaxOf({log.published, p.version}) \in -1..MaxVersion
                              /\ log.published <= MaxOf({log.published, p.version})
      BY <2>4, GreaterOf
    <3>2. \/ log'.published = log.published
          \/ \E p \in publishes : log'.published = MaxOf({log.published, p.version})
      BY <2>2
    <3>3. CASE log'.published = log.published
      BY <2>4, <3>3
    <3>4. ASSUME NEW p \in publishes, log'.published = MaxOf({log.published, p.version})
          PROVE  log'.published \in -1..MaxVersion /\ log.published <= log'.published
      BY <3>1, <3>4
    <3> QED
      BY <3>2, <3>3, <3>4
  <2>6. VersionsOK'
    BY <2>2, <2>4, <2>5 DEF VersionsOK, Version
  <2>7. DeadOnRecord \subseteq DeadOnRecord'
    BY <2>1, RecordGrows DEF QueueIInv, IssuedOK, DeadOK
  <2>8. KnewOK'
    BY <2>2, <2>7, ShownStill DEF Asked
  <2>9. ShownOK'
    <3>1. ASSUME NEW c \in credentials, c.purpose = "revocation", NEW m \in c.knew
          PROVE  issued'[m] \subseteq c.bits
      <4>1. m \in Mandate /\ issued[m] # {}
        BY DEF KnewOK, DeadOnRecord
      <4> QED
        BY <2>1, <3>1, <4>1 DEF Grows, ShownOK
    <3> QED
      BY <2>2, <3>1 DEF ShownOK
  <2> QED
    BY <2>1, <2>3, <2>6, <2>8, <2>9
<1>2. CASE ~Crash
  <2>1. QueueIInv' /\ Grows /\ log'.published = log.published
    BY <1>2, AssignStep, RecordAssignmentStep, RevokeMandateStep, AllocateForKillStep, RecordKillStep,
       LogKillStep, RevokeAgentStep, LogBlockStep, NextKillStep, UnsuspendStep, UnblockStep,
       LogLiftStep DEF QueueNext, QueueStep
  <2>2. UNCHANGED <<lastPublished, publishes, credentials, check, paid>>
    BY <1>2 DEF QueueNext, QueueStep, AssignIndex, RecordAssignment, RevokeMandate, AllocateForKill,
                RecordKill, LogKill, RevokeAgent, LogBlock, NextKill, UnsuspendMandate,
                UnblockAgent, LogLift
  <2>3. CheckOK'
    BY <2>1, <2>2 DEF CheckOK, Grows
  <2>4. VersionsOK'
    BY <2>1, <2>2 DEF VersionsOK
  <2>5. KnewOK' /\ ShownOK'
    BY <2>1, <2>2, ListsGrow
  <2> QED
    BY <2>1, <2>3, <2>4, <2>5
<1> QED
  BY <1>1, <1>2

(* A check of the guard reads two fields of the store, one after the other.  *)
LEMMA CheckMoves ==
  ASSUME RegistryIInv, CheckNext
  PROVE  RegistryIInv'
<1> USE DEF RegistryIInv
<1>1. UNCHANGED <<store, log, task, lastPublished, publishes, credentials, issued, dead>>
  BY DEF CheckNext, StartCheck, EndCheck
<1>2. OnLedger' = OnLedger /\ DeadOnRecord' = DeadOnRecord
  BY <1>1 DEF OnLedger, DeadOnRecord
<1>3. QueueIInv' /\ VersionsOK' /\ KnewOK' /\ ShownOK'
  BY <1>1, <1>2 DEF QueueIInv, TaskOK, LogOK, Behind, DeadOK, IssuedOK, VersionsOK, KnewOK, ShownOK,
                    DownIn, KilledForGood, AssignedRow, KilledRow, BlockedRow
<1>4. CheckOK'
  <2>1. ASSUME NEW m \in Mandate, NEW a \in Agent, StartCheck(m, a) PROVE CheckOK'
    <3>1. /\ paid' = paid
          /\ \/ check' = NoCheck
             \/ /\ store.block[a] = {}
                /\ check' = [at |-> "mandate", mandate |-> m,
                             doomed |-> m \in dead.mandates \/ a \in dead.agents]
      BY <2>1 DEF StartCheck
    <3>2. CASE check' = NoCheck
      BY <3>1, <3>2 DEF CheckOK, NoCheck
    <3>3. CASE store.block[a] = {} /\ check' = [at |-> "mandate", mandate |-> m,
                                   doomed |-> m \in dead.mandates \/ a \in dead.agents]
      <4>1. a \notin dead.agents
        BY <3>3 DEF QueueIInv, DeadOK, DownIn
      <4> QED
        BY <1>1, <3>1, <3>3, <4>1 DEF CheckOK
    <3> QED
      BY <3>1, <3>2, <3>3
  <2>2. CASE EndCheck
    <3>1. /\ check.at = "mandate" /\ check' = NoCheck
          /\ paid' = IF store.record[check.mandate] = {} /\ check.doomed
                       THEN paid \cup {check.mandate} ELSE paid
      BY <2>2 DEF EndCheck
    <3>2. check.doomed => store.record[check.mandate] # {}
      BY <3>1 DEF CheckOK, QueueIInv, DeadOK, DownIn
    <3> QED
      BY <3>1, <3>2 DEF CheckOK, NoCheck
  <2> QED
    BY <2>1, <2>2 DEF CheckNext
<1> QED
  BY <1>3, <1>4

-----------------------------------------------------------------------------
(* Publishing, outside the queue *)

(* What a publish leaves of the registry. *)
LEMMA PublishLeaves ==
  ASSUME QueueIInv, CheckOK, UNCHANGED <<store, task, check, issued, dead, paid>>,
         log'.rows = log.rows, DOMAIN log' = DOMAIN log
  PROVE  /\ QueueIInv' /\ CheckOK' /\ OnLedger' = OnLedger /\ DeadOnRecord' = DeadOnRecord
<1>1. OnLedger' = OnLedger
  BY DEF OnLedger
<1>2. DeadOnRecord' = DeadOnRecord
  BY DEF DeadOnRecord
<1>3. QueueIInv' /\ CheckOK'
  BY <1>1 DEF QueueIInv, TaskOK, LogOK, Behind, DeadOK, IssuedOK, CheckOK,
              DownIn, KilledForGood, AssignedRow, KilledRow, BlockedRow
<1> QED
  BY <1>1, <1>2, <1>3

PublishFields == {"at", "version", "purpose", "bits", "blocked", "knew"}

LEMMA PublishBegins ==
  ASSUME RegistryIInv, NEW v \in Version, NEW p \in Purpose, Publish(v, p)
  PROVE  RegistryIInv'
<1> USE DEF RegistryIInv
<1> DEFINE new == [at |-> "reserved", version |-> v, purpose |-> p, bits |-> {}, blocked |-> {},
                   knew |-> DeadOnRecord]
<1>1. /\ v > VersionFloor /\ publishes' = publishes \cup {new}
      /\ UNCHANGED <<store, log, task, lastPublished, credentials, check, issued, dead, paid>>
  BY DEF Publish
<1>2. QueueIInv' /\ CheckOK' /\ OnLedger' = OnLedger /\ DeadOnRecord' = DeadOnRecord
  BY <1>1, PublishLeaves
<1>3. v > lastPublished /\ \A q \in publishes : v > q.version
  <2> DEFINE S == {lastPublished} \cup {q.version : q \in publishes}
  <2>1. S \in SUBSET (-1..MaxVersion) /\ S # {}
    BY RevocationAssumption DEF VersionsOK, Version, RevocationAssumption
  <2>2. MaxOf(S) \in S /\ \A y \in S : y <= MaxOf(S)
    BY <2>1, GreatestOf
  <2>3. v > MaxOf(S)
    BY <1>1 DEF VersionFloor
  <2> HIDE DEF S
  <2>4. ASSUME NEW y \in S PROVE y \in Int /\ y < v
    <3>1. y \in -1..MaxVersion /\ MaxOf(S) \in -1..MaxVersion
      BY <2>1, <2>2
    <3>2. y \in Int /\ MaxOf(S) \in Int /\ v \in Int
      BY <3>1, RevocationAssumption DEF Version, RevocationAssumption
    <3>3. y <= MaxOf(S)
      BY <2>2
    <3> QED
      BY <2>3, <3>2, <3>3
  <2> QED
    BY <2>4 DEF Version, S
<1>4. /\ DOMAIN new = PublishFields /\ new.at = "reserved" /\ new.version = v
      /\ new.purpose = p /\ new.knew = DeadOnRecord
  BY DEF PublishFields
<1> HIDE DEF new
<1>5. \A c \in credentials : v > c.version
  BY <1>3 DEF VersionsOK, Version
<1>6. VersionsOK'
  BY <1>1, <1>3, <1>4, <1>5 DEF VersionsOK, Version, PublishFields
<1>7. KnewOK'
  <2>1. ASSUME NEW x \in publishes' \cup credentials PROVE x.knew \subseteq DeadOnRecord
    BY <1>1, <1>4 DEF KnewOK
  <2>2. ASSUME NEW x \in publishes' \cup credentials, NEW y \in publishes' \cup credentials,
               x.version <= y.version
        PROVE  x.knew \subseteq y.knew
    <3>1. CASE y = new
      BY <1>4, <2>1, <3>1
    <3>2. CASE x = new /\ y # new
      <4>1. y.version < v /\ y.version \in Version
        BY <1>1, <1>3, <1>5, <3>2 DEF VersionsOK
      <4> QED
        BY <1>4, <2>2, <3>2, <4>1 DEF Version
    <3>3. CASE x # new /\ y # new
      BY <1>1, <2>2, <3>3 DEF KnewOK
    <3> QED
      BY <3>1, <3>2, <3>3
  <2> QED
    BY <1>1, <1>2, <2>1, <2>2 DEF KnewOK
<1>8. ShownOK'
  BY <1>1, <1>2, <1>4 DEF ShownOK
<1> QED
  BY <1>2, <1>6, <1>7, <1>8

(* A step of a publish keeps its version and what it knew. *)
LEMMA PublishGoesOn ==
  ASSUME RegistryIInv, NEW p \in publishes, NEW q, Moves(p, q),
         UNCHANGED <<store, log, task, credentials, check, issued, dead, paid>>,
         lastPublished' \in -1..MaxVersion, lastPublished <= lastPublished',
         DOMAIN q = PublishFields, q.at \in {"snapshot", "signing", "signed"},
         q.version = p.version, q.purpose = p.purpose, q.knew = p.knew,
         q.at = "signed" => q.version <= lastPublished',
         p.purpose = "revocation" =>
           /\ q.at = "snapshot" => \A m \in p.knew :
                \/ issued[m] \subseteq q.bits
                \/ \E a \in dead.agents \cap q.blocked : m \in OnLedger.byAgent[a]
           /\ q.at # "snapshot" => \A m \in p.knew : issued[m] \subseteq q.bits
  PROVE  RegistryIInv'
<1> USE DEF RegistryIInv
<1>1. publishes' = (publishes \ {p}) \cup {q}
  BY DEF Moves
<1>2. QueueIInv' /\ CheckOK' /\ OnLedger' = OnLedger /\ DeadOnRecord' = DeadOnRecord
  BY PublishLeaves
<1>3. VersionsOK'
  BY <1>1 DEF VersionsOK, Version, PublishFields
<1>4. KnewOK'
  <2>1. \A x \in Asked' : \E y \in Asked : x.version = y.version /\ x.knew = y.knew
    BY <1>1 DEF Asked
  <2> QED
    BY <1>2, <2>1, ShownStill
<1>5. ShownOK'
  BY <1>1, <1>2 DEF ShownOK
<1> QED
  BY <1>2, <1>3, <1>4, <1>5

(* What the registry shows of those on record. *)
LEMMA OnRecordShows ==
  ASSUME QueueIInv, NEW m \in DeadOnRecord
  PROVE  \/ \E r \in store.record[m] : r.purpose = "revocation" /\ issued[m] \subseteq r.index
         \/ \E a \in dead.agents : m \in OnLedger.byAgent[a] /\ "revocation" \in store.block[a]
<1>1. m \in Mandate /\ issued[m] # {}
  BY DEF DeadOnRecord
<1>2. CASE m \in dead.mandates
  <2>1. PICK r \in store.record[m] : r.purpose = "revocation"
    BY <1>2 DEF QueueIInv, DeadOK, DownIn
  <2>2. r.index = store.index[m]
    BY <1>1, <2>1 DEF QueueIInv, StoreOK, RecordOK
  <2> QED
    BY <1>1, <2>1, <2>2 DEF QueueIInv, IssuedOK
<1>3. CASE m \notin dead.mandates
  BY <1>3 DEF DeadOnRecord, OnLedger, QueueIInv, DeadOK, DownIn
<1> QED
  BY <1>2, <1>3

(* The store is never behind the ledger in its links. *)
LEMMA LinksAhead ==
  ASSUME QueueIInv, NEW a \in Agent
  PROVE  OnLedger.byAgent[a] \subseteq store.byAgent[a]
<1>1. StoreOK(OnLedger) /\ TaskOK
  BY DEF QueueIInv, LogOK
<1>2. ASSUME NEW row, IsRow(row), Same(store, Replayed(OnLedger, row))
      PROVE  OnLedger.byAgent[a] \subseteq store.byAgent[a]
  BY <1>1, <1>2, ReplayedLinks DEF Same
<1>3. CASE task.op = "kill"
  <2>1. task.mandate \in Mandate /\ task.agent \in SUBSET Agent
    BY <1>1, <1>3 DEF TaskOK
  <2>2. OnLedger.byAgent[a] \subseteq Allocated(OnLedger, task.mandate, task.agent).byAgent[a]
    BY <1>1, <2>1, AllocatedStore
  <2> QED
    BY <1>3, <2>2 DEF QueueIInv, Behind, Same
<1>4. CASE task.op \in {"none", "loop"}
  BY <1>4 DEF QueueIInv, Behind, Same
<1>5. CASE task.op \in {"assign", "killed", "blocked", "lifted"}
  BY <1>2, <1>5, RowsOfTasks DEF QueueIInv, Behind
<1> QED
  BY <1>1, <1>3, <1>4, <1>5 DEF TaskOK

LEMMA PublishMoves ==
  ASSUME RegistryIInv, PublishNext
  PROVE  RegistryIInv'
<1> USE DEF RegistryIInv
<1>1. ASSUME NEW v \in Version, NEW p \in Purpose, Publish(v, p) PROVE RegistryIInv'
  BY <1>1, PublishBegins
<1>2. ASSUME NEW p \in publishes, Snapshot(p) PROVE RegistryIInv'
  <2> DEFINE bits == UNION {r.index : r \in {r \in UNION {store.record[m] : m \in Mandate} :
                                              r.purpose = p.purpose}}
             blocked == {a \in Agent : store.block[a] # {}}
             q == [p EXCEPT !.at = "snapshot", !.bits = bits, !.blocked = blocked]
  <2>1. /\ p.at = "reserved" /\ Moves(p, q)
        /\ UNCHANGED <<store, log, task, lastPublished, credentials, check, issued, dead, paid>>
    BY <1>2 DEF Snapshot
  <2>2. /\ DOMAIN q = PublishFields /\ q.at = "snapshot" /\ q.version = p.version
        /\ q.purpose = p.purpose /\ q.knew = p.knew /\ q.bits = bits /\ q.blocked = blocked
    BY DEF VersionsOK, PublishFields
  <2>3. ASSUME p.purpose = "revocation", NEW m \in p.knew
        PROVE  issued[m] \subseteq bits \/ \E a \in dead.agents \cap blocked : m \in OnLedger.byAgent[a]
    <3>1. m \in DeadOnRecord /\ m \in Mandate
      BY DEF KnewOK, DeadOnRecord
    <3>2. CASE \E r \in store.record[m] : r.purpose = "revocation" /\ issued[m] \subseteq r.index
      BY <2>3, <3>1, <3>2
    <3>3. CASE \E a \in dead.agents : m \in OnLedger.byAgent[a] /\ "revocation" \in store.block[a]
      BY <3>3 DEF QueueIInv, DeadOK
    <3> QED
      BY <3>1, <3>2, <3>3, OnRecordShows
  <2>4. lastPublished \in -1..MaxVersion
    BY DEF VersionsOK
  <2> HIDE DEF q, bits, blocked
  <2> QED
    BY <2>1, <2>2, <2>3, <2>4, PublishGoesOn
<1>3. ASSUME NEW p \in publishes, CollectAgents(p) PROVE RegistryIInv'
  <2> DEFINE more == UNION {store.index[m] : m \in UNION {store.byAgent[a] :
                              a \in {a \in p.blocked : p.purpose \in store.block[a]}}}
             q == [p EXCEPT !.at = "signing", !.bits = p.bits \cup more]
  <2>1. /\ p.at = "snapshot" /\ Moves(p, q)
        /\ UNCHANGED <<store, log, task, lastPublished, credentials, check, issued, dead, paid>>
    BY <1>3 DEF CollectAgents
  <2>2. /\ DOMAIN q = PublishFields /\ q.at = "signing" /\ q.version = p.version
        /\ q.purpose = p.purpose /\ q.knew = p.knew /\ q.bits = p.bits \cup more
    BY DEF VersionsOK, PublishFields
  <2>3. ASSUME p.purpose = "revocation", NEW m \in p.knew PROVE issued[m] \subseteq p.bits \cup more
    <3>1. m \in Mandate
      BY DEF KnewOK, DeadOnRecord
    <3>2. CASE issued[m] \subseteq p.bits
      BY <3>2
    <3>3. ASSUME NEW a \in dead.agents \cap p.blocked, m \in OnLedger.byAgent[a]
          PROVE  issued[m] \subseteq more
      <4>1. a \in Agent /\ "revocation" \in store.block[a]
        BY DEF QueueIInv, DeadOK, DownIn
      <4>2. m \in store.byAgent[a]
        BY <3>3, <4>1, LinksAhead
      <4>3. issued[m] \subseteq store.index[m]
        BY <3>1 DEF QueueIInv, IssuedOK
      <4> QED
        BY <2>3, <4>1, <4>2, <4>3
    <3> QED
      BY <2>1, <2>3, <3>2, <3>3 DEF ShownOK
  <2>4. lastPublished \in -1..MaxVersion
    BY DEF VersionsOK
  <2> HIDE DEF q, more
  <2> QED
    BY <2>1, <2>2, <2>3, <2>4, PublishGoesOn
<1>4. ASSUME NEW p \in publishes, SignFails(p) PROVE RegistryIInv'
  <2>1. /\ publishes' = publishes \ {p}
        /\ UNCHANGED <<store, log, task, lastPublished, credentials, check, issued, dead, paid>>
    BY <1>4 DEF SignFails
  <2>2. QueueIInv' /\ CheckOK' /\ OnLedger' = OnLedger /\ DeadOnRecord' = DeadOnRecord
    BY <2>1, PublishLeaves
  <2>3. VersionsOK' /\ ShownOK' /\ KnewOK'
    BY <2>1, <2>2 DEF VersionsOK, ShownOK, KnewOK
  <2> QED
    BY <2>2, <2>3
<1>5. ASSUME NEW p \in publishes, Sign(p) PROVE RegistryIInv'
  <2> DEFINE q == [p EXCEPT !.at = "signed"]
  <2>1. /\ p.at = "signing" /\ Moves(p, q) /\ lastPublished' = MaxOf({lastPublished, p.version})
        /\ UNCHANGED <<store, log, task, credentials, check, issued, dead, paid>>
    BY <1>5 DEF Sign
  <2>2. /\ DOMAIN q = PublishFields /\ q.at = "signed" /\ q.version = p.version
        /\ q.purpose = p.purpose /\ q.knew = p.knew /\ q.bits = p.bits
    BY DEF VersionsOK, PublishFields
  <2>3. lastPublished \in -1..MaxVersion /\ p.version \in -1..MaxVersion
    BY RevocationAssumption DEF VersionsOK, Version, RevocationAssumption
  <2>4. /\ lastPublished' \in -1..MaxVersion /\ lastPublished <= lastPublished'
        /\ p.version <= lastPublished'
    BY <2>1, <2>3, GreaterOf
  <2>5. p.purpose = "revocation" => \A m \in p.knew : issued[m] \subseteq p.bits
    BY <2>1 DEF ShownOK
  <2> HIDE DEF q
  <2> QED
    BY <2>1, <2>2, <2>4, <2>5, PublishGoesOn
<1>6. ASSUME NEW p \in publishes, LogPublish(p) PROVE RegistryIInv'
  <2> DEFINE c == [version |-> p.version, purpose |-> p.purpose, bits |-> p.bits, knew |-> p.knew]
             known == MaxOf({log.published, p.version})
  <2>1. /\ p.at = "signed" /\ publishes' = publishes \ {p}
        /\ \/ log' = [log EXCEPT !.published = known] /\ credentials' = credentials \cup {c}
           \/ log' \in {log, [log EXCEPT !.published = known]} /\ credentials' = credentials
        /\ UNCHANGED <<store, task, lastPublished, check, issued, dead, paid>>
    BY <1>6 DEF LogPublish
  <2>2. /\ known \in -1..MaxVersion /\ log.published <= known /\ p.version <= known
        /\ log.published \in -1..MaxVersion
    <3>1. log.published \in -1..MaxVersion /\ p.version \in -1..MaxVersion
      BY RevocationAssumption DEF VersionsOK, Version, RevocationAssumption
    <3> QED
      BY <3>1, GreaterOf
  <2>3. /\ c.version = p.version /\ c.purpose = p.purpose /\ c.bits = p.bits /\ c.knew = p.knew
        /\ p.version <= lastPublished /\ p.version \in Version
    BY <2>1 DEF VersionsOK
  <2> HIDE DEF c, known
  <2>4. /\ log'.rows = log.rows /\ DOMAIN log' = DOMAIN log
        /\ \/ log'.published = known /\ credentials' = credentials \cup {c}
           \/ log'.published \in {known, log.published} /\ credentials' = credentials
    BY <2>1 DEF QueueIInv, LogOK
  <2>5. QueueIInv' /\ CheckOK' /\ OnLedger' = OnLedger /\ DeadOnRecord' = DeadOnRecord
    BY <2>1, <2>4, PublishLeaves
  <2>6. VersionsOK'
    <3>1. \A x \in credentials : x.version \in Version /\ x.version <= log'.published
      BY <2>2, <2>4 DEF VersionsOK, Version
    <3>2. log'.published \in -1..MaxVersion
      BY <2>2, <2>4
    <3>3. credentials' = credentials \cup {c} => c.version <= log'.published \/ c \in credentials
      BY <2>2, <2>3, <2>4
    <3> QED
      BY <2>1, <2>3, <2>4, <3>1, <3>2, <3>3 DEF VersionsOK, Version
  <2>7. KnewOK'
    <3>1. \A x \in Asked' : \E y \in Asked : x.version = y.version /\ x.knew = y.knew
      BY <2>1, <2>3, <2>4 DEF Asked
    <3> QED
      BY <2>5, <3>1, ShownStill
  <2>8. ShownOK'
    BY <2>1, <2>3, <2>4, <2>5 DEF ShownOK
  <2> QED
    BY <2>5, <2>6, <2>7, <2>8
<1> QED
  BY <1>1, <1>2, <1>3, <1>4, <1>5, <1>6 DEF PublishNext, PublishStep

LEMMA RegistryInitiallyHolds == RegistryInit => RegistryIInv
<1> SUFFICES ASSUME RegistryInit PROVE RegistryIInv
  OBVIOUS
<1>1. OnLedger = EmptyStore
  BY RestoredRows DEF RegistryInit, OnLedger
<1>2. StoreOK(EmptyStore)
  BY RevocationAssumption DEF StoreOK, RecordOK, EmptyStore, RevocationAssumption
<1>3. TaskOK /\ LogOK /\ Behind
  BY <1>1, <1>2 DEF RegistryInit, TaskOK, LogOK, Behind, Same, Idle
<1>4. DeadOK /\ IssuedOK
  BY <1>1 DEF RegistryInit, DeadOK, DownIn, IssuedOK
<1>5. CheckOK /\ VersionsOK /\ KnewOK /\ ShownOK
  BY RevocationAssumption DEF RegistryInit, CheckOK, NoCheck, VersionsOK, KnewOK, ShownOK,
                              RevocationAssumption
<1> QED
  BY <1>2, <1>3, <1>4, <1>5 DEF RegistryInit, RegistryIInv, QueueIInv

LEMMA RegistryStep ==
  ASSUME RegistryIInv, ~LostRows, [RegistryNext]_regVars
  PROVE  RegistryIInv'
<1>1. CASE UNCHANGED regVars
  <2>1. OnLedger' = OnLedger /\ DeadOnRecord' = DeadOnRecord
    BY <1>1 DEF regVars, OnLedger, DeadOnRecord
  <2> QED
    BY <1>1, <2>1 DEF regVars, RegistryIInv, QueueIInv, TaskOK, LogOK, Behind, DeadOK, IssuedOK,
                      CheckOK, VersionsOK, KnewOK, ShownOK, DownIn, KilledForGood,
                      AssignedRow, KilledRow, BlockedRow
<1> QED
  BY <1>1, QueueMoves, PublishMoves, CheckMoves DEF RegistryNext

LEMMA RegistryInvariant ==
  ASSUME ~LostRows
  PROVE  RegistrySpec => []RegistryIInv
<1>1. RegistryInit => RegistryIInv
  BY RegistryInitiallyHolds
<1>2. RegistryIInv /\ [RegistryNext]_regVars => RegistryIInv'
  BY RegistryStep
<1> QED
  BY <1>1, <1>2, PTL DEF RegistrySpec

(* "Nothing spends under a revoked mandate again" (registry.ts, check.ts):   *)
(* a check that began after a permanent kill of its mandate or agent was     *)
(* acknowledged denies, for any mandates, agents, suspensions, lifts, failed *)
(* appends and crashes, as long as no row of the ledger is lost.             *)
THEOREM TheDeadNeverPay ==
  ASSUME ~LostRows
  PROVE  RegistrySpec => []DeadNeverPays
<1>1. RegistryIInv => DeadNeverPays
  BY DEF RegistryIInv, CheckOK, DeadNeverPays
<1> QED
  BY <1>1, RegistryInvariant, PTL

(* What verifiers elsewhere rely on (registry.ts, store.ts): an index that   *)
(* was issued is its mandate's for good, through replays and a full list,    *)
(* and no version is signed twice, however publishes overlap and crash.      *)
THEOREM ListsAreSound ==
  ASSUME ~LostRows
  PROVE  RegistrySpec => []ListsHold
<1>1. RegistryIInv => ListsHold
  <2> SUFFICES ASSUME RegistryIInv PROVE ListsHold
    OBVIOUS
  <2>1. IndexOwned
    BY DEF RegistryIInv, QueueIInv, StoreOK, RecordOK, IssuedOK, IndexOwned
  <2>2. OneListPerVersion
    BY DEF RegistryIInv, VersionsOK, OneListPerVersion
  <2> QED
    BY <2>1, <2>2 DEF ListsHold
<1> QED
  BY <1>1, RegistryInvariant, PTL

-----------------------------------------------------------------------------
(* The verifier: whom it has been warned of is known to the list that set    *)
(* its floor, so to every list it accepts from then on. *)

LEMMA VerifierStep ==
  ASSUME RegistryIInv, VerifierIInv, [StatusListNext]_listVars, RegistryIInv'
  PROVE  VerifierIInv'
<1>1. ASSUME NEW m \in Mandate, NEW c \in credentials, VerifyList(m, c)
      PROVE  VerifierIInv'
  <2>1. PICK i \in issued[m] :
          /\ ~RolledBack(c) /\ Authentic(c) /\ Advance(c, i)
          /\ warned' = warned \cup c.knew
          /\ reinstated' = IF i \notin c.bits THEN reinstated \cup ({m} \cap warned') ELSE reinstated
          /\ credentials' = credentials
    BY <1>1 DEF VerifyList, regVars
  <2>2. floor' = c.version /\ ~(c.version < floor) /\ c.purpose = "revocation"
    BY <2>1 DEF RolledBack, Advance, Authentic
  <2>3. warned \subseteq c.knew
    <3>1. ASSUME NEW d \in credentials, d.version = floor, warned \subseteq d.knew
          PROVE  warned \subseteq c.knew
      <4>1. c.version \in Version /\ d.version \in Version
        BY DEF RegistryIInv, VersionsOK
      <4>2. d.version <= c.version
        BY <2>2, <3>1, <4>1 DEF Version
      <4> QED
        BY <3>1, <4>2 DEF RegistryIInv, KnewOK
    <3> QED
      BY <3>1 DEF VerifierIInv
  <2>4. m \in c.knew => i \in c.bits
    BY <2>2 DEF RegistryIInv, ShownOK
  <2> QED
    BY <2>1, <2>2, <2>3, <2>4 DEF VerifierIInv
<1>2. CASE RegistryNext /\ UNCHANGED checkVars
  <2>1. credentials \subseteq credentials'
    BY <1>2 DEF RegistryNext, QueueNext, QueueStep, AssignIndex, RecordAssignment, RevokeMandate,
                AllocateForKill, RecordKill, LogKill, RevokeAgent, LogBlock, NextKill,
                UnsuspendMandate, UnblockAgent, LogLift, Crash, PublishNext, PublishStep, Publish,
                Snapshot, CollectAgents, SignFails, Sign, LogPublish, CheckNext, StartCheck, EndCheck
  <2> QED
    BY <1>2, <2>1 DEF VerifierIInv, checkVars
<1>3. CASE RestartVerifier
  BY <1>3 DEF RestartVerifier, VerifierIInv, regVars
<1>4. CASE UNCHANGED listVars
  BY <1>4 DEF listVars, VerifierIInv
<1> QED
  BY <1>1, <1>2, <1>3, <1>4 DEF StatusListNext, VerifierNext

(* A verifier (status-list-check.ts) that accepted any list asked for after  *)
(* a permanent kill was acknowledged never allows that mandate again,        *)
(* whatever list it is served, for any overlap of publishes and restarts of  *)
(* both sides, as long as no row of the ledger is lost.                      *)
THEOREM NoListReinstates ==
  ASSUME ~LostRows
  PROVE  StatusListSpec => []NeverReinstated
<1>1. StatusListInit => RegistryIInv /\ VerifierIInv
  BY RegistryInitiallyHolds DEF StatusListInit, VerifierInit, VerifierIInv
<1>2. RegistryIInv /\ VerifierIInv /\ [StatusListNext]_listVars => RegistryIInv' /\ VerifierIInv'
  <2> SUFFICES ASSUME RegistryIInv, VerifierIInv, [StatusListNext]_listVars
               PROVE  RegistryIInv' /\ VerifierIInv'
    OBVIOUS
  <2>1. [RegistryNext]_regVars
    BY DEF StatusListNext, VerifierNext, VerifyList, RestartVerifier, listVars, regVars
  <2>2. RegistryIInv'
    BY <2>1, RegistryStep
  <2> QED
    BY <2>2, VerifierStep
<1>3. VerifierIInv => NeverReinstated
  BY DEF VerifierIInv, NeverReinstated
<1> QED
  BY <1>1, <1>2, <1>3, PTL DEF StatusListSpec

-----------------------------------------------------------------------------
(* The freeze row.  An epoch names one state of the row: what an operator    *)
(* saw with the epoch of now is the row of now. *)

FreezeState == [epoch : Nat, frozen : BOOLEAN]

RowInv ==
  /\ freezeRow = {} \/ \E s \in FreezeState : s.epoch > 0 /\ freezeRow = {s}
  /\ seen \in [Operator -> SUBSET FreezeState]
  /\ \A o \in Operator : \A s \in seen[o] :
       seen[o] = {s} /\ (s.epoch < Loaded.epoch \/ s = Loaded)

LEMMA LoadedIsTheRow ==
  ASSUME RowInv
  PROVE  /\ Loaded \in FreezeState
         /\ freezeRow # {} => freezeRow = {Loaded}
BY DEF RowInv, Loaded, FreezeState, Unfrozen

(* A write moves the epoch on by one. *)
LEMMA WriteMovesOn ==
  ASSUME RowInv, NEW f \in BOOLEAN,
         freezeRow' = {[epoch |-> Loaded.epoch + 1, frozen |-> f]}
  PROVE  /\ Loaded' = [epoch |-> Loaded.epoch + 1, frozen |-> f]
         /\ Loaded' \in FreezeState /\ Loaded'.epoch > Loaded.epoch
         /\ \E s \in FreezeState : s.epoch > 0 /\ freezeRow' = {s}
<1> DEFINE row == [epoch |-> Loaded.epoch + 1, frozen |-> f]
<1>1. Loaded.epoch \in Nat BY LoadedIsTheRow DEF FreezeState
<1>2. row \in FreezeState /\ row.epoch = Loaded.epoch + 1 BY <1>1 DEF FreezeState
<1>3. Loaded' = row BY DEF Loaded
<1>4. row.epoch > 0 /\ row.epoch > Loaded.epoch BY <1>1, <1>2
<1>5. QED BY <1>2, <1>3, <1>4

LEMMA RowInvStep ==
  ASSUME RowInv, [FreezeStoreNext]_freezeRowVars
  PROVE  RowInv'
<1>1. ASSUME NEW o \in Operator, ReadRow(o) PROVE RowInv'
  <2>1. freezeRow' = freezeRow /\ Loaded' = Loaded /\ seen' = [seen EXCEPT ![o] = {Loaded}]
    BY <1>1 DEF ReadRow, Loaded
  <2>2. Loaded \in FreezeState BY LoadedIsTheRow
  <2>3. QED BY <2>1, <2>2 DEF RowInv
<1>2. ASSUME NEW o \in Operator, FreezeRow(o) PROVE RowInv'
  <2>1. /\ freezeRow' = {[epoch |-> Loaded.epoch + 1, frozen |-> TRUE]}
        /\ seen' = [seen EXCEPT ![o] = freezeRow']
    BY <1>2 DEF FreezeRow
  <2>2. /\ freezeRow' = {Loaded'} /\ Loaded' \in FreezeState
        /\ Loaded'.epoch > Loaded.epoch
        /\ \E s \in FreezeState : s.epoch > 0 /\ freezeRow' = {s}
    BY <2>1, WriteMovesOn
  <2>3. Loaded.epoch \in Nat /\ Loaded'.epoch \in Nat
    BY <2>2, LoadedIsTheRow DEF FreezeState
  <2>4. ASSUME NEW p \in Operator, NEW s \in seen'[p]
        PROVE  seen'[p] = {s} /\ (s.epoch < Loaded'.epoch \/ s = Loaded')
    <3>1. CASE p = o BY <2>1, <2>2, <2>4, <3>1 DEF RowInv
    <3>2. CASE p # o
      <4>1. s \in seen[p] /\ seen'[p] = seen[p] BY <2>1, <2>4, <3>2 DEF RowInv
      <4>2. s \in FreezeState /\ s.epoch \in Nat BY <4>1 DEF RowInv, FreezeState
      <4>3. s.epoch <= Loaded.epoch BY <2>3, <4>1, <4>2 DEF RowInv
      <4>4. s.epoch < Loaded'.epoch BY <2>2, <2>3, <4>2, <4>3
      <4>5. QED BY <4>1, <4>4 DEF RowInv
    <3>3. QED BY <3>1, <3>2
  <2>5. seen' \in [Operator -> SUBSET FreezeState] BY <2>1, <2>2 DEF RowInv
  <2>6. QED BY <2>2, <2>4, <2>5 DEF RowInv
<1>3. ASSUME NEW f \in BOOLEAN, seen' = seen,
             freezeRow' = {[epoch |-> Loaded.epoch + 1, frozen |-> f]}
      PROVE  RowInv'
  <2>1. /\ Loaded' \in FreezeState /\ Loaded'.epoch > Loaded.epoch
        /\ \E s \in FreezeState : s.epoch > 0 /\ freezeRow' = {s}
    BY <1>3, WriteMovesOn
  <2>2. Loaded.epoch \in Nat /\ Loaded'.epoch \in Nat
    BY <2>1, LoadedIsTheRow DEF FreezeState
  <2>3. ASSUME NEW p \in Operator, NEW s \in seen[p]
        PROVE  seen[p] = {s} /\ s.epoch < Loaded'.epoch
    <3>1. s \in FreezeState /\ s.epoch \in Nat BY <2>3 DEF RowInv, FreezeState
    <3>2. s.epoch <= Loaded.epoch BY <2>2, <2>3, <3>1 DEF RowInv
    <3>3. QED BY <2>1, <2>2, <2>3, <3>1, <3>2 DEF RowInv
  <2>4. QED BY <1>3, <2>1, <2>3 DEF RowInv
<1>4. ASSUME UNCHANGED <<freezeRow, seen>> PROVE RowInv'
  BY <1>4 DEF RowInv, Loaded
<1>5. ASSUME NEW o \in Operator, UnfreezeRow(o) PROVE RowInv'
  BY <1>3, <1>5 DEF UnfreezeRow
<1>6. ASSUME NEW o \in Operator, UpdateNothing(o) PROVE RowInv'
  BY <1>4, <1>6 DEF UpdateNothing
<1>7. ASSUME NEW o \in Operator, InsertUnfrozen(o) PROVE RowInv'
  <2>1. CASE freezeRow = {} /\ MaxEpoch > 0
    <3>1. Loaded.epoch + 1 = 1 BY <2>1 DEF Loaded, Unfrozen
    <3>2. freezeRow' = {[epoch |-> Loaded.epoch + 1, frozen |-> FALSE]} /\ seen' = seen
      BY <1>7, <2>1, <3>1 DEF InsertUnfrozen
    <3>3. QED BY <1>3, <3>2
  <2>2. CASE ~(freezeRow = {} /\ MaxEpoch > 0)
    BY <1>4, <1>7, <2>2 DEF InsertUnfrozen
  <2>3. QED BY <2>1, <2>2
<1>8. QED
  BY <1>1, <1>2, <1>4, <1>5, <1>6, <1>7 DEF FreezeStoreNext, freezeRowVars

(* An unfreeze() that lifts a freeze comes from an operator whose last look  *)
(* is that very freeze, for every number of operators and epochs. *)
THEOREM LiftsOnlyWhatWasSeen == FreezeStoreSpec => LiftsWhatWasSeen
<1>1. FreezeStoreInit => RowInv
  BY DEF FreezeStoreInit, RowInv
<1>2. ASSUME RowInv, [FreezeStoreNext]_freezeRowVars,
             \E s \in freezeRow : s.frozen, \E s \in freezeRow' : ~s.frozen
      PROVE  \E o \in lifter' : seen[o] = freezeRow
  <2>1. freezeRow # {} /\ freezeRow = {Loaded} /\ Loaded.frozen
    BY <1>2, LoadedIsTheRow
  <2>2. freezeRow' # freezeRow
    BY <1>2, <2>1
  <2>3. PICK o \in Operator : FreezeRow(o) \/ UnfreezeRow(o) \/ InsertUnfrozen(o)
    BY <1>2, <2>2 DEF FreezeStoreNext, freezeRowVars, ReadRow, UpdateNothing
  <2>4. ~FreezeRow(o)
    <3>1. ASSUME FreezeRow(o) PROVE FALSE BY <1>2, <3>1 DEF FreezeRow
    <3>2. QED BY <3>1
  <2>5. ~InsertUnfrozen(o) BY <2>1, <2>2 DEF InsertUnfrozen
  <2>6. lifter' = {o} /\ \E s \in seen[o] : Lift(o, s)
    BY <2>3, <2>4, <2>5 DEF UnfreezeRow
  <2>7. PICK s \in seen[o] : s.epoch = Loaded.epoch
    BY <2>6 DEF Lift
  <2>8. seen[o] = {s} /\ s.epoch \in Nat /\ (s.epoch < Loaded.epoch \/ s = Loaded)
    BY <1>2, <2>7 DEF RowInv, FreezeState
  <2>9. s = Loaded BY <2>7, <2>8
  <2>10. QED BY <2>1, <2>6, <2>8, <2>9
<1>3. QED
  BY <1>1, <1>2, RowInvStep, PTL DEF FreezeStoreSpec, LiftsWhatWasSeen
=============================================================================
