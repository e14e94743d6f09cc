--------------------------- MODULE CheckpointNote ---------------------------
(***************************************************************************)
(* The signed notes of transparency/src/checkpoint.ts: a checkpoint is     *)
(* written as lines, signed, and read back by whoever witnesses it.        *)
(*                                                                         *)
(* A text is a sequence of characters; a tree size, a base64 root and a    *)
(* base64 signature are one character each.                                *)
(***************************************************************************)
EXTENDS Naturals, FiniteSets, Sequences, SequencesExt

CONSTANTS
  Characters,          \* what texts are made of
  CheckpointInputs,    \* [origin, treeSize, rootHash, extensions] a caller may pass
  KeyNames,            \* names a caller may sign under
  MaxSignatureLines,   \* MAX_SIGNATURE_LINES
  MaxNoteLength,       \* MAX_NOTE_BYTES, in characters
  NoNote

VARIABLES
  signing, note,
  lines, signatures    \* put on the note: lines, and those of them that are signatures

noteVars == <<signing, note, lines, signatures>>

NL == "\n"
Sizes == {"0", "1"}
EmptyTreeRootHex == "empty root"
Roots == {EmptyTreeRootHex, "root"}
Sigs == {"log signature", "cosignature"}   \* keyID and signature, in base64
Junk == "?"                                \* not base64, or too short
Dash == "dash"
Space == " "
JunkLines == {<<Junk>>, <<Dash, Space, Space, Junk>>, <<Dash, Space, "a", Space, Junk>>}

Has(text, char) == \E n \in DOMAIN text : text[n] = char
OneLine(text) == text # <<>> /\ ~Has(text, NL)
AnyLine(text) == ~Has(text, NL)
Line(text) == text \o <<NL>>

-----------------------------------------------------------------------------
(* checkpointBody() and signatureLine(), and what they refuse.              *)

AnyExtension(exts) == \A n \in DOMAIN exts : AnyLine(exts[n])
ExtensionsOk(exts) == \A n \in DOMAIN exts : OneLine(exts[n])

Writable(cp) ==
  OneLine(cp.origin) /\ cp.treeSize \in Sizes /\ cp.rootHash \in Roots /\ ExtensionsOk(cp.extensions)

CheckpointBody(cp) ==
  Line(cp.origin) \o Line(<<cp.treeSize>>) \o Line(<<cp.rootHash>>)
    \o FlattenSeq([n \in DOMAIN cp.extensions |-> Line(cp.extensions[n])])

Prefix == <<Dash, Space>>
SignatureLine(name, sig) == Line(Prefix \o name \o <<Space, sig>>)

(* What a signer that is not in the process is ever handed.                 *)
PrintableBody(body) == ~Has(body, "control")

-----------------------------------------------------------------------------
(* parseNote(): the body ends at the first blank line.                      *)

FirstOf(S) == CHOOSE n \in S : \A m \in S : n <= m
Blank(text) == {n \in 1..Len(text) - 1 : text[n] = NL /\ text[n + 1] = NL}

ReadStep(read, text, n) ==
  LET before == read[n - 1] IN
  IF n = 0 THEN [done |-> <<>>, line |-> <<>>]
  ELSE IF text[n] = NL THEN [done |-> Append(before.done, before.line), line |-> <<>>]
  ELSE [done |-> before.done, line |-> Append(before.line, text[n])]

(* The lines of a text; what follows the last newline counts when nonempty. *)
LinesOfText(text) ==
  LET read[n \in 0..Len(text)] == ReadStep(read, text, n)
      end == read[Len(text)] IN
  IF end.line = <<>> THEN end.done ELSE Append(end.done, end.line)

(* What a line signs: one signature, or none if it is malformed.            *)
SignatureOf(line) ==
  LET rest == SubSeq(line, 3, Len(line))
      spaces == {n \in DOMAIN rest : rest[n] = Space}
      space == FirstOf(spaces)
      payload == SubSeq(rest, space + 1, Len(rest)) IN
  IF Len(line) < 2 \/ SubSeq(line, 1, 2) # Prefix \/ spaces = {} \/ 1 \in spaces
     \/ Len(payload) # 1 \/ payload[1] \notin Sigs
    THEN <<>>
  ELSE << [name |-> SubSeq(rest, 1, space - 1), sig |-> payload[1]] >>

TooLong(text) == Len(text) > MaxNoteLength

ParseNote(text) ==
  LET sep == IF Blank(text) = {} THEN 0 ELSE FirstOf(Blank(text))
      body == SubSeq(text, 1, sep)
      head == LinesOfText(body)
      tail == LinesOfText(SubSeq(text, sep + 2, Len(text)))
      exts == SubSeq(head, 4, Len(head)) IN
  IF TooLong(text) \/ sep = 0 \/ Len(head) < 3 \/ Len(tail) > MaxSignatureLines THEN {}
  ELSE {p \in {[checkpoint |-> [origin |-> head[1], treeSize |-> Head(head[2]),
                                rootHash |-> Head(head[3]), extensions |-> exts],
                body |-> body,
                signatures |-> FlattenSeq([n \in DOMAIN tail |-> SignatureOf(tail[n])])]} :
          /\ head[1] # <<>>
          /\ Len(head[2]) = 1 /\ p.checkpoint.treeSize \in Sizes
          /\ Len(head[3]) = 1 /\ p.checkpoint.rootHash \in Roots
          /\ p.checkpoint.treeSize = "0" => p.checkpoint.rootHash = EmptyTreeRootHex
          /\ ExtensionsOk(exts)}

-----------------------------------------------------------------------------
ASSUME NoteAssumption ==
  /\ {NL, Dash, Space, Junk, "a"} \cup Sizes \cup Roots \cup Sigs \subseteq Characters
  /\ CheckpointInputs \subseteq [origin : Seq(Characters), treeSize : Characters,
                                rootHash : Characters, extensions : Seq(Seq(Characters))]
  /\ KeyNames \subseteq Seq(Characters)
  /\ MaxSignatureLines \in Nat /\ MaxNoteLength \in Nat

NoteInit ==
  /\ signing \in CheckpointInputs
  /\ note = NoNote /\ lines = 0 /\ signatures = <<>>

(* signCheckpoint(), with a key in the process or through a signer.         *)
SignCheckpoint(name, remote) ==
  /\ note = NoNote
  /\ Writable(signing)
  /\ remote => PrintableBody(CheckpointBody(signing))
  /\ OneLine(name) /\ ~Has(name, Space)
  /\ note' = CheckpointBody(signing) \o <<NL>> \o SignatureLine(name, "log signature")
  /\ lines' = 1 /\ signatures' = <<[name |-> name, sig |-> "log signature"]>>
  /\ UNCHANGED signing

Attach(line) ==
  /\ note # NoNote /\ lines <= MaxSignatureLines
  /\ note' = note \o line /\ lines' = lines + 1
  /\ UNCHANGED signing

(* attachCosignatures(); anyone may add a line that is none.                *)
AttachLine(name) ==
  /\ OneLine(name) /\ ~Has(name, Space)
  /\ Attach(SignatureLine(name, "cosignature"))
  /\ signatures' = Append(signatures, [name |-> name, sig |-> "cosignature"])

AttachJunk ==
  /\ \E line \in JunkLines : Attach(Line(line))
  /\ UNCHANGED signatures

NoteNext ==
  \/ \E name \in KeyNames : \E remote \in BOOLEAN : SignCheckpoint(name, remote)
  \/ \E name \in KeyNames : AttachLine(name)
  \/ AttachJunk

NoteSpec == NoteInit /\ [][NoteNext]_noteVars

-----------------------------------------------------------------------------
(* A note reads back as what was signed: the very body the signature is     *)
(* over, the checkpoint the caller passed, and every signature put on it,   *)
(* in order, whatever lines others attach, up to the limits on lines and on *)
(* length and unless it claims an empty tree with another root.             *)
NoteReadsBack ==
  note # NoNote =>
    ParseNote(note) =
      IF TooLong(note) \/ lines > MaxSignatureLines
         \/ (signing.treeSize = "0" /\ signing.rootHash # EmptyTreeRootHex) THEN {}
      ELSE {[checkpoint |-> signing, body |-> CheckpointBody(signing), signatures |-> signatures]}
=============================================================================
