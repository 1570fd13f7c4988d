--------------------------------- MODULE Notes ---------------------------------
(***************************************************************************)
(* src/checkpoint.rs: checkpoints, signed notes and their keys, as text;   *)
(* and scripts/verify_bundle.py, which reads the same notes by its own     *)
(* code.                                                                   *)
(*                                                                         *)
(* A text is what split('\n') makes of it: a sequence of lines, the last   *)
(* one Blank when the text ends in a newline.  A line is a tuple that      *)
(* begins with what it looks like.  The sizes in bytes are left out, but   *)
(* for the number of parts of a signature.                                 *)
(***************************************************************************)
EXTENDS Digests

CONSTANTS
  Checkpoints,             \* that are signed
  Seeds,                   \* a seed is also its public key
  LogName,                 \* the name of the log's key, which has the first seed
  LogSeed,
  WitnessNames,            \* each witness may use any seed, the log's too
  KeyHash(_, _, _),        \* four bytes of SHA-256(name, algorithm, public key)
  Times,                   \* times that are given to a witness
  MaxCosignatureTime,      \* MAX_COSIGNATURE_TIME
  MaxNoteSignatures,       \* MAX_SIGNATURES
  MaxNoteEvents            \* bound: signatures made, and lines changed, which count twice

VARIABLES
  noteText,   \* the note as it is stored
  signed,     \* history: the notes that the log signed, as they were rendered
  witnessed,  \* history: who cosigned what text, and when
  rewrites    \* how many times the stored note was changed

notesVars == <<noteText, signed, witnessed, rewrites>>

-----------------------------------------------------------------------------
\* Lines.  A number or an encoding may be written in another than the canonical way.

Blank == <<>>
Control == <<"control">>
Word(w) == <<"word", w>>
Decimal(n, canonical) == <<"decimal", n, canonical>>
Base64(bytes, canonical) == <<"base64", bytes, canonical>>
TimeLine(t) == <<"time", t>>
SignatureLine(sig) == <<"signature", sig.name, sig.hash, sig.bytes>>

IsValidLine(line) == line \notin {Blank, Control}

-----------------------------------------------------------------------------
\* Checkpoints.

Checkpoint(origin, size, root, extensions) ==
  [origin |-> origin, size |-> size, root |-> root, extensions |-> extensions]

Body(c) ==
  <<c.origin, Decimal(c.size, TRUE), Base64(c.root, TRUE)>> \o c.extensions \o <<Blank>>

\* Mutant of ParseCheckpoint: the size is not looked at before it is parsed.
ParseCheckpointLax(text) ==
  LET lines == Front(text)
  IN  IF /\ Last(text) = Blank /\ Len(lines) >= 3
         /\ IsValidLine(lines[1])
         /\ lines[2] # Blank /\ lines[2][1] \in {"decimal", "time"}
         /\ lines[3] # Blank /\ lines[3][1] = "base64" /\ lines[3][3]
         /\ \A i \in 4..Len(lines) : IsValidLine(lines[i])
      THEN Checkpoint(lines[1], lines[2][2], lines[3][2], SubSeq(lines, 4, Len(lines)))
      ELSE None

ParseCheckpoint(text) ==
  LET lines == Front(text)
  IN  IF /\ Last(text) = Blank /\ Len(lines) >= 3
         /\ IsValidLine(lines[1])
         /\ lines[2] # Blank /\ lines[2][1] = "decimal" /\ lines[2][3]
         /\ lines[3] # Blank /\ lines[3][1] = "base64" /\ lines[3][3]
         /\ \A i \in 4..Len(lines) : IsValidLine(lines[i])
      THEN Checkpoint(lines[1], lines[2][2], lines[3][2], SubSeq(lines, 4, Len(lines)))
      ELSE None

-----------------------------------------------------------------------------
\* Notes: a text and signatures.

SignedNote(text, sigs) == [text |-> text, sigs |-> sigs]

Render(note) ==
  Front(note.text) \o <<Blank>>
    \o [i \in DOMAIN note.sigs |-> SignatureLine(note.sigs[i])] \o <<Blank>>

\* The last blank line that is neither the first nor the last piece, 0 without one.
LastBlank(text) == Max({0} \cup {i \in 2..(Len(text) - 1) : text[i] = Blank})

\* NoteSignature::parse_line.
IsSignatureLine(line) == line # Blank /\ line[1] = "signature"
ParseLine(line) == [name |-> line[2], hash |-> line[3], bytes |-> line[4]]

SameKey(s, t) == s.name = t.name /\ s.hash = t.hash

\* SignedNote::parse, None for an error.
ParseNote(text) ==
  LET i == LastBlank(text)
      block == SubSeq(text, i + 1, Len(text))
      lines == Front(block)
      sigs == [n \in DOMAIN lines |-> ParseLine(lines[n])]
  IN  IF /\ \A n \in DOMAIN text : text[n] # Control
         /\ i > 0
         /\ i > 2 => text[i - 1] # Blank
         /\ Last(block) = Blank /\ Len(block) > 1
         /\ Len(lines) <= MaxNoteSignatures
         /\ \A n \in DOMAIN lines : IsSignatureLine(lines[n])
         /\ \A n, m \in DOMAIN sigs : SameKey(sigs[n], sigs[m]) => n = m
      THEN SignedNote(SubSeq(text, 1, i - 1) \o <<Blank>>, sigs)
      ELSE None

\* SignedNote::add_signature, None for an error.
AddSignature(note, sig) ==
  IF /\ \A n \in DOMAIN note.sigs : ~SameKey(note.sigs[n], sig)
     /\ Len(note.sigs) < MaxNoteSignatures
  THEN [note EXCEPT !.sigs = Append(@, sig)] ELSE None

-----------------------------------------------------------------------------
\* Keys.  Algorithm 1 signs notes, algorithm 4 cosigns them.

Verifier(name, alg, public) ==
  [name |-> name, alg |-> alg, public |-> public, hash |-> KeyHash(name, alg, public)]

\* NoteVerifier::parse of the text of a key.
IsVerifier(v) == v.alg \in {1, 4} /\ v.hash = KeyHash(v.name, v.alg, v.public)

\* parse_skey: a witness may use a key that was made to sign notes.
SignerFor(role, skey) ==
  IF role = "log" THEN IF skey.alg = 1 THEN Verifier(skey.name, 1, skey.seed) ELSE None
  ELSE IF skey.alg \in {1, 4} THEN Verifier(skey.name, 4, skey.seed) ELSE None

Ed25519(seed, message) == [seed |-> seed, message |-> message]
VerifyStrict(public, message, bytes) == bytes = Ed25519(public, message)

MayCosign(time, text) == time \in 1..MaxCosignatureTime /\ Len(text) >= 4
CosignatureMessage(time, text) == <<Word("cosignature/v1"), TimeLine(time)>> \o text

\* LogSigner::sign.
SignNote(signer, c) ==
  SignedNote(Body(c), <<[name |-> signer.name, hash |-> signer.hash,
                   bytes |-> <<Ed25519(signer.public, Body(c))>>]>>)

\* WitnessSigner::cosign: the time, then the signature.
CosignText(signer, text, time) ==
  [name |-> signer.name, hash |-> signer.hash,
   bytes |-> <<time, Ed25519(signer.public, CosignatureMessage(time, text))>>]

\* signature_from: the first line with the name and the hash of the key, None without one.
SignatureFrom(sigs, key) ==
  LET mine == {n \in DOMAIN sigs : SameKey(sigs[n], key)}
  IN  IF mine = {} THEN None ELSE sigs[Min(mine)]

VerifyNote(note, key) ==
  LET sig == SignatureFrom(note.sigs, key)
  IN  /\ key.alg = 1 /\ sig # None
      /\ Len(sig.bytes) = 1 /\ VerifyStrict(key.public, note.text, sig.bytes[1])

\* cosignature_time, None for an error.
CosignatureTime(note, key) ==
  LET sig == SignatureFrom(note.sigs, key)
  IN  IF /\ key.alg = 4 /\ sig # None
         /\ Len(sig.bytes) = 2 /\ MayCosign(sig.bytes[1], note.text)
         /\ VerifyStrict(key.public, CosignatureMessage(sig.bytes[1], note.text), sig.bytes[2])
      THEN sig.bytes[1] ELSE None

\* The note with the key's signature alone: the bytes to timestamp.
SignedByKey(note, key) == Render(SignedNote(note.text, <<SignatureFrom(note.sigs, key)>>))

-----------------------------------------------------------------------------
\* verify_bundle.py.

\* parse_note: no limit, no search for two lines of one key or for control characters.
ScriptParseNote(text) ==
  LET i == LastBlank(text)
      lines == SubSeq(text, i + 1, Len(text) - 1)
  IN  IF i > 0 /\ i < Len(text) - 1 /\ Last(text) = Blank /\ \A n \in DOMAIN lines : IsSignatureLine(lines[n])
      THEN SignedNote(SubSeq(text, 1, i - 1) \o <<Blank>>, [n \in DOMAIN lines |-> ParseLine(lines[n])])
      ELSE None

ScriptCheckLog(note, key) ==
  LET found == SignatureFrom(note.sigs, key)
  IN  found # None /\ key.alg = 1
        /\ Len(found.bytes) = 1 /\ VerifyStrict(key.public, note.text, found.bytes[1])

\* cosigned_at does not count the lines of the text.
ScriptCosignedAt(text, bytes, key) ==
  IF /\ Len(bytes) = 2 /\ bytes[1] \in 1..MaxCosignatureTime
     /\ VerifyStrict(key.public, CosignatureMessage(bytes[1], text), bytes[2])
  THEN bytes[1] ELSE None

ScriptCheckWitness(note, key) ==
  LET cosig == SignatureFrom(note.sigs, key)
  IN  IF cosig # None /\ key.alg = 4 THEN ScriptCosignedAt(note.text, cosig.bytes, key) ELSE None

\* verify, without the log and the files of the timestamps: size and root must at least decode.
ScriptVerify(text, logKey, witnessKeys) ==
  LET note == ScriptParseNote(text)
  IN  /\ note # None /\ Len(note.text) >= 4
      /\ note.text[2] # Blank /\ note.text[2][1] = "decimal"
      /\ note.text[3] # Blank /\ note.text[3][1] = "base64"
      /\ ScriptCheckLog(note, logKey)
      /\ \A w \in witnessKeys : ScriptCheckWitness(note, w) # None

-----------------------------------------------------------------------------
\* The log, the witnesses and the file.

LogKey1 == Verifier(LogName, 1, LogSeed)
Skeys == [name : WitnessNames, alg : {1, 4}, seed : Seeds]

SignCheckpoint(c) ==
  LET note == SignNote(SignerFor("log", [name |-> LogName, alg |-> 1, seed |-> LogSeed]), c)
  IN  /\ rewrites = 0 /\ witnessed = {} /\ Cardinality(signed) < 2
      /\ noteText' = Render(note)
      /\ signed' = signed \cup {Render(note)}
      /\ UNCHANGED <<witnessed, rewrites>>

\* A witness cosigns what the log signed, Witness::add_checkpoint, and adds its line.
CosignNote(skey, time) ==
  LET note == ParseNote(noteText)
      signer == SignerFor("witness", skey)
      next == AddSignature(note, CosignText(signer, note.text, time))
  IN  /\ noteText # None
      /\ Cardinality(signed) + Cardinality(witnessed) + 2 * rewrites < MaxNoteEvents
      /\ note # None /\ signer # None
      /\ VerifyNote(note, LogKey1) /\ ParseCheckpoint(note.text) # None
      /\ MayCosign(time, note.text)
      /\ next # None
      /\ noteText' = Render(next)
      /\ witnessed' = witnessed \cup {[key |-> signer, text |-> note.text, time |-> time]}
      /\ UNCHANGED <<signed, rewrites>>

\* What a line may be replaced by, or stand beside: a line of any of the notes, a line written
\* in another way, the lines of a cosignature's message, a signature under another name.
Lines ==
  UNION {ToSet(t) : t \in signed \cup {noteText}}
    \cup {Blank, Control, Word("cosignature/v1")} \cup {TimeLine(t) : t \in Times}
    \cup {Decimal(c.size, FALSE) : c \in Checkpoints}
    \cup {Base64(c.root, FALSE) : c \in Checkpoints}
    \cup {SignatureLine([name |-> k.name, hash |-> k.hash, bytes |-> <<1>> \o ParseLine(l).bytes]) :
            l \in {x \in ToSet(noteText) : IsSignatureLine(x) /\ Len(x[4]) = 1},
            k \in {LogKey1} \cup {Verifier(w, 4, LogSeed) : w \in WitnessNames}}

\* What a witness signed, as the text of a note, with the signature, the time left off, on a line
\* of the log's key.
MessageAsNote(w) ==
  LET message == CosignatureMessage(w.time, w.text)
  IN  SignedNote(message, <<[name |-> LogName, hash |-> LogKey1.hash,
                             bytes |-> <<Ed25519(w.key.public, message)>>]>>)

RewriteNote ==
  /\ noteText # None
  /\ Cardinality(signed) + Cardinality(witnessed) + 2 * rewrites < MaxNoteEvents
  /\ rewrites' = rewrites + 1
  /\ \/ \E i \in DOMAIN noteText, l \in Lines :
          noteText' \in {[noteText EXCEPT ![i] = l], InsertAt(noteText, i, l)}
     \/ \E i \in DOMAIN noteText : Len(noteText) > 1 /\ noteText' = RemoveAt(noteText, i)
     \/ \E w \in witnessed : noteText' = Render(MessageAsNote(w))
  /\ UNCHANGED <<signed, witnessed>>

NotesInit == noteText = None /\ signed = {} /\ witnessed = {} /\ rewrites = 0

NotesNext ==
  \/ \E c \in Checkpoints : SignCheckpoint(c)
  \/ \E skey \in Skeys, t \in Times : CosignNote(skey, t)
  \/ RewriteNote

-----------------------------------------------------------------------------
\* "The text is the canonical form", checkpoint.rs: a note or a checkpoint that is read is
\* rendered as the same text, so a tree head cannot hash two ways.  A note that verifies under the
\* log's key and parses as a checkpoint has the text of one the log signed, and the bytes to
\* timestamp are that note as the log made it, whatever cosignatures were added; a cosignature
\* gives the time at which that witness cosigned that text.  So it is when a witness signs with the
\* log's own key, and when two keys have the same hash.  Of a note that only verifies less is true:
\* its text may be the message such a witness signed, whose second line is no size, which is what
\* keeps it from being a checkpoint.  The script accepts what the library accepts, and what it
\* accepts was signed.
NotesAreGenuine ==
  noteText # None =>
    LET note == ParseNote(noteText)
        read == ScriptParseNote(noteText)
        witnesses == {v \in [name : WitnessNames, alg : {4}, public : Seeds, hash : {1, 2}] :
                        IsVerifier(v)}
        cosigned(v, text, time) == [key |-> v, text |-> text, time |-> time] \in witnessed
        logSigned(text) == \E t \in signed : ParseNote(t).text = text
    IN  /\ note # None =>
             /\ Render(note) = noteText /\ read = note
             /\ LET c == ParseCheckpoint(note.text) IN c # None => Body(c) = note.text
             /\ VerifyNote(note, LogKey1) =>
                  IF ParseCheckpoint(note.text) # None THEN SignedByKey(note, LogKey1) \in signed
                  ELSE \E w \in witnessed : w.key.public = LogSeed /\ note = MessageAsNote(w)
             /\ \A v \in witnesses :
                  LET time == CosignatureTime(note, v)
                  IN  /\ time # None => cosigned(v, note.text, time) /\ logSigned(note.text)
                      /\ VerifyNote(note, LogKey1) /\ time # None =>
                           ScriptVerify(noteText, LogKey1, {v})
        /\ \A v \in witnesses :
             ScriptVerify(noteText, LogKey1, {v}) =>
               logSigned(read.text) /\ cosigned(v, read.text, ScriptCheckWitness(read, v))
=============================================================================
