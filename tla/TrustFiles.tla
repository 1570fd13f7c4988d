------------------------------- MODULE TrustFiles -------------------------------
(***************************************************************************)
(* src/bin/calybris_verify/trust.rs, the commands that share files:        *)
(* `witness cosign --append-to` of several witnesses on one note,          *)
(* `checkpoint create` on the same note, and `checkpoint keygen` on one    *)
(* pair of key files.  Each command is a process and may crash between two *)
(* calls to the file system; the operating system then releases its lock.  *)
(*                                                                         *)
(* A note is its text and its signature lines, a line the key that made it.*)
(* A key file holds the process whose seed is in it.  A removal of a file  *)
(* that fails as well is left out.                                         *)
(***************************************************************************)
EXTENDS Digests

CONSTANTS
  Cosigners,      \* processes that run `witness cosign --append-to`
  KeyOf,          \* the witness key each of them was given
  Keygens,        \* processes that run `checkpoint keygen`
  MaxSignatures,  \* MAX_SIGNATURES
  MaxCreates      \* bound: how often create runs

VARIABLES
  note,      \* the note file; its text is 0 while create has truncated it
  created,   \* created[t]: how often create has made the t-th checkpoint
  writing,   \* create holds the truncated file open
  lock,      \* who holds <note>.lock, None when nobody does
  cosigner,  \* each cosign command: where it is, its text, the note it read under the lock,
             \* and, once it is done, how often its checkpoint had been made then
  keygen,    \* each keygen command: where it is
  secret, public   \* the two key files: None, "empty", or whose key they hold

noteVars == <<note, created, writing, lock, cosigner>>
keyVars == <<keygen, secret, public>>

LogLine == "log"
Note(text, sigs) == [text |-> text, sigs |-> sigs]

-----------------------------------------------------------------------------
\* checkpoint create, of a log that has grown or of one that has not: then the text, and the
\* log's line on it, are the same again.  The file is truncated and then written, without the
\* lock and without a look at what is in it.
CreateOpen ==
  /\ FoldSeq(+, 0, created) < MaxCreates /\ ~writing
  /\ \/ created' = Append(created, 1)
     \/ created' = [created EXCEPT ![Len(created)] = @ + 1]
  /\ note' = Note(0, <<>>)
  /\ writing' = TRUE
  /\ UNCHANGED <<lock, cosigner>>

CreateWrite ==
  /\ writing
  /\ note' = Note(Len(created), <<LogLine>>)
  /\ writing' = FALSE
  /\ UNCHANGED <<created, lock, cosigner>>

-----------------------------------------------------------------------------
\* witness cosign.

At(p, at) == cosigner' = [cosigner EXCEPT ![p].at = at]

Unlocked(p) == IF lock = p THEN None ELSE lock

\* Room for a line of this key in the note.
Takes(n, key) == key \notin Range(n.sigs) /\ Len(n.sigs) < MaxSignatures

\* append_target, before the witness signs.
AppendTarget(p, requested) ==
  /\ cosigner[p].at = "start"
  /\ \/ /\ note.text = requested /\ Takes(note, KeyOf[p])
        /\ cosigner' = [cosigner EXCEPT ![p].at = "checked", ![p].text = requested]
     \/ /\ ~(note.text = requested /\ Takes(note, KeyOf[p]))
        /\ At(p, "refused")
  /\ UNCHANGED <<note, created, writing, lock>>

\* Witness::add_checkpoint signs or refuses.
AddCheckpoint(p) ==
  /\ cosigner[p].at = "checked"
  /\ \/ At(p, "signed")
     \/ At(p, "refused")
  /\ UNCHANGED <<note, created, writing, lock>>

LockBeside(p) ==
  /\ cosigner[p].at = "signed"
  /\ lock = None
  /\ lock' = p
  /\ At(p, "locked")
  /\ UNCHANGED <<note, created, writing>>

\* Mutant of ReadAgain: the note that was read before the lock is used.
ReadBefore(p) ==
  /\ cosigner[p].at = "signed"
  /\ note.text = cosigner[p].text /\ Takes(note, KeyOf[p])
  /\ cosigner' = [cosigner EXCEPT ![p].at = "read", ![p].copy = note]
  /\ UNCHANGED <<note, created, writing, lock>>

\* The note is read again under the lock; add_signature refuses a second line of the key.
ReadAgain(p) ==
  /\ cosigner[p].at = "locked"
  /\ \/ /\ note.text = cosigner[p].text /\ Takes(note, KeyOf[p])
        /\ cosigner' = [cosigner EXCEPT ![p].at = "read", ![p].copy = note]
        /\ UNCHANGED lock
     \/ /\ ~(note.text = cosigner[p].text /\ Takes(note, KeyOf[p]))
        /\ At(p, "failed")
        /\ lock' = Unlocked(p)
  /\ UNCHANGED <<note, created, writing>>

\* replace_file renames a new file over the note, and the lock is dropped.  A create that had
\* the old file open goes on writing to a file that no longer has a name.
Replace(p) ==
  /\ cosigner[p].at = "read"
  /\ note' = Note(cosigner[p].copy.text, Append(cosigner[p].copy.sigs, KeyOf[p]))
  /\ writing' = FALSE
  /\ cosigner' = [cosigner EXCEPT ![p].at = "done", ![p].copy = None,
                                  ![p].made = created[cosigner[p].text]]
  /\ lock' = Unlocked(p)
  /\ UNCHANGED created

\* The new file cannot be written, or the process ends.
Abandon(p) ==
  /\ cosigner[p].at \in {"checked", "signed", "locked", "read"}
  /\ cosigner' = [cosigner EXCEPT ![p].at = "failed", ![p].copy = None]
  /\ lock' = Unlocked(p)
  /\ UNCHANGED <<note, created, writing>>

-----------------------------------------------------------------------------
\* checkpoint keygen: write_key_pair.

Step(k, from, to) == keygen[k] = from /\ keygen' = [keygen EXCEPT ![k] = to]

Exists(file) == file # None

\* Neither file may exist.
NeitherExists(k) ==
  /\ \/ ~Exists(secret) /\ ~Exists(public) /\ Step(k, "start", "clear")
     \/ (Exists(secret) \/ Exists(public)) /\ Step(k, "start", "refused")
  /\ UNCHANGED <<secret, public>>

\* write_new_secret: create_new, then write and sync.
CreateSecret(k) ==
  /\ \/ ~Exists(secret) /\ Step(k, "clear", "secret_open") /\ secret' = "empty"
     \/ Exists(secret) /\ Step(k, "clear", "refused") /\ UNCHANGED secret
  /\ UNCHANGED public

FillSecret(k) ==
  /\ \/ Step(k, "secret_open", "secret") /\ secret' = k
     \/ Step(k, "secret_open", "failed") /\ secret' = None
  /\ UNCHANGED public

\* write_new_public; when it fails the secret is removed.
CreatePublic(k) ==
  \/ ~Exists(public) /\ Step(k, "secret", "public_open") /\ public' = "empty" /\ UNCHANGED secret
  \/ Step(k, "secret", "failed") /\ secret' = None /\ UNCHANGED public

FillPublic(k) ==
  \/ Step(k, "public_open", "done") /\ public' = k /\ UNCHANGED secret
  \/ Step(k, "public_open", "failed") /\ public' = None /\ secret' = None

CrashKeygen(k) ==
  /\ keygen[k] \in {"clear", "secret_open", "secret", "public_open"}
  /\ keygen' = [keygen EXCEPT ![k] = "crashed"]
  /\ UNCHANGED <<secret, public>>

-----------------------------------------------------------------------------
FilesInit ==
  /\ note = Note(1, <<LogLine>>) /\ created = <<1>> /\ writing = FALSE /\ lock = None
  /\ cosigner = [p \in Cosigners |-> [at |-> "start", text |-> 0, copy |-> None, made |-> 0]]
  /\ keygen = [k \in Keygens |-> "start"]
  /\ secret = None /\ public = None

NoteNext ==
  \/ CreateOpen \/ CreateWrite
  \/ \E p \in Cosigners :
       \/ \E t \in DOMAIN created : AppendTarget(p, t)
       \/ AddCheckpoint(p) \/ LockBeside(p) \/ ReadAgain(p) \/ Replace(p) \/ Abandon(p)

KeyNext ==
  \E k \in Keygens :
    \/ NeitherExists(k) \/ CreateSecret(k) \/ FillSecret(k)
    \/ CreatePublic(k) \/ FillPublic(k) \/ CrashKeygen(k)

-----------------------------------------------------------------------------
\* "Nobody's cosignature is lost to a later writer", trust.rs append_cosignature, as far as the
\* writers are cosigners: while the note holds the checkpoint a command signed, it holds the line
\* the command reported as appended, once, whoever wrote in between, crashed, or made another
\* checkpoint.  Only `checkpoint create` run again for the same checkpoint takes it away.  "An
\* existing key is never replaced" and "a failed keygen leaves neither file behind",
\* write_key_pair: the pair of the command that succeeded stays, two commands never mix their
\* halves, and one that failed without crashing leaves no file of its own.
FilesAreWhole ==
  /\ IsInjective(note.sigs)
  /\ \A p \in Cosigners :
       cosigner[p].at = "done" /\ note.text = cosigner[p].text =>
         \/ KeyOf[p] \in Range(note.sigs)
         \/ created[note.text] > cosigner[p].made
  /\ \A k \in Keygens : keygen[k] = "done" => secret = k /\ public = k
  /\ {secret, public} \subseteq Keygens => secret = public
  /\ \A k \in Keygens : keygen[k] \in {"failed", "refused"} => k \notin {secret, public}
  /\ (\A k \in Keygens : keygen[k] \in {"failed", "refused"}) => {secret, public} = {None}
=============================================================================
