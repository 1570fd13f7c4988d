---------------------------------- MODULE Wal ----------------------------------
(***************************************************************************)
(* The hash-chained write-ahead log of src/wal.rs and src/async_wal.rs:    *)
(* writers that open, append, sync and close one file, and the failures    *)
(* they meet: a second writer, a write or sync error, a process that dies, *)
(* a power loss, an append future that is dropped.                         *)
(*                                                                         *)
(* The file is its terminated lines and an unterminated tail.  An entry    *)
(* is written in two pieces, as both writers do: everything up to the      *)
(* closing brace, then the brace with the newline.  A piece written behind *)
(* an unterminated tail makes a line that no reader parses (Garbage).  The *)
(* hash is an uninterpreted function of the previous hash and the data.    *)
(*                                                                         *)
(* The async writer uses tokio's File, which hands a piece to a thread and *)
(* returns: the piece is in flight until that thread has written it or     *)
(* failed.  The next write and flush wait for it and return its error;     *)
(* sync_data waits for it and keeps the error for the next write or flush; *)
(* dropping a future or the File waits for nothing.                        *)
(***************************************************************************)
EXTENDS Naturals, Sequences

CONSTANTS
  Writers,       \* processes that may open the log for writing
  Data,          \* payloads
  MaxSequence,   \* the last sequence number, and a bound on the lines of the file
  Hashes,        \* hash values
  Hash(_, _),    \* compute_hash
  Genesis,       \* the previous hash of the first entry
  Garbage,       \* bytes that are not an entry
  None

Entry == [sequence : 1..MaxSequence, previous : Hashes, data : Data, hash : Hashes]

\* The part of an entry that an unterminated line holds: with its brace or not.
Fragment == [entry : Entry, whole : BOOLEAN]

\* A WalWriter or an AsyncWalWriter (with or without sync_on_append): its head, its
\* poison flag, the piece it writes next, and what has become of the piece before it.
Handle == [sequence : 0..MaxSequence, hash : Hashes, poisoned : BOOLEAN,
           async : BOOLEAN, syncs : BOOLEAN,
           at : {"idle", "body", "end", "sync"}, entry : Entry \cup {None},
           flight : {"none", "body", "end", "failed"}]

ASSUME WalAssumption ==
  /\ MaxSequence \in Nat
  /\ Genesis \in Hashes
  /\ \A h \in Hashes, d \in Data : Hash(h, d) \in Hashes

ASSUME ValuesDiffer ==
  /\ Garbage \notin Entry /\ Garbage \notin Fragment /\ Garbage # None
  /\ None \notin Entry /\ None \notin Fragment /\ None \notin Handle /\ None \notin Writers

VARIABLES
  lines,    \* the terminated lines of the file: entries or Garbage
  tail,     \* what follows the last newline: None, part of an entry, or Garbage
  synced,   \* how much of the file survives a power loss
  lock,     \* the writer that holds the writer lock, or None
  handle,   \* handle[w]: the open WalWriter of w, or None
  stray,    \* a piece of an append is in flight whose writer is gone
  durable,  \* history: the writer's head at the last sync with nothing in flight or failed
  halved    \* history: an append was dropped half way, or a newline was lost

file == <<lines, tail>>
vars == <<file, synced, lock, handle, stray, durable, halved>>

Torn(e) == [entry |-> e, whole |-> FALSE]
Whole(e) == [entry |-> e, whole |-> TRUE]

\* A chain position: sequence number and hash of the last entry.
Start == [sequence |-> 0, hash |-> Genesis]

Init ==
  /\ lines = <<>>
  /\ tail = None
  /\ synced = [lines |-> 0, tail |-> None]
  /\ lock = None
  /\ handle = [w \in Writers |-> None]
  /\ stray = FALSE
  /\ durable = Start
  /\ halved = FALSE

-----------------------------------------------------------------------------
(***************************************************************************)
(* Reading: validate_chain_reader and visit_verified_wal accept a file     *)
(* whose lines are a chain from "genesis"; the last line needs no newline. *)
(***************************************************************************)
Unterminated == tail # None /\ tail # Garbage /\ tail.whole

Entries == IF Unterminated THEN Append(lines, tail.entry) ELSE lines

\* The hash that entry i must name as its previous one.
PreviousHash(es, i) == IF i = 1 THEN Genesis ELSE es[i - 1].hash

Linked(es, i) ==
  /\ es[i] # Garbage
  /\ es[i].sequence = i
  /\ es[i].previous = PreviousHash(es, i)
  /\ es[i].hash = Hash(es[i].previous, es[i].data)

Validates ==
  /\ tail = None \/ Unterminated
  /\ \A i \in 1..Len(Entries) : Entries[i] # Garbage
  /\ \A i \in 1..Len(Entries) : Linked(Entries, i)

HeadOf(es) ==
  [sequence |-> Len(es), hash |-> IF es = <<>> THEN Genesis ELSE es[Len(es)].hash]

\* verify_wal_contains_anchor on a file that validates.
ContainsAnchor(anchor) ==
  \/ anchor = Start
  \/ /\ anchor.sequence \in 1..Len(Entries)
     /\ Entries[anchor.sequence].hash = anchor.hash

-----------------------------------------------------------------------------
(***************************************************************************)
(* Writing.  Only the process that holds the lock has a handle.            *)
(***************************************************************************)
Opened(w) == handle[w] # None

Update(w, h) == handle' = [handle EXCEPT ![w] = h]

\* The pieces of an append, in order; "sync" is the sync_data of sync_on_append.
Writing(w) == Opened(w) /\ handle[w].at \in {"body", "end"}

Idle(w) == Opened(w) /\ handle[w].at = "idle" /\ ~handle[w].poisoned

InFlight(w) == Opened(w) /\ handle[w].flight \in {"body", "end"}

\* A writer that an append or a flush finds with nothing in flight and no error kept.
Accepts(w) == Idle(w) /\ handle[w].flight = "none"

OpenHandle(async, syncs) ==
  [sequence |-> HeadOf(Entries).sequence, hash |-> HeadOf(Entries).hash, poisoned |-> FALSE,
   async |-> async, syncs |-> syncs, at |-> "idle", entry |-> None, flight |-> "none"]

\* WalWriter::open_inner takes the lock and validates the whole chain, or fails.
Open(w) ==
  /\ ~Opened(w)
  /\ lock = None
  /\ Validates
  /\ lock' = w
  /\ Update(w, OpenHandle(FALSE, FALSE))
  /\ UNCHANGED <<file, synced, stray, durable, halved>>

\* AsyncWalWriter::open_inner does the same, with or without a sync at every append.
OpenAsync(w, syncs) ==
  /\ ~Opened(w)
  /\ lock = None
  /\ Validates
  /\ lock' = w
  /\ Update(w, OpenHandle(TRUE, syncs))
  /\ UNCHANGED <<file, synced, stray, durable, halved>>

\* A slip of the translation: the head moves before the entry is written.
AppendBeginEarly(w, d) ==
  LET h == handle[w]
  IN  /\ Accepts(w)
      /\ h.sequence < MaxSequence
      /\ Len(lines) < MaxSequence
      /\ Update(w, [h EXCEPT !.at = "body",
                             !.sequence = @ + 1,
                             !.hash = Hash(@, d),
                             !.entry = [sequence |-> h.sequence + 1, previous |-> h.hash,
                                        data |-> d, hash |-> Hash(h.hash, d)]])
      /\ UNCHANGED <<file, synced, lock, stray, durable, halved>>

\* append: the entry is built from the writer's own head, not from the file.  Its first write
\* waits for the piece in flight; until then the append has no effect.
AppendBegin(w, d) ==
  LET h == handle[w]
  IN  /\ Accepts(w)
      /\ h.sequence < MaxSequence
      /\ Len(lines) < MaxSequence
      /\ Update(w, [h EXCEPT !.at = "body",
                             !.entry = [sequence |-> h.sequence + 1, previous |-> h.hash,
                                        data |-> d, hash |-> Hash(h.hash, d)]])
      /\ UNCHANGED <<file, synced, lock, stray, durable, halved>>

\* The file once the body of entry e has been written behind its tail.
WithBody(e) == IF tail = None THEN Torn(e) ELSE Garbage

WriteBody(w) ==
  /\ Writing(w)
  /\ handle[w].at = "body"
  /\ IF handle[w].async THEN UNCHANGED tail ELSE tail' = WithBody(handle[w].entry)
  /\ Update(w, [handle[w] EXCEPT !.at = "end",
                                 !.flight = IF handle[w].async THEN "body" ELSE "none"])
  /\ UNCHANGED <<lines, synced, lock, stray, durable, halved>>

\* The head of the chain moves once the entry is written (and synced, if asked).
Acknowledged(h) ==
  [h EXCEPT !.sequence = h.entry.sequence, !.hash = h.entry.hash,
            !.at = "idle", !.entry = None]

\* The closing brace and the newline end the line that the tail has begun.
EndPiece ==
  /\ lines' = Append(lines, IF tail = Garbage THEN Garbage ELSE tail.entry)
  /\ tail' = None

\* The writer once its last piece is written or in flight.
Ended(h) == IF h.syncs THEN [h EXCEPT !.at = "sync"] ELSE Acknowledged(h)

WriteEnd(w) ==
  /\ Writing(w)
  /\ handle[w].at = "end" /\ handle[w].flight = "none"
  /\ IF handle[w].async THEN UNCHANGED file ELSE EndPiece
  /\ Update(w, Ended([handle[w] EXCEPT !.flight = IF handle[w].async THEN "end" ELSE "none"]))
  /\ UNCHANGED <<synced, lock, stray, durable, halved>>

\* The body that writer w has in flight; one that was dropped is never ended.
Body(w) == IF handle[w].entry = None THEN Garbage ELSE WithBody(handle[w].entry)

\* The piece in flight is written.
Lands(w) ==
  /\ InFlight(w)
  /\ IF handle[w].flight = "body" THEN tail' = Body(w) /\ UNCHANGED lines ELSE EndPiece
  /\ Update(w, [handle[w] EXCEPT !.flight = "none"])
  /\ UNCHANGED <<synced, lock, stray, durable, halved>>

\* The body of a dropped append is written after its writer was dropped too.
StrayLands ==
  /\ stray
  /\ tail' = Garbage
  /\ stray' \in BOOLEAN  \* another one may be left
  /\ UNCHANGED <<lines, synced, lock, handle, durable, halved>>

\* sync_data does not report that the piece it waited for was not written.
AppendSync(w) ==
  /\ Opened(w)
  /\ handle[w].at = "sync" /\ ~InFlight(w)
  /\ synced' = [lines |-> Len(lines), tail |-> tail]
  /\ durable' = IF handle[w].flight = "failed" THEN durable
                ELSE [sequence |-> handle[w].entry.sequence, hash |-> handle[w].entry.hash]
  /\ Update(w, Acknowledged(handle[w]))
  /\ UNCHANGED <<file, lock, stray, halved>>

\* The piece that is being written, by the writer itself or in flight.
Underway(w, piece) ==
  IF handle[w].async THEN handle[w].flight = piece ELSE handle[w].at = piece

\* What a piece that was being written may leave in the file: nothing, or a part
\* (the brace of the last piece without its newline included).
Partial(w) ==
  \/ UNCHANGED tail
  \/ Underway(w, "body") /\ tail' = Body(w)
  \/ /\ Underway(w, "end")
     /\ tail' = IF tail = Garbage THEN Garbage ELSE Whole(tail.entry)

\* A line that lost nothing but its newline reads as an entry.
NewlineLost == halved' = (halved \/ Unterminated')

Poisoned(w) ==
  [handle[w] EXCEPT !.poisoned = TRUE, !.at = "idle", !.entry = None, !.flight = "none"]

\* A slip of the translation: the error is returned and the writer goes on.
WriteFailsUnpoisoned(w) ==
  /\ Writing(w)
  /\ IF handle[w].async THEN handle[w].flight = "failed" /\ UNCHANGED tail ELSE Partial(w)
  /\ Update(w, [handle[w] EXCEPT !.at = "idle", !.entry = None, !.flight = "none"])
  /\ NewlineLost
  /\ UNCHANGED <<lines, synced, lock, stray, durable>>

\* A write error poisons the writer; a part of the piece may have been written.  The async
\* writer meets the error of a body when it goes on to the end.
WriteFails(w) ==
  /\ Writing(w)
  /\ IF handle[w].async THEN handle[w].flight = "failed" /\ UNCHANGED tail ELSE Partial(w)
  /\ Update(w, Poisoned(w))
  /\ NewlineLost
  /\ UNCHANGED <<lines, synced, lock, stray, durable>>

\* The thread that writes the piece in flight fails.
FlightFails(w) ==
  /\ InFlight(w)
  /\ Partial(w)
  /\ Update(w, [handle[w] EXCEPT !.flight = "failed"])
  /\ NewlineLost
  /\ UNCHANGED <<lines, synced, lock, stray, durable>>

\* flush_and_sync, and flush followed by sync.
FlushAndSync(w) ==
  /\ Accepts(w)
  /\ synced' = [lines |-> Len(lines), tail |-> tail]
  /\ durable' = [sequence |-> handle[w].sequence, hash |-> handle[w].hash]
  /\ UNCHANGED <<file, lock, handle, stray, halved>>

\* A slip of the translation: only the error is returned.
SyncFailsUnpoisoned(w) ==
  /\ Opened(w)
  /\ handle[w].at = "sync" /\ ~InFlight(w)
  /\ Update(w, [handle[w] EXCEPT !.at = "idle", !.entry = None, !.flight = "none"])
  /\ UNCHANGED <<file, synced, lock, stray, durable, halved>>

\* A flush or a sync fails, or the next append or flush returns the error of the piece before.
SyncFails(w) ==
  /\ Idle(w) \/ (Opened(w) /\ handle[w].at = "sync")
  /\ ~InFlight(w)
  /\ Update(w, Poisoned(w))
  /\ UNCHANGED <<file, synced, lock, stray, durable, halved>>

\* Dropping the writer releases the lock.  An end piece in flight may still be written, and
\* before that nobody can open the log; the body of a dropped append may be written at any time.
Close(w) ==
  /\ Opened(w)
  /\ handle[w].at = "idle"
  /\ IF handle[w].flight = "end" THEN EndPiece \/ (Partial(w) /\ UNCHANGED lines)
     ELSE UNCHANGED file
  /\ stray' = (stray \/ handle[w].flight = "body")
  /\ Update(w, None)
  /\ lock' = IF lock = w THEN None ELSE lock
  /\ NewlineLost
  /\ UNCHANGED <<synced, durable>>

\* The future of an async append is dropped at one of its awaits: the piece in flight stays in
\* flight, and the writer stays usable.
Cancel(w) ==
  /\ Opened(w)
  /\ handle[w].async
  /\ handle[w].at # "idle"
  /\ Update(w, [handle[w] EXCEPT !.at = "idle", !.entry = None])
  /\ halved' = (halved \/ handle[w].at # "body")
  /\ UNCHANGED <<file, synced, lock, stray, durable>>

-----------------------------------------------------------------------------
(***************************************************************************)
(* Crashes (the environment).                                              *)
(***************************************************************************)
\* The writer's process dies; what it has written stays in the file.
ProcessDies(w) ==
  /\ Opened(w)
  /\ Partial(w)
  /\ Update(w, None)
  /\ lock' = IF lock = w THEN None ELSE lock
  /\ NewlineLost
  /\ UNCHANGED <<lines, synced, stray, durable>>

\* What may be left of a line or tail l that has lost its end.
Cuts(l) ==
  {None} \cup (IF l = Garbage THEN {Garbage} ELSE {Torn(l)})
         \cup (IF l # Garbage THEN {Whole(l)} ELSE {})

\* The tails with which a file of k whole lines can survive.
TailsAfter(k) ==
  IF k = synced.lines /\ synced.tail # None THEN {synced.tail} \cup IF k = Len(lines) THEN {tail} ELSE {}
  ELSE IF k < Len(lines) THEN Cuts(lines[k + 1])
  ELSE {None, tail}

\* All that was synced survives, and any prefix of what was written after it.
PowerLoss ==
  /\ \E k \in synced.lines..Len(lines) :
       /\ lines' = SubSeq(lines, 1, k)
       /\ tail' \in TailsAfter(k)
       /\ synced' = [lines |-> k, tail |-> tail']
  /\ lock' = None
  /\ handle' = [w \in Writers |-> None]
  /\ stray' = FALSE
  /\ NewlineLost
  /\ UNCHANGED durable

Next ==
  \/ \E w \in Writers :
       \/ Open(w) \/ WriteBody(w) \/ WriteEnd(w) \/ AppendSync(w) \/ WriteFails(w)
       \/ Lands(w) \/ FlightFails(w)
       \/ FlushAndSync(w) \/ SyncFails(w) \/ Close(w) \/ Cancel(w) \/ ProcessDies(w)
       \/ \E d \in Data : AppendBegin(w, d)
       \/ \E syncs \in BOOLEAN : OpenAsync(w, syncs)
  \/ StrayLands \/ PowerLoss

Spec == Init /\ [][Next]_vars

-----------------------------------------------------------------------------
\* A writer that accepts an append knows the head of the file it appends to:
\* the chain it extends is the one a reader finds, after any errors and crashes,
\* unless an append was dropped half way or a newline was lost.
WriterKnowsHead ==
  ~halved => \A w \in Writers :
    Accepts(w) => Validates /\ HeadOf(Entries) = [sequence |-> handle[w].sequence,
                                                  hash |-> handle[w].hash]

\* Whatever happened, a log that validates while a writer has it open holds every entry
\* that writer has acknowledged, and at most one more: a damaged log is refused, never
\* read as a chain that ends before its writer's head.
AcknowledgedOrRefused ==
  \A w \in Writers :
    Opened(w) /\ Validates =>
      /\ ContainsAnchor([sequence |-> handle[w].sequence, hash |-> handle[w].hash])
      /\ Len(Entries) <= handle[w].sequence + 1

\* The entries up to the head of the last successful sync, of a writer all of whose pieces
\* were written, are readable, linked and at their place, so the log contains an anchor
\* taken after the sync.
SyncedEntriesReadable ==
  /\ durable.sequence <= Len(Entries)
  /\ \A i \in 1..durable.sequence : Linked(Entries, i)
  /\ ContainsAnchor(durable)

\* What a successful sync covered is never lost, whatever fails later, unless an append
\* was dropped half way or a newline was lost.
SyncedEntriesKept == ~halved => SyncedEntriesReadable

\* The comment on wal_sync_on_append: the log is synced after every append, so what such
\* an append acknowledged is in the log.
SyncedAppendsInLog ==
  ~halved => \A w \in Writers :
    Idle(w) /\ handle[w].syncs =>
      ContainsAnchor([sequence |-> handle[w].sequence, hash |-> handle[w].hash])

\* A line that cannot be parsed is only ever the last one: nothing is appended
\* behind the remains of a failed write.
DamageOnlyAtTheEnd == ~halved => \A i \in 1..Len(lines) : lines[i] # Garbage
=============================================================================
