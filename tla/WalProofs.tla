------------------------------- MODULE WalProofs -------------------------------
(***************************************************************************)
(* Durability: the write-ahead log keeps what was synced and what was      *)
(* acknowledged.                                                           *)
(*                                                                         *)
(* The first part is about module Wal, for any writers, payloads, hash     *)
(* function and length, as long as no append has been dropped half way and *)
(* no closing brace has been kept without its newline.  The properties are *)
(* not inductive by themselves: they speak of idle writers and of synced   *)
(* entries.  The invariant follows a writer through the pieces of an       *)
(* append, written or in flight, and adds that every terminated line is    *)
(* linked, which is what a crash cuts back to.                             *)
(*                                                                         *)
(* The second part drops that restriction: whatever was dropped or lost, a *)
(* log that still reads as valid holds every acknowledged append.  Its     *)
(* invariant says where a writer stands in a file whose lines are numbered *)
(* by their place, and nothing of any other file: no reader accepts one.   *)
(***************************************************************************)
EXTENDS Wal, SequenceTheorems, TLAPS

\* The file is a chain of entries with at most the body of one entry behind it.
FileInv ==
  /\ lines \in Seq(Entry)
  /\ Len(lines) <= MaxSequence
  /\ \A i \in 1..Len(lines) : Linked(lines, i)
  /\ tail = None \/ \E e \in Entry : tail = Torn(e)
  /\ synced \in [lines : 0..Len(lines), tail : {None} \cup {Torn(e) : e \in Entry}]

\* Writer h is at the head of the lines.
AtHead(h) == h.sequence = HeadOf(lines).sequence /\ h.hash = HeadOf(lines).hash

\* Entry e is the next one of the chain that the lines are.
Follows(e) ==
  /\ e \in Entry
  /\ Len(lines) < MaxSequence
  /\ e.sequence = Len(lines) + 1
  /\ e.previous = HeadOf(lines).hash
  /\ e.hash = Hash(e.previous, e.data)

\* Where a writer that is not poisoned stands, by the piece it writes next and what has
\* become of the piece before; after the failure of a piece nothing is known of the file.
HandleInv(h) ==
  /\ h \in Handle
  /\ ~h.async => h.flight = "none"
  /\ h.poisoned => h.at = "idle" /\ h.flight = "none"
  /\ ~h.poisoned /\ h.at = "idle" =>
       /\ h.flight # "body"
       /\ h.flight = "none" => AtHead(h) /\ tail = None
       /\ h.flight = "end" => \E e \in Entry : /\ tail = Torn(e) /\ Follows(e)
                                              /\ h.sequence = e.sequence /\ h.hash = e.hash
  /\ h.at = "body" => h.flight = "none" /\ AtHead(h) /\ tail = None /\ Follows(h.entry)
  /\ h.at = "end" =>
       /\ h.flight # "end" /\ Follows(h.entry)
       /\ h.flight = "none" => tail = Torn(h.entry)
       /\ h.flight = "body" => tail = None
  /\ h.at = "sync" =>
       /\ h.flight # "body" /\ h.entry \in Entry
       /\ h.flight = "none" =>
            /\ tail = None
            /\ HeadOf(lines) = [sequence |-> h.entry.sequence, hash |-> h.entry.hash]
       /\ h.flight = "end" => tail = Torn(h.entry) /\ Follows(h.entry)

WritersInv ==
  /\ DOMAIN handle = Writers
  /\ \A w \in Writers : handle[w] # None => lock = w /\ HandleInv(handle[w])

\* The synced head is a head of the synced part.
DurableInv ==
  /\ durable \in [sequence : 0..MaxSequence, hash : Hashes]
  /\ durable.sequence <= synced.lines
  /\ durable.sequence = 0 => durable.hash = Genesis
  /\ durable.sequence > 0 => lines[durable.sequence].hash = durable.hash

WalInv == FileInv /\ WritersInv /\ DurableInv /\ ~stray

\* The invariant of the log, until an append is dropped half way or a newline lost.
WalIInv == ~halved => WalInv

-----------------------------------------------------------------------------
\* A torn entry is neither absent nor garbage, and is not read as an entry.
LEMMA TornDiffers ==
  \A e \in Entry : Torn(e) \in Fragment /\ Torn(e) # None /\ Torn(e) # Garbage
                   /\ Torn(e).entry = e /\ Torn(e).whole = FALSE
<1> SUFFICES ASSUME NEW e \in Entry
             PROVE  /\ Torn(e) \in Fragment /\ Torn(e) # None /\ Torn(e) # Garbage
                    /\ Torn(e).entry = e /\ Torn(e).whole = FALSE
  BY Zenon
<1>1. Torn(e) \in Fragment /\ Torn(e).entry = e /\ Torn(e).whole = FALSE
  BY Zenon DEF Torn, Fragment
<1> QED BY Zenon, <1>1, ValuesDiffer

\* A whole entry without its newline reads as an entry.
LEMMA WholeIsRead ==
  \A e \in Entry : Whole(e) # None /\ Whole(e) # Garbage /\ Whole(e).whole = TRUE
<1> SUFFICES ASSUME NEW e \in Entry
             PROVE  Whole(e) # None /\ Whole(e) # Garbage /\ Whole(e).whole = TRUE
  BY Zenon
<1>1. Whole(e) \in Fragment /\ Whole(e).whole = TRUE
  BY Zenon DEF Whole, Fragment
<1> QED BY Zenon, <1>1, ValuesDiffer

\* A reader of such a file sees its terminated lines, and accepts it when nothing
\* follows them.
LEMMA ReadsLines ==
  ASSUME FileInv
  PROVE  Entries = lines /\ (tail = None => Validates) /\ (Validates => tail = None)
<1>1. ~Unterminated
  BY Zenon, TornDiffers DEF FileInv, Unterminated
<1>2. Entries = lines
  BY Zenon, <1>1 DEF Entries
<1>3. \A i \in 1..Len(lines) : Linked(lines, i) /\ lines[i] # Garbage
  BY Zenon DEF FileInv, Linked
<1> QED BY Zenon, <1>1, <1>2, <1>3 DEF Validates

\* The head of a chain of entries is a sequence number and a hash.
LEMMA HeadType ==
  ASSUME FileInv
  PROVE  /\ HeadOf(lines).sequence = Len(lines) /\ Len(lines) \in 0..MaxSequence
         /\ HeadOf(lines).hash \in Hashes
<1>1. Len(lines) \in Nat /\ MaxSequence \in Nat
  BY WalAssumption DEF FileInv
<1>2. CASE lines = <<>>
  BY <1>1, <1>2, WalAssumption DEF FileInv, HeadOf
<1>3. CASE lines # <<>>
  <2>1. Len(lines) \in 1..Len(lines)
    BY <1>1, <1>3, EmptySeq DEF FileInv
  <2>2. lines[Len(lines)] \in Entry
    BY <2>1 DEF FileInv
  <2> QED BY <1>1, <1>3, <2>2 DEF FileInv, HeadOf, Entry
<1> QED BY Zenon, <1>2, <1>3

\* While a writer is open no other one is.
LEMMA OthersClosed ==
  ASSUME WritersInv, NEW w \in Writers, handle[w] # None \/ lock = None
  PROVE  \A v \in Writers : v # w => handle[v] = None
BY Zenon, ValuesDiffer DEF WritersInv

\* A step of one writer, while no other is open, preserves the writers' invariant
\* if that writer ends in a good place.
LEMMA OneWriterSteps ==
  ASSUME WritersInv, NEW w \in Writers, handle[w] # None \/ lock = None, NEW h,
         handle' = [handle EXCEPT ![w] = h],
         h # None => lock' = w /\ HandleInv(handle[w])'
  PROVE  WritersInv'
<1>1. DOMAIN handle' = Writers /\ handle'[w] = h
  BY Zenon DEF WritersInv
<1>2. \A v \in Writers : v # w => handle'[v] = None
  BY Zenon, OthersClosed DEF WritersInv
<1> QED BY Zenon, <1>1, <1>2 DEF WritersInv

\* The log starts empty and closed.
LEMMA WalInvInit == Init => WalInv
<1> SUFFICES ASSUME Init PROVE WalInv
  BY Zenon
<1>1. lines \in Seq(Entry) /\ Len(lines) = 0
  BY DEF Init
<1>2. FileInv
  BY <1>1, WalAssumption DEF Init, FileInv
<1>3. WritersInv
  BY Zenon DEF Init, WritersInv
<1>4. DurableInv
  BY <1>1, WalAssumption DEF Init, DurableInv, Start
<1> QED BY Zenon, <1>2, <1>3, <1>4 DEF WalInv, Init

-----------------------------------------------------------------------------
(***************************************************************************)
(* The steps of a writer that leave the lines alone.                       *)
(***************************************************************************)
\* Nothing about the file or the synced head changes when the lines, the synced
\* part and the head stay, and the tail stays a torn entry or nothing.
LEMMA FileStays ==
  ASSUME WalInv, UNCHANGED <<lines, synced, durable>>,
         tail' = None \/ \E e \in Entry : tail' = Torn(e)
  PROVE  FileInv' /\ DurableInv'
BY Zenon DEF WalInv, FileInv, DurableInv, Linked, PreviousHash

\* Nothing about the writers changes while they, the lock and the file stay.
LEMMA WritersStay ==
  ASSUME WritersInv, UNCHANGED <<lines, tail, lock, handle>>
  PROVE  WritersInv'
<1>1. ASSUME NEW h, HandleInv(h) PROVE HandleInv(h)'
  <2>1. AtHead(h)' <=> AtHead(h)
    BY Zenon DEF AtHead, HeadOf
  <2>2. \A e : Follows(e)' <=> Follows(e)
    BY Zenon DEF Follows, HeadOf
  <2> QED BY Zenon, <1>1, <2>1, <2>2 DEF HandleInv, HeadOf
<1> QED BY Zenon, <1>1 DEF WritersInv

\* Opening starts a writer of either kind at the head of the file.
LEMMA OpenedAtHead ==
  ASSUME WalInv, NEW w \in Writers, NEW async \in BOOLEAN, NEW syncs \in BOOLEAN,
         Validates, lock = None, lock' = w, Update(w, OpenHandle(async, syncs)),
         UNCHANGED <<file, synced, stray, durable>>
  PROVE  WalInv'
<1> DEFINE h == OpenHandle(async, syncs)
<1>1. FileInv' /\ DurableInv'
  BY Zenon, FileStays DEF file, WalInv, FileInv
<1>2. Entries = lines /\ tail = None
  BY Zenon, ReadsLines DEF WalInv
<1>3. h \in Handle /\ h.at = "idle" /\ h.poisoned = FALSE /\ h.flight = "none"
      /\ h.sequence = HeadOf(lines).sequence /\ h.hash = HeadOf(lines).hash
  BY Zenon, <1>2, HeadType DEF WalInv, OpenHandle, Handle
<1>4. handle' = [handle EXCEPT ![w] = h] /\ handle'[w] = h /\ UNCHANGED <<lines, tail>>
  BY Zenon DEF Update, file, WalInv, WritersInv
<1> HIDE DEF h
<1>5. HandleInv(handle[w])'
  BY Zenon, <1>2, <1>3, <1>4 DEF HandleInv, AtHead, HeadOf
<1>6. WritersInv'
  BY Zenon, <1>4, <1>5, OneWriterSteps DEF WalInv
<1> QED BY Zenon, <1>1, <1>6 DEF WalInv

\* append builds an entry that extends the chain.
LEMMA AppendBeginStep ==
  ASSUME WalInv, NEW w \in Writers, NEW d \in Data, AppendBegin(w, d)
  PROVE  WalInv'
<1> DEFINE h == handle[w]
           e == [sequence |-> h.sequence + 1, previous |-> h.hash,
                 data |-> d, hash |-> Hash(h.hash, d)]
           g == [h EXCEPT !.at = "body", !.entry = e]
<1>1. FileInv' /\ DurableInv'
  BY Zenon, FileStays DEF AppendBegin, file, WalInv, FileInv
<1>2. h # None /\ h.at = "idle" /\ ~h.poisoned /\ h.flight = "none" /\ h.sequence < MaxSequence
      /\ Len(lines) < MaxSequence /\ handle' = [handle EXCEPT ![w] = g]
      /\ UNCHANGED <<lines, tail, lock, stray>>
  BY Zenon DEF AppendBegin, Accepts, Idle, Opened, Update, file
<1>3. lock = w /\ HandleInv(h)
  BY Zenon, <1>2 DEF WalInv, WritersInv
<1>4. h \in Handle /\ AtHead(h) /\ tail = None
  BY Zenon, <1>2, <1>3 DEF HandleInv
<1>5. e \in Entry
  BY <1>2, <1>4, WalAssumption DEF Entry, Handle
<1>6. Follows(e)
  BY Zenon, <1>2, <1>4, <1>5, HeadType DEF WalInv, Follows, AtHead
<1> HIDE DEF e
<1>7. g \in Handle /\ g.at = "body" /\ g.poisoned = h.poisoned /\ g.entry = e
      /\ g.sequence = h.sequence /\ g.hash = h.hash /\ g.flight = "none"
  BY Zenon, <1>2, <1>4, <1>5 DEF Handle
<1>8. handle'[w] = g
  BY Zenon, <1>2 DEF WalInv, WritersInv
<1> HIDE DEF g
<1>9. HandleInv(handle[w])'
  BY Zenon, <1>2, <1>4, <1>6, <1>7, <1>8 DEF HandleInv, AtHead, HeadOf, Follows
<1>10. WritersInv'
  BY Zenon, <1>2, <1>3, <1>9, OneWriterSteps DEF WalInv
<1> QED BY Zenon, <1>1, <1>2, <1>10 DEF WalInv

\* The body of the entry is written behind the last newline, or goes in flight.
LEMMA WriteBodyStep ==
  ASSUME WalInv, NEW w \in Writers, WriteBody(w)
  PROVE  WalInv'
<1> DEFINE h == handle[w]
           f == IF h.async THEN "body" ELSE "none"
           g == [h EXCEPT !.at = "end", !.flight = f]
<1>1. h # None /\ h.at = "body" /\ (h.async => tail' = tail)
      /\ (~h.async => tail' = WithBody(h.entry))
      /\ handle' = [handle EXCEPT ![w] = g] /\ UNCHANGED <<lines, synced, lock, stray, durable>>
  BY Zenon DEF WriteBody, Writing, Opened, Update
<1>2. lock = w /\ HandleInv(h)
  BY Zenon, <1>1 DEF WalInv, WritersInv
<1>3. h \in Handle /\ tail = None /\ Follows(h.entry) /\ h.poisoned = FALSE
  BY Zenon, <1>1, <1>2 DEF HandleInv, Handle
<1>4. h.entry \in Entry /\ (h.async => tail' = None) /\ (~h.async => tail' = Torn(h.entry))
  BY Zenon, <1>1, <1>3 DEF WithBody, Follows
<1>5. FileInv' /\ DurableInv'
  BY Zenon, <1>1, <1>4, FileStays
<1>6. f \in {"none", "body"} /\ (h.async => f = "body") /\ (~h.async => f = "none")
  BY Zenon
<1> HIDE DEF f
<1>7. g \in Handle /\ g.at = "end" /\ g.poisoned = FALSE /\ g.entry = h.entry
      /\ g.flight = f /\ g.async = h.async
  BY Zenon, <1>3, <1>6 DEF Handle
<1>8. handle'[w] = g
  BY Zenon, <1>1 DEF WalInv, WritersInv
<1> HIDE DEF g
<1>9. HandleInv(handle[w])'
  BY Zenon, <1>1, <1>3, <1>4, <1>6, <1>7, <1>8 DEF HandleInv, HeadOf, Follows
<1>10. WritersInv'
  BY Zenon, <1>1, <1>2, <1>9, OneWriterSteps DEF WalInv
<1> QED BY Zenon, <1>1, <1>5, <1>10 DEF WalInv

\* A successful flush and sync makes the writer's head the synced head.
LEMMA FlushAndSyncStep ==
  ASSUME WalInv, NEW w \in Writers, FlushAndSync(w)
  PROVE  WalInv'
<1> DEFINE h == handle[w]
<1>1. h # None /\ h.at = "idle" /\ ~h.poisoned /\ h.flight = "none"
      /\ synced' = [lines |-> Len(lines), tail |-> tail]
      /\ durable' = [sequence |-> h.sequence, hash |-> h.hash]
      /\ UNCHANGED <<lines, tail, lock, handle, stray>>
  BY Zenon DEF FlushAndSync, Accepts, Idle, Opened, file
<1>2. h \in Handle /\ AtHead(h) /\ tail = None
  BY Zenon, <1>1 DEF WalInv, WritersInv, HandleInv
<1>3. FileInv'
  BY <1>1, <1>2, HeadType DEF WalInv, FileInv, Linked, PreviousHash
<1>4. DurableInv'
  <2>1. h.sequence = Len(lines) /\ h.hash = HeadOf(lines).hash /\ Len(lines) \in Nat
    BY <1>2, HeadType DEF WalInv, AtHead, FileInv
  <2>2. h.sequence = 0 => h.hash = Genesis
    BY Zenon, <2>1, EmptySeq DEF HeadOf, WalInv, FileInv
  <2>3. h.sequence > 0 => lines[h.sequence].hash = h.hash
    BY <2>1, EmptySeq DEF HeadOf, WalInv, FileInv
  <2> QED BY <1>1, <1>2, <2>1, <2>2, <2>3 DEF DurableInv, Handle
<1>5. WritersInv'
  BY Zenon, <1>1, WritersStay DEF WalInv
<1> QED BY Zenon, <1>1, <1>3, <1>4, <1>5 DEF WalInv

\* A poisoned writer keeps its place and promises nothing more.
LEMMA PoisonedIsSafe ==
  ASSUME WalInv, NEW w \in Writers, handle[w] # None,
         handle' = [handle EXCEPT ![w] = Poisoned(w)], lock' = lock
  PROVE  WritersInv'
<1>1. lock = w /\ handle[w] \in Handle
  BY Zenon DEF WalInv, WritersInv, HandleInv
<1>2. Poisoned(w) \in Handle /\ Poisoned(w).at = "idle" /\ Poisoned(w).poisoned = TRUE
      /\ Poisoned(w).flight = "none"
  BY Zenon, <1>1 DEF Poisoned, Handle
<1>3. handle'[w] = Poisoned(w)
  BY Zenon DEF WalInv, WritersInv
<1>4. HandleInv(handle[w])'
  BY Zenon, <1>2, <1>3 DEF HandleInv
<1> QED BY Zenon, <1>1, <1>4, OneWriterSteps DEF WalInv

\* What an interrupted piece leaves behind is nothing or a torn entry.
LEMMA PartialIsTorn ==
  ASSUME WalInv, ~Unterminated', NEW w \in Writers, handle[w] # None, Partial(w)
  PROVE  tail' = None \/ \E e \in Entry : tail' = Torn(e)
<1>1. CASE UNCHANGED tail
  BY Zenon, <1>1 DEF WalInv, FileInv
<1>2. CASE Underway(w, "body") /\ tail' = Body(w)
  <2>1. tail = None /\ handle[w].entry \in Entry
    BY Zenon, <1>2 DEF Underway, WalInv, WritersInv, HandleInv, Follows, Handle
  <2> QED BY Zenon, <1>2, <2>1, ValuesDiffer DEF Body, WithBody
<1>3. CASE Underway(w, "end") /\ tail' = IF tail = Garbage THEN Garbage ELSE Whole(tail.entry)
  <2>1. PICK e \in Entry : tail = Torn(e)
    BY Zenon, <1>3 DEF Underway, WalInv, WritersInv, HandleInv, Follows, Handle
  <2>2. tail' = Whole(e)
    BY Zenon, <1>3, <2>1, TornDiffers
  <2>3. Unterminated'
    BY Zenon, <2>2, WholeIsRead DEF Unterminated
  <2> QED BY Zenon, <2>3
<1> QED BY Zenon, <1>1, <1>2, <1>3 DEF Partial

\* A failed write poisons.
LEMMA WriteFailsStep ==
  ASSUME WalInv, ~halved', NEW w \in Writers, WriteFails(w)
  PROVE  WalInv'
<1>1. handle[w] # None /\ Partial(w) /\ handle' = [handle EXCEPT ![w] = Poisoned(w)]
      /\ UNCHANGED <<lines, synced, lock, stray, durable>> /\ ~Unterminated'
  BY Zenon DEF WriteFails, Writing, Opened, Update, NewlineLost, Partial
<1>2. FileInv' /\ DurableInv'
  BY Zenon, <1>1, PartialIsTorn, FileStays
<1> QED BY Zenon, <1>1, <1>2, PoisonedIsSafe DEF WalInv

\* A piece in flight that fails leaves at most a torn entry, and the writer knows no more.
LEMMA FlightFailsStep ==
  ASSUME WalInv, ~halved', NEW w \in Writers, FlightFails(w)
  PROVE  WalInv'
<1> DEFINE h == handle[w]
           g == [h EXCEPT !.flight = "failed"]
<1>1. h # None /\ h.flight \in {"body", "end"} /\ Partial(w)
      /\ handle' = [handle EXCEPT ![w] = g]
      /\ UNCHANGED <<lines, synced, lock, stray, durable>> /\ ~Unterminated'
  BY Zenon DEF FlightFails, InFlight, Opened, Update, NewlineLost
<1>2. FileInv' /\ DurableInv'
  BY Zenon, <1>1, PartialIsTorn, FileStays
<1>3. lock = w /\ HandleInv(h)
  BY Zenon, <1>1 DEF WalInv, WritersInv
<1>4. h \in Handle /\ h.async = TRUE /\ h.at # "body" /\ h.poisoned = FALSE
      /\ (h.at = "end" => Follows(h.entry)) /\ (h.at = "sync" => h.entry \in Entry)
  BY Zenon, <1>1, <1>3 DEF HandleInv, Handle
<1>5. g \in Handle /\ g.at = h.at /\ g.poisoned = FALSE /\ g.entry = h.entry
      /\ g.flight = "failed" /\ g.async = TRUE
  BY Zenon, <1>4 DEF Handle
<1>6. handle'[w] = g
  BY Zenon, <1>1 DEF WalInv, WritersInv
<1> HIDE DEF g
<1>7. HandleInv(handle[w])'
  BY Zenon, <1>1, <1>4, <1>5, <1>6 DEF HandleInv, HeadOf, Follows
<1>8. WritersInv'
  BY Zenon, <1>1, <1>3, <1>7, OneWriterSteps DEF WalInv
<1> QED BY Zenon, <1>1, <1>2, <1>8 DEF WalInv

\* A failed sync poisons.
LEMMA SyncFailsStep ==
  ASSUME WalInv, NEW w \in Writers, SyncFails(w)
  PROVE  WalInv'
<1>1. handle[w] # None /\ handle' = [handle EXCEPT ![w] = Poisoned(w)]
      /\ UNCHANGED <<lines, tail, synced, lock, stray, durable>>
  BY Zenon DEF SyncFails, Idle, Opened, Update, file
<1>2. FileInv' /\ DurableInv'
  BY Zenon, <1>1, FileStays DEF WalInv, FileInv
<1> QED BY Zenon, <1>1, <1>2, PoisonedIsSafe DEF WalInv

\* An append that is dropped before its first write has changed nothing.
LEMMA CancelStep ==
  ASSUME WalInv, ~halved', NEW w \in Writers, Cancel(w)
  PROVE  WalInv'
<1> DEFINE h == handle[w]
           g == [h EXCEPT !.at = "idle", !.entry = None]
<1>1. h # None /\ h.at = "body" /\ handle' = [handle EXCEPT ![w] = g]
      /\ UNCHANGED <<lines, tail, synced, lock, stray, durable>>
  BY Zenon DEF Cancel, Opened, Update, file
<1>2. FileInv' /\ DurableInv'
  BY Zenon, <1>1, FileStays DEF WalInv, FileInv
<1>3. lock = w /\ HandleInv(h)
  BY Zenon, <1>1 DEF WalInv, WritersInv
<1>4. h \in Handle /\ h.flight = "none" /\ AtHead(h) /\ tail = None /\ h.poisoned = FALSE
  BY Zenon, <1>1, <1>3 DEF HandleInv, Handle
<1>5. g \in Handle /\ g.at = "idle" /\ g.poisoned = FALSE /\ g.flight = "none"
      /\ g.sequence = h.sequence /\ g.hash = h.hash
  BY Zenon, <1>4 DEF Handle
<1>6. handle'[w] = g
  BY Zenon, <1>1 DEF WalInv, WritersInv
<1> HIDE DEF g
<1>7. HandleInv(handle[w])'
  BY Zenon, <1>1, <1>4, <1>5, <1>6 DEF HandleInv, AtHead, HeadOf
<1>8. WritersInv'
  BY Zenon, <1>1, <1>3, <1>7, OneWriterSteps DEF WalInv
<1> QED BY Zenon, <1>1, <1>2, <1>8 DEF WalInv

\* A process that dies leaves at most a torn entry and no open writer.
LEMMA ProcessDiesStep ==
  ASSUME WalInv, ~halved', NEW w \in Writers, ProcessDies(w)
  PROVE  WalInv'
<1>1. handle[w] # None /\ Partial(w) /\ handle' = [handle EXCEPT ![w] = None]
      /\ UNCHANGED <<lines, synced, stray, durable>> /\ ~Unterminated'
  BY Zenon DEF ProcessDies, Opened, Update, NewlineLost
<1>2. FileInv' /\ DurableInv'
  BY Zenon, <1>1, PartialIsTorn, FileStays
<1>3. WritersInv'
  BY Zenon, <1>1, OneWriterSteps DEF WalInv
<1> QED BY Zenon, <1>1, <1>2, <1>3 DEF WalInv

-----------------------------------------------------------------------------
(***************************************************************************)
(* The steps that change the lines.                                        *)
(***************************************************************************)
\* An entry that extends the chain makes a longer chain with that entry as head.
LEMMA ChainGrows ==
  ASSUME FileInv, NEW e, Follows(e), lines' = Append(lines, e)
  PROVE  /\ lines' \in Seq(Entry) /\ Len(lines') = Len(lines) + 1
         /\ \A i \in 1..Len(lines) : lines'[i] = lines[i]
         /\ \A i \in 1..Len(lines') : Linked(lines', i)
         /\ HeadOf(lines') = [sequence |-> e.sequence, hash |-> e.hash]
<1>1. /\ lines \in Seq(Entry) /\ Len(lines) \in Nat /\ lines' \in Seq(Entry)
      /\ Len(lines') = Len(lines) + 1 /\ lines'[Len(lines) + 1] = e
      /\ \A i \in 1..Len(lines) : lines'[i] = lines[i]
  BY DEF FileInv, Follows
<1>2. ASSUME NEW i \in 1..Len(lines) PROVE Linked(lines', i)
  <2>1. Linked(lines, i) /\ lines'[i] = lines[i]
    BY Zenon, <1>1 DEF FileInv
  <2>2. PreviousHash(lines', i) = PreviousHash(lines, i)
    <3>1. CASE i = 1
      BY Zenon, <3>1 DEF PreviousHash
    <3>2. CASE i # 1
      <4>1. i - 1 \in 1..Len(lines)
        BY <1>1, <3>2
      <4> QED BY Zenon, <1>1, <3>2, <4>1 DEF PreviousHash
    <3> QED BY Zenon, <3>1, <3>2
  <2> QED BY Zenon, <2>1, <2>2 DEF Linked
<1>3. Linked(lines', Len(lines) + 1)
  <2>1. PreviousHash(lines', Len(lines) + 1) = e.previous
    <3>1. CASE lines = <<>>
      BY <1>1, <3>1, EmptySeq DEF PreviousHash, HeadOf, Follows
    <3>2. CASE lines # <<>>
      <4>1. Len(lines) \in 1..Len(lines) /\ (Len(lines) + 1) - 1 = Len(lines)
        BY <1>1, <3>2, EmptySeq
      <4> QED BY <1>1, <3>2, <4>1 DEF PreviousHash, HeadOf, Follows
    <3> QED BY Zenon, <3>1, <3>2
  <2> QED BY Zenon, <1>1, <2>1, ValuesDiffer DEF Linked, Follows
<1>4. HeadOf(lines') = [sequence |-> e.sequence, hash |-> e.hash]
  BY <1>1, EmptySeq DEF HeadOf, Follows
<1>5. \A i \in 1..Len(lines') : Linked(lines', i)
  <2>1. \A i \in 1..Len(lines') : i \in 1..Len(lines) \/ i = Len(lines) + 1
    BY <1>1
  <2> QED BY Zenon, <1>2, <1>3, <2>1
<1> QED BY Zenon, <1>1, <1>4, <1>5

\* A writer whose entry is acknowledged is idle at that entry.
LEMMA AcknowledgedType ==
  ASSUME NEW h \in Handle, h.entry \in Entry
  PROVE  /\ Acknowledged(h) \in Handle /\ Acknowledged(h).at = "idle"
         /\ Acknowledged(h).poisoned = h.poisoned /\ Acknowledged(h).async = h.async
         /\ Acknowledged(h).flight = h.flight
         /\ Acknowledged(h).sequence = h.entry.sequence
         /\ Acknowledged(h).hash = h.entry.hash
<1> DEFINE s == h.entry.sequence
           x == h.entry.hash
<1>1. s \in 0..MaxSequence /\ x \in Hashes
  BY WalAssumption DEF Entry
<1>2. Acknowledged(h) = [h EXCEPT !.sequence = s, !.hash = x, !.at = "idle", !.entry = None]
  BY Zenon DEF Acknowledged
<1> HIDE DEF s, x
<1>3. [h EXCEPT !.sequence = s, !.hash = x, !.at = "idle", !.entry = None] \in Handle
  BY Zenon, <1>1 DEF Handle
<1>4. /\ Acknowledged(h).at = "idle" /\ Acknowledged(h).poisoned = h.poisoned
      /\ Acknowledged(h).async = h.async /\ Acknowledged(h).flight = h.flight
      /\ Acknowledged(h).sequence = s /\ Acknowledged(h).hash = x
  BY Zenon, <1>2 DEF Handle
<1> QED BY Zenon, <1>2, <1>3, <1>4 DEF s, x

\* The brace and the newline make the entry in the tail the last line.
LEMMA EndGrows ==
  ASSUME WalInv, NEW e \in Entry, tail = Torn(e), Follows(e), EndPiece,
         UNCHANGED <<synced, durable>>
  PROVE  /\ FileInv' /\ DurableInv' /\ tail' = None
         /\ HeadOf(lines') = [sequence |-> e.sequence, hash |-> e.hash]
<1>1. lines' = Append(lines, e) /\ tail' = None
  BY Zenon, TornDiffers DEF EndPiece
<1>2. /\ lines' \in Seq(Entry) /\ Len(lines') = Len(lines) + 1
      /\ \A i \in 1..Len(lines) : lines'[i] = lines[i]
      /\ \A i \in 1..Len(lines') : Linked(lines', i)
      /\ HeadOf(lines') = [sequence |-> e.sequence, hash |-> e.hash]
  BY Zenon, <1>1, ChainGrows DEF WalInv
<1>3. Len(lines) \in Nat /\ Len(lines') <= MaxSequence
  BY <1>2, WalAssumption DEF WalInv, FileInv, Follows
<1>4. FileInv'
  <2>1. synced' \in [lines : 0..Len(lines'), tail : {None} \cup {Torn(x) : x \in Entry}]
    BY <1>2, <1>3 DEF WalInv, FileInv
  <2> QED BY Zenon, <1>1, <1>2, <1>3, <2>1 DEF FileInv
<1>5. DurableInv'
  <2>1. durable.sequence \in 0..Len(lines) /\ synced.lines \in 0..Len(lines)
    BY <1>3 DEF WalInv, FileInv, DurableInv
  <2> QED BY <1>2, <1>3, <2>1 DEF WalInv, DurableInv
<1> QED BY Zenon, <1>1, <1>2, <1>4, <1>5

\* The writer's last piece is written or in flight: the head moves, or waits for the sync.
LEMMA WriteEndStep ==
  ASSUME WalInv, NEW w \in Writers, WriteEnd(w)
  PROVE  WalInv'
<1> DEFINE h == handle[w]
           e == h.entry
           f == IF h.async THEN "end" ELSE "none"
           k == [h EXCEPT !.flight = f]
           g == Ended(k)
<1>1. h # None /\ h.at = "end" /\ h.flight = "none" /\ UNCHANGED <<synced, lock, stray, durable>>
      /\ handle' = [handle EXCEPT ![w] = g]
      /\ (h.async => UNCHANGED <<lines, tail>>) /\ (~h.async => EndPiece)
  BY Zenon DEF WriteEnd, Writing, Opened, Update, file
<1>2. lock = w /\ h \in Handle /\ h.poisoned = FALSE /\ tail = Torn(e) /\ Follows(e) /\ e \in Entry
  BY Zenon, <1>1 DEF WalInv, WritersInv, HandleInv, Handle, Follows
<1>3. FileInv' /\ DurableInv'
  BY Zenon, <1>1, <1>2, EndGrows, FileStays DEF Handle
<1>4. ~h.async => tail' = None /\ HeadOf(lines') = [sequence |-> e.sequence, hash |-> e.hash]
  BY Zenon, <1>1, <1>2, EndGrows
<1>5. f \in {"none", "end"} /\ (h.async => f = "end") /\ (~h.async => f = "none")
  BY Zenon
<1> HIDE DEF f
<1>6. /\ k \in Handle /\ k.entry = e /\ k.flight = f /\ k.async = h.async /\ k.poisoned = FALSE
      /\ k.syncs = h.syncs
  BY Zenon, <1>2, <1>5 DEF Handle
<1> HIDE DEF k
<1>7. handle'[w] = g
  BY Zenon, <1>1 DEF WalInv, WritersInv
<1>8. HandleInv(handle[w])'
  <2>1. CASE k.syncs
    <3>1. g = [k EXCEPT !.at = "sync"]
      BY Zenon, <2>1 DEF Ended
    <3>2. g \in Handle /\ g.at = "sync" /\ g.poisoned = FALSE /\ g.entry = e
          /\ g.flight = f /\ g.async = h.async
      BY Zenon, <1>6, <3>1 DEF Handle
    <3> HIDE DEF g
    <3> QED BY Zenon, <1>1, <1>2, <1>4, <1>5, <1>7, <3>2 DEF HandleInv, Follows, HeadOf
  <2>2. CASE ~k.syncs
    <3>1. g = Acknowledged(k)
      BY Zenon, <2>2 DEF Ended
    <3>2. g \in Handle /\ g.at = "idle" /\ g.poisoned = FALSE /\ g.flight = f
          /\ g.async = h.async /\ g.sequence = e.sequence /\ g.hash = e.hash
      BY Zenon, <1>2, <1>6, <3>1, AcknowledgedType
    <3> HIDE DEF g
    <3>3. CASE h.async
      <4>1. PICK x \in Entry : x = e
        BY Zenon, <1>2
      <4>2. tail' = Torn(x) /\ Follows(x)'
        BY Zenon, <1>1, <1>2, <3>3, <4>1 DEF Follows, HeadOf
      <4> QED BY Zenon, <1>5, <1>7, <3>2, <3>3, <4>1, <4>2 DEF HandleInv
    <3>4. CASE ~h.async
      <4>1. HeadOf(lines').sequence = e.sequence /\ HeadOf(lines').hash = e.hash
        BY <1>4, <3>4
      <4>2. AtHead(handle[w])'
        BY Zenon, <1>7, <3>2, <4>1 DEF AtHead, HeadOf
      <4> QED BY Zenon, <1>4, <1>5, <1>7, <3>2, <3>4, <4>2 DEF HandleInv
    <3> QED BY Zenon, <3>3, <3>4
  <2> QED BY Zenon, <2>1, <2>2
<1>9. WritersInv'
  BY Zenon, <1>1, <1>2, <1>8, OneWriterSteps DEF WalInv
<1> QED BY Zenon, <1>1, <1>3, <1>9 DEF WalInv

\* A body that lands is the tail its writer ends next; an end that lands is the writer's head.
LEMMA LandsStep ==
  ASSUME WalInv, NEW w \in Writers, Lands(w)
  PROVE  WalInv'
<1> DEFINE h == handle[w]
           g == [h EXCEPT !.flight = "none"]
<1>1. h # None /\ h.flight \in {"body", "end"} /\ UNCHANGED <<synced, lock, stray, durable>>
      /\ handle' = [handle EXCEPT ![w] = g]
      /\ (h.flight = "body" => tail' = Body(w) /\ lines' = lines)
      /\ (h.flight # "body" => EndPiece)
  BY Zenon DEF Lands, InFlight, Opened, Update
<1>2. lock = w /\ HandleInv(h)
  BY Zenon, <1>1 DEF WalInv, WritersInv
<1>3. h \in Handle /\ h.poisoned = FALSE /\ h.at # "body"
  BY Zenon, <1>1, <1>2 DEF HandleInv, Handle
<1>4. g \in Handle /\ g.at = h.at /\ g.poisoned = FALSE /\ g.entry = h.entry
      /\ g.flight = "none" /\ g.sequence = h.sequence /\ g.hash = h.hash
  BY Zenon, <1>3 DEF Handle
<1>5. handle'[w] = g
  BY Zenon, <1>1 DEF WalInv, WritersInv
<1> HIDE DEF g
<1>6. CASE h.flight = "body"
  <2>1. h.at = "end" /\ Follows(h.entry) /\ h.entry \in Entry /\ tail = None
    BY Zenon, <1>2, <1>3, <1>6 DEF HandleInv, Follows, Handle
  <2>2. tail' = Torn(h.entry) /\ lines' = lines
    BY Zenon, <1>1, <1>6, <2>1, ValuesDiffer DEF Body, WithBody
  <2>3. FileInv' /\ DurableInv'
    BY Zenon, <1>1, <2>1, <2>2, FileStays
  <2>4. HandleInv(handle[w])'
    BY Zenon, <1>4, <1>5, <2>1, <2>2 DEF HandleInv, Follows, HeadOf
  <2> QED BY Zenon, <1>1, <1>2, <2>3, <2>4, OneWriterSteps DEF WalInv
<1>7. CASE h.flight = "end"
  <2>1. PICK e \in Entry : /\ tail = Torn(e) /\ Follows(e)
                           /\ h.at = "idle" => h.sequence = e.sequence /\ h.hash = e.hash
                           /\ h.at # "idle" => h.at = "sync" /\ h.entry = e
    BY Zenon, <1>2, <1>3, <1>7 DEF HandleInv, Handle
  <2>2. /\ FileInv' /\ DurableInv' /\ tail' = None
        /\ HeadOf(lines') = [sequence |-> e.sequence, hash |-> e.hash]
    BY Zenon, <1>1, <1>7, <2>1, EndGrows
  <2>3. HeadOf(lines').sequence = e.sequence /\ HeadOf(lines').hash = e.hash
    BY <2>2
  <2>4. h.at = "idle" => AtHead(handle[w])'
    BY Zenon, <1>4, <1>5, <2>1, <2>3 DEF AtHead, HeadOf
  <2>5. HandleInv(handle[w])'
    BY Zenon, <1>4, <1>5, <2>1, <2>2, <2>4 DEF HandleInv, HeadOf
  <2> QED BY Zenon, <1>1, <1>2, <2>2, <2>5, OneWriterSteps DEF WalInv
<1> QED BY Zenon, <1>1, <1>6, <1>7

\* Closing a writer leaves no writer open; an end piece in flight lands, in part or not at all.
LEMMA CloseStep ==
  ASSUME WalInv, ~halved', NEW w \in Writers, Close(w)
  PROVE  WalInv'
<1> DEFINE h == handle[w]
<1>1. h # None /\ h.at = "idle" /\ handle' = [handle EXCEPT ![w] = None]
      /\ UNCHANGED <<synced, durable>> /\ ~Unterminated'
      /\ stray' = (stray \/ h.flight = "body")
  BY Zenon DEF Close, Opened, Update, NewlineLost
<1>2. HandleInv(h)
  BY Zenon, <1>1 DEF WalInv, WritersInv
<1>3. h.flight # "body"
  BY Zenon, <1>1, <1>2 DEF HandleInv, Handle
<1>4. FileInv' /\ DurableInv'
  <2>1. CASE UNCHANGED file
    BY Zenon, <1>1, <2>1, FileStays DEF WalInv, FileInv, file
  <2>2. CASE h.flight = "end" /\ EndPiece
    <3>1. PICK e \in Entry : tail = Torn(e) /\ Follows(e)
      BY Zenon, <1>1, <1>2, <2>2 DEF HandleInv, Handle
    <3> QED BY Zenon, <1>1, <2>2, <3>1, EndGrows
  <2>3. CASE Partial(w) /\ UNCHANGED lines
    BY Zenon, <1>1, <2>3, PartialIsTorn, FileStays
  <2> QED BY Zenon, <2>1, <2>2, <2>3 DEF Close
<1>5. WritersInv'
  BY Zenon, <1>1, OneWriterSteps DEF WalInv
<1> QED BY Zenon, <1>1, <1>3, <1>4, <1>5 DEF WalInv

\* The sync of sync_on_append makes the new entry the synced head, unless a piece of it failed.
LEMMA AppendSyncStep ==
  ASSUME WalInv, NEW w \in Writers, AppendSync(w)
  PROVE  WalInv'
<1> DEFINE h == handle[w]
           e == h.entry
           g == Acknowledged(h)
<1>1. h # None /\ h.at = "sync" /\ h.flight \notin {"body", "end"}
      /\ UNCHANGED <<lines, tail, lock, stray>>
      /\ synced' = [lines |-> Len(lines), tail |-> tail]
      /\ handle' = [handle EXCEPT ![w] = g]
      /\ durable' = IF h.flight = "failed" THEN durable
                    ELSE [sequence |-> e.sequence, hash |-> e.hash]
  BY Zenon DEF AppendSync, InFlight, Opened, Update, file
<1>2. lock = w /\ e \in Entry /\ h \in Handle /\ h.poisoned = FALSE /\ HandleInv(h)
  BY Zenon, <1>1 DEF WalInv, WritersInv, HandleInv, Handle
<1>3. g \in Handle /\ g.at = "idle" /\ g.poisoned = FALSE /\ g.flight = h.flight
      /\ g.async = h.async /\ g.sequence = e.sequence /\ g.hash = e.hash
  BY Zenon, <1>2, AcknowledgedType
<1>4. handle'[w] = g
  BY Zenon, <1>1 DEF WalInv, WritersInv
<1> HIDE DEF g
<1>5. FileInv'
  <2>1. tail \in {None} \cup {Torn(x) : x \in Entry}
    BY Zenon DEF WalInv, FileInv
  <2> QED BY <1>1, <2>1, HeadType DEF WalInv, FileInv, Linked, PreviousHash
<1>6. CASE h.flight = "failed"
  <2>1. DurableInv'
    <3>1. durable' = durable /\ synced'.lines = Len(lines) /\ lines' = lines
      BY <1>1, <1>6
    <3>2. durable.sequence \in 0..Len(lines)
      BY DEF WalInv, DurableInv, FileInv
    <3> QED BY <3>1, <3>2 DEF WalInv, DurableInv
  <2>2. HandleInv(handle[w])'
    BY Zenon, <1>2, <1>3, <1>4, <1>6 DEF HandleInv
  <2> QED BY Zenon, <1>1, <1>2, <1>5, <2>1, <2>2, OneWriterSteps DEF WalInv
<1>7. CASE h.flight = "none"
  <2>1. tail = None /\ HeadOf(lines) = [sequence |-> e.sequence, hash |-> e.hash]
    BY Zenon, <1>1, <1>2, <1>7 DEF HandleInv
  <2>2. e.sequence = Len(lines) /\ e.hash = HeadOf(lines).hash /\ Len(lines) \in Nat
    BY <2>1, HeadType DEF WalInv, FileInv
  <2>3. DurableInv'
    <3>1. e.sequence > 0 /\ e.sequence \in 0..MaxSequence /\ e.hash \in Hashes
      BY <1>2 DEF Entry
    <3>2. lines[e.sequence].hash = e.hash
      BY <2>2, <3>1, EmptySeq DEF HeadOf, WalInv, FileInv
    <3>3. durable' = [sequence |-> e.sequence, hash |-> e.hash]
      BY Zenon, <1>1, <1>7
    <3> QED BY SMTT(20), ZenonT(60), <1>1, <2>2, <3>1, <3>2, <3>3 DEF DurableInv
  <2>4. AtHead(handle[w])'
    <3>1. HeadOf(lines').sequence = e.sequence /\ HeadOf(lines').hash = e.hash
      BY <1>1, <2>1
    <3> QED BY Zenon, <1>3, <1>4, <3>1 DEF AtHead, HeadOf
  <2>5. HandleInv(handle[w])'
    BY Zenon, <1>1, <1>3, <1>4, <1>7, <2>1, <2>4 DEF HandleInv
  <2> QED BY Zenon, <1>1, <1>2, <1>5, <2>3, <2>5, OneWriterSteps DEF WalInv
<1> QED BY Zenon, <1>1, <1>2, <1>6, <1>7 DEF Handle

\* What a power loss leaves behind the surviving lines is nothing or a torn entry.
LEMMA TailsAreTorn ==
  ASSUME FileInv, NEW k \in synced.lines..Len(lines), NEW t \in TailsAfter(k),
         t = None \/ t = Garbage \/ ~t.whole
  PROVE  t \in {None} \cup {Torn(e) : e \in Entry}
<1>1. synced.tail \in {None} \cup {Torn(e) : e \in Entry} /\ synced.lines \in Nat
  BY DEF FileInv
<1>2. tail \in {None} \cup {Torn(e) : e \in Entry}
  BY Zenon DEF FileInv
<1>3. CASE k = synced.lines /\ synced.tail # None
  BY Zenon, <1>1, <1>2, <1>3 DEF TailsAfter
<1>4. CASE ~(k = synced.lines /\ synced.tail # None) /\ k < Len(lines)
  <2>1. k + 1 \in 1..Len(lines)
    BY <1>1, <1>4
  <2>2. lines[k + 1] \in Entry
    BY <2>1 DEF FileInv
  <2>3. lines[k + 1] # Garbage
    BY Zenon, <2>2, ValuesDiffer
  <2>4. t \in Cuts(lines[k + 1])
    BY Zenon, <1>4 DEF TailsAfter
  <2>5. t # Whole(lines[k + 1])
    BY Zenon, <2>2, WholeIsRead
  <2> QED BY Zenon, <2>2, <2>3, <2>4, <2>5 DEF Cuts
<1>5. CASE ~(k = synced.lines /\ synced.tail # None) /\ ~(k < Len(lines))
  BY Zenon, <1>2, <1>5 DEF TailsAfter
<1> QED BY Zenon, <1>3, <1>4, <1>5

\* A power loss cuts the chain back, never below what was synced.
LEMMA PowerLossStep ==
  ASSUME WalInv, ~halved', PowerLoss
  PROVE  WalInv'
<1>1. PICK k \in synced.lines..Len(lines) :
        /\ lines' = SubSeq(lines, 1, k)
        /\ tail' \in TailsAfter(k)
        /\ synced' = [lines |-> k, tail |-> tail']
  BY Zenon DEF PowerLoss
<1>2. lines \in Seq(Entry) /\ Len(lines) \in Nat /\ synced.lines \in 0..Len(lines)
      /\ k \in 0..Len(lines)
  BY DEF WalInv, FileInv
<1>3. lines' \in Seq(Entry) /\ Len(lines') = k /\ \A i \in 1..k : lines'[i] = lines[i]
  BY <1>1, <1>2, SubSeqProperties
<1>4. tail' \in {None} \cup {Torn(e) : e \in Entry}
  <2>1. tail' = None \/ tail' = Garbage \/ ~tail'.whole
    BY Zenon DEF PowerLoss, NewlineLost, Unterminated
  <2> QED BY Zenon, <1>1, <2>1, TailsAreTorn DEF WalInv
<1>5. ASSUME NEW i \in 1..k PROVE Linked(lines', i)
  <2>1. i \in 1..Len(lines)
    BY <1>2
  <2>2. Linked(lines, i) /\ lines'[i] = lines[i]
    BY Zenon, <1>3, <2>1 DEF WalInv, FileInv
  <2>3. PreviousHash(lines', i) = PreviousHash(lines, i)
    <3>1. CASE i = 1
      BY Zenon, <3>1 DEF PreviousHash
    <3>2. CASE i # 1
      <4>1. i - 1 \in 1..k
        BY <1>2, <3>2
      <4> QED BY Zenon, <1>3, <3>2, <4>1 DEF PreviousHash
    <3> QED BY Zenon, <3>1, <3>2
  <2> QED BY Zenon, <2>2, <2>3 DEF Linked
<1>6. FileInv'
  <2>1. k <= MaxSequence
    BY <1>2, WalAssumption DEF WalInv, FileInv
  <2>2. synced' \in [lines : 0..Len(lines'), tail : {None} \cup {Torn(e) : e \in Entry}]
    BY <1>1, <1>2, <1>3, <1>4
  <2> QED BY Zenon, <1>3, <1>4, <1>5, <2>1, <2>2 DEF FileInv
<1>7. DurableInv'
  <2>1. durable' = durable /\ durable.sequence \in 0..k /\ synced'.lines = k
    BY <1>1, <1>2 DEF PowerLoss, WalInv, DurableInv
  <2> QED BY <1>2, <1>3, <2>1 DEF WalInv, DurableInv
<1>8. WritersInv' /\ ~stray'
  BY Zenon DEF PowerLoss, WritersInv
<1> QED BY Zenon, <1>6, <1>7, <1>8 DEF WalInv

\* Every step of the log preserves the invariant.
LEMMA WalInvStep ==
  ASSUME WalIInv, [Next]_vars
  PROVE  WalIInv'
<1> SUFFICES ASSUME ~halved' PROVE WalInv'
  BY Zenon DEF WalIInv
<1>0. WalInv
  <2>1. halved => halved'
    BY Zenon DEF Next, Open, OpenAsync, AppendBegin, WriteBody, WriteEnd, AppendSync, WriteFails,
           FlushAndSync, SyncFails, Close, Cancel, ProcessDies, PowerLoss, NewlineLost, vars,
           Lands, FlightFails, StrayLands
  <2> QED BY Zenon, <2>1 DEF WalIInv
<1>1. ASSUME NEW w \in Writers, Open(w) PROVE WalInv'
  BY Zenon, <1>0, <1>1, OpenedAtHead DEF Open
<1>2. ASSUME NEW w \in Writers, NEW syncs \in BOOLEAN, OpenAsync(w, syncs) PROVE WalInv'
  BY Zenon, <1>0, <1>2, OpenedAtHead DEF OpenAsync
<1>3. ASSUME NEW w \in Writers, NEW d \in Data, AppendBegin(w, d) PROVE WalInv'
  BY Zenon, <1>0, <1>3, AppendBeginStep
<1>4. ASSUME NEW w \in Writers, WriteBody(w) PROVE WalInv'
  BY Zenon, <1>0, <1>4, WriteBodyStep
<1>5. ASSUME NEW w \in Writers, WriteEnd(w) PROVE WalInv'
  BY Zenon, <1>0, <1>5, WriteEndStep
<1>6. ASSUME NEW w \in Writers, AppendSync(w) PROVE WalInv'
  BY Zenon, <1>0, <1>6, AppendSyncStep
<1>7. ASSUME NEW w \in Writers, WriteFails(w) PROVE WalInv'
  BY Zenon, <1>0, <1>7, WriteFailsStep
<1>8. ASSUME NEW w \in Writers, FlushAndSync(w) PROVE WalInv'
  BY Zenon, <1>0, <1>8, FlushAndSyncStep
<1>9. ASSUME NEW w \in Writers, SyncFails(w) PROVE WalInv'
  BY Zenon, <1>0, <1>9, SyncFailsStep
<1>10. ASSUME NEW w \in Writers, Close(w) PROVE WalInv'
  BY Zenon, <1>0, <1>10, CloseStep
<1>11. ASSUME NEW w \in Writers, ProcessDies(w) PROVE WalInv'
  BY Zenon, <1>0, <1>11, ProcessDiesStep
<1>12. ASSUME NEW w \in Writers, Cancel(w) PROVE WalInv'
  BY Zenon, <1>0, <1>12, CancelStep
<1>13. CASE PowerLoss
  BY Zenon, <1>0, <1>13, PowerLossStep
<1>14. CASE UNCHANGED vars
  <2>1. FileInv' /\ DurableInv'
    BY Zenon, <1>0, <1>14, FileStays DEF vars, file, WalInv, FileInv
  <2> QED BY Zenon, <1>0, <1>14, <2>1, WritersStay DEF vars, file, WalInv
<1>15. ASSUME NEW w \in Writers, Lands(w) PROVE WalInv'
  BY Zenon, <1>0, <1>15, LandsStep
<1>16. ASSUME NEW w \in Writers, FlightFails(w) PROVE WalInv'
  BY Zenon, <1>0, <1>16, FlightFailsStep
<1>17. ~StrayLands
  BY Zenon, <1>0 DEF WalInv, StrayLands
<1> QED BY Zenon, <1>1, <1>2, <1>3, <1>4, <1>5, <1>6, <1>7, <1>8, <1>9, <1>10, <1>11, <1>12, <1>13,
           <1>14, <1>15, <1>16, <1>17 DEF Next

\* The invariant holds of every behaviour of the log.
LEMMA WalInvariant == Spec => []WalIInv
<1>1. Init => WalIInv
  BY Zenon, WalInvInit DEF WalIInv
<1>2. WalIInv /\ [Next]_vars => WalIInv'
  BY Zenon, WalInvStep
<1> QED BY <1>1, <1>2, PTL DEF Spec

-----------------------------------------------------------------------------
\* A writer that accepts an append extends the chain that a reader finds, whatever
\* errors, crashes and other writers came before (WalWriter::append, open_inner).
THEOREM WriterAppendsAtTheHead == Spec => []WriterKnowsHead
<1>1. WalIInv => WriterKnowsHead
  <2> SUFFICES ASSUME WalInv, ~halved, NEW w \in Writers, Accepts(w)
               PROVE  Validates /\ HeadOf(Entries) = [sequence |-> handle[w].sequence,
                                                      hash |-> handle[w].hash]
    BY Zenon DEF WriterKnowsHead, WalIInv
  <2>1. AtHead(handle[w]) /\ tail = None
    BY Zenon DEF WalInv, WritersInv, HandleInv, Accepts, Idle, Opened
  <2>2. Entries = lines /\ Validates
    BY Zenon, <2>1, ReadsLines DEF WalInv
  <2> QED BY Zenon, <2>1, <2>2 DEF AtHead, HeadOf
<1> QED BY <1>1, WalInvariant, PTL

\* What a successful flush_and_sync covered stays in the log, linked and at its place, and
\* the log contains the anchor taken then.  A sync-on-append covers its entry when the
\* entry's last piece was written; one whose last piece failed moves no synced head, though
\* the append returns success (SyncedAppendsInLog does not hold).
THEOREM SyncedEntriesAreKept == Spec => []SyncedEntriesKept
<1>1. WalIInv => SyncedEntriesKept
  <2> SUFFICES ASSUME WalInv PROVE SyncedEntriesReadable
    BY Zenon DEF WalIInv, SyncedEntriesKept
  <2>1. Entries = lines
    BY Zenon, ReadsLines DEF WalInv
  <2>2. durable.sequence \in 0..Len(lines) /\ Len(lines) \in Nat
    BY DEF WalInv, DurableInv, FileInv
  <2>3. \A i \in 1..durable.sequence : Linked(lines, i)
    BY <2>2 DEF WalInv, FileInv
  <2>4. CASE durable.sequence = 0
    <3>1. durable = Start
      BY Zenon, <2>4 DEF WalInv, DurableInv, Start
    <3> QED BY <2>1, <2>2, <2>3, <3>1 DEF SyncedEntriesReadable, ContainsAnchor
  <2>5. CASE durable.sequence # 0
    BY <2>1, <2>2, <2>3, <2>5 DEF SyncedEntriesReadable, ContainsAnchor, WalInv, DurableInv
  <2> QED BY Zenon, <2>4, <2>5
<1> QED BY <1>1, WalInvariant, PTL

\* No line of the log is ever unreadable: nothing is appended behind the remains of a
\* failed or interrupted write (the poison flag of WalWriter).
THEOREM NothingWrittenBehindDamage == Spec => []DamageOnlyAtTheEnd
<1>1. WalIInv => DamageOnlyAtTheEnd
  BY Zenon DEF WalIInv, WalInv, FileInv, Linked, DamageOnlyAtTheEnd
<1> QED BY <1>1, WalInvariant, PTL

-----------------------------------------------------------------------------
(***************************************************************************)
(* What was acknowledged.                                                  *)
(***************************************************************************)
\* A tail of the file.
Tails == Fragment \cup {None, Garbage}

\* The lines and the entry that the tail has begun, whole or not.
Begun(ls, t) == IF t \in Fragment THEN Append(ls, t.entry) ELSE ls

\* Every line and the tail carry the number of their place.  A file that is not
\* numbered never validates, and stays so while its writer has it open.
Numbered(ls, t) ==
  /\ t # Garbage
  /\ \A i \in 1..Len(ls) : ls[i] # Garbage /\ ls[i].sequence = i
  /\ t \in Fragment => t.entry.sequence = Len(ls) + 1

\* The sequence es holds the head of writer h, and at most one entry more.
Holds(es, h) ==
  /\ Len(es) \in {h.sequence, h.sequence + 1}
  /\ h.sequence = 0 => h.hash = Genesis
  /\ h.sequence > 0 => es[h.sequence].hash = h.hash

\* A handle whose sequence number is not bounded by the file.
Place == [sequence : Nat, hash : Hashes, poisoned : BOOLEAN, async : BOOLEAN, syncs : BOOLEAN,
          at : {"idle", "body", "end", "sync"}, entry : Entry \cup {None},
          flight : {"none", "body", "end", "failed"}]

\* Where writer h stands in the file, after dropped appends and lost newlines too.
Stands(ls, t, h) ==
  /\ h \in Place
  /\ ~h.async => h.flight = "none"
  /\ h.at = "idle" => h.entry = None
  /\ h.at # "idle" => h.entry \in Entry /\ h.entry.sequence = h.sequence + 1
  /\ h.at = "body" => h.flight = "none"
  /\ h.at = "end" => h.flight # "end" /\ (h.flight = "none" => t = Torn(h.entry) \/ t = Garbage)
  /\ h.at = "sync" => h.flight # "body"
  /\ h.flight = "end" => t \in Fragment \cup {Garbage}
  /\ Numbered(ls, t) => Holds(Begun(ls, t), h)
  /\ Numbered(ls, t) /\ h.at = "sync" => /\ Len(Begun(ls, t)) = h.sequence + 1
                                         /\ Begun(ls, t)[h.sequence + 1] = h.entry

FileTyped ==
  /\ lines \in Seq(Entry \cup {Garbage})
  /\ tail \in Tails
  /\ synced.lines \in Nat /\ synced.tail \in Tails

AckInv ==
  /\ FileTyped
  /\ DOMAIN handle = Writers
  /\ \A w \in Writers : handle[w] # None => lock = w /\ Stands(lines, tail, handle[w])

-----------------------------------------------------------------------------
\* An absent tail and a garbled one hold no entry; a fragment is neither.
LEMMA FragmentFacts ==
  /\ None \notin Fragment /\ Garbage \notin Fragment /\ None # Garbage
  /\ \A e \in Entry : /\ Torn(e) \in Fragment /\ Torn(e).entry = e /\ ~Torn(e).whole
                      /\ Whole(e) \in Fragment /\ Whole(e).entry = e /\ Whole(e).whole
  /\ \A t \in Fragment : t.entry \in Entry
BY Zenon, ValuesDiffer DEF Fragment, Torn, Whole

\* The fields of an entry, and that no entry is an unreadable line.
LEMMA EntryFacts ==
  /\ \A e \in Entry : e # Garbage /\ e.sequence \in Nat /\ e.hash \in Hashes
  /\ MaxSequence \in Nat
BY ValuesDiffer, WalAssumption DEF Entry

\* What Append does to the lines of a file.
LEMMA LineAppended ==
  ASSUME NEW ls \in Seq(Entry \cup {Garbage}), NEW e \in Entry \cup {Garbage}
  PROVE  /\ Append(ls, e) \in Seq(Entry \cup {Garbage}) /\ Len(ls) \in Nat
         /\ Len(Append(ls, e)) = Len(ls) + 1
         /\ \A i \in 1..Len(ls) : Append(ls, e)[i] = ls[i]
         /\ Append(ls, e)[Len(ls) + 1] = e
OBVIOUS

\* A log that validates is numbered, and what was begun is what is read.
LEMMA ValidIsNumbered ==
  ASSUME FileTyped, Validates
  PROVE  /\ Numbered(lines, tail) /\ Begun(lines, tail) = Entries
         /\ Len(Entries) \in Nat /\ \A i \in 1..Len(Entries) : Entries[i] \in Entry
<1>1. \A i \in 1..Len(Entries) : Entries[i] # Garbage /\ Entries[i].sequence = i
  BY Zenon DEF Validates, Linked
<1>2. CASE tail = None
  <2>1. Entries = lines /\ Begun(lines, tail) = lines
    BY Zenon, <1>2, FragmentFacts DEF Entries, Unterminated, Begun
  <2> QED BY <1>1, <1>2, <2>1, FragmentFacts DEF Numbered, FileTyped
<1>3. CASE tail # None
  <2>1. Unterminated /\ tail # Garbage /\ tail \in Fragment /\ tail.entry \in Entry
    BY Zenon, <1>3, FragmentFacts DEF Validates, Unterminated, FileTyped, Tails
  <2>2. Entries = Append(lines, tail.entry) /\ Begun(lines, tail) = Entries
    BY Zenon, <2>1 DEF Entries, Begun
  <2>3. /\ Len(lines) \in Nat /\ Len(Entries) = Len(lines) + 1
        /\ \A i \in 1..Len(lines) : Entries[i] = lines[i]
        /\ Entries[Len(lines) + 1] = tail.entry
        /\ Entries \in Seq(Entry \cup {Garbage})
    BY <2>1, <2>2, LineAppended DEF FileTyped
  <2>4. Numbered(lines, tail)
    BY <1>1, <2>1, <2>3 DEF Numbered
  <2> QED BY <1>1, <2>2, <2>3, <2>4
<1> QED BY Zenon, <1>2, <1>3

\* A step of one writer, while no other is open.
LEMMA OneStands ==
  ASSUME AckInv, FileTyped', NEW w \in Writers, handle[w] # None \/ lock = None, NEW h,
         handle' = [handle EXCEPT ![w] = h],
         h # None => lock' = w /\ Stands(lines', tail', h)
  PROVE  AckInv'
<1>1. DOMAIN handle' = Writers /\ handle'[w] = h
  BY Zenon DEF AckInv
<1>2. \A v \in Writers : v # w => handle'[v] = None
  BY Zenon, ValuesDiffer DEF AckInv
<1> QED BY Zenon, <1>1, <1>2 DEF AckInv

\* Opening takes its place at the head of a log that validates.
LEMMA OpenStands ==
  ASSUME AckInv, Validates, NEW async \in BOOLEAN, NEW syncs \in BOOLEAN
  PROVE  Stands(lines, tail, OpenHandle(async, syncs))
<1>1. /\ Numbered(lines, tail) /\ Begun(lines, tail) = Entries
      /\ Len(Entries) \in Nat /\ \A i \in 1..Len(Entries) : Entries[i] \in Entry
  BY Zenon, ValidIsNumbered DEF AckInv
<1> DEFINE n == Len(Entries)
           x == HeadOf(Entries).hash
           h == OpenHandle(async, syncs)
<1>2. Entries = <<>> <=> n = 0
  <2>1. Entries \in Seq(Entry \cup {Garbage})
    BY Zenon, LineAppended, FragmentFacts DEF Entries, Unterminated, AckInv, FileTyped, Tails
  <2> QED BY Zenon, <2>1, EmptySeq
<1>3. (n = 0 => x = Genesis) /\ (n > 0 => x = Entries[n].hash)
  BY <1>1, <1>2 DEF HeadOf
<1>4. x \in Hashes
  <2>1. CASE n = 0
    BY Zenon, <1>3, <2>1, WalAssumption
  <2>2. CASE n # 0
    BY <1>1, <1>3, <2>2, EntryFacts
  <2> QED BY Zenon, <2>1, <2>2
<1>5. /\ h.sequence = n /\ h.hash = x /\ h.at = "idle" /\ h \in Place
      /\ h.flight = "none" /\ h.entry = None
  BY Zenon, <1>1, <1>4 DEF OpenHandle, HeadOf, Place
<1> HIDE DEF h, n, x
<1>6. Holds(Entries, h)
  BY Zenon, <1>1, <1>3, <1>5 DEF Holds, n
<1> QED BY Zenon, <1>1, <1>5, <1>6 DEF Stands, h

\* The body of the next entry behind a whole line is a fragment of that entry;
\* behind anything else it is damage.
LEMMA BodyStands ==
  ASSUME AckInv, NEW h, Stands(lines, tail, h), h.at \in {"body", "end"},
         tail' = WithBody(h.entry), lines' = lines
  PROVE  /\ tail' \in Tails /\ (tail' = Torn(h.entry) \/ tail' = Garbage)
         /\ Numbered(lines', tail') => Holds(Begun(lines', tail'), h)
<1>1. h.entry \in Entry /\ h.entry.sequence = h.sequence + 1 /\ h.sequence \in Nat
  BY Zenon DEF Stands, Place
<1>0. lines \in Seq(Entry \cup {Garbage}) /\ h.entry \in Entry \cup {Garbage}
  BY Zenon, <1>1 DEF AckInv, FileTyped
<1>2. CASE tail = None
  <2>1. tail' = Torn(h.entry) /\ tail' \in Fragment /\ tail'.entry = h.entry
    BY Zenon, <1>1, <1>2, FragmentFacts DEF WithBody
  <2>2. /\ Len(lines) \in Nat
        /\ Len(Append(lines, h.entry)) = Len(lines) + 1
        /\ \A i \in 1..Len(lines) : Append(lines, h.entry)[i] = lines[i]
    BY Zenon, <1>0, LineAppended
  <2>3. ASSUME Numbered(lines', tail') PROVE Holds(Begun(lines', tail'), h)
    <3>1. Len(lines) = h.sequence
      BY <1>1, <2>1, <2>2, <2>3 DEF Numbered
    <3>2. Numbered(lines, tail) /\ Begun(lines, tail) = lines
      BY Zenon, <1>2, <2>3, FragmentFacts DEF Numbered, Begun
    <3>3. Holds(lines, h)
      BY Zenon, <3>2 DEF Stands
    <3>4. Begun(lines', tail') = Append(lines, h.entry)
      BY Zenon, <2>1 DEF Begun
    <3> QED BY <1>1, <2>2, <3>1, <3>3, <3>4 DEF Holds
  <2> QED BY Zenon, <2>1, <2>3 DEF Tails
<1>3. CASE tail # None
  <2>1. tail' = Garbage /\ ~Numbered(lines', tail')
    BY Zenon, <1>3 DEF WithBody, Numbered
  <2> QED BY Zenon, <2>1 DEF Tails
<1> QED BY Zenon, <1>2, <1>3

\* The end of a line that was begun changes nothing of what was begun.
LEMMA EndStands ==
  ASSUME FileTyped, tail \in Fragment \cup {Garbage}, EndPiece
  PROVE  /\ lines' \in Seq(Entry \cup {Garbage}) /\ tail' = None
         /\ Numbered(lines', tail') => /\ Numbered(lines, tail)
                                       /\ Begun(lines', tail') = Begun(lines, tail)
<1> DEFINE e == IF tail = Garbage THEN Garbage ELSE tail.entry
<1>1. tail' = None /\ lines' = Append(lines, e)
  BY Zenon DEF EndPiece
<1>2. e \in Entry \cup {Garbage} /\ (tail # Garbage => tail \in Fragment /\ e = tail.entry)
      /\ (tail = Garbage => e = Garbage)
  BY Zenon, FragmentFacts
<1> HIDE DEF e
<1>3. /\ lines' \in Seq(Entry \cup {Garbage}) /\ Len(lines) \in Nat
      /\ Len(lines') = Len(lines) + 1
      /\ \A i \in 1..Len(lines) : lines'[i] = lines[i]
      /\ lines'[Len(lines) + 1] = e
  BY Zenon, <1>1, <1>2, LineAppended DEF FileTyped
<1>4. ASSUME Numbered(lines', tail')
      PROVE  Numbered(lines, tail) /\ Begun(lines', tail') = Begun(lines, tail)
  <2>1. e # Garbage /\ e.sequence = Len(lines) + 1
    BY <1>3, <1>4 DEF Numbered
  <2>2. \A i \in 1..Len(lines) : lines[i] # Garbage /\ lines[i].sequence = i
    BY <1>3, <1>4 DEF Numbered
  <2>3. Numbered(lines, tail)
    BY Zenon, <1>2, <2>1, <2>2 DEF Numbered
  <2>4. Begun(lines, tail) = lines' /\ Begun(lines', tail') = lines'
    BY Zenon, <1>1, <1>2, <2>1, FragmentFacts DEF Begun
  <2> QED BY Zenon, <2>3, <2>4
<1> QED BY Zenon, <1>1, <1>3, <1>4

\* What a piece leaves behind when it is interrupted holds the head of its writer, and the
\* whole entry once the last piece had been begun.
LEMMA PartialStands ==
  ASSUME AckInv, NEW w \in Writers, handle[w] # None, Partial(w), lines' = lines
  PROVE  /\ tail' \in Tails
         /\ Numbered(lines', tail') => Holds(Begun(lines', tail'), handle[w])
         /\ Numbered(lines', tail') /\ handle[w].at = "sync" =>
              /\ Numbered(lines, tail) /\ Begun(lines', tail') = Begun(lines, tail)
<1> DEFINE h == handle[w]
<1>1. Stands(lines, tail, h) /\ tail \in Tails
  BY Zenon DEF AckInv, FileTyped
<1>2. CASE tail' = tail
  BY Zenon, <1>1, <1>2 DEF Stands
<1>3. CASE Underway(w, "body") /\ tail' = Body(w)
  <2>1. h.at # "sync"
    BY Zenon, <1>1, <1>3 DEF Stands, Underway
  <2>2. CASE h.entry = None
    <3>1. tail' = Garbage /\ ~Numbered(lines', tail')
      BY Zenon, <1>3, <2>2 DEF Body, Numbered
    <3> QED BY Zenon, <3>1 DEF Tails
  <2>3. CASE h.entry # None
    <3>1. h.at \in {"body", "end"} /\ tail' = WithBody(h.entry)
      BY Zenon, <1>1, <1>3, <2>1, <2>3 DEF Stands, Place, Body
    <3> QED BY Zenon, <1>1, <2>1, <3>1, BodyStands
  <2> QED BY Zenon, <2>2, <2>3
<1>4. CASE Underway(w, "end") /\ tail' = IF tail = Garbage THEN Garbage ELSE Whole(tail.entry)
  <2>1. CASE tail = Garbage
    BY Zenon, <1>2, <1>4, <2>1
  <2>2. CASE tail # Garbage
    <3>1. tail \in Fragment /\ tail.entry \in Entry
      BY Zenon, <1>1, <1>4, <2>2, FragmentFacts DEF Stands, Underway
    <3>2. tail' \in Fragment /\ tail'.entry = tail.entry
      BY Zenon, <1>4, <2>2, <3>1, FragmentFacts
    <3>3. Begun(lines', tail') = Begun(lines, tail)
      BY Zenon, <3>1, <3>2 DEF Begun
    <3>4. Numbered(lines', tail') => Numbered(lines, tail)
      BY Zenon, <2>2, <3>1, <3>2 DEF Numbered
    <3> QED BY Zenon, <1>1, <3>2, <3>3, <3>4 DEF Stands, Tails
  <2> QED BY Zenon, <2>1, <2>2
<1> QED BY Zenon, <1>2, <1>3, <1>4 DEF Partial

\* A writer that has stopped, with no piece in flight that could end a line, stands where
\* its head is held.
LEMMA StoppedStands ==
  ASSUME NEW ls, NEW t, NEW h, NEW g \in Place,
         Numbered(ls, t) => Holds(Begun(ls, t), h), g.sequence = h.sequence, g.hash = h.hash,
         g.at = "idle", g.entry = None, g.flight # "end", ~g.async => g.flight = "none"
  PROVE  Stands(ls, t, g)
BY Zenon DEF Stands, Holds

\* A writer that failed keeps its head.
LEMMA PoisonedPlace ==
  ASSUME NEW w \in Writers, handle[w] \in Place
  PROVE  /\ Poisoned(w) \in Place /\ Poisoned(w).at = "idle" /\ Poisoned(w).entry = None
         /\ Poisoned(w).flight = "none"
         /\ Poisoned(w).sequence = handle[w].sequence /\ Poisoned(w).hash = handle[w].hash
BY Zenon DEF Poisoned, Place

\* Where a writer stands after an append it acknowledges.
LEMMA AcknowledgedPlace ==
  ASSUME NEW h \in Place, h.entry \in Entry
  PROVE  /\ Acknowledged(h) \in Place /\ Acknowledged(h).at = "idle"
         /\ Acknowledged(h).entry = None /\ Acknowledged(h).flight = h.flight
         /\ Acknowledged(h).async = h.async
         /\ Acknowledged(h).sequence = h.entry.sequence
         /\ Acknowledged(h).hash = h.entry.hash
<1> DEFINE s == h.entry.sequence
           x == h.entry.hash
<1>1. s \in Nat /\ x \in Hashes
  BY Zenon, EntryFacts
<1>2. Acknowledged(h) = [h EXCEPT !.sequence = s, !.hash = x, !.at = "idle", !.entry = None]
  BY Zenon DEF Acknowledged
<1> HIDE DEF s, x
<1>3. /\ Acknowledged(h) \in Place /\ Acknowledged(h).at = "idle"
      /\ Acknowledged(h).entry = None /\ Acknowledged(h).flight = h.flight
      /\ Acknowledged(h).async = h.async
      /\ Acknowledged(h).sequence = s /\ Acknowledged(h).hash = x
  BY Zenon, <1>1, <1>2 DEF Place
<1> QED BY Zenon, <1>3 DEF s, x

\* The head of a writer that acknowledges its entry is held where the entry is the last one.
LEMMA AcknowledgedHolds ==
  ASSUME NEW es, NEW h, NEW g, h.sequence \in Nat, h.entry.sequence = h.sequence + 1,
         Len(es) = h.sequence + 1, es[h.sequence + 1] = h.entry,
         g.sequence = h.entry.sequence, g.hash = h.entry.hash
  PROVE  Holds(es, g)
BY DEF Holds

\* An entry that was begun in its place is the last one begun.
LEMMA BegunIsLast ==
  ASSUME FileTyped, NEW h, h.entry \in Entry, h.entry.sequence = h.sequence + 1, h.sequence \in Nat,
         tail = Torn(h.entry), Numbered(lines, tail)
  PROVE  /\ Len(Begun(lines, tail)) = h.sequence + 1
         /\ Begun(lines, tail)[h.sequence + 1] = h.entry
<1>1. tail \in Fragment /\ tail.entry = h.entry
  BY Zenon, FragmentFacts
<1>2. Begun(lines, tail) = Append(lines, h.entry)
  BY Zenon, <1>1 DEF Begun
<1>3. h.entry.sequence = Len(lines) + 1
  BY Zenon, <1>1 DEF Numbered
<1>4. Len(Append(lines, h.entry)) = Len(lines) + 1 /\ Append(lines, h.entry)[Len(lines) + 1] = h.entry
  BY Zenon, LineAppended DEF FileTyped
<1> QED BY Zenon, <1>2, <1>3, <1>4

\* What survives a power loss is still lines and a tail.
LEMMA PowerLossTyped ==
  ASSUME FileTyped, PowerLoss
  PROVE  FileTyped'
<1>1. PICK k \in synced.lines..Len(lines) :
        /\ lines' = SubSeq(lines, 1, k)
        /\ tail' \in TailsAfter(k)
        /\ synced' = [lines |-> k, tail |-> tail']
  BY Zenon DEF PowerLoss
<1>2. k \in 0..Len(lines) /\ Len(lines) \in Nat /\ lines \in Seq(Entry \cup {Garbage})
  BY DEF FileTyped
<1>3. lines' \in Seq(Entry \cup {Garbage})
  BY <1>1, <1>2, SubSeqProperties
<1>4. tail' \in Tails
  <2>1. tail \in Tails /\ synced.tail \in Tails /\ None \in Tails
    BY Zenon DEF FileTyped, Tails
  <2>2. CASE k < Len(lines)
    <3>1. lines[k + 1] \in Entry \cup {Garbage}
      BY <1>2, <2>2
    <3>2. Cuts(lines[k + 1]) \subseteq Tails
      BY Zenon, <3>1, FragmentFacts DEF Cuts, Tails
    <3> QED BY Zenon, <1>1, <2>1, <2>2, <3>2 DEF TailsAfter
  <2>3. CASE ~(k < Len(lines))
    BY Zenon, <1>1, <2>1, <2>3 DEF TailsAfter
  <2> QED BY Zenon, <2>2, <2>3
<1> QED BY <1>1, <1>2, <1>3, <1>4 DEF FileTyped

\* Every step of the log keeps each open writer in its place, or leaves the file
\* damaged for good.
LEMMA AckStep == AckInv /\ [Next]_vars => AckInv'
<1> SUFFICES ASSUME AckInv, [Next]_vars PROVE AckInv'
  BY Zenon
<1>0. /\ FileTyped /\ DOMAIN handle = Writers
      /\ \A w \in Writers : handle[w] # None => /\ lock = w /\ Stands(lines, tail, handle[w])
                                                /\ handle[w] \in Place
  BY Zenon DEF AckInv, Stands
<1>1. ASSUME NEW w \in Writers, NEW async \in BOOLEAN, NEW syncs \in BOOLEAN, Validates,
             lock = None, lock' = w, Update(w, OpenHandle(async, syncs)), UNCHANGED <<file, synced>>
      PROVE  AckInv'
  <2>1. Stands(lines', tail', OpenHandle(async, syncs)) /\ FileTyped'
    BY Zenon, <1>0, <1>1, OpenStands DEF file, FileTyped
  <2> QED BY Zenon, <1>1, <2>1, OneStands DEF Update
<1>2. ASSUME NEW w \in Writers, NEW d \in Data, AppendBegin(w, d) PROVE AckInv'
  <2> DEFINE h == handle[w]
             e == [sequence |-> h.sequence + 1, previous |-> h.hash,
                   data |-> d, hash |-> Hash(h.hash, d)]
             g == [h EXCEPT !.at = "body", !.entry = e]
  <2>1. /\ h # None /\ h.flight = "none" /\ h.sequence < MaxSequence
        /\ handle' = [handle EXCEPT ![w] = g] /\ UNCHANGED <<lines, tail, synced, lock>>
    BY Zenon, <1>2 DEF AppendBegin, Accepts, Idle, Opened, Update, file
  <2>2. lock = w /\ Stands(lines, tail, h) /\ h \in Place
    BY Zenon, <1>0, <2>1
  <2>3. e \in Entry /\ e.sequence = h.sequence + 1
    BY <2>1, <2>2, WalAssumption DEF Entry, Place
  <2> HIDE DEF e
  <2>4. /\ g \in Place /\ g.sequence = h.sequence /\ g.hash = h.hash /\ g.at = "body"
        /\ g.entry = e /\ g.flight = "none"
    BY Zenon, <2>1, <2>2, <2>3 DEF Place
  <2> HIDE DEF g
  <2>5. Stands(lines', tail', g) /\ FileTyped'
    BY Zenon, <1>0, <2>1, <2>2, <2>3, <2>4 DEF FileTyped, Stands, Holds
  <2> QED BY Zenon, <2>1, <2>2, <2>5, OneStands
<1>3. ASSUME NEW w \in Writers, WriteBody(w) PROVE AckInv'
  <2> DEFINE h == handle[w]
             f == IF h.async THEN "body" ELSE "none"
             g == [h EXCEPT !.at = "end", !.flight = f]
  <2>1. /\ h # None /\ h.at = "body" /\ (h.async => tail' = tail)
        /\ (~h.async => tail' = WithBody(h.entry))
        /\ handle' = [handle EXCEPT ![w] = g] /\ UNCHANGED <<lines, synced, lock>>
    BY Zenon, <1>3 DEF WriteBody, Writing, Opened, Update
  <2>2. lock = w /\ Stands(lines, tail, h) /\ h \in Place
    BY Zenon, <1>0, <2>1
  <2>3. f \in {"none", "body"} /\ (h.async => f = "body") /\ (~h.async => f = "none")
    BY Zenon
  <2> HIDE DEF f
  <2>4. /\ g \in Place /\ g.sequence = h.sequence /\ g.hash = h.hash /\ g.at = "end"
        /\ g.entry = h.entry /\ g.flight = f /\ g.async = h.async
    BY Zenon, <2>2, <2>3 DEF Place
  <2> HIDE DEF g
  <2>5. /\ tail' \in Tails /\ (Numbered(lines', tail') => Holds(Begun(lines', tail'), h))
        /\ (~h.async => tail' = Torn(h.entry) \/ tail' = Garbage)
    <3>1. CASE h.async
      BY Zenon, <1>0, <2>1, <2>2, <3>1 DEF Stands, FileTyped
    <3>2. CASE ~h.async
      BY Zenon, <2>1, <2>2, <3>2, BodyStands
    <3> QED BY Zenon, <3>1, <3>2
  <2>6. Stands(lines', tail', g)
    BY Zenon, <2>1, <2>2, <2>3, <2>4, <2>5 DEF Stands, Holds
  <2>7. FileTyped'
    BY Zenon, <1>0, <2>1, <2>5 DEF FileTyped
  <2> QED BY Zenon, <2>1, <2>2, <2>6, <2>7, OneStands
<1>4. ASSUME NEW w \in Writers, WriteEnd(w) PROVE AckInv'
  <2> DEFINE h == handle[w]
             f == IF h.async THEN "end" ELSE "none"
             k == [h EXCEPT !.flight = f]
             g == Ended(k)
  <2>1. /\ h # None /\ h.at = "end" /\ h.flight = "none" /\ lock' = lock /\ synced' = synced
        /\ handle' = [handle EXCEPT ![w] = g]
        /\ (h.async => UNCHANGED <<lines, tail>>) /\ (~h.async => EndPiece)
    BY Zenon, <1>4 DEF WriteEnd, Writing, Opened, Update, file
  <2>2. /\ lock = w /\ Stands(lines, tail, h) /\ h \in Place /\ h.entry \in Entry
        /\ h.entry.sequence = h.sequence + 1 /\ h.sequence \in Nat
        /\ (tail = Torn(h.entry) \/ tail = Garbage)
    BY Zenon, <1>0, <2>1 DEF Stands, Place
  <2>3. tail \in Fragment \cup {Garbage}
    BY Zenon, <2>2, FragmentFacts
  <2>4. /\ lines' \in Seq(Entry \cup {Garbage}) /\ tail' \in Tails
        /\ Numbered(lines', tail') => /\ Numbered(lines, tail)
                                      /\ Begun(lines', tail') = Begun(lines, tail)
    <3>1. CASE h.async
      BY Zenon, <1>0, <2>1, <3>1 DEF FileTyped
    <3>2. CASE ~h.async
      BY Zenon, <1>0, <2>1, <2>3, <3>2, EndStands DEF Tails
    <3> QED BY Zenon, <3>1, <3>2
  <2>5. Numbered(lines', tail') => /\ Len(Begun(lines', tail')) = h.sequence + 1
                                  /\ Begun(lines', tail')[h.sequence + 1] = h.entry
                                  /\ Holds(Begun(lines', tail'), h)
    <3> SUFFICES ASSUME Numbered(lines', tail')
                 PROVE  /\ Len(Begun(lines', tail')) = h.sequence + 1
                        /\ Begun(lines', tail')[h.sequence + 1] = h.entry
                        /\ Holds(Begun(lines', tail'), h)
      BY Zenon
    <3>1. Numbered(lines, tail) /\ tail = Torn(h.entry)
      BY Zenon, <2>2, <2>4 DEF Numbered
    <3>2. Len(Begun(lines, tail)) = h.sequence + 1 /\ Begun(lines, tail)[h.sequence + 1] = h.entry
      BY Zenon, <1>0, <2>2, <3>1, BegunIsLast
    <3> QED BY Zenon, <2>2, <2>4, <3>1, <3>2 DEF Stands
  <2>6. f \in {"none", "end"} /\ (h.async => f = "end") /\ (~h.async => f = "none")
    BY Zenon
  <2> HIDE DEF f
  <2>7. /\ k \in Place /\ k.sequence = h.sequence /\ k.hash = h.hash /\ k.entry = h.entry
        /\ k.flight = f /\ k.async = h.async
    BY Zenon, <2>2, <2>6 DEF Place
  <2> HIDE DEF k
  <2>8. f = "end" => tail' \in Fragment \cup {Garbage}
    BY Zenon, <2>1, <2>3, <2>6
  <2>9. Stands(lines', tail', g)
    <3>1. CASE k.syncs
      <4>1. g = [k EXCEPT !.at = "sync"]
        BY Zenon, <3>1 DEF Ended
      <4>2. /\ g \in Place /\ g.sequence = h.sequence /\ g.hash = h.hash /\ g.at = "sync"
            /\ g.entry = h.entry /\ g.flight = f /\ g.async = h.async
        BY Zenon, <2>7, <4>1 DEF Place
      <4> HIDE DEF g
      <4> QED BY Zenon, <2>2, <2>5, <2>6, <2>8, <4>2 DEF Stands, Holds
    <3>2. CASE ~k.syncs
      <4>1. g = Acknowledged(k)
        BY Zenon, <3>2 DEF Ended
      <4>2. /\ g \in Place /\ g.sequence = h.entry.sequence /\ g.hash = h.entry.hash
            /\ g.at = "idle" /\ g.entry = None /\ g.flight = f /\ g.async = h.async
        BY Zenon, <2>2, <2>7, <4>1, AcknowledgedPlace
      <4> HIDE DEF g
      <4>3. Numbered(lines', tail') => Holds(Begun(lines', tail'), g)
        BY Zenon, <2>2, <2>5, <4>2, AcknowledgedHolds
      <4> QED BY Zenon, <2>6, <2>8, <4>2, <4>3 DEF Stands
    <3> QED BY Zenon, <3>1, <3>2
  <2>10. FileTyped'
    BY Zenon, <1>0, <2>1, <2>4 DEF FileTyped
  <2> HIDE DEF g
  <2> QED BY Zenon, <2>1, <2>2, <2>9, <2>10, OneStands
<1>5. ASSUME NEW w \in Writers, Lands(w) PROVE AckInv'
  <2> DEFINE h == handle[w]
             g == [h EXCEPT !.flight = "none"]
  <2>1. /\ h # None /\ h.flight \in {"body", "end"} /\ handle' = [handle EXCEPT ![w] = g]
        /\ UNCHANGED <<synced, lock>>
        /\ (h.flight = "body" => tail' = Body(w) /\ lines' = lines)
        /\ (h.flight # "body" => EndPiece)
    BY Zenon, <1>5 DEF Lands, InFlight, Opened, Update
  <2>2. lock = w /\ Stands(lines, tail, h) /\ h \in Place
    BY Zenon, <1>0, <2>1
  <2>3. /\ g \in Place /\ g.sequence = h.sequence /\ g.hash = h.hash /\ g.at = h.at
        /\ g.entry = h.entry /\ g.flight = "none"
    BY Zenon, <2>2 DEF Place
  <2> HIDE DEF g
  <2>4. CASE h.flight = "body"
    <3>1. CASE h.at = "idle"
      <4>1. tail' = Garbage /\ lines' = lines /\ ~Numbered(lines', tail')
        BY Zenon, <2>1, <2>2, <2>4, <3>1 DEF Stands, Body, Numbered
      <4>2. Stands(lines', tail', g) /\ FileTyped'
        BY Zenon, <1>0, <2>1, <2>2, <2>3, <3>1, <4>1 DEF Stands, FileTyped, Tails
      <4> QED BY Zenon, <2>1, <2>2, <4>2, OneStands
    <3>2. CASE h.at # "idle"
      <4>1. h.at = "end" /\ h.entry \in Entry /\ tail' = WithBody(h.entry) /\ lines' = lines
        BY Zenon, <2>1, <2>2, <2>4, <3>2, ValuesDiffer DEF Stands, Body, Place
      <4>2. /\ tail' \in Tails /\ (tail' = Torn(h.entry) \/ tail' = Garbage)
            /\ Numbered(lines', tail') => Holds(Begun(lines', tail'), h)
        BY Zenon, <2>2, <4>1, BodyStands
      <4>3. Stands(lines', tail', g)
        BY Zenon, <2>2, <2>3, <4>1, <4>2 DEF Stands, Holds
      <4>4. FileTyped'
        BY Zenon, <1>0, <2>1, <4>1, <4>2 DEF FileTyped
      <4> QED BY Zenon, <2>1, <2>2, <4>3, <4>4, OneStands
    <3> QED BY Zenon, <3>1, <3>2
  <2>5. CASE h.flight = "end"
    <3>1. tail \in Fragment \cup {Garbage} /\ h.at \notin {"body", "end"}
      BY Zenon, <2>2, <2>5 DEF Stands
    <3>2. /\ lines' \in Seq(Entry \cup {Garbage}) /\ tail' = None
          /\ Numbered(lines', tail') => /\ Numbered(lines, tail)
                                        /\ Begun(lines', tail') = Begun(lines, tail)
      BY Zenon, <1>0, <2>1, <2>5, <3>1, EndStands
    <3>3. Stands(lines', tail', g)
      BY Zenon, <2>2, <2>3, <3>1, <3>2 DEF Stands, Holds
    <3>4. FileTyped'
      BY Zenon, <1>0, <2>1, <3>2 DEF FileTyped, Tails
    <3> QED BY Zenon, <2>1, <2>2, <3>3, <3>4, OneStands
  <2> QED BY Zenon, <2>1, <2>4, <2>5
<1>6. ASSUME NEW w \in Writers, AppendSync(w) PROVE AckInv'
  <2> DEFINE h == handle[w]
             g == Acknowledged(h)
  <2>1. /\ h # None /\ h.at = "sync" /\ h.flight \notin {"body", "end"}
        /\ handle' = [handle EXCEPT ![w] = g]
        /\ synced' = [lines |-> Len(lines), tail |-> tail] /\ UNCHANGED <<lines, tail, lock>>
    BY Zenon, <1>6 DEF AppendSync, InFlight, Opened, Update, file
  <2>2. /\ lock = w /\ Stands(lines, tail, h) /\ h \in Place /\ h.entry \in Entry
        /\ h.entry.sequence = h.sequence + 1 /\ h.sequence \in Nat
    BY Zenon, <1>0, <2>1 DEF Stands, Place
  <2>3. /\ g \in Place /\ g.sequence = h.entry.sequence /\ g.hash = h.entry.hash
        /\ g.at = "idle" /\ g.entry = None /\ g.flight = h.flight /\ g.async = h.async
    BY Zenon, <2>2, AcknowledgedPlace
  <2> HIDE DEF g
  <2>4. Numbered(lines, tail) => Holds(Begun(lines, tail), g)
    BY Zenon, <2>1, <2>2, <2>3, AcknowledgedHolds DEF Stands
  <2>5. Stands(lines', tail', g)
    BY Zenon, <2>1, <2>2, <2>3, <2>4 DEF Stands
  <2>6. FileTyped'
    BY <1>0, <2>1 DEF FileTyped
  <2> QED BY Zenon, <2>1, <2>2, <2>5, <2>6, OneStands
<1>7. ASSUME NEW w \in Writers, WriteFails(w) PROVE AckInv'
  <2>1. /\ handle[w] # None /\ Partial(w) /\ handle' = [handle EXCEPT ![w] = Poisoned(w)]
        /\ UNCHANGED <<lines, synced, lock>>
    BY Zenon, <1>7 DEF WriteFails, Writing, Opened, Update, Partial
  <2>2. tail' \in Tails /\ (Numbered(lines', tail') => Holds(Begun(lines', tail'), handle[w]))
    BY Zenon, <2>1, PartialStands
  <2>3. Stands(lines', tail', Poisoned(w)) /\ lock = w
    BY Zenon, <1>0, <2>1, <2>2, PoisonedPlace, StoppedStands
  <2>4. FileTyped'
    BY Zenon, <1>0, <2>1, <2>2 DEF FileTyped
  <2> QED BY Zenon, <2>1, <2>3, <2>4, OneStands
<1>8. ASSUME NEW w \in Writers, FlushAndSync(w) PROVE AckInv'
  <2>1. synced' = [lines |-> Len(lines), tail |-> tail] /\ UNCHANGED <<lines, tail, lock, handle>>
    BY Zenon, <1>8 DEF FlushAndSync, file
  <2>2. FileTyped'
    BY <1>0, <2>1 DEF FileTyped
  <2> QED BY Zenon, <1>0, <2>1, <2>2 DEF AckInv
<1>9. ASSUME NEW w \in Writers, SyncFails(w) PROVE AckInv'
  <2>1. /\ handle[w] # None /\ handle' = [handle EXCEPT ![w] = Poisoned(w)]
        /\ UNCHANGED <<lines, tail, synced, lock>>
    BY Zenon, <1>9 DEF SyncFails, Idle, Opened, Update, file
  <2>2. Numbered(lines', tail') => Holds(Begun(lines', tail'), handle[w])
    BY Zenon, <1>0, <2>1 DEF Stands
  <2>3. Stands(lines', tail', Poisoned(w)) /\ lock = w /\ FileTyped'
    BY Zenon, <1>0, <2>1, <2>2, PoisonedPlace, StoppedStands DEF FileTyped
  <2> QED BY Zenon, <2>1, <2>3, OneStands
<1>10. ASSUME NEW w \in Writers, Close(w) PROVE AckInv'
  <2>1. handle[w] # None /\ handle' = [handle EXCEPT ![w] = None] /\ synced' = synced
    BY Zenon, <1>10 DEF Close, Opened, Update
  <2>2. lines' \in Seq(Entry \cup {Garbage}) /\ tail' \in Tails
    <3>1. CASE UNCHANGED file
      BY Zenon, <1>0, <3>1 DEF FileTyped, file
    <3>2. CASE handle[w].flight = "end" /\ EndPiece
      <4>1. tail \in Fragment \cup {Garbage}
        BY Zenon, <1>0, <2>1, <3>2 DEF Stands
      <4> QED BY Zenon, <1>0, <3>2, <4>1, EndStands DEF Tails
    <3>3. CASE Partial(w) /\ UNCHANGED lines
      BY Zenon, <1>0, <2>1, <3>3, PartialStands DEF FileTyped
    <3> QED BY Zenon, <1>10, <3>1, <3>2, <3>3 DEF Close
  <2>3. FileTyped'
    BY Zenon, <1>0, <2>1, <2>2 DEF FileTyped
  <2> QED BY Zenon, <2>1, <2>3, OneStands
<1>11. ASSUME NEW w \in Writers, Cancel(w) PROVE AckInv'
  <2> DEFINE h == handle[w]
             g == [h EXCEPT !.at = "idle", !.entry = None]
  <2>1. h # None /\ handle' = [handle EXCEPT ![w] = g] /\ UNCHANGED <<lines, tail, synced, lock>>
    BY Zenon, <1>11 DEF Cancel, Opened, Update, file
  <2>2. lock = w /\ h \in Place /\ Stands(lines, tail, h)
    BY Zenon, <1>0, <2>1
  <2>3. /\ g \in Place /\ g.sequence = h.sequence /\ g.hash = h.hash /\ g.at = "idle"
        /\ g.entry = None /\ g.flight = h.flight /\ g.async = h.async
    BY Zenon, <2>2 DEF Place
  <2> HIDE DEF g
  <2>4. Stands(lines', tail', g) /\ FileTyped'
    BY Zenon, <1>0, <2>1, <2>2, <2>3 DEF Stands, Holds, FileTyped
  <2> QED BY Zenon, <2>1, <2>2, <2>4, OneStands
<1>12. ASSUME NEW w \in Writers, ProcessDies(w) PROVE AckInv'
  <2>1. /\ handle[w] # None /\ Partial(w) /\ handle' = [handle EXCEPT ![w] = None]
        /\ UNCHANGED <<lines, synced>>
    BY Zenon, <1>12 DEF ProcessDies, Opened, Update
  <2>2. FileTyped'
    BY Zenon, <1>0, <2>1, PartialStands DEF FileTyped
  <2> QED BY Zenon, <2>1, <2>2, OneStands
<1>13. CASE PowerLoss
  BY Zenon, <1>0, <1>13, PowerLossTyped DEF PowerLoss, AckInv
<1>14. CASE UNCHANGED vars
  BY Zenon, <1>0, <1>14 DEF vars, file, AckInv, FileTyped
<1>15. ASSUME NEW w \in Writers, Open(w) PROVE AckInv'
  BY Zenon, <1>1, <1>15 DEF Open
<1>16. ASSUME NEW w \in Writers, NEW syncs \in BOOLEAN, OpenAsync(w, syncs) PROVE AckInv'
  BY Zenon, <1>1, <1>16 DEF OpenAsync
<1>17. ASSUME NEW w \in Writers, FlightFails(w) PROVE AckInv'
  <2> DEFINE h == handle[w]
             g == [h EXCEPT !.flight = "failed"]
  <2>1. /\ h # None /\ h.flight \in {"body", "end"} /\ Partial(w)
        /\ handle' = [handle EXCEPT ![w] = g] /\ UNCHANGED <<lines, synced, lock>>
    BY Zenon, <1>17 DEF FlightFails, InFlight, Opened, Update
  <2>2. lock = w /\ h \in Place /\ Stands(lines, tail, h)
    BY Zenon, <1>0, <2>1
  <2>3. /\ g \in Place /\ g.sequence = h.sequence /\ g.hash = h.hash /\ g.at = h.at
        /\ g.entry = h.entry /\ g.flight = "failed" /\ g.async = h.async
    BY Zenon, <2>2 DEF Place
  <2> HIDE DEF g
  <2>4. /\ tail' \in Tails
        /\ Numbered(lines', tail') => Holds(Begun(lines', tail'), h)
        /\ Numbered(lines', tail') /\ h.at = "sync" =>
             /\ Numbered(lines, tail) /\ Begun(lines', tail') = Begun(lines, tail)
    BY Zenon, <2>1, PartialStands
  <2>5. Stands(lines', tail', g)
    BY Zenon, <2>1, <2>2, <2>3, <2>4 DEF Stands, Holds
  <2>6. FileTyped'
    BY Zenon, <1>0, <2>1, <2>4 DEF FileTyped
  <2> QED BY Zenon, <2>1, <2>2, <2>5, <2>6, OneStands
<1>18. ASSUME StrayLands PROVE AckInv'
  <2>1. tail' = Garbage /\ UNCHANGED <<lines, synced, lock, handle>> /\ ~Numbered(lines', tail')
    BY Zenon, <1>18 DEF StrayLands, Numbered
  <2>2. ASSUME NEW w \in Writers, handle[w] # None PROVE Stands(lines', tail', handle[w])
    BY Zenon, <1>0, <2>1, <2>2 DEF Stands
  <2>3. FileTyped'
    BY Zenon, <1>0, <2>1 DEF FileTyped, Tails
  <2> QED BY Zenon, <1>0, <2>1, <2>2, <2>3 DEF AckInv
<1> QED BY Zenon, <1>2, <1>3, <1>4, <1>5, <1>6, <1>7, <1>8, <1>9, <1>10, <1>11, <1>12, <1>13, <1>14,
           <1>15, <1>16, <1>17, <1>18 DEF Next

\* Whatever failed, was dropped or was lost, a log that validates while a writer has it
\* open holds all that writer acknowledged and at most the entry it is about to
\* acknowledge (WalWriter::append, AsyncWalWriter::append).
THEOREM AcknowledgedIsReadOrRefused == Spec => []AcknowledgedOrRefused
<1>1. Init => AckInv
  BY DEF Init, AckInv, FileTyped, Tails
<1>2. AckInv => AcknowledgedOrRefused
  <2> SUFFICES ASSUME AckInv, NEW w \in Writers, handle[w] # None, Validates
               PROVE  /\ ContainsAnchor([sequence |-> handle[w].sequence, hash |-> handle[w].hash])
                      /\ Len(Entries) <= handle[w].sequence + 1
    BY Zenon DEF AcknowledgedOrRefused, Opened
  <2>1. Numbered(lines, tail) /\ Begun(lines, tail) = Entries /\ Len(Entries) \in Nat
    BY Zenon, ValidIsNumbered DEF AckInv
  <2>2. Holds(Entries, handle[w]) /\ handle[w].sequence \in Nat
    BY Zenon, <2>1 DEF AckInv, Stands, Place
  <2> QED BY <2>1, <2>2 DEF Holds, ContainsAnchor, Start
<1> QED BY <1>1, <1>2, AckStep, PTL DEF Spec
=============================================================================
