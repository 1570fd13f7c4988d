--------------------------- MODULE CheckpointProofs ---------------------------
(***************************************************************************)
(* Machine-checked theorems about the checkpoints, coordinated and plain:  *)
(* a recovered ledger is the effect of its log, and a checkpoint that was  *)
(* returned is kept.  For any set of mutations, length of the log and      *)
(* allocator.                                                              *)
(*                                                                         *)
(* The invariant follows a checkpoint through its steps and says what the  *)
(* file that recovery starts from may hold, in the directory and on the    *)
(* disk: the digest of the log it names, never a version older than one    *)
(* that was returned, and for a plain checkpoint a prefix of the log       *)
(* unless it is ahead of it.                                               *)
(***************************************************************************)
EXTENDS CoordinatedCheckpoint, SequenceTheorems, TLAPS

\* Ledger s is what ledger t was earlier.
Begins(s, t) == Len(s) <= Len(t) /\ SubSeq(t, 1, Len(s)) = s

PlainSteps == {"save checkpoint", "sync checkpoint"}
Steps == {"idle", "snapshot", "save snapshot", "sync snapshot", "save anchor", "sync anchor",
          "save manifest", "sync manifest"} \cup PlainSteps

\* What recovery would start from in directory d.
CommittedIn(d) == d[IF coordinated THEN ManifestFile ELSE CheckpointFile]

\* The shape of the state.
CkptTypes ==
  /\ coordinated \in BOOLEAN /\ poisoned \in BOOLEAN
  /\ wal \in Ledgers /\ synced \in 0..Len(wal)
  /\ ledger \in Ledgers \cup {None}
  /\ nextId \in 1..MaxId /\ returned \in 0..MaxId
  /\ boundary \in {"free", "mutation", "checkpoint"}
  /\ at \in Steps
  /\ DOMAIN directory = Paths /\ DOMAIN disk = Paths

\* Which ledger goes with which log, and who is inside the admission boundary.
BoundaryInv ==
  /\ boundary # "free" => Up /\ ~poisoned
  /\ boundary = "checkpoint" <=> at # "idle"
  /\ boundary = "mutation" => \E m \in Mutations : ledger = Append(wal, m)
  /\ Up /\ ~poisoned /\ boundary # "mutation" => ledger = wal

\* What a checkpoint under way holds in its local variables.
GenerationInv ==
  at # "idle" =>
    /\ coordinated <=> at \notin PlainSteps
    /\ DOMAIN generation = {"anchor", "snapshot"}
    /\ generation.anchor = wal
    /\ at # "snapshot" =>
         /\ generation.snapshot \in Snapshot
         /\ generation.snapshot.ledger = wal
         /\ generation.snapshot.watermark = Len(wal)
         /\ Version <= nextId

\* A file f that recovery may start from: a manifest of a prefix of some log, or a snapshot
\* that is a prefix of the log l unless its watermark is ahead of it.
ManifestOK(f) == f \in Manifest /\ f.digest = f.hash /\ f.sequence = Len(f.hash)
SnapshotOK(f, l) ==
  /\ f \in Snapshot /\ f.watermark = Len(f.ledger)
  /\ f.watermark <= Len(l) => Begins(f.ledger, l)
FileOK(f, c, l) == f # None => IF c THEN ManifestOK(f) ELSE SnapshotOK(f, l)

\* Its version lies between two others.
AgeOK(f, least, most) ==
  /\ least > 0 => f # None /\ f.version >= least
  /\ f # None => f.version <= most

Ahead(f, l) == f # None /\ f.watermark > Len(l)

\* The version that no file is newer than.
Newest ==
  IF at \notin {"idle", "snapshot"} THEN Version ELSE IF Up THEN nextId ELSE MaxId

\* The file system and the disk.  A plain snapshot is ahead of the log only after a power loss,
\* when the disk and the directory agree.
FilesInv ==
  /\ FileOK(CommittedIn(directory), coordinated, wal)
  /\ FileOK(CommittedIn(disk), coordinated, wal)
  /\ AgeOK(CommittedIn(directory), returned, Newest)
  /\ AgeOK(CommittedIn(disk), returned, Newest)
  /\ CommittedIn(disk) # None =>
       /\ CommittedIn(directory) # None
       /\ CommittedIn(disk).version <= CommittedIn(directory).version
  /\ at \in {"sync manifest", "sync checkpoint"} =>
       CommittedIn(directory) # None /\ CommittedIn(directory).version = Version
  /\ ~coordinated =>
       \/ ~Ahead(CommittedIn(directory), wal) /\ ~Ahead(CommittedIn(disk), wal)
       \/ ~Up /\ CommittedIn(directory) = CommittedIn(disk)

CkptIInv == CkptTypes /\ BoundaryInv /\ GenerationInv /\ FilesInv

-----------------------------------------------------------------------------
\* The ledgers are the sequences of mutations up to the bound.
LEMMA LedgersAreSeqs ==
  \A s : s \in Ledgers <=> s \in Seq(Mutations) /\ Len(s) <= MaxLog
<1> TAKE s
<1>1. ASSUME s \in Ledgers PROVE s \in Seq(Mutations) /\ Len(s) <= MaxLog
  <2>1. PICK n \in 0..MaxLog : s \in [1..n -> Mutations]
    BY Zenon, <1>1 DEF Ledgers
  <2> QED BY <2>1, CheckpointAssumption
<1>2. ASSUME s \in Seq(Mutations), Len(s) <= MaxLog PROVE s \in Ledgers
  <2>1. s \in [1..Len(s) -> Mutations] /\ Len(s) \in 0..MaxLog
    BY <1>2, CheckpointAssumption
  <2> QED BY Zenon, <2>1 DEF Ledgers
<1> QED BY Zenon, <1>1, <1>2

\* Replaying what is behind a prefix gives the whole.
LEMMA ReplayCompletes ==
  ASSUME NEW s \in Ledgers, NEW t \in Ledgers, Begins(s, t)
  PROVE  s \o SubSeq(t, Len(s) + 1, Len(t)) = t
<1>1. s \in Seq(Mutations) /\ t \in Seq(Mutations) /\ Len(s) <= Len(t)
  BY Zenon, LedgersAreSeqs DEF Begins
<1>2. s = SubSeq(t, 1, Len(s))
  BY Zenon DEF Begins
<1>3. SubSeq(t, 1, Len(s)) \o SubSeq(t, Len(s) + 1, Len(t)) = SubSeq(t, 1, Len(t))
  <2>1. 1 \in 1..Len(t) + 1 /\ Len(s) \in (1 - 1)..Len(t) /\ Len(t) \in Len(s)..Len(t)
    BY <1>1
  <2> QED BY ONLY Zenon, <1>1, <2>1, ConcatAdjacentSubSeq
<1> QED BY Zenon, <1>1, <1>2, <1>3, SubSeqFull

\* A prefix stays one when the log grows, and when it is cut behind it.
LEMMA PrefixGrows ==
  ASSUME NEW s \in Ledgers, NEW t \in Ledgers, NEW m \in Mutations, Begins(s, t)
  PROVE  Begins(s, Append(t, m))
<1>1. s \in Seq(Mutations) /\ t \in Seq(Mutations) /\ Len(s) <= Len(t)
  BY Zenon, LedgersAreSeqs DEF Begins
<1>2. SubSeq(Append(t, m), 1, Len(s)) = SubSeq(t, 1, Len(s))
  BY <1>1
<1> QED BY <1>1, <1>2 DEF Begins

\* A prefix of a log is a prefix of what a cut behind it leaves.
LEMMA PrefixCut ==
  ASSUME NEW s \in Ledgers, NEW t \in Ledgers, NEW n \in 0..Len(t), Begins(s, t), Len(s) <= n
  PROVE  Begins(s, SubSeq(t, 1, n))
<1>1. s \in Seq(Mutations) /\ t \in Seq(Mutations) /\ Len(s) <= Len(t)
  BY Zenon, LedgersAreSeqs DEF Begins
<1>2. SubSeq(SubSeq(t, 1, n), 1, Len(s)) = SubSeq(t, 1, Len(s))
  BY <1>1
<1> QED BY <1>1, <1>2 DEF Begins

\* What a power loss leaves of a log is a log.
LEMMA CutIsLedger ==
  ASSUME NEW t \in Ledgers, NEW n \in 0..Len(t)
  PROVE  SubSeq(t, 1, n) \in Ledgers /\ Len(SubSeq(t, 1, n)) = n
<1>1. t \in Seq(Mutations) /\ Len(t) <= MaxLog
  BY Zenon, LedgersAreSeqs
<1>2. SubSeq(t, 1, n) \in Seq(Mutations) /\ Len(SubSeq(t, 1, n)) = n
  BY <1>1
<1>3. n <= MaxLog
  BY <1>1, CheckpointAssumption
<1> QED BY Zenon, <1>2, <1>3, LedgersAreSeqs

\* A log begins with itself.
LEMMA SelfPrefix ==
  \A s \in Ledgers : Begins(s, s)
<1> TAKE s \in Ledgers
<1>1. s \in Seq(Mutations)
  BY Zenon, LedgersAreSeqs
<1>2. Len(s) <= Len(s)
  BY <1>1
<1> QED BY Zenon, <1>1, <1>2, SubSeqFull DEF Begins

\* The length of a log is within the bound.
LEMMA LedgerLen ==
  \A s \in Ledgers : Len(s) \in 0..MaxLog
BY LedgersAreSeqs, CheckpointAssumption

\* The three kinds of paths differ.
LEMMA PathsDiffer ==
  /\ ManifestFile \in Paths /\ CheckpointFile \in Paths /\ ManifestFile # CheckpointFile
  /\ \A v, n : /\ SnapshotFile(v, n) \notin {ManifestFile, CheckpointFile}
               /\ AnchorFile(v, n) \notin {ManifestFile, CheckpointFile}
BY Zenon DEF ManifestFile, CheckpointFile, Paths, SnapshotFile, AnchorFile

\* The version of a committed file.
LEMMA CommittedTyped ==
  ASSUME NEW f, NEW c, NEW l, FileOK(f, c, l), f # None
  PROVE  f.version \in 1..MaxId /\ f.version \in Nat
BY CheckpointAssumption
   DEF FileOK, ManifestOK, SnapshotOK, Manifest, Snapshot

\* A file that is not newer than one version is not newer than a later one.
LEMMA AgeMonotone ==
  ASSUME NEW f, NEW least \in Nat, NEW m \in Nat, NEW n \in Nat, m <= n,
         f # None => f.version \in Nat, AgeOK(f, least, m)
  PROVE  AgeOK(f, least, n)
BY DEF AgeOK

\* The allocator and the last version that was returned are numbers.
LEMMA CountersTyped ==
  CkptIInv => nextId \in Nat /\ nextId \in 1..MaxId /\ returned \in Nat
BY CheckpointAssumption DEF CkptIInv, CkptTypes

\* The newest version that was given out is one of the allocator.
LEMMA NewestTyped ==
  CkptIInv => Newest \in 1..MaxId /\ Newest \in Nat
BY CheckpointAssumption
   DEF CkptIInv, Newest, CkptTypes, GenerationInv, Version, Snapshot

\* The invariant holds at the start.
LEMMA CkptInit ==
  Init => CkptIInv
<1> SUFFICES ASSUME Init PROVE CkptIInv
  BY Zenon
<1>1. <<>> \in Ledgers /\ Len(<<>>) = 0
  <2>1. <<>> \in Seq(Mutations) /\ Len(<<>>) = 0 /\ 0 <= MaxLog
    BY CheckpointAssumption
  <2> QED BY Zenon, <2>1, LedgersAreSeqs
<1>2. Up
  BY Zenon, <1>1, CheckpointAssumption DEF Init, Up
<1>3. CommittedIn(directory) = None
  BY Zenon, PathsDiffer DEF Init, CommittedIn
<1>4. CommittedIn(disk) = None
  BY Zenon, <1>3 DEF Init
<1>5. CkptTypes
  <2>1. 1 \in 1..MaxId /\ 0 \in 0..MaxId /\ 0 \in 0..Len(<<>>)
    BY <1>1, CheckpointAssumption
  <2>2. DOMAIN directory = Paths /\ DOMAIN disk = Paths
    BY Zenon DEF Init
  <2> QED BY Zenon, <1>1, <2>1, <2>2 DEF Init, CkptTypes, Steps
<1>6. BoundaryInv /\ GenerationInv
  BY Zenon, <1>2 DEF Init, BoundaryInv, GenerationInv
<1>7. FilesInv
  BY <1>3, <1>4 DEF Init, FilesInv, FileOK, AgeOK, Ahead
<1> QED BY Zenon, <1>5, <1>6, <1>7 DEF CkptIInv

\* A step that touches neither the log nor a file keeps what is known of the files, provided
\* it restarts nothing and what it holds is no older than they are.
LEMMA FilesKept ==
  ASSUME CkptIInv, UNCHANGED <<coordinated, wal, directory, disk, returned>>, CkptTypes', GenerationInv',
         Up' => Up, Newest <= Newest', Newest' \in Nat,
         at' \notin {"sync manifest", "sync checkpoint"}
  PROVE  FilesInv'
<1>1. CommittedIn(directory)' = CommittedIn(directory) /\ CommittedIn(disk)' = CommittedIn(disk)
  BY Zenon DEF CommittedIn
<1>2. Newest \in Nat
  BY Zenon, NewestTyped, CheckpointAssumption
<1>3. CkptTypes /\ FilesInv
  BY Zenon DEF CkptIInv
<1>4. /\ CommittedIn(directory) # None => CommittedIn(directory).version \in Nat
      /\ CommittedIn(disk) # None => CommittedIn(disk).version \in Nat
  BY Zenon, <1>3, CommittedTyped DEF FilesInv
<1>5. returned \in Nat
  BY Zenon, CountersTyped
<1>6. /\ AgeOK(CommittedIn(directory), returned, Newest')
      /\ AgeOK(CommittedIn(disk), returned, Newest')
  <2>1. /\ AgeOK(CommittedIn(directory), returned, Newest)
        /\ AgeOK(CommittedIn(disk), returned, Newest)
    BY Zenon, <1>3 DEF FilesInv
  <2> QED BY Zenon, <1>2, <1>4, <1>5, <2>1, AgeMonotone
<1> QED BY Zenon, <1>1, <1>3, <1>6 DEF FilesInv

\* A mutation is applied, and its entry is written or fails.
LEMMA MutateKeeps ==
  ASSUME CkptIInv, NEW m \in Mutations, Mutate(m), UNCHANGED coordinated
  PROVE  CkptIInv'
<1> USE DEF engine, log, checkpoint, files
<1>1. ledger = wal /\ ledger \in Ledgers /\ at = "idle" /\ Up
  BY Zenon DEF Mutate, CkptIInv, CkptTypes, BoundaryInv, Up
<1>2. ledger' \in Ledgers
  <2>1. ledger \in Seq(Mutations) /\ Len(ledger) < MaxLog /\ ledger' = Append(ledger, m)
    BY Zenon, <1>1, LedgersAreSeqs DEF Mutate
  <2>2. ledger' \in Seq(Mutations) /\ Len(ledger') <= MaxLog
    BY <2>1, CheckpointAssumption
  <2> QED BY Zenon, <2>2, LedgersAreSeqs
<1>3. nextId' \in 1..MaxId /\ nextId <= nextId' /\ nextId \in Nat
  BY CheckpointAssumption DEF Mutate, CkptIInv, CkptTypes
<1>4. CkptTypes'
  BY Zenon, <1>2, <1>3 DEF Mutate, CkptIInv, CkptTypes
<1>5. Up'
  BY Zenon, <1>2, CheckpointAssumption DEF Up
<1>6. BoundaryInv'
  BY Zenon, <1>1, <1>5 DEF Mutate, CkptIInv, BoundaryInv
<1>7. GenerationInv'
  BY Zenon, <1>1 DEF Mutate, GenerationInv
<1>8. FilesInv'
  <2>1. Newest = nextId /\ Newest' = nextId' /\ at' = "idle"
    BY Zenon, <1>1, <1>5 DEF Mutate, Newest
  <2> QED BY <1>1, <1>3, <1>4, <1>7, <2>1, FilesKept DEF Mutate
<1> QED BY Zenon, <1>4, <1>6, <1>7, <1>8 DEF CkptIInv

\* The entry of a mutation is appended.
LEMMA LogMutationKeeps ==
  ASSUME CkptIInv, LogMutation, UNCHANGED coordinated
  PROVE  CkptIInv'
<1> USE DEF engine, log, checkpoint, files
<1>1. PICK m \in Mutations : ledger = Append(wal, m)
  BY Zenon DEF LogMutation, CkptIInv, BoundaryInv
<1>2. /\ Up /\ ~poisoned /\ at = "idle" /\ ledger \in Ledgers /\ wal \in Ledgers
      /\ synced \in 0..Len(wal)
  BY Zenon DEF LogMutation, CkptIInv, BoundaryInv, CkptTypes, Up
<1>3. wal \in Seq(Mutations)
  BY Zenon, <1>2, LedgersAreSeqs
<1>4. wal' = ledger /\ wal' \in Ledgers /\ Len(wal') = Len(wal) + 1 /\ Up'
  BY <1>1, <1>2, <1>3 DEF LogMutation, Up
<1>5. CkptTypes'
  <2>1. synced' \in 0..Len(wal')
    BY <1>2, <1>3, <1>4 DEF LogMutation
  <2> QED BY Zenon, <1>4, <2>1 DEF LogMutation, CkptIInv, CkptTypes
<1>6. BoundaryInv' /\ GenerationInv'
  BY Zenon, <1>2, <1>4 DEF LogMutation, BoundaryInv, GenerationInv
<1>7. CommittedIn(directory)' = CommittedIn(directory) /\ CommittedIn(disk)' = CommittedIn(disk)
  BY Zenon DEF LogMutation, CommittedIn
<1>8. ASSUME NEW f, FileOK(f, coordinated, wal), coordinated \/ ~Ahead(f, wal)
      PROVE  FileOK(f, coordinated, wal') /\ (coordinated \/ ~Ahead(f, wal'))
  <2>1. CASE f = None \/ coordinated
    BY Zenon, <1>8, <2>1 DEF FileOK, Ahead
  <2>2. CASE f # None /\ ~coordinated
    <3>1. SnapshotOK(f, wal) /\ ~(f.watermark > Len(wal))
      BY Zenon, <1>8, <2>2 DEF FileOK, Ahead
    <3>2. f.ledger \in Ledgers /\ f.watermark \in Nat
      BY <3>1, CheckpointAssumption DEF SnapshotOK, Snapshot
    <3>3. f.watermark <= Len(wal) /\ ~(f.watermark > Len(wal'))
      BY <1>3, <1>4, <3>1, <3>2
    <3>4. Begins(f.ledger, wal')
      BY Zenon, <1>1, <1>2, <1>4, <3>1, <3>2, <3>3, PrefixGrows DEF SnapshotOK
    <3> QED BY Zenon, <2>2, <3>1, <3>3, <3>4 DEF SnapshotOK, FileOK, Ahead
  <2> QED BY Zenon, <2>1, <2>2
<1>9. FilesInv'
  <2>1. Newest' = Newest
    BY Zenon, <1>2, <1>4 DEF Newest, LogMutation
  <2>2. FilesInv /\ returned' = returned /\ at' = "idle" /\ coordinated' = coordinated
    BY Zenon, <1>2 DEF CkptIInv, LogMutation
  <2> QED BY <1>2, <1>7, <1>8, <2>1, <2>2 DEF FilesInv
<1> QED BY Zenon, <1>5, <1>6, <1>9 DEF CkptIInv

\* The append of an entry fails, and the writer is poisoned.
LEMMA LogMutationFailsKeeps ==
  ASSUME CkptIInv, LogMutationFails \/ CkptFlushFails, UNCHANGED coordinated
  PROVE  CkptIInv'
<1> USE DEF engine, log, checkpoint, files
<1>1. at = "idle" /\ Up /\ UNCHANGED <<ledger, nextId, wal, synced, at, generation, directory, disk, returned>>
  BY Zenon DEF LogMutationFails, CkptFlushFails, CkptIInv, BoundaryInv
<1>2. poisoned' = TRUE /\ boundary' = "free"
  BY Zenon DEF LogMutationFails, CkptFlushFails
<1>3. CkptTypes'
  BY Zenon, <1>1, <1>2 DEF CkptIInv, CkptTypes
<1>4. BoundaryInv' /\ GenerationInv'
  BY Zenon, <1>1, <1>2 DEF BoundaryInv, GenerationInv
<1>5. FilesInv'
  <2>1. Newest' = Newest /\ Newest \in Nat /\ Up' = Up
    BY Zenon, <1>1, NewestTyped DEF Newest, Up
  <2> QED BY <1>1, <1>3, <1>4, <2>1, FilesKept
<1> QED BY Zenon, <1>3, <1>4, <1>5 DEF CkptIInv

-----------------------------------------------------------------------------
\* A checkpoint starts, takes its snapshot, or gives up.
LEMMA CkptFlushKeeps ==
  ASSUME CkptIInv, CkptFlush, UNCHANGED coordinated
  PROVE  CkptIInv'
<1> USE DEF engine, log, checkpoint, files
<1>1. /\ Up /\ ~poisoned /\ at = "idle" /\ boundary = "free" /\ coordinated
      /\ at' = "snapshot" /\ boundary' = "checkpoint" /\ Up'
      /\ UNCHANGED <<ledger, nextId, wal, poisoned, directory, disk, returned>>
  BY Zenon DEF CkptFlush, Up
<1>2. synced' \in 0..Len(wal')
  BY <1>1, LedgerLen DEF CkptFlush, CkptIInv, CkptTypes
<1>3. CkptTypes'
  BY Zenon, <1>1, <1>2 DEF CkptIInv, CkptTypes, Steps
<1>4. BoundaryInv'
  BY Zenon, <1>1 DEF CkptIInv, BoundaryInv
<1>5. GenerationInv'
  BY Zenon, <1>1 DEF CkptFlush, GenerationInv, PlainSteps
<1>6. FilesInv'
  <2>1. Newest' = Newest /\ Newest \in Nat
    BY Zenon, <1>1, NewestTyped DEF Newest
  <2> QED BY <1>1, <1>3, <1>5, <2>1, FilesKept
<1> QED BY Zenon, <1>3, <1>4, <1>5, <1>6 DEF CkptIInv

\* Taking the snapshot, in either kind of checkpoint.
LEMMA SnapshotKeeps ==
  ASSUME CkptIInv, CkptSnapshot \/ PlainSnapshot, UNCHANGED coordinated
  PROVE  CkptIInv'
<1> USE DEF engine, log, checkpoint, files
<1>1. /\ Up /\ ~poisoned /\ boundary' = "checkpoint" /\ at \in {"idle", "snapshot"}
      /\ UNCHANGED <<ledger, wal, synced, poisoned, directory, disk, returned>>
  BY Zenon DEF CkptSnapshot, PlainSnapshot, CkptIInv, BoundaryInv
<1>2. /\ at' \in {"save snapshot", "save checkpoint"}
      /\ coordinated' <=> at' \notin PlainSteps
  BY Zenon DEF CkptSnapshot, PlainSnapshot, CkptIInv, GenerationInv, PlainSteps
<1>3. nextId \in Nat /\ nextId' = nextId + 1 /\ nextId' \in 1..MaxId /\ nextId <= nextId'
  <2>1. nextId \in Nat /\ nextId < MaxId /\ nextId' = nextId + 1
    BY Zenon, CountersTyped DEF CkptSnapshot, PlainSnapshot
  <2> QED BY ONLY <2>1, CheckpointAssumption
<1>4. Up' /\ ledger = wal /\ wal \in Ledgers /\ Len(wal) \in 0..MaxLog
  BY Zenon, <1>1, LedgerLen
     DEF CkptIInv, CkptTypes, BoundaryInv, CkptSnapshot, PlainSnapshot, Up
<1>5. /\ DOMAIN generation' = {"anchor", "snapshot"} /\ generation'.anchor = wal
      /\ generation'.snapshot = [version |-> nextId + 1, ledger |-> ledger, watermark |-> Len(wal)]
  <2>1. CASE CkptSnapshot
    BY Zenon, <2>1 DEF CkptSnapshot, CkptIInv, GenerationInv
  <2>2. CASE PlainSnapshot
    BY Zenon, <2>2 DEF PlainSnapshot
  <2> QED BY Zenon, <2>1, <2>2
<1>6. CkptTypes'
  BY Zenon, <1>1, <1>2, <1>3 DEF CkptIInv, CkptTypes, Steps, PlainSteps
<1>7. BoundaryInv'
  BY Zenon, <1>1, <1>2, <1>4 DEF BoundaryInv
<1>8. generation'.snapshot \in Snapshot /\ Version' = nextId'
  BY ONLY <1>3, <1>4, <1>5 DEF Snapshot, Version
<1>9. GenerationInv'
  <2>1. generation'.snapshot.ledger = wal' /\ generation'.snapshot.watermark = Len(wal')
    BY <1>1, <1>4, <1>5
  <2>2. Version' <= nextId' /\ generation'.anchor = wal'
    BY <1>1, <1>3, <1>5, <1>8
  <2> QED BY Zenon, <1>2, <1>5, <1>8, <2>1, <2>2 DEF GenerationInv
<1>10. FilesInv'
  <2>1. Newest = nextId /\ Newest' = nextId'
    BY Zenon, <1>1, <1>2, <1>8 DEF Newest
  <2>2. nextId <= nextId' /\ nextId' \in Nat
    BY ONLY <1>3
  <2> QED BY Zenon, <1>1, <1>2, <1>4, <1>6, <1>9, <2>1, <2>2, FilesKept
<1> QED BY Zenon, <1>6, <1>7, <1>9, <1>10 DEF CkptIInv

\* A checkpoint fails part of the way.
LEMMA CkptFailsKeeps ==
  ASSUME CkptIInv, CkptFails, UNCHANGED coordinated
  PROVE  CkptIInv'
<1> USE DEF engine, log, checkpoint, files
<1>1. /\ Up /\ Up' /\ at # "idle" /\ at' = "idle" /\ boundary' = "free" /\ ~poisoned
      /\ UNCHANGED <<ledger, nextId, wal, synced, poisoned, directory, disk, returned>>
  BY Zenon DEF CkptFails, CkptIInv, BoundaryInv, Up
<1>2. CkptTypes'
  BY Zenon, <1>1 DEF CkptIInv, CkptTypes, Steps
<1>3. BoundaryInv' /\ GenerationInv'
  BY Zenon, <1>1 DEF CkptIInv, BoundaryInv, GenerationInv
<1>4. FilesInv'
  <2>1. Newest' = nextId /\ Newest <= nextId /\ nextId \in Nat
    BY <1>1, CheckpointAssumption
       DEF Newest, CkptIInv, GenerationInv, CkptTypes
  <2> QED BY Zenon, <1>1, <1>2, <1>3, <2>1, FilesKept
<1> QED BY Zenon, <1>2, <1>3, <1>4 DEF CkptIInv

\* The process ends and the files stay.
LEMMA ProcessDiesKeeps ==
  ASSUME CkptIInv, ProcessDies, UNCHANGED coordinated
  PROVE  CkptIInv'
<1> USE DEF engine, log, checkpoint, files
<1>1. /\ Up /\ ~Up' /\ at' = "idle" /\ boundary' = "free" /\ poisoned' = FALSE
      /\ ledger' = None /\ nextId' = 1
      /\ UNCHANGED <<wal, synced, directory, disk, returned>>
  BY Zenon DEF ProcessDies, Down, Up
<1>2. CkptTypes'
  <2>1. 1 \in 1..MaxId
    BY CheckpointAssumption
  <2> QED BY Zenon, <1>1, <2>1 DEF CkptIInv, CkptTypes, Steps
<1>3. BoundaryInv' /\ GenerationInv'
  BY Zenon, <1>1 DEF BoundaryInv, GenerationInv
<1>4. FilesInv'
  <2>1. Newest' = MaxId /\ Newest <= MaxId /\ MaxId \in Nat
    BY <1>1, NewestTyped, CheckpointAssumption DEF Newest
  <2> QED BY Zenon, <1>1, <1>2, <1>3, <2>1, FilesKept
<1> QED BY Zenon, <1>2, <1>3, <1>4 DEF CkptIInv

-----------------------------------------------------------------------------
\* The steps between the snapshot and the return leave the engine and the log alone, so that
\* what is said of them and of the generation stays.
LEMMA MiddleKeeps ==
  ASSUME CkptIInv, at \notin {"idle", "snapshot"}, at' \in Steps \ {"idle", "snapshot"},
         at \in PlainSteps <=> at' \in PlainSteps, DOMAIN directory' = Paths, DOMAIN disk' = Paths,
         UNCHANGED <<coordinated, ledger, nextId, wal, synced, poisoned, boundary, generation,
         returned>>
  PROVE  /\ CkptTypes' /\ BoundaryInv' /\ GenerationInv'
         /\ Newest' = Version /\ Newest = Version /\ Version' = Version /\ Up' = Up
<1>1. CkptTypes'
  BY Zenon DEF CkptIInv, CkptTypes
<1>2. Up' = Up /\ Version' = Version
  BY Zenon DEF Up, Version
<1>3. BoundaryInv'
  BY Zenon, <1>2 DEF CkptIInv, BoundaryInv
<1>4. GenerationInv'
  BY Zenon, <1>2 DEF CkptIInv, GenerationInv
<1>5. Newest' = Version /\ Newest = Version
  BY Zenon, <1>2 DEF Newest
<1> QED BY Zenon, <1>1, <1>2, <1>3, <1>4, <1>5

\* A generation file is saved: recovery does not start from it.
LEMMA SaveKeeps ==
  ASSUME CkptIInv, CkptSaveSnapshot \/ CkptSaveAnchor, UNCHANGED coordinated
  PROVE  CkptIInv'
<1> USE DEF engine, log, checkpoint, files
<1>1. PICK path, content : /\ path \notin {ManifestFile, CheckpointFile}
                           /\ directory' = [directory EXCEPT ![path] = content]
  BY Zenon, PathsDiffer DEF CkptSaveSnapshot, CkptSaveAnchor, Save
<1>2. /\ at \in {"save snapshot", "save anchor"} /\ at' \in {"sync snapshot", "sync anchor"}
      /\ UNCHANGED <<ledger, nextId, wal, synced, poisoned, boundary, generation, disk, returned>>
  BY Zenon DEF CkptSaveSnapshot, CkptSaveAnchor, Save
<1>3. DOMAIN directory' = Paths /\ DOMAIN disk' = Paths
  BY Zenon, <1>1, <1>2 DEF CkptIInv, CkptTypes
<1>4. /\ CkptTypes' /\ BoundaryInv' /\ GenerationInv'
      /\ Newest' = Newest /\ Version' = Version /\ Up' = Up
  BY Zenon, <1>2, <1>3, MiddleKeeps DEF Steps, PlainSteps
<1>5. CommittedIn(directory)' = CommittedIn(directory) /\ CommittedIn(disk)' = CommittedIn(disk)
  BY Zenon, <1>1, <1>2, PathsDiffer DEF CommittedIn, CkptIInv, CkptTypes
<1>6. FilesInv'
  BY Zenon, <1>2, <1>4, <1>5 DEF CkptIInv, FilesInv
<1> QED BY Zenon, <1>4, <1>6 DEF CkptIInv

\* ... and synced.
LEMMA SyncKeeps ==
  ASSUME CkptIInv, CkptSyncSnapshot \/ CkptSyncAnchor, UNCHANGED coordinated
  PROVE  CkptIInv'
<1> USE DEF engine, log, checkpoint, files
<1>1. /\ at \in {"sync snapshot", "sync anchor"} /\ at' \in {"save anchor", "save manifest"}
      /\ disk' = directory
      /\ UNCHANGED <<ledger, nextId, wal, synced, poisoned, boundary, generation, directory, returned>>
  BY Zenon DEF CkptSyncSnapshot, CkptSyncAnchor, SyncDirectory
<1>2. DOMAIN directory' = Paths /\ DOMAIN disk' = Paths
  BY Zenon, <1>1 DEF CkptIInv, CkptTypes
<1>3. /\ CkptTypes' /\ BoundaryInv' /\ GenerationInv'
      /\ Newest' = Newest /\ Version' = Version /\ Up' = Up
  BY Zenon, <1>1, <1>2, MiddleKeeps DEF Steps, PlainSteps
<1>4. CommittedIn(directory)' = CommittedIn(directory) /\ CommittedIn(disk)' = CommittedIn(directory)
  BY Zenon, <1>1 DEF CommittedIn
<1>5. CommittedIn(directory) # None =>
        CommittedIn(directory).version <= CommittedIn(directory).version
  <2>1. CommittedIn(directory) # None => CommittedIn(directory).version \in Nat
    BY Zenon, CommittedTyped DEF CkptIInv, FilesInv
  <2> QED BY <2>1
<1>6. ~coordinated => \/ ~Ahead(CommittedIn(directory), wal)
                      \/ ~Up
  BY Zenon DEF CkptIInv, FilesInv
<1>7. FilesInv'
  BY Zenon, <1>1, <1>3, <1>4, <1>5, <1>6 DEF CkptIInv, FilesInv
<1> QED BY Zenon, <1>3, <1>7 DEF CkptIInv

\* The manifest, or the plain snapshot, becomes what recovery starts from.
LEMMA CommitKeeps ==
  ASSUME CkptIInv, CkptSaveManifest \/ PlainSave, UNCHANGED coordinated
  PROVE  CkptIInv'
<1> USE DEF engine, log, checkpoint, files
<1>1. /\ at \in {"save manifest", "save checkpoint"} /\ at' \in {"sync manifest", "sync checkpoint"}
      /\ at \in PlainSteps <=> at' \in PlainSteps
      /\ UNCHANGED <<ledger, nextId, wal, synced, poisoned, boundary, generation, disk, returned>>
  BY Zenon DEF CkptSaveManifest, PlainSave, Save, PlainSteps
<1>2. DOMAIN directory' = Paths /\ DOMAIN disk' = Paths
  BY Zenon DEF CkptSaveManifest, PlainSave, Save, CkptIInv, CkptTypes
<1>3. /\ CkptTypes' /\ BoundaryInv' /\ GenerationInv'
      /\ Newest' = Version /\ Newest = Version /\ Version' = Version /\ Up' = Up
  BY Zenon, <1>1, <1>2, MiddleKeeps DEF Steps, PlainSteps
<1>4. /\ generation.anchor = wal /\ generation.snapshot \in Snapshot
      /\ generation.snapshot.ledger = wal /\ generation.snapshot.watermark = Len(wal)
      /\ Version \in 1..MaxId /\ Version \in Nat /\ wal \in Ledgers /\ Len(wal) \in 0..MaxLog
  <2>1. /\ generation.anchor = wal /\ generation.snapshot \in Snapshot
        /\ generation.snapshot.ledger = wal /\ generation.snapshot.watermark = Len(wal)
    BY Zenon, <1>1 DEF CkptIInv, GenerationInv
  <2>2. Version \in 1..MaxId /\ Version \in Nat
    BY <2>1, CheckpointAssumption DEF Version, Snapshot
  <2>3. wal \in Ledgers
    BY Zenon DEF CkptIInv, CkptTypes
  <2> QED BY Zenon, <2>1, <2>2, <2>3, LedgerLen
<1>5. /\ CommittedIn(directory)' # None /\ CommittedIn(directory)'.version = Version
      /\ FileOK(CommittedIn(directory)', coordinated, wal) 
      /\ ~coordinated => ~Ahead(CommittedIn(directory)', wal)
  <2>1. CASE CkptSaveManifest
    <3> DEFINE f == [version |-> Version, sequence |-> Sequence,
                     digest |-> generation.snapshot.ledger, hash |-> generation.anchor]
    <3>1. coordinated /\ directory' = [directory EXCEPT ![ManifestFile] = f]
      BY Zenon, <2>1 DEF CkptSaveManifest, Save, CkptIInv, GenerationInv, PlainSteps
    <3>2. CommittedIn(directory)' = f
      BY Zenon, <3>1, PathsDiffer DEF CommittedIn, CkptIInv, CkptTypes
    <3>3. f \in Manifest /\ ManifestOK(f) /\ f.version = Version
      BY Zenon, <1>4 DEF Manifest, ManifestOK, Sequence
    <3> HIDE DEF f
    <3> QED BY Zenon, <3>1, <3>2, <3>3, CheckpointAssumption DEF FileOK
  <2>2. CASE PlainSave
    <3>1. ~coordinated /\ directory' = [directory EXCEPT ![CheckpointFile] = generation.snapshot]
      BY Zenon, <2>2 DEF PlainSave, Save, CkptIInv, GenerationInv, PlainSteps
    <3>2. CommittedIn(directory)' = generation.snapshot
      BY Zenon, <3>1, PathsDiffer DEF CommittedIn, CkptIInv, CkptTypes
    <3>3. SnapshotOK(generation.snapshot, wal) /\ ~Ahead(generation.snapshot, wal)
      BY <1>4, SelfPrefix DEF SnapshotOK, Ahead
    <3> QED BY Zenon, <1>4, <3>1, <3>2, <3>3, CheckpointAssumption
               DEF FileOK, Version
  <2> QED BY Zenon, <2>1, <2>2
<1>6. CommittedIn(disk)' = CommittedIn(disk)
  BY Zenon, <1>1 DEF CommittedIn
<1>7. CommittedIn(disk) # None => CommittedIn(disk).version <= Version
  BY Zenon, <1>3 DEF CkptIInv, FilesInv, AgeOK
<1>8. AgeOK(CommittedIn(directory)', returned, Version)
  <2>1. returned \in Nat /\ AgeOK(CommittedIn(disk), returned, Version)
    BY Zenon, <1>3, CountersTyped DEF CkptIInv, FilesInv
  <2>2. CommittedIn(disk) # None => CommittedIn(disk).version \in Nat
    BY Zenon, CommittedTyped DEF CkptIInv, FilesInv
  <2>3. Version \in Nat
    BY Zenon, <1>4
  <2>4. CommittedIn(directory)' # None /\ CommittedIn(directory)'.version = Version
    BY Zenon, <1>5
  <2> QED BY ONLY <2>1, <2>2, <2>3, <2>4 DEF AgeOK
<1>9. ~coordinated => ~Ahead(CommittedIn(disk), wal)
  <2>1. Up
    BY Zenon, <1>1 DEF CkptIInv, BoundaryInv
  <2> QED BY Zenon, <2>1 DEF CkptIInv, FilesInv
<1>10. FilesInv'
  <2>1. /\ FileOK(CommittedIn(disk), coordinated, wal) /\ AgeOK(CommittedIn(disk), returned, Version)
    BY Zenon, <1>3 DEF CkptIInv, FilesInv
  <2> QED BY Zenon, <1>1, <1>3, <1>5, <1>6, <1>7, <1>8, <1>9, <2>1 DEF FilesInv
<1> QED BY Zenon, <1>3, <1>10 DEF CkptIInv

\* The checkpoint returns: what it saved is what the disk has.
LEMMA ReturnKeeps ==
  ASSUME CkptIInv, CkptReturn \/ PlainReturn, UNCHANGED coordinated
  PROVE  CkptIInv'
<1> USE DEF engine, log, checkpoint, files
<1>1. /\ at \in {"sync manifest", "sync checkpoint"} /\ at' = "idle" /\ boundary' = "free"
      /\ disk' = directory /\ returned' = Version
      /\ UNCHANGED <<ledger, nextId, wal, synced, poisoned, directory>>
  BY Zenon DEF CkptReturn, PlainReturn, SyncDirectory
<1>2. /\ Up /\ Up' /\ ~poisoned /\ boundary = "checkpoint"
  BY Zenon, <1>1 DEF CkptIInv, BoundaryInv, Up
<1>3. Version \in 1..MaxId /\ Version \in 0..MaxId /\ Version \in Nat
  <2>1. generation.snapshot \in Snapshot
    BY Zenon, <1>1 DEF CkptIInv, GenerationInv
  <2> QED BY <2>1, CheckpointAssumption DEF Version, Snapshot
<1>4. Version <= nextId
  BY Zenon, <1>1 DEF CkptIInv, GenerationInv
<1>5. CkptTypes'
  BY Zenon, <1>1, <1>3 DEF CkptIInv, CkptTypes, Steps
<1>6. BoundaryInv' /\ GenerationInv'
  BY Zenon, <1>1, <1>2 DEF CkptIInv, BoundaryInv, GenerationInv
<1>7. CommittedIn(directory)' = CommittedIn(directory) /\ CommittedIn(disk)' = CommittedIn(directory)
  BY Zenon, <1>1 DEF CommittedIn
<1>8. CommittedIn(directory) # None /\ CommittedIn(directory).version = Version
  BY Zenon, <1>1 DEF CkptIInv, FilesInv
<1>9. Newest' = nextId
  BY Zenon, <1>1, <1>2 DEF Newest
<1>10. AgeOK(CommittedIn(directory), Version, nextId)
  <2>1. Version <= Version
    BY ONLY <1>3
  <2> QED BY Zenon, <1>4, <1>8, <2>1 DEF AgeOK
<1>11. FileOK(CommittedIn(directory), coordinated, wal)
  BY Zenon DEF CkptIInv, FilesInv
<1>12. ~coordinated => ~Ahead(CommittedIn(directory), wal)
  BY Zenon, <1>2 DEF CkptIInv, FilesInv
<1>13. CommittedIn(directory).version <= CommittedIn(directory).version
  BY <1>3, <1>8
<1>14. FilesInv'
  BY Zenon, <1>1, <1>7, <1>8, <1>9, <1>10, <1>11, <1>12, <1>13 DEF FilesInv
<1> QED BY Zenon, <1>5, <1>6, <1>14 DEF CkptIInv

\* A power loss: the log keeps a prefix of itself, and each path what the directory or the disk
\* had.
LEMMA PowerLossKeeps ==
  ASSUME CkptIInv, PowerLoss, UNCHANGED coordinated
  PROVE  CkptIInv'
<1> USE DEF engine, log, checkpoint, files
<1>1. /\ ledger' = None /\ nextId' = 1 /\ poisoned' = FALSE /\ boundary' = "free" /\ at' = "idle"
      /\ disk' = directory' /\ UNCHANGED returned /\ ~Up'
  BY Zenon DEF PowerLoss, Down, Up
<1>2. wal \in Ledgers /\ Len(wal) \in Nat /\ synced \in 0..Len(wal)
  BY LedgersAreSeqs DEF CkptIInv, CkptTypes
<1>3. PICK n \in synced..Len(wal) : wal' = SubSeq(wal, 1, n) /\ synced' = n
  BY Zenon DEF PowerLoss
<1>4. n \in 0..Len(wal)
  BY <1>2, <1>3
<1>5. wal' \in Ledgers /\ Len(wal') = n /\ synced' \in 0..Len(wal')
  BY <1>3, <1>4, <1>2, CutIsLedger
<1>6. PICK lost \in SUBSET {p \in Paths : directory[p] # disk[p]} :
        directory' = [p \in Paths |-> IF p \in lost THEN disk[p] ELSE directory[p]]
  BY Zenon DEF PowerLoss
<1>7. \/ CommittedIn(directory)' = CommittedIn(directory)
      \/ CommittedIn(directory)' = CommittedIn(disk)
  BY Zenon, <1>6, PathsDiffer DEF CommittedIn
<1>8. CommittedIn(disk)' = CommittedIn(directory)'
  BY Zenon, <1>1 DEF CommittedIn
<1>9. CkptTypes'
  <2>1. 1 \in 1..MaxId
    BY CheckpointAssumption
  <2>2. DOMAIN directory' = Paths /\ DOMAIN disk' = Paths
    BY Zenon, <1>1, <1>6
  <2> QED BY Zenon, <1>1, <1>5, <2>1, <2>2 DEF CkptIInv, CkptTypes, Steps
<1>10. BoundaryInv' /\ GenerationInv'
  BY Zenon, <1>1 DEF BoundaryInv, GenerationInv
<1>11. ASSUME NEW f, FileOK(f, coordinated, wal)
       PROVE  FileOK(f, coordinated, wal')
  <2>1. CASE f = None \/ coordinated
    BY Zenon, <1>11, <2>1 DEF FileOK
  <2>2. CASE f # None /\ ~coordinated
    <3>1. SnapshotOK(f, wal)
      BY Zenon, <1>11, <2>2 DEF FileOK
    <3>2. f.ledger \in Ledgers /\ f.watermark \in Nat /\ f.watermark = Len(f.ledger)
      BY <3>1, CheckpointAssumption DEF SnapshotOK, Snapshot
    <3>3. ASSUME f.watermark <= Len(wal') PROVE Begins(f.ledger, wal')
      <4>1. f.watermark <= n /\ f.watermark <= Len(wal)
        BY <1>2, <1>4, <1>5, <3>2, <3>3
      <4>2. Begins(f.ledger, wal)
        BY Zenon, <3>1, <4>1 DEF SnapshotOK
      <4> QED BY Zenon, <1>2, <1>3, <1>4, <3>2, <4>1, <4>2, PrefixCut
    <3> QED BY Zenon, <2>2, <3>1, <3>3 DEF SnapshotOK, FileOK
  <2> QED BY Zenon, <2>1, <2>2
<1>12. /\ FileOK(CommittedIn(directory)', coordinated, wal')
       /\ AgeOK(CommittedIn(directory)', returned, MaxId)
  <2>1. /\ FileOK(CommittedIn(directory), coordinated, wal) /\ AgeOK(CommittedIn(directory), returned, Newest)
        /\ FileOK(CommittedIn(disk), coordinated, wal) /\ AgeOK(CommittedIn(disk), returned, Newest)
    BY Zenon DEF CkptIInv, FilesInv
  <2>2. Newest \in Nat /\ MaxId \in Nat /\ Newest <= MaxId /\ returned \in Nat
    BY NewestTyped, CountersTyped, CheckpointAssumption
  <2>3. /\ CommittedIn(directory) # None => CommittedIn(directory).version \in Nat
        /\ CommittedIn(disk) # None => CommittedIn(disk).version \in Nat
    BY Zenon, <2>1, CommittedTyped
  <2>4. AgeOK(CommittedIn(directory), returned, MaxId) /\ AgeOK(CommittedIn(disk), returned, MaxId)
    BY Zenon, <2>1, <2>2, <2>3, AgeMonotone
  <2> QED BY Zenon, <1>7, <1>11, <2>1, <2>4
<1>13. CommittedIn(directory)' # None =>
         CommittedIn(directory)'.version <= CommittedIn(directory)'.version
  <2>1. CommittedIn(directory)' # None => CommittedIn(directory)'.version \in Nat
    BY Zenon, <1>12, CommittedTyped
  <2> QED BY <2>1
<1>14. Newest' = MaxId
  BY Zenon, <1>1 DEF Newest
<1>15. FilesInv'
  BY Zenon, <1>1, <1>8, <1>12, <1>13, <1>14 DEF FilesInv
<1> QED BY Zenon, <1>9, <1>10, <1>15 DEF CkptIInv

\* Replay moves the allocator forward and within its bound.
LEMMA AllocatorMoves ==
  ASSUME NEW a \in Nat, NEW k \in Nat, a >= 1, a + k <= MaxId
  PROVE  a + k \in 1..MaxId /\ a <= a + k
BY CheckpointAssumption

\* Recovery: what is restored and replayed is the log.
LEMMA RecoveryKeeps ==
  ASSUME CkptIInv, Recover \/ PlainRecover \/ RecoverFromLog, UNCHANGED coordinated
  PROVE  CkptIInv'
<1> USE DEF engine, log, checkpoint, files
<1>1. /\ ~Up /\ boundary = "free" /\ at = "idle"
      /\ UNCHANGED <<wal, synced, poisoned, boundary, at, generation, directory, disk, returned>>
  BY Zenon DEF Recover, PlainRecover, RecoverFromLog, RestoreAndReplay, CkptIInv,
     BoundaryInv
<1>2. wal \in Ledgers /\ wal \in Seq(Mutations) /\ Len(wal) \in 0..MaxLog
  BY Zenon, LedgersAreSeqs, LedgerLen DEF CkptIInv, CkptTypes
<1>3. ASSUME NEW f, f.ledger \in Ledgers, f.watermark = Len(f.ledger), Begins(f.ledger, wal),
             f.version \in Nat, f.version >= 1, RestoreAndReplay(f)
      PROVE  ledger' = wal /\ nextId' \in 1..MaxId /\ f.version <= nextId'
  <2>1. f.ledger \in Seq(Mutations) /\ Len(f.ledger) <= Len(wal)
    BY Zenon, <1>3, LedgersAreSeqs DEF Begins
  <2>2. Len(SubSeq(wal, f.watermark + 1, Len(wal))) \in Nat
    BY <1>2, <1>3, <2>1
  <2>3. ledger' = wal
    BY Zenon, <1>2, <1>3, ReplayCompletes DEF RestoreAndReplay
  <2>4. /\ nextId' = f.version + Len(SubSeq(wal, f.watermark + 1, Len(wal)))
        /\ f.version + Len(SubSeq(wal, f.watermark + 1, Len(wal))) <= MaxId
    BY Zenon, <1>3 DEF RestoreAndReplay
  <2>5. nextId' \in 1..MaxId /\ f.version <= nextId'
    <3>1. f.version \in Nat /\ f.version >= 1
      BY Zenon, <1>3
    <3> QED BY ONLY Zenon, <2>2, <2>4, <3>1, AllocatorMoves, CheckpointAssumption
  <2> QED BY Zenon, <2>3, <2>5
<1>4. /\ ledger' = wal /\ nextId' \in 1..MaxId
      /\ CommittedIn(directory) # None => CommittedIn(directory).version <= nextId'
      /\ ~coordinated => ~Ahead(CommittedIn(directory), wal)
  <2>1. CASE Recover
    <3>1. coordinated /\ Loads /\ ContainsAnchor /\ RestoreAndReplay(Loaded)
      BY Zenon, <2>1 DEF Recover
    <3>2. CommittedIn(directory) = manifest /\ manifest # None
      BY Zenon, <3>1 DEF CommittedIn, manifest, Loads
    <3>3. ManifestOK(manifest)
      BY Zenon, <3>1, <3>2 DEF CkptIInv, FilesInv, FileOK
    <3>4. /\ manifest.hash \in Ledgers /\ manifest.version \in 1..MaxId
          /\ manifest.digest = manifest.hash /\ manifest.sequence = Len(manifest.hash)
      BY Zenon, <3>3 DEF ManifestOK, Manifest
    <3>5. /\ Loaded.ledger = manifest.hash /\ Loaded.watermark = Len(manifest.hash)
          /\ Loaded.version = manifest.version /\ Begins(manifest.hash, wal)
      BY Zenon, <3>1, <3>4 DEF Loads, ContainsAnchor, Begins
    <3>6. manifest.version \in Nat /\ manifest.version >= 1
      BY ONLY <3>4, CheckpointAssumption
    <3> QED BY Zenon, <1>3, <3>1, <3>2, <3>4, <3>5, <3>6
  <2>2. CASE PlainRecover
    <3> DEFINE f == directory[CheckpointFile]
    <3>1. ~coordinated /\ f # None /\ f.watermark <= Len(wal) /\ RestoreAndReplay(f)
      BY Zenon, <2>2 DEF PlainRecover
    <3>2. CommittedIn(directory) = f
      BY Zenon, <3>1 DEF CommittedIn
    <3>3. SnapshotOK(f, wal)
      BY Zenon, <3>1, <3>2 DEF CkptIInv, FilesInv, FileOK
    <3>4. /\ f.ledger \in Ledgers /\ f.version \in 1..MaxId /\ f.watermark = Len(f.ledger)
          /\ Begins(f.ledger, wal) /\ f.watermark \in Nat
      BY <3>1, <3>3, CheckpointAssumption DEF SnapshotOK, Snapshot
    <3>5. f.version \in Nat /\ f.version >= 1
      BY ONLY <3>4, CheckpointAssumption
    <3>6. ~Ahead(f, wal)
      BY <1>2, <3>1, <3>4 DEF Ahead
    <3> QED BY Zenon, <1>3, <3>1, <3>2, <3>4, <3>5, <3>6
  <2>3. CASE RecoverFromLog
    <3>1. CommittedIn(directory) = None /\ ledger' = wal /\ nextId' = Len(wal) + 1 /\ Len(wal) < MaxId
      BY Zenon, <2>3 DEF RecoverFromLog, committed, CommittedIn
    <3>2. nextId' \in 1..MaxId
      BY ONLY <1>2, <3>1, CheckpointAssumption
    <3> QED BY Zenon, <3>1, <3>2 DEF Ahead
  <2> QED BY Zenon, <2>1, <2>2, <2>3
<1>5. Up' /\ CkptTypes'
  BY Zenon, <1>1, <1>2, <1>4, CheckpointAssumption
     DEF CkptIInv, CkptTypes, Up
<1>6. BoundaryInv' /\ GenerationInv'
  BY Zenon, <1>1, <1>4, <1>5 DEF BoundaryInv, GenerationInv
<1>7. CommittedIn(directory)' = CommittedIn(directory) /\ CommittedIn(disk)' = CommittedIn(disk)
  BY Zenon, <1>1 DEF CommittedIn
<1>8. Newest' = nextId'
  BY Zenon, <1>1, <1>5 DEF Newest
<1>9. /\ AgeOK(CommittedIn(directory), returned, nextId')
      /\ AgeOK(CommittedIn(disk), returned, nextId')
  <2>1. /\ CommittedIn(directory) # None => CommittedIn(directory).version \in Nat
        /\ CommittedIn(disk) # None => CommittedIn(disk).version \in Nat
    BY Zenon, CommittedTyped DEF CkptIInv, FilesInv
  <2>2. CommittedIn(disk) # None =>
          /\ CommittedIn(directory) # None
          /\ CommittedIn(disk).version <= CommittedIn(directory).version
    BY Zenon DEF CkptIInv, FilesInv
  <2>3. nextId' \in Nat
    BY <1>4, CheckpointAssumption
  <2>4. CommittedIn(disk) # None => CommittedIn(disk).version <= nextId'
    BY <1>4, <2>1, <2>2, <2>3
  <2>5. AgeOK(CommittedIn(directory), returned, Newest) /\ AgeOK(CommittedIn(disk), returned, Newest)
    BY Zenon DEF CkptIInv, FilesInv
  <2> QED BY Zenon, <1>4, <2>4, <2>5 DEF AgeOK
<1>10. ~coordinated => ~Ahead(CommittedIn(directory), wal) /\ ~Ahead(CommittedIn(disk), wal)
  BY Zenon, <1>4 DEF CkptIInv, FilesInv
<1>11. FilesInv'
  BY Zenon, <1>1, <1>7, <1>8, <1>9, <1>10 DEF CkptIInv, FilesInv
<1> QED BY Zenon, <1>5, <1>6, <1>11 DEF CkptIInv

\* A step of something else keeps the invariant.
LEMMA CkptStutters ==
  CkptIInv /\ UNCHANGED vars => CkptIInv'
<1> SUFFICES ASSUME CkptIInv, UNCHANGED vars PROVE CkptIInv'
  BY Zenon
<1> USE DEF vars, engine, log, checkpoint, files
<1>1. CkptTypes' /\ BoundaryInv' /\ GenerationInv'
  BY Zenon DEF CkptIInv, CkptTypes, BoundaryInv, GenerationInv, Up, Version
<1>2. FilesInv'
  BY Zenon DEF CkptIInv, FilesInv, CommittedIn, Newest, Up, Version
<1> QED BY Zenon, <1>1, <1>2 DEF CkptIInv

\* The invariant of the checkpoints.
THEOREM CheckpointInvariant ==
  Spec => []CkptIInv
<1>1. CkptIInv /\ [Next]_vars => CkptIInv'
  <2> SUFFICES ASSUME CkptIInv, [Next]_vars PROVE CkptIInv'
    BY Zenon
  <2>1. CASE UNCHANGED vars
    BY Zenon, <2>1, CkptStutters
  <2>2. CASE Next
    BY Zenon, <2>2, MutateKeeps, LogMutationKeeps, LogMutationFailsKeeps, CkptFlushKeeps, SnapshotKeeps,
       SaveKeeps, SyncKeeps, CommitKeeps, ReturnKeeps, CkptFailsKeeps, ProcessDiesKeeps,
       PowerLossKeeps, RecoveryKeeps DEF Next
  <2> QED BY Zenon, <2>1, <2>2
<1> QED BY <1>1, CkptInit, PTL DEF Spec

\* The ledger of a running engine is the effect of its log.
THEOREM LedgerFollowsLog ==
  Spec => []LedgerIsLog
<1>1. CkptIInv => LedgerIsLog
  BY Zenon DEF CkptIInv, BoundaryInv, LedgerIsLog
<1> QED BY <1>1, CheckpointInvariant, PTL

\* What recovery starts from is never older than a checkpoint that was returned.
THEOREM GenerationsKept ==
  Spec => []ReturnedGenerationKept
<1>1. CkptIInv => ReturnedGenerationKept
  BY Zenon DEF CkptIInv, FilesInv, AgeOK, CommittedIn, committed, ReturnedGenerationKept
<1> QED BY <1>1, CheckpointInvariant, PTL
=============================================================================
