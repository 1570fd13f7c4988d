----------------------- MODULE CoordinatedCheckpoint -----------------------
(***************************************************************************)
(* The checkpoints of src/persistence.rs: a ledger, the write-ahead log of *)
(* its mutations, and a directory.  An application keeps coordinated       *)
(* checkpoints, with one snapshot file and one anchor file per generation  *)
(* and a manifest that names the committed generation                      *)
(* (checkpoint_coordinated, load_and_verify_coordinated_checkpoint), or    *)
(* plain ones, a snapshot file that is replaced (checkpoint_with_wal,      *)
(* recovery_plan).                                                         *)
(*                                                                         *)
(* The application does what the functions ask of it: a mutation, its log  *)
(* entry and a checkpoint exclude each other (the admission boundary), and *)
(* after a crash or a poisoned log it recovers from its checkpoint and     *)
(* replays the later entries.  The ledger is the sequence of mutations     *)
(* applied to it, which also stands for its digest; the log is the         *)
(* sequence of its entries, of which a prefix also stands for the hash at  *)
(* its end.  That a synced prefix of the log survives and nothing else     *)
(* takes its place is shown in Wal.                                        *)
(***************************************************************************)
EXTENDS Naturals, Sequences

CONSTANTS
  Mutations,   \* what a logged operation may do to the ledger
  MaxLog,      \* bound on the length of the log
  MaxId,       \* bound on the reservation allocator
  None

Ledgers == UNION {[1..n -> Mutations] : n \in 0..MaxLog}

Snapshot == [version : 1..MaxId, ledger : Ledgers, watermark : 0..MaxLog]

\* The manifest: the names of the two files are made of version and sequence.
Manifest == [version : 1..MaxId, sequence : 0..MaxLog, digest : Ledgers, hash : Ledgers]

ASSUME CheckpointAssumption ==
  /\ MaxLog \in Nat
  /\ MaxId \in Nat \ {0}
  /\ None \notin Ledgers \cup Snapshot \cup Manifest

\* The files of the directory.  A WalAnchor is the prefix of the log it names.
SnapshotFile(version, sequence) == <<"snapshot", version, sequence>>
AnchorFile(version, sequence) == <<"anchor", version, sequence>>
ManifestFile == <<"manifest">>
CheckpointFile == <<"checkpoint">>

Paths == {ManifestFile, CheckpointFile} \cup ({"snapshot", "anchor"} \X (1..MaxId) \X (0..MaxLog))

VARIABLES
  coordinated, \* which checkpoints the application keeps
  ledger,     \* the engine's ledger, or None while the process is down
  nextId,     \* the engine's allocator
  wal,        \* the entries of the log
  synced,     \* how many of them survive a power loss
  poisoned,   \* the WalWriter's poison flag
  boundary,   \* who is inside the admission boundary
  at,         \* the next step of checkpoint_coordinated
  generation, \* its local variables: anchor and snapshot
  directory,  \* what the file system shows at each path
  disk,       \* what a power loss leaves at each path
  returned    \* history: version of the last generation that was returned

engine == <<ledger, nextId>>
log == <<wal, synced, poisoned>>
checkpoint == <<at, generation>>
files == <<directory, disk>>
vars == <<coordinated, engine, log, boundary, checkpoint, files, returned>>

Up == ledger # None

Init ==
  /\ coordinated \in BOOLEAN
  /\ ledger = <<>> /\ nextId = 1
  /\ wal = <<>> /\ synced = 0 /\ poisoned = FALSE
  /\ boundary = "free"
  /\ at = "idle" /\ generation = None
  /\ directory = [p \in Paths |-> None] /\ disk = directory
  /\ returned = 0

-----------------------------------------------------------------------------
(***************************************************************************)
(* A logged mutation.                                                      *)
(***************************************************************************)
Mutate(m) ==
  /\ Up /\ ~poisoned /\ boundary = "free"
  /\ Len(ledger) < MaxLog /\ nextId < MaxId
  /\ ledger' = Append(ledger, m)
  /\ nextId' = nextId + 1
  /\ boundary' = "mutation"
  /\ UNCHANGED <<log, checkpoint, files, returned>>

LogMutation ==
  /\ boundary = "mutation"
  /\ wal' = Append(wal, ledger[Len(ledger)])
  /\ boundary' = "free"
  /\ UNCHANGED <<engine, synced, poisoned, checkpoint, files, returned>>

\* The append fails: the ledger has a mutation that the log has not.
LogMutationFails ==
  /\ boundary = "mutation"
  /\ poisoned' = TRUE
  /\ boundary' = "free"
  /\ UNCHANGED <<engine, wal, synced, checkpoint, files, returned>>

-----------------------------------------------------------------------------
(***************************************************************************)
(* checkpoint_coordinated, one action per effect.                          *)
(***************************************************************************)
\* wal.flush_and_sync(), refused by a poisoned writer, and wal.anchor().
CkptFlush ==
  /\ coordinated /\ Up /\ ~poisoned /\ boundary = "free" /\ at = "idle"
  /\ boundary' = "checkpoint"
  /\ synced' = Len(wal)
  /\ at' = "snapshot"
  /\ generation' = [anchor |-> wal, snapshot |-> None]
  /\ UNCHANGED <<engine, wal, poisoned, files, returned>>

CkptFlushFails ==
  /\ coordinated /\ Up /\ ~poisoned /\ boundary = "free" /\ at = "idle"
  /\ poisoned' = TRUE
  /\ UNCHANGED <<engine, wal, synced, boundary, checkpoint, files, returned>>

\* engine.try_snapshot() takes one allocator position for the snapshot itself.
CkptSnapshot ==
  /\ at = "snapshot" /\ nextId < MaxId
  /\ nextId' = nextId + 1
  /\ generation' = [generation EXCEPT !.snapshot =
                      [version |-> nextId + 1, ledger |-> ledger,
                       watermark |-> Len(generation.anchor)]]
  /\ at' = "save snapshot"
  /\ UNCHANGED <<ledger, log, boundary, files, returned>>

\* save_json_atomic: a synced temporary file is renamed to the path...
Save(path, content) ==
  /\ directory' = [directory EXCEPT ![path] = content]
  /\ UNCHANGED <<engine, log, boundary, generation, disk, returned>>

\* ... and then the parent directory is synced.
SyncDirectory ==
  /\ disk' = directory
  /\ UNCHANGED <<engine, log, directory>>

Version == generation.snapshot.version
Sequence == Len(generation.anchor)

CkptSaveSnapshot ==
  /\ at = "save snapshot"
  /\ Save(SnapshotFile(Version, Sequence), generation.snapshot)
  /\ at' = "sync snapshot"

CkptSyncSnapshot ==
  /\ at = "sync snapshot"
  /\ SyncDirectory
  /\ at' = "save anchor"
  /\ UNCHANGED <<boundary, generation, returned>>

CkptSaveAnchor ==
  /\ at = "save anchor"
  /\ Save(AnchorFile(Version, Sequence), generation.anchor)
  /\ at' = "sync anchor"

CkptSyncAnchor ==
  /\ at = "sync anchor"
  /\ SyncDirectory
  /\ at' = "save manifest"
  /\ UNCHANGED <<boundary, generation, returned>>

CkptSaveManifest ==
  /\ at = "save manifest"
  /\ Save(ManifestFile, [version |-> Version, sequence |-> Sequence,
                         digest |-> generation.snapshot.ledger, hash |-> generation.anchor])
  /\ at' = "sync manifest"

\* Mutant of CkptReturn: it returns without syncing the manifest.
CkptReturnEarly ==
  /\ at = "sync manifest"
  /\ boundary' = "free"
  /\ at' = "idle" /\ generation' = None
  /\ returned' = Version
  /\ UNCHANGED <<engine, log, files>>

CkptReturn ==
  /\ at = "sync manifest"
  /\ SyncDirectory
  /\ boundary' = "free"
  /\ at' = "idle" /\ generation' = None
  /\ returned' = Version

\* Any of the calls after the flush may fail (validate_snapshot_for_restore, file
\* I/O); what has been saved stays where it is.
CkptFails ==
  /\ at # "idle"
  /\ boundary' = "free"
  /\ at' = "idle" /\ generation' = None
  /\ UNCHANGED <<engine, log, files, returned>>

-----------------------------------------------------------------------------
(***************************************************************************)
(* checkpoint_with_wal, which neither syncs the log nor looks at it: the   *)
(* application passes the sequence of a log that is not poisoned.          *)
(***************************************************************************)
PlainSnapshot ==
  /\ ~coordinated /\ Up /\ ~poisoned /\ boundary = "free" /\ at = "idle" /\ nextId < MaxId
  /\ boundary' = "checkpoint"
  /\ nextId' = nextId + 1
  /\ generation' = [anchor |-> wal,
                    snapshot |-> [version |-> nextId + 1, ledger |-> ledger, watermark |-> Len(wal)]]
  /\ at' = "save checkpoint"
  /\ UNCHANGED <<ledger, log, files, returned>>

PlainSave ==
  /\ at = "save checkpoint"
  /\ Save(CheckpointFile, generation.snapshot)
  /\ at' = "sync checkpoint"

PlainReturn ==
  /\ at = "sync checkpoint"
  /\ SyncDirectory
  /\ boundary' = "free"
  /\ at' = "idle" /\ generation' = None
  /\ returned' = Version

-----------------------------------------------------------------------------
(***************************************************************************)
(* Crashes and recovery.                                                   *)
(***************************************************************************)
Down ==
  /\ ledger' = None /\ nextId' = 1
  /\ poisoned' = FALSE
  /\ boundary' = "free"
  /\ at' = "idle" /\ generation' = None
  /\ UNCHANGED returned

\* The process ends; what it wrote is in the file system.
ProcessDies ==
  /\ Up
  /\ Down
  /\ UNCHANGED <<wal, synced, files>>

\* The log loses unsynced entries, the directory any of its unsynced renames.
PowerLoss ==
  /\ Down
  /\ \E n \in synced..Len(wal) : wal' = SubSeq(wal, 1, n) /\ synced' = n
  /\ \E lost \in SUBSET {p \in Paths : directory[p] # disk[p]} :
       directory' = [p \in Paths |-> IF p \in lost THEN disk[p] ELSE directory[p]]
  /\ disk' = directory'

manifest == directory[ManifestFile]
Loaded == directory[SnapshotFile(manifest.version, manifest.sequence)]
LoadedAnchor == directory[AnchorFile(manifest.version, manifest.sequence)]

\* load_coordinated_checkpoint: the files exist and agree with the manifest.
Loads ==
  /\ manifest # None /\ Loaded # None /\ LoadedAnchor # None
  /\ Loaded.version = manifest.version
  /\ Loaded.watermark = manifest.sequence
  /\ Loaded.ledger = manifest.digest
  /\ Len(LoadedAnchor) = manifest.sequence /\ LoadedAnchor = manifest.hash

\* verify_wal_contains_anchor: the log has the anchor's entry at its place.
ContainsAnchor ==
  /\ Len(LoadedAnchor) <= Len(wal)
  /\ SubSeq(wal, 1, Len(LoadedAnchor)) = LoadedAnchor

\* Mutant of Recover: the replay starts at the beginning of the log.
RecoverTwice ==
  /\ coordinated /\ ~Up
  /\ Loads
  /\ ContainsAnchor
  /\ Loaded.version + Len(wal) <= MaxId
  /\ ledger' = Loaded.ledger \o wal
  /\ nextId' = Loaded.version + Len(wal)
  /\ UNCHANGED <<log, boundary, checkpoint, files, returned>>

\* restore, and replay of the entries behind the watermark.  Replay takes allocator positions
\* as the mutations did.
RestoreAndReplay(snapshot) ==
  LET later == SubSeq(wal, snapshot.watermark + 1, Len(wal))
  IN  /\ snapshot.version + Len(later) <= MaxId
      /\ ledger' = snapshot.ledger \o later
      /\ nextId' = snapshot.version + Len(later)
      /\ UNCHANGED <<log, boundary, checkpoint, files, returned>>

\* load_and_verify_coordinated_checkpoint.
Recover ==
  /\ coordinated /\ ~Up
  /\ Loads
  /\ ContainsAnchor
  /\ RestoreAndReplay(Loaded)

\* recovery_plan, which refuses a snapshot whose watermark is ahead of the verified log.
PlainRecover ==
  /\ ~coordinated /\ ~Up
  /\ directory[CheckpointFile] # None
  /\ directory[CheckpointFile].watermark <= Len(wal)
  /\ RestoreAndReplay(directory[CheckpointFile])

\* What recovery starts from: the manifest or the snapshot file.
committed == directory[IF coordinated THEN ManifestFile ELSE CheckpointFile]

\* Without a checkpoint the whole log is replayed into a new engine.
RecoverFromLog ==
  /\ ~Up
  /\ committed = None
  /\ Len(wal) < MaxId
  /\ ledger' = wal
  /\ nextId' = Len(wal) + 1
  /\ UNCHANGED <<log, boundary, checkpoint, files, returned>>

Next ==
  /\ \/ \E m \in Mutations : Mutate(m)
     \/ LogMutation \/ LogMutationFails
     \/ CkptFlush \/ CkptFlushFails \/ CkptSnapshot
     \/ CkptSaveSnapshot \/ CkptSyncSnapshot \/ CkptSaveAnchor \/ CkptSyncAnchor
     \/ CkptSaveManifest \/ CkptReturn \/ CkptFails
     \/ PlainSnapshot \/ PlainSave \/ PlainReturn
     \/ ProcessDies \/ PowerLoss \/ Recover \/ PlainRecover \/ RecoverFromLog
  /\ UNCHANGED coordinated

Spec == Init /\ [][Next]_vars

-----------------------------------------------------------------------------
\* The ledger of a running engine is the effect of its log: recovery neither loses a
\* logged mutation nor applies one twice, even when a plain checkpoint outlived entries of a
\* log that was never synced.
LedgerIsLog == Up /\ boundary = "free" /\ ~poisoned => ledger = wal

\* A checkpoint that checkpoint_coordinated or checkpoint_with_wal has returned stays what
\* recovery starts from until a newer one is, through any crash.
ReturnedGenerationKept == returned > 0 => committed # None /\ committed.version >= returned
=============================================================================
