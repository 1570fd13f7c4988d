------------------------------- MODULE AuditedLog -------------------------------
(***************************************************************************)
(* The log of audited decisions and everything that reads it back: the     *)
(* appends of src/wal.rs and src/async_wal.rs that put a decision with its *)
(* bundle into the log, the readers and anchors of those two, the commands *)
(* chain and audit of src/bin/calybris_verify.rs, the Python AuditedWal    *)
(* (bindings/python/src/production.rs, python/calybris/audit.py) and the   *)
(* independent reader scripts/verify_bundle.py.  How an entry reaches the  *)
(* disk, and what a crash leaves of it, is in Wal.                         *)
(*                                                                         *)
(* A hash names what was hashed and the key, None for plain SHA-256.  The  *)
(* readers are operators on the file.                                      *)
(***************************************************************************)
EXTENDS Receipts

CONSTANTS
  LogKey, OtherKey,   \* keys of the proper length; the log is written with LogKey or with none
  ShortKey,           \* a key of fewer than MIN_HMAC_KEY_BYTES bytes
  MetadataOf,         \* the caller's metadata with an input: "plain", or "separator" when a string
                      \* of it holds a line separator, as U+2028, that serde_json writes as it is
  MaxEntries          \* bound: logs that the appends make

VARIABLES
  walFile,   \* the lines on disk, in order: entries, or None for a blank line
  logs,      \* history: the logs, as sequences of entries, that a writer has had
  writer,    \* the open writer: key, sequence and hash of the head; None when closed
  atRest     \* history: the file has been changed by something else than a writer

auditedLogVars == <<walFile, logs, writer, atRest>>

-----------------------------------------------------------------------------
\* Entries and their chain.

ValidKey(key) == key # ShortKey

LogHash(previous, data, key) == [previous |-> previous, data |-> data, key |-> key]
GenesisHash == LogHash(None, None, None)

LogEntry(n, previous, data, key) ==
  [sequence |-> n, previous |-> previous, data |-> data, hash |-> LogHash(previous, data, key)]

HashAt(entries, n) == IF n = 0 THEN GenesisHash ELSE entries[n].hash

\* The readers of the library skip blank lines.
LogEntries == SelectSeq(walFile, LAMBDA line : line # None)

\* validate_chain_reader, with the check of the key that its callers make.
ValidChain(entries, key) ==
  /\ ValidKey(key)
  /\ \A n \in DOMAIN entries :
       LET e == entries[n]
       IN  /\ e.sequence = n
           /\ e.previous = HashAt(entries, n - 1)
           /\ e.hash = LogHash(e.previous, e.data, key)

ChainHead(entries) == [sequence |-> Len(entries), hash |-> HashAt(entries, Len(entries))]

\* The same walk of async_wal.rs, entry by entry from an expected head.
RECURSIVE WalkAsync(_, _, _)
WalkAsync(entries, head, key) ==
  \/ entries = <<>>
  \/ LET e == Head(entries)
     IN  /\ e.sequence = head.sequence + 1
         /\ e.previous = head.hash
         /\ e.hash = LogHash(e.previous, e.data, key)
         /\ WalkAsync(Tail(entries), [sequence |-> e.sequence, hash |-> e.hash], key)

ValidChainAsync(entries, key) == ValidKey(key) /\ WalkAsync(entries, ChainHead(<<>>), key)

-----------------------------------------------------------------------------
\* The writer.

AuditedRecord(p, i, d) ==
  [audit |-> AuditBundle(p, i, d), input |-> i, decision |-> d, metadata |-> MetadataOf[i]]

OpenLog(key) ==
  /\ writer = None
  /\ ValidChain(LogEntries, key)
  /\ writer' = [key |-> key, head |-> ChainHead(LogEntries)]
  /\ UNCHANGED <<walFile, logs, atRest>>

AppendRecord(record) ==
  LET e == LogEntry(writer.head.sequence + 1, writer.head.hash, record, writer.key)
  IN  /\ writer # None /\ Cardinality(logs) <= MaxEntries
      /\ walFile' = Append(walFile, e)
      /\ logs' = logs \cup {Append(LogEntries, e)}
      /\ writer' = [writer EXCEPT !.head = [sequence |-> e.sequence, hash |-> e.hash]]
      /\ UNCHANGED atRest

\* append_audited writes what it is given.
AppendAudited(p, i, d) == AppendRecord(AuditedRecord(p, i, d))

\* append_verified_audited writes only a decision that replays.
AppendVerifiedAudited(p, i, d) ==
  MayBundle(p, i, d, TRUE) /\ AppendRecord(AuditedRecord(p, i, d))

CloseLog ==
  /\ writer # None
  /\ writer' = None
  /\ UNCHANGED <<walFile, logs, atRest>>

\* WalWriter::anchor of a writer that has this log.
AnchorOf(log, key) ==
  [sequence |-> Len(log), hash |-> HashAt(log, Len(log)), keyed |-> key # None]

-----------------------------------------------------------------------------
\* The readers.

ValidateMetadata(anchor, key) == anchor.keyed = (key # None)

VerifyHead(anchor, head, key) ==
  /\ ValidateMetadata(anchor, key)
  /\ head = [sequence |-> anchor.sequence, hash |-> anchor.hash]

VerifyAgainstAnchor(key, anchor) ==
  ValidChain(LogEntries, key) /\ VerifyHead(anchor, ChainHead(LogEntries), key)

VerifyAsyncAnchor(key, anchor) ==
  /\ anchor.keyed = (key # None)
  /\ ValidChainAsync(LogEntries, key)
  /\ ChainHead(LogEntries) = [sequence |-> anchor.sequence, hash |-> anchor.hash]

\* Mutant of ContainsAnchor: a log shorter than the anchor is let through.
ContainsAnchorIfLong(key, anchor) ==
  /\ ValidateMetadata(anchor, key)
  /\ ValidChain(LogEntries, key)
  /\ anchor.sequence \in DOMAIN LogEntries => LogEntries[anchor.sequence].hash = anchor.hash

\* verify_wal_contains_anchor and its keyed form.
ContainsAnchor(key, anchor) ==
  /\ ValidateMetadata(anchor, key)
  /\ ValidChain(LogEntries, key)
  /\ anchor.sequence <= Len(LogEntries)
  /\ HashAt(LogEntries, anchor.sequence) = anchor.hash

\* read_verified_wal with limits: the entries, or None for an error.
ReadVerifiedBounded(key, maxEntries) ==
  IF ValidChain(LogEntries, key) /\ Len(LogEntries) <= maxEntries THEN LogEntries ELSE None

\* PolicyResolver, over the policies that the caller knows.
Resolve(known, bundle) ==
  {p \in known : /\ p.policyEpoch = bundle.policyEpoch
                 /\ p.catalogEpoch = bundle.catalogEpoch
                 /\ Hex(PolicyDigest(p)) = bundle.policy}

\* WalReplayVerdict of an entry under the policy that was resolved.
ReplayVerdict(p, record) ==
  [replayValid |-> VerifyDecision(p, record.input, record.decision),
   policy |-> record.audit.policy = Hex(PolicyDigest(p)),
   input |-> record.audit.input = Hex(InputDigest(record.input)),
   decision |-> record.audit.decision = Hex(DecisionDigest(record.decision))]

VerifyAuditedEntries(entries, known) ==
  \A n \in DOMAIN entries :
    LET record == entries[n].data
    IN  /\ ValidateCanonical(record.audit)
        /\ \E p \in Resolve(known, record.audit) :
             LET verdict == ReplayVerdict(p, record) IN \A f \in DOMAIN verdict : verdict[f]

\* replay_audited_wal_with_resolver, and replay_audited_wal when one policy is known.
ReplayAudited(key, known) == ValidChain(LogEntries, key) /\ VerifyAuditedEntries(LogEntries, known)

\* replay_verify_audited_wal of the Python package, with limits.
ReplayVerify(key, p, maxEntries) ==
  LET entries == ReadVerifiedBounded(key, maxEntries)
  IN  entries # None /\ VerifyAuditedEntries(entries, {p})

\* verify_audited_wal of the Python package, and the command chain: an anchor or None.
VerifyAuditedWal(key, anchor) ==
  IF anchor = None THEN ValidChain(LogEntries, key) ELSE VerifyAgainstAnchor(key, anchor)

CmdChain(key, anchor) == VerifyAuditedWal(key, anchor)

\* inspect, inside cmd_audit: the problems of one record.
Problems(record, known) ==
  LET resolved == Resolve(known, record.audit)
  IN  (IF ValidateCanonical(record.audit) THEN {} ELSE {"bundle"})
        \cup (IF Hex(InputDigest(record.input)) = record.audit.input THEN {} ELSE {"input"})
        \cup (IF Hex(DecisionDigest(record.decision)) = record.audit.decision THEN {}
              ELSE {"decision"})
        \cup (IF known # {} /\ resolved = {} THEN {"policy"} ELSE {})
        \cup (IF \A p \in resolved : VerifyDecision(p, record.input, record.decision) THEN {}
              ELSE {"replay"})

\* The command audit, with no, one or several policies.
CmdAudit(key, known, anchor) ==
  /\ ValidChain(LogEntries, key)
  /\ anchor # None => VerifyHead(anchor, ChainHead(LogEntries), key)
  /\ \A n \in DOMAIN LogEntries : Problems(LogEntries[n].data, known) = {}

\* A line that json.loads reads as the entry it is: splitlines cuts one with a separator.
Loads(line) == line # None /\ line.data.metadata = "plain"

\* wal_leaves of verify_bundle.py: whether every line loads and the chain holds.  It takes a
\* key of any length and does not look at the sequence numbers.
WalLeavesOk(key) ==
  \A n \in DOMAIN walFile :
    /\ Loads(walFile[n])
    /\ walFile[n].previous = HashAt(walFile, n - 1)
    /\ walFile[n].hash = LogHash(HashAt(walFile, n - 1), walFile[n].data, key)

-----------------------------------------------------------------------------
\* The file at rest: entries lost, repeated, exchanged or changed, a blank line inserted, and a
\* log that was put together anew by someone who does not have the key.

\* Records whose bundles were not made by audit_bundle.
Composed ==
  {[AuditedRecord(p, i, d) EXCEPT !.audit.replayValid = TRUE] :
     p \in Policies, i \in Inputs, d \in Decisions}
    \cup {[AuditedRecord(p, i, Prescribe(p, i)) EXCEPT !.audit.decision = NoHex] :
            p \in Policies, i \in Inputs}

RECURSIVE Chained(_, _)
Chained(entries, records) ==
  IF records = <<>> THEN entries
  ELSE Chained(Append(entries, LogEntry(Len(entries) + 1, HashAt(entries, Len(entries)),
                                        Head(records), None)), Tail(records))

Records(entries) == [n \in DOMAIN entries |-> entries[n].data]

Stored(entries) ==
  {SubSeq(entries, 1, n) : n \in 0..Len(entries)}
    \cup {RemoveAt(entries, n) : n \in DOMAIN entries}
    \cup {InsertAt(entries, n, entries[n]) : n \in DOMAIN entries}
    \cup {InsertAt(entries, n, None) : n \in 1..Len(entries) + 1}
    \cup {[entries EXCEPT ![n] = entries[m], ![m] = entries[n]] : n, m \in DOMAIN entries}
    \cup {[entries EXCEPT ![n].sequence = @ + 1] : n \in DOMAIN entries}
    \cup {[entries EXCEPT ![n].data = r] : n \in DOMAIN entries, r \in Composed}
    \cup {Chained(SubSeq(entries, 1, n - 1), [Records(SubSeq(entries, n, Len(entries)))
                                                EXCEPT ![1] = r]) :
            n \in DOMAIN entries, r \in Composed}
    \cup {Chained(entries, <<r>>) : r \in Composed}

ChangeAtRest ==
  /\ writer = None /\ ~atRest /\ walFile # <<>>
  /\ walFile' \in Stored(walFile) \ {walFile}
  /\ atRest' = TRUE
  /\ UNCHANGED <<logs, writer>>

AuditedLogInit == walFile = <<>> /\ logs = {<<>>} /\ writer = None /\ atRest = FALSE

AuditedLogNext ==
  \/ \E key \in {None, LogKey, ShortKey} : OpenLog(key)
  \/ \E p \in Policies, i \in Inputs, d \in Decisions :
       AppendAudited(p, i, d) \/ AppendVerifiedAudited(p, i, d)
  \/ CloseLog
  \/ ChangeAtRest

-----------------------------------------------------------------------------
LogKeys == {None, LogKey, OtherKey, ShortKey}

\* The key a log was begun with.
KeyOfLog(log) == IF log = <<>> THEN None ELSE log[1].hash.key

Replays(e) == \E p \in Policies :
  e.data = AuditedRecord(p, e.data.input, Prescribe(p, e.data.input))

\* What the readers of the log conclude is so, whatever happened to the file while no writer had
\* it, and whoever opened what was left of it and went on.  With the key, a log that validates is
\* the beginning of one that a writer has had; against an anchor it is the log of the anchor, and
\* where the anchor is contained it begins with that log, with the key or without.  A replay that
\* succeeds has found for every entry the policy that makes its decision.  A log nobody touched
\* validates with its own key alone, matches and contains the anchors it should, and replays if
\* every decision in it does.  The readers agree with each other: the synchronous and the
\* asynchronous one, the command audit with the replay by resolver, the replay of one policy with
\* that of several.  The independent script accepts a chain that the library does exactly when
\* every line loads, and what it accepts with the key are records that a writer has written.
ReadersAgreeWithHistory ==
  \A key \in LogKeys :
    LET found == LogEntries
        ok == ValidChain(found, key)
        replayed == ReplayAudited(key, Policies)
    IN  /\ key # None /\ ok => \E log \in logs : IsPrefix(found, log)
        /\ key # None /\ WalLeavesOk(key) => \E log \in logs : IsPrefix(Records(found), Records(log))
        /\ ok <=> ValidChainAsync(found, key)
        /\ ok => (WalLeavesOk(key) <=> \A n \in DOMAIN walFile : Loads(walFile[n]))
        /\ ~atRest => (ok <=> ValidKey(key) /\ (found = <<>> \/ key = KeyOfLog(found)))
        /\ \A log \in logs :
             LET anchor == AnchorOf(log, KeyOfLog(log))
                 matches == VerifyAgainstAnchor(key, anchor)
                 contains == ContainsAnchor(key, anchor)
             IN  /\ matches => found = log
                 /\ matches <=> VerifyAsyncAnchor(key, anchor)
                 /\ contains => IsPrefix(log, found)
                 /\ ~atRest /\ log # <<>> /\ key = KeyOfLog(log) =>
                      contains /\ (CmdChain(key, anchor) <=> log = found)
                 /\ CmdAudit(key, Policies, anchor) <=> replayed /\ matches
        /\ replayed => /\ \A n \in DOMAIN found : Replays(found[n])
                       /\ CmdAudit(key, {}, None)
        /\ ~atRest /\ ok => (replayed <=> \A n \in DOMAIN found : Replays(found[n]))
        /\ \A p \in Policies :
             /\ ReplayVerify(key, p, MaxEntries + 1) => replayed
             /\ ReplayVerify(key, p, 1) <=> ReplayVerify(key, p, MaxEntries + 1) /\ Len(found) <= 1
=============================================================================
