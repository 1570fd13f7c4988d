-------------------------------- MODULE MCTrust --------------------------------
(***************************************************************************)
(* The trust layer, one part of it in each behaviour: Merkle proofs and    *)
(* batches, signed notes, the files of the commands, evidence of time,     *)
(* timestamps, receipts, the log of decisions, trajectories and the C      *)
(* interface.                                                              *)
(***************************************************************************)
EXTENDS HybridBatches, Notes, TrustFiles, Evidence, Timestamps, AuditedLog,
        Trajectories, CAbi, TLC

CONSTANTS p1, p2, p3, k1, k2, k3, w1, w2, w3

VARIABLE part

allVars == <<merkleVars, notesVars, noteVars, keyVars, evidenceVars, timestampVars, receiptVars,
             auditedLogVars, trajectoryVars, abiVars, part>>

\* A witness key with the log's name may have the hash of the log's key.
MCKeyHash(name, alg, key) == IF <<alg, key>> \in {<<1, k1>>, <<4, k2>>} THEN 1 ELSE 2

\* Also of an origin that looks like the beginning of a cosignature's message, and longer.
MCCheckpoints ==
  {Checkpoint(Word("log"), 1, 1, <<>>), Checkpoint(Word("cosignature/v1"), 1, 1, <<>>),
   Checkpoint(Word("cosignature/v1"), 1, 1, <<Word("extension")>>)}

\* Two of the three commands share a key.
MCKeyOf == (p1 :> "w1") @@ (p2 :> "w2") @@ (p3 :> "w2")

MCCalendars == <<1, 2>>

\* A certificate and its renewal for the same key, one that also serves another purpose, and
\* one that nobody pinned.
MCCertificates ==
  LET C(key, serial, ski, usage, until) ==
        [key |-> key, serial |-> serial, ski |-> ski, usage |-> usage, from |-> 1, until |-> until]
      only == <<"critical", "timeStamping">>
  IN  {C(k1, 1, "a", only, 1), C(k1, 2, "a", only, 2),
       C(k2, 3, None, <<"critical", "timeStamping", "codeSigning">>, 2), C(k3, 4, "b", only, 2)}

MCPinned ==
  LET at(serial) == CHOOSE c \in MCCertificates : c.serial = serial
  IN  <<at(1), at(2), at(3)>>

\* The witnesses that are honest differ in nothing but their name.
HonestSymmetry == Permutations(Witnesses \ Dishonest)

\* Two policies of one epoch that select differently.
MCPolicies ==
  {[id |-> "p", policyEpoch |-> 1, catalogEpoch |-> 1, selects |-> <<1, 2>>],
   [id |-> "q", policyEpoch |-> 1, catalogEpoch |-> 1, selects |-> <<1, 1>>]}

MCStates == {[step |-> step, before |-> Hex(<<"x">>), after |-> Hex(<<"y">>)] : step \in {0, 1}}
MCWals == {[sequence |-> 1, hash |-> hash] : hash \in {Hex(<<"x">>), NoHex}}

MCMetadataOf == <<"plain", "separator">>

\* Catalogs that are accepted, in both orders, and one for each reason to refuse.
MCCatalogs ==
  LET M(id, enabled) == [id |-> id, enabled |-> enabled]
  IN  {<<>>, <<M(1, 1), M(2, 1)>>, <<M(2, 1), M(1, 1)>>, <<M(2, 1), M(1, 0)>>, <<M(0, 1)>>,
       <<M(1, 2)>>, <<M(1, 1), M(1, 1)>>, <<M(1, 1), M(2, 1), M(3, 1)>>}

TrustInit ==
  /\ part \in {"merkle", "notes", "note", "keys", "evidence", "ots", "tokens", "receipts",
               "log", "trajectories", "abi"}
  /\ MerkleInit /\ NotesInit /\ FilesInit /\ EvidenceInit /\ TimestampsInit /\ ReceiptsInit
  /\ AuditedLogInit /\ TrajectoriesInit /\ AbiInit

TrustNext ==
  \/ /\ part = "merkle" /\ (MerkleNext \/ BatchNext)
     /\ UNCHANGED <<notesVars, noteVars, keyVars, evidenceVars, timestampVars,
                    receiptVars, auditedLogVars, trajectoryVars, abiVars,
                    part>>
  \/ /\ part = "notes" /\ NotesNext
     /\ UNCHANGED <<merkleVars, noteVars, keyVars, evidenceVars, timestampVars,
                    receiptVars, auditedLogVars, trajectoryVars, abiVars,
                    part>>
  \/ /\ part = "note" /\ NoteNext
     /\ UNCHANGED <<merkleVars, notesVars, keyVars, evidenceVars, timestampVars,
                    receiptVars, auditedLogVars, trajectoryVars, abiVars,
                    part>>
  \/ /\ part = "keys" /\ KeyNext
     /\ UNCHANGED <<merkleVars, notesVars, noteVars, evidenceVars, timestampVars,
                    receiptVars, auditedLogVars, trajectoryVars, abiVars,
                    part>>
  \/ /\ part = "evidence" /\ EvidenceNext
     /\ UNCHANGED <<merkleVars, notesVars, noteVars, keyVars, timestampVars,
                    receiptVars, auditedLogVars, trajectoryVars, abiVars,
                    part>>
  \/ /\ part = "ots" /\ OtsNext
     /\ UNCHANGED <<merkleVars, notesVars, noteVars, keyVars, evidenceVars, tokenVars,
                    receiptVars, auditedLogVars, trajectoryVars, abiVars,
                    part>>
  \/ /\ part = "tokens" /\ TokenNext
     /\ UNCHANGED <<merkleVars, notesVars, noteVars, keyVars, evidenceVars, otsVars,
                    receiptVars, auditedLogVars, trajectoryVars, abiVars,
                    part>>
  \/ /\ part = "receipts" /\ ReceiptsNext
     /\ UNCHANGED <<merkleVars, notesVars, noteVars, keyVars, evidenceVars,
                    timestampVars, auditedLogVars, trajectoryVars, abiVars,
                    part>>
  \/ /\ part = "log" /\ AuditedLogNext
     /\ UNCHANGED <<merkleVars, notesVars, noteVars, keyVars, evidenceVars,
                    timestampVars, receiptVars, trajectoryVars, abiVars,
                    part>>
  \/ /\ part = "trajectories" /\ TrajectoriesNext
     /\ UNCHANGED <<merkleVars, notesVars, noteVars, keyVars, evidenceVars,
                    timestampVars, receiptVars, auditedLogVars, abiVars,
                    part>>
  \/ /\ part = "abi" /\ AbiNext
     /\ UNCHANGED <<merkleVars, notesVars, noteVars, keyVars, evidenceVars,
                    timestampVars, receiptVars, auditedLogVars,
                    trajectoryVars, part>>

TrustSpec == TrustInit /\ [][TrustNext]_allVars
=============================================================================
