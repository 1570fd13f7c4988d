----------------------------- MODULE HybridBatches -----------------------------
(***************************************************************************)
(* src/hybrid.rs: one pair of signatures, Ed25519 and ML-DSA-65, over the  *)
(* root of a batch of digests, and a proof for each item.  The digests of  *)
(* the batch are the leaves of Merkle's log.                               *)
(*                                                                         *)
(* A half of a signature names its key and its message.                    *)
(***************************************************************************)
EXTENDS Merkle

CONSTANT MaxBatch  \* bound: how many digests a batch holds

\* The verifier trusts the two keys of "signer"; "other" is anybody else.
Signers == {"signer", "other"}

Message(digest) == <<"calyhyb1">> \o digest

Half(who, digest) == [by |-> who, over |-> Message(digest)]

\* HybridSigner::sign.
HybridSign(digest) == [ed25519 |-> Half("signer", digest), mlDsa |-> Half("signer", digest)]

\* verify: both halves, over the same message.
VerifyHybrid(digest, sig) ==
  sig.ed25519 = Half("signer", digest) /\ sig.mlDsa = Half("signer", digest)

BatchDigest(size, root) == <<"calyhbt1">> \o U64(size) \o Raw(root)

\* HybridSigner::sign_batch of a batch that is not empty: the signature, and an item for each
\* digest.
SignBatch(d) ==
  [size |-> Len(d), root |-> RootOf(d), signature |-> HybridSign(BatchDigest(Len(d), RootOf(d)))]

BatchItems(d) ==
  LET proofs == AllInclusionProofs(d)
  IN  [i \in DOMAIN d |-> [index |-> i - 1, proof |-> proofs[i]]]

VerifyBatch(batch) ==
  batch.size # 0 /\ VerifyHybrid(BatchDigest(batch.size, batch.root), batch.signature)

\* VerifiedBatch::verify_item.
VerifyItem(batch, leaf, item) ==
  VerifyInclusion([size |-> batch.size, root |-> batch.root], item.index, leaf, item.proof)

VerifyBatchItem(batch, leaf, item) == VerifyBatch(batch) /\ VerifyItem(batch, leaf, item)

-----------------------------------------------------------------------------
\* The batches that are signed: the log, and the log as it was.
SignedBatches == {SignBatch(First(log, n)) : n \in 1..Len(log)}

\* Every half there is of a signature: the signer's over those batches, anybody's over any.
Halves(batch) ==
  {b.signature.ed25519 : b \in SignedBatches}
    \cup {Half("other", BatchDigest(batch.size, batch.root))}

\* What arrives: a batch whose size or signature halves may be another's, an item of the whole
\* log, at its place or the next, and a digest.
CheckBatchItem(batch, item, leaf) ==
  /\ check = None
  /\ check' = [kind |-> "item", batch |-> batch, item |-> item, leaf |-> leaf,
               ok |-> VerifyBatchItem(batch, leaf, item)]
  /\ UNCHANGED <<log, levels>>

BatchNext ==
  /\ check = None /\ Len(log) \in 1..MaxBatch
  /\ \E signed \in SignedBatches : \E size \in (signed.size - 1)..(signed.size + 1) :
       LET batch == [signed EXCEPT !.size = size]
       IN  \E ed25519, mlDsa \in Halves(batch), i \in DOMAIN log :
             \E index \in {i - 1, i}, data \in Leaves :
               CheckBatchItem(
                 [batch EXCEPT !.signature = [ed25519 |-> ed25519, mlDsa |-> mlDsa]],
                 [BatchItems(log)[i] EXCEPT !.index = index], LeafHash(data))

-----------------------------------------------------------------------------
\* A proof is accepted exactly when it is the one that was made.  verify_inclusion: for the
\* leaf at that index, also when the leaf occurs twice, and whatever was lost or added on the
\* way.  verify_consistency: for a claimed head whose leaves are the first leaves of the log,
\* so a history rewritten after its head was published has none.  verify_batch_item: for a
\* digest at its place in a batch whose size and root both keys signed together.  The tree
\* that makes the proofs agrees with its leaves.
ProofsAreExact ==
  /\ CacheMatchesLeaves
  /\ check # None =>
       check.ok =
         CASE check.kind = "inclusion" ->
                /\ log[check.index + 1] = check.leaf
                /\ check.proof = InclusionProof(log, check.index)
           [] check.kind = "consistency" ->
                /\ IsPrefix(check.claim, log)
                /\ check.proof = ConsistencyProof(log, Len(check.claim))
           [] check.kind = "item" ->
                /\ check.batch \in SignedBatches
                /\ check.item.index < check.batch.size
                /\ log[check.item.index + 1] = check.leaf
                /\ check.item = BatchItems(First(log, check.batch.size))[check.item.index + 1]
=============================================================================
