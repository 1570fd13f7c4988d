-------------------------------- MODULE Receipts --------------------------------
(***************************************************************************)
(* The artifacts that bind a decision to its policy and input: audit       *)
(* bundles (src/verify.rs), proof envelopes (src/proof.rs), receipts       *)
(* (src/receipt.rs), signed policies (src/provenance.rs) and certificates  *)
(* (src/certificate.rs), over the digests of src/digest.rs.  One artifact  *)
(* is made, signed, and then stored where its fields may be changed; the   *)
(* verifiers are operators on it.                                          *)
(*                                                                         *)
(* A signature names its key and its message.                              *)
(***************************************************************************)
EXTENDS Digests

CONSTANTS
  Policies,      \* records: id, policyEpoch, catalogEpoch, and what it selects for each input
  Inputs,
  Keys,
  States, Wals,  \* the anchors a caller may attach or expect
  MaxEvents      \* bound: signatures made or to be made, and fields changed

VARIABLES
  artifact,   \* the artifact in the caller's hands, None before
  made,       \* every artifact as it was signed: key, what, time and signer
  changes     \* how many fields have been changed

receiptVars == <<artifact, made, changes>>

-----------------------------------------------------------------------------
\* Digests, and decisions that replay.

\* The digest has the models in the order of their ids, not of the catalog: catalogs that differ
\* only in order have one digest.  A policy is here what its digest has of it.
PolicyDigest(p) ==
  <<"calypol1">> \o U64(p.policyEpoch) \o U64(p.catalogEpoch) \o Raw(p.id)
InputDigest(i) == <<"calyinp1">> \o U64(i)
DecisionDigest(d) ==
  <<"calydcn1">> \o U64(d.selected) \o U64(d.policyEpoch) \o U64(d.catalogEpoch)

\* PolicySnapshot::prescribe, which DecisionKernel models.
Prescribe(p, i) ==
  [selected |-> p.selects[i], policyEpoch |-> p.policyEpoch, catalogEpoch |-> p.catalogEpoch]

VerifyDecision(p, i, d) ==
  Prescribe(p, i) = d /\ DecisionDigest(Prescribe(p, i)) = DecisionDigest(d)

Decisions == {Prescribe(p, i) : p \in Policies, i \in Inputs}

-----------------------------------------------------------------------------
\* Audit bundles and proof envelopes.

Metadata == [schema |-> "calybris.audit.v1", algorithm |-> "sha256", version |-> 1,
             createdBy |-> "calybris"]

AuditBundle(p, i, d) ==
  [kind |-> "bundle", meta |-> Metadata, policyEpoch |-> p.policyEpoch,
   catalogEpoch |-> p.catalogEpoch, policy |-> Hex(PolicyDigest(p)),
   input |-> Hex(InputDigest(i)), decision |-> Hex(DecisionDigest(d)),
   replayValid |-> Prescribe(p, i) = d]

ValidateCanonical(b) ==
  /\ b.meta = Metadata
  /\ b.replayValid
  /\ Canonical(b.policy) /\ Canonical(b.input) /\ Canonical(b.decision)

\* verified_audit_bundle gives a bundle only when the decision replays.
MayBundle(p, i, d, verified) == verified => VerifyDecision(p, i, d)

Seal(p, i, d) ==
  [kind |-> "envelope", version |-> 1, policy |-> Hex(PolicyDigest(p)),
   input |-> Hex(InputDigest(i)), decision |-> Hex(DecisionDigest(d)),
   replayValid |-> VerifyDecision(p, i, d), wal |-> None, ledger |-> None]

\* ProofEnvelopeBuilder::wal and ProofEnvelopeBuilder::budget.
WithWal(e, w) == [e EXCEPT !.wal = w]
WithBudget(e, digest) == [e EXCEPT !.ledger = digest]

HasAllAttachments(e) == e.replayValid /\ e.wal # None /\ e.ledger # None

ValidateComplete(e) ==
  /\ e.version = 1
  /\ HasAllAttachments(e)
  /\ e.wal.sequence # 0
  /\ \A text \in {e.policy, e.input, e.decision, e.wal.hash, e.ledger} : Canonical(text)

-----------------------------------------------------------------------------
\* Receipts.

Schema == <<"calybris.receipt.v1">>

WellFormedState(s) == s # None => s.step # 0 /\ Canonical(s.before) /\ Canonical(s.after)
WellFormedWal(w) == w # None => w.sequence # 0 /\ Canonical(w.hash)

HashOptionalState(s) ==
  IF s = None THEN U8(0)
  ELSE U8(1) \o U64(s.step) \o Raw(ParseHex(s.before)) \o Raw(ParseHex(s.after))

HashOptionalWal(w) ==
  IF w = None THEN U8(0) ELSE U8(1) \o U64(w.sequence) \o Raw(ParseHex(w.hash))

WellFormed(r) ==
  /\ Canonical(r.policy) /\ Canonical(r.input) /\ Canonical(r.decision)
  /\ WellFormedState(r.state) /\ WellFormedWal(r.wal)

\* Mutant of ClaimsDigest: the anchors are left out.
ClaimsDigestBare(r) ==
  <<"calyrcp1">> \o U64(Len(r.schema)) \o r.schema
    \o U64(r.policyEpoch) \o U64(r.catalogEpoch)
    \o Raw(ParseHex(r.policy)) \o Raw(ParseHex(r.input)) \o Raw(ParseHex(r.decision))
    \o U8(r.replayValid)

\* receipt_claims_digest of a well-formed receipt.
ClaimsDigest(r) ==
  <<"calyrcp1">> \o U64(Len(r.schema)) \o r.schema
    \o U64(r.policyEpoch) \o U64(r.catalogEpoch)
    \o Raw(ParseHex(r.policy)) \o Raw(ParseHex(r.input)) \o Raw(ParseHex(r.decision))
    \o U8(r.replayValid)
    \o HashOptionalState(r.state) \o HashOptionalWal(r.wal)

ClaimsMatch(r) == WellFormed(r) /\ r.claims = Hex(ClaimsDigest(r))

Unsigned(p, i, d, state, wal) ==
  [kind |-> "receipt", schema |-> Schema, policyEpoch |-> d.policyEpoch,
   catalogEpoch |-> d.catalogEpoch, policy |-> Hex(PolicyDigest(p)),
   input |-> Hex(InputDigest(i)), decision |-> Hex(DecisionDigest(d)), replayValid |-> TRUE,
   state |-> state, wal |-> wal, claims |-> NoHex, signature |-> None]

VerifyReceipt(r, p, i, d) ==
  /\ r.schema = Schema /\ r.replayValid
  /\ r.policyEpoch = d.policyEpoch /\ r.catalogEpoch = d.catalogEpoch
  /\ r.policy = Hex(PolicyDigest(p))
  /\ r.input = Hex(InputDigest(i))
  /\ r.decision = Hex(DecisionDigest(d))
  /\ VerifyDecision(p, i, d)
  /\ ClaimsMatch(r)

VerifyReceiptState(r, s) == r.state = s
VerifyReceiptWal(r, w) == r.wal = w

ReceiptSigningMessage(claims, time, signer) ==
  <<"calyrcs1">> \o Raw(claims) \o U64(time) \o signer

Signature(key, message, time, signer) ==
  [signer |-> signer, time |-> time, key |-> key, value |-> [by |-> key, over |-> message]]

VerifyReceiptSignature(r, trusted) ==
  /\ r.signature # None
  /\ ClaimsMatch(r)
  /\ r.signature.key = trusted
  /\ r.signature.value =
       [by |-> r.signature.key,
        over |-> ReceiptSigningMessage(ClaimsDigest(r), r.signature.time, r.signature.signer)]

VerifyReceiptFull(r, p, i, d, trusted, s, w) ==
  /\ VerifyReceipt(r, p, i, d)
  /\ VerifyReceiptSignature(r, trusted)
  /\ VerifyReceiptState(r, s)
  /\ VerifyReceiptWal(r, w)

-----------------------------------------------------------------------------
\* Signed policies.

SigningMessage(digest, time, signer) == <<"calysig1">> \o Raw(digest) \o U64(time) \o signer

SignedPolicy(p, key, time, signer) ==
  [kind |-> "policy", policy |-> Hex(PolicyDigest(p)),
   signature |-> Signature(key, SigningMessage(PolicyDigest(p), time, signer), time, signer)]

VerifySignedPolicy(p, a) ==
  /\ a.policy = Hex(PolicyDigest(p))
  /\ a.signature.value =
       [by |-> a.signature.key,
        over |-> SigningMessage(PolicyDigest(p), a.signature.time, a.signature.signer)]

VerifySignedPolicyWithKey(p, a, trusted) ==
  a.signature.key = trusted /\ VerifySignedPolicy(p, a)

-----------------------------------------------------------------------------
\* Certificates.

CertificateSchema == <<"calybris-certificate-v1">>

Certificate(p, i, d, anchors) ==
  [kind |-> "certificate", schema |-> CertificateSchema, policyEpoch |-> d.policyEpoch,
   catalogEpoch |-> d.catalogEpoch, policy |-> Hex(PolicyDigest(p)),
   input |-> Hex(InputDigest(i)), decision |-> Hex(DecisionDigest(d)), replayValid |-> TRUE,
   state |-> anchors.state, wal |-> anchors.wal, signature |-> anchors.signature]

VerifyCertificate(c, p, i, d) ==
  /\ c.schema = CertificateSchema /\ c.replayValid
  /\ c.policyEpoch = d.policyEpoch /\ c.catalogEpoch = d.catalogEpoch
  /\ c.policy = Hex(PolicyDigest(p))
  /\ c.input = Hex(InputDigest(i))
  /\ c.decision = Hex(DecisionDigest(d))
  /\ VerifyDecision(p, i, d)

VerifyCertificateScoped(c, p, i, d, s, w) ==
  VerifyCertificate(c, p, i, d) /\ c.state = s /\ c.wal = w

\* The signature is that of the policy; the certificate lends it the policy digest.  Without a
\* trusted key, None, the key is the one it brings.
VerifyCertificateSignature(c, p, trusted) ==
  /\ c.signature # None
  /\ LET signed == [policy |-> c.policy, signature |-> c.signature]
     IN  IF trusted = None THEN VerifySignedPolicy(p, signed)
                           ELSE VerifySignedPolicyWithKey(p, signed, trusted)

-----------------------------------------------------------------------------
\* Making an artifact.

\* A second artifact may follow one that was signed.
Fresh ==
  /\ Cardinality(made) < 2
  /\ artifact # None =>
       /\ changes = 0 /\ artifact.kind \in {"receipt", "policy"} /\ artifact.signature # None

Keep(a) == artifact' = a /\ changes' = 0

MakeBundle(p, i, d, verified) ==
  /\ artifact = None
  /\ MayBundle(p, i, d, verified)
  /\ Keep(AuditBundle(p, i, d)) /\ UNCHANGED made

BuildEnvelope(p, i, d, w, digest) ==
  /\ artifact = None
  /\ Keep(WithBudget(WithWal(Seal(p, i, d), w), digest)) /\ UNCHANGED made

IssueReceipt(p, i, d, s, w) ==
  LET r == Unsigned(p, i, d, s, w)
  IN  /\ Fresh
      /\ VerifyDecision(p, i, d)
      /\ WellFormed(r)
      /\ Keep([r EXCEPT !.claims = Hex(ClaimsDigest(r))]) /\ UNCHANGED made

SignReceipt(key, time, signer) ==
  /\ artifact # None /\ artifact.kind = "receipt" /\ artifact.signature = None
  /\ ClaimsMatch(artifact)
  /\ artifact' =
       [artifact EXCEPT !.signature =
          Signature(key, ReceiptSigningMessage(ClaimsDigest(artifact), time, signer), time, signer)]
  /\ made' = made \cup {[key |-> key, what |-> artifact, time |-> time, signer |-> signer]}
  /\ UNCHANGED changes

SignPolicy(p, key, time, signer) ==
  /\ Fresh
  /\ Keep(SignedPolicy(p, key, time, signer))
  /\ made' = made \cup {[key |-> key, what |-> p, time |-> time, signer |-> signer]}

\* CertificateSignature::from_signed_policy: the fields of the policy at hand.
FromSignedPolicy(signed) == signed.signature

\* issue_certificate takes the anchors as they are.
IssueCertificate(p, i, d, s, w) ==
  /\ artifact # None => artifact.kind = "policy" /\ changes = 0
  /\ VerifyDecision(p, i, d)
  /\ Keep(Certificate(p, i, d,
            [state |-> s, wal |-> w,
             signature |-> IF artifact = None THEN None ELSE FromSignedPolicy(artifact)]))
  /\ UNCHANGED made

\* What a stored artifact may turn into: any field gets another value, among them a claims
\* digest that was computed anew and a signature made for something else.
Texts == {NoHex} \cup {Hex(PolicyDigest(p)) : p \in Policies}

IsReceipt(m) == "kind" \in DOMAIN m.what

SignatureOf(m) ==
  IF IsReceipt(m)
  THEN Signature(m.key, ReceiptSigningMessage(ClaimsDigest(m.what), m.time, m.signer),
                 m.time, m.signer)
  ELSE SignedPolicy(m.what, m.key, m.time, m.signer).signature

Signatures(current) ==
  {[current EXCEPT !.time = 3 - @], [current EXCEPT !.signer = @ \o @]}
    \cup {[current EXCEPT !.key = k] : k \in Keys}
    \cup {[current EXCEPT !.value = SignatureOf(m).value] : m \in made}

Altered(a) ==
  {[a EXCEPT !.policy = t] : t \in Texts}
    \cup (IF a.kind = "policy" THEN {} ELSE {[a EXCEPT !.replayValid = ~@]})
    \cup (IF a.kind \in {"policy", "receipt", "certificate"} /\ a.signature # None
          THEN {[a EXCEPT !.signature = s] : s \in Signatures(a.signature)} ELSE {})
    \cup (IF a.kind \notin {"receipt", "certificate"} THEN {}
          ELSE {[a EXCEPT !.schema = @ \o @], [a EXCEPT !.policyEpoch = 3 - @],
                [a EXCEPT !.decision = NoHex]}
                 \cup {[a EXCEPT !.state = s] : s \in States \cup {None}}
                 \cup {[a EXCEPT !.wal = w] : w \in Wals \cup {None}}
                 \cup (IF a.kind = "receipt" /\ WellFormed(a)
                       THEN {[a EXCEPT !.claims = Hex(ClaimsDigest(a))]} ELSE {}))

ToBeSigned == IF "signature" \in DOMAIN artifact /\ artifact.signature # None THEN 0 ELSE 1

Alter ==
  /\ artifact # None
  /\ changes + Cardinality(made) + ToBeSigned < MaxEvents
  /\ artifact' \in Altered(artifact) \ {artifact}
  /\ changes' = changes + 1
  /\ UNCHANGED made

ReceiptsInit == artifact = None /\ made = {} /\ changes = 0

Anchored(S) == S \cup {None}

\* The keys differ in nothing but their name: the first to sign is any one of them.
Signing == IF made = {} THEN {CHOOSE key \in Keys : TRUE} ELSE Keys

ReceiptsNext ==
  \/ \E p \in Policies, i \in Inputs, d \in Decisions :
       \/ \E verified \in BOOLEAN : MakeBundle(p, i, d, verified)
       \/ \E w \in Anchored(Wals), t \in {None, NoHex, Hex(<<"calyldg1">>)} :
            BuildEnvelope(p, i, d, w, t)
       \/ \E s \in Anchored(States), w \in Anchored(Wals) :
            IssueReceipt(p, i, d, s, w) \/ IssueCertificate(p, i, d, s, w)
  \/ /\ Cardinality(made) < 2
     /\ \E key \in Signing : SignReceipt(key, 1, <<"a">>)
  \/ /\ made = {}
     /\ \E p \in Policies, key \in Signing : SignPolicy(p, key, 1, <<"a">>)
  \/ Alter

-----------------------------------------------------------------------------
\* "Verify the complete production receipt contract in one fail-closed call", receipt.rs: what
\* verify_receipt_full accepts replays, and the trusted key signed every one of its claims;
\* whatever was changed in storage, taken from another receipt, or digested anew.  The receipt
\* as it was signed is accepted.  A signed policy likewise.  A certificate that
\* verify_certificate_scoped accepts replays and carries the anchors that were expected, an
\* absent one included, and one signed by a trusted key names a policy the key signed: nothing
\* more, the rest of it is anybody's.  A bundle or an envelope that passes its own checks as it
\* was made is about the decision the policy makes.
AcceptedIsAuthentic ==
  artifact # None =>
    CASE artifact.kind = "receipt" ->
           \A p \in Policies, i \in Inputs, d \in Decisions, k \in Keys, s \in States, w \in Wals :
             LET accepted == VerifyReceiptFull(artifact, p, i, d, k, s, w)
                 authentic == /\ Prescribe(p, i) = d
                              /\ \E m \in made :
                                   /\ IsReceipt(m) /\ m.key = k
                                   /\ artifact = [m.what EXCEPT !.signature = SignatureOf(m)]
                              /\ artifact.policy = Hex(PolicyDigest(p))
                              /\ artifact.input = Hex(InputDigest(i))
                              /\ artifact.decision = Hex(DecisionDigest(d))
                              /\ artifact.state = s /\ artifact.wal = w
             IN  (accepted => authentic) /\ (changes = 0 /\ authentic => accepted)
      [] artifact.kind = "policy" ->
           \A p \in Policies, k \in Keys :
             VerifySignedPolicyWithKey(p, artifact, k) =>
               \E m \in made :
                 ~IsReceipt(m) /\ m.key = k /\ m.what = p /\ artifact.signature = SignatureOf(m)
      [] artifact.kind = "certificate" ->
           /\ \A p \in Policies, i \in Inputs, d \in Decisions,
                 s \in Anchored(States), w \in Anchored(Wals) :
                LET authentic == /\ Prescribe(p, i) = d
                                 /\ artifact.policy = Hex(PolicyDigest(p))
                                 /\ artifact.input = Hex(InputDigest(i))
                                 /\ artifact.decision = Hex(DecisionDigest(d))
                                 /\ artifact.state = s /\ artifact.wal = w
                    accepted == VerifyCertificateScoped(artifact, p, i, d, s, w)
                IN  (accepted => authentic) /\ (changes = 0 /\ authentic => accepted)
           /\ \A p \in Policies, k \in Keys :
                VerifyCertificateSignature(artifact, p, k) =>
                  /\ VerifyCertificateSignature(artifact, p, None)
                  /\ \E m \in made :
                       ~IsReceipt(m) /\ m.key = k /\ m.what = p /\ artifact.signature = SignatureOf(m)
      [] OTHER ->
           (changes = 0 /\ IF artifact.kind = "bundle" THEN ValidateCanonical(artifact)
                                                       ELSE ValidateComplete(artifact))
             => \E p \in Policies, i \in Inputs :
                  /\ artifact.policy = Hex(PolicyDigest(p)) /\ artifact.input = Hex(InputDigest(i))
                  /\ artifact.decision = Hex(DecisionDigest(Prescribe(p, i)))
=============================================================================
