-------------------------------- MODULE Evidence --------------------------------
(***************************************************************************)
(* When a log's signature on a checkpoint provably existed, and what that  *)
(* decides: src/audit.rs (quorum times, TimeEvidence, KeyStatus,           *)
(* Auditor::check), src/tsa.rs and src/ots.rs as sources of time, and the  *)
(* verification of src/bin/calybris_verify/trust.rs.                       *)
(*                                                                         *)
(* One checkpoint is followed.  Its body exists from the start; the log's  *)
(* key, in the right hands or not, signs it once (Ed25519 signs the same   *)
(* text the same way each time).  A digest is what was stamped: the signed *)
(* note, the body, or something else.                                      *)
(***************************************************************************)
EXTENDS Digests

CONSTANTS
  Witnesses,     \* the witnesses of the policy
  Dishonest,     \* those that state any time, signed or not
  Threshold,     \* how many must have cosigned
  MaxTime,       \* bound on the clock
  MaxHeight,     \* bound on the chain
  MaxSkew,       \* DEFAULT_MAX_CLOCK_SKEW
  MaxAge         \* Auditor::with_max_age

ASSUME EvidenceAssumption ==
  /\ Dishonest \subseteq Witnesses
  /\ Threshold \in 1..Cardinality(Witnesses)
  /\ Cardinality(Dishonest) < Threshold

VARIABLES
  now,        \* the time
  blocks,     \* the main chain: for each height the digests committed and the miner's time
  signedAt,   \* when the log's key signed the body, None before
  cosigned,   \* the cosignature lines of the note: the stated time of each witness, or None
  tokens,     \* the RFC 3161 responses that were granted
  revoked,    \* the revocation as published, None before
  result      \* what a verifier concluded, None before

evidenceVars == <<now, blocks, signedAt, cosigned, tokens, revoked, result>>

SignedForms == {"signature", "content", "other"}

\* The digests that exist: nobody can stamp a signature that was not made.
Existing == IF signedAt = None THEN {"content", "other"} ELSE SignedForms

-----------------------------------------------------------------------------
\* The world.

Tick ==
  /\ result = None /\ now < MaxTime
  /\ now' = now + 1
  /\ UNCHANGED <<blocks, signedAt, cosigned, tokens, revoked, result>>

\* A block commits what exists; its time is the miner's choice.
Mine(digest, time) ==
  /\ result = None /\ Len(blocks) < MaxHeight
  /\ digest \in Existing
  /\ blocks' = Append(blocks, [commits |-> digest, time |-> time])
  /\ UNCHANGED <<now, signedAt, cosigned, tokens, revoked, result>>

Sign ==
  /\ result = None /\ signedAt = None
  /\ signedAt' = now
  /\ UNCHANGED <<now, blocks, cosigned, tokens, revoked, result>>

\* A witness verifies the log's signature, then states the time.
CosignNow(w) ==
  /\ result = None /\ w \notin Dishonest /\ cosigned[w] = None /\ signedAt # None
  /\ cosigned' = [cosigned EXCEPT ![w] = now]
  /\ UNCHANGED <<now, blocks, signedAt, tokens, revoked, result>>

CosignAt(w, time) ==
  /\ result = None /\ w \in Dishonest /\ cosigned[w] = None
  /\ cosigned' = [cosigned EXCEPT ![w] = time]
  /\ UNCHANGED <<now, blocks, signedAt, tokens, revoked, result>>

\* A timestamping authority; its clock is off by no more than the accuracy it states.
GrantToken(digest, genTime, accuracy) ==
  /\ result = None /\ tokens = {}
  /\ digest \in Existing
  /\ now <= genTime + accuracy
  /\ tokens' = {[digest |-> digest, genTime |-> genTime, accuracy |-> accuracy]}
  /\ UNCHANGED <<now, blocks, signedAt, cosigned, revoked, result>>

\* The key is revoked, with the height the chain had reached, a lower one, or none.
Revoke(height) ==
  /\ result = None /\ revoked = None
  /\ revoked' = [at |-> now, height |-> height, signed |-> signedAt # None]
  /\ UNCHANGED <<now, blocks, signedAt, cosigned, tokens, result>>

-----------------------------------------------------------------------------
\* src/audit.rs.

\* cosignature_time refuses a time of zero.
CosignatureTimes(latest) ==
  {w \in Witnesses : cosigned[w] # None /\ cosigned[w] # 0 /\ cosigned[w] <= latest}

\* The counted cosignatures, earliest first.
Cosigned(latest) ==
  LET W == CosignatureTimes(latest)
  IN  SortSeq(SetToSeq({<<w, cosigned[w]>> : w \in W}), LAMBDA a, b : a[2] < b[2])

\* verify_quorum at a clock: the log's signature and enough cosignatures not in the future.
VerifyQuorum(clock) ==
  signedAt # None /\ Cardinality(CosignatureTimes(clock + MaxSkew)) >= Threshold

SeenBy(clock) == Cosigned(clock + MaxSkew)[Threshold][2]

\* Mutant of FreshAsOf: the newest cosignature.
FreshAsOfNewest(clock) == LET c == Cosigned(clock + MaxSkew) IN c[Len(c)][2]

FreshAsOf(clock) == LET c == Cosigned(clock + MaxSkew) IN c[Len(c) + 1 - Threshold][2]

Monus(a, b) == IF a > b THEN a - b ELSE 0

\* Auditor::check, for a note of the audited origin: "accepted", "stale" or "no quorum".
AuditorCheck ==
  IF ~VerifyQuorum(now) THEN "no quorum"
  ELSE IF Monus(now, FreshAsOf(now)) > MaxAge THEN "stale" ELSE "accepted"

ByWitnesses(t) == [source |-> "witnesses", time |-> t, height |-> None, covers |-> "signature"]
ByRfc3161(t, covers) == [source |-> "rfc3161", time |-> t, height |-> None, covers |-> covers]
ByBitcoin(h, t, covers) == [source |-> "bitcoin", time |-> t, height |-> h, covers |-> covers]

IsClock(e) == e.source # "bitcoin"

\* The earliest, None when there is none.
Earliest(S) == IF S = {} THEN None ELSE Min(S)

ExistedBy(evidence) == Earliest({e.time : e \in {x \in evidence : IsClock(x)}})

SignedBy(evidence) ==
  Earliest({e.time : e \in {x \in evidence : IsClock(x) /\ x.covers = "signature"}})

AnchoredBy(evidence) ==
  Earliest({e.height : e \in {x \in evidence : x.source = "bitcoin" /\ x.covers = "signature"}})

\* Mutant of Accepts: what covers the content counts.
AcceptsContent(status, evidence) ==
  LET clock == ExistedBy(evidence)
      anchor == AnchoredBy(evidence)
  IN  \/ clock # None /\ clock < status.at
      \/ anchor # None /\ status.height # None /\ anchor <= status.height

\* KeyStatus::accepts for a revoked key.
Accepts(status, evidence) ==
  LET clock == SignedBy(evidence)
      anchor == AnchoredBy(evidence)
  IN  \/ clock # None /\ clock < status.at
      \/ anchor # None /\ status.height # None /\ anchor <= status.height

-----------------------------------------------------------------------------
\* checkpoint verify.  What the verifier was given: the note, an .ots proof with a block
\* header, an RFC 3161 response, a revocation, and what --require asks for.

\* A proof for a digest with an attestation at a height, and the header for that height: of
\* the main chain or not, and with enough work or not.
Proofs ==
  {[digest |-> blocks[h].commits, height |-> h, time |-> blocks[h].time,
    onChain |-> TRUE, work |-> TRUE] : h \in DOMAIN blocks}
    \cup [digest : Existing \cap {"signature"}, height : {1}, time : {0}, onChain : {FALSE},
          work : BOOLEAN]
    \cup [digest : {"other"}, height : {1}, time : {0}, onChain : {FALSE}, work : {TRUE}]

\* The header, then the trusted block hash, may be missing.
Headers == {"none", "header", "header and hash"}

Stamped == {<<None, "none">>} \cup (Proofs \X Headers)

Covers(digest) == IF digest \in {"signature", "content"} THEN digest ELSE None

\* A part of the report: whether it failed, is pending, and the evidence it adds.
Nothing == [failed |-> FALSE, pending |-> FALSE, evidence |-> {}]
Failed == [Nothing EXCEPT !.failed = TRUE]
Pending == [Nothing EXCEPT !.pending = TRUE]
Found(e) == [Nothing EXCEPT !.evidence = {e}]

CheckWitnesses(asked) ==
  IF ~asked THEN Nothing
  ELSE IF VerifyQuorum(now) THEN Found(ByWitnesses(SeenBy(now))) ELSE Failed

CheckOts(proof, header) ==
  IF proof = None THEN Nothing
  ELSE IF Covers(proof.digest) = None THEN Failed
  ELSE IF header = "none" THEN Pending
  ELSE IF ~proof.work THEN Failed
  ELSE IF header = "header" THEN Pending
  ELSE IF proof.onChain THEN Found(ByBitcoin(proof.height, proof.time, Covers(proof.digest)))
  ELSE Failed

\* VerifiedTimestamp::existed_by: the stated time at its latest, in whole seconds.
TokenExistedBy(token) == token.genTime + token.accuracy

\* Against the signed note first, then the body.
VerifyTsr(token) ==
  IF token = None THEN Nothing
  ELSE IF Covers(token.digest) = None THEN Failed
  ELSE Found(ByRfc3161(TokenExistedBy(token), Covers(token.digest)))

\* The verifier knows of the revocation once it is published.
CheckRevocation(evidence) ==
  IF revoked = None \/ Accepts(revoked, evidence) THEN Nothing ELSE Failed

\* Whether witnesses are given, and what is required; without them all of it cannot be met.
Requirements == {<<FALSE, {}>>, <<TRUE, {}>>, <<TRUE, {"witnessed", "timestamped", "bitcoin", "full"}>>}

Met(req, evidence) ==
  LET sources == {e.source : e \in evidence}
      witnessed == "witnesses" \in sources
      timestamped == sources \cap {"rfc3161", "bitcoin"} # {}
  IN  CASE req = "witnessed" -> witnessed
        [] req = "timestamped" -> timestamped
        [] req = "bitcoin" -> "bitcoin" \in sources
        [] req = "full" -> witnessed /\ timestamped

\* The exit code.
Verdict(failed, unmet, pending) ==
  IF failed \/ unmet THEN 1 ELSE IF pending THEN 3 ELSE 0

\* The log's signature is checked first; without it nothing dates a signature.
VerifyCheckpoint(asked, proof, header, token, required) ==
  /\ result = None
  /\ LET parts == {CheckWitnesses(asked), CheckOts(proof, header), VerifyTsr(token)}
         evidence == UNION {r.evidence : r \in parts}
         all == parts \cup {CheckRevocation(evidence)}
         failed == signedAt = None \/ \E r \in all : r.failed
     IN  result' = [exit |-> Verdict(failed, \E q \in required : ~Met(q, evidence),
                                     \E r \in all : r.pending)]
  /\ UNCHANGED <<now, blocks, signedAt, cosigned, tokens, revoked>>

Audit ==
  /\ result = None
  /\ result' = [audit |-> AuditorCheck]
  /\ UNCHANGED <<now, blocks, signedAt, cosigned, tokens, revoked>>

-----------------------------------------------------------------------------
EvidenceInit ==
  /\ now = 1 /\ blocks = <<>> /\ signedAt = None
  /\ cosigned = [w \in Witnesses |-> None]
  /\ tokens = {} /\ revoked = None /\ result = None

EvidenceNext ==
  \/ Tick \/ Sign \/ Audit
  \/ \E digest \in SignedForms \ {"other"} : Mine(digest, 0)
  \/ \E w \in Witnesses : CosignNow(w) \/ \E t \in {0, 1, now + MaxSkew + 1} : CosignAt(w, t)
  \/ \E digest \in SignedForms \ {"other"} : GrantToken(digest, now - 1, 1)
  \/ \E h \in {None} \cup 0..Len(blocks) : Revoke(h)
  \/ /\ result = None
     /\ \E ots \in Stamped, token \in {None} \cup tokens, asked \in Requirements :
          VerifyCheckpoint(asked[1], ots[1], ots[2], token, asked[2])

-----------------------------------------------------------------------------
\* KeyStatus: "once a key is marked revoked at time t, something it signed counts only if its
\* signature is proven to have existed before the revocation", audit.rs.  Fewer dishonest
\* witnesses than the threshold, a miner's time, a header off the main chain and stamps of the
\* body cannot make checkpoint verify pass for what was signed afterwards.
RevocationIsSound ==
  result = [exit |-> 0] /\ revoked # None => revoked.signed

\* Auditor::with_max_age: "a log cannot freeze its history by going quiet".  An accepted
\* checkpoint was cosigned by an honest witness within the allowed age, and one that every
\* honest witness of a quorum just cosigned is accepted.
FreshnessIsReal ==
  /\ result = [audit |-> "accepted"] =>
       \E w \in Witnesses \ Dishonest : cosigned[w] # None /\ now <= cosigned[w] + MaxAge
  /\ result # None /\ "audit" \in DOMAIN result
       /\ Cardinality({w \in Witnesses \ Dishonest : cosigned[w] = now}) >= Threshold
     => result.audit = "accepted"
=============================================================================
