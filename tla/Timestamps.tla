------------------------------- MODULE Timestamps -------------------------------
(***************************************************************************)
(* src/ots.rs, the proof tree of an OpenTimestamps file and its format,    *)
(* and `checkpoint stamp` and `checkpoint upgrade` of trust.rs, which grow *)
(* it from the answers of calendars.                                       *)
(*                                                                         *)
(* A message is a sequence of bytes, a hash one byte that remembers what   *)
(* was hashed.  The file is the sequence of tags as they are read.         *)
(*                                                                         *)
(* And src/tsa.rs, the verification of RFC 3161 responses.  A token is     *)
(* issued by the holder of a certificate, then stored where its fields may *)
(* be changed.  A certificate is also its own hash; DER is left out.       *)
(***************************************************************************)
EXTENDS Digests

CONSTANTS
  Calendars,     \* the calendars in the order they are asked
  Allowed,       \* the calendars an upgrade may ask
  MaxDepth,      \* MAX_DEPTH
  MaxTags,       \* MAX_PROOF_BYTES
  MaxCommands,   \* bound: stamp, then upgrades
  Certificates,  \* of TSAs: key, serial, ski, usage, from and until
  Pinned,        \* the certificates the verifier trusts, in its order
  Asked, Nonces, \* what a TSA is asked to stamp, and the nonces that are sent
  GenTimes,      \* when
  MaxTokenEvents \* bound: tokens issued, and fields changed

VARIABLES
  file,       \* the .ots file, None before
  proof,      \* the tree a running command works on, None between commands
  asking,     \* the commitments and calendars it has still to ask
  changed,    \* whether an answer was merged
  commands,   \* how many commands have run
  attested    \* every attestation that was merged, with its message

VARIABLES
  response,   \* the response at hand, None before
  issued,     \* every token as it was issued, with its certificate
  edits       \* how many fields of the response were changed since

otsVars == <<file, proof, asking, changed, commands, attested>>
tokenVars == <<response, issued, edits>>
timestampVars == <<otsVars, tokenVars>>

-----------------------------------------------------------------------------
\* Operations and attestations, in the order of their tags.

Sha1 == [tag |-> 2, arg |-> <<>>]
Sha256 == [tag |-> 8, arg |-> <<>>]
AppendOp(arg) == [tag |-> 240, arg |-> arg]

Evaluated(op) == op # Sha1

Apply(op, msg) ==
  CASE op = Sha256 -> <<[byte |-> 0, of |-> msg]>>
    [] op = Sha1 -> <<>>
    [] op.tag = 240 -> msg \o op.arg
    [] op.tag = 241 -> op.arg \o msg

Byte(b) == [byte |-> b, of |-> <<>>]

Bitcoin(height) == [tag |-> 5, at |-> height]
PendingAt(calendar) == [tag |-> 131, at |-> calendar]

AttestationBefore(a, b) == a.tag < b.tag \/ (a.tag = b.tag /\ a.at < b.at)
OpBefore(a, b) ==
  \/ a.tag < b.tag
  \/ a.tag = b.tag /\ a.arg # b.arg
       /\ (IsPrefix(a.arg, b.arg)
             \/ \E i \in DOMAIN a.arg \cap DOMAIN b.arg :
                  /\ SubSeq(a.arg, 1, i - 1) = SubSeq(b.arg, 1, i - 1)
                  /\ a.arg[i].byte < b.arg[i].byte)

Sorted(S, before(_, _)) == SortSeq(SetToSeq(S), before)

-----------------------------------------------------------------------------
\* A node: its message, what attests to it, and the operations leading on.

New(msg) == [msg |-> msg, atts |-> {}, ops |-> <<>>]

Following(node) == DOMAIN node.ops

RECURSIVE Merge(_, _)
Merge(a, b) ==
  [msg |-> a.msg, atts |-> a.atts \cup b.atts,
   ops |-> [op \in Following(a) \cup Following(b) |->
              IF op \notin Following(b) THEN a.ops[op]
              ELSE IF op \notin Following(a) THEN b.ops[op]
              ELSE Merge(a.ops[op], b.ops[op])]]

WithOp(node, op, child) ==
  Merge(node, [msg |-> node.msg, atts |-> {}, ops |-> [o \in {op} |-> child]])

WithAttestation(node, att) == [node EXCEPT !.atts = @ \cup {att}]

\* Every attestation with its message; a branch whose message is unknown is left out.
RECURSIVE Attestations(_)
Attestations(node) ==
  {<<node.msg, a>> : a \in node.atts}
    \cup UNION {Attestations(node.ops[op]) : op \in {o \in Following(node) : Evaluated(o)}}

\* Whether a node with this message is in the tree, and the tree with another proof merged
\* into the first such node.
RECURSIVE HasMessage(_, _)
HasMessage(node, msg) ==
  node.msg = msg \/ \E op \in Following(node) : HasMessage(node.ops[op], msg)

RECURSIVE MergeAt(_, _, _)
MergeAt(node, msg, other) ==
  IF node.msg = msg THEN Merge(node, other)
  ELSE LET with == {op \in Following(node) : HasMessage(node.ops[op], msg)}
           first == Sorted(with, OpBefore)[1]
       IN  [node EXCEPT !.ops[first] = MergeAt(@, msg, other)]

-----------------------------------------------------------------------------
\* The format.

Fork == [kind |-> "fork"]
WriteOp(op) == [kind |-> "op", val |-> op]
WriteAttestation(att) == [kind |-> "att", val |-> att]
ReadAttestation(tag) == tag.val

\* Every branch but the last begins with a fork.
RECURSIVE Write(_)
Write(node) ==
  LET atts == Sorted(node.atts, AttestationBefore)
      ops == Sorted(Following(node), OpBefore)
      total == Len(atts) + Len(ops)
      fork(i) == IF i < total THEN <<Fork>> ELSE <<>>
  IN  FlattenSeq([i \in DOMAIN atts |-> fork(i) \o <<WriteAttestation(atts[i])>>])
        \o FlattenSeq([i \in DOMAIN ops |->
                         fork(Len(atts) + i) \o <<WriteOp(ops[i])>>
                           \o Write(node.ops[ops[i]])])

Malformed == [node |-> None, rest |-> <<>>]

\* Reads branches into the node until one without a fork.
RECURSIVE Read(_, _, _)
Read(node, s, depth) ==
  LET fork == s # <<>> /\ s[1] = Fork
      t == IF fork THEN Tail(s) ELSE s
      op == t[1].val
      child == Read(New(Apply(op, node.msg)), Tail(t), depth - 1)
      more(n, rest) == IF fork THEN Read(n, rest, depth) ELSE [node |-> n, rest |-> rest]
  IN  IF depth = 0 \/ t = <<>> THEN Malformed
      ELSE IF t[1] = Fork THEN Malformed
      ELSE IF t[1].kind = "att" THEN more(WithAttestation(node, ReadAttestation(t[1])), Tail(t))
      ELSE IF child.node = None THEN Malformed
      ELSE more(WithOp(node, op, child.node), child.rest)

\* Timestamp::deserialize and DetachedTimestamp::parse: nothing may follow the proof.
Deserialize(s, msg) ==
  LET r == Read(New(msg), s, MaxDepth)
  IN  IF Len(s) > MaxTags \/ r.node = None \/ r.rest # <<>> THEN None ELSE r.node

RECURSIVE Depth(_)
Depth(node) == 1 + Max({0} \cup {Depth(node.ops[op]) : op \in Following(node)})

-----------------------------------------------------------------------------
\* The commands.

Digest == <<Byte(1)>>

\* prepare_submission appends a nonce and hashes.
Commitment == Apply(Sha256, Apply(AppendOp(<<Byte(2)>>), Digest))

Prepared ==
  LET leaf == New(Commitment)
      hashed == WithOp(New(Apply(AppendOp(<<Byte(2)>>), Digest)), Sha256, leaf)
  IN  WithOp(New(Digest), AppendOp(<<Byte(2)>>), hashed)

\* What a calendar may answer for a message: a promise, a block, or both, behind no, one or two
\* operations, or a branch this module cannot evaluate.
RECURSIVE Along(_, _, _)
Along(msg, ops, att) ==
  IF ops = <<>> THEN WithAttestation(New(msg), att)
  ELSE WithOp(New(msg), ops[1], Along(Apply(ops[1], msg), Tail(ops), att))

Routes ==
  {<<>>, <<Sha256>>, <<AppendOp(<<Byte(3), Byte(4)>>), Sha256>>,
   <<AppendOp(<<Byte(3)>>), AppendOp(<<Byte(4)>>), Sha256>>}

Answers(msg, calendar) ==
  LET promise == PendingAt(calendar)
      anchors == {Along(msg, r, Bitcoin(1)) : r \in Routes}
  IN  {Along(msg, r, promise) : r \in Routes} \cup anchors
        \cup {Merge(a, Along(msg, <<Sha1>>, promise)) : a \in anchors}

Begin(tree, asked) ==
  /\ proof' = tree /\ asking' = asked /\ changed' = FALSE
  /\ commands' = commands + 1
  /\ UNCHANGED <<file, attested>>

StampCommand ==
  /\ commands = 0
  /\ Begin(Prepared, [i \in DOMAIN Calendars |-> <<Commitment, Calendars[i]>>])

\* DetachedTimestamp::pending: the commitments with the calendars to ask.
Promised(tree) ==
  {<<a[1], a[2].at>> : a \in {x \in Attestations(tree) : x[2] = PendingAt(x[2].at)}}

\* calendar_upgrade_path gives a URL only for a calendar on the list.
MayAsk(calendar) == calendar \in Allowed

\* In tree order, which may be any order here.
Upgrade ==
  /\ file # None /\ proof = None /\ commands < MaxCommands
  /\ LET tree == Deserialize(file, Digest)
     IN  /\ tree # None
         /\ Begin(tree, SetToSeq({p \in Promised(tree) : MayAsk(p[2])}))

\* Mutant of MergeCalendarResponse: the answer replaces what is at the commitment.
ReplaceByResponse(commitment, body) ==
  LET answer == Deserialize(body, commitment)
  IN  /\ answer # None
      /\ proof' = WithOp(New(Digest), AppendOp(<<Byte(2)>>),
                         WithOp(New(Apply(AppendOp(<<Byte(2)>>), Digest)), Sha256, answer))
      /\ attested' = attested \cup Attestations(answer)

MergeCalendarResponse(commitment, body) ==
  LET answer == Deserialize(body, commitment)
  IN  /\ answer # None /\ HasMessage(proof, commitment)
      /\ proof' = MergeAt(proof, commitment, answer)
      /\ attested' = attested \cup Attestations(answer)

\* A calendar answers, or its answer is cut off, not there or unusable.
Fetch ==
  /\ proof # None /\ asking # <<>>
  /\ \/ /\ \E a \in Answers(asking[1][1], asking[1][2]) :
             MergeCalendarResponse(asking[1][1], Write(a))
        /\ changed' = TRUE
     \/ UNCHANGED <<proof, attested, changed>>
  /\ asking' = Tail(asking)
  /\ UNCHANGED <<file, commands>>

\* The file is written when something was merged.
Finish ==
  /\ proof # None /\ asking = <<>>
  /\ file' = IF changed THEN Write(proof) ELSE file
  /\ proof' = None /\ changed' = FALSE
  /\ UNCHANGED <<asking, commands, attested>>

-----------------------------------------------------------------------------
\* RFC 3161.

HashAlgorithms == {"sha256", "sha384", "sha512"}

\* request: the digest as a SHA-256 imprint, and the nonce.
TimeStampReq(digest, nonce) == [alg |-> "sha256", imprint |-> digest, nonce |-> nonce]

\* The values of an attribute of the signer; a signer without attributes has none.
AttributeValues(info, oid) == {a[2] : a \in {x \in info.attrs : x[1] = oid}}

\* PinnedTsa::matches: the signer is named by issuer and serial number or by key identifier.
Matches(cert, sid) ==
  IF sid.by = "serial" THEN sid.val = cert.serial ELSE cert.ski # None /\ sid.val = cert.ski

CheckTimestampingUsage(cert) == cert.usage = <<"critical", "timeStamping">>

CheckValidity(cert, time) == time \in cert.from..cert.until

CheckSignedAttributes(info, tst) ==
  /\ AttributeValues(info, "contentType") = {"tstInfo"}
  /\ info.alg \in HashAlgorithms
  /\ AttributeValues(info, "messageDigest") = {[alg |-> info.alg, of |-> tst]}

\* The first entry of an ESS attribute names the certificate by hash, and by issuer and serial
\* number when it gives them.
IsNamedBy(cert, names) ==
  names # <<>> /\ names[1].hash = cert /\ names[1].serial \in {None, cert.serial}

CheckSigningCertificate(info, cert) ==
  LET values(oid) == AttributeValues(info, oid)
      forms == {"signingCertificate", "signingCertificateV2"}
  IN  /\ \E oid \in forms : values(oid) # {}
      /\ \A oid \in forms :
           Cardinality(values(oid)) <= 1 /\ \A names \in values(oid) : IsNamedBy(cert, names)

\* The signature algorithm fits the key, and the hash it implies, if any, is the one used.
VerifySignature(cert, info) ==
  /\ info.attrs # {} /\ info.alg \in HashAlgorithms
  /\ info.implied \in {None, info.alg}
  /\ info.signature = [by |-> cert.key, over |-> info.attrs, alg |-> info.alg]

\* The first pinned certificate that the signer identifier fits, None if none does.
FindPin(pinned, sid) ==
  LET fits == {i \in DOMAIN pinned : Matches(pinned[i], sid)}
  IN  IF fits = {} THEN None ELSE pinned[Min(fits)]

VerifyToken(token, digest, nonce, pinned) ==
  /\ token.kind = "tstInfo"
  /\ token.tst.alg = "sha256" /\ token.tst.imprint = digest
  /\ nonce # None => token.tst.nonce = nonce
  /\ Len(token.infos) = 1
  /\ LET info == token.infos[1]
         pin == FindPin(pinned, info.sid)
     IN  /\ pin # None
         /\ CheckSignedAttributes(info, token.tst)
         /\ VerifySignature(pin, info)
         /\ CheckTimestampingUsage(pin)
         /\ CheckValidity(pin, token.tst.genTime)
         /\ CheckSigningCertificate(info, pin)

VerifyResponse(r, digest, nonce, pinned) ==
  /\ r.status <= 1
  /\ r.token # None /\ VerifyToken(r.token, digest, nonce, pinned)

-----------------------------------------------------------------------------
\* The authority, and the response at rest.  Two tokens at most are issued, at one time.

SignerIds(cert) ==
  {[by |-> "serial", val |-> cert.serial]}
    \cup (IF cert.ski = None THEN {} ELSE {[by |-> "ski", val |-> cert.ski]})

Attributes(tst, names) ==
  {<<"contentType", "tstInfo">>,
   <<"messageDigest", [alg |-> "sha256", of |-> tst]>>,
   <<"signingCertificateV2", names>>}

SignToken(cert, sid, tst) ==
  LET attrs == Attributes(tst, <<[hash |-> cert, serial |-> cert.serial]>>)
  IN  [kind |-> "tstInfo", tst |-> tst,
       infos |-> <<[sid |-> sid, alg |-> "sha256", implied |-> "sha256", attrs |-> attrs,
                    signature |-> [by |-> cert.key, over |-> attrs, alg |-> "sha256"]]>>]

IssueToken(cert, sid, digest, nonce, time) ==
  LET req == TimeStampReq(digest, nonce)
      tst == [alg |-> req.alg, imprint |-> req.imprint, nonce |-> req.nonce, genTime |-> time]
      token == SignToken(cert, sid, tst)
  IN  /\ edits = 0 /\ Cardinality(issued) < 2
      /\ \A i \in issued : i.token.tst.genTime = time
      /\ response' = [status |-> 0, token |-> token]
      /\ issued' = issued \cup {[cert |-> cert, token |-> token]}
      /\ UNCHANGED edits

\* One field has another value: of the token information with or without its digest in the
\* attributes, of the attributes with or without a signature made elsewhere, of the signer.
EditedTst(tst) ==
  {[tst EXCEPT !.imprint = d] : d \in Asked} \cup {[tst EXCEPT !.nonce = n] : n \in Nonces}
    \cup {[tst EXCEPT !.genTime = t] : t \in GenTimes} \cup {[tst EXCEPT !.alg = "sha384"]}

EditedInfo(info, tst) ==
  {[info EXCEPT !.attrs = Attributes(tst, <<[hash |-> c, serial |-> None]>>)] : c \in Certificates}
    \cup {[info EXCEPT !.attrs = {a \in @ : a[1] # oid}] :
             oid \in {"messageDigest", "signingCertificateV2"}}
    \cup {[info EXCEPT !.sid = id] : id \in UNION {SignerIds(c) : c \in Certificates}}
    \cup {[info EXCEPT !.attrs = i.token.infos[1].attrs] : i \in issued}
    \cup {[info EXCEPT !.signature = i.token.infos[1].signature] : i \in issued}
    \cup {[info EXCEPT !.alg = "sha384"]}

EditedToken(token) ==
  {[token EXCEPT !.tst = t] : t \in EditedTst(token.tst)}
    \cup {[token EXCEPT !.infos = <<i>> \o Tail(@)] :
             i \in IF token.infos = <<>> THEN {} ELSE EditedInfo(token.infos[1], token.tst)}
    \cup {[token EXCEPT !.infos = @ \o @], [token EXCEPT !.infos = <<>>],
          [token EXCEPT !.kind = "data"]}

EditResponse ==
  /\ response # None /\ response.token # None
  /\ edits + Cardinality(issued) < MaxTokenEvents
  /\ response' \in {[response EXCEPT !.status = 2], [response EXCEPT !.token = None]}
                     \cup {[response EXCEPT !.token = t] : t \in EditedToken(response.token)}
  /\ edits' = edits + 1
  /\ UNCHANGED issued

TimestampsInit ==
  /\ file = None /\ proof = None /\ asking = <<>> /\ changed = FALSE
  /\ commands = 0 /\ attested = {}
  /\ response = None /\ issued = {} /\ edits = 0

OtsNext == StampCommand \/ Upgrade \/ Fetch \/ Finish

\* Digests and nonces differ in nothing but their name: the first is any one of them.
Sent(S) == IF issued = {} THEN {CHOOSE x \in S : TRUE} ELSE S

TokenNext ==
  \/ \E cert \in Certificates, digest \in Sent(Asked), nonce \in Sent(Nonces), time \in GenTimes :
       \E sid \in SignerIds(cert) : IssueToken(cert, sid, digest, nonce, time)
  \/ EditResponse

-----------------------------------------------------------------------------
\* DetachedTimestamp: what stamp and upgrade write, they and the reference client read back as
\* the same tree, "in the reference client's canonical order" (ots.rs serialize), with every
\* attestation a calendar gave; unless the answers together pass the limits of the reader,
\* which the writer does not apply.
AttestationsKept ==
  file # None /\ proof = None =>
    LET tree == Deserialize(file, Digest)
    IN  \/ tree # None /\ Attestations(tree) = attested /\ Write(tree) = file
        \/ Len(file) > MaxTags
        \/ Read(New(Digest), file, MaxDepth) = Malformed
             /\ Depth(Read(New(Digest), file, Len(file) + 1).node) >= MaxDepth

\* "Checks a DER TimeStampResp for digest against the pinned TSAs", tsa.rs: an accepted response
\* holds what the owner of a pinned timestamping certificate issued for this digest and this
\* nonce, while the certificate was valid, and not under another certificate of the same key;
\* whatever fields were changed since, or taken from another token.  A response as it was issued
\* is accepted when its certificate is the first pinned one that its signer identifier fits.
TokensAreGenuine ==
  response # None =>
    \A digest \in Asked, nonce \in Nonces \cup {None} :
      LET accepted == VerifyResponse(response, digest, nonce, Pinned)
          mine(i) == /\ i.token.tst.imprint = digest /\ nonce \in {None, i.token.tst.nonce}
                     /\ i.cert = FindPin(Pinned, i.token.infos[1].sid)
                     /\ CheckTimestampingUsage(i.cert)
                     /\ CheckValidity(i.cert, i.token.tst.genTime)
      IN  /\ accepted => \E i \in issued :
                           /\ i.cert = FindPin(Pinned, response.token.infos[1].sid)
                           /\ ToSet(i.cert.usage) = {"critical", "timeStamping"}
                           /\ i.token.tst = response.token.tst
                           /\ i.token.tst.imprint = digest /\ nonce \in {None, i.token.tst.nonce}
                           /\ CheckValidity(i.cert, i.token.tst.genTime)
          /\ \A i \in issued : response = [status |-> 0, token |-> i.token] /\ mine(i) => accepted

\* Neither kind of timestamp says more than its authority did, or loses what it said.
TimestampsAreSound == AttestationsKept /\ TokensAreGenuine
=============================================================================
