-------------------------------- MODULE Witness --------------------------------
(***************************************************************************)
(* Witnesses of one log, and the auditors that rely on them:               *)
(* Witness::add_checkpoint over a FileStore (src/witness.rs), and          *)
(* WitnessPolicy and Auditor::advance (src/audit.rs).                      *)
(*                                                                         *)
(* Each witness is served by several processes that share its state file.  *)
(* The log may sign anything, so a request may name any tree head.  A head *)
(* is a value with a size; Extends stands for verify_consistency with the  *)
(* right proof.  Requests that are refused before the state is read (clock *)
(* out of range, unknown log, bad signature) change nothing and are left   *)
(* out, and so are the ages and times of cosignatures.                     *)
(***************************************************************************)
EXTENDS Naturals, FiniteSets

CONSTANTS
  Witnesses,      \* the witnesses an auditor's policy lists
  Honest,         \* those that run this code and keep their state
  Processes,      \* processes that serve one witness
  Auditors,
  Threshold,      \* WitnessPolicy::threshold
  Heads,          \* tree heads that the log may sign
  Size(_),        \* the size in a head
  Extends(_, _),  \* Extends(a, b): the tree of b starts with the tree of a
  EmptyHead,      \* the head of the empty tree, the only one of size 0 with its root
  None

ASSUME PolicyAssumption ==
  /\ Honest \subseteq Witnesses
  /\ Threshold \in Nat

\* verify_consistency, for a hash without collisions: the heads that lead up to a
\* head form one history.
ASSUME HistoryAssumption ==
  /\ Size(EmptyHead) = 0
  /\ \A a \in Heads : Size(a) \in Nat /\ (Size(a) > 0 => Extends(EmptyHead, a))
  /\ \A a \in Heads : Extends(a, a)
  /\ \A a, b, c \in Heads : Extends(a, b) /\ Extends(b, c) => Extends(a, c)
  /\ \A a, b, c \in Heads : Extends(a, c) /\ Extends(b, c) => Extends(a, b) \/ Extends(b, a)

\* Enough cosignatures for verify_quorum.
Quorum(S) == S \subseteq Witnesses /\ Cardinality(S) >= Threshold

\* The policy's promise: any two quorums share a witness that is honest.
ASSUME QuorumAssumption ==
  \A S, T \in SUBSET Witnesses : Quorum(S) /\ Quorum(T) => \E w \in Honest : w \in S /\ w \in T

VARIABLES
  file,      \* file[w]: the head in w's state file, None before the first one
  disk,      \* disk[w]: the head a power loss leaves there
  lock,      \* lock[w]: the process that holds the lock file, or None
  request,   \* request[w][p]: the request that process p of witness w serves
  cosigned,  \* cosigned[w]: the heads w has returned a cosignature for
  latest     \* latest[a]: the last head that auditor a accepted, or None

store == <<file, disk, lock>>
vars == <<store, request, cosigned, latest>>

Stage == {"checked", "renamed", "recorded"}
Request == [at : Stage, expected : Heads \cup {None}, new : Heads]

ASSUME NoneAssumption == None \notin Heads /\ None \notin Processes /\ None \notin Request

Init ==
  /\ file = [w \in Honest |-> None]
  /\ disk = [w \in Honest |-> None]
  /\ lock = [w \in Honest |-> None]
  /\ request = [w \in Honest |-> [p \in Processes |-> None]]
  /\ cosigned = [w \in Witnesses |-> {}]
  /\ latest = [a \in Auditors |-> None]

SizeOf(head) == IF head = None THEN 0 ELSE Size(head)

\* A slip of the translation: the consistency proof is not verified.
AcceptsUnproved(old, given, new) ==
  /\ given = SizeOf(old)
  /\ Size(new) >= given

\* The decision of add_checkpoint on what it read from the store.
Accepts(old, given, new) ==
  /\ given = SizeOf(old)
  /\ Size(new) >= given
  /\ IF SizeOf(old) > 0 THEN Extends(old, new) ELSE Size(new) > 0 \/ new = EmptyHead

Step(w, p, r) == request' = [request EXCEPT ![w][p] = r]

\* The first half of add_checkpoint: the store is read without the lock.
Check(w, p) ==
  /\ request[w][p] = None
  /\ \E new \in Heads, given \in {0} \cup {Size(h) : h \in Heads} :
       /\ Accepts(file[w], given, new)
       /\ Step(w, p, [at |-> "checked", expected |-> file[w], new |-> new])
  /\ UNCHANGED <<store, cosigned, latest>>

\* compare_and_swap: under the lock the file is read again, compared and replaced...
Rename(w, p) ==
  /\ request[w][p] # None
  /\ request[w][p].at = "checked"
  /\ lock[w] = None
  /\ file[w] = request[w][p].expected
  /\ lock' = [lock EXCEPT ![w] = p]
  /\ file' = [file EXCEPT ![w] = request[w][p].new]
  /\ Step(w, p, [request[w][p] EXCEPT !.at = "renamed"])
  /\ UNCHANGED <<disk, cosigned, latest>>

\* ... or the swap is refused with the size that is stored now.
Conflict(w, p) ==
  /\ request[w][p] # None
  /\ request[w][p].at = "checked"
  /\ lock[w] = None
  /\ file[w] # request[w][p].expected
  /\ Step(w, p, None)
  /\ UNCHANGED <<store, cosigned, latest>>

\* ... and the directory is synced before compare_and_swap returns true.
SyncDirectory(w, p) ==
  /\ request[w][p] # None
  /\ request[w][p].at = "renamed"
  /\ disk' = [disk EXCEPT ![w] = file[w]]
  /\ lock' = [lock EXCEPT ![w] = None]
  /\ Step(w, p, [request[w][p] EXCEPT !.at = "recorded"])
  /\ UNCHANGED <<file, cosigned, latest>>

Cosign(w, p) ==
  /\ request[w][p] # None
  /\ request[w][p].at = "recorded"
  /\ cosigned' = [cosigned EXCEPT ![w] = @ \cup {request[w][p].new}]
  /\ Step(w, p, None)
  /\ UNCHANGED <<store, latest>>

\* The process fails (an I/O error, which is returned, or a crash): the lock is
\* released and the file stays as it is.
Fails(w, p) ==
  /\ request[w][p] # None
  /\ Step(w, p, None)
  /\ lock' = [lock EXCEPT ![w] = IF @ = p THEN None ELSE @]
  /\ UNCHANGED <<file, disk, cosigned, latest>>

\* The machine of w loses power: an unsynced rename may be undone.
PowerLoss(w) ==
  /\ \E head \in {file[w], disk[w]} :
       /\ file' = [file EXCEPT ![w] = head]
       /\ disk' = [disk EXCEPT ![w] = head]
  /\ lock' = [lock EXCEPT ![w] = None]
  /\ request' = [request EXCEPT ![w] = [p \in Processes |-> None]]
  /\ UNCHANGED <<cosigned, latest>>

\* A witness that is not honest cosigns what it likes.
CosignAnything(w) ==
  /\ \E h \in Heads : cosigned' = [cosigned EXCEPT ![w] = @ \cup {h}]
  /\ UNCHANGED <<store, request, latest>>

-----------------------------------------------------------------------------
\* The witnesses whose cosignature a note for head h can carry.
CosignedBy(h) == {w \in Witnesses : h \in cosigned[w]}

\* A slip of the translation: the threshold is off by one.
VerifyQuorumShort(h) == Cardinality(CosignedBy(h)) + 1 >= Threshold

VerifyQuorum(h) == Quorum(CosignedBy(h))

\* Auditor::advance: the first witnessed checkpoint is taken as it is, a later one
\* must extend the one accepted before.
Advance(a, h) ==
  /\ VerifyQuorum(h)
  /\ latest[a] # None =>
       /\ Size(h) >= Size(latest[a])
       /\ Size(h) = Size(latest[a]) => h = latest[a]
       /\ Size(latest[a]) > 0 => Extends(latest[a], h)
  /\ latest' = [latest EXCEPT ![a] = h]
  /\ UNCHANGED <<store, request, cosigned>>

Next ==
  \/ \E w \in Honest, p \in Processes :
       \/ Check(w, p) \/ Rename(w, p) \/ Conflict(w, p) \/ SyncDirectory(w, p)
       \/ Cosign(w, p) \/ Fails(w, p)
  \/ \E w \in Honest : PowerLoss(w)
  \/ \E w \in Witnesses \ Honest : CosignAnything(w)
  \/ \E a \in Auditors, h \in Heads : Advance(a, h)

Spec == Init /\ [][Next]_vars

-----------------------------------------------------------------------------
\* State files, locks, requests, cosignatures and views have their types, and the
\* process between its rename and its directory sync is the one that holds the lock.
TypeOK ==
  /\ file \in [Honest -> Heads \cup {None}]
  /\ disk \in [Honest -> Heads \cup {None}]
  /\ lock \in [Honest -> Processes \cup {None}]
  /\ request \in [Honest -> [Processes -> Request \cup {None}]]
  /\ cosigned \in [Witnesses -> SUBSET Heads]
  /\ latest \in [Auditors -> Heads \cup {None}]
  /\ \A w \in Honest, p \in Processes :
       lock[w] = p <=> request[w][p] # None /\ request[w][p].at = "renamed"

Comparable(g, h) == Extends(g, h) \/ Extends(h, g)

\* An honest witness signs one history: of any two heads it has cosigned one extends
\* the other, whatever its processes, crashes and power losses did (add_checkpoint).
OneHistory == \A w \in Honest : \A g, h \in cosigned[w] : Comparable(g, h)

\* The head on disk extends everything the witness has cosigned, so a restart
\* never forgets a cosignature (the state is written before it is returned).
DiskCoversCosigned ==
  \A w \in Honest : \A h \in cosigned[w] : disk[w] # None /\ Extends(h, disk[w])

\* No split view: the checkpoints that any two auditors have accepted are on one
\* history, though no auditor asked another (WitnessPolicy, Auditor::advance).
NoSplitView ==
  \A a, b \in Auditors :
    latest[a] # None /\ latest[b] # None => Comparable(latest[a], latest[b])
=============================================================================
