---------------------------- MODULE ComponentProofs ----------------------------
(***************************************************************************)
(* Machine-checked theorems about components that stand by themselves:     *)
(* witnesses and auditors, the compare-and-swap loops, and certificates.   *)
(***************************************************************************)
EXTENDS Witness, CasLoop, LedgerCertificates, SumsProofs

-----------------------------------------------------------------------------
(***************************************************************************)
(* Witnesses and auditors: module Witness, for any number of witnesses,    *)
(* processes, auditors and heads, and any policy whose quorums share an    *)
(* honest witness.                                                         *)
(*                                                                         *)
(* The invariant says that the head on disk and the head in the file       *)
(* extend everything cosigned and everything about to be cosigned, that a  *)
(* request that passed its checks extends the head it read, and that every *)
(* head an auditor accepted was cosigned by a quorum.                      *)
(***************************************************************************)
\* A head that the checks of add_checkpoint can have let through.
Sound(h) == h \in Heads /\ (Size(h) > 0 \/ h = EmptyHead)

\* Head g is covered by what a state file holds.
Covered(g, held) == held # None /\ Extends(g, held)

StoreInv ==
  \A w \in Honest :
    /\ file[w] # None => Sound(file[w])
    /\ disk[w] # None => Sound(disk[w]) /\ file[w] # None /\ Extends(disk[w], file[w])

RequestOK(w, p) ==
  request[w][p] # None =>
    /\ Sound(request[w][p].new)
    /\ request[w][p].at = "checked" /\ request[w][p].expected # None =>
         Extends(request[w][p].expected, request[w][p].new)
    /\ request[w][p].at = "renamed" => Covered(request[w][p].new, file[w])
    /\ request[w][p].at = "recorded" => Covered(request[w][p].new, disk[w])

RequestInv == \A w \in Honest, p \in Processes : RequestOK(w, p)

\* Every accepted head has been cosigned by a quorum.
ViewInv ==
  \A a \in Auditors :
    latest[a] # None => \E S \in SUBSET Witnesses : Quorum(S) /\ \A w \in S : latest[a] \in cosigned[w]

WitnessInv == TypeOK /\ StoreInv /\ RequestInv /\ DiskCoversCosigned /\ ViewInv

-----------------------------------------------------------------------------
\* Covering is preserved when the covering head is extended.
LEMMA CoveredGrows ==
  ASSUME NEW g \in Heads, NEW held \in Heads \cup {None}, NEW new \in Heads,
         Covered(g, held), held # None => Extends(held, new)
  PROVE  Covered(g, new)
BY Zenon, HistoryAssumption, NoneAssumption
   DEF Covered

\* What add_checkpoint accepts extends what it read.
LEMMA AcceptsExtends ==
  ASSUME NEW old \in Heads \cup {None}, old # None => Sound(old), NEW given, NEW new \in Heads,
         Accepts(old, given, new)
  PROVE  Sound(new) /\ (old # None => Extends(old, new))
<1>1. CASE SizeOf(old) > 0
  <2>1. old # None /\ Extends(old, new) /\ Size(new) >= Size(old) /\ Size(old) > 0
    BY <1>1 DEF Accepts, SizeOf
  <2> QED BY <2>1, HistoryAssumption DEF Sound
<1>2. CASE ~(SizeOf(old) > 0)
  <2>1. Sound(new)
    BY Zenon, <1>2 DEF Accepts, Sound
  <2>2. ASSUME old # None PROVE Extends(old, new)
    <3>1. old = EmptyHead
      BY Zenon, <1>2, <2>2 DEF SizeOf, Sound
    <3> QED BY Zenon, <2>1, <2>2, <3>1, HistoryAssumption DEF Sound
  <2> QED BY Zenon, <2>1, <2>2
<1> QED BY Zenon, <1>1, <1>2

\* Everything starts empty.
LEMMA WitnessInvInit ==
  Init => WitnessInv
<1> SUFFICES ASSUME Init PROVE WitnessInv
  BY Zenon
<1>1. TypeOK
  BY Zenon, NoneAssumption DEF Init, TypeOK
<1>2. StoreInv /\ RequestInv /\ DiskCoversCosigned /\ ViewInv
  BY Zenon, PolicyAssumption
     DEF Init, StoreInv, RequestInv, RequestOK, DiskCoversCosigned, ViewInv
<1> QED BY Zenon, <1>1, <1>2 DEF WitnessInv

\* The auditors' views keep their quorums when cosignatures are only added.
LEMMA ViewsStay ==
  ASSUME WitnessInv, UNCHANGED latest, \A w \in Witnesses : cosigned[w] \subseteq cosigned'[w]
  PROVE  ViewInv'
BY Zenon DEF WitnessInv, ViewInv

-----------------------------------------------------------------------------
(***************************************************************************)
(* The steps of a process of an honest witness.                            *)
(***************************************************************************)
\* A step of one process that lets its state file grow, takes or releases the lock for
\* itself only, and leaves its own request in order, disturbs no other request.
LEMMA ProcessSteps ==
  ASSUME WitnessInv, NEW w \in Honest, NEW p \in Processes, UNCHANGED latest,
         request' \in [Honest -> [Processes -> Request \cup {None}]],
         \A v \in Honest, q \in Processes : v # w \/ q # p => request'[v][q] = request[v][q],
         file' \in [Honest -> Heads \cup {None}],
         disk' \in [Honest -> Heads \cup {None}],
         lock' \in [Honest -> Processes \cup {None}],
         \A v \in Honest : v # w => file'[v] = file[v] /\ disk'[v] = disk[v] /\ lock'[v] = lock[v],
         lock'[w] = p <=> request'[w][p] # None /\ request'[w][p].at = "renamed",
         \A q \in Processes : q # p => (lock'[w] = q <=> lock[w] = q),
         \A g \in Heads : Covered(g, file[w]) => Covered(g, file'[w]),
         \A g \in Heads : Covered(g, disk[w]) => Covered(g, disk'[w]),
         RequestOK(w, p)',
         cosigned' \in [Witnesses -> SUBSET Heads],
         \A v \in Witnesses : cosigned[v] \subseteq cosigned'[v]
  PROVE  TypeOK' /\ RequestInv' /\ ViewInv'
<1>1. TypeOK
  BY Zenon DEF WitnessInv
<1>4. ASSUME NEW v \in Honest, NEW q \in Processes
      PROVE  lock'[v] = q <=> request'[v][q] # None /\ request'[v][q].at = "renamed"
  <2>1. CASE v = w /\ q = p
    BY Zenon, <2>1
  <2>2. CASE v = w /\ q # p
    BY <1>1, <2>2 DEF TypeOK
  <2>3. CASE v # w
    BY <1>1, <2>3 DEF TypeOK
  <2> QED BY Zenon, <2>1, <2>2, <2>3
<1>5. TypeOK'
  BY Zenon, <1>1, <1>4 DEF TypeOK
<1>6. ASSUME NEW v \in Honest, NEW q \in Processes PROVE RequestOK(v, q)'
  <2>1. CASE v = w /\ q = p
    BY Zenon, <2>1
  <2>2. CASE v # w \/ q # p
    <3>1. request'[v][q] = request[v][q] /\ RequestOK(v, q) /\ request[v][q] \in Request \cup {None}
      BY <1>1, <2>2 DEF WitnessInv, RequestInv, TypeOK
    <3>2. \A g \in Heads : Covered(g, file[v]) => Covered(g, file'[v])
      BY Zenon
    <3>3. \A g \in Heads : Covered(g, disk[v]) => Covered(g, disk'[v])
      BY Zenon
    <3>4. request[v][q] # None => request[v][q].new \in Heads
      BY Zenon, <3>1 DEF Request
    <3> QED BY Zenon, <3>1, <3>2, <3>3, <3>4 DEF RequestOK
  <2> QED BY Zenon, <2>1, <2>2
<1>7. ViewInv'
  BY Zenon, ViewsStay
<1> QED BY Zenon, <1>5, <1>6, <1>7 DEF RequestInv

\* What TypeOK says of a request and of the state of its witness.
LEMMA RequestTypes ==
  ASSUME TypeOK, NEW w \in Honest, NEW p \in Processes
  PROVE  /\ request[w][p] \in Request \cup {None}
         /\ request[w][p] # None => /\ request[w][p].at \in Stage
                                    /\ request[w][p].expected \in Heads \cup {None}
                                    /\ request[w][p].new \in Heads
         /\ file[w] \in Heads \cup {None} /\ disk[w] \in Heads \cup {None}
         /\ lock[w] \in Processes \cup {None}
         /\ lock[w] = p <=> request[w][p] # None /\ request[w][p].at = "renamed"
BY DEF TypeOK, Request

\* A request that goes on to stage s is a request for the same head.
LEMMA NextStage ==
  ASSUME NEW r \in Request, NEW s \in Stage
  PROVE  /\ [r EXCEPT !.at = s] \in Request /\ [r EXCEPT !.at = s] # None
         /\ [r EXCEPT !.at = s].at = s /\ [r EXCEPT !.at = s].new = r.new
<1>1. /\ [r EXCEPT !.at = s] \in Request
      /\ [r EXCEPT !.at = s].at = s /\ [r EXCEPT !.at = s].new = r.new
  BY Zenon DEF Request
<1> QED BY Zenon, <1>1, NoneAssumption

\* A step of process p of witness w leaves all other requests alone.
LEMMA OneRequest ==
  ASSUME TypeOK, NEW w \in Honest, NEW p \in Processes, NEW r \in Request \cup {None},
         Step(w, p, r)
  PROVE  /\ request' \in [Honest -> [Processes -> Request \cup {None}]]
         /\ request'[w][p] = r
         /\ \A v \in Honest, q \in Processes :
              v # w \/ q # p => request'[v][q] = request[v][q]
BY DEF TypeOK, Step

\* A request that passed the checks extends the head it read.
LEMMA CheckStep ==
  ASSUME WitnessInv, NEW w \in Honest, NEW p \in Processes, Check(w, p)
  PROVE  WitnessInv'
<1>1. PICK new \in Heads, given \in {0} \cup {Size(h) : h \in Heads} :
        /\ Accepts(file[w], given, new)
        /\ Step(w, p, [at |-> "checked", expected |-> file[w], new |-> new])
  BY Zenon DEF Check
<1> DEFINE r == [at |-> "checked", expected |-> file[w], new |-> new]
<1>2. UNCHANGED <<file, disk, lock, cosigned, latest>> /\ request[w][p] = None
  BY Zenon DEF Check, store
<1>3. TypeOK /\ cosigned \in [Witnesses -> SUBSET Heads] /\ file[w] \in Heads \cup {None}
  BY Zenon DEF WitnessInv, TypeOK
<1>4. Sound(new) /\ (file[w] # None => Extends(file[w], new))
  BY Zenon, <1>1, <1>3, AcceptsExtends DEF WitnessInv, StoreInv
<1>5. r \in Request /\ r.at = "checked" /\ r.expected = file[w] /\ r.new = new
  BY Zenon, <1>3 DEF Request, Stage
<1>6. r # None
  BY Zenon, <1>5, NoneAssumption
<1>7. /\ request' \in [Honest -> [Processes -> Request \cup {None}]]
      /\ request'[w][p] = r
      /\ \A v \in Honest, q \in Processes : v # w \/ q # p => request'[v][q] = request[v][q]
  BY <1>1, <1>3, <1>5, OneRequest
<1> HIDE DEF r
<1>8. RequestOK(w, p)'
  BY Zenon, <1>4, <1>5, <1>7 DEF RequestOK
<1>9. lock'[w] = p <=> request'[w][p] # None /\ request'[w][p].at = "renamed"
  BY <1>2, <1>3, <1>5, <1>7, RequestTypes
<1>10. /\ file' \in [Honest -> Heads \cup {None}] /\ disk' \in [Honest -> Heads \cup {None}]
       /\ lock' \in [Honest -> Processes \cup {None}] /\ cosigned' \in [Witnesses -> SUBSET Heads]
  BY Zenon, <1>2, <1>3 DEF TypeOK
<1>11. TypeOK' /\ RequestInv' /\ ViewInv'
  BY Zenon, <1>2, <1>7, <1>8, <1>9, <1>10, ProcessSteps
<1>12. StoreInv' /\ DiskCoversCosigned'
  BY Zenon, <1>2 DEF WitnessInv, StoreInv, DiskCoversCosigned
<1> QED BY Zenon, <1>11, <1>12 DEF WitnessInv

\* The swap replaces the head that was read by one that extends it.
LEMMA RenameStep ==
  ASSUME WitnessInv, NEW w \in Honest, NEW p \in Processes, Rename(w, p)
  PROVE  WitnessInv'
<1> DEFINE q == request[w][p]
           r == [q EXCEPT !.at = "renamed"]
<1>1. /\ q # None /\ q.at = "checked" /\ lock[w] = None /\ file[w] = q.expected
      /\ lock' = [lock EXCEPT ![w] = p] /\ file' = [file EXCEPT ![w] = q.new]
      /\ Step(w, p, r) /\ UNCHANGED <<disk, cosigned, latest>>
  BY Zenon DEF Rename
<1>2. TypeOK /\ RequestOK(w, p) /\ cosigned \in [Witnesses -> SUBSET Heads]
  BY Zenon DEF WitnessInv, RequestInv, TypeOK
<1>3. q.new \in Heads /\ file[w] \in Heads \cup {None} /\ Sound(q.new)
      /\ (file[w] # None => Extends(file[w], q.new))
  BY Zenon, <1>1, <1>2, RequestTypes DEF RequestOK
<1>4. r \in Request /\ r.at = "renamed" /\ r.new = q.new /\ r # None
  BY SMTT(20), ZenonT(60), <1>1, <1>2, RequestTypes, NextStage DEF Stage
<1>5. /\ request' \in [Honest -> [Processes -> Request \cup {None}]]
      /\ request'[w][p] = r
      /\ \A v \in Honest, x \in Processes : v # w \/ x # p => request'[v][x] = request[v][x]
  BY <1>1, <1>2, <1>4, OneRequest
<1> HIDE DEF r, q
<1>12. /\ file' \in [Honest -> Heads \cup {None}] /\ file'[w] = q.new
       /\ lock' \in [Honest -> Processes \cup {None}] /\ lock'[w] = p
       /\ disk' \in [Honest -> Heads \cup {None}]
       /\ \A v \in Honest : v # w => file'[v] = file[v] /\ lock'[v] = lock[v]
  BY <1>1, <1>2, <1>3 DEF TypeOK
<1>6. Covered(q.new, q.new)
  BY Zenon, <1>3, HistoryAssumption, NoneAssumption
     DEF Covered
<1>7. RequestOK(w, p)'
  BY Zenon, <1>3, <1>4, <1>5, <1>6, <1>12 DEF RequestOK
<1>8. \A g \in Heads : Covered(g, file[w]) => Covered(g, q.new)
  BY Zenon, <1>3, CoveredGrows
<1>9. TypeOK' /\ RequestInv' /\ ViewInv'
  <2>1. \A x \in Processes : x # p => (lock'[w] = x <=> lock[w] = x)
    BY Zenon, <1>1, <1>12, NoneAssumption
  <2> QED BY Zenon, <1>1, <1>2, <1>4, <1>5, <1>7, <1>8, <1>12, <2>1, ProcessSteps
<1>10. StoreInv'
  <2> SUFFICES ASSUME NEW v \in Honest
               PROVE  /\ file'[v] # None => Sound(file'[v])
                      /\ disk[v] # None => Sound(disk[v]) /\ file'[v] # None /\ Extends(disk[v], file'[v])
    BY Zenon, <1>1 DEF StoreInv, Sound
  <2>1. /\ file[v] # None => Sound(file[v])
        /\ disk[v] # None => Sound(disk[v]) /\ file[v] # None /\ Extends(disk[v], file[v])
    BY Zenon DEF WitnessInv, StoreInv
  <2>2. CASE v = w
    BY Zenon, <1>3, <1>12, <2>1, <2>2, HistoryAssumption, NoneAssumption
       DEF Sound
  <2>3. CASE v # w
    BY Zenon, <1>12, <2>1, <2>3
  <2> QED BY Zenon, <2>2, <2>3
<1>11. DiskCoversCosigned'
  BY Zenon, <1>1 DEF WitnessInv, DiskCoversCosigned
<1> QED BY Zenon, <1>9, <1>10, <1>11 DEF WitnessInv

\* The directory sync puts the head of the file on disk.
LEMMA SyncDirectoryStep ==
  ASSUME WitnessInv, NEW w \in Honest, NEW p \in Processes, SyncDirectory(w, p)
  PROVE  WitnessInv'
<1> DEFINE q == request[w][p]
           r == [q EXCEPT !.at = "recorded"]
<1>1. /\ q # None /\ q.at = "renamed" /\ disk' = [disk EXCEPT ![w] = file[w]]
      /\ lock' = [lock EXCEPT ![w] = None]
      /\ Step(w, p, r) /\ UNCHANGED <<file, cosigned, latest>>
  BY Zenon DEF SyncDirectory
<1>2. TypeOK /\ RequestOK(w, p) /\ cosigned \in [Witnesses -> SUBSET Heads]
  BY Zenon DEF WitnessInv, RequestInv, TypeOK
<1>3. q.new \in Heads /\ file[w] \in Heads \cup {None} /\ disk[w] \in Heads \cup {None}
      /\ Sound(q.new) /\ Covered(q.new, file[w]) /\ lock[w] = p
  BY Zenon, <1>1, <1>2, RequestTypes DEF RequestOK
<1>4. r \in Request /\ r.at = "recorded" /\ r.new = q.new /\ r # None
  BY Zenon, <1>1, <1>2, RequestTypes, NextStage DEF Stage
<1>5. /\ request' \in [Honest -> [Processes -> Request \cup {None}]]
      /\ request'[w][p] = r
      /\ \A v \in Honest, x \in Processes : v # w \/ x # p => request'[v][x] = request[v][x]
  BY <1>1, <1>2, <1>4, OneRequest
<1> HIDE DEF r, q
<1>12. /\ disk' \in [Honest -> Heads \cup {None}] /\ disk'[w] = file[w]
       /\ lock' \in [Honest -> Processes \cup {None}] /\ lock'[w] = None
       /\ file' \in [Honest -> Heads \cup {None}]
       /\ \A v \in Honest : v # w => disk'[v] = disk[v] /\ lock'[v] = lock[v]
  BY <1>1, <1>2, <1>3 DEF TypeOK
<1>6. RequestOK(w, p)'
  BY Zenon, <1>3, <1>4, <1>5, <1>12 DEF RequestOK
<1>7. /\ file[w] # None /\ Sound(file[w]) /\ file[w] \in Heads
      /\ disk[w] # None => Sound(disk[w]) /\ Extends(disk[w], file[w])
  BY Zenon, <1>3 DEF WitnessInv, StoreInv, Covered
<1>8. \A g \in Heads : Covered(g, disk[w]) => Covered(g, file[w])
  BY Zenon, <1>3, <1>7, CoveredGrows
<1>9. TypeOK' /\ RequestInv' /\ ViewInv'
  <2>1. \A x \in Processes : x # p => (lock'[w] = x <=> lock[w] = x)
    BY Zenon, <1>3, <1>12, NoneAssumption
  <2>2. lock'[w] = p <=> request'[w][p] # None /\ request'[w][p].at = "renamed"
    BY Zenon, <1>4, <1>5, <1>12, NoneAssumption
  <2> QED BY Zenon, <1>1, <1>2, <1>5, <1>6, <1>8, <1>12, <2>1, <2>2, ProcessSteps
<1>10. StoreInv'
  <2> SUFFICES ASSUME NEW v \in Honest
               PROVE  /\ file[v] # None => Sound(file[v])
                      /\ disk'[v] # None => Sound(disk'[v]) /\ file[v] # None /\ Extends(disk'[v], file[v])
    BY Zenon, <1>1 DEF StoreInv, Sound
  <2>1. CASE v = w
    BY Zenon, <1>7, <1>12, <2>1, HistoryAssumption
  <2>2. CASE v # w
    BY Zenon, <1>12, <2>2 DEF WitnessInv, StoreInv
  <2> QED BY Zenon, <2>1, <2>2
<1>11. DiskCoversCosigned'
  <2> SUFFICES ASSUME NEW v \in Honest, NEW h \in cosigned[v]
               PROVE  disk'[v] # None /\ Extends(h, disk'[v])
    BY Zenon, <1>1 DEF DiskCoversCosigned
  <2>1. h \in Heads /\ Covered(h, disk[v])
    BY Zenon, <1>2, PolicyAssumption
       DEF WitnessInv, DiskCoversCosigned, Covered
  <2>2. Covered(h, disk'[v])
    BY Zenon, <1>8, <1>12, <2>1
  <2> QED BY Zenon, <2>2 DEF Covered
<1> QED BY Zenon, <1>9, <1>10, <1>11 DEF WitnessInv

\* A request that ends, refused, failed or not, without touching the store.
LEMMA EndStep ==
  ASSUME WitnessInv, NEW w \in Honest, NEW p \in Processes, Step(w, p, None),
         UNCHANGED <<file, disk, cosigned, latest>>,
         lock' = [lock EXCEPT ![w] = IF @ = p THEN None ELSE @]
  PROVE  WitnessInv'
<1>1. TypeOK
  BY Zenon DEF WitnessInv
<1>2. /\ request' \in [Honest -> [Processes -> Request \cup {None}]]
      /\ request'[w][p] = None
      /\ \A v \in Honest, q \in Processes : v # w \/ q # p => request'[v][q] = request[v][q]
  BY <1>1, OneRequest
<1>3. /\ file' \in [Honest -> Heads \cup {None}] /\ disk' \in [Honest -> Heads \cup {None}]
      /\ lock' \in [Honest -> Processes \cup {None}] /\ cosigned' \in [Witnesses -> SUBSET Heads]
      /\ lock'[w] # p /\ \A v \in Honest : v # w => lock'[v] = lock[v]
      /\ \A q \in Processes : q # p => (lock'[w] = q <=> lock[w] = q)
  BY <1>1, NoneAssumption DEF TypeOK
<1>4. RequestOK(w, p)'
  BY Zenon, <1>2 DEF RequestOK
<1>5. TypeOK' /\ RequestInv' /\ ViewInv'
  BY Zenon, <1>2, <1>3, <1>4, ProcessSteps
<1>6. StoreInv' /\ DiskCoversCosigned'
  BY Zenon DEF WitnessInv, StoreInv, DiskCoversCosigned
<1> QED BY Zenon, <1>5, <1>6 DEF WitnessInv

\* A refused swap changes nothing.
LEMMA ConflictStep ==
  ASSUME WitnessInv, NEW w \in Honest, NEW p \in Processes, Conflict(w, p)
  PROVE  WitnessInv'
<1>1. Step(w, p, None) /\ UNCHANGED <<file, disk, lock, cosigned, latest>> /\ lock[w] = None
  BY Zenon DEF Conflict, store
<1>2. lock' = [lock EXCEPT ![w] = IF @ = p THEN None ELSE @]
  BY Zenon, <1>1, NoneAssumption DEF WitnessInv, TypeOK
<1> QED BY Zenon, <1>1, <1>2, EndStep

\* A failure leaves the file as it is.
LEMMA FailsStep ==
  ASSUME WitnessInv, NEW w \in Honest, NEW p \in Processes, Fails(w, p)
  PROVE  WitnessInv'
BY Zenon, EndStep DEF Fails

\* What is cosigned is covered by the disk.
LEMMA CosignStep ==
  ASSUME WitnessInv, NEW w \in Honest, NEW p \in Processes, Cosign(w, p)
  PROVE  WitnessInv'
<1> DEFINE h == request[w][p].new
<1>1. /\ request[w][p] # None /\ request[w][p].at = "recorded"
      /\ cosigned' = [cosigned EXCEPT ![w] = @ \cup {h}]
      /\ Step(w, p, None) /\ UNCHANGED <<file, disk, lock, latest>>
  BY Zenon DEF Cosign, store
<1>2. TypeOK /\ RequestOK(w, p) /\ w \in Witnesses
  BY Zenon, PolicyAssumption DEF WitnessInv, RequestInv
<1>3. h \in Heads /\ Covered(h, disk[w]) /\ lock[w] # p
  BY Zenon, <1>1, <1>2, RequestTypes DEF RequestOK
<1> HIDE DEF h
<1>4. /\ request' \in [Honest -> [Processes -> Request \cup {None}]]
      /\ request'[w][p] = None
      /\ \A v \in Honest, q \in Processes : v # w \/ q # p => request'[v][q] = request[v][q]
  BY <1>1, <1>2, OneRequest
<1>5. /\ file' \in [Honest -> Heads \cup {None}] /\ disk' \in [Honest -> Heads \cup {None}]
      /\ lock' \in [Honest -> Processes \cup {None}] /\ cosigned' \in [Witnesses -> SUBSET Heads]
  BY <1>1, <1>2, <1>3 DEF TypeOK
<1>6. \A v \in Witnesses : cosigned[v] \subseteq cosigned'[v]
  BY <1>1, <1>2 DEF TypeOK
<1>7. RequestOK(w, p)'
  BY Zenon, <1>4 DEF RequestOK
<1>8. TypeOK' /\ RequestInv' /\ ViewInv'
  BY Zenon, <1>1, <1>3, <1>4, <1>5, <1>6, <1>7, ProcessSteps
<1>9. StoreInv'
  BY Zenon, <1>1 DEF WitnessInv, StoreInv
<1>10. DiskCoversCosigned'
  <2> SUFFICES ASSUME NEW v \in Honest, NEW g \in cosigned'[v]
               PROVE  disk[v] # None /\ Extends(g, disk[v])
    BY Zenon, <1>1 DEF DiskCoversCosigned
  <2>1. g \in cosigned[v] \/ (v = w /\ g = h)
    BY Zenon, <1>1, <1>2, PolicyAssumption DEF TypeOK
  <2> QED BY Zenon, <1>3, <2>1 DEF WitnessInv, DiskCoversCosigned, Covered
<1> QED BY Zenon, <1>8, <1>9, <1>10 DEF WitnessInv

-----------------------------------------------------------------------------
(***************************************************************************)
(* The other steps.                                                        *)
(***************************************************************************)
\* A power loss leaves a head that covers everything cosigned.
LEMMA PowerLossStep ==
  ASSUME WitnessInv, NEW w \in Honest, PowerLoss(w)
  PROVE  WitnessInv'
<1>1. PICK head \in {file[w], disk[w]} :
        /\ file' = [file EXCEPT ![w] = head]
        /\ disk' = [disk EXCEPT ![w] = head]
  BY Zenon DEF PowerLoss
<1>2. /\ lock' = [lock EXCEPT ![w] = None]
      /\ request' = [request EXCEPT ![w] = [p \in Processes |-> None]]
      /\ UNCHANGED <<cosigned, latest>>
  BY Zenon DEF PowerLoss
<1>3. /\ file \in [Honest -> Heads \cup {None}] /\ disk \in [Honest -> Heads \cup {None}]
      /\ lock \in [Honest -> Processes \cup {None}]
      /\ request \in [Honest -> [Processes -> Request \cup {None}]]
      /\ cosigned \in [Witnesses -> SUBSET Heads] /\ latest \in [Auditors -> Heads \cup {None}]
      /\ \A v \in Honest, p \in Processes :
           lock[v] = p <=> request[v][p] # None /\ request[v][p].at = "renamed"
  BY Zenon DEF WitnessInv, TypeOK
<1>4. head \in Heads \cup {None} /\ (head # None => Sound(head))
  BY <1>3 DEF WitnessInv, StoreInv
<1>5. /\ file' \in [Honest -> Heads \cup {None}] /\ disk' \in [Honest -> Heads \cup {None}]
      /\ file'[w] = head /\ disk'[w] = head
      /\ \A v \in Honest : v # w => file'[v] = file[v] /\ disk'[v] = disk[v]
  BY <1>1, <1>3, <1>4
<1>6. /\ lock' \in [Honest -> Processes \cup {None}] /\ lock'[w] = None
      /\ \A v \in Honest : v # w => lock'[v] = lock[v] /\ request'[v] = request[v]
      /\ request' \in [Honest -> [Processes -> Request \cup {None}]]
      /\ \A p \in Processes : request'[w][p] = None
  BY <1>2, <1>3
<1>7. TypeOK'
  <2>1. \A v \in Honest, p \in Processes :
          lock'[v] = p <=> request'[v][p] # None /\ request'[v][p].at = "renamed"
    BY <1>3, <1>6, NoneAssumption
  <2> QED BY Zenon, <1>2, <1>3, <1>5, <1>6, <2>1 DEF TypeOK
<1>8. StoreInv'
  <2> SUFFICES ASSUME NEW v \in Honest
               PROVE  /\ file'[v] # None => Sound(file'[v])
                      /\ disk'[v] # None =>
                           Sound(disk'[v]) /\ file'[v] # None /\ Extends(disk'[v], file'[v])
    BY Zenon DEF StoreInv, Sound
  <2>1. CASE v = w
    BY Zenon, <1>4, <1>5, <2>1, HistoryAssumption
  <2>2. CASE v # w
    BY Zenon, <1>5, <2>2 DEF WitnessInv, StoreInv
  <2> QED BY Zenon, <2>1, <2>2
<1>9. RequestInv'
  <2> SUFFICES ASSUME NEW v \in Honest, NEW p \in Processes PROVE RequestOK(v, p)'
    BY Zenon DEF RequestInv
  <2>1. CASE v = w
    BY Zenon, <1>6, <2>1 DEF RequestOK
  <2>2. CASE v # w
    <3>1. RequestOK(v, p) /\ request'[v][p] = request[v][p] /\ file'[v] = file[v] /\ disk'[v] = disk[v]
      BY Zenon, <1>5, <1>6, <2>2 DEF WitnessInv, RequestInv
    <3> QED BY Zenon, <3>1 DEF RequestOK, Covered, Sound
  <2> QED BY Zenon, <2>1, <2>2
<1>10. DiskCoversCosigned'
  <2> SUFFICES ASSUME NEW v \in Honest, NEW g \in cosigned[v]
               PROVE  disk'[v] # None /\ Extends(g, disk'[v])
    BY Zenon, <1>2 DEF DiskCoversCosigned
  <2>1. g \in Heads /\ disk[v] # None /\ Extends(g, disk[v])
    BY Zenon, <1>3, PolicyAssumption
       DEF WitnessInv, DiskCoversCosigned
  <2>2. disk[v] \in Heads /\ file[v] \in Heads /\ Extends(disk[v], file[v]) /\ file[v] # None
    BY <1>3, <2>1 DEF WitnessInv, StoreInv
  <2>3. Extends(g, file[v])
    BY Zenon, <2>1, <2>2, HistoryAssumption
  <2> QED BY Zenon, <1>5, <2>1, <2>2, <2>3
<1>11. ViewInv'
  BY Zenon, <1>2, ViewsStay
<1> QED BY Zenon, <1>7, <1>8, <1>9, <1>10, <1>11 DEF WitnessInv

\* What a dishonest witness signs concerns no honest one.
LEMMA CosignAnythingStep ==
  ASSUME WitnessInv, NEW w \in Witnesses \ Honest, CosignAnything(w)
  PROVE  WitnessInv'
<1>1. PICK h \in Heads : cosigned' = [cosigned EXCEPT ![w] = @ \cup {h}]
  BY Zenon DEF CosignAnything
<1>2. UNCHANGED <<file, disk, lock, request, latest>>
  BY Zenon DEF CosignAnything, store
<1>3. TypeOK
  BY Zenon DEF WitnessInv
<1>4. cosigned' \in [Witnesses -> SUBSET Heads]
  BY <1>1, <1>3 DEF TypeOK
<1>5. \A v \in Witnesses : cosigned[v] \subseteq cosigned'[v]
  BY <1>1, <1>3 DEF TypeOK
<1>6. \A v \in Honest : cosigned'[v] = cosigned[v]
  BY <1>1, <1>3, PolicyAssumption DEF TypeOK
<1>7. TypeOK'
  BY Zenon, <1>2, <1>3, <1>4 DEF TypeOK
<1>8. StoreInv' /\ DiskCoversCosigned'
  BY Zenon, <1>2, <1>6 DEF WitnessInv, StoreInv, DiskCoversCosigned
<1>9. RequestInv'
  BY Zenon, <1>2 DEF WitnessInv, RequestInv, RequestOK
<1>10. ViewInv'
  BY Zenon, <1>2, <1>5, ViewsStay
<1> QED BY Zenon, <1>7, <1>8, <1>9, <1>10 DEF WitnessInv

\* An auditor accepts a head on the cosignatures of a quorum.
LEMMA AdvanceStep ==
  ASSUME WitnessInv, NEW a \in Auditors, NEW h \in Heads, Advance(a, h)
  PROVE  WitnessInv'
<1>1. /\ Quorum(CosignedBy(h)) /\ latest' = [latest EXCEPT ![a] = h]
      /\ UNCHANGED <<file, disk, lock, request, cosigned>>
  BY Zenon DEF Advance, VerifyQuorum, store
<1>2. TypeOK
  BY Zenon DEF WitnessInv
<1>3. latest' \in [Auditors -> Heads \cup {None}]
  BY Zenon, <1>1, <1>2 DEF TypeOK
<1>4. TypeOK'
  BY Zenon, <1>1, <1>2, <1>3 DEF TypeOK
<1>5. StoreInv' /\ DiskCoversCosigned'
  BY Zenon, <1>1 DEF WitnessInv, StoreInv, DiskCoversCosigned
<1>6. RequestInv'
  BY Zenon, <1>1 DEF WitnessInv, RequestInv, RequestOK
<1>7. ViewInv'
  <2> SUFFICES ASSUME NEW b \in Auditors, latest'[b] # None
               PROVE  \E S \in SUBSET Witnesses : Quorum(S) /\ \A w \in S : latest'[b] \in cosigned[w]
    BY Zenon, <1>1 DEF ViewInv, Quorum
  <2>1. CASE b = a
    <3>1. latest'[b] = h
      BY <1>1, <1>2, <2>1 DEF TypeOK
    <3>2. CosignedBy(h) \in SUBSET Witnesses /\ \A w \in CosignedBy(h) : h \in cosigned[w]
      BY Zenon DEF CosignedBy
    <3> QED BY <1>1, <3>1, <3>2
  <2>2. CASE b # a
    <3>1. latest'[b] = latest[b]
      BY <1>1, <1>2, <2>2 DEF TypeOK
    <3> QED BY Zenon, <3>1 DEF WitnessInv, ViewInv
  <2> QED BY Zenon, <2>1, <2>2
<1> QED BY Zenon, <1>4, <1>5, <1>6, <1>7 DEF WitnessInv

\* Every step preserves the invariant.
LEMMA WitnessInvNext ==
  WitnessInv /\ [Next]_vars => WitnessInv'
<1> SUFFICES ASSUME WitnessInv, [Next]_vars PROVE WitnessInv'
  BY Zenon
<1>1. CASE \E w \in Honest, p \in Processes :
             \/ Check(w, p) \/ Rename(w, p) \/ Conflict(w, p) \/ SyncDirectory(w, p)
             \/ Cosign(w, p) \/ Fails(w, p)
  BY Zenon, <1>1, CheckStep, RenameStep, ConflictStep, SyncDirectoryStep, CosignStep, FailsStep
<1>2. CASE \E w \in Honest : PowerLoss(w)
  BY Zenon, <1>2, PowerLossStep
<1>3. CASE \E w \in Witnesses \ Honest : CosignAnything(w)
  BY Zenon, <1>3, CosignAnythingStep
<1>4. CASE \E a \in Auditors, h \in Heads : Advance(a, h)
  BY Zenon, <1>4, AdvanceStep
<1>5. CASE UNCHANGED vars
  BY SMTT(20), ZenonT(60), <1>5
     DEF vars, store, WitnessInv, TypeOK, StoreInv, RequestInv, RequestOK,
     Covered, Sound,
              DiskCoversCosigned, ViewInv
<1> QED BY Zenon, <1>1, <1>2, <1>3, <1>4, <1>5 DEF Next

-----------------------------------------------------------------------------
\* What a witness has cosigned is one history, because its disk extends all of it.
LEMMA DiskGivesOneHistory ==
  WitnessInv => OneHistory
<1> SUFFICES ASSUME WitnessInv, NEW w \in Honest, NEW g \in cosigned[w], NEW h \in cosigned[w]
             PROVE  Comparable(g, h)
  BY Zenon DEF OneHistory
<1>1. g \in Heads /\ h \in Heads /\ disk[w] \in Heads \cup {None}
  BY PolicyAssumption DEF WitnessInv, TypeOK
<1>2. disk[w] # None /\ Extends(g, disk[w]) /\ Extends(h, disk[w])
  BY Zenon DEF WitnessInv, DiskCoversCosigned
<1> QED BY Zenon, <1>1, <1>2, HistoryAssumption DEF Comparable

\* Two accepted heads were cosigned by one honest witness.
LEMMA QuorumsGiveOneView ==
  WitnessInv => NoSplitView
<1> SUFFICES ASSUME WitnessInv, NEW a \in Auditors, NEW b \in Auditors,
                    latest[a] # None, latest[b] # None
             PROVE  Comparable(latest[a], latest[b])
  BY Zenon DEF NoSplitView
<1>1. PICK S \in SUBSET Witnesses : Quorum(S) /\ \A w \in S : latest[a] \in cosigned[w]
  BY Zenon DEF WitnessInv, ViewInv
<1>2. PICK T \in SUBSET Witnesses : Quorum(T) /\ \A w \in T : latest[b] \in cosigned[w]
  BY Zenon DEF WitnessInv, ViewInv
<1>3. PICK w \in Honest : w \in S /\ w \in T
  BY Zenon, <1>1, <1>2, QuorumAssumption
<1>4. latest[a] \in cosigned[w] /\ latest[b] \in cosigned[w]
  BY Zenon, <1>1, <1>2, <1>3
<1> QED BY Zenon, <1>4, DiskGivesOneHistory DEF OneHistory

\* The invariant holds throughout.
LEMMA WitnessInvariant ==
  Spec => []WitnessInv
BY WitnessInvInit, WitnessInvNext, PTL DEF Spec

\* The types hold, and the lock belongs to the process between its rename and its
\* directory sync, for any number of processes (FileStore::compare_and_swap).
THEOREM WitnessTypes ==
  Spec => []TypeOK
<1>1. WitnessInv => TypeOK
  BY Zenon DEF WitnessInv
<1> QED BY <1>1, WitnessInvariant, PTL

\* A restart never forgets a cosignature: the state on disk extends everything the
\* witness has signed (add_checkpoint).
THEOREM RestartKeepsCosignatures ==
  Spec => []DiskCoversCosigned
<1>1. WitnessInv => DiskCoversCosigned
  BY Zenon DEF WitnessInv
<1> QED BY <1>1, WitnessInvariant, PTL

\* An honest witness signs one history, whatever its processes race for and
\* wherever they crash (add_checkpoint over a FileStore).
THEOREM WitnessSignsOneHistory ==
  Spec => []OneHistory
BY DiskGivesOneHistory, WitnessInvariant, PTL

\* If two quorums always share an honest witness, no two auditors ever accept
\* checkpoints of two histories (WitnessPolicy, Auditor::advance).
THEOREM QuorumsPreventSplitViews ==
  Spec => []NoSplitView
BY QuorumsGiveOneView, WitnessInvariant, PTL

-----------------------------------------------------------------------------
(***************************************************************************)
(* Compare-and-swap loops: module CasLoop, for any set of threads and any  *)
(* bound of the counter.                                                   *)
(*                                                                         *)
(* The step that needs an argument is a successful exchange: it writes     *)
(* without looking at the condition again.  The invariant says that the    *)
(* value the loop holds satisfies the condition; the comparison then       *)
(* carries this over to the counter.                                       *)
(***************************************************************************)
\* A loop on its way to exchange has seen a value at which it is not refused,
\* and has not answered yet.
Undecided ==
  \A t \in Threads :
    /\ loop[t] \in {"load", "exchange"} => asked[t] # NoRequest /\ answer[t] = NoRequest
    /\ loop[t] = "exchange" => ~Refused(asked[t], current[t])

LoopInv ==
  /\ asked \in [Threads -> Requests \cup {NoRequest}]
  /\ loop \in [Threads -> {"idle", "load", "exchange", "done"}]
  /\ answer = [t \in Threads |-> answer[t]]
  /\ current = [t \in Threads |-> current[t]]
  /\ \A t \in Threads : loop[t] = "idle" => answer[t] = NoRequest
  /\ Undecided

\* Before any call the invariant holds.
LEMMA LoopInvInit ==
  LoopInit => LoopInv
BY Zenon DEF LoopInit, CounterInit, LoopInv, Undecided

\* Every step of a loop, and every other change of the counter, preserves it.
LEMMA LoopInvStep ==
  LoopInv /\ [LoopNext]_loopVars => LoopInv'
<1> SUFFICES ASSUME LoopInv, [LoopNext]_loopVars PROVE LoopInv'
  BY Zenon
<1>1. ASSUME NEW t \in Threads, NEW v, See(t, v), asked[t] # NoRequest, answer[t] = NoRequest
      PROVE  LoopInv'
  BY Zenon, <1>1 DEF LoopInv, Undecided, See
<1>2. ASSUME NEW t \in Threads, Load(t) \/ ExchangeFails(t)
      PROVE  LoopInv'
  <2>1. See(t, value) /\ loop[t] \in {"load", "exchange"}
    BY Zenon, <1>2 DEF Load, ExchangeFails
  <2>2. asked[t] # NoRequest /\ answer[t] = NoRequest
    BY Zenon, <2>1 DEF LoopInv, Undecided
  <2> QED BY Zenon, <1>1, <2>1, <2>2
<1>3. ASSUME NEW t \in Threads, Exchange(t)
      PROVE  LoopInv'
  BY Zenon, <1>3 DEF LoopInv, Undecided, Exchange
<1>4. ASSUME NEW t \in Threads, Leave(t)
      PROVE  LoopInv'
  BY Zenon, <1>4 DEF LoopInv, Undecided, Leave, Return
<1>5. ASSUME NEW t \in Threads, NEW r \in Requests, Enter(t, r)
      PROVE  LoopInv'
  <2>1. r # NoRequest
    BY Zenon, CounterAssumption
  <2> QED BY Zenon, <1>5, <2>1 DEF LoopInv, Undecided, Enter, Call
<1>6. CASE Adjust /\ UNCHANGED <<loop, current>>
  BY Zenon, <1>6 DEF LoopInv, Undecided, Adjust
<1>7. CASE UNCHANGED loopVars
  BY Zenon, <1>7 DEF LoopInv, Undecided, loopVars, counterVars
<1> QED BY Zenon, <1>2, <1>3, <1>4, <1>5, <1>6, <1>7 DEF LoopNext

\* Every step of the loops is a step of the atomic counter or leaves it alone.
LEMMA LoopStepSimulates ==
  LoopInv /\ [LoopNext]_loopVars => [CounterNext]_counterVars
<1> SUFFICES ASSUME LoopInv, [LoopNext]_loopVars PROVE [CounterNext]_counterVars
  BY Zenon
<1>1. ASSUME NEW t \in Threads, Load(t) \/ ExchangeFails(t)
      PROVE  Update(t) \/ UNCHANGED counterVars
  <2>1. See(t, value) /\ loop[t] \in {"load", "exchange"}
    BY Zenon, <1>1 DEF Load, ExchangeFails
  <2>2. asked[t] # NoRequest /\ answer[t] = NoRequest
    BY Zenon, <2>1 DEF LoopInv, Undecided
  <2> QED BY Zenon, <2>1, <2>2 DEF See, Update, counterVars
<1>2. ASSUME NEW t \in Threads, Exchange(t)
      PROVE  Update(t)
  <2>1. asked[t] # NoRequest /\ answer[t] = NoRequest /\ ~Refused(asked[t], value)
    BY Zenon, <1>2 DEF LoopInv, Undecided, Exchange
  <2> QED BY Zenon, <1>2, <2>1 DEF Exchange, Update
<1>3. ASSUME NEW t \in Threads, Leave(t)
      PROVE  Return(t)
  BY Zenon, <1>3 DEF Leave
<1>4. ASSUME NEW t \in Threads, NEW r \in Requests, Enter(t, r)
      PROVE  Call(t, r)
  BY Zenon, <1>4 DEF Enter
<1>5. CASE UNCHANGED loopVars
  BY Zenon, <1>5 DEF loopVars
<1> QED BY Zenon, <1>1, <1>2, <1>3, <1>4, <1>5 DEF LoopNext, CounterNext

\* The compare-and-swap loops are atomic conditional updates: what they decide
\* and what they write happens in one step, for any threads and any i64::MAX.
THEOREM LoopsImplementAtomicUpdate ==
  LoopSpec => LoopsAreAtomic
<1>1. LoopInit => CounterInit
  BY Zenon DEF LoopInit
<1> QED BY LoopInvInit, LoopInvStep, LoopStepSimulates, <1>1, PTL
           DEF LoopSpec, LoopsAreAtomic, CounterSpec

-----------------------------------------------------------------------------
(***************************************************************************)
(* Certificates: module LedgerCertificates, for any number of tenants and  *)
(* callers, when restores run in exclusive recovery.                       *)
(*                                                                         *)
(* SpendCertifiedOnce alone is not inductive: a caller between its two     *)
(* steps holds a total that it will write to the baseline.  The invariant  *)
(* adds that no such total is ahead of the ledger, which stays true        *)
(* because the ledger only grows until a restore, and no caller is between *)
(* its steps then.                                                         *)
(***************************************************************************)
\* A total that is about to be written to the baseline has really been spent.
FrozenNotAhead ==
  \A c \in Callers :
    pc[c] = "rotate" /\ frozen[c].ok => frozen[c].committed <= Total(committed)

CertificateInv == CertTypeOK /\ SpendCertifiedOnce /\ base <= baseline /\ FrozenNotAhead

\* The sum of the instance is the one of module Sums.
LEMMA CertificateTotals == \A f : Total(f) = Sum(f, TenantCount)
BY Zenon DEF Total, Sum, PartialSums, Sum, PartialSums

\* The sum of the committed amounts is a natural number, for every map of amounts.
LEMMA TotalNat ==
  \A f \in Amounts : Total(f) \in Nat
<1> SUFFICES ASSUME NEW f \in Amounts PROVE Total(f) \in Nat
  BY Zenon
<1>1. TenantCount \in Nat /\ MaxI64 \in Nat
  BY Zenon, ConstantsAssumption
<1>2. f \in [1..TenantCount -> Int] /\ \A i \in 1..TenantCount : f[i] >= 0
  BY <1>1 DEF Amounts, Tenants
<1>3. Total(f) \in Int /\ Total(f) >= 0
  BY Zenon, <1>1, <1>2, SumType, SumNat, CertificateTotals
<1> QED BY <1>3

\* The clamped sum of a restore is an i64 and not above the sum.
LEMMA SaturatedRange ==
  \A f \in Amounts : Saturated(f) \in 0..MaxI64 /\ Saturated(f) <= Total(f)
BY TotalNat, ConstantsAssumption DEF Saturated

\* The difference of two ordered amounts is an amount.
LEMMA DifferenceRange ==
  \A low, high \in 0..MaxI64 : low <= high => high - low \in 0..MaxI64
BY ConstantsAssumption

\* A new engine satisfies the invariant.
LEMMA CertificateInit ==
  CertInit => CertificateInv
<1> SUFFICES ASSUME CertInit PROVE CertificateInv
  BY Zenon
<1>1. TenantCount \in Nat /\ MaxI64 \in Nat
  BY Zenon, ConstantsAssumption
<1>2. committed \in Amounts /\ initials \in Amounts
  BY <1>1 DEF CertInit, Amounts
<1>3. CertTypeOK
  BY <1>1, <1>2 DEF CertInit, CertTypeOK, NoTotals
<1>4. Total(committed) \in Nat
  BY Zenon, <1>2, TotalNat
<1> QED BY <1>3, <1>4 DEF CertInit, CertificateInv, SpendCertifiedOnce, FrozenNotAhead

\* A commit raises the committed total.
LEMMA SpendRaisesTotal ==
  ASSUME CertificateInv, NEW x \in Tenants, NEW amount \in 1..MaxI64, Spend(x, amount)
  PROVE  committed' \in Amounts /\ Total(committed) <= Total(committed)'
<1>1. TenantCount \in Nat /\ MaxI64 \in Nat
  BY Zenon, ConstantsAssumption
<1>2. committed \in Amounts /\ initials \in Amounts
  BY Zenon DEF CertificateInv, CertTypeOK
<1>3. committed' \in Amounts /\ committed'[x] = committed[x] + amount
      /\ \A i \in Tenants : i # x => committed'[i] = committed[i]
  BY <1>1, <1>2 DEF Spend, Amounts
<1>4. committed \in [1..TenantCount -> Int] /\ committed' \in [1..TenantCount -> Int]
  BY <1>1, <1>2, <1>3 DEF Amounts, Tenants
<1>5. Sum(committed', TenantCount) = Sum(committed, TenantCount) - committed[x] + committed'[x]
  BY Zenon, <1>1, <1>3, <1>4, SumUpdate DEF Tenants
<1>6. Sum(committed, TenantCount) \in Int /\ committed[x] \in Int /\ amount \in Nat
  BY <1>1, <1>2, <1>4, SumType DEF Amounts
<1>7. /\ Total(committed) = Sum(committed, TenantCount)
      /\ Total(committed)' = Sum(committed', TenantCount)
  BY Zenon DEF Total, Sum, PartialSums, Sum, PartialSums
<1> QED BY <1>3, <1>5, <1>6, <1>7

\* Every step preserves the invariant when restores are exclusive.
LEMMA CertificateStep ==
  ASSUME ExclusiveRecovery, CertificateInv, [CertNext]_certVars
  PROVE  CertificateInv'
<1>1. MaxI64 \in Nat
  BY Zenon, ConstantsAssumption
<1>2. Total(committed) \in Nat /\ Saturated(committed) \in 0..MaxI64
  BY Zenon, TotalNat, SaturatedRange DEF CertificateInv, CertTypeOK
<1>3. ASSUME NEW x \in Tenants, NEW amount \in 1..MaxI64, Grant(x, amount)
      PROVE  CertificateInv'
  <2>1. initials' \in Amounts
    BY <1>1, <1>3 DEF Grant, CertificateInv, CertTypeOK, Amounts
  <2> QED BY Zenon, <1>3, <2>1
       DEF Grant, CertificateInv, CertTypeOK, SpendCertifiedOnce, FrozenNotAhead, Total
<1>4. ASSUME NEW x \in Tenants, NEW amount \in 1..MaxI64, Spend(x, amount)
      PROVE  CertificateInv'
  <2>1. committed' \in Amounts /\ Total(committed) <= Total(committed)'
    BY Zenon, <1>4, SpendRaisesTotal
  <2>2. Total(committed)' \in Nat
    BY Zenon, <2>1, TotalNat DEF Total
  <2>3. CertTypeOK'
    BY Zenon, <1>4, <2>1 DEF Spend, CertificateInv, CertTypeOK
  <2>4. SpendCertifiedOnce' /\ (base <= baseline)'
    BY <1>1, <1>2, <1>4, <2>1, <2>2 DEF Spend, CertificateInv, CertTypeOK, SpendCertifiedOnce
  <2>5. FrozenNotAhead'
    BY <1>1, <1>2, <1>4, <2>1, <2>2 DEF Spend, CertificateInv, CertTypeOK, FrozenNotAhead
  <2> QED BY Zenon, <2>3, <2>4, <2>5 DEF CertificateInv
<1>5. CASE Snapshot
  BY Zenon, <1>5 DEF Snapshot, ledger, CertificateInv, CertTypeOK, SpendCertifiedOnce,
     FrozenNotAhead, Total
<1>6. CASE Restore
  <2>1. saved.initials \in Amounts /\ saved.committed \in Amounts
    BY Zenon DEF CertificateInv, CertTypeOK
  <2>2. Saturated(saved.committed) \in 0..MaxI64 /\ Saturated(saved.committed) <= Total(saved.committed)
    BY Zenon, <2>1, SaturatedRange
  <2>3. CertTypeOK'
    BY <1>1, <1>6, <2>1, <2>2 DEF Restore, CertificateInv, CertTypeOK
  <2>4. SpendCertifiedOnce' /\ (base <= baseline)'
    BY <1>1, <1>6, <2>2 DEF Restore, SpendCertifiedOnce, Total
  <2>5. FrozenNotAhead'
    BY Zenon, <1>6 DEF Restore, FrozenNotAhead
  <2> QED BY Zenon, <2>3, <2>4, <2>5 DEF CertificateInv
<1>7. ASSUME NEW c \in Callers, CertifyFreeze(c)
      PROVE  CertificateInv'
  <2>1. SnapshotTotals \in [ok : BOOLEAN, committed : 0..MaxI64]
        /\ SnapshotTotals.committed <= Total(committed)
    BY <1>1, <1>2 DEF SnapshotTotals
  <2> QED BY Zenon, <1>7, <2>1
       DEF CertifyFreeze, Goto, ledger, CertificateInv, CertTypeOK,
       SpendCertifiedOnce, FrozenNotAhead, Total
<1>8. ASSUME NEW c \in Callers, CertifyRotate(c)
      PROVE  CertificateInv'
  <2>1. frozen[c].committed \in 0..MaxI64 /\ (frozen[c].ok => frozen[c].committed <= Total(committed))
    BY Zenon, <1>8 DEF CertifyRotate, CertificateInv, CertTypeOK, FrozenNotAhead
  <2>2. NoTotals \in [ok : BOOLEAN, committed : 0..MaxI64]
    BY <1>1 DEF NoTotals
  <2>3. baseline' \in 0..MaxI64 /\ certified' = baseline' - base /\ base <= baseline'
        /\ baseline' <= Total(committed)
    BY <1>1, <1>2, <1>8, <2>1
       DEF CertifyRotate, CertificateInv, CertTypeOK, SpendCertifiedOnce
  <2>4. UNCHANGED <<initials, committed, saved, since, base>>
    BY Zenon, <1>8 DEF CertifyRotate, ledger
  <2>5. certified' \in 0..MaxI64
    <3>1. base \in 0..MaxI64
      BY Zenon DEF CertificateInv, CertTypeOK
    <3> QED BY Zenon, <1>1, <2>3, <3>1, DifferenceRange
  <2>6. CertTypeOK' /\ FrozenNotAhead'
    BY Zenon, <1>8, <2>2, <2>3, <2>4, <2>5
       DEF CertifyRotate, Goto, CertificateInv, CertTypeOK, FrozenNotAhead, Total
  <2> QED BY Zenon, <2>3, <2>4, <2>6 DEF CertificateInv, SpendCertifiedOnce, Total
<1>9. ASSUME NEW c \in Callers, SinceTotal(c)
      PROVE  CertificateInv'
  BY Zenon, <1>1, <1>2, <1>9
     DEF SinceTotal, Goto, ledger, CertificateInv, CertTypeOK, SpendCertifiedOnce,
     FrozenNotAhead, Total
<1>10. ASSUME NEW c \in Callers, SinceSubtract(c)
       PROVE  CertificateInv'
  <2>1. since' \in -MaxI64..MaxI64 /\ NoTotals \in [ok : BOOLEAN, committed : 0..MaxI64]
    BY <1>1, <1>10 DEF SinceSubtract, CertificateInv, CertTypeOK, NoTotals
  <2> QED BY Zenon, <1>10, <2>1
       DEF SinceSubtract, Goto, ledger, CertificateInv, CertTypeOK,
       SpendCertifiedOnce, FrozenNotAhead, Total
<1>11. CASE UNCHANGED certVars
  BY Zenon, <1>11 DEF certVars, ledger, CertificateInv, CertTypeOK, SpendCertifiedOnce,
     FrozenNotAhead, Total
<1> QED BY Zenon, <1>3, <1>4, <1>5, <1>6, <1>7, <1>8, <1>9, <1>10, <1>11 DEF CertNext

\* With restores in exclusive recovery, overlapping certify_ledger calls report
\* every spend at most once, for any number of tenants and callers.
THEOREM CertificatesReportSpendOnce ==
  ExclusiveRecovery /\ CertSpec => []SpendCertifiedOnce
<1> SUFFICES ASSUME ExclusiveRecovery PROVE CertSpec => []SpendCertifiedOnce
  BY Zenon
<1>1. CertificateInv /\ [CertNext]_certVars => CertificateInv'
  BY Zenon, CertificateStep
<1>2. CertificateInv => SpendCertifiedOnce
  BY Zenon DEF CertificateInv
<1> QED BY CertificateInit, <1>1, <1>2, PTL DEF CertSpec

\* The counters keep their types and the reported difference never saturates,
\* for any number of tenants and callers.
THEOREM CertificatesTyped ==
  ExclusiveRecovery /\ CertSpec => []CertTypeOK
<1> SUFFICES ASSUME ExclusiveRecovery PROVE CertSpec => []CertTypeOK
  BY Zenon
<1>1. CertificateInv /\ [CertNext]_certVars => CertificateInv'
  BY Zenon, CertificateStep
<1>2. CertificateInv => CertTypeOK
  BY Zenon DEF CertificateInv
<1> QED BY CertificateInit, <1>1, <1>2, PTL DEF CertSpec
=============================================================================
