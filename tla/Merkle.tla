--------------------------------- MODULE Merkle ---------------------------------
(***************************************************************************)
(* src/merkle.rs: roots, inclusion and consistency proofs over the leaves  *)
(* of a log, computed from the leaves and from the cached subtrees of a    *)
(* MerkleTree, and the two iterative verifiers.                            *)
(*                                                                         *)
(* A hash is the term it was computed from: SHA-256 without collisions.    *)
(* Positions count from zero, as in the code.                              *)
(***************************************************************************)
EXTENDS Digests

CONSTANTS
  Leaves,       \* leaf data
  MaxLeaves     \* bound: how long a log gets

VARIABLES
  log,      \* the leaf hashes, in order
  levels,   \* MerkleTree.levels: levels[k + 1][i + 1] is the root of leaves i*2^k .. (i+1)*2^k
  check     \* the last answer of a verifier, None before

merkleVars == <<log, levels, check>>

LeafHash(data) == <<"leaf", data>>
NodeHash(left, right) == <<"node", left, right>>
EmptyRoot == <<"empty">>

\* The largest power of two below n, for n > 1.
Split(n) == Max({k \in {1, 2, 4, 8, 16} : k < n})
PowerOfTwo(n) == n \in {1, 2, 4, 8, 16}

First(d, k) == SubSeq(d, 1, k)
From0(d, k) == SubSeq(d, k + 1, Len(d))

-----------------------------------------------------------------------------
\* From the leaves.

RECURSIVE RootOf(_)
RootOf(d) ==
  IF d = <<>> THEN EmptyRoot
  ELSE IF Len(d) = 1 THEN d[1]
  ELSE LET k == Split(Len(d)) IN NodeHash(RootOf(First(d, k)), RootOf(From0(d, k)))

HeadOf(d) == [size |-> Len(d), root |-> RootOf(d)]

RECURSIVE Path(_, _)
Path(m, d) ==
  IF Len(d) <= 1 THEN <<>>
  ELSE LET k == Split(Len(d))
       IN  IF m < k THEN Append(Path(m, First(d, k)), RootOf(From0(d, k)))
                    ELSE Append(Path(m - k, From0(d, k)), RootOf(First(d, k)))

\* inclusion_proof and consistency_proof, where they do not fail.
InclusionProof(d, index) == Path(index, d)

RECURSIVE SubProof(_, _, _)
SubProof(m, d, whole) ==
  IF m = Len(d) THEN IF whole THEN <<>> ELSE <<RootOf(d)>>
  ELSE LET k == Split(Len(d))
       IN  IF m <= k THEN Append(SubProof(m, First(d, k), whole), RootOf(From0(d, k)))
                     ELSE Append(SubProof(m - k, From0(d, k), FALSE), RootOf(First(d, k)))

ConsistencyProof(d, old) == SubProof(old, d, TRUE)

\* all_inclusion_proofs: the root and the proofs of every leaf in one pass.
RECURSIVE Go(_)
Go(d) ==
  IF Len(d) = 1 THEN [root |-> d[1], proofs |-> <<<<>>>>]
  ELSE LET k == Split(Len(d))
           left == Go(First(d, k))
           right == Go(From0(d, k))
           with(proofs, root) == [i \in DOMAIN proofs |-> Append(proofs[i], root)]
       IN  [root |-> NodeHash(left.root, right.root),
            proofs |-> with(left.proofs, right.root) \o with(right.proofs, left.root)]

\* merkle_root of scripts/verify_bundle.py: a stack of full subtrees, then one fold.
RECURSIVE Merged(_, _)
Merged(stack, top) ==
  IF stack # <<>> /\ Last(stack).size = top.size
  THEN Merged(Front(stack), [size |-> 2 * top.size, node |-> NodeHash(Last(stack).node, top.node)])
  ELSE Append(stack, top)

MerkleRoot(leaves) ==
  LET stack == FoldLeft(LAMBDA s, leaf : Merged(s, [size |-> 1, node |-> leaf]), <<>>, leaves)
  IN  IF leaves = <<>> THEN EmptyRoot
      ELSE FoldRight(LAMBDA left, node : NodeHash(left.node, node), Front(stack), Last(stack).node)

AllInclusionProofs(d) == IF d = <<>> THEN <<>> ELSE Go(d).proofs

-----------------------------------------------------------------------------
\* From the cached subtrees.

\* The levels after push puts hash on level k and closes the pairs above it.
RECURSIVE Pushed(_, _, _)
Pushed(ls, k, hash) ==
  LET grown == IF Len(ls) < k THEN Append(ls, <<hash>>) ELSE [ls EXCEPT ![k] = Append(@, hash)]
      n == Len(grown[k])
  IN  IF n % 2 = 1 THEN grown
      ELSE Pushed(grown, k + 1, NodeHash(grown[k][n - 1], grown[k][n]))

TreeLen == IF levels = <<>> THEN 0 ELSE Len(levels[1])

Level(len) == CHOOSE k \in 0..4 : 2^k = len

RECURSIVE Subtree(_, _)
Subtree(start, len) ==
  IF PowerOfTwo(len) /\ start % len = 0 THEN levels[Level(len) + 1][start \div len + 1]
  ELSE LET k == Split(len) IN NodeHash(Subtree(start, k), Subtree(start + k, len - k))

TreeHead(size) == [size |-> size, root |-> IF size = 0 THEN EmptyRoot ELSE Subtree(0, size)]

RECURSIVE TreePath(_, _, _)
TreePath(m, start, len) ==
  IF len <= 1 THEN <<>>
  ELSE LET k == Split(len)
       IN  IF m < k THEN Append(TreePath(m, start, k), Subtree(start + k, len - k))
                    ELSE Append(TreePath(m - k, start + k, len - k), Subtree(start, k))

TreeInclusionProof(index, size) == TreePath(index, 0, size)

RECURSIVE TreeSubProof(_, _, _, _)
TreeSubProof(m, start, len, whole) ==
  IF m = len THEN IF whole THEN <<>> ELSE <<Subtree(start, len)>>
  ELSE LET k == Split(len)
       IN  IF m <= k
           THEN Append(TreeSubProof(m, start, k, whole), Subtree(start + k, len - k))
           ELSE Append(TreeSubProof(m - k, start + k, len - k, FALSE), Subtree(start, k))

TreeConsistencyProof(old, size) == TreeSubProof(old, 0, size, TRUE)

-----------------------------------------------------------------------------
\* The verifiers: the positions f and s in the two trees, and the hashes computed so far.

\* Both positions shifted until f is odd or zero, or while it is odd.
RECURSIVE UntilOdd(_, _)
UntilOdd(f, s) == IF f % 2 = 0 /\ f # 0 THEN UntilOdd(f \div 2, s \div 2) ELSE <<f, s>>

RECURSIVE WhileOdd(_, _)
WhileOdd(f, s) == IF f % 2 = 1 THEN WhileOdd(f \div 2, s \div 2) ELSE <<f, s>>

\* The loop that both verifiers share; it fails when the proof is too long or too short.
RECURSIVE Walk(_, _, _, _, _)
Walk(f, s, old, new, proof) ==
  IF proof = <<>> THEN [ok |-> s = 0, old |-> old, new |-> new]
  ELSE IF s = 0 THEN [ok |-> FALSE, old |-> old, new |-> new]
  ELSE LET left == f % 2 = 1 \/ f = s
           at == IF left /\ f % 2 = 0 THEN UntilOdd(f, s) ELSE <<f, s>>
           p == Head(proof)
       IN  Walk(at[1] \div 2, at[2] \div 2,
                IF left THEN NodeHash(p, old) ELSE old,
                IF left THEN NodeHash(p, new) ELSE NodeHash(new, p), Tail(proof))

VerifyInclusion(head, index, leaf, proof) ==
  /\ index < head.size
  /\ LET w == Walk(index, head.size - 1, leaf, leaf, proof) IN w.ok /\ w.new = head.root

\* Mutant of VerifyConsistency: only the new root is compared.
VerifyConsistencyOfNew(old, new, proof) ==
  /\ old.size \in 1..new.size
  /\ IF old.size = new.size THEN proof = <<>> /\ old.root = new.root
     ELSE LET whole == IF PowerOfTwo(old.size) THEN <<old.root>> \o proof ELSE proof
              at == WhileOdd(old.size - 1, new.size - 1)
          IN  /\ whole # <<>>
              /\ LET w == Walk(at[1], at[2], whole[1], whole[1], Tail(whole))
                 IN  w.ok /\ w.new = new.root

VerifyConsistency(old, new, proof) ==
  /\ old.size \in 1..new.size
  /\ IF old.size = new.size THEN proof = <<>> /\ old.root = new.root
     ELSE LET whole == IF PowerOfTwo(old.size) THEN <<old.root>> \o proof ELSE proof
              at == WhileOdd(old.size - 1, new.size - 1)
          IN  /\ whole # <<>>
              /\ LET w == Walk(at[1], at[2], whole[1], whole[1], Tail(whole))
                 IN  w.ok /\ w.old = old.root /\ w.new = new.root

-----------------------------------------------------------------------------
Push(data) ==
  /\ check = None /\ Len(log) < MaxLeaves
  /\ log' = Append(log, LeafHash(data))
  /\ levels' = Pushed(levels, 1, LeafHash(data))
  /\ UNCHANGED check

\* A proof as it was made, or with one hash lost, added, or two exchanged.
Received(proof, extra) ==
  {proof} \cup {RemoveAt(proof, i) : i \in DOMAIN proof}
          \cup {InsertAt(proof, i, x) : i \in 1..(Len(proof) + 1), x \in extra}
          \cup {[proof EXCEPT ![i] = proof[i + 1], ![i + 1] = proof[i]] :
                  i \in 1..(Len(proof) - 1)}

\* The leaves that somebody claims were in the log: these, with one of them replaced, cut off.
Claimed == {First(d, m) : m \in 1..Len(log),
                          d \in {log} \cup {[log EXCEPT ![i] = LeafHash(x)] :
                                              i \in DOMAIN log, x \in Leaves}}

CheckInclusion(index, leaf, proof) ==
  /\ check = None
  /\ check' = [kind |-> "inclusion", index |-> index, leaf |-> leaf, proof |-> proof,
               ok |-> VerifyInclusion(TreeHead(TreeLen), index, leaf, proof)]
  /\ UNCHANGED <<log, levels>>

CheckConsistency(claim, proof) ==
  /\ check = None
  /\ check' = [kind |-> "consistency", claim |-> claim, proof |-> proof,
               ok |-> VerifyConsistency(HeadOf(claim), TreeHead(TreeLen), proof)]
  /\ UNCHANGED <<log, levels>>

MerkleInit == log = <<>> /\ levels = <<>> /\ check = None

\* The leaves differ in nothing but their name: the first is any one of them.
MerkleNext ==
  \/ \E data \in IF log = <<>> THEN {CHOOSE x \in Leaves : TRUE} ELSE Leaves : Push(data)
  \/ /\ check = None
     /\ \E at, index \in 0..(TreeLen - 1), data \in Leaves :
          \E proof \in Received(TreeInclusionProof(at, TreeLen), {LeafHash(data)}) :
            CheckInclusion(index, LeafHash(data), proof)
  \/ /\ check = None
     /\ \E claim \in Claimed, more \in {0, 1} :
          /\ Len(claim) + more <= TreeLen
          /\ \E proof \in Received(TreeConsistencyProof(Len(claim) + more, TreeLen), {RootOf(claim)}) :
               CheckConsistency(claim, proof)

-----------------------------------------------------------------------------
\* MerkleTree, "The results are identical to the free functions", merkle.rs: every root and
\* every proof for every size up to the length, whatever order the pairs were closed in, and
\* all_inclusion_proofs gives each leaf the proof of inclusion_proof.  The root of the
\* independent script is the same.
CacheMatchesLeaves ==
  check = None =>
    /\ TreeLen = Len(log)
    /\ MerkleRoot(log) = RootOf(log)
    /\ AllInclusionProofs(log) = [i \in DOMAIN log |-> InclusionProof(log, i - 1)]
    /\ \A n \in 0..Len(log) :
         /\ TreeHead(n) = HeadOf(First(log, n))
         /\ \A i \in 0..(n - 1) : TreeInclusionProof(i, n) = InclusionProof(First(log, n), i)
         /\ \A m \in 1..n : TreeConsistencyProof(m, n) = ConsistencyProof(First(log, n), m)
=============================================================================
