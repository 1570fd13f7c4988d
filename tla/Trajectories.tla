------------------------------ MODULE Trajectories ------------------------------
(***************************************************************************)
(* src/state.rs: StateChain gives each state of a caller's state machine a *)
(* digest with its step, stateful_audit_bundle binds a decision to the two *)
(* digests around it, and the verifiers look at the links of a sequence of *)
(* bundles.  A chain is Clone: two copies may go on from one state.        *)
(*                                                                         *)
(* A digest is the step and the bytes it was computed from.                *)
(***************************************************************************)
EXTENDS Digests

CONSTANTS
  Domain,      \* states of the caller, as canonical bytes
  MaxChains,   \* bound: copies of the chain
  MaxU64,      \* largest step
  MaxBundles   \* bound on the length of a sequence of bundles

VARIABLES
  chain,    \* the copies in the order they came to be: the step and last digest of each
  bundles,  \* every StatefulAuditBundle that was made
  moves     \* what really happened: the step, the state before, the state after

trajectoryVars == <<chain, bundles, moves>>

-----------------------------------------------------------------------------
StateDigest(step, bytes) == [step |-> step, bytes |-> bytes]

Genesis(bytes) ==
  /\ chain = <<>>
  /\ chain' = <<[step |-> 0, last |-> StateDigest(0, bytes)]>>
  /\ UNCHANGED <<bundles, moves>>

Clone(c) ==
  /\ Len(chain) < MaxChains
  /\ chain' = Append(chain, chain[c])
  /\ UNCHANGED <<bundles, moves>>

\* stateful_audit_bundle; a bundle stored elsewhere may carry the flag of a failed replay.
Bundle(step, before, after, replays) ==
  [step |-> step, before |-> before, after |-> after, replayValid |-> replays]

\* try_advance, refused at the last step, and the bundle of its transition.
TryAdvance(c, bytes, replays) ==
  /\ chain[c].step < MaxU64
  /\ LET step == chain[c].step + 1
         after == StateDigest(step, bytes)
     IN  /\ chain' = [chain EXCEPT ![c] = [step |-> step, last |-> after]]
         /\ bundles' = bundles \cup {Bundle(step, chain[c].last, after, replays)}
         /\ moves' = moves \cup {<<step, chain[c].last.bytes, bytes>>}

-----------------------------------------------------------------------------
\* The verifiers.

\* Mutant of VerifyTrajectoryLinkage: only the steps are followed.
VerifyTrajectorySteps(bs) ==
  \A i \in DOMAIN bs : bs[i].replayValid /\ (i > 1 => bs[i].step = bs[i - 1].step + 1)

VerifyTrajectoryLinkage(bs) ==
  \A i \in DOMAIN bs :
    /\ bs[i].replayValid
    /\ i > 1 => /\ bs[i - 1].step < MaxU64 /\ bs[i].step = bs[i - 1].step + 1
                /\ bs[i].before = bs[i - 1].after

VerifyTrajectoryFragmentLinkage(step, digest, bs) ==
  /\ bs # <<>> /\ step < MaxU64
  /\ bs[1].step = step + 1 /\ bs[1].before = digest
  /\ VerifyTrajectoryLinkage(bs)

VerifyCompleteTrajectoryLinkage(bytes, final, bs) ==
  /\ VerifyTrajectoryFragmentLinkage(0, StateDigest(0, bytes), bs)
  /\ Last(bs).step = final

-----------------------------------------------------------------------------
TrajectoriesInit == chain = <<>> /\ bundles = {} /\ moves = {}

\* The states differ in nothing but their name: the first is any one of them.
TrajectoriesNext ==
  \/ Genesis(CHOOSE bytes \in Domain : TRUE)
  \/ \E c \in DOMAIN chain :
       Clone(c) \/ \E bytes \in Domain, replays \in BOOLEAN : TryAdvance(c, bytes, replays)

-----------------------------------------------------------------------------
\* verify_complete_trajectory_linkage: "rejects empty, prefix-truncated, and suffix-truncated
\* evidence", state.rs.  Whatever sequence is put together from the bundles of all copies,
\* what it accepts goes from the trusted first state to the expected step through one state
\* after the other, every move made by some copy at that step and every decision replayed;
\* and what one copy did is accepted.  A digest does not hold the history before it, so two
\* copies that meet in a state may be joined there.
AcceptedTrajectoryHappened ==
  \A n \in 0..MaxBundles : \A bs \in [1..n -> bundles], bytes \in Domain :
    LET accepted == {final \in 0..MaxU64 : VerifyCompleteTrajectoryLinkage(bytes, final, bs)}
        happened == /\ n > 0
                    /\ \A i \in DOMAIN bs : bs[i].replayValid /\ bs[i].step = i
                    /\ \E states \in [0..n -> Domain] :
                         /\ states[0] = bytes
                         /\ \A i \in DOMAIN bs :
                              /\ <<i, states[i - 1], states[i]>> \in moves
                              /\ bs[i].before = StateDigest(i - 1, states[i - 1])
                              /\ bs[i].after = StateDigest(i, states[i])
    IN  accepted = IF happened THEN {n} ELSE {}
=============================================================================
