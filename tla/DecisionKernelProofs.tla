-------------------------- MODULE DecisionKernelProofs --------------------------
(***************************************************************************)
(* The inductive invariant of DecisionKernel, for every catalog, policy    *)
(* and request and every width of the integers: the maxima of a policy     *)
(* bound its catalog, and at every index of the walk the two registers     *)
(* hold the best two of the candidates that were seen and passed.  And     *)
(* what it says of the decisions: the fast paths price exactly, the        *)
(* selected model is the best of the eligible ones, a rejection cannot be  *)
(* mistaken for a decision, and explain, utility_for_model and the         *)
(* histogram tell the same as the decision.                                *)
(***************************************************************************)
EXTENDS DecisionKernel, TLAPS, WellFoundedInduction, FiniteSetTheorems

-----------------------------------------------------------------------------
\* Minima and maxima.

\* The smaller of two integers.
LEMMA MinOfTwo ==
  ASSUME NEW a \in Int, NEW b \in Int
  PROVE  Min({a, b}) = IF a <= b THEN a ELSE b
BY DEF Min

\* The larger of two integers.
LEMMA MaxOfTwo ==
  ASSUME NEW a \in Int, NEW b \in Int
  PROVE  Max({a, b}) = IF a >= b THEN a ELSE b
BY DEF Max

\* A set of naturals that is not empty has a smallest element.
LEMMA SmallestNat ==
  ASSUME NEW S \in SUBSET Nat, S # {}
  PROVE  \E x \in S : \A y \in S : x <= y
<1>1. PICK x \in S : \A y \in S : ~(<<y, x>> \in OpToRel(<, Nat))
  BY Zenon, NatLessThanWellFounded, WFMin
<1>2. \A y \in S : x <= y
  <2> SUFFICES ASSUME NEW y \in S, y < x PROVE FALSE
    OBVIOUS
  <2>1. <<y, x>> \in OpToRel(<, Nat)
    BY Zenon DEF OpToRel
  <2> QED BY Zenon, <1>1, <2>1
<1> QED BY Zenon, <1>2

\* Max picks an element that none exceeds, when the naturals of a set have a bound.
LEMMA MaxOfBounded ==
  ASSUME NEW bound \in Nat, NEW S \in SUBSET (0..bound), S # {}
  PROVE  Max(S) \in S /\ \A x \in S : x <= Max(S)
<1> DEFINE T == {bound - x : x \in S}
<1>1. T \in SUBSET Nat /\ T # {}
  <2>1. \A x \in S : bound - x \in Nat
    OBVIOUS
  <2>2. PICK x \in S : TRUE
    BY Zenon
  <2> QED BY Zenon, <2>1, <2>2
<1>2. PICK t \in T : \A u \in T : t <= u
  BY Zenon, <1>1, SmallestNat
<1>3. PICK x \in S : t = bound - x
  BY Zenon, <1>2
<1>4. \A y \in S : x >= y
  <2> TAKE y \in S
  <2>1. bound - x <= bound - y
    BY Zenon, <1>2, <1>3
  <2> QED BY <2>1
<1>5. Max(S) \in S /\ \A y \in S : Max(S) >= y
  BY Zenon, <1>4 DEF Max
<1> QED BY Zenon, <1>5

-----------------------------------------------------------------------------
\* Integer arithmetic.

\* A quotient is a natural.
LEMMA DivNat ==
  ASSUME NEW n \in Nat, NEW d \in Nat \ {0}
  PROVE  n \div d \in Nat /\ n \div d <= n
OBVIOUS

\* A product of naturals is one, and grows with its factor.
LEMMA MulMonotone ==
  ASSUME NEW a \in Nat, NEW b \in Nat, NEW c \in Nat, b <= c
  PROVE  a * b \in Nat /\ a * c \in Nat /\ a * b <= a * c
OBVIOUS

\* A quotient of what is at most a product is at most its factor.
LEMMA DivBound ==
  ASSUME NEW n \in Nat, NEW v \in Nat, NEW d \in Nat \ {0}, n <= v * d
  PROVE  n \div d <= v
OBVIOUS

\* A u64 holds what fits it.
LEMMA WrapOfFitting ==
  ASSUME KernelAssumption, NEW n \in Nat, FitsU64(n)
  PROVE  WrapU64(n) = n
BY DEF KernelAssumption, FitsU64, WrapU64

-----------------------------------------------------------------------------
\* Policies and prices.

\* The maxima of a policy bound its catalog.
Bounded(p) ==
  \A i \in DOMAIN p.models : /\ p.models[i].quality <= p.quality
                             /\ p.models[i].latency <= p.latency
                             /\ p.models[i].inputCost <= p.inputCost
                             /\ p.models[i].outputCost <= p.outputCost

\* new_unchecked keeps the settings and the catalog, and its maxima bound them.
LEMMA BuiltPolicy ==
  ASSUME KernelAssumption, NEW settings \in PolicySettings, NEW models \in Seq(KernelModel)
  PROVE  /\ WithBounds(settings, models) \in PolicySnapshot
         /\ WithBounds(settings, models).settings = settings
         /\ WithBounds(settings, models).models = models
         /\ Bounded(WithBounds(settings, models))
<1> DEFINE Q == {0} \cup {models[i].quality : i \in DOMAIN models}
           L == {0} \cup {models[i].latency : i \in DOMAIN models}
           I == {0} \cup {models[i].inputCost : i \in DOMAIN models}
           O == {0} \cup {models[i].outputCost : i \in DOMAIN models}
<1>1. MaxU16 \in Nat /\ MaxU64 \in Nat
  BY Zenon DEF KernelAssumption
<1>2. \A i \in DOMAIN models : models[i] \in KernelModel
  OBVIOUS
<1>3. Q \in SUBSET (0..MaxU16)
  BY <1>1, <1>2 DEF KernelModel, U16
<1>4. L \in SUBSET (0..MaxU64) /\ I \in SUBSET (0..MaxU64) /\ O \in SUBSET (0..MaxU64)
  <2>1. L \in SUBSET (0..MaxU64)
    BY <1>1, <1>2 DEF KernelModel, U64
  <2>2. I \in SUBSET (0..MaxU64)
    BY <1>1, <1>2 DEF KernelModel, U64
  <2>3. O \in SUBSET (0..MaxU64)
    BY <1>1, <1>2 DEF KernelModel, U64
  <2> QED BY Zenon, <2>1, <2>2, <2>3
<1>5. Max(Q) \in Q /\ \A x \in Q : x <= Max(Q)
  BY Zenon, <1>1, <1>3, MaxOfBounded
<1>6. Max(L) \in L /\ \A x \in L : x <= Max(L)
  BY Zenon, <1>1, <1>4, MaxOfBounded
<1>7. Max(I) \in I /\ \A x \in I : x <= Max(I)
  BY Zenon, <1>1, <1>4, MaxOfBounded
<1>8. Max(O) \in O /\ \A x \in O : x <= Max(O)
  BY Zenon, <1>1, <1>4, MaxOfBounded
<1>9. WithBounds(settings, models) =
        [settings |-> settings, models |-> models,
         quality |-> Max(Q), latency |-> Max(L), inputCost |-> Max(I), outputCost |-> Max(O)]
  BY Zenon DEF WithBounds
<1>10. Max(Q) \in U16 /\ Max(L) \in U64 /\ Max(I) \in U64 /\ Max(O) \in U64
  BY Zenon, <1>3, <1>4, <1>5, <1>6, <1>7, <1>8 DEF U16, U64
<1>11. \A i \in DOMAIN models : /\ models[i].quality \in Q /\ models[i].latency \in L
                                /\ models[i].inputCost \in I /\ models[i].outputCost \in O
  BY Zenon
<1> HIDE DEF Q, L, I, O
<1>12. WithBounds(settings, models) \in PolicySnapshot
  BY <1>9, <1>10 DEF PolicySnapshot
<1>13. Bounded(WithBounds(settings, models))
  BY <1>5, <1>6, <1>7, <1>8, <1>9, <1>11 DEF Bounded
<1> QED BY <1>9, <1>12, <1>13

\* The terms of a price are the exact ones, whichever path computes them.
LEMMA ExactTerms ==
  ASSUME KernelAssumption, NEW p \in PolicySnapshot, Bounded(p), NEW r \in KernelInput,
         NEW i \in DOMAIN p.models, NEW m, m = p.models[i]
  PROVE  /\ ExactCost(m, r) \in Nat
         /\ Cost(p, m, r) = ModelCostReference(m, r)
         /\ QualityAdjusted(p, m, r) = ScaledTermReference(Value(r), r.confidence, m.quality)
         /\ QualityAdjusted(p, m, r) \in Nat
         /\ RiskPenalty(p, r) \in Nat
         /\ LatencyPenalty(p, m) = m.latency * p.settings.latencyPenalty
         /\ LatencyPenalty(p, m) \in Nat
<1> DEFINE in == r.inputTokens * m.inputCost + CostRounding
           out == r.outputTokens * m.outputCost + CostRounding
           maxIn == r.inputTokens * p.inputCost + CostRounding
           maxOut == r.outputTokens * p.outputCost + CostRounding
           prefix == Value(r) * r.confidence
<1>1. /\ MaxU16 \in Nat /\ MaxU64 \in Nat /\ MaxI64 \in Nat /\ CostScale \in Nat \ {0} /\ BasisPoints \in Nat \ {0}
      /\ CostRounding \in Nat
  BY DEF KernelAssumption, CostRounding
<1>2. /\ m.quality \in Nat /\ m.latency \in Nat /\ m.inputCost \in Nat /\ m.outputCost \in Nat
      /\ p.quality \in Nat /\ p.latency \in Nat /\ p.inputCost \in Nat /\ p.outputCost \in Nat
      /\ p.settings.riskMultiplier \in Nat /\ p.settings.latencyPenalty \in Nat
  <2>1. /\ p.quality \in U16 /\ p.latency \in U64 /\ p.inputCost \in U64 /\ p.outputCost \in U64
        /\ p.settings \in PolicySettings /\ p.models \in Seq(KernelModel)
    BY Zenon DEF PolicySnapshot
  <2>2. m \in KernelModel
    BY <2>1
  <2>3. m.quality \in U16 /\ m.latency \in U64 /\ m.inputCost \in U64 /\ m.outputCost \in U64
    BY Zenon, <2>2 DEF KernelModel
  <2>4. p.settings.riskMultiplier \in U16 /\ p.settings.latencyPenalty \in U64
    BY Zenon, <2>1 DEF PolicySettings
  <2>5. \A x \in U16 \cup U64 : x \in Nat
    BY <1>1 DEF U16, U64
  <2> QED BY Zenon, <2>1, <2>3, <2>4, <2>5
<1>3. /\ r.inputTokens \in Nat /\ r.outputTokens \in Nat /\ r.confidence \in Nat /\ r.risk \in Nat
      /\ r.value \in Int
  BY <1>1 DEF KernelInput, U16, I64
<1>4. Value(r) \in Nat
  BY <1>3, MaxOfTwo DEF Value
<1>5. /\ in \in Nat /\ maxIn \in Nat /\ in <= maxIn
  BY <1>1, <1>2, <1>3, MulMonotone DEF Bounded
<1>6. /\ out \in Nat /\ maxOut \in Nat /\ out <= maxOut
  BY <1>1, <1>2, <1>3, MulMonotone DEF Bounded
<1>7. /\ in \div CostScale \in Nat /\ in \div CostScale <= in
      /\ out \div CostScale \in Nat /\ out \div CostScale <= out
  BY Zenon, <1>1, <1>5, <1>6, DivNat
<1>8. ExactCost(m, r) = (in \div CostScale) + (out \div CostScale)
  BY Zenon DEF ExactCost
<1>9. Cost(p, m, r) = ModelCostReference(m, r)
  <2> HIDE DEF in, out, maxIn, maxOut
  <2>1. CASE AllCostsFit(p, r)
    <3>1. maxIn + maxOut <= MaxU64
      BY Zenon, <2>1 DEF AllCostsFit, FitsU64, maxIn, maxOut
    <3>2. FitsU64(in) /\ FitsU64(out)
      BY <1>1, <1>5, <1>6, <3>1 DEF FitsU64
    <3>3. FitsU64((in \div CostScale) + (out \div CostScale))
      BY <1>1, <1>5, <1>6, <1>7, <3>1 DEF FitsU64
    <3>4. WrapU64(in) = in /\ WrapU64(out) = out
      BY Zenon, <1>5, <1>6, <3>2, WrapOfFitting
    <3>5. WrapU64((in \div CostScale) + (out \div CostScale)) = (in \div CostScale) + (out \div CostScale)
      BY <1>7, <3>3, WrapOfFitting
    <3>6. ModelCostFast(m, r) = ExactCost(m, r)
      BY Zenon, <1>8, <3>4, <3>5 DEF ModelCostFast, in, out
    <3>7. ModelCostReference(m, r) = ExactCost(m, r)
      BY <1>1, <1>7, <1>8, <3>3, MinOfTwo DEF ModelCostReference, FitsU64
    <3> QED BY Zenon, <2>1, <3>6, <3>7 DEF Cost
  <2> QED BY Zenon, <2>1 DEF Cost
<1>10. /\ prefix \in Nat /\ prefix * m.quality \in Nat /\ prefix * p.quality \in Nat
       /\ prefix * m.quality <= prefix * p.quality
  BY <1>2, <1>3, <1>4, MulMonotone DEF Bounded
<1>11. ScaledBasisPoints \in Nat \ {0}
  BY <1>1 DEF ScaledBasisPoints
<1>12. /\ QualityAdjusted(p, m, r) = ScaledTermReference(Value(r), r.confidence, m.quality)
       /\ QualityAdjusted(p, m, r) \in Nat
  <2> HIDE DEF prefix
  <2>1. ScaledTermReference(Value(r), r.confidence, m.quality) = (prefix * m.quality) \div ScaledBasisPoints
    BY Zenon DEF ScaledTermReference, prefix
  <2>2. CASE FitsU64(prefix) /\ FitsU64(prefix * p.quality)
    <3>1. WrapU64(prefix * m.quality) = prefix * m.quality
      BY <1>1, <1>10, <2>2, WrapOfFitting DEF FitsU64
    <3> QED BY Zenon, <1>10, <1>11, <2>1, <2>2, <3>1, DivNat DEF QualityAdjusted, prefix
  <2>3. CASE ~(FitsU64(prefix) /\ FitsU64(prefix * p.quality))
    BY Zenon, <1>10, <1>11, <2>1, <2>3, DivNat DEF QualityAdjusted, prefix
  <2> QED BY Zenon, <2>2, <2>3
<1>13. RiskPenalty(p, r) \in Nat
  <2>1. Value(r) * r.risk * p.settings.riskMultiplier \in Nat
    BY <1>2, <1>3, <1>4
  <2> QED BY Zenon, <1>11, <2>1, DivNat DEF RiskPenalty, ScaledTermReference
<1>14. /\ LatencyPenalty(p, m) = m.latency * p.settings.latencyPenalty
       /\ LatencyPenalty(p, m) \in Nat
  <2>1. /\ m.latency * p.settings.latencyPenalty \in Nat /\ p.latency * p.settings.latencyPenalty \in Nat
        /\ m.latency * p.settings.latencyPenalty <= p.latency * p.settings.latencyPenalty
    <3>1. m.latency <= p.latency
      BY Zenon DEF Bounded
    <3>2. ASSUME NEW a \in Nat, NEW b \in Nat, NEW c \in Nat, a <= b
          PROVE  a * c \in Nat /\ b * c \in Nat /\ a * c <= b * c
      BY ONLY <3>2
    <3> QED BY Zenon, <1>2, <3>1, <3>2
  <2>2. FitsU64(p.latency * p.settings.latencyPenalty) => FitsU64(m.latency * p.settings.latencyPenalty)
    BY <1>1, <2>1 DEF FitsU64
  <2> QED BY Zenon, <2>1, <2>2, WrapOfFitting DEF LatencyPenalty
<1> QED BY <1>7, <1>8, <1>9, <1>12, <1>13, <1>14

-----------------------------------------------------------------------------
\* The inductive invariant.

TypeOK ==
  /\ policy \in PolicySnapshot \cup {None}
  /\ trusted \in BOOLEAN
  /\ input \in KernelInput \cup {None}
  /\ index \in Nat
  /\ best \in Candidate \cup {None} /\ second \in Candidate \cup {None}
  /\ eligible \in U16 /\ rejected \in [Counters -> U16]
  /\ decision \in KernelDecision \cup {None}

\* A policy was validated, its maxima bound its catalog, and try_new_trusted was strict.
PolicyOK ==
  policy # None => /\ Bounded(policy)
                   /\ Valid(policy.settings, policy.models)
                   /\ trusted => MayTrust(policy.models)

\* Where the walk of a request stands.
Phases ==
  /\ policy = None => input = None
  /\ input = None => index = 0 /\ decision = None /\ best = None /\ second = None
  /\ input # None => (index > 0 <=> decision = None)
  /\ index > 0 => index <= Len(policy.models) + 1 /\ HardLimit(policy, input) = None

\* The candidate at a position of the catalog, as Consider builds it.
CandidateOf ==
  [i \in DOMAIN policy.models |->
     [id |-> policy.models[i].id, index |-> IndexU16(i - 1), quality |-> policy.models[i].quality,
      cost |-> Cost(policy, policy.models[i], input),
      utility |-> Utility(policy, policy.models[i], input)]]

\* What Consider asks of a candidate that it ranks.
Passes(i) ==
  /\ FirstFailedGate(policy.models[i], input) = None
  /\ Cost(policy, policy.models[i], input) <= input.budget
  /\ Utility(policy, policy.models[i], input) > 0

\* The candidates ranked so far.
Ranked == {i \in DOMAIN policy.models : (index = 0 \/ i < index) /\ Passes(i)}

\* b is the best and s the second best of the candidates at positions R.
BestTwo(C, R, b, s) ==
  IF R = {} THEN b = None /\ s = None
  ELSE \E i \in R :
         /\ b = C[i] /\ \A j \in R \ {i} : CandidateBetter(C[i], C[j])
         /\ IF R = {i} THEN s = None
            ELSE \E j \in R \ {i} : s = C[j] /\ \A k \in R \ {i, j} : CandidateBetter(C[j], C[k])

\* The two registers of the walk hold the best two of what it has seen.
RegistersOK ==
  input # None /\ HardLimit(policy, input) = None => BestTwo(CandidateOf, Ranked, best, second)

\* A decision tells what the registers held.
DecisionOK ==
  decision # None =>
    IF HardLimit(policy, input) # None \/ best = None
    THEN decision.action = "Reject" /\ decision.selected = 0 /\ decision.index = MaxU16
    ELSE /\ decision.action # "Reject" /\ decision.selected = best.id /\ decision.index = best.index
         /\ decision.counterfactual = IF second = None THEN 0 ELSE second.id

IInv == TypeOK /\ PolicyOK /\ Phases /\ RegistersOK /\ DecisionOK

-----------------------------------------------------------------------------
\* Ranking.

\* The order of candidates is transitive.
LEMMA BetterTransitive ==
  ASSUME NEW a \in Candidate, NEW b \in Candidate, NEW c \in Candidate,
         CandidateBetter(a, b), CandidateBetter(b, c)
  PROVE  CandidateBetter(a, c)
<1>1. \A x \in Candidate : x.id \in Int /\ x.quality \in Int /\ x.cost \in Int /\ x.utility \in Int
  BY DEF Candidate, U16, U64, I64
<1> QED BY <1>1 DEF CandidateBetter

\* Of two candidates with different ids, one is better.
LEMMA BetterTotal ==
  ASSUME NEW a \in Candidate, NEW b \in Candidate, a.id # b.id, ~CandidateBetter(a, b)
  PROVE  CandidateBetter(b, a)
<1>1. \A x \in Candidate : x.id \in Int /\ x.quality \in Int /\ x.cost \in Int /\ x.utility \in Int
  BY DEF Candidate, U16, U64, I64
<1> QED BY <1>1 DEF CandidateBetter

\* Rank keeps the best two when it adds a candidate to those seen.
LEMMA RankKeepsBestTwo ==
  ASSUME None \notin Candidate, NEW D, NEW C \in [D -> Candidate],
         \A i, j \in D : C[i].id = C[j].id => i = j,
         NEW R \in SUBSET D, NEW n \in D, n \notin R,
         NEW b, NEW s, BestTwo(C, R, b, s), NEW b1, NEW s1,
         \/ b = None /\ b1 = C[n] /\ s1 = s
         \/ b # None /\ CandidateBetter(C[n], b) /\ b1 = C[n] /\ s1 = b
         \/ /\ b # None /\ ~CandidateBetter(C[n], b) /\ b1 = b
            /\ s1 = IF s = None \/ CandidateBetter(C[n], s) THEN C[n] ELSE s
  PROVE  BestTwo(C, R \cup {n}, b1, s1)
<1>1. CASE R = {}
  BY <1>1 DEF BestTwo
<1>2. CASE R # {}
  <2>1. PICK i \in R :
          /\ b = C[i] /\ \A j \in R \ {i} : CandidateBetter(C[i], C[j])
          /\ IF R = {i} THEN s = None
             ELSE \E j \in R \ {i} : s = C[j] /\ \A k \in R \ {i, j} : CandidateBetter(C[j], C[k])
    BY Zenon, <1>2 DEF BestTwo
  <2>2. b # None /\ C[i] \in Candidate /\ C[n] \in Candidate /\ C[n].id # C[i].id
    BY Zenon, <2>1
  <2>3. CASE CandidateBetter(C[n], C[i])
    <3>1. b1 = C[n] /\ s1 = C[i]
      BY Zenon, <2>1, <2>2, <2>3
    <3>2. \A j \in R : CandidateBetter(C[n], C[j])
      BY Zenon, <2>1, <2>2, <2>3, BetterTransitive
    <3> QED BY <2>1, <3>1, <3>2 DEF BestTwo
  <2>4. CASE ~CandidateBetter(C[n], C[i])
    <3>1. b1 = C[i] /\ s1 = IF s = None \/ CandidateBetter(C[n], s) THEN C[n] ELSE s
      BY Zenon, <2>1, <2>2, <2>4
    <3>2. CandidateBetter(C[i], C[n])
      BY Zenon, <2>2, <2>4, BetterTotal
    <3>3. \A j \in (R \cup {n}) \ {i} : CandidateBetter(C[i], C[j])
      BY Zenon, <2>1, <3>2
    <3>4. CASE R = {i}
      BY <2>1, <3>1, <3>3, <3>4 DEF BestTwo
    <3>5. CASE R # {i}
      <4>1. PICK j \in R \ {i} : s = C[j] /\ \A k \in R \ {i, j} : CandidateBetter(C[j], C[k])
        BY Zenon, <2>1, <3>5
      <4>2. s # None /\ C[j] \in Candidate /\ C[n].id # C[j].id
        BY <4>1
      <4>3. CASE CandidateBetter(C[n], C[j])
        <5>1. s1 = C[n]
          BY Zenon, <3>1, <4>1, <4>3
        <5>2. \A k \in R \ {i} : CandidateBetter(C[n], C[k])
          BY Zenon, <2>2, <4>1, <4>2, <4>3, BetterTransitive
        <5> QED BY <2>1, <3>1, <3>3, <5>1, <5>2 DEF BestTwo
      <4>4. CASE ~CandidateBetter(C[n], C[j])
        <5>1. s1 = C[j]
          BY Zenon, <3>1, <4>1, <4>2, <4>4
        <5>2. CandidateBetter(C[j], C[n])
          BY Zenon, <2>2, <4>2, <4>4, BetterTotal
        <5>3. \A k \in (R \cup {n}) \ {i, j} : CandidateBetter(C[j], C[k])
          BY Zenon, <4>1, <5>2
        <5> QED BY <3>1, <3>3, <4>1, <5>1, <5>3 DEF BestTwo
      <4> QED BY Zenon, <4>3, <4>4
    <3> QED BY Zenon, <3>4, <3>5
  <2> QED BY Zenon, <2>3, <2>4
<1> QED BY Zenon, <1>1, <1>2

-----------------------------------------------------------------------------
\* What the steps of the walk compute.

\* first_failed_gate names a gate, and none exactly when the candidate fails none.
LEMMA GateNamed ==
  ASSUME KernelAssumption, DecisionAssumption, NEW m, NEW r
  PROVE  /\ FirstFailedGate(m, r) \in GateKind \cup {None}
         /\ FirstFailedGate(m, r) = None <=> \A gate \in Range(GateOrder) : ~Fails(gate, m, r)
<1> DEFINE failed == {i \in DOMAIN GateOrder : Fails(GateOrder[i], m, r)}
<1>1. DOMAIN GateOrder = 1..8 /\ \A i \in 1..8 : GateOrder[i] \in GateKind
  BY DEF GateOrder, GateKind
<1>2. FirstFailedGate(m, r) = IF failed = {} THEN None ELSE GateOrder[Min(failed)]
  BY Zenon DEF FirstFailedGate
<1>3. failed \in SUBSET Nat /\ failed \subseteq DOMAIN GateOrder
  BY <1>1
<1>4. failed # {} => Min(failed) \in failed
  <2> HIDE DEF failed
  <2>1. ASSUME failed # {} PROVE \E x \in failed : \A y \in failed : x <= y
    BY Zenon, <1>3, <2>1, SmallestNat
  <2> QED BY Zenon, <2>1 DEF Min
<1>5. failed = {} <=> \A gate \in Range(GateOrder) : ~Fails(gate, m, r)
  BY Zenon DEF Range
<1>6. failed # {} => GateOrder[Min(failed)] \in GateKind
  BY Zenon, <1>1, <1>3, <1>4
<1>7. None \notin GateKind
  BY Zenon DEF DecisionAssumption
<1> QED BY Zenon, <1>2, <1>5, <1>6, <1>7

\* A gate has a counter.
LEMMA GateCounted ==
  ASSUME NEW gate \in GateKind
  PROVE  Counter(gate) \in Counters
BY Zenon DEF GateKind, Counter, Counters

\* dominant_rejection_reason names a counter.
LEMMA ReasonNamed ==
  ASSUME KernelAssumption, NEW counts \in [Counters -> U16]
  PROVE  DominantRejectionReason(counts) \in Counters
<1> DEFINE Largest(i) == \A j \in DOMAIN ReasonOrder : counts[ReasonOrder[j]] <= counts[ReasonOrder[i]]
           largest == {i \in DOMAIN ReasonOrder : Largest(i)}
           S == {counts[c] : c \in Counters}
<1>1. DOMAIN ReasonOrder = 1..9 /\ \A i \in 1..9 : ReasonOrder[i] \in Counters
  BY DEF ReasonOrder, Counters
<1>2. \A c \in Counters : \E i \in 1..9 : ReasonOrder[i] = c
  BY DEF ReasonOrder, Counters
<1>3. MaxU16 \in Nat /\ S \in SUBSET (0..MaxU16) /\ S # {}
  BY Zenon DEF KernelAssumption, U16, Counters
<1>4. Max(S) \in S /\ \A x \in S : x <= Max(S)
  BY Zenon, <1>3, MaxOfBounded
<1>5. PICK i \in 1..9 : counts[ReasonOrder[i]] = Max(S)
  BY <1>2, <1>4
<1>6. i \in largest
  <2>1. \A j \in 1..9 : counts[ReasonOrder[j]] \in S
    BY Zenon, <1>1
  <2> QED BY Zenon, <1>1, <1>4, <1>5, <2>1
<1>7. largest \in SUBSET (0..9)
  BY <1>1
<1>8. Max(largest) \in largest
  <2> HIDE DEF largest
  <2> QED BY Zenon, <1>6, <1>7, MaxOfBounded
<1>9. ReasonOrder[Max(largest)] \in Counters
  BY Zenon, <1>1, <1>8
<1>10. DominantRejectionReason(counts) =
         IF counts[ReasonOrder[Max(largest)]] > 0 THEN ReasonOrder[Max(largest)] ELSE "disabled"
  BY Zenon DEF DominantRejectionReason
<1>11. "disabled" \in Counters
  BY Zenon DEF Counters
<1> QED BY Zenon, <1>9, <1>10, <1>11

\* The u16 counters stay in their width.
LEMMA CountersFit ==
  ASSUME KernelAssumption, NEW n \in U16, NEW i \in Nat
  PROVE  /\ SaturatingInc(n) \in U16 /\ WrappingInc(n) \in U16 /\ IndexU16(i) \in U16
         /\ 0 \in U16 /\ MaxU16 \in U16
<1>1. MaxU16 \in Nat /\ n \in Nat /\ n <= MaxU16
  BY DEF KernelAssumption, U16
<1>2. SaturatingInc(n) \in U16
  BY <1>1, MinOfTwo DEF SaturatingInc, U16
<1>3. WrappingInc(n) \in U16
  BY <1>1 DEF WrappingInc, U16
<1>4. IndexU16(i) \in U16
  BY <1>1, MinOfTwo DEF IndexU16, U16
<1> QED BY <1>1, <1>2, <1>3, <1>4 DEF U16

\* The prices of a candidate fit their widths, and no two candidates share an id.
LEMMA CandidatesTyped ==
  ASSUME KernelAssumption, TypeOK, PolicyOK, policy # None, input # None
  PROVE  /\ CandidateOf \in [DOMAIN policy.models -> Candidate]
         /\ \A i, j \in DOMAIN policy.models : CandidateOf[i].id = CandidateOf[j].id => i = j
<1>1. policy \in PolicySnapshot /\ input \in KernelInput /\ Bounded(policy)
  BY Zenon DEF TypeOK, PolicyOK
<1>2. policy.models \in Seq(KernelModel)
  BY Zenon, <1>1 DEF PolicySnapshot
<1>3. ASSUME NEW i \in DOMAIN policy.models
      PROVE  CandidateOf[i] \in Candidate
  <2> DEFINE m == policy.models[i]
  <2>1. m \in KernelModel
    BY <1>2
  <2>2. m.id \in Nat /\ m.quality \in U16
    BY Zenon, <2>1 DEF KernelModel
  <2>3. /\ ExactCost(m, input) \in Nat
        /\ Cost(policy, m, input) = ModelCostReference(m, input)
        /\ QualityAdjusted(policy, m, input) \in Nat /\ RiskPenalty(policy, input) \in Nat
        /\ LatencyPenalty(policy, m) \in Nat
    BY Zenon, <1>1, <1>3, ExactTerms
  <2>4. MaxU64 \in Nat /\ MaxI64 \in Nat /\ MaxU16 \in Nat
    BY Zenon DEF KernelAssumption
  <2>5. Cost(policy, m, input) \in U64
    BY <2>3, <2>4, MinOfTwo DEF ModelCostReference, U64
  <2>6. Utility(policy, m, input) \in I64
    <3>1. ASSUME NEW n \in Int PROVE ClampToI64(n) \in I64
      BY <2>4, MinOfTwo, MaxOfTwo DEF ClampToI64, I64
    <3>2. Cost(policy, m, input) \in Int
      BY <2>5 DEF U64
    <3> QED BY <2>3, <3>1, <3>2 DEF Utility
  <2>7. i - 1 \in Nat
    BY <1>2
  <2>8. IndexU16(i - 1) \in U16
    BY <2>4, <2>7, MinOfTwo DEF IndexU16, U16
  <2> QED BY Zenon, <2>2, <2>5, <2>6, <2>8 DEF CandidateOf, Candidate
<1>4. \A i \in DOMAIN policy.models : CandidateOf[i].id = policy.models[i].id
  BY Zenon DEF CandidateOf
<1>5. \A i, j \in DOMAIN policy.models : policy.models[i].id = policy.models[j].id => i = j
  BY Zenon DEF PolicyOK, Valid
<1>6. CandidateOf \in [DOMAIN policy.models -> Candidate]
  BY Zenon, <1>3 DEF CandidateOf
<1> QED BY Zenon, <1>4, <1>5, <1>6

-----------------------------------------------------------------------------
\* The invariant is inductive.

\* Nothing is decided before there is a policy.
LEMMA InitEstablishes ==
  ASSUME KernelAssumption, DecisionAssumption, Init
  PROVE  IInv
<1>1. 0 \in U16
  BY DEF KernelAssumption, U16
<1>2. TypeOK
  BY Zenon, <1>1 DEF Init, TypeOK, NoRejections
<1>3. PolicyOK /\ Phases /\ RegistersOK /\ DecisionOK
  BY DEF Init, PolicyOK, Phases, RegistersOK, DecisionOK
<1> QED BY Zenon, <1>2, <1>3 DEF IInv

\* Sorting by id changes neither the models of a catalog nor what was checked of them.
LEMMA SortKeepsCatalog ==
  ASSUME NEW models \in Seq(KernelModel), NEW kept \in SortedById(models), NEW settings,
         Valid(settings, models), MayTrust(models)
  PROVE  kept \in Seq(KernelModel) /\ Valid(settings, kept) /\ MayTrust(kept)
<1>1. PICK p \in Bijection(DOMAIN models, DOMAIN models) : kept = [i \in DOMAIN models |-> models[p[i]]]
  BY Zenon DEF SortedById
<1>2. /\ p \in [DOMAIN models -> DOMAIN models]
      /\ \A i, j \in DOMAIN models : p[i] = p[j] => i = j
      /\ \A i \in DOMAIN models : \E j \in DOMAIN models : p[j] = i
  BY Zenon DEF Bijection, Injection, Surjection, IsInjective
<1>3. DOMAIN models = 1..Len(models) /\ Len(models) \in Nat
  OBVIOUS
<1>4. DOMAIN kept = DOMAIN models /\ \A i \in DOMAIN models : kept[i] = models[p[i]]
  BY Zenon, <1>1
<1>5. kept \in Seq(KernelModel) /\ Len(kept) = Len(models)
  BY <1>1, <1>2, <1>3
<1>6. Valid(settings, kept)
  <2>1. kept # <<>>
    BY <1>3, <1>5 DEF Valid
  <2>2. \A i, j \in DOMAIN kept : kept[i].id = kept[j].id => i = j
    <3> TAKE i, j \in DOMAIN kept
    <3> HAVE kept[i].id = kept[j].id
    <3>a. p[i] \in DOMAIN models /\ p[j] \in DOMAIN models /\ models[p[i]].id = models[p[j]].id
      BY Zenon, <1>2, <1>4
    <3>1. p[i] = p[j]
      BY Zenon, <3>a DEF Valid
    <3> QED BY Zenon, <1>2, <1>4, <3>1
  <2>3. \A i \in DOMAIN kept : /\ kept[i].provider <= MaxProviderId
                               /\ kept[i].quality <= BasisPoints /\ kept[i].ceiling <= BasisPoints
    <3> TAKE i \in DOMAIN kept
    <3>1. p[i] \in DOMAIN models /\ kept[i] = models[p[i]]
      BY Zenon, <1>2, <1>4
    <3> QED BY Zenon, <3>1 DEF Valid
  <2>4. \E i \in DOMAIN kept : kept[i].enabled # 0
    BY <1>2, <1>4 DEF Valid
  <2> QED BY Zenon, <2>1, <2>2, <2>3, <2>4 DEF Valid
<1>7. MayTrust(kept)
  BY <1>2, <1>4, <1>5 DEF MayTrust
<1> QED BY Zenon, <1>5, <1>6, <1>7

\* A policy is built.
LEMMA NewPolicyKeeps ==
  ASSUME KernelAssumption, DecisionAssumption, IInv, NEW t \in BOOLEAN,
         NEW settings \in Settings(t), NEW models \in Catalogs(t), NewPolicy(settings, models, t)
  PROVE  IInv'
<1>1. settings \in PolicySettings /\ models \in Seq(KernelModel)
  BY Zenon DEF DecisionAssumption
<1>2. /\ policy = None /\ (t => MayTrust(models)) /\ Valid(settings, models) /\ trusted' = t
      /\ UNCHANGED <<input, index, locals, decision>>
  BY Zenon DEF NewPolicy
<1>3. PICK kept \in IF t THEN SortedById(models) ELSE {models} : policy' = WithBounds(settings, kept)
  BY Zenon DEF NewPolicy
<1>4. kept \in Seq(KernelModel) /\ Valid(settings, kept) /\ (t => MayTrust(kept))
  BY Zenon, <1>1, <1>2, <1>3, SortKeepsCatalog
<1>5. /\ policy' \in PolicySnapshot /\ policy'.settings = settings /\ policy'.models = kept
      /\ Bounded(policy')
  BY Zenon, <1>1, <1>3, <1>4, BuiltPolicy
<1>6. PolicyOK'
  BY Zenon, <1>2, <1>4, <1>5 DEF PolicyOK
<1>7. input = None /\ index = 0 /\ decision = None /\ best = None /\ second = None
  BY Zenon, <1>2 DEF IInv, Phases
<1>8. TypeOK'
  BY Zenon, <1>2, <1>5 DEF IInv, TypeOK, locals
<1>9. Phases' /\ RegistersOK' /\ DecisionOK'
  BY <1>2, <1>7 DEF locals, Phases, RegistersOK, DecisionOK
<1> QED BY Zenon, <1>6, <1>8, <1>9 DEF IInv

\* A request passes the hard limits or is refused at them.
LEMMA PrescribeKeeps ==
  ASSUME KernelAssumption, DecisionAssumption, IInv, NEW r \in Inputs(trusted), Prescribe(r)
  PROVE  IInv'
<1>1. r \in KernelInput /\ r # None
  BY Zenon DEF DecisionAssumption, IInv, TypeOK
<1>2. /\ policy # None /\ input = None /\ input' = r /\ UNCHANGED <<policy, trusted, locals>>
      /\ best = None /\ second = None /\ index = 0 /\ decision = None
  BY Zenon DEF Prescribe, IInv, Phases
<1>3. policy.models \in Seq(KernelModel) /\ MaxU16 \in Nat /\ MaxI64 \in Nat /\ MaxU64 \in Nat
  BY Zenon, <1>2 DEF IInv, TypeOK, PolicySnapshot, KernelAssumption
<1>4. PolicyOK'
  BY Zenon, <1>2 DEF IInv, PolicyOK
<1>5. CASE HardLimit(policy, r) # None
  <2>1. decision' = Reject(HardLimit(policy, r), 0, 0) /\ index' = 0
    BY Zenon, <1>2, <1>5 DEF Prescribe
  <2>2. HardLimit(policy, r) \in KernelReason
    BY Zenon, <1>5 DEF HardLimit, KernelReason
  <2>3. decision' \in KernelDecision
    BY <1>3, <2>1, <2>2 DEF Reject, KernelDecision, KernelAction, U16, U64, I64
  <2>4. /\ decision'.action = "Reject" /\ decision'.selected = 0 /\ decision'.index = MaxU16
        /\ decision' # None
    BY Zenon, <2>1, <2>3 DEF Reject, DecisionAssumption
  <2>5. TypeOK'
    BY Zenon, <1>1, <1>2, <2>1, <2>3 DEF IInv, TypeOK, locals
  <2>6. Phases' /\ RegistersOK' /\ DecisionOK'
    BY <1>1, <1>2, <1>5, <2>1, <2>4 DEF Phases, RegistersOK, DecisionOK
  <2> QED BY Zenon, <1>4, <2>5, <2>6 DEF IInv
<1>6. CASE HardLimit(policy, r) = None
  <2>1. index' = 1 /\ decision' = None
    BY Zenon, <1>2, <1>6 DEF Prescribe
  <2>2. TypeOK'
    BY Zenon, <1>1, <1>2, <2>1 DEF IInv, TypeOK, locals
  <2>3. Phases' /\ DecisionOK'
    BY <1>1, <1>2, <1>3, <1>6, <2>1 DEF Phases, DecisionOK
  <2>4. RegistersOK'
    <3>1. Ranked' = {}
      BY <1>2, <1>3, <2>1 DEF Ranked
    <3>2. best' = None /\ second' = None
      BY Zenon, <1>2 DEF locals
    <3> QED BY Zenon, <3>1, <3>2 DEF RegistersOK, BestTwo
  <2> QED BY Zenon, <1>4, <2>2, <2>3, <2>4 DEF IInv
<1> QED BY Zenon, <1>5, <1>6

\* One candidate of the catalog.
LEMMA ConsiderKeeps ==
  ASSUME KernelAssumption, DecisionAssumption, IInv, Consider
  PROVE  IInv'
<1> DEFINE m == policy.models[index]
<1>1. /\ index > 0 /\ index <= Len(policy.models) /\ index' = index + 1
      /\ UNCHANGED <<policy, trusted, input, decision>>
  BY Zenon DEF Consider
<1>2. /\ index \in Nat /\ input # None /\ policy # None /\ decision = None
      /\ HardLimit(policy, input) = None
  BY <1>1 DEF IInv, TypeOK, Phases
<1>3. policy.models \in Seq(KernelModel) /\ DOMAIN policy.models = 1..Len(policy.models)
      /\ Len(policy.models) \in Nat /\ index \in DOMAIN policy.models
  BY <1>1, <1>2 DEF IInv, TypeOK, PolicySnapshot
<1>4. /\ CandidateOf \in [DOMAIN policy.models -> Candidate]
      /\ \A i, j \in DOMAIN policy.models : CandidateOf[i].id = CandidateOf[j].id => i = j
  BY Zenon, <1>2, CandidatesTyped DEF IInv
<1>5. PolicyOK' /\ Phases' /\ DecisionOK'
  BY <1>1, <1>2, <1>3 DEF IInv, PolicyOK, Phases, DecisionOK
<1>6. BestTwo(CandidateOf, Ranked, best, second)
  BY Zenon, <1>2 DEF IInv, RegistersOK
<1>7. CandidateOf' = CandidateOf
  BY Zenon, <1>1 DEF CandidateOf
<1>8. index \notin Ranked /\ Ranked \in SUBSET DOMAIN policy.models
  BY <1>1, <1>2 DEF Ranked
<1>9. Ranked' = Ranked \cup IF Passes(index) THEN {index} ELSE {}
  <2>1. \A i \in DOMAIN policy.models : Passes(i)' <=> Passes(i)
    BY Zenon, <1>1 DEF Passes
  <2>2. \A i \in DOMAIN policy.models : (index' = 0 \/ i < index') <=> (i < index \/ i = index)
    BY <1>1, <1>2, <1>3
  <2> QED BY <1>1, <1>2, <1>3, <2>1, <2>2 DEF Ranked
<1>10. ASSUME NEW counter \in Counters, CountRejection(counter), ~Passes(index)
       PROVE  IInv'
  <2>1. UNCHANGED <<best, second, eligible>>
    BY Zenon, <1>10 DEF CountRejection
  <2>2. rejected' \in [Counters -> U16]
    <3>1. rejected \in [Counters -> U16]
      BY Zenon DEF IInv, TypeOK
    <3>2. \A n \in U16 : SaturatingInc(n) \in U16 /\ WrappingInc(n) \in U16
      BY Zenon, CountersFit
    <3> QED BY Zenon, <1>10, <3>1, <3>2 DEF CountRejection
  <2>3. TypeOK'
    BY <1>1, <1>2, <2>1, <2>2 DEF IInv, TypeOK
  <2>4. RegistersOK'
    BY Zenon, <1>6, <1>7, <1>9, <1>10, <2>1 DEF RegistersOK
  <2> QED BY Zenon, <1>5, <2>3, <2>4 DEF IInv
<1>11. ASSUME Rank(CandidateOf[index]), eligible' = SaturatingInc(eligible), UNCHANGED rejected,
              Passes(index)
       PROVE  IInv'
  <2>1. eligible' \in U16
    BY Zenon, <1>11, CountersFit DEF IInv, TypeOK
  <2>2. best' \in Candidate \cup {None} /\ second' \in Candidate \cup {None}
    BY <1>3, <1>4, <1>11 DEF Rank, IInv, TypeOK
  <2>3. TypeOK'
    BY <1>1, <1>2, <1>11, <2>1, <2>2 DEF IInv, TypeOK
  <2>4. \/ best = None /\ best' = CandidateOf[index] /\ second' = second
        \/ best # None /\ CandidateBetter(CandidateOf[index], best) /\ best' = CandidateOf[index] /\ second' = best
        \/ /\ best # None /\ ~CandidateBetter(CandidateOf[index], best) /\ best' = best
           /\ second' = IF second = None \/ CandidateBetter(CandidateOf[index], second)
                        THEN CandidateOf[index] ELSE second
    BY Zenon, <1>11 DEF Rank
  <2>5. None \notin Candidate
    BY Zenon DEF DecisionAssumption
  <2>6. BestTwo(CandidateOf, Ranked \cup {index}, best', second')
    BY Zenon, <1>3, <1>4, <1>6, <1>8, <2>4, <2>5, RankKeepsBestTwo
  <2>7. RegistersOK'
    BY Zenon, <1>7, <1>9, <1>11, <2>6 DEF RegistersOK
  <2> QED BY Zenon, <1>5, <2>3, <2>7 DEF IInv
<1>12. CandidateOf[index] = [id |-> m.id, index |-> IndexU16(index - 1), quality |-> m.quality,
                             cost |-> Cost(policy, m, input), utility |-> Utility(policy, m, input)]
  BY Zenon, <1>3 DEF CandidateOf
<1>13. "budget" \in Counters /\ "utility" \in Counters
  BY Zenon DEF Counters
<1>14. FirstFailedGate(m, input) # None => Counter(FirstFailedGate(m, input)) \in Counters
  BY Zenon, GateNamed, GateCounted
<1>15. Cost(policy, m, input) \in Int /\ Utility(policy, m, input) \in Int /\ input.budget \in Int
  <2>1. CandidateOf[index] \in Candidate
    BY Zenon, <1>3, <1>4
  <2>2. CandidateOf[index].cost \in U64 /\ CandidateOf[index].utility \in I64
    BY Zenon, <2>1 DEF Candidate
  <2>3. input.budget \in U64
    BY Zenon, <1>2 DEF IInv, TypeOK, KernelInput
  <2> QED BY <1>12, <2>2, <2>3 DEF U64, I64
<1>16. CASE FirstFailedGate(m, input) # None /\ CountRejection(Counter(FirstFailedGate(m, input)))
  BY Zenon, <1>10, <1>14, <1>16 DEF Passes
<1>17. CASE /\ FirstFailedGate(m, input) = None /\ Cost(policy, m, input) > input.budget
            /\ CountRejection("budget")
  BY <1>10, <1>13, <1>15, <1>17 DEF Passes
<1>18. CASE /\ FirstFailedGate(m, input) = None /\ Utility(policy, m, input) <= 0
            /\ CountRejection("utility")
  BY <1>10, <1>13, <1>15, <1>18 DEF Passes
<1>19. CASE /\ FirstFailedGate(m, input) = None /\ Cost(policy, m, input) <= input.budget
            /\ Utility(policy, m, input) > 0 /\ eligible' = SaturatingInc(eligible)
            /\ Rank(CandidateOf[index]) /\ UNCHANGED rejected
  BY Zenon, <1>11, <1>19 DEF Passes
<1> QED BY Zenon, <1>12, <1>16, <1>17, <1>18, <1>19 DEF Consider

\* The decision after the walk.
LEMMA DecideKeeps ==
  ASSUME KernelAssumption, DecisionAssumption, IInv, Decide
  PROVE  IInv'
<1> DEFINE evaluated == IndexU16(Len(policy.models))
           requested == best # None /\ best.id = input.requested
<1>1. /\ index > 0 /\ index > Len(policy.models) /\ index' = 0
      /\ UNCHANGED <<policy, trusted, input, locals>>
  BY Zenon DEF Decide
<1>2. /\ index \in Nat /\ input # None /\ policy # None /\ HardLimit(policy, input) = None
      /\ index <= Len(policy.models) + 1
  BY <1>1 DEF IInv, TypeOK, Phases
<1>3. policy.models \in Seq(KernelModel) /\ DOMAIN policy.models = 1..Len(policy.models)
      /\ Len(policy.models) \in Nat /\ MaxU16 \in Nat /\ MaxI64 \in Nat /\ MaxU64 \in Nat
  BY <1>2 DEF IInv, TypeOK, PolicySnapshot, KernelAssumption
<1>4. /\ best \in Candidate \cup {None} /\ second \in Candidate \cup {None} /\ eligible \in U16
      /\ rejected \in [Counters -> U16]
  BY Zenon DEF IInv, TypeOK
<1>5. evaluated \in U16 /\ 0 \in U16 /\ MaxU16 \in U16 /\ 0 \in U64 /\ 0 \in I64
  <2>1. evaluated \in U16 /\ 0 \in U16 /\ MaxU16 \in U16
    BY Zenon, <1>3, <1>4, CountersFit
  <2>2. 0 \in U64 /\ 0 \in I64
    BY <1>3 DEF U64, I64
  <2> QED BY Zenon, <2>1, <2>2
<1>6. ASSUME best = None
      PROVE  /\ decision' \in KernelDecision
             /\ decision'.action = "Reject" /\ decision'.selected = 0 /\ decision'.index = MaxU16
  <2>1. decision' = Reject(DominantRejectionReason(rejected), evaluated, eligible)
    BY Zenon, <1>6 DEF Decide
  <2>2. DominantRejectionReason(rejected) \in KernelReason
    BY Zenon, <1>4, ReasonNamed DEF KernelReason
  <2> HIDE DEF evaluated
  <2>3. decision' \in KernelDecision
    BY Zenon, <1>4, <1>5, <2>1, <2>2 DEF Reject, KernelDecision, KernelAction
  <2>4. decision'.action = "Reject" /\ decision'.selected = 0 /\ decision'.index = MaxU16
    BY Zenon, <2>1 DEF Reject
  <2> QED BY Zenon, <2>3, <2>4
<1>7. ASSUME best # None
      PROVE  /\ decision' \in KernelDecision
             /\ decision'.action # "Reject" /\ decision'.selected = best.id /\ decision'.index = best.index
             /\ decision'.counterfactual = IF second = None THEN 0 ELSE second.id
  <2>1. decision' = [action |-> IF requested THEN "ExecuteRequested" ELSE "Substitute",
                     reason |-> IF requested THEN "RequestedModelMaximizesUtility"
                                             ELSE "AlternativeMaximizesUtility",
                     selected |-> best.id, index |-> best.index, cost |-> best.cost,
                     utility |-> best.utility,
                     counterfactual |-> IF second = None THEN 0 ELSE second.id,
                     counterfactualUtility |-> IF second = None THEN 0 ELSE second.utility,
                     evaluated |-> evaluated, eligible |-> eligible]
    BY Zenon, <1>7 DEF Decide
  <2> HIDE DEF evaluated, requested
  <2>2. best.id \in Nat /\ best.index \in U16 /\ best.cost \in U64 /\ best.utility \in I64
    BY Zenon, <1>4, <1>7 DEF Candidate
  <2>3. second # None => second.id \in Nat /\ second.utility \in I64
    BY Zenon, <1>4 DEF Candidate
  <2>4. decision' \in KernelDecision
    BY Zenon, <1>4, <1>5, <2>1, <2>2, <2>3 DEF KernelDecision, KernelAction, KernelReason
  <2>5. /\ decision'.action # "Reject" /\ decision'.selected = best.id /\ decision'.index = best.index
        /\ decision'.counterfactual = IF second = None THEN 0 ELSE second.id
    BY Zenon, <2>1
  <2> QED BY Zenon, <2>4, <2>5
<1>8. /\ decision' \in KernelDecision
      /\ best = None => decision'.action = "Reject" /\ decision'.selected = 0 /\ decision'.index = MaxU16
      /\ best # None =>
           /\ decision'.action # "Reject" /\ decision'.selected = best.id /\ decision'.index = best.index
           /\ decision'.counterfactual = IF second = None THEN 0 ELSE second.id
  BY Zenon, <1>6, <1>7
<1>9. decision' # None
  BY Zenon, <1>8 DEF DecisionAssumption
<1>10. TypeOK' /\ PolicyOK'
  BY Zenon, <1>1, <1>8 DEF IInv, TypeOK, PolicyOK, locals
<1>11. Phases'
  BY <1>1, <1>2, <1>9 DEF Phases
<1>12. DecisionOK'
  BY Zenon, <1>1, <1>2, <1>8 DEF DecisionOK, locals
<1>13. RegistersOK'
  <2>1. CandidateOf' = CandidateOf
    BY Zenon, <1>1 DEF CandidateOf
  <2>2. Ranked' = Ranked
    <3>1. \A i \in DOMAIN policy.models : i < index
      BY <1>1, <1>2, <1>3
    <3>2. \A i \in DOMAIN policy.models : Passes(i)' <=> Passes(i)
      BY Zenon, <1>1 DEF Passes
    <3> QED BY Zenon, <1>1, <3>1, <3>2 DEF Ranked
  <2> QED BY Zenon, <1>1, <1>2, <2>1, <2>2 DEF IInv, RegistersOK, locals
<1> QED BY Zenon, <1>10, <1>11, <1>12, <1>13 DEF IInv

\* The caller takes the decision.
LEMMA ReturnKeeps ==
  ASSUME KernelAssumption, DecisionAssumption, IInv, Return
  PROVE  IInv'
<1>1. /\ input' = None /\ index' = 0 /\ decision' = None /\ best' = None /\ second' = None
      /\ eligible' = 0 /\ rejected' = NoRejections /\ UNCHANGED <<policy, trusted>>
  BY Zenon DEF Return
<1>2. 0 \in U16
  BY DEF KernelAssumption, U16
<1>3. TypeOK' /\ PolicyOK'
  <2>1. rejected' \in [Counters -> U16]
    BY Zenon, <1>1, <1>2 DEF NoRejections
  <2>2. TypeOK'
    BY Zenon, <1>1, <1>2, <2>1 DEF IInv, TypeOK
  <2> QED BY Zenon, <1>1, <2>2 DEF IInv, PolicyOK
<1>4. Phases' /\ RegistersOK' /\ DecisionOK'
  BY <1>1 DEF Phases, RegistersOK, DecisionOK
<1> QED BY Zenon, <1>3, <1>4 DEF IInv

\* A stuttering step.
LEMMA StutterKeeps ==
  ASSUME IInv, UNCHANGED vars
  PROVE  IInv'
<1>1. TypeOK' /\ PolicyOK'
  BY Zenon DEF IInv, TypeOK, PolicyOK, vars, locals
<1>2. Phases' /\ DecisionOK'
  BY Zenon DEF IInv, Phases, DecisionOK, vars, locals
<1>3. RegistersOK'
  <2>1. CandidateOf' = CandidateOf /\ Ranked' = Ranked
    BY Zenon DEF CandidateOf, Ranked, Passes, vars, locals
  <2> QED BY Zenon, <2>1 DEF IInv, RegistersOK, vars, locals
<1> QED BY Zenon, <1>1, <1>2, <1>3 DEF IInv

\* The kernel's invariant: types, validated policies with true maxima, and registers that hold the
\* best two of the candidates the walk of prescribe_inner has seen.
THEOREM WalkInvariant == Spec => []IInv
<1>1. Init => IInv
  BY Zenon, InitEstablishes, KernelAssumption, DecisionAssumption
<1>2. IInv /\ [Next]_vars => IInv'
  <2> SUFFICES ASSUME IInv, [Next]_vars PROVE IInv'
    BY Zenon
  <2>1. CASE UNCHANGED vars
    BY Zenon, <2>1, StutterKeeps
  <2>2. CASE \E t \in BOOLEAN : \E settings \in Settings(t), models \in Catalogs(t) :
               NewPolicy(settings, models, t)
    BY Zenon, <2>2, NewPolicyKeeps, KernelAssumption, DecisionAssumption
  <2>3. CASE \E r \in Inputs(trusted) : Prescribe(r)
    BY Zenon, <2>3, PrescribeKeeps, KernelAssumption, DecisionAssumption
  <2>4. CASE Consider
    BY Zenon, <2>4, ConsiderKeeps, KernelAssumption, DecisionAssumption
  <2>5. CASE Decide
    BY Zenon, <2>5, DecideKeeps, KernelAssumption, DecisionAssumption
  <2>6. CASE Return
    BY Zenon, <2>6, ReturnKeeps, KernelAssumption, DecisionAssumption
  <2> QED BY Zenon, <2>1, <2>2, <2>3, <2>4, <2>5, <2>6 DEF Next
<1> QED BY <1>1, <1>2, PTL DEF Spec

-----------------------------------------------------------------------------
\* Prices.

\* Pricing: the cost and the utility of every model of a policy are the exact ones, limited to
\* their widths.
LEMMA PricedExactly ==
  ASSUME KernelAssumption, IInv, input # None, NEW i \in DOMAIN policy.models, NEW m, m = policy.models[i]
  PROVE  /\ ExactCost(m, input) \in Nat
         /\ Cost(policy, m, input) = ModelCostReference(m, input)
         /\ Utility(policy, m, input) = ClampToI64(ExactUtility(m, input, ModelCostReference(m, input)))
         /\ \A c \in Int :
              /\ ExactUtility(m, input, c) \in Int
              /\ ExactUtility(m, input, c)
                   <= ScaledTermReference(Value(input), input.confidence, m.quality) - c
<1>1. policy \in PolicySnapshot /\ input \in KernelInput /\ Bounded(policy)
  BY Zenon DEF IInv, TypeOK, PolicyOK, Phases
<1>2. /\ ExactCost(m, input) \in Nat
      /\ Cost(policy, m, input) = ModelCostReference(m, input)
      /\ QualityAdjusted(policy, m, input) = ScaledTermReference(Value(input), input.confidence, m.quality)
      /\ QualityAdjusted(policy, m, input) \in Nat
      /\ RiskPenalty(policy, input) \in Nat
      /\ LatencyPenalty(policy, m) = m.latency * policy.settings.latencyPenalty
      /\ LatencyPenalty(policy, m) \in Nat
  BY Zenon, <1>1, ExactTerms
<1>3. \A c : ExactUtility(m, input, c) =
               QualityAdjusted(policy, m, input) - RiskPenalty(policy, input) - c - LatencyPenalty(policy, m)
  BY Zenon, <1>2 DEF ExactUtility, RiskPenalty
<1>4. Utility(policy, m, input) = ClampToI64(ExactUtility(m, input, ModelCostReference(m, input)))
  BY Zenon, <1>2, <1>3 DEF Utility
<1>5. ASSUME NEW c \in Int
      PROVE  /\ ExactUtility(m, input, c) \in Int
             /\ ExactUtility(m, input, c) <= QualityAdjusted(policy, m, input) - c
  BY <1>2, <1>3
<1> QED BY Zenon, <1>2, <1>4, <1>5

\* Whichever path Pricing takes, no product of a catalog that it computes in u64 has wrapped.
THEOREM Prices == Spec => []PricesAreExact
<1>1. IInv => PricesAreExact
  <2> SUFFICES ASSUME IInv, index > 0, NEW i \in DOMAIN policy.models
               PROVE  LET m == policy.models[i]
                      IN  /\ Cost(policy, m, input) = ModelCostReference(m, input)
                          /\ Utility(policy, m, input) =
                               ClampToI64(ExactUtility(m, input, ModelCostReference(m, input)))
    BY Zenon DEF PricesAreExact
  <2>1. input # None
    BY DEF IInv, Phases
  <2> QED BY Zenon, <2>1, PricedExactly, KernelAssumption
<1> QED BY <1>1, WalkInvariant, PTL

-----------------------------------------------------------------------------
\* The selected model.

\* A utility below the upper limit keeps its sign, and its value when it is positive.
LEMMA ClampKeepsPositive ==
  ASSUME KernelAssumption, NEW n \in Int, n <= MaxI64
  PROVE  /\ ClampToI64(n) > 0 <=> n > 0
         /\ n > 0 => ClampToI64(n) = n
<1>1. MaxI64 \in Nat
  BY Zenon DEF KernelAssumption
<1>2. Min({n, MaxI64}) = n
  BY <1>1, MinOfTwo
<1>3. ClampToI64(n) = IF -MaxI64 - 1 >= n THEN -MaxI64 - 1 ELSE n
  BY <1>1, <1>2, MaxOfTwo DEF ClampToI64
<1> QED BY <1>1, <1>3

\* The value of a valid request, scaled by confidence and quality, is at most its value.
LEMMA ScaledValueFits ==
  ASSUME KernelAssumption, DecisionAssumption, IInv, input # None, ValidInput(input),
         NEW i \in DOMAIN policy.models, NEW m, m = policy.models[i]
  PROVE  ScaledTermReference(Value(input), input.confidence, m.quality) <= MaxI64
<1>1. policy # None /\ policy \in PolicySnapshot /\ input \in KernelInput
  BY Zenon DEF IInv, TypeOK, PolicyOK, Phases
<1>2. MaxI64 \in Nat /\ BasisPoints \in Nat \ {0} /\ MaxU16 \in Nat
  BY Zenon DEF KernelAssumption
<1>3. m \in KernelModel
  BY <1>1 DEF PolicySnapshot
<1>4. m.quality \in Nat /\ m.quality <= BasisPoints
  <2>1. m.quality \in U16
    BY Zenon, <1>3 DEF KernelModel
  <2> QED BY <1>1, <1>2, <2>1 DEF U16, IInv, PolicyOK, Valid
<1>5. input.confidence \in Nat /\ input.confidence <= BasisPoints
  BY <1>2 DEF ValidInput
<1>6. Value(input) \in Nat /\ Value(input) <= MaxI64
  <2>1. input.value \in I64
    BY Zenon, <1>1 DEF KernelInput
  <2>2. input.value \in Int /\ input.value <= MaxI64
    BY <1>2, <2>1 DEF I64
  <2> QED BY <1>2, <2>2, MaxOfTwo DEF Value
<1> DEFINE v == Value(input)
           c == input.confidence
           q == m.quality
<1> HIDE DEF v, c, q
<1>7. /\ v \in Nat /\ v <= MaxI64 /\ c \in Nat /\ c <= BasisPoints /\ q \in Nat /\ q <= BasisPoints
  BY Zenon, <1>4, <1>5, <1>6 DEF v, c, q
<1>8. v * c \in Nat /\ v * BasisPoints \in Nat /\ v * c <= v * BasisPoints
  BY Zenon, <1>2, <1>7, MulMonotone
<1>9. v * c * q \in Nat /\ v * c * q <= v * c * BasisPoints
  BY Zenon, <1>2, <1>7, <1>8, MulMonotone
<1>10. BasisPoints * (v * c) <= BasisPoints * (v * BasisPoints)
  BY Zenon, <1>2, <1>8, MulMonotone
<1>11. v * c * q <= v * (BasisPoints * BasisPoints)
  BY <1>2, <1>7, <1>9, <1>10
<1>12. BasisPoints * BasisPoints \in Nat \ {0}
  BY <1>2
<1>13. (v * c * q) \div (BasisPoints * BasisPoints) <= v
  BY Zenon, <1>7, <1>9, <1>11, <1>12, DivBound
<1>14. (v * c * q) \div (BasisPoints * BasisPoints) \in Nat
  BY Zenon, <1>9, <1>12, DivNat
<1>15. ScaledTermReference(v, c, q) <= MaxI64
  BY <1>2, <1>7, <1>13, <1>14 DEF ScaledTermReference, ScaledBasisPoints
<1> QED BY Zenon, <1>15 DEF v, c, q

\* For a valid request the walk ranks exactly the eligible models, by their exact prices.
LEMMA RanksEligible ==
  ASSUME KernelAssumption, DecisionAssumption, IInv, input # None, ValidInput(input),
         NEW i \in DOMAIN policy.models
  PROVE  /\ Passes(i) <=> i \in Eligible
         /\ i \in Eligible =>
              /\ CandidateOf[i].cost = ExactCost(policy.models[i], input)
              /\ CandidateOf[i].utility =
                   ExactUtility(policy.models[i], input, ExactCost(policy.models[i], input))
              /\ CandidateOf[i].quality = policy.models[i].quality
              /\ CandidateOf[i].id = IdAt(i)
<1> DEFINE m == policy.models[i]
           exact == ExactCost(m, input)
           gates == \A gate \in Range(GateOrder) : ~Fails(gate, m, input)
           scaled == ScaledTermReference(Value(input), input.confidence, m.quality)
<1>1. MaxI64 \in Nat /\ MaxU64 \in Nat /\ MaxI64 <= MaxU64
  BY Zenon DEF KernelAssumption, DecisionAssumption
<1>2. input.budget \in Nat /\ input.budget <= MaxU64
  <2>1. input.budget \in U64
    BY Zenon DEF IInv, TypeOK, KernelInput
  <2> QED BY <1>1, <2>1 DEF U64
<1>3. /\ exact \in Nat
      /\ Cost(policy, m, input) = ModelCostReference(m, input)
      /\ Utility(policy, m, input) = ClampToI64(ExactUtility(m, input, ModelCostReference(m, input)))
  BY Zenon, PricedExactly
<1>d. \A c \in Int : ExactUtility(m, input, c) \in Int /\ ExactUtility(m, input, c) <= scaled - c
  BY Zenon, PricedExactly
<1>4. scaled <= MaxI64
  BY Zenon, ScaledValueFits
<1>5. scaled \in Int
  <2>1. policy \in PolicySnapshot /\ Bounded(policy) /\ input \in KernelInput
    BY Zenon DEF IInv, TypeOK, PolicyOK, Phases
  <2> QED BY <2>1, ExactTerms
<1>6. FirstFailedGate(m, input) = None <=> gates
  BY Zenon, GateNamed
<1>7. ModelCostReference(m, input) = IF exact <= MaxU64 THEN exact ELSE MaxU64
  <2>1. exact \in Nat
    BY Zenon, <1>3
  <2> QED BY <1>1, <2>1, MinOfTwo DEF ModelCostReference
<1>8. Passes(i) <=> gates /\ Cost(policy, m, input) <= input.budget /\ Utility(policy, m, input) > 0
  BY Zenon, <1>6 DEF Passes
<1>9. i \in Eligible <=> gates /\ exact <= input.budget /\ ExactUtility(m, input, exact) > 0
  BY Zenon DEF Eligible
<1> HIDE DEF gates
<1>10. CandidateOf[i] = [id |-> m.id, index |-> IndexU16(i - 1), quality |-> m.quality,
                         cost |-> Cost(policy, m, input), utility |-> Utility(policy, m, input)]
  BY Zenon DEF CandidateOf
<1>11. CandidateOf[i].quality = m.quality /\ CandidateOf[i].id = IdAt(i)
       /\ CandidateOf[i].cost = Cost(policy, m, input) /\ CandidateOf[i].utility = Utility(policy, m, input)
  BY <1>10 DEF IdAt
<1> HIDE DEF m, exact, scaled
<1>a. exact \in Nat
  BY Zenon, <1>3
<1>b. ASSUME NEW c \in Nat
      PROVE  ExactUtility(m, input, c) \in Int /\ ExactUtility(m, input, c) <= MaxI64 - c
  <2>1. ExactUtility(m, input, c) \in Int /\ ExactUtility(m, input, c) <= scaled - c
    BY <1>d
  <2> QED BY <1>1, <1>4, <1>5, <2>1
<1>c. Utility(policy, m, input) = ClampToI64(ExactUtility(m, input, ModelCostReference(m, input)))
  BY Zenon, <1>3
<1>12. CASE exact <= MaxU64
  <2>1. ModelCostReference(m, input) = exact
    BY Zenon, <1>7, <1>12
  <2>2. ExactUtility(m, input, exact) \in Int /\ ExactUtility(m, input, exact) <= MaxI64
    <3>1. ExactUtility(m, input, exact) \in Int /\ ExactUtility(m, input, exact) <= MaxI64 - exact
      BY Zenon, <1>a, <1>b
    <3> QED BY <1>1, <1>a, <3>1
  <2>3. /\ Utility(policy, m, input) > 0 <=> ExactUtility(m, input, exact) > 0
        /\ ExactUtility(m, input, exact) > 0 => Utility(policy, m, input) = ExactUtility(m, input, exact)
    BY <1>c, <2>1, <2>2, ClampKeepsPositive
  <2> QED BY Zenon, <1>3, <1>8, <1>9, <1>11, <2>1, <2>3 DEF m, exact
<1>13. CASE exact > MaxU64
  <2>1. i \notin Eligible
    BY <1>1, <1>2, <1>a, <1>9, <1>13
  <2>2. ModelCostReference(m, input) = MaxU64
    BY <1>1, <1>a, <1>7, <1>13
  <2>3. ExactUtility(m, input, MaxU64) \in Int /\ ExactUtility(m, input, MaxU64) <= 0
    <3>1. ExactUtility(m, input, MaxU64) \in Int /\ ExactUtility(m, input, MaxU64) <= MaxI64 - MaxU64
      BY Zenon, <1>1, <1>b
    <3> QED BY <1>1, <3>1
  <2>4. ~(Utility(policy, m, input) > 0)
    <3>1. ExactUtility(m, input, MaxU64) <= MaxI64 /\ ~(ExactUtility(m, input, MaxU64) > 0)
      BY <1>1, <2>3
    <3> QED BY <1>c, <2>2, <2>3, <3>1, ClampKeepsPositive
  <2> QED BY Zenon, <1>8, <2>1, <2>4
<1> QED BY <1>1, <1>a, <1>12, <1>13

\* The order of the walk on eligible models is the documented one.
LEMMA BetterByExactPrices ==
  ASSUME KernelAssumption, DecisionAssumption, IInv, input # None, ValidInput(input),
         NEW i \in Eligible, NEW j \in Eligible, CandidateBetter(CandidateOf[i], CandidateOf[j])
  PROVE  Better(i, j)
<1> DEFINE Key(k) == LET m == policy.models[k]
                     IN  <<-ExactUtility(m, input, ExactCost(m, input)), ExactCost(m, input),
                           -m.quality, m.id>>
<1>1. i \in DOMAIN policy.models /\ j \in DOMAIN policy.models
  BY Zenon DEF Eligible
<1>2. policy # None
  BY Zenon DEF IInv, Phases
<1>3. ASSUME NEW k \in Eligible
      PROVE  /\ CandidateOf[k] \in Candidate
             /\ Key(k) = <<-CandidateOf[k].utility, CandidateOf[k].cost, -CandidateOf[k].quality, CandidateOf[k].id>>
  <2>1. k \in DOMAIN policy.models
    BY Zenon DEF Eligible
  <2>2. CandidateOf[k] \in Candidate
    BY Zenon, <1>2, <2>1, CandidatesTyped DEF IInv
  <2> QED BY Zenon, <2>1, <2>2, RanksEligible DEF IdAt
<1> DEFINE a == CandidateOf[i]
           b == CandidateOf[j]
<1>4. a \in Candidate /\ b \in Candidate
  BY Zenon, <1>3
<1>5. /\ Key(i)[1] = -a.utility /\ Key(i)[2] = a.cost /\ Key(i)[3] = -a.quality /\ Key(i)[4] = a.id
      /\ Key(j)[1] = -b.utility /\ Key(j)[2] = b.cost /\ Key(j)[3] = -b.quality /\ Key(j)[4] = b.id
  BY Zenon, <1>3
<1>6. Better(i, j) <=> \E n \in 1..4 : /\ Key(i)[n] < Key(j)[n]
                                       /\ \A l \in 1..(n - 1) : Key(i)[l] = Key(j)[l]
  BY Zenon DEF Better
<1> HIDE DEF Key, a, b
<1>7. /\ a.utility \in Int /\ a.cost \in Int /\ a.quality \in Int /\ a.id \in Int
      /\ b.utility \in Int /\ b.cost \in Int /\ b.quality \in Int /\ b.id \in Int
  BY <1>4 DEF Candidate, U16, U64, I64
<1>8. CandidateBetter(a, b)
  BY Zenon DEF a, b
<1>9. CASE a.utility > b.utility
  <2>1. Key(i)[1] < Key(j)[1] /\ \A l \in 1..(1 - 1) : Key(i)[l] = Key(j)[l]
    <3>1. -a.utility < -b.utility
      BY <1>7, <1>9
    <3>2. Key(i)[1] < Key(j)[1]
      BY Zenon, <1>5, <3>1
    <3>3. 1..(1 - 1) = {}
      OBVIOUS
    <3> QED BY Zenon, <3>2, <3>3
  <2> QED BY <1>6, <2>1
<1>10. CASE a.utility = b.utility /\ a.cost < b.cost
  <2>1. Key(i)[2] < Key(j)[2] /\ \A l \in 1..(2 - 1) : Key(i)[l] = Key(j)[l]
    <3>1. \A l \in 1..(2 - 1) : l = 1
      OBVIOUS
    <3>2. Key(i)[1] = Key(j)[1] /\ Key(i)[2] < Key(j)[2]
      BY Zenon, <1>5, <1>10
    <3> QED BY Zenon, <3>1, <3>2
  <2> QED BY <1>6, <2>1
<1>11. CASE a.utility = b.utility /\ a.cost = b.cost /\ a.quality > b.quality
  <2>1. Key(i)[3] < Key(j)[3] /\ \A l \in 1..(3 - 1) : Key(i)[l] = Key(j)[l]
    <3>1. \A l \in 1..(3 - 1) : l = 1 \/ l = 2
      OBVIOUS
    <3>2. Key(i)[1] = Key(j)[1] /\ Key(i)[2] = Key(j)[2]
      BY Zenon, <1>5, <1>11
    <3>3. -a.quality < -b.quality
      BY <1>7, <1>11
    <3>4. Key(i)[3] < Key(j)[3]
      BY Zenon, <1>5, <3>3
    <3> QED BY Zenon, <3>1, <3>2, <3>4
  <2> QED BY <1>6, <2>1
<1>12. CASE a.utility = b.utility /\ a.cost = b.cost /\ a.quality = b.quality /\ a.id < b.id
  <2>1. Key(i)[4] < Key(j)[4] /\ \A l \in 1..(4 - 1) : Key(i)[l] = Key(j)[l]
    <3>1. \A l \in 1..(4 - 1) : l = 1 \/ l = 2 \/ l = 3
      OBVIOUS
    <3>2. /\ Key(i)[1] = Key(j)[1] /\ Key(i)[2] = Key(j)[2] /\ Key(i)[3] = Key(j)[3]
          /\ Key(i)[4] < Key(j)[4]
      BY Zenon, <1>5, <1>12
    <3> QED BY Zenon, <3>1, <3>2
  <2> QED BY <1>6, <2>1
<1> QED BY Zenon, <1>8, <1>9, <1>10, <1>11, <1>12 DEF CandidateBetter

\* A decided request: the walk has seen every candidate.
LEMMA DecidedFromAll ==
  ASSUME KernelAssumption, DecisionAssumption, IInv, decision # None,
         HardLimit(policy, input) = None
  PROVE  /\ input # None /\ policy # None
         /\ Ranked = {i \in DOMAIN policy.models : Passes(i)}
         /\ BestTwo(CandidateOf, Ranked, best, second)
         /\ CandidateOf \in [DOMAIN policy.models -> Candidate]
         /\ None \notin Candidate
<1>1. input # None /\ policy # None /\ index = 0
  BY DEF IInv, TypeOK, Phases
<1>2. Ranked = {i \in DOMAIN policy.models : Passes(i)}
  BY Zenon, <1>1 DEF Ranked
<1>3. BestTwo(CandidateOf, Ranked, best, second)
  BY Zenon, <1>1 DEF IInv, RegistersOK
<1>4. CandidateOf \in [DOMAIN policy.models -> Candidate]
  BY Zenon, <1>1, CandidatesTyped DEF IInv
<1> QED BY Zenon, <1>1, <1>2, <1>3, <1>4 DEF DecisionAssumption

\* prescribe_checked: for every catalog and every valid request past the hard limits, the selected
\* model is the best of the eligible ones by exact prices and the counterfactual the best of the
\* others; the request is rejected exactly when there is none.
THEOREM Selection == Spec => []SelectionIsBest
<1>1. IInv => SelectionIsBest
  <2> SUFFICES ASSUME IInv, decision # None, HardLimit(policy, input) = None, ValidInput(input)
               PROVE  IF Eligible = {} THEN decision.action = "Reject"
                      ELSE \E i \in Eligible :
                             /\ decision.action # "Reject" /\ decision.selected = IdAt(i)
                             /\ \A j \in Eligible \ {i} : Better(i, j)
                             /\ IF Eligible = {i} THEN decision.counterfactual = 0
                                ELSE \E j \in Eligible \ {i} :
                                       /\ decision.counterfactual = IdAt(j)
                                       /\ \A k \in Eligible \ {i, j} : Better(j, k)
    BY Zenon DEF SelectionIsBest
  <2>1. /\ input # None /\ policy # None
        /\ Ranked = {i \in DOMAIN policy.models : Passes(i)}
        /\ BestTwo(CandidateOf, Ranked, best, second)
        /\ CandidateOf \in [DOMAIN policy.models -> Candidate]
        /\ None \notin Candidate
    BY Zenon, DecidedFromAll, KernelAssumption, DecisionAssumption
  <2>2. \A i \in DOMAIN policy.models : Passes(i) <=> i \in Eligible
    BY Zenon, <2>1, RanksEligible, KernelAssumption, DecisionAssumption
  <2>3. Eligible \subseteq DOMAIN policy.models
    BY Zenon DEF Eligible
  <2>4. Ranked = Eligible
    BY Zenon, <2>1, <2>2, <2>3
  <2>5. BestTwo(CandidateOf, Eligible, best, second)
    BY Zenon, <2>1, <2>4
  <2>6. \A i \in Eligible : CandidateOf[i] \in Candidate /\ CandidateOf[i] # None /\ CandidateOf[i].id = IdAt(i)
    BY Zenon, <2>1, <2>3, RanksEligible, KernelAssumption, DecisionAssumption
  <2>7. \A i, j \in Eligible : CandidateBetter(CandidateOf[i], CandidateOf[j]) => Better(i, j)
    BY Zenon, <2>1, BetterByExactPrices, KernelAssumption, DecisionAssumption
  <2>8. CASE Eligible = {}
    <3>1. best = None
      BY Zenon, <2>5, <2>8 DEF BestTwo
    <3> QED BY Zenon, <2>8, <3>1 DEF IInv, DecisionOK
  <2>9. CASE Eligible # {}
    <3>1. PICK i \in Eligible :
            /\ best = CandidateOf[i] /\ \A j \in Eligible \ {i} : CandidateBetter(CandidateOf[i], CandidateOf[j])
            /\ IF Eligible = {i} THEN second = None
               ELSE \E j \in Eligible \ {i} :
                      /\ second = CandidateOf[j]
                      /\ \A k \in Eligible \ {i, j} : CandidateBetter(CandidateOf[j], CandidateOf[k])
      BY Zenon, <2>5, <2>9 DEF BestTwo
    <3>2. best # None
      BY Zenon, <2>6, <3>1
    <3>3. /\ decision.action # "Reject" /\ decision.selected = best.id
          /\ decision.counterfactual = IF second = None THEN 0 ELSE second.id
      BY Zenon, <3>2 DEF IInv, DecisionOK
    <3>4. decision.selected = IdAt(i) /\ \A j \in Eligible \ {i} : Better(i, j)
      BY Zenon, <2>6, <2>7, <3>1, <3>3
    <3>5. CASE Eligible = {i}
      BY Zenon, <2>9, <3>1, <3>3, <3>4, <3>5
    <3>6. CASE Eligible # {i}
      <4>1. PICK j \in Eligible \ {i} :
              /\ second = CandidateOf[j]
              /\ \A k \in Eligible \ {i, j} : CandidateBetter(CandidateOf[j], CandidateOf[k])
        BY Zenon, <3>1, <3>6
      <4>2. second # None /\ decision.counterfactual = IdAt(j)
        BY Zenon, <2>6, <3>3, <4>1
      <4>3. \A k \in Eligible \ {i, j} : Better(j, k)
        BY Zenon, <2>7, <4>1
      <4> QED BY Zenon, <2>9, <3>3, <3>4, <3>6, <4>1, <4>2, <4>3
    <3> QED BY Zenon, <3>5, <3>6
  <2> QED BY Zenon, <2>8, <2>9
<1> QED BY <1>1, WalkInvariant, PTL

\* try_new_trusted: a trusted policy's decision selects model 0, at the last index, exactly when it
\* rejects, and otherwise the model at the index it gives.
THEOREM Recognisable == Spec => []RejectionIsRecognisable
<1>1. IInv => RejectionIsRecognisable
  <2> SUFFICES ASSUME IInv, trusted, decision # None
               PROVE  /\ decision.action = "Reject" <=> decision.selected = 0
                      /\ decision.action = "Reject" <=> decision.index = MaxU16
                      /\ decision.action # "Reject" => IdAt(decision.index + 1) = decision.selected
    BY Zenon DEF RejectionIsRecognisable
  <2>1. CASE HardLimit(policy, input) # None \/ best = None
    BY Zenon, <2>1 DEF IInv, DecisionOK
  <2>2. CASE HardLimit(policy, input) = None /\ best # None
    <3>1. decision.action # "Reject" /\ decision.selected = best.id /\ decision.index = best.index
      BY Zenon, <2>2 DEF IInv, DecisionOK
    <3>2. PICK i \in DOMAIN policy.models : best = CandidateOf[i]
      BY Zenon, <2>2, DecidedFromAll, KernelAssumption, DecisionAssumption DEF BestTwo
    <3>3. policy # None
      BY Zenon, <2>2, DecidedFromAll, KernelAssumption, DecisionAssumption
    <3>4. policy.models \in Seq(KernelModel) /\ MaxU16 \in Nat
      BY Zenon, <3>3, KernelAssumption DEF IInv, TypeOK, PolicySnapshot, KernelAssumption
    <3>5. Len(policy.models) <= MaxU16 /\ policy.models[i].id # 0
      BY Zenon, <3>3 DEF IInv, PolicyOK, MayTrust
    <3>6. i - 1 \in Nat /\ i - 1 < MaxU16 /\ i - 1 + 1 = i
      BY <3>4, <3>5
    <3>7. best.id = policy.models[i].id /\ best.index = IndexU16(i - 1)
      BY Zenon, <3>2 DEF CandidateOf
    <3>8. IndexU16(i - 1) = i - 1
      BY <3>4, <3>6, MinOfTwo DEF IndexU16
    <3> QED BY <3>1, <3>4, <3>5, <3>6, <3>7, <3>8 DEF IdAt
  <2> QED BY Zenon, <2>1, <2>2
<1> QED BY <1>1, WalkInvariant, PTL

-----------------------------------------------------------------------------
\* Explanations.

\* The gate that first_failed_gate names is one that the candidate fails.
LEMMA NamedGateFails ==
  ASSUME NEW m, NEW r, FirstFailedGate(m, r) # None
  PROVE  FirstFailedGate(m, r) \in GateKind /\ Fails(FirstFailedGate(m, r), m, r)
<1> DEFINE failed == {i \in DOMAIN GateOrder : Fails(GateOrder[i], m, r)}
<1>1. DOMAIN GateOrder = 1..8 /\ \A i \in 1..8 : GateOrder[i] \in GateKind
  BY DEF GateOrder, GateKind
<1>2. FirstFailedGate(m, r) = IF failed = {} THEN None ELSE GateOrder[Min(failed)]
  BY Zenon DEF FirstFailedGate
<1>3. failed \in SUBSET Nat
  BY <1>1
<1>4. failed # {}
  BY Zenon, <1>2
<1>5. Min(failed) \in failed
  <2> HIDE DEF failed
  <2>1. \E x \in failed : \A y \in failed : x <= y
    BY Zenon, <1>3, <1>4, SmallestNat
  <2> QED BY Zenon, <2>1 DEF Min
<1> QED BY Zenon, <1>1, <1>2, <1>4, <1>5

\* What is asked of the numbers of a verdict, by its kind.
LEMMA BearsByKind ==
  ASSUME NEW v
  PROVE  /\ v.kind \in {"disabled", "quality"} /\ v.measured < v.limit => Bears(v)
         /\ v.kind \in {"latency", "risk_ceiling", "budget", "eligible"} /\ v.measured > v.limit => Bears(v)
         /\ v.kind = "capability" /\ ~(v.limit \subseteq v.measured) => Bears(v)
         /\ v.kind = "provider" /\ v.measured \notin v.limit => Bears(v)
         /\ v.kind = "region" /\ v.measured \cap v.limit = {} => Bears(v)
         /\ v.kind = "utility" /\ v.measured <= v.limit => Bears(v)
BY Zenon DEF Bears

\* The numbers of a verdict bear it out, when the provider has a bit in the masks.
LEMMA VerdictBears ==
  ASSUME DecisionAssumption, NEW p, NEW m, NEW r, ~(m.provider > MaxProviderId),
         Cost(p, m, r) \in Int, r.budget \in Int, Utility(p, m, r) \in Int
  PROVE  Bears(Verdict(p, m, r))
<1> DEFINE gate == FirstFailedGate(m, r)
           compared == GateDetail(gate, m, r)
           v == Verdict(p, m, r)
<1>1. ASSUME gate # None, NEW w, w = v PROVE Bears(w)
  <2>1. gate \in GateKind /\ Fails(gate, m, r)
    BY Zenon, <1>1, NamedGateFails
  <2>2. w.kind = Counter(gate) /\ w.measured = compared[1] /\ w.limit = compared[2]
    BY Zenon, <1>1 DEF Verdict
  <2>3. CASE gate = "Disabled"
    <3>1. w.kind = "disabled" /\ w.measured = 0 /\ w.limit = 1
      BY <2>2, <2>3 DEF Counter, GateDetail
    <3> QED BY <3>1, BearsByKind
  <2>4. CASE gate = "Quality"
    <3>1. w.kind = "quality" /\ w.measured = m.quality /\ w.limit = r.minQuality
      BY <2>2, <2>4 DEF Counter, GateDetail
    <3>2. m.quality < r.minQuality
      BY Zenon, <2>1, <2>4 DEF Fails
    <3> QED BY Zenon, <3>1, <3>2, BearsByKind
  <2>5. CASE gate = "Latency"
    <3>1. w.kind = "latency" /\ w.measured = m.latency /\ w.limit = r.maxLatency
      BY <2>2, <2>5 DEF Counter, GateDetail
    <3>2. m.latency > r.maxLatency
      BY Zenon, <2>1, <2>5 DEF Fails
    <3> QED BY Zenon, <3>1, <3>2, BearsByKind
  <2>6. CASE gate = "Capability"
    <3>1. w.kind = "capability" /\ w.measured = m.capabilities /\ w.limit = r.capabilities
      BY <2>2, <2>6 DEF Counter, GateDetail
    <3>2. ~(r.capabilities \subseteq m.capabilities)
      BY Zenon, <2>1, <2>6 DEF Fails
    <3> QED BY Zenon, <3>1, <3>2, BearsByKind
  <2>7. CASE gate = "ProviderUnrepresentable"
    BY Zenon, <2>1, <2>7 DEF Fails
  <2>8. CASE gate = "ProviderNotAllowed"
    <3>1. w.kind = "provider" /\ w.measured = m.provider /\ w.limit = r.providers
      BY <2>2, <2>8 DEF Counter, GateDetail
    <3>2. m.provider \notin r.providers
      BY Zenon, <2>1, <2>8 DEF Fails
    <3> QED BY Zenon, <3>1, <3>2, BearsByKind
  <2>9. CASE gate = "Region"
    <3>1. w.kind = "region" /\ w.measured = m.regions /\ w.limit = r.regions
      BY <2>2, <2>9 DEF Counter, GateDetail
    <3>2. m.regions \cap r.regions = {}
      BY Zenon, <2>1, <2>9 DEF Fails
    <3> QED BY Zenon, <3>1, <3>2, BearsByKind
  <2>10. CASE gate = "RiskCeiling"
    <3>1. w.kind = "risk_ceiling" /\ w.measured = r.risk /\ w.limit = m.ceiling
      BY <2>2, <2>10 DEF Counter, GateDetail
    <3>2. r.risk > m.ceiling
      BY Zenon, <2>1, <2>10 DEF Fails
    <3> QED BY Zenon, <3>1, <3>2, BearsByKind
  <2> QED BY Zenon, <2>1, <2>3, <2>4, <2>5, <2>6, <2>7, <2>8, <2>9, <2>10 DEF GateKind
<1>2. CASE gate = None /\ Cost(p, m, r) > r.budget
  <2>1. v.kind = "budget" /\ v.measured = Cost(p, m, r) /\ v.limit = r.budget
    BY Zenon, <1>2 DEF Verdict
  <2> QED BY Zenon, <1>2, <2>1, BearsByKind
<1>3. CASE gate = None /\ ~(Cost(p, m, r) > r.budget)
  <2>1. /\ v.kind = IF Utility(p, m, r) <= 0 THEN "utility" ELSE "eligible"
        /\ v.measured = Utility(p, m, r) /\ v.limit = 0
    BY Zenon, <1>3 DEF Verdict
  <2>2. Utility(p, m, r) <= 0 \/ Utility(p, m, r) > 0
    OBVIOUS
  <2> QED BY Zenon, <2>1, <2>2, BearsByKind
<1> QED BY Zenon, <1>1, <1>2, <1>3

\* dominant_rejection_reason names a counter that none exceeds.
LEMMA DominantIsLargest ==
  ASSUME KernelAssumption, NEW counts \in [Counters -> U16]
  PROVE  \A c \in Counters : counts[c] <= counts[DominantRejectionReason(counts)]
<1> DEFINE Largest(i) == \A j \in DOMAIN ReasonOrder : counts[ReasonOrder[j]] <= counts[ReasonOrder[i]]
           largest == {i \in DOMAIN ReasonOrder : Largest(i)}
           S == {counts[c] : c \in Counters}
           last == ReasonOrder[Max(largest)]
<1>1. DOMAIN ReasonOrder = 1..9 /\ \A i \in 1..9 : ReasonOrder[i] \in Counters
  BY DEF ReasonOrder, Counters
<1>2. \A c \in Counters : \E i \in 1..9 : ReasonOrder[i] = c
  BY DEF ReasonOrder, Counters
<1>3. MaxU16 \in Nat /\ S \in SUBSET (0..MaxU16) /\ S # {}
  BY Zenon DEF KernelAssumption, U16, Counters
<1>4. Max(S) \in S /\ \A x \in S : x <= Max(S)
  BY Zenon, <1>3, MaxOfBounded
<1>5. PICK i \in 1..9 : counts[ReasonOrder[i]] = Max(S)
  BY <1>2, <1>4
<1>6. i \in largest
  <2>1. \A j \in 1..9 : counts[ReasonOrder[j]] \in S
    BY Zenon, <1>1
  <2> QED BY Zenon, <1>1, <1>4, <1>5, <2>1
<1>7. largest \in SUBSET (0..9)
  BY <1>1
<1>8. Max(largest) \in largest
  <2> HIDE DEF largest
  <2> QED BY Zenon, <1>6, <1>7, MaxOfBounded
<1>9. last \in Counters /\ \A c \in Counters : counts[c] <= counts[last]
  BY Zenon, <1>1, <1>2, <1>8
<1>10. DominantRejectionReason(counts) = IF counts[last] > 0 THEN last ELSE "disabled"
  BY Zenon DEF DominantRejectionReason
<1>11. CASE counts[last] > 0
  BY Zenon, <1>9, <1>10, <1>11
<1>12. CASE ~(counts[last] > 0)
  <2> HIDE DEF last
  <2>1. \A c \in Counters : counts[c] \in Nat
    BY <1>3 DEF U16
  <2>2. "disabled" \in Counters /\ DominantRejectionReason(counts) = "disabled"
    BY Zenon, <1>10, <1>12 DEF Counters
  <2>3. \A c \in Counters : counts[c] = 0
    BY <1>9, <1>12, <2>1
  <2> QED BY <2>2, <2>3
<1> QED BY Zenon, <1>11, <1>12

-----------------------------------------------------------------------------
\* The counts of the walk.

\* The verdict of the candidate at a position.
Kind(i) == Verdict(policy, policy.models[i], input).kind

\* The candidates considered so far that explain gives a verdict.
Seen(v) == {i \in DOMAIN policy.models : (index = 0 \/ i < index) /\ Kind(i) = v}

Kinds == Counters \cup {"eligible"}

\* The count that the walk keeps for a verdict.
Count(v) == IF v = "eligible" THEN eligible ELSE rejected[v]

\* The walk has counted what it has seen: the counters neither saturate nor wrap.
CountsOK ==
  /\ input = None \/ HardLimit(policy, input) # None => eligible = 0 /\ rejected = NoRejections
  /\ trusted /\ input # None /\ HardLimit(policy, input) = None =>
       \A v \in Kinds : Count(v) = Cardinality(Seen(v))

\* A decision tells the price of the best candidate, or the reason that the counts give.
ToldOK ==
  decision # None /\ HardLimit(policy, input) = None =>
    IF best = None THEN decision.reason = DominantRejectionReason(rejected)
    ELSE decision.cost = best.cost /\ decision.utility = best.utility

TellInv == CountsOK /\ ToldOK

\* A counter below its limit counts one more.
LEMMA CountsOneMore ==
  ASSUME MaxU16 \in Nat, NEW n \in Nat, n < MaxU16
  PROVE  SaturatingInc(n) = n + 1 /\ WrappingInc(n) = n + 1
<1>1. SaturatingInc(n) = n + 1
  BY MinOfTwo DEF SaturatingInc
<1>2. WrappingInc(n) = n + 1
  BY DEF WrappingInc
<1> QED BY <1>1, <1>2

\* The verdict of a candidate is a counter or that it passes.
LEMMA KindIs ==
  ASSUME KernelAssumption, DecisionAssumption, NEW p, NEW m, NEW r,
         Cost(p, m, r) \in Int, r.budget \in Int, Utility(p, m, r) \in Int
  PROVE  /\ FirstFailedGate(m, r) # None => Verdict(p, m, r).kind = Counter(FirstFailedGate(m, r))
         /\ FirstFailedGate(m, r) = None /\ Cost(p, m, r) > r.budget => Verdict(p, m, r).kind = "budget"
         /\ FirstFailedGate(m, r) = None /\ Cost(p, m, r) <= r.budget /\ Utility(p, m, r) <= 0 =>
              Verdict(p, m, r).kind = "utility"
         /\ FirstFailedGate(m, r) = None /\ Cost(p, m, r) <= r.budget /\ Utility(p, m, r) > 0 =>
              Verdict(p, m, r).kind = "eligible"
         /\ Verdict(p, m, r).kind \in Kinds
         /\ Verdict(p, m, r).kind = "eligible" =>
              /\ FirstFailedGate(m, r) = None /\ Cost(p, m, r) <= r.budget /\ Utility(p, m, r) > 0
<1>1. /\ Cost(p, m, r) <= r.budget <=> ~(Cost(p, m, r) > r.budget)
      /\ Utility(p, m, r) > 0 <=> ~(Utility(p, m, r) <= 0)
  OBVIOUS
<1>2. FirstFailedGate(m, r) # None => Verdict(p, m, r).kind = Counter(FirstFailedGate(m, r))
  BY Zenon DEF Verdict
<1>3. FirstFailedGate(m, r) = None /\ Cost(p, m, r) > r.budget => Verdict(p, m, r).kind = "budget"
  BY Zenon DEF Verdict
<1>4. FirstFailedGate(m, r) = None /\ ~(Cost(p, m, r) > r.budget) =>
        Verdict(p, m, r).kind = IF Utility(p, m, r) <= 0 THEN "utility" ELSE "eligible"
  BY Zenon DEF Verdict
<1>5. FirstFailedGate(m, r) # None => Counter(FirstFailedGate(m, r)) \in Counters
  BY Zenon, GateNamed, GateCounted
<1>6. "eligible" \notin Counters /\ "budget" \in Counters /\ "utility" \in Counters
  BY Zenon DEF Counters
<1> QED BY Zenon, <1>1, <1>2, <1>3, <1>4, <1>5, <1>6 DEF Kinds

\* The prices of the candidates of a request.
LEMMA PricesTyped ==
  ASSUME IInv, input # None, NEW i \in DOMAIN policy.models
  PROVE  /\ Cost(policy, policy.models[i], input) \in Int /\ input.budget \in Int
         /\ Utility(policy, policy.models[i], input) \in Int
<1>1. policy # None
  BY Zenon DEF IInv, Phases
<1>2. CandidateOf \in [DOMAIN policy.models -> Candidate]
  BY Zenon, <1>1, CandidatesTyped, KernelAssumption DEF IInv
<1>3. CandidateOf[i].cost \in U64 /\ CandidateOf[i].utility \in I64
  BY Zenon, <1>2 DEF Candidate
<1>4. /\ CandidateOf[i].cost = Cost(policy, policy.models[i], input)
      /\ CandidateOf[i].utility = Utility(policy, policy.models[i], input)
  BY Zenon DEF CandidateOf
<1>5. input.budget \in U64
  BY Zenon DEF IInv, TypeOK, KernelInput
<1> QED BY <1>3, <1>4, <1>5 DEF U64, I64

\* The candidates seen with one verdict are as many as the walk is long, at most.
LEMMA SeenIsFinite ==
  ASSUME IInv, index > 0, NEW v
  PROVE  /\ IsFiniteSet(Seen(v)) /\ Cardinality(Seen(v)) \in Nat /\ Cardinality(Seen(v)) <= index - 1
         /\ index \notin Seen(v)
<1>1. index \in Nat
  BY Zenon DEF IInv, TypeOK
<1>2. policy # None
  BY <1>1 DEF IInv, Phases
<1>3. policy.models \in Seq(KernelModel)
  BY Zenon, <1>2 DEF IInv, TypeOK, PolicySnapshot
<1>4. Seen(v) \in SUBSET (1..(index - 1)) /\ index \notin Seen(v)
  BY <1>1, <1>3 DEF Seen
<1>5. IsFiniteSet(1..(index - 1)) /\ Cardinality(1..(index - 1)) = index - 1
  BY <1>1, FS_Interval
<1>6. IsFiniteSet(Seen(v)) /\ Cardinality(Seen(v)) <= index - 1
  BY Zenon, <1>4, <1>5, FS_Subset
<1>7. Cardinality(Seen(v)) \in Nat
  BY Zenon, <1>6, FS_CardinalityType
<1> QED BY Zenon, <1>4, <1>6, <1>7

\* A candidate that is considered is counted once, under its verdict.
LEMMA ConsiderCounts ==
  ASSUME IInv, TellInv, Consider
  PROVE  CountsOK'
<1>0. PICK k : k = Kind(index)
  BY Zenon
<1> DEFINE Counted == /\ \A v \in Kinds \ {k} : Count(v)' = Count(v)
                      /\ Count(k)' = SaturatingInc(Count(k)) \/ Count(k)' = WrappingInc(Count(k))
<1>1. /\ index > 0 /\ index <= Len(policy.models) /\ index' = index + 1
      /\ UNCHANGED <<policy, trusted, input, decision>>
  BY Zenon DEF Consider
<1>2. /\ index \in Nat /\ input # None /\ policy # None /\ HardLimit(policy, input) = None
  BY <1>1 DEF IInv, TypeOK, Phases
<1>3. policy.models \in Seq(KernelModel) /\ DOMAIN policy.models = 1..Len(policy.models)
      /\ Len(policy.models) \in Nat /\ index \in DOMAIN policy.models
  BY <1>1, <1>2 DEF IInv, TypeOK, PolicySnapshot
<1>4. rejected \in [Counters -> U16] /\ eligible \in U16
  BY Zenon DEF IInv, TypeOK
<1>5. k \in Kinds /\ Counted
  <2> DEFINE m == policy.models[index]
             gate == FirstFailedGate(m, input)
  <2>1. /\ Cost(policy, m, input) \in Int /\ input.budget \in Int
        /\ Utility(policy, m, input) \in Int
    BY Zenon, <1>2, <1>3, PricesTyped
  <2>2. /\ gate # None => k = Counter(gate)
        /\ gate = None /\ Cost(policy, m, input) > input.budget => k = "budget"
        /\ gate = None /\ Cost(policy, m, input) <= input.budget /\ Utility(policy, m, input) <= 0 =>
             k = "utility"
        /\ gate = None /\ Cost(policy, m, input) <= input.budget /\ Utility(policy, m, input) > 0 =>
             k = "eligible"
        /\ k \in Kinds
    <3>1. k = Verdict(policy, m, input).kind
      BY Zenon, <1>0 DEF Kind
    <3> HIDE DEF m
    <3> QED BY ZenonT(30), <2>1, <3>1, KindIs, KernelAssumption, DecisionAssumption
  <2>3. gate # None => Counter(gate) \in Counters
    BY Zenon, GateNamed, GateCounted, KernelAssumption, DecisionAssumption
  <2>4. "eligible" \notin Counters /\ "budget" \in Counters /\ "utility" \in Counters
    BY Zenon DEF Counters
  <2> HIDE DEF gate
  <2>5. ASSUME k \in Counters, CountRejection(k) PROVE Counted
    <3>1. eligible' = eligible /\ \A v \in Counters : v # k => rejected'[v] = rejected[v]
      BY Zenon, <1>4, <2>5 DEF CountRejection
    <3>2. rejected'[k] = SaturatingInc(rejected[k]) \/ rejected'[k] = WrappingInc(rejected[k])
      BY Zenon, <1>4, <2>5 DEF CountRejection
    <3> QED BY Zenon, <2>2, <2>4, <2>5, <3>1, <3>2 DEF Count, Kinds
  <2>6. ASSUME k = "eligible", eligible' = SaturatingInc(eligible), UNCHANGED rejected PROVE Counted
    BY Zenon, <2>2, <2>6 DEF Count, Kinds
  <2>7. \/ gate # None /\ CountRejection(Counter(gate))
        \/ gate = None /\ Cost(policy, m, input) > input.budget /\ CountRejection("budget")
        \/ /\ gate = None /\ Cost(policy, m, input) <= input.budget /\ Utility(policy, m, input) <= 0
           /\ CountRejection("utility")
        \/ /\ gate = None /\ Cost(policy, m, input) <= input.budget /\ Utility(policy, m, input) > 0
           /\ eligible' = SaturatingInc(eligible) /\ UNCHANGED rejected
    BY Zenon DEF Consider, gate
  <2> QED BY Zenon, <2>2, <2>3, <2>4, <2>5, <2>6, <2>7
<1>6. \A v : Seen(v)' = IF v = k THEN Seen(v) \cup {index} ELSE Seen(v)
  <2>1. \A i \in DOMAIN policy.models : Kind(i)' = Kind(i)
    BY Zenon, <1>1 DEF Kind
  <2>2. \A i \in DOMAIN policy.models : (index' = 0 \/ i < index') <=> (i < index \/ i = index)
    BY <1>1, <1>2, <1>3
  <2>3. index # 0
    BY <1>1, <1>2
  <2> QED BY Zenon, <1>0, <1>1, <1>3, <2>1, <2>2, <2>3 DEF Seen
<1>7. ASSUME trusted, NEW v \in Kinds PROVE Count(v)' = Cardinality(Seen(v)')
  <2>1. Count(v) = Cardinality(Seen(v))
    BY Zenon, <1>2, <1>7 DEF TellInv, CountsOK
  <2>2. /\ IsFiniteSet(Seen(v)) /\ Cardinality(Seen(v)) \in Nat /\ Cardinality(Seen(v)) <= index - 1
        /\ index \notin Seen(v)
    BY Zenon, <1>1, SeenIsFinite
  <2>3. CASE v # k
    BY Zenon, <1>5, <1>6, <1>7, <2>1, <2>3
  <2>4. CASE v = k
    <3>1. Cardinality(Seen(v)') = Cardinality(Seen(v)) + 1
      BY Zenon, <1>6, <2>2, <2>4, FS_AddElement
    <3>2. Len(policy.models) <= MaxU16 /\ MaxU16 \in Nat
      BY Zenon, <1>2, <1>7, KernelAssumption DEF IInv, PolicyOK, MayTrust
    <3>3. Cardinality(Seen(v)) < MaxU16
      BY <1>1, <1>2, <1>3, <2>2, <3>2
    <3>4. Count(v)' = Count(v) + 1
      BY Zenon, <1>5, <2>1, <2>2, <2>4, <3>2, <3>3, CountsOneMore
    <3> QED BY Zenon, <2>1, <3>1, <3>4
  <2> QED BY Zenon, <2>3, <2>4
<1>8. (\A v \in Kinds : Count(v) = Cardinality(Seen(v)))' \/ ~trusted'
  BY Zenon, <1>1, <1>7
<1> QED BY Zenon, <1>1, <1>2, <1>8 DEF CountsOK

\* The other steps change no count but for the reset.
LEMMA TellInvStep == IInv /\ TellInv /\ [Next]_vars => TellInv'
<1> SUFFICES ASSUME IInv, TellInv, [Next]_vars PROVE TellInv'
  BY Zenon
<1>1. CASE UNCHANGED vars
  <2>1. \A v : Seen(v)' = Seen(v) /\ Count(v)' = Count(v)
    BY Zenon, <1>1 DEF Seen, Kind, Count, vars, locals
  <2> QED BY Zenon, <1>1, <2>1 DEF TellInv, CountsOK, ToldOK, vars, locals
<1>2. ASSUME NEW t \in BOOLEAN, NEW settings \in Settings(t), NEW models \in Catalogs(t),
             NewPolicy(settings, models, t)
      PROVE  TellInv'
  <2>1. policy = None /\ UNCHANGED <<input, index, locals, decision>>
    BY Zenon, <1>2 DEF NewPolicy
  <2>2. input = None /\ decision = None
    BY Zenon, <2>1 DEF IInv, Phases
  <2> QED BY Zenon, <2>1, <2>2 DEF TellInv, CountsOK, ToldOK, locals
<1>3. ASSUME NEW r \in Inputs(trusted), Prescribe(r) PROVE TellInv'
  <2>1. input = None /\ input' = r /\ UNCHANGED <<policy, trusted, locals>> /\ decision = None
    BY Zenon, <1>3 DEF Prescribe, IInv, Phases
  <2>2. eligible' = 0 /\ rejected' = NoRejections
    BY Zenon, <2>1 DEF TellInv, CountsOK, locals
  <2>3. CASE HardLimit(policy, r) # None
    BY Zenon, <2>1, <2>2, <2>3 DEF TellInv, CountsOK, ToldOK
  <2>4. CASE HardLimit(policy, r) = None
    <3>1. index' = 1 /\ decision' = None
      BY Zenon, <1>3, <2>1, <2>4 DEF Prescribe
    <3>2. policy.models \in Seq(KernelModel)
      BY Zenon, <1>3 DEF Prescribe, IInv, TypeOK, PolicySnapshot
    <3>3. \A v : Seen(v)' = {}
      BY <2>1, <3>1, <3>2 DEF Seen
    <3>4. \A v \in Kinds : Count(v)' = 0
      BY Zenon, <2>2 DEF Count, Kinds, NoRejections
    <3>5. \A v \in Kinds : Count(v)' = Cardinality(Seen(v)')
      BY Zenon, <3>3, <3>4, FS_EmptySet
    <3>6. (\A v \in Kinds : Count(v) = Cardinality(Seen(v)))'
      BY Zenon, <3>5
    <3> QED BY Zenon, <2>1, <2>2, <3>1, <3>6 DEF TellInv, CountsOK, ToldOK
  <2> QED BY Zenon, <2>3, <2>4
<1>4. CASE Consider
  <2>1. CountsOK'
    BY Zenon, <1>4, ConsiderCounts
  <2>2. decision = None /\ decision' = decision
    BY <1>4 DEF Consider, IInv, TypeOK, Phases
  <2> QED BY Zenon, <2>1, <2>2 DEF TellInv, ToldOK
<1>5. CASE Decide
  <2>1. /\ index > 0 /\ index > Len(policy.models) /\ index' = 0
        /\ UNCHANGED <<policy, trusted, input, locals>>
    BY Zenon, <1>5 DEF Decide
  <2>2. index \in Nat /\ input # None /\ policy # None
    BY <2>1 DEF IInv, TypeOK, Phases
  <2>3. policy.models \in Seq(KernelModel)
    BY Zenon, <2>2 DEF IInv, TypeOK, PolicySnapshot
  <2>4. \A i \in DOMAIN policy.models : i < index
    BY <2>1, <2>2, <2>3
  <2>5. \A v : Seen(v)' = Seen(v) /\ Count(v)' = Count(v)
    BY Zenon, <2>1, <2>4 DEF Seen, Kind, Count, locals
  <2>6. CountsOK'
    BY Zenon, <2>1, <2>5 DEF TellInv, CountsOK, locals
  <2>7. best = None => decision'.reason = DominantRejectionReason(rejected)
    BY Zenon, <1>5 DEF Decide, Reject
  <2>8. best # None => decision'.cost = best.cost /\ decision'.utility = best.utility
    BY Zenon, <1>5 DEF Decide
  <2> QED BY Zenon, <2>1, <2>6, <2>7, <2>8 DEF TellInv, ToldOK, locals
<1>6. CASE Return
  BY Zenon, <1>6 DEF Return, TellInv, CountsOK, ToldOK
<1> QED BY Zenon, <1>1, <1>2, <1>3, <1>4, <1>5, <1>6 DEF Next

\* The counts that explain gives are those of the walk.
LEMMA GivenIsCounted ==
  ASSUME IInv, TellInv, trusted, input # None, NEW v \in Kinds
  PROVE  Given(v) = Count(v)
<1>1. policy # None /\ (decision # None <=> index = 0)
  BY DEF IInv, TypeOK, Phases
<1>2. CASE HardLimit(policy, input) = None
  <2>1. Explain(policy, input) = [i \in DOMAIN policy.models |-> Verdict(policy, policy.models[i], input)]
    BY Zenon, <1>2 DEF Explain
  <2>2. {i \in DOMAIN Explain(policy, input) :
           (decision # None \/ i < index) /\ Explain(policy, input)[i].kind = v} = Seen(v)
    BY Zenon, <1>1, <2>1 DEF Seen, Kind
  <2>3. Count(v) = Cardinality(Seen(v))
    BY Zenon, <1>2 DEF TellInv, CountsOK
  <2> QED BY Zenon, <2>2, <2>3 DEF Given
<1>3. CASE HardLimit(policy, input) # None
  <2>1. DOMAIN Explain(policy, input) = {}
    BY <1>3 DEF Explain
  <2>2. {i \in DOMAIN Explain(policy, input) :
           (decision # None \/ i < index) /\ Explain(policy, input)[i].kind = v} = {}
    BY Zenon, <2>1
  <2>3. Count(v) = 0
    BY Zenon, <1>3 DEF TellInv, CountsOK, Count, Kinds, NoRejections
  <2> QED BY Zenon, <2>2, <2>3, FS_EmptySet DEF Given
<1> QED BY Zenon, <1>2, <1>3

\* The verdicts that explain gives bear themselves out.
LEMMA ExplainBears ==
  ASSUME IInv, input # None, NEW i \in DOMAIN Explain(policy, input)
  PROVE  Bears(Explain(policy, input)[i])
<1>1. HardLimit(policy, input) = None
  BY DEF Explain
<1>2. /\ i \in DOMAIN policy.models
      /\ Explain(policy, input)[i] = Verdict(policy, policy.models[i], input)
  BY Zenon, <1>1 DEF Explain
<1>3. policy # None
  BY Zenon DEF IInv, Phases
<1>4. policy.models \in Seq(KernelModel) /\ policy.models[i].provider <= MaxProviderId
  BY Zenon, <1>2, <1>3 DEF IInv, TypeOK, PolicySnapshot, PolicyOK, Valid
<1>5. policy.models[i].provider \in U16 /\ MaxU16 \in Nat /\ MaxProviderId \in Nat
  <2>1. policy.models[i] \in KernelModel
    BY <1>2, <1>4
  <2> QED BY Zenon, <2>1, KernelAssumption DEF KernelModel
<1>6. ~(policy.models[i].provider > MaxProviderId)
  BY <1>4, <1>5 DEF U16
<1>7. /\ Cost(policy, policy.models[i], input) \in Int /\ input.budget \in Int
      /\ Utility(policy, policy.models[i], input) \in Int
  BY Zenon, <1>2, PricesTyped
<1> QED BY Zenon, <1>2, <1>6, <1>7, VerdictBears, DecisionAssumption


\* Past the hard limits, the registers when the request is decided: either no candidate passes, or
\* the best register and the decision are those of one that is better than all others.
LEMMA DecidedOn ==
  ASSUME IInv, TellInv, decision # None, HardLimit(policy, input) = None
  PROVE  \/ /\ \A i \in DOMAIN policy.models : ~Passes(i)
            /\ decision.action = "Reject" /\ decision.reason = DominantRejectionReason(rejected)
         \/ \E i \in DOMAIN policy.models :
              /\ Passes(i)
              /\ \A j \in DOMAIN policy.models :
                   Passes(j) /\ j # i => CandidateBetter(CandidateOf[i], CandidateOf[j])
              /\ decision.action # "Reject" /\ decision.selected = CandidateOf[i].id
              /\ decision.cost = CandidateOf[i].cost /\ decision.utility = CandidateOf[i].utility
<1>1. /\ Ranked = {i \in DOMAIN policy.models : Passes(i)}
      /\ BestTwo(CandidateOf, Ranked, best, second)
      /\ CandidateOf \in [DOMAIN policy.models -> Candidate]
      /\ None \notin Candidate
  BY Zenon, DecidedFromAll, KernelAssumption, DecisionAssumption
<1>2. CASE Ranked = {}
  <2>1. best = None
    BY Zenon, <1>1, <1>2 DEF BestTwo
  <2>2. decision.action = "Reject" /\ decision.reason = DominantRejectionReason(rejected)
    BY Zenon, <2>1 DEF IInv, DecisionOK, TellInv, ToldOK
  <2> QED BY Zenon, <1>1, <1>2, <2>2
<1>3. CASE Ranked # {}
  <2>1. PICK i \in Ranked :
          best = CandidateOf[i] /\ \A j \in Ranked \ {i} : CandidateBetter(CandidateOf[i], CandidateOf[j])
    BY Zenon, <1>1, <1>3 DEF BestTwo
  <2>2. i \in DOMAIN policy.models /\ Passes(i) /\ best # None
    BY Zenon, <1>1, <2>1
  <2>3. /\ decision.action # "Reject" /\ decision.selected = best.id
        /\ decision.cost = best.cost /\ decision.utility = best.utility
    BY Zenon, <2>2 DEF IInv, DecisionOK, TellInv, ToldOK
  <2>4. \A j \in DOMAIN policy.models : Passes(j) /\ j # i => CandidateBetter(CandidateOf[i], CandidateOf[j])
    BY Zenon, <1>1, <2>1
  <2> QED BY Zenon, <2>1, <2>2, <2>3, <2>4
<1> QED BY Zenon, <1>2, <1>3

\* A catalog that was validated has one candidate for each id.
LEMMA CandidatesNamed ==
  ASSUME IInv, input # None
  PROVE  /\ policy.models \in Seq(KernelModel)
         /\ \A i, j \in DOMAIN policy.models : IdAt(i) = IdAt(j) => i = j
         /\ \A i \in DOMAIN policy.models :
              /\ CandidateOf[i] \in Candidate /\ CandidateOf[i].id = IdAt(i)
              /\ CandidateOf[i].quality = policy.models[i].quality
              /\ CandidateOf[i].cost = Cost(policy, policy.models[i], input)
              /\ CandidateOf[i].utility = Utility(policy, policy.models[i], input)
<1>1. policy # None
  BY Zenon DEF IInv, Phases
<1>2. policy.models \in Seq(KernelModel)
  BY Zenon, <1>1 DEF IInv, TypeOK, PolicySnapshot
<1>3. \A i, j \in DOMAIN policy.models : IdAt(i) = IdAt(j) => i = j
  BY Zenon, <1>1 DEF IInv, PolicyOK, Valid, IdAt
<1>4. CandidateOf \in [DOMAIN policy.models -> Candidate]
  BY Zenon, <1>1, CandidatesTyped, KernelAssumption DEF IInv
<1>5. \A i \in DOMAIN policy.models :
        /\ CandidateOf[i].id = IdAt(i) /\ CandidateOf[i].quality = policy.models[i].quality
        /\ CandidateOf[i].cost = Cost(policy, policy.models[i], input)
        /\ CandidateOf[i].utility = Utility(policy, policy.models[i], input)
  BY Zenon DEF CandidateOf, IdAt
<1> QED BY Zenon, <1>2, <1>3, <1>4, <1>5

\* What utility_for_model answers for a model of the catalog.
LEMMA UtilityAnswered ==
  ASSUME IInv, input # None, HardLimit(policy, input) = None, NEW i \in DOMAIN policy.models
  PROVE  UtilityForModel(policy, input, IdAt(i)) = IF Passes(i) THEN CandidateOf[i].utility ELSE None
<1> DEFINE found == {j \in DOMAIN policy.models :
                       /\ policy.models[j].id = IdAt(i)
                       /\ FirstFailedGate(policy.models[j], input) = None
                       /\ Cost(policy, policy.models[j], input) <= input.budget
                       /\ Utility(policy, policy.models[j], input) > 0}
<1>1. UtilityForModel(policy, input, IdAt(i)) =
        IF found = {} THEN None ELSE Utility(policy, policy.models[Min(found)], input)
  BY Zenon DEF UtilityForModel
<1>2. \A j \in DOMAIN policy.models : j \in found <=> j = i /\ Passes(i)
  BY Zenon, CandidatesNamed DEF Passes, IdAt
<1>3. found \subseteq DOMAIN policy.models
  BY Zenon
<1> HIDE DEF found
<1>4. CASE Passes(i)
  <2>1. found = {i}
    BY Zenon, <1>2, <1>3, <1>4
  <2>2. i \in Nat
    BY CandidatesNamed
  <2>3. Min({i}) = i
    BY <2>2 DEF Min
  <2>4. found # {}
    BY Zenon, <2>1
  <2> QED BY Zenon, <1>1, <1>4, <2>1, <2>3, <2>4, CandidatesNamed
<1>5. CASE ~Passes(i)
  <2>1. found = {}
    BY Zenon, <1>2, <1>3, <1>5
  <2> QED BY Zenon, <1>1, <1>5, <2>1
<1> QED BY Zenon, <1>4, <1>5

\* Of two candidates at most one is the better.
LEMMA BetterAsymmetric ==
  ASSUME NEW a \in Candidate, NEW b \in Candidate, CandidateBetter(a, b), CandidateBetter(b, a)
  PROVE  FALSE
<1>1. \A x \in Candidate : x.id \in Int /\ x.quality \in Int /\ x.cost \in Int /\ x.utility \in Int
  BY DEF Candidate, U16, U64, I64
<1> QED BY <1>1 DEF CandidateBetter

\* The position that prescribe as a function gives.
LEMMA WinnerIs ==
  ASSUME IInv, input # None, HardLimit(policy, input) = None
  PROVE  /\ (\A i \in DOMAIN policy.models : ~Passes(i)) => Winner(policy, input) = 0
         /\ \A i \in DOMAIN policy.models :
              /\ Passes(i)
              /\ \A j \in DOMAIN policy.models :
                   Passes(j) /\ j # i => CandidateBetter(CandidateOf[i], CandidateOf[j])
              => Winner(policy, input) = i
<1> DEFINE ranked == {i \in DOMAIN Explain(policy, input) : Explain(policy, input)[i].kind = "eligible"}
           At(i) == CandidateAt(policy, i, input)
           First(i) == \A j \in ranked \ {i} : CandidateBetter(At(i), At(j))
<1>1. Explain(policy, input) = [i \in DOMAIN policy.models |-> Verdict(policy, policy.models[i], input)]
  BY Zenon DEF Explain
<1>2. \A i \in DOMAIN policy.models : Verdict(policy, policy.models[i], input).kind = "eligible" <=> Passes(i)
  <2> SUFFICES ASSUME NEW i \in DOMAIN policy.models
               PROVE  Verdict(policy, policy.models[i], input).kind = "eligible" <=> Passes(i)
    BY Zenon
  <2>1. /\ Cost(policy, policy.models[i], input) \in Int /\ input.budget \in Int
        /\ Utility(policy, policy.models[i], input) \in Int
    BY Zenon, PricesTyped
  <2> QED BY Zenon, <2>1, KindIs, KernelAssumption, DecisionAssumption DEF Passes
<1>3. ranked = {i \in DOMAIN policy.models : Passes(i)}
  BY Zenon, <1>1, <1>2
<1>4. Winner(policy, input) = IF ranked = {} THEN 0 ELSE CHOOSE i \in ranked : First(i)
  BY Zenon DEF Winner, Foremost, EligibleIn
<1>5. \A i, j \in DOMAIN policy.models :
        CandidateBetter(At(i), At(j)) <=> CandidateBetter(CandidateOf[i], CandidateOf[j])
  <2>1. \A i \in DOMAIN policy.models :
          /\ At(i).id = CandidateOf[i].id /\ At(i).quality = CandidateOf[i].quality
          /\ At(i).cost = CandidateOf[i].cost /\ At(i).utility = CandidateOf[i].utility
    BY Zenon, CandidatesNamed DEF CandidateAt, IdAt
  <2> HIDE DEF At
  <2> SUFFICES ASSUME NEW i \in DOMAIN policy.models, NEW j \in DOMAIN policy.models
               PROVE  CandidateBetter(At(i), At(j)) <=> CandidateBetter(CandidateOf[i], CandidateOf[j])
    BY Zenon
  <2>2. /\ At(i).id = CandidateOf[i].id /\ At(i).quality = CandidateOf[i].quality
        /\ At(i).cost = CandidateOf[i].cost /\ At(i).utility = CandidateOf[i].utility
        /\ At(j).id = CandidateOf[j].id /\ At(j).quality = CandidateOf[j].quality
        /\ At(j).cost = CandidateOf[j].cost /\ At(j).utility = CandidateOf[j].utility
    BY Zenon, <2>1
  <2> QED BY SMT, <2>2 DEF CandidateBetter
<1> HIDE DEF ranked, At
<1>6. (\A i \in DOMAIN policy.models : ~Passes(i)) => Winner(policy, input) = 0
  BY Zenon, <1>3, <1>4
<1>7. ASSUME NEW i \in DOMAIN policy.models, Passes(i),
             \A j \in DOMAIN policy.models :
               Passes(j) /\ j # i => CandidateBetter(CandidateOf[i], CandidateOf[j])
      PROVE  Winner(policy, input) = i
  <2>1. i \in ranked /\ First(i)
    BY Zenon, <1>3, <1>5, <1>7
  <2>2. ASSUME NEW w \in ranked, First(w) PROVE w = i
    <3> SUFFICES ASSUME w # i PROVE FALSE
      BY Zenon
    <3>1. w \in DOMAIN policy.models /\ CandidateBetter(At(w), At(i)) /\ CandidateBetter(At(i), At(w))
      BY Zenon, <1>3, <2>1, <2>2
    <3>2. CandidateBetter(CandidateOf[w], CandidateOf[i]) /\ CandidateBetter(CandidateOf[i], CandidateOf[w])
      BY Zenon, <1>5, <3>1
    <3> QED BY Zenon, <3>1, <3>2, CandidatesNamed, BetterAsymmetric
  <2> HIDE DEF First
  <2>3. (CHOOSE w \in ranked : First(w)) = i
    BY Zenon, <2>1, <2>2
  <2> QED BY Zenon, <1>4, <2>1, <2>3
<1> QED BY Zenon, <1>6, <1>7

\* The walk counts what it has seen, and a decision tells what the registers and the counts held.
THEOREM WalkCounts == Spec => []TellInv
<1>1. Init => TellInv
  BY Zenon DEF Init, TellInv, CountsOK, ToldOK
<1> QED BY <1>1, TellInvStep, WalkInvariant, PTL DEF Spec

\* The reason of a rejection stopped no fewer candidates than any other.
LEMMA ReasonTold ==
  ASSUME IInv, TellInv, trusted, decision # None, HardLimit(policy, input) = None,
         decision.action = "Reject", NEW c \in Counters
  PROVE  Given(c) <= Given(decision.reason)
<1>1. decision.reason = DominantRejectionReason(rejected)
  BY Zenon, DecidedOn
<1>2. input # None
  BY Zenon DEF IInv, Phases
<1>3. rejected \in [Counters -> U16]
  BY Zenon DEF IInv, TypeOK
<1>4. rejected[c] <= rejected[decision.reason]
  BY Zenon, <1>1, <1>3, DominantIsLargest, KernelAssumption
<1>5. decision.reason \in Counters
  BY Zenon, <1>1, <1>3, ReasonNamed, KernelAssumption
<1>6. \A v \in Counters : Given(v) = rejected[v]
  <2>1. "eligible" \notin Counters
    BY Zenon DEF Counters
  <2> QED BY Zenon, <1>2, <2>1, GivenIsCounted DEF Kinds, Count
<1> QED BY Zenon, <1>4, <1>5, <1>6

\* utility_for_model against the decision.
LEMMA UtilityTold ==
  ASSUME IInv, TellInv, decision # None, NEW i \in DOMAIN policy.models
  PROVE  LET answer == UtilityForModel(policy, input, IdAt(i))
         IN  /\ answer # None => decision.action # "Reject" /\ answer <= decision.utility
             /\ decision.action # "Reject" /\ IdAt(i) = decision.selected => answer = decision.utility
<1> DEFINE answer == UtilityForModel(policy, input, IdAt(i))
<1>1. input # None
  BY Zenon DEF IInv, Phases
<1>2. CASE HardLimit(policy, input) # None
  <2>1. answer = None
    BY Zenon, <1>2 DEF UtilityForModel
  <2>2. decision.action = "Reject"
    BY Zenon, <1>2 DEF IInv, DecisionOK
  <2> QED BY Zenon, <2>1, <2>2
<1>3. CASE HardLimit(policy, input) = None
  <2>1. answer = IF Passes(i) THEN CandidateOf[i].utility ELSE None
    BY Zenon, <1>1, <1>3, UtilityAnswered
  <2> HIDE DEF answer
  <2>2. CASE /\ \A j \in DOMAIN policy.models : ~Passes(j)
             /\ decision.action = "Reject"
    BY Zenon, <2>1, <2>2 DEF answer
  <2>3. ASSUME NEW b \in DOMAIN policy.models, Passes(b),
               \A j \in DOMAIN policy.models :
                 Passes(j) /\ j # b => CandidateBetter(CandidateOf[b], CandidateOf[j]),
               decision.action # "Reject", decision.selected = CandidateOf[b].id,
               decision.utility = CandidateOf[b].utility
        PROVE  /\ answer # None => decision.action # "Reject" /\ answer <= decision.utility
               /\ decision.action # "Reject" /\ IdAt(i) = decision.selected => answer = decision.utility
    <3>1. CandidateOf[b].utility \in Int /\ CandidateOf[i].utility \in Int
      <4>1. CandidateOf[b].utility \in I64 /\ CandidateOf[i].utility \in I64
        BY Zenon, <1>1, CandidatesNamed DEF Candidate
      <4> QED BY <4>1 DEF I64
    <3>2. Passes(i) => CandidateOf[i].utility <= CandidateOf[b].utility
      <4>1. CASE i = b
        BY <3>1, <4>1
      <4>2. CASE i # b
        BY <2>3, <3>1, <4>2 DEF CandidateBetter
      <4> QED BY Zenon, <4>1, <4>2
    <3>3. IdAt(i) = decision.selected => i = b
      <4>1. CandidateOf[b].id = IdAt(b)
        BY Zenon, <1>1, CandidatesNamed
      <4>2. IdAt(i) = IdAt(b) => i = b
        BY Zenon, <1>1, CandidatesNamed
      <4> QED BY Zenon, <2>3, <4>1, <4>2
    <3> QED BY Zenon, <2>1, <2>3, <3>2, <3>3
  <2> QED BY Zenon, <1>3, <2>2, <2>3, DecidedOn DEF answer
<1> QED BY Zenon, <1>2, <1>3

\* prescribe as a function against the decision.
LEMMA WinnerTold ==
  ASSUME IInv, TellInv, decision # None
  PROVE  LET winner == Winner(policy, input)
         IN  IF winner = 0 THEN decision.action = "Reject"
             ELSE /\ decision.action # "Reject" /\ decision.selected = IdAt(winner)
                  /\ decision.cost = Cost(policy, policy.models[winner], input)
<1>1. input # None
  BY Zenon DEF IInv, Phases
<1>2. CASE HardLimit(policy, input) # None
  <2>1. DOMAIN Explain(policy, input) = {}
    BY <1>2 DEF Explain
  <2>2. Winner(policy, input) = 0
    BY Zenon, <2>1 DEF Winner, Foremost, EligibleIn
  <2>3. decision.action = "Reject"
    BY Zenon, <1>2 DEF IInv, DecisionOK
  <2> QED BY Zenon, <2>2, <2>3
<1>3. CASE /\ HardLimit(policy, input) = None
           /\ \A i \in DOMAIN policy.models : ~Passes(i)
           /\ decision.action = "Reject"
  BY Zenon, <1>1, <1>3, WinnerIs
<1>4. ASSUME HardLimit(policy, input) = None, NEW i \in DOMAIN policy.models, Passes(i),
             \A j \in DOMAIN policy.models :
               Passes(j) /\ j # i => CandidateBetter(CandidateOf[i], CandidateOf[j]),
             decision.action # "Reject", decision.selected = CandidateOf[i].id,
             decision.cost = CandidateOf[i].cost
      PROVE  LET winner == Winner(policy, input)
             IN  IF winner = 0 THEN decision.action = "Reject"
                 ELSE /\ decision.action # "Reject" /\ decision.selected = IdAt(winner)
                      /\ decision.cost = Cost(policy, policy.models[winner], input)
  <2>1. Winner(policy, input) = i
    BY Zenon, <1>1, <1>4, WinnerIs
  <2>2. i # 0
    BY <1>1, CandidatesNamed
  <2>3. /\ decision.selected = IdAt(i)
        /\ decision.cost = Cost(policy, policy.models[i], input)
    BY Zenon, <1>1, <1>4, CandidatesNamed
  <2> QED BY Zenon, <1>4, <2>1, <2>2, <2>3
<1> QED BY Zenon, <1>2, <1>3, <1>4, DecidedOn

\* Whoever asks another way hears the same, for every catalog and request: explain's verdicts bear
\* themselves out, a trusted catalog's counters are the numbers of its verdicts and a rejection
\* names a largest one, utility_for_model never promises more than the decision delivers, and the
\* walk ends with the winner of the comparison of all pairs.
THEOREM Tellings == Spec => []TellingsAgree
<1>1. IInv /\ TellInv => TellingsAgree
  <2> SUFFICES ASSUME IInv, TellInv PROVE TellingsAgree
    BY Zenon
  <2>1. input # None => \A i \in DOMAIN Explain(policy, input) : Bears(Explain(policy, input)[i])
    BY Zenon, ExplainBears
  <2>2. trusted /\ input # None =>
          /\ eligible = Given("eligible")
          /\ \A c \in DOMAIN rejected : rejected[c] = Given(c)
    <3>1. DOMAIN rejected = Counters /\ "eligible" \notin Counters
      <4>1. rejected \in [Counters -> U16]
        BY Zenon DEF IInv, TypeOK
      <4>2. "eligible" \notin Counters
        BY Zenon DEF Counters
      <4> QED BY Zenon, <4>1, <4>2
    <3> QED BY Zenon, <3>1, GivenIsCounted DEF Kinds, Count
  <2>3. trusted /\ decision # None /\ HardLimit(policy, input) = None /\ decision.action = "Reject" =>
          \A c \in DOMAIN NoRejections : Given(c) <= Given(decision.reason)
    BY Zenon, ReasonTold DEF NoRejections
  <2>4. decision # None =>
          \A i \in DOMAIN policy.models :
            LET answer == UtilityForModel(policy, input, IdAt(i))
            IN  /\ answer # None => decision.action # "Reject" /\ answer <= decision.utility
                /\ decision.action # "Reject" /\ IdAt(i) = decision.selected => answer = decision.utility
    BY Zenon, UtilityTold
  <2>5. decision # None =>
          LET winner == Winner(policy, input)
          IN  IF winner = 0 THEN decision.action = "Reject"
              ELSE /\ decision.action # "Reject" /\ decision.selected = IdAt(winner)
                   /\ decision.cost = Cost(policy, policy.models[winner], input)
    BY Zenon, WinnerTold
  <2> QED BY Zenon, <2>1, <2>2, <2>3, <2>4, <2>5 DEF TellingsAgree
<1> QED BY <1>1, WalkInvariant, WalkCounts, PTL
=============================================================================
