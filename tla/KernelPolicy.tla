------------------------------ MODULE KernelPolicy ------------------------------
(***************************************************************************)
(* The parts of src/kernel.rs that are functions of a policy and a         *)
(* request: how a policy is built, the gates, the prices, and what explain *)
(* and utility_for_model answer.                                           *)
(*                                                                         *)
(* Bit masks are sets.  The widths of u16, u64 and i64 and the scales of   *)
(* basis points and costs are constants, so that small values reach their  *)
(* limits; i128 and u128, whose limits no input reaches, are integers.     *)
(* Epochs and the request sequence are copied to the decision unchanged    *)
(* and are left out.                                                       *)
(***************************************************************************)
EXTENDS Integers, Sequences, FiniteSetsExt

CONSTANTS
  MaxU16, MaxU64, MaxI64,
  BasisPoints,      \* BASIS_POINTS, also MAX_BPS
  CostScale,        \* COST_SCALE
  MaxProviderId,    \* MAX_PROVIDER_ID
  None

ASSUME KernelAssumption ==
  /\ {MaxU16, MaxU64, MaxI64, MaxProviderId} \subseteq Nat
  /\ {BasisPoints, CostScale} \subseteq Nat \ {0}

ScaledBasisPoints == BasisPoints * BasisPoints
CostRounding == CostScale - 1
AllProviders == 0..MaxProviderId

-----------------------------------------------------------------------------
\* Types.  A mask is the set of its bits, one for each provider it can name.  Nothing overflows
\* a u8 or u32 field: they are naturals, a latency one that has a bound.

U16 == 0..MaxU16
U64 == 0..MaxU64
I64 == (-MaxI64 - 1)..MaxI64
Mask == SUBSET AllProviders

KernelModel ==
  [id : Nat, provider : U16, quality : U16, ceiling : U16, enabled : Nat, latency : U64,
   capabilities : Mask, regions : Mask, inputCost : U64, outputCost : U64]

KernelInput ==
  [requested : Nat, inputTokens : Nat, outputTokens : Nat, value : I64, budget : U64,
   risk : U16, confidence : U16, minQuality : U16, maxLatency : Nat,
   capabilities : Mask, providers : Mask, regions : Mask]

\* The parameters of a policy other than its catalog.
PolicySettings ==
  [hardRisk : U16, minConfidence : U16, riskMultiplier : U16, latencyPenalty : U64]

PolicySnapshot ==
  [settings : PolicySettings, models : Seq(KernelModel),
   quality : U16, latency : U64, inputCost : U64, outputCost : U64]

-----------------------------------------------------------------------------
\* Policies.

\* Mutant of WithBounds: the bound on costs is that of the first model.
WithBoundsOfFirst(settings, models) ==
  [settings |-> settings, models |-> models,
   quality |-> Max({0} \cup {models[i].quality : i \in DOMAIN models}),
   latency |-> Max({0} \cup {models[i].latency : i \in DOMAIN models}),
   inputCost |-> IF models = <<>> THEN 0 ELSE models[1].inputCost,
   outputCost |-> IF models = <<>> THEN 0 ELSE models[1].outputCost]

\* new_unchecked: a policy carries the maxima that the fast paths are chosen by.
WithBounds(settings, models) ==
  [settings |-> settings, models |-> models,
   quality |-> Max({0} \cup {models[i].quality : i \in DOMAIN models}),
   latency |-> Max({0} \cup {models[i].latency : i \in DOMAIN models}),
   inputCost |-> Max({0} \cup {models[i].inputCost : i \in DOMAIN models}),
   outputCost |-> Max({0} \cup {models[i].outputCost : i \in DOMAIN models})]

\* validate.
Valid(settings, models) ==
  /\ settings.hardRisk <= BasisPoints
  /\ settings.minConfidence <= BasisPoints
  /\ settings.riskMultiplier <= 5 * BasisPoints
  /\ models # <<>>
  /\ \A i, j \in DOMAIN models : models[i].id = models[j].id => i = j
  /\ \A i \in DOMAIN models : /\ models[i].provider <= MaxProviderId
                              /\ models[i].quality <= BasisPoints
                              /\ models[i].ceiling <= BasisPoints
  /\ \E i \in DOMAIN models : models[i].enabled # 0

\* Mutant of MayTrust: model id 0 is not reserved.
ReservesNothing(models) ==
  /\ Len(models) <= MaxU16
  /\ \A i \in DOMAIN models : models[i].enabled <= 1

\* What try_new_trusted asks of a catalog before it validates the policy.
MayTrust(models) ==
  /\ Len(models) <= MaxU16
  /\ \A i \in DOMAIN models : models[i].id # 0 /\ models[i].enabled <= 1

-----------------------------------------------------------------------------
\* Gates.

GateKind ==
  {"Disabled", "Quality", "Latency", "Capability", "ProviderUnrepresentable",
   "ProviderNotAllowed", "Region", "RiskCeiling"}

GateOrder ==
  <<"Disabled", "Quality", "Latency", "Capability", "ProviderUnrepresentable",
    "ProviderNotAllowed", "Region", "RiskCeiling">>

Fails(gate, m, r) ==
  CASE gate = "Disabled" -> m.enabled = 0
    [] gate = "Quality" -> m.quality < r.minQuality
    [] gate = "Latency" -> r.maxLatency > 0 /\ m.latency > r.maxLatency
    [] gate = "Capability" -> ~(r.capabilities \subseteq m.capabilities)
    [] gate = "ProviderUnrepresentable" -> m.provider > MaxProviderId
    [] gate = "ProviderNotAllowed" -> r.providers # AllProviders /\ m.provider \notin r.providers
    [] gate = "Region" -> r.regions # {} /\ m.regions \cap r.regions = {}
    [] gate = "RiskCeiling" -> r.risk > m.ceiling

\* first_failed_gate: None when the candidate reaches costing.
FirstFailedGate(m, r) ==
  LET failed == {i \in DOMAIN GateOrder : Fails(GateOrder[i], m, r)}
  IN  IF failed = {} THEN None ELSE GateOrder[Min(failed)]

\* gate_detail: what the candidate carried and what the request demanded, reversed for the
\* risk, which the request carries.
GateDetail(gate, m, r) ==
  CASE gate = "Disabled" -> <<0, 1>>
    [] gate = "Quality" -> <<m.quality, r.minQuality>>
    [] gate = "Latency" -> <<m.latency, r.maxLatency>>
    [] gate = "Capability" -> <<m.capabilities, r.capabilities>>
    [] gate = "ProviderUnrepresentable" -> <<m.provider, MaxProviderId>>
    [] gate = "ProviderNotAllowed" -> <<m.provider, r.providers>>
    [] gate = "Region" -> <<m.regions, r.regions>>
    [] gate = "RiskCeiling" -> <<r.risk, m.ceiling>>

-----------------------------------------------------------------------------
\* Prices.  The fast paths wrap at the width of u64.

WrapU64(n) == n % (MaxU64 + 1)
FitsU64(n) == n <= MaxU64

\* all_costs_fit_u64.
AllCostsFit(p, r) ==
  LET in == r.inputTokens * p.inputCost + CostRounding
      out == r.outputTokens * p.outputCost + CostRounding
  IN  FitsU64(in) /\ FitsU64(out) /\ FitsU64(in + out)

ModelCostFast(m, r) ==
  WrapU64(WrapU64(r.inputTokens * m.inputCost + CostRounding) \div CostScale
          + WrapU64(r.outputTokens * m.outputCost + CostRounding) \div CostScale)

\* The exact cost, every term rounded up.
ExactCost(m, r) ==
  (r.inputTokens * m.inputCost + CostRounding) \div CostScale
  + (r.outputTokens * m.outputCost + CostRounding) \div CostScale

ModelCostReference(m, r) == Min({ExactCost(m, r), MaxU64})

\* Pricing::cost.
Cost(p, m, r) == IF AllCostsFit(p, r) THEN ModelCostFast(m, r) ELSE ModelCostReference(m, r)

Value(r) == Max({r.value, 0})

ScaledTermReference(value, first, second_) == (value * first * second_) \div ScaledBasisPoints

\* Pricing::terms: quality_prefix is None unless the product with the largest quality fits.
QualityAdjusted(p, m, r) ==
  LET prefix == Value(r) * r.confidence
  IN  IF FitsU64(prefix) /\ FitsU64(prefix * p.quality)
      THEN WrapU64(prefix * m.quality) \div ScaledBasisPoints
      ELSE ScaledTermReference(Value(r), r.confidence, m.quality)

\* scaled_term_exact.
RiskPenalty(p, r) ==
  ScaledTermReference(Value(r), r.risk, p.settings.riskMultiplier)

\* Pricing::terms: the product is taken in u64 when the largest latency's fits.
LatencyPenalty(p, m) ==
  IF FitsU64(p.latency * p.settings.latencyPenalty)
  THEN WrapU64(m.latency * p.settings.latencyPenalty)
  ELSE m.latency * p.settings.latencyPenalty

ClampToI64(n) == Max({-MaxI64 - 1, Min({n, MaxI64})})

Utility(p, m, r) ==
  ClampToI64(QualityAdjusted(p, m, r) - RiskPenalty(p, r) - Cost(p, m, r) - LatencyPenalty(p, m))

-----------------------------------------------------------------------------
\* Candidates, decisions and requests.

Candidate == [id : Nat, index : U16, quality : U16, cost : U64, utility : I64]

KernelAction == {"ExecuteRequested", "Substitute", "Reject"}

\* The counters of RejectionHistogram.
Counters ==
  {"disabled", "quality", "risk_ceiling", "latency", "capability", "provider", "region",
   "budget", "utility"}

\* The reason of a constraint goes by the name of its counter.
KernelReason ==
  {"RequestedModelMaximizesUtility", "AlternativeMaximizesUtility",
   "RiskHardLimit", "ConfidenceHardLimit"} \cup Counters

KernelDecision ==
  [action : KernelAction, reason : KernelReason, selected : Nat, index : U16, cost : U64,
   utility : I64, counterfactual : Nat, counterfactualUtility : I64,
   evaluated : U16, eligible : U16]

CandidateBetter(left, right) ==
  \/ left.utility > right.utility
  \/ left.utility = right.utility /\ left.cost < right.cost
  \/ left.utility = right.utility /\ left.cost = right.cost /\ left.quality > right.quality
  \/ /\ left.utility = right.utility /\ left.cost = right.cost /\ left.quality = right.quality
     /\ left.id < right.id

\* The counter that RejectionHistogram::bump raises for a gate.
Counter(gate) ==
  CASE gate = "Disabled" -> "disabled"
    [] gate = "Quality" -> "quality"
    [] gate = "Latency" -> "latency"
    [] gate = "Capability" -> "capability"
    [] gate \in {"ProviderUnrepresentable", "ProviderNotAllowed"} -> "provider"
    [] gate = "Region" -> "region"
    [] gate = "RiskCeiling" -> "risk_ceiling"

\* The two early returns of prescribe_inner; None lets the request through.
HardLimit(p, r) ==
  IF r.risk >= p.settings.hardRisk THEN "RiskHardLimit"
  ELSE IF r.confidence < p.settings.minConfidence THEN "ConfidenceHardLimit"
  ELSE None

\* KernelInput::validate, which the _checked entry points call first.
ValidInput(r) == {r.risk, r.confidence, r.minQuality} \subseteq 0..BasisPoints

\* The array of dominant_rejection_reason, in its order.
ReasonOrder ==
  <<"capability", "region", "provider", "quality", "risk_ceiling", "latency", "budget",
    "utility", "disabled">>

\* dominant_rejection_reason: max_by_key keeps the last of the largest counts, and the
\* reason of the "disabled" counter, NoEnabledModel, also stands for no count at all.
DominantRejectionReason(counts) ==
  LET Largest(i) == \A j \in DOMAIN ReasonOrder : counts[ReasonOrder[j]] <= counts[ReasonOrder[i]]
      last == Max({i \in DOMAIN ReasonOrder : Largest(i)})
  IN  IF counts[ReasonOrder[last]] > 0 THEN ReasonOrder[last] ELSE "disabled"

-----------------------------------------------------------------------------
\* What a policy answers without ranking.

\* utility_for_model; ids are unique in a validated catalog.
UtilityForModel(p, r, id) ==
  LET found == {i \in DOMAIN p.models :
                  /\ p.models[i].id = id
                  /\ FirstFailedGate(p.models[i], r) = None
                  /\ Cost(p, p.models[i], r) <= r.budget
                  /\ Utility(p, p.models[i], r) > 0}
  IN  IF HardLimit(p, r) # None \/ found = {} THEN None ELSE Utility(p, p.models[Min(found)], r)

\* The verdict explain gives a candidate: "eligible", or the counter of what stopped it,
\* with the numbers that were compared.
Verdict(p, m, r) ==
  LET gate == FirstFailedGate(m, r)
      compared == GateDetail(gate, m, r)
      cost == Cost(p, m, r)
      utility == Utility(p, m, r)
  IN  IF gate # None
      THEN [kind |-> Counter(gate), measured |-> compared[1], limit |-> compared[2]]
      ELSE IF cost > r.budget THEN [kind |-> "budget", measured |-> cost, limit |-> r.budget]
      ELSE [kind |-> IF utility <= 0 THEN "utility" ELSE "eligible",
            measured |-> utility, limit |-> 0]

\* What the numbers of a verdict say: that the candidate was stopped where the verdict says, or
\* was not stopped.  No provider of a validated catalog is outside the masks.
Bears(v) ==
  CASE v.kind = "disabled" -> v.measured < v.limit
    [] v.kind = "quality" -> v.measured < v.limit
    [] v.kind = "latency" -> v.measured > v.limit
    [] v.kind = "capability" -> ~(v.limit \subseteq v.measured)
    [] v.kind = "provider" -> v.measured \notin v.limit
    [] v.kind = "region" -> v.measured \cap v.limit = {}
    [] v.kind = "risk_ceiling" -> v.measured > v.limit
    [] v.kind = "budget" -> v.measured > v.limit
    [] v.kind = "utility" -> v.measured <= v.limit
    [] v.kind = "eligible" -> v.measured > v.limit

\* Mutant of Explain: a request refused at a hard limit gets verdicts.
ExplainAlways(p, r) == [i \in DOMAIN p.models |-> Verdict(p, p.models[i], r)]

\* explain: no candidate has a verdict when a hard limit refused the request.
Explain(p, r) ==
  IF HardLimit(p, r) # None THEN <<>>
  ELSE [i \in DOMAIN p.models |-> Verdict(p, p.models[i], r)]

-----------------------------------------------------------------------------
\* The result of prescribe as a function, for the callers that run it whole.

CandidateAt(p, i, r) ==
  LET m == p.models[i]
  IN  [id |-> m.id, quality |-> m.quality, cost |-> Cost(p, m, r), utility |-> Utility(p, m, r)]

EligibleIn(explained) == {i \in DOMAIN explained : explained[i].kind = "eligible"}

\* The candidate ranked before all others, 0 when there is none.
Foremost(p, r, ranked) ==
  IF ranked = {} THEN 0
  ELSE CHOOSE i \in ranked : \A j \in ranked \ {i} :
         CandidateBetter(CandidateAt(p, i, r), CandidateAt(p, j, r))

\* The position of the selected model, 0 when the request is rejected.
Winner(p, r) == Foremost(p, r, EligibleIn(Explain(p, r)))
=============================================================================
