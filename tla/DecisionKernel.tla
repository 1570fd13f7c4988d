----------------------------- MODULE DecisionKernel -----------------------------
(***************************************************************************)
(* The walk of prescribe_inner, src/kernel.rs, over the catalog of a       *)
(* policy: one candidate per step, keeping the best and the second best.   *)
(* The policy's gates and prices are those of KernelPolicy.                *)
(*                                                                         *)
(* u16 counters wrap where the code adds without saturating, as the        *)
(* release profile does.                                                   *)
(***************************************************************************)
EXTENDS KernelPolicy

\* Each takes whether the policy comes from try_new_trusted or from try_new.
CONSTANTS
  Catalogs(_),      \* sequences of models that a policy is built from
  Settings(_),      \* the other parameters of a policy
  Inputs(_)         \* requests

ASSUME DecisionAssumption ==
  /\ MaxI64 <= MaxU64
  /\ \A t \in BOOLEAN : /\ Catalogs(t) \subseteq Seq(KernelModel)
                        /\ Settings(t) \subseteq PolicySettings
                        /\ Inputs(t) \subseteq KernelInput
  /\ None \notin PolicySnapshot \cup KernelInput \cup Candidate \cup KernelDecision
  /\ None \notin GateKind

VARIABLES
  policy,    \* the PolicySnapshot that serves requests, None before there is one
  trusted,   \* whether try_new_trusted built it
  input,     \* the request being decided
  index,     \* the next candidate, 0 when no request is being decided
  best, second, eligible, rejected,   \* locals of prescribe_inner
  decision   \* the last KernelDecision

locals == <<best, second, eligible, rejected>>
vars == <<policy, trusted, input, index, locals, decision>>

NoRejections == [c \in Counters |-> 0]

-----------------------------------------------------------------------------
\* sort_by_key on the model id: the arrangements of the catalog that are in order.
SortedById(models) ==
  {s \in {[i \in DOMAIN models |-> models[p[i]]] : p \in Bijection(DOMAIN models, DOMAIN models)} :
     \A i, j \in DOMAIN s : i < j => s[i].id <= s[j].id}

\* try_new and try_new_trusted, which also orders the catalog by id.  A snapshot never
\* changes, so a behaviour has one.
NewPolicy(settings, models, asTrusted) ==
  /\ policy = None
  /\ asTrusted => MayTrust(models)
  /\ Valid(settings, models)
  /\ \E kept \in IF asTrusted THEN SortedById(models) ELSE {models} :
       policy' = WithBounds(settings, kept)
  /\ trusted' = asTrusted
  /\ UNCHANGED <<input, index, locals, decision>>

-----------------------------------------------------------------------------
\* prescribe_inner.

SaturatingInc(n) == Min({n + 1, MaxU16})
WrappingInc(n) == (n + 1) % (MaxU16 + 1)
IndexU16(i) == Min({i, MaxU16})

\* A gate's counter saturates; the budget and utility counters are plain additions.
CountRejection(counter) ==
  /\ rejected' = [rejected EXCEPT
                   ![counter] = IF counter \in {"budget", "utility"}
                                THEN WrappingInc(@) ELSE SaturatingInc(@)]
  /\ UNCHANGED <<best, second, eligible>>

\* Mutant of Rank: a candidate that does not win is never the second best.
RankWinnersOnly(candidate) ==
  /\ best' = IF best = None \/ CandidateBetter(candidate, best) THEN candidate ELSE best
  /\ second' = IF best # None /\ CandidateBetter(candidate, best) THEN best ELSE second

Rank(candidate) ==
  \/ /\ best = None
     /\ best' = candidate /\ UNCHANGED second
  \/ /\ best # None /\ CandidateBetter(candidate, best)
     /\ best' = candidate /\ second' = best
  \/ /\ best # None /\ ~CandidateBetter(candidate, best)
     /\ second' = IF second = None \/ CandidateBetter(candidate, second) THEN candidate ELSE second
     /\ UNCHANGED best

\* One round of the loop over the catalog.
Consider ==
  /\ index > 0 /\ index <= Len(policy.models)
  /\ LET m == policy.models[index]
         gate == FirstFailedGate(m, input)
         cost == Cost(policy, m, input)
         utility == Utility(policy, m, input)
     IN  \/ gate # None /\ CountRejection(Counter(gate))
         \/ gate = None /\ cost > input.budget /\ CountRejection("budget")
         \/ gate = None /\ cost <= input.budget /\ utility <= 0 /\ CountRejection("utility")
         \/ /\ gate = None /\ cost <= input.budget /\ utility > 0
            /\ eligible' = SaturatingInc(eligible)
            /\ Rank([id |-> m.id, index |-> IndexU16(index - 1), quality |-> m.quality,
                     cost |-> cost, utility |-> utility])
            /\ UNCHANGED rejected
  /\ index' = index + 1
  /\ UNCHANGED <<policy, trusted, input, decision>>

\* reject: model 0 at the last index stands for no model.
Reject(reason, evaluated, count) ==
  [action |-> "Reject", reason |-> reason, selected |-> 0, index |-> MaxU16, cost |-> 0,
   utility |-> 0, counterfactual |-> 0, counterfactualUtility |-> 0,
   evaluated |-> evaluated, eligible |-> count]

\* The decision after the loop.
Decide ==
  /\ index > 0 /\ index > Len(policy.models)
  /\ LET evaluated == IndexU16(Len(policy.models))
         requested == best # None /\ best.id = input.requested
     IN  decision' =
           IF best = None THEN Reject(DominantRejectionReason(rejected), evaluated, eligible)
           ELSE [action |-> IF requested THEN "ExecuteRequested" ELSE "Substitute",
                 reason |-> IF requested THEN "RequestedModelMaximizesUtility"
                                         ELSE "AlternativeMaximizesUtility",
                 selected |-> best.id, index |-> best.index, cost |-> best.cost,
                 utility |-> best.utility,
                 counterfactual |-> IF second = None THEN 0 ELSE second.id,
                 counterfactualUtility |-> IF second = None THEN 0 ELSE second.utility,
                 evaluated |-> evaluated, eligible |-> eligible]
  /\ index' = 0
  /\ UNCHANGED <<policy, trusted, input, locals>>

\* prescribe up to its loop; the unchecked entry point, so that r need not be valid.
Prescribe(r) ==
  /\ policy # None /\ input = None
  /\ input' = r
  /\ LET limit == HardLimit(policy, r)
     IN  \/ limit # None /\ decision' = Reject(limit, 0, 0) /\ UNCHANGED index
         \/ limit = None /\ index' = 1 /\ UNCHANGED decision
  /\ UNCHANGED <<policy, trusted, locals>>

\* The caller has taken the decision; the policy is ready for another request.
Return ==
  /\ decision # None
  /\ input' = None /\ index' = 0 /\ decision' = None
  /\ best' = None /\ second' = None /\ eligible' = 0 /\ rejected' = NoRejections
  /\ UNCHANGED <<policy, trusted>>

Init ==
  /\ policy = None /\ trusted = FALSE /\ input = None /\ index = 0 /\ decision = None
  /\ best = None /\ second = None /\ eligible = 0 /\ rejected = NoRejections

Next ==
  \/ \E t \in BOOLEAN : \E settings \in Settings(t), models \in Catalogs(t) :
       NewPolicy(settings, models, t)
  \/ \E r \in Inputs(trusted) : Prescribe(r)
  \/ Consider
  \/ Decide
  \/ Return

Spec == Init /\ [][Next]_vars

-----------------------------------------------------------------------------
\* What the kernel promises, stated with integers that have no width.

\* The utility of a model that costs the given amount.
ExactUtility(m, r, cost) ==
  ScaledTermReference(Value(r), r.confidence, m.quality)
  - ScaledTermReference(Value(r), r.risk, policy.settings.riskMultiplier)
  - cost - m.latency * policy.settings.latencyPenalty

\* The candidates a request may be served by.
Eligible ==
  {i \in DOMAIN policy.models :
     LET m == policy.models[i]
     IN  /\ \A gate \in Range(GateOrder) : ~Fails(gate, m, input)
         /\ ExactCost(m, input) <= input.budget
         /\ ExactUtility(m, input, ExactCost(m, input)) > 0}

\* The documented order: utility, then lower cost, higher quality, lower id.
Better(i, j) ==
  LET Key(k) == LET m == policy.models[k]
                IN  <<-ExactUtility(m, input, ExactCost(m, input)), ExactCost(m, input),
                      -m.quality, m.id>>
  IN  \E n \in 1..4 : /\ Key(i)[n] < Key(j)[n]
                      /\ \A l \in 1..(n - 1) : Key(i)[l] = Key(j)[l]

IdAt(i) == policy.models[i].id

\* prescribe_checked: past the hard limits, the selected model is the best of all eligible ones and
\* the counterfactual is the best of the others, ranked by exact prices; the request is
\* rejected only when there is none.  One pass with two registers and fast paths that wrap
\* must find what a comparison of all pairs finds.
SelectionIsBest ==
  decision # None /\ HardLimit(policy, input) = None /\ ValidInput(input) =>
    IF Eligible = {} THEN decision.action = "Reject"
    ELSE \E i \in Eligible :
           /\ decision.action # "Reject" /\ decision.selected = IdAt(i)
           /\ \A j \in Eligible \ {i} : Better(i, j)
           /\ IF Eligible = {i} THEN decision.counterfactual = 0
              ELSE \E j \in Eligible \ {i} :
                     /\ decision.counterfactual = IdAt(j)
                     /\ \A k \in Eligible \ {i, j} : Better(j, k)

\* Pricing: whichever path is chosen from the maxima of the catalog, the cost and the utility
\* of every model are the exact ones, limited to their widths.
PricesAreExact ==
  index > 0 =>
    \A i \in DOMAIN policy.models :
      LET m == policy.models[i]
      IN  /\ Cost(policy, m, input) = ModelCostReference(m, input)
          /\ Utility(policy, m, input) = ClampToI64(ExactUtility(m, input, ModelCostReference(m, input)))

\* How many of the candidates considered so far explain gives the verdict.
Given(verdict) ==
  LET explained == Explain(policy, input)
  IN  Cardinality({i \in DOMAIN explained : (decision # None \/ i < index) /\ explained[i].kind = verdict})

\* try_new_trusted: model 0 and the largest index mean "no model" and nothing else, so the
\* catalog of a trusted policy is never too long or too permissive for its decisions to be read.
RejectionIsRecognisable ==
  trusted /\ decision # None =>
    /\ decision.action = "Reject" <=> decision.selected = 0
    /\ decision.action = "Reject" <=> decision.index = MaxU16
    /\ decision.action # "Reject" => IdAt(decision.index + 1) = decision.selected

\* Whoever asks another way hears the same.  The numbers that explain gives for a candidate bear
\* its verdict out: the gate it names really is one that the candidate fails.  For a trusted
\* catalog the histogram and the eligible count of the walk are the numbers of candidates that
\* explain gives each verdict, and past the hard limits the reason of a rejection is one that
\* stopped the most.  utility_for_model never promises more than the decision delivers, and gives
\* the selected model's utility.  The walk ends with the winner of the comparison of all pairs,
\* whatever the input, as the callers that run prescribe whole (counterfactual.rs,
\* exploration.rs) rely on.
TellingsAgree ==
  /\ input # None =>
       LET explained == Explain(policy, input)
       IN  \A i \in DOMAIN explained : Bears(explained[i])
  /\ trusted /\ input # None =>
       /\ eligible = Given("eligible")
       /\ \A c \in DOMAIN rejected : rejected[c] = Given(c)
  /\ trusted /\ decision # None /\ HardLimit(policy, input) = None /\ decision.action = "Reject" =>
       \A c \in DOMAIN NoRejections : Given(c) <= Given(decision.reason)
  /\ decision # None =>
       \A i \in DOMAIN policy.models :
         LET answer == UtilityForModel(policy, input, IdAt(i))
         IN  /\ answer # None => decision.action # "Reject" /\ answer <= decision.utility
             /\ decision.action # "Reject" /\ IdAt(i) = decision.selected => answer = decision.utility
  /\ decision # None =>
       LET winner == Winner(policy, input)
       IN  IF winner = 0 THEN decision.action = "Reject"
           ELSE /\ decision.action # "Reject" /\ decision.selected = IdAt(winner)
                /\ decision.cost = Cost(policy, policy.models[winner], input)
=============================================================================
