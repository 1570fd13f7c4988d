------------------------------- MODULE MCAnalysis -------------------------------
(***************************************************************************)
(* What is asked of a policy besides a decision, in one run: the searches  *)
(* of Counterfactual, the draws, outcomes and estimates of Learning, or the*)
(* two Python layers of Adapters.                                          *)
(***************************************************************************)
EXTENDS Counterfactual, Learning, Adapters

VARIABLE part  \* which part moves

allVars == <<vars, learningVars, adapterVars, part>>

Model(id, quality, latency, ceiling, enabled, price) ==
  [id |-> id, provider |-> 0, quality |-> quality, ceiling |-> ceiling, enabled |-> enabled,
   latency |-> latency, capabilities |-> {}, regions |-> {}, inputCost |-> price,
   outputCost |-> price]

\* Searches: the candidate in question against rivals it beats, ties with or loses to.
MCSettings ==
  [hardRisk : {3}, minConfidence : {1}, riskMultiplier : {2}, latencyPenalty : {0, 1}]

MCPolicies ==
  {WithBounds(s, <<Model(id, q, l, c, e, price), rival>>) :
     s \in MCSettings, id \in {1, 3}, q \in {1, 3, 4}, l \in {0, 3}, c \in {0, 4}, e \in {0, 1},
     price \in {0, 3},
     rival \in {Model(2, 4, 1, 4, 1, 2), Model(2, 2, 0, 2, 1, 0)}}

MCInputs ==
  {[inputTokens |-> 2, outputTokens |-> 1, value |-> purse[1], budget |-> purse[2], risk |-> risk,
    confidence |-> 4, requested |-> 1, minQuality |-> floor[1], maxLatency |-> floor[2],
    capabilities |-> {}, providers |-> AllProviders, regions |-> {}] :
     purse \in {<<2, 31>>, <<12, 2>>, <<12, 31>>}, risk \in {0, 1, 3},
     floor \in {<<0, 0>>, <<2, 0>>, <<0, 2>>}}

\* Draws: one to three eligible candidates, near to or far from the winner, which is not the
\* same for every request.
MCLogPolicies ==
  LET s == [hardRisk |-> 3, minConfidence |-> 1, riskMultiplier |-> 2, latencyPenalty |-> 1]
  IN  {WithBounds(s, <<Model(1, 4, 0, 4, 1, 2)>>),
       WithBounds(s, <<Model(1, 4, 1, 4, 1, 2), Model(2, 4, 0, 0, 1, 2)>>),
       WithBounds(s, <<Model(2, 4, 0, 4, 1, 2), Model(1, 4, 1, 4, 1, 2), Model(3, 3, 0, 4, 1, 2)>>)}

MCLogInputs == {r \in MCInputs : /\ r.value = 12 /\ r.budget = 31 /\ r.maxLatency = 0
                                 /\ r.minQuality = 0 /\ r.risk \in {0, 1, 3}}

\* Suppliers that differ in one thing each, with percentages between two basis points.
MCSupplier(id, reliability, tolerance, sla, shipping, handling, regions, enabled) ==
  [id |-> id, reliability |-> reliability, tolerance |-> tolerance, sla |-> sla,
   shipping |-> shipping, handling |-> handling, capabilities |-> regions, regions |-> regions,
   group |-> IF enabled = 1 THEN 0 ELSE 1, enabled |-> enabled]

MCSuppliers ==
  {MCSupplier(1, 8, 7, 1, 3, 2, {1}, 1), MCSupplier(2, 7, 8, 2, 1, 0, {}, 1),
   MCSupplier(2, 5, 8, 0, 0, 4, {1, 2}, 1), MCSupplier(3, 8, 8, 0, 31, 31, {1}, 1),
   MCSupplier(3, 8, 8, 1, 0, 0, {1}, 0)}

MCOrders ==
  {[value |-> 15, budget |-> budget, risk |-> risk, confidence |-> confidence,
    requested |-> requested, reliability |-> reliability, hours |-> hours,
    capabilities |-> {}, groups |-> AllProviders, regions |-> regions] :
     budget \in {4, 31}, risk \in {1, 4}, confidence \in {3, 8}, requested \in {0, 2},
     reliability \in {0, 7}, hours \in {0, 1}, regions \in {{}, {1}}}

MCBatches ==
  {<<o1, o2>> : o1, o2 \in {o \in MCOrders : /\ o.hours = 0 /\ o.reliability = 0 /\ o.regions = {}
                                             /\ o.requested = 2 /\ o.risk = 1}}

MCKnobs == [maxRisk : {8, 3}, minConfidence : {3}, riskMultiplier : {2}, latencyPenalty : {1}]

\* Quotes in both orders, and configurations under which other candidates win or none does.
MCQuote(id, quality, quoted) ==
  [id |-> id, provider |-> 0, quality |-> quality, ceiling |-> 4, enabled |-> 1,
   lead |-> IF id = 1 THEN 3 ELSE 0, capabilities |-> {}, regions |-> {}, quoted |-> quoted]

MCQuotes ==
  {<<MCQuote(1, 4, 1), MCQuote(2, 3, 0)>>, <<MCQuote(2, 3, 0), MCQuote(1, 4, 1)>>,
   <<MCQuote(1, 4, 3)>>, <<MCQuote(1, 4, 3), MCQuote(1, 4, 3)>>}

MCConfigs ==
  [hardRisk : {2, 4}, minConfidence : {1}, riskMultiplier : {0, 8}, latencyPenalty : {0, 2}]

MCRequests ==
  {[value |-> purse[1], budget |-> purse[2], risk |-> risk, confidence |-> 4, requested |-> 0,
    minQuality |-> 0, maxLead |-> 0, capabilities |-> {}, providers |-> AllProviders,
    regions |-> {}] : purse \in {<<6, 9>>, <<15, 1>>, <<15, 9>>}, risk \in {0, 3}}

AnalysisInit ==
  /\ part \in {"searches", "learning", "commerce", "comparison"}
  /\ Init /\ LearningInit /\ AdaptersInit

AnalysisNext ==
  \/ part = "searches" /\ Next /\ UNCHANGED <<learningVars, adapterVars, part>>
  \/ part = "learning" /\ LearningNext /\ UNCHANGED <<vars, adapterVars, part>>
  \/ part = "commerce" /\ CommerceNext /\ UNCHANGED <<vars, learningVars, part>>
  \/ part = "comparison" /\ ComparisonNext /\ UNCHANGED <<vars, learningVars, part>>

AnalysisSpec == AnalysisInit /\ [][AnalysisNext]_allVars
=============================================================================
