--------------------------- MODULE MCDecisionKernel ---------------------------
(* Runs of DecisionKernel with narrow integers and catalogs of up to four models. *)
EXTENDS DecisionKernel

Model(id, quality, latency, in, out) ==
  [id |-> id, provider |-> 0, quality |-> quality, ceiling |-> BasisPoints, enabled |-> 1,
   latency |-> latency, capabilities |-> {0}, regions |-> {0},
   inputCost |-> in, outputCost |-> out]

Request(in, out, value, budget, risk, confidence) ==
  [inputTokens |-> in, outputTokens |-> out, value |-> value, budget |-> budget,
   risk |-> risk, confidence |-> confidence, requested |-> 1, minQuality |-> 0,
   maxLatency |-> 0, capabilities |-> {}, providers |-> AllProviders, regions |-> {}]

PricedSettings ==
  [hardRisk : {2}, minConfidence : {1}, riskMultiplier : {0, 3}, latencyPenalty : {1, 5}]

\* Cheap, good, dear and slow models: their products fit u64, fill it or exceed it.
PricedModels(id) ==
  {Model(id, 1, 0, 1, 0), Model(id, 2, 1, 2, 1), Model(id, 2, 0, 8, 0),
   Model(id, 2, 4, 0, 7)}

PricedCatalogs ==
  UNION {{<<a>>, <<a, b>>, <<a, b, c>>} :
           a \in PricedModels(2), b \in PricedModels(3),
           c \in {Model(1, 2, 1, 2, 1), Model(1, 2, 0, 8, 0)}}
  \cup {<<a, b>> : a \in PricedModels(1), b \in PricedModels(0)}

PricedInputs ==
  {Request(in, out, value, budget, risk, confidence) :
     in \in {1, 2}, out \in {0, 2}, value \in {-1, 7}, budget \in {1, 15},
     risk \in 0..1, confidence \in {0, 2, 3}}

\* Models that each fail a gate of their own, and a plain one.
GatedModels(id) ==
  LET plain == Model(id, 2, 1, 1, 1)
  IN  {plain, [plain EXCEPT !.quality = 1], [plain EXCEPT !.latency = 3],
       [plain EXCEPT !.capabilities = {}], [plain EXCEPT !.provider = 1],
       [plain EXCEPT !.regions = {}, !.ceiling = 0], [plain EXCEPT !.enabled = 0]}

GatedCatalogs ==
  {<<a, b, c>> : a \in GatedModels(2), b \in GatedModels(3),
                 c \in {Model(1, 2, 1, 1, 1), Model(1, 1, 1, 1, 1)}}
  \cup {<<a, b>> : a \in GatedModels(1), b \in GatedModels(0) \cup GatedModels(1)}
  \cup {<<a, a2, a3, a4>> : a \in GatedModels(1), a2 \in GatedModels(2),
                            a3 \in {Model(3, 2, 1, 1, 1)}, a4 \in {Model(4, 2, 1, 1, 1)}}

GatedInputs ==
  {[Request(1, 1, 7, budget, risk, 2) EXCEPT
      !.minQuality = q, !.maxLatency = l, !.capabilities = c, !.providers = p, !.regions = g] :
     budget \in {1, 15}, risk \in {1, 2}, q \in {0, 2}, l \in {0, 2}, c \in {{}, {0}},
     p \in {AllProviders, {0}}, g \in {{}, {0}}}

GatedSettings ==
  [hardRisk : {2}, minConfidence : {1}, riskMultiplier : {1}, latencyPenalty : {1}]

\* Policies of try_new vary in price, those of try_new_trusted in what the gates look at.
MCCatalogs(trusting) == IF trusting THEN GatedCatalogs ELSE PricedCatalogs
MCSettings(trusting) == IF trusting THEN GatedSettings ELSE PricedSettings
MCInputs(trusting) == IF trusting THEN GatedInputs ELSE PricedInputs
=============================================================================
