-------------------------------- MODULE Adapters --------------------------------
(***************************************************************************)
(* The Python layers that put a domain in front of the kernel: supplier    *)
(* routing (python/calybris_commerce) and fixed quotes with the comparison *)
(* of two policies (python/calybris/decisions.py), over the builders and   *)
(* the bindings.                                                           *)
(*                                                                         *)
(* A percentage is a number of half basis points, so that one can fall     *)
(* between two basis points.  Names, texts and digests are left out.       *)
(***************************************************************************)
EXTENDS KernelPolicy, SequencesExt

CONSTANTS
  Suppliers,      \* SupplierSpecs that pass their field checks
  Orders,         \* OrderInputs that pass theirs
  Batches,        \* sequences of them
  Knobs,          \* the settings of a SupplierPolicy
  Quotes,         \* sequences of Candidates
  Configs,        \* EngineConfigs
  Requests,       \* DecisionRequests
  MaxSuppliers,   \* bound: suppliers added
  MaxRequests,    \* max_requests of compare_policies
  MaxChanges      \* max_changes of compare_policies

VARIABLES
  suppliers,   \* SupplierPolicy._suppliers
  shop,        \* the EcomEngine's policy, None before build_engine
  route,       \* the last answer of the EcomEngine
  compared     \* compare_policies as it runs: the engines, the requests taken and the totals

adapterVars == <<suppliers, shop, route, compared>>

-----------------------------------------------------------------------------
\* The bindings.

\* PolicySnapshot(...): only trusted catalogs, ordered by id; None when it raises.
NewSnapshot(settings, models) ==
  IF MayTrust(models) /\ Valid(settings, models)
  THEN WithBounds(settings, SortSeq(models, LAMBDA m, n : m.id < n.id)) ELSE None

\* How many candidates explain gives each verdict: the trace.
Trace(p, r) ==
  LET rows == Explain(p, r)
  IN  [c \in ToSet(ReasonOrder) |-> Cardinality({i \in DOMAIN rows : rows[i].kind = c})]

\* The decision for the candidate w, 0 for none, with the fields the adapters read.
DecisionFor(p, r, w) ==
  LET m == p.models[w]
  IN  IF w = 0
      THEN [action |-> "Reject", selected |-> 0, cost |-> 0, utility |-> 0,
            reason |-> IF HardLimit(p, r) # None THEN HardLimit(p, r)
                       ELSE DominantRejectionReason(Trace(p, r))]
      ELSE [action |-> IF m.id = r.requested THEN "ExecuteRequested" ELSE "Substitute",
            selected |-> m.id, cost |-> Cost(p, m, r), utility |-> Utility(p, m, r),
            reason |-> IF m.id = r.requested THEN "RequestedModelMaximizesUtility"
                                            ELSE "AlternativeMaximizesUtility"]

\* prescribe.
Prescribed(p, r) == DecisionFor(p, r, Winner(p, r))

-----------------------------------------------------------------------------
\* calybris_commerce.

\* _percentage_to_bps rounds half up.
PercentageToBps(v) == (v + 1) \div 2

ModelSpecs(list) ==
  [i \in DOMAIN list |->
     LET s == list[i]
     IN  [id |-> s.id, provider |-> s.group, quality |-> PercentageToBps(s.reliability),
          ceiling |-> PercentageToBps(s.tolerance), enabled |-> s.enabled, latency |-> s.sla,
          capabilities |-> s.capabilities, regions |-> s.regions, inputCost |-> s.shipping,
          outputCost |-> s.handling]]

AddSupplier(s) ==
  /\ route = None /\ Len(suppliers) < MaxSuppliers
  /\ suppliers' = Append(suppliers, s)
  /\ UNCHANGED <<shop, route, compared>>

\* SupplierPolicy.build and build_engine.
BuildEngine(knobs) ==
  LET settings == [hardRisk |-> PercentageToBps(knobs.maxRisk),
                   minConfidence |-> PercentageToBps(knobs.minConfidence),
                   riskMultiplier |-> knobs.riskMultiplier,
                   latencyPenalty |-> knobs.latencyPenalty]
  IN  /\ shop = None
      /\ suppliers # <<>>
      /\ \A i, j \in DOMAIN suppliers : suppliers[i].id = suppliers[j].id => i = j
      /\ \E i \in DOMAIN suppliers : suppliers[i].enabled = 1
      /\ NewSnapshot(settings, ModelSpecs(suppliers)) # None
      /\ shop' = [policy |-> NewSnapshot(settings, ModelSpecs(suppliers)), built |-> suppliers]
      /\ UNCHANGED <<suppliers, route, compared>>

\* Mutant of ToKernelInput: an order is one unit of input and none of output.
ToKernelInputShipped(o) ==
  [inputTokens |-> CostScale, outputTokens |-> 0, value |-> o.value,
   budget |-> o.budget, risk |-> PercentageToBps(o.risk),
   confidence |-> PercentageToBps(o.confidence), requested |-> o.requested,
   minQuality |-> PercentageToBps(o.reliability), maxLatency |-> o.hours,
   capabilities |-> o.capabilities, providers |-> o.groups, regions |-> o.regions]

\* _to_kernel_input: an order is one unit of input and one of output.
ToKernelInput(o) ==
  [inputTokens |-> CostScale, outputTokens |-> CostScale, value |-> o.value,
   budget |-> o.budget, risk |-> PercentageToBps(o.risk),
   confidence |-> PercentageToBps(o.confidence), requested |-> o.requested,
   minQuality |-> PercentageToBps(o.reliability), maxLatency |-> o.hours,
   capabilities |-> o.capabilities, providers |-> o.groups, regions |-> o.regions]

Status(d, requested) ==
  IF d.action = "Reject" THEN "rejected"
  ELSE IF requested = 0 \/ d.action = "ExecuteRequested" THEN "accepted" ELSE "substituted"

NoSummary == [c \in {} |-> 0]

\* _summary_for_decision: the counts that are not zero; a rejection without any gives its reason.
Summary(d, trace) ==
  LET stopped == {c \in DOMAIN trace : trace[c] > 0}
  IN  IF stopped # {} \/ d.action # "Reject" THEN [c \in stopped |-> trace[c]]
      ELSE [c \in {d.reason} |-> 1]

RouteResult(o, d, trace) ==
  [status |-> Status(d, o.requested), chosen |-> d.selected, cost |-> d.cost,
   summary |-> Summary(d, trace)]

RouteOrder(o) ==
  /\ shop # None /\ route = None
  /\ LET r == ToKernelInput(o)
     IN  route' = [orders |-> <<o>>, mode |-> None, histogram |-> NoSummary,
                   results |-> <<RouteResult(o, Prescribed(shop.policy, r), Trace(shop.policy, r))>>]
  /\ UNCHANGED <<suppliers, shop, compared>>

\* The results of a batch have no trace; in the trace_mode "summary", not in the default
\* "compact", the histogram counts the rejections by reason.
BatchResult(orders, d, mode) ==
  LET rejected == {i \in DOMAIN orders : mode = "summary" /\ d[i].action = "Reject"}
  IN  [orders |-> orders, mode |-> mode,
       histogram |-> [c \in {d[i].reason : i \in rejected} |->
                        Cardinality({i \in rejected : d[i].reason = c})],
       results |-> [i \in DOMAIN orders |-> RouteResult(orders[i], d[i], NoSummary)]]

RouteBatch(orders, mode) ==
  /\ shop # None /\ route = None
  /\ route' = BatchResult(orders,
                [i \in DOMAIN orders |-> Prescribed(shop.policy, ToKernelInput(orders[i]))],
                mode)
  /\ UNCHANGED <<suppliers, shop, compared>>

-----------------------------------------------------------------------------
\* decisions.py.

NativeModel(c) ==
  [id |-> c.id, provider |-> c.provider, quality |-> c.quality, ceiling |-> c.ceiling,
   enabled |-> c.enabled, latency |-> c.lead, capabilities |-> c.capabilities,
   regions |-> c.regions, inputCost |-> c.quoted, outputCost |-> 0]

NativeInput(r) ==
  [inputTokens |-> CostScale, outputTokens |-> 0, value |-> r.value, budget |-> r.budget,
   risk |-> r.risk, confidence |-> r.confidence, requested |-> r.requested,
   minQuality |-> r.minQuality, maxLatency |-> r.maxLead, capabilities |-> r.capabilities,
   providers |-> r.providers, regions |-> r.regions]

\* DecisionEngine: the catalog in the order of ids, which its digest is of, and the policy.
DecisionEngine(quotes, config) ==
  LET sorted == SortSeq(quotes, LAMBDA a, b : a.id < b.id)
  IN  [catalog |-> sorted, config |-> config,
       policy |-> NewSnapshot(config, [i \in DOMAIN sorted |-> NativeModel(sorted[i])])]

\* DecisionResult, of the native decision.
DecisionResult(d) ==
  [status |-> IF d.action # "Reject" THEN "selected" ELSE "rejected",
   candidate |-> IF d.action # "Reject" THEN d.selected ELSE None, decision |-> d]

\* decide.
DecideQuote(engine, r) == DecisionResult(Prescribed(engine.policy, NativeInput(r)))

\* _outcome.
SameOutcome(old, new) == old.decision = new.decision

\* compare_policies up to its loop.
BeginComparison(before, after) ==
  /\ compared = None
  /\ before.policy # None /\ after.policy # None
  /\ before.catalog = after.catalog
  /\ compared' = [before |-> before, after |-> after, requests |-> <<>>, total |-> 0,
                  changed |-> 0, newlyRejected |-> 0, changes |-> <<>>, raised |-> FALSE]
  /\ UNCHANGED <<suppliers, shop, route>>

\* The totals after one more request, of the two decisions on it.
Counted(r, old, new) ==
  LET differ == ~SameOutcome(old, new)
      index == Len(compared.requests)
  IN  [compared EXCEPT
        !.requests = Append(@, r),
        !.total = @ + 1,
        !.newlyRejected =
           @ + (IF old.status = "selected" /\ new.status = "rejected" THEN 1 ELSE 0),
        !.changed = @ + (IF differ THEN 1 ELSE 0),
        !.changes = IF differ /\ Len(@) < MaxChanges
                    THEN Append(@, [index |-> index, before |-> old, after |-> new])
                    ELSE @]

\* The loop, for the next request of the iterable; the one past the limit raises.
Compare(r) ==
  /\ compared # None /\ ~compared.raised
  /\ compared' =
       IF Len(compared.requests) >= MaxRequests THEN [compared EXCEPT !.raised = TRUE]
       ELSE Counted(r, DecideQuote(compared.before, r), DecideQuote(compared.after, r))
  /\ UNCHANGED <<suppliers, shop, route>>

-----------------------------------------------------------------------------
AdaptersInit == suppliers = <<>> /\ shop = None /\ route = None /\ compared = None

CommerceNext ==
  \/ \E s \in Suppliers : AddSupplier(s)
  \/ \E k \in Knobs : BuildEngine(k)
  \/ /\ shop # None /\ route = None
     /\ \/ \E o \in Orders : RouteOrder(o)
        \/ \E batch \in Batches, mode \in {"compact", "summary"} : RouteBatch(batch, mode)

ComparisonNext ==
  \/ \E q \in Quotes, q2 \in Quotes, old, new \in Configs :
       BeginComparison(DecisionEngine(q, old), DecisionEngine(q2, new))
  \/ \E r \in Requests : Compare(r)

-----------------------------------------------------------------------------
\* A supplier as built, by id.
Supplier(id) == CHOOSE s \in ToSet(shop.built) : s.id = id

\* What an order asks of a supplier, in the terms of the shop.
Serves(s, o) ==
  /\ s.enabled = 1
  /\ PercentageToBps(s.reliability) >= PercentageToBps(o.reliability)
  /\ PercentageToBps(s.tolerance) >= PercentageToBps(o.risk)
  /\ o.hours > 0 => s.sla <= o.hours
  /\ o.capabilities \subseteq s.capabilities
  /\ o.groups # AllProviders => s.group \in o.groups
  /\ o.regions # {} => s.regions \cap o.regions # {}
  /\ s.shipping + s.handling <= o.budget

\* What an engine decides on each of the requests taken.
DecidedBy(engine) ==
  [i \in DOMAIN compared.requests |-> DecideQuote(engine, compared.requests[i])]

\* The totals and the stored changes, of all that either engine decides.
ComparisonIsExact(old, new) ==
  LET n == Len(compared.requests)
      differing == SelectSeq([i \in 1..n |-> i], LAMBDA i : ~SameOutcome(old[i], new[i]))
  IN  /\ compared.total = n /\ n <= MaxRequests
      /\ compared.changed = Len(differing)
      /\ compared.newlyRejected =
           Cardinality({i \in 1..n : old[i].candidate # None /\ new[i].candidate = None})
      /\ [k \in DOMAIN compared.changes |-> compared.changes[k].index + 1]
           = SubSeq(differing, 1, Min({Len(differing), MaxChanges}))
      /\ \A i \in 1..n : old[i].candidate # None =>
           \E c \in ToSet(compared.before.catalog) :
             c.id = old[i].candidate /\ c.quoted = old[i].decision.cost

\* The adapters add nothing to the kernel and lose nothing of it.  route_order and route_batch
\* name a supplier that was in the catalog when the engine was built and serves the order, at
\* exactly shipping plus handling ("makes shipping_cost_microunits pass through unchanged"),
\* accepted when no other was asked for; a rejection says why.  The histogram of a batch has, in
\* the mode "summary", for each reason how many of its orders give that reason, and is empty in
\* the mode "compact".
\* compare_policies caps "stored details without truncating totals", whatever was compared
\* before: its numbers are those of the requests taken, its changes the first ones.
AdaptersAreExact ==
  /\ route # None =>
       /\ \A i \in DOMAIN route.orders :
            LET o == route.orders[i]
                got == route.results[i]
            IN  /\ got.status = "rejected" <=> got.chosen = 0
                /\ got.status = "rejected" => got.summary # NoSummary
                /\ got.status # "rejected" =>
                     /\ \E s \in ToSet(shop.built) : s.id = got.chosen
                     /\ Serves(Supplier(got.chosen), o)
                     /\ got.cost = Supplier(got.chosen).shipping + Supplier(got.chosen).handling
                     /\ got.status = "accepted" <=> o.requested \in {0, got.chosen}
       /\ route.mode = "compact" => route.histogram = NoSummary
       /\ route.mode = "summary" =>
            LET because(c) == {i \in DOMAIN route.results :
                                 /\ route.results[i].status = "rejected"
                                 /\ c \in DOMAIN route.results[i].summary}
            IN  \A c \in DOMAIN route.histogram \cup ToSet(ReasonOrder) :
                  (IF c \in DOMAIN route.histogram THEN route.histogram[c] ELSE 0)
                    = Cardinality(because(c))
  /\ compared # None => ComparisonIsExact(DecidedBy(compared.before), DecidedBy(compared.after))
=============================================================================
