-------------------------------- MODULE Learning --------------------------------
(***************************************************************************)
(* How a decision is acted on and what is learnt from it: the draw of      *)
(* src/exploration.rs, the record of what happened, src/outcome.rs, and    *)
(* the use an off-policy estimate makes of that record, src/ope.rs.        *)
(*                                                                         *)
(* A word of the draw is any u64: HMAC under a key that the requests do    *)
(* not know.  Digests are the values they are taken of.  The sums of an    *)
(* estimate are floating point and are left out: an entry of the log is    *)
(* excluded, matched, unsupported, or used with weight zero.               *)
(***************************************************************************)
EXTENDS KernelPolicy, FiniteSets

CONSTANTS
  LogPolicies, LogInputs,   \* what the log was made under, and what it may be evaluated against
  Rates, WindowSizes        \* fields of ExplorationConfig

VARIABLES
  draw,      \* the call of explore under way, None before and after it
  record,    \* the ExplorationRecord it returned
  entry,     \* the log entry made of it: a request, an Outcome and the exact propensity
  verdict    \* what an estimate made of the entry

learningVars == <<draw, record, entry, verdict>>

Words == 0..MaxU64
IdAt(p, i) == IF i = 0 THEN 0 ELSE p.models[i].id
SelectedId(p, r) == IdAt(p, Winner(p, r))

-----------------------------------------------------------------------------
\* explore.

\* The eligible candidates other than the best whose utility is in the window, in catalog order.
Others(p, r, window, best) ==
  LET floor == Utility(p, p.models[best], r) - window
      near == SelectSeq([i \in DOMAIN p.models |-> i],
                        LAMBDA i : /\ i # best
                                   /\ Explain(p, r)[i].kind = "eligible"
                                   /\ Utility(p, p.models[i], r) >= floor)
  IN  [j \in DOMAIN near |-> p.models[near[j]].id]

\* Mutant of Refused: the bound is one too high.
RefusedOneLess(n, word) ==
  LET rejected == ((MaxU64 % n) + 1) % n
  IN  rejected # 0 /\ word > MaxU64 + 1 - rejected

\* uniform: the words at the top that would favour the first results.
Refused(n, word) ==
  LET rejected == ((MaxU64 % n) + 1) % n
  IN  rejected # 0 /\ word >= MaxU64 + 1 - rejected

\* What the two numbers of the draw make explore act on; others are ids.
ActedOn(selected, others, rate, roll, pick) ==
  IF others # <<>> /\ roll < rate /\ pick > 0
  THEN [id |-> others[pick], explored |-> TRUE]
  ELSE [id |-> selected, explored |-> FALSE]

Numerator(k, rate, explored) ==
  IF k = 1 THEN BasisPoints * k
  ELSE IF explored THEN rate
  ELSE (BasisPoints - rate) * k + rate

\* The record, with the locals of explore that it was made from.
RecordOf(d, pick) ==
  LET k == Len(d.others) + 1
      acted == ActedOn(d.selected, d.others, d.rate, d.roll, pick)
  IN  [policy |-> d.policy, input |-> d.input, rate |-> d.rate,
       selected |-> d.selected, others |-> d.others,
       acted |-> acted.id, explored |-> acted.explored, size |-> k,
       num |-> Numerator(k, d.rate, acted.explored), den |-> BasisPoints * k]

NothingActedOn(p, r, rate) ==
  [policy |-> p, input |-> r, rate |-> rate, selected |-> 0, others |-> <<>>,
   acted |-> 0, explored |-> FALSE, size |-> 0, num |-> 1, den |-> 1]

\* A request without a selection needs no draw.
BeginDraw(p, r, rate, window, best) ==
  IF best = 0
  THEN record' = NothingActedOn(p, r, rate) /\ UNCHANGED draw
  ELSE /\ \E w \in Words :
            draw' = [policy |-> p, input |-> r, rate |-> rate,
                     selected |-> IdAt(p, best), others |-> Others(p, r, window, best),
                     roll |-> None, word |-> w]
       /\ UNCHANGED record

\* A rate over one is refused.
Explore(p, r, rate, window) ==
  /\ draw = None /\ record = None
  /\ rate <= BasisPoints
  /\ BeginDraw(p, r, rate, window, Winner(p, r))
  /\ UNCHANGED <<entry, verdict>>

\* How many values the number being drawn may take.
Sides == IF draw.roll = None THEN BasisPoints
         ELSE Len(draw.others) + 1

\* A refused word is replaced by the next one.
Retry ==
  /\ draw # None /\ Refused(Sides, draw.word)
  /\ \E w \in Words : draw' = [draw EXCEPT !.word = w]
  /\ UNCHANGED <<record, entry, verdict>>

TakeRoll ==
  /\ draw # None /\ draw.roll = None /\ ~Refused(Sides, draw.word)
  /\ \E w \in Words : draw' = [draw EXCEPT !.roll = draw.word % BasisPoints, !.word = w]
  /\ UNCHANGED <<record, entry, verdict>>

TakePick ==
  /\ draw # None /\ draw.roll # None /\ ~Refused(Sides, draw.word)
  /\ record' = RecordOf(draw, draw.word % Sides)
  /\ draw' = None
  /\ UNCHANGED <<entry, verdict>>

-----------------------------------------------------------------------------
\* Outcomes.

\* Mutant of Rounded: a small probability rounds to none.
RoundedToZero(num, den) == (num * BasisPoints + den \div 2) \div den

\* Propensity::to_bps and ExplorationRecord::propensity_bps: nearest, never below one.
Rounded(num, den) == Max({1, Min({(num * BasisPoints + den \div 2) \div den, BasisPoints})})

\* Selection::followed and Selection::explored, and a choice made by a person.
Followed(id) == [strategy |-> "MaximiseUtility", acted |-> id, bps |-> BasisPoints]
Explored(id, bps) == [strategy |-> "Explore", acted |-> id, bps |-> bps]
Human(id) == [strategy |-> "Human", acted |-> id, bps |-> None]

\* ExplorationRecord::selection, asked of a record that acts on something.
SelectionOf(rec) ==
  IF ~rec.explored /\ rec.num = rec.den THEN Followed(rec.acted)
  ELSE Explored(rec.acted, Rounded(rec.num, rec.den))

ValidSelection(s) ==
  \/ s.strategy = "Human" /\ s.bps = None
  \/ s.strategy = "Explore" /\ s.bps # None /\ s.bps \in 1..BasisPoints
  \/ s.strategy = "MaximiseUtility" /\ s.bps = BasisPoints

\* The fields of an Observation are present or absent.
ValidObservation(disposition, observed) ==
  \/ disposition = "Applied" /\ observed # {}
  \/ disposition = "Abandoned" /\ observed = {}
  \/ disposition = "InFlight" /\ "succeeded" \notin observed

\* Outcome::validate.
ValidOutcome(o) ==
  ValidSelection(o.selection) /\ ValidObservation(o.disposition, o.observed)

\* DecisionIdentity::of: the digests of the policy, the request and the decision.
IdentityOf(p, r, selected) == [policy |-> p, input |-> r, selected |-> selected]

\* Outcome::validate_against, for the decision of the policy on the request.
ValidAgainst(o, p, r, selected) ==
  /\ ValidOutcome(o)
  /\ o.identity = IdentityOf(p, r, selected)
  /\ selected = 0 => o.disposition = "Abandoned"
  /\ o.selection.strategy = "MaximiseUtility" => o.selection.acted = selected
  /\ selected # 0 => \E i \in DOMAIN p.models : p.models[i].id = o.selection.acted

\* What a caller reports: what became of it, what was measured, and what it is worth.
Reports ==
  {"Applied", "Abandoned", "InFlight"} \X SUBSET {"cost", "succeeded"}
Rewards == {"none", "finite", "infinite"}

\* The caller writes an outcome for the record, or for a person's choice instead, and files
\* it under a request.
Log(selection, report, reward, filed) ==
  /\ record # None /\ record.acted # 0 /\ entry = None
  /\ entry' = [input |-> filed, num |-> record.num, den |-> record.den, reward |-> reward,
               outcome |-> [identity |-> IdentityOf(record.policy, record.input, record.selected),
                            selection |-> selection,
                            disposition |-> report[1], observed |-> report[2]]]
  /\ UNCHANGED <<draw, record, verdict>>

-----------------------------------------------------------------------------
\* Estimates.

Usable(e) == ValidOutcome(e.outcome) /\ e.outcome.identity.input = e.input

\* The propensity an estimate uses: evaluate reads it off the outcome, evaluate_exact is
\* given it and compares; None excludes the entry.
Propensity(e, exact) ==
  LET bps == e.outcome.selection.bps
  IN  IF exact THEN IF bps = Rounded(e.num, e.den) THEN [num |-> e.num, den |-> e.den] ELSE None
      ELSE IF bps # None /\ bps \in 1..BasisPoints THEN [num |-> bps, den |-> BasisPoints]
      ELSE None

\* What evaluate or evaluate_exact, and estimate after it, make of an entry for whose request
\* the target selects `wanted`.
Classified(wanted, e, exact) ==
  LET p == Propensity(e, exact)
  IN  IF p = None \/ e.reward # "finite" \/ ~Usable(e) THEN "excluded"
      ELSE IF wanted # 0 /\ wanted = e.outcome.selection.acted THEN "matched"
      ELSE IF wanted # 0 /\ p.num = p.den THEN "unsupported"
      ELSE "weightless"

Evaluate(target, exact) ==
  /\ entry # None /\ verdict = None
  /\ verdict' = [target |-> target, exact |-> exact,
                 class |-> Classified(SelectedId(target, entry.input), entry, exact)]
  /\ UNCHANGED <<draw, record, entry>>

\* Nothing is kept for the next request.
Learnt ==
  /\ record # None
  /\ verdict # None \/ record.acted = 0
  /\ UNCHANGED learningVars

LearningInit == draw = None /\ record = None /\ entry = None /\ verdict = None

LearningNext ==
  \/ \E p \in LogPolicies, r \in LogInputs, rate \in Rates, window \in WindowSizes :
       Explore(p, r, rate, window)
  \/ Retry \/ TakeRoll \/ TakePick
  \/ /\ record # None /\ record.acted # 0 /\ entry = None
     /\ \E selection \in {SelectionOf(record), Human(record.acted)}, report \in Reports,
           reward \in Rewards, filed \in LogInputs :
          Log(selection, report, reward, filed)
  \/ \E target \in LogPolicies, exact \in BOOLEAN : Evaluate(target, exact)
  \/ Learnt

-----------------------------------------------------------------------------
\* The numbers of the draw that acted on id, over every pair of words that is not refused.
Accepted(n) == {w \in Words : ~Refused(n, w)}

Ways(rec, id) ==
  {w \in Accepted(BasisPoints) \X Accepted(rec.size) :
     ActedOn(rec.selected, rec.others, rec.rate, w[1] % BasisPoints, w[2] % rec.size).id = id}

\* explore, exploration.rs:92-93: when it returns, the recorded numerator over the denominator
\* is "The exact probability that this mechanism acts on `acted_model_id`", counted over all the
\* words of the two numbers, those that uniform refuses left out.
PropensityIsExact ==
  record # None /\ record.acted # 0 /\ entry = None =>
    Cardinality(Ways(record, record.acted)) * record.den
      = record.num * Cardinality(Accepted(BasisPoints)) * Cardinality(Accepted(record.size))

\* evaluate_exact does right by a truthful log.  Two roundings in two modules and two validators
\* agree, so an outcome that reports its record is valid against its decision and is not set
\* aside.  Whatever request an entry was filed under, a match is one on the request that was
\* decided, and what Estimate::unsupported counts as "could never have chosen", ope.rs:178-179,
\* is what the target selects there and no words lead to.
ExactEstimateIsFair ==
  verdict # None /\ verdict.exact =>
    LET o == entry.outcome
    IN  /\ o.selection.strategy # "Human" /\ ValidObservation(o.disposition, o.observed)
           /\ entry.input = record.input /\ entry.reward = "finite" =>
             /\ ValidAgainst(o, record.policy, record.input, SelectedId(record.policy, record.input))
             /\ verdict.class # "excluded"
        /\ verdict.class = "matched" => SelectedId(verdict.target, record.input) = o.selection.acted
        /\ verdict.class = "unsupported" =>
             Ways(record, SelectedId(verdict.target, record.input)) = {}
=============================================================================
