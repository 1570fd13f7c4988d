----------------------------- MODULE Counterfactual -----------------------------
(***************************************************************************)
(* src/counterfactual.rs: what_would_win looks, lever by lever, for the    *)
(* smallest change after which a candidate is selected, and decision_margin*)
(* for how far the levers of the selected one can move.  Both run the      *)
(* kernel on a copy of the policy and halve an interval; each run of the   *)
(* kernel inside the interval is a step.                                   *)
(*                                                                         *)
(* The cost that is reported beside a price is the cost of the decision at *)
(* the boundary and is left out.                                           *)
(***************************************************************************)
EXTENDS KernelPolicy

CONSTANTS
  Policies,          \* validated policies
  Inputs,            \* requests
  MaxU32,
  Ppm,               \* PPM, the scale at which a price is today's
  MaxPriceScalePpm   \* MAX_PRICE_SCALE_PPM

ASSUME LeverAssumption ==
  /\ {MaxU32, MaxPriceScalePpm} \subseteq Nat
  /\ Ppm \in 1..MaxPriceScalePpm

\* The levers that are searched, in the order of the code.
Levers == <<"quality", "latency", "price", "ceiling">>

\* More is better for these; for the others less is.
Rising == {"quality", "ceiling"}

VARIABLES
  question,       \* "win", "margin", or None before the call
  policy, input, model,   \* what is asked about; model is a position in the catalog
  at,             \* position in Levers of the lever being searched
  lo, hi,         \* the interval of lowest_true or highest_true, None outside them
  found           \* the boundary of each lever in the answer, None for one left out

vars == <<question, policy, input, model, at, lo, hi, found>>

NothingFound == [l \in Range(Levers) \cup {"enabled"} |-> None]
Finished == question # None /\ at > Len(Levers)

-----------------------------------------------------------------------------
\* The policy with one lever of the candidate moved.

Scaled(price, ppm) == Min({(price * ppm) \div Ppm, MaxU64})

Moved(m, lever, v) ==
  CASE lever = "quality" -> [m EXCEPT !.quality = v]
    [] lever = "latency" -> [m EXCEPT !.latency = v]
    [] lever = "price" -> [m EXCEPT !.inputCost = Scaled(@, v), !.outputCost = Scaled(@, v)]
    [] lever = "ceiling" -> [m EXCEPT !.ceiling = v]
    [] lever = "enabled" -> [m EXCEPT !.enabled = v]

WithModel(p, i, m) == WithBounds(p.settings, [p.models EXCEPT ![i] = m])

Wins(lever, v) ==
  Winner(WithModel(policy, model, Moved(policy.models[model], lever, v)), input) = model

Current(lever) ==
  LET m == policy.models[model]
  IN  CASE lever = "quality" -> m.quality
        [] lever = "latency" -> m.latency
        [] lever = "price" -> Ppm
        [] lever = "ceiling" -> m.ceiling

\* The worst value a margin looks at.
Worst(lever) ==
  CASE lever \in Rising -> 0
    [] lever = "latency" -> MaxU32
    [] lever = "price" -> MaxPriceScalePpm

Best(lever) == IF lever \in Rising THEN BasisPoints ELSE 0

\* The ends of the search: towards the best value for a loser, the worst for the winner.
From(lever) ==
  IF (question = "win") = (lever \in Rising)
  THEN [lo |-> Current(lever), hi |-> IF question = "win" THEN Best(lever) ELSE Worst(lever)]
  ELSE [lo |-> IF question = "win" THEN Best(lever) ELSE Worst(lever), hi |-> Current(lever)]

-----------------------------------------------------------------------------
\* The calls.

Ask(kind, p, r, i) ==
  /\ question' = kind /\ policy' = p /\ input' = r /\ model' = i

\* what_would_win.  A request refused at a hard limit, the selected candidate and a disabled
\* one end the call before the searches.
AskWin(p, r, i) ==
  LET m == p.models[i]
      on == WithModel(p, i, Moved(m, "enabled", 1))
      early == HardLimit(p, r) # None \/ Winner(p, r) = i
  IN  /\ Ask("win", p, r, i)
      /\ at' = IF early \/ m.enabled = 0 THEN Len(Levers) + 1 ELSE 1
      /\ found' = IF ~early /\ m.enabled = 0 /\ Winner(on, r) = i
                  THEN [found EXCEPT !["enabled"] = 1] ELSE found
      /\ UNCHANGED <<lo, hi>>

\* decision_margin, which answers None when nothing is selected.
AskMargin(p, r) ==
  /\ Winner(p, r) # 0
  /\ Ask("margin", p, r, Winner(p, r))
  /\ at' = 1
  /\ UNCHANGED <<lo, hi, found>>

\* Mutant of Searched: a margin is searched even when the worst value still wins.
SearchedToTheEnd(lever) ==
  IF lever \in Rising THEN Wins(lever, From(lever).hi) ELSE Wins(lever, From(lever).lo)

\* Whether there is a boundary: the favourable end wins, and for a margin (quality apart)
\* the worst value does not.
Searched(lever) ==
  /\ question = "margin" /\ lever # "quality" => ~Wins(lever, Worst(lever))
  /\ From(lever).lo <= From(lever).hi
  /\ IF lever \in Rising THEN Wins(lever, From(lever).hi) ELSE Wins(lever, From(lever).lo)

Begin ==
  /\ question # None /\ ~Finished /\ lo = None
  /\ LET lever == Levers[at]
     IN  \/ /\ Searched(lever)
            /\ lo' = From(lever).lo /\ hi' = From(lever).hi
            /\ UNCHANGED at
         \/ /\ ~Searched(lever)
            /\ at' = at + 1
            /\ UNCHANGED <<lo, hi>>
  /\ UNCHANGED <<question, policy, input, model, found>>

\* lowest_true rounds the middle down, highest_true up.
Middle(lever) == IF lever \in Rising THEN lo + (hi - lo) \div 2 ELSE lo + (hi - lo + 1) \div 2

\* One round of lowest_true or highest_true, by whether the candidate wins in the middle.
Halve(rising, mid, wins) ==
  \/ rising /\ wins /\ hi' = mid /\ UNCHANGED lo
  \/ rising /\ ~wins /\ lo' = mid + 1 /\ UNCHANGED hi
  \/ ~rising /\ wins /\ lo' = mid /\ UNCHANGED hi
  \/ ~rising /\ ~wins /\ hi' = mid - 1 /\ UNCHANGED lo

Probe ==
  /\ lo # None /\ lo < hi
  /\ LET lever == Levers[at]
         mid == Middle(lever)
     IN  Halve(lever \in Rising, mid, Wins(lever, mid))
  /\ UNCHANGED <<question, policy, input, model, at, found>>

Found ==
  /\ lo # None /\ lo >= hi
  /\ found' = [found EXCEPT ![Levers[at]] = lo]
  /\ at' = at + 1 /\ lo' = None /\ hi' = None
  /\ UNCHANGED <<question, policy, input, model>>

\* The caller has the answer; nothing is kept for another call.
Returned == Finished /\ UNCHANGED vars

Init ==
  /\ question = None /\ policy = None /\ input = None /\ model = None
  /\ at = 1 /\ lo = None /\ hi = None /\ found = NothingFound

Search == Begin \/ Probe \/ Found

Next ==
  \/ /\ question = None
     /\ \E p \in Policies, r \in Inputs :
          AskMargin(p, r) \/ \E i \in DOMAIN p.models : AskWin(p, r, i)
  \/ Search
  \/ Returned

Spec == Init /\ [][Next]_vars

-----------------------------------------------------------------------------
\* What the answers mean, by trying every value.

\* The values a search may report.
Values(lever) == From(lever).lo..From(lever).hi

\* Closest to today's value first.
Nearest(lever, S) == IF lever \in Rising THEN Min(S) ELSE Max(S)

\* Requirement::boundary of what_would_win is "the value closest to `current` at which the
\* candidate is selected", and a lever is left out only when no value of it would do: also
\* when the request was refused or the candidate is switched off, and nothing was tried.
\* That of decision_margin is "the value furthest from `current` at which it is still
\* selected; one step beyond, it is not", and a lever that is missing "cannot make the winner
\* lose on its own".
SearchesAreExact ==
  Finished =>
    /\ question = "win" /\ Winner(policy, input) # model =>
         /\ \A lever \in Range(Levers) :
              LET winning == {v \in Values(lever) : Wins(lever, v)}
              IN  found[lever] = IF winning = {} THEN None ELSE Nearest(lever, winning)
         /\ found["enabled"] = IF Wins("enabled", 1) THEN 1 ELSE None
    /\ question = "margin" =>
         \A lever \in Range(Levers) :
           LET kept == {v \in Values(lever) : Wins(lever, v)}
               b == found[lever]
               beyond == IF lever \in Rising THEN b - 1 ELSE b + 1
           IN  IF b = None THEN kept = Values(lever)
               ELSE /\ kept = IF lever \in Rising THEN b..Current(lever) ELSE Current(lever)..b
                    /\ beyond \in Values(lever) \ kept

=============================================================================
