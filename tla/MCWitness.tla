------------------------------- MODULE MCWitness -------------------------------
(***************************************************************************)
(* Small instances of Witness for TLC: the log forks at its first leaf,    *)
(* and one head claims size 0 with a root that is not the empty tree's.    *)
(***************************************************************************)
EXTENDS Witness, SequencesExt

CONSTANTS Bogus

MCHeads == {<<>>, <<"a">>, <<"a", "b">>, <<"d">>, <<Bogus>>}
MCSize(h) == IF h = <<Bogus>> THEN 0 ELSE Len(h)
MCExtends(g, h) == IF <<Bogus>> \in {g, h} THEN g = h ELSE IsPrefix(g, h)
MCEmptyHead == <<>>

Symmetric == Permutations(Processes) \cup Permutations(Auditors) \cup Permutations(Honest)
=============================================================================
