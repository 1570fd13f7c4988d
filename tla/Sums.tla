-------------------------------- MODULE Sums --------------------------------
(***************************************************************************)
(* Sums of finite integer sequences given as functions on 1..n.            *)
(*                                                                         *)
(* The ledger's invariants add up what the open reservations hold and what *)
(* the running threads have counted but not yet debited.  The sum is the   *)
(* last of the partial sums, so that the effect of changing one term can   *)
(* be proved (SumsProofs) without induction over sets.                     *)
(***************************************************************************)
EXTENDS Integers

PartialSums(f, n) ==
  LET s[i \in 0..n] == IF i = 0 THEN 0 ELSE s[i - 1] + f[i]
  IN  s

Sum(f, n) == PartialSums(f, n)[n]
=============================================================================
