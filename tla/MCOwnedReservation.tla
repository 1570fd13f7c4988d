-------------------------- MODULE MCOwnedReservation --------------------------
(* Owned reservations over a small ledger. *)
EXTENDS OwnedReservation

MCAmounts == -1..MaxI64
=============================================================================
