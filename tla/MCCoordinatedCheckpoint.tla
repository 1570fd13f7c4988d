------------------------ MODULE MCCoordinatedCheckpoint ------------------------
(***************************************************************************)
(* Small instances of CoordinatedCheckpoint for TLC.                       *)
(***************************************************************************)
EXTENDS CoordinatedCheckpoint, TLC

Symmetric == Permutations(Mutations)
=============================================================================
