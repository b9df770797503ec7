---------------------------- MODULE MCDifferential ----------------------------
(* Small instances of Differential. *)
EXTENDS Differential, PrfsRefinement, NfsHandles

CONSTANTS a, snapshot

OneName == {a, snapshot}
=============================================================================
