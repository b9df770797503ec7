----------------------------- MODULE MCNfsWrites -----------------------------
(* Small instances of NfsWrites. *)
EXTENDS NfsWrites

CONSTANTS a, snapshot

OneName == {a, snapshot}
=============================================================================
