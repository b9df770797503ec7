----------------------------- MODULE MCPrfsStore -----------------------------
(* Small instances of PrfsStore, and of the handles into it. *)
EXTENDS NfsHandles, TLC

CONSTANTS a, b, snapshot

MCNames == {a, b, snapshot}
OneName == {a, snapshot}
NameSymmetry == Permutations({a, b})
=============================================================================
