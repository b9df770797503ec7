---------------------------- MODULE MCReaddirScan ----------------------------
(* Small instances of ReaddirScan. *)
EXTENDS ReaddirScan

CONSTANTS c1, c2

HashDistinct == [n \in Names |-> n + 10]
=============================================================================
