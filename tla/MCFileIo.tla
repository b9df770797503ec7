------------------------------- MODULE MCFileIo -------------------------------
(* Small instances of FileIo. *)
EXTENDS FileIo

\* Buckets 0, 30, 60 and 90, spread over seeds, blocks and tags.
MCHash(seed, b, tag) ==
    LET k == CASE tag = "HOLE" -> 0 [] tag = "DUP" -> 1 [] OTHER -> 2
    IN 30 * ((seed + b * (1 + seed) + k * 3) % 4)

MCDefault == [blockSize |-> 4, flat |-> FALSE, sparsePercent |-> 0, dedupPercent |-> 0, dedupCorpus |-> 2]

\* Half of the blocks holes; every block a duplicate of two; no block size; no entropy.
MCConfigs == {[MCDefault EXCEPT !.blockSize = 3, !.sparsePercent = 50, !.dedupPercent = 50],
              [MCDefault EXCEPT !.blockSize = 2, !.dedupPercent = 100],
              [MCDefault EXCEPT !.blockSize = 0, !.sparsePercent = 25],
              [MCDefault EXCEPT !.flat = TRUE]}
=============================================================================
