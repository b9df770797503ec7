------------------------------ MODULE MCServices ------------------------------
(* Small instances of Services. *)
EXTENDS Services

CONSTANTS t1, t2, c1, c2, s1, s2

\* Command lines: a builder, the console and a front end; both front ends (one port),
\* with services that start after them; nothing.
MCLoads == {{"bigtree", "luactl", "nfsv4"}, {"nfsv3", "nfsv4", "null", "perf"}, {}}
=============================================================================
