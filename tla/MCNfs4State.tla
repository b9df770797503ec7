----------------------------- MODULE MCNfs4State -----------------------------
(* Small instances of Nfs4State. *)
EXTENDS Nfs4State, TLC

CONSTANTS x, y, o1, f, t1, t2

ClientSymmetry == Permutations({x, y})
OneClient      == {x}
TwoClients     == {x, y}
OneOwner       == {o1}
OneFile        == {f}

\* The whole file and one byte: none wraps.
NarrowRanges == {<<0, 3>>, <<1, 1>>}
OneRange     == {<<0, 1>>}

WriteOnly    == {"WRITE"}
=============================================================================
