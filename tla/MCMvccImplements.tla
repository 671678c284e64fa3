-------------------------- MODULE MCMvccImplements --------------------------
(* Two connections, two keys and two values. *)
EXTENDS MvccImplements, TLC

CONSTANTS c1, c2, v1, v2

MCConn  == {c1, c2}
MCKey   == {1, 2}
MCValue == {v1, v2}

Symmetry == Permutations(MCConn) \cup Permutations(MCValue)
=============================================================================
