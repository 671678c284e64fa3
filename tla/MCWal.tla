-------------------------------- MODULE MCWal --------------------------------
(* Two processes and two pages. Processes stop and calls fail while the    *)
(* power doesn't, and the other way around.                                *)
EXTENDS Wal, TLC

CONSTANTS p1, p2, g1, g2

MCProc == {p1, p2}
MCPage == {g1, g2}

StopOrPower == {{"stop", "io", "fsync"}, {"power", "io"}}
StopAndPower == {{"stop", "power"}}
OnlyStop     == {{"stop"}}
OnlyErrors   == {{"io", "fsync"}}

Symmetry == Permutations(MCProc) \cup Permutations(MCPage)
=============================================================================
