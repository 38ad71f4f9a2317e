--------------------------- MODULE MC_GlobalPause ---------------------------
(* Small instance of GlobalPause for TLC.                                  *)
EXTENDS GlobalPause, TLC

CONSTANTS p1, p2, n1, n2, c1, sleeper

MCProcs == {p1, p2}
MCNotifiers == {n1, n2}
MCChannels == {c1}

MCSymmetry == Permutations(MCProcs) \cup Permutations(MCNotifiers)
====
