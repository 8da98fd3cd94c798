------------------------------ MODULE MCLoadStat ------------------------------
(* Instances of LoadStat for TLC. *)
EXTENDS LoadStat

CONSTANTS c1, c2, p1, p2

\* Two connections of a pod, or of two pods, which are alike.
OneOrTwoPods == {f \in [{c1, c2} -> {p1, p2}] : f[c1] = p1}

=============================================================================
