------------------------- MODULE MCQuadletInstaller -------------------------
(***************************************************************************)
(* Instances of QuadletInstaller for TLC.                                  *)
(***************************************************************************)
EXTENDS QuadletInstaller, TLC

CONSTANTS w1, w2, p1

\* Two threads of one process share its pid, and so the names they may try.
OneProcess == w1 :> p1 @@ w2 :> p1

Symmetry == Permutations(Inodes) \cup Permutations(Workers) \cup Permutations(Texts)
=============================================================================
