----------------------------- MODULE MCUnitJob -----------------------------
(***************************************************************************)
(* Instances of UnitJob for TLC.                                           *)
(***************************************************************************)
EXTENDS UnitJob, TLC

Symmetry == Permutations(Callers) \cup Permutations(Units)
=============================================================================
