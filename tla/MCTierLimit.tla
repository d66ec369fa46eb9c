----------------------------- MODULE MCTierLimit -----------------------------
(***************************************************************************)
(* A bounded instance of TierLimit: two changes of tier, which may overlap,*)
(* and time enough for two windows and a cleanup.                          *)
(***************************************************************************)
EXTENDS TierLimit, TLC

\* Administrators are interchangeable.
Symmetry == Permutations(Admins)
=============================================================================
