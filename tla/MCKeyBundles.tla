---------------------------- MODULE MCKeyBundles ----------------------------
(***************************************************************************)
(* A bounded instance of KeyBundles: three requests of any kind after an   *)
(* owner may have uploaded an identity key.                                *)
(***************************************************************************)
EXTENDS KeyBundles, TLC

\* The requests other than the first are interchangeable.
Symmetry == Permutations(Requests \ {First})
=============================================================================
