--------------------------- MODULE MCOfflineQueue ---------------------------
(***************************************************************************)
(* Bounded instance of OfflineQueue: three messages overflow a queue of    *)
(* two, and the clock outlives the time-to-live twice.                     *)
(***************************************************************************)
EXTENDS OfflineQueue

CONSTANT MaxDelivered

Symmetry == Permutations(Msgs)

\* Rows that outlive their DELETE can be replayed for ever.
FewDelivered == Len(delivered) <= MaxDelivered
=============================================================================
