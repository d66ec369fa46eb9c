----------------------------- MODULE MCDelivery -----------------------------
(***************************************************************************)
(* Bounded instance of Delivery: two messages and two connections, which   *)
(* replace each other or come from two devices; a send buffer of one is    *)
(* full at once, a queue of one drops and a queue of two keeps an order.   *)
(***************************************************************************)
EXTENDS Delivery

SameOrOwn == {[c \in Conns |-> 0], CHOOSE f \in [Conns -> 1..Cardinality(Conns)] : IsInjective(f)}
=============================================================================
