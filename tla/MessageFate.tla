---------------------------- MODULE MessageFate ----------------------------
(***************************************************************************)
(* What delivery promises the sender of a message, without the goroutines, *)
(* queues and connections it takes: the fate of every message.  A message  *)
(* is refused or stored; once stored it is delivered, or waits for the     *)
(* recipient and is then delivered or dropped.  That is final.  Only the   *)
(* end of the process can undo it: what was in memory may be lost, and     *)
(* what the offline_queue table still has waits again.                     *)
(* Module Delivery implements this specification.                          *)
(***************************************************************************)
CONSTANT Msgs

VARIABLES fate, up

vars == <<fate, up>>

Fates == {"new", "refused", "stored", "waiting", "delivered", "dropped", "lost"}

Moves ==
  {<<"new", "refused">>, <<"new", "stored">>, <<"stored", "waiting">>,
   <<"stored", "delivered">>, <<"waiting", "delivered">>, <<"waiting", "dropped">>}

\* In a crash; a message may also stay what it is, unless it is being routed.
CrashMoves ==
  ({"stored"} \X {"lost"})
  \cup ({"waiting", "delivered"} \X {"waiting", "delivered", "dropped", "lost"})
  \cup ({"dropped"} \X {"dropped", "waiting"})
  \cup {<<f, f>> : f \in {"new", "refused", "lost"}}

Init ==
  /\ fate = [m \in Msgs |-> "new"]
  /\ up = TRUE

\* One message gets on; others may have to make room for it.
Proceed ==
  /\ up
  /\ fate' \in [Msgs -> Fates]
  /\ \A m \in Msgs : fate'[m] # fate[m] => <<fate[m], fate'[m]>> \in Moves
  /\ UNCHANGED up

Crash ==
  /\ up
  /\ fate' \in [Msgs -> Fates]
  /\ \A m \in Msgs : <<fate[m], fate'[m]>> \in CrashMoves
  /\ up' = FALSE

Restart ==
  /\ ~up
  /\ up' = TRUE
  /\ UNCHANGED fate

Next == Proceed \/ Crash \/ Restart

Spec == Init /\ [][Next]_vars
=============================================================================
