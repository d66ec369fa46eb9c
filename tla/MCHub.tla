------------------------------- MODULE MCHub -------------------------------
(***************************************************************************)
(* Bounded instances of Hub.  Three connection objects let an agent or a   *)
(* device be replaced while the replaced connection is still unregistering *)
(* and a third party listens; a send buffer of one fills at once.          *)
(***************************************************************************)
EXTENDS Hub, TLC

\* Connection objects are interchangeable; used by the safety runs only.
ConnSymmetry == Permutations(Conns)

\* The hub before Stop is called; what Stop does is for the runs without it.
BeforeStop == stop = "no"

\* What is sent to agents only fills their buffers, which no property of the
\* safety run is about: they are kept empty.
AgentsSentNothing == \A c \in Conns : IsAgent(c) => pending[c] = 0
=============================================================================
