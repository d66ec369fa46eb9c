------------------------------- MODULE MCPush -------------------------------
(***************************************************************************)
(* Bounded instance of Accounts and Push: three requests of any kind, two  *)
(* users, one agent and one token.                                         *)
(***************************************************************************)
EXTENDS Push, TLC

\* One request is cut short or goes on after a failure.
OneBroken == Cardinality({r \in Requests : Broken(r)}) <= 1

Symmetry == Permutations(Requests) \cup Permutations(Users) \cup Permutations(Passwords)
=============================================================================
