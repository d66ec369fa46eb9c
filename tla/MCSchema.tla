------------------------------ MODULE MCSchema ------------------------------
(***************************************************************************)
(* Bounded instance of Schema: two invocations of am-migrate beside the    *)
(* server, three programs started in all.                                  *)
(***************************************************************************)
EXTENDS Schema, TLC

ToolSymmetry == Permutations(Tools)
=============================================================================
