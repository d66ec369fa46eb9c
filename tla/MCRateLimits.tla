---------------------------- MODULE MCRateLimits ----------------------------
(***************************************************************************)
(* Instance of RateLimits: limits of two and four messages and of two      *)
(* attempts in a window of two ticks, three connections.                   *)
(***************************************************************************)
EXTENDS RateLimits
=============================================================================
