----------------------------- MODULE MCLimiter -----------------------------
(***************************************************************************)
(* Values of the constants of Limiter for TLC.                             *)
(***************************************************************************)
EXTENDS Limiter, TLC

Symmetry == Permutations(Key) \union Permutations(Caller)
=============================================================================
