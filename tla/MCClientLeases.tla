----------------------------- MODULE MCClientLeases -----------------------------
(***************************************************************************)
(* ClientLeases for TLC: tokens are interchangeable.                       *)
(***************************************************************************)
EXTENDS ClientLeases, TLC

Symmetry == Permutations(Token)
=============================================================================
