------------------------------ MODULE MCTokens ------------------------------
(***************************************************************************)
(* Small instances of Tokens.                                              *)
(***************************************************************************)
EXTENDS Tokens, TLC

CONSTANTS h1, h2, g1, s1, s2, n1, n2, r1

MCGrantSP == g1 :> s1

Symmetry == Permutations(Handlers) \cup Permutations(Nonces)
=============================================================================
