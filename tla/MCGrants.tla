------------------------------ MODULE MCGrants ------------------------------
(***************************************************************************)
(* Small instances of Grants.                                              *)
(***************************************************************************)
EXTENDS Grants, TLC

CONSTANTS h1, h2, a1, s1, s2, low, high, other, read, write, r1

\* Two capabilities of one kind (say a transact limit of 10 and one of 1000)
\* and one of another kind.
MCTypeKey == (low :> read) @@ (high :> read) @@ (other :> write)
MCLists == {{}, {low}, {high}, {low, other}}
OneList == {{low}}

Symmetry == Permutations(Handlers)
=============================================================================
