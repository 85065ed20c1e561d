----------------------------- MODULE MCArchiver -----------------------------
(***************************************************************************)
(* Small instances of Archiver.                                            *)
(***************************************************************************)
EXTENDS Archiver, TLC

CONSTANTS j1, j2, e1, e2

Symmetry == Permutations(Jobs) \cup Permutations(Events)
=============================================================================
