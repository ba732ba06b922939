------------------------------ MODULE MCFileOps -------------------------------
(* Small instances of FileOps for TLC.                                     *)
EXTENDS FileOps, TLC

Symmetry == Permutations(Calls) \cup Permutations(Paths)
===============================================================================
