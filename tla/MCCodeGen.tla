---------------------------- MODULE MCCodeGen ----------------------------
(* CodeGen with sets of model values small enough for TLC.                 *)
EXTENDS CodeGen, TLC

Symmetry == Permutations(Vars) \cup Permutations(Temps) \cup Permutations(Consts)
=============================================================================
