------------------------------ MODULE MCUseDef ------------------------------
(* Three instructions of up to two operands.  An instruction without        *)
(* operands that stays stands for the values that are no instructions.      *)
EXTENDS UseDef, TLC

Symmetry == Permutations(Users)
=============================================================================
