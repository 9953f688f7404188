----------------------------- MODULE MCRefTable -----------------------------
(* RefTable for TLC: numbers among the values, so that a stored number can *)
(* be mistaken for a link of the free list.                                *)
EXTENDS RefTable, TLC

CONSTANTS v1

MCValues == {1, 2, v1}

Symmetry == Permutations(Objects)
=============================================================================
