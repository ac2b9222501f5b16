----------------------------- MODULE MCGameTree -----------------------------
(* Model checking of GameTree.                                             *)
EXTENDS GameTree, TLC

Symmetry == Permutations(Node)
=============================================================================
