------------------------ MODULE MCGameTreeRefinement ------------------------
(* Model checking of GameTreeRefinement.  The recorded call decides nothing*)
(* about the future, so that states which differ only in it are one: TLC   *)
(* checks the refinement of every step, also of those to known states.     *)
EXTENDS GameTreeRefinement, TLC

Symmetry == Permutations(Node)

View == vars
=============================================================================
