--------------------------- MODULE MCSgfcBackend ----------------------------
(* Model checking of SgfcBackend.                                          *)
EXTENDS SgfcBackend, TLC

Symmetry == Permutations(Thread)
=============================================================================
