--------------------------- MODULE MCSgfcDocument ---------------------------
(* Model checking of SgfcDocument.                                         *)
EXTENDS SgfcDocument
=============================================================================
