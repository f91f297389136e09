--------------------------- MODULE MCViewerSession ---------------------------
(* Instances of ViewerSession for TLC. *)
EXTENDS ViewerSession, TLC
=============================================================================
