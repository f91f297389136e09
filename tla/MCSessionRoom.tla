--------------------------- MODULE MCSessionRoom ---------------------------
(* Instances of SessionRoom for TLC. *)
EXTENDS SessionRoom
=============================================================================
