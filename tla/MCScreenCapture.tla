-------------------------- MODULE MCScreenCapture --------------------------
(* Instances of ScreenCapture for TLC. *)
EXTENDS ScreenCapture, TLC
=============================================================================
