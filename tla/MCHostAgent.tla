---------------------------- MODULE MCHostAgent ----------------------------
(* Instances of HostAgent for TLC. *)
EXTENDS HostAgent, TLC
=============================================================================
