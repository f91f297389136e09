--------------------------- MODULE MCFileTransfer ---------------------------
(* Instances of FileTransfer for TLC. *)
EXTENDS FileTransfer, TLC

\* Every upload offers the same name: saved files collide.
OneName(u) == "report.txt"
=============================================================================
