--------------------------- MODULE MCInputCapture ---------------------------
(* Instances of InputCapture for TLC. *)
EXTENDS InputCapture, TLC

\* A 4 by 4 element with a 4 by 2 picture: a pixel on the picture, one on the bar above.
Pixels == {<<2, 2>>, <<2, 0>>}
=============================================================================
