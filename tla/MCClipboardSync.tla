-------------------------- MODULE MCClipboardSync --------------------------
(* Instances of ClipboardSync for TLC. *)
EXTENDS ClipboardSync, TLC

\* "browser" is a PNG as a browser encodes it, "pillow" the same picture re-encoded.
Reencoded(i) == "pillow"
BrowserImage(u) == "browser"
=============================================================================
