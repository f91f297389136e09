--------------------------- MODULE MCVideoStream ---------------------------
(* Instances of VideoStream for TLC, bitrates in units of 1 Mbps. *)
EXTENDS VideoStream, TLC

MCInitial == "balanced" :> 4 @@ "high" :> 4
MCMaximum == "balanced" :> 4 @@ "high" :> 8

\* Losses under selections and reports; estimates that rise and fall; falling ones under a
\* selection.
MCScopes == {[changes |-> 1, drops |-> 1, estimates |-> {}],
             [changes |-> 0, drops |-> 0, estimates |-> {1, 9}],
             [changes |-> 1, drops |-> 0, estimates |-> {1}]}
=============================================================================
