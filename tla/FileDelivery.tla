---------------------------- MODULE FileDelivery ----------------------------
(***************************************************************************)
(* What file transfer promises, in either direction: a file appears in the *)
(* destination only whole, under a name of its own, and stays as it is;    *)
(* the user is told of success only for a file that is there.              *)
(***************************************************************************)
CONSTANTS Transfer, Dest, Content(_)

VARIABLES
    stored,    \* files in the destination: [dest, id, bytes]
    reported   \* transfers the user was told have succeeded

Init == stored = {} /\ reported = {}

Store(t, d) ==
    /\ \A f \in stored : f.id # t /\ f.dest # d
    /\ stored' = stored \union {[dest |-> d, id |-> t, bytes |-> Content(t)]}

\* A receiver may store and report in one step.
Report(t) ==
    /\ \E f \in stored' : f.id = t
    /\ reported' = reported \union {t}

Next ==
    \/ \E t \in Transfer, d \in Dest : Store(t, d) /\ UNCHANGED reported
    \/ \E t \in Transfer : Report(t) /\ UNCHANGED stored
    \/ \E t \in Transfer, d \in Dest : Store(t, d) /\ Report(t)

Spec == Init /\ [][Next]_<<stored, reported>>
=============================================================================
