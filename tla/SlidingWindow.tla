---------------------------- MODULE SlidingWindow ----------------------------
(***************************************************************************)
(* The sliding windows of the two rate limiters, InputController's and the *)
(* signaling room's: timestamps, kept as ages, oldest first.               *)
(***************************************************************************)
EXTENDS Integers, Sequences, FiniteSets

\* Entries are appended as time passes, so the stale ones are exactly the oldest ones at
\* the front, which popleft() takes away one by one and filter() all at once.
DropOlder(times, limit) ==
    SubSeq(times, 1 + Cardinality({i \in DOMAIN times : times[i] >= limit}),
           Len(times))

\* Time passes; ages beyond `most' are not told apart.
Grow(times, most) ==
    [i \in DOMAIN times |-> IF times[i] < most THEN times[i] + 1 ELSE times[i]]
=============================================================================
