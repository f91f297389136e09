------------------------- MODULE SlidingWindowProofs -------------------------
(***************************************************************************)
(* Facts about sliding windows, for any limit and any sequence of ages: a  *)
(* limiter that counts what it admitted in its window never lets more      *)
(* through in any stretch of that length than it has room for.             *)
(***************************************************************************)
EXTENDS SlidingWindow, FiniteSetTheorems, SequenceTheorems, WellFoundedInduction, TLAPS

-----------------------------------------------------------------------------
(* Windows stay sequences of ages *)

\* What the popleft() loop leaves is a sequence over the same ages.
LEMMA DropOlderType ==
    ASSUME NEW S, NEW times \in Seq(S), NEW limit
    PROVE  DropOlder(times, limit) \in Seq(S)
<1> DEFINE stale == {i \in DOMAIN times : times[i] >= limit}
<1>1. DOMAIN times = 1..Len(times) /\ Len(times) \in Nat
  BY LenProperties
<1>2. IsFiniteSet(stale) /\ Cardinality(stale) \in Nat
  <2>1. IsFiniteSet(1..Len(times))
    BY <1>1, FS_Interval
  <2>2. stale \subseteq 1..Len(times)
    BY <1>1
  <2> QED
    BY <2>1, <2>2, FS_Subset, FS_CardinalityType
<1>3. \A i \in (1 + Cardinality(stale))..Len(times) : times[i] \in S
  BY <1>1, <1>2, ElementOfSeq
<1> QED
  BY <1>1, <1>2, <1>3, SubSeqProperties DEF DropOlder

\* Appending the age 0 of an admitted entry keeps the type.
LEMMA AppendZeroType ==
    ASSUME NEW n \in Nat, NEW times \in Seq(0..n)
    PROVE  Append(times, 0) \in Seq(0..n)
BY AppendProperties

\* One tick ages every entry, up to the saturation age.
LEMMA GrowType ==
    ASSUME NEW n \in Nat, NEW times \in Seq(0..n)
    PROVE  Grow(times, n) \in Seq(0..n)
<1>1. DOMAIN times = 1..Len(times) /\ Len(times) \in Nat
  BY LenProperties
<1>2. \A i \in 1..Len(times) : times[i] \in 0..n
  BY ElementOfSeq
<1>3. \A i \in 1..Len(times) :
        (IF times[i] < n THEN times[i] + 1 ELSE times[i]) \in 0..n
  BY <1>2
<1> QED
  BY <1>1, <1>3, IsASeq DEF Grow

-----------------------------------------------------------------------------
(* What a limiter lets through *)

\* The log of what was let through in the last `limit' ticks, oldest first, each of which the
\* limiter's own window counts: entry i of the log is no younger than its counterpart from
\* the end of the window.
Ordered(log) == \A i, j \in DOMAIN log : i <= j => log[j] <= log[i]
Recent(log, limit) == \A i \in DOMAIN log : log[i] < limit
Counted(times, log) ==
    /\ Len(log) <= Len(times)
    /\ \A i \in DOMAIN log : times[i + (Len(times) - Len(log))] <= log[i]

\* The limiter's invariant, for at most `max' entries.
Limited(times, log, limit, max) ==
    Ordered(log) /\ Recent(log, limit) /\ Counted(times, log) /\ Len(times) <= max

\* What a sequence of ages looks like.
LEMMA AgesAt ==
    ASSUME NEW s \in Seq(Nat)
    PROVE  Len(s) \in Nat /\ DOMAIN s = 1..Len(s) /\ \A i \in 1..Len(s) : s[i] \in Nat
BY LenProperties, ElementOfSeq

\* Ages are ordered, and stay so as they grow.
LEMMA AgesOrdered ==
    ASSUME NEW a \in Nat, NEW b \in Nat, NEW c \in Nat, a <= b, b <= c
    PROVE  a <= c
OBVIOUS

LEMMA AgesGrow ==
    ASSUME NEW a \in Nat, NEW b \in Nat, a <= b
    PROVE  a + 1 \in Nat /\ b + 1 \in Nat /\ a + 1 <= b + 1
OBVIOUS

\* A set of indices that holds everything below its members is an interval from 1.
LEMMA Prefix ==
    ASSUME NEW n \in Nat, NEW S, S \subseteq 1..n, \A x \in S : \A y \in 1..x : y \in S
    PROVE  S = 1..Cardinality(S)
<1> DEFINE R == OpToRel(<, Nat)
           T == {x \in 1..(n + 1) : x \notin S}
<1>1. IsWellFoundedOn(R, Nat)
  BY NatLessThanWellFounded
<1>2. \A x, y \in Nat : <<y, x>> \in R <=> y < x
  BY DEF OpToRel
<1> HIDE DEF R
<1>3. T \subseteq Nat /\ n + 1 \in T
  OBVIOUS
<1>4. PICK p \in T : \A y \in T : ~(<<y, p>> \in R)
  <2> HIDE DEF T
  <2> QED
    BY <1>1, <1>3, WFMin
<1>5. p \in 1..(n + 1) /\ p \notin S /\ \A y \in 1..(n + 1) : y < p => y \in S
  BY <1>2, <1>3, <1>4
<1>6. S = 1..(p - 1)
  <2>1. ASSUME NEW x \in S PROVE x \in 1..(p - 1)
    <3>1. x \in 1..n /\ p \in 1..(n + 1)
      BY <1>5
    <3>2. ~(p <= x)
      <4> SUFFICES ASSUME p <= x PROVE FALSE
        OBVIOUS
      <4>1. p \in 1..x
        BY <3>1
      <4> QED
        BY <1>5, <4>1
    <3> QED
      BY <3>1, <3>2
  <2>2. ASSUME NEW y \in 1..(p - 1) PROVE y \in S
    BY <1>5
  <2> QED
    BY <2>1, <2>2
<1>7. Cardinality(1..(p - 1)) = p - 1
  BY <1>5, FS_Interval
<1> QED
  BY <1>6, <1>7

Stale(s, limit) == {i \in DOMAIN s : s[i] >= limit}

\* The popleft() loop drops as many entries from the front as are stale.
LEMMA DropOlderAt ==
    ASSUME NEW s \in Seq(Nat), NEW limit
    PROVE  \E k \in 0..Len(s) :
             /\ k = Cardinality(Stale(s, limit))
             /\ DropOlder(s, limit) \in Seq(Nat)
             /\ Len(DropOlder(s, limit)) = Len(s) - k
             /\ \A i \in 1..(Len(s) - k) : DropOlder(s, limit)[i] = s[i + k]
<1>1. PICK n \in Nat : n = Len(s) /\ DOMAIN s = 1..n
  BY AgesAt
<1>2. IsFiniteSet(1..n) /\ Cardinality(1..n) = n
  BY FS_Interval
<1>3. Stale(s, limit) \subseteq 1..n
  BY <1>1 DEF Stale
<1>4. PICK k \in Nat : k = Cardinality(Stale(s, limit)) /\ k <= n
  BY <1>2, <1>3, FS_Subset, FS_CardinalityType
<1>5. DropOlder(s, limit) = SubSeq(s, 1 + k, n)
  BY <1>1, <1>4 DEF DropOlder, Stale
<1>6. \A i \in (1 + k)..n : s[i] \in Nat
  BY <1>1, AgesAt
<1>7. SubSeq(s, 1 + k, n) \in Seq(Nat) /\ Len(SubSeq(s, 1 + k, n)) = n - k
  BY <1>1, <1>4
<1>at. \A i \in 1..(n - (1 + k) + 1) : SubSeq(s, 1 + k, n)[i] = s[(1 + k) + i - 1]
  <2>1. 1 + k \in Int /\ n \in Int
    OBVIOUS
  <2> QED
    BY <1>6, <2>1, SubSeqProperties
<1>8. ASSUME NEW i \in 1..(n - k) PROVE SubSeq(s, 1 + k, n)[i] = s[i + k]
  <2>1. SubSeq(s, 1 + k, n)[i] = s[((1 + k) + i) - 1]
    <3>1. i \in 1..(n - (1 + k) + 1)
      BY <1>8
    <3> QED
      BY <1>at, <3>1
  <2>2. ((1 + k) + i) - 1 = i + k
    BY <1>8
  <2> QED
    BY <2>1, <2>2
<1>9. k \in 0..n
  BY <1>4
<1> QED
  BY <1>1, <1>4, <1>5, <1>7, <1>8, <1>9

\* Of ages in order it drops exactly the stale ones.
LEMMA OrderedDrop ==
    ASSUME NEW limit \in Nat, NEW s \in Seq(Nat), Ordered(s), NEW d, d = DropOlder(s, limit)
    PROVE  Ordered(d) /\ Recent(d, limit)
<1>1. limit \in Nat /\ Len(s) \in Nat /\ DOMAIN s = 1..Len(s) /\ \A i \in 1..Len(s) : s[i] \in Nat
  BY AgesAt
<1>2. PICK S : S = Stale(s, limit)
  OBVIOUS
<1>drop. \E k \in 0..Len(s) :
          /\ k = Cardinality(Stale(s, limit))
          /\ DropOlder(s, limit) \in Seq(Nat)
          /\ Len(DropOlder(s, limit)) = Len(s) - k
          /\ \A i \in 1..(Len(s) - k) : DropOlder(s, limit)[i] = s[i + k]
  BY DropOlderAt
<1>3. PICK k \in 0..Len(s) :
        /\ k = Cardinality(S) /\ d \in Seq(Nat) /\ Len(d) = Len(s) - k
        /\ \A i \in 1..(Len(s) - k) : d[i] = s[i + k]
  BY <1>2, <1>drop
<1>4. /\ k \in 0..Len(s) /\ d \in Seq(Nat) /\ Len(d) = Len(s) - k
      /\ \A i \in 1..Len(d) : d[i] = s[i + k]
  BY <1>3
<1>5. DOMAIN d = 1..Len(d)
  BY <1>4, AgesAt
<1>6. S = 1..k
  <2>1. S \subseteq 1..Len(s)
    BY <1>1, <1>2 DEF Stale
  <2>2. \A x \in S : \A y \in 1..x : y \in S
    <3> SUFFICES ASSUME NEW x \in S, NEW y \in 1..x PROVE y \in S
      OBVIOUS
    <3>1. x \in DOMAIN s /\ y \in DOMAIN s /\ y <= x /\ s[x] >= limit
      BY <1>1, <1>2, <2>1 DEF Stale
    <3>2. s[x] <= s[y]
      BY <3>1 DEF Ordered
    <3> QED
      BY <1>1, <1>2, <3>1, <3>2 DEF Stale
  <2> QED
    BY <1>1, <1>3, <2>1, <2>2, Prefix
<1>7. ASSUME NEW i \in 1..Len(d) PROVE d[i] < limit
  <2>1. i + k \in DOMAIN s /\ i + k \notin S
    BY <1>1, <1>4, <1>6
  <2>2. d[i] = s[i + k] /\ s[i + k] \in Nat
    BY <1>1, <1>4, <2>1
  <2>3. ~(s[i + k] >= limit)
    BY <1>2, <2>1 DEF Stale
  <2> QED
    BY <2>2, <2>3
<1>8. ASSUME NEW i \in 1..Len(d), NEW j \in 1..Len(d), i <= j PROVE d[j] <= d[i]
  <2>1. i + k \in DOMAIN s /\ j + k \in DOMAIN s /\ i + k <= j + k
    BY <1>1, <1>4, <1>8
  <2> QED
    BY <1>4, <2>1 DEF Ordered
<1> QED
  BY <1>5, <1>7, <1>8 DEF Ordered, Recent

\* What is dropped from the controller's window was not an action of the last window ...
LEMMA CountedLive ==
    ASSUME NEW limit \in Nat, NEW s \in Seq(Nat), NEW log \in Seq(Nat), Counted(s, log),
           Recent(log, limit),
           NEW d, d = DropOlder(s, limit)
    PROVE  d \in Seq(Nat) /\ Counted(d, log) /\ Len(d) <= Len(s)
<1>1. /\ limit \in Nat /\ Len(s) \in Nat /\ DOMAIN s = 1..Len(s)
      /\ \A i \in 1..Len(s) : s[i] \in Nat
  BY AgesAt
<1>2. Len(log) \in Nat /\ DOMAIN log = 1..Len(log) /\ \A i \in 1..Len(log) : log[i] \in Nat
  BY AgesAt
<1>3. PICK S : S = Stale(s, limit)
  OBVIOUS
<1>drop. \E k \in 0..Len(s) :
          /\ k = Cardinality(Stale(s, limit))
          /\ DropOlder(s, limit) \in Seq(Nat)
          /\ Len(DropOlder(s, limit)) = Len(s) - k
          /\ \A i \in 1..(Len(s) - k) : DropOlder(s, limit)[i] = s[i + k]
  BY DropOlderAt
<1>4. PICK k \in 0..Len(s) :
        /\ k = Cardinality(S) /\ d \in Seq(Nat) /\ Len(d) = Len(s) - k
        /\ \A i \in 1..(Len(s) - k) : d[i] = s[i + k]
  BY <1>3, <1>drop
<1>5. /\ k \in 0..Len(s) /\ d \in Seq(Nat) /\ Len(d) = Len(s) - k
      /\ \A i \in 1..Len(d) : d[i] = s[i + k]
  BY <1>4
<1>len. Len(log) <= Len(s)
  BY DEF Counted
<1>6. PICK e \in Nat : e = Len(s) - Len(log)
  <2>1. Len(s) - Len(log) \in Nat
    BY <1>1, <1>2, <1>len
  <2> QED
    BY <2>1
<1>7. S \subseteq 1..e
  <2>0. \A x \in S : x \in 1..Len(s) /\ s[x] >= limit
    BY <1>1, <1>3 DEF Stale
  <2> SUFFICES ASSUME NEW x \in S, x > e PROVE FALSE
    BY <1>1, <1>6, <2>0
  <2>1. x \in 1..Len(s) /\ s[x] >= limit
    BY <2>0
  <2>2. x - e \in 1..Len(log) /\ (x - e) + e = x
    BY <1>1, <1>2, <1>6, <2>1
  <2>3. s[x] <= log[x - e]
    BY <1>2, <1>6, <2>2 DEF Counted
  <2>4. log[x - e] < limit
    BY <1>2, <2>2 DEF Recent
  <2> QED
    BY <1>1, <1>2, <2>1, <2>2, <2>3, <2>4
<1>8. k <= e
  <2>1. IsFiniteSet(1..e) /\ Cardinality(1..e) = e
    BY FS_Interval
  <2>2. Cardinality(S) <= Cardinality(1..e)
    BY <1>7, <2>1, FS_Subset
  <2> QED
    BY <1>4, <2>1, <2>2
<1>9. Len(log) <= Len(d)
  BY <1>1, <1>2, <1>5, <1>6, <1>8
<1>10. ASSUME NEW i \in DOMAIN log PROVE d[i + (Len(d) - Len(log))] <= log[i]
  <2>0. i \in 1..Len(log) /\ Len(d) \in Nat
    BY <1>2, <1>5, AgesAt
  <2>1. i + (Len(d) - Len(log)) \in 1..Len(d)
    BY <1>2, <1>9, <2>0
  <2>2. (i + (Len(d) - Len(log))) + k = i + (Len(s) - Len(log))
    BY <1>1, <1>2, <1>5
  <2>3. d[i + (Len(d) - Len(log))] = s[i + (Len(s) - Len(log))]
    BY <1>5, <2>1, <2>2
  <2> QED
    BY <2>3 DEF Counted
<1> QED
  BY <1>1, <1>5, <1>9, <1>10 DEF Counted

\* ... and the log may forget more.
LEMMA CountedForgets ==
    ASSUME NEW limit \in Nat, NEW s \in Seq(Nat), NEW log \in Seq(Nat), Counted(s, log),
           NEW d, d = DropOlder(log, limit)
    PROVE  Counted(s, d)
<1>1. limit \in Nat /\ Len(s) \in Nat
  BY AgesAt
<1>2. Len(log) \in Nat /\ DOMAIN log = 1..Len(log)
  BY AgesAt
<1>3. PICK S : S = Stale(log, limit)
  OBVIOUS
<1>drop. \E k \in 0..Len(log) :
          /\ k = Cardinality(Stale(log, limit))
          /\ DropOlder(log, limit) \in Seq(Nat)
          /\ Len(DropOlder(log, limit)) = Len(log) - k
          /\ \A i \in 1..(Len(log) - k) : DropOlder(log, limit)[i] = log[i + k]
  BY DropOlderAt
<1>4. PICK k \in 0..Len(log) :
        /\ k = Cardinality(S) /\ d \in Seq(Nat) /\ Len(d) = Len(log) - k
        /\ \A i \in 1..(Len(log) - k) : d[i] = log[i + k]
  BY <1>3, <1>drop
<1>5. /\ k \in 0..Len(log) /\ d \in Seq(Nat) /\ Len(d) = Len(log) - k
      /\ \A i \in 1..Len(d) : d[i] = log[i + k]
  BY <1>4
<1>6. DOMAIN d = 1..Len(d)
  BY <1>5, AgesAt
<1>7. Len(d) <= Len(s)
  BY <1>1, <1>2, <1>5 DEF Counted
<1>8. ASSUME NEW i \in DOMAIN d PROVE s[i + (Len(s) - Len(d))] <= d[i]
  <2>0. i \in 1..(Len(log) - k)
    BY <1>5, <1>6
  <2>1. i + k \in DOMAIN log
    <3>1. k \in 0..Len(log)
      BY <1>5
    <3> QED
      BY <1>2, <2>0, <3>1
  <2>2. (i + k) + (Len(s) - Len(log)) = i + (Len(s) - Len(d))
    BY <1>1, <1>2, <1>5, <2>0
  <2>3. d[i] = log[i + k]
    BY <1>5, <1>6
  <2> QED
    BY <2>1, <2>2, <2>3 DEF Counted
<1> QED
  BY <1>7, <1>8 DEF Counted

\* Where the entries are after one more.
LEMMA AppendAt ==
    ASSUME NEW s \in Seq(Nat)
    PROVE  /\ Append(s, 0) \in Seq(Nat) /\ Len(Append(s, 0)) = Len(s) + 1
           /\ \A i \in 1..Len(s) : Append(s, 0)[i] = s[i]
           /\ Append(s, 0)[Len(s) + 1] = 0
BY AppendProperties

\* An action that is admitted is counted, whether it is injected ...
LEMMA CountedInjected ==
    ASSUME NEW limit \in Nat \ {0}, NEW s \in Seq(Nat), NEW log \in Seq(Nat), Counted(s, log),
           Recent(log, limit), Ordered(log)
    PROVE  /\ Counted(Append(s, 0), Append(log, 0))
           /\ Ordered(Append(log, 0)) /\ Recent(Append(log, 0), limit)
<1>1. PICK t, l : t = Append(s, 0) /\ l = Append(log, 0)
  OBVIOUS
<1>2. /\ Len(s) \in Nat /\ Len(t) = Len(s) + 1 /\ t[Len(s) + 1] = 0
      /\ \A i \in 1..Len(s) : t[i] = s[i]
  BY <1>1, AgesAt, AppendAt
<1>3. /\ Len(log) \in Nat /\ DOMAIN log = 1..Len(log) /\ \A i \in 1..Len(log) : log[i] \in Nat
      /\ Len(l) = Len(log) + 1 /\ l[Len(log) + 1] = 0
      /\ \A i \in 1..Len(log) : l[i] = log[i]
  BY <1>1, AgesAt, AppendAt
<1>4. DOMAIN l = 1..(Len(log) + 1)
  BY <1>1, <1>3, AgesAt, AppendAt
<1>5. Len(log) <= Len(s)
  BY DEF Counted
<1>6. ASSUME NEW i \in DOMAIN l PROVE t[i + (Len(t) - Len(l))] <= l[i]
  <2>1. Len(t) - Len(l) = Len(s) - Len(log)
    BY <1>2, <1>3
  <2>2. CASE i = Len(log) + 1
    <3>1. i + (Len(t) - Len(l)) = Len(s) + 1
      BY <1>2, <1>3, <2>1, <2>2
    <3>2. t[i + (Len(t) - Len(l))] = 0
      BY <1>2, <3>1
    <3>3. l[i] = 0
      BY <1>3, <2>2
    <3> QED
      BY <3>2, <3>3
  <2>3. CASE i # Len(log) + 1
    <3>0. Len(s) \in Nat /\ Len(log) \in Nat
      BY <1>2, <1>3
    <3>1. i \in 1..Len(log)
      BY <1>4, <2>3, <3>0
    <3>2. i + (Len(s) - Len(log)) \in 1..Len(s)
      BY <1>5, <3>0, <3>1
    <3>3. s[i + (Len(s) - Len(log))] <= log[i]
      BY <1>3, <3>1 DEF Counted
    <3> QED
      BY <1>2, <1>3, <2>1, <3>1, <3>2, <3>3
  <2> QED
    BY <2>2, <2>3
<1>7. Len(l) <= Len(t)
  BY <1>2, <1>3, <1>5
<1>8. ASSUME NEW i \in DOMAIN l PROVE l[i] < limit
  <2>1. CASE i = Len(log) + 1
    <3>1. l[i] = 0
      BY <1>3, <2>1
    <3> QED
      BY <3>1
  <2>2. CASE i # Len(log) + 1
    <3>0. Len(log) \in Nat
      BY <1>3
    <3>1. i \in 1..Len(log)
      BY <1>4, <2>2, <3>0
    <3>2. l[i] = log[i] /\ i \in DOMAIN log
      BY <1>3, <3>1
    <3> QED
      BY <3>2 DEF Recent
  <2> QED
    BY <2>1, <2>2
<1>9. ASSUME NEW i \in DOMAIN l, NEW j \in DOMAIN l, i <= j PROVE l[j] <= l[i]
  <2>1. CASE j = Len(log) + 1
    BY <1>3, <1>4, <2>1
  <2>2. CASE j # Len(log) + 1
    <3>1. i \in 1..Len(log) /\ j \in 1..Len(log)
      BY <1>3, <1>4, <1>9, <2>2
    <3> QED
      BY <1>3, <1>9, <3>1 DEF Ordered
  <2> QED
    BY <2>1, <2>2
<1>10. Counted(t, l) /\ Ordered(l) /\ Recent(l, limit)
  BY <1>6, <1>7, <1>8, <1>9 DEF Counted, Ordered, Recent
<1> QED
  BY <1>1, <1>10

\* ... or refused by a later check.
LEMMA CountedRefused ==
    ASSUME NEW s \in Seq(Nat), NEW log \in Seq(Nat), Counted(s, log), Ordered(log)
    PROVE  Counted(Append(s, 0), log)
<1>1. PICK t : t = Append(s, 0)
  OBVIOUS
<1>2. /\ Len(s) \in Nat /\ Len(t) = Len(s) + 1 /\ t[Len(s) + 1] = 0
      /\ \A i \in 1..Len(s) : t[i] = s[i]
  BY <1>1, AgesAt, AppendAt
<1>3. Len(log) \in Nat /\ DOMAIN log = 1..Len(log) /\ \A i \in 1..Len(log) : log[i] \in Nat
  BY AgesAt
<1>s. \A i \in 1..Len(s) : s[i] \in Nat
  BY AgesAt
<1>4. Len(log) <= Len(s)
  BY DEF Counted
<1>5. ASSUME NEW i \in DOMAIN log PROVE t[i + (Len(t) - Len(log))] <= log[i]
  <2>1. CASE i = Len(log)
    <3>1. i + (Len(t) - Len(log)) = Len(s) + 1
      BY <1>2, <1>3, <2>1
    <3> QED
      BY <1>2, <1>3, <3>1
  <2>2. CASE i # Len(log)
    <3>1. i + 1 \in 1..Len(log) /\ i \in 1..Len(log)
      BY <1>3, <2>2
    <3>2. i + (Len(t) - Len(log)) = (i + 1) + (Len(s) - Len(log))
      BY <1>2, <1>3
    <3>3. (i + 1) + (Len(s) - Len(log)) \in 1..Len(s)
      BY <1>2, <1>3, <1>4, <3>1
    <3>4. s[(i + 1) + (Len(s) - Len(log))] <= log[i + 1]
      BY <1>3, <3>1 DEF Counted
    <3>5. log[i + 1] <= log[i]
      BY <1>3, <3>1 DEF Ordered
    <3>6. t[i + (Len(t) - Len(log))] = s[(i + 1) + (Len(s) - Len(log))]
      BY <1>2, <3>2, <3>3
    <3>7. s[(i + 1) + (Len(s) - Len(log))] \in Nat /\ log[i + 1] \in Nat /\ log[i] \in Nat
      BY <1>3, <1>s, <3>1, <3>3
    <3>8. s[(i + 1) + (Len(s) - Len(log))] <= log[i]
      BY <3>4, <3>5, <3>7, AgesOrdered, Zenon
    <3> QED
      BY <3>6, <3>8, Zenon
  <2> QED
    BY <2>1, <2>2
<1>6. Len(log) <= Len(t)
  BY <1>2, <1>3, <1>4
<1>7. Counted(t, log)
  BY <1>5, <1>6 DEF Counted
<1> QED
  BY <1>1, <1>7

\* A tick ages both alike.
LEMMA GrowAt ==
    ASSUME NEW s \in Seq(Nat), NEW most \in Nat
    PROVE  /\ Grow(s, most) \in Seq(Nat) /\ Len(Grow(s, most)) = Len(s)
           /\ \A i \in 1..Len(s) : Grow(s, most)[i] = IF s[i] < most THEN s[i] + 1 ELSE s[i]
<1>1. Len(s) \in Nat /\ DOMAIN s = 1..Len(s) /\ \A i \in 1..Len(s) : s[i] \in Nat
  BY AgesAt
<1>2. PICK n \in Nat : n = Len(s)
  BY <1>1
<1>3. Grow(s, most) = [i \in 1..n |-> IF s[i] < most THEN s[i] + 1 ELSE s[i]]
  BY <1>1, <1>2 DEF Grow
<1>4. \A i \in 1..n : (IF s[i] < most THEN s[i] + 1 ELSE s[i]) \in Nat
  BY <1>1, <1>2
<1>5. Grow(s, most) \in Seq(Nat)
  BY <1>3, <1>4, IsASeq
<1>6. DOMAIN Grow(s, most) = 1..n
  BY <1>3
<1>7. Len(Grow(s, most)) = n
  BY <1>2, <1>5, <1>6, LenProperties
<1> QED
  BY <1>2, <1>3, <1>5, <1>7

\* So a counterpart stays one.
LEMMA CountedGrows ==
    ASSUME NEW limit \in Nat, NEW most \in Nat, NEW s \in Seq(Nat), NEW log \in Seq(Nat),
           Counted(s, log), Recent(log, limit), Ordered(log)
    PROVE  /\ Counted(Grow(s, most), Grow(log, limit))
           /\ Ordered(Grow(log, limit))
<1>2. PICK t, l : t = Grow(s, most) /\ l = Grow(log, limit)
  OBVIOUS
<1>3. /\ Len(s) \in Nat /\ Len(t) = Len(s) /\ \A i \in 1..Len(s) : s[i] \in Nat
      /\ \A i \in 1..Len(s) : t[i] = IF s[i] < most THEN s[i] + 1 ELSE s[i]
  BY <1>2, AgesAt, GrowAt
<1>4. /\ Len(log) \in Nat /\ DOMAIN log = 1..Len(log) /\ \A i \in 1..Len(log) : log[i] \in Nat
      /\ l \in Seq(Nat) /\ Len(l) = Len(log)
      /\ \A i \in 1..Len(log) : l[i] = IF log[i] < limit THEN log[i] + 1 ELSE log[i]
  BY <1>2, AgesAt, GrowAt
<1>5. DOMAIN l = 1..Len(log) /\ \A i \in 1..Len(log) : l[i] = log[i] + 1
  BY <1>4, AgesAt DEF Recent
<1>6. Len(log) <= Len(s)
  BY DEF Counted
<1>7. ASSUME NEW i \in DOMAIN l PROVE t[i + (Len(t) - Len(l))] <= l[i]
  <2>1. i \in 1..Len(log)
    BY <1>5
  <2>0. Len(s) \in Nat /\ Len(log) \in Nat
    BY <1>3, <1>4
  <2>2. i + (Len(s) - Len(log)) \in 1..Len(s)
    BY <1>6, <2>0, <2>1
  <2>3. s[i + (Len(s) - Len(log))] <= log[i]
    BY <1>4, <2>1 DEF Counted
  <2>4. PICK a \in Nat, b \in Nat : a = s[i + (Len(s) - Len(log))] /\ b = log[i] /\ a <= b
    BY <1>3, <1>4, <2>1, <2>2, <2>3
  <2>5. t[i + (Len(s) - Len(log))] <= a + 1
    <3>1. t[i + (Len(s) - Len(log))] = IF a < most THEN a + 1 ELSE a
      BY <1>3, <2>2, <2>4
    <3> QED
      BY <3>1
  <2>6. l[i] = b + 1
    BY <1>5, <2>1, <2>4
  <2>7. t[i + (Len(s) - Len(log))] \in Nat
    BY <1>3, <2>2
  <2>8. t[i + (Len(s) - Len(log))] <= b + 1
    <3>1. a + 1 \in Nat /\ b + 1 \in Nat /\ a + 1 <= b + 1
      BY <2>4, AgesGrow, Zenon
    <3> QED
      BY <2>5, <2>7, <3>1, AgesOrdered, Zenon
  <2> QED
    BY <1>3, <1>4, <2>6, <2>8
<1>8. ASSUME NEW i \in DOMAIN l, NEW j \in DOMAIN l, i <= j PROVE l[j] <= l[i]
  <2>1. i \in 1..Len(log) /\ j \in 1..Len(log)
    BY <1>5
  <2>2. log[j] <= log[i]
    BY <1>4, <1>8, <2>1 DEF Ordered
  <2> QED
    BY <1>4, <1>5, <2>1, <2>2
<1>9. Len(l) <= Len(t)
  BY <1>3, <1>4, <1>6
<1>10. Counted(t, l) /\ Ordered(l)
  BY <1>7, <1>8, <1>9 DEF Counted, Ordered
<1> QED
  BY <1>2, <1>10

\* Ages are natural numbers.
LEMMA AgesAreNat ==
    ASSUME NEW n \in Nat, NEW s \in Seq(0..n)
    PROVE  s \in Seq(Nat)
<1>1. \A i \in 1..Len(s) : s[i] \in Nat
  BY ElementOfSeq
<1>2. Len(s) \in Nat /\ s = [i \in 1..Len(s) |-> s[i]]
  BY LenProperties
<1> QED
  BY <1>1, <1>2, IsASeq

\* A limiter prunes its window; if there is room then, it admits one more.
LEMMA LimitedSpends ==
    ASSUME NEW limit \in Nat \ {0}, NEW max \in Nat, NEW s \in Seq(Nat), NEW log \in Seq(Nat),
           Limited(s, log, limit, max), NEW live, live = DropOlder(s, limit)
    PROVE  /\ Limited(live, log, limit, max)
           /\ Len(live) < max => /\ Limited(Append(live, 0), log, limit, max)
                                 /\ Limited(Append(live, 0), Append(log, 0), limit, max)
<1>1. live \in Seq(Nat) /\ Counted(live, log) /\ Len(live) <= Len(s)
  BY CountedLive DEF Limited
<1>2. Ordered(log) /\ Recent(log, limit) /\ Len(s) <= max
  BY DEF Limited
<1>3. Len(live) \in Nat /\ Len(s) \in Nat
  BY <1>1, AgesAt
<1>4. Len(live) <= max
  BY <1>1, <1>2, <1>3
<1>5. Len(live) < max => Len(Append(live, 0)) <= max
  <2>1. Len(Append(live, 0)) = Len(live) + 1
    BY <1>1, AppendAt
  <2> QED
    BY <1>3, <2>1
<1>6. /\ Counted(Append(live, 0), Append(log, 0))
      /\ Ordered(Append(log, 0)) /\ Recent(Append(log, 0), limit)
  BY <1>1, <1>2, CountedInjected
<1>7. Counted(Append(live, 0), log)
  BY <1>1, <1>2, CountedRefused
<1> QED
  BY <1>1, <1>2, <1>4, <1>5, <1>6, <1>7 DEF Limited

\* Time passes for both.
LEMMA LimitedGrows ==
    ASSUME NEW limit \in Nat \ {0}, NEW max \in Nat, NEW most \in Nat,
           NEW s \in Seq(Nat), NEW log \in Seq(Nat), Limited(s, log, limit, max)
    PROVE  Limited(Grow(s, most), DropOlder(Grow(log, limit), limit), limit, max)
<1>1. PICK t, l : t = Grow(s, most) /\ l = Grow(log, limit)
  OBVIOUS
<1>2. t \in Seq(Nat) /\ l \in Seq(Nat) /\ Len(t) = Len(s)
  BY <1>1, GrowAt
<1>3. Counted(t, l) /\ Ordered(l)
  BY <1>1, CountedGrows DEF Limited
<1>4. Counted(t, DropOlder(l, limit))
  BY <1>2, <1>3, CountedForgets
<1>5. Ordered(DropOlder(l, limit)) /\ Recent(DropOlder(l, limit), limit)
  BY <1>2, <1>3, OrderedDrop
<1>6. Len(t) <= max
  BY <1>2 DEF Limited
<1> QED
  BY <1>1, <1>4, <1>5, <1>6 DEF Limited

\* Nothing was let through yet.
LEMMA LimitedEmpty ==
    ASSUME NEW limit, NEW max \in Nat
    PROVE  Limited(<<>>, <<>>, limit, max)
BY DEF Limited, Ordered, Recent, Counted

\* So the log is no longer than the limit.
LEMMA LimitedBounds ==
    ASSUME NEW limit, NEW max \in Nat, NEW s \in Seq(Nat), NEW log \in Seq(Nat),
           Limited(s, log, limit, max)
    PROVE  Len(log) <= max
<1>1. Len(log) <= Len(s) /\ Len(s) <= max
  BY DEF Limited, Counted
<1>2. Len(log) \in Nat /\ Len(s) \in Nat
  BY AgesAt
<1> QED
  BY <1>1, <1>2

=============================================================================
