-------------------------- MODULE FrontendStoreProofs --------------------------
(***************************************************************************)
(* The frontend's copy of a tunnel, for any sizes of the ring and of the   *)
(* store and any number of runs, lines and status changes.                 *)
(***************************************************************************)
EXTENDS FrontendStore, SequenceTheorems, FiniteSetTheorems, TLAPS

-----------------------------------------------------------------------------
(* Induction over the natural numbers. *)

\* A set of natural numbers that is not empty has a least element.
LEMMA LeastElement ==
    ASSUME NEW T, T \subseteq Nat, T # {}
    PROVE  \E m \in T : \A k \in T : m <= k
<1> DEFINE D == {0..k : k \in T}
<1>1. D \subseteq FiniteSubsetsOf(Nat) /\ D # {}
  <2>1. \A k \in T : IsFiniteSet(0..k) /\ 0..k \in SUBSET Nat
    BY FS_Interval
  <2>2. QED
    BY <2>1 DEF FiniteSubsetsOf
<1>2. \E x \in D : \A y \in D : <<y, x>> \notin StrictSubsetOrdering(Nat)
  BY <1>1, FS_StrictSubsetOrderingWellFounded, WFMin
<1>3. PICK m \in T : \A k \in T : <<0..k, 0..m>> \notin StrictSubsetOrdering(Nat)
  BY <1>2
<1>4. \A k \in T : m <= k
  <2>1. SUFFICES ASSUME NEW k \in T, k < m PROVE FALSE
    BY <1>3
  <2>2. 0..k \subseteq 0..m /\ m \in 0..m /\ m \notin 0..k
    BY <2>1
  <2>3. 0..k \in SUBSET Nat /\ 0..m \in SUBSET Nat
    OBVIOUS
  <2>4. <<0..k, 0..m>> \in StrictSubsetOrdering(Nat)
    BY <2>2, <2>3 DEF StrictSubsetOrdering
  <2>5. QED
    BY <2>4, <1>3
<1>5. QED
  BY <1>4

\* A set with 0, and with the successor of each number in it, holds them all.
LEMMA SetInduction ==
    ASSUME NEW S, 0 \in S, \A n \in Nat : n \in S => n + 1 \in S
    PROVE  Nat \subseteq S
<1>1. SUFFICES ASSUME Nat \ S # {} PROVE FALSE
  OBVIOUS
<1>2. PICK m \in Nat \ S : \A k \in Nat \ S : m <= k
  BY <1>1, LeastElement
<1>3. m # 0 /\ m - 1 \in Nat
  BY <1>2
<1>4. m - 1 \in S
  BY <1>2, <1>3
<1>5. QED
  BY <1>2, <1>3, <1>4

-----------------------------------------------------------------------------
(* The reducer over a burst of lines. *)

\* What the function in ApplyLogEvents computes.
IsApplied(g, b, es) ==
    g = [n \in 0..Len(es) |-> IF n = 0 THEN b ELSE ApplyLogEvent(g[n - 1], es[n])]

\* There is but one such function.
LEMMA AppliedOnce ==
    ASSUME NEW b, NEW es, Len(es) \in Nat, NEW f, NEW g, IsApplied(f, b, es), IsApplied(g, b, es)
    PROVE  f[Len(es)] = g[Len(es)]
<1> DEFINE S == {k \in Nat : k \in 0..Len(es) => f[k] = g[k]}
<1>1. /\ \A n \in 0..Len(es) : f[n] = IF n = 0 THEN b ELSE ApplyLogEvent(f[n - 1], es[n])
      /\ \A n \in 0..Len(es) : g[n] = IF n = 0 THEN b ELSE ApplyLogEvent(g[n - 1], es[n])
  <2>1. ASSUME NEW h, IsApplied(h, b, es)
        PROVE  \A n \in 0..Len(es) : h[n] = IF n = 0 THEN b ELSE ApplyLogEvent(h[n - 1], es[n])
    BY <2>1 DEF IsApplied
  <2>2. QED
    BY <2>1
<1>2. 0 \in S
  BY <1>1
<1>3. ASSUME NEW k \in Nat, k \in S
      PROVE  k + 1 \in S
  <2>1. SUFFICES ASSUME k + 1 \in 0..Len(es)
                 PROVE  f[k + 1] = g[k + 1]
    OBVIOUS
  <2>2. PICK n \in 0..Len(es) : n = k + 1
    BY <2>1
  <2>3. n # 0 /\ n - 1 = k /\ k \in 0..Len(es)
    BY <2>2
  <2>4. f[k] = g[k]
    BY <1>3, <2>3
  <2>5. f[n] = ApplyLogEvent(f[k], es[n]) /\ g[n] = ApplyLogEvent(g[k], es[n])
    BY <1>1, <2>3
  <2>6. QED
    BY <2>2, <2>4, <2>5
<1>4. Nat \subseteq S
  <2> HIDE DEF S
  <2>1. QED BY <1>2, <1>3, SetInduction
<1>5. QED
  BY <1>4

\* A burst comes to what any such function says.
LEMMA AppliedIs ==
    ASSUME NEW b, NEW es, Len(es) \in Nat, NEW g, IsApplied(g, b, es)
    PROVE  ApplyLogEvents(b, es) = g[Len(es)]
<1> DEFINE c == CHOOSE f : f = [n \in 0..Len(es) |-> IF n = 0 THEN b ELSE ApplyLogEvent(f[n - 1], es[n])]
<1>1. c = [n \in 0..Len(es) |-> IF n = 0 THEN b ELSE ApplyLogEvent(c[n - 1], es[n])]
  BY DEF IsApplied
<1>2. ApplyLogEvents(b, es) = c[Len(es)]
  BY DEF ApplyLogEvents
<1> HIDE DEF c
<1>3. IsApplied(c, b, es)
  BY <1>1 DEF IsApplied
<1>4. c[Len(es)] = g[Len(es)]
  BY <1>3, AppliedOnce
<1>5. QED
  BY <1>2, <1>4

\* A burst applied line by line.
LEMMA AppliedTo ==
    ASSUME NEW b, NEW es, NEW n \in Nat, Len(es) = n, NEW r, r[0] = b,
           \A k \in 1..n : r[k] = ApplyLogEvent(r[k - 1], es[k])
    PROVE  ApplyLogEvents(b, es) = r[n]
<1>1. PICK g : g = [k \in 0..n |-> r[k]]
  OBVIOUS
<1>2. g = [k \in 0..n |-> IF k = 0 THEN b ELSE ApplyLogEvent(g[k - 1], es[k])]
  <2>1. ASSUME NEW k \in 0..n
        PROVE  g[k] = IF k = 0 THEN b ELSE ApplyLogEvent(g[k - 1], es[k])
    <3>1. CASE k = 0
      BY <1>1, <3>1
    <3>2. CASE k # 0
      <4>1. k \in 1..n /\ k - 1 \in 0..n
        BY <3>2
      <4>2. g[k - 1] = r[k - 1] /\ g[k] = r[k]
        BY <1>1, <4>1
      <4>3. QED
        BY <3>2, <4>1, <4>2
    <3>3. QED
      BY <3>1, <3>2
  <2>2. QED
    BY <1>1, <2>1
<1>3. IsApplied(g, b, es)
  BY <1>2 DEF IsApplied
<1>4. ApplyLogEvents(b, es) = g[n]
  BY <1>3, AppliedIs
<1>5. QED
  BY <1>1, <1>4

\* What the function in Beyond computes.
IsKept(g, s, x) ==
    g = [n \in 0..Len(s) |->
            CASE n = 0 -> <<>>
              [] n > 0 /\ s[n].index > x -> Append(g[n - 1], s[n])
              [] OTHER -> g[n - 1]]

\* There is but one such function.
LEMMA KeptOnce ==
    ASSUME NEW s, NEW x, Len(s) \in Nat, NEW f, NEW g, IsKept(f, s, x), IsKept(g, s, x)
    PROVE  f[Len(s)] = g[Len(s)]
<1> DEFINE S == {k \in Nat : k \in 0..Len(s) => f[k] = g[k]}
<1>1. ASSUME NEW h, IsKept(h, s, x)
      PROVE  \A n \in 0..Len(s) : h[n] = CASE n = 0 -> <<>>
                                           [] n > 0 /\ s[n].index > x -> Append(h[n - 1], s[n])
                                           [] OTHER -> h[n - 1]
  BY <1>1 DEF IsKept
<1>2. ASSUME NEW h, IsKept(h, s, x)
      PROVE  /\ h[0] = <<>>
             /\ \A n \in 1..Len(s) : h[n] = IF s[n].index > x THEN Append(h[n - 1], s[n]) ELSE h[n - 1]
  <2>1. h[0] = <<>>
    BY <1>1, <1>2
  <2>2. ASSUME NEW n \in 1..Len(s)
        PROVE  h[n] = IF s[n].index > x THEN Append(h[n - 1], s[n]) ELSE h[n - 1]
    <3>1. n \in 0..Len(s) /\ n # 0 /\ n > 0
      OBVIOUS
    <3>2. QED
      BY <1>1, <1>2, <3>1
  <2>3. QED
    BY <2>1, <2>2
<1>3. 0 \in S
  BY <1>2
<1>4. ASSUME NEW k \in Nat, k \in S
      PROVE  k + 1 \in S
  <2>1. SUFFICES ASSUME k + 1 \in 0..Len(s)
                 PROVE  f[k + 1] = g[k + 1]
    OBVIOUS
  <2>2. PICK n \in 1..Len(s) : n = k + 1
    BY <2>1
  <2>3. n - 1 = k /\ k \in 0..Len(s)
    BY <2>2
  <2>4. f[k] = g[k]
    BY <1>4, <2>3
  <2>5. /\ f[n] = IF s[n].index > x THEN Append(f[k], s[n]) ELSE f[k]
        /\ g[n] = IF s[n].index > x THEN Append(g[k], s[n]) ELSE g[k]
    BY <1>2, <2>3
  <2>6. QED
    BY <2>2, <2>4, <2>5
<1>5. Nat \subseteq S
  <2> HIDE DEF S
  <2>1. QED BY <1>3, <1>4, SetInduction
<1>6. QED
  BY <1>5

\* A filter comes to what any such function says.
LEMMA KeptIs ==
    ASSUME NEW s, NEW x, Len(s) \in Nat, NEW g, IsKept(g, s, x)
    PROVE  Beyond(s, x) = g[Len(s)]
<1> DEFINE c == CHOOSE f : f = [n \in 0..Len(s) |->
            CASE n = 0 -> <<>>
              [] n > 0 /\ s[n].index > x -> Append(f[n - 1], s[n])
              [] OTHER -> f[n - 1]]
<1>1. c = [n \in 0..Len(s) |->
            CASE n = 0 -> <<>>
              [] n > 0 /\ s[n].index > x -> Append(c[n - 1], s[n])
              [] OTHER -> c[n - 1]]
  BY DEF IsKept
<1>2. Beyond(s, x) = c[Len(s)]
  BY DEF Beyond
<1> HIDE DEF c
<1>3. IsKept(c, s, x)
  BY <1>1 DEF IsKept
<1>4. QED
  BY <1>2, <1>3, KeptOnce

-----------------------------------------------------------------------------
(* Lines in order. *)

\* Indexes that rise.
Rises(s) == \A i, j \in 1..Len(s) : i < j => s[i].index < s[j].index

\* A filter by index keeps the end of a sequence that rises.
LEMMA BeyondIsEnd ==
    ASSUME NEW s \in Seq(Entries), Rises(s), NEW x \in Int
    PROVE  \E k \in 0..Len(s) : /\ \A i \in 1..Len(s) : s[i].index > x <=> i > k
                                /\ Beyond(s, x) = SubSeq(s, k + 1, Len(s))
<1>1. PICK l \in Nat : l = Len(s)
  OBVIOUS
<1>2. \A i \in 1..l : s[i] \in Entries /\ s[i].index \in Int
  <2>1. \A e \in Entries : e.index \in Int
    BY StoreAssumption DEF Entries
  <2>2. \A i \in 1..l : s[i] \in Entries
    BY <1>1, ElementOfSeq
  <2>3. QED
    BY <2>1, <2>2
<1>3. PICK k \in 0..l : \A i \in 1..l : s[i].index > x <=> i > k
  <2> DEFINE T == {i \in 1..l : s[i].index > x} \cup {l + 1}
  <2>1. T \subseteq Nat /\ T # {}
    OBVIOUS
  <2>2. PICK m \in T : \A i \in T : m <= i
    <3> HIDE DEF T
    <3>1. QED BY <2>1, LeastElement
  <2>3. m \in 1..(l + 1)
    OBVIOUS
  <2>4. ASSUME NEW i \in 1..l
        PROVE  s[i].index > x <=> i > m - 1
    <3>1. CASE i < m
      BY <2>2, <2>3, <3>1
    <3>2. CASE i = m
      BY <2>3, <3>2
    <3>3. CASE i > m
      <4>1. m \in 1..l /\ s[m].index > x
        BY <2>3, <3>3
      <4>2. s[m].index < s[i].index
        BY <1>1, <3>3, <4>1 DEF Rises
      <4>3. QED
        BY <1>2, <2>3, <3>3, <4>1, <4>2
    <3>4. QED
      BY <2>3, <3>1, <3>2, <3>3
  <2>5. m - 1 \in 0..l
    BY <2>3
  <2>6. QED
    BY <2>4, <2>5
<1>4. PICK g : g = [n \in 0..l |-> IF n <= k THEN <<>> ELSE SubSeq(s, k + 1, n)]
  OBVIOUS
<1>5. ASSUME NEW n \in 0..l
      PROVE  g[n] = CASE n = 0 -> <<>>
                      [] n > 0 /\ s[n].index > x -> Append(g[n - 1], s[n])
                      [] OTHER -> g[n - 1]
  <2>1. CASE n = 0
    BY <1>4, <2>1
  <2>2. CASE n > 0 /\ n <= k
    <3>1. ~(s[n].index > x) /\ n - 1 \in 0..l /\ n - 1 <= k
      BY <1>3, <2>2
    <3>2. QED
      BY <1>4, <2>2, <3>1
  <2>3. CASE n = k + 1
    <3>1. s[n].index > x /\ n - 1 = k /\ k \in 0..l /\ n # 0
      BY <1>3, <2>3
    <3>2. g[k] = <<>> /\ g[n] = SubSeq(s, n, n)
      BY <1>4, <2>3, <3>1
    <3>3. SubSeq(s, n, n) = <<s[n]>>
      <4>1. PICK q : q = SubSeq(s, n, n)
        OBVIOUS
      <4>2. q \in Seq(Entries) /\ Len(q) = 1 /\ q[1] = s[n]
        BY <1>1, <2>3, <4>1, SubSeqProperties
      <4>3. PICK d : d = s[n]
        OBVIOUS
      <4>4. q = <<d>>
        BY <4>2, <4>3
      <4>5. QED
        BY <4>1, <4>3, <4>4
    <3>4. Append(<<>>, s[n]) = <<s[n]>>
      BY <1>1, <1>2, <2>3
    <3>5. g[n] = Append(g[n - 1], s[n])
      <4>1. g[n - 1] = <<>>
        BY <3>1, <3>2
      <4>2. QED
        BY <3>2, <3>3, <3>4, <4>1
    <3>6. QED
      BY <2>3, <3>1, <3>5
  <2>4. CASE n > k + 1
    <3>1. s[n].index > x /\ n - 1 \in 0..l /\ ~(n - 1 <= k) /\ n # 0 /\ ~(n <= k)
      BY <1>3, <2>4
    <3>2. g[n] = SubSeq(s, k + 1, n) /\ g[n - 1] = SubSeq(s, k + 1, n - 1)
      BY <1>4, <2>4, <3>1
    <3>3. SubSeq(s, k + 1, n) = Append(SubSeq(s, k + 1, n - 1), s[n])
      <4>1. PICK a, b : a = SubSeq(s, k + 1, n) /\ b = SubSeq(s, k + 1, n - 1)
        OBVIOUS
      <4>2. PICK m \in Nat : m = n - k - 1 /\ m > 0
        BY <2>4
      <4>3. a \in Seq(Entries) /\ Len(a) = m + 1 /\ \A i \in 1..(m + 1) : a[i] = s[k + i]
        BY <1>1, <2>4, <4>1, <4>2, SubSeqProperties
      <4>4. b \in Seq(Entries) /\ Len(b) = m /\ \A i \in 1..m : b[i] = s[k + i]
        BY <1>1, <2>4, <4>1, <4>2, SubSeqProperties
      <4>5. PICK c : c = Append(b, s[n])
        OBVIOUS
      <4>6. c \in Seq(Entries) /\ Len(c) = m + 1 /\ c[m + 1] = s[n] /\ \A i \in 1..m : c[i] = b[i]
        <5>1. PICK d \in Entries : d = s[n]
          BY <1>2, <2>4
        <5>2. c = Append(b, d)
          BY <4>5, <5>1
        <5>3. QED
          BY <4>4, <5>1, <5>2, AppendProperties
      <4>7. a[m + 1] = s[n]
        BY <4>2, <4>3
      <4>8. \A i \in 1..(m + 1) : a[i] = c[i]
        <5>1. TAKE i \in 1..(m + 1)
        <5>2. CASE i = m + 1
          BY <4>6, <4>7, <5>2
        <5>3. CASE i # m + 1
          <6>1. i \in 1..m
            BY <4>2, <5>3
          <6>2. a[i] = s[k + i] /\ b[i] = s[k + i] /\ c[i] = b[i]
            BY <4>3, <4>4, <4>6, <6>1
          <6>3. QED
            BY <6>2
        <5>4. QED
          BY <5>2, <5>3
      <4>9. a = c
        BY <4>3, <4>6, <4>8, SeqEqual
      <4>10. QED
        BY <4>1, <4>5, <4>9
    <3>4. g[n] = Append(g[n - 1], s[n])
      BY <3>2, <3>3
    <3>5. n > 0
      BY <2>4
    <3>6. QED
      BY <3>1, <3>4, <3>5
  <2>5. QED
    BY <2>1, <2>2, <2>3, <2>4
<1>6. IsKept(g, s, x)
  BY <1>1, <1>4, <1>5 DEF IsKept
<1>7. Beyond(s, x) = g[l]
  BY <1>1, <1>6, KeptIs
<1>8. g[l] = SubSeq(s, k + 1, l)
  <2>1. CASE l <= k
    <3>1. g[l] = <<>>
      BY <1>4, <2>1
    <3>2. SubSeq(s, k + 1, l) = <<>>
      BY <1>1, <2>1, SubSeqEmpty
    <3>3. QED
      BY <3>1, <3>2
  <2>2. CASE ~(l <= k)
    BY <1>4, <2>2
  <2>3. QED
    BY <2>1, <2>2
<1>9. QED
  BY <1>1, <1>3, <1>7, <1>8

\* Sequences of lines whose indexes rise.
Ordered == {s \in Seq(Entries) : Rises(s)}

\* What a line is.
LEMMA EntryTyped == \A e \in Entries : e.index \in Int /\ 0 <= e.index /\ e.index < MaxLines /\ e.run \in 1..MaxRuns
<1>1. MaxLines \in Nat
  BY StoreAssumption
<1>2. QED
  BY <1>1 DEF Entries

\* The last index of a sequence of lines.
LEMMA LastIndexTyped ==
    ASSUME NEW s \in Seq(Entries)
    PROVE  /\ LastIndex(s) \in Int /\ -1 <= LastIndex(s) /\ LastIndex(s) < MaxLines
           /\ Len(s) = 0 <=> s = <<>>
           /\ s = <<>> <=> LastIndex(s) = -1
           /\ s # <<>> => /\ Len(s) \in 1..Len(s) /\ s[Len(s)] \in Entries
                          /\ LastIndex(s) = s[Len(s)].index
           /\ MaxLines \in Int
<1>1. MaxLines \in Nat /\ MaxLines > 0
  BY StoreAssumption
<1>2. \A e \in Entries : e.index \in Int /\ 0 <= e.index /\ e.index < MaxLines
  BY <1>1 DEF Entries
<1>3. Len(s) = 0 <=> s = <<>>
  BY EmptySeq
<1>4. CASE s = <<>>
  BY <1>1, <1>3, <1>4 DEF LastIndex
<1>5. CASE s # <<>>
  <2>1. PICK l \in Nat : l = Len(s) /\ l > 0
    BY <1>3, <1>5
  <2>2. l \in 1..l /\ s[l] \in Entries
    BY <2>1, ElementOfSeq
  <2>3. LastIndex(s) = s[l].index
    BY <1>5, <2>1 DEF LastIndex
  <2>4. QED
    BY <1>1, <1>2, <1>3, <1>5, <2>1, <2>2, <2>3
<1>6. QED
  BY <1>4, <1>5

\* The end of an ordered sequence is ordered.
LEMMA EndOrdered ==
    ASSUME NEW s \in Ordered, NEW k \in 0..Len(s)
    PROVE  /\ SubSeq(s, k + 1, Len(s)) \in Ordered
           /\ Len(SubSeq(s, k + 1, Len(s))) = Len(s) - k
           /\ \A i \in 1..(Len(s) - k) : SubSeq(s, k + 1, Len(s))[i] = s[k + i]
           /\ k < Len(s) => LastIndex(SubSeq(s, k + 1, Len(s))) = LastIndex(s)
<1>1. s \in Seq(Entries) /\ Rises(s)
  BY DEF Ordered
<1>2. PICK l \in Nat : l = Len(s)
  BY <1>1
<1>3. PICK m \in Nat : m = l - k
  <2>1. l - k \in Nat
    BY <1>2
  <2>2. QED
    BY <2>1
<1>4. PICK t : t = SubSeq(s, k + 1, l)
  OBVIOUS
<1>5. t \in Seq(Entries) /\ Len(t) = m /\ \A i \in 1..m : t[i] = s[k + i]
  <2>1. PICK a \in Nat : a = k + 1
    OBVIOUS
  <2>2. \A i \in a..l : s[i] \in Entries
    BY <1>1, <1>2, <2>1, ElementOfSeq
  <2>3. /\ SubSeq(s, a, l) \in Seq(Entries)
        /\ Len(SubSeq(s, a, l)) = IF a <= l THEN l - a + 1 ELSE 0
        /\ \A i \in 1..(l - a + 1) : SubSeq(s, a, l)[i] = s[a + i - 1]
    BY <2>2, SubSeqProperties
  <2>4. l - a + 1 = m /\ (IF a <= l THEN l - a + 1 ELSE 0) = m /\ \A i \in 1..m : a + i - 1 = k + i
    BY <1>2, <1>3, <2>1
  <2>5. t = SubSeq(s, a, l)
    BY <1>4, <2>1
  <2>6. QED
    BY <2>3, <2>4, <2>5
<1>6. Rises(t)
  <2>1. SUFFICES ASSUME NEW i \in 1..m, NEW j \in 1..m, i < j
                 PROVE  t[i].index < t[j].index
    BY <1>5 DEF Rises
  <2>2. PICK a \in 1..l, b \in 1..l : a = k + i /\ b = k + j
    <3>1. k + i \in 1..l /\ k + j \in 1..l
      BY <1>2, <1>3
    <3>2. QED
      BY <3>1
  <2>3. s[a].index < s[b].index
    BY <1>1, <1>2, <2>1, <2>2 DEF Rises
  <2>4. t[i] = s[a] /\ t[j] = s[b]
    BY <1>5, <2>2
  <2>5. QED
    BY <2>3, <2>4
<1>7. k < l => LastIndex(t) = LastIndex(s)
  <2>1. SUFFICES ASSUME k < l PROVE LastIndex(t) = LastIndex(s)
    OBVIOUS
  <2>2. m \in 1..m /\ k + m = l
    BY <1>2, <1>3, <2>1
  <2>3. t[m] = s[l]
    BY <1>5, <2>2
  <2>4. t # <<>> /\ s # <<>>
    BY <1>1, <1>2, <1>5, <2>1, <2>2, LastIndexTyped
  <2>5. QED
    BY <1>2, <1>5, <2>3, <2>4 DEF LastIndex
<1>8. QED
  BY <1>2, <1>3, <1>4, <1>5, <1>6, <1>7 DEF Ordered

\* A filter by index.
LEMMA BeyondOrdered ==
    ASSUME NEW s \in Ordered, NEW x \in Int
    PROVE  /\ Beyond(s, x) \in Ordered
           /\ \A i \in 1..Len(Beyond(s, x)) : Beyond(s, x)[i].index > x
           /\ Beyond(s, x) # <<>> => LastIndex(Beyond(s, x)) = LastIndex(s)
<1>1. s \in Seq(Entries) /\ Rises(s)
  BY DEF Ordered
<1>2. PICK k \in 0..Len(s) : /\ \A i \in 1..Len(s) : s[i].index > x <=> i > k
                             /\ Beyond(s, x) = SubSeq(s, k + 1, Len(s))
  BY <1>1, BeyondIsEnd
<1>l. PICK l \in Nat : l = Len(s)
  BY <1>1
<1>t. PICK t : t = Beyond(s, x)
  OBVIOUS
<1>3. /\ t \in Ordered /\ Len(t) = l - k
      /\ \A i \in 1..(l - k) : t[i] = s[k + i]
      /\ k < l => LastIndex(t) = LastIndex(s)
  BY <1>2, <1>l, <1>t, EndOrdered
<1>4. ASSUME NEW i \in 1..Len(t)
      PROVE  t[i].index > x
  <2>1. PICK j \in 1..l : j = k + i /\ j > k
    <3>1. k + i \in 1..l /\ k + i > k
      BY <1>l, <1>3
    <3>2. QED
      BY <3>1
  <2>2. t[i] = s[j]
    BY <1>3, <2>1
  <2>3. QED
    BY <1>2, <1>l, <2>1, <2>2
<1>5. ASSUME t # <<>>
      PROVE  LastIndex(t) = LastIndex(s)
  <2>1. t \in Seq(Entries)
    BY <1>3 DEF Ordered
  <2>2. l - k # 0
    BY <1>3, <1>5, <2>1, LastIndexTyped
  <2>3. k < l
    BY <1>l, <2>2
  <2>4. QED
    BY <1>3, <2>3
<1>6. QED
  BY <1>t, <1>3, <1>4, <1>5

\* slice(-MAX_LOG_LINES)
LEMMA CappedOrdered ==
    ASSUME NEW s \in Ordered
    PROVE  /\ Capped(s) \in Ordered /\ Len(Capped(s)) <= ViewCap
           /\ LastIndex(Capped(s)) = LastIndex(s)
<1>1. s \in Seq(Entries)
  BY DEF Ordered
<1>2. PICK l \in Nat : l = Len(s)
  BY <1>1
<1>3. PICK d \in 0..l : d = (IF l > ViewCap THEN l - ViewCap ELSE 0) /\ l - d <= ViewCap /\ (l > 0 => d < l)
  <2>1. LET d == IF l > ViewCap THEN l - ViewCap ELSE 0
        IN  d \in 0..l /\ l - d <= ViewCap /\ (l > 0 => d < l)
    BY ViewCapAssumption
  <2>2. QED
    BY <2>1
<1>4. PICK t : t = Capped(s)
  OBVIOUS
<1>5. t = SubSeq(s, 1 + (IF l > ViewCap THEN l - ViewCap ELSE 0), l)
  BY <1>2, <1>4 DEF Capped
<1>6. t = SubSeq(s, d + 1, l)
  <2>1. 1 + d = d + 1
    OBVIOUS
  <2>2. t = SubSeq(s, 1 + d, l)
    BY <1>3, <1>5
  <2>3. QED
    BY <2>1, <2>2
<1>7. t \in Ordered /\ Len(t) = l - d /\ (d < l => LastIndex(t) = LastIndex(s))
  BY <1>2, <1>6, EndOrdered
<1>8. CASE l = 0
  <2>0. t \in Seq(Entries) /\ Len(t) = 0
    BY <1>3, <1>7, <1>8 DEF Ordered
  <2>1. s = <<>> /\ t \in Seq(Entries) /\ Len(t) = 0
    BY <1>1, <1>2, <1>8, <2>0, LastIndexTyped
  <2>2. t = <<>>
    BY <2>1, LastIndexTyped
  <2>3. QED
    BY <1>3, <1>4, <1>7, <2>1, <2>2
<1>9. CASE l # 0
  BY <1>3, <1>4, <1>7, <1>9
<1>10. QED
  BY <1>8, <1>9

\* A line that is not older than the last one.
LEMMA AppendOrdered ==
    ASSUME NEW s \in Ordered, NEW e \in Entries, e.index > LastIndex(s)
    PROVE  Append(s, e) \in Ordered /\ LastIndex(Append(s, e)) = e.index /\ Len(Append(s, e)) = Len(s) + 1
<1>1. s \in Seq(Entries) /\ Rises(s)
  BY DEF Ordered
<1>2. PICK l \in Nat : l = Len(s)
  BY <1>1
<1>3. PICK t : t = Append(s, e)
  OBVIOUS
<1>4. t \in Seq(Entries) /\ Len(t) = l + 1 /\ t[l + 1] = e /\ \A i \in 1..l : t[i] = s[i]
  BY <1>1, <1>2, <1>3, AppendProperties
<1>5. Rises(t)
  <2>1. SUFFICES ASSUME NEW i \in 1..(l + 1), NEW j \in 1..(l + 1), i < j
                 PROVE  t[i].index < t[j].index
    BY <1>4 DEF Rises
  <2>2. i \in 1..l /\ t[i] = s[i]
    BY <1>4, <2>1
  <2>3. CASE j \in 1..l
    BY <1>1, <1>2, <1>4, <2>1, <2>2, <2>3 DEF Rises
  <2>4. CASE j = l + 1
    <3>1. l > 0 /\ s # <<>>
      BY <1>1, <1>2, <2>2, LastIndexTyped
    <3>2. LastIndex(s) = s[l].index /\ s[l].index \in Int /\ s[i].index \in Int
      BY <1>1, <1>2, <2>2, <3>1, LastIndexTyped, EntryTyped, ElementOfSeq
    <3>3. s[i].index <= s[l].index
      <4>1. CASE i = l
        BY <3>2, <4>1
      <4>2. CASE i < l
        <5>1. l \in 1..l
          BY <3>1
        <5>2. s[i].index < s[l].index
          BY <1>1, <1>2, <2>2, <4>2, <5>1 DEF Rises
        <5>3. QED
          BY <3>2, <5>2
      <4>3. QED
        BY <2>2, <4>1, <4>2
    <3>4. t[j].index = e.index /\ e.index \in Int
      BY <1>4, <2>4, EntryTyped
    <3>5. QED
      BY <2>2, <3>2, <3>3, <3>4
  <2>5. QED
    BY <2>3, <2>4
<1>6. LastIndex(t) = e.index
  <2>1. t # <<>>
    BY <1>4
  <2>2. QED
    BY <1>4, <2>1 DEF LastIndex
<1>7. QED
  BY <1>2, <1>3, <1>4, <1>5, <1>6 DEF Ordered

\* One event.
LEMMA EventOrdered ==
    ASSUME NEW b \in Ordered, NEW e \in Entries, Len(b) <= ViewCap
    PROVE  LET c == ApplyLogEvent(b, e)
           IN  /\ c \in Ordered /\ Len(c) <= ViewCap
               /\ LastIndex(c) = e.index
               /\ ApplyLogEvent(c, e) = c
<1>1. PICK c : c = ApplyLogEvent(b, e)
  OBVIOUS
<1>2. e.index \in Int /\ 0 <= e.index
  BY EntryTyped
<1>3. LastIndex(b) \in Int
  BY LastIndexTyped DEF Ordered
<1>4. c \in Ordered /\ Len(c) <= ViewCap /\ LastIndex(c) = e.index
  <2>1. CASE e.index = LastIndex(b)
    <3>1. c = b
      BY <1>1, <1>2, <1>3, <2>1 DEF ApplyLogEvent
    <3>2. QED
      BY <2>1, <3>1
  <2>2. CASE e.index < LastIndex(b)
    <3>1. c = <<e>>
      BY <1>1, <1>2, <1>3, <2>2 DEF ApplyLogEvent
    <3>2. c \in Seq(Entries) /\ Len(c) = 1 /\ c[1] = e /\ c # <<>>
      BY <3>1
    <3>3. Rises(c)
      BY <3>2 DEF Rises
    <3>4. LastIndex(c) = e.index
      BY <3>2 DEF LastIndex
    <3>5. QED
      BY <3>2, <3>3, <3>4, ViewCapAssumption DEF Ordered
  <2>3. CASE e.index > LastIndex(b)
    <3>1. c = Capped(Append(b, e))
      BY <1>1, <1>2, <1>3, <2>3 DEF ApplyLogEvent
    <3>2. Append(b, e) \in Ordered /\ LastIndex(Append(b, e)) = e.index
      BY <2>3, AppendOrdered
    <3>3. QED
      BY <3>1, <3>2, CappedOrdered
  <2>4. QED
    BY <1>2, <1>3, <2>1, <2>2, <2>3
<1>5. ApplyLogEvent(c, e) = c
  BY <1>2, <1>4 DEF ApplyLogEvent
<1>6. QED
  BY <1>1, <1>4, <1>5

\* An event that every one of n listeners applies.
LEMMA CopiesApplied ==
    ASSUME NEW b \in Ordered, NEW e \in Entries, Len(b) <= ViewCap, NEW n \in Nat
    PROVE  ApplyLogEvents(b, [i \in 1..n |-> e]) = IF n = 0 THEN b ELSE ApplyLogEvent(b, e)
<1>1. PICK es, r, c : /\ es = [i \in 1..n |-> e] /\ c = ApplyLogEvent(b, e)
                      /\ r = [k \in 0..n |-> IF k = 0 THEN b ELSE c]
  OBVIOUS
<1>2. ApplyLogEvent(c, e) = c
  BY <1>1, EventOrdered
<1>3. Len(es) = n
  BY <1>1
<1>4. r[0] = b
  BY <1>1
<1>5. ASSUME NEW k \in 1..n
      PROVE  r[k] = ApplyLogEvent(r[k - 1], es[k])
  <2>1. es[k] = e /\ r[k] = c
    BY <1>1
  <2>2. CASE k = 1
    BY <1>1, <1>4, <2>1, <2>2
  <2>3. CASE k # 1
    <3>1. k - 1 \in 0..n /\ k - 1 # 0
      BY <2>3
    <3>2. r[k - 1] = c
      BY <1>1, <3>1
    <3>3. QED
      BY <1>2, <2>1, <3>2
  <2>4. QED
    BY <2>2, <2>3
<1>6. ApplyLogEvents(b, es) = r[n]
  BY <1>3, <1>4, <1>5, AppliedTo
<1>7. QED
  BY <1>1, <1>6

\* Hydration.
LEMMA MergeOrdered ==
    ASSUME NEW fill \in Ordered, NEW live \in Ordered
    PROVE  MergeLogRuns(fill, live) \in Ordered
<1>1. fill \in Seq(Entries) /\ live \in Seq(Entries) /\ Rises(fill)
  BY DEF Ordered
<1>2. PICK x \in Int : x = LastIndex(fill)
  BY <1>1, LastIndexTyped
<1>3. PICK t : t = Beyond(live, x)
  OBVIOUS
<1>4. t \in Ordered /\ \A i \in 1..Len(t) : t[i].index > x
  BY <1>3, BeyondOrdered
<1>5. PICK m : m = fill \o t
  OBVIOUS
<1>6. t \in Seq(Entries) /\ Rises(t)
  BY <1>4 DEF Ordered
<1>7. PICK a \in Nat, b \in Nat : a = Len(fill) /\ b = Len(t)
  BY <1>1, <1>6
<1>8. /\ m \in Seq(Entries) /\ Len(m) = a + b
      /\ \A i \in 1..(a + b) : m[i] = IF i <= a THEN fill[i] ELSE t[i - a]
  BY <1>1, <1>5, <1>6, <1>7, ConcatProperties
<1>9. Rises(m)
  <2>1. SUFFICES ASSUME NEW i \in 1..(a + b), NEW j \in 1..(a + b), i < j
                 PROVE  m[i].index < m[j].index
    BY <1>8 DEF Rises
  <2>2. CASE j <= a
    <3>1. i <= a /\ i \in 1..a /\ j \in 1..a
      BY <2>1, <2>2
    <3>2. fill[i].index < fill[j].index
      BY <1>1, <1>7, <2>1, <3>1 DEF Rises
    <3>3. QED
      BY <1>8, <2>2, <3>1, <3>2
  <2>3. CASE ~(i <= a)
    <3>1. PICK p \in 1..b, q \in 1..b : p = i - a /\ q = j - a /\ p < q
      <4>1. i - a \in 1..b /\ j - a \in 1..b /\ i - a < j - a
        BY <2>1, <2>3
      <4>2. QED
        BY <4>1
    <3>2. t[p].index < t[q].index
      BY <1>6, <1>7, <3>1 DEF Rises
    <3>3. ~(j <= a)
      BY <2>1, <2>3
    <3>4. m[i] = t[p] /\ m[j] = t[q]
      BY <1>8, <2>3, <3>1, <3>3
    <3>5. QED
      BY <3>2, <3>4
  <2>4. CASE i <= a /\ ~(j <= a)
    <3>1. PICK q \in 1..b : q = j - a
      <4>1. j - a \in 1..b
        BY <2>4
      <4>2. QED
        BY <4>1
    <3>2. m[i] = fill[i] /\ m[j] = t[q]
      BY <1>8, <2>4, <3>1
    <3>3. i \in 1..a /\ fill # <<>> /\ a \in 1..a
      BY <1>1, <1>7, <2>4, LastIndexTyped
    <3>4. x = fill[a].index /\ fill[i].index \in Int /\ t[q].index \in Int
      BY <1>1, <1>2, <1>6, <1>7, <3>1, <3>3, LastIndexTyped, EntryTyped, ElementOfSeq
    <3>5. fill[i].index <= x
      <4>1. CASE i = a
        BY <3>4, <4>1
      <4>2. CASE i < a
        BY <1>1, <1>7, <3>3, <3>4, <4>2 DEF Rises
      <4>3. QED
        BY <3>3, <4>1, <4>2
    <3>6. t[q].index > x
      BY <1>4, <1>7, <3>1
    <3>7. QED
      BY <3>2, <3>4, <3>5, <3>6
  <2>5. QED
    BY <2>2, <2>3, <2>4
<1>10. fill \o Beyond(live, LastIndex(fill)) \in Ordered
  BY <1>2, <1>3, <1>5, <1>8, <1>9 DEF Ordered
<1>11. QED
  BY <1>10 DEF MergeLogRuns

-----------------------------------------------------------------------------
(* The ring, and the lines on their way. *)

Pumps == [at : {"gone", "alive"}, last : Int, woken : BOOLEAN, pending : BOOLEAN]

Events == [kind : {"status"}, rev : 0..MaxRevs] \cup [kind : {"log"}, entry : Entries]

\* What holds of the backend, and of the buffers, in every state.
LinesInv ==
    /\ ring \in Ordered /\ Len(ring) <= RingCap /\ LastIndex(ring) < pushed
    /\ pump.at = "alive" => run > 0
    /\ pump \in Pumps
    /\ channel \in Seq(Events)
    /\ backfill \in Ordered
    /\ buffered \in Ordered
    /\ pc = "starting" => listeners["log"] <= 1
    /\ pc # "starting" => \A k \in Kinds : listeners[k] > 0

\* A ring with a line more.
LEMMA RingWithOrdered ==
    ASSUME NEW s \in Ordered, Len(s) <= RingCap, NEW e \in Entries, e.index > LastIndex(s)
    PROVE  /\ RingWith(s, e) \in Ordered /\ Len(RingWith(s, e)) <= RingCap
           /\ LastIndex(RingWith(s, e)) = e.index
<1>1. RingCap \in Nat /\ RingCap > 0
  BY StoreAssumption
<1>2. PICK l \in Nat : l = Len(s) /\ l <= RingCap
  BY DEF Ordered
<1>3. PICK a : a = Append(s, e)
  OBVIOUS
<1>4. a \in Ordered /\ Len(a) = l + 1 /\ LastIndex(a) = e.index
  BY <1>2, <1>3, AppendOrdered
<1>5. PICK d \in {0, 1} : d = IF l + 1 > RingCap THEN 1 ELSE 0
  OBVIOUS
<1>6. PICK n \in Nat : n = l + 1
  OBVIOUS
<1>7. RingWith(s, e) = SubSeq(a, d + 1, n)
  <2>1. RingWith(s, e) = SubSeq(a, 1 + (IF Len(a) > RingCap THEN 1 ELSE 0), Len(a))
    BY <1>3 DEF RingWith
  <2>2. Len(a) = n /\ d = IF n > RingCap THEN 1 ELSE 0
    BY <1>4, <1>5, <1>6
  <2>3. RingWith(s, e) = SubSeq(a, 1 + d, n)
    BY <2>1, <2>2
  <2>4. 1 + d = d + 1
    OBVIOUS
  <2>5. QED
    BY <2>3, <2>4
<1>8. n = Len(a) /\ d \in 0..Len(a) /\ d < Len(a) /\ n - d <= RingCap
  BY <1>1, <1>2, <1>4, <1>5, <1>6
<1>9. /\ SubSeq(a, d + 1, n) \in Ordered /\ Len(SubSeq(a, d + 1, n)) = n - d
      /\ LastIndex(SubSeq(a, d + 1, n)) = LastIndex(a)
  BY <1>4, <1>8, EndOrdered
<1>10. QED
  BY <1>4, <1>7, <1>8, <1>9

\* push_log keeps the ring in order.
LEMMA PushKeepsRing ==
    ASSUME TypeOK, LinesInv, pump.at = "alive", Pushes
    PROVE  /\ ring' \in Ordered /\ Len(ring') <= RingCap /\ LastIndex(ring') < pushed'
           /\ LastIndex(ring) <= LastIndex(ring') /\ pushed' \in 0..MaxLines
<1>1. PICK x \in Int : x = LastIndex(ring) /\ -1 <= x /\ x < pushed
  BY LastIndexTyped DEF LinesInv, Ordered
<1>2. MaxLines \in Nat /\ pushed \in Nat /\ pushed < MaxLines /\ run \in 1..MaxRuns /\ pushed' = pushed + 1
  BY StoreAssumption DEF TypeOK, LinesInv, Pushes
<1>3. PICK e : e = [run |-> run, index |-> x + 1]
  OBVIOUS
<1>4. e \in Entries /\ e.index = x + 1
  <2>1. x + 1 \in 0..(MaxLines - 1)
    BY <1>1, <1>2
  <2>2. QED
    BY <1>2, <1>3, <2>1 DEF Entries
<1>5. ring' = RingWith(ring, e)
  BY <1>1, <1>3 DEF Pushes
<1>6. e.index > LastIndex(ring)
  BY <1>1, <1>4
<1>7. ring' \in Ordered /\ Len(ring') <= RingCap /\ LastIndex(ring') = e.index
  BY <1>4, <1>5, <1>6, RingWithOrdered DEF LinesInv
<1>8. QED
  BY <1>1, <1>2, <1>4, <1>7

\* The lines the pump has not emitted.
LEMMA SinceOrdered ==
    ASSUME TypeOK, LinesInv
    PROVE  Since(pump.last) \in Ordered /\ LastIndex(Since(pump.last)) \in Unknown..LastIndex(ring)
<1>1. pump.last \in Int /\ ring \in Ordered
  BY DEF LinesInv, Pumps
<1>2. PICK t : t = Since(pump.last)
  OBVIOUS
<1>3. t \in Ordered /\ (t # <<>> => LastIndex(t) = LastIndex(ring))
  BY <1>1, <1>2, BeyondOrdered DEF Since
<1>4. LastIndex(t) \in Int /\ -1 <= LastIndex(t) /\ (t = <<>> => LastIndex(t) = -1)
  BY <1>3, LastIndexTyped DEF Ordered
<1>5. LastIndex(ring) \in Int /\ -1 <= LastIndex(ring)
  BY <1>1, LastIndexTyped DEF Ordered
<1>6. QED
  BY <1>2, <1>3, <1>4, <1>5 DEF Unknown

\* Events of lines.
LEMMA LogEventsTyped ==
    ASSUME NEW s \in Seq(Entries)
    PROVE  /\ LogEvents(s) \in Seq(Events) /\ Len(LogEvents(s)) = Len(s)
           /\ \A i \in 1..Len(s) : LogEvents(s)[i] = [kind |-> "log", entry |-> s[i]]
<1>1. PICK n \in Nat : n = Len(s) /\ DOMAIN s = 1..n
  OBVIOUS
<1>2. PICK t : t = LogEvents(s)
  OBVIOUS
<1>3. t = [i \in 1..n |-> [kind |-> "log", entry |-> s[i]]]
  BY <1>1, <1>2 DEF LogEvents
<1>4. \A i \in 1..n : t[i] = [kind |-> "log", entry |-> s[i]] /\ t[i] \in Events
  <2>1. TAKE i \in 1..n
  <2>2. s[i] \in Entries /\ t[i] = [kind |-> "log", entry |-> s[i]]
    BY <1>1, <1>3, ElementOfSeq
  <2>3. QED
    BY <2>2 DEF Events
<1>5. t \in [1..n -> Events]
  BY <1>3, <1>4
<1>6. t \in Seq(Events) /\ Len(t) = n
  BY <1>3, <1>5
<1>7. QED
  BY <1>1, <1>2, <1>4, <1>6

\* What is put into the channel.
LEMMA EmitsTyped ==
    ASSUME channel \in Seq(Events), NEW k \in Kinds, NEW evs \in Seq(Events), Emits(k, evs)
    PROVE  channel' \in Seq(Events)
<1>1. Emitted(k, evs) \in Seq(Events)
  BY DEF Emitted
<1>2. QED
  BY <1>1 DEF Emits

\* A status on its way.
LEMMA StatusTyped ==
    ASSUME NEW r \in 0..MaxRevs
    PROVE  StatusEvent(r) \in Seq(Events) /\ Len(StatusEvent(r)) = 1
           /\ StatusEvent(r)[1] = [kind |-> "status", rev |-> r]
<1>1. PICK e : e = [kind |-> "status", rev |-> r]
  OBVIOUS
<1>2. e \in Events
  BY <1>1 DEF Events
<1>3. StatusEvent(r) = <<e>>
  BY <1>1 DEF StatusEvent
<1>4. QED
  BY <1>1, <1>2, <1>3

\* No line is no buffer.
LEMMA NoLines == <<>> \in Ordered /\ LastIndex(<<>>) = -1 /\ Len(<<>>) = 0
<1>1. <<>> \in Seq(Entries) /\ Len(<<>>) = 0
  OBVIOUS
<1>2. Rises(<<>>)
  BY <1>1 DEF Rises
<1>3. LastIndex(<<>>) = -1
  BY <1>1, LastIndexTyped
<1>4. QED
  BY <1>1, <1>2, <1>3 DEF Ordered

\* The start.
LEMMA LinesInit == Init => TypeOK /\ LinesInv
<1>1. SUFFICES ASSUME Init PROVE TypeOK /\ LinesInv
  OBVIOUS
<1>2. {RingCap, MaxRuns, MaxLines, MaxRevs, ViewCap} \subseteq Nat \ {0}
  BY StoreAssumption, ViewCapAssumption
<1>3. /\ ring = <<>> /\ late = <<>> /\ backfill = <<>> /\ buffered = <<>> /\ channel = <<>>
      /\ run = 0 /\ pushed = 0 /\ rev = 0 /\ allStatus = -1 /\ shown = -1 /\ got = {} /\ pc = "starting"
      /\ pump = [at |-> "gone", last |-> -1, woken |-> FALSE, pending |-> FALSE]
      /\ listeners = [k \in Kinds |-> 0]
  BY <1>1 DEF Init, Unknown
<1>4. LinesInv
  <2>1. channel \in Seq(Events)
    BY <1>3
  <2>2. pump \in Pumps /\ pump.at = "gone"
    BY <1>3 DEF Pumps
  <2>3. ring \in Ordered /\ Len(ring) <= RingCap /\ LastIndex(ring) < pushed /\ backfill \in Ordered /\ buffered \in Ordered
    BY <1>2, <1>3, NoLines
  <2>4. pc = "starting" /\ listeners["log"] <= 1
    BY <1>3 DEF Kinds
  <2>5. QED
    BY <2>1, <2>2, <2>3, <2>4 DEF LinesInv
<1>5. TypeOK
  <2>1. LastIndex(ring) = -1 /\ Len(ring) <= RingCap /\ Len(buffered) <= ViewCap
    BY <1>2, <1>3, NoLines
  <2>2. run \in 0..MaxRuns /\ pushed \in 0..MaxLines /\ rev \in 0..MaxRevs
        /\ {allStatus, shown} \subseteq Unknown..MaxRevs
    BY <1>2, <1>3 DEF Unknown
  <2>3. {backfill, buffered} \subseteq Seq(Entries) /\ ring \in Seq(Entries) /\ late \in Seq(Entries)
    BY <1>3
  <2>4. listeners \in [Kinds -> 0..2] /\ pump.last = -1
    BY <1>3
  <2>5. pump.last \in Unknown..LastIndex(ring)
    BY <2>1, <2>4 DEF Unknown
  <2>6. QED
    BY <1>3, <2>1, <2>2, <2>3, <2>4, <2>5 DEF TypeOK
<1>6. QED
  BY <1>4, <1>5

\* TunnelManager::start.
LEMMA LinesRestart ==
    ASSUME TypeOK, LinesInv, Restarts
    PROVE  TypeOK' /\ LinesInv'
<1>1. {RingCap, MaxRuns, MaxLines, MaxRevs} \subseteq Nat \ {0}
  BY StoreAssumption
<1>2. run' \in 1..MaxRuns /\ pushed' \in 1..MaxLines /\ rev' \in 0..MaxRevs
  <2>1. run \in 0..MaxRuns /\ pushed \in 0..MaxLines /\ rev \in 0..MaxRevs
    BY DEF TypeOK
  <2>2. /\ run < MaxRuns /\ pushed < MaxLines /\ rev < MaxRevs
        /\ run' = run + 1 /\ pushed' = pushed + 1 /\ rev' = rev + 1
    BY DEF Restarts
  <2>3. QED
    BY <1>1, <2>1, <2>2
<1>3. PICK e : e = [run |-> run', index |-> 0]
  OBVIOUS
<1>4. e \in Entries /\ ring' = <<e>> /\ e.index = 0
  <2>1. 0 \in 0..(MaxLines - 1)
    BY <1>1
  <2>2. run' = run + 1 /\ ring' = <<[run |-> run + 1, index |-> 0]>>
    BY DEF Restarts
  <2>3. QED
    BY <1>2, <1>3, <2>1, <2>2 DEF Entries
<1>5. ring' \in Ordered /\ Len(ring') = 1 /\ LastIndex(ring') = 0
  <2>1. PICK r : r = ring'
    OBVIOUS
  <2>2. r \in Seq(Entries) /\ Len(r) = 1 /\ r[1] = e /\ r # <<>>
    BY <1>4, <2>1
  <2>3. Rises(r)
    BY <2>2 DEF Rises
  <2>4. LastIndex(r) = 0
    BY <1>4, <2>2 DEF LastIndex
  <2>5. QED
    BY <2>1, <2>2, <2>3, <2>4 DEF Ordered
<1>6. late' \in Seq(Entries)
  BY SinceOrdered DEF Restarts, Ordered
<1>7. pump' = [at |-> "alive", last |-> -1, woken |-> TRUE, pending |-> TRUE]
      /\ UNCHANGED <<channel, listeners, pc, allStatus, backfill, got, shown, buffered>>
  BY DEF Restarts, frontend, Unknown
<1>8. pump' \in Pumps /\ pump'.last = -1
  BY <1>7 DEF Pumps
<1>9. LinesInv'
  BY <1>1, <1>2, <1>5, <1>7, <1>8 DEF LinesInv
<1>10. TypeOK'
  <2>1. pump'.last \in Unknown..LastIndex(ring')
    BY <1>5, <1>8 DEF Unknown
  <2>2. pump'.at = "alive" /\ pump'.woken = TRUE /\ pump'.pending = TRUE
    BY <1>7
  <2>3. ring' \in Seq(Entries) /\ Len(ring') <= RingCap /\ run' \in 0..MaxRuns /\ pushed' \in 0..MaxLines
    BY <1>1, <1>2, <1>5 DEF Ordered
  <2>4. QED
    BY <1>2, <1>6, <1>7, <2>1, <2>2, <2>3 DEF TypeOK
<1>11. QED
  BY <1>9, <1>10

\* A step of the supervisor.
LEMMA LinesWork ==
    ASSUME TypeOK, LinesInv, Works
    PROVE  TypeOK' /\ LinesInv'
<1>1. /\ ring' \in Ordered /\ Len(ring') <= RingCap /\ LastIndex(ring') < pushed'
      /\ LastIndex(ring) <= LastIndex(ring') /\ pushed' \in 0..MaxLines /\ rev' \in 0..MaxRevs
  <2>1. CASE Pushes /\ UNCHANGED rev
    BY <2>1, PushKeepsRing DEF Works, TypeOK
  <2>2. CASE rev < MaxRevs /\ rev' = rev + 1 /\ UNCHANGED <<ring, pushed>>
    <3>1. LastIndex(ring) \in Int
      BY LastIndexTyped DEF TypeOK
    <3>2. MaxRevs \in Nat
      BY StoreAssumption
    <3>3. QED
      BY <2>2, <3>1, <3>2 DEF LinesInv, TypeOK
  <2>3. QED
    BY <2>1, <2>2 DEF Works
<1>2. /\ pump' = [pump EXCEPT !.woken = TRUE] /\ pump.at = "alive"
      /\ UNCHANGED <<run, late, channel, listeners, pc, allStatus, backfill, got, shown, buffered>>
  BY DEF Works, frontend
<1>3. pump' \in Pumps /\ pump'.last = pump.last /\ pump'.at = "alive" /\ pump'.woken = TRUE /\ pump'.pending = pump.pending
  BY <1>2 DEF LinesInv, Pumps
<1>4. LinesInv'
  BY <1>1, <1>2, <1>3 DEF LinesInv
<1>5. pump'.last \in Unknown..LastIndex(ring')
  <2>1. LastIndex(ring) \in Int /\ LastIndex(ring') \in Int
    BY <1>1, LastIndexTyped DEF TypeOK, Ordered
  <2>2. pump.last \in Unknown..LastIndex(ring) /\ LastIndex(ring) <= LastIndex(ring')
    BY <1>1 DEF TypeOK
  <2>3. QED
    BY <1>3, <2>1, <2>2 DEF Unknown
<1>6. TypeOK'
  BY <1>1, <1>2, <1>3, <1>5 DEF TypeOK, Ordered
<1>7. QED
  BY <1>4, <1>6

\* TunnelManager::stop.
LEMMA LinesStop ==
    ASSUME TypeOK, LinesInv, Stops
    PROVE  TypeOK' /\ LinesInv'
<1>1. /\ ring' \in Ordered /\ Len(ring') <= RingCap /\ LastIndex(ring') < pushed'
      /\ pushed' \in 0..MaxLines
  BY PushKeepsRing DEF Stops
<1>2. rev + 1 \in 0..MaxRevs /\ rev' = rev + 1
  BY StoreAssumption DEF Stops, TypeOK
<1>3. channel' \in Seq(Events)
  BY <1>2, StatusTyped, EmitsTyped DEF Stops, LinesInv, Kinds
<1>4. /\ pump' = [at |-> "gone", last |-> -1, woken |-> FALSE, pending |-> FALSE]
      /\ UNCHANGED <<run, late, listeners, pc, allStatus, backfill, got, shown, buffered>>
  BY DEF Stops, frontend, Unknown
<1>5. pump' \in Pumps /\ pump'.at = "gone" /\ pump'.last = -1 /\ pump'.woken = FALSE /\ pump'.pending = FALSE
  BY <1>4 DEF Pumps
<1>6. LinesInv'
  BY <1>1, <1>3, <1>4, <1>5 DEF LinesInv
<1>7. pump'.last \in Unknown..LastIndex(ring')
  <2>1. LastIndex(ring') \in Int /\ -1 <= LastIndex(ring')
    BY <1>1, LastIndexTyped DEF Ordered
  <2>2. QED
    BY <1>5, <2>1 DEF Unknown
<1>8. TypeOK'
  BY <1>1, <1>2, <1>4, <1>5, <1>7 DEF TypeOK, Ordered
<1>9. QED
  BY <1>6, <1>8

\* A step of the pump.
LEMMA LinesPump ==
    ASSUME TypeOK, LinesInv, PumpWakes \/ PumpTimer
    PROVE  TypeOK' /\ LinesInv'
<1>1. UNCHANGED <<run, ring, pushed, rev, late, listeners, pc, allStatus, backfill, got, shown, buffered>>
  BY DEF PumpWakes, PumpTimer, frontend
<1>2. channel' \in Seq(Events) /\ pump' \in Pumps /\ pump'.at = pump.at /\ pump'.last \in Unknown..LastIndex(ring)
  <2>1. CASE PumpWakes
    <3>1. PICK t : t = Since(pump.last)
      OBVIOUS
    <3>2. t \in Ordered /\ LastIndex(t) \in Unknown..LastIndex(ring)
      BY <3>1, SinceOrdered
    <3>3. channel' \in Seq(Events)
      BY <2>1, <3>1, <3>2, LogEventsTyped, EmitsTyped DEF PumpWakes, LinesInv, Kinds, Ordered
    <3>4. LastIndex(t) \in Int
      BY <3>2, LastIndexTyped DEF Ordered
    <3>5. pump' = [pump EXCEPT !.woken = FALSE, !.pending = TRUE, !.last = LastIndex(t)]
      BY <2>1, <3>1 DEF PumpWakes
    <3>6. QED
      BY <3>2, <3>3, <3>4, <3>5 DEF LinesInv, Pumps
  <2>2. CASE PumpTimer
    <3>1. rev \in 0..MaxRevs
      BY DEF TypeOK
    <3>2. channel' \in Seq(Events)
      BY <2>2, <3>1, StatusTyped, EmitsTyped DEF PumpTimer, LinesInv, Kinds
    <3>3. pump' = [pump EXCEPT !.pending = FALSE]
      BY <2>2 DEF PumpTimer
    <3>4. pump' \in Pumps /\ pump'.at = pump.at /\ pump'.last = pump.last
      BY <3>3 DEF LinesInv, Pumps
    <3>5. QED
      BY <3>2, <3>4 DEF TypeOK
  <2>3. QED
    BY <2>1, <2>2
<1>3. LinesInv'
  BY <1>1, <1>2 DEF LinesInv
<1>4. pump'.at \in {"gone", "alive"} /\ {pump'.woken, pump'.pending} \subseteq BOOLEAN
  BY <1>2 DEF Pumps
<1>5. TypeOK'
  BY <1>1, <1>2, <1>4 DEF TypeOK
<1>6. QED
  BY <1>3, <1>5

\* The pump of the run before.
LEMMA LinesOldPump ==
    ASSUME TypeOK, LinesInv, OldPumpEmits \/ OldPumpAborted
    PROVE  TypeOK' /\ LinesInv'
<1>1. /\ UNCHANGED <<run, ring, pushed, rev, pump, listeners, pc, allStatus, backfill, got, shown, buffered>>
      /\ late' = <<>>
  BY DEF OldPumpEmits, OldPumpAborted, frontend
<1>2. channel' \in Seq(Events)
  <2>1. CASE OldPumpEmits
    BY <2>1, LogEventsTyped, EmitsTyped DEF OldPumpEmits, LinesInv, TypeOK, Kinds
  <2>2. CASE OldPumpAborted
    BY <2>2 DEF OldPumpAborted, LinesInv
  <2>3. QED
    BY <2>1, <2>2
<1>3. LinesInv'
  BY <1>1, <1>2 DEF LinesInv
<1>4. late' \in Seq(Entries)
  BY <1>1
<1>5. TypeOK'
  BY <1>1, <1>4 DEF TypeOK
<1>6. QED
  BY <1>3, <1>5

\* listen().
LEMMA LinesSubscribe ==
    ASSUME TypeOK, LinesInv, Subscribes
    PROVE  TypeOK' /\ LinesInv'
<1>1. PICK ok \in SUBSET Kinds :
          /\ ok # Kinds => \A k \in Kinds : listeners[k] = 0
          /\ listeners' = [k \in Kinds |-> IF k \notin ok THEN listeners[k]
                                        ELSE IF k = "log" THEN listeners[k] + 1 ELSE 1]
          /\ pc' = IF ok = Kinds THEN "subscribed" ELSE "starting"
  BY DEF Subscribes
<1>2. UNCHANGED <<run, ring, pushed, rev, pump, late, channel, allStatus, backfill, got, shown, buffered>>
  BY DEF Subscribes, backend
<1>3. PICK a \in 0..2, b \in 0..2 : a = listeners["log"] /\ b = listeners["status"]
  BY DEF TypeOK, Kinds
<1>4. pc = "starting" /\ a <= 1
  BY <1>3 DEF Subscribes, LinesInv
<1>5. /\ listeners' = [k \in Kinds |-> listeners'[k]]
      /\ listeners'["log"] = IF "log" \in ok THEN a + 1 ELSE a
      /\ listeners'["status"] = IF "status" \in ok THEN 1 ELSE b
  BY <1>1, <1>3 DEF Kinds
<1>6. /\ listeners' \in [Kinds -> 0..2] /\ pc' \in {"starting", "subscribed"}
      /\ pc' = "starting" => listeners'["log"] <= 1
      /\ pc' # "starting" => \A k \in Kinds : listeners'[k] > 0
  <2>1. CASE ok = Kinds
    <3>1. pc' = "subscribed" /\ "log" \in ok /\ "status" \in ok
      BY <1>1, <2>1 DEF Kinds
    <3>2. listeners'["log"] = a + 1 /\ listeners'["status"] = 1
      BY <1>5, <3>1
    <3>3. \A k \in Kinds : listeners'[k] \in 1..2
      BY <1>4, <3>2 DEF Kinds
    <3>4. QED
      BY <1>5, <3>1, <3>3
  <2>2. CASE ok # Kinds
    <3>1. pc' = "starting"
      BY <1>1, <2>2
    <3>2. a = 0 /\ b = 0
      BY <1>1, <1>3, <2>2 DEF Kinds
    <3>3. listeners'["log"] \in 0..1 /\ listeners'["status"] \in 0..1
      BY <1>5, <3>2
    <3>4. \A k \in Kinds : listeners'[k] \in 0..2
      BY <3>3 DEF Kinds
    <3>5. QED
      BY <1>5, <3>1, <3>3, <3>4
  <2>3. QED
    BY <2>1, <2>2
<1>7. LinesInv'
  BY <1>2, <1>6 DEF LinesInv
<1>8. TypeOK'
  BY <1>2, <1>6 DEF TypeOK
<1>9. QED
  BY <1>7, <1>8

\* The answers of the backend.
LEMMA LinesAnswers ==
    ASSUME TypeOK, LinesInv, ReadsStatus \/ ReadsLog
    PROVE  TypeOK' /\ LinesInv'
<1>1. /\ UNCHANGED <<run, ring, pushed, rev, pump, late, channel, listeners, shown, buffered>>
      /\ pc # "starting" /\ pc' \in {"asking", "answered"}
  BY DEF ReadsStatus, ReadsLog, backend
<1>2. allStatus' \in Unknown..MaxRevs /\ got' \subseteq Kinds /\ backfill' \in Ordered
  <2>1. rev \in Unknown..MaxRevs
    BY StoreAssumption DEF TypeOK, Unknown
  <2>2. CASE ReadsStatus
    BY <2>1, <2>2 DEF ReadsStatus, TypeOK, LinesInv, Kinds
  <2>3. CASE ReadsLog
    BY <2>3 DEF ReadsLog, TypeOK, LinesInv
  <2>4. QED
    BY <2>2, <2>3
<1>3. LinesInv'
  BY <1>1, <1>2 DEF LinesInv
<1>4. backfill' \in Seq(Entries)
  BY <1>2 DEF Ordered
<1>5. TypeOK'
  BY <1>1, <1>2, <1>4 DEF TypeOK
<1>6. QED
  BY <1>3, <1>5

\* Hydration.
LEMMA LinesHydrate ==
    ASSUME TypeOK, LinesInv, Hydrates
    PROVE  TypeOK' /\ LinesInv'
<1>1. /\ UNCHANGED <<run, ring, pushed, rev, pump, late, channel, listeners, got>>
      /\ pc = "answered" /\ pc' = "ready" /\ allStatus' = Unknown /\ backfill' = <<>>
  BY DEF Hydrates, backend
<1>2. buffered' \in Ordered /\ Len(buffered') <= ViewCap
  <2>1. MergeLogRuns(backfill, buffered) \in Ordered
    BY MergeOrdered DEF LinesInv
  <2>2. CASE "log" \in got
    BY <2>1, <2>2, CappedOrdered DEF Hydrates
  <2>3. CASE "log" \notin got
    BY <2>3 DEF Hydrates, LinesInv, TypeOK
  <2>4. QED
    BY <2>2, <2>3
<1>3. shown' \in Unknown..MaxRevs /\ allStatus' \in Unknown..MaxRevs
  BY <1>1, StoreAssumption DEF Hydrates, StatusMerged, TypeOK, Unknown
<1>4. LinesInv'
  BY <1>1, <1>2, NoLines DEF LinesInv
<1>5. buffered' \in Seq(Entries) /\ backfill' \in Seq(Entries)
  BY <1>1, <1>2 DEF Ordered
<1>6. TypeOK'
  BY <1>1, <1>2, <1>3, <1>5 DEF TypeOK
<1>7. QED
  BY <1>4, <1>6

\* What an event is.
LEMMA EventTyped ==
    \A v \in Events : \/ v.kind = "status" /\ v.rev \in 0..MaxRevs
                      \/ v.kind = "log" /\ v.entry \in Entries
  BY DEF Events

\* The listeners of an event apply it.
LEMMA LinesDeliver ==
    ASSUME TypeOK, LinesInv, Delivers
    PROVE  TypeOK' /\ LinesInv'
<1>1. UNCHANGED <<run, ring, pushed, rev, pump, late, listeners, pc, allStatus, backfill, got>>
  BY DEF Delivers, backend
<1>2. PICK v : v = Head(channel)
  OBVIOUS
<1>3. v \in Events /\ channel' \in Seq(Events)
  BY <1>2, HeadTailProperties DEF Delivers, LinesInv
<1>4. shown' \in Unknown..MaxRevs /\ buffered' \in Ordered /\ Len(buffered') <= ViewCap
  <2>1. CASE v.kind = "status" /\ shown' = v.rev /\ UNCHANGED buffered
    <3>1. v.rev \in 0..MaxRevs
      BY <1>3, <2>1, EventTyped
    <3>2. MaxRevs \in Nat
      BY StoreAssumption
    <3>3. QED
      BY <2>1, <3>1, <3>2 DEF TypeOK, LinesInv, Unknown
  <2>2. CASE /\ v.kind = "log" /\ UNCHANGED shown
             /\ buffered' = ApplyLogEvents(buffered, [i \in 1..listeners["log"] |-> v.entry])
    <3>1. PICK n \in Nat, e \in Entries : n = listeners["log"] /\ e = v.entry
      <4>1. listeners["log"] \in Nat
        BY DEF TypeOK, Kinds
      <4>2. v.entry \in Entries
        BY <1>3, <2>2, EventTyped
      <4>3. QED
        BY <4>1, <4>2
    <3>2. buffered \in Ordered /\ Len(buffered) <= ViewCap
      BY DEF TypeOK, LinesInv
    <3>3. buffered' = ApplyLogEvents(buffered, [i \in 1..n |-> e])
      BY <2>2, <3>1
    <3>4. buffered' = IF n = 0 THEN buffered ELSE ApplyLogEvent(buffered, e)
      BY <3>2, <3>3, CopiesApplied
    <3>5. buffered' \in Ordered /\ Len(buffered') <= ViewCap
      BY <3>2, <3>4, EventOrdered
    <3>6. QED
      BY <2>2, <3>5 DEF TypeOK
  <2>3. QED
    BY <1>2, <2>1, <2>2 DEF Delivers
<1>5. LinesInv'
  BY <1>1, <1>3, <1>4 DEF LinesInv
<1>6. TypeOK'
  BY <1>1, <1>4 DEF TypeOK, Ordered
<1>7. QED
  BY <1>5, <1>6

\* The lines, in every reachable state.
LEMMA LinesInductive == Spec => [](TypeOK /\ LinesInv)
<1>1. TypeOK /\ LinesInv /\ [Next]_vars => (TypeOK /\ LinesInv)'
  <2>1. SUFFICES ASSUME TypeOK, LinesInv, [Next]_vars PROVE TypeOK' /\ LinesInv'
    OBVIOUS
  <2>2. CASE UNCHANGED vars
    BY <2>1, <2>2 DEF TypeOK, LinesInv, vars, backend, frontend, history
  <2>3. CASE Next
    BY <2>1, <2>3, LinesRestart, LinesOldPump, LinesWork, LinesStop, LinesPump, LinesSubscribe,
       LinesAnswers, LinesHydrate, LinesDeliver DEF Next
  <2>4. QED
    BY <2>1, <2>2, <2>3
<1>2. QED
  BY <1>1, LinesInit, PTL DEF Spec

\* The types of the store and of the backend as seen from it.
THEOREM StoreTyped == Spec => []TypeOK
  BY LinesInductive, PTL

\* reducers.ts:103-105, for every size of the store and of the ring and any
\* number of runs: no line is buffered twice or out of order.
THEOREM LinesInOrder == Spec => []BufferIncreases
<1>1. TypeOK /\ LinesInv => BufferIncreases
  <2>1. SUFFICES ASSUME TypeOK, LinesInv, NEW i \in DOMAIN buffered, i > 1
                 PROVE  buffered[i - 1].index < buffered[i].index
    BY DEF BufferIncreases
  <2>2. buffered \in Seq(Entries) /\ Rises(buffered)
    BY <2>1 DEF LinesInv, Ordered
  <2>3. PICK j : j = i - 1
    OBVIOUS
  <2>4. i \in 1..Len(buffered) /\ j \in 1..Len(buffered) /\ j < i
    BY <2>1, <2>2, <2>3
  <2>5. buffered[j].index < buffered[i].index
    BY <2>2, <2>4 DEF Rises
  <2>6. QED
    BY <2>3, <2>5
<1>2. QED
  BY <1>1, LinesInductive, PTL

-----------------------------------------------------------------------------
(* The status on its way. *)

\* No status is on its way.
Silent(c) == \A i \in 1..Len(c) : c[i].kind = "log"

\* The last status on its way is v.
Brings(c, v) == \E i \in 1..Len(c) : /\ c[i].kind = "status" /\ c[i].rev = v
                                    /\ \A j \in 1..Len(c) : j > i => c[j].kind = "log"

\* The status shown when everything has been delivered.
WillShow(v) == (Silent(channel) /\ shown = v) \/ Brings(channel, v)

StatusInv ==
    /\ listeners["status"] = 0 => Silent(channel) /\ shown = Unknown
    /\ pc \in {"starting", "subscribed"} => got = {}
    /\ pc = "asking" => "status" \in got
    /\ "status" \notin got => allStatus = Unknown
    /\ ~pump.woken /\ ~pump.pending =>
         \/ WillShow(rev)
         \/ Silent(channel) /\ shown = Unknown /\ ("status" \in got => pc # "ready" /\ allStatus = rev)

\* Lines say nothing of the status.
LEMMA LogsAreSilent ==
    ASSUME NEW c \in Seq(Events), NEW t \in Seq(Events), Silent(t)
    PROVE  /\ Silent(c) => Silent(c \o t)
           /\ \A v : Brings(c, v) => Brings(c \o t, v)
<1>1. PICK a \in Nat, b \in Nat : a = Len(c) /\ b = Len(t)
  OBVIOUS
<1>2. PICK d : d = c \o t
  OBVIOUS
<1>3. Len(d) = a + b /\ \A i \in 1..(a + b) : d[i] = IF i <= a THEN c[i] ELSE t[i - a]
  BY <1>1, <1>2, ConcatProperties
<1>4. \A i \in 1..a : i \in 1..(a + b) /\ d[i] = c[i]
  BY <1>3
<1>5. ASSUME NEW i \in 1..(a + b), i > a
      PROVE  d[i].kind = "log"
  <2>1. PICK j \in 1..b : j = i - a
    <3>1. i - a \in 1..b
      BY <1>5
    <3>2. QED
      BY <3>1
  <2>2. d[i] = t[j]
    BY <1>3, <1>5, <2>1
  <2>3. QED
    BY <1>1, <2>2 DEF Silent
<1>6. ASSUME Silent(c)
      PROVE  Silent(d)
  <2>1. SUFFICES ASSUME NEW i \in 1..(a + b) PROVE d[i].kind = "log"
    BY <1>3 DEF Silent
  <2>2. CASE i <= a
    BY <1>1, <1>4, <1>6, <2>2 DEF Silent
  <2>3. CASE i > a
    BY <1>5, <2>3
  <2>4. QED
    BY <2>2, <2>3
<1>7. ASSUME NEW v, Brings(c, v)
      PROVE  Brings(d, v)
  <2>1. PICK i \in 1..a : /\ c[i].kind = "status" /\ c[i].rev = v
                          /\ \A j \in 1..a : j > i => c[j].kind = "log"
    BY <1>1, <1>7 DEF Brings
  <2>2. ASSUME NEW j \in 1..(a + b), j > i
        PROVE  d[j].kind = "log"
    <3>1. CASE j <= a
      <4>1. j \in 1..a
        BY <3>1
      <4>2. QED
        BY <1>4, <2>1, <2>2, <4>1
    <3>2. CASE j > a
      BY <1>5, <3>2
    <3>3. QED
      BY <3>1, <3>2
  <2>3. i \in 1..(a + b) /\ d[i] = c[i]
    BY <1>4
  <2>4. QED
    BY <1>3, <2>1, <2>2, <2>3 DEF Brings
<1>8. QED
  BY <1>2, <1>6, <1>7

\* A status comes last.
LEMMA StatusComesLast ==
    ASSUME NEW c \in Seq(Events), NEW r \in 0..MaxRevs
    PROVE  Brings(c \o StatusEvent(r), r)
<1>1. PICK a \in Nat : a = Len(c)
  OBVIOUS
<1>2. PICK t : t = StatusEvent(r)
  OBVIOUS
<1>3. t \in Seq(Events) /\ Len(t) = 1 /\ t[1] = [kind |-> "status", rev |-> r]
  BY <1>2, StatusTyped
<1>4. PICK d : d = c \o t
  OBVIOUS
<1>t. t \in Seq(Events)
  BY <1>3
<1>l. PICK b \in Nat : b = Len(t)
  BY <1>t
<1>b. b = 1
  BY <1>3, <1>l
<1>5. Len(d) = a + b /\ \A i \in 1..(a + b) : d[i] = IF i <= a THEN c[i] ELSE t[i - a]
  BY <1>1, <1>t, <1>4, <1>l, ConcatProperties
<1>6. PICK n \in 1..(a + b) : n = a + b
  BY <1>b
<1>7. d[n] = [kind |-> "status", rev |-> r]
  <2>1. n - a = 1 /\ ~(n <= a)
    BY <1>b, <1>6
  <2>2. d[n] = t[1]
    BY <1>5, <2>1
  <2>3. QED
    BY <1>3, <2>2
<1>8. \A j \in 1..(a + b) : ~(j > n)
  BY <1>6
<1>9. d[n].kind = "status" /\ d[n].rev = r /\ Len(d) = a + b
  BY <1>5, <1>7
<1>10. Brings(d, r)
  BY <1>8, <1>9 DEF Brings
<1>11. QED
  BY <1>2, <1>4, <1>10

\* The first event leaves.
LEMMA FirstLeaves ==
    ASSUME NEW c \in Seq(Events), c # <<>>, NEW v
    PROVE  /\ Silent(c) => Silent(Tail(c)) /\ Head(c).kind = "log"
           /\ Brings(c, v) => \/ Brings(Tail(c), v)
                              \/ Silent(Tail(c)) /\ Head(c).kind = "status" /\ Head(c).rev = v
<1>1. PICK a \in Nat : a + 1 = Len(c)
  <2>1. Len(c) \in Nat /\ Len(c) # 0
    BY EmptySeq
  <2>2. Len(c) - 1 \in Nat /\ (Len(c) - 1) + 1 = Len(c)
    BY <2>1
  <2>3. QED
    BY <2>2
<1>2. PICK t, h : t = Tail(c) /\ h = Head(c)
  OBVIOUS
<1>3. Len(t) = a /\ (\A i \in 1..a : t[i] = c[i + 1]) /\ h = c[1]
  <2>1. Len(t) = Len(c) - 1 /\ \A i \in 1..Len(t) : t[i] = c[i + 1]
    BY <1>2, HeadTailProperties
  <2>2. h = c[1]
    BY <1>2
  <2>3. QED
    BY <1>1, <2>1, <2>2
<1>4. ASSUME Silent(c)
      PROVE  Silent(t) /\ h.kind = "log"
  <2>1. \A i \in 1..(a + 1) : c[i].kind = "log"
    BY <1>1, <1>4 DEF Silent
  <2>2. ASSUME NEW i \in 1..a
        PROVE  t[i].kind = "log"
    <3>1. i + 1 \in 1..(a + 1)
      OBVIOUS
    <3>2. QED
      BY <1>3, <2>1, <3>1
  <2>3. 1 \in 1..(a + 1)
    OBVIOUS
  <2>4. QED
    BY <1>3, <2>1, <2>2, <2>3 DEF Silent
<1>5. ASSUME Brings(c, v)
      PROVE  Brings(t, v) \/ (Silent(t) /\ h.kind = "status" /\ h.rev = v)
  <2>1. PICK i \in 1..(a + 1) : /\ c[i].kind = "status" /\ c[i].rev = v
                                /\ \A j \in 1..(a + 1) : j > i => c[j].kind = "log"
    BY <1>1, <1>5 DEF Brings
  <2>2. ASSUME NEW j \in 1..a, j > i - 1
        PROVE  t[j].kind = "log"
    <3>1. j + 1 \in 1..(a + 1) /\ j + 1 > i
      BY <2>2
    <3>2. QED
      BY <1>3, <2>1, <3>1
  <2>3. CASE i = 1
    <3>1. \A j \in 1..a : j > i - 1
      BY <2>3
    <3>2. Silent(t)
      BY <1>3, <2>2, <3>1 DEF Silent
    <3>3. QED
      BY <1>3, <2>1, <2>3, <3>2
  <2>4. CASE i # 1
    <3>1. PICK k \in 1..a : k = i - 1 /\ k + 1 = i
      <4>1. i - 1 \in 1..a /\ (i - 1) + 1 = i
        BY <2>4
      <4>2. QED
        BY <4>1
    <3>2. t[k] = c[i]
      BY <1>3, <3>1
    <3>3. \A j \in 1..a : j > k => t[j].kind = "log"
      BY <2>2, <3>1
    <3>4. Brings(t, v)
      BY <1>3, <2>1, <3>2, <3>3 DEF Brings
    <3>5. QED
      BY <3>4
  <2>5. QED
    BY <2>3, <2>4
<1>6. QED
  BY <1>2, <1>4, <1>5

\* Events of lines in the channel keep what will be shown.
LEMMA EmitsLogs ==
    ASSUME channel \in Seq(Events), NEW s \in Seq(Entries), Emits("log", LogEvents(s)), shown' = shown
    PROVE  /\ Silent(channel) => Silent(channel')
           /\ \A v : WillShow(v) => WillShow(v)'
<1>1. PICK t : t = LogEvents(s)
  OBVIOUS
<1>2. t \in Seq(Events) /\ Silent(t)
  <2>1. t \in Seq(Events) /\ Len(t) = Len(s)
        /\ \A i \in 1..Len(s) : t[i] = [kind |-> "log", entry |-> s[i]]
    BY <1>1, LogEventsTyped
  <2>2. ASSUME NEW i \in 1..Len(t)
        PROVE  t[i].kind = "log"
    <3>1. i \in 1..Len(s)
      BY <2>1
    <3>2. t[i] = [kind |-> "log", entry |-> s[i]]
      BY <2>1, <3>1
    <3>3. QED
      BY <3>2
  <2>3. QED
    BY <2>1, <2>2 DEF Silent
<1>3. CASE listeners["log"] > 0
  <2>1. channel' = channel \o t
    BY <1>1, <1>3 DEF Emits, Emitted
  <2>2. /\ Silent(channel) => Silent(channel')
        /\ \A v : Brings(channel, v) => Brings(channel', v)
    BY <1>2, <2>1, LogsAreSilent
  <2>3. QED
    BY <2>2 DEF WillShow
<1>4. CASE ~(listeners["log"] > 0)
  <2>1. channel' = channel
    BY <1>4 DEF Emits, Emitted
  <2>2. QED
    BY <2>1 DEF WillShow
<1>5. QED
  BY <1>3, <1>4

\* A status that listeners get is what will be shown.
LEMMA EmitsStatus ==
    ASSUME channel \in Seq(Events), NEW r \in 0..MaxRevs, Emits("status", StatusEvent(r)),
           listeners["status"] \in Nat
    PROVE  IF listeners["status"] = 0 THEN channel' = channel ELSE WillShow(r)'
<1>1. CASE listeners["status"] = 0
  BY <1>1 DEF Emits, Emitted
<1>2. CASE listeners["status"] # 0
  <2>1. channel' = channel \o StatusEvent(r)
    BY <1>2 DEF Emits, Emitted
  <2>2. Brings(channel', r)
    BY <2>1, StatusComesLast
  <2>3. QED
    BY <1>2, <2>2 DEF WillShow
<1>3. QED
  BY <1>1, <1>2

\* The start.
LEMMA StatusInit == Init => StatusInv
<1>1. SUFFICES ASSUME Init PROVE StatusInv
  OBVIOUS
<1>2. channel = <<>> /\ shown = Unknown /\ rev = 0 /\ got = {} /\ allStatus = Unknown /\ pc = "starting"
  BY <1>1 DEF Init
<1>3. Silent(channel)
  BY <1>2 DEF Silent
<1>4. QED
  BY <1>2, <1>3 DEF StatusInv

\* The backend's steps.
LEMMA StatusBackend ==
    ASSUME TypeOK, LinesInv, StatusInv,
           Restarts \/ OldPumpEmits \/ OldPumpAborted \/ Works \/ Stops \/ PumpWakes \/ PumpTimer
    PROVE  StatusInv'
<1>1. UNCHANGED <<listeners, pc, allStatus, got, shown>>
  BY DEF Restarts, OldPumpEmits, OldPumpAborted, Works, Stops, PumpWakes, PumpTimer, frontend
<1>2. channel \in Seq(Events) /\ listeners["status"] \in Nat
  BY DEF LinesInv, TypeOK, Kinds
<1>3. CASE Restarts
  <2>1. channel' = channel /\ pump'.pending = TRUE
    BY <1>3 DEF Restarts
  <2>2. QED
    BY <1>1, <2>1 DEF StatusInv
<1>4. CASE OldPumpEmits
  <2>1. Emits("log", LogEvents(late)) /\ late \in Seq(Entries) /\ UNCHANGED <<pump, rev>>
    BY <1>4 DEF OldPumpEmits, TypeOK
  <2>2. (Silent(channel) => Silent(channel')) /\ \A v : WillShow(v) => WillShow(v)'
    BY <1>1, <1>2, <2>1, EmitsLogs
  <2>3. WillShow(rev) => WillShow(rev)'
    BY <1>1, <2>1, <2>2 DEF WillShow
  <2>4. QED
    BY <1>1, <2>1, <2>2, <2>3 DEF StatusInv
<1>5. CASE OldPumpAborted
  <2>1. UNCHANGED <<channel, pump, rev>>
    BY <1>5 DEF OldPumpAborted
  <2>2. QED
    BY <1>1, <2>1 DEF StatusInv, WillShow
<1>6. CASE Works
  <2>1. channel' = channel /\ pump'.woken = TRUE
    BY <1>6 DEF Works, LinesInv, Pumps
  <2>2. QED
    BY <1>1, <2>1 DEF StatusInv
<1>7. CASE Stops
  <2>1. PICK r \in 0..MaxRevs : r = rev + 1
    <3>1. rev + 1 \in 0..MaxRevs
      BY <1>7, StoreAssumption DEF Stops, TypeOK
    <3>2. QED
      BY <3>1
  <2>2. rev' = r /\ Emits("status", StatusEvent(r))
    BY <1>7, <2>1 DEF Stops
  <2>3. IF listeners["status"] = 0 THEN channel' = channel ELSE WillShow(r)'
    BY <1>2, <2>2, EmitsStatus
  <2>4. CASE listeners["status"] = 0
    <3>1. channel' = channel /\ Silent(channel) /\ shown = Unknown
      BY <2>3, <2>4 DEF StatusInv
    <3>2. "status" \notin got
      BY <2>4 DEF StatusInv, LinesInv, Kinds
    <3>3. QED
      BY <1>1, <3>1, <3>2 DEF StatusInv
  <2>5. CASE listeners["status"] # 0
    <3>1. WillShow(rev)'
      BY <2>2, <2>3, <2>5 DEF WillShow
    <3>2. QED
      BY <1>1, <2>5, <3>1 DEF StatusInv
  <2>6. QED
    BY <2>4, <2>5
<1>8. CASE PumpWakes
  <2>1. PICK s \in Seq(Entries) : Emits("log", LogEvents(s))
    BY <1>8, SinceOrdered DEF PumpWakes, Ordered
  <2>2. Silent(channel) => Silent(channel')
    BY <1>1, <1>2, <2>1, EmitsLogs
  <2>3. pump'.pending = TRUE
    BY <1>8 DEF PumpWakes, LinesInv, Pumps
  <2>4. QED
    BY <1>1, <2>2, <2>3 DEF StatusInv
<1>9. CASE PumpTimer
  <2>1. PICK r \in 0..MaxRevs : r = rev
    BY DEF TypeOK
  <2>2. rev' = r /\ Emits("status", StatusEvent(r))
    BY <1>9, <2>1 DEF PumpTimer
  <2>3. IF listeners["status"] = 0 THEN channel' = channel ELSE WillShow(r)'
    BY <1>2, <2>2, EmitsStatus
  <2>4. CASE listeners["status"] = 0
    <3>1. channel' = channel /\ Silent(channel) /\ shown = Unknown
      BY <2>3, <2>4 DEF StatusInv
    <3>2. "status" \notin got
      BY <2>4 DEF StatusInv, LinesInv, Kinds
    <3>3. QED
      BY <1>1, <3>1, <3>2 DEF StatusInv
  <2>5. CASE listeners["status"] # 0
    <3>1. WillShow(rev)'
      BY <2>2, <2>3, <2>5 DEF WillShow
    <3>2. QED
      BY <1>1, <2>5, <3>1 DEF StatusInv
  <2>6. QED
    BY <2>4, <2>5
<1>10. QED
  BY <1>3, <1>4, <1>5, <1>6, <1>7, <1>8, <1>9

\* The webview's steps.
LEMMA StatusWebview ==
    ASSUME TypeOK, LinesInv, StatusInv,
           Subscribes \/ ReadsStatus \/ ReadsLog \/ Hydrates \/ Delivers
    PROVE  StatusInv'
<1>1. UNCHANGED <<pump, rev>>
  BY DEF Subscribes, ReadsStatus, ReadsLog, Hydrates, Delivers, backend
<1>2. CASE Subscribes
  <2>1. UNCHANGED <<channel, allStatus, got, shown>> /\ pc = "starting" /\ pc' \in {"starting", "subscribed"}
    BY <1>2 DEF Subscribes
  <2>2. PICK ok \in SUBSET Kinds :
          listeners' = [k \in Kinds |-> IF k \notin ok THEN listeners[k]
                                        ELSE IF k = "log" THEN listeners[k] + 1 ELSE 1]
    BY <1>2 DEF Subscribes
  <2>3. listeners'["status"] = 0 => listeners["status"] = 0
    BY <2>2 DEF Kinds
  <2>4. WillShow(rev) => WillShow(rev)'
    BY <1>1, <2>1 DEF WillShow
  <2>5. QED
    BY <1>1, <2>1, <2>3, <2>4 DEF StatusInv
<1>3. CASE ReadsStatus
  <2>1. UNCHANGED <<channel, listeners, shown>> /\ pc = "subscribed"
    BY <1>3 DEF ReadsStatus
  <2>2. WillShow(rev) => WillShow(rev)'
    BY <1>1, <2>1 DEF WillShow
  <2>3. \/ allStatus' = rev /\ got' = {"status"} /\ pc' = "asking"
        \/ pc' = "answered" /\ UNCHANGED <<allStatus, got>>
    BY <1>3 DEF ReadsStatus
  <2>4. got = {}
    BY <2>1 DEF StatusInv
  <2>5. QED
    BY <1>1, <2>1, <2>2, <2>3, <2>4 DEF StatusInv
<1>4. CASE ReadsLog
  <2>1. UNCHANGED <<channel, listeners, allStatus, shown>> /\ pc = "asking" /\ pc' = "answered"
        /\ (got' = Kinds \/ got' = got)
    BY <1>4 DEF ReadsLog
  <2>2. WillShow(rev) => WillShow(rev)'
    BY <1>1, <2>1 DEF WillShow
  <2>3. "status" \in got
    BY <2>1 DEF StatusInv
  <2>4. QED
    BY <1>1, <2>1, <2>2, <2>3 DEF StatusInv, Kinds
<1>5. CASE Hydrates
  <2>1. UNCHANGED <<channel, listeners, got>> /\ pc = "answered" /\ pc' = "ready" /\ allStatus' = Unknown
        /\ shown' = StatusMerged(allStatus, shown)
    BY <1>5 DEF Hydrates
  <2>2. listeners["status"] # 0
    BY <2>1 DEF LinesInv, Kinds
  <2>3. rev # Unknown
    BY StoreAssumption DEF TypeOK, Unknown
  <2>4. WillShow(rev) => WillShow(rev)'
    BY <1>1, <2>1, <2>3 DEF WillShow, StatusMerged
  <2>5. ASSUME Silent(channel), shown = Unknown, "status" \in got => allStatus = rev
        PROVE  WillShow(rev)' \/ (Silent(channel') /\ shown' = Unknown /\ "status" \notin got')
    BY <1>1, <2>1, <2>5 DEF WillShow, StatusMerged, StatusInv
  <2>6. QED
    BY <1>1, <2>1, <2>2, <2>4, <2>5 DEF StatusInv
<1>6. CASE Delivers
  <2>1. PICK v : v = Head(channel)
    OBVIOUS
  <2>2. UNCHANGED <<listeners, pc, allStatus, got>> /\ channel # <<>> /\ channel' = Tail(channel)
        /\ \/ v.kind = "status" /\ shown' = v.rev
           \/ v.kind = "log" /\ shown' = shown
    BY <1>6, <2>1 DEF Delivers
  <2>3. channel \in Seq(Events)
    BY DEF LinesInv
  <2>4. Silent(channel) => Silent(channel') /\ shown' = shown
    <3>1. Silent(channel) => Silent(channel') /\ v.kind = "log"
      BY <2>1, <2>2, <2>3, FirstLeaves
    <3>2. QED
      BY <2>2, <3>1
  <2>5. WillShow(rev) => WillShow(rev)'
    <3>1. Brings(channel, rev) => \/ Brings(channel', rev)
                                  \/ Silent(channel') /\ v.kind = "status" /\ v.rev = rev
      BY <2>1, <2>2, <2>3, FirstLeaves
    <3>2. QED
      BY <1>1, <2>2, <2>4, <3>1 DEF WillShow
  <2>6. QED
    BY <1>1, <2>2, <2>4, <2>5 DEF StatusInv
<1>7. QED
  BY <1>2, <1>3, <1>4, <1>5, <1>6

\* The status, in every reachable state.
LEMMA StatusInductive == Spec => [](TypeOK /\ StatusInv)
<1>1. TypeOK /\ LinesInv /\ StatusInv /\ [Next]_vars => StatusInv'
  <2>1. SUFFICES ASSUME TypeOK, LinesInv, StatusInv, [Next]_vars PROVE StatusInv'
    OBVIOUS
  <2>2. CASE UNCHANGED vars
    BY <2>1, <2>2 DEF StatusInv, WillShow, vars, backend, frontend, history
  <2>3. CASE Next
    BY <2>1, <2>3, StatusBackend, StatusWebview DEF Next
  <2>4. QED
    BY <2>1, <2>2, <2>3
<1>2. QED
  BY <1>1, StatusInit, LinesInductive, PTL DEF Spec

\* The last status is shown once everything has been delivered, for any number
\* of runs and of changes, however the snapshot and the events race.
THEOREM ShowsLastStatus == Spec => []StatusCurrentAtRest
<1>1. TypeOK /\ StatusInv => StatusCurrentAtRest
  <2>1. SUFFICES ASSUME TypeOK, StatusInv, Rest
                 PROVE  shown = rev \/ (shown = Unknown /\ "status" \notin got)
    BY DEF StatusCurrentAtRest
  <2>2. ~Brings(channel, rev)
    <3>1. channel = <<>>
      BY <2>1 DEF Rest
    <3>2. QED
      BY <3>1 DEF Brings
  <2>3. QED
    BY <2>1, <2>2 DEF StatusInv, Rest, WillShow
<1>2. QED
  BY <1>1, StatusInductive, PTL

-----------------------------------------------------------------------------
(* The lines on their way. *)

\* Line i of run r, and the event that brings it.
Line(r, i) == [run |-> r, index |-> i]
LogLine(r, i) == [kind |-> "log", entry |-> Line(r, i)]

\* The store has got the lines of r before a; with v it has got those before b.
Heard(v, r, a, b) == (v.kind = "status" /\ b = a) \/ (v = LogLine(r, a) /\ b = a + 1)

\* From its place j on, the channel brings the lines f, f + 1, ..., p - 1 of r.
IsStretch(h, c, r, j, f, p) ==
    /\ h \in [j..Len(c) -> 0..p] /\ h[j] = f /\ h[Len(c)] = p
    /\ \A i \in (j + 1)..Len(c) : Heard(c[i], r, h[i - 1], h[i])
Stretch(c, r, j, f, p) == \E h : IsStretch(h, c, r, j, f, p)

\* No line at all.
LEMMA StretchEmpty ==
    ASSUME NEW c \in Seq(Events), NEW r, NEW f \in Nat
    PROVE  Stretch(c, r, Len(c), f, f)
<1>1. PICK l \in Nat : l = Len(c)
  OBVIOUS
<1>2. PICK h : h = [i \in l..l |-> f]
  OBVIOUS
<1>3. h \in [l..l -> 0..f] /\ h[l] = f
  BY <1>2
<1>4. (l + 1)..l = {}
  OBVIOUS
<1>5. IsStretch(h, c, r, l, f, f)
  BY <1>1, <1>3, <1>4 DEF IsStretch
<1>6. QED
  BY <1>1, <1>5 DEF Stretch

\* Statuses bring no line.
LEMMA StretchSilent ==
    ASSUME NEW c \in Seq(Events), NEW r, NEW f \in Nat, \A i \in 1..Len(c) : c[i].kind = "status"
    PROVE  Stretch(c, r, 0, f, f)
<1>1. PICK l \in Nat : l = Len(c)
  OBVIOUS
<1>2. PICK h : h = [i \in 0..l |-> f]
  OBVIOUS
<1>3. h \in [0..l -> 0..f] /\ h[0] = f /\ h[l] = f
  BY <1>2
<1>4. \A i \in (0 + 1)..l : Heard(c[i], r, h[i - 1], h[i])
  <2>1. TAKE i \in (0 + 1)..l
  <2>2. i \in 0..l /\ i - 1 \in 0..l /\ i \in 1..l
    OBVIOUS
  <2>3. h[i] = f /\ h[i - 1] = f /\ c[i].kind = "status"
    BY <1>1, <1>2, <2>2
  <2>4. QED
    BY <2>3 DEF Heard
<1>5. IsStretch(h, c, r, 0, f, f)
  BY <1>1, <1>3, <1>4 DEF IsStretch
<1>6. QED
  BY <1>5 DEF Stretch

\* One line after the other.
LEMMA StretchLines ==
    ASSUME NEW es \in Seq(Events), NEW r, NEW p \in Nat, NEW m \in Nat, Len(es) = m,
           \A i \in 1..m : es[i] = LogLine(r, p + i - 1)
    PROVE  Stretch(es, r, 0, p, p + m)
<1>2. PICK h : h = [i \in 0..m |-> p + i]
  OBVIOUS
<1>3. h \in [0..m -> 0..(p + m)] /\ h[0] = p /\ h[m] = p + m
  BY <1>2
<1>4. \A i \in (0 + 1)..m : Heard(es[i], r, h[i - 1], h[i])
  <2>1. TAKE i \in (0 + 1)..m
  <2>2. i \in 0..m /\ i - 1 \in 0..m /\ i \in 1..m /\ p + (i - 1) = p + i - 1 /\ (p + i - 1) + 1 = p + i
    OBVIOUS
  <2>3. h[i] = p + i /\ h[i - 1] = p + i - 1 /\ es[i] = LogLine(r, p + i - 1)
    BY <1>2, <2>2
  <2>4. QED
    BY <2>2, <2>3 DEF Heard
<1>5. IsStretch(h, es, r, 0, p, p + m)
  BY <1>3, <1>4 DEF IsStretch
<1>6. QED
  BY <1>5 DEF Stretch

\* Events put behind others.
LEMMA StretchOn ==
    ASSUME NEW c \in Seq(Events), NEW es \in Seq(Events), NEW r, NEW j \in 0..Len(c),
           NEW f \in Nat, NEW p \in Nat, NEW q \in Nat, p <= q,
           Stretch(c, r, j, f, p), Stretch(es, r, 0, p, q)
    PROVE  c \o es \in Seq(Events) /\ Stretch(c \o es, r, j, f, q) /\ Len(c) <= Len(c \o es)
<1>1. PICK l \in Nat, m \in Nat : l = Len(c) /\ m = Len(es)
  OBVIOUS
<1>2. PICK d : d = c \o es
  OBVIOUS
<1>3. /\ d \in Seq(Events) /\ Len(d) = l + m
      /\ \A i \in 1..(l + m) : d[i] = IF i <= l THEN c[i] ELSE es[i - l]
  BY <1>1, <1>2, ConcatProperties
<1>4. PICK g : IsStretch(g, c, r, j, f, p)
  BY DEF Stretch
<1>5. PICK k : IsStretch(k, es, r, 0, p, q)
  BY DEF Stretch
<1>6. /\ g \in [j..l -> 0..p] /\ g[j] = f /\ g[l] = p
      /\ \A i \in (j + 1)..l : Heard(c[i], r, g[i - 1], g[i])
  BY <1>1, <1>4 DEF IsStretch
<1>7. /\ k \in [0..m -> 0..q] /\ k[0] = p /\ k[m] = q
      /\ \A i \in (0 + 1)..m : Heard(es[i], r, k[i - 1], k[i])
  BY <1>1, <1>5 DEF IsStretch
<1>8. PICK h : h = [i \in j..(l + m) |-> IF i <= l THEN g[i] ELSE k[i - l]]
  OBVIOUS
<1>9. h \in [j..(l + m) -> 0..q]
  <2>1. ASSUME NEW i \in j..(l + m)
        PROVE  h[i] \in 0..q
    <3>1. CASE i <= l
      <4>1. i \in j..l
        BY <1>1, <3>1
      <4>2. g[i] \in 0..p /\ h[i] = g[i]
        BY <1>6, <1>8, <3>1, <4>1
      <4>3. QED
        BY <4>2
    <3>2. CASE ~(i <= l)
      <4>1. i - l \in 0..m
        BY <1>1, <3>2
      <4>2. k[i - l] \in 0..q /\ h[i] = k[i - l]
        BY <1>7, <1>8, <3>2, <4>1
      <4>3. QED
        BY <4>2
    <3>3. QED
      BY <3>1, <3>2
  <2>2. QED
    BY <1>8, <2>1
<1>10. h[j] = f /\ h[l + m] = q
  <2>1. j <= l /\ j \in j..(l + m) /\ l + m \in j..(l + m)
    BY <1>1
  <2>2. h[j] = g[j]
    BY <1>8, <2>1
  <2>3. h[l + m] = q
    <3>1. CASE m = 0
      <4>1. l + m = l /\ l \in j..(l + m)
        BY <1>1, <3>1
      <4>2. h[l] = g[l] /\ p = q
        BY <1>7, <1>8, <3>1, <4>1
      <4>3. QED
        BY <1>6, <4>1, <4>2
    <3>2. CASE m # 0
      <4>1. ~(l + m <= l) /\ (l + m) - l = m
        BY <3>2
      <4>2. h[l + m] = k[m]
        BY <1>8, <2>1, <4>1
      <4>3. QED
        BY <1>7, <4>2
    <3>3. QED
      BY <3>1, <3>2
  <2>4. QED
    BY <1>6, <2>2, <2>3
<1>11. \A i \in (j + 1)..(l + m) : Heard(d[i], r, h[i - 1], h[i])
  <2>1. TAKE i \in (j + 1)..(l + m)
  <2>2. i \in j..(l + m) /\ i - 1 \in j..(l + m) /\ i \in 1..(l + m)
    BY <1>1
  <2>3. CASE i <= l
    <3>1. i \in (j + 1)..l /\ i - 1 <= l
      BY <1>1, <2>3
    <3>2. d[i] = c[i] /\ h[i] = g[i] /\ h[i - 1] = g[i - 1]
      BY <1>3, <1>8, <2>2, <2>3, <3>1
    <3>3. QED
      BY <1>6, <3>1, <3>2
  <2>4. CASE ~(i <= l)
    <3>1. PICK x \in (0 + 1)..m : x = i - l
      <4>1. i - l \in (0 + 1)..m
        BY <1>1, <2>4
      <4>2. QED
        BY <4>1
    <3>2. d[i] = es[x] /\ h[i] = k[x]
      BY <1>3, <1>8, <2>2, <2>4, <3>1
    <3>3. h[i - 1] = k[x - 1]
      <4>1. CASE i - 1 <= l
        <5>1. i - 1 = l /\ x - 1 = 0
          BY <2>4, <3>1, <4>1
        <5>2. h[i - 1] = g[l]
          BY <1>8, <2>2, <4>1, <5>1
        <5>3. QED
          BY <1>6, <1>7, <5>1, <5>2
      <4>2. CASE ~(i - 1 <= l)
        <5>1. (i - 1) - l = x - 1
          BY <3>1
        <5>2. QED
          BY <1>8, <2>2, <4>2, <5>1
      <4>3. QED
        BY <4>1, <4>2
    <3>4. QED
      BY <1>7, <3>1, <3>2, <3>3
  <2>5. QED
    BY <2>3, <2>4
<1>12. Len(d) = l + m
  BY <1>3
<1>13. IsStretch(h, d, r, j, f, q)
  BY <1>9, <1>10, <1>11, <1>12 DEF IsStretch
<1>14. QED
  BY <1>1, <1>2, <1>3, <1>13 DEF Stretch

\* An event is delivered before the stretch begins.
LEMMA StretchLater ==
    ASSUME NEW c \in Seq(Events), c # <<>>, NEW r, NEW j \in 1..Len(c), NEW f \in Nat, NEW p \in Nat,
           Stretch(c, r, j, f, p)
    PROVE  j - 1 \in 0..Len(Tail(c)) /\ Stretch(Tail(c), r, j - 1, f, p)
<1>1. PICK l \in Nat : l = Len(c) /\ l > 0
  BY EmptySeq
<1>2. PICK d : d = Tail(c)
  OBVIOUS
<1>3. d \in Seq(Events) /\ Len(d) = l - 1 /\ \A i \in 1..(l - 1) : d[i] = c[i + 1]
  BY <1>1, <1>2, HeadTailProperties
<1>4. PICK g : IsStretch(g, c, r, j, f, p)
  BY DEF Stretch
<1>6. /\ g \in [j..l -> 0..p] /\ g[j] = f /\ g[l] = p
      /\ \A i \in (j + 1)..l : Heard(c[i], r, g[i - 1], g[i])
  BY <1>1, <1>4 DEF IsStretch
<1>7. PICK x \in Nat, y \in Nat : x = j - 1 /\ y = l - 1 /\ x <= y /\ j = x + 1 /\ l = y + 1
  <2>1. j - 1 \in Nat /\ l - 1 \in Nat /\ j - 1 <= l - 1 /\ j = (j - 1) + 1 /\ l = (l - 1) + 1
    BY <1>1
  <2>2. QED
    BY <2>1
<1>8. PICK h : h = [i \in x..y |-> g[i + 1]]
  OBVIOUS
<1>9. h \in [x..y -> 0..p] /\ h[x] = f /\ h[y] = p
  BY <1>6, <1>7, <1>8
<1>10. \A i \in (x + 1)..y : Heard(d[i], r, h[i - 1], h[i])
  <2>1. TAKE i \in (x + 1)..y
  <2>2. PICK k \in (j + 1)..l : k = i + 1 /\ k - 1 = i /\ (i - 1) + 1 = k - 1
    <3>1. i + 1 \in (j + 1)..l /\ (i + 1) - 1 = i /\ (i - 1) + 1 = (i + 1) - 1
      BY <1>7
    <3>2. QED
      BY <3>1
  <2>3. i \in x..y /\ i - 1 \in x..y /\ i \in 1..(l - 1)
    BY <1>7
  <2>4. h[i] = g[k] /\ h[i - 1] = g[k - 1] /\ d[i] = c[k]
    BY <1>3, <1>8, <2>2, <2>3
  <2>5. QED
    BY <1>6, <2>4
<1>11. IsStretch(h, d, r, x, f, p)
  BY <1>3, <1>7, <1>9, <1>10 DEF IsStretch
<1>12. QED
  BY <1>2, <1>3, <1>7, <1>11 DEF Stretch

\* The first event of the stretch is delivered.
LEMMA StretchNext ==
    ASSUME NEW c \in Seq(Events), c # <<>>, NEW r, NEW f \in Nat, NEW p \in Nat,
           Stretch(c, r, 0, f, p)
    PROVE  \E n \in 0..p : f <= p /\ Heard(Head(c), r, f, n) /\ Stretch(Tail(c), r, 0, n, p)
<1>1. PICK l \in Nat : l = Len(c) /\ l > 0
  BY EmptySeq
<1>2. PICK d : d = Tail(c)
  OBVIOUS
<1>3. d \in Seq(Events) /\ Len(d) = l - 1 /\ (\A i \in 1..(l - 1) : d[i] = c[i + 1]) /\ Head(c) = c[1]
  BY <1>1, <1>2, HeadTailProperties
<1>4. PICK g : IsStretch(g, c, r, 0, f, p)
  BY DEF Stretch
<1>6. /\ g \in [0..l -> 0..p] /\ g[0] = f /\ g[l] = p
      /\ \A i \in (0 + 1)..l : Heard(c[i], r, g[i - 1], g[i])
  BY <1>1, <1>4 DEF IsStretch
<1>7. PICK y \in Nat : y = l - 1 /\ l = y + 1
  BY <1>1
<1>8. PICK h : h = [i \in 0..y |-> g[i + 1]]
  OBVIOUS
<1>9. PICK n \in 0..p : n = g[1]
  BY <1>1, <1>6
<1>10. h \in [0..y -> 0..p] /\ h[0] = n /\ h[y] = p
  <2>1. \A i \in 0..y : i + 1 \in 0..l
    BY <1>7
  <2>2. 0 \in 0..y /\ y \in 0..y /\ 0 + 1 = 1
    OBVIOUS
  <2>3. QED
    BY <1>6, <1>7, <1>8, <1>9, <2>1, <2>2
<1>11. \A i \in (0 + 1)..y : Heard(d[i], r, h[i - 1], h[i])
  <2>1. TAKE i \in (0 + 1)..y
  <2>2. PICK k \in (0 + 1)..l : k = i + 1 /\ k - 1 = i /\ (i - 1) + 1 = k - 1
    <3>1. i + 1 \in (0 + 1)..l /\ (i + 1) - 1 = i /\ (i - 1) + 1 = (i + 1) - 1
      BY <1>7
    <3>2. QED
      BY <3>1
  <2>3. i \in 0..y /\ i - 1 \in 0..y /\ i \in 1..(l - 1)
    BY <1>7
  <2>4. h[i] = g[k] /\ h[i - 1] = g[k - 1] /\ d[i] = c[k]
    BY <1>3, <1>8, <2>2, <2>3
  <2>5. QED
    BY <1>6, <2>4
<1>12. IsStretch(h, d, r, 0, n, p)
  BY <1>3, <1>7, <1>10, <1>11 DEF IsStretch
<1>13. Heard(c[1], r, f, n)
  <2>1. 1 \in (0 + 1)..l /\ 1 - 1 = 0
    BY <1>1
  <2>2. Heard(c[1], r, g[1 - 1], g[1])
    BY <1>6, <2>1
  <2>3. QED
    BY <1>6, <1>9, <2>1, <2>2
<1>14. f <= p
  BY <1>1, <1>6
<1>15. QED
  BY <1>2, <1>3, <1>12, <1>13, <1>14 DEF Stretch

-----------------------------------------------------------------------------
(* The lines of one run. *)

\* s are k lines of run r, from line o on.
IsRun(s, r, o, k) == s \in Seq(Entries) /\ Len(s) = k /\ \A i \in 1..k : s[i] = Line(r, o + i - 1)

\* s is a ring that has got n lines of run r and keeps them from line o on.
RingIs(s, r, o, n) ==
    /\ o \in Nat /\ n \in Nat /\ o < n /\ IsRun(s, r, o, n - o)
    /\ n - o <= RingCap /\ (o = 0 \/ n - o = RingCap)

\* Each element of such a sequence.
LEMMA RunAt ==
    ASSUME NEW s, NEW r, NEW o \in Nat, NEW k \in Nat, IsRun(s, r, o, k), NEW i \in 1..k
    PROVE  s[i] = Line(r, o + i - 1) /\ s[i].run = r /\ s[i].index = o + i - 1 /\ s[i] \in Entries
<1>1. s \in Seq(Entries) /\ Len(s) = k /\ s[i] = Line(r, o + i - 1)
  BY DEF IsRun
<1>2. s[i] \in Entries
  BY <1>1, ElementOfSeq
<1>3. QED
  BY <1>1, <1>2 DEF Line

\* Its last index.
LEMMA RunLast ==
    ASSUME NEW s, NEW r, NEW o \in Nat, NEW k \in Nat, k > 0, IsRun(s, r, o, k)
    PROVE  s # <<>> /\ LastIndex(s) = o + k - 1 /\ s[Len(s)].run = r
<1>1. s \in Seq(Entries) /\ Len(s) = k
  BY DEF IsRun
<1>2. s # <<>>
  BY <1>1, LastIndexTyped
<1>3. k \in 1..k
  OBVIOUS
<1>4. s[k].run = r /\ s[k].index = o + k - 1
  BY <1>3 DEF IsRun, Line
<1>5. QED
  BY <1>1, <1>2, <1>4 DEF LastIndex

\* A part of it up to its end.
LEMMA RunPart ==
    ASSUME NEW s, NEW r, NEW o \in Nat, NEW k \in Nat, IsRun(s, r, o, k), NEW j \in 0..k
    PROVE  IsRun(SubSeq(s, j + 1, k), r, o + j, k - j)
<1>1. s \in Seq(Entries) /\ Len(s) = k
  BY DEF IsRun
<1>2. PICK a \in Nat, m \in Nat, x \in Nat : a = j + 1 /\ m = k - j /\ x = o + j
  <2>1. j + 1 \in Nat /\ k - j \in Nat /\ o + j \in Nat
    OBVIOUS
  <2>2. QED
    BY <2>1
<1>3. PICK t : t = SubSeq(s, a, k)
  OBVIOUS
<1>4. \A i \in a..k : s[i] \in Entries
  BY <1>1, <1>2, ElementOfSeq
<1>5. /\ t \in Seq(Entries)
      /\ Len(t) = IF a <= k THEN k - a + 1 ELSE 0
      /\ \A i \in 1..(k - a + 1) : t[i] = s[a + i - 1]
  BY <1>2, <1>3, <1>4, SubSeqProperties
<1>6. Len(t) = m
  BY <1>2, <1>5
<1>7. \A i \in 1..m : t[i] = Line(r, x + i - 1)
  <2>1. TAKE i \in 1..m
  <2>2. PICK y \in 1..k : y = a + i - 1 /\ o + y - 1 = x + i - 1
    <3>1. a + i - 1 \in 1..k /\ o + (a + i - 1) - 1 = x + i - 1
      BY <1>2
    <3>2. QED
      BY <3>1
  <2>3. i \in 1..(k - a + 1)
    BY <1>2
  <2>4. t[i] = s[y]
    BY <1>5, <2>2, <2>3
  <2>5. s[y] = Line(r, o + y - 1)
    BY DEF IsRun
  <2>6. QED
    BY <2>2, <2>4, <2>5
<1>8. IsRun(t, r, x, m)
  BY <1>5, <1>6, <1>7 DEF IsRun
<1>9. QED
  BY <1>2, <1>3, <1>8

\* A line more.
LEMMA RunMore ==
    ASSUME NEW s, NEW r, NEW o \in Nat, NEW k \in Nat, IsRun(s, r, o, k), Line(r, o + k) \in Entries
    PROVE  IsRun(Append(s, Line(r, o + k)), r, o, k + 1)
<1>1. s \in Seq(Entries) /\ Len(s) = k
  BY DEF IsRun
<1>2. PICK e \in Entries : e = Line(r, o + k)
  OBVIOUS
<1>3. PICK t : t = Append(s, e)
  OBVIOUS
<1>4. t \in Seq(Entries) /\ Len(t) = k + 1 /\ t[k + 1] = e /\ \A i \in 1..k : t[i] = s[i]
  BY <1>1, <1>2, <1>3, AppendProperties
<1>5. \A i \in 1..(k + 1) : t[i] = Line(r, o + i - 1)
  <2>1. TAKE i \in 1..(k + 1)
  <2>2. CASE i = k + 1
    <3>1. o + i - 1 = o + k
      BY <2>2
    <3>2. QED
      BY <1>2, <1>4, <2>2, <3>1
  <2>3. CASE i # k + 1
    <3>1. i \in 1..k
      BY <2>3
    <3>2. t[i] = s[i] /\ s[i] = Line(r, o + i - 1)
      BY <1>4, <3>1, RunAt
    <3>3. QED
      BY <3>2
  <2>4. QED
    BY <2>2, <2>3
<1>6. QED
  BY <1>2, <1>3, <1>4, <1>5 DEF IsRun

\* push_log keeps the last lines.
LEMMA RingPush ==
    ASSUME NEW s, NEW r, NEW o, NEW n, RingIs(s, r, o, n), Line(r, n) \in Entries
    PROVE  \E x : RingIs(RingWith(s, Line(r, n)), r, x, n + 1)
<1>1. /\ o \in Nat /\ n \in Nat /\ o < n /\ IsRun(s, r, o, n - o)
      /\ n - o <= RingCap /\ (o = 0 \/ n - o = RingCap) /\ RingCap \in Nat /\ RingCap > 0
  BY StoreAssumption DEF RingIs
<1>2. PICK k \in Nat : k = n - o /\ o + k = n /\ k > 0
  <2>1. n - o \in Nat /\ o + (n - o) = n /\ n - o > 0
    BY <1>1
  <2>2. QED
    BY <2>1
<1>3. PICK a : a = Append(s, Line(r, n))
  OBVIOUS
<1>4. PICK l \in Nat : l = k + 1
  OBVIOUS
<1>5. IsRun(a, r, o, l)
  <2>1. IsRun(s, r, o, k) /\ Line(r, o + k) \in Entries
    BY <1>1, <1>2
  <2>2. IsRun(Append(s, Line(r, o + k)), r, o, k + 1)
    BY <1>1, <2>1, RunMore
  <2>3. QED
    BY <1>2, <1>3, <1>4, <2>2
<1>6. PICK d \in {0, 1} : d = IF l > RingCap THEN 1 ELSE 0
  OBVIOUS
<1>7. RingWith(s, Line(r, n)) = SubSeq(a, d + 1, l)
  <2>1. Len(a) = l
    BY <1>5 DEF IsRun
  <2>2. RingWith(s, Line(r, n)) = SubSeq(a, 1 + d, l)
    BY <1>3, <1>6, <2>1 DEF RingWith
  <2>3. 1 + d = d + 1
    OBVIOUS
  <2>4. QED
    BY <2>2, <2>3
<1>8. d \in 0..l
  BY <1>4
<1>9. IsRun(SubSeq(a, d + 1, l), r, o + d, l - d)
  BY <1>1, <1>5, <1>8, RunPart
<1>10. PICK x \in Nat, m \in Nat : x = o + d /\ m = n + 1
  <2>1. o + d \in Nat /\ n + 1 \in Nat
    BY <1>1
  <2>2. QED
    BY <2>1
<1>11. l - d = m - x /\ x < m /\ m - x <= RingCap /\ (x = 0 \/ m - x = RingCap)
  BY <1>1, <1>2, <1>4, <1>6, <1>10
<1>12. RingIs(SubSeq(a, d + 1, l), r, x, m)
  BY <1>9, <1>10, <1>11 DEF RingIs
<1>13. QED
  BY <1>7, <1>10, <1>12

\* log_entries_since.
LEMMA RunBeyond ==
    ASSUME NEW s \in Ordered, NEW r, NEW o \in Nat, NEW k \in Nat, IsRun(s, r, o, k), NEW x \in Int, x < o + k
    PROVE  \E f \in Nat : /\ IsRun(Beyond(s, x), r, f, o + k - f) /\ f <= o + k
                          /\ f = IF x + 1 > o THEN x + 1 ELSE o
<1>1. s \in Seq(Entries) /\ Len(s) = k /\ Rises(s)
  BY DEF IsRun, Ordered
<1>2. PICK d \in 0..k : /\ \A i \in 1..k : s[i].index > x <=> i > d
                        /\ Beyond(s, x) = SubSeq(s, d + 1, k)
  BY <1>1, BeyondIsEnd
<1>3. IsRun(Beyond(s, x), r, o + d, k - d)
  BY <1>2, RunPart
<1>4. \A i \in 1..k : o + i - 1 > x <=> i > d
  <2>1. TAKE i \in 1..k
  <2>2. s[i].index = o + i - 1
    BY DEF IsRun, Line
  <2>3. QED
    BY <1>2, <2>2
<1>5. o + d = IF x + 1 > o THEN x + 1 ELSE o
  <2>1. CASE x + 1 > o
    <3>1. PICK y \in 1..k : y = x + 1 - o /\ ~(o + y - 1 > x)
      <4>1. x + 1 - o \in 1..k /\ ~(o + (x + 1 - o) - 1 > x)
        BY <2>1
      <4>2. QED
        BY <4>1
    <3>2. y <= d
      BY <1>4, <3>1
    <3>3. d <= y
      <4>1. SUFFICES ASSUME d > y PROVE FALSE
        OBVIOUS
      <4>2. d \in 1..k /\ o + d - 1 > x
        BY <2>1, <3>1, <4>1
      <4>3. QED
        BY <1>4, <4>2
    <3>4. d = y
      BY <3>2, <3>3
    <3>5. QED
      BY <2>1, <3>1, <3>4
  <2>2. CASE ~(x + 1 > o)
    <3>1. d = 0
      <4>1. SUFFICES ASSUME d # 0 PROVE FALSE
        OBVIOUS
      <4>2. d \in 1..k /\ o + d - 1 > x
        BY <2>2, <4>1
      <4>3. QED
        BY <1>4, <4>2
    <3>2. QED
      BY <2>2, <3>1
  <2>3. QED
    BY <2>1, <2>2
<1>6. PICK f \in Nat : f = o + d
  OBVIOUS
<1>7. o + k - f = k - d /\ f <= o + k
  BY <1>6
<1>8. IsRun(Beyond(s, x), r, f, o + k - f) /\ f = IF x + 1 > o THEN x + 1 ELSE o
  BY <1>3, <1>5, <1>6, <1>7
<1>9. QED
  BY <1>7, <1>8

-----------------------------------------------------------------------------
(* The end of the buffer. *)

\* The buffer ends with the lines s, ..., q - 1 of run r, or with as many of
\* them as it has room for. What is before them is not told.
Ends(b, r, s, q) ==
    /\ s < q
    /\ \A x \in 0..(q - s - 1) : x < ViewCap => x < Len(b) /\ b[Len(b) - x] = Line(r, q - 1 - x)

\* Of n lines those from s on are all, or more than there is room for.
Covers(s, n) == s = 0 \/ n - s >= ViewCap

\* Two sequences of the same lines.
LEMMA RunSame ==
    ASSUME NEW s, NEW t, NEW r, NEW o \in Nat, NEW k \in Nat, IsRun(s, r, o, k), IsRun(t, r, o, k)
    PROVE  s = t
<1>1. s \in Seq(Entries) /\ t \in Seq(Entries) /\ Len(s) = k /\ Len(t) = k
  BY DEF IsRun
<1>2. \A i \in 1..k : s[i] = t[i]
  BY DEF IsRun
<1>3. QED
  BY <1>1, <1>2, SeqEqual

\* The last line of the buffer.
LEMMA EndsLast ==
    ASSUME NEW b \in Ordered, NEW r, NEW s \in Nat, NEW q \in Nat, Ends(b, r, s, q)
    PROVE  /\ b # <<>> /\ Len(b) > 0 /\ b[Len(b)] = Line(r, q - 1)
           /\ LastIndex(b) = q - 1 /\ b[Len(b)].run = r
<1>1. b \in Seq(Entries)
  BY DEF Ordered
<1>2. PICK l \in Nat : l = Len(b)
  BY <1>1
<1>3. 0 \in 0..(q - s - 1) /\ 0 < ViewCap /\ l - 0 = l /\ q - 1 - 0 = q - 1
  BY ViewCapAssumption DEF Ends
<1>4. 0 < l /\ b[l] = Line(r, q - 1)
  BY <1>2, <1>3 DEF Ends
<1>5. b # <<>> /\ LastIndex(b) = b[l].index
  BY <1>1, <1>2, <1>4, LastIndexTyped
<1>6. QED
  BY <1>2, <1>4, <1>5 DEF Line

\* One line is enough to begin with.
LEMMA EndsOne ==
    ASSUME NEW b \in Seq(Entries), b # <<>>, NEW r, NEW f \in Nat, b[Len(b)] = Line(r, f)
    PROVE  Ends(b, r, f, f + 1)
<1>1. PICK l \in Nat : l = Len(b) /\ l > 0
  BY EmptySeq
<1>2. PICK q \in Nat : q = f + 1
  OBVIOUS
<1>3. ASSUME NEW x \in 0..(q - f - 1), x < ViewCap
      PROVE  x < l /\ b[l - x] = Line(r, q - 1 - x)
  <2>1. x = 0 /\ l - x = l /\ q - 1 - x = f
    BY <1>1, <1>2
  <2>2. b[l] = Line(r, f)
    BY <1>1
  <2>3. QED
    BY <1>1, <2>1, <2>2
<1>4. Ends(b, r, f, q)
  BY <1>1, <1>2, <1>3 DEF Ends
<1>5. QED
  BY <1>2, <1>4

\* Lines of one run are an end.
LEMMA EndsRun ==
    ASSUME NEW b, NEW r, NEW s \in Nat, NEW q \in Nat, s < q, IsRun(b, r, s, q - s)
    PROVE  Ends(b, r, s, q) /\ Len(b) = q - s
<1>1. PICK l \in Nat : l = q - s
  <2>1. q - s \in Nat
    OBVIOUS
  <2>2. QED
    BY <2>1
<1>2. Len(b) = l /\ \A i \in 1..l : b[i] = Line(r, s + i - 1)
  BY <1>1 DEF IsRun
<1>3. ASSUME NEW x \in 0..(q - s - 1), x < ViewCap
      PROVE  x < l /\ b[l - x] = Line(r, q - 1 - x)
  <2>1. PICK i \in 1..l : i = l - x /\ s + i - 1 = q - 1 - x
    <3>1. l - x \in 1..l /\ s + (l - x) - 1 = q - 1 - x
      BY <1>1
    <3>2. QED
      BY <3>1
  <2>2. b[i] = Line(r, s + i - 1)
    BY <1>2
  <2>3. QED
    BY <1>1, <2>1, <2>2
<1>4. QED
  BY <1>1, <1>2, <1>3 DEF Ends

\* And an end that is the whole buffer is lines of one run.
LEMMA EndsWhole ==
    ASSUME NEW b \in Seq(Entries), Len(b) <= ViewCap, NEW r, NEW s \in Nat, NEW q \in Nat,
           Ends(b, r, s, q), NEW l \in Nat, Len(b) = l, l <= q - s
    PROVE  IsRun(b, r, q - l, l)
<1>1. ASSUME NEW i \in 1..l
      PROVE  b[i] = Line(r, (q - l) + i - 1)
  <2>1. PICK x \in 0..(q - s - 1) : x = l - i /\ x < ViewCap /\ l - x = i /\ q - 1 - x = (q - l) + i - 1
    <3>1. /\ l - i \in 0..(q - s - 1) /\ l - i < ViewCap /\ l - (l - i) = i
          /\ q - 1 - (l - i) = (q - l) + i - 1
      BY ViewCapAssumption
    <3>2. QED
      BY <3>1
  <2>2. b[l - x] = Line(r, q - 1 - x)
    BY <2>1 DEF Ends
  <2>3. QED
    BY <2>1, <2>2
<1>2. QED
  BY <1>1 DEF IsRun

\* c is the end of a, as much of it as there is room for.
EndOf(c, a) ==
    /\ Len(c) = IF Len(a) > ViewCap THEN ViewCap ELSE Len(a)
    /\ \A x \in 0..(Len(c) - 1) : c[Len(c) - x] = a[Len(a) - x]

\* slice(-MAX_LOG_LINES) keeps the end.
LEMMA CapKeeps ==
    ASSUME NEW a \in Ordered
    PROVE  EndOf(Capped(a), a)
<1>1. a \in Seq(Entries)
  BY DEF Ordered
<1>2. PICK l \in Nat : l = Len(a)
  BY <1>1
<1>3. PICK d \in 0..l : d = IF l > ViewCap THEN l - ViewCap ELSE 0
  <2>1. (IF l > ViewCap THEN l - ViewCap ELSE 0) \in 0..l
    BY <1>2, ViewCapAssumption
  <2>2. QED
    BY <2>1
<1>4. PICK c : c = SubSeq(a, d + 1, l)
  OBVIOUS
<1>5. c = Capped(a)
  <2>1. Capped(a) = SubSeq(a, 1 + d, l)
    BY <1>2, <1>3 DEF Capped
  <2>2. 1 + d = d + 1
    OBVIOUS
  <2>3. QED
    BY <1>4, <2>1, <2>2
<1>6. PICK m \in Nat : m = l - d
  <2>1. l - d \in Nat
    OBVIOUS
  <2>2. QED
    BY <2>1
<1>7. Len(c) = m /\ \A i \in 1..m : c[i] = a[d + i]
  <2>1. d \in 0..Len(a)
    BY <1>2
  <2>2. /\ Len(SubSeq(a, d + 1, Len(a))) = Len(a) - d
        /\ \A i \in 1..(Len(a) - d) : SubSeq(a, d + 1, Len(a))[i] = a[d + i]
    BY <2>1, EndOrdered
  <2>3. QED
    BY <1>2, <1>4, <1>6, <2>2
<1>8. ASSUME NEW x \in 0..(m - 1)
      PROVE  c[m - x] = a[l - x]
  <2>1. PICK i \in 1..m : i = m - x /\ d + i = l - x
    <3>1. m - x \in 1..m /\ d + (m - x) = l - x
      BY <1>6
    <3>2. QED
      BY <3>1
  <2>2. c[i] = a[d + i]
    BY <1>7
  <2>3. QED
    BY <2>1, <2>2
<1>9. m = IF l > ViewCap THEN ViewCap ELSE l
  BY <1>3, <1>6, ViewCapAssumption
<1>10. EndOf(c, a)
  BY <1>2, <1>7, <1>8, <1>9 DEF EndOf
<1>11. QED
  BY <1>5, <1>10

LEMMA EndsCapped ==
    ASSUME NEW a \in Ordered, NEW r, NEW s \in Nat, NEW q \in Nat, Ends(a, r, s, q)
    PROVE  Ends(Capped(a), r, s, q)
<1>1. PICK c : c = Capped(a)
  OBVIOUS
<1>2. EndOf(c, a)
  BY <1>1, CapKeeps
<1>3. a \in Seq(Entries)
  BY DEF Ordered
<1>4. PICK l \in Nat : l = Len(a)
  BY <1>3
<1>5. PICK m \in Nat : m = Len(c) /\ m = IF l > ViewCap THEN ViewCap ELSE l
  BY <1>2, <1>4, ViewCapAssumption DEF EndOf
<1>6. ASSUME NEW x \in 0..(q - s - 1), x < ViewCap
      PROVE  x < m /\ c[m - x] = Line(r, q - 1 - x)
  <2>1. x < l /\ a[l - x] = Line(r, q - 1 - x)
    BY <1>4, <1>6 DEF Ends
  <2>2. x < m /\ x \in 0..(m - 1)
    BY <1>5, <1>6, <2>1, ViewCapAssumption
  <2>3. c[m - x] = a[l - x]
    BY <1>2, <1>4, <1>5, <2>2 DEF EndOf
  <2>4. QED
    BY <2>1, <2>2, <2>3
<1>7. Ends(c, r, s, q)
  BY <1>5, <1>6 DEF Ends
<1>8. QED
  BY <1>1, <1>7

\* A line more at the end.
LEMMA EndsMore ==
    ASSUME NEW b \in Ordered, NEW r, NEW s \in Nat, NEW q \in Nat, Ends(b, r, s, q),
           NEW e \in Entries, e = Line(r, q)
    PROVE  Ends(Append(b, e), r, s, q + 1)
<1>1. b \in Seq(Entries)
  BY DEF Ordered
<1>0. PICK a : a = Append(b, e)
  OBVIOUS
<1>2. PICK l \in Nat, n \in Nat : l = Len(b) /\ n = q + 1
  BY <1>1
<1>3. Len(a) = l + 1 /\ a[l + 1] = e /\ \A i \in 1..l : a[i] = b[i]
  BY <1>0, <1>1, <1>2, AppendProperties
<1>4. ASSUME NEW x \in 0..(n - s - 1), x < ViewCap
      PROVE  x < l + 1 /\ a[(l + 1) - x] = Line(r, n - 1 - x)
  <2>1. CASE x = 0
    <3>1. (l + 1) - x = l + 1 /\ n - 1 - x = q
      BY <1>2, <2>1
    <3>2. QED
      BY <1>2, <1>3, <2>1, <3>1
  <2>2. CASE x # 0
    <3>1. PICK y \in 0..(q - s - 1) : y = x - 1 /\ y < ViewCap
      <4>1. x - 1 \in 0..(q - s - 1) /\ x - 1 < ViewCap
        BY <1>2, <1>4, <2>2, ViewCapAssumption
      <4>2. QED
        BY <4>1
    <3>2. y < l /\ b[l - y] = Line(r, q - 1 - y)
      BY <1>2, <3>1 DEF Ends
    <3>3. PICK i \in 1..l : i = l - y /\ (l + 1) - x = i /\ q - 1 - y = n - 1 - x
      <4>1. l - y \in 1..l /\ (l + 1) - x = l - y /\ q - 1 - y = n - 1 - x
        BY <1>2, <3>1, <3>2
      <4>2. QED
        BY <4>1
    <3>4. QED
      BY <1>3, <3>1, <3>2, <3>3
  <2>3. QED
    BY <2>1, <2>2
<1>5. s < n
  BY <1>2 DEF Ends
<1>6. Ends(a, r, s, n)
  BY <1>3, <1>4, <1>5 DEF Ends
<1>7. QED
  BY <1>0, <1>2, <1>6

\* With more lines there is not less that covers.
LEMMA CoversMore ==
    ASSUME NEW s \in Nat, NEW n \in Nat, NEW m \in Nat, n <= m, Covers(s, n)
    PROVE  Covers(s, m)
  BY ViewCapAssumption DEF Covers

\* The ring is no smaller than the buffer.
LEMMA RingCovers ==
    ASSUME NEW g, NEW r, NEW o, NEW n, RingIs(g, r, o, n), NEW m \in Nat, n <= m
    PROVE  o \in Nat /\ Covers(o, m)
<1>1. ViewCap \in Nat /\ RingCap \in Nat /\ ViewCap <= RingCap
  BY ViewCapAssumption, StoreAssumption
<1>2. QED
  BY <1>1 DEF RingIs, Covers

\* A buffer that ends with all there is room for is the end of the ring.
LEMMA EndsAll ==
    ASSUME NEW g, NEW r, NEW o, NEW n, RingIs(g, r, o, n), NEW b \in Ordered, Len(b) <= ViewCap,
           NEW s \in Nat, Ends(b, r, s, n), Covers(s, n)
    PROVE  b = Capped(g)
<1>1. /\ o \in Nat /\ n \in Nat /\ o < n /\ IsRun(g, r, o, n - o) /\ n - o <= RingCap
      /\ o = 0 \/ n - o = RingCap
      /\ ViewCap \in Nat /\ ViewCap > 0 /\ RingCap \in Nat /\ ViewCap <= RingCap
  BY ViewCapAssumption, StoreAssumption DEF RingIs
<1>2. PICK w \in Nat : w = IF n > ViewCap THEN ViewCap ELSE n
  BY <1>1
<1>3. w > 0 /\ w <= n /\ w <= ViewCap /\ w <= n - s
  BY <1>1, <1>2 DEF Covers
<1>4. b \in Seq(Entries) /\ Rises(b)
  BY DEF Ordered
<1>5. PICK l \in Nat : l = Len(b) /\ l <= ViewCap
  BY <1>4
<1>6. l >= w
  <2>1. PICK x \in 0..(n - s - 1) : x = w - 1 /\ x < ViewCap
    <3>1. w - 1 \in 0..(n - s - 1) /\ w - 1 < ViewCap
      BY <1>1, <1>3
    <3>2. QED
      BY <3>1
  <2>2. x < l
    BY <1>5, <2>1 DEF Ends
  <2>3. QED
    BY <2>1, <2>2
<1>7. ~(l > w)
  <2>1. SUFFICES ASSUME l > w PROVE FALSE
    OBVIOUS
  <2>2. w = n /\ s = 0
    BY <1>1, <1>2, <1>5, <2>1 DEF Covers
  <2>3. PICK x \in 0..(n - s - 1) : x = n - 1 /\ x < ViewCap /\ n - 1 - x = 0
    <3>1. n - 1 \in 0..(n - s - 1) /\ n - 1 < ViewCap /\ n - 1 - (n - 1) = 0
      BY <1>1, <1>3, <2>2
    <3>2. QED
      BY <3>1
  <2>4. PICK i \in 1..l, y \in 1..l : i = l - x /\ y = i - 1
    <3>1. l - x \in 1..l /\ (l - x) - 1 \in 1..l
      BY <1>3, <2>1, <2>2, <2>3
    <3>2. QED
      BY <3>1
  <2>5. b[i] = Line(r, 0)
    BY <1>5, <2>3, <2>4 DEF Ends
  <2>6. b[y].index < b[i].index /\ b[y] \in Entries
    <3>1. y < i /\ i \in 1..Len(b) /\ y \in 1..Len(b)
      BY <1>5, <2>4
    <3>2. b[y].index < b[i].index
      BY <1>4, <3>1 DEF Rises
    <3>3. b[y] \in Entries
      BY <1>4, <3>1, ElementOfSeq
    <3>4. QED
      BY <3>2, <3>3
  <2>7. b[i].index = 0 /\ b[y].index \in Int /\ b[y].index >= 0
    BY <2>5, <2>6, EntryTyped DEF Line
  <2>8. QED
    BY <2>6, <2>7
<1>8. Len(b) = w
  BY <1>5, <1>6, <1>7
<1>9. PICK a \in Nat : a = n - w
  <2>1. n - w \in Nat
    BY <1>1, <1>3
  <2>2. QED
    BY <2>1
<1>10. IsRun(b, r, a, w)
  BY <1>1, <1>3, <1>4, <1>8, <1>9, EndsWhole
<1>11. PICK k \in Nat : k = n - o
  <2>1. n - o \in Nat
    BY <1>1
  <2>2. QED
    BY <2>1
<1>12. PICK d \in 0..k : d = IF k > ViewCap THEN k - ViewCap ELSE 0
  <2>1. (IF k > ViewCap THEN k - ViewCap ELSE 0) \in 0..k
    BY <1>1
  <2>2. QED
    BY <2>1
<1>13. o + d = a /\ k - d = w
  BY <1>1, <1>2, <1>9, <1>11, <1>12
<1>14. IsRun(SubSeq(g, d + 1, k), r, a, w)
  <2>1. IsRun(SubSeq(g, d + 1, k), r, o + d, k - d)
    BY <1>1, <1>11, RunPart
  <2>2. QED
    BY <1>13, <2>1
<1>15. Capped(g) = SubSeq(g, d + 1, k)
  <2>1. Len(g) = k
    BY <1>1, <1>11 DEF IsRun
  <2>2. Capped(g) = SubSeq(g, 1 + d, k)
    BY <1>12, <2>1 DEF Capped
  <2>3. 1 + d = d + 1
    OBVIOUS
  <2>4. QED
    BY <2>2, <2>3
<1>16. QED
  BY <1>10, <1>14, <1>15, RunSame

\* Capped takes an end of the ring.
LEMMA CappedPlace ==
    ASSUME NEW g \in Seq(Entries), g # <<>>
    PROVE  \E k \in DOMAIN g : Capped(g) = SubSeq(g, k, Len(g))
<1>1. PICK l \in Nat : l = Len(g) /\ l > 0
  BY EmptySeq
<1>2. PICK k \in 1..l : k = 1 + (IF l > ViewCap THEN l - ViewCap ELSE 0)
  <2>1. 1 + (IF l > ViewCap THEN l - ViewCap ELSE 0) \in 1..l
    BY <1>1, ViewCapAssumption
  <2>2. QED
    BY <2>1
<1>3. k \in DOMAIN g
  BY <1>1
<1>4. QED
  BY <1>1, <1>2, <1>3 DEF Capped

\* A buffer of lines up to the last one is an end of the ring.
LEMMA EndsSome ==
    ASSUME NEW g, NEW r, NEW o, NEW n, RingIs(g, r, o, n), NEW b \in Ordered, Len(b) <= ViewCap,
           NEW s \in Nat, Ends(b, r, s, n), Len(b) = n - s
    PROVE  \E k \in DOMAIN g : b = SubSeq(g, k, Len(g))
<1>1. /\ o \in Nat /\ n \in Nat /\ o < n /\ IsRun(g, r, o, n - o) /\ n - o <= RingCap
      /\ o = 0 \/ n - o = RingCap
      /\ ViewCap \in Nat /\ RingCap \in Nat /\ ViewCap <= RingCap
  BY ViewCapAssumption, StoreAssumption DEF RingIs
<1>2. b \in Seq(Entries) /\ s < n
  BY DEF Ordered, Ends
<1>3. PICK l \in Nat, k \in Nat : l = n - s /\ k = n - o
  <2>1. n - s \in Nat /\ n - o \in Nat
    BY <1>1, <1>2
  <2>2. QED
    BY <2>1
<1>4. IsRun(b, r, s, l)
  <2>1. l <= n - s /\ Len(b) = l
    BY <1>3
  <2>2. IsRun(b, r, n - l, l)
    BY <1>1, <1>2, <2>1, EndsWhole
  <2>3. n - l = s
    BY <1>1, <1>3
  <2>4. QED
    BY <2>2, <2>3
<1>5. PICK d \in 0..k : d = s - o /\ o + d = s /\ k - d = l /\ d + 1 \in 1..k
  <2>1. s - o \in 0..k /\ o + (s - o) = s /\ k - (s - o) = l /\ (s - o) + 1 \in 1..k
    BY <1>1, <1>2, <1>3
  <2>2. QED
    BY <2>1
<1>6. IsRun(SubSeq(g, d + 1, k), r, s, l)
  <2>1. IsRun(SubSeq(g, d + 1, k), r, o + d, k - d)
    BY <1>1, <1>3, RunPart
  <2>2. QED
    BY <1>5, <2>1
<1>7. b = SubSeq(g, d + 1, k)
  BY <1>4, <1>6, RunSame
<1>8. Len(g) = k /\ DOMAIN g = 1..k
  BY <1>1, <1>3 DEF IsRun
<1>9. QED
  BY <1>5, <1>7, <1>8

-----------------------------------------------------------------------------
(* A line comes. *)

\* After a line of its run, the buffer ends with it.
LEMMA ComesLast ==
    ASSUME NEW b \in Ordered, NEW r, NEW f \in Nat, NEW e \in Entries, e = Line(r, f),
           f = LastIndex(b) => b[Len(b)].run = r
    PROVE  Ends(ApplyLogEvent(b, e), r, f, f + 1)
<1>1. b \in Seq(Entries) /\ e.index = f /\ LastIndex(b) \in Int
  BY LastIndexTyped DEF Ordered, Line
<1>2. CASE f = LastIndex(b)
  <2>1. ApplyLogEvent(b, e) = b
    BY <1>1, <1>2 DEF ApplyLogEvent
  <2>2. b # <<>> /\ b[Len(b)] \in Entries /\ b[Len(b)].index = f /\ b[Len(b)].run = r
    BY <1>1, <1>2, LastIndexTyped
  <2>3. b[Len(b)] = Line(r, f)
    BY <2>2 DEF Entries, Line
  <2>4. QED
    BY <1>1, <2>1, <2>2, <2>3, EndsOne
<1>3. CASE f < LastIndex(b)
  <2>1. ApplyLogEvent(b, e) = <<e>>
    BY <1>1, <1>3 DEF ApplyLogEvent
  <2>2. PICK a : a = <<e>>
    OBVIOUS
  <2>3. a \in Seq(Entries) /\ a # <<>> /\ Len(a) = 1 /\ a[1] = Line(r, f)
    BY <2>2
  <2>4. Ends(a, r, f, f + 1)
    BY <2>3, EndsOne
  <2>5. QED
    BY <2>1, <2>2, <2>4
<1>4. CASE f > LastIndex(b)
  <2>1. ApplyLogEvent(b, e) = Capped(Append(b, e))
    BY <1>1, <1>4 DEF ApplyLogEvent
  <2>2. PICK a : a = Append(b, e)
    OBVIOUS
  <2>3. PICK l \in Nat : l = Len(b)
    BY <1>1
  <2>4. a \in Seq(Entries) /\ Len(a) = l + 1 /\ a[l + 1] = e
    BY <1>1, <2>2, <2>3, AppendProperties
  <2>5. a # <<>>
    BY <2>3, <2>4, EmptySeq
  <2>6. a[Len(a)] = Line(r, f)
    BY <2>4
  <2>7. Ends(a, r, f, f + 1)
    BY <2>4, <2>5, <2>6, EndsOne
  <2>8. a \in Ordered
    BY <1>1, <1>4, <2>2, AppendOrdered
  <2>9. PICK q \in Nat : q = f + 1
    OBVIOUS
  <2>10. Ends(Capped(a), r, f, q)
    BY <2>7, <2>8, <2>9, EndsCapped
  <2>11. QED
    BY <2>1, <2>2, <2>9, <2>10
<1>5. QED
  BY <1>1, <1>2, <1>3, <1>4

\* The next line: the end of the buffer grows, and if it is the whole buffer
\* it stays so or there is no room for more.
LEMMA ComesNext ==
    ASSUME NEW b \in Ordered, Len(b) <= ViewCap, NEW r, NEW s \in Nat, NEW q \in Nat, Ends(b, r, s, q),
           NEW e \in Entries, e = Line(r, q), NEW n \in Nat, q + 1 <= n
    PROVE  /\ Ends(ApplyLogEvent(b, e), r, s, q + 1)
           /\ Len(b) = q - s => Covers(s, n) \/ Len(ApplyLogEvent(b, e)) = q + 1 - s
<1>1. b \in Seq(Entries) /\ e.index = q /\ LastIndex(b) = q - 1 /\ s < q
  BY EndsLast DEF Ordered, Line, Ends
<1>2. ApplyLogEvent(b, e) = Capped(Append(b, e))
  <2>1. e.index > LastIndex(b)
    BY <1>1
  <2>2. e.index # LastIndex(b) /\ ~(e.index < LastIndex(b))
    BY <1>1
  <2>3. QED
    BY <2>1, <2>2 DEF ApplyLogEvent
<1>3. PICK a : a = Append(b, e)
  OBVIOUS
<1>4. a \in Ordered /\ Len(a) = Len(b) + 1
  BY <1>1, <1>3, AppendOrdered
<1>5. PICK x \in Nat : x = q + 1
  OBVIOUS
<1>6. Ends(a, r, s, x)
  BY <1>3, <1>5, EndsMore
<1>7. Ends(Capped(a), r, s, x)
  BY <1>4, <1>6, EndsCapped
<1>8. ASSUME Len(b) = q - s, ~Covers(s, n)
      PROVE  Len(Capped(a)) = x - s
  <2>1. PICK l \in Nat : l = Len(a) /\ l = x - s
    <3>1. x - s \in Nat /\ Len(a) = x - s
      BY <1>1, <1>4, <1>5, <1>8
    <3>2. QED
      BY <3>1
  <2>2. ~(l > ViewCap)
    BY <1>5, <1>8, <2>1, ViewCapAssumption DEF Covers
  <2>3. EndOf(Capped(a), a)
    BY <1>4, CapKeeps
  <2>4. QED
    BY <2>1, <2>2, <2>3 DEF EndOf
<1>9. QED
  BY <1>2, <1>3, <1>5, <1>7, <1>8

\* The first line of all.
LEMMA ComesFirst ==
    ASSUME NEW e \in Entries
    PROVE  Len(ApplyLogEvent(<<>>, e)) = 1
<1>1. ApplyLogEvent(<<>>, e) = Capped(Append(<<>>, e))
  <2>1. LastIndex(<<>>) = -1 /\ e.index \in Int /\ e.index >= 0
    BY EntryTyped, NoLines
  <2>2. e.index # -1 /\ ~(e.index < -1) /\ e.index > -1
    BY <2>1
  <2>3. QED
    BY <2>1, <2>2 DEF ApplyLogEvent
<1>2. PICK a : a = Append(<<>>, e)
  OBVIOUS
<1>3. PICK b \in Ordered : b = <<>> /\ LastIndex(b) = -1 /\ Len(b) = 0
  BY NoLines
<1>4. a \in Ordered /\ Len(a) = 0 + 1
  <2>1. e.index > LastIndex(b)
    BY <1>3, EntryTyped
  <2>2. Append(b, e) \in Ordered /\ Len(Append(b, e)) = Len(b) + 1
    BY <2>1, AppendOrdered
  <2>3. QED
    BY <1>2, <1>3, <2>2
<1>5. EndOf(Capped(a), a)
  BY <1>4, CapKeeps
<1>6. ~(Len(a) > ViewCap) /\ Len(a) = 1
  BY <1>4, ViewCapAssumption
<1>7. Len(Capped(a)) = 1
  BY <1>5, <1>6 DEF EndOf
<1>8. QED
  BY <1>1, <1>2, <1>7

-----------------------------------------------------------------------------
(* The backfill is merged. *)

\* Lines after lines.
LEMMA RunConcat ==
    ASSUME NEW s, NEW t, NEW r, NEW o \in Nat, NEW k \in Nat, NEW p \in Nat, NEW m \in Nat,
           IsRun(s, r, o, k), p = o + k, IsRun(t, r, p, m)
    PROVE  IsRun(s \o t, r, o, k + m)
<1>1. s \in Seq(Entries) /\ Len(s) = k /\ t \in Seq(Entries) /\ Len(t) = m
  BY DEF IsRun
<1>2. PICK a : a = s \o t
  OBVIOUS
<1>3. /\ a \in Seq(Entries) /\ Len(a) = k + m
      /\ \A i \in 1..(k + m) : a[i] = IF i <= k THEN s[i] ELSE t[i - k]
  BY <1>1, <1>2, ConcatProperties
<1>4. \A i \in 1..(k + m) : a[i] = Line(r, o + i - 1)
  <2>1. TAKE i \in 1..(k + m)
  <2>2. CASE i <= k
    <3>1. i \in 1..k
      BY <2>2
    <3>2. s[i] = Line(r, o + i - 1)
      BY <3>1 DEF IsRun
    <3>3. QED
      BY <1>3, <2>2, <3>2
  <2>3. CASE ~(i <= k)
    <3>1. PICK x \in 1..m : x = i - k /\ p + x - 1 = o + i - 1
      <4>1. i - k \in 1..m /\ p + (i - k) - 1 = o + i - 1
        BY <2>3
      <4>2. QED
        BY <4>1
    <3>2. t[x] = Line(r, p + x - 1)
      BY DEF IsRun
    <3>3. QED
      BY <1>3, <2>3, <3>1, <3>2
  <2>4. QED
    BY <2>2, <2>3
<1>5. QED
  BY <1>2, <1>3, <1>4 DEF IsRun

\* Whatever comes before.
LEMMA EndsConcat ==
    ASSUME NEW a \in Seq(Entries), NEW t \in Seq(Entries), NEW r, NEW s \in Nat, NEW q \in Nat,
           Ends(t, r, s, q)
    PROVE  Ends(a \o t, r, s, q)
<1>1. PICK k \in Nat, m \in Nat : k = Len(a) /\ m = Len(t)
  OBVIOUS
<1>2. PICK c : c = a \o t
  OBVIOUS
<1>3. Len(c) = k + m /\ \A i \in 1..(k + m) : c[i] = IF i <= k THEN a[i] ELSE t[i - k]
  BY <1>1, <1>2, ConcatProperties
<1>4. ASSUME NEW x \in 0..(q - s - 1), x < ViewCap
      PROVE  x < k + m /\ c[(k + m) - x] = Line(r, q - 1 - x)
  <2>1. x < m /\ t[m - x] = Line(r, q - 1 - x)
    BY <1>1, <1>4 DEF Ends
  <2>2. PICK i \in 1..(k + m) : i = (k + m) - x /\ ~(i <= k) /\ i - k = m - x
    <3>1. (k + m) - x \in 1..(k + m) /\ ~((k + m) - x <= k) /\ ((k + m) - x) - k = m - x
      BY <2>1
    <3>2. QED
      BY <3>1
  <2>3. c[i] = t[i - k]
    BY <1>3, <2>2
  <2>4. QED
    BY <2>1, <2>2, <2>3
<1>5. s < q
  BY DEF Ends
<1>6. Ends(c, r, s, q)
  BY <1>3, <1>4, <1>5 DEF Ends
<1>7. QED
  BY <1>2, <1>6

\* The lines of a buffer beyond a line that it has.
LEMMA BeyondRun ==
    ASSUME NEW b \in Ordered, NEW r, NEW t \in Nat, NEW q \in Nat, Ends(b, r, t, q), q - t <= ViewCap,
           NEW m \in Nat, t <= m, m < q
    PROVE  IsRun(Beyond(b, m - 1), r, m, q - m)
<1>1. b \in Seq(Entries) /\ Rises(b)
  BY DEF Ordered
<1>2. PICK l \in Nat, x \in Int, k \in Nat : l = Len(b) /\ x = m - 1 /\ k = q - m
  <2>1. m - 1 \in Int /\ q - m \in Nat
    OBVIOUS
  <2>2. QED
    BY <1>1, <2>1
<1>3. PICK d \in 0..l : /\ \A i \in 1..l : b[i].index > x <=> i > d
                        /\ Beyond(b, x) = SubSeq(b, d + 1, l)
  BY <1>1, <1>2, BeyondIsEnd
<1>4. PICK y \in 0..(q - t - 1) : y = k - 1 /\ y < ViewCap /\ q - 1 - y = m
  <2>1. k - 1 \in 0..(q - t - 1) /\ k - 1 < ViewCap /\ q - 1 - (k - 1) = m
    BY <1>2, ViewCapAssumption
  <2>2. QED
    BY <2>1
<1>5. y < l /\ b[l - y] = Line(r, m)
  BY <1>2, <1>4 DEF Ends
<1>6. PICK i \in 1..l : i = l - y /\ b[i].index = m /\ i + k = l + 1
  <2>1. l - y \in 1..l /\ (l - y) + k = l + 1
    BY <1>4, <1>5
  <2>2. b[l - y].index = m
    BY <1>5 DEF Line
  <2>3. QED
    BY <2>1, <2>2
<1>7. i > d
  BY <1>2, <1>3, <1>6, SMTT(30)
<1>8. ~(i > d + 1)
  <2>1. SUFFICES ASSUME i > d + 1 PROVE FALSE
    OBVIOUS
  <2>2. PICK j \in 1..l : j = i - 1 /\ j > d /\ j < i
    <3>1. i - 1 \in 1..l /\ i - 1 > d /\ i - 1 < i
      BY <2>1
    <3>2. QED
      BY <3>1
  <2>3. b[j].index < b[i].index /\ b[j].index > x /\ b[j] \in Entries
    BY <1>1, <1>2, <1>3, <2>2, ElementOfSeq DEF Rises
  <2>4. PICK u \in Int : u = b[j].index
    BY <2>3, EntryTyped
  <2>5. u < m /\ u > x
    BY <1>6, <2>3, <2>4
  <2>6. QED
    BY <1>2, <2>5
<1>9. d + k = l
  BY <1>6, <1>7, <1>8
<1>10. PICK c : c = SubSeq(b, d + 1, l)
  OBVIOUS
<1>11. c \in Seq(Entries) /\ Len(c) = k /\ \A z \in 1..k : c[z] = b[d + z]
  <2>1. d \in 0..Len(b)
    BY <1>2
  <2>2. /\ SubSeq(b, d + 1, Len(b)) \in Ordered
        /\ Len(SubSeq(b, d + 1, Len(b))) = Len(b) - d
        /\ \A z \in 1..(Len(b) - d) : SubSeq(b, d + 1, Len(b))[z] = b[d + z]
    BY <2>1, EndOrdered
  <2>3. Len(b) - d = k
    BY <1>2, <1>9
  <2>4. QED
    BY <1>2, <1>10, <2>2, <2>3 DEF Ordered
<1>12. ASSUME NEW z \in 1..k
       PROVE  c[z] = Line(r, m + z - 1)
  <2>1. PICK w \in 0..(q - t - 1) : w = k - z /\ w < ViewCap /\ l - w = d + z /\ q - 1 - w = m + z - 1
    <3>1. k - z \in 0..(q - t - 1) /\ k - z < ViewCap /\ l - (k - z) = d + z /\ q - 1 - (k - z) = m + z - 1
      BY <1>2, <1>9, ViewCapAssumption
    <3>2. QED
      BY <3>1
  <2>2. b[l - w] = Line(r, q - 1 - w)
    BY <1>2, <2>1 DEF Ends
  <2>3. c[z] = b[d + z]
    BY <1>11
  <2>4. QED
    BY <2>1, <2>2, <2>3
<1>13. IsRun(c, r, m, k)
  BY <1>11, <1>12 DEF IsRun
<1>14. QED
  BY <1>2, <1>3, <1>10, <1>13

\* The lines of a buffer beyond a line before those it ends with.
LEMMA BeyondEnds ==
    ASSUME NEW b \in Ordered, NEW r, NEW t \in Nat, NEW q \in Nat, Ends(b, r, t, q),
           NEW x \in Int, x < t
    PROVE  Ends(Beyond(b, x), r, t, q) /\ Beyond(b, x) \in Seq(Entries)
<1>1. b \in Seq(Entries) /\ Rises(b)
  BY DEF Ordered
<1>2. PICK l \in Nat : l = Len(b)
  BY <1>1
<1>3. PICK d \in 0..l : /\ \A i \in 1..l : b[i].index > x <=> i > d
                        /\ Beyond(b, x) = SubSeq(b, d + 1, l)
  BY <1>1, <1>2, BeyondIsEnd
<1>4. PICK c : c = SubSeq(b, d + 1, l)
  OBVIOUS
<1>5. PICK k \in Nat : k = l - d
  <2>1. l - d \in Nat
    OBVIOUS
  <2>2. QED
    BY <2>1
<1>6. c \in Seq(Entries) /\ Len(c) = k /\ \A z \in 1..k : c[z] = b[d + z]
  <2>1. d \in 0..Len(b)
    BY <1>2
  <2>2. /\ SubSeq(b, d + 1, Len(b)) \in Ordered
        /\ Len(SubSeq(b, d + 1, Len(b))) = Len(b) - d
        /\ \A z \in 1..(Len(b) - d) : SubSeq(b, d + 1, Len(b))[z] = b[d + z]
    BY <2>1, EndOrdered
  <2>3. QED
    BY <1>2, <1>4, <1>5, <2>2 DEF Ordered
<1>7. ASSUME NEW y \in 0..(q - t - 1), y < ViewCap
      PROVE  y < k /\ c[k - y] = Line(r, q - 1 - y)
  <2>1. y < l /\ b[l - y] = Line(r, q - 1 - y)
    BY <1>2, <1>7 DEF Ends
  <2>2. PICK i \in 1..l : i = l - y
    <3>1. l - y \in 1..l
      BY <2>1
    <3>2. QED
      BY <3>1
  <2>3. b[i].index = q - 1 - y /\ q - 1 - y > x
    BY <2>1, <2>2 DEF Line
  <2>4. i > d
    BY <1>3, <2>3
  <2>5. PICK z \in 1..k : z = k - y /\ d + z = i /\ y < k
    <3>1. k - y \in 1..k /\ d + (k - y) = i /\ y < k
      BY <1>5, <2>2, <2>4
    <3>2. QED
      BY <3>1
  <2>6. c[z] = b[d + z]
    BY <1>6
  <2>7. QED
    BY <2>1, <2>2, <2>5, <2>6
<1>8. t < q
  BY DEF Ends
<1>9. Ends(c, r, t, q)
  BY <1>6, <1>7, <1>8 DEF Ends
<1>10. QED
  BY <1>3, <1>4, <1>6, <1>9

\* The backfill and the live lines beyond it: nothing between is missing.
LEMMA MergeGrows ==
    ASSUME NEW fill, NEW r, NEW o, NEW m, RingIs(fill, r, o, m), NEW b \in Ordered,
           NEW s \in Nat, NEW q \in Nat, Ends(b, r, s, q), m < q, NEW n \in Nat, q <= n,
           Covers(s, n) \/ s <= m
    PROVE  \E t \in Nat : Ends(fill \o Beyond(b, m - 1), r, t, q) /\ Covers(t, n)
<1>1. /\ o \in Nat /\ m \in Nat /\ o < m /\ IsRun(fill, r, o, m - o)
      /\ ViewCap \in Nat /\ s < q /\ fill \in Seq(Entries)
  BY ViewCapAssumption DEF RingIs, Ends, IsRun
<1>2. PICK t \in Nat : t = IF q - s > ViewCap THEN q - ViewCap ELSE s
  <2>1. (IF q - s > ViewCap THEN q - ViewCap ELSE s) \in Nat
    BY <1>1
  <2>2. QED
    BY <2>1
<1>3. t >= s /\ t < q /\ q - t <= ViewCap /\ (Covers(t, n) \/ t <= m)
  BY <1>1, <1>2, ViewCapAssumption DEF Covers
<1>4. Ends(b, r, t, q)
  <2>1. \A x \in 0..(q - t - 1) : x \in 0..(q - s - 1)
    BY <1>1, <1>3
  <2>2. QED
    BY <1>3, <2>1 DEF Ends
<1>5. PICK x \in Int : x = m - 1 /\ x < m
  BY <1>1
<1>6. CASE t <= m
  <2>1. PICK k \in Nat, w \in Nat : k = m - o /\ w = q - m /\ m = o + k /\ k + w = q - o
    <3>1. m - o \in Nat /\ q - m \in Nat /\ m = o + (m - o) /\ (m - o) + (q - m) = q - o
      BY <1>1
    <3>2. QED
      BY <3>1
  <2>2. IsRun(Beyond(b, m - 1), r, m, q - m)
    BY <1>1, <1>3, <1>4, <1>6, BeyondRun
  <2>3. IsRun(fill \o Beyond(b, m - 1), r, o, k + w)
    BY <1>1, <2>1, <2>2, RunConcat
  <2>4. Ends(fill \o Beyond(b, m - 1), r, o, q)
    BY <1>1, <2>1, <2>3, EndsRun
  <2>5. Covers(o, n)
    BY <1>1, RingCovers
  <2>6. QED
    BY <1>1, <2>4, <2>5
<1>7. CASE ~(t <= m)
  <2>1. x < t
    BY <1>1, <1>5, <1>7
  <2>2. Ends(Beyond(b, x), r, t, q) /\ Beyond(b, x) \in Seq(Entries)
    BY <1>4, <2>1, BeyondEnds
  <2>3. Ends(fill \o Beyond(b, x), r, t, q)
    BY <1>1, <2>2, EndsConcat
  <2>4. QED
    BY <1>3, <1>5, <1>7, <2>3
<1>8. QED
  BY <1>6, <1>7

\* The live lines that are kept instead of the backfill have what it lacks.
LEMMA MergeKeeps ==
    ASSUME NEW fill, NEW r, NEW o, NEW m, RingIs(fill, r, o, m), NEW b \in Ordered, Len(b) <= ViewCap,
           NEW s \in Nat, NEW q \in Nat, Ends(b, r, s, q), q <= m, NEW n \in Nat, m <= n, Len(b) = q - s,
           ~({b[i].index : i \in DOMAIN b} \subseteq {fill[i].index : i \in DOMAIN fill})
    PROVE  Covers(s, n)
<1>1. /\ o \in Nat /\ m \in Nat /\ o < m /\ IsRun(fill, r, o, m - o) /\ (o = 0 \/ m - o = RingCap)
      /\ ViewCap \in Nat /\ RingCap \in Nat /\ ViewCap <= RingCap /\ s < q /\ b \in Seq(Entries)
  BY ViewCapAssumption, StoreAssumption DEF RingIs, Ends, Ordered
<1>2. PICK l \in Nat, k \in Nat : l = q - s /\ k = m - o
  <2>1. q - s \in Nat /\ m - o \in Nat
    BY <1>1
  <2>2. QED
    BY <2>1
<1>3. IsRun(b, r, s, l)
  <2>1. l <= q - s /\ Len(b) = l
    BY <1>2
  <2>2. IsRun(b, r, q - l, l)
    BY <1>1, <2>1, EndsWhole
  <2>3. q - l = s
    BY <1>1, <1>2
  <2>4. QED
    BY <2>2, <2>3
<1>4. PICK i \in 1..l : b[i].index = s + i - 1 /\ \A j \in DOMAIN fill : fill[j].index # b[i].index
  <2>1. PICK i \in DOMAIN b : \A j \in DOMAIN fill : fill[j].index # b[i].index
    OBVIOUS
  <2>2. i \in 1..l
    BY <1>1, <1>2
  <2>3. b[i] = Line(r, s + i - 1)
    BY <1>3, <2>2 DEF IsRun
  <2>4. b[i].index = s + i - 1
    BY <2>3 DEF Line
  <2>5. QED
    BY <2>1, <2>2, <2>4
<1>5. ~(s >= o)
  <2>1. SUFFICES ASSUME s >= o PROVE FALSE
    OBVIOUS
  <2>2. PICK j \in 1..k : j = s + i - o /\ o + j - 1 = s + i - 1
    <3>1. s + i - o \in 1..k /\ o + (s + i - o) - 1 = s + i - 1
      BY <1>1, <1>2, <1>4, <2>1
    <3>2. QED
      BY <3>1
  <2>3. IsRun(fill, r, o, k) /\ DOMAIN fill = 1..k
    BY <1>1, <1>2 DEF IsRun
  <2>4. fill[j] = Line(r, o + j - 1)
    BY <2>3 DEF IsRun
  <2>5. fill[j].index = o + j - 1
    BY <2>4 DEF Line
  <2>6. QED
    BY <1>4, <2>2, <2>3, <2>5
<1>6. QED
  BY <1>1, <1>5 DEF Covers

\* Hydration of a buffer that has no line yet.
LEMMA MergeFirst ==
    ASSUME NEW fill \in Ordered, NEW r, NEW o, NEW m, RingIs(fill, r, o, m)
    PROVE  o \in Nat /\ m \in Nat /\ Ends(Capped(MergeLogRuns(fill, <<>>)), r, o, m)
<1>1. o \in Nat /\ m \in Nat /\ o < m /\ IsRun(fill, r, o, m - o)
  BY DEF RingIs
<1>2. PICK k \in Nat : k = m - o /\ k > 0
  <2>1. m - o \in Nat /\ m - o > 0
    BY <1>1
  <2>2. QED
    BY <2>1
<1>3. fill # <<>>
  BY <1>1, <1>2, RunLast
<1>4. MergeLogRuns(fill, <<>>) = fill
  BY <1>3 DEF MergeLogRuns
<1>5. Ends(fill, r, o, m)
  BY <1>1, EndsRun
<1>6. QED
  BY <1>1, <1>4, <1>5, EndsCapped

\* Hydration of a buffer that has lines of the same run: it then ends with as
\* many lines as there is room for.
LEMMA MergeEnds ==
    ASSUME NEW fill \in Ordered, NEW r, NEW o, NEW m, RingIs(fill, r, o, m),
           NEW b \in Ordered, Len(b) <= ViewCap, NEW s \in Nat, NEW q \in Nat, Ends(b, r, s, q),
           NEW n \in Nat, m <= n, q <= n, Covers(s, n) \/ (Len(b) = q - s /\ s <= m)
    PROVE  \E t, x \in Nat : /\ q <= x /\ x <= n /\ Covers(t, n)
                             /\ Ends(Capped(MergeLogRuns(fill, b)), r, t, x)
<1>1. o \in Nat /\ m \in Nat /\ o < m /\ IsRun(fill, r, o, m - o) /\ Covers(o, n)
  BY RingCovers DEF RingIs
<1>2. PICK k \in Nat : k = m - o /\ k > 0 /\ o + k - 1 = m - 1
  <2>1. m - o \in Nat /\ m - o > 0 /\ o + (m - o) - 1 = m - 1
    BY <1>1
  <2>2. QED
    BY <2>1
<1>3. fill # <<>> /\ LastIndex(fill) = m - 1
  BY <1>1, <1>2, RunLast
<1>4. b # <<>> /\ LastIndex(b) = q - 1
  BY EndsLast
<1>5. Ends(Capped(fill), r, o, m)
  BY <1>1, EndsRun, EndsCapped
<1>6. CASE m < q
  <2>1. MergeLogRuns(fill, b) = fill \o Beyond(b, m - 1)
    <3>1. LastIndex(b) > LastIndex(fill)
      BY <1>1, <1>3, <1>4, <1>6
    <3>2. QED
      BY <1>3, <1>4, <3>1 DEF MergeLogRuns
  <2>2. PICK t \in Nat : Ends(fill \o Beyond(b, m - 1), r, t, q) /\ Covers(t, n)
    BY <1>6, MergeGrows
  <2>3. MergeLogRuns(fill, b) \in Ordered
    BY MergeOrdered
  <2>4. Ends(Capped(MergeLogRuns(fill, b)), r, t, q)
    BY <2>1, <2>2, <2>3, EndsCapped
  <2>5. QED
    BY <2>2, <2>4
<1>7. CASE ~(m < q)
  <2>1. ~(LastIndex(b) > LastIndex(fill))
    BY <1>1, <1>3, <1>4, <1>7
  <2>2. CASE {b[i].index : i \in DOMAIN b} \subseteq {fill[i].index : i \in DOMAIN fill}
    <3>1. MergeLogRuns(fill, b) = fill
      BY <1>3, <1>4, <2>1, <2>2 DEF MergeLogRuns
    <3>2. q <= m
      BY <1>1, <1>7
    <3>3. QED
      BY <1>1, <1>5, <3>1, <3>2
  <2>3. CASE ~({b[i].index : i \in DOMAIN b} \subseteq {fill[i].index : i \in DOMAIN fill})
    <3>1. MergeLogRuns(fill, b) = b
      BY <1>3, <1>4, <2>1, <2>3 DEF MergeLogRuns
    <3>2. Ends(Capped(b), r, s, q)
      BY EndsCapped
    <3>3. Covers(s, n)
      <4>1. SUFFICES ASSUME Len(b) = q - s PROVE Covers(s, n)
        OBVIOUS
      <4>2. q <= m
        BY <1>1, <1>7
      <4>3. QED
        BY <2>3, <4>1, <4>2, MergeKeeps
    <3>4. QED
      BY <3>1, <3>2, <3>3
  <2>4. QED
    BY <2>2, <2>3
<1>8. QED
  BY <1>6, <1>7

-----------------------------------------------------------------------------
(* What is between the ring and the buffer. *)

\* The lines the current run has had.
Lines == LastIndex(ring) + 1

Hydrated == pc = "ready" /\ "log" \in got

\* The backfill waits to be merged, and how far it goes.
Filled == pc = "answered" /\ "log" \in got
FillsRun == Filled /\ backfill[Len(backfill)].run = run
FillEnd == LastIndex(backfill) + 1

\* The pump has emitted the lines before p.
Said(p) == pump.last \in {-1, p - 1} /\ (pump.woken \/ p = Lines)

\* The buffer waits for line f: there is no line in it, and the backfill will
\* bring those before f; or it ends with the lines before f, of which it has
\* all there is room for or at least no older one. Once hydrated it may be
\* ahead, and it has lost a line only if one came after it.
Waits(f) == buffered = <<>> /\ ~Hydrated /\ (Filled => FillsRun /\ f <= FillEnd)
Whole(s, q) == Len(buffered) = q - s /\ (Hydrated => receded) /\ (FillsRun => s <= FillEnd)
Has(f, s, q) ==
    /\ f <= q /\ q <= Lines /\ (q = f \/ Hydrated)
    /\ Ends(buffered, run, s, q) /\ (Covers(s, Lines) \/ Whole(s, q))
InStep(f) == Waits(f) \/ \E s, q \in Nat : Has(f, s, q)

\* The channel ends with the lines from f to those the pump has emitted, and
\* they are as many as there is room for, or the buffer waits for them.
OnTheWay(p, j, f) ==
    /\ f <= p /\ p <= Lines /\ Said(p) /\ Stretch(channel, run, j, f, p)
    /\ Covers(f, Lines) \/ (j = 0 /\ InStep(f))

TailInv ==
    /\ run > 0 => \E o : RingIs(ring, run, o, Lines)
    /\ listeners["log"] = 0 => /\ buffered = <<>>
                               /\ \A i \in 1..Len(channel) : channel[i].kind = "status"
    /\ pc \in {"starting", "subscribed", "asking"} => "log" \notin got
    /\ Filled => \E r \in 1..run : \E o, m : RingIs(backfill, r, o, m) /\ (r = run => m <= Lines)
    /\ pump.at = "alive" /\ ~mixed =>
         \E p, f \in Nat : \E j \in 0..Len(channel) : OnTheWay(p, j, f)

LEMMA CountTyped == \A s \in Ordered : LastIndex(s) + 1 \in Nat
<1>1. TAKE s \in Ordered
<1>2. s \in Seq(Entries)
  BY DEF Ordered
<1>3. LastIndex(s) \in Int /\ -1 <= LastIndex(s)
  BY <1>2, LastIndexTyped
<1>4. QED
  BY <1>3

LEMMA TailInit == Init => TailInv
<1> SUFFICES ASSUME Init PROVE TailInv
  OBVIOUS
<1>1. Len(channel) = 0 /\ buffered = <<>>
  BY DEF Init
<1>2. \A i \in 1..Len(channel) : channel[i].kind = "status"
  BY <1>1
<1>3. run = 0 /\ "log" \notin got /\ pump.at = "gone"
  BY DEF Init
<1>4. QED
  BY <1>1, <1>2, <1>3 DEF TailInv, Filled

\* A stretch of an empty channel is empty.
LEMMA StretchDone ==
    ASSUME NEW r, NEW f, NEW p, Stretch(<<>>, r, 0, f, p)
    PROVE  f = p
<1>1. PICK h : IsStretch(h, <<>>, r, 0, f, p)
  BY DEF Stretch
<1>2. h[0] = f /\ h[Len(<<>>)] = p /\ Len(<<>>) = 0
  BY <1>1 DEF IsStretch
<1>3. QED
  BY <1>2

\* Nothing on its way: the buffer is as it is promised to be.
LEMMA TailAtRest ==
    ASSUME TypeOK, LinesInv, TailInv
    PROVE  BufferIsTail
<1>1. SUFFICES ASSUME Rest, "log" \in got, pump.at = "alive", ~mixed
               PROVE  /\ \E k \in DOMAIN ring : buffered = SubSeq(ring, k, Len(ring))
                      /\ ~receded => buffered = Capped(ring)
  BY DEF BufferIsTail
<1>2. /\ run > 0 /\ channel = <<>> /\ Len(channel) = 0 /\ ~pump.woken /\ Hydrated
      /\ ring \in Seq(Entries) /\ ring \in Ordered /\ buffered \in Ordered /\ Len(buffered) <= ViewCap
  BY <1>1 DEF Rest, LinesInv, TypeOK, Hydrated
<1>3. PICK n \in Nat : n = Lines
  BY <1>2, CountTyped DEF Lines
<1>4. PICK o : RingIs(ring, run, o, n)
  BY <1>2, <1>3 DEF TailInv
<1>5. PICK p \in Nat, f \in Nat, j \in 0..Len(channel) : OnTheWay(p, j, f)
  BY <1>1 DEF TailInv
<1>6. j = 0 /\ p = n /\ f = p
  <2>1. j = 0
    BY <1>2, <1>5
  <2>2. p = n
    BY <1>2, <1>3, <1>5 DEF OnTheWay, Said
  <2>3. Stretch(<<>>, run, 0, f, p)
    BY <1>2, <1>5, <2>1 DEF OnTheWay
  <2>4. f = p
    BY <2>3, StretchDone
  <2>5. QED
    BY <2>1, <2>2, <2>4
<1>7. n > 0
  BY <1>4 DEF RingIs
<1>8. ~Covers(n, n)
  BY <1>7, ViewCapAssumption DEF Covers
<1>9. InStep(n) /\ ~Waits(n)
  BY <1>2, <1>3, <1>5, <1>6, <1>8 DEF OnTheWay, Waits
<1>10. PICK s \in Nat, q \in Nat : Has(n, s, q)
  BY <1>9 DEF InStep
<1>11. q = n /\ Ends(buffered, run, s, n) /\ (Covers(s, n) \/ Whole(s, n))
  <2>1. n <= q /\ q <= n
    BY <1>3, <1>10 DEF Has
  <2>2. q = n
    BY <2>1
  <2>3. QED
    BY <1>3, <1>10, <2>2 DEF Has
<1>12. ring # <<>>
  <2>1. PICK k \in Nat : k = n - o /\ k > 0
    <3>1. n - o \in Nat /\ n - o > 0
      BY <1>4 DEF RingIs
    <3>2. QED
      BY <3>1
  <2>2. o \in Nat /\ IsRun(ring, run, o, k)
    BY <1>4, <2>1 DEF RingIs
  <2>3. QED
    BY <2>1, <2>2, RunLast
<1>13. CASE Covers(s, n)
  <2>1. buffered = Capped(ring)
    BY <1>2, <1>4, <1>11, <1>13, EndsAll
  <2>2. QED
    BY <1>2, <1>12, <2>1, CappedPlace
<1>14. CASE Whole(s, n)
  <2>1. Len(buffered) = n - s /\ receded
    BY <1>2, <1>14 DEF Whole
  <2>2. buffered \in Ordered /\ Len(buffered) <= ViewCap
    BY <1>2
  <2>3. Ends(buffered, run, s, n)
    BY <1>11
  <2>4. \E k \in DOMAIN ring : buffered = SubSeq(ring, k, Len(ring))
    BY <1>4, <2>1, <2>2, <2>3, EndsSome
  <2>5. QED
    BY <2>1, <2>4
<1>15. QED
  BY <1>11, <1>13, <1>14

\* The buffer is as it was, and there may be more lines.
LEMMA StepKept ==
    ASSUME NEW f \in Nat, InStep(f), f <= Lines, Lines \in Nat, Lines' \in Nat, Lines <= Lines',
           buffered' = buffered, run' = run, receded' = receded, Hydrated' <=> Hydrated,
           Filled' => \/ Filled /\ backfill' = backfill
                      \/ FillsRun' /\ Lines <= FillEnd' /\ FillEnd' \in Nat
    PROVE  InStep(f)'
<1>0. PICK n \in Nat, m \in Nat : n = Lines /\ m = Lines' /\ n <= m
  OBVIOUS
<1>1. CASE Waits(f)
  <2>1. ASSUME Filled' PROVE FillsRun' /\ f <= FillEnd'
    <3>1. CASE Filled /\ backfill' = backfill
      BY <1>1, <2>1, <3>1 DEF Waits, FillsRun, FillEnd
    <3>2. CASE FillsRun' /\ Lines <= FillEnd' /\ FillEnd' \in Nat
      BY <3>2
    <3>3. QED
      BY <2>1, <3>1, <3>2
  <2>2. Waits(f)'
    BY <1>1, <2>1 DEF Waits
  <2>3. QED
    BY <2>2 DEF InStep
<1>2. CASE \E s, q \in Nat : Has(f, s, q)
  <2>1. PICK s \in Nat, q \in Nat : Has(f, s, q)
    BY <1>2
  <2>2. f <= q /\ q <= n /\ (q = f \/ Hydrated) /\ Ends(buffered, run, s, q)
        /\ (Covers(s, n) \/ Whole(s, q)) /\ s < q
    BY <1>0, <2>1 DEF Has, Ends
  <2>3. Covers(s, n) => Covers(s, m)
    BY <1>0, CoversMore
  <2>4. ASSUME Whole(s, q) PROVE Whole(s, q)'
    <3>1. ASSUME FillsRun' PROVE s <= FillEnd'
      <4>1. Filled'
        BY <3>1 DEF FillsRun
      <4>2. CASE Filled /\ backfill' = backfill
        BY <2>4, <3>1, <4>2 DEF Whole, FillsRun, FillEnd
      <4>3. CASE FillsRun' /\ Lines <= FillEnd' /\ FillEnd' \in Nat
        BY <1>0, <2>2, <4>3
      <4>4. QED
        BY <4>1, <4>2, <4>3
    <3>2. QED
      BY <2>4, <3>1 DEF Whole
  <2>5. q <= m
    BY <1>0, <2>2
  <2>6. Has(f, s, q)'
    BY <1>0, <2>2, <2>3, <2>4, <2>5 DEF Has
  <2>7. QED
    BY <2>6 DEF InStep
<1>3. QED
  BY <1>1, <1>2 DEF InStep

\* The same of what is on its way.
LEMMA TraceKept ==
    ASSUME NEW p \in Nat, NEW f \in Nat, NEW j \in Nat, OnTheWay(p, j, f), Said(p)',
           Lines \in Nat, Lines' \in Nat, Lines <= Lines', channel' = channel,
           buffered' = buffered, run' = run, receded' = receded, Hydrated' <=> Hydrated,
           Filled' => \/ Filled /\ backfill' = backfill
                      \/ FillsRun' /\ Lines <= FillEnd' /\ FillEnd' \in Nat
    PROVE  OnTheWay(p, j, f)'
<1>1. PICK n \in Nat, m \in Nat : n = Lines /\ m = Lines' /\ n <= m
  OBVIOUS
<1>2. /\ f <= p /\ p <= n /\ Stretch(channel, run, j, f, p)
      /\ Covers(f, n) \/ (j = 0 /\ InStep(f))
  BY <1>1 DEF OnTheWay
<1>3. p <= m /\ f <= n
  BY <1>1, <1>2
<1>4. Covers(f, n) => Covers(f, m)
  BY <1>1, CoversMore
<1>5. InStep(f) => InStep(f)'
  BY <1>1, <1>3, StepKept
<1>6. Stretch(channel, run, j, f, p)'
  BY <1>2
<1>7. QED
  BY <1>1, <1>2, <1>3, <1>4, <1>5, <1>6 DEF OnTheWay

\* The last line of a ring.
LEMMA RingEnd ==
    ASSUME NEW g, NEW r, NEW o, NEW n, RingIs(g, r, o, n)
    PROVE  g # <<>> /\ LastIndex(g) + 1 = n /\ n \in Nat /\ n > 0 /\ g[Len(g)].run = r
<1>1. o \in Nat /\ n \in Nat /\ o < n /\ IsRun(g, r, o, n - o)
  BY DEF RingIs
<1>2. PICK k \in Nat : k = n - o /\ k > 0 /\ (o + k - 1) + 1 = n
  <2>1. n - o \in Nat /\ n - o > 0 /\ (o + (n - o) - 1) + 1 = n
    BY <1>1
  <2>2. QED
    BY <2>1
<1>3. g # <<>> /\ LastIndex(g) = o + k - 1 /\ g[Len(g)].run = r
  BY <1>1, <1>2, RunLast
<1>4. QED
  BY <1>1, <1>2, <1>3

\* A line is pushed.
LEMMA RingGrows ==
    ASSUME TypeOK, LinesInv, TailInv, run > 0, Pushes, run' = run
    PROVE  /\ Lines \in Nat /\ Lines' \in Nat /\ Lines' = Lines + 1
           /\ \E o : RingIs(ring', run', o, Lines')
<1>1. PICK o : RingIs(ring, run, o, Lines)
  BY DEF TailInv
<1>2. PICK n \in Nat : n = Lines
  BY <1>1, RingEnd
<1>3. run \in 1..MaxRuns
  BY StoreAssumption DEF TypeOK
<1>4. n \in 0..(MaxLines - 1)
  <2>1. n = LastIndex(ring) + 1 /\ LastIndex(ring) < pushed /\ pushed < MaxLines /\ pushed \in 0..MaxLines
    BY <1>2 DEF Lines, LinesInv, Pushes, TypeOK
  <2>2. MaxLines \in Nat /\ LastIndex(ring) \in Int
    BY StoreAssumption, LastIndexTyped DEF TypeOK
  <2>3. QED
    BY <2>1, <2>2
<1>5. Line(run, n) \in Entries
  BY <1>3, <1>4 DEF Line, Entries
<1>6. ring' = RingWith(ring, Line(run, n))
  BY <1>2 DEF Pushes, Lines, Line
<1>7. PICK x : RingIs(ring', run, x, n + 1)
  BY <1>1, <1>2, <1>5, <1>6, RingPush
<1>8. Lines' = n + 1
  BY <1>7, RingEnd DEF Lines
<1>9. QED
  BY <1>2, <1>7, <1>8

LEMMA TailRestart ==
    ASSUME TypeOK, LinesInv, TailInv, Restarts
    PROVE  TailInv'
<1>1. PICK r \in Nat : r = run + 1 /\ r \in 1..MaxRuns
  <2>1. run \in 0..MaxRuns /\ run < MaxRuns /\ MaxRuns \in Nat
    BY StoreAssumption DEF TypeOK, Restarts
  <2>2. run + 1 \in Nat /\ run + 1 \in 1..MaxRuns
    BY <2>1
  <2>3. QED
    BY <2>2
<1>2. run' = r /\ ring' = <<Line(r, 0)>>
  BY <1>1 DEF Restarts, Line
<1>3. RingIs(ring', r, 0, 1)
  <2>1. Line(r, 0) \in Entries
    BY <1>1, StoreAssumption DEF Line, Entries
  <2>2. IsRun(<<Line(r, 0)>>, r, 0, 1)
    <3>1. PICK s : s = <<Line(r, 0)>>
      OBVIOUS
    <3>2. s \in Seq(Entries) /\ Len(s) = 1 /\ s[1] = Line(r, 0)
      BY <2>1, <3>1
    <3>3. \A i \in 1..1 : s[i] = Line(r, 0 + i - 1)
      <4>1. TAKE i \in 1..1
      <4>2. i = 1 /\ 0 + i - 1 = 0
        OBVIOUS
      <4>3. QED
        BY <3>2, <4>2
    <3>4. QED
      BY <3>1, <3>2, <3>3 DEF IsRun
  <2>3. 1 - 0 = 1 /\ 1 <= RingCap
    BY StoreAssumption
  <2>4. QED
    BY <1>2, <2>2, <2>3 DEF RingIs
<1>4. Lines' = 1
  BY <1>3, RingEnd DEF Lines
<1>5. UNCHANGED <<channel, listeners, buffered, pc, got, backfill>>
  BY DEF Restarts, frontend
<1>6. Filled' => \E x \in 1..r : \E o, m : RingIs(backfill, x, o, m) /\ (x = r => m <= Lines')
  <2>1. SUFFICES ASSUME Filled
                 PROVE  \E x \in 1..r : \E o, m : RingIs(backfill, x, o, m) /\ (x = r => m <= Lines')
    BY <1>5 DEF Filled
  <2>2. PICK x \in 1..run : \E o, m : RingIs(backfill, x, o, m)
    BY <2>1 DEF TailInv
  <2>3. x \in 1..r /\ x # r
    BY <1>1 DEF TypeOK
  <2>4. QED
    BY <2>2, <2>3
<1>7. channel \in Seq(Events) /\ Len(channel) \in Nat
  BY DEF LinesInv
<1>8. OnTheWay(0, Len(channel), 0)'
  <2>1. Said(0)'
    <3>1. pump'.last = -1 /\ pump'.woken = TRUE /\ 0 - 1 = -1
      BY DEF Restarts, Unknown
    <3>2. QED
      BY <3>1 DEF Said
  <2>2. Stretch(channel, r, Len(channel), 0, 0)
    BY <1>7, StretchEmpty
  <2>3. Covers(0, 1)
    BY DEF Covers
  <2>4. 0 <= 0 /\ 0 <= 1
    OBVIOUS
  <2>5. QED
    BY <1>2, <1>4, <1>5, <2>1, <2>2, <2>3, <2>4 DEF OnTheWay
<1>9. \E p, f \in Nat : \E j \in 0..Len(channel') : OnTheWay(p, j, f)'
  <2>1. Len(channel) \in 0..Len(channel')
    BY <1>5, <1>7
  <2>2. QED
    BY <1>8, <2>1
<1>10. QED
  BY <1>2, <1>3, <1>4, <1>5, <1>6, <1>9 DEF TailInv

\* Nothing is on its way that this run does not know of.
LEMMA TailOldPump ==
    ASSUME TypeOK, LinesInv, TailInv, OldPumpEmits \/ OldPumpAborted
    PROVE  TailInv'
<1>1. UNCHANGED <<ring, run, listeners, buffered, pc, got, backfill, pump, receded>>
  BY DEF OldPumpEmits, OldPumpAborted, frontend, history
<1>2. /\ UNCHANGED <<Lines, Filled, FillsRun, FillEnd, Hydrated>>
      /\ \A p : Said(p)' <=> Said(p)
  BY <1>1 DEF Lines, Filled, FillsRun, FillEnd, Hydrated, Said
<1>3. CASE OldPumpEmits
  <2>1. mixed' = TRUE
    BY <1>3 DEF OldPumpEmits
  <2>2. listeners["log"] = 0 => channel' = channel
    <3>1. ASSUME listeners["log"] = 0 PROVE channel' = channel
      <4>1. channel' = channel \o <<>>
        BY <1>3, <3>1 DEF OldPumpEmits, Emits, Emitted
      <4>2. channel \in Seq(Events)
        BY DEF LinesInv
      <4>3. QED
        BY <4>1, <4>2, ConcatEmptySeq
    <3>2. QED
      BY <3>1
  <2>3. QED
    BY <1>1, <1>2, <2>1, <2>2 DEF TailInv
<1>4. CASE OldPumpAborted
  <2>1. UNCHANGED <<channel, mixed>>
    BY <1>4 DEF OldPumpAborted, history
  <2>2. \A p, j, f : OnTheWay(p, j, f)' <=> OnTheWay(p, j, f)
    BY <1>1, <1>2, <2>1 DEF OnTheWay, InStep, Waits, Has, Whole
  <2>3. QED
    BY <1>1, <1>2, <2>1, <2>2 DEF TailInv
<1>5. QED
  BY <1>3, <1>4

\* A status that is emitted reaches the webview or does not.
LEMMA EmittedStatus ==
    ASSUME NEW r \in 0..MaxRevs, Emits("status", StatusEvent(r))
    PROVE  \E es \in Seq(Events) : /\ channel' = channel \o es
                                   /\ \A i \in 1..Len(es) : es[i].kind = "status"
<1>1. PICK es : es = Emitted("status", StatusEvent(r))
  OBVIOUS
<1>2. channel' = channel \o es
  BY <1>1 DEF Emits
<1>3. CASE listeners["status"] > 0
  <2>1. es = StatusEvent(r)
    BY <1>1, <1>3 DEF Emitted
  <2>2. es \in Seq(Events) /\ Len(es) = 1 /\ es[1] = [kind |-> "status", rev |-> r]
    BY <2>1, StatusTyped
  <2>3. \A i \in 1..Len(es) : es[i].kind = "status"
    <3>1. TAKE i \in 1..Len(es)
    <3>2. i = 1
      BY <2>2
    <3>3. QED
      BY <2>2, <3>2
  <2>4. QED
    BY <1>2, <2>2, <2>3
<1>4. CASE ~(listeners["status"] > 0)
  <2>1. es = <<>>
    BY <1>1, <1>4 DEF Emitted
  <2>2. es \in Seq(Events) /\ \A i \in 1..Len(es) : es[i].kind = "status"
    BY <2>1
  <2>3. QED
    BY <1>2, <2>2
<1>5. QED
  BY <1>3, <1>4

\* Statuses after statuses.
LEMMA StatusesOnly ==
    ASSUME channel \in Seq(Events), \A i \in 1..Len(channel) : channel[i].kind = "status",
           NEW r \in 0..MaxRevs, Emits("status", StatusEvent(r))
    PROVE  \A i \in 1..Len(channel') : channel'[i].kind = "status"
<1>1. PICK es \in Seq(Events) : /\ channel' = channel \o es
                                /\ \A i \in 1..Len(es) : es[i].kind = "status"
  BY EmittedStatus
<1>2. PICK l \in Nat, m \in Nat : l = Len(channel) /\ m = Len(es)
  BY <1>1
<1>3. /\ Len(channel') = l + m
      /\ \A i \in 1..(l + m) : channel'[i] = IF i <= l THEN channel[i] ELSE es[i - l]
  BY <1>1, <1>2, ConcatProperties
<1>4. ASSUME NEW i \in 1..(l + m) PROVE channel'[i].kind = "status"
  <2>1. CASE i <= l
    <3>1. i \in 1..Len(channel) /\ channel'[i] = channel[i]
      BY <1>2, <1>3, <2>1
    <3>2. QED
      BY <3>1
  <2>2. CASE ~(i <= l)
    <3>1. PICK x \in 1..m : x = i - l
      <4>1. i - l \in 1..m
        BY <2>2
      <4>2. QED
        BY <4>1
    <3>2. channel'[i] = es[x] /\ x \in 1..Len(es)
      BY <1>2, <1>3, <2>2, <3>1
    <3>3. QED
      BY <1>1, <3>2
  <2>3. QED
    BY <2>1, <2>2
<1>5. QED
  BY <1>3, <1>4

LEMMA TailWork ==
    ASSUME TypeOK, LinesInv, TailInv, Works
    PROVE  TailInv'
<1>1. /\ run > 0 /\ pump.at = "alive" /\ pump'.at = "alive" /\ pump'.woken = TRUE /\ pump'.last = pump.last
      /\ UNCHANGED <<run, channel, listeners, buffered, pc, got, backfill, mixed, receded>>
  BY DEF Works, frontend, history, LinesInv, Pumps
<1>2. /\ Lines \in Nat /\ Lines' \in Nat /\ Lines <= Lines'
      /\ \E o : RingIs(ring', run', o, Lines')
  <2>1. CASE Pushes
    <3>1. /\ Lines \in Nat /\ Lines' \in Nat /\ Lines' = Lines + 1
          /\ \E o : RingIs(ring', run', o, Lines')
      BY <1>1, <2>1, RingGrows
    <3>2. QED
      BY <3>1
  <2>2. CASE ring' = ring
    <3>1. Lines' = Lines /\ Lines \in Nat
      BY <2>2, CountTyped DEF Lines, LinesInv
    <3>2. \E o : RingIs(ring, run, o, Lines)
      BY <1>1 DEF TailInv
    <3>3. Lines <= Lines'
      BY <3>1
    <3>4. QED
      BY <1>1, <2>2, <3>1, <3>2, <3>3
  <2>3. QED
    BY <2>1, <2>2 DEF Works
<1>3. UNCHANGED <<Hydrated, Filled, FillsRun, FillEnd>>
  BY <1>1 DEF Hydrated, Filled, FillsRun, FillEnd
<1>4. ASSUME Filled
      PROVE  \E r \in 1..run : \E o, m : RingIs(backfill, r, o, m) /\ (r = run => m <= Lines')
  <2>1. PICK r \in 1..run : \E o, m : RingIs(backfill, r, o, m) /\ (r = run => m <= Lines)
    BY <1>4 DEF TailInv
  <2>2. PICK o, m : RingIs(backfill, r, o, m) /\ (r = run => m <= Lines)
    BY <2>1
  <2>3. m \in Nat
    BY <2>2 DEF RingIs
  <2>4. r = run => m <= Lines'
    BY <1>2, <2>2, <2>3
  <2>5. QED
    BY <2>2, <2>4
<1>5. ASSUME ~mixed
      PROVE  \E p, f \in Nat : \E j \in 0..Len(channel) : OnTheWay(p, j, f)'
  <2>1. PICK p \in Nat, f \in Nat, j \in 0..Len(channel) : OnTheWay(p, j, f)
    BY <1>1, <1>5 DEF TailInv
  <2>2. Said(p)'
    BY <1>1, <2>1 DEF OnTheWay, Said
  <2>3. j \in Nat
    BY <2>1
  <2>4. Filled' => Filled /\ backfill' = backfill
    BY <1>1, <1>3
  <2>5. OnTheWay(p, j, f)'
    BY <1>1, <1>2, <1>3, <2>1, <2>2, <2>3, <2>4, TraceKept
  <2>6. QED
    BY <2>5
<1>6. QED
  BY <1>1, <1>2, <1>3, <1>4, <1>5 DEF TailInv

\* The pump is gone; the status it leaves behind brings no line.
LEMMA TailStop ==
    ASSUME TypeOK, LinesInv, TailInv, Stops
    PROVE  TailInv'
<1>1. /\ run > 0 /\ pump'.at = "gone" /\ Pushes /\ Emits("status", StatusEvent(rev + 1))
      /\ UNCHANGED <<run, listeners, buffered, pc, got, backfill>> /\ rev + 1 \in 0..MaxRevs
  BY StoreAssumption DEF Stops, frontend, history, LinesInv, TypeOK
<1>2. /\ Lines \in Nat /\ Lines' \in Nat /\ Lines' = Lines + 1
      /\ \E o : RingIs(ring', run', o, Lines')
  BY <1>1, RingGrows
<1>3. Filled' = Filled
  BY <1>1 DEF Filled
<1>4. ASSUME Filled
      PROVE  \E r \in 1..run : \E o, m : RingIs(backfill, r, o, m) /\ (r = run => m <= Lines')
  <2>1. PICK r \in 1..run : \E o, m : RingIs(backfill, r, o, m) /\ (r = run => m <= Lines)
    BY <1>4 DEF TailInv
  <2>2. PICK o, m : RingIs(backfill, r, o, m) /\ (r = run => m <= Lines)
    BY <2>1
  <2>3. m \in Nat
    BY <2>2 DEF RingIs
  <2>4. r = run => m <= Lines'
    BY <1>2, <2>2, <2>3
  <2>5. QED
    BY <2>2, <2>4
<1>5. ASSUME listeners["log"] = 0
      PROVE  buffered = <<>> /\ \A i \in 1..Len(channel') : channel'[i].kind = "status"
  <2>1. /\ buffered = <<>> /\ channel \in Seq(Events)
        /\ \A i \in 1..Len(channel) : channel[i].kind = "status"
    BY <1>5 DEF TailInv, LinesInv
  <2>2. \A i \in 1..Len(channel') : channel'[i].kind = "status"
    BY <1>1, <2>1, StatusesOnly
  <2>3. QED
    BY <2>1, <2>2
<1>6. QED
  BY <1>1, <1>2, <1>3, <1>4, <1>5 DEF TailInv

LEMMA TailTimer ==
    ASSUME TypeOK, LinesInv, TailInv, PumpTimer
    PROVE  TailInv'
<1>1. /\ run > 0 /\ pump.at = "alive" /\ pump'.at = "alive" /\ pump'.woken = pump.woken
      /\ pump'.last = pump.last /\ Emits("status", StatusEvent(rev)) /\ rev \in 0..MaxRevs
      /\ UNCHANGED <<ring, run, listeners, buffered, pc, got, backfill, mixed, receded>>
  BY DEF PumpTimer, frontend, history, LinesInv, Pumps, TypeOK
<1>2. UNCHANGED <<Lines, Hydrated, Filled, FillsRun, FillEnd>>
  BY <1>1 DEF Lines, Hydrated, Filled, FillsRun, FillEnd
<1>3. channel \in Seq(Events) /\ Lines \in Nat
  BY CountTyped DEF LinesInv, Lines
<1>4. ASSUME listeners["log"] = 0
      PROVE  \A i \in 1..Len(channel') : channel'[i].kind = "status"
  <2>1. \A i \in 1..Len(channel) : channel[i].kind = "status"
    BY <1>4 DEF TailInv
  <2>2. QED
    BY <1>1, <1>3, <2>1, StatusesOnly
<1>5. ASSUME ~mixed
      PROVE  \E p, f \in Nat : \E j \in 0..Len(channel') : OnTheWay(p, j, f)'
  <2>1. PICK p \in Nat, f \in Nat, j \in 0..Len(channel) : OnTheWay(p, j, f)
    BY <1>1, <1>5 DEF TailInv
  <2>2. Said(p)'
    BY <1>1, <1>2, <2>1 DEF OnTheWay, Said
  <2>3. PICK es \in Seq(Events) : /\ channel' = channel \o es
                                  /\ \A i \in 1..Len(es) : es[i].kind = "status"
    BY <1>1, EmittedStatus
  <2>4. Stretch(es, run, 0, p, p)
    BY <2>3, StretchSilent
  <2>5. Stretch(channel, run, j, f, p)
    BY <2>1 DEF OnTheWay
  <2>6. Stretch(channel', run, j, f, p) /\ Len(channel) <= Len(channel') /\ channel' \in Seq(Events)
    <3>1. p <= p
      OBVIOUS
    <3>2. /\ channel \o es \in Seq(Events) /\ Stretch(channel \o es, run, j, f, p)
          /\ Len(channel) <= Len(channel \o es)
      BY <1>3, <2>4, <2>5, <3>1, StretchOn
    <3>3. QED
      BY <2>3, <3>2
  <2>7. j \in 0..Len(channel')
    BY <1>3, <2>6
  <2>8. InStep(f)' <=> InStep(f)
    BY <1>1, <1>2 DEF InStep, Waits, Has, Whole
  <2>9. OnTheWay(p, j, f)'
    BY <1>1, <1>2, <2>1, <2>2, <2>6, <2>8 DEF OnTheWay
  <2>10. QED
    BY <2>7, <2>9
<1>6. QED
  BY <1>1, <1>2, <1>4, <1>5 DEF TailInv

\* The pump emits the lines since the last one it has emitted.
LEMMA TailWake ==
    ASSUME TypeOK, LinesInv, TailInv, PumpWakes
    PROVE  TailInv'
<1>1. /\ run > 0 /\ pump.at = "alive" /\ pump'.at = "alive" /\ pump'.woken = FALSE
      /\ pump'.last = LastIndex(Since(pump.last)) /\ Emits("log", LogEvents(Since(pump.last)))
      /\ UNCHANGED <<ring, run, listeners, buffered, pc, got, backfill, mixed, receded>>
  BY DEF PumpWakes, frontend, history, LinesInv, Pumps
<1>2. UNCHANGED <<Lines, Hydrated, Filled, FillsRun, FillEnd>>
  BY <1>1 DEF Lines, Hydrated, Filled, FillsRun, FillEnd
<1>3. channel \in Seq(Events) /\ ring \in Ordered /\ pump.last \in Int
  BY DEF LinesInv, Pumps
<1>4. PICK n \in Nat : n = Lines
  BY <1>3, CountTyped DEF Lines
<1>5. ASSUME listeners["log"] = 0 PROVE channel' = channel
  <2>1. channel' = channel \o <<>>
    BY <1>1, <1>5 DEF Emits, Emitted
  <2>2. QED
    BY <1>3, <2>1, ConcatEmptySeq
<1>6. ASSUME ~mixed
      PROVE  \E p, f \in Nat : \E j \in 0..Len(channel') : OnTheWay(p, j, f)'
  <2>1. PICK p \in Nat, f \in Nat, j \in 0..Len(channel) : OnTheWay(p, j, f)
    BY <1>1, <1>6 DEF TailInv
  <2>2. PICK o \in Nat : RingIs(ring, run, o, n)
    <3>1. PICK o : RingIs(ring, run, o, n)
      BY <1>1, <1>4 DEF TailInv
    <3>2. QED
      BY <3>1 DEF RingIs
  <2>3. PICK k \in Nat : k = n - o /\ o + k = n /\ IsRun(ring, run, o, k) /\ k > 0
    <3>1. n - o \in Nat /\ o + (n - o) = n /\ n - o > 0
      BY <2>2 DEF RingIs
    <3>2. QED
      BY <2>2, <3>1 DEF RingIs
  <2>4. PICK l \in Int : l = pump.last /\ (l = -1 \/ l = p - 1) /\ p <= n /\ f <= p
    BY <1>3, <1>4, <2>1 DEF OnTheWay, Said
  <2>5. l < o + k
    BY <2>3, <2>4
  <2>6. PICK g \in Nat : /\ IsRun(Beyond(ring, l), run, g, o + k - g) /\ g <= o + k
                         /\ g = IF l + 1 > o THEN l + 1 ELSE o
    BY <1>3, <2>3, <2>5, RunBeyond
  <2>7. PICK m \in Nat : m = n - g /\ g + m = n /\ m = o + k - g
    <3>1. n - g \in Nat /\ g + (n - g) = n /\ n - g = o + k - g
      BY <2>3, <2>6
    <3>2. QED
      BY <3>1
  <2>8. PICK s : s = Since(pump.last) /\ IsRun(s, run, g, m)
    BY <2>4, <2>6, <2>7 DEF Since
  <2>9. Said(n)'
    <3>1. pump'.last \in {-1, n - 1}
      <4>1. CASE m = 0
        <5>1. s \in Seq(Entries) /\ Len(s) = 0
          BY <2>8, <4>1 DEF IsRun
        <5>2. LastIndex(s) = -1
          BY <5>1, LastIndexTyped
        <5>3. QED
          BY <1>1, <2>8, <5>2
      <4>2. CASE m > 0
        <5>1. LastIndex(s) = g + m - 1
          BY <2>8, <4>2, RunLast
        <5>2. g + m - 1 = n - 1
          BY <2>7
        <5>3. QED
          BY <1>1, <2>8, <5>1, <5>2
      <4>3. QED
        BY <4>1, <4>2
    <3>2. n = Lines'
      BY <1>2, <1>4
    <3>3. QED
      BY <3>1, <3>2 DEF Said
  <2>10. g = p \/ Covers(g, n)
    <3>1. Covers(o, n)
      <4>1. n <= n
        OBVIOUS
      <4>2. QED
        BY <2>2, <4>1, RingCovers
    <3>2. g = p \/ g = o
      <4>1. g = IF l + 1 > o THEN l + 1 ELSE o
        BY <2>6
      <4>2. CASE l = -1
        <5>1. ~(l + 1 > o)
          BY <4>2
        <5>2. QED
          BY <4>1, <5>1
      <4>3. CASE l = p - 1
        <5>1. l + 1 = p
          BY <4>3
        <5>2. QED
          BY <4>1, <5>1
      <4>4. QED
        BY <2>4, <4>2, <4>3
    <3>3. QED
      BY <3>1, <3>2
  <2>11. CASE listeners["log"] = 0
    <3>1. channel' = channel /\ buffered = <<>> /\ \A i \in 1..Len(channel) : channel[i].kind = "status"
      BY <1>5, <2>11 DEF TailInv
    <3>2. pc = "starting"
      BY <2>11 DEF LinesInv, Kinds
    <3>3. Stretch(channel', run, 0, n, n)
      BY <1>3, <3>1, StretchSilent
    <3>4. InStep(n)'
      <4>1. ~Hydrated' /\ ~Filled' /\ buffered' = <<>>
        BY <1>1, <3>1, <3>2 DEF Hydrated, Filled
      <4>2. QED
        BY <4>1 DEF InStep, Waits
    <3>5. OnTheWay(n, 0, n)'
      <4>1. n <= n
        OBVIOUS
      <4>2. QED
        BY <1>1, <1>2, <1>4, <2>9, <3>3, <3>4, <4>1 DEF OnTheWay
    <3>6. 0 \in 0..Len(channel')
      BY <1>3, <3>1
    <3>7. QED
      BY <3>5, <3>6
  <2>12. CASE listeners["log"] # 0
    <3>1. PICK es \in Seq(Events) : /\ channel' = channel \o es /\ Len(es) = m
                                    /\ \A i \in 1..m : es[i] = LogLine(run, g + i - 1)
      <4>1. PICK es : es = LogEvents(s)
        OBVIOUS
      <4>2. s \in Seq(Entries) /\ Len(s) = m
        BY <2>8 DEF IsRun
      <4>3. /\ es \in Seq(Events) /\ Len(es) = m
            /\ \A i \in 1..m : es[i] = [kind |-> "log", entry |-> s[i]]
        BY <4>1, <4>2, LogEventsTyped
      <4>4. \A i \in 1..m : es[i] = LogLine(run, g + i - 1)
        <5>1. TAKE i \in 1..m
        <5>2. s[i] = Line(run, g + i - 1)
          BY <2>8 DEF IsRun
        <5>3. QED
          BY <4>3, <5>2 DEF LogLine
      <4>5. channel' = channel \o es
        <5>1. listeners["log"] \in 0..2 /\ listeners["log"] > 0
          BY <2>12 DEF TypeOK, Kinds
        <5>2. QED
          BY <1>1, <2>8, <4>1, <5>1 DEF Emits, Emitted
      <4>6. QED
        BY <4>3, <4>4, <4>5
    <3>2. Stretch(es, run, 0, g, n)
      BY <2>7, <3>1, StretchLines
    <3>3. g <= n
      BY <2>3, <2>6
    <3>4. CASE g = p
      <4>1. Stretch(channel, run, j, f, p) /\ (Covers(f, n) \/ (j = 0 /\ InStep(f)))
        BY <1>4, <2>1 DEF OnTheWay
      <4>2. Stretch(channel', run, j, f, n) /\ Len(channel) <= Len(channel') /\ channel' \in Seq(Events)
        BY <1>3, <3>1, <3>2, <3>3, <3>4, <4>1, StretchOn
      <4>3. j \in 0..Len(channel')
        BY <1>3, <4>2
      <4>4. InStep(f)' <=> InStep(f)
        BY <1>1, <1>2 DEF InStep, Waits, Has, Whole
      <4>5. f <= n /\ n <= n
        BY <2>4
      <4>6. OnTheWay(n, j, f)'
        BY <1>1, <1>2, <1>4, <2>9, <4>1, <4>2, <4>4, <4>5 DEF OnTheWay
      <4>7. QED
        BY <4>3, <4>6
    <3>5. CASE Covers(g, n)
      <4>1. PICK c \in Nat : c = Len(channel) /\ c \in 0..Len(channel)
        BY <1>3
      <4>2. Stretch(channel, run, c, g, g)
        BY <1>3, <4>1, StretchEmpty
      <4>3. g <= g /\ n <= n
        OBVIOUS
      <4>4. Stretch(channel', run, c, g, n) /\ Len(channel) <= Len(channel') /\ channel' \in Seq(Events)
        BY <1>3, <3>1, <3>2, <3>3, <4>1, <4>2, StretchOn
      <4>5. c \in 0..Len(channel')
        BY <4>1, <4>4
      <4>6. OnTheWay(n, c, g)'
        BY <1>1, <1>2, <1>4, <2>9, <3>3, <3>5, <4>3, <4>4 DEF OnTheWay
      <4>7. QED
        BY <4>5, <4>6
    <3>6. QED
      BY <2>10, <3>4, <3>5
  <2>13. QED
    BY <2>11, <2>12
<1>7. QED
  BY <1>1, <1>2, <1>5, <1>6 DEF TailInv

LEMMA TailSubscribe ==
    ASSUME TypeOK, LinesInv, TailInv, Subscribes
    PROVE  TailInv'
<1>1. /\ pc = "starting" /\ pc' \in {"starting", "subscribed"} /\ "log" \notin got
      /\ UNCHANGED <<ring, run, buffered, channel, got, backfill, pump, mixed, receded>>
  BY DEF Subscribes, backend, history, TailInv
<1>2. ~Filled /\ ~Filled' /\ ~Hydrated /\ ~Hydrated' /\ ~FillsRun /\ ~FillsRun'
  BY <1>1 DEF Filled, Hydrated, FillsRun
<1>3. UNCHANGED <<Lines, FillEnd>>
  BY <1>1 DEF Lines, FillEnd
<1>4. ASSUME listeners'["log"] = 0 PROVE listeners["log"] = 0
  <2>1. listeners["log"] \in 0..2
    BY DEF TypeOK, Kinds
  <2>2. listeners'["log"] = listeners["log"] \/ listeners'["log"] = listeners["log"] + 1
    BY DEF Subscribes, Kinds
  <2>3. QED
    BY <1>4, <2>1, <2>2
<1>5. \A f : InStep(f)' <=> InStep(f)
  BY <1>1, <1>2, <1>3 DEF InStep, Waits, Has, Whole
<1>6. \A p, j, f : OnTheWay(p, j, f)' <=> OnTheWay(p, j, f)
  BY <1>1, <1>3, <1>5 DEF OnTheWay, Said
<1>7. QED
  BY <1>1, <1>2, <1>3, <1>4, <1>6 DEF TailInv

\* The backfill is the ring, so it goes as far as the buffer will ever wait.
LEMMA TailAnswers ==
    ASSUME TypeOK, LinesInv, TailInv, ReadsStatus \/ ReadsLog
    PROVE  TailInv'
<1>1. /\ pc \in {"subscribed", "asking"} /\ pc' \in {"asking", "answered"} /\ "log" \notin got
      /\ UNCHANGED <<ring, run, listeners, buffered, channel, pump, mixed, receded>>
  BY DEF ReadsStatus, ReadsLog, backend, history, TailInv
<1>2. ~Filled /\ ~Hydrated /\ ~Hydrated' /\ ~FillsRun
  BY <1>1 DEF Filled, Hydrated, FillsRun
<1>3. Lines' = Lines /\ Lines \in Nat
  BY <1>1, CountTyped DEF Lines, LinesInv
<1>4. pc' = "asking" => "log" \notin got'
  BY <1>1 DEF ReadsStatus, ReadsLog
<1>5. ASSUME Filled' PROVE backfill' = ring /\ run > 0
  BY <1>1, <1>5 DEF Filled, ReadsStatus, ReadsLog
<1>6. ASSUME Filled'
      PROVE  FillsRun' /\ Lines <= FillEnd' /\ FillEnd' \in Nat /\ run \in 1..run
             /\ \E o, m : RingIs(backfill', run, o, m) /\ m <= Lines
  <2>1. PICK o : RingIs(ring, run, o, Lines)
    BY <1>5, <1>6 DEF TailInv
  <2>2. ring[Len(ring)].run = run /\ LastIndex(ring) + 1 = Lines
    BY <2>1, RingEnd
  <2>3. FillsRun' /\ FillEnd' = Lines
    BY <1>1, <1>5, <1>6, <2>2 DEF FillsRun, FillEnd
  <2>4. Lines <= Lines /\ run \in 1..run
    BY <1>3, <1>5, <1>6 DEF TypeOK
  <2>5. QED
    BY <1>3, <1>5, <1>6, <2>1, <2>3, <2>4
<1>7. ASSUME pump.at = "alive", ~mixed
      PROVE  \E p, f \in Nat : \E j \in 0..Len(channel) : OnTheWay(p, j, f)'
  <2>1. PICK p \in Nat, f \in Nat, j \in 0..Len(channel) : OnTheWay(p, j, f)
    BY <1>7 DEF TailInv
  <2>2. Said(p)' /\ j \in Nat
    BY <1>1, <1>3, <2>1 DEF OnTheWay, Said
  <2>3. Lines <= Lines'
    BY <1>3
  <2>4. OnTheWay(p, j, f)'
    BY <1>1, <1>2, <1>3, <1>6, <2>1, <2>2, <2>3, TraceKept
  <2>5. QED
    BY <2>4
<1>8. QED
  BY <1>1, <1>3, <1>4, <1>6, <1>7 DEF TailInv

\* Lines that are all of one run.
LEMMA OneRun ==
    ASSUME NEW a \in Seq(Entries), NEW b \in Seq(Entries), NEW i \in 1..Len(a), NEW j \in 1..Len(b),
           ~(Cardinality(RunsOf(a) \cup RunsOf(b)) > 1)
    PROVE  a[i].run = b[j].run
<1>1. PICK S : S = RunsOf(a) \cup RunsOf(b)
  OBVIOUS
<1>2. S \subseteq 1..MaxRuns
  <2>1. \A s \in Seq(Entries) : RunsOf(s) \subseteq 1..MaxRuns
    BY ElementOfSeq, EntryTyped DEF RunsOf
  <2>2. QED
    BY <1>1, <2>1
<1>3. MaxRuns \in Int /\ 1 \in Int
  BY StoreAssumption
<1>4. IsFiniteSet(1..MaxRuns)
  BY <1>3, FS_Interval
<1>5. IsFiniteSet(S)
  BY <1>2, <1>4, FS_Subset
<1>6. a[i].run \in S /\ b[j].run \in S
  BY <1>1 DEF RunsOf
<1>7. SUFFICES ASSUME a[i].run # b[j].run PROVE FALSE
  OBVIOUS
<1>8. PICK x, y : x = a[i].run /\ y = b[j].run
  OBVIOUS
<1>9. IsFiniteSet({x}) /\ Cardinality({x}) = 1
  BY FS_Singleton
<1>10. y \notin {x}
  BY <1>7, <1>8
<1>11. Cardinality({x} \cup {y}) = 1 + 1
  BY <1>9, <1>10, FS_AddElement
<1>12. {x} \cup {y} \subseteq S
  BY <1>6, <1>8
<1>13. Cardinality({x} \cup {y}) <= Cardinality(S)
  BY <1>5, <1>12, FS_Subset
<1>14. PICK c \in Nat : c = Cardinality(S)
  BY <1>5, FS_CardinalityType
<1>15. ~(c > 1)
  BY <1>1, <1>14
<1>16. 1 + 1 <= c
  BY <1>11, <1>13, <1>14
<1>17. QED
  BY <1>15, <1>16

LEMMA TailHydrate ==
    ASSUME TypeOK, LinesInv, TailInv, Hydrates
    PROVE  TailInv'
<1>1. /\ pc = "answered" /\ pc' = "ready"
      /\ buffered' = IF "log" \in got THEN Capped(MergeLogRuns(backfill, buffered)) ELSE buffered
      /\ mixed' = (mixed \/ Cardinality(RunsOf(backfill) \cup RunsOf(buffered)) > 1)
      /\ UNCHANGED <<ring, run, listeners, channel, got, pump, receded>>
  BY DEF Hydrates, backend
<1>2. ~Filled' /\ ~FillsRun' /\ ~Hydrated /\ (Hydrated' <=> "log" \in got) /\ (Filled <=> "log" \in got)
  BY <1>1 DEF Filled, Hydrated, FillsRun
<1>3. Lines' = Lines /\ \A p : Said(p)' <=> Said(p)
  BY <1>1 DEF Lines, Said
<1>4. PICK n \in Nat : n = Lines
  BY CountTyped DEF Lines, LinesInv
<1>5. listeners["log"] # 0
  BY <1>1 DEF LinesInv, Kinds
<1>6. /\ backfill \in Ordered /\ buffered \in Ordered /\ Len(buffered) <= ViewCap
      /\ backfill \in Seq(Entries) /\ buffered \in Seq(Entries)
  BY DEF LinesInv, TypeOK
<1>7. ASSUME ~mixed', pump.at = "alive"
      PROVE  \E p, f \in Nat : \E j \in 0..Len(channel) : OnTheWay(p, j, f)'
  <2>1. ~mixed /\ ~(Cardinality(RunsOf(backfill) \cup RunsOf(buffered)) > 1)
    BY <1>1, <1>7
  <2>2. PICK p \in Nat, f \in Nat, j \in 0..Len(channel) : OnTheWay(p, j, f)
    BY <1>7, <2>1 DEF TailInv
  <2>3. SUFFICES ASSUME InStep(f) PROVE InStep(f)'
    <3>1. OnTheWay(p, j, f)'
      BY <1>1, <1>3, <2>2, <2>3 DEF OnTheWay
    <3>2. QED
      BY <3>1
  <2>4. CASE "log" \notin got
    <3>1. ~FillsRun /\ ~Filled /\ ~Hydrated'
      BY <1>2, <2>4 DEF FillsRun
    <3>2. QED
      BY <1>1, <1>2, <1>3, <2>3, <2>4, <3>1 DEF InStep, Waits, Has, Whole
  <2>5. CASE "log" \in got
    <3>1. buffered' = Capped(MergeLogRuns(backfill, buffered)) /\ Filled /\ Hydrated'
      BY <1>1, <1>2, <2>5
    <3>2. PICK r \in 1..run : \E o, m : RingIs(backfill, r, o, m) /\ (r = run => m <= n)
      BY <1>4, <3>1 DEF TailInv
    <3>3. PICK o, m : RingIs(backfill, r, o, m) /\ (r = run => m <= n)
      BY <3>2
    <3>4. backfill # <<>> /\ FillEnd = m /\ m \in Nat /\ backfill[Len(backfill)].run = r
      BY <3>3, RingEnd DEF FillEnd
    <3>5. CASE Waits(f)
      <4>1. buffered = <<>> /\ r = run /\ f <= m /\ m <= n
        BY <3>1, <3>3, <3>4, <3>5 DEF Waits, FillsRun
      <4>2. o \in Nat /\ Ends(buffered', run, o, m)
        BY <1>6, <3>1, <3>3, <4>1, MergeFirst
      <4>3. Covers(o, n)
        BY <3>3, <4>1, RingCovers
      <4>4. Has(f, o, m)'
        BY <1>1, <1>3, <1>4, <3>1, <4>1, <4>2, <4>3 DEF Has
      <4>5. QED
        BY <3>4, <4>2, <4>4 DEF InStep
    <3>6. CASE \E s, q \in Nat : Has(f, s, q)
      <4>1. PICK s \in Nat, q \in Nat : Has(f, s, q)
        BY <3>6
      <4>2. f <= q /\ q <= n /\ Ends(buffered, run, s, q) /\ (Covers(s, n) \/ Whole(s, q))
        BY <1>4, <4>1 DEF Has
      <4>3. buffered # <<>> /\ buffered[Len(buffered)].run = run
        BY <1>6, <4>2, EndsLast
      <4>4. Len(backfill) \in 1..Len(backfill) /\ Len(buffered) \in 1..Len(buffered)
        BY <1>6, <3>4, <4>3, LastIndexTyped
      <4>5. r = run
        BY <1>6, <2>1, <3>4, <4>3, <4>4, OneRun
      <4>6. FillsRun /\ m <= n
        BY <3>1, <3>3, <3>4, <4>5 DEF FillsRun
      <4>7. Covers(s, n) \/ (Len(buffered) = q - s /\ s <= m)
        BY <3>4, <4>2, <4>6 DEF Whole
      <4>8. PICK t \in Nat, x \in Nat : /\ q <= x /\ x <= n /\ Covers(t, n)
                                        /\ Ends(Capped(MergeLogRuns(backfill, buffered)), run, t, x)
        BY <1>6, <3>3, <4>2, <4>5, <4>6, <4>7, MergeEnds
      <4>9. f <= x
        BY <4>2, <4>8
      <4>10. Has(f, t, x)'
        BY <1>1, <1>3, <1>4, <3>1, <4>8, <4>9 DEF Has
      <4>11. QED
        BY <4>10 DEF InStep
    <3>7. QED
      BY <2>3, <3>5, <3>6 DEF InStep
  <2>6. QED
    BY <2>4, <2>5
<1>8. QED
  BY <1>1, <1>2, <1>3, <1>5, <1>7 DEF TailInv

\* The line the buffer waits for, or the first of as many as there is room for.
LEMMA TailLine ==
    ASSUME TypeOK, LinesInv, NEW f \in Nat, NEW g \in Nat, g = f + 1, g <= Lines,
           NEW e \in Entries, e = Line(run, f), buffered' = ApplyLogEvent(buffered, e),
           UNCHANGED <<ring, run, pc, got, backfill>>,
           buffered # <<>> => buffered[Len(buffered)].run = run \/ f < LastIndex(buffered),
           receded' = (receded \/ /\ buffered # <<>> /\ buffered[Len(buffered)].run = run
                                  /\ f < LastIndex(buffered)),
           Covers(f, Lines) \/ InStep(f)
    PROVE  InStep(g)'
<1>0. receded => receded'
  OBVIOUS
<1>1. PICK n \in Nat : n = Lines
  BY CountTyped DEF Lines, LinesInv
<1>2. Lines' = n /\ UNCHANGED <<Hydrated, Filled, FillsRun, FillEnd>>
  BY <1>1 DEF Lines, Hydrated, Filled, FillsRun, FillEnd
<1>3. /\ buffered \in Ordered /\ buffered \in Seq(Entries) /\ Len(buffered) <= ViewCap
      /\ LastIndex(buffered) \in Int /\ e.index = f
  BY LastIndexTyped DEF LinesInv, TypeOK, Line
<1>4. g <= g /\ g <= n /\ g - f = 1
  BY <1>1
<1>5. Ends(buffered', run, f, g)
      \/ ~(f = LastIndex(buffered) => buffered[Len(buffered)].run = run)
  BY <1>3, ComesLast
<1>6. f = LastIndex(buffered) => buffered[Len(buffered)].run = run
  <2>1. SUFFICES ASSUME f = LastIndex(buffered) PROVE buffered[Len(buffered)].run = run
    OBVIOUS
  <2>2. buffered # <<>> /\ ~(f < LastIndex(buffered))
    BY <1>3, <2>1, LastIndexTyped
  <2>3. QED
    BY <2>2
<1>7. CASE Covers(f, n)
  <2>1. Has(g, f, g)'
    BY <1>2, <1>4, <1>5, <1>6, <1>7 DEF Has
  <2>2. QED
    BY <2>1 DEF InStep
<1>8. CASE Waits(f)
  <2>1. buffered = <<>> /\ ~Hydrated /\ (FillsRun => f <= FillEnd)
    BY <1>8 DEF Waits, FillsRun
  <2>2. Len(buffered') = 1
    BY <2>1, ComesFirst
  <2>3. Whole(f, g)'
    BY <1>2, <1>4, <2>1, <2>2 DEF Whole
  <2>4. Has(g, f, g)'
    BY <1>2, <1>4, <1>5, <1>6, <2>3 DEF Has
  <2>5. QED
    BY <2>4 DEF InStep
<1>9. CASE \E s, q \in Nat : Has(f, s, q)
  <2>1. PICK s \in Nat, q \in Nat : Has(f, s, q)
    BY <1>9
  <2>2. /\ f <= q /\ q <= n /\ (q = f \/ Hydrated) /\ s < q
        /\ Ends(buffered, run, s, q) /\ (Covers(s, n) \/ Whole(s, q))
    BY <1>1, <2>1 DEF Has, Ends
  <2>3. buffered # <<>> /\ LastIndex(buffered) = q - 1 /\ buffered[Len(buffered)].run = run
    BY <1>3, <2>2, EndsLast
  <2>4. CASE f = q
    <3>1. e = Line(run, q) /\ q + 1 = g /\ q + 1 <= n
      BY <1>1, <2>4
    <3>2. /\ Ends(buffered', run, s, q + 1)
          /\ Len(buffered) = q - s => Covers(s, n) \/ Len(buffered') = q + 1 - s
      BY <1>3, <2>2, <3>1, ComesNext
    <3>3. ASSUME ~Covers(s, n) PROVE Whole(s, g)'
      <4>1. Len(buffered) = q - s /\ (Hydrated => receded) /\ (FillsRun => s <= FillEnd)
        BY <2>2, <3>3 DEF Whole
      <4>2. Len(buffered') = g - s
        BY <3>1, <3>2, <3>3, <4>1
      <4>3. QED
        BY <1>0, <1>2, <4>1, <4>2 DEF Whole
    <3>4. Has(g, s, g)'
      BY <1>2, <1>4, <3>1, <3>2, <3>3 DEF Has
    <3>5. QED
      BY <3>4 DEF InStep
  <2>5. CASE f # q /\ f = q - 1
    <3>1. buffered' = buffered
      BY <1>3, <2>3, <2>5 DEF ApplyLogEvent
    <3>2. g = q
      BY <2>5
    <3>3. Whole(s, q) => Whole(s, g)'
      BY <1>0, <1>2, <3>1, <3>2 DEF Whole
    <3>4. Has(g, s, g)'
      BY <1>2, <1>4, <2>2, <3>1, <3>2, <3>3 DEF Has
    <3>5. QED
      BY <3>4 DEF InStep
  <2>6. CASE f # q /\ f # q - 1
    <3>1. f < q - 1 /\ Hydrated
      BY <2>2, <2>6
    <3>2. f < LastIndex(buffered) /\ f # LastIndex(buffered)
      BY <2>3, <3>1
    <3>3. receded'
      BY <2>3, <3>2
    <3>4. buffered' = <<e>>
      BY <1>3, <3>2 DEF ApplyLogEvent
    <3>5. Len(buffered') = 1 /\ ~FillsRun
      BY <3>1, <3>4 DEF FillsRun, Filled, Hydrated
    <3>6. Whole(f, g)'
      BY <1>2, <1>4, <3>3, <3>5 DEF Whole
    <3>7. Has(g, f, g)'
      BY <1>2, <1>4, <1>5, <1>6, <3>6 DEF Has
    <3>8. QED
      BY <3>7 DEF InStep
  <2>7. QED
    BY <2>4, <2>5, <2>6
<1>10. QED
  BY <1>1, <1>7, <1>8, <1>9 DEF InStep

LEMMA TailDeliver ==
    ASSUME TypeOK, LinesInv, TailInv, Delivers
    PROVE  TailInv'
<1>1. /\ channel # <<>> /\ channel' = Tail(channel)
      /\ UNCHANGED <<ring, run, pump, listeners, pc, got, backfill>>
  BY DEF Delivers, backend
<1>2. UNCHANGED <<Lines, Hydrated, Filled, FillsRun, FillEnd>> /\ \A p : Said(p)' <=> Said(p)
  BY <1>1 DEF Lines, Hydrated, Filled, FillsRun, FillEnd, Said
<1>3. PICK l \in Nat : l = Len(channel) /\ l > 0
  BY <1>1, EmptySeq DEF LinesInv
<1>4. /\ channel \in Seq(Events) /\ Head(channel) = channel[1] /\ Head(channel) \in Events
      /\ Len(channel') = l - 1 /\ \A i \in 1..(l - 1) : channel'[i] = channel[i + 1]
  BY <1>1, <1>3, HeadTailProperties, ElementOfSeq DEF LinesInv
<1>5. ASSUME listeners["log"] = 0
      PROVE  buffered' = <<>> /\ \A i \in 1..Len(channel') : channel'[i].kind = "status"
  <2>1. buffered = <<>> /\ \A i \in 1..l : channel[i].kind = "status"
    BY <1>3, <1>5 DEF TailInv
  <2>2. Head(channel).kind = "status"
    BY <1>3, <1>4, <2>1
  <2>3. buffered' = <<>>
    BY <2>1, <2>2 DEF Delivers
  <2>4. \A i \in 1..(l - 1) : channel'[i].kind = "status"
    <3>1. TAKE i \in 1..(l - 1)
    <3>2. i + 1 \in 1..l /\ channel'[i] = channel[i + 1]
      BY <1>4
    <3>3. QED
      BY <2>1, <3>2
  <2>5. QED
    BY <1>4, <2>3, <2>4
<1>6. ASSUME ~mixed', pump.at = "alive"
      PROVE  \E p, f \in Nat : \E j \in 0..Len(channel') : OnTheWay(p, j, f)'
  <2>1. ~mixed
    BY <1>6 DEF Delivers, history
  <2>2. PICK p \in Nat, f \in Nat, j \in 0..l : OnTheWay(p, j, f)
    BY <1>3, <1>6, <2>1 DEF TailInv
  <2>3. PICK n \in Nat : n = Lines
    BY CountTyped DEF Lines, LinesInv
  <2>4. /\ f <= p /\ p <= n /\ Said(p) /\ Stretch(channel, run, j, f, p)
        /\ Covers(f, n) \/ (j = 0 /\ InStep(f))
    BY <2>2, <2>3 DEF OnTheWay
  <2>5. CASE j # 0
    <3>1. PICK x \in Nat : x = j - 1
      BY <2>5
    <3>2. j \in 1..Len(channel)
      BY <1>3, <2>5
    <3>3. j - 1 \in 0..Len(Tail(channel)) /\ Stretch(Tail(channel), run, j - 1, f, p)
      BY <1>1, <1>4, <2>4, <3>2, StretchLater
    <3>4. x \in 0..Len(channel') /\ Stretch(channel', run, x, f, p)
      BY <1>1, <3>1, <3>3
    <3>5. Covers(f, n)
      BY <2>4, <2>5
    <3>6. OnTheWay(p, x, f)'
      BY <1>1, <1>2, <2>3, <2>4, <3>4, <3>5 DEF OnTheWay
    <3>7. QED
      BY <3>4, <3>6
  <2>6. CASE j = 0
    <3>1. Stretch(channel, run, 0, f, p)
      BY <2>4, <2>6
    <3>2. PICK g \in 0..p : Heard(Head(channel), run, f, g) /\ Stretch(Tail(channel), run, 0, g, p)
      BY <1>1, <1>4, <3>1, StretchNext
    <3>3. /\ g \in Nat /\ g <= p /\ 0 \in 0..Len(channel') /\ g <= n
          /\ Stretch(channel', run, 0, g, p)
      <4>1. 0 \in 0..(l - 1) /\ g \in Nat /\ g <= p /\ g <= n
        BY <1>3, <2>4
      <4>2. QED
        BY <1>1, <1>4, <3>2, <4>1
    <3>4. SUFFICES Covers(g, n) \/ InStep(g)'
      <4>1. ASSUME Covers(g, n) \/ InStep(g)' PROVE OnTheWay(p, 0, g)'
        BY <1>1, <1>2, <2>3, <2>4, <3>3, <4>1 DEF OnTheWay
      <4>2. QED
        BY <3>3, <4>1
    <3>5. CASE Head(channel).kind = "status" /\ g = f
      <4>1. UNCHANGED <<buffered, receded>>
        BY <3>5 DEF Delivers, history
      <4>2. InStep(f)' <=> InStep(f)
        BY <1>1, <1>2, <4>1 DEF InStep, Waits, Has, Whole
      <4>3. QED
        BY <2>4, <3>5, <4>2
    <3>6. CASE Head(channel) = LogLine(run, f) /\ g = f + 1
      <4>1. PICK e : e = Head(channel).entry /\ e = Line(run, f) /\ e.run = run /\ e.index = f
        BY <3>6 DEF LogLine, Line
      <4>2. Head(channel).kind = "log"
        BY <3>6 DEF LogLine
      <4>3. e \in Entries
        BY <1>4, <4>1, <4>2, EventTyped
      <4>4. /\ buffered' = ApplyLogEvents(buffered, [i \in 1..listeners["log"] |-> e])
            /\ mixed' = (mixed \/ /\ buffered # <<>> /\ Last(buffered).run # e.run
                                  /\ e.index >= LastIndex(buffered))
            /\ receded' = (receded \/ /\ buffered # <<>> /\ Last(buffered).run = e.run
                                      /\ e.index < LastIndex(buffered))
        BY <4>1, <4>2 DEF Delivers
      <4>5. buffered \in Ordered /\ Len(buffered) <= ViewCap /\ buffered \in Seq(Entries)
            /\ LastIndex(buffered) \in Int
        BY LastIndexTyped DEF LinesInv, TypeOK
      <4>6. buffered' = ApplyLogEvent(buffered, e)
        <5>1. listeners["log"] # 0
          <6>1. SUFFICES ASSUME listeners["log"] = 0 PROVE FALSE
            OBVIOUS
          <6>2. 1 \in 1..l /\ \A i \in 1..l : channel[i].kind = "status"
            BY <1>3, <6>1 DEF TailInv
          <6>3. QED
            BY <1>4, <4>2, <6>2
        <5>2. PICK k \in Nat : k = listeners["log"] /\ k # 0
          BY <5>1 DEF TypeOK, Kinds
        <5>3. ApplyLogEvents(buffered, [i \in 1..k |-> e]) = IF k = 0 THEN buffered ELSE ApplyLogEvent(buffered, e)
          BY <4>3, <4>5, CopiesApplied
        <5>4. QED
          BY <4>4, <5>2, <5>3
      <4>7. buffered # <<>> => buffered[Len(buffered)].run = run \/ f < LastIndex(buffered)
        <5>1. SUFFICES ASSUME buffered # <<>>, ~(f < LastIndex(buffered))
                       PROVE  buffered[Len(buffered)].run = run
          OBVIOUS
        <5>2. f >= LastIndex(buffered)
          BY <4>5, <5>1
        <5>3. Last(buffered).run = run
          BY <1>6, <4>1, <4>4, <5>1, <5>2
        <5>4. QED
          BY <5>3 DEF Last
      <4>8. receded' = (receded \/ /\ buffered # <<>> /\ buffered[Len(buffered)].run = run
                                   /\ f < LastIndex(buffered))
        BY <4>1, <4>4 DEF Last
      <4>9. Covers(f, Lines) \/ InStep(f)
        BY <2>3, <2>4
      <4>10. g <= Lines /\ UNCHANGED <<ring, run, pc, got, backfill>>
        BY <1>1, <2>3, <3>3
      <4>11. InStep(g)'
        BY <3>3, <3>6, <4>1, <4>3, <4>6, <4>7, <4>8, <4>9, <4>10, TailLine
      <4>12. QED
        BY <4>11
    <3>7. QED
      BY <3>2, <3>5, <3>6 DEF Heard
  <2>7. QED
    BY <2>5, <2>6
<1>7. QED
  BY <1>1, <1>2, <1>5, <1>6 DEF TailInv

LEMMA TailInductive == Spec => [](TypeOK /\ LinesInv /\ TailInv)
<1>1. TypeOK /\ LinesInv /\ TailInv /\ [Next]_vars => TailInv'
  <2> SUFFICES ASSUME TypeOK, LinesInv, TailInv, [Next]_vars PROVE TailInv'
    OBVIOUS
  <2>1. CASE Next
    BY <2>1, TailRestart, TailOldPump, TailWork, TailStop, TailWake, TailTimer,
       TailSubscribe, TailAnswers, TailHydrate, TailDeliver DEF Next
  <2>2. CASE UNCHANGED vars
    <3>1. UNCHANGED <<ring, run, pump, listeners, pc, got, backfill, buffered, channel, mixed, receded>>
      BY <2>2 DEF vars, backend, frontend, history
    <3>2. UNCHANGED <<Lines, Hydrated, Filled, FillsRun, FillEnd>>
      BY <3>1 DEF Lines, Hydrated, Filled, FillsRun, FillEnd
    <3>3. \A p, j, f : OnTheWay(p, j, f)' <=> OnTheWay(p, j, f)
      BY <3>1, <3>2 DEF OnTheWay, InStep, Waits, Has, Whole, Said
    <3>4. QED
      BY <3>1, <3>2, <3>3 DEF TailInv
  <2>3. QED
    BY <2>1, <2>2
<1>2. QED
  BY <1>1, TailInit, LinesInductive, PTL DEF Spec

\* events.ts:56 "so nothing emitted in between is lost", for every size of the
\* store and of the ring: once everything is delivered, the hydrated buffer is
\* the end of the ring, whatever was emitted while the backfill was asked for.
THEOREM EndIsShown == Spec => []BufferIsTail
<1>1. TypeOK /\ LinesInv /\ TailInv => BufferIsTail
  BY TailAtRest
<1>2. QED
  BY <1>1, TailInductive, PTL
==============================================================================
