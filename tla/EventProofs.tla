------------------------------ MODULE EventProofs ------------------------------
(***************************************************************************)
(* What comes of the events of a run, in the frontend and in the tray, for *)
(* any sizes and any number of steps. EventPump: the store's buffer is the *)
(* end of the ring, and the status shown neither goes back nor gets stuck. *)
(* Tray: the menu and the tooltip follow the statuses.                     *)
(***************************************************************************)
EXTENDS EventPump, Tray, SequenceTheorems, FiniteSetTheorems, TLAPS

-----------------------------------------------------------------------------
(* Induction over the natural numbers. *)

\* A set of natural numbers that is not empty has a least element.
LEMMA LeastElement ==
    ASSUME NEW T, T \subseteq Nat, T # {}
    PROVE  \E m \in T : \A k \in T : m <= k
<1> DEFINE D == {0..k : k \in T}
<1>1. D \subseteq FiniteSubsetsOf(Nat) /\ D # {}
  <2>1. \A k \in T : IsFiniteSet(0..k) /\ 0..k \in SUBSET Nat
    BY FS_Interval
  <2>2. QED
    BY <2>1 DEF FiniteSubsetsOf
<1>2. \E x \in D : \A y \in D : <<y, x>> \notin StrictSubsetOrdering(Nat)
  BY <1>1, FS_StrictSubsetOrderingWellFounded, WFMin
<1>3. PICK m \in T : \A k \in T : <<0..k, 0..m>> \notin StrictSubsetOrdering(Nat)
  BY <1>2
<1>4. \A k \in T : m <= k
  <2>1. SUFFICES ASSUME NEW k \in T, k < m PROVE FALSE
    BY <1>3
  <2>2. 0..k \subseteq 0..m /\ m \in 0..m /\ m \notin 0..k
    BY <2>1
  <2>3. 0..k \in SUBSET Nat /\ 0..m \in SUBSET Nat
    OBVIOUS
  <2>4. <<0..k, 0..m>> \in StrictSubsetOrdering(Nat)
    BY <2>2, <2>3 DEF StrictSubsetOrdering
  <2>5. QED
    BY <2>4, <1>3
<1>5. QED
  BY <1>4

\* A set with 0, and with the successor of each number in it, holds them all.
LEMMA SetInduction ==
    ASSUME NEW S, 0 \in S, \A n \in Nat : n \in S => n + 1 \in S
    PROVE  Nat \subseteq S
<1>1. SUFFICES ASSUME Nat \ S # {} PROVE FALSE
  OBVIOUS
<1>2. PICK m \in Nat \ S : \A k \in Nat \ S : m <= k
  BY <1>1, LeastElement
<1>3. m # 0 /\ m - 1 \in Nat
  BY <1>2
<1>4. m - 1 \in S
  BY <1>2, <1>3
<1>5. QED
  BY <1>2, <1>3, <1>4

-----------------------------------------------------------------------------
(* The reducer over a burst of lines. *)

\* What the function in ApplyLogEvents computes.
IsApplied(g, b, es) ==
    g = [n \in 0..Len(es) |-> IF n = 0 THEN b ELSE ApplyLogEvent(g[n - 1], es[n])]

\* There is but one such function.
LEMMA AppliedOnce ==
    ASSUME NEW b, NEW es, Len(es) \in Nat, NEW f, NEW g, IsApplied(f, b, es), IsApplied(g, b, es)
    PROVE  f[Len(es)] = g[Len(es)]
<1> DEFINE S == {k \in Nat : k \in 0..Len(es) => f[k] = g[k]}
<1>1. /\ \A n \in 0..Len(es) : f[n] = IF n = 0 THEN b ELSE ApplyLogEvent(f[n - 1], es[n])
      /\ \A n \in 0..Len(es) : g[n] = IF n = 0 THEN b ELSE ApplyLogEvent(g[n - 1], es[n])
  <2>1. ASSUME NEW h, IsApplied(h, b, es)
        PROVE  \A n \in 0..Len(es) : h[n] = IF n = 0 THEN b ELSE ApplyLogEvent(h[n - 1], es[n])
    BY <2>1 DEF IsApplied
  <2>2. QED
    BY <2>1
<1>2. 0 \in S
  BY <1>1
<1>3. ASSUME NEW k \in Nat, k \in S
      PROVE  k + 1 \in S
  <2>1. SUFFICES ASSUME k + 1 \in 0..Len(es)
                 PROVE  f[k + 1] = g[k + 1]
    OBVIOUS
  <2>2. PICK n \in 0..Len(es) : n = k + 1
    BY <2>1
  <2>3. n # 0 /\ n - 1 = k /\ k \in 0..Len(es)
    BY <2>2
  <2>4. f[k] = g[k]
    BY <1>3, <2>3
  <2>5. f[n] = ApplyLogEvent(f[k], es[n]) /\ g[n] = ApplyLogEvent(g[k], es[n])
    BY <1>1, <2>3
  <2>6. QED
    BY <2>2, <2>4, <2>5
<1>4. Nat \subseteq S
  <2> HIDE DEF S
  <2>1. QED BY <1>2, <1>3, SetInduction
<1>5. QED
  BY <1>4

\* A burst comes to what any such function says.
LEMMA AppliedIs ==
    ASSUME NEW b, NEW es, Len(es) \in Nat, NEW g, IsApplied(g, b, es)
    PROVE  ApplyLogEvents(b, es) = g[Len(es)]
<1> DEFINE c == CHOOSE f : f = [n \in 0..Len(es) |-> IF n = 0 THEN b ELSE ApplyLogEvent(f[n - 1], es[n])]
<1>1. c = [n \in 0..Len(es) |-> IF n = 0 THEN b ELSE ApplyLogEvent(c[n - 1], es[n])]
  BY DEF IsApplied
<1>2. ApplyLogEvents(b, es) = c[Len(es)]
  BY DEF ApplyLogEvents
<1> HIDE DEF c
<1>3. IsApplied(c, b, es)
  BY <1>1 DEF IsApplied
<1>4. c[Len(es)] = g[Len(es)]
  BY <1>3, AppliedOnce
<1>5. QED
  BY <1>2, <1>4

-----------------------------------------------------------------------------
(* The buffer of a store that got lines of one run. *)

Least(a, b) == IF a < b THEN a ELSE b

\* How many lines the store keeps of p and k more.
Kept(p, k) == Least(ViewCap, Least(ViewCap, p) + k)

\* The store's buffer after the lines up to p and the k lines from f on.
Run(p, f, k) ==
    [i \in 1..Kept(p, k) |->
        [index |-> IF Kept(p, k) - i < k THEN f + k - 1 - (Kept(p, k) - i)
                   ELSE p + k - 1 - (Kept(p, k) - i)]]

\* The store's buffer after n lines, none left out.
Window(n) == Run(0, 0, n)

Lines == [index : Int]

\* The sequence s holds m lines up to p and k lines from f on.
IsRun(s, m, p, f, k) ==
    /\ m \in Nat /\ s \in Seq(Lines) /\ Len(s) = m
    /\ \A i \in 1..m : s[i].index = IF m - i < k THEN f + k - 1 - (m - i) ELSE p + k - 1 - (m - i)

\* The store's buffer does.
LEMMA RunTyped ==
    ASSUME NEW p \in Nat, NEW f \in Nat, NEW k \in Nat
    PROVE  Kept(p, k) <= ViewCap /\ IsRun(Run(p, f, k), Kept(p, k), p, f, k)
<1>1. PICK m \in Nat : m = Kept(p, k) /\ m <= ViewCap
  BY ViewCapAssumption DEF Kept, Least
<1>2. PICK s : s = Run(p, f, k)
  OBVIOUS
<1>3. s = [i \in 1..m |-> [index |-> IF m - i < k THEN f + k - 1 - (m - i) ELSE p + k - 1 - (m - i)]]
  BY <1>1, <1>2 DEF Run
<1>4. \A i \in 1..m : /\ s[i] \in Lines
                       /\ s[i].index = (IF m - i < k THEN f + k - 1 - (m - i) ELSE p + k - 1 - (m - i))
  <2>1. TAKE i \in 1..m
  <2>2. PICK x \in Int : x = IF m - i < k THEN f + k - 1 - (m - i) ELSE p + k - 1 - (m - i)
    BY <1>1
  <2>3. s[i] = [index |-> x]
    BY <1>3, <2>2
  <2>4. QED
    BY <2>2, <2>3 DEF Lines
<1>5. s \in [1..m -> Lines]
  BY <1>3, <1>4
<1>6. s \in Seq(Lines)
  BY <1>1, <1>5
<1>7. Len(s) = m
  BY <1>1, <1>5, <1>6, LenProperties
<1>8. QED
  BY <1>1, <1>2, <1>4, <1>6, <1>7 DEF IsRun

\* The last index of a buffer.
LEMMA RunLast ==
    ASSUME NEW p \in Nat, NEW f \in Nat, NEW k \in Nat
    PROVE  LastIndex(Run(p, f, k)) = IF k > 0 THEN f + k - 1 ELSE p - 1
<1>1. PICK s, m : s = Run(p, f, k) /\ m = Kept(p, k)
  OBVIOUS
<1>r. IsRun(s, m, p, f, k)
  BY <1>1, RunTyped
<1>2. /\ m \in Nat /\ s \in Seq(Lines) /\ Len(s) = m
      /\ \A i \in 1..m : s[i].index = IF m - i < k THEN f + k - 1 - (m - i) ELSE p + k - 1 - (m - i)
  BY <1>r DEF IsRun
<1>3. m = 0 <=> p = 0 /\ k = 0
  BY <1>1, ViewCapAssumption DEF Kept, Least
<1>4. s = <<>> <=> m = 0
  BY <1>2, EmptySeq
<1>5. m # 0 => s[m].index = IF k > 0 THEN f + k - 1 ELSE p - 1
  BY <1>2
<1>6. QED
  BY <1>1, <1>2, <1>3, <1>4, <1>5 DEF LastIndex

\* The next line goes to the end of the buffer.
LEMMA RunNext ==
    ASSUME NEW p \in Nat, NEW f \in Nat, NEW k \in Nat, p <= f
    PROVE  ApplyLogEvent(Run(p, f, k), [index |-> f + k]) = Run(p, f, k + 1)
<1>1. PICK s, m, e : s = Run(p, f, k) /\ m = Kept(p, k) /\ e = [index |-> f + k]
  OBVIOUS
<1>r. IsRun(s, m, p, f, k) /\ m <= ViewCap
  BY <1>1, RunTyped
<1>2. /\ m \in Nat /\ m <= ViewCap /\ s \in Seq(Lines) /\ Len(s) = m
      /\ \A i \in 1..m : s[i].index = IF m - i < k THEN f + k - 1 - (m - i) ELSE p + k - 1 - (m - i)
  BY <1>r DEF IsRun
<1>l. LastIndex(s) = IF k > 0 THEN f + k - 1 ELSE p - 1
  BY <1>1, RunLast
<1>3. e \in Lines /\ e.index = f + k /\ LastIndex(s) < e.index
  BY <1>1, <1>l DEF Lines
<1>4. ApplyLogEvent(s, e) = Capped(Append(s, e))
  <2>1. LastIndex(s) \in Int
    BY <1>l
  <2>2. QED
    BY <1>3, <2>1 DEF ApplyLogEvent, Lines
<1>5. PICK a : a = Append(s, e)
  OBVIOUS
<1>6. a \in Seq(Lines) /\ Len(a) = m + 1 /\ a[m + 1] = e /\ \A i \in 1..m : a[i] = s[i]
  BY <1>2, <1>3, <1>5, AppendProperties
<1>7. PICK d \in {0, 1} : d = IF m + 1 > ViewCap THEN m + 1 - ViewCap ELSE 0
  BY <1>2, ViewCapAssumption
<1>8. Capped(a) = SubSeq(a, 1 + d, m + 1)
  <2>1. Len(a) = m + 1
    BY <1>6
  <2>2. PICK l : l = Len(a)
    OBVIOUS
  <2>3. Capped(a) = SubSeq(a, 1 + (IF l > ViewCap THEN l - ViewCap ELSE 0), l)
    BY <2>2 DEF Capped
  <2>4. l = m + 1
    BY <2>1, <2>2
  <2>5. d = IF l > ViewCap THEN l - ViewCap ELSE 0
    BY <1>2, <1>7, <2>4, ViewCapAssumption
  <2>6. QED
    BY <2>3, <2>4, <2>5
<1>9. PICK c : c = SubSeq(a, 1 + d, m + 1)
  OBVIOUS
<1>10. c \in Seq(Lines) /\ Len(c) = m + 1 - d /\ \A i \in 1..(m + 1 - d) : c[i] = a[i + d]
  BY <1>2, <1>6, <1>7, <1>9, SubSeqProperties
<1>11. PICK t, n : t = Run(p, f, k + 1) /\ n = Kept(p, k + 1)
  OBVIOUS
<1>k. PICK l \in Nat : l = k + 1
  OBVIOUS
<1>q. IsRun(t, n, p, f, l)
  BY <1>11, <1>k, RunTyped
<1>12. /\ n \in Nat /\ t \in Seq(Lines) /\ Len(t) = n
       /\ \A i \in 1..n : t[i].index = IF n - i < k + 1 THEN f + (k + 1) - 1 - (n - i) ELSE p + (k + 1) - 1 - (n - i)
  BY <1>k, <1>q DEF IsRun
<1>13. n = m + 1 - d
  BY <1>1, <1>7, <1>11, ViewCapAssumption DEF Kept, Least
<1>14. \A i \in 1..n : c[i] = t[i]
  <2>1. TAKE i \in 1..n
  <2>2. PICK j \in 1..(m + 1) : j = i + d
    <3>1. i + d \in 1..(m + 1)
      BY <1>2, <1>7, <1>12, <1>13
    <3>2. QED
      BY <3>1
  <2>3. c[i] = a[j]
    BY <1>10, <1>13, <2>2
  <2>4. a[j].index = IF n - i < k + 1 THEN f + (k + 1) - 1 - (n - i) ELSE p + (k + 1) - 1 - (n - i)
    BY <1>2, <1>3, <1>6, <1>13, <2>2
  <2>5. a[j] \in Lines /\ t[i] \in Lines
    BY <1>6, <1>12, <2>2, ElementOfSeq
  <2>6. QED
    BY <1>12, <2>3, <2>4, <2>5 DEF Lines
<1>15. c = t
  BY <1>10, <1>12, <1>13, <1>14, SeqEqual
<1>16. QED
  BY <1>1, <1>4, <1>5, <1>8, <1>9, <1>11, <1>15

\* Two buffers with the same indexes are the same.
LEMMA RunsEqual ==
    ASSUME NEW s, NEW t, NEW m, NEW p, NEW f, NEW k \in Nat, NEW q, NEW g, NEW l \in Nat,
           p \in Nat, f \in Nat, q \in Nat, g \in Nat,
           IsRun(s, m, p, f, k), IsRun(t, m, q, g, l),
           m > k => k = 0 \/ (f = p),
           m > l => l = 0 \/ (g = q),
           m > 0 => (IF k > 0 THEN f + k ELSE p) = (IF l > 0 THEN g + l ELSE q)
    PROVE  s = t
<1>1. /\ m \in Nat /\ s \in Seq(Lines) /\ Len(s) = m
      /\ \A i \in 1..m : s[i].index = IF m - i < k THEN f + k - 1 - (m - i) ELSE p + k - 1 - (m - i)
  BY DEF IsRun
<1>2. /\ t \in Seq(Lines) /\ Len(t) = m
      /\ \A i \in 1..m : t[i].index = IF m - i < l THEN g + l - 1 - (m - i) ELSE q + l - 1 - (m - i)
  BY DEF IsRun
<1>3. ASSUME NEW i \in 1..m
      PROVE  s[i] = t[i]
  <2>1. s[i] \in Lines /\ t[i] \in Lines
    BY <1>1, <1>2, ElementOfSeq
  <2>2. PICK j \in Nat : j = m - i /\ j < m /\ m > 0
    BY <1>1
  <2>3. /\ s[i].index = (IF j < k THEN f + k - 1 - j ELSE p + k - 1 - j)
        /\ t[i].index = (IF j < l THEN g + l - 1 - j ELSE q + l - 1 - j)
    BY <1>1, <1>2, <2>2
  <2>4. s[i].index = (IF k > 0 THEN f + k ELSE p) - 1 - j
    <3>1. CASE j < k
      BY <2>2, <2>3, <3>1
    <3>2. CASE ~(j < k)
      BY <1>1, <2>2, <2>3, <3>2
    <3>3. QED
      BY <3>1, <3>2
  <2>5. t[i].index = (IF l > 0 THEN g + l ELSE q) - 1 - j
    <3>1. CASE j < l
      BY <2>2, <2>3, <3>1
    <3>2. CASE ~(j < l)
      BY <1>1, <2>2, <2>3, <3>2
    <3>3. QED
      BY <3>1, <3>2
  <2>6. s[i].index = t[i].index
    BY <2>2, <2>4, <2>5
  <2>7. QED
    BY <2>1, <2>6 DEF Lines
<1>4. QED
  BY <1>1, <1>2, <1>3, SeqEqual

\* A buffer without a gap, or whose gap has left it, is a window.
LEMMA RunIsWindow ==
    ASSUME NEW p \in Nat, NEW f \in Nat, NEW k \in Nat, f = p \/ k >= ViewCap
    PROVE  Run(p, f, k) = Window(f + k)
<1>1. PICK n \in Nat : n = f + k
  OBVIOUS
<1>2. PICK s, t, m : s = Run(p, f, k) /\ t = Window(n) /\ m = Kept(p, k)
  OBVIOUS
<1>3. m = Kept(0, n)
  BY <1>1, <1>2, ViewCapAssumption DEF Kept, Least
<1>4. m \in Nat /\ m <= ViewCap /\ m <= n
  BY <1>1, <1>2, ViewCapAssumption DEF Kept, Least
<1>5. IsRun(s, m, p, f, k)
  BY <1>2, RunTyped
<1>6. IsRun(t, m, 0, 0, n)
  BY <1>2, <1>3, RunTyped DEF Window
<1>7. s = t
  <2>1. m > k => k = 0 \/ f = p
    BY <1>4, ViewCapAssumption
  <2>2. m > 0 => (IF k > 0 THEN f + k ELSE p) = (IF n > 0 THEN 0 + n ELSE 0)
    BY <1>1, <1>4, ViewCapAssumption
  <2>3. QED
    BY <1>4, <1>5, <1>6, <2>1, <2>2, RunsEqual
<1>8. QED
  BY <1>1, <1>2, <1>7

\* No line after the window.
LEMMA RunStarts ==
    ASSUME NEW p \in Nat, NEW f \in Nat
    PROVE  Run(p, f, 0) = Window(p)
<1>2. PICK s, t, m : s = Run(p, f, 0) /\ t = Window(p) /\ m = Kept(p, 0)
  OBVIOUS
<1>3. m = Kept(0, p)
  BY <1>2, ViewCapAssumption DEF Kept, Least
<1>4. m \in Nat /\ m <= ViewCap /\ m <= p
  BY <1>2, ViewCapAssumption DEF Kept, Least
<1>5. IsRun(s, m, p, f, 0)
  BY <1>2, RunTyped
<1>6. IsRun(t, m, 0, 0, p)
  BY <1>2, <1>3, RunTyped DEF Window
<1>7. s = t
  <2>1. m > 0 => (IF 0 > 0 THEN f + 0 ELSE p) = (IF p > 0 THEN 0 + p ELSE 0)
    BY <1>4
  <2>2. QED
    BY <1>4, <1>5, <1>6, <2>1, RunsEqual
<1>8. QED
  BY <1>2, <1>7

\* One line alone.
LEMMA RunOfOne ==
    ASSUME NEW f \in Nat
    PROVE  Run(0, f, 1) = <<[index |-> f]>>
<1>1. PICK s : s = Run(0, f, 1)
  OBVIOUS
<1>2. Kept(0, 1) = 1
  BY ViewCapAssumption DEF Kept, Least
<1>3. IsRun(s, 1, 0, f, 1)
  BY <1>1, <1>2, RunTyped
<1>4. s \in Seq(Lines) /\ Len(s) = 1 /\ \A i \in 1..1 : s[i].index = IF 1 - i < 1 THEN f + 1 - 1 - (1 - i) ELSE 0 + 1 - 1 - (1 - i)
  BY <1>3 DEF IsRun
<1>5. s[1] \in Lines /\ s[1].index = f
  <2>1. 1 \in 1..1 /\ 1 - 1 < 1 /\ f + 1 - 1 - (1 - 1) = f
    OBVIOUS
  <2>2. s[1].index = f
    BY <1>4, <2>1
  <2>3. QED
    BY <1>4, <2>1, <2>2, ElementOfSeq
<1>6. s[1] = [index |-> f]
  BY <1>5 DEF Lines
<1>7. QED
  BY <1>1, <1>4, <1>6

\* A burst applied line by line.
LEMMA AppliedTo ==
    ASSUME NEW b, NEW es, NEW n \in Nat, Len(es) = n, NEW r, r[0] = b,
           \A k \in 1..n : r[k] = ApplyLogEvent(r[k - 1], es[k])
    PROVE  ApplyLogEvents(b, es) = r[n]
<1>1. PICK g : g = [k \in 0..n |-> r[k]]
  OBVIOUS
<1>2. g = [k \in 0..n |-> IF k = 0 THEN b ELSE ApplyLogEvent(g[k - 1], es[k])]
  <2>1. ASSUME NEW k \in 0..n
        PROVE  g[k] = IF k = 0 THEN b ELSE ApplyLogEvent(g[k - 1], es[k])
    <3>1. CASE k = 0
      BY <1>1, <3>1
    <3>2. CASE k # 0
      <4>1. k \in 1..n /\ k - 1 \in 0..n
        BY <3>2
      <4>2. g[k - 1] = r[k - 1] /\ g[k] = r[k]
        BY <1>1, <4>1
      <4>3. QED
        BY <3>2, <4>1, <4>2
    <3>3. QED
      BY <3>1, <3>2
  <2>2. QED
    BY <1>1, <2>1
<1>3. IsApplied(g, b, es)
  BY <1>2 DEF IsApplied
<1>4. ApplyLogEvents(b, es) = g[n]
  BY <1>3, AppliedIs
<1>5. QED
  BY <1>1, <1>4

\* The lines from f on.
Burst(f, n) == [i \in 1..n |-> [index |-> f + i - 1]]

LEMMA BurstLine ==
    ASSUME NEW f \in Nat, NEW n \in Nat
    PROVE  Len(Burst(f, n)) = n /\ \A k \in 1..n : Burst(f, n)[k] = [index |-> f + k - 1]
  BY DEF Burst

\* Each line of a burst goes to the end of the buffer it finds.
LEMMA BurstAppends ==
    ASSUME NEW p \in Nat, NEW f \in Nat, NEW n \in Nat, p <= f
    PROVE  ApplyLogEvents(Window(p), Burst(f, n)) = Run(p, f, n)
<1>1. PICK r, es, b : r = [k \in 0..n |-> Run(p, f, k)] /\ es = Burst(f, n) /\ b = Window(p)
  OBVIOUS
<1>2. r[0] = b
  BY <1>1, RunStarts
<1>3. ASSUME NEW k \in 1..n
      PROVE  r[k] = ApplyLogEvent(r[k - 1], es[k])
  <2>1. PICK j \in Nat : j = k - 1
    OBVIOUS
  <2>2. k = j + 1 /\ j \in 0..n /\ k \in 0..n
    BY <2>1
  <2>3. r[k] = Run(p, f, j + 1) /\ r[j] = Run(p, f, j)
    BY <1>1, <2>2
  <2>4. es[k] = [index |-> f + j]
    <3>1. es[k] = [index |-> f + k - 1]
      BY <1>1, BurstLine
    <3>2. f + k - 1 = f + j
      BY <2>1
    <3>3. QED
      BY <3>1, <3>2
  <2>5. ApplyLogEvent(Run(p, f, j), [index |-> f + j]) = Run(p, f, j + 1)
    BY RunNext
  <2>6. QED
    BY <2>1, <2>3, <2>4, <2>5
<1>4. Len(es) = n
  BY <1>1, BurstLine
<1>5. ApplyLogEvents(b, es) = r[n]
  BY <1>2, <1>3, <1>4, AppliedTo
<1>6. QED
  BY <1>1, <1>5

\* A burst that begins with the last line buffered: it is a duplicate.
LEMMA BurstRepeats ==
    ASSUME NEW p \in Nat, NEW f \in Nat, NEW n \in Nat, p = f + 1
    PROVE  ApplyLogEvents(Window(p), Burst(f, n + 1)) = Window(p + n)
<1>1. PICK l \in Nat : l = n + 1
  OBVIOUS
<1>2. PICK r, es, b : /\ r = [k \in 0..l |-> IF k = 0 THEN Window(p) ELSE Run(p, p, k - 1)]
                      /\ es = Burst(f, l) /\ b = Window(p)
  OBVIOUS
<1>3. r[0] = b
  BY <1>2
<1>4. ASSUME NEW k \in 1..l
      PROVE  r[k] = ApplyLogEvent(r[k - 1], es[k])
  <2>1. es[k] = [index |-> f + k - 1]
    BY <1>2, BurstLine
  <2>2. CASE k = 1
    <3>1. r[k] = Run(p, p, 0) /\ r[k - 1] = b
      BY <1>2, <2>2
    <3>2. r[k] = b
      BY <1>2, <3>1, RunStarts
    <3>3. LastIndex(b) = f
      <4>1. LastIndex(Run(p, p, 0)) = p - 1
        BY RunLast
      <4>2. QED
        BY <3>1, <3>2, <4>1
    <3>4. es[k].index = f
      BY <2>1, <2>2
    <3>5. ApplyLogEvent(b, es[k]) = b
      BY <3>3, <3>4 DEF ApplyLogEvent
    <3>6. QED
      BY <3>1, <3>2, <3>5
  <2>3. CASE k # 1
    <3>1. PICK j \in Nat : j = k - 2
      BY <2>3
    <3>2. k - 1 = j + 1 /\ k \in 0..l /\ k # 0 /\ k - 1 \in 0..l /\ k - 1 # 0 /\ (k - 1) - 1 = j
      BY <3>1
    <3>3. r[k] = Run(p, p, j + 1) /\ r[k - 1] = Run(p, p, j)
      BY <1>2, <3>2
    <3>4. es[k] = [index |-> p + j]
      <4>1. f + k - 1 = p + j
        BY <3>1
      <4>2. QED
        BY <2>1, <4>1
    <3>5. ApplyLogEvent(Run(p, p, j), [index |-> p + j]) = Run(p, p, j + 1)
      BY RunNext
    <3>6. QED
      BY <3>3, <3>4, <3>5
  <2>4. QED
    BY <2>2, <2>3
<1>5. Len(es) = l
  BY <1>2, BurstLine
<1>6. ApplyLogEvents(b, es) = r[l]
  BY <1>3, <1>4, <1>5, AppliedTo
<1>7. r[l] = Run(p, p, n)
  <2>1. l \in 0..l /\ l # 0 /\ l - 1 = n
    BY <1>1
  <2>2. QED
    BY <1>2, <2>1
<1>8. Run(p, p, n) = Window(p + n)
  BY RunIsWindow
<1>9. QED
  BY <1>1, <1>2, <1>6, <1>7, <1>8

\* A burst that begins further back: the buffer begins again with it.
LEMMA BurstResets ==
    ASSUME NEW p \in Nat, NEW f \in Nat, NEW n \in Nat, f + 1 < p, n > 0
    PROVE  ApplyLogEvents(Window(p), Burst(f, n)) = Run(0, f, n)
<1>2. PICK r, es, b : /\ r = [k \in 0..n |-> IF k = 0 THEN Window(p) ELSE Run(0, f, k)]
                      /\ es = Burst(f, n) /\ b = Window(p)
  OBVIOUS
<1>3. r[0] = b
  BY <1>2
<1>4. ASSUME NEW k \in 1..n
      PROVE  r[k] = ApplyLogEvent(r[k - 1], es[k])
  <2>1. es[k] = [index |-> f + k - 1]
    BY <1>2, BurstLine
  <2>2. CASE k = 1
    <3>1. r[k] = Run(0, f, 1) /\ r[k - 1] = b
      BY <1>2, <2>2
    <3>2. r[k] = <<[index |-> f]>>
      BY <3>1, RunOfOne
    <3>3. LastIndex(b) = p - 1
      <4>1. LastIndex(Run(p, p, 0)) = p - 1
        BY RunLast
      <4>2. QED
        BY <1>2, <4>1, RunStarts
    <3>4. es[k] = [index |-> f]
      BY <2>1, <2>2
    <3>5. es[k].index < LastIndex(b) /\ es[k].index # LastIndex(b) /\ ~(es[k].index > LastIndex(b))
      BY <3>3, <3>4
    <3>6. ApplyLogEvent(b, es[k]) = <<es[k]>>
      BY <3>5 DEF ApplyLogEvent
    <3>7. QED
      BY <3>1, <3>2, <3>4, <3>6
  <2>3. CASE k # 1
    <3>1. PICK j \in Nat : j = k - 1
      OBVIOUS
    <3>2. k = j + 1 /\ k \in 0..n /\ k # 0 /\ j \in 0..n /\ j # 0
      BY <2>3, <3>1
    <3>3. r[k] = Run(0, f, j + 1) /\ r[j] = Run(0, f, j)
      BY <1>2, <3>2
    <3>4. es[k] = [index |-> f + j]
      <4>1. f + k - 1 = f + j
        BY <3>1
      <4>2. QED
        BY <2>1, <4>1
    <3>5. ApplyLogEvent(Run(0, f, j), [index |-> f + j]) = Run(0, f, j + 1)
      BY RunNext
    <3>6. QED
      BY <3>1, <3>3, <3>4, <3>5
  <2>4. QED
    BY <2>2, <2>3
<1>5. Len(es) = n
  BY <1>2, BurstLine
<1>6. ApplyLogEvents(b, es) = r[n]
  BY <1>3, <1>4, <1>5, AppliedTo
<1>7. r[n] = Run(0, f, n)
  BY <1>2
<1>8. QED
  BY <1>2, <1>6, <1>7

\* A burst up to line n makes the window of n, wherever it begins, unless the
\* store would miss a line of it.
LEMMA BurstCatchesUp ==
    ASSUME NEW p \in Nat, NEW f \in Nat, NEW n \in Nat, p <= n, f <= n,
           f = 0 \/ f = p \/ n - f >= ViewCap
    PROVE  ApplyLogEvents(Window(p), Burst(f, n - f)) = Window(n)
<1>1. PICK d \in Nat : d = n - f /\ f + d = n
  OBVIOUS
<1>2. CASE p <= f
  <2>1. f = p \/ d >= ViewCap
    BY <1>1, <1>2
  <2>2. ApplyLogEvents(Window(p), Burst(f, d)) = Run(p, f, d)
    BY <1>2, BurstAppends
  <2>3. Run(p, f, d) = Window(f + d)
    BY <2>1, RunIsWindow
  <2>4. QED
    BY <1>1, <2>2, <2>3
<1>3. CASE p = f + 1
  <2>1. PICK m \in Nat : d = m + 1 /\ p + m = n
    <3>1. d - 1 \in Nat /\ d = (d - 1) + 1 /\ p + (d - 1) = n
      BY <1>1, <1>3
    <3>2. QED
      BY <3>1
  <2>2. ApplyLogEvents(Window(p), Burst(f, m + 1)) = Window(p + m)
    BY <1>3, BurstRepeats
  <2>3. QED
    BY <1>1, <2>1, <2>2
<1>4. CASE f + 1 < p
  <2>1. d > 0 /\ (f = 0 \/ d >= ViewCap)
    BY <1>1, <1>4
  <2>2. ApplyLogEvents(Window(p), Burst(f, d)) = Run(0, f, d)
    BY <1>4, <2>1, BurstResets
  <2>3. Run(0, f, d) = Window(f + d)
    BY <2>1, RunIsWindow
  <2>4. QED
    BY <1>1, <2>2, <2>3
<1>5. QED
  BY <1>2, <1>3, <1>4

\* The store's limit cuts the ring the way it cuts the lines as they come.
LEMMA CappedBurst ==
    ASSUME NEW f \in Nat, NEW n \in Nat, f = 0 \/ n >= ViewCap
    PROVE  Capped(Burst(f, n)) = Window(f + n)
<1>l. PICK l \in Nat : l = f + n
  OBVIOUS
<1>e. PICK es : es = Burst(f, n)
  OBVIOUS
<1>1. es = Burst(f, n) /\ l = f + n
  BY <1>l, <1>e
<1>2. /\ es \in Seq(Lines) /\ Len(es) = n
      /\ \A i \in 1..n : es[i] \in Lines /\ es[i].index = f + i - 1
  <2>1. \A i \in 1..n : es[i] = [index |-> f + i - 1] /\ f + i - 1 \in Int
    BY <1>1, BurstLine
  <2>2. ASSUME NEW i \in 1..n
        PROVE  es[i] \in Lines /\ es[i].index = f + i - 1
    <3>1. PICK x \in Int : x = f + i - 1
      OBVIOUS
    <3>2. es[i] = [index |-> x]
      BY <2>1, <3>1
    <3>3. QED
      BY <3>1, <3>2 DEF Lines
  <2>3. es \in [1..n -> Lines]
    BY <1>1, <2>2 DEF Burst
  <2>4. es \in Seq(Lines)
    BY <2>3
  <2>5. QED
    BY <1>1, <2>2, <2>4, BurstLine
<1>3. PICK d \in Nat : d = IF n > ViewCap THEN n - ViewCap ELSE 0
  <2>1. (IF n > ViewCap THEN n - ViewCap ELSE 0) \in Nat
    BY ViewCapAssumption
  <2>2. QED
    BY <2>1
<1>4. Capped(es) = SubSeq(es, 1 + d, n)
  BY <1>2, <1>3 DEF Capped
<1>5. PICK m \in Nat : m = n - d
  BY <1>3, ViewCapAssumption
<1>6. PICK c : c = SubSeq(es, 1 + d, n)
  OBVIOUS
<1>7. c \in Seq(Lines) /\ Len(c) = m /\ \A i \in 1..m : c[i] = es[i + d]
  <2>1. PICK a \in Nat : a = 1 + d
    OBVIOUS
  <2>2. a \in 1..(Len(es) + 1) /\ n \in (a - 1)..Len(es) /\ c = SubSeq(es, a, n)
    BY <1>2, <1>3, <1>5, <1>6, <2>1, SMTT(30)
  <2>3. c \in Seq(Lines) /\ Len(c) = n - a + 1 /\ \A i \in 1..(n - a + 1) : c[i] = es[a + i - 1]
    BY <1>2, <2>2, SubSeqProperties
  <2>4. n - a + 1 = m /\ \A i \in 1..m : a + i - 1 = i + d
    BY <1>5, <2>1
  <2>5. QED
    BY <2>3, <2>4
<1>8. m = Kept(0, l)
  BY <1>1, <1>3, <1>5, ViewCapAssumption DEF Kept, Least
<1>9. PICK t : t = Window(l)
  OBVIOUS
<1>10. IsRun(t, m, 0, 0, l)
  BY <1>8, <1>9, RunTyped DEF Window
<1>11. t \in Seq(Lines) /\ Len(t) = m
       /\ \A i \in 1..m : t[i].index = IF m - i < l THEN 0 + l - 1 - (m - i) ELSE 0 + l - 1 - (m - i)
  BY <1>10 DEF IsRun
<1>12. ASSUME NEW i \in 1..m
       PROVE  c[i] = t[i]
  <2>1. PICK j \in 1..n : j = i + d
    <3>1. i + d \in 1..n
      BY <1>5
    <3>2. QED
      BY <3>1
  <2>2. c[i] \in Lines /\ c[i].index = f + j - 1
    BY <1>2, <1>7, <2>1
  <2>3. t[i].index = l - 1 - (m - i)
    BY <1>11
  <2>4. t[i] \in Lines
    BY <1>11, ElementOfSeq
  <2>5. f + j - 1 = l - 1 - (m - i)
    BY <1>1, <1>5, <2>1
  <2>6. QED
    BY <2>2, <2>3, <2>4, <2>5 DEF Lines
<1>13. c = t
  BY <1>7, <1>11, <1>12, SeqEqual
<1>14. QED
  BY <1>1, <1>4, <1>6, <1>9, <1>13

\* The indexes in a window.
LEMMA WindowTyped ==
    ASSUME NEW n \in Nat
    PROVE  /\ LastIndex(Window(n)) = n - 1
           /\ \A i \in DOMAIN Window(n) : Window(n)[i].index \in 0..(n - 1)
<1>1. PICK t, m : t = Window(n) /\ m = Kept(0, n)
  OBVIOUS
<1>2. IsRun(t, m, 0, 0, n)
  BY <1>1, RunTyped DEF Window
<1>3. /\ m \in Nat /\ t \in Seq(Lines) /\ Len(t) = m
      /\ \A i \in 1..m : t[i].index = IF m - i < n THEN 0 + n - 1 - (m - i) ELSE 0 + n - 1 - (m - i)
  BY <1>2 DEF IsRun
<1>4. m <= n
  BY <1>1, ViewCapAssumption DEF Kept, Least
<1>5. DOMAIN t = 1..m
  BY <1>3
<1>6. \A i \in 1..m : t[i].index \in 0..(n - 1)
  BY <1>3, <1>4
<1>7. LastIndex(Window(n)) = n - 1
  <2>1. LastIndex(Run(n, n, 0)) = n - 1
    BY RunLast
  <2>2. QED
    BY <2>1, RunStarts
<1>8. QED
  BY <1>1, <1>5, <1>6, <1>7

-----------------------------------------------------------------------------
(* The lines the pump emits. *)

\* A burst that reaches the end of the ring and that the store, which has got
\* the lines before p, can take.
IsFlush(es, p, n) ==
    \E f \in 0..n : es = Burst(f, n - f) /\ (f = 0 \/ f = p \/ n - f >= ViewCap)

\* The lines of the ring from some line on.
LEMMA RingIsBurst ==
    ASSUME NEW p \in Nat, lines \in Nat, p <= lines
    PROVE  IsFlush(RingFrom(p), p, lines)
<1>1. PICK o \in Nat : o = Oldest /\ (o = 0 \/ lines - o = RingCap) /\ o <= lines
  <2>1. Oldest \in Nat /\ (Oldest = 0 \/ lines - Oldest = RingCap) /\ Oldest <= lines
    BY RingAssumption, ViewCapAssumption DEF Oldest
  <2>2. QED
    BY <2>1
<1>2. PICK f \in 0..lines : f = (IF p > o THEN p ELSE o)
  BY <1>1
<1>3. RingFrom(p) = Burst(f, lines - f)
  BY <1>1, <1>2 DEF RingFrom, Burst
<1>4. f = 0 \/ f = p \/ lines - f >= ViewCap
  BY <1>1, <1>2, RingAssumption, ViewCapAssumption
<1>5. QED
  BY <1>3, <1>4 DEF IsFlush

\* What the store comes to with it.
LEMMA FlushIsApplied ==
    ASSUME NEW p \in Nat, NEW n \in Nat, p <= n, NEW es, IsFlush(es, p, n)
    PROVE  /\ ApplyLogEvents(Window(p), es) = Window(n)
           /\ LastIndex(es) \in {None, n - 1}
<1>1. PICK f \in 0..n : es = Burst(f, n - f) /\ (f = 0 \/ f = p \/ n - f >= ViewCap)
  BY DEF IsFlush
<1>2. ApplyLogEvents(Window(p), es) = Window(n)
  BY <1>1, BurstCatchesUp
<1>3. LastIndex(es) \in {None, n - 1}
  <2>1. PICK d \in Nat : d = n - f
    BY <1>1
  <2>2. es = Burst(f, d)
    BY <1>1, <2>1
  <2>3. Len(es) = d /\ \A k \in 1..d : es[k] = [index |-> f + k - 1]
    BY <2>2, BurstLine
  <2>4. CASE es = <<>>
    BY <2>4 DEF LastIndex, None
  <2>5. CASE es # <<>>
    <3>1. d # 0
      BY <2>2, <2>5 DEF Burst
    <3>2. es[d] = [index |-> f + d - 1] /\ f + d - 1 = n - 1
      <4>1. d \in 1..d /\ f \in Nat
        BY <3>1
      <4>2. QED
        BY <2>1, <2>3, <4>1
    <3>3. QED
      BY <2>3, <2>5, <3>2 DEF LastIndex
  <2>6. QED
    BY <2>4, <2>5
<1>4. QED
  BY <1>2, <1>3

\* The frontend's buffer holds the end of the first p lines, the pump knows
\* what it emitted last, and p is short of the ring only while there is
\* something the pump has not looked at.
GotLines(p) ==
    /\ view = Window(p)
    /\ lastLog \in {None, p - 1}
    /\ (\A w \in Writers : outbox[w] = Nothing) /\ ~unseen /\ pump.at \notin {"flushing", "gone"}
          => p = lines

ViewInv == lines \in Nat /\ inner \in Snapshots /\ \E p \in 0..lines : GotLines(p)

\* The lines the pump emits are such a burst.
LEMMA FlushCatchesUp ==
    ASSUME NEW p \in 0..lines, lines \in Nat, view = Window(p), lastLog \in {None, p - 1}, FlushLogs
    PROVE  view' = Window(lines) /\ lastLog' \in {None, lines - 1}
<1>1. PICK es : es = NewEntries
  OBVIOUS
<1>2. IsFlush(es, p, lines)
  <2>1. CASE lastLog = None
    <3>1. es = RingFrom(0)
      BY <1>1, <2>1 DEF NewEntries, LogSnapshot
    <3>2. IsFlush(es, 0, lines)
      BY <3>1, RingIsBurst
    <3>3. QED
      BY <3>2 DEF IsFlush
  <2>2. CASE lastLog # None
    <3>1. es = RingFrom(p)
      <4>1. lastLog + 1 = p
        BY <2>2
      <4>2. QED
        BY <1>1, <2>2, <4>1 DEF NewEntries, LogEntriesSince
    <3>2. QED
      BY <3>1, RingIsBurst
  <2>3. QED
    BY <2>1, <2>2
<1>3. view' = ApplyLogEvents(view, es) /\ lastLog' = LastIndex(es)
  BY <1>1 DEF FlushLogs
<1>4. ApplyLogEvents(Window(p), es) = Window(lines) /\ LastIndex(es) \in {None, lines - 1}
  BY <1>2, FlushIsApplied
<1>5. QED
  BY <1>3, <1>4

\* The buffer at the start.
LEMMA ViewInit == Init => ViewInv
<1>1. SUFFICES ASSUME Init PROVE ViewInv
  OBVIOUS
<1>2. Window(0) = <<>>
  <2>1. Kept(0, 0) = 0
    BY ViewCapAssumption DEF Kept, Least
  <2>2. QED
    BY <2>1 DEF Window, Run
<1>3. GotLines(0)
  BY <1>1, <1>2 DEF Init, GotLines, None
<1>4. inner \in Snapshots /\ 0 \in 0..lines
  BY <1>1 DEF Init, Snapshots, States
<1>5. QED
  BY <1>1, <1>3, <1>4 DEF Init, ViewInv

\* A write leaves something to look at.
LEMMA ViewMutate ==
    ASSUME ViewInv, NEW w \in Writers, NEW s \in States, NEW k \in {0, 1}, Mutate(w, s, k),
           outbox \in [Writers -> Snapshots \cup {Nothing}]
    PROVE  ViewInv'
<1>1. PICK p \in 0..lines : GotLines(p)
  BY DEF ViewInv
<1>2. lines' \in Nat /\ inner' \in Snapshots /\ inner'.rev > 0 /\ p \in 0..(lines')
  BY DEF Mutate, ViewInv, Snapshots
<1>3. outbox'[w] # Nothing
  BY <1>2 DEF Mutate, Nothing, None
<1>4. GotLines(p)'
  BY <1>1, <1>3 DEF GotLines, Mutate, sinkVars, pumpVars
<1>5. QED
  BY <1>2, <1>4 DEF ViewInv

\* A step that touches nothing the buffer is about.
LEMMA ViewKept ==
    ASSUME ViewInv,
           UNCHANGED <<inner, lines, outbox, unseen, view, lastLog>>,
           pump'.at \in {"flushing", "gone"} \/ pump.at \notin {"flushing", "gone"}
    PROVE  ViewInv'
<1>1. PICK p \in 0..lines : GotLines(p)
  BY DEF ViewInv
<1>2. GotLines(p)'
  BY <1>1 DEF GotLines
<1>3. QED
  BY <1>2 DEF ViewInv

\* After the pump has emitted the lines, the buffer is up to date.
LEMMA ViewFlushed ==
    ASSUME ViewInv, FlushLogs, UNCHANGED supVars
    PROVE  ViewInv'
<1>1. PICK p \in 0..lines : GotLines(p)
  BY DEF ViewInv
<1>2. lines \in Nat /\ lines' = lines /\ inner' = inner /\ inner \in Snapshots
  BY DEF ViewInv, supVars
<1>3. view' = Window(lines) /\ lastLog' \in {None, lines - 1}
  BY <1>1, <1>2, FlushCatchesUp DEF GotLines
<1>4. GotLines(lines)'
  BY <1>2, <1>3 DEF GotLines
<1>5. lines' \in 0..lines'
  BY <1>2
<1>6. QED
  BY <1>2, <1>4, <1>5 DEF ViewInv

\* Every step keeps ViewInv.
LEMMA ViewStep ==
    ASSUME TypeOK, ViewInv, [Next]_vars
    PROVE  ViewInv'
<1> USE DEF TypeOK
<1>s. inner.state \in States
  BY DEF Snapshots
<1>1. CASE StartResets
  BY <1>1, ViewMutate DEF StartResets, Writers, States
<1>2. CASE StartLogs
  BY <1>2, <1>s, ViewMutate DEF StartLogs, Writers
<1>3. CASE StartSpawns
  BY <1>3, ViewKept DEF StartSpawns, pumpVars, sinkVars
<1>4. CASE TaskWrites
  <2>1. Moves[inner.state] \subseteq States
    BY <1>s DEF Moves, States
  <2>2. CASE \E s \in Moves[inner.state] : Mutate("task", s, 0)
    BY <2>1, <2>2, ViewMutate DEF Writers
  <2>3. CASE Mutate("task", inner.state, 1)
    BY <2>3, <1>s, ViewMutate DEF Writers
  <2>4. QED
    BY <1>4, <2>2, <2>3 DEF TaskWrites
<1>5. CASE TaskStops
  BY <1>5, ViewMutate DEF TaskStops, Writers, States
<1>6. CASE TaskEnds
  BY <1>6, ViewKept DEF TaskEnds, pumpVars, sinkVars
<1>7. CASE \E w \in Writers : Publish(w)
  <2>1. PICK w \in Writers : Publish(w)
    BY <1>7
  <2>2. PICK p \in 0..lines : GotLines(p)
    BY DEF ViewInv
  <2>3. GotLines(p)'
    BY <2>1, <2>2 DEF GotLines, Publish, sinkVars
  <2>4. QED
    BY <2>1, <2>3 DEF ViewInv, Publish
<1>8. CASE StopBegins
  BY <1>8, ViewKept DEF StopBegins, supVars, pumpVars, sinkVars
<1>9. CASE StopJoins
  BY <1>9, ViewKept DEF StopJoins, pumpVars, sinkVars
<1>10. CASE StopMarks
  BY <1>10, ViewMutate DEF StopMarks, Writers, States
<1>11. CASE StopLogs
  BY <1>11, <1>s, ViewMutate DEF StopLogs, Writers
<1>12. CASE StopSilences
  BY <1>12, ViewKept DEF StopSilences, supVars, pumpVars, sinkVars
<1>13. CASE StopEmits
  BY <1>13, ViewKept DEF StopEmits, supVars, pumpVars
<1>14. CASE PumpWakes
  <2>1. PICK p \in 0..lines : GotLines(p)
    BY DEF ViewInv
  <2>2. GotLines(p)'
    BY <1>14, <2>1 DEF GotLines, PumpWakes, supVars, sinkVars
  <2>3. QED
    BY <1>14, <2>2 DEF ViewInv, PumpWakes, supVars
<1>15. CASE PumpShowsStop
  BY <1>15, ViewFlushed DEF PumpShowsStop
<1>16. CASE PumpDecides
  BY <1>16, ViewFlushed DEF PumpDecides
<1>17. CASE PumpTimer
  BY <1>17, ViewKept DEF PumpTimer, supVars, sinkVars
<1>18. CASE PumpReads
  BY <1>18, ViewKept DEF PumpReads, supVars, sinkVars
<1>19. CASE PumpEmits
  BY <1>19, ViewKept DEF PumpEmits, supVars
<1>20. CASE WindowCloses
  BY <1>20, ViewKept DEF WindowCloses, supVars, sinkVars
<1>21. CASE PumpCancelled
  BY <1>21, ViewKept DEF PumpCancelled, supVars, sinkVars, Goto
<1>22. CASE UNCHANGED vars
  BY <1>22, ViewKept DEF vars, supVars, pumpVars, sinkVars
<1>23. QED
  BY <1>1, <1>2, <1>3, <1>4, <1>5, <1>6, <1>7, <1>8, <1>9, <1>10, <1>11, <1>12, <1>13, <1>14,
     <1>15, <1>16, <1>17, <1>18, <1>19, <1>20, <1>21, <1>22
     DEF Next, TaskStep, StopStep, PumpStep

-----------------------------------------------------------------------------
(* The types. *)

\* The part of TypeOK that is not about the buffer.
Typed ==
    /\ watch \in Snapshots
    /\ outbox \in [Writers -> Snapshots \cup {Nothing}]
    /\ task \in {"resetting", "greeting", "spawning", "running", "ending", "aborted",
                "over", "cancelled"}
    /\ budget \in 0..MaxWrites
    /\ mgr \in {"idle", "waiting", "marking", "logging", "silencing", "emitting", "done"}
    /\ pump.at \in {"entering", "waiting", "flushing", "reading", "emitting", "gone"}
    /\ {pump.read, shown} \subseteq Snapshots \cup {Nothing}
    /\ {unseen, recent, pending} \subseteq BOOLEAN

\* The rest follows from ViewInv.
LEMMA ViewTyped == ViewInv /\ Typed => TypeOK
<1>1. SUFFICES ASSUME ViewInv, Typed PROVE TypeOK
  OBVIOUS
<1>2. PICK p \in 0..lines : GotLines(p)
  BY <1>1 DEF ViewInv
<1>3. lines \in Nat /\ inner \in Snapshots /\ p \in Nat
  BY <1>1, <1>2 DEF ViewInv
<1>4. \A i \in DOMAIN view : view[i].index \in 0..(p - 1)
  BY <1>2, <1>3, WindowTyped DEF GotLines
<1>5. \A i \in DOMAIN view : view[i].index \in 0..(lines - 1)
  BY <1>3, <1>4
<1>6. lastLog \in None..(lines - 1)
  BY <1>2, <1>3 DEF GotLines, None
<1>7. QED
  BY <1>1, <1>3, <1>5, <1>6 DEF TypeOK, Typed

\* A write of one of them keeps the types.
LEMMA TypedMutate ==
    ASSUME TypeOK, NEW w \in Writers, NEW s \in States, NEW k \in {0, 1}, Mutate(w, s, k)
    PROVE  /\ inner' \in Snapshots /\ watch' \in Snapshots
           /\ outbox' \in [Writers -> Snapshots \cup {Nothing}]
           /\ pump'.at \in {"entering", "waiting", "flushing", "reading", "emitting", "gone"}
           /\ {pump'.read, shown'} \subseteq Snapshots \cup {Nothing}
           /\ {unseen', recent', pending'} \subseteq BOOLEAN
<1>1. inner' \in Snapshots
  BY DEF TypeOK, Mutate, Snapshots
<1>2. UNCHANGED <<watch, pumpVars, sinkVars>> /\ outbox' = [outbox EXCEPT ![w] = inner']
  BY DEF Mutate
<1>3. outbox' \in [Writers -> Snapshots \cup {Nothing}]
  BY <1>1, <1>2 DEF TypeOK
<1>4. QED
  BY <1>1, <1>2, <1>3 DEF TypeOK, pumpVars, sinkVars

\* Every step keeps the types.
LEMMA TypedStep ==
    ASSUME TypeOK, [Next]_vars
    PROVE  Typed'
<1>b. /\ unseen \in BOOLEAN /\ recent \in BOOLEAN /\ pending \in BOOLEAN
      /\ pump.read \in Snapshots \cup {Nothing} /\ shown \in Snapshots \cup {Nothing}
  BY DEF TypeOK
<1>s. inner.state \in States /\ inner \in Snapshots
  BY DEF TypeOK, Snapshots
<1>1. CASE StartResets
  BY <1>1, TypedMutate DEF StartResets, Writers, States, Typed, TypeOK
<1>2. CASE StartLogs
  BY <1>2, <1>s, TypedMutate DEF StartLogs, Writers, Typed, TypeOK
<1>3. CASE StartSpawns
  BY <1>3 DEF StartSpawns, pumpVars, sinkVars, Typed, TypeOK
<1>4. CASE TaskWrites
  <2>1. Moves[inner.state] \subseteq States
    BY <1>s DEF Moves, States
  <2>2. PICK s \in States, k \in {0, 1} : Mutate("task", s, k)
    BY <1>4, <1>s, <2>1 DEF TaskWrites
  <2>3. budget' \in 0..MaxWrites /\ task' = task /\ mgr' = mgr
    BY <1>4, RingAssumption DEF TaskWrites, TypeOK
  <2>4. "task" \in Writers
    BY DEF Writers
  <2>5. QED
    BY <2>2, <2>3, <2>4, TypedMutate DEF Typed, TypeOK
<1>5. CASE TaskStops
  BY <1>5, TypedMutate DEF TaskStops, Writers, States, Typed, TypeOK
<1>6. CASE TaskEnds
  BY <1>6 DEF TaskEnds, pumpVars, sinkVars, Typed, TypeOK
<1>7. CASE \E w \in Writers : Publish(w)
  <2>1. PICK w \in Writers : Publish(w)
    BY <1>7
  <2>2. outbox[w] \in Snapshots
    BY <2>1 DEF TypeOK, Publish
  <2>3. outbox' \in [Writers -> Snapshots \cup {Nothing}] /\ watch' \in Snapshots /\ unseen' \in BOOLEAN
    BY <2>1, <2>2 DEF TypeOK, Publish
  <2>4. QED
    BY <1>b, <2>1, <2>3 DEF Typed, TypeOK, Publish, sinkVars
<1>8. CASE StopBegins
  BY <1>8 DEF StopBegins, supVars, pumpVars, sinkVars, Typed, TypeOK
<1>9. CASE StopJoins
  BY <1>9 DEF StopJoins, pumpVars, sinkVars, Typed, TypeOK
<1>10. CASE StopMarks
  BY <1>10, TypedMutate DEF StopMarks, Writers, States, Typed, TypeOK
<1>11. CASE StopLogs
  BY <1>11, <1>s, TypedMutate DEF StopLogs, Writers, Typed, TypeOK
<1>12. CASE StopSilences
  BY <1>12 DEF StopSilences, supVars, pumpVars, sinkVars, Typed, TypeOK
<1>13. CASE StopEmits
  BY <1>13 DEF StopEmits, supVars, pumpVars, Typed, TypeOK
<1>14. CASE PumpWakes
  BY <1>14 DEF PumpWakes, supVars, sinkVars, Typed, TypeOK
<1>15. CASE PumpShowsStop
  <2>1. pump'.at = "gone" /\ pump'.read = Nothing /\ shown' = pump.read
    BY <1>15 DEF PumpShowsStop, Goto
  <2>2. UNCHANGED <<supVars, mgr, unseen, recent, pending>>
    BY <1>15 DEF PumpShowsStop
  <2>3. QED
    BY <1>b, <2>1, <2>2 DEF supVars, Typed, TypeOK
<1>16. CASE PumpDecides
  <2>1. pump'.at \in {"waiting", "reading"} /\ pump'.read = Nothing
    BY <1>16 DEF PumpDecides, Goto
  <2>2. pending' = (pending \/ recent) /\ UNCHANGED <<supVars, mgr, unseen, recent, shown>>
    BY <1>16 DEF PumpDecides
  <2>3. pending' \in BOOLEAN
    BY <2>2
  <2>4. QED
    BY <1>b, <2>1, <2>2, <2>3 DEF supVars, Typed, TypeOK
<1>17. CASE PumpTimer
  BY <1>17 DEF PumpTimer, Goto, supVars, sinkVars, Typed, TypeOK
<1>18. CASE PumpReads
  BY <1>18 DEF PumpReads, supVars, sinkVars, Typed, TypeOK
<1>19. CASE PumpEmits
  BY <1>19 DEF PumpEmits, Goto, supVars, Typed, TypeOK
<1>20. CASE WindowCloses
  BY <1>20 DEF WindowCloses, supVars, sinkVars, Typed, TypeOK
<1>21. CASE PumpCancelled
  BY <1>21 DEF PumpCancelled, Goto, supVars, sinkVars, Typed, TypeOK
<1>22. CASE UNCHANGED vars
  BY <1>22 DEF vars, supVars, pumpVars, sinkVars, Typed, TypeOK
<1>23. QED
  BY <1>1, <1>2, <1>3, <1>4, <1>5, <1>6, <1>7, <1>8, <1>9, <1>10, <1>11, <1>12, <1>13, <1>14,
     <1>15, <1>16, <1>17, <1>18, <1>19, <1>20, <1>21, <1>22
     DEF Next, TaskStep, StopStep, PumpStep

\* The types and the buffer, together.
LEMMA ViewInductive == Spec => [](TypeOK /\ ViewInv)
<1>1. Init => TypeOK /\ ViewInv
  <2>1. SUFFICES ASSUME Init PROVE TypeOK /\ ViewInv
    OBVIOUS
  <2>2. ViewInv
    BY <2>1, ViewInit
  <2>3. Typed
    <3>1. watch \in Snapshots /\ outbox \in [Writers -> Snapshots \cup {Nothing}]
      BY <2>1 DEF Init, Snapshots, States
    <3>2. budget \in 0..MaxWrites
      BY <2>1, RingAssumption DEF Init
    <3>3. pump.read = Nothing /\ shown = Nothing /\ pump.at = "entering"
      BY <2>1 DEF Init
    <3>4. QED
      BY <2>1, <3>1, <3>2, <3>3 DEF Init, Typed
  <2>4. QED
    BY <2>2, <2>3, ViewTyped
<1>2. TypeOK /\ ViewInv /\ [Next]_vars => (TypeOK /\ ViewInv)'
  <2>1. SUFFICES ASSUME TypeOK, ViewInv, [Next]_vars PROVE (TypeOK /\ ViewInv)'
    OBVIOUS
  <2>2. ViewInv' /\ Typed'
    BY <2>1, ViewStep, TypedStep
  <2>3. QED
    BY <2>2, ViewTyped, PTL
<1>3. QED
  BY <1>1, <1>2, PTL DEF Spec

\* The types of the pump and of the two it stands between.
THEOREM PumpTyped == Spec => []TypeOK
  BY ViewInductive, PTL

\* docs/EVENTS.md:66, for every size of the ring and of the store: what the
\* pump emits again and what it skips come to the end of the ring.
THEOREM BufferFollowsRing == Spec => []ViewMatchesRing
<1>1. TypeOK /\ ViewInv => ViewMatchesRing
  <2>1. SUFFICES ASSUME TypeOK, ViewInv, pump.at = "waiting", ~unseen,
                        outbox = [w \in Writers |-> Nothing]
                 PROVE  view = Capped(LogSnapshot)
    BY DEF ViewMatchesRing
  <2>2. view = Window(lines) /\ lines \in Nat
    BY <2>1 DEF ViewInv, GotLines
  <2>3. IsFlush(RingFrom(0), 0, lines)
    BY <2>2, RingIsBurst
  <2>4. PICK f \in 0..lines : RingFrom(0) = Burst(f, lines - f) /\ (f = 0 \/ lines - f >= ViewCap)
    BY <2>3 DEF IsFlush
  <2>5. PICK n \in Nat : n = lines - f /\ f + n = lines
    BY <2>2, <2>4
  <2>6. Capped(Burst(f, n)) = Window(f + n)
    BY <2>4, <2>5, CappedBurst
  <2>7. QED
    BY <2>2, <2>4, <2>5, <2>6 DEF LogSnapshot
<1>2. QED
  BY <1>1, ViewInductive, PTL

-----------------------------------------------------------------------------
(* The statuses on their way to the frontend. *)

\* Every snapshot somebody may still publish, read or look back to.
InUse == {inner, watch, pump.read, shown} \cup {outbox[w] : w \in Writers}

\* None is newer than the state itself.
NoneNewer == \A x \in InUse : x.rev <= inner.rev

\* Whatever is not older than a stopped one is stopped.
StopsLast == \A x, y \in InUse : x.rev <= y.rev /\ x.state = "stopped" => y.state = "stopped"

Aborted == task \in {"aborted", "cancelled"}

\* There is something the pump has not looked at.
Unsaid == (\E w \in Writers : outbox[w] # Nothing) \/ unseen

ShownInv ==
    /\ NoneNewer
    /\ ~Aborted =>
         /\ inner.state = "stopped" => task \in {"ending", "over"}
         /\ mgr \notin {"idle", "waiting"} => task = "over"
         /\ StopsLast
    /\ mgr # "done" =>
         /\ pump.at = "emitting" => shown.rev <= pump.read.rev
         /\ pump.at = "emitting" /\ ~Unsaid => pump.read.rev = inner.rev
         /\ pump.at = "waiting" /\ ~Unsaid /\ ~pending => shown.rev = inner.rev

\* What the snapshots in use are.
LEMMA InUseTyped ==
    ASSUME TypeOK
    PROVE  /\ \A x \in InUse : x = Nothing \/ (x.state \in States /\ x.rev \in Nat)
           /\ inner.rev \in Nat /\ inner.state \in States
           /\ Nothing.rev = -1 /\ Nothing.state = "idle"
<1>1. InUse \subseteq Snapshots \cup {Nothing}
  BY DEF TypeOK, InUse
<1>2. \A x \in Snapshots : x.state \in States /\ x.rev \in Nat
  BY DEF Snapshots
<1>3. inner \in Snapshots
  BY DEF TypeOK
<1>4. QED
  BY <1>1, <1>2, <1>3 DEF Nothing, None

\* A step that only hands snapshots on keeps their order.
LEMMA OrderKept ==
    ASSUME TypeOK, NoneNewer, inner' = inner, InUse' \subseteq InUse \cup {Nothing}
    PROVE  NoneNewer' /\ (StopsLast => StopsLast')
<1>1. NoneNewer'
  <2>1. \A x \in InUse \cup {Nothing} : x.rev <= inner.rev
    BY InUseTyped DEF NoneNewer
  <2>2. QED
    BY <2>1 DEF NoneNewer
<1>2. ASSUME StopsLast
      PROVE  StopsLast'
  <2>1. ASSUME NEW x \in InUse \cup {Nothing}, NEW y \in InUse \cup {Nothing},
               x.rev <= y.rev, x.state = "stopped"
        PROVE  y.state = "stopped"
    <3>1. x \in InUse /\ x # Nothing
      BY <2>1, InUseTyped
    <3>2. x.rev \in Nat /\ y.rev >= 0
      <4>1. x.rev \in Nat
        BY <3>1, InUseTyped
      <4>2. y.rev \in Int
        BY InUseTyped
      <4>3. QED
        BY <2>1, <4>1, <4>2
    <3>3. y \in InUse
      BY <3>2, InUseTyped
    <3>4. QED
      BY <1>2, <2>1, <3>1, <3>3 DEF StopsLast
  <2>2. QED
    BY <2>1 DEF StopsLast
<1>3. QED
  BY <1>1, <1>2

\* So does a write, unless it takes back a stop.
LEMMA OrderMutate ==
    ASSUME TypeOK, NoneNewer, NEW w \in Writers, NEW s \in States, NEW k \in {0, 1}, Mutate(w, s, k)
    PROVE  /\ NoneNewer'
           /\ StopsLast /\ (inner.state = "stopped" => s = "stopped") => StopsLast'
           /\ outbox'[w] # Nothing /\ inner'.state = s /\ pump' = pump /\ shown' = shown
<1>1. PICK r \in Nat : r = inner.rev
  BY InUseTyped
<1>2. inner' = [state |-> s, rev |-> r + 1] /\ UNCHANGED <<watch, pump, shown>>
  BY <1>1 DEF Mutate, pumpVars, sinkVars
<1>i. inner'.rev = r + 1 /\ inner'.state = s
  BY <1>2
<1>3. InUse' \subseteq InUse \cup {inner'}
  <2>1. outbox' = [outbox EXCEPT ![w] = inner'] /\ DOMAIN outbox = Writers
    BY DEF Mutate, TypeOK
  <2>2. \A v \in Writers : outbox'[v] = outbox[v] \/ outbox'[v] = inner'
    BY <2>1
  <2>3. QED
    BY <1>2, <2>2 DEF InUse
<1>4. \A x \in InUse : x.rev <= r /\ x.rev \in Int
  BY <1>1, InUseTyped DEF NoneNewer
<1>5. NoneNewer'
  BY <1>i, <1>3, <1>4 DEF NoneNewer
<1>6. ASSUME StopsLast, inner.state = "stopped" => s = "stopped"
      PROVE  StopsLast'
  <2>1. ASSUME NEW x \in InUse', NEW y \in InUse', x.rev <= y.rev, x.state = "stopped"
        PROVE  y.state = "stopped"
    <3>1. CASE x \in InUse
      <4>1. inner \in InUse /\ inner.rev = r
        BY <1>1 DEF InUse
      <4>2. inner.state = "stopped"
        BY <1>4, <1>6, <2>1, <3>1, <4>1 DEF StopsLast
      <4>3. CASE y \in InUse
        BY <1>6, <2>1, <3>1, <4>3 DEF StopsLast
      <4>4. CASE y = inner'
        BY <1>6, <1>i, <4>2, <4>4
      <4>5. QED
        BY <1>3, <4>3, <4>4
    <3>2. CASE x = inner'
      <4>1. y \notin InUse
        BY <1>1, <1>4, <1>i, <2>1, <3>2
      <4>2. QED
        BY <1>3, <2>1, <3>2, <4>1
    <3>3. QED
      BY <1>3, <3>1, <3>2
  <2>2. QED
    BY <2>1 DEF StopsLast
<1>7. outbox'[w] # Nothing
  <2>1. outbox'[w] = inner'
    BY DEF Mutate, TypeOK
  <2>2. inner' # Nothing
    BY <1>i, InUseTyped
  <2>3. QED
    BY <2>1, <2>2
<1>8. QED
  BY <1>2, <1>i, <1>5, <1>6, <1>7

\* The frontend starts with nothing.
LEMMA ShownInit == Init => ShownInv
<1>1. SUFFICES ASSUME Init PROVE ShownInv
  OBVIOUS
<1>2. InUse = {inner, Nothing}
  BY <1>1 DEF Init, InUse, Writers
<1>3. inner.rev = 0 /\ inner.state = "idle" /\ Nothing.rev = -1 /\ Nothing.state = "idle"
  BY <1>1 DEF Init, Nothing, None
<1>4. NoneNewer /\ StopsLast
  BY <1>2, <1>3 DEF NoneNewer, StopsLast
<1>5. mgr = "idle" /\ pump.at = "entering"
  BY <1>1 DEF Init
<1>6. QED
  BY <1>3, <1>4, <1>5 DEF ShownInv

\* A write that does not take back a stop keeps ShownInv.
LEMMA ShownMutate ==
    ASSUME TypeOK, ShownInv, NEW w \in Writers, NEW s \in States, NEW k \in {0, 1}, Mutate(w, s, k),
           ~Aborted' =>
             /\ ~Aborted
             /\ s = "stopped" => task' \in {"ending", "over"}
             /\ inner.state = "stopped" => s = "stopped"
             /\ mgr' \notin {"idle", "waiting"} => task' = "over",
           mgr = "done" => mgr' = "done"
    PROVE  ShownInv'
<1>1. /\ NoneNewer'
      /\ StopsLast /\ (inner.state = "stopped" => s = "stopped") => StopsLast'
      /\ outbox'[w] # Nothing /\ inner'.state = s /\ pump' = pump /\ shown' = shown
  BY OrderMutate DEF ShownInv
<1>2. Unsaid'
  BY <1>1 DEF Unsaid
<1>3. CASE mgr # "done"
  BY <1>1, <1>2, <1>3 DEF ShownInv
<1>4. CASE mgr = "done"
  BY <1>1, <1>4 DEF ShownInv
<1>5. QED
  BY <1>3, <1>4

\* A step of the task or of the stop that writes nothing keeps it.
LEMMA ShownKept ==
    ASSUME TypeOK, ShownInv, UNCHANGED <<inner, outbox, watch, pump, shown, unseen, pending>>,
           ~Aborted' =>
             /\ ~Aborted
             /\ task \in {"ending", "over"} => task' \in {"ending", "over"}
             /\ mgr' \notin {"idle", "waiting"} => task' = "over",
           mgr = "done" => mgr' = "done"
    PROVE  ShownInv'
<1>1. InUse' = InUse
  BY DEF InUse
<1>2. NoneNewer' /\ (StopsLast => StopsLast')
  BY <1>1, OrderKept DEF ShownInv
<1>3. Unsaid' = Unsaid
  BY DEF Unsaid
<1>4. QED
  BY <1>2, <1>3 DEF ShownInv

\* And one that touches none of what it is about.
LEMMA ShownUnmoved ==
    ASSUME TypeOK, ShownInv,
           UNCHANGED <<task, mgr, inner, outbox, watch, pump, shown, unseen, pending>>
    PROVE  ShownInv'
  BY DEF ShownInv, Aborted, Unsaid, NoneNewer, StopsLast, InUse

\* Every step keeps ShownInv.
LEMMA ShownStep ==
    ASSUME TypeOK, ShownInv, [Next]_vars
    PROVE  ShownInv'
<1>s. inner.state \in States
  BY InUseTyped
<1>a. NoneNewer
  BY DEF ShownInv
<1>1. CASE StartResets
  <2>1. Mutate("task", "idle", 0) /\ task = "resetting" /\ task' = "greeting" /\ mgr' = mgr
    BY <1>1 DEF StartResets
  <2>2. inner.state # "stopped" /\ (mgr' \in {"idle", "waiting"})
    BY <2>1 DEF ShownInv, Aborted
  <2>3. QED
    BY <2>1, <2>2, ShownMutate DEF Writers, States, Aborted
<1>2. CASE StartLogs
  <2>1. Mutate("task", inner.state, 1) /\ task = "greeting" /\ task' = "spawning" /\ mgr' = mgr
    BY <1>2 DEF StartLogs
  <2>2. inner.state # "stopped" /\ (mgr' \in {"idle", "waiting"})
    BY <2>1 DEF ShownInv, Aborted
  <2>3. QED
    BY <1>s, <2>1, <2>2, ShownMutate DEF Writers, Aborted
<1>3. CASE StartSpawns
  <2>1. task = "spawning" /\ task' = "running" /\ mgr' = mgr
        /\ UNCHANGED <<inner, outbox, watch, pump, shown, unseen, pending>>
    BY <1>3 DEF StartSpawns, pumpVars, sinkVars
  <2>2. mgr' \in {"idle", "waiting"}
    BY <2>1 DEF ShownInv, Aborted
  <2>3. QED
    BY <2>1, <2>2, ShownKept DEF Aborted
<1>4. CASE TaskWrites
  <2>1. PICK s \in States, k \in {0, 1} :
             Mutate("task", s, k) /\ (s = inner.state \/ s \in Moves[inner.state])
    <3>1. Moves[inner.state] \subseteq States
      BY <1>s DEF Moves, States
    <3>2. QED
      BY <1>4, <1>s, <3>1 DEF TaskWrites
  <2>2. task \in {"running", "aborted"} /\ task' = task /\ mgr' = mgr
    BY <1>4 DEF TaskWrites
  <2>3. task = "running" => inner.state # "stopped" /\ mgr' \in {"idle", "waiting"}
    BY <2>2 DEF ShownInv, Aborted
  <2>4. task = "running" => s # "stopped"
    BY <1>s, <2>1, <2>3 DEF Moves, States
  <2>5. QED
    BY <2>1, <2>2, <2>3, <2>4, ShownMutate DEF Writers, Aborted
<1>5. CASE TaskStops
  <2>1. Mutate("task", "stopped", 0) /\ task = "running" /\ task' = "ending" /\ mgr' = mgr /\ mgr = "waiting"
    BY <1>5 DEF TaskStops
  <2>2. QED
    BY <2>1, ShownMutate DEF Writers, States, Aborted
<1>6. CASE TaskEnds
  <2>1. task \in {"running", "ending", "aborted"} /\ task' \in {"cancelled", "over"} /\ mgr' = mgr
        /\ (task = "aborted" => task' = "cancelled")
        /\ UNCHANGED <<inner, outbox, watch, pump, shown, unseen, pending>>
    BY <1>6 DEF TaskEnds, pumpVars, sinkVars
  <2>2. QED
    BY <2>1, ShownKept DEF Aborted
<1>7. CASE \E w \in Writers : Publish(w)
  <2>1. PICK w \in Writers : Publish(w)
    BY <1>7
  <2>2. /\ UNCHANGED <<inner, task, mgr, pump, shown>> /\ watch' = outbox[w] /\ unseen' = TRUE
        /\ outbox' = [outbox EXCEPT ![w] = Nothing]
    BY <2>1 DEF Publish, sinkVars
  <2>3. InUse' \subseteq InUse \cup {Nothing}
    <3>1. \A v \in Writers : outbox'[v] \in {outbox[v], Nothing}
      BY <2>2 DEF TypeOK
    <3>2. QED
      BY <2>2, <3>1 DEF InUse
  <2>4. NoneNewer' /\ (StopsLast => StopsLast')
    BY <1>a, <2>2, <2>3, OrderKept
  <2>5. Unsaid'
    BY <2>2 DEF Unsaid
  <2>6. QED
    BY <2>2, <2>4, <2>5 DEF ShownInv, Aborted
<1>8. CASE StopBegins
  <2>1. mgr = "idle" /\ mgr' = "waiting" /\ task' = task
        /\ UNCHANGED <<inner, outbox, watch, pump, shown, unseen, pending>>
    BY <1>8 DEF StopBegins, supVars, pumpVars, sinkVars
  <2>2. QED
    BY <2>1, ShownKept DEF Aborted
<1>9. CASE StopJoins
  <2>1. mgr = "waiting" /\ mgr' = "marking" /\ ((task = "over" /\ task' = "over") \/ task' = "aborted")
        /\ UNCHANGED <<inner, outbox, watch, pump, shown, unseen, pending>>
    BY <1>9 DEF StopJoins, pumpVars, sinkVars
  <2>2. QED
    BY <2>1, ShownKept DEF Aborted
<1>10. CASE StopMarks
  <2>1. mgr = "marking" /\ mgr' = "logging" /\ task' = task /\ Mutate("stop", "stopped", 0)
    BY <1>10 DEF StopMarks
  <2>2. ~Aborted => task = "over"
    BY <2>1 DEF ShownInv
  <2>3. QED
    BY <2>1, <2>2, ShownMutate DEF Writers, States, Aborted
<1>11. CASE StopLogs
  <2>1. mgr = "logging" /\ mgr' = "silencing" /\ task' = task /\ Mutate("stop", inner.state, 1)
    BY <1>11 DEF StopLogs
  <2>2. ~Aborted => task = "over"
    BY <2>1 DEF ShownInv
  <2>3. QED
    BY <1>s, <2>1, <2>2, ShownMutate DEF Writers, Aborted
<1>12. CASE StopSilences
  <2>1. mgr = "silencing" /\ mgr' = "emitting" /\ task' = task
        /\ UNCHANGED <<inner, outbox, watch, pump, shown, unseen, pending>>
    BY <1>12 DEF StopSilences, supVars, pumpVars, sinkVars
  <2>2. ~Aborted => task = "over"
    BY <2>1 DEF ShownInv
  <2>3. QED
    BY <2>1, <2>2, ShownKept DEF Aborted
<1>13. CASE StopEmits
  <2>1. mgr = "emitting" /\ mgr' = "done" /\ shown' = inner
        /\ UNCHANGED <<inner, task, outbox, watch, pump, unseen, pending>>
    BY <1>13 DEF StopEmits, supVars, pumpVars
  <2>2. InUse' \subseteq InUse \cup {Nothing}
    BY <2>1 DEF InUse
  <2>3. NoneNewer' /\ (StopsLast => StopsLast')
    BY <1>a, <2>1, <2>2, OrderKept
  <2>4. QED
    BY <2>1, <2>3 DEF ShownInv, Aborted
<1>14. CASE PumpWakes
  <2>1. pump' = [at |-> "flushing", read |-> watch] /\ UNCHANGED <<inner, task, outbox, watch, mgr, shown>>
    BY <1>14 DEF PumpWakes, supVars, sinkVars
  <2>2. InUse' \subseteq InUse \cup {Nothing}
    BY <2>1 DEF InUse
  <2>3. NoneNewer' /\ (StopsLast => StopsLast')
    BY <1>a, <2>1, <2>2, OrderKept
  <2>4. QED
    BY <2>1, <2>3 DEF ShownInv, Aborted
<1>15. CASE PumpShowsStop
  <2>1. pump' = [at |-> "gone", read |-> Nothing] /\ shown' = pump.read
        /\ UNCHANGED <<inner, task, outbox, watch, mgr>>
    BY <1>15 DEF PumpShowsStop, Goto, supVars
  <2>2. InUse' \subseteq InUse \cup {Nothing}
    BY <2>1 DEF InUse
  <2>3. NoneNewer' /\ (StopsLast => StopsLast')
    BY <1>a, <2>1, <2>2, OrderKept
  <2>4. QED
    BY <2>1, <2>3 DEF ShownInv, Aborted
<1>16. CASE PumpDecides
  <2>1. /\ pump' = [at |-> IF recent THEN "waiting" ELSE "reading", read |-> Nothing]
        /\ pending' = (pending \/ recent)
        /\ UNCHANGED <<inner, task, outbox, watch, mgr, shown>>
    BY <1>16 DEF PumpDecides, Goto, supVars
  <2>2. InUse' \subseteq InUse \cup {Nothing}
    BY <2>1 DEF InUse
  <2>3. NoneNewer' /\ (StopsLast => StopsLast')
    BY <1>a, <2>1, <2>2, OrderKept
  <2>4. pump'.at # "emitting" /\ (pump'.at = "waiting" => pending')
    BY <2>1
  <2>5. QED
    BY <2>1, <2>3, <2>4 DEF ShownInv, Aborted
<1>17. CASE PumpTimer
  <2>1. pump' = [at |-> "reading", read |-> Nothing] /\ UNCHANGED <<inner, task, outbox, watch, mgr, shown>>
    BY <1>17 DEF PumpTimer, Goto, supVars, sinkVars
  <2>2. InUse' \subseteq InUse \cup {Nothing}
    BY <2>1 DEF InUse
  <2>3. NoneNewer' /\ (StopsLast => StopsLast')
    BY <1>a, <2>1, <2>2, OrderKept
  <2>4. QED
    BY <2>1, <2>3 DEF ShownInv, Aborted
<1>18. CASE PumpReads
  <2>1. pump' = [at |-> "emitting", read |-> inner]
        /\ UNCHANGED <<inner, task, outbox, watch, mgr, shown, unseen>>
    BY <1>18 DEF PumpReads, supVars, sinkVars
  <2>2. InUse' \subseteq InUse \cup {Nothing}
    BY <2>1 DEF InUse
  <2>3. NoneNewer' /\ (StopsLast => StopsLast')
    BY <1>a, <2>1, <2>2, OrderKept
  <2>4. shown.rev <= inner.rev
    BY <1>a DEF NoneNewer, InUse
  <2>5. pump'.at = "emitting" /\ pump'.read.rev = inner.rev /\ shown'.rev = shown.rev /\ inner'.rev = inner.rev
    BY <2>1
  <2>6. QED
    BY <2>1, <2>3, <2>4, <2>5 DEF ShownInv, Aborted
<1>19. CASE PumpEmits
  <2>1. pump' = [at |-> "waiting", read |-> Nothing] /\ shown' = pump.read /\ pump.at = "emitting"
        /\ UNCHANGED <<inner, task, outbox, watch, mgr, unseen>>
    BY <1>19 DEF PumpEmits, Goto, supVars
  <2>2. InUse' \subseteq InUse \cup {Nothing}
    BY <2>1 DEF InUse
  <2>3. NoneNewer' /\ (StopsLast => StopsLast')
    BY <1>a, <2>1, <2>2, OrderKept
  <2>4. Unsaid' = Unsaid
    BY <2>1 DEF Unsaid
  <2>5. QED
    BY <2>1, <2>3, <2>4 DEF ShownInv, Aborted
<1>20. CASE WindowCloses
  <2>1. UNCHANGED <<task, mgr, inner, outbox, watch, pump, shown, unseen, pending>>
    BY <1>20 DEF WindowCloses, supVars, sinkVars
  <2>2. QED
    BY <2>1, ShownUnmoved
<1>21. CASE PumpCancelled
  <2>1. pump' = [at |-> "gone", read |-> Nothing] /\ UNCHANGED <<inner, task, outbox, watch, mgr, shown>>
    BY <1>21 DEF PumpCancelled, Goto, supVars, sinkVars
  <2>2. InUse' \subseteq InUse \cup {Nothing}
    BY <2>1 DEF InUse
  <2>3. NoneNewer' /\ (StopsLast => StopsLast')
    BY <1>a, <2>1, <2>2, OrderKept
  <2>4. QED
    BY <2>1, <2>3 DEF ShownInv, Aborted
<1>22. CASE UNCHANGED vars
  <2>1. UNCHANGED <<task, mgr, inner, outbox, watch, pump, shown, unseen, pending>>
    BY <1>22 DEF vars, supVars, pumpVars, sinkVars
  <2>2. QED
    BY <2>1, ShownUnmoved
<1>23. QED
  BY <1>1, <1>2, <1>3, <1>4, <1>5, <1>6, <1>7, <1>8, <1>9, <1>10, <1>11, <1>12, <1>13, <1>14,
     <1>15, <1>16, <1>17, <1>18, <1>19, <1>20, <1>21, <1>22
     DEF Next, TaskStep, StopStep, PumpStep

\* The statuses, in every reachable state.
LEMMA ShownInductive == Spec => [](TypeOK /\ ShownInv)
<1>1. TypeOK /\ ShownInv /\ [Next]_vars => ShownInv'
  BY ShownStep
<1>2. Init => ShownInv
  BY ShownInit
<1>3. QED
  BY <1>1, <1>2, PumpTyped, PTL DEF Spec

\* docs/EVENTS.md:55-57, for any number of writes: a pump with nothing left to
\* do has shown the latest status.
THEOREM RestIsLatest == Spec => []RestShowsLatest
<1>1. ShownInv => RestShowsLatest
  BY DEF ShownInv, RestShowsLatest, Unsaid
<1>2. QED
  BY <1>1, ShownInductive, PTL

\* What is shown does not go back to an older state before the manager speaks,
\* whatever order the writers publish in.
THEOREM NeverBack == Spec => StatusForward
<1>1. TypeOK /\ ShownInv /\ [Next]_vars =>
        [(mgr \notin {"emitting", "done"} /\ task \notin {"aborted", "cancelled"})
            => (shown'.rev < shown.rev => shown'.state = shown.state)]_vars
  <2>1. SUFFICES ASSUME TypeOK, ShownInv, Next, mgr \notin {"emitting", "done"}, ~Aborted,
                        shown'.rev < shown.rev
                 PROVE  shown'.state = shown.state
    BY DEF Aborted
  <2>2. CASE shown' = shown
    BY <2>2
  <2>3. CASE PumpShowsStop
    <3>1. shown' = pump.read /\ pump.read.state = "stopped"
      BY <2>3 DEF PumpShowsStop
    <3>2. shown \in InUse /\ pump.read \in InUse /\ StopsLast
      BY <2>1 DEF InUse, ShownInv
    <3>3. shown.rev \in Int /\ pump.read.rev \in Int
      BY <2>1, <3>2, InUseTyped
    <3>4. shown.state = "stopped"
      BY <2>1, <3>1, <3>2, <3>3 DEF StopsLast
    <3>5. QED
      BY <3>1, <3>4
  <2>4. CASE PumpEmits
    <3>1. shown' = pump.read /\ shown.rev <= pump.read.rev
      BY <2>1, <2>4 DEF PumpEmits, ShownInv
    <3>2. shown.rev \in Int /\ pump.read.rev \in Int
      BY <2>1, InUseTyped DEF InUse
    <3>3. QED
      BY <2>1, <3>1, <3>2
  <2>5. CASE StopEmits
    BY <2>1, <2>5 DEF StopEmits
  <2>6. shown' = shown \/ PumpShowsStop \/ PumpEmits \/ StopEmits
    BY <2>1 DEF Next, TaskStep, StopStep, PumpStep, StartResets, StartLogs, StartSpawns, TaskWrites,
       TaskStops, TaskEnds, Mutate, Publish, StopBegins, StopJoins, StopMarks, StopLogs, StopSilences,
       PumpWakes, PumpDecides, PumpTimer, PumpReads, PumpCancelled, WindowCloses, sinkVars
  <2>7. QED
    BY <2>2, <2>3, <2>4, <2>5, <2>6
<1>2. QED
  BY <1>1, ShownInductive, PTL DEF Spec, StatusForward

-----------------------------------------------------------------------------
(* The tray *)

\* No two saved profiles have one name (normalize_profile refuses it).
NamesApart(names) ==
    \A p, q \in Profiles : p # q /\ names[p] = names[q] => names[p] = NoName

\* Entries are told apart by their ids, and by their names as well.
EntriesApart(entries) ==
    \A e, f \in entries : e.id = f.id \/ e.name = f.name => e = f

\* Whatever was read of the config at some time had no name twice.
Apart ==
    /\ NamesApart(name) /\ EntriesApart(menu)
    /\ \A r \in Refreshes : NamesApart(refresh[r].names) /\ EntriesApart(refresh[r].entries)

\* The entries have the names of the saved profiles.
Named(entries) == {e.name : e \in entries} = {name[p] : p \in Profiles} \ {NoName}

\* An entry says whether its profile's tunnel is live, or that will be emitted.
Fits(entries) ==
    \A e \in entries, p \in Profiles : e.name = name[p] => p \in due \/ e.running = live[p]

Spawned == \E r \in Refreshes : refresh[r].at = "spawned"

\* What the one refresh under way has read fits, or, when there is none, what
\* the menu shows.
Follows ==
    /\ \A r, q \in Reading : r = q
    /\ \A r \in Reading :
        /\ refresh[r].at = "configured" => refresh[r].names = name
        /\ refresh[r].at = "collected" => Named(refresh[r].entries) /\ Fits(refresh[r].entries)
    /\ Reading = {} => Named(menu) /\ Fits(menu) /\ count = RunningCount(menu)

\* A refresh that was spawned and has read nothing yet will make up for
\* whatever does not fit.
MenuInv == Apart /\ emitted = seen /\ (stale \/ Spawned \/ Follows)

\* Entries with ids of their own are finitely many, and no more of them run
\* than there are profiles.
LEMMA EntriesCounted ==
    ASSUME NEW entries \in SUBSET Entries, EntriesApart(entries)
    PROVE  IsFiniteSet(entries) /\ RunningCount(entries) \in 0..Cardinality(Profiles)
<1> DEFINE f == [e \in entries |-> e.id]
<1>1. f \in Injection(entries, Profiles)
  <2>1. f \in [entries -> Profiles]
    BY DEF Entries
  <2>2. \A a, b \in entries : f[a] = f[b] => a = b
    BY DEF EntriesApart
  <2>3. QED
    BY <2>1, <2>2 DEF Injection, IsInjective
<1>2. /\ IsFiniteSet(entries) /\ IsFiniteSet(Profiles)
      /\ Cardinality(entries) <= Cardinality(Profiles)
  BY <1>1, FS_Injection, TrayAssumption
<1>3. {e \in entries : e.running} \in SUBSET entries
  OBVIOUS
<1>4. /\ Cardinality(entries) \in Nat /\ Cardinality(Profiles) \in Nat
      /\ RunningCount(entries) \in Nat /\ RunningCount(entries) <= Cardinality(entries)
  BY <1>2, <1>3, FS_Subset, FS_CardinalityType DEF RunningCount
<1>5. QED
  BY <1>2, <1>4

\* Entries whose labels are among others' have their like there.
LEMMA LabelsTell ==
    ASSUME NEW a, NEW b, Labels(a) \subseteq Labels(b)
    PROVE  \A e \in a : \E f \in b : f.name = e.name /\ f.running = e.running
<1> SUFFICES ASSUME NEW e \in a PROVE \E f \in b : f.name = e.name /\ f.running = e.running
  OBVIOUS
<1>1. <<e.name, e.running>> \in Labels(b)
  BY DEF Labels
<1>2. PICK f \in b : <<e.name, e.running>> = <<f.name, f.running>>
  BY <1>1 DEF Labels
<1>3. QED
  BY <1>2

\* Entries whose labels are among those of others run no more often.
LEMMA CountMonotonic ==
    ASSUME NEW a \in SUBSET Entries, EntriesApart(a),
           NEW b \in SUBSET Entries, EntriesApart(b), Labels(a) \subseteq Labels(b)
    PROVE  RunningCount(a) <= RunningCount(b)
<1> DEFINE A == {e \in a : e.running}
           B == {e \in b : e.running}
           f == [e \in A |-> CHOOSE g \in B : g.name = e.name]
<1>1. ASSUME NEW e \in A PROVE \E g \in B : g.name = e.name
  <2>1. e \in a /\ e.running
    BY <1>1
  <2>2. \A d \in a : \E g \in b : g.name = d.name /\ g.running = d.running
    BY LabelsTell
  <2>3. QED
    BY <2>1, <2>2
<1>2. \A e \in A : f[e] \in B /\ f[e].name = e.name
  BY <1>1
<1>3. f \in Injection(A, B)
  <2>1. f \in [A -> B]
    BY <1>2
  <2>2. \A d, e \in A : f[d] = f[e] => d = e
    BY <1>2 DEF EntriesApart
  <2>3. QED
    BY <2>1, <2>2 DEF Injection, IsInjective
<1>4. IsFiniteSet(B)
  BY EntriesCounted, FS_Subset
<1>5. QED
  BY <1>3, <1>4, FS_Injection DEF RunningCount

\* Entries with the same labels run equally often.
LEMMA CountByLabels ==
    ASSUME NEW a \in SUBSET Entries, EntriesApart(a),
           NEW b \in SUBSET Entries, EntriesApart(b), Labels(a) = Labels(b)
    PROVE  RunningCount(a) = RunningCount(b)
<1>1. RunningCount(a) <= RunningCount(b) /\ RunningCount(b) <= RunningCount(a)
  BY CountMonotonic
<1>2. RunningCount(a) \in Nat /\ RunningCount(b) \in Nat
  <2>1. RunningCount(a) \in 0..Cardinality(Profiles) /\ RunningCount(b) \in 0..Cardinality(Profiles)
    BY EntriesCounted
  <2>2. Cardinality(Profiles) \in Nat
    BY FS_CardinalityType, TrayAssumption
  <2>3. QED
    BY <2>1, <2>2
<1>3. QED
  BY <1>1, <1>2

\* menu_signature: the labels of one of two equal signatures are in the other.
LEMMA SignatureLabels ==
    ASSUME NEW a \in SUBSET Entries, EntriesApart(a),
           NEW b \in SUBSET Entries, EntriesApart(b), MenuSignature(a) = MenuSignature(b)
    PROVE  Labels(a) \subseteq Labels(b)
<1> SUFFICES ASSUME NEW e \in a PROVE <<e.name, e.running>> \in Labels(b)
  BY DEF Labels
<1> DEFINE pair == <<e.name, e.running>>
           A == {x \in a : <<x.name, x.running>> = pair}
           B == {x \in b : <<x.name, x.running>> = pair}
<1>1. pair \in Names \X BOOLEAN
  BY DEF Entries
<1>2. Cardinality(A) = Cardinality(B)
  <2>1. MenuSignature(a)[pair] = Cardinality(A) /\ MenuSignature(b)[pair] = Cardinality(B)
    BY <1>1 DEF MenuSignature
  <2>2. QED
    BY <2>1
<1>3. IsFiniteSet(A) /\ IsFiniteSet(B)
  BY EntriesCounted, FS_Subset
<1>4. e \in A
  OBVIOUS
<1>5. B # {}
  BY <1>2, <1>3, <1>4, FS_EmptySet
<1>6. QED
  BY <1>5 DEF Labels

\* Equal signatures have equal labels.
LEMMA SignatureTells ==
    ASSUME NEW a \in SUBSET Entries, EntriesApart(a),
           NEW b \in SUBSET Entries, EntriesApart(b), MenuSignature(a) = MenuSignature(b)
    PROVE  Labels(a) = Labels(b)
BY SignatureLabels

\* collect_entries gives an entry to each saved profile, with its live bit.
LEMMA Collected ==
    ASSUME NEW names \in [Profiles -> Names \cup {NoName}], NamesApart(names), TrayTypeOK
    PROVE  /\ EntriesOf(names) \in SUBSET Entries /\ EntriesApart(EntriesOf(names))
           /\ names = name => Named(EntriesOf(names)) /\ Fits(EntriesOf(names))
<1>1. \A e \in EntriesOf(names) :
         \E p \in Profiles : /\ names[p] # NoName
                             /\ e = [id |-> p, name |-> names[p], running |-> live[p]]
  BY DEF EntriesOf
<1>2. EntriesOf(names) \in SUBSET Entries
  BY <1>1 DEF TrayTypeOK, Tasks, Entries
<1>3. EntriesApart(EntriesOf(names))
  BY <1>1 DEF EntriesApart, NamesApart
<1>4. ASSUME names = name PROVE Named(EntriesOf(names)) /\ Fits(EntriesOf(names))
  <2>1. Fits(EntriesOf(names))
    BY <1>1, <1>4 DEF Fits, NamesApart
  <2>2. ASSUME NEW p \in Profiles, name[p] # NoName
        PROVE  name[p] \in {e.name : e \in EntriesOf(names)}
    <3>1. [id |-> p, name |-> names[p], running |-> live[p]] \in EntriesOf(names)
      BY <1>4, <2>2 DEF EntriesOf
    <3>2. QED
      BY <1>4, <3>1
  <2>3. \A e \in EntriesOf(names) : e.name \in {name[p] : p \in Profiles} \ {NoName}
    BY <1>1, <1>4
  <2>4. QED
    BY <2>1, <2>2, <2>3 DEF Named
<1>5. QED
  BY <1>2, <1>3, <1>4

\* At launch nothing runs, no refresh is under way, and the menu is built anew.
LEMMA TrayStarts == TrayInit => TrayTypeOK /\ MenuInv
<1> SUFFICES ASSUME TrayInit PROVE TrayTypeOK /\ MenuInv
  OBVIOUS
<1>1. /\ Idle \in Tasks
      /\ NamesApart(Idle.names) /\ EntriesApart(Idle.entries)
  BY DEF Idle, Tasks, NamesApart, EntriesApart
<1>2. \A e \in menu :
         \E p \in Profiles : /\ name[p] # NoName
                             /\ e = [id |-> p, name |-> name[p], running |-> FALSE]
  BY DEF TrayInit, EntriesOf
<1>3. NamesApart(name)
  BY DEF TrayInit, NamesApart
<1>4. menu \in SUBSET Entries
  <2>1. SUFFICES ASSUME NEW e \in menu PROVE e \in Entries
    OBVIOUS
  <2>2. PICK p \in Profiles : /\ name[p] # NoName
                              /\ e = [id |-> p, name |-> name[p], running |-> FALSE]
    BY <1>2
  <2>3. name[p] \in Names
    BY <2>2 DEF TrayInit
  <2>4. QED
    BY <2>2, <2>3 DEF Entries
<1>5. TrayTypeOK
  <2>1. Cardinality(Profiles) \in Nat
    BY FS_CardinalityType, TrayAssumption
  <2>2. count \in 0..Cardinality(Profiles) /\ edits \in 0..MaxEdits
    BY <2>1, TrayAssumption DEF TrayInit
  <2>3. refresh \in [Refreshes -> Tasks]
    BY <1>1 DEF TrayInit
  <2>4. QED
    BY <1>4, <2>2, <2>3 DEF TrayInit, TrayTypeOK
<1>6. EntriesApart(menu) /\ Named(menu) /\ Fits(menu)
  BY <1>3, <1>5, Collected DEF TrayInit
<1>7. Apart
  BY <1>1, <1>3, <1>6 DEF Apart, TrayInit
<1>8. Follows
  <2>1. Reading = {}
    BY DEF TrayInit, Reading, Idle
  <2>2. RunningCount(menu) = 0
    <3>1. {e \in menu : e.running} = {}
      BY <1>2
    <3>2. QED
      BY <3>1, FS_EmptySet DEF RunningCount
  <2>3. QED
    BY <1>6, <2>1, <2>2 DEF Follows, TrayInit
<1>9. QED
  BY <1>5, <1>7, <1>8 DEF MenuInv, TrayInit

\* A status that is published will be emitted, so what fitted before fits still.
LEMMA BecomesKeeps ==
    ASSUME TrayTypeOK, MenuInv, NEW p \in Profiles, NEW running \in BOOLEAN, Becomes(p, running)
    PROVE  TrayTypeOK' /\ MenuInv'
<1>1. /\ UNCHANGED <<name, seen, refresh, menu, unset, count, emitted, edits, stale>>
      /\ due' = due \cup {p} /\ live' = [live EXCEPT ![p] = running]
  BY DEF Becomes
<1>2. TrayTypeOK'
  BY <1>1 DEF TrayTypeOK
<1>3. \A q \in Profiles : q \notin due' => live'[q] = live[q] /\ q \notin due
  BY <1>1 DEF TrayTypeOK
<1>4. ASSUME NEW entries, Fits(entries) PROVE Fits(entries)'
  BY <1>1, <1>3, <1>4 DEF Fits
<1>5. ASSUME Follows PROVE Follows'
  <2>1. UNCHANGED Reading
    BY <1>1 DEF Reading
  <2>2. \A r \in Reading' :
           /\ refresh'[r].at = "configured" => refresh'[r].names = name'
           /\ refresh'[r].at = "collected" =>
                Named(refresh[r].entries)' /\ Fits(refresh[r].entries)'
    BY <1>1, <1>4, <1>5, <2>1 DEF Follows, Named
  <2>3. Reading' = {} => Named(menu)' /\ Fits(menu)' /\ count' = RunningCount(menu)'
    BY <1>1, <1>4, <1>5, <2>1 DEF Follows, Named, RunningCount
  <2>4. QED
    BY <1>5, <2>1, <2>2, <2>3 DEF Follows
<1>6. Apart' /\ emitted' = seen'
  BY <1>1 DEF MenuInv, Apart, NamesApart, EntriesApart
<1>7. QED
  BY <1>1, <1>2, <1>5, <1>6 DEF MenuInv, Spawned

\* A profile that is saved or deleted outdates the menu, and no two profiles
\* get one name.
LEMMA EditsKeeps ==
    ASSUME TrayTypeOK, MenuInv, NEW p \in Profiles, Edits(p)
    PROVE  TrayTypeOK' /\ MenuInv'
<1>1. /\ UNCHANGED <<live, due, seen, refresh, menu, unset, count, emitted>>
      /\ stale' = TRUE /\ edits < MaxEdits /\ edits' = edits + 1
  BY DEF Edits
<1>2. PICK n \in Names \cup {NoName} :
        /\ name' = [name EXCEPT ![p] = n]
        /\ n # NoName => \A q \in Profiles : name[q] # n
  BY DEF Edits
<1>3. TrayTypeOK'
  <2>1. edits' \in 0..MaxEdits
    BY <1>1, TrayAssumption DEF TrayTypeOK
  <2>2. name' \in [Profiles -> Names \cup {NoName}]
    BY <1>2 DEF TrayTypeOK
  <2>3. QED
    BY <1>1, <2>1, <2>2 DEF TrayTypeOK
<1>4. NamesApart(name)'
  BY <1>2 DEF TrayTypeOK, MenuInv, Apart, NamesApart
<1>5. Apart'
  BY <1>1, <1>4 DEF MenuInv, Apart, NamesApart, EntriesApart
<1>6. QED
  BY <1>1, <1>3, <1>5 DEF MenuInv

\* A bit that flips spawns a refresh. One that does not, and is the live one,
\* was read as it is by whatever counts as current.
LEMMA TellsKeeps ==
    ASSUME TrayTypeOK, MenuInv, NEW p \in Profiles, NEW running \in BOOLEAN,
           Tells(p, running), due' = due \/ (running = live[p] /\ due' = due \ {p})
    PROVE  TrayTypeOK' /\ MenuInv'
<1>1. /\ UNCHANGED <<name, live, menu, unset, count, edits>>
      /\ emitted' = [emitted EXCEPT ![p] = {running}]
  BY DEF Tells
<1>2. {seen, emitted}' \subseteq [Profiles -> {{}, {TRUE}, {FALSE}}]
  <2>1. seen' = seen \/ seen' = [seen EXCEPT ![p] = {running}]
    BY DEF Tells, Remembers
  <2>2. /\ seen' \in [Profiles -> {{}, {TRUE}, {FALSE}}]
        /\ emitted' \in [Profiles -> {{}, {TRUE}, {FALSE}}]
    BY <1>1, <2>1 DEF TrayTypeOK
  <2>3. QED
    BY <2>2
<1>3. due' \in SUBSET Profiles
  BY DEF TrayTypeOK
<1>4. CASE seen[p] = {running}
  <2>1. /\ UNCHANGED <<seen, refresh>>
        /\ stale' = (stale \/ (/\ emitted[p] = {running}
                               /\ live[p] = running /\ ReadAs(p, ~running)))
    BY <1>4 DEF Tells
  <2>2. stale' \in BOOLEAN
    BY <2>1 DEF TrayTypeOK
  <2>3. TrayTypeOK'
    BY <1>1, <1>2, <1>3, <2>1, <2>2 DEF TrayTypeOK
  <2>4. Apart'
    BY <1>1, <2>1 DEF MenuInv, Apart, NamesApart, EntriesApart
  <2>5. emitted' = seen'
    BY <1>1, <1>4, <2>1 DEF MenuInv, TrayTypeOK
  <2>6. ASSUME ~stale', Follows PROVE Follows'
    <3>1. \A e \in menu \cup UNION {refresh[r].entries : r \in Refreshes} :
             e.name = name[p] /\ running = live[p] => e.running # (~running)
      BY <1>4, <2>1, <2>6 DEF ReadAs, MenuInv
    <3>2. \A e \in menu \cup UNION {refresh[r].entries : r \in Refreshes} : e.running \in BOOLEAN
      BY DEF TrayTypeOK, Tasks, Entries
    <3>3. \A e \in menu \cup UNION {refresh[r].entries : r \in Refreshes} :
             e.name = name[p] /\ running = live[p] => e.running = live[p]
      BY <3>1, <3>2
    <3>4. Fits(menu) => Fits(menu)'
      BY <1>1, <3>3 DEF Fits
    <3>5. UNCHANGED Reading
      BY <2>1 DEF Reading
    <3>6. ASSUME NEW r \in Reading'
          PROVE  /\ refresh'[r].at = "configured" => refresh'[r].names = name'
                 /\ refresh'[r].at = "collected" =>
                      Named(refresh[r].entries)' /\ Fits(refresh[r].entries)'
      <4>1. r \in Reading /\ r \in Refreshes
        BY <3>5 DEF Reading
      <4>2. Fits(refresh[r].entries) => Fits(refresh[r].entries)'
        BY <1>1, <2>1, <3>3, <4>1 DEF Fits
      <4>3. QED
        BY <1>1, <2>1, <2>6, <4>1, <4>2 DEF Follows, Named
    <3>7. Reading' = {} => Named(menu)' /\ Fits(menu)' /\ count' = RunningCount(menu)'
      BY <1>1, <2>6, <3>4, <3>5 DEF Follows, Named, RunningCount
    <3>8. QED
      BY <2>6, <3>5, <3>6, <3>7 DEF Follows
  <2>7. stale' \/ Spawned' \/ Follows'
    BY <2>1, <2>6 DEF MenuInv, Spawned
  <2>8. QED
    BY <2>3, <2>4, <2>5, <2>7 DEF MenuInv
<1>5. CASE seen[p] # {running}
  <2>1. /\ seen' = [seen EXCEPT ![p] = {running}] /\ UNCHANGED stale
    BY <1>5 DEF Tells, Remembers
  <2>2. PICK r \in Refreshes : /\ refresh[r].at = "idle"
                               /\ refresh' = [refresh EXCEPT ![r].at = "spawned"]
    BY <1>5 DEF Tells
  <2>3. refresh' \in [Refreshes -> Tasks]
    <3>1. [refresh[r] EXCEPT !.at = "spawned"] \in Tasks
      BY DEF TrayTypeOK, Tasks
    <3>2. refresh' = [refresh EXCEPT ![r] = [refresh[r] EXCEPT !.at = "spawned"]]
      BY <2>2
    <3>3. QED
      BY <3>1, <3>2 DEF TrayTypeOK
  <2>4. TrayTypeOK'
    BY <1>1, <1>2, <1>3, <2>1, <2>3 DEF TrayTypeOK
  <2>5. \A q \in Refreshes : /\ refresh'[q].names = refresh[q].names
                             /\ refresh'[q].entries = refresh[q].entries
    BY <2>2 DEF TrayTypeOK
  <2>6. Apart'
    BY <1>1, <2>5 DEF MenuInv, Apart, NamesApart, EntriesApart
  <2>7. emitted' = seen'
    BY <1>1, <2>1 DEF MenuInv
  <2>8. Spawned'
    BY <2>2 DEF Spawned, TrayTypeOK
  <2>9. QED
    BY <2>4, <2>6, <2>7, <2>8 DEF MenuInv
<1>6. QED
  BY <1>4, <1>5

\* A refresh that begins alone has read the names as they are.
LEMMA RefreshLoadsKeeps ==
    ASSUME TrayTypeOK, MenuInv, NEW r \in Refreshes, RefreshLoads(r)
    PROVE  TrayTypeOK' /\ MenuInv'
<1>1. /\ UNCHANGED <<tunnels, seen, menu, unset, count, emitted, edits>>
      /\ refresh[r].at = "spawned" /\ stale' = (Reading # {} \/ unset)
      /\ refresh' = [refresh EXCEPT ![r] = [at |-> "configured", names |-> name, entries |-> {}]]
  BY DEF RefreshLoads
<1>2. UNCHANGED <<name, live, due>>
  BY <1>1 DEF tunnels
<1>3. TrayTypeOK'
  <2>1. stale' \in BOOLEAN
    BY <1>1 DEF TrayTypeOK
  <2>2. refresh' \in [Refreshes -> Tasks]
    BY <1>1 DEF TrayTypeOK, Tasks
  <2>3. QED
    BY <1>1, <1>2, <2>1, <2>2 DEF TrayTypeOK
<1>4. \A q \in Refreshes :
         refresh'[q] = IF q = r THEN [at |-> "configured", names |-> name, entries |-> {}]
                                ELSE refresh[q]
  BY <1>1 DEF TrayTypeOK
<1>5. Apart'
  <2>1. NamesApart(name)' /\ EntriesApart(menu)'
    BY <1>1, <1>2 DEF MenuInv, Apart, NamesApart, EntriesApart
  <2>2. ASSUME NEW q \in Refreshes
        PROVE  NamesApart(refresh[q].names)' /\ EntriesApart(refresh[q].entries)'
    BY <1>2, <1>4, <2>2 DEF MenuInv, Apart, NamesApart, EntriesApart
  <2>3. QED
    BY <2>1, <2>2 DEF Apart
<1>6. ASSUME ~stale' PROVE Follows'
  <2>1. Reading = {}
    BY <1>1, <1>6
  <2>2. \A q \in Refreshes : refresh[q].at \notin {"configured", "collected"}
    BY <2>1 DEF Reading
  <2>3. Reading' = {r}
    BY <1>4, <2>2 DEF Reading
  <2>4. refresh'[r].at = "configured" /\ refresh'[r].names = name'
    BY <1>2, <1>4
  <2>5. QED
    BY <2>3, <2>4 DEF Follows
<1>7. QED
  BY <1>1, <1>3, <1>5, <1>6 DEF MenuInv

\* A refresh that gives up leaves the menu outdated.
LEMMA RefreshGivesUpKeeps ==
    ASSUME TrayTypeOK, MenuInv, NEW r \in Refreshes, RefreshGivesUp(r)
    PROVE  TrayTypeOK' /\ MenuInv'
<1>1. /\ UNCHANGED <<tunnels, seen, menu, unset, count, emitted, edits>>
      /\ stale' = TRUE /\ refresh' = [refresh EXCEPT ![r] = Idle]
  BY DEF RefreshGivesUp
<1>2. UNCHANGED <<name, live, due>>
  BY <1>1 DEF tunnels
<1>3. refresh' \in [Refreshes -> Tasks]
  BY <1>1 DEF TrayTypeOK, Tasks, Idle
<1>4. TrayTypeOK'
  BY <1>1, <1>2, <1>3 DEF TrayTypeOK
<1>5. \A q \in Refreshes : refresh'[q] = IF q = r THEN Idle ELSE refresh[q]
  BY <1>1 DEF TrayTypeOK
<1>6. NamesApart(name)' /\ EntriesApart(menu)'
  BY <1>1, <1>2 DEF MenuInv, Apart, NamesApart, EntriesApart
<1>7. ASSUME NEW q \in Refreshes
      PROVE  NamesApart(refresh[q].names)' /\ EntriesApart(refresh[q].entries)'
  BY <1>5, <1>7 DEF MenuInv, Apart, NamesApart, EntriesApart, Idle
<1>8. Apart'
  BY <1>6, <1>7 DEF Apart
<1>9. QED
  BY <1>1, <1>4, <1>8 DEF MenuInv

\* A refresh that is alone collects what the live state is.
LEMMA RefreshCollectsKeeps ==
    ASSUME TrayTypeOK, MenuInv, NEW r \in Refreshes, RefreshCollects(r)
    PROVE  TrayTypeOK' /\ MenuInv'
<1> DEFINE collected == EntriesOf(refresh[r].names)
<1>1. /\ UNCHANGED <<tunnels, seen, menu, unset, count, emitted, edits, stale>>
      /\ refresh[r].at = "configured"
      /\ refresh' = [refresh EXCEPT ![r] = [at |-> "collected", names |-> Idle.names,
                                            entries |-> collected]]
  BY DEF RefreshCollects
<1>2. UNCHANGED <<name, live, due>>
  BY <1>1 DEF tunnels
<1>3. refresh[r].names \in [Profiles -> Names \cup {NoName}] /\ NamesApart(refresh[r].names)
  BY DEF TrayTypeOK, Tasks, MenuInv, Apart
<1>4. /\ collected \in SUBSET Entries /\ EntriesApart(collected)
      /\ refresh[r].names = name => Named(collected) /\ Fits(collected)
  BY <1>3, Collected
<1>5. Idle.names \in [Profiles -> Names \cup {NoName}] /\ NamesApart(Idle.names)
  BY DEF Idle, NamesApart
<1> HIDE DEF collected
<1>6. TrayTypeOK'
  <2>1. refresh' \in [Refreshes -> Tasks]
    BY <1>1, <1>4, <1>5 DEF TrayTypeOK, Tasks
  <2>2. QED
    BY <1>1, <1>2, <2>1 DEF TrayTypeOK
<1>7. \A q \in Refreshes :
         refresh'[q] = IF q = r
                       THEN [at |-> "collected", names |-> Idle.names, entries |-> collected]
                       ELSE refresh[q]
  BY <1>1 DEF TrayTypeOK
<1>8. Apart'
  <2>1. NamesApart(name)' /\ EntriesApart(menu)'
    BY <1>1, <1>2 DEF MenuInv, Apart, NamesApart, EntriesApart
  <2>2. ASSUME NEW q \in Refreshes
        PROVE  NamesApart(refresh[q].names)' /\ EntriesApart(refresh[q].entries)'
    <3>1. CASE q = r
      BY <1>4, <1>5, <1>7, <3>1 DEF NamesApart, EntriesApart
    <3>2. CASE q # r
      BY <1>7, <3>2 DEF MenuInv, Apart, NamesApart, EntriesApart
    <3>3. QED
      BY <3>1, <3>2
  <2>3. QED
    BY <2>1, <2>2 DEF Apart
<1>9. Spawned => Spawned'
  BY <1>1, <1>7 DEF Spawned
<1>10. ASSUME Follows PROVE Follows'
  <2>1. r \in Reading
    BY <1>1 DEF Reading
  <2>2. Reading = {r} /\ refresh[r].names = name
    BY <1>1, <1>10, <2>1 DEF Follows
  <2>3. Reading' = {r}
    BY <1>7, <2>2 DEF Reading
  <2>4. Named(collected) /\ Fits(collected)
    BY <1>4, <2>2
  <2>5. refresh'[r].at = "collected" /\ refresh'[r].entries = collected
    BY <1>7
  <2>6. Named(refresh[r].entries)' /\ Fits(refresh[r].entries)'
    BY <1>2, <2>4, <2>5 DEF Named, Fits
  <2>7. QED
    BY <2>3, <2>5, <2>6 DEF Follows
<1>11. QED
  BY <1>1, <1>6, <1>8, <1>9, <1>10 DEF MenuInv

\* A refresh that ends alone leaves the labels and the count it has collected:
\* those of a new menu, or of the old one if its signature is the same.
LEMMA RefreshInstallsKeeps ==
    ASSUME TrayTypeOK, MenuInv, NEW r \in Refreshes, RefreshInstalls(r)
    PROVE  TrayTypeOK' /\ MenuInv'
<1> DEFINE entries == refresh[r].entries
           same == MenuSignature(menu) = MenuSignature(entries)
<1>1. /\ UNCHANGED <<tunnels, seen, emitted, edits>>
      /\ refresh[r].at = "collected" /\ refresh' = [refresh EXCEPT ![r] = Idle]
      /\ count' = RunningCount(entries)
      /\ \/ same /\ UNCHANGED <<menu, unset, stale>>
         \/ ~same /\ menu' = entries /\ unset' = FALSE /\ UNCHANGED stale
         \/ ~same /\ menu' = entries /\ unset' = TRUE /\ stale' = TRUE
         \/ ~same /\ stale' = TRUE /\ UNCHANGED <<menu, unset>>
  BY DEF RefreshInstalls, Counts
<1>2. UNCHANGED <<name, live, due>>
  BY <1>1 DEF tunnels
<1>3. entries \in SUBSET Entries /\ EntriesApart(entries) /\ menu \in SUBSET Entries /\ EntriesApart(menu)
  BY DEF TrayTypeOK, Tasks, MenuInv, Apart
<1>4. RunningCount(entries) \in 0..Cardinality(Profiles)
  BY <1>3, EntriesCounted
<1>5. menu' \in {menu, entries} /\ {unset, stale}' \subseteq BOOLEAN /\ (~stale' => ~stale)
  <2>1. menu' = menu \/ menu' = entries
    BY <1>1
  <2>2. unset' \in BOOLEAN /\ stale' \in BOOLEAN
    BY <1>1 DEF TrayTypeOK
  <2>3. ~stale' => ~stale
    BY <1>1
  <2>4. QED
    BY <2>1, <2>2, <2>3
<1>6. TrayTypeOK'
  <2>1. refresh' \in [Refreshes -> Tasks]
    BY <1>1 DEF TrayTypeOK, Tasks, Idle
  <2>2. menu' \subseteq Entries
    BY <1>3, <1>5
  <2>3. count' \in 0..Cardinality(Profiles)
    BY <1>1, <1>4
  <2>4. QED
    BY <1>1, <1>2, <1>5, <2>1, <2>2, <2>3 DEF TrayTypeOK
<1>7. \A q \in Refreshes : refresh'[q] = IF q = r THEN Idle ELSE refresh[q]
  BY <1>1 DEF TrayTypeOK
<1>8. Apart'
  <2>1. NamesApart(name)'
    BY <1>2 DEF MenuInv, Apart, NamesApart
  <2>2. EntriesApart(menu)'
    BY <1>3, <1>5 DEF EntriesApart
  <2>3. ASSUME NEW q \in Refreshes
        PROVE  NamesApart(refresh[q].names)' /\ EntriesApart(refresh[q].entries)'
    BY <1>7, <2>3 DEF MenuInv, Apart, NamesApart, EntriesApart, Idle
  <2>4. QED
    BY <2>1, <2>2, <2>3 DEF Apart
<1>9. Spawned => Spawned'
  BY <1>1, <1>7 DEF Spawned
<1>10. ASSUME ~stale', Follows PROVE Follows'
  <2>1. Reading = {r} /\ Named(entries) /\ Fits(entries)
    BY <1>1, <1>10 DEF Follows, Reading
  <2>2. Reading' = {}
    BY <1>7, <2>1 DEF Reading, Idle
  <2>3. menu' = menu \/ menu' = entries
    BY <1>5
  <2>4. Labels(menu') = Labels(entries)
    <3>1. CASE menu' = entries
      BY <3>1
    <3>2. CASE menu' = menu
      <4>1. same \/ menu' = entries
        BY <1>1, <1>10
      <4>2. CASE same
        BY <1>3, <3>2, <4>2, SignatureTells
      <4>3. QED
        BY <3>1, <4>1, <4>2
    <3>3. QED
      BY <2>3, <3>1, <3>2
  <2>5. \A e \in menu' : \E f \in entries : f.name = e.name /\ f.running = e.running
    BY <2>4, LabelsTell
  <2>6. \A f \in entries : \E e \in menu' : e.name = f.name /\ e.running = f.running
    BY <2>4, LabelsTell
  <2>7. {e.name : e \in menu'} = {e.name : e \in entries}
    BY <2>5, <2>6
  <2>8. Named(menu)'
    BY <1>2, <2>1, <2>7 DEF Named
  <2>9. Fits(menu)'
    BY <1>2, <2>1, <2>5 DEF Fits
  <2>10. RunningCount(menu') = RunningCount(entries)
    <3>1. menu' \in SUBSET Entries /\ EntriesApart(menu')
      BY <1>3, <2>3
    <3>2. QED
      BY <1>3, <2>4, <3>1, CountByLabels
  <2>11. count' = RunningCount(menu)'
    BY <1>1, <2>10 DEF RunningCount
  <2>12. QED
    BY <2>2, <2>8, <2>9, <2>11 DEF Follows
<1>11. emitted' = seen'
  BY <1>1 DEF MenuInv
<1>12. QED
  BY <1>5, <1>6, <1>8, <1>9, <1>10, <1>11 DEF MenuInv

\* Every step keeps the invariant.
LEMMA TrayStep ==
    ASSUME TrayTypeOK, MenuInv, [TrayNext]_trayVars
    PROVE  TrayTypeOK' /\ MenuInv'
<1>1. ASSUME NEW p \in Profiles, Starts(p) PROVE TrayTypeOK' /\ MenuInv'
  BY <1>1, BecomesKeeps DEF Starts
<1>2. ASSUME NEW p \in Profiles, Reports(p) PROVE TrayTypeOK' /\ MenuInv'
  BY <1>2, BecomesKeeps DEF Reports
<1>3. ASSUME NEW p \in Profiles, Emits(p) PROVE TrayTypeOK' /\ MenuInv'
  <2>1. live[p] \in BOOLEAN
    BY DEF TrayTypeOK
  <2>2. QED
    BY <1>3, <2>1, TellsKeeps DEF Emits
<1>4. ASSUME NEW p \in Profiles, EmitsLate(p) PROVE TrayTypeOK' /\ MenuInv'
  <2>1. (~live[p]) \in BOOLEAN
    OBVIOUS
  <2>2. QED
    BY <1>4, <2>1, TellsKeeps DEF EmitsLate
<1>5. ASSUME NEW e \in menu, Clicks(e) PROVE TrayTypeOK' /\ MenuInv'
  <2>1. e.id \in Profiles
    BY DEF TrayTypeOK, Entries
  <2>2. CASE e.running /\ Becomes(e.id, FALSE)
    BY <2>1, <2>2, BecomesKeeps
  <2>3. CASE ~e.running /\ Starts(e.id)
    BY <1>1, <2>1, <2>3
  <2>4. QED
    BY <1>5, <2>2, <2>3 DEF Clicks
<1>6. CASE UNCHANGED trayVars
  <2>1. /\ UNCHANGED <<name, live, due, seen, refresh, menu, unset, count, emitted, edits, stale>>
    BY <1>6 DEF trayVars, tunnels
  <2>2. TrayTypeOK'
    BY <2>1 DEF TrayTypeOK
  <2>3. Apart'
    BY <2>1 DEF MenuInv, Apart, NamesApart, EntriesApart
  <2>4. (Spawned => Spawned') /\ (Follows => Follows')
    BY <2>1 DEF Spawned, Follows, Reading, Named, Fits, RunningCount
  <2>5. QED
    BY <2>1, <2>2, <2>3, <2>4 DEF MenuInv
<1>7. QED
  BY <1>1, <1>2, <1>3, <1>4, <1>5, <1>6, EditsKeeps, RefreshLoadsKeeps, RefreshGivesUpKeeps,
     RefreshCollectsKeeps, RefreshInstallsKeeps DEF TrayNext

\* The menu's invariant, for any profiles, names, refreshes and edits.
LEMMA TrayInductive == TraySpec => [](TrayTypeOK /\ MenuInv)
<1>1. TrayInit => TrayTypeOK /\ MenuInv
  BY TrayStarts
<1>2. (TrayTypeOK /\ MenuInv) /\ [TrayNext]_trayVars => (TrayTypeOK /\ MenuInv)'
  BY TrayStep
<1>3. QED
  BY <1>1, <1>2, PTL DEF TraySpec

\* Every variable of the tray has its type; the tooltip counts no more tunnels
\* than there are profiles.
THEOREM TrayTyped == TraySpec => []TrayTypeOK
<1>1. TrayTypeOK /\ MenuInv => TrayTypeOK
  OBVIOUS
<1>2. QED
  BY <1>1, TrayInductive, PTL

\* At rest, labels and tooltip are those of the live state: nothing is spawned
\* or reading, so the menu itself must fit, and nothing is left to be emitted.
LEMMA AtRestCurrent ==
    ASSUME TrayTypeOK, MenuInv
    PROVE  TrayCurrent
<1> SUFFICES ASSUME AtRest, ~stale
             PROVE  /\ Labels(menu) = Labels(EntriesOf(name))
                    /\ count = RunningCount(EntriesOf(name))
  BY DEF TrayCurrent
<1>1. due = {} /\ ~Spawned /\ Reading = {}
  BY DEF AtRest, Spawned, Reading
<1>2. Named(menu) /\ Fits(menu) /\ count = RunningCount(menu)
  BY <1>1 DEF MenuInv, Follows
<1>3. name \in [Profiles -> Names \cup {NoName}] /\ NamesApart(name)
  BY DEF TrayTypeOK, MenuInv, Apart
<1>4. /\ EntriesOf(name) \in SUBSET Entries /\ EntriesApart(EntriesOf(name))
      /\ Named(EntriesOf(name)) /\ Fits(EntriesOf(name))
  BY <1>3, Collected
<1>5. ASSUME NEW a, NEW b, Named(a), Fits(a), Named(b), Fits(b)
      PROVE  Labels(a) \subseteq Labels(b)
  <2>1. SUFFICES ASSUME NEW e \in a PROVE <<e.name, e.running>> \in Labels(b)
    BY DEF Labels
  <2>2. PICK p \in Profiles : e.name = name[p]
    BY <1>5 DEF Named
  <2>3. e.name \in {x.name : x \in b}
    BY <1>5 DEF Named
  <2>4. PICK f \in b : f.name = e.name
    BY <2>3
  <2>5. e.running = live[p] /\ f.running = live[p]
    BY <1>1, <1>5, <2>2, <2>4 DEF Fits
  <2>6. QED
    BY <2>4, <2>5 DEF Labels
<1>6. Labels(menu) = Labels(EntriesOf(name))
  <2>1. Labels(menu) \subseteq Labels(EntriesOf(name))
    BY <1>2, <1>4, <1>5
  <2>2. Labels(EntriesOf(name)) \subseteq Labels(menu)
    BY <1>2, <1>4, <1>5
  <2>3. QED
    BY <2>1, <2>2
<1>7. RunningCount(menu) = RunningCount(EntriesOf(name))
  <2>1. menu \in SUBSET Entries /\ EntriesApart(menu)
    BY DEF TrayTypeOK, MenuInv, Apart
  <2>2. QED
    BY <1>4, <1>6, <2>1, CountByLabels
<1>8. QED
  BY <1>2, <1>6, <1>7

\* TraySink and refresh_menu (tray.rs:4-7): once every status is emitted and
\* every refresh has ended, the menu and the tooltip are those of the live
\* state, although refreshes only follow the flips the tray saw; but for the
\* exceptions that TrayCurrent names.
THEOREM MenuFollows == TraySpec => []TrayCurrent
<1>1. TrayTypeOK /\ MenuInv => TrayCurrent
  BY AtRestCurrent
<1>2. QED
  BY <1>1, TrayInductive, PTL
================================================================================
