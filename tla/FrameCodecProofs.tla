--------------------------- MODULE FrameCodecProofs ---------------------------
(***************************************************************************)
(* The frames of FrameCodec, for any limits, any sender and any cut of the *)
(* stream: the bound of the decoder's buffer, what the end of a stream     *)
(* means, and that no byte is lost, doubled or moved.                      *)
(*                                                                         *)
(* Induction over data is done with sets (SetInduction): a set that holds  *)
(* 0 and with every number the next one holds them all.                    *)
(***************************************************************************)
EXTENDS FrameCodec, SequenceTheorems, FiniteSetTheorems, TLAPS

-----------------------------------------------------------------------------
(* Induction over the natural numbers. *)

\* A set of natural numbers that is not empty has a least element.
LEMMA LeastElement ==
    ASSUME NEW T, T \subseteq Nat, T # {}
    PROVE  \E m \in T : \A k \in T : m <= k
<1> DEFINE D == {0..k : k \in T}
<1>1. D \subseteq FiniteSubsetsOf(Nat) /\ D # {}
  <2>1. \A k \in T : IsFiniteSet(0..k) /\ 0..k \in SUBSET Nat
    BY FS_Interval
  <2>2. QED
    BY <2>1 DEF FiniteSubsetsOf
<1>2. \E x \in D : \A y \in D : <<y, x>> \notin StrictSubsetOrdering(Nat)
  BY <1>1, FS_StrictSubsetOrderingWellFounded, WFMin
<1>3. PICK m \in T : \A k \in T : <<0..k, 0..m>> \notin StrictSubsetOrdering(Nat)
  BY <1>2
<1>4. \A k \in T : m <= k
  <2>1. SUFFICES ASSUME NEW k \in T, k < m PROVE FALSE
    BY <1>3
  <2>2. 0..k \subseteq 0..m /\ m \in 0..m /\ m \notin 0..k
    BY <2>1
  <2>3. 0..k \in SUBSET Nat /\ 0..m \in SUBSET Nat
    OBVIOUS
  <2>4. <<0..k, 0..m>> \in StrictSubsetOrdering(Nat)
    BY <2>2, <2>3 DEF StrictSubsetOrdering
  <2>5. QED
    BY <2>4, <1>3
<1>5. QED
  BY <1>4

\* A set with 0, and with the successor of each number in it, holds them all.
LEMMA SetInduction ==
    ASSUME NEW S, 0 \in S, \A n \in Nat : n \in S => n + 1 \in S
    PROVE  Nat \subseteq S
<1>1. SUFFICES ASSUME Nat \ S # {} PROVE FALSE
  OBVIOUS
<1>2. PICK m \in Nat \ S : \A k \in Nat \ S : m <= k
  BY <1>1, LeastElement
<1>3. m # 0 /\ m - 1 \in Nat
  BY <1>2
<1>4. m - 1 \in S
  BY <1>2, <1>3
<1>5. QED
  BY <1>2, <1>3, <1>4

-----------------------------------------------------------------------------
(* FlattenSeq, and the bytes of a sequence of frames. *)

\* What the function in FlattenSeq(s) computes.
IsFlat(f, s) ==
    /\ s # <<>> => f[1] = s[1]
    /\ \A i \in 1..(Len(s) - 1) : f[i + 1] = f[i] \o s[i + 1]

\* There is but one such function.
LEMMA FlatUnique ==
    ASSUME NEW B, NEW s \in Seq(Seq(B)), NEW f, NEW g, IsFlat(f, s), IsFlat(g, s)
    PROVE  \A i \in 1..Len(s) : f[i] = g[i]
<1> DEFINE S == {k \in Nat : k \in 1..Len(s) => f[k] = g[k]}
<1>0. Len(s) \in Nat /\ (Len(s) # 0 => s # <<>>)
  BY LenProperties, EmptySeq
<1>1. 0 \in S
  OBVIOUS
<1>2. ASSUME NEW k \in Nat, k \in S
      PROVE  k + 1 \in S
  <2>1. SUFFICES ASSUME k + 1 \in 1..Len(s)
                 PROVE  f[k + 1] = g[k + 1]
    OBVIOUS
  <2>2. CASE k = 0
    <3>1. f[1] = s[1] /\ g[1] = s[1]
      BY <1>0, <2>1, <2>2 DEF IsFlat
    <3>2. QED
      BY <2>2, <3>1
  <2>3. CASE k # 0
    <3>1. k \in 1..(Len(s) - 1) /\ k \in 1..Len(s)
      BY <1>0, <2>1, <2>3
    <3>2. f[k + 1] = f[k] \o s[k + 1] /\ g[k + 1] = g[k] \o s[k + 1]
      BY <3>1 DEF IsFlat
    <3>3. f[k] = g[k]
      BY <1>2, <3>1
    <3>4. QED
      BY <3>2, <3>3
  <2>4. QED
    BY <2>2, <2>3
<1>3. Nat \subseteq S
  <2> HIDE DEF S
  <2>1. QED BY <1>1, <1>2, SetInduction
<1>4. QED
  BY <1>0, <1>3

\* Such a function exists for every sequence of sequences.
LEMMA FlatExists ==
    ASSUME NEW B, NEW s \in Seq(Seq(B))
    PROVE  \E f \in [1..Len(s) -> Seq(B)] :
               f = [i \in 1..Len(s) |-> IF i = 1 THEN s[i] ELSE f[i - 1] \o s[i]]
<1> DEFINE Flat(f, n) == f = [i \in 1..n |-> IF i = 1 THEN s[i] ELSE f[i - 1] \o s[i]]
           S == {n \in Nat : n <= Len(s) => \E f \in [1..n -> Seq(B)] : Flat(f, n)}
<1>0. Len(s) \in Nat /\ \A i \in 1..Len(s) : s[i] \in Seq(B)
  BY LenProperties, ElementOfSeq
<1>1. 0 \in S
  <2> DEFINE f0 == [i \in 1..0 |-> <<>>]
  <2>1. f0 \in [1..0 -> Seq(B)]
    BY EmptySeq
  <2>2. Flat(f0, 0)
    OBVIOUS
  <2>3. QED
    BY <2>1, <2>2
<1>2. ASSUME NEW n \in Nat, n \in S
      PROVE  n + 1 \in S
  <2>1. SUFFICES ASSUME n + 1 <= Len(s)
                 PROVE  \E f \in [1..(n + 1) -> Seq(B)] : Flat(f, n + 1)
    <3> HIDE DEF Flat
    <3>1. QED OBVIOUS
  <2>2. n <= Len(s)
    BY <1>0, <2>1
  <2>3. PICK f \in [1..n -> Seq(B)] : Flat(f, n)
    BY <1>2, <2>2
  <2> DEFINE g == [i \in 1..(n + 1) |-> IF i \in 1..n THEN f[i]
                                        ELSE IF i = 1 THEN s[i] ELSE f[i - 1] \o s[i]]
  <2>4. \A i \in 1..(n + 1) : g[i] \in Seq(B)
    <3>1. SUFFICES ASSUME NEW i \in 1..(n + 1), i \notin 1..n, i # 1
                   PROVE  f[i - 1] \o s[i] \in Seq(B)
      BY <1>0, <2>1
    <3>2. i - 1 \in 1..n /\ i \in 1..Len(s)
      BY <1>0, <2>1, <3>1
    <3>3. QED
      BY <1>0, <3>2, ConcatProperties
  <2>5. \A i \in 1..(n + 1) : g[i] = IF i = 1 THEN s[i] ELSE g[i - 1] \o s[i]
    <3>1. TAKE i \in 1..(n + 1)
    <3>2. CASE i \in 1..n
      <4>1. g[i] = f[i]
        BY <3>2
      <4>2. f[i] = IF i = 1 THEN s[i] ELSE f[i - 1] \o s[i]
        BY <2>3, <3>2
      <4>3. i # 1 => g[i - 1] = f[i - 1]
        BY <3>2
      <4>4. QED
        BY <4>1, <4>2, <4>3
    <3>3. CASE i \notin 1..n
      <4>1. i # 1 => g[i - 1] = f[i - 1]
        BY <3>3
      <4>2. QED
        BY <3>3, <4>1
    <3>4. QED
      BY <3>2, <3>3
  <2>6. Flat(g, n + 1)
    BY <2>5, ZenonT(30)
  <2>7. g \in [1..(n + 1) -> Seq(B)]
    BY <2>4
  <2>8. QED
    BY <2>6, <2>7
<1>3. Nat \subseteq S
  <2> HIDE DEF S
  <2>1. QED BY <1>1, <1>2, SetInduction
<1>4. Len(s) \in S
  <2> HIDE DEF S
  <2>1. QED BY <1>0, <1>3
<1>5. \E f \in [1..Len(s) -> Seq(B)] : Flat(f, Len(s))
  <2> HIDE DEF Flat
  <2>1. QED BY <1>0, <1>4
<1>6. QED
  BY <1>5

\* FlattenSeq(s) is the last value of that function.
LEMMA FlattenIs ==
    ASSUME NEW B, NEW s \in Seq(Seq(B)), s # <<>>
    PROVE  \E f : IsFlat(f, s) /\ FlattenSeq(s) = f[Len(s)] /\ f[Len(s)] \in Seq(B)
<1>0. Len(s) \in Nat /\ Len(s) # 0
  BY EmptySeq, LenProperties
<1>1. PICK f \in [1..Len(s) -> Seq(B)] :
          f = [i \in 1..Len(s) |-> IF i = 1 THEN s[i] ELSE f[i - 1] \o s[i]]
  BY FlatExists
<1> DEFINE c == CHOOSE g : g = [i \in 1..Len(s) |-> IF i = 1 THEN s[i] ELSE g[i - 1] \o s[i]]
<1>2. c = [i \in 1..Len(s) |-> IF i = 1 THEN s[i] ELSE c[i - 1] \o s[i]]
  BY <1>1
<1>3. FlattenSeq(s) = c[Len(s)]
  BY <1>0 DEF FlattenSeq
<1> HIDE DEF c
<1>4. ASSUME NEW h, h = [i \in 1..Len(s) |-> IF i = 1 THEN s[i] ELSE h[i - 1] \o s[i]]
      PROVE  IsFlat(h, s)
  <2>1. \A i \in 1..Len(s) : h[i] = IF i = 1 THEN s[i] ELSE h[i - 1] \o s[i]
    BY <1>4
  <2>2. 1 \in 1..Len(s) /\ \A i \in 1..(Len(s) - 1) : i + 1 \in 1..Len(s) /\ i + 1 # 1 /\ i + 1 - 1 = i
    BY <1>0
  <2>3. h[1] = s[1]
    BY <2>1, <2>2
  <2>4. ASSUME NEW i \in 1..(Len(s) - 1)
        PROVE  h[i + 1] = h[i] \o s[i + 1]
    <3>1. PICK j \in 1..Len(s) : j = i + 1
      BY <1>0
    <3>2. j # 1 /\ j - 1 = i
      BY <1>0, <3>1
    <3>3. h[j] = h[j - 1] \o s[j]
      BY <2>1, <3>2
    <3>4. QED
      BY <3>1, <3>2, <3>3
  <2>5. QED
    BY <2>3, <2>4 DEF IsFlat
<1>5. IsFlat(f, s) /\ IsFlat(c, s)
  BY <1>1, <1>2, <1>4
<1>6. \A i \in 1..Len(s) : f[i] = c[i]
  BY <1>5, FlatUnique
<1>7. Len(s) \in 1..Len(s)
  BY <1>0
<1>8. QED
  BY <1>1, <1>3, <1>5, <1>6, <1>7, ZenonT(30)

\* FlattenSeq element by element.
LEMMA FlattenAppend ==
    ASSUME NEW B, NEW s \in Seq(Seq(B)), NEW x \in Seq(B)
    PROVE  /\ FlattenSeq(<<>>) = <<>>
           /\ FlattenSeq(s) \in Seq(B)
           /\ FlattenSeq(Append(s, x)) = FlattenSeq(s) \o x
<1>0. Len(s) \in Nat
  BY LenProperties
<1>1. FlattenSeq(<<>>) = <<>>
  BY EmptySeq DEF FlattenSeq
<1>2. FlattenSeq(s) \in Seq(B)
  BY <1>1, FlattenIs, EmptySeq
<1>3. PICK t \in Seq(Seq(B)) :
          /\ t = Append(s, x) /\ Len(t) = Len(s) + 1 /\ t # <<>>
          /\ t[Len(s) + 1] = x /\ \A i \in 1..Len(s) : t[i] = s[i]
  <2>1. Append(s, x) \in Seq(Seq(B)) /\ Append(s, x) # <<>>
    BY AppendProperties
  <2>2. /\ Len(Append(s, x)) = Len(s) + 1 /\ Append(s, x)[Len(s) + 1] = x
        /\ \A i \in 1..Len(s) : Append(s, x)[i] = s[i]
    BY AppendProperties
  <2>3. QED
    BY <2>1, <2>2
<1>4. PICK g : IsFlat(g, t) /\ FlattenSeq(t) = g[Len(t)]
  BY <1>3, FlattenIs
<1>5. CASE s = <<>>
  <2>1. Len(t) = 1 /\ g[1] = x
    BY <1>3, <1>4, <1>5, EmptySeq DEF IsFlat
  <2>2. <<>> \o x = x
    BY ConcatEmptySeq
  <2>3. QED
    BY <1>1, <1>2, <1>3, <1>4, <1>5, <2>1, <2>2
<1>6. CASE s # <<>>
  <2>1. Len(s) # 0
    BY <1>0, <1>6, EmptySeq
  <2>2. PICK f : IsFlat(f, s) /\ FlattenSeq(s) = f[Len(s)]
    BY <1>6, FlattenIs
  <2>4. \A i \in 1..Len(s) : f[i] = g[i]
    <3>1. g[1] = s[1]
      BY <1>0, <1>3, <1>4, <2>1 DEF IsFlat
    <3>2. ASSUME NEW i \in 1..(Len(s) - 1)
          PROVE  g[i + 1] = g[i] \o s[i + 1]
      <4>1. i \in 1..(Len(t) - 1) /\ i + 1 \in 1..Len(s)
        BY <1>0, <1>3
      <4>2. g[i + 1] = g[i] \o t[i + 1] /\ t[i + 1] = s[i + 1]
        BY <1>3, <1>4, <4>1 DEF IsFlat
      <4>3. QED
        BY <4>2
    <3>3. IsFlat(g, s)
      BY <3>1, <3>2 DEF IsFlat
    <3>4. QED
      BY <2>2, <3>3, FlatUnique
  <2>5. Len(s) \in 1..(Len(t) - 1) /\ Len(s) \in 1..Len(s)
    BY <1>0, <1>3, <2>1
  <2>6. g[Len(s) + 1] = g[Len(s)] \o t[Len(s) + 1]
    BY <1>4, <2>5 DEF IsFlat
  <2>7. QED
    BY <1>1, <1>2, <1>3, <1>4, <2>2, <2>4, <2>5, <2>6
<1>7. QED
  BY <1>5, <1>6

-----------------------------------------------------------------------------
(* The decoder's buffer. *)

\* The reader waits for more only when what it has is within the limit.
BufferInv ==
    /\ {net, buf} \subseteq Seq(Bytes)
    /\ count \in 0..MaxMsgs
    /\ call = "awaiting" => Len(buf) <= MaxFrame
    /\ Len(buf) <= MaxFrame + ReadChunk

\* A part of a byte sequence is one.
LEMMA Part ==
    \A s \in Seq(Bytes) : \A m, n \in Nat :
        1 <= m /\ n <= Len(s) => /\ SubSeq(s, m, n) \in Seq(Bytes)
                                 /\ Len(SubSeq(s, m, n)) = IF m <= n THEN n - m + 1 ELSE 0
<1> SUFFICES ASSUME NEW s \in Seq(Bytes), NEW m \in Nat, NEW n \in Nat, 1 <= m, n <= Len(s)
             PROVE  /\ SubSeq(s, m, n) \in Seq(Bytes)
                    /\ Len(SubSeq(s, m, n)) = IF m <= n THEN n - m + 1 ELSE 0
  OBVIOUS
<1>1. Len(s) \in Nat /\ \A i \in 1..Len(s) : s[i] \in Bytes
  BY LenProperties, ElementOfSeq
<1>2. \A i \in m..n : s[i] \in Bytes
  BY <1>1
<1>3. m \in Int /\ n \in Int
  OBVIOUS
<1>4. QED
  BY <1>2, <1>3, SubSeqProperties

\* Bytes put behind bytes are bytes, and the lengths add up.
LEMMA Joined ==
    \A t, s \in Seq(Bytes) : t \o s \in Seq(Bytes) /\ Len(t \o s) = Len(t) + Len(s)
BY ConcatProperties

\* What a sender writes are bytes.
LEMMA WriteTyped ==
    ASSUME BufferInv, SenderNext
    PROVE  net' \in Seq(Bytes) /\ count' \in 0..MaxMsgs /\ UNCHANGED readerVars
<1>0. MaxMsgs \in Nat
  BY FrameAssumption
<1>1. ASSUME NEW n \in 1..MaxLen, WritesPayload(n)
      PROVE  net' \in Seq(Bytes) /\ count' \in 0..MaxMsgs /\ UNCHANGED readerVars
  <2>1. count + 1 \in 1..MaxMsgs /\ count' = count + 1 /\ net' = net \o Payload(count + 1, n)
    BY <1>0, <1>1 DEF WritesPayload, Write, BufferInv
  <2>2. Payload(count + 1, n) \in Seq(Bytes)
    <3>1. Payload(count + 1, n) \in [1..n -> Bytes] /\ n \in Nat
      BY <1>0, <2>1, FrameAssumption DEF Payload, Bytes
    <3>2. QED
      BY <3>1
  <2>3. QED
    BY <1>1, <2>1, <2>2, Joined DEF BufferInv, WritesPayload
<1>2. CASE WritesDelimiter
  <2>1. net' = net \o <<NUL>> /\ UNCHANGED <<count, readerVars>>
    BY <1>2 DEF WritesDelimiter, Write
  <2>2. <<NUL>> \in Seq(Bytes)
    BY <1>0 DEF Bytes, NUL
  <2>3. QED
    BY <2>1, <2>2, Joined DEF BufferInv
<1>3. CASE WritesRaw
  <2>1. PICK b \in {NUL, RawByte} : net' = net \o <<b>> /\ UNCHANGED <<count, readerVars>>
    BY <1>3 DEF WritesRaw, Write
  <2>2. <<b>> \in Seq(Bytes)
    BY <1>0 DEF Bytes, NUL, RawByte
  <2>3. QED
    BY <2>1, <2>2, Joined DEF BufferInv
<1>4. ASSUME NEW n \in 1..MaxLen, RefusesPayload(n)
      PROVE  net' \in Seq(Bytes) /\ count' \in 0..MaxMsgs /\ UNCHANGED readerVars
  BY <1>0, <1>4 DEF RefusesPayload, BufferInv
<1>5. CASE Closes
  BY <1>5 DEF Closes, BufferInv
<1>6. QED
  BY <1>1, <1>2, <1>3, <1>4, <1>5 DEF SenderNext

\* Whatever the sender sends, and however the network cuts it.
LEMMA BufferStep ==
    ASSUME BufferInv, [Next]_vars
    PROVE  BufferInv'
<1>0. /\ MaxFrame \in Nat /\ ReadChunk \in Nat
      /\ net \in Seq(Bytes) /\ buf \in Seq(Bytes)
      /\ Len(net) \in Nat /\ Len(buf) \in Nat
  BY FrameAssumption, LenProperties DEF BufferInv
<1>1. CASE SenderNext
  BY <1>1, WriteTyped DEF BufferInv, readerVars
<1>2. CASE PopsFrame
  <2>1. PICK end \in Delimiters(buf) :
            buf' = SubSeq(buf, end + 1, Len(buf)) /\ UNCHANGED <<net, count>> /\ call' = "none"
    BY <1>2 DEF PopsFrame, senderVars
  <2>2. end \in 1..Len(buf)
    BY DEF Delimiters
  <2>3. buf' \in Seq(Bytes) /\ Len(buf') <= Len(buf)
    BY <1>0, <2>1, <2>2, Part
  <2>4. QED
    BY <1>0, <2>1, <2>3 DEF BufferInv
<1>3. CASE ReadsChunk
  <2>1. PICK n \in Chunks : /\ buf' = buf \o SubSeq(net, 1, n)
                            /\ net' = SubSeq(net, n + 1, Len(net))
                            /\ call = "awaiting" /\ call' = "scanning" /\ UNCHANGED count
    BY <1>3 DEF ReadsChunk, senderVars
  <2>2. n \in 1..Len(net) /\ n <= ReadChunk
    BY DEF Chunks
  <2>3. /\ SubSeq(net, 1, n) \in Seq(Bytes) /\ Len(SubSeq(net, 1, n)) = n
        /\ SubSeq(net, n + 1, Len(net)) \in Seq(Bytes)
    BY <1>0, <2>2, Part
  <2>4. buf' \in Seq(Bytes) /\ Len(buf') = Len(buf) + n
    BY <1>0, <2>1, <2>3, Joined
  <2>5. Len(buf) <= MaxFrame
    BY <2>1 DEF BufferInv
  <2>6. QED
    BY <1>0, <2>1, <2>2, <2>3, <2>4, <2>5 DEF BufferInv
<1>4. CASE TurnsRaw
  <2>1. <<>> \in Seq(Bytes) /\ Len(<<>>) = 0
    BY EmptySeq
  <2>2. QED
    BY <1>0, <1>4, <2>1 DEF TurnsRaw, BufferInv, senderVars
<1>5. CASE CopiesRaw
  <2>1. PICK n \in Chunks : net' = SubSeq(net, n + 1, Len(net)) /\ UNCHANGED <<buf, call, count>>
    BY <1>5 DEF CopiesRaw, senderVars
  <2>2. SubSeq(net, n + 1, Len(net)) \in Seq(Bytes)
    BY <1>0, Part DEF Chunks
  <2>3. QED
    BY <2>1, <2>2 DEF BufferInv
<1>6. CASE Calls \/ RefusesBuffer \/ AwaitsMore \/ ReadsEnd \/ ReadFails \/ Cancelled \/ UNCHANGED vars
  BY <1>6 DEF Calls, RefusesBuffer, AwaitsMore, ReadsEnd, ReadFails, Cancelled, vars, senderVars,
     readerVars, BufferInv
<1>7. QED
  BY <1>1, <1>2, <1>3, <1>4, <1>5, <1>6 DEF Next, ReaderRuns

\* No peer makes the decoder hold more than a frame and one read: BufferBounded
\* in every state, for any limit, chunk and sender.
THEOREM BufferIsBounded == Spec => []BufferBounded
<1>1. Init => BufferInv
  BY FrameAssumption, EmptySeq DEF Init, BufferInv
<1>2. BufferInv => BufferBounded
  BY DEF BufferInv, BufferBounded
<1>3. QED
  BY <1>1, <1>2, BufferStep, PTL DEF Spec

-----------------------------------------------------------------------------
(* Where the frames end in what was written. *)

\* A part of a byte sequence, byte by byte.
LEMMA PartBytes ==
    \A s \in Seq(Bytes) : \A m, n \in Nat :
        1 <= m /\ n <= Len(s) => \A i \in 1..(n - m + 1) : SubSeq(s, m, n)[i] = s[m + i - 1]
<1> SUFFICES ASSUME NEW s \in Seq(Bytes), NEW m \in Nat, NEW n \in Nat, 1 <= m, n <= Len(s)
             PROVE  \A i \in 1..(n - m + 1) : SubSeq(s, m, n)[i] = s[m + i - 1]
  OBVIOUS
<1>1. Len(s) \in Nat /\ \A i \in 1..Len(s) : s[i] \in Bytes
  BY LenProperties, ElementOfSeq
<1>2. \A i \in m..n : s[i] \in Bytes
  BY <1>1
<1>3. m \in Int /\ n \in Int
  OBVIOUS
<1>4. QED
  BY <1>2, <1>3, SubSeqProperties

\* The n bytes behind the place "at".
IsSlice(u, s, at, n) == u \in Seq(Bytes) /\ Len(u) = n /\ \A i \in 1..n : u[i] = s[at + i]

\* SubSeq takes such a part.
LEMMA Slice ==
    \A s \in Seq(Bytes) : \A at, n, a, z \in Nat :
        a = at + 1 /\ z = at + n /\ z <= Len(s) => IsSlice(SubSeq(s, a, z), s, at, n)
<1> SUFFICES ASSUME NEW s \in Seq(Bytes), NEW at \in Nat, NEW n \in Nat, NEW a \in Nat, NEW z \in Nat,
                    a = at + 1, z = at + n, z <= Len(s)
             PROVE  IsSlice(SubSeq(s, a, z), s, at, n)
  OBVIOUS
<1>1. PICK u : u = SubSeq(s, a, z)
  OBVIOUS
<1>2. u \in Seq(Bytes) /\ Len(u) = IF a <= z THEN z - a + 1 ELSE 0
  <2>1. 1 <= a
    OBVIOUS
  <2>2. QED
    BY <1>1, <2>1, Part
<1>3. \A i \in 1..(z - a + 1) : u[i] = s[a + i - 1]
  BY <1>1, PartBytes
<1>4. z - a + 1 = n /\ \A i \in 1..n : a + i - 1 = at + i
  OBVIOUS
<1>5. Len(u) = n
  BY <1>2
<1>6. \A i \in 1..n : u[i] = s[at + i]
  BY <1>3, <1>4
<1>7. QED
  BY <1>1, <1>2, <1>5, <1>6 DEF IsSlice

\* Bytes put behind bytes, byte by byte.
LEMMA JoinedBytes ==
    \A t, s \in Seq(Bytes) :
        /\ \A i \in 1..Len(t) : (t \o s)[i] = t[i]
        /\ \A i \in 1..Len(s) : (t \o s)[Len(t) + i] = s[i]
<1> SUFFICES ASSUME NEW t \in Seq(Bytes), NEW s \in Seq(Bytes)
             PROVE  /\ \A i \in 1..Len(t) : (t \o s)[i] = t[i]
                    /\ \A i \in 1..Len(s) : (t \o s)[Len(t) + i] = s[i]
  OBVIOUS
<1>1. Len(t) \in Nat /\ Len(s) \in Nat
  BY LenProperties
<1>2. \A i \in 1..(Len(t) + Len(s)) : (t \o s)[i] = IF i <= Len(t) THEN t[i] ELSE s[i - Len(t)]
  BY ConcatProperties
<1>3. \A i \in 1..Len(t) : (t \o s)[i] = t[i]
  BY <1>1, <1>2
<1>4. ASSUME NEW i \in 1..Len(s)
      PROVE  (t \o s)[Len(t) + i] = s[i]
  <2>1. PICK j \in 1..(Len(t) + Len(s)) : j = Len(t) + i
    BY <1>1
  <2>2. ~(j <= Len(t)) /\ j - Len(t) = i
    BY <1>1, <2>1
  <2>3. (t \o s)[j] = s[j - Len(t)]
    BY <1>2, <2>2
  <2>4. QED
    BY <2>1, <2>2, <2>3
<1>5. QED
  BY <1>3, <1>4

\* What was written before stays where it is.
LEMMA PartOfJoined ==
    \A t, s \in Seq(Bytes) : \A m, n \in Nat :
        1 <= m /\ n <= Len(t) => SubSeq(t \o s, m, n) = SubSeq(t, m, n)
<1> SUFFICES ASSUME NEW t \in Seq(Bytes), NEW s \in Seq(Bytes), NEW m \in Nat, NEW n \in Nat,
                    1 <= m, n <= Len(t)
             PROVE  SubSeq(t \o s, m, n) = SubSeq(t, m, n)
  OBVIOUS
<1>1. Len(t) \in Nat /\ Len(s) \in Nat /\ t \o s \in Seq(Bytes) /\ Len(t \o s) = Len(t) + Len(s)
  BY LenProperties, ConcatProperties
<1>2. n <= Len(t \o s)
  BY <1>1
<1>3. PICK u \in Seq(Bytes) : u = SubSeq(t \o s, m, n)
  BY <1>1, <1>2, Part
<1>4. PICK v \in Seq(Bytes) : v = SubSeq(t, m, n)
  BY Part
<1>5. /\ Len(u) = IF m <= n THEN n - m + 1 ELSE 0
      /\ Len(v) = IF m <= n THEN n - m + 1 ELSE 0
  BY <1>1, <1>2, <1>3, <1>4, Part
<1>6. ASSUME NEW i \in 1..Len(u)
      PROVE  u[i] = v[i]
  <2>1. i \in 1..(n - m + 1) /\ m + i - 1 \in 1..Len(t)
    BY <1>1, <1>5
  <2>2. u[i] = (t \o s)[m + i - 1] /\ v[i] = t[m + i - 1]
    BY <1>1, <1>2, <1>3, <1>4, <2>1, PartBytes
  <2>3. QED
    BY <2>1, <2>2, JoinedBytes
<1>7. u = v
  BY <1>5, <1>6, SeqEqual
<1>8. QED
  BY <1>3, <1>4, <1>7

\* The ends of the frames: cut[k] is the place of the k-th delimiter, cut[0] is
\* the beginning. There is no other delimiter, and the payloads lie between.
Cuts == [0..Len(framed) -> Nat]

Cutting(cut) ==
    /\ cut[0] = 0
    /\ \A k \in 0..Len(framed) : cut[k] <= Len(written)
    /\ \A j, k \in 0..Len(framed) : j < k => cut[j] < cut[k]
    /\ \A k \in 1..Len(framed) : written[cut[k]] = NUL
    /\ \A k \in 1..Len(framed) : framed[k] = SubSeq(written, cut[k - 1] + 1, cut[k] - 1)
    /\ \A i \in 1..Len(written) : written[i] = NUL => \E k \in 1..Len(framed) : i = cut[k]

\* What an honest sender has agreed to write is within the limit.
WithinLimit(cut) ==
    /\ \A k \in 1..Len(framed) : cut[k] - cut[k - 1] <= MaxFrame
    /\ Len(written) - cut[Len(framed)] < MaxFrame

\* What is buffered or on its way is the rest of what was written, behind "at".
UnreadFrom(at) ==
    /\ Len(written) = at + Len(buf) + Len(net)
    /\ \A i \in 1..Len(buf) : buf[i] = written[at + i]
    /\ \A i \in 1..Len(net) : net[i] = written[at + Len(buf) + i]

\* Until raw bytes follow, the frames cut up what was written, and the reader
\* is behind the last frame it has delivered.
CutsMatch ==
    rawSent = 0 => \E cut \in Cuts :
        /\ Cutting(cut)
        /\ sender = "idle" => cut[Len(framed)] = Len(written)
        /\ checks => WithinLimit(cut)
        /\ ~isRaw => UnreadFrom(cut[Len(delivered)])

DeliveredFirst ==
    /\ Len(delivered) <= Len(framed)
    /\ \A k \in 1..Len(delivered) : delivered[k] = framed[k]

\* What the reader has concluded, and the mode it is in.
Concluded ==
    /\ isRaw => call = "none" /\ result = "none" /\ buf = <<>>
    /\ ~isRaw => raw = <<>> /\ rawSent = 0
    /\ sender = "half" => rawSent = 0
    /\ call = "awaiting" => Delimiters(buf) = {}
    /\ result # "none" => call = "none"
    /\ result = "end" => net = <<>> /\ Delimiters(buf) = {} /\ sender = "closed"
    /\ result = "tooLarge" => ~checks

FrameInv == TypeOK /\ Concluded /\ CutsMatch /\ DeliveredFirst

\* The types in the form the provers use.
LEMMA Types ==
    ASSUME TypeOK
    PROVE  /\ net \in Seq(Bytes) /\ buf \in Seq(Bytes) /\ raw \in Seq(Bytes) /\ written \in Seq(Bytes)
           /\ Len(net) \in Nat /\ Len(buf) \in Nat /\ Len(written) \in Nat
           /\ framed \in Seq(Seq(Bytes \ {NUL})) /\ delivered \in Seq(Seq(Bytes \ {NUL}))
           /\ Len(framed) \in Nat /\ Len(delivered) \in Nat
           /\ count \in 0..MaxMsgs /\ rawSent \in 0..MaxRaw
           /\ checks \in BOOLEAN /\ isRaw \in BOOLEAN
           /\ MaxMsgs \in Nat /\ MaxRaw \in Nat /\ MaxFrame \in Nat /\ MaxLen \in Nat
           /\ NUL \in Bytes /\ RawByte \in Bytes
<1>1. /\ net \in Seq(Bytes) /\ buf \in Seq(Bytes) /\ raw \in Seq(Bytes) /\ written \in Seq(Bytes)
      /\ framed \in Seq(Seq(Bytes \ {NUL})) /\ delivered \in Seq(Seq(Bytes \ {NUL}))
      /\ count \in 0..MaxMsgs /\ rawSent \in 0..MaxRaw
      /\ checks \in BOOLEAN /\ isRaw \in BOOLEAN
  BY DEF TypeOK
<1>2. MaxMsgs \in Nat /\ MaxRaw \in Nat /\ MaxFrame \in Nat /\ MaxLen \in Nat
  BY FrameAssumption
<1>3. NUL \in Bytes /\ RawByte \in Bytes
  BY <1>2 DEF NUL, RawByte, Bytes
<1>4. QED
  BY <1>1, <1>2, <1>3, LenProperties

\* Bytes that are written are on their way behind the others.
LEMMA WrittenIsUnread ==
    ASSUME TypeOK, NEW at \in Nat, UnreadFrom(at), NEW bytes \in Seq(Bytes), Write(bytes), UNCHANGED buf
    PROVE  UnreadFrom(at)'
<1> DEFINE L == Len(written)
<1>0. /\ net \in Seq(Bytes) /\ written \in Seq(Bytes) /\ Len(bytes) \in Nat
      /\ Len(net) \in Nat /\ Len(buf) \in Nat /\ Len(written) \in Nat
  BY Types, LenProperties
<1>1. Len(net') = Len(net) + Len(bytes) /\ Len(written') = Len(written) + Len(bytes)
  BY <1>0, Joined DEF Write
<1>2. /\ \A i \in 1..Len(written) : written'[i] = written[i]
      /\ \A i \in 1..Len(bytes) : written'[Len(written) + i] = bytes[i]
      /\ \A i \in 1..Len(net) : net'[i] = net[i]
      /\ \A i \in 1..Len(bytes) : net'[Len(net) + i] = bytes[i]
  BY <1>0, JoinedBytes DEF Write
<1>3. Len(written) = at + Len(buf) + Len(net)
  BY DEF UnreadFrom
<1>4. ASSUME NEW i \in 1..Len(buf)
      PROVE  buf'[i] = written'[at + i]
  <2>1. at + i \in 1..Len(written)
    BY <1>0, <1>3
  <2>2. QED
    BY <1>2, <2>1 DEF UnreadFrom
<1>5. ASSUME NEW i \in 1..Len(net')
      PROVE  net'[i] = written'[at + Len(buf) + i]
  <2>1. CASE i \in 1..Len(net)
    <3>1. at + Len(buf) + i \in 1..Len(written)
      BY <1>0, <1>3, <2>1
    <3>2. QED
      BY <1>2, <2>1, <3>1 DEF UnreadFrom
  <2>2. CASE i \notin 1..Len(net)
    <3>1. PICK j \in 1..Len(bytes) : i = Len(net) + j
      <4>1. i - Len(net) \in 1..Len(bytes) /\ i = Len(net) + (i - Len(net))
        BY <1>0, <1>1, <2>2
      <4>2. QED
        BY <4>1
    <3>2. at + Len(buf) + i = Len(written) + j
      BY <1>0, <1>3, <3>1
    <3>3. QED
      BY <1>2, <3>1, <3>2
  <2>3. QED
    BY <2>1, <2>2
<1>6. QED
  BY <1>0, <1>1, <1>3, <1>4, <1>5, SMTT(30) DEF UnreadFrom

\* The greatest number of a set, if it has one.
LEMMA MaxIs ==
    ASSUME NEW S \in SUBSET Nat, NEW m \in S, \A i \in S : i <= m
    PROVE  Max(S) = m
<1>0. \A i \in S : i \in Nat /\ m >= i
  OBVIOUS
<1>1. Max(S) \in S /\ \A i \in S : Max(S) >= i
  BY <1>0 DEF Max
<1>2. Max(S) \in Nat /\ m \in Nat /\ m >= Max(S) /\ Max(S) >= m
  BY <1>0, <1>1
<1>3. QED
  BY <1>2

\* The ends in numbers: they lie within what was written, in order.
LEMMA CutsInOrder ==
    ASSUME TypeOK, NEW cut \in Cuts, Cutting(cut)
    PROVE  /\ \A k \in 0..Len(framed) : cut[k] \in Nat /\ cut[k] <= Len(written)
           /\ \A k \in 1..Len(framed) : k - 1 \in 0..Len(framed) /\ cut[k - 1] < cut[k]
           /\ \A j, k \in 0..Len(framed) : j < k => cut[j] < cut[k]
           /\ \A j, k \in 0..Len(framed) : j <= k => cut[j] <= cut[k]
<1>0. Len(framed) \in Nat /\ Len(written) \in Nat
  BY Types
<1>1. \A k \in 0..Len(framed) : cut[k] \in Nat /\ cut[k] <= Len(written)
  BY <1>0 DEF Cuts, Cutting
<1>2. \A j, k \in 0..Len(framed) : j < k => cut[j] < cut[k]
  BY DEF Cutting
<1>3. ASSUME NEW j \in 0..Len(framed), NEW k \in 0..Len(framed), j <= k
      PROVE  cut[j] <= cut[k]
  <2>1. CASE j = k
    BY <1>1, <2>1
  <2>2. CASE j # k
    <3>1. j < k
      BY <1>0, <1>3, <2>2
    <3>2. cut[j] < cut[k] /\ cut[j] \in Nat /\ cut[k] \in Nat
      BY <1>1, <1>2, <3>1
    <3>3. QED
      BY <3>2
  <2>3. QED
    BY <2>1, <2>2
<1>4. ASSUME NEW k \in 1..Len(framed)
      PROVE  k - 1 \in 0..Len(framed) /\ cut[k - 1] < cut[k]
  <2>1. PICK j \in 0..Len(framed) : j = k - 1
    BY <1>0
  <2>2. j < k /\ k \in 0..Len(framed)
    BY <1>0, <2>1
  <2>3. QED
    BY <1>2, <2>1, <2>2
<1>5. QED
  BY <1>1, <1>2, <1>3, <1>4

\* The payload the sender has begun is what follows the last delimiter.
LEMMA LastPayloadIs ==
    ASSUME TypeOK, NEW cut \in Cuts, Cutting(cut)
    PROVE  /\ LastPayload = SubSeq(written, cut[Len(framed)] + 1, Len(written))
           /\ LastPayload \in Seq(Bytes \ {NUL})
<1> DEFINE F == Len(framed)
           S == {i \in 1..Len(written) : written[i] = NUL} \cup {0}
<1>0. F \in Nat /\ Len(written) \in Nat /\ written \in Seq(Bytes)
  BY Types
<1>1. cut[F] \in Nat /\ cut[F] <= Len(written) /\ cut[0] = 0 /\ cut \in [0..F -> Nat]
  BY <1>0 DEF Cuts, Cutting
<1>2. \A k \in 1..F : cut[k] <= cut[F]
  <2>1. \A k \in 1..F : k \in 0..F /\ F \in 0..F /\ k <= F
    BY <1>0
  <2>2. QED
    BY <2>1, CutsInOrder
<1>3. \A i \in S : i <= cut[F]
  <2>1. TAKE i \in S
  <2>2. CASE i = 0
    BY <1>1, <2>2
  <2>3. CASE i \in 1..Len(written) /\ written[i] = NUL
    BY <1>2, <2>3 DEF Cutting
  <2>4. QED
    BY <2>2, <2>3
<1>4. cut[F] \in S
  <2>1. CASE F = 0
    BY <1>1, <2>1
  <2>2. CASE F # 0
    <3>1. F \in 1..F /\ 0 \in 0..F /\ F \in 0..F
      BY <1>0, <2>2
    <3>2. cut[F] > 0 /\ written[cut[F]] = NUL
      BY <1>0, <1>1, <3>1 DEF Cutting
    <3>3. QED
      BY <1>0, <1>1, <3>2
  <2>3. QED
    BY <2>1, <2>2
<1>5. Max(S) = cut[F]
  <2>1. S \in SUBSET Nat
    BY <1>0
  <2> HIDE DEF S
  <2>2. QED
    BY <1>3, <1>4, <2>1, MaxIs
<1>6. LastPayload = SubSeq(written, cut[F] + 1, Len(written))
  BY <1>5 DEF LastPayload
<1>7. \A i \in (cut[F] + 1)..Len(written) : written[i] \in Bytes \ {NUL}
  <2>1. TAKE i \in (cut[F] + 1)..Len(written)
  <2>2. i \in 1..Len(written) /\ i > cut[F]
    BY <1>0, <1>1
  <2>3. i \notin S
    BY <1>1, <1>3, <2>2
  <2>4. QED
    BY <1>0, <2>2, <2>3, ElementOfSeq
<1>8. LastPayload \in Seq(Bytes \ {NUL})
  <2>1. cut[F] + 1 \in Int /\ Len(written) \in Int
    BY <1>0, <1>1
  <2>2. QED
    BY <1>6, <1>7, <2>1, SubSeqProperties
<1>9. QED
  BY <1>6, <1>8

\* The frames that are cut stay cut when bytes follow.
LEMMA StaysCut ==
    ASSUME TypeOK, NEW cut \in Cuts, Cutting(cut), NEW bytes \in Seq(Bytes), Write(bytes)
    PROVE  /\ written' \in Seq(Bytes) /\ net' \in Seq(Bytes)
           /\ Len(written') = Len(written) + Len(bytes) /\ Len(bytes) \in Nat
           /\ \A i \in 1..Len(written) : written'[i] = written[i]
           /\ \A i \in 1..Len(bytes) : written'[Len(written) + i] = bytes[i]
           /\ \A k \in 1..Len(framed) : written'[cut[k]] = NUL
           /\ \A k \in 1..Len(framed) : framed[k] = SubSeq(written', cut[k - 1] + 1, cut[k] - 1)
<1>0. /\ written \in Seq(Bytes) /\ Len(written) \in Nat /\ Len(bytes) \in Nat
      /\ net \in Seq(Bytes) /\ Len(framed) \in Nat
  BY Types, LenProperties
<1>1. /\ written' = written \o bytes /\ net' = net \o bytes
      /\ written' \in Seq(Bytes) /\ net' \in Seq(Bytes) /\ Len(written') = Len(written) + Len(bytes)
  BY <1>0, Joined DEF Write
<1>2. /\ \A i \in 1..Len(written) : written'[i] = written[i]
      /\ \A i \in 1..Len(bytes) : written'[Len(written) + i] = bytes[i]
  BY <1>0, <1>1, JoinedBytes
<1>3. ASSUME NEW k \in 1..Len(framed)
      PROVE  /\ written'[cut[k]] = NUL
             /\ framed[k] = SubSeq(written', cut[k - 1] + 1, cut[k] - 1)
  <2>1. /\ cut[k] \in Nat /\ cut[k - 1] \in Nat /\ cut[k - 1] < cut[k] /\ cut[k] <= Len(written)
    <3>1. k \in 0..Len(framed)
      BY <1>0
    <3>2. k - 1 \in 0..Len(framed) /\ cut[k - 1] < cut[k]
      BY CutsInOrder
    <3>3. QED
      BY <3>1, <3>2, CutsInOrder
  <2>2. cut[k] \in 1..Len(written)
    BY <1>0, <2>1
  <2>3. written'[cut[k]] = NUL
    BY <1>2, <2>2 DEF Cutting
  <2>4. PICK a \in Nat, b \in Nat : a = cut[k - 1] + 1 /\ b = cut[k] - 1
    BY <1>0, <2>1
  <2>5. 1 <= a /\ b <= Len(written)
    BY <1>0, <2>1, <2>4, SMTT(30)
  <2>6. SubSeq(written \o bytes, a, b) = SubSeq(written, a, b)
    BY <1>0, <2>5, PartOfJoined
  <2>7. framed[k] = SubSeq(written, a, b)
    BY <2>4 DEF Cutting
  <2>8. QED
    BY <1>1, <2>3, <2>4, <2>6, <2>7
<1>4. QED
  BY <1>0, <1>1, <1>2, <1>3

\* The bytes of a payload are those of its message.
LEMMA PayloadBytes ==
    ASSUME NEW m \in 1..MaxMsgs, NEW n \in Nat
    PROVE  /\ Payload(m, n) \in Seq(Bytes) /\ Len(Payload(m, n)) = n
           /\ \A i \in 1..n : Payload(m, n)[i] # NUL
<1>1. m \in Bytes /\ m # NUL
  BY FrameAssumption DEF Bytes, NUL
<1>2. Payload(m, n) \in [1..n -> Bytes]
  BY <1>1 DEF Payload
<1>3. Payload(m, n) \in Seq(Bytes) /\ Len(Payload(m, n)) = n
  BY <1>2
<1>4. QED
  BY <1>1, <1>3 DEF Payload

\* A payload is begun: no frame ends in it.
LEMMA PayloadStep ==
    ASSUME FrameInv, NEW n \in 1..MaxLen, WritesPayload(n)
    PROVE  FrameInv'
<1> USE DEF FrameInv
<1> DEFINE bytes == Payload(count + 1, n)
<1>0. n \in Nat /\ count + 1 \in 1..MaxMsgs /\ count' = count + 1
  BY Types DEF WritesPayload
<1>1. bytes \in Seq(Bytes) /\ Len(bytes) = n /\ \A i \in 1..n : bytes[i] # NUL
  BY <1>0, PayloadBytes
<1>2. /\ sender = "idle" /\ rawSent = 0 /\ (checks => n + 1 <= MaxFrame) /\ sender' = "half"
      /\ UNCHANGED <<checks, rawSent, framed, buf, call, result, raw, isRaw, delivered>>
      /\ Write(bytes)
  BY DEF WritesPayload, Sendable, readerVars
<1> HIDE DEF bytes
<1>3. PICK cut \in Cuts : /\ Cutting(cut)
                          /\ cut[Len(framed)] = Len(written)
                          /\ checks => WithinLimit(cut)
                          /\ ~isRaw => UnreadFrom(cut[Len(delivered)])
  BY <1>2 DEF CutsMatch
<1>4. /\ written' \in Seq(Bytes) /\ net' \in Seq(Bytes)
      /\ Len(written') = Len(written) + n
      /\ \A i \in 1..Len(written) : written'[i] = written[i]
      /\ \A i \in 1..n : written'[Len(written) + i] = bytes[i]
      /\ \A k \in 1..Len(framed) : written'[cut[k]] = NUL
      /\ \A k \in 1..Len(framed) : framed[k] = SubSeq(written', cut[k - 1] + 1, cut[k] - 1)
  BY <1>1, <1>2, <1>3, StaysCut
<1>5. TypeOK'
  BY <1>0, <1>2, <1>4 DEF TypeOK
<1>6. Concluded'
  BY <1>2 DEF Concluded
<1>7. DeliveredFirst'
  BY <1>2 DEF DeliveredFirst
<1>8. CutsMatch'
  <2>0. Len(written) \in Nat /\ Len(framed) \in Nat /\ Len(delivered) \in Nat /\ MaxFrame \in Nat
    BY Types
  <2>1. Cutting(cut)'
    <3>1. cut[0] = 0 /\ \A k \in 0..Len(framed) : cut[k] <= Len(written')
      <4>1. \A k \in 0..Len(framed) : cut[k] \in Nat /\ cut[k] <= Len(written)
        BY <1>3, CutsInOrder
      <4>2. QED
        BY <1>0, <1>3, <1>4, <2>0, <4>1 DEF Cutting
    <3>2. ASSUME NEW i \in 1..Len(written'), written'[i] = NUL
          PROVE  \E k \in 1..Len(framed) : i = cut[k]
      <4>1. CASE i \in 1..Len(written)
        BY <1>3, <1>4, <3>2, <4>1 DEF Cutting
      <4>2. CASE i \notin 1..Len(written)
        <5>1. PICK j \in 1..n : i = Len(written) + j
          <6>1. i - Len(written) \in 1..n /\ i = Len(written) + (i - Len(written))
            BY <1>0, <1>4, <2>0, <4>2
          <6>2. QED
            BY <6>1
        <5>2. written'[i] # NUL
          BY <1>1, <1>4, <5>1
        <5>3. QED
          BY <3>2, <5>2
      <4>3. QED
        BY <4>1, <4>2
    <3>3. QED
      BY <1>2, <1>3, <1>4, <3>1, <3>2 DEF Cutting
  <2>2. checks => WithinLimit(cut)'
    BY <1>0, <1>2, <1>3, <1>4, <2>0 DEF WithinLimit
  <2>3. ~isRaw => UnreadFrom(cut[Len(delivered)])'
    <3>1. cut[Len(delivered)] \in Nat
      BY <1>3, <2>0, CutsInOrder DEF DeliveredFirst
    <3>2. QED
      BY <1>1, <1>2, <1>3, <3>1, WrittenIsUnread
  <2>4. cut \in Cuts'
    BY <1>2 DEF Cuts
  <2>5. QED
    BY <1>2, <2>1, <2>2, <2>3, <2>4 DEF CutsMatch
<1>9. QED
  BY <1>5, <1>6, <1>7, <1>8

\* The delimiter ends the payload: one frame more, and one end more.
LEMMA DelimiterStep ==
    ASSUME FrameInv, WritesDelimiter
    PROVE  FrameInv'
<1> USE DEF FrameInv
<1>f. PICK F \in Nat : F = Len(framed)
  BY Types
<1>l. PICK L \in Nat : L = Len(written)
  BY Types
<1>0. F = Len(framed) /\ L = Len(written) /\ Len(delivered) \in Nat /\ MaxFrame \in Nat \ {0} /\ <<NUL>> \in Seq(Bytes)
      /\ written \in Seq(Bytes) /\ framed \in Seq(Seq(Bytes \ {NUL}))
  BY <1>f, <1>l, Types, FrameAssumption
<1>1. /\ sender = "half" /\ rawSent = 0 /\ sender' = "idle"
      /\ framed' = Append(framed, LastPayload)
      /\ UNCHANGED <<checks, count, rawSent, buf, call, result, raw, isRaw, delivered>>
      /\ Write(<<NUL>>)
  BY DEF WritesDelimiter, readerVars, Concluded
<1>2. PICK cut \in Cuts : /\ Cutting(cut)
                          /\ checks => WithinLimit(cut)
                          /\ ~isRaw => UnreadFrom(cut[Len(delivered)])
  BY <1>1 DEF CutsMatch
<1>3. LastPayload = SubSeq(written, cut[F] + 1, L) /\ LastPayload \in Seq(Bytes \ {NUL})
  BY <1>0, <1>2, LastPayloadIs
<1>4. /\ framed' \in Seq(Seq(Bytes \ {NUL})) /\ Len(framed') = F + 1
      /\ \A k \in 1..F : framed'[k] = framed[k]
      /\ framed'[F + 1] = LastPayload
  <2>1. PICK payload \in Seq(Bytes \ {NUL}) : payload = LastPayload
    BY <1>3
  <2>2. framed' = Append(framed, payload)
    BY <1>1, <2>1
  <2>3. /\ Append(framed, payload) \in Seq(Seq(Bytes \ {NUL}))
        /\ Len(Append(framed, payload)) = Len(framed) + 1
        /\ \A k \in 1..Len(framed) : Append(framed, payload)[k] = framed[k]
        /\ Append(framed, payload)[Len(framed) + 1] = payload
    BY <1>0, AppendProperties
  <2>4. QED
    BY <1>0, <2>1, <2>2, <2>3
<1>5. /\ written' \in Seq(Bytes) /\ net' \in Seq(Bytes)
      /\ Len(written') = L + 1
      /\ \A i \in 1..L : written'[i] = written[i]
      /\ written'[L + 1] = NUL
      /\ \A k \in 1..F : written'[cut[k]] = NUL
      /\ \A k \in 1..F : framed[k] = SubSeq(written', cut[k - 1] + 1, cut[k] - 1)
  <2>1. Len(<<NUL>>) = 1 /\ <<NUL>>[1] = NUL
    OBVIOUS
  <2>2. /\ written' \in Seq(Bytes) /\ net' \in Seq(Bytes)
        /\ Len(written') = L + Len(<<NUL>>)
        /\ \A i \in 1..Len(<<NUL>>) : written'[L + i] = <<NUL>>[i]
        /\ \A i \in 1..L : written'[i] = written[i]
        /\ \A k \in 1..F : written'[cut[k]] = NUL
        /\ \A k \in 1..F : framed[k] = SubSeq(written', cut[k - 1] + 1, cut[k] - 1)
    BY <1>0, <1>1, <1>2, StaysCut
  <2>3. 1 \in 1..Len(<<NUL>>)
    BY <2>1
  <2>4. QED
    BY <2>1, <2>2, <2>3
<1>6. TypeOK'
  BY <1>1, <1>4, <1>5 DEF TypeOK
<1>7. Concluded'
  BY <1>1 DEF Concluded
<1>8. DeliveredFirst'
  BY <1>0, <1>1, <1>4 DEF DeliveredFirst
<1>9. CutsMatch'
  <2>0. \A k \in 0..F : cut[k] \in Nat /\ cut[k] <= L
    BY <1>0, <1>2, CutsInOrder
  <2>1. PICK more \in [0..(F + 1) -> Nat] : more[F + 1] = L + 1 /\ \A k \in 0..F : more[k] = cut[k]
    <3> DEFINE new == [k \in 0..(F + 1) |-> IF k \in 0..F THEN cut[k] ELSE L + 1]
    <3>1. new \in [0..(F + 1) -> Nat] /\ new[F + 1] = L + 1 /\ \A k \in 0..F : new[k] = cut[k]
      BY <2>0
    <3>2. QED
      BY <3>1
  <2>2. more \in Cuts'
    BY <1>4, <2>1 DEF Cuts
  <2>3. more[0] = 0
    BY <1>0, <1>2, <2>1 DEF Cutting
  <2>4. \A k \in 0..Len(framed') : more[k] <= Len(written')
    <3>1. TAKE k \in 0..Len(framed')
    <3>2. k \in 0..F \/ k = F + 1
      BY <1>0, <1>4
    <3>3. CASE k \in 0..F
      <4>1. more[k] = cut[k] /\ cut[k] \in Nat /\ cut[k] <= L
        BY <2>0, <2>1, <3>3
      <4>2. QED
        BY <1>5, <4>1
    <3>4. CASE k = F + 1
      BY <1>5, <2>1, <3>4
    <3>5. QED
      BY <3>2, <3>3, <3>4
  <2>5. \A j, k \in 0..Len(framed') : j < k => more[j] < more[k]
    <3>1. SUFFICES ASSUME NEW j \in 0..Len(framed'), NEW k \in 0..Len(framed'), j < k
                   PROVE  more[j] < more[k]
      OBVIOUS
    <3>2. j \in 0..F /\ (k \in 0..F \/ k = F + 1)
      BY <1>0, <1>4, <3>1
    <3>3. CASE k \in 0..F
      BY <1>0, <1>2, <2>1, <3>1, <3>2, <3>3 DEF Cutting
    <3>4. CASE k = F + 1
      <4>1. more[j] = cut[j] /\ cut[j] \in Nat /\ cut[j] <= L /\ more[k] = L + 1
        BY <2>0, <2>1, <3>2, <3>4
      <4>2. QED
        BY <4>1
    <3>5. QED
      BY <3>2, <3>3, <3>4
  <2>6. \A k \in 1..Len(framed') : written'[more[k]] = NUL
    <3>1. TAKE k \in 1..Len(framed')
    <3>2. (k \in 1..F /\ k \in 0..F) \/ k = F + 1
      BY <1>0, <1>4
    <3>3. QED
      BY <1>5, <2>1, <3>2
  <2>7. \A k \in 1..Len(framed') : framed'[k] = SubSeq(written', more[k - 1] + 1, more[k] - 1)
    <3>1. TAKE k \in 1..Len(framed')
    <3>2. CASE k \in 1..F
      <4>1. PICK j \in 0..F : j = k - 1
        BY <3>2
      <4>2. k \in 0..F
        BY <3>2
      <4>3. more[k] = cut[k] /\ more[j] = cut[j]
        BY <2>1, <4>2
      <4>4. QED
        BY <1>4, <1>5, <3>2, <4>1, <4>3
    <3>3. CASE k = F + 1
      <4>1. k - 1 = F /\ F \in 0..F /\ more[k - 1] = cut[F] /\ more[k] - 1 = L
        BY <1>0, <2>1, <3>3
      <4>2. PICK a \in Nat : a = cut[F] + 1 /\ 1 <= a
        BY <2>0, <4>1
      <4>3. SubSeq(written \o <<NUL>>, a, L) = SubSeq(written, a, L)
        <5>1. L <= Len(written) /\ written \in Seq(Bytes) /\ 1 <= a
          BY <1>0, <4>2
        <5>2. QED
          <6>1. PICK bytes \in Seq(Bytes) : bytes = <<NUL>>
            BY <1>0
          <6>2. SubSeq(written \o bytes, a, L) = SubSeq(written, a, L)
            BY <5>1, PartOfJoined
          <6>3. QED
            BY <6>1, <6>2
      <4>4. QED
        BY <1>1, <1>3, <1>4, <3>3, <4>1, <4>2, <4>3 DEF Write
    <3>4. QED
      BY <1>0, <1>4, <3>2, <3>3, SMTT(30)
  <2>8. \A i \in 1..Len(written') : written'[i] = NUL => \E k \in 1..Len(framed') : i = more[k]
    <3>1. SUFFICES ASSUME NEW i \in 1..Len(written'), written'[i] = NUL
                   PROVE  \E k \in 1..Len(framed') : i = more[k]
      OBVIOUS
    <3>2. CASE i \in 1..L
      <4>1. PICK k \in 1..F : i = cut[k]
        BY <1>0, <1>2, <1>5, <3>1, <3>2 DEF Cutting
      <4>2. k \in 0..F /\ k \in 1..Len(framed')
        BY <1>0, <1>4
      <4>3. QED
        BY <2>1, <4>1, <4>2
    <3>3. CASE i = L + 1
      <4>1. F + 1 \in 1..Len(framed')
        BY <1>0, <1>4
      <4>2. QED
        BY <2>1, <3>3, <4>1
    <3>4. QED
      BY <1>0, <1>5, <3>2, <3>3
  <2>9. Cutting(more)'
    BY <2>3, <2>4, <2>5, <2>6, <2>7, <2>8 DEF Cutting
  <2>10. checks => WithinLimit(more)'
    <3>1. SUFFICES ASSUME checks PROVE WithinLimit(more)'
      OBVIOUS
    <3>2. (\A k \in 1..F : cut[k] - cut[k - 1] <= MaxFrame) /\ L - cut[F] < MaxFrame
      BY <1>0, <1>2, <3>1 DEF WithinLimit
    <3>3. ASSUME NEW k \in 1..(F + 1)
          PROVE  more[k] - more[k - 1] <= MaxFrame
      <4>1. PICK j \in 0..F : j = k - 1
        OBVIOUS
      <4>2. CASE k \in 1..F
        <5>1. k \in 0..F
          BY <4>2
        <5>2. more[k] = cut[k] /\ more[j] = cut[j]
          BY <2>1, <5>1
        <5>3. QED
          BY <3>2, <4>1, <4>2, <5>2
      <4>3. CASE k = F + 1
        <5>1. j = F /\ more[k] = L + 1 /\ more[k - 1] = cut[F] /\ cut[F] \in Nat
          BY <2>0, <2>1, <4>1, <4>3
        <5>2. QED
          BY <1>0, <3>2, <5>1
      <4>4. QED
        BY <4>2, <4>3
    <3>4. Len(written') - more[Len(framed')] < MaxFrame
      BY <1>0, <1>4, <1>5, <2>1
    <3>5. QED
      BY <1>4, <3>3, <3>4 DEF WithinLimit
  <2>11. ~isRaw => UnreadFrom(more[Len(delivered)])'
    <3>1. Len(delivered) \in 0..F
      BY <1>0 DEF DeliveredFirst
    <3>2. more[Len(delivered)] = cut[Len(delivered)] /\ cut[Len(delivered)] \in Nat
      BY <2>0, <2>1, <3>1
    <3>3. UNCHANGED <<buf, delivered>>
      BY <1>1
    <3>4. ASSUME ~isRaw
          PROVE  UnreadFrom(cut[Len(delivered)])'
      <4>1. PICK at \in Nat : at = cut[Len(delivered)]
        BY <3>2
      <4>2. UnreadFrom(at)'
        BY <1>0, <1>1, <1>2, <3>4, <4>1, WrittenIsUnread
      <4>3. QED
        BY <3>3, <4>1, <4>2 DEF UnreadFrom
    <3>5. QED
      BY <3>2, <3>3, <3>4 DEF UnreadFrom
  <2>12. Len(framed') \in 0..(F + 1) /\ more[Len(framed')] = Len(written')
    BY <1>0, <1>4, <1>5, <2>1
  <2>13. QED
    BY <1>1, <2>2, <2>9, <2>10, <2>11, <2>12 DEF CutsMatch
<1>10. QED
  BY <1>6, <1>7, <1>8, <1>9

\* Where nothing is written, framed, read or delivered, the frames stay cut.
LEMMA SameCuts ==
    ASSUME CutsMatch, UNCHANGED <<checks, rawSent, written, framed, buf, net, isRaw, delivered>>,
           sender' = "idle" => sender = "idle"
    PROVE  CutsMatch'
<1>1. SUFFICES ASSUME rawSent' = 0
               PROVE  \E cut \in Cuts' :
                          /\ Cutting(cut)'
                          /\ sender' = "idle" => cut[Len(framed')] = Len(written')
                          /\ checks' => WithinLimit(cut)'
                          /\ ~isRaw' => UnreadFrom(cut[Len(delivered)])'
  BY DEF CutsMatch
<1>2. PICK cut \in Cuts : /\ Cutting(cut)
                          /\ sender = "idle" => cut[Len(framed)] = Len(written)
                          /\ checks => WithinLimit(cut)
                          /\ ~isRaw => UnreadFrom(cut[Len(delivered)])
  BY <1>1 DEF CutsMatch
<1>3. cut \in Cuts' /\ Cutting(cut)'
  BY <1>2 DEF Cuts, Cutting
<1>4. checks' => WithinLimit(cut)'
  BY <1>2 DEF WithinLimit
<1>5. ~isRaw' => UnreadFrom(cut[Len(delivered)])'
  BY <1>2 DEF UnreadFrom
<1>6. QED
  BY <1>2, <1>3, <1>4, <1>5

\* Whatever the sender does.
LEMMA SenderStep ==
    ASSUME FrameInv, SenderNext
    PROVE  FrameInv'
<1>1. ASSUME NEW n \in 1..MaxLen, WritesPayload(n) PROVE FrameInv'
  BY <1>1, PayloadStep
<1>2. CASE WritesDelimiter
  BY <1>2, DelimiterStep
<1>3. CASE WritesRaw
  <2>0. /\ net \in Seq(Bytes) /\ written \in Seq(Bytes) /\ rawSent \in Nat /\ MaxRaw \in Nat
        /\ NUL \in Bytes /\ RawByte \in Bytes
    BY Types DEF FrameInv
  <2>1. PICK b \in {NUL, RawByte} : Write(<<b>>)
    BY <1>3 DEF WritesRaw
  <2>2. <<b>> \in Seq(Bytes)
    BY <2>0
  <2>3. /\ isRaw /\ sender = "idle" /\ rawSent < MaxRaw /\ rawSent' = rawSent + 1
        /\ UNCHANGED <<checks, sender, count, framed, buf, call, result, raw, isRaw, delivered>>
    BY <1>3 DEF WritesRaw, readerVars
  <2>4. net' \in Seq(Bytes) /\ written' \in Seq(Bytes)
    BY <2>0, <2>1, <2>2, Joined DEF Write
  <2>5. rawSent' \in 0..MaxRaw /\ rawSent' # 0
    BY <2>0, <2>3
  <2>6. TypeOK'
    BY <2>3, <2>4, <2>5 DEF FrameInv, TypeOK
  <2>7. Concluded'
    BY <2>3 DEF FrameInv, Concluded
  <2>8. QED
    BY <2>3, <2>5, <2>6, <2>7 DEF FrameInv, CutsMatch, DeliveredFirst
<1>4. ASSUME NEW n \in 1..MaxLen, RefusesPayload(n) PROVE FrameInv'
  <2>1. /\ count' \in 0..MaxMsgs
        /\ UNCHANGED <<checks, sender, rawSent, written, framed, net, readerVars>>
    BY <1>4, Types DEF RefusesPayload, FrameInv
  <2>2. TypeOK'
    BY <2>1 DEF FrameInv, TypeOK, readerVars
  <2>3. Concluded' /\ DeliveredFirst'
    BY <2>1 DEF FrameInv, Concluded, DeliveredFirst, readerVars, Delimiters
  <2>4. CutsMatch'
    BY <2>1, SameCuts DEF FrameInv, readerVars
  <2>5. QED
    BY <2>2, <2>3, <2>4 DEF FrameInv
<1>5. CASE Closes
  <2>1. /\ sender' = "closed" /\ sender # "closed"
        /\ UNCHANGED <<checks, count, rawSent, written, framed, net, readerVars>>
    BY <1>5 DEF Closes
  <2>2. TypeOK'
    BY <2>1 DEF FrameInv, TypeOK, readerVars
  <2>3. Concluded' /\ DeliveredFirst'
    BY <2>1 DEF FrameInv, Concluded, DeliveredFirst, readerVars, Delimiters
  <2>4. CutsMatch'
    BY <2>1, SameCuts DEF FrameInv, readerVars
  <2>5. QED
    BY <2>2, <2>3, <2>4 DEF FrameInv
<1>6. QED
  BY <1>1, <1>2, <1>3, <1>4, <1>5 DEF SenderNext

\* In raw mode nothing is said of what the reader has not read.
LEMMA RawCuts ==
    ASSUME CutsMatch, UNCHANGED <<checks, sender, rawSent, written, framed>>, isRaw'
    PROVE  CutsMatch'
<1>1. SUFFICES ASSUME rawSent' = 0
               PROVE  \E cut \in Cuts' :
                          /\ Cutting(cut)'
                          /\ sender' = "idle" => cut[Len(framed')] = Len(written')
                          /\ checks' => WithinLimit(cut)'
  BY DEF CutsMatch
<1>2. PICK cut \in Cuts : /\ Cutting(cut)
                          /\ sender = "idle" => cut[Len(framed)] = Len(written)
                          /\ checks => WithinLimit(cut)
  BY <1>1 DEF CutsMatch
<1>3. cut \in Cuts' /\ Cutting(cut)'
  BY <1>2 DEF Cuts, Cutting
<1>4. checks' => WithinLimit(cut)'
  BY <1>2 DEF WithinLimit
<1>5. QED
  BY <1>2, <1>3, <1>4

\* The first delimiter in the buffer is the end of the next frame; without one,
\* there is no frame to come, unless its end is still on its way.
LEMMA NextEnd ==
    ASSUME TypeOK, DeliveredFirst, NEW cut \in Cuts, Cutting(cut), UnreadFrom(cut[Len(delivered)])
    PROVE  /\ cut[Len(delivered)] \in Nat
           /\ Len(delivered) < Len(framed) =>
                  /\ cut[Len(delivered) + 1] \in Nat /\ cut[Len(delivered) + 1] > cut[Len(delivered)]
                  /\ cut[Len(delivered) + 1] <= Len(written)
                  /\ cut[Len(delivered) + 1] <= cut[Len(delivered)] + Len(buf) =>
                         cut[Len(delivered) + 1] - cut[Len(delivered)] \in Delimiters(buf)
           /\ \A d \in Delimiters(buf) :
                  /\ Len(delivered) < Len(framed)
                  /\ cut[Len(delivered) + 1] <= cut[Len(delivered)] + d
<1>f. PICK F \in Nat : F = Len(framed)
  BY Types
<1>d. PICK D \in Nat : D = Len(delivered)
  BY Types
<1>l. PICK L \in Nat : L = Len(written)
  BY Types
<1>b. PICK B \in Nat : B = Len(buf)
  BY Types
<1>n. Len(net) \in Nat /\ D <= F
  BY <1>f, <1>d, Types DEF DeliveredFirst
<1>0. \A k \in 0..F : cut[k] \in Nat /\ cut[k] <= L
  BY <1>f, <1>l, CutsInOrder
<1>1. PICK at \in Nat : at = cut[D]
  BY <1>0, <1>n
<1>2. L = at + B + Len(net) /\ \A i \in 1..B : buf[i] = written[at + i]
  BY <1>d, <1>l, <1>b, <1>1 DEF UnreadFrom
<1>3. ASSUME D < F
      PROVE  /\ cut[D + 1] \in Nat /\ cut[D + 1] > at /\ cut[D + 1] <= L
             /\ cut[D + 1] <= at + B => cut[D + 1] - at \in Delimiters(buf)
  <2>1. PICK k \in 1..F : k = D + 1
    BY <1>3
  <2>2. k \in 0..F /\ D \in 0..F /\ D < k
    BY <2>1
  <2>3. cut[k] \in Nat /\ cut[k] > at /\ cut[k] <= L
    BY <1>f, <1>0, <1>1, <2>2 DEF Cutting
  <2>4. ASSUME cut[k] <= at + B
        PROVE  cut[k] - at \in Delimiters(buf)
    <3>1. PICK q \in 1..B : q = cut[k] - at
      BY <2>3, <2>4
    <3>2. at + q = cut[k]
      BY <2>3, <3>1
    <3>3. buf[q] = NUL
      BY <1>f, <1>2, <3>2 DEF Cutting
    <3>4. QED
      BY <1>b, <3>1, <3>3 DEF Delimiters
  <2>5. QED
    BY <2>1, <2>3, <2>4
<1>4. ASSUME NEW d \in Delimiters(buf)
      PROVE  D < F /\ cut[D + 1] <= at + d
  <2>1. d \in 1..B /\ buf[d] = NUL
    BY <1>b DEF Delimiters
  <2>2. PICK p \in 1..L : p = at + d
    BY <1>2, <1>n, <2>1
  <2>3. written[p] = NUL
    BY <1>2, <2>1, <2>2
  <2>4. PICK k \in 1..F : p = cut[k]
    BY <1>f, <1>l, <2>3 DEF Cutting
  <2>5. k \in 0..F /\ D \in 0..F
    BY <1>n
  <2>6. \A j, m \in 0..F : j <= m => cut[j] <= cut[m]
    BY <1>f, CutsInOrder
  <2>7. ~(k <= D)
    <3>1. SUFFICES ASSUME k <= D PROVE FALSE
      OBVIOUS
    <3>2. cut[k] <= cut[D]
      BY <2>5, <2>6, <3>1
    <3>3. QED
      BY <1>1, <2>1, <2>2, <2>4, <3>2
  <2>8. PICK m \in 0..F : m = D + 1
    BY <2>5, <2>7
  <2>9. m <= k /\ D < F
    BY <2>5, <2>7, <2>8
  <2>10. cut[m] <= cut[k]
    BY <2>5, <2>6, <2>9
  <2>11. QED
    BY <2>2, <2>4, <2>8, <2>9, <2>10
<1>5. QED
  BY <1>f, <1>d, <1>l, <1>b, <1>1, <1>3, <1>4

\* next_frame hands over the next frame, and the rest stays in order.
LEMMA PopStep ==
    ASSUME FrameInv, PopsFrame
    PROVE  FrameInv'
<1> USE DEF FrameInv
<1>f. PICK F \in Nat : F = Len(framed)
  BY Types
<1>d. PICK D \in Nat : D = Len(delivered)
  BY Types
<1>b. PICK B \in Nat : B = Len(buf)
  BY Types
<1>0. /\ buf \in Seq(Bytes) /\ written \in Seq(Bytes)
      /\ framed \in Seq(Seq(Bytes \ {NUL})) /\ delivered \in Seq(Seq(Bytes \ {NUL}))
      /\ Len(net) \in Nat /\ Len(written) \in Nat
  BY Types
<1>1. PICK end \in Delimiters(buf) :
          /\ \A i \in Delimiters(buf) : end <= i
          /\ delivered' = Append(delivered, SubSeq(buf, 1, end - 1))
          /\ buf' = SubSeq(buf, end + 1, Len(buf))
  BY DEF PopsFrame
<1>2. /\ call = "scanning" /\ call' = "none"
      /\ UNCHANGED <<checks, sender, count, rawSent, written, framed, net, result, raw, isRaw>>
  BY DEF PopsFrame, senderVars
<1>3. ~isRaw /\ rawSent = 0 /\ result = "none"
  BY <1>2 DEF Concluded, TypeOK
<1>4. PICK cut \in Cuts : /\ Cutting(cut)
                          /\ sender = "idle" => cut[Len(framed)] = Len(written)
                          /\ checks => WithinLimit(cut)
                          /\ UnreadFrom(cut[Len(delivered)])
  BY <1>3 DEF CutsMatch
<1>5. PICK at \in Nat : at = cut[D]
  BY <1>d, <1>4, NextEnd
<1>6. end \in 1..B
  BY <1>b DEF Delimiters
<1>7. D < F /\ cut[D + 1] = at + end
  <2>1. D < F /\ cut[D + 1] <= at + end
    BY <1>f, <1>d, <1>4, <1>5, NextEnd
  <2>2. PICK c \in Nat : c = cut[D + 1] /\ c > at /\ (c <= at + B => c - at \in Delimiters(buf))
    BY <1>f, <1>d, <1>b, <1>4, <1>5, <2>1, NextEnd
  <2>3. c - at \in Delimiters(buf)
    BY <1>6, <2>1, <2>2
  <2>4. end <= c - at
    BY <1>1, <2>3
  <2>5. QED
    BY <1>6, <2>1, <2>2, <2>4
<1>8. PICK K \in 1..F : K = D + 1
  BY <1>7
<1>9. /\ Len(written) = at + B + Len(net)
      /\ \A i \in 1..B : buf[i] = written[at + i]
      /\ \A i \in 1..Len(net) : net[i] = written[at + B + i]
  BY <1>d, <1>b, <1>4, <1>5 DEF UnreadFrom
<1>10. SubSeq(buf, 1, end - 1) = framed[K]
  <2>1. PICK e \in Nat, zero \in Nat, one \in Nat : /\ e = end - 1 /\ zero = 0 /\ one = 1
                                                  /\ e <= Len(buf) /\ one = zero + 1 /\ e = zero + e
    BY <1>b, <1>6
  <2>2. PICK a \in Nat, z \in Nat : a = at + 1 /\ z = at + e
    BY <2>1
  <2>3. framed[K] = SubSeq(written, a, z)
    <3>1. K - 1 = D /\ cut[K] = at + end /\ cut[K - 1] = at
      BY <1>5, <1>7, <1>8
    <3>2. cut[K] - 1 = z /\ cut[K - 1] + 1 = a
      BY <1>6, <2>1, <2>2, <3>1
    <3>3. framed[K] = SubSeq(written, cut[K - 1] + 1, cut[K] - 1)
      BY <1>f, <1>4 DEF Cutting
    <3>4. QED
      BY <3>2, <3>3
  <2>4. z <= Len(written)
    BY <1>0, <1>6, <1>9, <2>1, <2>2
  <2>5. PICK u : u = SubSeq(buf, one, e) /\ IsSlice(u, buf, zero, e)
    BY <1>0, <2>1, Slice
  <2>6. PICK v : v = SubSeq(written, a, z) /\ IsSlice(v, written, at, e)
    BY <1>0, <2>2, <2>4, Slice
  <2>7. ASSUME NEW i \in 1..e
        PROVE  u[i] = v[i]
    <3>1. zero + i = i /\ i \in 1..B
      BY <1>6, <2>1
    <3>2. u[i] = buf[i]
      BY <2>5, <3>1 DEF IsSlice
    <3>3. v[i] = written[at + i]
      BY <2>6 DEF IsSlice
    <3>4. QED
      BY <1>9, <3>1, <3>2, <3>3
  <2>8. u = v
    <3>1. /\ u \in Seq(Bytes) /\ v \in Seq(Bytes) /\ Len(u) = e /\ Len(v) = e
      BY <2>5, <2>6 DEF IsSlice
    <3>2. QED
      BY <2>7, <3>1, SeqEqual
  <2>9. QED
    BY <2>1, <2>3, <2>5, <2>6, <2>8
<1>11. /\ delivered' \in Seq(Seq(Bytes \ {NUL})) /\ Len(delivered') = D + 1
       /\ \A k \in 1..D : delivered'[k] = delivered[k]
       /\ delivered'[K] = framed[K]
  <2>1. PICK frame \in Seq(Bytes \ {NUL}) : frame = framed[K]
    BY <1>f, <1>0, ElementOfSeq
  <2>2. delivered' = Append(delivered, frame)
    BY <1>1, <1>10, <2>1
  <2>3. QED
    BY <1>0, <1>d, <1>8, <2>1, <2>2, AppendProperties
<1>12. /\ buf' \in Seq(Bytes) /\ Len(buf') = B - end
       /\ \A i \in 1..(B - end) : buf'[i] = buf[end + i]
  <2>1. PICK a \in Nat, n \in Nat : a = end + 1 /\ n = B - end /\ B = end + n /\ end \in Nat
    BY <1>6
  <2>2. buf' = SubSeq(buf, a, B)
    BY <1>1, <1>b, <2>1
  <2>3. IsSlice(SubSeq(buf, a, B), buf, end, n)
    <3>1. B <= Len(buf)
      BY <1>b
    <3>2. QED
      BY <1>0, <2>1, <3>1, Slice
  <2>4. QED
    BY <2>1, <2>2, <2>3 DEF IsSlice
<1>13. TypeOK'
  BY <1>2, <1>11, <1>12 DEF TypeOK
<1>14. Concluded'
  BY <1>2, <1>3 DEF Concluded
<1>15. DeliveredFirst'
  <2>1. Len(delivered') <= Len(framed')
    BY <1>2, <1>f, <1>7, <1>11
  <2>2. ASSUME NEW k \in 1..Len(delivered')
        PROVE  delivered'[k] = framed'[k]
    <3>1. k \in 1..D \/ k = K
      BY <1>8, <1>11
    <3>2. QED
      BY <1>2, <1>d, <1>11, <3>1 DEF DeliveredFirst
  <2>3. QED
    BY <2>1, <2>2 DEF DeliveredFirst
<1>16. CutsMatch'
  <2>1. cut \in Cuts' /\ Cutting(cut)'
    BY <1>2, <1>4 DEF Cuts, Cutting
  <2>2. checks' => WithinLimit(cut)'
    BY <1>2, <1>4 DEF WithinLimit
  <2>3. cut[Len(delivered')] = at + end
    BY <1>7, <1>11
  <2>4. UnreadFrom(at + end)'
    <3>1. Len(written') = at + end + Len(buf') + Len(net')
      BY <1>0, <1>2, <1>6, <1>9, <1>12
    <3>2. ASSUME NEW i \in 1..Len(buf')
          PROVE  buf'[i] = written'[at + end + i]
      <4>1. PICK j \in 1..B : j = end + i
        BY <1>6, <1>12
      <4>2. buf'[i] = buf[j] /\ buf[j] = written[at + j] /\ at + j = at + end + i
        BY <1>6, <1>9, <1>12, <4>1, SMTT(30)
      <4>3. QED
        BY <1>2, <4>2
    <3>3. ASSUME NEW i \in 1..Len(net')
          PROVE  net'[i] = written'[at + end + Len(buf') + i]
      <4>1. at + end + Len(buf') + i = at + B + i
        BY <1>0, <1>2, <1>6, <1>12
      <4>2. QED
        BY <1>2, <1>9, <4>1
    <3>4. QED
      BY <3>1, <3>2, <3>3 DEF UnreadFrom
  <2>5. QED
    BY <1>2, <1>4, <2>1, <2>2, <2>3, <2>4 DEF CutsMatch
<1>17. QED
  BY <1>13, <1>14, <1>15, <1>16

\* What is read is what is next on its way.
LEMMA Taken ==
    ASSUME TypeOK, NEW n \in Chunks
    PROVE  \E chunk, rest \in Seq(Bytes) :
               /\ chunk = SubSeq(net, 1, n) /\ rest = SubSeq(net, n + 1, Len(net))
               /\ Len(chunk) = n /\ Len(rest) = Len(net) - n
               /\ \A i \in 1..n : chunk[i] = net[i]
               /\ \A i \in 1..(Len(net) - n) : rest[i] = net[n + i]
<1>0. net \in Seq(Bytes) /\ Len(net) \in Nat
  BY Types
<1>1. PICK N \in Nat : N = Len(net)
  BY <1>0
<1>2. n \in 1..N
  BY <1>1 DEF Chunks
<1>3. PICK zero \in Nat, one \in Nat : zero = 0 /\ one = 1 /\ one = zero + 1 /\ n = zero + n /\ n <= Len(net) /\ n \in Nat
  BY <1>1, <1>2
<1>4. PICK a \in Nat, m \in Nat : a = n + 1 /\ m = N - n /\ N = n + m /\ N <= Len(net)
  <2>1. n + 1 \in Nat /\ N - n \in Nat /\ N = n + (N - n) /\ N <= Len(net)
    BY <1>1, <1>2
  <2>2. QED
    BY <2>1
<1>5. IsSlice(SubSeq(net, one, n), net, zero, n)
  BY <1>0, <1>3, Slice
<1>6. IsSlice(SubSeq(net, a, N), net, n, m)
  BY <1>0, <1>3, <1>4, Slice
<1>7. PICK chunk, rest : chunk = SubSeq(net, one, n) /\ rest = SubSeq(net, a, N)
  OBVIOUS
<1>8. chunk \in Seq(Bytes) /\ Len(chunk) = n /\ \A i \in 1..n : chunk[i] = net[i]
  <2>1. \A i \in 1..n : zero + i = i
    BY <1>3
  <2>2. QED
    BY <1>5, <1>7, <2>1 DEF IsSlice
<1>9. rest \in Seq(Bytes) /\ Len(rest) = m /\ \A i \in 1..m : rest[i] = net[n + i]
  BY <1>6, <1>7 DEF IsSlice
<1>10. chunk = SubSeq(net, 1, n) /\ rest = SubSeq(net, n + 1, Len(net)) /\ m = Len(net) - n
  BY <1>1, <1>3, <1>4, <1>7
<1>11. Len(rest) = Len(net) - n /\ \A i \in 1..(Len(net) - n) : rest[i] = net[n + i]
  BY <1>9, <1>10
<1> USE <1>8, <1>9
<1>12. WITNESS chunk \in Seq(Bytes), rest \in Seq(Bytes)
<1>13. QED
  BY <1>8, <1>10, <1>11

\* A read moves bytes from the network into the buffer.
LEMMA ReadStep ==
    ASSUME FrameInv, ReadsChunk
    PROVE  FrameInv'
<1> USE DEF FrameInv
<1>0. /\ net \in Seq(Bytes) /\ buf \in Seq(Bytes) /\ Len(net) \in Nat /\ Len(buf) \in Nat
      /\ Len(written) \in Nat
  BY Types
<1>1. PICK n \in Chunks : buf' = buf \o SubSeq(net, 1, n) /\ net' = SubSeq(net, n + 1, Len(net))
  BY DEF ReadsChunk
<1>2. /\ call = "awaiting" /\ call' = "scanning"
      /\ UNCHANGED <<checks, sender, count, rawSent, written, framed, result, raw, isRaw, delivered>>
  BY DEF ReadsChunk, senderVars
<1>3. ~isRaw /\ result = "none" /\ rawSent = 0
  BY <1>2 DEF Concluded, TypeOK
<1>4. PICK chunk \in Seq(Bytes), rest \in Seq(Bytes) :
          /\ chunk = SubSeq(net, 1, n) /\ rest = SubSeq(net, n + 1, Len(net))
          /\ Len(chunk) = n /\ Len(rest) = Len(net) - n
          /\ \A i \in 1..n : chunk[i] = net[i]
          /\ \A i \in 1..(Len(net) - n) : rest[i] = net[n + i]
  BY Taken
<1>5. n \in 1..Len(net)
  BY DEF Chunks
<1>6. /\ buf' \in Seq(Bytes) /\ Len(buf') = Len(buf) + n
      /\ \A i \in 1..Len(buf) : buf'[i] = buf[i]
      /\ \A i \in 1..n : buf'[Len(buf) + i] = net[i]
  BY <1>0, <1>1, <1>4, Joined, JoinedBytes, SMTT(30)
<1>7. net' \in Seq(Bytes) /\ Len(net') = Len(net) - n /\ \A i \in 1..(Len(net) - n) : net'[i] = net[n + i]
  BY <1>1, <1>4
<1>8. TypeOK'
  BY <1>2, <1>6, <1>7 DEF TypeOK
<1>9. Concluded'
  BY <1>2, <1>3 DEF Concluded
<1>10. DeliveredFirst'
  BY <1>2 DEF DeliveredFirst
<1>11. CutsMatch'
  <2>1. PICK cut \in Cuts : /\ Cutting(cut)
                            /\ sender = "idle" => cut[Len(framed)] = Len(written)
                            /\ checks => WithinLimit(cut)
                            /\ UnreadFrom(cut[Len(delivered)])
    BY <1>3 DEF CutsMatch
  <2>2. PICK at \in Nat : at = cut[Len(delivered)]
    BY <2>1, NextEnd
  <2>3. /\ Len(written) = at + Len(buf) + Len(net)
        /\ \A i \in 1..Len(buf) : buf[i] = written[at + i]
        /\ \A i \in 1..Len(net) : net[i] = written[at + Len(buf) + i]
    BY <2>1, <2>2 DEF UnreadFrom
  <2>4. UnreadFrom(at)'
    <3>1. Len(written') = at + Len(buf') + Len(net')
      BY <1>0, <1>2, <1>5, <1>6, <1>7, <2>3
    <3>2. ASSUME NEW i \in 1..Len(buf')
          PROVE  buf'[i] = written'[at + i]
      <4>1. CASE i \in 1..Len(buf)
        BY <1>2, <1>6, <2>3, <4>1
      <4>2. CASE i \notin 1..Len(buf)
        <5>1. PICK j \in 1..n : i = Len(buf) + j
          <6>1. i - Len(buf) \in 1..n /\ i = Len(buf) + (i - Len(buf))
            BY <1>0, <1>5, <1>6, <4>2
          <6>2. QED
            BY <6>1
        <5>2. j \in 1..Len(net) /\ at + Len(buf) + j = at + i
          BY <1>0, <1>5, <5>1
        <5>3. net[j] = written[at + Len(buf) + j]
          BY <2>3, <5>2
        <5>4. QED
          BY <1>2, <1>6, <5>1, <5>2, <5>3
      <4>3. QED
        BY <4>1, <4>2
    <3>3. ASSUME NEW i \in 1..Len(net')
          PROVE  net'[i] = written'[at + Len(buf') + i]
      <4>1. PICK j \in 1..Len(net) : j = n + i
        BY <1>0, <1>5, <1>7
      <4>2. at + Len(buf') + i = at + Len(buf) + j
        BY <1>0, <1>5, <1>6, <4>1
      <4>3. net'[i] = net[j]
        BY <1>7, <4>1
      <4>4. QED
        BY <1>2, <2>3, <4>2, <4>3
    <3>4. QED
      BY <3>1, <3>2, <3>3 DEF UnreadFrom
  <2>5. cut \in Cuts' /\ Cutting(cut)' /\ (checks' => WithinLimit(cut)')
    BY <1>2, <2>1 DEF Cuts, Cutting, WithinLimit
  <2>6. QED
    BY <1>2, <2>1, <2>2, <2>4, <2>5 DEF CutsMatch
<1>12. QED
  BY <1>8, <1>9, <1>10, <1>11

\* A buffer is called too large only where the sender keeps no limit: what is
\* buffered without a delimiter belongs to one frame.
LEMMA TooLargeIsTheirs ==
    ASSUME FrameInv, RefusesBuffer
    PROVE  ~checks
<1> USE DEF FrameInv
<1>1. SUFFICES ASSUME checks PROVE FALSE
  OBVIOUS
<1>2. call = "scanning" /\ Delimiters(buf) = {} /\ Len(buf) > MaxFrame
  BY DEF RefusesBuffer
<1>3. ~isRaw /\ rawSent = 0
  BY <1>2 DEF Concluded, TypeOK
<1>4. PICK cut \in Cuts : Cutting(cut) /\ WithinLimit(cut) /\ UnreadFrom(cut[Len(delivered)])
  BY <1>1, <1>3 DEF CutsMatch
<1>f. PICK F \in Nat : F = Len(framed)
  BY Types
<1>d. PICK D \in Nat : D = Len(delivered) /\ D <= F
  BY <1>f, Types DEF DeliveredFirst
<1>b. PICK B \in Nat : B = Len(buf)
  BY Types
<1>5. PICK at \in Nat : at = cut[D]
  BY <1>d, <1>4, NextEnd
<1>6. /\ Len(written) \in Nat /\ Len(net) \in Nat /\ MaxFrame \in Nat
      /\ Len(written) = at + B + Len(net)
  BY <1>d, <1>b, <1>4, <1>5, Types DEF UnreadFrom
<1>7. CASE D = F
  <2>1. Len(written) - at < MaxFrame
    BY <1>f, <1>4, <1>5, <1>7 DEF WithinLimit
  <2>2. QED
    BY <1>2, <1>b, <1>6, <2>1
<1>8. CASE D # F
  <2>1. PICK k \in 1..F : k = D + 1 /\ k - 1 = D
    BY <1>d, <1>8
  <2>2. PICK c \in Nat : c = cut[D + 1] /\ (c <= at + B => c - at \in Delimiters(buf))
    BY <1>f, <1>d, <1>b, <1>4, <1>5, <1>8, NextEnd
  <2>3. cut[k] - cut[k - 1] <= MaxFrame
    BY <1>f, <1>4 DEF WithinLimit
  <2>4. c - at <= MaxFrame
    BY <1>5, <2>1, <2>2, <2>3
  <2>5. c > at + B
    BY <1>2, <2>2
  <2>6. QED
    BY <1>2, <1>b, <1>6, <2>4, <2>5
<1>9. QED
  BY <1>7, <1>8

\* The steps of the reader that move no byte.
LEMMA ReaderStep ==
    ASSUME FrameInv, Calls \/ RefusesBuffer \/ AwaitsMore \/ ReadsEnd \/ ReadFails \/ Cancelled
    PROVE  FrameInv'
<1>1. /\ UNCHANGED <<checks, sender, count, rawSent, written, framed, net, buf, raw, isRaw, delivered>>
      /\ call' \in {"none", "scanning", "awaiting"} /\ result' \in {"none", "end", "tooLarge", "failed"}
  BY DEF FrameInv, TypeOK, Calls, RefusesBuffer, AwaitsMore, ReadsEnd, ReadFails, Cancelled, senderVars
<1>2. TypeOK'
  BY <1>1 DEF FrameInv, TypeOK
<1>3. Concluded'
  <2>1. CASE Calls
    BY <1>1, <2>1 DEF FrameInv, TypeOK, Concluded, Calls
  <2>2. CASE RefusesBuffer
    BY <1>1, <2>2, TooLargeIsTheirs DEF FrameInv, TypeOK, Concluded, RefusesBuffer
  <2>3. CASE AwaitsMore
    BY <1>1, <2>3 DEF FrameInv, TypeOK, Concluded, AwaitsMore, Delimiters
  <2>4. CASE ReadsEnd
    BY <1>1, <2>4 DEF FrameInv, TypeOK, Concluded, ReadsEnd, Delimiters
  <2>5. CASE ReadFails
    BY <1>1, <2>5 DEF FrameInv, TypeOK, Concluded, ReadFails
  <2>6. CASE Cancelled
    BY <1>1, <2>6 DEF FrameInv, TypeOK, Concluded, Cancelled
  <2>7. QED
    BY <2>1, <2>2, <2>3, <2>4, <2>5, <2>6
<1>4. DeliveredFirst'
  BY <1>1 DEF FrameInv, DeliveredFirst
<1>5. CutsMatch'
  BY <1>1, SameCuts DEF FrameInv
<1>6. QED
  BY <1>2, <1>3, <1>4, <1>5 DEF FrameInv

\* The switch to raw bytes, and the copying on.
LEMMA RawStep ==
    ASSUME FrameInv, TurnsRaw \/ CopiesRaw
    PROVE  FrameInv'
<1> USE DEF FrameInv
<1>1. /\ UNCHANGED <<checks, sender, count, rawSent, written, framed, call, result, delivered>>
      /\ isRaw' = TRUE
  BY DEF TurnsRaw, CopiesRaw, senderVars, TypeOK
<1>2. /\ raw' \in Seq(Bytes) /\ net' \in Seq(Bytes) /\ buf' = <<>>
      /\ call = "none" /\ result = "none"
  <2>1. CASE TurnsRaw
    BY <2>1, Types DEF TurnsRaw, senderVars
  <2>2. CASE CopiesRaw
    <3>1. PICK n \in Chunks : raw' = raw \o SubSeq(net, 1, n) /\ net' = SubSeq(net, n + 1, Len(net))
      BY <2>2 DEF CopiesRaw
    <3>2. SubSeq(net, 1, n) \in Seq(Bytes) /\ net' \in Seq(Bytes)
      BY <3>1, Taken
    <3>3. raw' \in Seq(Bytes)
      BY <3>1, <3>2, Joined, Types
    <3>4. QED
      BY <2>2, <3>2, <3>3 DEF CopiesRaw, Concluded
  <2>3. QED
    BY <2>1, <2>2
<1>3. TypeOK'
  <2>1. buf' \in Seq(Bytes)
    BY <1>2
  <2>2. QED
    BY <1>1, <1>2, <2>1 DEF TypeOK
<1>4. Concluded'
  BY <1>1, <1>2 DEF Concluded
<1>5. DeliveredFirst'
  BY <1>1 DEF DeliveredFirst
<1>6. CutsMatch'
  BY <1>1, RawCuts
<1>7. QED
  BY <1>3, <1>4, <1>5, <1>6

\* Nothing is written, and nothing is cut.
LEMMA FrameInit == Init => FrameInv
<1>1. SUFFICES ASSUME Init PROVE FrameInv
  OBVIOUS
<1>2. <<>> \in Seq(Bytes) /\ <<>> \in Seq(Seq(Bytes \ {NUL})) /\ Len(<<>>) = 0
  OBVIOUS
<1>3. TypeOK
  <2>1. /\ checks \in BOOLEAN /\ isRaw \in BOOLEAN /\ sender = "idle"
        /\ call = "none" /\ result = "none"
        /\ count \in 0..MaxMsgs /\ rawSent \in 0..MaxRaw
    <3>1. checks \in BOOLEAN /\ isRaw \in BOOLEAN
      BY <1>1, Zenon DEF Init
    <3>2. 0 \in 0..MaxMsgs /\ 0 \in 0..MaxRaw
      BY FrameAssumption
    <3>3. QED
      BY <1>1, <3>1, <3>2, Zenon DEF Init
  <2>2. /\ net \in Seq(Bytes) /\ buf \in Seq(Bytes) /\ raw \in Seq(Bytes) /\ written \in Seq(Bytes)
        /\ framed \in Seq(Seq(Bytes \ {NUL})) /\ delivered \in Seq(Seq(Bytes \ {NUL}))
    BY <1>1, <1>2 DEF Init
  <2>3. QED
    BY <2>1, <2>2 DEF TypeOK
<1>4. Concluded /\ DeliveredFirst
  BY <1>1, <1>2 DEF Init, Concluded, DeliveredFirst
<1>5. CutsMatch
  <2>1. PICK cut : cut = [k \in 0..0 |-> 0]
    OBVIOUS
  <2>2. Len(framed) = 0 /\ Len(written) = 0 /\ Len(delivered) = 0 /\ Len(buf) = 0 /\ Len(net) = 0
    BY <1>1, <1>2 DEF Init
  <2>3. cut \in Cuts /\ cut[0] = 0
    BY <2>1, <2>2 DEF Cuts
  <2>4. Cutting(cut)
    BY <2>2, <2>3 DEF Cutting
  <2>5. WithinLimit(cut) /\ UnreadFrom(cut[Len(delivered)])
    BY <2>2, <2>3, FrameAssumption DEF WithinLimit, UnreadFrom
  <2>6. QED
    BY <2>2, <2>3, <2>4, <2>5 DEF CutsMatch
<1>6. QED
  BY <1>3, <1>4, <1>5 DEF FrameInv

\* Whatever happens.
LEMMA FrameStep ==
    ASSUME FrameInv, [Next]_vars
    PROVE  FrameInv'
<1>1. CASE SenderNext
  BY <1>1, SenderStep
<1>2. CASE PopsFrame
  BY <1>2, PopStep
<1>3. CASE ReadsChunk
  BY <1>3, ReadStep
<1>4. CASE Calls \/ RefusesBuffer \/ AwaitsMore \/ ReadsEnd \/ ReadFails \/ Cancelled
  BY <1>4, ReaderStep
<1>5. CASE TurnsRaw \/ CopiesRaw
  BY <1>5, RawStep
<1>6. CASE UNCHANGED vars
  <2>1. UNCHANGED <<checks, sender, count, rawSent, written, framed, net,
                    buf, call, result, raw, isRaw, delivered>>
    BY <1>6 DEF vars, senderVars, readerVars
  <2>2. TypeOK' /\ Concluded' /\ DeliveredFirst'
    BY <2>1 DEF FrameInv, TypeOK, Concluded, DeliveredFirst, Delimiters
  <2>3. CutsMatch'
    BY <2>1, SameCuts DEF FrameInv
  <2>4. QED
    BY <2>2, <2>3 DEF FrameInv
<1>7. QED
  BY <1>1, <1>2, <1>3, <1>4, <1>5, <1>6 DEF Next, ReaderRuns

\* The frames cut up what was written, and the reader is behind the last one it
\* has delivered (write_frame, next_payload).
THEOREM FramesCutWritten == Spec => []FrameInv
<1>1. Init => FrameInv
  BY FrameInit
<1>2. FrameInv /\ [Next]_vars => FrameInv'
  BY FrameStep
<1>3. QED
  BY <1>1, <1>2, PTL DEF Spec

\* The variables of the codec keep their types.
THEOREM CodecTyped == Spec => []TypeOK
<1>1. FrameInv => TypeOK
  BY DEF FrameInv
<1>2. QED
  BY <1>1, FramesCutWritten, PTL

\* An end of stream comes behind the last whole frame, and no frame of this
\* program is called too large (next_frame's Ok(None) and FrameTooLarge).
THEOREM EndsTruly == Spec => []EndIsTrue
<1>1. ASSUME FrameInv
      PROVE  EndIsTrue
  <2> USE DEF FrameInv
  <2>1. result = "tooLarge" => ~checks
    BY <1>1 DEF Concluded
  <2>2. ASSUME result = "end"
        PROVE  delivered = framed
    <3>1. net = <<>> /\ Delimiters(buf) = {} /\ ~isRaw /\ rawSent = 0
      BY <1>1, <2>2 DEF Concluded, TypeOK
    <3>2. PICK cut \in Cuts : Cutting(cut) /\ UnreadFrom(cut[Len(delivered)])
      BY <1>1, <3>1 DEF CutsMatch
    <3>f. PICK F \in Nat : F = Len(framed)
      BY <1>1, Types
    <3>d. PICK D \in Nat : D = Len(delivered) /\ D <= F
      BY <1>1, <3>f, Types DEF DeliveredFirst
    <3>b. PICK B \in Nat : B = Len(buf)
      BY <1>1, Types
    <3>3. PICK at \in Nat : at = cut[D]
      BY <1>1, <3>d, <3>2, NextEnd
    <3>4. Len(written) = at + B
      BY <3>d, <3>b, <3>1, <3>2, <3>3 DEF UnreadFrom
    <3>5. D = F
      <4>1. SUFFICES ASSUME D # F PROVE FALSE
        OBVIOUS
      <4>2. cut[D + 1] <= Len(written) /\ (cut[D + 1] <= at + B => cut[D + 1] - at \in Delimiters(buf))
        BY <1>1, <3>f, <3>d, <3>b, <3>2, <3>3, <4>1, NextEnd
      <4>3. QED
        BY <3>1, <3>4, <4>2
    <3>6. delivered \in Seq(Seq(Bytes \ {NUL})) /\ framed \in Seq(Seq(Bytes \ {NUL}))
      BY <1>1, Types
    <3>7. Len(delivered) = Len(framed) /\ \A i \in 1..Len(delivered) : delivered[i] = framed[i]
      BY <1>1, <3>f, <3>d, <3>5 DEF DeliveredFirst
    <3>8. QED
      BY <3>6, <3>7, SeqEqual
  <2>3. QED
    BY <2>1, <2>2 DEF EndIsTrue
<1>2. QED
  BY <1>1, FramesCutWritten, PTL

-----------------------------------------------------------------------------
(* No byte is lost, doubled or moved. *)

\* Bytes are put together in any order.
Regrouped(r, s, t) == (r \o s) \o t = r \o (s \o t)

\* Any bytes can be regrouped.
LEMMA Assoc == \A r, s, t \in Seq(Bytes) : Regrouped(r, s, t)
BY ConcatAssociative DEF Regrouped

\* The beginning and the rest of a byte sequence are the sequence.
LEMMA CutInTwo ==
    \A s \in Seq(Bytes) : \A n \in 0..Len(s) :
        /\ SubSeq(s, 1, n) \in Seq(Bytes) /\ SubSeq(s, n + 1, Len(s)) \in Seq(Bytes)
        /\ SubSeq(s, 1, n) \o SubSeq(s, n + 1, Len(s)) = s
<1> SUFFICES ASSUME NEW s \in Seq(Bytes), NEW n \in 0..Len(s)
             PROVE  /\ SubSeq(s, 1, n) \in Seq(Bytes) /\ SubSeq(s, n + 1, Len(s)) \in Seq(Bytes)
                    /\ SubSeq(s, 1, n) \o SubSeq(s, n + 1, Len(s)) = s
  OBVIOUS
<1>0. PICK N \in Nat : N = Len(s)
  BY LenProperties
<1>1. PICK one \in Nat, zero \in Nat : one = 1 /\ zero = 0 /\ one = zero + 1 /\ n = zero + n /\ n <= Len(s) /\ n \in Nat
  BY <1>0
<1>2. n + 1 \in Nat /\ N - n \in Nat /\ N = n + (N - n) /\ N <= Len(s)
  BY <1>0, <1>1
<1>3. PICK a \in Nat, m \in Nat : a = n + 1 /\ m = N - n /\ N = n + m /\ N <= Len(s)
  BY <1>2
<1>4. PICK u, v : u = SubSeq(s, one, n) /\ v = SubSeq(s, a, N)
  OBVIOUS
<1>5. IsSlice(u, s, zero, n) /\ IsSlice(v, s, n, m)
  BY <1>1, <1>3, <1>4, Slice
<1>6. /\ u \in Seq(Bytes) /\ Len(u) = n /\ v \in Seq(Bytes) /\ Len(v) = m
      /\ \A i \in 1..m : v[i] = s[n + i]
  BY <1>5 DEF IsSlice
<1>7. \A i \in 1..n : u[i] = s[i]
  <2>1. \A i \in 1..n : zero + i = i
    BY <1>1
  <2>2. QED
    BY <1>5, <2>1 DEF IsSlice
<1>8. u \o v \in Seq(Bytes) /\ Len(u \o v) = N
  BY <1>3, <1>6, Joined
<1>9. ASSUME NEW i \in 1..N
      PROVE  (u \o v)[i] = s[i]
  <2>1. CASE i \in 1..n
    BY <1>6, <1>7, <2>1, JoinedBytes
  <2>2. CASE i \notin 1..n
    <3>1. PICK j \in 1..m : i = n + j
      <4>1. i - n \in 1..m /\ i = n + (i - n)
        BY <1>1, <1>3, <2>2
      <4>2. QED
        BY <4>1
    <3>2. (u \o v)[n + j] = v[j]
      BY <1>6, JoinedBytes
    <3>3. QED
      BY <1>6, <3>1, <3>2
  <2>3. QED
    BY <2>1, <2>2
<1>10. u \o v = s
  BY <1>0, <1>8, <1>9, SeqEqual
<1>11. QED
  BY <1>0, <1>1, <1>3, <1>4, <1>6, <1>10

\* The bytes of one more frame come behind those of the others.
LEMMA EncodedAppend ==
    ASSUME NEW d \in Seq(Seq(Bytes \ {NUL})), NEW p \in Seq(Bytes \ {NUL})
    PROVE  /\ Encoded(d) \in Seq(Bytes)
           /\ Encoded(Append(d, p)) = Encoded(d) \o Encode(p)
           /\ Encode(p) \in Seq(Bytes)
<1>0. Len(d) \in Nat /\ DOMAIN d = 1..Len(d) /\ \A i \in 1..Len(d) : d[i] \in Seq(Bytes \ {NUL})
  BY LenProperties, ElementOfSeq
<1>1. \A q \in Seq(Bytes \ {NUL}) : Encode(q) \in Seq(Bytes)
  <2>1. TAKE q \in Seq(Bytes \ {NUL})
  <2>2. q \in Seq(Bytes) /\ NUL \in Bytes
    <3>1. NUL \in Bytes
      BY FrameAssumption DEF NUL, Bytes
    <3>2. Bytes \ {NUL} \subseteq Bytes
      OBVIOUS
    <3>3. QED
      BY <3>1, <3>2, SeqMonotonic
  <2>3. QED
    BY <2>2, AppendProperties DEF Encode
<1> DEFINE s == [i \in DOMAIN d |-> Encode(d[i])]
           dp == Append(d, p)
           sp == [i \in DOMAIN dp |-> Encode(dp[i])]
<1>2. s \in Seq(Seq(Bytes)) /\ Len(s) = Len(d)
  <2>1. PICK n \in Nat : n = Len(d)
    BY <1>0
  <2>2. s \in [1..n -> Seq(Bytes)]
    BY <1>0, <1>1, <2>1
  <2> HIDE DEF s
  <2>3. s \in Seq(Seq(Bytes)) /\ Len(s) = n
    BY <2>2
  <2>4. QED
    BY <2>1, <2>3
<1>3. /\ dp \in Seq(Seq(Bytes \ {NUL})) /\ Len(dp) = Len(d) + 1
      /\ \A i \in 1..Len(d) : dp[i] = d[i]
      /\ dp[Len(d) + 1] = p
  BY AppendProperties
<1>4. DOMAIN dp = 1..(Len(d) + 1)
  BY <1>3, LenProperties
<1> HIDE DEF dp
<1>5. sp \in Seq(Seq(Bytes)) /\ Len(sp) = Len(d) + 1
  <2>1. \A i \in 1..(Len(d) + 1) : dp[i] \in Seq(Bytes \ {NUL})
    BY <1>3, ElementOfSeq
  <2>2. sp \in [1..(Len(d) + 1) -> Seq(Bytes)] /\ Len(d) + 1 \in Nat
    BY <1>0, <1>1, <1>4, <2>1
  <2> HIDE DEF sp
  <2>3. QED
    BY <2>2
<1>6. PICK x \in Seq(Bytes) : x = Encode(p)
  BY <1>1
<1>7. /\ Append(s, x) \in Seq(Seq(Bytes)) /\ Len(Append(s, x)) = Len(d) + 1
      /\ \A i \in 1..Len(d) : Append(s, x)[i] = s[i]
      /\ Append(s, x)[Len(d) + 1] = x
  <2> HIDE DEF s
  <2>1. QED
    BY <1>2, <1>6, AppendProperties
<1>8. ASSUME NEW i \in 1..(Len(d) + 1)
      PROVE  sp[i] = Append(s, x)[i]
  <2>1. sp[i] = Encode(dp[i])
    BY <1>4
  <2>2. CASE i \in 1..Len(d)
    <3>1. dp[i] = d[i] /\ Append(s, x)[i] = s[i]
      BY <1>3, <1>7, <2>2
    <3>2. s[i] = Encode(d[i])
      BY <1>0, <2>2
    <3>3. QED
      BY <2>1, <3>1, <3>2
  <2>3. CASE i = Len(d) + 1
    BY <1>3, <1>6, <1>7, <2>1, <2>3
  <2>4. QED
    BY <1>0, <2>2, <2>3
<1>9. sp = Append(s, x)
  <2> HIDE DEF sp, s
  <2>1. QED
    BY <1>5, <1>7, <1>8, SeqEqual
<1>10. /\ FlattenSeq(s) \in Seq(Bytes)
       /\ FlattenSeq(Append(s, x)) = FlattenSeq(s) \o x
  <2> HIDE DEF s
  <2>1. QED
    BY <1>2, FlattenAppend
<1>11. Encoded(d) = FlattenSeq(s) /\ Encoded(dp) = FlattenSeq(sp)
  BY DEF Encoded
<1>12. QED
  BY <1>6, <1>9, <1>10, <1>11 DEF dp

\* What is delivered, raw or buffered comes before what is on its way.
Received == Encoded(delivered) \o raw \o buf

\* What is received are bytes.
LEMMA ReceivedTyped ==
    ASSUME TypeOK
    PROVE  /\ Encoded(delivered) \in Seq(Bytes) /\ Encoded(delivered) \o raw \in Seq(Bytes)
           /\ Received \in Seq(Bytes)
<1>0. raw \in Seq(Bytes) /\ buf \in Seq(Bytes) /\ delivered \in Seq(Seq(Bytes \ {NUL}))
  BY Types
<1>1. <<>> \in Seq(Bytes \ {NUL})
  OBVIOUS
<1>2. Encoded(delivered) \in Seq(Bytes)
  BY <1>0, <1>1, EncodedAppend
<1>3. Encoded(delivered) \o raw \in Seq(Bytes)
  BY <1>0, <1>2, Joined
<1>4. QED
  BY <1>0, <1>2, <1>3, Joined DEF Received

\* No step loses a byte.
LEMMA ConservedStep ==
    ASSUME FrameInv, BytesConserved, [Next]_vars
    PROVE  BytesConserved'
<1> USE DEF FrameInv
<1>0. /\ net \in Seq(Bytes) /\ buf \in Seq(Bytes) /\ raw \in Seq(Bytes) /\ written \in Seq(Bytes)
      /\ delivered \in Seq(Seq(Bytes \ {NUL})) /\ Len(buf) \in Nat /\ Len(net) \in Nat
  BY Types
<1>1. PICK E \in Seq(Bytes) : E = Encoded(delivered)
  BY ReceivedTyped
<1>2. E \o raw \in Seq(Bytes) /\ (E \o raw) \o buf \in Seq(Bytes) /\ written = ((E \o raw) \o buf) \o net
  BY <1>1, ReceivedTyped DEF Received, BytesConserved
<1>r. PICK R \in Seq(Bytes), G \in Seq(Bytes), M \in Seq(Bytes) : R = raw /\ G = buf /\ M = net
  BY <1>0
<1>y. PICK Y \in Seq(Bytes) : Y = E \o raw
  BY <1>2
<1>x. PICK X \in Seq(Bytes) : X = (E \o raw) \o buf
  BY <1>2
<1>3. ASSUME NEW bytes \in Seq(Bytes), Write(bytes), UNCHANGED <<delivered, raw, buf>>
      PROVE  BytesConserved'
  <2>1. written' = (((E \o raw) \o buf) \o net) \o bytes /\ net' = net \o bytes
    BY <1>2, <1>3 DEF Write
  <2>2. written' = ((E \o raw) \o buf) \o (net \o bytes)
    <3>1. (X \o M) \o bytes = X \o (M \o bytes)
      <4>1. Regrouped(X, M, bytes)
        BY Assoc
      <4>2. QED
        BY <4>1 DEF Regrouped
    <3>2. QED
      BY <1>r, <1>x, <2>1, <3>1
  <2>3. QED
    BY <1>1, <1>3, <2>1, <2>2 DEF BytesConserved
<1>4. ASSUME UNCHANGED <<written, delivered, raw, buf, net>>
      PROVE  BytesConserved'
  BY <1>4 DEF BytesConserved
<1>5. CASE SenderNext
  <2>1. ASSUME NEW n \in 1..MaxLen, WritesPayload(n) PROVE BytesConserved'
    <3>1. n \in Nat /\ count + 1 \in 1..MaxMsgs
      <4>1. count \in 0..MaxMsgs /\ MaxMsgs \in Nat /\ MaxLen \in Nat
        BY Types
      <4>2. count < MaxMsgs
        BY <2>1 DEF WritesPayload
      <4>3. QED
        BY <4>1, <4>2
    <3>2. Payload(count + 1, n) \in Seq(Bytes)
      BY <3>1, PayloadBytes
    <3>3. QED
      BY <1>3, <2>1, <3>2 DEF WritesPayload, readerVars
  <2>2. CASE WritesDelimiter
    <3>1. <<NUL>> \in Seq(Bytes)
      BY Types
    <3>2. QED
      BY <1>3, <2>2, <3>1 DEF WritesDelimiter, readerVars
  <2>3. CASE WritesRaw
    <3>1. PICK b \in {NUL, RawByte} : Write(<<b>>)
      BY <2>3 DEF WritesRaw
    <3>2. <<b>> \in Seq(Bytes)
      BY Types, SMTT(30)
    <3>3. QED
      BY <1>3, <2>3, <3>1, <3>2 DEF WritesRaw, readerVars
  <2>4. ASSUME NEW n \in 1..MaxLen, RefusesPayload(n) PROVE BytesConserved'
    BY <1>4, <2>4 DEF RefusesPayload, readerVars
  <2>5. CASE Closes
    BY <1>4, <2>5 DEF Closes, readerVars
  <2>6. QED
    BY <1>5, <2>1, <2>2, <2>3, <2>4, <2>5 DEF SenderNext
<1>6. CASE PopsFrame
  <2>1. PICK end \in Delimiters(buf) :
            /\ \A i \in Delimiters(buf) : end <= i
            /\ delivered' = Append(delivered, SubSeq(buf, 1, end - 1))
            /\ buf' = SubSeq(buf, end + 1, Len(buf))
    BY <1>6 DEF PopsFrame
  <2>2. UNCHANGED <<written, net, raw>> /\ raw = <<>>
    BY <1>6 DEF PopsFrame, senderVars, Concluded, TypeOK
  <2>3. end \in 1..Len(buf) /\ buf[end] = NUL
    BY DEF Delimiters
  <2>4. PICK e \in Nat : e = end - 1 /\ e \in 0..Len(buf)
    BY <1>0, <2>3
  <2>5. PICK p : p = SubSeq(buf, 1, e)
    OBVIOUS
  <2>6. PICK rest \in Seq(Bytes) : rest = SubSeq(buf, end + 1, Len(buf))
    <3>1. end \in 0..Len(buf)
      BY <1>0, <2>3
    <3>2. QED
      BY <1>0, <3>1, CutInTwo
  <2>7. p \in Seq(Bytes \ {NUL})
    <3>1. \A i \in 1..e : buf[i] \in Bytes \ {NUL}
      <4>1. TAKE i \in 1..e
      <4>2. i \in 1..Len(buf) /\ ~(end <= i)
        BY <1>0, <2>3, <2>4
      <4>3. i \notin Delimiters(buf)
        BY <2>1, <4>2
      <4>4. QED
        BY <1>0, <4>2, <4>3, ElementOfSeq DEF Delimiters
    <3>2. 1 \in Int /\ e \in Int
      OBVIOUS
    <3>3. QED
      BY <2>5, <3>1, <3>2, SubSeqProperties
  <2>8. Encode(p) = SubSeq(buf, 1, end)
    <3>1. 1 \in 1..Len(buf) /\ end \in 1..Len(buf)
      BY <1>0, <2>3
    <3>2. SubSeq(buf, 1, end) = SubSeq(buf, 1, end - 1) \o << buf[end] >>
      BY <1>0, <2>3, <3>1, SubSeqRecursiveSecond
    <3>3. Append(p, NUL) = p \o <<NUL>>
      <4>1. p \in Seq(Bytes) /\ NUL \in Bytes
        <5>1. Bytes \ {NUL} \subseteq Bytes
          OBVIOUS
        <5>2. QED
          BY <2>7, <5>1, Types, SeqMonotonic
      <4>2. QED
        BY <4>1, AppendIsConcat
    <3>4. QED
      BY <2>3, <2>4, <2>5, <3>2, <3>3 DEF Encode
  <2>9. PICK x \in Seq(Bytes) : x = Encode(p)
    BY <1>0, <2>7, EncodedAppend
  <2>10. buf = x \o rest
    <3>1. end \in 0..Len(buf)
      BY <1>0, <2>3
    <3>2. QED
      BY <1>0, <2>6, <2>8, <2>9, <3>1, CutInTwo
  <2>11. Encoded(delivered') = E \o x
    BY <1>0, <1>1, <2>1, <2>4, <2>5, <2>7, <2>9, EncodedAppend
  <2>12. E \o x \in Seq(Bytes)
    BY <2>9, Joined
  <2>13. ((E \o raw) \o buf) = ((E \o x) \o raw) \o rest
    <3>1. E \o raw = E /\ (E \o x) \o raw = E \o x
      BY <2>2, <2>12, ConcatEmptySeq
    <3>2. E \o (x \o rest) = (E \o x) \o rest
      <4>1. Regrouped(E, x, rest)
        BY Assoc
      <4>2. QED
        BY <4>1 DEF Regrouped
    <3>3. QED
      BY <2>10, <3>1, <3>2
  <2>14. QED
    BY <1>2, <2>1, <2>2, <2>6, <2>11, <2>13 DEF BytesConserved
<1>7. ASSUME NEW n \in Chunks
      PROVE  \E chunk, rest \in Seq(Bytes) :
                 chunk = SubSeq(net, 1, n) /\ rest = SubSeq(net, n + 1, Len(net)) /\ net = chunk \o rest
  <2>1. n \in 0..Len(net)
    BY <1>0 DEF Chunks
  <2>2. PICK chunk, rest : chunk = SubSeq(net, 1, n) /\ rest = SubSeq(net, n + 1, Len(net))
    OBVIOUS
  <2>3. chunk \in Seq(Bytes) /\ rest \in Seq(Bytes) /\ chunk \o rest = net
    BY <1>0, <2>1, <2>2, CutInTwo
  <2>4. QED
    BY <2>2, <2>3
<1>8. CASE ReadsChunk
  <2>1. PICK n \in Chunks : buf' = buf \o SubSeq(net, 1, n) /\ net' = SubSeq(net, n + 1, Len(net))
    BY <1>8 DEF ReadsChunk
  <2>2. PICK chunk \in Seq(Bytes), rest \in Seq(Bytes) :
            chunk = SubSeq(net, 1, n) /\ rest = SubSeq(net, n + 1, Len(net)) /\ net = chunk \o rest
    BY <1>7
  <2>3. UNCHANGED <<written, delivered, raw>>
    BY <1>8 DEF ReadsChunk, senderVars
  <2>4. ((E \o raw) \o buf) \o (chunk \o rest) = (((E \o raw) \o buf) \o chunk) \o rest
    <3>1. X \o (chunk \o rest) = (X \o chunk) \o rest
      <4>1. Regrouped(X, chunk, rest)
        BY Assoc
      <4>2. QED
        BY <4>1 DEF Regrouped
    <3>2. QED
      BY <1>x, <3>1
  <2>5. ((E \o raw) \o buf) \o chunk = (E \o raw) \o (buf \o chunk)
    <3>1. (Y \o G) \o chunk = Y \o (G \o chunk)
      <4>1. Regrouped(Y, G, chunk)
        BY Assoc
      <4>2. QED
        BY <4>1 DEF Regrouped
    <3>2. QED
      BY <1>r, <1>y, <3>1
  <2>6. QED
    BY <1>1, <1>2, <2>1, <2>2, <2>3, <2>4, <2>5 DEF BytesConserved
<1>9. CASE CopiesRaw
  <2>1. PICK n \in Chunks : raw' = raw \o SubSeq(net, 1, n) /\ net' = SubSeq(net, n + 1, Len(net))
    BY <1>9 DEF CopiesRaw
  <2>2. PICK chunk \in Seq(Bytes), rest \in Seq(Bytes) :
            chunk = SubSeq(net, 1, n) /\ rest = SubSeq(net, n + 1, Len(net)) /\ net = chunk \o rest
    BY <1>7
  <2>3. UNCHANGED <<written, delivered, buf>> /\ buf = <<>>
    BY <1>9 DEF CopiesRaw, senderVars, Concluded
  <2>4. (E \o raw) \o (chunk \o rest) = ((E \o raw) \o chunk) \o rest
    <3>1. Y \o (chunk \o rest) = (Y \o chunk) \o rest
      <4>1. Regrouped(Y, chunk, rest)
        BY Assoc
      <4>2. QED
        BY <4>1 DEF Regrouped
    <3>2. QED
      BY <1>y, <3>1
  <2>5. (E \o raw) \o chunk = E \o (raw \o chunk) /\ E \o (raw \o chunk) \in Seq(Bytes)
    <3>1. (E \o R) \o chunk = E \o (R \o chunk)
      <4>1. Regrouped(E, R, chunk)
        BY Assoc
      <4>2. QED
        BY <4>1 DEF Regrouped
    <3>2. PICK C \in Seq(Bytes) : C = R \o chunk
      BY Joined
    <3>3. E \o C \in Seq(Bytes)
      BY Joined
    <3>4. QED
      BY <1>r, <3>1, <3>2, <3>3
  <2>6. (E \o raw) \o buf = E \o raw /\ (E \o (raw \o chunk)) \o buf = E \o (raw \o chunk)
    BY <1>2, <2>3, <2>5, ConcatEmptySeq
  <2>7. QED
    BY <1>1, <1>2, <2>1, <2>2, <2>3, <2>4, <2>5, <2>6 DEF BytesConserved
<1>10. CASE TurnsRaw
  <2>1. UNCHANGED <<written, net, delivered>> /\ raw' = buf /\ buf' = <<>> /\ raw = <<>>
    BY <1>10 DEF TurnsRaw, senderVars, Concluded
  <2>2. E \o raw = E /\ E \o buf \in Seq(Bytes)
    BY <1>0, <2>1, Joined, ConcatEmptySeq
  <2>3. (E \o buf) \o <<>> = E \o buf
    BY <2>2, ConcatEmptySeq
  <2>4. QED
    BY <1>1, <1>2, <2>1, <2>2, <2>3 DEF BytesConserved
<1>11. CASE Calls \/ RefusesBuffer \/ AwaitsMore \/ ReadsEnd \/ ReadFails \/ Cancelled
  BY <1>4, <1>11 DEF Calls, RefusesBuffer, AwaitsMore, ReadsEnd, ReadFails, Cancelled, senderVars
<1>12. CASE UNCHANGED vars
  BY <1>4, <1>12 DEF vars, senderVars, readerVars
<1>13. QED
  BY <1>5, <1>6, <1>8, <1>9, <1>10, <1>11, <1>12 DEF Next, ReaderRuns

\* Every byte that was written is in a delivered frame, buffered, handed over
\* raw or on its way, once and in order (into_parts and drain_buffer included).
THEOREM NoByteIsLost == Spec => []BytesConserved
<1>1. Init => BytesConserved
  <2>1. SUFFICES ASSUME Init PROVE BytesConserved
    OBVIOUS
  <2>2. PICK none : none = <<>> /\ none \in Seq(Bytes)
    <3>1. <<>> \in Seq(Bytes)
      BY EmptySeq
    <3>2. QED
      BY <3>1
  <2>3. Encoded(none) = none
    <3>1. [i \in DOMAIN none |-> Encode(none[i])] = <<>>
      <4>1. DOMAIN none = 1..0
        BY <2>2
      <4>2. [i \in 1..0 |-> Encode(none[i])] \in Seq(Bytes)
        OBVIOUS
      <4>3. QED
        BY <4>1, <4>2
    <3>2. QED
      <4>1. none \in Seq(Seq(Bytes))
        BY <2>2
      <4>2. FlattenSeq(<<>>) = <<>>
        BY <2>2, <4>1, FlattenAppend
      <4>3. QED
        BY <2>2, <3>1, <4>2 DEF Encoded
  <2>4. none \o none = none
    BY <2>2, ConcatEmptySeq
  <2>5. written = none /\ delivered = none /\ raw = none /\ buf = none /\ net = none
    BY <2>1, <2>2 DEF Init
  <2>6. QED
    BY <2>3, <2>4, <2>5 DEF BytesConserved
<1>2. FrameInv /\ BytesConserved /\ [Next]_vars => BytesConserved'
  BY ConservedStep
<1>3. QED
  BY <1>1, <1>2, FramesCutWritten, PTL DEF Spec

===============================================================================
