--------------------------- MODULE ForwarderProofs ---------------------------
(***************************************************************************)
(* Theorems about Forwarder, for any chunk, any room in the sockets and    *)
(* any number of bytes: what the counters say, and that each direction is  *)
(* a BytePipe.                                                             *)
(***************************************************************************)
EXTENDS Forwarder, SequenceTheorems, TLAPS

Byte == 1..MaxBytes

-----------------------------------------------------------------------------
(* Moving bytes from one sequence to the next. *)

\* The first byte of one sequence becomes the last of the one before it.
LEMMA HeadMoves ==
    \A t, s \in Seq(Byte) : s # <<>> =>
        /\ Append(t, Head(s)) \in Seq(Byte) /\ Tail(s) \in Seq(Byte)
        /\ Len(Append(t, Head(s))) = Len(t) + 1
        /\ Len(Tail(s)) = Len(s) - 1
        /\ Append(t, Head(s)) \o Tail(s) = t \o s
<1> SUFFICES ASSUME NEW t \in Seq(Byte), NEW s \in Seq(Byte), s # <<>>
             PROVE  /\ Append(t, Head(s)) \in Seq(Byte) /\ Tail(s) \in Seq(Byte)
                    /\ Len(Append(t, Head(s))) = Len(t) + 1
                    /\ Len(Tail(s)) = Len(s) - 1
                    /\ Append(t, Head(s)) \o Tail(s) = t \o s
  OBVIOUS
<1>1. Head(s) \in Byte /\ Tail(s) \in Seq(Byte) /\ Len(Tail(s)) = Len(s) - 1
  BY HeadTailProperties
<1>2. /\ Append(t, Head(s)) \in Seq(Byte)
      /\ Len(Append(t, Head(s))) = Len(t) + 1
      /\ Append(t, Head(s)) = t \o <<Head(s)>>
  BY <1>1, AppendProperties, AppendIsConcat
<1>3. Len(s) \in Nat \ {0}
  BY EmptySeq
<1>4. s = <<Head(s)>> \o Tail(s)
  <2>1. 1 \in 1..Len(s) /\ Len(s) \in 1..Len(s)
    BY <1>3
  <2>2. SubSeq(s, 1, Len(s)) = <<s[1]>> \o SubSeq(s, 1 + 1, Len(s))
    BY <2>1, SubSeqRecursiveFirst
  <2>3. SubSeq(s, 1, Len(s)) = s /\ Tail(s) = SubSeq(s, 2, Len(s))
    BY SubSeqFull, TailIsSubSeq
  <2>4. Head(s) = s[1]
    OBVIOUS
  <2>5. QED
    BY <2>2, <2>3, <2>4
<1>5. <<Head(s)>> \in Seq(Byte)
  BY <1>1
<1>6. (t \o <<Head(s)>>) \o Tail(s) = t \o (<<Head(s)>> \o Tail(s))
  BY <1>1, <1>5, ConcatAssociative
<1>7. QED
  BY <1>1, <1>2, <1>4, <1>6

\* A byte added to the last of two sequences is added to the whole.
LEMMA LastAdded ==
    \A t, s \in Seq(Byte), e \in Byte :
        /\ Append(s, e) \in Seq(Byte) /\ Len(Append(s, e)) = Len(s) + 1
        /\ t \o Append(s, e) = Append(t \o s, e)
<1> SUFFICES ASSUME NEW t \in Seq(Byte), NEW s \in Seq(Byte), NEW e \in Byte
             PROVE  /\ Append(s, e) \in Seq(Byte) /\ Len(Append(s, e)) = Len(s) + 1
                    /\ t \o Append(s, e) = Append(t \o s, e)
  OBVIOUS
<1>1. t \o s \in Seq(Byte) /\ <<e>> \in Seq(Byte)
  BY ConcatProperties
<1>2. Append(s, e) = s \o <<e>> /\ Append(t \o s, e) = (t \o s) \o <<e>>
  BY <1>1, AppendIsConcat
<1>3. (t \o s) \o <<e>> = t \o (s \o <<e>>)
  BY <1>1, ConcatAssociative
<1>4. QED
  BY <1>2, <1>3, AppendProperties

\* A sequence is its first n members followed by the others.
LEMMA Cut ==
    \A s \in Seq(Byte) : \A n \in 1..Len(s) :
        /\ SubSeq(s, 1, n) \in Seq(Byte) /\ SubSeq(s, n + 1, Len(s)) \in Seq(Byte)
        /\ Len(SubSeq(s, 1, n)) = n
        /\ SubSeq(s, 1, n) \o SubSeq(s, n + 1, Len(s)) = s
<1> SUFFICES ASSUME NEW s \in Seq(Byte), NEW n \in 1..Len(s)
             PROVE  /\ SubSeq(s, 1, n) \in Seq(Byte) /\ SubSeq(s, n + 1, Len(s)) \in Seq(Byte)
                    /\ Len(SubSeq(s, 1, n)) = n
                    /\ SubSeq(s, 1, n) \o SubSeq(s, n + 1, Len(s)) = s
  OBVIOUS
<1>1. Len(s) \in Nat /\ \A i \in 1..Len(s) : s[i] \in Byte
  BY LenProperties, ElementOfSeq
<1>2. 1 \in Int /\ n \in Int /\ n + 1 \in Int /\ Len(s) \in Int
  BY <1>1
<1>3. /\ \A i \in 1..n : s[i] \in Byte
      /\ \A i \in (n + 1)..Len(s) : s[i] \in Byte
  BY <1>1
<1>4. SubSeq(s, 1, n) \in Seq(Byte) /\ Len(SubSeq(s, 1, n)) = IF 1 <= n THEN n - 1 + 1 ELSE 0
  BY <1>2, <1>3, SubSeqProperties
<1>5. SubSeq(s, n + 1, Len(s)) \in Seq(Byte)
  BY <1>2, <1>3, SubSeqProperties
<1>6. SubSeq(s, 1, n) \o SubSeq(s, n + 1, Len(s)) = SubSeq(s, 1, Len(s))
  <2>1. 1 \in 1..(Len(s) + 1) /\ n \in (1 - 1)..Len(s) /\ Len(s) \in n..Len(s)
    BY <1>1
  <2>2. QED
    BY <2>1, ConcatAdjacentSubSeq
<1>7. QED
  BY <1>1, <1>4, <1>5, <1>6, SubSeqFull

\* A concatenation has the first sequence in front, and is associative.
LEMMA Concatenated ==
    \A t, s \in Seq(Byte) :
        /\ t \o s \in Seq(Byte) /\ Len(t \o s) = Len(t) + Len(s)
        /\ \A i \in 1..Len(t) : (t \o s)[i] = t[i]
<1> SUFFICES ASSUME NEW t \in Seq(Byte), NEW s \in Seq(Byte)
             PROVE  /\ t \o s \in Seq(Byte) /\ Len(t \o s) = Len(t) + Len(s)
                    /\ \A i \in 1..Len(t) : (t \o s)[i] = t[i]
  OBVIOUS
<1>1. Len(t) \in Nat /\ Len(s) \in Nat
  BY LenProperties
<1>2. QED
  BY <1>1, ConcatProperties

\* Concatenation is associative.
LEMMA Regroup == \A t, s, u \in Seq(Byte) : (t \o s) \o u = t \o (s \o u)
BY ConcatAssociative

-----------------------------------------------------------------------------
(* The invariant. *)

\* Where the bytes of a direction are: what was sent is what is on the sink's
\* side, then what the pump holds, then what it has not read. A pump that has
\* seen the end left nothing behind; one that failed saw a reset.
Accounted(d) ==
    /\ sent[d] = (Written(d) \o chunk[d]) \o inbox[d]
    /\ counter[d] = Len(Written(d)) + Len(chunk[d])
    /\ Len(chunk[d]) <= Chunk
    /\ pump[d] \in {"none", "reading", "eof"} => chunk[d] = <<>>
    /\ pump[d] = "writing" => chunk[d] # <<>>
    /\ pump[d] = "eof" => inbox[d] = <<>> /\ d \in finished
    /\ pump[d] \in {"failed", "aborted"} => reset # {}
    /\ d \in shut <=> pump[d] = "eof"

\* There are no pumps before the visitor is claimed, and none is aborted
\* unless the other one failed.
Tasked ==
    /\ task \in {"dialing", "claiming"} => \A d \in Directions : pump[d] = "none"
    /\ abortAsked # {} => reset # {}

PipeInv == TypeOK /\ Tasked /\ \A d \in Directions : Accounted(d)

\* The sequences of a direction.
LEMMA Typed ==
    ASSUME TypeOK, NEW d \in Directions
    PROVE  /\ chunk[d] \in Seq(Byte) /\ inbox[d] \in Seq(Byte)
           /\ outbox[d] \in Seq(Byte) /\ delivered[d] \in Seq(Byte) /\ sent[d] \in Seq(Byte)
           /\ Written(d) \in Seq(Byte)
           /\ Written(d) \o chunk[d] \in Seq(Byte)
<1>1. /\ chunk[d] \in Seq(Byte) /\ inbox[d] \in Seq(Byte)
      /\ outbox[d] \in Seq(Byte) /\ delivered[d] \in Seq(Byte) /\ sent[d] \in Seq(Byte)
  BY DEF TypeOK, Byte
<1>2. Written(d) \in Seq(Byte)
  BY <1>1, ConcatProperties DEF Written
<1>3. QED
  BY <1>1, <1>2, ConcatProperties

\* A step that leaves the bytes and the pump of a direction alone keeps it.
LEMMA Kept ==
    ASSUME NEW d \in Directions, Accounted(d),
           UNCHANGED <<sent[d], delivered[d], outbox[d], chunk[d], inbox[d], counter[d], pump[d]>>,
           d \in shut' <=> d \in shut,
           finished \subseteq finished', reset \subseteq reset'
    PROVE  Accounted(d)'
<1>1. UNCHANGED Written(d)
  BY DEF Written
<1>2. QED
  BY <1>1 DEF Accounted

\* A forwarder begins with no bytes anywhere.
LEMMA PipeInit == Init => PipeInv
<1> SUFFICES ASSUME Init PROVE PipeInv
  OBVIOUS
<1>1. TypeOK
  <2>1. Empty \in [Directions -> Seq(1..MaxBytes)]
    BY EmptySeq DEF Empty
  <2>2. QED
    BY <2>1 DEF Init, TypeOK
<1>2. ASSUME NEW d \in Directions PROVE Accounted(d)
  <2>1. /\ sent[d] = <<>> /\ delivered[d] = <<>> /\ outbox[d] = <<>> /\ chunk[d] = <<>>
        /\ inbox[d] = <<>> /\ counter[d] = 0 /\ pump[d] = "none" /\ shut = {}
    BY DEF Init, Empty
  <2>2. /\ <<>> \in Seq(Byte) /\ Len(<<>>) = 0 /\ <<>> \o <<>> = <<>>
    BY EmptySeq, ConcatEmptySeq
  <2>3. Chunk \in Nat
    BY ForwarderAssumption
  <2>4. QED
    BY <2>1, <2>2, <2>3 DEF Accounted, Written
<1>3. Tasked
  BY DEF Init, Tasked
<1>4. QED
  BY <1>1, <1>2, <1>3 DEF PipeInv

\* The forwarder's own steps touch no bytes; the pumps they spawn hold none.
LEMMA TaskKeeps ==
    ASSUME PipeInv, TaskStep \/ Cancelled
    PROVE  PipeInv'
<1> USE DEF PipeInv
<1>1. TypeOK'
  BY DEF TaskStep, Dials, Claims, FirstSettles, SecondSettles, Cancelled, TypeOK, peerVars,
         pumpVars, TaskEnds, Other, Directions
<1>2. CASE Claims
  <2>1. task = "claiming" /\ task' \in {"piping", "returned"}
    BY <1>2 DEF Claims
  <2>2. Tasked'
    BY <1>2, <2>1 DEF Claims, Tasked, peerVars
  <2>3. ASSUME NEW d \in Directions PROVE Accounted(d)'
    <3>1. pump[d] = "none"
      BY <2>1 DEF Tasked
    <3>2. pump[d]' \in {"none", "reading"}
      BY <1>2, <3>1 DEF Claims
    <3>3. UNCHANGED <<sent[d], delivered[d], outbox[d], chunk[d], inbox[d], counter[d], shut,
                      finished, reset>>
      BY <1>2 DEF Claims, peerVars
    <3>4. UNCHANGED Written(d)
      BY <3>3 DEF Written
    <3>5. QED
      BY <3>1, <3>2, <3>3, <3>4 DEF Accounted
  <2>4. QED
    BY <1>1, <2>2, <2>3
<1>3. CASE Dials \/ FirstSettles \/ SecondSettles \/ Cancelled
  <2>1. UNCHANGED <<pumpVars, peerVars>>
    BY <1>3 DEF Dials, FirstSettles, SecondSettles, Cancelled
  <2>2. Tasked'
    <3>1. task' \in {"dialing", "claiming"} => task = "dialing"
      BY <1>3 DEF Dials, FirstSettles, SecondSettles, Cancelled, TaskEnds
    <3>2. abortAsked' # {} => reset # {}
      BY <1>3 DEF Dials, FirstSettles, SecondSettles, Cancelled, Tasked, Accounted
    <3>3. QED
      BY <2>1, <3>1, <3>2 DEF Tasked, pumpVars, peerVars
  <2>3. ASSUME NEW d \in Directions PROVE Accounted(d)'
    BY <2>1, Kept DEF pumpVars, peerVars
  <2>4. QED
    BY <1>1, <2>2, <2>3
<1>4. QED
  BY <1>2, <1>3 DEF TaskStep

\* A read takes a chunk from the inbox and counts it.
LEMMA ReadKeeps ==
    ASSUME PipeInv, NEW d \in Directions, Reads(d)
    PROVE  PipeInv'
<1> USE DEF PipeInv
<1>1. PICK n \in 1..Len(inbox[d]) :
          /\ n <= Chunk
          /\ chunk' = [chunk EXCEPT ![d] = SubSeq(inbox[d], 1, n)]
          /\ inbox' = [inbox EXCEPT ![d] = SubSeq(@, n + 1, Len(@))]
          /\ counter' = [counter EXCEPT ![d] = @ + n]
  BY DEF Reads, Counts
<1>2. /\ pump[d] = "reading" /\ pump' = [pump EXCEPT ![d] = "writing"]
      /\ UNCHANGED <<taskVars, shut, outbox, delivered, sent, finished, reset>>
  BY DEF Reads, Becomes
<1>3. inbox[d] \in Seq(Byte) /\ Written(d) \in Seq(Byte)
  BY Typed
<1> DEFINE taken == SubSeq(inbox[d], 1, n)
           left == SubSeq(inbox[d], n + 1, Len(inbox[d]))
<1>4. taken \in Seq(Byte) /\ left \in Seq(Byte) /\ Len(taken) = n /\ taken \o left = inbox[d]
  BY <1>3, Cut
<1>5. chunk' = [chunk EXCEPT ![d] = taken] /\ inbox' = [inbox EXCEPT ![d] = left]
  BY <1>1 DEF TypeOK
<1> HIDE DEF taken, left
<1>6. TypeOK' /\ Tasked'
  <2>1. chunk' \in [Directions -> Seq(Byte)] /\ inbox' \in [Directions -> Seq(Byte)]
    BY <1>4, <1>5 DEF TypeOK, Byte
  <2>2. counter' \in [Directions -> Nat]
    BY <1>1 DEF TypeOK
  <2>3. TypeOK'
    BY <2>1, <2>2, <1>2 DEF TypeOK, Byte, taskVars
  <2>4. Tasked'
    BY <1>2 DEF Tasked, taskVars
  <2>5. QED
    BY <2>3, <2>4
<1>7. ASSUME NEW e \in Directions PROVE Accounted(e)'
  <2>1. CASE e = d
    <3>1. /\ chunk[d]' = taken /\ inbox[d]' = left /\ counter[d]' = counter[d] + n
          /\ pump[d]' = "writing" /\ UNCHANGED <<sent[d], Written(d)>>
      BY <1>1, <1>2, <1>5 DEF TypeOK, Written
    <3>2. /\ sent[d] = (Written(d) \o chunk[d]) \o inbox[d]
          /\ counter[d] = Len(Written(d)) + Len(chunk[d])
          /\ chunk[d] = <<>> /\ d \notin shut
      BY <1>2 DEF Accounted
    <3>3. (Written(d) \o taken) \o left = Written(d) \o (taken \o left)
      BY <1>3, <1>4, Regroup
    <3>4. Written(d) \o <<>> = Written(d) /\ Len(<<>>) = 0 /\ Len(Written(d)) \in Nat
      BY <1>3, ConcatEmptySeq, EmptySeq, LenProperties
    <3>5. sent[d]' = (Written(d)' \o chunk[d]') \o inbox[d]'
      BY <1>4, <3>1, <3>2, <3>3, <3>4
    <3>6. counter[d]' = Len(Written(d)') + Len(chunk[d]')
      <4>1. /\ counter[d]' = counter[d] + n /\ counter[d] = Len(Written(d)) + 0
            /\ Written(d)' = Written(d) /\ Len(chunk[d]') = n
        BY <1>4, <3>1, <3>2, <3>4
      <4>2. QED
        BY <4>1, <3>4
    <3>7. Len(chunk[d]') <= Chunk /\ chunk[d]' # <<>> /\ d \notin shut'
      <4>1. chunk[d]' = taken /\ Len(taken) = n /\ n <= Chunk /\ n # 0
        BY <1>1, <1>4, <3>1
      <4>2. QED
        BY <4>1, <1>2, <3>2, <3>4
    <3>8. QED
      BY <2>1, <3>1, <3>5, <3>6, <3>7 DEF Accounted
  <2>2. CASE e # d
    BY <2>2, <1>1, <1>2, Kept DEF TypeOK
  <2>3. QED
    BY <2>1, <2>2
<1>8. QED
  BY <1>6, <1>7

\* A write moves the first byte of the chunk to the sink's socket.
LEMMA WriteKeeps ==
    ASSUME PipeInv, NEW d \in Directions, Writes(d)
    PROVE  /\ PipeInv'
           /\ \E b \in Byte : Written(d)' = Append(Written(d), b)
<1> USE DEF PipeInv
<1>1. /\ pump[d] = "writing"
      /\ outbox' = [outbox EXCEPT ![d] = Append(@, Head(chunk[d]))]
      /\ chunk' = [chunk EXCEPT ![d] = Tail(@)]
      /\ pump' = [pump EXCEPT ![d] = IF Len(chunk[d]) = 1 THEN "reading" ELSE "writing"]
      /\ UNCHANGED <<taskVars, counter, shut, inbox, delivered, sent, finished, reset>>
  BY DEF Writes, Becomes
<1>2. /\ chunk[d] \in Seq(Byte) /\ outbox[d] \in Seq(Byte) /\ delivered[d] \in Seq(Byte)
      /\ Written(d) \in Seq(Byte)
  BY Typed
<1>3. /\ chunk[d] # <<>> /\ d \notin shut /\ Len(chunk[d]) <= Chunk
      /\ sent[d] = (Written(d) \o chunk[d]) \o inbox[d]
      /\ counter[d] = Len(Written(d)) + Len(chunk[d])
  BY <1>1 DEF Accounted
<1>4. Head(chunk[d]) \in Byte
  BY <1>2, <1>3, HeadTailProperties
<1>5. /\ Append(outbox[d], Head(chunk[d])) \in Seq(Byte) /\ Tail(chunk[d]) \in Seq(Byte)
      /\ Len(Tail(chunk[d])) = Len(chunk[d]) - 1
  BY <1>2, <1>3, HeadMoves
<1>6. /\ Append(Written(d), Head(chunk[d])) \o Tail(chunk[d]) = Written(d) \o chunk[d]
      /\ Len(Append(Written(d), Head(chunk[d]))) = Len(Written(d)) + 1
  BY <1>2, <1>3, HeadMoves
<1>7. /\ chunk[d]' = Tail(chunk[d]) /\ outbox[d]' = Append(outbox[d], Head(chunk[d]))
      /\ UNCHANGED <<delivered[d], sent[d], inbox[d], counter[d]>>
  BY <1>1 DEF TypeOK
<1>8. Written(d)' = Append(Written(d), Head(chunk[d]))
  <2>1. delivered[d] \o Append(outbox[d], Head(chunk[d])) = Append(Written(d), Head(chunk[d]))
    BY <1>2, <1>4, LastAdded DEF Written
  <2>2. QED
    BY <1>7, <2>1 DEF Written
<1>9. TypeOK' /\ Tasked'
  <2>1. chunk' \in [Directions -> Seq(Byte)] /\ outbox' \in [Directions -> Seq(Byte)]
    BY <1>1, <1>5 DEF TypeOK, Byte
  <2>2. TypeOK'
    BY <2>1, <1>1 DEF TypeOK, Byte, taskVars
  <2>3. Tasked'
    BY <1>1 DEF Tasked, taskVars
  <2>4. QED
    BY <2>2, <2>3
<1>10. ASSUME NEW e \in Directions PROVE Accounted(e)'
  <2>1. CASE e = d
    <3>1. Len(chunk[d]) \in Nat /\ Len(Written(d)) \in Nat /\ Chunk \in Nat
      BY <1>2, LenProperties, ForwarderAssumption
    <3>2. Len(chunk[d]') = Len(chunk[d]) - 1 /\ Len(chunk[d]') <= Chunk
      BY <1>3, <1>5, <1>7, <3>1
    <3>3. counter[d]' = Len(Written(d)') + Len(chunk[d]')
      <4>1. /\ counter[d]' = counter[d] /\ counter[d] = Len(Written(d)) + Len(chunk[d])
            /\ Len(Written(d)') = Len(Written(d)) + 1
        BY <1>3, <1>6, <1>7, <1>8
      <4>2. \A w, k \in Nat : w + k = (w + 1) + (k - 1)
        OBVIOUS
      <4>3. Len(Written(d)) + Len(chunk[d]) = (Len(Written(d)) + 1) + (Len(chunk[d]) - 1)
        BY <3>1, <4>2, Zenon
      <4>4. QED
        BY <4>1, <4>3, <3>2, Zenon
    <3>4. sent[d]' = (Written(d)' \o chunk[d]') \o inbox[d]'
      BY <1>3, <1>6, <1>7, <1>8
    <3>5. /\ pump[d]' = "reading" => chunk[d]' = <<>>
          /\ pump[d]' = "writing" => chunk[d]' # <<>>
          /\ pump[d]' \in {"reading", "writing"}
      <4>1. chunk[d]' = <<>> <=> Len(chunk[d]') = 0
        BY <1>5, <1>7, EmptySeq
      <4>2. pump[d]' = IF Len(chunk[d]) = 1 THEN "reading" ELSE "writing"
        BY <1>1 DEF TypeOK
      <4>3. QED
        BY <4>1, <4>2, <3>1, <3>2
    <3>6. QED
      BY <1>1, <1>3, <2>1, <3>2, <3>3, <3>4, <3>5 DEF Accounted
  <2>2. CASE e # d
    BY <2>2, <1>1, Kept DEF TypeOK
  <2>3. QED
    BY <2>1, <2>2
<1>11. QED
  BY <1>4, <1>8, <1>9, <1>10

\* The other steps of a pump only end it.
LEMMA PumpEndKeeps ==
    ASSUME PipeInv, NEW d \in Directions, ReadsEof(d) \/ Fails(d) \/ AbortTakes(d)
    PROVE  PipeInv'
<1> USE DEF PipeInv
<1>1. UNCHANGED <<taskVars, chunk, counter, peerVars>>
  BY DEF ReadsEof, Fails, AbortTakes
<1>2. /\ pump[d] \in {"reading", "writing"}
      /\ \/ /\ pump[d] = "reading" /\ inbox[d] = <<>> /\ d \in finished
            /\ shut' = shut \cup {d} /\ pump' = [pump EXCEPT ![d] = "eof"]
         \/ /\ shut' = shut /\ reset # {}
            /\ pump' = [pump EXCEPT ![d] = "failed"] \/ pump' = [pump EXCEPT ![d] = "aborted"]
  BY DEF ReadsEof, Fails, AbortTakes, Becomes, Tasked
<1>3. TypeOK' /\ Tasked'
  <2>1. pump' \in [Directions -> {"none", "reading", "writing"} \cup PumpEnds] /\ shut' \subseteq Directions
    BY <1>2 DEF TypeOK, PumpEnds
  <2>2. TypeOK'
    BY <1>1, <2>1 DEF TypeOK, taskVars, peerVars
  <2>3. Tasked'
    BY <1>1, <1>2 DEF Tasked, taskVars, peerVars
  <2>4. QED
    BY <2>2, <2>3
<1>4. ASSUME NEW e \in Directions PROVE Accounted(e)'
  <2>1. CASE e = d
    <3>1. UNCHANGED <<sent[d], delivered[d], outbox[d], chunk[d], inbox[d], counter[d], finished, reset>>
      BY <1>1 DEF peerVars
    <3>2. UNCHANGED Written(d)
      BY <3>1 DEF Written
    <3>3. \/ pump[d] = "reading" /\ inbox[d] = <<>> /\ d \in finished /\ d \in shut' /\ pump[d]' = "eof"
          \/ d \notin shut' /\ reset # {} /\ pump[d]' \in {"failed", "aborted"}
      BY <1>2 DEF TypeOK, Accounted
    <3>4. QED
      BY <2>1, <3>1, <3>2, <3>3 DEF Accounted
  <2>2. CASE e # d
    BY <2>2, <1>1, <1>2, Kept DEF TypeOK, peerVars
  <2>3. QED
    BY <2>1, <2>2
<1>5. QED
  BY <1>3, <1>4

\* What a peer sends joins the inbox.
LEMMA SendKeeps ==
    ASSUME PipeInv, NEW d \in Directions, PeerSends(d)
    PROVE  /\ PipeInv'
           /\ \E b \in Byte : sent[d]' = Append(sent[d], b)
<1> USE DEF PipeInv
<1> DEFINE b == Len(sent[d]) + 1
<1>1. /\ sent[d] \in Seq(Byte) /\ inbox[d] \in Seq(Byte) /\ Written(d) \o chunk[d] \in Seq(Byte)
      /\ b \in Byte
  <2>1. sent[d] \in Seq(Byte) /\ inbox[d] \in Seq(Byte) /\ Written(d) \o chunk[d] \in Seq(Byte)
    BY Typed
  <2>2. Len(sent[d]) \in Nat /\ Len(sent[d]) < MaxBytes
    BY <2>1, LenProperties DEF PeerSends
  <2>3. QED
    BY <2>1, <2>2, ForwarderAssumption DEF Byte
<1>2. /\ sent' = [sent EXCEPT ![d] = Append(sent[d], b)]
      /\ inbox' = [inbox EXCEPT ![d] = Append(inbox[d], b)]
      /\ d \notin finished
      /\ UNCHANGED <<taskVars, pumpVars, outbox, delivered, finished, reset>>
  BY DEF PeerSends
<1> HIDE DEF b
<1>3. /\ Append(sent[d], b) \in Seq(Byte) /\ Append(inbox[d], b) \in Seq(Byte)
      /\ (Written(d) \o chunk[d]) \o Append(inbox[d], b)
            = Append((Written(d) \o chunk[d]) \o inbox[d], b)
  BY <1>1, LastAdded
<1>4. TypeOK' /\ Tasked'
  <2>1. sent' \in [Directions -> Seq(Byte)] /\ inbox' \in [Directions -> Seq(Byte)]
    BY <1>2, <1>3 DEF TypeOK, Byte
  <2>2. QED
    BY <1>2, <2>1, SMTT(30) DEF TypeOK, Tasked, Byte, taskVars, pumpVars
<1>5. sent[d]' = Append(sent[d], b) /\ inbox[d]' = Append(inbox[d], b)
  BY <1>2 DEF TypeOK
<1>6. ASSUME NEW e \in Directions PROVE Accounted(e)'
  <2>1. CASE e = d
    <3>1. UNCHANGED <<delivered[d], outbox[d], chunk[d], counter[d], pump[d], shut, reset>>
      BY <1>2 DEF pumpVars
    <3>2. UNCHANGED Written(d)
      BY <3>1 DEF Written
    <3>3. sent[d]' = (Written(d)' \o chunk[d]') \o inbox[d]'
      BY <1>3, <1>5, <3>1, <3>2 DEF Accounted
    <3>4. pump[d] # "eof"
      BY <1>2 DEF Accounted
    <3>5. QED
      BY <2>1, <3>1, <3>2, <3>3, <3>4 DEF Accounted
  <2>2. CASE e # d
    BY <2>2, <1>2, Kept DEF TypeOK, pumpVars
  <2>3. QED
    BY <2>1, <2>2
<1>7. QED
  BY <1>1, <1>4, <1>5, <1>6

\* What a peer reads was on its side already.
LEMMA PeerReadKeeps ==
    ASSUME PipeInv, NEW d \in Directions, PeerReads(d)
    PROVE  PipeInv' /\ UNCHANGED Written(d)
<1> USE DEF PipeInv
<1>1. /\ outbox[d] # <<>>
      /\ delivered' = [delivered EXCEPT ![d] = Append(delivered[d], Head(outbox[d]))]
      /\ outbox' = [outbox EXCEPT ![d] = Tail(outbox[d])]
      /\ UNCHANGED <<taskVars, pumpVars, inbox, sent, finished, reset>>
  BY DEF PeerReads
<1>2. outbox[d] \in Seq(Byte) /\ delivered[d] \in Seq(Byte)
  BY Typed
<1>3. /\ Append(delivered[d], Head(outbox[d])) \in Seq(Byte) /\ Tail(outbox[d]) \in Seq(Byte)
      /\ Append(delivered[d], Head(outbox[d])) \o Tail(outbox[d]) = delivered[d] \o outbox[d]
  BY <1>1, <1>2, HeadMoves
<1>4. TypeOK' /\ Tasked'
  <2>1. delivered' \in [Directions -> Seq(Byte)] /\ outbox' \in [Directions -> Seq(Byte)]
    BY <1>1, <1>3 DEF TypeOK, Byte
  <2>2. QED
    BY <1>1, <2>1, SMTT(30) DEF TypeOK, Tasked, Byte, taskVars, pumpVars
<1>5. UNCHANGED Written(d)
  <2>1. delivered[d]' = Append(delivered[d], Head(outbox[d])) /\ outbox[d]' = Tail(outbox[d])
    BY <1>1 DEF TypeOK
  <2>2. QED
    BY <1>3, <2>1 DEF Written
<1>6. ASSUME NEW e \in Directions PROVE Accounted(e)'
  <2>1. CASE e = d
    <3>1. UNCHANGED <<sent[d], inbox[d], chunk[d], counter[d], pump[d], shut, reset, finished>>
      BY <1>1 DEF pumpVars
    <3>2. QED
      BY <2>1, <1>5, <3>1 DEF Accounted
  <2>2. CASE e # d
    BY <2>2, <1>1, Kept DEF TypeOK, pumpVars
  <2>3. QED
    BY <2>1, <2>2
<1>7. QED
  BY <1>4, <1>5, <1>6

\* The end of a source and a reset leave the bytes where they are.
LEMMA PeerEndKeeps ==
    ASSUME PipeInv,
           \/ \E d \in Directions : PeerFinishes(d)
           \/ \E p \in Peers : PeerResets(p)
    PROVE  PipeInv'
<1> USE DEF PipeInv
<1>1. /\ UNCHANGED <<taskVars, pumpVars, inbox, outbox, delivered, sent>>
      /\ finished \subseteq finished' /\ reset \subseteq reset'
      /\ finished' \subseteq Directions /\ reset' \subseteq Peers
  BY DEF PeerFinishes, PeerResets, TypeOK
<1>2. TypeOK' /\ Tasked'
  BY <1>1 DEF TypeOK, Tasked, taskVars, pumpVars
<1>3. ASSUME NEW e \in Directions PROVE Accounted(e)'
  BY <1>1, Kept DEF pumpVars
<1>4. QED
  BY <1>2, <1>3

\* Every step keeps the invariant.
LEMMA PipeStep ==
    ASSUME PipeInv, [Next]_vars
    PROVE  PipeInv'
<1>1. CASE UNCHANGED vars
  <2>1. TypeOK' /\ Tasked'
    BY <1>1 DEF PipeInv, TypeOK, Tasked, vars, taskVars, pumpVars, peerVars
  <2>2. ASSUME NEW e \in Directions PROVE Accounted(e)'
    BY <1>1, Kept DEF PipeInv, vars, pumpVars, peerVars
  <2>3. QED
    BY <2>1, <2>2 DEF PipeInv
<1>2. CASE Next
  BY <1>2, TaskKeeps, ReadKeeps, WriteKeeps, PumpEndKeeps, SendKeeps, PeerReadKeeps, PeerEndKeeps
     DEF Next, PumpStep
<1>3. QED
  BY <1>1, <1>2

\* The invariant of the bytes, with the types of all variables.
THEOREM PipeInvariant == Spec => []PipeInv
BY PipeInit, PipeStep, PTL DEF Spec

-----------------------------------------------------------------------------
(* What the counters say. *)

\* forward.rs:164 for every stream: the counters are never behind what the
\* peers were given, at most one chunk ahead, and exact after a clean end.
LEMMA CountsFollow == PipeInv => CountsForwarded
<1> SUFFICES ASSUME PipeInv, NEW d \in Directions
             PROVE  /\ Len(Written(d)) <= counter[d]
                    /\ counter[d] <= Len(Written(d)) + Chunk
                    /\ pump[d] = "eof" => counter[d] = Len(sent[d])
  BY DEF CountsForwarded
<1>1. chunk[d] \in Seq(Byte) /\ Written(d) \in Seq(Byte)
  BY Typed DEF PipeInv
<1>2. Len(chunk[d]) \in Nat /\ Len(Written(d)) \in Nat /\ Chunk \in Nat
  BY <1>1, LenProperties, ForwarderAssumption
<1>3. Accounted(d)
  BY DEF PipeInv
<1>4. counter[d] = Len(Written(d)) + Len(chunk[d]) /\ Len(chunk[d]) <= Chunk
  BY <1>3 DEF Accounted
<1>5. ASSUME pump[d] = "eof" PROVE counter[d] = Len(sent[d])
  <2>1. chunk[d] = <<>> /\ inbox[d] = <<>> /\ sent[d] = (Written(d) \o chunk[d]) \o inbox[d]
    BY <1>3, <1>5 DEF Accounted
  <2>2. \A s \in Seq(Byte) : (s \o <<>>) \o <<>> = s
    BY ConcatEmptySeq
  <2>3. sent[d] = Written(d) /\ Len(chunk[d]) = 0
    BY <1>1, <2>1, <2>2, EmptySeq
  <2>4. QED
    BY <1>2, <1>4, <2>3
<1>6. \A w, k, m \in Nat : k <= m => w <= w + k /\ w + k <= w + m
  OBVIOUS
<1>7. QED
  BY <1>2, <1>4, <1>5, <1>6, Zenon

\* CountsForwarded holds in every state.
THEOREM BytesCounted == Spec => []CountsForwarded
BY PipeInvariant, CountsFollow, PTL

-----------------------------------------------------------------------------
(* Each direction is a BytePipe. *)

\* What BytePipe allows a direction to do.
PipeMoves(d) ==
    \/ /\ d \notin finished /\ \E b \in Byte : sent[d]' = Append(sent[d], b)
       /\ UNCHANGED <<Written(d), d \in finished, Ended(d), reset # {}>>
    \/ /\ (d \in finished)' /\ UNCHANGED <<sent[d], Written(d), Ended(d), reset # {}>>
    \/ /\ ~Ended(d) /\ Len(Written(d)) < Len(sent[d])
       /\ Written(d)' = Append(Written(d), sent[d][Len(Written(d)) + 1])
       /\ UNCHANGED <<sent[d], d \in finished, Ended(d), reset # {}>>
    \/ /\ (reset # {})' /\ UNCHANGED <<sent[d], Written(d), d \in finished, Ended(d)>>
    \/ /\ (d \in finished /\ Written(d) = sent[d]) \/ reset # {}
       /\ Ended(d)' /\ UNCHANGED <<sent[d], Written(d), d \in finished, reset # {}>>
    \/ UNCHANGED <<sent[d], Written(d), d \in finished, Ended(d), reset # {}>>

\* A direction that has ended has delivered everything, or a peer reset.
EndsFull ==
    \A d \in Directions :
        Ended(d) => (d \in finished /\ Written(d) = sent[d]) \/ reset # {}

\* The invariant of the bytes says so of every direction.
LEMMA EndIsFull == PipeInv => EndsFull
<1> SUFFICES ASSUME PipeInv, NEW d \in Directions, Ended(d)
             PROVE  (d \in finished /\ Written(d) = sent[d]) \/ reset # {}
  BY DEF EndsFull
<1>1. pump[d] \in PumpEnds /\ Accounted(d)
  BY DEF Ended, Over, PipeInv, Accounted, PumpEnds
<1>2. CASE pump[d] = "eof"
  <2>1. chunk[d] = <<>> /\ inbox[d] = <<>> /\ sent[d] = (Written(d) \o chunk[d]) \o inbox[d]
        /\ d \in finished
    BY <1>1, <1>2 DEF Accounted
  <2>2. \A s \in Seq(Byte) : (s \o <<>>) \o <<>> = s
    BY ConcatEmptySeq
  <2>3. Written(d) \in Seq(Byte)
    BY Typed DEF PipeInv
  <2>4. QED
    BY <2>1, <2>2, <2>3
<1>3. CASE pump[d] \in {"failed", "aborted"}
  BY <1>1, <1>3 DEF Accounted
<1>4. QED
  BY <1>1, <1>2, <1>3 DEF PumpEnds

\* A step that moves no bytes of a direction, and takes back no end, is a step
\* of its pipe: an end is only told when all was delivered or a peer reset.
LEMMA StillMoves ==
    ASSUME PipeInv, PipeInv', NEW d \in Directions,
           UNCHANGED <<sent[d], Written(d), finished, reset>>,
           Ended(d) => Ended(d)'
    PROVE  PipeMoves(d)
<1>1. CASE Ended(d)
  BY <1>1 DEF PipeMoves, Ended
<1>2. CASE ~Ended(d)'
  BY <1>2 DEF PipeMoves, Ended
<1>3. CASE Ended(d)'
  <2>1. ((d \in finished /\ Written(d) = sent[d]) \/ reset # {})'
    <3>1. PipeInv' => EndsFull'
      BY EndIsFull, PTL
    <3>2. QED
      BY <1>3, <3>1 DEF EndsFull
  <2>2. QED
    BY <1>3, <2>1 DEF PipeMoves
<1>4. QED
  BY <1>1, <1>2, <1>3

\* No step takes back an end that was told.
LEMMA EndStays ==
    ASSUME PipeInv, [Next]_vars, NEW d \in Directions, Ended(d)
    PROVE  Ended(d)'
<1>1. shut \subseteq shut'
  BY DEF Next, TaskStep, Dials, Claims, FirstSettles, SecondSettles, Cancelled, PumpStep, Reads,
         ReadsEof, Writes, Fails, AbortTakes, PeerSends, PeerFinishes, PeerReads, PeerResets, vars,
         taskVars, pumpVars, peerVars
<1>2. ASSUME NEW e \in Directions, pump[e] \in PumpEnds
      PROVE  pump[e]' \in PumpEnds
  <2>1. CASE TaskStep \/ Cancelled
    <3>1. CASE Claims
      BY <1>2, <3>1 DEF Claims, PipeInv, Tasked, PumpEnds
    <3>2. CASE Dials \/ FirstSettles \/ SecondSettles \/ Cancelled
      BY <1>2, <3>2 DEF Dials, FirstSettles, SecondSettles, Cancelled, pumpVars
    <3>3. QED
      BY <2>1, <3>1, <3>2 DEF TaskStep
  <2>2. ASSUME NEW f \in Directions, PumpStep(f) PROVE pump[e]' \in PumpEnds
    <3>1. pump[f] \in {"reading", "writing"} /\ \E at : pump' = [pump EXCEPT ![f] = at]
      BY <2>2 DEF PumpStep, Reads, ReadsEof, Writes, Fails, AbortTakes, Becomes
    <3>2. f # e
      BY <1>2, <3>1 DEF PumpEnds
    <3>3. QED
      BY <1>2, <3>1, <3>2 DEF PipeInv, TypeOK
  <2>3. CASE \/ UNCHANGED vars
             \/ \E f \in Directions : PeerSends(f) \/ PeerFinishes(f) \/ PeerReads(f)
             \/ \E p \in Peers : PeerResets(p)
    BY <1>2, <2>3 DEF vars, pumpVars, PeerSends, PeerFinishes, PeerReads, PeerResets
  <2>4. QED
    BY <2>1, <2>2, <2>3 DEF Next
<1>3. QED
  BY <1>1, <1>2 DEF Ended, Over

\* Typed, as a state predicate.
Streams ==
    \A d \in Directions : {Written(d), chunk[d], inbox[d]} \subseteq Seq(Byte)

\* What a pipe to the two peers is made of is a sequence of bytes.
LEMMA StreamsTyped == PipeInv => Streams
BY Typed DEF PipeInv, Streams

\* The byte that follows a prefix.
LEMMA FollowedBy ==
    \A w, c, i \in Seq(Byte), e \in Byte : \A v, x :
        v = Append(w, e) /\ x = (v \o c) \o i =>
            Len(w) < Len(x) /\ v = Append(w, x[Len(w) + 1])
<1> SUFFICES ASSUME NEW w \in Seq(Byte), NEW c \in Seq(Byte), NEW i \in Seq(Byte), NEW e \in Byte
             PROVE  /\ Len(w) < Len((Append(w, e) \o c) \o i)
                    /\ ((Append(w, e) \o c) \o i)[Len(w) + 1] = e
  OBVIOUS
<1> DEFINE a == Append(w, e)
<1>1. a \in Seq(Byte) /\ Len(a) = Len(w) + 1 /\ a[Len(w) + 1] = e /\ Len(w) \in Nat
  BY AppendProperties, LenProperties
<1> HIDE DEF a
<1>2. Len(a) \in Nat /\ Len(c) \in Nat /\ Len(i) \in Nat
  BY <1>1, LenProperties
<1>3. /\ a \o c \in Seq(Byte) /\ Len(a \o c) = Len(a) + Len(c)
      /\ (a \o c)[Len(w) + 1] = e
  BY <1>1, <1>2, Concatenated, SMTT(30)
<1>4. /\ Len((a \o c) \o i) = Len(a \o c) + Len(i)
      /\ ((a \o c) \o i)[Len(w) + 1] = e
  <2>1. Len(w) + 1 \in 1..Len(a \o c)
    BY <1>1, <1>2, <1>3
  <2>2. /\ Len((a \o c) \o i) = Len(a \o c) + Len(i)
        /\ ((a \o c) \o i)[Len(w) + 1] = (a \o c)[Len(w) + 1]
    BY <1>3, <2>1, Concatenated, Zenon
  <2>3. QED
    BY <1>3, <2>2
<1>5. Len(w) < Len((a \o c) \o i)
  BY <1>1, <1>2, <1>3, <1>4
<1>6. QED
  BY <1>4, <1>5 DEF a

\* What a write adds is the next byte that was sent.
LEMMA NextByte ==
    ASSUME PipeInv, PipeInv', NEW d \in Directions, Writes(d)
    PROVE  /\ Len(Written(d)) < Len(sent[d])
           /\ Written(d)' = Append(Written(d), sent[d][Len(Written(d)) + 1])
<1>1. PICK b \in Byte : Written(d)' = Append(Written(d), b)
  BY WriteKeeps
<1>2. /\ Written(d) \in Seq(Byte) /\ Written(d)' \in Seq(Byte)
      /\ chunk[d]' \in Seq(Byte) /\ inbox[d]' \in Seq(Byte)
  <2>1. Written(d) \in Seq(Byte)
    BY Typed DEF PipeInv
  <2>2. PipeInv' => Streams'
    BY StreamsTyped, PTL
  <2>3. QED
    BY <2>1, <2>2 DEF Streams
<1>3. sent[d] = (Written(d)' \o chunk[d]') \o inbox[d]'
  BY DEF PipeInv, Accounted, Writes
<1>4. ASSUME NEW w, NEW v, NEW c, NEW i, NEW x,
             w \in Seq(Byte), c \in Seq(Byte), i \in Seq(Byte),
             v = Append(w, b), x = (v \o c) \o i
      PROVE  Len(w) < Len(x) /\ v = Append(w, x[Len(w) + 1])
  BY <1>4, FollowedBy
<1>5. ASSUME NEW v, NEW x, v = Append(Written(d), b), x = (v \o chunk[d]') \o inbox[d]'
      PROVE  Len(Written(d)) < Len(x) /\ v = Append(Written(d), x[Len(Written(d)) + 1])
  BY <1>2, <1>4, <1>5, Zenon
<1>6. ASSUME NEW x, x = (Written(d)' \o chunk[d]') \o inbox[d]'
      PROVE  Len(Written(d)) < Len(x) /\ Written(d)' = Append(Written(d), x[Len(Written(d)) + 1])
  BY <1>1, <1>5, <1>6, Zenon
<1>7. QED
  BY <1>3, <1>6, Zenon

\* Every step of the forwarder is a step of the pipe of each direction.
LEMMA EachMoves ==
    ASSUME PipeInv, PipeInv', [Next]_vars, NEW d \in Directions
    PROVE  PipeMoves(d)
<1>1. Ended(d) => Ended(d)'
  BY EndStays
<1>2. CASE UNCHANGED <<sent, delivered, outbox, finished, reset>>
  <2>1. UNCHANGED <<sent[d], Written(d), finished, reset>>
    BY <1>2 DEF Written
  <2>2. QED
    BY <1>1, <2>1, StillMoves
<1>3. ASSUME NEW e \in Directions, Writes(e)
      PROVE  PipeMoves(d)
  <2>1. UNCHANGED <<sent, finished, reset, shut, delivered>> /\ pump[e] = "writing"
        /\ outbox' = [outbox EXCEPT ![e] = Append(@, Head(chunk[e]))]
        /\ pump[e]' \notin PumpEnds
    BY <1>3 DEF Writes, Becomes, PipeInv, TypeOK, PumpEnds
  <2>2. CASE e = d
    <3>1. ~Ended(d) /\ ~Ended(d)'
      BY <2>1, <2>2 DEF Ended, Over, PumpEnds, PipeInv, Accounted
    <3>2. /\ Len(Written(d)) < Len(sent[d])
          /\ Written(d)' = Append(Written(d), sent[d][Len(Written(d)) + 1])
      BY <1>3, <2>2, NextByte
    <3>3. QED
      BY <2>1, <3>1, <3>2 DEF PipeMoves, Ended
  <2>3. CASE e # d
    <3>1. UNCHANGED <<sent[d], Written(d), finished, reset>>
      BY <2>1, <2>3 DEF Written, PipeInv, TypeOK
    <3>2. QED
      BY <1>1, <3>1, StillMoves
  <2>4. QED
    BY <2>2, <2>3
<1>4. ASSUME NEW e \in Directions, PeerSends(e) \/ PeerFinishes(e) \/ PeerReads(e)
      PROVE  PipeMoves(d)
  <2>1. UNCHANGED <<reset, shut, pump>>
    BY <1>4 DEF PeerSends, PeerFinishes, PeerReads, pumpVars
  <2>2. UNCHANGED Ended(d)
    BY <2>1 DEF Ended, Over
  <2>3. CASE PeerSends(e)
    <3>1. UNCHANGED <<delivered, outbox, finished>> /\ e \notin finished
          /\ sent' = [sent EXCEPT ![e] = Append(@, Len(@) + 1)]
      BY <2>3 DEF PeerSends
    <3>2. UNCHANGED Written(d)
      BY <3>1 DEF Written
    <3>3. \E b \in Byte : sent[e]' = Append(sent[e], b)
      BY <2>3, SendKeeps
    <3>4. CASE e = d
      BY <2>1, <2>2, <3>1, <3>2, <3>3, <3>4 DEF PipeMoves
    <3>5. CASE e # d
      BY <2>1, <2>2, <3>1, <3>2, <3>5 DEF PipeMoves, PipeInv, TypeOK
    <3>6. QED
      BY <3>4, <3>5
  <2>4. CASE PeerFinishes(e)
    <3>1. UNCHANGED <<delivered, outbox, sent>> /\ finished' = finished \cup {e}
      BY <2>4 DEF PeerFinishes
    <3>2. UNCHANGED Written(d)
      BY <3>1 DEF Written
    <3>3. QED
      BY <2>1, <2>2, <3>1, <3>2 DEF PipeMoves
  <2>5. CASE PeerReads(e)
    <3>1. UNCHANGED <<finished, sent>>
      BY <2>5 DEF PeerReads
    <3>2. UNCHANGED Written(d)
      <4>1. CASE e = d
        BY <2>5, <4>1, PeerReadKeeps
      <4>2. CASE e # d
        BY <2>5, <4>2 DEF PeerReads, Written, PipeInv, TypeOK
      <4>3. QED
        BY <4>1, <4>2
    <3>3. QED
      BY <2>1, <2>2, <3>1, <3>2 DEF PipeMoves
  <2>6. QED
    BY <1>4, <2>3, <2>4, <2>5
<1>5. ASSUME NEW p \in Peers, PeerResets(p)
      PROVE  PipeMoves(d)
  <2>1. UNCHANGED <<sent, delivered, outbox, finished, shut, pump>> /\ reset' # {}
    BY <1>5 DEF PeerResets, pumpVars
  <2>2. UNCHANGED <<Ended(d), Written(d)>>
    BY <2>1 DEF Ended, Over, Written
  <2>3. QED
    BY <2>1, <2>2 DEF PipeMoves
<1>6. CASE TaskStep \/ Cancelled
  BY <1>2, <1>6 DEF TaskStep, Dials, Claims, FirstSettles, SecondSettles, Cancelled, peerVars
<1>7. ASSUME NEW e \in Directions, Reads(e) \/ ReadsEof(e) \/ Fails(e) \/ AbortTakes(e)
      PROVE  PipeMoves(d)
  BY <1>2, <1>7 DEF Reads, ReadsEof, Fails, AbortTakes, peerVars
<1>8. CASE UNCHANGED vars
  BY <1>2, <1>8 DEF vars, peerVars
<1>9. QED
  BY <1>3, <1>4, <1>5, <1>6, <1>7, <1>8 DEF Next, PumpStep

\* A new connection is two empty pipes.
LEMMA PipesBegin == Init => Up!Init /\ Down!Init
<1> SUFFICES ASSUME Init PROVE Up!Init /\ Down!Init
  OBVIOUS
<1>1. ASSUME NEW d \in Directions
      PROVE  /\ sent[d] = <<>> /\ Written(d) = <<>>
             /\ d \notin finished /\ ~Ended(d) /\ reset = {}
  <2>1. <<>> \o <<>> = <<>>
    BY EmptySeq, ConcatEmptySeq
  <2>2. QED
    BY <2>1 DEF Init, Empty, Written, Ended, Over, PumpEnds
<1>2. "up" \in Directions /\ "down" \in Directions
  BY DEF Directions
<1>3. ("up" \in finished) = FALSE /\ ("down" \in finished) = FALSE
      /\ Ended("up") = FALSE /\ Ended("down") = FALSE /\ (reset # {}) = FALSE
  BY <1>1, <1>2 DEF Ended
<1>4. QED
  BY <1>1, <1>2, <1>3 DEF Up!Init, Down!Init

\* Each direction keeps what BytePipe promises: the sink has a prefix of what
\* was sent, and sees the end only behind the last byte or after a reset,
\* whatever becomes of the other direction and of the forwarder.
THEOREM ForwarderIsPipes == Spec => PipesKept
<1>1. PipeInv /\ PipeInv' /\ [Next]_vars => [Up!Next]_(Up!vars) /\ [Down!Next]_(Down!vars)
  <2> SUFFICES ASSUME PipeInv, PipeInv', [Next]_vars
               PROVE  [Up!Next]_(Up!vars) /\ [Down!Next]_(Down!vars)
    OBVIOUS
  <2>1. PipeMoves("up") /\ PipeMoves("down")
    BY EachMoves DEF Directions
  <2>2. [Up!Next]_(Up!vars)
    BY <2>1 DEF PipeMoves, Byte, Up!Next, Up!vars, Up!Send, Up!Finish, Up!Receive, Up!Break, Up!End
  <2>3. [Down!Next]_(Down!vars)
    BY <2>1 DEF PipeMoves, Byte, Down!Next, Down!vars, Down!Send, Down!Finish, Down!Receive,
                Down!Break, Down!End
  <2>4. QED
    BY <2>2, <2>3
<1>2. QED
  BY <1>1, PipesBegin, PipeInvariant, PTL DEF PipesKept, Spec, Up!Spec, Down!Spec
=====================
