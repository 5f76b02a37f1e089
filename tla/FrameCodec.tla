----------------------------- MODULE FrameCodec ------------------------------
(***************************************************************************)
(* The NUL-delimited frames of tunnel/protocol.rs over a byte stream: a    *)
(* sender (write_frame), the network that hands bytes over in pieces of    *)
(* any size, FrameReader::next_frame with its decoder's buffer, and the    *)
(* switch to raw bytes with drain_buffer. A byte is 0, the delimiter, or   *)
(* the number of the message it belongs to.                                *)
(*                                                                         *)
(* The sender is this program, which refuses payloads over the limit, or a *)
(* peer that does not. A read is the only await of next_frame: there a     *)
(* timeout or a select drops the call, and a later call goes on.           *)
(***************************************************************************)
EXTENDS Naturals, Sequences, SequencesExt

CONSTANTS
    MaxFrame,      \* MAX_FRAME_LEN
    ReadChunk,     \* READ_CHUNK
    MaxMsgs,       \* bound: messages sent
    MaxLen,        \* bound: length of a payload
    MaxRaw         \* bound: raw bytes sent

ASSUME FrameAssumption ==
    /\ MaxFrame \in Nat \ {0} /\ ReadChunk \in Nat \ {0}
    /\ MaxMsgs \in Nat /\ MaxLen \in Nat \ {0} /\ MaxRaw \in Nat

NUL == 0
RawByte == MaxMsgs + 1
Bytes == 0..(MaxMsgs + 1)

VARIABLES
    checks,        \* the sender is this program: it checks the length
    sender,        \* "idle", "half" between write_frame's two writes, "closed"
    count,         \* messages the sender has begun
    rawSent,       \* raw bytes written
    net,           \* bytes written and not yet read
    buf,           \* the decoder's buffer
    call,          \* next_frame: not called, scanning its buffer, awaiting a read
    result,        \* how the stream ended for the reader
    raw,           \* bytes handed over since the switch to raw mode
    isRaw,         \* the reader has switched
    written,       \* history: every byte written
    framed,        \* history: payloads written with their delimiter
    delivered      \* payloads next_frame has returned

senderVars == <<checks, sender, count, rawSent, written, framed>>
readerVars == <<buf, call, result, raw, isRaw, delivered>>
vars == <<senderVars, net, readerVars>>

Payloads == UNION {[1..n -> Bytes \ {NUL}] : n \in 1..MaxLen}
Payload(m, n) == [i \in 1..n |-> m]

TypeOK ==
    /\ {checks, isRaw} \subseteq BOOLEAN
    /\ sender \in {"idle", "half", "closed"}
    /\ count \in 0..MaxMsgs /\ rawSent \in 0..MaxRaw
    /\ {net, buf, raw, written} \subseteq Seq(Bytes)
    /\ call \in {"none", "scanning", "awaiting"}
    /\ result \in {"none", "end", "tooLarge", "failed"}
    /\ {framed, delivered} \subseteq Seq(Seq(Bytes \ {NUL}))

Init ==
    /\ checks \in BOOLEAN
    /\ sender = "idle"
    /\ count = 0 /\ rawSent = 0
    /\ net = <<>> /\ written = <<>> /\ framed = <<>>
    /\ buf = <<>> /\ raw = <<>> /\ delivered = <<>>
    /\ call = "none" /\ result = "none" /\ isRaw = FALSE

-----------------------------------------------------------------------------
(* The sender. *)

Write(bytes) == net' = net \o bytes /\ written' = written \o bytes

\* Mutant: nothing is too long to be sent.
SendableAll(n) == n \in Nat

\* ensure_sendable(): payload and delimiter within the limit.
Sendable(n) == n + 1 <= MaxFrame

WritesPayload(n) ==
    /\ sender = "idle" /\ rawSent = 0 /\ count < MaxMsgs
    /\ checks => Sendable(n)
    /\ count' = count + 1
    /\ Write(Payload(count + 1, n))
    /\ sender' = "half"
    /\ UNCHANGED <<checks, rawSent, framed, readerVars>>

\* A payload over the limit is an error of write_frame, and nothing is written.
RefusesPayload(n) ==
    /\ sender = "idle" /\ count < MaxMsgs
    /\ checks /\ ~Sendable(n)
    /\ count' = count + 1
    /\ UNCHANGED <<checks, sender, rawSent, written, framed, net, readerVars>>

\* The payload's bytes are at the end of what was written.
LastPayload == LET ends == {i \in 1..Len(written) : written[i] = NUL} \cup {0}
               IN  SubSeq(written, Max(ends) + 1, Len(written))

WritesDelimiter ==
    /\ sender = "half"
    /\ Write(<<NUL>>)
    /\ framed' = Append(framed, LastPayload)
    /\ sender' = "idle"
    /\ UNCHANGED <<checks, count, rawSent, readerVars>>

\* The server sends a visitor's bytes once it has the Accept: any byte, also NUL.
WritesRaw ==
    /\ isRaw /\ sender = "idle" /\ rawSent < MaxRaw
    /\ \E b \in {NUL, RawByte} : Write(<<b>>)
    /\ rawSent' = rawSent + 1
    /\ UNCHANGED <<checks, sender, count, framed, readerVars>>

\* Closed, perhaps in the middle of a frame.
Closes ==
    /\ sender # "closed"
    /\ sender' = "closed"
    /\ UNCHANGED <<checks, count, rawSent, written, framed, net, readerVars>>

-----------------------------------------------------------------------------
(* The reader. *)

Delimiters(bytes) == {i \in 1..Len(bytes) : bytes[i] = NUL}

\* Mutant: next_frame reads before it looks at its buffer.
CallsAndReads ==
    /\ call = "none" /\ result = "none" /\ ~isRaw
    /\ call' = "awaiting"
    /\ UNCHANGED <<senderVars, net, buf, result, raw, isRaw, delivered>>

\* next_frame() is called, and looks at its buffer first.
Calls ==
    /\ call = "none" /\ result = "none" /\ ~isRaw
    /\ call' = "scanning"
    /\ UNCHANGED <<senderVars, net, buf, result, raw, isRaw, delivered>>

\* next_payload(): the first delimiter ends the frame, however long it is.
PopsFrame ==
    /\ call = "scanning"
    /\ \E end \in Delimiters(buf) :
        /\ \A i \in Delimiters(buf) : end <= i
        /\ delivered' = Append(delivered, SubSeq(buf, 1, end - 1))
        /\ buf' = SubSeq(buf, end + 1, Len(buf))
    /\ call' = "none"
    /\ UNCHANGED <<senderVars, net, result, raw, isRaw>>

\* next_payload() gives up on a frame without an end.
RefusesBuffer ==
    /\ call = "scanning"
    /\ Delimiters(buf) = {} /\ Len(buf) > MaxFrame
    /\ call' = "none" /\ result' = "tooLarge"
    /\ UNCHANGED <<senderVars, net, buf, raw, isRaw, delivered>>

\* Mutant: the limit is not looked at.
AwaitsMoreAlways ==
    /\ call = "scanning"
    /\ Delimiters(buf) = {}
    /\ call' = "awaiting"
    /\ UNCHANGED <<senderVars, net, buf, result, raw, isRaw, delivered>>

AwaitsMore ==
    /\ call = "scanning"
    /\ Delimiters(buf) = {} /\ Len(buf) <= MaxFrame
    /\ call' = "awaiting"
    /\ UNCHANGED <<senderVars, net, buf, result, raw, isRaw, delivered>>

\* The network hands over what it has, or any part of it that fits the chunk.
Chunks == {n \in 1..Len(net) : n <= ReadChunk}

ReadsChunk ==
    /\ call = "awaiting"
    /\ \E n \in Chunks :
        /\ buf' = buf \o SubSeq(net, 1, n)
        /\ net' = SubSeq(net, n + 1, Len(net))
    /\ call' = "scanning"
    /\ UNCHANGED <<senderVars, result, raw, isRaw, delivered>>

\* Mutant: a closed peer ends the stream although bytes are on their way.
ReadsEndEarly ==
    /\ call = "awaiting" /\ sender = "closed"
    /\ call' = "none" /\ result' = "end"
    /\ UNCHANGED <<senderVars, net, buf, raw, isRaw, delivered>>

\* End of stream, whatever is in the buffer.
ReadsEnd ==
    /\ call = "awaiting"
    /\ net = <<>> /\ sender = "closed"
    /\ call' = "none" /\ result' = "end"
    /\ UNCHANGED <<senderVars, net, buf, raw, isRaw, delivered>>

\* An IO error of the read.
ReadFails ==
    /\ call = "awaiting" /\ sender = "closed"
    /\ call' = "none" /\ result' = "failed"
    /\ UNCHANGED <<senderVars, net, buf, raw, isRaw, delivered>>

\* The future of next_frame is dropped: the buffer stays.
Cancelled ==
    /\ call = "awaiting"
    /\ call' = "none"
    /\ UNCHANGED <<senderVars, net, buf, result, raw, isRaw, delivered>>

\* Mutant: the decoder is dropped with what it has buffered.
TurnsRawDropping ==
    /\ call = "none" /\ result = "none" /\ ~isRaw
    /\ isRaw' = TRUE
    /\ buf' = <<>>
    /\ UNCHANGED <<senderVars, net, call, result, raw, delivered>>

\* Accept is sent: into_parts() and drain_buffer().
TurnsRaw ==
    /\ call = "none" /\ result = "none" /\ ~isRaw
    /\ isRaw' = TRUE
    /\ raw' = buf
    /\ buf' = <<>>
    /\ UNCHANGED <<senderVars, net, call, result, delivered>>

\* The forwarder copies on from the socket.
CopiesRaw ==
    /\ isRaw
    /\ \E n \in Chunks :
        /\ raw' = raw \o SubSeq(net, 1, n)
        /\ net' = SubSeq(net, n + 1, Len(net))
    /\ UNCHANGED <<senderVars, buf, call, result, isRaw, delivered>>

-----------------------------------------------------------------------------
SenderNext == \/ \E n \in 1..MaxLen : WritesPayload(n) \/ RefusesPayload(n)
              \/ WritesDelimiter
              \/ WritesRaw
              \/ Closes

ReaderRuns == Calls \/ PopsFrame \/ RefusesBuffer \/ AwaitsMore

Next == \/ SenderNext
        \/ ReaderRuns
        \/ ReadsChunk \/ ReadsEnd \/ ReadFails \/ Cancelled
        \/ TurnsRaw \/ CopiesRaw

Spec == Init /\ [][Next]_vars

\* The reader is called again and polled; a read that is ready again and
\* again is taken in the end, also when other branches of its select win.
FairSpec == Spec /\ WF_vars(ReaderRuns) /\ SF_vars(ReadsChunk)

-----------------------------------------------------------------------------
(* Properties. *)

\* The bytes of a frame.
Encode(payload) == Append(payload, NUL)
Encoded(payloads) == FlattenSeq([i \in DOMAIN payloads |-> Encode(payloads[i])])

\* However the stream is cut, and whatever calls are dropped: every byte that
\* was written is in a delivered frame, buffered, handed over raw or on its
\* way, once and in order. (drain_buffer: "must not be lost".)
BytesConserved == written = Encoded(delivered) \o raw \o buf \o net

\* No peer makes the decoder hold more than a frame and one read: a buffer
\* that is full without a delimiter is refused before the next read.
BufferBounded == Len(buf) <= MaxFrame + ReadChunk

\* How a stream is said to have ended is true: the end comes after the last
\* whole frame, and no frame is called too large that this program agreed to
\* send, at any cut.
EndIsTrue ==
    /\ result = "end" => delivered = framed
    /\ result = "tooLarge" => ~checks

\* A frame whose delimiter was written arrives, if the reader keeps reading
\* frames: it is not left in the buffer behind the frame before it.
FramesArrive ==
    \A k \in 1..MaxMsgs :
        Len(framed) >= k ~> Len(delivered) >= k \/ isRaw \/ result # "none"
==============================================================================
