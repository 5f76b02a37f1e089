------------------------------- MODULE Forwarder -------------------------------
(***************************************************************************)
(* One visitor's connection (tunnel/forward.rs and the task that            *)
(* spawn_forwarder makes): the local service is dialed, the visitor is      *)
(* claimed, and two pump tasks copy the bytes, "up" from the visitor to the *)
(* local service and "down" back. The visitor and the service send, stop    *)
(* sending, read when they like and may reset their connection; the         *)
(* supervisor may abort the forwarder at any await.                         *)
(*                                                                          *)
(* Bytes in a socket wait in "inbox" for a pump and in "outbox" for a peer. *)
(* A dropped pump drops a half of each socket; a socket is closed when both *)
(* pumps are over.                                                          *)
(***************************************************************************)
EXTENDS Naturals, Sequences

CONSTANTS
    Chunk,         \* CHUNK, the most one read takes
    SocketRoom,    \* what a socket takes before its peer reads
    MaxBytes       \* bound: bytes sent in each direction

ASSUME ForwarderAssumption ==
    Chunk \in Nat \ {0} /\ SocketRoom \in Nat \ {0} /\ MaxBytes \in Nat

Directions == {"up", "down"}
Peers == {"remote", "local"}
Source(d) == IF d = "up" THEN "remote" ELSE "local"
Sink(d) == IF d = "up" THEN "local" ELSE "remote"
Other(d) == IF d = "up" THEN "down" ELSE "up"

VARIABLES
    task,          \* the forwarder task
    pump,          \* the pump tasks
    abortAsked,    \* pumps the forwarder has aborted
    chunk,         \* what each pump has read and not yet written
    counter,       \* ByteCounters
    shut,          \* pumps that have shut the write half down
    inbox, outbox, delivered,
    sent,          \* history: what each source has sent
    finished,      \* sources that send no more
    reset          \* peers that have reset their connection

taskVars == <<task, abortAsked>>
pumpVars == <<pump, chunk, counter, shut>>
peerVars == <<inbox, outbox, delivered, sent, finished, reset>>
vars == <<taskVars, pumpVars, peerVars>>

PumpEnds == {"eof", "failed", "aborted"}
TaskEnds == {"returned", "cancelled"}

TypeOK ==
    /\ task \in {"dialing", "claiming", "piping", "draining"} \cup TaskEnds
    /\ pump \in [Directions -> {"none", "reading", "writing"} \cup PumpEnds]
    /\ abortAsked \subseteq Directions /\ shut \subseteq Directions
    /\ {chunk, inbox, outbox, delivered, sent} \subseteq [Directions -> Seq(1..MaxBytes)]
    /\ counter \in [Directions -> Nat]
    /\ finished \subseteq Directions /\ reset \subseteq Peers

Empty == [d \in Directions |-> <<>>]

Init ==
    /\ task = "dialing"
    /\ pump = [d \in Directions |-> "none"]
    /\ abortAsked = {} /\ shut = {} /\ finished = {} /\ reset = {}
    /\ chunk = Empty /\ counter = [d \in Directions |-> 0]
    /\ inbox = Empty /\ outbox = Empty /\ delivered = Empty /\ sent = Empty

-----------------------------------------------------------------------------
(* The forwarder task. *)

\* connect_local: a service that is down costs no slot of the server.
Dials ==
    /\ task = "dialing"
    /\ task' \in {"claiming", "returned"}
    /\ UNCHANGED <<abortAsked, pumpVars, peerVars>>

\* open_data_connection, and forward_bidirectional spawns its pumps.
Claims ==
    /\ task = "claiming"
    /\ \/ task' = "piping" /\ pump' = [d \in Directions |-> "reading"]
       \/ task' = "returned" /\ pump' = pump
    /\ UNCHANGED <<abortAsked, chunk, counter, shut, peerVars>>

\* Mutant: the end of one direction ends the other.
FirstSettlesBoth ==
    /\ task = "piping"
    /\ \E d \in Directions :
        /\ pump[d] \in PumpEnds
        /\ task' = "returned" /\ abortAsked' = {Other(d)}
    /\ UNCHANGED <<pumpVars, peerVars>>

\* Mutant: an error does not end the other direction.
FirstSettlesAlone ==
    /\ task = "piping"
    /\ \E d \in Directions :
        \/ pump[d] = "eof" /\ task' = "draining" /\ abortAsked' = abortAsked
        \/ pump[d] = "failed" /\ task' = "returned" /\ abortAsked' = abortAsked
    /\ UNCHANGED <<pumpVars, peerVars>>

\* The first direction that is over: a clean end leaves the other alone, an
\* error aborts it.
FirstSettles ==
    /\ task = "piping"
    /\ \E d \in Directions :
        \/ pump[d] = "eof" /\ task' = "draining" /\ abortAsked' = abortAsked
        \/ pump[d] = "failed" /\ task' = "returned" /\ abortAsked' = {Other(d)}
    /\ UNCHANGED <<pumpVars, peerVars>>

SecondSettles ==
    /\ task = "draining"
    /\ \A d \in Directions : pump[d] \in PumpEnds
    /\ task' = "returned"
    /\ UNCHANGED <<abortAsked, pumpVars, peerVars>>

\* The supervisor aborts the task; pumps that run are detached.
Cancelled ==
    /\ task \notin TaskEnds
    /\ task' = "cancelled"
    /\ UNCHANGED <<abortAsked, pumpVars, peerVars>>

-----------------------------------------------------------------------------
(* The pumps. *)

Becomes(d, at) == pump' = [pump EXCEPT ![d] = at]

\* Mutant: the size of the buffer is counted.
CountsBuffer(d, n) == counter' = [counter EXCEPT ![d] = @ + (IF n > 0 THEN Chunk ELSE 0)]

\* Counted before they are written.
Counts(d, n) == counter' = [counter EXCEPT ![d] = @ + n]

Reads(d) ==
    /\ pump[d] = "reading" /\ Source(d) \notin reset
    /\ \E n \in 1..Len(inbox[d]) :
        /\ n <= Chunk
        /\ chunk' = [chunk EXCEPT ![d] = SubSeq(inbox[d], 1, n)]
        /\ inbox' = [inbox EXCEPT ![d] = SubSeq(@, n + 1, Len(@))]
        /\ Counts(d, n)
    /\ Becomes(d, "writing")
    /\ UNCHANGED <<taskVars, shut, outbox, delivered, sent, finished, reset>>

\* Mutant: the end is passed on as soon as the source has finished.
ReadsEofEarly(d) ==
    /\ pump[d] = "reading" /\ d \in finished /\ Source(d) \notin reset
    /\ \/ Sink(d) \notin reset /\ shut' = shut \cup {d} /\ Becomes(d, "eof")
       \/ Sink(d) \in reset /\ shut' = shut /\ Becomes(d, "failed")
    /\ UNCHANGED <<taskVars, chunk, counter, peerVars>>

\* A clean end is passed on by a shutdown, which fails on a reset connection.
ReadsEof(d) ==
    /\ pump[d] = "reading" /\ inbox[d] = <<>> /\ d \in finished /\ Source(d) \notin reset
    /\ \/ Sink(d) \notin reset /\ shut' = shut \cup {d} /\ Becomes(d, "eof")
       \/ Sink(d) \in reset /\ shut' = shut /\ Becomes(d, "failed")
    /\ UNCHANGED <<taskVars, chunk, counter, peerVars>>

\* write_all, a byte at a time as the socket has room.
Writes(d) ==
    /\ pump[d] = "writing" /\ Sink(d) \notin reset
    /\ Len(outbox[d]) < SocketRoom
    /\ outbox' = [outbox EXCEPT ![d] = Append(@, Head(chunk[d]))]
    /\ chunk' = [chunk EXCEPT ![d] = Tail(@)]
    /\ Becomes(d, IF Len(chunk[d]) = 1 THEN "reading" ELSE "writing")
    /\ UNCHANGED <<taskVars, counter, shut, inbox, delivered, sent, finished, reset>>

Fails(d) ==
    /\ \/ pump[d] = "reading" /\ Source(d) \in reset
       \/ pump[d] = "writing" /\ Sink(d) \in reset
    /\ Becomes(d, "failed")
    /\ UNCHANGED <<taskVars, chunk, counter, shut, peerVars>>

\* An abort takes effect at an await, with the rest of the chunk unwritten.
AbortTakes(d) ==
    /\ d \in abortAsked /\ pump[d] \in {"reading", "writing"}
    /\ Becomes(d, "aborted")
    /\ UNCHANGED <<taskVars, chunk, counter, shut, peerVars>>

PumpStep(d) == Reads(d) \/ ReadsEof(d) \/ Writes(d) \/ Fails(d) \/ AbortTakes(d)

-----------------------------------------------------------------------------
(* The visitor and the local service. *)

Over == \A d \in Directions : pump[d] \in PumpEnds
Connected == pump["up"] # "none" /\ ~Over

PeerSends(d) ==
    /\ Connected /\ d \notin finished /\ Source(d) \notin reset
    /\ Len(sent[d]) < MaxBytes
    /\ sent' = [sent EXCEPT ![d] = Append(@, Len(@) + 1)]
    /\ inbox' = [inbox EXCEPT ![d] = Append(@, Len(sent[d]) + 1)]
    /\ UNCHANGED <<taskVars, pumpVars, outbox, delivered, finished, reset>>

PeerFinishes(d) ==
    /\ Connected /\ d \notin finished /\ Source(d) \notin reset
    /\ finished' = finished \cup {d}
    /\ UNCHANGED <<taskVars, pumpVars, inbox, outbox, delivered, sent, reset>>

PeerReads(d) ==
    /\ outbox[d] # <<>> /\ Sink(d) \notin reset
    /\ delivered' = [delivered EXCEPT ![d] = Append(@, Head(outbox[d]))]
    /\ outbox' = [outbox EXCEPT ![d] = Tail(@)]
    /\ UNCHANGED <<taskVars, pumpVars, inbox, sent, finished, reset>>

\* What the peer has sent and no pump has read may be lost with it.
PeerResets(p) ==
    /\ Connected /\ p \notin reset
    /\ reset' = reset \cup {p}
    /\ UNCHANGED <<taskVars, pumpVars, inbox, outbox, delivered, sent, finished>>

TaskStep == Dials \/ Claims \/ FirstSettles \/ SecondSettles

Next ==
    \/ TaskStep
    \/ Cancelled
    \/ \E d \in Directions : PumpStep(d) \/ PeerSends(d) \/ PeerFinishes(d) \/ PeerReads(d)
    \/ \E p \in Peers : PeerResets(p)

Spec == Init /\ [][Next]_vars

\* The runtime polls the task and the pumps. Nothing is asked of the peers.
FairSpec == Spec /\ WF_vars(TaskStep) /\ \A d \in Directions : WF_vars(PumpStep(d))

-----------------------------------------------------------------------------
(* Properties. *)

\* Bytes a pump has handed to the socket of its sink.
Written(d) == delivered[d] \o outbox[d]

\* forward.rs:164: the counters never lag behind what the peers have, run
\* ahead by no more than a chunk, and are exact when both directions have
\* drained cleanly.
CountsForwarded ==
    \A d \in Directions :
        /\ Len(Written(d)) <= counter[d] /\ counter[d] <= Len(Written(d)) + Chunk
        /\ pump[d] = "eof" => counter[d] = Len(sent[d])

\* Each direction is a pipe to its ends, whatever becomes of the other
\* direction and of the forwarder: a peer that sees the end, by the half-close
\* or because the sockets were dropped, has all bytes unless a peer reset.
Ended(d) == d \in shut \/ Over
Up == INSTANCE BytePipe WITH
    Bytes <- 1..MaxBytes, sent <- sent["up"], finished <- "up" \in finished,
    received <- Written("up"), ended <- Ended("up"), broken <- reset # {}
Down == INSTANCE BytePipe WITH
    Bytes <- 1..MaxBytes, sent <- sent["down"], finished <- "down" \in finished,
    received <- Written("down"), ended <- Ended("down"), broken <- reset # {}
PipesKept == Up!Spec /\ Down!Spec

\* forward.rs:101: as long as its sink reads, a direction delivers, also when
\* the other one has ended cleanly or never moves, and also detached.
BytesFlow ==
    \A d \in Directions :
        ([]<>(outbox[d] = <<>>)) =>
            \A k \in 1..MaxBytes : Len(sent[d]) >= k ~> Len(delivered[d]) >= k \/ reset # {}

\* forward.rs:101-102: an error in one direction ends both, although the other
\* may be waiting for a peer that never sends nor reads. Only a forwarder
\* that was aborted leaves its pumps to themselves.
ErrorEndsBoth ==
    (\E d \in Directions : pump[d] = "failed") ~> (Over \/ task = "cancelled")
===============================================================================
