------------------------------ MODULE Handshake ------------------------------
(***************************************************************************)
(* tunnel/client.rs against a server: TunnelClient::connect, which dials   *)
(* with a legacy Hello and once more with HelloEx, or                      *)
(* open_data_connection, which claims a visitor. The server is the one     *)
(* tunnel/mock_server.rs keeps for both dialects, on a network that may    *)
(* delay or lose a connection and a peer that may send frames of its own.  *)
(*                                                                         *)
(* Frames sent and not yet read are in "up" and "down". A timer may expire *)
(* although its frame is on the way. Both ends of a connection are dropped *)
(* by the code that gives it up: the server's when its handler is "gone".  *)
(***************************************************************************)
EXTENDS ControlMessages, Naturals, Sequences, SequencesExt

CONSTANT MaxDown   \* bound: frames of the server that are on their way

ASSUME HandshakeAssumption == MaxDown \in Nat \ {0, 1}

VARIABLES
    job,           \* "dial" for connect, "claim" for open_data_connection
    secret,        \* the client's: "none" (empty), "right" or "wrong"
    server,        \* the server's dialect and options, fixed
    conn,          \* the last connection opened: the first or the retry
    pc,            \* where the client is
    lateAnswered,  \* answered_late_challenge
    outcome,       \* what the call returned
    up, down,      \* frames on their way, per connection
    handler,       \* handle_conn, per connection
    authed,        \* the handler has accepted the client's answer
    mishaps        \* history: what has gone wrong outside the client

clientVars == <<conn, pc, lateAnswered, outcome>>
serverVars == <<handler, authed>>
fixed == <<job, secret, server>>
vars == <<fixed, clientVars, up, down, serverVars, mishaps>>

Conns == {1, 2}
Servers == [dialect : Dialects, requireAuth : BOOLEAN, dropOnHelloEx : BOOLEAN]
Joined == {"Bore", "Spore"}                     \* ServerKind
Errors == {"rejected", "unauthorized", "broken"}  \* the TunnelErrors told apart

TypeOK ==
    /\ job \in {"dial", "claim"}
    /\ secret \in {"none", "right", "wrong"}
    /\ server \in Servers
    /\ conn \in 0..2
    /\ pc \in {"connecting", "window", "greeting", "reply", "done"}
    /\ lateAnswered \in BOOLEAN
    /\ outcome \in {"none", "raw"} \cup Joined \cup Errors
    /\ \A c \in Conns : up[c] \in Seq(ClientMessages) /\ down[c] \in Seq(Frames)
    /\ handler \in [Conns -> {"none", "challenge", "auth", "hello", "control", "bridge", "gone"}]
    /\ authed \in [Conns -> BOOLEAN]
    /\ mishaps \subseteq {"late", "slow", "lost", "stray"}

Init ==
    /\ job \in {"dial", "claim"}
    /\ secret \in {"none", "right", "wrong"}
    /\ server \in Servers
    /\ conn = 0
    /\ pc = "connecting"
    /\ lateAnswered = FALSE
    /\ outcome = "none"
    /\ up = [c \in Conns |-> <<>>]
    /\ down = [c \in Conns |-> <<>>]
    /\ handler = [c \in Conns |-> "none"]
    /\ authed = [c \in Conns |-> FALSE]
    /\ mishaps = {}

-----------------------------------------------------------------------------
(* The client. *)

\* The client still holds its end of c.
HeldByClient(c) == c = conn /\ pc # "connecting" /\ outcome \notin Errors
EndOfStream == down[conn] = <<>> /\ handler[conn] = "gone"

Return(result) == pc' = "done" /\ outcome' = result

\* A failure whose cause may be the dialect: dial() tries the other one, once.
FailRetryable ==
    \/ /\ job = "dial" /\ conn = 1
       /\ pc' = "connecting"
       /\ outcome' = outcome
    \/ (job = "claim" \/ conn = 2) /\ Return("broken")

\* The server's listener takes the connection with a handler of its own.
Accepted(c) == handler' = [handler EXCEPT ![c] = IF server.requireAuth THEN "challenge" ELSE "hello"]

\* Mutant: a claim does without the window for a challenge.
TcpConnectsUnchallenged ==
    /\ pc = "connecting"
    /\ conn' = conn + 1
    /\ pc' = IF secret = "none" \/ job = "claim" THEN "greeting" ELSE "window"
    /\ Accepted(conn + 1)
    /\ UNCHANGED <<fixed, lateAnswered, outcome, up, down, authed, mishaps>>

TcpConnects ==
    /\ pc = "connecting"
    /\ conn' = conn + 1
    /\ pc' = IF secret = "none" THEN "greeting" ELSE "window"
    /\ Accepted(conn + 1)
    /\ UNCHANGED <<fixed, lateAnswered, outcome, up, down, authed, mishaps>>

\* A failed TCP connect is final.
TcpFails ==
    /\ pc = "connecting"
    /\ Return("broken")
    /\ mishaps' = mishaps \cup {"lost"}
    /\ UNCHANGED <<fixed, conn, lateAnswered, up, down, serverVars>>

\* Mutant: the decoder is kept for the retry, with what it has buffered.
ReadsOld(msg) ==
    \E c \in 1..conn :
        /\ down[c] # <<>>
        /\ msg = Parse(Head(down[c]))
        /\ down' = [down EXCEPT ![c] = Tail(@)]

\* The next frame of the server, parsed.
Reads(msg) ==
    /\ down[conn] # <<>>
    /\ msg = Parse(Head(down[conn]))
    /\ down' = [down EXCEPT ![conn] = Tail(@)]

Sends(msg) == up' = [up EXCEPT ![conn] = Append(@, msg)]

\* wait_for_challenge(), its window open.
WindowReads ==
    /\ pc = "window"
    /\ \E msg \in ServerMessages \cup {"malformed"} :
        /\ Reads(msg)
        /\ \/ /\ msg = "Challenge"
              /\ Sends(ChallengeAnswer(secret))
              /\ pc' = "greeting"
              /\ outcome' = outcome
           \/ msg = "Error" /\ Return("rejected") /\ up' = up
           \/ msg \notin {"Challenge", "Error"} /\ FailRetryable /\ up' = up
    /\ UNCHANGED <<fixed, conn, lateAnswered, serverVars, mishaps>>

\* No challenge in time: the server is taken for one that needs none.
WindowCloses ==
    /\ pc = "window"
    /\ pc' = "greeting"
    /\ mishaps' = IF server.requireAuth THEN mishaps \cup {"late"} ELSE mishaps
    /\ UNCHANGED <<fixed, conn, lateAnswered, outcome, up, down, serverVars>>

HelloKind == IF job = "claim" THEN "Accept" ELSE IF conn = 1 THEN "Hello" ELSE "HelloEx"

\* The Hello of this attempt, or the Accept with which a claim turns raw.
Greets ==
    /\ pc = "greeting"
    /\ Sends(HelloKind)
    /\ lateAnswered' = (secret = "none")
    /\ IF job = "claim" THEN Return("raw") ELSE pc' = "reply" /\ outcome' = outcome
    /\ UNCHANGED <<fixed, conn, down, serverVars, mishaps>>

\* A write to a connection the server has closed may fail, and is final.
GreetFails ==
    /\ pc = "greeting"
    /\ handler[conn] = "gone"
    /\ Return("broken")
    /\ UNCHANGED <<fixed, conn, lateAnswered, up, down, serverVars, mishaps>>

\* One frame of the reply loop of attempt().
ReplyReads ==
    /\ pc = "reply"
    /\ \E msg \in ServerMessages \cup {"malformed"} :
        /\ Reads(msg)
        /\ \/ /\ msg = "Hello"
              /\ Return("Bore")
              /\ UNCHANGED <<lateAnswered, up>>
           \/ /\ msg = "HelloEx"
              /\ Return("Spore")
              /\ UNCHANGED <<lateAnswered, up>>
           \/ /\ msg = "Challenge" /\ ~lateAnswered
              /\ lateAnswered' = TRUE
              /\ Sends(ChallengeAnswer(secret))
              /\ UNCHANGED <<pc, outcome>>
           \/ /\ msg = "Challenge" /\ lateAnswered
              /\ Return("unauthorized")
              /\ UNCHANGED <<lateAnswered, up>>
           \/ /\ msg = "Error"
              /\ Return("rejected")
              /\ UNCHANGED <<lateAnswered, up>>
           \/ /\ msg \in {"Ack", "Heartbeat"}
              /\ UNCHANGED <<lateAnswered, up, pc, outcome>>
           \/ /\ msg \in {"Connection", "malformed"}
              /\ FailRetryable
              /\ UNCHANGED <<lateAnswered, up>>
    /\ UNCHANGED <<fixed, conn, serverVars, mishaps>>

\* Mutant: the reply is waited for without a timeout.
ReplyTimesOutNever == FALSE /\ UNCHANGED vars

ReplyTimesOut ==
    /\ pc = "reply"
    /\ FailRetryable
    /\ mishaps' = mishaps \cup {"slow"}
    /\ UNCHANGED <<fixed, conn, lateAnswered, up, down, serverVars>>

\* Mutant: the end of the stream is final.
StreamEndsFinal ==
    /\ pc \in {"window", "reply"}
    /\ EndOfStream
    /\ Return("broken")
    /\ UNCHANGED <<fixed, conn, lateAnswered, up, down, serverVars, mishaps>>

\* The stream ends, or an answer can no longer be written.
StreamEnds ==
    /\ pc \in {"window", "reply"}
    /\ \/ EndOfStream /\ down' = down
       \/ handler[conn] = "gone" /\ Reads("Challenge") /\ (pc = "reply" => ~lateAnswered)
    /\ FailRetryable
    /\ UNCHANGED <<fixed, conn, lateAnswered, up, serverVars, mishaps>>

ClientNext == \/ TcpConnects \/ TcpFails
              \/ WindowReads \/ WindowCloses
              \/ Greets \/ GreetFails
              \/ ReplyReads \/ ReplyTimesOut \/ StreamEnds

-----------------------------------------------------------------------------
(* The server: handle_conn of connection c. *)

Becomes(c, at) == handler' = [handler EXCEPT ![c] = at]
Replies(c, frame) == down' = [down EXCEPT ![c] = Append(@, frame)]
Takes(c, msg) == up[c] # <<>> /\ msg = Head(up[c]) /\ up' = [up EXCEPT ![c] = Tail(@)]

ServerChallenges(c) ==
    /\ handler[c] = "challenge"
    /\ Replies(c, WireForm(server.dialect, "Challenge"))
    /\ Becomes(c, "auth")
    /\ UNCHANGED <<fixed, clientVars, up, authed, mishaps>>

\* The answer must be the next message.
ServerChecks(c) ==
    /\ handler[c] = "auth"
    /\ \E msg \in ClientMessages :
        /\ Takes(c, msg)
        /\ \/ /\ msg = "AuthenticateRight"
              /\ authed' = [authed EXCEPT ![c] = TRUE]
              /\ Becomes(c, "hello")
              /\ down' = down
           \/ /\ msg = "AuthenticateWrong"
              /\ Replies(c, WireForm(server.dialect, "Error"))
              /\ Becomes(c, "gone")
              /\ authed' = authed
           \/ /\ msg \notin {"AuthenticateRight", "AuthenticateWrong"}
              /\ Becomes(c, "gone")
              /\ UNCHANGED <<down, authed>>
    /\ UNCHANGED <<fixed, clientVars, mishaps>>

ServerGreeted(c) ==
    /\ handler[c] = "hello"
    /\ \E msg \in ClientMessages :
        /\ Takes(c, msg)
        /\ \/ /\ msg = "Hello" /\ server.dialect = "Bore"
              /\ Replies(c, WireForm("Bore", "Hello"))
              /\ Becomes(c, "control")
           \/ /\ msg = "HelloEx" /\ server.dialect = "Spore" /\ ~server.dropOnHelloEx
              /\ Replies(c, WireForm("Spore", "HelloEx"))
              /\ Becomes(c, "control")
           \/ /\ msg = "HelloEx" /\ server.dialect = "Bore" /\ ~server.dropOnHelloEx
              /\ Replies(c, WireForm("Bore", "Error"))
              /\ Becomes(c, "gone")
           \/ /\ msg = "Accept"
              /\ Replies(c, Payload)
              /\ Becomes(c, "bridge")
           \/ /\ \/ msg = "Hello" /\ server.dialect = "Spore"
                 \/ msg = "HelloEx" /\ server.dropOnHelloEx
                 \/ msg \in {"AuthenticateRight", "AuthenticateWrong"}
              /\ Becomes(c, "gone")
              /\ down' = down
    /\ UNCHANGED <<fixed, clientVars, authed, mishaps>>

\* The deadline of read_client, and the end of a stream the client has closed.
ServerGivesUp(c) ==
    /\ handler[c] \in {"auth", "hello"}
    /\ up[c] = <<>> \/ HeldByClient(c)
    /\ Becomes(c, "gone")
    /\ mishaps' = IF HeldByClient(c) THEN mishaps \cup {"slow"} ELSE mishaps
    /\ UNCHANGED <<fixed, clientVars, up, down, authed>>

\* The established loop and the bridge read on, and end with the client.
ServerSeesEnd(c) ==
    /\ handler[c] \in {"control", "bridge"}
    /\ ~HeldByClient(c)
    /\ Becomes(c, "gone")
    /\ UNCHANGED <<fixed, clientVars, up, down, authed, mishaps>>

\* The loop's keepalives and its Connection for a visitor.
ServerPumps(c) ==
    /\ handler[c] = "control"
    /\ Len(down[c]) < MaxDown
    /\ \E msg \in {"Connection", IF server.dialect = "Bore" THEN "Heartbeat" ELSE "Ack"} :
        Replies(c, WireForm(server.dialect, msg))
    /\ UNCHANGED <<fixed, clientVars, up, serverVars, mishaps>>

\* Keepalives before the handshake is over, for as long as a server likes.
KeepsAlive(c) ==
    /\ handler[c] \in {"auth", "hello"}
    /\ Len(down[c]) < MaxDown
    /\ Replies(c, WireForm(server.dialect, "Heartbeat"))
    /\ mishaps' = mishaps \cup {"stray"}
    /\ UNCHANGED <<fixed, clientVars, up, serverVars>>

\* A frame the handshake has no place for, once.
Strays(c) ==
    /\ handler[c] \in {"auth", "hello"}
    /\ "stray" \notin mishaps
    /\ \E frame \in {Junk, Tagged("unknown"), Tagged("Connection")} : Replies(c, frame)
    /\ mishaps' = mishaps \cup {"stray"}
    /\ UNCHANGED <<fixed, clientVars, up, serverVars>>

\* The server dies or the network drops the connection: frames on their way
\* may be lost with it.
ConnectionLost(c) ==
    /\ handler[c] \notin {"none", "gone"}
    /\ Becomes(c, "gone")
    /\ \E kept \in Prefixes(down[c]) : down' = [down EXCEPT ![c] = kept]
    /\ mishaps' = mishaps \cup {"lost"}
    /\ UNCHANGED <<fixed, clientVars, up, authed>>

ServerNext(c) == \/ ServerChallenges(c) \/ ServerChecks(c) \/ ServerGreeted(c)
                 \/ ServerGivesUp(c) \/ ServerSeesEnd(c) \/ ServerPumps(c)

Next ==
    \/ ClientNext
    \/ \E c \in Conns : ServerNext(c) \/ KeepsAlive(c) \/ Strays(c) \/ ConnectionLost(c)

Spec == Init /\ [][Next]_vars

\* The client is polled and its timers fire; nothing is asked of the server.
FairSpec == Spec /\ WF_vars(ClientNext)

-----------------------------------------------------------------------------
(* Properties. *)

\* The client and the server can work together at all.
Compatible ==
    /\ server.requireAuth => secret = "right"
    /\ ~(server.dialect = "Spore" /\ server.dropOnHelloEx)

\* With a server and a network that do nothing wrong, connect() returns the
\* dialect of the server if they can work together; a server that wants a
\* secret the client lacks, or has another one, ends the dial at the first
\* connection; a server that drops HelloEx is tried twice. (A server that
\* closes after its Error may make the Hello behind the answer fail to send.)
SoundDial ==
    job = "dial" /\ pc = "done" /\ mishaps = {} =>
        \/ Compatible /\ outcome = server.dialect
        \/ /\ server.requireAuth /\ secret = "none"
           /\ conn = 1 /\ outcome \in {"unauthorized", "broken"}
        \/ /\ server.requireAuth /\ secret = "wrong"
           /\ conn = 1 /\ outcome \in {"rejected", "broken"}
        \/ /\ server.dialect = "Spore" /\ server.dropOnHelloEx
           /\ conn = 2 /\ outcome = "broken"

\* Whatever goes wrong: a client that says it is joined to a dialect is on a
\* connection whose handler speaks it, has greeted it, and, if it asks for a
\* secret, has accepted the answer.
JoinedAgrees ==
    outcome \in Joined =>
        /\ outcome = server.dialect
        /\ handler[conn] \in {"control", "gone"}
        /\ server.requireAuth => authed[conn]

\* What open_data_connection hands over as raw bytes is the visitor's and
\* nothing of the control channel, as long as the server's challenge came
\* within the window and its answer was right.
ClaimIsClean ==
    outcome = "raw" /\ (server.requireAuth => secret = "right") /\ mishaps \cap {"late", "stray"} = {}
        => Range(down[conn]) \subseteq {Payload}

\* The client's timers end every dial and every claim, unless the server
\* sends keepalives for ever: the reply timeout starts again at each frame.
EndsUnlessKeptAlive ==
    (<>[][\A c \in Conns : ~KeepsAlive(c)]_vars) => <>(outcome # "none")

\* The bytes of a claimed visitor are the visitor's, also when the challenge
\* came after the window.
ClaimCarriesVisitorOnly ==
    outcome = "raw" /\ Compatible /\ "stray" \notin mishaps => Range(down[conn]) \subseteq {Payload}
==============================================================================
