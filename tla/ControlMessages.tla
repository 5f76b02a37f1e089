--------------------------- MODULE ControlMessages ---------------------------
(***************************************************************************)
(* The messages of the control channel and the frames that carry them, as  *)
(* both server dialects write them (tunnel/protocol.rs). A frame is a JSON *)
(* document: a bare string, an object with one tagged entry, or something  *)
(* that is no message at all. Ports, ids and nonces are left out, except   *)
(* that an answer to a challenge is right or wrong.                        *)
(***************************************************************************)

ClientMessages == {"AuthenticateRight", "AuthenticateWrong", "Hello", "HelloEx", "Accept"}
ServerMessages == {"Challenge", "Hello", "HelloEx", "Ack", "Heartbeat", "Connection", "Error"}
Dialects == {"Bore", "Spore"}

Bare(word) == [form |-> "bare", word |-> word]
Tagged(word) == [form |-> "tagged", word |-> word]
Junk == [form |-> "junk", word |-> "?"]

\* Bytes of a visitor, which no one frames.
Payload == [form |-> "raw", word |-> "visitor"]

\* A nonce is a UUID, so it is no keepalive's name.
Nonce == "nonce"

Frames == {Bare(w) : w \in {"Ack", "Heartbeat", Nonce}}
            \cup {Tagged(m) : m \in ServerMessages \cup {"unknown"}} \cup {Junk, Payload}

\* How a server of a dialect writes a message.
WireForm(dialect, msg) ==
    CASE msg \in {"Ack", "Heartbeat"} -> Bare(msg)
      [] msg = "Challenge" /\ dialect = "Spore" -> Bare(Nonce)
      [] OTHER -> Tagged(msg)

\* How the client reads a frame. A bare string that is no keepalive is taken
\* for a challenge; an object none of whose keys is known is malformed.
Parse(frame) ==
    CASE frame.form = "bare" -> IF frame.word \in {"Ack", "Heartbeat"} THEN frame.word
                                ELSE "Challenge"
      [] frame.form = "tagged" /\ frame.word \in ServerMessages -> frame.word
      [] OTHER -> "malformed"

\* challenge_answer(secret, nonce), compared with the server's own.
ChallengeAnswer(secret) ==
    IF secret = "right" THEN "AuthenticateRight" ELSE "AuthenticateWrong"
==============================================================================
