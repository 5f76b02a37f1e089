--------------------------- MODULE HandshakeProofs ---------------------------
(***************************************************************************)
(* What the handshake comes to, for any number of frames on their way: a   *)
(* client that says it is joined is joined, whatever goes wrong on the     *)
(* network; a dial that nothing disturbs returns what its server is, or    *)
(* why it is not taken; the bytes of a claim are the visitor's.            *)
(***************************************************************************)
EXTENDS Handshake, SequenceTheorems, TLAPS

Handlers == {"none", "challenge", "auth", "hello", "control", "bridge", "gone"}

\* The frames that may be on their way on connection c: a greeting only comes
\* from a handler of its dialect that has been greeted and has no doubts.
Meant(c) ==
    {f \in Frames :
        /\ Parse(f) = "Hello" => server.dialect = "Bore"
        /\ Parse(f) = "HelloEx" => server.dialect = "Spore"
        /\ Parse(f) \in {"Hello", "HelloEx"} =>
               /\ handler[c] \in {"control", "gone"}
               /\ server.requireAuth => authed[c]}

JoinInv ==
    /\ server \in Servers
    /\ conn \in 0..2 /\ pc \in {"connecting", "window", "greeting", "reply", "done"}
    /\ pc = "connecting" => conn \in {0, 1}
    /\ pc \in {"window", "greeting", "reply"} => conn \in Conns
    /\ outcome \in Joined => pc = "done" /\ conn \in Conns
    /\ handler \in [Conns -> Handlers] /\ authed \in [Conns -> BOOLEAN]
    /\ down = [c \in Conns |-> down[c]]
    /\ \A c \in Conns :
        /\ down[c] \in Seq(Meant(c))
        /\ c > conn => handler[c] = "none" /\ down[c] = <<>>
        /\ server.requireAuth /\ handler[c] \in {"hello", "control", "bridge"} => authed[c]
    /\ JoinedAgrees

\* Frames that are no greeting, and the two that are.
LEMMA Parses ==
    /\ \A d \in Dialects : \A m \in {"Challenge", "Error", "Ack", "Heartbeat", "Connection"} :
           WireForm(d, m) \in Frames /\ Parse(WireForm(d, m)) \notin {"Hello", "HelloEx"}
    /\ \A f \in {Junk, Payload, Tagged("unknown"), Tagged("Connection")} :
           f \in Frames /\ Parse(f) \notin {"Hello", "HelloEx"}
    /\ WireForm("Bore", "Hello") \in Frames /\ Parse(WireForm("Bore", "Hello")) = "Hello"
    /\ WireForm("Spore", "HelloEx") \in Frames /\ Parse(WireForm("Spore", "HelloEx")) = "HelloEx"
BY DEF WireForm, Parse, Frames, Bare, Tagged, Junk, Payload, Nonce, ServerMessages, Dialects

\* A handler that goes on does not take back what a greeting says of it.
LEMMA MeantGrows ==
    ASSUME NEW c \in Conns, UNCHANGED server,
           handler[c] \in {"control", "gone"} => handler'[c] \in {"control", "gone"},
           authed[c] => authed'[c]
    PROVE  Meant(c) \subseteq Meant(c)'
BY DEF Meant

\* The next frame, and what is left behind it.
LEMMA HeadMeant ==
    ASSUME NEW S, NEW s \in Seq(S), s # <<>>
    PROVE  Head(s) \in S /\ Tail(s) \in Seq(S)
BY HeadTailProperties

\* Nobody is joined before a connection is opened.
LEMMA JoinInit == Init => JoinInv
<1> SUFFICES ASSUME Init PROVE JoinInv
  OBVIOUS
<1>1. \A c \in Conns : down[c] \in Seq(Meant(c))
  BY EmptySeq DEF Init
<1>2. QED
  BY <1>1 DEF Init, JoinInv, Conns, Handlers, JoinedAgrees, Joined

\* What a read of the client leaves of the frames on their way.
LEMMA ReadKeeps ==
    ASSUME JoinInv, conn \in Conns, NEW msg, Reads(msg), UNCHANGED <<server, handler, authed>>
    PROVE  /\ down' = [c \in Conns |-> down'[c]]
           /\ \A c \in Conns : down'[c] \in Seq(Meant(c))'
           /\ \A c \in Conns : down[c] = <<>> => down'[c] = <<>>
           /\ msg \in {"Hello", "HelloEx"} =>
                  /\ msg = "Hello" => server.dialect = "Bore"
                  /\ msg = "HelloEx" => server.dialect = "Spore"
                  /\ handler[conn] \in {"control", "gone"}
                  /\ server.requireAuth => authed[conn]
<1>1. down[conn] \in Seq(Meant(conn)) /\ down[conn] # <<>>
  BY DEF JoinInv, Reads
<1>2. Head(down[conn]) \in Meant(conn) /\ Tail(down[conn]) \in Seq(Meant(conn))
  BY <1>1, HeadMeant
<1>3. down' = [down EXCEPT ![conn] = Tail(down[conn])] /\ msg = Parse(Head(down[conn]))
  BY DEF Reads
<1>4. \A c \in Conns : Meant(c)' = Meant(c)
  BY DEF Meant
<1>5. down' = [c \in Conns |-> down'[c]]
  BY <1>3 DEF JoinInv
<1>6. down'[conn] = Tail(down[conn]) /\ \A c \in Conns : c # conn => down'[c] = down[c]
  BY <1>3 DEF JoinInv
<1>7. \A c \in Conns : down'[c] \in Seq(Meant(c))'
  BY <1>2, <1>4, <1>6 DEF JoinInv
<1>8. \A c \in Conns : down[c] = <<>> => down'[c] = <<>>
  BY <1>1, <1>6
<1>9. QED
  BY <1>2, <1>3, <1>5, <1>7, <1>8 DEF Meant

\* If this step ends in the client's being joined, msg is what it was told.
JoinsBy(msg) ==
    outcome' \in Joined =>
        /\ pc' = "done"
        /\ (msg = "Hello" /\ outcome' = "Bore") \/ (msg = "HelloEx" /\ outcome' = "Spore")

\* A step of the client, its connections' handlers standing still.
LEMMA ClientJoins ==
    ASSUME JoinInv, ClientNext
    PROVE  JoinInv'
<1>1. CASE TcpConnects
  <2>1. /\ pc = "connecting" /\ conn' = conn + 1 /\ pc' \in {"greeting", "window"}
        /\ \E h \in {"challenge", "hello"} :
               /\ handler' = [handler EXCEPT ![conn + 1] = h]
               /\ h = "hello" => ~server.requireAuth
        /\ UNCHANGED <<server, outcome, down, authed>>
    BY <1>1 DEF TcpConnects, Accepted, fixed
  <2>2. conn + 1 \in Conns /\ handler[conn + 1] = "none" /\ down[conn + 1] = <<>>
    BY <2>1 DEF JoinInv, Conns
  <2>3. \A c \in Conns : c # conn + 1 => handler'[c] = handler[c]
    BY <2>1
  <2>4. ASSUME NEW c \in Conns PROVE down'[c] \in Seq(Meant(c)')
    <3>1. Meant(c) \subseteq Meant(c)'
      BY <2>1, <2>2, <2>3, MeantGrows
    <3>2. QED
      BY <2>1, <3>1, SeqMonotonic DEF JoinInv
  <2>5. outcome \notin Joined
    BY <2>1 DEF JoinInv
  <2>6. QED
    BY <2>1, <2>2, <2>3, <2>4, <2>5 DEF JoinInv, Conns, Handlers, JoinedAgrees
<1>2. CASE TcpFails \/ WindowCloses \/ Greets \/ GreetFails \/ ReplyTimesOut
  <2>1. UNCHANGED <<server, conn, down, handler, authed>>
    BY <1>2 DEF TcpFails, WindowCloses, Greets, GreetFails, ReplyTimesOut, fixed, serverVars
  <2>2. /\ outcome' \notin Joined /\ pc' \in {"connecting", "greeting", "reply", "done"}
        /\ pc' = "connecting" => conn = 1
        /\ pc' \in {"greeting", "reply"} => pc \in {"window", "greeting"}
    BY <1>2 DEF TcpFails, WindowCloses, Greets, GreetFails, ReplyTimesOut, FailRetryable, Return,
       JoinInv, Joined, Errors
  <2>3. \A c \in Conns : Meant(c)' = Meant(c)
    BY <2>1 DEF Meant
  <2>4. QED
    BY <2>1, <2>2, <2>3 DEF JoinInv, JoinedAgrees
<1>3. CASE WindowReads \/ ReplyReads \/ StreamEnds
  <2>1. /\ UNCHANGED <<server, conn, handler, authed>> /\ conn \in Conns
        /\ pc \in {"window", "reply"}
    BY <1>3 DEF WindowReads, ReplyReads, StreamEnds, fixed, serverVars, JoinInv
  <2>2. /\ \/ UNCHANGED down /\ outcome' \notin Joined
           \/ \E msg : /\ Reads(msg)
                       /\ JoinsBy(msg)
        /\ pc' \in {"window", "greeting", "reply", "connecting", "done"}
        /\ pc' = "connecting" => conn = 1
    <3>1. outcome \notin Joined /\ outcome # "Bore" /\ outcome # "Spore"
      BY <2>1 DEF JoinInv, Joined
    <3>2. FailRetryable => outcome' \notin Joined /\ pc' \in {"connecting", "done"}
                           /\ (pc' = "connecting" => conn = 1)
      BY <3>1 DEF FailRetryable, Return, Joined
    <3>3. CASE WindowReads
      <4>1. PICK msg : /\ Reads(msg)
                       /\ \/ pc' = "greeting" /\ outcome' = outcome
                          \/ Return("rejected")
                          \/ FailRetryable
        BY <3>3 DEF WindowReads
      <4>2. /\ outcome' \notin Joined /\ pc' \in {"greeting", "connecting", "done"}
            /\ pc' = "connecting" => conn = 1
        BY <4>1, <3>1, <3>2 DEF Return, Joined
      <4>3. \A m : JoinsBy(m)
        BY <4>2 DEF JoinsBy
      <4>4. QED
        BY <4>1, <4>2, <4>3
    <3>4. CASE ReplyReads
      <4>1. PICK msg : /\ Reads(msg)
                       /\ \/ msg = "Hello" /\ Return("Bore")
                          \/ msg = "HelloEx" /\ Return("Spore")
                          \/ UNCHANGED <<pc, outcome>>
                          \/ Return("unauthorized") \/ Return("rejected")
                          \/ FailRetryable
        BY <3>4 DEF ReplyReads
      <4>2. /\ JoinsBy(msg)
            /\ pc' \in {"window", "reply", "connecting", "done"}
            /\ pc' = "connecting" => conn = 1
        <5>1. CASE UNCHANGED <<pc, outcome>>
          BY <3>1, <2>1, <5>1 DEF JoinsBy
        <5>2. CASE Return("unauthorized") \/ Return("rejected") \/ FailRetryable
          BY <3>2, <5>2 DEF Return, Joined, JoinsBy
        <5>3. CASE msg = "Hello" /\ Return("Bore")
          BY <5>3 DEF Return, JoinsBy
        <5>4. CASE msg = "HelloEx" /\ Return("Spore")
          BY <5>4 DEF Return, JoinsBy
        <5>5. QED
          BY <4>1, <5>1, <5>2, <5>3, <5>4
      <4>3. QED
        BY <4>1, <4>2
    <3>5. CASE StreamEnds
      <4>1. FailRetryable /\ (UNCHANGED down \/ Reads("Challenge"))
        BY <3>5 DEF StreamEnds
      <4>2. QED
        BY <4>1, <3>2 DEF JoinsBy
    <3>6. QED
      BY <1>3, <3>3, <3>4, <3>5
  <2>3. \A c \in Conns : Meant(c)' = Meant(c)
    BY <2>1 DEF Meant
  <2>4. CASE UNCHANGED down /\ outcome' \notin Joined
    BY <2>1, <2>2, <2>3, <2>4 DEF JoinInv, JoinedAgrees
  <2>5. ASSUME NEW msg, Reads(msg),
               JoinsBy(msg)
        PROVE  JoinInv'
    <3>1. /\ down' = [c \in Conns |-> down'[c]]
          /\ \A c \in Conns : down'[c] \in Seq(Meant(c))'
          /\ \A c \in Conns : down[c] = <<>> => down'[c] = <<>>
          /\ msg \in {"Hello", "HelloEx"} =>
                 /\ msg = "Hello" => server.dialect = "Bore"
                 /\ msg = "HelloEx" => server.dialect = "Spore"
                 /\ handler[conn] \in {"control", "gone"}
                 /\ server.requireAuth => authed[conn]
      BY <2>1, <2>5, ReadKeeps
    <3>2. JoinedAgrees'
      BY <2>1, <2>5, <3>1 DEF JoinedAgrees, JoinsBy
    <3>3. QED
      BY <2>1, <2>2, <2>5, <3>1, <3>2 DEF JoinInv, JoinsBy
  <2>6. QED
    BY <2>2, <2>4, <2>5
<1>4. QED
  BY <1>1, <1>2, <1>3 DEF ClientNext

\* The handler of connection c goes on, taking back nothing it has said.
GoesOn(c) ==
    /\ UNCHANGED <<server, conn, pc, outcome>>
    /\ handler' \in [Conns -> Handlers] /\ authed' \in [Conns -> BOOLEAN]
    /\ \A d \in Conns : d # c => handler'[d] = handler[d] /\ authed'[d] = authed[d]
    /\ handler[c] # "none" /\ handler'[c] # "none"
    /\ handler[c] \in {"control", "gone"} => handler'[c] \in {"control", "gone"}
    /\ authed[c] => authed'[c]
    /\ server.requireAuth /\ handler'[c] \in {"hello", "control", "bridge"} => authed'[c]

\* It leaves frames on their way that are meant.
LEMMA HandlerGoesOn ==
    ASSUME JoinInv, NEW c \in Conns, GoesOn(c),
           NEW rest \in Seq(Meant(c)'), down' = [down EXCEPT ![c] = rest]
    PROVE  JoinInv'
<1> USE DEF GoesOn
<1>1. c \in 1..conn
  BY DEF JoinInv, Conns
<1>2. down'[c] = rest /\ \A d \in Conns : d # c => down'[d] = down[d]
  BY DEF JoinInv
<1>3. ASSUME NEW d \in Conns PROVE down'[d] \in Seq(Meant(d)')
  <2>1. Meant(d) \subseteq Meant(d)'
    BY MeantGrows
  <2>2. CASE d = c
    BY <1>2, <2>2
  <2>3. CASE d # c
    BY <1>2, <2>1, <2>3, SeqMonotonic DEF JoinInv
  <2>4. QED
    BY <2>2, <2>3
<1>4. JoinedAgrees'
  BY DEF JoinInv, JoinedAgrees
<1>5. down' = [d \in Conns |-> down'[d]]
  BY DEF JoinInv
<1>6. QED
  BY <1>1, <1>2, <1>3, <1>4, <1>5 DEF JoinInv

\* It sends nothing.
LEMMA HandlerSilent ==
    ASSUME JoinInv, NEW c \in Conns, GoesOn(c), UNCHANGED down
    PROVE  JoinInv'
<1>1. Meant(c) \subseteq Meant(c)'
  BY MeantGrows DEF GoesOn
<1>2. down[c] \in Seq(Meant(c)')
  BY <1>1, SeqMonotonic DEF JoinInv
<1>3. down' = [down EXCEPT ![c] = down[c]]
  BY DEF JoinInv
<1>4. QED
  BY <1>2, <1>3, HandlerGoesOn

\* It sends one frame that is meant.
LEMMA HandlerSays ==
    ASSUME JoinInv, NEW c \in Conns, GoesOn(c), NEW f, f \in Meant(c)', Replies(c, f)
    PROVE  JoinInv'
<1>1. Meant(c) \subseteq Meant(c)'
  BY MeantGrows DEF GoesOn
<1>2. down[c] \in Seq(Meant(c)')
  BY <1>1, SeqMonotonic DEF JoinInv
<1>3. Append(down[c], f) \in Seq(Meant(c)')
  BY <1>2, AppendProperties
<1>4. down' = [down EXCEPT ![c] = Append(down[c], f)]
  BY DEF Replies
<1>5. QED
  BY <1>3, <1>4, HandlerGoesOn

\* A step of the server or of the network.
LEMMA ServerJoins ==
    ASSUME JoinInv, NEW c \in Conns,
           ServerNext(c) \/ KeepsAlive(c) \/ Strays(c) \/ ConnectionLost(c)
    PROVE  JoinInv'
<1>1. UNCHANGED <<server, conn, pc, outcome>>
  BY DEF ServerNext, ServerChallenges, ServerChecks, ServerGreeted, ServerGivesUp, ServerSeesEnd,
         ServerPumps, KeepsAlive, Strays, ConnectionLost, fixed, clientVars
<1>2. /\ server.dialect \in Dialects
      /\ handler \in [Conns -> Handlers] /\ authed \in [Conns -> BOOLEAN]
      /\ server.requireAuth /\ handler[c] \in {"hello", "control", "bridge"} => authed[c]
  BY DEF JoinInv, Servers
<1>3. ASSUME NEW h \in Handlers \ {"none"}, handler' = [handler EXCEPT ![c] = h], UNCHANGED authed,
             handler[c] # "none", handler[c] \in {"control", "gone"} => h \in {"control", "gone"},
             h \in {"control", "bridge"} => handler[c] = "hello", h # "hello"
      PROVE  GoesOn(c)
  BY <1>1, <1>2, <1>3 DEF GoesOn
<1>4. ASSUME NEW f \in Frames, Parse(f) \notin {"Hello", "HelloEx"}
      PROVE  f \in Meant(c)'
  BY <1>4 DEF Meant
<1>5. CASE ServerChallenges(c)
  <2>1. /\ handler[c] = "challenge" /\ handler' = [handler EXCEPT ![c] = "auth"]
        /\ Replies(c, WireForm(server.dialect, "Challenge")) /\ UNCHANGED authed
    BY <1>5 DEF ServerChallenges, Becomes
  <2>2. GoesOn(c)
    BY <1>3, <2>1 DEF Handlers
  <2>3. WireForm(server.dialect, "Challenge") \in Meant(c)'
    BY <1>2, <1>4, Parses
  <2>4. QED
    BY <2>1, <2>2, <2>3, HandlerSays
<1>6. CASE ServerChecks(c)
  <2>1. /\ handler[c] = "auth"
        /\ \/ /\ handler' = [handler EXCEPT ![c] = "hello"]
              /\ authed' = [authed EXCEPT ![c] = TRUE] /\ UNCHANGED down
           \/ /\ handler' = [handler EXCEPT ![c] = "gone"] /\ UNCHANGED authed
              /\ UNCHANGED down \/ Replies(c, WireForm(server.dialect, "Error"))
    BY <1>6 DEF ServerChecks, Becomes
  <2>2. CASE /\ handler' = [handler EXCEPT ![c] = "hello"]
             /\ authed' = [authed EXCEPT ![c] = TRUE] /\ UNCHANGED down
    <3>1. GoesOn(c)
      BY <1>1, <1>2, <2>1, <2>2 DEF GoesOn, Handlers
    <3>2. QED
      BY <2>2, <3>1, HandlerSilent
  <2>3. CASE /\ handler' = [handler EXCEPT ![c] = "gone"] /\ UNCHANGED authed
             /\ UNCHANGED down \/ Replies(c, WireForm(server.dialect, "Error"))
    <3>1. GoesOn(c)
      BY <1>3, <2>1, <2>3 DEF Handlers
    <3>2. WireForm(server.dialect, "Error") \in Meant(c)'
      BY <1>2, <1>4, Parses
    <3>3. QED
      BY <2>3, <3>1, <3>2, HandlerSilent, HandlerSays
  <2>4. QED
    BY <2>1, <2>2, <2>3
<1>7. CASE ServerGreeted(c)
  <2>1. /\ handler[c] = "hello" /\ UNCHANGED authed
        /\ \/ /\ server.dialect = "Bore" /\ Replies(c, WireForm("Bore", "Hello"))
              /\ handler' = [handler EXCEPT ![c] = "control"]
           \/ /\ server.dialect = "Spore" /\ Replies(c, WireForm("Spore", "HelloEx"))
              /\ handler' = [handler EXCEPT ![c] = "control"]
           \/ /\ handler' = [handler EXCEPT ![c] = "gone"]
              /\ UNCHANGED down \/ Replies(c, WireForm("Bore", "Error"))
           \/ Replies(c, Payload) /\ handler' = [handler EXCEPT ![c] = "bridge"]
    BY <1>7 DEF ServerGreeted, Becomes
  <2>2. GoesOn(c)
    BY <1>3, <2>1 DEF Handlers
  <2>3. CASE /\ server.dialect = "Bore" /\ Replies(c, WireForm("Bore", "Hello"))
             /\ handler' = [handler EXCEPT ![c] = "control"]
    <3>1. WireForm("Bore", "Hello") \in Meant(c)'
      BY <1>1, <1>2, <2>1, <2>3, Parses DEF Meant
    <3>2. QED
      BY <2>2, <2>3, <3>1, HandlerSays
  <2>4. CASE /\ server.dialect = "Spore" /\ Replies(c, WireForm("Spore", "HelloEx"))
             /\ handler' = [handler EXCEPT ![c] = "control"]
    <3>1. WireForm("Spore", "HelloEx") \in Meant(c)'
      BY <1>1, <1>2, <2>1, <2>4, Parses DEF Meant
    <3>2. QED
      BY <2>2, <2>4, <3>1, HandlerSays
  <2>5. WireForm("Bore", "Error") \in Meant(c)' /\ Payload \in Meant(c)'
    BY <1>4, Parses DEF Dialects
  <2>6. QED
    BY <2>1, <2>2, <2>3, <2>4, <2>5, HandlerSilent, HandlerSays
<1>8. CASE ServerGivesUp(c) \/ ServerSeesEnd(c)
  <2>1. /\ handler[c] # "none" /\ handler' = [handler EXCEPT ![c] = "gone"]
        /\ UNCHANGED <<down, authed>>
    BY <1>8 DEF ServerGivesUp, ServerSeesEnd, Becomes
  <2>2. GoesOn(c)
    BY <1>3, <2>1 DEF Handlers
  <2>3. QED
    BY <2>1, <2>2, HandlerSilent
<1>9. CASE ServerPumps(c) \/ KeepsAlive(c) \/ Strays(c)
  <2>1. /\ handler[c] \in {"auth", "hello", "control"} /\ UNCHANGED <<handler, authed>>
        /\ \E f \in {WireForm(server.dialect, m) : m \in {"Connection", "Heartbeat", "Ack"}}
                     \cup {Junk, Tagged("unknown"), Tagged("Connection")} : Replies(c, f)
    BY <1>9 DEF ServerPumps, KeepsAlive, Strays, serverVars
  <2>2. PICK f \in Frames : Replies(c, f) /\ Parse(f) \notin {"Hello", "HelloEx"}
    BY <1>2, <2>1, Parses
  <2>3. GoesOn(c)
    BY <1>1, <1>2, <2>1 DEF GoesOn
  <2>4. f \in Meant(c)'
    BY <1>4, <2>2
  <2>5. QED
    BY <2>2, <2>3, <2>4, HandlerSays
<1>10. CASE ConnectionLost(c)
  <2>1. PICK kept \in Prefixes(down[c]) :
            /\ down' = [down EXCEPT ![c] = kept] /\ handler[c] # "none"
            /\ handler' = [handler EXCEPT ![c] = "gone"] /\ UNCHANGED authed
    BY <1>10 DEF ConnectionLost, Becomes
  <2>2. GoesOn(c)
    BY <1>3, <2>1 DEF Handlers
  <2>3. down[c] \in Seq(Meant(c)')
    <3>1. Meant(c) \subseteq Meant(c)'
      BY <2>2, MeantGrows DEF GoesOn
    <3>2. QED
      BY <3>1, SeqMonotonic DEF JoinInv
  <2>4. kept \in Seq(Meant(c)')
    <3>1. PICK l \in 0..Len(down[c]) : kept = SubSeq(down[c], 1, l)
      BY DEF Prefixes
    <3>2. Len(down[c]) \in Nat /\ \A i \in 1..Len(down[c]) : down[c][i] \in Meant(c)'
      BY <2>3, LenProperties, ElementOfSeq
    <3>3. 1 \in Int /\ l \in Int /\ \A i \in 1..l : down[c][i] \in Meant(c)'
      BY <3>2
    <3>4. QED
      BY <3>1, <3>3, SubSeqProperties
  <2>5. QED
    BY <2>1, <2>2, <2>4, HandlerGoesOn
<1>11. QED
  BY <1>5, <1>6, <1>7, <1>8, <1>9, <1>10 DEF ServerNext

\* A client is joined only by a frame its handler wrote after accepting it.
LEMMA JoinStep ==
    ASSUME JoinInv, [Next]_vars
    PROVE  JoinInv'
<1>1. CASE UNCHANGED vars
  <2>1. UNCHANGED <<server, conn, pc, outcome, handler, authed, down>>
    BY <1>1 DEF vars, fixed, clientVars, serverVars
  <2>2. \A c \in Conns : Meant(c)' = Meant(c)
    BY <2>1 DEF Meant
  <2>3. QED
    BY <2>1, <2>2 DEF JoinInv, JoinedAgrees
<1>2. QED
  BY <1>1, ClientJoins, ServerJoins DEF Next

\* Whatever goes wrong: a client that says it is joined is on a connection
\* whose handler speaks its dialect, has greeted it and has accepted its
\* answer. JoinedAgrees in every state.
THEOREM JoinedIsTrue == Spec => []JoinedAgrees
<1>1. JoinInv => JoinedAgrees
  BY DEF JoinInv
<1>2. QED
  BY <1>1, JoinInit, JoinStep, PTL DEF Spec

-----------------------------------------------------------------------------
(* A dial that nothing disturbs, and a claim whose challenge comes in time. *)

\* The ends and the frames of the last connection opened.
At(h, u, d) == handler[conn] = h /\ up[conn] = u /\ down[conn] = d
Gone(d) == handler[conn] = "gone" /\ down[conn] = d

TheChallenge == WireForm(server.dialect, "Challenge")
TheRefusal == WireForm(server.dialect, "Error")
TheReply == IF server.dialect = "Bore" THEN "Hello" ELSE "HelloEx"
Welcome == server.requireAuth => secret = "right"

\* The client has not said anything yet.
Unspoken ==
    \/ server.requireAuth /\ (At("challenge", <<>>, <<>>) \/ At("auth", <<>>, <<TheChallenge>>))
    \/ ~server.requireAuth /\ At("hello", <<>>, <<>>)

\* The client has answered the challenge.
Answered ==
    \/ server.requireAuth /\ secret # "none" /\ At("auth", <<ChallengeAnswer(secret)>>, <<>>)
    \/ server.requireAuth /\ secret = "right" /\ At("hello", <<>>, <<>>)

\* The greeting of a dial is on its way, or answered.
Greeted ==
    \/ /\ server.requireAuth /\ secret = "none" /\ lateAnswered
       /\ \/ At("challenge", <<HelloKind>>, <<>>)
          \/ At("auth", <<HelloKind>>, <<TheChallenge>>)
          \/ Gone(<<TheChallenge>>)
    \/ server.requireAuth /\ secret # "none" /\ At("auth", <<ChallengeAnswer(secret), HelloKind>>, <<>>)
    \/ server.requireAuth /\ secret = "wrong" /\ Gone(<<TheRefusal>>)
    \/ Welcome /\ At("hello", <<HelloKind>>, <<>>)
    \/ /\ Compatible /\ handler[conn] = "control"
       /\ down[conn] # <<>> /\ Parse(Head(down[conn])) = TheReply
    \/ Welcome /\ Gone(<<>>) /\ server.dialect = "Spore" /\ (conn = 2 => server.dropOnHelloEx)

\* The stages of a dial. The first attempt leads to another one only with a
\* server that takes the client and does not know its Hello.
DialStages ==
    /\ pc = "window" => secret # "none" /\ Unspoken
    /\ pc = "greeting" => \/ secret = "none" /\ Unspoken
                          \/ ~server.requireAuth /\ Unspoken
                          \/ Answered
                          \/ server.requireAuth /\ secret = "wrong" /\ Gone(<<TheRefusal>>)
    /\ pc = "reply" => Greeted
    /\ conn = 2 \/ (conn = 1 /\ pc = "connecting") => server.dialect = "Spore" /\ Welcome

\* The stages of a claim, which ends at the first connection.
ClaimStages ==
    /\ pc = "window" => \/ Unspoken
                        \/ Gone(<<>>)
                        \/ server.requireAuth /\ Gone(<<TheChallenge>>)
    /\ pc = "greeting" => \/ ~server.requireAuth /\ Unspoken
                          \/ Answered
                          \/ Gone(<<>>)
    /\ outcome = "raw" => \/ server.requireAuth /\ At("auth", <<ChallengeAnswer(secret), "Accept">>, <<>>)
                          \/ At("hello", <<"Accept">>, <<>>)
                          \/ handler[conn] \in {"bridge", "gone"} /\ down[conn] \in Seq({Payload})

\* A claim whose challenge comes in time.
InTime == job = "claim" /\ Welcome /\ mishaps \cap {"late", "stray"} = {}

StageInv ==
    /\ up = [c \in Conns |-> up[c]] /\ \A c \in Conns : c > conn => up[c] = <<>>
    /\ job \in {"dial", "claim"} /\ secret \in {"none", "right", "wrong"}
    /\ outcome \in {"none", "raw"} \cup Joined \cup Errors
    /\ pc # "done" => outcome = "none"
    /\ outcome = "raw" => pc = "done"
    /\ job = "dial" => outcome # "raw"
    /\ job = "dial" /\ mishaps = {} => DialStages
    /\ job = "claim" => conn \in {0, 1} /\ (pc = "connecting" => conn = 0) /\ pc # "reply"
    /\ InTime => ClaimStages
    /\ SoundDial

\* Short queues, by their frames.
LEMMA Queues ==
    /\ \A a : <<a>> # <<>> /\ Head(<<a>>) = a /\ Tail(<<a>>) = <<>> /\ Append(<<>>, a) = <<a>>
    /\ \A a, b : <<a, b>> # <<>> /\ Head(<<a, b>>) = a /\ Tail(<<a, b>>) = <<b>> /\ Append(<<a>>, b) = <<a, b>>
<1>1. ASSUME NEW a
      PROVE  <<a>> # <<>> /\ Head(<<a>>) = a /\ Tail(<<a>>) = <<>> /\ Append(<<>>, a) = <<a>>
  OBVIOUS
<1>2. ASSUME NEW a, NEW b
      PROVE  <<a, b>> # <<>> /\ Head(<<a, b>>) = a /\ Tail(<<a, b>>) = <<b>> /\ Append(<<a>>, b) = <<a, b>>
  <2>1. <<a, b>> # <<>> /\ Head(<<a, b>>) = a
    OBVIOUS
  <2>2. Tail(<<a, b>>) = <<b>>
    OBVIOUS
  <2>3. Append(<<a>>, b) = <<a, b>>
    <3>1. <<a>> \in Seq({a, b}) /\ Len(<<a>>) = 1 /\ <<a>>[1] = a
      OBVIOUS
    <3>2. PICK s \in Seq({a, b}) : s = <<a>> /\ Len(s) = 1 /\ s[1] = a
      BY <3>1
    <3>3. PICK t \in Seq({a, b}) : t = Append(s, b)
      BY AppendProperties
    <3>4. Len(t) = 2 /\ t[1] = a /\ t[2] = b
      BY <3>2, <3>3, AppendProperties
    <3>5. PICK v \in Seq({a, b}) : v = <<a, b>> /\ Len(v) = 2 /\ v[1] = a /\ v[2] = b
      <4>1. <<a, b>> \in Seq({a, b}) /\ Len(<<a, b>>) = 2 /\ <<a, b>>[1] = a /\ <<a, b>>[2] = b
        OBVIOUS
      <4>2. QED
        BY <4>1
    <3>6. \A i \in 1..Len(t) : t[i] = v[i]
      BY <3>4, <3>5
    <3>7. t = v
      BY <3>4, <3>5, <3>6, SeqEqual
    <3>8. QED
      BY <3>2, <3>3, <3>5, <3>7
  <2>4. QED
    BY <2>1, <2>2, <2>3
<1>3. QED
  BY <1>1, <1>2

\* The words of the frames the stages name.
LEMMA StageWords ==
    ASSUME JoinInv, StageInv
    PROVE  /\ server.dialect \in Dialects /\ server.requireAuth \in BOOLEAN /\ server.dropOnHelloEx \in BOOLEAN
           /\ Parse(TheChallenge) = "Challenge" /\ Parse(TheRefusal) = "Error"
           /\ Parse(WireForm("Bore", "Hello")) = "Hello" /\ Parse(WireForm("Spore", "HelloEx")) = "HelloEx"
           /\ ChallengeAnswer(secret) \in {"AuthenticateRight", "AuthenticateWrong"}
           /\ ChallengeAnswer(secret) = "AuthenticateRight" <=> secret = "right"
           /\ HelloKind \in {"Accept", "Hello", "HelloEx"}
<1>1. server.dialect \in Dialects /\ server.requireAuth \in BOOLEAN /\ server.dropOnHelloEx \in BOOLEAN
  BY DEF JoinInv, Servers
<1>2. Parse(TheChallenge) = "Challenge" /\ Parse(TheRefusal) = "Error"
  BY <1>1 DEF TheChallenge, TheRefusal, WireForm, Parse, Bare, Tagged, Nonce, ServerMessages, Dialects
<1>3. QED
  BY <1>1, <1>2, Parses DEF ChallengeAnswer, HelloKind

\* Where the client stands still, its stages are all there is to show.
LEMMA StageFrame ==
    ASSUME StageInv, UNCHANGED <<job, secret, server, conn, pc, lateAnswered, outcome>>,
           mishaps \subseteq mishaps',
           up' = [c \in Conns |-> up'[c]], \A c \in Conns : c > conn => up'[c] = up[c],
           job = "dial" /\ mishaps' = {} /\ DialStages => DialStages',
           InTime' /\ ClaimStages => ClaimStages'
    PROVE  StageInv'
<1>1. mishaps' = {} => mishaps = {}
  OBVIOUS
<1>2. InTime' => InTime
  BY DEF InTime, Welcome
<1>3. SoundDial'
  BY <1>1 DEF StageInv, SoundDial, Compatible
<1>4. QED
  BY <1>1, <1>2, <1>3 DEF StageInv

\* What happens on another connection does not disturb the client.
LEMMA ElsewhereStages ==
    ASSUME StageInv, UNCHANGED <<job, secret, server, conn, pc, lateAnswered, outcome>>,
           mishaps \subseteq mishaps',
           up' = [c \in Conns |-> up'[c]], \A c \in Conns : c > conn => up'[c] = up[c],
           handler'[conn] = handler[conn], up'[conn] = up[conn], down'[conn] = down[conn]
    PROVE  StageInv'
<1>1. /\ \A h, u, d : At(h, u, d)' <=> At(h, u, d)
      /\ \A d : Gone(d)' <=> Gone(d)
      /\ TheChallenge' = TheChallenge /\ TheRefusal' = TheRefusal /\ TheReply' = TheReply
      /\ Welcome' <=> Welcome /\ HelloKind' = HelloKind /\ (Compatible' <=> Compatible)
  BY DEF At, Gone, TheChallenge, TheRefusal, TheReply, Welcome, HelloKind, Compatible
<1>2. DialStages => DialStages'
  BY DEF DialStages, Unspoken, Answered, Greeted, At, Gone, TheChallenge, TheRefusal, TheReply, Welcome,
         HelloKind, Compatible
<1>3. ClaimStages => ClaimStages'
  BY DEF ClaimStages, Unspoken, Answered, At, Gone, TheChallenge, Welcome
<1>4. QED
  BY <1>2, <1>3, StageFrame

\* The handler of the last connection moves on, in terms of its queues.
LEMMA HandlerMoves ==
    ASSUME JoinInv, StageInv, conn \in Conns
    PROVE  /\ ServerChallenges(conn) =>
                  /\ handler[conn] = "challenge"
                  /\ \A u : At("challenge", u, <<>>) => At("auth", u, <<TheChallenge>>)'
           /\ ServerChecks(conn) =>
                  /\ handler[conn] = "auth" /\ up[conn] # <<>>
                  /\ \A u, d : At("auth", u, d) =>
                        IF Head(u) = "AuthenticateRight" THEN At("hello", Tail(u), d)'
                        ELSE IF Head(u) = "AuthenticateWrong" THEN Gone(Append(d, TheRefusal))'
                        ELSE Gone(d)'
           /\ ServerGreeted(conn) =>
                  /\ handler[conn] = "hello" /\ up[conn] # <<>>
                  /\ \A u, d : At("hello", u, d) =>
                        /\ Head(u) = "Hello" => IF server.dialect = "Bore" THEN At("control", Tail(u), Append(d, WireForm("Bore", "Hello")))'
                                                ELSE Gone(d)'
                        /\ Head(u) = "HelloEx" /\ server.dialect = "Spore" =>
                               IF server.dropOnHelloEx THEN Gone(d)'
                               ELSE At("control", Tail(u), Append(d, WireForm("Spore", "HelloEx")))'
                        /\ Head(u) = "Accept" => At("bridge", Tail(u), Append(d, Payload))'
           /\ ServerGivesUp(conn) =>
                  /\ handler[conn] \in {"auth", "hello"}
                  /\ \A h, u, d : At(h, u, d) => Gone(d)'
                  /\ mishaps' = {} => pc = "connecting" \/ outcome \in Errors
           /\ ServerSeesEnd(conn) =>
                  /\ handler[conn] \in {"control", "bridge"} /\ handler'[conn] = "gone" /\ UNCHANGED down
                  /\ pc = "connecting" \/ outcome \in Errors
           /\ ServerPumps(conn) =>
                  /\ handler[conn] = "control" /\ handler' = handler
                  /\ \E f \in Frames : down' = [down EXCEPT ![conn] = Append(@, f)]
<1>0. /\ handler \in [Conns -> Handlers] /\ down = [c \in Conns |-> down[c]] /\ up = [c \in Conns |-> up[c]]
      /\ server.dialect \in Dialects /\ server.dropOnHelloEx \in BOOLEAN
  BY StageWords DEF JoinInv, StageInv
<1>1. ASSUME ServerChallenges(conn)
      PROVE  /\ handler[conn] = "challenge"
             /\ \A u : At("challenge", u, <<>>) => At("auth", u, <<TheChallenge>>)'
  BY <1>0, <1>1, Queues DEF ServerChallenges, Replies, Becomes, At, TheChallenge, fixed, clientVars
<1>2. ASSUME ServerChecks(conn)
      PROVE  /\ handler[conn] = "auth" /\ up[conn] # <<>>
             /\ \A u, d : At("auth", u, d) =>
                    IF Head(u) = "AuthenticateRight" THEN At("hello", Tail(u), d)'
                    ELSE IF Head(u) = "AuthenticateWrong" THEN Gone(Append(d, TheRefusal))'
                    ELSE Gone(d)'
  BY <1>0, <1>2 DEF ServerChecks, Takes, Replies, Becomes, At, Gone, TheRefusal, fixed, clientVars
<1>3. ASSUME ServerGreeted(conn)
      PROVE  /\ handler[conn] = "hello" /\ up[conn] # <<>>
             /\ \A u, d : At("hello", u, d) =>
                    /\ Head(u) = "Hello" => IF server.dialect = "Bore" THEN At("control", Tail(u), Append(d, WireForm("Bore", "Hello")))'
                                            ELSE Gone(d)'
                    /\ Head(u) = "HelloEx" /\ server.dialect = "Spore" =>
                           IF server.dropOnHelloEx THEN Gone(d)'
                           ELSE At("control", Tail(u), Append(d, WireForm("Spore", "HelloEx")))'
                    /\ Head(u) = "Accept" => At("bridge", Tail(u), Append(d, Payload))'
  BY <1>0, <1>3 DEF ServerGreeted, Takes, Replies, Becomes, At, Gone, fixed, clientVars, Dialects
<1>4. ASSUME ServerGivesUp(conn)
      PROVE  /\ handler[conn] \in {"auth", "hello"}
             /\ \A h, u, d : At(h, u, d) => Gone(d)'
             /\ mishaps' = {} => pc = "connecting" \/ outcome \in Errors
  BY <1>0, <1>4 DEF ServerGivesUp, HeldByClient, Becomes, At, Gone, fixed, clientVars
<1>5. ASSUME ServerSeesEnd(conn)
      PROVE  /\ handler[conn] \in {"control", "bridge"} /\ handler'[conn] = "gone" /\ UNCHANGED down
             /\ pc = "connecting" \/ outcome \in Errors
  BY <1>0, <1>5 DEF ServerSeesEnd, HeldByClient, Becomes
<1>6. ASSUME ServerPumps(conn)
      PROVE  /\ handler[conn] = "control" /\ handler' = handler
             /\ \E f \in Frames : down' = [down EXCEPT ![conn] = Append(@, f)]
  BY <1>0, <1>6, Parses DEF ServerPumps, Replies, serverVars, Dialects
<1>7. QED
  BY <1>1, <1>2, <1>3, <1>4, <1>5, <1>6

\* A step of the server leaves the client alone.
LEMMA ServerLeaves ==
    ASSUME JoinInv, StageInv, NEW c \in Conns,
           ServerNext(c) \/ KeepsAlive(c) \/ Strays(c) \/ ConnectionLost(c)
    PROVE  /\ UNCHANGED <<job, secret, server, conn, pc, lateAnswered, outcome>>
           /\ mishaps \subseteq mishaps'
           /\ up' = [d \in Conns |-> up'[d]] /\ c \in 1..conn /\ conn \in Conns
           /\ \A d \in Conns : d # c => up'[d] = up[d] /\ down'[d] = down[d] /\ handler'[d] = handler[d]
<1>1. UNCHANGED <<job, secret, server, conn, pc, lateAnswered, outcome>> /\ mishaps \subseteq mishaps'
  BY DEF ServerNext, ServerChallenges, ServerChecks, ServerGreeted, ServerGivesUp, ServerSeesEnd,
         ServerPumps, KeepsAlive, Strays, ConnectionLost, fixed, clientVars
<1>2. handler[c] # "none" /\ \E h : handler' = [handler EXCEPT ![c] = h]
  BY DEF ServerNext, ServerChallenges, ServerChecks, ServerGreeted, ServerGivesUp, ServerSeesEnd,
         ServerPumps, KeepsAlive, Strays, ConnectionLost, Becomes, serverVars, JoinInv
<1>3. \E d : down' = [down EXCEPT ![c] = d]
  <2>1. UNCHANGED down \/ (\E f : Replies(c, f)) \/ (\E kept : down' = [down EXCEPT ![c] = kept])
    BY DEF ServerNext, ServerChallenges, ServerChecks, ServerGreeted, ServerGivesUp, ServerSeesEnd,
           ServerPumps, KeepsAlive, Strays, ConnectionLost
  <2>2. QED
    BY <2>1 DEF Replies, JoinInv
<1>4. \E u : up' = [up EXCEPT ![c] = u]
  <2>1. UNCHANGED up \/ \E m : Takes(c, m)
    BY DEF ServerNext, ServerChallenges, ServerChecks, ServerGreeted, ServerGivesUp, ServerSeesEnd,
           ServerPumps, KeepsAlive, Strays, ConnectionLost
  <2>2. QED
    BY <2>1 DEF Takes, StageInv
<1>5. c \in 1..conn /\ conn \in Conns
  BY <1>2 DEF JoinInv, Conns
<1>6. up' = [d \in Conns |-> up'[d]]
  BY <1>4 DEF StageInv
<1>7. \A d \in Conns : d # c => up'[d] = up[d] /\ down'[d] = down[d] /\ handler'[d] = handler[d]
  BY <1>2, <1>3, <1>4 DEF JoinInv, StageInv
<1>8. QED
  BY <1>1, <1>5, <1>6, <1>7

\* A dial that nothing disturbs, its server doing what it does.
LEMMA ServerDialStages ==
    ASSUME JoinInv, StageInv, conn \in Conns, job = "dial", mishaps' = {}, mishaps = {}, DialStages,
           UNCHANGED <<job, secret, server, conn, pc, lateAnswered, outcome>>,
           ServerNext(conn)
    PROVE  DialStages'
<1>1. /\ server.dialect \in {"Bore", "Spore"} /\ server.requireAuth \in BOOLEAN
      /\ Parse(WireForm("Bore", "Hello")) = "Hello" /\ Parse(WireForm("Spore", "HelloEx")) = "HelloEx"
      /\ ChallengeAnswer(secret) \in {"AuthenticateRight", "AuthenticateWrong"}
      /\ ChallengeAnswer(secret) = "AuthenticateRight" <=> secret = "right"
  BY StageWords DEF Dialects
<1>2. /\ TheChallenge' = TheChallenge /\ TheRefusal' = TheRefusal /\ TheReply' = TheReply
      /\ Welcome' = Welcome /\ HelloKind' = HelloKind /\ Compatible' = Compatible
      /\ ChallengeAnswer(secret)' = ChallengeAnswer(secret)
  BY DEF TheChallenge, TheRefusal, TheReply, Welcome, HelloKind, Compatible
<1>3. conn = 2 \/ (conn = 1 /\ pc = "connecting") => server.dialect = "Spore" /\ Welcome
  BY DEF DialStages
<1>k. HelloKind = IF conn = 1 THEN "Hello" ELSE "HelloEx"
  BY DEF HelloKind
<1>p. pc \in {"window", "greeting", "reply"} => outcome = "none"
  BY DEF StageInv
<1>4. CASE ServerChallenges(conn)
  <2>1. /\ handler[conn] = "challenge"
        /\ \A u : At("challenge", u, <<>>) => At("auth", u, <<TheChallenge>>)'
    BY <1>4, HandlerMoves
  <2>2. Unspoken => server.requireAuth /\ At("challenge", <<>>, <<>>)
    BY <2>1 DEF Unspoken, At
  <2>3. Unspoken => Unspoken'
    BY <1>2, <2>1, <2>2 DEF Unspoken
  <2>4. ~Answered /\ \A d : ~Gone(d)
    BY <2>1 DEF Answered, At, Gone
  <2>5. Greeted => server.requireAuth /\ secret = "none" /\ lateAnswered /\ At("challenge", <<HelloKind>>, <<>>)
    BY <2>1 DEF Greeted, At, Gone
  <2>6. Greeted => Greeted'
    BY <1>2, <2>1, <2>5 DEF Greeted
  <2>7. QED
    BY <1>2, <1>3, <2>3, <2>4, <2>6 DEF DialStages
<1>5. CASE ServerChecks(conn)
  <2>1. /\ handler[conn] = "auth" /\ up[conn] # <<>>
        /\ \A u, d : At("auth", u, d) =>
              IF Head(u) = "AuthenticateRight" THEN At("hello", Tail(u), d)'
              ELSE IF Head(u) = "AuthenticateWrong" THEN Gone(Append(d, TheRefusal))'
              ELSE Gone(d)'
    BY <1>5, HandlerMoves
  <2>2. ~Unspoken /\ \A d : ~Gone(d)
    BY <2>1 DEF Unspoken, At, Gone
  <2>3. Answered => /\ server.requireAuth /\ secret # "none"
                    /\ \/ secret = "right" /\ At("hello", <<>>, <<>>)'
                       \/ secret = "wrong" /\ Gone(<<TheRefusal>>)'
    <3>1. SUFFICES ASSUME Answered
                   PROVE  /\ server.requireAuth /\ secret # "none"
                          /\ \/ secret = "right" /\ At("hello", <<>>, <<>>)'
                             \/ secret = "wrong" /\ Gone(<<TheRefusal>>)'
      OBVIOUS
    <3>2. server.requireAuth /\ secret # "none" /\ At("auth", <<ChallengeAnswer(secret)>>, <<>>)
      BY <2>1, <3>1 DEF Answered, At
    <3>3. IF ChallengeAnswer(secret) = "AuthenticateRight" THEN At("hello", <<>>, <<>>)'
          ELSE Gone(<<TheRefusal>>)'
      BY <1>1, <2>1, <3>2, Queues
    <3>4. QED
      BY <1>1, <3>2, <3>3 DEF StageInv
  <2>4. Greeted => \/ /\ server.requireAuth /\ secret = "none" /\ lateAnswered
                      /\ Gone(<<TheChallenge>>)'
                   \/ /\ server.requireAuth /\ secret = "right" /\ At("hello", <<HelloKind>>, <<>>)'
                   \/ /\ server.requireAuth /\ secret = "wrong" /\ Gone(<<TheRefusal>>)'
    <3>1. SUFFICES ASSUME Greeted
                   PROVE  \/ /\ server.requireAuth /\ secret = "none" /\ lateAnswered
                             /\ Gone(<<TheChallenge>>)'
                          \/ /\ server.requireAuth /\ secret = "right" /\ At("hello", <<HelloKind>>, <<>>)'
                          \/ /\ server.requireAuth /\ secret = "wrong" /\ Gone(<<TheRefusal>>)'
      OBVIOUS
    <3>2. CASE /\ server.requireAuth /\ secret = "none" /\ lateAnswered
               /\ At("auth", <<HelloKind>>, <<TheChallenge>>)
      <4>1. PICK k, f : k = HelloKind /\ f = TheChallenge
        OBVIOUS
      <4>2. At("auth", <<k>>, <<f>>) /\ Head(<<k>>) = k /\ k \notin {"AuthenticateRight", "AuthenticateWrong"}
        BY <1>k, <3>2, <4>1, Queues
      <4>3. Gone(<<f>>)'
        BY <2>1, <4>2
      <4>4. QED
        BY <1>2, <3>2, <4>1, <4>3
    <3>3. CASE server.requireAuth /\ secret # "none" /\ At("auth", <<ChallengeAnswer(secret), HelloKind>>, <<>>)
      <4>1. IF ChallengeAnswer(secret) = "AuthenticateRight" THEN At("hello", <<HelloKind>>, <<>>)'
            ELSE Gone(<<TheRefusal>>)'
        <5>1. PICK a, k : a = ChallengeAnswer(secret) /\ k = HelloKind
          OBVIOUS
        <5>2. At("auth", <<a, k>>, <<>>) /\ Head(<<a, k>>) = a /\ Tail(<<a, k>>) = <<k>>
              /\ Append(<<>>, TheRefusal) = <<TheRefusal>>
          BY <3>3, <5>1, Queues
        <5>3. IF a = "AuthenticateRight" THEN At("hello", <<k>>, <<>>)' ELSE Gone(Append(<<>>, TheRefusal))'
          BY <1>1, <2>1, <5>1, <5>2
        <5>4. QED
          BY <1>2, <5>1, <5>2, <5>3, Queues
      <4>2. QED
        BY <1>1, <3>3, <4>1 DEF StageInv
    <3>4. QED
      BY <2>1, <3>1, <3>2, <3>3 DEF Greeted, At, Gone
  <2>5. Greeted => Greeted'
    BY <1>2, <2>4 DEF Greeted, Welcome
  <2>6. Answered => Answered' \/ (server.requireAuth /\ secret = "wrong" /\ Gone(<<TheRefusal>>))'
    BY <1>2, <2>3 DEF Answered
  <2>w. pc # "window"
    BY <2>2 DEF DialStages
  <2>7. QED
    BY <1>2, <1>3, <2>2, <2>5, <2>6, <2>w DEF DialStages
<1>6. CASE ServerGreeted(conn)
  <2>1. /\ handler[conn] = "hello" /\ up[conn] # <<>>
        /\ \A u, d : At("hello", u, d) =>
              /\ Head(u) = "Hello" => IF server.dialect = "Bore" THEN At("control", Tail(u), Append(d, WireForm("Bore", "Hello")))'
                                      ELSE Gone(d)'
              /\ Head(u) = "HelloEx" /\ server.dialect = "Spore" =>
                     IF server.dropOnHelloEx THEN Gone(d)'
                     ELSE At("control", Tail(u), Append(d, WireForm("Spore", "HelloEx")))'
    BY <1>6, HandlerMoves
  <2>2. ~Unspoken /\ ~Answered /\ \A d : ~Gone(d)
    BY <2>1 DEF Unspoken, Answered, At, Gone
  <2>3. Greeted => Greeted'
    <3>1. SUFFICES ASSUME Greeted PROVE Greeted'
      OBVIOUS
    <3>2. Welcome /\ At("hello", <<HelloKind>>, <<>>)
      BY <2>1, <3>1 DEF Greeted, At, Gone
    <3>3. CASE HelloKind = "Hello" /\ server.dialect = "Bore"
      <4>1. At("control", <<>>, <<WireForm("Bore", "Hello")>>)'
        <5>1. At("hello", <<"Hello">>, <<>>)
          BY <3>2, <3>3
        <5>2. At("control", Tail(<<"Hello">>), Append(<<>>, WireForm("Bore", "Hello")))'
          BY <2>1, <3>3, <5>1, Queues
        <5>3. Tail(<<"Hello">>) = <<>> /\ Append(<<>>, WireForm("Bore", "Hello")) = <<WireForm("Bore", "Hello")>>
          BY Queues
        <5>4. QED
          BY <5>2, <5>3
      <4>2. Compatible
        BY <3>2, <3>3 DEF Compatible, Welcome
      <4>3. /\ handler'[conn'] = "control" /\ down'[conn'] = <<WireForm("Bore", "Hello")>>
            /\ TheReply' = "Hello"
        BY <4>1, <3>3, <1>2 DEF At, TheReply
      <4>4. down'[conn'] # <<>> /\ Parse(Head(down'[conn'])) = TheReply'
        BY <1>1, <4>3, Queues
      <4>5. QED
        BY <1>2, <4>2, <4>3, <4>4 DEF Greeted
    <3>4. CASE HelloKind = "Hello" /\ server.dialect = "Spore"
      <4>1. Gone(<<>>)' /\ conn # 2
        BY <1>k, <2>1, <3>2, <3>4, Queues
      <4>2. QED
        BY <1>2, <3>2, <3>4, <4>1 DEF Greeted
    <3>5. CASE HelloKind = "HelloEx" /\ server.dialect = "Spore" /\ server.dropOnHelloEx
      <4>1. Gone(<<>>)'
        BY <2>1, <3>2, <3>5, Queues
      <4>2. QED
        BY <1>2, <3>2, <3>5, <4>1 DEF Greeted
    <3>6. CASE HelloKind = "HelloEx" /\ server.dialect = "Spore" /\ ~server.dropOnHelloEx
      <4>1. At("control", <<>>, <<WireForm("Spore", "HelloEx")>>)'
        <5>1. At("hello", <<"HelloEx">>, <<>>)
          BY <3>2, <3>6
        <5>2. At("control", Tail(<<"HelloEx">>), Append(<<>>, WireForm("Spore", "HelloEx")))'
          BY <2>1, <3>6, <5>1, Queues
        <5>3. Tail(<<"HelloEx">>) = <<>> /\ Append(<<>>, WireForm("Spore", "HelloEx")) = <<WireForm("Spore", "HelloEx")>>
          BY Queues
        <5>4. QED
          BY <5>2, <5>3
      <4>2. Compatible
        BY <3>2, <3>6 DEF Compatible, Welcome
      <4>3. /\ handler'[conn'] = "control" /\ down'[conn'] = <<WireForm("Spore", "HelloEx")>>
            /\ TheReply' = "HelloEx"
        BY <4>1, <3>6, <1>2 DEF At, TheReply
      <4>4. down'[conn'] # <<>> /\ Parse(Head(down'[conn'])) = TheReply'
        BY <1>1, <4>3, Queues
      <4>5. QED
        BY <1>2, <4>2, <4>3, <4>4 DEF Greeted
    <3>7. HelloKind = "HelloEx" => server.dialect = "Spore"
      BY <1>3, <1>k DEF Conns
    <3>8. QED
      BY <1>1, <1>k, <3>3, <3>4, <3>5, <3>6, <3>7
  <2>4. pc # "window" /\ (pc = "greeting" => FALSE)
    BY <2>2 DEF DialStages
  <2>5. QED
    BY <1>2, <1>3, <2>3, <2>4 DEF DialStages
<1>7. CASE ServerGivesUp(conn) \/ ServerSeesEnd(conn)
  <2>1. pc = "connecting" \/ outcome \in Errors
    BY <1>7, HandlerMoves
  <2>2. pc \notin {"window", "greeting", "reply"}
    BY <1>p, <2>1 DEF Errors
  <2>3. QED
    BY <1>2, <1>3, <2>2 DEF DialStages
<1>8. CASE ServerPumps(conn)
  <2>1. /\ handler[conn] = "control" /\ handler' = handler
        /\ \E f \in Frames : down' = [down EXCEPT ![conn] = Append(@, f)]
    BY <1>8, HandlerMoves
  <2>2. ~Unspoken /\ ~Answered /\ \A d : ~Gone(d)
    BY <2>1 DEF Unspoken, Answered, At, Gone
  <2>3. Greeted => Compatible /\ down[conn] # <<>> /\ Parse(Head(down[conn])) = TheReply
    BY <2>1 DEF Greeted, At, Gone
  <2>4. down[conn] # <<>> => down'[conn] # <<>> /\ Head(down'[conn]) = Head(down[conn])
    <3>1. PICK f \in Frames : down'[conn] = Append(down[conn], f)
      BY <2>1 DEF JoinInv
    <3>2. down[conn] \in Seq(Frames)
      <4>1. Meant(conn) \subseteq Frames
        BY DEF Meant
      <4>2. QED
        BY <4>1, SeqMonotonic DEF JoinInv
    <3>3. QED
      BY <3>1, <3>2, AppendProperties, HeadTailAppend
  <2>5. Greeted => Greeted'
    BY <1>2, <2>1, <2>3, <2>4 DEF Greeted
  <2>6. pc # "window" /\ pc # "greeting"
    BY <2>2 DEF DialStages
  <2>7. QED
    BY <1>2, <1>3, <2>5, <2>6 DEF DialStages
<1>9. QED
  BY <1>4, <1>5, <1>6, <1>7, <1>8 DEF ServerNext

\* A claim whose challenge came in time, its server doing what it does.
LEMMA ServerClaimStages ==
    ASSUME JoinInv, StageInv, conn \in Conns, job = "claim", Welcome, ClaimStages,
           UNCHANGED <<job, secret, server, conn, pc, lateAnswered, outcome>>,
           ServerNext(conn) \/ ConnectionLost(conn)
    PROVE  ClaimStages'
<1>1. /\ server.dialect \in {"Bore", "Spore"} /\ server.requireAuth \in BOOLEAN
      /\ ChallengeAnswer(secret) = "AuthenticateRight" <=> secret = "right"
  BY StageWords DEF Dialects
<1>2. /\ TheChallenge' = TheChallenge /\ ChallengeAnswer(secret)' = ChallengeAnswer(secret)
  BY DEF TheChallenge
<1>w. server.requireAuth => secret = "right"
  BY DEF Welcome
<1>q. pc \in {"window", "greeting"} => outcome = "none"
  BY DEF StageInv
<1>e. <<>> \in Seq({Payload})
  OBVIOUS
<1> DEFINE Raw1 == server.requireAuth /\ At("auth", <<ChallengeAnswer(secret), "Accept">>, <<>>)
           Raw2 == At("hello", <<"Accept">>, <<>>)
           Raw3 == handler[conn] \in {"bridge", "gone"} /\ down[conn] \in Seq({Payload})
<1>3. CASE ServerChallenges(conn)
  <2>1. /\ handler[conn] = "challenge"
        /\ \A u : At("challenge", u, <<>>) => At("auth", u, <<TheChallenge>>)'
    BY <1>3, HandlerMoves
  <2>2. Unspoken => Unspoken'
    BY <1>2, <2>1 DEF Unspoken, At
  <2>3. ~Answered /\ (\A d : ~Gone(d)) /\ ~Raw1 /\ ~Raw2 /\ ~Raw3
    BY <2>1 DEF Answered, At, Gone
  <2>4. QED
    BY <1>2, <2>2, <2>3 DEF ClaimStages
<1>4. CASE ServerChecks(conn)
  <2>1. /\ handler[conn] = "auth" /\ up[conn] # <<>>
        /\ \A u, d : At("auth", u, d) /\ Head(u) = "AuthenticateRight" => At("hello", Tail(u), d)'
    BY <1>4, HandlerMoves
  <2>2. ~Unspoken /\ (\A d : ~Gone(d)) /\ ~Raw2 /\ ~Raw3
    BY <2>1 DEF Unspoken, At, Gone
  <2>3. Answered => Answered'
    <3>1. SUFFICES ASSUME Answered PROVE Answered'
      OBVIOUS
    <3>2. server.requireAuth /\ At("auth", <<ChallengeAnswer(secret)>>, <<>>)
      BY <2>1, <3>1 DEF Answered, At
    <3>3. At("auth", <<"AuthenticateRight">>, <<>>)
      BY <1>1, <1>w, <3>2
    <3>4. At("hello", <<>>, <<>>)'
      <4>1. Head(<<"AuthenticateRight">>) = "AuthenticateRight" /\ Tail(<<"AuthenticateRight">>) = <<>>
        BY Queues
      <4>2. QED
        BY <2>1, <3>3, <4>1
    <3>5. QED
      BY <1>w, <3>2, <3>4 DEF Answered
  <2>4. Raw1 => Raw2'
    <3>1. SUFFICES ASSUME Raw1 PROVE Raw2'
      OBVIOUS
    <3>2. At("auth", <<"AuthenticateRight", "Accept">>, <<>>)
      BY <1>1, <1>w, <3>1
    <3>3. Head(<<"AuthenticateRight", "Accept">>) = "AuthenticateRight"
          /\ Tail(<<"AuthenticateRight", "Accept">>) = <<"Accept">>
      BY Queues
    <3>4. QED
      BY <2>1, <3>2, <3>3
  <2>5. QED
    BY <1>2, <2>2, <2>3, <2>4 DEF ClaimStages
<1>5. CASE ServerGreeted(conn)
  <2>1. /\ handler[conn] = "hello" /\ up[conn] # <<>>
        /\ \A u, d : At("hello", u, d) /\ Head(u) = "Accept" => At("bridge", Tail(u), Append(d, Payload))'
    BY <1>5, HandlerMoves
  <2>2. ~Unspoken /\ ~Answered /\ (\A d : ~Gone(d)) /\ ~Raw1 /\ ~Raw3
    BY <2>1 DEF Unspoken, Answered, At, Gone
  <2>3. Raw2 => Raw3'
    <3>1. SUFFICES ASSUME Raw2 PROVE Raw3'
      OBVIOUS
    <3>2. Head(<<"Accept">>) = "Accept" /\ Tail(<<"Accept">>) = <<>> /\ Append(<<>>, Payload) = <<Payload>>
      BY Queues
    <3>3. At("bridge", <<>>, <<Payload>>)'
      BY <2>1, <3>1, <3>2
    <3>4. <<Payload>> \in Seq({Payload})
      OBVIOUS
    <3>5. QED
      BY <3>3, <3>4 DEF At
  <2>4. QED
    BY <1>2, <2>2, <2>3 DEF ClaimStages
<1>6. CASE ServerGivesUp(conn)
  <2>1. /\ handler[conn] \in {"auth", "hello"}
        /\ \A h, u, d : At(h, u, d) => Gone(d)'
    BY <1>6, HandlerMoves
  <2>2. Unspoken => Gone(<<>>)' \/ (server.requireAuth /\ Gone(<<TheChallenge>>)')
    BY <1>2, <2>1 DEF Unspoken
  <2>3. (Answered => Gone(<<>>)') /\ (~server.requireAuth /\ Unspoken => Gone(<<>>)')
    BY <2>1 DEF Answered, Unspoken
  <2>4. (\A d : ~Gone(d)) /\ ~Raw3
    BY <2>1 DEF Gone
  <2>5. Raw1 \/ Raw2 => Gone(<<>>)'
    BY <2>1
  <2>6. Gone(<<>>)' => Raw3'
    BY <1>e DEF Gone
  <2>7. QED
    BY <1>2, <2>2, <2>3, <2>4, <2>5, <2>6 DEF ClaimStages
<1>7. CASE ServerSeesEnd(conn)
  <2>1. /\ handler[conn] \in {"control", "bridge"} /\ handler'[conn] = "gone" /\ UNCHANGED down
    BY <1>7, HandlerMoves
  <2>2. ~Unspoken /\ ~Answered /\ (\A d : ~Gone(d)) /\ ~Raw1 /\ ~Raw2 /\ (Raw3 => Raw3')
    BY <2>1 DEF Unspoken, Answered, At, Gone
  <2>3. QED
    BY <2>2 DEF ClaimStages
<1>8. CASE ServerPumps(conn)
  <2>1. handler[conn] = "control"
    BY <1>8, HandlerMoves
  <2>2. ~Unspoken /\ ~Answered /\ (\A d : ~Gone(d)) /\ ~Raw1 /\ ~Raw2 /\ ~Raw3
    BY <2>1 DEF Unspoken, Answered, At, Gone
  <2>3. QED
    BY <2>2 DEF ClaimStages
<1>9. CASE ConnectionLost(conn)
  <2>1. PICK kept \in Prefixes(down[conn]) : down' = [down EXCEPT ![conn] = kept]
    BY <1>9 DEF ConnectionLost
  <2>2. handler[conn] # "gone" /\ handler'[conn] = "gone" /\ down'[conn] = kept
    BY <1>9, <2>1 DEF ConnectionLost, Becomes, JoinInv
  <2>3. PICK l \in 0..Len(down[conn]) : kept = SubSeq(down[conn], 1, l)
    BY DEF Prefixes
  <2>4. down[conn] = <<>> => kept = <<>>
    BY <2>3
  <2>5. \A f : down[conn] = <<f>> => kept = <<>> \/ kept = <<f>>
    <3>1. TAKE f
    <3>2. SUFFICES ASSUME down[conn] = <<f>> PROVE kept = <<>> \/ kept = <<f>>
      OBVIOUS
    <3>3. <<f>> \in Seq({f}) /\ Len(<<f>>) = 1
      OBVIOUS
    <3>4. l = 0 \/ l = 1
      BY <2>3, <3>2, <3>3
    <3>5. SubSeq(<<f>>, 1, 0) = <<>>
      BY SubSeqEmpty
    <3>6. SubSeq(<<f>>, 1, 1) = <<f>>
      BY <3>3, SubSeqFull
    <3>7. QED
      BY <2>3, <3>2, <3>4, <3>5, <3>6
  <2>6. down[conn] \in Seq({Payload}) => kept \in Seq({Payload})
    <3>1. SUFFICES ASSUME down[conn] \in Seq({Payload}) PROVE kept \in Seq({Payload})
      OBVIOUS
    <3>2. Len(down[conn]) \in Nat /\ \A i \in 1..Len(down[conn]) : down[conn][i] \in {Payload}
      BY <3>1, LenProperties, ElementOfSeq
    <3>3. 1 \in Int /\ l \in Int /\ \A i \in 1..l : down[conn][i] \in {Payload}
      BY <3>2
    <3>4. QED
      BY <2>3, <3>3, SubSeqProperties
  <2>7. Unspoken => Gone(<<>>)' \/ (server.requireAuth /\ Gone(<<TheChallenge>>)')
    BY <1>2, <2>2, <2>4, <2>5 DEF Unspoken, At, Gone
  <2>8. (Answered => Gone(<<>>)') /\ (~server.requireAuth /\ Unspoken => Gone(<<>>)')
    BY <2>2, <2>4 DEF Answered, Unspoken, At, Gone
  <2>9. (\A d : ~Gone(d)) /\ (Raw1 \/ Raw2 \/ Raw3 => Raw3')
    BY <1>e, <2>2, <2>4, <2>6 DEF At, Gone
  <2>10. QED
    BY <1>2, <2>7, <2>8, <2>9 DEF ClaimStages
<1>10. QED
  BY <1>3, <1>4, <1>5, <1>6, <1>7, <1>8, <1>9 DEF ServerNext

\* Every step of the server and of the network keeps the stages.
LEMMA ServerStages ==
    ASSUME JoinInv, StageInv, NEW c \in Conns,
           ServerNext(c) \/ KeepsAlive(c) \/ Strays(c) \/ ConnectionLost(c)
    PROVE  StageInv'
<1>1. /\ UNCHANGED <<job, secret, server, conn, pc, lateAnswered, outcome>>
      /\ mishaps \subseteq mishaps'
      /\ up' = [d \in Conns |-> up'[d]] /\ c \in 1..conn /\ conn \in Conns
      /\ \A d \in Conns : d # c => up'[d] = up[d] /\ down'[d] = down[d] /\ handler'[d] = handler[d]
  BY ServerLeaves
<1>2. \A d \in Conns : d > conn => up'[d] = up[d]
  BY <1>1 DEF Conns
<1>3. CASE c # conn
  <2>1. handler'[conn] = handler[conn] /\ up'[conn] = up[conn] /\ down'[conn] = down[conn]
    BY <1>1, <1>3
  <2>2. QED
    BY <1>1, <1>2, <2>1, ElsewhereStages
<1>4. CASE c = conn
  <2>1. KeepsAlive(c) \/ Strays(c) => "stray" \in mishaps'
    BY DEF KeepsAlive, Strays
  <2>2. ConnectionLost(c) => mishaps' # {}
    BY DEF ConnectionLost
  <2>3. ASSUME job = "dial", mishaps' = {}, DialStages PROVE DialStages'
    <3>1. ServerNext(conn) /\ mishaps = {}
      BY <1>1, <1>4, <2>1, <2>2, <2>3
    <3>2. QED
      BY <1>1, <2>3, <3>1, ServerDialStages
  <2>4. ASSUME InTime', ClaimStages PROVE ClaimStages'
    <3>1. job = "claim" /\ Welcome /\ (ServerNext(conn) \/ ConnectionLost(conn))
      BY <1>1, <1>4, <2>1, <2>4 DEF InTime, Welcome
    <3>2. QED
      BY <1>1, <2>4, <3>1, ServerClaimStages
  <2>5. QED
    BY <1>1, <1>2, <2>3, <2>4, StageFrame
<1>5. QED
  BY <1>3, <1>4

\* What the client keeps in order, whatever has gone wrong.
Books ==
    /\ up = [c \in Conns |-> up[c]] /\ \A c \in Conns : c > conn => up[c] = <<>>
    /\ job \in {"dial", "claim"} /\ secret \in {"none", "right", "wrong"}
    /\ outcome \in {"none", "raw"} \cup Joined \cup Errors
    /\ pc # "done" => outcome = "none"
    /\ outcome = "raw" => pc = "done"
    /\ job = "dial" => outcome # "raw"
    /\ job = "claim" => conn \in {0, 1} /\ (pc = "connecting" => conn = 0) /\ pc # "reply"

\* Every step of the client keeps it in order.
LEMMA ClientBooks ==
    ASSUME JoinInv, StageInv, ClientNext
    PROVE  /\ Books' /\ UNCHANGED fixed /\ mishaps \subseteq mishaps'
           /\ pc \in {"connecting", "window", "greeting", "reply"} /\ outcome = "none"
           /\ pc \in {"window", "greeting", "reply"} => conn \in Conns /\ conn' = conn /\ UNCHANGED handler
<1>1. /\ up = [c \in Conns |-> up[c]] /\ \A c \in Conns : c > conn => up[c] = <<>>
      /\ job \in {"dial", "claim"} /\ secret \in {"none", "right", "wrong"}
      /\ conn \in 0..2 /\ (pc = "connecting" => conn \in {0, 1})
      /\ pc \in {"window", "greeting", "reply"} => conn \in Conns
      /\ pc # "done" => outcome = "none"
      /\ job = "claim" => conn \in {0, 1} /\ (pc = "connecting" => conn = 0) /\ pc # "reply"
  BY DEF JoinInv, StageInv
<1>2. UNCHANGED fixed /\ UNCHANGED <<job, secret, server>> /\ mishaps \subseteq mishaps'
  BY DEF ClientNext, TcpConnects, TcpFails, WindowReads, WindowCloses, Greets, GreetFails, ReplyReads,
         ReplyTimesOut, StreamEnds, fixed
<1>3. pc \in {"connecting", "window", "greeting", "reply"}
  BY DEF ClientNext, TcpConnects, TcpFails, WindowReads, WindowCloses, Greets, GreetFails, ReplyReads,
         ReplyTimesOut, StreamEnds
<1>4. pc \in {"window", "greeting", "reply"} => conn' = conn /\ UNCHANGED handler
  BY DEF ClientNext, TcpConnects, TcpFails, WindowReads, WindowCloses, Greets, GreetFails, ReplyReads,
         ReplyTimesOut, StreamEnds, serverVars
<1>5. /\ up' = [c \in Conns |-> up'[c]] /\ \A c \in Conns : c > conn' => up'[c] = <<>>
  <2>1. CASE TcpConnects
    BY <1>1, <2>1 DEF TcpConnects, Conns
  <2>2. CASE ~TcpConnects
    <3>1. conn' = conn /\ (UNCHANGED up \/ (conn \in Conns /\ \E m : Sends(m)))
      <4>1. CASE TcpFails \/ WindowCloses \/ GreetFails \/ ReplyTimesOut \/ StreamEnds
        BY <4>1 DEF TcpFails, WindowCloses, GreetFails, ReplyTimesOut, StreamEnds
      <4>2. CASE WindowReads
        BY <1>1, <4>2 DEF WindowReads
      <4>3. CASE Greets
        BY <1>1, <4>3 DEF Greets
      <4>4. CASE ReplyReads
        <5>1. conn' = conn /\ conn \in Conns
          BY <1>1, <4>4 DEF ReplyReads
        <5>2. UNCHANGED up \/ \E m : Sends(m)
          BY <4>4 DEF ReplyReads
        <5>3. QED
          BY <5>1, <5>2
      <4>5. QED
        BY <2>2, <4>1, <4>2, <4>3, <4>4 DEF ClientNext
    <3>2. UNCHANGED up \/ (conn \in Conns /\ \E u : up' = [up EXCEPT ![conn] = u])
      BY <3>1 DEF Sends
    <3>3. CASE UNCHANGED up
      BY <1>1, <3>1, <3>3
    <3>4. ASSUME conn \in Conns, NEW u, up' = [up EXCEPT ![conn] = u]
          PROVE  /\ up' = [c \in Conns |-> up'[c]] /\ \A c \in Conns : c > conn' => up'[c] = <<>>
      <4>1. \A c \in Conns : c > conn => c # conn
        BY <3>4 DEF Conns
      <4>2. QED
        BY <1>1, <3>1, <3>4, <4>1
    <3>5. QED
      BY <3>2, <3>3, <3>4
  <2>3. QED
    BY <2>1, <2>2
<1>6. /\ outcome' \in {"none", "raw"} \cup Joined \cup Errors
      /\ pc' # "done" => outcome' = "none"
      /\ outcome' = "raw" => pc' = "done" /\ job = "claim"
      /\ job = "claim" => (pc' \notin {"connecting", "reply"} /\ conn' = 1) \/ pc' = "done"
  <2>1. CASE TcpConnects \/ TcpFails \/ WindowCloses \/ GreetFails
    BY <1>1, <2>1 DEF TcpConnects, TcpFails, WindowCloses, GreetFails, Return, Joined, Errors, Conns
  <2>2. FailRetryable /\ pc \in {"window", "greeting", "reply"} =>
            /\ outcome' \in {"none", "broken"} /\ (pc' # "done" => outcome' = "none")
            /\ job = "claim" => pc' = "done"
    BY <1>1 DEF FailRetryable, Return
  <2>3. CASE WindowReads
    BY <1>1, <2>2, <2>3 DEF WindowReads, Return, Joined, Errors, Conns
  <2>4. CASE Greets
    BY <1>1, <2>4 DEF Greets, Return, Joined, Errors, Conns
  <2>5. CASE ReplyReads
    <3>1. pc = "reply" /\ job = "dial"
      BY <1>1, <2>5 DEF ReplyReads
    <3>2. \/ Return("Bore") \/ Return("Spore") \/ Return("unauthorized") \/ Return("rejected")
          \/ UNCHANGED <<pc, outcome>> \/ FailRetryable
      BY <2>5 DEF ReplyReads
    <3>3. QED
      BY <1>1, <2>2, <3>1, <3>2 DEF Return, Joined, Errors
  <2>6. CASE ReplyTimesOut \/ StreamEnds
    BY <1>1, <2>2, <2>6 DEF ReplyTimesOut, StreamEnds, Joined, Errors, Conns
  <2>7. QED
    BY <2>1, <2>3, <2>4, <2>5, <2>6 DEF ClientNext
<1>7. job = "claim" => conn' \in {0, 1}
  BY <1>1, <1>3, <1>4 DEF ClientNext, TcpConnects, TcpFails, WindowReads, WindowCloses, Greets, GreetFails,
     ReplyReads, ReplyTimesOut, StreamEnds
<1>8. Books'
  BY <1>1, <1>2, <1>5, <1>6, <1>7 DEF Books
<1>9. QED
  BY <1>1, <1>2, <1>3, <1>4, <1>8

\* What the client does to the queues of its connection.
LEMMA ClientMoves ==
    ASSUME JoinInv, StageInv, conn \in Conns
    PROVE  /\ \A a : Sends(a) => up'[conn] = Append(up[conn], a)
           /\ \A m : Reads(m) => /\ down[conn] # <<>> /\ m = Parse(Head(down[conn]))
                                 /\ down'[conn] = Tail(down[conn])
           /\ \A f, m : Reads(m) /\ down[conn] = <<f>> => m = Parse(f) /\ down'[conn] = <<>>
<1>1. down = [c \in Conns |-> down[c]] /\ up = [c \in Conns |-> up[c]]
  BY DEF JoinInv, StageInv
<1>2. \A a : Sends(a) => up'[conn] = Append(up[conn], a)
  BY <1>1 DEF Sends
<1>3. \A m : Reads(m) => /\ down[conn] # <<>> /\ m = Parse(Head(down[conn]))
                         /\ down'[conn] = Tail(down[conn])
  BY <1>1 DEF Reads
<1>4. \A f, m : Reads(m) /\ down[conn] = <<f>> => m = Parse(f) /\ down'[conn] = <<>>
  BY <1>3, Queues
<1>5. QED
  BY <1>2, <1>3, <1>4

\* A claim whose challenge comes in time, whatever the client does.
LEMMA ClientClaimStages ==
    ASSUME JoinInv, StageInv, ClientNext, InTime'
    PROVE  ClaimStages'
<1>1. /\ Books' /\ UNCHANGED <<job, secret, server>> /\ mishaps \subseteq mishaps'
      /\ pc \in {"connecting", "window", "greeting", "reply"} /\ outcome = "none"
      /\ pc \in {"window", "greeting", "reply"} => conn \in Conns /\ conn' = conn /\ UNCHANGED handler
  BY ClientBooks DEF fixed
<1>2. job = "claim" /\ (server.requireAuth => secret = "right") /\ "late" \notin mishaps'
  BY <1>1 DEF InTime, Welcome
<1>3. ClaimStages /\ pc # "reply" /\ (pc = "connecting" => conn = 0)
  BY <1>1, <1>2 DEF StageInv, InTime, Welcome
<1>4. server.requireAuth \in BOOLEAN /\ Parse(TheChallenge) = "Challenge"
      /\ (ChallengeAnswer(secret) = "AuthenticateRight" <=> secret = "right")
  BY StageWords
<1>5. /\ TheChallenge' = TheChallenge /\ ChallengeAnswer(secret)' = ChallengeAnswer(secret)
  BY <1>1 DEF TheChallenge
<1>6. outcome' \in Errors => ClaimStages'
  BY <1>1 DEF Books, ClaimStages, Errors
<1>7. FailRetryable => outcome' \in Errors
  BY <1>2 DEF FailRetryable, Return, Errors
<1>8. CASE TcpConnects
  <2>1. /\ pc = "connecting" /\ conn' = 1 /\ conn = 0 /\ handler \in [Conns -> Handlers]
        /\ up[1] = <<>> /\ down[1] = <<>> /\ UNCHANGED <<up, down>>
    BY <1>3, <1>8 DEF TcpConnects, JoinInv, StageInv, Conns
  <2>2. handler'[1] = IF server.requireAuth THEN "challenge" ELSE "hello"
    BY <1>8, <2>1 DEF TcpConnects, Accepted, Conns
  <2>3. Unspoken'
    BY <1>1, <1>4, <2>1, <2>2 DEF Unspoken, At
  <2>4. /\ pc' = IF secret = "none" THEN "greeting" ELSE "window"
        /\ outcome' = "none"
    BY <1>1, <1>8 DEF TcpConnects
  <2>5. pc' = "greeting" => ~server'.requireAuth
    BY <1>1, <1>2, <2>4
  <2>6. QED
    BY <2>3, <2>4, <2>5 DEF ClaimStages
<1>9. CASE TcpFails \/ GreetFails
  BY <1>6, <1>9 DEF TcpFails, GreetFails, Return, Errors
<1>10. CASE WindowReads
  <2>1. PICK msg : /\ Reads(msg)
                   /\ \/ /\ msg = "Challenge" /\ Sends(ChallengeAnswer(secret))
                         /\ pc' = "greeting" /\ outcome' = outcome
                      \/ Return("rejected")
                      \/ FailRetryable
    BY <1>10 DEF WindowReads
  <2>2. pc = "window" /\ conn \in Conns /\ conn' = conn /\ UNCHANGED handler
    BY <1>1, <1>10 DEF WindowReads
  <2>3. CASE Return("rejected") \/ FailRetryable
    BY <1>6, <1>7, <2>3 DEF Return, Errors
  <2>4. CASE /\ msg = "Challenge" /\ Sends(ChallengeAnswer(secret))
             /\ pc' = "greeting" /\ outcome' = outcome
    <3>1. down[conn] # <<>>
      BY <2>1, <2>2, ClientMoves
    <3>2. \/ server.requireAuth /\ At("auth", <<>>, <<TheChallenge>>)
          \/ server.requireAuth /\ Gone(<<TheChallenge>>)
      BY <1>3, <2>2, <3>1 DEF ClaimStages, Unspoken, At, Gone
    <3>3. down'[conn] = <<>>
      BY <2>1, <2>2, <3>2, ClientMoves DEF At, Gone
    <3>4. up'[conn] = Append(up[conn], ChallengeAnswer(secret))
      BY <2>2, <2>4, ClientMoves
    <3>5. CASE At("auth", <<>>, <<TheChallenge>>)
      <4>1. up'[conn] = <<ChallengeAnswer(secret)>>
        BY <3>4, <3>5, Queues DEF At
      <4>2. At("auth", <<ChallengeAnswer(secret)>>, <<>>)'
        BY <1>5, <2>2, <3>3, <3>5, <4>1 DEF At
      <4>3. secret = "right"
        BY <1>2, <3>2
      <4>4. QED
        BY <1>1, <2>4, <3>2, <4>2, <4>3 DEF ClaimStages, Answered
    <3>6. CASE Gone(<<TheChallenge>>)
      <4>1. Gone(<<>>)'
        BY <2>2, <3>3, <3>6 DEF Gone
      <4>2. QED
        BY <1>1, <2>4, <4>1 DEF ClaimStages
    <3>7. QED
      BY <3>2, <3>5, <3>6
  <2>5. QED
    BY <2>1, <2>3, <2>4
<1>11. CASE WindowCloses
  <2>1. /\ pc = "window" /\ pc' = "greeting" /\ conn \in Conns /\ ~server.requireAuth
        /\ UNCHANGED <<conn, outcome, up, down, handler>>
    BY <1>1, <1>2, <1>4, <1>11 DEF WindowCloses, serverVars
  <2>2. Unspoken \/ Gone(<<>>)
    BY <1>3, <2>1 DEF ClaimStages
  <2>3. Unspoken' \/ Gone(<<>>)'
    BY <1>1, <1>5, <2>1, <2>2 DEF Unspoken, At, Gone
  <2>4. QED
    BY <1>1, <2>1, <2>3 DEF ClaimStages
<1>12. CASE Greets
  <2>1. /\ pc = "greeting" /\ Sends("Accept") /\ pc' = "done" /\ outcome' = "raw" /\ conn \in Conns
        /\ UNCHANGED <<conn, down, handler>>
    <3>1. HelloKind = "Accept"
      BY <1>2 DEF HelloKind
    <3>2. pc = "greeting" /\ Sends("Accept") /\ UNCHANGED <<conn, down>>
      BY <1>12, <3>1 DEF Greets
    <3>3. pc' = "done" /\ outcome' = "raw"
      BY <1>2, <1>12 DEF Greets, Return
    <3>4. QED
      BY <1>1, <3>2, <3>3
  <2>2. up'[conn] = Append(up[conn], "Accept")
    BY <2>1, ClientMoves
  <2>3. \/ At("hello", <<>>, <<>>)
        \/ server.requireAuth /\ At("auth", <<ChallengeAnswer(secret)>>, <<>>)
        \/ Gone(<<>>)
    BY <1>3, <1>4, <2>1 DEF ClaimStages, Answered, Unspoken
  <2>4. CASE At("hello", <<>>, <<>>)
    <3>1. up'[conn] = <<"Accept">>
      BY <2>2, <2>4, Queues DEF At
    <3>2. At("hello", <<"Accept">>, <<>>)'
      BY <2>1, <2>4, <3>1 DEF At
    <3>3. QED
      BY <2>1, <3>2 DEF ClaimStages
  <2>5. CASE server.requireAuth /\ At("auth", <<ChallengeAnswer(secret)>>, <<>>)
    <3>1. PICK a : a = ChallengeAnswer(secret)
      OBVIOUS
    <3>2. up'[conn] = <<a, "Accept">>
      BY <2>2, <2>5, <3>1, Queues DEF At
    <3>3. At("auth", <<a, "Accept">>, <<>>)'
      BY <2>1, <2>5, <3>2 DEF At
    <3>4. QED
      BY <1>1, <1>5, <2>1, <2>5, <3>1, <3>3 DEF ClaimStages
  <2>6. CASE Gone(<<>>)
    <3>1. handler'[conn'] = "gone" /\ down'[conn'] = <<>> /\ <<>> \in Seq({Payload})
      BY <2>1, <2>6 DEF Gone
    <3>2. QED
      BY <2>1, <3>1 DEF ClaimStages
  <2>7. QED
    BY <2>3, <2>4, <2>5, <2>6
<1>13. CASE ReplyReads \/ ReplyTimesOut \/ StreamEnds
  <2>1. pc # "reply" => StreamEnds
    BY <1>13 DEF ReplyReads, ReplyTimesOut
  <2>2. FailRetryable
    BY <1>3, <2>1 DEF StreamEnds
  <2>3. QED
    BY <1>6, <1>7, <2>2
<1>14. QED
  BY <1>8, <1>9, <1>10, <1>11, <1>12, <1>13 DEF ClientNext


\* The frames a dial that nothing disturbs can find, at the end it reads from.
LEMMA GreetedFinds ==
    ASSUME JoinInv, StageInv, conn \in Conns, Greeted, NEW m, down[conn] # <<>>, m = Parse(Head(down[conn]))
    PROVE  \/ server.requireAuth /\ secret = "none" /\ lateAnswered /\ m = "Challenge"
           \/ server.requireAuth /\ secret = "wrong" /\ m = "Error"
           \/ Compatible /\ handler[conn] = "control" /\ m = TheReply
<1>1. Parse(TheChallenge) = "Challenge" /\ Parse(TheRefusal) = "Error"
  BY StageWords
<1>2. \A f : down[conn] = <<f>> => m = Parse(f)
  BY Queues
<1>3. CASE server.requireAuth /\ secret = "none" /\ lateAnswered /\ down[conn] = <<TheChallenge>>
  BY <1>1, <1>2, <1>3
<1>4. CASE server.requireAuth /\ secret = "wrong" /\ down[conn] = <<TheRefusal>>
  BY <1>1, <1>2, <1>4
<1>5. CASE Compatible /\ handler[conn] = "control" /\ Parse(Head(down[conn])) = TheReply
  BY <1>5
<1>6. QED
  BY <1>3, <1>4, <1>5 DEF Greeted, At, Gone

\* A dial that nothing disturbs, whatever the client does.
LEMMA ClientDialStages ==
    ASSUME JoinInv, StageInv, ClientNext, job = "dial", mishaps' = {}
    PROVE  DialStages' /\ SoundDial'
<1>1. /\ UNCHANGED <<job, secret, server>> /\ mishaps \subseteq mishaps'
      /\ pc \in {"connecting", "window", "greeting", "reply"} /\ outcome = "none"
      /\ pc \in {"window", "greeting", "reply"} => conn \in Conns /\ conn' = conn /\ UNCHANGED handler
  BY ClientBooks DEF fixed
<1>2. DialStages
  BY <1>1 DEF StageInv
<1>3. /\ server.dialect \in {"Bore", "Spore"} /\ server.requireAuth \in BOOLEAN /\ server.dropOnHelloEx \in BOOLEAN
      /\ Parse(TheChallenge) = "Challenge" /\ Parse(TheRefusal) = "Error"
      /\ secret \in {"none", "right", "wrong"}
  BY StageWords DEF Dialects, StageInv
<1>4. /\ TheChallenge' = TheChallenge /\ TheRefusal' = TheRefusal /\ TheReply' = TheReply
      /\ ChallengeAnswer(secret)' = ChallengeAnswer(secret) /\ Welcome' = Welcome /\ Compatible' = Compatible
      /\ pc # "connecting" => HelloKind' = HelloKind
  BY <1>1 DEF TheChallenge, TheRefusal, TheReply, Welcome, Compatible, HelloKind
<1>5. conn = 2 => server.dialect = "Spore" /\ Welcome
  BY <1>2 DEF DialStages
<1>6. conn = 2 \/ conn = 1 \/ pc = "connecting"
  BY <1>1 DEF Conns
<1>7. CASE TcpConnects
  <2>1. PICK n : n = conn + 1
    OBVIOUS
  <2>2. /\ pc = "connecting" /\ conn' = n /\ n \in Conns /\ conn \in {0, 1} /\ handler \in [Conns -> Handlers]
        /\ n > conn /\ (n = 2 => conn = 1)
    BY <1>7, <2>1 DEF TcpConnects, JoinInv, Conns
  <2>3. up[n] = <<>> /\ down[n] = <<>> /\ UNCHANGED <<up, down>>
    BY <1>7, <2>2 DEF TcpConnects, JoinInv, StageInv
  <2>4. handler'[n] = IF server.requireAuth THEN "challenge" ELSE "hello"
    BY <1>7, <2>1, <2>2 DEF TcpConnects, Accepted
  <2>5. Unspoken'
    BY <1>1, <1>3, <2>2, <2>3, <2>4 DEF Unspoken, At
  <2>6. pc' = IF secret = "none" THEN "greeting" ELSE "window"
    BY <1>7 DEF TcpConnects
  <2>7. conn' = 2 => server.dialect = "Spore" /\ Welcome
    BY <1>2, <2>2 DEF DialStages
  <2>8. QED
    BY <1>1, <1>4, <2>5, <2>6, <2>7 DEF DialStages, SoundDial
<1>8. CASE TcpFails \/ ReplyTimesOut
  BY <1>8 DEF TcpFails, ReplyTimesOut
<1>9. CASE WindowReads
  <2>1. PICK msg : /\ Reads(msg)
                   /\ \/ /\ msg = "Challenge" /\ Sends(ChallengeAnswer(secret))
                         /\ pc' = "greeting" /\ outcome' = outcome
                      \/ msg = "Error" /\ Return("rejected") /\ up' = up
                      \/ msg \notin {"Challenge", "Error"} /\ FailRetryable /\ up' = up
    BY <1>9 DEF WindowReads
  <2>2. pc = "window" /\ conn \in Conns /\ conn' = conn /\ UNCHANGED handler
    BY <1>1, <1>9 DEF WindowReads
  <2>3. secret # "none" /\ Unspoken
    BY <1>2, <2>2 DEF DialStages
  <2>4. down[conn] # <<>>
    BY <2>1, <2>2, ClientMoves
  <2>5. server.requireAuth /\ At("auth", <<>>, <<TheChallenge>>)
    BY <2>3, <2>4 DEF Unspoken, At
  <2>6. msg = "Challenge" /\ down'[conn] = <<>>
    BY <1>3, <2>1, <2>2, <2>5, ClientMoves DEF At
  <2>7. Sends(ChallengeAnswer(secret)) /\ pc' = "greeting"
    BY <2>1, <2>6
  <2>8. up'[conn] = Append(up[conn], ChallengeAnswer(secret))
    BY <2>2, <2>7, ClientMoves
  <2>9. up'[conn] = <<ChallengeAnswer(secret)>>
    BY <2>5, <2>8, Queues DEF At
  <2>10. At("auth", <<ChallengeAnswer(secret)>>, <<>>)'
    BY <1>4, <2>2, <2>5, <2>6, <2>9 DEF At
  <2>11. Answered'
    BY <1>1, <2>3, <2>5, <2>10 DEF Answered
  <2>12. QED
    BY <1>1, <1>4, <1>5, <2>2, <2>7, <2>11 DEF DialStages, SoundDial
<1>10. CASE WindowCloses
  <2>1. /\ pc = "window" /\ pc' = "greeting" /\ conn \in Conns /\ ~server.requireAuth
        /\ UNCHANGED <<conn, up, down, handler>>
    BY <1>1, <1>3, <1>10 DEF WindowCloses, serverVars
  <2>2. Unspoken
    BY <1>2, <2>1 DEF DialStages
  <2>3. Unspoken'
    BY <1>1, <1>4, <2>1, <2>2 DEF Unspoken, At
  <2>4. QED
    BY <1>1, <1>4, <1>5, <2>1, <2>3 DEF DialStages, SoundDial
<1>11. CASE Greets
  <2>1. /\ pc = "greeting" /\ Sends(HelloKind) /\ lateAnswered' = (secret = "none")
        /\ pc' = "reply" /\ outcome' = outcome /\ conn \in Conns
        /\ UNCHANGED <<conn, down, handler>>
    BY <1>1, <1>11 DEF Greets
  <2>2. up'[conn] = Append(up[conn], HelloKind)
    BY <2>1, ClientMoves
  <2>3. PICK k : k = HelloKind
    OBVIOUS
  <2>4. /\ \A h, d : At(h, <<>>, d) => At(h, <<k>>, d)'
        /\ \A h, a, d : At(h, <<a>>, d) => At(h, <<a, k>>, d)'
        /\ \A d : Gone(d) => Gone(d)'
    BY <2>1, <2>2, <2>3, Queues DEF At, Gone
  <2>5. HelloKind' = k
    BY <1>4, <2>1, <2>3
  <2>6. \/ (secret = "none" \/ ~server.requireAuth) /\ Unspoken
        \/ Answered
        \/ server.requireAuth /\ secret = "wrong" /\ Gone(<<TheRefusal>>)
    BY <1>2, <2>1 DEF DialStages
  <2>7. CASE (secret = "none" \/ ~server.requireAuth) /\ Unspoken
    <3>1. CASE server.requireAuth
      <4>1. secret = "none" /\ lateAnswered' /\ (At("challenge", <<>>, <<>>) \/ At("auth", <<>>, <<TheChallenge>>))
        BY <2>1, <2>7, <3>1 DEF Unspoken
      <4>2. At("challenge", <<k>>, <<>>)' \/ At("auth", <<k>>, <<TheChallenge>>)'
        <5>1. PICK t : t = TheChallenge
          OBVIOUS
        <5>2. At("challenge", <<>>, <<>>) => At("challenge", <<k>>, <<>>)'
          BY <2>4
        <5>3. At("auth", <<>>, <<t>>) => At("auth", <<k>>, <<t>>)'
          BY <2>4
        <5>4. TheChallenge' = t
          BY <1>4, <5>1
        <5>5. QED
          BY <4>1, <5>1, <5>2, <5>3, <5>4 DEF At
      <4>3. Greeted'
        BY <1>1, <1>4, <2>5, <3>1, <4>1, <4>2 DEF Greeted, At
      <4>4. QED
        BY <1>1, <1>4, <1>5, <2>1, <4>3 DEF DialStages, SoundDial
    <3>2. CASE ~server.requireAuth
      <4>1. At("hello", <<k>>, <<>>)' /\ Welcome
        BY <2>4, <2>7, <3>2 DEF Unspoken, Welcome
      <4>2. Greeted'
        BY <1>4, <2>5, <4>1 DEF Greeted, At
      <4>3. QED
        BY <1>1, <1>4, <1>5, <2>1, <4>2 DEF DialStages, SoundDial
    <3>3. QED
      BY <3>1, <3>2
  <2>8. CASE Answered
    <3>1. CASE server.requireAuth /\ secret # "none" /\ At("auth", <<ChallengeAnswer(secret)>>, <<>>)
      <4>1. PICK a : a = ChallengeAnswer(secret)
        OBVIOUS
      <4>2. At("auth", <<a, k>>, <<>>)'
        BY <2>4, <3>1, <4>1
      <4>3. Greeted'
        BY <1>1, <1>4, <2>5, <3>1, <4>1, <4>2 DEF Greeted, At
      <4>4. QED
        BY <1>1, <1>4, <1>5, <2>1, <4>3 DEF DialStages, SoundDial
    <3>2. CASE secret = "right" /\ At("hello", <<>>, <<>>)
      <4>1. At("hello", <<k>>, <<>>)' /\ Welcome
        BY <2>4, <3>2 DEF Welcome
      <4>2. Greeted'
        BY <1>4, <2>5, <4>1 DEF Greeted, At
      <4>3. QED
        BY <1>1, <1>4, <1>5, <2>1, <4>2 DEF DialStages, SoundDial
    <3>3. QED
      BY <2>8, <3>1, <3>2 DEF Answered
  <2>9. CASE server.requireAuth /\ secret = "wrong" /\ Gone(<<TheRefusal>>)
    <3>1. Gone(<<TheRefusal>>)'
      <4>1. PICK r : r = TheRefusal
        OBVIOUS
      <4>2. Gone(<<r>>)'
        BY <2>4, <2>9, <4>1
      <4>3. QED
        BY <1>4, <4>1, <4>2 DEF Gone
    <3>2. Greeted'
      BY <1>1, <2>9, <3>1 DEF Greeted
    <3>3. QED
      BY <1>1, <1>4, <1>5, <2>1, <3>2 DEF DialStages, SoundDial
  <2>10. QED
    BY <2>6, <2>7, <2>8, <2>9
<1>12. CASE GreetFails
  <2>1. /\ pc = "greeting" /\ handler[conn] = "gone" /\ pc' = "done" /\ outcome' = "broken"
        /\ conn' = conn /\ conn \in Conns
    BY <1>1, <1>12 DEF GreetFails, Return
  <2>2. ~Unspoken /\ ~Answered
    BY <2>1 DEF Unspoken, Answered, At
  <2>3. server.requireAuth /\ secret = "wrong"
    BY <1>2, <2>1, <2>2 DEF DialStages
  <2>4. conn = 1
    BY <1>5, <1>6, <2>1, <2>3 DEF Welcome
  <2>5. QED
    BY <1>1, <2>1, <2>3, <2>4 DEF DialStages, SoundDial
<1>13. CASE ReplyReads
  <2>1. /\ pc = "reply" /\ conn \in Conns /\ conn' = conn /\ UNCHANGED handler
    BY <1>1, <1>13 DEF ReplyReads
  <2>2. PICK msg : /\ Reads(msg)
                   /\ msg = "Hello" => Return("Bore")
                   /\ msg = "HelloEx" => Return("Spore")
                   /\ msg = "Challenge" /\ lateAnswered => Return("unauthorized")
                   /\ msg = "Error" => Return("rejected")
    BY <1>13 DEF ReplyReads
  <2>3. down[conn] # <<>> /\ msg = Parse(Head(down[conn]))
    BY <2>1, <2>2, ClientMoves
  <2>4. Greeted
    BY <1>2, <2>1 DEF DialStages
  <2>5. \/ server.requireAuth /\ secret = "none" /\ lateAnswered /\ msg = "Challenge"
        \/ server.requireAuth /\ secret = "wrong" /\ msg = "Error"
        \/ Compatible /\ msg = TheReply
    BY <2>1, <2>3, <2>4, GreetedFinds
  <2>6. CASE server.requireAuth /\ secret = "none" /\ lateAnswered /\ msg = "Challenge"
    <3>1. pc' = "done" /\ outcome' = "unauthorized"
      BY <2>2, <2>6 DEF Return
    <3>2. conn = 1
      BY <1>5, <1>6, <2>1, <2>6 DEF Welcome
    <3>3. QED
      BY <1>1, <2>1, <2>6, <3>1, <3>2 DEF DialStages, SoundDial
  <2>7. CASE server.requireAuth /\ secret = "wrong" /\ msg = "Error"
    <3>1. pc' = "done" /\ outcome' = "rejected"
      BY <2>2, <2>7 DEF Return
    <3>2. conn = 1
      BY <1>5, <1>6, <2>1, <2>7 DEF Welcome
    <3>3. QED
      BY <1>1, <2>1, <2>7, <3>1, <3>2 DEF DialStages, SoundDial
  <2>8. CASE Compatible /\ msg = TheReply
    <3>1. pc' = "done" /\ outcome' = server.dialect
      BY <1>3, <2>2, <2>8 DEF Return, TheReply
    <3>2. QED
      BY <1>1, <1>4, <1>5, <2>1, <2>8, <3>1 DEF DialStages, SoundDial
  <2>9. QED
    BY <2>5, <2>6, <2>7, <2>8
<1>14. CASE StreamEnds
  <2>1. /\ pc \in {"window", "reply"} /\ handler[conn] = "gone" /\ conn \in Conns /\ conn' = conn
        /\ FailRetryable
        /\ down[conn] = <<>> \/ (Reads("Challenge") /\ (pc = "reply" => ~lateAnswered))
    BY <1>1, <1>14 DEF StreamEnds, EndOfStream
  <2>2. ~Unspoken
    BY <2>1 DEF Unspoken, At
  <2>3. pc = "reply" /\ Greeted
    BY <1>2, <2>1, <2>2 DEF DialStages
  <2>4. down[conn] = <<>>
    <3>1. SUFFICES ASSUME down[conn] # <<>> PROVE FALSE
      OBVIOUS
    <3>2. Reads("Challenge") /\ ~lateAnswered
      BY <2>1, <2>3, <3>1
    <3>3. "Challenge" = Parse(Head(down[conn]))
      BY <2>1, <3>2, ClientMoves
    <3>4. QED
      BY <2>1, <2>3, <3>1, <3>2, <3>3, GreetedFinds
  <2>5. Welcome /\ server.dialect = "Spore" /\ (conn = 2 => server.dropOnHelloEx)
    BY <2>1, <2>3, <2>4 DEF Greeted, At, Gone
  <2>6. CASE conn = 1
    <3>1. pc' = "connecting" /\ outcome' = "none"
      BY <1>1, <2>1, <2>6 DEF FailRetryable
    <3>2. QED
      BY <1>1, <1>4, <2>1, <2>5, <3>1 DEF DialStages, SoundDial
  <2>7. CASE conn = 2
    <3>1. pc' = "done" /\ outcome' = "broken"
      BY <1>1, <2>1, <2>7 DEF FailRetryable, Return
    <3>2. QED
      BY <1>1, <1>4, <2>1, <2>5, <2>7, <3>1 DEF DialStages, SoundDial
  <2>8. QED
    BY <2>1, <2>6, <2>7 DEF Conns
<1>15. QED
  BY <1>7, <1>8, <1>9, <1>10, <1>11, <1>12, <1>13, <1>14 DEF ClientNext

\* The client, whatever it does.
LEMMA ClientStages ==
    ASSUME JoinInv, StageInv, ClientNext
    PROVE  StageInv'
<1>1. Books' /\ UNCHANGED <<job, secret, server>> /\ mishaps \subseteq mishaps'
  BY ClientBooks DEF fixed
<1>2. job' = "dial" /\ mishaps' = {} => DialStages' /\ SoundDial'
  BY <1>1, ClientDialStages
<1>3. ~(job' = "dial" /\ mishaps' = {}) => SoundDial'
  BY DEF SoundDial
<1>4. InTime' => ClaimStages'
  BY ClientClaimStages
<1>5. QED
  BY <1>1, <1>2, <1>3, <1>4 DEF StageInv, Books

\* The stages hold before the first connection.
LEMMA StageInit == Init => StageInv
<1> SUFFICES ASSUME Init PROVE StageInv
  OBVIOUS
<1>1. DialStages /\ ClaimStages /\ SoundDial
  BY DEF Init, DialStages, ClaimStages, SoundDial
<1>2. QED
  BY <1>1 DEF Init, StageInv, Conns

\* Every step keeps the stages.
LEMMA StageStep == JoinInv /\ StageInv /\ [Next]_vars => StageInv'
<1> SUFFICES ASSUME JoinInv, StageInv, [Next]_vars PROVE StageInv'
  OBVIOUS
<1>1. CASE UNCHANGED vars
  <2>1. /\ UNCHANGED <<job, secret, server, conn, pc, lateAnswered, outcome>>
        /\ mishaps \subseteq mishaps' /\ up' = [c \in Conns |-> up'[c]]
        /\ \A c \in Conns : c > conn => up'[c] = up[c]
        /\ handler'[conn] = handler[conn] /\ up'[conn] = up[conn] /\ down'[conn] = down[conn]
    BY <1>1 DEF vars, fixed, clientVars, serverVars, StageInv
  <2>2. QED
    BY <2>1, ElsewhereStages
<1>2. CASE ClientNext
  BY <1>2, ClientStages
<1>3. ASSUME NEW c \in Conns, ServerNext(c) \/ KeepsAlive(c) \/ Strays(c) \/ ConnectionLost(c)
      PROVE  StageInv'
  BY <1>3, ServerStages
<1>4. QED
  BY <1>1, <1>2, <1>3 DEF Next

\* With a server and a network that do nothing wrong, dial() returns the dialect
\* of the server if they can work together, and the reason if they cannot: at the
\* first connection, unless the server is one that drops a HelloEx.
THEOREM DialIsSound == Spec => []SoundDial
<1>1. Init => JoinInv /\ StageInv
  BY JoinInit, StageInit
<1>2. JoinInv /\ StageInv /\ [Next]_vars => JoinInv' /\ StageInv'
  BY JoinStep, StageStep
<1>3. StageInv => SoundDial
  BY DEF StageInv
<1>4. QED
  BY <1>1, <1>2, <1>3, PTL DEF Spec

\* A sequence over a set shows nothing but its members.
LEMMA RangeDrawn ==
    ASSUME NEW S, NEW s \in Seq(S)
    PROVE  Range(s) \subseteq S
BY DEF Range

\* The bytes that open_data_connection hands over raw are the visitor's alone, as
\* long as the challenge of the server came within the window.
THEOREM ClaimsAreClean == Spec => []ClaimIsClean
<1>1. Init => JoinInv /\ StageInv
  BY JoinInit, StageInit
<1>2. JoinInv /\ StageInv /\ [Next]_vars => JoinInv' /\ StageInv'
  BY JoinStep, StageStep
<1>3. StageInv => ClaimIsClean
  <2>1. SUFFICES ASSUME StageInv, outcome = "raw", server.requireAuth => secret = "right",
                        mishaps \cap {"late", "stray"} = {}
                 PROVE  Range(down[conn]) \subseteq {Payload}
    BY DEF ClaimIsClean
  <2>2. job = "claim"
    BY <2>1 DEF StageInv
  <2>3. ClaimStages
    BY <2>1, <2>2 DEF StageInv, InTime, Welcome
  <2>4. down[conn] = <<>> \/ down[conn] \in Seq({Payload})
    BY <2>1, <2>3 DEF ClaimStages, At
  <2>5. down[conn] \in Seq({Payload})
    <3>1. <<>> \in Seq({Payload})
      BY EmptySeq
    <3>2. QED
      BY <2>4, <3>1, Zenon
  <2>6. QED
    BY <2>5, RangeDrawn
<1>4. QED
  BY <1>1, <1>2, <1>3, PTL DEF Spec

\* What the stages leave open: the words said, and what is kept of the past.
Rest ==
    /\ lateAnswered \in BOOLEAN /\ mishaps \subseteq {"late", "slow", "lost", "stray"}
    /\ \A c \in Conns : up[c] \in Seq(ClientMessages)

\* A queue of the client's words keeps to them when it grows or is read.
LEMMA WordsKeep ==
    /\ \A s \in Seq(ClientMessages), m \in ClientMessages : Append(s, m) \in Seq(ClientMessages)
    /\ \A s \in Seq(ClientMessages) : s # <<>> => Tail(s) \in Seq(ClientMessages)
<1>1. \A s \in Seq(ClientMessages), m \in ClientMessages : Append(s, m) \in Seq(ClientMessages)
  BY AppendProperties
<1>2. \A s \in Seq(ClientMessages) : s # <<>> => Tail(s) \in Seq(ClientMessages)
  BY HeadTailProperties
<1>3. QED
  BY <1>1, <1>2

\* Every step keeps the rest.
LEMMA RestStep == JoinInv /\ StageInv /\ Rest /\ [Next]_vars => Rest'
<1> SUFFICES ASSUME JoinInv, StageInv, Rest, [Next]_vars PROVE Rest'
  OBVIOUS
<1>1. /\ up = [c \in Conns |-> up[c]] /\ \A c \in Conns : up[c] \in Seq(ClientMessages)
      /\ lateAnswered \in BOOLEAN /\ mishaps \subseteq {"late", "slow", "lost", "stray"}
  BY DEF StageInv, Rest
<1>2. ASSUME NEW c \in Conns, NEW m \in ClientMessages, up' = [up EXCEPT ![c] = Append(@, m)]
      PROVE  \A d \in Conns : up'[d] \in Seq(ClientMessages)
  <2>1. Append(up[c], m) \in Seq(ClientMessages)
    BY <1>1, <1>2, WordsKeep
  <2>2. QED
    BY <1>1, <1>2, <2>1
<1>3. ASSUME NEW c \in Conns, NEW m, Takes(c, m)
      PROVE  \A d \in Conns : up'[d] \in Seq(ClientMessages)
  <2>1. Tail(up[c]) \in Seq(ClientMessages)
    BY <1>1, <1>3, WordsKeep DEF Takes
  <2>2. QED
    BY <1>1, <1>3, <2>1 DEF Takes
<1>4. lateAnswered' \in BOOLEAN
  BY <1>1 DEF Next, ClientNext, TcpConnects, TcpFails, WindowReads, WindowCloses, Greets, GreetFails, ReplyReads,
     ReplyTimesOut, StreamEnds, ServerNext, ServerChallenges, ServerChecks, ServerGreeted, ServerGivesUp,
     ServerSeesEnd, ServerPumps, KeepsAlive, Strays, ConnectionLost, clientVars, vars
<1>5. mishaps' \subseteq {"late", "slow", "lost", "stray"}
  BY <1>1 DEF Next, ClientNext, TcpConnects, TcpFails, WindowReads, WindowCloses, Greets, GreetFails, ReplyReads,
     ReplyTimesOut, StreamEnds, ServerNext, ServerChallenges, ServerChecks, ServerGreeted, ServerGivesUp,
     ServerSeesEnd, ServerPumps, KeepsAlive, Strays, ConnectionLost, vars
<1>6. ASSUME ClientNext PROVE \A d \in Conns : up'[d] \in Seq(ClientMessages)
  <2>1. UNCHANGED up \/ \E m \in ClientMessages : pc \in {"window", "greeting", "reply"} /\ Sends(m)
    <3>1. ChallengeAnswer(secret) \in ClientMessages /\ HelloKind \in ClientMessages
      BY DEF ChallengeAnswer, HelloKind, ClientMessages
    <3>2. CASE TcpConnects \/ TcpFails \/ WindowCloses \/ GreetFails \/ ReplyTimesOut \/ StreamEnds
      BY <3>2 DEF TcpConnects, TcpFails, WindowCloses, GreetFails, ReplyTimesOut, StreamEnds
    <3>3. CASE WindowReads
      BY <3>1, <3>3 DEF WindowReads
    <3>4. CASE Greets
      BY <3>1, <3>4 DEF Greets
    <3>5. CASE ReplyReads
      BY <3>1, <3>5 DEF ReplyReads
    <3>6. QED
      BY <1>6, <3>2, <3>3, <3>4, <3>5 DEF ClientNext
  <2>2. pc \in {"window", "greeting", "reply"} => conn \in Conns
    BY DEF JoinInv
  <2>3. QED
    BY <1>1, <1>2, <2>1, <2>2 DEF Sends
<1>7. ASSUME NEW c \in Conns, ServerNext(c) \/ KeepsAlive(c) \/ Strays(c) \/ ConnectionLost(c)
      PROVE  \A d \in Conns : up'[d] \in Seq(ClientMessages)
  <2>1. UNCHANGED up \/ \E m : Takes(c, m)
    BY <1>7 DEF ServerNext, ServerChallenges, ServerChecks, ServerGreeted, ServerGivesUp,
       ServerSeesEnd, ServerPumps, KeepsAlive, Strays, ConnectionLost
  <2>2. QED
    BY <1>1, <1>3, <2>1
<1>8. CASE UNCHANGED vars
  BY <1>1, <1>4, <1>5, <1>8 DEF vars, Rest
<1>9. QED
  BY <1>4, <1>5, <1>6, <1>7, <1>8 DEF Next, Rest

\* Every variable keeps its type, for any number of frames on their way.
THEOREM HandshakeTyped == Spec => []TypeOK
<1>1. Init => JoinInv /\ StageInv /\ Rest
  <2>1. Init => Rest
    BY EmptySeq DEF Init, Rest, Conns
  <2>2. QED
    BY <2>1, JoinInit, StageInit
<1>2. JoinInv /\ StageInv /\ Rest /\ [Next]_vars => JoinInv' /\ StageInv' /\ Rest'
  BY JoinStep, StageStep, RestStep
<1>3. JoinInv /\ StageInv /\ Rest => TypeOK
  <2> SUFFICES ASSUME JoinInv, StageInv, Rest PROVE TypeOK
    OBVIOUS
  <2>1. \A c \in Conns : down[c] \in Seq(Frames)
    <3>1. \A c \in Conns : down[c] \in Seq(Meant(c)) /\ Meant(c) \subseteq Frames
      BY DEF JoinInv, Meant
    <3>2. QED
      BY <3>1, SeqMonotonic
  <2>2. QED
    BY <2>1 DEF JoinInv, StageInv, Rest, TypeOK, Handlers
<1>4. QED
  BY <1>1, <1>2, <1>3, PTL DEF Spec
===============================================================================
