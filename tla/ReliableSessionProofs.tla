----------------------- MODULE ReliableSessionProofs -----------------------
(***************************************************************************)
(* The types and the safety of ReliableSession, proved for every number of *)
(* links and messages, every replay window and every choice of faults.     *)
(* SessionInv is inductive relative to the type invariant, and             *)
(* ClientFramesOnce, ForgetsOnlyClaimed, ServerFramesOnce and              *)
(* RetainsUnapplied follow.                                                *)
(***************************************************************************)
EXTENDS ReliableSession, TLAPS

(***************************************************************************)
(* Sequences, and the set of the elements of one.                          *)
(***************************************************************************)
LEMMA EmptySeqFacts ==
    ASSUME NEW S
    PROVE  << >> \in Seq(S) /\ Elems(<< >>) = {} /\ Len(<< >>) = 0
BY DEF Elems

\* A sequence of one message.
LEMMA SingletonFacts ==
    ASSUME NEW S, NEW x \in S
    PROVE  <<x>> \in Seq(S) /\ Elems(<<x>>) = {x} /\ Len(<<x>>) = 1
BY DEF Elems

\* Taking the first message of a wire or queue.
LEMMA TailFacts ==
    ASSUME NEW S, NEW q \in Seq(S), q # << >>
    PROVE  /\ Tail(q) \in Seq(S) /\ Head(q) \in S
           /\ Elems(Tail(q)) \subseteq Elems(q) /\ Head(q) \in Elems(q)
BY DEF Elems

\* Writing several messages to a wire.
LEMMA ConcatFacts ==
    ASSUME NEW S, NEW q \in Seq(S), NEW r \in Seq(S)
    PROVE  /\ q \o r \in Seq(S) /\ Len(q \o r) = Len(q) + Len(r)
           /\ Elems(q \o r) \subseteq Elems(q) \union Elems(r)
BY DEF Elems

\* Writing one message to a wire or queue.
LEMMA AppendFacts ==
    ASSUME NEW S, NEW q \in Seq(S), NEW x \in S
    PROVE  /\ Append(q, x) \in Seq(S) /\ Len(Append(q, x)) = Len(q) + 1
           /\ Elems(Append(q, x)) \subseteq Elems(q) \union {x}
BY DEF Elems

\* A wire whose end was lost.
LEMMA PrefixFacts ==
    ASSUME NEW S, NEW q \in Seq(S), NEW i \in 0 .. Len(q)
    PROVE  /\ SubSeq(q, 1, i) \in Seq(S)
           /\ Elems(SubSeq(q, 1, i)) \subseteq Elems(q)
BY DEF Elems

\* What checked_session refuses with is one of the reasons a link can end.
LEMMA CursorErrorType ==
    ASSUME NEW f, NEW k, NEW a
    PROVE  CursorError(f, k, a) \in Reasons \union {"none"}
BY Zenon DEF CursorError, Reasons

\* attach_link refuses a hello for one of the known reasons, or not at all.
LEMMA HelloErrorType ==
    ASSUME NEW l \in Links
    PROVE  HelloError(l) \in Reasons \union {"none"}
BY CursorErrorType, Zenon DEF HelloError, Reasons

\* A function on an initial interval is a sequence, with that length.
LEMMA IntervalIsSeq ==
    ASSUME NEW S, NEW n \in Nat, NEW f \in [1 .. n -> S]
    PROVE  f \in Seq(S) /\ Len(f) = n
OBVIOUS

\* frames_after returns server frames of the log.
LEMMA FramesAfterType ==
    ASSUME NEW f \in Nat, NEW log \in Seq(Messages), NEW after \in Nat
    PROVE  FramesAfter(f, log, after) \in Seq(ServerMessage)
<1> DEFINE first == Larger(f, after + 1)
           len == Larger(0, Len(log) - first + 1)
<1>1. first \in Nat /\ first >= 1 /\ len \in Nat
  BY DEF Larger
<1>2. \A i \in 1 .. len : first + i - 1 \in 1 .. Len(log)
  BY <1>1 DEF Larger
<1>3. \A i \in 1 .. len : ServerFrame(first + i - 1, log[first + i - 1])
                            \in ServerMessage
  <2> TAKE i \in 1 .. len
  <2>1. log[first + i - 1] \in Messages /\ first + i - 1 \in Nat
    <3>1. first + i - 1 \in 1 .. Len(log)
      BY <1>2, Zenon
    <3> HIDE DEF first, len
    <3> QED BY <3>1
  <2> QED BY <2>1, Zenon DEF ServerFrame, ServerMessage
<1>4. FramesAfter(f, log, after) =
        [i \in 1 .. len |-> ServerFrame(first + i - 1, log[first + i - 1])]
  BY Zenon DEF FramesAfter
<1> HIDE DEF first, len
<1>5. FramesAfter(f, log, after) \in [1 .. len -> ServerMessage]
  BY <1>3, <1>4, Zenon
<1> QED BY <1>1, <1>5, IntervalIsSeq, Zenon

\* The frames resent after a resume are client frames.
LEMMA ResentType ==
    ASSUME NEW kept \in Nat, nextClient \in Nat
    PROVE  Resent(kept) \in Seq(ClientMessage)
<1>1. \A i \in 1 .. nextClient - 1 - kept :
          ClientFrame(kept + i) \in ClientMessage
  BY DEF ClientFrame, ClientMessage
<1>2. CASE nextClient - 1 - kept \in Nat
  BY <1>1, <1>2 DEF Resent
<1>3. CASE nextClient - 1 - kept \notin Nat
  <2>1. 1 .. nextClient - 1 - kept = 1 .. 0
    BY <1>3
  <2> QED BY <1>1, <2>1 DEF Resent
<1> QED BY <1>2, <1>3, Zenon

(***************************************************************************)
(* Types.                                                                  *)
(***************************************************************************)
LEMMA ExceptType ==
    ASSUME NEW D, NEW S, NEW f \in [D -> S], NEW d \in D, NEW v \in S
    PROVE  [f EXCEPT ![d] = v] \in [D -> S]
BY Zenon

\* A part of the state that a step leaves alone keeps its types.
LEMMA UnchangedTypes ==
    ASSUME TypeOK
    PROVE  /\ UNCHANGED sessionVars => SessionTypes'
           /\ UNCHANGED gatewayVars => GatewayTypes'
           /\ UNCHANGED serverLinkVars => ServerLinkTypes'
           /\ UNCHANGED wireVars => WireTypes'
           /\ UNCHANGED clientVars => ClientTypes'
           /\ UNCHANGED logVars => LogTypes'
<1>1. UNCHANGED sessionVars => SessionTypes'
  BY Zenon DEF TypeOK, sessionVars, SessionTypes
<1>2. UNCHANGED gatewayVars => GatewayTypes'
  BY Zenon DEF TypeOK, gatewayVars, GatewayTypes
<1>3. UNCHANGED serverLinkVars => ServerLinkTypes'
  BY Zenon DEF TypeOK, serverLinkVars, ServerLinkTypes
<1>4. UNCHANGED wireVars => WireTypes'
  BY Zenon DEF TypeOK, wireVars, WireTypes
<1>5. UNCHANGED clientVars => ClientTypes'
  BY Zenon DEF TypeOK, clientVars, ClientTypes
<1>6. UNCHANGED logVars => LogTypes'
  BY Zenon DEF TypeOK, logVars, LogTypes
<1> QED BY <1>1, <1>2, <1>3, <1>4, <1>5, <1>6, Zenon

\* The heads and tails of what a link carries.
LEMMA QueueTypes ==
    ASSUME TypeOK, NEW l \in Links
    PROVE  /\ c2s[l] \in Seq(ClientMessage) /\ s2c[l] \in Seq(ServerMessage)
           /\ queued[l] \in Seq(Nat) /\ held[l] \in Seq(Messages)
           /\ c2s[l] # << >> => /\ Head(c2s[l]) \in ClientMessage
                               /\ Head(c2s[l]).n \in Nat
                               /\ Tail(c2s[l]) \in Seq(ClientMessage)
           /\ s2c[l] # << >> => /\ Head(s2c[l]) \in ServerMessage
                               /\ Tail(s2c[l]) \in Seq(ServerMessage)
           /\ queued[l] # << >> => /\ Head(queued[l]) \in Nat
                                  /\ Tail(queued[l]) \in Seq(Nat)
<1>1. /\ c2s[l] \in Seq(ClientMessage) /\ s2c[l] \in Seq(ServerMessage)
      /\ queued[l] \in Seq(Nat) /\ held[l] \in Seq(Messages)
  BY Zenon DEF TypeOK, WireTypes, ServerLinkTypes
<1>2. \A m \in ClientMessage : m.n \in Nat
  BY Zenon DEF ClientMessage
<1> QED BY <1>1, <1>2, TailFacts, Zenon

\* What a server message of each type carries.
LEMMA ServerMessageFields ==
    ASSUME NEW m \in ServerMessage
    PROVE  /\ m.type \in {"ready", "ack", "frame"} => m.n \in Nat
           /\ m.type = "frame" => m.message \in Messages
BY Zenon DEF ServerMessage

\* What each peer writes, or takes off, leaves the wire well typed.
LEMMA ServerWritesType ==
    ASSUME TypeOK, NEW l \in Links, NEW msgs \in Seq(ServerMessage)
    PROVE  ServerWrites(l, msgs) \in [Links -> Seq(ServerMessage)]
BY DEF TypeOK, WireTypes, ServerWrites

\* What the channel writes keeps the wires well typed.
LEMMA ClientWritesType ==
    ASSUME TypeOK, NEW l \in Links, NEW msgs \in Seq(ClientMessage)
    PROVE  ClientWrites(l, msgs) \in [Links -> Seq(ClientMessage)]
BY DEF TypeOK, WireTypes, ClientWrites

\* Reading a message keeps the wires well typed.
LEMMA TakesType ==
    ASSUME TypeOK, NEW l \in Links
    PROVE  /\ c2s[l] # << >> =>
               [c2s EXCEPT ![l] = Tail(@)] \in [Links -> Seq(ClientMessage)]
           /\ s2c[l] # << >> =>
               [s2c EXCEPT ![l] = Tail(@)] \in [Links -> Seq(ServerMessage)]
           /\ [c2s EXCEPT ![l] = << >>] \in [Links -> Seq(ClientMessage)]
           /\ [s2c EXCEPT ![l] = << >>] \in [Links -> Seq(ServerMessage)]
<1>1. /\ c2s \in [Links -> Seq(ClientMessage)]
      /\ s2c \in [Links -> Seq(ServerMessage)]
  BY Zenon DEF TypeOK, WireTypes
<1> QED BY <1>1, QueueTypes, ExceptType, EmptySeqFacts, Zenon

\* Ending a socket keeps the types of everything it touches.
LEMMA EndsSocketType ==
    ASSUME TypeOK, NEW l \in Links, NEW r \in Reasons \union {"lost"},
           EndsSocket(l, r)
    PROVE  /\ WireTypes'
           /\ UNCHANGED <<linkEpoch, written, frameDispatched, running,
                         pumping, held>> => ServerLinkTypes'
<1> DEFINE msgs == IF r = "lost" THEN << >> ELSE <<Close(r)>>
<1>1. msgs \in Seq(ServerMessage)
  <2>1. CASE r = "lost"
    BY <2>1, EmptySeqFacts, Zenon
  <2>2. CASE r # "lost"
    <3>1. Close(r) \in ServerMessage
      BY <2>2, Zenon DEF Close, ServerMessage
    <3> QED BY <2>2, <3>1, SingletonFacts, Zenon
  <2> QED BY <2>1, <2>2, Zenon
<1>2. s2c' = ServerWrites(l, msgs)
  BY Zenon DEF EndsSocket
<1> HIDE DEF msgs
<1>3. s2c' \in [Links -> Seq(ServerMessage)]
  BY <1>1, <1>2, ServerWritesType, Zenon
<1>4. c2s' \in [Links -> Seq(ClientMessage)]
  BY TakesType, Zenon DEF EndsSocket
<1>5. WireTypes'
  BY <1>3, <1>4, Zenon DEF TypeOK, WireTypes, EndsSocket
<1>6. queued' \in [Links -> Seq(Nat)]
  BY EmptySeqFacts, Zenon DEF TypeOK, ServerLinkTypes, EndsSocket
<1>7. ASSUME UNCHANGED <<linkEpoch, written, frameDispatched, running,
                         pumping, held>>
      PROVE  ServerLinkTypes'
  BY <1>6, <1>7, Zenon DEF TypeOK, ServerLinkTypes, EndsSocket
<1> QED BY <1>5, <1>7, Zenon

\* Enqueueing messages keeps the registry entry well typed.
LEMMA EnqueueType ==
    ASSUME TypeOK, NEW msgs \in Seq(Messages), Enqueue(msgs),
           UNCHANGED <<sess, lastClient, epoch>>
    PROVE  SessionTypes'
<1>1. CASE sess = "open"
  <2>1. enqueued' \in Seq(Messages)
    <3>1. enqueued \in Seq(Messages)
      BY Zenon DEF TypeOK, SessionTypes
    <3>2. enqueued' = enqueued \o msgs
      BY <1>1, Zenon DEF Enqueue
    <3> QED BY <3>1, <3>2, ConcatFacts, Zenon
  <2>2. nextServer' \in Nat /\ front' \in Nat
    <3>1. /\ nextServer \in Nat /\ front \in Nat /\ Len(msgs) \in Nat
          /\ ReplayWindow \in Nat
      BY BoundsAssumption DEF TypeOK, SessionTypes
    <3> QED BY <1>1, <3>1 DEF Enqueue, Larger
  <2> QED BY <2>1, <2>2, Zenon DEF TypeOK, SessionTypes
<1>2. CASE sess # "open"
  BY <1>2, Zenon DEF TypeOK, SessionTypes, Enqueue
<1> QED BY <1>1, <1>2, Zenon

\* A handler keeps the registry entry, the gateway and the log well typed.
LEMMA RunsHandlerType ==
    ASSUME TypeOK, NEW n \in Nat, RunsHandler(n),
           UNCHANGED <<sess, lastClient, epoch>>
    PROVE  SessionTypes' /\ GatewayTypes' /\ dispatched' \in Seq(Nat)
<1>1. PICK replies \in {<< >>, <<Reply(n)>>} : Enqueue(replies)
  BY Zenon DEF RunsHandler
<1>2. replies \in Seq(Messages)
  <2>1. Reply(n) \in Messages
    BY Zenon DEF Reply, Messages
  <2>2. << >> \in Seq(Messages)
    BY EmptySeqFacts, Zenon
  <2>3. <<Reply(n)>> \in Seq(Messages)
    BY <2>1, SingletonFacts, Zenon
  <2> QED BY <1>1, <2>2, <2>3, Zenon
<1>3. SessionTypes'
  BY <1>1, <1>2, EnqueueType, Zenon
<1>4. dispatched' \in Seq(Nat)
  BY AppendFacts, Zenon DEF RunsHandler, TypeOK, LogTypes
<1>5. GatewayTypes'
  BY Zenon DEF RunsHandler, TypeOK, GatewayTypes
<1> QED BY <1>3, <1>4, <1>5, Zenon

\* Settling an acknowledgement keeps both retained queues natural numbers.
LEMMA AckTypes ==
    ASSUME TypeOK, NEW t \in Nat
    PROVE  FrontAfterAck(t) \in Nat /\ AckedThrough(t) \in Nat
BY DEF TypeOK, SessionTypes, ClientTypes, FrontAfterAck, AckedThrough, Larger,
       Smaller

\* The server half of a link: each of its steps keeps the types.
LEMMA ServerStepTypes ==
    ASSUME TypeOK, NEW l \in Links, ServerStep(l)
    PROVE  TypeOK'
<1>1. CASE OpenSessionLink(l)
  <2> DEFINE cursor == Head(c2s[l]).n
             error == HelloError(l)
  <2>1. cursor \in Nat
    BY <1>1, QueueTypes, Zenon DEF OpenSessionLink
  <2>2. CASE error = "none"
    <3>1. SessionTypes'
      <4>1. FrontAfterAck(cursor) \in Nat
        BY <2>1, AckTypes, Zenon
      <4> HIDE DEF cursor
      <4> QED BY <1>1, <2>2, <4>1
              DEF OpenSessionLink, TypeOK, SessionTypes, cursor
    <3>2. ServerLinkTypes'
      <4>1. (lastClient > 0) \in BOOLEAN /\ epoch + 1 \in Nat
        BY DEF TypeOK, SessionTypes
      <4>2. frameDispatched' \in [Links -> BOOLEAN]
        BY <1>1, <2>2, <4>1, ExceptType, Zenon
        DEF OpenSessionLink, TypeOK, ServerLinkTypes
      <4>3. /\ linkEpoch' = [linkEpoch EXCEPT ![l] = epoch + 1]
            /\ written' = [written EXCEPT ![l] = cursor]
            /\ srv' = [srv EXCEPT ![l] = "open"]
            /\ UNCHANGED <<queued, running, pumping, held, verdict>>
        BY <1>1, <2>2, Zenon DEF OpenSessionLink
      <4> HIDE DEF cursor, error
      <4> QED BY <2>1, <4>1, <4>2, <4>3, Zenon DEF TypeOK, ServerLinkTypes
    <3>3. WireTypes'
      <4>1. <<Ready(lastClient)>> \in Seq(ServerMessage)
        <5>1. Ready(lastClient) \in ServerMessage
          BY Zenon DEF Ready, ServerMessage, TypeOK, SessionTypes
        <5> QED BY <5>1, SingletonFacts, Zenon
      <4>2. /\ s2c' = ServerWrites(l, <<Ready(lastClient)>>)
            /\ c2s' = [c2s EXCEPT ![l] = Tail(@)]
            /\ c2s[l] # << >> /\ up' = up
        BY <1>1, <2>2, Zenon DEF OpenSessionLink
      <4> HIDE DEF cursor, error
      <4> QED BY <4>1, <4>2, ServerWritesType, TakesType, Zenon
              DEF TypeOK, WireTypes
    <3> QED BY <1>1, <3>1, <3>2, <3>3, UnchangedTypes, Zenon
            DEF OpenSessionLink, TypeOK
  <2>3. CASE error # "none"
    <3>1. EndsSocket(l, error) /\ error \in Reasons \union {"lost"}
      BY <1>1, <2>3, HelloErrorType, Zenon DEF OpenSessionLink
    <3>2. /\ epoch' \in {epoch, epoch + 1}
          /\ UNCHANGED <<sess, lastClient, front, nextServer, enqueued>>
          /\ UNCHANGED <<linkEpoch, written, frameDispatched, running,
                        pumping, held>>
          /\ UNCHANGED <<gatewayVars, clientVars, logVars>>
      BY <1>1, <2>3, Zenon DEF OpenSessionLink
    <3> HIDE DEF error
    <3>3. SessionTypes'
      BY <3>2 DEF TypeOK, SessionTypes
    <3> QED BY <3>1, <3>2, <3>3, EndsSocketType, UnchangedTypes, Zenon DEF TypeOK
  <2> QED BY <2>2, <2>3, Zenon
<1>2. CASE ReadFrame(l)
  <2>1. WireTypes'
    BY <1>2, TakesType, Zenon DEF ReadFrame, TypeOK, WireTypes
  <2>2. ServerLinkTypes'
    <3>1. Append(queued[l], Head(c2s[l]).n) \in Seq(Nat)
      BY <1>2, QueueTypes, AppendFacts DEF ReadFrame
    <3> QED BY <1>2, <3>1, Zenon DEF ReadFrame, TypeOK, ServerLinkTypes
  <2> QED BY <1>2, <2>1, <2>2, UnchangedTypes, Zenon DEF ReadFrame, TypeOK
<1>3. CASE ReadAck(l)
  <2> DEFINE through == Head(c2s[l]).n
             error == CursorError(front, nextServer, through)
  <2>1. through \in Nat
    BY <1>3, QueueTypes, Zenon DEF ReadAck
  <2>2. CASE error = "none"
    <3>1. /\ front' = FrontAfterAck(through)
          /\ c2s[l] # << >> /\ c2s' = [c2s EXCEPT ![l] = Tail(@)]
          /\ UNCHANGED <<srv, verdict, queued, up, s2c>>
          /\ UNCHANGED <<sess, lastClient, nextServer, enqueued, epoch,
                        linkEpoch, written, frameDispatched, running,
                        pumping, held>>
          /\ UNCHANGED <<gatewayVars, clientVars, logVars>>
      BY <1>3, <2>2, Zenon DEF ReadAck
    <3> HIDE DEF through, error
    <3>2. SessionTypes'
      BY <2>1, <3>1, AckTypes, Zenon DEF TypeOK, SessionTypes
    <3>3. WireTypes'
      BY <3>1, TakesType, Zenon DEF TypeOK, WireTypes
    <3>4. ServerLinkTypes'
      BY <3>1, Zenon DEF TypeOK, ServerLinkTypes
    <3> QED BY <3>1, <3>2, <3>3, <3>4, UnchangedTypes, Zenon DEF TypeOK
  <2>3. CASE error # "none"
    <3>1. EndsSocket(l, error) /\ error \in Reasons \union {"lost"}
      BY <1>3, <2>3, CursorErrorType, Zenon DEF ReadAck
    <3>2. /\ UNCHANGED <<linkEpoch, written, frameDispatched, running,
                        pumping, held>>
          /\ UNCHANGED <<gatewayVars, clientVars, logVars>>
          /\ UNCHANGED sessionVars
      BY <1>3, <2>3, Zenon DEF ReadAck, sessionVars
    <3> HIDE DEF error
    <3> QED BY <3>1, <3>2, EndsSocketType, UnchangedTypes, Zenon DEF TypeOK
  <2> QED BY <2>2, <2>3, Zenon
<1>4. CASE AcceptFrame(l)
  <2> DEFINE s == Head(queued[l])
             error == IF sess # "open" THEN "sessionExpired"
                      ELSE "sequenceGap"
  <2>1. s \in Nat /\ Tail(queued[l]) \in Seq(Nat)
    BY <1>4, QueueTypes, Zenon DEF AcceptFrame
  <2>2. <<Ack(s)>> \in Seq(ServerMessage)
    <3>1. Ack(s) \in ServerMessage
      BY <2>1, Zenon DEF Ack, ServerMessage
    <3> QED BY <3>1, SingletonFacts, Zenon
  <2>3. CASE sess = "open" /\ (NextToClaim(s) \/ ClaimedBefore(s))
    <3>1. /\ lastClient' \in {lastClient, s}
          /\ accepted' \in {accepted, Append(accepted, s)}
          /\ \/ running' = running
             \/ running' = [running EXCEPT ![l] = s]
          /\ queued' = [queued EXCEPT ![l] = Tail(@)]
          /\ s2c' = ServerWrites(l, <<Ack(s)>>)
          /\ UNCHANGED <<srv, verdict, up, c2s>>
          /\ UNCHANGED <<sess, front, nextServer, enqueued, epoch, linkEpoch,
                        written, frameDispatched, pumping, held, dispatched,
                        delivered, deferred>>
          /\ UNCHANGED <<gatewayVars, clientVars>>
      BY <1>4, <2>3, Zenon DEF AcceptFrame
    <3> HIDE DEF s
    <3>2. SessionTypes'
      BY <2>1, <3>1, Zenon DEF TypeOK, SessionTypes
    <3>3. ServerLinkTypes'
      <4>1. queued' \in [Links -> Seq(Nat)]
        BY <2>1, <3>1, ExceptType, Zenon DEF TypeOK, ServerLinkTypes
      <4>2. running' \in [Links -> Nat]
        BY <2>1, <3>1, ExceptType, Zenon DEF TypeOK, ServerLinkTypes
      <4> QED BY <3>1, <4>1, <4>2, Zenon DEF TypeOK, ServerLinkTypes
    <3>4. WireTypes'
      BY <2>2, <3>1, ServerWritesType, Zenon DEF TypeOK, WireTypes
    <3>5. LogTypes'
      <4>1. accepted' \in Seq(Nat)
        <5>1. accepted \in Seq(Nat)
          BY Zenon DEF TypeOK, LogTypes
        <5>2. Append(accepted, s) \in Seq(Nat)
          BY <2>1, <5>1, AppendFacts, Zenon
        <5> QED BY <3>1, <5>1, <5>2, Zenon
      <4> QED BY <3>1, <4>1, Zenon DEF TypeOK, LogTypes
    <3> QED BY <3>1, <3>2, <3>3, <3>4, <3>5, UnchangedTypes, Zenon DEF TypeOK
  <2>4. CASE ~(sess = "open" /\ (NextToClaim(s) \/ ClaimedBefore(s)))
    <3>1. EndsSocket(l, error) /\ error \in Reasons \union {"lost"}
      BY <1>4, <2>4, Zenon DEF AcceptFrame, Reasons
    <3>2. /\ UNCHANGED <<linkEpoch, written, frameDispatched, running,
                        pumping, held>>
          /\ UNCHANGED <<sessionVars, gatewayVars, clientVars, logVars>>
      BY <1>4, <2>4, Zenon DEF AcceptFrame, sessionVars, logVars
    <3> HIDE DEF error
    <3> QED BY <3>1, <3>2, EndsSocketType, UnchangedTypes, Zenon DEF TypeOK
  <2> QED BY <2>3, <2>4, Zenon
<1>5. CASE DispatchFrame(l)
  <2>1. running[l] \in Nat
    BY Zenon DEF TypeOK, ServerLinkTypes
  <2>2. SessionTypes' /\ GatewayTypes' /\ dispatched' \in Seq(Nat)
    BY <1>5, <2>1, RunsHandlerType, Zenon DEF DispatchFrame
  <2>3. frameDispatched' \in [Links -> BOOLEAN]
    BY <1>5, Zenon DEF DispatchFrame, TypeOK, ServerLinkTypes
  <2>4. ServerLinkTypes'
    BY <1>5, <2>3, Zenon DEF DispatchFrame, TypeOK, ServerLinkTypes, Idle
  <2>5. LogTypes'
    BY <1>5, <2>2, Zenon DEF DispatchFrame, TypeOK, LogTypes
  <2> QED BY <1>5, <2>2, <2>4, <2>5, UnchangedTypes, Zenon DEF DispatchFrame, TypeOK
<1>6. CASE DeferFrame(l)
  <2>1. ServerLinkTypes'
    BY <1>6, Zenon DEF DeferFrame, TypeOK, ServerLinkTypes, Idle
  <2>2. LogTypes'
    BY <1>6, Zenon DEF DeferFrame, TypeOK, LogTypes, ServerLinkTypes
  <2> QED BY <1>6, <2>1, <2>2, UnchangedTypes, Zenon DEF DeferFrame, TypeOK
<1>7. CASE DrainGateway(l)
  <2>1. CASE pumping' = [pumping EXCEPT ![l] = TRUE]
             /\ UNCHANGED <<srv, verdict, c2s, queued, s2c, up>>
             /\ held' = [held EXCEPT ![l] = IF live = "live" THEN outbox
                                            ELSE << >>]
             /\ outbox' = IF live = "live" THEN << >> ELSE outbox
    <3>1. GatewayTypes' /\ LogTypes' /\ ClientTypes' /\ SessionTypes'
      BY <1>7, <2>1, UnchangedTypes, EmptySeqFacts, Zenon
      DEF DrainGateway, TypeOK, GatewayTypes
    <3>2. held' \in [Links -> Seq(Messages)]
      BY <2>1, ExceptType, EmptySeqFacts, Zenon
      DEF TypeOK, ServerLinkTypes, GatewayTypes
    <3>3. pumping' \in [Links -> BOOLEAN]
      BY <2>1, Zenon DEF TypeOK, ServerLinkTypes
    <3>4. UNCHANGED <<srv, verdict, queued, linkEpoch, written,
                      frameDispatched, running>>
      BY <1>7, <2>1, Zenon DEF DrainGateway
    <3>5. ServerLinkTypes'
      BY <3>2, <3>3, <3>4, Zenon DEF TypeOK, ServerLinkTypes
    <3>6. WireTypes'
      BY <2>1, UnchangedTypes, Zenon DEF wireVars
    <3> QED BY <3>1, <3>5, <3>6, Zenon DEF TypeOK
  <2>2. CASE \E r \in {"superseded", "sessionExpired"} :
                 EndsSocket(l, r) /\ UNCHANGED <<pumping, held, outbox>>
    <3>1. PICK r \in {"superseded", "sessionExpired"} :
              EndsSocket(l, r) /\ UNCHANGED <<pumping, held, outbox>>
      BY <2>2, Zenon
    <3>2. r \in Reasons \union {"lost"}
      BY Zenon DEF Reasons
    <3>3. /\ UNCHANGED <<linkEpoch, written, frameDispatched, running,
                        pumping, held>>
          /\ UNCHANGED <<sessionVars, gatewayVars, clientVars, logVars>>
      BY <1>7, <3>1, Zenon DEF DrainGateway, gatewayVars
    <3> QED BY <3>1, <3>2, <3>3, EndsSocketType, UnchangedTypes, Zenon DEF TypeOK
  <2> QED BY <1>7, <2>1, <2>2, Zenon DEF DrainGateway
<1>8. CASE PushFrames(l)
  <2>1. SessionTypes'
    BY <1>8, QueueTypes, EnqueueType, Zenon DEF PushFrames
  <2> DEFINE error == CursorError(front', nextServer', written[l])
             frames == FramesAfter(front', enqueued', written[l])
  <2>2. frames \in Seq(ServerMessage)
    BY <2>1, FramesAfterType, Zenon DEF SessionTypes, TypeOK, ServerLinkTypes
  <2>3. error \in Reasons \union {"none"}
    BY CursorErrorType, Zenon
  <2>4. /\ pumping' = [pumping EXCEPT ![l] = FALSE]
        /\ held' = [held EXCEPT ![l] = << >>]
        /\ UNCHANGED <<linkEpoch, frameDispatched, running>>
        /\ UNCHANGED <<gatewayVars, clientVars, logVars>>
        /\ \/ /\ s2c' = ServerWrites(l, frames)
              /\ written' = [written EXCEPT ![l] = @ + Len(frames)]
              /\ UNCHANGED <<srv, verdict, c2s, queued, up>>
           \/ error # "none" /\ EndsSocket(l, error) /\ UNCHANGED written
           \/ UNCHANGED <<srv, verdict, c2s, queued, up, s2c, written>>
    BY <1>8, Zenon DEF PushFrames
  <2> HIDE DEF error, frames
  <2>5. WireTypes' /\ written' \in [Links -> Nat]
    <3>1. CASE s2c' = ServerWrites(l, frames)
               /\ written' = [written EXCEPT ![l] = @ + Len(frames)]
               /\ UNCHANGED <<srv, verdict, c2s, queued, up>>
      <4>1. WireTypes'
        BY <2>2, <3>1, ServerWritesType, Zenon DEF TypeOK, WireTypes
      <4>2. written[l] + Len(frames) \in Nat
        BY <2>2 DEF TypeOK, ServerLinkTypes
      <4> QED BY <3>1, <4>1, <4>2, ExceptType, Zenon DEF TypeOK, ServerLinkTypes
    <3>2. CASE error # "none" /\ EndsSocket(l, error) /\ UNCHANGED written
      BY <2>3, <3>2, EndsSocketType, Zenon DEF TypeOK, ServerLinkTypes
    <3>3. CASE UNCHANGED <<srv, verdict, c2s, queued, up, s2c, written>>
      BY <3>3, UnchangedTypes, Zenon DEF TypeOK, ServerLinkTypes, wireVars
    <3> QED BY <2>4, <3>1, <3>2, <3>3, Zenon
  <2>6. ServerLinkTypes'
    <3>1. held' \in [Links -> Seq(Messages)]
      BY <2>4, ExceptType, EmptySeqFacts, Zenon DEF TypeOK, ServerLinkTypes
    <3>2. pumping' \in [Links -> BOOLEAN]
      BY <2>4, Zenon DEF TypeOK, ServerLinkTypes
    <3>3. /\ srv' \in [Links -> {"unused", "hello", "open", "ended"}]
          /\ verdict' \in [Links -> Reasons \union {"none", "lost"}]
          /\ queued' \in [Links -> Seq(Nat)]
      <4>1. CASE UNCHANGED <<srv, verdict, queued>>
        BY <4>1, Zenon DEF TypeOK, ServerLinkTypes
      <4>2. CASE error # "none" /\ EndsSocket(l, error)
        BY <2>3, <4>2, EmptySeqFacts, Zenon DEF TypeOK, ServerLinkTypes, EndsSocket
      <4> QED BY <2>4, <4>1, <4>2, Zenon
    <3>4. /\ linkEpoch' \in [Links -> Nat] /\ running' \in [Links -> Nat]
          /\ frameDispatched' \in [Links -> BOOLEAN]
      BY <2>4, Zenon DEF TypeOK, ServerLinkTypes
    <3> QED BY <2>5, <3>1, <3>2, <3>3, <3>4, Zenon DEF ServerLinkTypes
  <2> QED BY <2>1, <2>4, <2>5, <2>6, UnchangedTypes, Zenon DEF TypeOK
<1>9. CASE LoseSocket(l)
  <2>1. "lost" \in Reasons \union {"lost"}
    BY Zenon
  <2> QED BY <1>9, <2>1, EndsSocketType, UnchangedTypes, Zenon DEF LoseSocket, TypeOK
<1> QED BY <1>1, <1>2, <1>3, <1>4, <1>5, <1>6, <1>7, <1>8, <1>9, Zenon
        DEF ServerStep

\* dropLink keeps the channel's types.
LEMMA DropsLinkType ==
    ASSUME TypeOK, NEW l \in Links, DropsLink(l)
    PROVE  /\ cli' \in [Links -> {"unused", "opening", "ready", "ended"}]
           /\ pendingAck' \in [Links -> Nat]
           /\ current' \in Links \union {NoLink}
           /\ link' \in Links \union {NoLink}
           /\ s2c' \in [Links -> Seq(ServerMessage)]
<1>1. s2c' \in [Links -> Seq(ServerMessage)]
  BY TakesType, Zenon DEF DropsLink
<1> QED BY <1>1, Zenon DEF TypeOK, ClientTypes, DropsLink, Idle

\* The acknowledgement flushed by a link is a client message.
LEMMA FlushedAckType ==
    ASSUME TypeOK, NEW l \in Links
    PROVE  FlushedAck(l) \in Seq(ClientMessage)
<1>1. Ack(pendingAck[l]) \in ClientMessage
  BY Zenon DEF TypeOK, ClientTypes, Ack, ClientMessage
<1>2. <<Ack(pendingAck[l])>> \in Seq(ClientMessage)
  BY <1>1, SingletonFacts, Zenon
<1>3. << >> \in Seq(ClientMessage)
  BY EmptySeqFacts, Zenon
<1> QED BY <1>2, <1>3, Zenon DEF FlushedAck

\* The client half of a link: each of its steps keeps the types.
LEMMA ClientStepTypes ==
    ASSUME TypeOK, NEW l \in Links, ClientStep(l)
    PROVE  TypeOK'
<1>1. CASE BecomeReady(l)
  <2> DEFINE kept == AckedThrough(Head(s2c[l]).n)
  <2>1. kept \in Nat
    BY <1>1, QueueTypes, ServerMessageFields, AckTypes, Zenon DEF BecomeReady
  <2>2. /\ acked' = kept /\ c2s' = ClientWrites(l, Resent(kept))
        /\ cli' = [cli EXCEPT ![l] = "ready"] /\ link' = l
        /\ s2c[l] # << >> /\ s2c' = [s2c EXCEPT ![l] = Tail(@)]
        /\ UNCHANGED <<up, pendingAck, nextClient, received, attempts,
                      current, status>>
        /\ UNCHANGED <<sessionVars, gatewayVars, serverLinkVars, logVars>>
    BY <1>1, Zenon DEF BecomeReady
  <2> HIDE DEF kept
  <2>3. WireTypes'
    <3>1. nextClient \in Nat
      BY Zenon DEF TypeOK, ClientTypes
    <3>2. Resent(kept) \in Seq(ClientMessage)
      BY <2>1, <3>1, ResentType, Zenon
    <3> QED BY <2>2, <3>2, ClientWritesType, TakesType, Zenon DEF TypeOK, WireTypes
  <2>4. ClientTypes'
    BY <2>1, <2>2, Zenon DEF TypeOK, ClientTypes
  <2> QED BY <2>2, <2>3, <2>4, UnchangedTypes, Zenon DEF TypeOK
<1>2. CASE ReceiveAck(l)
  <2>1. acked' \in Nat
    BY <1>2, QueueTypes, ServerMessageFields, AckTypes, Zenon DEF ReceiveAck
  <2>2. ClientTypes'
    BY <1>2, <2>1, Zenon DEF ReceiveAck, TypeOK, ClientTypes
  <2>3. WireTypes'
    BY <1>2, TakesType, Zenon DEF ReceiveAck, TypeOK, WireTypes
  <2> QED BY <1>2, <2>2, <2>3, UnchangedTypes, Zenon DEF ReceiveAck, TypeOK
<1>3. CASE Receive(l)
  <2> DEFINE frame == Head(s2c[l])
  <2>1. frame.n \in Nat /\ frame.message \in Messages
    BY <1>3, QueueTypes, ServerMessageFields, Zenon DEF Receive
  <2>2. /\ s2c[l] # << >>
        /\ \/ /\ delivered' = Append(delivered, frame.message)
              /\ received' = frame.n
              /\ pendingAck' = [pendingAck EXCEPT ![l] = frame.n]
              /\ s2c' = [s2c EXCEPT ![l] = Tail(@)]
              /\ UNCHANGED <<cli, current, link, c2s>>
           \/ /\ s2c' = [s2c EXCEPT ![l] = Tail(@)]
              /\ UNCHANGED <<delivered, received, pendingAck, cli, current,
                             link, c2s>>
           \/ /\ DropsLink(l)
              /\ c2s' = ClientWrites(l, FlushedAck(l))
              /\ UNCHANGED <<delivered, received>>
        /\ UNCHANGED <<up, nextClient, acked, attempts, status, accepted,
                      dispatched, deferred>>
        /\ UNCHANGED <<sessionVars, gatewayVars, serverLinkVars>>
    BY <1>3, Zenon DEF Receive
  <2> HIDE DEF frame
  <2>3. /\ s2c' \in [Links -> Seq(ServerMessage)]
        /\ c2s' \in [Links -> Seq(ClientMessage)]
    <3>1. /\ s2c' = [s2c EXCEPT ![l] = Tail(@)] \/ DropsLink(l)
          /\ c2s' = c2s \/ c2s' = ClientWrites(l, FlushedAck(l))
      BY <2>2, Zenon
    <3>2. s2c' \in [Links -> Seq(ServerMessage)]
      BY <2>2, <3>1, TakesType, DropsLinkType, ZenonT(60)
    <3>3. c2s' \in [Links -> Seq(ClientMessage)]
      BY <3>1, FlushedAckType, ClientWritesType DEF TypeOK, WireTypes
    <3> QED BY <3>2, <3>3, Zenon
  <2>4. WireTypes'
    BY <2>2, <2>3, Zenon DEF TypeOK, WireTypes
  <2>5. LogTypes'
    <3>1. \/ delivered' = delivered
          \/ delivered' = Append(delivered, frame.message)
      BY <2>2, Zenon
    <3>2. delivered' \in Seq(Messages)
      <4>1. delivered \in Seq(Messages)
        BY Zenon DEF TypeOK, LogTypes
      <4>2. Append(delivered, frame.message) \in Seq(Messages)
        BY <2>1, <4>1, AppendFacts, Zenon
      <4> QED BY <3>1, <4>1, <4>2, Zenon
    <3> QED BY <2>2, <3>2, Zenon DEF TypeOK, LogTypes
  <2>6. /\ cli' \in [Links -> {"unused", "opening", "ready", "ended"}]
        /\ pendingAck' \in [Links -> Nat] /\ received' \in Nat
        /\ current' \in Links \union {NoLink}
        /\ link' \in Links \union {NoLink}
    BY <2>1, <2>2, DropsLinkType, Zenon DEF TypeOK, ClientTypes
  <2>7. ClientTypes'
    BY <2>2, <2>6, Zenon DEF TypeOK, ClientTypes
  <2> QED BY <2>2, <2>4, <2>5, <2>7, UnchangedTypes, Zenon DEF TypeOK
<1>4. CASE FlushAck(l)
  <2>1. WireTypes'
    BY <1>4, FlushedAckType, ClientWritesType, Zenon DEF FlushAck, TypeOK, WireTypes
  <2>2. ClientTypes'
    BY <1>4, Zenon DEF FlushAck, TypeOK, ClientTypes, Idle
  <2> QED BY <1>4, <2>1, <2>2, UnchangedTypes, Zenon DEF FlushAck, TypeOK
<1>5. CASE ServerClosedLink(l)
  <2>1. WireTypes'
    BY <1>5, DropsLinkType, Zenon DEF ServerClosedLink, TypeOK, WireTypes
  <2>2. ClientTypes'
    BY <1>5, DropsLinkType, Zenon DEF ServerClosedLink, TypeOK, ClientTypes
  <2> QED BY <1>5, <2>1, <2>2, UnchangedTypes, Zenon DEF ServerClosedLink, TypeOK
<1>6. CASE LoseLink(l)
  <2>1. WireTypes'
    BY <1>6, DropsLinkType, Zenon DEF LoseLink, TypeOK, WireTypes
  <2>2. ClientTypes'
    BY <1>6, DropsLinkType, Zenon DEF LoseLink, TypeOK, ClientTypes
  <2> QED BY <1>6, <2>1, <2>2, UnchangedTypes, Zenon DEF LoseLink, TypeOK
<1> QED BY <1>1, <1>2, <1>3, <1>4, <1>5, <1>6, Zenon DEF ClientStep

\* The registry, the sockets and the channel keep the types their structs
\* declare, in every execution.
THEOREM TypeCorrect == Spec => []TypeOK
<1>1. Init => TypeOK
  <2> SUFFICES ASSUME Init PROVE TypeOK
    BY Zenon
  <2>1. WireTypes
    <3>1. <<Hello(0)>> \in Seq(ClientMessage)
      <4>1. Hello(0) \in ClientMessage
        BY Zenon DEF Hello, ClientMessage
      <4> QED BY <4>1, SingletonFacts, Zenon
    <3> QED BY <3>1, EmptySeqFacts, Zenon DEF Init, WireTypes
  <2>2. SessionTypes /\ GatewayTypes /\ LogTypes
    BY EmptySeqFacts, Zenon DEF Init, SessionTypes, GatewayTypes, LogTypes
  <2>3. ServerLinkTypes
    BY EmptySeqFacts, Zenon DEF Init, ServerLinkTypes, Idle
  <2>4. ClientTypes
    BY BoundsAssumption, SMTT(60) DEF Init, ClientTypes, Links, NoLink, Idle
  <2> QED BY <2>1, <2>2, <2>3, <2>4, Zenon DEF TypeOK
<1>2. TypeOK /\ [Next]_vars => TypeOK'
  <2> SUFFICES ASSUME TypeOK, [Next]_vars PROVE TypeOK'
    BY Zenon
  <2>1. ASSUME NEW l \in Links, ServerStep(l) PROVE TypeOK'
    BY <2>1, ServerStepTypes, Zenon
  <2>2. ASSUME NEW l \in Links, ClientStep(l) PROVE TypeOK'
    BY <2>2, ClientStepTypes, Zenon
  <2>3. ASSUME NEW l \in Links, Break(l) PROVE TypeOK'
    <3>1. c2s' \in [Links -> Seq(ClientMessage)]
      <4>1. PICK i \in 0 .. Len(c2s[l]) :
                c2s' = [c2s EXCEPT ![l] = SubSeq(c2s[l], 1, i)]
        BY <2>3, Zenon DEF Break
      <4>2. SubSeq(c2s[l], 1, i) \in Seq(ClientMessage)
        BY QueueTypes, PrefixFacts, Zenon
      <4> QED BY <4>1, <4>2, ExceptType, Zenon DEF TypeOK, WireTypes
    <3>2. s2c' \in [Links -> Seq(ServerMessage)]
      <4>1. PICK i \in 0 .. Len(s2c[l]) :
                s2c' = [s2c EXCEPT ![l] = SubSeq(s2c[l], 1, i)]
        BY <2>3, Zenon DEF Break
      <4>2. SubSeq(s2c[l], 1, i) \in Seq(ServerMessage)
        BY QueueTypes, PrefixFacts, Zenon
      <4> QED BY <4>1, <4>2, ExceptType, Zenon DEF TypeOK, WireTypes
    <3>3. WireTypes'
      BY <2>3, <3>1, <3>2, Zenon DEF Break, TypeOK, WireTypes
    <3> QED BY <2>3, <3>3, UnchangedTypes, Zenon DEF Break, TypeOK
  <2>4. ASSUME NEW n \in deferred, RunDeferred(n) PROVE TypeOK'
    <3>1. n \in Nat
      BY Zenon DEF TypeOK, LogTypes
    <3>2. SessionTypes' /\ GatewayTypes' /\ dispatched' \in Seq(Nat)
      BY <2>4, <3>1, RunsHandlerType, Zenon DEF RunDeferred
    <3>3. LogTypes'
      BY <2>4, <3>2, Zenon DEF RunDeferred, TypeOK, LogTypes
    <3> QED BY <2>4, <3>2, <3>3, UnchangedTypes, Zenon DEF RunDeferred, TypeOK
  <2>5. CASE EmitEvent
    <3>1. Event(emitted + 1) \in Messages
      BY DEF Event, Messages, TypeOK, GatewayTypes
    <3>2. outbox' \in Seq(Messages)
      BY <2>5, <3>1, AppendFacts, Zenon DEF EmitEvent, TypeOK, GatewayTypes
    <3>3. GatewayTypes'
      BY <2>5, <3>2 DEF EmitEvent, TypeOK, GatewayTypes
    <3> QED BY <2>5, <3>3, UnchangedTypes, Zenon DEF EmitEvent, TypeOK
  <2>6. CASE ExpireClient
    <3>1. GatewayTypes'
      BY <2>6, Zenon DEF ExpireClient, TypeOK, GatewayTypes
    <3> QED BY <2>6, <3>1, UnchangedTypes, Zenon DEF ExpireClient, TypeOK
  <2>7. CASE Restart
    <3>1. SessionTypes' /\ GatewayTypes' /\ LogTypes'
      BY <2>7, EmptySeqFacts, Zenon
      DEF Restart, TypeOK, SessionTypes, GatewayTypes, LogTypes
    <3>2. ServerLinkTypes'
      <4>1. /\ queued' \in [Links -> Seq(Nat)]
            /\ held' \in [Links -> Seq(Messages)]
        BY <2>7, EmptySeqFacts, Zenon DEF Restart
      <4>2. /\ srv' \in [Links -> {"unused", "hello", "open", "ended"}]
            /\ verdict' \in [Links -> Reasons \union {"none", "lost"}]
        BY <2>7, Zenon DEF Restart, TypeOK, ServerLinkTypes
      <4>3. /\ running' \in [Links -> Nat] /\ pumping' \in [Links -> BOOLEAN]
            /\ UNCHANGED <<linkEpoch, written, frameDispatched>>
        BY <2>7, Zenon DEF Restart, Idle
      <4> QED BY <4>1, <4>2, <4>3, Zenon DEF TypeOK, ServerLinkTypes
    <3>3. WireTypes'
      <4>1. c2s' \in [Links -> Seq(ClientMessage)]
        BY <2>7, EmptySeqFacts, Zenon DEF Restart, TypeOK, WireTypes
      <4> QED BY <2>7, <4>1, Zenon DEF Restart, TypeOK, WireTypes
    <3> QED BY <2>7, <3>1, <3>2, <3>3, UnchangedTypes, Zenon DEF Restart, TypeOK
  <2>8. CASE Send
    <3>1. ClientTypes'
      BY <2>8 DEF Send, TypeOK, ClientTypes
    <3>2. <<ClientFrame(nextClient)>> \in Seq(ClientMessage)
      <4>1. ClientFrame(nextClient) \in ClientMessage
        BY Zenon DEF ClientFrame, ClientMessage, TypeOK, ClientTypes
      <4> QED BY <4>1, SingletonFacts, Zenon
    <3>3. c2s' \in [Links -> Seq(ClientMessage)]
      BY <2>8, <3>2, ClientWritesType, Zenon
      DEF Send, TypeOK, WireTypes, ClientTypes
    <3>4. WireTypes'
      BY <2>8, <3>3, Zenon DEF Send, TypeOK, WireTypes
    <3> QED BY <2>8, <3>1, <3>4, UnchangedTypes, Zenon DEF Send, TypeOK
  <2>9. CASE Resume
    <3>1. attempts + 1 \in Links
      BY <2>9, BoundsAssumption, SMTT(60) DEF Resume, TypeOK, ClientTypes, Links
    <3>2. ClientTypes'
      BY <2>9, <3>1, Zenon DEF Resume, TypeOK, ClientTypes
    <3>3. ServerLinkTypes'
      BY <2>9, <3>1, Zenon DEF Resume, TypeOK, ServerLinkTypes
    <3>4. <<Hello(received)>> \in Seq(ClientMessage)
      <4>1. Hello(received) \in ClientMessage
        BY Zenon DEF Hello, ClientMessage, TypeOK, ClientTypes
      <4> QED BY <4>1, SingletonFacts
    <3>5. c2s' \in [Links -> Seq(ClientMessage)]
      <4>1. c2s' = [c2s EXCEPT ![attempts + 1] = <<Hello(received)>>]
        BY <2>9, Zenon DEF Resume
      <4>2. c2s \in [Links -> Seq(ClientMessage)]
        BY Zenon DEF TypeOK, WireTypes
      <4> QED BY <3>1, <3>4, <4>1, <4>2, ExceptType, Zenon
    <3>6. WireTypes'
      <4>1. up' = up /\ s2c' = s2c
        BY <2>9, Zenon DEF Resume
      <4> QED BY <3>5, <4>1, Zenon DEF TypeOK, WireTypes
    <3> QED BY <2>9, <3>2, <3>3, <3>6, UnchangedTypes, Zenon DEF Resume, TypeOK
  <2>10. CASE CloseChannel
    <3>1. CASE current # NoLink
      <4>1. current \in Links
        BY <3>1, Zenon DEF TypeOK, ClientTypes
      <4>2. /\ DropsLink(current)
            /\ c2s' = ClientWrites(current, FlushedAck(current))
        BY <2>10, <3>1, Zenon DEF CloseChannel
      <4>3. WireTypes'
        BY <2>10, <4>1, <4>2, DropsLinkType, FlushedAckType, ClientWritesType, Zenon
        DEF CloseChannel, TypeOK, WireTypes
      <4>4. ClientTypes'
        BY <2>10, <4>1, <4>2, DropsLinkType, Zenon
        DEF CloseChannel, TypeOK, ClientTypes
      <4> QED BY <2>10, <4>3, <4>4, UnchangedTypes, Zenon DEF CloseChannel, TypeOK
    <3>2. CASE current = NoLink
      <4>1. ClientTypes'
        BY <2>10, <3>2, Zenon DEF CloseChannel, TypeOK, ClientTypes
      <4>2. WireTypes'
        BY <2>10, <3>2, Zenon DEF CloseChannel, TypeOK, WireTypes
      <4> QED BY <2>10, <4>1, <4>2, UnchangedTypes, Zenon DEF CloseChannel, TypeOK
    <3> QED BY <3>1, <3>2, Zenon
  <2>11. CASE UNCHANGED vars
    BY <2>11, UnchangedTypes, Zenon DEF vars, TypeOK
  <2> QED BY <2>1, <2>2, <2>3, <2>4, <2>5, <2>6, <2>7, <2>8, <2>9, <2>10,
             <2>11, Zenon DEF Next
<1> QED BY <1>1, <1>2, PTL DEF Spec

(***************************************************************************)
(* The numbers and the wires of a step.                                    *)
(***************************************************************************)

\* What no step takes back: claims, sends, receipts and the server sequence.
Grows ==
    /\ lastClient' >= lastClient /\ nextClient' >= nextClient
    /\ received' >= received /\ Len(enqueued') >= Len(enqueued)
    /\ \A i \in 1 .. Len(enqueued) : enqueued'[i] = enqueued[i]

\* The numbers the invariant compares.
LEMMA NumberTypes ==
    ASSUME TypeOK
    PROVE  /\ lastClient \in Nat /\ front \in Nat /\ nextServer \in Nat
           /\ epoch \in Nat /\ nextClient \in Nat /\ acked \in Nat
           /\ received \in Nat /\ ReplayWindow \in Nat
           /\ enqueued \in Seq(Messages) /\ Len(enqueued) \in Nat
           /\ delivered \in Seq(Messages) /\ Len(delivered) \in Nat
           /\ \A l \in Links : pendingAck[l] \in Nat /\ running[l] \in Nat
<1>1. /\ lastClient \in Nat /\ front \in Nat /\ nextServer \in Nat
      /\ epoch \in Nat /\ enqueued \in Seq(Messages)
  BY Zenon DEF TypeOK, SessionTypes
<1>2. /\ nextClient \in Nat /\ acked \in Nat /\ received \in Nat
      /\ \A l \in Links : pendingAck[l] \in Nat
  BY Zenon DEF TypeOK, ClientTypes
<1>3. \A l \in Links : running[l] \in Nat
  BY Zenon DEF TypeOK, ServerLinkTypes
<1>4. delivered \in Seq(Messages) /\ ReplayWindow \in Nat
  BY BoundsAssumption, Zenon DEF TypeOK, LogTypes
<1> QED BY <1>1, <1>2, <1>3, <1>4

\* The counters of the registry and of the channel are natural numbers.
LEMMA Counters ==
    ASSUME TypeOK
    PROVE  /\ lastClient \in Nat /\ nextClient \in Nat /\ acked \in Nat
           /\ received \in Nat /\ front \in Nat /\ nextServer \in Nat
           /\ Len(enqueued) \in Nat /\ Len(delivered) \in Nat
           /\ ReplayWindow \in Nat
BY NumberTypes, Zenon

\* Where the elements of a longer sequence are.
LEMMA AppendedAt ==
    ASSUME NEW S, NEW q \in Seq(S), NEW x \in S
    PROVE  /\ Len(Append(q, x)) = Len(q) + 1
           /\ Append(q, x)[Len(q) + 1] = x
           /\ \A i \in 1 .. Len(q) : Append(q, x)[i] = q[i]
OBVIOUS

\* What is on the wire after a write was there before or was just written.
LEMMA ServerWritesElems ==
    ASSUME TypeOK, NEW l \in Links, NEW msgs \in Seq(ServerMessage),
           NEW k \in Links
    PROVE  Elems(ServerWrites(l, msgs)[k])
             \subseteq Elems(s2c[k]) \union Elems(msgs)
<1>1. s2c[k] \in Seq(ServerMessage)
  BY QueueTypes, Zenon
<1>2. Elems(s2c[k] \o msgs) \subseteq Elems(s2c[k]) \union Elems(msgs)
  BY <1>1, ConcatFacts, Zenon
<1>3. ServerWrites(l, msgs)[k] \in {s2c[k], s2c[k] \o msgs}
  BY Zenon DEF ServerWrites, TypeOK, WireTypes
<1> QED BY <1>2, <1>3, Zenon

\* What the channel writes to a link adds only its own messages to that wire.
LEMMA ClientWritesElems ==
    ASSUME TypeOK, NEW l \in Links, NEW msgs \in Seq(ClientMessage),
           NEW k \in Links
    PROVE  Elems(ClientWrites(l, msgs)[k])
             \subseteq Elems(c2s[k]) \union Elems(msgs)
<1>1. c2s[k] \in Seq(ClientMessage)
  BY QueueTypes, Zenon
<1>2. Elems(c2s[k] \o msgs) \subseteq Elems(c2s[k]) \union Elems(msgs)
  BY <1>1, ConcatFacts
<1>3. ClientWrites(l, msgs)[k] \in {c2s[k], c2s[k] \o msgs}
  BY Zenon DEF ClientWrites, TypeOK, WireTypes
<1> QED BY <1>2, <1>3, ZenonT(60)

\* Taking a message off a queue, or dropping the queue, adds none.
LEMMA TakesElems ==
    ASSUME NEW S, NEW f \in [Links -> Seq(S)], NEW l \in Links, NEW k \in Links
    PROVE  /\ f[l] # << >> =>
                Elems([f EXCEPT ![l] = Tail(@)][k]) \subseteq Elems(f[k])
           /\ Elems([f EXCEPT ![l] = << >>][k]) \subseteq Elems(f[k])
<1>1. f[l] # << >> => Elems(Tail(f[l])) \subseteq Elems(f[l])
  BY TailFacts, Zenon
<1>2. Elems(<< >>) = {}
  BY EmptySeqFacts, Zenon
<1> QED BY <1>1, <1>2, Zenon

\* The wire invariant holds after a step that takes nothing back and adds only
\* messages that are true when it ends.
LEMMA WireStep ==
    ASSUME TypeOK, TypeOK', WireInv, Grows,
           \A k \in Links :
               /\ \A m \in Elems(c2s'[k]) : m \in Elems(c2s[k]) \/ UpOK(m)'
               /\ \A m \in Elems(s2c'[k]) : m \in Elems(s2c[k]) \/ DownOK(m)'
               /\ \A n \in Elems(queued'[k]) :
                      n \in Elems(queued[k]) \/ n < nextClient'
               /\ pendingAck'[k] = pendingAck[k] \/ pendingAck'[k] <= received'
    PROVE  WireInv'
<1> SUFFICES ASSUME NEW k \in Links
             PROVE  /\ \A m \in Elems(c2s'[k]) : UpOK(m)'
                    /\ \A m \in Elems(s2c'[k]) : DownOK(m)'
                    /\ \A n \in Elems(queued'[k]) : n < nextClient'
                    /\ pendingAck'[k] <= received'
  BY Zenon DEF WireInv
<1>1. /\ lastClient \in Nat /\ nextClient \in Nat /\ received \in Nat
      /\ lastClient' \in Nat /\ nextClient' \in Nat /\ received' \in Nat
      /\ Len(enqueued) \in Nat /\ Len(enqueued') \in Nat
      /\ pendingAck[k] \in Nat /\ pendingAck'[k] \in Nat
  BY NumberTypes, SMTT(60) DEF TypeOK, SessionTypes, ClientTypes
<1>2. ASSUME NEW m \in Elems(c2s'[k]) PROVE UpOK(m)'
  <2>1. CASE m \in Elems(c2s[k])
    <3>1. UpOK(m)
      BY <2>1, Zenon DEF WireInv
    <3>2. m.n \in Nat
      <4>1. m \in ClientMessage
        BY <2>1, QueueTypes DEF Elems
      <4> QED BY <4>1, Zenon DEF ClientMessage
    <3> QED BY <1>1, <3>1, <3>2 DEF UpOK, Grows
  <2> QED BY <1>2, <2>1, Zenon
<1>3. ASSUME NEW m \in Elems(s2c'[k]) PROVE DownOK(m)'
  <2>1. CASE m \in Elems(s2c[k])
    <3>1. DownOK(m)
      BY <2>1, Zenon DEF WireInv
    <3>2. m \in ServerMessage
      BY <2>1, QueueTypes DEF Elems
    <3>3. m.type \in {"ready", "ack"} => m.n \in Nat
      BY <3>2, ServerMessageFields, Zenon
    <3> QED BY <1>1, <3>1, <3>3 DEF DownOK, Grows
  <2> QED BY <1>3, <2>1, Zenon
<1>4. ASSUME NEW n \in Elems(queued'[k]) PROVE n < nextClient'
  <2>1. CASE n \in Elems(queued[k])
    <3>1. n < nextClient
      BY <2>1, Zenon DEF WireInv
    <3>2. n \in Nat
      BY <2>1, QueueTypes DEF Elems
    <3> QED BY <1>1, <3>1, <3>2 DEF Grows
  <2> QED BY <1>4, <2>1, Zenon
<1>5. pendingAck'[k] <= received'
  BY <1>1 DEF WireInv, Grows
<1> QED BY <1>2, <1>3, <1>4, <1>5, Zenon

\* A step that leaves a part of the state alone keeps what is said of it.
LEMMA UnchangedUp ==
    ASSUME UpInv, UNCHANGED <<lastClient, nextClient, acked, accepted>>
    PROVE  UpInv'
BY Zenon DEF UpInv

\* A step that touches no dispatcher keeps what is known of claimed frames.
LEMMA UnchangedDispatch ==
    ASSUME DispatchInv, UNCHANGED <<running, dispatched, deferred, lastClient>>
    PROVE  DispatchInv'
BY Zenon DEF DispatchInv

\* A step that neither enqueues, evicts nor applies keeps the server's stream.
LEMMA UnchangedDown ==
    ASSUME DownInv,
           UNCHANGED <<received, delivered, nextServer, enqueued, front>>
    PROVE  DownInv'
BY Zenon DEF DownInv

\* Enqueueing extends the server sequence, and evicts only what the window
\* no longer holds.
LEMMA EnqueueStep ==
    ASSUME TypeOK, DownInv, NEW msgs \in Seq(Messages), Enqueue(msgs),
           UNCHANGED <<received, delivered>>
    PROVE  /\ DownInv'
           /\ Len(enqueued') >= Len(enqueued)
           /\ \A i \in 1 .. Len(enqueued) : enqueued'[i] = enqueued[i]
<1>1. CASE sess = "open"
  <2>1. /\ enqueued' = enqueued \o msgs
        /\ nextServer' = nextServer + Len(msgs)
        /\ front' = Larger(front, nextServer + Len(msgs) - ReplayWindow)
    BY <1>1, Zenon DEF Enqueue
  <2>2. /\ enqueued \in Seq(Messages) /\ Len(msgs) \in Nat
        /\ Len(enqueued') = Len(enqueued) + Len(msgs)
    BY <2>1, NumberTypes, ConcatFacts
  <2>3. \A i \in 1 .. Len(enqueued) : enqueued'[i] = enqueued[i]
    BY <2>1, <2>2
  <2>4. front' <= Larger(received' + 1, nextServer' - ReplayWindow)
    <3>1. /\ front \in Nat /\ nextServer \in Nat /\ received \in Nat
          /\ ReplayWindow \in Nat
      BY NumberTypes, Zenon
    <3>2. front <= Larger(received + 1, nextServer - ReplayWindow)
      BY Zenon DEF DownInv
    <3>3. received' = received
      BY Zenon
    <3> QED BY <2>1, <2>2, <3>1, <3>2, <3>3 DEF Larger
  <2>5. /\ received' = Len(delivered') /\ received' < nextServer'
        /\ nextServer' = Len(enqueued') + 1
    BY <2>1, <2>2, NumberTypes DEF DownInv
  <2>6. \A i \in 1 .. received' : delivered'[i] = enqueued'[i]
    BY <2>3, NumberTypes, SMTT(60) DEF DownInv
  <2>7. DownInv'
    BY <2>4, <2>5, <2>6, Zenon DEF DownInv
  <2>8. Len(enqueued') >= Len(enqueued)
    BY <2>2, NumberTypes
  <2> QED BY <2>3, <2>7, <2>8, Zenon
<1>2. CASE sess # "open"
  BY <1>2, NumberTypes, UnchangedDown DEF Enqueue
<1> QED BY <1>1, <1>2, Zenon

\* An acknowledgement of what the client applied drops nothing it still needs.
LEMMA FrontAfterAckStep ==
    ASSUME TypeOK, DownInv, NEW t \in Nat, t <= received,
           front' = FrontAfterAck(t),
           UNCHANGED <<received, delivered, nextServer, enqueued>>
    PROVE  DownInv'
BY NumberTypes DEF DownInv, FrontAfterAck, Larger, Smaller

\* The frames frames_after returns carry the messages of the log.
LEMMA FramesAfterElems ==
    ASSUME NEW f \in Nat, NEW log \in Seq(Messages), NEW after \in Nat,
           NEW m \in Elems(FramesAfter(f, log, after))
    PROVE  /\ m.type = "frame" /\ m.n \in 1 .. Len(log)
           /\ m.message = log[m.n]
<1> DEFINE first == Larger(f, after + 1)
           len == Larger(0, Len(log) - first + 1)
<1>1. first \in Nat /\ first >= 1 /\ len \in Nat
  BY DEF Larger
<1>2. \A i \in 1 .. len : first + i - 1 \in 1 .. Len(log)
  BY <1>1 DEF Larger
<1>3. FramesAfter(f, log, after) =
        [i \in 1 .. len |-> ServerFrame(first + i - 1, log[first + i - 1])]
  BY Zenon DEF FramesAfter
<1> HIDE DEF first, len
<1>4. PICK i \in 1 .. len :
          m = ServerFrame(first + i - 1, log[first + i - 1])
  <2>1. Len(FramesAfter(f, log, after)) = len
    BY <1>1, <1>3
  <2> QED BY <1>1, <1>3, <2>1, Zenon DEF Elems
<1> QED BY <1>2, <1>4, Zenon DEF ServerFrame

\* Ending a socket writes at most a close and takes everything else back.
LEMMA EndsSocketElems ==
    ASSUME TypeOK, NEW l \in Links, NEW r \in Reasons \union {"lost"},
           EndsSocket(l, r), NEW k \in Links
    PROVE  /\ Elems(c2s'[k]) \subseteq Elems(c2s[k])
           /\ Elems(queued'[k]) \subseteq Elems(queued[k])
           /\ \A m \in Elems(s2c'[k]) : m \in Elems(s2c[k])
                                          \/ m.type = "close"
<1>1. Elems(c2s'[k]) \subseteq Elems(c2s[k])
  BY TakesElems, Zenon DEF EndsSocket, TypeOK, WireTypes
<1>2. Elems(queued'[k]) \subseteq Elems(queued[k])
  BY TakesElems, Zenon DEF EndsSocket, TypeOK, ServerLinkTypes
<1>3. CASE r = "lost"
  <2>1. PICK none : none = << >>
    BY Zenon
  <2>2. s2c' = ServerWrites(l, none)
    BY <1>3, <2>1, Zenon DEF EndsSocket
  <2>3. none \in Seq(ServerMessage) /\ Elems(none) = {}
    BY <2>1, EmptySeqFacts, Zenon
  <2> HIDE <2>1
  <2>4. Elems(s2c'[k]) \subseteq Elems(s2c[k])
    BY <2>2, <2>3, ServerWritesElems, ZenonT(60)
  <2> QED BY <1>1, <1>2, <2>4, ZenonT(60)
<1>4. CASE r # "lost"
  <2>1. s2c' = ServerWrites(l, <<Close(r)>>)
    BY <1>4, Zenon DEF EndsSocket
  <2>2. Close(r) \in ServerMessage
    BY <1>4, Zenon DEF Close, ServerMessage
  <2>3. <<Close(r)>> \in Seq(ServerMessage) /\ Elems(<<Close(r)>>) = {Close(r)}
    BY <2>2, SingletonFacts, Zenon
  <2>4. Elems(s2c'[k]) \subseteq Elems(s2c[k]) \union {Close(r)}
    BY <2>1, <2>3, ServerWritesElems, Zenon
  <2>5. Close(r).type = "close"
    BY Zenon DEF Close
  <2> QED BY <1>1, <1>2, <2>4, <2>5, Zenon
<1> QED BY <1>3, <1>4, Zenon

\* A step that ends a socket and otherwise leaves the wire and what it counts
\* alone keeps the wire invariant.
LEMMA EndsSocketStep ==
    ASSUME TypeOK, TypeOK', WireInv, Grows,
           NEW l \in Links, NEW r \in Reasons \union {"lost"},
           EndsSocket(l, r), UNCHANGED pendingAck
    PROVE  WireInv'
<1>1. ASSUME NEW k \in Links
      PROVE  /\ \A m \in Elems(c2s'[k]) : m \in Elems(c2s[k]) \/ UpOK(m)'
             /\ \A m \in Elems(s2c'[k]) : m \in Elems(s2c[k]) \/ DownOK(m)'
             /\ \A n \in Elems(queued'[k]) :
                    n \in Elems(queued[k]) \/ n < nextClient'
             /\ pendingAck'[k] = pendingAck[k]
  <2>1. \A m \in Elems(s2c'[k]) : m \in Elems(s2c[k]) \/ DownOK(m)'
    BY EndsSocketElems, Zenon DEF DownOK
  <2> QED BY <2>1, EndsSocketElems, Zenon
<1> QED BY <1>1, WireStep, Zenon

\* A step that moves no counter lets none of them shrink.
LEMMA GrowsTrivially ==
    ASSUME TypeOK, UNCHANGED <<lastClient, nextClient, received, enqueued>>
    PROVE  Grows
BY NumberTypes DEF Grows

\* The messages at the heads of a link's queues are true.
LEMMA HeadsOK ==
    ASSUME TypeOK, WireInv, NEW l \in Links
    PROVE  /\ c2s[l] # << >> => UpOK(Head(c2s[l]))
           /\ s2c[l] # << >> => DownOK(Head(s2c[l]))
           /\ queued[l] # << >> => Head(queued[l]) < nextClient
<1>1. /\ c2s[l] # << >> => Head(c2s[l]) \in Elems(c2s[l])
      /\ s2c[l] # << >> => Head(s2c[l]) \in Elems(s2c[l])
      /\ queued[l] # << >> => Head(queued[l]) \in Elems(queued[l])
  BY QueueTypes, TailFacts, Zenon
<1> QED BY <1>1, Zenon DEF WireInv

\* A client message that carries a cursor carries one the client applied.
LEMMA CursorApplied ==
    ASSUME TypeOK, WireInv, NEW l \in Links, c2s[l] # << >>,
           Head(c2s[l]).type # "frame"
    PROVE  Head(c2s[l]).n \in Nat /\ Head(c2s[l]).n <= received
<1>1. Head(c2s[l]) \in ClientMessage
  BY QueueTypes, Zenon
<1>2. Head(c2s[l]).type \in {"hello", "ack"} /\ Head(c2s[l]).n \in Nat
  BY <1>1, Zenon DEF ClientMessage
<1> QED BY <1>2, HeadsOK, Zenon DEF UpOK

\* accept_client_frame keeps the invariant: what it claims is new, and what it
\* acknowledges is claimed.
LEMMA AcceptFrameStep ==
    ASSUME TypeOK, TypeOK', SessionInv, NEW l \in Links, AcceptFrame(l)
    PROVE  SessionInv'
<1>1. /\ Head(queued[l]) \in Nat /\ Head(queued[l]) < nextClient
      /\ queued[l] # << >>
  BY QueueTypes, HeadsOK, Zenon DEF AcceptFrame, SessionInv
<1> PICK s \in Nat : s = Head(queued[l])
  BY <1>1, Zenon
<1> DEFINE error == IF sess # "open" THEN "sessionExpired"
                    ELSE "sequenceGap"
<1>2. UNCHANGED <<nextClient, received, enqueued, pendingAck, acked,
                  delivered, nextServer, front, dispatched, deferred>>
  BY Zenon DEF AcceptFrame, clientVars
<1>3. DownInv'
  BY <1>2, UnchangedDown, Zenon DEF SessionInv
<1>4. CASE sess = "open" /\ (NextToClaim(s) \/ ClaimedBefore(s))
  <2>1. /\ queued' = [queued EXCEPT ![l] = Tail(@)]
        /\ s2c' = ServerWrites(l, <<Ack(s)>>) /\ c2s' = c2s
        /\ running[l] = Idle
        /\ \/ /\ NextToClaim(s) /\ lastClient' = s
              /\ accepted' = Append(accepted, s)
              /\ running' = [running EXCEPT ![l] = s]
           \/ ClaimedBefore(s) /\ UNCHANGED <<lastClient, accepted, running>>
    BY <1>4, Zenon DEF AcceptFrame
  <2>2. lastClient' >= lastClient /\ s <= lastClient' /\ lastClient \in Nat
    BY <1>1, <2>1, NumberTypes, SMTT(60) DEF NextToClaim, ClaimedBefore
  <2>3. Grows
    BY <1>2, <2>2, NumberTypes DEF Grows
  <2>4. WireInv'
    <3>1. Ack(s) \in ServerMessage /\ DownOK(Ack(s))'
      <4>1. Ack(s) \in ServerMessage
        BY <1>1, Zenon DEF Ack, ServerMessage
      <4>2. Ack(s).type = "ack" /\ Ack(s).n = s
        BY Zenon DEF Ack
      <4> QED BY <2>2, <4>1, <4>2, Zenon DEF DownOK
    <3>2. /\ <<Ack(s)>> \in Seq(ServerMessage)
          /\ Elems(<<Ack(s)>>) = {Ack(s)}
      BY <3>1, SingletonFacts, Zenon
    <3>3. \A k \in Links :
              Elems(s2c'[k]) \subseteq Elems(s2c[k]) \union {Ack(s)}
      BY <2>1, <3>2, ServerWritesElems, Zenon
    <3>4. \A k \in Links : Elems(queued'[k]) \subseteq Elems(queued[k])
      BY <1>1, <2>1, TakesElems, Zenon DEF TypeOK, ServerLinkTypes
    <3>5. ASSUME NEW k \in Links
          PROVE  /\ \A m \in Elems(c2s'[k]) : m \in Elems(c2s[k])
                 /\ \A m \in Elems(s2c'[k]) :
                        m \in Elems(s2c[k]) \/ DownOK(m)'
                 /\ \A n \in Elems(queued'[k]) : n \in Elems(queued[k])
                 /\ pendingAck'[k] = pendingAck[k]
      BY <1>2, <2>1, <3>1, <3>3, <3>4, Zenon
    <3> QED BY <2>3, <3>5, WireStep, Zenon DEF SessionInv
  <2>5. UpInv' /\ DispatchInv'
    <3>1. CASE UNCHANGED <<lastClient, accepted, running>>
      BY <1>2, <3>1, UnchangedUp, UnchangedDispatch, Zenon DEF SessionInv
    <3>2. CASE /\ NextToClaim(s) /\ lastClient' = s
               /\ accepted' = Append(accepted, s)
               /\ running' = [running EXCEPT ![l] = s]
      <4>1. s = lastClient + 1 /\ lastClient' = lastClient + 1
        BY <3>2, Zenon DEF NextToClaim
      <4>2. UpInv'
        <5>1. accepted \in Seq(Nat)
          BY Zenon DEF TypeOK, LogTypes
        <5>2. /\ Len(accepted') = Len(accepted) + 1
              /\ \A i \in 1 .. Len(accepted') :
                     accepted'[i] = IF i = Len(accepted) + 1 THEN s
                                    ELSE accepted[i]
          BY <1>1, <3>2, <5>1
        <5>3. /\ Len(accepted) = lastClient /\ lastClient \in Nat
              /\ \A i \in 1 .. Len(accepted) : accepted[i] = i
              /\ nextClient \in Nat /\ nextClient' = nextClient
              /\ acked \in Nat /\ acked' = acked /\ acked <= lastClient
          BY <1>2, NumberTypes, Zenon DEF UpInv, SessionInv
        <5>4. \A i \in 1 .. Len(accepted') : accepted'[i] = i
          BY <4>1, <5>2, <5>3
        <5> QED BY <1>1, <4>1, <5>2, <5>3, <5>4 DEF UpInv
      <4>3. DispatchInv'
        <5>1. Elems(dispatched') \union deferred' \subseteq 1 .. lastClient'
              /\ Elems(dispatched') = Elems(dispatched)
              /\ deferred' = deferred
              /\ lastClient + 1 \notin Elems(dispatched) \union deferred
          BY <1>2, <2>2, <4>1 DEF DispatchInv, SessionInv
        <5>2. \A k \in Links : running[k] \in Nat /\ running[k] <= lastClient
          BY <2>2, NumberTypes DEF DispatchInv, SessionInv, Idle
        <5>3. \A k \in Links : running'[k] = IF k = l THEN s ELSE running[k]
          BY <3>2, Zenon DEF TypeOK, ServerLinkTypes
        <5>4. \A k \in Links : running'[k] # Idle =>
                 /\ running'[k] <= lastClient'
                 /\ running'[k] \notin Elems(dispatched') \union deferred'
                 /\ \A j \in Links : j # k => running'[j] # running'[k]
          <6> SUFFICES ASSUME NEW k \in Links, running'[k] # Idle
                       PROVE  /\ running'[k] <= lastClient'
                              /\ running'[k] \notin Elems(dispatched')
                                                     \union deferred'
                              /\ \A j \in Links : j # k =>
                                     running'[j] # running'[k]
            BY Zenon
          <6>1. CASE k = l
            BY <2>2, <4>1, <5>1, <5>2, <5>3, <6>1, SMTT(60)
          <6>2. CASE k # l
            BY <2>2, <4>1, <5>1, <5>2, <5>3, <6>2, SMTT(60) DEF DispatchInv, SessionInv
          <6> QED BY <6>1, <6>2, Zenon
        <5> QED BY <1>2, <5>1, <5>4, Zenon DEF DispatchInv, SessionInv
      <4> QED BY <4>2, <4>3, Zenon
    <3> QED BY <2>1, <3>1, <3>2, Zenon
  <2> QED BY <1>3, <2>4, <2>5, Zenon DEF SessionInv
<1>5. CASE ~(sess = "open" /\ (NextToClaim(s) \/ ClaimedBefore(s)))
  <2>1. /\ EndsSocket(l, error) /\ error \in Reasons \union {"lost"}
        /\ UNCHANGED <<lastClient, accepted, running>>
    BY <1>5, Zenon DEF AcceptFrame, Reasons
  <2> HIDE DEF error
  <2> QED BY <1>2, <1>3, <2>1, EndsSocketStep, GrowsTrivially, UnchangedUp,
             UnchangedDispatch, Zenon DEF SessionInv
<1> QED BY <1>4, <1>5, Zenon

\* Appending a new number keeps the numbers of a sequence distinct.
LEMMA AppendDistinct ==
    ASSUME NEW q \in Seq(Nat), NEW n \in Nat, n \notin Elems(q),
           \A i, j \in 1 .. Len(q) : q[i] = q[j] => i = j
    PROVE  /\ \A i, j \in 1 .. Len(Append(q, n)) :
                  Append(q, n)[i] = Append(q, n)[j] => i = j
           /\ Elems(Append(q, n)) = Elems(q) \union {n}
<1>1. /\ Len(Append(q, n)) = Len(q) + 1 /\ Append(q, n)[Len(q) + 1] = n
      /\ \A i \in 1 .. Len(q) : Append(q, n)[i] = q[i]
  OBVIOUS
<1>2. \A i \in 1 .. Len(q) : q[i] # n
  BY Zenon DEF Elems
<1>3. \A i \in 1 .. Len(q) + 1 : i \in 1 .. Len(q) \/ i = Len(q) + 1
  OBVIOUS
<1>4. Elems(Append(q, n)) = Elems(q) \union {n}
  BY <1>1, <1>3 DEF Elems
<1> QED BY <1>1, <1>2, <1>3, <1>4, Zenon

\* Running the handler of a claimed frame that has not run: it is dispatched
\* once, and its reply extends the server sequence.
LEMMA RunsHandlerStep ==
    ASSUME TypeOK, TypeOK', SessionInv, NEW n \in Nat, RunsHandler(n),
           n \notin Elems(dispatched), UNCHANGED <<wireVars, clientVars>>,
           UNCHANGED <<queued, lastClient, accepted, delivered>>
    PROVE  /\ WireInv' /\ UpInv' /\ DownInv'
           /\ \A i, j \in 1 .. Len(dispatched') :
                  dispatched'[i] = dispatched'[j] => i = j
           /\ Elems(dispatched') = Elems(dispatched) \union {n}
<1>1. PICK replies \in {<< >>, <<Reply(n)>>} : Enqueue(replies)
  BY Zenon DEF RunsHandler
<1>2. replies \in Seq(Messages)
  <2>1. Reply(n) \in Messages
    BY Zenon DEF Reply, Messages
  <2>2. << >> \in Seq(Messages)
    BY EmptySeqFacts, Zenon
  <2>3. <<Reply(n)>> \in Seq(Messages)
    BY <2>1, SingletonFacts, Zenon
  <2> QED BY <1>1, <2>2, <2>3, Zenon
<1>3. /\ DownInv' /\ Len(enqueued') >= Len(enqueued)
      /\ \A i \in 1 .. Len(enqueued) : enqueued'[i] = enqueued[i]
  BY <1>1, <1>2, EnqueueStep, Zenon DEF SessionInv, clientVars
<1>4. Grows
  BY <1>3, NumberTypes DEF Grows, clientVars
<1>5. UNCHANGED <<c2s, s2c, queued, pendingAck, nextClient, acked>>
  BY Zenon DEF wireVars, clientVars
<1>6. WireInv'
  BY <1>4, <1>5, WireStep, Zenon DEF SessionInv
<1>7. UpInv'
  BY <1>5, UnchangedUp, Zenon DEF SessionInv
<1>8. dispatched' = Append(dispatched, n) /\ dispatched \in Seq(Nat)
  BY Zenon DEF RunsHandler, TypeOK, LogTypes
<1>9. \A i, j \in 1 .. Len(dispatched) : dispatched[i] = dispatched[j] => i = j
  BY Zenon DEF SessionInv, DispatchInv
<1> QED BY <1>3, <1>6, <1>7, <1>8, <1>9, AppendDistinct, Zenon

\* Each step of the server half of a link keeps the invariant.
LEMMA ServerStepInv ==
    ASSUME TypeOK, TypeOK', SessionInv, NEW l \in Links, ServerStep(l)
    PROVE  SessionInv'
<1>1. CASE OpenSessionLink(l)
  <2>1. UNCHANGED <<lastClient, nextClient, acked, accepted, running,
                    dispatched, deferred, received, delivered, nextServer,
                    enqueued, pendingAck>>
    BY <1>1, Zenon DEF OpenSessionLink, clientVars, logVars
  <2>2. UpInv' /\ DispatchInv' /\ Grows
    BY <2>1, UnchangedUp, UnchangedDispatch, GrowsTrivially, Zenon DEF SessionInv
  <2> DEFINE cursor == Head(c2s[l]).n
             error == HelloError(l)
  <2>3. CASE error = "none"
    <3>1. /\ front' = FrontAfterAck(cursor)
          /\ c2s[l] # << >> /\ c2s' = [c2s EXCEPT ![l] = Tail(@)]
          /\ s2c' = ServerWrites(l, <<Ready(lastClient)>>)
          /\ UNCHANGED queued
      BY <1>1, <2>3, Zenon DEF OpenSessionLink
    <3>2. cursor \in Nat /\ cursor <= received
      BY <1>1, <2>3, CursorApplied, Zenon DEF OpenSessionLink, SessionInv, HelloError
    <3> HIDE DEF error
    <3>3. DownInv'
      BY <2>1, <3>1, <3>2, FrontAfterAckStep, Zenon DEF SessionInv
    <3>4. \A k \in Links : Elems(c2s'[k]) \subseteq Elems(c2s[k])
      BY <3>1, TakesElems, Zenon DEF TypeOK, WireTypes
    <3>5. PICK ready : ready = Ready(lastClient)
      BY Zenon
    <3>6. ready \in ServerMessage /\ DownOK(ready)'
      <4>1. ready \in ServerMessage
        BY <3>5, NumberTypes, Zenon DEF Ready, ServerMessage
      <4>2. ready.type = "ready" /\ ready.n = lastClient'
        BY <2>1, <3>5, Zenon DEF Ready
      <4>3. lastClient' \in Nat
        BY <2>1, NumberTypes, Zenon
      <4> QED BY <4>1, <4>2, <4>3 DEF DownOK
    <3>7. <<ready>> \in Seq(ServerMessage) /\ Elems(<<ready>>) = {ready}
      BY <3>6, SingletonFacts, Zenon
    <3>8. \A k \in Links :
              Elems(s2c'[k]) \subseteq Elems(s2c[k]) \union {ready}
      BY <3>1, <3>5, <3>7, ServerWritesElems, Zenon
    <3>9. ASSUME NEW k \in Links
          PROVE  /\ \A m \in Elems(c2s'[k]) : m \in Elems(c2s[k])
                 /\ \A m \in Elems(s2c'[k]) :
                        m \in Elems(s2c[k]) \/ DownOK(m)'
                 /\ \A n \in Elems(queued'[k]) : n \in Elems(queued[k])
                 /\ pendingAck'[k] = pendingAck[k]
      BY <2>1, <3>1, <3>4, <3>6, <3>8, Zenon
    <3>10. WireInv'
      BY <2>2, <3>9, WireStep, Zenon DEF SessionInv
    <3> QED BY <2>2, <3>3, <3>10, Zenon DEF SessionInv
  <2>4. CASE error # "none"
    <3>1. /\ EndsSocket(l, error) /\ error \in Reasons \union {"lost"}
          /\ UNCHANGED front
      BY <1>1, <2>4, HelloErrorType, Zenon DEF OpenSessionLink
    <3> HIDE DEF error
    <3>2. DownInv'
      BY <2>1, <3>1, UnchangedDown, Zenon DEF SessionInv
    <3>3. WireInv'
      BY <2>1, <2>2, <3>1, EndsSocketStep, Zenon DEF SessionInv
    <3> QED BY <2>2, <3>2, <3>3 DEF SessionInv
  <2> QED BY <2>3, <2>4, Zenon
<1>2. CASE ReadFrame(l)
  <2>1. UNCHANGED <<lastClient, nextClient, acked, accepted, running,
                    dispatched, deferred, received, delivered, nextServer,
                    enqueued, front, pendingAck, s2c>>
    BY <1>2, Zenon DEF ReadFrame, sessionVars, clientVars, logVars
  <2>2. UpInv' /\ DispatchInv' /\ DownInv' /\ Grows
    BY <2>1, UnchangedUp, UnchangedDispatch, UnchangedDown, GrowsTrivially, Zenon
    DEF SessionInv
  <2>3. ASSUME NEW k \in Links
        PROVE  /\ Elems(c2s'[k]) \subseteq Elems(c2s[k])
               /\ \A n \in Elems(queued'[k]) :
                      n \in Elems(queued[k]) \/ n < nextClient'
    <3>1. Elems(c2s'[k]) \subseteq Elems(c2s[k])
      BY <1>2, TakesElems, Zenon DEF ReadFrame, TypeOK, WireTypes
    <3>2. Head(c2s[l]).n < nextClient /\ Head(c2s[l]).n \in Nat
      <4>1. c2s[l] # << >> /\ Head(c2s[l]).type = "frame"
        BY <1>2, Zenon DEF ReadFrame
      <4>2. UpOK(Head(c2s[l])) /\ Head(c2s[l]).n \in Nat
        BY <4>1, HeadsOK, QueueTypes, Zenon DEF SessionInv
      <4> QED BY <4>1, <4>2, Zenon DEF UpOK
    <3>3. queued'[k] \in {queued[k], Append(queued[k], Head(c2s[l]).n)}
      BY <1>2, Zenon DEF ReadFrame, TypeOK, ServerLinkTypes
    <3>4. Elems(Append(queued[k], Head(c2s[l]).n))
            \subseteq Elems(queued[k]) \union {Head(c2s[l]).n}
      <4>1. queued[k] \in Seq(Nat)
        BY QueueTypes, Zenon
      <4> QED BY <3>2, <4>1, AppendFacts
    <3> QED BY <2>1, <3>1, <3>2, <3>3, <3>4, Zenon
  <2>4. WireInv'
    BY <2>1, <2>2, <2>3, WireStep, Zenon DEF SessionInv
  <2> QED BY <2>2, <2>4, Zenon DEF SessionInv
<1>3. CASE ReadAck(l)
  <2>1. UNCHANGED <<lastClient, nextClient, acked, accepted, running,
                    dispatched, deferred, received, delivered, nextServer,
                    enqueued, pendingAck>>
    BY <1>3, Zenon DEF ReadAck, clientVars, logVars
  <2>2. UpInv' /\ DispatchInv' /\ Grows
    BY <2>1, UnchangedUp, UnchangedDispatch, GrowsTrivially DEF SessionInv
  <2>3. Head(c2s[l]).n \in Nat /\ Head(c2s[l]).n <= received
    BY <1>3, CursorApplied, Zenon DEF ReadAck, SessionInv
  <2> DEFINE through == Head(c2s[l]).n
             error == CursorError(front, nextServer, through)
  <2>4. CASE error = "none"
    <3>1. /\ front' = FrontAfterAck(through)
          /\ c2s[l] # << >> /\ c2s' = [c2s EXCEPT ![l] = Tail(@)]
          /\ UNCHANGED <<queued, s2c>>
      BY <1>3, <2>4, Zenon DEF ReadAck
    <3> HIDE DEF error
    <3>2. DownInv'
      BY <2>1, <2>3, <3>1, FrontAfterAckStep, Zenon DEF SessionInv
    <3>3. \A k \in Links : Elems(c2s'[k]) \subseteq Elems(c2s[k])
      BY <3>1, TakesElems, Zenon DEF TypeOK, WireTypes
    <3>4. WireInv'
      BY <2>1, <2>2, <3>1, <3>3, WireStep, Zenon DEF SessionInv
    <3> QED BY <2>2, <3>2, <3>4 DEF SessionInv
  <2>5. CASE error # "none"
    <3>1. /\ EndsSocket(l, error) /\ error \in Reasons \union {"lost"}
          /\ UNCHANGED front
      BY <1>3, <2>5, CursorErrorType, Zenon DEF ReadAck
    <3> HIDE DEF error
    <3>2. DownInv'
      BY <2>1, <3>1, UnchangedDown DEF SessionInv
    <3>3. WireInv'
      BY <2>1, <2>2, <3>1, EndsSocketStep DEF SessionInv
    <3> QED BY <2>2, <3>2, <3>3 DEF SessionInv
  <2> QED BY <2>4, <2>5, Zenon
<1>4. CASE AcceptFrame(l)
  BY <1>4, AcceptFrameStep, Zenon
<1>5. CASE DispatchFrame(l)
  <2>1. /\ running[l] \in Nat /\ running[l] # Idle
        /\ running[l] \notin Elems(dispatched) \union deferred
        /\ running[l] <= lastClient
    BY <1>5, NumberTypes, Zenon DEF DispatchFrame, SessionInv, DispatchInv
  <2>2. /\ RunsHandler(running[l])
        /\ running' = [running EXCEPT ![l] = Idle]
        /\ UNCHANGED <<queued, lastClient, accepted, delivered, deferred>>
        /\ UNCHANGED <<wireVars, clientVars>>
    BY <1>5, Zenon DEF DispatchFrame
  <2>3. /\ WireInv' /\ UpInv' /\ DownInv'
        /\ \A i, j \in 1 .. Len(dispatched') :
               dispatched'[i] = dispatched'[j] => i = j
        /\ Elems(dispatched') = Elems(dispatched) \union {running[l]}
    BY <2>1, <2>2, RunsHandlerStep, Zenon
  <2>4. \A k \in Links : running'[k] = IF k = l THEN Idle ELSE running[k]
    BY <2>2, Zenon DEF TypeOK, ServerLinkTypes
  <2>5. Elems(dispatched') \union deferred' \subseteq 1 .. lastClient'
    BY <2>1, <2>2, <2>3 DEF SessionInv, DispatchInv, Idle
  <2>6. DispatchInv'
    BY <2>1, <2>2, <2>3, <2>4, <2>5, SMTT(60) DEF SessionInv, DispatchInv
  <2> QED BY <2>3, <2>6, Zenon DEF SessionInv
<1>6. CASE DeferFrame(l)
  <2>1. /\ running' = [running EXCEPT ![l] = Idle]
        /\ deferred' = deferred \union {running[l]}
        /\ UNCHANGED <<lastClient, nextClient, acked, accepted, dispatched,
                      received, delivered, nextServer, enqueued, front,
                      pendingAck, c2s, s2c, queued>>
    BY <1>6, Zenon
    DEF DeferFrame, sessionVars, wireVars, clientVars
  <2>2. UpInv' /\ DownInv' /\ Grows
    BY <2>1, UnchangedUp, UnchangedDown, GrowsTrivially, Zenon DEF SessionInv
  <2>3. WireInv'
    BY <2>1, <2>2, WireStep, Zenon DEF SessionInv
  <2>4. /\ running[l] \in 1 .. lastClient
        /\ running[l] \notin Elems(dispatched) \union deferred
        /\ \A k \in Links : k # l => running[k] # running[l]
    BY <1>6, NumberTypes, SMTT(60) DEF DeferFrame, SessionInv, DispatchInv, Idle
  <2>5. \A k \in Links : running'[k] = IF k = l THEN Idle ELSE running[k]
    BY <2>1, Zenon DEF TypeOK, ServerLinkTypes
  <2>6. DispatchInv'
    BY <2>1, <2>4, <2>5, SMTT(60) DEF SessionInv, DispatchInv
  <2> QED BY <2>2, <2>3, <2>6, Zenon DEF SessionInv
<1>7. CASE DrainGateway(l)
  <2>1. UNCHANGED <<lastClient, nextClient, acked, accepted, running,
                    dispatched, deferred, received, delivered, nextServer,
                    enqueued, front, pendingAck>>
    BY <1>7, Zenon DEF DrainGateway, sessionVars, clientVars, logVars
  <2>2. UpInv' /\ DispatchInv' /\ DownInv' /\ Grows
    BY <2>1, UnchangedUp, UnchangedDispatch, UnchangedDown, GrowsTrivially, Zenon
    DEF SessionInv
  <2>3. CASE UNCHANGED <<c2s, queued, s2c>>
    BY <2>1, <2>2, <2>3, WireStep, Zenon DEF SessionInv
  <2>4. CASE \E r \in {"superseded", "sessionExpired"} : EndsSocket(l, r)
    <3>1. PICK r \in {"superseded", "sessionExpired"} : EndsSocket(l, r)
      BY <2>4, Zenon
    <3>2. r \in Reasons \union {"lost"}
      BY Zenon DEF Reasons
    <3>3. WireInv'
      BY <2>1, <2>2, <3>1, <3>2, EndsSocketStep, Zenon DEF SessionInv
    <3> QED BY <2>2, <3>3, Zenon DEF SessionInv
  <2> QED BY <1>7, <2>3, <2>4, Zenon DEF DrainGateway
<1>8. CASE PushFrames(l)
  <2>1. UNCHANGED <<lastClient, nextClient, acked, accepted, running,
                    dispatched, deferred, received, delivered, pendingAck>>
    BY <1>8, Zenon DEF PushFrames, clientVars, logVars
  <2>2. UpInv' /\ DispatchInv'
    BY <2>1, UnchangedUp, UnchangedDispatch, Zenon DEF SessionInv
  <2>3. /\ DownInv' /\ Len(enqueued') >= Len(enqueued)
        /\ \A i \in 1 .. Len(enqueued) : enqueued'[i] = enqueued[i]
    BY <1>8, <2>1, QueueTypes, EnqueueStep, Zenon DEF PushFrames, SessionInv
  <2>4. Grows
    BY <2>1, <2>3, Counters DEF Grows
  <2> DEFINE error == CursorError(front', nextServer', written[l])
  <2>5. PICK frames : frames = FramesAfter(front', enqueued', written[l])
    BY Zenon
  <2>6. /\ front' \in Nat /\ enqueued' \in Seq(Messages)
        /\ written[l] \in Nat
    BY Zenon DEF TypeOK, SessionTypes, ServerLinkTypes
  <2>7. /\ frames \in Seq(ServerMessage)
        /\ \A m \in Elems(frames) : DownOK(m)'
    <3>1. frames \in Seq(ServerMessage)
      BY <2>5, <2>6, FramesAfterType, Zenon
    <3>2. \A m \in Elems(frames) :
              /\ m.type = "frame" /\ m.n \in 1 .. Len(enqueued')
              /\ m.message = enqueued'[m.n]
      BY <2>5, <2>6, FramesAfterElems, Zenon
    <3> QED BY <3>1, <3>2, Zenon DEF DownOK
  <2>8. CASE UNCHANGED <<c2s, queued>> /\ s2c' = ServerWrites(l, frames)
    <3>1. \A k \in Links :
              Elems(s2c'[k]) \subseteq Elems(s2c[k]) \union Elems(frames)
      BY <2>7, <2>8, ServerWritesElems, Zenon
    <3>2. ASSUME NEW k \in Links
          PROVE  /\ \A m \in Elems(c2s'[k]) : m \in Elems(c2s[k])
                 /\ \A m \in Elems(s2c'[k]) :
                        m \in Elems(s2c[k]) \/ DownOK(m)'
                 /\ \A n \in Elems(queued'[k]) : n \in Elems(queued[k])
                 /\ pendingAck'[k] = pendingAck[k]
      BY <2>1, <2>7, <2>8, <3>1, Zenon
    <3>3. WireInv'
      BY <2>4, <3>2, WireStep, Zenon DEF SessionInv
    <3> QED BY <2>2, <2>3, <3>3, Zenon DEF SessionInv
  <2>9. CASE EndsSocket(l, error) /\ error # "none"
    <3>1. error \in Reasons \union {"lost"}
      BY <2>9, CursorErrorType, Zenon
    <3> HIDE DEF error
    <3>2. WireInv'
      BY <2>1, <2>4, <2>9, <3>1, EndsSocketStep, Zenon DEF SessionInv
    <3> QED BY <2>2, <2>3, <3>2 DEF SessionInv
  <2>10. CASE UNCHANGED <<c2s, queued, s2c>>
    BY <2>1, <2>2, <2>3, <2>4, <2>10, WireStep, Zenon DEF SessionInv
  <2> QED BY <1>8, <2>5, <2>8, <2>9, <2>10, Zenon DEF PushFrames
<1>9. CASE LoseSocket(l)
  <2>1. UNCHANGED <<lastClient, nextClient, acked, accepted, running,
                    dispatched, deferred, received, delivered, nextServer,
                    enqueued, front, pendingAck>>
    BY <1>9, Zenon DEF LoseSocket, sessionVars, clientVars, logVars
  <2>2. UpInv' /\ DispatchInv' /\ DownInv' /\ Grows
    BY <2>1, UnchangedUp, UnchangedDispatch, UnchangedDown, GrowsTrivially
    DEF SessionInv
  <2>3. "lost" \in Reasons \union {"lost"} /\ EndsSocket(l, "lost")
    BY <1>9, Zenon DEF LoseSocket
  <2>4. WireInv'
    BY <2>1, <2>2, <2>3, EndsSocketStep, Zenon DEF SessionInv
  <2> QED BY <2>2, <2>4 DEF SessionInv
<1> QED BY <1>1, <1>2, <1>3, <1>4, <1>5, <1>6, <1>7, <1>8, <1>9, Zenon
        DEF ServerStep

\* Dropping a link adds nothing to the wire but the acknowledgement it owes.
LEMMA FlushedAckElems ==
    ASSUME TypeOK, TypeOK', WireInv, NEW l \in Links, received' = received,
           NEW m \in Elems(FlushedAck(l))
    PROVE  UpOK(m)'
<1>1. CASE pendingAck[l] = Idle
  BY <1>1, EmptySeqFacts, Zenon DEF FlushedAck
<1>2. CASE pendingAck[l] # Idle
  <2>1. Ack(pendingAck[l]) \in ClientMessage
    BY Zenon DEF TypeOK, ClientTypes, Ack, ClientMessage
  <2>2. m = Ack(pendingAck[l])
    BY <1>2, <2>1, SingletonFacts, Zenon DEF FlushedAck
  <2>3. m.type = "ack" /\ m.n = pendingAck[l]
    BY <2>2, Zenon DEF Ack
  <2> QED BY <2>3, Zenon DEF UpOK, WireInv
<1> QED BY <1>1, <1>2, Zenon

\* A step of the client that drops its link and flushes at most its
\* acknowledgement keeps the wire invariant.
LEMMA DropsLinkStep ==
    ASSUME TypeOK, TypeOK', WireInv, NEW l \in Links, DropsLink(l),
           c2s' = c2s \/ c2s' = ClientWrites(l, FlushedAck(l)),
           UNCHANGED <<lastClient, nextClient, received, enqueued, queued>>
    PROVE  WireInv'
<1>1. Grows
  BY GrowsTrivially, Zenon
<1>2. ASSUME NEW k \in Links
      PROVE  /\ \A m \in Elems(c2s'[k]) : m \in Elems(c2s[k]) \/ UpOK(m)'
             /\ \A m \in Elems(s2c'[k]) : m \in Elems(s2c[k])
             /\ pendingAck'[k] = pendingAck[k] \/ pendingAck'[k] <= received'
  <2>1. Elems(s2c'[k]) \subseteq Elems(s2c[k])
    BY TakesElems, Zenon DEF DropsLink, TypeOK, WireTypes
  <2>2. Elems(c2s'[k]) \subseteq Elems(c2s[k]) \union Elems(FlushedAck(l))
    BY FlushedAckType, ClientWritesElems, Zenon
  <2>3. pendingAck'[k] \in {pendingAck[k], 0}
    BY Zenon DEF DropsLink, TypeOK, ClientTypes, Idle
  <2>4. received' \in Nat
    BY NumberTypes, Zenon
  <2> QED BY <2>1, <2>2, <2>3, <2>4, FlushedAckElems, SMTT(60)
<1> QED BY <1>1, <1>2, WireStep, Zenon

\* Settling the server's cursor forgets only claimed frames.
LEMMA AckedThroughStep ==
    ASSUME TypeOK, UpInv, NEW t \in Nat, t <= lastClient,
           acked' = AckedThrough(t),
           UNCHANGED <<lastClient, nextClient, accepted>>
    PROVE  UpInv' /\ AckedThrough(t) \in Nat
BY NumberTypes DEF UpInv, AckedThrough, Larger, Smaller

\* The frames resent after a resume are frames the client has sent.
LEMMA ResentElems ==
    ASSUME TypeOK, NEW kept \in Nat, NEW m \in Elems(Resent(kept))
    PROVE  m.type = "frame" /\ m.n < nextClient
<1>1. nextClient \in Nat
  BY NumberTypes, Zenon
<1>2. PICK i \in 1 .. nextClient - 1 - kept : m = ClientFrame(kept + i)
  <2>1. CASE nextClient - 1 - kept \in Nat
    <3>1. Len(Resent(kept)) = nextClient - 1 - kept
      BY <2>1 DEF Resent
    <3> QED BY <3>1, Zenon DEF Elems, Resent
  <2>2. CASE nextClient - 1 - kept \notin Nat
    <3>1. 1 .. nextClient - 1 - kept = 1 .. 0
      BY <1>1, <2>2
    <3>2. Resent(kept) = [i \in 1 .. 0 |-> ClientFrame(kept + i)]
      BY <3>1, Zenon DEF Resent
    <3>3. Len(Resent(kept)) = 0
      BY <3>2
    <3> QED BY <3>3 DEF Elems
  <2> QED BY <2>1, <2>2, Zenon
<1> QED BY <1>1, <1>2 DEF ClientFrame

\* Each step of the client half of a link keeps the invariant.
LEMMA ClientStepInv ==
    ASSUME TypeOK, TypeOK', SessionInv, NEW l \in Links, ClientStep(l)
    PROVE  SessionInv'
<1>1. CASE BecomeReady(l)
  <2>1. /\ s2c[l] # << >> /\ Head(s2c[l]).type = "ready"
        /\ acked' = AckedThrough(Head(s2c[l]).n)
        /\ c2s' = ClientWrites(l, Resent(AckedThrough(Head(s2c[l]).n)))
        /\ s2c' = [s2c EXCEPT ![l] = Tail(@)]
        /\ UNCHANGED <<lastClient, nextClient, accepted, running, dispatched,
                      deferred, received, delivered, nextServer, enqueued,
                      front, pendingAck, queued>>
    BY <1>1, Zenon DEF BecomeReady, sessionVars, serverLinkVars, logVars
  <2>2. Head(s2c[l]).n \in Nat /\ Head(s2c[l]).n <= lastClient
    BY <2>1, QueueTypes, ServerMessageFields, HeadsOK, Zenon DEF DownOK, SessionInv
  <2>3. UpInv' /\ AckedThrough(Head(s2c[l]).n) \in Nat
    BY <2>1, <2>2, AckedThroughStep, Zenon DEF SessionInv
  <2>4. DispatchInv' /\ DownInv' /\ Grows
    BY <2>1, UnchangedDispatch, UnchangedDown, GrowsTrivially, Zenon DEF SessionInv
  <2>5. PICK kept \in Nat : kept = AckedThrough(Head(s2c[l]).n)
    BY <2>3, Zenon
  <2>6. Resent(kept) \in Seq(ClientMessage)
    BY NumberTypes, ResentType, Zenon
  <2>7. ASSUME NEW k \in Links
        PROVE  /\ \A m \in Elems(c2s'[k]) : m \in Elems(c2s[k]) \/ UpOK(m)'
               /\ \A m \in Elems(s2c'[k]) : m \in Elems(s2c[k])
    <3>1. Elems(s2c'[k]) \subseteq Elems(s2c[k])
      BY <2>1, TakesElems, Zenon DEF TypeOK, WireTypes
    <3>2. Elems(c2s'[k]) \subseteq Elems(c2s[k]) \union Elems(Resent(kept))
      BY <2>1, <2>5, <2>6, ClientWritesElems, Zenon
    <3>3. \A m \in Elems(Resent(kept)) : UpOK(m)'
      BY <2>1, ResentElems, Zenon DEF UpOK
    <3> QED BY <3>1, <3>2, <3>3, Zenon
  <2>8. WireInv'
    BY <2>1, <2>4, <2>7, WireStep, Zenon DEF SessionInv
  <2> QED BY <2>3, <2>4, <2>8, Zenon DEF SessionInv
<1>2. CASE ReceiveAck(l)
  <2>1. /\ s2c[l] # << >> /\ Head(s2c[l]).type = "ack"
        /\ acked' = AckedThrough(Head(s2c[l]).n)
        /\ s2c' = [s2c EXCEPT ![l] = Tail(@)]
        /\ UNCHANGED <<lastClient, nextClient, accepted, running, dispatched,
                      deferred, received, delivered, nextServer, enqueued,
                      front, pendingAck, queued, c2s>>
    BY <1>2, Zenon DEF ReceiveAck, sessionVars, serverLinkVars, logVars
  <2>2. Head(s2c[l]).n \in Nat /\ Head(s2c[l]).n <= lastClient
    BY <2>1, QueueTypes, ServerMessageFields, HeadsOK, Zenon DEF DownOK, SessionInv
  <2>3. UpInv'
    BY <2>1, <2>2, AckedThroughStep, Zenon DEF SessionInv
  <2>4. DispatchInv' /\ DownInv' /\ Grows
    BY <2>1, UnchangedDispatch, UnchangedDown, GrowsTrivially, Zenon DEF SessionInv
  <2>5. \A k \in Links : Elems(s2c'[k]) \subseteq Elems(s2c[k])
    BY <2>1, TakesElems, Zenon DEF TypeOK, WireTypes
  <2>6. WireInv'
    BY <2>1, <2>4, <2>5, WireStep, Zenon DEF SessionInv
  <2> QED BY <2>3, <2>4, <2>6, Zenon DEF SessionInv
<1>3. CASE Receive(l)
  <2>1. PICK frame : frame = Head(s2c[l])
    BY Zenon
  <2>2. /\ frame.type = "frame" /\ frame.n \in 1 .. Len(enqueued)
        /\ frame.message = enqueued[frame.n] /\ s2c[l] # << >>
    BY <1>3, <2>1, HeadsOK, Zenon DEF Receive, DownOK, SessionInv
  <2>3. UNCHANGED <<lastClient, nextClient, acked, accepted, running,
                    dispatched, deferred, nextServer, enqueued, front, queued>>
    BY <1>3, Zenon DEF Receive, sessionVars, serverLinkVars
  <2>4. UpInv' /\ DispatchInv'
    BY <2>3, UnchangedUp, UnchangedDispatch, Zenon DEF SessionInv
  <2>5. CASE DropsLink(l) /\ c2s' = ClientWrites(l, FlushedAck(l))
             /\ UNCHANGED <<delivered, received>>
    <3>1. WireInv'
      BY <2>3, <2>5, DropsLinkStep, Zenon DEF SessionInv
    <3>2. DownInv'
      BY <2>3, <2>5, UnchangedDown, Zenon DEF SessionInv
    <3> QED BY <2>4, <3>1, <3>2, Zenon DEF SessionInv
  <2>6. CASE s2c' = [s2c EXCEPT ![l] = Tail(@)]
             /\ UNCHANGED <<delivered, received, pendingAck, c2s>>
    <3>1. Grows /\ DownInv'
      BY <2>3, <2>6, GrowsTrivially, UnchangedDown, Zenon DEF SessionInv
    <3>2. \A k \in Links : Elems(s2c'[k]) \subseteq Elems(s2c[k])
      BY <2>2, <2>6, TakesElems, Zenon DEF TypeOK, WireTypes
    <3>3. WireInv'
      BY <2>3, <2>6, <3>1, <3>2, WireStep, Zenon DEF SessionInv
    <3> QED BY <2>4, <3>1, <3>3, Zenon DEF SessionInv
  <2>7. CASE /\ frame.n = received + 1
             /\ delivered' = Append(delivered, frame.message)
             /\ received' = frame.n
             /\ pendingAck' = [pendingAck EXCEPT ![l] = frame.n]
             /\ s2c' = [s2c EXCEPT ![l] = Tail(@)]
             /\ UNCHANGED c2s
    <3>1. Grows
      BY <2>3, <2>7, NumberTypes DEF Grows
    <3>2. DownInv'
      <4>1. /\ received = Len(delivered) /\ delivered \in Seq(Messages)
            /\ nextServer = Len(enqueued) + 1 /\ received \in Nat
            /\ Len(enqueued) \in Nat /\ front \in Nat /\ ReplayWindow \in Nat
            /\ \A i \in 1 .. received : delivered[i] = enqueued[i]
            /\ front <= Larger(received + 1, nextServer - ReplayWindow)
        BY NumberTypes, Zenon DEF DownInv, SessionInv
      <4>2. frame.message \in Messages
        BY <2>2, NumberTypes
      <4>3. /\ Len(delivered') = received + 1
            /\ delivered'[received + 1] = enqueued[received + 1]
            /\ \A i \in 1 .. received : delivered'[i] = delivered[i]
        <5>1. /\ Len(delivered') = Len(delivered) + 1
              /\ delivered'[Len(delivered) + 1] = frame.message
              /\ \A i \in 1 .. Len(delivered) : delivered'[i] = delivered[i]
          BY <2>7, <4>1, <4>2, AppendedAt
        <5> QED BY <2>2, <2>7, <4>1, <5>1, Zenon
      <4>4. \A i \in 1 .. received' : delivered'[i] = enqueued'[i]
        <5> TAKE i \in 1 .. received'
        <5>1. i \in 1 .. received \/ i = received + 1
          BY <2>7, Counters
        <5> QED BY <2>3, <4>1, <4>3, <5>1, Zenon
      <4>5. /\ received' = Len(delivered') /\ received' < nextServer'
            /\ nextServer' = Len(enqueued') + 1
        <5>1. /\ received' = Len(delivered') /\ nextServer' = nextServer
              /\ Len(enqueued') = Len(enqueued)
          BY <2>3, <2>7, <4>1, <4>3, Zenon
        <5>2. received + 1 <= Len(enqueued)
          BY <2>2, <2>7, Counters
        <5> QED BY <2>7, <4>1, <5>1, <5>2, Counters
      <4>6. front' <= Larger(received' + 1, nextServer' - ReplayWindow)
        <5>1. /\ front' = front /\ received' = received + 1
              /\ nextServer' = nextServer
          BY <2>3, <2>7, Zenon
        <5>2. front <= Larger(received + 1, nextServer - ReplayWindow)
          BY <4>1, Zenon
        <5> HIDE <4>1
        <5> QED BY <5>1, <5>2, Counters DEF Larger
      <4> QED BY <4>4, <4>5, <4>6, Zenon DEF DownInv
    <3>3. ASSUME NEW k \in Links
          PROVE  /\ \A m \in Elems(s2c'[k]) : m \in Elems(s2c[k])
                 /\ pendingAck'[k] = pendingAck[k]
                    \/ pendingAck'[k] <= received'
      <4>1. Elems(s2c'[k]) \subseteq Elems(s2c[k])
        BY <2>2, <2>7, TakesElems, Zenon DEF TypeOK, WireTypes
      <4>2. pendingAck'[k] \in {pendingAck[k], received'}
        BY <2>7, Zenon DEF TypeOK, ClientTypes
      <4>3. received' \in Nat
        BY <2>2, <2>7
      <4> QED BY <4>1, <4>2, <4>3, SMTT(60)
    <3>4. WireInv'
      BY <2>3, <2>7, <3>1, <3>3, WireStep, Zenon DEF SessionInv
    <3> QED BY <2>4, <3>2, <3>4, Zenon DEF SessionInv
  <2> QED BY <1>3, <2>1, <2>5, <2>6, <2>7, Zenon DEF Receive
<1>4. CASE FlushAck(l)
  <2>1. /\ c2s' = ClientWrites(l, FlushedAck(l))
        /\ pendingAck' = [pendingAck EXCEPT ![l] = Idle]
        /\ UNCHANGED <<lastClient, nextClient, acked, accepted, running,
                      dispatched, deferred, received, delivered, nextServer,
                      enqueued, front, queued, s2c>>
    BY <1>4, Zenon DEF FlushAck, sessionVars, serverLinkVars, logVars
  <2>2. UpInv' /\ DispatchInv' /\ DownInv' /\ Grows
    BY <2>1, UnchangedUp, UnchangedDispatch, UnchangedDown, GrowsTrivially, Zenon
    DEF SessionInv
  <2>3. ASSUME NEW k \in Links
        PROVE  /\ \A m \in Elems(c2s'[k]) : m \in Elems(c2s[k]) \/ UpOK(m)'
               /\ pendingAck'[k] = pendingAck[k]
                  \/ pendingAck'[k] <= received'
    <3>1. Elems(c2s'[k]) \subseteq Elems(c2s[k]) \union Elems(FlushedAck(l))
      BY <2>1, FlushedAckType, ClientWritesElems, Zenon
    <3>2. pendingAck'[k] \in {pendingAck[k], 0}
      BY <2>1, Zenon DEF TypeOK, ClientTypes, Idle
    <3>3. received' \in Nat
      BY <2>1, NumberTypes, Zenon
    <3>4. \A m \in Elems(FlushedAck(l)) : UpOK(m)'
      BY <2>1, FlushedAckElems, Zenon DEF SessionInv
    <3>5. pendingAck'[k] = pendingAck[k] \/ pendingAck'[k] <= received'
      BY <3>2, <3>3
    <3> QED BY <3>1, <3>4, <3>5, Zenon
  <2>4. WireInv'
    BY <2>1, <2>2, <2>3, WireStep, Zenon DEF SessionInv
  <2> QED BY <2>2, <2>4 DEF SessionInv
<1>5. CASE ServerClosedLink(l) \/ LoseLink(l)
  <2>1. /\ DropsLink(l)
        /\ UNCHANGED <<lastClient, nextClient, acked, accepted, running,
                      dispatched, deferred, received, delivered, nextServer,
                      enqueued, front, queued, c2s>>
    BY <1>5, Zenon
    DEF ServerClosedLink, LoseLink, sessionVars, serverLinkVars, logVars
  <2>2. UpInv' /\ DispatchInv' /\ DownInv'
    BY <2>1, UnchangedUp, UnchangedDispatch, UnchangedDown, Zenon DEF SessionInv
  <2>3. WireInv'
    BY <2>1, DropsLinkStep, Zenon DEF SessionInv
  <2> QED BY <2>2, <2>3, Zenon DEF SessionInv
<1> QED BY <1>1, <1>2, <1>3, <1>4, <1>5, Zenon DEF ClientStep

\* Every step keeps the invariant, given the types before and after it.
LEMMA NextInv ==
    ASSUME TypeOK, TypeOK', SessionInv, [Next]_vars
    PROVE  SessionInv'
<1>1. ASSUME NEW l \in Links, ServerStep(l) PROVE SessionInv'
  BY <1>1, ServerStepInv, Zenon
<1>2. ASSUME NEW l \in Links, ClientStep(l) PROVE SessionInv'
  BY <1>2, ClientStepInv, Zenon
<1>3. ASSUME NEW l \in Links, Break(l) PROVE SessionInv'
  <2>1. UNCHANGED <<lastClient, nextClient, acked, accepted, running,
                    dispatched, deferred, received, delivered, nextServer,
                    enqueued, front, queued, pendingAck>>
    BY <1>3, Zenon DEF Break, sessionVars, serverLinkVars, clientVars, logVars
  <2>2. UpInv' /\ DispatchInv' /\ DownInv' /\ Grows
    BY <2>1, UnchangedUp, UnchangedDispatch, UnchangedDown, GrowsTrivially, Zenon
    DEF SessionInv
  <2>3. \A k \in Links : Elems(c2s'[k]) \subseteq Elems(c2s[k])
    <3>1. PICK i \in 0 .. Len(c2s[l]) :
              c2s' = [c2s EXCEPT ![l] = SubSeq(c2s[l], 1, i)]
      BY <1>3, Zenon DEF Break
    <3>2. Elems(SubSeq(c2s[l], 1, i)) \subseteq Elems(c2s[l])
      BY QueueTypes, PrefixFacts, Zenon
    <3> QED BY <3>1, <3>2, Zenon DEF TypeOK, WireTypes
  <2>4. \A k \in Links : Elems(s2c'[k]) \subseteq Elems(s2c[k])
    <3>1. PICK i \in 0 .. Len(s2c[l]) :
              s2c' = [s2c EXCEPT ![l] = SubSeq(s2c[l], 1, i)]
      BY <1>3, Zenon DEF Break
    <3>2. Elems(SubSeq(s2c[l], 1, i)) \subseteq Elems(s2c[l])
      BY QueueTypes, PrefixFacts, Zenon
    <3> QED BY <3>1, <3>2, Zenon DEF TypeOK, WireTypes
  <2>5. WireInv'
    BY <2>1, <2>2, <2>3, <2>4, WireStep, Zenon DEF SessionInv
  <2> QED BY <2>2, <2>5, Zenon DEF SessionInv
<1>4. ASSUME NEW n \in deferred, RunDeferred(n) PROVE SessionInv'
  <2>1. n \in Nat /\ n \in 1 .. lastClient /\ n \notin Elems(dispatched)
    BY Zenon DEF TypeOK, LogTypes, SessionInv, DispatchInv
  <2>2. /\ RunsHandler(n) /\ deferred' = deferred \ {n}
        /\ UNCHANGED <<queued, lastClient, accepted, delivered, running>>
        /\ UNCHANGED <<wireVars, clientVars>>
    BY <1>4, Zenon DEF RunDeferred, serverLinkVars
  <2>3. /\ WireInv' /\ UpInv' /\ DownInv'
        /\ \A i, j \in 1 .. Len(dispatched') :
               dispatched'[i] = dispatched'[j] => i = j
        /\ Elems(dispatched') = Elems(dispatched) \union {n}
    BY <2>1, <2>2, RunsHandlerStep, Zenon
  <2>4. DispatchInv'
    BY <2>1, <2>2, <2>3, SMTT(60) DEF SessionInv, DispatchInv
  <2> QED BY <2>3, <2>4, Zenon DEF SessionInv
<1>5. CASE EmitEvent \/ ExpireClient \/ UNCHANGED vars
  <2>1. UNCHANGED <<lastClient, nextClient, acked, accepted, running,
                    dispatched, deferred, received, delivered, nextServer,
                    enqueued, front, queued, pendingAck, c2s, s2c>>
    BY <1>5, Zenon DEF EmitEvent, ExpireClient, vars, sessionVars, serverLinkVars,
                wireVars, clientVars, logVars
  <2>2. UpInv' /\ DispatchInv' /\ DownInv' /\ Grows
    BY <2>1, UnchangedUp, UnchangedDispatch, UnchangedDown, GrowsTrivially, Zenon
    DEF SessionInv
  <2>3. WireInv'
    BY <2>1, <2>2, WireStep, Zenon DEF SessionInv
  <2> QED BY <2>2, <2>3, Zenon DEF SessionInv
<1>6. CASE Restart
  <2>1. /\ UNCHANGED <<lastClient, nextClient, acked, accepted, dispatched,
                      received, delivered, nextServer, enqueued, front,
                      pendingAck, s2c>>
        /\ deferred' = {} /\ running' = [l \in Links |-> Idle]
        /\ queued' = [l \in Links |-> << >>]
        /\ \A l \in Links : c2s'[l] \in {c2s[l], << >>}
    BY <1>6, Zenon DEF Restart, clientVars
  <2>2. UpInv' /\ DownInv' /\ Grows
    BY <2>1, UnchangedUp, UnchangedDown, GrowsTrivially, Zenon DEF SessionInv
  <2>3. DispatchInv'
    BY <2>1, Zenon DEF SessionInv, DispatchInv
  <2>4. ASSUME NEW k \in Links
        PROVE  /\ \A m \in Elems(c2s'[k]) : m \in Elems(c2s[k])
               /\ \A n \in Elems(queued'[k]) : n \in Elems(queued[k])
    BY <2>1, EmptySeqFacts, Zenon
  <2>5. WireInv'
    BY <2>1, <2>2, <2>4, WireStep, Zenon DEF SessionInv
  <2> QED BY <2>2, <2>3, <2>5, Zenon DEF SessionInv
<1>7. CASE Send
  <2>1. /\ nextClient' = nextClient + 1
        /\ \/ c2s' = c2s
           \/ /\ link \in Links
              /\ c2s' = ClientWrites(link, <<ClientFrame(nextClient)>>)
        /\ UNCHANGED <<lastClient, acked, accepted, running, dispatched,
                      deferred, received, delivered, nextServer, enqueued,
                      front, queued, pendingAck, s2c>>
    BY <1>7, Zenon DEF Send, sessionVars, serverLinkVars, logVars, TypeOK,
                ClientTypes
  <2>2. UpInv'
    BY <2>1, Counters DEF UpInv, SessionInv
  <2>3. DispatchInv' /\ DownInv'
    BY <2>1, UnchangedDispatch, UnchangedDown, Zenon DEF SessionInv
  <2>4. Grows
    BY <2>1, Counters DEF Grows
  <2>5. PICK frame : frame = ClientFrame(nextClient)
    BY Zenon
  <2>6. frame \in ClientMessage /\ UpOK(frame)'
    <3>1. frame \in ClientMessage
      BY <2>5, NumberTypes, Zenon DEF ClientFrame, ClientMessage
    <3>2. frame.type = "frame" /\ frame.n < nextClient'
      BY <2>1, <2>5, Counters DEF ClientFrame
    <3> QED BY <3>1, <3>2, Zenon DEF UpOK
  <2>7. <<frame>> \in Seq(ClientMessage) /\ Elems(<<frame>>) = {frame}
    BY <2>6, SingletonFacts, Zenon
  <2>8. ASSUME NEW k \in Links
        PROVE  \A m \in Elems(c2s'[k]) : m \in Elems(c2s[k]) \/ UpOK(m)'
    <3>1. Elems(c2s'[k]) \subseteq Elems(c2s[k]) \union {frame}
      BY <2>1, <2>5, <2>7, ClientWritesElems, Zenon
    <3> QED BY <2>6, <3>1, Zenon
  <2>9. WireInv'
    BY <2>1, <2>4, <2>8, WireStep, Zenon DEF SessionInv
  <2> QED BY <2>2, <2>3, <2>9, Zenon DEF SessionInv
<1>8. CASE Resume
  <2>1. /\ c2s' = [c2s EXCEPT ![attempts + 1] = <<Hello(received)>>]
        /\ UNCHANGED <<lastClient, nextClient, acked, accepted, running,
                      dispatched, deferred, received, delivered, nextServer,
                      enqueued, front, queued, pendingAck, s2c>>
    BY <1>8, Zenon DEF Resume, sessionVars, logVars
  <2>2. UpInv' /\ DispatchInv' /\ DownInv' /\ Grows
    BY <2>1, UnchangedUp, UnchangedDispatch, UnchangedDown, GrowsTrivially, Zenon
    DEF SessionInv
  <2>3. PICK hello : hello = Hello(received)
    OBVIOUS
  <2>4. hello \in ClientMessage /\ UpOK(hello)'
    <3>1. hello \in ClientMessage
      BY <2>3, NumberTypes, Zenon DEF Hello, ClientMessage
    <3>2. hello.type = "hello" /\ hello.n <= received'
      BY <2>1, <2>3, NumberTypes, SMTT(60) DEF Hello
    <3> QED BY <3>1, <3>2, Zenon DEF UpOK
  <2>5. Elems(<<hello>>) = {hello}
    BY <2>4, SingletonFacts, Zenon
  <2>6. ASSUME NEW k \in Links
        PROVE  \A m \in Elems(c2s'[k]) : m \in Elems(c2s[k]) \/ UpOK(m)'
    <3>1. c2s'[k] \in {c2s[k], <<hello>>}
      BY <2>1, <2>3, Zenon DEF TypeOK, WireTypes
    <3> QED BY <2>4, <2>5, <3>1, Zenon
  <2>7. WireInv'
    BY <2>1, <2>2, <2>6, WireStep, Zenon DEF SessionInv
  <2> QED BY <2>2, <2>7 DEF SessionInv
<1>9. CASE CloseChannel
  <2>1. UNCHANGED <<lastClient, nextClient, acked, accepted, running,
                    dispatched, deferred, received, delivered, nextServer,
                    enqueued, front, queued>>
    BY <1>9, Zenon DEF CloseChannel, sessionVars, serverLinkVars, logVars
  <2>2. UpInv' /\ DispatchInv' /\ DownInv' /\ Grows
    BY <2>1, UnchangedUp, UnchangedDispatch, UnchangedDown, GrowsTrivially, Zenon
    DEF SessionInv
  <2>3. CASE current # NoLink
    <3>1. /\ current \in Links /\ DropsLink(current)
          /\ c2s' = ClientWrites(current, FlushedAck(current))
      BY <1>9, <2>3, Zenon DEF CloseChannel, TypeOK, ClientTypes
    <3>2. WireInv'
      BY <2>1, <3>1, DropsLinkStep, Zenon DEF SessionInv
    <3> QED BY <2>2, <3>2 DEF SessionInv
  <2>4. CASE current = NoLink
    <3>1. UNCHANGED <<s2c, c2s, pendingAck>>
      BY <1>9, <2>4, Zenon DEF CloseChannel
    <3>2. WireInv'
      BY <2>1, <2>2, <3>1, WireStep, Zenon DEF SessionInv
    <3> QED BY <2>2, <3>2 DEF SessionInv
  <2> QED BY <2>3, <2>4, Zenon
<1> QED BY <1>1, <1>2, <1>3, <1>4, <1>5, <1>6, <1>7, <1>8, <1>9, Zenon DEF Next

\* The first state.
LEMMA InitInv == Init => SessionInv
<1> SUFFICES ASSUME Init PROVE SessionInv
  BY Zenon
<1>1. PICK hello : hello = Hello(0)
  BY Zenon
<1>2. /\ hello \in ClientMessage /\ hello.type = "hello" /\ hello.n = 0
      /\ Elems(<<hello>>) = {hello}
  <2>1. hello \in ClientMessage /\ hello.type = "hello" /\ hello.n = 0
    BY <1>1, Zenon DEF Hello, ClientMessage
  <2> QED BY <2>1, SingletonFacts, Zenon
<1>3. UpOK(hello)
  BY <1>2, SMTT(60) DEF UpOK, Init
<1>4. WireInv
  <2> SUFFICES ASSUME NEW l \in Links
               PROVE  /\ \A m \in Elems(c2s[l]) : UpOK(m)
                      /\ \A m \in Elems(s2c[l]) : DownOK(m)
                      /\ \A n \in Elems(queued[l]) : n < nextClient
                      /\ pendingAck[l] <= received
    BY Zenon DEF WireInv
  <2>1. /\ c2s[l] \in {<<hello>>, << >>} /\ s2c[l] = << >>
        /\ queued[l] = << >> /\ pendingAck[l] = 0 /\ received = 0
    BY <1>1, Zenon DEF Init, Idle
  <2>2. Elems(<< >>) = {}
    BY EmptySeqFacts, Zenon
  <2>3. Elems(c2s[l]) \subseteq {hello} /\ Elems(s2c[l]) = {}
        /\ Elems(queued[l]) = {}
    BY <1>2, <2>1, <2>2, Zenon
  <2> QED BY <1>3, <2>1, <2>3
<1>5. UpInv
  BY SMTT(60) DEF Init, UpInv
<1>6. DispatchInv
  <2>1. /\ Len(dispatched) = 0 /\ Elems(dispatched) = {} /\ deferred = {}
        /\ \A l \in Links : running[l] = Idle
    BY EmptySeqFacts, Zenon DEF Init
  <2> QED BY <2>1 DEF DispatchInv
<1>7. DownInv
  BY BoundsAssumption, SMTT(60) DEF Init, DownInv, Larger
<1> QED BY <1>4, <1>5, <1>6, <1>7, Zenon DEF SessionInv

\* The claims, both retained queues and everything in flight agree in every
\* execution.
THEOREM SessionInvariant == Spec => []SessionInv
<1>1. Init => SessionInv
  BY InitInv, Zenon
<1>2. TypeOK /\ TypeOK' /\ SessionInv /\ [Next]_vars => SessionInv'
  BY NextInv, Zenon
<1> QED BY <1>1, <1>2, TypeCorrect, PTL DEF Spec

\* accept_client_frame claims every client frame once and in order, and no
\* handler starts twice or for a frame that was not claimed.
THEOREM ClientFramesExactlyOnce == Spec => []ClientFramesOnce
<1>1. SessionInv => ClientFramesOnce
  <2> SUFFICES ASSUME SessionInv PROVE ClientFramesOnce
    BY Zenon
  <2>1. \A i \in 1 .. Len(dispatched) : dispatched[i] \in 1 .. lastClient
    BY Zenon DEF SessionInv, DispatchInv, Elems
  <2> QED BY <2>1, Zenon DEF SessionInv, UpInv, DispatchInv, ClientFramesOnce
<1> QED BY <1>1, SessionInvariant, PTL

\* The channel forgets a client frame only once the server has claimed it.
THEOREM ForgetsOnlyClaimedFrames == Spec => []ForgetsOnlyClaimed
<1>1. SessionInv => ForgetsOnlyClaimed
  BY Zenon DEF SessionInv, UpInv, ForgetsOnlyClaimed
<1> QED BY <1>1, SessionInvariant, PTL

\* The listeners are given exactly the server sequence, without a hole or a
\* repetition.
THEOREM ServerFramesExactlyOnce == Spec => []ServerFramesOnce
<1>1. SessionInv => ServerFramesOnce
  BY Zenon DEF SessionInv, DownInv, ServerFramesOnce
<1> QED BY <1>1, SessionInvariant, PTL

\* Within the replay window, every frame the client has not applied is kept.
THEOREM RetainsUnappliedFrames == Spec => []RetainsUnapplied
<1>1. TypeOK /\ SessionInv => RetainsUnapplied
  BY NumberTypes DEF SessionInv, DownInv, RetainsUnapplied, Larger
<1> QED BY <1>1, SessionInvariant, TypeCorrect, PTL

(***************************************************************************)
(* Refinement.                                                             *)
(***************************************************************************)
\* The channel uses one link at a time, and none once it has ended.
OneLink ==
    \A l \in Links : cli[l] \in {"opening", "ready"} =>
                        l = current /\ status = "active"

\* The channel has at most one active link, its current one.
LEMMA OneLinkInvariant == Spec => []OneLink
<1>1. Init => OneLink
  BY Zenon DEF Init, OneLink
<1>2. TypeOK /\ OneLink /\ [Next]_vars => OneLink'
  <2> SUFFICES ASSUME TypeOK, OneLink, [Next]_vars PROVE OneLink'
    BY Zenon
  <2>1. cli \in [Links -> {"unused", "opening", "ready", "ended"}]
    BY Zenon DEF TypeOK, ClientTypes
  <2>2. CASE UNCHANGED <<cli, current, status>>
    BY <2>2, Zenon DEF OneLink
  <2>3. ASSUME NEW l \in Links, DropsLink(l),
               l = current \/ cli[l] \in {"opening", "ready"}
        PROVE  OneLink'
    <3>1. \A k \in Links : cli'[k] = IF k = l THEN "ended" ELSE cli[k]
      BY <2>1, <2>3, Zenon DEF DropsLink
    <3>2. \A k \in Links : k # l => cli[k] \notin {"opening", "ready"}
      BY <2>3, Zenon DEF OneLink
    <3> QED BY <3>1, <3>2, Zenon DEF OneLink
  <2>4. ASSUME NEW l \in Links, ServerStep(l) PROVE OneLink'
    BY <2>2, <2>4, Zenon
    DEF ServerStep, OpenSessionLink, ReadFrame, ReadAck, AcceptFrame,
        DispatchFrame, DeferFrame, DrainGateway, PushFrames, LoseSocket,
        clientVars
  <2>5. ASSUME NEW l \in Links, ClientStep(l) PROVE OneLink'
    <3>1. CASE BecomeReady(l)
      BY <2>1, <3>1, Zenon DEF BecomeReady, OneLink
    <3>2. CASE ReceiveAck(l) \/ FlushAck(l)
      BY <2>2, <3>2, Zenon DEF ReceiveAck, FlushAck
    <3>3. CASE Receive(l)
      BY <2>2, <2>3, <3>3, Zenon DEF Receive
    <3>4. CASE ServerClosedLink(l) \/ LoseLink(l)
      BY <2>3, <3>4, Zenon DEF ServerClosedLink, LoseLink
    <3> QED BY <2>5, <3>1, <3>2, <3>3, <3>4, Zenon DEF ClientStep
  <2>6. CASE Resume
    <3>1. \A k \in Links : cli[k] \notin {"opening", "ready"}
      BY <2>6, SMTT(60) DEF OneLink, Resume, Links, NoLink
    <3> QED BY <2>1, <2>6, <3>1, Zenon DEF OneLink, Resume
  <2>7. CASE CloseChannel
    <3>1. CASE current # NoLink
      BY <2>3, <2>7, <3>1, Zenon DEF CloseChannel, TypeOK, ClientTypes
    <3>2. CASE current = NoLink
      BY <2>7, <3>2 DEF CloseChannel, OneLink, Links, NoLink
    <3> QED BY <3>1, <3>2, Zenon
  <2>8. CASE \/ \E l \in Links : Break(l)
             \/ \E n \in deferred : RunDeferred(n)
             \/ EmitEvent \/ ExpireClient \/ Restart \/ Send
             \/ UNCHANGED vars
    BY <2>2, <2>8, Zenon DEF Break, RunDeferred, EmitEvent, ExpireClient, Restart,
                      Send, vars, clientVars
  <2> QED BY <2>4, <2>5, <2>6, <2>7, <2>8, Zenon DEF Next
<1> QED BY <1>1, <1>2, TypeCorrect, PTL DEF Spec

\* What no step of ReliableChannel changes when a step leaves these alone.
LEMMA ChannelStutters ==
    ASSUME UNCHANGED <<nextClient, accepted, enqueued, delivered, status>>
    PROVE  UNCHANGED Channel!channelVars
BY Zenon DEF Channel!channelVars

\* Enqueueing is sending down, or nothing.
LEMMA EnqueueIsSendDown ==
    ASSUME TypeOK, TypeOK', DownInv, NEW msgs \in Seq(Messages),
           Enqueue(msgs), UNCHANGED <<nextClient, accepted, delivered, status>>
    PROVE  Channel!SendDown \/ UNCHANGED Channel!channelVars
<1>1. CASE sess = "open"
  <2>1. enqueued' = enqueued \o msgs /\ enqueued \in Seq(Messages)
    BY <1>1, NumberTypes, Zenon DEF Enqueue
  <2>2. /\ enqueued' \in Seq(Messages) /\ Len(enqueued') >= Len(enqueued)
        /\ SubSeq(enqueued', 1, Len(enqueued)) = enqueued
    BY <2>1
  <2> QED BY <2>2, Zenon DEF Channel!SendDown
<1>2. CASE sess # "open"
  BY <1>2, ChannelStutters, Zenon DEF Enqueue
<1> QED BY <1>1, <1>2, Zenon

\* So is running a handler.
LEMMA HandlerIsSendDown ==
    ASSUME TypeOK, TypeOK', DownInv, NEW n \in Nat, RunsHandler(n),
           UNCHANGED <<nextClient, accepted, delivered, status>>
    PROVE  Channel!SendDown \/ UNCHANGED Channel!channelVars
<1>1. PICK replies \in {<< >>, <<Reply(n)>>} : Enqueue(replies)
  BY Zenon DEF RunsHandler
<1>2. replies \in Seq(Messages)
  <2>1. Reply(n) \in Messages
    BY Zenon DEF Reply, Messages
  <2>2. << >> \in Seq(Messages)
    BY EmptySeqFacts, Zenon
  <2>3. <<Reply(n)>> \in Seq(Messages)
    BY <2>1, SingletonFacts, Zenon
  <2> QED BY <1>1, <2>2, <2>3, Zenon
<1> QED BY <1>1, <1>2, EnqueueIsSendDown, Zenon

\* Every step of the session is a step of the channel it promises, or leaves
\* it unchanged.
LEMMA StepSimulation ==
    ASSUME TypeOK, TypeOK', SessionInv, OneLink, [Next]_vars
    PROVE  [Channel!ChannelNext]_(Channel!channelVars)
<1> USE DEF Channel!ChannelNext
<1>1. ASSUME NEW l \in Links, AcceptFrame(l)
      PROVE  Channel!TakeUp \/ UNCHANGED Channel!channelVars
  <2>1. UNCHANGED <<nextClient, enqueued, delivered, status>>
    BY <1>1, Zenon DEF AcceptFrame, clientVars
  <2>2. CASE accepted' = accepted
    BY <2>1, <2>2, ChannelStutters, Zenon
  <2>3. CASE /\ NextToClaim(Head(queued[l]))
             /\ accepted' = Append(accepted, Head(queued[l]))
    <3>1. Head(queued[l]) = lastClient + 1 /\ Head(queued[l]) < nextClient
      BY <1>1, <2>3, HeadsOK, Zenon DEF AcceptFrame, NextToClaim, SessionInv
    <3>2. /\ Len(accepted) = lastClient /\ lastClient \in Nat
          /\ nextClient \in Nat
      BY NumberTypes, Zenon DEF SessionInv, UpInv
    <3> QED BY <2>1, <2>3, <3>1, <3>2 DEF Channel!TakeUp
  <2> QED BY <1>1, <2>2, <2>3, Zenon DEF AcceptFrame
<1>2. ASSUME NEW l \in Links, DispatchFrame(l)
      PROVE  Channel!SendDown \/ UNCHANGED Channel!channelVars
  BY <1>2, NumberTypes, HandlerIsSendDown, Zenon
  DEF DispatchFrame, clientVars, SessionInv
<1>3. ASSUME NEW n \in deferred, RunDeferred(n)
      PROVE  Channel!SendDown \/ UNCHANGED Channel!channelVars
  BY <1>3, HandlerIsSendDown, Zenon
  DEF RunDeferred, clientVars, SessionInv, TypeOK, LogTypes
<1>4. ASSUME NEW l \in Links, PushFrames(l)
      PROVE  Channel!SendDown \/ UNCHANGED Channel!channelVars
  <2>1. /\ Enqueue(held[l])
        /\ UNCHANGED <<nextClient, accepted, delivered, status>>
    BY <1>4, Zenon DEF PushFrames, clientVars, logVars
  <2> QED BY <2>1, QueueTypes, EnqueueIsSendDown, Zenon DEF SessionInv
<1>5. ASSUME NEW l \in Links, Receive(l)
      PROVE  Channel!TakeDown \/ UNCHANGED Channel!channelVars
  <2>1. UNCHANGED <<nextClient, accepted, enqueued, status>>
    BY <1>5, Zenon DEF Receive, sessionVars
  <2>2. CASE delivered' = delivered
    BY <2>1, <2>2, ChannelStutters, Zenon
  <2>3. CASE /\ Head(s2c[l]).n = received + 1
             /\ delivered' = Append(delivered, Head(s2c[l]).message)
    <3>1. status = "active"
      BY <1>5, Zenon DEF Receive, OneLink
    <3>2. /\ Head(s2c[l]).n \in 1 .. Len(enqueued)
          /\ Head(s2c[l]).message = enqueued[Head(s2c[l]).n]
      BY <1>5, HeadsOK, Zenon DEF Receive, DownOK, SessionInv
    <3>3. received = Len(delivered) /\ received \in Nat
      BY NumberTypes, Zenon DEF SessionInv, DownInv
    <3>4. Len(delivered) < Len(enqueued)
      BY <2>3, <3>2, <3>3, Counters
    <3> QED BY <2>1, <2>3, <3>1, <3>2, <3>3, <3>4, Zenon DEF Channel!TakeDown
  <2> QED BY <1>5, <2>2, <2>3, Zenon DEF Receive
<1>6. CASE Send
  <2>1. /\ status = "active" /\ nextClient' = nextClient + 1
        /\ UNCHANGED <<accepted, enqueued, delivered, status>>
    BY <1>6, Zenon DEF Send, sessionVars, logVars
  <2>2. nextClient' - 1 = (nextClient - 1) + 1
    BY <2>1, NumberTypes
  <2> QED BY <2>1, <2>2, Zenon DEF Channel!SendUp
<1>7. ASSUME UNCHANGED <<nextClient, accepted, enqueued, delivered>>,
             status' # status => status = "active" /\ status' # "active"
      PROVE  Channel!End \/ UNCHANGED Channel!channelVars
  <2>1. CASE status' = status
    BY <1>7, <2>1, ChannelStutters, Zenon
  <2>2. CASE status' # status
    BY <1>7, <2>2, Zenon DEF Channel!End
  <2> QED BY <2>1, <2>2, Zenon
<1>8. ASSUME NEW l \in Links, ServerClosedLink(l) \/ LoseLink(l)
      PROVE  Channel!End \/ UNCHANGED Channel!channelVars
  BY <1>7, <1>8, Zenon
  DEF ServerClosedLink, LoseLink, sessionVars, logVars, OneLink
<1>9. CASE CloseChannel
  BY <1>7, <1>9, Zenon DEF CloseChannel, sessionVars, logVars
<1>10. CASE \/ \E l \in Links :
                  \/ OpenSessionLink(l) \/ ReadFrame(l) \/ ReadAck(l)
                  \/ DeferFrame(l) \/ DrainGateway(l) \/ LoseSocket(l)
                  \/ BecomeReady(l) \/ ReceiveAck(l) \/ FlushAck(l)
                  \/ Break(l)
            \/ EmitEvent \/ ExpireClient \/ Restart \/ Resume
            \/ UNCHANGED vars
  <2> DEFINE Kept ==
               UNCHANGED <<nextClient, accepted, enqueued, delivered, status>>
  <2>1. ASSUME NEW l \in Links, OpenSessionLink(l) PROVE Kept
    BY <2>1, Zenon DEF OpenSessionLink, clientVars, logVars
  <2>2. ASSUME NEW l \in Links, ReadFrame(l) \/ ReadAck(l) PROVE Kept
    BY <2>2, Zenon DEF ReadFrame, ReadAck, sessionVars, clientVars, logVars
  <2>3. ASSUME NEW l \in Links, DeferFrame(l) \/ DrainGateway(l) PROVE Kept
    BY <2>3, Zenon DEF DeferFrame, DrainGateway, sessionVars, clientVars, logVars
  <2>4. ASSUME NEW l \in Links, LoseSocket(l) \/ Break(l) PROVE Kept
    BY <2>4, Zenon DEF LoseSocket, Break, sessionVars, clientVars, logVars
  <2>5. ASSUME NEW l \in Links, BecomeReady(l) \/ ReceiveAck(l) \/ FlushAck(l)
        PROVE  Kept
    BY <2>5, Zenon DEF BecomeReady, ReceiveAck, FlushAck, sessionVars, logVars
  <2>6. ASSUME EmitEvent \/ ExpireClient \/ Restart PROVE Kept
    BY <2>6, Zenon DEF EmitEvent, ExpireClient, Restart, sessionVars, clientVars,
                logVars
  <2>7. ASSUME Resume \/ UNCHANGED vars PROVE Kept
    BY <2>7, Zenon DEF Resume, vars, sessionVars, clientVars, logVars
  <2>8. Kept
    BY <1>10, <2>1, <2>2, <2>3, <2>4, <2>5, <2>6, <2>7, Zenon
  <2> QED BY <2>8, ChannelStutters, Zenon
<1> QED BY <1>1, <1>2, <1>3, <1>4, <1>5, <1>6, <1>8, <1>9, <1>10, Zenon
        DEF Next, ServerStep, ClientStep

\* Links, resumption, replay and the threads of both peers implement two FIFO
\* streams that neither lose, repeat nor reorder a message.
THEOREM SessionImplementsChannel == Spec => ImplementsChannel
<1>1. Init => Channel!ChannelInit
  BY SMTT(60) DEF Init, Channel!ChannelInit
<1>2. TypeOK /\ TypeOK' /\ SessionInv /\ OneLink /\ [Next]_vars
        => [Channel!ChannelNext]_(Channel!channelVars)
  BY StepSimulation, Zenon
<1> QED BY <1>1, <1>2, TypeCorrect, SessionInvariant, OneLinkInvariant, PTL
        DEF Spec, ImplementsChannel, Channel!ChannelSpec
=============================================================================
