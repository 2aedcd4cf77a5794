--------------------------- MODULE ReliableSession ---------------------------
(***************************************************************************)
(* One reliable RPC session between a frontend and the App Server, carried *)
(* by a succession of WebSocket links.                                     *)
(*                                                                         *)
(* Server: the session registry (reliable_session.rs), the link that binds *)
(* a socket to it (local_http/session_link.rs) and the three threads of a  *)
(* socket, reader, dispatcher and pump (listener/session_socket.rs).       *)
(* Client: the channel that owns sequencing and resumption                 *)
(* (reliableSessionChannel.ts) and its socket (webSocketTransportLink.ts). *)
(*                                                                         *)
(* The n-th message the client sends is the number n, which is also its    *)
(* sequence.  Server messages are values: gateway events and RPC replies.  *)
(* Both retained queues are intervals of sequences, because both grow at   *)
(* the back by one and shrink at the front: the client keeps               *)
(* acked+1 .. nextClient-1, the server keeps front .. nextServer-1 with    *)
(* the message of sequence s at enqueued[s].                               *)
(***************************************************************************)
EXTENDS Integers, Sequences

CONSTANTS
    MaxLinks,       \* bound: link attempts, the last of which is not lost
    MaxSend,        \* bound: messages the client sends
    MaxEvents,      \* bound: gateway events for the connection
    ReplayWindow,   \* MAX_SERVER_REPLAY_FRAMES
    AuthFrames,     \* the client messages that are agent/authenticate
    Faults          \* subset of {"restart", "expire"}

ASSUME BoundsAssumption ==
    /\ MaxLinks \in Nat \ {0} /\ MaxSend \in Nat /\ MaxEvents \in Nat
    /\ ReplayWindow \in Nat \ {0}
    /\ AuthFrames \subseteq Nat
    /\ Faults \subseteq {"restart", "expire"}

VARIABLES
    \* ReliableSession: the registry entry
    sess, lastClient, front, nextServer, enqueued, epoch,
    \* the gateway: client liveness and the events waiting for the connection
    live, outbox, emitted,
    \* SessionLink and Socket, per link: server half
    srv, linkEpoch, written, frameDispatched, queued, running, pumping, held,
    verdict,
    \* the carrier, per link
    up, c2s, s2c,
    \* the client half of a link, and the channel
    cli, pendingAck, nextClient, acked, received, attempts, current, link,
    status,
    \* history: frames claimed, handlers started, messages given to listeners,
    \* and authenticate frames whose handler runs on its own thread
    accepted, dispatched, delivered, deferred

sessionVars == <<sess, lastClient, front, nextServer, enqueued, epoch>>
gatewayVars == <<live, outbox, emitted>>
serverLinkVars == <<srv, linkEpoch, written, frameDispatched, queued, running,
                    pumping, held, verdict>>
wireVars == <<up, c2s, s2c>>
clientVars == <<cli, pendingAck, nextClient, acked, received, attempts,
                current, link, status>>
logVars == <<accepted, dispatched, delivered, deferred>>
vars == <<sessionVars, gatewayVars, serverLinkVars, wireVars, clientVars,
          logVars>>

Links == 1 .. MaxLinks
NoLink == 0
Idle == 0

Event(e) == <<"event", e>>
Reply(n) == <<"reply", n>>

\* Wire messages.  Pings and pongs are part of the timeouts that end a link.
Hello(cursor) == [type |-> "hello", n |-> cursor]
Ready(cursor) == [type |-> "ready", n |-> cursor]
ClientFrame(s) == [type |-> "frame", n |-> s]
ServerFrame(s, m) == [type |-> "frame", n |-> s, message |-> m]
Ack(through) == [type |-> "ack", n |-> through]
Close(kind) == [type |-> "close", kind |-> kind]

Larger(a, b) == IF a > b THEN a ELSE b
Smaller(a, b) == IF a < b THEN a ELSE b

(***************************************************************************)
(* The wire.  A write reaches a socket that works and whose reader is      *)
(* still there; everything else is lost.                                   *)
(***************************************************************************)
ClientWrites(l, msgs) ==
    [c2s EXCEPT ![l] = IF up[l] /\ srv[l] # "ended" THEN @ \o msgs ELSE @]

ServerWrites(l, msgs) ==
    [s2c EXCEPT ![l] =
        IF up[l] /\ cli[l] \in {"opening", "ready"} THEN @ \o msgs ELSE @]

\* The network fails: a suffix of what was in flight is gone, in each
\* direction, and nothing written later arrives.
Break(l) ==
    /\ l < MaxLinks /\ up[l]
    /\ srv[l] \in {"hello", "open"} \/ cli[l] \in {"opening", "ready"}
    /\ up' = [up EXCEPT ![l] = FALSE]
    /\ \E i \in 0 .. Len(c2s[l]) : c2s' = [c2s EXCEPT ![l] = SubSeq(@, 1, i)]
    /\ \E i \in 0 .. Len(s2c[l]) : s2c' = [s2c EXCEPT ![l] = SubSeq(@, 1, i)]
    /\ UNCHANGED <<sessionVars, gatewayVars, serverLinkVars, clientVars,
                   logVars>>

(***************************************************************************)
(* The registry.                                                           *)
(***************************************************************************)
\* checked_session: why a cursor into the server sequence is refused.
CursorError(first, next, after) ==
    IF sess # "open" THEN "sessionExpired"
    ELSE IF after >= next THEN "invalidAcknowledgement"
    ELSE IF first < next /\ after + 1 < first THEN "replayExpired"
    ELSE "none"

\* acknowledge: the front of the retained frames after dropping through.
MutantFrontAfterAck(through) == Larger(front, Smaller(through + 2, nextServer))

FrontAfterAck(through) == Larger(front, Smaller(through + 1, nextServer))

\* frames_after: the retained frames behind a cursor, with their messages.
FramesAfter(f, log, after) ==
    LET first == Larger(f, after + 1)
    IN  [i \in 1 .. Larger(0, Len(log) - first + 1) |->
            ServerFrame(first + i - 1, log[first + i - 1])]

\* enqueue_server_message for each message in turn; a lost session takes none.
Enqueue(msgs) ==
    IF sess = "open"
    THEN /\ enqueued' = enqueued \o msgs
         /\ nextServer' = nextServer + Len(msgs)
         /\ front' = Larger(front, nextServer + Len(msgs) - ReplayWindow)
    ELSE UNCHANGED <<enqueued, nextServer, front>>

(***************************************************************************)
(* The server half of a link.                                              *)
(***************************************************************************)
\* Socket::end: the socket ends once, for this reason, and both its reader
\* and its dispatcher stop at what they hold.  A definite reason is written
\* as a close code.
EndsSocket(l, reason) ==
    /\ srv' = [srv EXCEPT ![l] = "ended"]
    /\ verdict' = [verdict EXCEPT ![l] = reason]
    /\ c2s' = [c2s EXCEPT ![l] = << >>]
    /\ queued' = [queued EXCEPT ![l] = << >>]
    /\ s2c' = ServerWrites(l, IF reason = "lost" THEN << >>
                              ELSE <<Close(reason)>>)
    /\ UNCHANGED up

\* open_link: why the first message of a socket is refused.  The first attempt
\* of a channel opens the session, every other resumes it.
HelloError(l) ==
    IF Head(c2s[l]).type # "hello" THEN "invalidHello"
    ELSE IF l = 1 THEN "none"
    ELSE CursorError(front, nextServer, Head(c2s[l]).n)

\* open_link, open_session_link: bind the socket to a new or resumed session.
OpenSessionLink(l) ==
    /\ srv[l] = "hello" /\ c2s[l] # << >>
    /\ LET cursor == Head(c2s[l]).n
           error == HelloError(l)
       IN  \/ /\ error = "none"
              /\ sess' = "open"
              /\ epoch' = epoch + 1
              /\ linkEpoch' = [linkEpoch EXCEPT ![l] = epoch + 1]
              /\ front' = FrontAfterAck(cursor)
              /\ written' = [written EXCEPT ![l] = cursor]
              /\ frameDispatched' = [frameDispatched EXCEPT ![l] =
                                        lastClient > 0]
              /\ srv' = [srv EXCEPT ![l] = "open"]
              /\ c2s' = [c2s EXCEPT ![l] = Tail(@)]
              /\ s2c' = ServerWrites(l, <<Ready(lastClient)>>)
              /\ UNCHANGED <<lastClient, nextServer, enqueued, queued,
                             running, pumping, held, verdict, up>>
           \/ /\ error # "none"
              /\ EndsSocket(l, error)
              \* attach_link ran before acknowledge refused the cursor
              /\ epoch' = IF error \in {"invalidAcknowledgement",
                                        "replayExpired"}
                          THEN epoch + 1 ELSE epoch
              /\ UNCHANGED <<sess, lastClient, front, nextServer, enqueued,
                             linkEpoch, written, frameDispatched, running,
                             pumping, held>>
    /\ UNCHANGED <<gatewayVars, clientVars, logVars>>

\* read, a frame: hand it to the dispatcher's queue.
ReadFrame(l) ==
    /\ srv[l] = "open" /\ c2s[l] # << >> /\ Head(c2s[l]).type = "frame"
    /\ queued' = [queued EXCEPT ![l] = Append(@, Head(c2s[l]).n)]
    /\ c2s' = [c2s EXCEPT ![l] = Tail(@)]
    /\ UNCHANGED <<sessionVars, gatewayVars, srv, linkEpoch, written,
                   frameDispatched, running, pumping, held, verdict, up, s2c,
                   clientVars, logVars>>

\* read, an acknowledgement: forget what the client applied.
ReadAck(l) ==
    /\ srv[l] = "open" /\ c2s[l] # << >> /\ Head(c2s[l]).type = "ack"
    /\ LET through == Head(c2s[l]).n
           error == CursorError(front, nextServer, through)
       IN  \/ /\ error = "none"
              /\ front' = FrontAfterAck(through)
              /\ c2s' = [c2s EXCEPT ![l] = Tail(@)]
              /\ UNCHANGED <<srv, verdict, queued, up, s2c>>
           \/ /\ error # "none"
              /\ EndsSocket(l, error)
              /\ UNCHANGED front
    /\ UNCHANGED <<sess, lastClient, nextServer, enqueued, epoch, gatewayVars,
                   linkEpoch, written, frameDispatched, running, pumping,
                   held, clientVars, logVars>>

\* accept_client_frame: which frame is claimed, and which was before.
MutantNextToClaim(s) == s >= lastClient

NextToClaim(s) == s = lastClient + 1

ClaimedBefore(s) == s <= lastClient

\* accept_client_frame and the acknowledgement dispatch writes: claim the
\* next frame before it runs, suppress one already claimed, refuse a gap.
AcceptFrame(l) ==
    /\ srv[l] = "open" /\ running[l] = Idle /\ queued[l] # << >>
    /\ LET s == Head(queued[l])
       IN  \/ /\ sess = "open" /\ NextToClaim(s)
              /\ lastClient' = s
              /\ accepted' = Append(accepted, s)
              /\ running' = [running EXCEPT ![l] = s]
              /\ queued' = [queued EXCEPT ![l] = Tail(@)]
              /\ s2c' = ServerWrites(l, <<Ack(s)>>)
              /\ UNCHANGED <<srv, verdict, up, c2s>>
           \/ /\ sess = "open" /\ ClaimedBefore(s)
              /\ queued' = [queued EXCEPT ![l] = Tail(@)]
              /\ s2c' = ServerWrites(l, <<Ack(s)>>)
              /\ UNCHANGED <<lastClient, accepted, running, srv, verdict, up,
                             c2s>>
           \/ /\ sess # "open" \/ (~NextToClaim(s) /\ ~ClaimedBefore(s))
              /\ EndsSocket(l, IF sess # "open" THEN "sessionExpired"
                               ELSE "sequenceGap")
              /\ UNCHANGED <<lastClient, accepted, running>>
    /\ UNCHANGED <<sess, front, nextServer, enqueued, epoch, gatewayVars,
                   linkEpoch, written, frameDispatched, pumping, held,
                   clientVars, dispatched, delivered, deferred>>

\* The handler of client message n: the first is client/initialize, which
\* makes the client live, and a request's reply joins the server sequence.
RunsHandler(n) ==
    /\ dispatched' = Append(dispatched, n)
    /\ live' = IF n = 1 THEN "live" ELSE live
    /\ \E replies \in {<< >>, <<Reply(n)>>} : Enqueue(replies)
    /\ UNCHANGED <<outbox, emitted>>

\* dispatch_frame on the link's own dispatcher thread.
DispatchFrame(l) ==
    /\ running[l] # Idle /\ running[l] \notin AuthFrames
    /\ RunsHandler(running[l])
    /\ running' = [running EXCEPT ![l] = Idle]
    /\ frameDispatched' = [frameDispatched EXCEPT ![l] = TRUE]
    /\ UNCHANGED <<sess, lastClient, epoch, srv, linkEpoch, written, queued,
                   pumping, held, verdict, wireVars, clientVars, accepted,
                   delivered, deferred>>

\* dispatch_frame, agent/authenticate: the dispatcher moves on and the
\* handler runs on a thread of its own.
DeferFrame(l) ==
    /\ running[l] # Idle /\ running[l] \in AuthFrames
    /\ deferred' = deferred \union {running[l]}
    /\ running' = [running EXCEPT ![l] = Idle]
    /\ UNCHANGED <<sessionVars, gatewayVars, srv, linkEpoch, written,
                   frameDispatched, queued, pumping, held, verdict, wireVars,
                   clientVars, accepted, dispatched, delivered>>

RunDeferred(n) ==
    /\ n \in deferred
    /\ RunsHandler(n)
    /\ deferred' = deferred \ {n}
    /\ UNCHANGED <<sess, lastClient, epoch, serverLinkVars, wireVars,
                   clientVars, accepted, delivered>>

\* pump, until the gateway is drained: the current link renews the client's
\* liveness and takes the events waiting for the connection.
DrainGateway(l) ==
    /\ srv[l] = "open" /\ ~pumping[l]
    /\ \/ /\ linkEpoch[l] = epoch
          /\ \/ live = "live"
             \/ live # "live" /\ ~frameDispatched[l]
          /\ pumping' = [pumping EXCEPT ![l] = TRUE]
          /\ held' = [held EXCEPT ![l] =
                        IF live = "live" THEN outbox ELSE << >>]
          /\ outbox' = IF live = "live" THEN << >> ELSE outbox
          /\ UNCHANGED <<srv, verdict, c2s, queued, s2c, up>>
       \/ /\ linkEpoch[l] # epoch
          /\ EndsSocket(l, "superseded")
          /\ UNCHANGED <<pumping, held, outbox>>
       \/ /\ linkEpoch[l] = epoch /\ live # "live" /\ frameDispatched[l]
          /\ EndsSocket(l, "sessionExpired")
          /\ UNCHANGED <<pumping, held, outbox>>
    /\ UNCHANGED <<sessionVars, live, emitted, linkEpoch, written,
                   frameDispatched, running, clientVars, logVars>>

\* pump, the rest: the drained events join the session, whatever became of
\* the link, and the frames this link has not written yet go to the socket.
PushFrames(l) ==
    /\ pumping[l]
    /\ Enqueue(held[l])
    /\ pumping' = [pumping EXCEPT ![l] = FALSE]
    /\ held' = [held EXCEPT ![l] = << >>]
    /\ LET error == CursorError(front', nextServer', written[l])
           frames == FramesAfter(front', enqueued', written[l])
       IN  \/ /\ srv[l] = "open" /\ error = "none"
              /\ s2c' = ServerWrites(l, frames)
              /\ written' = [written EXCEPT ![l] = @ + Len(frames)]
              /\ UNCHANGED <<srv, verdict, c2s, queued, up>>
           \/ /\ srv[l] = "open" /\ error # "none"
              /\ EndsSocket(l, error)
              /\ UNCHANGED written
           \/ /\ srv[l] = "ended"
              /\ UNCHANGED <<srv, verdict, c2s, queued, up, s2c, written>>
    /\ UNCHANGED <<sess, lastClient, epoch, gatewayVars, linkEpoch,
                   frameDispatched, running, clientVars, logVars>>

\* The reader meets the end of the socket: a close frame or end of stream
\* behind what it has read, a reset or the idle deadline.
LoseSocket(l) ==
    /\ srv[l] \in {"hello", "open"}
    /\ ~up[l] \/ (cli[l] = "ended" /\ c2s[l] = << >>)
    /\ EndsSocket(l, "lost")
    /\ UNCHANGED <<sessionVars, gatewayVars, linkEpoch, written,
                   frameDispatched, running, pumping, held, clientVars,
                   logVars>>

(***************************************************************************)
(* The gateway and the App Server process.                                 *)
(***************************************************************************)
EmitEvent ==
    /\ emitted < MaxEvents /\ live = "live"
    /\ emitted' = emitted + 1
    /\ outbox' = Append(outbox, Event(emitted + 1))
    /\ UNCHANGED <<live, sessionVars, serverLinkVars, wireVars, clientVars,
                   logVars>>

\* ClientHub ends the connection's authority after a silence; an open link
\* renews it at least every PUMP_FALLBACK_WAKE.
ExpireClient ==
    /\ "expire" \in Faults /\ live = "live"
    /\ \A l \in Links : srv[l] # "open"
    /\ live' = "expired"
    /\ UNCHANGED <<outbox, emitted, sessionVars, serverLinkVars, wireVars,
                   clientVars, logVars>>

\* The process ends: its sessions, sockets and threads are gone.  A socket
\* opened later meets the next generation, which knows none of the sessions.
Restart ==
    /\ "restart" \in Faults /\ sess = "open"
    /\ sess' = "lost"
    /\ live' = "expired"
    /\ outbox' = << >>
    /\ srv' = [l \in Links |-> IF srv[l] \in {"hello", "open"}
                               THEN "ended" ELSE srv[l]]
    /\ verdict' = [l \in Links |-> IF srv[l] \in {"hello", "open"}
                                   THEN "lost" ELSE verdict[l]]
    /\ queued' = [l \in Links |-> << >>]
    /\ running' = [l \in Links |-> Idle]
    /\ pumping' = [l \in Links |-> FALSE]
    /\ held' = [l \in Links |-> << >>]
    /\ c2s' = [l \in Links |-> IF srv[l] \in {"hello", "open"}
                               THEN << >> ELSE c2s[l]]
    /\ deferred' = {}
    /\ UNCHANGED <<lastClient, front, nextServer, enqueued, epoch, emitted,
                   linkEpoch, written, frameDispatched, up, s2c, clientVars,
                   accepted, dispatched, delivered>>

(***************************************************************************)
(* The client.                                                             *)
(***************************************************************************)
\* send: number the message, keep it, and write it if a link is ready.
Send ==
    /\ status = "active" /\ nextClient <= MaxSend
    /\ nextClient' = nextClient + 1
    /\ c2s' = IF link # NoLink
              THEN ClientWrites(link, <<ClientFrame(nextClient)>>) ELSE c2s
    /\ UNCHANGED <<sessionVars, gatewayVars, serverLinkVars, up, s2c, cli,
                   pendingAck, acked, received, attempts, current, link,
                   status, logVars>>

\* acknowledge: forget the client frames the server holds.
MutantAckedThrough(through) == nextClient - 1

AckedThrough(through) == Larger(acked, Smaller(through, nextClient - 1))

\* The tail of open: every frame the peer does not hold, in order.
MutantResentLate(kept) ==
    [i \in 1 .. nextClient - 2 - kept |-> ClientFrame(kept + 1 + i)]

MutantResentNone(kept) == << >>

Resent(kept) == [i \in 1 .. nextClient - 1 - kept |-> ClientFrame(kept + i)]

\* becomeReady and the rest of open: settle the peer's cursor and resend
\* every frame it does not hold.
BecomeReady(l) ==
    /\ cli[l] = "opening" /\ s2c[l] # << >> /\ Head(s2c[l]).type = "ready"
    /\ LET kept == AckedThrough(Head(s2c[l]).n)
       IN  /\ acked' = kept
           /\ c2s' = ClientWrites(l, Resent(kept))
    /\ cli' = [cli EXCEPT ![l] = "ready"]
    /\ link' = l
    /\ s2c' = [s2c EXCEPT ![l] = Tail(@)]
    /\ UNCHANGED <<sessionVars, gatewayVars, serverLinkVars, up, pendingAck,
                   nextClient, received, attempts, current, status, logVars>>

\* The acknowledged callback of the current link.
ReceiveAck(l) ==
    /\ cli[l] = "ready" /\ s2c[l] # << >> /\ Head(s2c[l]).type = "ack"
    /\ acked' = AckedThrough(Head(s2c[l]).n)
    /\ s2c' = [s2c EXCEPT ![l] = Tail(@)]
    /\ UNCHANGED <<sessionVars, gatewayVars, serverLinkVars, up, c2s, cli,
                   pendingAck, nextClient, received, attempts, current, link,
                   status, logVars>>

\* dropLink: the socket is closed and its late events are ignored.
MutantDropsLink(l) ==
    /\ current' = NoLink
    /\ link' = NoLink
    /\ UNCHANGED <<cli, s2c, pendingAck>>

DropsLink(l) ==
    /\ cli' = [cli EXCEPT ![l] = "ended"]
    /\ s2c' = [s2c EXCEPT ![l] = << >>]
    /\ pendingAck' = [pendingAck EXCEPT ![l] = Idle]
    /\ current' = NoLink
    /\ link' = NoLink

\* flushAck, part of closing a link the socket itself did not end.
FlushedAck(l) == IF pendingAck[l] = Idle THEN << >> ELSE <<Ack(pendingAck[l])>>

\* receive: apply the next frame, ignore an earlier one, and resume on a new
\* link if one was skipped.
Receive(l) ==
    /\ cli[l] = "ready" /\ s2c[l] # << >> /\ Head(s2c[l]).type = "frame"
    /\ LET frame == Head(s2c[l])
       IN  \/ /\ frame.n = received + 1
              /\ delivered' = Append(delivered, frame.message)
              /\ received' = frame.n
              /\ pendingAck' = [pendingAck EXCEPT ![l] = frame.n]
              /\ s2c' = [s2c EXCEPT ![l] = Tail(@)]
              /\ UNCHANGED <<cli, current, link, c2s>>
           \/ /\ frame.n <= received
              /\ s2c' = [s2c EXCEPT ![l] = Tail(@)]
              /\ UNCHANGED <<delivered, received, pendingAck, cli, current,
                             link, c2s>>
           \/ /\ frame.n > received + 1
              /\ DropsLink(l)
              /\ c2s' = ClientWrites(l, FlushedAck(l))
              /\ UNCHANGED <<delivered, received>>
    /\ UNCHANGED <<sessionVars, gatewayVars, serverLinkVars, up, nextClient,
                   acked, attempts, status, accepted, dispatched, deferred>>

\* The timer behind acknowledge: report the applied cursor, coalesced.
FlushAck(l) ==
    /\ cli[l] = "ready" /\ pendingAck[l] # Idle
    /\ c2s' = ClientWrites(l, FlushedAck(l))
    /\ pendingAck' = [pendingAck EXCEPT ![l] = Idle]
    /\ UNCHANGED <<sessionVars, gatewayVars, serverLinkVars, up, s2c, cli,
                   nextClient, acked, received, attempts, current, link,
                   status, logVars>>

\* onclose with a definite code, before or after ready: fail the channel.
ServerClosedLink(l) ==
    /\ cli[l] \in {"opening", "ready"} /\ s2c[l] # << >>
    /\ Head(s2c[l]).type = "close"
    /\ DropsLink(l)
    /\ status' = "failed"
    /\ UNCHANGED <<sessionVars, gatewayVars, serverLinkVars, up, c2s,
                   nextClient, acked, received, attempts, logVars>>

\* lose: a socket closed without a code, an open or pong deadline, or a wake
\* after suspension.  A channel that never had a session fails; any other
\* resumes.
LoseLink(l) ==
    /\ cli[l] \in {"opening", "ready"}
    /\ l < MaxLinks \/ ~up[l] \/ (srv[l] = "ended" /\ s2c[l] = << >>)
    /\ DropsLink(l)
    /\ status' = IF l = 1 /\ cli[l] = "opening" THEN "failed" ELSE status
    /\ UNCHANGED <<sessionVars, gatewayVars, serverLinkVars, up, c2s,
                   nextClient, acked, received, attempts, logVars>>

\* resume: open the next link with the session and the receive cursor.
Resume ==
    /\ status = "active" /\ current = NoLink /\ attempts < MaxLinks
    /\ attempts' = attempts + 1
    /\ current' = attempts + 1
    /\ cli' = [cli EXCEPT ![attempts + 1] = "opening"]
    /\ srv' = [srv EXCEPT ![attempts + 1] = "hello"]
    /\ c2s' = [c2s EXCEPT ![attempts + 1] = <<Hello(received)>>]
    /\ UNCHANGED <<sessionVars, gatewayVars, linkEpoch, written,
                   frameDispatched, queued, running, pumping, held, verdict,
                   up, s2c, pendingAck, nextClient, acked, received, link,
                   status, logVars>>

\* close: the owner ends the channel.
CloseChannel ==
    /\ status = "active"
    /\ status' = "closed"
    /\ \/ /\ current # NoLink
          /\ DropsLink(current)
          /\ c2s' = ClientWrites(current, FlushedAck(current))
       \/ /\ current = NoLink
          /\ UNCHANGED <<cli, s2c, pendingAck, current, link, c2s>>
    /\ UNCHANGED <<sessionVars, gatewayVars, serverLinkVars, up, nextClient,
                   acked, received, attempts, logVars>>

(***************************************************************************)
(* The channel is created with its first link attempt under way.           *)
(***************************************************************************)
Init ==
    /\ sess = "none" /\ lastClient = 0 /\ front = 1 /\ nextServer = 1
    /\ enqueued = << >> /\ epoch = 0
    /\ live = "absent" /\ outbox = << >> /\ emitted = 0
    /\ srv = [l \in Links |-> IF l = 1 THEN "hello" ELSE "unused"]
    /\ linkEpoch = [l \in Links |-> 0]
    /\ written = [l \in Links |-> 0]
    /\ frameDispatched = [l \in Links |-> FALSE]
    /\ queued = [l \in Links |-> << >>]
    /\ running = [l \in Links |-> Idle]
    /\ pumping = [l \in Links |-> FALSE]
    /\ held = [l \in Links |-> << >>]
    /\ verdict = [l \in Links |-> "none"]
    /\ up = [l \in Links |-> TRUE]
    /\ c2s = [l \in Links |-> IF l = 1 THEN <<Hello(0)>> ELSE << >>]
    /\ s2c = [l \in Links |-> << >>]
    /\ cli = [l \in Links |-> IF l = 1 THEN "opening" ELSE "unused"]
    /\ pendingAck = [l \in Links |-> Idle]
    /\ nextClient = 1 /\ acked = 0 /\ received = 0
    /\ attempts = 1 /\ current = 1 /\ link = NoLink
    /\ status = "active"
    /\ accepted = << >> /\ dispatched = << >> /\ delivered = << >>
    /\ deferred = {}

ServerStep(l) ==
    \/ OpenSessionLink(l) \/ ReadFrame(l) \/ ReadAck(l) \/ AcceptFrame(l)
    \/ DispatchFrame(l) \/ DeferFrame(l) \/ DrainGateway(l) \/ PushFrames(l)
    \/ LoseSocket(l)

ClientStep(l) ==
    \/ BecomeReady(l) \/ ReceiveAck(l) \/ Receive(l) \/ FlushAck(l)
    \/ ServerClosedLink(l) \/ LoseLink(l)

Next ==
    \/ \E l \in Links : ServerStep(l) \/ ClientStep(l) \/ Break(l)
    \/ \E n \in deferred : RunDeferred(n)
    \/ EmitEvent \/ ExpireClient \/ Restart
    \/ Send \/ Resume \/ CloseChannel

Spec == Init /\ [][Next]_vars

(***************************************************************************)
(* Fairness.  Every thread of an open socket keeps running and the client  *)
(* keeps handling what its socket delivers, notices a dead socket (pong    *)
(* deadline, close event) and retries after a bounded delay.  Losing a     *)
(* healthy link, sending and closing are never obliged.                    *)
(***************************************************************************)
NoticeDeadLink(l) ==
    /\ ~up[l] \/ srv[l] = "ended"
    /\ LoseLink(l)

Fairness ==
    /\ \A l \in Links : /\ WF_vars(DrainGateway(l))
                        /\ WF_vars(PushFrames(l))
                        /\ WF_vars(DispatchFrame(l))
                        /\ WF_vars(AcceptFrame(l))
                        /\ WF_vars(ReadFrame(l) \/ ReadAck(l))
                        /\ WF_vars(OpenSessionLink(l))
                        /\ WF_vars(BecomeReady(l) \/ ReceiveAck(l)
                                    \/ Receive(l) \/ ServerClosedLink(l))
                        /\ WF_vars(NoticeDeadLink(l))
    /\ WF_vars(Resume)

FairSpec == Spec /\ Fairness

(***************************************************************************)
(* Types.                                                                  *)
(***************************************************************************)
Reasons == {"sessionExpired", "invalidAcknowledgement", "replayExpired",
            "sequenceGap", "superseded", "invalidHello"}

Messages == {"event", "reply"} \X Nat

ClientMessage == [type : {"hello", "frame", "ack"}, n : Nat]

ServerMessage == [type : {"ready", "ack"}, n : Nat]
                 \union [type : {"frame"}, n : Nat, message : Messages]
                 \union [type : {"close"}, kind : Reasons]

SessionTypes ==
    /\ sess \in {"none", "open", "lost"}
    /\ lastClient \in Nat /\ front \in Nat /\ nextServer \in Nat
    /\ enqueued \in Seq(Messages) /\ epoch \in Nat

GatewayTypes ==
    /\ live \in {"absent", "live", "expired"}
    /\ outbox \in Seq(Messages) /\ emitted \in Nat

ServerLinkTypes ==
    /\ srv \in [Links -> {"unused", "hello", "open", "ended"}]
    /\ linkEpoch \in [Links -> Nat] /\ written \in [Links -> Nat]
    /\ frameDispatched \in [Links -> BOOLEAN]
    /\ queued \in [Links -> Seq(Nat)] /\ running \in [Links -> Nat]
    /\ pumping \in [Links -> BOOLEAN] /\ held \in [Links -> Seq(Messages)]
    /\ verdict \in [Links -> Reasons \union {"none", "lost"}]

WireTypes ==
    /\ up \in [Links -> BOOLEAN]
    /\ c2s \in [Links -> Seq(ClientMessage)]
    /\ s2c \in [Links -> Seq(ServerMessage)]

ClientTypes ==
    /\ cli \in [Links -> {"unused", "opening", "ready", "ended"}]
    /\ pendingAck \in [Links -> Nat]
    /\ nextClient \in Nat /\ acked \in Nat /\ received \in Nat
    /\ attempts \in Links
    /\ current \in Links \union {NoLink} /\ link \in Links \union {NoLink}
    /\ status \in {"active", "failed", "closed"}

LogTypes ==
    /\ accepted \in Seq(Nat) /\ dispatched \in Seq(Nat)
    /\ delivered \in Seq(Messages) /\ deferred \subseteq Nat

\* The registry entry, the sockets and the channel hold values of the types
\* their structs declare.
TypeOK ==
    /\ SessionTypes /\ GatewayTypes /\ ServerLinkTypes
    /\ WireTypes /\ ClientTypes /\ LogTypes

(***************************************************************************)
(* Safety.                                                                 *)
(***************************************************************************)
\* accept_client_frame claims "exactly once within one App Server
\* generation": across every resend, on any number of links at once, the
\* frames claimed are 1, 2, 3, ... and no handler starts twice or unclaimed.
ClientFramesOnce ==
    /\ \A i \in 1 .. Len(accepted) : accepted[i] = i
    /\ Len(accepted) = lastClient /\ lastClient < nextClient
    /\ \A i, j \in 1 .. Len(dispatched) :
           dispatched[i] = dispatched[j] => i = j
    /\ \A i \in 1 .. Len(dispatched) : dispatched[i] \in 1 .. lastClient

\* acknowledge in reliableSessionChannel.ts forgets a client frame only once
\* the server has claimed it, so a frame is either claimed or still resendable.
ForgetsOnlyClaimed == acked <= lastClient

\* receive gives its listeners exactly the session's server sequence, in
\* order, without a hole or a repetition, whichever links carried it.
ServerFramesOnce ==
    /\ received = Len(delivered) /\ received < nextServer
    /\ nextServer = Len(enqueued) + 1
    /\ \A i \in 1 .. received : delivered[i] = enqueued[i]

\* acknowledge in reliable_session.rs drops only what the client applied: as
\* long as no more than the replay window is unapplied, every unapplied frame
\* is still retained.
RetainsUnapplied ==
    nextServer - 1 - received <= ReplayWindow => front <= received + 1

\* The frames waiting in q are the next one after the last applied and those
\* that follow it one by one.
InOrder(q, last) ==
    \A i \in 1 .. Len(q) : q[i].type = "frame" =>
        /\ q[i].n > last
        /\ \A j \in 1 .. i - 1 : q[j].type = "frame" => q[j].n < q[i].n
        /\ \/ q[i].n = last + 1
           \/ \E j \in 1 .. i - 1 : q[j].type = "frame" /\ q[j].n = q[i].n - 1

\* Neither peer meets a sequence the protocol forbids.  Nothing the client
\* writes overtakes its hello, no resend leaves a gap in front of
\* accept_client_frame and no acknowledgement runs ahead of the server
\* sequence, also on a link that was superseded or resumed.  The first frame
\* waiting on the client's link is the next one it needs, and those behind it
\* follow one by one: the pump neither skips an evicted frame nor repeats one
\* the resumed client has applied.
NoProtocolViolation ==
    \A l \in Links :
        /\ verdict[l] \notin {"sequenceGap", "invalidAcknowledgement",
                              "invalidHello"}
        /\ cli[l] \in {"opening", "ready"} => InOrder(s2c[l], received)

(***************************************************************************)
(* The inductive invariant behind the safety properties.                   *)
(***************************************************************************)
Elems(q) == {q[i] : i \in 1 .. Len(q)}

\* What may be in flight: the client has sent a frame it carries and applied
\* the cursor it reports; the server has claimed the cursor it reports and
\* carries the message it enqueued under that sequence.
UpOK(m) ==
    /\ m.type = "frame" => m.n < nextClient
    /\ m.type \in {"hello", "ack"} => m.n <= received

DownOK(m) ==
    /\ m.type \in {"ready", "ack"} => m.n <= lastClient
    /\ m.type = "frame" => /\ m.n \in 1 .. Len(enqueued)
                          /\ m.message = enqueued[m.n]

WireInv ==
    \A l \in Links : /\ \A m \in Elems(c2s[l]) : UpOK(m)
                     /\ \A m \in Elems(s2c[l]) : DownOK(m)
                     /\ \A n \in Elems(queued[l]) : n < nextClient
                     /\ pendingAck[l] <= received

UpInv ==
    /\ \A i \in 1 .. Len(accepted) : accepted[i] = i
    /\ Len(accepted) = lastClient /\ lastClient < nextClient
    /\ acked <= lastClient

\* A claimed frame is with one dispatcher, with one thread of its own, or
\* dispatched, and only one of these.
DispatchInv ==
    /\ \A i, j \in 1 .. Len(dispatched) :
           dispatched[i] = dispatched[j] => i = j
    /\ Elems(dispatched) \union deferred \subseteq 1 .. lastClient
    /\ Elems(dispatched) \intersect deferred = {}
    /\ \A l \in Links : running[l] # Idle =>
           /\ running[l] <= lastClient
           /\ running[l] \notin Elems(dispatched) \union deferred
           /\ \A k \in Links : k # l => running[k] # running[l]

DownInv ==
    /\ received = Len(delivered) /\ received < nextServer
    /\ nextServer = Len(enqueued) + 1
    /\ \A i \in 1 .. received : delivered[i] = enqueued[i]
    /\ front <= Larger(received + 1, nextServer - ReplayWindow)

\* The claims of accept_client_frame, the retained queues of both peers and
\* everything in flight on any link agree.
SessionInv == WireInv /\ UpInv /\ DispatchInv /\ DownInv

(***************************************************************************)
(* Liveness.                                                               *)
(***************************************************************************)
\* Unless the channel ends, every message the client sends is claimed by the
\* server (the resend after a resume loses nothing), and every message the
\* session takes reaches the client's listeners.
MessagesArrive ==
    /\ \A n \in 1 .. MaxSend :
           (nextClient > n) ~> (lastClient >= n \/ status # "active")
    /\ \A n \in 1 .. MaxSend + MaxEvents :
           (nextServer > n) ~> (received >= n \/ status # "active")

(***************************************************************************)
(* Refinement.                                                             *)
(***************************************************************************)
Channel == INSTANCE ReliableChannel WITH
    Message <- Messages,
    sentUp <- nextClient - 1,
    takenUp <- accepted,
    sentDown <- enqueued,
    takenDown <- delivered,
    open <- status = "active"

\* Links, resumption, replay and the threads of both peers implement two FIFO
\* streams: every step is a step of ReliableChannel or leaves it unchanged.
ImplementsChannel == Channel!ChannelSpec
=============================================================================
