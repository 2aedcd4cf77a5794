--------------------------- MODULE ClientLifecycle ---------------------------
(***************************************************************************)
(* Which clients own the App Server, and when it stops.                    *)
(*                                                                         *)
(* The client hub (client_lifecycle.rs) maps connections to initialized    *)
(* clients and gives silent clients a reconnect grace.  The process        *)
(* lifecycle (app_lifecycle.rs) drains when the last client leaves.  The   *)
(* gateway (protocol_edge.rs, client_handlers.rs,                          *)
(* server_request_handlers.rs) runs both, and what belongs to a client,    *)
(* under one lock.  Three threads act outside of a handler: the liveness   *)
(* expirer, the thread that finishes a client frame, and the process owner *)
(* that waits for a shutdown request (app_server_process.rs,               *)
(* local_http.rs).                                                         *)
(*                                                                         *)
(* Deadlines are kept as the time left to them, 0 once they are due.  A    *)
(* client makes up a fresh connection id for every transport it opens, so  *)
(* a connection belongs to one client for ever, and the map from           *)
(* connections to clients is the set of connections that have an entry.    *)
(***************************************************************************)
EXTENDS Integers

CONSTANTS
    Clients, Connections,
    Owner,              \* the client that made up a connection id
    ShellHolds,         \* clients that initialize with role ShellHold
    HeartbeatTimeout,   \* heartbeat_timeout_ms
    ReconnectGrace,     \* reconnect_grace_ms
    TransportReports,   \* whether a transport reports that it was closed
    Readers,            \* bound: connections that use the file viewer
    NoClient

ASSUME LifecycleAssumption ==
    /\ Owner \in [Connections -> Clients]
    /\ \A c \in Clients : \E k \in Connections : Owner[k] = c
    /\ Readers \subseteq Connections
    /\ ShellHolds \subseteq Clients
    /\ HeartbeatTimeout \in Nat \ {0} /\ ReconnectGrace \in Nat \ {0}
    /\ TransportReports \in BOOLEAN
    /\ NoClient \notin Clients

VARIABLES
    clients,      \* ClientHub.clients: the clients that have a record
    contextOf,    \* ClientRecord.context.connection_id
    live,         \* ClientRecord.liveness_expires_at
    inGrace,      \* ClientRecord.reconnect_expires_at is set,
    grace,        \* and what is left of it
    connections,  \* ClientHub.connections
    ever,         \* has_ever_initialized
    lifecycle,    \* AppLifecycle.state
    barrier,      \* owner of the UpdateShutdownBarrier
    subscribed,   \* clients with state subscriptions
    reading,      \* connections whose file read runs without the lock
    viewers,      \* FileViewerRegistry.targets, by opening connection
    finishing,    \* connections with a handled frame still to be reported
    expirer,      \* the liveness thread
    requested,    \* the first ShutdownCause in the channel
    owner,        \* the process owner
    stoppedFor,   \* the cause it stopped for
    silent        \* history: time since a client was last heard

hubVars == <<clients, contextOf, live, inGrace, grace, connections, ever>>
ownedVars == <<subscribed, reading, viewers>>
processVars == <<lifecycle, expirer, requested, owner, stoppedFor>>
vars == <<hubVars, ownedVars, processVars, barrier, finishing, silent>>

LastClientCauses == {"lastClientExpired", "lastClientDetached"}
Causes == LastClientCauses \cup {"replacementRequested"}
LongestSilence == HeartbeatTimeout + ReconnectGrace

\* The one type invariant.
TypeOK ==
    /\ clients \subseteq Clients
    /\ contextOf \in [Clients -> Connections]
    /\ live \in [Clients -> 0 .. HeartbeatTimeout]
    /\ inGrace \in [Clients -> BOOLEAN]
    /\ grace \in [Clients -> 0 .. ReconnectGrace]
    /\ connections \subseteq Connections
    /\ ever \in BOOLEAN
    /\ lifecycle \in {"running", "draining", "stopping"}
    /\ barrier \in Clients \cup {NoClient}
    /\ subscribed \subseteq Clients
    /\ reading \subseteq Connections /\ viewers \subseteq Connections
    /\ finishing \subseteq Connections
    /\ expirer \in {"idle", "settling", "gone"}
    /\ requested \in Causes \cup {"none"}
    /\ owner \in {"waiting", "closing", "done"}
    /\ stoppedFor \in Causes \cup {"none"}
    /\ silent \in [Clients -> 0 .. LongestSilence]

ConnectionsOf(cs) == {k \in Connections : Owner[k] \in cs}

(***************************************************************************)
(* The hub.                                                                *)
(***************************************************************************)
\* observe_connection_activity, for a connection that has an entry.
Heard(c) ==
    /\ live' = [live EXCEPT ![c] = HeartbeatTimeout]
    /\ silent' = [silent EXCEPT ![c] = 0]

\* initialize: the connection becomes the only one of its client.
MutantConnectionsAfterInitialize(k) == connections \cup {k}

ConnectionsAfterInitialize(k) ==
    (connections \ ConnectionsOf({Owner[k]})) \cup {k}

\* The first half of expire_inactive_clients: who falls silent now.
MutantEntering == {c \in clients : live[c] = 0}

Entering == {c \in clients : ~inGrace[c] /\ live[c] = 0}

\* The second half: whose grace is over, a fresh one never.
MutantExpiring ==
    {c \in clients : grace[c] = 0 /\ (inGrace[c] \/ c \in Entering)}

Expiring == {c \in clients \ Entering : inGrace[c] /\ grace[c] = 0}

\* begin_draining_after_last_client, once remaining are the clients left.
Drained(remaining) ==
    IF remaining = {} /\ lifecycle = "running" THEN "draining" ELSE lifecycle

\* What leaves with clients cs under the gateway's lock, whatever removes them.
Leave(cs) ==
    /\ clients' = clients \ cs
    /\ subscribed' = subscribed \ cs
    /\ lifecycle' = Drained(clients \ cs)

(***************************************************************************)
(* Requests.  Every handled frame is reported to client_frame_handled,     *)
(* which takes the lock again.                                             *)
(***************************************************************************)
Handled(k) == finishing' = finishing \cup {k}

\* handle_initialize.  A barrier of another client refuses it; the client's
\* own barrier is an abandoned one and is cleared, even if admission fails.
Admitted(c) == lifecycle # "stopping" /\ barrier \in {c, NoClient}

Initialize(k) ==
    LET c == Owner[k] IN
    /\ barrier' = IF barrier = c THEN NoClient ELSE barrier
    /\ IF Admitted(c)
       THEN /\ ever' = TRUE
            /\ clients' = clients \cup {c}
            /\ contextOf' = [contextOf EXCEPT ![c] = k]
            /\ inGrace' = [inGrace EXCEPT ![c] = FALSE]
            /\ connections' = ConnectionsAfterInitialize(k)
            /\ Heard(c)
            /\ lifecycle' = "running"
            /\ UNCHANGED grace
       ELSE UNCHANGED <<hubVars, lifecycle, silent>>
    /\ Handled(k)
    /\ UNCHANGED <<ownedVars, expirer, requested, owner, stoppedFor>>

\* Any authenticated request, heartbeat, poll or write of a link: only the
\* entry of the connection makes it count.
Activity(k) ==
    /\ k \in connections
    /\ Heard(Owner[k])
    /\ UNCHANGED <<clients, contextOf, inGrace, grace, connections, ever,
                   ownedVars, processVars, barrier, finishing>>

\* handle_subscribe and handle_unsubscribe, refused behind a barrier.
Subscribe(k) ==
    /\ k \in connections
    /\ Heard(Owner[k])
    /\ IF barrier = NoClient
       THEN \/ subscribed' = subscribed \cup {Owner[k]}
            \/ subscribed' = subscribed \ {Owner[k]}
       ELSE UNCHANGED subscribed
    /\ Handled(k)
    /\ UNCHANGED <<clients, contextOf, inGrace, grace, connections, ever,
                   reading, viewers, processVars, barrier>>

\* handle_file_viewer_without_protocol_lock: authorize under the lock,
PrepareRead(k) ==
    /\ k \in connections \cap Readers /\ k \notin reading
    /\ barrier = NoClient
    /\ Heard(Owner[k])
    /\ reading' = reading \cup {k}
    /\ UNCHANGED <<clients, contextOf, inGrace, grace, connections, ever,
                   subscribed, viewers, processVars, barrier, finishing>>

\* register the target while nothing is locked,
RegisterViewer(k) ==
    /\ k \in reading
    /\ viewers' = viewers \cup {k}
    /\ UNCHANGED <<hubVars, processVars, subscribed, reading, barrier,
                   finishing, silent>>

\* and answer only the client that still owns the connection.
FinishRead(k) ==
    /\ k \in reading /\ k \in viewers
    /\ reading' = reading \ {k}
    /\ IF k \in connections
       THEN Heard(Owner[k]) /\ UNCHANGED viewers
       ELSE viewers' = viewers \ {k} /\ UNCHANGED <<live, silent>>
    /\ Handled(k)
    /\ UNCHANGED <<clients, contextOf, inGrace, grace, connections, ever,
                   subscribed, processVars, barrier>>

\* fileViewer/release.
ReleaseViewer(k) ==
    /\ k \in connections /\ barrier = NoClient
    /\ Heard(Owner[k])
    /\ \E j \in viewers \cap ConnectionsOf({Owner[k]}) :
          viewers' = viewers \ {j}
    /\ Handled(k)
    /\ UNCHANGED <<clients, contextOf, inGrace, grace, connections, ever,
                   subscribed, reading, processVars, barrier>>

\* handle_client_detach and detach_client.
Detach(k) ==
    LET c == Owner[k] IN
    /\ k \in connections
    /\ Leave({c})
    /\ connections' = connections \ ConnectionsOf({c})
    /\ viewers' = viewers \ ConnectionsOf({c})
    /\ Heard(c)
    /\ Handled(k)
    /\ UNCHANGED <<contextOf, inGrace, grace, ever, reading, expirer,
                   requested, owner, stoppedFor, barrier>>

\* handle_update_shutdown_prepare: whether this client may have the server
\* stopped.  Work it would interrupt may refuse it too, which is PrepareUpdate
\* not happening.
MutantOtherOwners(c) == {d \in clients \ {c} : ~inGrace[d]} \ ShellHolds

OtherOwners(c) == (clients \ {c}) \ ShellHolds

PrepareUpdate(k) ==
    LET c == Owner[k] IN
    /\ k \in connections
    /\ Heard(c)
    /\ barrier' = IF barrier = NoClient /\ OtherOwners(c) = {} THEN c
                  ELSE barrier
    /\ Handled(k)
    /\ UNCHANGED <<clients, contextOf, inGrace, grace, connections, ever,
                   ownedVars, processVars>>

\* handle_update_shutdown_abort; a commit only marks the attempt.
AbortUpdate(k) ==
    /\ k \in connections
    /\ Heard(Owner[k])
    /\ barrier' = IF barrier = Owner[k] THEN NoClient ELSE barrier
    /\ Handled(k)
    /\ UNCHANGED <<clients, contextOf, inGrace, grace, connections, ever,
                   ownedVars, processVars>>

(***************************************************************************)
(* Transports and time.                                                    *)
(***************************************************************************)
\* handle_transport_closed.  No listener of the App Server calls it today; it
\* belongs to the gateway's interface and its tests.
TransportClosed(k) ==
    /\ TransportReports /\ k \in connections
    /\ connections' = connections \ {k}
    /\ inGrace' = [inGrace EXCEPT ![Owner[k]] = TRUE]
    /\ grace' = [grace EXCEPT ![Owner[k]] = ReconnectGrace]
    /\ UNCHANGED <<clients, contextOf, live, ever, ownedVars, processVars,
                   barrier, finishing, silent>>

Less(n) == IF n = 0 THEN 0 ELSE n - 1

Tick ==
    /\ live' = [c \in Clients |-> Less(live[c])]
    /\ grace' = [c \in Clients |-> Less(grace[c])]
    /\ silent' = [c \in Clients |->
                     IF silent[c] < LongestSilence THEN silent[c] + 1
                     ELSE LongestSilence]
    /\ UNCHANGED <<clients, contextOf, inGrace, connections, ever, ownedVars,
                   processVars, barrier, finishing>>

(***************************************************************************)
(* The threads that stop the process.                                      *)
(***************************************************************************)
\* should_shutdown_after_last_client.
ShouldShutdown == lifecycle = "draining" /\ ever /\ clients = {}

\* The process owner takes one request; later ones change nothing.
Request(cause) == requested' = IF requested = "none" THEN cause ELSE requested

\* One turn of start_client_liveness_expirer: expire_inactive_clients.
Sweep ==
    LET expired == Expiring IN
    /\ expirer = "idle"
    /\ Entering \cup expired # {}
    /\ inGrace' = [c \in Clients |-> inGrace[c] \/ c \in Entering]
    /\ grace' = [c \in Clients |->
                    IF c \in Entering THEN ReconnectGrace ELSE grace[c]]
    /\ connections' = connections \ ConnectionsOf(Entering \cup expired)
    /\ IF expired # {} THEN Leave(expired)
       ELSE UNCHANGED <<clients, subscribed, lifecycle>>
    /\ expirer' = IF expired # {} /\ clients \subseteq expired
                  THEN "settling" ELSE "idle"
    /\ UNCHANGED <<contextOf, live, ever, reading, viewers, requested, owner,
                   stoppedFor, barrier, finishing, silent>>

\* request_shutdown_after_last_client, after LAST_CLIENT_DRAIN_SETTLE_INTERVAL.
\* The thread ends with the request it sends.
Settle ==
    /\ expirer = "settling"
    /\ IF ShouldShutdown
       THEN Request("lastClientExpired") /\ expirer' = "gone"
       ELSE expirer' = "idle" /\ UNCHANGED requested
    /\ UNCHANGED <<hubVars, ownedVars, lifecycle, owner, stoppedFor, barrier,
                   finishing, silent>>

\* client_frame_handled.
MutantFrameHandled(k) ==
    /\ k \in finishing
    /\ finishing' = finishing \ {k}
    /\ IF ShouldShutdown /\ expirer = "settling" THEN Request("lastClientDetached")
       ELSE UNCHANGED requested
    /\ UNCHANGED <<hubVars, ownedVars, lifecycle, expirer, owner, stoppedFor,
                   barrier, silent>>

FrameHandled(k) ==
    /\ k \in finishing
    /\ finishing' = finishing \ {k}
    /\ IF ShouldShutdown THEN Request("lastClientDetached")
       ELSE UNCHANGED requested
    /\ UNCHANGED <<hubVars, ownedVars, lifecycle, expirer, owner, stoppedFor,
                   barrier, silent>>

\* An App Server of another version asks for this state root.
Replace ==
    /\ requested = "none"
    /\ Request("replacementRequested")
    /\ UNCHANGED <<hubVars, ownedVars, lifecycle, expirer, owner, stoppedFor,
                   barrier, finishing, silent>>

\* shutdown_when_requested: the request is received, terminals are closed
\* without the lock,
ReceiveShutdown ==
    /\ owner = "waiting" /\ requested # "none"
    /\ owner' = "closing"
    /\ UNCHANGED <<hubVars, ownedVars, lifecycle, expirer, requested,
                   stoppedFor, barrier, finishing, silent>>

\* and the gateway stops without looking at the clients again.
Shutdown ==
    /\ owner = "closing"
    /\ owner' = "done"
    /\ lifecycle' = "stopping"
    /\ stoppedFor' = requested
    /\ UNCHANGED <<hubVars, ownedVars, expirer, requested, barrier, finishing,
                   silent>>

(***************************************************************************)
(* The specification.  Nothing happens after the process owner is done.    *)
(***************************************************************************)
Init ==
    /\ clients = {} /\ connections = {} /\ ever = FALSE
    /\ contextOf =
          [c \in Clients |-> CHOOSE k \in Connections : Owner[k] = c]
    /\ live = [c \in Clients |-> 0]
    /\ inGrace = [c \in Clients |-> FALSE] /\ grace = [c \in Clients |-> 0]
    /\ lifecycle = "running" /\ barrier = NoClient
    /\ subscribed = {} /\ reading = {} /\ viewers = {} /\ finishing = {}
    /\ expirer = "idle" /\ requested = "none" /\ owner = "waiting"
    /\ stoppedFor = "none"
    /\ silent = [c \in Clients |-> 0]

ClientStep(k) ==
    \/ Initialize(k) \/ Activity(k) \/ Subscribe(k) \/ Detach(k)
    \/ PrepareUpdate(k) \/ AbortUpdate(k) \/ TransportClosed(k)
    \/ PrepareRead(k) \/ RegisterViewer(k) \/ FinishRead(k) \/ ReleaseViewer(k)
    \/ FrameHandled(k)

ProcessStep ==
    Tick \/ Sweep \/ Settle \/ Replace \/ ReceiveShutdown \/ Shutdown

Alive == owner # "done"

Next ==
    /\ Alive
    /\ (\E k \in Connections : ClientStep(k)) \/ ProcessStep

Spec == Init /\ [][Next]_vars

\* The threads of the process run: time passes, the expirer turns, a handled
\* frame is reported, the owner acts on a request.  No client is obliged to
\* do anything.
FairSpec ==
    /\ Spec
    /\ WF_vars(Alive /\ Tick) /\ WF_vars(Alive /\ Sweep) /\ WF_vars(Alive /\ Settle)
    /\ WF_vars(Alive /\ ReceiveShutdown) /\ WF_vars(Alive /\ Shutdown)
    /\ \A k \in Connections : WF_vars(Alive /\ FrameHandled(k))

(***************************************************************************)
(* Properties.                                                             *)
(***************************************************************************)
\* A connection acts for a client only while that client is initialized, out
\* of grace and on this connection, and a client out of grace is served on the
\* connection its events are delivered to.  initialize, expiry and detach all
\* touch both maps of the hub.
ConnectionAuthority ==
    /\ \A k \in connections :
          LET c == Owner[k]
          IN  c \in clients /\ ~inGrace[c] /\ contextOf[c] = k
    /\ \A c \in clients : ~inGrace[c] => contextOf[c] \in connections

\* Client-scoped subscriptions never outlive the client's record: whichever of
\* detach and expiry removes it takes them along.
SubscriptionsOwned == subscribed \subseteq clients

\* The server drains exactly while it had clients and has none; no client is
\* ever attached to a draining server.
DrainsWithoutClients ==
    lifecycle # "stopping" =>
        (lifecycle = "draining" <=> ever /\ clients = {})

\* While an update shutdown is prepared no other client than its owner, shell
\* holds aside, is initialized: neither one that was in reconnect grace at the
\* prepare nor one that arrives later.
BarrierExcludesOthers ==
    barrier # NoClient => clients \subseteq ShellHolds \cup {barrier}

\* The expirer removes only clients that were not heard for the heartbeat
\* timeout and then a whole reconnect grace; a sweep that finds a client silent
\* never removes it.
ExpiresOnlyAfterSilence ==
    [][Sweep => \A c \in clients \ clients' :
           silent[c] >= ReconnectGrace + (IF TransportReports THEN 0
                                          ELSE HeartbeatTimeout)]_vars

\* A client that is not heard again is removed, unless the process ends first:
\* nothing renews its grace.
AbandonedClientLeaves ==
    \A c \in Clients :
        (c \in clients /\ silent[c] > 0)
            ~> (c \notin clients \/ silent[c] = 0 \/ owner = "done")

\* When the last client is gone the process ends, unless a client initializes:
\* no detach and no expiry leaves a server without clients behind.
LastClientStops ==
    (ever /\ clients = {}) ~> (clients # {} \/ owner = "done")

\* What makes ExpiresOnlyAfterSilence inductive: the silence already observed
\* and the time left to a deadline add up.
SilenceInv ==
    \A c \in clients :
        IF inGrace[c]
        THEN silent[c] + grace[c] >=
                 ReconnectGrace + (IF TransportReports THEN 0
                                   ELSE HeartbeatTimeout)
        ELSE silent[c] + live[c] >= HeartbeatTimeout

==============================================================================
