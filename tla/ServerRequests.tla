--------------------------- MODULE ServerRequests ---------------------------
(***************************************************************************)
(* Requests of the App Server to its clients (ServerRequestRuntime and     *)
(* ServerRequestBroker), for one Task: permission requests and questions   *)
(* of an Agent, secrets a Task needs, and requests to the shell of one     *)
(* client.  Clients attach, leave, subscribe and answer; the threads that  *)
(* opened the requests wait.                                               *)
(*                                                                         *)
(* One mutex guards the broker and the waiters, so a method of the runtime *)
(* is one step; a waiting thread takes the mutex anew whenever it wakes.   *)
(* The gateway's mutex makes a client's request one step as well.          *)
(***************************************************************************)
EXTENDS Naturals

CONSTANTS
    Clients,
    Capable,        \* clients that declare the permission and question capabilities
    Questions,      \* permission/request and question/request, Task-scoped
    Secrets,        \* secret/read for a Task, Task-scoped
    Shells          \* secret/read, shell/... for one client, Client-scoped

Requests == Questions \cup Secrets \cup Shells

(* Marks of the waiters and of the threads; no client has such a name. *)
Marks == {"none", "waiting", "policy", "no", "nothing"}

ASSUME ServerRequestsAssumption ==
    /\ Capable \subseteq Clients
    /\ Questions \cap Secrets = {} /\ Questions \cap Shells = {} /\ Secrets \cap Shells = {}
    /\ Clients \cap Marks = {}

VARIABLES
    presence,   \* a client's place in the ClientHub
    subscribed, \* clients subscribed to the Task
    available,  \* available_responders: the scopes of each; {} when absent
    status,     \* the broker's record of a request
    target,     \* the client of a Client-scoped request
    responders, \* PendingRecord.responders
    waiter,     \* the runtime's waiter: none, waiting or the answer it holds
    thread,     \* the thread that opened the request
    cancelled,  \* requests whose Turn or exchange has been cancelled
    sent,       \* history: clients a shell request was put on the wire to; Nobody
                \* is one when the reply that was to carry it became an error
    answer,     \* history: the answer that was accepted last
    returned    \* history: what the thread got

clients == <<presence, subscribed>>
broker == <<available, status, target, responders>>
history == <<sent, answer, returned>>
vars == <<clients, broker, waiter, thread, cancelled, history>>

Nobody == "none"

(* The types of the hub, the broker, the waiters and the threads. *)
TypeOK ==
    /\ presence \in [Clients -> {"new", "attached", "away", "gone"}]
    /\ subscribed \subseteq Clients
    /\ available \in [Clients -> SUBSET {"Client", "Task"}]
    /\ status \in [Requests -> {"unopened", "pending", "resolved", "interrupted", "forgotten"}]
    /\ target \in [Requests -> Clients \cup {Nobody}]
    /\ responders \in [Requests -> [Clients -> {"none", "eligible", "delivered", "stale"}]]
    /\ waiter \in [Requests -> Clients \cup {"none", "waiting", "policy"}]
    /\ thread \in [Requests -> {"none", "opened", "waiting", "done", "refused"}]
    /\ cancelled \subseteq Requests
    /\ sent \in [Shells -> SUBSET (Clients \cup {Nobody})]
    /\ answer \in [Requests -> Clients \cup {"none", "policy"}]
    /\ returned \in [Requests -> Clients \cup {"no", "nothing", "policy"}]

Init ==
    /\ presence = [c \in Clients |-> "new"] /\ subscribed = {}
    /\ available = [c \in Clients |-> {}]
    /\ status = [r \in Requests |-> "unopened"]
    /\ target = [r \in Requests |-> Nobody]
    /\ responders = [r \in Requests |-> [c \in Clients |-> "none"]]
    /\ waiter = [r \in Requests |-> "none"]
    /\ thread = [r \in Requests |-> "none"]
    /\ cancelled = {}
    /\ sent = [r \in Shells |-> {}]
    /\ answer = [r \in Requests |-> "none"]
    /\ returned = [r \in Requests |-> "no"]

-----------------------------------------------------------------------------
(* Routing. *)

Pending(r) == status[r] = "pending"
TaskScoped(r) == r \in Questions \cup Secrets

(* Delivery::supports_method: only questions need a capability. *)
Supports(c, r) == r \in Questions => c \in Capable

(* record_matches_responder, for a responder c with the given scopes. *)
Matches(r, c, scopes) ==
    IF r \in Questions THEN "Client" \in scopes
    ELSE IF r \in Secrets THEN "Task" \in scopes
    ELSE target[r] = c /\ "Client" \in scopes

(* RpcGateway::responder_scopes. *)
Scopes(c, subs) == {"Client"} \cup (IF c \in subs THEN {"Task"} ELSE {})

(* Mutant: what was stale stays stale. *)
MutantDeliverable(r, c, scopes) ==
    /\ Pending(r) /\ responders[r][c] \in {"none", "eligible"}
    /\ Supports(c, r) /\ Matches(r, c, scopes)

(* What observe_responder_available delivers to c. *)
Deliverable(r, c, scopes) ==
    /\ Pending(r) /\ responders[r][c] # "delivered"
    /\ Supports(c, r) /\ Matches(r, c, scopes)

(* observe_responder_available.  It marks what it returns as delivered;    *)
(* the caller puts it on the wire to the receiver.  (The pump drops        *)
(* permissions and questions, which clients render from the Task's state.) *)
ResponderAvailable(c, scopes, receiver) ==
    /\ available' = [available EXCEPT ![c] = scopes]
    /\ responders' = [r \in Requests |->
                        IF Deliverable(r, c, scopes)
                        THEN [responders[r] EXCEPT ![c] = "delivered"] ELSE responders[r]]
    /\ sent' = [r \in Shells |->
                    IF Deliverable(r, c, scopes) THEN sent[r] \cup {receiver} ELSE sent[r]]
    /\ UNCHANGED <<status, target>>

MarkedStale(r, c) == [responders[r] EXCEPT ![c] = IF @ = "none" THEN @ ELSE "stale"]

(* observe_responder_unavailable and observe_responder_loss: Client-scoped *)
(* requests of c end and their waiters go; Task-scoped ones stay.          *)
ResponderLost(c) ==
    LET ended(r) == Pending(r) /\ r \in Shells /\ target[r] = c IN
    /\ available' = [available EXCEPT ![c] = {}]
    /\ status' = [r \in Requests |-> IF ended(r) THEN "interrupted" ELSE status[r]]
    /\ waiter' = [r \in Requests |-> IF ended(r) THEN "none" ELSE waiter[r]]
    /\ responders' = [r \in Requests |->
                        IF Pending(r) /\ TaskScoped(r) THEN MarkedStale(r, c)
                                                       ELSE responders[r]]
    /\ UNCHANGED <<target, thread, cancelled, history>>

-----------------------------------------------------------------------------
(* Clients. *)

(* client/initialize, first or again.  The deliveries go with the reply,   *)
(* or are dropped with it when the snapshot of the client cannot be read.  *)
Initialize(c, readable) ==
    /\ presence' = [presence EXCEPT ![c] = "attached"]
    /\ ResponderAvailable(c, Scopes(c, subscribed), IF readable THEN c ELSE Nobody)
    /\ UNCHANGED <<subscribed, waiter, thread, cancelled, answer, returned>>

(* handle_transport_closed: the client may come back. *)
TransportClosed(c) ==
    /\ presence[c] = "attached"
    /\ presence' = [presence EXCEPT ![c] = "away"]
    /\ ResponderLost(c)
    /\ UNCHANGED subscribed

(* detach_client and the two expiries. *)
ClientExpires(c) ==
    /\ presence[c] \in {"attached", "away"}
    /\ presence' = [presence EXCEPT ![c] = "gone"]
    /\ subscribed' = subscribed \ {c}
    /\ ResponderLost(c)

(* handle_subscribe to the Task; the deliveries go with the reply. *)
Subscribe(c) ==
    /\ presence[c] = "attached"
    /\ subscribed' = subscribed \cup {c}
    /\ ResponderAvailable(c, available[c] \cup {"Client", "Task"}, c)
    /\ UNCHANGED <<presence, waiter, thread, cancelled, answer, returned>>

(* handle_unsubscribe, and task/release. *)
Unsubscribe(c) ==
    LET scopes == available[c] \ {"Task"} IN
    /\ presence[c] = "attached"
    /\ subscribed' = subscribed \ {c}
    /\ available' = [available EXCEPT ![c] = scopes]
    /\ responders' = [r \in Requests |->
                        IF Pending(r) /\ TaskScoped(r) /\ ~Matches(r, c, scopes)
                        THEN MarkedStale(r, c) ELSE responders[r]]
    /\ UNCHANGED <<presence, status, target, waiter, thread, cancelled, history>>

(* The pump of a connection: drain_server_requests_for_connection, then    *)
(* queue_connection_deliveries.                                            *)
Drain(c) ==
    /\ presence[c] = "attached"
    /\ ResponderAvailable(c, Scopes(c, subscribed), c)
    /\ UNCHANGED <<clients, waiter, thread, cancelled, answer, returned>>

(* Mutant: an answer to a request that is over still counts. *)
MutantAnswerable(r) == status[r] \in {"pending", "resolved"}

Answerable(r) == Pending(r)

(* handle_response_from_scopes.  Whoever matches becomes a responder; only *)
(* a responder that is not stale can answer, only a pending request, and   *)
(* an invalid answer leaves it pending.  Nothing reads the responders of a *)
(* request that is over, so they are not recorded.                         *)
Respond(c, r, valid) ==
    LET joins == Pending(r) /\ responders[r][c] = "none" /\ Matches(r, c, Scopes(c, subscribed))
        accepted == /\ joins \/ responders[r][c] \in {"eligible", "delivered"}
                    /\ Answerable(r) /\ valid
    IN
    /\ presence[c] = "attached" /\ status[r] \notin {"unopened", "forgotten"}
    /\ responders' = IF joins THEN [responders EXCEPT ![r][c] = "eligible"] ELSE responders
    /\ status' = IF accepted THEN [status EXCEPT ![r] = "resolved"] ELSE status
    /\ waiter' = IF accepted /\ waiter[r] # "none" THEN [waiter EXCEPT ![r] = c] ELSE waiter
    /\ answer' = IF accepted THEN [answer EXCEPT ![r] = c] ELSE answer
    /\ UNCHANGED <<clients, available, target, thread, cancelled, sent, returned>>

-----------------------------------------------------------------------------
(* The threads that open requests. *)

(* Responders that broker.open finds by itself. *)
Found(r) == {c \in Clients : available[c] # {} /\ Supports(c, r) /\ Matches(r, c, available[c])}

Opened(r, phase) ==
    /\ status[r] = "unopened"
    /\ status' = [status EXCEPT ![r] = "pending"]
    /\ waiter' = [waiter EXCEPT ![r] = "waiting"]
    /\ thread' = [thread EXCEPT ![r] = phase]
    /\ UNCHANGED <<clients, cancelled, history>>

(* open_permission_request and open_question_request: the deliveries are   *)
(* left to the pumps (defer_deliveries).                                   *)
OpenQuestion(r) ==
    /\ Opened(r, "opened")
    /\ responders' = [responders EXCEPT ![r] =
                        [c \in Clients |-> IF c \in Found(r) THEN "eligible" ELSE "none"]]
    /\ UNCHANGED <<available, target>>

(* open_task_secret_read_request; resolve_secret drops the deliveries. *)
OpenSecret(r) ==
    /\ Opened(r, "waiting")
    /\ responders' = [responders EXCEPT ![r] =
                        [c \in Clients |-> IF c \in Found(r) THEN "delivered" ELSE "none"]]
    /\ UNCHANGED <<available, target>>

(* open_waitable_client_request with a delivery that was looked up         *)
(* earlier: the client may have left since.  DeferShell is its second      *)
(* critical section.                                                       *)
OpenShell(r, c) ==
    /\ presence[c] # "new"
    /\ Opened(r, "opened")
    /\ target' = [target EXCEPT ![r] = c]
    /\ available' = [available EXCEPT ![c] = @ \cup {"Client"}]
    /\ responders' = [responders EXCEPT ![r][c] = "delivered"]

(* Mutant: the delivery that open marked is not taken back. *)
MutantDeferShell(r) ==
    /\ thread[r] = "opened"
    /\ thread' = [thread EXCEPT ![r] = "waiting"]
    /\ UNCHANGED <<clients, broker, waiter, cancelled, history>>

(* defer_deliveries, after the mutex was free: pumps may have run. *)
DeferShell(r) ==
    /\ thread[r] = "opened"
    /\ thread' = [thread EXCEPT ![r] = "waiting"]
    /\ responders' = [responders EXCEPT ![r][target[r]] = "eligible"]
    /\ UNCHANGED <<clients, available, status, target, waiter, cancelled, history>>

(* auto_approve_permission, before the thread waits. *)
AutoApprove(r) ==
    /\ thread[r] = "opened" /\ Pending(r) /\ waiter[r] = "waiting"
    /\ status' = [status EXCEPT ![r] = "resolved"]
    /\ waiter' = [waiter EXCEPT ![r] = "policy"]
    /\ answer' = [answer EXCEPT ![r] = "policy"]
    /\ thread' = [thread EXCEPT ![r] = "waiting"]
    /\ UNCHANGED <<clients, available, target, responders, cancelled, sent, returned>>

(* mark_permission_waiting and handle_question: the Task waits. *)
TaskWaits(r) ==
    /\ thread[r] = "opened"
    /\ thread' = [thread EXCEPT ![r] = "waiting"]
    /\ UNCHANGED <<clients, broker, waiter, cancelled, history>>

Finished(r, result) ==
    /\ thread' = [thread EXCEPT ![r] = "done"]
    /\ returned' = [returned EXCEPT ![r] = result]

(* broker.interrupt_request together with the removal of the waiter. *)
Interrupted(r) ==
    /\ status' = [status EXCEPT ![r] = IF @ = "pending" THEN "interrupted" ELSE @]
    /\ waiter' = [waiter EXCEPT ![r] = "none"]

(* The Turn is over, or the Task cannot be written: interrupt_request. *)
TaskRefuses(r) ==
    /\ thread[r] = "opened"
    /\ Interrupted(r)
    /\ thread' = [thread EXCEPT ![r] = "refused"]
    /\ returned' = [returned EXCEPT ![r] = "nothing"]
    /\ UNCHANGED <<clients, available, target, responders, cancelled, sent, answer>>

(* wait_permission_response, wait_question_response and                    *)
(* wait_client_response_cancellable: cancellation first.                   *)
WaitCancelled(r) ==
    /\ thread[r] = "waiting" /\ r \in cancelled
    /\ Interrupted(r) /\ Finished(r, "nothing")
    /\ UNCHANGED <<clients, available, target, responders, cancelled, sent, answer>>

(* Mutant: a waiter that is gone is taken for one that still waits. *)
MutantWaitsOn(r) ==
    /\ thread[r] = "waiting" /\ r \notin cancelled /\ waiter[r] \notin {"waiting", "none"}
    /\ waiter' = [waiter EXCEPT ![r] = "none"]
    /\ Finished(r, waiter[r])
    /\ UNCHANGED <<clients, broker, cancelled, sent, answer>>

(* Then the answer, or a waiter that is gone. *)
WaitReturns(r) ==
    /\ thread[r] = "waiting" /\ r \notin cancelled /\ waiter[r] # "waiting"
    /\ waiter' = [waiter EXCEPT ![r] = "none"]
    /\ Finished(r, IF waiter[r] = "none" THEN "nothing" ELSE waiter[r])
    /\ UNCHANGED <<clients, broker, cancelled, sent, answer>>

(* Mutant: the time is up although the answer has come. *)
MutantWaitTimesOut(r) ==
    /\ thread[r] = "waiting" /\ r \notin cancelled /\ waiter[r] # "none"
    /\ Interrupted(r) /\ Finished(r, "nothing")
    /\ UNCHANGED <<clients, available, target, responders, cancelled, sent, answer>>

(* Then the time limit, for secrets and shells. *)
WaitTimesOut(r) ==
    /\ thread[r] = "waiting" /\ r \notin cancelled /\ waiter[r] = "waiting"
    /\ Interrupted(r) /\ Finished(r, "nothing")
    /\ UNCHANGED <<clients, available, target, responders, cancelled, sent, answer>>

(* forget_auth_terminal_exchange. *)
Forget(r) ==
    /\ thread[r] = "done" /\ status[r] # "forgotten"
    /\ status' = [status EXCEPT ![r] = "forgotten"]
    /\ waiter' = [waiter EXCEPT ![r] = "none"]
    /\ UNCHANGED <<clients, available, target, responders, thread, cancelled, history>>

-----------------------------------------------------------------------------
(* The owner of the Turn. *)

(* TurnCancellation::cancel, of a Turn, a question or a sign-in. *)
Cancel(r) ==
    /\ r \notin Secrets                        \* wait_client_response has no token
    /\ thread[r] \in {"opened", "waiting"} /\ r \notin cancelled
    /\ cancelled' = cancelled \cup {r}
    /\ UNCHANGED <<clients, broker, waiter, thread, history>>

(* Mutant: the waiters stay. *)
MutantInterruptTaskRequests ==
    LET ended(r) == Pending(r) /\ TaskScoped(r) IN
    /\ \E r \in Requests : ended(r)
    /\ status' = [r \in Requests |-> IF ended(r) THEN "interrupted" ELSE status[r]]
    /\ UNCHANGED <<clients, available, target, responders, waiter, thread, cancelled, history>>

(* interrupt_task_requests, when active work ends. *)
InterruptTaskRequests ==
    LET ended(r) == Pending(r) /\ TaskScoped(r) IN
    /\ \E r \in Requests : ended(r)
    /\ status' = [r \in Requests |-> IF ended(r) THEN "interrupted" ELSE status[r]]
    /\ waiter' = [r \in Requests |-> IF ended(r) THEN "none" ELSE waiter[r]]
    /\ UNCHANGED <<clients, available, target, responders, thread, cancelled, history>>

-----------------------------------------------------------------------------

ClientNext(c) ==
    \/ \E readable \in BOOLEAN : Initialize(c, readable)
    \/ TransportClosed(c) \/ ClientExpires(c)
    \/ Subscribe(c) \/ Unsubscribe(c)
    \/ \E r \in Requests, valid \in BOOLEAN : Respond(c, r, valid)

OpenNext ==
    \/ \E r \in Questions : OpenQuestion(r)
    \/ \E r \in Secrets : OpenSecret(r)
    \/ \E r \in Shells, c \in Clients : OpenShell(r, c)

(* The steps of the thread of a request. *)
ThreadNext(r) ==
    \/ r \in Questions /\ (AutoApprove(r) \/ TaskWaits(r) \/ TaskRefuses(r))
    \/ r \in Shells /\ DeferShell(r)
    \/ WaitCancelled(r) \/ WaitReturns(r)

Next ==
    \/ \E c \in Clients : ClientNext(c) \/ Drain(c)
    \/ OpenNext \/ InterruptTaskRequests
    \/ \E r \in Requests : ThreadNext(r) \/ Cancel(r)
    \/ \E r \in Secrets \cup Shells : WaitTimesOut(r)
    \/ \E r \in Shells : Forget(r)

Spec == Init /\ [][Next]_vars

(* Threads wake within 50 ms of a change, and the pump of a client that    *)
(* stays polls.  No time limit is counted on.                              *)
Fairness ==
    /\ \A r \in Requests : WF_vars(ThreadNext(r))
    /\ \A c \in Clients : WF_vars(Drain(c))

FairSpec == Spec /\ Fairness

-----------------------------------------------------------------------------
(* Properties. *)

(* A request is pending exactly while its waiter has no answer yet, and a  *)
(* waiter holds the accepted answer: neither can a client be told Accepted *)
(* when nobody waits, nor a thread wait for a request nobody can answer    *)
(* (permission_waiters, question_waiters, waitable_requests and the        *)
(* broker's records).                                                      *)
WaitersMatchRecords ==
    \A r \in Requests :
        /\ Pending(r) <=> waiter[r] = "waiting"
        /\ waiter[r] \notin {"none", "waiting"} => status[r] = "resolved" /\ answer[r] = waiter[r]

(* An attached client that supports a pending request and matches its      *)
(* scope is not refused as stale, however often it left and came back.     *)
AttachedCanAnswer ==
    \A r \in Requests, c \in Clients :
        /\ presence[c] = "attached" /\ Pending(r)
        /\ Supports(c, r) /\ Matches(r, c, Scopes(c, subscribed))
        => responders[r][c] # "stale"

(* An answer that a client was told is accepted reaches the Agent, unless  *)
(* its Turn has been cancelled: a timeout, an interruption or the loss of  *)
(* the client in between takes nothing back.                               *)
AcceptedAnswerReturned ==
    \A r \in Requests :
        thread[r] = "done" /\ answer[r] # "none" /\ r \notin cancelled => returned[r] = answer[r]

Outcome ==
    [r \in Requests |->
        IF status[r] = "unopened" THEN "none"
        ELSE IF answer[r] # "none" THEN "answered"
        ELSE IF Pending(r) THEN "pending" ELSE "interrupted"]

Abstract ==
    INSTANCE RequestOutcome WITH Answers <- Clients \cup {"policy"}, outcome <- Outcome

(* The broker and the runtime keep RequestOutcome's promise: the first     *)
(* answer handle_response_from_scopes accepts is final, and the thread     *)
(* that waits gets that answer or nothing, once.                           *)
Implements == Abstract!Spec

(* A thread is not left waiting once its request is over: the loops of     *)
(* wait_permission_response, wait_question_response and                    *)
(* wait_client_response see the answer, the missing waiter, the token or   *)
(* the time limit, whichever method ended the request.                     *)
WaiterReleased ==
    []<>(\A r \in Requests :
            status[r] \in {"resolved", "interrupted"} => thread[r] \in {"done", "refused"})

(* A request to the shell of a client that stays is put on its wire, or is *)
(* over: open_waitable_client_request marks it delivered although nothing  *)
(* was sent, and takes the mark back in a second critical section, while   *)
(* the pump runs and the client leaves, comes back and subscribes.  Only   *)
(* an initialize that ends in an error loses it.                           *)
ShellReachesClient ==
    \A r \in Shells, c \in Clients :
        Pending(r) /\ target[r] = c /\ presence[c] = "attached"
            ~> \/ c \in sent[r] \/ Nobody \in sent[r]
               \/ ~Pending(r) \/ presence[c] # "attached"
=============================================================================
