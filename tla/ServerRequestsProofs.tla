------------------------ MODULE ServerRequestsProofs ------------------------
(***************************************************************************)
(* Proofs about ServerRequests for any clients and requests.               *)
(*                                                                         *)
(* RequestInv is inductive: it relates, request by request, the broker's   *)
(* record, the runtime's waiter and the waiting thread.  The refinement of *)
(* RequestOutcome follows from it step by step.  ResponderInv is inductive *)
(* on top of the types: the broker knows every attached client as an       *)
(* available responder, and that is why none of them stays stale.          *)
(***************************************************************************)
EXTENDS ServerRequests, TLAPS

\* A thread runs from the opening of its request until it has a result, and
\* holds the accepted answer ready in between.
ThreadInv ==
    \A r \in Requests :
        /\ thread[r] = "none" <=> status[r] = "unopened"
        /\ status[r] \in {"unopened", "pending", "interrupted"} => answer[r] = "none"
        /\ status[r] = "resolved" => answer[r] # "none"
        /\ thread[r] \in {"none", "opened", "waiting"} <=> returned[r] = "no"
        /\ thread[r] \in {"done", "refused"} => waiter[r] = "none"
        /\ status[r] = "resolved" /\ thread[r] \in {"opened", "waiting"} => waiter[r] = answer[r]
        /\ status[r] = "forgotten" => thread[r] = "done"

RequestInv ==
    /\ TypeOK /\ ThreadInv /\ WaitersMatchRecords /\ AcceptedAnswerReturned

\* The runtime starts without requests.
LEMMA InitRequestInv == Init => RequestInv
  <1> SUFFICES ASSUME Init PROVE RequestInv
    BY Zenon
  <1>1. TypeOK
    BY Zenon DEF Init, TypeOK, Nobody
  <1>2. ThreadInv /\ WaitersMatchRecords /\ AcceptedAnswerReturned
    BY Zenon DEF Init, ThreadInv, WaitersMatchRecords, AcceptedAnswerReturned, Pending
  <1> QED
    BY <1>1, <1>2, Zenon DEF RequestInv

\* Which actions leave the requests themselves alone.
LEMMA RoutingKeepsRequests ==
    ASSUME ThreadInv, WaitersMatchRecords, AcceptedAnswerReturned,
           UNCHANGED <<status, waiter, thread, cancelled, answer, returned>>
    PROVE  ThreadInv' /\ WaitersMatchRecords' /\ AcceptedAnswerReturned'
  BY Zenon DEF ThreadInv, WaitersMatchRecords, AcceptedAnswerReturned, Pending

\* responder_available keeps the types of the broker.
LEMMA AvailableTypes ==
    ASSUME TypeOK, NEW c \in Clients, NEW scopes \in SUBSET {"Client", "Task"},
           NEW receiver \in Clients \cup {Nobody}, ResponderAvailable(c, scopes, receiver)
    PROVE  /\ available' \in [Clients -> SUBSET {"Client", "Task"}]
           /\ responders' \in [Requests -> [Clients -> {"none", "eligible", "delivered", "stale"}]]
           /\ sent' \in [Shells -> SUBSET (Clients \cup {Nobody})]
           /\ UNCHANGED <<status, target>>
  BY DEF TypeOK, ResponderAvailable

\* A client has its own scope and, if subscribed, the Task's.
LEMMA ScopesType ==
    ASSUME NEW c, NEW subs
    PROVE  Scopes(c, subs) \in SUBSET {"Client", "Task"}
  BY Zenon DEF Scopes

\* Marking a responder stale keeps the types of the broker.
LEMMA StaleTypes ==
    ASSUME TypeOK, NEW r \in Requests, NEW c \in Clients
    PROVE  MarkedStale(r, c) \in [Clients -> {"none", "eligible", "delivered", "stale"}]
  BY Zenon DEF TypeOK, MarkedStale

\* The loss of a responder ends requests and takes their waiters along.
LEMMA LostKeepsRequests ==
    ASSUME RequestInv, NEW c \in Clients, ResponderLost(c)
    PROVE  /\ available' \in [Clients -> SUBSET {"Client", "Task"}]
           /\ status' \in [Requests -> {"unopened", "pending", "resolved", "interrupted", "forgotten"}]
           /\ waiter' \in [Requests -> Clients \cup {"none", "waiting", "policy"}]
           /\ responders' \in [Requests -> [Clients -> {"none", "eligible", "delivered", "stale"}]]
           /\ UNCHANGED <<target, thread, cancelled, history>>
           /\ ThreadInv' /\ WaitersMatchRecords' /\ AcceptedAnswerReturned'
  <1> USE DEF RequestInv, ResponderLost
  <1>1. /\ available' \in [Clients -> SUBSET {"Client", "Task"}]
        /\ status' \in [Requests -> {"unopened", "pending", "resolved", "interrupted", "forgotten"}]
        /\ waiter' \in [Requests -> Clients \cup {"none", "waiting", "policy"}]
        /\ UNCHANGED <<target, thread, cancelled, history>>
    BY Zenon DEF TypeOK
  <1>2. responders' \in [Requests -> [Clients -> {"none", "eligible", "delivered", "stale"}]]
    BY StaleTypes, Zenon DEF TypeOK
  <1>3. ThreadInv'
    BY Zenon DEF ThreadInv, TypeOK, Pending, WaitersMatchRecords, history
  <1>4. WaitersMatchRecords'
    BY Zenon DEF WaitersMatchRecords, TypeOK, Pending, history
  <1>5. AcceptedAnswerReturned'
    BY Zenon DEF AcceptedAnswerReturned, history
  <1> QED
    BY <1>1, <1>2, <1>3, <1>4, <1>5, Zenon

\* An answer.
LEMMA RespondKeeps ==
    ASSUME RequestInv, NEW c \in Clients, NEW r \in Requests, NEW valid \in BOOLEAN,
           Respond(c, r, valid)
    PROVE  RequestInv'
  <1> USE ServerRequestsAssumption DEF RequestInv, Respond, Answerable, clients
  <1>1. TypeOK'
    BY Zenon DEF TypeOK
  <1>2. ThreadInv'
    BY DEF ThreadInv, WaitersMatchRecords, Pending, TypeOK, Marks
  <1>3. WaitersMatchRecords'
    BY DEF ThreadInv, WaitersMatchRecords, Pending, TypeOK, Marks
  <1>4. AcceptedAnswerReturned'
    BY DEF ThreadInv, WaitersMatchRecords, AcceptedAnswerReturned, Pending, TypeOK, Marks
  <1> QED
    BY <1>1, <1>2, <1>3, <1>4, Zenon

\* A question or permission request opens.
LEMMA OpenQuestionKeeps ==
    ASSUME RequestInv, NEW r \in Questions, OpenQuestion(r)
    PROVE  RequestInv'
  <1> USE ServerRequestsAssumption DEF RequestInv, OpenQuestion, Opened, Requests, clients, history
  <1>1. TypeOK'
    BY Zenon DEF TypeOK
  <1>2. ThreadInv'
    BY DEF ThreadInv, WaitersMatchRecords, Pending, TypeOK, Marks
  <1>3. WaitersMatchRecords'
    BY Zenon DEF ThreadInv, WaitersMatchRecords, Pending, TypeOK, Marks
  <1>4. AcceptedAnswerReturned'
    BY Zenon DEF ThreadInv, WaitersMatchRecords, AcceptedAnswerReturned, Pending, TypeOK, Marks
  <1> QED
    BY <1>1, <1>2, <1>3, <1>4, Zenon

\* A secret request opens.
LEMMA OpenSecretKeeps ==
    ASSUME RequestInv, NEW r \in Secrets, OpenSecret(r)
    PROVE  RequestInv'
  <1> USE ServerRequestsAssumption DEF RequestInv, OpenSecret, Opened, Requests, clients, history
  <1>1. TypeOK'
    BY Zenon DEF TypeOK
  <1>2. ThreadInv'
    BY DEF ThreadInv, WaitersMatchRecords, Pending, TypeOK, Marks
  <1>3. WaitersMatchRecords'
    BY Zenon DEF ThreadInv, WaitersMatchRecords, Pending, TypeOK, Marks
  <1>4. AcceptedAnswerReturned'
    BY Zenon DEF ThreadInv, WaitersMatchRecords, AcceptedAnswerReturned, Pending, TypeOK, Marks
  <1> QED
    BY <1>1, <1>2, <1>3, <1>4, Zenon

\* A request to a shell opens.
LEMMA OpenShellKeeps ==
    ASSUME RequestInv, NEW r \in Shells, NEW c \in Clients, OpenShell(r, c)
    PROVE  RequestInv'
  <1> USE ServerRequestsAssumption DEF RequestInv, OpenShell, Opened, Requests, clients, history
  <1>1. TypeOK'
    BY Zenon DEF TypeOK
  <1>2. ThreadInv'
    BY DEF ThreadInv, WaitersMatchRecords, Pending, TypeOK, Marks
  <1>3. WaitersMatchRecords'
    BY Zenon DEF ThreadInv, WaitersMatchRecords, Pending, TypeOK, Marks
  <1>4. AcceptedAnswerReturned'
    BY Zenon DEF ThreadInv, WaitersMatchRecords, AcceptedAnswerReturned, Pending, TypeOK, Marks
  <1> QED
    BY <1>1, <1>2, <1>3, <1>4, Zenon

\* Its deliveries are deferred.
LEMMA DeferShellKeeps ==
    ASSUME RequestInv, NEW r \in Requests, DeferShell(r)
    PROVE  RequestInv'
  <1> USE ServerRequestsAssumption DEF RequestInv, DeferShell, clients, history
  <1>1. TypeOK'
    BY Zenon DEF TypeOK
  <1>2. ThreadInv'
    BY DEF ThreadInv, WaitersMatchRecords, Pending, TypeOK, Marks
  <1>3. WaitersMatchRecords'
    BY Zenon DEF ThreadInv, WaitersMatchRecords, Pending, TypeOK, Marks
  <1>4. AcceptedAnswerReturned'
    BY DEF ThreadInv, WaitersMatchRecords, AcceptedAnswerReturned, Pending, TypeOK, Marks
  <1> QED
    BY <1>1, <1>2, <1>3, <1>4, Zenon

\* The policy answers.
LEMMA AutoApproveKeeps ==
    ASSUME RequestInv, NEW r \in Requests, AutoApprove(r)
    PROVE  RequestInv'
  <1> USE ServerRequestsAssumption DEF RequestInv, AutoApprove, clients
  <1>1. TypeOK'
    BY Zenon DEF TypeOK
  <1>2. ThreadInv'
    BY DEF ThreadInv, WaitersMatchRecords, Pending, TypeOK, Marks
  <1>3. WaitersMatchRecords'
    BY DEF ThreadInv, WaitersMatchRecords, Pending, TypeOK, Marks
  <1>4. AcceptedAnswerReturned'
    BY DEF ThreadInv, WaitersMatchRecords, AcceptedAnswerReturned, Pending, TypeOK, Marks
  <1> QED
    BY <1>1, <1>2, <1>3, <1>4, Zenon

\* The Task waits.
LEMMA TaskWaitsKeeps ==
    ASSUME RequestInv, NEW r \in Requests, TaskWaits(r)
    PROVE  RequestInv'
  <1> USE ServerRequestsAssumption DEF RequestInv, TaskWaits, clients, broker, history
  <1>1. TypeOK'
    BY Zenon DEF TypeOK
  <1>2. ThreadInv'
    BY DEF ThreadInv, WaitersMatchRecords, Pending, TypeOK, Marks
  <1>3. WaitersMatchRecords'
    BY Zenon DEF ThreadInv, WaitersMatchRecords, Pending, TypeOK, Marks
  <1>4. AcceptedAnswerReturned'
    BY DEF ThreadInv, WaitersMatchRecords, AcceptedAnswerReturned, Pending, TypeOK, Marks
  <1> QED
    BY <1>1, <1>2, <1>3, <1>4, Zenon

\* The Task refuses.
LEMMA TaskRefusesKeeps ==
    ASSUME RequestInv, NEW r \in Requests, TaskRefuses(r)
    PROVE  RequestInv'
  <1> USE ServerRequestsAssumption DEF RequestInv, TaskRefuses, Interrupted, clients
  <1>1. TypeOK'
    BY Zenon DEF TypeOK
  <1>2. ThreadInv'
    BY DEF ThreadInv, WaitersMatchRecords, Pending, TypeOK, Marks
  <1>3. WaitersMatchRecords'
    BY DEF ThreadInv, WaitersMatchRecords, Pending, TypeOK, Marks
  <1>4. AcceptedAnswerReturned'
    BY DEF ThreadInv, WaitersMatchRecords, AcceptedAnswerReturned, Pending, TypeOK, Marks
  <1> QED
    BY <1>1, <1>2, <1>3, <1>4, Zenon

\* The thread sees the cancellation.
LEMMA WaitCancelledKeeps ==
    ASSUME RequestInv, NEW r \in Requests, WaitCancelled(r)
    PROVE  RequestInv'
  <1> USE ServerRequestsAssumption DEF RequestInv, WaitCancelled, Interrupted, Finished, clients
  <1>1. TypeOK'
    BY Zenon DEF TypeOK
  <1>2. ThreadInv'
    BY DEF ThreadInv, WaitersMatchRecords, Pending, TypeOK, Marks
  <1>3. WaitersMatchRecords'
    BY DEF ThreadInv, WaitersMatchRecords, Pending, TypeOK, Marks
  <1>4. AcceptedAnswerReturned'
    BY DEF ThreadInv, WaitersMatchRecords, AcceptedAnswerReturned, Pending, TypeOK, Marks
  <1> QED
    BY <1>1, <1>2, <1>3, <1>4, Zenon

\* The thread finds the answer, or no waiter.
LEMMA WaitReturnsKeeps ==
    ASSUME RequestInv, NEW r \in Requests, WaitReturns(r)
    PROVE  RequestInv'
  <1> USE ServerRequestsAssumption DEF RequestInv, WaitReturns, Finished, clients, broker
  <1>1. TypeOK'
    BY DEF TypeOK
  <1>2. ThreadInv'
    BY SMTT(60) DEF ThreadInv, WaitersMatchRecords, Pending, TypeOK, Marks
  <1>3. WaitersMatchRecords'
    BY DEF ThreadInv, WaitersMatchRecords, Pending, TypeOK, Marks
  <1>4. AcceptedAnswerReturned'
    BY DEF ThreadInv, WaitersMatchRecords, AcceptedAnswerReturned, Pending, TypeOK, Marks
  <1> QED
    BY <1>1, <1>2, <1>3, <1>4, Zenon

\* The thread gives up.
LEMMA WaitTimesOutKeeps ==
    ASSUME RequestInv, NEW r \in Requests, WaitTimesOut(r)
    PROVE  RequestInv'
  <1> USE ServerRequestsAssumption DEF RequestInv, WaitTimesOut, Interrupted, Finished, clients
  <1>1. TypeOK'
    BY Zenon DEF TypeOK
  <1>2. ThreadInv'
    BY DEF ThreadInv, WaitersMatchRecords, Pending, TypeOK, Marks
  <1>3. WaitersMatchRecords'
    BY DEF ThreadInv, WaitersMatchRecords, Pending, TypeOK, Marks
  <1>4. AcceptedAnswerReturned'
    BY DEF ThreadInv, WaitersMatchRecords, AcceptedAnswerReturned, Pending, TypeOK, Marks
  <1> QED
    BY <1>1, <1>2, <1>3, <1>4, Zenon

\* A finished exchange is forgotten.
LEMMA ForgetKeeps ==
    ASSUME RequestInv, NEW r \in Requests, Forget(r)
    PROVE  RequestInv'
  <1> USE ServerRequestsAssumption DEF RequestInv, Forget, clients, history
  <1>1. TypeOK'
    BY Zenon DEF TypeOK
  <1>2. ThreadInv'
    BY DEF ThreadInv, WaitersMatchRecords, Pending, TypeOK, Marks
  <1>3. WaitersMatchRecords'
    BY DEF ThreadInv, WaitersMatchRecords, Pending, TypeOK, Marks
  <1>4. AcceptedAnswerReturned'
    BY Zenon DEF ThreadInv, WaitersMatchRecords, AcceptedAnswerReturned, Pending, TypeOK, Marks
  <1> QED
    BY <1>1, <1>2, <1>3, <1>4, Zenon

\* The owner cancels.
LEMMA CancelKeeps ==
    ASSUME RequestInv, NEW r \in Requests, Cancel(r)
    PROVE  RequestInv'
  <1> USE ServerRequestsAssumption DEF RequestInv, Cancel, clients, broker, history
  <1>1. TypeOK'
    BY DEF TypeOK
  <1>2. ThreadInv'
    BY DEF ThreadInv, WaitersMatchRecords, Pending, TypeOK, Marks
  <1>3. WaitersMatchRecords'
    BY Zenon DEF ThreadInv, WaitersMatchRecords, Pending, TypeOK, Marks
  <1>4. AcceptedAnswerReturned'
    BY Zenon DEF ThreadInv, WaitersMatchRecords, AcceptedAnswerReturned, Pending, TypeOK, Marks
  <1> QED
    BY <1>1, <1>2, <1>3, <1>4, Zenon

\* Active work ends.
LEMMA InterruptKeeps ==
    ASSUME RequestInv, InterruptTaskRequests
    PROVE  RequestInv'
  <1> USE ServerRequestsAssumption DEF RequestInv, InterruptTaskRequests, clients, history
  <1>1. TypeOK'
    BY Zenon DEF TypeOK
  <1>2. ThreadInv'
    BY DEF ThreadInv, WaitersMatchRecords, Pending, TypeOK, Marks
  <1>3. WaitersMatchRecords'
    BY DEF ThreadInv, WaitersMatchRecords, Pending, TypeOK, Marks
  <1>4. AcceptedAnswerReturned'
    BY Zenon DEF ThreadInv, WaitersMatchRecords, AcceptedAnswerReturned, Pending, TypeOK, Marks
  <1> QED
    BY <1>1, <1>2, <1>3, <1>4, Zenon

\* The steps of the clients' connections.
LEMMA ConnectionKeeps ==
    ASSUME RequestInv, NEW c \in Clients, NEW readable \in BOOLEAN,
           \/ Initialize(c, readable) \/ Subscribe(c) \/ Unsubscribe(c) \/ Drain(c)
           \/ TransportClosed(c) \/ ClientExpires(c)
    PROVE  RequestInv'
  <1> USE DEF RequestInv
  <1>1. CASE Initialize(c, readable)
    <2>1. TypeOK'
      BY <1>1, AvailableTypes, ScopesType DEF Initialize, TypeOK
    <2> QED
      BY <1>1, <2>1, RoutingKeepsRequests, Zenon DEF Initialize, ResponderAvailable
  <1>2. CASE Subscribe(c)
    <2>1. available[c] \cup {"Client", "Task"} \in SUBSET {"Client", "Task"}
      BY Zenon DEF TypeOK
    <2>2. TypeOK'
      BY <1>2, <2>1, AvailableTypes DEF Subscribe, TypeOK
    <2> QED
      BY <1>2, <2>2, RoutingKeepsRequests, Zenon DEF Subscribe, ResponderAvailable
  <1>3. CASE Drain(c)
    <2>1. TypeOK'
      BY <1>3, AvailableTypes, ScopesType DEF Drain, TypeOK, clients
    <2> QED
      BY <1>3, <2>1, RoutingKeepsRequests, Zenon DEF Drain, ResponderAvailable
  <1>4. CASE Unsubscribe(c)
    <2>1. TypeOK'
      BY <1>4, StaleTypes DEF Unsubscribe, TypeOK, history
    <2> QED
      BY <1>4, <2>1, RoutingKeepsRequests, Zenon DEF Unsubscribe, history
  <1>5. CASE TransportClosed(c)
    <2>1. TypeOK'
      BY <1>5, LostKeepsRequests DEF TransportClosed, TypeOK, history
    <2> QED
      BY <1>5, <2>1, LostKeepsRequests, Zenon DEF TransportClosed
  <1>6. CASE ClientExpires(c)
    <2>1. TypeOK'
      BY <1>6, LostKeepsRequests DEF ClientExpires, TypeOK, history
    <2> QED
      BY <1>6, <2>1, LostKeepsRequests, Zenon DEF ClientExpires
  <1> QED
    BY <1>1, <1>2, <1>3, <1>4, <1>5, <1>6, Zenon

\* A step that changes nothing keeps the invariant.
LEMMA StutterKeeps ==
    ASSUME RequestInv, UNCHANGED vars
    PROVE  RequestInv'
  <1>1. TypeOK'
    BY Zenon DEF RequestInv, TypeOK, vars, clients, broker, history
  <1> QED
    BY <1>1, RoutingKeepsRequests, Zenon DEF RequestInv, vars, clients, broker, history

\* Every step of the clients, the broker and the threads keeps the invariant.
LEMMA NextKeepsRequestInv == RequestInv /\ [Next]_vars => RequestInv'
  <1> SUFFICES ASSUME RequestInv, [Next]_vars PROVE RequestInv'
    BY Zenon
  <1> USE DEF Requests
  <1>1. ASSUME NEW c \in Clients, ClientNext(c) \/ Drain(c) PROVE RequestInv'
    <2>1. TRUE \in BOOLEAN
      OBVIOUS
    <2> QED
      BY <1>1, <2>1, ConnectionKeeps, RespondKeeps, Zenon DEF ClientNext
  <1>2. CASE OpenNext \/ InterruptTaskRequests
    BY <1>2, OpenQuestionKeeps, OpenSecretKeeps, OpenShellKeeps, InterruptKeeps, Zenon DEF OpenNext
  <1>3. ASSUME NEW r \in Requests, ThreadNext(r) \/ Cancel(r) \/ WaitTimesOut(r) PROVE RequestInv'
    BY <1>3, AutoApproveKeeps, TaskWaitsKeeps, TaskRefusesKeeps, DeferShellKeeps,
       WaitTimesOutKeeps, WaitCancelledKeeps, WaitReturnsKeeps, CancelKeeps, Zenon DEF ThreadNext
  <1>4. ASSUME NEW r \in Shells, Forget(r) PROVE RequestInv'
    BY <1>4, ForgetKeeps, Zenon
  <1> QED
    BY <1>1, <1>2, <1>3, <1>4, StutterKeeps, Zenon DEF Next

\* RequestInv holds in every reachable state.
THEOREM RequestsInductive == Spec => []RequestInv
  BY InitRequestInv, NextKeepsRequestInv, PTL DEF Spec

\* The broker's records and the runtime's waiters always agree: a request is
\* pending exactly while a thread can still be answered.
THEOREM WaitersAlwaysMatch == Spec => []WaitersMatchRecords
  <1>1. RequestInv => WaitersMatchRecords
    BY Zenon DEF RequestInv
  <1> QED
    BY <1>1, RequestsInductive, PTL

\* An accepted answer reaches its thread unless the thread was cancelled.
THEOREM AcceptedAlwaysReturned == Spec => []AcceptedAnswerReturned
  <1>1. RequestInv => AcceptedAnswerReturned
    BY Zenon DEF RequestInv
  <1> QED
    BY <1>1, RequestsInductive, PTL

-----------------------------------------------------------------------------
(* The refinement.  Routing steps stutter; every other step is one of      *)
(* RequestOutcome's.                                                       *)

\* The runtime starts where RequestOutcome does.
LEMMA RefinesInit == Init => Abstract!Init
  BY DEF Init, Abstract!Init, Outcome

\* What does not touch the requests is a stutter.
LEMMA RoutingStutters ==
    ASSUME UNCHANGED <<status, answer, returned>>
    PROVE  UNCHANGED Abstract!vars
  BY Zenon DEF Abstract!vars, Outcome, Pending

\* Requests that are interrupted together: the loss of a client, the end of
\* active work.
LEMMA RefinesInterrupt ==
    ASSUME RequestInv, NEW S \in SUBSET Requests, \A r \in S : Pending(r),
           status' = [r \in Requests |-> IF r \in S THEN "interrupted" ELSE status[r]],
           UNCHANGED <<answer, returned>>
    PROVE  Abstract!Next
  <1>1. \A r \in S : Outcome[r] = "pending"
    BY Zenon DEF RequestInv, ThreadInv, Outcome, Pending
  <1>2. Outcome' = [r \in Requests |-> IF r \in S THEN "interrupted" ELSE Outcome[r]]
    BY Zenon DEF RequestInv, ThreadInv, Outcome, Pending
  <1>3. Abstract!Interrupt(S)
    BY <1>1, <1>2, Zenon DEF Abstract!Interrupt
  <1> QED
    BY <1>3, Zenon DEF Abstract!Next

\* The loss of a responder interrupts the requests to its shell.
LEMMA RefinesLost ==
    ASSUME RequestInv, NEW c \in Clients, ResponderLost(c)
    PROVE  Abstract!Next
  <1> DEFINE S == {r \in Requests : Pending(r) /\ r \in Shells /\ target[r] = c}
  <1>1. status' = [r \in Requests |-> IF r \in S THEN "interrupted" ELSE status[r]]
    BY Zenon DEF ResponderLost
  <1>2. UNCHANGED <<answer, returned>>
    BY Zenon DEF ResponderLost, history
  <1>3. S \in SUBSET Requests /\ \A r \in S : Pending(r)
    BY Zenon
  <1> HIDE DEF S
  <1> QED
    BY <1>1, <1>2, <1>3, RefinesInterrupt, Zenon

\* interrupt_task_requests interrupts the Task's pending requests.
LEMMA RefinesInterruptTask ==
    ASSUME RequestInv, InterruptTaskRequests
    PROVE  Abstract!Next
  <1> DEFINE S == {r \in Requests : Pending(r) /\ TaskScoped(r)}
  <1>1. status' = [r \in Requests |-> IF r \in S THEN "interrupted" ELSE status[r]]
    BY Zenon DEF InterruptTaskRequests
  <1>2. UNCHANGED <<answer, returned>>
    BY Zenon DEF InterruptTaskRequests, history
  <1>3. S \in SUBSET Requests /\ \A r \in S : Pending(r)
    BY Zenon
  <1> HIDE DEF S
  <1> QED
    BY <1>1, <1>2, <1>3, RefinesInterrupt, Zenon

\* Opening a request of any kind is RequestOutcome's Open.
LEMMA RefinesOpen ==
    ASSUME RequestInv, NEW r \in Requests, NEW phase, Opened(r, phase)
    PROVE  Abstract!Next
  <1>1. Outcome[r] = "none" /\ UNCHANGED <<answer, returned>>
    BY Zenon DEF Opened, Outcome, history
  <1>2. Outcome' = [Outcome EXCEPT ![r] = "pending"]
    BY ZenonT(60) DEF Opened, Outcome, Pending, RequestInv, ThreadInv, TypeOK, history
  <1>3. Abstract!Open(r)
    BY <1>1, <1>2, Zenon DEF Abstract!Open
  <1> QED
    BY <1>3, Zenon DEF Abstract!Next

\* The first valid answer of a client, or the policy's.
LEMMA RefinesAccept ==
    ASSUME RequestInv, NEW r \in Requests, NEW a \in Clients \cup {"policy"}, Pending(r),
           status' = [status EXCEPT ![r] = "resolved"],
           answer' = [answer EXCEPT ![r] = a], UNCHANGED returned
    PROVE  Abstract!Next
  <1>1. Outcome[r] = "pending"
    BY Zenon DEF RequestInv, ThreadInv, Outcome, Pending
  <1>2. Outcome' = [Outcome EXCEPT ![r] = "answered"]
    BY ServerRequestsAssumption, ZenonT(60) DEF RequestInv, ThreadInv, Outcome, Pending, TypeOK, Marks
  <1>3. Abstract!Accept(r, a)
    BY <1>1, <1>2, ZenonT(60) DEF Abstract!Accept
  <1> QED
    BY <1>3, Zenon DEF Abstract!Next

\* A client's response is accepted once, or changes nothing.
LEMMA RefinesRespond ==
    ASSUME RequestInv, NEW c \in Clients, NEW r \in Requests, NEW valid \in BOOLEAN,
           Respond(c, r, valid)
    PROVE  Abstract!Next \/ UNCHANGED Abstract!vars
  <1>1. \/ UNCHANGED <<status, answer, returned>>
        \/ /\ Pending(r) /\ UNCHANGED returned
           /\ status' = [status EXCEPT ![r] = "resolved"]
           /\ answer' = [answer EXCEPT ![r] = c]
    BY Zenon DEF Respond, Answerable
  <1> QED
    BY <1>1, RoutingStutters, RefinesAccept, Zenon

\* A thread that ends without an answer leaves nothing to answer.
LEMMA RefinesNothing ==
    ASSUME RequestInv, NEW r \in Requests, thread[r] \in {"opened", "waiting"},
           Interrupted(r), returned' = [returned EXCEPT ![r] = "nothing"], UNCHANGED answer
    PROVE  Abstract!Next
  <1>1. returned[r] = "no" /\ Outcome[r] # "none"
    BY Zenon DEF RequestInv, ThreadInv, Outcome
  <1>2. Outcome' = [Outcome EXCEPT ![r] = IF @ = "pending" THEN "interrupted" ELSE @]
    BY ZenonT(60) DEF Interrupted, RequestInv, ThreadInv, Outcome, Pending, TypeOK
  <1>3. Abstract!ReturnNothing(r)
    BY <1>1, <1>2, ZenonT(60) DEF Abstract!ReturnNothing
  <1> QED
    BY <1>3, Zenon DEF Abstract!Next

\* A waiting thread returns with the accepted answer, or with nothing.
LEMMA RefinesReturns ==
    ASSUME RequestInv, NEW r \in Requests, WaitReturns(r)
    PROVE  Abstract!Next
  <1>1. /\ returned[r] = "no" /\ Outcome[r] # "none"
        /\ UNCHANGED <<status, answer>>
    BY Zenon DEF WaitReturns, RequestInv, ThreadInv, Outcome, broker
  <1>2. UNCHANGED Outcome
    BY <1>1, Zenon DEF Outcome, Pending
  <1>3. CASE waiter[r] = "none"
    <2>1. Outcome[r] # "pending"
      BY <1>3, Zenon DEF RequestInv, WaitersMatchRecords, Outcome
    <2>2. Outcome \in [Requests -> {"none", "answered", "pending", "interrupted"}]
      BY Zenon DEF Outcome
    <2>3. Outcome = [Outcome EXCEPT ![r] = IF @ = "pending" THEN "interrupted" ELSE @]
      BY <2>1, <2>2, Zenon
    <2>4. Abstract!ReturnNothing(r)
      BY <1>1, <1>2, <1>3, <2>3, Zenon DEF WaitReturns, Finished, Abstract!ReturnNothing
    <2> QED
      BY <2>4, Zenon DEF Abstract!Next
  <1>4. CASE waiter[r] # "none"
    <2>1. waiter[r] = answer[r] /\ answer[r] # "none"
      BY <1>4, Zenon DEF WaitReturns, RequestInv, WaitersMatchRecords
    <2>2. Outcome[r] = "answered"
      BY <1>1, <2>1, Zenon DEF Outcome
    <2>3. Abstract!ReturnAnswer(r)
      BY <1>1, <1>2, <1>4, <2>1, <2>2, Zenon DEF WaitReturns, Finished, Abstract!ReturnAnswer
    <2> QED
      BY <2>3, Zenon DEF Abstract!Next
  <1> QED
    BY <1>3, <1>4, Zenon

\* Forgetting a finished exchange does not change its outcome.
LEMMA RefinesForget ==
    ASSUME RequestInv, NEW r \in Requests, Forget(r)
    PROVE  UNCHANGED Abstract!vars
  <1>1. UNCHANGED <<answer, returned>>
    BY Zenon DEF Forget, history
  <1>2. Outcome' = Outcome
    BY <1>1 DEF Forget, Outcome, Pending, RequestInv, ThreadInv, WaitersMatchRecords, TypeOK
  <1> QED
    BY <1>1, <1>2, Zenon DEF Abstract!vars

\* Every step is a step of RequestOutcome or a stutter.
LEMMA RefinesNext == RequestInv /\ [Next]_vars => [Abstract!Next]_Abstract!vars
  <1> SUFFICES ASSUME RequestInv, [Next]_vars
               PROVE  Abstract!Next \/ UNCHANGED Abstract!vars
    BY Zenon
  <1>1. ASSUME NEW c \in Clients, ClientNext(c) \/ Drain(c)
        PROVE  Abstract!Next \/ UNCHANGED Abstract!vars
    <2>1. CASE \/ \E readable \in BOOLEAN : Initialize(c, readable)
               \/ Subscribe(c) \/ Unsubscribe(c) \/ Drain(c)
      BY <2>1, RoutingStutters, Zenon
         DEF Initialize, Subscribe, Unsubscribe, Drain, ResponderAvailable, history
    <2>2. CASE TransportClosed(c) \/ ClientExpires(c)
      BY <2>2, RefinesLost, Zenon DEF TransportClosed, ClientExpires
    <2>3. ASSUME NEW r \in Requests, NEW valid \in BOOLEAN, Respond(c, r, valid)
          PROVE  Abstract!Next \/ UNCHANGED Abstract!vars
      BY <2>3, RefinesRespond, Zenon
    <2> QED
      BY <1>1, <2>1, <2>2, <2>3, Zenon DEF ClientNext
  <1>2. CASE OpenNext
    BY <1>2, RefinesOpen, Zenon DEF OpenNext, OpenQuestion, OpenSecret, OpenShell, Requests
  <1>3. CASE InterruptTaskRequests
    BY <1>3, RefinesInterruptTask, Zenon
  <1>4. ASSUME NEW r \in Requests, ThreadNext(r) \/ Cancel(r) \/ WaitTimesOut(r)
        PROVE  Abstract!Next \/ UNCHANGED Abstract!vars
    <2>1. CASE TaskWaits(r) \/ DeferShell(r) \/ Cancel(r)
      BY <2>1, RoutingStutters, Zenon DEF TaskWaits, DeferShell, Cancel, broker, history
    <2>2. CASE AutoApprove(r)
      BY <2>2, RefinesAccept, Zenon DEF AutoApprove
    <2>3. CASE TaskRefuses(r) \/ WaitCancelled(r) \/ WaitTimesOut(r)
      BY <2>3, RefinesNothing, Zenon DEF TaskRefuses, WaitCancelled, WaitTimesOut, Finished
    <2>4. CASE WaitReturns(r)
      BY <2>4, RefinesReturns, Zenon
    <2> QED
      BY <1>4, <2>1, <2>2, <2>3, <2>4, Zenon DEF ThreadNext
  <1>5. ASSUME NEW r \in Shells, Forget(r) PROVE UNCHANGED Abstract!vars
    BY <1>5, RefinesForget, Zenon DEF Requests
  <1>6. CASE UNCHANGED vars
    BY <1>6, RoutingStutters, Zenon DEF vars, broker, history
  <1> QED
    BY <1>1, <1>2, <1>3, <1>4, <1>5, <1>6, Zenon DEF Next, Requests

\* The broker, the runtime and the threads together implement RequestOutcome:
\* the first accepted answer is final and the thread gets that one or nothing.
THEOREM RequestsImplementOutcome == Spec => Implements
  BY RefinesInit, RefinesNext, RequestsInductive, PTL DEF Spec, Implements, Abstract!Spec

-----------------------------------------------------------------------------
(* Responders.  Unsubscribing marks a client stale for what it no longer   *)
(* matches; that spares the questions only because the client is an        *)
(* available responder as long as it is attached.                          *)

ResponderInv ==
    /\ TypeOK
    /\ \A c \in Clients : presence[c] = "attached" => "Client" \in available[c]
    /\ \A r \in Requests : status[r] = "unopened" => responders[r] = [c \in Clients |-> "none"]
    /\ AttachedCanAnswer

\* No client is attached at the start.
LEMMA InitResponderInv == Init => ResponderInv
  <1> SUFFICES ASSUME Init PROVE ResponderInv
    OBVIOUS
  <1>1. TypeOK
    BY InitRequestInv, Zenon DEF RequestInv
  <1> QED
    BY <1>1, Zenon DEF Init, ResponderInv, AttachedCanAnswer, Pending

\* Who matches with some scopes matches with more.
LEMMA MatchesMonotone ==
    ASSUME NEW r, NEW c, NEW few, NEW more, few \subseteq more, Matches(r, c, few)
    PROVE  Matches(r, c, more)
  BY Zenon DEF Matches

\* A client that is announced with all its scopes is stale for no request
\* that it can answer.
LEMMA AvailableKeepsResponders ==
    ASSUME ResponderInv, NEW c \in Clients, NEW scopes \in SUBSET {"Client", "Task"},
           NEW receiver, TypeOK', ResponderAvailable(c, scopes, receiver), Scopes(c, subscribed') \subseteq scopes,
           \A d \in Clients \ {c} : presence'[d] = presence[d] /\ (d \in subscribed' <=> d \in subscribed)
    PROVE  ResponderInv'
  <1> USE DEF ResponderInv
  <1>1. \A d \in Clients : presence'[d] = "attached" => "Client" \in available'[d]
    BY DEF ResponderAvailable, Scopes, TypeOK
  <1>2. \A r \in Requests : status'[r] = "unopened" => responders'[r] = [d \in Clients |-> "none"]
    BY Zenon DEF ResponderAvailable, Deliverable, Pending
  <1>3. ASSUME NEW r \in Requests, NEW d \in Clients,
               presence'[d] = "attached", Pending(r)', Supports(d, r),
               Matches(r, d, Scopes(d, subscribed))'
        PROVE  responders'[r][d] # "stale"
    <2>1. Pending(r) /\ Matches(r, d, Scopes(d, subscribed'))
      BY <1>3, Zenon DEF ResponderAvailable, Pending, Matches, Scopes
    <2>2. CASE d = c
      <3>1. Matches(r, c, scopes)
        BY <2>1, <2>2, MatchesMonotone, Zenon
      <3> QED
        BY <1>3, <2>1, <2>2, <3>1 DEF ResponderAvailable, Deliverable, TypeOK
    <2>3. CASE d # c
      <3>1. Matches(r, d, Scopes(d, subscribed)) /\ presence[d] = "attached"
        BY <1>3, <2>1, <2>3, Zenon DEF Scopes
      <3>2. responders[r][d] # "stale"
        BY <1>3, <2>1, <3>1, Zenon DEF AttachedCanAnswer
      <3> QED
        BY <2>3, <3>2 DEF ResponderAvailable, TypeOK
    <2> QED
      BY <2>2, <2>3, Zenon
  <1>4. AttachedCanAnswer'
    BY <1>3, Zenon DEF AttachedCanAnswer, Supports
  <1> QED
    BY <1>1, <1>2, <1>4, Zenon

\* A client that leaves takes no other client's place away.
LEMMA LostKeepsResponders ==
    ASSUME ResponderInv, NEW c \in Clients, TypeOK', ResponderLost(c),
           presence'[c] # "attached",
           \A d \in Clients \ {c} : presence'[d] = presence[d] /\ (d \in subscribed' <=> d \in subscribed)
    PROVE  ResponderInv'
  <1> USE DEF ResponderInv
  <1>1. \A d \in Clients : presence'[d] = "attached" => "Client" \in available'[d]
    BY DEF ResponderLost, TypeOK
  <1>2. \A r \in Requests : status'[r] = "unopened" => responders'[r] = [d \in Clients |-> "none"]
    BY Zenon DEF ResponderLost, Pending
  <1>3. ASSUME NEW r \in Requests, NEW d \in Clients,
               presence'[d] = "attached", Pending(r)', Supports(d, r),
               Matches(r, d, Scopes(d, subscribed))'
        PROVE  responders'[r][d] # "stale"
    <2>1. d # c /\ presence[d] = "attached" /\ Pending(r)
      BY <1>3, Zenon DEF ResponderLost, Pending
    <2>2. Matches(r, d, Scopes(d, subscribed))
      BY <1>3, <2>1, Zenon DEF ResponderLost, Matches, Scopes
    <2>3. responders[r][d] # "stale"
      BY <1>3, <2>1, <2>2, Zenon DEF AttachedCanAnswer
    <2> QED
      BY <2>1, <2>3 DEF ResponderLost, MarkedStale, TypeOK
  <1>4. AttachedCanAnswer'
    BY <1>3, Zenon DEF AttachedCanAnswer, Supports
  <1> QED
    BY <1>1, <1>2, <1>4, Zenon

\* Unsubscribing makes a client stale only for what it no longer matches.
LEMMA UnsubscribeKeepsResponders ==
    ASSUME ResponderInv, NEW c \in Clients, TypeOK', Unsubscribe(c)
    PROVE  ResponderInv'
  <1> USE DEF ResponderInv
  <1>1. \A d \in Clients : presence'[d] = "attached" => "Client" \in available'[d]
    BY DEF Unsubscribe, TypeOK
  <1>2. \A r \in Requests : status'[r] = "unopened" => responders'[r] = [d \in Clients |-> "none"]
    BY Zenon DEF Unsubscribe, Pending
  <1>3. ASSUME NEW r \in Requests, NEW d \in Clients,
               presence'[d] = "attached", Pending(r)', Supports(d, r),
               Matches(r, d, Scopes(d, subscribed))'
        PROVE  responders'[r][d] # "stale"
    <2>1. Pending(r) /\ presence[d] = "attached" /\ Matches(r, d, Scopes(d, subscribed'))
      BY <1>3, Zenon DEF Unsubscribe, Pending, Matches, Scopes
    <2>2. Scopes(d, subscribed') \subseteq Scopes(d, subscribed)
      BY Zenon DEF Unsubscribe, Scopes
    <2>3. responders[r][d] # "stale"
      BY <1>3, <2>1, <2>2, MatchesMonotone, Zenon DEF AttachedCanAnswer
    <2>4. d = c => Matches(r, c, available[c] \ {"Task"})
      BY <2>1, Zenon DEF Unsubscribe, Matches, Scopes
    <2> QED
      BY <2>1, <2>3, <2>4 DEF Unsubscribe, MarkedStale, TypeOK
  <1>4. AttachedCanAnswer'
    BY <1>3, Zenon DEF AttachedCanAnswer, Supports
  <1> QED
    BY <1>1, <1>2, <1>4, Zenon

\* An opened request is stale for nobody.
LEMMA OpenKeepsResponders ==
    ASSUME ResponderInv, TypeOK', OpenNext
    PROVE  ResponderInv'
  <1> USE DEF ResponderInv
  <1>1. PICK r \in Requests :
            \/ r \in Questions /\ OpenQuestion(r)
            \/ r \in Secrets /\ OpenSecret(r)
            \/ r \in Shells /\ \E c \in Clients : OpenShell(r, c)
    BY Zenon DEF OpenNext, Requests
  <1>2. /\ status[r] = "unopened" /\ status' = [status EXCEPT ![r] = "pending"]
        /\ UNCHANGED clients
    BY <1>1, Zenon DEF OpenQuestion, OpenSecret, OpenShell, Opened
  <1>3. \A d \in Clients : responders'[r][d] # "stale"
    <2>1. responders[r] = [d \in Clients |-> "none"]
      BY <1>2, Zenon
    <2>2. CASE OpenQuestion(r) \/ OpenSecret(r)
      <3>1. PICK mark \in {"eligible", "delivered"} :
                responders' = [responders EXCEPT ![r] =
                                [d \in Clients |-> IF d \in Found(r) THEN mark ELSE "none"]]
        BY <2>2, Zenon DEF OpenQuestion, OpenSecret
      <3>2. responders'[r] = [d \in Clients |-> IF d \in Found(r) THEN mark ELSE "none"]
        BY <3>1 DEF TypeOK
      <3> QED
        BY <3>2, Zenon
    <2>3. ASSUME NEW c \in Clients, OpenShell(r, c)
          PROVE  \A d \in Clients : responders'[r][d] # "stale"
      BY <2>1, <2>3 DEF OpenShell, TypeOK
    <2> QED
      BY <1>1, <2>2, <2>3, Zenon
  <1>4. \A q \in Requests \ {r} : responders'[q] = responders[q] /\ target'[q] = target[q]
    BY <1>1 DEF OpenQuestion, OpenSecret, OpenShell, TypeOK
  <1>5. \A d \in Clients : available[d] \subseteq available'[d]
    BY <1>1, SMTT(60) DEF OpenQuestion, OpenSecret, OpenShell, TypeOK
  <1>6. \A d \in Clients : presence'[d] = "attached" => "Client" \in available'[d]
    BY <1>2, <1>5, Zenon DEF clients
  <1>7. \A q \in Requests : status'[q] = "unopened" => responders'[q] = [d \in Clients |-> "none"]
    BY <1>2, <1>4 DEF TypeOK
  <1>8. AttachedCanAnswer'
    BY <1>2, <1>3, <1>4 DEF AttachedCanAnswer, Supports, Matches, Scopes, Pending, clients, TypeOK
  <1> QED
    BY <1>6, <1>7, <1>8, Zenon

\* Answers, threads and their owners make nobody stale and open nothing.
LEMMA OthersKeepResponders ==
    ASSUME ResponderInv, TypeOK', UNCHANGED <<clients, available, target>>,
           \A r \in Requests : Pending(r)' => Pending(r),
           \A r \in Requests : status'[r] = "unopened" =>
                               status[r] = "unopened" /\ responders'[r] = responders[r],
           \A r \in Requests, d \in Clients :
                responders'[r][d] = "stale" => responders[r][d] = "stale"
    PROVE  ResponderInv'
  <1> USE DEF ResponderInv
  <1>1. presence' = presence /\ subscribed' = subscribed /\ available' = available /\ target' = target
    BY Zenon DEF clients
  <1>2. \A r \in Requests, c \in Clients :
            /\ Supports(c, r)' <=> Supports(c, r)
            /\ Matches(r, c, Scopes(c, subscribed))' <=> Matches(r, c, Scopes(c, subscribed))
    BY <1>1 DEF Supports, Matches, Scopes
  <1>3. AttachedCanAnswer'
    BY <1>1, <1>2 DEF AttachedCanAnswer
  <1>4. \A c \in Clients : presence'[c] = "attached" => "Client" \in available'[c]
    BY <1>1, Zenon
  <1>5. \A r \in Requests : status'[r] = "unopened" => responders'[r] = [c \in Clients |-> "none"]
    BY Zenon
  <1> QED
    BY <1>3, <1>4, <1>5, Zenon

\* Every step keeps the broker's knowledge of attached clients.
LEMMA NextKeepsResponderInv == RequestInv /\ ResponderInv /\ [Next]_vars => ResponderInv'
  <1> SUFFICES ASSUME RequestInv, ResponderInv, [Next]_vars PROVE ResponderInv'
    BY Zenon
  <1>0. TypeOK'
    BY NextKeepsRequestInv, Zenon DEF RequestInv
  <1>1. ASSUME NEW c \in Clients, ClientNext(c) \/ Drain(c) PROVE ResponderInv'
    <2>1. ASSUME NEW readable \in BOOLEAN, Initialize(c, readable) PROVE ResponderInv'
      <3>1. /\ ResponderAvailable(c, Scopes(c, subscribed), IF readable THEN c ELSE Nobody)
            /\ subscribed' = subscribed
            /\ \A d \in Clients \ {c} : presence'[d] = presence[d]
        BY <2>1 DEF Initialize, ResponderInv, TypeOK
      <3>2. Scopes(c, subscribed') = Scopes(c, subscribed)
        BY <3>1, Zenon
      <3> QED
        BY <1>0, <3>1, <3>2, AvailableKeepsResponders, ScopesType, Zenon
    <2>2. CASE Drain(c)
      <3>1. /\ ResponderAvailable(c, Scopes(c, subscribed), c) /\ subscribed' = subscribed
            /\ presence' = presence
        BY <2>2, Zenon DEF Drain, clients
      <3>2. Scopes(c, subscribed') = Scopes(c, subscribed)
        BY <3>1, Zenon
      <3> QED
        BY <1>0, <3>1, <3>2, AvailableKeepsResponders, ScopesType, Zenon
    <2>3. CASE Subscribe(c)
      <3>1. /\ available[c] \cup {"Client", "Task"} \in SUBSET {"Client", "Task"}
            /\ Scopes(c, subscribed') \subseteq available[c] \cup {"Client", "Task"}
        BY Zenon DEF ResponderInv, TypeOK, Scopes
      <3> QED
        BY <1>0, <2>3, <3>1, AvailableKeepsResponders, Zenon DEF Subscribe
    <2>4. CASE Unsubscribe(c)
      BY <1>0, <2>4, UnsubscribeKeepsResponders, Zenon
    <2>5. CASE TransportClosed(c)
      <3>1. /\ ResponderLost(c) /\ presence'[c] # "attached"
            /\ \A d \in Clients \ {c} : presence'[d] = presence[d] /\ (d \in subscribed' <=> d \in subscribed)
        BY <2>5 DEF TransportClosed, ResponderInv, TypeOK
      <3> QED
        BY <1>0, <3>1, LostKeepsResponders, Zenon
    <2>6. CASE ClientExpires(c)
      <3>1. /\ ResponderLost(c) /\ presence'[c] # "attached"
            /\ \A d \in Clients \ {c} : presence'[d] = presence[d] /\ (d \in subscribed' <=> d \in subscribed)
        BY <2>6 DEF ClientExpires, ResponderInv, TypeOK
      <3> QED
        BY <1>0, <3>1, LostKeepsResponders
    <2>7. ASSUME NEW r \in Requests, NEW valid \in BOOLEAN, Respond(c, r, valid)
          PROVE  ResponderInv'
      <3>1. \A q \in Requests : Pending(q)' => Pending(q)
        BY <2>7 DEF Respond, Pending, ResponderInv, TypeOK
      <3>2. \A q \in Requests : status'[q] = "unopened" =>
                               status[q] = "unopened" /\ responders'[q] = responders[q]
        BY <2>7 DEF Respond, ResponderInv, TypeOK
      <3>3. \A q \in Requests, d \in Clients :
                responders'[q][d] = "stale" => responders[q][d] = "stale"
        BY <2>7 DEF Respond, ResponderInv, TypeOK
      <3> QED
        BY <1>0, <2>7, <3>1, <3>2, <3>3, OthersKeepResponders, Zenon DEF Respond
    <2> QED
      BY <1>1, <2>1, <2>2, <2>3, <2>4, <2>5, <2>6, <2>7, Zenon DEF ClientNext
  <1>2. CASE OpenNext
    BY <1>0, <1>2, OpenKeepsResponders, Zenon
  <1>3. CASE InterruptTaskRequests
    BY <1>0, <1>3, OthersKeepResponders, Zenon DEF InterruptTaskRequests, Pending, ResponderInv, TypeOK
  <1>4. ASSUME NEW r \in Requests, ThreadNext(r) \/ Cancel(r) \/ WaitTimesOut(r) \/ Forget(r)
        PROVE  ResponderInv'
    <2>1. CASE DeferShell(r)
      <3>1. UNCHANGED <<clients, available, target, status>> /\ status[r] # "unopened"
        BY <1>4, <2>1, Zenon DEF DeferShell, RequestInv, ThreadInv, Pending
      <3>2. \A q \in Requests, d \in Clients :
                responders'[q][d] = "stale" => responders[q][d] = "stale"
        BY <2>1 DEF DeferShell, ResponderInv, TypeOK
      <3>3. \A q \in Requests \ {r} : responders'[q] = responders[q]
        BY <2>1 DEF DeferShell, ResponderInv, TypeOK
      <3>4. \A q \in Requests : status'[q] = "unopened" =>
                               status[q] = "unopened" /\ responders'[q] = responders[q]
        BY <3>1, <3>3, Zenon
      <3>5. \A q \in Requests : Pending(q)' => Pending(q)
        BY <3>1, Zenon DEF Pending
      <3> QED
        BY <1>0, <3>1, <3>2, <3>4, <3>5, OthersKeepResponders, Zenon
    <2>2. CASE ~DeferShell(r)
      <3>1. UNCHANGED <<clients, available, target, responders>>
        BY <1>4, <2>2, Zenon DEF ThreadNext, TaskWaits, Cancel, WaitReturns, AutoApprove, Forget,
                          TaskRefuses, WaitCancelled, WaitTimesOut, broker
      <3>2. \A q \in Requests : status'[q] # status[q] => status'[q] \notin {"pending", "unopened"}
        BY <1>4, <2>2 DEF ThreadNext, TaskWaits, Cancel, WaitReturns, AutoApprove, Forget, TaskRefuses,
                          WaitCancelled, WaitTimesOut, Interrupted, broker, ResponderInv, TypeOK
      <3>3. \A q \in Requests : status'[q] = "unopened" =>
                               status[q] = "unopened" /\ responders'[q] = responders[q]
        BY <3>1, <3>2, Zenon
      <3>4. \A q \in Requests : Pending(q)' => Pending(q)
        BY <3>2, Zenon DEF Pending
      <3>5. \A q \in Requests, d \in Clients :
                responders'[q][d] = "stale" => responders[q][d] = "stale"
        BY <3>1, Zenon
      <3> QED
        BY <1>0, <3>1, <3>3, <3>4, <3>5, OthersKeepResponders, Zenon
    <2> QED
      BY <2>1, <2>2, Zenon
  <1>5. CASE UNCHANGED vars
    BY <1>0, <1>5, OthersKeepResponders, Zenon DEF vars, broker, Pending
  <1> QED
    BY <1>1, <1>2, <1>3, <1>4, <1>5, Zenon DEF Next, Requests

\* An attached client is never refused as stale by a pending request that it
\* supports and whose scope it matches, for any comings and goings.
THEOREM AttachedAlwaysAnswer == Spec => []AttachedCanAnswer
  <1>1. ResponderInv => AttachedCanAnswer
    BY Zenon DEF ResponderInv
  <1> QED
    BY <1>1, InitResponderInv, NextKeepsResponderInv, RequestsInductive, PTL DEF Spec
=============================================================================
