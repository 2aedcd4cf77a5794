----------------------- MODULE ClientLifecycleProofs -----------------------
(***************************************************************************)
(* Proofs about ClientLifecycle for any clients, connections and timeouts. *)
(*                                                                         *)
(* LifecycleInv is inductive.  ConnectionAuthority needs to know that the  *)
(* connection in a client's context is the client's own; the subscriptions *)
(* and the drain need ConnectionAuthority, which says that whoever acts    *)
(* through a connection is an initialized client; the silence of expired   *)
(* clients needs the balance of silence and deadlines in SilenceInv.       *)
(***************************************************************************)
EXTENDS ClientLifecycle, TLAPS

ContextsOwned == \A c \in clients : Owner[contextOf[c]] = c

HadClients == clients # {} => ever

\* The inductive invariant of the hub.
LifecycleInv ==
    /\ TypeOK
    /\ ContextsOwned /\ ConnectionAuthority /\ HadClients
    /\ SubscriptionsOwned /\ DrainsWithoutClients /\ BarrierExcludesOthers
    /\ SilenceInv

\* Where the deadlines start.
LEMMA DeadlineTypes ==
    /\ HeartbeatTimeout \in 0 .. HeartbeatTimeout
    /\ ReconnectGrace \in 0 .. ReconnectGrace
    /\ 0 \in 0 .. HeartbeatTimeout /\ 0 \in 0 .. ReconnectGrace
    /\ 0 \in 0 .. LongestSilence /\ LongestSilence \in Nat
  BY LifecycleAssumption DEF LongestSilence

\* Every step keeps the types.
LEMMA TypeStep ==
    ASSUME TypeOK, [Next]_vars
    PROVE  TypeOK'
<1>. USE LifecycleAssumption
<1>. USE DEF TypeOK, Causes, LastClientCauses, ConnectionsOf
<1>1. ASSUME NEW k \in Connections, ClientStep(k)
      PROVE  TypeOK'
  <2>1. CASE Initialize(k)
    <3>1. CASE Admitted(Owner[k])
      <4>1. contextOf' \in [Clients -> Connections]
        BY <2>1, <3>1 DEF Initialize
      <4>4. inGrace' \in [Clients -> BOOLEAN]
        <5>1. inGrace' = [inGrace EXCEPT ![Owner[k]] = FALSE]
          BY <2>1, <3>1, Zenon DEF Initialize
        <5>. QED  BY <5>1, Zenon
      <4>3. live' \in [Clients -> 0 .. HeartbeatTimeout]
            /\ silent' \in [Clients -> 0 .. LongestSilence]
        BY <2>1, <3>1, DeadlineTypes DEF Initialize, Heard
      <4>2. connections' \subseteq Connections
        BY <2>1, <3>1 DEF Initialize, ConnectionsAfterInitialize
      <4>. QED
        BY <2>1, <3>1, <4>1, <4>2, <4>3, <4>4
          DEF Initialize, Handled, ownedVars
    <3>2. CASE ~Admitted(Owner[k])
      BY <2>1, <3>2 DEF Initialize, Handled, hubVars, ownedVars
    <3>. QED  BY <3>1, <3>2, Zenon
  <2>2. CASE Activity(k)
    BY <2>2, DeadlineTypes DEF Activity, Heard, ownedVars, processVars
  <2>3. CASE Subscribe(k)
    BY <2>3, DeadlineTypes DEF Subscribe, Heard, Handled, processVars
  <2>4. CASE Detach(k)
    BY <2>4, DeadlineTypes DEF Detach, Leave, Drained, Heard, Handled
  <2>5. CASE PrepareUpdate(k)
    BY <2>5, DeadlineTypes DEF PrepareUpdate, Heard, Handled, OtherOwners,
       ownedVars, processVars
  <2>6. CASE AbortUpdate(k)
    BY <2>6, DeadlineTypes DEF AbortUpdate, Heard, Handled, ownedVars,
       processVars
  <2>7. CASE TransportClosed(k)
    BY <2>7, DeadlineTypes DEF TransportClosed, ownedVars, processVars
  <2>8. CASE PrepareRead(k)
    BY <2>8, DeadlineTypes DEF PrepareRead, Heard, processVars
  <2>9. CASE RegisterViewer(k)
    BY <2>9, DeadlineTypes DEF RegisterViewer, hubVars, processVars
  <2>10. CASE FinishRead(k)
    BY <2>10, DeadlineTypes DEF FinishRead, Heard, Handled, processVars
  <2>11. CASE ReleaseViewer(k)
    BY <2>11, DeadlineTypes DEF ReleaseViewer, Heard, Handled, processVars
  <2>12. CASE FrameHandled(k)
    BY <2>12, DeadlineTypes DEF FrameHandled, Request, hubVars, ownedVars
  <2>. QED  BY <1>1, <2>1, <2>2, <2>3, <2>4, <2>5, <2>6, <2>7, <2>8, <2>9,
     <2>10, <2>11, <2>12, Zenon DEF ClientStep
<1>2. CASE Tick
  <2>1. live' \in [Clients -> 0 .. HeartbeatTimeout]
    <3>1. ASSUME NEW n \in 0 .. HeartbeatTimeout
          PROVE  Less(n) \in 0 .. HeartbeatTimeout
      BY DEF Less
    <3>. QED  BY <1>2, <3>1, Zenon DEF Tick
  <2>2. grace' \in [Clients -> 0 .. ReconnectGrace]
    <3>1. ASSUME NEW n \in 0 .. ReconnectGrace
          PROVE  Less(n) \in 0 .. ReconnectGrace
      BY DEF Less
    <3>. QED  BY <1>2, <3>1, Zenon DEF Tick
  <2>3. silent' \in [Clients -> 0 .. LongestSilence]
    <3>1. ASSUME NEW n \in 0 .. LongestSilence
          PROVE  (IF n < LongestSilence THEN n + 1 ELSE LongestSilence)
                     \in 0 .. LongestSilence
      BY DeadlineTypes
    <3>. QED  BY <1>2, <3>1, Zenon DEF Tick
  <2>. QED  BY <1>2, <2>1, <2>2, <2>3 DEF Tick, ownedVars, processVars
<1>3. CASE Sweep
  BY <1>3, DeadlineTypes DEF Sweep, Leave, Drained, Entering, Expiring
<1>4. CASE Settle
  BY <1>4, DeadlineTypes DEF Settle, Request, hubVars, ownedVars
<1>5. CASE Replace
  BY <1>5, DeadlineTypes DEF Replace, Request, hubVars, ownedVars
<1>6. CASE ReceiveShutdown
  BY <1>6, DeadlineTypes DEF ReceiveShutdown, hubVars, ownedVars
<1>7. CASE Shutdown
  BY <1>7, DeadlineTypes, Zenon DEF Shutdown, hubVars, ownedVars
<1>8. CASE UNCHANGED vars
  BY <1>8 DEF vars, hubVars, ownedVars, processVars
<1>. QED  BY <1>1, <1>2, <1>3, <1>4, <1>5, <1>6, <1>7, <1>8, Zenon DEF Next,
   ProcessStep

\* Types: every variable of the hub, the gateway and the threads keeps its type.
THEOREM TypeCorrect == Spec => []TypeOK
<1>1. ASSUME Init PROVE TypeOK
  <2>1. contextOf \in [Clients -> Connections]
    BY <1>1, LifecycleAssumption, Zenon DEF Init
  <2>. QED  BY <1>1, <2>1, DeadlineTypes, Zenon DEF Init, TypeOK, Causes
<1>. QED  BY <1>1, TypeStep, PTL DEF Spec

\* Every step keeps the two maps of the hub in agreement.
LEMMA AuthorityStep ==
    ASSUME TypeOK, ContextsOwned, ConnectionAuthority, [Next]_vars
    PROVE  (ContextsOwned /\ ConnectionAuthority)'
<1>. USE LifecycleAssumption
<1>. USE DEF TypeOK, ContextsOwned, ConnectionAuthority, ConnectionsOf
<1>1. ASSUME NEW k \in Connections, ClientStep(k)
      PROVE  (ContextsOwned /\ ConnectionAuthority)'
  <2>1. CASE Initialize(k)
    BY <2>1 DEF Initialize, ConnectionsAfterInitialize, Admitted, Heard,
       Handled, hubVars, ownedVars
  <2>2. CASE Activity(k)
    BY <2>2, Zenon DEF Activity, Heard, ownedVars, processVars
  <2>3. CASE Subscribe(k)
    BY <2>3, Zenon DEF Subscribe, Heard, Handled, processVars
  <2>4. CASE Detach(k)
    BY <2>4, Zenon DEF Detach, Leave, Drained, Heard, Handled
  <2>5. CASE PrepareUpdate(k)
    BY <2>5, Zenon DEF PrepareUpdate, Heard, Handled, OtherOwners, ownedVars,
       processVars
  <2>6. CASE AbortUpdate(k)
    BY <2>6, Zenon DEF AbortUpdate, Heard, Handled, ownedVars, processVars
  <2>7. CASE TransportClosed(k)
    BY <2>7 DEF TransportClosed, ownedVars, processVars
  <2>8. CASE PrepareRead(k)
    BY <2>8, Zenon DEF PrepareRead, Heard, processVars
  <2>9. CASE RegisterViewer(k)
    BY <2>9, Zenon DEF RegisterViewer, hubVars, processVars
  <2>10. CASE FinishRead(k)
    BY <2>10, Zenon DEF FinishRead, Heard, Handled, processVars
  <2>11. CASE ReleaseViewer(k)
    BY <2>11, Zenon DEF ReleaseViewer, Heard, Handled, processVars
  <2>12. CASE FrameHandled(k)
    BY <2>12, Zenon DEF FrameHandled, Request, hubVars, ownedVars
  <2>. QED  BY <1>1, <2>1, <2>2, <2>3, <2>4, <2>5, <2>6, <2>7, <2>8, <2>9,
     <2>10, <2>11, <2>12, Zenon DEF ClientStep
<1>2. CASE Tick
  BY <1>2, Zenon DEF Tick, Less, ownedVars, processVars
<1>3. CASE Sweep
  <2>1. connections' \subseteq connections
        /\ \A k \in connections' : Owner[k] \notin Entering \cup Expiring
    BY <1>3, Zenon DEF Sweep
  <2>2. clients' = clients \ Expiring /\ contextOf' = contextOf
    BY <1>3, Zenon DEF Sweep, Leave
  <2>3. \A c \in Clients : inGrace'[c] = (inGrace[c] \/ c \in Entering)
    BY <1>3, Zenon DEF Sweep
  <2>4. ContextsOwned'
    BY <2>2, Zenon
  <2>5. \A k \in connections' :
            Owner[k] \in clients' /\ ~inGrace'[Owner[k]]
            /\ contextOf'[Owner[k]] = k
    BY <2>1, <2>2, <2>3, Zenon
  <2>6. ASSUME NEW c \in clients', ~inGrace'[c]
        PROVE  contextOf'[c] \in connections'
    <3>1. c \in clients /\ c \notin Expiring /\ c \notin Entering /\ ~inGrace[c]
      BY <2>2, <2>3, <2>6, Zenon
    <3>2. contextOf[c] \in connections /\ Owner[contextOf[c]] = c
      BY <3>1, Zenon
    <3>. QED  BY <1>3, <2>2, <3>1, <3>2 DEF Sweep
  <2>. QED  BY <2>4, <2>5, <2>6, Zenon
<1>4. CASE Settle
  BY <1>4, Zenon DEF Settle, Request, hubVars, ownedVars
<1>5. CASE Replace
  BY <1>5, Zenon DEF Replace, Request, hubVars, ownedVars
<1>6. CASE ReceiveShutdown
  BY <1>6, Zenon DEF ReceiveShutdown, hubVars, ownedVars
<1>7. CASE Shutdown
  BY <1>7, Zenon DEF Shutdown, hubVars, ownedVars
<1>8. CASE UNCHANGED vars
  BY <1>8, Zenon DEF vars, hubVars, ownedVars, processVars
<1>. QED  BY <1>1, <1>2, <1>3, <1>4, <1>5, <1>6, <1>7, <1>8, Zenon DEF Next,
   ProcessStep

\* ConnectionAuthority holds in every reachable state: a connection acts for a
\* client only while it is that client's current one.
THEOREM AuthorityHolds == Spec => []ConnectionAuthority
<1>1. Init => ContextsOwned /\ ConnectionAuthority
  BY Zenon DEF Init, ContextsOwned, ConnectionAuthority
<1>. QED  BY <1>1, AuthorityStep, TypeCorrect, PTL DEF Spec

\* Every step keeps subscriptions, lifecycle and barrier true to the clients.
LEMMA OwnedStep ==
    ASSUME TypeOK, ConnectionAuthority, HadClients, SubscriptionsOwned,
           DrainsWithoutClients, BarrierExcludesOthers, [Next]_vars
    PROVE  (HadClients /\ SubscriptionsOwned /\ DrainsWithoutClients
            /\ BarrierExcludesOthers)'
<1>. USE LifecycleAssumption
<1>. USE DEF TypeOK, ConnectionAuthority, HadClients, SubscriptionsOwned, DrainsWithoutClients, BarrierExcludesOthers
<1>1. ASSUME NEW k \in Connections, ClientStep(k)
      PROVE  (HadClients /\ SubscriptionsOwned /\ DrainsWithoutClients
            /\ BarrierExcludesOthers)'
  <2>1. CASE Initialize(k)
    BY <2>1 DEF Initialize, ConnectionsAfterInitialize, Admitted, Heard,
       Handled, hubVars, ownedVars
  <2>2. CASE Activity(k)
    BY <2>2, Zenon DEF Activity, Heard, ownedVars, processVars
  <2>3. CASE Subscribe(k)
    BY <2>3 DEF Subscribe, Heard, Handled, processVars
  <2>4. CASE Detach(k)
    <3>1. Owner[k] \in clients
      BY <2>4, Zenon DEF Detach
    <3>2. clients' = clients \ {Owner[k]} /\ subscribed' = subscribed \ {Owner[k]}
          /\ barrier' = barrier /\ ever' = ever
      BY <2>4, Zenon DEF Detach, Leave
    <3>3. DrainsWithoutClients'
      <4>1. lifecycle' = IF clients' = {} /\ lifecycle = "running"
                         THEN "draining" ELSE lifecycle
        BY <2>4, <3>2, Zenon DEF Detach, Leave, Drained
      <4>2. lifecycle # "stopping" => lifecycle = "running" /\ ever
        BY <3>1, Zenon
      <4>. QED  BY <3>2, <4>1, <4>2, Zenon
    <3>. QED  BY <3>2, <3>3, Zenon
  <2>5. CASE PrepareUpdate(k)
    BY <2>5, Zenon DEF PrepareUpdate, Heard, Handled, OtherOwners, ownedVars,
       processVars
  <2>6. CASE AbortUpdate(k)
    BY <2>6, Zenon DEF AbortUpdate, Heard, Handled, ownedVars, processVars
  <2>7. CASE TransportClosed(k)
    BY <2>7, Zenon DEF TransportClosed, ownedVars, processVars
  <2>8. CASE PrepareRead(k)
    BY <2>8, Zenon DEF PrepareRead, Heard, processVars
  <2>9. CASE RegisterViewer(k)
    BY <2>9, Zenon DEF RegisterViewer, hubVars, processVars
  <2>10. CASE FinishRead(k)
    BY <2>10, Zenon DEF FinishRead, Heard, Handled, processVars
  <2>11. CASE ReleaseViewer(k)
    BY <2>11, Zenon DEF ReleaseViewer, Heard, Handled, processVars
  <2>12. CASE FrameHandled(k)
    BY <2>12, Zenon DEF FrameHandled, Request, hubVars, ownedVars
  <2>. QED  BY <1>1, <2>1, <2>2, <2>3, <2>4, <2>5, <2>6, <2>7, <2>8, <2>9,
     <2>10, <2>11, <2>12, Zenon DEF ClientStep
<1>2. CASE Tick
  BY <1>2, Zenon DEF Tick, Less, ownedVars, processVars
<1>3. CASE Sweep
  <2>1. CASE Expiring = {}
    BY <1>3, <2>1, Zenon DEF Sweep
  <2>2. CASE Expiring # {}
    <3>1. clients' = clients \ Expiring /\ subscribed' = subscribed \ Expiring
          /\ barrier' = barrier /\ ever' = ever
      BY <1>3, <2>2, Zenon DEF Sweep, Leave
    <3>2. clients # {}
      BY <2>2, Zenon DEF Expiring
    <3>3. DrainsWithoutClients'
      <4>1. lifecycle' = IF clients' = {} /\ lifecycle = "running"
                         THEN "draining" ELSE lifecycle
        BY <1>3, <2>2, <3>1, Zenon DEF Sweep, Leave, Drained
      <4>2. lifecycle # "stopping" => lifecycle = "running" /\ ever
        BY <3>2, Zenon
      <4>. QED  BY <3>1, <4>1, <4>2, Zenon
    <3>. QED  BY <3>1, <3>3, Zenon
  <2>. QED  BY <2>1, <2>2, Zenon
<1>4. CASE Settle
  BY <1>4, Zenon DEF Settle, Request, hubVars, ownedVars
<1>5. CASE Replace
  BY <1>5, Zenon DEF Replace, Request, hubVars, ownedVars
<1>6. CASE ReceiveShutdown
  BY <1>6, Zenon DEF ReceiveShutdown, hubVars, ownedVars
<1>7. CASE Shutdown
  BY <1>7, Zenon DEF Shutdown, hubVars, ownedVars
<1>8. CASE UNCHANGED vars
  BY <1>8, Zenon DEF vars, hubVars, ownedVars, processVars
<1>. QED  BY <1>1, <1>2, <1>3, <1>4, <1>5, <1>6, <1>7, <1>8, Zenon DEF Next,
   ProcessStep

\* SubscriptionsOwned, DrainsWithoutClients and BarrierExcludesOthers hold in
\* every reachable state: no removal of a client leaves its subscriptions, an
\* undrained server or a foreign client behind a barrier.
THEOREM OwnedHolds ==
    Spec => [](SubscriptionsOwned /\ DrainsWithoutClients /\ BarrierExcludesOthers)
<1>1. Init => HadClients /\ SubscriptionsOwned /\ DrainsWithoutClients
              /\ BarrierExcludesOthers
  BY Zenon DEF Init, HadClients, SubscriptionsOwned, DrainsWithoutClients, BarrierExcludesOthers
<1>. QED  BY <1>1, OwnedStep, TypeCorrect, AuthorityHolds, PTL DEF Spec

\* Every step keeps the balance of observed silence and time left.
LEMMA SilenceStep ==
    ASSUME TypeOK, ConnectionAuthority, SilenceInv, [Next]_vars
    PROVE  SilenceInv'
<1>. USE LifecycleAssumption
<1>. USE DEF TypeOK, ConnectionAuthority, SilenceInv, LongestSilence
<1>1. ASSUME NEW k \in Connections, ClientStep(k)
      PROVE  SilenceInv'
  <2>1. CASE Initialize(k)
    BY <2>1 DEF Initialize, ConnectionsAfterInitialize, Admitted, Heard,
       Handled, hubVars, ownedVars
  <2>2. CASE Activity(k)
    BY <2>2 DEF Activity, Heard, ownedVars, processVars
  <2>3. CASE Subscribe(k)
    BY <2>3 DEF Subscribe, Heard, Handled, processVars
  <2>4. CASE Detach(k)
    BY <2>4 DEF Detach, Leave, Drained, Heard, Handled
  <2>5. CASE PrepareUpdate(k)
    BY <2>5 DEF PrepareUpdate, Heard, Handled, OtherOwners, ownedVars,
       processVars
  <2>6. CASE AbortUpdate(k)
    BY <2>6 DEF AbortUpdate, Heard, Handled, ownedVars, processVars
  <2>7. CASE TransportClosed(k)
    BY <2>7 DEF TransportClosed, ownedVars, processVars
  <2>8. CASE PrepareRead(k)
    BY <2>8 DEF PrepareRead, Heard, processVars
  <2>9. CASE RegisterViewer(k)
    BY <2>9, Zenon DEF RegisterViewer, hubVars, processVars
  <2>10. CASE FinishRead(k)
    BY <2>10 DEF FinishRead, Heard, Handled, processVars
  <2>11. CASE ReleaseViewer(k)
    BY <2>11 DEF ReleaseViewer, Heard, Handled, processVars
  <2>12. CASE FrameHandled(k)
    BY <2>12, Zenon DEF FrameHandled, Request, hubVars, ownedVars
  <2>. QED  BY <1>1, <2>1, <2>2, <2>3, <2>4, <2>5, <2>6, <2>7, <2>8, <2>9,
     <2>10, <2>11, <2>12, Zenon DEF ClientStep
<1>2. CASE Tick
  BY <1>2 DEF Tick, Less, ownedVars, processVars
<1>3. CASE Sweep
  <2>. SUFFICES ASSUME NEW c \in clients'
              PROVE  IF inGrace'[c]
                     THEN silent'[c] + grace'[c] >=
                            ReconnectGrace + (IF TransportReports THEN 0
                                              ELSE HeartbeatTimeout)
                     ELSE silent'[c] + live'[c] >= HeartbeatTimeout
    BY Zenon
  <2>1. c \in clients /\ c \in Clients
    BY <1>3 DEF Sweep, Leave
  <2>2. silent' = silent /\ live' = live
    BY <1>3, Zenon DEF Sweep
  <2>3. CASE c \in Entering
    <3>1. ~inGrace[c] /\ live[c] = 0
      BY <2>3, Zenon DEF Entering
    <3>2. inGrace'[c] /\ grace'[c] = ReconnectGrace
      BY <1>3, <2>1, <2>3, Zenon DEF Sweep
    <3>. QED  BY <2>1, <2>2, <3>1, <3>2
  <2>4. CASE c \notin Entering
    <3>1. inGrace'[c] = inGrace[c] /\ grace'[c] = grace[c]
      BY <1>3, <2>1, <2>4 DEF Sweep
    <3>. QED  BY <2>1, <2>2, <3>1, Zenon
  <2>. QED  BY <2>3, <2>4, Zenon
<1>4. CASE Settle
  BY <1>4, Zenon DEF Settle, Request, hubVars, ownedVars
<1>5. CASE Replace
  BY <1>5, Zenon DEF Replace, Request, hubVars, ownedVars
<1>6. CASE ReceiveShutdown
  BY <1>6, Zenon DEF ReceiveShutdown, hubVars, ownedVars
<1>7. CASE Shutdown
  BY <1>7, Zenon DEF Shutdown, hubVars, ownedVars
<1>8. CASE UNCHANGED vars
  BY <1>8, Zenon DEF vars, hubVars, ownedVars, processVars
<1>. QED  BY <1>1, <1>2, <1>3, <1>4, <1>5, <1>6, <1>7, <1>8, Zenon DEF Next,
   ProcessStep

\* SilenceInv holds in every reachable state.
THEOREM SilenceHolds == Spec => []SilenceInv
<1>1. Init => SilenceInv
  BY Zenon DEF Init, SilenceInv
<1>. QED  BY <1>1, SilenceStep, TypeCorrect, AuthorityHolds, PTL DEF Spec

\* A sweep of the expirer removes only clients that were silent for the heartbeat
\* timeout and a whole reconnect grace.
THEOREM ExpiresLate == Spec => ExpiresOnlyAfterSilence
<1>1. ASSUME TypeOK, SilenceInv, Sweep, NEW c \in clients \ clients'
      PROVE  silent[c] >= ReconnectGrace + (IF TransportReports THEN 0
                                            ELSE HeartbeatTimeout)
  <2>1. c \in clients /\ inGrace[c] /\ grace[c] = 0
    BY <1>1, Zenon DEF Sweep, Leave, Expiring
  <2>. QED  BY <1>1, <2>1, LifecycleAssumption DEF TypeOK, SilenceInv, LongestSilence
<1>2. TypeOK /\ SilenceInv =>
          [Sweep => \A c \in clients \ clients' :
               silent[c] >= ReconnectGrace + (IF TransportReports THEN 0
                                              ELSE HeartbeatTimeout)]_vars
  BY <1>1, Zenon
<1>. QED  BY <1>2, TypeCorrect, SilenceHolds, PTL DEF ExpiresOnlyAfterSilence

\* The inductive invariant as one fact.
THEOREM LifecycleInvHolds == Spec => []LifecycleInv
<1>1. Init => ContextsOwned /\ HadClients /\ SubscriptionsOwned
              /\ DrainsWithoutClients /\ BarrierExcludesOthers
  BY Zenon DEF Init, ContextsOwned, HadClients, SubscriptionsOwned,
     DrainsWithoutClients, BarrierExcludesOthers
<1>2. Spec => [](TypeOK /\ ConnectionAuthority)
  BY TypeCorrect, AuthorityHolds, PTL
<1>3. Spec => [](ContextsOwned /\ HadClients)
  BY <1>1, <1>2, AuthorityStep, OwnedStep, PTL DEF Spec
<1>4. TypeOK /\ ContextsOwned /\ HadClients /\ ConnectionAuthority /\ SubscriptionsOwned
      /\ DrainsWithoutClients /\ BarrierExcludesOthers /\ SilenceInv
          => LifecycleInv
  BY Zenon DEF LifecycleInv
<1>. QED  BY <1>2, <1>3, <1>4, OwnedHolds, SilenceHolds, PTL

=============================================================================
