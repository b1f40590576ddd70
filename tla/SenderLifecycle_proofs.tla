------------------------ MODULE SenderLifecycle_proofs ------------------------
(***************************************************************************)
(* The safety invariants of SenderLifecycle, proved for every number of    *)
(* receivers, generations, waiting events and delay stages.                *)
(*                                                                         *)
(* None of them is inductive alone.  What they lean on is the shape of the *)
(* event queue: a Connected event is the first and announces the pending   *)
(* session, a Disconnected event is the last and follows the end of the    *)
(* task, and a transport without a session has nothing queued.             *)
(***************************************************************************)
EXTENDS SenderLifecycle, SequenceTheorems, TLAPS

(* The transport knows at most one session, that of the latest actor.       *)
TransportShape ==
    /\ transport.active \in {NoGen, actor.session}
    /\ transport.pending \in {NoGen, actor.session}
    /\ transport.active = NoGen \/ transport.pending = NoGen
    /\ TransportSession = NoGen => actor.phase = "Ended" /\ events = <<>>
    /\ actor.phase = "Handshaking" =>
          transport.pending = actor.session /\ events = <<>>

(* Connected comes first, Disconnected last, and no end goes unreported.    *)
QueueShape ==
    /\ \A i \in 1..Len(events):
          /\ events[i] = "Connected" =>
                i = 1 /\ transport.pending = actor.session
          /\ events[i] = "Disconnected" =>
                i = Len(events) /\ actor.phase = "Ended"
    /\ actor.phase = "Ended" /\ TransportSession # NoGen =>
          events # <<>> /\ events[Len(events)] = "Disconnected"

(* The reducer's connection state and its generation slots agree.           *)
ReducerShape ==
    /\ (life.connection = "Connecting") = (life.pending # NoGen)
    /\ (life.connection = "Connected") = (life.active # NoGen)

(* What the reducer owns is the transport's session; a pending generation   *)
(* that is already connected is on its way down.                            *)
OwnedShape ==
    \A g \in Generation: Owns(life, g) =>
        /\ g \in {transport.active, transport.pending}
        /\ g = life.active => g = transport.active
        /\ g = life.pending /\ g = transport.active =>
              actor.closing \/ actor.phase = "Ended"

IInv ==
    /\ TypeOK
    /\ TransportShape
    /\ QueueShape
    /\ ReducerShape
    /\ TimerMeansReconnecting
    /\ OwnedShape
    /\ NoLeakedConnection
    /\ SupersededConnectionCloses
    /\ HandshakeBelongsToConnection
    /\ StopIsFinal

-----------------------------------------------------------------------------
(* What the reducer returns is a reducer state.                             *)
LEMMA ReducerTypes ==
    ASSUME NEW l \in Life, NEW g \in GenOption, NEW b \in BOOLEAN
    PROVE  /\ Previous(l) \in GenOption
           /\ ConnectRequested(l) \in Life
           /\ ConnectStarted(l, g) \in Life
           /\ ExplicitConnectFailed(l) \in Life
           /\ TransportConnected(l, g) \in Life
           /\ TransportDisconnected(l) \in Life
           /\ Stopped(l) \in Life
           /\ ReconnectPolicyChanged(l, b) \in Life
           /\ ReconnectArmed(l) \in Life
           /\ ReconnectDeadlineElapsed(l) \in Life
           /\ ReconnectConnectFailed(l) \in Life
<1> USE DEF Life, GenOption, NoGen, ResetSession
<1>1. Previous(l) \in GenOption
  BY DEF Previous
<1>2. ConnectRequested(l) \in Life
  BY DEF ConnectRequested
<1>3. ConnectStarted(l, g) \in Life
  BY DEF ConnectStarted
<1>4. ExplicitConnectFailed(l) \in Life
  BY DEF ExplicitConnectFailed
<1>5. TransportConnected(l, g) \in Life
  BY DEF TransportConnected
<1>6. TransportDisconnected(l) \in Life
  BY DEF TransportDisconnected
<1>7. Stopped(l) \in Life
  BY DEF Stopped, TransportDisconnected
<1>8. ReconnectPolicyChanged(l, b) \in Life
  BY DEF ReconnectPolicyChanged
<1>9. ReconnectArmed(l) \in Life
  BY DEF ReconnectArmed
<1>10. ReconnectDeadlineElapsed(l) \in Life
  BY DEF ReconnectDeadlineElapsed
<1>11. ReconnectConnectFailed(l) \in Life
  BY DEF ReconnectConnectFailed
<1> QED BY <1>1, <1>2, <1>3, <1>4, <1>5, <1>6, <1>7, <1>8, <1>9, <1>10, <1>11

(* The initial state satisfies the invariant.                               *)
LEMMA InitInvariant == Init => IInv
<1> SUFFICES ASSUME Init PROVE IInv
  OBVIOUS
<1> USE BoundAssumption, EndpointAssumption DEF Init, NoGen, GenOption, Generation
<1>1. TypeOK
  <2>1. life \in Life
    BY DEF Life
  <2>2. events \in Seq(EventKinds)
    OBVIOUS
  <2>3. transport \in Transport
    BY DEF Transport
  <2>4. actor \in Actor
    BY DEF Actor
  <2>5. backoff \in 0..LastStage
    OBVIOUS
  <2>6. helloRequested \in BOOLEAN /\ reconnectAfter \in BOOLEAN
        /\ stopped \in BOOLEAN
    OBVIOUS
  <2>7. call \in {"Free", "Drain", "PumpDrain", "PumpTimer"}
    OBVIOUS
  <2> QED BY <2>1, <2>2, <2>3, <2>4, <2>5, <2>6, <2>7 DEF TypeOK
<1>2. TransportShape /\ QueueShape /\ ReducerShape
  BY DEF TransportShape, QueueShape, ReducerShape, TransportSession
<1>3. TimerMeansReconnecting /\ OwnedShape
  BY DEF TimerMeansReconnecting, OwnedShape, Owns
<1>4. NoLeakedConnection /\ SupersededConnectionCloses
  BY DEF NoLeakedConnection, SupersededConnectionCloses, Owns
<1>5. HandshakeBelongsToConnection /\ StopIsFinal
  BY DEF HandshakeBelongsToConnection, StopIsFinal
<1> QED BY <1>1, <1>2, <1>3, <1>4, <1>5 DEF IInv

-----------------------------------------------------------------------------
(* The helpers that assign several variables keep their types.              *)
LEMMA OpenConnectionTypes ==
    ASSUME TypeOK, NEW e \in Endpoints \cup {NoEndpoint}, OpenConnection(e)
    PROVE  /\ transport.next \in Generation
           /\ transport' \in Transport /\ actor' \in Actor
           /\ events' \in Seq(EventKinds)
<1>1. transport.next \in Generation
  BY BoundAssumption DEF TypeOK, OpenConnection, Generation, Transport
<1>2. transport' \in Transport
  <2>1. transport.next \in GenOption
    BY <1>1 DEF GenOption
  <2>2. transport.next + 1 \in 1..(MaxGen + 1)
    BY <1>1, BoundAssumption DEF Generation
  <2> QED BY <2>1, <2>2 DEF TypeOK, OpenConnection, Transport
<1>3. actor' \in Actor
  BY <1>1 DEF OpenConnection, Actor, GenOption
<1>4. events' \in Seq(EventKinds)
  BY DEF OpenConnection
<1> QED BY <1>1, <1>2, <1>3, <1>4

LEMMA AfterCloseType ==
    ASSUME TypeOK, NEW g \in GenOption
    PROVE  AfterClose(g) \in Actor
  BY DEF TypeOK, AfterClose, Actor

LEMMA UserDisconnectTypes ==
    ASSUME TypeOK, NEW b \in BOOLEAN, UserDisconnect(b)
    PROVE  /\ life' \in Life
           /\ lastEndpoint' \in Endpoints \cup {NoEndpoint}
           /\ helloRequested' \in BOOLEAN /\ reconnectAfter' \in BOOLEAN
           /\ backoff' \in 0..LastStage /\ handshakeGen' \in GenOption
           /\ actor' \in Actor
           /\ stopped' \in BOOLEAN
<1>1. /\ Stopped(life) \in Life
      /\ Previous(life) \in GenOption
      /\ AfterClose(Previous(life)) \in Actor
  BY ReducerTypes, AfterCloseType DEF TypeOK
<1> QED
  BY <1>1 DEF UserDisconnect, TypeOK, session, history, GenOption

LEMMA ScheduleReconnectTypes ==
    ASSUME TypeOK, NEW l \in Life, ScheduleReconnect(l)
    PROVE  /\ life' \in Life
           /\ reconnectAfter' \in BOOLEAN
           /\ backoff' \in 0..LastStage
<1>1. ReconnectArmed(l) \in Life
  BY ReducerTypes DEF GenOption
<1>2. life' \in Life /\ reconnectAfter' \in BOOLEAN
  BY <1>1 DEF ScheduleReconnect, TypeOK
<1>3. backoff' \in 0..LastStage
  BY BoundAssumption DEF ScheduleReconnect, TypeOK
<1> QED BY <1>2, <1>3

LEMMA EventTypes ==
    ASSUME TypeOK
    PROVE  /\ \A kind \in EventKinds: Append(events, kind) \in Seq(EventKinds)
           /\ events # <<>> => /\ Tail(events) \in Seq(EventKinds)
                               /\ Head(events) \in EventKinds
  BY DEF TypeOK

(* Every step keeps the types.                                              *)
LEMMA TypeStep == TypeOK /\ [Next]_vars => TypeOK'
<1> SUFFICES ASSUME TypeOK, [Next]_vars PROVE TypeOK'
  OBVIOUS
<1>0. /\ life \in Life /\ actor \in Actor /\ transport \in Transport
      /\ life.active \in GenOption /\ life.pending \in GenOption
      /\ actor.session \in GenOption
      /\ lastEndpoint \in Endpoints \cup {NoEndpoint}
  BY DEF TypeOK, Life, Actor
<1>a. TransportSession \in GenOption /\ NoGen \in GenOption
  BY DEF TypeOK, Transport, TransportSession, GenOption
<1>1. CASE Worker
  <2>1. actor' \in Actor
    BY <1>0, <1>1 DEF Worker, HandshakeSucceeds, HandshakeFails, WorkerCloses,
          ConnectionLost, PeerSends, Actor
  <2>2. events' \in Seq(EventKinds)
    BY <1>1, EventTypes DEF Worker, HandshakeSucceeds, HandshakeFails,
          WorkerCloses, ConnectionLost, PeerSends, EventKinds
  <2>3. UNCHANGED <<session, transport, call, history>>
    BY <1>1 DEF Worker, HandshakeSucceeds, HandshakeFails, WorkerCloses,
          ConnectionLost, PeerSends
  <2> QED BY <2>1, <2>2, <2>3 DEF TypeOK, session, history
<1>2. CASE PollConnected
  <2> DEFINE l == TransportConnected(life, actor.session)
  <2>1. /\ l \in Life /\ Stopped(l) \in Life
        /\ [l EXCEPT !.stream = "Negotiating"] \in Life
    <3>1. l \in Life
      BY <1>0, ReducerTypes
    <3>2. Stopped(l) \in Life
      BY <1>a, <3>1, ReducerTypes
    <3> QED BY <3>1, <3>2 DEF Life
  <2> HIDE DEF l
  <2>2. transport' \in Transport
    BY <1>0, <1>a, <1>2 DEF PollConnected, Transport
  <2>3. life' \in Life
    BY <1>0, <1>2, <2>1 DEF PollConnected, session, l
  <2>4. actor' \in Actor
    BY <1>0, <1>2 DEF PollConnected, Actor
  <2>5. backoff' \in 0..LastStage
    BY <1>2, BoundAssumption DEF PollConnected, TypeOK, session
  <2>6. handshakeGen' \in GenOption
    BY <1>0, <1>a, <1>2 DEF PollConnected, TypeOK, session
  <2>7. reconnectAfter' \in BOOLEAN /\ stopped' \in BOOLEAN
    BY <1>2 DEF PollConnected, TypeOK, session
  <2>8. UNCHANGED <<lastEndpoint, helloRequested, call>>
    BY <1>2 DEF PollConnected, session
  <2>9. events' \in Seq(EventKinds)
    BY <1>2, EventTypes DEF PollConnected, Draining
  <2> QED BY <2>2, <2>3, <2>4, <2>5, <2>6, <2>7, <2>8, <2>9 DEF TypeOK
<1>3. CASE PollControl
  <2>1. /\ UNCHANGED <<transport, call>>
        /\ events' \in Seq(EventKinds)
    BY <1>3, EventTypes DEF PollControl, Draining
  <2>2. CASE UNCHANGED <<session, actor, history>>
    BY <2>1, <2>2 DEF TypeOK, session, history
  <2>3. CASE UserDisconnect(TRUE)
    BY <2>1, <2>3, UserDisconnectTypes DEF TypeOK
  <2>4. CASE RejectAuthentication
    <3>1. Stopped(life) \in Life /\ AfterClose(life.active) \in Actor
      BY <1>0, <1>a, ReducerTypes, AfterCloseType
    <3> QED BY <1>a, <2>1, <2>4, <3>1 DEF RejectAuthentication, TypeOK
  <2>5. CASE /\ life' = [life EXCEPT !.stream = "Streaming"]
             /\ UNCHANGED <<lastEndpoint, helloRequested, reconnectAfter,
                            backoff, handshakeGen, actor, history>>
    <3>1. life' \in Life
      BY <1>0, <2>5 DEF Life
    <3> QED BY <2>1, <2>5, <3>1 DEF TypeOK, history
  <2> QED BY <1>3, <2>2, <2>3, <2>4, <2>5 DEF PollControl
<1>4. CASE PollDisconnected
  <2>1. transport' \in Transport
    BY <1>0, <1>a, <1>4 DEF PollDisconnected, Transport
  <2>2. events' \in Seq(EventKinds)
    BY <1>4, EventTypes DEF PollDisconnected, Draining
  <2>3. TransportDisconnected(life) \in Life
    BY <1>0, <1>a, ReducerTypes
  <2>4. CASE Owns(life, actor.session)
    <3>1. handshakeGen' = NoGen /\ UNCHANGED <<lastEndpoint, helloRequested,
                                   actor, call, history>>
      BY <1>4, <2>4 DEF PollDisconnected
    <3>2. CASE life.reconnectEnabled
      <4>1. ScheduleReconnect(TransportDisconnected(life))
        BY <1>4, <2>4, <3>2 DEF PollDisconnected
      <4> QED BY <1>a, <2>1, <2>2, <2>3, <3>1, <4>1, ScheduleReconnectTypes
              DEF TypeOK, history
    <3>3. CASE ~life.reconnectEnabled
      <4>1. life' = TransportDisconnected(life)
            /\ UNCHANGED <<backoff, reconnectAfter>>
        BY <1>4, <2>4, <3>3 DEF PollDisconnected
      <4> QED BY <1>a, <2>1, <2>2, <2>3, <3>1, <4>1 DEF TypeOK, history
    <3> QED BY <3>2, <3>3
  <2>5. CASE ~Owns(life, actor.session)
    BY <1>4, <2>1, <2>2, <2>5 DEF PollDisconnected, TypeOK, session, history
  <2> QED BY <2>4, <2>5
<1>5. CASE DrainEnds \/ PumpStarts \/ PumpEnds
  <2>1. call' \in {"Free", "Drain", "PumpDrain", "PumpTimer"}
        /\ UNCHANGED <<session, transport, actor, events, history>>
    BY <1>5 DEF DrainEnds, PumpStarts, PumpEnds
  <2> QED BY <2>1 DEF TypeOK, session, history
<1>6. ASSUME NEW e \in Endpoints, Connect(e) PROVE TypeOK'
  <2> DEFINE l == ConnectRequested(life)
  <2>1. /\ l \in Life /\ ExplicitConnectFailed(l) \in Life
        /\ ConnectStarted(l, TransportSession) \in Life
        /\ AfterClose(Previous(life)) \in Actor
    <3>1. l \in Life /\ Previous(life) \in GenOption
      BY <1>0, <1>a, ReducerTypes
    <3> HIDE DEF l
    <3>2. ExplicitConnectFailed(l) \in Life
          /\ ConnectStarted(l, TransportSession) \in Life
      BY <1>a, <3>1, ReducerTypes
    <3>3. AfterClose(Previous(life)) \in Actor
      BY <3>1, AfterCloseType
    <3> QED BY <3>1, <3>2, <3>3
  <2> HIDE DEF l
  <2>2. /\ reconnectAfter' = FALSE /\ handshakeGen' \in GenOption
        /\ stopped' \in BOOLEAN /\ UNCHANGED backoff
    BY <1>6, <1>a DEF Connect, TypeOK
  <2>3. CASE /\ life' = ConnectStarted(l, TransportSession)
             /\ actor' = AfterClose(Previous(life))
             /\ lastEndpoint' = e /\ call' = "Drain"
             /\ UNCHANGED <<helloRequested, transport, events>>
    BY <2>1, <2>2, <2>3 DEF TypeOK
  <2>4. CASE /\ OpenConnection(e)
             /\ life' = ConnectStarted(l, transport.next)
             /\ lastEndpoint' = e /\ call' = "Drain"
             /\ UNCHANGED helloRequested
    <3>1. /\ transport.next \in Generation
          /\ transport' \in Transport /\ actor' \in Actor
          /\ events' \in Seq(EventKinds)
      BY <2>4, OpenConnectionTypes
    <3>2. life' \in Life
      BY <2>1, <2>4, <3>1, ReducerTypes DEF GenOption
    <3> QED BY <2>2, <2>4, <3>1, <3>2 DEF TypeOK
  <2>5. CASE /\ life' = ExplicitConnectFailed(l)
             /\ lastEndpoint' = NoEndpoint /\ helloRequested' = FALSE
             /\ UNCHANGED <<transport, actor, events, call>>
    BY <2>1, <2>2, <2>5 DEF TypeOK
  <2> QED BY <1>6, <2>3, <2>4, <2>5 DEF Connect, l
<1>7. CASE Disconnect \/ PumpDisconnects
  <2>1. /\ UserDisconnect(HasSessionResources)
        /\ call' = "Drain" /\ UNCHANGED <<transport, events>>
    BY <1>7 DEF Disconnect, PumpDisconnects
  <2>2. HasSessionResources \in BOOLEAN
    BY DEF HasSessionResources
  <2> QED BY <2>1, <2>2, UserDisconnectTypes DEF TypeOK
<1>8. ASSUME NEW b \in BOOLEAN, SetAutoReconnect(b) PROVE TypeOK'
  <2>1. ReconnectPolicyChanged(life, b) \in Life
    BY <1>0, <1>a, ReducerTypes
  <2> QED BY <1>8, <2>1 DEF SetAutoReconnect, TypeOK, history
<1>9. CASE SendClientHello
  <2>1. life' \in Life
    BY <1>0, <1>9 DEF SendClientHello, Life
  <2>2. handshakeGen' \in GenOption
        /\ call' \in {"Free", "Drain", "PumpDrain", "PumpTimer"}
    BY <1>0, <1>9 DEF SendClientHello, TypeOK
  <2> QED BY <1>9, <2>1, <2>2 DEF SendClientHello, TypeOK, history
<1>10. CASE PumpReconnects
  <2> DEFINE l == ReconnectDeadlineElapsed(life)
  <2>1. /\ ConnectStarted(l, TransportSession) \in Life
        /\ ReconnectConnectFailed(l) \in Life /\ l \in Life
    <3>1. l \in Life
      BY <1>0, <1>a, ReducerTypes
    <3> HIDE DEF l
    <3> QED BY <1>a, <3>1, ReducerTypes
  <2> HIDE DEF l
  <2>2. UNCHANGED <<lastEndpoint, helloRequested, handshakeGen, history>>
        /\ call' \in {"Drain", "Free"}
    BY <1>10 DEF PumpReconnects
  <2>3. CASE /\ reconnectAfter' = FALSE
             /\ life' \in {life, ConnectStarted(l, TransportSession)}
             /\ UNCHANGED <<backoff, transport, actor, events>>
    BY <2>1, <2>2, <2>3 DEF TypeOK, history
  <2>4. CASE /\ OpenConnection(lastEndpoint) /\ reconnectAfter' = FALSE
             /\ life' = ConnectStarted(l, transport.next)
             /\ UNCHANGED backoff
    <3>1. /\ transport.next \in Generation
          /\ transport' \in Transport /\ actor' \in Actor
          /\ events' \in Seq(EventKinds)
      BY <1>0, <2>4, OpenConnectionTypes
    <3>2. life' \in Life
      BY <2>1, <2>4, <3>1, ReducerTypes DEF GenOption
    <3> QED BY <2>2, <2>4, <3>1, <3>2 DEF TypeOK, history
  <2>5. CASE /\ ScheduleReconnect(ReconnectConnectFailed(l))
             /\ UNCHANGED <<transport, actor, events>>
    BY <2>1, <2>2, <2>5, ScheduleReconnectTypes DEF TypeOK, history
  <2>6. CASE /\ life' = ReconnectConnectFailed(l)
             /\ reconnectAfter' = FALSE /\ UNCHANGED backoff
             /\ UNCHANGED <<transport, actor, events>>
    BY <2>1, <2>2, <2>6 DEF TypeOK, history
  <2> QED BY <1>10, <2>3, <2>4, <2>5, <2>6 DEF PumpReconnects, l
<1>11. CASE UNCHANGED vars
  BY <1>11 DEF vars, session, history, TypeOK
<1> QED
  BY <1>1, <1>2, <1>3, <1>4, <1>5, <1>6, <1>7, <1>8, <1>9, <1>10, <1>11
     DEF Next, UserCall, Poll, Pump

-----------------------------------------------------------------------------
(* What the steps of the session do to the connection: they only ask the    *)
(* task to close, take one event off the queue, or open a fresh connection. *)
SameActor == /\ actor'.session = actor.session
             /\ actor'.endpoint = actor.endpoint
             /\ actor'.phase = actor.phase
             /\ actor.closing => actor'.closing

LEMMA AfterCloseActor ==
    ASSUME TypeOK, NEW g, actor' = AfterClose(g)
    PROVE  SameActor
  BY DEF TypeOK, Actor, AfterClose, SameActor

LEMMA UserDisconnectActor ==
    ASSUME TypeOK, NEW b \in BOOLEAN, UserDisconnect(b)
    PROVE  SameActor
<1>1. CASE actor' = AfterClose(Previous(life))
  BY <1>1, AfterCloseActor
<1>2. CASE UNCHANGED actor
  BY <1>2 DEF SameActor
<1> QED BY <1>1, <1>2 DEF UserDisconnect

LEMMA SessionSteps ==
    ASSUME TypeOK, [Next]_vars, ~Worker
    PROVE  \/ /\ UNCHANGED <<transport, events>> /\ SameActor
           \/ \E e \in Endpoints \cup {NoEndpoint}: OpenConnection(e)
           \/ PollConnected /\ SameActor
           \/ /\ PollControl /\ SameActor /\ UNCHANGED transport
              /\ events # <<>> /\ events' = Tail(events)
           \/ PollDisconnected /\ SameActor
<1>1. CASE UNCHANGED <<transport, events>> /\ UNCHANGED actor
  BY <1>1 DEF SameActor
<1>2. ASSUME NEW e \in Endpoints, Connect(e)
      PROVE  (UNCHANGED <<transport, events>> /\ SameActor) \/ OpenConnection(e)
  <2>1. CASE actor' = AfterClose(Previous(life)) /\ UNCHANGED <<transport, events>>
    BY <2>1, AfterCloseActor
  <2> QED BY <1>2, <2>1 DEF Connect, SameActor
<1>3. CASE Disconnect \/ PumpDisconnects
  <2>1. UserDisconnect(HasSessionResources) /\ HasSessionResources \in BOOLEAN
        /\ UNCHANGED <<transport, events>>
    BY <1>3 DEF Disconnect, PumpDisconnects, HasSessionResources
  <2> QED BY <2>1, UserDisconnectActor
<1>4. CASE PollConnected
  <2>1. actor' \in {actor, [actor EXCEPT !.closing = TRUE]}
    BY <1>4 DEF PollConnected
  <2> QED BY <1>4, <2>1 DEF SameActor, TypeOK, Actor
<1>5. CASE PollControl
  <2>1. /\ events' = Tail(events) /\ events # <<>> /\ UNCHANGED transport
    BY <1>5 DEF PollControl, Draining
  <2>2. SameActor
    <3>1. CASE UNCHANGED actor
      BY <3>1 DEF SameActor
    <3>2. CASE UserDisconnect(TRUE)
      BY <3>2, UserDisconnectActor
    <3>3. CASE RejectAuthentication
      BY <3>3, AfterCloseActor DEF RejectAuthentication
    <3> QED BY <1>5, <3>1, <3>2, <3>3 DEF PollControl
  <2> QED BY <1>5, <2>1, <2>2
<1>6. CASE PollDisconnected
  BY <1>6 DEF PollDisconnected, SameActor
<1>7. CASE PumpReconnects
  <2>1. lastEndpoint \in Endpoints \cup {NoEndpoint}
    BY DEF TypeOK
  <2> QED BY <1>7, <2>1, <1>1 DEF PumpReconnects
<1> QED
  BY <1>1, <1>2, <1>3, <1>4, <1>5, <1>6, <1>7
     DEF Next, UserCall, Poll, Pump, DrainEnds, SetAutoReconnect, SendClientHello,
         PumpStarts, PumpEnds, vars

LEMMA QueueFacts ==
    ASSUME NEW q \in Seq(EventKinds)
    PROVE  /\ Len(q) \in Nat
           /\ \A kind \in EventKinds:
                 /\ Len(Append(q, kind)) = Len(q) + 1
                 /\ Append(q, kind) # <<>>
                 /\ \A i \in 1..(Len(q) + 1):
                       Append(q, kind)[i] = IF i = Len(q) + 1 THEN kind ELSE q[i]
           /\ q = <<>> => Len(q) = 0
           /\ q # <<>> =>
                 /\ Len(q) > 0 /\ Head(q) = q[1]
                 /\ Len(Tail(q)) = Len(q) - 1
                 /\ \A i \in 1..(Len(q) - 1): Tail(q)[i] = q[i + 1]
                 /\ Len(q) > 1 => Tail(q) # <<>>
                 /\ Len(q) = 1 => Tail(q) = <<>>
<1>1. Len(q) \in Nat /\ (q = <<>> => Len(q) = 0)
  OBVIOUS
<1>2. ASSUME NEW kind \in EventKinds
      PROVE  /\ Len(Append(q, kind)) = Len(q) + 1
             /\ Append(q, kind) # <<>>
             /\ \A i \in 1..(Len(q) + 1):
                   Append(q, kind)[i] = IF i = Len(q) + 1 THEN kind ELSE q[i]
  BY <1>1, AppendProperties
<1>3. ASSUME q # <<>>
      PROVE  /\ Len(q) > 0 /\ Head(q) = q[1]
             /\ Len(Tail(q)) = Len(q) - 1
             /\ \A i \in 1..(Len(q) - 1): Tail(q)[i] = q[i + 1]
             /\ Tail(q) \in Seq(EventKinds)
  BY <1>1, <1>3, HeadTailProperties, EmptySeq
<1>4. ASSUME q # <<>>
      PROVE  /\ Len(q) > 1 => Tail(q) # <<>>
             /\ Len(q) = 1 => Tail(q) = <<>>
  <2>1. Tail(q) = <<>> <=> Len(Tail(q)) = 0
    BY <1>3, <1>4, EmptySeq
  <2>2. Len(Tail(q)) = Len(q) - 1
    BY <1>3, <1>4
  <2>3. CASE Len(q) > 1
    BY <1>1, <2>1, <2>2, <2>3
  <2>4. CASE Len(q) = 1
    BY <1>1, <2>1, <2>2, <2>4
  <2> QED BY <2>3, <2>4
<1> QED BY <1>1, <1>2, <1>3, <1>4

(* The connection keeps its shape: what the worker appends and what a poll  *)
(* takes off leave Connected first and Disconnected last.                   *)
LEMMA TransportStep ==
    ASSUME TypeOK, TransportShape, QueueShape, [Next]_vars
    PROVE  TransportShape' /\ QueueShape'
<1>0. events \in Seq(EventKinds) /\ actor \in Actor /\ transport \in Transport
  BY DEF TypeOK
<1>q. /\ Len(events) \in Nat
      /\ events = <<>> => Len(events) = 0
      /\ events # <<>> =>
            /\ Len(events) > 0 /\ Head(events) = events[1]
            /\ Len(Tail(events)) = Len(events) - 1
            /\ \A i \in 1..(Len(events) - 1): Tail(events)[i] = events[i + 1]
            /\ Len(events) > 1 => Tail(events) # <<>>
            /\ Len(events) = 1 => Tail(events) = <<>>
  BY <1>0, QueueFacts
<1>1. CASE Worker
  <2>1. PICK kind \in EventKinds: events' = Append(events, kind)
    BY <1>1 DEF Worker, HandshakeSucceeds, HandshakeFails, WorkerCloses,
          ConnectionLost, PeerSends, EventKinds
  <2>2. /\ Len(events') = Len(events) + 1 /\ events' # <<>>
        /\ \A i \in 1..Len(events'):
              events'[i] = IF i = Len(events) + 1 THEN kind ELSE events[i]
    BY <1>0, <2>1, QueueFacts
  <2>3. /\ actor.phase # "Ended" /\ actor'.session = actor.session
        /\ actor'.phase # "Handshaking" /\ UNCHANGED transport
    BY <1>0, <1>1 DEF Worker, HandshakeSucceeds, HandshakeFails, WorkerCloses,
          ConnectionLost, PeerSends, Actor
  <2>4. /\ kind = "Disconnected" <=> actor'.phase = "Ended"
        /\ kind = "Connected" => actor.phase = "Handshaking"
    <3>1. kind = events'[Len(events) + 1]
      BY <1>q, <2>2
    <3>2. \A k \in EventKinds: events' = Append(events, k) => k = kind
      BY <1>0, <1>q, <3>1, QueueFacts
    <3> QED BY <1>0, <1>1, <3>2 DEF Worker, HandshakeSucceeds, HandshakeFails,
          WorkerCloses, ConnectionLost, PeerSends, Actor, EventKinds, ControlKinds
  <2>5. TransportShape'
    BY <2>2, <2>3 DEF TransportShape, TransportSession
  <2>6. QueueShape'
    BY <1>q, <2>2, <2>3, <2>4 DEF TransportShape, QueueShape, TransportSession
  <2> QED BY <2>5, <2>6
<1>2. CASE UNCHANGED <<transport, events>> /\ SameActor
  BY <1>2 DEF SameActor, TransportShape, QueueShape, TransportSession
<1>3. ASSUME NEW e \in Endpoints \cup {NoEndpoint}, OpenConnection(e)
      PROVE  TransportShape' /\ QueueShape'
  <2>1. /\ transport'.active = transport.active
        /\ transport'.pending = transport.next /\ transport.next # NoGen
        /\ actor'.session = transport.next /\ actor'.phase = "Handshaking"
        /\ events' = <<>> /\ TransportSession = NoGen
    BY <1>0, <1>3, BoundAssumption DEF OpenConnection, Transport, NoGen
  <2>2. transport.active = NoGen
    BY <2>1 DEF TransportSession
  <2>3. Len(events') = 0
    BY <2>1
  <2> QED BY <2>1, <2>2, <2>3
          DEF TransportShape, QueueShape, TransportSession
<1>4. CASE PollConnected /\ SameActor
  <2>1. /\ events # <<>> /\ events[1] = "Connected" /\ events' = Tail(events)
        /\ transport'.active = actor.session /\ transport'.pending = NoGen
    BY <1>0, <1>4, <1>q DEF PollConnected, Draining, Transport
  <2>2. actor.session # NoGen /\ actor.phase # "Handshaking"
    BY <1>q, <2>1 DEF TransportShape, QueueShape, TransportSession
  <2>3. TransportShape'
    BY <1>4, <2>1, <2>2 DEF SameActor, TransportShape, TransportSession
  <2>4. actor.phase = "Ended" => Len(events) > 1
    BY <1>q, <2>1, <2>2 DEF TransportShape, QueueShape, TransportSession
  <2>5. QueueShape'
    BY <1>4, <1>q, <2>1, <2>2, <2>4
       DEF SameActor, TransportShape, QueueShape, TransportSession
  <2> QED BY <2>3, <2>5
<1>5. CASE /\ PollControl /\ SameActor /\ UNCHANGED transport
           /\ events # <<>> /\ events' = Tail(events)
  <2>1. events[1] \notin {"Connected", "Disconnected"}
    BY <1>q, <1>5 DEF PollControl, ControlKinds
  <2>2. TransportShape'
    BY <1>5 DEF SameActor, TransportShape, TransportSession
  <2>3. actor.phase = "Ended" /\ TransportSession # NoGen => Len(events) > 1
    BY <1>q, <1>5, <2>1 DEF QueueShape
  <2>4. QueueShape'
    BY <1>q, <1>5, <2>1, <2>3 DEF SameActor, QueueShape, TransportSession
  <2> QED BY <2>2, <2>4
<1>6. CASE PollDisconnected /\ SameActor
  <2>1. events # <<>> /\ events[1] = "Disconnected" /\ events' = Tail(events)
    BY <1>6, <1>q DEF PollDisconnected, Draining
  <2>2. Len(events) = 1 /\ actor.phase = "Ended"
    <3>1. 1 \in 1..Len(events)
      BY <1>q, <2>1
    <3> QED BY <2>1, <3>1 DEF QueueShape
  <2>3. events' = <<>> /\ Len(events') = 0
    BY <1>q, <2>1, <2>2
  <2>4. transport'.active = NoGen /\ transport'.pending = NoGen
    BY <1>0, <1>6 DEF PollDisconnected, TransportShape, Transport
  <2> QED BY <1>6, <2>2, <2>3, <2>4
          DEF SameActor, TransportShape, QueueShape, TransportSession
<1> QED BY <1>1, <1>2, <1>3, <1>4, <1>5, <1>6, SessionSteps

-----------------------------------------------------------------------------
(* The fields of what the reducer returns, as far as the invariant reads    *)
(* them.                                                                    *)
LEMMA ReducerFields ==
    ASSUME NEW l \in Life, NEW g \in GenOption, NEW b \in BOOLEAN
    PROVE  /\ LET n == TransportConnected(l, g) IN
                /\ n.connection = "Connected" /\ n.stream = "Idle"
                /\ n.active = g /\ n.pending = NoGen /\ ~n.reconnectPending
           /\ LET n == TransportDisconnected(l) IN
                /\ n.connection = "Idle" /\ n.stream = "Idle"
                /\ n.active = NoGen /\ n.pending = NoGen
                /\ n.reconnectEnabled = l.reconnectEnabled
                /\ n.reconnectPending = l.reconnectPending
           /\ LET n == Stopped(l) IN
                /\ n.connection = "Idle" /\ n.stream = "Idle"
                /\ n.active = NoGen /\ n.pending = NoGen
                /\ ~n.reconnectEnabled /\ ~n.reconnectPending
           /\ LET n == ReconnectPolicyChanged(l, b) IN
                /\ n.active = l.active /\ n.pending = l.pending
                /\ n.reconnectEnabled = b
                /\ IF ~b /\ l.reconnectPending
                   THEN /\ n.connection = "Idle" /\ n.stream = "Idle"
                        /\ ~n.reconnectPending
                   ELSE /\ n.connection = l.connection /\ n.stream = l.stream
                        /\ n.reconnectPending = l.reconnectPending
           /\ LET n == ReconnectArmed(l) IN
                l.reconnectEnabled /\ l.active = NoGen =>
                /\ n.connection = "Reconnecting" /\ n.stream = "Idle"
                /\ n.active = l.active /\ n.pending = l.pending
                /\ n.reconnectEnabled /\ n.reconnectPending
<1> USE DEF Life, ResetSession
<1>1. LET n == TransportConnected(l, g) IN
        /\ n.connection = "Connected" /\ n.stream = "Idle"
        /\ n.active = g /\ n.pending = NoGen /\ ~n.reconnectPending
  BY DEF TransportConnected
<1>2. LET n == TransportDisconnected(l) IN
        /\ n.connection = "Idle" /\ n.stream = "Idle"
        /\ n.active = NoGen /\ n.pending = NoGen
        /\ n.reconnectEnabled = l.reconnectEnabled
        /\ n.reconnectPending = l.reconnectPending
  BY DEF TransportDisconnected
<1>3. LET n == Stopped(l) IN
        /\ n.connection = "Idle" /\ n.stream = "Idle"
        /\ n.active = NoGen /\ n.pending = NoGen
        /\ ~n.reconnectEnabled /\ ~n.reconnectPending
  BY DEF Stopped, TransportDisconnected
<1>4. LET n == ReconnectPolicyChanged(l, b) IN
        /\ n.active = l.active /\ n.pending = l.pending
        /\ n.reconnectEnabled = b
        /\ IF ~b /\ l.reconnectPending
           THEN /\ n.connection = "Idle" /\ n.stream = "Idle"
                /\ ~n.reconnectPending
           ELSE /\ n.connection = l.connection /\ n.stream = l.stream
                /\ n.reconnectPending = l.reconnectPending
  BY DEF ReconnectPolicyChanged
<1>5. LET n == ReconnectArmed(l) IN
        l.reconnectEnabled /\ l.active = NoGen =>
        /\ n.connection = "Reconnecting" /\ n.stream = "Idle"
        /\ n.active = l.active /\ n.pending = l.pending
        /\ n.reconnectEnabled /\ n.reconnectPending
  BY DEF ReconnectArmed
<1> QED BY <1>1, <1>2, <1>3, <1>4, <1>5

(* The two dialling transitions: a started dial leaves the session          *)
(* Connecting on g alone, a refused one leaves it Idle.                     *)
LEMMA DialFields ==
    ASSUME NEW l \in Life, NEW g \in GenOption,
           l.active = NoGen \/ l.pending = NoGen
    PROVE  /\ LET n == ConnectStarted(ConnectRequested(l), g) IN
                /\ n.connection = "Connecting" /\ n.stream = "Idle"
                /\ n.active = NoGen /\ n.pending = g
                /\ n.reconnectEnabled /\ ~n.reconnectPending
           /\ LET n == ExplicitConnectFailed(ConnectRequested(l)) IN
                /\ n.connection = "Idle" /\ n.stream = "Idle"
                /\ n.active = NoGen /\ n.pending = NoGen /\ ~n.reconnectPending
           /\ l.active = NoGen =>
                LET d == ReconnectDeadlineElapsed(l)
                    n == ConnectStarted(d, g)
                    f == ReconnectConnectFailed(d) IN
                /\ n.connection = "Connecting" /\ n.stream = "Idle"
                /\ n.active = NoGen /\ n.pending = g /\ ~n.reconnectPending
                /\ f.connection = "Idle" /\ f.stream = "Idle"
                /\ f.active = NoGen /\ f.pending = NoGen /\ ~f.reconnectPending
                /\ f.reconnectEnabled = l.reconnectEnabled
<1> USE DEF Life, ResetSession
<1>1. LET n == ConnectStarted(ConnectRequested(l), g) IN
        /\ n.connection = "Connecting" /\ n.stream = "Idle"
        /\ n.active = NoGen /\ n.pending = g
        /\ n.reconnectEnabled /\ ~n.reconnectPending
  BY DEF ConnectStarted, ConnectRequested
<1>2. LET n == ExplicitConnectFailed(ConnectRequested(l)) IN
        /\ n.connection = "Idle" /\ n.stream = "Idle"
        /\ n.active = NoGen /\ n.pending = NoGen /\ ~n.reconnectPending
  BY DEF ExplicitConnectFailed, ConnectRequested
<1>3. l.active = NoGen =>
        LET n == ConnectStarted(ReconnectDeadlineElapsed(l), g) IN
        /\ n.connection = "Connecting" /\ n.stream = "Idle"
        /\ n.active = NoGen /\ n.pending = g /\ ~n.reconnectPending
  BY DEF ConnectStarted, ReconnectDeadlineElapsed
<1>4. l.active = NoGen =>
        LET f == ReconnectConnectFailed(ReconnectDeadlineElapsed(l)) IN
        /\ f.connection = "Idle" /\ f.stream = "Idle"
        /\ f.active = NoGen /\ f.pending = NoGen /\ ~f.reconnectPending
        /\ f.reconnectEnabled = l.reconnectEnabled
  BY DEF ReconnectConnectFailed, ReconnectDeadlineElapsed
<1> QED BY <1>1, <1>2, <1>3, <1>4

-----------------------------------------------------------------------------
(* Every step keeps the invariant.                                          *)
SessionInv ==
    /\ ReducerShape
    /\ TimerMeansReconnecting
    /\ OwnedShape
    /\ NoLeakedConnection
    /\ SupersededConnectionCloses
    /\ HandshakeBelongsToConnection
    /\ StopIsFinal

LEMMA IInvParts == IInv <=> TypeOK /\ TransportShape /\ QueueShape /\ SessionInv
  BY DEF IInv, SessionInv

(* The worker does not touch the session; it may only end its connection.   *)
LEMMA WorkerStep ==
    ASSUME IInv, Worker
    PROVE  SessionInv'
<1>1. /\ UNCHANGED <<session, transport, history>>
      /\ actor'.session = actor.session /\ actor'.endpoint = actor.endpoint
      /\ actor'.closing = actor.closing
      /\ actor.phase # "Ended" /\ actor'.phase \in {"Running", "Ended"}
      /\ UNCHANGED actor \/ actor'.phase = "Ended" \/ actor.phase = "Handshaking"
  BY DEF IInv, TypeOK, Actor, Worker, HandshakeSucceeds, HandshakeFails,
         WorkerCloses, ConnectionLost, PeerSends
<1>2. UNCHANGED <<life, lastEndpoint, reconnectAfter, handshakeGen, stopped>>
  BY <1>1 DEF session, history
<1>3. ReducerShape' /\ HandshakeBelongsToConnection' /\ StopIsFinal'
  BY <1>1, <1>2 DEF IInv, ReducerShape, HandshakeBelongsToConnection, StopIsFinal
<1>4. TimerMeansReconnecting'
  BY <1>1, <1>2 DEF IInv, TimerMeansReconnecting, TransportSession
<1>5. OwnedShape'
  BY <1>1, <1>2 DEF IInv, OwnedShape, Owns
<1>6. NoLeakedConnection' /\ SupersededConnectionCloses'
  BY <1>1, <1>2 DEF IInv, NoLeakedConnection, SupersededConnectionCloses, Owns
<1> QED BY <1>3, <1>4, <1>5, <1>6 DEF SessionInv

(* Steps that leave the reducer Idle, owning nothing, and ask the task of   *)
(* what it owned to close.                                                  *)
LEMMA StopStep ==
    ASSUME IInv, SameActor, UNCHANGED transport,
           life' = Stopped(life), handshakeGen' = NoGen, reconnectAfter' = FALSE,
           Owns(life, actor.session) => actor'.closing
    PROVE  SessionInv'
<1>1. life \in Life
  BY DEF IInv, TypeOK
<1>2. /\ life'.connection = "Idle" /\ life'.stream = "Idle"
      /\ life'.active = NoGen /\ life'.pending = NoGen
      /\ ~life'.reconnectPending
  BY <1>1, ReducerFields DEF GenOption
<1>3. ReducerShape' /\ HandshakeBelongsToConnection' /\ StopIsFinal'
  BY <1>2 DEF ReducerShape, HandshakeBelongsToConnection, StopIsFinal
<1>4. TimerMeansReconnecting'
  <2>1. life' \in Life
    BY <1>1, ReducerTypes DEF GenOption
  <2>2. life'.reconnectPending = FALSE
    BY <1>2, <2>1 DEF Life
  <2> QED BY <1>2, <2>2 DEF TimerMeansReconnecting
<1>5. OwnedShape' /\ SupersededConnectionCloses'
  BY <1>2 DEF OwnedShape, SupersededConnectionCloses, Owns
<1>6. NoLeakedConnection'
  BY <1>2 DEF IInv, NoLeakedConnection, SameActor
<1> QED BY <1>3, <1>4, <1>5, <1>6 DEF SessionInv

(* Closing what the reducer owns reaches the task.                          *)
LEMMA CloseReaches ==
    ASSUME IInv, NEW g \in {life.active, Previous(life)},
           Owns(life, actor.session) => g = actor.session
    PROVE  Owns(life, actor.session) => AfterClose(g).closing
<1> SUFFICES ASSUME Owns(life, actor.session) PROVE AfterClose(g).closing
  OBVIOUS
<1>1. actor.session \in Generation /\ g = actor.session /\ g # NoGen
  BY DEF IInv, TypeOK, Actor, GenOption, Owns
<1>2. g \in {transport.active, transport.pending}
  BY <1>1 DEF IInv, OwnedShape
<1> QED BY <1>1, <1>2 DEF AfterClose, IInv, TypeOK, Actor

(* Only one of the two slots is taken, so Previous is what is owned.        *)
LEMMA PreviousIsOwned ==
    ASSUME IInv
    PROVE  /\ life.active = NoGen \/ life.pending = NoGen
           /\ Owns(life, actor.session) => Previous(life) = actor.session
           /\ \A g \in Generation: Owns(life, g) => g = actor.session
<1>1. life.active = NoGen \/ life.pending = NoGen
  BY DEF IInv, ReducerShape
<1>2. \A g \in Generation: Owns(life, g) => g = actor.session
  BY DEF IInv, OwnedShape, TransportShape, NoGen, Generation
<1>3. Owns(life, actor.session) => Previous(life) = actor.session
  BY <1>1 DEF Owns, Previous
<1> QED BY <1>1, <1>2, <1>3

LEMMA UserDisconnectStep ==
    ASSUME IInv, NEW b \in BOOLEAN, UserDisconnect(b), UNCHANGED transport
    PROVE  SessionInv'
<1>0. TypeOK
  BY DEF IInv
<1>1. SameActor
  BY <1>0, UserDisconnectActor
<1>2. CASE /\ life' = Stopped(life) /\ handshakeGen' = NoGen
           /\ actor' = AfterClose(Previous(life)) /\ reconnectAfter' = FALSE
  <2>1. Owns(life, actor.session) => actor'.closing
    BY <1>2, PreviousIsOwned, CloseReaches
  <2> QED BY <1>1, <1>2, <2>1, StopStep
<1>3. CASE UNCHANGED <<session, actor, history>>
  <2>1. UNCHANGED <<life, lastEndpoint, reconnectAfter, handshakeGen, stopped>>
    BY <1>3 DEF session, history
  <2> QED BY <1>3, <2>1 DEF IInv, SessionInv, ReducerShape, OwnedShape, Owns,
        HandshakeBelongsToConnection, StopIsFinal, TimerMeansReconnecting,
        TransportSession, NoLeakedConnection, SupersededConnectionCloses
<1> QED BY <1>2, <1>3 DEF UserDisconnect

(* Steps that leave ownership, timer and connection alone: only the stream  *)
(* state and the handshake it belongs to may change.                        *)
LEMMA QuietStep ==
    ASSUME IInv, UNCHANGED <<transport, actor, lastEndpoint, reconnectAfter,
                             stopped>>,
           life'.connection = life.connection,
           life'.active = life.active, life'.pending = life.pending,
           life'.reconnectEnabled = life.reconnectEnabled,
           life'.reconnectPending = life.reconnectPending,
           \/ life'.stream = life.stream /\ handshakeGen' = handshakeGen
           \/ handshakeGen' = life.active /\ life.active # NoGen
    PROVE  SessionInv'
<1>1. ReducerShape' /\ StopIsFinal' /\ HandshakeBelongsToConnection'
  BY DEF IInv, ReducerShape, StopIsFinal, HandshakeBelongsToConnection
<1>2. TimerMeansReconnecting'
  BY DEF IInv, TimerMeansReconnecting, TransportSession
<1>3. OwnedShape' /\ NoLeakedConnection' /\ SupersededConnectionCloses'
  BY DEF IInv, OwnedShape, NoLeakedConnection, SupersededConnectionCloses, Owns
<1> QED BY <1>1, <1>2, <1>3 DEF SessionInv

LEMMA PollControlStep ==
    ASSUME IInv, PollControl
    PROVE  SessionInv'
<1>0. life \in Life /\ UNCHANGED transport
  BY DEF IInv, TypeOK, PollControl
<1>1. CASE UNCHANGED <<session, actor, history>>
  BY <1>0, <1>1, QuietStep DEF session, history
<1>2. CASE UserDisconnect(TRUE)
  BY <1>0, <1>2, UserDisconnectStep
<1>3. CASE RejectAuthentication /\ life.active = actor.session
  <2>1. Owns(life, actor.session) => AfterClose(life.active).closing
    BY <1>3, CloseReaches
  <2>2. SameActor
    BY <1>3, AfterCloseActor DEF IInv, RejectAuthentication
  <2> QED BY <1>0, <1>3, <2>1, <2>2, StopStep DEF RejectAuthentication
<1>4. CASE /\ life.stream = "Negotiating"
           /\ life' = [life EXCEPT !.stream = "Streaming"]
           /\ UNCHANGED <<lastEndpoint, helloRequested, reconnectAfter,
                          backoff, handshakeGen, actor, history>>
  <2>1. handshakeGen' = life.active /\ life.active # NoGen
    BY <1>4 DEF IInv, HandshakeBelongsToConnection
  <2> QED BY <1>0, <1>4, <2>1, QuietStep DEF Life, history
<1> QED BY <1>1, <1>2, <1>3, <1>4 DEF PollControl

(* An accepted Connected event is that of the pending generation.           *)
LEMMA PollConnectedStep ==
    ASSUME IInv, PollConnected, SameActor, TransportShape', QueueShape'
    PROVE  SessionInv'
<1> DEFINE l == TransportConnected(life, actor.session)
<1>0. /\ life \in Life /\ actor \in Actor /\ transport \in Transport
      /\ actor.session \in GenOption
  BY DEF IInv, TypeOK, Actor
<1>1. /\ transport'.active = actor.session /\ transport'.pending = NoGen
      /\ transport.pending = actor.session /\ actor.session # NoGen
      /\ transport.active = NoGen
      /\ UNCHANGED <<lastEndpoint, helloRequested>>
  <2>1. events # <<>> /\ events \in Seq(EventKinds) /\ Head(events) = "Connected"
    BY DEF PollConnected, Draining, IInv, TypeOK
  <2>2. Head(events) = events[1] /\ 1 \in 1..Len(events)
    BY <2>1, QueueFacts
  <2> QED BY <1>0, <2>1, <2>2 DEF IInv, TransportShape, QueueShape, Transport,
         TransportSession, PollConnected, session
<1>2. CASE ~AcceptsConnected(life, actor.session)
  <2>1. UNCHANGED <<session, actor, stopped>>
    BY <1>2 DEF PollConnected
  <2>2. ~Owns(life, actor.session) /\ \A g \in Generation: ~Owns(life, g)
    <3>1. \A g \in Generation: Owns(life, g) => g = actor.session
      BY PreviousIsOwned
    <3>2. life.pending # actor.session
      BY <1>1, <1>2 DEF IInv, AcceptsConnected, ReducerShape
    <3>3. life.active # actor.session
      BY <1>0, <1>1 DEF IInv, Owns, OwnedShape, GenOption
    <3> QED BY <3>1, <3>2, <3>3 DEF Owns
  <2>3. UNCHANGED <<life, reconnectAfter, handshakeGen>>
    BY <2>1 DEF session
  <2>4. ReducerShape' /\ StopIsFinal' /\ HandshakeBelongsToConnection'
    BY <2>1, <2>3 DEF IInv, ReducerShape, StopIsFinal, HandshakeBelongsToConnection
  <2>5. TimerMeansReconnecting'
    BY <1>1, <2>3 DEF IInv, TimerMeansReconnecting, TransportSession
  <2>6. OwnedShape' /\ NoLeakedConnection' /\ SupersededConnectionCloses'
    BY <2>1, <2>2, <2>3 DEF IInv, OwnedShape, NoLeakedConnection,
          SupersededConnectionCloses, Owns
  <2> QED BY <2>4, <2>5, <2>6 DEF SessionInv
<1>3. CASE AcceptsConnected(life, actor.session)
  <2>1. /\ l \in Life /\ l.connection = "Connected" /\ l.stream = "Idle"
        /\ l.active = actor.session /\ l.pending = NoGen
        /\ l.reconnectPending = FALSE
    <3>1. l \in Life
      BY <1>0, ReducerTypes
    <3>2. /\ l.connection = "Connected" /\ l.stream = "Idle"
          /\ l.active = actor.session /\ l.pending = NoGen
          /\ ~l.reconnectPending
      BY <1>0 DEF TransportConnected, ResetSession, Life
    <3> QED BY <3>1, <3>2 DEF Life
  <2>2. life.pending = actor.session /\ Owns(life, actor.session)
    BY <1>1, <1>3 DEF AcceptsConnected, Owns
  <2>3. life.active = NoGen /\ handshakeGen = NoGen /\ ~stopped
    BY <1>1, <2>2 DEF IInv, ReducerShape, HandshakeBelongsToConnection, StopIsFinal
  <2> HIDE DEF l
  <2>4. CASE /\ \/ life' = l /\ handshakeGen' = handshakeGen
                \/ /\ life' = [l EXCEPT !.stream = "Negotiating"]
                   /\ handshakeGen' = actor.session
             /\ reconnectAfter' = FALSE /\ UNCHANGED <<actor, stopped>>
    <3>1. /\ life'.connection = "Connected" /\ life'.active = actor.session
          /\ life'.pending = NoGen /\ life'.reconnectPending = FALSE
          /\ \/ life'.stream = "Idle" /\ handshakeGen' = NoGen
             \/ handshakeGen' = actor.session
      BY <2>1, <2>3, <2>4 DEF Life
    <3>2. ReducerShape' /\ StopIsFinal' /\ HandshakeBelongsToConnection'
      BY <1>1, <2>3, <2>4, <3>1
         DEF ReducerShape, StopIsFinal, HandshakeBelongsToConnection
    <3>3. TimerMeansReconnecting'
      BY <2>4, <3>1 DEF TimerMeansReconnecting
    <3>4. OwnedShape' /\ NoLeakedConnection'
      BY <1>1, <2>4, <3>1 DEF OwnedShape, NoLeakedConnection, Owns, Generation, NoGen
    <3>5. SupersededConnectionCloses'
      BY <1>0, <1>1, <2>2, <2>4, <3>1 DEF IInv, SupersededConnectionCloses, Owns,
         GenOption, Generation, NoGen
    <3> QED BY <3>2, <3>3, <3>4, <3>5 DEF SessionInv
  <2>5. CASE /\ life' = Stopped(l) /\ handshakeGen' = NoGen
             /\ reconnectAfter' = FALSE
             /\ actor' = [actor EXCEPT !.closing = TRUE]
    <3>1. Stopped(l) \in Life
      BY <2>1, ReducerTypes DEF GenOption
    <3>2. /\ life'.connection = "Idle" /\ life'.stream = "Idle"
          /\ life'.active = NoGen /\ life'.pending = NoGen
          /\ life'.reconnectPending = FALSE
      <4>1. /\ Stopped(l).connection = "Idle" /\ Stopped(l).stream = "Idle"
            /\ Stopped(l).active = NoGen /\ Stopped(l).pending = NoGen
            /\ ~Stopped(l).reconnectPending
        BY <2>1 DEF Stopped, TransportDisconnected, ResetSession, Life
      <4> QED BY <2>5, <3>1, <4>1 DEF Life
    <3>3. ReducerShape' /\ StopIsFinal' /\ HandshakeBelongsToConnection'
      BY <2>5, <3>2 DEF ReducerShape, StopIsFinal, HandshakeBelongsToConnection
    <3>4. TimerMeansReconnecting'
      BY <2>5, <3>2 DEF TimerMeansReconnecting
    <3>5. OwnedShape' /\ NoLeakedConnection' /\ SupersededConnectionCloses'
      BY <1>0, <2>5, <3>2 DEF OwnedShape, NoLeakedConnection,
         SupersededConnectionCloses, Owns, Actor
    <3> QED BY <3>3, <3>4, <3>5 DEF SessionInv
  <2> QED BY <1>3, <2>4, <2>5 DEF PollConnected, l
<1> QED BY <1>2, <1>3

(* Arming the timer from a state that is Idle, owns nothing and has a free  *)
(* transport.                                                               *)
LEMMA ScheduleStep ==
    ASSUME IInv, NEW l \in Life, SameActor, actor.phase = "Ended",
           l.connection = "Idle", l.stream = "Idle",
           l.active = NoGen, l.pending = NoGen, l.reconnectPending = FALSE,
           \/ l.reconnectEnabled /\ ScheduleReconnect(l)
              /\ (lastEndpoint = NoEndpoint => reconnectAfter = FALSE)
           \/ life' = l /\ reconnectAfter' = FALSE,
           TransportSession' = NoGen, lastEndpoint' = lastEndpoint,
           handshakeGen' = NoGen, ~stopped'
    PROVE  SessionInv'
<1> DEFINE n == ReconnectArmed(l)
<1>1. CASE life' = l /\ reconnectAfter' = FALSE
  <2>1. ReducerShape' /\ HandshakeBelongsToConnection' /\ StopIsFinal'
    BY <1>1 DEF ReducerShape, HandshakeBelongsToConnection, StopIsFinal
  <2>2. TimerMeansReconnecting'
    BY <1>1 DEF TimerMeansReconnecting
  <2>3. OwnedShape' /\ NoLeakedConnection' /\ SupersededConnectionCloses'
    BY <1>1 DEF OwnedShape, NoLeakedConnection, SupersededConnectionCloses, Owns,
          SameActor
  <2> QED BY <2>1, <2>2, <2>3 DEF SessionInv
<1>2. CASE /\ l.reconnectEnabled /\ lastEndpoint # NoEndpoint
           /\ life' = n /\ reconnectAfter' = TRUE
  <2>1. /\ n.connection = "Reconnecting" /\ n.stream = "Idle"
        /\ n.active = NoGen /\ n.pending = NoGen
        /\ n.reconnectEnabled /\ n.reconnectPending = TRUE
    BY <1>2 DEF ReconnectArmed, ResetSession, Life
  <2> HIDE DEF n
  <2>2. ReducerShape' /\ HandshakeBelongsToConnection' /\ StopIsFinal'
    BY <1>2, <2>1 DEF ReducerShape, HandshakeBelongsToConnection, StopIsFinal
  <2>3. TimerMeansReconnecting'
    BY <1>2, <2>1 DEF TimerMeansReconnecting
  <2>4. OwnedShape' /\ NoLeakedConnection' /\ SupersededConnectionCloses'
    BY <1>2, <2>1 DEF OwnedShape, NoLeakedConnection, SupersededConnectionCloses,
          Owns, SameActor
  <2> QED BY <2>2, <2>3, <2>4 DEF SessionInv
<1> QED BY <1>1, <1>2 DEF ScheduleReconnect

(* The end of the connection: nothing is owned, the transport is free.      *)
LEMMA PollDisconnectedStep ==
    ASSUME IInv, PollDisconnected, SameActor, TransportShape'
    PROVE  SessionInv'
<1>0. /\ life \in Life /\ actor \in Actor /\ transport \in Transport
      /\ reconnectAfter \in BOOLEAN
  BY DEF IInv, TypeOK
<1>1. /\ actor.phase = "Ended" /\ TransportSession # NoGen
      /\ UNCHANGED <<actor, history>>
  <2>1. /\ events # <<>> /\ events \in Seq(EventKinds)
        /\ Head(events) = "Disconnected" /\ UNCHANGED <<actor, history>>
    BY DEF PollDisconnected, Draining, IInv, TypeOK
  <2>2. Head(events) = events[1] /\ 1 \in 1..Len(events)
    BY <2>1, QueueFacts
  <2> QED BY <2>1, <2>2 DEF IInv, TransportShape, QueueShape
<1>2. transport'.active = NoGen /\ transport'.pending = NoGen
      /\ TransportSession' = NoGen
  BY <1>0 DEF IInv, PollDisconnected, TransportShape, Transport, TransportSession
<1>3. ~reconnectAfter /\ ~life.reconnectPending
  BY <1>1 DEF IInv, TimerMeansReconnecting
<1>4. CASE ~Owns(life, actor.session)
  <2>1. UNCHANGED session /\ \A g \in Generation: ~Owns(life, g)
    BY <1>4, PreviousIsOwned DEF PollDisconnected
  <2>2. UNCHANGED <<life, lastEndpoint, reconnectAfter, handshakeGen, stopped>>
    BY <1>1, <2>1 DEF session, history
  <2>3. ReducerShape' /\ StopIsFinal' /\ HandshakeBelongsToConnection'
    BY <2>2 DEF IInv, ReducerShape, StopIsFinal, HandshakeBelongsToConnection
  <2>4. TimerMeansReconnecting'
    BY <1>2, <1>3, <2>2 DEF IInv, TimerMeansReconnecting
  <2>5. OwnedShape' /\ NoLeakedConnection' /\ SupersededConnectionCloses'
    BY <1>1, <2>1, <2>2 DEF OwnedShape, NoLeakedConnection,
          SupersededConnectionCloses, Owns
  <2> QED BY <2>3, <2>4, <2>5 DEF SessionInv
<1>5. CASE Owns(life, actor.session)
  <2> DEFINE l == TransportDisconnected(life)
  <2>1. /\ l \in Life /\ l.connection = "Idle" /\ l.stream = "Idle"
        /\ l.active = NoGen /\ l.pending = NoGen
        /\ l.reconnectEnabled = life.reconnectEnabled
        /\ l.reconnectPending = FALSE
    BY <1>0, <1>3 DEF TransportDisconnected, ResetSession, Life, GenOption
  <2>2. ~stopped'
    BY <1>1, <1>5 DEF IInv, StopIsFinal, Owns, history
  <2>3. handshakeGen' = NoGen /\ lastEndpoint' = lastEndpoint
    BY <1>5 DEF PollDisconnected
  <2>4. IF life.reconnectEnabled THEN ScheduleReconnect(l)
        ELSE life' = l /\ UNCHANGED reconnectAfter
    BY <1>5 DEF PollDisconnected
  <2>5. reconnectAfter = FALSE
    BY <1>0, <1>3
  <2> HIDE DEF l
  <2> QED BY <1>1, <1>2, <2>1, <2>2, <2>3, <2>4, <2>5, ScheduleStep
<1> QED BY <1>4, <1>5

(* A dial on a free transport: the session waits on the fresh generation.   *)
LEMMA OpenStep ==
    ASSUME IInv, NEW e \in Endpoints \cup {NoEndpoint}, OpenConnection(e),
           life' \in Life, life'.connection = "Connecting",
           life'.stream = "Idle", life'.active = NoGen,
           life'.pending = transport.next, life'.reconnectPending = FALSE,
           reconnectAfter' = FALSE, handshakeGen' = NoGen,
           lastEndpoint' = e, ~stopped'
    PROVE  SessionInv'
<1>1. /\ transport'.pending = transport.next /\ transport.next # NoGen
      /\ transport'.active = NoGen
      /\ actor'.session = transport.next /\ actor'.endpoint = e
  <2>1. transport \in Transport
    BY DEF IInv, TypeOK
  <2> QED BY <2>1, BoundAssumption
          DEF OpenConnection, Transport, NoGen, TransportSession
<1>2. ReducerShape' /\ HandshakeBelongsToConnection' /\ StopIsFinal'
  BY <1>1 DEF ReducerShape, HandshakeBelongsToConnection, StopIsFinal
<1>3. TimerMeansReconnecting'
  BY DEF TimerMeansReconnecting
<1>4. OwnedShape'
  BY <1>1 DEF OwnedShape, Owns, Generation, NoGen
<1>5. NoLeakedConnection' /\ SupersededConnectionCloses'
  BY <1>1 DEF NoLeakedConnection, SupersededConnectionCloses, Owns
<1> QED BY <1>2, <1>3, <1>4, <1>5 DEF SessionInv

(* connect(): the session of the transport is taken over on its way down, a *)
(* free transport dials, and a refused dial leaves nothing.                 *)
LEMMA ConnectStep ==
    ASSUME IInv, NEW e \in Endpoints, Connect(e)
    PROVE  SessionInv'
<1> DEFINE l == ConnectRequested(life)
<1>0. /\ life \in Life /\ actor \in Actor /\ transport \in Transport
      /\ actor.session \in GenOption /\ TypeOK
  BY DEF IInv, TypeOK, Actor
<1>1. life.active = NoGen \/ life.pending = NoGen
  BY PreviousIsOwned
<1>2. handshakeGen' = NoGen /\ reconnectAfter' = FALSE
  BY <1>1 DEF Connect, IInv, HandshakeBelongsToConnection, Previous
<1>3. TransportSession \in GenOption/\ NoEndpoint # e
  BY <1>0, EndpointAssumption DEF Transport, TransportSession
<1>4. stopped' = (lastEndpoint' = NoEndpoint)
  BY DEF Connect
<1>5. CASE /\ TransportSession # NoGen
           /\ life' = ConnectStarted(l, TransportSession)
           /\ actor' = AfterClose(Previous(life))
           /\ lastEndpoint' = e /\ UNCHANGED transport
  <2>1. /\ life'.connection = "Connecting" /\ life'.stream = "Idle"
        /\ life'.active = NoGen /\ life'.pending = TransportSession
        /\ life'.reconnectPending = FALSE
    BY <1>0, <1>3, <1>5 DEF ConnectStarted, ConnectRequested, ResetSession, Life
  <2>2. SameActor
    BY <1>0, <1>5, AfterCloseActor
  <2>3. actor'.closing \/ actor'.phase = "Ended"
    <3>1. CASE Owns(life, actor.session)
      BY <1>5, <3>1, PreviousIsOwned, CloseReaches
    <3>2. CASE ~Owns(life, actor.session)
      BY <2>2, <3>2 DEF IInv, NoLeakedConnection, SameActor
    <3> QED BY <3>1, <3>2
  <2>4. ReducerShape' /\ HandshakeBelongsToConnection'
    BY <1>2, <1>5, <2>1 DEF ReducerShape, HandshakeBelongsToConnection
  <2>5. TimerMeansReconnecting' /\ StopIsFinal'
    BY <1>2, <1>3, <1>4, <1>5, <2>1 DEF TimerMeansReconnecting, StopIsFinal
  <2>6. OwnedShape'
    BY <1>5, <2>1, <2>3 DEF OwnedShape, Owns, TransportSession, Generation, NoGen
  <2>7. NoLeakedConnection' /\ SupersededConnectionCloses'
    BY <2>3 DEF NoLeakedConnection, SupersededConnectionCloses
  <2> QED BY <2>4, <2>5, <2>6, <2>7 DEF SessionInv
<1>6. CASE /\ OpenConnection(e) /\ lastEndpoint' = e
           /\ life' = ConnectStarted(l, transport.next)
  <2>1. transport.next \in GenOption
    BY <1>0, <1>6, OpenConnectionTypes DEF GenOption
  <2>2. /\ life' \in Life /\ life'.connection = "Connecting"
        /\ life'.stream = "Idle" /\ life'.active = NoGen
        /\ life'.pending = transport.next /\ life'.reconnectPending = FALSE
    <3>1. l \in Life
      BY <1>0, ReducerTypes DEF GenOption
    <3>2. life' \in Life
      BY <1>6, <2>1, <3>1, ReducerTypes
    <3> QED BY <1>0, <1>6, <2>1, <3>2
            DEF ConnectStarted, ConnectRequested, ResetSession, Life
  <2> QED BY <1>2, <1>3, <1>4, <1>6, <2>2, OpenStep
<1>7. CASE /\ TransportSession = NoGen /\ life' = ExplicitConnectFailed(l)
           /\ UNCHANGED <<transport, actor>>
  <2>1. /\ life'.connection = "Idle" /\ life'.stream = "Idle"
        /\ life'.active = NoGen /\ life'.pending = NoGen
        /\ life'.reconnectPending = FALSE
    BY <1>0, <1>7 DEF ExplicitConnectFailed, ConnectRequested, ResetSession, Life
  <2>2. ReducerShape' /\ HandshakeBelongsToConnection' /\ StopIsFinal'
    BY <1>2, <2>1 DEF ReducerShape, HandshakeBelongsToConnection, StopIsFinal
  <2>3. TimerMeansReconnecting'
    BY <1>2, <2>1 DEF TimerMeansReconnecting
  <2>4. OwnedShape' /\ NoLeakedConnection' /\ SupersededConnectionCloses'
    BY <1>7, <2>1 DEF IInv, TransportShape, OwnedShape, NoLeakedConnection,
          SupersededConnectionCloses, Owns
  <2> QED BY <2>2, <2>3, <2>4 DEF SessionInv
<1> QED BY <1>5, <1>6, <1>7 DEF Connect

(* set_auto_reconnect: disabling the policy also gives up an armed timer.   *)
LEMMA SetAutoReconnectStep ==
    ASSUME IInv, NEW b \in BOOLEAN, SetAutoReconnect(b)
    PROVE  SessionInv'
<1>0. life \in Life /\ reconnectAfter \in BOOLEAN
  BY DEF IInv, TypeOK
<1>1. /\ UNCHANGED <<lastEndpoint, handshakeGen, transport, actor, stopped>>
      /\ reconnectAfter' = (reconnectAfter /\ b)
      /\ life' = ReconnectPolicyChanged(life, b)
  BY DEF SetAutoReconnect, history
<1>2. CASE ~b /\ life.reconnectPending
  <2>1. /\ life'.connection = "Idle" /\ life'.stream = "Idle"
        /\ life'.active = life.active /\ life'.pending = life.pending
        /\ life'.reconnectPending = FALSE
    BY <1>0, <1>1, <1>2 DEF ReconnectPolicyChanged, ResetSession, Life
  <2>2. life.active = NoGen /\ life.pending = NoGen
    BY <1>2 DEF IInv, TimerMeansReconnecting, ReducerShape
  <2>3. reconnectAfter' = FALSE /\ handshakeGen' = NoGen
    BY <1>1, <1>2, <2>2 DEF IInv, HandshakeBelongsToConnection
  <2>4. ReducerShape' /\ HandshakeBelongsToConnection' /\ StopIsFinal'
    BY <2>1, <2>2, <2>3 DEF ReducerShape, HandshakeBelongsToConnection, StopIsFinal
  <2>5. TimerMeansReconnecting'
    BY <2>1, <2>3 DEF TimerMeansReconnecting
  <2>6. OwnedShape' /\ SupersededConnectionCloses'
    BY <2>1, <2>2 DEF OwnedShape, SupersededConnectionCloses, Owns
  <2>7. NoLeakedConnection'
    BY <1>1, <2>1, <2>2 DEF IInv, NoLeakedConnection, Owns
  <2> QED BY <2>4, <2>5, <2>6, <2>7 DEF SessionInv
<1>3. CASE b \/ ~life.reconnectPending
  <2>1. life' = [life EXCEPT !.reconnectEnabled = b]
    BY <1>1, <1>3 DEF ReconnectPolicyChanged
  <2>2. /\ life'.connection = life.connection /\ life'.stream = life.stream
        /\ life'.active = life.active /\ life'.pending = life.pending
        /\ life'.reconnectPending = life.reconnectPending
        /\ life'.reconnectEnabled = b
    BY <1>0, <2>1 DEF Life
  <2>3. ReducerShape' /\ HandshakeBelongsToConnection'
    BY <1>1, <2>2 DEF IInv, ReducerShape, HandshakeBelongsToConnection
  <2>4. reconnectAfter' = reconnectAfter
    BY <1>0, <1>1, <1>3 DEF IInv, TimerMeansReconnecting
  <2>5. TimerMeansReconnecting'
    BY <1>1, <1>3, <2>2, <2>4 DEF IInv, TimerMeansReconnecting, TransportSession
  <2>6. StopIsFinal'
    BY <1>1, <2>2, <2>4 DEF IInv, StopIsFinal
  <2>7. OwnedShape' /\ SupersededConnectionCloses' /\ NoLeakedConnection'
    BY <1>1, <2>2 DEF IInv, OwnedShape, SupersededConnectionCloses,
          NoLeakedConnection, Owns
  <2> QED BY <2>3, <2>5, <2>6, <2>7 DEF SessionInv
<1> QED BY <1>2, <1>3

LEMMA SendClientHelloStep ==
    ASSUME IInv, SendClientHello
    PROVE  SessionInv'
<1>1. UNCHANGED <<transport, actor, lastEndpoint, reconnectAfter, stopped>>
  BY DEF SendClientHello, history
<1>2. CASE life' = life /\ UNCHANGED handshakeGen
  BY <1>1, <1>2, QuietStep
<1>3. CASE life.active # NoGen /\ handshakeGen' = life.active
           /\ life' \in {life, [life EXCEPT !.stream = "Negotiating"]}
  <2>1. life \in Life
    BY DEF IInv, TypeOK
  <2> QED BY <1>1, <1>3, <2>1, QuietStep DEF Life
<1> QED BY <1>2, <1>3 DEF SendClientHello

(* The due reconnect timer: an armed session owns nothing and finds the     *)
(* transport free, so it dials or is armed again.                           *)
LEMMA PumpReconnectsStep ==
    ASSUME IInv, PumpReconnects
    PROVE  SessionInv'
<1> DEFINE l == ReconnectDeadlineElapsed(life)
           f == ReconnectConnectFailed(l)
<1>0. /\ life \in Life /\ actor \in Actor /\ transport \in Transport
      /\ TypeOK /\ lastEndpoint \in Endpoints \cup {NoEndpoint}
  BY DEF IInv, TypeOK
<1>1. /\ reconnectAfter /\ UNCHANGED <<lastEndpoint, handshakeGen, stopped>>
  BY DEF PumpReconnects, history
<1>2. /\ life.reconnectPending /\ life.connection = "Reconnecting"
      /\ life.reconnectEnabled /\ TransportSession = NoGen
      /\ life.active = NoGen /\ life.pending = NoGen
      /\ handshakeGen = NoGen /\ ~stopped /\ actor.phase = "Ended"
  BY <1>1 DEF IInv, TimerMeansReconnecting, ReducerShape, StopIsFinal,
        HandshakeBelongsToConnection, TransportShape
<1>3. CASE /\ OpenConnection(lastEndpoint) /\ reconnectAfter' = FALSE
           /\ life' = ConnectStarted(l, transport.next)
  <2>1. transport.next \in GenOption
    BY <1>0, <1>3, OpenConnectionTypes DEF GenOption
  <2>2. /\ life' \in Life /\ life'.connection = "Connecting"
        /\ life'.stream = "Idle" /\ life'.active = NoGen
        /\ life'.pending = transport.next /\ life'.reconnectPending = FALSE
    <3>1. l \in Life
      BY <1>0, ReducerTypes DEF GenOption
    <3>2. life' \in Life
      BY <1>3, <2>1, <3>1, ReducerTypes
    <3> QED BY <1>0, <1>2, <1>3, <2>1, <3>2
            DEF ConnectStarted, ReconnectDeadlineElapsed, ResetSession, Life
  <2> QED BY <1>0, <1>1, <1>2, <1>3, <2>2, OpenStep
<1>4. CASE ScheduleReconnect(f) /\ UNCHANGED <<transport, actor>>
  <2>1. /\ f.connection = "Idle" /\ f.stream = "Idle"
        /\ f.active = NoGen /\ f.pending = NoGen
        /\ f.reconnectPending = FALSE /\ f.reconnectEnabled
    BY <1>0, <1>2
       DEF ReconnectConnectFailed, ReconnectDeadlineElapsed, ResetSession, Life
  <2>2. f \in Life
    BY <1>0, ReducerTypes DEF GenOption
  <2>3. SameActor /\ TransportSession' = NoGen
    BY <1>2, <1>4 DEF SameActor, TransportSession
  <2>4. lastEndpoint # NoEndpoint
    BY <1>1 DEF IInv, TimerMeansReconnecting
  <2> HIDE DEF f
  <2> QED BY <1>1, <1>2, <1>4, <2>1, <2>2, <2>3, <2>4, ScheduleStep
<1> QED BY <1>1, <1>2, <1>3, <1>4 DEF PumpReconnects

LEMMA InvariantStep == IInv /\ [Next]_vars => IInv'
<1> SUFFICES ASSUME IInv, [Next]_vars PROVE IInv'
  OBVIOUS
<1>0. TypeOK /\ TransportShape /\ QueueShape
  BY DEF IInv
<1>1. TypeOK' /\ TransportShape' /\ QueueShape'
  BY <1>0, TypeStep, TransportStep
<1>2. SessionInv'
  <2>1. CASE Worker
    BY <2>1, WorkerStep
  <2>2. CASE PollConnected \/ PollDisconnected
    <3>1. SameActor
      <4>1. actor' \in {actor, [actor EXCEPT !.closing = TRUE]}
        BY <2>2 DEF PollConnected, PollDisconnected
      <4> QED BY <1>0, <4>1 DEF SameActor, TypeOK, Actor
    <3> QED BY <1>1, <2>2, <3>1, PollConnectedStep, PollDisconnectedStep
  <2>3. CASE PollControl
    BY <2>3, PollControlStep
  <2>4. CASE DrainEnds \/ PumpStarts \/ PumpEnds \/ UNCHANGED vars
    <3>1. UNCHANGED <<session, transport, actor, history>>
      BY <2>4 DEF DrainEnds, PumpStarts, PumpEnds, vars
    <3> QED BY <3>1, QuietStep DEF session, history
  <2>5. ASSUME NEW e \in Endpoints, Connect(e) PROVE SessionInv'
    BY <2>5, ConnectStep
  <2>6. CASE Disconnect \/ PumpDisconnects
    <3>1. /\ UserDisconnect(HasSessionResources) /\ UNCHANGED transport
          /\ HasSessionResources \in BOOLEAN
      BY <2>6 DEF Disconnect, PumpDisconnects, HasSessionResources
    <3> QED BY <3>1, UserDisconnectStep
  <2>7. ASSUME NEW b \in BOOLEAN, SetAutoReconnect(b) PROVE SessionInv'
    BY <2>7, SetAutoReconnectStep
  <2>8. CASE SendClientHello
    BY <2>8, SendClientHelloStep
  <2>9. CASE PumpReconnects
    BY <2>9, PumpReconnectsStep
  <2> QED BY <2>1, <2>2, <2>3, <2>4, <2>5, <2>6, <2>7, <2>8, <2>9
          DEF Next, UserCall, Poll, Pump
<1> QED BY <1>1, <1>2, IInvParts DEF IInv, SessionInv

-----------------------------------------------------------------------------
(* The results.                                                             *)

THEOREM Invariant == Spec => []IInv
<1>1. Init => IInv
  BY InitInvariant
<1>2. IInv /\ [Next]_vars => IInv'
  BY InvariantStep
<1> QED BY <1>1, <1>2, PTL DEF Spec

(* Every variable keeps its type: in particular the stage of the delay      *)
(* stays in its table and generations stay in range.                        *)
THEOREM TypeCorrect == Spec => []TypeOK
<1>1. IInv => TypeOK
  BY DEF IInv
<1> QED BY <1>1, Invariant, PTL

(* The timer of lifecycle.rs and the flag of reducer.rs agree, and an armed *)
(* timer always finds an endpoint to dial and a free transport.             *)
THEOREM TimerCorrect == Spec => []TimerMeansReconnecting
<1>1. IInv => TimerMeansReconnecting
  BY DEF IInv
<1> QED BY <1>1, Invariant, PTL

(* What the session waits for will be reported to it.                       *)
THEOREM OwnedReports == Spec => []OwnedConnectionReports
<1>1. IInv => OwnedConnectionReports
  <2> SUFFICES ASSUME IInv PROVE OwnedConnectionReports
    OBVIOUS
  <2>1. life.connection = "Connecting" => life.pending # NoGen
    BY DEF IInv, ReducerShape
  <2>2. ASSUME NEW g \in Generation, Owns(life, g)
        PROVE  /\ g \in {transport.active, transport.pending}
               /\ actor.session = g
               /\ \/ actor.phase # "Ended"
                  \/ events # <<>> /\ events[Len(events)] = "Disconnected"
               /\ g = life.pending /\ g = transport.active =>
                     actor.closing \/ actor.phase = "Ended"
    <3>1. /\ g \in {transport.active, transport.pending} /\ g # NoGen
          /\ actor.session = g
      BY <2>2, PreviousIsOwned DEF IInv, OwnedShape, Generation, NoGen
    <3>2. TransportSession # NoGen
      BY <3>1 DEF TransportSession
    <3> QED BY <2>2, <3>1, <3>2 DEF IInv, QueueShape, OwnedShape
  <2> QED BY <2>1, <2>2 DEF OwnedConnectionReports
<1> QED BY <1>1, Invariant, PTL

(* No connection outlives the session's interest in it.                     *)
THEOREM NoLeak == Spec => []NoLeakedConnection
<1>1. IInv => NoLeakedConnection
  BY DEF IInv
<1> QED BY <1>1, Invariant, PTL

(* After connect() to another receiver the old connection is going down.    *)
THEOREM SupersededCloses == Spec => []SupersededConnectionCloses
<1>1. IInv => SupersededConnectionCloses
  BY DEF IInv
<1> QED BY <1>1, Invariant, PTL

(* Nonce, pairing and stream state belong to the connected generation.      *)
THEOREM HandshakeOwned == Spec => []HandshakeBelongsToConnection
<1>1. IInv => HandshakeBelongsToConnection
  BY DEF IInv
<1> QED BY <1>1, Invariant, PTL

(* A stop stays a stop until the user connects again.                       *)
THEOREM StopFinal == Spec => []StopIsFinal
<1>1. IInv => StopIsFinal
  BY DEF IInv
<1> QED BY <1>1, Invariant, PTL

(* The delay returns to its first stage only with an accepted connection.   *)
THEOREM DelayGrows == Spec => DelayGrowsUntilConnected
<1>1. IInv /\ [Next]_vars =>
        [backoff' < backoff =>
            life'.connection # life.connection /\ PollConnected]_vars
  <2> SUFFICES ASSUME IInv, [Next]_vars, backoff' < backoff
               PROVE  life'.connection # life.connection /\ PollConnected
    OBVIOUS
  <2>0. life \in Life /\ backoff \in 0..LastStage /\ LastStage \in Nat
        /\ actor.session \in GenOption
    BY BoundAssumption DEF IInv, TypeOK, Actor
  <2>1. \A l: ScheduleReconnect(l) => ~(backoff' < backoff)
    BY <2>0 DEF ScheduleReconnect
  <2>2. backoff' # backoff
    BY <2>0
  <2>3. PollConnected
    BY <2>1, <2>2 DEF Next, UserCall, Worker, Poll, Pump, Connect, Disconnect,
          SetAutoReconnect, SendClientHello, HandshakeSucceeds, HandshakeFails,
          WorkerCloses, ConnectionLost, PeerSends, PollControl, PollDisconnected,
          DrainEnds, PumpStarts, PumpEnds, PumpDisconnects, PumpReconnects,
          UserDisconnect, RejectAuthentication, session, vars
  <2>4. AcceptsConnected(life, actor.session)
    BY <2>2, <2>3 DEF PollConnected, session
  <2> DEFINE l == TransportConnected(life, actor.session)
  <2>5. l \in Life /\ l.connection = "Connected"
    BY <2>0, ReducerTypes DEF TransportConnected, ResetSession, Life
  <2> HIDE DEF l
  <2>6. life'.connection \in {"Connected", "Idle"}
    <3>1. life' \in {l, [l EXCEPT !.stream = "Negotiating"], Stopped(l)}
      BY <2>3, <2>4 DEF PollConnected, l
    <3>2. Stopped(l).connection = "Idle"
      BY <2>5 DEF Stopped, TransportDisconnected, ResetSession, Life
    <3>3. [l EXCEPT !.stream = "Negotiating"].connection = "Connected"
      BY <2>5 DEF Life
    <3> QED BY <2>5, <3>1, <3>2, <3>3
  <2> QED BY <2>3, <2>4, <2>6 DEF AcceptsConnected
<1> QED BY <1>1, Invariant, PTL DEF Spec, DelayGrowsUntilConnected
===============================================================================
