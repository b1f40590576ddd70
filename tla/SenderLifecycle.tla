---------------------------- MODULE SenderLifecycle ----------------------------
(***************************************************************************)
(* The connection lifecycle of the phone (crates/picoo-sender): the pure   *)
(* reducer of session/reducer.rs, the effect adapter of                    *)
(* session/lifecycle.rs, the client half of the QUIC transport             *)
(* (picoo-transport sender.rs) and the client_worker task behind it        *)
(* (quinn_backend.rs).                                                     *)
(*                                                                         *)
(* Every public method of SenderSession runs under one mutex (picoo-ffi    *)
(* handles.rs), so the module keeps a variable `call`, the point the lock  *)
(* holder has reached.  The QUIC task is a second process that shares with *)
(* the session only the command it was sent and the queue of events.       *)
(***************************************************************************)
EXTENDS Naturals, Sequences

CONSTANTS
    Endpoints,      \* receivers the user can choose
    NoEndpoint,     \* Option::None for an endpoint
    MaxGen,         \* bound: connection generations the transport hands out
    MaxEvents,      \* bound: transport events waiting when the peer adds one
    LastStage       \* index of the longest reconnect delay

ASSUME EndpointAssumption == NoEndpoint \notin Endpoints
ASSUME BoundAssumption == /\ MaxGen \in Nat \ {0}
                          /\ MaxEvents \in Nat
                          /\ LastStage \in Nat

VARIABLES
    life,           \* SenderReducerState
    lastEndpoint,   \* SenderSession.last_endpoint
    helloRequested, \* SenderSession.hello_requested
    reconnectAfter, \* SenderSession.reconnect_after is Some
    backoff,        \* ReconnectBackoff: index of the next delay
    handshakeGen,   \* generation whose nonce and pairing the session holds
    transport,      \* QuicSenderTransport
    actor,          \* the client_worker task of the latest connection
    events,         \* its event queue, oldest first
    call,           \* what the holder of the session lock is doing
    stopped         \* history: stopped or rejected since the last connect

session == <<life, lastEndpoint, helloRequested, reconnectAfter, backoff,
             handshakeGen>>
history == <<stopped>>
vars == <<session, transport, actor, events, call, history>>

NoGen == 0
Generation == 1..MaxGen
GenOption == {NoGen} \cup Generation

Life == [connection: {"Idle", "Connecting", "Connected", "Reconnecting"},
         stream: {"Idle", "Negotiating", "Streaming"},
         active: GenOption, pending: GenOption,
         resourcesActive: BOOLEAN,
         reconnectEnabled: BOOLEAN, reconnectPending: BOOLEAN]

Transport == [active: GenOption, pending: GenOption, next: 1..(MaxGen + 1)]

Actor == [session: GenOption, endpoint: Endpoints \cup {NoEndpoint},
          phase: {"Handshaking", "Running", "Ended"}, closing: BOOLEAN]

ControlKinds == {"Authenticated", "StopStream", "Invalid"}
EventKinds == ControlKinds \cup {"Connected", "Disconnected"}

TypeOK ==
    /\ life \in Life
    /\ lastEndpoint \in Endpoints \cup {NoEndpoint}
    /\ helloRequested \in BOOLEAN
    /\ reconnectAfter \in BOOLEAN
    /\ backoff \in 0..LastStage
    /\ handshakeGen \in GenOption
    /\ transport \in Transport
    /\ actor \in Actor
    /\ events \in Seq(EventKinds)
    /\ call \in {"Free", "Drain", "PumpDrain", "PumpTimer"}
    /\ stopped \in BOOLEAN

-----------------------------------------------------------------------------
(* The reducer: state -> state, each with the guard of its match arm.       *)

Owns_AnyGeneration(l, g) == g # NoGen          \* mutant: no generation gate
Owns(l, g) == g # NoGen /\ g \in {l.active, l.pending}
Previous_ActiveOnly(l) == l.active             \* mutant: pending is forgotten
Previous(l) == IF l.active # NoGen THEN l.active ELSE l.pending

ResetSession(l, connection) ==
    [l EXCEPT !.connection = connection, !.stream = "Idle"]

ConnectRequested(l) ==
    [ResetSession(l, "Connecting") EXCEPT
        !.active = NoGen,
        !.pending = IF l.active # NoGen THEN l.pending ELSE NoGen,
        !.resourcesActive = TRUE,
        !.reconnectEnabled = TRUE,
        !.reconnectPending = FALSE]

ConnectStarted(l, g) ==
    IF l.connection = "Connecting" /\ l.active = NoGen
    THEN [l EXCEPT !.pending = g] ELSE l

ExplicitConnectFailed(l) ==
    IF l.connection = "Connecting" /\ l.active = NoGen
    THEN [ResetSession(l, "Idle") EXCEPT !.pending = NoGen,
             !.resourcesActive = FALSE, !.reconnectEnabled = FALSE]
    ELSE l

AcceptsConnected(l, g) == l.connection = "Connecting" /\ l.pending = g

TransportConnected(l, g) ==
    [ResetSession(l, "Connected") EXCEPT !.pending = NoGen, !.active = g,
        !.resourcesActive = TRUE, !.reconnectPending = FALSE]

TransportDisconnected(l) ==
    [ResetSession(l, "Idle") EXCEPT !.active = NoGen, !.pending = NoGen,
        !.resourcesActive = FALSE]

(* AuthenticationRejected and UserDisconnect leave the same reducer state;  *)
(* they differ in what the adapter clears.                                  *)
Stopped(l) ==
    [TransportDisconnected(l) EXCEPT !.reconnectEnabled = FALSE,
        !.reconnectPending = FALSE]

ReconnectPolicyChanged(l, enabled) ==
    IF ~enabled /\ l.reconnectPending
    THEN [ResetSession(l, "Idle") EXCEPT !.reconnectEnabled = FALSE,
             !.reconnectPending = FALSE]
    ELSE [l EXCEPT !.reconnectEnabled = enabled]

ReconnectArmed_NotPending(l) ==                \* mutant: reconnect_pending unset
    IF l.reconnectEnabled /\ l.active = NoGen
    THEN ResetSession(l, "Reconnecting") ELSE l

ReconnectArmed(l) ==
    IF l.reconnectEnabled /\ l.active = NoGen
    THEN [ResetSession(l, "Reconnecting") EXCEPT !.reconnectPending = TRUE]
    ELSE l

ReconnectDeadlineElapsed(l) ==
    [ResetSession(l, "Connecting") EXCEPT !.reconnectPending = FALSE,
        !.resourcesActive = TRUE]

ReconnectConnectFailed(l) ==
    [ResetSession(l, "Idle") EXCEPT !.resourcesActive = FALSE,
        !.pending = NoGen]

-----------------------------------------------------------------------------
(* The client transport and its worker task.                                *)

TransportSession ==
    IF transport.active # NoGen THEN transport.active ELSE transport.pending

AfterClose_Dropped(g) == actor                 \* mutant: the command is lost

(* QuicSenderTransport::close: a Close command, if the transport still has  *)
(* the session.                                                             *)
AfterClose(g) ==
    IF g # NoGen /\ g \in {transport.active, transport.pending}
    THEN [actor EXCEPT !.closing = TRUE] ELSE actor

(* QuicSenderTransport::connect on a free transport: a fresh actor with a   *)
(* fresh queue replaces the old one.                                        *)
OpenConnection(endpoint) ==
    /\ TransportSession = NoGen
    /\ transport.next <= MaxGen
    /\ transport' = [transport EXCEPT !.pending = transport.next,
                                      !.next = @ + 1]
    /\ actor' = [session |-> transport.next, endpoint |-> endpoint,
                 phase |-> "Handshaking", closing |-> FALSE]
    /\ events' = <<>>

(* Waiting commands are read only after the handshake, Close among them.    *)
HandshakeSucceeds ==
    /\ actor.phase = "Handshaking"
    /\ actor' = [actor EXCEPT !.phase = "Running"]
    /\ events' = Append(events, "Connected")
    /\ UNCHANGED <<session, transport, call, history>>

HandshakeFails ==
    /\ actor.phase = "Handshaking"
    /\ actor' = [actor EXCEPT !.phase = "Ended"]
    /\ events' = Append(events, "Disconnected")
    /\ UNCHANGED <<session, transport, call, history>>

(* The select is biased: a waiting Close command goes before the peer.      *)
WorkerCloses ==
    /\ actor.phase = "Running" /\ actor.closing
    /\ actor' = [actor EXCEPT !.phase = "Ended"]
    /\ events' = Append(events, "Disconnected")
    /\ UNCHANGED <<session, transport, call, history>>

ConnectionLost ==
    /\ actor.phase = "Running" /\ ~actor.closing
    /\ actor' = [actor EXCEPT !.phase = "Ended"]
    /\ events' = Append(events, "Disconnected")
    /\ UNCHANGED <<session, transport, call, history>>

PeerSends ==
    /\ actor.phase = "Running" /\ ~actor.closing
    /\ Len(events) < MaxEvents
    /\ \E kind \in ControlKinds: events' = Append(events, kind)
    /\ UNCHANGED <<session, transport, actor, call, history>>

-----------------------------------------------------------------------------
(* Effects of the adapter that several handlers share.                      *)

HasSessionResources ==
    \/ handshakeGen # NoGen
    \/ helloRequested
    \/ lastEndpoint # NoEndpoint
    \/ reconnectAfter

(* UserDisconnect: reset, close, clear the connection intent.               *)
UserDisconnect(domainResources) ==
    IF \/ life.resourcesActive \/ life.active # NoGen
       \/ life.reconnectPending \/ domainResources
    THEN /\ life' = Stopped(life)
         /\ handshakeGen' = NoGen
         /\ actor' = AfterClose(Previous(life))
         /\ stopped' = TRUE
         /\ reconnectAfter' = FALSE
         /\ lastEndpoint' = NoEndpoint
         /\ helloRequested' = FALSE
         /\ UNCHANGED backoff
    ELSE UNCHANGED <<session, actor, history>>

RejectAuthentication_NoClose ==                \* mutant: CloseTransport missing
    /\ life' = Stopped(life)
    /\ handshakeGen' = NoGen
    /\ reconnectAfter' = FALSE
    /\ stopped' = TRUE
    /\ UNCHANGED <<actor, lastEndpoint, helloRequested, backoff>>

(* reject_authentication with an active session: reset, close, stop the     *)
(* timer; the endpoint and the hello request survive.                       *)
RejectAuthentication ==
    /\ life' = Stopped(life)
    /\ handshakeGen' = NoGen
    /\ actor' = AfterClose(life.active)
    /\ reconnectAfter' = FALSE
    /\ stopped' = TRUE
    /\ UNCHANGED <<lastEndpoint, helloRequested, backoff>>

ScheduleReconnect_Unbounded(l) ==              \* mutant: no last stage
    IF lastEndpoint = NoEndpoint
    THEN life' = l /\ UNCHANGED <<backoff, reconnectAfter>>
    ELSE backoff' = backoff + 1 /\ reconnectAfter' = TRUE
         /\ life' = ReconnectArmed(l)

(* ScheduleReconnect from reducer state l.                                  *)
ScheduleReconnect(l) ==
    IF lastEndpoint = NoEndpoint
    THEN life' = l /\ UNCHANGED <<backoff, reconnectAfter>>
    ELSE /\ backoff' = IF backoff < LastStage THEN backoff + 1 ELSE backoff
         /\ reconnectAfter' = TRUE
         /\ life' = ReconnectArmed(l)

-----------------------------------------------------------------------------
(* drain_events: one action per polled event.                               *)

Draining == call \in {"Drain", "PumpDrain"} /\ events # <<>>

PollConnected ==
    /\ Draining /\ Head(events) = "Connected"
    /\ events' = Tail(events)
    /\ transport' = [transport EXCEPT !.pending = NoGen,
                                      !.active = actor.session]
    /\ LET l == TransportConnected(life, actor.session) IN
       \/ /\ ~AcceptsConnected(life, actor.session)
          /\ UNCHANGED <<session, actor, stopped>>
       \/ /\ AcceptsConnected(life, actor.session)
          /\ ~helloRequested
          /\ life' = l
          /\ backoff' = 0 /\ reconnectAfter' = FALSE
          /\ UNCHANGED <<lastEndpoint, helloRequested, handshakeGen, actor,
                         stopped>>
       \/ /\ AcceptsConnected(life, actor.session)
          /\ helloRequested                         \* ClientHello is sent
          /\ life' = [l EXCEPT !.stream = "Negotiating"]
          /\ handshakeGen' = actor.session
          /\ backoff' = 0 /\ reconnectAfter' = FALSE
          /\ UNCHANGED <<lastEndpoint, helloRequested, actor, stopped>>
       \/ /\ AcceptsConnected(life, actor.session)
          /\ helloRequested                         \* sending it fails
          /\ life' = Stopped(l)
          /\ handshakeGen' = NoGen
          /\ backoff' = 0 /\ reconnectAfter' = FALSE
          /\ actor' = [actor EXCEPT !.closing = TRUE]
          /\ stopped' = TRUE
          /\ UNCHANGED <<lastEndpoint, helloRequested>>
    /\ UNCHANGED call

PollControl ==
    /\ Draining /\ Head(events) \in ControlKinds
    /\ events' = Tail(events)
    /\ \/ /\ life.active # actor.session            \* stale generation
          /\ UNCHANGED <<session, actor, history>>
       \/ /\ life.active = actor.session
          /\ Head(events) = "Authenticated" /\ life.stream = "Negotiating"
          /\ life' = [life EXCEPT !.stream = "Streaming"]
          /\ UNCHANGED <<lastEndpoint, helloRequested, reconnectAfter,
                         backoff, handshakeGen, actor, history>>
       \/ /\ life.active = actor.session
          /\ Head(events) = "StopStream" /\ life.stream = "Streaming"
          /\ UserDisconnect(TRUE)
       \/ /\ life.active = actor.session
          /\ \/ Head(events) = "Invalid"
             \/ Head(events) = "Authenticated" /\ life.stream # "Negotiating"
             \/ Head(events) = "StopStream" /\ life.stream # "Streaming"
          /\ RejectAuthentication
    /\ UNCHANGED <<transport, call>>

PollDisconnected ==
    /\ Draining /\ Head(events) = "Disconnected"
    /\ events' = Tail(events)
    /\ transport' =
         [transport EXCEPT
            !.active = IF @ = actor.session THEN NoGen ELSE @,
            !.pending = IF @ = actor.session THEN NoGen ELSE @]
    /\ IF Owns(life, actor.session)
       THEN /\ handshakeGen' = NoGen
            /\ IF life.reconnectEnabled
               THEN ScheduleReconnect(TransportDisconnected(life))
               ELSE /\ life' = TransportDisconnected(life)
                    /\ UNCHANGED <<backoff, reconnectAfter>>
            /\ UNCHANGED <<lastEndpoint, helloRequested>>
       ELSE UNCHANGED session
    /\ UNCHANGED <<actor, call, history>>

DrainEnds ==
    /\ call \in {"Drain", "PumpDrain"} /\ events = <<>>
    /\ call' = IF call = "PumpDrain" THEN "PumpTimer" ELSE "Free"
    /\ UNCHANGED <<session, transport, actor, events, history>>

-----------------------------------------------------------------------------
(* The public methods.  A call that ends in drain_events leaves call at     *)
(* "Drain"; one that returns early leaves it "Free".                        *)

Connect(endpoint) ==
    /\ call = "Free"
    /\ LET l == ConnectRequested(life)
           previous == Previous(life) IN
       /\ reconnectAfter' = FALSE
       /\ handshakeGen' = IF previous # NoGen THEN NoGen ELSE handshakeGen
       /\ \/ /\ TransportSession # NoGen      \* connect returns that session
             /\ life' = ConnectStarted(l, TransportSession)
             /\ actor' = AfterClose(previous)
             /\ lastEndpoint' = endpoint
             /\ call' = "Drain"
             /\ UNCHANGED <<helloRequested, transport, events>>
          \/ /\ OpenConnection(endpoint)
             /\ life' = ConnectStarted(l, transport.next)
             /\ lastEndpoint' = endpoint
             /\ call' = "Drain"
             /\ UNCHANGED helloRequested
          \/ /\ TransportSession = NoGen      \* no socket, bad address
             /\ life' = ExplicitConnectFailed(l)
             /\ lastEndpoint' = NoEndpoint /\ helloRequested' = FALSE
             /\ UNCHANGED <<transport, actor, events, call>>
    /\ stopped' = (lastEndpoint' = NoEndpoint)
    /\ UNCHANGED backoff

Disconnect ==
    /\ call = "Free"
    /\ UserDisconnect(HasSessionResources)
    /\ call' = "Drain"
    /\ UNCHANGED <<transport, events>>

SetAutoReconnect(enabled) ==
    /\ call = "Free"
    /\ reconnectAfter' = (reconnectAfter /\ enabled)
    /\ life' = ReconnectPolicyChanged(life, enabled)
    /\ UNCHANGED <<lastEndpoint, helloRequested, backoff, handshakeGen,
                   transport, actor, events, call, history>>

SendClientHello ==
    /\ call = "Free"
    /\ \/ life.active # NoGen
       \/ life.connection \in {"Connecting", "Reconnecting"}
    /\ helloRequested' = TRUE
    /\ \/ /\ life.active = NoGen              \* sent once connected
          /\ UNCHANGED <<life, handshakeGen, call>>
       \/ /\ life.active # NoGen
          /\ handshakeGen' = life.active
          /\ life' = [life EXCEPT !.stream = "Negotiating"]
          /\ call' = "Drain"
       \/ /\ life.active # NoGen              \* the send fails: Err
          /\ handshakeGen' = life.active
          /\ UNCHANGED <<life, call>>
    /\ UNCHANGED <<lastEndpoint, reconnectAfter, backoff, transport, actor,
                   events, history>>

PumpStarts ==
    /\ call = "Free"
    /\ call' = "PumpDrain"
    /\ UNCHANGED <<session, transport, actor, events, history>>

(* pump after the first drain, nothing due.                                 *)
PumpEnds ==
    /\ call = "PumpTimer"
    /\ call' = "Free"
    /\ UNCHANGED <<session, transport, actor, events, history>>

(* expire_encoder_transaction gave up on recovering the encoder.            *)
PumpDisconnects ==
    /\ call = "PumpTimer" /\ life.stream = "Streaming"
    /\ UserDisconnect(HasSessionResources)
    /\ call' = "Drain"
    /\ UNCHANGED <<transport, events>>

(* The reconnect deadline has passed: StartReconnect.                       *)
PumpReconnects ==
    /\ call = "PumpTimer" /\ reconnectAfter
    /\ LET l == ReconnectDeadlineElapsed(life) IN
       \/ /\ ~life.reconnectPending
          /\ reconnectAfter' = FALSE /\ call' = "Drain"
          /\ UNCHANGED <<life, backoff, transport, actor, events>>
       \/ /\ life.reconnectPending /\ TransportSession # NoGen
          /\ life' = ConnectStarted(l, TransportSession)
          /\ reconnectAfter' = FALSE /\ call' = "Drain"
          /\ UNCHANGED <<backoff, transport, actor, events>>
       \/ /\ life.reconnectPending
          /\ OpenConnection(lastEndpoint)
          /\ life' = ConnectStarted(l, transport.next)
          /\ reconnectAfter' = FALSE /\ call' = "Drain"
          /\ UNCHANGED backoff
       \/ /\ life.reconnectPending /\ TransportSession = NoGen
          /\ IF life.reconnectEnabled
             THEN ScheduleReconnect(ReconnectConnectFailed(l))
             ELSE /\ life' = ReconnectConnectFailed(l)
                  /\ reconnectAfter' = FALSE /\ UNCHANGED backoff
          /\ call' = "Free"
          /\ UNCHANGED <<transport, actor, events>>
    /\ UNCHANGED <<lastEndpoint, helloRequested, handshakeGen, history>>

-----------------------------------------------------------------------------
Init ==
    /\ life = [connection |-> "Idle", stream |-> "Idle", active |-> NoGen,
               pending |-> NoGen, resourcesActive |-> FALSE,
               reconnectEnabled |-> TRUE, reconnectPending |-> FALSE]
    /\ lastEndpoint = NoEndpoint
    /\ helloRequested = FALSE /\ reconnectAfter = FALSE
    /\ backoff = 0 /\ handshakeGen = NoGen
    /\ transport = [active |-> NoGen, pending |-> NoGen, next |-> 1]
    /\ actor = [session |-> NoGen, endpoint |-> NoEndpoint,
                phase |-> "Ended", closing |-> FALSE]
    /\ events = <<>> /\ call = "Free"
    /\ stopped = FALSE

UserCall ==
    \/ \E e \in Endpoints: Connect(e)
    \/ Disconnect
    \/ \E b \in BOOLEAN: SetAutoReconnect(b)
    \/ SendClientHello

Worker == HandshakeSucceeds \/ HandshakeFails \/ WorkerCloses
          \/ ConnectionLost \/ PeerSends

Poll == PollConnected \/ PollControl \/ PollDisconnected \/ DrainEnds

Pump == PumpStarts \/ PumpEnds \/ PumpDisconnects \/ PumpReconnects

Next == UserCall \/ Worker \/ Poll \/ Pump

(* A handshake ends (QUIC idle timeout), a waiting Close is executed, a     *)
(* call runs to its end, the platform keeps pumping (event wake or its      *)
(* timer tick), time passes (an armed deadline is due at a later pump), and *)
(* opening a local UDP socket does not fail for ever.  Whether the receiver *)
(* answers is not assumed.                                                  *)
Fairness ==
    /\ WF_vars(HandshakeSucceeds \/ HandshakeFails)
    /\ WF_vars(WorkerCloses)
    /\ WF_vars(Poll)
    /\ WF_vars(PumpEnds)
    /\ SF_vars(PumpStarts)
    /\ SF_vars(PumpReconnects)
    /\ SF_vars(PumpReconnects /\ transport'.next # transport.next)

Spec == Init /\ [][Next]_vars
FairSpec == Spec /\ Fairness

-----------------------------------------------------------------------------
(* Properties.                                                              *)

(* The timer (reconnect_after) and the reducer's reconnect_pending are two  *)
(* copies of one fact, written in six handlers.  An armed timer means the   *)
(* session is Reconnecting, recovery is enabled, there is an endpoint to    *)
(* dial and the transport is free, so the attempt dials and does not attach *)
(* itself to a connection that is being closed.                             *)
TimerMeansReconnecting ==
    /\ reconnectAfter = life.reconnectPending
    /\ life.reconnectPending = (life.connection = "Reconnecting")
    /\ reconnectAfter =>
          /\ life.reconnectEnabled
          /\ lastEndpoint # NoEndpoint
          /\ TransportSession = NoGen

(* A generation the session waits on still has a task that will report its  *)
(* end, or the report is queued; a session that adopted an already          *)
(* connected transport session (connect returns the old one) will hear of   *)
(* its end, because that connection is being closed.                        *)
OwnedConnectionReports ==
    /\ life.connection = "Connecting" => life.pending # NoGen
    /\ \A g \in Generation: Owns(life, g) =>
          /\ g \in {transport.active, transport.pending}
          /\ actor.session = g
          /\ \/ actor.phase # "Ended"
             \/ events # <<>> /\ events[Len(events)] = "Disconnected"
          /\ g = life.pending /\ g = transport.active =>
                actor.closing \/ actor.phase = "Ended"

(* No connection outlives the session's interest in it: a live QUIC         *)
(* connection the reducer does not own is being closed.                     *)
NoLeakedConnection ==
    actor.phase # "Ended" /\ ~Owns(life, actor.session) => actor.closing

(* connect() to another receiver while one is connecting or connected: what *)
(* the session still owns of the old receiver is on its way down.           *)
SupersededConnectionCloses ==
    \A g \in Generation: Owns(life, g) =>
        actor.endpoint = lastEndpoint \/ actor.closing \/ actor.phase = "Ended"

(* Nonce, pairing and stream state never survive the connection they were   *)
(* negotiated on.                                                           *)
HandshakeBelongsToConnection ==
    /\ handshakeGen \in {NoGen, life.active}
    /\ life.stream # "Idle" => handshakeGen = life.active /\ life.active # NoGen
    /\ (life.connection = "Connected") = (life.active # NoGen)

(* A user stop, a StopStream from the receiver, a rejected authentication   *)
(* and a refused dial are final: whatever is still queued from the old      *)
(* connection, and whatever the policy is set to, the session owns nothing  *)
(* and waits for nothing until the user connects again.                     *)
StopIsFinal ==
    stopped => /\ life.connection = "Idle"
               /\ life.active = NoGen /\ life.pending = NoGen
               /\ ~reconnectAfter

(* The delay grows over failed attempts and returns to the first stage only *)
(* when a connection is accepted.                                           *)
DelayGrowsUntilConnected ==
    [][backoff' < backoff => life'.connection # life.connection /\ PollConnected]_vars

(* The intent to be connected is served: the endpoint the user asked for is *)
(* dialled, unless the user or the policy changed (or the bound on          *)
(* generations is reached).                                                 *)
ConnectIntentServed ==
    \A e \in Endpoints:
        (lastEndpoint = e /\ life.connection # "Idle" /\ life.reconnectEnabled)
        ~> \/ actor.endpoint = e /\ ~actor.closing
           \/ lastEndpoint # e \/ ~life.reconnectEnabled
           \/ transport.next > MaxGen
=============================================================================
