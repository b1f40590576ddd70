--------------------------- MODULE ReceiverLifecycle ---------------------------
(***************************************************************************)
(* The connection lifecycle of the desktop (crates/picoo-receiver): the    *)
(* reducer of session/reducer.rs, the effect adapter of                    *)
(* session/lifecycle.rs, the event pump of session/transport_events.rs,    *)
(* the control gate of session/control.rs, and the server half of the QUIC *)
(* transport (picoo-transport server_worker and run_connection).           *)
(*                                                                         *)
(* The session belongs to one owner thread: user commands and pump turns   *)
(* alternate (runtime.rs), and a turn may stop after any event (its budget *)
(* of 64 events or 2 ms), so a step of the owner here is one event or one  *)
(* user command.  The QUIC task runs beside it.  They share active_session,*)
(* which the task writes and the session reads at any time, and two queues *)
(* of events, of which the reliable one is polled first.  What the pairing *)
(* messages prove is a choice here: the module keeps which connection a    *)
(* handshake belongs to and how it ends.                                   *)
(***************************************************************************)
EXTENDS Naturals, Sequences

CONSTANTS
    MaxGen,     \* bound: connections the server accepts
    MaxEvents,  \* bound: reliable events waiting when the peer adds one
    MaxMedia    \* capacity of the video queue (full: the packet is dropped)

ASSUME BoundAssumption == MaxGen \in Nat \ {0} /\ MaxEvents \in Nat /\ MaxMedia \in Nat

VARIABLES
    life,             \* ReceiverReducerState
    sender,           \* active_sender: its connection, video_allowed
    pendingPairing,   \* pending_pairing.session
    controlOpen,      \* control_generation is Some
    streamConfig,     \* current_stream_config: the connection that sent it
    frame,            \* frames.latest(): the connection it was decoded from
    placeholderAfter, \* the last-frame hold is running
    activeSession,    \* SharedState.active_session, written by the task
    server,           \* the task: its connection, phase, waiting Close
    events,           \* critical_events: [kind, session], oldest first
    media             \* video_events: the session of each batch

resources == <<sender, pendingPairing, controlOpen, streamConfig>>
owner == <<life, resources, frame, placeholderAfter>>
task == <<activeSession, server, events, media>>
vars == <<owner, task>>

NoGen == 0
Generation == 1..MaxGen
GenOption == {NoGen} \cup Generation

Controls == {"ClientHello", "PairingProof", "StartStream", "StopStream",
             "StreamConfig", "SenderStats", "Malformed"}

Life == [connection: {"Idle", "Listening", "Connected", "Reconnecting"},
         stream: {"Idle", "Negotiating", "Streaming"},
         active: GenOption,
         resourcesActive: BOOLEAN, listening: BOOLEAN, holdPending: BOOLEAN]

NoSender == [owner |-> NoGen, allowed |-> FALSE]

TypeOK ==
    /\ life \in Life
    /\ sender \in [owner: GenOption, allowed: BOOLEAN]
    /\ pendingPairing \in GenOption
    /\ controlOpen \in BOOLEAN
    /\ streamConfig \in GenOption
    /\ frame \in GenOption
    /\ placeholderAfter \in BOOLEAN
    /\ activeSession \in GenOption
    /\ server \in [session: GenOption, next: 1..(MaxGen + 1), closing: BOOLEAN,
                   phase: {"Accepting", "Announcing", "Serving", "Leaving"}]
    /\ events \in Seq([kind: Controls \cup {"Connected", "Disconnected"},
                       session: Generation])
    /\ media \in Seq(Generation) /\ Len(media) <= MaxMedia

-----------------------------------------------------------------------------
(* The server task.  It serves one connection at a time.                    *)

Push(kind, g) == events' = Append(events, [kind |-> kind, session |-> g])

Accept ==
    /\ server.phase = "Accepting" /\ server.next <= MaxGen
    /\ server' = [server EXCEPT !.session = server.next, !.next = @ + 1,
                     !.closing = FALSE, !.phase = "Announcing"]
    /\ activeSession' = server.next
    /\ UNCHANGED <<events, media, owner>>

(* The handshake or the TLS exporter fails: a Disconnected without a        *)
(* Connected.                                                               *)
AcceptFails ==
    /\ server.phase = "Accepting" /\ server.next <= MaxGen
    /\ server' = [server EXCEPT !.next = @ + 1]
    /\ Push("Disconnected", server.next)
    /\ UNCHANGED <<activeSession, media, owner>>

Announce ==
    /\ server.phase = "Announcing"
    /\ server' = [server EXCEPT !.phase = "Serving"]
    /\ Push("Connected", server.session)
    /\ UNCHANGED <<activeSession, media, owner>>

PeerSendsControl ==
    /\ server.phase = "Serving"
    /\ Len(events) < MaxEvents
    /\ \E kind \in Controls: Push(kind, server.session)
    /\ UNCHANGED <<activeSession, server, media, owner>>

PeerSendsVideo ==
    /\ server.phase = "Serving"
    /\ Len(media) < MaxMedia
    /\ media' = Append(media, server.session)
    /\ UNCHANGED <<activeSession, server, events, owner>>

(* The waiting Close is executed, or the peer or the network ends it: first *)
(* the shared session is cleared, later Disconnected is queued.             *)
Leave ==
    /\ server' = [server EXCEPT !.phase = "Leaving"]
    /\ activeSession' = NoGen
    /\ UNCHANGED <<events, media, owner>>

ExecuteClose == server.phase = "Serving" /\ server.closing /\ Leave

ConnectionLost == server.phase = "Serving" /\ ~server.closing /\ Leave

ReportEnd ==
    /\ server.phase = "Leaving"
    /\ server' = [server EXCEPT !.phase = "Accepting", !.session = NoGen]
    /\ Push("Disconnected", server.session)
    /\ UNCHANGED <<activeSession, media, owner>>

-----------------------------------------------------------------------------
(* Reducer transitions and the effects they bring with them.                *)

ResetToAvailableIdle(l) ==
    [l EXCEPT !.connection = IF l.listening THEN "Listening" ELSE "Idle",
              !.stream = "Idle"]

(* Mutant: the configuration is forgotten in the list of resets.            *)
ResetKeepsConfig ==
    /\ sender' = NoSender
    /\ pendingPairing' = NoGen
    /\ controlOpen' = FALSE
    /\ UNCHANGED streamConfig

ResetSessionResources ==
    /\ sender' = NoSender
    /\ pendingPairing' = NoGen
    /\ controlOpen' = FALSE
    /\ streamConfig' = NoGen

CloseActiveTransport ==
    server' = [server EXCEPT !.closing = @ \/ activeSession # NoGen]

PublishPlaceholder == placeholderAfter' = FALSE /\ frame' = NoGen

Ended(l) == [l EXCEPT !.active = NoGen, !.resourcesActive = FALSE,
                      !.holdPending = FALSE]

(* Mutant: ending a session leaves its transport to the peer.               *)
EndSessionKeepsTransport(g) ==
    IF life.active = g
    THEN /\ life' = ResetToAvailableIdle(Ended(life))
         /\ ResetSessionResources
         /\ PublishPlaceholder
         /\ UNCHANGED server
    ELSE UNCHANGED <<owner, server>>

(* StopStream{g} and AbortConnection{g}.                                    *)
EndSession(g) ==
    IF life.active = g
    THEN /\ life' = ResetToAvailableIdle(Ended(life))
         /\ ResetSessionResources
         /\ CloseActiveTransport
         /\ PublishPlaceholder
    ELSE UNCHANGED <<owner, server>>

(* Mutant: the hold's deadline survives the reconnection.                   *)
BeginSessionKeepsHold(g) ==
    /\ life' = [life EXCEPT !.active = g, !.resourcesActive = TRUE,
                   !.holdPending = FALSE, !.connection = "Connected",
                   !.stream = "Idle"]
    /\ controlOpen' = FALSE
    /\ UNCHANGED <<sender, pendingPairing, streamConfig, frame, placeholderAfter>>

(* Mutant: a new connection waits for the old session to be torn down.      *)
BeginSessionIfIdle(g) ==
    /\ life' = IF life.active # NoGen THEN life
               ELSE [life EXCEPT !.active = g, !.resourcesActive = TRUE,
                       !.holdPending = FALSE, !.connection = "Connected",
                       !.stream = "Idle"]
    /\ placeholderAfter' = FALSE
    /\ controlOpen' = FALSE
    /\ UNCHANGED <<sender, pendingPairing, streamConfig, frame>>

(* TransportConnected{g} with PrepareConnection.                            *)
BeginSession(g) ==
    /\ life' = [life EXCEPT !.active = g, !.resourcesActive = TRUE,
                   !.holdPending = FALSE, !.connection = "Connected",
                   !.stream = "Idle"]
    /\ placeholderAfter' = FALSE
    /\ controlOpen' = FALSE
    /\ UNCHANGED <<sender, pendingPairing, streamConfig, frame>>

(* TransportDisconnected{g}: the last frame of a stream is held for a while.*)
RetainFrame == life.stream = "Streaming" /\ frame # NoGen

PeerDisconnected(g) ==
    IF life.active # g THEN UNCHANGED owner
    ELSE /\ ResetSessionResources
         /\ IF RetainFrame
            THEN /\ life' = [Ended(life) EXCEPT !.holdPending = TRUE,
                               !.connection = "Reconnecting", !.stream = "Idle"]
                 /\ placeholderAfter' = TRUE
                 /\ UNCHANGED frame
            ELSE /\ life' = ResetToAvailableIdle(Ended(life))
                 /\ PublishPlaceholder

-----------------------------------------------------------------------------
(* handle_control and the handlers behind its phase gate.                   *)

ControlPhase ==
    IF pendingPairing # NoGen THEN "Pairing"
    ELSE IF sender.owner = NoGen THEN "AwaitingClientHello"
    ELSE IF life.stream = "Streaming" THEN "Streaming" ELSE "AuthenticatedIdle"

AllowedIn(phase) ==
    CASE phase = "AwaitingClientHello" -> {"ClientHello"}
      [] phase = "Pairing" -> {"PairingProof", "StartStream", "StopStream"}
      [] OTHER -> {"StartStream", "StopStream", "SenderStats", "StreamConfig"}

(* The checks before the payload is looked at.                              *)
Admitted(g, kind) ==
    /\ activeSession = g
    /\ controlOpen \/ kind = "ClientHello"
    /\ kind \in AllowedIn(ControlPhase)
    /\ ControlPhase \in {"AuthenticatedIdle", "Streaming"} => sender.allowed

(* A bad identity, proof or format, or an answer that cannot be sent.       *)
MayFail(kind) == kind \in {"ClientHello", "PairingProof", "StreamConfig"}

HandleClientHello(g) ==
    /\ sender' = [owner |-> g, allowed |-> FALSE]
    /\ pendingPairing' = g
    /\ controlOpen' = TRUE
    /\ life' = [life EXCEPT !.stream = "Negotiating"]
    /\ UNCHANGED <<streamConfig, frame, placeholderAfter>>

BeginStreaming == life' = [life EXCEPT !.connection = "Connected",
                                       !.stream = "Streaming"]

(* advance_pairing, when the confirmation or the commit it is called for is *)
(* the last that was missing.                                               *)
CompletePairing ==
    /\ sender' = [sender EXCEPT !.allowed = TRUE]
    /\ pendingPairing' = NoGen
    /\ BeginStreaming
    /\ UNCHANGED <<controlOpen, streamConfig, frame, placeholderAfter>>

HandlePairingProof(g) ==
    /\ pendingPairing = g
    /\ CompletePairing \/ UNCHANGED owner

(* Mutant: StartStream is honoured during pairing.                          *)
StartStreamUnchecked == BeginStreaming /\ UNCHANGED <<resources, frame, placeholderAfter>>

HandleStartStream ==
    IF sender.allowed
    THEN BeginStreaming /\ UNCHANGED <<resources, frame, placeholderAfter>>
    ELSE UNCHANGED owner

(* A configuration is taken, or it is of an epoch already superseded.       *)
HandleStreamConfig(g) ==
    \/ /\ streamConfig' = g
       /\ BeginStreaming
       /\ UNCHANGED <<sender, pendingPairing, controlOpen, frame, placeholderAfter>>
    \/ UNCHANGED owner

HandleStopStream(g) ==
    IF sender.allowed THEN EndSession(g) ELSE UNCHANGED <<owner, server>>

(* An error ends in reject_control_session; a known sender with another key *)
(* is turned away in the same way.                                          *)
HandleControl(g, kind) ==
    \/ (~Admitted(g, kind) \/ MayFail(kind)) /\ EndSession(g)
    \/ /\ Admitted(g, kind)
       /\ \/ kind = "ClientHello" /\ HandleClientHello(g) /\ UNCHANGED server
          \/ kind = "PairingProof" /\ HandlePairingProof(g) /\ UNCHANGED server
          \/ kind = "StartStream" /\ HandleStartStream /\ UNCHANGED server
          \/ kind = "StreamConfig" /\ HandleStreamConfig(g) /\ UNCHANGED server
          \/ kind = "SenderStats" /\ UNCHANGED <<owner, server>>
          \/ kind = "StopStream" /\ HandleStopStream(g)

-----------------------------------------------------------------------------
(* The owner thread: one event of a pump turn, or one command.              *)

Taken(kinds) ==
    /\ events # <<>> /\ Head(events).kind \in kinds
    /\ events' = Tail(events)
    /\ UNCHANGED <<activeSession, media>>

PollConnected ==
    /\ Taken({"Connected"})
    /\ LET g == Head(events).session
       IN  IF activeSession = g THEN BeginSession(g) ELSE UNCHANGED owner
    /\ UNCHANGED server

PollDisconnected ==
    /\ Taken({"Disconnected"})
    /\ LET g == Head(events).session
       IN  IF activeSession = NoGen THEN PeerDisconnected(g) ELSE UNCHANGED owner
    /\ UNCHANGED server

PollControl ==
    /\ Taken(Controls)
    /\ LET e == Head(events)
       IN  IF life.active = e.session THEN HandleControl(e.session, e.kind)
           ELSE UNCHANGED <<owner, server>>

(* A batch may complete a picture.  Before the first configuration nothing  *)
(* is decoded.                                                              *)
PollVideo ==
    /\ events = <<>> /\ media # <<>>
    /\ media' = Tail(media)
    /\ LET g == Head(media)
       IN  IF life.active = g /\ sender.allowed /\ streamConfig # NoGen
           THEN frame' \in {frame, g}
           ELSE UNCHANGED frame
    /\ UNCHANGED <<life, resources, placeholderAfter, activeSession, server, events>>

(* The 60 seconds of a pairing challenge are over.                          *)
ExpirePairing ==
    /\ pendingPairing # NoGen
    /\ EndSession(pendingPairing)
    /\ UNCHANGED <<activeSession, events, media>>

(* Mutant: the deadline is only looked at while a session is active.        *)
HoldElapsesIfActive ==
    /\ placeholderAfter /\ life.holdPending /\ life.active # NoGen
    /\ life' = ResetToAvailableIdle([life EXCEPT !.holdPending = FALSE])
    /\ PublishPlaceholder
    /\ UNCHANGED <<resources, task>>

HoldElapses ==
    /\ placeholderAfter /\ life.holdPending
    /\ life' = ResetToAvailableIdle([life EXCEPT !.holdPending = FALSE])
    /\ PublishPlaceholder
    /\ UNCHANGED <<resources, task>>

UserClose ==
    /\ life.resourcesActive \/ life.active # NoGen \/ life.holdPending
    /\ life' = [Ended(life) EXCEPT !.listening = FALSE, !.connection = "Idle",
                                   !.stream = "Idle"]
    /\ ResetSessionResources
    /\ CloseActiveTransport
    /\ PublishPlaceholder
    /\ UNCHANGED <<activeSession, events, media>>

CanAnswer(g) == controlOpen /\ activeSession = g

ConfirmPairing ==
    /\ pendingPairing # NoGen /\ CanAnswer(pendingPairing)
    /\ CompletePairing
    /\ UNCHANGED task

RejectPairing ==
    /\ pendingPairing # NoGen /\ CanAnswer(pendingPairing)
    /\ EndSession(pendingPairing)
    /\ UNCHANGED <<activeSession, events, media>>

Poll == PollConnected \/ PollDisconnected \/ PollControl \/ PollVideo

Server == Accept \/ AcceptFails \/ Announce \/ PeerSendsControl \/ PeerSendsVideo
          \/ ExecuteClose \/ ConnectionLost \/ ReportEnd

User == UserClose \/ ConfirmPairing \/ RejectPairing

-----------------------------------------------------------------------------
(* listen() has returned: the endpoint is bound, nobody has dialled.        *)
Init ==
    /\ life = [connection |-> "Listening", stream |-> "Idle", active |-> NoGen,
               resourcesActive |-> TRUE, listening |-> TRUE, holdPending |-> FALSE]
    /\ sender = NoSender
    /\ pendingPairing = NoGen
    /\ controlOpen = FALSE
    /\ streamConfig = NoGen
    /\ frame = NoGen
    /\ placeholderAfter = FALSE
    /\ activeSession = NoGen
    /\ server = [session |-> NoGen, next |-> 1, closing |-> FALSE,
                 phase |-> "Accepting"]
    /\ events = <<>>
    /\ media = <<>>

Next == Server \/ Poll \/ User \/ ExpirePairing \/ HoldElapses

Spec == Init /\ [][Next]_vars

(* The owner thread is woken by every event and by its own deadlines, and   *)
(* the task is scheduled; peers and the user owe nothing.                   *)
Fairness == /\ WF_vars(Poll) /\ WF_vars(HoldElapses)
            /\ WF_vars(Announce) /\ WF_vars(ExecuteClose) /\ WF_vars(ReportEnd)

FairSpec == Spec /\ Fairness

-----------------------------------------------------------------------------
(* Properties.                                                              *)

(* The owner's deadline for the last-frame hold and the reducer's flag are  *)
(* set and cleared together through every close, abort, reconnect and       *)
(* timeout, and while they are set a picture is still shown for a session   *)
(* that is gone and reported as reconnecting.                               *)
HoldMatches ==
    /\ placeholderAfter = life.holdPending
    /\ life.holdPending => /\ life.active = NoGen
                           /\ life.connection = "Reconnecting"
                           /\ frame # NoGen

(* Whatever way a session ended, nothing of it is left: no authenticated    *)
(* sender, pairing challenge, control generation, configuration or stream;  *)
(* and outside the hold its last picture is gone too.                       *)
NothingSurvivesTeardown ==
    life.active = NoGen =>
        /\ resources = <<NoSender, NoGen, FALSE, NoGen>>
        /\ life.stream = "Idle"
        /\ ~placeholderAfter => frame = NoGen

(* Media and its configuration exist only for a sender whose handshake is   *)
(* complete, and one that is still being paired is not yet allowed them,    *)
(* also when connections replace each other in the middle of a handshake.   *)
StreamingNeedsProof ==
    /\ life.stream = "Streaming" \/ streamConfig # NoGen => sender.allowed
    /\ pendingPairing # NoGen => sender.owner = pendingPairing /\ ~sender.allowed

(* The server serves one connection at a time, so one that no session owns  *)
(* would keep every other phone out: it is always announced, adopted or     *)
(* about to be closed.                                                      *)
NoUnattendedConnection ==
    server.phase = "Serving" =>
        \/ life.active = server.session
        \/ server.closing
        \/ \E i \in DOMAIN events: events[i] = [kind |-> "Connected",
                                                session |-> server.session]

(* The last picture is not held for ever: a new session or the deadline     *)
(* ends the hold.                                                           *)
HoldEnds == placeholderAfter ~> ~placeholderAfter

(* A connection that stays up becomes the active session.                   *)
ConnectionIsAdopted ==
    \A g \in Generation:
        server.session = g /\ server.phase = "Serving"
            ~> life.active = g \/ server.session # g

=============================================================================
