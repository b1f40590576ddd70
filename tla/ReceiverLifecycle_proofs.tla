------------------------ MODULE ReceiverLifecycle_proofs ------------------------
(***************************************************************************)
(* The safety properties of ReceiverLifecycle for every number of          *)
(* connections, every length of the reliable queue and every capacity of   *)
(* the video queue.                                                        *)
(*                                                                         *)
(* The properties need two facts beside themselves: what the shared        *)
(* active_session says of the phase of the server task (TaskShape), which  *)
(* is how a close of the owner is known to reach a connection that is      *)
(* being served; and that nobody is allowed media without being the        *)
(* sender (AllowedHasOwner), which is how the phase gate lets a            *)
(* ClientHello in only when no stream is configured.                       *)
(***************************************************************************)
EXTENDS ReceiverLifecycle, SequenceTheorems, TLAPS

Event == [kind: Controls \cup {"Connected", "Disconnected"}, session: Generation]

Announcement(g) == [kind |-> "Connected", session |-> g]

Queued(e, q) == \E i \in DOMAIN q: q[i] = e

(* The connection that the owner sees is the one the task announces or      *)
(* serves, and it sees none otherwise.                                      *)
TaskShape ==
    /\ server.phase # "Accepting" => server.session # NoGen
    /\ activeSession = IF server.phase \in {"Announcing", "Serving"}
                       THEN server.session ELSE NoGen

(* Only a sender is allowed media.                                          *)
AllowedHasOwner == sender.allowed => sender.owner # NoGen

OwnerShape ==
    /\ AllowedHasOwner
    /\ HoldMatches
    /\ NothingSurvivesTeardown
    /\ StreamingNeedsProof

IInv ==
    /\ TypeOK
    /\ TaskShape
    /\ OwnerShape
    /\ NoUnattendedConnection

(* What the owner holds and what the task holds, typed apart.               *)
OwnerTypes ==
    /\ life \in Life
    /\ sender \in [owner: GenOption, allowed: BOOLEAN]
    /\ pendingPairing \in GenOption
    /\ controlOpen \in BOOLEAN
    /\ streamConfig \in GenOption
    /\ frame \in GenOption
    /\ placeholderAfter \in BOOLEAN

QueueTypes ==
    /\ events \in Seq(Event)
    /\ media \in Seq(Generation) /\ Len(media) <= MaxMedia

(* What every handler of the owner leaves behind: its own part of the       *)
(* invariant, and a session it gave up has its transport closed.            *)
Settled ==
    /\ OwnerTypes' /\ OwnerShape'
    /\ \/ server' = server /\ life'.active = life.active
       \/ CloseActiveTransport

-----------------------------------------------------------------------------
(* Queues.                                                                  *)

LEMMA AppendFacts ==
    ASSUME NEW S, NEW q \in Seq(S), NEW m \in S
    PROVE  /\ Append(q, m) \in Seq(S) /\ Len(Append(q, m)) = Len(q) + 1
           /\ \A x: Queued(x, q) \/ x = m => Queued(x, Append(q, m))
<1>1. /\ Append(q, m) \in Seq(S) /\ Len(Append(q, m)) = Len(q) + 1
      /\ \A i \in 1..Len(q): Append(q, m)[i] = q[i]
      /\ Append(q, m)[Len(q) + 1] = m /\ Len(q) \in Nat
      /\ DOMAIN q = 1..Len(q) /\ DOMAIN Append(q, m) = 1..Len(q) + 1
  BY AppendProperties, LenProperties
<1>2. ASSUME NEW x, Queued(x, q) \/ x = m PROVE Queued(x, Append(q, m))
  BY <1>1, <1>2 DEF Queued
<1> QED BY <1>1, <1>2

LEMMA TailFacts ==
    ASSUME NEW S, NEW q \in Seq(S), q # <<>>
    PROVE  /\ Tail(q) \in Seq(S) /\ Head(q) \in S /\ Len(Tail(q)) <= Len(q)
           /\ \A x: Queued(x, q) /\ x # Head(q) => Queued(x, Tail(q))
<1>1. /\ Tail(q) \in Seq(S) /\ Head(q) \in S /\ Head(q) = q[1]
      /\ Len(Tail(q)) = Len(q) - 1 /\ Len(q) \in Nat /\ Len(q) >= 1
      /\ DOMAIN q = 1..Len(q) /\ DOMAIN Tail(q) = 1..Len(q) - 1
      /\ \A i \in 1..Len(q) - 1: Tail(q)[i] = q[i + 1]
  BY HeadTailProperties, LenProperties, EmptySeq
<1>2. ASSUME NEW x, Queued(x, q), x # Head(q) PROVE Queued(x, Tail(q))
  <2>1. PICK i \in 1..Len(q): q[i] = x
    BY <1>1, <1>2 DEF Queued
  <2>2. i - 1 \in 1..Len(q) - 1 /\ Tail(q)[i - 1] = x
    BY <1>1, <1>2, <2>1
  <2> QED BY <1>1, <2>2 DEF Queued
<1> QED BY <1>1, <1>2

LEMMA UnattendedQueued ==
    NoUnattendedConnection <=>
        (server.phase = "Serving" =>
            life.active = server.session \/ server.closing
            \/ Queued(Announcement(server.session), events))
BY DEF NoUnattendedConnection, Queued, Announcement

-----------------------------------------------------------------------------
(* The fields of the records, and that a handler runs without a hold.       *)
LEMMA Fields ==
    ASSUME IInv
    PROVE  /\ OwnerTypes /\ QueueTypes /\ OwnerShape /\ TaskShape
           /\ life.active \in GenOption /\ life.holdPending \in BOOLEAN
           /\ life.listening \in BOOLEAN /\ life.resourcesActive \in BOOLEAN
           /\ life.active # NoGen => ~life.holdPending
           /\ sender.owner \in GenOption /\ sender.allowed \in BOOLEAN
           /\ server.session \in GenOption /\ server.next \in 1..(MaxGen + 1)
           /\ server.closing \in BOOLEAN
           /\ NoGen \notin Generation /\ NoGen \in GenOption
<1>1. OwnerTypes /\ QueueTypes /\ OwnerShape /\ TaskShape
  BY DEF IInv, TypeOK, OwnerTypes, QueueTypes, Event
<1>2. /\ life.active \in GenOption /\ life.holdPending \in BOOLEAN
      /\ life.listening \in BOOLEAN /\ life.resourcesActive \in BOOLEAN
  BY <1>1 DEF OwnerTypes, Life
<1>3. sender.owner \in GenOption /\ sender.allowed \in BOOLEAN
  BY <1>1 DEF OwnerTypes
<1>4. /\ server.session \in GenOption /\ server.next \in 1..(MaxGen + 1)
      /\ server.closing \in BOOLEAN
  BY DEF IInv, TypeOK
<1>5. life.active # NoGen => ~life.holdPending
  BY <1>1 DEF OwnerShape, HoldMatches
<1>6. NoGen \notin Generation /\ NoGen \in GenOption
  BY BoundAssumption DEF NoGen, Generation, GenOption
<1> QED BY <1>1, <1>2, <1>3, <1>4, <1>5, <1>6

LEMMA InitInvariant == Init => IInv
<1> SUFFICES ASSUME Init PROVE IInv
  OBVIOUS
<1> USE BoundAssumption DEF Init, NoSender, NoGen, GenOption, Generation
<1>1. life \in Life
  BY DEF Life
<1>2. server \in [session: GenOption, next: 1..(MaxGen + 1), closing: BOOLEAN,
                  phase: {"Accepting", "Announcing", "Serving", "Leaving"}]
  OBVIOUS
<1>3. events \in Seq(Event) /\ media \in Seq(Generation) /\ Len(media) <= MaxMedia
  BY EmptySeq
<1>4. TypeOK
  BY <1>1, <1>2, <1>3 DEF TypeOK, Event
<1>5. TaskShape /\ NoUnattendedConnection
  BY DEF TaskShape, NoUnattendedConnection
<1>6. OwnerShape
  BY DEF OwnerShape, AllowedHasOwner, HoldMatches, NothingSurvivesTeardown,
         StreamingNeedsProof, resources
<1> QED BY <1>4, <1>5, <1>6 DEF IInv

LEMMA OwnerUnchanged ==
    ASSUME IInv, UNCHANGED owner
    PROVE  OwnerTypes' /\ OwnerShape' /\ life' = life
<1>1. /\ life' = life /\ sender' = sender /\ pendingPairing' = pendingPairing
      /\ controlOpen' = controlOpen /\ streamConfig' = streamConfig
      /\ frame' = frame /\ placeholderAfter' = placeholderAfter
      /\ resources' = resources
  BY DEF owner, resources
<1>2. OwnerTypes'
  BY <1>1, Fields DEF OwnerTypes
<1>3. OwnerShape'
  BY <1>1, Fields DEF OwnerShape, AllowedHasOwner, HoldMatches,
         NothingSurvivesTeardown, StreamingNeedsProof
<1> QED BY <1>1, <1>2, <1>3

(* A step of the owner that settles, and takes from the queues what it      *)
(* answers for.                                                             *)
LEMMA SettledKeeps ==
    ASSUME IInv, Settled, UNCHANGED activeSession, QueueTypes',
           \A g: Queued(Announcement(g), events) => Queued(Announcement(g), events')
    PROVE  IInv'
<1>1. /\ server' \in [session: GenOption, next: 1..(MaxGen + 1), closing: BOOLEAN,
                      phase: {"Accepting", "Announcing", "Serving", "Leaving"}]
      /\ server'.phase = server.phase /\ server'.session = server.session
      /\ server.closing => server'.closing
      /\ life'.active = life.active \/ (activeSession # NoGen => server'.closing)
  BY DEF Settled, CloseActiveTransport, IInv, TypeOK
<1>2. TypeOK'
  BY <1>1, Fields DEF TypeOK, IInv, Settled, OwnerTypes, QueueTypes, Event
<1>3. TaskShape'
  BY <1>1, Fields DEF TaskShape
<1>4. NoUnattendedConnection'
  <2>1. SUFFICES ASSUME server.phase = "Serving", ~server'.closing
                 PROVE  \/ life'.active = server.session
                        \/ Queued(Announcement(server.session), events')
    BY <1>1 DEF NoUnattendedConnection, Queued, Announcement
  <2>2. activeSession # NoGen
    BY <2>1, Fields DEF TaskShape
  <2>3. life'.active = life.active
    BY <1>1, <2>1, <2>2
  <2> QED BY <1>1, <2>1, <2>3, UnattendedQueued DEF IInv
<1> QED BY <1>2, <1>3, <1>4 DEF IInv, Settled

-----------------------------------------------------------------------------
(* The server task.                                                         *)

LEMMA PushTypes ==
    ASSUME IInv, NEW kind \in Controls \cup {"Connected", "Disconnected"},
           NEW g \in Generation, Push(kind, g)
    PROVE  /\ events' \in Seq(Event)
           /\ \A e: Queued(e, events) => Queued(e, events')
           /\ Queued([kind |-> kind, session |-> g], events')
<1>1. events \in Seq(Event) /\ [kind |-> kind, session |-> g] \in Event
  BY Fields DEF QueueTypes, Event
<1> QED BY <1>1, AppendFacts DEF Push

LEMMA ServerKeeps ==
    ASSUME IInv, Server
    PROVE  IInv'
<1>1. OwnerTypes /\ QueueTypes /\ TaskShape /\ server.session \in GenOption
      /\ server.next \in 1..(MaxGen + 1) /\ server.closing \in BOOLEAN
      /\ NoGen \notin Generation /\ Generation = 1..MaxGen /\ MaxGen \in Nat
      /\ server \in [session: GenOption, next: 1..(MaxGen + 1), closing: BOOLEAN,
                     phase: {"Accepting", "Announcing", "Serving", "Leaving"}]
  BY Fields, BoundAssumption DEF Generation, IInv, TypeOK
<1>2. UNCHANGED owner
  BY DEF Server, Accept, AcceptFails, Announce, PeerSendsControl, PeerSendsVideo,
         ExecuteClose, ConnectionLost, ReportEnd, Leave
<1>3. OwnerTypes' /\ OwnerShape' /\ life' = life
  BY <1>2, OwnerUnchanged
<1>4. ASSUME QueueTypes', activeSession' \in GenOption,
             server' \in [session: GenOption, next: 1..(MaxGen + 1), closing: BOOLEAN,
                          phase: {"Accepting", "Announcing", "Serving", "Leaving"}]
      PROVE  TypeOK'
  BY <1>3, <1>4 DEF TypeOK, OwnerTypes, QueueTypes, Event
<1>5. server.phase # "Accepting" => server.session \in Generation
  BY <1>1 DEF TaskShape, GenOption
<1>6. activeSession \in GenOption
  BY <1>1, <1>5 DEF TaskShape, GenOption
<1>7. CASE Accept
  <2>1. server.next \in Generation /\ server.next + 1 \in 1..(MaxGen + 1)
    BY <1>1, <1>7 DEF Accept
  <2>2. QueueTypes' /\ activeSession' \in GenOption
        /\ server' \in [session: GenOption, next: 1..(MaxGen + 1), closing: BOOLEAN,
                        phase: {"Accepting", "Announcing", "Serving", "Leaving"}]
    BY <1>1, <1>7, <2>1 DEF Accept, QueueTypes, GenOption
  <2>3. TaskShape' /\ NoUnattendedConnection'
    BY <1>1, <1>7, <2>1 DEF Accept, TaskShape, NoUnattendedConnection
  <2> QED BY <1>3, <1>4, <2>2, <2>3 DEF IInv
<1>8. CASE AcceptFails
  <2>1. server.next \in Generation /\ server.next + 1 \in 1..(MaxGen + 1)
    BY <1>1, <1>8 DEF AcceptFails
  <2>2. QueueTypes'
    BY <1>1, <1>8, <2>1, PushTypes DEF AcceptFails, QueueTypes
  <2>3. activeSession' \in GenOption
        /\ server' \in [session: GenOption, next: 1..(MaxGen + 1), closing: BOOLEAN,
                        phase: {"Accepting", "Announcing", "Serving", "Leaving"}]
    BY <1>1, <1>6, <1>8, <2>1 DEF AcceptFails
  <2>4. TaskShape' /\ NoUnattendedConnection'
    BY <1>1, <1>8 DEF AcceptFails, TaskShape, NoUnattendedConnection
  <2> QED BY <1>3, <1>4, <2>2, <2>3, <2>4 DEF IInv
<1>9. CASE Announce
  <2>1. server.session \in Generation
    BY <1>5, <1>9 DEF Announce
  <2>2. QueueTypes' /\ Queued(Announcement(server.session), events')
    BY <1>1, <1>9, <2>1, PushTypes DEF Announce, QueueTypes, Announcement
  <2>3. activeSession' \in GenOption
        /\ server' \in [session: GenOption, next: 1..(MaxGen + 1), closing: BOOLEAN,
                        phase: {"Accepting", "Announcing", "Serving", "Leaving"}]
        /\ server'.session = server.session /\ server'.phase = "Serving"
    BY <1>1, <1>6, <1>9 DEF Announce
  <2>4. TaskShape'
    BY <1>1, <1>9, <2>3 DEF Announce, TaskShape
  <2>5. NoUnattendedConnection'
    BY <2>2, <2>3 DEF NoUnattendedConnection, Queued, Announcement
  <2> QED BY <1>3, <1>4, <2>2, <2>3, <2>4, <2>5 DEF IInv
<1>10. CASE PeerSendsControl \/ PeerSendsVideo
  <2>1. server.session \in Generation /\ server' = server
        /\ activeSession' = activeSession
    BY <1>5, <1>10 DEF PeerSendsControl, PeerSendsVideo
  <2>2. QueueTypes' /\ \A e: Queued(e, events) => Queued(e, events')
    <3>1. CASE PeerSendsControl
      BY <1>1, <2>1, <3>1, PushTypes DEF PeerSendsControl, QueueTypes
    <3>2. CASE PeerSendsVideo
      <4>1. Append(media, server.session) \in Seq(Generation)
            /\ Len(Append(media, server.session)) = Len(media) + 1
        BY <1>1, <2>1, AppendFacts DEF QueueTypes
      <4>2. Len(media) \in Nat /\ MaxMedia \in Nat
        BY <1>1, LenProperties, BoundAssumption DEF QueueTypes
      <4> QED BY <1>1, <3>2, <4>1, <4>2 DEF PeerSendsVideo, QueueTypes
    <3> QED BY <1>10, <3>1, <3>2
  <2>3. TaskShape'
    BY <1>1, <2>1 DEF TaskShape
  <2>4. NoUnattendedConnection'
    <3>1. server.phase = "Serving" =>
             life.active = server.session \/ server.closing
             \/ Queued(Announcement(server.session), events')
      BY <2>2, UnattendedQueued DEF IInv
    <3> QED BY <1>3, <2>1, <3>1 DEF NoUnattendedConnection, Queued, Announcement
  <2> QED BY <1>1, <1>3, <1>4, <1>6, <2>1, <2>2, <2>3, <2>4 DEF IInv
<1>11. CASE ExecuteClose \/ ConnectionLost
  <2>1. server.phase = "Serving" /\ Leave
    BY <1>11 DEF ExecuteClose, ConnectionLost
  <2>2. TaskShape' /\ NoUnattendedConnection'
    BY <1>1, <2>1 DEF Leave, TaskShape, NoUnattendedConnection
  <2>3. TypeOK'
    BY <1>1, <1>4, <2>1 DEF Leave, QueueTypes, GenOption
  <2> QED BY <1>3, <2>2, <2>3 DEF IInv
<1>12. CASE ReportEnd
  <2>1. server.session \in Generation
    BY <1>5, <1>12 DEF ReportEnd
  <2>2. QueueTypes'
    BY <1>1, <1>12, <2>1, PushTypes DEF ReportEnd, QueueTypes
  <2>3. TaskShape' /\ NoUnattendedConnection'
    BY <1>1, <1>12 DEF ReportEnd, TaskShape, NoUnattendedConnection
  <2>4. TypeOK'
    BY <1>1, <1>4, <1>6, <1>12, <2>2 DEF ReportEnd, GenOption
  <2> QED BY <1>3, <2>2, <2>3, <2>4 DEF IInv
<1> QED BY <1>7, <1>8, <1>9, <1>10, <1>11, <1>12 DEF Server

-----------------------------------------------------------------------------
(* The transitions of the reducer.                                          *)

(* A session that has been cleared away, whatever its idle state is called. *)
LEMMA ClearedAway ==
    ASSUME IInv, life' \in Life, ~life'.holdPending, life'.stream = "Idle",
           ResetSessionResources, PublishPlaceholder
    PROVE  OwnerTypes' /\ OwnerShape'
<1>1. /\ sender' = NoSender /\ pendingPairing' = NoGen /\ controlOpen' = FALSE
      /\ streamConfig' = NoGen /\ placeholderAfter' = FALSE /\ frame' = NoGen
      /\ NoGen \in GenOption
  BY Fields DEF ResetSessionResources, PublishPlaceholder
<1>2. OwnerTypes'
  BY <1>1 DEF OwnerTypes, NoSender
<1>3. life'.holdPending = FALSE
  BY DEF Life
<1>4. OwnerShape'
  BY <1>1, <1>3 DEF OwnerShape, AllowedHasOwner, HoldMatches, NoSender,
         NothingSurvivesTeardown, StreamingNeedsProof, resources
<1> QED BY <1>2, <1>4

LEMMA EndedTypes ==
    ASSUME IInv
    PROVE  /\ Ended(life) \in Life /\ Ended(life).active = NoGen
           /\ ~Ended(life).holdPending
           /\ \A l \in Life: /\ ResetToAvailableIdle(l) \in Life
                             /\ ResetToAvailableIdle(l).stream = "Idle"
                             /\ ResetToAvailableIdle(l).active = l.active
                             /\ ResetToAvailableIdle(l).holdPending = l.holdPending
<1>1. life \in Life /\ NoGen \in GenOption
  BY Fields DEF OwnerTypes
<1>2. Ended(life) \in Life /\ Ended(life).active = NoGen /\ ~Ended(life).holdPending
  BY <1>1 DEF Ended, Life
<1>3. ASSUME NEW l \in Life
      PROVE  /\ ResetToAvailableIdle(l) \in Life
             /\ ResetToAvailableIdle(l).stream = "Idle"
             /\ ResetToAvailableIdle(l).active = l.active
             /\ ResetToAvailableIdle(l).holdPending = l.holdPending
  BY <1>3 DEF ResetToAvailableIdle, Life
<1> QED BY <1>2, <1>3

LEMMA UnchangedSettles ==
    ASSUME IInv, UNCHANGED <<owner, server>>
    PROVE  Settled
BY OwnerUnchanged DEF Settled

LEMMA EndSessionSettles ==
    ASSUME IInv, NEW g \in Generation, EndSession(g)
    PROVE  Settled
<1>1. CASE life.active # g
  BY <1>1, UnchangedSettles DEF EndSession
<1>2. CASE life.active = g
  <2>1. /\ life' = ResetToAvailableIdle(Ended(life)) /\ ResetSessionResources
        /\ CloseActiveTransport /\ PublishPlaceholder
    BY <1>2 DEF EndSession
  <2>2. life' \in Life /\ ~life'.holdPending /\ life'.stream = "Idle"
    BY <2>1, EndedTypes
  <2> QED BY <2>1, <2>2, ClearedAway DEF Settled
<1> QED BY <1>1, <1>2

LEMMA PeerDisconnectedKeeps ==
    ASSUME IInv, NEW g \in Generation, PeerDisconnected(g)
    PROVE  OwnerTypes' /\ OwnerShape'
<1>1. CASE life.active # g
  BY <1>1, OwnerUnchanged DEF PeerDisconnected
<1>2. CASE life.active = g /\ RetainFrame
  <2>1. /\ ResetSessionResources /\ placeholderAfter' = TRUE /\ frame' = frame
        /\ life' = [Ended(life) EXCEPT !.holdPending = TRUE,
                      !.connection = "Reconnecting", !.stream = "Idle"]
        /\ frame # NoGen
    BY <1>2 DEF PeerDisconnected, RetainFrame
  <2>2. /\ life' \in Life /\ life'.holdPending = TRUE /\ life'.active = NoGen
        /\ life'.connection = "Reconnecting" /\ life'.stream = "Idle"
    BY <2>1, EndedTypes DEF Life
  <2>3. /\ sender' = NoSender /\ pendingPairing' = NoGen /\ controlOpen' = FALSE
        /\ streamConfig' = NoGen /\ NoGen \in GenOption /\ frame \in GenOption
    BY <2>1, Fields DEF ResetSessionResources, OwnerTypes
  <2>4. OwnerTypes'
    BY <2>1, <2>2, <2>3 DEF OwnerTypes, NoSender
  <2>5. OwnerShape'
    BY <2>1, <2>2, <2>3 DEF OwnerShape, AllowedHasOwner, HoldMatches, NoSender,
           NothingSurvivesTeardown, StreamingNeedsProof, resources
  <2> QED BY <2>4, <2>5
<1>3. CASE life.active = g /\ ~RetainFrame
  <2>1. /\ life' = ResetToAvailableIdle(Ended(life)) /\ ResetSessionResources
        /\ PublishPlaceholder
    BY <1>3 DEF PeerDisconnected
  <2>2. life' \in Life /\ ~life'.holdPending /\ life'.stream = "Idle"
    BY <2>1, EndedTypes
  <2> QED BY <2>1, <2>2, ClearedAway
<1> QED BY <1>1, <1>2, <1>3

LEMMA BeginSessionKeeps ==
    ASSUME IInv, NEW g \in Generation, BeginSession(g)
    PROVE  OwnerTypes' /\ OwnerShape' /\ life'.active = g
<1>1. /\ life \in Life /\ g \in GenOption /\ g # NoGen
  BY Fields DEF OwnerTypes, GenOption
<1>2. /\ life' \in Life /\ life'.active = g /\ life'.holdPending = FALSE
      /\ life'.stream = "Idle" /\ placeholderAfter' = FALSE /\ controlOpen' = FALSE
      /\ sender' = sender /\ pendingPairing' = pendingPairing
      /\ streamConfig' = streamConfig /\ frame' = frame
  BY <1>1 DEF BeginSession, Life
<1>3. OwnerTypes'
  BY <1>2, Fields DEF OwnerTypes
<1>4. AllowedHasOwner' /\ HoldMatches' /\ NothingSurvivesTeardown'
  BY <1>1, <1>2, Fields DEF OwnerShape, AllowedHasOwner, HoldMatches,
         NothingSurvivesTeardown
<1>5. StreamingNeedsProof'
  BY <1>2, Fields DEF OwnerShape, StreamingNeedsProof
<1> QED BY <1>2, <1>3, <1>4, <1>5 DEF OwnerShape

-----------------------------------------------------------------------------
(* The handlers of handle_control, for a message of the active session.     *)

(* A ClientHello is let in only when there is no sender and no challenge,   *)
(* and every other message than a proof only from an allowed sender or      *)
(* during a challenge.                                                      *)
LEMMA AdmittedFacts ==
    ASSUME IInv, NEW g \in Generation, NEW kind \in Controls, Admitted(g, kind)
    PROVE  /\ kind = "ClientHello" => sender.owner = NoGen /\ pendingPairing = NoGen
           /\ kind = "StreamConfig" => sender.allowed /\ pendingPairing = NoGen
<1>1. /\ kind \in AllowedIn(ControlPhase)
      /\ ControlPhase \in {"AuthenticatedIdle", "Streaming"} => sender.allowed
  BY DEF Admitted
<1>2. CASE pendingPairing # NoGen
  <2>1. ControlPhase = "Pairing"
    BY <1>2 DEF ControlPhase
  <2>2. kind \in {"PairingProof", "StartStream", "StopStream"}
    BY <1>1, <2>1 DEF AllowedIn
  <2> QED BY <2>2
<1>3. CASE pendingPairing = NoGen /\ sender.owner = NoGen
  <2>1. ControlPhase = "AwaitingClientHello"
    BY <1>3 DEF ControlPhase
  <2>2. kind = "ClientHello"
    BY <1>1, <2>1 DEF AllowedIn
  <2> QED BY <1>3, <2>2
<1>4. CASE pendingPairing = NoGen /\ sender.owner # NoGen
  <2>1. ControlPhase \in {"AuthenticatedIdle", "Streaming"}
    BY <1>4 DEF ControlPhase
  <2>2. sender.allowed /\ kind # "ClientHello"
    BY <1>1, <2>1 DEF AllowedIn
  <2> QED BY <1>4, <2>2
<1> QED BY <1>2, <1>3, <1>4

LEMMA ClientHelloKeeps ==
    ASSUME IInv, NEW g \in Generation, life.active = g,
           Admitted(g, "ClientHello"), HandleClientHello(g)
    PROVE  OwnerTypes' /\ OwnerShape' /\ life'.active = life.active
<1>1. sender.owner = NoGen /\ pendingPairing = NoGen /\ ~sender.allowed
      /\ streamConfig = NoGen /\ g # NoGen /\ g \in GenOption
      /\ ~life.holdPending /\ placeholderAfter = life.holdPending
  BY AdmittedFacts, Fields DEF Controls, OwnerShape, AllowedHasOwner,
     StreamingNeedsProof, HoldMatches, GenOption
<1>2. /\ sender' = [owner |-> g, allowed |-> FALSE]
      /\ sender'.owner = g /\ sender'.allowed = FALSE
      /\ pendingPairing' = g /\ controlOpen' = TRUE /\ streamConfig' = streamConfig
      /\ frame' = frame /\ placeholderAfter' = placeholderAfter
  BY DEF HandleClientHello
<1>3. /\ life' \in Life /\ life'.active = g /\ life'.holdPending = life.holdPending
      /\ life'.stream = "Negotiating"
  BY Fields DEF HandleClientHello, OwnerTypes, Life
<1>4. OwnerTypes'
  BY <1>1, <1>2, <1>3, Fields DEF OwnerTypes
<1>5. AllowedHasOwner' /\ NothingSurvivesTeardown'
  BY <1>1, <1>2, <1>3 DEF AllowedHasOwner, NothingSurvivesTeardown
<1>6. HoldMatches'
  BY <1>1, <1>2, <1>3 DEF HoldMatches
<1>7. StreamingNeedsProof'
  BY <1>1, <1>2, <1>3 DEF StreamingNeedsProof
<1> QED BY <1>3, <1>4, <1>5, <1>6, <1>7 DEF OwnerShape

(* The sender is allowed, and the connection that streams is the active one.*)
LEMMA StreamingKeeps ==
    ASSUME IInv, life.active # NoGen, BeginStreaming,
           UNCHANGED <<controlOpen, frame, placeholderAfter>>,
           sender' \in [owner: GenOption, allowed: BOOLEAN],
           sender'.allowed = TRUE, sender'.owner # NoGen,
           pendingPairing' = NoGen, streamConfig' \in GenOption
    PROVE  OwnerTypes' /\ OwnerShape' /\ life'.active = life.active
<1>1. /\ life' \in Life /\ life'.active = life.active
      /\ life'.holdPending = life.holdPending /\ life'.stream = "Streaming"
  BY Fields DEF BeginStreaming, OwnerTypes, Life
<1>2. ~life.holdPending /\ placeholderAfter = life.holdPending /\ NoGen \in GenOption
  BY Fields DEF OwnerShape, HoldMatches
<1>3. OwnerTypes'
  BY <1>1, <1>2, Fields DEF OwnerTypes
<1>4. AllowedHasOwner' /\ NothingSurvivesTeardown' /\ StreamingNeedsProof'
  BY <1>1 DEF AllowedHasOwner, NothingSurvivesTeardown, StreamingNeedsProof
<1>5. HoldMatches'
  BY <1>1, <1>2 DEF HoldMatches
<1> QED BY <1>1, <1>3, <1>4, <1>5 DEF OwnerShape

LEMMA CompletePairingKeeps ==
    ASSUME IInv, pendingPairing # NoGen, CompletePairing
    PROVE  OwnerTypes' /\ OwnerShape' /\ life'.active = life.active
<1>1. life.active # NoGen
  BY Fields DEF OwnerShape, NothingSurvivesTeardown, resources
<1>2. sender.owner # NoGen
  BY Fields DEF OwnerShape, StreamingNeedsProof
<1>3. /\ sender' = [sender EXCEPT !.allowed = TRUE] /\ pendingPairing' = NoGen
      /\ BeginStreaming /\ streamConfig' = streamConfig
      /\ UNCHANGED <<controlOpen, frame, placeholderAfter>>
  BY DEF CompletePairing
<1>4. /\ sender' \in [owner: GenOption, allowed: BOOLEAN]
      /\ sender'.allowed = TRUE /\ sender'.owner # NoGen
  BY <1>2, <1>3, Fields DEF OwnerTypes
<1>5. streamConfig' \in GenOption
  BY <1>3, Fields DEF OwnerTypes
<1> QED BY <1>1, <1>3, <1>4, <1>5, StreamingKeeps

(* An allowed sender is not being paired.                                   *)
LEMMA AllowedFacts ==
    ASSUME IInv, sender.allowed
    PROVE  sender.allowed = TRUE /\ sender.owner # NoGen /\ pendingPairing = NoGen
BY Fields DEF OwnerShape, AllowedHasOwner, StreamingNeedsProof

LEMMA HandleControlSettles ==
    ASSUME IInv, NEW g \in Generation, NEW kind \in Controls,
           life.active = g, HandleControl(g, kind)
    PROVE  Settled
<1>1. life.active # NoGen /\ g \in GenOption
  BY Fields DEF GenOption
<1>2. CASE EndSession(g)
  BY <1>2, EndSessionSettles
<1>3. CASE Admitted(g, kind) /\ kind = "ClientHello" /\ HandleClientHello(g)
           /\ UNCHANGED server
  BY <1>3, ClientHelloKeeps DEF Settled
<1>4. CASE HandlePairingProof(g) /\ UNCHANGED server
  <2>1. pendingPairing # NoGen
    BY <1>1, <1>4 DEF HandlePairingProof
  <2>2. CompletePairing \/ UNCHANGED owner
    BY <1>4 DEF HandlePairingProof
  <2> QED BY <1>4, <2>1, <2>2, CompletePairingKeeps, OwnerUnchanged DEF Settled
<1>5. CASE HandleStartStream /\ UNCHANGED server
  <2>1. CASE sender.allowed
    <3>1. BeginStreaming /\ UNCHANGED <<controlOpen, frame, placeholderAfter>>
          /\ sender' = sender /\ pendingPairing' = pendingPairing
          /\ streamConfig' = streamConfig
      BY <1>5, <2>1 DEF HandleStartStream, resources
    <3>2. sender' \in [owner: GenOption, allowed: BOOLEAN]
          /\ streamConfig' \in GenOption
      BY <3>1, Fields DEF OwnerTypes
    <3> QED BY <1>1, <1>5, <2>1, <3>1, <3>2, AllowedFacts, StreamingKeeps DEF Settled
  <2>2. CASE ~sender.allowed
    BY <1>5, <2>2, UnchangedSettles DEF HandleStartStream
  <2> QED BY <2>1, <2>2
<1>6. CASE Admitted(g, kind) /\ kind = "StreamConfig" /\ HandleStreamConfig(g)
           /\ UNCHANGED server
  <2>1. CASE UNCHANGED owner
    BY <1>6, <2>1, UnchangedSettles
  <2>2. CASE streamConfig' = g /\ BeginStreaming
             /\ UNCHANGED <<sender, pendingPairing, controlOpen, frame, placeholderAfter>>
    <3>1. sender.allowed
      BY <1>6, AdmittedFacts
    <3>2. sender' \in [owner: GenOption, allowed: BOOLEAN]
      BY <2>2, Fields DEF OwnerTypes
    <3> QED BY <1>1, <1>6, <2>2, <3>1, <3>2, AllowedFacts, StreamingKeeps DEF Settled
  <2> QED BY <1>6, <2>1, <2>2 DEF HandleStreamConfig
<1>7. CASE HandleStopStream(g)
  BY <1>7, EndSessionSettles, UnchangedSettles DEF HandleStopStream
<1>8. CASE UNCHANGED <<owner, server>>
  BY <1>8, UnchangedSettles
<1> QED BY <1>2, <1>3, <1>4, <1>5, <1>6, <1>7, <1>8 DEF HandleControl

-----------------------------------------------------------------------------
(* The owner thread.                                                        *)

(* The head of the reliable queue is one event of one connection, and only  *)
(* taking an announcement loses one.                                        *)
LEMMA TakenFacts ==
    ASSUME IInv, NEW kinds, Taken(kinds)
    PROVE  /\ Head(events) \in Event /\ Head(events).session \in Generation
           /\ Head(events).kind \in kinds
           /\ QueueTypes' /\ UNCHANGED activeSession
           /\ \A g: Queued(Announcement(g), events)
                       /\ Announcement(g) # Head(events)
                    => Queued(Announcement(g), events')
<1>1. events \in Seq(Event) /\ events # <<>> /\ events' = Tail(events)
      /\ Head(events).kind \in kinds /\ media' = media /\ activeSession' = activeSession
  BY Fields DEF Taken, QueueTypes
<1>2. /\ Tail(events) \in Seq(Event) /\ Head(events) \in Event
      /\ \A x: Queued(x, events) /\ x # Head(events) => Queued(x, Tail(events))
  BY <1>1, TailFacts
<1>3. Head(events).session \in Generation
  BY <1>2 DEF Event
<1>4. QueueTypes'
  BY <1>1, <1>2, Fields DEF QueueTypes
<1> QED BY <1>1, <1>2, <1>3, <1>4

LEMMA PollConnectedKeeps ==
    ASSUME IInv, PollConnected
    PROVE  IInv'
<1> DEFINE g == Head(events).session
<1>1. /\ Head(events) \in Event /\ g \in Generation /\ Head(events).kind = "Connected"
      /\ QueueTypes' /\ UNCHANGED activeSession /\ UNCHANGED server
      /\ \A h: Queued(Announcement(h), events) /\ Announcement(h) # Head(events)
                 => Queued(Announcement(h), events')
  BY TakenFacts DEF PollConnected
<1>2. Head(events) = Announcement(g)
  BY <1>1 DEF Event, Announcement
<1>3. IF activeSession = g THEN BeginSession(g) ELSE UNCHANGED owner
  BY DEF PollConnected
<1>4. OwnerTypes' /\ OwnerShape'
      /\ life'.active = IF activeSession = g THEN g ELSE life.active
  BY <1>1, <1>3, BeginSessionKeeps, OwnerUnchanged
<1>5. TypeOK'
  BY <1>1, <1>4 DEF TypeOK, OwnerTypes, QueueTypes, Event, IInv
<1>6. TaskShape'
  BY <1>1, Fields DEF TaskShape
<1>7. NoUnattendedConnection'
  <2>1. SUFFICES ASSUME server.phase = "Serving", ~server.closing
                 PROVE  \/ life'.active = server.session
                        \/ Queued(Announcement(server.session), events')
    BY <1>1 DEF NoUnattendedConnection, Queued, Announcement
  <2>2. activeSession = server.session
    BY <2>1, Fields DEF TaskShape
  <2>3. CASE g = server.session
    BY <1>4, <2>2, <2>3
  <2>4. CASE g # server.session
    <3>1. Announcement(server.session) # Head(events)
      BY <1>2, <2>4 DEF Announcement
    <3>2. life'.active = life.active
      BY <1>4, <2>2, <2>4
    <3> QED BY <1>1, <2>1, <3>1, <3>2, UnattendedQueued DEF IInv
  <2> QED BY <2>3, <2>4
<1> QED BY <1>4, <1>5, <1>6, <1>7 DEF IInv

LEMMA PollDisconnectedKeeps ==
    ASSUME IInv, PollDisconnected
    PROVE  IInv'
<1>1. /\ Head(events) \in Event /\ Head(events).session \in Generation
      /\ Head(events).kind = "Disconnected"
      /\ QueueTypes' /\ UNCHANGED activeSession /\ UNCHANGED server
      /\ \A h: Queued(Announcement(h), events) /\ Announcement(h) # Head(events)
                 => Queued(Announcement(h), events')
  BY TakenFacts DEF PollDisconnected
<1>2. \A h: Queued(Announcement(h), events) => Queued(Announcement(h), events')
  BY <1>1 DEF Announcement
<1>3. CASE activeSession # NoGen
  <2>1. UNCHANGED <<owner, server>>
    BY <1>1, <1>3 DEF PollDisconnected
  <2> QED BY <1>1, <1>2, <2>1, UnchangedSettles, SettledKeeps
<1>4. CASE activeSession = NoGen
  <2>1. PeerDisconnected(Head(events).session)
    BY <1>4 DEF PollDisconnected
  <2>2. OwnerTypes' /\ OwnerShape'
    BY <1>1, <2>1, PeerDisconnectedKeeps
  <2>3. server.phase # "Serving" /\ TaskShape'
    BY <1>1, <1>4, Fields DEF TaskShape
  <2>4. NoUnattendedConnection'
    BY <1>1, <2>3 DEF NoUnattendedConnection
  <2>5. TypeOK'
    BY <1>1, <2>2 DEF TypeOK, OwnerTypes, QueueTypes, Event, IInv
  <2> QED BY <2>2, <2>3, <2>4, <2>5 DEF IInv
<1> QED BY <1>3, <1>4

LEMMA PollControlKeeps ==
    ASSUME IInv, PollControl
    PROVE  IInv'
<1>1. /\ Head(events) \in Event /\ Head(events).session \in Generation
      /\ Head(events).kind \in Controls
      /\ QueueTypes' /\ UNCHANGED activeSession
      /\ \A h: Queued(Announcement(h), events) /\ Announcement(h) # Head(events)
                 => Queued(Announcement(h), events')
  BY TakenFacts DEF PollControl
<1>2. \A h: Queued(Announcement(h), events) => Queued(Announcement(h), events')
  BY <1>1 DEF Announcement, Controls
<1>3. Settled
  BY <1>1, HandleControlSettles, UnchangedSettles DEF PollControl
<1> QED BY <1>1, <1>2, <1>3, SettledKeeps

LEMMA PollVideoKeeps ==
    ASSUME IInv, PollVideo
    PROVE  IInv'
<1>1. /\ life' = life /\ resources' = resources /\ sender' = sender
      /\ pendingPairing' = pendingPairing /\ controlOpen' = controlOpen
      /\ streamConfig' = streamConfig /\ placeholderAfter' = placeholderAfter
      /\ activeSession' = activeSession /\ server' = server /\ events' = events
  BY DEF PollVideo, resources
<1>2. media \in Seq(Generation) /\ media # <<>> /\ media' = Tail(media)
      /\ Len(media) <= MaxMedia
  BY Fields DEF PollVideo, QueueTypes
<1>3. /\ Tail(media) \in Seq(Generation) /\ Head(media) \in Generation
      /\ Len(Tail(media)) <= Len(media) /\ Len(media) \in Nat /\ Len(Tail(media)) \in Nat
  BY <1>2, TailFacts, LenProperties
<1>4. QueueTypes'
  BY <1>1, <1>2, <1>3, Fields, BoundAssumption DEF QueueTypes
<1>5. frame' = frame \/ (frame' \in Generation /\ life.active # NoGen)
  BY <1>3, Fields DEF PollVideo
<1>6. OwnerTypes'
  BY <1>1, <1>5, Fields DEF OwnerTypes, GenOption
<1>7. AllowedHasOwner' /\ StreamingNeedsProof'
  BY <1>1, Fields DEF OwnerShape, AllowedHasOwner, StreamingNeedsProof
<1>8. HoldMatches' /\ NothingSurvivesTeardown'
  BY <1>1, <1>5, Fields DEF OwnerShape, HoldMatches, NothingSurvivesTeardown
<1> QED BY <1>1, <1>4, <1>6, <1>7, <1>8, SettledKeeps DEF Settled, OwnerShape

LEMMA PairingIsActive ==
    ASSUME IInv, pendingPairing # NoGen
    PROVE  pendingPairing \in Generation
BY Fields DEF OwnerTypes, GenOption

LEMMA QueuesUnchanged ==
    ASSUME IInv, UNCHANGED <<events, media>>
    PROVE  /\ QueueTypes'
           /\ \A g: Queued(Announcement(g), events) => Queued(Announcement(g), events')
BY Fields DEF QueueTypes

LEMMA OwnerActionsKeep ==
    ASSUME IInv, User \/ ExpirePairing \/ HoldElapses
    PROVE  IInv'
<1>1. CASE ExpirePairing \/ RejectPairing
  <2>1. pendingPairing \in Generation /\ EndSession(pendingPairing)
        /\ UNCHANGED <<activeSession, events, media>>
    BY <1>1, PairingIsActive DEF ExpirePairing, RejectPairing
  <2> QED BY <2>1, EndSessionSettles, QueuesUnchanged, SettledKeeps
<1>2. CASE HoldElapses
  <2> DEFINE l == [life EXCEPT !.holdPending = FALSE]
  <2>1. /\ life.holdPending = TRUE /\ life' = ResetToAvailableIdle(l)
        /\ PublishPlaceholder /\ UNCHANGED resources
        /\ UNCHANGED <<activeSession, server, events, media>>
    BY <1>2, Fields DEF HoldElapses, task
  <2>2. l \in Life /\ l.active = life.active /\ l.holdPending = FALSE
    BY Fields DEF OwnerTypes, Life
  <2>3. life' \in Life /\ ~life'.holdPending /\ life'.stream = "Idle"
        /\ life'.active = life.active
    BY <2>1, <2>2, EndedTypes
  <2>4. resources = <<NoSender, NoGen, FALSE, NoGen>>
    BY <2>1, Fields DEF OwnerShape, NothingSurvivesTeardown
  <2>5. ResetSessionResources
    BY <2>1, <2>4 DEF resources, ResetSessionResources
  <2>6. Settled
    BY <2>1, <2>3, <2>5, ClearedAway DEF Settled
  <2> QED BY <2>1, <2>6, QueuesUnchanged, SettledKeeps
<1>3. CASE UserClose
  <2>1. /\ life' = [Ended(life) EXCEPT !.listening = FALSE, !.connection = "Idle",
                                       !.stream = "Idle"]
        /\ ResetSessionResources /\ CloseActiveTransport /\ PublishPlaceholder
        /\ UNCHANGED <<activeSession, events, media>>
    BY <1>3 DEF UserClose
  <2>2. life' \in Life /\ ~life'.holdPending /\ life'.stream = "Idle"
    BY <2>1, EndedTypes DEF Life
  <2> QED BY <2>1, <2>2, ClearedAway, QueuesUnchanged, SettledKeeps DEF Settled
<1>4. CASE ConfirmPairing
  <2>1. pendingPairing # NoGen /\ CompletePairing
        /\ UNCHANGED <<activeSession, server, events, media>>
    BY <1>4 DEF ConfirmPairing, task
  <2> QED BY <2>1, CompletePairingKeeps, QueuesUnchanged, SettledKeeps DEF Settled
<1> QED BY <1>1, <1>2, <1>3, <1>4 DEF User

LEMMA StutterKeeps ==
    ASSUME IInv, UNCHANGED vars
    PROVE  IInv'
<1>1. UNCHANGED <<owner, server>> /\ UNCHANGED <<activeSession, events, media>>
  BY DEF vars, task
<1> QED BY <1>1, UnchangedSettles, QueuesUnchanged, SettledKeeps

LEMMA StepInvariant == IInv /\ [Next]_vars => IInv'
<1> SUFFICES ASSUME IInv, [Next]_vars PROVE IInv'
  OBVIOUS
<1>1. CASE Server
  BY <1>1, ServerKeeps
<1>2. CASE Poll
  BY <1>2, PollConnectedKeeps, PollDisconnectedKeeps, PollControlKeeps,
     PollVideoKeeps DEF Poll
<1>3. CASE User \/ ExpirePairing \/ HoldElapses
  BY <1>3, OwnerActionsKeep
<1>4. CASE UNCHANGED vars
  BY <1>4, StutterKeeps
<1> QED BY <1>1, <1>2, <1>3, <1>4 DEF Next

-----------------------------------------------------------------------------
LEMMA InvariantHolds == Spec => []IInv
BY InitInvariant, StepInvariant, PTL DEF Spec

(* Every variable keeps its type: the connection numbers of the session and *)
(* of the queues are ones the server has handed out room for, and the video *)
(* queue never passes its capacity.                                         *)
THEOREM TypeCorrect == Spec => []TypeOK
<1>1. IInv => TypeOK
  BY DEF IInv
<1> QED BY <1>1, InvariantHolds, PTL

(* The deadline of the last-frame hold and the reducer's flag agree through *)
(* every way a session can end and another begin.                           *)
THEOREM HoldStaysMatched == Spec => []HoldMatches
<1>1. IInv => HoldMatches
  BY DEF IInv, OwnerShape
<1> QED BY <1>1, InvariantHolds, PTL

(* A session that ended left no sender, challenge, control generation,      *)
(* configuration, stream or, outside the hold, picture behind.              *)
THEOREM TeardownIsComplete == Spec => []NothingSurvivesTeardown
<1>1. IInv => NothingSurvivesTeardown
  BY DEF IInv, OwnerShape
<1> QED BY <1>1, InvariantHolds, PTL

(* Nobody streams or configures a stream before the proof of the sender is  *)
(* complete, however connections replace each other during a handshake.     *)
THEOREM ProofComesFirst == Spec => []StreamingNeedsProof
<1>1. IInv => StreamingNeedsProof
  BY DEF IInv, OwnerShape
<1> QED BY <1>1, InvariantHolds, PTL

(* The only connection the server serves is announced, adopted or being     *)
(* closed, so it never keeps other phones out unnoticed.                    *)
THEOREM EveryConnectionAttended == Spec => []NoUnattendedConnection
<1>1. IInv => NoUnattendedConnection
  BY DEF IInv
<1> QED BY <1>1, InvariantHolds, PTL

=============================================================================
