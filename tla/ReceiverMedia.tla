---------------------------- MODULE ReceiverMedia ----------------------------
(***************************************************************************)
(* The media path of the desktop receiver: from the datagrams of a stream  *)
(* through reassembly, the jitter buffer and the media scheduler to the    *)
(* decoder's worker thread, and back as completions that may be published. *)
(* Around it stand the gate that waits for the StreamConfig of an epoch,   *)
(* the decoder's capability probe, which answers when it likes, and the    *)
(* recovery of a broken prediction chain.                                  *)
(*                                                                         *)
(* Two threads run: the receiver's owner, whose polls are split into one   *)
(* action per message, packet, deadline, scheduling decision or decoder    *)
(* event, and the decoder worker, which may stay in a codec call for ever. *)
(* Control messages and datagrams travel separately, so media may overtake *)
(* its configuration; datagrams may be reordered and lost.                 *)
(*                                                                         *)
(* Access units carry the numbers 1.. in the order they were encoded, the  *)
(* order of their timestamps; 0 is "none".  The connection is already      *)
(* authenticated: pairing is the subject of ReceiverLifecycle.             *)
(***************************************************************************)
EXTENDS ReassemblyMap, SequencesExt

CONSTANTS
    Sources,       \* what the encoder may send: sequences of [epoch, kind]
    MaxBuffered,   \* complete units the jitter buffer holds (MAX_BUFFERED_FRAMES)
    MaxPending,    \* decode jobs that may wait (MAX_PENDING_DECODE_JOBS)
    MaxConn,       \* bound: connections
    MaxEvents,     \* bound: decoder events the owner leaves unread
    Window         \* bound: how far a datagram may run ahead of the newest seen

(* An epoch is allocated once, in increasing order, and no unit is sent of *)
(* it before its encoder commits (picoo-sender allocate_stream_epoch).     *)
ASSUME SourcesAssumption ==
    \A s \in Sources :
        /\ s \in Seq([epoch : Nat \ {0}, kind : Kinds])
        /\ \A u, v \in DOMAIN s : u < v => s[u].epoch <= s[v].epoch
ASSUME BoundsAssumption ==
    /\ MaxBuffered \in Nat \ {0} /\ MaxPending \in Nat \ {0}
    /\ MaxConn \in Nat \ {0} /\ MaxEvents \in Nat \ {0} /\ Window \in Nat \ {0}

VARIABLES
    source,      \* the access units of this behaviour
    conn,        \* generation of the authenticated connection, 0 for none
    lastConn,    \* the last generation given out
    base,        \* units up to this one were sent on an earlier connection
    newest,      \* newest unit of which a datagram was received
    announced,   \* newest epoch whose StreamConfig arrived on this connection
    readiness,   \* decoder_readiness
    deferred,    \* pending_decoder_configuration
    config,      \* current_stream_config: its epoch
    waiting,     \* waiting_for_stream_config_epoch
    idr,         \* pending_stream_config_idr
    media,       \* reassembly, jitter buffer, recovery phase, decoder worker
    shown        \* the last picture published

vars == <<source, conn, lastConn, base, newest, announced, readiness, deferred, config,
          waiting, idr, media, shown>>
gate == <<deferred, config, waiting, idr>>
link == <<source, conn, lastConn, base>>

Units == DOMAIN source
Epochs == {source[u].epoch : u \in Units}
Kind(u) == source[u].kind
Epoch(u) == source[u].epoch
IsReference(u) == Kind(u) # "disc"

(* The reference picture a unit is predicted from.                         *)
PreviousReference(u) ==
    Max({None} \cup {v \in Units : v < u /\ Epoch(v) = Epoch(u) /\ IsReference(v)})

Healthy == [state |-> "Healthy", unit |-> None]
AwaitingRefresh == [state |-> "AwaitingRefresh", unit |-> None]
RefreshInFlight(u) == [state |-> "RefreshInFlight", unit |-> u]

(* A job knows its connection and whether the decoder was reset since: the *)
(* code compares a generation counter, which only equality is asked of.    *)
Job(u, c) == [unit |-> u, conn |-> c, current |-> TRUE]
ResetItem == [unit |-> None, conn |-> 0, current |-> TRUE]
NoJob == ResetItem

EmptyMedia ==
    [map |-> EmptyMap,          \* reassembly
     jitter |-> <<>>,           \* complete units in the order of completion
     emitted |-> None,          \* last_emitted_pts_us
     phase |-> Healthy,         \* decoder_recovery
     items |-> <<>>,            \* WorkQueue.items
     busy |-> NoJob,            \* the job in the codec
     events |-> <<>>,           \* decoder events the owner has not read
     stopped |-> FALSE,         \* WorkQueue.stopped
     fed |-> None,              \* last reference unit the decoder was given
     given |-> {}]              \* every unit the decoder was given
-----------------------------------------------------------------------------
(* The decoder's work queue (decoder_worker.rs).                           *)

Jobs(items) == {i \in DOMAIN items : items[i].unit # None}
Resets(items) == DOMAIN items \ Jobs(items)

Outdated(job) == IF job.unit = None THEN job ELSE [job EXCEPT !.current = FALSE]

ResetDecoder(s) ==
    IF s.stopped THEN s
    ELSE [s EXCEPT !.items = <<ResetItem>>, !.fed = None, !.busy = Outdated(@),
                   !.events = [i \in DOMAIN @ |-> Outdated(@[i])]]

(* Positions of jobs a reference unit may push out of a full queue.        *)
Evictable(items) == {i \in Jobs(items) : ~IsReference(items[i].unit)}

DecoderAdmission(s, u) ==
    IF \/ s.stopped \/ Kind(u) = "key" \/ Cardinality(Jobs(s.items)) < MaxPending
       \/ (Kind(u) = "ref" /\ Evictable(s.items) # {})
    THEN "Ready"
    ELSE IF Kind(u) = "disc" THEN "DropDiscardable" ELSE "WaitForCapacity"

(* A key frame supersedes every job that has not started; a reset stays.   *)
MakeRoom(s, u) ==
    IF Kind(u) = "key" THEN [i \in 1..Cardinality(Resets(s.items)) |-> ResetItem]
    ELSE IF Cardinality(Jobs(s.items)) < MaxPending THEN s.items
    ELSE RemoveAt(s.items, Min(Evictable(s.items)))
-----------------------------------------------------------------------------
(* Recovery of the prediction chain (recovery.rs).                         *)

EnterDecoderRecovery_KeepsCandidate(s, reason, reset) ==
    LET cleaned == [s EXCEPT !.map = TakeReferenceChainLoss(ClearPending(@)),
                             !.jitter = <<>>, !.emitted = None]
        ready == IF reset THEN ResetDecoder(cleaned) ELSE cleaned
    IN  [ready EXCEPT !.phase = IF @.state = "RefreshInFlight" THEN @ ELSE AwaitingRefresh]

(* enter_decoder_recovery.  Only the step into AwaitingRefresh throws away *)
(* what is not decoded yet, except that a complete key frame (resync) may  *)
(* do so again.                                                            *)
EnterDecoderRecovery(s, reason, reset) ==
    LET discards == s.phase # AwaitingRefresh \/ reason = "RandomAccessResync"
        cleaned == IF discards
                   THEN [s EXCEPT !.map = TakeReferenceChainLoss(ClearPending(@)),
                                  !.jitter = <<>>, !.emitted = None]
                   ELSE s
        ready == IF reset /\ (discards \/ reason = "DecoderError")
                 THEN ResetDecoder(cleaned) ELSE cleaned
    IN  [ready EXCEPT !.phase = AwaitingRefresh]

RecoveryAdmission(s, u) ==
    IF s.phase.state = "Healthy" \/ Kind(u) = "key" THEN "Ready"
    ELSE IF /\ s.phase.state = "RefreshInFlight" /\ Kind(u) = "ref"
            /\ Epoch(u) = Epoch(s.phase.unit) /\ u > s.phase.unit
         THEN "WaitForRefresh" ELSE "Drop"

AcceptsCompletion(s, u) ==
    \/ s.phase.state = "Healthy"
    \/ s.phase = RefreshInFlight(u)

(* The owner notices the loss reassembly has recorded.                     *)
TakeLoss(s) ==
    IF s.map.lost
    THEN EnterDecoderRecovery([s EXCEPT !.map = TakeReferenceChainLoss(@)],
                              "ReferenceAccessUnitLost", TRUE)
    ELSE s
-----------------------------------------------------------------------------
(* The jitter buffer (picoo-jitter) and what enters it (media.rs).         *)

Oldest(s) == Min(Range(s.jitter))

RemoveUnit(jitter, u) == RemoveAt(jitter, CHOOSE i \in DOMAIN jitter : jitter[i] = u)

(* push_at with enforce_limits: the units kept, the one given up if any.   *)
Overflow(jitter) ==
    LET deltas == {u \in Range(jitter) : Kind(u) # "key"}
    IN  IF Len(jitter) <= MaxBuffered THEN None
        ELSE Min(IF deltas # {} THEN deltas ELSE Range(jitter))

PushJitter(s, u) ==
    LET all == Append(s.jitter, u)
        over == Overflow(all)
        pushed == [s EXCEPT !.jitter = IF over = None THEN all ELSE RemoveUnit(all, over)]
    IN  IF s.emitted # None /\ u <= s.emitted
        THEN IF IsReference(u)
             THEN EnterDecoderRecovery(s, "ReferenceAccessUnitLate", TRUE) ELSE s
        ELSE IF over # None
        THEN IF IsReference(over)
             THEN EnterDecoderRecovery(pushed, "ReferenceAccessUnitLate", TRUE) ELSE pushed
        ELSE pushed

QueueAssembledAccessUnit(s, u) ==
    LET resync == Kind(u) = "key" /\ \E v \in Unresolved(s.map) : v < u
    IN  PushJitter(IF resync THEN EnterDecoderRecovery(s, "RandomAccessResync", TRUE) ELSE s, u)

Pop(s, u) == [s EXCEPT !.jitter = RemoveUnit(@, u), !.emitted = u]

(* publish_timeline_access_unit: hand a unit to the decoder.               *)
PublishTimelineAccessUnit(s, u) ==
    IF config # None /\ Epoch(u) # config THEN s
    ELSE IF s.stopped
    THEN IF IsReference(u)
         THEN EnterDecoderRecovery(s, "DecoderQueuePressure", TRUE) ELSE s
    ELSE [s EXCEPT
            !.items = Append(MakeRoom(s, u), Job(u, conn)),
            !.phase = IF Kind(u) = "key" /\ @.state # "Healthy" THEN RefreshInFlight(u) ELSE @,
            !.fed = IF IsReference(u) THEN u ELSE @,
            !.given = @ \cup {u}]
-----------------------------------------------------------------------------
(* The gate in front of the stream: epochs and their StreamConfig.         *)

(* A teardown resets every resource of the session; what the decoder is    *)
(* still working on, and the events already sent, stay.                    *)
TornDown(s) ==
    [ResetDecoder(s) EXCEPT !.map = EmptyMap, !.jitter = <<>>, !.emitted = None, !.phase = Healthy]

EndConnection(s) ==
    /\ conn' = 0 /\ announced' = 0
    /\ deferred' = 0 /\ config' = 0 /\ waiting' = 0 /\ idr' = None
    /\ media' = TornDown(s)
    /\ UNCHANGED <<source, lastConn, base, newest>>

Teardown == EndConnection(media) /\ UNCHANGED <<readiness, shown>>

(* A decoder that cannot be had takes the connection along.                *)
LoseDecoder(s) ==
    /\ readiness' = "Unavailable"
    /\ IF conn # 0 THEN EndConnection(s)
       ELSE media' = s /\ UNCHANGED <<link, newest, announced, gate>>

(* handle_stream_config with a decoder that is ready and admits the format.*)
Configure(epoch) ==
    IF epoch < config THEN UNCHANGED <<config, waiting, idr, media>>
    ELSE LET kept == IF waiting < epoch THEN None ELSE idr
             release == kept # None /\ Epoch(kept) = epoch
             reason == IF config = 0 THEN "InitialConfig" ELSE "EpochChanged"
             ready == IF epoch = config THEN media
                      ELSE EnterDecoderRecovery(media, reason, config # 0)
         IN  /\ config' = epoch
             /\ waiting' = IF waiting <= epoch THEN 0 ELSE waiting
             /\ idr' = IF release THEN None ELSE kept
             /\ media' = IF release THEN QueueAssembledAccessUnit(ready, kept) ELSE ready

(* A StreamConfig arrives, of any epoch, repeated or outdated ones too.    *)
(* While the probe runs the newest is kept for later; if no decoder can be *)
(* had, or not for this format, the connection ends.                       *)
HandleStreamConfig(epoch) ==
    /\ conn # 0
    /\ \/ /\ readiness = "Pending"
          /\ announced' = Raise(announced, epoch) /\ deferred' = Raise(deferred, epoch)
          /\ UNCHANGED <<config, waiting, idr, media>>
          /\ UNCHANGED <<link, newest, readiness, shown>>
       \/ /\ readiness = "Ready"
          /\ announced' = Raise(announced, epoch)
          /\ Configure(epoch)
          /\ UNCHANGED <<link, newest, readiness, deferred, shown>>
       \/ /\ readiness # "Pending"
          /\ Teardown

LearnCapabilities_Forgets ==
    /\ readiness = "Pending"
    /\ readiness' \in {"Ready", "Unavailable"}
    /\ UNCHANGED <<link, newest, announced, gate, media, shown>>

(* The probe answers; finish_decoder_negotiation acts on what was kept.    *)
LearnCapabilities ==
    /\ readiness = "Pending"
    /\ \/ /\ readiness' = "Ready"
          /\ IF conn = 0 \/ deferred = 0
             THEN UNCHANGED <<gate, media>>
             ELSE deferred' = 0 /\ Configure(deferred)
          /\ UNCHANGED <<link, newest, announced, shown>>
       \/ /\ conn # 0 /\ deferred # 0          \* a format it does not decode
          /\ readiness' = "Ready"
          /\ EndConnection(media) /\ UNCHANGED shown
       \/ LoseDecoder(media) /\ UNCHANGED shown

(* A connection made without a decoder is not kept either.                 *)
AbortForDecoder ==
    /\ conn # 0 /\ readiness = "Unavailable"
    /\ Teardown

(* The connection ends, by either side or by the network.                  *)
Disconnect == conn # 0 /\ Teardown

Connect ==
    /\ conn = 0 /\ lastConn < MaxConn
    /\ conn' = lastConn + 1 /\ lastConn' = lastConn + 1
    /\ base' = newest
    /\ UNCHANGED <<source, newest, announced, readiness, gate, media, shown>>
-----------------------------------------------------------------------------
(* Datagrams (media_ingress.rs).                                           *)

Packet(u, f) == [epoch |-> Epoch(u), id |-> u, kind |-> Kind(u), fragment |-> f]

(* Datagrams in flight: of this connection, not too far ahead and not so   *)
(* late that the tombstones have forgotten their unit.                     *)
InFlight(u) ==
    conn # 0 /\ u > base /\ u <= Raise(base, newest) + Window /\ u + Reach > newest

(* The fragments of one unit arrive in order, of different units in any;   *)
(* Reassembly has them in any order, duplicated, and with parity.          *)
NextFragment(u) ==
    Min(IF u \in DOMAIN media.map.frames THEN Data \ media.map.frames[u].got ELSE Data)

MustWait_BeforeFirstConfig(u) == config = 0

(* Media of an epoch that is not configured waits for its StreamConfig.    *)
MustWait(u) == Epoch(u) > config
Refused(u) == Epoch(u) < config \/ (MustWait(u) /\ Epoch(u) < waiting)

IngestVideoPacket(u) ==
    /\ InFlight(u)
    /\ newest' = Raise(newest, u)
    /\ IF Refused(u) THEN UNCHANGED <<waiting, idr, media>>
       ELSE LET opened == MustWait(u) /\ waiting # Epoch(u)
                result == Ingest(media.map, Packet(u, NextFragment(u)))
                stored == [media EXCEPT !.map = result.map]
                keeps == result.unit # None /\ Kind(u) = "key"
            IN  /\ waiting' = IF opened THEN Epoch(u) ELSE waiting
                /\ idr' = IF MustWait(u) /\ keeps THEN u
                          ELSE IF opened THEN None ELSE idr
                /\ media' =
                     IF MustWait(u)
                     THEN [stored EXCEPT !.map = TakeReferenceChainLoss(@)]
                     ELSE TakeLoss(IF result.unit # None
                                   THEN QueueAssembledAccessUnit(stored, u) ELSE stored)
    /\ UNCHANGED <<link, announced, readiness, deferred, config, shown>>

(* A batch that waited too long before the owner read it.                  *)
DiscardStaleVideoBatch(u) ==
    /\ InFlight(u)
    /\ newest' = Raise(newest, u)
    /\ LET map == DiscardStaleAccessUnit(media.map, Packet(u, 1))
           stored == [media EXCEPT !.map = TakeReferenceChainLoss(map)]
       IN  media' = IF map.lost
                    THEN EnterDecoderRecovery(stored, "ReferenceAccessUnitLate", TRUE)
                    ELSE stored
    /\ UNCHANGED <<link, announced, readiness, gate, shown>>

(* The deadline of an unfinished unit or of a gap passes.                  *)
ExpireReassembly(u) ==
    /\ u \in Unresolved(media.map)
    /\ media' = TakeLoss([media EXCEPT !.map = ExpireThrough(@, u)])
    /\ UNCHANGED <<link, newest, announced, readiness, gate, shown>>
-----------------------------------------------------------------------------
(* One decision of the media scheduler (drain_jitter, media_scheduler.rs). *)

DiscardExpired_Silent(n) ==
    /\ n \in 1..Len(media.jitter)
    /\ media' = [media EXCEPT !.jitter = SubSeq(@, n + 1, Len(@))]
    /\ UNCHANGED <<link, newest, announced, readiness, gate, shown>>

(* The units that have waited longest exceed their age.                    *)
DiscardExpired(n) ==
    /\ n \in 1..Len(media.jitter)
    /\ LET old == {media.jitter[i] : i \in 1..n}
           rest == [media EXCEPT !.jitter = SubSeq(@, n + 1, Len(@))]
       IN  media' = IF \E u \in old : IsReference(u)
                    THEN EnterDecoderRecovery(rest, "ReferenceAccessUnitLate", TRUE)
                    ELSE rest
    /\ UNCHANGED <<link, newest, announced, readiness, gate, shown>>

(* The front unit is due and no older one can still complete.              *)
Due(s) ==
    /\ s.jitter # <<>>
    /\ \A v \in Unresolved(s.map) : v >= Oldest(s)

DiscardReadyFrame ==
    /\ Due(media)
    /\ LET u == Oldest(media)
       IN  /\ \/ RecoveryAdmission(media, u) = "Drop"
              \/ /\ RecoveryAdmission(media, u) = "Ready"
                 /\ DecoderAdmission(media, u) = "DropDiscardable"
           /\ media' = Pop(media, u)
    /\ UNCHANGED <<link, newest, announced, readiness, gate, shown>>

DecodeReadyFrame ==
    /\ Due(media)
    /\ LET u == Oldest(media)
       IN  /\ RecoveryAdmission(media, u) = "Ready"
           /\ DecoderAdmission(media, u) = "Ready"
           /\ media' = PublishTimelineAccessUnit(Pop(media, u), u)
    /\ UNCHANGED <<link, newest, announced, readiness, gate, shown>>

(* request_keyframe from the live page: the decoder itself is kept.        *)
RequestKeyframe ==
    /\ conn # 0
    /\ media' = EnterDecoderRecovery(media, "ManualRepair", FALSE)
    /\ UNCHANGED <<link, newest, announced, readiness, gate, shown>>
-----------------------------------------------------------------------------
(* The worker thread (run_worker, process_work_item).                      *)

Idle(s) == s.busy = NoJob

TakeItem ==
    /\ readiness # "Pending" /\ ~media.stopped /\ Idle(media) /\ media.items # <<>>
    /\ media' = [media EXCEPT !.items = Tail(@),
                              !.busy = IF Head(media.items).unit = None THEN @ ELSE Head(media.items)]
    /\ UNCHANGED <<link, newest, announced, readiness, gate, shown>>

(* What a decoder may say of a unit; "refused" is a key frame it did not   *)
(* accept as a fresh start although it reported no error.                  *)
Results(u) == {"picture", "error"} \cup (IF Kind(u) = "key" THEN {"refused"} ELSE {})

FinishDecode(result) ==
    /\ ~Idle(media) /\ Len(media.events) < MaxEvents
    /\ result \in Results(media.busy.unit)
    /\ media' = [media EXCEPT !.busy = NoJob,
                   !.events = Append(@, [unit |-> media.busy.unit, conn |-> media.busy.conn,
                                         current |-> media.busy.current, result |-> result])]
    /\ UNCHANGED <<link, newest, announced, readiness, gate, shown>>

(* The codec panics, or cannot be reset: the worker ends for good.         *)
WorkerFails ==
    /\ readiness = "Ready" /\ ~media.stopped /\ Len(media.events) < MaxEvents
    /\ ~Idle(media) \/ (media.items # <<>> /\ Head(media.items).unit = None)
    /\ media' = [media EXCEPT !.busy = NoJob, !.items = <<>>, !.stopped = TRUE,
                   !.events = Append(@, [unit |-> None, conn |-> 0, current |-> TRUE,
                                         result |-> "unavailable"])]
    /\ UNCHANGED <<link, newest, announced, readiness, gate, shown>>
-----------------------------------------------------------------------------
(* The owner reads a decoder event (media_publish.rs).                     *)

TimelineIsCurrent(e) == e.conn = conn /\ conn # 0 /\ config # 0 /\ Epoch(e.unit) = config

MayPublish(s, e) == e.current /\ TimelineIsCurrent(e) /\ AcceptsCompletion(s, e.unit)

(* A key frame that completes as the candidate ends the recovery, a        *)
(* refused candidate or an error starts it again.                          *)
HandleDecoderResult(s, e) ==
    LET candidate == s.phase = RefreshInFlight(e.unit)
    IN  IF e.result = "error" \/ (e.result = "refused" /\ candidate)
        THEN [media |-> EnterDecoderRecovery(s, "DecoderError", TRUE), shows |-> FALSE]
        ELSE [media |-> IF candidate /\ e.result = "picture" THEN [s EXCEPT !.phase = Healthy] ELSE s,
              shows |-> TRUE]

DrainDecoderEvent ==
    /\ media.events # <<>>
    /\ LET e == Head(media.events)
           rest == [media EXCEPT !.events = Tail(@)]
           handled == HandleDecoderResult(rest, e)
       IN  IF e.result = "unavailable" THEN LoseDecoder(rest) /\ UNCHANGED shown
           ELSE /\ media' = IF MayPublish(rest, e) THEN handled.media ELSE rest
                /\ shown' = IF MayPublish(rest, e) /\ handled.shows THEN e.unit ELSE shown
                /\ UNCHANGED <<link, newest, announced, readiness, gate>>
-----------------------------------------------------------------------------
Init ==
    /\ source \in Sources
    /\ conn = 0 /\ lastConn = 0 /\ base = None /\ newest = None /\ announced = 0
    /\ readiness = "Pending" /\ deferred = 0 /\ config = 0 /\ waiting = 0 /\ idr = None
    /\ media = EmptyMedia /\ shown = None

Owner ==
    \/ LearnCapabilities \/ AbortForDecoder
    \/ \E u \in Units : ExpireReassembly(u)
    \/ \E n \in 1..Len(media.jitter) : DiscardExpired(n)
    \/ DiscardReadyFrame \/ DecodeReadyFrame
    \/ DrainDecoderEvent

Worker == TakeItem \/ (\E r \in {"picture", "error", "refused"} : FinishDecode(r)) \/ WorkerFails

Environment ==
    \/ Connect \/ Disconnect \/ RequestKeyframe
    \/ \E e \in Epochs : HandleStreamConfig(e)
    \/ \E u \in Units : IngestVideoPacket(u)
    \/ \E u \in Units : DiscardStaleVideoBatch(u)

Next == Owner \/ Worker \/ Environment

Spec == Init /\ [][Next]_vars

(* The owner wakes for every deadline and event (next_wake_delay); nothing *)
(* is assumed of the worker, which a codec call may keep for ever, nor of  *)
(* the network.                                                            *)
FairSpec ==
    /\ Spec
    /\ WF_vars(\E u \in Units : ExpireReassembly(u))
    /\ WF_vars(\E n \in 1..Len(media.jitter) : DiscardExpired(n))
    /\ WF_vars(DiscardReadyFrame \/ DecodeReadyFrame)
    /\ WF_vars(DrainDecoderEvent) /\ WF_vars(LearnCapabilities) /\ WF_vars(AbortForDecoder)
-----------------------------------------------------------------------------
JobType == [unit : Units \cup {None}, conn : 0..MaxConn, current : BOOLEAN]
EventType == [unit : Units \cup {None}, conn : 0..MaxConn, current : BOOLEAN,
              result : {"picture", "error", "refused", "unavailable"}]

(* Types, and the bounds the code keeps: the work queue never holds more   *)
(* than MaxPending jobs nor the jitter buffer more than MaxBuffered units, *)
(* each in it once (decoder_worker.rs, picoo-jitter enforce_limits).       *)
TypeOK ==
    /\ conn \in 0..MaxConn /\ lastConn \in 0..MaxConn /\ conn <= lastConn
    /\ {base, newest, idr, shown} \subseteq Units \cup {None}
    /\ {announced, deferred, config, waiting} \subseteq Epochs \cup {0}
    /\ readiness \in {"Pending", "Ready", "Unavailable"}
    /\ DOMAIN media = DOMAIN EmptyMedia
    /\ IsMap(media.map, Units, Epochs)
    /\ Range(media.jitter) \subseteq Units /\ Len(media.jitter) <= MaxBuffered
    /\ IsInjective(media.jitter)
    /\ media.phase \in {Healthy, AwaitingRefresh} \cup {RefreshInFlight(u) : u \in Units}
    /\ Range(media.items) \subseteq JobType /\ Cardinality(Jobs(media.items)) <= MaxPending
    /\ media.busy \in JobType /\ media.stopped \in BOOLEAN
    /\ Range(media.events) \subseteq EventType /\ Len(media.events) <= MaxEvents
    /\ {media.emitted, media.fed} \subseteq Units \cup {None}
    /\ media.given \subseteq Units

(* Media of an epoch without a StreamConfig goes no further than the gate, *)
(* and what the gate keeps is a key frame of the epoch it waits for        *)
(* (media_ingress.rs: datagrams overtake their StreamConfig).              *)
GateHolds ==
    /\ \A u \in Range(media.jitter) : Epoch(u) <= config
    /\ idr # None => Kind(idr) = "key" /\ Epoch(idr) = waiting
    /\ waiting # 0 => waiting > config

(* Once the decoder's probe has answered, the newest StreamConfig that     *)
(* arrived is the one in force; until then it is the one kept for later    *)
(* (decoder_capabilities.rs: the configuration may arrive first).          *)
NewestConfigInForce ==
    readiness # "Unavailable" =>
        announced = IF readiness = "Pending" THEN deferred ELSE config

(* A recovery that waits for a candidate waits for something: the key      *)
(* frame is queued, in the codec, or its completion is unread              *)
(* (recovery.rs: reset, supersession and late completions meet here).      *)
CandidateIsUnderWay ==
    \A u \in Units : media.phase = RefreshInFlight(u) =>
        \/ media.stopped
        \/ \E j \in Range(media.items) \cup {media.busy} \cup Range(media.events) :
              j.unit = u /\ j.current

Gives(u) == u \in media'.given /\ u \notin media.given

(* A reference unit that leaves the receive path undecoded leaves the      *)
(* decoder awaiting a fresh start (media.rs, media_ingress.rs, mod.rs: the *)
(* ways a unit is given up are spread over all of them).                   *)
Present(s) == Unresolved(s.map) \cup Range(s.jitter)
Abandoned(s, t) ==
    {u \in Present(s) \ Present(t) : u \in s.map.gaps => ~Closed(s.map, u)}

LossStartsRecovery ==
    [][\A u \in Abandoned(media, media') :
          /\ IsReference(u) /\ ~Gives(u) /\ Epoch(u) = config
          /\ conn' = conn /\ config' = config /\ media'.map.epoch = media.map.epoch
          => media'.phase = AwaitingRefresh]_vars

Positions(items, u) == {i \in DOMAIN items : items[i].unit = u}

(* No access unit is handed to the decoder twice (ADR 0011, line 269).     *)
DecodedOnce ==
    [][\A u \in media.given : Positions(media'.items, u) # {} => Positions(media.items, u) # {}]_vars

(* The receive path never stays clogged: whatever the decoder does, units  *)
(* that are complete are decoded or given up, and what is missing is       *)
(* waited for only so long (media_scheduler.rs, next_wake_delay).          *)
Clogged == media.jitter # <<>> \/ Unresolved(media.map) # {}
PathDrains == Clogged ~> ~Clogged

(* No delta is handed to a decoder that was not given the picture the      *)
(* delta is predicted from (ADR 0011, line 267).                           *)
NoDeltaOnBrokenChain ==
    [][\A u \in Units : Gives(u) /\ Kind(u) # "key" => media.fed = PreviousReference(u)]_vars
=============================================================================
