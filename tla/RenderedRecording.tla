-------------------------- MODULE RenderedRecording --------------------------
(* The recording of the decoded pictures: the ordered subscription of the  *)
(* frame bus (picoo-frame-hub/src/frame_bus.rs), the worker thread that    *)
(* renders and encodes (picoo-recording/src/rendered.rs) and the session's *)
(* start and stop.                                                         *)
(*                                                                         *)
(* A published frame is its number and what the output timeline makes of   *)
(* it: encode it next, skip it (no output slot is due), start a segment    *)
(* after missed slots (jump), start a segment without a gap (cut).         *)
EXTENDS RecordingBundle

CONSTANTS OrderedCapacity,  \* 8 in the code
          MaxFrames         \* bound on published frames

VARIABLES bus,      \* the ordered publisher and its subscription
          ren,      \* the session's handle: what it shares with the worker
          renWorker \* the worker thread

renderedVars == <<bus, ren, renWorker>>

NoEnd == "open"
Kinds == {"next", "skip", "jump", "cut"}
Nothing == [id |-> 0, kind |-> "skip"]

RenderedInit ==
    /\ bus = [attached |-> FALSE, open |-> FALSE, accepting |-> FALSE, normal |-> FALSE,
              end |-> NoEnd, queue |-> <<>>, count |-> 0]
    /\ ren = [handle |-> FALSE, stop |-> FALSE, result |-> NoEnd, due |-> {}]
    /\ renWorker = [pc |-> "Off", bundle |-> NewBundle, active |-> FALSE, first |-> TRUE, wrote |-> {}]

-----------------------------------------------------------------------------
(* The frame bus.                                                          *)

AlreadyActive == bus.attached /\ bus.end = NoEnd /\ bus.accepting

Subscribed == [bus EXCEPT !.attached = TRUE, !.open = TRUE, !.accepting = TRUE, !.normal = FALSE,
                          !.end = NoEnd, !.queue = <<>>]

Detached(b) == [b EXCEPT !.attached = FALSE, !.accepting = FALSE]

(* A full queue ends the subscription, and preview goes on without it.     *)
Published(b, frame) ==
    CASE ~b.attached -> b
      [] b.attached /\ (b.end # NoEnd \/ ~b.accepting \/ ~b.open) -> Detached(b)
      [] OTHER -> IF Len(b.queue) = OrderedCapacity
                  THEN [Detached(b) EXCEPT !.end = "QueueFull"]
                  ELSE [b EXCEPT !.queue = Append(@, frame)]

EndOrdered(b) ==
    IF ~b.attached THEN b
    ELSE [Detached(b) EXCEPT !.end = IF b.accepting THEN "Reset" ELSE @]

(* What the subscriber's poll returns: a frame, an end, or nothing yet.    *)
TryNext(old) ==
    LET ended(end) == [bus |-> [bus EXCEPT !.accepting = FALSE, !.open = FALSE, !.end = end],
                       frame |-> Nothing, end |-> end]
        none(b) == [bus |-> b, frame |-> Nothing, end |-> NoEnd]
    IN  CASE bus.normal -> none(bus)
          [] ~bus.normal /\ bus.end # NoEnd -> ended(bus.end)
          [] ~bus.normal /\ bus.end = NoEnd /\ bus.queue # <<>> ->
                IF old THEN ended("TooOld")
                ELSE [bus |-> [bus EXCEPT !.queue = Tail(@)], frame |-> Head(bus.queue), end |-> NoEnd]
          [] OTHER -> none(IF bus.accepting THEN bus
                           ELSE [bus EXCEPT !.open = FALSE, !.normal = TRUE])

(* The worker's end drops its subscription: cancelled if still accepting.  *)
Dropped(b) == [b EXCEPT !.accepting = FALSE, !.open = FALSE, !.queue = <<>>,
                        !.end = IF b.accepting THEN "Cancelled" ELSE @]

-----------------------------------------------------------------------------
(* The session's side.                                                     *)

StartRenderedRecording ==
    /\ ren.handle => ren.result # NoEnd
    /\ ~AlreadyActive /\ renWorker.pc \notin HoldsSlot
    /\ bus' = Subscribed
    /\ ren' = [handle |-> TRUE, stop |-> FALSE, result |-> NoEnd, due |-> {}]
    /\ renWorker' = [pc |-> "Create", bundle |-> NewBundle, active |-> FALSE, first |-> TRUE, wrote |-> {}]

StopRenderedRecording ==
    /\ ren.handle /\ ~ren.stop
    /\ bus' = [bus EXCEPT !.accepting = FALSE]
    /\ ren' = [ren EXCEPT !.stop = TRUE]
    /\ UNCHANGED renWorker

(* A picture published between the user's start and stop, with an output   *)
(* slot to fill, is one the recording has to account for.  Without an      *)
(* ordered publisher a publication touches nothing that is modelled.       *)
Publish(kind) ==
    /\ bus.attached /\ bus.count < MaxFrames
    /\ LET frame == [id |-> bus.count + 1, kind |-> kind]
       IN  /\ bus' = Published([bus EXCEPT !.count = @ + 1], frame)
           /\ ren' = [ren EXCEPT !.due = IF ren.handle /\ ~ren.stop /\ kind # "skip"
                                         THEN @ \union {frame.id} ELSE @]
    /\ UNCHANGED renWorker

ClearFrames ==
    /\ bus.attached
    /\ bus' = EndOrdered(bus)
    /\ UNCHANGED <<ren, renWorker>>

-----------------------------------------------------------------------------
(* The worker's side.                                                      *)

CloseRendered(w) ==
    IF w.active THEN [w EXCEPT !.bundle = CommitSegment(@), !.active = FALSE] ELSE w

Push(w, frame) ==
    LET started == [w EXCEPT !.first = FALSE]
        at == CASE frame.kind = "jump" /\ ~w.first ->
                     LET closed == CloseRendered(started)
                     IN  IF w.bundle.state = "Recording" THEN [closed EXCEPT !.bundle = RecordGap(@)] ELSE closed
                [] frame.kind = "cut" /\ ~w.first -> CloseRendered(started)
                [] OTHER -> started
    IN  IF frame.kind = "skip" /\ ~w.first THEN w
        ELSE [at EXCEPT !.active = TRUE, !.bundle = MarkStarted(@), !.wrote = @ \union {frame.id}]

FinishAfterSubscriptionEnd_NoGap(w) ==
    [CloseRendered(w) EXCEPT !.bundle = Finish(@), !.pc = "Done"]

FinishAfterSubscriptionEnd(w) ==
    LET at == IF w.bundle.state # "Recording" THEN w
              ELSE [CloseRendered(w) EXCEPT !.bundle = RecordGap(@)]
    IN  [at EXCEPT !.bundle = Finish(@), !.pc = "Done"]

FinishRendered(w) == [CloseRendered(w) EXCEPT !.bundle = Finish(@), !.pc = "Done"]

RenderedFailed(w) == [w EXCEPT !.pc = "Done", !.bundle = Failed(@), !.active = FALSE]

CreateRenderedBundle(ok) ==
    /\ renWorker.pc = "Create"
    /\ renWorker' = IF ok THEN [renWorker EXCEPT !.pc = "Run"] ELSE RenderedFailed(renWorker)
    /\ UNCHANGED <<bus, ren>>

(* One turn of the pump: a stop sends it to the drain, else it polls.      *)
Pump(old) ==
    /\ renWorker.pc = "Run"
    /\ LET next == TryNext(old)
       IN  IF ren.stop
           THEN renWorker' = [renWorker EXCEPT !.pc = "Drain"] /\ UNCHANGED bus
           ELSE /\ bus' = next.bus
                /\ renWorker' = CASE next.end # NoEnd -> FinishAfterSubscriptionEnd(renWorker)
                                  [] next.frame # Nothing -> Push(renWorker, next.frame)
                                  [] OTHER -> renWorker
    /\ UNCHANGED ren

DrainAndFinish(old) ==
    /\ renWorker.pc = "Drain"
    /\ LET next == TryNext(old)
       IN  /\ bus' = next.bus
           /\ renWorker' = CASE next.end # NoEnd -> FinishAfterSubscriptionEnd(renWorker)
                             [] next.frame # Nothing -> Push(renWorker, next.frame)
                             [] OTHER -> FinishRendered(renWorker)
    /\ UNCHANGED ren

(* The renderer, the encoder, the writer or the disk fails.                *)
RenderedWorkerFails ==
    /\ renWorker.pc \in {"Run", "Drain"}
    /\ bus.queue # <<>> \/ bus.end # NoEnd \/ ren.stop
    /\ renWorker' = RenderedFailed(renWorker)
    /\ UNCHANGED <<bus, ren>>

ReleaseRenderedSlot ==
    /\ renWorker.pc = "Done"
    /\ renWorker' = [renWorker EXCEPT !.pc = "Freed"]
    /\ bus' = Dropped(bus)
    /\ UNCHANGED ren

PublishRenderedResult ==
    /\ renWorker.pc = "Freed"
    /\ renWorker' = [renWorker EXCEPT !.pc = "Off"]
    /\ ren' = [ren EXCEPT !.result = renWorker.bundle.state]
    /\ UNCHANGED bus

RenderedWorkerStep ==
    \/ \E ok \in BOOLEAN : CreateRenderedBundle(ok)
    \/ \E old \in BOOLEAN : Pump(old) \/ DrainAndFinish(old)
    \/ ReleaseRenderedSlot \/ PublishRenderedResult
=============================================================================
