-------------------------- MODULE EncodedRecording --------------------------
(* The recording of the encoded stream: what the receiver session hands    *)
(* over (session/recording.rs), the late-configuration gate, the bounded   *)
(* ingress, and the worker thread with its reordering and its segments     *)
(* (picoo-recording: configuration_wait.rs, ingress.rs, worker.rs,         *)
(* reorder.rs, encoded.rs).                                                *)
(*                                                                         *)
(* An access unit is its position in Source, a sequence of [epoch, idr];   *)
(* deadlines may pass at any moment.  The two threads share the queue, the *)
(* failure and the sender's end of the queue, and touch one at a time: a   *)
(* call of the session leaves its accesses in `todo`, the worker polls in  *)
(* two steps.                                                              *)
EXTENDS RecordingBundle, FiniteSetsExt, SequencesExt

CONSTANTS Source,           \* the stream: <<[epoch, idr], ...>>
          IngressCapacity,  \* 16 in the code
          WaitCapacity,     \* 16 in the code
          ReorderCapacity,  \* 16 in the code
          Window            \* how far reassembly completes units out of order

ASSUME SourceAssumption == Source \in Seq([epoch : Nat \ {0}, idr : BOOLEAN])

VARIABLES stream,   \* the session's media: StreamConfig in force, decided units
          enc,      \* the session's handle: what it shares with the worker
          encWorker \* the worker thread

encodedVars == <<stream, enc, encWorker>>

Units == 1 .. Len(Source)
Epoch(u) == Source[u].epoch
Epochs == {Epoch(u) : u \in Units}
None == "none"
Gap == 0

NewIngress == [handle |-> TRUE, held |-> TRUE, failure |-> None, queue |-> <<>>, refresh |-> FALSE,
               result |-> None, wait |-> <<>>, todo |-> <<>>, accepted |-> <<>>, missed |-> FALSE]

NewWriter == [pc |-> "Create", bundle |-> NewBundle, active |-> 0, want |-> TRUE,
              pending |-> {}, last |-> 0, source |-> 0, written |-> {}]

EncodedInit ==
    /\ stream = [config |-> 0, floor |-> 0, decided |-> {}]
    /\ enc = [NewIngress EXCEPT !.handle = FALSE, !.held = FALSE]
    /\ encWorker = [NewWriter EXCEPT !.pc = "Off"]

-----------------------------------------------------------------------------
(* The session's side.                                                     *)

Alive == encWorker.pc \in {"Create", "Run", "Receive"}

IsAccepting(e) == e.held /\ e.failure = None /\ e.result = None

(* What a call of the session still has to do to the shared state.         *)
Offer(event) == [op |-> "offer", arg |-> event]
Fail(failure) == [op |-> "fail", arg |-> failure]
Drop == [op |-> "drop", arg |-> None]
Control(request) == [op |-> "control", arg |-> request]

Then(e, steps) == [e EXCEPT !.todo = @ \o steps]

(* A unit or gap of the user's recording that the ingress did not take.    *)
Missed(e) == [e EXCEPT !.missed = @ \/ e.held]

GiveUpWaiting(e, failure) == Then([Missed(e) EXCEPT !.wait = <<>>], <<Fail(failure)>>)

(* Units whose configuration is known leave the gate in order of arrival;  *)
(* one that waited too long ends the recording.                            *)
Resolve(e, late) ==
    IF stream.config = 0 THEN e
    ELSE IF late /\ e.wait # <<>> THEN GiveUpWaiting(e, "ConfigurationUnavailable")
    ELSE LET known == [i \in DOMAIN e.wait |->
                          [e.wait[i] EXCEPT !.known = @ \/ Epoch(e.wait[i].unit) = stream.config]]
             open == Cardinality({i \in DOMAIN known : \A j \in 1 .. i : known[j].known})
         IN  Then([e EXCEPT !.wait = SubSeq(known, open + 1, Len(known))],
                  [i \in 1 .. open |-> Offer(known[i].unit)])

PushWait(e, u) ==
    IF Len(e.wait) = WaitCapacity THEN GiveUpWaiting(e, "Capacity")
    ELSE [e EXCEPT !.wait = Append(@, [unit |-> u, known |-> Epoch(u) = stream.config])]

RecordAssembledAccessUnit(e, u, late) ==
    IF ~IsAccepting(e) \/ stream.config = 0 THEN Missed(e)
    ELSE Resolve(PushWait(Resolve(e, late), u), FALSE)

ReportGap(e) == Then(e, <<Offer(Gap)>>)

StopEncoded(e, late) ==
    LET resolved == Resolve(e, late)
        settled == IF resolved.wait = <<>> THEN resolved
                   ELSE GiveUpWaiting(resolved, "ConfigurationUnavailable")
    IN  Then(settled, <<Drop>>)

-----------------------------------------------------------------------------
(* One access to the shared state after the other.                         *)

Terminate(e, failure) == IF e.held /\ e.failure = None THEN [e EXCEPT !.failure = failure] ELSE e

OfferEvent_DropsQuietly(e, event, old) ==
    IF ~e.held \/ e.failure # None \/ Len(e.queue) = IngressCapacity THEN Missed(e)
    ELSE IF old THEN [Missed(e) EXCEPT !.todo = <<Fail("TooOld")>> \o @]
    ELSE IF ~Alive THEN [Missed(e) EXCEPT !.todo = <<Fail("WorkerStopped")>> \o @]
    ELSE [e EXCEPT !.queue = Append(@, event), !.accepted = Append(@, event)]

(* offer_at and offer_event: what is refused sets the failure, in a step   *)
(* of its own.  Nothing lies between the look at the failure and the       *)
(* attempt to send: a worker that fails there also ends.                   *)
OfferEvent(e, event, old) ==
    LET refused(failure) == [Missed(e) EXCEPT !.todo = <<Fail(failure)>> \o @]
    IN  IF ~e.held \/ e.failure # None THEN Missed(e)
        ELSE IF old THEN refused("TooOld")
        ELSE IF ~Alive THEN refused("WorkerStopped")
        ELSE IF Len(e.queue) = IngressCapacity THEN refused("Capacity")
        ELSE [e EXCEPT !.queue = Append(@, event), !.accepted = Append(@, event)]

(* A refresh the worker asked for becomes a keyframe request to the phone; *)
(* with video no longer allowed the recording stops, without a connection  *)
(* to send it on it stops with a gap.                                      *)
TakeRefresh(e, request) ==
    LET taken == [e EXCEPT !.refresh = FALSE]
    IN  CASE ~IsAccepting(e) \/ ~e.refresh -> e
          [] IsAccepting(e) /\ e.refresh /\ request = "forbidden" -> StopEncoded(taken, FALSE)
          [] IsAccepting(e) /\ e.refresh /\ request = "failed" -> StopEncoded(ReportGap(taken), FALSE)
          [] OTHER -> taken

SessionIsFree == enc.todo = <<>>

Proceed(old) ==
    /\ enc.todo # <<>>
    /\ LET step == Head(enc.todo)
           rest == [enc EXCEPT !.todo = Tail(@)]
       IN  /\ old => step.op = "offer" /\ step.arg # Gap
           /\ enc' = CASE step.op = "offer" -> OfferEvent(rest, step.arg, old)
                       [] step.op = "fail" -> Terminate(rest, step.arg)
                       [] step.op = "drop" -> [rest EXCEPT !.held = FALSE]
                       [] step.op = "control" -> TakeRefresh(rest, step.arg)
    /\ UNCHANGED <<stream, encWorker>>

-----------------------------------------------------------------------------
(* The session's calls.                                                    *)

(* Units that passed while nothing was recorded are decided by then.       *)
StartEncodedRecording(passed) ==
    /\ SessionIsFree /\ stream.config # 0
    /\ enc.handle => enc.result # None
    /\ encWorker.pc \notin HoldsSlot
    /\ enc' = NewIngress
    /\ encWorker' = NewWriter
    /\ stream' = [stream EXCEPT !.decided = @ \union {u \in 1 .. passed : Epoch(u) = stream.config}]

StopEncodedRecording(late) ==
    /\ SessionIsFree /\ enc.held
    /\ enc' = StopEncoded(enc, late)
    /\ UNCHANGED <<stream, encWorker>>

PumpRecordingControl(late, request) ==
    /\ SessionIsFree
    /\ enc' = Then(Resolve(enc, late), <<Control(request)>>)
    /\ UNCHANGED <<stream, encWorker>>

(* What reassembly reports: a unit completed, or one given up.  A unit of  *)
(* a new epoch ends the old one, whose open units nobody reports.          *)
Undecided(u) ==
    /\ SessionIsFree /\ enc.handle /\ enc.result = None
    /\ u \notin stream.decided
    /\ Epoch(u) > stream.floor /\ Epoch(u) >= stream.config
    /\ \A v \in stream.decided : Epoch(v) <= Epoch(u)
    /\ \A v \in Units \ stream.decided : Epoch(v) = Epoch(u) => u < v + Window

CompleteAccessUnit(u, late) ==
    /\ Undecided(u)
    /\ stream' = [stream EXCEPT !.decided = @ \union {u}]
    /\ enc' = RecordAssembledAccessUnit(enc, u, late)
    /\ UNCHANGED encWorker

LoseAccessUnit(u) ==
    /\ Undecided(u)
    /\ stream' = [stream EXCEPT !.decided = @ \union {u}]
    /\ enc' = ReportGap(enc)
    /\ UNCHANGED encWorker

HandleStreamConfig(epoch) ==
    /\ SessionIsFree
    /\ epoch > stream.config /\ epoch > stream.floor
    /\ stream' = [stream EXCEPT !.config = epoch]
    /\ UNCHANGED <<enc, encWorker>>

-----------------------------------------------------------------------------
(* The worker's side.                                                      *)

CloseSegment(w) ==
    IF w.active = 0 THEN w
    ELSE [w EXCEPT !.bundle = CommitSegment(@), !.active = 0]

WriterGap(w) ==
    IF w.bundle.state = "Arming" THEN w
    ELSE [CloseSegment(w) EXCEPT !.bundle = RecordGap(@), !.want = TRUE]

(* A change of source closes the segment, a missing unit also records a    *)
(* gap; a segment opens with an IDR only.                                  *)
WriteOrdered(w, u) ==
    LET at == CASE w.active # 0 /\ Epoch(w.active) # Epoch(u) -> [CloseSegment(w) EXCEPT !.want = TRUE]
                [] w.active # 0 /\ Epoch(w.active) = Epoch(u) /\ u # w.active + 1 -> WriterGap(w)
                [] OTHER -> w
    IN  IF at.active = 0 /\ ~Source[u].idr THEN at
        ELSE [at EXCEPT !.active = u, !.bundle = MarkStarted(@), !.written = @ \union {u},
                        !.want = @ /\ ~Source[u].idr]

(* The units leave reordering in ascending order.                          *)
WriteAll(w, units) ==
    MapThenFoldSet(LAMBDA u, acc : WriteOrdered(acc, u), w, LAMBDA u : u, Max, units)

(* Reordering holds a unit until its predecessor came or a unit up to      *)
(* `expired` has waited 50 ms; then everything up to that one leaves.      *)
Released(w, expired) ==
    LET forced == {p \in w.pending : p <= expired}
        top == IF forced = {} THEN w.last ELSE Max(forced)
    IN  forced \union {p \in w.pending : top # 0 /\ p > top /\ (top + 1) .. p \subseteq w.pending}

Release(w, expired) ==
    LET ready == Released(w, expired)
    IN  IF ready = {} THEN w
        ELSE WriteAll([w EXCEPT !.pending = @ \ ready, !.last = Max(ready)], ready)

Drain(w) ==
    IF w.pending = {} THEN w
    ELSE WriteAll([w EXCEPT !.pending = {}, !.last = Max(w.pending)], w.pending)

Refuses(w, u) ==
    \/ Epoch(u) < w.source
    \/ w.source = Epoch(u) /\ (u <= w.last \/ u \in w.pending \/ Cardinality(w.pending) = ReorderCapacity)

PushReorder(w, u, expired) ==
    LET sourced == IF w.source = Epoch(u) THEN w
                   ELSE [Drain(w) EXCEPT !.source = Epoch(u), !.last = 0]
    IN  Release([sourced EXCEPT !.pending = @ \union {u}], expired)

Ended(w) == [w EXCEPT !.pc = "Done", !.bundle = Failed(@), !.active = 0]

CreateEncodedBundle(ok) ==
    /\ encWorker.pc = "Create"
    /\ encWorker' = IF ok THEN [encWorker EXCEPT !.pc = "Run"] ELSE Ended(encWorker)
    /\ UNCHANGED <<stream, enc>>

(* The top of the loop forwards a refresh the writer asked for; the poll   *)
(* begins with a look at the failure.                                      *)
LookForFailure ==
    /\ encWorker.pc = "Run"
    /\ LET looped == [encWorker EXCEPT !.want = FALSE]
           forwarded == [enc EXCEPT !.refresh = @ \/ encWorker.want]
       IN  IF enc.failure = None
           THEN encWorker' = [looped EXCEPT !.pc = "Receive"] /\ enc' = forwarded
           ELSE encWorker' = Ended(looped) /\ enc' = [forwarded EXCEPT !.queue = <<>>]
    /\ UNCHANGED stream

Receiving == encWorker.pc = "Receive"
Continued(w) == [w EXCEPT !.pc = "Run"]

(* A failure is looked for once more when there was something to receive.  *)
PollFailure ==
    /\ Receiving /\ enc.queue # <<>> /\ enc.failure # None
    /\ encWorker' = Ended(encWorker)
    /\ enc' = [enc EXCEPT !.queue = <<>>]
    /\ UNCHANGED stream

(* The unit or gap at the head was accepted more than two seconds ago.     *)
PollTooOld ==
    /\ Receiving /\ enc.queue # <<>> /\ enc.failure = None
    /\ encWorker' = Ended(encWorker)
    /\ enc' = [enc EXCEPT !.queue = <<>>, !.failure = "TooOld"]
    /\ UNCHANGED stream

PollInput(expired) ==
    /\ Receiving /\ enc.queue # <<>> /\ enc.failure = None /\ Head(enc.queue) # Gap
    /\ LET u == Head(enc.queue)
       IN  encWorker' = IF Refuses(encWorker, u) THEN Ended(encWorker)
                        ELSE Continued(PushReorder(encWorker, u, expired))
    /\ enc' = [enc EXCEPT !.queue = Tail(@)]
    /\ UNCHANGED stream

PollGap ==
    /\ Receiving /\ enc.queue # <<>> /\ enc.failure = None /\ Head(enc.queue) = Gap
    /\ encWorker' = Continued(WriterGap(Drain(encWorker)))
    /\ enc' = [enc EXCEPT !.queue = Tail(@)]
    /\ UNCHANGED stream

PollIdle(expired) ==
    /\ Receiving /\ enc.queue = <<>> /\ enc.held
    /\ encWorker' = Continued(Release(encWorker, expired))
    /\ UNCHANGED <<stream, enc>>

PollDrained_StaysIdle ==
    /\ Receiving /\ enc.queue = <<>> /\ ~enc.held
    /\ encWorker' = Continued(Drain(encWorker))
    /\ UNCHANGED <<stream, enc>>

(* The session dropped its handle and the queue is empty: the end, with no *)
(* second look at the failure.                                             *)
PollDrained ==
    /\ Receiving /\ enc.queue = <<>> /\ ~enc.held
    /\ encWorker' = [CloseSegment(Drain(encWorker)) EXCEPT !.bundle = Finish(@), !.pc = "Done"]
    /\ UNCHANGED <<stream, enc>>

(* The platform's writer or the disk fails, a unit is past its deadline or *)
(* the wait for a random access point has lasted five seconds.             *)
EncodedWorkerFails ==
    /\ Receiving
    /\ enc.queue # <<>> \/ encWorker.pending # {} \/ encWorker.active = 0 \/ ~enc.held
    /\ encWorker' = Ended(encWorker)
    /\ enc' = [enc EXCEPT !.queue = <<>>]
    /\ UNCHANGED stream

ReleaseEncodedSlot ==
    /\ encWorker.pc = "Done"
    /\ encWorker' = [encWorker EXCEPT !.pc = "Freed"]
    /\ enc' = [enc EXCEPT !.refresh = FALSE]
    /\ UNCHANGED stream

PublishEncodedResult ==
    /\ encWorker.pc = "Freed"
    /\ encWorker' = [encWorker EXCEPT !.pc = "Off"]
    /\ enc' = [enc EXCEPT !.result = encWorker.bundle.state]
    /\ UNCHANGED stream

EncodedWorkerStep ==
    \/ \E ok \in BOOLEAN : CreateEncodedBundle(ok)
    \/ LookForFailure \/ PollFailure \/ PollGap \/ PollDrained
    \/ \E expired \in Units \union {0} : PollInput(expired) \/ PollIdle(expired)
    \/ ReleaseEncodedSlot \/ PublishEncodedResult
=============================================================================
