------------------------------ MODULE Recording ------------------------------
(* The two recordings of a receiver session side by side: they share only  *)
(* the session, whose reset ends both.  Plans bounds how many recordings   *)
(* of each kind the user starts.                                           *)
EXTENDS EncodedRecording, RenderedRecording

CONSTANT Plans \* records [encoded, rendered] of how many recordings may start

VARIABLE left \* the starts that are left of the plan

vars == <<stream, enc, encWorker, bus, ren, renWorker, left>>

Init == EncodedInit /\ RenderedInit /\ left \in Plans

MayStart(kind) == SessionIsFree /\ stream.config # 0 /\ left[kind] > 0 /\ left' = [left EXCEPT ![kind] = @ - 1]

(* A confirmed end of the session: the encoded recording gets a gap and is *)
(* stopped, the rendered one loses its source; a later connection starts   *)
(* with an epoch above all earlier ones.                                   *)
ResetSessionResources ==
    /\ SessionIsFree /\ stream.config # 0
    /\ enc' = StopEncoded(ReportGap(enc), FALSE)
    /\ stream' = [stream EXCEPT !.config = 0, !.floor = stream.config]
    /\ bus' = EndOrdered(bus)
    /\ UNCHANGED <<encWorker, ren, renWorker, left>>

EncodedSessionStep ==
    \/ \E late \in BOOLEAN : StopEncodedRecording(late)
    \/ \E late \in BOOLEAN, request \in {"sent", "failed", "forbidden"} :
          PumpRecordingControl(late, request)
    \/ \E u \in Units : LoseAccessUnit(u) \/ \E late \in BOOLEAN : CompleteAccessUnit(u, late)
    \/ \E epoch \in Epochs : HandleStreamConfig(epoch)
    \/ \E old \in BOOLEAN : Proceed(old)

RenderedSessionStep ==
    /\ SessionIsFree
    /\ \/ StopRenderedRecording \/ ClearFrames
       \/ \E kind \in Kinds : Publish(kind)

EncodedWorker == EncodedWorkerStep /\ UNCHANGED <<renderedVars, left>>
RenderedWorker == RenderedWorkerStep /\ UNCHANGED <<encodedVars, left>>

Next ==
    \/ MayStart("encoded") /\ (\E u \in Units \union {0} : StartEncodedRecording(u)) /\ UNCHANGED renderedVars
    \/ MayStart("rendered") /\ StartRenderedRecording /\ UNCHANGED encodedVars
    \/ ResetSessionResources
    \/ EncodedSessionStep /\ UNCHANGED <<renderedVars, left>>
    \/ RenderedSessionStep /\ UNCHANGED <<encodedVars, left>>
    \/ EncodedWorker
    \/ RenderedWorker
    \/ (PollTooOld \/ EncodedWorkerFails) /\ UNCHANGED <<renderedVars, left>>
    \/ RenderedWorkerFails /\ UNCHANGED <<encodedVars, left>>

Spec == Init /\ [][Next]_vars

(* The two threads keep running: calls into the platform's writer return.  *)
(* No failure is owed, and nothing is assumed of the user, the network or  *)
(* the phone.                                                              *)
FairSpec == Spec /\ WF_vars(EncodedWorker) /\ WF_vars(RenderedWorker)

-----------------------------------------------------------------------------
(* Encoded, of a recording reported Complete.  What the user's recording   *)
(* had to account for was accepted by the ingress, unless a failure was    *)
(* set.  Of every epoch the recording holds anything of, it has all that   *)
(* was accepted from the first unit written, without a hole, and no loss   *)
(* was reported behind that unit.                                          *)
EncodedWhole ==
    LET units == {i \in DOMAIN enc.accepted : enc.accepted[i] # Gap}
        written == encWorker.written
    IN  enc.result = "Complete" =>
            /\ enc.missed => enc.failure # None
            /\ \A i \in units : \A v \in written :
                  Epoch(v) = Epoch(enc.accepted[i]) /\ v <= enc.accepted[i] => enc.accepted[i] \in written
            /\ \A u, v \in written : Epoch(u) = Epoch(v) => u .. v \subseteq written
            /\ \A i \in DOMAIN enc.accepted : \A j \in units :
                  enc.accepted[i] = Gap /\ enc.accepted[j] \in written => i < j

RenderedWhole == ren.result = "Complete" => ren.due \subseteq renWorker.wrote

(* A published result means the thread is gone: the slot of the process    *)
(* and the ordered subscription are free, the next start is not refused.   *)
ResultFreesSlot ==
    /\ enc.result # None => encWorker.pc \notin HoldsSlot
    /\ ren.result # NoEnd => renWorker.pc \notin HoldsSlot /\ ~AlreadyActive

(* What a result says.  A recording reported Complete has everything its   *)
(* queue accepted, whatever races the stop, and a loss in front of the     *)
(* queue - full, past its deadline, without a configuration - has left a   *)
(* failure in the ingress (ingress.rs offer_event, poll_at; frame_bus.rs   *)
(* publish_at; bundle.rs finish).  The worker may end without seeing that  *)
(* failure: poll_at does not look again when the queue is disconnected.    *)
(* And the next recording may start at once (worker.rs, rendered.rs drop   *)
(* the slot before they set the result).                                   *)
ResultIsTrue == EncodedWhole /\ RenderedWhole /\ ResultFreesSlot

(* A recording that was stopped, failed at its ingress or lost its source  *)
(* gets its result without anyone waiting for its thread.                  *)
StopConcludes ==
    /\ (enc.handle /\ (~enc.held \/ enc.failure # None)) ~> enc.result # None
    /\ (ren.handle /\ (ren.stop \/ bus.end # NoEnd)) ~> ren.result # NoEnd
=============================================================================
