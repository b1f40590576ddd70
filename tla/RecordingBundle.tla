--------------------------- MODULE RecordingBundle ---------------------------
(* The manifest of a recording (picoo-recording/src/bundle.rs) as far as   *)
(* its final state depends on it: whether a segment was finalized, whether *)
(* a gap was recorded.  A step that fails, on disk or in the platform's    *)
(* writer, makes the bundle Failed for good; see the workers' own actions. *)
EXTENDS Naturals, Sequences

Results == {"Complete", "HasGaps", "Failed"}

NewBundle == [state |-> "Arming", segments |-> FALSE, gaps |-> FALSE]

Terminal(bundle) == bundle.state \in Results

MarkStarted(bundle) == [bundle EXCEPT !.state = "Recording"]

CommitSegment(bundle) == [bundle EXCEPT !.segments = TRUE]

RecordGap(bundle) == [bundle EXCEPT !.gaps = TRUE]

Finish(bundle) ==
    IF Terminal(bundle) THEN bundle
    ELSE [bundle EXCEPT !.state = CASE ~bundle.segments -> "Failed"
                                    [] bundle.segments /\ bundle.gaps -> "HasGaps"
                                    [] OTHER -> "Complete"]

Failed(bundle) == [bundle EXCEPT !.state = "Failed"]

(* The thread of a recording: Off, Create, Run (and Receive, encoded, or    *)
(* Drain, rendered), Done with an outcome, Freed when the process-wide slot *)
(* is free again.                                                           *)
HoldsSlot == {"Create", "Run", "Receive", "Drain", "Done"}
=============================================================================
