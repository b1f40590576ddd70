----------------------------- MODULE MCRecording -----------------------------
(* A stream of two epochs, and the recordings a user may start.            *)
EXTENDS Recording

Unit(epoch, idr) == [epoch |-> epoch, idr |-> idr]
TwoEpochs == <<Unit(1, TRUE), Unit(1, FALSE), Unit(1, FALSE), Unit(2, TRUE)>>

Starts(encoded, rendered) == [encoded |-> encoded, rendered |-> rendered]
OneOrTwo == {Starts(1, 0), Starts(0, 2)}
=============================================================================
