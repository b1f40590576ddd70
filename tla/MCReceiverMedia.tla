--------------------------- MODULE MCReceiverMedia ---------------------------
(* Sources and fragments for the model checker.                            *)
EXTENDS ReceiverMedia

Au(epoch, kind) == [epoch |-> epoch, kind |-> kind]

TwoFragments == {[data |-> {1, 2}, parity |-> {}]}

OneEpoch == <<Au(1, "key"), Au(1, "disc"), Au(1, "ref"), Au(1, "key")>>
TwoEpochs == <<Au(1, "key"), Au(2, "key"), Au(2, "ref"), Au(2, "ref")>>
SmallSources == {OneEpoch, TwoEpochs}
ShortSources == {<<Au(1, "key"), Au(1, "ref"), Au(1, "ref")>>}

(* The path at its best: every datagram arrives, in order, no deadline     *)
(* passes, the decoder decodes.  Only the StreamConfig may be late.        *)
BestNext ==
    \/ Connect \/ LearnCapabilities
    \/ \E e \in Epochs : HandleStreamConfig(e)
    \/ \E u \in Units : /\ u = IF DOMAIN media.map.frames = {} THEN newest + 1 ELSE newest
                        /\ IngestVideoPacket(u)
    \/ DiscardReadyFrame \/ DecodeReadyFrame
    \/ TakeItem \/ FinishDecode("picture") \/ DrainDecoderEvent

BestSpec == Init /\ [][BestNext]_vars
=============================================================================
