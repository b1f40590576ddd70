---------------------------- MODULE MCReassembly ----------------------------
(* A stream of two epochs with one parity datagram per access unit.  Unit  *)
(* 6 and most other parity is lost; after unit 1 alone, unit 7 is a jump   *)
(* beyond the capacity.                                                    *)
EXTENDS Reassembly

OneGroup == {[data |-> {1, 2}, parity |-> {3}]}
EightUnits == 1..8
TwoEpochs == [u \in EightUnits |-> IF u < 8 THEN 1 ELSE 2]
EightKinds == [u \in EightUnits |->
              CASE u \in {1, 8} -> "key" [] u = 3 -> "disc" [] OTHER -> "ref"]
ArrivingOf == [u \in EightUnits |->
              CASE u = 1 -> {1, 2, 3} [] u \in {2, 3} -> {1, 3}
                [] u = 6 -> {} [] OTHER -> {1}]
=============================================================================
