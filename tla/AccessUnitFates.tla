--------------------------- MODULE AccessUnitFates ---------------------------
(***************************************************************************)
(* What reassembly promises: the outcome of an access unit is decided once *)
(* and for ever.  A unit is handed on at most once, never after it has     *)
(* been given up, and at most one unit is handed on at a time.             *)
(***************************************************************************)
EXTENDS Integers

CONSTANTS Units

VARIABLES
    settled,     \* units whose outcome is decided
    delivered    \* units that were handed on

vars == <<settled, delivered>>

Init == settled = {} /\ delivered = {}

Decide == settled \subseteq settled' /\ settled' \subseteq Units

(* Any number of units are given up.                                       *)
GiveUp == Decide /\ UNCHANGED delivered

(* One unit that was open is handed on; others may be given up with it.    *)
Deliver(u) ==
    /\ Decide
    /\ u \notin settled /\ u \in settled'
    /\ delivered' = delivered \cup {u}

Next == GiveUp \/ \E u \in Units: Deliver(u)

Spec == Init /\ [][Next]_vars
=============================================================================
