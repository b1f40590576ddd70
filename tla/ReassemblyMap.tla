---------------------------- MODULE ReassemblyMap ----------------------------
(***************************************************************************)
(* The reassembly map of picoo-packet: the fragments of unfinished access  *)
(* units, the frame numbers that newer media shows to be missing, and the  *)
(* boundary and tombstones that keep abandoned units from being rebuilt.   *)
(*                                                                         *)
(* The map is a record, an operation a function from map to map, so that   *)
(* the packet-level machine (Reassembly) and the receiver's media path     *)
(* (ReceiverMedia) use the same definitions.  Frame numbers start at 1;    *)
(* 0 stands for "none".  Times are left out: a deadline may pass at any    *)
(* moment.  Counters, payload bytes, and packets whose metadata disagree   *)
(* or whose fragment count exceeds the limit are left out as well: a       *)
(* sender of this program sends neither.                                   *)
(***************************************************************************)
EXTENDS Integers, FiniteSetsExt

CONSTANTS
    MaxFrames,    \* unfinished access units kept at once (max_frames)
    Groups        \* FEC groups of one access unit: [data, parity] fragment sets

ASSUME MaxFramesAssumption == MaxFrames \in Nat \ {0}
ASSUME GroupsAssumption ==
    /\ \E g \in Groups : g.data # {}
    /\ \A g \in Groups : g.data \subseteq Nat /\ g.parity \subseteq Nat
                         /\ g.data \cap g.parity = {}

None == 0
Kinds == {"key", "ref", "disc"}
Data == UNION {g.data : g \in Groups}
Fragments == Data \cup UNION {g.parity : g \in Groups}

EmptyMap ==
    [epoch |-> 0, expired |-> None, highest |-> None, gaps |-> {},
     frames |-> <<>>, terminal |-> {}, lost |-> FALSE]

(* Frame numbers whose outcome is open: partial units and noticed gaps.    *)
Unresolved(m) == DOMAIN m.frames \cup m.gaps

Capacity == 2 * MaxFrames

(* How late a datagram may be, in units, for the tombstones to know it.    *)
Reach == Capacity - 1
InReach(m, id) == id + Reach > m.highest

Raise(boundary, id) == IF boundary >= id THEN boundary ELSE id

(* A newer stream epoch forgets everything, a pending loss included.       *)
ForEpoch(m, epoch) ==
    IF epoch > m.epoch THEN [EmptyMap EXCEPT !.epoch = epoch] ELSE m

Remember_Forgets(m, id) == m

(* A full tombstone cache forgets its smallest frame number.               *)
Remember(m, id) ==
    [m EXCEPT !.terminal =
        (IF Cardinality(@) >= Capacity THEN @ \ {Min(@)} ELSE @) \cup {id}]

Without(frames, ids) == [i \in DOMAIN frames \ ids |-> frames[i]]

(* Frame numbers between the newest one seen and a newer one are missing;  *)
(* a jump beyond the capacity gives them up at once.                       *)
ObserveFrameId(m, id) ==
    LET seen == [m EXCEPT !.gaps = @ \ {id}]
        skipped == (m.highest + 1)..(id - 1)
    IN  IF m.highest = None THEN [seen EXCEPT !.highest = id]
        ELSE IF id <= m.highest THEN seen
        ELSE IF Cardinality(skipped) > Capacity
        THEN [seen EXCEPT !.highest = id, !.gaps = {}, !.lost = TRUE,
                          !.expired = Raise(@, id - 1)]
        ELSE [seen EXCEPT !.highest = id, !.gaps = @ \cup skipped]

RecordIncompleteDrop(m, ids) ==
    [m EXCEPT !.frames = Without(@, ids),
              !.lost = @ \/ \E i \in ids : m.frames[i].kind # "disc"]

DropOldest_Silent(m) ==
    LET deltas == {i \in DOMAIN m.frames : m.frames[i].kind # "key"}
        oldest == Min(IF deltas # {} THEN deltas ELSE DOMAIN m.frames)
    IN  Remember([m EXCEPT !.frames = Without(@, {oldest})], oldest)

(* At the limit the oldest unit that is not a key frame gives way, a key   *)
(* frame only if there is nothing else.                                    *)
DropOldest(m) ==
    LET deltas == {i \in DOMAIN m.frames : m.frames[i].kind # "key"}
        oldest == Min(IF deltas # {} THEN deltas ELSE DOMAIN m.frames)
    IN  Remember(RecordIncompleteDrop(m, {oldest}), oldest)

(* Parity repairs a group that misses no more data than it has parity.     *)
Repaired(got) ==
    got \cup UNION {g.data : g \in {h \in Groups :
        /\ Cardinality(h.data) >= 2
        /\ Cardinality(h.data \ got) <= Cardinality(h.parity \cap got)}}

Closed(m, id) == id <= m.expired \/ id \in m.terminal

(* A fragment of an open unit; a complete unit leaves the map.             *)
StoreFragment(m, p) ==
    LET room == IF Cardinality(DOMAIN m.frames) >= MaxFrames /\ p.id \notin DOMAIN m.frames
                THEN DropOldest(m) ELSE m
        got == Repaired({p.fragment} \cup
                        (IF p.id \in DOMAIN room.frames THEN room.frames[p.id].got ELSE {}))
    IN  IF Data \subseteq got
        THEN [map |-> Remember([room EXCEPT !.frames = Without(@, {p.id})], p.id),
              unit |-> p.id]
        ELSE [map |-> [room EXCEPT !.frames =
                  [i \in DOMAIN @ \cup {p.id} |->
                      IF i = p.id THEN [kind |-> p.kind, got |-> got] ELSE @[i]]],
              unit |-> None]

(* ingest_at: the new map and the access unit the packet completes.        *)
Ingest(m, p) ==
    LET current == ObserveFrameId(ForEpoch(m, p.epoch), p.id)
    IN  IF p.epoch < m.epoch THEN [map |-> m, unit |-> None]
        ELSE IF Closed(current, p.id) THEN [map |-> current, unit |-> None]
        ELSE StoreFragment(current, p)

ExpireThrough_KeepsGap(m, id) ==
    LET dropped == RecordIncompleteDrop(m, {i \in DOMAIN m.frames : i <= id})
        old == {g \in m.gaps : g < id}
    IN  [dropped EXCEPT !.gaps = @ \ old, !.lost = @ \/ old # {},
                        !.expired = Raise(@, id)]

(* The deadline of an open unit passes: everything older goes with it.     *)
ExpireThrough(m, id) ==
    LET dropped == RecordIncompleteDrop(m, {i \in DOMAIN m.frames : i <= id})
        old == {g \in m.gaps : g <= id}
    IN  [dropped EXCEPT !.gaps = @ \ old, !.lost = @ \/ old # {},
                        !.expired = Raise(@, id)]

(* All open units are abandoned without counting as a loss.                *)
ClearPending(m) ==
    LET boundary == IF Unresolved(m) = {} THEN m.expired ELSE Raise(m.expired, Max(Unresolved(m)))
        RememberNext(i, map) == Remember(map, i)
    IN  FoldSet(RememberNext, [m EXCEPT !.frames = <<>>, !.gaps = {}, !.expired = boundary],
                DOMAIN m.frames)

(* A batch waited too long in the transport's queue: one of its units is   *)
(* given up before its fragments are looked at.                            *)
DiscardStaleAccessUnit(m, p) ==
    LET current == ForEpoch(m, p.epoch)
        kind == IF p.id \in DOMAIN current.frames THEN current.frames[p.id].kind ELSE p.kind
    IN  IF p.epoch < m.epoch THEN m
        ELSE IF Closed(current, p.id) THEN current
        ELSE [Remember([current EXCEPT !.frames = Without(@, {p.id}), !.gaps = @ \ {p.id}], p.id)
              EXCEPT !.expired = Raise(@, p.id), !.lost = @ \/ kind # "disc"]

TakeReferenceChainLoss(m) == [m EXCEPT !.lost = FALSE]

IsMap(m, ids, epochs) ==
    /\ DOMAIN m = DOMAIN EmptyMap
    /\ m.epoch \in epochs \cup {0} /\ m.expired \in ids \cup {None}
    /\ m.highest \in ids \cup {None} /\ m.gaps \subseteq ids
    /\ DOMAIN m.frames \subseteq ids /\ m.terminal \subseteq ids /\ m.lost \in BOOLEAN
    /\ \A i \in DOMAIN m.frames :
          m.frames[i].kind \in Kinds /\ m.frames[i].got \subseteq Fragments
=============================================================================
