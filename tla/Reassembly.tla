------------------------------ MODULE Reassembly ------------------------------
(***************************************************************************)
(* The reassembly map as a machine: the datagrams of a stream arrive in    *)
(* any order, late or never, each at most once; between two of them a      *)
(* deadline passes, the owner abandons what is open, or a batch that       *)
(* waited too long is discarded.  Every parity datagram is one more        *)
(* fragment of its unit.                                                   *)
(*                                                                         *)
(* The tombstones reach back a bounded number of units: an older datagram  *)
(* is outside the model, see InReach.  A sender numbers the units of a     *)
(* stream one after another and an epoch never returns.                    *)
(***************************************************************************)
EXTENDS ReassemblyMap

CONSTANTS
    FrameIds,     \* frame numbers of the stream
    EpochOf,      \* stream epoch of a unit
    KindOf,       \* kind of a unit
    Arriving      \* fragments of a unit that the network does not lose

ASSUME UnitsAssumption ==
    /\ FrameIds \subseteq Nat \ {0}
    /\ \A u, v \in FrameIds: u..v \subseteq FrameIds
    /\ EpochOf \in [FrameIds -> Nat \ {0}] /\ KindOf \in [FrameIds -> Kinds]
    /\ Arriving \in [FrameIds -> SUBSET Fragments]
    /\ \A u, v \in FrameIds: u < v => EpochOf[u] <= EpochOf[v]

VARIABLES
    map,          \* the ReassemblyMap
    flight,       \* datagrams that may still arrive
    delivered     \* units handed to the jitter buffer

mapVars == <<map, flight, delivered>>

Packets ==
    UNION {{[epoch |-> EpochOf[u], id |-> u, kind |-> KindOf[u], fragment |-> f] :
                f \in Arriving[u]} : u \in FrameIds}

(* The datagrams left, those that would now come too late taken out.       *)
Left(p, m) == {q \in flight \ {p} : InReach(m, q.id)}

-----------------------------------------------------------------------------
MapInit == map = EmptyMap /\ flight = Packets /\ delivered = {}

IngestAt(p) ==
    /\ map' = Ingest(map, p).map
    /\ flight' = Left(p, map')
    /\ delivered' = delivered \cup ({Ingest(map, p).unit} \ {None})

DiscardStale(p) ==
    /\ map' = DiscardStaleAccessUnit(map, p)
    /\ flight' = Left(p, map')
    /\ UNCHANGED delivered

Expire(u) ==
    /\ u \in Unresolved(map)
    /\ map' = ExpireThrough(map, u)
    /\ UNCHANGED <<flight, delivered>>

Abandon ==
    /\ Unresolved(map) # {}
    /\ map' = ClearPending(map)
    /\ UNCHANGED <<flight, delivered>>

TakeReportedLoss ==
    /\ map.lost
    /\ map' = TakeReferenceChainLoss(map)
    /\ UNCHANGED <<flight, delivered>>

MapNext ==
    \/ \E p \in flight: IngestAt(p) \/ DiscardStale(p)
    \/ \E u \in FrameIds: Expire(u)
    \/ Abandon \/ TakeReportedLoss

MapSpec == MapInit /\ [][MapNext]_mapVars
-----------------------------------------------------------------------------
(* Types, and the limits the map keeps: no more unfinished units than      *)
(* max_frames, no more tombstones than twice that.                         *)
MapTypeOK ==
    /\ IsMap(map, FrameIds, {EpochOf[u] : u \in FrameIds})
    /\ flight \subseteq Packets /\ delivered \subseteq FrameIds
    /\ Cardinality(DOMAIN map.frames) <= MaxFrames
    /\ Cardinality(map.terminal) <= Capacity

(* A reference unit, or a gap that may hide one, never disappears without  *)
(* a loss the owner is told of, except when the owner abandons it, a newer *)
(* epoch ends its stream, or it had been given up before and only its gap  *)
(* was left (lib.rs: eviction, deadline, overflow of the gaps, stale       *)
(* batches).                                                               *)
Vanished(m, n) ==
    {u \in Unresolved(m) \ Unresolved(n) : KindOf[u] # "disc" /\ ~(u \in m.gaps /\ Closed(m, u))}

LossIsReported ==
    [][\A u \in Vanished(map, map') :
          ~Abandon /\ map'.epoch = map.epoch /\ u \notin delivered' => map'.lost]_mapVars

(* The outcome of a unit is decided: it is closed, its stream is over, or  *)
(* its datagrams are out of reach.                                         *)
Settled == {u \in FrameIds :
               \/ EpochOf[u] < map.epoch
               \/ (EpochOf[u] = map.epoch /\ (Closed(map, u) \/ ~InReach(map, u)))}

Fates == INSTANCE AccessUnitFates WITH Units <- FrameIds, settled <- Settled

(* A unit is handed on at most once, and not after it was given up: late   *)
(* fragments and parity of a unit that is complete, expired, evicted,      *)
(* discarded or abandoned never rebuild it (lib.rs, remember_terminal and  *)
(* expired_through_frame_id).                                              *)
SettledOnce == Fates!Spec
=============================================================================
