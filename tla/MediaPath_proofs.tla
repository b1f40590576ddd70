--------------------------- MODULE MediaPath_proofs ---------------------------
(***************************************************************************)
(* The path of the access units through the receiver: first the promises   *)
(* of reassembly, then those of the gate and the decoder's recovery behind *)
(* it, then what needs both: the way of one unit from end to end, and last *)
(* the limits of the queues.                                               *)
(*                                                                         *)
(* The promises of the reassembly map hold for every stream, every loss    *)
(* pattern and order of its datagrams, every FEC grouping and max_frames.  *)
(*                                                                         *)
(* The argument is about forgetting.  A unit that is given up or handed on *)
(* is known by the boundary or by a tombstone, and the tombstones are      *)
(* bounded.  When the set is full its smallest number goes.  All others    *)
(* are larger and none is newer than what was observed or given up, so the *)
(* smallest one lies below the boundary or Capacity - 1 behind the newest  *)
(* unit (FullReachesBack): its datagrams come too late to matter.  Keeps   *)
(* says this of one operation and is transitive; each operation keeps.     *)
(***************************************************************************)
EXTENDS Reassembly, ReceiverMedia, FiniteSetTheorems, SequenceTheorems, TLAPS

(* The fields of a map.                                                     *)
IsRecord(m) ==
    m \in [epoch : Nat, expired : Nat, highest : Nat, gaps : {m.gaps}, frames : {m.frames},
           terminal : {m.terminal}, lost : BOOLEAN]

(* A stream: its units are numbered without a hole, an epoch never returns. *)
IsStream(src) ==
    /\ DOMAIN src \subseteq Nat \ {0}
    /\ \A u, v \in DOMAIN src : u..v \subseteq DOMAIN src
    /\ \A u \in DOMAIN src : src[u].epoch \in Nat \ {0} /\ src[u].kind \in Kinds
    /\ \A u, v \in DOMAIN src : u < v => src[u].epoch <= src[v].epoch

(* A datagram of a unit of the stream.                                      *)
Names(src, p) == p.id \in DOMAIN src /\ p.epoch = src[p.id].epoch /\ p.kind = src[p.id].kind
IsPacket(src, p) == Names(src, p) /\ p.fragment \in Fragments

EpochsOf(src) == {src[u].epoch : u \in DOMAIN src}

Fields(src, m) ==
    /\ IsRecord(m)
    /\ m.epoch \in EpochsOf(src) \cup {0}
    /\ m.expired \in DOMAIN src \cup {None} /\ m.highest \in DOMAIN src \cup {None}
    /\ m.highest # None => src[m.highest].epoch = m.epoch

FramesShape(src, frames, highest) ==
    /\ \A i \in DOMAIN frames :
          /\ i \in DOMAIN src /\ i <= highest /\ src[i].epoch = src[highest].epoch
          /\ frames[i].kind = src[i].kind
          /\ frames[i].got \subseteq Fragments /\ ~(Data \subseteq frames[i].got)
    /\ Cardinality(DOMAIN frames) <= MaxFrames

GapsShape(src, gaps, highest) ==
    \A g \in gaps : g \in DOMAIN src /\ g <= highest /\ src[g].epoch = src[highest].epoch

(* No tombstone is newer than everything that was observed or given up.     *)
TermShape(src, terminal, highest, expired) ==
    /\ terminal \subseteq DOMAIN src
    /\ \A t \in terminal : t <= highest \/ t <= expired
    /\ Cardinality(terminal) <= Capacity

Shape(src, m) ==
    /\ Fields(src, m)
    /\ FramesShape(src, m.frames, m.highest)
    /\ GapsShape(src, m.gaps, m.highest)
    /\ TermShape(src, m.terminal, m.highest, m.expired)

(* Whatever m had closed is closed in n, or too old to come back.           *)
Keeps(src, m, n) ==
    /\ n.epoch = m.epoch /\ n.highest >= m.highest
    /\ \A u \in DOMAIN src : Closed(m, u) => Closed(n, u) \/ ~InReach(n, u)
-----------------------------------------------------------------------------
(* Finite sets of numbers.                                                  *)

LEMMA Numbers ==
    ASSUME NEW src, IsStream(src)
    PROVE  /\ MaxFrames \in Nat \ {0} /\ Capacity \in Nat /\ Capacity >= 2
           /\ Reach \in Nat /\ Reach = Capacity - 1
           /\ DOMAIN src \subseteq Nat /\ 0 \notin DOMAIN src /\ None = 0
BY MaxFramesAssumption DEF IsStream, Capacity, Reach, None

LEMMA BoundedIsFinite ==
    ASSUME NEW n \in Nat, NEW S, S \subseteq Nat, \A x \in S : x <= n
    PROVE  IsFiniteSet(S)
BY FS_BoundedSetOfNaturals

(* Induction over the subsets of a finite set.                              *)
LEMMA SubsetInduction ==
    ASSUME NEW S, IsFiniteSet(S), NEW Good,
           \A s \in SUBSET S : (\A t \in SUBSET s : t # s => t \in Good) => s \in Good
    PROVE  \A s \in SUBSET S : s \in Good
<1> DEFINE Bad == {s \in SUBSET S : s \notin Good}
<1>1. FiniteSubsetsOf(S) = SUBSET S
  BY FS_FiniteSubsetsOfFinite
<1>2. IsWellFoundedOn(StrictSubsetOrdering(S), FiniteSubsetsOf(S))
  BY FS_StrictSubsetOrderingWellFounded
<1>3. SUFFICES ASSUME Bad # {}  PROVE FALSE
  OBVIOUS
<1>4. PICK s \in Bad : \A t \in Bad : ~ (<<t, s>> \in StrictSubsetOrdering(S))
  <2>1. Bad \subseteq FiniteSubsetsOf(S)
    BY <1>1
  <2> HIDE DEF Bad
  <2> QED  BY <1>2, <1>3, <2>1, WFMin
<1>5. ASSUME NEW t \in SUBSET s, t # s  PROVE t \in Good
  <2> SUFFICES ASSUME t \notin Good  PROVE FALSE
    OBVIOUS
  <2>1. s \subseteq S /\ t \subseteq S /\ t \in Bad
    OBVIOUS
  <2>2. <<t, s>> \in StrictSubsetOrdering(S)
    <3> HIDE DEF Bad
    <3> QED  BY <1>5, <2>1, Zenon DEF StrictSubsetOrdering
  <2> QED  BY <1>4, <2>1, <2>2
<1> QED  BY <1>4, <1>5

(* A set of numbers with an upper bound has a minimum.                        *)
LEMMA MinIsLeast ==
    ASSUME NEW n \in Nat, NEW S, S \subseteq Nat, \A x \in S : x <= n, S # {}
    PROVE  Min(S) \in S /\ \A y \in S : Min(S) <= y
<1> DEFINE HasLeast(s) == s = {} \/ \E x \in s : \A y \in s : x <= y
           Good == {s \in SUBSET S : HasLeast(s)}
<1>1. IsFiniteSet(S)
  BY BoundedIsFinite
<1>2. ASSUME NEW s \in SUBSET S, \A t \in SUBSET s : t # s => t \in Good
      PROVE  s \in Good
  <2> SUFFICES ASSUME s # {}  PROVE HasLeast(s)
    OBVIOUS
  <2>1. PICK z \in s : TRUE
    OBVIOUS
  <2>2. HasLeast(s \ {z})
    <3> HIDE DEF HasLeast
    <3> QED  BY <1>2
  <2>3. s \subseteq Nat
    OBVIOUS
  <2>4. CASE s \ {z} = {}
    BY <2>3, <2>4
  <2>5. CASE \E x \in s \ {z} : \A y \in s \ {z} : x <= y
    <3>1. PICK x \in s \ {z} : \A y \in s \ {z} : x <= y
      BY <2>5
    <3>2. CASE z <= x
      <4>1. \A y \in s : z <= y
        BY <2>3, <3>1, <3>2
      <4> QED  BY <4>1
    <3>3. CASE x <= z
      <4>1. \A y \in s : x <= y
        BY <2>3, <3>1, <3>3
      <4> QED  BY <4>1
    <3> QED  BY <2>3, <3>2, <3>3
  <2> QED  BY <2>2, <2>4, <2>5
<1>3. S \in Good
  <2> HIDE DEF Good
  <2> QED  BY <1>1, <1>2, SubsetInduction
<1>4. \E x \in S : \A y \in S : x <= y
  BY <1>3
<1> QED  BY <1>4 DEF Min

(* A set of numbers with an upper bound has a maximum.                        *)
LEMMA MaxIsLargest ==
    ASSUME NEW n \in Nat, NEW S, S \subseteq Nat, \A x \in S : x <= n, S # {}
    PROVE  Max(S) \in S /\ \A y \in S : Max(S) >= y
<1> DEFINE HasMost(s) == s = {} \/ \E x \in s : \A y \in s : x >= y
           Good == {s \in SUBSET S : HasMost(s)}
<1>1. IsFiniteSet(S)
  BY BoundedIsFinite
<1>2. ASSUME NEW s \in SUBSET S, \A t \in SUBSET s : t # s => t \in Good
      PROVE  s \in Good
  <2> SUFFICES ASSUME s # {}  PROVE HasMost(s)
    OBVIOUS
  <2>1. PICK z \in s : TRUE
    OBVIOUS
  <2>2. HasMost(s \ {z})
    <3> HIDE DEF HasMost
    <3> QED  BY <1>2
  <2>3. s \subseteq Nat
    OBVIOUS
  <2>4. CASE s \ {z} = {}
    BY <2>3, <2>4
  <2>5. CASE \E x \in s \ {z} : \A y \in s \ {z} : x >= y
    <3>1. PICK x \in s \ {z} : \A y \in s \ {z} : x >= y
      BY <2>5
    <3>2. CASE z >= x
      <4>1. \A y \in s : z >= y
        BY <2>3, <3>1, <3>2
      <4> QED  BY <4>1
    <3>3. CASE x >= z
      <4>1. \A y \in s : x >= y
        BY <2>3, <3>1, <3>3
      <4> QED  BY <4>1
    <3> QED  BY <2>3, <3>2, <3>3
  <2> QED  BY <2>2, <2>4, <2>5
<1>3. S \in Good
  <2> HIDE DEF Good
  <2> QED  BY <1>1, <1>2, SubsetInduction
<1>4. \E x \in S : \A y \in S : x >= y
  BY <1>3
<1> QED  BY <1>4 DEF Max

(* A tombstone set is finite.                                               *)
LEMMA TermIsFinite ==
    ASSUME NEW src, IsStream(src), NEW T, NEW h \in Nat,
           NEW e \in Nat, TermShape(src, T, h, e)
    PROVE  /\ IsFiniteSet(T) /\ Cardinality(T) \in Nat
           /\ T # {} => Min(T) \in T /\ \A t \in T : Min(T) <= t
<1>1. PICK n \in Nat : h <= n /\ e <= n
  <2>1. CASE h <= e
    BY <2>1
  <2>2. CASE e <= h
    BY <2>2
  <2> QED  BY <2>1, <2>2
<1>2. T \subseteq DOMAIN src /\ \A t \in T : t <= n
  BY <1>1, Numbers DEF TermShape
<1>3. IsFiniteSet(T)
  BY <1>2, BoundedIsFinite, Numbers
<1> QED  BY <1>2, <1>3, MinIsLeast, Numbers, FS_CardinalityType

(* A full set of tombstones reaches back so far that the datagrams of the   *)
(* one it forgets come too late.                                            *)
LEMMA FullReachesBack ==
    ASSUME NEW src, IsStream(src), NEW T, NEW h \in Nat,
           NEW e \in Nat, TermShape(src, T, h, e),
           Cardinality(T) >= Capacity
    PROVE  /\ Min(T) \in T
           /\ Min(T) <= e \/ Min(T) + Reach <= h
<1> DEFINE i == Min(T)
<1>1. IsFiniteSet(T) /\ Cardinality(T) \in Nat
  BY TermIsFinite
<1>2. T # {}
  BY <1>1, Numbers, FS_EmptySet
<1>3. i \in T /\ \A t \in T : i <= t
  BY <1>2, TermIsFinite
<1> HIDE DEF i
<1>4. SUFFICES ASSUME ~(i <= e)  PROVE i + Reach <= h
  BY <1>3 DEF i
<1>5. i \in Nat /\ T \subseteq Nat
  BY <1>3, Numbers DEF TermShape
<1>6. T \subseteq i..h
  BY <1>3, <1>4, <1>5 DEF TermShape
<1>7. i <= h
  BY <1>3, <1>6
<1>8. IsFiniteSet(i..h) /\ Cardinality(i..h) = h - i + 1
  BY <1>5, <1>7, FS_Interval
<1>9. Cardinality(T) <= h - i + 1
  BY <1>6, <1>8, FS_Subset
<1> QED  BY <1>1, <1>5, <1>9, Numbers

LEMMA RememberFacts ==
    ASSUME NEW src, IsStream(src),
           NEW m, IsRecord(m), TermShape(src, m.terminal, m.highest, m.expired), NEW id \in DOMAIN src
    PROVE  /\ IsRecord(Remember(m, id))
           /\ Remember(m, id).epoch = m.epoch /\ Remember(m, id).expired = m.expired
           /\ Remember(m, id).highest = m.highest /\ Remember(m, id).gaps = m.gaps
           /\ Remember(m, id).frames = m.frames /\ Remember(m, id).lost = m.lost
           /\ id \in Remember(m, id).terminal
           /\ Remember(m, id).terminal \subseteq m.terminal \cup {id}
           /\ Cardinality(Remember(m, id).terminal) <= Capacity
           /\ \A t \in m.terminal \ Remember(m, id).terminal :
                 t <= m.expired \/ t + Reach <= m.highest
<1> DEFINE T == m.terminal
           Full == Cardinality(T) >= Capacity
           K == IF Full THEN T \ {Min(T)} ELSE T
           n == Remember(m, id)
<1>1. n = [m EXCEPT !.terminal = K \cup {id}]
  BY DEF Remember
<1>2. /\ IsRecord(n) /\ n.terminal = K \cup {id}
      /\ n.epoch = m.epoch /\ n.expired = m.expired /\ n.highest = m.highest
      /\ n.gaps = m.gaps /\ n.frames = m.frames /\ n.lost = m.lost
  <2> HIDE DEF K
  <2> QED  BY <1>1 DEF IsRecord
<1>3. m.highest \in Nat /\ m.expired \in Nat
  BY DEF IsRecord
<1>4. IsFiniteSet(T) /\ Cardinality(T) \in Nat /\ Cardinality(T) <= Capacity
  BY <1>3, TermIsFinite DEF TermShape
<1>5. IsFiniteSet(K) /\ Cardinality(K) \in Nat /\ Cardinality(K) <= Capacity - 1
  <2>1. CASE Full
    <3>1. Min(T) \in T
      BY <1>3, <2>1, FullReachesBack
    <3>2. IsFiniteSet(T \ {Min(T)}) /\ Cardinality(T \ {Min(T)}) = Cardinality(T) - 1
      BY <1>4, <3>1, FS_RemoveElement
    <3> QED  BY <1>4, <2>1, <3>2, Numbers, FS_CardinalityType
  <2>2. CASE ~Full
    BY <1>4, <2>2, Numbers
  <2> QED  BY <2>1, <2>2
<1>6. Cardinality(K \cup {id}) <= Capacity
  <2>1. Cardinality(K \cup {id}) = IF id \in K THEN Cardinality(K) ELSE Cardinality(K) + 1
    <3> HIDE DEF K
    <3> QED  BY <1>5, FS_AddElement
  <2> HIDE DEF K
  <2> QED  BY <1>5, <2>1, Numbers
<1>7. ASSUME NEW t \in T \ (K \cup {id})  PROVE t <= m.expired \/ t + Reach <= m.highest
  <2>1. Full /\ t = Min(T)
    OBVIOUS
  <2> QED  BY <1>3, <2>1, FullReachesBack
<1> HIDE DEF K, n, T
<1>8. id \in n.terminal /\ n.terminal \subseteq m.terminal \cup {id}
  BY <1>2 DEF K, T
<1>9. /\ Cardinality(n.terminal) <= Capacity
      /\ \A t \in m.terminal \ n.terminal : t <= m.expired \/ t + Reach <= m.highest
  BY <1>2, <1>6, <1>7 DEF T
<1> QED  BY <1>2, <1>8, <1>9 DEF n

LEMMA KeepsItself ==
    ASSUME NEW src, IsStream(src), NEW m, Fields(src, m)
    PROVE  Keeps(src, m, m)
BY DEF Keeps, Fields, IsRecord

(* Also when the boundary or the tombstones grow.                           *)
LEMMA KeepsMore ==
    ASSUME NEW src, IsStream(src), NEW m,
           NEW n, Fields(src, m), Fields(src, n), n.epoch = m.epoch, n.highest >= m.highest,
           n.expired >= m.expired, m.terminal \subseteq n.terminal
    PROVE  Keeps(src, m, n) /\ \A u \in DOMAIN src : Closed(m, u) => Closed(n, u)
BY Numbers DEF Keeps, Closed, Fields, IsRecord

LEMMA KeepsTrans ==
    ASSUME NEW src, IsStream(src), NEW m, NEW n,
           NEW o, Fields(src, m), Fields(src, n), Fields(src, o), Keeps(src, m, n), Keeps(src, n, o)
    PROVE  Keeps(src, m, o)
<1>1. m.highest \in Nat /\ n.highest \in Nat /\ o.highest \in Nat
  BY DEF Fields, IsRecord
<1>2. o.epoch = m.epoch /\ o.highest >= m.highest
  BY <1>1 DEF Keeps
<1>3. ASSUME NEW u \in DOMAIN src, Closed(m, u)  PROVE Closed(o, u) \/ ~InReach(o, u)
  <2>1. CASE Closed(n, u)
    BY <2>1 DEF Keeps
  <2>2. CASE ~InReach(n, u)
    BY <1>1, <2>2, Numbers DEF Keeps, InReach
  <2> QED  BY <1>3, <2>1, <2>2 DEF Keeps
<1> QED  BY <1>2, <1>3 DEF Keeps

LEMMA RememberKeeps ==
    ASSUME NEW src, IsStream(src),
           NEW m, Fields(src, m), TermShape(src, m.terminal, m.highest, m.expired), NEW id \in DOMAIN src
    PROVE  Fields(src, Remember(m, id)) /\ Keeps(src, m, Remember(m, id))
<1> DEFINE n == Remember(m, id)
<1>0. IsRecord(m)
  BY DEF Fields
<1>1. /\ IsRecord(n) /\ n.epoch = m.epoch /\ n.expired = m.expired /\ n.highest = m.highest
      /\ \A t \in m.terminal \ n.terminal : t <= m.expired \/ t + Reach <= m.highest
  BY <1>0, RememberFacts
<1> HIDE DEF n
<1>2. Fields(src, n)
  BY <1>1 DEF Fields
<1>3. ASSUME NEW u \in DOMAIN src, Closed(m, u)  PROVE Closed(n, u) \/ ~InReach(n, u)
  <2>1. m.highest \in Nat /\ m.expired \in Nat
    BY <1>0 DEF IsRecord
  <2> QED  BY <1>1, <1>3, <2>1, Numbers DEF Closed, InReach
<1> QED  BY <1>0, <1>1, <1>2, <1>3 DEF Keeps, IsRecord, n

(* Shapes under the changes the operations make.                            *)
LEMMA FramesAreFinite ==
    ASSUME NEW src, IsStream(src), NEW f, NEW h \in Nat, FramesShape(src, f, h)
    PROVE  IsFiniteSet(DOMAIN f) /\ Cardinality(DOMAIN f) \in Nat
<1>1. DOMAIN f \subseteq DOMAIN src /\ \A i \in DOMAIN f : i <= h
  BY DEF FramesShape
<1> QED  BY <1>1, BoundedIsFinite, Numbers, FS_CardinalityType

LEMMA WithoutFacts ==
    ASSUME NEW f, NEW ids
    PROVE  /\ DOMAIN Without(f, ids) = DOMAIN f \ ids
           /\ \A i \in DOMAIN f \ ids : Without(f, ids)[i] = f[i]
BY DEF Without

LEMMA FramesShrink ==
    ASSUME NEW src, NEW f, NEW ids, NEW h \in Nat, IsStream(src), FramesShape(src, f, h)
    PROVE  FramesShape(src, Without(f, ids), h)
<1> DEFINE g == Without(f, ids)
<1>1. DOMAIN g = DOMAIN f \ ids /\ \A i \in DOMAIN f \ ids : g[i] = f[i]
  BY WithoutFacts
<1>2. IsFiniteSet(DOMAIN f) /\ Cardinality(DOMAIN f) \in Nat
  BY FramesAreFinite
<1>3. DOMAIN g \subseteq DOMAIN f
  BY <1>1
<1>4. Cardinality(DOMAIN g) <= Cardinality(DOMAIN f) /\ Cardinality(DOMAIN g) \in Nat
  BY <1>2, <1>3, FS_Subset, FS_CardinalityType
<1> HIDE DEF g
<1>5. FramesShape(src, g, h)
  BY <1>1, <1>2, <1>4, Numbers DEF FramesShape
<1> QED  BY <1>5 DEF g

LEMMA FramesLater ==
    ASSUME NEW src, NEW f, NEW h \in Nat, NEW k \in Nat, IsStream(src), FramesShape(src, f, h),
           h <= k, h = None \/ src[h].epoch = src[k].epoch
    PROVE  FramesShape(src, f, k)
<1>1. \A i \in DOMAIN f : i \in Nat /\ i # 0 /\ i <= h
  BY Numbers DEF FramesShape
<1>2. \A i \in DOMAIN f : i <= k /\ h # None
  BY <1>1, Numbers
<1> QED  BY <1>2 DEF FramesShape

LEMMA GapsLater ==
    ASSUME NEW src, NEW g, NEW f, NEW h \in Nat, NEW k \in Nat, IsStream(src),
           GapsShape(src, g, h), f \subseteq g,
           h <= k, h = None \/ src[h].epoch = src[k].epoch
    PROVE  GapsShape(src, f, k)
<1>1. \A i \in f : i \in DOMAIN src /\ i \in Nat /\ i # 0 /\ i <= h
  BY Numbers DEF GapsShape
<1>2. \A i \in f : i <= k /\ h # None
  BY <1>1, Numbers
<1> QED  BY <1>1, <1>2 DEF GapsShape

LEMMA TermLater ==
    ASSUME NEW src, IsStream(src), NEW T, NEW h \in Nat, NEW e \in Nat,
           NEW k \in Nat, NEW d \in Nat, h <= k, e <= d,
           TermShape(src, T, h, e)
    PROVE  TermShape(src, T, k, d)
<1>1. T \subseteq Nat
  BY Numbers DEF TermShape
<1> QED  BY <1>1 DEF TermShape

LEMMA TermGrows ==
    ASSUME NEW src, IsStream(src),
           NEW m, Fields(src, m), TermShape(src, m.terminal, m.highest, m.expired), NEW id \in DOMAIN src,
           NEW h \in Nat, NEW e \in Nat, m.highest <= h, m.expired <= e, id <= h \/ id <= e
    PROVE  TermShape(src, Remember(m, id).terminal, h, e)
<1>1. IsRecord(m) /\ m.highest \in Nat /\ m.expired \in Nat
  BY DEF Fields, IsRecord
<1>2. TermShape(src, m.terminal, h, e)
  BY <1>1, TermLater
<1> QED  BY <1>1, <1>2, RememberFacts DEF TermShape

-----------------------------------------------------------------------------
(* What the operations of the map do.                                       *)

LEMMA ObserveFacts ==
    ASSUME NEW src, IsStream(src), NEW m, Shape(src, m), NEW id \in DOMAIN src,
           src[id].epoch = m.epoch
    PROVE  /\ Shape(src, ObserveFrameId(m, id))
           /\ Keeps(src, m, ObserveFrameId(m, id))
           /\ \A u \in DOMAIN src : Closed(m, u) => Closed(ObserveFrameId(m, id), u)
           /\ ObserveFrameId(m, id).frames = m.frames
           /\ ObserveFrameId(m, id).epoch = m.epoch
           /\ ObserveFrameId(m, id).terminal = m.terminal
           /\ id <= ObserveFrameId(m, id).highest
           /\ m.lost => ObserveFrameId(m, id).lost
           /\ m.gaps \subseteq ObserveFrameId(m, id).gaps \cup {id} \/ ObserveFrameId(m, id).lost
           /\ id \in m.gaps => ObserveFrameId(m, id).expired = m.expired
           /\ ObserveFrameId(m, id).highest \in {m.highest, id}
<1> DEFINE n == ObserveFrameId(m, id)
           skipped == (m.highest + 1)..(id - 1)
<1>1. /\ IsRecord(m) /\ m.highest \in Nat /\ m.expired \in Nat /\ id \in Nat /\ id # 0
      /\ m.highest \in DOMAIN src \cup {None} /\ m.expired \in DOMAIN src \cup {None}
      /\ m.highest = None \/ src[m.highest].epoch = src[id].epoch
  BY Numbers DEF Shape, Fields, IsRecord
<1>2. CASE m.highest = None
  <2>1. n = [m EXCEPT !.gaps = @ \ {id}, !.highest = id]
    BY <1>2 DEF ObserveFrameId
  <2>2. /\ IsRecord(n) /\ n.epoch = m.epoch /\ n.expired = m.expired /\ n.highest = id
        /\ n.gaps = m.gaps \ {id} /\ n.frames = m.frames /\ n.terminal = m.terminal
        /\ n.lost = m.lost
    BY <1>1, <2>1 DEF IsRecord
  <2> HIDE DEF n
  <2>3. Fields(src, n)
    BY <1>1, <2>2 DEF Shape, Fields
  <2>4. m.highest <= id /\ m.highest = None
    BY <1>1, <1>2, Numbers
  <2>5. FramesShape(src, n.frames, n.highest) /\ TermShape(src, n.terminal, n.highest, n.expired)
    BY <1>1, <2>2, <2>4, FramesLater, TermLater DEF Shape
  <2>6. GapsShape(src, n.gaps, n.highest)
    BY <1>1, <2>2, <2>4, GapsLater DEF Shape
  <2>7. Shape(src, n)
    BY <2>3, <2>5, <2>6 DEF Shape
  <2>8. Keeps(src, m, n) /\ \A u \in DOMAIN src : Closed(m, u) => Closed(n, u)
    <3>1. n.highest >= m.highest /\ n.expired >= m.expired /\ Fields(src, m)
      BY <1>1, <2>2, <2>4 DEF Shape
    <3> QED  BY <2>2, <2>3, <3>1, KeepsMore
  <2> QED  BY <1>1, <2>2, <2>7, <2>8 DEF n
<1>3. CASE m.highest # None /\ id <= m.highest
  <2>1. n = [m EXCEPT !.gaps = @ \ {id}]
    BY <1>3 DEF ObserveFrameId
  <2>2. /\ IsRecord(n) /\ n.epoch = m.epoch /\ n.expired = m.expired /\ n.highest = m.highest
        /\ n.gaps = m.gaps \ {id} /\ n.frames = m.frames /\ n.terminal = m.terminal
        /\ n.lost = m.lost
    BY <1>1, <2>1 DEF IsRecord
  <2> HIDE DEF n
  <2>3. Fields(src, n) /\ GapsShape(src, n.gaps, n.highest)
    BY <1>1, <2>2 DEF Shape, Fields, GapsShape
  <2>4. Shape(src, n) /\ Keeps(src, m, n) /\ \A u \in DOMAIN src : Closed(m, u) => Closed(n, u)
    BY <1>1, <2>2, <2>3, KeepsMore DEF Shape
  <2> QED  BY <1>1, <1>3, <2>2, <2>4 DEF n
<1>4. CASE m.highest # None /\ ~(id <= m.highest) /\ Cardinality(skipped) > Capacity
  <2>1. n = [m EXCEPT !.gaps = {}, !.highest = id, !.lost = TRUE,
                      !.expired = Raise(@, id - 1)]
    BY <1>4 DEF ObserveFrameId
  <2> DEFINE e == Raise(m.expired, id - 1)
  <2>2. e \in DOMAIN src \cup {None} /\ e \in Nat /\ m.expired <= e
    <3>1. id - 1 \in m.highest..id /\ m.highest \in DOMAIN src
      BY <1>1, <1>4
    <3>2. id - 1 \in DOMAIN src
      BY <3>1 DEF IsStream
    <3> QED  BY <1>1, <3>2 DEF Raise
  <2>3. /\ IsRecord(n) /\ n.epoch = m.epoch /\ n.expired = e /\ n.highest = id
        /\ n.gaps = {} /\ n.frames = m.frames /\ n.terminal = m.terminal
        /\ n.lost = TRUE
    <3> HIDE DEF e
    <3>1. n = [m EXCEPT !.gaps = {}, !.highest = id, !.lost = TRUE, !.expired = e]
      BY <2>1 DEF e
    <3> HIDE DEF n
    <3> QED  BY <1>1, <2>2, <3>1 DEF IsRecord
  <2> HIDE DEF n, e
  <2>4. Fields(src, n) /\ GapsShape(src, n.gaps, n.highest) /\ m.highest <= id
    BY <1>1, <1>4, <2>2, <2>3 DEF Shape, Fields, GapsShape
  <2>5. FramesShape(src, n.frames, n.highest) /\ TermShape(src, n.terminal, n.highest, n.expired)
    BY <1>1, <2>2, <2>3, <2>4, FramesLater, TermLater DEF Shape
  <2>6. Shape(src, n) /\ Keeps(src, m, n) /\ \A u \in DOMAIN src : Closed(m, u) => Closed(n, u)
    BY <1>1, <1>4, <2>2, <2>3, <2>4, <2>5, KeepsMore DEF Shape
  <2>7. id \notin m.gaps
    BY <1>1, <1>4 DEF Shape, GapsShape
  <2> QED  BY <1>1, <2>3, <2>6, <2>7 DEF n
<1>5. CASE m.highest # None /\ ~(id <= m.highest) /\ ~(Cardinality(skipped) > Capacity)
  <2>1. n = [m EXCEPT !.gaps = (@ \ {id}) \cup skipped, !.highest = id]
    BY <1>5 DEF ObserveFrameId
  <2>2. /\ IsRecord(n) /\ n.epoch = m.epoch /\ n.expired = m.expired /\ n.highest = id
        /\ n.gaps = (m.gaps \ {id}) \cup skipped /\ n.frames = m.frames
        /\ n.terminal = m.terminal /\ n.lost = m.lost
    <3> HIDE DEF skipped
    <3> QED  BY <1>1, <2>1 DEF IsRecord
  <2>3. \A g \in skipped : g \in DOMAIN src /\ g <= id /\ src[g].epoch = src[id].epoch
    <3> SUFFICES ASSUME NEW g \in skipped
                 PROVE  g \in DOMAIN src /\ g <= id /\ src[g].epoch = src[id].epoch
      OBVIOUS
    <3>1. g \in m.highest..id /\ m.highest \in DOMAIN src /\ m.highest < g /\ g < id
      BY <1>1, <1>5
    <3>2. g \in DOMAIN src
      BY <3>1 DEF IsStream
    <3>3. src[m.highest].epoch <= src[g].epoch /\ src[g].epoch <= src[id].epoch
      BY <3>1, <3>2 DEF IsStream
    <3>4. src[g].epoch \in Nat /\ src[id].epoch \in Nat /\ src[m.highest].epoch \in Nat
      BY <3>1, <3>2 DEF IsStream
    <3> QED  BY <1>1, <1>5, <3>1, <3>2, <3>3, <3>4
  <2> HIDE DEF n, skipped
  <2>4. Fields(src, n) /\ m.highest <= id
    BY <1>1, <1>5, <2>2 DEF Shape, Fields
  <2>5. FramesShape(src, n.frames, n.highest) /\ TermShape(src, n.terminal, n.highest, n.expired)
    BY <1>1, <2>2, <2>4, FramesLater, TermLater DEF Shape
  <2>6. GapsShape(src, n.gaps, n.highest)
    <3>1. GapsShape(src, m.gaps \ {id}, id)
      BY <1>1, <2>4, GapsLater DEF Shape
    <3> QED  BY <2>2, <2>3, <3>1 DEF GapsShape
  <2>7. Shape(src, n) /\ Keeps(src, m, n) /\ \A u \in DOMAIN src : Closed(m, u) => Closed(n, u)
    BY <1>1, <1>5, <2>2, <2>4, <2>5, <2>6, KeepsMore DEF Shape
  <2> QED  BY <1>1, <2>2, <2>7 DEF n
<1> QED  BY <1>2, <1>3, <1>4, <1>5

(* A reference unit is not dropped silently.                                *)
LEMMA DropFacts ==
    ASSUME NEW src, IsStream(src),
           NEW m, IsRecord(m), FramesShape(src, m.frames, m.highest), NEW ids, ids \subseteq DOMAIN m.frames
    PROVE  /\ IsRecord(RecordIncompleteDrop(m, ids))
           /\ RecordIncompleteDrop(m, ids).frames = Without(m.frames, ids)
           /\ RecordIncompleteDrop(m, ids).epoch = m.epoch
           /\ RecordIncompleteDrop(m, ids).expired = m.expired
           /\ RecordIncompleteDrop(m, ids).highest = m.highest
           /\ RecordIncompleteDrop(m, ids).gaps = m.gaps
           /\ RecordIncompleteDrop(m, ids).terminal = m.terminal
           /\ m.lost => RecordIncompleteDrop(m, ids).lost
           /\ \A i \in ids : src[i].kind # "disc" => RecordIncompleteDrop(m, ids).lost
<1> DEFINE n == RecordIncompleteDrop(m, ids)
           l == m.lost \/ \E i \in ids : m.frames[i].kind # "disc"
           f == Without(m.frames, ids)
<1>1. n = [m EXCEPT !.frames = f, !.lost = l]
  BY DEF RecordIncompleteDrop
<1>2. l \in BOOLEAN
  OBVIOUS
<1>3. \A i \in ids : src[i].kind # "disc" => l
  BY DEF FramesShape
<1>4. m.lost => l
  OBVIOUS
<1> HIDE DEF n, l, f
<1>5. /\ IsRecord(n) /\ n.frames = f /\ n.epoch = m.epoch /\ n.expired = m.expired
      /\ n.highest = m.highest /\ n.gaps = m.gaps /\ n.terminal = m.terminal /\ n.lost = l
  BY <1>1, <1>2 DEF IsRecord
<1> QED  BY <1>3, <1>4, <1>5 DEF n, f

LEMMA DropOldestFacts ==
    ASSUME NEW src, IsStream(src),
           NEW m, Shape(src, m), Cardinality(DOMAIN m.frames) >= MaxFrames
    PROVE  /\ Shape(src, DropOldest(m))
           /\ Keeps(src, m, DropOldest(m))
           /\ DropOldest(m).highest = m.highest /\ DropOldest(m).gaps = m.gaps
           /\ Cardinality(DOMAIN DropOldest(m).frames) <= MaxFrames - 1
           /\ m.lost => DropOldest(m).lost
           /\ \A i \in DOMAIN m.frames \ DOMAIN DropOldest(m).frames :
                 src[i].kind # "disc" => DropOldest(m).lost
           /\ DOMAIN DropOldest(m).frames \subseteq DOMAIN m.frames
<1> DEFINE D == DOMAIN m.frames
           deltas == {i \in D : m.frames[i].kind # "key"}
           oldest == Min(IF deltas # {} THEN deltas ELSE D)
           k == RecordIncompleteDrop(m, {oldest})
           n == Remember(k, oldest)
<1>1. n = DropOldest(m)
  BY DEF DropOldest
<1>2. /\ IsRecord(m) /\ m.highest \in Nat /\ m.expired \in Nat
      /\ D \subseteq DOMAIN src /\ \A i \in D : i <= m.highest
      /\ IsFiniteSet(D) /\ Cardinality(D) \in Nat /\ D # {}
  <2>1. IsRecord(m) /\ m.highest \in Nat /\ m.expired \in Nat
    BY DEF Shape, Fields, IsRecord
  <2>2. IsFiniteSet(D) /\ Cardinality(D) \in Nat
    BY <2>1, FramesAreFinite DEF Shape
  <2>3. D # {}
    BY <2>2, Numbers, FS_EmptySet
  <2> QED  BY <2>1, <2>2, <2>3 DEF Shape, FramesShape
<1>3. oldest \in D
  <2>1. ASSUME NEW S, S \subseteq D, S # {}  PROVE Min(S) \in S
    BY <1>2, <2>1, MinIsLeast, Numbers
  <2>2. deltas \subseteq D
    OBVIOUS
  <2> HIDE DEF deltas, D
  <2> QED  BY <1>2, <2>1, <2>2
<1> HIDE DEF oldest
<1>4. /\ IsRecord(k) /\ k.frames = Without(m.frames, {oldest})
      /\ k.epoch = m.epoch /\ k.expired = m.expired /\ k.highest = m.highest
      /\ k.gaps = m.gaps /\ k.terminal = m.terminal
      /\ m.lost => k.lost
      /\ src[oldest].kind # "disc" => k.lost
  <2>1. {oldest} \subseteq DOMAIN m.frames
    BY <1>3
  <2>2. \A i \in {oldest} : src[i].kind # "disc" => k.lost
    BY <1>2, <2>1, DropFacts DEF Shape
  <2> QED  BY <1>2, <2>1, <2>2, DropFacts DEF Shape
<1> HIDE DEF k
<1>5. Fields(src, k) /\ TermShape(src, k.terminal, k.highest, k.expired)
  BY <1>4 DEF Shape, Fields
<1>6. oldest \in DOMAIN src /\ oldest <= m.highest
  BY <1>2, <1>3
<1>7. /\ Fields(src, n) /\ Keeps(src, k, n)
      /\ n.epoch = k.epoch /\ n.expired = k.expired /\ n.highest = k.highest
      /\ n.gaps = k.gaps /\ n.frames = k.frames /\ n.lost = k.lost
  BY <1>4, <1>5, <1>6, RememberKeeps, RememberFacts
<1>8. TermShape(src, n.terminal, n.highest, n.expired)
  <2>1. m.highest <= m.highest /\ m.expired <= m.expired
    BY <1>2
  <2> QED  BY <1>2, <1>4, <1>5, <1>6, <1>7, <2>1, TermGrows
<1> HIDE DEF n
<1>9. /\ FramesShape(src, n.frames, n.highest) /\ DOMAIN n.frames = D \ {oldest}
      /\ GapsShape(src, n.gaps, n.highest)
  <2>1. n.frames = Without(m.frames, {oldest}) /\ n.highest = m.highest /\ n.gaps = m.gaps
    BY <1>4, <1>7
  <2>2. FramesShape(src, m.frames, m.highest) /\ GapsShape(src, m.gaps, m.highest)
    BY DEF Shape
  <2>3. /\ FramesShape(src, Without(m.frames, {oldest}), m.highest)
        /\ DOMAIN Without(m.frames, {oldest}) = D \ {oldest}
    BY <1>2, <2>2, FramesShrink, WithoutFacts
  <2> QED  BY <2>1, <2>2, <2>3
<1>10. Cardinality(DOMAIN n.frames) <= MaxFrames - 1
  <2>1. Cardinality(D \ {oldest}) = Cardinality(D) - 1
    BY <1>2, <1>3, FS_RemoveElement
  <2>2. Cardinality(D) <= MaxFrames
    BY DEF Shape, FramesShape
  <2> QED  BY <1>2, <1>9, <2>1, <2>2, Numbers
<1>11. Keeps(src, m, n)
  <2>1. Keeps(src, m, k)
    BY <1>2, <1>4, <1>5, KeepsMore DEF Shape
  <2> QED  BY <1>5, <1>7, <2>1, KeepsTrans DEF Shape
<1>12. Shape(src, n)
  BY <1>7, <1>8, <1>9 DEF Shape
<1>13. \A i \in DOMAIN m.frames \ DOMAIN n.frames : src[i].kind # "disc" => n.lost
  BY <1>4, <1>7, <1>9
<1> QED  BY <1>1, <1>4, <1>7, <1>9, <1>10, <1>11, <1>12, <1>13

LEMMA RepairedFacts ==
    ASSUME NEW got, got \subseteq Fragments
    PROVE  Repaired(got) \subseteq Fragments
BY DEF Repaired, Fragments, Data

LEMMA PacketFacts ==
    ASSUME NEW src, NEW p, IsStream(src), Names(src, p)
    PROVE  /\ p.id \in DOMAIN src /\ p.epoch = src[p.id].epoch /\ p.kind = src[p.id].kind
           /\ p.epoch \in EpochsOf(src) /\ p.epoch \in Nat /\ p.epoch # 0
BY DEF Names, IsStream, EpochsOf

(* The unit of the packet stays, is handed on, or is the one that vanishes. *)
LEMMA StoreFacts ==
    ASSUME NEW src, IsStream(src), NEW m, Shape(src, m),
           NEW p, IsPacket(src, p), p.id <= m.highest, p.epoch = m.epoch
    PROVE  /\ Shape(src, StoreFragment(m, p).map)
           /\ Keeps(src, m, StoreFragment(m, p).map)
           /\ StoreFragment(m, p).map.gaps = m.gaps
           /\ StoreFragment(m, p).map.highest = m.highest
           /\ m.lost => StoreFragment(m, p).map.lost
           /\ \/ /\ StoreFragment(m, p).unit = p.id
                 /\ p.id \in StoreFragment(m, p).map.terminal
              \/ /\ StoreFragment(m, p).unit = None
                 /\ p.id \in DOMAIN StoreFragment(m, p).map.frames
           /\ \A i \in DOMAIN m.frames \ DOMAIN StoreFragment(m, p).map.frames :
                 i # p.id /\ src[i].kind # "disc" => StoreFragment(m, p).map.lost
<1> DEFINE Full == Cardinality(DOMAIN m.frames) >= MaxFrames /\ p.id \notin DOMAIN m.frames
           room == IF Full THEN DropOldest(m) ELSE m
           got == Repaired({p.fragment} \cup
                      (IF p.id \in DOMAIN room.frames THEN room.frames[p.id].got ELSE {}))
           cleared == [room EXCEPT !.frames = Without(@, {p.id})]
           done == Remember(cleared, p.id)
           more == [i \in DOMAIN room.frames \cup {p.id} |->
                       IF i = p.id THEN [kind |-> p.kind, got |-> got] ELSE room.frames[i]]
           kept == [room EXCEPT !.frames = more]
<1>1. StoreFragment(m, p) = IF Data \subseteq got THEN [map |-> done, unit |-> p.id]
                            ELSE [map |-> kept, unit |-> None]
  BY DEF StoreFragment
<1>2. /\ p.id \in DOMAIN src /\ p.kind = src[p.id].kind /\ p.fragment \in Fragments
      /\ src[p.id].epoch = src[m.highest].epoch
  <2>1. m.highest # None
    BY PacketFacts, Numbers DEF IsPacket
  <2> QED  BY <2>1, PacketFacts DEF IsPacket, Shape, Fields
<1>3. /\ Shape(src, room) /\ Keeps(src, m, room) /\ room.highest = m.highest /\ room.gaps = m.gaps
      /\ m.lost => room.lost
      /\ \A i \in DOMAIN m.frames \ DOMAIN room.frames : src[i].kind # "disc" => room.lost
      /\ p.id \in DOMAIN room.frames \/ Cardinality(DOMAIN room.frames) <= MaxFrames - 1
  <2>1. CASE Full
    BY <2>1, DropOldestFacts
  <2>2. CASE ~Full
    <3>1. Keeps(src, m, m)
      BY KeepsItself DEF Shape
    <3>2. p.id \notin DOMAIN m.frames => Cardinality(DOMAIN m.frames) <= MaxFrames - 1
      <4>1. m.highest \in Nat
        BY DEF Shape, Fields, IsRecord
      <4>2. Cardinality(DOMAIN m.frames) \in Nat
        BY <4>1, FramesAreFinite DEF Shape
      <4> QED  BY <2>2, <4>2, Numbers
    <3> QED  BY <2>2, <3>1, <3>2
  <2> QED  BY <2>1, <2>2
<1> HIDE DEF room
<1>4. /\ Fields(src, room) /\ IsRecord(room) /\ room.highest \in Nat /\ room.expired \in Nat
      /\ FramesShape(src, room.frames, room.highest) /\ GapsShape(src, room.gaps, room.highest)
      /\ TermShape(src, room.terminal, room.highest, room.expired)
  BY <1>3 DEF Shape, Fields, IsRecord
<1>5. got \subseteq Fragments
  <2>1. p.id \in DOMAIN room.frames => room.frames[p.id].got \subseteq Fragments
    BY <1>4 DEF FramesShape
  <2> QED  BY <1>2, <2>1, RepairedFacts
<1> HIDE DEF got
<1>6. CASE Data \subseteq got
  <2>1. /\ IsRecord(cleared) /\ cleared.frames = Without(room.frames, {p.id})
        /\ cleared.epoch = room.epoch /\ cleared.expired = room.expired
        /\ cleared.highest = room.highest /\ cleared.gaps = room.gaps
        /\ cleared.terminal = room.terminal /\ cleared.lost = room.lost
    BY <1>4 DEF IsRecord
  <2> HIDE DEF cleared
  <2>2. Fields(src, cleared) /\ TermShape(src, cleared.terminal, cleared.highest, cleared.expired)
    BY <1>4, <2>1 DEF Fields
  <2>3. /\ Fields(src, done) /\ Keeps(src, cleared, done)
        /\ done.expired = room.expired /\ done.highest = room.highest
        /\ done.gaps = room.gaps /\ done.frames = cleared.frames /\ done.lost = room.lost
        /\ p.id \in done.terminal
    BY <1>2, <2>1, <2>2, RememberKeeps, RememberFacts
  <2>4. TermShape(src, done.terminal, done.highest, done.expired)
    <3>1. room.highest <= room.highest /\ room.expired <= room.expired /\ p.id <= room.highest
      BY <1>3, <1>4
    <3>2. TermShape(src, done.terminal, room.highest, room.expired)
      BY <1>2, <1>4, <2>1, <2>2, <3>1, TermGrows
    <3> QED  BY <2>3, <3>2
  <2> HIDE DEF done
  <2>5. FramesShape(src, done.frames, done.highest) /\ DOMAIN done.frames = DOMAIN room.frames \ {p.id}
    <3>1. /\ FramesShape(src, Without(room.frames, {p.id}), room.highest)
          /\ DOMAIN Without(room.frames, {p.id}) = DOMAIN room.frames \ {p.id}
      BY <1>4, FramesShrink, WithoutFacts
    <3> QED  BY <2>1, <2>3, <3>1
  <2>6. Shape(src, done)
    BY <1>4, <2>3, <2>4, <2>5 DEF Shape
  <2>7. Keeps(src, m, done)
    <3>1. Keeps(src, room, cleared)
      BY <1>4, <2>1, <2>2, KeepsMore
    <3>2. Keeps(src, m, cleared)
      BY <1>3, <1>4, <2>2, <3>1, KeepsTrans DEF Shape
    <3> QED  BY <2>2, <2>3, <3>2, KeepsTrans DEF Shape
  <2>8. StoreFragment(m, p).map = done /\ StoreFragment(m, p).unit = p.id
    BY <1>1, <1>6
  <2>9. \A i \in DOMAIN m.frames \ DOMAIN done.frames : i # p.id /\ src[i].kind # "disc" => done.lost
    BY <1>3, <2>3, <2>5
  <2> QED  BY <1>3, <2>3, <2>6, <2>7, <2>8, <2>9
<1>7. CASE ~(Data \subseteq got)
  <2>1. /\ IsRecord(kept) /\ kept.frames = more
        /\ kept.epoch = room.epoch /\ kept.expired = room.expired
        /\ kept.highest = room.highest /\ kept.gaps = room.gaps
        /\ kept.terminal = room.terminal /\ kept.lost = room.lost
    <3> HIDE DEF more
    <3> QED  BY <1>4 DEF IsRecord
  <2> HIDE DEF kept
  <2>2. DOMAIN more = DOMAIN room.frames \cup {p.id}
    OBVIOUS
  <2>3. \A i \in DOMAIN more : /\ i \in DOMAIN src /\ i <= room.highest
                               /\ src[i].epoch = src[room.highest].epoch
                               /\ more[i].kind = src[i].kind
                               /\ more[i].got \subseteq Fragments /\ ~(Data \subseteq more[i].got)
    <3>1. \A i \in DOMAIN room.frames :
              /\ i \in DOMAIN src /\ i <= room.highest /\ room.frames[i].kind = src[i].kind
              /\ src[i].epoch = src[room.highest].epoch
              /\ room.frames[i].got \subseteq Fragments /\ ~(Data \subseteq room.frames[i].got)
      BY <1>4 DEF FramesShape
    <3>2. p.id <= room.highest /\ src[p.id].epoch = src[room.highest].epoch
      BY <1>2, <1>3
    <3>3. more[p.id].kind = src[p.id].kind /\ more[p.id].got \subseteq Fragments
          /\ ~(Data \subseteq more[p.id].got)
      BY <1>2, <1>5, <1>7
    <3>4. \A i \in DOMAIN room.frames : i # p.id => more[i] = room.frames[i]
      OBVIOUS
    <3> HIDE DEF more
    <3> QED  BY <1>2, <2>2, <3>1, <3>2, <3>3, <3>4
  <2>4. Cardinality(DOMAIN more) <= MaxFrames
    <3>1. IsFiniteSet(DOMAIN room.frames) /\ Cardinality(DOMAIN room.frames) \in Nat
      BY <1>4, FramesAreFinite
    <3>2. Cardinality(DOMAIN room.frames) <= MaxFrames
      BY <1>4 DEF FramesShape
    <3>3. Cardinality(DOMAIN room.frames \cup {p.id}) =
              IF p.id \in DOMAIN room.frames THEN Cardinality(DOMAIN room.frames)
              ELSE Cardinality(DOMAIN room.frames) + 1
      BY <3>1, FS_AddElement
    <3> HIDE DEF more
    <3> QED  BY <1>3, <2>2, <3>1, <3>2, <3>3, Numbers
  <2> HIDE DEF more
  <2>5. Shape(src, kept)
    BY <1>4, <2>1, <2>3, <2>4 DEF Shape, Fields, FramesShape
  <2>6. Keeps(src, m, kept)
    <3>1. Keeps(src, room, kept)
      BY <1>4, <2>1, <2>5, KeepsMore DEF Shape
    <3> QED  BY <1>3, <1>4, <2>5, <3>1, KeepsTrans DEF Shape
  <2>7. StoreFragment(m, p).map = kept /\ StoreFragment(m, p).unit = None
    BY <1>1, <1>7
  <2>8. \A i \in DOMAIN m.frames \ DOMAIN kept.frames : src[i].kind # "disc" => kept.lost
    BY <1>3, <2>1, <2>2
  <2> QED  BY <1>3, <2>1, <2>2, <2>5, <2>6, <2>7, <2>8
<1> QED  BY <1>6, <1>7

LEMMA EmptyShape ==
    ASSUME NEW src, IsStream(src), NEW e \in EpochsOf(src) \cup {0}
    PROVE  Shape(src, [EmptyMap EXCEPT !.epoch = e]) /\ Shape(src, EmptyMap)
<1> DEFINE n == [EmptyMap EXCEPT !.epoch = e]
<1>1. EpochsOf(src) \subseteq Nat
  BY DEF IsStream, EpochsOf
<1>2. /\ EmptyMap.epoch = 0 /\ EmptyMap.expired = None /\ EmptyMap.highest = None
      /\ EmptyMap.gaps = {} /\ EmptyMap.frames = <<>> /\ EmptyMap.terminal = {}
  BY DEF EmptyMap
<1>3. IsRecord(EmptyMap)
  BY DEF EmptyMap, IsRecord, None
<1>4. Cardinality({}) = 0 /\ DOMAIN <<>> = {}
  BY FS_EmptySet
<1>5. FramesShape(src, <<>>, None) /\ GapsShape(src, {}, None) /\ TermShape(src, {}, None, None)
  BY <1>4, Numbers DEF FramesShape, GapsShape, TermShape
<1>6. /\ IsRecord(n) /\ n.epoch = e /\ n.expired = None /\ n.highest = None
      /\ n.gaps = {} /\ n.frames = <<>> /\ n.terminal = {}
  <2>1. e \in Nat
    BY <1>1
  <2>2. \A m : IsRecord(m) => LET k == [m EXCEPT !.epoch = e] IN
            /\ IsRecord(k) /\ k.epoch = e /\ k.expired = m.expired /\ k.highest = m.highest
            /\ k.gaps = m.gaps /\ k.frames = m.frames /\ k.terminal = m.terminal
    BY <2>1 DEF IsRecord
  <2> QED  BY <1>2, <1>3, <2>2
<1> HIDE DEF n
<1>7. Shape(src, n)
  BY <1>5, <1>6 DEF Shape, Fields
<1>8. Shape(src, EmptyMap)
  BY <1>2, <1>3, <1>5 DEF Shape, Fields
<1> QED  BY <1>7, <1>8 DEF n

LEMMA EpochFacts ==
    ASSUME NEW src, IsStream(src), NEW m, Shape(src, m),
           NEW e \in EpochsOf(src), ~(e < m.epoch)
    PROVE  /\ Shape(src, ForEpoch(m, e)) /\ ForEpoch(m, e).epoch = e
           /\ ForEpoch(m, e).highest \in {m.highest, None}
           /\ e = m.epoch => ForEpoch(m, e) = m
           /\ e \in Nat /\ m.epoch \in Nat
<1>1. e \in Nat /\ m.epoch \in Nat
  BY DEF IsStream, EpochsOf, Shape, Fields, IsRecord
<1>2. CASE e > m.epoch
  <2>1. ForEpoch(m, e) = [EmptyMap EXCEPT !.epoch = e]
    BY <1>2 DEF ForEpoch
  <2>2. ForEpoch(m, e).epoch = e /\ ForEpoch(m, e).highest = None
    BY <2>1 DEF EmptyMap
  <2> QED  BY <1>1, <1>2, <2>1, <2>2, EmptyShape
<1>3. CASE e = m.epoch
  BY <1>1, <1>3 DEF ForEpoch
<1> QED  BY <1>1, <1>2, <1>3

(* A unit of m that is open no longer is open neither in n nor told of.     *)
Reported(src, m, n, except) ==
    \A u \in Unresolved(m) \ Unresolved(n) :
        src[u].kind # "disc" /\ ~(u \in m.gaps /\ Closed(m, u)) /\ u \notin except => n.lost

(* What every operation promises of the old map m and the new one n.        *)
Proceeds(src, m, n) ==
    /\ Shape(src, n)
    /\ n.epoch >= m.epoch
    /\ n.epoch = m.epoch => Keeps(src, m, n)

(* What is handed on is the unit of the packet, which was open.             *)
HandsOn(m, p, out) ==
    out.unit # None =>
        /\ out.unit = p.id /\ p.id \in out.map.terminal
        /\ out.map.epoch = p.epoch /\ p.epoch >= m.epoch
        /\ p.epoch = m.epoch => ~Closed(m, p.id)

LEMMA IngestFacts ==
    ASSUME NEW src, NEW m, NEW p, IsStream(src), Shape(src, m), IsPacket(src, p)
    PROVE  /\ Proceeds(src, m, Ingest(m, p).map)
           /\ Ingest(m, p).map.epoch = m.epoch =>
                 Reported(src, m, Ingest(m, p).map, {Ingest(m, p).unit})
           /\ HandsOn(m, p, Ingest(m, p))
           /\ Ingest(m, p).map.highest \in {m.highest, None, p.id}
           /\ Ingest(m, p).map.epoch >= p.epoch
<1> DEFINE fresh == ForEpoch(m, p.epoch)
           current == ObserveFrameId(fresh, p.id)
           stored == StoreFragment(current, p)
           out == Ingest(m, p)
<1>0. /\ p.id \in DOMAIN src /\ p.epoch \in EpochsOf(src) /\ p.epoch \in Nat /\ m.epoch \in Nat
      /\ p.epoch = src[p.id].epoch
  BY PacketFacts DEF IsPacket, Shape, Fields, IsRecord
<1>1. out = IF p.epoch < m.epoch THEN [map |-> m, unit |-> None]
            ELSE IF Closed(current, p.id) THEN [map |-> current, unit |-> None]
            ELSE stored
  BY DEF Ingest
<1>2. CASE p.epoch < m.epoch
  <2>1. out.map = m /\ out.unit = None
    BY <1>1, <1>2
  <2>2. Keeps(src, m, m)
    BY KeepsItself DEF Shape
  <2>3. Reported(src, m, m, {None})
    BY DEF Reported
  <2>4. m.epoch >= m.epoch /\ m.epoch >= p.epoch
    BY <1>0, <1>2
  <2> HIDE DEF out
  <2> QED  BY <2>1, <2>2, <2>3, <2>4 DEF Proceeds, HandsOn, out
<1>3. CASE ~(p.epoch < m.epoch)
  <2>1. /\ Shape(src, fresh) /\ fresh.epoch = p.epoch /\ (p.epoch = m.epoch => fresh = m)
        /\ fresh.highest \in {m.highest, None}
    BY <1>0, <1>3, EpochFacts
  <2> HIDE DEF fresh
  <2>2. /\ Shape(src, current) /\ Keeps(src, fresh, current)
        /\ \A u \in DOMAIN src : Closed(fresh, u) => Closed(current, u)
        /\ current.frames = fresh.frames /\ current.epoch = p.epoch
        /\ current.terminal = fresh.terminal
        /\ p.id <= current.highest /\ current.highest \in {fresh.highest, p.id}
        /\ fresh.gaps \subseteq current.gaps \cup {p.id} \/ current.lost
        /\ p.id \in fresh.gaps => current.expired = fresh.expired
    BY <1>0, <2>1, ObserveFacts
  <2> HIDE DEF current
  <2>3. CASE Closed(current, p.id)
    <3>1. out.map = current /\ out.unit = None
      BY <1>1, <1>3, <2>3
    <3>2. Proceeds(src, m, current)
      BY <1>0, <1>3, <2>1, <2>2 DEF Proceeds
    <3>3. ASSUME p.epoch = m.epoch  PROVE Reported(src, m, current, {None})
      BY <2>1, <2>2, <2>3, <3>3 DEF Reported, Unresolved, Closed
    <3> QED  BY <1>0, <2>1, <2>2, <3>1, <3>2, <3>3 DEF HandsOn
  <2>4. CASE ~Closed(current, p.id)
    <3>1. out = stored
      BY <1>1, <1>3, <2>4
    <3>2. /\ Shape(src, stored.map) /\ Keeps(src, current, stored.map)
          /\ stored.map.gaps = current.gaps /\ stored.map.highest = current.highest
          /\ current.lost => stored.map.lost
          /\ \/ stored.unit = p.id /\ p.id \in stored.map.terminal
             \/ stored.unit = None /\ p.id \in DOMAIN stored.map.frames
          /\ \A i \in DOMAIN current.frames \ DOMAIN stored.map.frames :
                i # p.id /\ src[i].kind # "disc" => stored.map.lost
      BY <2>2, StoreFacts
    <3> HIDE DEF stored
    <3>3. stored.map.epoch = p.epoch
      BY <2>2, <3>2 DEF Keeps
    <3>4. Proceeds(src, m, stored.map)
      <4>1. Keeps(src, fresh, stored.map)
        BY <2>1, <2>2, <3>2, KeepsTrans DEF Shape
      <4> QED  BY <1>0, <1>3, <2>1, <3>2, <3>3, <4>1 DEF Proceeds
    <3>5. ASSUME p.epoch = m.epoch  PROVE Reported(src, m, stored.map, {stored.unit})
      BY <2>1, <2>2, <3>2, <3>5 DEF Reported, Unresolved
    <3>6. p.epoch = m.epoch => ~Closed(m, p.id)
      BY <1>0, <2>1, <2>2, <2>4
    <3>7. p.epoch >= m.epoch
      BY <1>0, <1>3
    <3> HIDE DEF out
    <3>8. stored.map.highest \in {m.highest, None, p.id} /\ stored.map.epoch >= p.epoch
      BY <1>0, <2>1, <2>2, <3>2, <3>3
    <3> QED  BY <3>1, <3>2, <3>3, <3>4, <3>5, <3>6, <3>7, <3>8 DEF out, HandsOn
  <2> QED  BY <2>3, <2>4
<1> QED  BY <1>2, <1>3

LEMMA IngestUnit ==
    ASSUME NEW src, NEW m, NEW p, IsStream(src), Shape(src, m), IsPacket(src, p),
           Ingest(m, p).unit # None
    PROVE  /\ Ingest(m, p).unit = p.id /\ p.id \in Ingest(m, p).map.terminal
           /\ Ingest(m, p).map.epoch = p.epoch /\ p.epoch >= m.epoch
           /\ p.epoch = m.epoch => ~Closed(m, p.id)
BY IngestFacts DEF HandsOn

LEMMA RaiseFacts ==
    ASSUME NEW e \in Nat, NEW id \in Nat
    PROVE  Raise(e, id) \in {e, id} /\ Raise(e, id) >= e /\ Raise(e, id) >= id
BY DEF Raise

LEMMA OpenIsUnit ==
    ASSUME NEW src, IsStream(src), NEW m, Shape(src, m)
    PROVE  \A u \in Unresolved(m) : u \in DOMAIN src /\ u \in Nat /\ u <= m.highest
BY Numbers DEF Shape, FramesShape, GapsShape, Unresolved

LEMMA ExpireFacts ==
    ASSUME NEW src, IsStream(src), NEW m, Shape(src, m), NEW u \in Unresolved(m)
    PROVE  /\ Proceeds(src, m, ExpireThrough(m, u))
           /\ ExpireThrough(m, u).highest = m.highest
           /\ Reported(src, m, ExpireThrough(m, u), {})
<1> DEFINE ids == {i \in DOMAIN m.frames : i <= u}
           d == RecordIncompleteDrop(m, ids)
           old == {g \in m.gaps : g <= u}
           e == Raise(d.expired, u)
           l == d.lost \/ old # {}
           n == ExpireThrough(m, u)
<1>1. /\ IsRecord(m) /\ m.highest \in Nat /\ m.expired \in Nat
      /\ u \in DOMAIN src /\ u \in Nat /\ u <= m.highest
  BY OpenIsUnit DEF Shape, Fields, IsRecord
<1>2. /\ IsRecord(d) /\ d.frames = Without(m.frames, ids) /\ d.epoch = m.epoch
      /\ d.expired = m.expired /\ d.highest = m.highest /\ d.gaps = m.gaps
      /\ d.terminal = m.terminal /\ (m.lost => d.lost)
      /\ \A i \in ids : src[i].kind # "disc" => d.lost
  <2>1. ids \subseteq DOMAIN m.frames
    OBVIOUS
  <2> HIDE DEF ids
  <2> QED  BY <1>1, <2>1, DropFacts DEF Shape
<1>3. n = [d EXCEPT !.gaps = @ \ old, !.lost = l, !.expired = e]
  BY DEF ExpireThrough
<1>4. e \in {m.expired, u} /\ e >= m.expired /\ e \in Nat
  BY <1>1, <1>2, RaiseFacts
<1>5. l \in BOOLEAN /\ (d.lost => l) /\ (old # {} => l)
  OBVIOUS
<1> HIDE DEF d, e, l, n
<1>6. /\ IsRecord(n) /\ n.frames = Without(m.frames, ids) /\ n.epoch = m.epoch /\ n.expired = e
      /\ n.highest = m.highest /\ n.gaps = m.gaps \ old /\ n.terminal = m.terminal /\ n.lost = l
  <2> HIDE DEF ids, old
  <2> QED  BY <1>2, <1>3, <1>4, <1>5 DEF IsRecord
<1>7. Fields(src, n)
  BY <1>1, <1>4, <1>6 DEF Shape, Fields
<1>8. FramesShape(src, n.frames, n.highest) /\ DOMAIN n.frames = DOMAIN m.frames \ ids
  <2> HIDE DEF ids
  <2>1. /\ FramesShape(src, Without(m.frames, ids), m.highest)
        /\ DOMAIN Without(m.frames, ids) = DOMAIN m.frames \ ids
    BY <1>1, FramesShrink, WithoutFacts DEF Shape
  <2> QED  BY <1>6, <2>1
<1>9. GapsShape(src, n.gaps, n.highest)
  BY <1>1, <1>6, GapsLater DEF Shape
<1>10. TermShape(src, n.terminal, n.highest, n.expired)
  <2>1. m.highest <= m.highest /\ m.expired <= e
    BY <1>1, <1>4
  <2> QED  BY <1>1, <1>4, <1>6, <2>1, TermLater DEF Shape
<1>11. Shape(src, n)
  BY <1>7, <1>8, <1>9, <1>10 DEF Shape
<1>12. n.expired >= m.expired /\ n.highest >= m.highest /\ n.epoch >= m.epoch
  BY <1>1, <1>4, <1>6 DEF IsRecord
<1>13. Proceeds(src, m, n)
  BY <1>6, <1>7, <1>11, <1>12, KeepsMore DEF Shape, Proceeds
<1>14. Reported(src, m, n, {})
  <2> SUFFICES ASSUME NEW v \in Unresolved(m) \ Unresolved(n), src[v].kind # "disc"  PROVE n.lost
    BY DEF Reported
  <2>1. v \in ids \/ v \in old
    <3> HIDE DEF ids
    <3> QED  BY <1>6, <1>8 DEF Unresolved
  <2> QED  BY <1>2, <1>5, <1>6, <2>1
<1> QED  BY <1>6, <1>13, <1>14 DEF n

LEMMA TakeLossFacts ==
    ASSUME NEW src, IsStream(src), NEW m, Shape(src, m)
    PROVE  /\ Proceeds(src, m, TakeReferenceChainLoss(m))
           /\ TakeReferenceChainLoss(m).highest = m.highest
           /\ Reported(src, m, TakeReferenceChainLoss(m), {})
<1> DEFINE n == TakeReferenceChainLoss(m)
<1>1. IsRecord(m) /\ m.highest \in Nat /\ m.expired \in Nat /\ m.epoch \in Nat
  BY DEF Shape, Fields, IsRecord
<1>2. /\ IsRecord(n) /\ n.frames = m.frames /\ n.epoch = m.epoch /\ n.expired = m.expired
      /\ n.highest = m.highest /\ n.gaps = m.gaps /\ n.terminal = m.terminal
  BY <1>1 DEF TakeReferenceChainLoss, IsRecord
<1> HIDE DEF n
<1>3. Shape(src, n)
  BY <1>2 DEF Shape, Fields
<1>4. Keeps(src, m, n)
  BY <1>1, <1>2, <1>3, KeepsMore DEF Shape
<1>5. Reported(src, m, n, {})
  BY <1>2 DEF Reported, Unresolved
<1> QED  BY <1>1, <1>2, <1>3, <1>4, <1>5 DEF Proceeds, n

LEMMA DiscardFacts ==
    ASSUME NEW src, NEW m, NEW p, IsStream(src), Shape(src, m), Names(src, p)
    PROVE  /\ Proceeds(src, m, DiscardStaleAccessUnit(m, p))
           /\ DiscardStaleAccessUnit(m, p).epoch = m.epoch =>
                 Reported(src, m, DiscardStaleAccessUnit(m, p), {})
           /\ DiscardStaleAccessUnit(m, p).highest \in {m.highest, None}
<1> DEFINE c == ForEpoch(m, p.epoch)
           kind == IF p.id \in DOMAIN c.frames THEN c.frames[p.id].kind ELSE p.kind
           w == [c EXCEPT !.frames = Without(@, {p.id}), !.gaps = @ \ {p.id}]
           r == Remember(w, p.id)
           e == Raise(r.expired, p.id)
           l == r.lost \/ kind # "disc"
           s == [r EXCEPT !.expired = e, !.lost = l]
           n == DiscardStaleAccessUnit(m, p)
<1>0. /\ p.id \in DOMAIN src /\ p.kind = src[p.id].kind /\ p.epoch \in EpochsOf(src) /\ p.epoch \in Nat
      /\ m.epoch \in Nat /\ p.id \in Nat
  BY PacketFacts, Numbers DEF Shape, Fields, IsRecord
<1>1. n = IF p.epoch < m.epoch THEN m ELSE IF Closed(c, p.id) THEN c ELSE s
  BY DEF DiscardStaleAccessUnit
<1>2. CASE p.epoch < m.epoch
  <2>1. n = m /\ Keeps(src, m, m)
    BY <1>1, <1>2, KeepsItself DEF Shape
  <2>2. Reported(src, m, m, {})
    BY DEF Reported
  <2> QED  BY <1>0, <2>1, <2>2 DEF Proceeds
<1>3. CASE ~(p.epoch < m.epoch)
  <2>1. /\ Shape(src, c) /\ c.epoch = p.epoch /\ (p.epoch = m.epoch => c = m)
        /\ c.highest \in {m.highest, None}
    BY <1>0, <1>3, EpochFacts
  <2> HIDE DEF c
  <2>2. IsRecord(c) /\ c.highest \in Nat /\ c.expired \in Nat /\ p.epoch >= m.epoch
    BY <1>0, <1>3, <2>1 DEF Shape, Fields, IsRecord
  <2>3. CASE Closed(c, p.id)
    <3>1. n = c /\ Keeps(src, c, c)
      BY <1>1, <1>3, <2>1, <2>3, KeepsItself DEF Shape
    <3>2. Reported(src, c, c, {})
      BY DEF Reported
    <3> QED  BY <2>1, <2>2, <3>1, <3>2 DEF Proceeds
  <2>4. CASE ~Closed(c, p.id)
    <3>1. n = s
      BY <1>1, <1>3, <2>4
    <3>2. /\ IsRecord(w) /\ w.frames = Without(c.frames, {p.id}) /\ w.gaps = c.gaps \ {p.id}
          /\ w.epoch = c.epoch /\ w.expired = c.expired /\ w.highest = c.highest
          /\ w.terminal = c.terminal /\ w.lost = c.lost
      BY <2>2 DEF IsRecord
    <3> HIDE DEF w
    <3>3. Fields(src, w) /\ TermShape(src, w.terminal, w.highest, w.expired)
      BY <2>1, <3>2 DEF Shape, Fields
    <3>4. /\ IsRecord(r) /\ r.frames = w.frames /\ r.gaps = w.gaps /\ r.epoch = w.epoch
          /\ r.expired = w.expired /\ r.highest = w.highest /\ r.lost = w.lost
          /\ Fields(src, r) /\ Keeps(src, w, r)
      BY <1>0, <3>2, <3>3, RememberKeeps, RememberFacts
    <3>5. e \in {c.expired, p.id} /\ e >= c.expired /\ e >= p.id /\ e \in Nat
      BY <1>0, <2>2, <3>2, <3>4, RaiseFacts
    <3>6. l \in BOOLEAN /\ (r.lost => l) /\ (kind # "disc" => l)
      OBVIOUS
    <3>7. TermShape(src, r.terminal, c.highest, e)
      <4>1. c.highest <= c.highest /\ c.expired <= e /\ p.id <= e
        BY <2>2, <3>5
      <4> HIDE DEF e
      <4> QED  BY <1>0, <2>2, <3>2, <3>3, <3>5, <4>1, TermGrows
    <3> HIDE DEF r, e, l
    <3>8. /\ IsRecord(s) /\ s.frames = Without(c.frames, {p.id}) /\ s.gaps = c.gaps \ {p.id}
          /\ s.epoch = c.epoch /\ s.expired = e /\ s.highest = c.highest
          /\ s.terminal = r.terminal /\ s.lost = l
      BY <3>2, <3>4, <3>5, <3>6 DEF IsRecord
    <3> HIDE DEF s
    <3>9. /\ FramesShape(src, s.frames, s.highest) /\ DOMAIN s.frames = DOMAIN c.frames \ {p.id}
          /\ GapsShape(src, s.gaps, s.highest)
      <4>1. /\ FramesShape(src, Without(c.frames, {p.id}), c.highest)
            /\ DOMAIN Without(c.frames, {p.id}) = DOMAIN c.frames \ {p.id}
        BY <2>1, <2>2, FramesShrink, WithoutFacts DEF Shape
      <4>2. GapsShape(src, c.gaps \ {p.id}, c.highest)
        <5>1. c.highest <= c.highest /\ c.gaps \ {p.id} \subseteq c.gaps
          BY <2>2
        <5> QED  BY <2>1, <2>2, <5>1, GapsLater DEF Shape
      <4> QED  BY <3>8, <4>1, <4>2
    <3>10. Shape(src, s)
      BY <1>0, <2>1, <3>5, <3>7, <3>8, <3>9 DEF Shape, Fields
    <3>11. Keeps(src, c, s)
      <4>1. c.highest <= w.highest /\ c.expired <= w.expired /\ r.highest <= s.highest
            /\ r.expired <= s.expired
        BY <2>2, <3>2, <3>4, <3>5, <3>8
      <4>2. Keeps(src, c, w)
        BY <2>1, <3>2, <3>3, <4>1, KeepsMore DEF Shape
      <4>3. Keeps(src, r, s)
        BY <3>2, <3>4, <3>8, <3>10, <4>1, KeepsMore DEF Shape
      <4>4. Keeps(src, c, r)
        BY <2>1, <3>3, <3>4, <4>2, KeepsTrans DEF Shape
      <4> QED  BY <2>1, <3>4, <3>10, <4>3, <4>4, KeepsTrans DEF Shape
    <3>12. Proceeds(src, m, s)
      BY <2>1, <2>2, <3>8, <3>10, <3>11 DEF Proceeds
    <3>13. Reported(src, c, s, {})
      <4> SUFFICES ASSUME NEW v \in Unresolved(c) \ Unresolved(s), src[v].kind # "disc"  PROVE s.lost
        BY DEF Reported
      <4>1. v = p.id
        BY <3>8, <3>9 DEF Unresolved
      <4>2. kind = src[p.id].kind
        BY <1>0, <2>1 DEF Shape, FramesShape
      <4> QED  BY <3>6, <3>8, <4>1, <4>2
    <3> HIDE DEF n
    <3> QED  BY <2>1, <3>1, <3>8, <3>12, <3>13 DEF n
  <2> QED  BY <2>3, <2>4
<1> QED  BY <1>2, <1>3

-----------------------------------------------------------------------------
(* The units abandoned together are remembered one by one.  FoldSet is a    *)
(* recursive function on the subsets of a set: there is one, and it keeps   *)
(* what each single step keeps.                                             *)

Pick(s) == CHOOSE x \in s : TRUE

Walks(f, first, S) ==
    f = [s \in SUBSET S |->
            IF s = {} THEN first ELSE Remember(f[s \ {Pick(s)}], Pick(s))]

LEMMA PickFacts ==
    ASSUME NEW s, s # {}
    PROVE  Pick(s) \in s /\ s \ {Pick(s)} \in SUBSET s /\ s \ {Pick(s)} # s
<1>1. Pick(s) \in s
  BY DEF Pick
<1> QED  BY <1>1

LEMMA WalkStep ==
    ASSUME NEW f, NEW first, NEW S, Walks(f, first, S), NEW s \in SUBSET S
    PROVE  f[s] = IF s = {} THEN first ELSE Remember(f[s \ {Pick(s)}], Pick(s))
BY DEF Walks

LEMMA WalksAgree ==
    ASSUME NEW f, NEW g, NEW first, NEW S, NEW T, IsFiniteSet(S), S \subseteq T,
           Walks(f, first, S), Walks(g, first, T)
    PROVE  f[S] = g[S]
<1> DEFINE Good == {s \in SUBSET S : f[s] = g[s]}
<1>1. ASSUME NEW s \in SUBSET S, \A t \in SUBSET s : t # s => t \in Good
      PROVE  s \in Good
  <2>1. s \in SUBSET T
    OBVIOUS
  <2>2. /\ f[s] = IF s = {} THEN first ELSE Remember(f[s \ {Pick(s)}], Pick(s))
        /\ g[s] = IF s = {} THEN first ELSE Remember(g[s \ {Pick(s)}], Pick(s))
    BY <2>1, WalkStep
  <2>3. CASE s = {}
    BY <2>2, <2>3
  <2>4. CASE s # {}
    <3>1. f[s \ {Pick(s)}] = g[s \ {Pick(s)}]
      BY <1>1, <2>4, PickFacts
    <3> QED  BY <2>2, <2>4, <3>1
  <2> QED  BY <2>3, <2>4
<1> HIDE DEF Good
<1>2. S \in Good
  BY <1>1, SubsetInduction
<1> QED  BY <1>2 DEF Good

LEMMA WalkExists ==
    ASSUME NEW first, NEW S, IsFiniteSet(S)
    PROVE  \E f : Walks(f, first, S)
<1> DEFINE Good == {s \in SUBSET S : \E f : Walks(f, first, s)}
           The(s) == CHOOSE f : Walks(f, first, s)
<1>1. ASSUME NEW s \in SUBSET S, \A t \in SUBSET s : t # s => t \in Good
      PROVE  s \in Good
  <2> DEFINE Value(t) == IF t # s THEN The(t)[t]
                         ELSE IF s = {} THEN first
                         ELSE Remember(The(s \ {Pick(s)})[s \ {Pick(s)}], Pick(s))
             h == [t \in SUBSET s |-> Value(t)]
  <2>1. ASSUME NEW t \in SUBSET s, t # s  PROVE Walks(The(t), first, t)
    BY <1>1, <2>1
  <2>2. ASSUME NEW t \in SUBSET s
        PROVE  Value(t) = IF t = {} THEN first ELSE Remember(h[t \ {Pick(t)}], Pick(t))
    <3> DEFINE r == t \ {Pick(t)}
    <3>1. CASE t = {}
      <4>1. CASE t = s
        BY <3>1, <4>1
      <4>2. CASE t # s
        <5>1. Walks(The(t), first, t)
          BY <2>1, <4>2
        <5> HIDE DEF The
        <5>2. The(t)[t] = first
          BY <3>1, <5>1, WalkStep
        <5> QED  BY <3>1, <4>2, <5>2
      <4> QED  BY <4>1, <4>2
    <3>2. CASE t # {}
      <4>1. Pick(t) \in t /\ r \in SUBSET t /\ r # t /\ r \in SUBSET s /\ r # s
        BY <3>2, PickFacts
      <4> HIDE DEF The
      <4>2. h[r] = The(r)[r]
        BY <4>1
      <4>3. CASE t = s
        BY <3>2, <4>2, <4>3
      <4>4. CASE t # s
        <5>1. Walks(The(t), first, t) /\ Walks(The(r), first, r)
          BY <2>1, <4>1, <4>4
        <5>2. The(t)[t] = Remember(The(t)[r], Pick(t))
          BY <3>2, <5>1, WalkStep
        <5>3. IsFiniteSet(r)
          BY <4>1, FS_Subset
        <5>4. The(r)[r] = The(t)[r]
          BY <4>1, <5>1, <5>3, WalksAgree
        <5> HIDE DEF h, r
        <5>5. Value(t) = The(t)[t]
          BY <4>4
        <5>6. Value(t) = Remember(h[r], Pick(t))
          BY <4>2, <5>2, <5>4, <5>5
        <5> QED  BY <3>2, <5>6 DEF r
      <4> QED  BY <4>3, <4>4
    <3> QED  BY <3>1, <3>2
  <2> HIDE DEF Value
  <2>3. Walks(h, first, s)
    <3>1. h = [t \in SUBSET s |-> IF t = {} THEN first ELSE Remember(h[t \ {Pick(t)}], Pick(t))]
      BY <2>2
    <3> HIDE DEF h
    <3> QED  BY <3>1 DEF Walks
  <2> QED  BY <2>3
<1> HIDE DEF Good
<1>2. S \in Good
  BY <1>1, SubsetInduction
<1> QED  BY <1>2 DEF Good

LEMMA WalkKeeps ==
    ASSUME NEW src, IsStream(src), NEW first, Shape(src, first),
           NEW S, IsFiniteSet(S), S \subseteq DOMAIN src,
           \A i \in S : i <= first.highest, NEW f, Walks(f, first, S)
    PROVE  Shape(src, f[S]) /\ Keeps(src, first, f[S]) /\ f[S].highest = first.highest
<1> DEFINE Kept(n) == Shape(src, n) /\ Keeps(src, first, n) /\ n.highest = first.highest
           Good == {s \in SUBSET S : Kept(f[s])}
<1>1. ASSUME NEW s \in SUBSET S, \A t \in SUBSET s : t # s => t \in Good
      PROVE  s \in Good
  <2> DEFINE r == s \ {Pick(s)}
  <2>1. f[s] = IF s = {} THEN first ELSE Remember(f[r], Pick(s))
    BY WalkStep
  <2>2. CASE s = {}
    <3>1. Keeps(src, first, first)
      BY KeepsItself DEF Shape
    <3> QED  BY <2>1, <2>2, <3>1
  <2>3. CASE s # {}
    <3>1. Pick(s) \in s /\ r \in Good
      BY <1>1, <2>3, PickFacts
    <3> DEFINE k == f[r]
               id == Pick(s)
    <3>2. Shape(src, k) /\ Keeps(src, first, k) /\ k.highest = first.highest
      BY <3>1
    <3>3. f[s] = Remember(k, id)
      BY <2>1, <2>3
    <3> HIDE DEF k
    <3>4. id \in DOMAIN src /\ id <= k.highest
      BY <3>1, <3>2
    <3> HIDE DEF id
    <3>5. IsRecord(k) /\ k.highest \in Nat /\ k.expired \in Nat
      BY <3>2 DEF Shape, Fields, IsRecord
    <3> DEFINE n == Remember(k, id)
    <3>6. /\ Fields(src, n) /\ Keeps(src, k, n) /\ n.expired = k.expired /\ n.highest = k.highest
          /\ n.gaps = k.gaps /\ n.frames = k.frames
      BY <3>2, <3>4, <3>5, RememberKeeps, RememberFacts DEF Shape
    <3>7. TermShape(src, n.terminal, n.highest, n.expired)
      <4>1. k.highest <= k.highest /\ k.expired <= k.expired
        BY <3>5
      <4>2. TermShape(src, n.terminal, k.highest, k.expired)
        BY <3>2, <3>4, <3>5, <4>1, TermGrows DEF Shape
      <4> QED  BY <3>6, <4>2
    <3> HIDE DEF n
    <3>8. Shape(src, n)
      BY <3>2, <3>6, <3>7 DEF Shape
    <3>9. Keeps(src, first, n)
      BY <3>2, <3>6, <3>8, KeepsTrans DEF Shape
    <3>10. f[s] = n
      BY <3>3 DEF n
    <3>11. Kept(f[s])
      BY <3>2, <3>6, <3>8, <3>9, <3>10
    <3> QED  BY <3>11
  <2> QED  BY <2>2, <2>3
<1> HIDE DEF Good
<1>2. S \in Good
  BY <1>1, SubsetInduction
<1> QED  BY <1>2 DEF Good

LEMMA ClearFacts ==
    ASSUME NEW src, IsStream(src), NEW m, Shape(src, m)
    PROVE  /\ Proceeds(src, m, ClearPending(m))
           /\ ClearPending(m).highest = m.highest
<1> DEFINE open == Unresolved(m)
           S == DOMAIN m.frames
           e == IF open = {} THEN m.expired ELSE Raise(m.expired, Max(open))
           first == [m EXCEPT !.frames = <<>>, !.gaps = {}, !.expired = e]
           f == CHOOSE g : Walks(g, first, S)
           n == ClearPending(m)
<1>1. n = f[S]
  BY DEF ClearPending, FoldSet, MapThenFoldSet, Walks, Pick
<1>2. /\ IsRecord(m) /\ m.highest \in Nat /\ m.expired \in Nat /\ m.epoch \in Nat
      /\ m.expired \in DOMAIN src \cup {None}
  BY DEF Shape, Fields, IsRecord
<1>3. IsFiniteSet(S) /\ S \subseteq DOMAIN src /\ \A i \in S : i <= m.highest
  <2>1. FramesShape(src, m.frames, m.highest)
    BY DEF Shape
  <2> QED  BY <1>2, <2>1, FramesAreFinite DEF FramesShape
<1>4. e \in DOMAIN src \cup {None} /\ e \in Nat /\ m.expired <= e
  <2>1. CASE open = {}
    BY <1>2, <2>1
  <2>2. CASE open # {}
    <3>1. open \subseteq DOMAIN src /\ \A u \in open : u <= m.highest
      BY OpenIsUnit
    <3> HIDE DEF open
    <3>2. Max(open) \in open
      BY <1>2, <2>2, <3>1, MaxIsLargest, Numbers
    <3>3. Max(open) \in DOMAIN src /\ Max(open) \in Nat
      BY <3>1, <3>2, Numbers
    <3>4. Raise(m.expired, Max(open)) \in {m.expired, Max(open)}
          /\ Raise(m.expired, Max(open)) >= m.expired
      BY <1>2, <3>3, RaiseFacts
    <3> QED  BY <1>2, <2>2, <3>3, <3>4
  <2> QED  BY <2>1, <2>2
<1> HIDE DEF e
<1>5. /\ IsRecord(first) /\ first.frames = <<>> /\ first.gaps = {} /\ first.epoch = m.epoch
      /\ first.expired = e /\ first.highest = m.highest /\ first.terminal = m.terminal
  BY <1>2, <1>4 DEF IsRecord
<1> HIDE DEF first
<1>6. Shape(src, first)
  <2>1. FramesShape(src, first.frames, first.highest) /\ GapsShape(src, first.gaps, first.highest)
    <3>1. DOMAIN <<>> = {} /\ Cardinality({}) = 0
      BY FS_EmptySet
    <3> QED  BY <1>5, <3>1, Numbers DEF FramesShape, GapsShape
  <2>2. TermShape(src, first.terminal, first.highest, first.expired)
    <3>1. m.highest <= m.highest
      BY <1>2
    <3> QED  BY <1>2, <1>4, <1>5, <3>1, TermLater DEF Shape
  <2>3. Fields(src, first)
    BY <1>4, <1>5 DEF Shape, Fields
  <2> QED  BY <2>1, <2>2, <2>3 DEF Shape
<1>7. Keeps(src, m, first)
  <2>1. m.highest <= first.highest /\ m.expired <= first.expired
    BY <1>2, <1>4, <1>5
  <2> QED  BY <1>5, <1>6, <2>1, KeepsMore DEF Shape
<1>8. Walks(f, first, S)
  <2> HIDE DEF S
  <2> QED  BY <1>3, WalkExists
<1> HIDE DEF f, n, S
<1>9. Shape(src, n) /\ Keeps(src, first, n) /\ n.highest = m.highest
  BY <1>1, <1>3, <1>5, <1>6, <1>8, WalkKeeps
<1>10. Keeps(src, m, n)
  BY <1>6, <1>7, <1>9, KeepsTrans DEF Shape
<1>11. n.epoch = m.epoch
  BY <1>10 DEF Keeps
<1> QED  BY <1>2, <1>9, <1>10, <1>11 DEF Proceeds, n

-----------------------------------------------------------------------------
(* The machine of Reassembly and its stream.                                *)

Stream == [u \in FrameIds |-> [epoch |-> EpochOf[u], kind |-> KindOf[u]]]

(* Every datagram that may still arrive is of a unit the tombstones know.   *)
FlightInReach == \A q \in flight : InReach(map, q.id)

MapInv ==
    /\ Shape(Stream, map)
    /\ flight \subseteq Packets /\ delivered \subseteq FrameIds
    /\ FlightInReach

LEMMA StreamFacts ==
    /\ DOMAIN Stream = FrameIds /\ IsStream(Stream)
    /\ \A u \in FrameIds : Stream[u].epoch = EpochOf[u] /\ Stream[u].kind = KindOf[u]
<1>1. /\ DOMAIN Stream = FrameIds
      /\ \A u \in FrameIds : Stream[u].epoch = EpochOf[u] /\ Stream[u].kind = KindOf[u]
  BY DEF Stream
<1>2. IsStream(Stream)
  BY <1>1, UnitsAssumption DEF IsStream
<1> QED  BY <1>1, <1>2

LEMMA StreamNumbers ==
    /\ MaxFrames \in Nat \ {0} /\ Capacity \in Nat /\ Capacity >= 2
    /\ Reach \in Nat /\ Reach = Capacity - 1
    /\ FrameIds \subseteq Nat /\ 0 \notin FrameIds /\ None = 0
BY StreamFacts, Numbers

LEMMA StreamPackets ==
    ASSUME NEW p \in Packets
    PROVE  /\ Names(Stream, p) /\ IsPacket(Stream, p)
           /\ p.id \in FrameIds /\ p.epoch = EpochOf[p.id]
<1>1. PICK u \in FrameIds : \E f \in Arriving[u] :
          p = [epoch |-> EpochOf[u], id |-> u, kind |-> KindOf[u], fragment |-> f]
  BY DEF Packets
<1>2. PICK f \in Arriving[u] :
          p = [epoch |-> EpochOf[u], id |-> u, kind |-> KindOf[u], fragment |-> f]
  BY <1>1
<1>3. Arriving[u] \subseteq Fragments
  BY UnitsAssumption
<1> QED  BY <1>2, <1>3, StreamFacts DEF IsPacket, Names

LEMMA InitHolds ==
    ASSUME MapInit
    PROVE  MapInv
<1>1. Shape(Stream, EmptyMap)
  BY EmptyShape, StreamFacts
<1>2. ASSUME NEW q \in Packets  PROVE InReach(EmptyMap, q.id)
  <2>1. EmptyMap.highest = 0
    BY DEF EmptyMap, None
  <2>2. q.id \in Nat /\ q.id # 0
    BY StreamPackets, StreamNumbers
  <2> QED  BY <2>1, <2>2, StreamNumbers DEF InReach
<1> QED  BY <1>1, <1>2 DEF MapInit, MapInv, FlightInReach

(* A step of the machine is a step of the map.                              *)
LEMMA StepProceeds ==
    ASSUME MapInv, MapNext
    PROVE  Proceeds(Stream, map, map')
<1>1. ASSUME NEW p \in flight, IngestAt(p)  PROVE Proceeds(Stream, map, map')
  BY <1>1, IngestFacts, StreamFacts, StreamPackets DEF MapInv, IngestAt
<1>2. ASSUME NEW p \in flight, DiscardStale(p)  PROVE Proceeds(Stream, map, map')
  BY <1>2, DiscardFacts, StreamFacts, StreamPackets DEF MapInv, DiscardStale
<1>3. ASSUME NEW u \in FrameIds, Expire(u)  PROVE Proceeds(Stream, map, map')
  BY <1>3, ExpireFacts, StreamFacts DEF MapInv, Expire
<1>4. CASE Abandon
  BY <1>4, ClearFacts, StreamFacts DEF MapInv, Abandon
<1>5. CASE TakeReportedLoss
  BY <1>5, TakeLossFacts, StreamFacts DEF MapInv, TakeReportedLoss
<1> QED  BY <1>1, <1>2, <1>3, <1>4, <1>5 DEF MapNext

LEMMA NextHolds ==
    ASSUME MapInv, [MapNext]_mapVars
    PROVE  MapInv'
<1>1. CASE UNCHANGED mapVars
  BY <1>1 DEF mapVars, MapInv, FlightInReach
<1>2. CASE MapNext
  <2>1. Shape(Stream, map')
    BY <1>2, StepProceeds DEF Proceeds
  <2>2. ASSUME NEW p \in flight, flight' = Left(p, map')
        PROVE  flight' \subseteq Packets /\ FlightInReach'
    BY <2>2 DEF MapInv, Left, FlightInReach
  <2>3. ASSUME flight' = flight, map'.highest = map.highest
        PROVE  flight' \subseteq Packets /\ FlightInReach'
    BY <2>3 DEF MapInv, FlightInReach, InReach
  <2>4. ASSUME NEW p \in flight, IngestAt(p)  PROVE MapInv'
    <3>1. delivered' \subseteq FrameIds
      <4>1. Shape(Stream, map) /\ IsPacket(Stream, p) /\ p.id \in FrameIds
        BY StreamPackets DEF MapInv
      <4>2. Ingest(map, p).unit \in {None, p.id}
        BY <4>1, IngestUnit, StreamFacts
      <4> QED  BY <2>4, <4>1, <4>2 DEF MapInv, IngestAt
    <3> QED  BY <2>1, <2>2, <2>4, <3>1 DEF MapInv, IngestAt
  <2>5. ASSUME NEW p \in flight, DiscardStale(p)  PROVE MapInv'
    BY <2>1, <2>2, <2>5 DEF MapInv, DiscardStale
  <2>6. ASSUME NEW u \in FrameIds, Expire(u)  PROVE MapInv'
    <3>1. map'.highest = map.highest
      BY <2>6, ExpireFacts, StreamFacts DEF MapInv, Expire
    <3> QED  BY <2>1, <2>3, <2>6, <3>1 DEF MapInv, Expire
  <2>7. CASE Abandon
    <3>1. map'.highest = map.highest
      BY <2>7, ClearFacts, StreamFacts DEF MapInv, Abandon
    <3> QED  BY <2>1, <2>3, <2>7, <3>1 DEF MapInv, Abandon
  <2>8. CASE TakeReportedLoss
    <3>1. map'.highest = map.highest
      BY <2>8, TakeLossFacts, StreamFacts DEF MapInv, TakeReportedLoss
    <3> QED  BY <2>1, <2>3, <2>8, <3>1 DEF MapInv, TakeReportedLoss
  <2> QED  BY <1>2, <2>4, <2>5, <2>6, <2>7, <2>8 DEF MapNext
<1> QED  BY <1>1, <1>2

(* The strengthening of the two promises: the shape of the map, and that    *)
(* only datagrams within the reach of the tombstones are left (lib.rs,      *)
(* remember_terminal).                                                      *)
THEOREM MapInvariant == MapSpec => []MapInv
<1>1. MapInit => MapInv
  BY InitHolds
<1>2. MapInv /\ [MapNext]_mapVars => MapInv'
  BY NextHolds
<1> QED  BY <1>1, <1>2, PTL DEF MapSpec

(* The map stays a map, with at most max_frames unfinished units and twice  *)
(* as many tombstones, whatever arrives in whatever order (lib.rs,          *)
(* drop_oldest and remember_terminal).                                      *)
THEOREM TypeCorrect == MapSpec => []MapTypeOK
<1>1. MapInv => MapTypeOK
  <2> SUFFICES ASSUME MapInv  PROVE MapTypeOK
    OBVIOUS
  <2>1. Shape(Stream, map) /\ IsRecord(map)
    BY DEF MapInv, Shape, Fields
  <2>2. DOMAIN map = DOMAIN EmptyMap
    <3>1. DOMAIN map = {"epoch", "expired", "highest", "gaps", "frames", "terminal", "lost"}
      BY <2>1 DEF IsRecord
    <3>2. DOMAIN EmptyMap = {"epoch", "expired", "highest", "gaps", "frames", "terminal", "lost"}
      BY DEF EmptyMap
    <3> QED  BY <3>1, <3>2
  <2>3. map.lost \in BOOLEAN
    BY <2>1 DEF IsRecord
  <2>4. \A i \in DOMAIN map.frames :
            i \in FrameIds /\ map.frames[i].kind \in Kinds /\ map.frames[i].got \subseteq Fragments
    BY <2>1, StreamFacts DEF Shape, FramesShape, IsStream
  <2>5. IsMap(map, FrameIds, {EpochOf[u] : u \in FrameIds})
    <3>1. map.epoch \in {EpochOf[u] : u \in FrameIds} \cup {0}
      BY <2>1, StreamFacts DEF Shape, Fields, EpochsOf
    <3> QED  BY <2>1, <2>2, <2>3, <2>4, <3>1, StreamFacts DEF IsMap, Shape, Fields, GapsShape, TermShape
  <2> QED  BY <2>1, <2>5 DEF MapTypeOK, MapInv, Shape, FramesShape, TermShape
<1> QED  BY <1>1, MapInvariant, PTL

(* A reference unit never disappears without a loss the owner is told of    *)
(* (LossIsReported), for every stream, every loss pattern and order of its  *)
(* datagrams, and every capacity of the map.                                *)
THEOREM LossesAreReported == MapSpec => LossIsReported
<1> DEFINE Fair == \A u \in Vanished(map, map') :
                     ~Abandon /\ map'.epoch = map.epoch /\ u \notin delivered' => map'.lost
<1>1. ASSUME MapInv, MapNext  PROVE Fair
  <2> SUFFICES ASSUME NEW u \in Vanished(map, map'), ~Abandon, map'.epoch = map.epoch,
                      u \notin delivered'
               PROVE  map'.lost
    OBVIOUS
  <2>1. /\ u \in Unresolved(map) \ Unresolved(map') /\ KindOf[u] # "disc"
        /\ ~(u \in map.gaps /\ Closed(map, u))
    BY DEF Vanished
  <2>2. u \in FrameIds /\ u # None /\ Stream[u].kind # "disc"
    BY <1>1, <2>1, OpenIsUnit, StreamFacts, StreamNumbers DEF MapInv
  <2>3. ASSUME NEW p \in flight, IngestAt(p)  PROVE map'.lost
    <3>1. Reported(Stream, map, map', {Ingest(map, p).unit})
      BY <1>1, <2>3, IngestFacts, StreamFacts, StreamPackets DEF MapInv, IngestAt
    <3>2. u \notin {Ingest(map, p).unit}
      BY <2>2, <2>3 DEF IngestAt
    <3> QED  BY <2>1, <2>2, <3>1, <3>2 DEF Reported
  <2>4. ASSUME NEW p \in flight, DiscardStale(p)  PROVE map'.lost
    <3>1. Reported(Stream, map, map', {})
      BY <1>1, <2>4, DiscardFacts, StreamFacts, StreamPackets DEF MapInv, DiscardStale
    <3> QED  BY <2>1, <2>2, <3>1 DEF Reported
  <2>5. ASSUME NEW v \in FrameIds, Expire(v)  PROVE map'.lost
    <3>1. Reported(Stream, map, map', {})
      BY <1>1, <2>5, ExpireFacts, StreamFacts DEF MapInv, Expire
    <3> QED  BY <2>1, <2>2, <3>1 DEF Reported
  <2>6. CASE TakeReportedLoss
    <3>1. Reported(Stream, map, map', {})
      BY <1>1, <2>6, TakeLossFacts, StreamFacts DEF MapInv, TakeReportedLoss
    <3> QED  BY <2>1, <2>2, <3>1 DEF Reported
  <2> QED  BY <1>1, <2>3, <2>4, <2>5, <2>6 DEF MapNext
<1>2. MapInv /\ [MapNext]_mapVars => [Fair]_mapVars
  BY <1>1
<1> HIDE DEF Fair
<1>3. MapSpec => [][Fair]_mapVars
  BY <1>2, MapInvariant, PTL DEF MapSpec
<1> QED  BY <1>3 DEF LossIsReported, Fair

(* Reassembly implements AccessUnitFates (SettledOnce): a unit is handed on *)
(* at most once and never after it was given up, although the tombstones    *)
(* are bounded and a unit forgotten by them is only known by its age        *)
(* (lib.rs, remember_terminal and expired_through_frame_id).                *)
THEOREM FatesAreFinal == MapSpec => SettledOnce
<1>1. MapInit => Fates!Init
  <2> SUFFICES ASSUME MapInit  PROVE Settled = {} /\ delivered = {}
    BY DEF Fates!Init
  <2>1. map.epoch = 0
    BY DEF MapInit, EmptyMap
  <2>2. \A u \in FrameIds : EpochOf[u] \in Nat \ {0}
    BY UnitsAssumption
  <2> QED  BY <2>1, <2>2 DEF MapInit, Settled
<1>2. MapInv /\ MapNext => Fates!Next
  <2> SUFFICES ASSUME MapInv, MapNext  PROVE Fates!Next
    OBVIOUS
  <2>0. /\ map.epoch \in Nat /\ map'.epoch \in Nat
        /\ \A u \in FrameIds : EpochOf[u] \in Nat
    BY StepProceeds, UnitsAssumption DEF MapInv, Proceeds, Shape, Fields, IsRecord
  <2>1. Fates!Decide
    <3>1. Proceeds(Stream, map, map')
      BY StepProceeds
    <3>2. ASSUME NEW u \in Settled  PROVE u \in Settled'
      <4>1. u \in FrameIds /\ EpochOf[u] \in Nat
        BY <2>0 DEF Settled
      <4>2. CASE map'.epoch # map.epoch
        <5>1. EpochOf[u] <= map.epoch /\ map.epoch < map'.epoch
          BY <2>0, <3>1, <4>1, <4>2 DEF Settled, Proceeds
        <5>2. EpochOf[u] < map'.epoch
          BY <2>0, <4>1, <5>1
        <5> QED  BY <4>1, <5>2 DEF Settled
      <4>3. CASE map'.epoch = map.epoch
        <5>1. Keeps(Stream, map, map')
          BY <3>1, <4>3 DEF Proceeds
        <5>2. CASE EpochOf[u] < map.epoch
          BY <4>1, <4>3, <5>2 DEF Settled
        <5>3. CASE EpochOf[u] = map.epoch /\ Closed(map, u)
          BY <4>1, <4>3, <5>1, <5>3, StreamFacts DEF Settled, Keeps
        <5>4. CASE EpochOf[u] = map.epoch /\ ~InReach(map, u)
          <6>1. map.highest \in Nat /\ map'.highest \in Nat /\ map'.highest >= map.highest
            BY <3>1, <5>1 DEF MapInv, Proceeds, Shape, Fields, IsRecord, Keeps
          <6>2. u \in Nat
            BY <4>1, StreamNumbers
          <6>3. ~InReach(map', u)
            BY <5>4, <6>1, <6>2, StreamNumbers DEF InReach
          <6> QED  BY <4>1, <4>3, <5>4, <6>3 DEF Settled
        <5> QED  BY <4>1, <5>2, <5>3, <5>4 DEF Settled
      <4> QED  BY <4>2, <4>3
    <3>3. Settled' \subseteq FrameIds
      BY DEF Settled
    <3> QED  BY <3>2, <3>3 DEF Fates!Decide
  <2>2. ASSUME UNCHANGED delivered  PROVE Fates!Next
    BY <2>1, <2>2 DEF Fates!Next, Fates!GiveUp
  <2>3. ASSUME NEW p \in flight, IngestAt(p)  PROVE Fates!Next
    <3> DEFINE out == Ingest(map, p)
    <3>1. p \in Packets /\ p.id \in FrameIds /\ p.epoch = EpochOf[p.id] /\ InReach(map, p.id)
      BY StreamPackets DEF MapInv, FlightInReach
    <3>2. CASE out.unit = None
      <4>1. delivered' = delivered
        BY <2>3, <3>2 DEF IngestAt
      <4> QED  BY <2>2, <4>1
    <3>3. CASE out.unit # None
      <4>1. /\ out.unit = p.id /\ p.id \in out.map.terminal
            /\ out.map.epoch = p.epoch /\ p.epoch >= map.epoch
            /\ p.epoch = map.epoch => ~Closed(map, p.id)
        <5>1. Shape(Stream, map) /\ IsPacket(Stream, p)
          BY <3>1, StreamPackets DEF MapInv
        <5> QED  BY <3>3, <5>1, IngestUnit, StreamFacts
      <4>2. map' = out.map /\ delivered' = delivered \cup {p.id}
        BY <2>3, <3>3, <4>1 DEF IngestAt
      <4> HIDE DEF out
      <4>3. p.id \notin Settled
        BY <2>0, <3>1, <4>1 DEF Settled
      <4>4. p.id \in Settled'
        BY <3>1, <4>1, <4>2 DEF Settled, Closed
      <4>5. Fates!Deliver(p.id)
        BY <2>1, <4>2, <4>3, <4>4 DEF Fates!Deliver
      <4> QED  BY <3>1, <4>5 DEF Fates!Next
    <3> QED  BY <3>2, <3>3
  <2>4. ASSUME NEW p \in flight, DiscardStale(p)  PROVE Fates!Next
    BY <2>2, <2>4 DEF DiscardStale
  <2>5. ASSUME NEW u \in FrameIds, Expire(u)  PROVE Fates!Next
    BY <2>2, <2>5 DEF Expire
  <2>6. CASE Abandon \/ TakeReportedLoss
    BY <2>2, <2>6 DEF Abandon, TakeReportedLoss
  <2> QED  BY <2>3, <2>4, <2>5, <2>6 DEF MapNext
<1>3. UNCHANGED mapVars => UNCHANGED Fates!vars
  BY DEF mapVars, Fates!vars, Settled
<1>4. MapInv /\ [MapNext]_mapVars => [Fates!Next]_(Fates!vars)
  BY <1>2, <1>3
<1> QED  BY <1>1, <1>4, MapInvariant, PTL DEF MapSpec, SettledOnce, Fates!Spec

-----------------------------------------------------------------------------
(***************************************************************************)
(* Three promises of the receive path for every source, every capacity of  *)
(* the jitter buffer and of the decoder's queue, every number of           *)
(* connections and of unread events.                                       *)
(*                                                                         *)
(* Nothing is said of the reassembly map: whatever it hands on, a unit     *)
(* enters the jitter buffer only under its own epoch, and that is the one  *)
(* the gate has compared with the StreamConfig.                            *)
(*                                                                         *)
(* A candidate is handed to the decoder as a current job of the connection *)
(* and of the configuration.  A reset makes jobs outdated, a newer         *)
(* StreamConfig or the end of the connection changes what is current; each *)
(* of them leaves RefreshInFlight in the same step (CandidateFor).  So     *)
(* the event of a candidate is never passed over when the owner reads it.  *)
(***************************************************************************)
UnitOption == Units \cup {None}
Phases == {Healthy, AwaitingRefresh} \cup {RefreshInFlight(u) : u \in Units}

AnyJob == [unit : UnitOption, conn : Nat, current : BOOLEAN]
AnyEvent == [unit : UnitOption, conn : Nat, current : BOOLEAN,
             result : {"picture", "error", "refused", "unavailable"}]

(* The fields of media but for the map, what was fed and what was given.    *)
IsMedia(m) ==
    m \in [map : {m.map}, jitter : Seq(Units), emitted : {m.emitted}, phase : Phases,
           items : Seq(AnyJob), busy : AnyJob, events : Seq(AnyEvent),
           stopped : BOOLEAN, fed : {m.fed}, given : {m.given}]

(* The worker's end is the result of no unit.                               *)
EventsName(m) ==
    \A i \in DOMAIN m.events : m.events[i].result = "unavailable" => m.events[i].unit = None

(* Everything in the jitter buffer is configured, if e is the epoch.        *)
JitterUpTo(m, e) == \A i \in DOMAIN m.jitter : Epoch(m.jitter[i]) <= e

(* Unit u is with the decoder, for connection c, and not reset.             *)
IsFor(j, u, c) == j.unit = u /\ j.current /\ j.conn = c
UnderWay(m, u, c) ==
    \/ \E i \in DOMAIN m.items : IsFor(m.items[i], u, c)
    \/ IsFor(m.busy, u, c)
    \/ \E i \in DOMAIN m.events : IsFor(m.events[i], u, c)

(* A candidate is under way for connection c and configuration e.           *)
CandidateFor(m, c, e) ==
    \A u \in Units : m.phase = RefreshInFlight(u) =>
        c # 0 /\ e # 0 /\ Epoch(u) = e /\ (m.stopped \/ UnderWay(m, u, c))

Types ==
    /\ source \in Seq([epoch : Nat \ {0}, kind : Kinds])
    /\ {conn, lastConn, announced, deferred, config, waiting} \subseteq Nat
    /\ idr \in UnitOption
    /\ readiness \in {"Pending", "Ready", "Unavailable"}

(* Without a connection, or before the probe has answered, nothing is       *)
(* configured.                                                              *)
GateShape ==
    /\ conn = 0 => announced = 0 /\ deferred = 0 /\ config = 0
    /\ readiness = "Pending" => config = 0
    /\ idr # None => Kind(idr) = "key" /\ Epoch(idr) = waiting
    /\ waiting # 0 => waiting > config

MediaShape(m, c, e) ==
    IsMedia(m) /\ EventsName(m) /\ JitterUpTo(m, e) /\ CandidateFor(m, c, e)

IInv ==
    /\ Types
    /\ GateShape
    /\ MediaShape(media, conn, config)
    /\ NewestConfigInForce
-----------------------------------------------------------------------------
(* Finite sets and sequences.                                               *)

LEMMA PrefixIsFinite ==
    ASSUME NEW n \in Nat, NEW S, S \subseteq 1..n
    PROVE  IsFiniteSet(S)
BY FS_BoundedSetOfNaturals

LEMMA MinExists ==
    ASSUME NEW n \in Nat, NEW S, S \subseteq 1..n, S # {}
    PROVE  Min(S) \in S
<1>1. S \subseteq Nat /\ \A x \in S : x <= n
  OBVIOUS
<1> QED  BY <1>1, MinIsLeast

(* What is left without one position comes from the others.                 *)
LEMMA Removal ==
    ASSUME NEW S, NEW q \in Seq(S), NEW i \in DOMAIN q
    PROVE  /\ RemoveAt(q, i) \in Seq(S)
           /\ Len(RemoveAt(q, i)) = Len(q) - 1
           /\ \A k \in 1..(Len(q) - 1) :
                 RemoveAt(q, i)[k] = IF k < i THEN q[k] ELSE q[k + 1]
           /\ \A k \in DOMAIN RemoveAt(q, i) : \E l \in DOMAIN q : RemoveAt(q, i)[k] = q[l]
<1> DEFINE a == SubSeq(q, 1, i - 1)
           b == SubSeq(q, i + 1, Len(q))
<1>1. i \in 1..Len(q) /\ Len(q) \in Nat /\ DOMAIN q = 1..Len(q)
  BY LenProperties
<1>2. \A k \in 1..Len(q) : q[k] \in S
  BY ElementOfSeq
<1>3. /\ a \in Seq(S) /\ Len(a) = i - 1
      /\ \A k \in 1..(i - 1) : a[k] = q[k]
  BY <1>1, <1>2, SubSeqProperties
<1>4. /\ b \in Seq(S) /\ Len(b) = Len(q) - i
      /\ \A k \in 1..(Len(q) - i) : b[k] = q[k + i]
  <2>1. \A k \in (i + 1)..Len(q) : q[k] \in S
    BY <1>1, <1>2
  <2>2. /\ b \in Seq(S) /\ Len(b) = IF i + 1 <= Len(q) THEN Len(q) - (i + 1) + 1 ELSE 0
        /\ \A k \in 1..(Len(q) - (i + 1) + 1) : b[k] = q[(i + 1) + k - 1]
    BY <1>1, <2>1, SubSeqProperties
  <2> HIDE DEF b
  <2>3. Len(q) - (i + 1) + 1 = Len(q) - i
    BY <1>1
  <2>4. Len(b) = Len(q) - i
    BY <1>1, <2>2, <2>3
  <2>5. ASSUME NEW k \in 1..(Len(q) - i)  PROVE b[k] = q[k + i]
    <3>1. (i + 1) + k - 1 = k + i
      BY <1>1
    <3> QED  BY <2>2, <2>3, <3>1
  <2> QED  BY <2>2, <2>4, <2>5
<1> HIDE DEF a, b
<1>5. /\ a \o b \in Seq(S) /\ Len(a \o b) = Len(q) - 1
      /\ \A k \in 1..(Len(q) - 1) :
            (a \o b)[k] = IF k <= i - 1 THEN a[k] ELSE b[k - (i - 1)]
  <2>1. /\ a \o b \in Seq(S) /\ Len(a \o b) = Len(a) + Len(b)
        /\ \A k \in 1..(Len(a) + Len(b)) :
              (a \o b)[k] = IF k <= Len(a) THEN a[k] ELSE b[k - Len(a)]
    BY <1>3, <1>4, ConcatProperties
  <2>2. Len(a) + Len(b) = Len(q) - 1
    BY <1>1, <1>3, <1>4
  <2> QED  BY <1>3, <2>1, <2>2
<1>6. DOMAIN (a \o b) = 1..(Len(q) - 1)
  BY <1>5, LenProperties
<1>7. ASSUME NEW k \in 1..(Len(q) - 1)
      PROVE  /\ (a \o b)[k] = IF k < i THEN q[k] ELSE q[k + 1]
             /\ \E l \in DOMAIN q : (a \o b)[k] = q[l]
  <2>1. CASE k <= i - 1
    <3>1. (a \o b)[k] = q[k]
      BY <1>1, <1>3, <1>5, <2>1
    <3> QED  BY <1>1, <2>1, <3>1
  <2>2. CASE ~(k <= i - 1)
    <3>1. k - (i - 1) \in 1..(Len(q) - i) /\ (k - (i - 1)) + i = k + 1
      BY <1>1, <2>2
    <3>2. (a \o b)[k] = q[k + 1]
      BY <1>4, <1>5, <2>2, <3>1
    <3> QED  BY <1>1, <2>2, <3>2
  <2> QED  BY <2>1, <2>2
<1>8. RemoveAt(q, i) = a \o b
  BY DEF RemoveAt, a, b
<1> QED  BY <1>5, <1>6, <1>7, <1>8
-----------------------------------------------------------------------------
(* The functions of the media record.                                       *)

Calm(m) == IsMedia(m) /\ EventsName(m)

(* The decoder is where it was, or the recovery starts anew.                *)
Follows(r, s) ==
    \/ r.phase = AwaitingRefresh
    \/ /\ r.phase = s.phase /\ r.stopped = s.stopped
       /\ r.items = s.items /\ r.busy = s.busy /\ r.events = s.events

LEMMA MediaFields ==
    ASSUME NEW m, IsMedia(m)
    PROVE  /\ m.jitter \in Seq(Units) /\ m.phase \in Phases
           /\ m.items \in Seq(AnyJob) /\ m.busy \in AnyJob
           /\ m.events \in Seq(AnyEvent) /\ m.stopped \in BOOLEAN
BY DEF IsMedia

LEMMA NoCandidate ==
    ASSUME NEW m, NEW c, NEW e, m.phase \in {Healthy, AwaitingRefresh}
    PROVE  CandidateFor(m, c, e)
BY DEF CandidateFor, Healthy, AwaitingRefresh, RefreshInFlight

LEMMA FollowsCandidate ==
    ASSUME NEW r, NEW s, NEW c, NEW e, Follows(r, s), CandidateFor(s, c, e)
    PROVE  CandidateFor(r, c, e)
<1>1. CASE r.phase = AwaitingRefresh
  BY <1>1, NoCandidate
<1>2. CASE r.phase # AwaitingRefresh
  BY <1>2, Zenon DEF Follows, CandidateFor, UnderWay
<1> QED  BY <1>1, <1>2

(* Outdated jobs and events keep what they are about.                       *)
LEMMA ResetCalm ==
    ASSUME Types, NEW s, Calm(s)
    PROVE  /\ Calm(ResetDecoder(s))
           /\ ResetDecoder(s).jitter = s.jitter
           /\ ResetDecoder(s).phase = s.phase
           /\ ResetDecoder(s).stopped = s.stopped
<1> DEFINE r == ResetDecoder(s)
           ev == [i \in DOMAIN s.events |-> Outdated(s.events[i])]
<1>0. CASE s.stopped
  BY <1>0 DEF ResetDecoder
<1>1. CASE ~s.stopped
  <2>1. r = [s EXCEPT !.items = <<ResetItem>>, !.fed = None,
                      !.busy = Outdated(s.busy), !.events = ev]
    BY <1>1 DEF ResetDecoder, Calm, IsMedia
  <2>2. ResetItem \in AnyJob
    BY DEF ResetItem, AnyJob, UnitOption, None
  <2>3. <<ResetItem>> \in Seq(AnyJob)
    BY <2>2
  <2>4. Outdated(s.busy) \in AnyJob
    <3>1. s.busy \in AnyJob
      BY MediaFields DEF Calm
    <3> QED  BY <3>1 DEF Outdated, AnyJob
  <2>5. /\ s.events \in Seq(AnyEvent) /\ DOMAIN s.events = 1..Len(s.events)
        /\ Len(s.events) \in Nat
        /\ \A i \in 1..Len(s.events) : s.events[i] \in AnyEvent
    <3>1. s.events \in Seq(AnyEvent)
      BY MediaFields DEF Calm
    <3> QED  BY <3>1, LenProperties, ElementOfSeq
  <2>6. \A i \in 1..Len(s.events) :
           /\ Outdated(s.events[i]) \in AnyEvent
           /\ Outdated(s.events[i]).unit = s.events[i].unit
           /\ Outdated(s.events[i]).result = s.events[i].result
    BY <2>5 DEF Outdated, AnyEvent
  <2>7. ev \in Seq(AnyEvent) /\ DOMAIN ev = DOMAIN s.events
    <3>1. ev \in [1..Len(s.events) -> AnyEvent]
      BY <2>5, <2>6
    <3> QED  BY <2>5, <3>1
  <2>8. \A i \in DOMAIN ev : ev[i].result = "unavailable" => ev[i].unit = None
    BY <2>5, <2>6, <2>7 DEF Calm, EventsName
  <2> HIDE DEF ev
  <2>9. IsMedia(r)
    BY <2>1, <2>3, <2>4, <2>7 DEF IsMedia, Calm
  <2>10. r.events = ev /\ r.jitter = s.jitter /\ r.phase = s.phase /\ r.stopped = s.stopped
    BY <2>1 DEF IsMedia, Calm
  <2> QED  BY <2>8, <2>9, <2>10 DEF Calm, EventsName
<1> QED  BY <1>0, <1>1

LEMMA RecoverCalm ==
    ASSUME Types, NEW s, Calm(s), NEW reason, NEW reset \in BOOLEAN
    PROVE  LET r == EnterDecoderRecovery(s, reason, reset)
           IN  Calm(r) /\ r.phase = AwaitingRefresh /\ r.jitter \in {<<>>, s.jitter}
<1> DEFINE discards == s.phase # AwaitingRefresh \/ reason = "RandomAccessResync"
           cleaned == IF discards
                      THEN [s EXCEPT !.map = TakeReferenceChainLoss(ClearPending(@)),
                                     !.jitter = <<>>, !.emitted = None]
                      ELSE s
           ready == IF reset /\ (discards \/ reason = "DecoderError")
                    THEN ResetDecoder(cleaned) ELSE cleaned
<1>1. Calm(cleaned) /\ cleaned.jitter \in {<<>>, s.jitter}
  <2> DEFINE emptied == [s EXCEPT !.map = TakeReferenceChainLoss(ClearPending(s.map)),
                                  !.jitter = <<>>, !.emitted = None]
  <2>1. Calm(emptied) /\ emptied.jitter = <<>>
    <3>1. <<>> \in Seq(Units)
      OBVIOUS
    <3> QED  BY <3>1 DEF Calm, IsMedia, EventsName
  <2>2. cleaned \in {s, emptied}
    OBVIOUS
  <2> HIDE DEF emptied
  <2> HIDE DEF cleaned
  <2> QED  BY <2>1, <2>2
<1> HIDE DEF cleaned
<1>2. Calm(ready) /\ ready.jitter \in {<<>>, s.jitter}
  BY <1>1, ResetCalm
<1> HIDE DEF ready
<1>3. EnterDecoderRecovery(s, reason, reset) = [ready EXCEPT !.phase = AwaitingRefresh]
  BY DEF EnterDecoderRecovery, cleaned, ready
<1>4. LET r == [ready EXCEPT !.phase = AwaitingRefresh]
      IN  Calm(r) /\ r.phase = AwaitingRefresh /\ r.jitter = ready.jitter
  BY <1>2 DEF Calm, IsMedia, EventsName, Phases
<1> QED  BY <1>2, <1>3, <1>4

(* A recovery leaves nothing to be said of a candidate.                     *)
LEMMA RecoverShape ==
    ASSUME Types, NEW s, Calm(s), NEW reason, NEW reset \in BOOLEAN,
           NEW c, NEW e, JitterUpTo(s, e)
    PROVE  MediaShape(EnterDecoderRecovery(s, reason, reset), c, e)
<1> DEFINE r == EnterDecoderRecovery(s, reason, reset)
<1>1. Calm(r) /\ r.phase = AwaitingRefresh /\ r.jitter \in {<<>>, s.jitter}
  BY RecoverCalm
<1> HIDE DEF r
<1>2. JitterUpTo(r, e)
  BY <1>1 DEF JitterUpTo
<1>3. CandidateFor(r, c, e)
  BY <1>1, NoCandidate
<1> QED  BY <1>1, <1>2, <1>3 DEF MediaShape, Calm, r

(* Map, clock and jitter buffer are nothing to the decoder.                 *)
LEMMA PathShape ==
    ASSUME NEW s, NEW r, NEW c, NEW e, MediaShape(s, c, e), IsMedia(r), JitterUpTo(r, e),
           r.phase = s.phase, r.stopped = s.stopped,
           r.items = s.items, r.busy = s.busy, r.events = s.events
    PROVE  MediaShape(r, c, e)
<1>1. EventsName(r)
  BY DEF MediaShape, EventsName
<1>2. Follows(r, s)
  BY DEF Follows
<1>3. CandidateFor(r, c, e)
  BY <1>2, FollowsCandidate DEF MediaShape
<1> QED  BY <1>1, <1>3 DEF MediaShape

LEMMA MapShape ==
    ASSUME NEW s, NEW c, NEW e, MediaShape(s, c, e), NEW n
    PROVE  MediaShape([s EXCEPT !.map = n], c, e)
<1> DEFINE r == [s EXCEPT !.map = n]
<1>1. /\ IsMedia(r) /\ r.jitter = s.jitter /\ r.phase = s.phase /\ r.stopped = s.stopped
      /\ r.items = s.items /\ r.busy = s.busy /\ r.events = s.events
  BY DEF MediaShape, IsMedia
<1> HIDE DEF r
<1>2. JitterUpTo(r, e)
  BY <1>1 DEF MediaShape, JitterUpTo
<1> QED  BY <1>1, <1>2, PathShape DEF r

LEMMA TakeLossShape ==
    ASSUME Types, NEW s, NEW c, NEW e, MediaShape(s, c, e)
    PROVE  MediaShape(TakeLoss(s), c, e)
<1> DEFINE r == [s EXCEPT !.map = TakeReferenceChainLoss(s.map)]
<1>1. MediaShape(r, c, e)
  BY MapShape
<1>2. TakeLoss(s) \in {s, EnterDecoderRecovery(r, "ReferenceAccessUnitLost", TRUE)}
  BY DEF TakeLoss
<1> HIDE DEF r
<1>3. MediaShape(EnterDecoderRecovery(r, "ReferenceAccessUnitLost", TRUE), c, e)
  BY <1>1, RecoverShape DEF MediaShape, Calm
<1> QED  BY <1>2, <1>3

LEMMA TornDownShape ==
    ASSUME Types, NEW s, Calm(s), NEW c, NEW e
    PROVE  MediaShape(TornDown(s), c, e)
<1> DEFINE d == ResetDecoder(s)
           r == [d EXCEPT !.map = EmptyMap, !.jitter = <<>>, !.emitted = None,
                          !.phase = Healthy]
<1>1. Calm(d)
  BY ResetCalm
<1> HIDE DEF d
<1>2. Calm(r) /\ r.jitter = <<>> /\ r.phase = Healthy
  <2>1. <<>> \in Seq(Units)
    OBVIOUS
  <2> QED  BY <1>1, <2>1 DEF Calm, IsMedia, EventsName, Phases
<1>3. TornDown(s) = r
  BY DEF TornDown, d
<1> HIDE DEF r
<1>4. JitterUpTo(r, e)
  BY <1>2 DEF JitterUpTo
<1>5. CandidateFor(r, c, e)
  BY <1>2, NoCandidate
<1> QED  BY <1>2, <1>3, <1>4, <1>5 DEF MediaShape, Calm

-----------------------------------------------------------------------------
(* The jitter buffer.                                                       *)

LEMMA UnitsAreNumbers ==
    ASSUME Types
    PROVE  /\ Len(source) \in Nat /\ Units = 1..Len(source)
           /\ \A u \in Units : Epoch(u) \in Nat \ {0} /\ Kind(u) \in Kinds
<1>1. \A u \in 1..Len(source) : source[u] \in [epoch : Nat \ {0}, kind : Kinds]
  BY ElementOfSeq DEF Types
<1> QED  BY <1>1, LenProperties DEF Types, Units, Epoch, Kind

LEMMA MinOfUnits ==
    ASSUME Types, NEW S, S \subseteq Units, S # {}
    PROVE  Min(S) \in S
BY UnitsAreNumbers, MinExists

LEMMA SomeInRange ==
    ASSUME NEW q \in Seq(Units), q # <<>>
    PROVE  Range(q) \subseteq Units /\ Range(q) # {}
<1>1. Len(q) \in Nat \ {0} /\ DOMAIN q = 1..Len(q) /\ \A k \in 1..Len(q) : q[k] \in Units
  BY LenProperties, EmptySeq, ElementOfSeq
<1>2. 1 \in DOMAIN q
  BY <1>1
<1>3. q[1] \in Range(q)
  BY <1>2 DEF Range
<1>4. ASSUME NEW u \in Range(q)  PROVE u \in Units
  BY <1>1 DEF Range
<1> QED  BY <1>3, <1>4

(* The unit is found, and removed.                                          *)
LEMMA UnitRemoved ==
    ASSUME NEW q \in Seq(Units), NEW u \in Range(q)
    PROVE  /\ RemoveUnit(q, u) \in Seq(Units)
           /\ \A k \in DOMAIN RemoveUnit(q, u) :
                 \E l \in DOMAIN q : RemoveUnit(q, u)[k] = q[l]
<1> DEFINE i == CHOOSE i \in DOMAIN q : q[i] = u
<1>1. i \in DOMAIN q
  BY DEF Range
<1> HIDE DEF i
<1>2. RemoveUnit(q, u) = RemoveAt(q, i)
  BY DEF RemoveUnit, i
<1> QED  BY <1>1, <1>2, Removal

LEMMA OldestIsHere ==
    ASSUME Types, NEW s, s.jitter \in Seq(Units), s.jitter # <<>>
    PROVE  Oldest(s) \in Range(s.jitter) /\ Oldest(s) \in Units
<1>1. Range(s.jitter) \subseteq Units /\ Range(s.jitter) # {}
  BY SomeInRange
<1> QED  BY <1>1, MinOfUnits DEF Oldest

LEMMA OverflowIsHere ==
    ASSUME Types, NEW q \in Seq(Units), Overflow(q) # None
    PROVE  Overflow(q) \in Range(q)
<1> DEFINE deltas == {u \in Range(q) : Kind(u) # "key"}
<1>1. Len(q) \in Nat /\ DOMAIN q = 1..Len(q) /\ Range(q) \subseteq Units
  BY LenProperties, ElementOfSeq DEF Range
<1>2. Len(q) > MaxBuffered /\ Overflow(q) = Min(IF deltas # {} THEN deltas ELSE Range(q))
  BY <1>1, BoundsAssumption DEF Overflow
<1>3. Range(q) # {}
  <2>1. q # <<>>
    BY <1>1, <1>2, BoundsAssumption
  <2> QED  BY <2>1, SomeInRange
<1>4. deltas \subseteq Range(q)
  OBVIOUS
<1> HIDE DEF deltas
<1> QED  BY <1>1, <1>2, <1>3, <1>4, MinOfUnits

LEMMA PopShape ==
    ASSUME Types, NEW s, NEW c, NEW e, MediaShape(s, c, e), NEW u \in Range(s.jitter)
    PROVE  MediaShape(Pop(s, u), c, e)
<1> DEFINE q == RemoveUnit(s.jitter, u)
           r == [s EXCEPT !.jitter = q, !.emitted = u]
<1>1. /\ q \in Seq(Units)
      /\ \A k \in DOMAIN q : \E l \in DOMAIN s.jitter : q[k] = s.jitter[l]
  BY MediaFields, UnitRemoved DEF MediaShape
<1> HIDE DEF q
<1>2. /\ IsMedia(r) /\ r.jitter = q /\ r.phase = s.phase /\ r.stopped = s.stopped
      /\ r.items = s.items /\ r.busy = s.busy /\ r.events = s.events
  BY <1>1 DEF MediaShape, IsMedia
<1>3. Pop(s, u) = r
  BY DEF Pop, q, MediaShape, IsMedia
<1> HIDE DEF r
<1>4. JitterUpTo(r, e)
  BY <1>1, <1>2 DEF MediaShape, JitterUpTo
<1> QED  BY <1>2, <1>3, <1>4, PathShape

LEMMA PushShape ==
    ASSUME Types, NEW s, NEW c, NEW e, MediaShape(s, c, e), NEW u \in Units, Epoch(u) <= e
    PROVE  MediaShape(PushJitter(s, u), c, e)
<1> DEFINE all == Append(s.jitter, u)
           over == Overflow(all)
           q == IF over = None THEN all ELSE RemoveUnit(all, over)
           pushed == [s EXCEPT !.jitter = q]
           late == "ReferenceAccessUnitLate"
<1>1. /\ all \in Seq(Units)
      /\ \A k \in DOMAIN all : Epoch(all[k]) <= e
  <2>1. s.jitter \in Seq(Units) /\ \A k \in DOMAIN s.jitter : Epoch(s.jitter[k]) <= e
    BY MediaFields DEF MediaShape, JitterUpTo
  <2>2. /\ all \in Seq(Units) /\ Len(all) = Len(s.jitter) + 1
        /\ \A k \in 1..Len(s.jitter) : all[k] = s.jitter[k]
        /\ all[Len(s.jitter) + 1] = u
    BY <2>1, AppendProperties
  <2>3. /\ DOMAIN all = 1..Len(all) /\ DOMAIN s.jitter = 1..Len(s.jitter)
        /\ Len(s.jitter) \in Nat
    BY <2>1, <2>2, LenProperties
  <2> HIDE DEF all
  <2> QED  BY <2>1, <2>2, <2>3
<1> HIDE DEF all
<1>2. q \in Seq(Units) /\ \A k \in DOMAIN q : Epoch(q[k]) <= e
  <2>1. CASE over = None
    BY <1>1, <2>1
  <2>2. CASE over # None
    <3>1. over \in Range(all)
      BY <1>1, <2>2, OverflowIsHere
    <3>2. /\ q = RemoveUnit(all, over) /\ q \in Seq(Units)
          /\ \A k \in DOMAIN q : \E l \in DOMAIN all : q[k] = all[l]
      BY <1>1, <2>2, <3>1, UnitRemoved
    <3> QED  BY <1>1, <3>2
  <2> QED  BY <2>1, <2>2
<1> HIDE DEF q, over
<1>3. MediaShape(pushed, c, e)
  <2>1. /\ IsMedia(pushed) /\ pushed.jitter = q /\ pushed.phase = s.phase
        /\ pushed.stopped = s.stopped /\ pushed.items = s.items
        /\ pushed.busy = s.busy /\ pushed.events = s.events
    BY <1>2 DEF MediaShape, IsMedia
  <2> HIDE DEF pushed
  <2>2. JitterUpTo(pushed, e)
    BY <1>2, <2>1 DEF JitterUpTo
  <2> QED  BY <2>1, <2>2, PathShape
<1>4. PushJitter(s, u) \in {s, pushed, EnterDecoderRecovery(s, late, TRUE),
                            EnterDecoderRecovery(pushed, late, TRUE)}
  BY DEF PushJitter, over, q, all
<1> HIDE DEF pushed
<1>5. /\ MediaShape(EnterDecoderRecovery(s, late, TRUE), c, e)
      /\ MediaShape(EnterDecoderRecovery(pushed, late, TRUE), c, e)
  BY <1>3, RecoverShape DEF MediaShape, Calm
<1> QED  BY <1>3, <1>4, <1>5

LEMMA QueueShape ==
    ASSUME Types, NEW s, NEW c, NEW e, MediaShape(s, c, e), NEW u \in Units, Epoch(u) <= e
    PROVE  MediaShape(QueueAssembledAccessUnit(s, u), c, e)
<1> DEFINE r == EnterDecoderRecovery(s, "RandomAccessResync", TRUE)
<1>1. MediaShape(r, c, e)
  BY RecoverShape DEF MediaShape, Calm
<1>2. QueueAssembledAccessUnit(s, u) \in {PushJitter(r, u), PushJitter(s, u)}
  BY DEF QueueAssembledAccessUnit
<1> HIDE DEF r
<1> QED  BY <1>1, <1>2, PushShape

-----------------------------------------------------------------------------
(* The decoder's queue.                                                     *)

LEMMA MakeRoomType ==
    ASSUME Types, NEW s, IsMedia(s), NEW u \in Units, ~s.stopped,
           DecoderAdmission(s, u) = "Ready"
    PROVE  MakeRoom(s, u) \in Seq(AnyJob)
<1>1. s.items \in Seq(AnyJob) /\ DOMAIN s.items = 1..Len(s.items) /\ Len(s.items) \in Nat
  BY MediaFields, LenProperties
<1>2. CASE Kind(u) = "key"
  <2>1. IsFiniteSet(Resets(s.items))
    <3>1. Resets(s.items) \subseteq 1..Len(s.items)
      BY <1>1 DEF Resets
    <3> QED  BY <1>1, <3>1, PrefixIsFinite
  <2>2. Cardinality(Resets(s.items)) \in Nat
    BY <2>1, FS_CardinalityType
  <2>3. ResetItem \in AnyJob
    BY DEF ResetItem, AnyJob, UnitOption, None
  <2> QED  BY <1>2, <2>2, <2>3 DEF MakeRoom
<1>3. CASE Kind(u) # "key" /\ Cardinality(Jobs(s.items)) < MaxPending
  BY <1>1, <1>3 DEF MakeRoom
<1>4. CASE Kind(u) # "key" /\ ~(Cardinality(Jobs(s.items)) < MaxPending)
  <2>1. Evictable(s.items) # {}
    BY <1>4 DEF DecoderAdmission
  <2>2. Evictable(s.items) \subseteq 1..Len(s.items)
    BY <1>1 DEF Evictable, Jobs
  <2>3. Min(Evictable(s.items)) \in DOMAIN s.items
    BY <1>1, <2>1, <2>2, MinExists
  <2> QED  BY <1>1, <1>4, <2>3, Removal DEF MakeRoom
<1> QED  BY <1>2, <1>3, <1>4

(* A key frame that starts a fresh chain is the last job of the queue.      *)
LEMMA PublishShape ==
    ASSUME Types, NEW s, MediaShape(s, conn, config), NEW u \in Units,
           conn # 0, Epoch(u) <= config, DecoderAdmission(s, u) = "Ready",
           s.phase = Healthy \/ Kind(u) = "key"
    PROVE  MediaShape(PublishTimelineAccessUnit(s, u), conn, config)
<1> DEFINE pressed == EnterDecoderRecovery(s, "DecoderQueuePressure", TRUE)
           room == MakeRoom(s, u)
           items == Append(room, Job(u, conn))
           phase == IF Kind(u) = "key" /\ s.phase.state # "Healthy"
                    THEN RefreshInFlight(u) ELSE s.phase
           r == [s EXCEPT !.items = items, !.phase = phase,
                          !.fed = IF IsReference(u) THEN u ELSE @,
                          !.given = @ \cup {u}]
<1>1. Epoch(u) = config \/ (config # None /\ Epoch(u) # config)
  BY UnitsAreNumbers DEF None, Types
<1>2. CASE config # None /\ Epoch(u) # config
  BY <1>2 DEF PublishTimelineAccessUnit
<1>3. CASE s.stopped
  <2>1. MediaShape(pressed, conn, config)
    BY RecoverShape DEF MediaShape, Calm
  <2>2. PublishTimelineAccessUnit(s, u) \in {s, pressed}
    BY <1>3 DEF PublishTimelineAccessUnit
  <2> HIDE DEF pressed
  <2> QED  BY <2>1, <2>2
<1>4. CASE ~s.stopped /\ ~(config # None /\ Epoch(u) # config)
  <2>1. room \in Seq(AnyJob)
    BY <1>4, MakeRoomType DEF MediaShape
  <2>2. Job(u, conn) \in AnyJob
    BY DEF Job, AnyJob, UnitOption, Types
  <2> HIDE DEF room
  <2>3. /\ items \in Seq(AnyJob) /\ Len(room) + 1 \in DOMAIN items
        /\ items[Len(room) + 1] = Job(u, conn)
    <3>1. /\ items \in Seq(AnyJob) /\ Len(items) = Len(room) + 1 /\ Len(room) \in Nat
          /\ items[Len(room) + 1] = Job(u, conn)
      BY <2>1, <2>2, AppendProperties, LenProperties
    <3> HIDE DEF items
    <3> QED  BY <3>1, LenProperties
  <2> HIDE DEF items
  <2>4. phase \in Phases /\ (phase \in {Healthy, RefreshInFlight(u)})
    <3>1. s.phase \in Phases
      BY MediaFields DEF MediaShape
    <3>2. s.phase.state = "Healthy" => s.phase = Healthy
      BY <3>1 DEF Phases, Healthy, AwaitingRefresh, RefreshInFlight
    <3>3. RefreshInFlight(u) \in Phases
      BY DEF Phases
    <3> QED  BY <3>1, <3>2, <3>3
  <2> HIDE DEF phase
  <2>5. /\ IsMedia(r) /\ r.jitter = s.jitter /\ r.events = s.events
        /\ r.phase = phase /\ r.items = items
    BY <2>3, <2>4 DEF MediaShape, IsMedia
  <2>6. PublishTimelineAccessUnit(s, u) = r
    BY <1>4 DEF PublishTimelineAccessUnit, items, room, phase, MediaShape, IsMedia
  <2> HIDE DEF r
  <2>7. EventsName(r) /\ JitterUpTo(r, config)
    BY <2>5 DEF MediaShape, EventsName, JitterUpTo
  <2>8. CandidateFor(r, conn, config)
    <3>1. CASE phase = Healthy
      BY <2>5, <3>1, NoCandidate
    <3>2. CASE phase = RefreshInFlight(u)
      <4>1. UnderWay(r, u, conn)
        BY <2>3, <2>5 DEF UnderWay, IsFor, Job
      <4>2. config # 0 /\ Epoch(u) = config
        BY <1>1, <1>4, UnitsAreNumbers
      <4> QED  BY <2>5, <3>2, <4>1, <4>2 DEF CandidateFor, RefreshInFlight
    <3> QED  BY <2>4, <3>1, <3>2
  <2> QED  BY <2>5, <2>6, <2>7, <2>8 DEF MediaShape
<1> QED  BY <1>2, <1>3, <1>4
-----------------------------------------------------------------------------
(* Steps.                                                                   *)

(* The shape of the next media, said of the next source.                    *)
LEMMA NextMedia ==
    ASSUME source' = source, MediaShape(media', conn', config')
    PROVE  MediaShape(media, conn, config)'
BY Zenon DEF MediaShape, IsMedia, EventsName, JitterUpTo, CandidateFor, UnderWay, IsFor, Units,
       UnitOption, AnyJob, AnyEvent, Phases, Epoch, RefreshInFlight, Healthy, AwaitingRefresh

(* Steps that leave the gate alone.                                         *)
LEMMA GateAside ==
    ASSUME IInv, UNCHANGED <<source, conn, lastConn, announced, readiness>>, UNCHANGED gate,
           MediaShape(media', conn, config)
    PROVE  IInv'
<1>1. MediaShape(media, conn, config)'
  BY NextMedia DEF gate
<1>2. Types' /\ GateShape' /\ NewestConfigInForce'
  BY DEF IInv, gate, Types, GateShape, NewestConfigInForce, UnitOption, Units, Kind, Epoch
<1> QED  BY <1>1, <1>2 DEF IInv

LEMMA RaiseIsNat ==
    ASSUME NEW a \in Nat, NEW b \in Nat
    PROVE  Raise(a, b) \in Nat /\ (a >= b => Raise(a, b) = a) /\ (b >= a => Raise(a, b) = b)
BY DEF Raise

(* The end of a connection leaves nothing behind.                           *)
LEMMA EndStep ==
    ASSUME Types, NEW s, Calm(s), EndConnection(s),
           readiness' \in {"Pending", "Ready", "Unavailable"}
    PROVE  IInv'
<1>1. /\ source' = source /\ lastConn' = lastConn
      /\ conn' = 0 /\ announced' = 0 /\ deferred' = 0 /\ config' = 0
      /\ waiting' = 0 /\ idr' = None /\ media' = TornDown(s)
  BY DEF EndConnection
<1>2. MediaShape(media, conn, config)'
  BY <1>1, TornDownShape, NextMedia
<1>3. Types' /\ GateShape' /\ NewestConfigInForce'
  BY <1>1 DEF Types, GateShape, NewestConfigInForce, UnitOption, None
<1> QED  BY <1>2, <1>3 DEF IInv

LEMMA LoseDecoderStep ==
    ASSUME IInv, NEW s, MediaShape(s, conn, config), LoseDecoder(s)
    PROVE  IInv'
<1>1. CASE conn # 0
  BY <1>1, EndStep DEF LoseDecoder, IInv, MediaShape, Calm
<1>2. CASE conn = 0
  <2>1. /\ UNCHANGED <<source, conn, lastConn, announced, deferred, config, waiting, idr>>
        /\ media' = s /\ readiness' = "Unavailable"
    BY <1>2 DEF LoseDecoder, link, gate
  <2>2. MediaShape(media, conn, config)'
    BY <2>1, NextMedia
  <2>3. Types' /\ GateShape' /\ NewestConfigInForce'
    BY <2>1 DEF IInv, Types, GateShape, NewestConfigInForce, UnitOption, Units, Kind, Epoch
  <2> QED  BY <2>2, <2>3 DEF IInv
<1> QED  BY <1>1, <1>2

(* A StreamConfig comes into force.                                         *)
LEMMA ConfigureStep ==
    ASSUME IInv, conn # 0, NEW epoch \in Nat \ {0}, Configure(epoch)
    PROVE  /\ config' = Raise(config, epoch)
           /\ waiting' \in Nat /\ idr' \in UnitOption
           /\ waiting' # 0 => waiting' > config'
           /\ idr' # None => Kind(idr') = "key" /\ Epoch(idr') = waiting'
           /\ MediaShape(media', conn, config')
<1>0. /\ Types /\ config \in Nat /\ waiting \in Nat /\ idr \in UnitOption /\ conn \in Nat
      /\ waiting # 0 => waiting > config
      /\ idr # None => Kind(idr) = "key" /\ Epoch(idr) = waiting
      /\ MediaShape(media, conn, config)
  BY DEF IInv, Types, GateShape
<1>1. CASE epoch < config
  <2>1. UNCHANGED <<config, waiting, idr, media>>
    BY <1>1 DEF Configure
  <2> QED  BY <1>0, <1>1, <2>1, RaiseIsNat
<1>2. CASE ~(epoch < config)
  <2> DEFINE kept == IF waiting < epoch THEN None ELSE idr
             release == kept # None /\ Epoch(kept) = epoch
             reason == IF config = 0 THEN "InitialConfig" ELSE "EpochChanged"
             ready == IF epoch = config THEN media
                      ELSE EnterDecoderRecovery(media, reason, config # 0)
  <2>1. /\ config' = epoch
        /\ waiting' = IF waiting <= epoch THEN 0 ELSE waiting
        /\ idr' = IF release THEN None ELSE kept
        /\ media' = IF release THEN QueueAssembledAccessUnit(ready, kept) ELSE ready
    BY <1>2 DEF Configure
  <2>2. epoch >= config
    BY <1>0, <1>2
  <2>3. MediaShape(ready, conn, epoch)
    <3>1. CASE epoch = config
      BY <1>0, <3>1
    <3>2. CASE epoch # config
      <4>1. JitterUpTo(media, epoch)
        <5>1. \A i \in DOMAIN media.jitter : Epoch(media.jitter[i]) \in Nat
          BY <1>0, MediaFields, UnitsAreNumbers, LenProperties, ElementOfSeq DEF MediaShape
        <5> QED  BY <1>0, <2>2, <5>1 DEF MediaShape, JitterUpTo
      <4> QED  BY <1>0, <3>2, <4>1, RecoverShape DEF MediaShape, Calm
    <3> QED  BY <3>1, <3>2
  <2>4. kept # None => /\ kept = idr /\ kept \in Units /\ ~(waiting < epoch)
                       /\ Epoch(kept) = waiting /\ Kind(kept) = "key"
    BY <1>0 DEF UnitOption
  <2> HIDE DEF ready, kept
  <2>5. MediaShape(media', conn, epoch)
    BY <1>0, <2>1, <2>3, <2>4, QueueShape
  <2>6. waiting' \in Nat /\ (waiting' # 0 => waiting' > epoch)
    BY <1>0, <2>1
  <2>7. idr' \in UnitOption
    BY <2>1, <2>4 DEF UnitOption
  <2>8. idr' # None => Kind(idr') = "key" /\ Epoch(idr') = waiting'
    BY <1>0, <2>1, <2>4
  <2> QED  BY <1>0, <2>1, <2>2, <2>5, <2>6, <2>7, <2>8, RaiseIsNat
<1> QED  BY <1>1, <1>2

(* After it the gate is as it should be.                                    *)
LEMMA ConfiguredStep ==
    ASSUME IInv, conn # 0, NEW epoch \in Nat \ {0}, Configure(epoch),
           UNCHANGED <<source, conn, lastConn>>, readiness' = "Ready",
           announced' = Raise(config, epoch), deferred' \in Nat
    PROVE  IInv'
<1>1. /\ config' = Raise(config, epoch)
      /\ waiting' \in Nat /\ idr' \in UnitOption
      /\ waiting' # 0 => waiting' > config'
      /\ idr' # None => Kind(idr') = "key" /\ Epoch(idr') = waiting'
      /\ MediaShape(media', conn, config')
  BY ConfigureStep
<1>2. config' \in Nat /\ Types
  BY <1>1, RaiseIsNat DEF IInv, Types
<1>3. MediaShape(media, conn, config)'
  BY <1>1, NextMedia
<1>4. Types' /\ GateShape' /\ NewestConfigInForce'
  BY <1>1, <1>2 DEF Types, GateShape, NewestConfigInForce, UnitOption, Units, Kind, Epoch
<1> QED  BY <1>3, <1>4 DEF IInv

LEMMA HandleStreamConfigStep ==
    ASSUME IInv, NEW epoch \in Epochs, HandleStreamConfig(epoch)
    PROVE  IInv'
<1>1. epoch \in Nat \ {0} /\ conn # 0 /\ {announced, deferred, config} \subseteq Nat
  BY UnitsAreNumbers DEF IInv, Types, Epochs, Epoch, HandleStreamConfig
<1>2. CASE /\ readiness = "Pending"
           /\ announced' = Raise(announced, epoch) /\ deferred' = Raise(deferred, epoch)
           /\ UNCHANGED <<config, waiting, idr, media>>
           /\ UNCHANGED <<link, newest, readiness, shown>>
  <2>1. MediaShape(media, conn, config)'
    BY <1>2, NextMedia DEF IInv, link
  <2>2. announced' \in Nat /\ deferred' \in Nat
    BY <1>1, <1>2, RaiseIsNat
  <2>3. announced' = deferred'
    BY <1>2 DEF IInv, NewestConfigInForce
  <2>4. Types' /\ GateShape' /\ NewestConfigInForce'
    BY <1>1, <1>2, <2>2, <2>3
    DEF IInv, Types, GateShape, NewestConfigInForce, UnitOption, Units, Kind, Epoch, link
  <2> QED  BY <2>1, <2>4 DEF IInv
<1>3. CASE /\ readiness = "Ready"
           /\ announced' = Raise(announced, epoch)
           /\ Configure(epoch)
           /\ UNCHANGED <<link, newest, readiness, deferred, shown>>
  <2>1. announced' = Raise(config, epoch) /\ deferred' \in Nat /\ readiness' = "Ready"
    BY <1>1, <1>3 DEF IInv, NewestConfigInForce
  <2> QED  BY <1>1, <1>3, <2>1, ConfiguredStep DEF link
<1>4. CASE readiness # "Pending" /\ Teardown
  BY <1>4, EndStep DEF Teardown, IInv, Types, MediaShape, Calm
<1> QED  BY <1>2, <1>3, <1>4 DEF HandleStreamConfig

LEMMA LearnCapabilitiesStep ==
    ASSUME IInv, LearnCapabilities
    PROVE  IInv'
<1>1. readiness = "Pending" /\ announced = deferred /\ config = 0 /\ deferred \in Nat
  BY DEF LearnCapabilities, IInv, NewestConfigInForce, GateShape, Types
<1>2. CASE /\ readiness' = "Ready" /\ (conn = 0 \/ deferred = 0)
           /\ UNCHANGED <<gate, media>> /\ UNCHANGED <<link, newest, announced, shown>>
  <2>1. MediaShape(media, conn, config)'
    BY <1>2, NextMedia DEF IInv, link, gate
  <2>2. announced = 0
    BY <1>1, <1>2 DEF IInv, GateShape
  <2>3. Types' /\ GateShape' /\ NewestConfigInForce'
    BY <1>1, <1>2, <2>2
    DEF IInv, Types, GateShape, NewestConfigInForce, UnitOption, Units, Kind, Epoch, link, gate
  <2> QED  BY <2>1, <2>3 DEF IInv
<1>3. CASE /\ readiness' = "Ready" /\ conn # 0 /\ deferred # 0
           /\ deferred' = 0 /\ Configure(deferred)
           /\ UNCHANGED <<link, newest, announced, shown>>
  <2>1. announced' = Raise(config, deferred)
    BY <1>1, <1>3, RaiseIsNat
  <2> QED  BY <1>1, <1>3, <2>1, ConfiguredStep DEF link
<1>4. CASE readiness' = "Ready" /\ EndConnection(media)
  BY <1>4, EndStep DEF IInv, MediaShape, Calm
<1>5. CASE LoseDecoder(media)
  BY <1>5, LoseDecoderStep DEF IInv
<1> QED  BY <1>2, <1>3, <1>4, <1>5 DEF LearnCapabilities

LEMMA TeardownStep ==
    ASSUME IInv, Teardown
    PROVE  IInv'
BY EndStep DEF Teardown, IInv, Types, MediaShape, Calm

(* Without a connection there is no candidate.                              *)
LEMMA ConnectStep ==
    ASSUME IInv, Connect
    PROVE  IInv'
<1>1. /\ conn = 0 /\ conn' = lastConn + 1 /\ lastConn' = lastConn + 1
      /\ UNCHANGED <<source, announced, readiness, deferred, config, waiting, idr, media>>
  BY DEF Connect, gate
<1>2. MediaShape(media', conn', config')
  BY <1>1 DEF IInv, MediaShape, CandidateFor
<1>3. MediaShape(media, conn, config)'
  BY <1>1, <1>2, NextMedia
<1>4. lastConn \in Nat /\ conn' \in Nat /\ conn' # 0
  BY <1>1 DEF IInv, Types
<1>5. Types' /\ GateShape' /\ NewestConfigInForce'
  BY <1>1, <1>4 DEF IInv, Types, GateShape, NewestConfigInForce, UnitOption, Units, Kind, Epoch
<1> QED  BY <1>3, <1>5 DEF IInv

(* The gate compares the unit's own epoch with the StreamConfig.            *)
LEMMA IngestStep ==
    ASSUME IInv, NEW u \in Units, IngestVideoPacket(u)
    PROVE  IInv'
<1>0. /\ Types /\ GateShape /\ MediaShape(media, conn, config)
      /\ Epoch(u) \in Nat /\ config \in Nat /\ waiting \in Nat
      /\ UNCHANGED <<source, conn, lastConn, announced, readiness, deferred, config>>
  BY UnitsAreNumbers DEF IInv, Types, IngestVideoPacket, link
<1>1. CASE Refused(u)
  <2>1. UNCHANGED <<waiting, idr, media>>
    BY <1>1 DEF IngestVideoPacket
  <2> QED  BY <1>0, <2>1, GateAside DEF gate
<1>2. CASE ~Refused(u)
  <2> DEFINE opened == MustWait(u) /\ waiting # Epoch(u)
             result == Ingest(media.map, Packet(u, NextFragment(u)))
             stored == [media EXCEPT !.map = result.map]
             keeps == result.unit # None /\ Kind(u) = "key"
             held == [stored EXCEPT !.map = TakeReferenceChainLoss(@)]
             queued == IF result.unit # None
                       THEN QueueAssembledAccessUnit(stored, u) ELSE stored
  <2>1. /\ waiting' = IF opened THEN Epoch(u) ELSE waiting
        /\ idr' = IF MustWait(u) /\ keeps THEN u ELSE IF opened THEN None ELSE idr
        /\ media' = IF MustWait(u) THEN held ELSE TakeLoss(queued)
    BY <1>2 DEF IngestVideoPacket
  <2> HIDE DEF result
  <2>2. MediaShape(stored, conn, config)
    BY <1>0, MapShape
  <2> HIDE DEF stored
  <2>3. MediaShape(held, conn, config)
    BY <2>2, MapShape
  <2> HIDE DEF held
  <2>4. Epoch(u) <= config => MediaShape(queued, conn, config)
    BY <1>0, <2>2, QueueShape
  <2> HIDE DEF queued
  <2>5. MediaShape(media', conn, config)
    BY <1>0, <2>1, <2>3, <2>4, TakeLossShape DEF MustWait
  <2>6. MediaShape(media, conn, config)'
    BY <1>0, <2>5, NextMedia
  <2>7. waiting' \in Nat /\ (waiting' # 0 => waiting' > config)
    BY <1>0, <2>1 DEF MustWait, GateShape
  <2>8. idr' \in UnitOption
    BY <1>0, <2>1 DEF UnitOption, Types
  <2>9. idr' # None => Kind(idr') = "key" /\ Epoch(idr') = waiting'
    <3>1. CASE MustWait(u) /\ keeps
      BY <2>1, <3>1
    <3>2. CASE ~(MustWait(u) /\ keeps)
      BY <1>0, <2>1, <3>2 DEF GateShape
    <3> QED  BY <3>1, <3>2
  <2>10. Types' /\ GateShape' /\ NewestConfigInForce'
    BY <1>0, <2>7, <2>8, <2>9
    DEF IInv, Types, GateShape, NewestConfigInForce, UnitOption, Units, Kind, Epoch
  <2> QED  BY <2>6, <2>10 DEF IInv
<1> QED  BY <1>1, <1>2

LEMMA DiscardStaleStep ==
    ASSUME IInv, NEW u \in Units, DiscardStaleVideoBatch(u)
    PROVE  IInv'
<1> DEFINE kept == DiscardStaleAccessUnit(media.map, Packet(u, 1))
           stored == [media EXCEPT !.map = TakeReferenceChainLoss(kept)]
           late == EnterDecoderRecovery(stored, "ReferenceAccessUnitLate", TRUE)
<1>1. media' \in {stored, late}
  BY DEF DiscardStaleVideoBatch
<1>2. MediaShape(stored, conn, config)
  BY MapShape DEF IInv
<1> HIDE DEF stored
<1>3. MediaShape(late, conn, config)
  BY <1>2, RecoverShape DEF IInv, MediaShape, Calm
<1> HIDE DEF late
<1> QED  BY <1>1, <1>2, <1>3, GateAside DEF DiscardStaleVideoBatch, link

LEMMA ExpireStep ==
    ASSUME IInv, NEW u \in Units, ExpireReassembly(u)
    PROVE  IInv'
<1> DEFINE stored == [media EXCEPT !.map = ExpireThrough(media.map, u)]
<1>1. media' = TakeLoss(stored)
  BY DEF ExpireReassembly
<1>2. MediaShape(stored, conn, config)
  BY MapShape DEF IInv
<1> HIDE DEF stored
<1>3. MediaShape(TakeLoss(stored), conn, config)
  BY <1>2, TakeLossShape DEF IInv
<1> QED  BY <1>1, <1>3, GateAside DEF ExpireReassembly, link

LEMMA DiscardExpiredStep ==
    ASSUME IInv, NEW n \in 1..Len(media.jitter), DiscardExpired(n)
    PROVE  IInv'
<1> DEFINE q == SubSeq(media.jitter, n + 1, Len(media.jitter))
           rest == [media EXCEPT !.jitter = q]
           late == EnterDecoderRecovery(rest, "ReferenceAccessUnitLate", TRUE)
<1>1. media' \in {rest, late}
  BY DEF DiscardExpired
<1>2. /\ media.jitter \in Seq(Units) /\ Len(media.jitter) \in Nat
      /\ DOMAIN media.jitter = 1..Len(media.jitter)
      /\ \A i \in 1..Len(media.jitter) :
            media.jitter[i] \in Units /\ Epoch(media.jitter[i]) <= config
  BY MediaFields, LenProperties, ElementOfSeq DEF IInv, MediaShape, JitterUpTo
<1>3. q \in Seq(Units) /\ \A i \in DOMAIN q : Epoch(q[i]) <= config
  <2>1. /\ q \in Seq(Units)
        /\ Len(q) = IF n + 1 <= Len(media.jitter) THEN Len(media.jitter) - (n + 1) + 1 ELSE 0
        /\ \A i \in 1..(Len(media.jitter) - (n + 1) + 1) : q[i] = media.jitter[(n + 1) + i - 1]
    BY <1>2, SubSeqProperties
  <2> HIDE DEF q
  <2>2. DOMAIN q = 1..Len(q)
    BY <2>1, LenProperties
  <2>3. ASSUME NEW i \in DOMAIN q  PROVE Epoch(q[i]) <= config
    <3>1. /\ i \in 1..(Len(media.jitter) - (n + 1) + 1)
          /\ (n + 1) + i - 1 \in 1..Len(media.jitter)
      BY <1>2, <2>1, <2>2
    <3> QED  BY <1>2, <2>1, <3>1
  <2> QED  BY <2>1, <2>3
<1> HIDE DEF q
<1>4. MediaShape(rest, conn, config)
  <2>1. /\ IsMedia(rest) /\ rest.jitter = q /\ rest.phase = media.phase
        /\ rest.stopped = media.stopped /\ rest.items = media.items
        /\ rest.busy = media.busy /\ rest.events = media.events
    BY <1>3 DEF IInv, MediaShape, IsMedia
  <2> HIDE DEF rest
  <2>2. JitterUpTo(rest, config)
    BY <1>3, <2>1 DEF JitterUpTo
  <2> QED  BY <2>1, <2>2, PathShape DEF IInv
<1> HIDE DEF rest
<1>5. MediaShape(late, conn, config)
  BY <1>4, RecoverShape DEF IInv, MediaShape, Calm
<1> HIDE DEF late
<1> QED  BY <1>1, <1>4, <1>5, GateAside DEF DiscardExpired, link

LEMMA DiscardReadyStep ==
    ASSUME IInv, DiscardReadyFrame
    PROVE  IInv'
<1>1. Oldest(media) \in Range(media.jitter)
  BY OldestIsHere, MediaFields DEF DiscardReadyFrame, Due, IInv, MediaShape
<1>2. media' = Pop(media, Oldest(media))
  BY DEF DiscardReadyFrame
<1>3. MediaShape(media', conn, config)
  BY <1>1, <1>2, PopShape DEF IInv
<1> QED  BY <1>3, GateAside DEF DiscardReadyFrame, link

LEMMA DecodeReadyStep ==
    ASSUME IInv, DecodeReadyFrame
    PROVE  IInv'
<1> DEFINE u == Oldest(media)
           s == Pop(media, u)
<1>1. u \in Range(media.jitter) /\ u \in Units
  BY OldestIsHere, MediaFields DEF DecodeReadyFrame, Due, IInv, MediaShape
<1>2. /\ RecoveryAdmission(media, u) = "Ready" /\ DecoderAdmission(media, u) = "Ready"
      /\ media' = PublishTimelineAccessUnit(s, u)
  BY DEF DecodeReadyFrame
<1> HIDE DEF u
<1>3. MediaShape(s, conn, config)
  BY <1>1, PopShape DEF IInv
<1>4. s.phase = media.phase /\ s.stopped = media.stopped /\ s.items = media.items
  BY DEF Pop, IInv, MediaShape, IsMedia
<1> HIDE DEF s
<1>5. Epoch(u) <= config
  BY <1>1 DEF IInv, MediaShape, JitterUpTo, Range
<1>6. conn # 0
  BY <1>1, <1>5, UnitsAreNumbers DEF IInv, GateShape
<1>7. DecoderAdmission(s, u) = "Ready"
  BY <1>2, <1>4 DEF DecoderAdmission
<1>8. s.phase = Healthy \/ Kind(u) = "key"
  <2>1. media.phase \in Phases
    BY MediaFields DEF IInv, MediaShape
  <2> QED  BY <1>2, <1>4, <2>1
           DEF RecoveryAdmission, Phases, Healthy, AwaitingRefresh, RefreshInFlight
<1>9. MediaShape(media', conn, config)
  BY <1>1, <1>2, <1>3, <1>5, <1>6, <1>7, <1>8, PublishShape DEF IInv
<1> QED  BY <1>9, GateAside DEF DecodeReadyFrame, link

LEMMA RequestKeyframeStep ==
    ASSUME IInv, RequestKeyframe
    PROVE  IInv'
<1>1. media' = EnterDecoderRecovery(media, "ManualRepair", FALSE)
  BY DEF RequestKeyframe
<1>2. MediaShape(media', conn, config)
  BY <1>1, RecoverShape DEF IInv, MediaShape, Calm
<1> QED  BY <1>2, GateAside DEF RequestKeyframe, link
-----------------------------------------------------------------------------
(* The worker moves a job on; the events keep their order.                  *)

LEMMA TakeItemStep ==
    ASSUME IInv, TakeItem
    PROVE  IInv'
<1> DEFINE h == Head(media.items)
           busy == IF h.unit = None THEN media.busy ELSE h
           r == [media EXCEPT !.items = Tail(media.items), !.busy = busy]
<1>1. media' = r /\ media.items # <<>> /\ media.busy = NoJob
  BY DEF TakeItem, Idle
<1>2. media.items \in Seq(AnyJob) /\ media.busy \in AnyJob
  BY MediaFields DEF IInv, MediaShape
<1>3. /\ h \in AnyJob /\ h = media.items[1] /\ Tail(media.items) \in Seq(AnyJob)
      /\ Len(Tail(media.items)) = Len(media.items) - 1 /\ Len(media.items) \in Nat
      /\ \A i \in 1..Len(Tail(media.items)) : Tail(media.items)[i] = media.items[i + 1]
  BY <1>1, <1>2, HeadTailProperties, LenProperties
<1>4. DOMAIN media.items = 1..Len(media.items)
      /\ DOMAIN Tail(media.items) = 1..Len(Tail(media.items))
  BY <1>2, <1>3, LenProperties
<1>5. \A i \in DOMAIN media.items : i = 1 \/ i - 1 \in DOMAIN Tail(media.items)
  BY <1>3, <1>4
<1>6. \A i \in DOMAIN media.items : i # 1 => Tail(media.items)[i - 1] = media.items[i]
  <2>1. ASSUME NEW i \in DOMAIN media.items, i # 1
        PROVE  i - 1 \in 1..Len(Tail(media.items)) /\ (i - 1) + 1 = i
    BY <1>3, <1>4, <2>1
  <2> QED  BY <1>3, <2>1
<1> HIDE DEF h
<1>7. /\ IsMedia(r) /\ r.jitter = media.jitter /\ r.phase = media.phase
      /\ r.stopped = media.stopped /\ r.events = media.events
      /\ r.items = Tail(media.items) /\ r.busy = busy
  BY <1>2, <1>3 DEF IInv, MediaShape, IsMedia
<1> HIDE DEF r
<1>8. ASSUME NEW u \in Units, UnderWay(media, u, conn)
      PROVE  UnderWay(r, u, conn)
  <2>0. u # None
    BY UnitsAreNumbers DEF IInv, None
  <2>1. CASE \E i \in DOMAIN media.items : IsFor(media.items[i], u, conn)
    <3>1. PICK i \in DOMAIN media.items : IsFor(media.items[i], u, conn)
      BY <2>1
    <3>2. CASE i = 1
      <4>1. busy = h /\ IsFor(h, u, conn)
        BY <1>3, <2>0, <3>1, <3>2 DEF IsFor
      <4> QED  BY <1>7, <4>1 DEF UnderWay
    <3>3. CASE i # 1
      <4>1. i - 1 \in DOMAIN r.items /\ r.items[i - 1] = media.items[i]
        BY <1>5, <1>6, <1>7, <3>3
      <4> QED  BY <3>1, <4>1 DEF UnderWay
    <3> QED  BY <3>2, <3>3
  <2>2. ~IsFor(media.busy, u, conn)
    BY <1>1, <2>0 DEF IsFor, NoJob, ResetItem
  <2>3. CASE \E i \in DOMAIN media.events : IsFor(media.events[i], u, conn)
    BY <1>7, <2>3 DEF UnderWay
  <2> QED  BY <1>8, <2>1, <2>2, <2>3 DEF UnderWay
<1>9. MediaShape(r, conn, config)
  BY <1>7, <1>8 DEF IInv, MediaShape, EventsName, JitterUpTo, CandidateFor
<1> QED  BY <1>1, <1>9, GateAside DEF TakeItem, link

(* An event that is appended is under way like those before it.             *)
LEMMA EventAppended ==
    ASSUME NEW q \in Seq(AnyEvent), NEW e \in AnyEvent
    PROVE  /\ Append(q, e) \in Seq(AnyEvent)
           /\ \A i \in DOMAIN q : \E k \in DOMAIN Append(q, e) : Append(q, e)[k] = q[i]
           /\ \E k \in DOMAIN Append(q, e) : Append(q, e)[k] = e
           /\ \A k \in DOMAIN Append(q, e) :
                 Append(q, e)[k] = e \/ \E i \in DOMAIN q : Append(q, e)[k] = q[i]
<1> DEFINE a == Append(q, e)
<1>1. /\ a \in Seq(AnyEvent) /\ Len(a) = Len(q) + 1 /\ Len(q) \in Nat
      /\ \A i \in 1..Len(q) : a[i] = q[i]
      /\ a[Len(q) + 1] = e
  BY AppendProperties, LenProperties
<1> HIDE DEF a
<1>2. DOMAIN a = 1..(Len(q) + 1) /\ DOMAIN q = 1..Len(q)
  BY <1>1, LenProperties
<1>3. Len(q) + 1 \in DOMAIN a /\ DOMAIN q \subseteq DOMAIN a
  BY <1>1, <1>2
<1>4. \A k \in DOMAIN a : k = Len(q) + 1 \/ k \in DOMAIN q
  BY <1>1, <1>2
<1> QED  BY <1>1, <1>2, <1>3, <1>4 DEF a

LEMMA FinishDecodeStep ==
    ASSUME IInv, NEW result \in {"picture", "error", "refused"}, FinishDecode(result)
    PROVE  IInv'
<1> DEFINE e == [unit |-> media.busy.unit, conn |-> media.busy.conn,
                 current |-> media.busy.current, result |-> result]
           events == Append(media.events, e)
           r == [media EXCEPT !.busy = NoJob, !.events = events]
<1>1. media' = r
  BY DEF FinishDecode
<1>2. /\ media.events \in Seq(AnyEvent) /\ media.busy \in AnyJob
      /\ media.items \in Seq(AnyJob) /\ e \in AnyEvent
  <2>1. media.events \in Seq(AnyEvent) /\ media.busy \in AnyJob /\ media.items \in Seq(AnyJob)
    BY MediaFields DEF IInv, MediaShape
  <2> QED  BY <2>1 DEF AnyJob, AnyEvent
<1>3. /\ e.unit = media.busy.unit /\ e.conn = media.busy.conn
      /\ e.current = media.busy.current /\ e.result = result
  OBVIOUS
<1> HIDE DEF e
<1>4. /\ events \in Seq(AnyEvent)
      /\ \A i \in DOMAIN media.events : \E k \in DOMAIN events : events[k] = media.events[i]
      /\ \E k \in DOMAIN events : events[k] = e
      /\ \A k \in DOMAIN events :
            events[k] = e \/ \E i \in DOMAIN media.events : events[k] = media.events[i]
  BY <1>2, EventAppended
<1> HIDE DEF events
<1>5. NoJob \in AnyJob
  BY DEF NoJob, ResetItem, AnyJob, UnitOption, None
<1>6. /\ IsMedia(r) /\ r.jitter = media.jitter /\ r.phase = media.phase
      /\ r.stopped = media.stopped /\ r.items = media.items
      /\ r.events = events /\ r.busy = NoJob
  BY <1>4, <1>5 DEF IInv, MediaShape, IsMedia
<1> HIDE DEF r
<1>7. e.result # "unavailable"
  BY <1>3
<1>8. EventsName(r)
  BY <1>4, <1>6, <1>7 DEF IInv, MediaShape, EventsName
<1>9. ASSUME NEW u \in Units, UnderWay(media, u, conn)
      PROVE  UnderWay(r, u, conn)
  BY <1>3, <1>4, <1>6, <1>9 DEF UnderWay, IsFor
<1>10. MediaShape(r, conn, config)
  BY <1>6, <1>8, <1>9 DEF IInv, MediaShape, JitterUpTo, CandidateFor
<1> QED  BY <1>1, <1>10, GateAside DEF FinishDecode, link

LEMMA WorkerFailsStep ==
    ASSUME IInv, WorkerFails
    PROVE  IInv'
<1> DEFINE e == [unit |-> None, conn |-> 0, current |-> TRUE, result |-> "unavailable"]
           events == Append(media.events, e)
           r == [media EXCEPT !.busy = NoJob, !.items = <<>>, !.stopped = TRUE,
                              !.events = events]
<1>1. media' = r
  BY DEF WorkerFails
<1>2. media.events \in Seq(AnyEvent) /\ e \in AnyEvent /\ e.unit = None
  <2>1. media.events \in Seq(AnyEvent)
    BY MediaFields DEF IInv, MediaShape
  <2> QED  BY <2>1 DEF AnyEvent, UnitOption, None
<1> HIDE DEF e
<1>3. /\ events \in Seq(AnyEvent)
      /\ \A k \in DOMAIN events :
            events[k] = e \/ \E i \in DOMAIN media.events : events[k] = media.events[i]
  BY <1>2, EventAppended
<1> HIDE DEF events
<1>4. NoJob \in AnyJob /\ <<>> \in Seq(AnyJob)
  BY DEF NoJob, ResetItem, AnyJob, UnitOption, None
<1>5. /\ IsMedia(r) /\ r.jitter = media.jitter /\ r.phase = media.phase
      /\ r.stopped /\ r.events = events
  BY <1>3, <1>4 DEF IInv, MediaShape, IsMedia
<1> HIDE DEF r
<1>6. EventsName(r)
  BY <1>2, <1>3, <1>5 DEF IInv, MediaShape, EventsName
<1>7. MediaShape(r, conn, config)
  BY <1>5, <1>6 DEF IInv, MediaShape, JitterUpTo, CandidateFor
<1> QED  BY <1>1, <1>7, GateAside DEF WorkerFails, link
-----------------------------------------------------------------------------
(* The owner reads an event.                                                *)

(* What is not in the event that was read is still under way.               *)
LEMMA EventRead ==
    ASSUME Types, NEW s, MediaShape(s, conn, config), s.events # <<>>
    PROVE  LET e == Head(s.events)
               r == [s EXCEPT !.events = Tail(s.events)]
           IN  /\ Calm(r) /\ JitterUpTo(r, config) /\ r.phase = s.phase /\ r.stopped = s.stopped
               /\ e \in AnyEvent /\ (e.result = "unavailable" => e.unit = None)
               /\ \A u \in Units : UnderWay(s, u, conn) =>
                                     IsFor(e, u, conn) \/ UnderWay(r, u, conn)
<1> DEFINE e == Head(s.events)
           tail == Tail(s.events)
           r == [s EXCEPT !.events = tail]
<1>1. s.events \in Seq(AnyEvent)
  BY MediaFields DEF MediaShape
<1>2. /\ e \in AnyEvent /\ e = s.events[1] /\ tail \in Seq(AnyEvent)
      /\ Len(tail) = Len(s.events) - 1 /\ Len(s.events) \in Nat
      /\ \A i \in 1..Len(tail) : tail[i] = s.events[i + 1]
  BY <1>1, HeadTailProperties, LenProperties
<1>3. DOMAIN s.events = 1..Len(s.events) /\ DOMAIN tail = 1..Len(tail)
  BY <1>1, <1>2, LenProperties
<1> HIDE DEF e, tail
<1>4. 1 \in DOMAIN s.events
  BY <1>1, <1>2, <1>3, EmptySeq
<1>5. \A i \in DOMAIN tail : i + 1 \in DOMAIN s.events /\ tail[i] = s.events[i + 1]
  BY <1>2, <1>3
<1>6. ASSUME NEW i \in DOMAIN s.events, i # 1
      PROVE  i - 1 \in DOMAIN tail /\ tail[i - 1] = s.events[i]
  <2>1. i - 1 \in 1..Len(tail) /\ (i - 1) + 1 = i
    BY <1>2, <1>3, <1>6
  <2> QED  BY <1>2, <1>3, <2>1
<1>7. /\ IsMedia(r) /\ r.jitter = s.jitter /\ r.phase = s.phase /\ r.stopped = s.stopped
      /\ r.items = s.items /\ r.busy = s.busy /\ r.events = tail
  BY <1>2 DEF MediaShape, IsMedia
<1> HIDE DEF r
<1>8. EventsName(r) /\ JitterUpTo(r, config)
  BY <1>5, <1>7 DEF MediaShape, EventsName, JitterUpTo
<1>9. e.result = "unavailable" => e.unit = None
  BY <1>2, <1>4 DEF MediaShape, EventsName
<1>10. ASSUME NEW u \in Units, UnderWay(s, u, conn), ~IsFor(e, u, conn)
       PROVE  UnderWay(r, u, conn)
  BY <1>2, <1>6, <1>7, <1>10 DEF UnderWay
<1> QED  BY <1>2, <1>7, <1>8, <1>9, <1>10 DEF Calm, e, r, tail

(* The event of the candidate ends its being the candidate.                 *)
LEMMA DrainStep ==
    ASSUME IInv, DrainDecoderEvent
    PROVE  IInv'
<1> DEFINE e == Head(media.events)
           r == [media EXCEPT !.events = Tail(media.events)]
           handled == HandleDecoderResult(r, e)
<1>0. Types /\ MediaShape(media, conn, config) /\ media.events # <<>>
  BY DEF IInv, DrainDecoderEvent
<1>1. /\ Calm(r) /\ JitterUpTo(r, config) /\ r.phase = media.phase
      /\ r.stopped = media.stopped
      /\ e \in AnyEvent /\ (e.result = "unavailable" => e.unit = None)
      /\ \A u \in Units : UnderWay(media, u, conn) =>
                            IsFor(e, u, conn) \/ UnderWay(r, u, conn)
  BY <1>0, EventRead
<1>2. CASE e.result = "unavailable"
  <2>1. LoseDecoder(r)
    BY <1>2 DEF DrainDecoderEvent
  <2> HIDE DEF e, r
  <2>2. \A u \in Units : ~IsFor(e, u, conn)
    BY <1>0, <1>1, <1>2, UnitsAreNumbers DEF IsFor, None
  <2>3. CandidateFor(r, conn, config)
    BY <1>0, <1>1, <2>2 DEF MediaShape, CandidateFor
  <2>4. MediaShape(r, conn, config)
    BY <1>1, <2>3 DEF MediaShape, Calm
  <2> QED  BY <2>1, <2>4, LoseDecoderStep
<1>3. CASE e.result # "unavailable"
  <2>1. /\ media' = IF MayPublish(r, e) THEN handled.media ELSE r
        /\ UNCHANGED <<link, newest, announced, readiness, gate>>
    BY <1>3 DEF DrainDecoderEvent
  <2> HIDE DEF e, r
  <2>2. \A u \in Units : r.phase = RefreshInFlight(u) =>
           /\ conn # 0 /\ config # 0 /\ Epoch(u) = config
           /\ r.stopped \/ IsFor(e, u, conn) \/ UnderWay(r, u, conn)
    BY <1>0, <1>1 DEF MediaShape, CandidateFor
  <2>3. CASE ~MayPublish(r, e)
    <3>1. ASSUME NEW u \in Units, r.phase = RefreshInFlight(u), IsFor(e, u, conn), ~r.stopped
          PROVE  FALSE
      <4>1. e.unit = u /\ e.current /\ e.conn = conn /\ conn # 0 /\ config # 0 /\ Epoch(u) = config
        BY <2>2, <3>1 DEF IsFor
      <4> QED  BY <2>3, <3>1, <4>1 DEF MayPublish, TimelineIsCurrent, AcceptsCompletion
    <3>2. CandidateFor(r, conn, config)
      BY <2>2, <3>1 DEF CandidateFor
    <3>3. MediaShape(media', conn, config)
      BY <1>1, <2>1, <2>3, <3>2 DEF MediaShape, Calm
    <3> QED  BY <2>1, <3>3, GateAside DEF link
  <2>4. CASE MayPublish(r, e)
    <3> DEFINE candidate == r.phase = RefreshInFlight(e.unit)
               healthy == [r EXCEPT !.phase = Healthy]
               again == EnterDecoderRecovery(r, "DecoderError", TRUE)
    <3>1. handled.media \in {healthy, again} \/ (handled.media = r /\ ~candidate)
      <4>1. e.result \in {"picture", "error", "refused"}
        BY <1>1, <1>3 DEF AnyEvent
      <4> QED  BY <4>1 DEF HandleDecoderResult
    <3>2. MediaShape(healthy, conn, config)
      <4>1. Calm(healthy) /\ healthy.jitter = r.jitter /\ healthy.phase = Healthy
        BY <1>1 DEF Calm, IsMedia, EventsName, Phases
      <4> HIDE DEF healthy
      <4>2. JitterUpTo(healthy, config) /\ CandidateFor(healthy, conn, config)
        BY <1>1, <4>1, NoCandidate DEF JitterUpTo
      <4> QED  BY <4>1, <4>2 DEF MediaShape, Calm
    <3>3. MediaShape(again, conn, config)
      BY <1>0, <1>1, RecoverShape
    <3>4. ~candidate => MediaShape(r, conn, config)
      <4>1. ~candidate => \A u \in Units : r.phase = RefreshInFlight(u) => ~IsFor(e, u, conn)
        BY DEF IsFor
      <4>2. ~candidate => CandidateFor(r, conn, config)
        BY <2>2, <4>1 DEF CandidateFor
      <4> QED  BY <1>1, <4>2 DEF MediaShape, Calm
    <3> HIDE DEF healthy, again, candidate, handled
    <3>5. MediaShape(media', conn, config)
      BY <2>1, <2>4, <3>1, <3>2, <3>3, <3>4
    <3> QED  BY <2>1, <3>5, GateAside DEF link
  <2> QED  BY <2>3, <2>4
<1> QED  BY <1>2, <1>3
-----------------------------------------------------------------------------
LEMMA InitIInv == Init => IInv
<1> SUFFICES ASSUME Init  PROVE IInv
  OBVIOUS
<1>1. Types
  <2>1. source \in Seq([epoch : Nat \ {0}, kind : Kinds])
    BY SourcesAssumption DEF Init
  <2> QED  BY <2>1 DEF Init, Types, UnitOption, None
<1>2. GateShape /\ NewestConfigInForce
  BY DEF Init, GateShape, NewestConfigInForce, None
<1>3. /\ <<>> \in Seq(Units) /\ <<>> \in Seq(AnyJob) /\ <<>> \in Seq(AnyEvent)
      /\ NoJob \in AnyJob
  BY DEF NoJob, ResetItem, AnyJob, UnitOption, None
<1>4. IsMedia(EmptyMedia)
  BY <1>3 DEF IsMedia, EmptyMedia, Phases
<1>5. EventsName(EmptyMedia) /\ JitterUpTo(EmptyMedia, config)
  BY DEF EventsName, JitterUpTo, EmptyMedia
<1>6. CandidateFor(EmptyMedia, conn, config)
  BY NoCandidate DEF EmptyMedia
<1> QED  BY <1>1, <1>2, <1>4, <1>5, <1>6 DEF Init, IInv, MediaShape

LEMMA NextIInv == IInv /\ [Next]_vars => IInv'
<1> SUFFICES ASSUME IInv, [Next]_vars  PROVE IInv'
  OBVIOUS
<1>1. CASE Owner
  BY <1>1, LearnCapabilitiesStep, TeardownStep, ExpireStep, DiscardExpiredStep,
     DiscardReadyStep, DecodeReadyStep, DrainStep DEF Owner, AbortForDecoder
<1>2. CASE Worker
  BY <1>2, TakeItemStep, FinishDecodeStep, WorkerFailsStep DEF Worker
<1>3. CASE Environment
  BY <1>3, ConnectStep, TeardownStep, RequestKeyframeStep, HandleStreamConfigStep,
     IngestStep, DiscardStaleStep DEF Environment, Disconnect
<1>4. CASE UNCHANGED vars
  <2>1. MediaShape(media', conn, config)
    BY <1>4 DEF vars, IInv
  <2> QED  BY <1>4, <2>1, GateAside DEF vars, gate
<1> QED  BY <1>1, <1>2, <1>3, <1>4 DEF Next

(* For every source and every capacity, in every interleaving of owner and  *)
(* worker, the invariant the theorems rest on.                              *)
THEOREM Invariant == Spec => []IInv
BY InitIInv, NextIInv, PTL DEF Spec

(* Media of an epoch without a StreamConfig goes no further than the gate,  *)
(* and the gate keeps only a key frame of the epoch it waits for            *)
(* (media_ingress.rs).                                                      *)
THEOREM NothingPassesTheGate == Spec => []GateHolds
<1>1. IInv => GateHolds
  <2> SUFFICES ASSUME IInv  PROVE GateHolds
    OBVIOUS
  <2>1. \A u \in Range(media.jitter) : Epoch(u) <= config
    BY DEF IInv, MediaShape, JitterUpTo, Range
  <2> QED  BY <2>1 DEF IInv, GateShape, GateHolds
<1> QED  BY <1>1, Invariant, PTL

(* The newest StreamConfig that arrived is in force once the probe has      *)
(* answered, and kept for later until then (decoder_capabilities.rs).       *)
THEOREM NewestConfigWins == Spec => []NewestConfigInForce
<1>1. IInv => NewestConfigInForce
  BY DEF IInv
<1> QED  BY <1>1, Invariant, PTL

(* A recovery that waits for a candidate waits for something that is still  *)
(* with the decoder or whose completion is unread (recovery.rs).            *)
THEOREM RecoveryWaitsForSomething == Spec => []CandidateIsUnderWay
<1>1. IInv => CandidateIsUnderWay
  <2> SUFFICES ASSUME IInv, NEW u \in Units, media.phase = RefreshInFlight(u),
                      ~media.stopped
               PROVE  \E j \in Range(media.items) \cup {media.busy} \cup Range(media.events) :
                         j.unit = u /\ j.current
    BY DEF CandidateIsUnderWay
  <2>1. UnderWay(media, u, conn)
    BY DEF IInv, MediaShape, CandidateFor
  <2> QED  BY <2>1 DEF UnderWay, IsFor, Range
<1> QED  BY <1>1, Invariant, PTL
-----------------------------------------------------------------------------
(***************************************************************************)
(* Two promises about the way of one unit: it is decoded once, and a       *)
(* reference unit that falls by the way starts a recovery.                 *)
(*                                                                         *)
(* A unit that was handed on is decided: the map will not build it again   *)
(* (Keeps), its epoch is over, or it belongs to an earlier connection.  So *)
(* what the map hands on is neither in the jitter buffer nor with the      *)
(* decoder nor kept at the gate, which makes each of them a station that a *)
(* unit passes once.  That the map forgets what is far enough behind does  *)
(* no harm, since such datagrams are out of reach (OneWay).                *)
(*                                                                         *)
(* A reference unit leaves the map with a loss reported (Reported), or the *)
(* jitter buffer through a step that starts a recovery (Passes); the only  *)
(* other way is to be dropped by the scheduler behind a candidate, and the *)
(* order of emission excludes that: the candidate left the jitter buffer   *)
(* last, and what waits there is newer.                                    *)
(***************************************************************************)
(* The units that were handed on: to the jitter buffer or to the decoder.   *)
Held(s) == s.given \cup Range(s.jitter)

(* No datagram can complete unit u again: it was sent on a connection that  *)
(* is over, its epoch is, it is closed, or its datagrams come too late.     *)
Decided(m, old, u) ==
    \/ u <= old \/ Epoch(u) < m.epoch
    \/ Epoch(u) = m.epoch /\ (Closed(m, u) \/ ~InReach(m, u))

(* What waits in the jitter buffer was not given to the decoder, is there   *)
(* once and is newer than what left it; a candidate was the last to leave.  *)
InOrder(s) ==
    /\ s.given \subseteq Units /\ Range(s.jitter) \subseteq Units /\ s.emitted \in UnitOption
    /\ IsInjective(s.jitter)
    /\ \A u \in Range(s.jitter) : u \notin s.given /\ s.emitted < u
    /\ \A k \in Units : s.phase = RefreshInFlight(k) => k <= s.emitted

(* i is the key frame the gate keeps, old the last unit of connections that *)
(* are over, new the newest unit seen.                                      *)
OneWay(s, i, old, new) ==
    /\ Shape(source, s.map) /\ s.map.highest <= new
    /\ InOrder(s)
    /\ i \in UnitOption /\ i \notin Held(s)
    /\ \A u \in Held(s) \cup ({i} \ {None}) : u <= new /\ Decided(s.map, old, u)

Over == IF conn = 0 THEN newest ELSE base

PathInv ==
    /\ IsStream(source)
    /\ base \in Nat /\ newest \in Nat /\ base <= newest
    /\ OneWay(media, idr, Over, newest)
(* What a step may do that hands nothing to the decoder: no reference unit  *)
(* leaves the jitter buffer unless a recovery starts.                       *)
NoNewJob(old, items) ==
    \A i \in DOMAIN items : items[i] = ResetItem \/ \E k \in DOMAIN old : items[i] = old[k]

Passes(s, r) ==
    /\ r.given = s.given /\ NoNewJob(s.items, r.items)
    /\ \/ r.phase = AwaitingRefresh
       \/ /\ s.phase # AwaitingRefresh /\ r.map = s.map
          /\ \A v \in Range(s.jitter) : IsReference(v) => v \in Range(r.jitter)

LEMMA SameJobs ==
    ASSUME NEW q, NEW r, r \in {q, <<ResetItem>>}
    PROVE  NoNewJob(q, r)
<1>1. CASE r = q
  BY <1>1 DEF NoNewJob
<1>2. CASE r = <<ResetItem>>
  BY <1>2 DEF NoNewJob
<1> QED  BY <1>1, <1>2

LEMMA PassesItself ==
    ASSUME NEW s
    PROVE  Passes(s, s)
BY SameJobs DEF Passes

LEMMA PassesTrans ==
    ASSUME NEW s, NEW r, NEW t, Passes(s, r), Passes(r, t)
    PROVE  Passes(s, t)
<1>1. NoNewJob(s.items, t.items)
  BY DEF Passes, NoNewJob
<1> QED  BY <1>1 DEF Passes
-----------------------------------------------------------------------------
(* Sequences without repetition.                                            *)

LEMMA UnitTaken ==
    ASSUME NEW q \in Seq(Units), IsInjective(q), NEW u \in Range(q)
    PROVE  /\ RemoveUnit(q, u) \in Seq(Units) /\ IsInjective(RemoveUnit(q, u))
           /\ Range(RemoveUnit(q, u)) = Range(q) \ {u}
<1> DEFINE i == CHOOSE i \in DOMAIN q : q[i] = u
           r == RemoveAt(q, i)
           At(k) == IF k < i THEN k ELSE k + 1
<1>1. i \in DOMAIN q /\ q[i] = u
  BY DEF Range
<1> HIDE DEF i
<1>2. RemoveUnit(q, u) = r
  BY DEF RemoveUnit, i
<1>3. Len(q) \in Nat /\ DOMAIN q = 1..Len(q) /\ i \in 1..Len(q)
  BY <1>1, LenProperties
<1>4. /\ r \in Seq(Units) /\ Len(r) = Len(q) - 1
      /\ \A k \in 1..(Len(q) - 1) : r[k] = IF k < i THEN q[k] ELSE q[k + 1]
  BY <1>1, Removal
<1>5. DOMAIN r = 1..(Len(q) - 1)
  BY <1>4, LenProperties
<1> HIDE DEF r
<1>6. \A k \in DOMAIN r : At(k) \in DOMAIN q /\ At(k) # i /\ r[k] = q[At(k)]
  BY <1>3, <1>4, <1>5
<1>7. IsInjective(r)
  <2> SUFFICES ASSUME NEW a \in DOMAIN r, NEW b \in DOMAIN r, r[a] = r[b]
               PROVE  a = b
    BY DEF IsInjective
  <2>1. At(a) = At(b)
    <3>1. q[At(a)] = q[At(b)] /\ At(a) \in DOMAIN q /\ At(b) \in DOMAIN q
      BY <1>6
    <3> HIDE DEF At
    <3> QED  BY <3>1 DEF IsInjective
  <2> QED  BY <1>3, <1>5, <2>1
<1>8. \A x \in Range(r) : x \in Range(q) \ {u}
  <2> SUFFICES ASSUME NEW k \in DOMAIN r  PROVE r[k] \in Range(q) \ {u}
    BY DEF Range
  <2>1. At(k) \in DOMAIN q /\ At(k) # i /\ r[k] = q[At(k)]
    BY <1>6
  <2> HIDE DEF At
  <2> QED  BY <1>1, <2>1 DEF Range, IsInjective
<1>9. \A x \in Range(q) \ {u} : x \in Range(r)
  <2> SUFFICES ASSUME NEW l \in DOMAIN q, q[l] # u  PROVE q[l] \in Range(r)
    BY DEF Range
  <2>1. l \in 1..Len(q) /\ l # i
    BY <1>1, <1>3
  <2>2. CASE l < i
    <3>1. l \in DOMAIN r /\ r[l] = q[l]
      BY <1>3, <1>4, <1>5, <2>1, <2>2
    <3> QED  BY <3>1 DEF Range
  <2>3. CASE i < l
    <3>1. l - 1 \in DOMAIN r /\ ~(l - 1 < i) /\ (l - 1) + 1 = l
      BY <1>3, <1>5, <2>1, <2>3
    <3>2. r[l - 1] = q[l]
      BY <1>4, <1>5, <3>1
    <3> QED  BY <3>1, <3>2 DEF Range
  <2> QED  BY <1>3, <2>1, <2>2, <2>3
<1> QED  BY <1>2, <1>4, <1>7, <1>8, <1>9

LEMMA UnitAppended ==
    ASSUME NEW q \in Seq(Units), IsInjective(q), NEW u \in Units, u \notin Range(q)
    PROVE  /\ Append(q, u) \in Seq(Units) /\ IsInjective(Append(q, u))
           /\ Range(Append(q, u)) = Range(q) \cup {u}
<1> DEFINE r == Append(q, u)
           n == Len(q)
<1>1. n \in Nat /\ DOMAIN q = 1..n
  BY LenProperties
<1>2. /\ r \in Seq(Units) /\ Len(r) = n + 1 /\ DOMAIN r = 1..(n + 1)
      /\ \A k \in 1..n : r[k] = q[k]
      /\ r[n + 1] = u
  BY AppendProperties, LenProperties
<1> HIDE DEF r, n
<1>3. \A k \in 1..n : q[k] # u
  BY <1>1 DEF Range
<1>4. IsInjective(r)
  <2> SUFFICES ASSUME NEW a \in 1..(n + 1), NEW b \in 1..(n + 1), r[a] = r[b]
               PROVE  a = b
    BY <1>2 DEF IsInjective
  <2>1. CASE a \in 1..n /\ b \in 1..n
    BY <1>1, <1>2, <2>1 DEF IsInjective
  <2>2. CASE ~(a \in 1..n /\ b \in 1..n)
    BY <1>1, <1>2, <1>3, <2>2
  <2> QED  BY <2>1, <2>2
<1>5. Range(r) = Range(q) \cup {u}
  <2>1. \A k \in 1..(n + 1) : k \in 1..n \/ k = n + 1
    BY <1>1
  <2>2. 1..n \subseteq 1..(n + 1) /\ n + 1 \in 1..(n + 1)
    BY <1>1
  <2> QED  BY <1>1, <1>2, <2>1, <2>2 DEF Range
<1> QED  BY <1>2, <1>4, <1>5 DEF r

LEMMA UnitsCut ==
    ASSUME NEW q \in Seq(Units), IsInjective(q), NEW n \in 1..Len(q)
    PROVE  LET r == SubSeq(q, n + 1, Len(q))
           IN  /\ r \in Seq(Units) /\ IsInjective(r) /\ Range(r) \subseteq Range(q)
               /\ \A x \in Range(q) \ Range(r) : \E i \in 1..n : x = q[i]
<1> DEFINE r == SubSeq(q, n + 1, Len(q))
           l == Len(q)
<1>1. /\ l \in Nat /\ n \in 1..l /\ DOMAIN q = 1..l
      /\ \A i \in 1..l : q[i] \in Units
  BY LenProperties, ElementOfSeq
<1>2. r \in Seq(Units) /\ DOMAIN r = 1..(l - n) /\ \A k \in 1..(l - n) : r[k] = q[k + n]
  <2>1. \A i \in (n + 1)..l : q[i] \in Units
    BY <1>1
  <2>2. /\ r \in Seq(Units) /\ Len(r) = IF n + 1 <= l THEN l - (n + 1) + 1 ELSE 0
        /\ \A k \in 1..(l - (n + 1) + 1) : r[k] = q[(n + 1) + k - 1]
    BY <1>1, <2>1, SubSeqProperties
  <2>3. DOMAIN r = 1..Len(r)
    BY <2>2, LenProperties
  <2> HIDE DEF r, l
  <2>4. l - (n + 1) + 1 = l - n /\ Len(r) = l - n
    BY <1>1, <2>2
  <2>5. \A k \in 1..(l - n) : (n + 1) + k - 1 = k + n
    BY <1>1
  <2> QED  BY <2>2, <2>3, <2>4, <2>5
<1> HIDE DEF r, l
<1>3. \A k \in 1..(l - n) : k + n \in 1..l
  BY <1>1
<1>4. IsInjective(r)
  <2> SUFFICES ASSUME NEW a \in 1..(l - n), NEW b \in 1..(l - n), r[a] = r[b]  PROVE a = b
    BY <1>2 DEF IsInjective
  <2>1. a + n = b + n
    BY <1>1, <1>2, <1>3 DEF IsInjective
  <2> QED  BY <1>1, <2>1
<1>5. Range(r) \subseteq Range(q)
  BY <1>1, <1>2, <1>3 DEF Range
<1>6. ASSUME NEW i \in 1..l, q[i] \notin Range(r)  PROVE i \in 1..n
  <2> SUFFICES ASSUME ~(i <= n)  PROVE FALSE
    BY <1>1
  <2>1. i - n \in 1..(l - n) /\ (i - n) + n = i
    BY <1>1
  <2>2. r[i - n] = q[i]
    BY <1>2, <2>1
  <2> QED  BY <1>2, <1>6, <2>1, <2>2 DEF Range
<1>7. \A x \in Range(q) \ Range(r) : \E i \in 1..n : x = q[i]
  BY <1>1, <1>6 DEF Range
<1> QED  BY <1>2, <1>4, <1>5, <1>7 DEF r, l

LEMMA NothingInRange ==
    IsInjective(<<>>) /\ Range(<<>>) = {} /\ <<>> \in Seq(Units)
BY DEF IsInjective, Range
-----------------------------------------------------------------------------
(* One way through the receiver.                                            *)

LEMMA NoneIsNoUnit ==
    ASSUME IsStream(source)
    PROVE  Units \subseteq Nat /\ None \notin Units
BY DEF IsStream, Units, None

LEMMA ProceedsItself ==
    ASSUME NEW src, NEW m, IsStream(src), Shape(src, m)
    PROVE  Proceeds(src, m, m)
BY KeepsItself DEF Proceeds, Shape, Fields, IsRecord

LEMMA ProceedsTrans ==
    ASSUME NEW src, NEW m, NEW n, NEW o, IsStream(src), Shape(src, m),
           Proceeds(src, m, n), Proceeds(src, n, o)
    PROVE  Proceeds(src, m, o)
<1>1. m.epoch \in Nat /\ n.epoch \in Nat /\ o.epoch \in Nat
  BY DEF Proceeds, Shape, Fields, IsRecord
<1>2. n.epoch >= m.epoch /\ o.epoch >= n.epoch
  BY DEF Proceeds
<1>3. ASSUME o.epoch = m.epoch  PROVE Keeps(src, m, o)
  <2>1. n.epoch = m.epoch /\ o.epoch = n.epoch
    BY <1>1, <1>2, <1>3
  <2>2. Keeps(src, m, n) /\ Keeps(src, n, o)
    BY <2>1 DEF Proceeds
  <2> QED  BY <2>2, KeepsTrans DEF Proceeds, Shape
<1>4. o.epoch >= m.epoch
  BY <1>1, <1>2
<1> QED  BY <1>3, <1>4 DEF Proceeds

LEMMA DecidedStays ==
    ASSUME IsStream(source), NEW m, NEW n, Shape(source, m), Proceeds(source, m, n),
           NEW old, NEW u \in Units, Decided(m, old, u)
    PROVE  Decided(n, old, u)
<1>1. /\ m.epoch \in Nat /\ n.epoch \in Nat /\ m.highest \in Nat /\ n.highest \in Nat
      /\ n.epoch >= m.epoch
  BY DEF Proceeds, Shape, Fields, IsRecord
<1>2. u \in Nat /\ Epoch(u) \in Nat /\ u \in DOMAIN source /\ Reach \in Nat
  BY Numbers DEF IsStream, Units, Epoch
<1>3. CASE u <= old
  BY <1>3 DEF Decided
<1>4. CASE Epoch(u) < n.epoch
  BY <1>4 DEF Decided
<1>5. CASE Epoch(u) = m.epoch /\ ~(Epoch(u) < n.epoch) /\ ~(u <= old)
  <2>1. n.epoch = m.epoch
    BY <1>1, <1>2, <1>5
  <2>2. Keeps(source, m, n)
    BY <2>1 DEF Proceeds
  <2>3. Closed(m, u) \/ ~InReach(m, u)
    BY <1>1, <1>5 DEF Decided
  <2>4. Closed(n, u) \/ ~InReach(n, u)
    <3>1. CASE Closed(m, u)
      BY <1>2, <2>2, <3>1 DEF Keeps
    <3>2. CASE ~InReach(m, u)
      BY <1>1, <1>2, <2>2, <3>2 DEF Keeps, InReach
    <3> QED  BY <2>3, <3>1, <3>2
  <2> QED  BY <1>5, <2>1, <2>4 DEF Decided
<1> QED  BY <1>1, <1>2, <1>3, <1>4, <1>5 DEF Decided

(* Nothing new is handed on.                                                *)
LEMMA Onward ==
    ASSUME NEW s, NEW r, NEW i, NEW old, NEW new \in Nat, NEW top \in Nat,
           IsStream(source), OneWay(s, i, old, new), new <= top,
           Proceeds(source, s.map, r.map), r.map.highest <= top,
           r.given = s.given, IsInjective(r.jitter), Range(r.jitter) \subseteq Range(s.jitter),
           r.emitted \in UnitOption, \A u \in Range(r.jitter) : r.emitted < u,
           \A k \in Units : r.phase = RefreshInFlight(k) => k <= r.emitted
    PROVE  OneWay(r, i, old, top)
<1>1. InOrder(r)
  BY DEF InOrder, OneWay
<1>2. Held(r) \subseteq Held(s)
  BY DEF Held
<1>3. ASSUME NEW u \in Held(r) \cup ({i} \ {None})
      PROVE  u <= top /\ Decided(r.map, old, u)
  <2>1. u \in Held(s) \cup ({i} \ {None})
    BY <1>2
  <2>2. u <= new /\ Decided(s.map, old, u)
    BY <2>1 DEF OneWay
  <2>3. u \in Units
    <3>1. \A v \in Range(s.jitter) : v \in Range(s.jitter)
      OBVIOUS
    <3> QED  BY <2>1, <2>2 DEF OneWay, InOrder, Held, UnitOption
  <2>4. Decided(r.map, old, u)
    BY <2>2, <2>3, DecidedStays DEF OneWay
  <2>5. u <= top
    BY <2>2, <2>3 DEF IsStream, Units
  <2> QED  BY <2>4, <2>5
<1>4. Shape(source, r.map)
  BY DEF Proceeds
<1> QED  BY <1>1, <1>2, <1>3, <1>4 DEF OneWay

(* The decoder's end of it may move, the gate may let go of its key frame.  *)
LEMMA Aside ==
    ASSUME IsStream(source), NEW s, NEW r, NEW i, NEW j, NEW old, NEW new,
           OneWay(s, i, old, new), j \in {i, None}, r.map = s.map, r.given = s.given, r.jitter = s.jitter, r.emitted = s.emitted,
           r.phase \in {s.phase, Healthy, AwaitingRefresh}
    PROVE  OneWay(r, j, old, new)
<1>1. Held(r) = Held(s)
  BY DEF Held
<1>2. \A k \in Units : r.phase = RefreshInFlight(k) => s.phase = RefreshInFlight(k)
  BY DEF Healthy, AwaitingRefresh, RefreshInFlight
<1>3. InOrder(r)
  BY <1>2 DEF InOrder, OneWay
<1>4. None \notin Held(s)
  <2>1. None \notin Range(s.jitter) /\ None \notin s.given
    <3>1. None \notin Units
      BY NoneIsNoUnit
    <3> QED  BY <3>1 DEF OneWay, InOrder
  <2> QED  BY <2>1 DEF Held
<1>5. j \in UnitOption /\ j \notin Held(s)
  BY <1>4 DEF OneWay, UnitOption
<1> QED  BY <1>1, <1>3, <1>5 DEF OneWay

LEMMA ResetFields ==
    ASSUME NEW s, IsMedia(s)
    PROVE  LET r == ResetDecoder(s)
           IN  /\ r.map = s.map /\ r.jitter = s.jitter /\ r.emitted = s.emitted
               /\ r.phase = s.phase /\ r.given = s.given
               /\ r.items \in {s.items, <<ResetItem>>}
<1> DEFINE r == ResetDecoder(s)
           busy == Outdated(s.busy)
           ev == [i \in DOMAIN s.events |-> Outdated(s.events[i])]
<1>1. CASE s.stopped
  BY <1>1 DEF ResetDecoder
<1>2. CASE ~s.stopped
  <2>1. r = [s EXCEPT !.items = <<ResetItem>>, !.fed = None, !.busy = busy, !.events = ev]
    BY <1>2 DEF ResetDecoder, IsMedia
  <2> HIDE DEF r, busy, ev
  <2> QED  BY <2>1 DEF IsMedia, r
<1> QED  BY <1>1, <1>2

(* A recovery clears the way or leaves it alone.                            *)
LEMMA RecoverFields ==
    ASSUME Types, NEW s, NEW reason, NEW reset \in BOOLEAN, Calm(s)
    PROVE  LET r == EnterDecoderRecovery(s, reason, reset)
           IN  /\ r.phase = AwaitingRefresh /\ r.given = s.given
               /\ r.items \in {s.items, <<ResetItem>>}
               /\ \/ r.map = s.map /\ r.jitter = s.jitter /\ r.emitted = s.emitted
                  \/ /\ r.map = TakeReferenceChainLoss(ClearPending(s.map))
                     /\ r.jitter = <<>> /\ r.emitted = None
<1> DEFINE discards == s.phase # AwaitingRefresh \/ reason = "RandomAccessResync"
           emptied == [s EXCEPT !.map = TakeReferenceChainLoss(ClearPending(s.map)),
                                !.jitter = <<>>, !.emitted = None]
           cleaned == IF discards THEN emptied ELSE s
           ready == IF reset /\ (discards \/ reason = "DecoderError")
                    THEN ResetDecoder(cleaned) ELSE cleaned
           r == [ready EXCEPT !.phase = AwaitingRefresh]
<1>1. /\ Calm(emptied) /\ emptied.jitter = <<>> /\ emptied.emitted = None
      /\ emptied.map = TakeReferenceChainLoss(ClearPending(s.map))
      /\ emptied.given = s.given /\ emptied.items = s.items
  <2>1. <<>> \in Seq(Units)
    OBVIOUS
  <2> QED  BY <2>1 DEF Calm, IsMedia, EventsName
<1>2. EnterDecoderRecovery(s, reason, reset) = r
  BY DEF EnterDecoderRecovery, Calm, IsMedia
<1> HIDE DEF emptied, discards
<1>3. /\ Calm(cleaned) /\ cleaned.given = s.given /\ cleaned.items = s.items
      /\ \/ cleaned.map = s.map /\ cleaned.jitter = s.jitter /\ cleaned.emitted = s.emitted
         \/ /\ cleaned.map = TakeReferenceChainLoss(ClearPending(s.map))
            /\ cleaned.jitter = <<>> /\ cleaned.emitted = None
  BY <1>1
<1> HIDE DEF cleaned
<1>4. /\ Calm(ready) /\ ready.map = cleaned.map /\ ready.jitter = cleaned.jitter
      /\ ready.emitted = cleaned.emitted /\ ready.given = cleaned.given
      /\ ready.items \in {cleaned.items, <<ResetItem>>}
  BY <1>3, ResetCalm, ResetFields DEF Calm
<1> HIDE DEF ready
<1>5. /\ r.map = ready.map /\ r.jitter = ready.jitter /\ r.emitted = ready.emitted
      /\ r.given = ready.given /\ r.items = ready.items /\ r.phase = AwaitingRefresh
  BY <1>4 DEF Calm, IsMedia
<1> HIDE DEF r
<1> QED  BY <1>2, <1>3, <1>4, <1>5

LEMMA RecoverOneWay ==
    ASSUME Types, IsStream(source), NEW s, NEW i, NEW old, NEW new \in Nat, NEW reason,
           NEW reset \in BOOLEAN, Calm(s), OneWay(s, i, old, new)
    PROVE  LET r == EnterDecoderRecovery(s, reason, reset)
           IN  /\ OneWay(r, i, old, new) /\ Calm(r) /\ Passes(s, r) /\ Held(r) \subseteq Held(s)
               /\ r.phase = AwaitingRefresh /\ Proceeds(source, s.map, r.map)
<1> DEFINE r == EnterDecoderRecovery(s, reason, reset)
           c == ClearPending(s.map)
           t == TakeReferenceChainLoss(c)
<1>1. /\ r.phase = AwaitingRefresh /\ r.given = s.given
      /\ r.items \in {s.items, <<ResetItem>>}
      /\ \/ r.map = s.map /\ r.jitter = s.jitter /\ r.emitted = s.emitted
         \/ r.map = t /\ r.jitter = <<>> /\ r.emitted = None
  BY RecoverFields
<1>2. Calm(r)
  BY RecoverCalm
<1> HIDE DEF r
<1>3. Passes(s, r)
  BY <1>1, SameJobs DEF Passes
<1>4. Shape(source, s.map) /\ s.map.highest <= new /\ InOrder(s)
  BY DEF OneWay
<1>5. Proceeds(source, s.map, s.map) /\ Proceeds(source, s.map, t) /\ t.highest = s.map.highest
  <2>1. Proceeds(source, s.map, c) /\ c.highest = s.map.highest
    BY <1>4, ClearFacts
  <2> HIDE DEF c
  <2>2. Proceeds(source, c, t) /\ t.highest = c.highest
    BY <2>1, TakeLossFacts DEF Proceeds
  <2> HIDE DEF t
  <2> QED  BY <1>4, <2>1, <2>2, ProceedsItself, ProceedsTrans
<1>6. /\ IsInjective(r.jitter) /\ Range(r.jitter) \subseteq Range(s.jitter)
      /\ r.emitted \in UnitOption /\ \A u \in Range(r.jitter) : r.emitted < u
  <2>1. CASE r.jitter = s.jitter /\ r.emitted = s.emitted
    BY <1>4, <2>1 DEF InOrder
  <2>2. CASE r.jitter = <<>> /\ r.emitted = None
    BY <2>2, NothingInRange DEF UnitOption
  <2> QED  BY <1>1, <2>1, <2>2
<1> HIDE DEF t
<1>7. Proceeds(source, s.map, r.map) /\ r.map.highest <= new
  BY <1>1, <1>4, <1>5
<1>8. \A k \in Units : r.phase # RefreshInFlight(k)
  BY <1>1 DEF AwaitingRefresh, RefreshInFlight
<1>9. OneWay(r, i, old, new)
  BY <1>1, <1>6, <1>7, <1>8, Onward
<1>10. Held(r) \subseteq Held(s)
  BY <1>1, <1>6 DEF Held
<1> QED  BY <1>1, <1>2, <1>3, <1>7, <1>9, <1>10 DEF r

(* The map goes on by itself.                                               *)
LEMMA MapOneWay ==
    ASSUME IsStream(source), NEW s, NEW i, NEW old, NEW new \in Nat, NEW top \in Nat, NEW n,
           Calm(s), OneWay(s, i, old, new), new <= top,
           Proceeds(source, s.map, n), n.highest <= top
    PROVE  LET r == [s EXCEPT !.map = n]
           IN  /\ OneWay(r, i, old, top) /\ Calm(r)
               /\ r.map = n /\ r.jitter = s.jitter /\ r.phase = s.phase
               /\ r.items = s.items /\ r.given = s.given /\ r.emitted = s.emitted
<1> DEFINE r == [s EXCEPT !.map = n]
<1>1. /\ r.map = n /\ r.jitter = s.jitter /\ r.phase = s.phase /\ r.emitted = s.emitted
      /\ r.items = s.items /\ r.given = s.given /\ Calm(r)
  BY DEF Calm, IsMedia, EventsName
<1> HIDE DEF r
<1>2. InOrder(s)
  BY DEF OneWay
<1>3. OneWay(r, i, old, top)
  BY <1>1, <1>2, Onward DEF InOrder
<1> QED  BY <1>1, <1>3 DEF r

LEMMA TakeLossOneWay ==
    ASSUME Types, IsStream(source), NEW s, NEW i, NEW old, NEW new \in Nat,
           Calm(s), OneWay(s, i, old, new)
    PROVE  /\ OneWay(TakeLoss(s), i, old, new) /\ Passes(s, TakeLoss(s))
           /\ s.map.lost => TakeLoss(s).phase = AwaitingRefresh
<1> DEFINE t == TakeReferenceChainLoss(s.map)
           c == [s EXCEPT !.map = t]
           r == EnterDecoderRecovery(c, "ReferenceAccessUnitLost", TRUE)
<1>1. CASE ~s.map.lost
  BY <1>1, PassesItself DEF TakeLoss
<1>2. CASE s.map.lost
  <2>1. TakeLoss(s) = r
    BY <1>2 DEF TakeLoss
  <2>2. Proceeds(source, s.map, t) /\ t.highest <= new
    BY TakeLossFacts DEF OneWay
  <2> HIDE DEF t
  <2>3. OneWay(c, i, old, new) /\ Calm(c) /\ c.items = s.items /\ c.given = s.given
    BY <2>2, MapOneWay
  <2> HIDE DEF c
  <2>4. OneWay(r, i, old, new) /\ Passes(c, r) /\ r.phase = AwaitingRefresh
    BY <2>3, RecoverOneWay
  <2> HIDE DEF r
  <2>5. Passes(s, r)
    BY <2>3, <2>4 DEF Passes
  <2> QED  BY <2>1, <2>4, <2>5
<1> QED  BY <1>1, <1>2

(* Unit u may be handed on next.                                            *)
MayEnter(s, u, old, new) ==
    u \in Units /\ u \notin Held(s) /\ u <= new /\ Decided(s.map, old, u)

LEMMA PushOneWay ==
    ASSUME Types, IsStream(source), NEW s, NEW i, NEW old, NEW new \in Nat, NEW u \in Units,
           Calm(s), OneWay(s, i, old, new), MayEnter(s, u, old, new), u # i
    PROVE  LET r == PushJitter(s, u)
           IN  /\ OneWay(r, i, old, new) /\ Passes(s, r)
               /\ r.phase = AwaitingRefresh \/ ~IsReference(u) \/ u \in Range(r.jitter)
<1> DEFINE all == Append(s.jitter, u)
           over == Overflow(all)
           q == IF over = None THEN all ELSE RemoveUnit(all, over)
           pushed == [s EXCEPT !.jitter = q]
           late == EnterDecoderRecovery(s, "ReferenceAccessUnitLate", TRUE)
           full == EnterDecoderRecovery(pushed, "ReferenceAccessUnitLate", TRUE)
           r == PushJitter(s, u)
<1>0. r = IF s.emitted # None /\ u <= s.emitted
          THEN IF IsReference(u) THEN late ELSE s
          ELSE IF over # None
          THEN IF IsReference(over) THEN full ELSE pushed
          ELSE pushed
  BY DEF PushJitter
<1>1. /\ s.jitter \in Seq(Units) /\ IsInjective(s.jitter) /\ Range(s.jitter) \subseteq Units
      /\ u \notin Range(s.jitter) /\ u \notin s.given /\ s.emitted \in UnitOption
      /\ s.given \subseteq Units
      /\ \A v \in Range(s.jitter) : v \notin s.given /\ s.emitted < v
      /\ \A k \in Units : s.phase = RefreshInFlight(k) => k <= s.emitted
  BY MediaFields DEF Calm, OneWay, InOrder, MayEnter, Held
<1>2. /\ all \in Seq(Units) /\ IsInjective(all)
      /\ Range(all) = Range(s.jitter) \cup {u}
  BY <1>1, UnitAppended
<1> HIDE DEF all
<1>3. /\ q \in Seq(Units) /\ IsInjective(q)
      /\ Range(q) = Range(all) \ {over}
  <2>1. None \notin Range(all)
    BY <1>1, <1>2, NoneIsNoUnit
  <2>2. CASE over = None
    BY <1>2, <2>1, <2>2
  <2>3. CASE over # None
    BY <1>2, <2>3, OverflowIsHere, UnitTaken
  <2> QED  BY <2>2, <2>3
<1> HIDE DEF q, over
<1>4. /\ Calm(pushed) /\ pushed.map = s.map /\ pushed.jitter = q /\ pushed.emitted = s.emitted
      /\ pushed.phase = s.phase /\ pushed.given = s.given /\ pushed.items = s.items
  BY <1>3 DEF Calm, IsMedia, EventsName
<1> HIDE DEF pushed
<1>5. OneWay(late, i, old, new) /\ Passes(s, late) /\ late.phase = AwaitingRefresh
  BY RecoverOneWay
<1> HIDE DEF late
<1>6. CASE s.emitted # None /\ u <= s.emitted
  BY <1>0, <1>5, <1>6, PassesItself
<1>7. CASE ~(s.emitted # None /\ u <= s.emitted)
  <2>1. s.emitted < u
    BY <1>1, <1>7, NoneIsNoUnit DEF UnitOption, None
  <2>2. Range(q) \subseteq Range(s.jitter) \cup {u}
    BY <1>2, <1>3
  <2>3. InOrder(pushed)
    BY <1>1, <1>3, <1>4, <2>1, <2>2 DEF InOrder
  <2>4. Held(pushed) \subseteq Held(s) \cup {u}
    BY <1>4, <2>2 DEF Held
  <2>5. OneWay(pushed, i, old, new)
    BY <1>4, <2>3, <2>4 DEF OneWay, MayEnter
  <2>6. OneWay(full, i, old, new) /\ Passes(pushed, full) /\ full.phase = AwaitingRefresh
    BY <1>4, <2>5, RecoverOneWay
  <2> HIDE DEF full
  <2>7. Passes(s, full)
    BY <1>4, <2>6 DEF Passes
  <2>8. ASSUME ~IsReference(over) \/ over = None  PROVE Passes(s, pushed) /\ (IsReference(u) => u \in Range(q))
    <3>1. \A v \in Range(s.jitter) \cup {u} : IsReference(v) => v \in Range(q)
      BY <1>1, <1>2, <1>3, <2>8, NoneIsNoUnit
    <3>2. NoNewJob(s.items, pushed.items)
      BY <1>4, SameJobs
    <3>3. CASE s.phase = AwaitingRefresh
      BY <1>4, <3>1, <3>2, <3>3 DEF Passes
    <3>4. CASE s.phase # AwaitingRefresh
      BY <1>4, <3>1, <3>2, <3>4 DEF Passes
    <3> QED  BY <3>1, <3>3, <3>4
  <2>9. r = full \/ (r = pushed /\ (~IsReference(over) \/ over = None))
    BY <1>0, <1>7
  <2> HIDE DEF r
  <2> QED  BY <1>4, <2>5, <2>6, <2>7, <2>8, <2>9 DEF r
<1> QED  BY <1>6, <1>7

LEMMA QueueOneWay ==
    ASSUME Types, IsStream(source), NEW s, NEW i, NEW old, NEW new \in Nat, NEW u \in Units,
           Calm(s), OneWay(s, i, old, new), MayEnter(s, u, old, new), u # i
    PROVE  LET r == QueueAssembledAccessUnit(s, u)
           IN  /\ OneWay(r, i, old, new) /\ Passes(s, r)
               /\ r.phase = AwaitingRefresh \/ ~IsReference(u) \/ u \in Range(r.jitter)
<1> DEFINE c == EnterDecoderRecovery(s, "RandomAccessResync", TRUE)
           direct == PushJitter(s, u)
           again == PushJitter(c, u)
           r == QueueAssembledAccessUnit(s, u)
<1>1. r \in {direct, again}
  BY DEF QueueAssembledAccessUnit
<1>2. /\ OneWay(c, i, old, new) /\ Calm(c) /\ Passes(s, c) /\ Held(c) \subseteq Held(s)
      /\ Proceeds(source, s.map, c.map)
  BY RecoverOneWay
<1> HIDE DEF c
<1>3. MayEnter(c, u, old, new)
  <2>1. Decided(c.map, old, u)
    BY <1>2, DecidedStays DEF OneWay, MayEnter
  <2> QED  BY <1>2, <2>1 DEF MayEnter
<1>4. /\ OneWay(again, i, old, new) /\ Passes(c, again)
      /\ again.phase = AwaitingRefresh \/ ~IsReference(u) \/ u \in Range(again.jitter)
  BY <1>2, <1>3, PushOneWay
<1>5. /\ OneWay(direct, i, old, new) /\ Passes(s, direct)
      /\ direct.phase = AwaitingRefresh \/ ~IsReference(u) \/ u \in Range(direct.jitter)
  BY PushOneWay
<1> HIDE DEF direct, again, r
<1>6. Passes(s, again)
  BY <1>2, <1>4, PassesTrans
<1> QED  BY <1>1, <1>4, <1>5, <1>6 DEF r

LEMMA PushCalm ==
    ASSUME Types, NEW s, NEW u \in Units, Calm(s)
    PROVE  Calm(PushJitter(s, u))
<1> DEFINE all == Append(s.jitter, u)
           over == Overflow(all)
           q == IF over = None THEN all ELSE RemoveUnit(all, over)
           pushed == [s EXCEPT !.jitter = q]
           late == EnterDecoderRecovery(s, "ReferenceAccessUnitLate", TRUE)
           full == EnterDecoderRecovery(pushed, "ReferenceAccessUnitLate", TRUE)
<1>1. PushJitter(s, u) \in {s, pushed, late, full}
  BY DEF PushJitter
<1>2. all \in Seq(Units)
  BY MediaFields, AppendProperties DEF Calm
<1> HIDE DEF all
<1>3. q \in Seq(Units)
  <2>1. CASE over = None
    BY <1>2, <2>1
  <2>2. CASE over # None
    BY <1>2, <2>2, OverflowIsHere, UnitRemoved
  <2> QED  BY <2>1, <2>2
<1> HIDE DEF q
<1>4. Calm(pushed)
  BY <1>3 DEF Calm, IsMedia, EventsName
<1> HIDE DEF pushed
<1>5. Calm(late) /\ Calm(full)
  BY <1>4, RecoverCalm
<1> HIDE DEF late, full
<1> QED  BY <1>1, <1>4, <1>5

LEMMA QueueCalm ==
    ASSUME Types, NEW s, NEW u \in Units, Calm(s)
    PROVE  Calm(QueueAssembledAccessUnit(s, u))
<1> DEFINE r == EnterDecoderRecovery(s, "RandomAccessResync", TRUE)
<1>1. Calm(r)
  BY RecoverCalm
<1>2. QueueAssembledAccessUnit(s, u) \in {PushJitter(r, u), PushJitter(s, u)}
  BY DEF QueueAssembledAccessUnit
<1> HIDE DEF r
<1> QED  BY <1>1, <1>2, PushCalm

(* What leaves the jitter buffer is older than all that stays.              *)
LEMMA PopOneWay ==
    ASSUME Types, IsStream(source), NEW s, NEW i, NEW old, NEW new \in Nat,
           Calm(s), OneWay(s, i, old, new), s.jitter # <<>>
    PROVE  LET u == Oldest(s)
               r == Pop(s, u)
           IN  /\ OneWay(r, i, old, new) /\ Calm(r) /\ MayEnter(r, u, old, new) /\ u # i
               /\ u \in Range(s.jitter) /\ u \notin s.given
               /\ \A k \in Units : s.phase = RefreshInFlight(k) => k < u
               /\ r.emitted = u /\ r.map = s.map /\ r.phase = s.phase /\ r.given = s.given
               /\ r.items = s.items /\ r.stopped = s.stopped
               /\ Range(r.jitter) = Range(s.jitter) \ {u}
<1> DEFINE u == Oldest(s)
           q == RemoveUnit(s.jitter, u)
           r == [s EXCEPT !.jitter = q, !.emitted = u]
<1>1. /\ s.jitter \in Seq(Units) /\ IsInjective(s.jitter) /\ Range(s.jitter) \subseteq Units
      /\ s.emitted \in UnitOption /\ s.given \subseteq Units
      /\ \A v \in Range(s.jitter) : v \notin s.given /\ s.emitted < v
      /\ \A k \in Units : s.phase = RefreshInFlight(k) => k <= s.emitted
  BY MediaFields DEF Calm, OneWay, InOrder
<1>2. u \in Range(s.jitter) /\ u \in Units /\ \A v \in Range(s.jitter) : u <= v
  <2>1. u \in Range(s.jitter) /\ u \in Units
    BY <1>1, OldestIsHere
  <2>2. \A v \in Range(s.jitter) : u <= v
    <3> DEFINE S == Range(s.jitter)
    <3>1. S \subseteq Nat /\ \A x \in S : x <= Len(source)
      BY <1>1, UnitsAreNumbers
    <3>2. Len(source) \in Nat /\ S # {}
      BY <2>1, UnitsAreNumbers
    <3> HIDE DEF S
    <3>3. \A x \in S : Min(S) <= x
      BY <3>1, <3>2, MinIsLeast
    <3> QED  BY <3>3 DEF S, Oldest
  <2> QED  BY <2>1, <2>2
<1> HIDE DEF u
<1>3. /\ q \in Seq(Units) /\ IsInjective(q)
      /\ Range(q) = Range(s.jitter) \ {u}
  BY <1>1, <1>2, UnitTaken
<1> HIDE DEF q
<1>4. /\ Calm(r) /\ r.map = s.map /\ r.jitter = q /\ r.emitted = u /\ r.phase = s.phase
      /\ r.given = s.given /\ r.items = s.items /\ r.stopped = s.stopped
  BY <1>3 DEF Calm, IsMedia, EventsName
<1>5. Pop(s, u) = r
  BY DEF Pop, q, Calm, IsMedia
<1> HIDE DEF r
<1>6. \A v \in Range(q) : u < v
  <2>1. \A v \in Range(q) : v \in Nat /\ u \in Nat /\ u <= v /\ u # v
    BY <1>1, <1>2, <1>3, NoneIsNoUnit
  <2> QED  BY <2>1
<1>7. \A k \in Units : s.phase = RefreshInFlight(k) => k < u
  <2>1. s.emitted \in Nat /\ u \in Nat /\ s.emitted < u
    BY <1>1, <1>2, NoneIsNoUnit DEF UnitOption, None
  <2>2. \A k \in Units : k \in Nat
    BY NoneIsNoUnit
  <2> QED  BY <1>1, <2>1, <2>2
<1>8. /\ Proceeds(source, s.map, s.map) /\ s.map.highest <= new
      /\ u \notin s.given /\ u \in Held(s) /\ u # i /\ u <= new /\ Decided(s.map, old, u)
  BY <1>1, <1>2, ProceedsItself DEF OneWay, Held
<1>9. OneWay(r, i, old, new)
  <2>1. \A k \in Units : r.phase = RefreshInFlight(k) => k <= r.emitted
    <3>1. \A k \in Units : k \in Nat
      BY NoneIsNoUnit
    <3> QED  BY <1>2, <1>4, <1>7, <3>1
  <2>2. IsInjective(r.jitter) /\ Range(r.jitter) \subseteq Range(s.jitter) /\ r.emitted \in UnitOption
    BY <1>2, <1>3, <1>4 DEF UnitOption
  <2>3. \A v \in Range(r.jitter) : r.emitted < v
    BY <1>4, <1>6
  <2>4. Proceeds(source, s.map, r.map) /\ r.map.highest <= new /\ r.given = s.given /\ new <= new
    BY <1>4, <1>8
  <2> QED  BY <2>1, <2>2, <2>3, <2>4, Onward
<1>10. MayEnter(r, u, old, new)
  BY <1>2, <1>3, <1>4, <1>8 DEF MayEnter, Held
<1> QED  BY <1>2, <1>3, <1>4, <1>5, <1>7, <1>8, <1>9, <1>10 DEF u

(* The only step that hands a unit to the decoder.                          *)
Publishes(s, r, u) ==
    /\ r.given = s.given \cup {u} /\ r.map = s.map /\ r.jitter = s.jitter
    /\ \A k \in DOMAIN r.items :
          r.items[k] = ResetItem \/ r.items[k].unit = u \/ \E l \in DOMAIN s.items : r.items[k] = s.items[l]

LEMMA JobRemoved ==
    ASSUME NEW q \in Seq(AnyJob), NEW i \in DOMAIN q
    PROVE  NoNewJob(q, RemoveAt(q, i))
<1> DEFINE r == RemoveAt(q, i)
<1>1. \A k \in DOMAIN r : \E l \in DOMAIN q : r[k] = q[l]
  BY Removal
<1> HIDE DEF r
<1>2. NoNewJob(q, r)
  BY <1>1 DEF NoNewJob
<1> QED  BY <1>2 DEF r

LEMMA RoomMade ==
    ASSUME Types, NEW s, IsMedia(s), NEW u \in Units, ~s.stopped,
           DecoderAdmission(s, u) = "Ready"
    PROVE  NoNewJob(s.items, MakeRoom(s, u))
<1>1. s.items \in Seq(AnyJob) /\ DOMAIN s.items = 1..Len(s.items) /\ Len(s.items) \in Nat
  BY MediaFields, LenProperties
<1>2. CASE Kind(u) = "key"
  BY <1>2 DEF MakeRoom, NoNewJob
<1>3. CASE Kind(u) # "key" /\ Cardinality(Jobs(s.items)) < MaxPending
  BY <1>3, SameJobs DEF MakeRoom
<1>4. CASE Kind(u) # "key" /\ ~(Cardinality(Jobs(s.items)) < MaxPending)
  <2>1. Evictable(s.items) # {}
    BY <1>4 DEF DecoderAdmission
  <2>2. Evictable(s.items) \subseteq 1..Len(s.items)
    BY <1>1 DEF Evictable, Jobs
  <2>3. Min(Evictable(s.items)) \in DOMAIN s.items
    BY <1>1, <2>1, <2>2, MinExists
  <2>4. MakeRoom(s, u) = RemoveAt(s.items, Min(Evictable(s.items)))
    BY <1>4 DEF MakeRoom
  <2> QED  BY <1>1, <2>3, <2>4, JobRemoved
<1> QED  BY <1>2, <1>3, <1>4

LEMMA PublishOneWay ==
    ASSUME Types, IsStream(source), NEW s, NEW i, NEW old, NEW new \in Nat, NEW u \in Units,
           Calm(s), OneWay(s, i, old, new), MayEnter(s, u, old, new), u # i,
           s.emitted = u, DecoderAdmission(s, u) = "Ready"
    PROVE  LET r == PublishTimelineAccessUnit(s, u)
           IN  /\ OneWay(r, i, old, new)
               /\ \/ Publishes(s, r, u)
                  \/ /\ Passes(s, r)
                     /\ \/ r.phase = AwaitingRefresh \/ ~IsReference(u)
                        \/ config # None /\ Epoch(u) # config
<1> DEFINE r == PublishTimelineAccessUnit(s, u)
           pressed == EnterDecoderRecovery(s, "DecoderQueuePressure", TRUE)
           room == MakeRoom(s, u)
           items == Append(room, Job(u, conn))
           phase == IF Kind(u) = "key" /\ s.phase.state # "Healthy"
                    THEN RefreshInFlight(u) ELSE s.phase
           t == [s EXCEPT !.items = items, !.phase = phase,
                          !.fed = IF IsReference(u) THEN u ELSE @,
                          !.given = @ \cup {u}]
<1>1. CASE config # None /\ Epoch(u) # config
  BY <1>1, PassesItself DEF PublishTimelineAccessUnit
<1>2. CASE s.stopped /\ ~(config # None /\ Epoch(u) # config)
  <2>1. r = IF IsReference(u) THEN pressed ELSE s
    BY <1>2 DEF PublishTimelineAccessUnit
  <2>2. OneWay(pressed, i, old, new) /\ Passes(s, pressed) /\ pressed.phase = AwaitingRefresh
    BY RecoverOneWay
  <2> HIDE DEF pressed, r
  <2> QED  BY <2>1, <2>2, PassesItself DEF r
<1>3. CASE ~s.stopped /\ ~(config # None /\ Epoch(u) # config)
  <2>1. r = t
    BY <1>3 DEF PublishTimelineAccessUnit, Calm, IsMedia
  <2>2. room \in Seq(AnyJob) /\ NoNewJob(s.items, room)
    BY <1>3, RoomMade, MakeRoomType DEF Calm
  <2>3. Job(u, conn) \in AnyJob /\ Job(u, conn).unit = u
    BY DEF Job, AnyJob, UnitOption, Types
  <2> HIDE DEF room
  <2>4. \A k \in DOMAIN items : items[k] = Job(u, conn) \/ (k \in DOMAIN room /\ items[k] = room[k])
    <3>1. /\ Len(items) = Len(room) + 1 /\ Len(room) \in Nat /\ DOMAIN room = 1..Len(room)
          /\ items[Len(room) + 1] = Job(u, conn) /\ \A k \in 1..Len(room) : items[k] = room[k]
          /\ items \in Seq(AnyJob)
      BY <2>2, <2>3, AppendProperties, LenProperties
    <3> HIDE DEF items
    <3>2. DOMAIN items = 1..(Len(room) + 1)
      BY <3>1, LenProperties
    <3>3. \A k \in 1..(Len(room) + 1) : k = Len(room) + 1 \/ k \in 1..Len(room)
      BY <3>1
    <3> QED  BY <3>1, <3>2, <3>3
  <2> HIDE DEF items
  <2>5. phase = s.phase \/ phase = RefreshInFlight(u)
    OBVIOUS
  <2> HIDE DEF phase
  <2>6. /\ t.items = items /\ t.phase = phase /\ t.given = s.given \cup {u}
        /\ t.map = s.map /\ t.jitter = s.jitter /\ t.emitted = s.emitted
    BY DEF Calm, IsMedia
  <2> HIDE DEF t
  <2>7. Publishes(s, t, u)
    BY <2>2, <2>3, <2>4, <2>6 DEF Publishes, NoNewJob
  <2>8. InOrder(t)
    <3>1. \A k \in Units : t.phase = RefreshInFlight(k) => k <= t.emitted
      <4>1. u \in Nat
        BY NoneIsNoUnit
      <4>2. \A k \in Units : RefreshInFlight(u) = RefreshInFlight(k) => k = u
        BY DEF RefreshInFlight
      <4> QED  BY <2>5, <2>6, <4>1, <4>2 DEF OneWay, InOrder
    <3>2. u \notin Range(s.jitter)
      BY DEF MayEnter, Held
    <3> QED  BY <2>6, <3>1, <3>2 DEF OneWay, InOrder
  <2>9. Held(t) = Held(s) \cup {u}
    BY <2>6 DEF Held
  <2>10. OneWay(t, i, old, new)
    BY <2>6, <2>8, <2>9 DEF OneWay, MayEnter
  <2> QED  BY <2>1, <2>7, <2>10
<1> QED  BY <1>1, <1>2, <1>3

LEMMA TornDownOneWay ==
    ASSUME Types, IsStream(source), NEW s, NEW i, NEW old, NEW new \in Nat,
           Calm(s), OneWay(s, i, old, new)
    PROVE  OneWay(TornDown(s), None, new, new) /\ NoNewJob(s.items, TornDown(s).items)
<1> DEFINE d == ResetDecoder(s)
           r == [d EXCEPT !.map = EmptyMap, !.jitter = <<>>, !.emitted = None, !.phase = Healthy]
<1>1. Calm(d) /\ d.given = s.given /\ d.items \in {s.items, <<ResetItem>>}
  BY ResetCalm, ResetFields DEF Calm
<1> HIDE DEF d
<1>2. /\ r.map = EmptyMap /\ r.jitter = <<>> /\ r.emitted = None /\ r.phase = Healthy
      /\ r.given = s.given /\ r.items = d.items
  BY <1>1 DEF Calm, IsMedia
<1>3. TornDown(s) = r
  BY DEF TornDown, d
<1> HIDE DEF r
<1>4. Shape(source, EmptyMap) /\ EmptyMap.highest = 0
  BY EmptyShape DEF EmptyMap, None
<1>5. InOrder(r)
  <2>1. \A k \in Units : Healthy # RefreshInFlight(k)
    BY DEF Healthy, RefreshInFlight
  <2> QED  BY <1>2, <2>1, NothingInRange DEF InOrder, OneWay, UnitOption
<1>6. Held(r) = s.given
  BY <1>2, NothingInRange DEF Held
<1>7. None \notin s.given
  BY NoneIsNoUnit DEF OneWay, InOrder
<1>8. \A u \in s.given : u <= new /\ Decided(r.map, new, u)
  BY DEF OneWay, Held, Decided
<1>9. OneWay(r, None, new, new)
  BY <1>2, <1>4, <1>5, <1>6, <1>7, <1>8 DEF OneWay, UnitOption
<1> QED  BY <1>1, <1>2, <1>3, <1>9, SameJobs

(* What a step leaves alone but for the decoder's own state.                *)
LEMMA Unmoved ==
    ASSUME IsStream(source), NEW s, NEW r, NEW i, NEW old, NEW new, OneWay(s, i, old, new),
           r.map = s.map, r.given = s.given, r.jitter = s.jitter, r.emitted = s.emitted,
           NoNewJob(s.items, r.items),
           r.phase = s.phase \/ (r.phase = Healthy /\ s.phase # AwaitingRefresh)
    PROVE  OneWay(r, i, old, new) /\ Passes(s, r)
<1>1. OneWay(r, i, old, new)
  BY Aside
<1>2. \A v \in Range(s.jitter) : v \in Range(r.jitter)
  OBVIOUS
<1>3. CASE s.phase = AwaitingRefresh
  <2>1. r.phase = AwaitingRefresh
    BY <1>3
  <2> QED  BY <1>1, <2>1 DEF Passes
<1>4. CASE s.phase # AwaitingRefresh
  BY <1>1, <1>2, <1>4 DEF Passes
<1> QED  BY <1>3, <1>4
-----------------------------------------------------------------------------
(* Datagrams name units of the source and fragments of a unit.              *)

LEMMA LeastIsThere ==
    ASSUME NEW S, S \subseteq Nat, S # {}
    PROVE  Min(S) \in S
<1>1. PICK d \in S : TRUE
  OBVIOUS
<1> DEFINE T == {x \in S : x <= d}
<1>2. d \in Nat /\ T \subseteq Nat /\ T # {} /\ \A x \in T : x <= d
  <2>1. d \in Nat /\ d <= d
    BY <1>1
  <2>2. d \in T
    BY <1>1, <2>1
  <2> QED  BY <2>1, <2>2
<1> HIDE DEF T
<1>3. Min(T) \in T /\ \A y \in T : Min(T) <= y
  BY <1>2, MinIsLeast
<1> DEFINE l == Min(T)
<1> HIDE DEF l
<1>4. l \in S /\ l <= d /\ l \in Nat
  BY <1>2, <1>3 DEF T, l
<1>5. \A y \in S : l <= y
  <2> SUFFICES ASSUME NEW y \in S  PROVE l <= y
    OBVIOUS
  <2>1. CASE y <= d
    BY <1>3, <2>1 DEF T, l
  <2>2. CASE ~(y <= d)
    BY <1>2, <1>4, <2>2
  <2> QED  BY <2>1, <2>2
<1> QED  BY <1>4, <1>5 DEF Min

LEMMA PacketOfUnit ==
    ASSUME IsStream(source), Shape(source, media.map), NEW u \in Units
    PROVE  /\ Names(source, Packet(u, 1)) /\ IsPacket(source, Packet(u, NextFragment(u)))
           /\ Packet(u, NextFragment(u)).id = u /\ Packet(u, NextFragment(u)).epoch = Epoch(u)
           /\ Packet(u, 1).id = u /\ Packet(u, 1).epoch = Epoch(u)
<1> DEFINE S == IF u \in DOMAIN media.map.frames THEN Data \ media.map.frames[u].got ELSE Data
           f == NextFragment(u)
<1>1. Data # {} /\ Data \subseteq Nat /\ Data \subseteq Fragments
  BY GroupsAssumption DEF Data, Fragments
<1>2. u \in DOMAIN media.map.frames => ~(Data \subseteq media.map.frames[u].got)
  BY DEF Shape, FramesShape
<1>3. S # {} /\ S \subseteq Data
  BY <1>1, <1>2
<1>4. f = Min(S)
  BY DEF NextFragment
<1> HIDE DEF S, f
<1>5. f \in Fragments
  BY <1>1, <1>3, <1>4, LeastIsThere
<1>6. \A g : /\ Names(source, Packet(u, g)) /\ Packet(u, g).fragment = g
             /\ Packet(u, g).id = u /\ Packet(u, g).epoch = Epoch(u)
  BY DEF Names, Packet, Units, Epoch, Kind
<1> QED  BY <1>5, <1>6 DEF IsPacket, f
-----------------------------------------------------------------------------
(* Steps.                                                                   *)

(* One step of what LossStartsRecovery and DecodedOnce say of all steps.    *)
LossStep ==
    \A u \in Abandoned(media, media') :
        /\ IsReference(u) /\ ~Gives(u) /\ Epoch(u) = config
        /\ conn' = conn /\ config' = config /\ media'.map.epoch = media.map.epoch
        => media'.phase = AwaitingRefresh

JobStep ==
    \A u \in media.given : Positions(media'.items, u) # {} => Positions(media.items, u) # {}

GoesOn == PathInv' /\ LossStep /\ JobStep

LEMMA PathFacts ==
    ASSUME IInv, PathInv
    PROVE  /\ Types /\ Calm(media) /\ IsStream(source) /\ OneWay(media, idr, Over, newest)
           /\ base \in Nat /\ newest \in Nat /\ base <= newest /\ Over \in Nat
           /\ config \in Nat /\ waiting \in Nat /\ conn \in Nat
           /\ Range(media.jitter) \subseteq Units /\ media.given \subseteq Units
           /\ Shape(source, media.map) /\ media.map.highest <= newest /\ media.map.highest \in Nat
BY DEF IInv, PathInv, MediaShape, Calm, Over, Types, OneWay, InOrder, Shape, Fields, IsRecord

(* Said of the next source, which is the same.                              *)
LEMMA NextPath ==
    ASSUME source' = source, IsStream(source), base' \in Nat, newest' \in Nat, base' <= newest',
           OneWay(media', idr', IF conn' = 0 THEN newest' ELSE base', newest')
    PROVE  PathInv'
<1>1. OneWay(media, idr, Over, newest)'
  BY Zenon DEF OneWay, Over, InOrder, Held, Decided, Units, UnitOption, Epoch
<1> QED  BY <1>1 DEF PathInv

LEMMA NoNewJobs ==
    ASSUME IInv, PathInv, NoNewJob(media.items, media'.items)
    PROVE  JobStep
<1> SUFFICES ASSUME NEW u \in media.given, NEW k \in Positions(media'.items, u)
             PROVE  Positions(media.items, u) # {}
  BY DEF JobStep
<1>1. k \in DOMAIN media'.items /\ media'.items[k].unit = u
  BY DEF Positions
<1>2. u # None
  BY PathFacts, NoneIsNoUnit
<1>3. media'.items[k] # ResetItem
  BY <1>1, <1>2 DEF ResetItem
<1>4. PICK l \in DOMAIN media.items : media'.items[k] = media.items[l]
  BY <1>1, <1>3 DEF NoNewJob
<1> QED  BY <1>1, <1>4 DEF Positions

(* Where no reference unit leaves the jitter buffer, none leaves the path.  *)
LEMMA PassesLoss ==
    ASSUME Passes(media, media')
    PROVE  LossStep
<1> SUFFICES ASSUME NEW u \in Abandoned(media, media'), IsReference(u),
                    media'.phase # AwaitingRefresh
             PROVE  FALSE
  BY DEF LossStep
<1>1. /\ media'.map = media.map
      /\ \A v \in Range(media.jitter) : IsReference(v) => v \in Range(media'.jitter)
  BY DEF Passes
<1>2. u \in Present(media) /\ u \notin Present(media')
  BY DEF Abandoned
<1>3. u \in Range(media.jitter) \/ u \in Unresolved(media.map)
  BY <1>2 DEF Present
<1> QED  BY <1>1, <1>2, <1>3 DEF Present

LEMMA PassesStep ==
    ASSUME IInv, PathInv, source' = source, base' \in Nat, newest' \in Nat, base' <= newest',
           OneWay(media', idr', IF conn' = 0 THEN newest' ELSE base', newest'),
           Passes(media, media')
    PROVE  GoesOn
<1>1. PathInv'
  BY NextPath DEF PathInv
<1>2. NoNewJob(media.items, media'.items)
  BY DEF Passes
<1> QED  BY <1>1, <1>2, PassesLoss, NoNewJobs DEF GoesOn

(* Steps that leave the connection, the stream and the gate alone.          *)
LEMMA HereStep ==
    ASSUME IInv, PathInv, UNCHANGED link, UNCHANGED newest,
           OneWay(media', idr', Over, newest), Passes(media, media')
    PROVE  GoesOn
<1>1. source' = source /\ base' = base /\ newest' = newest /\ conn' = conn
  BY DEF link
<1>2. OneWay(media', idr', IF conn' = 0 THEN newest' ELSE base', newest')
  BY <1>1 DEF Over
<1> QED  BY <1>1, <1>2, PathFacts, PassesStep

LEMMA EndWay ==
    ASSUME IInv, PathInv, NEW s, Calm(s), OneWay(s, idr, Over, newest),
           NoNewJob(media.items, s.items), conn # 0, EndConnection(s)
    PROVE  GoesOn
<1>1. /\ source' = source /\ base' = base /\ newest' = newest /\ conn' = 0
      /\ idr' = None /\ media' = TornDown(s)
  BY DEF EndConnection
<1>2. OneWay(TornDown(s), None, newest, newest) /\ NoNewJob(s.items, TornDown(s).items)
  BY PathFacts, TornDownOneWay
<1>3. NoNewJob(media.items, media'.items)
  BY <1>1, <1>2 DEF NoNewJob
<1>4. LossStep
  BY <1>1 DEF LossStep
<1>5. PathInv'
  BY <1>1, <1>2, PathFacts, NextPath
<1> QED  BY <1>3, <1>4, <1>5, NoNewJobs DEF GoesOn

LEMMA TeardownWay ==
    ASSUME IInv, PathInv, conn # 0, Teardown
    PROVE  GoesOn
<1>1. EndConnection(media)
  BY DEF Teardown
<1> QED  BY <1>1, PathFacts, SameJobs, EndWay

LEMMA LoseDecoderWay ==
    ASSUME IInv, PathInv, NEW s, Calm(s), OneWay(s, idr, Over, newest), Passes(media, s),
           LoseDecoder(s)
    PROVE  GoesOn
<1>1. CASE conn # 0
  BY <1>1, EndWay DEF LoseDecoder, Passes
<1>2. CASE conn = 0
  <2>1. media' = s /\ idr' = idr /\ UNCHANGED link /\ UNCHANGED newest
    BY <1>2 DEF LoseDecoder, gate
  <2> QED  BY <2>1, HereStep
<1> QED  BY <1>1, <1>2

(* The gate's key frame enters the jitter buffer.                           *)
LEMMA ConfigureWay ==
    ASSUME IInv, PathInv, conn # 0, NEW epoch \in Nat \ {0}, Configure(epoch)
    PROVE  OneWay(media', idr', Over, newest) /\ Passes(media, media')
<1> DEFINE kept == IF waiting < epoch THEN None ELSE idr
           release == kept # None /\ Epoch(kept) = epoch
           reason == IF config = 0 THEN "InitialConfig" ELSE "EpochChanged"
           again == EnterDecoderRecovery(media, reason, config # 0)
           ready == IF epoch = config THEN media ELSE again
           queued == QueueAssembledAccessUnit(ready, kept)
<1>0. /\ Types /\ Calm(media) /\ IsStream(source) /\ OneWay(media, idr, Over, newest)
      /\ newest \in Nat /\ Over \in Nat
  BY PathFacts
<1>1. CASE epoch < config
  BY <1>0, <1>1, PassesItself DEF Configure
<1>2. CASE ~(epoch < config)
  <2>1. /\ idr' = IF release THEN None ELSE kept
        /\ media' = IF release THEN queued ELSE ready
    BY <1>2 DEF Configure
  <2>2. /\ OneWay(ready, idr, Over, newest) /\ Calm(ready) /\ Passes(media, ready)
        /\ Held(ready) \subseteq Held(media) /\ Proceeds(source, media.map, ready.map)
    <3>1. /\ OneWay(again, idr, Over, newest) /\ Calm(again) /\ Passes(media, again)
          /\ Held(again) \subseteq Held(media) /\ Proceeds(source, media.map, again.map)
      BY <1>0, RecoverOneWay
    <3>2. Proceeds(source, media.map, media.map) /\ Passes(media, media)
      BY <1>0, ProceedsItself, PassesItself DEF OneWay
    <3> HIDE DEF again
    <3> QED  BY <1>0, <3>1, <3>2
  <2> HIDE DEF ready
  <2>3. kept \in {idr, None}
    OBVIOUS
  <2>4. idr \in UnitOption
    BY <1>0 DEF OneWay
  <2> HIDE DEF kept
  <2>5. CASE ~release
    <3>1. OneWay(ready, kept, Over, newest)
      BY <1>0, <2>2, <2>3, Aside
    <3> QED  BY <2>1, <2>2, <2>5, <3>1
  <2>6. CASE release
    <3>1. kept = idr /\ kept \in Units /\ kept # None
      BY <2>3, <2>4, <2>6 DEF UnitOption
    <3>2. OneWay(ready, None, Over, newest)
      BY <1>0, <2>2, Aside
    <3>3. MayEnter(ready, kept, Over, newest)
      <4>1. kept \notin Held(media) /\ kept <= newest /\ Decided(media.map, Over, kept)
        BY <1>0, <3>1 DEF OneWay
      <4>2. Decided(ready.map, Over, kept)
        BY <1>0, <2>2, <3>1, <4>1, DecidedStays DEF OneWay
      <4> QED  BY <2>2, <3>1, <4>1, <4>2 DEF MayEnter
    <3>4. OneWay(queued, None, Over, newest) /\ Passes(ready, queued)
      BY <1>0, <2>2, <3>1, <3>2, <3>3, QueueOneWay
    <3> HIDE DEF queued
    <3>5. Passes(media, queued)
      BY <2>2, <3>4, PassesTrans
    <3> QED  BY <2>1, <2>6, <3>4, <3>5
  <2> QED  BY <2>5, <2>6
<1> QED  BY <1>1, <1>2

LEMMA HandleStreamConfigWay ==
    ASSUME IInv, PathInv, NEW epoch \in Epochs, HandleStreamConfig(epoch)
    PROVE  GoesOn
<1>1. epoch \in Nat \ {0} /\ conn # 0
  BY UnitsAreNumbers DEF IInv, Epochs, Epoch, HandleStreamConfig
<1>2. CASE UNCHANGED <<idr, media>> /\ UNCHANGED link /\ UNCHANGED newest
  BY <1>2, PathFacts, PassesItself, HereStep
<1>3. CASE Configure(epoch) /\ UNCHANGED link /\ UNCHANGED newest
  BY <1>1, <1>3, ConfigureWay, HereStep
<1>4. CASE Teardown
  BY <1>1, <1>4, TeardownWay
<1> QED  BY <1>2, <1>3, <1>4 DEF HandleStreamConfig

LEMMA LearnCapabilitiesWay ==
    ASSUME IInv, PathInv, LearnCapabilities
    PROVE  GoesOn
<1>0. deferred \in Nat
  BY DEF IInv, Types
<1>1. CASE UNCHANGED <<idr, media>> /\ UNCHANGED link /\ UNCHANGED newest
  BY <1>1, PathFacts, PassesItself, HereStep
<1>2. CASE conn # 0 /\ deferred # 0 /\ Configure(deferred) /\ UNCHANGED link /\ UNCHANGED newest
  BY <1>0, <1>2, ConfigureWay, HereStep
<1>3. CASE conn # 0 /\ EndConnection(media)
  BY <1>3, PathFacts, SameJobs, EndWay
<1>4. CASE LoseDecoder(media)
  BY <1>4, PathFacts, PassesItself, LoseDecoderWay
<1> QED  BY <1>1, <1>2, <1>3, <1>4 DEF LearnCapabilities, gate

LEMMA ConnectWay ==
    ASSUME IInv, PathInv, Connect
    PROVE  GoesOn
<1>1. /\ source' = source /\ base' = newest /\ newest' = newest /\ conn = 0
      /\ conn' # 0 /\ idr' = idr /\ media' = media
  <2>1. lastConn \in Nat
    BY DEF IInv, Types
  <2> QED  BY <2>1 DEF Connect, gate
<1>2. OneWay(media', idr', IF conn' = 0 THEN newest' ELSE base', newest')
  BY <1>1, PathFacts DEF Over
<1>3. newest \in Nat /\ newest <= newest
  BY PathFacts
<1> QED  BY <1>1, <1>2, <1>3, PassesItself, PassesStep
-----------------------------------------------------------------------------
(* Steps of the map.                                                        *)

LEMMA Later ==
    ASSUME IsStream(source), NEW s, NEW i, NEW old, NEW new \in Nat, NEW top \in Nat,
           OneWay(s, i, old, new), new <= top
    PROVE  OneWay(s, i, old, top)
<1>1. Shape(source, s.map) /\ s.map.highest <= new /\ s.map.highest \in Nat /\ InOrder(s)
  BY DEF OneWay, Shape, Fields, IsRecord
<1>2. Proceeds(source, s.map, s.map) /\ s.map.highest <= top
  BY <1>1, ProceedsItself
<1> QED  BY <1>1, <1>2, Onward DEF InOrder

LEMMA OpenEpoch ==
    ASSUME IsStream(source), NEW m, Shape(source, m), NEW v \in Unresolved(m)
    PROVE  v \in Units /\ Epoch(v) = m.epoch
<1>1. v \in DOMAIN source /\ v \in Nat /\ v <= m.highest /\ v # 0
  BY OpenIsUnit DEF IsStream
<1>2. m.highest \in Nat /\ m.highest # None
  BY <1>1 DEF Shape, Fields, IsRecord, None
<1>3. source[v].epoch = source[m.highest].epoch
  BY DEF Shape, FramesShape, GapsShape, Unresolved
<1> QED  BY <1>1, <1>2, <1>3 DEF Shape, Fields, Units, Epoch

LEMMA LossTaken ==
    ASSUME IsStream(source), NEW m, Shape(source, m)
    PROVE  LET n == TakeReferenceChainLoss(m)
           IN  /\ n.epoch = m.epoch /\ Unresolved(n) = Unresolved(m) /\ n.highest = m.highest
               /\ Proceeds(source, m, n)
<1> DEFINE n == TakeReferenceChainLoss(m)
<1>1. n.frames = m.frames /\ n.gaps = m.gaps /\ n.epoch = m.epoch
  BY DEF TakeReferenceChainLoss, Shape, Fields, IsRecord
<1>2. n.highest = m.highest /\ Proceeds(source, m, n)
  BY TakeLossFacts
<1> HIDE DEF n
<1> QED  BY <1>1, <1>2 DEF Unresolved, n

(* What left the map for s is told of, or has entered the jitter buffer.    *)
Told(s) ==
    \A v \in Unresolved(media.map) \ Unresolved(s.map) :
        /\ IsReference(v) /\ (v \in media.map.gaps => ~Closed(media.map, v))
        /\ s.map.epoch = media.map.epoch
        => media'.phase = AwaitingRefresh \/ v \in Range(media'.jitter)

LEMMA ToldLoss ==
    ASSUME NEW s, s.jitter = media.jitter, Passes(s, media'), Told(s)
    PROVE  LossStep
<1> SUFFICES ASSUME NEW u \in Abandoned(media, media'), IsReference(u),
                    media'.map.epoch = media.map.epoch, media'.phase # AwaitingRefresh
             PROVE  FALSE
  BY DEF LossStep
<1>1. /\ media'.map = s.map
      /\ \A v \in Range(media.jitter) : IsReference(v) => v \in Range(media'.jitter)
  BY DEF Passes
<1>2. /\ u \in Present(media) /\ u \notin Present(media')
      /\ u \in media.map.gaps => ~Closed(media.map, u)
  BY DEF Abandoned
<1>3. u \notin Range(media.jitter)
  BY <1>1, <1>2 DEF Present
<1>4. u \in Unresolved(media.map) \ Unresolved(s.map) /\ u \notin Range(media'.jitter)
  BY <1>1, <1>2, <1>3 DEF Present
<1> QED  BY <1>1, <1>2, <1>4 DEF Told

LEMMA FlightFacts ==
    ASSUME IInv, PathInv, NEW u \in Units, InFlight(u), newest' = Raise(newest, u),
           UNCHANGED link
    PROVE  /\ u \in Nat /\ Epoch(u) \in Nat /\ conn # 0 /\ ~(u <= Over) /\ InReach(media.map, u)
           /\ newest' \in Nat /\ newest <= newest' /\ u <= newest' /\ None <= newest'
           /\ source' = source /\ base' \in Nat /\ base' <= newest'
           /\ Over = IF conn' = 0 THEN newest' ELSE base'
<1>1. /\ u \in Nat /\ Epoch(u) \in Nat /\ newest \in Nat /\ base \in Nat /\ base <= newest
      /\ media.map.highest \in Nat /\ media.map.highest <= newest /\ Reach \in Nat
  BY PathFacts, UnitsAreNumbers, NoneIsNoUnit, Numbers
<1>2. newest' \in Nat /\ newest <= newest' /\ u <= newest'
  BY <1>1, RaiseFacts
<1>3. conn # 0 /\ u > base /\ u + Reach > newest
  BY DEF InFlight
<1>4. conn' = conn /\ base' = base /\ source' = source
  BY DEF link
<1> QED  BY <1>1, <1>2, <1>3, <1>4 DEF Over, InReach, None

LEMMA IngestWay ==
    ASSUME IInv, PathInv, NEW u \in Units, IngestVideoPacket(u)
    PROVE  GoesOn
<1> DEFINE p == Packet(u, NextFragment(u))
           opened == MustWait(u) /\ waiting # Epoch(u)
           result == Ingest(media.map, p)
           stored == [media EXCEPT !.map = result.map]
           keeps == result.unit # None /\ Kind(u) = "key"
           taken == TakeReferenceChainLoss(result.map)
           held == [stored EXCEPT !.map = taken]
           entered == QueueAssembledAccessUnit(stored, u)
           queued == IF result.unit # None THEN entered ELSE stored
           done == TakeLoss(queued)
<1>0. /\ InFlight(u) /\ newest' = Raise(newest, u) /\ UNCHANGED link /\ config' = config
  BY DEF IngestVideoPacket
<1>1. /\ Types /\ Calm(media) /\ IsStream(source) /\ OneWay(media, idr, Over, newest)
      /\ newest \in Nat /\ Over \in Nat /\ media.map.highest \in Nat /\ media.map.highest <= newest
      /\ Shape(source, media.map) /\ config \in Nat
  BY PathFacts
<1>2. /\ u \in Nat /\ Epoch(u) \in Nat /\ ~(u <= Over) /\ InReach(media.map, u)
      /\ newest' \in Nat /\ newest <= newest' /\ u <= newest' /\ None <= newest'
      /\ source' = source /\ base' \in Nat /\ base' <= newest'
      /\ Over = IF conn' = 0 THEN newest' ELSE base'
  BY <1>0, FlightFacts
<1>3. OneWay(media, idr, Over, newest')
  BY <1>1, <1>2, Later
<1>4. CASE Refused(u)
  <2>1. media' = media /\ idr' = idr
    BY <1>4 DEF IngestVideoPacket
  <2> QED  BY <1>2, <1>3, <2>1, PassesItself, PassesStep
<1>5. CASE ~Refused(u)
  <2>1. /\ idr' = IF MustWait(u) /\ keeps THEN u ELSE IF opened THEN None ELSE idr
        /\ media' = IF MustWait(u) THEN [stored EXCEPT !.map = TakeReferenceChainLoss(@)] ELSE done
    BY <1>5 DEF IngestVideoPacket
  <2>2. IsPacket(source, p) /\ p.id = u /\ p.epoch = Epoch(u)
    BY <1>1, PacketOfUnit
  <2> HIDE DEF p
  <2>3. /\ Proceeds(source, media.map, result.map)
        /\ result.map.epoch = media.map.epoch =>
              Reported(source, media.map, result.map, {result.unit})
        /\ HandsOn(media.map, p, result)
        /\ result.map.highest \in {media.map.highest, None, u}
        /\ result.map.epoch >= Epoch(u)
    BY <1>1, <2>2, IngestFacts
  <2> HIDE DEF result
  <2>4. result.map.highest <= newest'
    BY <1>1, <1>2, <2>3
  <2>5. /\ OneWay(stored, idr, Over, newest') /\ Calm(stored) /\ stored.map = result.map
        /\ stored.jitter = media.jitter /\ stored.phase = media.phase
        /\ stored.items = media.items /\ stored.given = media.given
    BY <1>1, <1>2, <1>3, <2>3, <2>4, MapOneWay
  <2>6. media' = IF MustWait(u) THEN held ELSE done
    <3>1. [stored EXCEPT !.map = TakeReferenceChainLoss(@)] = held
      BY <2>5 DEF Calm, IsMedia
    <3> HIDE DEF held
    <3> QED  BY <2>1, <3>1
  <2> HIDE DEF stored
  <2>7. Held(stored) = Held(media)
    BY <2>5 DEF Held
  <2>8. result.unit # None => /\ result.unit = u /\ MayEnter(stored, u, Over, newest') /\ u # idr
    <3> SUFFICES ASSUME result.unit # None
                 PROVE  result.unit = u /\ MayEnter(stored, u, Over, newest') /\ u # idr
      OBVIOUS
    <3>1. /\ result.unit = u /\ u \in result.map.terminal /\ result.map.epoch = Epoch(u)
          /\ Epoch(u) >= media.map.epoch /\ media.map.epoch \in Nat
          /\ Epoch(u) = media.map.epoch => ~Closed(media.map, u)
      BY <1>1, <2>2, <2>3 DEF HandsOn, Shape, Fields, IsRecord
    <3>2. ~Decided(media.map, Over, u)
      BY <1>2, <3>1 DEF Decided
    <3>3. u \notin Held(media) /\ u # idr
      <4>1. u # None
        BY <1>1, NoneIsNoUnit
      <4> QED  BY <1>1, <3>2, <4>1 DEF OneWay
    <3>4. Decided(stored.map, Over, u)
      BY <2>5, <3>1 DEF Decided, Closed
    <3> QED  BY <1>2, <2>7, <3>1, <3>3, <3>4 DEF MayEnter
  <2>9. CASE MustWait(u)
    <3>1. /\ taken.epoch = result.map.epoch /\ taken.highest = result.map.highest
          /\ Proceeds(source, result.map, taken)
      BY <1>1, <2>3, LossTaken DEF Proceeds
    <3> HIDE DEF taken
    <3>2. /\ OneWay(held, idr, Over, newest') /\ held.map = taken /\ held.jitter = stored.jitter
          /\ held.phase = stored.phase /\ held.items = stored.items /\ held.given = stored.given
      BY <1>1, <1>2, <2>4, <2>5, <3>1, MapOneWay
    <3> HIDE DEF held
    <3>3. media' = held
      BY <2>6, <2>9
    <3>4. OneWay(held, idr', Over, newest')
      <4>1. CASE keeps
        <5>1. idr' = u /\ MayEnter(stored, u, Over, newest')
          BY <2>1, <2>8, <2>9, <4>1
        <5>2. u \notin Held(held)
          BY <3>2, <5>1 DEF MayEnter, Held
        <5>3. u <= newest' /\ Decided(held.map, Over, u)
          <6>1. Shape(source, stored.map) /\ Decided(stored.map, Over, u)
            BY <2>5, <5>1 DEF OneWay, MayEnter
          <6> QED  BY <1>1, <1>2, <2>5, <3>1, <3>2, <6>1, DecidedStays
        <5> QED  BY <3>2, <5>1, <5>2, <5>3 DEF OneWay, UnitOption
      <4>2. CASE ~keeps
        <5>1. idr' \in {idr, None}
          BY <2>1, <4>2
        <5> QED  BY <1>1, <3>2, <5>1, Aside
      <4> QED  BY <4>1, <4>2
    <3>5. PathInv'
      BY <1>1, <1>2, <3>3, <3>4, NextPath
    <3>6. JobStep
      BY <2>5, <3>2, <3>3, SameJobs, NoNewJobs
    <3>7. LossStep
      <4> SUFFICES ASSUME NEW v \in Abandoned(media, media'), Epoch(v) = config,
                          media'.map.epoch = media.map.epoch
                   PROVE  FALSE
        BY DEF LossStep
      <4>1. v \in Unresolved(media.map)
        BY <2>5, <3>2, <3>3 DEF Abandoned, Present
      <4>2. Epoch(v) = media.map.epoch
        BY <1>1, <4>1, OpenEpoch
      <4>3. media'.map.epoch >= Epoch(u) /\ Epoch(u) > config
        BY <2>3, <2>9, <3>1, <3>2, <3>3 DEF MustWait
      <4> QED  BY <1>1, <1>2, <4>2, <4>3
    <3> QED  BY <3>5, <3>6, <3>7 DEF GoesOn
  <2>10. CASE ~MustWait(u)
    <3>1. /\ OneWay(queued, idr, Over, newest') /\ Passes(stored, queued) /\ Calm(queued)
          /\ result.unit # None =>
                queued.phase = AwaitingRefresh \/ ~IsReference(u) \/ u \in Range(queued.jitter)
      <4>1. CASE result.unit = None
        BY <2>5, <4>1, PassesItself
      <4>2. CASE result.unit # None
        <5>1. /\ OneWay(entered, idr, Over, newest') /\ Passes(stored, entered)
              /\ entered.phase = AwaitingRefresh \/ ~IsReference(u) \/ u \in Range(entered.jitter)
          BY <1>1, <1>2, <2>5, <2>8, <4>2, QueueOneWay
        <5>2. Calm(entered)
          BY <1>1, <2>5, QueueCalm
        <5> HIDE DEF entered
        <5> QED  BY <4>2, <5>1, <5>2
      <4> QED  BY <4>1, <4>2
    <3> HIDE DEF queued
    <3>2. /\ OneWay(done, idr, Over, newest') /\ Passes(queued, done)
          /\ queued.map.lost => done.phase = AwaitingRefresh
      BY <1>1, <1>2, <3>1, TakeLossOneWay
    <3> HIDE DEF done
    <3>3. media' = done /\ idr' = idr
      BY <2>1, <2>6, <2>10
    <3>4. Passes(stored, media')
      BY <3>1, <3>2, <3>3, PassesTrans
    <3>5. PathInv'
      BY <1>1, <1>2, <3>2, <3>3, NextPath
    <3>6. JobStep
      BY <2>5, <3>4, NoNewJobs DEF Passes
    <3>7. Told(stored)
      <4> SUFFICES ASSUME NEW v \in Unresolved(media.map) \ Unresolved(stored.map), IsReference(v),
                          v \in media.map.gaps => ~Closed(media.map, v),
                          stored.map.epoch = media.map.epoch, media'.phase # AwaitingRefresh
                   PROVE  v \in Range(media'.jitter)
        BY DEF Told
      <4>1. queued.phase # AwaitingRefresh /\ queued.map = stored.map
        BY <3>1, <3>2, <3>3 DEF Passes
      <4>2. ~result.map.lost
        BY <2>5, <3>2, <3>3, <4>1
      <4>3. v = result.unit
        BY <2>3, <2>5, <4>2 DEF Reported, IsReference, Kind
      <4>4. v # None
        BY <1>1, OpenEpoch, NoneIsNoUnit
      <4>5. u \in Range(queued.jitter) /\ v = u
        BY <2>8, <3>1, <4>1, <4>3, <4>4
      <4> QED  BY <3>2, <3>3, <4>5 DEF Passes
    <3>8. LossStep
      BY <2>5, <3>4, <3>7, ToldLoss
    <3> QED  BY <3>5, <3>6, <3>8 DEF GoesOn
  <2> QED  BY <2>9, <2>10
<1> QED  BY <1>4, <1>5

LEMMA DiscardStaleWay ==
    ASSUME IInv, PathInv, NEW u \in Units, DiscardStaleVideoBatch(u)
    PROVE  GoesOn
<1> DEFINE left == DiscardStaleAccessUnit(media.map, Packet(u, 1))
           taken == TakeReferenceChainLoss(left)
           stored == [media EXCEPT !.map = taken]
           late == EnterDecoderRecovery(stored, "ReferenceAccessUnitLate", TRUE)
<1>0. /\ InFlight(u) /\ newest' = Raise(newest, u) /\ UNCHANGED link /\ idr' = idr
      /\ media' = IF left.lost THEN late ELSE stored
  BY DEF DiscardStaleVideoBatch, gate
<1>1. /\ Types /\ Calm(media) /\ IsStream(source) /\ OneWay(media, idr, Over, newest)
      /\ newest \in Nat /\ Over \in Nat /\ media.map.highest \in Nat /\ media.map.highest <= newest
      /\ Shape(source, media.map)
  BY PathFacts
<1>2. /\ newest' \in Nat /\ newest <= newest' /\ None <= newest'
      /\ source' = source /\ base' \in Nat /\ base' <= newest'
      /\ Over = IF conn' = 0 THEN newest' ELSE base'
  BY <1>0, FlightFacts
<1>3. /\ Proceeds(source, media.map, left) /\ left.highest \in {media.map.highest, None}
      /\ left.epoch = media.map.epoch => Reported(source, media.map, left, {})
  BY <1>1, PacketOfUnit, DiscardFacts
<1> HIDE DEF left
<1>4. /\ taken.epoch = left.epoch /\ taken.highest = left.highest
      /\ Unresolved(taken) = Unresolved(left) /\ Proceeds(source, left, taken)
  BY <1>1, <1>3, LossTaken DEF Proceeds
<1> HIDE DEF taken
<1>5. Proceeds(source, media.map, taken) /\ taken.highest <= newest'
  BY <1>1, <1>2, <1>3, <1>4, ProceedsTrans
<1>6. /\ OneWay(stored, idr, Over, newest') /\ Calm(stored) /\ stored.map = taken
      /\ stored.jitter = media.jitter /\ stored.items = media.items /\ stored.given = media.given
  BY <1>1, <1>2, <1>5, MapOneWay
<1> HIDE DEF stored
<1>7. OneWay(late, idr, Over, newest') /\ Passes(stored, late) /\ late.phase = AwaitingRefresh
  <2>1. /\ Types /\ IsStream(source) /\ newest' \in Nat /\ TRUE \in BOOLEAN
        /\ Calm(stored) /\ OneWay(stored, idr, Over, newest')
    BY <1>1, <1>2, <1>6
  <2> QED  BY <2>1, RecoverOneWay
<1> HIDE DEF late
<1>8. Passes(stored, media') /\ OneWay(media', idr, Over, newest')
  BY <1>0, <1>6, <1>7, PassesItself
<1>9. Told(stored)
  <2> SUFFICES ASSUME NEW v \in Unresolved(media.map) \ Unresolved(stored.map), IsReference(v),
                      v \in media.map.gaps => ~Closed(media.map, v),
                      stored.map.epoch = media.map.epoch, media'.phase # AwaitingRefresh
               PROVE  FALSE
    BY DEF Told
  <2>1. ~left.lost
    BY <1>0, <1>7
  <2>2. v \in Unresolved(media.map) \ Unresolved(left) /\ left.epoch = media.map.epoch
    BY <1>4, <1>6
  <2> QED  BY <1>3, <2>1, <2>2 DEF Reported, IsReference, Kind
<1>10. LossStep
  BY <1>6, <1>8, <1>9, ToldLoss
<1>11. JobStep
  BY <1>6, <1>8, NoNewJobs DEF Passes
<1>12. PathInv'
  BY <1>0, <1>1, <1>2, <1>8, NextPath
<1> QED  BY <1>10, <1>11, <1>12 DEF GoesOn

LEMMA ExpireWay ==
    ASSUME IInv, PathInv, NEW u \in Units, ExpireReassembly(u)
    PROVE  GoesOn
<1> DEFINE left == ExpireThrough(media.map, u)
           stored == [media EXCEPT !.map = left]
           done == TakeLoss(stored)
<1>0. media' = done /\ u \in Unresolved(media.map) /\ UNCHANGED link /\ newest' = newest /\ idr' = idr
  BY DEF ExpireReassembly, gate
<1>1. /\ Types /\ Calm(media) /\ IsStream(source) /\ OneWay(media, idr, Over, newest)
      /\ newest \in Nat /\ Over \in Nat /\ media.map.highest <= newest
      /\ Shape(source, media.map) /\ base \in Nat /\ base <= newest
  BY PathFacts
<1>2. /\ Proceeds(source, media.map, left) /\ left.highest = media.map.highest
      /\ Reported(source, media.map, left, {})
  BY <1>0, <1>1, ExpireFacts
<1> HIDE DEF left
<1>3. /\ OneWay(stored, idr, Over, newest) /\ Calm(stored) /\ stored.map = left
      /\ stored.jitter = media.jitter /\ stored.items = media.items /\ stored.given = media.given
  <2>1. left.highest <= newest /\ newest <= newest
    BY <1>1, <1>2
  <2> QED  BY <1>1, <1>2, <2>1, MapOneWay
<1> HIDE DEF stored
<1>4. /\ OneWay(done, idr, Over, newest) /\ Passes(stored, done)
      /\ stored.map.lost => done.phase = AwaitingRefresh
  BY <1>1, <1>3, TakeLossOneWay
<1> HIDE DEF done
<1>5. Told(stored)
  <2> SUFFICES ASSUME NEW v \in Unresolved(media.map) \ Unresolved(stored.map), IsReference(v),
                      v \in media.map.gaps => ~Closed(media.map, v),
                      media'.phase # AwaitingRefresh
               PROVE  FALSE
    BY DEF Told
  <2>1. ~left.lost
    BY <1>0, <1>3, <1>4
  <2>2. v \in Unresolved(media.map) \ Unresolved(left)
    BY <1>3
  <2> QED  BY <1>2, <2>1, <2>2 DEF Reported, IsReference, Kind
<1>6. LossStep
  BY <1>0, <1>3, <1>4, <1>5, ToldLoss
<1>7. JobStep
  BY <1>0, <1>3, <1>4, NoNewJobs DEF Passes
<1>8. PathInv'
  BY <1>0, <1>1, <1>4, NextPath DEF link, Over
<1> QED  BY <1>6, <1>7, <1>8 DEF GoesOn
-----------------------------------------------------------------------------
(* Steps of the scheduler.                                                  *)

LEMMA DiscardExpiredWay ==
    ASSUME IInv, PathInv, NEW n \in 1..Len(media.jitter), DiscardExpired(n)
    PROVE  GoesOn
<1> DEFINE q == SubSeq(media.jitter, n + 1, Len(media.jitter))
           old == {media.jitter[i] : i \in 1..n}
           rest == [media EXCEPT !.jitter = q]
           late == EnterDecoderRecovery(rest, "ReferenceAccessUnitLate", TRUE)
<1>0. UNCHANGED link /\ newest' = newest /\ idr' = idr
  BY DEF DiscardExpired, gate
<1>1. /\ Types /\ Calm(media) /\ IsStream(source) /\ OneWay(media, idr, Over, newest)
      /\ newest \in Nat /\ Over \in Nat
  BY PathFacts
<1>2. /\ media.jitter \in Seq(Units) /\ IsInjective(media.jitter) /\ media.emitted \in UnitOption
      /\ \A v \in Range(media.jitter) : media.emitted < v
      /\ \A k \in Units : media.phase = RefreshInFlight(k) => k <= media.emitted
      /\ media.map.highest <= newest /\ Shape(source, media.map)
  BY <1>1, MediaFields DEF Calm, OneWay, InOrder
<1>3. /\ q \in Seq(Units) /\ IsInjective(q) /\ Range(q) \subseteq Range(media.jitter)
      /\ \A x \in Range(media.jitter) \ Range(q) : x \in old
  BY <1>2, UnitsCut
<1>4. /\ media' = IF \E u \in old : IsReference(u) THEN late ELSE rest
  <2>1. rest = [media EXCEPT !.jitter = SubSeq(@, n + 1, Len(@))]
    BY <1>1 DEF Calm, IsMedia
  <2> HIDE DEF rest
  <2> QED  BY <2>1 DEF DiscardExpired
<1> HIDE DEF q, old
<1>5. /\ Calm(rest) /\ rest.map = media.map /\ rest.jitter = q /\ rest.emitted = media.emitted
      /\ rest.phase = media.phase /\ rest.items = media.items /\ rest.given = media.given
  BY <1>1, <1>3 DEF Calm, IsMedia, EventsName
<1> HIDE DEF rest
<1>6. OneWay(rest, idr, Over, newest)
  <2>1. Proceeds(source, media.map, rest.map) /\ newest <= newest
    BY <1>1, <1>2, <1>5, ProceedsItself
  <2> QED  BY <1>1, <1>2, <1>3, <1>5, <2>1, Onward
<1>7. OneWay(late, idr, Over, newest) /\ Passes(rest, late) /\ late.phase = AwaitingRefresh
  BY <1>1, <1>5, <1>6, RecoverOneWay
<1> HIDE DEF late
<1>8. Passes(media, late)
  BY <1>5, <1>7 DEF Passes
<1>9. ASSUME \A u \in old : ~IsReference(u)  PROVE Passes(media, rest)
  <2>1. \A v \in Range(media.jitter) : IsReference(v) => v \in Range(rest.jitter)
    BY <1>3, <1>5, <1>9
  <2>2. NoNewJob(media.items, rest.items)
    BY <1>5, SameJobs
  <2> QED  BY <1>5, <2>1, <2>2 DEF Passes
<1> QED  BY <1>0, <1>4, <1>6, <1>7, <1>8, <1>9, HereStep

(* The scheduler drops no reference unit of the configured epoch but while  *)
(* a fresh start is awaited: what waits behind a candidate is newer.        *)
LEMMA DiscardReadyWay ==
    ASSUME IInv, PathInv, DiscardReadyFrame
    PROVE  GoesOn
<1> DEFINE u == Oldest(media)
           r == Pop(media, u)
<1>0. /\ UNCHANGED link /\ newest' = newest /\ idr' = idr /\ media' = r /\ media.jitter # <<>>
      /\ \/ RecoveryAdmission(media, u) = "Drop"
         \/ RecoveryAdmission(media, u) = "Ready" /\ DecoderAdmission(media, u) = "DropDiscardable"
  BY DEF DiscardReadyFrame, Due, gate
<1>1. /\ Types /\ Calm(media) /\ IsStream(source) /\ OneWay(media, idr, Over, newest)
      /\ newest \in Nat /\ Over \in Nat /\ base \in Nat /\ base <= newest
      /\ CandidateFor(media, conn, config)
  BY PathFacts DEF IInv, MediaShape
<1>2. /\ OneWay(r, idr, Over, newest) /\ u \in Range(media.jitter)
      /\ \A k \in Units : media.phase = RefreshInFlight(k) => k < u
      /\ r.map = media.map /\ r.phase = media.phase /\ r.items = media.items
      /\ r.given = media.given /\ Range(r.jitter) = Range(media.jitter) \ {u}
  BY <1>0, <1>1, PopOneWay
<1>3. u \in Units /\ Kind(u) \in Kinds /\ u \in Nat
  BY <1>2, PathFacts, UnitsAreNumbers, NoneIsNoUnit
<1> HIDE DEF u, r
<1>4. ASSUME IsReference(u), Epoch(u) = config, media.phase # AwaitingRefresh  PROVE FALSE
  <2>1. Kind(u) \in {"key", "ref"}
    BY <1>3, <1>4 DEF IsReference, Kinds
  <2>2. DecoderAdmission(media, u) # "DropDiscardable"
    BY <2>1 DEF DecoderAdmission
  <2>3. RecoveryAdmission(media, u) = "Drop"
    BY <1>0, <2>2
  <2>4. media.phase.state # "Healthy" /\ Kind(u) # "key"
    BY <2>3 DEF RecoveryAdmission
  <2>5. PICK k \in Units : media.phase = RefreshInFlight(k)
    <3>1. media.phase \in Phases
      BY <1>1, MediaFields DEF Calm
    <3> QED  BY <1>4, <2>4, <3>1 DEF Phases, Healthy
  <2>6. Epoch(k) = config /\ k < u /\ k \in Nat
    BY <1>1, <1>2, <2>5, NoneIsNoUnit DEF CandidateFor
  <2>7. media.phase.state = "RefreshInFlight" /\ media.phase.unit = k
    BY <2>5 DEF RefreshInFlight
  <2>8. u > media.phase.unit /\ Kind(u) = "ref" /\ Epoch(u) = Epoch(media.phase.unit)
    BY <1>3, <1>4, <2>1, <2>4, <2>6, <2>7
  <2>9. RecoveryAdmission(media, u) = "WaitForRefresh"
    BY <2>4, <2>7, <2>8 DEF RecoveryAdmission
  <2> QED  BY <2>3, <2>9
<1>5. LossStep
  <2> SUFFICES ASSUME NEW v \in Abandoned(media, media'), IsReference(v), Epoch(v) = config,
                      media'.phase # AwaitingRefresh
               PROVE  FALSE
    BY DEF LossStep
  <2>1. v = u
    BY <1>0, <1>2 DEF Abandoned, Present
  <2> QED  BY <1>0, <1>2, <1>4, <2>1
<1>6. JobStep
  BY <1>0, <1>2, SameJobs, NoNewJobs
<1>7. PathInv'
  BY <1>0, <1>1, <1>2, NextPath DEF link, Over
<1> QED  BY <1>5, <1>6, <1>7 DEF GoesOn

LEMMA DecodeReadyWay ==
    ASSUME IInv, PathInv, DecodeReadyFrame
    PROVE  GoesOn
<1> DEFINE u == Oldest(media)
           s == Pop(media, u)
           r == PublishTimelineAccessUnit(s, u)
<1>0. /\ UNCHANGED link /\ newest' = newest /\ idr' = idr /\ media' = r /\ media.jitter # <<>>
      /\ DecoderAdmission(media, u) = "Ready"
  BY DEF DecodeReadyFrame, Due, gate
<1>1. /\ Types /\ Calm(media) /\ IsStream(source) /\ OneWay(media, idr, Over, newest)
      /\ newest \in Nat /\ Over \in Nat /\ base \in Nat /\ base <= newest
  BY PathFacts
<1>2. /\ OneWay(s, idr, Over, newest) /\ Calm(s) /\ MayEnter(s, u, Over, newest) /\ u # idr
      /\ u \in Range(media.jitter) /\ u \notin media.given
      /\ s.emitted = u /\ s.map = media.map /\ s.phase = media.phase /\ s.items = media.items
      /\ s.given = media.given /\ s.stopped = media.stopped
      /\ Range(s.jitter) = Range(media.jitter) \ {u}
  BY <1>0, <1>1, PopOneWay
<1>3. u \in Units /\ Epoch(u) # 0
  <2>1. u \in Units
    BY <1>2, PathFacts
  <2> QED  BY <1>1, <2>1, UnitsAreNumbers
<1> HIDE DEF u, s
<1>4. DecoderAdmission(s, u) = "Ready"
  BY <1>0, <1>2 DEF DecoderAdmission
<1>5. /\ OneWay(r, idr, Over, newest)
      /\ \/ Publishes(s, r, u)
         \/ /\ Passes(s, r)
            /\ \/ r.phase = AwaitingRefresh \/ ~IsReference(u)
               \/ config # None /\ Epoch(u) # config
  BY <1>1, <1>2, <1>3, <1>4, PublishOneWay
<1> HIDE DEF r
<1>6. PathInv'
  BY <1>0, <1>1, <1>5, NextPath DEF link, Over
<1>7. CASE Publishes(s, r, u)
  <2>1. LossStep
    <3> SUFFICES ASSUME NEW v \in Abandoned(media, media'), ~Gives(v)
                 PROVE  FALSE
      BY DEF LossStep
    <3>1. v = u
      BY <1>0, <1>2, <1>7 DEF Abandoned, Present, Publishes
    <3> QED  BY <1>0, <1>2, <1>7, <3>1 DEF Gives, Publishes
  <2>2. JobStep
    <3> SUFFICES ASSUME NEW v \in media.given, NEW k \in Positions(media'.items, v)
                 PROVE  Positions(media.items, v) # {}
      BY DEF JobStep
    <3>1. k \in DOMAIN r.items /\ r.items[k].unit = v
      BY <1>0 DEF Positions
    <3>2. v # None /\ v # u
      BY <1>1, <1>2, PathFacts, NoneIsNoUnit
    <3>3. r.items[k] # ResetItem
      BY <3>1, <3>2 DEF ResetItem
    <3>4. PICK l \in DOMAIN media.items : r.items[k] = media.items[l]
      BY <1>2, <1>7, <3>1, <3>2, <3>3 DEF Publishes
    <3> QED  BY <3>1, <3>4 DEF Positions
  <2> QED  BY <1>6, <2>1, <2>2 DEF GoesOn
<1>8. CASE /\ Passes(s, r)
           /\ \/ r.phase = AwaitingRefresh \/ ~IsReference(u)
              \/ config # None /\ Epoch(u) # config
  <2>1. LossStep
    <3> SUFFICES ASSUME NEW v \in Abandoned(media, media'), IsReference(v), Epoch(v) = config,
                        media'.phase # AwaitingRefresh
                 PROVE  FALSE
      BY DEF LossStep
    <3>1. v = u
      BY <1>0, <1>2, <1>8 DEF Abandoned, Present, Passes
    <3> QED  BY <1>0, <1>8, <3>1
  <2>2. JobStep
    BY <1>0, <1>2, <1>8, NoNewJobs DEF Passes
  <2> QED  BY <1>6, <2>1, <2>2 DEF GoesOn
<1> QED  BY <1>5, <1>7, <1>8

LEMMA RequestKeyframeWay ==
    ASSUME IInv, PathInv, RequestKeyframe
    PROVE  GoesOn
<1>1. /\ media' = EnterDecoderRecovery(media, "ManualRepair", FALSE)
      /\ UNCHANGED link /\ newest' = newest /\ idr' = idr
  BY DEF RequestKeyframe, gate
<1>2. OneWay(media', idr, Over, newest) /\ Passes(media, media')
  BY <1>1, PathFacts, RecoverOneWay
<1> QED  BY <1>1, <1>2, HereStep
-----------------------------------------------------------------------------
(* Steps of the worker and its results: they leave the path alone.          *)

LEMMA TakeItemWay ==
    ASSUME IInv, PathInv, TakeItem
    PROVE  GoesOn
<1> DEFINE h == Head(media.items)
           busy == IF h.unit = None THEN media.busy ELSE h
           rest == Tail(media.items)
           r == [media EXCEPT !.items = rest, !.busy = busy]
<1>1. /\ media' = r /\ media.items # <<>>
      /\ UNCHANGED link /\ newest' = newest /\ idr' = idr
  BY DEF TakeItem, gate
<1>2. Calm(media) /\ IsStream(source) /\ OneWay(media, idr, Over, newest)
  BY PathFacts
<1>3. media.items \in Seq(AnyJob)
  BY <1>2, MediaFields DEF Calm
<1>4. NoNewJob(media.items, rest)
  <2>1. /\ Len(rest) = Len(media.items) - 1 /\ Len(media.items) \in Nat /\ rest \in Seq(AnyJob)
        /\ \A i \in 1..Len(rest) : rest[i] = media.items[i + 1]
    BY <1>1, <1>3, HeadTailProperties, LenProperties
  <2>2. DOMAIN rest = 1..Len(rest) /\ DOMAIN media.items = 1..Len(media.items)
    BY <1>3, <2>1, LenProperties
  <2>3. \A i \in DOMAIN rest : i + 1 \in DOMAIN media.items
    BY <2>1, <2>2
  <2> QED  BY <2>1, <2>2, <2>3 DEF NoNewJob
<1> HIDE DEF rest, busy
<1>5. /\ r.map = media.map /\ r.given = media.given /\ r.jitter = media.jitter
      /\ r.emitted = media.emitted /\ r.phase = media.phase /\ r.items = rest
  BY <1>2 DEF Calm, IsMedia
<1> HIDE DEF r
<1>6. NoNewJob(media.items, r.items)
  BY <1>4, <1>5
<1>7. OneWay(r, idr, Over, newest) /\ Passes(media, r)
  BY <1>2, <1>5, <1>6, Unmoved
<1> QED  BY <1>1, <1>7, HereStep

LEMMA FinishDecodeWay ==
    ASSUME IInv, PathInv, NEW result \in {"picture", "error", "refused"}, FinishDecode(result)
    PROVE  GoesOn
<1>1. UNCHANGED link /\ newest' = newest /\ idr' = idr
  BY DEF FinishDecode, gate
<1>2. Calm(media) /\ IsStream(source) /\ OneWay(media, idr, Over, newest)
  BY PathFacts
<1>3. /\ media'.map = media.map /\ media'.given = media.given /\ media'.jitter = media.jitter
      /\ media'.emitted = media.emitted /\ media'.phase = media.phase
      /\ media'.items = media.items
  BY <1>2 DEF FinishDecode, Calm, IsMedia
<1>4. NoNewJob(media.items, media'.items)
  BY <1>3, SameJobs
<1>5. OneWay(media', idr, Over, newest) /\ Passes(media, media')
  BY <1>2, <1>3, <1>4, Unmoved
<1> QED  BY <1>1, <1>5, HereStep

LEMMA WorkerFailsWay ==
    ASSUME IInv, PathInv, WorkerFails
    PROVE  GoesOn
<1>1. UNCHANGED link /\ newest' = newest /\ idr' = idr
  BY DEF WorkerFails, gate
<1>2. Calm(media) /\ IsStream(source) /\ OneWay(media, idr, Over, newest)
  BY PathFacts
<1>3. /\ media'.map = media.map /\ media'.given = media.given /\ media'.jitter = media.jitter
      /\ media'.emitted = media.emitted /\ media'.phase = media.phase
      /\ media'.items = <<>>
  BY <1>2 DEF WorkerFails, Calm, IsMedia
<1>4. NoNewJob(media.items, media'.items)
  BY <1>3 DEF NoNewJob
<1>5. OneWay(media', idr, Over, newest) /\ Passes(media, media')
  BY <1>2, <1>3, <1>4, Unmoved
<1> QED  BY <1>1, <1>5, HereStep

LEMMA DrainWay ==
    ASSUME IInv, PathInv, DrainDecoderEvent
    PROVE  GoesOn
<1> DEFINE e == Head(media.events)
           r == [media EXCEPT !.events = Tail(media.events)]
           handled == HandleDecoderResult(r, e)
           healthy == [r EXCEPT !.phase = Healthy]
           again == EnterDecoderRecovery(r, "DecoderError", TRUE)
           candidate == r.phase = RefreshInFlight(e.unit)
<1>0. /\ Types /\ MediaShape(media, conn, config) /\ media.events # <<>>
      /\ Calm(media) /\ IsStream(source) /\ OneWay(media, idr, Over, newest) /\ newest \in Nat
  BY PathFacts DEF IInv, DrainDecoderEvent
<1>1. Calm(r) /\ e \in AnyEvent
  BY <1>0, EventRead
<1>2. /\ r.map = media.map /\ r.given = media.given /\ r.jitter = media.jitter
      /\ r.emitted = media.emitted /\ r.phase = media.phase /\ r.items = media.items
  BY <1>0 DEF Calm, IsMedia
<1>3. \/ e.result = "unavailable" /\ LoseDecoder(r)
      \/ /\ UNCHANGED <<link, newest, gate>>
         /\ \/ media' = r \/ media' = again
            \/ candidate /\ media' = healthy
  BY DEF DrainDecoderEvent, HandleDecoderResult
<1>4. /\ healthy.map = r.map /\ healthy.given = r.given /\ healthy.jitter = r.jitter
      /\ healthy.emitted = r.emitted /\ healthy.items = r.items /\ healthy.phase = Healthy
  BY <1>1 DEF Calm, IsMedia
<1>5. candidate => r.phase # AwaitingRefresh
  BY DEF RefreshInFlight, AwaitingRefresh
<1> HIDE DEF e, r, handled, healthy, candidate
<1>6. OneWay(r, idr, Over, newest) /\ Passes(media, r)
  <2>1. NoNewJob(media.items, r.items)
    BY <1>2, SameJobs
  <2> QED  BY <1>0, <1>2, <2>1, Unmoved
<1>7. CASE LoseDecoder(r)
  BY <1>1, <1>6, <1>7, LoseDecoderWay
<1>8. CASE UNCHANGED <<link, newest, gate>> /\ media' = r
  BY <1>6, <1>8, HereStep DEF gate
<1>9. CASE UNCHANGED <<link, newest, gate>> /\ media' = again
  <2>1. OneWay(again, idr, Over, newest) /\ Passes(r, again)
    BY <1>0, <1>1, <1>6, RecoverOneWay
  <2> HIDE DEF again
  <2>2. Passes(media, again)
    BY <1>6, <2>1, PassesTrans
  <2> QED  BY <1>9, <2>1, <2>2, HereStep DEF gate
<1>10. CASE UNCHANGED <<link, newest, gate>> /\ candidate /\ media' = healthy
  <2>1. NoNewJob(r.items, healthy.items)
    BY <1>4, SameJobs
  <2>2. OneWay(healthy, idr, Over, newest) /\ Passes(r, healthy)
    BY <1>0, <1>4, <1>5, <1>6, <1>10, <2>1, Unmoved
  <2>3. Passes(media, healthy)
    BY <1>6, <2>2, PassesTrans
  <2> QED  BY <1>10, <2>2, <2>3, HereStep DEF gate
<1> QED  BY <1>3, <1>7, <1>8, <1>9, <1>10
-----------------------------------------------------------------------------
LEMMA InitPathInv == Init => PathInv
<1> SUFFICES ASSUME Init  PROVE PathInv
  OBVIOUS
<1>1. source \in Seq([epoch : Nat \ {0}, kind : Kinds])
      /\ \A u, v \in DOMAIN source : u < v => source[u].epoch <= source[v].epoch
  BY SourcesAssumption DEF Init
<1>2. IsStream(source)
  <2>1. /\ Len(source) \in Nat /\ DOMAIN source = 1..Len(source)
        /\ \A u \in 1..Len(source) : source[u] \in [epoch : Nat \ {0}, kind : Kinds]
    BY <1>1, ElementOfSeq, LenProperties
  <2>2. \A u, v \in DOMAIN source : u..v \subseteq DOMAIN source
    BY <2>1
  <2> QED  BY <1>1, <2>1, <2>2 DEF IsStream
<1>3. /\ media.map = EmptyMap /\ media.jitter = <<>> /\ media.given = {}
      /\ media.emitted = None /\ media.phase = Healthy
      /\ idr = None /\ conn = 0 /\ base = 0 /\ newest = 0 /\ None = 0
  BY DEF Init, EmptyMedia, None
<1>4. Shape(source, media.map) /\ media.map.highest = 0
  BY <1>2, <1>3, EmptyShape DEF EmptyMap
<1>5. InOrder(media) /\ Held(media) = {}
  <2>1. \A k \in Units : Healthy # RefreshInFlight(k)
    BY DEF Healthy, RefreshInFlight
  <2> QED  BY <1>3, <2>1, NothingInRange DEF InOrder, Held, UnitOption
<1>6. OneWay(media, idr, Over, newest)
  BY <1>3, <1>4, <1>5 DEF OneWay, UnitOption
<1> QED  BY <1>2, <1>3, <1>6 DEF PathInv

LEMMA NextGoesOn ==
    ASSUME IInv, PathInv, [Next]_vars
    PROVE  GoesOn
<1>1. CASE Owner
  BY <1>1, LearnCapabilitiesWay, TeardownWay, ExpireWay, DiscardExpiredWay,
     DiscardReadyWay, DecodeReadyWay, DrainWay DEF Owner, AbortForDecoder
<1>2. CASE Worker
  BY <1>2, TakeItemWay, FinishDecodeWay, WorkerFailsWay DEF Worker
<1>3. CASE Environment
  BY <1>3, ConnectWay, TeardownWay, RequestKeyframeWay, HandleStreamConfigWay,
     IngestWay, DiscardStaleWay DEF Environment, Disconnect
<1>4. CASE UNCHANGED vars
  <2>1. UNCHANGED link /\ newest' = newest /\ idr' = idr /\ media' = media
    BY <1>4 DEF vars, link
  <2> QED  BY <2>1, PathFacts, PassesItself, HereStep
<1> QED  BY <1>1, <1>2, <1>3, <1>4 DEF Next

(* What the two theorems below rest on: along the receive path a unit moves *)
(* one way only, from the map to the jitter buffer to the decoder, and no   *)
(* datagram that can still arrive brings it back (picoo-packet lib.rs,      *)
(* media_ingress.rs, media.rs).                                             *)
THEOREM PathInvariant == Spec => []PathInv
<1>1. IInv /\ PathInv /\ [Next]_vars => PathInv'
  BY NextGoesOn DEF GoesOn
<1> QED  BY <1>1, InitPathInv, Invariant, PTL DEF Spec

(* No access unit is handed to the decoder twice: not when its datagrams    *)
(* come again, not after a recovery threw away the work of the decoder, not *)
(* when the gate releases the key frame it kept (media_ingress.rs,          *)
(* media.rs, recovery.rs).                                                  *)
THEOREM EachUnitIsDecodedOnce == Spec => DecodedOnce
<1>1. IInv /\ PathInv /\ [Next]_vars
        => [\A u \in media.given :
               Positions(media'.items, u) # {} => Positions(media.items, u) # {}]_vars
  BY NextGoesOn DEF GoesOn, JobStep
<1> QED  BY <1>1, Invariant, PathInvariant, PTL DEF Spec, DecodedOnce

(* A reference unit that leaves the receive path undecoded leaves the       *)
(* decoder awaiting a fresh start, wherever it was given up: in reassembly, *)
(* in the jitter buffer, at the decoder's queue, or because it came too     *)
(* late (media_ingress.rs, media.rs, mod.rs).                               *)
THEOREM LossesStartRecovery == Spec => LossStartsRecovery
<1>1. IInv /\ PathInv /\ [Next]_vars
        => [\A u \in Abandoned(media, media') :
               /\ IsReference(u) /\ ~Gives(u) /\ Epoch(u) = config
               /\ conn' = conn /\ config' = config /\ media'.map.epoch = media.map.epoch
               => media'.phase = AwaitingRefresh]_vars
  BY NextGoesOn DEF GoesOn, LossStep
<1> QED  BY <1>1, Invariant, PathInvariant, PTL DEF Spec, LossStartsRecovery
-----------------------------------------------------------------------------
(***************************************************************************)
(* The bounds the code keeps: the decoder's queue never holds more than    *)
(* MaxPending jobs, since room is made before a job is added, and the      *)
(* jitter buffer never more than MaxBuffered units.  Resets are not jobs,  *)
(* so what is counted are positions in a sequence that other positions     *)
(* move when one is removed.                                               *)
(***************************************************************************)
FromConnections(q) == \A i \in DOMAIN q : q[i].conn <= MaxConn

Fits(m) ==
    /\ Len(m.jitter) <= MaxBuffered
    /\ Cardinality(Jobs(m.items)) <= MaxPending
    /\ Len(m.events) <= MaxEvents
    /\ m.fed \in UnitOption
    /\ FromConnections(m.items) /\ FromConnections(m.events) /\ m.busy.conn <= MaxConn

Counters ==
    /\ conn <= lastConn /\ lastConn <= MaxConn
    /\ {base, newest, shown} \subseteq UnitOption
    /\ {announced, deferred, config, waiting} \subseteq Epochs \cup {0}

BoundsInv == Counters /\ Fits(media)

LEMMA JobsFinite ==
    ASSUME NEW q \in Seq(AnyJob)
    PROVE  /\ Len(q) \in Nat /\ DOMAIN q = 1..Len(q) /\ Jobs(q) \subseteq 1..Len(q)
           /\ IsFiniteSet(Jobs(q)) /\ Cardinality(Jobs(q)) \in Nat
<1>1. Len(q) \in Nat /\ DOMAIN q = 1..Len(q)
  BY LenProperties
<1>2. Jobs(q) \subseteq 1..Len(q)
  BY <1>1 DEF Jobs
<1> QED  BY <1>1, <1>2, PrefixIsFinite, FS_CardinalityType

LEMMA NoJobs ==
    /\ FromConnections(<<ResetItem>>) /\ Cardinality(Jobs(<<ResetItem>>)) = 0
    /\ FromConnections(<<>>) /\ Cardinality(Jobs(<<>>)) = 0
    /\ ResetItem.conn = 0 /\ ResetItem.unit = None /\ MaxConn \in Nat /\ MaxPending \in Nat \ {0}
<1>1. Jobs(<<ResetItem>>) = {} /\ Jobs(<<>>) = {}
  BY DEF Jobs, ResetItem
<1>2. Cardinality(Jobs(<<ResetItem>>)) = 0 /\ Cardinality(Jobs(<<>>)) = 0
  BY <1>1, FS_EmptySet
<1>3. MaxConn \in Nat /\ MaxPending \in Nat \ {0} /\ ResetItem.conn = 0 /\ ResetItem.unit = None
  BY BoundsAssumption DEF ResetItem
<1>4. FromConnections(<<ResetItem>>) /\ FromConnections(<<>>)
  BY <1>3 DEF FromConnections
<1> QED  BY <1>2, <1>3, <1>4

LEMMA JobAdded ==
    ASSUME NEW q \in Seq(AnyJob), NEW j \in AnyJob
    PROVE  Cardinality(Jobs(Append(q, j))) <= Cardinality(Jobs(q)) + 1
<1> DEFINE r == Append(q, j)
           S == Jobs(q) \cup {Len(q) + 1}
<1>1. /\ r \in Seq(AnyJob) /\ Len(r) = Len(q) + 1
      /\ \A k \in 1..Len(q) : r[k] = q[k]
  BY AppendProperties
<1>2. IsFiniteSet(S) /\ Cardinality(S) <= Cardinality(Jobs(q)) + 1 /\ Cardinality(Jobs(q)) \in Nat
  <2>1. IsFiniteSet(Jobs(q)) /\ Cardinality(Jobs(q)) \in Nat
    BY JobsFinite
  <2>2. /\ IsFiniteSet(S)
        /\ Cardinality(S) = IF Len(q) + 1 \in Jobs(q) THEN Cardinality(Jobs(q))
                            ELSE Cardinality(Jobs(q)) + 1
    BY <2>1, FS_AddElement, Zenon
  <2> QED  BY <2>1, <2>2
<1> HIDE DEF r
<1>3. Jobs(r) \subseteq S
  <2>1. DOMAIN r = 1..(Len(q) + 1) /\ Len(q) \in Nat /\ DOMAIN q = 1..Len(q)
    BY <1>1, JobsFinite
  <2> QED  BY <1>1, <2>1 DEF Jobs
<1>4. Cardinality(Jobs(r)) <= Cardinality(S) /\ Cardinality(Jobs(r)) \in Nat
      /\ Cardinality(S) \in Nat
  BY <1>1, <1>2, <1>3, FS_Subset, FS_CardinalityType
<1> HIDE DEF S
<1>5. Cardinality(Jobs(r)) <= Cardinality(Jobs(q)) + 1
  BY <1>2, <1>4
<1> QED  BY <1>5 DEF r

LEMMA JobGone ==
    ASSUME NEW q \in Seq(AnyJob), NEW i \in Jobs(q)
    PROVE  Cardinality(Jobs(RemoveAt(q, i))) <= Cardinality(Jobs(q)) - 1
<1> DEFINE r == RemoveAt(q, i)
           f == [k \in Jobs(r) |-> IF k < i THEN k ELSE k + 1]
<1>1. /\ Len(q) \in Nat /\ DOMAIN q = 1..Len(q) /\ i \in 1..Len(q)
      /\ IsFiniteSet(Jobs(q)) /\ Cardinality(Jobs(q)) \in Nat
  BY JobsFinite
<1>2. /\ r \in Seq(AnyJob) /\ Len(r) = Len(q) - 1
      /\ \A k \in 1..(Len(q) - 1) : r[k] = IF k < i THEN q[k] ELSE q[k + 1]
  <2>1. i \in DOMAIN q
    BY <1>1
  <2> QED  BY <2>1, Removal, Zenon
<1> HIDE DEF r
<1>3. Jobs(r) \subseteq 1..(Len(q) - 1)
  BY <1>2, JobsFinite
<1>4. \A k \in Jobs(r) : r[k].unit # None
  BY DEF Jobs
<1>5. ASSUME NEW k \in Jobs(r)  PROVE f[k] \in Jobs(q) \ {i}
  <2>1. k \in 1..(Len(q) - 1) /\ f[k] = IF k < i THEN k ELSE k + 1
    BY <1>3
  <2>2. f[k] \in 1..Len(q) /\ f[k] # i /\ r[k] = q[f[k]]
    BY <1>1, <1>2, <2>1
  <2> QED  BY <1>1, <1>4, <2>2 DEF Jobs
<1>6. \A k, l \in Jobs(r) : f[k] = f[l] => k = l
  BY <1>1, <1>3
<1>7. f \in Injection(Jobs(r), Jobs(q) \ {i})
  BY <1>5, <1>6 DEF Injection, IsInjective
<1>8. /\ IsFiniteSet(Jobs(q) \ {i})
      /\ Cardinality(Jobs(q) \ {i}) = Cardinality(Jobs(q)) - 1
  BY <1>1, FS_RemoveElement
<1> HIDE DEF f
<1>9. Cardinality(Jobs(r)) <= Cardinality(Jobs(q) \ {i})
  BY <1>7, <1>8, FS_Injection
<1> QED  BY <1>8, <1>9 DEF r

LEMMA JobsOfTail ==
    ASSUME NEW q \in Seq(AnyJob), q # <<>>
    PROVE  Cardinality(Jobs(Tail(q))) <= Cardinality(Jobs(q))
<1> DEFINE r == Tail(q)
           f == [k \in Jobs(r) |-> k + 1]
<1>1. /\ Len(q) \in Nat /\ DOMAIN q = 1..Len(q) /\ IsFiniteSet(Jobs(q))
  BY JobsFinite
<1>2. /\ r \in Seq(AnyJob) /\ Len(r) = Len(q) - 1
      /\ \A k \in 1..Len(r) : r[k] = q[k + 1]
  BY HeadTailProperties
<1> HIDE DEF r
<1>3. Jobs(r) \subseteq 1..Len(r) /\ Len(r) \in Nat
  BY <1>2, JobsFinite
<1>4. \A k \in Jobs(r) : r[k].unit # None
  BY DEF Jobs
<1>5. ASSUME NEW k \in Jobs(r)  PROVE f[k] \in Jobs(q)
  <2>1. f[k] = k + 1 /\ k + 1 \in 1..Len(q) /\ r[k] = q[k + 1]
    BY <1>1, <1>2, <1>3
  <2> QED  BY <1>1, <1>4, <2>1 DEF Jobs
<1>6. \A k, l \in Jobs(r) : f[k] = f[l] => k = l
  BY <1>3
<1>7. f \in Injection(Jobs(r), Jobs(q))
  BY <1>5, <1>6 DEF Injection, IsInjective
<1> HIDE DEF f
<1> QED  BY <1>1, <1>7, FS_Injection DEF r
-----------------------------------------------------------------------------
(* The functions of the media record keep the bounds.                       *)

(* What concerns the decoder's side is as it was.                           *)
LEMMA SameFits ==
    ASSUME NEW s, NEW r, Fits(s), Len(r.jitter) <= MaxBuffered, r.items = s.items,
           r.busy = s.busy, r.events = s.events, r.fed = s.fed
    PROVE  Fits(r)
BY DEF Fits

LEMMA ResetFits ==
    ASSUME NEW s, Calm(s), Fits(s)
    PROVE  Fits(ResetDecoder(s))
<1> DEFINE ev == [i \in DOMAIN s.events |-> Outdated(s.events[i])]
           r == [s EXCEPT !.items = <<ResetItem>>, !.fed = None,
                          !.busy = Outdated(s.busy), !.events = ev]
<1>1. CASE s.stopped
  BY <1>1 DEF ResetDecoder
<1>2. CASE ~s.stopped
  <2>1. ResetDecoder(s) = r
    BY <1>2 DEF ResetDecoder, Calm, IsMedia
  <2>2. s.events \in Seq(AnyEvent) /\ s.busy \in AnyJob
    BY MediaFields DEF Calm
  <2>3. Len(s.events) \in Nat /\ DOMAIN s.events = 1..Len(s.events)
        /\ \A i \in 1..Len(s.events) : s.events[i] \in AnyEvent
    BY <2>2, LenProperties, ElementOfSeq
  <2>4. Outdated(s.busy).conn = s.busy.conn
    BY <2>2 DEF Outdated, AnyJob
  <2>5. \A i \in 1..Len(s.events) : Outdated(s.events[i]).conn = s.events[i].conn
    BY <2>3 DEF Outdated, AnyEvent
  <2>6. Len(ev) = Len(s.events) /\ FromConnections(ev)
    <3>1. DOMAIN ev = 1..Len(s.events) /\ \A i \in DOMAIN ev : ev[i].conn = s.events[i].conn
      BY <2>3, <2>5
    <3>2. Len(ev) = Len(s.events)
      BY <2>3, <3>1
    <3> QED  BY <2>3, <3>1, <3>2 DEF Fits, FromConnections
  <2> HIDE DEF ev
  <2>7. /\ r.jitter = s.jitter /\ r.items = <<ResetItem>> /\ r.fed = None
        /\ r.busy = Outdated(s.busy) /\ r.events = ev
    BY DEF Calm, IsMedia
  <2> HIDE DEF r
  <2> QED  BY <2>1, <2>4, <2>6, <2>7, NoJobs DEF Fits, UnitOption
<1> QED  BY <1>1, <1>2

LEMMA RecoverFits ==
    ASSUME Types, NEW s, Calm(s), Fits(s), NEW reason, NEW reset \in BOOLEAN
    PROVE  Fits(EnterDecoderRecovery(s, reason, reset))
<1> DEFINE discards == s.phase # AwaitingRefresh \/ reason = "RandomAccessResync"
           emptied == [s EXCEPT !.map = TakeReferenceChainLoss(ClearPending(s.map)),
                                !.jitter = <<>>, !.emitted = None]
           cleaned == IF discards THEN emptied ELSE s
           ready == IF reset /\ (discards \/ reason = "DecoderError")
                    THEN ResetDecoder(cleaned) ELSE cleaned
           r == [ready EXCEPT !.phase = AwaitingRefresh]
<1>1. Fits(emptied) /\ Calm(emptied)
  <2>1. <<>> \in Seq(Units) /\ Len(<<>>) <= MaxBuffered
    BY BoundsAssumption
  <2>2. /\ emptied.jitter = <<>> /\ emptied.items = s.items /\ emptied.busy = s.busy
        /\ emptied.events = s.events /\ emptied.fed = s.fed /\ Calm(emptied)
    BY <2>1 DEF Calm, IsMedia, EventsName
  <2> HIDE DEF emptied
  <2> QED  BY <2>1, <2>2, SameFits
<1>2. EnterDecoderRecovery(s, reason, reset) = r
  BY DEF EnterDecoderRecovery, Calm, IsMedia
<1> HIDE DEF emptied
<1>3. Fits(cleaned) /\ Calm(cleaned)
  BY <1>1
<1> HIDE DEF cleaned
<1>4. Fits(ready) /\ Calm(ready)
  BY <1>3, ResetFits, ResetCalm
<1> HIDE DEF ready
<1>5. /\ r.jitter = ready.jitter /\ r.items = ready.items /\ r.busy = ready.busy
      /\ r.events = ready.events /\ r.fed = ready.fed
  BY <1>4 DEF Calm, IsMedia
<1> HIDE DEF r
<1> QED  BY <1>2, <1>4, <1>5, SameFits DEF Fits

LEMMA MapFits ==
    ASSUME NEW s, Calm(s), Fits(s), NEW n
    PROVE  LET r == [s EXCEPT !.map = n] IN Fits(r) /\ Calm(r)
<1> DEFINE r == [s EXCEPT !.map = n]
<1>1. /\ r.jitter = s.jitter /\ r.items = s.items /\ r.busy = s.busy
      /\ r.events = s.events /\ r.fed = s.fed /\ Calm(r)
  BY DEF Calm, IsMedia, EventsName
<1> HIDE DEF r
<1>2. Fits(r)
  BY <1>1, SameFits DEF Fits
<1> QED  BY <1>1, <1>2 DEF r

LEMMA TakeLossFits ==
    ASSUME Types, NEW s, Calm(s), Fits(s)
    PROVE  Fits(TakeLoss(s))
<1> DEFINE c == [s EXCEPT !.map = TakeReferenceChainLoss(s.map)]
           r == EnterDecoderRecovery(c, "ReferenceAccessUnitLost", TRUE)
<1>1. Fits(c) /\ Calm(c)
  BY MapFits
<1>2. TakeLoss(s) = IF s.map.lost THEN r ELSE s
  BY DEF TakeLoss, Calm, IsMedia
<1> HIDE DEF c
<1>3. Fits(r)
  BY <1>1, RecoverFits
<1> QED  BY <1>2, <1>3

LEMMA OneUnitLess ==
    ASSUME NEW q \in Seq(Units), NEW u \in Range(q)
    PROVE  Len(RemoveUnit(q, u)) = Len(q) - 1
<1> DEFINE i == CHOOSE i \in DOMAIN q : q[i] = u
<1>1. i \in DOMAIN q
  BY DEF Range
<1>2. RemoveUnit(q, u) = RemoveAt(q, i)
  BY DEF RemoveUnit
<1> HIDE DEF i
<1>3. Len(RemoveAt(q, i)) = Len(q) - 1
  BY <1>1, Removal, Zenon
<1> QED  BY <1>2, <1>3

LEMMA PushFits ==
    ASSUME Types, NEW s, Calm(s), Fits(s), NEW u \in Units
    PROVE  Fits(PushJitter(s, u))
<1> DEFINE all == Append(s.jitter, u)
           over == Overflow(all)
           q == IF over = None THEN all ELSE RemoveUnit(all, over)
           pushed == [s EXCEPT !.jitter = q]
           late == "ReferenceAccessUnitLate"
<1>1. all \in Seq(Units) /\ Len(all) = Len(s.jitter) + 1 /\ Len(s.jitter) \in Nat
      /\ Len(s.jitter) <= MaxBuffered /\ MaxBuffered \in Nat
  <2>1. s.jitter \in Seq(Units)
    BY MediaFields DEF Calm
  <2> QED  BY <2>1, AppendProperties, LenProperties, BoundsAssumption DEF Fits
<1> HIDE DEF all
<1>2. q \in Seq(Units) /\ Len(q) <= MaxBuffered
  <2>1. CASE over = None
    <3>1. Len(all) <= MaxBuffered
      <4>1. ASSUME ~(Len(all) <= MaxBuffered)  PROVE FALSE
        <5> DEFINE deltas == {v \in Range(all) : Kind(v) # "key"}
                   pick == IF deltas # {} THEN deltas ELSE Range(all)
        <5>1. Overflow(all) = Min(pick)
          BY <4>1 DEF Overflow
        <5>2. all # <<>>
          BY <1>1
        <5>3. Range(all) # {} /\ Range(all) \subseteq Units
          BY <1>1, <5>2, SomeInRange
        <5>4. pick \subseteq Range(all) /\ pick # {}
          BY <5>3
        <5> HIDE DEF pick
        <5>5. pick \subseteq Units
          BY <5>3, <5>4
        <5>6. Min(pick) \in Units
          BY <5>4, <5>5, MinOfUnits
        <5> QED  BY <2>1, <5>1, <5>6, UnitsAreNumbers DEF None
      <4> QED  BY <4>1
    <3> QED  BY <1>1, <2>1, <3>1
  <2>2. CASE over # None
    <3>1. over \in Range(all)
      BY <1>1, <2>2, OverflowIsHere
    <3> HIDE DEF over
    <3>2. RemoveUnit(all, over) \in Seq(Units)
      BY <1>1, <3>1, UnitRemoved
    <3>3. Len(RemoveUnit(all, over)) = Len(all) - 1
      BY <1>1, <3>1, OneUnitLess
    <3> QED  BY <1>1, <2>2, <3>2, <3>3
  <2> QED  BY <2>1, <2>2
<1> HIDE DEF q, over
<1>3. Fits(pushed) /\ Calm(pushed)
  <2>1. /\ pushed.jitter = q /\ pushed.items = s.items /\ pushed.busy = s.busy
        /\ pushed.events = s.events /\ pushed.fed = s.fed /\ Calm(pushed)
    BY <1>2 DEF Calm, IsMedia, EventsName
  <2> HIDE DEF pushed
  <2> QED  BY <1>2, <2>1, SameFits
<1>4. PushJitter(s, u) \in {s, pushed, EnterDecoderRecovery(s, late, TRUE),
                            EnterDecoderRecovery(pushed, late, TRUE)}
  BY DEF PushJitter, over, q, all
<1> HIDE DEF pushed
<1>5. /\ Fits(EnterDecoderRecovery(s, late, TRUE))
      /\ Fits(EnterDecoderRecovery(pushed, late, TRUE))
  BY <1>3, RecoverFits
<1> QED  BY <1>3, <1>4, <1>5

LEMMA QueueFits ==
    ASSUME Types, NEW s, Calm(s), Fits(s), NEW u \in Units
    PROVE  Fits(QueueAssembledAccessUnit(s, u))
<1> DEFINE r == EnterDecoderRecovery(s, "RandomAccessResync", TRUE)
<1>1. Fits(r) /\ Calm(r)
  BY RecoverFits, RecoverCalm
<1>2. QueueAssembledAccessUnit(s, u) \in {PushJitter(r, u), PushJitter(s, u)}
  BY DEF QueueAssembledAccessUnit
<1> HIDE DEF r
<1> QED  BY <1>1, <1>2, PushFits

(* Room for one job is made before it is added.                             *)
LEMMA RoomFits ==
    ASSUME Types, NEW s, Calm(s), Fits(s), NEW u \in Units, ~s.stopped,
           DecoderAdmission(s, u) = "Ready"
    PROVE  Cardinality(Jobs(MakeRoom(s, u))) < MaxPending
<1>1. s.items \in Seq(AnyJob)
  BY MediaFields DEF Calm
<1>2. /\ Cardinality(Jobs(s.items)) \in Nat /\ Cardinality(Jobs(s.items)) <= MaxPending
      /\ MaxPending \in Nat \ {0}
      /\ DOMAIN s.items = 1..Len(s.items) /\ Len(s.items) \in Nat
  BY <1>1, JobsFinite, NoJobs DEF Fits
<1>3. CASE Kind(u) = "key"
  <2>1. Jobs(MakeRoom(s, u)) = {}
    BY <1>3, NoJobs DEF MakeRoom, Jobs
  <2> QED  BY <1>2, <2>1, FS_EmptySet
<1>4. CASE Kind(u) # "key" /\ Cardinality(Jobs(s.items)) < MaxPending
  BY <1>4 DEF MakeRoom
<1>5. CASE Kind(u) # "key" /\ ~(Cardinality(Jobs(s.items)) < MaxPending)
  <2> DEFINE i == Min(Evictable(s.items))
  <2>1. Evictable(s.items) # {}
    BY <1>5 DEF DecoderAdmission
  <2>2. Evictable(s.items) \subseteq Jobs(s.items) /\ Jobs(s.items) \subseteq 1..Len(s.items)
    BY <1>1, JobsFinite DEF Evictable
  <2>3. i \in Evictable(s.items)
    BY <1>2, <2>1, <2>2, MinExists
  <2>4. MakeRoom(s, u) = RemoveAt(s.items, i)
    BY <1>5 DEF MakeRoom
  <2> HIDE DEF i
  <2>5. i \in Jobs(s.items)
    BY <2>2, <2>3
  <2>6. Cardinality(Jobs(RemoveAt(s.items, i))) <= Cardinality(Jobs(s.items)) - 1
    BY <1>1, <2>5, JobGone
  <2>7. Cardinality(Jobs(RemoveAt(s.items, i))) \in Nat
    <3>1. RemoveAt(s.items, i) \in Seq(AnyJob)
      BY <1>1, <1>2, <2>2, <2>5, Removal
    <3> QED  BY <3>1, JobsFinite
  <2> QED  BY <1>2, <2>4, <2>6, <2>7
<1> QED  BY <1>3, <1>4, <1>5

LEMMA PublishFits ==
    ASSUME Types, NEW s, Calm(s), Fits(s), NEW u \in Units, DecoderAdmission(s, u) = "Ready",
           conn <= MaxConn
    PROVE  Fits(PublishTimelineAccessUnit(s, u))
<1> DEFINE pressed == EnterDecoderRecovery(s, "DecoderQueuePressure", TRUE)
           room == MakeRoom(s, u)
           items == Append(room, Job(u, conn))
           phase == IF Kind(u) = "key" /\ s.phase.state # "Healthy"
                    THEN RefreshInFlight(u) ELSE s.phase
           fed == IF IsReference(u) THEN u ELSE s.fed
           r == [s EXCEPT !.items = items, !.phase = phase, !.fed = fed, !.given = @ \cup {u}]
<1>1. CASE s.stopped \/ (config # None /\ Epoch(u) # config)
  <2>1. Fits(pressed)
    BY RecoverFits
  <2>2. PublishTimelineAccessUnit(s, u) \in {s, pressed}
    BY <1>1 DEF PublishTimelineAccessUnit
  <2> HIDE DEF pressed
  <2> QED  BY <2>1, <2>2
<1>2. CASE ~(s.stopped \/ (config # None /\ Epoch(u) # config))
  <2>1. PublishTimelineAccessUnit(s, u) = r
    BY <1>2 DEF PublishTimelineAccessUnit, Calm, IsMedia
  <2>2. room \in Seq(AnyJob) /\ NoNewJob(s.items, room) /\ Cardinality(Jobs(room)) < MaxPending
    BY <1>2, MakeRoomType, RoomMade, RoomFits DEF Calm
  <2>3. Job(u, conn) \in AnyJob /\ Job(u, conn).conn <= MaxConn
    BY DEF Job, AnyJob, UnitOption, Types
  <2> HIDE DEF room
  <2>4. /\ items \in Seq(AnyJob) /\ Len(items) = Len(room) + 1 /\ Len(room) \in Nat
        /\ items[Len(room) + 1] = Job(u, conn) /\ \A k \in 1..Len(room) : items[k] = room[k]
    BY <2>2, <2>3, AppendProperties, LenProperties
  <2>5. Cardinality(Jobs(items)) <= MaxPending
    <3>1. Cardinality(Jobs(items)) <= Cardinality(Jobs(room)) + 1
      BY <2>2, <2>3, JobAdded
    <3>2. Cardinality(Jobs(items)) \in Nat /\ Cardinality(Jobs(room)) \in Nat /\ MaxPending \in Nat
      BY <2>2, <2>4, JobsFinite, NoJobs
    <3> QED  BY <2>2, <3>1, <3>2
  <2> HIDE DEF items
  <2>6. FromConnections(items)
    <3>1. DOMAIN items = 1..(Len(room) + 1) /\ DOMAIN room = 1..Len(room)
      BY <2>2, <2>4, JobsFinite
    <3>2. ASSUME NEW k \in 1..Len(room)  PROVE room[k].conn <= MaxConn
      BY <2>2, <3>1, NoJobs DEF NoNewJob, Fits, FromConnections
    <3> QED  BY <2>3, <2>4, <3>1, <3>2 DEF FromConnections
  <2>7. fed \in UnitOption
    BY DEF Fits, UnitOption
  <2> HIDE DEF phase, fed
  <2>8. /\ r.jitter = s.jitter /\ r.items = items /\ r.busy = s.busy /\ r.events = s.events
        /\ r.fed = fed
    BY DEF Calm, IsMedia
  <2> HIDE DEF r
  <2> QED  BY <2>1, <2>5, <2>6, <2>7, <2>8 DEF Fits
<1> QED  BY <1>1, <1>2

LEMMA TornDownFits ==
    ASSUME Types, NEW s, Calm(s), Fits(s)
    PROVE  Fits(TornDown(s))
<1> DEFINE d == ResetDecoder(s)
           r == [d EXCEPT !.map = EmptyMap, !.jitter = <<>>, !.emitted = None, !.phase = Healthy]
<1>1. Fits(d) /\ Calm(d)
  BY ResetFits, ResetCalm
<1>2. TornDown(s) = r
  BY DEF TornDown
<1> HIDE DEF d
<1>3. /\ r.jitter = <<>> /\ r.items = d.items /\ r.busy = d.busy /\ r.events = d.events
      /\ r.fed = d.fed
  BY <1>1 DEF Calm, IsMedia
<1>4. Len(<<>>) <= MaxBuffered
  BY BoundsAssumption
<1> HIDE DEF r
<1> QED  BY <1>1, <1>2, <1>3, <1>4, SameFits
-----------------------------------------------------------------------------
(* Steps.                                                                   *)

LEMMA NextBounds ==
    ASSUME source' = source, conn' <= lastConn', lastConn' <= MaxConn,
           {base', newest', shown'} \subseteq UnitOption,
           {announced', deferred', config', waiting'} \subseteq Epochs \cup {0}, Fits(media')
    PROVE  BoundsInv'
<1>1. UnitOption' = UnitOption /\ Epochs' = Epochs
  BY DEF UnitOption, Units, Epochs
<1>2. Fits(media)'
  BY <1>1 DEF Fits, FromConnections
<1> QED  BY <1>1, <1>2 DEF BoundsInv, Counters

(* The numbers stay.                                                        *)
LEMMA CountersStay ==
    ASSUME BoundsInv, UNCHANGED <<link, newest, announced, deferred, config, waiting, shown>>,
           Fits(media')
    PROVE  BoundsInv'
BY NextBounds DEF BoundsInv, Counters, link

LEMMA RaiseOption ==
    ASSUME NEW S, NEW a \in S, NEW b \in S
    PROVE  Raise(a, b) \in S
BY DEF Raise

LEMMA BoundsFacts ==
    ASSUME IInv, BoundsInv
    PROVE  /\ Types /\ Calm(media) /\ Fits(media) /\ conn \in Nat /\ lastConn \in Nat
           /\ conn <= lastConn /\ lastConn <= MaxConn /\ MaxConn \in Nat /\ conn <= MaxConn
           /\ {base, newest, shown} \subseteq UnitOption
           /\ {announced, deferred, config, waiting} \subseteq Epochs \cup {0}
           /\ media.jitter \in Seq(Units) /\ media.items \in Seq(AnyJob)
           /\ media.events \in Seq(AnyEvent) /\ Len(media.jitter) \in Nat
<1>1. Types /\ Calm(media)
  BY DEF IInv, MediaShape, Calm
<1>2. conn \in Nat /\ lastConn \in Nat /\ MaxConn \in Nat
  BY <1>1, NoJobs DEF Types
<1>3. /\ media.jitter \in Seq(Units) /\ media.items \in Seq(AnyJob)
      /\ media.events \in Seq(AnyEvent) /\ Len(media.jitter) \in Nat
  BY <1>1, MediaFields, LenProperties DEF Calm
<1> QED  BY <1>1, <1>2, <1>3 DEF BoundsInv, Counters

LEMMA EndBounds ==
    ASSUME IInv, BoundsInv, NEW s, Calm(s), Fits(s), EndConnection(s), UNCHANGED shown
    PROVE  BoundsInv'
<1>1. /\ source' = source /\ lastConn' = lastConn /\ base' = base /\ newest' = newest
      /\ conn' = 0 /\ announced' = 0 /\ deferred' = 0 /\ config' = 0 /\ waiting' = 0
      /\ media' = TornDown(s)
  BY DEF EndConnection
<1>2. Fits(media')
  BY <1>1, BoundsFacts, TornDownFits
<1> QED  BY <1>1, <1>2, BoundsFacts, NextBounds

LEMMA LoseDecoderBounds ==
    ASSUME IInv, BoundsInv, NEW s, Calm(s), Fits(s), LoseDecoder(s), UNCHANGED shown
    PROVE  BoundsInv'
<1>1. CASE conn # 0
  BY <1>1, EndBounds DEF LoseDecoder
<1>2. CASE conn = 0
  BY <1>2, CountersStay DEF LoseDecoder, gate
<1> QED  BY <1>1, <1>2

LEMMA ConfigureBounds ==
    ASSUME IInv, BoundsInv, NEW epoch \in Epochs, Configure(epoch)
    PROVE  Fits(media') /\ {config', waiting'} \subseteq Epochs \cup {0}
<1> DEFINE kept == IF waiting < epoch THEN None ELSE idr
           release == kept # None /\ Epoch(kept) = epoch
           reason == IF config = 0 THEN "InitialConfig" ELSE "EpochChanged"
           again == EnterDecoderRecovery(media, reason, config # 0)
           ready == IF epoch = config THEN media ELSE again
           queued == QueueAssembledAccessUnit(ready, kept)
<1>0. /\ Types /\ Calm(media) /\ Fits(media)
      /\ {announced, deferred, config, waiting} \subseteq Epochs \cup {0}
  BY BoundsFacts
<1>1. CASE epoch < config
  BY <1>0, <1>1 DEF Configure
<1>2. CASE ~(epoch < config)
  <2>1. /\ config' = epoch /\ waiting' = IF waiting <= epoch THEN 0 ELSE waiting
        /\ media' = IF release THEN queued ELSE ready
    BY <1>2 DEF Configure
  <2>2. Fits(again) /\ Calm(again)
    <3>1. (config # 0) \in BOOLEAN
      OBVIOUS
    <3> QED  BY <1>0, <3>1, RecoverFits, RecoverCalm
  <2> HIDE DEF again
  <2>3. Fits(ready) /\ Calm(ready)
    BY <1>0, <2>2
  <2> HIDE DEF ready
  <2>4. release => kept \in Units
    BY <1>0 DEF Types, UnitOption
  <2> HIDE DEF kept
  <2>5. release => Fits(queued)
    BY <1>0, <2>3, <2>4, QueueFits
  <2> HIDE DEF release, queued
  <2> QED  BY <1>0, <2>1, <2>3, <2>5
<1> QED  BY <1>1, <1>2

LEMMA HandleStreamConfigBounds ==
    ASSUME IInv, BoundsInv, NEW epoch \in Epochs, HandleStreamConfig(epoch)
    PROVE  BoundsInv'
<1>0. /\ source' = source /\ UNCHANGED shown
      /\ Raise(announced, epoch) \in Epochs \cup {0} /\ Raise(deferred, epoch) \in Epochs \cup {0}
  BY BoundsFacts, RaiseOption DEF HandleStreamConfig, link, Teardown, EndConnection
<1>1. CASE /\ announced' = Raise(announced, epoch) /\ deferred' = Raise(deferred, epoch)
           /\ UNCHANGED <<config, waiting, idr, media>>
           /\ UNCHANGED <<link, newest, readiness, shown>>
  BY <1>0, <1>1, BoundsFacts, NextBounds DEF link
<1>2. CASE /\ announced' = Raise(announced, epoch) /\ Configure(epoch)
           /\ UNCHANGED <<link, newest, readiness, deferred, shown>>
  <2>1. Fits(media') /\ {config', waiting'} \subseteq Epochs \cup {0}
    BY <1>2, ConfigureBounds
  <2> QED  BY <1>0, <1>2, <2>1, BoundsFacts, NextBounds DEF link
<1>3. CASE Teardown
  BY <1>3, BoundsFacts, EndBounds DEF Teardown
<1> QED  BY <1>1, <1>2, <1>3 DEF HandleStreamConfig

LEMMA LearnCapabilitiesBounds ==
    ASSUME IInv, BoundsInv, LearnCapabilities
    PROVE  BoundsInv'
<1>1. CASE UNCHANGED <<gate, media>> /\ UNCHANGED <<link, newest, announced, shown>>
  BY <1>1, BoundsFacts, CountersStay DEF gate
<1>2. CASE /\ deferred # 0 /\ deferred' = 0 /\ Configure(deferred)
           /\ UNCHANGED <<link, newest, announced, shown>>
  <2>1. deferred \in Epochs
    BY <1>2, BoundsFacts
  <2>2. Fits(media') /\ {config', waiting'} \subseteq Epochs \cup {0}
    BY <1>2, <2>1, ConfigureBounds
  <2> QED  BY <1>2, <2>2, BoundsFacts, NextBounds DEF link
<1>3. CASE EndConnection(media) /\ UNCHANGED shown
  BY <1>3, BoundsFacts, EndBounds
<1>4. CASE LoseDecoder(media) /\ UNCHANGED shown
  BY <1>4, BoundsFacts, LoseDecoderBounds
<1> QED  BY <1>1, <1>2, <1>3, <1>4 DEF LearnCapabilities

LEMMA TeardownBounds ==
    ASSUME IInv, BoundsInv, Teardown
    PROVE  BoundsInv'
BY BoundsFacts, EndBounds DEF Teardown

LEMMA ConnectBounds ==
    ASSUME IInv, BoundsInv, Connect
    PROVE  BoundsInv'
<1>1. /\ source' = source /\ conn' = lastConn + 1 /\ lastConn' = lastConn + 1 /\ base' = newest
      /\ lastConn < MaxConn
      /\ UNCHANGED <<newest, announced, deferred, config, waiting, media, shown>>
  BY DEF Connect, gate
<1>2. conn' <= lastConn' /\ lastConn' <= MaxConn
  BY <1>1, BoundsFacts
<1> QED  BY <1>1, <1>2, BoundsFacts, NextBounds

LEMMA IngestBounds ==
    ASSUME IInv, BoundsInv, NEW u \in Units, IngestVideoPacket(u)
    PROVE  BoundsInv'
<1> DEFINE opened == MustWait(u) /\ waiting # Epoch(u)
           result == Ingest(media.map, Packet(u, NextFragment(u)))
           stored == [media EXCEPT !.map = result.map]
           held == [stored EXCEPT !.map = TakeReferenceChainLoss(stored.map)]
           entered == QueueAssembledAccessUnit(stored, u)
           queued == IF result.unit # None THEN entered ELSE stored
           done == TakeLoss(queued)
<1>1. /\ source' = source /\ conn' = conn /\ lastConn' = lastConn /\ base' = base
      /\ newest' = Raise(newest, u) /\ shown' = shown
      /\ announced' = announced /\ deferred' = deferred /\ config' = config
  BY DEF IngestVideoPacket, link
<1>2. newest' \in UnitOption
  BY <1>1, BoundsFacts, RaiseOption DEF UnitOption
<1>3. CASE Refused(u)
  <2>1. waiting' = waiting /\ media' = media
    BY <1>3 DEF IngestVideoPacket
  <2> QED  BY <1>1, <1>2, <2>1, BoundsFacts, NextBounds
<1>4. CASE ~Refused(u)
  <2>1. /\ waiting' = IF opened THEN Epoch(u) ELSE waiting
        /\ media' = IF MustWait(u) THEN [stored EXCEPT !.map = TakeReferenceChainLoss(@)] ELSE done
    BY <1>4 DEF IngestVideoPacket
  <2>2. waiting' \in Epochs \cup {0}
    BY <2>1, BoundsFacts DEF Epochs, Epoch
  <2> HIDE DEF result, opened
  <2>3. Fits(stored) /\ Calm(stored)
    BY BoundsFacts, MapFits
  <2>4. [stored EXCEPT !.map = TakeReferenceChainLoss(@)] = held
    BY <2>3 DEF Calm, IsMedia
  <2> HIDE DEF stored
  <2>5. Fits(held)
    BY <2>3, MapFits
  <2> HIDE DEF held
  <2>6. Fits(queued) /\ Calm(queued)
    <3>1. Fits(entered) /\ Calm(entered)
      BY <2>3, BoundsFacts, QueueFits, QueueCalm
    <3> HIDE DEF entered
    <3> QED  BY <2>3, <3>1
  <2> HIDE DEF queued
  <2>7. Fits(done)
    BY <2>6, BoundsFacts, TakeLossFits
  <2> HIDE DEF done
  <2>8. Fits(media')
    BY <2>1, <2>4, <2>5, <2>7
  <2> QED  BY <1>1, <1>2, <2>2, <2>8, BoundsFacts, NextBounds
<1> QED  BY <1>3, <1>4

LEMMA DiscardStaleBounds ==
    ASSUME IInv, BoundsInv, NEW u \in Units, DiscardStaleVideoBatch(u)
    PROVE  BoundsInv'
<1> DEFINE left == DiscardStaleAccessUnit(media.map, Packet(u, 1))
           stored == [media EXCEPT !.map = TakeReferenceChainLoss(left)]
           late == EnterDecoderRecovery(stored, "ReferenceAccessUnitLate", TRUE)
<1>1. /\ source' = source /\ conn' = conn /\ lastConn' = lastConn /\ base' = base
      /\ newest' = Raise(newest, u) /\ shown' = shown
      /\ announced' = announced /\ deferred' = deferred /\ config' = config
      /\ waiting' = waiting /\ media' \in {late, stored}
  BY DEF DiscardStaleVideoBatch, link, gate
<1>2. newest' \in UnitOption
  BY <1>1, BoundsFacts, RaiseOption DEF UnitOption
<1>3. Fits(stored) /\ Calm(stored)
  BY BoundsFacts, MapFits
<1> HIDE DEF stored
<1>4. Fits(late)
  BY <1>3, BoundsFacts, RecoverFits
<1> HIDE DEF late
<1>5. Fits(media')
  BY <1>1, <1>3, <1>4
<1> QED  BY <1>1, <1>2, <1>5, BoundsFacts, NextBounds

LEMMA ExpireBounds ==
    ASSUME IInv, BoundsInv, NEW u \in Units, ExpireReassembly(u)
    PROVE  BoundsInv'
<1> DEFINE stored == [media EXCEPT !.map = ExpireThrough(media.map, u)]
<1>1. /\ UNCHANGED <<link, newest, announced, gate, shown>>
      /\ media' = TakeLoss([media EXCEPT !.map = ExpireThrough(@, u)])
  BY DEF ExpireReassembly
<1>2. [media EXCEPT !.map = ExpireThrough(@, u)] = stored
  BY BoundsFacts DEF Calm, IsMedia
<1>3. Fits(stored) /\ Calm(stored)
  BY BoundsFacts, MapFits
<1> HIDE DEF stored
<1>4. Fits(TakeLoss(stored))
  BY <1>3, BoundsFacts, TakeLossFits
<1> QED  BY <1>1, <1>2, <1>4, CountersStay DEF gate

LEMMA DiscardExpiredBounds ==
    ASSUME IInv, BoundsInv, NEW n \in 1..Len(media.jitter), DiscardExpired(n)
    PROVE  BoundsInv'
<1> DEFINE q == SubSeq(media.jitter, n + 1, Len(media.jitter))
           rest == [media EXCEPT !.jitter = q]
           late == EnterDecoderRecovery(rest, "ReferenceAccessUnitLate", TRUE)
<1>1. UNCHANGED <<link, newest, announced, gate, shown>>
  BY DEF DiscardExpired
<1>2. media.jitter \in Seq(Units) /\ Len(media.jitter) \in Nat /\ Len(media.jitter) <= MaxBuffered
      /\ MaxBuffered \in Nat /\ \A k \in 1..Len(media.jitter) : media.jitter[k] \in Units
  BY BoundsFacts, ElementOfSeq, BoundsAssumption DEF Fits
<1>3. q \in Seq(Units) /\ Len(q) <= MaxBuffered
  <2>1. \A k \in (n + 1)..Len(media.jitter) : media.jitter[k] \in Units
    BY <1>2
  <2>2. /\ q \in Seq(Units)
        /\ Len(q) = IF n + 1 <= Len(media.jitter) THEN Len(media.jitter) - (n + 1) + 1 ELSE 0
    BY <1>2, <2>1, SubSeqProperties
  <2> HIDE DEF q
  <2> QED  BY <1>2, <2>2
<1>4. rest = [media EXCEPT !.jitter = SubSeq(@, n + 1, Len(@))]
  BY BoundsFacts DEF Calm, IsMedia
<1> HIDE DEF q
<1>5. /\ rest.jitter = q /\ rest.items = media.items /\ rest.busy = media.busy
      /\ rest.events = media.events /\ rest.fed = media.fed /\ Calm(rest)
  BY <1>3, BoundsFacts DEF Calm, IsMedia, EventsName
<1> HIDE DEF rest
<1>6. media' \in {late, rest}
  BY <1>4 DEF DiscardExpired
<1>7. Fits(rest)
  BY <1>3, <1>5, BoundsFacts, SameFits
<1>8. Fits(late)
  BY <1>5, <1>7, BoundsFacts, RecoverFits
<1> HIDE DEF late
<1>9. Fits(media')
  BY <1>6, <1>7, <1>8
<1> QED  BY <1>1, <1>9, CountersStay DEF gate

LEMMA PopFits ==
    ASSUME IInv, BoundsInv, media.jitter # <<>>
    PROVE  LET s == Pop(media, Oldest(media))
           IN  Fits(s) /\ Calm(s) /\ Oldest(media) \in Units /\ s.stopped = media.stopped
                /\ s.items = media.items
<1> DEFINE u == Oldest(media)
           q == RemoveUnit(media.jitter, u)
           s == Pop(media, u)
<1>1. u \in Range(media.jitter) /\ u \in Units
  BY BoundsFacts, OldestIsHere
<1> HIDE DEF u
<1>2. q \in Seq(Units) /\ Len(q) = Len(media.jitter) - 1
  BY <1>1, BoundsFacts, UnitRemoved, OneUnitLess
<1>3. Len(q) <= MaxBuffered
  BY <1>2, BoundsFacts, BoundsAssumption DEF Fits
<1>4. s = [media EXCEPT !.jitter = q, !.emitted = u]
  BY BoundsFacts DEF Pop, Calm, IsMedia
<1> HIDE DEF q
<1>5. /\ s.jitter = q /\ s.items = media.items /\ s.busy = media.busy /\ s.stopped = media.stopped
      /\ s.events = media.events /\ s.fed = media.fed /\ Calm(s)
  BY <1>2, <1>4, BoundsFacts DEF Calm, IsMedia, EventsName
<1> HIDE DEF s
<1>6. Fits(s)
  BY <1>3, <1>5, BoundsFacts, SameFits
<1> QED  BY <1>1, <1>5, <1>6 DEF s, u

LEMMA DiscardReadyBounds ==
    ASSUME IInv, BoundsInv, DiscardReadyFrame
    PROVE  BoundsInv'
<1>1. /\ UNCHANGED <<link, newest, announced, gate, shown>> /\ media.jitter # <<>>
      /\ media' = Pop(media, Oldest(media))
  BY DEF DiscardReadyFrame, Due
<1>2. Fits(media')
  BY <1>1, PopFits
<1> QED  BY <1>1, <1>2, CountersStay DEF gate

LEMMA DecodeReadyBounds ==
    ASSUME IInv, BoundsInv, DecodeReadyFrame
    PROVE  BoundsInv'
<1> DEFINE u == Oldest(media)
           s == Pop(media, u)
<1>1. /\ UNCHANGED <<link, newest, announced, gate, shown>> /\ media.jitter # <<>>
      /\ media' = PublishTimelineAccessUnit(s, u) /\ DecoderAdmission(media, u) = "Ready"
  BY DEF DecodeReadyFrame, Due
<1>2. Fits(s) /\ Calm(s) /\ u \in Units /\ s.stopped = media.stopped /\ s.items = media.items
  BY <1>1, PopFits
<1> HIDE DEF s, u
<1>3. DecoderAdmission(s, u) = "Ready"
  BY <1>1, <1>2 DEF DecoderAdmission
<1>4. Fits(media')
  BY <1>1, <1>2, <1>3, BoundsFacts, PublishFits
<1> QED  BY <1>1, <1>4, CountersStay DEF gate

LEMMA RequestKeyframeBounds ==
    ASSUME IInv, BoundsInv, RequestKeyframe
    PROVE  BoundsInv'
<1>1. /\ UNCHANGED <<link, newest, announced, gate, shown>>
      /\ media' = EnterDecoderRecovery(media, "ManualRepair", FALSE)
  BY DEF RequestKeyframe
<1>2. Fits(media')
  BY <1>1, BoundsFacts, RecoverFits
<1> QED  BY <1>1, <1>2, CountersStay DEF gate

LEMMA TakeItemBounds ==
    ASSUME IInv, BoundsInv, TakeItem
    PROVE  BoundsInv'
<1> DEFINE h == Head(media.items)
           busy == IF h.unit = None THEN media.busy ELSE h
           rest == Tail(media.items)
           r == [media EXCEPT !.items = rest, !.busy = busy]
<1>1. /\ UNCHANGED <<link, newest, announced, gate, shown>> /\ media' = r /\ media.items # <<>>
  BY DEF TakeItem
<1>2. /\ media.items \in Seq(AnyJob) /\ FromConnections(media.items) /\ Calm(media) /\ Fits(media)
      /\ media.busy.conn <= MaxConn /\ Cardinality(Jobs(media.items)) <= MaxPending
  BY BoundsFacts DEF Fits
<1>3. /\ rest \in Seq(AnyJob) /\ Len(rest) = Len(media.items) - 1
      /\ \A k \in 1..Len(rest) : rest[k] = media.items[k + 1]
      /\ h = media.items[1]
  BY <1>1, <1>2, HeadTailProperties
<1>4. Cardinality(Jobs(rest)) <= MaxPending
  <2>1. Cardinality(Jobs(rest)) <= Cardinality(Jobs(media.items))
    BY <1>1, <1>2, JobsOfTail
  <2>2. Cardinality(Jobs(rest)) \in Nat /\ Cardinality(Jobs(media.items)) \in Nat /\ MaxPending \in Nat
    BY <1>2, <1>3, JobsFinite, NoJobs
  <2> QED  BY <1>2, <2>1, <2>2
<1> HIDE DEF rest
<1>5. /\ DOMAIN media.items = 1..Len(media.items) /\ Len(media.items) \in Nat
      /\ DOMAIN rest = 1..Len(rest) /\ 1 \in DOMAIN media.items
  <2>1. DOMAIN media.items = 1..Len(media.items) /\ Len(media.items) \in Nat
        /\ DOMAIN rest = 1..Len(rest) /\ Len(rest) \in Nat
    BY <1>2, <1>3, JobsFinite
  <2> QED  BY <1>3, <2>1
<1>6. FromConnections(rest) /\ busy.conn <= MaxConn
  <2>1. \A k \in DOMAIN rest : k + 1 \in DOMAIN media.items /\ rest[k] = media.items[k + 1]
    <3>1. \A n \in Nat : \A k \in 1..(n - 1) : k + 1 \in 1..n
      OBVIOUS
    <3>2. DOMAIN rest = 1..(Len(media.items) - 1)
      BY <1>3, <1>5
    <3>3. \A k \in DOMAIN rest : k + 1 \in DOMAIN media.items
      BY <1>5, <3>1, <3>2
    <3>4. \A k \in DOMAIN rest : rest[k] = media.items[k + 1]
      BY <1>3, <1>5
    <3> QED  BY <3>3, <3>4
  <2>2. FromConnections(rest)
    BY <1>2, <2>1 DEF FromConnections
  <2>3. h.conn <= MaxConn
    <3>1. \A k \in DOMAIN media.items : media.items[k].conn <= MaxConn
      BY <1>2 DEF FromConnections
    <3> QED  BY <1>3, <1>5, <3>1
  <2>4. busy.conn <= MaxConn
    <3>1. busy = media.busy \/ busy = h
      OBVIOUS
    <3> HIDE DEF busy, h
    <3> QED  BY <1>2, <2>3, <3>1
  <2> QED  BY <2>2, <2>4
<1> HIDE DEF busy
<1>7. /\ r.jitter = media.jitter /\ r.items = rest /\ r.busy = busy
      /\ r.events = media.events /\ r.fed = media.fed
  BY <1>2 DEF Calm, IsMedia
<1> HIDE DEF r
<1>8. Fits(r)
  BY <1>2, <1>4, <1>6, <1>7 DEF Fits
<1> QED  BY <1>1, <1>8, CountersStay DEF gate

(* One more event of a connection.                                          *)
LEMMA EventFits ==
    ASSUME NEW q \in Seq(AnyEvent), NEW e \in AnyEvent, FromConnections(q), e.conn <= MaxConn,
           Len(q) < MaxEvents
    PROVE  FromConnections(Append(q, e)) /\ Len(Append(q, e)) <= MaxEvents
<1> DEFINE r == Append(q, e)
<1>1. /\ r \in Seq(AnyEvent) /\ Len(r) = Len(q) + 1 /\ r[Len(q) + 1] = e
      /\ \A k \in 1..Len(q) : r[k] = q[k]
  BY AppendProperties
<1> HIDE DEF r
<1>2. DOMAIN r = 1..(Len(q) + 1) /\ DOMAIN q = 1..Len(q) /\ Len(q) \in Nat /\ MaxEvents \in Nat
  BY <1>1, LenProperties, BoundsAssumption
<1>3. FromConnections(r) /\ Len(r) <= MaxEvents
  BY <1>1, <1>2 DEF FromConnections
<1> QED  BY <1>3 DEF r

LEMMA FinishDecodeBounds ==
    ASSUME IInv, BoundsInv, NEW result \in {"picture", "error", "refused"}, FinishDecode(result)
    PROVE  BoundsInv'
<1> DEFINE e == [unit |-> media.busy.unit, conn |-> media.busy.conn,
                 current |-> media.busy.current, result |-> result]
           events == Append(media.events, e)
<1>1. /\ UNCHANGED <<link, newest, announced, gate, shown>> /\ Len(media.events) < MaxEvents
      /\ media' = [media EXCEPT !.busy = NoJob, !.events = events]
  BY DEF FinishDecode
<1>2. Calm(media) /\ Fits(media) /\ media.events \in Seq(AnyEvent) /\ media.busy \in AnyJob
  BY BoundsFacts, MediaFields DEF Calm
<1>3. e \in AnyEvent /\ e.conn <= MaxConn
  BY <1>2 DEF AnyJob, AnyEvent, Fits
<1> HIDE DEF e
<1>4. FromConnections(events) /\ Len(events) <= MaxEvents
  BY <1>1, <1>2, <1>3, EventFits DEF Fits
<1> HIDE DEF events
<1>5. /\ media'.jitter = media.jitter /\ media'.items = media.items /\ media'.busy = NoJob
      /\ media'.events = events /\ media'.fed = media.fed
  BY <1>1, <1>2 DEF Calm, IsMedia
<1>6. Fits(media')
  BY <1>2, <1>4, <1>5, NoJobs DEF Fits, NoJob
<1> QED  BY <1>1, <1>6, CountersStay DEF gate

LEMMA WorkerFailsBounds ==
    ASSUME IInv, BoundsInv, WorkerFails
    PROVE  BoundsInv'
<1> DEFINE e == [unit |-> None, conn |-> 0, current |-> TRUE, result |-> "unavailable"]
           events == Append(media.events, e)
<1>1. /\ UNCHANGED <<link, newest, announced, gate, shown>> /\ Len(media.events) < MaxEvents
      /\ media' = [media EXCEPT !.busy = NoJob, !.items = <<>>, !.stopped = TRUE,
                                !.events = events]
  BY DEF WorkerFails
<1>2. Calm(media) /\ Fits(media) /\ media.events \in Seq(AnyEvent)
  BY BoundsFacts
<1>3. e \in AnyEvent /\ e.conn <= MaxConn
  BY NoJobs DEF AnyEvent, UnitOption, None
<1> HIDE DEF e
<1>4. FromConnections(events) /\ Len(events) <= MaxEvents
  BY <1>1, <1>2, <1>3, EventFits DEF Fits
<1> HIDE DEF events
<1>5. /\ media'.jitter = media.jitter /\ media'.items = <<>> /\ media'.busy = NoJob
      /\ media'.events = events /\ media'.fed = media.fed
  BY <1>1, <1>2 DEF Calm, IsMedia
<1>6. Fits(media')
  BY <1>2, <1>4, <1>5, NoJobs DEF Fits, NoJob
<1> QED  BY <1>1, <1>6, CountersStay DEF gate

LEMMA DrainBounds ==
    ASSUME IInv, BoundsInv, DrainDecoderEvent
    PROVE  BoundsInv'
<1> DEFINE e == Head(media.events)
           tail == Tail(media.events)
           r == [media EXCEPT !.events = tail]
           healthy == [r EXCEPT !.phase = Healthy]
           again == EnterDecoderRecovery(r, "DecoderError", TRUE)
<1>0. /\ Types /\ MediaShape(media, conn, config) /\ media.events # <<>> /\ Calm(media)
      /\ Fits(media) /\ media.events \in Seq(AnyEvent)
      /\ {announced, deferred, config, waiting} \subseteq Epochs \cup {0}
  BY BoundsFacts DEF IInv, DrainDecoderEvent
<1>1. Calm(r) /\ e \in AnyEvent
  BY <1>0, EventRead
<1>2. /\ tail \in Seq(AnyEvent) /\ Len(tail) = Len(media.events) - 1
      /\ \A k \in 1..Len(tail) : tail[k] = media.events[k + 1]
  BY <1>0, HeadTailProperties
<1>3. \/ e.result = "unavailable" /\ LoseDecoder(r) /\ UNCHANGED shown
      \/ /\ e.result # "unavailable" /\ UNCHANGED <<link, newest, announced, gate>>
         /\ media' \in {r, again, healthy}
         /\ shown' = shown \/ (shown' = e.unit /\ TimelineIsCurrent(e))
  BY DEF DrainDecoderEvent, HandleDecoderResult, MayPublish
<1> HIDE DEF tail
<1>4. /\ r.jitter = media.jitter /\ r.items = media.items /\ r.busy = media.busy
      /\ r.events = tail /\ r.fed = media.fed
  BY <1>0 DEF Calm, IsMedia
<1>5. /\ healthy.jitter = r.jitter /\ healthy.items = r.items /\ healthy.busy = r.busy
      /\ healthy.events = r.events /\ healthy.fed = r.fed
  BY <1>1 DEF Calm, IsMedia
<1> HIDE DEF r, healthy, e
<1>6. FromConnections(tail) /\ Len(tail) <= MaxEvents
  <2>1. /\ DOMAIN tail = 1..Len(tail) /\ DOMAIN media.events = 1..Len(media.events)
        /\ Len(media.events) \in Nat /\ Len(tail) \in Nat
    BY <1>0, <1>2, LenProperties
  <2>2. \A k \in DOMAIN tail : k + 1 \in DOMAIN media.events /\ tail[k] = media.events[k + 1]
    BY <1>2, <2>1
  <2>3. Len(media.events) <= MaxEvents /\ MaxEvents \in Nat
    BY <1>0, BoundsAssumption DEF Fits
  <2>4. Len(tail) <= MaxEvents
    BY <1>2, <2>1, <2>3
  <2> QED  BY <1>0, <2>2, <2>4 DEF Fits, FromConnections
<1>7. Fits(r)
  BY <1>0, <1>4, <1>6 DEF Fits
<1>8. Fits(healthy)
  BY <1>5, <1>7, SameFits DEF Fits
<1>9. Fits(again)
  BY <1>0, <1>1, <1>7, RecoverFits
<1> HIDE DEF again
<1>10. CASE LoseDecoder(r) /\ UNCHANGED shown
  BY <1>1, <1>7, <1>10, LoseDecoderBounds
<1>11. CASE /\ UNCHANGED <<link, newest, announced, gate>> /\ media' \in {r, again, healthy}
            /\ shown' = shown \/ (shown' = e.unit /\ TimelineIsCurrent(e))
  <2>1. Fits(media')
    BY <1>7, <1>8, <1>9, <1>11
  <2>2. shown' \in UnitOption
    <3>1. e.unit \in UnitOption
      BY <1>1 DEF AnyEvent
    <3> QED  BY <1>11, <3>1, BoundsFacts
  <2> QED  BY <1>11, <2>1, <2>2, BoundsFacts, NextBounds DEF link, gate
<1> QED  BY <1>3, <1>10, <1>11

LEMMA InitBounds == Init => BoundsInv
<1> SUFFICES ASSUME Init  PROVE BoundsInv
  OBVIOUS
<1>1. Counters
  BY NoJobs DEF Init, Counters, UnitOption
<1>2. /\ media.jitter = <<>> /\ media.items = <<>> /\ media.busy = NoJob
      /\ media.events = <<>> /\ media.fed = None
  BY DEF Init, EmptyMedia
<1>3. Len(<<>>) <= MaxBuffered /\ Len(<<>>) <= MaxEvents
  BY BoundsAssumption
<1> QED  BY <1>1, <1>2, <1>3, NoJobs DEF BoundsInv, Fits, UnitOption, NoJob

LEMMA NextBoundsInv == IInv /\ BoundsInv /\ [Next]_vars => BoundsInv'
<1> SUFFICES ASSUME IInv, BoundsInv, [Next]_vars  PROVE BoundsInv'
  OBVIOUS
<1>1. CASE Owner
  BY <1>1, LearnCapabilitiesBounds, TeardownBounds, ExpireBounds, DiscardExpiredBounds,
     DiscardReadyBounds, DecodeReadyBounds, DrainBounds DEF Owner, AbortForDecoder
<1>2. CASE Worker
  BY <1>2, TakeItemBounds, FinishDecodeBounds, WorkerFailsBounds DEF Worker
<1>3. CASE Environment
  BY <1>3, ConnectBounds, TeardownBounds, RequestKeyframeBounds, HandleStreamConfigBounds,
     IngestBounds, DiscardStaleBounds DEF Environment, Disconnect
<1>4. CASE UNCHANGED vars
  <2>1. UNCHANGED <<link, newest, announced, deferred, config, waiting, shown>> /\ media' = media
    BY <1>4 DEF vars, link
  <2> QED  BY <2>1, BoundsFacts, CountersStay
<1> QED  BY <1>1, <1>2, <1>3, <1>4 DEF Next

(* The receive path keeps its types and the bounds of its queues: the work  *)
(* queue never holds more than MaxPending jobs (decoder_worker.rs), the     *)
(* jitter buffer never more than MaxBuffered units, each once (picoo-jitter *)
(* enforce_limits), whatever is lost, reset or reconnected.                 *)
THEOREM PathTypeCorrect == Spec => []TypeOK
<1>1. IInv /\ PathInv /\ BoundsInv => TypeOK
  <2> SUFFICES ASSUME IInv, PathInv, BoundsInv  PROVE TypeOK
    OBVIOUS
  <2>1. /\ conn \in 0..MaxConn /\ lastConn \in 0..MaxConn /\ conn <= lastConn
        /\ {base, newest, idr, shown} \subseteq Units \cup {None}
        /\ {announced, deferred, config, waiting} \subseteq Epochs \cup {0}
        /\ readiness \in {"Pending", "Ready", "Unavailable"}
    BY BoundsFacts DEF Types, UnitOption
  <2>2. DOMAIN media = DOMAIN EmptyMedia
    <3>1. DOMAIN media = {"map", "jitter", "emitted", "phase", "items", "busy", "events",
                          "stopped", "fed", "given"}
      BY BoundsFacts DEF Calm, IsMedia
    <3>2. DOMAIN EmptyMedia = {"map", "jitter", "emitted", "phase", "items", "busy", "events",
                               "stopped", "fed", "given"}
      BY DEF EmptyMedia
    <3> QED  BY <3>1, <3>2
  <2>3. IsMap(media.map, Units, Epochs)
    <3>1. Shape(source, media.map) /\ IsRecord(media.map) /\ IsStream(source)
      BY PathFacts DEF Shape, Fields
    <3>2. DOMAIN media.map = DOMAIN EmptyMap /\ media.map.lost \in BOOLEAN
      <4>1. /\ DOMAIN media.map = {"epoch", "expired", "highest", "gaps", "frames", "terminal", "lost"}
            /\ media.map.lost \in BOOLEAN
        BY <3>1 DEF IsRecord
      <4>2. DOMAIN EmptyMap = {"epoch", "expired", "highest", "gaps", "frames", "terminal", "lost"}
        BY DEF EmptyMap
      <4> QED  BY <4>1, <4>2
    <3>3. \A i \in DOMAIN media.map.frames :
              /\ i \in Units /\ media.map.frames[i].kind \in Kinds
              /\ media.map.frames[i].got \subseteq Fragments
      BY <3>1 DEF Shape, FramesShape, IsStream, Units
    <3>4. media.map.epoch \in Epochs \cup {0}
      BY <3>1 DEF Shape, Fields, EpochsOf, Epochs, Units
    <3> QED  BY <3>1, <3>2, <3>3, <3>4 DEF IsMap, Shape, Fields, GapsShape, TermShape, Units
  <2>4. /\ Range(media.jitter) \subseteq Units /\ IsInjective(media.jitter)
        /\ media.given \subseteq Units /\ media.emitted \in Units \cup {None}
    BY PathFacts DEF OneWay, InOrder, UnitOption
  <2>5. /\ Len(media.jitter) <= MaxBuffered /\ Cardinality(Jobs(media.items)) <= MaxPending
        /\ Len(media.events) <= MaxEvents /\ media.fed \in Units \cup {None}
        /\ media.stopped \in BOOLEAN
        /\ media.phase \in {Healthy, AwaitingRefresh} \cup {RefreshInFlight(u) : u \in Units}
    BY BoundsFacts, MediaFields DEF Fits, UnitOption, Calm, Phases
  <2>6. ASSUME NEW j \in AnyJob, j.conn <= MaxConn  PROVE j \in JobType
    <3>1. j.conn \in 0..MaxConn
      BY <2>6, NoJobs DEF AnyJob
    <3> QED  BY <3>1 DEF AnyJob, JobType, UnitOption
  <2>7. ASSUME NEW j \in AnyEvent, j.conn <= MaxConn  PROVE j \in EventType
    <3>1. j.conn \in 0..MaxConn
      BY <2>7, NoJobs DEF AnyEvent
    <3> QED  BY <3>1 DEF AnyEvent, EventType, UnitOption
  <2>8. Range(media.items) \subseteq JobType /\ media.busy \in JobType
    <3>1. media.busy \in AnyJob /\ media.busy.conn <= MaxConn
      BY BoundsFacts, MediaFields DEF Calm, Fits
    <3>2. \A k \in DOMAIN media.items : media.items[k] \in AnyJob /\ media.items[k].conn <= MaxConn
      BY BoundsFacts, JobsFinite, ElementOfSeq DEF Fits, FromConnections
    <3> QED  BY <2>6, <3>1, <3>2 DEF Range
  <2>9. Range(media.events) \subseteq EventType
    <3>1. DOMAIN media.events = 1..Len(media.events)
      BY BoundsFacts, LenProperties
    <3>2. \A k \in DOMAIN media.events : media.events[k] \in AnyEvent /\ media.events[k].conn <= MaxConn
      BY <3>1, BoundsFacts, ElementOfSeq DEF Fits, FromConnections
    <3> QED  BY <2>7, <3>2 DEF Range
  <2> QED  BY <2>1, <2>2, <2>3, <2>4, <2>5, <2>8, <2>9 DEF TypeOK
<1>2. Spec => []BoundsInv
  BY InitBounds, NextBoundsInv, Invariant, PTL DEF Spec
<1> QED  BY <1>1, <1>2, Invariant, PathInvariant, PTL
=============================================================================
