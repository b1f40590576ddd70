--------------------------- MODULE Recording_proofs ----------------------------
(***************************************************************************)
(* What a recording's result says is true, for every stream, every         *)
(* capacity of the queues and every plan of starts.                        *)
(*                                                                         *)
(* Encoded: the worker's state is set against what the queue accepted.  As *)
(* long as the worker lives and no gap is recorded, a unit that was taken  *)
(* from the queue is held in reordering, written, or skipped for want of   *)
(* an IDR in front of it (Account); what was written is a run of units     *)
(* without a hole that the open segment ends (Chain); and a gap lies       *)
(* before everything that was taken later.  The result is Complete only if *)
(* all of this still held when the last unit was drained.  And a unit that *)
(* never reached the queue is announced: the failure is set, or the        *)
(* session has it still to do before it lets go of the handle (Announced). *)
(*                                                                         *)
(* Rendered: until the subscription ends abnormally, a frame that is due   *)
(* was written or waits in the ordered queue (Due).                        *)
(***************************************************************************)
EXTENDS Recording, FiniteSetTheorems, SequenceTheorems, TLAPS

Busy == {"Arming", "Recording"}
States == Busy \cup Results
Bundles == [state : States, segments : BOOLEAN, gaps : BOOLEAN]

Events == Units \cup {Gap}
Failures == {"WorkerStopped", "Capacity", "ConfigurationUnavailable", "TooOld"}
Waits == [unit : Units, known : BOOLEAN]
Requests == {"sent", "failed", "forbidden"}
Steps == [op : {"offer"}, arg : Events] \cup [op : {"fail"}, arg : Failures]
         \cup [op : {"drop"}, arg : {None}] \cup [op : {"control"}, arg : Requests]
Ingresses ==
    [handle : BOOLEAN, held : BOOLEAN, failure : Failures \cup {None}, queue : Seq(Events),
     refresh : BOOLEAN, result : States \cup {None}, wait : Seq(Waits), todo : Seq(Steps),
     accepted : Seq(Events), missed : BOOLEAN]

Writers ==
    [pc : HoldsSlot \cup {"Freed", "Off"}, bundle : Bundles, active : Units \cup {0},
     want : BOOLEAN, pending : SUBSET Units, last : Units \cup {0}, source : Nat,
     written : SUBSET Units]

(* The queue is what it accepted and the worker has not taken.              *)
Taken(e) == Len(e.accepted) - Len(e.queue)
Synced(e) ==
    /\ Len(e.queue) <= Len(e.accepted)
    /\ \A k \in DOMAIN e.queue : e.queue[k] = e.accepted[Taken(e) + k]

(* Reordering holds units of the current source, all behind what left it.   *)
Ahead(w) == \A p \in w.pending : Epoch(p) = w.source /\ p > w.last
Behind(w) ==
    \A v \in w.written : Epoch(v) < w.source \/ (Epoch(v) = w.source /\ v <= w.last)

(* What was written of one epoch has no hole; the unit the open segment     *)
(* ends with is the newest; without one nothing of epoch E was written.     *)
Chain(w, E) ==
    /\ \A u, v \in w.written : Epoch(u) = Epoch(v) => u .. v \subseteq w.written
    /\ w.active = 0 => \A v \in w.written : Epoch(v) < E
    /\ w.active # 0 =>
          /\ w.active \in w.written
          /\ \A v \in w.written : \/ Epoch(v) < Epoch(w.active)
                                  \/ Epoch(v) = Epoch(w.active) /\ v <= w.active
    /\ w.bundle.state = "Arming" => w.written = {}

Sound(w) == Ahead(w) /\ Behind(w) /\ Chain(w, w.source)

(* A unit that left reordering before the first one written of its epoch.   *)
Passed(w, x) == Epoch(x) < w.source \/ (Epoch(x) = w.source /\ x <= w.last)
Skipped(w, x) == Passed(w, x) /\ \A v \in w.written : Epoch(v) = Epoch(x) => x < v

(* The first t events accepted, set against the worker's state.             *)
Account(o, t, w) ==
    /\ \A i \in 1 .. t : o[i] # Gap =>
          o[i] \in w.pending \cup w.written \/ Skipped(w, o[i])
    /\ \A i, j \in 1 .. t : o[i] = Gap /\ o[j] \in w.pending \cup w.written => i < j

Whole(o, written) ==
    /\ \A i \in DOMAIN o : o[i] # Gap =>
          \A v \in written : Epoch(v) = Epoch(o[i]) /\ v <= o[i] => o[i] \in written
    /\ \A u, v \in written : Epoch(u) = Epoch(v) => u .. v \subseteq written
    /\ \A i, j \in DOMAIN o : o[i] = Gap /\ o[j] # Gap /\ o[j] \in written => i < j

Intact(e, w) == Synced(e) /\ Sound(w) /\ Account(e.accepted, Taken(e), w)
Lives(w) == w.pc \in {"Create", "Run", "Receive"}

(* What a call of the session has still to do: events and failures, and at  *)
(* the end the drop of the handle or the look for a refresh.                *)
Plain(steps) == \A i \in DOMAIN steps : steps[i].op \in {"offer", "fail"}
Ordered(steps) == \A i \in DOMAIN steps : i < Len(steps) => steps[i].op \in {"offer", "fail"}
LetsGo(steps) == steps # <<>> /\ steps[Len(steps)].op = "drop"
Fails(steps) == \E i \in DOMAIN steps : steps[i].op = "fail"

Announced(e) == e.missed => e.failure # None \/ (e.held /\ Fails(e.todo))

EncodedShape(e, w) ==
    /\ e \in Ingresses /\ w \in Writers /\ Ordered(e.todo)
    /\ e.result # None => w.pc = "Off"
    /\ Lives(w) => w.bundle.state \in Busy /\ Announced(e)
    /\ Lives(w) /\ ~w.bundle.gaps => Intact(e, w)
    /\ (w.pc \in {"Done", "Freed"} /\ w.bundle.state = "Complete") \/ e.result = "Complete" =>
          ~e.held /\ Whole(e.accepted, w.written) /\ (e.missed => e.failure # None)

-----------------------------------------------------------------------------
Frames == [id : Nat \ {0}, kind : Kinds]
Ends == {NoEnd, "QueueFull", "Reset", "TooOld", "Cancelled"}
Buses == [attached : BOOLEAN, open : BOOLEAN, accepting : BOOLEAN, normal : BOOLEAN,
          end : Ends, queue : Seq(Frames), count : Nat]
Sessions == [handle : BOOLEAN, stop : BOOLEAN, result : States \cup {NoEnd}, due : SUBSET Nat]
Renderers == [pc : HoldsSlot \cup {"Freed", "Off"}, bundle : Bundles, active : BOOLEAN,
              first : BOOLEAN, wrote : SUBSET Nat]

Running(w) == w.pc \in {"Create", "Run", "Drain"}

(* A frame that is due was written or waits in the queue.                   *)
Due(b, r, w) ==
    \A f \in r.due : f \in w.wrote \/ \E k \in DOMAIN b.queue : b.queue[k].id = f /\ b.queue[k].kind # "skip"

RenderedShape(b, r, w) ==
    /\ b \in Buses /\ r \in Sessions /\ w \in Renderers
    /\ b.normal => b.end = NoEnd /\ b.queue = <<>> /\ ~b.accepting
    /\ w.pc \in {"Freed", "Off"} => ~b.accepting
    /\ r.result # NoEnd => w.pc = "Off"
    /\ Running(w) =>
          /\ w.bundle.state \in Busy /\ (w.bundle.state = "Arming" => ~w.bundle.segments)
          /\ b.end = NoEnd => Due(b, r, w)
          /\ b.end = NoEnd /\ ~r.stop => b.accepting /\ b.open
          /\ w.pc = "Drain" => r.stop
    /\ (w.pc \in {"Done", "Freed"} /\ w.bundle.state = "Complete") \/ r.result = "Complete" =>
          r.stop /\ r.due \subseteq w.wrote

(* Only a session with a StreamConfig in force holds a recording, or one    *)
(* that is about to let go of it.                                           *)
HeldIsConfigured == enc.held => stream.config # 0 \/ LetsGo(enc.todo)

IInv ==
    /\ stream \in [config : Nat, floor : Nat, decided : SUBSET Units] /\ HeldIsConfigured
    /\ EncodedShape(enc, encWorker) /\ RenderedShape(bus, ren, renWorker)

-----------------------------------------------------------------------------
(* Units, finite sets and folds.                                            *)

LEMMA UnitFacts ==
    /\ Units \subseteq Nat \ {0} /\ IsFiniteSet(Units) /\ Gap \notin Units /\ Gap = 0
    /\ \A u \in Units : Epoch(u) \in Nat \ {0} /\ Source[u].idr \in BOOLEAN
<1>1. Len(Source) \in Nat /\ DOMAIN Source = 1 .. Len(Source)
      /\ \A u \in 1 .. Len(Source) : Source[u] \in [epoch : Nat \ {0}, idr : BOOLEAN]
  <2> DEFINE T == [epoch : Nat \ {0}, idr : BOOLEAN]
  <2>1. Source \in Seq(T)
    BY SourceAssumption
  <2> HIDE DEF T
  <2>2. Len(Source) \in Nat /\ DOMAIN Source = 1 .. Len(Source) /\ \A u \in 1 .. Len(Source) : Source[u] \in T
    BY <2>1, LenProperties, ElementOfSeq
  <2> QED  BY <2>2 DEF T
<1>2. IsFiniteSet(1 .. Len(Source))
  BY <1>1, FS_Interval
<1> QED  BY <1>1, <1>2 DEF Units, Epoch, Gap

LEMMA NumberFacts ==
    /\ \A u \in Units : u \in Nat \ {0}
    /\ \A u \in Units \cup {0} : u \in Nat
BY UnitFacts

(* Induction over the subsets of a finite set.                              *)
LEMMA SubsetInduction ==
    ASSUME NEW S, IsFiniteSet(S), NEW Good,
           \A s \in SUBSET S : (\A t \in SUBSET s : t # s => t \in Good) => s \in Good
    PROVE  \A s \in SUBSET S : s \in Good
<1> DEFINE Bad == {s \in SUBSET S : s \notin Good}
<1>1. FiniteSubsetsOf(S) = SUBSET S
  BY FS_FiniteSubsetsOfFinite
<1>2. IsWellFoundedOn(StrictSubsetOrdering(S), FiniteSubsetsOf(S))
  BY FS_StrictSubsetOrderingWellFounded
<1>3. SUFFICES ASSUME Bad # {}  PROVE FALSE
  OBVIOUS
<1>4. PICK s \in Bad : \A t \in Bad : ~ (<<t, s>> \in StrictSubsetOrdering(S))
  <2>1. Bad \subseteq FiniteSubsetsOf(S)
    BY <1>1
  <2> HIDE DEF Bad
  <2> QED  BY <1>2, <1>3, <2>1, WFMin
<1>5. ASSUME NEW t \in SUBSET s, t # s  PROVE t \in Good
  <2> SUFFICES ASSUME t \notin Good  PROVE FALSE
    OBVIOUS
  <2>1. s \subseteq S /\ t \subseteq S /\ t \in Bad
    OBVIOUS
  <2>2. <<t, s>> \in StrictSubsetOrdering(S)
    <3> HIDE DEF Bad
    <3> QED  BY <1>5, <2>1, Zenon DEF StrictSubsetOrdering
  <2> QED  BY <1>4, <2>1, <2>2
<1> QED  BY <1>4, <1>5

(* A finite set of numbers has a maximum.                                   *)
LEMMA MaxIsLargest ==
    ASSUME NEW S, IsFiniteSet(S), S \subseteq Nat, S # {}
    PROVE  Max(S) \in S /\ \A y \in S : Max(S) >= y
<1> DEFINE HasMost(s) == s = {} \/ \E x \in s : \A y \in s : x >= y
           Good == {s \in SUBSET S : HasMost(s)}
<1>1. ASSUME NEW s \in SUBSET S, \A t \in SUBSET s : t # s => t \in Good
      PROVE  s \in Good
  <2> SUFFICES ASSUME s # {}  PROVE HasMost(s)
    OBVIOUS
  <2>1. PICK z \in s : TRUE
    OBVIOUS
  <2>2. HasMost(s \ {z})
    <3> HIDE DEF HasMost
    <3> QED  BY <1>1
  <2>3. s \subseteq Nat
    OBVIOUS
  <2>4. CASE s \ {z} = {}
    BY <2>3, <2>4
  <2>5. CASE \E x \in s \ {z} : \A y \in s \ {z} : x >= y
    <3>1. PICK x \in s \ {z} : \A y \in s \ {z} : x >= y
      BY <2>5
    <3>2. CASE z >= x
      <4>1. \A y \in s : z >= y
        BY <2>3, <3>1, <3>2
      <4> QED  BY <4>1
    <3>3. CASE x >= z
      <4>1. \A y \in s : x >= y
        BY <2>3, <3>1, <3>3
      <4> QED  BY <4>1
    <3> QED  BY <2>3, <3>2, <3>3
  <2> QED  BY <2>2, <2>4, <2>5
<1>2. S \in Good
  <2> HIDE DEF Good
  <2> QED  BY <1>1, SubsetInduction
<1>3. \E x \in S : \A y \in S : x >= y
  BY <1>2
<1> QED  BY <1>3 DEF Max

(* A fold in ascending order, as a function on the subsets.                 *)
Walks(f, first, S) ==
    f = [s \in SUBSET S |-> IF s = {} THEN first ELSE WriteOrdered(f[s \ {Max(s)}], Max(s))]

LEMMA TopFacts ==
    ASSUME NEW s, IsFiniteSet(s), s \subseteq Nat, s # {}
    PROVE  /\ Max(s) \in s /\ s \ {Max(s)} \in SUBSET s /\ s \ {Max(s)} # s
           /\ \A x \in s \ {Max(s)} : x < Max(s)
<1>1. Max(s) \in s /\ \A y \in s : Max(s) >= y
  BY MaxIsLargest
<1>2. ASSUME NEW x \in s, x # Max(s)  PROVE x < Max(s)
  <2> DEFINE m == Max(s)
  <2>1. m \in Nat /\ x \in Nat /\ m >= x /\ x # m
    BY <1>1, <1>2
  <2> HIDE DEF m
  <2>2. x < m
    BY <2>1
  <2> QED  BY <2>2 DEF m
<1>3. s \ {Max(s)} \in SUBSET s /\ s \ {Max(s)} # s
  BY <1>1
<1> QED  BY <1>1, <1>2, <1>3

LEMMA WalkStep ==
    ASSUME NEW f, NEW first, NEW S, Walks(f, first, S), NEW s \in SUBSET S
    PROVE  f[s] = IF s = {} THEN first ELSE WriteOrdered(f[s \ {Max(s)}], Max(s))
BY DEF Walks

LEMMA WalksAgree ==
    ASSUME NEW f, NEW g, NEW first, NEW S, NEW T, IsFiniteSet(S), S \subseteq Nat,
           S \subseteq T, Walks(f, first, S), Walks(g, first, T)
    PROVE  f[S] = g[S]
<1> DEFINE Good == {s \in SUBSET S : f[s] = g[s]}
<1>1. ASSUME NEW s \in SUBSET S, \A t \in SUBSET s : t # s => t \in Good
      PROVE  s \in Good
  <2>1. s \in SUBSET T /\ IsFiniteSet(s) /\ s \subseteq Nat
    BY FS_Subset
  <2>2. /\ f[s] = IF s = {} THEN first ELSE WriteOrdered(f[s \ {Max(s)}], Max(s))
        /\ g[s] = IF s = {} THEN first ELSE WriteOrdered(g[s \ {Max(s)}], Max(s))
    BY <2>1 DEF Walks
  <2>3. CASE s = {}
    BY <2>2, <2>3
  <2>4. CASE s # {}
    <3>1. f[s \ {Max(s)}] = g[s \ {Max(s)}]
      BY <1>1, <2>1, <2>4, TopFacts
    <3> QED  BY <2>2, <2>4, <3>1
  <2> QED  BY <2>3, <2>4
<1> HIDE DEF Good
<1>2. S \in Good
  BY <1>1, SubsetInduction
<1> QED  BY <1>2 DEF Good

LEMMA WalkExists ==
    ASSUME NEW first, NEW S, IsFiniteSet(S), S \subseteq Nat
    PROVE  \E f : Walks(f, first, S)
<1> DEFINE Good == {s \in SUBSET S : \E f : Walks(f, first, s)}
           The(s) == CHOOSE f : Walks(f, first, s)
<1>1. ASSUME NEW s \in SUBSET S, \A t \in SUBSET s : t # s => t \in Good
      PROVE  s \in Good
  <2> DEFINE Value(t) == IF t # s THEN The(t)[t]
                         ELSE IF s = {} THEN first
                         ELSE WriteOrdered(The(s \ {Max(s)})[s \ {Max(s)}], Max(s))
             h == [t \in SUBSET s |-> Value(t)]
  <2>1. ASSUME NEW t \in SUBSET s, t # s  PROVE Walks(The(t), first, t)
    BY <1>1, <2>1
  <2>2. ASSUME NEW t \in SUBSET s
        PROVE  Value(t) = IF t = {} THEN first ELSE WriteOrdered(h[t \ {Max(t)}], Max(t))
    <3> DEFINE r == t \ {Max(t)}
    <3>0. IsFiniteSet(t) /\ t \subseteq Nat
      BY FS_Subset
    <3>1. CASE t = {}
      <4>1. CASE t = s
        BY <3>1, <4>1
      <4>2. CASE t # s
        <5>1. Walks(The(t), first, t)
          BY <2>1, <4>2
        <5> HIDE DEF The
        <5>2. The(t)[t] = first
          BY <3>1, <5>1, WalkStep
        <5> QED  BY <3>1, <4>2, <5>2
      <4> QED  BY <4>1, <4>2
    <3>2. CASE t # {}
      <4>1. Max(t) \in t /\ r \in SUBSET t /\ r # t /\ r \in SUBSET s /\ r # s
        BY <3>0, <3>2, TopFacts
      <4> HIDE DEF The
      <4>2. h[r] = The(r)[r]
        BY <4>1
      <4>3. CASE t = s
        BY <3>2, <4>2, <4>3
      <4>4. CASE t # s
        <5>1. Walks(The(t), first, t) /\ Walks(The(r), first, r)
          BY <2>1, <4>1, <4>4
        <5>2. The(t)[t] = WriteOrdered(The(t)[r], Max(t))
          BY <3>2, <5>1, WalkStep
        <5>3. IsFiniteSet(r) /\ r \subseteq Nat
          BY <3>0, <4>1, FS_Subset
        <5>4. The(r)[r] = The(t)[r]
          BY <4>1, <5>1, <5>3, WalksAgree
        <5> HIDE DEF h, r
        <5>5. Value(t) = The(t)[t]
          BY <4>4
        <5>6. Value(t) = WriteOrdered(h[r], Max(t))
          BY <4>2, <5>2, <5>4, <5>5
        <5> QED  BY <3>2, <5>6 DEF r
      <4> QED  BY <4>3, <4>4
    <3> QED  BY <3>1, <3>2
  <2> HIDE DEF Value
  <2>3. Walks(h, first, s)
    <3>1. h = [t \in SUBSET s |-> IF t = {} THEN first ELSE WriteOrdered(h[t \ {Max(t)}], Max(t))]
      BY <2>2
    <3> HIDE DEF h
    <3> QED  BY <3>1 DEF Walks
  <2> QED  BY <2>3
<1> HIDE DEF Good
<1>2. S \in Good
  BY <1>1, SubsetInduction
<1> QED  BY <1>2 DEF Good

(* The fold of the model is such a function.                                *)
LEMMA WriteAllWalks ==
    ASSUME NEW w, NEW S, IsFiniteSet(S), S \subseteq Nat
    PROVE  \E f : Walks(f, w, S) /\ WriteAll(w, S) = f[S]
<1> DEFINE Fold(f) == f = [s \in SUBSET S |->
                              IF s = {} THEN w ELSE WriteOrdered(f[s \ {Max(s)}], Max(s))]
<1>1. WriteAll(w, S) = (CHOOSE f : Fold(f))[S]
  BY DEF WriteAll, MapThenFoldSet
<1>2. ASSUME NEW f  PROVE Fold(f) <=> Walks(f, w, S)
  BY DEF Walks
<1> HIDE DEF Fold
<1>3. \E f : Fold(f)
  BY <1>2, WalkExists
<1> QED  BY <1>1, <1>2, <1>3

-----------------------------------------------------------------------------
(* The worker's steps.                                                      *)

LEMMA WriterFields ==
    ASSUME NEW w \in Writers
    PROVE  /\ w.pending \subseteq Units /\ w.written \subseteq Units /\ IsFiniteSet(w.pending)
           /\ w.last \in Nat /\ w.last \in Units \cup {0} /\ w.source \in Nat
           /\ w.active \in Units \cup {0} /\ w.bundle \in Bundles
<1>1. /\ w.pending \in SUBSET Units /\ w.written \in SUBSET Units
      /\ w.last \in Units \cup {0} /\ w.source \in Nat
      /\ w.active \in Units \cup {0} /\ w.bundle \in Bundles
  BY DEF Writers
<1>2. w.last \in Nat
  BY <1>1, NumberFacts
<1> QED  BY <1>1, <1>2, UnitFacts, FS_Subset

LEMMA CloseFacts ==
    ASSUME NEW w \in Writers
    PROVE  LET c == CloseSegment(w) IN
           /\ c \in Writers /\ c.active = 0
           /\ c.pc = w.pc /\ c.want = w.want /\ c.pending = w.pending /\ c.last = w.last
           /\ c.source = w.source /\ c.written = w.written
           /\ c.bundle.state = w.bundle.state /\ c.bundle.gaps = w.bundle.gaps
<1> DEFINE c == CloseSegment(w)
<1>1. w.bundle \in Bundles
  BY DEF Writers
<1>2. CommitSegment(w.bundle) \in Bundles /\ CommitSegment(w.bundle).state = w.bundle.state
      /\ CommitSegment(w.bundle).gaps = w.bundle.gaps
  BY <1>1 DEF CommitSegment, Bundles
<1>3. CASE w.active = 0
  BY <1>3 DEF CloseSegment
<1>4. CASE w.active # 0
  <2>1. c = [w EXCEPT !.bundle = CommitSegment(w.bundle), !.active = 0]
    BY <1>4 DEF CloseSegment
  <2> HIDE DEF c
  <2>2. c \in Writers /\ c.bundle = CommitSegment(w.bundle) /\ c.active = 0
        /\ c.pc = w.pc /\ c.want = w.want /\ c.pending = w.pending /\ c.last = w.last
        /\ c.source = w.source /\ c.written = w.written
    BY <1>2, <2>1 DEF Writers
  <2> QED  BY <1>2, <2>2 DEF c
<1> QED  BY <1>3, <1>4

LEMMA GapFacts ==
    ASSUME NEW w \in Writers, w.bundle.state # "Arming"
    PROVE  LET g == WriterGap(w) IN
           /\ g \in Writers /\ g.active = 0
           /\ g.pc = w.pc /\ g.pending = w.pending /\ g.last = w.last
           /\ g.source = w.source /\ g.written = w.written
           /\ g.bundle.state = w.bundle.state /\ g.bundle.gaps
<1> DEFINE c == CloseSegment(w)
           g == WriterGap(w)
<1>1. /\ c \in Writers /\ c.active = 0
      /\ c.pc = w.pc /\ c.want = w.want /\ c.pending = w.pending /\ c.last = w.last
      /\ c.source = w.source /\ c.written = w.written
      /\ c.bundle.state = w.bundle.state /\ c.bundle \in Bundles
  BY CloseFacts DEF Writers
<1>2. g = [c EXCEPT !.bundle = RecordGap(c.bundle), !.want = TRUE]
  BY DEF WriterGap
<1> HIDE DEF c, g
<1>3. RecordGap(c.bundle) \in Bundles /\ RecordGap(c.bundle).state = c.bundle.state
      /\ RecordGap(c.bundle).gaps
  BY <1>1 DEF RecordGap, Bundles
<1>4. g \in Writers /\ g.bundle = RecordGap(c.bundle) /\ g.active = 0
      /\ g.pc = w.pc /\ g.pending = w.pending /\ g.last = w.last
      /\ g.source = w.source /\ g.written = w.written
  BY <1>1, <1>2, <1>3 DEF Writers
<1> QED  BY <1>1, <1>3, <1>4 DEF g

(* The segment as it is when unit u comes to be written.                    *)
Cut(w, u) ==
    CASE w.active # 0 /\ Epoch(w.active) # Epoch(u) -> [CloseSegment(w) EXCEPT !.want = TRUE]
      [] w.active # 0 /\ Epoch(w.active) = Epoch(u) /\ u # w.active + 1 -> WriterGap(w)
      [] OTHER -> w

Opened(at, u) ==
    [at EXCEPT !.active = u, !.bundle = MarkStarted(@), !.written = @ \union {u},
               !.want = @ /\ ~Source[u].idr]

LEMMA WriteOrderedIs ==
    ASSUME NEW w, NEW u
    PROVE  WriteOrdered(w, u) = IF Cut(w, u).active = 0 /\ ~Source[u].idr THEN Cut(w, u)
                                ELSE Opened(Cut(w, u), u)
BY DEF WriteOrdered, Cut, Opened

LEMMA CutFacts ==
    ASSUME NEW w \in Writers, NEW u \in Units, w.bundle.state \in Busy
    PROVE  LET c == Cut(w, u) IN
           /\ c \in Writers /\ c.pc = w.pc /\ c.pending = w.pending /\ c.last = w.last
           /\ c.source = w.source /\ c.written = w.written
           /\ c.bundle.state = w.bundle.state /\ (w.bundle.gaps => c.bundle.gaps)
           /\ \/ /\ w.active # 0 /\ Epoch(w.active) # Epoch(u) /\ c.active = 0
                 /\ c.bundle.gaps = w.bundle.gaps
              \/ /\ w.active # 0 /\ w.bundle.state # "Arming" /\ c.bundle.gaps
              \/ /\ w.active # 0 /\ w.bundle.state = "Arming" /\ c = w
              \/ /\ w.active # 0 /\ Epoch(w.active) = Epoch(u) /\ u = w.active + 1 /\ c = w
              \/ w.active = 0 /\ c = w
<1> DEFINE c == Cut(w, u)
<1>1. CASE w.active # 0 /\ Epoch(w.active) # Epoch(u)
  <2> DEFINE d == CloseSegment(w)
  <2>1. c = [d EXCEPT !.want = TRUE]
    BY <1>1 DEF Cut
  <2>2. /\ d \in Writers /\ d.active = 0
        /\ d.pc = w.pc /\ d.pending = w.pending /\ d.last = w.last
        /\ d.source = w.source /\ d.written = w.written
        /\ d.bundle.state = w.bundle.state /\ d.bundle.gaps = w.bundle.gaps
    BY CloseFacts
  <2> HIDE DEF c, d
  <2>3. /\ c \in Writers /\ c.active = 0 /\ c.bundle = d.bundle
        /\ c.pc = w.pc /\ c.pending = w.pending /\ c.last = w.last
        /\ c.source = w.source /\ c.written = w.written
    BY <2>1, <2>2 DEF Writers
  <2> QED  BY <1>1, <2>2, <2>3 DEF c
<1>2. CASE w.active # 0 /\ Epoch(w.active) = Epoch(u) /\ u # w.active + 1
  <2>1. c = WriterGap(w)
    BY <1>2 DEF Cut
  <2>2. CASE w.bundle.state = "Arming"
    <3>1. c = w
      BY <2>1, <2>2 DEF WriterGap
    <3> QED  BY <1>2, <2>2, <3>1
  <2>3. CASE w.bundle.state # "Arming"
    BY <1>2, <2>1, <2>3, GapFacts
  <2> QED  BY <2>2, <2>3
<1>3. CASE w.active # 0 /\ Epoch(w.active) = Epoch(u) /\ u = w.active + 1
  <2>1. c = w
    BY <1>3 DEF Cut
  <2> QED  BY <1>3, <2>1
<1>4. CASE w.active = 0
  <2>1. c = w
    BY <1>4 DEF Cut
  <2> QED  BY <1>4, <2>1
<1> QED  BY <1>1, <1>2, <1>3, <1>4

LEMMA OpenedFacts ==
    ASSUME NEW at \in Writers, NEW u \in Units
    PROVE  LET n == Opened(at, u) IN
           /\ n \in Writers /\ n.pc = at.pc /\ n.pending = at.pending /\ n.last = at.last
           /\ n.source = at.source /\ n.written = at.written \cup {u} /\ n.active = u
           /\ n.bundle.state = "Recording" /\ n.bundle.gaps = at.bundle.gaps
<1> DEFINE n == Opened(at, u)
<1>1. at.bundle \in Bundles /\ Source[u].idr \in BOOLEAN
  BY UnitFacts DEF Writers
<1>2. MarkStarted(at.bundle) \in Bundles /\ MarkStarted(at.bundle).state = "Recording"
      /\ MarkStarted(at.bundle).gaps = at.bundle.gaps
  BY <1>1 DEF MarkStarted, Bundles, States, Busy
<1>3. n = [at EXCEPT !.active = u, !.bundle = MarkStarted(at.bundle),
                     !.written = at.written \cup {u}, !.want = at.want /\ ~Source[u].idr]
  BY DEF Opened
<1> HIDE DEF n
<1>4. /\ n \in Writers /\ n.pc = at.pc /\ n.pending = at.pending /\ n.last = at.last
      /\ n.source = at.source /\ n.written = at.written \cup {u} /\ n.active = u
      /\ n.bundle = MarkStarted(at.bundle)
  BY <1>1, <1>2, <1>3 DEF Writers
<1> QED  BY <1>2, <1>4 DEF n

LEMMA WriteOrderedFacts ==
    ASSUME NEW w \in Writers, NEW u \in Units, w.bundle.state \in Busy
    PROVE  LET n == WriteOrdered(w, u) IN
           /\ n \in Writers /\ n.pc = w.pc /\ n.pending = w.pending /\ n.last = w.last
           /\ n.source = w.source /\ n.bundle.state \in Busy
           /\ w.bundle.gaps => n.bundle.gaps
<1> DEFINE at == Cut(w, u)
           n == WriteOrdered(w, u)
<1>1. /\ at \in Writers /\ at.pc = w.pc /\ at.pending = w.pending /\ at.last = w.last
      /\ at.source = w.source /\ at.bundle.state = w.bundle.state
      /\ w.bundle.gaps => at.bundle.gaps
  BY CutFacts
<1>2. n = at \/ n = Opened(at, u)
  BY WriteOrderedIs
<1> HIDE DEF at, n
<1>3. CASE n = at
  BY <1>1, <1>3 DEF n
<1>4. CASE n = Opened(at, u)
  <2>1. /\ n \in Writers /\ n.pc = at.pc /\ n.pending = at.pending /\ n.last = at.last
        /\ n.source = at.source /\ n.bundle.state = "Recording" /\ n.bundle.gaps = at.bundle.gaps
    BY <1>1, <1>4, OpenedFacts
  <2> QED  BY <1>1, <2>1 DEF n, Busy
<1> QED  BY <1>2, <1>3, <1>4

(* Writing a unit behind all that was written of its epoch keeps the chain, *)
(* or a gap is recorded.                                                    *)
LEMMA WriteOrderedChain ==
    ASSUME NEW w \in Writers, NEW u \in Units, w.bundle.state \in Busy, Chain(w, Epoch(u)),
           \A v \in w.written : Epoch(v) < Epoch(u) \/ (Epoch(v) = Epoch(u) /\ v < u),
           ~WriteOrdered(w, u).bundle.gaps
    PROVE  LET n == WriteOrdered(w, u) IN
           /\ Chain(n, Epoch(u))
           /\ \/ n.written = w.written \cup {u}
              \/ n.written = w.written /\ \A v \in w.written : Epoch(v) < Epoch(u)
<1> DEFINE at == Cut(w, u)
           n == WriteOrdered(w, u)
           E == Epoch(u)
<1>0. /\ w.written \subseteq Units /\ u \in Nat \ {0} /\ E \in Nat
      /\ w.active \in Units \cup {0}
      /\ \A v \in Units : v \in Nat \ {0} /\ Epoch(v) \in Nat
  BY UnitFacts DEF Writers
<1>1. /\ at \in Writers /\ at.written = w.written /\ at.bundle.state = w.bundle.state
      /\ \/ w.active # 0 /\ Epoch(w.active) # E /\ at.active = 0
         \/ w.active # 0 /\ w.bundle.state # "Arming" /\ at.bundle.gaps
         \/ w.active # 0 /\ w.bundle.state = "Arming" /\ at = w
         \/ w.active # 0 /\ Epoch(w.active) = E /\ u = w.active + 1 /\ at = w
         \/ w.active = 0 /\ at = w
  BY CutFacts
<1>2. n = IF at.active = 0 /\ ~Source[u].idr THEN at ELSE Opened(at, u)
  BY WriteOrderedIs
<1>3. /\ Opened(at, u).written = w.written \cup {u} /\ Opened(at, u).active = u
      /\ Opened(at, u).bundle.state = "Recording"
      /\ Opened(at, u).bundle.gaps = at.bundle.gaps
  BY <1>1, OpenedFacts
<1> HIDE DEF at, n
<1>4. ~at.bundle.gaps
  BY <1>2, <1>3 DEF n
<1>5. w.active # 0 => w.active \in w.written /\ w.bundle.state # "Arming"
  BY DEF Chain
<1>6. CASE at.active = 0
  <2>1. \A v \in w.written : Epoch(v) < E
    <3>1. CASE w.active = 0
      BY <3>1 DEF Chain
    <3>2. CASE w.active # 0
      <4>1. Epoch(w.active) # E /\ w.active \in w.written
        BY <1>0, <1>1, <1>4, <1>5, <1>6, <3>2
      <4>2. Epoch(w.active) < E
        BY <1>0, <4>1
      <4> DEFINE A == Epoch(w.active)
      <4>3. \A v \in w.written : Epoch(v) < A \/ Epoch(v) = A
        BY <3>2 DEF Chain
      <4>4. A \in Nat /\ A < E
        BY <1>0, <4>1, <4>2
      <4> HIDE DEF A, E
      <4>5. ASSUME NEW v \in w.written  PROVE Epoch(v) < E
        <5>1. Epoch(v) \in Nat
          BY <1>0
        <5> QED  BY <1>0, <4>3, <4>4, <5>1
      <4> QED  BY <4>5
    <3> QED  BY <3>1, <3>2
  <2>2. CASE n = at
    <3>1. Chain(n, E)
      BY <1>1, <1>6, <2>1, <2>2 DEF Chain
    <3> QED  BY <1>1, <2>1, <2>2, <3>1 DEF n
  <2>3. CASE n = Opened(at, u)
    <3>1. n.written = w.written \cup {u} /\ n.active = u /\ n.bundle.state = "Recording"
      BY <1>3, <2>3
    <3>2. ASSUME NEW x \in n.written, NEW y \in n.written, Epoch(x) = Epoch(y)
          PROVE  x .. y \subseteq n.written
      <4>1. CASE x \in w.written /\ y \in w.written
        BY <3>1, <3>2, <4>1 DEF Chain
      <4>2. CASE x = u /\ y = u
        BY <1>0, <3>1, <4>2
      <4>3. CASE x = u /\ y \in w.written
        BY <1>0, <2>1, <3>2, <4>3
      <4>4. CASE x \in w.written /\ y = u
        BY <1>0, <2>1, <3>2, <4>4
      <4> QED  BY <3>1, <3>2, <4>1, <4>2, <4>3, <4>4
    <3>3. \A v \in n.written : Epoch(v) < Epoch(u) \/ (Epoch(v) = Epoch(u) /\ v <= u)
      BY <1>0, <2>1, <3>1
    <3>4. Chain(n, E)
      BY <1>0, <3>1, <3>2, <3>3 DEF Chain
    <3> QED  BY <3>1, <3>4 DEF n
  <2> QED  BY <1>2, <2>2, <2>3
<1>7. CASE at.active # 0
  <2>1. w.active # 0 /\ Epoch(w.active) = E /\ u = w.active + 1 /\ w.active \in w.written
    BY <1>1, <1>4, <1>5, <1>7
  <2>2. n.written = w.written \cup {u} /\ n.active = u /\ n.bundle.state = "Recording"
    BY <1>2, <1>3, <1>7
  <2>3. ASSUME NEW x \in n.written, NEW y \in n.written, Epoch(x) = Epoch(y)
        PROVE  x .. y \subseteq n.written
    <3>1. CASE x \in w.written /\ y \in w.written
      BY <2>2, <2>3, <3>1 DEF Chain
    <3>2. CASE x = u /\ y = u
      BY <1>0, <2>2, <3>2
    <3>3. CASE x = u /\ y \in w.written
      BY <1>0, <2>3, <3>3
    <3>4. CASE x \in w.written /\ y = u
      <4>1. x .. w.active \subseteq w.written
        BY <2>1, <2>3, <3>4 DEF Chain
      <4> DEFINE a == w.active
      <4>2. x \in Nat /\ a \in Nat /\ u = a + 1
        BY <1>0, <2>1, <3>4
      <4>3. x .. u \subseteq (x .. a) \cup {u}
        <5> HIDE DEF a
        <5> QED  BY <4>2
      <4> QED  BY <2>2, <3>4, <4>1, <4>3
    <3> QED  BY <2>2, <2>3, <3>1, <3>2, <3>3, <3>4
  <2>4. ASSUME NEW v \in n.written
        PROVE  Epoch(v) < Epoch(u) \/ (Epoch(v) = Epoch(u) /\ v <= u)
    <3>1. CASE v = u
      BY <1>0, <3>1
    <3>2. CASE v \in w.written
      <4>1. v \in Nat
        BY <1>0, <3>2
      <4> QED  BY <1>0, <3>2, <4>1
    <3> QED  BY <2>2, <3>1, <3>2
  <2>5. Chain(n, E)
    BY <1>0, <2>2, <2>3, <2>4 DEF Chain
  <2> QED  BY <2>2, <2>5 DEF n
<1> QED  BY <1>6, <1>7

(* What writing the units of S, all of epoch E, makes of w.                 *)
SameOrder(w, n) ==
    /\ n \in Writers /\ n.pc = w.pc /\ n.pending = w.pending /\ n.last = w.last
    /\ n.source = w.source /\ n.bundle.state \in Busy /\ (w.bundle.gaps => n.bundle.gaps)

Extended(w, n, S, E) ==
    /\ Chain(n, E)
    /\ w.written \subseteq n.written /\ n.written \subseteq w.written \cup S
    /\ \A x \in S \ n.written : \A v \in n.written : Epoch(v) = E => x < v

LEMMA WriteAllFacts ==
    ASSUME NEW w \in Writers, w.bundle.state \in Busy, NEW S \in SUBSET Units, NEW E
    PROVE  LET n == WriteAll(w, S) IN
           /\ SameOrder(w, n)
           /\ /\ ~n.bundle.gaps /\ Chain(w, E) /\ \A u \in S : Epoch(u) = E
              /\ \A v \in w.written : Epoch(v) < E \/ (Epoch(v) = E /\ \A u \in S : v < u)
              => Extended(w, n, S, E)
<1> DEFINE Fits == /\ Chain(w, E) /\ \A u \in S : Epoch(u) = E
                   /\ \A v \in w.written : Epoch(v) < E \/ (Epoch(v) = E /\ \A u \in S : v < u)
           Kept(n, s) == SameOrder(w, n) /\ (~n.bundle.gaps /\ Fits => Extended(w, n, s, E))
<1>1. IsFiniteSet(S) /\ S \subseteq Nat
  BY UnitFacts, FS_Subset
<1>2. PICK f : Walks(f, w, S) /\ WriteAll(w, S) = f[S]
  BY <1>1, WriteAllWalks
<1> DEFINE Good == {s \in SUBSET S : Kept(f[s], s)}
<1>3. ASSUME NEW s \in SUBSET S, \A t \in SUBSET s : t # s => t \in Good
      PROVE  Kept(f[s], s)
  <2>1. f[s] = IF s = {} THEN w ELSE WriteOrdered(f[s \ {Max(s)}], Max(s))
    BY <1>2, WalkStep
  <2>2. CASE s = {}
    <3>1. f[s] = w
      BY <2>1, <2>2
    <3>2. SameOrder(w, w)
      BY DEF SameOrder
    <3>3. Fits => Extended(w, w, s, E)
      BY <2>2 DEF Extended
    <3> QED  BY <3>1, <3>2, <3>3
  <2>3. CASE s # {}
    <3> DEFINE m == Max(s)
               r == s \ {m}
               k == f[r]
               n == f[s]
    <3>1. IsFiniteSet(s) /\ s \subseteq Nat
      BY <1>1, FS_Subset
    <3>2. m \in s /\ r \in SUBSET s /\ r # s /\ \A x \in r : x < m
      BY <2>3, <3>1, TopFacts
    <3>3. Kept(k, r)
      BY <1>3, <3>2
    <3>4. n = WriteOrdered(k, m)
      BY <2>1, <2>3
    <3>5. m \in Units /\ m \in S
      BY <3>2
    <3> HIDE DEF m, k, n, Fits
    <3>6. /\ k \in Writers /\ k.bundle.state \in Busy
      BY <3>3 DEF SameOrder
    <3>7. SameOrder(w, n) /\ (k.bundle.gaps => n.bundle.gaps)
      BY <3>3, <3>4, <3>5, <3>6, WriteOrderedFacts DEF SameOrder
    <3>8. ASSUME ~n.bundle.gaps, Fits  PROVE Extended(w, n, s, E)
      <4>0. Epoch(m) = E
        BY <3>5, <3>8 DEF Fits
      <4>1. Extended(w, k, r, E)
        BY <3>3, <3>7, <3>8
      <4>2. Chain(k, E) /\ w.written \subseteq k.written /\ k.written \subseteq w.written \cup r
        BY <4>1 DEF Extended
      <4>3. ASSUME NEW v \in k.written  PROVE Epoch(v) < E \/ (Epoch(v) = E /\ v < m)
        <5>1. CASE v \in w.written
          BY <3>5, <3>8, <5>1 DEF Fits
        <5>2. CASE v \in r
          <6>1. Epoch(v) = E
            BY <3>2, <3>8, <5>2 DEF Fits
          <6> QED  BY <3>2, <5>2, <6>1
        <5> QED  BY <4>2, <5>1, <5>2
      <4>4. /\ Chain(n, E)
            /\ \/ n.written = k.written \cup {m}
               \/ n.written = k.written /\ \A v \in k.written : Epoch(v) < E
        BY <3>4, <3>5, <3>6, <3>8, <4>0, <4>2, <4>3, WriteOrderedChain
      <4>5. w.written \subseteq n.written /\ n.written \subseteq w.written \cup s
        BY <3>2, <4>2, <4>4
      <4>6. ASSUME NEW x \in s, x \notin n.written, NEW v \in n.written, Epoch(v) = E
            PROVE  x < v
        <5>1. CASE n.written = k.written /\ \A y \in k.written : Epoch(y) < E
          <6>1. Epoch(v) \in Nat /\ Epoch(v) < E
            BY <3>6, <4>6, <5>1, UnitFacts DEF Writers
          <6> QED  BY <4>6, <6>1
        <5>2. CASE n.written = k.written \cup {m}
          <6>1. x \in r /\ x \notin k.written
            BY <4>6, <5>2
          <6>2. CASE v = m
            BY <3>2, <6>1, <6>2
          <6>3. CASE v \in k.written
            BY <4>1, <4>6, <6>1, <6>3 DEF Extended
          <6> QED  BY <5>2, <6>2, <6>3
        <5> QED  BY <4>4, <5>1, <5>2
      <4> QED  BY <4>4, <4>5, <4>6 DEF Extended
    <3>9. Kept(n, s)
      BY <3>7, <3>8
    <3> QED  BY <3>9 DEF n
  <2> QED  BY <2>2, <2>3
<1>4. S \in Good
  <2>1. \A s \in SUBSET S : (\A t \in SUBSET s : t # s => t \in Good) => s \in Good
    BY <1>3
  <2> HIDE DEF Good
  <2> QED  BY <1>1, <2>1, SubsetInduction
<1>5. Kept(f[S], S)
  BY <1>4
<1> QED  BY <1>2, <1>5

(* One turn of the worker: nothing that was held, written or skipped is     *)
(* forgotten, or a gap is recorded.                                         *)
Known(w, x) == x \in w.pending \cup w.written \/ Skipped(w, x)

Keeps(w, n) ==
    /\ n.pending \cup n.written \subseteq w.pending \cup w.written
    /\ \A x \in Units : Known(w, x) => Known(n, x)

Turn(w, n) ==
    /\ n \in Writers /\ n.pc = w.pc /\ n.source = w.source
    /\ n.bundle.state \in Busy /\ (w.bundle.gaps => n.bundle.gaps)
    /\ ~n.bundle.gaps /\ Sound(w) => Sound(n) /\ Keeps(w, n)

LEMMA TurnItself ==
    ASSUME NEW w \in Writers, w.bundle.state \in Busy
    PROVE  Turn(w, w)
BY DEF Turn, Keeps

(* Units leave reordering: those up to the newest of them.                  *)
LEMMA LeaveFacts ==
    ASSUME NEW w \in Writers, w.bundle.state \in Busy, NEW ready \in SUBSET w.pending, ready # {},
           Ahead(w) => \A p \in w.pending \ ready : p > Max(ready)
    PROVE  LET n == WriteAll([w EXCEPT !.pending = w.pending \ ready, !.last = Max(ready)], ready)
           IN  Turn(w, n) /\ n.pending = w.pending \ ready
<1> DEFINE top == Max(ready)
           b == [w EXCEPT !.pending = w.pending \ ready, !.last = top]
           n == WriteAll(b, ready)
           E == w.source
<1>0. /\ w.pending \subseteq Units /\ w.written \subseteq Units /\ w.last \in Nat
      /\ E \in Nat
      /\ \A v \in Units : v \in Nat \ {0} /\ Epoch(v) \in Nat
  BY UnitFacts, WriterFields
<1>1. top \in ready /\ \A y \in ready : top >= y
  <2>1. IsFiniteSet(ready) /\ ready \subseteq Nat
    BY <1>0, UnitFacts, FS_Subset
  <2> QED  BY <2>1, MaxIsLargest
<1>2. top \in Units /\ top \in Nat
  BY <1>0, <1>1
<1>3. Ahead(w) => \A p \in w.pending \ ready : p > top
  OBVIOUS
<1> HIDE DEF top
<1>4. /\ b \in Writers /\ b.pc = w.pc /\ b.bundle = w.bundle /\ b.active = w.active
      /\ b.pending = w.pending \ ready /\ b.last = top /\ b.source = E /\ b.written = w.written
  BY <1>2 DEF Writers
<1> HIDE DEF b
<1>5. /\ SameOrder(b, n)
      /\ /\ ~n.bundle.gaps /\ Chain(b, E) /\ \A u \in ready : Epoch(u) = E
         /\ \A v \in b.written : Epoch(v) < E \/ (Epoch(v) = E /\ \A u \in ready : v < u)
         => Extended(b, n, ready, E)
  BY <1>0, <1>4, WriteAllFacts
<1> HIDE DEF n
<1>6. /\ n \in Writers /\ n.pc = w.pc /\ n.source = E /\ n.bundle.state \in Busy
      /\ w.bundle.gaps => n.bundle.gaps
      /\ n.pending = w.pending \ ready /\ n.last = top
  BY <1>4, <1>5 DEF SameOrder
<1>7. ASSUME ~n.bundle.gaps, Sound(w)  PROVE Sound(n) /\ Keeps(w, n)
  <2>1. \A p \in w.pending : Epoch(p) = E /\ p > w.last
    BY <1>7 DEF Sound, Ahead
  <2>2. \A v \in w.written : Epoch(v) < E \/ (Epoch(v) = E /\ v <= w.last)
    BY <1>7 DEF Sound, Behind
  <2>3. \A v \in b.written : Epoch(v) < E \/ (Epoch(v) = E /\ \A u \in ready : v < u)
    <3> SUFFICES ASSUME NEW v \in w.written, ~(Epoch(v) < E), NEW u \in ready
                 PROVE  Epoch(v) = E /\ v < u
      BY <1>4
    <3>1. v \in Nat /\ u \in Nat /\ w.last \in Nat /\ v <= w.last /\ u > w.last /\ Epoch(v) = E
      BY <1>0, <2>1, <2>2
    <3> QED  BY <3>1
  <2>4. Chain(b, E)
    BY <1>4, <1>7 DEF Sound, Chain
  <2>5. Extended(b, n, ready, E)
    BY <1>5, <1>7, <2>1, <2>3, <2>4
  <2>6. /\ Chain(n, E) /\ w.written \subseteq n.written /\ n.written \subseteq w.written \cup ready
        /\ \A x \in ready \ n.written : \A v \in n.written : Epoch(v) = E => x < v
    BY <1>4, <2>5 DEF Extended
  <2>7. top > w.last
    BY <1>1, <2>1
  <2>8. Sound(n)
    <3>1. Ahead(n)
      BY <1>3, <1>6, <1>7, <2>1 DEF Ahead, Sound
    <3>2. Behind(n)
      <4> SUFFICES ASSUME NEW v \in n.written, ~(Epoch(v) < E)
                   PROVE  Epoch(v) = E /\ v <= top
        BY <1>6 DEF Behind
      <4>1. CASE v \in w.written
        <5>1. v \in Nat /\ v <= w.last /\ Epoch(v) = E
          BY <1>0, <2>2, <4>1
        <5> QED  BY <1>0, <1>2, <2>7, <5>1
      <4>2. CASE v \in ready
        BY <1>0, <1>1, <1>2, <2>1, <4>2
      <4> QED  BY <2>6, <4>1, <4>2
    <3> QED  BY <1>6, <2>6, <3>1, <3>2 DEF Sound
  <2>9. n.pending \cup n.written \subseteq w.pending \cup w.written
    BY <1>6, <2>6
  <2>10. ASSUME NEW x \in Units, Known(w, x)  PROVE Known(n, x)
    <3>1. CASE x \in w.pending \ ready
      BY <1>6, <3>1 DEF Known
    <3>2. CASE x \in w.written
      BY <2>6, <3>2 DEF Known
    <3>3. CASE x \in ready
      <4>1. CASE x \in n.written
        BY <4>1 DEF Known
      <4>2. CASE x \notin n.written
        <5>1. Passed(n, x)
          BY <1>0, <1>1, <1>2, <1>6, <2>1, <3>3 DEF Passed
        <5>2. \A v \in n.written : Epoch(v) = Epoch(x) => x < v
          BY <2>1, <2>6, <3>3, <4>2
        <5> QED  BY <5>1, <5>2 DEF Known, Skipped
      <4> QED  BY <4>1, <4>2
    <3>4. CASE Skipped(w, x)
      <4>1. Epoch(x) < E \/ (Epoch(x) = E /\ x <= w.last)
        BY <3>4 DEF Skipped, Passed
      <4>2. Passed(n, x)
        <5>1. x <= w.last => x <= top
          BY <1>0, <1>2, <2>7
        <5> QED  BY <1>6, <4>1, <5>1 DEF Passed
      <4>3. ASSUME NEW v \in n.written, Epoch(v) = Epoch(x)  PROVE x < v
        <5>1. CASE v \in w.written
          BY <3>4, <4>3, <5>1 DEF Skipped
        <5>2. CASE v \in ready
          <6>1. Epoch(v) = E /\ v > w.last /\ v \in Nat
            BY <1>0, <2>1, <5>2
          <6>2. x <= w.last
            BY <1>0, <4>1, <4>3, <6>1
          <6> QED  BY <1>0, <6>1, <6>2
        <5> QED  BY <2>6, <5>1, <5>2
      <4> QED  BY <4>2, <4>3 DEF Known, Skipped
    <3> QED  BY <2>10, <3>1, <3>2, <3>3, <3>4 DEF Known
  <2> QED  BY <2>8, <2>9, <2>10 DEF Keeps
<1>8. Turn(w, n)
  BY <1>6, <1>7 DEF Turn
<1> QED  BY <1>6, <1>8 DEF n, b, top

LEMMA DrainFacts ==
    ASSUME NEW w \in Writers, w.bundle.state \in Busy
    PROVE  Turn(w, Drain(w)) /\ Drain(w).pending = {}
<1>1. CASE w.pending = {}
  BY <1>1, TurnItself DEF Drain
<1>2. CASE w.pending # {}
  <2> DEFINE P == w.pending
  <2>1. P \ P = {} /\ P \in SUBSET P
    OBVIOUS
  <2>2. Drain(w) = WriteAll([w EXCEPT !.pending = P \ P, !.last = Max(P)], P)
    BY <1>2, <2>1 DEF Drain
  <2> QED  BY <1>2, <2>1, <2>2, LeaveFacts
<1> QED  BY <1>1, <1>2

LEMMA ReleaseFacts ==
    ASSUME NEW w \in Writers, w.bundle.state \in Busy, NEW expired \in Units \cup {0}
    PROVE  Turn(w, Release(w, expired))
<1> DEFINE ready == Released(w, expired)
           forced == {p \in w.pending : p <= expired}
           top == IF forced = {} THEN w.last ELSE Max(forced)
<1>1. ready = forced \cup {p \in w.pending : top # 0 /\ p > top /\ (top + 1) .. p \subseteq w.pending}
  BY DEF Released
<1>2. ready \in SUBSET w.pending
  BY <1>1
<1>3. CASE ready = {}
  BY <1>3, TurnItself DEF Release
<1>4. CASE ready # {}
  <2>0. /\ w.pending \subseteq Nat \ {0} /\ IsFiniteSet(w.pending) /\ w.last \in Nat
        /\ expired \in Nat
    BY NumberFacts, WriterFields
  <2>1. Release(w, expired) = WriteAll([w EXCEPT !.pending = w.pending \ ready, !.last = Max(ready)], ready)
    BY <1>4 DEF Release
  <2>2. Max(ready) \in ready
    BY <1>2, <1>4, <2>0, FS_Subset, MaxIsLargest
  <2>3. forced # {} => top \in forced /\ \A y \in forced : top >= y
    <3>1. IsFiniteSet(forced) /\ forced \subseteq Nat
      BY <2>0, FS_Subset
    <3> QED  BY <3>1, MaxIsLargest
  <2>4. top \in Nat
    BY <2>0, <2>3
  <2>5. ASSUME Ahead(w), NEW p \in w.pending \ ready  PROVE p > Max(ready)
    <3> DEFINE q == Max(ready)
    <3>1. q \in ready /\ q \in w.pending /\ q \in Nat /\ p \in Nat /\ p \notin forced /\ p > w.last
      BY <1>1, <1>2, <2>0, <2>2, <2>5 DEF Ahead
    <3> HIDE DEF q
    <3>2. SUFFICES ASSUME p <= q  PROVE FALSE
      BY <3>1 DEF q
    <3>3. q \notin forced
      BY <2>0, <3>1, <3>2
    <3>4. top # 0 /\ q > top /\ (top + 1) .. q \subseteq w.pending
      BY <1>1, <3>1, <3>3
    <3>5. p > top
      <4>1. CASE forced = {}
        BY <3>1, <4>1
      <4>2. CASE forced # {}
        <5>1. top <= expired
          BY <2>3, <4>2
        <5> HIDE DEF top
        <5>2. p > expired
          BY <2>0, <3>1
        <5> QED  BY <2>0, <2>4, <3>1, <5>1, <5>2
      <4> QED  BY <4>1, <4>2
    <3> HIDE DEF top, forced
    <3>6. (top + 1) .. p \subseteq (top + 1) .. q
      BY <2>4, <3>1, <3>2
    <3>7. p \in ready
      BY <1>1, <2>5, <3>4, <3>5, <3>6
    <3> QED  BY <2>5, <3>7
  <2> HIDE DEF ready
  <2> QED  BY <1>2, <1>4, <2>1, <2>5, LeaveFacts
<1> QED  BY <1>3, <1>4

(* A unit is taken from the ingress: it is known then and was not before.   *)
Took(w, n, u) ==
    /\ n \in Writers /\ n.pc = w.pc
    /\ n.bundle.state \in Busy /\ (w.bundle.gaps => n.bundle.gaps)
    /\ ~n.bundle.gaps /\ Sound(w) =>
          /\ Sound(n) /\ Known(n, u) /\ ~Known(w, u)
          /\ n.pending \cup n.written \subseteq w.pending \cup w.written \cup {u}
          /\ \A x \in Units : Known(w, x) => Known(n, x)

LEMMA SourceFacts ==
    ASSUME NEW w \in Writers, w.bundle.state \in Busy, NEW u \in Units, ~Refuses(w, u)
    PROVE  LET s == IF w.source = Epoch(u) THEN w ELSE [Drain(w) EXCEPT !.source = Epoch(u), !.last = 0]
           IN  /\ s \in Writers /\ s.pc = w.pc /\ s.source = Epoch(u) /\ u > s.last
               /\ s.bundle.state \in Busy /\ (w.bundle.gaps => s.bundle.gaps)
               /\ ~s.bundle.gaps /\ Sound(w) => Sound(s) /\ Keeps(w, s)
<1> DEFINE d == Drain(w)
           s == IF w.source = Epoch(u) THEN w ELSE [d EXCEPT !.source = Epoch(u), !.last = 0]
           E == Epoch(u)
<1>1. /\ Turn(w, d) /\ d.pending = {}
  BY DrainFacts
<1>2. /\ E \in Nat /\ u \in Nat \ {0} /\ w.source \in Nat /\ w.last \in Nat
      /\ \A v \in Units : Epoch(v) \in Nat
  BY UnitFacts, WriterFields
<1>3. CASE w.source = E
  <2>1. u > w.last
    BY <1>2, <1>3 DEF Refuses
  <2> QED  BY <1>3, <2>1, TurnItself DEF Turn
<1>4. CASE w.source # E
  <2>1. w.source < E
    BY <1>2, <1>4 DEF Refuses
  <2>2. s = [d EXCEPT !.source = E, !.last = 0]
    BY <1>4
  <2>3. d \in Writers /\ d.pc = w.pc /\ d.source = w.source /\ d.bundle.state \in Busy
        /\ (w.bundle.gaps => d.bundle.gaps)
    BY <1>1 DEF Turn
  <2> HIDE DEF d, s
  <2>4. /\ s \in Writers /\ s.pc = w.pc /\ s.source = E /\ s.last = 0 /\ s.bundle = d.bundle
        /\ s.active = d.active /\ s.pending = {} /\ s.written = d.written
    BY <1>1, <1>2, <2>2, <2>3 DEF Writers
  <2>5. ASSUME ~s.bundle.gaps, Sound(w)  PROVE Sound(s) /\ Keeps(w, s)
    <3>1. Sound(d) /\ Keeps(w, d)
      BY <1>1, <2>4, <2>5 DEF Turn
    <3>2. d.written \subseteq Units
      BY <2>3, WriterFields
    <3>3. \A v \in d.written : Epoch(v) < E
      <4> SUFFICES ASSUME NEW v \in d.written  PROVE Epoch(v) < E
        OBVIOUS
      <4>1. Epoch(v) \in Nat /\ (Epoch(v) < w.source \/ Epoch(v) = w.source)
        BY <1>2, <2>3, <3>1, <3>2 DEF Sound, Behind
      <4> QED  BY <1>2, <2>1, <4>1
    <3>4. Ahead(s) /\ Behind(s)
      BY <2>4, <3>3 DEF Ahead, Behind
    <3>5. Chain(s, E)
      BY <2>4, <3>1, <3>3 DEF Sound, Chain
    <3>6. ASSUME NEW x \in Units, Known(d, x)  PROVE Known(s, x)
      <4>1. CASE x \in d.written
        BY <2>4, <4>1 DEF Known
      <4>2. CASE Skipped(d, x)
        <5>1. Epoch(x) \in Nat /\ (Epoch(x) < w.source \/ Epoch(x) = w.source)
          BY <1>2, <2>3, <4>2 DEF Skipped, Passed
        <5>2. Passed(s, x)
          BY <1>2, <2>1, <2>4, <5>1 DEF Passed
        <5> QED  BY <2>4, <4>2, <5>2 DEF Known, Skipped
      <4> QED  BY <1>1, <3>6, <4>1, <4>2 DEF Known
    <3>7. Keeps(w, s)
      BY <1>1, <2>4, <3>1, <3>6 DEF Keeps
    <3> QED  BY <2>4, <3>4, <3>5, <3>7 DEF Sound
  <2>6. u > s.last
    BY <1>2, <2>4
  <2>7. s.bundle.state \in Busy /\ (w.bundle.gaps => s.bundle.gaps)
    BY <2>3, <2>4
  <2> QED  BY <2>4, <2>5, <2>6, <2>7 DEF s, d
<1> QED  BY <1>3, <1>4

LEMMA PushFacts ==
    ASSUME NEW w \in Writers, w.bundle.state \in Busy, NEW u \in Units, ~Refuses(w, u),
           NEW expired \in Units \cup {0}
    PROVE  Took(w, PushReorder(w, u, expired), u)
<1> DEFINE s == IF w.source = Epoch(u) THEN w ELSE [Drain(w) EXCEPT !.source = Epoch(u), !.last = 0]
           p == [s EXCEPT !.pending = s.pending \cup {u}]
           n == Release(p, expired)
           E == Epoch(u)
<1>1. n = PushReorder(w, u, expired)
  BY DEF PushReorder
<1>2. /\ s \in Writers /\ s.pc = w.pc /\ s.source = E /\ u > s.last
      /\ s.bundle.state \in Busy /\ (w.bundle.gaps => s.bundle.gaps)
      /\ ~s.bundle.gaps /\ Sound(w) => Sound(s) /\ Keeps(w, s)
  BY SourceFacts
<1> HIDE DEF s
<1>3. /\ p \in Writers /\ p.pc = w.pc /\ p.source = E /\ p.last = s.last /\ p.bundle = s.bundle
      /\ p.active = s.active /\ p.pending = s.pending \cup {u} /\ p.written = s.written
  BY <1>2 DEF Writers
<1> HIDE DEF p
<1>4. Turn(p, n)
  BY <1>2, <1>3, ReleaseFacts
<1> HIDE DEF n
<1>5. n \in Writers /\ n.pc = w.pc /\ n.bundle.state \in Busy /\ (w.bundle.gaps => n.bundle.gaps)
      /\ (~n.bundle.gaps => ~s.bundle.gaps)
  BY <1>2, <1>3, <1>4 DEF Turn
<1>6. ASSUME ~n.bundle.gaps, Sound(w)
      PROVE  /\ Sound(n) /\ Known(n, u) /\ ~Known(w, u)
             /\ n.pending \cup n.written \subseteq w.pending \cup w.written \cup {u}
             /\ \A x \in Units : Known(w, x) => Known(n, x)
  <2>1. Sound(s) /\ Keeps(w, s)
    BY <1>2, <1>5, <1>6
  <2>2. Sound(p)
    <3>1. Ahead(p)
      BY <1>2, <1>3, <2>1 DEF Sound, Ahead
    <3>2. Behind(p)
      BY <1>2, <1>3, <2>1 DEF Sound, Behind
    <3>3. Chain(p, E)
      BY <1>2, <1>3, <2>1 DEF Sound, Chain
    <3> QED  BY <1>3, <3>1, <3>2, <3>3 DEF Sound
  <2>3. Sound(n) /\ Keeps(p, n)
    BY <1>4, <1>6, <2>2 DEF Turn
  <2>4. ASSUME NEW x \in Units, Known(s, x)  PROVE Known(p, x)
    BY <1>2, <1>3, <2>4 DEF Known, Skipped, Passed
  <2>5. Known(p, u)
    BY <1>3 DEF Known
  <2>6. ~Known(w, u)
    <3>1. /\ E \in Nat /\ u \in Nat /\ w.source \in Nat /\ w.last \in Nat
      BY UnitFacts, WriterFields
    <3>2. w.source < E \/ (w.source = E /\ u > w.last /\ u \notin w.pending)
      BY <3>1 DEF Refuses
    <3>3. u \notin w.pending
      BY <1>6, <3>1, <3>2 DEF Sound, Ahead
    <3>4. u \notin w.written
      BY <1>6, <3>1, <3>2 DEF Sound, Behind
    <3>5. ~Passed(w, u)
      BY <3>1, <3>2 DEF Passed
    <3> QED  BY <3>3, <3>4, <3>5 DEF Known, Skipped
  <2> QED  BY <1>3, <2>1, <2>3, <2>4, <2>5, <2>6 DEF Keeps
<1> QED  BY <1>1, <1>5, <1>6 DEF Took

(* The gap of the ingress: it is recorded unless nothing was written yet.   *)
LEMMA TakeGapFacts ==
    ASSUME NEW w \in Writers, w.bundle.state \in Busy
    PROVE  LET n == WriterGap(Drain(w)) IN
           /\ n \in Writers /\ n.pc = w.pc
           /\ n.bundle.state \in Busy /\ (w.bundle.gaps => n.bundle.gaps)
           /\ ~n.bundle.gaps /\ Sound(w) =>
                Sound(n) /\ Keeps(w, n) /\ n.pending = {} /\ n.written = {}
<1> DEFINE d == Drain(w)
           n == WriterGap(d)
<1>1. Turn(w, d) /\ d.pending = {}
  BY DrainFacts
<1> HIDE DEF d
<1>2. d \in Writers /\ d.pc = w.pc /\ d.bundle.state \in Busy /\ (w.bundle.gaps => d.bundle.gaps)
  BY <1>1 DEF Turn
<1>3. CASE d.bundle.state = "Arming"
  <2>1. n = d
    BY <1>3 DEF WriterGap
  <2>2. ~d.bundle.gaps /\ Sound(w) => Sound(d) /\ Keeps(w, d) /\ d.written = {}
    BY <1>1, <1>3 DEF Turn, Sound, Chain
  <2> QED  BY <1>1, <1>2, <2>1, <2>2 DEF d
<1>4. CASE d.bundle.state # "Arming"
  <2>1. n \in Writers /\ n.pc = d.pc /\ n.bundle.state = d.bundle.state /\ n.bundle.gaps
    BY <1>2, <1>4, GapFacts
  <2> QED  BY <1>2, <2>1 DEF d
<1> QED  BY <1>3, <1>4

-----------------------------------------------------------------------------
(* Steps that a call of the session leaves to do.                           *)

LEMMA StepFacts ==
    /\ \A event \in Events : Offer(event) \in Steps /\ Offer(event).op = "offer"
    /\ \A failure \in Failures : Fail(failure) \in Steps /\ Fail(failure).op = "fail"
    /\ \A request \in Requests : Control(request) \in Steps /\ Control(request).op = "control"
    /\ Drop \in Steps /\ Drop.op = "drop"
BY DEF Offer, Fail, Control, Drop, Steps

LEMMA SingleFacts ==
    ASSUME NEW x \in Steps
    PROVE  /\ <<x>> \in Seq(Steps) /\ <<x>> # <<>> /\ Ordered(<<x>>)
           /\ x.op = "drop" => LetsGo(<<x>>)
           /\ x.op \in {"offer", "fail"} => Plain(<<x>>)
           /\ x.op = "fail" => Fails(<<x>>)
<1>1. Len(<<x>>) = 1 /\ DOMAIN <<x>> = {1} /\ <<x>>[1] = x /\ <<x>> \in Seq(Steps) /\ <<x>> # <<>>
  OBVIOUS
<1> DEFINE s == <<x>>
<1>2. Len(s) = 1 /\ DOMAIN s = {1} /\ s[1] = x /\ s \in Seq(Steps) /\ s # <<>>
  BY <1>1
<1> HIDE DEF s
<1>3. /\ Ordered(s) /\ (x.op = "drop" => LetsGo(s)) /\ (x.op \in {"offer", "fail"} => Plain(s))
      /\ x.op = "fail" => Fails(s)
  BY <1>2 DEF Ordered, LetsGo, Plain, Fails
<1> QED  BY <1>2, <1>3 DEF s

LEMMA NothingToDo ==
    /\ <<>> \in Seq(Steps) /\ Plain(<<>>) /\ Ordered(<<>>) /\ ~LetsGo(<<>>) /\ ~Fails(<<>>)
BY DEF Plain, Ordered, LetsGo, Fails

LEMMA JoinFacts ==
    ASSUME NEW s \in Seq(Steps), NEW t \in Seq(Steps)
    PROVE  /\ s \o t \in Seq(Steps)
           /\ Plain(s) /\ Plain(t) => Plain(s \o t)
           /\ Plain(s) /\ Ordered(t) => Ordered(s \o t)
           /\ LetsGo(t) => LetsGo(s \o t)
           /\ Fails(s) \/ Fails(t) => Fails(s \o t)
<1> DEFINE a == Len(s)
           b == Len(t)
           j == s \o t
<1>1. /\ a \in Nat /\ b \in Nat /\ DOMAIN s = 1 .. a /\ DOMAIN t = 1 .. b
      /\ j \in Seq(Steps) /\ Len(j) = a + b /\ DOMAIN j = 1 .. a + b
      /\ \A i \in 1 .. a + b : j[i] = IF i <= a THEN s[i] ELSE t[i - a]
  BY ConcatProperties, LenProperties
<1> HIDE DEF a, b, j
<1>2. \A i \in 1 .. a : i \in 1 .. a + b /\ j[i] = s[i]
  BY <1>1
<1>3. \A i \in 1 .. b : a + i \in 1 .. a + b /\ j[a + i] = t[i]
  <2> SUFFICES ASSUME NEW i \in 1 .. b  PROVE a + i \in 1 .. a + b /\ j[a + i] = t[i]
    OBVIOUS
  <2>1. a + i \in 1 .. a + b /\ ~(a + i <= a) /\ (a + i) - a = i
    BY <1>1
  <2> QED  BY <1>1, <2>1
<1>4. \A i \in 1 .. a + b : i \in 1 .. a \/ (i - a \in 1 .. b /\ i = a + (i - a))
  BY <1>1
<1>5. ASSUME Plain(s), Plain(t)  PROVE Plain(j)
  <2> SUFFICES ASSUME NEW i \in 1 .. a + b  PROVE j[i].op \in {"offer", "fail"}
    BY <1>1 DEF Plain
  <2>1. CASE i \in 1 .. a
    BY <1>1, <1>2, <1>5, <2>1 DEF Plain
  <2>2. CASE i - a \in 1 .. b /\ i = a + (i - a)
    BY <1>1, <1>3, <1>5, <2>2 DEF Plain
  <2> QED  BY <1>4, <2>1, <2>2
<1>6. ASSUME Plain(s), Ordered(t)  PROVE Ordered(j)
  <2> SUFFICES ASSUME NEW i \in 1 .. a + b, i < a + b  PROVE j[i].op \in {"offer", "fail"}
    BY <1>1 DEF Ordered
  <2>1. CASE i \in 1 .. a
    BY <1>1, <1>2, <1>6, <2>1 DEF Plain
  <2>2. CASE i - a \in 1 .. b /\ i = a + (i - a)
    <3>1. i - a < b
      BY <1>1
    <3> QED  BY <1>1, <1>3, <1>6, <2>2, <3>1 DEF Ordered, b
  <2> QED  BY <1>4, <2>1, <2>2
<1>7. ASSUME LetsGo(t)  PROVE LetsGo(j)
  <2>1. b # 0 /\ t[b].op = "drop"
    BY <1>7 DEF LetsGo, b
  <2>2. b \in 1 .. b /\ a + b # 0
    BY <1>1, <2>1
  <2>3. j[a + b].op = "drop" /\ j # <<>>
    BY <1>1, <1>3, <2>1, <2>2
  <2> QED  BY <1>1, <2>3 DEF LetsGo
<1>8. Fails(s) \/ Fails(t) => Fails(j)
  BY <1>1, <1>2, <1>3 DEF Fails
<1> QED  BY <1>1, <1>5, <1>6, <1>7, <1>8 DEF j

LEMMA TailSteps ==
    ASSUME NEW s \in Seq(Steps), s # <<>>, Ordered(s)
    PROVE  /\ Head(s) \in Steps /\ Tail(s) \in Seq(Steps) /\ Ordered(Tail(s))
           /\ Head(s).op \notin {"offer", "fail"} => Tail(s) = <<>>
           /\ LetsGo(s) /\ Head(s).op # "drop" => LetsGo(Tail(s))
           /\ Fails(s) /\ Head(s).op # "fail" => Fails(Tail(s))
<1> DEFINE a == Len(s)
           t == Tail(s)
           h == Head(s)
<1>1. /\ a \in Nat \ {0} /\ DOMAIN s = 1 .. a /\ h = s[1] /\ h \in Steps
      /\ t \in Seq(Steps) /\ Len(t) = a - 1 /\ DOMAIN t = 1 .. a - 1
      /\ \A i \in 1 .. a - 1 : t[i] = s[i + 1]
  <2>1. h \in Steps /\ t \in Seq(Steps) /\ Len(t) = a - 1 /\ \A i \in 1 .. Len(t) : t[i] = s[i + 1]
    BY HeadTailProperties
  <2>2. DOMAIN t = 1 .. Len(t) /\ a \in Nat /\ DOMAIN s = 1 .. a /\ h = s[1]
    BY <2>1, LenProperties
  <2>3. a # 0
    BY EmptySeq
  <2> QED  BY <2>1, <2>2, <2>3
<1> HIDE DEF a, t, h
<1>2. \A i \in 1 .. a - 1 : i + 1 \in 1 .. a /\ (i < a - 1 => i + 1 < a)
  BY <1>1
<1>3. Ordered(t)
  BY <1>1, <1>2 DEF Ordered, a
<1>4. ASSUME h.op \notin {"offer", "fail"}  PROVE t = <<>>
  <2>1. ~(1 < a)
    BY <1>1, <1>4 DEF Ordered, a
  <2>2. Len(t) = 0
    BY <1>1, <2>1
  <2> QED  BY <1>1, <2>2
<1>5. ASSUME LetsGo(s), h.op # "drop"  PROVE LetsGo(t)
  <2>1. s[a].op = "drop" /\ a # 1
    BY <1>1, <1>5 DEF LetsGo, a
  <2>2. a - 1 \in 1 .. a - 1 /\ (a - 1) + 1 = a
    BY <1>1, <2>1
  <2>3. t[a - 1].op = "drop" /\ t # <<>>
    BY <1>1, <2>1, <2>2
  <2> QED  BY <1>1, <2>3 DEF LetsGo
<1>6. ASSUME Fails(s), h.op # "fail"  PROVE Fails(t)
  <2>1. PICK i \in 1 .. a : s[i].op = "fail"
    BY <1>1, <1>6 DEF Fails
  <2>2. i - 1 \in 1 .. a - 1 /\ (i - 1) + 1 = i
    BY <1>1, <1>6, <2>1
  <2> QED  BY <1>1, <2>1, <2>2 DEF Fails
<1> QED  BY <1>1, <1>3, <1>4, <1>5, <1>6 DEF t, h

-----------------------------------------------------------------------------
(* The session's calls.                                                     *)

LEMMA IngressFields ==
    ASSUME NEW e \in Ingresses
    PROVE  /\ e.queue \in Seq(Events) /\ e.accepted \in Seq(Events) /\ e.wait \in Seq(Waits)
           /\ e.todo \in Seq(Steps) /\ e.missed \in BOOLEAN
           /\ e.held \in BOOLEAN /\ e.failure \in Failures \cup {None}
           /\ Len(e.queue) \in Nat /\ Len(e.accepted) \in Nat /\ Taken(e) \in Int
BY DEF Ingresses, Taken

(* A call touches nothing that the worker sees, and announces what it gives *)
(* up.                                                                      *)
Untouched(e, n) ==
    /\ n \in Ingresses /\ n.held = e.held /\ n.failure = e.failure /\ n.result = e.result
    /\ n.queue = e.queue /\ n.accepted = e.accepted
    /\ ~e.held => n.missed = e.missed
    /\ Alive /\ Announced(e) => Announced(n)

Prepared(e, n) == Untouched(e, n) /\ (Plain(e.todo) => Plain(n.todo))

LEMMA PreparedItself ==
    ASSUME NEW e \in Ingresses
    PROVE  Prepared(e, e)
BY DEF Prepared, Untouched

LEMMA PreparedTrans ==
    ASSUME NEW e, NEW n, NEW o, Prepared(e, n), Prepared(n, o)
    PROVE  Prepared(e, o)
BY DEF Prepared, Untouched

LEMMA WaitFacts ==
    ASSUME NEW e \in Ingresses, NEW q \in Seq(Waits)
    PROVE  Prepared(e, [e EXCEPT !.wait = q])
<1> DEFINE n == [e EXCEPT !.wait = q]
<1>1. /\ n \in Ingresses /\ n.result = e.result /\ n.held = e.held /\ n.missed = e.missed
      /\ n.accepted = e.accepted /\ n.queue = e.queue /\ n.failure = e.failure /\ n.todo = e.todo
  BY DEF Ingresses
<1> HIDE DEF n
<1>2. Prepared(e, n)
  BY <1>1 DEF Prepared, Untouched, Announced
<1> QED  BY <1>2 DEF n

LEMMA EmptyWait == <<>> \in Seq(Waits)
OBVIOUS

(* More to do changes nothing else.                                         *)
LEMMA ThenFacts ==
    ASSUME NEW e \in Ingresses, NEW steps \in Seq(Steps)
    PROVE  LET n == Then(e, steps) IN
           /\ Untouched(e, n) /\ n.missed = e.missed /\ n.todo = e.todo \o steps
           /\ Plain(e.todo) /\ Plain(steps) => Plain(n.todo)
           /\ Plain(e.todo) /\ Ordered(steps) => Ordered(n.todo)
           /\ LetsGo(steps) => LetsGo(n.todo)
           /\ Fails(steps) => Fails(n.todo)
<1> DEFINE s == e.todo \o steps
           n == Then(e, steps)
<1>1. e.todo \in Seq(Steps)
  BY IngressFields
<1>2. /\ s \in Seq(Steps)
      /\ Plain(e.todo) /\ Plain(steps) => Plain(s)
      /\ Plain(e.todo) /\ Ordered(steps) => Ordered(s)
      /\ LetsGo(steps) => LetsGo(s)
      /\ Fails(e.todo) \/ Fails(steps) => Fails(s)
  BY <1>1, JoinFacts
<1> HIDE DEF s
<1>3. n = [e EXCEPT !.todo = s]
  BY DEF Then, s
<1> HIDE DEF n
<1>4. /\ n \in Ingresses /\ n.result = e.result /\ n.held = e.held /\ n.missed = e.missed
      /\ n.accepted = e.accepted /\ n.queue = e.queue /\ n.failure = e.failure /\ n.todo = s
  BY <1>2, <1>3 DEF Ingresses
<1>5. Announced(e) => Announced(n)
  BY <1>2, <1>4 DEF Announced
<1> QED  BY <1>2, <1>4, <1>5 DEF Untouched, n, s

LEMMA MissedFields ==
    ASSUME NEW e \in Ingresses
    PROVE  LET n == Missed(e) IN
           /\ n \in Ingresses /\ n.result = e.result /\ n.held = e.held /\ n.wait = e.wait
           /\ n.accepted = e.accepted /\ n.queue = e.queue /\ n.failure = e.failure
           /\ n.todo = e.todo /\ n.missed = (e.missed \/ e.held)
BY IngressFields DEF Missed, Ingresses

LEMMA GiveUpFacts ==
    ASSUME NEW e \in Ingresses, NEW failure \in Failures
    PROVE  Prepared(e, GiveUpWaiting(e, failure))
<1> DEFINE m == Missed(e)
           c == [m EXCEPT !.wait = <<>>]
           n == GiveUpWaiting(e, failure)
<1>1. /\ m \in Ingresses /\ m.result = e.result /\ m.held = e.held
      /\ m.accepted = e.accepted /\ m.queue = e.queue /\ m.failure = e.failure
      /\ m.todo = e.todo /\ m.missed = (e.missed \/ e.held)
  BY MissedFields
<1> HIDE DEF m
<1>2. /\ c \in Ingresses /\ c.result = e.result /\ c.held = e.held
      /\ c.accepted = e.accepted /\ c.queue = e.queue /\ c.failure = e.failure
      /\ c.todo = e.todo /\ c.missed = (e.missed \/ e.held)
  BY <1>1, EmptyWait DEF Ingresses
<1>3. n = Then(c, <<Fail(failure)>>)
  BY DEF GiveUpWaiting, m
<1> HIDE DEF c, n
<1>4. <<Fail(failure)>> \in Seq(Steps) /\ Plain(<<Fail(failure)>>) /\ Fails(<<Fail(failure)>>)
  BY StepFacts, SingleFacts
<1>5. /\ Untouched(c, n) /\ n.missed = c.missed /\ Fails(n.todo)
      /\ Plain(c.todo) => Plain(n.todo)
  BY <1>2, <1>3, <1>4, ThenFacts
<1>6. Announced(e) => Announced(n)
  <2>1. CASE e.held
    BY <1>2, <1>5, <2>1 DEF Untouched, Announced
  <2>2. CASE ~e.held
    BY <1>2, <1>5, <2>2 DEF Untouched, Announced
  <2> QED  BY <2>1, <2>2
<1>7. ~e.held => n.missed = e.missed
  BY <1>2, <1>5, IngressFields
<1> QED  BY <1>2, <1>5, <1>6, <1>7 DEF Prepared, Untouched, n

LEMMA ResolveFacts ==
    ASSUME NEW e \in Ingresses, NEW late \in BOOLEAN
    PROVE  Prepared(e, Resolve(e, late))
<1>1. CASE stream.config = 0
  BY <1>1, PreparedItself DEF Resolve
<1>2. CASE stream.config # 0 /\ late /\ e.wait # <<>>
  <2>1. Resolve(e, late) = GiveUpWaiting(e, "ConfigurationUnavailable")
    BY <1>2 DEF Resolve
  <2>2. "ConfigurationUnavailable" \in Failures
    BY DEF Failures
  <2> QED  BY <2>1, <2>2, GiveUpFacts
<1>3. CASE stream.config # 0 /\ ~(late /\ e.wait # <<>>)
  <2> DEFINE known == [i \in DOMAIN e.wait |->
                          [e.wait[i] EXCEPT !.known = @ \/ Epoch(e.wait[i].unit) = stream.config]]
             opened == {i \in DOMAIN known : \A j \in 1 .. i : known[j].known}
             open == Cardinality(opened)
             steps == [i \in 1 .. open |-> Offer(known[i].unit)]
             rest == SubSeq(known, open + 1, Len(known))
             first == [e EXCEPT !.wait = rest]
             n == Then(first, steps)
  <2>1. Resolve(e, late) = n
    BY <1>3 DEF Resolve
  <2>2. e.wait \in Seq(Waits) /\ DOMAIN e.wait = 1 .. Len(e.wait) /\ Len(e.wait) \in Nat
        /\ \A i \in DOMAIN e.wait : e.wait[i] \in Waits
    BY IngressFields, LenProperties, ElementOfSeq
  <2>3. \A i \in DOMAIN e.wait :
           [e.wait[i] EXCEPT !.known = @ \/ Epoch(e.wait[i].unit) = stream.config] \in Waits
    BY <2>2 DEF Waits
  <2>4. known \in [1 .. Len(e.wait) -> Waits] /\ DOMAIN known = 1 .. Len(e.wait)
    BY <2>2, <2>3
  <2> HIDE DEF known
  <2>5. known \in Seq(Waits) /\ Len(known) = Len(e.wait)
    BY <2>2, <2>4, SeqDef, LenProperties
  <2>6. open \in 0 .. Len(known)
    <3>1. opened \subseteq 1 .. Len(known)
      BY <2>4, <2>5
    <3> HIDE DEF opened
    <3>2. IsFiniteSet(1 .. Len(known)) /\ Cardinality(1 .. Len(known)) = Len(known)
      BY <2>2, <2>5, FS_Interval
    <3>3. IsFiniteSet(opened) /\ Cardinality(opened) <= Len(known)
      BY <3>1, <3>2, FS_Subset
    <3>4. Cardinality(opened) \in Nat
      BY <3>3, FS_CardinalityType
    <3> QED  BY <2>2, <2>5, <3>3, <3>4
  <2> HIDE DEF open
  <2>7. rest \in Seq(Waits)
    BY <2>2, <2>5, <2>6, SubSeqProperties
  <2>8. steps \in Seq(Steps) /\ Plain(steps)
    <3>1. open \in Nat /\ \A i \in 1 .. open : i \in 1 .. Len(e.wait)
      BY <2>2, <2>5, <2>6
    <3>2. \A i \in 1 .. open : known[i].unit \in Events
      BY <2>4, <3>1 DEF Waits, Events
    <3>3. \A i \in 1 .. open : steps[i] \in Steps /\ steps[i].op = "offer"
      BY <3>2, StepFacts
    <3>4. DOMAIN steps = 1 .. open /\ steps = [i \in 1 .. open |-> steps[i]]
      OBVIOUS
    <3> HIDE DEF steps
    <3>5. steps \in [1 .. open -> Steps]
      BY <3>3, <3>4
    <3> QED  BY <3>1, <3>3, <3>4, <3>5, SeqDef DEF Plain
  <2> HIDE DEF rest, steps
  <2>9. Prepared(e, first) /\ first \in Ingresses
    BY <2>7, WaitFacts DEF Prepared, Untouched
  <2> HIDE DEF first
  <2>10. Prepared(first, n)
    BY <2>8, <2>9, ThenFacts DEF Prepared
  <2> HIDE DEF n
  <2> QED  BY <2>1, <2>9, <2>10, PreparedTrans
<1> QED  BY <1>1, <1>2, <1>3

LEMMA PushWaitFacts ==
    ASSUME NEW e \in Ingresses, NEW u \in Units
    PROVE  Prepared(e, PushWait(e, u))
<1>1. CASE Len(e.wait) = WaitCapacity
  <2>1. "Capacity" \in Failures
    BY DEF Failures
  <2> QED  BY <1>1, <2>1, GiveUpFacts DEF PushWait
<1>2. CASE Len(e.wait) # WaitCapacity
  <2> DEFINE q == Append(e.wait, [unit |-> u, known |-> Epoch(u) = stream.config])
  <2>1. q \in Seq(Waits)
    <3>1. [unit |-> u, known |-> Epoch(u) = stream.config] \in Waits
      BY DEF Waits
    <3> QED  BY <3>1, IngressFields, AppendProperties
  <2>2. PushWait(e, u) = [e EXCEPT !.wait = q]
    BY <1>2 DEF PushWait
  <2> HIDE DEF q
  <2> QED  BY <2>1, <2>2, WaitFacts
<1> QED  BY <1>1, <1>2

LEMMA RecordFacts ==
    ASSUME NEW e \in Ingresses, NEW u \in Units, NEW late \in BOOLEAN,
           e.held => stream.config # 0, e.result # None => ~Alive
    PROVE  Prepared(e, RecordAssembledAccessUnit(e, u, late))
<1>1. CASE ~IsAccepting(e) \/ stream.config = 0
  <2> DEFINE n == Missed(e)
  <2>1. ~e.held \/ e.failure # None \/ ~Alive
    BY <1>1 DEF IsAccepting
  <2>2. /\ n \in Ingresses /\ n.result = e.result /\ n.held = e.held
        /\ n.accepted = e.accepted /\ n.queue = e.queue /\ n.failure = e.failure
        /\ n.todo = e.todo /\ n.missed = (e.missed \/ e.held) /\ e.missed \in BOOLEAN
    BY MissedFields, IngressFields
  <2> HIDE DEF n
  <2>3. Prepared(e, n)
    BY <2>1, <2>2 DEF Prepared, Untouched, Announced
  <2> QED  BY <1>1, <2>3 DEF RecordAssembledAccessUnit, n
<1>2. CASE ~(~IsAccepting(e) \/ stream.config = 0)
  <2> DEFINE a == Resolve(e, late)
             b == PushWait(a, u)
             c == Resolve(b, FALSE)
  <2>1. RecordAssembledAccessUnit(e, u, late) = c
    BY <1>2 DEF RecordAssembledAccessUnit
  <2>2. Prepared(e, a) /\ a \in Ingresses
    BY ResolveFacts DEF Prepared, Untouched
  <2> HIDE DEF a
  <2>3. Prepared(a, b) /\ b \in Ingresses
    BY <2>2, PushWaitFacts DEF Prepared, Untouched
  <2> HIDE DEF b
  <2>4. Prepared(b, c)
    BY <2>3, ResolveFacts
  <2> HIDE DEF c
  <2>5. Prepared(e, b)
    BY <2>2, <2>3, PreparedTrans
  <2> QED  BY <2>1, <2>4, <2>5, PreparedTrans
<1> QED  BY <1>1, <1>2

LEMMA ReportFacts ==
    ASSUME NEW e \in Ingresses
    PROVE  Prepared(e, ReportGap(e))
<1>1. <<Offer(Gap)>> \in Seq(Steps) /\ Plain(<<Offer(Gap)>>)
  <2>1. Gap \in Events
    BY DEF Events
  <2> QED  BY <2>1, StepFacts, SingleFacts
<1> QED  BY <1>1, ThenFacts DEF ReportGap, Prepared

LEMMA StopFacts ==
    ASSUME NEW e \in Ingresses, NEW late \in BOOLEAN, Plain(e.todo)
    PROVE  LET n == StopEncoded(e, late) IN
           Untouched(e, n) /\ Ordered(n.todo) /\ LetsGo(n.todo)
<1> DEFINE r == Resolve(e, late)
           g == GiveUpWaiting(r, "ConfigurationUnavailable")
           s == IF r.wait = <<>> THEN r ELSE g
           n == StopEncoded(e, late)
<1>1. n = Then(s, <<Drop>>)
  BY DEF StopEncoded
<1>2. Prepared(e, r) /\ r \in Ingresses
  BY ResolveFacts DEF Prepared, Untouched
<1> HIDE DEF r, n
<1>3. Prepared(r, g)
  <2>1. "ConfigurationUnavailable" \in Failures
    BY DEF Failures
  <2> QED  BY <1>2, <2>1, GiveUpFacts
<1> HIDE DEF g
<1>4. Prepared(e, s)
  BY <1>2, <1>3, PreparedTrans
<1> HIDE DEF s
<1>5. s \in Ingresses /\ Plain(s.todo)
  BY <1>4 DEF Prepared, Untouched
<1>6. <<Drop>> \in Seq(Steps) /\ Ordered(<<Drop>>) /\ LetsGo(<<Drop>>)
  BY StepFacts, SingleFacts
<1>7. Untouched(s, n) /\ Ordered(n.todo) /\ LetsGo(n.todo)
  BY <1>1, <1>5, <1>6, ThenFacts
<1>8. Untouched(e, n)
  BY <1>4, <1>7 DEF Prepared, Untouched
<1> QED  BY <1>7, <1>8 DEF n

-----------------------------------------------------------------------------
(* The session's steps.                                                     *)

(* What the session may make of the ingress: the queue takes more, the      *)
(* failure is set or the handle dropped; nothing that was accepted changes, *)
(* and what was missed stays announced.                                     *)
Grows(e, n) ==
    /\ Taken(n) = Taken(e) /\ Len(n.accepted) >= Len(e.accepted)
    /\ \A i \in 1 .. Len(e.accepted) : n.accepted[i] = e.accepted[i]
    /\ Synced(e) => Synced(n)

Later(e, n) ==
    /\ n \in Ingresses /\ n.result = e.result /\ Ordered(n.todo)
    /\ n.held => e.held
    /\ ~e.held => n.accepted = e.accepted /\ n.missed = e.missed
    /\ e.failure # None => n.failure # None
    /\ Alive /\ Announced(e) => Announced(n)
    /\ Alive => Grows(e, n)

LEMMA GrowsSame ==
    ASSUME NEW e \in Ingresses, NEW n, n.queue = e.queue, n.accepted = e.accepted
    PROVE  Grows(e, n)
BY IngressFields DEF Grows, Taken, Synced

LEMMA LaterUntouched ==
    ASSUME NEW e \in Ingresses, NEW n, Untouched(e, n), Ordered(n.todo)
    PROVE  Later(e, n)
<1>1. Grows(e, n)
  BY GrowsSame DEF Untouched
<1> QED  BY <1>1 DEF Later, Untouched

LEMMA QueueGrows ==
    ASSUME NEW e \in Ingresses, NEW n \in Ingresses, NEW event \in Events,
           n.queue = Append(e.queue, event), n.accepted = Append(e.accepted, event)
    PROVE  Grows(e, n)
<1> DEFINE a == Len(e.queue)
           b == Len(e.accepted)
<1>1. /\ a \in Nat /\ b \in Nat /\ Len(n.queue) = a + 1 /\ Len(n.accepted) = b + 1
      /\ DOMAIN n.queue = 1 .. a + 1 /\ DOMAIN e.queue = 1 .. a
      /\ \A i \in 1 .. a : n.queue[i] = e.queue[i]
      /\ \A i \in 1 .. b : n.accepted[i] = e.accepted[i]
      /\ n.queue[a + 1] = event /\ n.accepted[b + 1] = event
  BY IngressFields, AppendProperties, LenProperties
<1>2. Taken(n) = b - a /\ Taken(e) = b - a
  <2>1. Taken(n) = (b + 1) - (a + 1) /\ Taken(e) = b - a
    BY <1>1 DEF Taken
  <2> HIDE DEF a, b
  <2> QED  BY <1>1, <2>1
<1> DEFINE In(q, o, c) == \A k \in 1 .. c : q[k] = o[b - a + k]
<1>3. Synced(e) <=> a <= b /\ In(e.queue, e.accepted, a)
  BY <1>1, <1>2 DEF Synced
<1>4. Synced(n) <=> a + 1 <= b + 1 /\ In(n.queue, n.accepted, a + 1)
  BY <1>1, <1>2 DEF Synced
<1> HIDE DEF a, b
<1>5. ASSUME Synced(e), NEW k \in 1 .. a + 1  PROVE n.queue[k] = n.accepted[b - a + k]
  <2>1. CASE k \in 1 .. a
    <3>1. b - a + k \in 1 .. b /\ e.queue[k] = e.accepted[b - a + k]
      BY <1>1, <1>3, <1>5, <2>1
    <3> QED  BY <1>1, <2>1, <3>1
  <2>2. CASE k = a + 1
    <3>1. b - a + k = b + 1
      BY <1>1, <2>2
    <3>2. n.accepted[b - a + k] = event
      BY <1>1, <3>1
    <3>3. n.queue[k] = event
      BY <1>1, <2>2
    <3> QED  BY <3>2, <3>3
  <2>3. k \in 1 .. a \/ k = a + 1
    BY <1>1
  <2> QED  BY <2>1, <2>2, <2>3
<1>6. Synced(e) => Synced(n)
  <2>1. a <= b => a + 1 <= b + 1
    BY <1>1
  <2>2. Synced(e) => In(n.queue, n.accepted, a + 1)
    BY <1>5
  <2> HIDE DEF In
  <2> QED  BY <1>3, <1>4, <2>1, <2>2
<1> QED  BY <1>1, <1>2, <1>6 DEF Grows, b

LEMMA LaterKeepsShape ==
    ASSUME NEW n, EncodedShape(enc, encWorker), Later(enc, n)
    PROVE  EncodedShape(n, encWorker)
<1> DEFINE e == enc
           w == encWorker
           t == Taken(e)
<1>1. /\ e \in Ingresses /\ w \in Writers /\ n \in Ingresses /\ n.result = e.result
      /\ Ordered(n.todo)
  BY DEF EncodedShape, Later
<1>2. Alive <=> Lives(w)
  BY DEF Alive, Lives
<1>3. ASSUME Lives(w), ~w.bundle.gaps
      PROVE  Intact(n, w)
  <2>1. Grows(e, n) /\ Intact(e, w)
    BY <1>2, <1>3 DEF Later, EncodedShape
  <2>2. Synced(n) /\ Sound(w) /\ Taken(n) = t
    BY <2>1 DEF Intact, Grows
  <2>3. \A i \in 1 .. t : n.accepted[i] = e.accepted[i]
    <3> DEFINE a == Len(e.accepted)
               b == Len(e.queue)
    <3>1. a \in Nat /\ b \in Nat /\ t = a - b
      BY <1>1, IngressFields DEF Taken
    <3>2. \A i \in 1 .. a : n.accepted[i] = e.accepted[i]
      BY <2>1 DEF Grows
    <3> HIDE DEF t, a, b
    <3>3. \A i \in 1 .. t : i \in 1 .. a
      BY <3>1
    <3> QED  BY <3>2, <3>3
  <2>4. Account(e.accepted, t, w)
    BY <2>1 DEF Intact
  <2> HIDE DEF t, e, w
  <2>5. Account(n.accepted, t, w)
    BY <2>3, <2>4 DEF Account
  <2> QED  BY <2>2, <2>5 DEF Intact, w, t, e
<1>4. Lives(w) => w.bundle.state \in Busy /\ Announced(n)
  BY <1>2 DEF EncodedShape, Later
<1>5. (w.pc \in {"Done", "Freed"} /\ w.bundle.state = "Complete") \/ n.result = "Complete" =>
          ~n.held /\ Whole(n.accepted, w.written) /\ (n.missed => n.failure # None)
  BY <1>1 DEF EncodedShape, Later
<1> QED  BY <1>1, <1>3, <1>4, <1>5 DEF EncodedShape

(* What a step keeps of the encoded recording.                              *)
EncodedInv == stream \in [config : Nat, floor : Nat, decided : SUBSET Units]
              /\ HeldIsConfigured /\ EncodedShape(enc, encWorker)

LEMMA SessionStep ==
    ASSUME EncodedInv, UNCHANGED encWorker, Later(enc, enc'),
           stream' \in [config : Nat, floor : Nat, decided : SUBSET Units],
           enc'.held => stream'.config # 0 \/ LetsGo(enc'.todo)
    PROVE  EncodedInv'
<1>1. EncodedShape(enc', encWorker)
  BY LaterKeepsShape DEF EncodedInv
<1>2. EncodedShape(enc, encWorker)'
  BY <1>1
<1> QED  BY <1>2 DEF EncodedInv, HeldIsConfigured

(* Where a call of the session starts.                                      *)
LEMMA FreeFacts ==
    ASSUME EncodedInv, SessionIsFree
    PROVE  /\ enc \in Ingresses /\ Plain(enc.todo) /\ (enc.held => stream.config # 0)
           /\ enc.result # None => ~Alive
           /\ stream \in [config : Nat, floor : Nat, decided : SUBSET Units]
<1>1. enc \in Ingresses /\ (enc.result # None => ~Alive)
  BY DEF EncodedInv, EncodedShape, Alive
<1>2. enc.todo = <<>>
  BY DEF SessionIsFree
<1> QED  BY <1>1, <1>2, NothingToDo DEF EncodedInv, HeldIsConfigured

LEMMA StopStep ==
    ASSUME EncodedInv, NEW late \in BOOLEAN, StopEncodedRecording(late)
    PROVE  EncodedInv'
<1>1. /\ enc \in Ingresses /\ Plain(enc.todo) /\ enc' = StopEncoded(enc, late)
      /\ UNCHANGED <<stream, encWorker>>
  BY FreeFacts DEF StopEncodedRecording
<1>2. Untouched(enc, enc') /\ Ordered(enc'.todo) /\ LetsGo(enc'.todo)
  BY <1>1, StopFacts
<1> QED  BY <1>1, <1>2, LaterUntouched, SessionStep DEF EncodedInv

LEMMA PumpStep ==
    ASSUME EncodedInv, NEW late \in BOOLEAN, NEW request \in Requests,
           PumpRecordingControl(late, request)
    PROVE  EncodedInv'
<1> DEFINE r == Resolve(enc, late)
<1>1. /\ enc \in Ingresses /\ Plain(enc.todo) /\ (enc.held => stream.config # 0)
      /\ enc' = Then(r, <<Control(request)>>) /\ UNCHANGED <<stream, encWorker>>
  BY FreeFacts DEF PumpRecordingControl
<1>2. Prepared(enc, r) /\ r \in Ingresses /\ Plain(r.todo)
  BY <1>1, ResolveFacts DEF Prepared, Untouched
<1> HIDE DEF r
<1>3. <<Control(request)>> \in Seq(Steps) /\ Ordered(<<Control(request)>>)
  BY StepFacts, SingleFacts
<1>4. Untouched(r, enc') /\ Ordered(enc'.todo)
  BY <1>1, <1>2, <1>3, ThenFacts
<1>5. Untouched(enc, enc')
  BY <1>2, <1>4 DEF Prepared, Untouched
<1>6. enc'.held => stream'.config # 0
  BY <1>1, <1>5 DEF Untouched
<1> QED  BY <1>1, <1>4, <1>5, <1>6, LaterUntouched, SessionStep DEF EncodedInv

(* Calls that end with what the gate let through.                           *)
LEMMA PreparedStep ==
    ASSUME EncodedInv, SessionIsFree, UNCHANGED encWorker, Prepared(enc, enc'),
           stream' \in [config : Nat, floor : Nat, decided : SUBSET Units],
           stream'.config = stream.config
    PROVE  EncodedInv'
<1>1. enc \in Ingresses /\ Plain(enc.todo) /\ (enc.held => stream.config # 0)
  BY FreeFacts
<1>2. Untouched(enc, enc') /\ Plain(enc'.todo)
  BY <1>1 DEF Prepared
<1>3. Ordered(enc'.todo) /\ (enc'.held => stream'.config # 0)
  BY <1>1, <1>2 DEF Plain, Ordered, Untouched
<1> QED  BY <1>1, <1>2, <1>3, LaterUntouched, SessionStep

LEMMA CompleteStep ==
    ASSUME EncodedInv, NEW u \in Units, NEW late \in BOOLEAN, CompleteAccessUnit(u, late)
    PROVE  EncodedInv'
<1>0. SessionIsFree
  BY DEF CompleteAccessUnit, Undecided
<1>1. /\ enc \in Ingresses /\ UNCHANGED encWorker
      /\ enc' = RecordAssembledAccessUnit(enc, u, late)
      /\ stream \in [config : Nat, floor : Nat, decided : SUBSET Units]
      /\ stream' = [stream EXCEPT !.decided = @ \union {u}]
      /\ (enc.held => stream.config # 0) /\ (enc.result # None => ~Alive)
  BY <1>0, FreeFacts DEF CompleteAccessUnit
<1>2. /\ stream'.config = stream.config
      /\ stream' \in [config : Nat, floor : Nat, decided : SUBSET Units]
  BY <1>1
<1>3. Prepared(enc, enc')
  BY <1>1, RecordFacts
<1> QED  BY <1>0, <1>1, <1>2, <1>3, PreparedStep

LEMMA LoseStep ==
    ASSUME EncodedInv, NEW u \in Units, LoseAccessUnit(u)
    PROVE  EncodedInv'
<1>0. SessionIsFree
  BY DEF LoseAccessUnit, Undecided
<1>1. /\ enc \in Ingresses /\ UNCHANGED encWorker /\ enc' = ReportGap(enc)
      /\ stream \in [config : Nat, floor : Nat, decided : SUBSET Units]
      /\ stream' = [stream EXCEPT !.decided = @ \union {u}]
  BY <1>0, FreeFacts DEF LoseAccessUnit
<1>2. /\ stream'.config = stream.config
      /\ stream' \in [config : Nat, floor : Nat, decided : SUBSET Units]
  BY <1>1
<1>3. Prepared(enc, enc')
  BY <1>1, ReportFacts
<1> QED  BY <1>0, <1>1, <1>2, <1>3, PreparedStep

LEMMA ConfigStep ==
    ASSUME EncodedInv, NEW epoch \in Epochs, HandleStreamConfig(epoch)
    PROVE  EncodedInv'
<1>1. /\ enc \in Ingresses /\ Plain(enc.todo) /\ UNCHANGED <<enc, encWorker>>
      /\ stream \in [config : Nat, floor : Nat, decided : SUBSET Units]
      /\ stream' = [stream EXCEPT !.config = epoch]
  BY FreeFacts DEF HandleStreamConfig
<1>2. epoch \in Nat \ {0}
  BY UnitFacts DEF Epochs
<1>3. stream'.config # 0 /\ stream' \in [config : Nat, floor : Nat, decided : SUBSET Units]
  BY <1>1, <1>2
<1>4. Untouched(enc, enc') /\ Ordered(enc'.todo)
  BY <1>1, PreparedItself DEF Prepared, Plain, Ordered
<1> QED  BY <1>1, <1>3, <1>4, LaterUntouched, SessionStep

LEMMA ResetStep ==
    ASSUME EncodedInv, ResetSessionResources
    PROVE  EncodedInv'
<1> DEFINE g == ReportGap(enc)
<1>0. SessionIsFree
  BY DEF ResetSessionResources
<1>1. /\ enc \in Ingresses /\ UNCHANGED encWorker /\ enc' = StopEncoded(g, FALSE)
      /\ stream \in [config : Nat, floor : Nat, decided : SUBSET Units]
      /\ stream' = [stream EXCEPT !.config = 0, !.floor = stream.config]
      /\ Plain(enc.todo)
  BY <1>0, FreeFacts DEF ResetSessionResources
<1>2. stream' \in [config : Nat, floor : Nat, decided : SUBSET Units]
  BY <1>1
<1>3. Prepared(enc, g) /\ g \in Ingresses /\ Plain(g.todo)
  BY <1>1, ReportFacts DEF Prepared, Untouched
<1> HIDE DEF g
<1>4. Untouched(g, enc') /\ Ordered(enc'.todo) /\ LetsGo(enc'.todo)
  BY <1>1, <1>3, StopFacts
<1>5. Untouched(enc, enc')
  BY <1>3, <1>4 DEF Prepared, Untouched
<1> QED  BY <1>1, <1>2, <1>4, <1>5, LaterUntouched, SessionStep

-----------------------------------------------------------------------------
(* What a call left to do, one access after the other.                      *)

(* The first step is taken off.                                             *)
LEMMA RestFacts ==
    ASSUME NEW e \in Ingresses, e.todo # <<>>, Ordered(e.todo)
    PROVE  LET r == [e EXCEPT !.todo = Tail(@)] IN
           /\ r \in Ingresses /\ r.result = e.result /\ r.held = e.held /\ r.missed = e.missed
           /\ r.accepted = e.accepted /\ r.queue = e.queue /\ r.failure = e.failure
           /\ r.todo = Tail(e.todo) /\ Ordered(r.todo)
<1>1. e.todo \in Seq(Steps)
  BY IngressFields
<1>2. Tail(e.todo) \in Seq(Steps) /\ Ordered(Tail(e.todo))
  BY <1>1, TailSteps
<1> QED  BY <1>2 DEF Ingresses

(* An offer is taken, or refused and the failure is next.                   *)
LEMMA OfferFacts ==
    ASSUME NEW e \in Ingresses, e.todo # <<>>, Ordered(e.todo), Head(e.todo).op = "offer",
           NEW event \in Events, NEW old \in BOOLEAN
    PROVE  LET n == OfferEvent([e EXCEPT !.todo = Tail(@)], event, old) IN
           /\ Later(e, n) /\ n.held = e.held
           /\ LetsGo(e.todo) => LetsGo(n.todo)
<1> DEFINE r == [e EXCEPT !.todo = Tail(@)]
           m == Missed(r)
           n == OfferEvent(r, event, old)
           Refused(failure) == [m EXCEPT !.todo = <<Fail(failure)>> \o @]
<1>1. /\ r \in Ingresses /\ r.result = e.result /\ r.held = e.held /\ r.missed = e.missed
      /\ r.accepted = e.accepted /\ r.queue = e.queue /\ r.failure = e.failure
      /\ r.todo = Tail(e.todo) /\ Ordered(r.todo)
  BY RestFacts
<1>2. (LetsGo(e.todo) => LetsGo(r.todo)) /\ (Fails(e.todo) => Fails(r.todo))
  <2>1. e.todo \in Seq(Steps)
    BY IngressFields
  <2> QED  BY <1>1, <2>1, TailSteps
<1>3. e.missed \in BOOLEAN /\ e.held \in BOOLEAN
  BY IngressFields
<1>4. n = IF ~r.held \/ r.failure # None THEN m
          ELSE IF old THEN Refused("TooOld")
          ELSE IF ~Alive THEN Refused("WorkerStopped")
          ELSE IF Len(r.queue) = IngressCapacity THEN Refused("Capacity")
          ELSE [r EXCEPT !.queue = Append(@, event), !.accepted = Append(@, event)]
  BY DEF OfferEvent
<1> HIDE DEF r, n
<1>5. /\ m \in Ingresses /\ m.result = e.result /\ m.held = e.held
      /\ m.accepted = e.accepted /\ m.queue = e.queue /\ m.failure = e.failure
      /\ m.todo = r.todo /\ m.missed = (e.missed \/ e.held)
  BY <1>1, MissedFields
<1> HIDE DEF m
<1>6. CASE ~e.held \/ e.failure # None
  <2>1. n = m
    BY <1>1, <1>4, <1>6
  <2>2. Announced(e) => Announced(n)
    BY <1>3, <1>5, <1>6, <2>1 DEF Announced
  <2>3. Grows(e, n)
    BY <1>5, <2>1, GrowsSame
  <2> QED  BY <1>1, <1>2, <1>3, <1>5, <2>1, <2>2, <2>3 DEF Later, n, r
<1>7. ASSUME e.held, NEW failure \in Failures, n = Refused(failure)
      PROVE  Later(e, n) /\ n.held = e.held /\ (LetsGo(e.todo) => LetsGo(n.todo))
  <2> DEFINE s == <<Fail(failure)>> \o r.todo
  <2>1. <<Fail(failure)>> \in Seq(Steps) /\ Plain(<<Fail(failure)>>) /\ Fails(<<Fail(failure)>>)
    BY StepFacts, SingleFacts
  <2>2. r.todo \in Seq(Steps)
    BY <1>1, IngressFields
  <2>3. s \in Seq(Steps) /\ Ordered(s) /\ Fails(s) /\ (LetsGo(r.todo) => LetsGo(s))
    BY <1>1, <2>1, <2>2, JoinFacts
  <2>4. n = [m EXCEPT !.todo = s]
    BY <1>5, <1>7
  <2> HIDE DEF s
  <2>5. /\ n \in Ingresses /\ n.result = e.result /\ n.held = e.held
        /\ n.accepted = e.accepted /\ n.queue = e.queue /\ n.failure = e.failure /\ n.todo = s
    BY <1>5, <2>3, <2>4 DEF Ingresses
  <2>6. Announced(n)
    BY <1>7, <2>3, <2>5 DEF Announced
  <2>7. Grows(e, n)
    BY <2>5, GrowsSame
  <2> QED  BY <1>2, <1>7, <2>3, <2>5, <2>6, <2>7 DEF Later
<1>8. ASSUME e.held, e.failure = None,
             n = [r EXCEPT !.queue = Append(@, event), !.accepted = Append(@, event)]
      PROVE  Later(e, n) /\ n.held = e.held /\ (LetsGo(e.todo) => LetsGo(n.todo))
  <2>1. Append(e.queue, event) \in Seq(Events) /\ Append(e.accepted, event) \in Seq(Events)
    BY IngressFields, AppendProperties
  <2>2. /\ n \in Ingresses /\ n.result = e.result /\ n.held = e.held /\ n.missed = e.missed
        /\ n.failure = e.failure /\ n.todo = r.todo
        /\ n.queue = Append(e.queue, event) /\ n.accepted = Append(e.accepted, event)
    BY <1>1, <1>8, <2>1 DEF Ingresses
  <2>3. Grows(e, n)
    BY <2>2, QueueGrows
  <2>4. Announced(e) => Announced(n)
    BY <1>2, <2>2 DEF Announced
  <2> QED  BY <1>1, <1>2, <1>8, <2>2, <2>3, <2>4 DEF Later
<1>9. {"TooOld", "WorkerStopped", "Capacity"} \subseteq Failures
  BY DEF Failures
<1> QED
  <2>1. CASE e.held /\ e.failure = None
    <3>1. \/ n = Refused("TooOld") \/ n = Refused("WorkerStopped") \/ n = Refused("Capacity")
          \/ n = [r EXCEPT !.queue = Append(@, event), !.accepted = Append(@, event)]
      BY <1>1, <1>4, <2>1
    <3>2. Later(e, n) /\ n.held = e.held /\ (LetsGo(e.todo) => LetsGo(n.todo))
      BY <1>7, <1>8, <1>9, <2>1, <3>1
    <3> QED  BY <3>2 DEF n, r
  <2> QED  BY <1>6, <2>1

LEMMA TerminateFacts ==
    ASSUME NEW e \in Ingresses, e.todo # <<>>, Ordered(e.todo), Head(e.todo).op = "fail",
           NEW failure \in Failures
    PROVE  LET n == Terminate([e EXCEPT !.todo = Tail(@)], failure) IN
           /\ Later(e, n) /\ n.held = e.held
           /\ LetsGo(e.todo) => LetsGo(n.todo)
<1> DEFINE r == [e EXCEPT !.todo = Tail(@)]
           n == Terminate(r, failure)
<1>1. /\ r \in Ingresses /\ r.result = e.result /\ r.held = e.held /\ r.missed = e.missed
      /\ r.accepted = e.accepted /\ r.queue = e.queue /\ r.failure = e.failure
      /\ r.todo = Tail(e.todo) /\ Ordered(r.todo)
  BY RestFacts
<1>2. LetsGo(e.todo) => LetsGo(r.todo)
  <2>1. e.todo \in Seq(Steps)
    BY IngressFields
  <2> QED  BY <1>1, <2>1, TailSteps
<1>3. failure # None
  BY DEF Failures, None
<1>4. n = IF r.held /\ r.failure = None THEN [r EXCEPT !.failure = failure] ELSE r
  BY DEF Terminate
<1> HIDE DEF r, n
<1>5. /\ n \in Ingresses /\ n.result = e.result /\ n.held = e.held /\ n.missed = e.missed
      /\ n.accepted = e.accepted /\ n.queue = e.queue /\ n.todo = r.todo
      /\ n.failure = IF e.held /\ e.failure = None THEN failure ELSE e.failure
  BY <1>1, <1>4 DEF Ingresses
<1>6. Announced(e) => Announced(n)
  BY <1>3, <1>5 DEF Announced
<1>7. Grows(e, n)
  BY <1>5, GrowsSame
<1> QED  BY <1>1, <1>2, <1>3, <1>5, <1>6, <1>7 DEF Later, n, r

LEMMA DropFacts ==
    ASSUME NEW e \in Ingresses, e.todo # <<>>, Ordered(e.todo), Head(e.todo).op = "drop"
    PROVE  LET n == [[e EXCEPT !.todo = Tail(@)] EXCEPT !.held = FALSE] IN
           Later(e, n) /\ ~n.held
<1> DEFINE r == [e EXCEPT !.todo = Tail(@)]
           n == [r EXCEPT !.held = FALSE]
<1>1. /\ r \in Ingresses /\ r.result = e.result /\ r.held = e.held /\ r.missed = e.missed
      /\ r.accepted = e.accepted /\ r.queue = e.queue /\ r.failure = e.failure
      /\ r.todo = Tail(e.todo) /\ Ordered(r.todo)
  BY RestFacts
<1> HIDE DEF r
<1>2. /\ n \in Ingresses /\ n.result = e.result /\ ~n.held /\ n.missed = e.missed
      /\ n.accepted = e.accepted /\ n.queue = e.queue /\ n.failure = e.failure /\ n.todo = r.todo
  BY <1>1 DEF Ingresses
<1> HIDE DEF n
<1>3. ~Fails(e.todo)
  <2>1. e.todo \in Seq(Steps)
    BY IngressFields
  <2>2. Tail(e.todo) = <<>> /\ (Fails(e.todo) => Fails(Tail(e.todo)))
    BY <2>1, TailSteps
  <2> QED  BY <2>2, NothingToDo
<1>4. Announced(e) => Announced(n)
  BY <1>2, <1>3 DEF Announced
<1>5. Grows(e, n)
  BY <1>2, GrowsSame
<1> QED  BY <1>1, <1>2, <1>4, <1>5 DEF Later, n, r

(* A refresh is taken, and may stop the recording.                          *)
LEMMA ControlFacts ==
    ASSUME NEW e \in Ingresses, e.todo # <<>>, Ordered(e.todo), Head(e.todo).op = "control",
           NEW request \in Requests
    PROVE  LET n == TakeRefresh([e EXCEPT !.todo = Tail(@)], request) IN
           Later(e, n) /\ n.held = e.held /\ ~LetsGo(e.todo)
<1> DEFINE r == [e EXCEPT !.todo = Tail(@)]
           taken == [r EXCEPT !.refresh = FALSE]
           g == ReportGap(taken)
           n == TakeRefresh(r, request)
<1>1. /\ r \in Ingresses /\ r.result = e.result /\ r.held = e.held /\ r.missed = e.missed
      /\ r.accepted = e.accepted /\ r.queue = e.queue /\ r.failure = e.failure
      /\ r.todo = Tail(e.todo)
  BY RestFacts
<1>2. ~Fails(e.todo) /\ ~LetsGo(e.todo) /\ r.todo = <<>>
  <2>1. e.todo \in Seq(Steps)
    BY IngressFields
  <2>2. /\ Tail(e.todo) = <<>> /\ (Fails(e.todo) => Fails(Tail(e.todo)))
        /\ LetsGo(e.todo) => LetsGo(Tail(e.todo))
    BY <2>1, TailSteps
  <2> QED  BY <1>1, <2>2, NothingToDo
<1>3. n = StopEncoded(taken, FALSE) \/ n = StopEncoded(g, FALSE) \/ n = taken \/ n = r
  BY DEF TakeRefresh, Requests
<1> HIDE DEF r, n
<1>4. /\ taken \in Ingresses /\ taken.result = r.result /\ taken.held = r.held
      /\ taken.accepted = r.accepted /\ taken.queue = r.queue /\ taken.failure = r.failure
      /\ taken.missed = r.missed /\ taken.todo = <<>>
  BY <1>1, <1>2 DEF Ingresses
<1> HIDE DEF taken
<1>5. Prepared(taken, g) /\ g \in Ingresses /\ Plain(g.todo) /\ Plain(taken.todo)
  BY <1>4, NothingToDo, ReportFacts DEF Prepared, Untouched
<1> HIDE DEF g
<1>6. CASE n = r
  <2>1. Announced(e) => Announced(n)
    BY <1>1, <1>2, <1>6 DEF Announced
  <2>2. Grows(e, n)
    BY <1>1, <1>6, GrowsSame
  <2> QED  BY <1>1, <1>2, <1>6, <2>1, <2>2, NothingToDo DEF Later, n, r
<1>7. CASE n # r
  <2>1. Untouched(taken, n) /\ Ordered(n.todo)
    <3>1. CASE n = StopEncoded(taken, FALSE)
      BY <1>4, <1>5, <3>1, StopFacts
    <3>2. CASE n = StopEncoded(g, FALSE)
      <4>1. Untouched(g, n) /\ Ordered(n.todo)
        BY <1>5, <3>2, StopFacts
      <4> QED  BY <1>5, <4>1 DEF Prepared, Untouched
    <3>3. CASE n = taken
      BY <1>4, <3>3, PreparedItself, NothingToDo DEF Prepared
    <3> QED  BY <1>3, <1>7, <3>1, <3>2, <3>3
  <2>2. Announced(e) => Announced(taken)
    BY <1>1, <1>2, <1>4 DEF Announced
  <2>3. Grows(e, n)
    BY <1>1, <1>4, <2>1, GrowsSame DEF Untouched
  <2>4. Later(e, n) /\ n.held = e.held
    BY <1>1, <1>4, <2>1, <2>2, <2>3 DEF Later, Untouched
  <2> QED  BY <1>2, <2>4 DEF n, r
<1> QED  BY <1>6, <1>7

LEMMA ProceedStep ==
    ASSUME EncodedInv, NEW old \in BOOLEAN, Proceed(old)
    PROVE  EncodedInv'
<1> DEFINE step == Head(enc.todo)
           rest == [enc EXCEPT !.todo = Tail(@)]
<1>1. /\ enc \in Ingresses /\ enc.todo # <<>> /\ Ordered(enc.todo)
      /\ UNCHANGED <<stream, encWorker>>
      /\ stream \in [config : Nat, floor : Nat, decided : SUBSET Units]
      /\ enc.held => stream.config # 0 \/ LetsGo(enc.todo)
      /\ enc' = CASE step.op = "offer" -> OfferEvent(rest, step.arg, old)
                  [] step.op = "fail" -> Terminate(rest, step.arg)
                  [] step.op = "drop" -> [rest EXCEPT !.held = FALSE]
                  [] step.op = "control" -> TakeRefresh(rest, step.arg)
  BY DEF EncodedInv, EncodedShape, HeldIsConfigured, Proceed
<1>2. step \in Steps
  <2>1. enc.todo \in Seq(Steps)
    BY <1>1, IngressFields
  <2> QED  BY <1>1, <2>1, HeadTailProperties
<1>3. Later(enc, enc') /\ (enc'.held => stream.config # 0 \/ LetsGo(enc'.todo))
  <2>1. CASE step.op = "offer"
    <3>1. step.arg \in Events /\ enc' = OfferEvent(rest, step.arg, old)
      BY <1>1, <1>2, <2>1 DEF Steps
    <3>2. Later(enc, enc') /\ enc'.held = enc.held /\ (LetsGo(enc.todo) => LetsGo(enc'.todo))
      <4> DEFINE event == step.arg
      <4>1. /\ enc \in Ingresses /\ enc.todo # <<>> /\ Ordered(enc.todo)
            /\ Head(enc.todo).op = "offer" /\ event \in Events
            /\ enc' = OfferEvent([enc EXCEPT !.todo = Tail(@)], event, old)
        BY <1>1, <2>1, <3>1
      <4> HIDE DEF event, step, rest
      <4> QED  BY <4>1, OfferFacts
    <3> QED  BY <1>1, <3>2
  <2>2. CASE step.op = "fail"
    <3>1. step.arg \in Failures /\ enc' = Terminate(rest, step.arg)
      BY <1>1, <1>2, <2>2 DEF Steps
    <3>2. Later(enc, enc') /\ enc'.held = enc.held /\ (LetsGo(enc.todo) => LetsGo(enc'.todo))
      BY <1>1, <2>2, <3>1, TerminateFacts
    <3> QED  BY <1>1, <3>2
  <2>3. CASE step.op = "drop"
    <3>1. enc' = [rest EXCEPT !.held = FALSE]
      BY <1>1, <2>3
    <3> QED  BY <1>1, <2>3, <3>1, DropFacts
  <2>4. CASE step.op = "control"
    <3>1. step.arg \in Requests /\ enc' = TakeRefresh(rest, step.arg)
      BY <1>1, <1>2, <2>4 DEF Steps
    <3>2. Later(enc, enc') /\ enc'.held = enc.held /\ ~LetsGo(enc.todo)
      BY <1>1, <2>4, <3>1, ControlFacts
    <3> QED  BY <1>1, <3>2
  <2> QED  BY <1>2, <2>1, <2>2, <2>3, <2>4 DEF Steps
<1> QED  BY <1>1, <1>3, SessionStep

-----------------------------------------------------------------------------
(* The start.                                                               *)

LEMMA FreshFacts ==
    /\ NewIngress \in Ingresses /\ NewWriter \in Writers
    /\ [NewIngress EXCEPT !.handle = FALSE, !.held = FALSE] \in Ingresses
    /\ [NewWriter EXCEPT !.pc = "Off"] \in Writers
    /\ NewBundle \in Bundles /\ NewBundle.state = "Arming" /\ ~NewBundle.gaps
<1>1. NewBundle \in Bundles /\ NewBundle.state = "Arming" /\ ~NewBundle.gaps
  BY DEF NewBundle, Bundles, States, Busy, Results
<1>2. <<>> \in Seq(Events) /\ <<>> \in Seq(Waits) /\ <<>> \in Seq(Steps)
  OBVIOUS
<1>3. NewIngress \in Ingresses /\ [NewIngress EXCEPT !.handle = FALSE, !.held = FALSE] \in Ingresses
  BY <1>2 DEF NewIngress, Ingresses
<1>4. NewWriter \in Writers /\ [NewWriter EXCEPT !.pc = "Off"] \in Writers
  BY <1>1 DEF NewWriter, Writers, HoldsSlot
<1> QED  BY <1>1, <1>3, <1>4

(* Nothing was accepted and nothing written.                                *)
LEMMA FreshShape ==
    ASSUME NEW e \in Ingresses, NEW w \in Writers, e.queue = <<>>, e.accepted = <<>>,
           e.result = None, e.todo = <<>>, ~e.missed, w.pc \in {"Create", "Off"},
           w.bundle = NewBundle, w.active = 0, w.pending = {}, w.written = {}
    PROVE  EncodedShape(e, w)
<1>1. Taken(e) = 0 /\ Synced(e)
  BY DEF Taken, Synced
<1>2. Sound(w)
  BY DEF Sound, Ahead, Behind, Chain
<1>3. Account(e.accepted, 0, w)
  BY DEF Account
<1>4. w.bundle.state \in Busy /\ w.bundle.state # "Complete"
  BY FreshFacts DEF Busy
<1>5. e.result # "Complete"
  BY DEF None
<1>6. Ordered(e.todo) /\ Announced(e)
  BY NothingToDo DEF Announced
<1> QED  BY <1>1, <1>2, <1>3, <1>4, <1>5, <1>6 DEF EncodedShape, Intact, Lives

LEMMA StartStep ==
    ASSUME EncodedInv, NEW u \in Units \cup {0}, StartEncodedRecording(u)
    PROVE  EncodedInv'
<1>1. /\ stream.config # 0 /\ enc' = NewIngress /\ encWorker' = NewWriter
      /\ stream \in [config : Nat, floor : Nat, decided : SUBSET Units]
      /\ stream' = [stream EXCEPT !.decided = @ \union {v \in 1 .. u : Epoch(v) = stream.config}]
  BY DEF EncodedInv, StartEncodedRecording
<1>2. 1 .. u \subseteq Units
  <2> DEFINE a == Len(Source)
  <2>1. Units = 1 .. a /\ a \in Nat
    BY SourceAssumption, LenProperties DEF Units
  <2> HIDE DEF a
  <2> QED  BY <2>1
<1>3. /\ stream'.config = stream.config
      /\ stream' \in [config : Nat, floor : Nat, decided : SUBSET Units]
  BY <1>1, <1>2
<1>4. EncodedShape(NewIngress, NewWriter)
  <2>1. /\ NewIngress.queue = <<>> /\ NewIngress.accepted = <<>> /\ NewIngress.result = None
        /\ NewIngress.todo = <<>> /\ ~NewIngress.missed
        /\ NewWriter.pc = "Create" /\ NewWriter.bundle = NewBundle /\ NewWriter.active = 0
        /\ NewWriter.pending = {} /\ NewWriter.written = {}
    BY DEF NewIngress, NewWriter
  <2> QED  BY <2>1, FreshFacts, FreshShape
<1>5. EncodedShape(enc, encWorker)'
  BY <1>1, <1>4
<1> QED  BY <1>1, <1>3, <1>5 DEF EncodedInv, HeldIsConfigured

LEMMA EncodedStart ==
    ASSUME EncodedInit
    PROVE  EncodedInv
<1>1. stream \in [config : Nat, floor : Nat, decided : SUBSET Units] /\ ~enc.held
  BY DEF EncodedInit, NewIngress
<1>2. EncodedShape(enc, encWorker)
  <2>1. enc \in Ingresses /\ encWorker \in Writers
    BY FreshFacts DEF EncodedInit
  <2>2. /\ enc.queue = <<>> /\ enc.accepted = <<>> /\ enc.result = None
        /\ enc.todo = <<>> /\ ~enc.missed
        /\ encWorker.pc = "Off" /\ encWorker.bundle = NewBundle /\ encWorker.active = 0
        /\ encWorker.pending = {} /\ encWorker.written = {}
    BY DEF EncodedInit, NewIngress, NewWriter
  <2> QED  BY <2>1, <2>2, FreshShape
<1> QED  BY <1>1, <1>2 DEF EncodedInv, HeldIsConfigured

-----------------------------------------------------------------------------
(* The worker's steps.                                                      *)

(* The worker as far as the account goes.                                   *)
SameWork(w, n) ==
    /\ n \in Writers /\ n.bundle = w.bundle /\ n.active = w.active /\ n.pending = w.pending
    /\ n.last = w.last /\ n.source = w.source /\ n.written = w.written

LEMMA SameWorkFacts ==
    ASSUME NEW w, NEW n, SameWork(w, n)
    PROVE  /\ Sound(w) => Sound(n)
           /\ \A o, t : Account(o, t, w) => Account(o, t, n)
<1>1. Sound(w) => Sound(n)
  BY DEF SameWork, Sound, Ahead, Behind, Chain
<1>2. ASSUME NEW o, NEW t, Account(o, t, w)  PROVE Account(o, t, n)
  BY <1>2 DEF SameWork, Account, Skipped, Passed
<1> QED  BY <1>1, <1>2

LEMMA ContinuedFacts ==
    ASSUME NEW w \in Writers
    PROVE  SameWork(w, Continued(w)) /\ Continued(w).pc = "Run"
BY DEF SameWork, Continued, Writers, HoldsSlot

(* What the worker leaves alone of the ingress.                             *)
SameIngress(e, n) ==
    /\ n \in Ingresses /\ n.result = e.result /\ n.held = e.held /\ n.failure = e.failure
    /\ n.todo = e.todo /\ n.missed = e.missed /\ n.accepted = e.accepted

LEMMA EndedShape ==
    ASSUME NEW e \in Ingresses, NEW w \in Writers, e.result = None, Ordered(e.todo)
    PROVE  EncodedShape(e, Ended(w))
<1>1. Failed(w.bundle) \in Bundles /\ Failed(w.bundle).state = "Failed"
  BY DEF Writers, Bundles, Failed, States, Results
<1>2. Ended(w) \in Writers /\ Ended(w).pc = "Done" /\ Ended(w).bundle.state = "Failed"
  BY <1>1 DEF Writers, Ended, HoldsSlot
<1> QED  BY <1>2 DEF EncodedShape, Lives, None

(* A step of the running worker.                                            *)
LEMMA RunningStep ==
    ASSUME EncodedInv, Lives(encWorker), UNCHANGED stream, SameIngress(enc, enc'),
           encWorker' \in Writers, encWorker'.pc \in {"Run", "Receive"},
           encWorker'.bundle.state \in Busy,
           ~encWorker'.bundle.gaps => Intact(enc', encWorker')
    PROVE  EncodedInv'
<1>1. enc.result = None /\ Ordered(enc.todo) /\ Announced(enc)
  BY DEF EncodedInv, EncodedShape, Lives
<1>2. Announced(enc')
  BY <1>1 DEF SameIngress, Announced
<1>3. EncodedShape(enc', encWorker')
  BY <1>1, <1>2 DEF EncodedShape, SameIngress, Lives, None
<1> QED  BY <1>3 DEF EncodedInv, HeldIsConfigured, SameIngress

(* A turn that takes nothing keeps the account.                             *)
LEMMA KeepsAccount ==
    ASSUME NEW o, NEW t \in Int, \A i \in 1 .. t : o[i] \in Events,
           NEW w, NEW n, Account(o, t, w), Keeps(w, n)
    PROVE  Account(o, t, n)
<1>1. ASSUME NEW i \in 1 .. t, o[i] # Gap
      PROVE  o[i] \in n.pending \cup n.written \/ Skipped(n, o[i])
  <2>1. o[i] \in Units /\ Known(w, o[i])
    BY <1>1 DEF Events, Account, Known
  <2> QED  BY <2>1 DEF Keeps, Known
<1>2. ASSUME NEW i \in 1 .. t, NEW j \in 1 .. t, o[i] = Gap, o[j] \in n.pending \cup n.written
      PROVE  i < j
  BY <1>2 DEF Keeps, Account
<1> QED  BY <1>1, <1>2 DEF Account

LEMMA TookAccount ==
    ASSUME NEW o, NEW t \in Nat, \A i \in 1 .. t + 1 : o[i] \in Events,
           NEW w, NEW n, NEW u \in Units, o[t + 1] = u, Account(o, t, w),
           Known(n, u), ~Known(w, u),
           n.pending \cup n.written \subseteq w.pending \cup w.written \cup {u},
           \A x \in Units : Known(w, x) => Known(n, x)
    PROVE  Account(o, t + 1, n)
<1>0. 1 .. t + 1 = (1 .. t) \cup {t + 1} /\ Gap \notin Units
  BY UnitFacts
<1>1. ASSUME NEW i \in 1 .. t + 1, o[i] # Gap
      PROVE  o[i] \in n.pending \cup n.written \/ Skipped(n, o[i])
  <2>1. CASE i = t + 1
    BY <2>1 DEF Known
  <2>2. CASE i \in 1 .. t
    <3>1. o[i] \in Units /\ Known(w, o[i])
      BY <1>0, <1>1, <2>2 DEF Events, Account, Known
    <3> QED  BY <3>1 DEF Known
  <2> QED  BY <1>0, <2>1, <2>2
<1>2. ASSUME NEW i \in 1 .. t + 1, NEW j \in 1 .. t + 1, o[i] = Gap,
             o[j] \in n.pending \cup n.written
      PROVE  i < j
  <2>1. i # t + 1
    BY <1>0, <1>2
  <2>2. i \in 1 .. t
    BY <1>0, <2>1
  <2>3. CASE j = t + 1
    BY <2>2, <2>3
  <2>4. CASE j \in 1 .. t
    <3>1. CASE o[j] = u
      <4>1. Known(w, o[j])
        BY <1>0, <2>4, <3>1 DEF Account, Known
      <4> QED  BY <3>1, <4>1
    <3>2. CASE o[j] # u
      BY <1>2, <2>2, <2>4, <3>2 DEF Account
    <3> QED  BY <3>1, <3>2
  <2> QED  BY <1>0, <2>3, <2>4
<1> QED  BY <1>1, <1>2 DEF Account

LEMMA GapAccount ==
    ASSUME NEW o, NEW t \in Nat, \A i \in 1 .. t + 1 : o[i] \in Events,
           NEW w, NEW n, o[t + 1] = Gap, Account(o, t, w), Keeps(w, n),
           n.pending = {}, n.written = {}
    PROVE  Account(o, t + 1, n)
<1>0. 1 .. t + 1 = (1 .. t) \cup {t + 1}
  OBVIOUS
<1>1. ASSUME NEW i \in 1 .. t + 1, o[i] # Gap
      PROVE  o[i] \in n.pending \cup n.written \/ Skipped(n, o[i])
  <2>1. i \in 1 .. t
    BY <1>0, <1>1
  <2>2. o[i] \in Units /\ Known(w, o[i])
    BY <1>0, <1>1, <2>1 DEF Events, Account, Known
  <2> QED  BY <2>2 DEF Keeps, Known
<1> QED  BY <1>1 DEF Account

LEMMA TailFacts ==
    ASSUME NEW e \in Ingresses, NEW n \in Ingresses, Synced(e), e.queue # <<>>,
           n.queue = Tail(e.queue), n.accepted = e.accepted
    PROVE  /\ Synced(n) /\ Taken(n) = Taken(e) + 1 /\ Taken(e) \in Nat
           /\ e.accepted[Taken(e) + 1] = Head(e.queue)
           /\ \A i \in 1 .. Taken(e) + 1 : e.accepted[i] \in Events
<1> DEFINE q == e.queue
           o == e.accepted
           a == Len(o)
           b == Len(q)
           t == Taken(e)
<1>1. /\ q \in Seq(Events) /\ o \in Seq(Events) /\ a \in Nat /\ b \in Nat
      /\ b <= a /\ t = a - b
  BY IngressFields DEF Synced, Taken
<1>2. /\ Len(Tail(q)) = b - 1 /\ b >= 1 /\ \A k \in 1 .. b - 1 : Tail(q)[k] = q[k + 1]
  BY <1>1, HeadTailProperties
<1>3. /\ DOMAIN q = 1 .. b /\ Head(q) = q[1]
      /\ \A k \in 1 .. b : q[k] = o[t + k]
  <2>1. DOMAIN q = 1 .. b
    BY <1>1, LenProperties
  <2>2. Head(q) = q[1]
    BY <1>1
  <2>3. \A k \in DOMAIN q : q[k] = o[t + k]
    BY DEF Synced
  <2> QED  BY <2>1, <2>2, <2>3
<1>4. \A i \in 1 .. a : o[i] \in Events
  BY <1>1, ElementOfSeq
<1>5. DOMAIN Tail(q) = 1 .. b - 1
  BY <1>1, <1>2, HeadTailProperties, LenProperties
<1>6. Taken(n) = a - (b - 1) /\ Len(n.queue) = b - 1 /\ Len(n.accepted) = a
  BY <1>2 DEF Taken
<1>7. n.queue = Tail(q) /\ n.accepted = o
  OBVIOUS
<1> HIDE DEF q, o, a, b, t
<1>8. Taken(n) = t + 1 /\ t \in Nat /\ t + 1 <= a
  BY <1>1, <1>2, <1>6
<1>9. Synced(n)
  <2>1. ASSUME NEW k \in 1 .. b - 1
        PROVE  n.queue[k] = n.accepted[Taken(n) + k]
    <3>1. k + 1 \in 1 .. b /\ t + (k + 1) = (t + 1) + k
      BY <1>1, <1>2, <1>8
    <3>2. n.queue[k] = q[k + 1] /\ q[k + 1] = o[t + (k + 1)]
      BY <1>2, <1>3, <1>7, <3>1
    <3> QED  BY <1>7, <1>8, <3>1, <3>2
  <2>2. Len(n.queue) <= Len(n.accepted)
    BY <1>1, <1>6
  <2> QED  BY <1>5, <1>7, <2>1, <2>2 DEF Synced
<1>10. o[t + 1] = Head(q)
  <2>1. 1 \in 1 .. b
    BY <1>1, <1>2
  <2> QED  BY <1>3, <2>1
<1>11. \A i \in 1 .. t + 1 : o[i] \in Events
  <2>1. \A i \in 1 .. t + 1 : i \in 1 .. a
    BY <1>1, <1>8
  <2> QED  BY <1>4, <2>1
<1> QED  BY <1>8, <1>9, <1>10, <1>11 DEF t, o, q

LEMMA TakenFacts ==
    ASSUME NEW e \in Ingresses, Synced(e)
    PROVE  /\ Taken(e) \in Nat /\ Taken(e) <= Len(e.accepted)
           /\ \A i \in 1 .. Taken(e) : e.accepted[i] \in Events
<1> DEFINE a == Len(e.accepted)
           b == Len(e.queue)
           t == Taken(e)
<1>1. /\ a \in Nat /\ b \in Nat /\ b <= a /\ t = a - b /\ e.accepted \in Seq(Events)
  BY IngressFields DEF Synced, Taken
<1>2. \A i \in 1 .. a : e.accepted[i] \in Events
  BY <1>1, ElementOfSeq
<1> HIDE DEF a, b, t
<1>3. \A i \in 1 .. t : i \in 1 .. a
  BY <1>1
<1> QED  BY <1>1, <1>2, <1>3 DEF a, t

LEMMA CreateStep ==
    ASSUME EncodedInv, NEW ok \in BOOLEAN, CreateEncodedBundle(ok)
    PROVE  EncodedInv'
<1> DEFINE n == Continued(encWorker)
<1>1. /\ enc \in Ingresses /\ encWorker \in Writers /\ UNCHANGED <<stream, enc>>
      /\ encWorker.pc = "Create" /\ enc.result = None /\ Ordered(enc.todo)
      /\ encWorker' = IF ok THEN n ELSE Ended(encWorker)
  BY DEF EncodedInv, EncodedShape, CreateEncodedBundle, Continued
<1>2. /\ Lives(encWorker) /\ encWorker.bundle.state \in Busy
      /\ ~encWorker.bundle.gaps => Intact(enc, encWorker)
  BY <1>1 DEF Lives, EncodedInv, EncodedShape
<1>3. CASE ok
  <2>1. SameWork(encWorker, n) /\ n.pc = "Run"
    BY <1>1, ContinuedFacts
  <2> HIDE DEF n
  <2>2. ~n.bundle.gaps => Intact(enc, n)
    BY <1>2, <2>1, SameWorkFacts DEF SameWork, Intact
  <2> QED  BY <1>1, <1>2, <1>3, <2>1, <2>2, RunningStep DEF SameWork, SameIngress
<1>4. CASE ~ok
  <2>1. EncodedShape(enc', encWorker')
    BY <1>1, <1>4, EndedShape
  <2> QED  BY <1>1, <2>1 DEF EncodedInv, HeldIsConfigured
<1> QED  BY <1>3, <1>4

(* The worker ended with a failure, whatever became of the queue.           *)
LEMMA EndedStep ==
    ASSUME EncodedInv, UNCHANGED stream, Lives(encWorker), NEW w \in Writers, encWorker' = Ended(w),
           enc' \in Ingresses, enc'.held = enc.held, enc'.result = enc.result, enc'.todo = enc.todo
    PROVE  EncodedInv'
<1>1. enc.result = None /\ Ordered(enc.todo)
  BY DEF EncodedInv, EncodedShape, Lives
<1>2. EncodedShape(enc', Ended(w))
  BY <1>1, EndedShape
<1> QED  BY <1>2 DEF EncodedInv, HeldIsConfigured

LEMMA FailStep ==
    ASSUME EncodedInv, PollFailure \/ PollTooOld \/ EncodedWorkerFails
    PROVE  EncodedInv'
<1>1. /\ enc \in Ingresses /\ encWorker \in Writers /\ Lives(encWorker)
      /\ UNCHANGED stream /\ encWorker' = Ended(encWorker)
  BY DEF EncodedInv, EncodedShape, PollFailure, PollTooOld, EncodedWorkerFails, Receiving, Lives
<1>2. <<>> \in Seq(Events) /\ "TooOld" \in Failures
  BY DEF Failures
<1>3. enc' \in Ingresses /\ enc'.held = enc.held /\ enc'.result = enc.result /\ enc'.todo = enc.todo
  <2>1. CASE PollFailure
    BY <1>1, <1>2, <2>1 DEF PollFailure, Ingresses
  <2>2. CASE PollTooOld
    BY <1>1, <1>2, <2>2 DEF PollTooOld, Ingresses
  <2>3. CASE EncodedWorkerFails
    BY <1>1, <1>2, <2>3 DEF EncodedWorkerFails, Ingresses
  <2> QED  BY <2>1, <2>2, <2>3
<1> QED  BY <1>1, <1>3, EndedStep

(* The top of the loop.                                                     *)
LEMMA LookStep ==
    ASSUME EncodedInv, LookForFailure
    PROVE  EncodedInv'
<1> DEFINE n == [encWorker EXCEPT !.want = FALSE]
           l == [n EXCEPT !.pc = "Receive"]
           f == [enc EXCEPT !.refresh = @ \/ encWorker.want]
<1>1. /\ enc \in Ingresses /\ encWorker \in Writers /\ encWorker.pc = "Run" /\ Lives(encWorker)
      /\ encWorker.bundle.state \in Busy /\ UNCHANGED stream
      /\ ~encWorker.bundle.gaps => Intact(enc, encWorker)
      /\ IF enc.failure = None THEN encWorker' = l /\ enc' = f
         ELSE encWorker' = Ended(n) /\ enc' = [f EXCEPT !.queue = <<>>]
  BY DEF EncodedInv, EncodedShape, LookForFailure, Lives
<1>2. SameIngress(enc, f) /\ f.queue = enc.queue
  <2>1. encWorker.want \in BOOLEAN /\ enc.refresh \in BOOLEAN
    BY <1>1 DEF Writers, Ingresses
  <2> QED  BY <1>1, <2>1 DEF Ingresses, SameIngress
<1>3. n \in Writers /\ SameWork(encWorker, l) /\ l.pc = "Receive"
  BY <1>1 DEF Writers, SameWork, HoldsSlot
<1> HIDE DEF f, n, l
<1>4. CASE enc.failure = None
  <2>1. encWorker' = l /\ enc' = f
    BY <1>1, <1>4
  <2>2. ~l.bundle.gaps => Intact(f, l)
    BY <1>1, <1>2, <1>3, SameWorkFacts DEF SameWork, SameIngress, Intact, Synced, Taken
  <2>3. l \in Writers /\ l.bundle.state \in Busy
    BY <1>1, <1>3 DEF SameWork
  <2> QED  BY <1>1, <1>2, <1>3, <2>1, <2>2, <2>3, RunningStep
<1>5. CASE enc.failure # None
  <2>1. encWorker' = Ended(n) /\ enc' = [f EXCEPT !.queue = <<>>]
    BY <1>1, <1>5
  <2>2. <<>> \in Seq(Events)
    OBVIOUS
  <2>3. /\ enc' \in Ingresses /\ enc'.held = enc.held /\ enc'.result = enc.result
        /\ enc'.todo = enc.todo
    BY <1>2, <2>1, <2>2 DEF SameIngress, Ingresses
  <2> QED  BY <1>1, <1>3, <2>1, <2>3, EndedStep
<1> QED  BY <1>4, <1>5

(* Where the second step of a poll starts.                                  *)
LEMMA ReceiveFacts ==
    ASSUME EncodedInv, Receiving
    PROVE  /\ enc \in Ingresses /\ encWorker \in Writers /\ enc.result = None
           /\ Lives(encWorker) /\ encWorker.pc = "Receive" /\ encWorker.bundle.state \in Busy
           /\ ~encWorker.bundle.gaps =>
                 /\ Synced(enc) /\ Sound(encWorker)
                 /\ Account(enc.accepted, Taken(enc), encWorker)
BY DEF EncodedInv, EncodedShape, Receiving, Lives, Intact

LEMMA IdleStep ==
    ASSUME EncodedInv, NEW expired \in Units \cup {0}, PollIdle(expired)
    PROVE  EncodedInv'
<1> DEFINE w == encWorker
           n == Release(w, expired)
           c == Continued(n)
           t == Taken(enc)
           o == enc.accepted
<1>1. UNCHANGED <<stream, enc>> /\ encWorker' = c /\ Receiving
  BY DEF PollIdle
<1>2. /\ enc \in Ingresses /\ w \in Writers /\ Lives(w) /\ w.bundle.state \in Busy
      /\ ~w.bundle.gaps => Synced(enc) /\ Sound(w) /\ Account(o, t, w)
  BY <1>1, ReceiveFacts
<1>3. Turn(w, n)
  BY <1>2, ReleaseFacts
<1> HIDE DEF n
<1>4. SameWork(n, c) /\ c.pc = "Run"
  BY <1>3, ContinuedFacts DEF Turn
<1> HIDE DEF c
<1>5. ASSUME ~c.bundle.gaps  PROVE Intact(enc, c)
  <2>1. Synced(enc) /\ Sound(w) /\ Account(o, t, w) /\ Sound(n) /\ Keeps(w, n)
    BY <1>2, <1>3, <1>4, <1>5 DEF Turn, SameWork
  <2>2. t \in Int /\ \A i \in 1 .. t : o[i] \in Events
    BY <1>2, <2>1, TakenFacts
  <2> HIDE DEF t, o, w
  <2>3. Account(o, t, n)
    BY <2>1, <2>2, KeepsAccount
  <2> QED  BY <1>4, <2>1, <2>3, SameWorkFacts DEF Intact, t, o
<1>6. c \in Writers /\ c.bundle.state \in Busy
  BY <1>3, <1>4 DEF Turn, SameWork
<1> QED  BY <1>1, <1>2, <1>4, <1>5, <1>6, RunningStep DEF SameIngress

LEMMA InputStep ==
    ASSUME EncodedInv, NEW expired \in Units \cup {0}, PollInput(expired)
    PROVE  EncodedInv'
<1> DEFINE u == Head(enc.queue)
           w == encWorker
           f == [enc EXCEPT !.queue = Tail(@)]
           n == PushReorder(w, u, expired)
           c == Continued(n)
<1>1. /\ UNCHANGED stream /\ enc' = f /\ Receiving /\ enc.queue # <<>> /\ u # Gap
      /\ encWorker' = IF Refuses(w, u) THEN Ended(w) ELSE c
  BY DEF PollInput
<1>2. /\ enc \in Ingresses /\ w \in Writers /\ Lives(w) /\ w.bundle.state \in Busy
      /\ ~w.bundle.gaps => Synced(enc) /\ Sound(w) /\ Account(enc.accepted, Taken(enc), w)
  BY <1>1, ReceiveFacts
<1>3. u \in Units /\ Tail(enc.queue) \in Seq(Events)
  <2>1. enc.queue \in Seq(Events)
    BY <1>2, IngressFields
  <2>2. u \in Events /\ Tail(enc.queue) \in Seq(Events)
    BY <1>1, <2>1, HeadTailProperties
  <2> QED  BY <1>1, <2>2 DEF Events
<1>4. SameIngress(enc, f) /\ f.queue = Tail(enc.queue)
  BY <1>2, <1>3 DEF Ingresses, SameIngress
<1> HIDE DEF f
<1>5. CASE Refuses(w, u)
  BY <1>1, <1>2, <1>4, <1>5, EndedStep DEF SameIngress
<1>6. CASE ~Refuses(w, u)
  <2>1. Took(w, n, u) /\ encWorker' = c
    BY <1>1, <1>2, <1>3, <1>6, PushFacts
  <2> DEFINE t == Taken(enc)
             o == enc.accepted
  <2> HIDE DEF n
  <2>2. SameWork(n, c) /\ c.pc = "Run"
    BY <2>1, ContinuedFacts DEF Took
  <2> HIDE DEF c, w, u
  <2>3. ASSUME ~c.bundle.gaps  PROVE Intact(f, c)
    <3>1. /\ Synced(enc) /\ Account(o, t, w) /\ Sound(n) /\ Known(n, u) /\ ~Known(w, u)
          /\ n.pending \cup n.written \subseteq w.pending \cup w.written \cup {u}
          /\ \A x \in Units : Known(w, x) => Known(n, x)
      BY <1>2, <2>1, <2>2, <2>3 DEF Took, SameWork
    <3>2. /\ Synced(f) /\ Taken(f) = t + 1 /\ t \in Nat /\ o[t + 1] = u
          /\ \A i \in 1 .. t + 1 : o[i] \in Events
      BY <1>1, <1>2, <1>4, <3>1, TailFacts DEF u, SameIngress
    <3> HIDE DEF o, t
    <3>3. Account(o, t + 1, n)
      BY <1>3, <3>1, <3>2, TookAccount
    <3> QED  BY <1>4, <2>2, <3>1, <3>2, <3>3, SameWorkFacts DEF Intact, SameIngress, o
  <2>4. c \in Writers /\ c.bundle.state \in Busy
    BY <2>1, <2>2 DEF Took, SameWork
  <2> QED  BY <1>1, <1>2, <1>4, <2>1, <2>2, <2>3, <2>4, RunningStep DEF w
<1> QED  BY <1>5, <1>6

LEMMA GapStep ==
    ASSUME EncodedInv, PollGap
    PROVE  EncodedInv'
<1> DEFINE w == encWorker
           f == [enc EXCEPT !.queue = Tail(@)]
           n == WriterGap(Drain(w))
           c == Continued(n)
           t == Taken(enc)
           o == enc.accepted
<1>1. /\ UNCHANGED stream /\ enc' = f /\ encWorker' = c /\ Receiving
      /\ enc.queue # <<>> /\ Head(enc.queue) = Gap
  BY DEF PollGap
<1>2. /\ enc \in Ingresses /\ w \in Writers /\ Lives(w) /\ w.bundle.state \in Busy
      /\ ~w.bundle.gaps => Synced(enc) /\ Sound(w) /\ Account(o, t, w)
  BY <1>1, ReceiveFacts
<1>3. Tail(enc.queue) \in Seq(Events)
  BY <1>1, <1>2, IngressFields, HeadTailProperties
<1>4. SameIngress(enc, f) /\ f.queue = Tail(enc.queue)
  BY <1>2, <1>3 DEF Ingresses, SameIngress
<1>5. /\ n \in Writers /\ n.bundle.state \in Busy /\ (w.bundle.gaps => n.bundle.gaps)
      /\ ~n.bundle.gaps /\ Sound(w) =>
            Sound(n) /\ Keeps(w, n) /\ n.pending = {} /\ n.written = {}
  BY <1>2, TakeGapFacts
<1> HIDE DEF f, n, t
<1>6. SameWork(n, c) /\ c.pc = "Run"
  BY <1>5, ContinuedFacts
<1> HIDE DEF c, w
<1>7. ASSUME ~c.bundle.gaps  PROVE Intact(f, c)
  <2>1. /\ Synced(enc) /\ Account(o, t, w)
        /\ Sound(n) /\ Keeps(w, n) /\ n.pending = {} /\ n.written = {}
    BY <1>2, <1>5, <1>6, <1>7 DEF SameWork
  <2>2. /\ Synced(f) /\ Taken(f) = t + 1 /\ t \in Nat /\ o[t + 1] = Gap
        /\ \A i \in 1 .. t + 1 : o[i] \in Events
    BY <1>1, <1>2, <1>4, <2>1, TailFacts DEF t, SameIngress
  <2>3. f.accepted = o
    BY <1>4 DEF SameIngress
  <2> HIDE DEF o
  <2>4. Account(o, t + 1, n)
    BY <2>1, <2>2, GapAccount
  <2> QED  BY <1>6, <2>1, <2>2, <2>3, <2>4, SameWorkFacts DEF Intact
<1>8. c \in Writers /\ c.bundle.state \in Busy
  BY <1>5, <1>6 DEF SameWork
<1> QED  BY <1>1, <1>2, <1>4, <1>6, <1>7, <1>8, RunningStep DEF w

(* All that was accepted was taken, and the last of it left reordering.     *)
LEMMA DrainedIsWhole ==
    ASSUME NEW o, NEW d \in Writers, DOMAIN o = 1 .. Len(o), Account(o, Len(o), d), Sound(d),
           d.pending = {}, \A i \in DOMAIN o : o[i] \in Events
    PROVE  Whole(o, d.written)
<1>1. ASSUME NEW i \in DOMAIN o, o[i] # Gap, NEW v \in d.written,
             Epoch(v) = Epoch(o[i]), v <= o[i]
      PROVE  o[i] \in d.written
  <2>1. o[i] \in d.written \/ (\A x \in d.written : Epoch(x) = Epoch(o[i]) => o[i] < x)
    BY <1>1 DEF Account, Skipped
  <2>2. SUFFICES ASSUME o[i] < v  PROVE FALSE
    BY <1>1, <2>1
  <2>3. o[i] \in Nat /\ v \in Nat
    BY <1>1, WriterFields, NumberFacts DEF Events
  <2> QED  BY <1>1, <2>2, <2>3
<1>2. \A u, v \in d.written : Epoch(u) = Epoch(v) => u .. v \subseteq d.written
  BY DEF Sound, Chain
<1>3. \A i, j \in DOMAIN o : o[i] = Gap /\ o[j] # Gap /\ o[j] \in d.written => i < j
  BY DEF Account
<1> QED  BY <1>1, <1>2, <1>3 DEF Whole

LEMMA DrainedStep ==
    ASSUME EncodedInv, PollDrained
    PROVE  EncodedInv'
<1> DEFINE w == encWorker
           d == Drain(w)
           c == CloseSegment(d)
           b == Finish(c.bundle)
           n == [c EXCEPT !.bundle = b, !.pc = "Done"]
           o == enc.accepted
<1>1. /\ UNCHANGED <<stream, enc>> /\ encWorker' = n /\ Receiving
      /\ enc.queue = <<>> /\ ~enc.held
  BY DEF PollDrained
<1>2. /\ enc \in Ingresses /\ enc.result = None /\ w \in Writers /\ Lives(w)
      /\ w.bundle.state \in Busy /\ Ordered(enc.todo)
      /\ enc.missed => enc.failure # None
      /\ ~w.bundle.gaps => Synced(enc) /\ Sound(w) /\ Account(o, Taken(enc), w)
  <2>1. Ordered(enc.todo) /\ (Lives(w) => Announced(enc))
    BY DEF EncodedInv, EncodedShape
  <2> QED  BY <1>1, <2>1, ReceiveFacts DEF Announced
<1>3. Turn(w, d) /\ d.pending = {} /\ d \in Writers /\ d.bundle.state \in Busy
  BY <1>2, DrainFacts DEF Turn
<1> HIDE DEF d, w
<1>4. /\ c \in Writers /\ c.written = d.written
      /\ c.bundle.state = d.bundle.state /\ c.bundle.gaps = d.bundle.gaps
  BY <1>3, CloseFacts
<1> HIDE DEF c
<1>5. b \in Bundles /\ (b.state = "Complete" => ~c.bundle.gaps)
  <2>1. c.bundle \in Bundles /\ c.bundle.state \in Busy
    BY <1>3, <1>4, WriterFields
  <2> QED  BY <2>1 DEF Finish, Terminal, Bundles, States, Busy, Results
<1> HIDE DEF b
<1>6. n \in Writers /\ n.pc = "Done" /\ n.bundle = b /\ n.written = d.written
  BY <1>4, <1>5 DEF Writers, HoldsSlot
<1> HIDE DEF n
<1>7. ASSUME b.state = "Complete"
      PROVE  Whole(o, d.written)
  <2>1. ~d.bundle.gaps
    BY <1>4, <1>5, <1>7
  <2>2. Synced(enc) /\ Account(o, Taken(enc), w) /\ Sound(d) /\ Keeps(w, d)
    BY <1>2, <1>3, <2>1 DEF Turn
  <2>3. o \in Seq(Events) /\ Len(o) \in Nat
    BY <1>2, IngressFields
  <2>4. DOMAIN o = 1 .. Len(o) /\ \A i \in DOMAIN o : o[i] \in Events
    BY <2>3, LenProperties, ElementOfSeq
  <2>5. Taken(enc) = Len(o)
    BY <1>1, <2>3 DEF Taken
  <2> HIDE DEF o
  <2>6. Account(o, Len(o), d)
    BY <2>2, <2>3, <2>4, <2>5, KeepsAccount
  <2> QED  BY <1>3, <2>2, <2>4, <2>6, DrainedIsWhole
<1>8. EncodedShape(enc, n)
  BY <1>1, <1>2, <1>6, <1>7 DEF EncodedShape, Lives, None
<1> QED  BY <1>1, <1>2, <1>8 DEF EncodedInv, HeldIsConfigured

LEMMA ResultStep ==
    ASSUME EncodedInv, ReleaseEncodedSlot \/ PublishEncodedResult
    PROVE  EncodedInv'
<1>1. enc \in Ingresses /\ encWorker \in Writers /\ encWorker.bundle.state \in States
  BY DEF EncodedInv, EncodedShape, Writers, Bundles
<1>2. CASE ReleaseEncodedSlot
  <2>1. /\ UNCHANGED stream /\ encWorker.pc = "Done" /\ enc.result = None
        /\ encWorker' \in Writers /\ encWorker'.pc = "Freed"
        /\ encWorker'.bundle = encWorker.bundle /\ encWorker'.written = encWorker.written
    BY <1>1, <1>2 DEF ReleaseEncodedSlot, EncodedInv, EncodedShape, Writers
  <2>2. /\ enc' \in Ingresses /\ enc'.result = enc.result /\ enc'.held = enc.held
        /\ enc'.accepted = enc.accepted /\ enc'.failure = enc.failure
        /\ enc'.missed = enc.missed /\ enc'.todo = enc.todo
    BY <1>1, <1>2 DEF ReleaseEncodedSlot, Ingresses
  <2>3. EncodedShape(enc', encWorker')
    BY <2>1, <2>2 DEF EncodedInv, EncodedShape, Lives, None
  <2> QED  BY <2>1, <2>2, <2>3 DEF EncodedInv, HeldIsConfigured
<1>3. CASE PublishEncodedResult
  <2>1. /\ UNCHANGED stream /\ encWorker.pc = "Freed" /\ enc.result = None
        /\ encWorker' \in Writers /\ encWorker'.pc = "Off"
        /\ encWorker'.bundle = encWorker.bundle /\ encWorker'.written = encWorker.written
    BY <1>1, <1>3 DEF PublishEncodedResult, EncodedInv, EncodedShape, Writers
  <2>2. /\ enc' \in Ingresses /\ enc'.result = encWorker.bundle.state /\ enc'.held = enc.held
        /\ enc'.accepted = enc.accepted /\ enc'.failure = enc.failure
        /\ enc'.missed = enc.missed /\ enc'.todo = enc.todo
    BY <1>1, <1>3 DEF PublishEncodedResult, Ingresses
  <2>3. EncodedShape(enc', encWorker')
    BY <2>1, <2>2 DEF EncodedInv, EncodedShape, Lives
  <2> QED  BY <2>1, <2>2, <2>3 DEF EncodedInv, HeldIsConfigured
<1> QED  BY <1>2, <1>3

LEMMA EncodedStays ==
    ASSUME EncodedInv, UNCHANGED encodedVars
    PROVE  EncodedInv'
BY DEF EncodedInv, HeldIsConfigured, encodedVars

-----------------------------------------------------------------------------
(* The rendered recording.                                                  *)

RenderedInv == RenderedShape(bus, ren, renWorker)

LEMMA BusFields ==
    ASSUME NEW b \in Buses
    PROVE  /\ b.attached \in BOOLEAN /\ b.open \in BOOLEAN /\ b.accepting \in BOOLEAN
           /\ b.normal \in BOOLEAN /\ b.end \in Ends /\ b.queue \in Seq(Frames) /\ b.count \in Nat
           /\ DOMAIN b.queue = 1 .. Len(b.queue) /\ Len(b.queue) \in Nat
           /\ \A k \in DOMAIN b.queue : b.queue[k] \in Frames
<1>1. b.queue \in Seq(Frames)
  BY DEF Buses
<1>2. DOMAIN b.queue = 1 .. Len(b.queue) /\ Len(b.queue) \in Nat
      /\ \A k \in DOMAIN b.queue : b.queue[k] \in Frames
  BY <1>1, LenProperties, ElementOfSeq
<1> QED  BY <1>1, <1>2 DEF Buses

LEMMA RendererFields ==
    ASSUME NEW w \in Renderers
    PROVE  /\ w.bundle \in Bundles /\ w.bundle.state \in States /\ w.bundle.segments \in BOOLEAN
           /\ w.bundle.gaps \in BOOLEAN /\ w.active \in BOOLEAN /\ w.first \in BOOLEAN
           /\ w.wrote \subseteq Nat
BY DEF Renderers, Bundles

LEMMA RenderedStart ==
    ASSUME RenderedInit
    PROVE  RenderedInv
<1>1. <<>> \in Seq(Frames) /\ NewBundle \in Bundles
  BY FreshFacts
<1>2. bus \in Buses /\ ren \in Sessions /\ renWorker \in Renderers
  BY <1>1 DEF RenderedInit, Buses, Sessions, Renderers, Ends
<1> QED  BY <1>2 DEF RenderedInit, RenderedInv, RenderedShape, Running, NoEnd

LEMMA RenderedStartStep ==
    ASSUME RenderedInv, StartRenderedRecording
    PROVE  RenderedInv'
<1>1. bus \in Buses /\ bus' = Subscribed
  BY DEF RenderedInv, RenderedShape, StartRenderedRecording
<1>2. <<>> \in Seq(Frames) /\ NewBundle \in Bundles /\ NewBundle.state = "Arming"
  BY FreshFacts
<1>3. /\ bus' \in Buses /\ ~bus'.normal /\ bus'.end = NoEnd /\ bus'.accepting /\ bus'.open
  BY <1>1, <1>2 DEF Subscribed, Buses, Ends
<1>4. ren' \in Sessions /\ ren'.result = NoEnd /\ ~ren'.stop /\ ren'.due = {}
  BY DEF StartRenderedRecording, Sessions
<1>5. renWorker' \in Renderers /\ renWorker'.pc = "Create" /\ renWorker'.bundle = NewBundle
  BY <1>2 DEF StartRenderedRecording, Renderers, HoldsSlot
<1>6. ~NewBundle.segments
  BY DEF NewBundle
<1>7. RenderedShape(bus', ren', renWorker')
  BY <1>2, <1>3, <1>4, <1>5, <1>6 DEF RenderedShape, Running, Due, Busy, NoEnd
<1> QED  BY <1>7 DEF RenderedInv

LEMMA RenderedStopStep ==
    ASSUME RenderedInv, StopRenderedRecording
    PROVE  RenderedInv'
<1>1. bus \in Buses /\ ren \in Sessions /\ UNCHANGED renWorker
      /\ bus' = [bus EXCEPT !.accepting = FALSE] /\ ren' = [ren EXCEPT !.stop = TRUE]
  BY DEF RenderedInv, RenderedShape, StopRenderedRecording
<1>2. /\ bus' \in Buses /\ bus'.normal = bus.normal /\ bus'.end = bus.end /\ bus'.queue = bus.queue
      /\ ~bus'.accepting
  BY <1>1 DEF Buses
<1>3. ren' \in Sessions /\ ren'.stop /\ ren'.due = ren.due /\ ren'.result = ren.result
  BY <1>1 DEF Sessions
<1>4. RenderedShape(bus', ren', renWorker')
  BY <1>1, <1>2, <1>3 DEF RenderedInv, RenderedShape, Due
<1> QED  BY <1>4 DEF RenderedInv

LEMMA EndOrderedFacts ==
    ASSUME NEW b \in Buses
    PROVE  LET n == EndOrdered(b) IN
           /\ n \in Buses /\ n.normal = b.normal /\ n.queue = b.queue /\ (n.accepting => b.accepting)
           /\ \/ n.end = NoEnd /\ b.end = NoEnd /\ ~b.accepting /\ b.attached
              \/ n = b
              \/ n.end # NoEnd /\ (b.accepting \/ b.end # NoEnd)
<1> DEFINE d == Detached(b)
           n == EndOrdered(b)
<1>1. CASE ~b.attached
  BY <1>1 DEF EndOrdered
<1>2. CASE b.attached
  <2>1. /\ d \in Buses /\ d.normal = b.normal /\ d.queue = b.queue /\ ~d.accepting /\ d.end = b.end
    BY DEF Detached, Buses
  <2>2. n = [d EXCEPT !.end = IF b.accepting THEN "Reset" ELSE @]
    BY <1>2 DEF EndOrdered
  <2> HIDE DEF d, n
  <2>3. /\ n \in Buses /\ n.normal = b.normal /\ n.queue = b.queue /\ ~n.accepting
        /\ n.end = IF b.accepting THEN "Reset" ELSE b.end
    BY <2>1, <2>2 DEF Buses, Ends
  <2> QED  BY <1>2, <2>3 DEF n, NoEnd
<1> QED  BY <1>1, <1>2

(* The subscription is ended from outside: a reset, or the preview cleared. *)
LEMMA EndStep ==
    ASSUME RenderedInv, bus' = EndOrdered(bus), UNCHANGED <<ren, renWorker>>
    PROVE  RenderedInv'
<1>1. bus \in Buses
  BY DEF RenderedInv, RenderedShape
<1>2. CASE bus' = bus
  BY <1>2 DEF RenderedInv, RenderedShape, Due
<1>3. CASE bus' # bus
  <2>1. /\ bus' \in Buses /\ bus'.normal = bus.normal /\ bus'.queue = bus.queue
        /\ (bus'.accepting => bus.accepting)
        /\ \/ bus'.end = NoEnd /\ bus.end = NoEnd /\ ~bus.accepting
           \/ bus'.end # NoEnd /\ (bus.accepting \/ bus.end # NoEnd)
    BY <1>1, <1>3, EndOrderedFacts
  <2>2. RenderedShape(bus', ren, renWorker)
    BY <2>1 DEF RenderedInv, RenderedShape, Due
  <2> QED  BY <2>2 DEF RenderedInv
<1> QED  BY <1>2, <1>3

LEMMA PublishStep ==
    ASSUME RenderedInv, NEW kind \in Kinds, Publish(kind)
    PROVE  RenderedInv'
<1> DEFINE frame == [id |-> bus.count + 1, kind |-> kind]
           a == [bus EXCEPT !.count = @ + 1]
           d == Detached(a)
           new == ren.handle /\ ~ren.stop /\ kind # "skip"
<1>1. /\ bus \in Buses /\ ren \in Sessions /\ bus.attached /\ bus.count \in Nat /\ UNCHANGED renWorker
      /\ bus' = Published(a, frame)
      /\ ren' = [ren EXCEPT !.due = IF new THEN @ \union {frame.id} ELSE @]
  BY BusFields DEF RenderedInv, RenderedShape, Publish
<1>2. frame \in Frames /\ frame.id \in Nat /\ frame.kind = kind
  BY <1>1 DEF Frames
<1> HIDE DEF frame
<1>3. /\ ren' \in Sessions /\ ren'.stop = ren.stop /\ ren'.result = ren.result
      /\ ren'.due = IF new THEN ren.due \cup {frame.id} ELSE ren.due
  BY <1>1, <1>2 DEF Sessions
<1>4. /\ a \in Buses /\ a.attached /\ a.end = bus.end /\ a.accepting = bus.accepting
      /\ a.open = bus.open /\ a.queue = bus.queue /\ a.normal = bus.normal
  BY <1>1 DEF Buses
<1> HIDE DEF a
<1>5. /\ d \in Buses /\ d.end = bus.end /\ ~d.accepting /\ d.queue = bus.queue /\ d.normal = bus.normal
  BY <1>4 DEF Detached, Buses
<1> HIDE DEF d
<1>6. CASE bus.end # NoEnd \/ ~bus.accepting \/ ~bus.open
  <2>1. bus' = d
    BY <1>1, <1>4, <1>6 DEF Published, d
  <2>2. RenderedShape(bus', ren', renWorker')
    BY <1>1, <1>3, <1>5, <1>6, <2>1 DEF RenderedInv, RenderedShape, Due
  <2> QED  BY <2>2 DEF RenderedInv
<1>7. CASE bus.end = NoEnd /\ bus.accepting /\ bus.open /\ Len(bus.queue) = OrderedCapacity
  <2>1. bus' = [d EXCEPT !.end = "QueueFull"]
    BY <1>1, <1>4, <1>7 DEF Published, d
  <2>2. /\ bus' \in Buses /\ bus'.end = "QueueFull" /\ ~bus'.accepting /\ bus'.normal = bus.normal
    BY <1>5, <2>1 DEF Buses, Ends
  <2>3. RenderedShape(bus', ren', renWorker')
    BY <1>1, <1>3, <1>7, <2>2 DEF RenderedInv, RenderedShape, NoEnd
  <2> QED  BY <2>3 DEF RenderedInv
<1>8. CASE bus.end = NoEnd /\ bus.accepting /\ bus.open /\ Len(bus.queue) # OrderedCapacity
  <2> DEFINE q == Append(bus.queue, frame)
  <2>1. bus' = [a EXCEPT !.queue = q]
    BY <1>1, <1>4, <1>8 DEF Published
  <2>2. /\ q \in Seq(Frames) /\ DOMAIN q = 1 .. Len(bus.queue) + 1
        /\ q[Len(bus.queue) + 1] = frame
        /\ \A k \in DOMAIN bus.queue : k \in DOMAIN q /\ q[k] = bus.queue[k]
    <3>1. /\ bus.queue \in Seq(Frames) /\ Len(bus.queue) \in Nat
          /\ DOMAIN bus.queue = 1 .. Len(bus.queue)
      BY <1>1, BusFields
    <3>2. /\ q \in Seq(Frames) /\ Len(q) = Len(bus.queue) + 1
          /\ \A k \in 1 .. Len(bus.queue) : q[k] = bus.queue[k]
          /\ q[Len(bus.queue) + 1] = frame
      BY <1>2, <3>1, AppendProperties
    <3>3. DOMAIN q = 1 .. Len(q)
      BY <3>2, LenProperties
    <3> HIDE DEF q
    <3> QED  BY <3>1, <3>2, <3>3
  <2> HIDE DEF q
  <2>3. /\ bus' \in Buses /\ bus'.end = NoEnd /\ bus'.accepting /\ bus'.open /\ bus'.queue = q
        /\ bus'.normal = bus.normal
    BY <1>4, <1>8, <2>1, <2>2 DEF Buses
  <2>4. ASSUME Due(bus, ren, renWorker)  PROVE Due(bus', ren', renWorker)
    <3>1. SUFFICES ASSUME NEW g \in ren'.due
                   PROVE  \/ g \in renWorker.wrote
                          \/ \E k \in DOMAIN bus'.queue :
                                bus'.queue[k].id = g /\ bus'.queue[k].kind # "skip"
      BY DEF Due
    <3>2. CASE g \in ren.due
      BY <2>2, <2>3, <2>4, <3>2 DEF Due
    <3>3. CASE g \notin ren.due
      <4>1. g = frame.id /\ kind # "skip"
        BY <1>3, <3>3
      <4>2. Len(bus.queue) + 1 \in DOMAIN q
        BY <1>1, <2>2, BusFields
      <4> QED  BY <1>2, <2>2, <2>3, <4>1, <4>2
    <3> QED  BY <3>2, <3>3
  <2>5. RenderedShape(bus', ren', renWorker)
    BY <1>1, <1>3, <1>8, <2>3, <2>4 DEF RenderedInv, RenderedShape
  <2> QED  BY <1>1, <2>5 DEF RenderedInv
<1> QED  BY <1>6, <1>7, <1>8

(* What a poll of the subscription yields: an end, the oldest frame, or     *)
(* nothing, and nothing only with an empty queue.                           *)
Yields(x) ==
    \/ /\ x.end # NoEnd /\ x.frame = Nothing
       /\ x.bus \in Buses /\ ~x.bus.normal /\ ~x.bus.accepting /\ x.bus.end # NoEnd
    \/ /\ x.end = NoEnd /\ x.frame # Nothing /\ bus.queue # <<>> /\ x.frame = Head(bus.queue)
       /\ x.bus \in Buses /\ ~x.bus.normal /\ bus.end = NoEnd /\ x.bus.end = NoEnd
       /\ x.bus.accepting = bus.accepting /\ x.bus.open = bus.open /\ x.bus.queue = Tail(bus.queue)
    \/ /\ x.end = NoEnd /\ x.frame = Nothing /\ bus.end = NoEnd /\ bus.queue = <<>>
       /\ \/ x.bus = bus
          \/ /\ x.bus \in Buses /\ ~bus.accepting /\ x.bus.end = NoEnd /\ x.bus.queue = <<>>
             /\ ~x.bus.accepting

LEMMA TryNextFacts ==
    ASSUME RenderedInv, NEW old \in BOOLEAN
    PROVE  Yields(TryNext(old))
<1> DEFINE x == TryNext(old)
<1>0. /\ bus \in Buses /\ (bus.normal => bus.end = NoEnd /\ bus.queue = <<>> /\ ~bus.accepting)
      /\ bus.end \in Ends /\ bus.queue \in Seq(Frames)
  BY BusFields DEF RenderedInv, RenderedShape
<1>1. ASSUME NEW end \in Ends, end # NoEnd, ~bus.normal,
             x = [bus |-> [bus EXCEPT !.accepting = FALSE, !.open = FALSE, !.end = end],
                  frame |-> Nothing, end |-> end]
      PROVE  Yields(x)
  <2> DEFINE n == [bus EXCEPT !.accepting = FALSE, !.open = FALSE, !.end = end]
  <2>1. x.bus = n /\ x.frame = Nothing /\ x.end = end
    BY <1>1
  <2>2. n \in Buses /\ ~n.normal /\ ~n.accepting /\ n.end = end
    BY <1>0, <1>1 DEF Buses
  <2> HIDE DEF x, n
  <2> QED  BY <1>1, <2>1, <2>2 DEF Yields
<1>2. CASE bus.normal
  <2>1. x = [bus |-> bus, frame |-> Nothing, end |-> NoEnd]
    BY <1>2 DEF TryNext
  <2> HIDE DEF x
  <2>2. x.bus = bus /\ x.frame = Nothing /\ x.end = NoEnd
    BY <2>1
  <2> QED  BY <1>0, <1>2, <2>2 DEF Yields, x
<1>3. CASE ~bus.normal /\ bus.end # NoEnd
  <2>1. x = [bus |-> [bus EXCEPT !.accepting = FALSE, !.open = FALSE, !.end = bus.end],
             frame |-> Nothing, end |-> bus.end]
    BY <1>3 DEF TryNext
  <2> HIDE DEF x
  <2> QED  BY <1>0, <1>1, <1>3, <2>1 DEF x
<1>4. CASE ~bus.normal /\ bus.end = NoEnd /\ bus.queue # <<>> /\ old
  <2>1. x = [bus |-> [bus EXCEPT !.accepting = FALSE, !.open = FALSE, !.end = "TooOld"],
             frame |-> Nothing, end |-> "TooOld"]
    BY <1>4 DEF TryNext
  <2>2. "TooOld" \in Ends /\ "TooOld" # NoEnd
    BY DEF Ends, NoEnd
  <2> HIDE DEF x
  <2> QED  BY <1>1, <1>4, <2>1, <2>2 DEF x
<1>5. CASE ~bus.normal /\ bus.end = NoEnd /\ bus.queue # <<>> /\ ~old
  <2> DEFINE n == [bus EXCEPT !.queue = Tail(bus.queue)]
  <2>1. x = [bus |-> n, frame |-> Head(bus.queue), end |-> NoEnd]
    BY <1>5 DEF TryNext
  <2>2. Head(bus.queue) \in Frames /\ Tail(bus.queue) \in Seq(Frames)
    BY <1>0, <1>5, HeadTailProperties
  <2>3. Head(bus.queue) # Nothing
    BY <2>2 DEF Frames, Nothing
  <2>4. /\ n \in Buses /\ n.normal = bus.normal /\ n.end = bus.end /\ n.accepting = bus.accepting
        /\ n.open = bus.open /\ n.queue = Tail(bus.queue)
    BY <1>0, <2>2 DEF Buses
  <2> HIDE DEF x, n
  <2>5. x.bus = n /\ x.frame = Head(bus.queue) /\ x.end = NoEnd
    BY <2>1
  <2> QED  BY <1>5, <2>3, <2>4, <2>5 DEF Yields, x
<1>6. CASE ~bus.normal /\ bus.end = NoEnd /\ bus.queue = <<>>
  <2> DEFINE n == IF bus.accepting THEN bus ELSE [bus EXCEPT !.open = FALSE, !.normal = TRUE]
  <2>1. x = [bus |-> n, frame |-> Nothing, end |-> NoEnd]
    BY <1>6 DEF TryNext
  <2>2. n = bus \/ (n \in Buses /\ ~bus.accepting /\ n.end = bus.end /\ n.queue = bus.queue
                    /\ ~n.accepting)
    BY <1>0 DEF Buses
  <2> HIDE DEF x, n
  <2>3. x.bus = n /\ x.frame = Nothing /\ x.end = NoEnd
    BY <2>1
  <2> QED  BY <1>6, <2>2, <2>3 DEF Yields, x
<1> QED  BY <1>2, <1>3, <1>4, <1>5, <1>6

LEMMA CloseRenderedFacts ==
    ASSUME NEW w \in Renderers
    PROVE  LET c == CloseRendered(w) IN
           /\ c \in Renderers /\ c.pc = w.pc /\ c.wrote = w.wrote /\ c.first = w.first
           /\ c.bundle.state = w.bundle.state /\ c.bundle.gaps = w.bundle.gaps
<1> DEFINE b == CommitSegment(w.bundle)
           n == [w EXCEPT !.bundle = b, !.active = FALSE]
<1>1. b \in Bundles /\ b.state = w.bundle.state /\ b.gaps = w.bundle.gaps
  BY RendererFields DEF CommitSegment, Bundles
<1> HIDE DEF b
<1>2. n \in Renderers /\ n.pc = w.pc /\ n.wrote = w.wrote /\ n.first = w.first /\ n.bundle = b
  BY <1>1 DEF Renderers
<1> HIDE DEF n
<1>3. CloseRendered(w) = IF w.active THEN n ELSE w
  BY DEF CloseRendered, n, b
<1> QED  BY <1>1, <1>2, <1>3

LEMMA MarkFacts ==
    ASSUME NEW b \in Bundles
    PROVE  /\ RecordGap(b) \in Bundles /\ RecordGap(b).state = b.state /\ RecordGap(b).gaps
           /\ RecordGap(b).segments = b.segments
           /\ MarkStarted(b) \in Bundles /\ MarkStarted(b).state = "Recording"
           /\ Failed(b) \in Bundles /\ Failed(b).state = "Failed"
BY DEF RecordGap, MarkStarted, Failed, Bundles, States, Busy, Results

(* A picture that fills an output slot is written.                          *)
LEMMA RenderFacts ==
    ASSUME NEW w \in Renderers, NEW frame \in Frames
    PROVE  LET n == Push(w, frame) IN
           \/ n = w /\ frame.kind = "skip"
           \/ /\ n \in Renderers /\ n.pc = w.pc /\ n.wrote = w.wrote \cup {frame.id}
              /\ n.bundle.state = "Recording"
<1> DEFINE started == [w EXCEPT !.first = FALSE]
           closed == CloseRendered(started)
           gapped == [closed EXCEPT !.bundle = RecordGap(closed.bundle)]
           at == CASE frame.kind = "jump" /\ ~w.first ->
                         IF w.bundle.state = "Recording" THEN gapped ELSE closed
                   [] frame.kind = "cut" /\ ~w.first -> closed
                   [] OTHER -> started
           n == [at EXCEPT !.active = TRUE, !.bundle = MarkStarted(at.bundle),
                           !.wrote = @ \union {frame.id}]
<1>1. Push(w, frame) = IF frame.kind = "skip" /\ ~w.first THEN w ELSE n
  BY DEF Push
<1>2. started \in Renderers /\ started.pc = w.pc /\ started.wrote = w.wrote
  BY DEF Renderers
<1> HIDE DEF started
<1>3. closed \in Renderers /\ closed.pc = w.pc /\ closed.wrote = w.wrote
  BY <1>2, CloseRenderedFacts
<1> HIDE DEF closed
<1>4. gapped \in Renderers /\ gapped.pc = w.pc /\ gapped.wrote = w.wrote
  <2>1. RecordGap(closed.bundle) \in Bundles
    BY <1>3, RendererFields, MarkFacts
  <2> QED  BY <1>3, <2>1 DEF Renderers
<1> HIDE DEF gapped
<1>5. at = gapped \/ at = closed \/ at = started
  <2>1. CASE frame.kind = "jump" /\ ~w.first
    BY <2>1
  <2>2. CASE frame.kind = "cut" /\ ~w.first
    BY <2>2
  <2>3. CASE ~(frame.kind = "jump" /\ ~w.first) /\ ~(frame.kind = "cut" /\ ~w.first)
    BY <2>3
  <2> QED  BY <2>1, <2>2, <2>3
<1>6. at \in Renderers /\ at.pc = w.pc /\ at.wrote = w.wrote
  BY <1>2, <1>3, <1>4, <1>5
<1> HIDE DEF at
<1>7. frame.id \in Nat /\ at.wrote \subseteq Nat /\ at.bundle \in Bundles
      /\ MarkStarted(at.bundle) \in Bundles /\ MarkStarted(at.bundle).state = "Recording"
  BY <1>6, RendererFields, MarkFacts DEF Frames
<1>8. /\ n \in Renderers /\ n.pc = w.pc /\ n.wrote = w.wrote \cup {frame.id}
      /\ n.bundle = MarkStarted(at.bundle)
  BY <1>6, <1>7 DEF Renderers
<1> HIDE DEF n
<1> QED  BY <1>1, <1>7, <1>8

(* A subscription that ended abnormally never leaves a Complete recording.  *)
LEMMA AfterEndFacts ==
    ASSUME NEW w \in Renderers, w.bundle.state \in Busy,
           w.bundle.state = "Arming" => ~w.bundle.segments
    PROVE  LET n == FinishAfterSubscriptionEnd(w) IN
           n \in Renderers /\ n.pc = "Done" /\ n.bundle.state # "Complete"
<1> DEFINE c == CloseRendered(w)
           g == [c EXCEPT !.bundle = RecordGap(c.bundle)]
           at == IF w.bundle.state # "Recording" THEN w ELSE g
           b == Finish(at.bundle)
           n == [at EXCEPT !.bundle = b, !.pc = "Done"]
<1>1. FinishAfterSubscriptionEnd(w) = n
  BY DEF FinishAfterSubscriptionEnd
<1>2. c \in Renderers /\ c.bundle \in Bundles /\ c.bundle.state = w.bundle.state
  BY CloseRenderedFacts, RendererFields
<1> HIDE DEF c
<1>3. g \in Renderers /\ g.bundle.state = w.bundle.state /\ g.bundle.gaps
  <2>1. RecordGap(c.bundle) \in Bundles /\ RecordGap(c.bundle).gaps
        /\ RecordGap(c.bundle).state = c.bundle.state
    BY <1>2, MarkFacts
  <2>2. g \in Renderers /\ g.bundle = RecordGap(c.bundle)
    BY <1>2, <2>1 DEF Renderers
  <2> QED  BY <1>2, <2>1, <2>2
<1> HIDE DEF g
<1>4. /\ at \in Renderers /\ at.bundle \in Bundles /\ at.bundle.state \in Busy
      /\ at.bundle.gaps \/ ~at.bundle.segments
  BY <1>3, RendererFields DEF Busy
<1> HIDE DEF at
<1>5. b \in Bundles /\ b.state # "Complete"
  BY <1>4 DEF Finish, Terminal, Bundles, States, Busy, Results
<1> HIDE DEF b
<1>6. n \in Renderers /\ n.pc = "Done" /\ n.bundle = b
  BY <1>4, <1>5 DEF Renderers, HoldsSlot
<1> HIDE DEF n
<1> QED  BY <1>1, <1>5, <1>6

LEMMA FinishRenderedFacts ==
    ASSUME NEW w \in Renderers
    PROVE  LET n == FinishRendered(w) IN
           n \in Renderers /\ n.pc = "Done" /\ n.wrote = w.wrote
<1> DEFINE c == CloseRendered(w)
           b == Finish(c.bundle)
           n == [c EXCEPT !.bundle = b, !.pc = "Done"]
<1>1. FinishRendered(w) = n
  BY DEF FinishRendered
<1>2. c \in Renderers /\ c.bundle \in Bundles /\ c.wrote = w.wrote
  BY CloseRenderedFacts, RendererFields
<1> HIDE DEF c
<1>3. b \in Bundles
  BY <1>2 DEF Finish, Terminal, Bundles, States, Busy, Results
<1> HIDE DEF b
<1>4. n \in Renderers /\ n.pc = "Done" /\ n.wrote = c.wrote
  BY <1>2, <1>3 DEF Renderers, HoldsSlot
<1> HIDE DEF n
<1> QED  BY <1>1, <1>2, <1>4

LEMMA TakenIsWritten ==
    ASSUME NEW b \in Buses, b.queue # <<>>, NEW c \in Buses, c.queue = Tail(b.queue), NEW r,
           NEW w \in Renderers, Due(b, r, w)
    PROVE  Due(c, r, Push(w, Head(b.queue)))
<1> DEFINE q == b.queue
           frame == Head(q)
           n == Push(w, frame)
           a == Len(q)
<1>1. /\ q \in Seq(Frames) /\ DOMAIN q = 1 .. a /\ a \in Nat
      /\ frame \in Frames /\ frame = q[1] /\ Tail(q) \in Seq(Frames)
      /\ Len(Tail(q)) = a - 1 /\ \A i \in 1 .. a - 1 : Tail(q)[i] = q[i + 1]
  <2>1. q \in Seq(Frames) /\ DOMAIN q = 1 .. a /\ a \in Nat
    BY BusFields
  <2>2. /\ frame \in Frames /\ Tail(q) \in Seq(Frames)
        /\ Len(Tail(q)) = a - 1 /\ \A i \in 1 .. Len(Tail(q)) : Tail(q)[i] = q[i + 1]
    BY <2>1, HeadTailProperties
  <2>3. frame = q[1]
    BY <2>1
  <2> HIDE DEF a
  <2> QED  BY <2>1, <2>2, <2>3
<1>2. DOMAIN Tail(q) = 1 .. a - 1
  BY <1>1, LenProperties
<1>3. (n = w /\ frame.kind = "skip") \/ n.wrote = w.wrote \cup {frame.id}
  BY <1>1, RenderFacts
<1>4. ASSUME NEW g \in r.due
      PROVE  \/ g \in n.wrote
             \/ \E k \in DOMAIN c.queue : c.queue[k].id = g /\ c.queue[k].kind # "skip"
  <2>1. CASE g \in w.wrote
    BY <1>3, <2>1
  <2>2. CASE g \notin w.wrote
    <3>1. PICK k \in DOMAIN q : q[k].id = g /\ q[k].kind # "skip"
      BY <2>2 DEF Due
    <3>2. c.queue = Tail(q)
      OBVIOUS
    <3> HIDE DEF q, frame, n, a
    <3>3. CASE k = 1
      BY <1>1, <1>3, <3>1, <3>3
    <3>4. CASE k # 1
      <4>1. k - 1 \in 1 .. a - 1 /\ (k - 1) + 1 = k
        BY <1>1, <3>1, <3>4
      <4>2. Tail(q)[k - 1] = q[k]
        BY <1>1, <4>1
      <4> QED  BY <1>2, <3>1, <3>2, <4>1, <4>2
    <3> QED  BY <3>3, <3>4
  <2> QED  BY <2>1, <2>2
<1> QED  BY <1>4 DEF Due

(* Where a turn of the running worker starts.                               *)
LEMMA RenderingFacts ==
    ASSUME RenderedInv, renWorker.pc \in {"Run", "Drain"}
    PROVE  /\ bus \in Buses /\ ren \in Sessions /\ renWorker \in Renderers /\ ren.result = NoEnd
           /\ renWorker.bundle.state \in Busy
           /\ renWorker.bundle.state = "Arming" => ~renWorker.bundle.segments
           /\ bus.end = NoEnd => Due(bus, ren, renWorker)
           /\ bus.end = NoEnd /\ ~ren.stop => bus.accepting /\ bus.open
           /\ renWorker.pc = "Drain" => ren.stop
BY DEF RenderedInv, RenderedShape, Running

(* The worker's part when it wrote a frame or skipped it.                   *)
LEMMA TakeStep ==
    ASSUME RenderedInv, renWorker.pc \in {"Run", "Drain"}, UNCHANGED ren, bus' \in Buses,
           bus.queue # <<>>, bus'.queue = Tail(bus.queue), bus.end = NoEnd, bus'.end = NoEnd,
           ~bus'.normal, bus'.accepting = bus.accepting, bus'.open = bus.open,
           renWorker' = Push(renWorker, Head(bus.queue))
    PROVE  RenderedInv'
<1>1. /\ bus \in Buses /\ ren \in Sessions /\ renWorker \in Renderers /\ ren.result = NoEnd
      /\ renWorker.bundle.state \in Busy
      /\ renWorker.bundle.state = "Arming" => ~renWorker.bundle.segments
      /\ Due(bus, ren, renWorker) /\ (~ren.stop => bus.accepting /\ bus.open)
      /\ renWorker.pc = "Drain" => ren.stop
  BY RenderingFacts
<1>2. Due(bus', ren, renWorker')
  BY <1>1, TakenIsWritten
<1>3. Head(bus.queue) \in Frames
  BY <1>1, BusFields, HeadTailProperties
<1>4. /\ renWorker' \in Renderers /\ renWorker'.pc = renWorker.pc
      /\ renWorker'.bundle.state \in Busy
      /\ renWorker'.bundle.state = "Arming" => ~renWorker'.bundle.segments
  <2>1. CASE renWorker' = renWorker
    BY <1>1, <2>1
  <2>2. CASE renWorker' # renWorker
    BY <1>1, <1>3, <2>2, RenderFacts DEF Busy
  <2> QED  BY <2>1, <2>2
<1>5. RenderedShape(bus', ren, renWorker')
  BY <1>1, <1>2, <1>4 DEF RenderedShape, Running, NoEnd
<1> QED  BY <1>5 DEF RenderedInv

(* The worker is done and nothing says Complete, or rightly so.             *)
LEMMA DoneStep ==
    ASSUME bus' \in Buses, ren' \in Sessions, ren'.result = NoEnd,
           bus'.normal => bus'.end = NoEnd /\ bus'.queue = <<>> /\ ~bus'.accepting,
           renWorker' \in Renderers, renWorker'.pc = "Done",
           renWorker'.bundle.state = "Complete" => ren'.stop /\ ren'.due \subseteq renWorker'.wrote
    PROVE  RenderedInv'
<1>1. RenderedShape(bus', ren', renWorker')
  BY DEF RenderedShape, Running, NoEnd
<1> QED  BY <1>1 DEF RenderedInv

LEMMA TurnStep ==
    ASSUME RenderedInv, NEW old \in BOOLEAN, Pump(old) \/ DrainAndFinish(old)
    PROVE  RenderedInv'
<1> DEFINE x == TryNext(old)
           w == renWorker
<1>1. /\ bus \in Buses /\ ren \in Sessions /\ w \in Renderers /\ ren.result = NoEnd
      /\ w.bundle.state \in Busy
      /\ w.bundle.state = "Arming" => ~w.bundle.segments
      /\ bus.end = NoEnd => Due(bus, ren, w)
      /\ bus.end = NoEnd /\ ~ren.stop => bus.accepting /\ bus.open
      /\ w.pc = "Drain" => ren.stop
      /\ w.pc \in {"Run", "Drain"} /\ UNCHANGED ren
      /\ bus.normal => bus.end = NoEnd /\ bus.queue = <<>> /\ ~bus.accepting
  BY RenderingFacts DEF Pump, DrainAndFinish, RenderedInv, RenderedShape
<1>2. CASE Pump(old) /\ ren.stop
  <2>1. UNCHANGED <<bus, ren>> /\ renWorker' = [w EXCEPT !.pc = "Drain"] /\ w.pc = "Run"
    BY <1>2 DEF Pump
  <2>2. /\ renWorker' \in Renderers /\ renWorker'.pc = "Drain" /\ renWorker'.bundle = w.bundle
        /\ renWorker'.wrote = w.wrote
    BY <1>1, <2>1 DEF Renderers, HoldsSlot
  <2>3. RenderedShape(bus, ren, renWorker')
    BY <1>1, <1>2, <2>2 DEF RenderedShape, Running, Due, NoEnd
  <2> QED  BY <2>1, <2>3 DEF RenderedInv
<1>3. CASE (Pump(old) /\ ~ren.stop) \/ DrainAndFinish(old)
  <2>1. Yields(x)
    BY TryNextFacts
  <2>2. x.end = NoEnd \/ x.frame = Nothing
    <3> HIDE DEF x
    <3> QED  BY <2>1 DEF Yields
  <2>3. /\ bus' = x.bus
        /\ x.end # NoEnd => renWorker' = FinishAfterSubscriptionEnd(w)
        /\ x.end = NoEnd /\ x.frame # Nothing => renWorker' = Push(w, x.frame)
        /\ x.end = NoEnd /\ x.frame = Nothing =>
              renWorker' = IF w.pc = "Run" THEN w ELSE FinishRendered(w)
        /\ w.pc = "Run" => ~ren.stop
    <3>1. CASE Pump(old) /\ ~ren.stop
      <4>1. /\ w.pc = "Run" /\ bus' = x.bus
            /\ renWorker' = CASE x.end # NoEnd -> FinishAfterSubscriptionEnd(w)
                              [] x.frame # Nothing -> Push(w, x.frame)
                              [] OTHER -> w
        BY <3>1 DEF Pump
      <4> HIDE DEF x
      <4> QED  BY <2>2, <3>1, <4>1
    <3>2. CASE DrainAndFinish(old)
      <4>1. /\ w.pc = "Drain" /\ bus' = x.bus
            /\ renWorker' = CASE x.end # NoEnd -> FinishAfterSubscriptionEnd(w)
                              [] x.frame # Nothing -> Push(w, x.frame)
                              [] OTHER -> FinishRendered(w)
        BY <3>2 DEF DrainAndFinish
      <4> HIDE DEF x
      <4> QED  BY <2>2, <4>1
    <3> QED  BY <1>3, <3>1, <3>2
  <2> HIDE DEF x
  <2>4. CASE x.end # NoEnd
    <3>1. renWorker' \in Renderers /\ renWorker'.pc = "Done" /\ renWorker'.bundle.state # "Complete"
      BY <1>1, <2>3, <2>4, AfterEndFacts
    <3>2. bus' \in Buses /\ ~bus'.normal
      BY <2>1, <2>3, <2>4 DEF Yields
    <3> QED  BY <1>1, <3>1, <3>2, DoneStep
  <2>5. CASE x.end = NoEnd /\ x.frame # Nothing
    <3>1. /\ bus.queue # <<>> /\ x.frame = Head(bus.queue) /\ bus' \in Buses /\ ~bus'.normal
          /\ bus.end = NoEnd /\ bus'.end = NoEnd /\ bus'.accepting = bus.accepting
          /\ bus'.open = bus.open /\ bus'.queue = Tail(bus.queue)
      BY <2>1, <2>3, <2>5 DEF Yields
    <3> QED  BY <1>1, <2>3, <2>5, <3>1, TakeStep
  <2>6. CASE x.end = NoEnd /\ x.frame = Nothing
    <3>1. /\ bus.end = NoEnd /\ bus.queue = <<>>
          /\ \/ bus' = bus
             \/ /\ bus' \in Buses /\ ~bus.accepting /\ bus'.end = NoEnd /\ bus'.queue = <<>>
                /\ ~bus'.accepting
      BY <2>1, <2>3, <2>6 DEF Yields
    <3>2. ren.due \subseteq w.wrote
      BY <1>1, <3>1 DEF Due
    <3>3. CASE w.pc = "Run"
      BY <1>1, <2>3, <2>6, <3>1, <3>3 DEF RenderedInv
    <3>4. CASE w.pc = "Drain"
      <4>1. renWorker' \in Renderers /\ renWorker'.pc = "Done" /\ renWorker'.wrote = w.wrote
        BY <1>1, <2>3, <2>6, <3>4, FinishRenderedFacts
      <4>2. bus' \in Buses /\ (bus'.normal => bus'.end = NoEnd /\ bus'.queue = <<>> /\ ~bus'.accepting)
        BY <1>1, <3>1
      <4> QED  BY <1>1, <3>2, <3>4, <4>1, <4>2, DoneStep
    <3> QED  BY <1>1, <3>3, <3>4
  <2> QED  BY <2>4, <2>5, <2>6
<1> QED  BY <1>2, <1>3

LEMMA RenderedFailStep ==
    ASSUME RenderedInv, UNCHANGED <<bus, ren>>, renWorker.pc \in {"Create", "Run", "Drain"},
           renWorker' = RenderedFailed(renWorker)
    PROVE  RenderedInv'
<1>1. /\ bus \in Buses /\ ren \in Sessions /\ renWorker \in Renderers /\ ren.result = NoEnd
      /\ bus.normal => bus.end = NoEnd /\ bus.queue = <<>> /\ ~bus.accepting
  BY DEF RenderedInv, RenderedShape
<1>2. Failed(renWorker.bundle) \in Bundles /\ Failed(renWorker.bundle).state = "Failed"
  BY <1>1, RendererFields, MarkFacts
<1>3. renWorker' \in Renderers /\ renWorker'.pc = "Done" /\ renWorker'.bundle.state # "Complete"
  BY <1>1, <1>2 DEF RenderedFailed, Renderers, HoldsSlot
<1> QED  BY <1>1, <1>3, DoneStep

LEMMA RenderedCreateStep ==
    ASSUME RenderedInv, NEW ok \in BOOLEAN, CreateRenderedBundle(ok)
    PROVE  RenderedInv'
<1>1. UNCHANGED <<bus, ren>> /\ renWorker.pc = "Create"
  BY DEF CreateRenderedBundle
<1>2. CASE ok
  <2>1. renWorker \in Renderers /\ renWorker' = [renWorker EXCEPT !.pc = "Run"]
    BY <1>2 DEF RenderedInv, RenderedShape, CreateRenderedBundle
  <2>2. /\ renWorker' \in Renderers /\ renWorker'.pc = "Run" /\ renWorker'.bundle = renWorker.bundle
        /\ renWorker'.wrote = renWorker.wrote
    BY <2>1 DEF Renderers, HoldsSlot
  <2>3. RenderedShape(bus, ren, renWorker')
    BY <1>1, <2>2 DEF RenderedInv, RenderedShape, Running, Due
  <2> QED  BY <1>1, <2>3 DEF RenderedInv
<1>3. CASE ~ok
  BY <1>1, <1>3, RenderedFailStep DEF CreateRenderedBundle
<1> QED  BY <1>2, <1>3

LEMMA RenderedResultStep ==
    ASSUME RenderedInv, ReleaseRenderedSlot \/ PublishRenderedResult
    PROVE  RenderedInv'
<1>1. /\ bus \in Buses /\ ren \in Sessions /\ renWorker \in Renderers
      /\ renWorker.bundle.state \in States
  BY RendererFields DEF RenderedInv, RenderedShape
<1>2. CASE ReleaseRenderedSlot
  <2>1. /\ renWorker.pc = "Done" /\ UNCHANGED ren /\ bus' = Dropped(bus)
        /\ renWorker' = [renWorker EXCEPT !.pc = "Freed"]
    BY <1>2 DEF ReleaseRenderedSlot
  <2>2. /\ renWorker' \in Renderers /\ renWorker'.pc = "Freed"
        /\ renWorker'.bundle = renWorker.bundle /\ renWorker'.wrote = renWorker.wrote
    BY <1>1, <2>1 DEF Renderers
  <2>3. <<>> \in Seq(Frames)
    OBVIOUS
  <2>4. /\ bus' \in Buses /\ ~bus'.accepting /\ bus'.queue = <<>> /\ bus'.normal = bus.normal
        /\ bus'.end = IF bus.accepting THEN "Cancelled" ELSE bus.end
    BY <1>1, <2>1, <2>3 DEF Dropped, Buses, Ends
  <2>5. RenderedShape(bus', ren, renWorker')
    BY <1>1, <2>1, <2>2, <2>4 DEF RenderedInv, RenderedShape, Running
  <2> QED  BY <2>1, <2>5 DEF RenderedInv
<1>3. CASE PublishRenderedResult
  <2>1. /\ renWorker.pc = "Freed" /\ UNCHANGED bus
        /\ renWorker' = [renWorker EXCEPT !.pc = "Off"]
        /\ ren' = [ren EXCEPT !.result = renWorker.bundle.state]
    BY <1>3 DEF PublishRenderedResult
  <2>2. /\ renWorker' \in Renderers /\ renWorker'.pc = "Off"
        /\ renWorker'.bundle = renWorker.bundle /\ renWorker'.wrote = renWorker.wrote
    BY <1>1, <2>1 DEF Renderers
  <2>3. /\ ren' \in Sessions /\ ren'.result = renWorker.bundle.state /\ ren'.stop = ren.stop
        /\ ren'.due = ren.due
    BY <1>1, <2>1 DEF Sessions
  <2>4. RenderedShape(bus, ren', renWorker')
    BY <1>1, <2>1, <2>2, <2>3 DEF RenderedInv, RenderedShape, Running
  <2> QED  BY <2>1, <2>4 DEF RenderedInv
<1> QED  BY <1>2, <1>3

LEMMA RenderedStays ==
    ASSUME RenderedInv, UNCHANGED renderedVars
    PROVE  RenderedInv'
BY DEF RenderedInv, renderedVars

-----------------------------------------------------------------------------
(* The two recordings together.                                             *)

LEMMA EncodedNext ==
    ASSUME EncodedInv,
           \/ \E u \in Units \union {0} : StartEncodedRecording(u)
           \/ EncodedSessionStep
           \/ EncodedWorkerStep \/ PollTooOld \/ EncodedWorkerFails
    PROVE  EncodedInv'
<1>1. CASE \E u \in Units \union {0} : StartEncodedRecording(u)
  BY <1>1, StartStep
<1>2. CASE EncodedSessionStep
  <2>1. ASSUME NEW late \in BOOLEAN, StopEncodedRecording(late)  PROVE EncodedInv'
    BY <2>1, StopStep
  <2>2. ASSUME NEW late \in BOOLEAN, NEW request \in Requests,
               PumpRecordingControl(late, request)
        PROVE  EncodedInv'
    BY <2>2, PumpStep
  <2>3. ASSUME NEW u \in Units, LoseAccessUnit(u)  PROVE EncodedInv'
    BY <2>3, LoseStep
  <2>4. ASSUME NEW u \in Units, NEW late \in BOOLEAN, CompleteAccessUnit(u, late)
        PROVE  EncodedInv'
    BY <2>4, CompleteStep
  <2>5. ASSUME NEW epoch \in Epochs, HandleStreamConfig(epoch)  PROVE EncodedInv'
    BY <2>5, ConfigStep
  <2>6. ASSUME NEW old \in BOOLEAN, Proceed(old)  PROVE EncodedInv'
    BY <2>6, ProceedStep
  <2> QED  BY <1>2, <2>1, <2>2, <2>3, <2>4, <2>5, <2>6 DEF EncodedSessionStep, Requests
<1>3. CASE EncodedWorkerStep
  <2>1. ASSUME NEW ok \in BOOLEAN, CreateEncodedBundle(ok)  PROVE EncodedInv'
    BY <2>1, CreateStep
  <2>2. ASSUME NEW expired \in Units \union {0}, PollInput(expired)  PROVE EncodedInv'
    BY <2>2, InputStep
  <2>3. ASSUME NEW expired \in Units \union {0}, PollIdle(expired)  PROVE EncodedInv'
    BY <2>3, IdleStep
  <2> QED  BY <1>3, <2>1, <2>2, <2>3, LookStep, FailStep, GapStep, DrainedStep, ResultStep
           DEF EncodedWorkerStep
<1>4. CASE PollTooOld \/ EncodedWorkerFails
  BY <1>4, FailStep
<1> QED  BY <1>1, <1>2, <1>3, <1>4

LEMMA RenderedNext ==
    ASSUME RenderedInv,
           StartRenderedRecording \/ RenderedSessionStep \/ RenderedWorkerStep \/ RenderedWorkerFails
    PROVE  RenderedInv'
<1>1. CASE StartRenderedRecording
  BY <1>1, RenderedStartStep
<1>2. CASE RenderedSessionStep
  <2>1. ASSUME NEW kind \in Kinds, Publish(kind)  PROVE RenderedInv'
    BY <2>1, PublishStep
  <2>2. CASE ClearFrames
    BY <2>2, EndStep DEF ClearFrames
  <2> QED  BY <1>2, <2>1, <2>2, RenderedStopStep DEF RenderedSessionStep
<1>3. CASE RenderedWorkerStep
  <2>1. ASSUME NEW ok \in BOOLEAN, CreateRenderedBundle(ok)  PROVE RenderedInv'
    BY <2>1, RenderedCreateStep
  <2>2. ASSUME NEW old \in BOOLEAN, Pump(old) \/ DrainAndFinish(old)  PROVE RenderedInv'
    BY <2>2, TurnStep
  <2> QED  BY <1>3, <2>1, <2>2, RenderedResultStep DEF RenderedWorkerStep
<1>4. CASE RenderedWorkerFails
  BY <1>4, RenderedFailStep DEF RenderedWorkerFails
<1> QED  BY <1>1, <1>2, <1>3, <1>4

(* IInv is inductive.                                                       *)
THEOREM Invariant == Spec => []IInv
<1>1. IInv <=> EncodedInv /\ RenderedInv
  BY DEF IInv, EncodedInv, RenderedInv
<1>2. Init => IInv
  BY <1>1, EncodedStart, RenderedStart DEF Init
<1>3. ASSUME IInv, [Next]_vars  PROVE IInv'
  <2>0. EncodedInv /\ RenderedInv
    BY <1>1, <1>3
  <2>1. CASE UNCHANGED vars
    BY <2>0, <2>1, EncodedStays, RenderedStays DEF vars, encodedVars, renderedVars, IInv,
       EncodedInv, RenderedInv
  <2>2. CASE ResetSessionResources
    BY <2>0, <2>2, ResetStep, EndStep DEF ResetSessionResources, IInv, EncodedInv, RenderedInv
  <2>3. CASE Next /\ ~ResetSessionResources
    <3>1. \/ /\ \/ \E u \in Units \union {0} : StartEncodedRecording(u)
                \/ EncodedSessionStep
                \/ EncodedWorkerStep \/ PollTooOld \/ EncodedWorkerFails
             /\ UNCHANGED renderedVars
          \/ /\ StartRenderedRecording \/ RenderedSessionStep \/ RenderedWorkerStep
                \/ RenderedWorkerFails
             /\ UNCHANGED encodedVars
      BY <2>3 DEF Next, EncodedWorker, RenderedWorker
    <3>2. EncodedInv' /\ RenderedInv'
      BY <2>0, <3>1, EncodedNext, RenderedNext, EncodedStays, RenderedStays
    <3> QED  BY <3>2 DEF IInv, EncodedInv, RenderedInv
  <2> QED  BY <1>3, <2>1, <2>2, <2>3
<1> QED  BY <1>2, <1>3, PTL DEF Spec

LEMMA InvariantSuffices == IInv => ResultIsTrue
<1> SUFFICES ASSUME IInv  PROVE ResultIsTrue
  OBVIOUS
<1>1. EncodedShape(enc, encWorker) /\ RenderedShape(bus, ren, renWorker)
  BY DEF IInv
<1>2. EncodedWhole
  <2>1. SUFFICES ASSUME enc.result = "Complete"
                 PROVE  LET units == {i \in DOMAIN enc.accepted : enc.accepted[i] # Gap}
                            written == encWorker.written
                        IN  /\ enc.missed => enc.failure # None
                            /\ \A i \in units : \A v \in written :
                                  Epoch(v) = Epoch(enc.accepted[i]) /\ v <= enc.accepted[i]
                                     => enc.accepted[i] \in written
                            /\ \A u, v \in written : Epoch(u) = Epoch(v) => u .. v \subseteq written
                            /\ \A i \in DOMAIN enc.accepted : \A j \in units :
                                  enc.accepted[i] = Gap /\ enc.accepted[j] \in written => i < j
    BY DEF EncodedWhole
  <2>2. Whole(enc.accepted, encWorker.written) /\ (enc.missed => enc.failure # None)
    BY <1>1, <2>1 DEF EncodedShape
  <2> QED  BY <2>2 DEF Whole
<1>3. RenderedWhole
  BY <1>1 DEF RenderedWhole, RenderedShape
<1>4. ResultFreesSlot
  BY <1>1 DEF ResultFreesSlot, EncodedShape, RenderedShape, HoldsSlot, AlreadyActive
<1> QED  BY <1>2, <1>3, <1>4 DEF ResultIsTrue

(* What the result of a recording says.  An encoded recording reported      *)
(* Complete holds, of every epoch it holds anything of, every unit that its *)
(* queue accepted from the first one written on, without a hole and without *)
(* a reported loss behind it; a unit that never reached the queue has left  *)
(* a failure in the ingress, seen or not; a rendered recording holds every  *)
(* picture that was due between the user's start and stop; and a published  *)
(* result means that the slot and the subscription are free.                *)
THEOREM ResultsAreTrue == Spec => []ResultIsTrue
BY Invariant, InvariantSuffices, PTL
=============================================================================

