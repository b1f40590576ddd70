-------------------------- MODULE NativeCamera_proofs --------------------------
(***************************************************************************)
(* The safety of the native camera path for every capacity of the request  *)
(* queue and every number of calls and faults that disturb it.             *)
(*                                                                         *)
(* Three arguments, one for each property.  The gate lifecycle_operation   *)
(* has one holder, and who holds it says how far the call of that thread   *)
(* is (GateShape, RunShape).  One surface travels on a connection, so a    *)
(* message about it, or a place that holds it, says where it is not        *)
(* (SurfaceShape); it rests on what a connection that is not up cannot     *)
(* have: a live end or a message (LinkShape).  And a token that still      *)
(* holds was taken after the last placeholder, whose owner cut the pipe    *)
(* before there was live content again (ContentShape).                     *)
(***************************************************************************)
EXTENDS NativeCamera, SequenceTheorems, FiniteSetTheorems, TLAPS

Pcs == {"Loop", "Done", "Pop", "Connect", "Token", "Demand", "Hello", "Offer",
        "Import", "Sample", "Store", "Gate", "Take", "Admit", "Recheck", "Queue",
        "Fail"}

CamType == [running : BOOLEAN, transitioning : BOOLEAN, alive : BOOLEAN,
            native : BOOLEAN, placeholder : BOOLEAN, pipe : Ends,
            handshake : BOOLEAN, prepared : SUBSET Offered,
            inflight : BOOLEAN, requests : 0..MaxRequests]

PType == [pc : Pcs, pipe : Ends, life : BOOLEAN, sess : BOOLEAN,
          token : BOOLEAN, fresh : BOOLEAN]

RType == [pc : {"idle", "Kind", "Set", "Push", "Acquire", "Copy", "Queue"},
          placeholder : BOOLEAN, life : BOOLEAN]

WType == [pc : {"Accept", "Demand", "Take", "Ready", "Check", "Imported", "Released"},
          channel : BOOLEAN, content : BOOLEAN, fresh : BOOLEAN]

OutType == [pipe : Ends, sess : BOOLEAN]

ToClient == [type : {"Hello", "Offer"}, fresh : BOOLEAN]
ToServer == {"Demand", "Ready", "Close", "Rejected", "Imported", "Released"}

Types ==
    /\ cam \in CamType /\ p \in PType /\ r \in RType /\ w \in WType
    /\ lock \in {"free", "control", "preparer", "request"}
    /\ control \in {"idle", "start", "started", "stop", "reset", "stopped",
                    "leave", "join", "gone"}
    /\ announced \in BOOLEAN
    /\ out \in SUBSET OutType
    /\ link \in {"gone", "closed", "listening", "up"}
    /\ toServer \in Seq(ToServer) /\ toClient \in Seq(ToClient)
    /\ owner \in {"idle", "submit", "clear", "cut"}
    /\ latest \in {"none", "current", "revoked"}
    /\ signal \in {"Live", "Placeholder"}

Inside == {"Admit", "Recheck", "Queue"}

-----------------------------------------------------------------------------
(* The gate has one holder, and the stream is in transition exactly while a *)
(* control call holds it.                                                   *)
GateShape ==
    /\ lock = "preparer" <=> p.pc \in Inside
    /\ lock = "request" <=> r.pc = "Queue"
    /\ lock = "control" <=> control \notin {"idle", "join", "gone"}
    /\ cam.transitioning <=> lock = "control"

(* Between two control calls a stream that runs has been announced.         *)
RunShape ==
    /\ cam.running \/ lock = "control" => cam.alive
    /\ control \in {"start", "reset", "stopped"} => ~cam.running
    /\ control \in {"stop", "reset", "stopped"} => announced
    /\ control # "started" /\ cam.running => announced

(* A connection that is not up has no live end and no message under way.    *)
LinkShape ==
    /\ desktop = "down" => link = "gone"
    /\ link # "up" => /\ ~ClientOpen
                      /\ toServer = <<>> /\ toClient = <<>>

(* What is of the session in force is of its pipe, and a dead pipe leaves   *)
(* no live end of another session.                                          *)
SessionShape ==
    /\ p.sess => p.pipe = cam.pipe
    /\ p.sess \/ p.pc \in Carries => p.pipe # "none"
    /\ \A s \in cam.prepared : s.pipe = cam.pipe /\ s.pipe # "none"
    /\ \A s \in out : s.pipe # "none" /\ (s.sess => s.pipe = cam.pipe)
                      /\ (s.sess \/ s.pipe = "live")
    /\ cam.pipe = "dead" => ~ClientOpen
    /\ p.pc \in Inside => cam.prepared = {}
    /\ \A s, t \in cam.prepared : s = t

-----------------------------------------------------------------------------
(* Who holds the surface of the connection.                                 *)
PreparerHolds == p.pipe = "live" /\ p.pc \in Carries
PreparedHolds == \E s \in cam.prepared : s.pipe = "live"
SampleHolds == \E s \in out : s.pipe = "live"
Held == PreparerHolds \/ PreparedHolds \/ SampleHolds

HeldOnce ==
    /\ ~(PreparerHolds /\ PreparedHolds)
    /\ ~(PreparerHolds /\ SampleHolds)
    /\ ~(PreparedHolds /\ SampleHolds)
    /\ \A s, t \in out : s.pipe = "live" /\ t.pipe = "live" => s = t

Says(m, q) == \E i \in 1..Len(q) : q[i] = m
SaysOnce(m, q) == \A i, j \in 1..Len(q) : q[i] = m /\ q[j] = m => i = j

Offers(q) == \E i \in 1..Len(q) : q[i].type = "Offer"
OffersOnce(q) == \A i, j \in 1..Len(q) : q[i].type = "Offer" /\ q[j].type = "Offer" => i = j
OffersFresh(q) == \A i \in 1..Len(q) : q[i].type = "Offer" => q[i].fresh

Away == w.pc \in {"Imported", "Released"}

(* One surface: offered, or held, or on its way back.                       *)
SurfaceShape ==
    /\ HeldOnce
    /\ SaysOnce("Imported", toServer) /\ SaysOnce("Released", toServer)
    /\ OffersOnce(toClient)
    /\ link = "up" =>
          /\ Held => Away /\ ~Offers(toClient) /\ ~Says("Released", toServer)
          /\ Offers(toClient) => /\ w.pc = "Imported" /\ ~Says("Imported", toServer)
                                 /\ ~Says("Released", toServer)
          /\ PreparerHolds /\ p.pc \in {"Import", "Sample"} =>
                w.pc = "Imported" /\ ~Says("Imported", toServer)
          /\ Says("Imported", toServer) => w.pc = "Imported"
          /\ Says("Released", toServer) => Away

(* What was taken before a placeholder is recognised until the pipe is cut. *)
ContentShape ==
    /\ latest = "revoked" => owner = "clear"
    /\ owner \in {"clear", "cut"} => signal = "Placeholder"
    /\ owner # "clear" /\ w.content => w.fresh
    /\ owner \notin {"clear", "cut"} => OffersFresh(toClient)
    /\ p.token => signal = "Live" /\ (p.pc \in Carries => p.fresh)
    /\ \A s \in cam.prepared : s.token => signal = "Live" /\ s.fresh

IInv ==
    /\ Types
    /\ GateShape
    /\ RunShape
    /\ LinkShape
    /\ SessionShape
    /\ SurfaceShape
    /\ ContentShape
    /\ SampleWithinRun

-----------------------------------------------------------------------------
(* Queues.                                                                  *)

LEMMA EmptyFacts ==
    /\ \A m : ~Says(m, <<>>) /\ SaysOnce(m, <<>>)
    /\ ~Offers(<<>>) /\ OffersOnce(<<>>) /\ OffersFresh(<<>>)
BY DEF Says, SaysOnce, Offers, OffersOnce, OffersFresh

LEMMA AppendFacts ==
    ASSUME NEW S, NEW q \in Seq(S), NEW m \in S
    PROVE  /\ Append(q, m) \in Seq(S)
           /\ \A x : Says(x, Append(q, m)) <=> Says(x, q) \/ x = m
           /\ \A x : /\ SaysOnce(x, q) /\ x # m => SaysOnce(x, Append(q, m))
                     /\ ~Says(x, q) => SaysOnce(x, Append(q, m))
<1>1. /\ Append(q, m) \in Seq(S) /\ Len(Append(q, m)) = Len(q) + 1
      /\ \A i \in 1..Len(q) : Append(q, m)[i] = q[i]
      /\ Append(q, m)[Len(q) + 1] = m /\ Len(q) \in Nat
  BY AppendProperties, LenProperties
<1>2. ASSUME NEW x PROVE Says(x, Append(q, m)) <=> Says(x, q) \/ x = m
  BY <1>1 DEF Says
<1>3. ASSUME NEW x, SaysOnce(x, q) /\ x # m PROVE SaysOnce(x, Append(q, m))
  BY <1>1, <1>3 DEF SaysOnce
<1>4. ASSUME NEW x, ~Says(x, q) PROVE SaysOnce(x, Append(q, m))
  BY <1>1, <1>4 DEF SaysOnce, Says
<1> QED BY <1>1, <1>2, <1>3, <1>4

LEMMA TailFacts ==
    ASSUME NEW S, NEW q \in Seq(S), q # <<>>
    PROVE  /\ Tail(q) \in Seq(S) /\ Head(q) \in S
           /\ Says(Head(q), q)
           /\ \A x : /\ Says(x, Tail(q)) => Says(x, q)
                     /\ SaysOnce(x, q) => SaysOnce(x, Tail(q))
           /\ SaysOnce(Head(q), q) => ~Says(Head(q), Tail(q))
<1>1. /\ Tail(q) \in Seq(S) /\ Head(q) \in S /\ Head(q) = q[1]
      /\ Len(Tail(q)) = Len(q) - 1 /\ Len(q) \in Nat /\ Len(q) >= 1
      /\ \A i \in 1..Len(q) - 1 : Tail(q)[i] = q[i + 1]
  BY HeadTailProperties, LenProperties, EmptySeq
<1>2. Says(Head(q), q)
  BY <1>1 DEF Says
<1>3. ASSUME NEW x, Says(x, Tail(q)) PROVE Says(x, q)
  BY <1>1, <1>3 DEF Says
<1>4. ASSUME NEW x, SaysOnce(x, q) PROVE SaysOnce(x, Tail(q))
  <2> SUFFICES ASSUME NEW i \in 1..Len(Tail(q)), NEW j \in 1..Len(Tail(q)),
                      Tail(q)[i] = x, Tail(q)[j] = x
               PROVE  i = j
    BY DEF SaysOnce
  <2>1. i + 1 \in 1..Len(q) /\ j + 1 \in 1..Len(q) /\ q[i + 1] = x /\ q[j + 1] = x
    BY <1>1
  <2>2. i + 1 = j + 1
    BY <1>4, <2>1 DEF SaysOnce
  <2> QED BY <1>1, <2>2
<1>5. SaysOnce(Head(q), q) => ~Says(Head(q), Tail(q))
  BY <1>1 DEF Says, SaysOnce
<1> QED BY <1>1, <1>2, <1>3, <1>4, <1>5

LEMMA OfferAppended ==
    ASSUME NEW q \in Seq(ToClient), NEW m \in ToClient
    PROVE  /\ Append(q, m) \in Seq(ToClient)
           /\ Offers(Append(q, m)) <=> Offers(q) \/ m.type = "Offer"
           /\ OffersOnce(q) /\ m.type # "Offer" => OffersOnce(Append(q, m))
           /\ ~Offers(q) => OffersOnce(Append(q, m))
           /\ OffersFresh(q) /\ (m.type = "Offer" => m.fresh) => OffersFresh(Append(q, m))
<1>1. /\ Append(q, m) \in Seq(ToClient) /\ Len(Append(q, m)) = Len(q) + 1
      /\ \A i \in 1..Len(q) : Append(q, m)[i] = q[i]
      /\ Append(q, m)[Len(q) + 1] = m /\ Len(q) \in Nat
  BY AppendProperties, LenProperties
<1>2. Offers(Append(q, m)) <=> Offers(q) \/ m.type = "Offer"
  BY <1>1 DEF Offers
<1>3. OffersOnce(q) /\ m.type # "Offer" => OffersOnce(Append(q, m))
  BY <1>1 DEF OffersOnce
<1>4. ~Offers(q) => OffersOnce(Append(q, m))
  BY <1>1 DEF Offers, OffersOnce
<1>5. OffersFresh(q) /\ (m.type = "Offer" => m.fresh) => OffersFresh(Append(q, m))
  BY <1>1 DEF OffersFresh
<1> QED BY <1>1, <1>2, <1>3, <1>4, <1>5

LEMMA OfferTaken ==
    ASSUME NEW q \in Seq(ToClient), q # <<>>
    PROVE  /\ Tail(q) \in Seq(ToClient) /\ Head(q) \in ToClient
           /\ Offers(Tail(q)) => Offers(q)
           /\ OffersOnce(q) => OffersOnce(Tail(q))
           /\ OffersFresh(q) => OffersFresh(Tail(q))
           /\ Head(q).type = "Offer" =>
                 /\ Offers(q) /\ (OffersOnce(q) => ~Offers(Tail(q)))
                 /\ OffersFresh(q) => Head(q).fresh
<1>1. /\ Tail(q) \in Seq(ToClient) /\ Head(q) \in ToClient /\ Head(q) = q[1]
      /\ Len(Tail(q)) = Len(q) - 1 /\ Len(q) \in Nat /\ Len(q) >= 1
      /\ \A i \in 1..Len(q) - 1 : Tail(q)[i] = q[i + 1]
  BY HeadTailProperties, LenProperties, EmptySeq
<1>2. Offers(Tail(q)) => Offers(q)
  BY <1>1 DEF Offers
<1>3. ASSUME OffersOnce(q) PROVE OffersOnce(Tail(q))
  <2> SUFFICES ASSUME NEW i \in 1..Len(Tail(q)), NEW j \in 1..Len(Tail(q)),
                      Tail(q)[i].type = "Offer", Tail(q)[j].type = "Offer"
               PROVE  i = j
    BY DEF OffersOnce
  <2>1. /\ i + 1 \in 1..Len(q) /\ j + 1 \in 1..Len(q)
        /\ q[i + 1].type = "Offer" /\ q[j + 1].type = "Offer"
    BY <1>1
  <2>2. i + 1 = j + 1
    BY <1>3, <2>1 DEF OffersOnce
  <2> QED BY <1>1, <2>2
<1>4. OffersFresh(q) => OffersFresh(Tail(q))
  BY <1>1 DEF OffersFresh
<1>5. ASSUME Head(q).type = "Offer"
      PROVE  /\ Offers(q) /\ (OffersOnce(q) => ~Offers(Tail(q)))
             /\ OffersFresh(q) => Head(q).fresh
  BY <1>1, <1>5 DEF Offers, OffersOnce, OffersFresh
<1> QED BY <1>1, <1>2, <1>3, <1>4, <1>5

(* A set without two different elements has at most one.                    *)
LEMMA AtMostOne ==
    ASSUME NEW S, \A s, t \in S : s = t
    PROVE  Cardinality(S) <= 1
<1>1. CASE S = {}
  BY <1>1, FS_EmptySet
<1>2. CASE S # {}
  <2>1. PICK s \in S : S = {s}
    BY <1>2
  <2>2. Cardinality({s}) = 1
    BY FS_Singleton
  <2> QED BY <2>1, <2>2
<1> QED BY <1>1, <1>2

-----------------------------------------------------------------------------
(* The fields of the records.                                               *)
LEMMA Fields ==
    ASSUME Types
    PROVE  /\ cam.running \in BOOLEAN /\ cam.transitioning \in BOOLEAN
           /\ cam.alive \in BOOLEAN /\ cam.native \in BOOLEAN
           /\ cam.placeholder \in BOOLEAN /\ cam.handshake \in BOOLEAN
           /\ cam.inflight \in BOOLEAN /\ cam.pipe \in Ends
           /\ cam.prepared \subseteq Offered /\ cam.requests \in 0..MaxRequests
           /\ p.pc \in Pcs /\ p.pipe \in Ends /\ p.life \in BOOLEAN
           /\ p.sess \in BOOLEAN /\ p.token \in BOOLEAN /\ p.fresh \in BOOLEAN
           /\ w.content \in BOOLEAN /\ w.fresh \in BOOLEAN /\ w.channel \in BOOLEAN
           /\ \A s \in out : s.pipe \in Ends /\ s.sess \in BOOLEAN
           /\ \A s \in cam.prepared : /\ s.pipe \in Ends /\ s.life \in BOOLEAN
                                      /\ s.token \in BOOLEAN /\ s.fresh \in BOOLEAN
<1>1. cam \in CamType /\ p \in PType /\ w \in WType /\ out \in SUBSET OutType
  BY DEF Types
<1>2. /\ cam.running \in BOOLEAN /\ cam.transitioning \in BOOLEAN
      /\ cam.alive \in BOOLEAN /\ cam.native \in BOOLEAN
      /\ cam.placeholder \in BOOLEAN /\ cam.handshake \in BOOLEAN
      /\ cam.inflight \in BOOLEAN /\ cam.pipe \in Ends
      /\ cam.prepared \subseteq Offered /\ cam.requests \in 0..MaxRequests
  BY <1>1 DEF CamType
<1>3. /\ p.pc \in Pcs /\ p.pipe \in Ends /\ p.life \in BOOLEAN
      /\ p.sess \in BOOLEAN /\ p.token \in BOOLEAN /\ p.fresh \in BOOLEAN
  BY <1>1 DEF PType
<1>4. w.content \in BOOLEAN /\ w.fresh \in BOOLEAN /\ w.channel \in BOOLEAN
  BY <1>1 DEF WType
<1>5. \A s \in out : s.pipe \in Ends /\ s.sess \in BOOLEAN
  BY <1>1 DEF OutType
<1>6. \A s \in cam.prepared : /\ s.pipe \in Ends /\ s.life \in BOOLEAN
                              /\ s.token \in BOOLEAN /\ s.fresh \in BOOLEAN
  BY <1>2 DEF Offered
<1> QED BY <1>2, <1>3, <1>4, <1>5, <1>6

LEMMA InitInvariant == Init => IInv
<1> SUFFICES ASSUME Init PROVE IInv
  OBVIOUS
<1> USE DEF Init
<1>1. cam \in CamType
  BY BoundsAssumption DEF CamType, Ends
<1>2. p \in PType /\ p.pc = "Loop" /\ p.pipe = "none" /\ ~p.sess /\ ~p.token
  BY DEF PType, Quiet, Pcs, Ends
<1>3. r \in RType /\ r.pc = "idle"
  BY DEF RType, Waiting
<1>4. w \in WType /\ ~w.content
  BY DEF WType, Accepting
<1>5. toServer \in Seq(ToServer) /\ toClient \in Seq(ToClient)
  BY EmptySeq
<1>6. Types
  BY <1>1, <1>2, <1>3, <1>4, <1>5 DEF Types
<1>7. GateShape
  BY <1>2, <1>3 DEF GateShape, Inside
<1>8. RunShape /\ SampleWithinRun
  BY <1>2, <1>3 DEF RunShape, SampleWithinRun
<1>9. ~ClientOpen
  BY <1>2 DEF ClientOpen
<1>10. LinkShape /\ SessionShape
  BY <1>2, <1>9 DEF LinkShape, SessionShape, Carries
<1>11. SurfaceShape
  BY <1>2, EmptyFacts DEF SurfaceShape, HeldOnce, PreparerHolds, PreparedHolds, SampleHolds
<1>12. ContentShape
  BY <1>2, <1>4, EmptyFacts DEF ContentShape
<1> QED BY <1>6, <1>7, <1>8, <1>10, <1>11, <1>12 DEF IInv

-----------------------------------------------------------------------------
(* What a step must leave alone for a part of the invariant to stay.        *)

(* The gate, the announcements and the run.                                 *)
Steady ==
    /\ UNCHANGED <<lock, control, announced>>
    /\ r'.pc = "Queue" <=> r.pc = "Queue"
    /\ p'.pc \in Inside <=> p.pc \in Inside
    /\ p'.pc = "Queue" => p.pc = "Queue"
    /\ cam'.running = cam.running /\ cam'.alive = cam.alive
    /\ cam'.transitioning = cam.transitioning

LEMMA SteadyKeeps ==
    ASSUME IInv, Steady
    PROVE  GateShape' /\ RunShape' /\ SampleWithinRun'
<1>1. GateShape'
  BY DEF IInv, Steady, GateShape
<1>2. RunShape'
  BY DEF IInv, Steady, RunShape
<1>3. SampleWithinRun'
  BY DEF IInv, Steady, SampleWithinRun
<1> QED BY <1>1, <1>2, <1>3

(* The ends of the pipe: none of them comes alive.                          *)
LEMMA LinkKeeps ==
    ASSUME IInv, UNCHANGED <<link, desktop>>, ClientOpen' => ClientOpen,
           link # "up" => UNCHANGED <<toServer, toClient>>
    PROVE  LinkShape'
BY DEF IInv, LinkShape

(* The surface, while nothing is said about it: its holder lets it go or    *)
(* passes it on.                                                            *)
Passes ==
    /\ HeldOnce'
    /\ Held' => Held
    /\ PreparerHolds' /\ p'.pc \in {"Import", "Sample"} =>
          PreparerHolds /\ p.pc \in {"Import", "Sample"}

(* Nothing new is said about it on the pipe.                                *)
Quietly ==
    /\ link' = link
    /\ toServer' \in Seq(ToServer) /\ toClient' \in Seq(ToClient)
    /\ link # "up" => UNCHANGED <<toServer, toClient>>
    /\ \A m \in {"Imported", "Released"} :
           /\ Says(m, toServer') => Says(m, toServer)
           /\ SaysOnce(m, toServer')
    /\ Offers(toClient') => Offers(toClient)
    /\ OffersOnce(toClient')
    /\ OffersFresh(toClient) => OffersFresh(toClient')

LEMMA QuietlyItself ==
    ASSUME IInv, UNCHANGED <<link, toServer, toClient>>
    PROVE  Quietly
BY DEF IInv, Types, SurfaceShape, Quietly

LEMMA SurfaceKeeps ==
    ASSUME IInv, Passes, Quietly, w'.pc = w.pc
    PROVE  SurfaceShape'
<1>1. Away' <=> Away
  BY DEF Away
<1> QED BY <1>1 DEF IInv, SurfaceShape, Passes, Quietly

LEMMA ContentKeeps ==
    ASSUME IInv, UNCHANGED <<latest, owner, signal>>,
           w'.content => w.content, w'.content => w'.fresh = w.fresh,
           OffersFresh(toClient) => OffersFresh(toClient'),
           p'.token => signal = "Live" /\ (p'.pc \in Carries => p'.fresh),
           \A s \in cam'.prepared : s.token => signal = "Live" /\ s.fresh
    PROVE  ContentShape'
BY DEF IInv, ContentShape

LEMMA ContentUnchanged ==
    ASSUME IInv, UNCHANGED <<latest, owner, signal>>, w' = w, UNCHANGED toClient,
           p'.token => p.token,
           p'.pc \in Carries => p.pc \in Carries /\ p'.fresh = p.fresh,
           \A s \in cam'.prepared :
               s.token => \E t \in cam.prepared : t.token /\ t.fresh = s.fresh
    PROVE  ContentShape'
<1>1. ContentShape
  BY DEF IInv
<1>2. p'.token => signal = "Live" /\ (p'.pc \in Carries => p'.fresh)
  BY <1>1 DEF ContentShape
<1>3. \A s \in cam'.prepared : s.token => signal = "Live" /\ s.fresh
  BY <1>1 DEF ContentShape
<1> QED BY <1>2, <1>3, ContentKeeps

-----------------------------------------------------------------------------
(* The desktop.  When its end of the pipe goes, every live end is dead.     *)

AllDead ==
    /\ cam' = [cam EXCEPT !.pipe = Dead(@),
                          !.prepared = {[s EXCEPT !.pipe = Dead(@)] : s \in @}]
    /\ p' = [p EXCEPT !.pipe = Dead(@)]
    /\ out' = Kept({[s EXCEPT !.pipe = Dead(@)] : s \in out})

CameraSteady ==
    /\ Steady
    /\ p'.pc = p.pc /\ p'.token = p.token /\ p'.fresh = p.fresh
    /\ \A s \in cam'.prepared : \E t \in cam.prepared : s.token = t.token /\ s.fresh = t.fresh

LEMMA DeadEnds ==
    /\ \A e \in Ends : Dead(e) \in Ends /\ Dead(e) # "live" /\ (e # "none" => Dead(e) # "none")
BY DEF Dead, Ends

LEMMA AllDeadFacts ==
    ASSUME IInv, AllDead, UNCHANGED <<lock, control, announced>>, r' = r
    PROVE  /\ cam' \in CamType /\ p' \in PType /\ out' \in SUBSET OutType
           /\ ~ClientOpen' /\ SessionShape' /\ HeldOnce' /\ ~Held'
           /\ CameraSteady
<1>1. Types /\ SessionShape /\ cam \in CamType /\ p \in PType /\ out \in SUBSET OutType
  BY DEF IInv, Types
<1> DEFINE D(s) == [s EXCEPT !.pipe = Dead(@)]
<1>2. \A s \in Offered : /\ D(s) \in Offered /\ D(s).pipe = Dead(s.pipe)
                         /\ D(s).token = s.token /\ D(s).fresh = s.fresh
  BY DeadEnds DEF Offered
<1>3. \A s \in OutType : /\ D(s) \in OutType /\ D(s).pipe = Dead(s.pipe)
                         /\ D(s).sess = s.sess
  BY DeadEnds DEF OutType
<1>4. cam.pipe \in Ends /\ cam.prepared \subseteq Offered /\ p.pipe \in Ends
      /\ p.pc \in Pcs /\ Dead(cam.pipe) \in Ends /\ Dead(p.pipe) \in Ends
  BY <1>1, Fields, DeadEnds
<1>5. /\ cam'.pipe = Dead(cam.pipe)
      /\ cam'.prepared = {D(s) : s \in cam.prepared}
      /\ cam'.running = cam.running /\ cam'.alive = cam.alive
      /\ cam'.transitioning = cam.transitioning
  BY <1>1 DEF AllDead, CamType
<1>6. cam'.prepared \subseteq Offered
  BY <1>2, <1>4, <1>5
<1>7. cam' \in CamType
  BY <1>1, <1>4, <1>5, <1>6 DEF AllDead, CamType
<1>8. /\ p' \in PType /\ p'.pc = p.pc /\ p'.pipe = Dead(p.pipe) /\ p'.sess = p.sess
      /\ p'.token = p.token /\ p'.fresh = p.fresh
  BY <1>1, <1>4 DEF AllDead, PType
<1>9. \A s \in out' : s.sess /\ s \in {D(t) : t \in out}
  <2> SUFFICES ASSUME NEW s \in out' PROVE s.sess /\ s \in {D(t) : t \in out}
    OBVIOUS
  <2>1. s \in {D(t) : t \in out} /\ (s.sess \/ s.pipe = "live")
    BY DEF AllDead, Kept
  <2>2. PICK t \in out : s = D(t)
    BY <2>1
  <2>3. s.pipe # "live"
    BY <1>1, <1>3, <2>2, DeadEnds, Fields
  <2> QED BY <2>1, <2>3
<1>10. out' \in SUBSET OutType /\ \A s \in out' : s.pipe # "live"
  <2> SUFFICES ASSUME NEW s \in out' PROVE s \in OutType /\ s.pipe # "live"
    OBVIOUS
  <2>1. PICK t \in out : s = D(t)
    BY <1>9
  <2>2. t \in OutType /\ t.pipe \in Ends
    BY <1>1, Fields
  <2> QED BY <1>3, <2>1, <2>2, DeadEnds
<1>11. \A s \in cam'.prepared : s.pipe # "live"
  <2> SUFFICES ASSUME NEW s \in cam'.prepared PROVE s.pipe # "live"
    OBVIOUS
  <2>1. PICK t \in cam.prepared : s = D(t)
    BY <1>5
  <2>2. t \in Offered /\ t.pipe \in Ends
    BY <1>1, <1>4, Fields
  <2> QED BY <1>2, <2>1, <2>2, DeadEnds
<1>12. ~ClientOpen' /\ HeldOnce' /\ ~Held'
  <2>1. cam'.pipe # "live" /\ p'.pipe # "live"
    BY <1>4, <1>5, <1>8, DeadEnds
  <2>2. ~PreparerHolds' /\ ~PreparedHolds' /\ ~SampleHolds'
    BY <2>1, <1>10, <1>11 DEF PreparerHolds, PreparedHolds, SampleHolds
  <2>3. ~ClientOpen'
    BY <2>1, <1>10, <1>11 DEF ClientOpen
  <2> QED BY <2>2, <2>3, <1>10 DEF Held, HeldOnce
<1>13. SessionShape'
  <2>1. p'.sess => p'.pipe = cam'.pipe
    BY <1>1, <1>5, <1>8 DEF SessionShape
  <2>2. p'.sess \/ p'.pc \in Carries => p'.pipe # "none"
    BY <1>1, <1>4, <1>8, DeadEnds DEF SessionShape
  <2>3. ASSUME NEW s \in cam'.prepared PROVE s.pipe = cam'.pipe /\ s.pipe # "none"
    <3>1. PICK t \in cam.prepared : s = D(t)
      BY <1>5
    <3> QED BY <1>1, <1>2, <1>4, <1>5, <3>1, DeadEnds DEF SessionShape
  <2>4. ASSUME NEW s \in out'
        PROVE  s.pipe # "none" /\ (s.sess => s.pipe = cam'.pipe)
               /\ (s.sess \/ s.pipe = "live")
    <3>1. PICK t \in out : s = D(t)
      BY <1>9
    <3>2. t \in OutType /\ t.pipe # "none" /\ (t.sess => t.pipe = cam.pipe)
          /\ s.pipe = Dead(t.pipe) /\ s.sess = t.sess
      BY <1>1, <1>3, <3>1 DEF SessionShape
    <3> QED BY <1>1, <1>5, <1>9, <3>2, DeadEnds, Fields DEF SessionShape
  <2>5. p'.pc \in Inside => cam'.prepared = {}
    BY <1>1, <1>5, <1>8 DEF SessionShape
  <2>6. \A s, t \in cam'.prepared : s = t
    BY <1>1, <1>5 DEF SessionShape
  <2> QED BY <2>1, <2>2, <2>3, <2>4, <2>5, <2>6, <1>12 DEF SessionShape
<1>14. CameraSteady
  <2>1. Steady
    BY <1>5, <1>8 DEF Steady
  <2>2. \A s \in cam'.prepared : \E t \in cam.prepared : s.token = t.token /\ s.fresh = t.fresh
    BY <1>2, <1>4, <1>5
  <2> QED BY <2>1, <2>2, <1>8 DEF CameraSteady
<1> QED BY <1>7, <1>8, <1>10, <1>12, <1>13, <1>14

LEMMA SteadyItself ==
    ASSUME UNCHANGED <<lock, control, announced, cam, p, r>>
    PROVE  CameraSteady
BY DEF CameraSteady, Steady

LEMMA DisconnectFacts ==
    ASSUME IInv, Disconnect, UNCHANGED <<lock, control, announced, r, desktop>>
    PROVE  /\ cam' \in CamType /\ p' \in PType /\ out' \in SUBSET OutType
           /\ link' \in {"gone", "closed", "listening"}
           /\ toServer' = <<>> /\ toClient' = <<>>
           /\ LinkShape' /\ SessionShape' /\ SurfaceShape'
           /\ CameraSteady
<1>1. Types /\ LinkShape /\ SessionShape /\ SurfaceShape
  BY DEF IInv
<1>2. CASE link = "up"
  <2>1. AllDead /\ link' = "closed" /\ toServer' = <<>> /\ toClient' = <<>>
    BY <1>2 DEF Disconnect, AllDead
  <2>2. LinkShape'
    BY <1>1, <1>2, <2>1, AllDeadFacts DEF LinkShape
  <2>3. SurfaceShape'
    BY <2>1, AllDeadFacts, EmptyFacts DEF SurfaceShape
  <2> QED BY <2>1, <2>2, <2>3, AllDeadFacts
<1>3. CASE link # "up"
  <2>1. UNCHANGED <<link, toServer, toClient, cam, p, out>>
    BY <1>3 DEF Disconnect, pipeVars
  <2>2. toServer = <<>> /\ toClient = <<>>
    BY <1>1, <1>3 DEF LinkShape
  <2>3. LinkShape' /\ SessionShape'
    BY <1>1, <2>1 DEF LinkShape, SessionShape, ClientOpen
  <2>4. HeldOnce'
    BY <1>1, <2>1 DEF SurfaceShape, HeldOnce, PreparerHolds, PreparedHolds, SampleHolds
  <2>5. SurfaceShape'
    BY <1>3, <2>1, <2>2, <2>4, EmptyFacts DEF SurfaceShape
  <2>6. link' \in {"gone", "closed", "listening"}
    BY <1>1, <1>3, <2>1 DEF Types
  <2>7. CameraSteady
    BY <2>1, SteadyItself
  <2> QED BY <1>1, <2>1, <2>2, <2>3, <2>5, <2>6, <2>7 DEF Types
<1> QED BY <1>2, <1>3

LEMMA OpenEnds ==
    /\ ClientOpen <=> \/ cam.pipe = "live" \/ p.pipe = "live"
                      \/ PreparedHolds \/ SampleHolds
    /\ ClientOpen' <=> \/ cam'.pipe = "live" \/ p'.pipe = "live"
                       \/ PreparedHolds' \/ SampleHolds'
<1>1. ClientOpen <=> \/ cam.pipe = "live" \/ p.pipe = "live"
                     \/ PreparedHolds \/ SampleHolds
  BY DEF ClientOpen, PreparedHolds, SampleHolds
<1>2. ClientOpen' <=> \/ cam'.pipe = "live" \/ p'.pipe = "live"
                      \/ PreparedHolds' \/ SampleHolds'
  BY DEF ClientOpen, PreparedHolds, SampleHolds
<1> QED BY <1>1, <1>2

(* What an outdated capture keeps: everything but its token and its mark.   *)
LEMMA RevokeFacts ==
    ASSUME IInv, Revoke, UNCHANGED <<lock, control, announced, r, out>>
    PROVE  /\ cam' \in CamType /\ p' \in PType
           /\ toClient' \in Seq(ToClient)
           /\ Offers(toClient') <=> Offers(toClient)
           /\ OffersOnce(toClient')
           /\ toClient = <<>> => toClient' = <<>>
           /\ SessionShape' /\ Passes /\ Steady
           /\ ClientOpen' <=> ClientOpen
           /\ ~p'.token /\ \A s \in cam'.prepared : ~s.token
<1>1. Types /\ SessionShape /\ SurfaceShape /\ cam \in CamType /\ p \in PType
      /\ toClient \in Seq(ToClient)
  BY DEF IInv, Types
<1> DEFINE D(s) == [s EXCEPT !.token = FALSE, !.fresh = FALSE]
           M(m) == [m EXCEPT !.fresh = FALSE]
<1>2. \A s \in Offered : /\ D(s) \in Offered /\ D(s).pipe = s.pipe /\ ~D(s).token
  BY DEF Offered
<1>3. cam.prepared \subseteq Offered
  BY <1>1, Fields
<1>4. /\ cam'.prepared = {D(s) : s \in cam.prepared} /\ cam'.pipe = cam.pipe
      /\ cam'.running = cam.running /\ cam'.alive = cam.alive
      /\ cam'.transitioning = cam.transitioning
  BY <1>1 DEF Revoke, CamType
<1>5. cam'.prepared \subseteq Offered
  BY <1>2, <1>3, <1>4
<1>6. cam' \in CamType
  BY <1>1, <1>4, <1>5 DEF Revoke, CamType
<1>7. /\ p' \in PType /\ p'.pc = p.pc /\ p'.pipe = p.pipe /\ p'.sess = p.sess
      /\ ~p'.token
  BY <1>1 DEF Revoke, PType
<1>8. \A s \in cam'.prepared : /\ ~s.token
                               /\ \E t \in cam.prepared : s.pipe = t.pipe
  BY <1>2, <1>3, <1>4
<1>9. \A t \in cam.prepared : \E s \in cam'.prepared : s.pipe = t.pipe
  <2> SUFFICES ASSUME NEW t \in cam.prepared
               PROVE  \E s \in cam'.prepared : s.pipe = t.pipe
    OBVIOUS
  <2>1. D(t) \in cam'.prepared /\ D(t).pipe = t.pipe
    BY <1>2, <1>3, <1>4
  <2> QED BY <2>1
<1>10. /\ Len(toClient) \in Nat /\ DOMAIN toClient = 1..Len(toClient)
       /\ \A i \in 1..Len(toClient) : toClient[i] \in ToClient
  BY <1>1, LenProperties, ElementOfSeq
<1>11. \A m \in ToClient : M(m) \in ToClient /\ M(m).type = m.type
  BY DEF ToClient
<1>12. /\ toClient' \in Seq(ToClient) /\ Len(toClient') = Len(toClient)
       /\ \A i \in 1..Len(toClient) : toClient'[i] = M(toClient[i])
  <2>1. toClient' = [i \in 1..Len(toClient) |-> M(toClient[i])]
    BY <1>10 DEF Revoke
  <2>2. \A i \in 1..Len(toClient) : M(toClient[i]) \in ToClient
    BY <1>10, <1>11
  <2>3. toClient' \in [1..Len(toClient) -> ToClient]
    BY <2>1, <2>2
  <2>4. toClient' \in Seq(ToClient)
    BY <1>10, <2>3, SeqDef
  <2>5. Len(toClient') = Len(toClient)
    BY <1>10, <2>3, <2>4, LenProperties
  <2> QED BY <2>1, <2>4, <2>5
<1>13. /\ Offers(toClient') <=> Offers(toClient)
       /\ OffersOnce(toClient')
       /\ toClient = <<>> => toClient' = <<>>
  <2>1. \A i \in 1..Len(toClient) : toClient'[i].type = toClient[i].type
    BY <1>10, <1>11, <1>12
  <2>2. Offers(toClient') <=> Offers(toClient)
    BY <1>12, <2>1 DEF Offers
  <2>3. OffersOnce(toClient')
    BY <1>1, <1>12, <2>1 DEF SurfaceShape, OffersOnce
  <2>4. toClient = <<>> => toClient' = <<>>
    BY <1>1, <1>12, EmptySeq
  <2> QED BY <2>2, <2>3, <2>4
<1>14. /\ PreparerHolds' <=> PreparerHolds
       /\ PreparedHolds' <=> PreparedHolds
       /\ SampleHolds' <=> SampleHolds
  BY <1>7, <1>8, <1>9 DEF PreparerHolds, PreparedHolds, SampleHolds
<1>15. Passes
  BY <1>1, <1>7, <1>14 DEF SurfaceShape, HeldOnce, Held, Passes
<1>16. ClientOpen' <=> ClientOpen
  BY <1>4, <1>7, <1>14, OpenEnds
<1>17. SessionShape'
  <2>1. \A s, t \in cam'.prepared : s = t
    BY <1>1, <1>4 DEF SessionShape
  <2>2. \A s \in cam'.prepared : s.pipe = cam'.pipe /\ s.pipe # "none"
    BY <1>1, <1>4, <1>8 DEF SessionShape
  <2>3. p'.pc \in Inside => cam'.prepared = {}
    BY <1>1, <1>4, <1>7 DEF SessionShape
  <2> QED BY <1>1, <1>4, <1>7, <1>16, <2>1, <2>2, <2>3 DEF SessionShape
<1>18. Steady
  BY <1>4, <1>7 DEF Steady
<1> QED BY <1>6, <1>7, <1>8, <1>12, <1>13, <1>15, <1>16, <1>17, <1>18

LEMMA PassesItself ==
    ASSUME IInv, UNCHANGED <<cam, p, out>>
    PROVE  Passes /\ SessionShape' /\ (ClientOpen' <=> ClientOpen)
<1>1. /\ PreparerHolds' <=> PreparerHolds
      /\ PreparedHolds' <=> PreparedHolds
      /\ SampleHolds' <=> SampleHolds
  BY DEF PreparerHolds, PreparedHolds, SampleHolds
<1>2. Passes
  BY <1>1 DEF IInv, SurfaceShape, HeldOnce, Held, Passes
<1>3. ClientOpen' <=> ClientOpen
  BY <1>1, OpenEnds
<1> QED BY <1>2, <1>3 DEF IInv, SessionShape

(* The camera and the pipe stay as they are.                                *)
LEMMA CameraUnchanged ==
    ASSUME IInv, UNCHANGED <<camVars, p, r, out, pipeVars, desktop>>, w'.pc = w.pc
    PROVE  GateShape' /\ RunShape' /\ SampleWithinRun'
           /\ LinkShape' /\ SessionShape' /\ SurfaceShape'
<1>1. UNCHANGED <<lock, control, announced, cam, p, r, out, link, toServer, toClient>>
  BY DEF camVars, pipeVars
<1>2. Steady
  BY <1>1, SteadyItself DEF CameraSteady
<1>3. Passes /\ SessionShape' /\ (ClientOpen' <=> ClientOpen)
  BY <1>1, PassesItself
<1> QED BY <1>1, <1>2, <1>3, SteadyKeeps, LinkKeeps, SurfaceKeeps, QuietlyItself

LEMMA OwnerKeeps ==
    ASSUME IInv, SubmitRing \/ SubmitNative \/ ClearNative
    PROVE  IInv'
<1>1. /\ Types /\ ContentShape
      /\ UNCHANGED <<lock, control, announced, cam, p, r, out, link, toServer,
                     toClient, desktop>>
      /\ UNCHANGED <<camVars, p, r, out, pipeVars, desktop>>
  BY DEF IInv, SubmitRing, SubmitNative, ClearNative, camVars, pipeVars
<1>2. w' \in WType /\ w'.pc = w.pc /\ w'.fresh = w.fresh
      /\ (w'.content => w.content) /\ (ClearNative => ~w'.content)
  BY <1>1 DEF Types, WType, SubmitRing, SubmitNative, ClearNative
<1>3. /\ owner' \in {"idle", "submit", "clear", "cut"}
      /\ latest' \in {"none", "current", "revoked"} /\ signal' \in {"Live", "Placeholder"}
  BY <1>1 DEF Types, SubmitRing, SubmitNative, ClearNative
<1>4. Types'
  BY <1>1, <1>2, <1>3 DEF Types
<1>5. ContentShape'
  <2>1. CASE SubmitRing
    BY <1>1, <1>2, <2>1 DEF SubmitRing, ContentShape
  <2>2. CASE SubmitNative
    BY <1>1, <1>2, <2>2 DEF SubmitNative, ContentShape
  <2>3. CASE ClearNative
    BY <1>1, <1>2, <2>3 DEF ClearNative, ContentShape
  <2> QED BY <2>1, <2>2, <2>3
<1> QED BY <1>1, <1>2, <1>4, <1>5, CameraUnchanged DEF IInv

LEMMA PlaceholderKeeps ==
    ASSUME IInv, PlaceholderRing
    PROVE  IInv'
<1>1. Types /\ Revoke
      /\ UNCHANGED <<lock, control, announced, r, out, link, toServer, desktop>>
      /\ owner' = "clear" /\ signal' = "Placeholder"
      /\ latest' \in {"none", "current", "revoked"}
      /\ w' = [w EXCEPT !.fresh = FALSE]
  BY DEF IInv, Types, PlaceholderRing
<1>2. w' \in WType /\ w'.pc = w.pc
  BY <1>1 DEF Types, WType
<1>3. /\ cam' \in CamType /\ p' \in PType /\ toClient' \in Seq(ToClient)
      /\ Offers(toClient') <=> Offers(toClient)
      /\ OffersOnce(toClient') /\ (toClient = <<>> => toClient' = <<>>)
      /\ SessionShape' /\ Passes /\ Steady /\ (ClientOpen' <=> ClientOpen)
      /\ ~p'.token /\ \A s \in cam'.prepared : ~s.token
  BY <1>1, RevokeFacts
<1>4. Types'
  BY <1>1, <1>2, <1>3 DEF Types
<1>5. LinkShape'
  BY <1>1, <1>3 DEF IInv, LinkShape
<1>6. SurfaceShape'
  BY <1>1, <1>2, <1>3 DEF IInv, SurfaceShape, Passes, Away
<1>7. ContentShape'
  BY <1>1, <1>3 DEF ContentShape
<1> QED BY <1>3, <1>4, <1>5, <1>6, <1>7, SteadyKeeps DEF IInv

(* The desktop's end goes, with its worker back at the beginning or about   *)
(* to notice.                                                               *)
LEMMA PipeCutKeeps ==
    ASSUME IInv, Disconnect, UNCHANGED <<lock, control, announced, r, desktop>>,
           UNCHANGED <<latest, signal>>, w' \in WType,
           w'.content => w.content /\ w'.fresh = w.fresh,
           owner' = owner \/ (owner' = "idle" /\ owner = "cut")
    PROVE  IInv'
<1>1. /\ cam' \in CamType /\ p' \in PType /\ out' \in SUBSET OutType
      /\ link' \in {"gone", "closed", "listening"}
      /\ toServer' = <<>> /\ toClient' = <<>>
      /\ LinkShape' /\ SessionShape' /\ SurfaceShape' /\ CameraSteady
  BY DisconnectFacts
<1>2. Types /\ ContentShape
  BY DEF IInv
<1>3. toServer' \in Seq(ToServer) /\ toClient' \in Seq(ToClient)
  BY <1>1, EmptySeq
<1>4. r' = r /\ owner' \in {"idle", "submit", "clear", "cut"}
  BY <1>2 DEF Types
<1>5. Types'
  BY <1>1, <1>2, <1>3, <1>4 DEF Types
<1>6. ContentShape'
  <2>1. OffersFresh(toClient')
    BY <1>1, EmptyFacts
  <2>2. p'.token => signal = "Live" /\ (p'.pc \in Carries => p'.fresh)
    BY <1>1, <1>2 DEF CameraSteady, ContentShape
  <2>3. \A s \in cam'.prepared : s.token => signal = "Live" /\ s.fresh
    BY <1>1, <1>2 DEF CameraSteady, ContentShape
  <2> QED BY <1>2, <2>1, <2>2, <2>3 DEF ContentShape
<1>7. GateShape' /\ RunShape' /\ SampleWithinRun'
  BY <1>1, SteadyKeeps DEF CameraSteady
<1> QED BY <1>1, <1>5, <1>6, <1>7 DEF IInv

LEMMA CutClientKeeps ==
    ASSUME IInv, CutClient
    PROVE  IInv'
<1>1. w' = w /\ w \in WType
  BY DEF CutClient, IInv, Types
<1> QED BY <1>1, PipeCutKeeps DEF CutClient

LEMMA WorkerFailsKeeps ==
    ASSUME IInv, WorkerFails
    PROVE  IInv'
<1>1. w' \in WType /\ ~w'.content
  BY DEF WorkerFails, Accepting, WType
<1> QED BY <1>1, PipeCutKeeps DEF WorkerFails, Unmoved

LEMMA CrashKeeps ==
    ASSUME IInv, Crash
    PROVE  IInv'
<1>1. /\ Types /\ ContentShape /\ AllDead
      /\ UNCHANGED <<lock, control, announced>> /\ r' = r /\ signal' = signal
      /\ desktop' = "down" /\ w' = Accepting /\ owner' = "idle" /\ latest' = "none"
      /\ link' = "gone" /\ toServer' = <<>> /\ toClient' = <<>>
  BY DEF IInv, Crash, AllDead
<1>2. /\ cam' \in CamType /\ p' \in PType /\ out' \in SUBSET OutType
      /\ ~ClientOpen' /\ SessionShape' /\ HeldOnce' /\ ~Held' /\ CameraSteady
  BY <1>1, AllDeadFacts
<1>3. toServer' \in Seq(ToServer) /\ toClient' \in Seq(ToClient)
  BY <1>1, EmptySeq
<1>4. w' \in WType /\ ~w'.content
  BY <1>1 DEF Accepting, WType
<1>5. Types'
  BY <1>1, <1>2, <1>3, <1>4 DEF Types
<1>6. LinkShape'
  BY <1>1, <1>2 DEF LinkShape
<1>7. SurfaceShape'
  BY <1>1, <1>2, EmptyFacts DEF SurfaceShape
<1>8. ContentShape'
  <2>1. OffersFresh(toClient')
    BY <1>1, EmptyFacts
  <2>2. p'.token => signal = "Live" /\ (p'.pc \in Carries => p'.fresh)
    BY <1>1, <1>2 DEF CameraSteady, ContentShape
  <2>3. \A s \in cam'.prepared : s.token => signal = "Live" /\ s.fresh
    BY <1>1, <1>2 DEF CameraSteady, ContentShape
  <2> QED BY <1>1, <1>4, <2>1, <2>2, <2>3 DEF ContentShape
<1> QED BY <1>2, <1>5, <1>6, <1>7, <1>8, SteadyKeeps DEF IInv, CameraSteady

LEMMA DesktopDownKeeps ==
    ASSUME IInv, HoldEnds \/ Restart
    PROVE  IInv'
<1>1. /\ Types /\ LinkShape /\ SurfaceShape /\ ContentShape /\ Revoke
      /\ desktop = "down" /\ signal' = "Placeholder"
      /\ UNCHANGED <<lock, control, announced, r, out, toServer, w, owner, latest>>
      /\ \/ link' = link /\ desktop' = "down"
         \/ link' = "closed" /\ desktop' = "up"
  BY DEF IInv, HoldEnds, Restart
<1>2. link = "gone" /\ ~ClientOpen /\ toServer = <<>> /\ toClient = <<>>
  BY <1>1 DEF LinkShape
<1>3. /\ cam' \in CamType /\ p' \in PType /\ toClient' \in Seq(ToClient)
      /\ toClient' = <<>> /\ SessionShape' /\ Passes /\ Steady /\ ~ClientOpen'
      /\ ~p'.token /\ \A s \in cam'.prepared : ~s.token
  BY <1>1, <1>2, RevokeFacts
<1>4. Types'
  BY <1>1, <1>2, <1>3 DEF Types
<1>5. LinkShape'
  BY <1>1, <1>2, <1>3 DEF LinkShape
<1>6. SurfaceShape'
  BY <1>1, <1>2, <1>3, EmptyFacts DEF SurfaceShape, Passes
<1>7. ContentShape'
  BY <1>1, <1>3, EmptyFacts DEF ContentShape
<1> QED BY <1>3, <1>4, <1>5, <1>6, <1>7, SteadyKeeps DEF IInv

-----------------------------------------------------------------------------
(* The desktop's pipe worker.                                               *)

(* A step of the worker that leaves the camera's side alone.                *)
LEMMA WorkerKeeps ==
    ASSUME IInv, UNCHANGED <<cam, p, out, desktop>>, Unmoved,
           w' \in WType, owner # "clear" /\ w'.content => w'.fresh,
           toServer' \in Seq(ToServer), toClient' \in Seq(ToClient),
           OffersFresh(toClient) /\ (owner # "clear" /\ w.content => w.fresh)
               /\ owner # "clear" => OffersFresh(toClient'),
           SurfaceShape',
           \/ link' = link /\ (link # "up" => UNCHANGED <<toServer, toClient>>)
           \/ link = "closed" /\ link' = "listening" /\ UNCHANGED <<toServer, toClient>>
    PROVE  IInv'
<1>1. Types /\ LinkShape /\ ContentShape
      /\ UNCHANGED <<lock, control, announced, r, owner, latest, signal, desktop>>
  BY DEF IInv, Unmoved
<1>2. Passes /\ SessionShape' /\ (ClientOpen' <=> ClientOpen)
  BY PassesItself
<1>3. Types'
  BY <1>1 DEF Types
<1>4. Steady
  BY <1>1, SteadyItself DEF CameraSteady
<1>5. LinkShape'
  BY <1>1, <1>2 DEF LinkShape
<1>6. ContentShape'
  BY <1>1 DEF ContentShape
<1> QED BY <1>2, <1>3, <1>4, <1>5, <1>6, SteadyKeeps DEF IInv

LEMMA HoldersUnchanged ==
    ASSUME IInv, UNCHANGED <<cam, p, out>>
    PROVE  /\ PreparerHolds' <=> PreparerHolds
           /\ Held' <=> Held
           /\ HeldOnce'
<1>1. /\ PreparerHolds' <=> PreparerHolds
      /\ PreparedHolds' <=> PreparedHolds
      /\ SampleHolds' <=> SampleHolds
  BY DEF PreparerHolds, PreparedHolds, SampleHolds
<1> QED BY <1>1 DEF IInv, SurfaceShape, HeldOnce, Held

LEMMA AcceptClientKeeps ==
    ASSUME IInv, AcceptClient
    PROVE  IInv'
<1>1. Types /\ ContentShape /\ SurfaceShape /\ w.pc = "Accept"
      /\ UNCHANGED <<toServer, toClient, cam, p, out, desktop>> /\ Unmoved
  BY DEF IInv, AcceptClient, Unmoved
<1>2. \/ link = "closed" /\ link' = "listening" /\ w' = w
      \/ link = "up" /\ w' = [w EXCEPT !.pc = "Demand"] /\ link' = link
  BY DEF AcceptClient
<1>3. w' \in WType /\ w'.content = w.content /\ w'.fresh = w.fresh
      /\ w'.pc \in {"Accept", "Demand"}
  BY <1>1, <1>2 DEF Types, WType
<1>4. SurfaceShape'
  <2>1. ~Away
    BY <1>1 DEF Away
  <2>2. link' = "up" => link = "up"
    BY <1>2
  <2>3. /\ PreparerHolds' <=> PreparerHolds
        /\ Held' <=> Held
        /\ HeldOnce'
    BY <1>1, HoldersUnchanged
  <2>4. link = "up" => /\ ~Held /\ ~Offers(toClient) /\ ~Says("Imported", toServer)
                       /\ ~Says("Released", toServer) /\ ~PreparerHolds
    BY <1>1, <2>1 DEF SurfaceShape, Held
  <2> QED BY <1>1, <2>2, <2>3, <2>4 DEF SurfaceShape
<1>5. owner # "clear" /\ w'.content => w'.fresh
  BY <1>1, <1>3 DEF ContentShape
<1> QED BY <1>1, <1>2, <1>3, <1>4, <1>5, WorkerKeeps DEF Types

LEMMA TakeFrameKeeps ==
    ASSUME IInv, TakeFrame
    PROVE  IInv'
<1> DEFINE taken == [w EXCEPT !.content = TRUE, !.fresh = (latest = "current")]
           hello == [type |-> "Hello", fresh |-> FALSE]
<1>1. Types /\ ContentShape /\ SurfaceShape /\ w.pc = "Take" /\ latest # "none"
      /\ w \in WType /\ LinkShape
  BY DEF IInv, Types, TakeFrame
<1>2. CASE WorkerFails
  BY <1>2, WorkerFailsKeeps
<1>3. CASE ~WorkerFails
  <2>1. UNCHANGED <<link, toServer, cam, p, out>> /\ Unmoved /\ desktop' = desktop
    BY <1>3 DEF TakeFrame, ServerWrites, pipeVars, Unmoved
  <2>2. \/ w' = [taken EXCEPT !.pc = "Check"] /\ toClient' = toClient
        \/ w' = [taken EXCEPT !.pc = "Ready"] /\ toClient' = Append(toClient, hello)
           /\ link = "up"
    BY <1>3 DEF TakeFrame, ServerWrites, pipeVars
  <2>3. w' \in WType /\ w'.pc \in {"Check", "Ready"}
        /\ (w'.fresh <=> latest = "current")
    BY <1>1, <2>2 DEF WType
  <2>4. hello \in ToClient /\ hello.type = "Hello"
    BY DEF ToClient
  <2>5. /\ toClient' \in Seq(ToClient)
        /\ Offers(toClient') <=> Offers(toClient)
        /\ OffersOnce(toClient')
        /\ OffersFresh(toClient) => OffersFresh(toClient')
    <3>1. toClient \in Seq(ToClient) /\ OffersOnce(toClient)
      BY <1>1 DEF SurfaceShape, Types
    <3>2. CASE toClient' = toClient
      BY <3>1, <3>2
    <3>3. CASE toClient' = Append(toClient, hello)
      BY <2>4, <3>1, <3>3, OfferAppended
    <3> QED BY <2>2, <3>2, <3>3
  <2>6. owner # "clear" => w'.fresh
    BY <1>1, <2>1, <2>3 DEF ContentShape, Types
  <2>7. SurfaceShape'
    <3>1. ~Away /\ w.pc # "Imported"
      BY <1>1 DEF Away
    <3>2. /\ PreparerHolds' <=> PreparerHolds
          /\ Held' <=> Held
          /\ HeldOnce'
      BY <2>1, HoldersUnchanged
    <3>3. link = "up" => /\ ~Held /\ ~Offers(toClient) /\ ~Says("Imported", toServer)
                         /\ ~Says("Released", toServer) /\ ~PreparerHolds
      BY <1>1, <3>1 DEF SurfaceShape, Held
    <3> QED BY <1>1, <2>1, <2>5, <3>2, <3>3 DEF SurfaceShape
  <2>8. toServer' \in Seq(ToServer)
        /\ (link # "up" => UNCHANGED <<toServer, toClient>>)
    BY <1>1, <2>1, <2>2 DEF Types
  <2> QED BY <2>1, <2>3, <2>5, <2>6, <2>7, <2>8, WorkerKeeps
<1> QED BY <1>2, <1>3

LEMMA WriteOfferKeeps ==
    ASSUME IInv, WriteOffer
    PROVE  IInv'
<1> DEFINE offer == [type |-> "Offer", fresh |-> w.fresh]
<1>1. Types /\ ContentShape /\ SurfaceShape /\ w.pc = "Check" /\ w \in WType
  BY DEF IInv, Types, WriteOffer
<1>2. CASE WorkerFails
  BY <1>2, WorkerFailsKeeps
<1>3. CASE ~WorkerFails
  <2>1. UNCHANGED <<link, toServer, cam, p, out>> /\ Unmoved /\ desktop' = desktop
        /\ w.content /\ link = "up" /\ w' = [w EXCEPT !.pc = "Imported"]
        /\ toClient' = Append(toClient, offer)
    BY <1>3 DEF WriteOffer, ServerWrites, Unmoved
  <2>2. w' \in WType /\ w'.pc = "Imported" /\ w'.content = w.content /\ w'.fresh = w.fresh
    BY <1>1, <2>1 DEF WType
  <2>3. offer \in ToClient /\ offer.type = "Offer" /\ offer.fresh = w.fresh
    BY <1>1, Fields DEF ToClient
  <2>4. /\ ~Held /\ ~Offers(toClient) /\ ~Says("Imported", toServer)
        /\ ~Says("Released", toServer) /\ ~PreparerHolds
    <3>1. ~Away /\ w.pc # "Imported"
      BY <1>1 DEF Away
    <3> QED BY <1>1, <2>1, <3>1 DEF SurfaceShape, Held
  <2>5. /\ toClient' \in Seq(ToClient) /\ OffersOnce(toClient')
        /\ OffersFresh(toClient) /\ w.fresh => OffersFresh(toClient')
    BY <1>1, <2>1, <2>3, <2>4, OfferAppended DEF Types
  <2>6. SurfaceShape'
    <3>1. /\ PreparerHolds' <=> PreparerHolds
          /\ Held' <=> Held
          /\ HeldOnce'
      BY <2>1, HoldersUnchanged
    <3> QED BY <1>1, <2>1, <2>2, <2>4, <2>5, <3>1 DEF SurfaceShape, Away
  <2>7. owner # "clear" /\ w'.content => w'.fresh
    BY <1>1, <2>2 DEF ContentShape
  <2>8. toServer' \in Seq(ToServer)
    BY <1>1, <2>1 DEF Types
  <2> QED BY <2>1, <2>2, <2>5, <2>6, <2>7, <2>8, WorkerKeeps
<1> QED BY <1>2, <1>3

LEMMA ServerReadsKeeps ==
    ASSUME IInv, ServerReads
    PROVE  IInv'
<1>1. Types /\ ContentShape /\ SurfaceShape /\ LinkShape /\ w \in WType
      /\ toServer # <<>> /\ toServer \in Seq(ToServer)
      /\ w.pc \in {"Demand", "Ready", "Imported", "Released"}
  BY DEF IInv, Types, ServerReads, Awaited
<1>2. CASE WorkerFails
  BY <1>2, WorkerFailsKeeps
<1>3. CASE ~WorkerFails
  <2>1. UNCHANGED <<link, toClient, cam, p, out>> /\ Unmoved /\ desktop' = desktop
        /\ Head(toServer) = Awaited[w.pc] /\ w' = AfterRead[w.pc]
        /\ toServer' = Tail(toServer)
    BY <1>3 DEF ServerReads, Unmoved
  <2>2. Head(toServer) = w.pc
    BY <1>1, <2>1 DEF Awaited
  <2>3. /\ w' \in WType
        /\ w'.content => w.content /\ w'.fresh = w.fresh
        /\ w.pc = "Imported" => w'.pc = "Released"
        /\ w'.pc = "Released" => w.pc = "Imported"
        /\ w'.pc # "Imported"
    <3>1. CASE w.pc = "Demand"
      <4>1. w' = [w EXCEPT !.pc = "Take"]
        BY <2>1, <3>1 DEF AfterRead
      <4> QED BY <1>1, <3>1, <4>1 DEF WType
    <3>2. CASE w.pc = "Ready"
      <4>1. w' = [w EXCEPT !.pc = "Check", !.channel = TRUE]
        BY <2>1, <3>2 DEF AfterRead
      <4> QED BY <1>1, <3>2, <4>1 DEF WType
    <3>3. CASE w.pc = "Imported"
      <4>1. w' = [w EXCEPT !.pc = "Released"]
        BY <2>1, <3>3 DEF AfterRead
      <4> QED BY <1>1, <3>3, <4>1 DEF WType
    <3>4. CASE w.pc = "Released"
      <4>1. w' = [w EXCEPT !.pc = "Take", !.content = FALSE, !.fresh = FALSE]
        BY <2>1, <3>4 DEF AfterRead
      <4> QED BY <1>1, <3>4, <4>1 DEF WType
    <3> QED BY <1>1, <3>1, <3>2, <3>3, <3>4
  <2>4. link = "up"
    BY <1>1 DEF LinkShape
  <2>5. /\ toServer' \in Seq(ToServer) /\ Says(w.pc, toServer)
        /\ \A x : /\ Says(x, toServer') => Says(x, toServer)
                  /\ SaysOnce(x, toServer) => SaysOnce(x, toServer')
        /\ SaysOnce(w.pc, toServer) => ~Says(w.pc, toServer')
    BY <1>1, <2>1, <2>2, TailFacts
  <2>6. SurfaceShape'
    <3>1. /\ PreparerHolds' <=> PreparerHolds
          /\ Held' <=> Held
          /\ HeldOnce'
      BY <2>1, HoldersUnchanged
    <3>2. SaysOnce("Imported", toServer') /\ SaysOnce("Released", toServer')
      BY <1>1, <2>5 DEF SurfaceShape
    <3>3. ~Offers(toClient)
      BY <1>1, <2>4, <2>5 DEF SurfaceShape, Away
    <3>4. ~Says("Imported", toServer')
      BY <1>1, <2>4, <2>5 DEF SurfaceShape
    <3>5. Held \/ Says("Released", toServer') => w.pc = "Imported"
      BY <1>1, <2>4, <2>5 DEF SurfaceShape, Away
    <3>6. ~(PreparerHolds /\ p.pc \in {"Import", "Sample"})
      BY <1>1, <2>4, <2>5 DEF SurfaceShape
    <3>7. Held => ~Says("Released", toServer')
      BY <1>1, <2>4, <2>5 DEF SurfaceShape
    <3>8. Held \/ Says("Released", toServer') => Away'
      BY <2>3, <3>5 DEF Away
    <3>9. UNCHANGED <<p, toClient, link>>
      BY <2>1
    <3>10. OffersOnce(toClient)
      BY <1>1 DEF SurfaceShape
    <3> QED BY <3>1, <3>2, <3>3, <3>4, <3>6, <3>7, <3>8, <3>9, <3>10 DEF SurfaceShape
  <2>7. owner # "clear" /\ w'.content => w'.fresh
    BY <1>1, <2>3 DEF ContentShape
  <2>8. toClient' \in Seq(ToClient)
    BY <1>1, <2>1 DEF Types
  <2> QED BY <2>1, <2>3, <2>4, <2>5, <2>6, <2>7, <2>8, WorkerKeeps
<1> QED BY <1>2, <1>3

LEMMA DesktopKeeps ==
    ASSUME IInv, SubmitRing \/ PlaceholderRing \/ OwnerStep \/ Crash \/ HoldEnds
                 \/ Restart \/ WorkerStep
    PROVE  IInv'
<1>1. CASE SubmitRing \/ SubmitNative \/ ClearNative
  BY <1>1, OwnerKeeps
<1>2. CASE PlaceholderRing \/ CutClient \/ Crash \/ HoldEnds \/ Restart
  BY <1>2, PlaceholderKeeps, CutClientKeeps, CrashKeeps, DesktopDownKeeps
<1>3. CASE WorkerStep
  BY <1>3, AcceptClientKeeps, TakeFrameKeeps, WriteOfferKeeps, ServerReadsKeeps,
     WorkerFailsKeeps DEF WorkerStep, TakeFrameFails, ServerReadFails
<1> QED BY <1>1, <1>2, <1>3 DEF OwnerStep

-----------------------------------------------------------------------------
(* The media source.  A step that changes flags, requests and captures, and *)
(* neither the places of the surface nor what is known of the content.      *)
LEMMA FlagsKeep ==
    ASSUME IInv, UNCHANGED <<out, pipeVars, deskVars>>,
           cam' \in CamType, p' \in PType, r' \in RType,
           lock' \in {"free", "control", "preparer", "request"},
           control' \in {"idle", "start", "started", "stop", "reset", "stopped",
                         "leave", "join", "gone"},
           announced' \in BOOLEAN,
           GateShape', RunShape', SampleWithinRun',
           cam'.pipe = cam.pipe,
           \/ cam'.prepared = cam.prepared
           \/ cam'.prepared = {[s EXCEPT !.life = FALSE] : s \in cam.prepared},
           p'.pc = p.pc, p'.pipe = p.pipe, p'.sess = p.sess,
           p'.token = p.token, p'.fresh = p.fresh
    PROVE  IInv'
<1>1. /\ Types /\ SessionShape /\ SurfaceShape
      /\ UNCHANGED <<out, link, toServer, toClient, w, owner, latest, signal, desktop>>
  BY DEF IInv, pipeVars, deskVars
<1> DEFINE D(s) == [s EXCEPT !.life = FALSE]
<1>2. \A s \in Offered : D(s).pipe = s.pipe /\ D(s).token = s.token /\ D(s).fresh = s.fresh
  BY DEF Offered
<1>3. cam.prepared \subseteq Offered
  BY <1>1, Fields
<1>4. \A s \in cam'.prepared : \E t \in cam.prepared :
          s.pipe = t.pipe /\ s.token = t.token /\ s.fresh = t.fresh
  <2> SUFFICES ASSUME NEW s \in cam'.prepared
               PROVE  \E t \in cam.prepared :
                          s.pipe = t.pipe /\ s.token = t.token /\ s.fresh = t.fresh
    OBVIOUS
  <2>1. PICK t \in cam.prepared : s = t \/ s = D(t)
    OBVIOUS
  <2>2. t \in Offered
    BY <1>3
  <2>3. D(t).pipe = t.pipe /\ D(t).token = t.token /\ D(t).fresh = t.fresh
    BY <1>2, <2>2
  <2> HIDE DEF D
  <2> QED BY <2>1, <2>3
<1>5. \A t \in cam.prepared : \E s \in cam'.prepared : s.pipe = t.pipe
  <2> SUFFICES ASSUME NEW t \in cam.prepared
               PROVE  \E s \in cam'.prepared : s.pipe = t.pipe
    OBVIOUS
  <2>1. t \in cam'.prepared \/ D(t) \in cam'.prepared
    OBVIOUS
  <2> QED BY <1>2, <1>3, <2>1
<1>6. /\ PreparerHolds' <=> PreparerHolds
      /\ PreparedHolds' <=> PreparedHolds
      /\ SampleHolds' <=> SampleHolds
  BY <1>1, <1>4, <1>5 DEF PreparerHolds, PreparedHolds, SampleHolds
<1>7. Passes
  BY <1>1, <1>6 DEF SurfaceShape, HeldOnce, Held, Passes
<1>8. ClientOpen' <=> ClientOpen
  BY <1>6, OpenEnds
<1>9. SessionShape'
  <2>1. \A s, t \in cam'.prepared : s = t
    BY <1>1 DEF SessionShape
  <2>2. \A s \in cam'.prepared : s.pipe = cam'.pipe /\ s.pipe # "none"
    BY <1>1, <1>4 DEF SessionShape
  <2>3. p'.pc \in Inside => cam'.prepared = {}
    BY <1>1 DEF SessionShape
  <2> QED BY <1>1, <1>8, <2>1, <2>2, <2>3 DEF SessionShape
<1>10. Types'
  BY <1>1 DEF Types
<1>11. ContentShape'
  BY <1>1, <1>4, ContentUnchanged
<1>12. LinkShape' /\ SurfaceShape'
  BY <1>1, <1>7, <1>8, LinkKeeps, SurfaceKeeps, QuietlyItself
<1> QED BY <1>9, <1>10, <1>11, <1>12 DEF IInv

(* A session ends: what was prepared is a sample without a session now, and *)
(* what the preparation thread has is kept without one or given up.         *)
LEMMA AbortedFacts ==
    ASSUME Types, NEW S, \A s \in S : s.pipe \in Ends
    PROVE  /\ Aborted(S) \in SUBSET OutType
           /\ \A s \in Aborted(S) : /\ s.pipe = "live" /\ ~s.sess
                                    /\ \E t \in out \cup S : t.pipe = "live"
           /\ \A s, t \in Aborted(S) : s = t
<1> DEFINE D(s) == [pipe |-> s.pipe, sess |-> FALSE]
<1>1. \A s \in Aborted(S) : \E t \in out \cup S : s = D(t) /\ s.pipe = "live"
  <2> SUFFICES ASSUME NEW s \in Aborted(S)
               PROVE  \E t \in out \cup S : s = D(t) /\ s.pipe = "live"
    OBVIOUS
  <2>1. s \in {D(t) : t \in out \cup S} /\ (s.sess \/ s.pipe = "live")
    BY DEF Aborted, Kept
  <2>2. PICK t \in out \cup S : s = D(t)
    BY <2>1
  <2>3. s.sess = FALSE
    BY <2>2
  <2> QED BY <2>1, <2>2, <2>3
<1>2. \A s \in Aborted(S) : /\ s = [pipe |-> "live", sess |-> FALSE]
                            /\ \E t \in out \cup S : t.pipe = "live"
  <2> SUFFICES ASSUME NEW s \in Aborted(S)
               PROVE  /\ s = [pipe |-> "live", sess |-> FALSE]
                      /\ \E t \in out \cup S : t.pipe = "live"
    OBVIOUS
  <2>1. PICK t \in out \cup S : s = D(t) /\ s.pipe = "live"
    BY <1>1
  <2>2. t.pipe = "live"
    BY <2>1
  <2> QED BY <2>1, <2>2
<1>3. [pipe |-> "live", sess |-> FALSE] \in OutType
  BY DEF OutType, Ends
<1>4. Aborted(S) \in SUBSET OutType
  BY <1>2, <1>3
<1>5. \A s, t \in Aborted(S) : s = t
  BY <1>2
<1>6. \A s \in Aborted(S) : /\ s.pipe = "live" /\ ~s.sess
                            /\ \E t \in out \cup S : t.pipe = "live"
  <2> SUFFICES ASSUME NEW s \in Aborted(S)
               PROVE  /\ s.pipe = "live" /\ ~s.sess
                      /\ \E t \in out \cup S : t.pipe = "live"
    OBVIOUS
  <2>1. s = [pipe |-> "live", sess |-> FALSE] /\ \E t \in out \cup S : t.pipe = "live"
    BY <1>2
  <2>2. s.pipe = "live" /\ ~s.sess
    BY <2>1
  <2> QED BY <2>1, <2>2
<1> QED BY <1>4, <1>5, <1>6

LEMMA EndSessionKeeps ==
    ASSUME IInv, NEW k \in CamType, k.prepared = cam.prepared, EndSession(k),
           Quietly, UNCHANGED deskVars, p' \in PType, r' \in RType, ~p'.sess,
           \/ p'.pc = p.pc /\ p'.pipe = p.pipe
           \/ p'.pc \notin Carries /\ p'.pipe = "none",
           p'.token => p.token,
           p'.pc \in Carries => p'.fresh = p.fresh,
           lock' \in {"free", "control", "preparer", "request"},
           control' \in {"idle", "start", "started", "stop", "reset", "stopped",
                         "leave", "join", "gone"},
           announced' \in BOOLEAN,
           GateShape', RunShape', SampleWithinRun'
    PROVE  IInv'
<1>1. /\ Types /\ SessionShape /\ SurfaceShape /\ ContentShape
      /\ UNCHANGED <<w, owner, latest, signal, desktop>>
  BY DEF IInv, deskVars
<1>2. cam' \in CamType /\ cam'.prepared = {} /\ cam'.pipe = "none"
  <2>1. cam' = Reset(k)
    BY DEF EndSession
  <2>2. {} \in SUBSET Offered /\ "none" \in Ends /\ 0 \in 0..MaxRequests
    BY BoundsAssumption DEF Ends
  <2> QED BY <2>1, <2>2 DEF Reset, CamType
<1>3. \A s \in cam.prepared : s.pipe \in Ends
  BY <1>1, Fields
<1>4. /\ out' \in SUBSET OutType
      /\ \A s \in out' : s.pipe = "live" /\ ~s.sess /\ (SampleHolds \/ PreparedHolds)
      /\ \A s, t \in out' : s = t
  <2>1. out' = Aborted(cam.prepared)
    BY DEF EndSession
  <2> QED BY <1>1, <1>3, <2>1, AbortedFacts DEF SampleHolds, PreparedHolds
<1>5. /\ PreparerHolds' => PreparerHolds /\ p'.pc = p.pc
      /\ ~PreparedHolds'
      /\ SampleHolds' => SampleHolds \/ PreparedHolds
  BY <1>2, <1>4 DEF PreparerHolds, PreparedHolds, SampleHolds
<1>6. Passes
  BY <1>1, <1>4, <1>5 DEF SurfaceShape, HeldOnce, Held, Passes
<1>7. ClientOpen' => ClientOpen
  BY <1>2, <1>5, OpenEnds
<1>8. SessionShape'
  <2>1. p'.pc \in Carries => p'.pipe # "none"
    BY <1>1 DEF SessionShape
  <2> QED BY <1>2, <1>4, <2>1 DEF SessionShape
<1>9. Types'
  BY <1>1, <1>2, <1>4 DEF Types, Quietly
<1>10. ContentShape'
  <2>1. p'.pc \in Carries => p.pc \in Carries
    BY DEF Carries
  <2> QED BY <1>1, <1>2, <2>1, ContentKeeps DEF Quietly, ContentShape
<1>11. LinkShape' /\ SurfaceShape'
  BY <1>1, <1>6, <1>7, LinkKeeps, SurfaceKeeps DEF Quietly
<1> QED BY <1>8, <1>9, <1>10, <1>11 DEF IInv

-----------------------------------------------------------------------------
(* Control calls.                                                           *)

LEMMA OutdatedFacts ==
    ASSUME Types, NEW l \in BOOLEAN, NEW e \in BOOLEAN, Outdated(l, e)
    PROVE  /\ p' \in PType /\ p'.pc = p.pc /\ p'.pipe = p.pipe
           /\ p'.token = p.token /\ p'.fresh = p.fresh
           /\ e => ~p'.sess
           /\ ~e => p'.sess = p.sess
           /\ r' \in RType /\ r'.pc = r.pc
<1>1. p \in PType /\ r \in RType
  BY DEF Types
<1>2. /\ p' \in PType /\ p'.pc = p.pc /\ p'.pipe = p.pipe
      /\ p'.token = p.token /\ p'.fresh = p.fresh
      /\ e => ~p'.sess
      /\ ~e => p'.sess = p.sess
  BY <1>1 DEF Outdated, PType
<1>3. r' \in RType /\ r'.pc = r.pc
  BY <1>1 DEF Outdated, RType
<1> QED BY <1>2, <1>3

LEMMA NewLifeFacts ==
    ASSUME NEW k \in CamType
    PROVE  /\ NewLife(k) \in CamType
           /\ NewLife(k).prepared = {[s EXCEPT !.life = FALSE] : s \in k.prepared}
           /\ NewLife(k).pipe = k.pipe /\ NewLife(k).running = k.running
           /\ NewLife(k).alive = k.alive /\ NewLife(k).transitioning = k.transitioning
<1> DEFINE D(s) == [s EXCEPT !.life = FALSE]
<1>1. k.prepared \in SUBSET Offered
  BY DEF CamType
<1>2. \A s \in Offered : D(s) \in Offered
  BY DEF Offered
<1>3. {D(s) : s \in k.prepared} \in SUBSET Offered
  BY <1>1, <1>2
<1> QED BY <1>3 DEF NewLife, CamType

LEMMA ResetFacts ==
    ASSUME NEW k \in CamType
    PROVE  /\ Reset(k).running = k.running /\ Reset(k).alive = k.alive
           /\ Reset(k).transitioning = k.transitioning
BY DEF Reset, CamType

(* Begin, StartCommit, StopCommit and the steps that change no session.     *)
LEMMA CallsKeep ==
    ASSUME IInv, \/ \E running \in BOOLEAN : Begin(running)
                 \/ StartCommit \/ AllocatorFails \/ StartEvent \/ StopCommit
                 \/ StopEvent \/ StopEventFails \/ Leave \/ Join
    PROVE  IInv'
<1>1. /\ Types /\ GateShape /\ RunShape /\ SampleWithinRun
      /\ cam \in CamType /\ p \in PType /\ r \in RType
      /\ TRUE \in BOOLEAN /\ FALSE \in BOOLEAN
  BY DEF IInv, Types
<1>2. /\ UNCHANGED <<out, pipeVars, deskVars>>
      /\ cam' \in CamType
      /\ cam'.pipe = cam.pipe
      /\ \/ cam'.prepared = cam.prepared
         \/ cam'.prepared = {[s EXCEPT !.life = FALSE] : s \in cam.prepared}
      /\ p' \in PType /\ p'.pc = p.pc /\ p'.pipe = p.pipe /\ p'.sess = p.sess
      /\ p'.token = p.token /\ p'.fresh = p.fresh
      /\ r' \in RType /\ r'.pc = r.pc
  <2>1. CASE \E running \in BOOLEAN : Begin(running)
    <3>1. cam' = [cam EXCEPT !.transitioning = TRUE]
          /\ UNCHANGED <<p, r, out, pipeVars, deskVars>>
      BY <2>1 DEF Begin
    <3> QED BY <1>1, <3>1 DEF CamType
  <2>2. CASE StartCommit
    <3> DEFINE k == [cam EXCEPT !.running = TRUE]
    <3>1. cam' = NewLife(k) /\ Outdated(TRUE, FALSE) /\ UNCHANGED <<out, pipeVars, deskVars>>
      BY <2>2 DEF StartCommit
    <3>2. k \in CamType /\ k.prepared = cam.prepared /\ k.pipe = cam.pipe
      BY <1>1 DEF CamType
    <3> QED BY <1>1, <3>1, <3>2, OutdatedFacts, NewLifeFacts
  <2>3. CASE StopCommit
    <3> DEFINE k == [cam EXCEPT !.running = FALSE]
    <3>1. cam' = NewLife(k) /\ Outdated(TRUE, FALSE) /\ UNCHANGED <<out, pipeVars, deskVars>>
      BY <2>3 DEF StopCommit
    <3>2. k \in CamType /\ k.prepared = cam.prepared /\ k.pipe = cam.pipe
      BY <1>1 DEF CamType
    <3> QED BY <1>1, <3>1, <3>2, OutdatedFacts, NewLifeFacts
  <2>4. CASE StopEventFails
    <3> DEFINE k == [cam EXCEPT !.running = TRUE]
    <3>1. UNCHANGED <<out, pipeVars, deskVars>>
          /\ \/ cam' = NewLife(k) /\ Outdated(TRUE, FALSE)
             \/ UNCHANGED <<cam, p, r>>
      BY <2>4 DEF StopEventFails
    <3>2. k \in CamType /\ k.prepared = cam.prepared /\ k.pipe = cam.pipe
      BY <1>1 DEF CamType
    <3> QED BY <1>1, <3>1, <3>2, OutdatedFacts, NewLifeFacts
  <2>5. CASE Leave
    <3>1. cam' = [cam EXCEPT !.transitioning = FALSE]
          /\ UNCHANGED <<p, r, out, pipeVars, deskVars>>
      BY <2>5 DEF Leave
    <3> QED BY <1>1, <3>1 DEF CamType
  <2>6. CASE AllocatorFails \/ StartEvent \/ StopEvent \/ Join
    BY <1>1, <2>6 DEF AllocatorFails, StartEvent, StopEvent, Join
  <2> QED BY <2>1, <2>2, <2>3, <2>4, <2>5, <2>6
<1>3. lock \in {"free", "control", "preparer", "request"} /\ announced \in BOOLEAN
  BY <1>1 DEF Types
<1>4. /\ lock' \in {"free", "control", "preparer", "request"}
      /\ control' \in {"idle", "start", "started", "stop", "reset", "stopped",
                       "leave", "join", "gone"}
      /\ announced' \in BOOLEAN
      /\ GateShape' /\ RunShape' /\ SampleWithinRun'
  <2>1. CASE \E running \in BOOLEAN : Begin(running)
    <3>1. PICK running \in BOOLEAN : Begin(running)
      BY <2>1
    <3>2. /\ control = "idle" /\ control' = IF running THEN "start" ELSE "stop"
          /\ lock = "free" /\ lock' = "control" /\ announced' = announced
          /\ cam'.transitioning /\ cam'.running = cam.running /\ cam'.alive = cam.alive
          /\ cam.alive /\ (running => ~cam.running) /\ (~running => cam.running)
      BY <1>1, <3>1, Fields DEF Begin, Stage, CamType
    <3>3. GateShape' /\ SampleWithinRun'
      BY <1>1, <1>2, <3>2 DEF GateShape, SampleWithinRun, Inside
    <3>4. RunShape'
      BY <1>1, <3>2 DEF RunShape
    <3> QED BY <1>3, <3>2, <3>3, <3>4
  <2>2. CASE StartCommit
    <3> DEFINE k == [cam EXCEPT !.running = TRUE]
    <3>1. cam' = NewLife(k) /\ k \in CamType /\ k.running /\ k.alive = cam.alive
          /\ k.transitioning = cam.transitioning
          /\ control = "start" /\ control' = "started" /\ UNCHANGED <<lock, announced>>
      BY <1>1, <2>2 DEF StartCommit, Stage, CamType
    <3>2. cam'.running /\ cam'.alive = cam.alive /\ cam'.transitioning = cam.transitioning
      BY <3>1, NewLifeFacts
    <3> QED BY <1>1, <1>2, <1>3, <3>1, <3>2
            DEF GateShape, SampleWithinRun, RunShape, Inside
  <2>3. CASE StopCommit
    <3> DEFINE k == [cam EXCEPT !.running = FALSE]
    <3>1. cam' = NewLife(k) /\ k \in CamType /\ ~k.running /\ k.alive = cam.alive
          /\ k.transitioning = cam.transitioning
          /\ control = "stop" /\ control' = "reset" /\ UNCHANGED <<lock, announced>>
      BY <1>1, <2>3 DEF StopCommit, Stage, CamType
    <3>2. ~cam'.running /\ cam'.alive = cam.alive /\ cam'.transitioning = cam.transitioning
      BY <3>1, NewLifeFacts
    <3> QED BY <1>1, <1>2, <1>3, <3>1, <3>2
            DEF GateShape, SampleWithinRun, RunShape, Inside
  <2>4. CASE StopEventFails
    <3> DEFINE k == [cam EXCEPT !.running = TRUE]
    <3>1. (cam' = NewLife(k) \/ cam' = cam)
          /\ k \in CamType /\ k.alive = cam.alive /\ k.transitioning = cam.transitioning
          /\ control = "stopped" /\ control' = "leave" /\ UNCHANGED <<lock, announced>>
      BY <1>1, <2>4 DEF StopEventFails, Stage, CamType
    <3>2. cam'.alive = cam.alive /\ cam'.transitioning = cam.transitioning
      BY <3>1, NewLifeFacts
    <3>3. lock = "control" /\ announced /\ cam.alive
      BY <1>1, <3>1 DEF GateShape, RunShape
    <3>4. GateShape' /\ SampleWithinRun'
      BY <1>1, <1>2, <3>1, <3>2, <3>3 DEF GateShape, SampleWithinRun, Inside
    <3>5. RunShape'
      BY <1>1, <3>1, <3>2, <3>3 DEF RunShape
    <3> QED BY <1>3, <3>1, <3>4, <3>5
  <2>5. CASE Leave
    <3>1. /\ control = "leave" /\ control' = "idle" /\ lock' = "free"
          /\ ~cam'.transitioning /\ cam'.running = cam.running /\ cam'.alive = cam.alive
          /\ announced' = announced
      BY <1>1, <2>5 DEF Leave, Stage, CamType
    <3>2. lock = "control"
      BY <1>1, <3>1 DEF GateShape
    <3>3. GateShape' /\ SampleWithinRun'
      BY <1>1, <1>2, <3>1, <3>2 DEF GateShape, SampleWithinRun, Inside
    <3>4. RunShape'
      BY <1>1, <3>1, <3>2 DEF RunShape
    <3> QED BY <1>3, <3>1, <3>3, <3>4
  <2>6. CASE AllocatorFails \/ StartEvent \/ StopEvent \/ Join
    <3>1. /\ cam' = cam /\ lock' = lock
          /\ \/ control = "start" /\ control' = "leave" /\ announced' = announced
             \/ control = "stop" /\ control' = "leave" /\ announced' = announced
             \/ control = "started" /\ control' = "leave" /\ announced' = TRUE
             \/ control = "stopped" /\ control' = "leave" /\ announced' = FALSE
             \/ control = "join" /\ control' = "gone" /\ announced' = announced
      BY <2>6 DEF AllocatorFails, StartEvent, StopEvent, Join, Stage
    <3>2. GateShape'
      BY <1>1, <1>2, <3>1 DEF GateShape
    <3>3. SampleWithinRun'
      BY <1>1, <1>2, <3>1 DEF GateShape, SampleWithinRun, Inside
    <3>4. RunShape'
      BY <1>1, <3>1 DEF GateShape, RunShape
    <3> QED BY <1>3, <3>1, <3>2, <3>3, <3>4
  <2> QED BY <2>1, <2>2, <2>3, <2>4, <2>5, <2>6
<1> QED BY <1>2, <1>4, FlagsKeep

(* Every control call that resets the session.                              *)
LEMMA ResettingCallsKeep ==
    ASSUME IInv, StartEventFails \/ StopReset \/ Shutdown \/ SetD3DManager
                 \/ SetOutputMediaType
    PROVE  IInv'
<1>1. /\ Types /\ GateShape /\ RunShape /\ SampleWithinRun
      /\ cam \in CamType /\ TRUE \in BOOLEAN /\ FALSE \in BOOLEAN
  BY DEF IInv, Types
<1>2. lock \in {"free", "control", "preparer", "request"} /\ announced \in BOOLEAN
  BY <1>1 DEF Types
<1>3. UNCHANGED <<lock, announced, pipeVars, deskVars>>
  BY DEF StartEventFails, StopReset, Shutdown, SetD3DManager, SetOutputMediaType
<1>4. Quietly /\ UNCHANGED deskVars
  BY <1>3, QuietlyItself DEF pipeVars
<1>5. \E e \in BOOLEAN : Outdated(e, TRUE)
  BY DEF StartEventFails, StopReset, Shutdown, SetD3DManager, SetOutputMediaType
<1>6. /\ p' \in PType /\ p'.pc = p.pc /\ p'.pipe = p.pipe
      /\ p'.token = p.token /\ p'.fresh = p.fresh /\ ~p'.sess
      /\ r' \in RType /\ r'.pc = r.pc
  BY <1>1, <1>5, OutdatedFacts
<1>7. ASSUME NEW k \in CamType, k.prepared = cam.prepared, EndSession(k),
             control' \in {"idle", "start", "started", "stop", "reset", "stopped",
                           "leave", "join", "gone"},
             GateShape', RunShape', SampleWithinRun'
      PROVE  IInv'
  BY <1>2, <1>3, <1>4, <1>6, <1>7, EndSessionKeeps
<1>8. CASE StartEventFails
  <2> DEFINE k == [cam EXCEPT !.running = FALSE]
  <2>1. /\ k \in CamType /\ k.prepared = cam.prepared /\ EndSession(k)
        /\ control = "started" /\ control' = "leave"
        /\ ~k.running /\ k.alive = cam.alive /\ k.transitioning = cam.transitioning
    BY <1>1, <1>8 DEF StartEventFails, Stage, CamType
  <2>2. ~cam'.running /\ cam'.alive = cam.alive /\ cam'.transitioning = cam.transitioning
    BY <2>1, ResetFacts DEF EndSession
  <2>3. GateShape' /\ RunShape' /\ SampleWithinRun'
    BY <1>1, <1>3, <1>6, <2>1, <2>2 DEF GateShape, RunShape, SampleWithinRun, Inside
  <2> QED BY <1>7, <2>1, <2>3
<1>9. CASE StopReset
  <2>1. EndSession(cam) /\ control = "reset" /\ control' = "stopped"
    BY <1>9 DEF StopReset, Stage
  <2>2. /\ cam'.running = cam.running /\ cam'.alive = cam.alive
        /\ cam'.transitioning = cam.transitioning
    BY <1>1, <2>1, ResetFacts DEF EndSession
  <2>3. GateShape' /\ RunShape' /\ SampleWithinRun'
    BY <1>1, <1>3, <1>6, <2>1, <2>2 DEF GateShape, RunShape, SampleWithinRun, Inside
  <2> QED BY <1>1, <1>7, <2>1, <2>3
<1>10. CASE Shutdown
  <2> DEFINE k == [cam EXCEPT !.running = FALSE, !.transitioning = FALSE, !.alive = FALSE]
  <2>1. /\ k \in CamType /\ k.prepared = cam.prepared /\ EndSession(k)
        /\ control = "idle" /\ control' = "join" /\ lock = "free"
        /\ ~k.running /\ ~k.alive /\ ~k.transitioning
    BY <1>1, <1>10 DEF Shutdown, Stage, CamType
  <2>2. ~cam'.running /\ ~cam'.alive /\ ~cam'.transitioning
    BY <2>1, ResetFacts DEF EndSession
  <2>3. GateShape' /\ RunShape' /\ SampleWithinRun'
    BY <1>1, <1>3, <1>6, <2>1, <2>2 DEF GateShape, RunShape, SampleWithinRun, Inside
  <2> QED BY <1>7, <2>1, <2>3
<1>11. CASE SetD3DManager \/ SetOutputMediaType
  <2>1. PICK k \in CamType :
           /\ EndSession(k) /\ k.prepared = cam.prepared /\ k.running = cam.running
           /\ k.alive = cam.alive /\ k.transitioning = cam.transitioning
    <3>1. CASE SetD3DManager
      <4>1. PICK native \in {TRUE, ~cam.native} :
                EndSession([cam EXCEPT !.native = native, !.placeholder = FALSE])
        BY <3>1 DEF SetD3DManager
      <4> DEFINE k == [cam EXCEPT !.native = native, !.placeholder = FALSE]
      <4>2. native \in BOOLEAN
        BY <1>1, <4>1, Fields
      <4>3. k \in CamType /\ k.prepared = cam.prepared /\ k.running = cam.running
            /\ k.alive = cam.alive /\ k.transitioning = cam.transitioning
        BY <1>1, <4>2 DEF CamType
      <4> QED BY <4>1, <4>3
    <3>2. CASE SetOutputMediaType
      BY <1>1, <3>2 DEF SetOutputMediaType
    <3> QED BY <1>11, <3>1, <3>2
  <2>2. control' = control /\ control \in {"idle", "start", "started", "stop", "reset",
                                            "stopped", "leave", "join", "gone"}
    BY <1>1, <1>11 DEF SetD3DManager, SetOutputMediaType, Types
  <2>3. /\ cam'.running = cam.running /\ cam'.alive = cam.alive
        /\ cam'.transitioning = cam.transitioning
    BY <2>1, ResetFacts DEF EndSession
  <2>4. GateShape' /\ RunShape' /\ SampleWithinRun'
    BY <1>1, <1>3, <1>6, <2>2, <2>3 DEF GateShape, RunShape, SampleWithinRun, Inside
  <2> QED BY <1>7, <2>1, <2>2, <2>4
<1> QED BY <1>8, <1>9, <1>10, <1>11

-----------------------------------------------------------------------------
(* RequestSample.                                                           *)

LEMMA RequestsKeep ==
    ASSUME IInv, RequestSample \/ ContentKind \/ RequestNativeSample
                 \/ AcquireForOutput \/ DeliverCpuSample \/ QueueCpuSample
    PROVE  IInv'
<1>1. /\ Types /\ GateShape /\ RunShape /\ SampleWithinRun
      /\ cam \in CamType /\ p \in PType /\ r \in RType
      /\ Waiting \in RType /\ Waiting.pc = "idle"
  BY DEF IInv, Types, Waiting, RType
<1>2. UNCHANGED <<control, announced, p, out, pipeVars, deskVars>>
  BY DEF RequestSample, ContentKind, RequestNativeSample, AcquireForOutput,
         DeliverCpuSample, QueueCpuSample, camVars
<1>3. /\ cam' \in CamType /\ cam'.pipe = cam.pipe /\ cam'.prepared = cam.prepared
      /\ cam'.running = cam.running /\ cam'.alive = cam.alive
      /\ cam'.transitioning = cam.transitioning
  <2>1. CASE RequestNativeSample
    <3>1. cam' = cam \/ (cam.requests < MaxRequests
                            /\ cam' = [cam EXCEPT !.requests = @ + 1])
      BY <2>1 DEF RequestNativeSample
    <3>2. cam.requests \in 0..MaxRequests /\ MaxRequests \in Nat
      BY <1>1, Fields, BoundsAssumption
    <3>3. cam.requests < MaxRequests => cam.requests + 1 \in 0..MaxRequests
      BY <3>2
    <3> QED BY <1>1, <3>1, <3>3 DEF CamType
  <2>2. CASE ~RequestNativeSample
    <3>1. cam' = cam
      BY <2>2 DEF RequestSample, ContentKind, AcquireForOutput, DeliverCpuSample,
                  QueueCpuSample, camVars
    <3> QED BY <1>1, <3>1
  <2> QED BY <2>1, <2>2
<1>4. /\ r' \in RType
      /\ lock' \in {"free", "control", "preparer", "request"}
      /\ GateShape' /\ SampleWithinRun'
  <2>1. CASE RequestSample \/ ContentKind
    <3>1. r' \in RType /\ r'.pc # "Queue" /\ r.pc # "Queue" /\ lock' = lock
      BY <1>1, <2>1 DEF RequestSample, ContentKind, RType, camVars
    <3> QED BY <1>1, <1>2, <1>3, <3>1 DEF GateShape, SampleWithinRun, Types
  <2>2. CASE RequestNativeSample
    <3>1. r' \in RType /\ r'.pc # "Queue" /\ r.pc # "Queue" /\ lock' = lock
      BY <1>1, <2>2 DEF RequestNativeSample
    <3> QED BY <1>1, <1>2, <1>3, <3>1 DEF GateShape, SampleWithinRun, Types
  <2>3. CASE AcquireForOutput
    <3>1. r.pc = "Acquire" /\ lock' = lock
          /\ (r' = [r EXCEPT !.pc = "Copy", !.life = TRUE] \/ r' = Waiting)
      BY <2>3 DEF AcquireForOutput, camVars
    <3>2. r' \in RType /\ r'.pc # "Queue"
      BY <1>1, <3>1 DEF RType
    <3> QED BY <1>1, <1>2, <1>3, <3>1, <3>2 DEF GateShape, SampleWithinRun, Types
  <2>4. CASE DeliverCpuSample
    <3>1. CASE StillCurrent
      <4>1. r.pc = "Copy" /\ lock = "free" /\ r' = [r EXCEPT !.pc = "Queue"]
            /\ lock' = "request" /\ cam.running /\ ~cam.transitioning
        BY <2>4, <3>1 DEF DeliverCpuSample, StillCurrent, Flows
      <4>2. r' \in RType /\ r'.pc = "Queue"
        BY <1>1, <4>1 DEF RType
      <4>3. GateShape'
        BY <1>1, <1>2, <1>3, <4>1, <4>2 DEF GateShape
      <4>4. announced /\ cam.alive
        BY <1>1, <4>1 DEF RunShape, GateShape
      <4>5. SampleWithinRun'
        BY <1>2, <1>3, <4>1, <4>4 DEF SampleWithinRun
      <4> QED BY <4>1, <4>2, <4>3, <4>5
    <3>2. CASE ~StillCurrent
      <4>1. r.pc = "Copy" /\ r' = Waiting /\ lock' = lock
        BY <2>4, <3>2 DEF DeliverCpuSample
      <4> QED BY <1>1, <1>2, <1>3, <4>1 DEF GateShape, SampleWithinRun, Types
    <3> QED BY <3>1, <3>2
  <2>5. CASE QueueCpuSample
    <3>1. r.pc = "Queue" /\ r' = Waiting /\ lock' = "free"
      BY <2>5 DEF QueueCpuSample
    <3> QED BY <1>1, <1>2, <1>3, <3>1 DEF GateShape, SampleWithinRun, Inside
  <2> QED BY <2>1, <2>2, <2>3, <2>4, <2>5
<1>5. RunShape'
  <2>1. lock' = "control" => lock = "control"
    BY <1>1 DEF RequestSample, ContentKind, RequestNativeSample, AcquireForOutput,
                DeliverCpuSample, QueueCpuSample, camVars
  <2> QED BY <1>1, <1>2, <1>3, <2>1 DEF RunShape
<1>6. control' \in {"idle", "start", "started", "stop", "reset", "stopped",
                    "leave", "join", "gone"} /\ announced' \in BOOLEAN /\ p' = p
  BY <1>1, <1>2 DEF Types
<1> QED BY <1>1, <1>2, <1>3, <1>4, <1>5, <1>6, FlagsKeep

LEMMA PlaceholderActiveKeeps ==
    ASSUME IInv, SetPlaceholderActive
    PROVE  IInv'
<1> DEFINE k == [cam EXCEPT !.placeholder = r.placeholder]
           q == [r EXCEPT !.pc = IF r.placeholder THEN "Acquire" ELSE "Push",
                          !.placeholder = FALSE]
<1>1. /\ Types /\ GateShape /\ RunShape /\ SampleWithinRun
      /\ cam \in CamType /\ p \in PType /\ r \in RType
      /\ UNCHANGED <<lock, control, announced, pipeVars, deskVars>>
      /\ r.pc = "Set" /\ r' = q
  BY DEF IInv, Types, SetPlaceholderActive
<1>2. r' \in RType /\ r'.pc # "Queue" /\ r.placeholder \in BOOLEAN
  BY <1>1 DEF RType
<1>3. /\ lock' \in {"free", "control", "preparer", "request"}
      /\ control' \in {"idle", "start", "started", "stop", "reset", "stopped",
                       "leave", "join", "gone"}
      /\ announced' \in BOOLEAN
  BY <1>1 DEF Types
<1>4. CASE cam.placeholder = r.placeholder
  <2>1. cam' = cam /\ p' = p /\ out' = out
    BY <1>4 DEF SetPlaceholderActive
  <2>2. GateShape' /\ RunShape' /\ SampleWithinRun'
    BY <1>1, <1>2, <2>1, SteadyKeeps DEF Steady
  <2> QED BY <1>1, <1>2, <1>3, <2>1, <2>2, FlagsKeep
<1>5. CASE cam.placeholder # r.placeholder
  <2>1. EndSession(k) /\ p' = [p EXCEPT !.sess = FALSE]
    BY <1>5 DEF SetPlaceholderActive
  <2>2. /\ k \in CamType /\ k.prepared = cam.prepared /\ k.running = cam.running
        /\ k.alive = cam.alive /\ k.transitioning = cam.transitioning
    BY <1>1, <1>2 DEF CamType
  <2>3. /\ p' \in PType /\ p'.pc = p.pc /\ p'.pipe = p.pipe /\ ~p'.sess
        /\ p'.token = p.token /\ p'.fresh = p.fresh
    BY <1>1, <2>1 DEF PType
  <2>4. /\ cam'.running = cam.running /\ cam'.alive = cam.alive
        /\ cam'.transitioning = cam.transitioning
    BY <2>1, <2>2, ResetFacts DEF EndSession
  <2>5. GateShape' /\ RunShape' /\ SampleWithinRun'
    BY <1>1, <1>2, <2>3, <2>4, SteadyKeeps DEF Steady
  <2>6. Quietly
    BY <1>1, QuietlyItself DEF pipeVars
  <2> QED BY <1>1, <1>2, <1>3, <2>1, <2>2, <2>3, <2>5, <2>6, EndSessionKeeps
<1> QED BY <1>4, <1>5

-----------------------------------------------------------------------------
(* The preparation thread, outside the gate.                                *)

Outside(pc) == pc \in Pcs \ Inside

LEMMA OutsideSteady ==
    ASSUME IInv, Outside(p.pc), Outside(p'.pc), UNCHANGED lock, Elsewhere,
           cam'.running = cam.running, cam'.alive = cam.alive,
           cam'.transitioning = cam.transitioning
    PROVE  GateShape' /\ RunShape' /\ SampleWithinRun'
<1>1. Steady
  BY DEF Steady, Outside, Elsewhere, Inside
<1> QED BY <1>1, SteadyKeeps

(* It goes on, or gives up, without a surface.                              *)
LEMMA MovesKeep ==
    ASSUME IInv, Outside(p.pc), Outside(p'.pc), p' \in PType, p'.pc \notin Carries,
           UNCHANGED <<lock, out>>, Elsewhere, Quietly,
           cam' \in CamType, cam'.pipe = cam.pipe, cam'.prepared = cam.prepared,
           cam'.running = cam.running, cam'.alive = cam.alive,
           cam'.transitioning = cam.transitioning,
           p'.pipe \in {p.pipe, "none"},
           p'.sess => p.sess /\ p'.pipe = p.pipe,
           p'.token => p.token \/ signal = "Live"
    PROVE  IInv'
<1>1. /\ Types /\ SessionShape /\ SurfaceShape /\ ContentShape
      /\ UNCHANGED <<control, announced, r, w, owner, latest, signal, desktop>>
  BY DEF IInv, Elsewhere, deskVars
<1>2. /\ ~PreparerHolds'
      /\ PreparedHolds' <=> PreparedHolds
      /\ SampleHolds' <=> SampleHolds
  BY DEF PreparerHolds, PreparedHolds, SampleHolds
<1>3. Passes
  BY <1>1, <1>2 DEF SurfaceShape, HeldOnce, Held, Passes
<1>4. ClientOpen' => ClientOpen
  BY <1>2, OpenEnds
<1>5. SessionShape'
  BY <1>1, <1>4 DEF SessionShape, Outside
<1>6. Types'
  BY <1>1 DEF Types, Quietly
<1>7. ContentShape'
  <2>1. p'.token => signal = "Live"
    BY <1>1 DEF ContentShape
  <2>2. \A s \in cam'.prepared : s.token => signal = "Live" /\ s.fresh
    BY <1>1 DEF ContentShape
  <2> QED BY <1>1, <2>1, <2>2, ContentKeeps DEF Quietly
<1>8. LinkShape' /\ SurfaceShape'
  BY <1>1, <1>3, <1>4, LinkKeeps, SurfaceKeeps DEF Quietly
<1> QED BY <1>5, <1>6, <1>7, <1>8, OutsideSteady DEF IInv

LEMMA QuietFacts ==
    /\ Quiet \in PType /\ Quiet.pc = "Loop" /\ Quiet.pipe = "none"
    /\ ~Quiet.sess /\ ~Quiet.token /\ ~Quiet.fresh
    /\ Failed \in PType /\ Failed.pc = "Fail" /\ Failed.pipe = "none"
    /\ ~Failed.sess /\ ~Failed.token /\ ~Failed.fresh
    /\ Outside("Loop") /\ Outside("Fail")
    /\ "Loop" \notin Carries /\ "Fail" \notin Carries
<1>1. /\ Quiet \in PType /\ Quiet.pc = "Loop" /\ Quiet.pipe = "none"
      /\ ~Quiet.sess /\ ~Quiet.token /\ ~Quiet.fresh
  BY DEF Quiet, PType, Pcs, Ends
<1>2. /\ Failed \in PType /\ Failed.pc = "Fail" /\ Failed.pipe = "none"
      /\ ~Failed.sess /\ ~Failed.token /\ ~Failed.fresh
  BY <1>1 DEF Failed, PType, Pcs
<1> QED BY <1>1, <1>2 DEF Outside, Pcs, Inside, Carries

LEMMA PrepareFailsKeeps ==
    ASSUME IInv, Outside(p.pc), PrepareFails, UNCHANGED lock, Elsewhere, Quietly
    PROVE  IInv'
<1>1. Types /\ cam \in CamType /\ p' = Quiet
      /\ UNCHANGED <<control, announced, r, deskVars>>
  BY DEF IInv, Types, PrepareFails, Elsewhere
<1>2. CASE p.sess
  <2>1. EndSession(cam)
    BY <1>2 DEF PrepareFails, ResetIfCurrent
  <2>2. /\ cam'.running = cam.running /\ cam'.alive = cam.alive
        /\ cam'.transitioning = cam.transitioning
    BY <1>1, <2>1, ResetFacts DEF EndSession
  <2>3. GateShape' /\ RunShape' /\ SampleWithinRun'
    BY <1>1, <2>2, QuietFacts, OutsideSteady
  <2>4. /\ r' \in RType
        /\ lock' \in {"free", "control", "preparer", "request"}
        /\ control' \in {"idle", "start", "started", "stop", "reset", "stopped",
                         "leave", "join", "gone"}
        /\ announced' \in BOOLEAN
    BY <1>1 DEF Types
  <2> QED BY <1>1, <2>1, <2>3, <2>4, QuietFacts, EndSessionKeeps
<1>3. CASE ~p.sess
  <2>1. UNCHANGED <<cam, out>>
    BY <1>3 DEF PrepareFails, ResetIfCurrent
  <2> QED BY <1>1, <2>1, QuietFacts, MovesKeep
<1> QED BY <1>2, <1>3

LEMMA GiveUpKeeps ==
    ASSUME IInv, Outside(p.pc), GiveUp, UNCHANGED lock, Elsewhere, Quietly
    PROVE  IInv'
<1>1. cam' = cam /\ cam \in CamType /\ out' = out /\ p' = Quiet
  BY DEF GiveUp, IInv, Types
<1> QED BY <1>1, QuietFacts, MovesKeep

LEMMA GoToFacts ==
    ASSUME Types, NEW pc \in Pcs, GoTo(pc)
    PROVE  /\ p' \in PType /\ p'.pc = pc /\ p'.pipe = p.pipe /\ p'.sess = p.sess
           /\ p'.token = p.token /\ p'.fresh = p.fresh
BY DEF Types, GoTo, PType

(* What the client's messages other than Imported and Released change.      *)
LEMMA QuietWrites ==
    ASSUME IInv, NEW m \in {"Demand", "Ready", "Close", "Rejected"},
           link' = link,
           toServer' = toServer \/ (p.pipe = "live" /\ toServer' = Append(toServer, m)),
           toClient' = toClient
               \/ (p.pipe = "live" /\ toClient # <<>> /\ toClient' = Tail(toClient))
    PROVE  Quietly
<1>1. Types /\ LinkShape /\ SurfaceShape /\ toServer \in Seq(ToServer)
      /\ toClient \in Seq(ToClient)
  BY DEF IInv, Types
<1>2. p.pipe = "live" => link = "up"
  BY <1>1, OpenEnds DEF LinkShape
<1>3. m \in ToServer /\ m \notin {"Imported", "Released"}
  BY DEF ToServer
<1>4. /\ toServer' \in Seq(ToServer)
      /\ \A x \in {"Imported", "Released"} : /\ Says(x, toServer') => Says(x, toServer)
                                             /\ SaysOnce(x, toServer')
  <2>1. CASE toServer' = toServer
    BY <1>1, <2>1 DEF SurfaceShape
  <2>2. CASE toServer' = Append(toServer, m)
    BY <1>1, <1>3, <2>2, AppendFacts DEF SurfaceShape
  <2> QED BY <2>1, <2>2
<1>5. /\ toClient' \in Seq(ToClient)
      /\ Offers(toClient') => Offers(toClient)
      /\ OffersOnce(toClient')
      /\ OffersFresh(toClient) => OffersFresh(toClient')
  <2>1. OffersOnce(toClient)
    BY <1>1 DEF SurfaceShape
  <2>2. CASE toClient' = toClient
    BY <1>1, <2>1, <2>2
  <2>3. CASE toClient # <<>> /\ toClient' = Tail(toClient)
    BY <1>1, <2>1, <2>3, OfferTaken
  <2> QED BY <2>2, <2>3
<1>6. link # "up" => UNCHANGED <<toServer, toClient>>
  BY <1>2
<1> QED BY <1>4, <1>5, <1>6 DEF Quietly

LEMMA ReadyAndClose ==
    ASSUME NEW q \in Seq(ToServer)
    PROVE  /\ q \o <<"Ready", "Close">> \in Seq(ToServer)
           /\ \A x \in {"Imported", "Released"} :
                  /\ Says(x, q \o <<"Ready", "Close">>) => Says(x, q)
                  /\ SaysOnce(x, q) => SaysOnce(x, q \o <<"Ready", "Close">>)
<1> DEFINE t == <<"Ready", "Close">>
           c == q \o t
<1>1. t \in Seq(ToServer) /\ Len(t) = 2 /\ t[1] = "Ready" /\ t[2] = "Close"
  BY DEF ToServer
<1>2. /\ c \in Seq(ToServer) /\ Len(c) = Len(q) + 2 /\ Len(q) \in Nat
      /\ \A i \in 1..Len(q) + 2 : c[i] = IF i <= Len(q) THEN q[i] ELSE t[i - Len(q)]
  BY <1>1, ConcatProperties, LenProperties
<1>3. \A i \in 1..Len(q) + 2 : c[i] \in {"Imported", "Released"} =>
          i \in 1..Len(q) /\ c[i] = q[i]
  <2> SUFFICES ASSUME NEW i \in 1..Len(q) + 2, c[i] \in {"Imported", "Released"}
               PROVE  i \in 1..Len(q) /\ c[i] = q[i]
    OBVIOUS
  <2>1. CASE i <= Len(q)
    BY <1>2, <2>1
  <2>2. CASE ~(i <= Len(q))
    <3>1. i - Len(q) \in {1, 2} /\ c[i] = t[i - Len(q)]
      BY <1>2, <2>2
    <3> QED BY <1>1, <3>1
  <2> QED BY <2>1, <2>2
<1> QED BY <1>2, <1>3 DEF Says, SaysOnce

LEMMA ChooseWorkKeeps ==
    ASSUME IInv, ChooseWork
    PROVE  IInv'
<1>1. PICK pc \in {"Done", "Pop", "Connect"} : GoTo(pc)
  BY DEF ChooseWork
<1>2. /\ p.pc = "Loop" /\ UNCHANGED <<cam, lock, out, link, toServer, toClient>>
      /\ Elsewhere /\ Types /\ cam' \in CamType
  BY DEF ChooseWork, pipeVars, IInv, Types
<1>3. pc \in Pcs /\ pc \notin Carries /\ Outside(pc) /\ Outside(p.pc)
  BY <1>1, <1>2 DEF Pcs, Carries, Outside, Inside
<1> QED BY <1>1, <1>2, <1>3, GoToFacts, QuietlyItself, MovesKeep

LEMMA ConnectKeeps ==
    ASSUME IInv, Connect
    PROVE  IInv'
<1> DEFINE captured(end) == [p EXCEPT !.pc = "Token", !.pipe = end,
                                      !.life = TRUE, !.sess = TRUE]
<1>1. /\ Types /\ LinkShape /\ SessionShape /\ SurfaceShape /\ ContentShape
      /\ p.pc = "Connect" /\ UNCHANGED <<lock, out, toServer, toClient>> /\ Elsewhere
      /\ UNCHANGED <<control, announced, r, w, owner, latest, signal, desktop>>
      /\ cam \in CamType /\ p \in PType
  BY DEF IInv, Types, Connect, Elsewhere, deskVars
<1>2. Outside("Connect") /\ Outside("Token") /\ "Token" \notin Carries /\ "Token" \in Pcs
  BY DEF Outside, Pcs, Inside, Carries
<1>3. CASE p' = Quiet /\ UNCHANGED <<cam, link>>
  <2>1. Quietly
    BY <1>1, <1>3, QuietlyItself
  <2> QED BY <1>1, <1>2, <1>3, <2>1, QuietFacts, MovesKeep
<1>4. CASE /\ ~(~cam.native \/ (cam.pipe = "none" /\ link # "listening"))
           /\ cam.pipe = "none"
  <2>1. p' = captured("live") /\ cam' = [cam EXCEPT !.pipe = "live"] /\ link' = "up"
        /\ link = "listening"
    BY <1>4 DEF Connect
  <2>2. /\ p' \in PType /\ p'.pc = "Token" /\ p'.pipe = "live" /\ p'.sess
        /\ p'.token = p.token
    BY <1>1, <1>2, <2>1 DEF PType, Ends
  <2>3. /\ cam' \in CamType /\ cam'.pipe = "live" /\ cam'.prepared = cam.prepared
        /\ cam'.running = cam.running /\ cam'.alive = cam.alive
        /\ cam'.transitioning = cam.transitioning
    BY <1>1, <2>1 DEF CamType, Ends
  <2>4. ~ClientOpen /\ toServer = <<>> /\ toClient = <<>>
    BY <1>1, <2>1 DEF LinkShape
  <2>5. ~PreparerHolds' /\ ~PreparedHolds' /\ ~SampleHolds'
    BY <1>1, <1>2, <2>2, <2>3, <2>4, OpenEnds
       DEF PreparerHolds, PreparedHolds, SampleHolds
  <2>6. cam.prepared = {} /\ \A s \in out : ~s.sess
    <3>1. cam.prepared = {}
      BY <1>1, <1>4 DEF SessionShape
    <3>2. \A s \in out : ~s.sess
      BY <1>1, <1>4 DEF SessionShape
    <3> QED BY <3>1, <3>2
  <2>7. SessionShape'
    BY <1>1, <1>2, <2>2, <2>3, <2>6 DEF SessionShape
  <2>8. SurfaceShape'
    <3>1. HeldOnce' /\ ~Held' /\ UNCHANGED <<toServer, toClient>>
      BY <1>1, <2>5 DEF Held, HeldOnce, SampleHolds
    <3> QED BY <2>4, <2>5, <3>1, EmptyFacts DEF SurfaceShape
  <2>9. Types' /\ LinkShape'
    BY <1>1, <2>1, <2>2, <2>3 DEF Types, LinkShape
  <2>10. ContentShape'
    BY <1>1, <1>2, <2>2, <2>3 DEF ContentShape
  <2>11. GateShape' /\ RunShape' /\ SampleWithinRun'
    BY <1>1, <1>2, <2>2, <2>3, OutsideSteady
  <2> QED BY <2>7, <2>8, <2>9, <2>10, <2>11 DEF IInv
<1>5. CASE /\ ~(~cam.native \/ (cam.pipe = "none" /\ link # "listening"))
           /\ cam.pipe # "none"
  <2>1. p' = captured(cam.pipe) /\ UNCHANGED <<cam, link>>
    BY <1>5 DEF Connect
  <2>2. /\ p' \in PType /\ p'.pc = "Token" /\ p'.pipe = cam.pipe /\ p'.sess
        /\ p'.token = p.token
    BY <1>1, <1>2, <2>1, Fields DEF PType
  <2>3. /\ ~PreparerHolds'
        /\ PreparedHolds' <=> PreparedHolds
        /\ SampleHolds' <=> SampleHolds
    BY <1>1, <1>2, <2>1, <2>2 DEF PreparerHolds, PreparedHolds, SampleHolds
  <2>4. Passes
    BY <1>1, <1>2, <2>2, <2>3 DEF SurfaceShape, HeldOnce, Held, Passes
  <2>5. ClientOpen' => ClientOpen
    BY <2>1, <2>2, <2>3, OpenEnds
  <2>6. SessionShape'
    BY <1>1, <1>2, <1>5, <2>1, <2>2, <2>5 DEF SessionShape, Outside
  <2>7. LinkShape' /\ SurfaceShape'
    BY <1>1, <2>1, <2>4, <2>5, LinkKeeps, SurfaceKeeps, QuietlyItself
  <2>8. Types'
    BY <1>1, <2>1, <2>2 DEF Types
  <2>9. ContentShape'
    BY <1>1, <1>2, <2>1, <2>2 DEF ContentShape
  <2>10. GateShape' /\ RunShape' /\ SampleWithinRun'
    BY <1>1, <1>2, <2>1, <2>2, OutsideSteady
  <2> QED BY <2>6, <2>7, <2>8, <2>9, <2>10 DEF IInv
<1>6. \/ p' = Quiet /\ UNCHANGED <<cam, link>>
      \/ ~(~cam.native \/ (cam.pipe = "none" /\ link # "listening"))
  BY DEF Connect
<1> QED BY <1>3, <1>4, <1>5, <1>6

LEMMA CaptureTokenKeeps ==
    ASSUME IInv, CaptureToken
    PROVE  IInv'
<1>1. /\ Types /\ p.pc = "Token" /\ UNCHANGED <<cam, lock, out, link, toServer, toClient>>
      /\ Elsewhere /\ cam' \in CamType /\ p \in PType /\ Quietly
  BY QuietlyItself DEF CaptureToken, pipeVars, IInv, Types
<1>2. Outside("Token") /\ Outside("Demand") /\ "Demand" \notin Carries /\ "Demand" \in Pcs
  BY DEF Outside, Pcs, Inside, Carries
<1>3. CASE signal = "Live"
  <2>1. p' = [p EXCEPT !.pc = "Demand", !.token = TRUE]
    BY <1>3 DEF CaptureToken
  <2>2. p' \in PType /\ p'.pc = "Demand" /\ p'.pipe = p.pipe /\ p'.sess = p.sess
    BY <1>1, <1>2, <2>1 DEF PType
  <2> QED BY <1>1, <1>2, <1>3, <2>2, MovesKeep
<1>4. CASE signal # "Live"
  <2>1. p' = Quiet
    BY <1>4 DEF CaptureToken
  <2> QED BY <1>1, <1>2, <2>1, QuietFacts, MovesKeep
<1> QED BY <1>3, <1>4

LEMMA WriteDemandKeeps ==
    ASSUME IInv, WriteDemand
    PROVE  IInv'
<1>1. /\ Types /\ p.pc = "Demand" /\ UNCHANGED <<lock, link, toClient>> /\ Elsewhere
      /\ cam \in CamType
  BY DEF WriteDemand, IInv, Types
<1>2. /\ Outside("Demand") /\ \A pc \in {"Offer", "Hello"} :
                                   Outside(pc) /\ pc \notin Carries /\ pc \in Pcs
  BY DEF Outside, Pcs, Inside, Carries
<1>3. toServer' = toServer \/ (p.pipe = "live" /\ toServer' = Append(toServer, "Demand"))
  BY DEF WriteDemand, ClientWrites
<1>4. Quietly
  BY <1>1, <1>3, QuietWrites
<1>5. \/ GiveUp \/ PrepareFails
      \/ UNCHANGED <<cam, out>> /\ \E pc \in {"Offer", "Hello"} : GoTo(pc)
  BY DEF WriteDemand
<1>6. CASE UNCHANGED <<cam, out>> /\ \E pc \in {"Offer", "Hello"} : GoTo(pc)
  <2>1. PICK pc \in {"Offer", "Hello"} : GoTo(pc)
    BY <1>6
  <2> QED BY <1>1, <1>2, <1>4, <1>6, <2>1, GoToFacts, MovesKeep
<1> QED BY <1>1, <1>2, <1>4, <1>5, <1>6, GiveUpKeeps, PrepareFailsKeeps

LEMMA ReadHelloKeeps ==
    ASSUME IInv, ReadHello
    PROVE  IInv'
<1>1. /\ Types /\ LinkShape /\ SurfaceShape /\ p.pc = "Hello"
      /\ UNCHANGED <<lock, out, link>> /\ Elsewhere
      /\ p.pipe = "live" /\ toClient # <<>> /\ toClient' = Tail(toClient)
      /\ cam \in CamType /\ toServer \in Seq(ToServer) /\ toClient \in Seq(ToClient)
  BY DEF ReadHello, ClientReads, IInv, Types
<1>2. Outside("Hello") /\ Outside("Offer") /\ "Offer" \notin Carries /\ "Offer" \in Pcs
  BY DEF Outside, Pcs, Inside, Carries
<1>3. CASE Captured
  <2>1. cam' = [cam EXCEPT !.handshake = TRUE] /\ GoTo("Offer")
        /\ toServer' = Append(toServer, "Ready")
    BY <1>3 DEF ReadHello
  <2>2. /\ cam' \in CamType /\ cam'.pipe = cam.pipe /\ cam'.prepared = cam.prepared
        /\ cam'.running = cam.running /\ cam'.alive = cam.alive
        /\ cam'.transitioning = cam.transitioning
    BY <1>1, <2>1 DEF CamType
  <2>3. Quietly
    BY <1>1, <2>1, QuietWrites
  <2> QED BY <1>1, <1>2, <2>1, <2>2, <2>3, GoToFacts, MovesKeep
<1>4. CASE ~Captured
  <2>1. cam' = cam /\ p' = Quiet /\ toServer' = toServer \o <<"Ready", "Close">>
    BY <1>4 DEF ReadHello
  <2>2. link = "up"
    BY <1>1, OpenEnds DEF LinkShape
  <2>3. Quietly
    BY <1>1, <2>1, <2>2, ReadyAndClose, OfferTaken DEF Quietly, SurfaceShape
  <2> QED BY <1>1, <1>2, <2>1, <2>3, QuietFacts, MovesKeep
<1> QED BY <1>3, <1>4

LEMMA ClientReadFailsKeeps ==
    ASSUME IInv, ClientReadFails
    PROVE  IInv'
<1>1. /\ p.pc \in {"Hello", "Offer"} /\ PrepareFails /\ UNCHANGED <<lock, link>> /\ Elsewhere
  BY DEF ClientReadFails
<1>2. Outside(p.pc)
  BY <1>1 DEF Outside, Pcs, Inside
<1>3. /\ toServer' = toServer \/ (p.pipe = "live" /\ toServer' = Append(toServer, "Close"))
      /\ toClient' = toClient
             \/ (p.pipe = "live" /\ toClient # <<>> /\ toClient' = Tail(toClient))
  BY DEF ClientReadFails, ClientWrites
<1>4. Quietly
  BY <1>1, <1>3, QuietWrites
<1> QED BY <1>1, <1>2, <1>4, PrepareFailsKeeps

LEMMA PopKeeps ==
    ASSUME IInv, PopRequest \/ CheckPlaceholder
    PROVE  IInv'
<1>1. /\ Types /\ p.pc \in {"Pop", "Gate"}
      /\ UNCHANGED <<lock, out, link, toServer, toClient>> /\ Elsewhere
      /\ \E pc \in {"Gate", "Fail", "Take"} : GoTo(pc)
      /\ cam \in CamType /\ Quietly
  BY QuietlyItself DEF PopRequest, CheckPlaceholder, pipeVars, IInv, Types
<1>2. Outside(p.pc) /\ \A pc \in {"Gate", "Fail", "Take"} :
                           Outside(pc) /\ pc \notin Carries /\ pc \in Pcs
  BY <1>1 DEF Outside, Pcs, Inside, Carries
<1>3. /\ cam' \in CamType /\ cam'.pipe = cam.pipe /\ cam'.prepared = cam.prepared
      /\ cam'.running = cam.running /\ cam'.alive = cam.alive
      /\ cam'.transitioning = cam.transitioning
  <2>1. CASE PopRequest
    <3>1. cam' = [cam EXCEPT !.requests = IF @ > 0 THEN @ - 1 ELSE 0]
      BY <2>1 DEF PopRequest
    <3>2. cam.requests \in 0..MaxRequests /\ MaxRequests \in Nat
      BY <1>1, Fields, BoundsAssumption
    <3>3. (IF cam.requests > 0 THEN cam.requests - 1 ELSE 0) \in 0..MaxRequests
      BY <3>2
    <3> QED BY <1>1, <3>1, <3>3 DEF CamType
  <2>2. CASE CheckPlaceholder
    BY <1>1, <2>2 DEF CheckPlaceholder
  <2> QED BY <2>1, <2>2
<1>4. PICK pc \in {"Gate", "Fail", "Take"} : GoTo(pc)
  BY <1>1
<1> QED BY <1>1, <1>2, <1>3, <1>4, GoToFacts, MovesKeep

-----------------------------------------------------------------------------
(* The preparation thread with a surface.                                   *)

(* What a step needs whose surface is accounted for.                        *)
LEMMA PreparerKeeps ==
    ASSUME IInv, Elsewhere, link' = link,
           link # "up" => UNCHANGED <<toServer, toClient>>,
           toServer' \in Seq(ToServer), toClient' \in Seq(ToClient),
           cam' \in CamType, p' \in PType, out' \in SUBSET OutType,
           lock' \in {"free", "control", "preparer", "request"},
           ClientOpen' => ClientOpen,
           SessionShape', SurfaceShape', ContentShape',
           GateShape', RunShape', SampleWithinRun'
    PROVE  IInv'
<1>1. /\ Types /\ UNCHANGED <<control, announced, r, w, owner, latest, signal, desktop>>
  BY DEF IInv, Elsewhere, deskVars
<1>2. Types'
  BY <1>1 DEF Types
<1>3. LinkShape'
  BY <1>1, LinkKeeps
<1> QED BY <1>2, <1>3 DEF IInv

LEMMA StageKeeps ==
    ASSUME IInv, NEW pc \in Carries, p.pc \in Carries, GoTo(pc), Elsewhere,
           UNCHANGED <<cam, lock, out>>, Quietly,
           pc \in {"Import", "Sample"} => p.pc \in {"Import", "Sample"},
           pc \in Inside => p.pc \in Inside,
           GateShape', RunShape', SampleWithinRun'
    PROVE  IInv'
<1>1. /\ Types /\ SessionShape /\ SurfaceShape /\ ContentShape
      /\ UNCHANGED <<w, owner, latest, signal, desktop>>
      /\ cam \in CamType /\ out \in SUBSET OutType
      /\ lock \in {"free", "control", "preparer", "request"}
  BY DEF IInv, Types, Elsewhere, deskVars
<1>2. pc \in Pcs
  BY DEF Carries, Pcs
<1>3. /\ p' \in PType /\ p'.pc = pc /\ p'.pipe = p.pipe /\ p'.sess = p.sess
      /\ p'.token = p.token /\ p'.fresh = p.fresh
  BY <1>1, <1>2, GoToFacts
<1>4. /\ PreparerHolds' <=> PreparerHolds
      /\ PreparedHolds' <=> PreparedHolds
      /\ SampleHolds' <=> SampleHolds
  BY <1>3 DEF PreparerHolds, PreparedHolds, SampleHolds
<1>5. Passes
  BY <1>1, <1>3, <1>4 DEF SurfaceShape, HeldOnce, Held, Passes
<1>6. ClientOpen' <=> ClientOpen
  BY <1>3, <1>4, OpenEnds
<1>7. SessionShape'
  BY <1>1, <1>3, <1>6 DEF SessionShape
<1>8. SurfaceShape'
  BY <1>1, <1>5, SurfaceKeeps
<1>9. ContentShape'
  <2>1. p'.token => signal = "Live" /\ (p'.pc \in Carries => p'.fresh)
    BY <1>1, <1>3 DEF ContentShape
  <2>2. \A s \in cam'.prepared : s.token => signal = "Live" /\ s.fresh
    BY <1>1 DEF ContentShape
  <2> QED BY <1>1, <2>1, <2>2, ContentKeeps DEF Quietly
<1> QED BY <1>1, <1>3, <1>6, <1>7, <1>8, <1>9, PreparerKeeps DEF Quietly

(* The surface changes hands: the desktop's offer is taken.                 *)
LEMMA ReadOfferKeeps ==
    ASSUME IInv, ReadOffer
    PROVE  IInv'
<1>1. /\ Types /\ LinkShape /\ SessionShape /\ SurfaceShape /\ ContentShape
      /\ p.pc = "Offer" /\ UNCHANGED <<cam, lock, out, link, toServer>> /\ Elsewhere
      /\ UNCHANGED <<control, announced, r, w, owner, latest, signal, desktop>>
      /\ p.pipe = "live" /\ toClient # <<>> /\ toClient' = Tail(toClient)
      /\ Head(toClient).type = "Offer"
      /\ cam \in CamType /\ p \in PType /\ out \in SUBSET OutType
      /\ toServer \in Seq(ToServer) /\ toClient \in Seq(ToClient)
      /\ lock \in {"free", "control", "preparer", "request"}
  BY DEF ReadOffer, ClientReads, IInv, Types, Elsewhere, deskVars
<1>2. /\ Outside("Offer") /\ Outside("Import") /\ "Import" \in Carries /\ "Import" \in Pcs
      /\ "Import" \notin Inside
  BY DEF Outside, Pcs, Inside, Carries
<1>3. CASE Captured
  <2>1. p' = [p EXCEPT !.pc = "Import", !.fresh = Head(toClient).fresh]
    BY <1>3 DEF ReadOffer
  <2>2. /\ toClient' \in Seq(ToClient) /\ Head(toClient) \in ToClient
        /\ Offers(toClient) /\ ~Offers(toClient') /\ OffersOnce(toClient')
        /\ OffersFresh(toClient) => OffersFresh(toClient') /\ Head(toClient).fresh
    <3>1. OffersOnce(toClient)
      BY <1>1 DEF SurfaceShape
    <3> QED BY <1>1, <3>1, OfferTaken
  <2>3. Head(toClient).fresh \in BOOLEAN
    BY <2>2 DEF ToClient
  <2>4. /\ p' \in PType /\ p'.pc = "Import" /\ p'.pipe = p.pipe /\ p'.sess = p.sess
        /\ p'.token = p.token /\ p'.fresh = Head(toClient).fresh
    BY <1>1, <1>2, <2>1, <2>3 DEF PType
  <2>5. /\ PreparedHolds' <=> PreparedHolds
        /\ SampleHolds' <=> SampleHolds
    BY <1>1 DEF PreparedHolds, SampleHolds
  <2>6. link = "up"
    BY <1>1, OpenEnds DEF LinkShape
  <2>7. /\ w.pc = "Imported" /\ ~Says("Imported", toServer) /\ ~Says("Released", toServer)
        /\ ~Held
    BY <1>1, <2>2, <2>6 DEF SurfaceShape
  <2>8. HeldOnce'
    BY <1>1, <2>5, <2>7 DEF SurfaceShape, HeldOnce, Held
  <2>9. SurfaceShape'
    BY <1>1, <2>2, <2>7, <2>8 DEF SurfaceShape, Away
  <2>10. ClientOpen' <=> ClientOpen
    BY <1>1, <2>4, <2>5, OpenEnds
  <2>11. SessionShape'
    BY <1>1, <1>2, <2>4, <2>10 DEF SessionShape
  <2>12. ContentShape'
    <3>1. signal = "Live" => OffersFresh(toClient)
      BY <1>1 DEF ContentShape
    <3>2. p'.token => signal = "Live" /\ (p'.pc \in Carries => p'.fresh)
      BY <1>1, <2>2, <2>4, <3>1 DEF ContentShape
    <3>3. \A s \in cam'.prepared : s.token => signal = "Live" /\ s.fresh
      BY <1>1 DEF ContentShape
    <3> QED BY <1>1, <2>2, <3>2, <3>3, ContentKeeps
  <2>13. GateShape' /\ RunShape' /\ SampleWithinRun'
    BY <1>1, <1>2, <2>4, OutsideSteady
  <2> QED BY <1>1, <2>2, <2>4, <2>6, <2>9, <2>10, <2>11, <2>12, <2>13, PreparerKeeps
<1>4. CASE ~Captured
  <2>1. p' = Quiet
    BY <1>4 DEF ReadOffer
  <2>2. Quietly
    BY <1>1, QuietWrites
  <2> QED BY <1>1, <1>2, <2>1, <2>2, QuietFacts, MovesKeep
<1> QED BY <1>3, <1>4

LEMMA ImportKeeps ==
    ASSUME IInv, Import
    PROVE  IInv'
<1>1. /\ Types /\ p.pc = "Import" /\ UNCHANGED <<lock, link, toClient>> /\ Elsewhere
      /\ \/ GoTo("Sample") /\ UNCHANGED <<cam, out, toServer>>
         \/ PrepareFails /\ ClientWrites("Rejected")
  BY DEF Import, IInv, Types
<1>2. /\ Outside("Import") /\ Outside("Sample") /\ "Import" \in Carries
      /\ "Sample" \in Carries /\ "Sample" \in Pcs /\ "Sample" \notin Inside
  BY DEF Outside, Pcs, Inside, Carries
<1>3. CASE GoTo("Sample") /\ UNCHANGED <<cam, out, toServer>>
  <2>1. p'.pc = "Sample"
    BY <1>1, <1>2, <1>3, GoToFacts
  <2>2. GateShape' /\ RunShape' /\ SampleWithinRun'
    BY <1>1, <1>2, <1>3, <2>1, OutsideSteady
  <2>3. Quietly
    BY <1>1, <1>3, QuietlyItself
  <2> QED BY <1>1, <1>2, <1>3, <2>2, <2>3, StageKeeps
<1>4. CASE PrepareFails /\ ClientWrites("Rejected")
  <2>1. Quietly
    BY <1>1, <1>4, QuietWrites DEF ClientWrites
  <2> QED BY <1>1, <1>2, <1>4, <2>1, PrepareFailsKeeps
<1> QED BY <1>1, <1>3, <1>4

(* The desktop is told that its surface has been imported.                  *)
LEMMA WriteImportedKeeps ==
    ASSUME IInv, WriteImported
    PROVE  IInv'
<1>1. /\ Types /\ LinkShape /\ SessionShape /\ SurfaceShape /\ ContentShape
      /\ p.pc = "Sample" /\ UNCHANGED <<lock, link, toClient>> /\ Elsewhere
      /\ UNCHANGED <<control, announced, r, w, owner, latest, signal, desktop>>
      /\ cam \in CamType /\ p \in PType /\ out \in SUBSET OutType
      /\ toServer \in Seq(ToServer) /\ toClient \in Seq(ToClient)
      /\ lock \in {"free", "control", "preparer", "request"}
  BY DEF WriteImported, IInv, Types, Elsewhere, deskVars
<1>2. /\ Outside("Sample") /\ Outside("Store") /\ "Sample" \in Carries
      /\ "Store" \in Carries /\ "Store" \in Pcs /\ "Store" \notin Inside
  BY DEF Outside, Pcs, Inside, Carries
<1>3. CASE p.pipe = "live"
  <2>1. GoTo("Store") /\ UNCHANGED <<cam, out>> /\ toServer' = Append(toServer, "Imported")
    BY <1>3 DEF WriteImported, ClientWrites
  <2>2. /\ p' \in PType /\ p'.pc = "Store" /\ p'.pipe = p.pipe /\ p'.sess = p.sess
        /\ p'.token = p.token /\ p'.fresh = p.fresh
    BY <1>1, <1>2, <2>1, GoToFacts
  <2>3. /\ PreparerHolds /\ PreparerHolds'
        /\ PreparedHolds' <=> PreparedHolds
        /\ SampleHolds' <=> SampleHolds
    BY <1>1, <1>2, <1>3, <2>1, <2>2 DEF PreparerHolds, PreparedHolds, SampleHolds
  <2>4. link = "up"
    BY <1>1, <1>3, OpenEnds DEF LinkShape
  <2>5. /\ w.pc = "Imported" /\ ~Says("Imported", toServer) /\ ~Says("Released", toServer)
        /\ ~Offers(toClient)
    BY <1>1, <2>3, <2>4 DEF SurfaceShape, Held
  <2>6. /\ toServer' \in Seq(ToServer) /\ SaysOnce("Imported", toServer')
        /\ SaysOnce("Released", toServer') /\ ~Says("Released", toServer')
    <3>1. "Imported" \in ToServer /\ SaysOnce("Released", toServer)
      BY <1>1 DEF ToServer, SurfaceShape
    <3> QED BY <1>1, <2>1, <2>5, <3>1, AppendFacts
  <2>7. HeldOnce'
    BY <1>1, <2>1, <2>3 DEF SurfaceShape, HeldOnce
  <2>8. SurfaceShape'
    BY <1>1, <2>2, <2>4, <2>5, <2>6, <2>7 DEF SurfaceShape, Away
  <2>9. ClientOpen' <=> ClientOpen
    BY <2>1, <2>2, <2>3, OpenEnds
  <2>10. SessionShape'
    BY <1>1, <1>2, <2>1, <2>2, <2>9 DEF SessionShape
  <2>11. ContentShape'
    BY <1>1, <1>2, <2>1, <2>2 DEF ContentShape
  <2>12. GateShape' /\ RunShape' /\ SampleWithinRun'
    BY <1>1, <1>2, <2>1, <2>2, OutsideSteady
  <2> QED BY <1>1, <2>1, <2>2, <2>4, <2>6, <2>8, <2>9, <2>10, <2>11, <2>12, PreparerKeeps
<1>4. CASE p.pipe # "live"
  <2>1. PrepareFails /\ toServer' = toServer
    BY <1>4 DEF WriteImported
  <2>2. Quietly
    BY <1>1, <2>1, QuietlyItself
  <2> QED BY <1>1, <1>2, <2>1, <2>2, PrepareFailsKeeps
<1> QED BY <1>3, <1>4

(* The gate after a step of the preparation thread that leaves its exchange. *)
LEMMA LeavesGate ==
    ASSUME IInv, UNCHANGED <<control, announced, r>>, Outside(p'.pc),
           \/ p.pc \in Inside /\ lock' = "free"
           \/ Outside(p.pc) /\ lock' = lock,
           cam'.running = cam.running, cam'.alive = cam.alive,
           cam'.transitioning = cam.transitioning
    PROVE  /\ GateShape' /\ RunShape' /\ SampleWithinRun'
           /\ lock' \in {"free", "control", "preparer", "request"}
<1>1. GateShape /\ RunShape /\ SampleWithinRun /\ Types /\ "Queue" \in Inside
  BY DEF IInv, Inside
<1>2. p'.pc \notin Inside /\ (Outside(p.pc) => p.pc \notin Inside)
  BY DEF Outside
<1>3. GateShape'
  BY <1>1, <1>2 DEF GateShape
<1>4. RunShape'
  BY <1>1 DEF RunShape, GateShape
<1>5. SampleWithinRun'
  BY <1>1, <1>2 DEF SampleWithinRun
<1>6. lock' \in {"free", "control", "preparer", "request"}
  BY <1>1 DEF Types
<1> QED BY <1>3, <1>4, <1>5, <1>6

(* The surface goes from one place to the next, and the pipe is not used.   *)
LEMMA HandsOver ==
    ASSUME IInv, UNCHANGED <<control, announced, r, pipeVars, deskVars>>,
           cam' \in CamType, p' \in PType, out' \in SUBSET OutType,
           lock' \in {"free", "control", "preparer", "request"},
           ClientOpen' => ClientOpen, Passes, SessionShape',
           p'.token => signal = "Live" /\ (p'.pc \in Carries => p'.fresh),
           \A s \in cam'.prepared : s.token => signal = "Live" /\ s.fresh,
           GateShape', RunShape', SampleWithinRun'
    PROVE  IInv'
<1>1. /\ Types
      /\ UNCHANGED <<link, toServer, toClient, w, owner, latest, signal, desktop>>
  BY DEF IInv, pipeVars, deskVars
<1>2. Types'
  BY <1>1 DEF Types
<1>3. LinkShape'
  BY <1>1, LinkKeeps
<1>4. SurfaceShape'
  BY <1>1, SurfaceKeeps, QuietlyItself
<1>5. ContentShape'
  BY <1>1, ContentKeeps
<1> QED BY <1>2, <1>3, <1>4, <1>5 DEF IInv

LEMMA SurfaceFacts ==
    ASSUME Types, p.pc \in Carries
    PROVE  /\ Surface \in OutType /\ Surface.pipe = p.pipe /\ Surface.sess = p.sess
           /\ Surface.pipe = "live" <=> PreparerHolds
BY Fields DEF Surface, OutType, PreparerHolds

(* What the thread holds becomes a sample on its own.                       *)
LEMMA EmitsKeep ==
    ASSUME IInv, p.pc \in Carries, out' = Kept(out \cup {Surface}),
           UNCHANGED <<control, announced, r, pipeVars, deskVars>>, cam' = cam,
           p' \in {Quiet, Failed},
           \/ p.pc \in Inside /\ lock' = "free"
           \/ Outside(p.pc) /\ lock' = lock
    PROVE  IInv'
<1>1. /\ Types /\ SessionShape /\ SurfaceShape /\ ContentShape
      /\ cam \in CamType /\ out \in SUBSET OutType
      /\ UNCHANGED <<signal>>
  BY DEF IInv, Types, deskVars
<1>2. /\ p' \in PType /\ p'.pc \notin Carries /\ Outside(p'.pc) /\ p'.pipe = "none"
      /\ ~p'.sess /\ ~p'.token
  BY QuietFacts
<1>3. /\ Surface \in OutType /\ Surface.pipe = p.pipe /\ Surface.sess = p.sess
      /\ Surface.pipe = "live" <=> PreparerHolds
  BY <1>1, SurfaceFacts
<1>4. /\ \A s \in out' : (s \in out \/ s = Surface) /\ (s.sess \/ s.pipe = "live")
      /\ out' \in SUBSET OutType
  BY <1>1, <1>3 DEF Kept
<1>5. /\ ~PreparerHolds'
      /\ PreparedHolds' <=> PreparedHolds
      /\ SampleHolds' => SampleHolds \/ PreparerHolds
  BY <1>2, <1>3, <1>4 DEF PreparerHolds, PreparedHolds, SampleHolds
<1>6. \A s, t \in out' : s.pipe = "live" /\ t.pipe = "live" => s = t
  <2> SUFFICES ASSUME NEW s \in out', NEW t \in out', s.pipe = "live", t.pipe = "live"
               PROVE  s = t
    OBVIOUS
  <2>1. CASE PreparerHolds
    <3>1. ~SampleHolds
      BY <1>1, <2>1 DEF SurfaceShape, HeldOnce
    <3>2. s = Surface /\ t = Surface
      BY <1>4, <3>1 DEF SampleHolds
    <3> QED BY <3>2
  <2>2. CASE ~PreparerHolds
    <3>1. s \in out /\ t \in out
      BY <1>3, <1>4, <2>2
    <3> QED BY <1>1, <3>1 DEF SurfaceShape, HeldOnce
  <2> QED BY <2>1, <2>2
<1>7. Passes
  BY <1>1, <1>5, <1>6 DEF SurfaceShape, HeldOnce, Held, Passes
<1>8. ClientOpen' => ClientOpen
  BY <1>2, <1>3, <1>5, OpenEnds
<1>9. SessionShape'
  <2>1. \A s \in out' : s.pipe # "none" /\ (s.sess => s.pipe = cam.pipe)
                        /\ (s.sess \/ s.pipe = "live")
    BY <1>1, <1>3, <1>4 DEF SessionShape
  <2>2. p'.pc \notin Inside
    BY <1>2 DEF Outside
  <2> QED BY <1>1, <1>2, <1>8, <2>1, <2>2 DEF SessionShape
<1>10. \A s \in cam'.prepared : s.token => signal = "Live" /\ s.fresh
  BY <1>1 DEF ContentShape
<1>11. /\ GateShape' /\ RunShape' /\ SampleWithinRun'
       /\ lock' \in {"free", "control", "preparer", "request"}
  BY <1>2, LeavesGate
<1> QED BY <1>1, <1>2, <1>4, <1>7, <1>8, <1>9, <1>10, <1>11, HandsOver

(* The delivery is given up: the session, if it is still that of the sample, *)
(* ends, and the sample goes back without it.                               *)
LEMMA AbortsKeep ==
    ASSUME IInv, p.pc \in Inside, out' = Aborted(cam.prepared \cup {Surface}),
           UNCHANGED <<control, announced, r, pipeVars, deskVars>>,
           \/ cam' = Reset(cam)
           \/ ~p.sess /\ cam' = cam,
           p' = Failed, lock' = "free"
    PROVE  IInv'
<1>1. /\ Types /\ SessionShape /\ SurfaceShape /\ ContentShape
      /\ cam \in CamType /\ p.pc \in Carries /\ UNCHANGED <<signal>>
  BY DEF IInv, Types, deskVars, Inside, Carries
<1>2. /\ p' \in PType /\ p'.pc \notin Carries /\ Outside(p'.pc) /\ p'.pipe = "none"
      /\ ~p'.sess /\ ~p'.token
  BY QuietFacts
<1>3. /\ Surface \in OutType /\ Surface.pipe = p.pipe /\ Surface.pipe \in Ends
      /\ Surface.pipe = "live" <=> PreparerHolds
  BY <1>1, SurfaceFacts, Fields
<1>4. cam.prepared = {}
  BY <1>1 DEF SessionShape
<1>5. /\ out' \in SUBSET OutType
      /\ \A s \in out' : s.pipe = "live" /\ ~s.sess /\ (SampleHolds \/ PreparerHolds)
      /\ \A s, t \in out' : s = t
  <2>1. \A s \in {Surface} : s.pipe \in Ends
    BY <1>3
  <2>2. out' = Aborted({Surface})
    BY <1>4
  <2>3. /\ out' \in SUBSET OutType
        /\ \A s \in out' : /\ s.pipe = "live" /\ ~s.sess
                           /\ \E t \in out \cup {Surface} : t.pipe = "live"
        /\ \A s, t \in out' : s = t
    BY <1>1, <2>1, <2>2, AbortedFacts
  <2> QED BY <1>3, <2>3 DEF SampleHolds
<1>6. /\ cam' \in CamType /\ cam'.prepared = {} /\ cam'.pipe \in {"none", cam.pipe}
      /\ cam'.running = cam.running /\ cam'.alive = cam.alive
      /\ cam'.transitioning = cam.transitioning
  <2>1. {} \in SUBSET Offered /\ "none" \in Ends /\ 0 \in 0..MaxRequests
    BY BoundsAssumption DEF Ends
  <2>2. CASE cam' = Reset(cam)
    BY <1>1, <2>1, <2>2 DEF Reset, CamType
  <2>3. CASE cam' = cam
    BY <1>1, <1>4, <2>3
  <2> QED BY <2>2, <2>3
<1>7. /\ ~PreparerHolds' /\ ~PreparedHolds'
      /\ SampleHolds' => SampleHolds \/ PreparerHolds
  BY <1>2, <1>5, <1>6 DEF PreparerHolds, PreparedHolds, SampleHolds
<1>8. Passes
  BY <1>2, <1>5, <1>7 DEF HeldOnce, Held, Passes, Carries
<1>9. ClientOpen' => ClientOpen
  BY <1>2, <1>3, <1>6, <1>7, OpenEnds DEF PreparerHolds
<1>10. SessionShape'
  BY <1>1, <1>2, <1>5, <1>6, <1>9 DEF SessionShape, Outside
<1>11. /\ GateShape' /\ RunShape' /\ SampleWithinRun'
       /\ lock' \in {"free", "control", "preparer", "request"}
  BY <1>2, <1>6, LeavesGate
<1> QED BY <1>2, <1>5, <1>6, <1>8, <1>9, <1>10, <1>11, HandsOver

LEMMA StorePreparedKeeps ==
    ASSUME IInv, StorePrepared
    PROVE  IInv'
<1>1. /\ Types /\ SessionShape /\ SurfaceShape /\ ContentShape
      /\ cam \in CamType /\ out \in SUBSET OutType
      /\ p.pc = "Store" /\ p.pc \in Carries /\ Outside(p.pc) /\ p' = Quiet /\ lock' = lock
      /\ UNCHANGED <<control, announced, r, pipeVars, deskVars>>
  BY DEF StorePrepared, Elsewhere, IInv, Types, Carries, Outside, Pcs, Inside
<1>2. \/ cam' = cam /\ out' = Kept(out \cup {Surface})
      \/ /\ Captured /\ cam.prepared = {} /\ out' = out
         /\ cam' = [cam EXCEPT !.prepared = {[pipe |-> p.pipe, life |-> TRUE,
                                              token |-> p.token, fresh |-> p.fresh]}]
  BY DEF StorePrepared
<1>3. CASE cam' = cam /\ out' = Kept(out \cup {Surface})
  BY <1>1, <1>3, EmitsKeep
<1> DEFINE stored == [pipe |-> p.pipe, life |-> TRUE, token |-> p.token, fresh |-> p.fresh]
<1>4. CASE /\ Captured /\ cam.prepared = {} /\ out' = out
           /\ cam' = [cam EXCEPT !.prepared = {stored}]
  <2>1. /\ stored \in Offered /\ stored.pipe = p.pipe /\ stored.token = p.token
        /\ stored.fresh = p.fresh
        /\ Captured /\ cam.prepared = {} /\ out' = out
    BY <1>1, <1>4, Fields DEF Offered
  <2>2. /\ cam' \in CamType /\ cam'.prepared = {stored} /\ cam'.pipe = cam.pipe
        /\ cam'.running = cam.running /\ cam'.alive = cam.alive
        /\ cam'.transitioning = cam.transitioning
    BY <1>1, <1>4, <2>1 DEF CamType
  <2>3. /\ p' \in PType /\ p'.pc \notin Carries /\ Outside(p'.pc) /\ p'.pipe = "none"
        /\ ~p'.sess /\ ~p'.token
    BY <1>1, QuietFacts
  <2>4. p.sess /\ p.pipe = cam.pipe /\ p.pipe # "none"
    BY <1>1, <2>1 DEF Captured, SessionShape
  <2> HIDE DEF stored
  <2>5. /\ ~PreparerHolds'
        /\ PreparedHolds' <=> PreparerHolds
        /\ SampleHolds' <=> SampleHolds
    BY <1>1, <2>1, <2>2, <2>3 DEF PreparerHolds, PreparedHolds, SampleHolds
  <2>6. Passes
    BY <1>1, <2>1, <2>3, <2>5 DEF SurfaceShape, HeldOnce, Held, Passes
  <2>7. ClientOpen' => ClientOpen
    BY <2>2, <2>3, <2>5, OpenEnds DEF PreparerHolds
  <2>8. SessionShape'
    BY <1>1, <2>1, <2>2, <2>3, <2>4, <2>7 DEF SessionShape, Outside
  <2>9. \A s \in cam'.prepared : s.token => signal = "Live" /\ s.fresh
    BY <1>1, <2>1, <2>2 DEF ContentShape
  <2>10. /\ GateShape' /\ RunShape' /\ SampleWithinRun'
         /\ lock' \in {"free", "control", "preparer", "request"}
    BY <1>1, <2>2, <2>3, LeavesGate
  <2> QED BY <1>1, <2>1, <2>2, <2>3, <2>6, <2>7, <2>8, <2>9, <2>10, HandsOver
<1> QED BY <1>2, <1>3, <1>4

(* The prepared sample is taken: into the gate, or out of the source when   *)
(* the stream has been started again since.                                 *)
LEMMA TakePreparedKeeps ==
    ASSUME IInv, TakePrepared
    PROVE  IInv'
<1>1. /\ Types /\ GateShape /\ RunShape /\ SampleWithinRun
      /\ SessionShape /\ SurfaceShape /\ ContentShape
      /\ cam \in CamType /\ out \in SUBSET OutType
      /\ p.pc = "Take" /\ Outside(p.pc) /\ p.pc \notin Carries /\ lock = "free"
      /\ Elsewhere /\ UNCHANGED <<control, announced, r, pipeVars, deskVars>>
      /\ UNCHANGED <<link, toServer, toClient>>
  BY DEF TakePrepared, Elsewhere, IInv, Types, Carries, Outside, Pcs, Inside, pipeVars
<1>2. CASE ~(Flows /\ cam.prepared # {})
  <2>1. p' = Failed /\ UNCHANGED <<cam, lock, out>>
    BY <1>2 DEF TakePrepared
  <2> QED BY <1>1, <2>1, QuietFacts, QuietlyItself, MovesKeep
<1>3. CASE Flows /\ cam.prepared # {}
  <2>1. PICK s \in cam.prepared :
           IF s.life
           THEN /\ p' = [pc |-> "Admit", pipe |-> s.pipe, life |-> TRUE,
                         sess |-> TRUE, token |-> s.token, fresh |-> s.fresh]
                /\ lock' = "preparer" /\ out' = out
           ELSE /\ p' = Failed /\ lock' = lock
                /\ out' = Kept(out \cup {[pipe |-> s.pipe, sess |-> TRUE]})
    BY <1>3 DEF TakePrepared
  <2>2. cam' = [cam EXCEPT !.prepared = {}, !.inflight = TRUE]
    BY <1>3 DEF TakePrepared
  <2>3. /\ cam' \in CamType /\ cam'.prepared = {} /\ cam'.pipe = cam.pipe
        /\ cam'.running = cam.running /\ cam'.alive = cam.alive
        /\ cam'.transitioning = cam.transitioning
    BY <1>1, <2>2 DEF CamType
  <2>4. /\ s.pipe = cam.pipe /\ s.pipe # "none" /\ s.pipe \in Ends
        /\ s.token \in BOOLEAN /\ s.fresh \in BOOLEAN
        /\ s.pipe = "live" <=> PreparedHolds
    BY <1>1, <2>1, Fields DEF SessionShape, PreparedHolds
  <2>5. ~PreparerHolds /\ ~PreparedHolds'
    BY <1>1, <2>3 DEF PreparerHolds, PreparedHolds
  <2>6. CASE s.life
    <3>1. /\ p' = [pc |-> "Admit", pipe |-> s.pipe, life |-> TRUE,
                   sess |-> TRUE, token |-> s.token, fresh |-> s.fresh]
          /\ lock' = "preparer" /\ out' = out
      BY <2>1, <2>6
    <3>2. p' \in PType /\ p'.pc = "Admit" /\ p'.pipe = s.pipe /\ p'.token = s.token
          /\ p'.fresh = s.fresh
      BY <2>4, <3>1 DEF PType, Pcs
    <3>3. /\ PreparerHolds' <=> PreparedHolds
          /\ SampleHolds' <=> SampleHolds
      BY <2>4, <3>1, <3>2 DEF PreparerHolds, SampleHolds, Carries
    <3>4. Passes
      BY <1>1, <2>5, <3>1, <3>2, <3>3 DEF SurfaceShape, HeldOnce, Held, Passes
    <3>5. ClientOpen' => ClientOpen
      BY <2>3, <2>4, <2>5, <3>2, <3>3, OpenEnds
    <3>6. SessionShape'
      BY <1>1, <2>3, <2>4, <3>1, <3>2, <3>5 DEF SessionShape
    <3>7. p'.token => signal = "Live" /\ (p'.pc \in Carries => p'.fresh)
      BY <1>1, <3>2 DEF ContentShape
    <3>8. GateShape' /\ RunShape' /\ SampleWithinRun'
      <4>1. GateShape'
        BY <1>1, <2>3, <3>1, <3>2 DEF GateShape, Inside
      <4>2. RunShape'
        BY <1>1, <2>3, <3>1 DEF RunShape
      <4>3. SampleWithinRun'
        BY <1>1, <2>3, <3>2 DEF SampleWithinRun
      <4> QED BY <4>1, <4>2, <4>3
    <3> QED BY <1>1, <2>3, <3>1, <3>2, <3>4, <3>5, <3>6, <3>7, <3>8, HandsOver
  <2>7. CASE ~s.life
    <3> DEFINE t == [pipe |-> s.pipe, sess |-> TRUE]
    <3>1. p' = Failed /\ lock' = lock /\ out' = Kept(out \cup {t})
      BY <2>1, <2>7
    <3>2. /\ p' \in PType /\ p'.pc \notin Carries /\ Outside(p'.pc) /\ p'.pipe = "none"
          /\ ~p'.sess /\ ~p'.token
      BY <3>1, QuietFacts
    <3>3. t \in OutType /\ t.pipe = s.pipe /\ t.sess
      BY <2>4 DEF OutType
    <3>4. /\ \A u \in out' : (u \in out \/ u = t) /\ (u.sess \/ u.pipe = "live")
          /\ out' \in SUBSET OutType
      BY <1>1, <3>1, <3>3 DEF Kept
    <3>5. /\ ~PreparerHolds'
          /\ SampleHolds' => SampleHolds \/ PreparedHolds
      BY <2>4, <3>2, <3>3, <3>4 DEF PreparerHolds, SampleHolds
    <3>6. \A u, v \in out' : u.pipe = "live" /\ v.pipe = "live" => u = v
      BY <1>1, <2>4, <3>3, <3>4 DEF SurfaceShape, HeldOnce, SampleHolds
    <3>7. Passes
      BY <1>1, <2>5, <3>2, <3>5, <3>6 DEF SurfaceShape, HeldOnce, Held, Passes
    <3>8. ClientOpen' => ClientOpen
      BY <2>3, <2>5, <3>2, <3>5, OpenEnds
    <3>9. SessionShape'
      <4>1. \A u \in out' : u.pipe # "none" /\ (u.sess => u.pipe = cam.pipe)
                            /\ (u.sess \/ u.pipe = "live")
        BY <1>1, <2>4, <3>3, <3>4 DEF SessionShape
      <4> QED BY <1>1, <2>3, <3>2, <3>8, <4>1 DEF SessionShape, Outside
    <3>10. /\ GateShape' /\ RunShape' /\ SampleWithinRun'
           /\ lock' \in {"free", "control", "preparer", "request"}
      BY <1>1, <2>3, <3>1, <3>2, LeavesGate
    <3> QED BY <1>1, <2>3, <3>2, <3>4, <3>7, <3>8, <3>9, <3>10, HandsOver
  <2> QED BY <2>6, <2>7
<1> QED BY <1>2, <1>3

-----------------------------------------------------------------------------
(* The gate: admission, the last check, the event.                          *)

LEMMA DeliveryKeeps ==
    ASSUME IInv, AdmitLive \/ Recheck \/ QueueSample \/ QueueSampleFails
    PROVE  IInv'
<1>1. /\ Types /\ GateShape /\ RunShape /\ SampleWithinRun
      /\ p.pc \in Inside /\ p.pc \in Carries
      /\ UNCHANGED <<control, announced, r, pipeVars, deskVars>>
      /\ UNCHANGED <<link, toServer, toClient>>
  BY DEF AdmitLive, Recheck, QueueSample, QueueSampleFails, IInv, Elsewhere, Inside,
         Carries, pipeVars
<1>2. Quietly
  BY <1>1, QuietlyItself
<1>3. CASE AdmitLive /\ TokenHolds
  <2>1. p.pc = "Admit" /\ GoTo("Recheck") /\ UNCHANGED <<cam, lock, out>> /\ Elsewhere
    BY <1>3 DEF AdmitLive
  <2>2. "Recheck" \in Pcs /\ "Recheck" \in Carries /\ "Recheck" \in Inside
        /\ "Recheck" \notin {"Import", "Sample"}
    BY DEF Pcs, Carries, Inside
  <2>3. p'.pc = "Recheck"
    BY <1>1, <2>1, <2>2, GoToFacts
  <2>4. Steady
    BY <1>1, <2>1, <2>2, <2>3 DEF Steady
  <2>5. GateShape' /\ RunShape' /\ SampleWithinRun'
    BY <2>4, SteadyKeeps
  <2> QED BY <1>1, <1>2, <2>1, <2>2, <2>5, StageKeeps
<1>4. CASE AdmitLive /\ ~TokenHolds
  <2>1. /\ cam' = Reset(cam) /\ out' = Aborted(cam.prepared \cup {Surface})
        /\ p' = Failed /\ lock' = "free"
    BY <1>4 DEF AdmitLive
  <2> QED BY <1>1, <2>1, AbortsKeep
<1>5. CASE Recheck /\ Captured /\ Flows
  <2>1. p.pc = "Recheck" /\ GoTo("Queue") /\ UNCHANGED <<cam, lock, out>> /\ Elsewhere
    BY <1>5 DEF Recheck
  <2>2. "Queue" \in Pcs /\ "Queue" \in Carries /\ "Queue" \in Inside
        /\ "Queue" \notin {"Import", "Sample"}
    BY DEF Pcs, Carries, Inside
  <2>3. p'.pc = "Queue"
    BY <1>1, <2>1, <2>2, GoToFacts
  <2>4. cam.running /\ cam.alive /\ announced
    BY <1>1, <1>5 DEF Flows, RunShape, GateShape
  <2>5. GateShape' /\ RunShape' /\ SampleWithinRun'
    <3>1. GateShape'
      BY <1>1, <2>1, <2>2, <2>3 DEF GateShape
    <3>2. RunShape'
      BY <1>1, <2>1 DEF RunShape
    <3>3. SampleWithinRun'
      BY <1>1, <2>1, <2>4 DEF SampleWithinRun
    <3> QED BY <3>1, <3>2, <3>3
  <2> QED BY <1>1, <1>2, <2>1, <2>2, <2>5, StageKeeps
<1>6. CASE Recheck /\ ~(Captured /\ Flows)
  <2>1. cam' = cam /\ p' = Failed /\ lock' = "free" /\ out' = Kept(out \cup {Surface})
    BY <1>6 DEF Recheck
  <2> QED BY <1>1, <2>1, EmitsKeep
<1>7. CASE QueueSample
  <2>1. cam' = cam /\ p' = Quiet /\ lock' = "free" /\ out' = Kept(out \cup {Surface})
    BY <1>7 DEF QueueSample
  <2> QED BY <1>1, <2>1, EmitsKeep
<1>8. CASE QueueSampleFails
  <2>1. /\ IF p.sess THEN cam' = Reset(cam) ELSE cam' = cam
        /\ out' = Aborted(cam.prepared \cup {Surface})
        /\ p' = Failed /\ lock' = "free"
    BY <1>8 DEF QueueSampleFails
  <2> QED BY <1>1, <2>1, AbortsKeep
<1> QED BY <1>3, <1>4, <1>5, <1>6, <1>7, <1>8

LEMMA DeliveryFailsKeeps ==
    ASSUME IInv, DeliveryFails
    PROVE  IInv'
<1>1. /\ Types /\ cam \in CamType /\ p.pc = "Fail" /\ Outside(p.pc)
      /\ EndSession(cam) /\ p' = Quiet /\ lock' = lock
      /\ UNCHANGED <<control, announced, r, deskVars>>
      /\ UNCHANGED <<link, toServer, toClient>>
  BY DEF DeliveryFails, Elsewhere, pipeVars, IInv, Types, Outside, Pcs, Inside
<1>2. /\ cam'.running = cam.running /\ cam'.alive = cam.alive
      /\ cam'.transitioning = cam.transitioning
  BY <1>1, ResetFacts DEF EndSession
<1>3. /\ GateShape' /\ RunShape' /\ SampleWithinRun'
      /\ lock' \in {"free", "control", "preparer", "request"}
  BY <1>1, <1>2, QuietFacts, LeavesGate
<1>4. /\ r' \in RType
      /\ control' \in {"idle", "start", "started", "stop", "reset", "stopped",
                       "leave", "join", "gone"}
      /\ announced' \in BOOLEAN
  BY <1>1 DEF Types
<1>5. Quietly
  BY <1>1, QuietlyItself
<1> QED BY <1>1, <1>3, <1>4, <1>5, QuietFacts, EndSessionKeeps

-----------------------------------------------------------------------------
(* The surface comes back from the application, or is lost.                 *)

(* Acknowledged on the pipe: nobody holds it any more.                      *)
LEMMA AcknowledgedKeeps ==
    ASSUME IInv, NEW s \in out, Release(s, TRUE), s.pipe = "live"
    PROVE  IInv'
<1>1. /\ Types /\ LinkShape /\ SessionShape /\ SurfaceShape /\ ContentShape
      /\ cam \in CamType /\ out \in SUBSET OutType /\ s \in OutType
      /\ toServer \in Seq(ToServer)
  BY DEF IInv, Types
<1>2. /\ toServer' = Append(toServer, "Released")
      /\ cam' = Uncounted(s) /\ p' = p /\ out' = out \ {s}
      /\ UNCHANGED <<lock, link, toClient, control, announced, r, deskVars>>
      /\ UNCHANGED <<w, owner, latest, signal, desktop>>
  BY DEF Release, deskVars
<1>3. /\ cam' \in CamType /\ cam'.prepared = cam.prepared /\ cam'.pipe = cam.pipe
      /\ cam'.running = cam.running /\ cam'.alive = cam.alive
      /\ cam'.transitioning = cam.transitioning
  <2>1. (cam.inflight /\ ~s.sess) \in BOOLEAN
    OBVIOUS
  <2> QED BY <1>1, <1>2, <2>1 DEF Uncounted, CamType
<1>4. SampleHolds /\ link = "up"
  <2>1. SampleHolds
    BY DEF SampleHolds
  <2> QED BY <1>1, <2>1, OpenEnds DEF LinkShape
<1>5. Away /\ ~Offers(toClient) /\ ~Says("Released", toServer) /\ HeldOnce
      /\ ~PreparerHolds /\ ~PreparedHolds
  BY <1>1, <1>4 DEF SurfaceShape, Held, HeldOnce
<1>6. ~SampleHolds' /\ ~PreparerHolds' /\ ~PreparedHolds'
  <2>1. \A t \in out' : t.pipe # "live"
    BY <1>2, <1>5 DEF HeldOnce
  <2> QED BY <1>2, <1>3, <1>5, <2>1 DEF SampleHolds, PreparerHolds, PreparedHolds
<1>7. /\ toServer' \in Seq(ToServer) /\ SaysOnce("Released", toServer')
      /\ SaysOnce("Imported", toServer')
      /\ Says("Imported", toServer') => Says("Imported", toServer)
  <2>1. "Released" \in ToServer /\ "Released" # "Imported" /\ SaysOnce("Imported", toServer)
    BY <1>1 DEF ToServer, SurfaceShape
  <2> QED BY <1>1, <1>2, <1>5, <2>1, AppendFacts
<1>8. SurfaceShape'
  <2>1. HeldOnce'
    BY <1>6 DEF HeldOnce, SampleHolds
  <2> QED BY <1>1, <1>2, <1>4, <1>5, <1>6, <1>7, <2>1 DEF SurfaceShape, Held, Away
<1>9. ClientOpen' => ClientOpen
  BY <1>2, <1>3, <1>6, OpenEnds
<1>10. SessionShape'
  BY <1>1, <1>2, <1>3, <1>9 DEF SessionShape
<1>11. ContentShape'
  BY <1>1, <1>2, <1>3 DEF ContentShape
<1>12. Steady
  BY <1>2, <1>3 DEF Steady
<1>13. Types' /\ LinkShape'
  BY <1>1, <1>2, <1>3, <1>4, <1>7, <1>9, LinkKeeps DEF Types
<1> QED BY <1>8, <1>10, <1>11, <1>12, <1>13, SteadyKeeps DEF IInv

(* Not acknowledged: its session ends, unless it had ended before.          *)
LEMMA LostKeeps ==
    ASSUME IInv, NEW s \in out, NEW returned \in BOOLEAN, Release(s, returned),
           ~(returned /\ s.pipe = "live")
    PROVE  IInv'
<1>1. /\ Types /\ SessionShape /\ SurfaceShape /\ ContentShape
      /\ cam \in CamType /\ p \in PType /\ out \in SUBSET OutType /\ s \in OutType
  BY DEF IInv, Types
<1>2. /\ UNCHANGED <<link, toServer, toClient, lock, control, announced, r, deskVars>>
      /\ UNCHANGED <<signal>>
  BY DEF Release, deskVars
<1>3. lock' \in {"free", "control", "preparer", "request"}
  BY <1>1, <1>2 DEF Types
<1>4. CASE s.sess
  <2>1. /\ cam' = Reset(cam) /\ p' = [p EXCEPT !.sess = FALSE]
        /\ out' = Aborted(cam.prepared) \ {[s EXCEPT !.sess = FALSE]}
    BY <1>4 DEF Release
  <2>2. /\ cam' \in CamType /\ cam'.prepared = {} /\ cam'.pipe = "none"
        /\ cam'.running = cam.running /\ cam'.alive = cam.alive
        /\ cam'.transitioning = cam.transitioning
    <3>1. {} \in SUBSET Offered /\ "none" \in Ends /\ 0 \in 0..MaxRequests
      BY BoundsAssumption DEF Ends
    <3> QED BY <1>1, <2>1, <3>1 DEF Reset, CamType
  <2>3. /\ p' \in PType /\ p'.pc = p.pc /\ p'.pipe = p.pipe /\ ~p'.sess
        /\ p'.token = p.token /\ p'.fresh = p.fresh
    BY <1>1, <2>1 DEF PType
  <2>4. /\ out' \in SUBSET OutType
        /\ \A t \in out' : t.pipe = "live" /\ ~t.sess /\ (SampleHolds \/ PreparedHolds)
        /\ \A t, u \in out' : t = u
    <3>1. \A t \in cam.prepared : t.pipe \in Ends
      BY <1>1, Fields
    <3> QED BY <1>1, <2>1, <3>1, AbortedFacts DEF SampleHolds, PreparedHolds
  <2>5. /\ PreparerHolds' <=> PreparerHolds
        /\ ~PreparedHolds'
        /\ SampleHolds' => SampleHolds \/ PreparedHolds
    BY <2>2, <2>3, <2>4 DEF PreparerHolds, PreparedHolds, SampleHolds
  <2>6. Passes
    BY <1>1, <2>3, <2>4, <2>5 DEF SurfaceShape, HeldOnce, Held, Passes
  <2>7. ClientOpen' => ClientOpen
    BY <2>2, <2>3, <2>5, OpenEnds
  <2>8. SessionShape'
    BY <1>1, <2>2, <2>3, <2>4, <2>7 DEF SessionShape
  <2>9. Steady
    BY <1>2, <2>2, <2>3 DEF Steady
  <2>10. p'.token => signal = "Live" /\ (p'.pc \in Carries => p'.fresh)
    BY <1>1, <2>3 DEF ContentShape
  <2> QED BY <1>2, <1>3, <2>2, <2>3, <2>4, <2>6, <2>7, <2>8, <2>9, <2>10, SteadyKeeps,
             HandsOver DEF pipeVars
<1>5. CASE ~s.sess
  <2>1. cam' = Uncounted(s) /\ p' = p /\ out' = out \ {s}
    BY <1>5 DEF Release
  <2>2. /\ cam' \in CamType /\ cam'.prepared = cam.prepared /\ cam'.pipe = cam.pipe
        /\ cam'.running = cam.running /\ cam'.alive = cam.alive
        /\ cam'.transitioning = cam.transitioning
    <3>1. (cam.inflight /\ ~s.sess) \in BOOLEAN
      OBVIOUS
    <3> QED BY <1>1, <2>1, <3>1 DEF Uncounted, CamType
  <2>3. /\ PreparerHolds' <=> PreparerHolds
        /\ PreparedHolds' <=> PreparedHolds
        /\ SampleHolds' => SampleHolds
    BY <2>1, <2>2 DEF PreparerHolds, PreparedHolds, SampleHolds
  <2>4. Passes
    BY <1>1, <2>1, <2>3 DEF SurfaceShape, HeldOnce, Held, Passes
  <2>5. ClientOpen' => ClientOpen
    BY <2>1, <2>2, <2>3, OpenEnds
  <2>6. SessionShape'
    BY <1>1, <2>1, <2>2, <2>5 DEF SessionShape
  <2>7. Steady
    BY <1>2, <2>1, <2>2 DEF Steady
  <2>8. /\ p'.token => signal = "Live" /\ (p'.pc \in Carries => p'.fresh)
        /\ \A t \in cam'.prepared : t.token => signal = "Live" /\ t.fresh
    BY <1>1, <2>1, <2>2 DEF ContentShape
  <2>9. p' \in PType /\ out' \in SUBSET OutType
    BY <1>1, <2>1
  <2> QED BY <1>2, <1>3, <2>2, <2>4, <2>5, <2>6, <2>7, <2>8, <2>9, SteadyKeeps,
             HandsOver DEF pipeVars
<1> QED BY <1>4, <1>5

LEMMA ReleaseKeeps ==
    ASSUME IInv, ReleaseSample \/ ReleaseFails
    PROVE  IInv'
<1>1. PICK s \in out : Release(s, TRUE) \/ Release(s, FALSE)
  BY DEF ReleaseSample, ReleaseFails
<1>2. TRUE \in BOOLEAN /\ FALSE \in BOOLEAN
  OBVIOUS
<1> QED BY <1>1, <1>2, AcknowledgedKeeps, LostKeeps

-----------------------------------------------------------------------------

LEMMA StutterKeeps ==
    ASSUME IInv, UNCHANGED vars
    PROVE  IInv'
BY DEF IInv, vars, camVars, pipeVars, deskVars, Types, GateShape, RunShape, LinkShape,
       SessionShape, SurfaceShape, ContentShape, SampleWithinRun, ClientOpen, HeldOnce,
       Held, PreparerHolds, PreparedHolds, SampleHolds, Away

LEMMA StepInvariant == IInv /\ [Next]_vars => IInv'
<1> SUFFICES ASSUME IInv, [Next]_vars PROVE IInv'
  OBVIOUS
<1>1. CASE \/ SubmitRing \/ PlaceholderRing \/ OwnerStep \/ Crash \/ HoldEnds \/ Restart
           \/ WorkerStep
  BY <1>1, DesktopKeeps
<1>2. CASE \/ \E running \in BOOLEAN : Begin(running)
           \/ StartCommit \/ AllocatorFails \/ StartEvent \/ StopCommit
           \/ StopEvent \/ StopEventFails \/ Leave \/ Join
  BY <1>2, CallsKeep
<1>3. CASE StartEventFails \/ StopReset \/ Shutdown \/ SetD3DManager \/ SetOutputMediaType
  BY <1>3, ResettingCallsKeep
<1>4. CASE RequestSample \/ ContentKind \/ RequestNativeSample
           \/ AcquireForOutput \/ DeliverCpuSample \/ QueueCpuSample
  BY <1>4, RequestsKeep
<1>5. CASE SetPlaceholderActive
  BY <1>5, PlaceholderActiveKeeps
<1>6. CASE ChooseWork \/ Connect \/ CaptureToken \/ WriteDemand \/ ReadHello \/ ReadOffer
           \/ ClientReadFails \/ Import \/ WriteImported \/ StorePrepared
  BY <1>6, ChooseWorkKeeps, ConnectKeeps, CaptureTokenKeeps, WriteDemandKeeps,
     ReadHelloKeeps, ReadOfferKeeps, ClientReadFailsKeeps, ImportKeeps,
     WriteImportedKeeps, StorePreparedKeeps
<1>7. CASE PopRequest \/ CheckPlaceholder \/ TakePrepared \/ AdmitLive \/ Recheck
           \/ QueueSample \/ QueueSampleFails \/ DeliveryFails
  BY <1>7, PopKeeps, TakePreparedKeeps, DeliveryKeeps, DeliveryFailsKeeps
<1>8. CASE ReleaseSample \/ ReleaseFails
  BY <1>8, ReleaseKeeps
<1>9. CASE UNCHANGED vars
  BY <1>9, StutterKeeps
<1> QED BY <1>1, <1>2, <1>3, <1>4, <1>5, <1>6, <1>7, <1>8, <1>9
        DEF Next, ControlStep, RequestStep, PreparerStep

LEMMA InvariantHolds == Spec => []IInv
BY InitInvariant, StepInvariant, PTL DEF Spec

-----------------------------------------------------------------------------

(* One sample at most is prepared and one out, and every variable has its   *)
(* type: the code stores the first in an Option and counts the second.      *)
THEOREM TypeCorrect == Spec => []TypeOK
<1> SUFFICES ASSUME IInv PROVE TypeOK
  BY InvariantHolds, PTL
<1>1. Types /\ SessionShape /\ SurfaceShape
  BY DEF IInv
<1>2. Cardinality(cam.prepared) <= 1
  BY <1>1, AtMostOne DEF SessionShape
<1>3. \A s, t \in out : s = t
  <2> SUFFICES ASSUME NEW s \in out, NEW t \in out PROVE s = t
    OBVIOUS
  <2>1. /\ s = [pipe |-> s.pipe, sess |-> s.sess] /\ t = [pipe |-> t.pipe, sess |-> t.sess]
        /\ s.pipe \in Ends /\ t.pipe \in Ends /\ s.sess \in BOOLEAN /\ t.sess \in BOOLEAN
    BY <1>1 DEF Types, OutType
  <2>2. \A u \in {s, t} : /\ u.pipe # "none" /\ (u.sess => u.pipe = cam.pipe)
                          /\ (u.sess \/ u.pipe = "live")
    BY <1>1 DEF SessionShape
  <2>3. cam.pipe = "dead" => s.pipe # "live" /\ t.pipe # "live"
    BY <1>1, OpenEnds DEF SessionShape, SampleHolds
  <2>4. CASE s.pipe = "live" /\ t.pipe = "live"
    BY <1>1, <2>4 DEF SurfaceShape, HeldOnce
  <2>5. CASE ~(s.pipe = "live" /\ t.pipe = "live")
    <3>1. s.pipe = "dead" \/ t.pipe = "dead"
      BY <2>1, <2>2, <2>5 DEF Ends
    <3>2. cam.pipe = "dead"
      BY <2>2, <3>1
    <3>3. s.pipe = "dead" /\ t.pipe = "dead" /\ s.sess /\ t.sess
      BY <2>1, <2>2, <2>3, <3>2 DEF Ends
    <3> QED BY <2>1, <3>3
  <2> QED BY <2>4, <2>5
<1>4. Cardinality(out) <= 1
  BY <1>3, AtMostOne
<1> QED BY <1>1, <1>2, <1>4 DEF TypeOK, Types, CamType, OutType

(* A sample is queued only while the stream runs and its start has been     *)
(* announced: every queueing thread checks the run inside the gate that     *)
(* Start, Stop and Shutdown need.                                           *)
THEOREM SamplesStayWithinTheRun == Spec => []SampleWithinRun
<1>1. IInv => SampleWithinRun
  BY DEF IInv
<1> QED BY <1>1, InvariantHolds, PTL

(* The desktop renders again only into a surface that nobody holds: a       *)
(* holder means that the worker is waiting for Imported or Released.        *)
THEOREM SurfaceComesBack == Spec => []SurfaceReturned
<1>1. IInv => SurfaceReturned
  BY DEF IInv, SurfaceShape, SurfaceReturned, Held, PreparerHolds, PreparedHolds,
         SampleHolds, Away
<1> QED BY <1>1, InvariantHolds, PTL

(* The thread that is to admit a sample is moved on by itself alone.        *)
LEMMA OnlyAdmission ==
    ASSUME Types, [Next]_vars, p.pc = "Admit", p'.pc = "Recheck"
    PROVE  AdmitLive
<1>1. p \in PType
  BY DEF Types
<1>2. ~(UNCHANGED p \/ p' = [p EXCEPT !.pipe = Dead(@)] \/ Revoke
          \/ p' = [p EXCEPT !.sess = FALSE]
          \/ \E l, e \in BOOLEAN : Outdated(l, e))
  BY <1>1 DEF PType, Revoke, Outdated
<1>3. ~(SubmitRing \/ PlaceholderRing \/ OwnerStep \/ Crash \/ HoldEnds \/ Restart)
  BY <1>2 DEF SubmitRing, PlaceholderRing, OwnerStep, SubmitNative, ClearNative,
              CutClient, Disconnect, Crash, HoldEnds, Restart
<1>4. ~WorkerStep
  BY <1>2 DEF WorkerStep, AcceptClient, TakeFrame, TakeFrameFails, WriteOffer, ServerReads,
              ServerReadFails, WorkerFails, ServerWrites, Disconnect
<1>5. ~(\/ \E running \in BOOLEAN : Begin(running)
        \/ Shutdown \/ SetD3DManager \/ SetOutputMediaType \/ ControlStep)
  BY <1>2 DEF Begin, Shutdown, SetD3DManager, SetOutputMediaType, ControlStep,
              AllocatorFails, StartCommit, StartEvent, StartEventFails, StopCommit,
              StopReset, StopEvent, StopEventFails, Leave, Join
<1>6. ~(RequestSample \/ RequestStep)
  BY <1>2 DEF RequestSample, RequestStep, ContentKind, SetPlaceholderActive,
              RequestNativeSample, AcquireForOutput, DeliverCpuSample, QueueCpuSample
<1>7. ~(ReleaseSample \/ ReleaseFails)
  BY <1>2 DEF ReleaseSample, ReleaseFails, Release
<1>8. ~QueueSampleFails /\ (PreparerStep => AdmitLive)
  BY DEF QueueSampleFails, PreparerStep, ChooseWork, Connect, CaptureToken, WriteDemand,
         ReadHello, ReadOffer, ClientReadFails, Import, WriteImported, StorePrepared,
         PopRequest, CheckPlaceholder, TakePrepared, Recheck, QueueSample, DeliveryFails
<1> QED BY <1>2, <1>3, <1>4, <1>5, <1>6, <1>7, <1>8 DEF Next, vars

(* A picture from before a placeholder, or of a desktop that died, is not   *)
(* admitted, although there may be live content again: with the token that  *)
(* was captured before the offer was read, it is no longer the newest.      *)
THEOREM AdmittedIsCurrent == Spec => LiveSampleIsCurrent
<1>1. IInv /\ [Next]_vars => [p.pc = "Admit" /\ p'.pc = "Recheck" => p.fresh]_vars
  <2> SUFFICES ASSUME IInv, [Next]_vars, p.pc = "Admit", p'.pc = "Recheck"
               PROVE  p.fresh
    OBVIOUS
  <2>1. p.token
    BY OnlyAdmission, QuietFacts DEF AdmitLive, TokenHolds, IInv
  <2>2. "Admit" \in Carries
    BY DEF Carries
  <2> QED BY <2>1, <2>2 DEF IInv, ContentShape
<1> QED BY <1>1, InvariantHolds, PTL DEF Spec, LiveSampleIsCurrent

=============================================================================
