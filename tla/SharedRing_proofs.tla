--------------------------- MODULE SharedRing_proofs ---------------------------
(***************************************************************************)
(* For every number of consumers, slots and generations, and whoever dies  *)
(* when, the views of SharedRing are whole and fenced, and its leases      *)
(* count their readers.                                                    *)
(*                                                                         *)
(* The generation is a function of the era, so a slot's generation tells   *)
(* in which era its picture was admitted; the writer's lease keeps readers *)
(* away from the slot it is on, and readers keep the writer away.          *)
(***************************************************************************)
EXTENDS SharedRing, FiniteSetTheorems, TLAPS

(* The generation of each era; zero when they are used up.                  *)
Gen(e) == IF e < MaxGeneration THEN e + 1 ELSE 0

GenerationIsEra == meta.generation = Gen(era)

(* No work is admitted before the first invalidation of what is found.      *)
FenceShape == /\ fence # "Idle" => era < MaxEra
              /\ fence = "Idle" /\ producer.pc # "Down" => era >= 1

WorkShape ==
    producer.pc \notin {"Down", "Idle"} =>
        /\ producer.era \in 1..MaxEra /\ producer.token = Gen(producer.era)
        /\ producer.pc # "Announced" => meta.latest < MaxFrames

(* A slot's kernel lock is the producer's or the readers'.                  *)
LockShape ==
    \A r \in Readers: readers[r].pc \in Locking =>
        /\ kernel => ~Exclusive(readers[r].slot)
        /\ ~kernel => readers[r].pc # "Locked"

Holding == Claiming \ {"Locked", "Freed", "Announced"}
Filling == {"Copying", "Copied", "Confirmed", "Labelled"}

(* What the producer has done to the slot it is on.                         *)
OwnShape ==
    /\ producer.pc \in Holding => Mine.leases = Writer
    /\ producer.pc \in Filling => Mine.ready = "Writing"
    /\ producer.pc \in Filling \ {"Copying"} => Mine.picture = producer.era
    /\ producer.pc = "Labelled" => Mine.generation = producer.token

(* A complete picture bears the generation of its admission.                *)
SlotShape ==
    \A i \in Slots: slots[i].ready = "Done" =>
        slots[i].picture # Torn /\ slots[i].generation = Gen(slots[i].picture)

ReaderShape ==
    \A r \in Readers:
        /\ readers[r].pc # "Idle" => readers[r].floor <= era
        /\ readers[r].pc \in {"Same", "Viewing"} => StillPublished(r)
        /\ readers[r].pc = "Viewing" => At(r).picture >= readers[r].floor

IInv == /\ TypeOK /\ GenerationIsEra /\ FenceShape /\ WorkShape /\ LockShape
        /\ OwnShape /\ SlotShape /\ ReaderShape /\ LeasesCountReaders

-----------------------------------------------------------------------------
LEMMA Bounds == /\ SlotCount \in Nat /\ SlotCount >= 1
                /\ MaxGeneration \in Nat /\ MaxGeneration >= 1
                /\ MaxRevision \in Nat /\ MaxRevision >= 1
                /\ MaxFrames \in Nat /\ MaxEra \in Nat /\ MaxEra >= 1
                /\ MaxCrashes \in Nat /\ IsFiniteSet(Readers)
                /\ 0 \in Slots /\ Slots \subseteq Nat
                /\ \A i \in Slots: (i + 1) % SlotCount \in Slots
<1>1. \A i \in Slots: (i + 1) % SlotCount \in Slots
  BY RingAssumption DEF Slots
<1> QED  BY <1>1, RingAssumption DEF Slots

LEMMA GenType == \A e \in Nat: Gen(e) \in 0..MaxGeneration
BY Bounds DEF Gen

(* Readers that hold a lease are finitely many.                             *)
LEMMA LeaseholdersFinite ==
    \A i: /\ IsFiniteSet(Leaseholders(i)) /\ Cardinality(Leaseholders(i)) \in Nat
          /\ Cardinality(Leaseholders(i)) = 0 <=> Leaseholders(i) = {}
<1> SUFFICES ASSUME NEW i
             PROVE /\ IsFiniteSet(Leaseholders(i)) /\ Cardinality(Leaseholders(i)) \in Nat
                   /\ Cardinality(Leaseholders(i)) = 0 <=> Leaseholders(i) = {}
  OBVIOUS
<1>1. Leaseholders(i) \in SUBSET Readers  BY DEF Leaseholders
<1>2. IsFiniteSet(Leaseholders(i))  BY <1>1, Bounds, FS_Subset
<1> QED  BY <1>2, FS_CardinalityType, FS_EmptySet

LEMMA InitInvariant == Init => IInv
<1> SUFFICES ASSUME Init PROVE IInv  OBVIOUS
<1> USE Bounds
<1>1. TypeOK
  <2>1. meta \in Meta /\ kernel \in BOOLEAN /\ era \in 0..MaxEra
        /\ crashes \in 0..MaxCrashes /\ fence \in {"Idle", "Opening", "Signalled"}
    BY DEF Init, Meta, Kind
  <2>2. slots \in [Slots -> Slot]  BY DEF Init, Slot, Torn
  <2>3. producer \in Producer  BY DEF Init, NoWork, Producer, Kind
  <2>4. readers \in [Readers -> Reader]  BY DEF Init, NoRead, Reader
  <2> QED  BY <2>1, <2>2, <2>3, <2>4 DEF TypeOK
<1>2. GenerationIsEra /\ FenceShape /\ WorkShape
  BY DEF Init, GenerationIsEra, FenceShape, WorkShape, Gen, NoWork
<1>3. LockShape /\ OwnShape /\ SlotShape /\ ReaderShape
  BY DEF Init, LockShape, OwnShape, SlotShape, ReaderShape, NoWork, NoRead,
         Locking, Leasing, Holding, Filling, Claiming
<1>4. LeasesCountReaders
  <2>1. \A i: Leaseholders(i) = {}
    BY DEF Init, Leaseholders, Leasing, NoRead
  <2> QED  BY <2>1, LeaseholdersFinite DEF Init, LeasesCountReaders, Writer
<1> QED  BY <1>1, <1>2, <1>3, <1>4 DEF IInv

-----------------------------------------------------------------------------
(* What the fields of the state are.                                        *)
LEMMA Fields ==
    ASSUME TypeOK
    PROVE /\ producer.pc \in {"Down", "Idle", "Prepared", "Current", "Scan"} \cup Claiming
          /\ producer.slot \in Slots /\ producer.tried \in 0..SlotCount
          /\ producer.token \in 0..MaxGeneration /\ producer.kind \in Kind
          /\ producer.era \in 0..MaxEra
          /\ meta.latest \in 0..MaxFrames /\ meta.next \in Slots
          /\ meta.generation \in 0..MaxGeneration /\ meta.revision \in 0..MaxRevision
          /\ meta.kind \in Kind
          /\ \A i \in Slots: /\ slots[i] \in Slot
                             /\ slots[i].leases \in Nat \cup {Writer}
                             /\ slots[i].picture \in 0..MaxEra
          /\ \A r \in Readers: readers[r] \in Reader /\ readers[r].slot \in Slots
BY DEF TypeOK, Producer, Meta, Slot, Reader

(* Who reads, or holds a lease, is where it was.                            *)
LEMMA LeaseholdersSame ==
    ASSUME UNCHANGED readers
    PROVE \A i: Leaseholders(i)' = Leaseholders(i)
BY DEF Leaseholders

LEMMA LockFrame ==
    ASSUME LockShape, UNCHANGED <<kernel, readers>>,
           producer'.pc \in Claiming =>
              producer.pc \in Claiming /\ producer'.slot = producer.slot
    PROVE LockShape'
BY DEF LockShape, Exclusive

(* The slots stay as they are, and so do their readers.                     *)
LEMMA SlotsFrame ==
    ASSUME IInv, UNCHANGED <<slots, readers, era, crashes>>
    PROVE SlotShape' /\ ReaderShape' /\ LeasesCountReaders'
<1>1. SlotShape'  BY DEF IInv, SlotShape
<1>2. ReaderShape'  BY DEF IInv, ReaderShape, StillPublished, At
<1>3. LeasesCountReaders'  BY LeaseholdersSame DEF IInv, LeasesCountReaders
<1> QED  BY <1>1, <1>2, <1>3

LEMMA SignalStep ==
    ASSUME IInv, NEW k \in Kind, Signal(k), era < MaxEra
    PROVE IInv'
<1> USE Bounds
<1>1. TypeOK'
  <2>0. meta.revision \in 0..MaxRevision  BY Fields DEF IInv
  <2>1. NextRevision(meta.revision) \in 0..MaxRevision
    BY <2>0 DEF NextRevision
  <2>2. meta \in Meta  BY DEF IInv, TypeOK
  <2>3. meta' \in Meta  BY <2>1, <2>2 DEF Signal, Meta
  <2> QED  BY <2>3 DEF IInv, TypeOK, Signal
<1>2. GenerationIsEra'
  BY DEF IInv, TypeOK, Signal, GenerationIsEra, Meta
<1>3. FenceShape'  BY DEF IInv, Signal, FenceShape
<1>4. WorkShape'  BY DEF IInv, TypeOK, Signal, WorkShape, Meta
<1>5. LockShape'  BY LockFrame DEF IInv, Signal
<1>6. OwnShape'  BY DEF IInv, Signal, OwnShape, Mine
<1> QED  BY <1>1, <1>2, <1>3, <1>4, <1>5, <1>6, SlotsFrame DEF IInv, Signal

LEMMA AdvanceGenerationStep ==
    ASSUME IInv, AdvanceGeneration
    PROVE IInv'
<1> USE Bounds
<1>0. era < MaxEra /\ era \in Nat /\ era' = era + 1
  BY DEF IInv, TypeOK, FenceShape, AdvanceGeneration
<1>1. TypeOK'
  <2>1. meta' \in Meta
    BY Fields DEF IInv, TypeOK, AdvanceGeneration, Meta, NextGeneration
  <2> QED  BY <1>0, <2>1 DEF IInv, TypeOK, AdvanceGeneration
<1>2. GenerationIsEra'
  <2>1. meta'.generation = NextGeneration(meta.generation)
    BY DEF IInv, TypeOK, Meta, AdvanceGeneration
  <2>2. NextGeneration(Gen(era)) = Gen(era + 1)
    BY <1>0 DEF NextGeneration, Gen
  <2> QED  BY <1>0, <2>1, <2>2 DEF IInv, GenerationIsEra, Gen
<1>3. FenceShape'  BY <1>0 DEF AdvanceGeneration, FenceShape
<1>4. WorkShape'  BY DEF IInv, TypeOK, AdvanceGeneration, WorkShape, Meta, Gen
<1>5. LockShape'  BY LockFrame DEF IInv, AdvanceGeneration
<1>6. OwnShape'  BY DEF IInv, AdvanceGeneration, OwnShape, Mine
<1>7. SlotShape'  BY DEF IInv, AdvanceGeneration, SlotShape, Gen
<1>8. ReaderShape'
  <2>1. \A r \in Readers: readers[r].floor \in Nat
    BY Fields DEF IInv, Reader
  <2> QED  BY <1>0, <2>1 DEF IInv, AdvanceGeneration, ReaderShape, StillPublished, At
<1>9. LeasesCountReaders'
  BY LeaseholdersSame DEF IInv, AdvanceGeneration, LeasesCountReaders
<1> QED  BY <1>1, <1>2, <1>3, <1>4, <1>5, <1>6, <1>7, <1>8, <1>9 DEF IInv

LEMMA InvalidatesStep ==
    ASSUME IInv, Invalidates
    PROVE IInv'
<1>1. ASSUME NEW k \in Kind, InvalidateAs(k) PROVE IInv'
  BY <1>1, SignalStep DEF InvalidateAs
<1>2. CASE InvalidateOpened
  <2>1. (IF ContentKind = {} THEN "Placeholder" ELSE meta.kind) \in Kind
    BY Fields DEF IInv, Kind
  <2>2. era < MaxEra  BY <1>2 DEF IInv, FenceShape, InvalidateOpened
  <2> QED  BY <1>2, <2>1, <2>2, SignalStep DEF InvalidateOpened
<1> QED  BY <1>1, <1>2, AdvanceGenerationStep DEF Invalidates

-----------------------------------------------------------------------------
(* A step of the producer that leaves the slots alone and claims none.      *)
LEMMA QuietProducer ==
    ASSUME IInv, UNCHANGED <<kernel, fence, readers, era, crashes, slots>>,
           meta' \in Meta, meta'.generation = meta.generation,
           producer' \in Producer, producer.pc # "Down", producer'.pc # "Down",
           producer'.pc \in Claiming =>
              producer.pc \in Claiming /\ producer'.slot = producer.slot,
           producer'.pc \notin Holding, WorkShape'
    PROVE IInv'
<1>1. TypeOK'  BY DEF IInv, TypeOK
<1>2. GenerationIsEra'  BY DEF IInv, GenerationIsEra, Gen
<1>3. FenceShape'  BY DEF IInv, FenceShape
<1>4. LockShape'  BY LockFrame DEF IInv
<1>5. OwnShape'  BY DEF OwnShape, Filling, Holding, Claiming
<1> QED  BY <1>1, <1>2, <1>3, <1>4, <1>5, SlotsFrame DEF IInv

LEMMA NoWorkType == NoWork \in Producer
BY Bounds DEF NoWork, Producer, Kind

LEMMA NextSlotFacts ==
    ASSUME TypeOK, NextSlot
    PROVE /\ producer' \in Producer
          /\ producer'.pc \in {"Scan", "Idle", "Prepared"}
          /\ producer'.pc # "Idle" =>
                producer'.era = producer.era /\ producer'.token = producer.token
<1> USE Bounds
<1>1. producer \in Producer /\ producer.slot \in Slots /\ producer.tried \in Nat
  BY Fields DEF TypeOK
<1>2. CASE producer' = NoWork
  BY <1>2, NoWorkType DEF NoWork
<1>3. CASE producer' = [producer EXCEPT !.pc = "Prepared", !.tried = 0, !.slot = 0]
  <2>1. 0 \in 0..SlotCount /\ 0 \in Slots  OBVIOUS
  <2> QED  BY <1>1, <1>3, <2>1 DEF Producer
<1>4. CASE /\ producer.tried + 1 < SlotCount
           /\ producer' = [producer EXCEPT !.pc = "Scan", !.tried = @ + 1,
                                           !.slot = (@ + 1) % SlotCount]
  <2> DEFINE next == (producer.slot + 1) % SlotCount
  <2>1. next \in Slots  BY <1>1
  <2>2. producer.tried + 1 \in 0..SlotCount  BY <1>1, <1>4
  <2>3. producer' = [producer EXCEPT !.pc = "Scan", !.tried = producer.tried + 1,
                                     !.slot = next]
    BY <1>4
  <2> HIDE DEF next
  <2> QED  BY <1>1, <2>1, <2>2, <2>3 DEF Producer
<1> QED  BY <1>2, <1>3, <1>4 DEF NextSlot, Return

LEMMA AdmitStep == ASSUME IInv, Admit PROVE IInv'
<1> USE Bounds
<1>1. producer \in Producer /\ meta \in Meta  BY DEF IInv, TypeOK
<1>2. era \in 1..MaxEra
  BY DEF IInv, TypeOK, FenceShape, Admit, ProducerStep
<1>3. meta.generation \in 0..MaxGeneration /\ meta.kind \in Kind  BY Fields DEF IInv
<1>4. producer' \in Producer
  <2>1. era \in 0..MaxEra  BY <1>2
  <2> QED  BY <1>1, <1>3, <2>1 DEF Admit, Producer
<1>5. producer'.pc = "Prepared"  BY <1>1 DEF Admit, Producer
<1>6. WorkShape'
  BY <1>1, <1>2 DEF IInv, GenerationIsEra, Admit, Producer, WorkShape, Gen
<1> QED
  BY <1>1, <1>4, <1>5, <1>6, QuietProducer DEF Admit, ProducerStep, Claiming, Holding

LEMMA CheckGenerationStep == ASSUME IInv, CheckGeneration PROVE IInv'
<1>1. producer \in Producer /\ meta \in Meta  BY DEF IInv, TypeOK
<1>2. CASE Goto("Current")
  <2>1. /\ producer' \in Producer /\ producer'.pc = "Current"
        /\ producer'.era = producer.era /\ producer'.token = producer.token
    BY <1>1, <1>2 DEF Goto, Producer
  <2>2. WorkShape'
    BY <2>1 DEF IInv, WorkShape, CheckGeneration, ProducerStep, Gen
  <2> QED
    BY <1>1, <2>1, <2>2, QuietProducer
    DEF CheckGeneration, ProducerStep, Claiming, Holding
<1>3. CASE Return
  <2>1. producer'.pc = "Idle"  BY <1>3 DEF Return, NoWork
  <2> QED
    BY <1>1, <1>3, <2>1, NoWorkType, QuietProducer
    DEF CheckGeneration, ProducerStep, Return, Claiming, Holding, WorkShape
<1> QED  BY <1>2, <1>3 DEF CheckGeneration

LEMMA CheckKindStep == ASSUME IInv, CheckKind PROVE IInv'
<1>1. producer \in Producer /\ meta \in Meta  BY DEF IInv, TypeOK
<1>2. CASE producer' = [producer EXCEPT !.pc = "Scan", !.slot = meta.next]
  <2>1. meta.next \in Slots  BY Fields DEF IInv
  <2>2. /\ producer' \in Producer /\ producer'.pc = "Scan"
        /\ producer'.era = producer.era /\ producer'.token = producer.token
    BY <1>1, <1>2, <2>1 DEF Producer
  <2>3. WorkShape'
    BY <2>2 DEF IInv, WorkShape, CheckKind, ProducerStep, Gen
  <2> QED
    BY <1>1, <2>2, <2>3, QuietProducer
    DEF CheckKind, ProducerStep, Claiming, Holding
<1>3. CASE Return
  <2>1. producer'.pc = "Idle"  BY <1>3 DEF Return, NoWork
  <2> QED
    BY <1>1, <1>3, <2>1, NoWorkType, QuietProducer
    DEF CheckKind, ProducerStep, Return, Claiming, Holding, WorkShape
<1> QED  BY <1>2, <1>3 DEF CheckKind

(* The slot is given up for the next, or the round ends.                    *)
LEMMA NextSlotStep ==
    ASSUME IInv, NextSlot, producer.pc \in {"Scan", "Locked"},
           UNCHANGED <<kernel, fence, readers, era, crashes, meta, slots>>
    PROVE IInv'
<1>1. meta \in Meta /\ TypeOK  BY DEF IInv, TypeOK
<1>2. WorkShape'  BY <1>1, NextSlotFacts DEF IInv, WorkShape, Gen
<1> QED  BY <1>1, <1>2, NextSlotFacts, QuietProducer DEF Claiming, Holding

LEMMA AnnounceStep == ASSUME IInv, Announce PROVE IInv'
<1>1. producer \in Producer /\ meta \in Meta  BY DEF IInv, TypeOK
<1>2. /\ producer' \in Producer /\ producer'.pc = "Announced"
      /\ producer'.era = producer.era /\ producer'.token = producer.token
      /\ producer'.slot = producer.slot
  BY <1>1 DEF Announce, Goto, Producer, Claiming
<1>3. meta.latest < MaxFrames /\ meta.latest \in 0..MaxFrames
  BY Fields DEF IInv, WorkShape, Announce, ProducerStep
<1>4. meta.latest + 1 \in 0..MaxFrames  BY <1>3, Bounds
<1>5. meta' \in Meta /\ meta'.generation = meta.generation
  BY <1>1, <1>4 DEF Announce, Meta
<1>6. WorkShape'  BY <1>2 DEF IInv, WorkShape, Announce, ProducerStep, Gen
<1> QED
  BY <1>2, <1>5, <1>6, QuietProducer DEF Announce, ProducerStep, Claiming, Holding

LEMMA AdvanceIndexStep == ASSUME IInv, AdvanceIndex PROVE IInv'
<1>1. producer.slot \in Slots /\ meta \in Meta  BY Fields DEF IInv, TypeOK
<1> DEFINE next == (producer.slot + 1) % SlotCount
<1>2. next \in Slots  BY <1>1, Bounds
<1>3. meta' = [meta EXCEPT !.next = next]  BY DEF AdvanceIndex
<1> HIDE DEF next
<1>4. meta' \in Meta /\ meta'.generation = meta.generation
  BY <1>1, <1>2, <1>3 DEF Meta
<1>5. producer'.pc = "Idle"  BY DEF AdvanceIndex, Return, NoWork
<1> QED
  BY <1>4, <1>5, NoWorkType, QuietProducer
  DEF AdvanceIndex, ProducerStep, Return, Claiming, Holding, WorkShape

LEMMA ProducerDiesStep == ASSUME IInv, ProducerDies PROVE IInv'
<1>1. /\ producer' \in Producer /\ producer'.pc = "Down"
  BY NoWorkType DEF ProducerDies, NoWork, Producer
<1>2. crashes' \in 0..MaxCrashes /\ crashes' # 0
  BY Bounds DEF IInv, TypeOK, ProducerDies
<1>3. TypeOK'  BY <1>1, <1>2 DEF IInv, TypeOK, ProducerDies
<1>4. GenerationIsEra'  BY DEF IInv, ProducerDies, GenerationIsEra, Gen
<1>5. FenceShape' /\ WorkShape'  BY <1>1 DEF ProducerDies, FenceShape, WorkShape
<1>6. LockShape'  BY <1>1, LockFrame DEF IInv, ProducerDies, Claiming
<1>7. OwnShape'  BY <1>1 DEF OwnShape, Holding, Filling, Claiming
<1>8. SlotShape' /\ ReaderShape'
  BY DEF IInv, ProducerDies, SlotShape, ReaderShape, StillPublished, At, Gen
<1>9. LeasesCountReaders'
  BY <1>2, LeaseholdersSame DEF IInv, ProducerDies, LeasesCountReaders
<1> QED  BY <1>3, <1>4, <1>5, <1>6, <1>7, <1>8, <1>9 DEF IInv

LEMMA ReopenStep == ASSUME IInv, Reopen PROVE IInv'
<1>1. producer' \in Producer /\ producer'.pc = "Idle"
  BY NoWorkType DEF Reopen, NoWork
<1>2. TypeOK'  BY <1>1 DEF IInv, TypeOK, Reopen
<1>3. GenerationIsEra'  BY DEF IInv, Reopen, GenerationIsEra, Gen
<1>4. FenceShape' /\ WorkShape'  BY <1>1 DEF Reopen, FenceShape, WorkShape
<1>5. LockShape'  BY <1>1, LockFrame DEF IInv, Reopen, Claiming
<1>6. OwnShape'  BY <1>1 DEF OwnShape, Holding, Filling, Claiming
<1> QED  BY <1>2, <1>3, <1>4, <1>5, <1>6, SlotsFrame DEF IInv, Reopen

-----------------------------------------------------------------------------
(* The slot on which the producer's lease is has no readers.                *)
LEMMA HoldingAlone ==
    ASSUME IInv, producer.pc \in Holding
    PROVE Leaseholders(producer.slot) = {} /\ Mine.leases = Writer
BY Fields DEF IInv, OwnShape, LeasesCountReaders, Mine

LEMMA GotoFacts ==
    ASSUME TypeOK, NEW pc \in Claiming, Goto(pc)
    PROVE /\ producer' \in Producer /\ producer'.pc = pc
          /\ producer'.era = producer.era /\ producer'.token = producer.token
          /\ producer'.slot = producer.slot
BY DEF TypeOK, Producer, Goto

(* A step of the producer that writes to a slot without readers.            *)
LEMMA StoreStep ==
    ASSUME IInv, UNCHANGED <<kernel, fence, readers, era, crashes, meta>>,
           NEW x \in Slot, Store(x), Leaseholders(producer.slot) = {},
           x.leases \in {0, Writer},
           x.ready = "Done" => x.picture # Torn /\ x.generation = Gen(x.picture),
           producer' \in Producer, producer.pc # "Down", producer'.pc # "Down",
           WorkShape', LockShape', OwnShape'
    PROVE IInv'
<1>1. /\ slots \in [Slots -> Slot] /\ producer.slot \in Slots
      /\ slots' = [slots EXCEPT ![producer.slot] = x]
  BY Fields DEF IInv, TypeOK, Store
<1>2. TypeOK'  BY <1>1 DEF IInv, TypeOK
<1>3. GenerationIsEra' /\ FenceShape'
  BY DEF IInv, GenerationIsEra, FenceShape, Gen
<1>4. SlotShape'
  <2>1. SUFFICES ASSUME NEW i \in Slots, slots'[i].ready = "Done"
                 PROVE slots'[i].picture # Torn
                       /\ slots'[i].generation = Gen(slots'[i].picture)
    BY DEF SlotShape, Gen
  <2> QED  BY <1>1, <2>1 DEF IInv, SlotShape
<1>5. \A r \in Readers: readers[r].pc \in Leasing => readers[r].slot # producer.slot
  BY DEF Leaseholders
<1>6. ReaderShape'
  <2>1. \A r \in Readers: readers[r].slot \in Slots  BY Fields DEF IInv
  <2> QED
    BY <1>1, <1>5, <2>1 DEF IInv, ReaderShape, StillPublished, At, Leasing
<1>7. LeasesCountReaders'
  <2>1. SUFFICES ASSUME NEW i \in Slots
                 PROVE /\ slots'[i].leases = Writer => Leaseholders(i) = {}
                       /\ slots'[i].leases # Writer =>
                             slots'[i].leases >= Cardinality(Leaseholders(i))
                       /\ crashes = 0 /\ slots'[i].leases # Writer =>
                             slots'[i].leases = Cardinality(Leaseholders(i))
    BY LeaseholdersSame DEF LeasesCountReaders
  <2>2. CASE i = producer.slot
    <3>1. Cardinality(Leaseholders(i)) = 0  BY <2>2, LeaseholdersFinite
    <3>2. slots'[i].leases \in {0, Writer}  BY <1>1, <2>2
    <3> QED  BY <2>2, <3>1, <3>2 DEF Writer
  <2>3. CASE i # producer.slot
    BY <1>1, <2>3 DEF IInv, LeasesCountReaders
  <2> QED  BY <2>2, <2>3
<1> QED  BY <1>2, <1>3, <1>4, <1>6, <1>7 DEF IInv

(* A step within the call that keeps the slot.                              *)
LEMMA OwnStoreStep ==
    ASSUME IInv, UNCHANGED <<kernel, fence, readers, era, crashes, meta>>,
           producer.pc \in Holding, NEW pc \in Claiming \ {"Announced"}, Goto(pc),
           NEW x \in Slot, Store(x), x.leases \in {0, Writer},
           pc \in Holding => x.leases = Writer,
           pc \in Filling => x.ready = "Writing",
           pc \in Filling \ {"Copying"} => x.picture = producer.era,
           pc = "Labelled" => x.generation = producer.token,
           x.ready = "Done" => x.picture # Torn /\ x.generation = Gen(x.picture)
    PROVE IInv'
<1>1. /\ producer' \in Producer /\ producer'.pc = pc
      /\ producer'.era = producer.era /\ producer'.token = producer.token
      /\ producer'.slot = producer.slot
  BY GotoFacts DEF IInv
<1>2. WorkShape'
  BY <1>1 DEF IInv, WorkShape, Gen, Holding, Claiming
<1>3. LockShape'
  BY <1>1, LockFrame DEF IInv, Holding
<1>4. slots'[producer.slot] = x
  BY Fields DEF IInv, TypeOK, Store
<1>5. OwnShape'  BY <1>1, <1>4 DEF OwnShape, Mine
<1>6. producer.pc # "Down" /\ producer'.pc # "Down"
  BY <1>1 DEF Holding, Claiming
<1> QED  BY <1>1, <1>2, <1>3, <1>5, <1>6, HoldingAlone, StoreStep

LEMMA MineFacts ==
    ASSUME IInv
    PROVE Mine \in Slot /\ producer.slot \in Slots
BY Fields DEF IInv, Mine

LEMMA BeginCopyStep == ASSUME IInv, BeginCopy PROVE IInv'
<1> DEFINE x == [Mine EXCEPT !.ready = "Writing", !.picture = Torn]
<1>1. /\ x \in Slot /\ x.ready = "Writing" /\ x.leases = Mine.leases
  <2>1. Torn \in 0..MaxEra  BY Bounds DEF Torn
  <2> QED  BY <2>1, MineFacts DEF Slot
<1>2. producer.pc \in Holding /\ "Copying" \in Claiming
  BY DEF BeginCopy, ProducerStep, Holding, Claiming
<1>3. Mine.leases = Writer  BY <1>2, HoldingAlone
<1>4. Store(x) /\ Goto("Copying")  BY DEF BeginCopy
<1> HIDE DEF x
<1> QED  BY <1>1, <1>2, <1>3, <1>4, OwnStoreStep DEF BeginCopy, ProducerStep

LEMMA FinishCopyStep == ASSUME IInv, FinishCopy PROVE IInv'
<1> DEFINE x == [Mine EXCEPT !.picture = producer.era]
<1>1. producer.era \in 0..MaxEra  BY Fields DEF IInv
<1>2. /\ x \in Slot /\ x.ready = Mine.ready /\ x.leases = Mine.leases
      /\ x.picture = producer.era
  BY <1>1, MineFacts DEF Slot
<1>3. producer.pc \in Holding /\ "Copied" \in Claiming
  BY DEF FinishCopy, ProducerStep, Holding, Claiming
<1>4. Mine.leases = Writer /\ Mine.ready = "Writing"
  BY <1>3, HoldingAlone DEF IInv, OwnShape, FinishCopy, ProducerStep, Filling
<1>5. Store(x) /\ Goto("Copied")  BY DEF FinishCopy
<1> HIDE DEF x
<1> QED  BY <1>2, <1>3, <1>4, <1>5, OwnStoreStep DEF FinishCopy, ProducerStep

LEMMA LabelStep == ASSUME IInv, Label PROVE IInv'
<1> DEFINE x == [Mine EXCEPT !.generation = producer.token,
                             !.sequence = meta.latest + 1]
<1>1. producer.token \in 0..MaxGeneration /\ meta.latest \in 0..MaxFrames
  BY Fields DEF IInv
<1>2. meta.latest < MaxFrames  BY DEF IInv, WorkShape, Label, ProducerStep
<1>3. meta.latest + 1 \in 0..MaxFrames  BY <1>1, <1>2, Bounds
<1>4. /\ x \in Slot /\ x.ready = Mine.ready /\ x.leases = Mine.leases
      /\ x.picture = Mine.picture /\ x.generation = producer.token
  BY <1>1, <1>3, MineFacts DEF Slot
<1>5. producer.pc \in Holding /\ "Labelled" \in Claiming
  BY DEF Label, ProducerStep, Holding, Claiming
<1>6. Mine.leases = Writer /\ Mine.ready = "Writing" /\ Mine.picture = producer.era
  BY <1>5, HoldingAlone DEF IInv, OwnShape, Label, ProducerStep, Filling
<1>7. Store(x) /\ Goto("Labelled")  BY DEF Label
<1> HIDE DEF x
<1> QED  BY <1>4, <1>5, <1>6, <1>7, OwnStoreStep DEF Label, ProducerStep

LEMMA SetDoneStep == ASSUME IInv, SetDone PROVE IInv'
<1> DEFINE x == [Mine EXCEPT !.ready = "Done"]
<1>1. /\ x \in Slot /\ x.leases = Mine.leases
      /\ x.picture = Mine.picture /\ x.generation = Mine.generation
  BY MineFacts DEF Slot
<1>2. producer.pc \in Holding /\ "Done" \in Claiming
  BY DEF SetDone, ProducerStep, Holding, Claiming
<1>3. /\ Mine.leases = Writer /\ Mine.picture = producer.era
      /\ Mine.generation = producer.token
  BY <1>2, HoldingAlone DEF IInv, OwnShape, SetDone, ProducerStep, Filling
<1>4. producer.era \in 1..MaxEra /\ producer.token = Gen(producer.era)
  BY DEF IInv, WorkShape, SetDone, ProducerStep
<1>5. x.picture # Torn /\ x.generation = Gen(x.picture)
  BY <1>1, <1>3, <1>4, Bounds DEF Torn
<1>6. Store(x) /\ Goto("Done")  BY DEF SetDone
<1> HIDE DEF x
<1> QED
  BY <1>1, <1>2, <1>3, <1>5, <1>6, OwnStoreStep
  DEF SetDone, ProducerStep, Filling

LEMMA FreeSlotStep == ASSUME IInv, FreeSlot PROVE IInv'
<1> DEFINE x == [Mine EXCEPT !.leases = 0]
<1>1. /\ x \in Slot /\ x.leases = 0 /\ x.ready = Mine.ready
      /\ x.picture = Mine.picture /\ x.generation = Mine.generation
  BY MineFacts DEF Slot
<1>2. producer.pc \in Holding /\ "Freed" \in Claiming
  BY DEF FreeSlot, ProducerStep, Holding, Claiming
<1>3. Mine.ready = "Done" => Mine.picture # Torn /\ Mine.generation = Gen(Mine.picture)
  BY MineFacts DEF IInv, SlotShape, Mine
<1>4. Store(x) /\ Goto("Freed")  BY DEF FreeSlot
<1> HIDE DEF x
<1> QED
  BY <1>1, <1>2, <1>3, <1>4, OwnStoreStep DEF FreeSlot, ProducerStep, Filling, Holding

LEMMA ConfirmGenerationStep == ASSUME IInv, ConfirmGeneration PROVE IInv'
<1>1. /\ producer.pc \in Holding /\ "Confirmed" \in Claiming
      /\ "Discarding" \in Claiming
  BY DEF ConfirmGeneration, ProducerStep, Holding, Claiming
<1>2. Mine.leases = Writer /\ Mine.ready = "Writing" /\ Mine.picture = producer.era
  BY <1>1, HoldingAlone DEF IInv, OwnShape, ConfirmGeneration, ProducerStep, Filling
<1>3. CASE Goto("Confirmed") /\ UNCHANGED slots
  <2>1. Store(Mine)
    BY <1>3, Fields DEF IInv, TypeOK, Store, Mine
  <2> QED
    BY <1>1, <1>2, <1>3, <2>1, MineFacts, OwnStoreStep
    DEF ConfirmGeneration, ProducerStep
<1>4. CASE Goto("Discarding") /\ Store([Mine EXCEPT !.ready = "Empty"])
  <2> DEFINE x == [Mine EXCEPT !.ready = "Empty"]
  <2>1. x \in Slot /\ x.leases = Mine.leases /\ x.ready = "Empty"
    BY MineFacts DEF Slot
  <2>2. Store(x) /\ Goto("Discarding")  BY <1>4
  <2> HIDE DEF x
  <2> QED
    BY <1>1, <1>2, <2>1, <2>2, OwnStoreStep
    DEF ConfirmGeneration, ProducerStep, Filling
<1> QED  BY <1>3, <1>4 DEF ConfirmGeneration

LEMMA DiscardStep == ASSUME IInv, Discard PROVE IInv'
<1> DEFINE x == [Mine EXCEPT !.leases = 0]
<1>1. /\ x \in Slot /\ x.leases = 0 /\ x.ready = Mine.ready
      /\ x.picture = Mine.picture /\ x.generation = Mine.generation
  BY MineFacts DEF Slot
<1>2. Leaseholders(producer.slot) = {}
  BY HoldingAlone DEF Discard, ProducerStep, Holding, Claiming
<1>3. x.ready = "Done" => x.picture # Torn /\ x.generation = Gen(x.picture)
  <2>1. Mine.ready = "Done" => Mine.picture # Torn /\ Mine.generation = Gen(Mine.picture)
    BY MineFacts DEF IInv, SlotShape, Mine
  <2> HIDE DEF x
  <2> QED  BY <1>1, <2>1
<1>4. producer' \in Producer /\ producer'.pc = "Idle"
  BY NoWorkType DEF Discard, Return, NoWork
<1>5. WorkShape' /\ OwnShape'
  BY <1>4 DEF WorkShape, OwnShape, Holding, Filling, Claiming
<1>6. LockShape'
  BY <1>4, LockFrame DEF IInv, Discard, ProducerStep, Claiming
<1>7. Store(x)  BY DEF Discard
<1> HIDE DEF x
<1> QED
  BY <1>1, <1>2, <1>3, <1>4, <1>5, <1>6, <1>7, StoreStep DEF Discard, ProducerStep

(* Without readers under the kernel lock there is no lease that counts.     *)
LEMMA LockSlotStep == ASSUME IInv, LockSlot PROVE IInv'
<1>1. CASE kernel /\ Sharing(producer.slot) # {}
  BY <1>1, NextSlotStep DEF LockSlot, ProducerStep
<1>2. CASE ~(kernel /\ Sharing(producer.slot) # {})
  <2>1. /\ producer.pc = "Scan" /\ "Locked" \in Claiming /\ Goto("Locked")
        /\ UNCHANGED <<kernel, fence, readers, era, crashes, meta>>
    BY <1>2 DEF LockSlot, ProducerStep, Claiming
  <2>2. /\ producer' \in Producer /\ producer'.pc = "Locked"
        /\ producer'.era = producer.era /\ producer'.token = producer.token
        /\ producer'.slot = producer.slot
    BY <2>1, GotoFacts DEF IInv
  <2>3. WorkShape' /\ OwnShape'
    BY <2>1, <2>2 DEF IInv, WorkShape, OwnShape, Gen, Holding, Filling, Claiming
  <2>4. LockShape'
    BY <1>2, <2>1, <2>2 DEF IInv, LockShape, Exclusive, Sharing
  <2>5. CASE kernel
    <3> DEFINE x == [Mine EXCEPT !.leases = 0]
    <3>1. /\ x \in Slot /\ x.leases = 0 /\ x.ready = Mine.ready
          /\ x.picture = Mine.picture /\ x.generation = Mine.generation
      BY MineFacts DEF Slot
    <3>2. Leaseholders(producer.slot) = {}
      BY <1>2, <2>5 DEF Leaseholders, Sharing, Locking
    <3>3. Mine.ready = "Done" => Mine.picture # Torn /\ Mine.generation = Gen(Mine.picture)
      BY MineFacts DEF IInv, SlotShape, Mine
    <3>4. Store(x)  BY <1>2, <2>5 DEF LockSlot
    <3> HIDE DEF x
    <3> QED  BY <2>1, <2>2, <2>3, <2>4, <3>1, <3>2, <3>3, <3>4, StoreStep
  <2>6. CASE ~kernel
    <3>1. UNCHANGED slots  BY <1>2, <2>6 DEF LockSlot
    <3>2. TypeOK'  BY <2>1, <2>2, <3>1 DEF IInv, TypeOK
    <3>3. GenerationIsEra' /\ FenceShape'
      BY <2>1, <2>2 DEF IInv, GenerationIsEra, FenceShape, Gen
    <3> QED  BY <2>1, <2>3, <2>4, <3>1, <3>2, <3>3, SlotsFrame DEF IInv
  <2> QED  BY <2>5, <2>6
<1> QED  BY <1>1, <1>2

LEMMA LeaseSlotStep == ASSUME IInv, LeaseSlot PROVE IInv'
<1>1. CASE Mine.leases # 0
  BY <1>1, NextSlotStep DEF LeaseSlot, ProducerStep
<1>2. CASE Mine.leases = 0
  <2> DEFINE x == [Mine EXCEPT !.leases = Writer]
  <2>1. /\ x \in Slot /\ x.leases = Writer /\ x.ready = Mine.ready
        /\ x.picture = Mine.picture /\ x.generation = Mine.generation
    BY MineFacts DEF Slot
  <2>2. Leaseholders(producer.slot) = {}
    <3> DEFINE L == Leaseholders(producer.slot)
    <3>1. 0 >= Cardinality(L) /\ Cardinality(L) \in Nat
      BY <1>2, MineFacts, LeaseholdersFinite DEF IInv, LeasesCountReaders, Mine, Writer
    <3>2. Cardinality(L) = 0  BY <3>1
    <3> QED  BY <3>2, LeaseholdersFinite
  <2>3. Mine.ready = "Done" => Mine.picture # Torn /\ Mine.generation = Gen(Mine.picture)
    BY MineFacts DEF IInv, SlotShape, Mine
  <2>4. /\ Store(x) /\ producer.pc = "Locked" /\ Goto("Leased") /\ "Leased" \in Claiming
        /\ UNCHANGED <<kernel, fence, readers, era, crashes, meta>>
    BY <1>2 DEF LeaseSlot, ProducerStep, Claiming
  <2> HIDE DEF x
  <2>5. /\ producer' \in Producer /\ producer'.pc = "Leased"
        /\ producer'.era = producer.era /\ producer'.token = producer.token
        /\ producer'.slot = producer.slot
    BY <2>4, GotoFacts DEF IInv
  <2>6. WorkShape'  BY <2>4, <2>5 DEF IInv, WorkShape, Gen
  <2>7. LockShape'  BY <2>4, <2>5, LockFrame DEF IInv, Claiming
  <2>8. OwnShape'
    <3>1. slots'[producer.slot] = x  BY <2>4, MineFacts DEF IInv, TypeOK, Store
    <3> QED  BY <2>1, <2>5, <3>1 DEF OwnShape, Mine, Filling
  <2> QED  BY <2>1, <2>2, <2>3, <2>4, <2>5, <2>6, <2>7, <2>8, StoreStep
<1> QED  BY <1>1, <1>2

LEMMA PublishesStep == ASSUME IInv, Publishes PROVE IInv'
BY CheckGenerationStep, CheckKindStep, LockSlotStep, LeaseSlotStep, BeginCopyStep,
   FinishCopyStep, ConfirmGenerationStep, DiscardStep, LabelStep, SetDoneStep,
   FreeSlotStep, AnnounceStep, AdvanceIndexStep
DEF Publishes

-----------------------------------------------------------------------------
LEMMA ReaderFacts ==
    ASSUME IInv, NEW r \in Readers
    PROVE /\ readers[r] \in Reader /\ readers[r].slot \in Slots /\ At(r) \in Slot
          /\ readers[r].floor \in Nat
BY Fields DEF IInv, At, Reader

LEMMA BecomeFacts ==
    ASSUME IInv, NEW r \in Readers, NEW x \in Reader, Become(r, x)
    PROVE /\ readers' \in [Readers -> Reader]
          /\ readers'[r] = x /\ \A q \in Readers \ {r}: readers'[q] = readers[q]
BY DEF IInv, TypeOK, Become

(* Only leases of slots change, and one consumer moves on.                  *)
LEMMA ReaderStepKeeps ==
    ASSUME IInv, NEW r \in Readers, NEW x \in Reader, Become(r, x),
           UNCHANGED <<kernel, meta, producer, fence, era>>,
           crashes' \in 0..MaxCrashes, slots' \in [Slots -> Slot],
           \A i \in Slots: /\ slots'[i].ready = slots[i].ready
                           /\ slots'[i].sequence = slots[i].sequence
                           /\ slots'[i].picture = slots[i].picture
                           /\ slots'[i].generation = slots[i].generation,
           \A i \in Slots: slots[i].leases = Writer /\ Exclusive(i) =>
                               slots'[i].leases = Writer,
           x.pc # "Idle" => x.floor <= era,
           x.pc \in {"Same", "Viewing"} => /\ slots[x.slot].ready = "Done"
                                           /\ slots[x.slot].sequence = x.sequence,
           x.pc = "Viewing" => slots[x.slot].picture >= x.floor,
           x.pc \in Locking => /\ kernel => ~Exclusive(x.slot)
                               /\ ~kernel => x.pc # "Locked",
           LeasesCountReaders'
    PROVE IInv'
<1>1. TypeOK'  BY BecomeFacts DEF IInv, TypeOK
<1>2. GenerationIsEra' /\ FenceShape' /\ WorkShape'
  BY DEF IInv, GenerationIsEra, FenceShape, WorkShape, Gen
<1>3. LockShape'
  <2>1. SUFFICES ASSUME NEW q \in Readers, readers'[q].pc \in Locking
                 PROVE /\ kernel => ~Exclusive(readers'[q].slot)
                       /\ ~kernel => readers'[q].pc # "Locked"
    BY DEF LockShape, Exclusive
  <2> QED  BY <2>1, BecomeFacts DEF IInv, LockShape
<1>4. OwnShape'
  <2>1. producer.slot \in Slots  BY MineFacts
  <2>2. producer.pc \in Holding => Exclusive(producer.slot)
    BY DEF Holding, Exclusive
  <2> QED  BY <2>1, <2>2 DEF IInv, OwnShape, Mine
<1>5. SlotShape'  BY DEF IInv, SlotShape, Gen
<1>6. ReaderShape'
  <2>1. SUFFICES ASSUME NEW q \in Readers
                 PROVE /\ readers'[q].pc # "Idle" => readers'[q].floor <= era
                       /\ readers'[q].pc \in {"Same", "Viewing"} =>
                             /\ slots'[readers'[q].slot].ready = "Done"
                             /\ slots'[readers'[q].slot].sequence = readers'[q].sequence
                       /\ readers'[q].pc = "Viewing" =>
                             slots'[readers'[q].slot].picture >= readers'[q].floor
    BY DEF ReaderShape, StillPublished, At
  <2>2. CASE q = r
    <3>1. x.slot \in Slots  BY DEF Reader
    <3> QED  BY <2>2, <3>1, BecomeFacts
  <2>3. CASE q # r
    BY <2>3, BecomeFacts, ReaderFacts DEF IInv, ReaderShape, StillPublished, At
  <2> QED  BY <2>2, <2>3
<1> QED  BY <1>1, <1>2, <1>3, <1>4, <1>5, <1>6 DEF IInv

(* A consumer that does not begin or end to hold a lease.                   *)
LEMMA LeasesSame ==
    ASSUME IInv, NEW r \in Readers, NEW x \in Reader, Become(r, x),
           UNCHANGED crashes,
           \A i \in Slots: \/ slots'[i].leases = slots[i].leases
                           \/ slots[i].leases = Writer /\ slots'[i].leases = 0,
           x.pc \in Leasing <=> readers[r].pc \in Leasing,
           x.pc \in Leasing => x.slot = readers[r].slot
    PROVE LeasesCountReaders'
<1>1. \A i: Leaseholders(i)' = Leaseholders(i)  BY BecomeFacts DEF Leaseholders
<1>2. SUFFICES ASSUME NEW i \in Slots
               PROVE /\ slots'[i].leases = Writer => Leaseholders(i) = {}
                     /\ slots'[i].leases # Writer =>
                           slots'[i].leases >= Cardinality(Leaseholders(i))
                     /\ crashes = 0 /\ slots'[i].leases # Writer =>
                           slots'[i].leases = Cardinality(Leaseholders(i))
  BY <1>1 DEF LeasesCountReaders
<1>3. CASE slots'[i].leases = slots[i].leases
  BY <1>3 DEF IInv, LeasesCountReaders
<1>4. CASE slots[i].leases = Writer /\ slots'[i].leases = 0
  <2>1. Cardinality(Leaseholders(i)) = 0
    BY <1>4, LeaseholdersFinite DEF IInv, LeasesCountReaders
  <2> QED  BY <1>4, <2>1 DEF Writer
<1> QED  BY <1>3, <1>4

(* A step of a consumer that does not touch the slots.                      *)
LEMMA QuietReader ==
    ASSUME IInv, NEW r \in Readers, NEW x \in Reader, Become(r, x),
           UNCHANGED <<kernel, meta, producer, fence, era, crashes, slots>>,
           x.pc \in Leasing <=> readers[r].pc \in Leasing,
           x.pc \in Leasing => x.slot = readers[r].slot,
           x.pc # "Idle" => x.floor <= era,
           x.pc \in {"Same", "Viewing"} => /\ slots[x.slot].ready = "Done"
                                           /\ slots[x.slot].sequence = x.sequence,
           x.pc = "Viewing" => slots[x.slot].picture >= x.floor,
           x.pc \in Locking => /\ kernel => ~Exclusive(x.slot)
                               /\ ~kernel => x.pc # "Locked"
    PROVE IInv'
<1>1. LeasesCountReaders'
  <2>1. UNCHANGED crashes  OBVIOUS
  <2>2. \A i \in Slots: \/ slots'[i].leases = slots[i].leases
                        \/ slots[i].leases = Writer /\ slots'[i].leases = 0
    OBVIOUS
  <2> QED  BY <2>1, <2>2, LeasesSame, Zenon
<1>2. crashes' \in 0..MaxCrashes /\ slots' \in [Slots -> Slot]
  BY DEF IInv, TypeOK
<1> QED  BY <1>1, <1>2, ReaderStepKeeps

LEMMA NoReadType == NoRead \in Reader
<1>1. [i \in Slots |-> 0] \in [Slots -> 0..MaxFrames]  BY Bounds
<1>2. 0 \in Slots /\ 0 \in 0..MaxFrames /\ 0 \in 0..MaxEra  BY Bounds
<1> QED  BY <1>1, <1>2 DEF NoRead, Reader

LEMMA CandidateType ==
    ASSUME IInv, NEW r \in Readers, NEW i \in Slots
    PROVE /\ Candidate(r, i) \in Reader /\ Candidate(r, i).pc = "Pick"
          /\ Candidate(r, i).floor = readers[r].floor
<1>1. readers[r] \in Reader  BY ReaderFacts
<1>2. 0 \in Slots /\ 0 \in 0..MaxFrames  BY Bounds
<1>3. [readers[r].seen EXCEPT ![i] = 0] \in [Slots -> 0..MaxFrames]
  BY <1>1, <1>2 DEF Reader
<1> QED  BY <1>1, <1>2, <1>3 DEF Candidate, Reader

(* A call that gives a slot up has the floor it began with.                 *)
LEMMA GiveUpFacts ==
    ASSUME IInv, NEW r \in Readers, GiveUp(r), readers[r].pc # "Idle"
    PROVE \E x \in Reader: /\ Become(r, x) /\ x.pc = "Pick" /\ x.floor <= era
BY CandidateType, ReaderFacts DEF IInv, ReaderShape, GiveUp

LEMMA BeginReadStep == ASSUME IInv, NEW r \in Readers, BeginRead(r) PROVE IInv'
<1> DEFINE x == [NoRead EXCEPT !.pc = "Scan", !.floor = era]
<1>1. era \in 0..MaxEra  BY DEF IInv, TypeOK
<1>2. x \in Reader /\ x.pc = "Scan" /\ x.floor = era
  BY <1>1, NoReadType DEF Reader
<1>3. /\ Become(r, x) /\ readers[r].pc = "Idle"
      /\ UNCHANGED <<kernel, meta, producer, fence, era, crashes, slots>>
  BY DEF BeginRead, ReaderStep
<1> HIDE DEF x
<1> QED  BY <1>1, <1>2, <1>3, QuietReader DEF Leasing, Locking

LEMMA ScanSlotStep == ASSUME IInv, NEW r \in Readers, ScanSlot(r) PROVE IInv'
<1> DEFINE i == readers[r].slot
           seen == IF slots[i].ready = "Done" THEN slots[i].sequence ELSE 0
           last == i + 1 = SlotCount
           next == IF last THEN 0 ELSE i + 1
           pc == IF last THEN "Pick" ELSE "Scan"
           x == [readers[r] EXCEPT !.seen[i] = seen, !.slot = next, !.pc = pc]
<1>1. i \in Slots /\ readers[r] \in Reader /\ slots[i] \in Slot
  BY ReaderFacts DEF At
<1>2. seen \in 0..MaxFrames  BY <1>1, Bounds DEF Slot
<1>3. next \in Slots
  <2> HIDE DEF i
  <2>1. i + 1 # SlotCount => i + 1 \in Slots  BY <1>1, Bounds DEF Slots
  <2> QED  BY <2>1, Bounds
<1>4. pc \in {"Pick", "Scan"}  OBVIOUS
<1>5. /\ Become(r, x) /\ readers[r].pc = "Scan"
      /\ UNCHANGED <<kernel, meta, producer, fence, era, crashes, slots>>
  BY DEF ScanSlot, ReaderStep
<1> HIDE DEF i, seen, next, pc, last
<1>6. [readers[r].seen EXCEPT ![i] = seen] \in [Slots -> 0..MaxFrames]
  BY <1>1, <1>2 DEF Reader
<1>7. x \in Reader /\ x.pc = pc /\ x.floor = readers[r].floor
  BY <1>1, <1>3, <1>4, <1>6 DEF Reader
<1>8. readers[r].floor <= era  BY <1>5 DEF IInv, ReaderShape
<1> HIDE DEF x
<1> QED  BY <1>4, <1>5, <1>7, <1>8, QuietReader DEF Leasing, Locking

LEMMA PickSlotStep == ASSUME IInv, NEW r \in Readers, PickSlot(r) PROVE IInv'
<1>1. PICK i \in Slots:
        /\ readers[r].seen[i] # 0
        /\ IF kernel /\ Exclusive(i) THEN Become(r, Candidate(r, i))
           ELSE Become(r, [readers[r] EXCEPT !.slot = i,
                              !.sequence = readers[r].seen[i],
                              !.pc = IF kernel THEN "Locked" ELSE "Open"])
  BY DEF PickSlot
<1>2. /\ readers[r].pc = "Pick"
      /\ UNCHANGED <<kernel, meta, producer, fence, era, crashes, slots>>
  BY DEF PickSlot, ReaderStep
<1>3. readers[r].floor <= era  BY <1>2 DEF IInv, ReaderShape
<1>4. CASE kernel /\ Exclusive(i)
  BY <1>1, <1>2, <1>3, <1>4, CandidateType, QuietReader DEF Leasing, Locking
<1>5. CASE ~(kernel /\ Exclusive(i))
  <2> DEFINE pc == IF kernel THEN "Locked" ELSE "Open"
             x == [readers[r] EXCEPT !.slot = i, !.sequence = readers[r].seen[i],
                                     !.pc = pc]
  <2>1. Become(r, x)  BY <1>1, <1>5
  <2>2. pc \in {"Locked", "Open"} /\ (~kernel => pc # "Locked")  OBVIOUS
  <2> HIDE DEF pc
  <2>3. /\ x \in Reader /\ x.pc = pc /\ x.slot = i /\ x.floor = readers[r].floor
    BY <2>2, ReaderFacts DEF Reader, Locking
  <2> HIDE DEF x
  <2> QED
    BY <1>2, <1>3, <1>5, <2>1, <2>2, <2>3, QuietReader DEF Leasing, Locking
<1> QED  BY <1>4, <1>5

LEMMA NothingToReadStep ==
    ASSUME IInv, NEW r \in Readers, NothingToRead(r) PROVE IInv'
<1>1. NoRead.pc = "Idle"  BY DEF NoRead
<1> QED
  BY <1>1, NoReadType, QuietReader DEF NothingToRead, ReaderStep, Leasing, Locking

(* A call that has a slot under its lock keeps the lock, or gives it up.    *)
LEMMA CheckSlotStep == ASSUME IInv, NEW r \in Readers, CheckSlot(r) PROVE IInv'
<1>1. /\ readers[r].pc = "Open" /\ readers[r].floor <= era
      /\ UNCHANGED <<kernel, meta, producer, fence, era, crashes, slots>>
  BY DEF IInv, ReaderShape, CheckSlot, ReaderStep
<1>2. CASE GiveUp(r)
  <2>1. PICK x \in Reader: Become(r, x) /\ x.pc = "Pick" /\ x.floor <= era
    BY <1>1, <1>2, GiveUpFacts
  <2> QED  BY <1>1, <2>1, QuietReader DEF Leasing, Locking
<1>3. CASE Become(r, [readers[r] EXCEPT !.pc = "Checked"])
  <2> DEFINE x == [readers[r] EXCEPT !.pc = "Checked"]
  <2>1. /\ x \in Reader /\ x.pc = "Checked" /\ x.slot = readers[r].slot
        /\ x.floor = readers[r].floor
    BY ReaderFacts DEF Reader, Locking
  <2>2. Become(r, x)  BY <1>3
  <2>3. kernel => ~Exclusive(readers[r].slot)
    BY <1>1 DEF IInv, LockShape, Locking
  <2> HIDE DEF x
  <2> QED  BY <1>1, <2>1, <2>2, <2>3, QuietReader DEF Leasing, Locking
<1> QED  BY <1>2, <1>3 DEF CheckSlot

LEMMA SetLeasesFacts ==
    ASSUME IInv, NEW r \in Readers, NEW n \in Nat, SetLeases(r, n)
    PROVE /\ slots' \in [Slots -> Slot]
          /\ slots'[readers[r].slot].leases = n
          /\ \A i \in Slots: /\ i # readers[r].slot => slots'[i] = slots[i]
                             /\ slots'[i].ready = slots[i].ready
                             /\ slots'[i].sequence = slots[i].sequence
                             /\ slots'[i].picture = slots[i].picture
                             /\ slots'[i].generation = slots[i].generation
<1>1. readers[r].slot \in Slots /\ slots \in [Slots -> Slot]
  BY ReaderFacts DEF IInv, TypeOK
<1>2. slots' = [slots EXCEPT ![readers[r].slot] =
                   [slots[readers[r].slot] EXCEPT !.leases = n]]
  BY DEF SetLeases
<1> QED  BY <1>1, <1>2 DEF Slot

LEMMA RecoverSlotStep == ASSUME IInv, NEW r \in Readers, RecoverSlot(r) PROVE IInv'
<1> DEFINE x == [readers[r] EXCEPT !.pc = "Open"]
<1>1. /\ readers[r].pc = "Locked" /\ readers[r].floor <= era /\ Become(r, x)
      /\ UNCHANGED <<kernel, meta, producer, fence, era, crashes>>
  BY DEF IInv, ReaderShape, RecoverSlot, ReaderStep
<1>2. /\ x \in Reader /\ x.pc = "Open" /\ x.slot = readers[r].slot
      /\ x.floor = readers[r].floor
  BY ReaderFacts DEF Reader, Locking
<1>3. kernel /\ ~Exclusive(readers[r].slot)
  BY <1>1 DEF IInv, TypeOK, LockShape, Locking
<1> HIDE DEF x
<1>4. CASE UNCHANGED slots
  BY <1>1, <1>2, <1>3, <1>4, QuietReader DEF Leasing, Locking
<1>5. CASE At(r).leases = Writer /\ SetLeases(r, 0)
  <2>1. /\ slots' \in [Slots -> Slot]
        /\ slots'[readers[r].slot].leases = 0
        /\ \A i \in Slots: i # readers[r].slot => slots'[i] = slots[i]
    BY <1>5, SetLeasesFacts
  <2>2. \A i \in Slots: \/ slots'[i].leases = slots[i].leases
                        \/ slots[i].leases = Writer /\ slots'[i].leases = 0
    BY <1>5, <2>1 DEF At
  <2>3. LeasesCountReaders'
    BY <1>1, <1>2, <2>2, LeasesSame DEF Leasing
  <2>4. \A i \in Slots: slots[i].leases = Writer /\ Exclusive(i) =>
                           slots'[i].leases = Writer
    BY <1>3, <2>1
  <2>5. crashes' \in 0..MaxCrashes  BY <1>1 DEF IInv, TypeOK
  <2> QED
    BY <1>1, <1>2, <1>3, <1>5, <2>1, <2>3, <2>4, <2>5, SetLeasesFacts,
       ReaderStepKeeps DEF Locking
<1> QED  BY <1>4, <1>5 DEF RecoverSlot

-----------------------------------------------------------------------------
(* One more lease, and one more reader that holds it.                       *)
LEMMA TakeLeaseStep == ASSUME IInv, NEW r \in Readers, TakeLease(r) PROVE IInv'
<1>1. /\ readers[r].pc = "Checked" /\ readers[r].floor <= era
      /\ UNCHANGED <<kernel, meta, producer, fence, era, crashes>>
  BY DEF IInv, ReaderShape, TakeLease, ReaderStep
<1>2. CASE At(r).leases = Writer
  <2>1. GiveUp(r) /\ UNCHANGED slots  BY <1>2 DEF TakeLease
  <2>2. PICK x \in Reader: Become(r, x) /\ x.pc = "Pick" /\ x.floor <= era
    BY <1>1, <2>1, GiveUpFacts
  <2> QED  BY <1>1, <2>1, <2>2, QuietReader DEF Leasing, Locking
<1>3. CASE At(r).leases # Writer
  <2> DEFINE x == [readers[r] EXCEPT !.pc = "Leased"]
             n == At(r).leases + 1
  <2>0. PICK s \in Slots: s = readers[r].slot  BY ReaderFacts
  <2>1. At(r).leases \in Nat  BY <1>3, ReaderFacts DEF Slot
  <2>2. n \in Nat /\ SetLeases(r, n) /\ Become(r, x)  BY <1>3, <2>1 DEF TakeLease
  <2>3. /\ x \in Reader /\ x.pc = "Leased" /\ x.slot = s
        /\ x.floor = readers[r].floor
    BY <2>0, ReaderFacts DEF Reader, Locking, Leasing
  <2>5. /\ slots' \in [Slots -> Slot] /\ slots'[s].leases = n
        /\ \A i \in Slots: i # s => slots'[i] = slots[i]
    BY <2>0, <2>2, SetLeasesFacts
  <2>6. slots[s].leases + 1 = n /\ slots[s].leases \in Nat /\ slots[s].leases # Writer
    BY <1>3, <2>0, <2>1 DEF At
  <2> HIDE DEF x, n
  <2>7. Leaseholders(s)' = Leaseholders(s) \cup {r} /\ r \notin Leaseholders(s)
    BY <1>1, <2>2, <2>3, BecomeFacts DEF Leaseholders, Leasing
  <2>8. \A i: i # s => Leaseholders(i)' = Leaseholders(i)
    BY <1>1, <2>2, <2>3, BecomeFacts DEF Leaseholders, Leasing
  <2>9. Cardinality(Leaseholders(s)') = Cardinality(Leaseholders(s)) + 1
    BY <2>7, LeaseholdersFinite, FS_AddElement
  <2>10. LeasesCountReaders'
    <3>1. SUFFICES ASSUME NEW i \in Slots
                   PROVE /\ slots'[i].leases = Writer => Leaseholders(i)' = {}
                         /\ slots'[i].leases # Writer =>
                               slots'[i].leases >= Cardinality(Leaseholders(i)')
                         /\ crashes = 0 /\ slots'[i].leases # Writer =>
                               slots'[i].leases = Cardinality(Leaseholders(i)')
      BY <1>1 DEF LeasesCountReaders
    <3>2. CASE i = s
      <4>1. /\ slots[s].leases >= Cardinality(Leaseholders(s))
            /\ crashes = 0 => slots[s].leases = Cardinality(Leaseholders(s))
        BY <2>6 DEF IInv, LeasesCountReaders
      <4>2. Cardinality(Leaseholders(s)) \in Nat  BY LeaseholdersFinite
      <4> QED  BY <2>2, <2>5, <2>6, <2>9, <3>2, <4>1, <4>2 DEF Writer
    <3>3. CASE i # s
      BY <2>5, <2>8, <3>3 DEF IInv, LeasesCountReaders
    <3> QED  BY <3>2, <3>3
  <2>11. kernel => ~Exclusive(s)
    BY <1>1, <2>0 DEF IInv, LockShape, Locking
  <2>12. \A i \in Slots: slots[i].leases = Writer /\ Exclusive(i) =>
                            slots'[i].leases = Writer
    BY <2>5, <2>6
  <2>13. crashes' \in 0..MaxCrashes  BY <1>1 DEF IInv, TypeOK
  <2>14. \A i \in Slots: /\ slots'[i].ready = slots[i].ready
                         /\ slots'[i].sequence = slots[i].sequence
                         /\ slots'[i].picture = slots[i].picture
                         /\ slots'[i].generation = slots[i].generation
    BY <2>2, SetLeasesFacts
  <2> QED
    BY <1>1, <2>2, <2>3, <2>5, <2>10, <2>11, <2>12, <2>13, <2>14, ReaderStepKeeps
<1> QED  BY <1>2, <1>3

(* Who gives a lease back, and goes where it holds none.                    *)
LEMMA DropLeaseStep ==
    ASSUME IInv, NEW r \in Readers, readers[r].pc \in Leasing,
           UNCHANGED <<kernel, meta, producer, fence, era, crashes>>, DropLease(r),
           NEW x \in Reader, Become(r, x), x.pc \in {"Idle", "Pick"},
           x.pc # "Idle" => x.floor <= era
    PROVE IInv'
<1>0. PICK s \in Slots: s = readers[r].slot  BY ReaderFacts
<1> DEFINE n == slots[s].leases - 1
<1>1. slots[s] \in Slot  BY <1>0, ReaderFacts DEF At
<1>2. r \in Leaseholders(s)  BY <1>0 DEF Leaseholders
<1>3. slots[s].leases \in Nat /\ slots[s].leases # Writer
  <2>1. Leaseholders(s) # {}  BY <1>2
  <2>2. slots[s].leases # Writer  BY <1>1, <2>1 DEF IInv, LeasesCountReaders
  <2> QED  BY <1>1, <2>2 DEF Slot
<1>4. Cardinality(Leaseholders(s)) \in Nat /\ Cardinality(Leaseholders(s)) # 0
  BY <1>2, LeaseholdersFinite
<1>5. /\ slots[s].leases >= Cardinality(Leaseholders(s))
      /\ crashes = 0 => slots[s].leases = Cardinality(Leaseholders(s))
  BY <1>1, <1>3 DEF IInv, LeasesCountReaders
<1>6. n \in Nat  BY <1>3, <1>4, <1>5
<1>7. SetLeases(r, n)  BY <1>0 DEF DropLease, At
<1> HIDE DEF n
<1>8. /\ slots' \in [Slots -> Slot] /\ slots'[s].leases = n
      /\ \A i \in Slots: i # s => slots'[i] = slots[i]
  BY <1>0, <1>6, <1>7, SetLeasesFacts
<1>9. Leaseholders(s)' = Leaseholders(s) \ {r}
  BY <1>0, BecomeFacts DEF Leaseholders, Leasing
<1>10. \A i: i # s => Leaseholders(i)' = Leaseholders(i)
  BY <1>0, BecomeFacts DEF Leaseholders, Leasing
<1>11. Cardinality(Leaseholders(s)') = Cardinality(Leaseholders(s)) - 1
  BY <1>2, <1>9, LeaseholdersFinite, FS_RemoveElement
<1>12. LeasesCountReaders'
  <2>1. SUFFICES ASSUME NEW i \in Slots
                 PROVE /\ slots'[i].leases = Writer => Leaseholders(i)' = {}
                       /\ slots'[i].leases # Writer =>
                             slots'[i].leases >= Cardinality(Leaseholders(i)')
                       /\ crashes = 0 /\ slots'[i].leases # Writer =>
                             slots'[i].leases = Cardinality(Leaseholders(i)')
    BY DEF LeasesCountReaders
  <2>2. CASE i = s
    <3>1. n = slots[s].leases - 1  BY DEF n
    <3>2. n # Writer  BY <1>6 DEF Writer
    <3> QED  BY <1>3, <1>4, <1>5, <1>6, <1>8, <1>11, <2>2, <3>1, <3>2
  <2>3. CASE i # s
    BY <1>8, <1>10, <2>3 DEF IInv, LeasesCountReaders
  <2> QED  BY <2>2, <2>3
<1>13. \A i \in Slots: slots[i].leases = Writer /\ Exclusive(i) =>
                          slots'[i].leases = Writer
  BY <1>3, <1>8
<1>14. crashes' \in 0..MaxCrashes  BY DEF IInv, TypeOK
<1>15. \A i \in Slots: /\ slots'[i].ready = slots[i].ready
                       /\ slots'[i].sequence = slots[i].sequence
                       /\ slots'[i].picture = slots[i].picture
                       /\ slots'[i].generation = slots[i].generation
  BY <1>6, <1>7, SetLeasesFacts
<1>16. x.pc \notin Locking /\ x.pc \notin {"Same", "Viewing"}
  BY DEF Locking, Leasing
<1> QED
  BY <1>8, <1>12, <1>13, <1>14, <1>15, <1>16, ReaderStepKeeps

LEMMA RecheckStep == ASSUME IInv, NEW r \in Readers, Recheck(r) PROVE IInv'
<1>1. /\ readers[r].pc = "Leased" /\ readers[r].floor <= era
      /\ UNCHANGED <<kernel, meta, producer, fence, era, crashes>>
  BY DEF IInv, ReaderShape, Recheck, ReaderStep
<1>2. CASE DropLease(r) /\ GiveUp(r)
  <2>1. PICK x \in Reader: Become(r, x) /\ x.pc = "Pick" /\ x.floor <= era
    BY <1>1, <1>2, GiveUpFacts
  <2> QED  BY <1>1, <1>2, <2>1, DropLeaseStep DEF Leasing
<1>3. CASE /\ StillPublished(r) /\ UNCHANGED slots
           /\ Become(r, [readers[r] EXCEPT !.pc = "Same"])
  <2> DEFINE x == [readers[r] EXCEPT !.pc = "Same"]
  <2>1. /\ x \in Reader /\ x.pc = "Same" /\ x.slot = readers[r].slot
        /\ x.floor = readers[r].floor /\ x.sequence = readers[r].sequence
    BY ReaderFacts DEF Reader, Locking, Leasing
  <2>2. Become(r, x)  BY <1>3
  <2>3. kernel => ~Exclusive(readers[r].slot)
    BY <1>1 DEF IInv, LockShape, Locking, Leasing
  <2>4. /\ slots[readers[r].slot].ready = "Done"
        /\ slots[readers[r].slot].sequence = readers[r].sequence
    BY <1>3 DEF StillPublished, At
  <2> HIDE DEF x
  <2> QED  BY <1>1, <1>3, <2>1, <2>2, <2>3, <2>4, QuietReader DEF Leasing
<1> QED  BY <1>2, <1>3 DEF Recheck

(* The slot's generation is that of the present era, so its picture is.     *)
LEMMA CheckFenceStep == ASSUME IInv, NEW r \in Readers, CheckFence(r) PROVE IInv'
<1>1. /\ readers[r].pc = "Same" /\ readers[r].floor <= era
      /\ UNCHANGED <<kernel, meta, producer, fence, era, crashes>>
  BY DEF IInv, ReaderShape, CheckFence, ReaderStep
<1>2. CASE DropLease(r) /\ GiveUp(r)
  <2>1. PICK x \in Reader: Become(r, x) /\ x.pc = "Pick" /\ x.floor <= era
    BY <1>1, <1>2, GiveUpFacts
  <2> QED  BY <1>1, <1>2, <2>1, DropLeaseStep DEF Leasing
<1>3. CASE /\ meta.generation # 0 /\ At(r).generation = meta.generation
           /\ Become(r, [readers[r] EXCEPT !.pc = "Viewing"]) /\ UNCHANGED slots
  <2> DEFINE x == [readers[r] EXCEPT !.pc = "Viewing"]
             s == readers[r].slot
  <2>1. /\ x \in Reader /\ x.pc = "Viewing" /\ x.slot = s
        /\ x.floor = readers[r].floor /\ x.sequence = readers[r].sequence
    BY ReaderFacts DEF Reader, Locking, Leasing
  <2>2. Become(r, x)  BY <1>3
  <2>3. kernel => ~Exclusive(s)
    BY <1>1 DEF IInv, LockShape, Locking, Leasing
  <2>4. slots[s].ready = "Done" /\ slots[s].sequence = readers[r].sequence
    BY <1>1 DEF IInv, ReaderShape, StillPublished, At
  <2>5. s \in Slots /\ slots[s].picture \in 0..MaxEra
    BY ReaderFacts, Fields DEF IInv
  <2>6. slots[s].generation = Gen(slots[s].picture) /\ slots[s].generation = Gen(era)
        /\ Gen(era) # 0
    BY <1>3, <2>4, <2>5 DEF IInv, SlotShape, GenerationIsEra, At
  <2>7. slots[s].picture = era
    <3>1. era \in Nat  BY DEF IInv, TypeOK
    <3> QED  BY <2>5, <2>6, <3>1, Bounds DEF Gen
  <2>8. slots[s].picture >= readers[r].floor
    BY <1>1, <2>7, ReaderFacts DEF IInv, TypeOK
  <2> HIDE DEF x, s
  <2> QED
    BY <1>1, <1>3, <2>1, <2>2, <2>3, <2>4, <2>8, QuietReader DEF Leasing, s
<1> QED  BY <1>2, <1>3 DEF CheckFence

LEMMA ReleaseViewStep == ASSUME IInv, NEW r \in Readers, ReleaseView(r) PROVE IInv'
<1>1. NoRead.pc = "Idle"  BY DEF NoRead
<1> QED
  BY <1>1, NoReadType, DropLeaseStep DEF ReleaseView, ReaderStep, Leasing

(* The dead leave their leases: the count is no longer exact.               *)
LEMMA ReaderDiesStep == ASSUME IInv, NEW r \in Readers, ReaderDies(r) PROVE IInv'
<1>1. NoRead \in Reader /\ NoRead.pc = "Idle"  BY NoReadType DEF NoRead
<1>2. crashes' \in 0..MaxCrashes /\ crashes' # 0
  BY Bounds DEF IInv, TypeOK, ReaderDies
<1>3. Become(r, NoRead) /\ UNCHANGED <<kernel, meta, slots, producer, fence, era>>
  BY DEF ReaderDies
<1>4. \A i: Leaseholders(i)' \subseteq Leaseholders(i)
  BY <1>1, <1>3, BecomeFacts DEF Leaseholders, Leasing
<1>5. \A i: /\ Cardinality(Leaseholders(i)') <= Cardinality(Leaseholders(i))
            /\ Cardinality(Leaseholders(i)') \in Nat
  BY <1>4, LeaseholdersFinite, FS_Subset, FS_CardinalityType
<1>6. LeasesCountReaders'
  <2>1. SUFFICES ASSUME NEW i \in Slots
                 PROVE /\ slots[i].leases = Writer => Leaseholders(i)' = {}
                       /\ slots[i].leases # Writer =>
                             slots[i].leases >= Cardinality(Leaseholders(i)')
    BY <1>2, <1>3 DEF LeasesCountReaders
  <2>2. slots[i].leases = Writer => Leaseholders(i)' = {}
    BY <1>4 DEF IInv, LeasesCountReaders
  <2>3. ASSUME slots[i].leases # Writer
        PROVE slots[i].leases >= Cardinality(Leaseholders(i)')
    <3>1. slots[i].leases \in Nat  BY <2>3, Fields DEF IInv
    <3>2. slots[i].leases >= Cardinality(Leaseholders(i))
      BY <2>3 DEF IInv, LeasesCountReaders
    <3> QED  BY <1>5, <3>1, <3>2, LeaseholdersFinite
  <2> QED  BY <2>2, <2>3
<1>7. slots' \in [Slots -> Slot]  BY <1>3 DEF IInv, TypeOK
<1> QED  BY <1>1, <1>2, <1>3, <1>6, <1>7, ReaderStepKeeps DEF Locking, Leasing

-----------------------------------------------------------------------------
LEMMA InvariantStep == IInv /\ [Next]_vars => IInv'
<1> SUFFICES ASSUME IInv, [Next]_vars PROVE IInv'  OBVIOUS
<1>1. ASSUME NEW r \in Readers, BeginRead(r) \/ Reads(r) \/ ReaderDies(r)
      PROVE IInv'
  BY <1>1, BeginReadStep, ScanSlotStep, PickSlotStep, NothingToReadStep,
     RecoverSlotStep, CheckSlotStep, TakeLeaseStep, RecheckStep, CheckFenceStep,
     ReleaseViewStep, ReaderDiesStep DEF Reads
<1>2. CASE UNCHANGED vars
  <2>1. UNCHANGED <<kernel, meta, slots, producer, fence, readers, era, crashes>>
    BY <1>2 DEF vars
  <2>2. TypeOK' /\ GenerationIsEra' /\ FenceShape' /\ WorkShape' /\ OwnShape'
    BY <2>1 DEF IInv, TypeOK, GenerationIsEra, FenceShape, WorkShape, OwnShape, Mine, Gen
  <2>3. LockShape'  BY <2>1, LockFrame DEF IInv
  <2> QED  BY <2>1, <2>2, <2>3, SlotsFrame DEF IInv
<1> QED
  BY <1>1, <1>2, InvalidatesStep, AdmitStep, PublishesStep, ProducerDiesStep,
     ReopenStep DEF Next

THEOREM Invariant == Spec => []IInv
BY InitInvariant, InvariantStep, PTL DEF Spec

(* Every field keeps its type; in particular no lease falls below zero.     *)
THEOREM TypeCorrect == Spec => []TypeOK
<1>1. IInv => TypeOK  BY DEF IInv
<1> QED  BY <1>1, Invariant, PTL

(* The picture of a view is complete while the view is held (read_view).    *)
THEOREM ViewsAreWhole == Spec => []ViewIsWhole
<1>1. IInv => ViewIsWhole
  <2>1. SUFFICES ASSUME IInv, NEW r \in Readers, readers[r].pc = "Viewing"
                 PROVE StillPublished(r) /\ At(r).picture # Torn
    BY DEF ViewIsWhole
  <2>2. StillPublished(r)  BY <2>1 DEF IInv, ReaderShape
  <2>3. readers[r].slot \in Slots  BY <2>1, ReaderFacts
  <2> QED  BY <2>1, <2>2, <2>3 DEF IInv, SlotShape, StillPublished, At
<1> QED  BY <1>1, Invariant, PTL

(* A picture that was invalidated before a read began is not shown by it    *)
(* (REQ-PICOO-FRAME-013).                                                   *)
THEOREM FenceIsKept == Spec => []FenceHolds
<1>1. IInv => FenceHolds  BY DEF IInv, FenceHolds, ReaderShape
<1> QED  BY <1>1, Invariant, PTL

(* The lease of a slot counts its readers (reader_count).                   *)
THEOREM LeasesAreCounted == Spec => []LeasesCountReaders
<1>1. IInv => LeasesCountReaders  BY DEF IInv
<1> QED  BY <1>1, Invariant, PTL
=============================================================================
