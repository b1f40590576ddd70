------------------------------ MODULE SharedRing ------------------------------
(***************************************************************************)
(* The Shared Frame Ring (picoo-frame-hub, shared_ring): one producer      *)
(* process writes pictures into slots of a mapping that consumer processes *)
(* read without copying.  Each slot has an atomic lease (a number of       *)
(* readers, or the writer) and, for a ring in a file, a kernel lock that   *)
(* ends with its process.  The producer's owner fences older pictures by   *)
(* advancing a content generation while a copy may be under way.           *)
(*                                                                         *)
(* A step is one access to shared memory.  Stores that nobody can observe  *)
(* apart, because the slot is in the state WRITING, are one step.          *)
(***************************************************************************)
EXTENDS Integers, FiniteSets

CONSTANTS Readers,        \* consumer processes, one reading thread each
          SlotCount,      \* RING_SLOT_COUNT
          MaxGeneration,  \* the largest content generation (u64)
          MaxRevision,    \* the largest revision of the content signal (63 bits)
          MaxFrames,      \* bound: sequence numbers used
          MaxEra,         \* bound: invalidations
          MaxCrashes      \* bound: processes that die

ASSUME RingAssumption ==
    /\ IsFiniteSet(Readers)
    /\ SlotCount \in Nat \ {0}
    /\ MaxGeneration \in Nat \ {0} /\ MaxRevision \in Nat \ {0}
    /\ MaxFrames \in Nat /\ MaxEra \in Nat \ {0} /\ MaxCrashes \in Nat

Slots == 0..(SlotCount - 1)
Kind == {"Live", "Placeholder"}
Writer == -1            \* WRITER_LEASE is u32::MAX: one less than no reader

VARIABLES
    kernel,     \* the slots have kernel locks (a ring in a file)
    meta,       \* RingMeta
    slots,      \* SlotMeta and pixels of each slot
    producer,   \* publish_nv12_kind_in_generation of the producer's worker
    fence,      \* invalidate_as on the owner's thread
    readers,    \* latest_frame of each consumer
    era,        \* history: invalidations completed
    crashes     \* history: processes that died

vars == <<kernel, meta, slots, producer, fence, readers, era, crashes>>

(* A picture is known by the era in which its work was admitted; 0 is a     *)
(* slot whose pixels are not, or not all, written.                          *)
Torn == 0

Meta == [latest: 0..MaxFrames, next: Slots, generation: 0..MaxGeneration,
         revision: 0..MaxRevision, kind: Kind]
Slot == [ready: {"Empty", "Writing", "Done"}, sequence: 0..MaxFrames,
         generation: 0..MaxGeneration, picture: 0..MaxEra,
         leases: Nat \cup {Writer}]
Claiming == {"Locked", "Leased", "Copying", "Copied", "Confirmed", "Labelled",
             "Done", "Freed", "Announced", "Discarding"}
Producer == [pc: {"Down", "Idle", "Prepared", "Current", "Scan"} \cup Claiming,
             token: 0..MaxGeneration, kind: Kind, era: 0..MaxEra,
             slot: Slots, tried: 0..SlotCount]
Leasing == {"Leased", "Same", "Viewing"}
Locking == {"Locked", "Open", "Checked"} \cup Leasing
Reader == [pc: {"Idle", "Scan", "Pick"} \cup Locking,
           seen: [Slots -> 0..MaxFrames], slot: Slots,
           sequence: 0..MaxFrames, floor: 0..MaxEra]

TypeOK ==
    /\ kernel \in BOOLEAN
    /\ meta \in Meta
    /\ slots \in [Slots -> Slot]
    /\ producer \in Producer
    /\ fence \in {"Idle", "Opening", "Signalled"}
    /\ readers \in [Readers -> Reader]
    /\ era \in 0..MaxEra
    /\ crashes \in 0..MaxCrashes

NoWork == [pc |-> "Idle", token |-> 0, kind |-> "Live", era |-> 0,
           slot |-> 0, tried |-> 0]
NoRead == [pc |-> "Idle", seen |-> [i \in Slots |-> 0], slot |-> 0,
           sequence |-> 0, floor |-> 0]

(* init_header, by the process that opens the ring first.                   *)
Init ==
    /\ kernel \in BOOLEAN
    /\ meta = [latest |-> 0, next |-> 0, generation |-> 1, revision |-> 1,
               kind |-> "Live"]
    /\ slots = [i \in Slots |-> [ready |-> "Empty", sequence |-> 0,
                                 generation |-> 0, picture |-> Torn, leases |-> 0]]
    /\ producer = NoWork
    /\ fence = "Opening"
    /\ readers = [r \in Readers |-> NoRead]
    /\ era = 0 /\ crashes = 0

-----------------------------------------------------------------------------
(* Kernel locks: the producer's is exclusive, the readers' are shared.      *)

Sharing(i) == {r \in Readers: readers[r].pc \in Locking /\ readers[r].slot = i}
Exclusive(i) == producer.pc \in Claiming /\ producer.slot = i

-----------------------------------------------------------------------------
(* The content fence (RingContentFence).                                    *)

ContentKind == IF meta.generation = 0 \/ meta.revision = 0 THEN {}
               ELSE {meta.kind}

(* A counter that is used up stays at zero for good.                        *)
NextGeneration(g) == IF g = 0 \/ g = MaxGeneration THEN 0 ELSE g + 1
NextRevision(n) == IF n = 0 \/ n = MaxRevision THEN 0 ELSE n + 1

Signal(kind) ==
    /\ meta' = [meta EXCEPT !.revision = NextRevision(@), !.kind = kind]
    /\ fence' = "Signalled"
    /\ UNCHANGED <<kernel, slots, producer, readers, era, crashes>>

InvalidateAs(kind) ==
    /\ fence = "Idle" /\ producer.pc # "Down" /\ era < MaxEra
    /\ Signal(kind)

(* A process that opens the ring invalidates what it finds.                 *)
InvalidateOpened ==
    /\ fence = "Opening"
    /\ Signal(IF ContentKind = {} THEN "Placeholder" ELSE meta.kind)

AdvanceGeneration ==
    /\ fence = "Signalled"
    /\ meta' = [meta EXCEPT !.generation = NextGeneration(@)]
    /\ fence' = "Idle"
    /\ era' = era + 1
    /\ UNCHANGED <<kernel, slots, producer, readers, crashes>>

-----------------------------------------------------------------------------
(* The producer.                                                            *)

ProducerStep(pc) == /\ producer.pc = pc
                    /\ UNCHANGED <<kernel, fence, readers, era, crashes>>
Goto(pc) == producer' = [producer EXCEPT !.pc = pc]
Return == producer' = NoWork

(* Work is admitted, with the generation of that moment, under the mutex    *)
(* that the owner holds while it invalidates, and is of the kind the owner  *)
(* invalidated for.                                                         *)
Admit ==
    /\ ProducerStep("Idle")
    /\ fence = "Idle" /\ meta.latest < MaxFrames
    /\ producer' = [producer EXCEPT !.pc = "Prepared", !.token = meta.generation,
                                    !.kind = meta.kind, !.era = era]
    /\ UNCHANGED <<meta, slots>>

CheckGeneration ==
    /\ ProducerStep("Prepared")
    /\ IF producer.token # 0 /\ producer.token = meta.generation
       THEN Goto("Current") ELSE Return
    /\ UNCHANGED <<meta, slots>>

CheckKind ==
    /\ ProducerStep("Current")
    /\ IF producer.kind \in ContentKind
       THEN producer' = [producer EXCEPT !.pc = "Scan", !.slot = meta.next]
       ELSE Return
    /\ UNCHANGED <<meta, slots>>

NextSlotUnwrapped ==                     \* mutant: the index runs off the ring
    IF producer.tried + 1 < SlotCount
    THEN producer' = [producer EXCEPT !.pc = "Scan", !.tried = @ + 1, !.slot = @ + 1]
    ELSE Return \/ producer' = [producer EXCEPT !.pc = "Prepared", !.tried = 0,
                                                !.slot = 0]

(* With every slot taken the caller is told Busy; it tries again or drops   *)
(* the picture for a newer one.                                             *)
NextSlot ==
    IF producer.tried + 1 < SlotCount
    THEN producer' = [producer EXCEPT !.pc = "Scan", !.tried = @ + 1,
                                      !.slot = (@ + 1) % SlotCount]
    ELSE Return \/ producer' = [producer EXCEPT !.pc = "Prepared", !.tried = 0,
                                                !.slot = 0]

Mine == slots[producer.slot]
Store(slot) == slots' = [slots EXCEPT ![producer.slot] = slot]

(* Whoever gets the exclusive lock knows that the leases it finds are those *)
(* of readers that died.                                                    *)
LockSlotKeeping ==                       \* mutant: the dead keep their leases
    /\ ProducerStep("Scan")
    /\ IF kernel /\ Sharing(producer.slot) # {} THEN NextSlot ELSE Goto("Locked")
    /\ UNCHANGED <<meta, slots>>

LockSlot ==
    /\ ProducerStep("Scan")
    /\ IF kernel /\ Sharing(producer.slot) # {}
       THEN NextSlot /\ UNCHANGED slots
       ELSE /\ Goto("Locked")
            /\ IF kernel THEN Store([Mine EXCEPT !.leases = 0]) ELSE UNCHANGED slots
    /\ UNCHANGED meta

LeaseSlot ==
    /\ ProducerStep("Locked")
    /\ IF Mine.leases = 0
       THEN Goto("Leased") /\ Store([Mine EXCEPT !.leases = Writer])
       ELSE NextSlot /\ UNCHANGED slots
    /\ UNCHANGED meta

BeginCopy ==
    /\ ProducerStep("Leased")
    /\ Goto("Copying")
    /\ Store([Mine EXCEPT !.ready = "Writing", !.picture = Torn])
    /\ UNCHANGED meta

FinishCopy ==
    /\ ProducerStep("Copying")
    /\ Goto("Copied")
    /\ Store([Mine EXCEPT !.picture = producer.era])
    /\ UNCHANGED meta

ConfirmGeneration ==
    /\ ProducerStep("Copied")
    /\ IF meta.generation = producer.token
       THEN Goto("Confirmed") /\ UNCHANGED slots
       ELSE Goto("Discarding") /\ Store([Mine EXCEPT !.ready = "Empty"])
    /\ UNCHANGED meta

Discard ==
    /\ ProducerStep("Discarding")
    /\ Return
    /\ Store([Mine EXCEPT !.leases = 0])
    /\ UNCHANGED meta

(* The slot keeps the generation its work was admitted in, also when that   *)
(* has been invalidated since.                                              *)
LabelCurrent ==                          \* mutant: it takes the present one
    /\ ProducerStep("Confirmed")
    /\ Goto("Labelled")
    /\ Store([Mine EXCEPT !.generation = meta.generation,
                          !.sequence = meta.latest + 1])
    /\ UNCHANGED meta

Label ==
    /\ ProducerStep("Confirmed")
    /\ Goto("Labelled")
    /\ Store([Mine EXCEPT !.generation = producer.token,
                          !.sequence = meta.latest + 1])
    /\ UNCHANGED meta

SetDone ==
    /\ ProducerStep("Labelled")
    /\ Goto("Done")
    /\ Store([Mine EXCEPT !.ready = "Done"])
    /\ UNCHANGED meta

FreeSlot ==
    /\ ProducerStep("Done")
    /\ Goto("Freed")
    /\ Store([Mine EXCEPT !.leases = 0])
    /\ UNCHANGED meta

Announce ==
    /\ ProducerStep("Freed")
    /\ Goto("Announced")
    /\ meta' = [meta EXCEPT !.latest = @ + 1]
    /\ UNCHANGED slots

AdvanceIndex ==
    /\ ProducerStep("Announced")
    /\ Return
    /\ meta' = [meta EXCEPT !.next = (producer.slot + 1) % SlotCount]
    /\ UNCHANGED slots

(* The producer's process dies: its locks are released, its marks remain.   *)
ProducerDies ==
    /\ producer.pc # "Down" /\ crashes < MaxCrashes
    /\ producer' = [NoWork EXCEPT !.pc = "Down"]
    /\ fence' = "Idle"
    /\ crashes' = crashes + 1
    /\ UNCHANGED <<kernel, meta, slots, readers, era>>

(* Its successor takes the ring over as it is, unless its generations are   *)
(* used up.                                                                 *)
Reopen ==
    /\ producer.pc = "Down" /\ meta.generation # 0 /\ era < MaxEra
    /\ producer' = NoWork
    /\ fence' = "Opening"
    /\ UNCHANGED <<kernel, meta, slots, readers, era, crashes>>

-----------------------------------------------------------------------------
(* A consumer.                                                              *)

ReaderStep(r, pc) == /\ readers[r].pc = pc
                     /\ UNCHANGED <<kernel, meta, producer, fence, era, crashes>>
Become(r, state) == readers' = [readers EXCEPT ![r] = state]
At(r) == slots[readers[r].slot]

BeginRead(r) ==
    /\ ReaderStep(r, "Idle")
    /\ meta.generation # 0 /\ meta.latest # 0
    /\ Become(r, [NoRead EXCEPT !.pc = "Scan", !.floor = era])
    /\ UNCHANGED slots

ScanSlot(r) ==
    /\ ReaderStep(r, "Scan")
    /\ LET i == readers[r].slot
           seen == IF slots[i].ready = "Done" THEN slots[i].sequence ELSE 0
           last == i + 1 = SlotCount
       IN  Become(r, [readers[r] EXCEPT !.seen[i] = seen,
                                        !.slot = IF last THEN 0 ELSE i + 1,
                                        !.pc = IF last THEN "Pick" ELSE "Scan"])
    /\ UNCHANGED slots

(* The slot is given up; the next older candidate is tried.                 *)
Candidate(r, i) == [readers[r] EXCEPT !.seen[i] = 0, !.slot = 0,
                                      !.sequence = 0, !.pc = "Pick"]
GiveUp(r) == Become(r, Candidate(r, readers[r].slot))

PickSlot(r) ==
    /\ ReaderStep(r, "Pick")
    /\ \E i \in Slots:
          /\ readers[r].seen[i] # 0
          /\ \A j \in Slots: readers[r].seen[j] <= readers[r].seen[i]
          /\ IF kernel /\ Exclusive(i) THEN Become(r, Candidate(r, i))
             ELSE Become(r, [readers[r] EXCEPT !.slot = i,
                                !.sequence = readers[r].seen[i],
                                !.pc = IF kernel THEN "Locked" ELSE "Open"])
    /\ UNCHANGED slots

NothingToRead(r) ==
    /\ ReaderStep(r, "Pick")
    /\ \A i \in Slots: readers[r].seen[i] = 0
    /\ Become(r, NoRead)
    /\ UNCHANGED slots

SetLeases(r, n) == slots' = [slots EXCEPT ![readers[r].slot].leases = n]

(* A shared lock proves that no writer is alive: its mark can be removed.   *)
RecoverSlot(r) ==
    /\ ReaderStep(r, "Locked")
    /\ Become(r, [readers[r] EXCEPT !.pc = "Open"])
    /\ IF At(r).leases = Writer THEN SetLeases(r, 0) ELSE UNCHANGED slots

StillPublished(r) == /\ At(r).ready = "Done"
                     /\ At(r).sequence = readers[r].sequence

CheckSlot(r) ==
    /\ ReaderStep(r, "Open")
    /\ IF StillPublished(r) THEN Become(r, [readers[r] EXCEPT !.pc = "Checked"])
       ELSE GiveUp(r)
    /\ UNCHANGED slots

TakeLease(r) ==
    /\ ReaderStep(r, "Checked")
    /\ IF At(r).leases = Writer
       THEN GiveUp(r) /\ UNCHANGED slots
       ELSE /\ SetLeases(r, At(r).leases + 1)
            /\ Become(r, [readers[r] EXCEPT !.pc = "Leased"])

DropLease(r) == SetLeases(r, At(r).leases - 1)

RecheckNothing(r) ==                     \* mutant: the first look is trusted
    /\ ReaderStep(r, "Leased")
    /\ Become(r, [readers[r] EXCEPT !.pc = "Same"])
    /\ UNCHANGED slots

RecheckKeepingLease(r) ==                \* mutant: the lease is not returned
    /\ ReaderStep(r, "Leased")
    /\ IF StillPublished(r) THEN Become(r, [readers[r] EXCEPT !.pc = "Same"])
       ELSE GiveUp(r)
    /\ UNCHANGED slots

Recheck(r) ==
    /\ ReaderStep(r, "Leased")
    /\ IF StillPublished(r)
       THEN Become(r, [readers[r] EXCEPT !.pc = "Same"]) /\ UNCHANGED slots
       ELSE DropLease(r) /\ GiveUp(r)

CheckFence(r) ==
    /\ ReaderStep(r, "Same")
    /\ IF meta.generation # 0 /\ At(r).generation = meta.generation
       THEN Become(r, [readers[r] EXCEPT !.pc = "Viewing"]) /\ UNCHANGED slots
       ELSE DropLease(r) /\ GiveUp(r)

(* The view is dropped: first its lease, then its kernel lock.              *)
ReleaseView(r) ==
    /\ ReaderStep(r, "Viewing")
    /\ DropLease(r)
    /\ Become(r, NoRead)

(* Elsewhere a consumer's death leaves nothing behind.                      *)
ReaderDies(r) ==
    /\ readers[r].pc \in Locking /\ crashes < MaxCrashes
    /\ Become(r, NoRead)
    /\ crashes' = crashes + 1
    /\ UNCHANGED <<kernel, meta, slots, producer, fence, era>>

-----------------------------------------------------------------------------
Publishes == \/ CheckGeneration \/ CheckKind \/ LockSlot \/ LeaseSlot \/ BeginCopy
             \/ FinishCopy \/ ConfirmGeneration \/ Discard \/ Label \/ SetDone
             \/ FreeSlot \/ Announce \/ AdvanceIndex

Invalidates == (\E k \in Kind: InvalidateAs(k)) \/ InvalidateOpened \/ AdvanceGeneration

Reads(r) == \/ ScanSlot(r) \/ PickSlot(r) \/ NothingToRead(r) \/ RecoverSlot(r)
            \/ CheckSlot(r) \/ TakeLease(r) \/ Recheck(r) \/ CheckFence(r)
            \/ ReleaseView(r)

Next == \/ Invalidates \/ Admit \/ Publishes
        \/ ProducerDies \/ Reopen
        \/ \E r \in Readers: BeginRead(r) \/ Reads(r) \/ ReaderDies(r)

Spec == Init /\ [][Next]_vars

(* The worker's thread runs, and so do the consumers': a view is a local    *)
(* that is dropped when its pixels are copied.                              *)
Fairness == /\ WF_vars(Publishes)
            /\ \A r \in Readers: WF_vars(Reads(r))

FairSpec == Spec /\ Fairness

-----------------------------------------------------------------------------
(* Properties.                                                              *)

Leaseholders(i) == {r \in Readers: readers[r].pc \in Leasing /\ readers[r].slot = i}

(* A view shows one whole picture for as long as it is held, the one whose  *)
(* sequence number it carries, whatever the producer does meanwhile and     *)
(* whoever died before (consumer.rs read_view, writer lease in producer.rs). *)
ViewIsWhole ==
    \A r \in Readers: readers[r].pc = "Viewing" =>
        /\ StillPublished(r)
        /\ At(r).picture # Torn

(* Once an invalidation is over, no call of latest_frame that begins gets a *)
(* picture whose work was admitted before it, however late that work is     *)
(* committed; also after a restart, and when the generations are used up    *)
(* (REQ-PICOO-FRAME-013).                                                   *)
FenceHolds ==
    \A r \in Readers: readers[r].pc = "Viewing" => At(r).picture >= readers[r].floor

(* A slot's lease counts its readers: never fewer than hold one, so that    *)
(* no writer gets in and the count never falls below zero, and no more but  *)
(* for processes that died.                                                 *)
LeasesCountReaders ==
    \A i \in Slots:
        /\ slots[i].leases = Writer => Leaseholders(i) = {}
        /\ slots[i].leases # Writer => slots[i].leases >= Cardinality(Leaseholders(i))
        /\ crashes = 0 /\ slots[i].leases # Writer
              => slots[i].leases = Cardinality(Leaseholders(i))

WaitsForSlot == producer.pc \in {"Prepared", "Current", "Scan", "Locked"}

(* With kernel locks no death takes a slot out of use: once the consumers   *)
(* have stopped reading, work that waits for a slot gets one                *)
(* (lock.rs, "crash-safe release mechanism").                               *)
RingHeals ==
    kernel /\ (<>[](\A r \in Readers: readers[r].pc = "Idle"))
       => (WaitsForSlot ~> ~WaitsForSlot)
=============================================================================
