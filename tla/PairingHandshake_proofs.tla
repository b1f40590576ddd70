------------------------ MODULE PairingHandshake_proofs ------------------------
(***************************************************************************)
(* PairingHandshake implements PairingTrust and keeps CommitOrder and      *)
(* NoFalseAccusation, for every number of connections and every length of  *)
(* the queues.                                                             *)
(*                                                                         *)
(* What makes the order of trust inductive is what a message proves: a     *)
(* Confirm on its way says that the phone has consented, an Approval that  *)
(* the desktop has, a Commit that the phone has written its trust, a       *)
(* Complete that both have; and the first message of the desktop is its    *)
(* hello, sent before anybody has consented.                               *)
(***************************************************************************)
EXTENDS PairingHandshake, SequenceTheorems, TLAPS

Queued(m, q) == \E i \in 1..Len(q): q[i] = m

Hellos == {"HelloRequired", "HelloRenewal"}
Steps == Hellos \cup {"Approval", "Complete", "Confirm", "Commit"}

HelloFirst(q) == \A i \in 1..Len(q): q[i] \in Hellos => i = 1

(* Queue p proves no more than queue q did.                                 *)
NoNewer(p, q) == /\ \A m \in Steps: Queued(m, p) => Queued(m, q)
                 /\ HelloFirst(q) => HelloFirst(p)

(* Memory and file never differ.                                            *)
MemoryMatchesStore == trusted = stored

(* A challenge or a running stream has its authenticated sender.            *)
DeskShape == /\ desk.pending => desk.sender
             /\ desk.allowed => desk.sender
             /\ desk.local \/ desk.remote \/ desk.senderCommitted => desk.sender
             /\ desk.pending => ~desk.senderCommitted

NobodyConsents == consent = [s \in Side |-> "None"]

(* Before the ClientHello is handled nothing has happened.                  *)
Fresh == desk.up /\ ~desk.sender =>
            /\ toPhone = <<>> /\ phone.challenge = "None" /\ ~phone.confirmSent
            /\ NobodyConsents

(* Until the hello arrives the phone has not answered it.                   *)
HelloShape ==
    /\ HelloFirst(toPhone)
    /\ (\E m \in Hellos: Queued(m, toPhone)) =>
          phone.challenge = "None" /\ ~phone.confirmSent /\ consent[Phone] = "None"

(* Whoever has confirmed has consented.                                     *)
ConsentShape ==
    /\ phone.confirmSent \/ desk.remote \/ Queued("Confirm", toDesk) =>
          consent[Phone] # "None"
    /\ desk.local \/ Queued("Approval", toPhone) => consent[Desk] # "None"

(* The desktop approves when both have confirmed, and the phone commits     *)
(* when it has written its trust.                                           *)
CommitShape ==
    /\ wire /\ Queued("Approval", toPhone) => desk.local /\ desk.remote
    /\ Queued("Commit", toDesk) =>
          desk.local /\ desk.remote /\ Phone \in established

(* Trust that the phone has written stays until its user removes it.        *)
PhoneKeepsTrust ==
    Phone \in established /\ Phone \notin withdrawn => trusted[Phone]

CompleteShape ==
    Queued("Complete", toPhone) => established = Side /\ (desk.up => desk.allowed)

(* CommitOrder without the store.                                           *)
EstablishedInOrder ==
    /\ Desk \in established => Phone \in established
    /\ desk.allowed => established = Side
    /\ phone.stream = "Streaming" => established = Side /\ (desk.up => desk.allowed)

IInv == /\ TypeOK
        /\ MemoryMatchesStore
        /\ DeskShape
        /\ Fresh
        /\ HelloShape
        /\ ConsentShape
        /\ CommitShape
        /\ PhoneKeepsTrust
        /\ CompleteShape
        /\ EstablishedInOrder

-----------------------------------------------------------------------------
(* Queues.                                                                  *)

LEMMA EmptyFacts ==
    \A m: ~Queued(m, <<>>)
BY DEF Queued

LEMMA EmptyHelloFirst == HelloFirst(<<>>)
BY DEF HelloFirst

LEMMA AppendFacts ==
    ASSUME NEW S, NEW q \in Seq(S), NEW m \in S
    PROVE  /\ Append(q, m) \in Seq(S)
           /\ \A x: Queued(x, Append(q, m)) <=> Queued(x, q) \/ x = m
           /\ HelloFirst(q) /\ m \notin Hellos => HelloFirst(Append(q, m))
<1>1. /\ Append(q, m) \in Seq(S) /\ Len(Append(q, m)) = Len(q) + 1
      /\ \A i \in 1..Len(q): Append(q, m)[i] = q[i]
      /\ Append(q, m)[Len(q) + 1] = m /\ Len(q) \in Nat
  BY AppendProperties, LenProperties
<1>2. ASSUME NEW x PROVE Queued(x, Append(q, m)) <=> Queued(x, q) \/ x = m
  BY <1>1 DEF Queued
<1>3. HelloFirst(q) /\ m \notin Hellos => HelloFirst(Append(q, m))
  BY <1>1 DEF HelloFirst
<1> QED BY <1>1, <1>2, <1>3

LEMMA TailFacts ==
    ASSUME NEW S, NEW q \in Seq(S), q # <<>>
    PROVE  /\ Tail(q) \in Seq(S) /\ Head(q) \in S
           /\ Queued(Head(q), q)
           /\ \A x: Queued(x, Tail(q)) => Queued(x, q)
           /\ HelloFirst(q) => HelloFirst(Tail(q)) /\ \A h \in Hellos: ~Queued(h, Tail(q))
<1>1. /\ Tail(q) \in Seq(S) /\ Head(q) \in S /\ Head(q) = q[1]
      /\ Len(Tail(q)) = Len(q) - 1 /\ Len(q) \in Nat /\ Len(q) >= 1
      /\ \A i \in 1..Len(q) - 1: Tail(q)[i] = q[i + 1]
  BY HeadTailProperties, LenProperties, EmptySeq
<1>2. Queued(Head(q), q)
  BY <1>1 DEF Queued
<1>3. ASSUME NEW x, Queued(x, Tail(q)) PROVE Queued(x, q)
  BY <1>1, <1>3 DEF Queued
<1>4. HelloFirst(q) => HelloFirst(Tail(q)) /\ \A h \in Hellos: ~Queued(h, Tail(q))
  BY <1>1 DEF HelloFirst, Queued
<1> QED BY <1>1, <1>2, <1>3, <1>4

LEMMA PrefixFacts ==
    ASSUME NEW S, NEW q \in Seq(S), NEW p \in Prefixes(q)
    PROVE  /\ p \in Seq(S)
           /\ \A x: Queued(x, p) => Queued(x, q)
           /\ HelloFirst(q) => HelloFirst(p)
           /\ q = <<>> => p = <<>>
<1>1. PICK n \in 0..Len(q): p = SubSeq(q, 1, n)
  BY DEF Prefixes
<1>2. Len(q) \in Nat /\ q \in [1..Len(q) -> S]
  BY LenProperties
<1>3. /\ p \in Seq(S) /\ Len(p) = n
      /\ \A i \in 1..n: p[i] = q[i]
  BY <1>1, <1>2, SubSeqProperties
<1>4. q = <<>> => p = <<>>
  BY <1>3, EmptySeq
<1> QED BY <1>2, <1>3, <1>4 DEF Queued, HelloFirst

(* What a queue may become without proving more.                            *)
LEMMA NoNewerFacts ==
    ASSUME NEW S, NEW q \in Seq(S)
    PROVE  /\ NoNewer(q, q) /\ NoNewer(<<>>, q)
           /\ q # <<>> => NoNewer(Tail(q), q)
           /\ \A p \in Prefixes(q): NoNewer(p, q)
           /\ \A m \in S: m \notin Steps => NoNewer(Append(q, m), q)
           /\ \A m \in S: m \notin Steps =>
                 \A p \in Prefixes(Append(q, m)): p \in Seq(S) /\ NoNewer(p, q)
<1>1. NoNewer(q, q) /\ NoNewer(<<>>, q)
  BY EmptyFacts, EmptyHelloFirst DEF NoNewer
<1>2. q # <<>> => NoNewer(Tail(q), q)
  BY TailFacts DEF NoNewer
<1>3. \A p \in Prefixes(q): NoNewer(p, q)
  BY PrefixFacts DEF NoNewer
<1>4. ASSUME NEW m \in S, m \notin Steps
      PROVE  Append(q, m) \in Seq(S) /\ NoNewer(Append(q, m), q)
  BY <1>4, AppendFacts DEF NoNewer, Steps
<1>5. ASSUME NEW m \in S, m \notin Steps, NEW p \in Prefixes(Append(q, m))
      PROVE  p \in Seq(S) /\ NoNewer(p, q)
  <2>1. Append(q, m) \in Seq(S) /\ NoNewer(Append(q, m), q)
    BY <1>4, <1>5
  <2>2. p \in Seq(S) /\ NoNewer(p, Append(q, m))
    BY <2>1, PrefixFacts DEF NoNewer
  <2> QED BY <2>1, <2>2 DEF NoNewer
<1> QED BY <1>1, <1>2, <1>3, <1>4, <1>5

-----------------------------------------------------------------------------
LEMMA IdleTypes == PhoneIdle \in PhoneState /\ DeskIdle \in DeskState
BY DEF PhoneIdle, DeskIdle, PhoneState, DeskState

(* The fields of both sides, and what a session without a sender holds.     *)
LEMMA Fields ==
    ASSUME IInv
    PROVE  /\ phone.up \in BOOLEAN /\ phone.confirmSent \in BOOLEAN
           /\ phone.committed \in BOOLEAN
           /\ desk.up \in BOOLEAN /\ desk.sender \in BOOLEAN /\ desk.allowed \in BOOLEAN
           /\ desk.pending \in BOOLEAN /\ desk.local \in BOOLEAN
           /\ desk.remote \in BOOLEAN /\ desk.approvalSent \in BOOLEAN
           /\ desk.senderCommitted \in BOOLEAN
           /\ ~desk.sender => /\ desk.pending = FALSE /\ desk.allowed = FALSE
                              /\ desk.local = FALSE /\ desk.remote = FALSE
                              /\ desk.senderCommitted = FALSE
<1>1. phone \in PhoneState /\ desk \in DeskState /\ DeskShape
  BY DEF IInv, TypeOK
<1>2. /\ desk.up \in BOOLEAN /\ desk.sender \in BOOLEAN /\ desk.allowed \in BOOLEAN
      /\ desk.pending \in BOOLEAN /\ desk.local \in BOOLEAN
      /\ desk.remote \in BOOLEAN /\ desk.approvalSent \in BOOLEAN
      /\ desk.senderCommitted \in BOOLEAN
  BY <1>1 DEF DeskState
<1>3. /\ phone.up \in BOOLEAN /\ phone.confirmSent \in BOOLEAN
      /\ phone.committed \in BOOLEAN
  BY <1>1 DEF PhoneState
<1> QED BY <1>1, <1>2, <1>3 DEF DeskShape

LEMMA InitInvariant == Init => IInv
<1> SUFFICES ASSUME Init PROVE IInv
  OBVIOUS
<1> USE DEF Init, PhoneIdle, DeskIdle
<1>1. TypeOK
  <2>1. phone \in PhoneState /\ desk \in DeskState
    BY IdleTypes
  <2>2. connections \in 0..MaxConnections
    BY BoundAssumption
  <2>3. toPhone \in Seq(ToPhone) /\ toDesk \in Seq(ToDesk)
    BY EmptySeq
  <2>4. trusted \in [Side -> BOOLEAN] /\ stored \in [Side -> BOOLEAN]
    OBVIOUS
  <2>5. consent \in [Side -> {"None", "Renewed", "User"}]
    OBVIOUS
  <2>6. /\ wire \in BOOLEAN /\ repeated \in BOOLEAN
        /\ established \subseteq Side /\ withdrawn \subseteq Side
        /\ fault \in {"None", "Bypass", "Phone", "Desk"}
    OBVIOUS
  <2> QED BY <2>1, <2>2, <2>3, <2>4, <2>5, <2>6 DEF TypeOK
<1>2. \A m: ~Queued(m, toPhone) /\ ~Queued(m, toDesk)
  BY EmptyFacts
<1>3. HelloFirst(toPhone)
  BY EmptyHelloFirst
<1> QED
  BY <1>1, <1>2, <1>3 DEF IInv, MemoryMatchesStore, DeskShape, Fresh, HelloShape,
     ConsentShape, CommitShape, PhoneKeepsTrust, CompleteShape, EstablishedInOrder

(* A step that only forgets: sessions become idle, queues lose messages or  *)
(* gain ones that prove nothing, and no trust or consent changes.           *)
Forgetful ==
    /\ phone' \in {phone, PhoneIdle}
    /\ desk' = desk \/ (desk' = DeskIdle /\ toDesk' = <<>> /\ wire' = FALSE)
    /\ wire' \in {wire, FALSE}
    /\ toPhone' \in Seq(ToPhone) /\ NoNewer(toPhone', toPhone)
    /\ toDesk' \in Seq(ToDesk) /\ NoNewer(toDesk', toDesk)
    /\ desk' = desk /\ desk.up /\ ~desk.sender /\ toPhone = <<>> => toPhone' = <<>>
    /\ UNCHANGED <<trusted, stored, connections, history>>
    /\ fault' \in {"None", "Bypass", "Phone", "Desk"}

LEMMA ForgetfulKeeps == IInv /\ Forgetful => IInv'
<1> SUFFICES ASSUME IInv, Forgetful PROVE IInv'
  OBVIOUS
<1>1. TypeOK'
  <2> USE DEF IInv, TypeOK, Forgetful, history
  <2>1. phone' \in PhoneState
    BY IdleTypes
  <2>2. desk' \in DeskState
    BY IdleTypes
  <2>3. /\ trusted' = trusted /\ stored' = stored /\ consent' = consent
        /\ established' = established /\ withdrawn' = withdrawn
        /\ repeated' = repeated /\ connections' = connections
    OBVIOUS
  <2>4. /\ wire' \in BOOLEAN
        /\ toPhone' \in Seq(ToPhone) /\ toDesk' \in Seq(ToDesk)
        /\ fault' \in {"None", "Bypass", "Phone", "Desk"}
    OBVIOUS
  <2> QED BY <2>1, <2>2, <2>3, <2>4
<1>2. /\ trusted' = trusted /\ stored' = stored /\ consent' = consent
      /\ established' = established /\ withdrawn' = withdrawn
  BY DEF Forgetful, history
<1>3. \/ phone' = phone
      \/ /\ phone'.challenge = "None" /\ phone'.confirmSent = FALSE
         /\ phone'.stream = "Idle"
  BY DEF Forgetful, PhoneIdle
<1>4. \/ desk' = desk
      \/ /\ desk'.up = FALSE /\ desk'.sender = FALSE /\ desk'.pending = FALSE
         /\ desk'.allowed = FALSE /\ desk'.local = FALSE /\ desk'.remote = FALSE
         /\ desk'.senderCommitted = FALSE /\ toDesk' = <<>> /\ wire' = FALSE
  BY DEF Forgetful, DeskIdle
<1>5. /\ \A m \in Steps: Queued(m, toPhone') => Queued(m, toPhone)
      /\ \A m \in Steps: Queued(m, toDesk') => Queued(m, toDesk)
      /\ HelloFirst(toPhone')
  BY DEF Forgetful, NoNewer, IInv, HelloShape
<1>6. wire' => wire
  BY DEF Forgetful
<1>7. MemoryMatchesStore' /\ DeskShape' /\ PhoneKeepsTrust'
  BY <1>2, <1>4 DEF IInv, MemoryMatchesStore, DeskShape, PhoneKeepsTrust
<1>8. Fresh'
  BY <1>2, <1>3, <1>4 DEF IInv, Fresh, Forgetful, NobodyConsents
<1>9. HelloShape'
  BY <1>2, <1>3, <1>5 DEF IInv, HelloShape, Hellos, Steps
<1>10. ConsentShape'
  BY <1>2, <1>3, <1>4, <1>5 DEF IInv, ConsentShape, Steps
<1>11. CommitShape'
  BY <1>2, <1>4, <1>5, <1>6, EmptyFacts DEF IInv, CommitShape, Steps
<1>12. CompleteShape'
  BY <1>2, <1>4, <1>5 DEF IInv, CompleteShape, Steps
<1>13. EstablishedInOrder'
  BY <1>2, <1>3, <1>4 DEF IInv, EstablishedInOrder
<1> QED
  BY <1>1, <1>7, <1>8, <1>9, <1>10, <1>11, <1>12, <1>13 DEF IInv

(* The actions that only forget.                                            *)
Forgets ==
    \/ WireBreaks \/ PhoneSees \/ PhoneDisconnects \/ DeskSees
    \/ PhoneRestarts \/ DeskRestarts \/ DeskRefuses \/ CommitFails
    \/ HandleStreamConfig \/ RejectLocally \/ ChallengeExpires \/ DeskCloses
    \/ DeskReports \/ PhoneRefuses \/ HandleReport \/ HandleRejected
    \/ HandleStopStream

LEMMA ForgetsForgets == IInv /\ Forgets => Forgetful
<1> SUFFICES ASSUME IInv, Forgets PROVE Forgetful
  OBVIOUS
<1>1. /\ toPhone \in Seq(ToPhone) /\ toDesk \in Seq(ToDesk) /\ wire \in BOOLEAN
      /\ fault \in {"None", "Bypass", "Phone", "Desk"}
  BY DEF IInv, TypeOK
<1>2. /\ trusted = stored
      /\ [trusted EXCEPT ![Phone] = stored[Phone]] = trusted
      /\ [trusted EXCEPT ![Desk] = stored[Desk]] = trusted
  BY DEF IInv, MemoryMatchesStore, TypeOK
<1>3. /\ NoNewer(toPhone, toPhone) /\ NoNewer(<<>>, toPhone)
      /\ NoNewer(toDesk, toDesk) /\ NoNewer(<<>>, toDesk)
      /\ <<>> \in Seq(ToPhone) /\ <<>> \in Seq(ToDesk)
  BY <1>1, NoNewerFacts, EmptySeq
<1>4. /\ \A p \in Prefixes(toPhone): /\ p \in Seq(ToPhone) /\ NoNewer(p, toPhone)
                                     /\ toPhone = <<>> => p = <<>>
      /\ \A p \in Prefixes(toDesk): p \in Seq(ToDesk) /\ NoNewer(p, toDesk)
  BY <1>1, NoNewerFacts, PrefixFacts
<1>5. /\ toPhone # <<>> => Tail(toPhone) \in Seq(ToPhone) /\ NoNewer(Tail(toPhone), toPhone)
      /\ toDesk # <<>> => Tail(toDesk) \in Seq(ToDesk) /\ NoNewer(Tail(toDesk), toDesk)
  BY <1>1, NoNewerFacts, TailFacts
<1>6. ASSUME NEW m \in {"Rejected", "StopStream", "Telemetry"}
      PROVE  /\ Append(toPhone, m) \in Seq(ToPhone)
             /\ NoNewer(Append(toPhone, m), toPhone)
             /\ \A p \in Prefixes(Append(toPhone, m)):
                   p \in Seq(ToPhone) /\ NoNewer(p, toPhone)
  <2>1. m \in ToPhone /\ m \notin Steps
    BY DEF ToPhone, Telemetry, Steps, Hellos
  <2> QED BY <1>1, <2>1, NoNewerFacts, AppendFacts
<1> USE DEF Forgetful
<1>7. CASE WireBreaks
  BY <1>1, <1>4, <1>7 DEF WireBreaks, trust, history
<1>8. CASE PhoneSees \/ PhoneDisconnects
  BY <1>1, <1>3, <1>4, <1>8 DEF PhoneSees, PhoneDisconnects, PhoneEnds, trust, history
<1>9. CASE DeskSees \/ ChallengeExpires
  BY <1>1, <1>3, <1>4, <1>9 DEF DeskSees, ChallengeExpires, DeskEnds, trust, history
<1>10. CASE PhoneRestarts
  BY <1>1, <1>2, <1>3, <1>4, <1>10 DEF PhoneRestarts, PhoneEnds, history
<1>11. CASE DeskRestarts
  BY <1>1, <1>2, <1>3, <1>4, <1>11 DEF DeskRestarts, DeskEnds, history
<1>12. CASE DeskRefuses
  BY <1>1, <1>3, <1>4, <1>12 DEF DeskRefuses, DeskEnds, trust, history
<1>13. CASE CommitFails
  BY <1>1, <1>3, <1>4, <1>13 DEF CommitFails, RollBack, DeskEnds, trust, history
<1>14. CASE HandleStreamConfig
  BY <1>1, <1>3, <1>5, <1>14 DEF HandleStreamConfig, DeskTakes, trust, history
<1>15. CASE RejectLocally
  <2>1. toPhone' \in Seq(ToPhone) /\ NoNewer(toPhone', toPhone)
    BY <1>4, <1>6, <1>15 DEF RejectLocally
  <2>2. ~(desk.up /\ ~desk.sender)
    BY <1>15, Fields DEF RejectLocally
  <2> QED BY <1>1, <1>3, <1>15, <2>1, <2>2 DEF RejectLocally, trust, history
<1>16. CASE DeskCloses
  <2>1. toPhone' \in Seq(ToPhone) /\ NoNewer(toPhone', toPhone)
    BY <1>4, <1>6, <1>16 DEF DeskCloses
  <2>2. ~(desk' = desk /\ desk.up)
    BY <1>16 DEF DeskCloses, DeskIdle
  <2> QED BY <1>1, <1>3, <1>16, <2>1, <2>2 DEF DeskCloses, trust, history
<1>17. CASE DeskReports
  <2>1. toPhone' = Append(toPhone, "Telemetry") /\ wire' = wire /\ desk.allowed
    BY <1>17 DEF DeskReports, DeskSends
  <2>2. ~(desk.up /\ ~desk.sender)
    BY <2>1, Fields
  <2> QED BY <1>1, <1>3, <1>6, <1>17, <2>1, <2>2 DEF DeskReports, trust, history
<1>18. CASE PhoneRefuses
  BY <1>1, <1>3, <1>4, <1>18 DEF PhoneRefuses, PhoneRejects, PhoneEnds, trust, history
<1>19. CASE HandleReport \/ HandleRejected
  BY <1>1, <1>3, <1>5, <1>19 DEF HandleReport, HandleRejected, PhoneHas, PhoneTakes,
     trust, history
<1>20. CASE HandleStopStream
  BY <1>1, <1>3, <1>4, <1>20 DEF HandleStopStream, PhoneEnds, trust, history
<1> QED
  BY <1>7, <1>8, <1>9, <1>10, <1>11, <1>12, <1>13, <1>14, <1>15, <1>16, <1>17, <1>18,
     <1>19, <1>20 DEF Forgets

-----------------------------------------------------------------------------
(* The actions that do something.                                           *)

LEMMA ConnectKeeps == IInv /\ Connect => IInv'
<1> SUFFICES ASSUME IInv, Connect PROVE IInv'
  OBVIOUS
<1> USE DEF Connect
<1>1. /\ phone'.challenge = "None" /\ phone'.confirmSent = FALSE
      /\ phone'.stream = "Negotiating" /\ phone' \in PhoneState
  BY DEF PhoneIdle, PhoneState
<1>2. /\ desk'.sender = FALSE /\ desk'.pending = FALSE /\ desk'.allowed = FALSE
      /\ desk'.local = FALSE /\ desk'.remote = FALSE
      /\ desk'.senderCommitted = FALSE /\ desk' \in DeskState
  BY DEF DeskIdle, DeskState
<1>3. /\ \A m: ~Queued(m, toPhone')
      /\ \A m \in Steps: ~Queued(m, toDesk')
      /\ HelloFirst(toPhone')
  BY EmptyFacts, EmptyHelloFirst DEF Queued, Steps, Hellos
<1>4. TypeOK'
  <2>1. trusted' \in [Side -> BOOLEAN] /\ stored' \in [Side -> BOOLEAN]
    BY DEF trust, IInv, TypeOK
  <2>2. wire' \in BOOLEAN /\ toPhone' \in Seq(ToPhone) /\ toDesk' \in Seq(ToDesk)
    BY EmptySeq DEF ToDesk
  <2>3. connections' \in 0..MaxConnections
    BY BoundAssumption DEF IInv, TypeOK
  <2>4. consent' \in [Side -> {"None", "Renewed", "User"}]
    OBVIOUS
  <2> QED BY <1>1, <1>2, <2>1, <2>2, <2>3, <2>4 DEF TypeOK
<1>5. MemoryMatchesStore' /\ DeskShape' /\ Fresh' /\ PhoneKeepsTrust'
  BY <1>1, <1>2 DEF trust, IInv, MemoryMatchesStore, DeskShape, Fresh, NobodyConsents,
     PhoneKeepsTrust
<1>6. HelloShape' /\ ConsentShape' /\ CommitShape' /\ CompleteShape'
  BY <1>1, <1>2, <1>3 DEF HelloShape, ConsentShape, CommitShape, CompleteShape, Steps
<1>7. EstablishedInOrder'
  BY <1>1, <1>2 DEF EstablishedInOrder
<1> QED BY <1>4, <1>5, <1>6, <1>7 DEF IInv

LEMMA RemoveTrustedKeeps ==
    ASSUME IInv, NEW s \in Side, RemoveTrusted(s)
    PROVE  IInv'
<1> USE DEF RemoveTrusted, channels, trust
<1>1. /\ phone' = phone /\ desk' = desk /\ toPhone' = toPhone /\ toDesk' = toDesk
      /\ wire' = wire /\ consent' = consent /\ established' = established
  OBVIOUS
<1>2. /\ trusted' \in [Side -> BOOLEAN] /\ stored' = trusted'
      /\ withdrawn' \subseteq Side
      /\ Phone \in withdrawn \/ (trusted[Phone] /\ ~trusted'[Phone]) => Phone \in withdrawn'
  <2>1. /\ trusted \in [Side -> BOOLEAN] /\ stored = trusted /\ withdrawn \subseteq Side
    BY DEF IInv, TypeOK, MemoryMatchesStore
  <2>2. CASE Persisted(s, FALSE) /\ withdrawn' = withdrawn \cup {s}
    BY <2>1, <2>2 DEF Persisted
  <2>3. CASE RollBack(s, FALSE) /\ UNCHANGED withdrawn
    BY <2>1, <2>3 DEF RollBack
  <2> QED BY <2>2, <2>3
<1>3. TypeOK'
  BY <1>2 DEF IInv, TypeOK
<1>4. MemoryMatchesStore' /\ PhoneKeepsTrust'
  BY <1>1, <1>2 DEF IInv, MemoryMatchesStore, PhoneKeepsTrust, TypeOK
<1>5. /\ DeskShape' /\ Fresh' /\ HelloShape' /\ ConsentShape' /\ CommitShape'
      /\ CompleteShape' /\ EstablishedInOrder'
  BY <1>1 DEF IInv, DeskShape, Fresh, NobodyConsents, HelloShape, ConsentShape,
     CommitShape, CompleteShape, EstablishedInOrder
<1> QED BY <1>3, <1>4, <1>5 DEF IInv

(* What the phases of the desktop admit.                                    *)
LEMMA DeskPhases ==
    /\ DeskAllows("ClientHello") => ~desk.pending /\ ~desk.sender
    /\ DeskAllows("Confirm") => desk.pending
    /\ DeskAllows("Commit") => desk.pending
BY DEF DeskAllows, DeskPhase

LEMMA ClientHelloKeeps == IInv /\ HandleClientHello => IInv'
<1> SUFFICES ASSUME IInv, HandleClientHello PROVE IInv'
  OBVIOUS
<1> DEFINE accept(auto) == auto /\ trusted[Desk]
           hello(a) == IF a THEN "HelloRenewal" ELSE "HelloRequired"
<1>1. PICK a \in BOOLEAN:
         /\ desk' = [desk EXCEPT !.sender = TRUE, !.pending = TRUE, !.local = a]
         /\ DeskSends(hello(a))
         /\ IF a THEN Consents(Desk, "Renewed") ELSE UNCHANGED consent
  BY DEF HandleClientHello, IInv, TypeOK, Side
<1>2. /\ desk.up /\ ~desk.pending /\ ~desk.sender /\ toDesk # <<>>
      /\ toDesk' = Tail(toDesk) /\ phone' = phone /\ fault' = fault
      /\ trusted' = trusted /\ stored' = stored /\ connections' = connections
      /\ established' = established /\ withdrawn' = withdrawn /\ repeated' = repeated
  BY DeskPhases DEF HandleClientHello, DeskTakes, trust
<1>3. /\ toPhone = <<>> /\ phone.challenge = "None" /\ phone.confirmSent = FALSE
      /\ consent = [s \in Side |-> "None"]
      /\ desk.allowed = FALSE /\ desk.local = FALSE /\ desk.remote = FALSE
      /\ desk.senderCommitted = FALSE
  BY <1>2, Fields DEF IInv, Fresh, NobodyConsents
<1>4. /\ desk'.up = TRUE /\ desk'.sender = TRUE /\ desk'.pending = TRUE /\ desk'.local = a
      /\ desk'.allowed = FALSE /\ desk'.remote = FALSE /\ desk'.senderCommitted = FALSE
      /\ desk' \in DeskState
  BY <1>1, <1>2, <1>3, Fields DEF IInv, TypeOK, DeskState
<1>5. /\ consent' \in [Side -> {"None", "Renewed", "User"}]
      /\ consent'[Phone] = "None" /\ (a => consent'[Desk] = "Renewed")
  BY <1>1, <1>3 DEF Consents, Side, Phone, Desk
<1>6. /\ toPhone' \in Seq(ToPhone) /\ HelloFirst(toPhone')
      /\ \A m: Queued(m, toPhone') => m \in Hellos
  <2>1. wire' = wire /\ toPhone' = IF wire THEN <<hello(a)>> ELSE <<>>
    BY <1>1, <1>3 DEF DeskSends
  <2>2. hello(a) \in ToPhone /\ hello(a) \in Hellos
    BY DEF ToPhone, Hellos
  <2> HIDE DEF hello
  <2>3. <<hello(a)>> \in Seq(ToPhone) /\ HelloFirst(<<hello(a)>>)
    BY <2>2 DEF HelloFirst
  <2>4. \A m: Queued(m, <<hello(a)>>) => m \in Hellos
    BY <2>2 DEF Queued
  <2> QED BY <2>1, <2>3, <2>4, EmptyFacts, EmptyHelloFirst, EmptySeq
<1>7. /\ toDesk' \in Seq(ToDesk) /\ \A m: Queued(m, toDesk') => Queued(m, toDesk)
      /\ wire' = wire
  BY <1>1, <1>2, TailFacts DEF IInv, TypeOK, DeskSends
<1>8. TypeOK'
  BY <1>2, <1>4, <1>5, <1>6, <1>7 DEF IInv, TypeOK
<1>9. MemoryMatchesStore' /\ DeskShape' /\ Fresh' /\ PhoneKeepsTrust'
  BY <1>2, <1>4 DEF IInv, MemoryMatchesStore, DeskShape, Fresh, PhoneKeepsTrust
<1>10. HelloShape' /\ ConsentShape'
  <2>1. consent[Phone] = "None"
    BY <1>3 DEF Side
  <2>2. ~Queued("Confirm", toDesk)
    BY <2>1 DEF IInv, ConsentShape
  <2>3. ConsentShape'
    BY <1>2, <1>3, <1>4, <1>5, <1>6, <1>7, <2>2 DEF ConsentShape, Hellos
  <2>4. HelloShape'
    BY <1>2, <1>3, <1>5, <1>6 DEF HelloShape
  <2> QED BY <2>3, <2>4
<1>11. CommitShape' /\ CompleteShape' /\ EstablishedInOrder'
  BY <1>2, <1>3, <1>4, <1>6, <1>7 DEF IInv, CommitShape, CompleteShape,
     EstablishedInOrder, Hellos
<1> QED BY <1>8, <1>9, <1>10, <1>11 DEF IInv

(* While the phone has not committed, advance_pairing does no more than     *)
(* approve what both have confirmed.                                        *)
LEMMA AdvanceFacts ==
    ASSUME IInv, NEW d \in DeskState, ~d.senderCommitted,
           AdvancePairing(d) \/ KeepWaiting(d)
    PROVE  /\ desk' \in DeskState
           /\ desk'.up = d.up /\ desk'.sender = d.sender /\ desk'.allowed = d.allowed
           /\ desk'.pending = d.pending /\ desk'.local = d.local
           /\ desk'.remote = d.remote /\ desk'.senderCommitted = d.senderCommitted
           /\ trusted' = trusted /\ stored' = stored /\ established' = established
           /\ wire' = wire
           /\ toPhone' \in Seq(ToPhone) /\ HelloFirst(toPhone')
           /\ \A m \in Steps: Queued(m, toPhone') =>
                 Queued(m, toPhone) \/ (m = "Approval" /\ d.local /\ d.remote)
<1>1. toPhone \in Seq(ToPhone) /\ HelloFirst(toPhone)
  BY DEF IInv, TypeOK, HelloShape
<1>2. CASE KeepWaiting(d)
  BY <1>1, <1>2 DEF KeepWaiting, trust
<1>3. CASE AwaitsApproval(d) /\ SendApproval(d)
  <2>1. "Approval" \in ToPhone /\ "Approval" \notin Hellos
    BY DEF ToPhone, Hellos
  <2>2. /\ desk' = [d EXCEPT !.approvalSent = TRUE]
        /\ wire' = wire /\ toPhone' \in {toPhone, Append(toPhone, "Approval")}
        /\ trusted' = trusted /\ stored' = stored /\ established' = established
        /\ d.local /\ d.remote
    BY <1>3 DEF SendApproval, AwaitsApproval, DeskSends, trust
  <2>3. /\ toPhone' \in Seq(ToPhone) /\ HelloFirst(toPhone')
        /\ \A m: Queued(m, toPhone') => Queued(m, toPhone) \/ m = "Approval"
    <3>1. /\ Append(toPhone, "Approval") \in Seq(ToPhone)
          /\ HelloFirst(Append(toPhone, "Approval"))
          /\ \A m: Queued(m, Append(toPhone, "Approval")) <=>
                Queued(m, toPhone) \/ m = "Approval"
      BY <1>1, <2>1, AppendFacts
    <3> QED BY <1>1, <2>2, <3>1
  <2>4. /\ desk' \in DeskState
        /\ desk'.up = d.up /\ desk'.sender = d.sender /\ desk'.allowed = d.allowed
        /\ desk'.pending = d.pending /\ desk'.local = d.local
        /\ desk'.remote = d.remote /\ desk'.senderCommitted = d.senderCommitted
    BY <2>2 DEF DeskState
  <2> QED BY <2>2, <2>3, <2>4
<1>4. ~AwaitsCompletion(d)
  BY DEF AwaitsCompletion
<1>5. KeepWaiting(d) \/ (AwaitsApproval(d) /\ SendApproval(d))
  BY <1>4 DEF AdvancePairing
<1> QED BY <1>2, <1>3, <1>5

(* A confirmation of either side that the desktop takes in.                 *)
LEMMA ConfirmedKeeps ==
    ASSUME IInv, desk.pending, NEW d \in DeskState,
           \/ d = [desk EXCEPT !.local = TRUE]
           \/ d = [desk EXCEPT !.remote = TRUE],
           AdvancePairing(d) \/ KeepWaiting(d),
           d.remote => consent[Phone] # "None",
           d.local => consent'[Desk] # "None",
           consent' \in [Side -> {"None", "Renewed", "User"}],
           consent'[Phone] = consent[Phone],
           consent[Desk] # "None" => consent'[Desk] # "None",
           toDesk' \in Seq(ToDesk), \A m: Queued(m, toDesk') => Queued(m, toDesk),
           UNCHANGED <<phone, connections, withdrawn, repeated, fault>>
    PROVE  IInv'
<1>1. /\ desk.sender = TRUE /\ desk.pending = TRUE /\ desk.senderCommitted = FALSE
  BY Fields DEF IInv, DeskShape
<1>2. /\ d.up = desk.up /\ d.sender = TRUE /\ d.allowed = desk.allowed
      /\ d.pending = TRUE /\ d.senderCommitted = FALSE
      /\ desk.local => d.local
      /\ desk.remote => d.remote
  BY <1>1 DEF IInv, TypeOK, DeskState
<1>3. /\ desk' \in DeskState
      /\ desk'.up = desk.up /\ desk'.sender = TRUE /\ desk'.allowed = desk.allowed
      /\ desk'.pending = TRUE /\ desk'.local = d.local
      /\ desk'.remote = d.remote /\ desk'.senderCommitted = FALSE
      /\ trusted' = trusted /\ stored' = stored /\ established' = established
      /\ wire' = wire
      /\ toPhone' \in Seq(ToPhone) /\ HelloFirst(toPhone')
      /\ \A m \in Steps: Queued(m, toPhone') =>
            Queued(m, toPhone) \/ (m = "Approval" /\ d.local /\ d.remote)
  BY <1>2, AdvanceFacts
<1>4. TypeOK'
  BY <1>3 DEF IInv, TypeOK
<1>5. MemoryMatchesStore' /\ DeskShape' /\ Fresh' /\ PhoneKeepsTrust'
  BY <1>3 DEF IInv, MemoryMatchesStore, DeskShape, Fresh, PhoneKeepsTrust
<1>6. HelloShape'
  BY <1>3 DEF IInv, HelloShape, Hellos, Steps
<1>7. ConsentShape'
  BY <1>2, <1>3 DEF IInv, ConsentShape, Steps
<1>8. CommitShape'
  BY <1>2, <1>3 DEF IInv, CommitShape, Steps
<1>9. CompleteShape' /\ EstablishedInOrder'
  BY <1>2, <1>3 DEF IInv, CompleteShape, EstablishedInOrder, Steps
<1> QED BY <1>4, <1>5, <1>6, <1>7, <1>8, <1>9 DEF IInv

LEMMA ConfirmKeeps == IInv /\ HandleConfirm => IInv'
<1> SUFFICES ASSUME IInv, HandleConfirm PROVE IInv'
  OBVIOUS
<1> DEFINE d == [desk EXCEPT !.remote = TRUE]
<1>1. /\ desk.pending /\ AdvancePairing(d)
      /\ toDesk # <<>> /\ Head(toDesk) = "Confirm" /\ toDesk' = Tail(toDesk)
      /\ consent' = consent
      /\ UNCHANGED <<phone, connections, withdrawn, repeated, fault>>
  BY DeskPhases DEF HandleConfirm, DeskTakes
<1>2. /\ toDesk' \in Seq(ToDesk) /\ Queued("Confirm", toDesk)
      /\ \A m: Queued(m, toDesk') => Queued(m, toDesk)
  BY <1>1, TailFacts DEF IInv, TypeOK
<1>3. /\ consent[Phone] # "None" /\ (desk.local => consent[Desk] # "None")
      /\ consent \in [Side -> {"None", "Renewed", "User"}]
  BY <1>2 DEF IInv, TypeOK, ConsentShape
<1>4. d \in DeskState /\ d.local = desk.local
  BY DEF IInv, TypeOK, DeskState
<1> HIDE DEF d
<1>5. d = [desk EXCEPT !.remote = TRUE]
  BY DEF d
<1> QED BY <1>1, <1>2, <1>3, <1>4, <1>5, ConfirmedKeeps

LEMMA ConfirmLocallyKeeps == IInv /\ ConfirmLocally => IInv'
<1> SUFFICES ASSUME IInv, ConfirmLocally PROVE IInv'
  OBVIOUS
<1> DEFINE d == [desk EXCEPT !.local = TRUE]
<1>1. /\ desk.pending /\ (AdvancePairing(d) \/ KeepWaiting(d)) /\ toDesk' = toDesk
      /\ consent' = [consent EXCEPT ![Desk] = "User"]
      /\ UNCHANGED <<phone, connections, withdrawn, repeated, fault>>
  BY DEF ConfirmLocally, Consents
<1>2. /\ consent' \in [Side -> {"None", "Renewed", "User"}]
      /\ consent'[Phone] = consent[Phone] /\ consent'[Desk] = "User"
  BY <1>1 DEF IInv, TypeOK, Side, Phone, Desk
<1>3. /\ toDesk' \in Seq(ToDesk) /\ \A m: Queued(m, toDesk') => Queued(m, toDesk)
  BY <1>1 DEF IInv, TypeOK
<1>4. d \in DeskState /\ (d.remote => consent[Phone] # "None")
  BY DEF IInv, TypeOK, DeskState, ConsentShape
<1> HIDE DEF d
<1>5. d = [desk EXCEPT !.local = TRUE]
  BY DEF d
<1> QED BY <1>1, <1>2, <1>3, <1>4, <1>5, ConfirmedKeeps

(* The phone has committed: the desktop writes its trust and streams.       *)
LEMMA CommitKeeps == IInv /\ HandleCommit => IInv'
<1> SUFFICES ASSUME IInv, HandleCommit PROVE IInv'
  OBVIOUS
<1> DEFINE d == [desk EXCEPT !.senderCommitted = TRUE]
<1>1. /\ desk.pending /\ AdvancePairing(d)
      /\ toDesk # <<>> /\ Head(toDesk) = "Commit" /\ toDesk' = Tail(toDesk)
      /\ UNCHANGED <<phone, connections, consent, withdrawn, repeated, fault>>
  BY DeskPhases DEF HandleCommit, DeskTakes
<1>2. /\ toDesk' \in Seq(ToDesk) /\ Queued("Commit", toDesk)
      /\ \A m: Queued(m, toDesk') => Queued(m, toDesk)
      /\ toPhone \in Seq(ToPhone) /\ HelloFirst(toPhone)
  BY <1>1, TailFacts DEF IInv, TypeOK, HelloShape
<1>3. desk.local /\ desk.remote /\ Phone \in established
  BY <1>2 DEF IInv, CommitShape
<1>4. /\ d \in DeskState /\ d.up = desk.up /\ d.sender = desk.sender
      /\ d.local = desk.local /\ d.remote = desk.remote /\ d.senderCommitted = TRUE
  BY DEF IInv, TypeOK, DeskState
<1>5. desk.sender
  BY <1>1 DEF IInv, DeskShape
<1> HIDE DEF d
<1>6. AwaitsCompletion(d) /\ ~AwaitsApproval(d)
  BY <1>3, <1>4 DEF AwaitsCompletion, AwaitsApproval
<1>7. Complete(d)
  BY <1>1, <1>6 DEF AdvancePairing
<1>8. /\ desk' \in DeskState /\ desk'.up = desk.up /\ desk'.sender = desk.sender
      /\ desk'.pending = FALSE /\ desk'.allowed = TRUE
      /\ desk'.local = desk.local /\ desk'.remote = desk.remote
  BY <1>4, <1>7 DEF Complete, DeskState
<1>9. /\ trusted' \in [Side -> BOOLEAN] /\ stored' = trusted'
      /\ trusted'[Phone] = trusted[Phone]
      /\ established' = Side /\ wire' = wire
  BY <1>3, <1>7 DEF Complete, Persisted, DeskSends, IInv, TypeOK, MemoryMatchesStore,
     Side, Phone, Desk
<1>10. /\ toPhone' \in Seq(ToPhone) /\ HelloFirst(toPhone')
       /\ \A m: Queued(m, toPhone') => Queued(m, toPhone) \/ m = "Complete"
  <2>1. "Complete" \in ToPhone /\ "Complete" \notin Hellos
    BY DEF ToPhone, Hellos
  <2>2. /\ Append(toPhone, "Complete") \in Seq(ToPhone)
        /\ HelloFirst(Append(toPhone, "Complete"))
        /\ \A m: Queued(m, Append(toPhone, "Complete")) <=>
              Queued(m, toPhone) \/ m = "Complete"
    BY <1>2, <2>1, AppendFacts
  <2>3. toPhone' \in {toPhone, Append(toPhone, "Complete")}
    BY <1>7 DEF Complete, DeskSends
  <2> QED BY <1>2, <2>2, <2>3
<1>11. TypeOK'
  BY <1>1, <1>2, <1>8, <1>9, <1>10 DEF IInv, TypeOK
<1>12. MemoryMatchesStore' /\ DeskShape' /\ Fresh' /\ PhoneKeepsTrust'
  BY <1>1, <1>3, <1>5, <1>8, <1>9 DEF IInv, MemoryMatchesStore, DeskShape, Fresh,
     PhoneKeepsTrust
<1>13. HelloShape' /\ ConsentShape'
  BY <1>1, <1>2, <1>8, <1>10 DEF IInv, HelloShape, ConsentShape, Hellos
<1>14. CommitShape' /\ CompleteShape' /\ EstablishedInOrder'
  BY <1>1, <1>2, <1>3, <1>8, <1>9, <1>10 DEF IInv, CommitShape, CompleteShape,
     EstablishedInOrder, Side
<1> QED BY <1>11, <1>12, <1>13, <1>14 DEF IInv

(* What a step of the phone that takes a message leaves in its queue.       *)
LEMMA PhoneTakesFacts ==
    ASSUME IInv, NEW m, PhoneHas(m), PhoneTakes
    PROVE  /\ phone.up /\ Queued(m, toPhone) /\ toPhone # <<>>
           /\ toPhone' \in Seq(ToPhone) /\ HelloFirst(toPhone')
           /\ \A x: Queued(x, toPhone') => Queued(x, toPhone)
           /\ \A h \in Hellos: ~Queued(h, toPhone')
BY TailFacts DEF IInv, TypeOK, HelloShape, PhoneHas, PhoneTakes

(* A message that the phone sends.                                          *)
LEMMA PhoneSendsFacts ==
    ASSUME IInv, NEW m \in ToDesk, PhoneSends(m) \/ UNCHANGED <<wire, toDesk>>
    PROVE  /\ toDesk' \in Seq(ToDesk) /\ wire' = wire
           /\ \A x: Queued(x, toDesk') => Queued(x, toDesk) \/ (x = m /\ wire)
<1>1. toDesk \in Seq(ToDesk)
  BY DEF IInv, TypeOK
<1>2. /\ Append(toDesk, m) \in Seq(ToDesk)
      /\ \A x: Queued(x, Append(toDesk, m)) <=> Queued(x, toDesk) \/ x = m
  BY <1>1, AppendFacts
<1> QED BY <1>1, <1>2 DEF PhoneSends

LEMMA HelloRequiredKeeps == IInv /\ HandleHelloRequired => IInv'
<1> SUFFICES ASSUME IInv, HandleHelloRequired PROVE IInv'
  OBVIOUS
<1>1. /\ phone.up /\ Queued("HelloRequired", toPhone) /\ toPhone # <<>>
      /\ toPhone' \in Seq(ToPhone) /\ HelloFirst(toPhone')
      /\ \A x: Queued(x, toPhone') => Queued(x, toPhone)
      /\ \A h \in Hellos: ~Queued(h, toPhone')
  BY PhoneTakesFacts DEF HandleHelloRequired
<1>2. /\ phone' \in PhoneState /\ phone'.confirmSent = phone.confirmSent
      /\ phone'.stream = phone.stream
  BY DEF HandleHelloRequired, IInv, TypeOK, PhoneState
<1>3. UNCHANGED <<desk, trusted, stored, wire, toDesk, connections, consent, established,
                  withdrawn, repeated, fault>>
  BY DEF HandleHelloRequired, trust, history
<1>4. TypeOK'
  BY <1>1, <1>2, <1>3 DEF IInv, TypeOK
<1>5. MemoryMatchesStore' /\ DeskShape' /\ PhoneKeepsTrust' /\ EstablishedInOrder'
  BY <1>2, <1>3 DEF IInv, MemoryMatchesStore, DeskShape, PhoneKeepsTrust, EstablishedInOrder
<1>6. Fresh' /\ HelloShape'
  BY <1>1, <1>3 DEF IInv, Fresh, HelloShape
<1>7. ConsentShape' /\ CommitShape' /\ CompleteShape'
  BY <1>1, <1>2, <1>3 DEF IInv, ConsentShape, CommitShape, CompleteShape
<1> QED BY <1>4, <1>5, <1>6, <1>7 DEF IInv

(* The phone confirms, by itself or for its user.                           *)
LEMMA PhoneConfirmsKeeps ==
    ASSUME IInv, NEW how \in {"Renewed", "User"}, toPhone # <<>> \/ phone.challenge # "None",
           phone' \in PhoneState, phone'.confirmSent, phone'.stream = phone.stream,
           PhoneSends("Confirm"), Consents(Phone, how),
           toPhone' \in Seq(ToPhone), HelloFirst(toPhone'),
           \A x: Queued(x, toPhone') => Queued(x, toPhone),
           \A h \in Hellos: ~Queued(h, toPhone'),
           UNCHANGED <<desk, trusted, stored, connections, established, withdrawn>>,
           repeated' \in BOOLEAN, fault' = fault
    PROVE  IInv'
<1>1. /\ toDesk' \in Seq(ToDesk) /\ wire' = wire
      /\ \A x: Queued(x, toDesk') => Queued(x, toDesk) \/ x = "Confirm"
  BY PhoneSendsFacts DEF ToDesk
<1>2. /\ consent' \in [Side -> {"None", "Renewed", "User"}]
      /\ consent'[Phone] # "None" /\ consent'[Desk] = consent[Desk]
  BY DEF Consents, IInv, TypeOK, Side, Phone, Desk
<1>3. TypeOK'
  BY <1>1, <1>2 DEF IInv, TypeOK
<1>4. MemoryMatchesStore' /\ DeskShape' /\ PhoneKeepsTrust' /\ EstablishedInOrder'
  BY DEF IInv, MemoryMatchesStore, DeskShape, PhoneKeepsTrust, EstablishedInOrder
<1>5. Fresh' /\ HelloShape'
  BY DEF IInv, Fresh, HelloShape
<1>6. ConsentShape'
  BY <1>2 DEF IInv, ConsentShape
<1>7. CommitShape' /\ CompleteShape'
  BY <1>1 DEF IInv, CommitShape, CompleteShape
<1> QED BY <1>3, <1>4, <1>5, <1>6, <1>7 DEF IInv

LEMMA HelloRenewalKeeps == IInv /\ HandleHelloRenewal => IInv'
<1> SUFFICES ASSUME IInv, HandleHelloRenewal PROVE IInv'
  OBVIOUS
<1> USE DEF HandleHelloRenewal
<1>1. CASE PhoneRejects("Bypass") /\ UNCHANGED consent
  <2>1. /\ phone' = PhoneIdle /\ wire' = FALSE /\ toPhone' = <<>>
        /\ toDesk' \in Prefixes(toDesk) /\ fault' = "Bypass"
        /\ UNCHANGED <<desk, trusted, stored, connections, history>>
    BY <1>1 DEF PhoneRejects, PhoneEnds, trust, history
  <2>2. /\ <<>> \in Seq(ToPhone) /\ NoNewer(<<>>, toPhone)
        /\ toDesk' \in Seq(ToDesk) /\ NoNewer(toDesk', toDesk)
    BY <2>1, NoNewerFacts, PrefixFacts, EmptySeq DEF IInv, TypeOK
  <2>3. Forgetful
    BY <2>1, <2>2 DEF Forgetful
  <2> QED BY <2>3, ForgetfulKeeps
<1>2. CASE /\ PhoneTakes
           /\ phone' = [phone EXCEPT !.challenge = "Renewal", !.confirmSent = TRUE]
           /\ PhoneSends("Confirm") /\ Consents(Phone, "Renewed") /\ UNCHANGED fault
  <2>1. /\ toPhone # <<>> /\ toPhone' \in Seq(ToPhone) /\ HelloFirst(toPhone')
        /\ \A x: Queued(x, toPhone') => Queued(x, toPhone)
        /\ \A h \in Hellos: ~Queued(h, toPhone')
    BY <1>2, PhoneTakesFacts
  <2>2. /\ phone' \in PhoneState /\ phone'.confirmSent /\ phone'.stream = phone.stream
    BY <1>2 DEF IInv, TypeOK, PhoneState
  <2>3. /\ UNCHANGED <<desk, trusted, stored, connections, established, withdrawn>>
        /\ repeated' \in BOOLEAN
    BY DEF trust, IInv, TypeOK
  <2> QED BY <1>2, <2>1, <2>2, <2>3, PhoneConfirmsKeeps
<1> QED BY <1>1, <1>2

LEMMA UserConfirmsKeeps == IInv /\ UserConfirms => IInv'
<1> SUFFICES ASSUME IInv, UserConfirms PROVE IInv'
  OBVIOUS
<1>1. /\ phone.challenge # "None" /\ toPhone' = toPhone
      /\ PhoneSends("Confirm") /\ Consents(Phone, "User")
      /\ UNCHANGED <<desk, trusted, stored, connections, established, withdrawn>>
      /\ fault' = fault
  BY DEF UserConfirms, trust
<1>2. /\ toPhone' \in Seq(ToPhone) /\ HelloFirst(toPhone')
      /\ \A x: Queued(x, toPhone') => Queued(x, toPhone)
      /\ \A h \in Hellos: ~Queued(h, toPhone')
  BY <1>1 DEF IInv, TypeOK, HelloShape
<1>3. /\ phone' \in PhoneState /\ phone'.confirmSent /\ phone'.stream = phone.stream
      /\ repeated' \in BOOLEAN
  BY Fields DEF UserConfirms, IInv, TypeOK, PhoneState
<1> QED BY <1>1, <1>2, <1>3, PhoneConfirmsKeeps

LEMMA ApprovalKeeps == IInv /\ HandleApproval => IInv'
<1> SUFFICES ASSUME IInv, HandleApproval PROVE IInv'
  OBVIOUS
<1>1. /\ phone.up /\ Queued("Approval", toPhone) /\ toPhone # <<>>
      /\ toPhone' \in Seq(ToPhone) /\ HelloFirst(toPhone')
      /\ \A x: Queued(x, toPhone') => Queued(x, toPhone)
      /\ \A h \in Hellos: ~Queued(h, toPhone')
  BY PhoneTakesFacts DEF HandleApproval
<1>2. UNCHANGED <<desk, connections, consent, withdrawn, repeated, fault>>
  BY DEF HandleApproval
<1>3. CASE UNCHANGED <<phone, trusted, stored, wire, toDesk, established>>
  <2>1. TypeOK'
    BY <1>1, <1>2, <1>3 DEF IInv, TypeOK
  <2>2. /\ MemoryMatchesStore' /\ DeskShape' /\ Fresh' /\ PhoneKeepsTrust'
        /\ EstablishedInOrder'
    BY <1>1, <1>2, <1>3 DEF IInv, MemoryMatchesStore, DeskShape, Fresh, PhoneKeepsTrust,
       EstablishedInOrder
  <2>3. HelloShape' /\ ConsentShape' /\ CommitShape' /\ CompleteShape'
    BY <1>1, <1>2, <1>3 DEF IInv, HelloShape, ConsentShape, CommitShape, CompleteShape
  <2> QED BY <2>1, <2>2, <2>3 DEF IInv
<1>4. CASE ApprovalStored
  <2>1. /\ phone' \in PhoneState /\ phone'.confirmSent = phone.confirmSent
        /\ phone'.stream = phone.stream /\ phone'.challenge = phone.challenge
    BY <1>4 DEF ApprovalStored, IInv, TypeOK, PhoneState
  <2>2. /\ trusted' \in [Side -> BOOLEAN] /\ stored' = trusted'
        /\ trusted'[Phone] = TRUE
        /\ established' = established \cup {Phone} /\ established' \subseteq Side
    BY <1>4 DEF ApprovalStored, Persisted, IInv, TypeOK, MemoryMatchesStore, Side
  <2>3. /\ toDesk' \in Seq(ToDesk) /\ wire' = wire
        /\ \A x: Queued(x, toDesk') => Queued(x, toDesk) \/ (x = "Commit" /\ wire)
    BY <1>4, PhoneSendsFacts DEF ApprovalStored, ToDesk
  <2>4. wire => desk.local /\ desk.remote
    BY <1>1 DEF IInv, CommitShape
  <2>5. TypeOK'
    BY <1>1, <1>2, <2>1, <2>2, <2>3 DEF IInv, TypeOK
  <2>6. MemoryMatchesStore' /\ DeskShape' /\ Fresh' /\ PhoneKeepsTrust'
    BY <1>1, <1>2, <2>2 DEF IInv, MemoryMatchesStore, DeskShape, Fresh, PhoneKeepsTrust
  <2>7. HelloShape' /\ ConsentShape'
    BY <1>1, <1>2, <2>1, <2>3 DEF IInv, HelloShape, ConsentShape
  <2>8. CommitShape'
    BY <1>1, <1>2, <2>2, <2>3, <2>4 DEF IInv, CommitShape
  <2>9. CompleteShape' /\ EstablishedInOrder'
    BY <1>1, <1>2, <2>1, <2>2 DEF IInv, CompleteShape, EstablishedInOrder, Side
  <2> QED BY <2>5, <2>6, <2>7, <2>8, <2>9 DEF IInv
<1> QED BY <1>3, <1>4 DEF HandleApproval, ApprovalStoreFails, RollBack, trust

LEMMA CompleteKeeps == IInv /\ HandleComplete => IInv'
<1> SUFFICES ASSUME IInv, HandleComplete PROVE IInv'
  OBVIOUS
<1>1. /\ phone.up /\ Queued("Complete", toPhone) /\ toPhone # <<>>
      /\ toPhone' \in Seq(ToPhone) /\ HelloFirst(toPhone')
      /\ \A x: Queued(x, toPhone') => Queued(x, toPhone)
      /\ \A h \in Hellos: ~Queued(h, toPhone')
  BY PhoneTakesFacts DEF HandleComplete
<1>2. UNCHANGED <<desk, trusted, stored, connections, consent, established, withdrawn,
                  repeated, fault>>
  BY DEF HandleComplete, trust, history
<1>3. /\ phone' \in PhoneState /\ phone'.confirmSent = phone.confirmSent
      /\ phone'.challenge = phone.challenge
  BY DEF HandleComplete, IInv, TypeOK, PhoneState
<1>4. /\ toDesk' \in Seq(ToDesk) /\ wire' = wire
      /\ \A x: Queued(x, toDesk') => Queued(x, toDesk) \/ x = "StreamConfig"
  BY PhoneSendsFacts DEF HandleComplete, ToDesk
<1>5. established = Side /\ (desk.up => desk.allowed)
  BY <1>1 DEF IInv, CompleteShape
<1>6. TypeOK'
  BY <1>1, <1>2, <1>3, <1>4 DEF IInv, TypeOK
<1>7. MemoryMatchesStore' /\ DeskShape' /\ Fresh' /\ PhoneKeepsTrust'
  BY <1>1, <1>2 DEF IInv, MemoryMatchesStore, DeskShape, Fresh, PhoneKeepsTrust
<1>8. HelloShape' /\ ConsentShape' /\ CommitShape' /\ CompleteShape'
  BY <1>1, <1>2, <1>3, <1>4 DEF IInv, HelloShape, ConsentShape, CommitShape, CompleteShape
<1>9. EstablishedInOrder'
  BY <1>2, <1>5 DEF IInv, EstablishedInOrder, Side
<1> QED BY <1>6, <1>7, <1>8, <1>9 DEF IInv

-----------------------------------------------------------------------------
LEMMA NextInvariant == IInv /\ [Next]_vars => IInv'
<1> SUFFICES ASSUME IInv, [Next]_vars PROVE IInv'
  OBVIOUS
<1>1. CASE UNCHANGED vars
  <2>1. /\ UNCHANGED <<phone, desk, trusted, stored, wire, toPhone, toDesk, connections>>
        /\ UNCHANGED <<consent, established, withdrawn, repeated, fault>>
    BY <1>1 DEF vars, trust, channels, history
  <2> QED
    BY <2>1 DEF IInv, TypeOK, MemoryMatchesStore, DeskShape, Fresh, NobodyConsents,
       HelloShape, ConsentShape, CommitShape, PhoneKeepsTrust, CompleteShape,
       EstablishedInOrder
<1>2. CASE Forgets
  BY <1>2, ForgetsForgets, ForgetfulKeeps
<1>3. CASE \E s \in Side: RemoveTrusted(s)
  BY <1>3, RemoveTrustedKeeps
<1> QED
  BY <1>1, <1>2, <1>3, ConnectKeeps, ClientHelloKeeps, ConfirmKeeps, CommitKeeps,
     ConfirmLocallyKeeps, HelloRequiredKeeps, HelloRenewalKeeps, UserConfirmsKeeps,
     ApprovalKeeps, CompleteKeeps
     DEF Next, PhoneReceives, DeskReceives, Users, Failures, Forgets

THEOREM Invariant == Spec => []IInv
BY InitInvariant, NextInvariant, PTL DEF Spec

(* Every variable keeps its type.                                           *)
THEOREM TypeCorrect == Spec => []TypeOK
<1>1. IInv => TypeOK
  BY DEF IInv
<1> QED BY <1>1, Invariant, PTL

(* What a side believes of its peer is what it will believe after a         *)
(* restart, whatever fails in between (remove_trusted_device,               *)
(* advance_pairing, accept_pairing_approval).                               *)
THEOREM StoreFollowsMemory == Spec => []MemoryMatchesStore
<1>1. IInv => MemoryMatchesStore
  BY DEF IInv
<1> QED BY <1>1, Invariant, PTL

(* The desktop takes media only after both sides have written their trust,  *)
(* the phone first, and the phone streams only then (advance_pairing,       *)
(* accept_pairing_complete).                                                *)
THEOREM CommitsInOrder == Spec => []CommitOrder
<1>1. IInv => CommitOrder
  BY DEF IInv, CommitOrder, MemoryMatchesStore, PhoneKeepsTrust, EstablishedInOrder
<1> QED BY <1>1, Invariant, PTL

-----------------------------------------------------------------------------
(* PairingHandshake implements PairingTrust.                                *)

LEMMA InitRefines == Init => Trust!Init
BY DEF Init, Trust!Init, Trust!Side, Side

TrustStep == [Trust!Next]_(Trust!trustVars)

LEMMA StutterRefines ==
    UNCHANGED <<trusted, consent, established>> => TrustStep
BY DEF TrustStep, Trust!trustVars

LEMMA SideStepRefines ==
    ASSUME NEW s \in Side,
           Trust!Renew(s) \/ Trust!Confirm(s) \/ Trust!Establish(s) \/ Trust!Withdraw(s)
    PROVE  TrustStep
BY DEF TrustStep, Trust!Next, Trust!Side, Side

LEMMA Sides == Phone \in Side /\ Desk \in Side /\ Phone # Desk
BY DEF Side, Phone, Desk

LEMMA RemoveTrustedRefines ==
    ASSUME IInv, NEW s \in Side, RemoveTrusted(s)
    PROVE  TrustStep
<1>1. CASE Persisted(s, FALSE)
  <2>1. Trust!Withdraw(s)
    BY <1>1 DEF RemoveTrusted, Persisted, Trust!Withdraw
  <2> QED BY <2>1, SideStepRefines
<1>2. CASE RollBack(s, FALSE)
  BY <1>2, StutterRefines DEF RemoveTrusted, RollBack, trust
<1> QED BY <1>1, <1>2 DEF RemoveTrusted

LEMMA ClientHelloRefines ==
    ASSUME IInv, HandleClientHello
    PROVE  TrustStep
<1>1. desk.up /\ ~desk.pending /\ ~desk.sender
      /\ trusted' = trusted /\ established' = established
  BY DeskPhases DEF HandleClientHello, DeskTakes, trust
<1>2. consent[Desk] = "None"
  BY <1>1, Sides DEF IInv, Fresh, NobodyConsents
<1>3. \/ trusted[Desk] /\ Consents(Desk, "Renewed")
      \/ UNCHANGED consent
  BY DEF HandleClientHello
<1>4. CASE UNCHANGED consent
  BY <1>1, <1>4, StutterRefines
<1>5. CASE trusted[Desk] /\ Consents(Desk, "Renewed")
  <2>1. Trust!Renew(Desk)
    BY <1>1, <1>2, <1>5 DEF Consents, Trust!Renew
  <2> QED BY <2>1, Sides, SideStepRefines
<1> QED BY <1>3, <1>4, <1>5

LEMMA ConfirmRefines ==
    ASSUME IInv, HandleConfirm
    PROVE  TrustStep
<1> DEFINE d == [desk EXCEPT !.remote = TRUE]
<1>1. desk.pending /\ AdvancePairing(d) /\ consent' = consent
  BY DeskPhases DEF HandleConfirm
<1>2. d \in DeskState /\ ~d.senderCommitted
  BY <1>1, Fields DEF IInv, TypeOK, DeskState, DeskShape
<1> HIDE DEF d
<1>3. trusted' = trusted /\ established' = established
  BY <1>1, <1>2, AdvanceFacts
<1> QED BY <1>1, <1>3, StutterRefines

LEMMA ConfirmLocallyRefines ==
    ASSUME IInv, ConfirmLocally
    PROVE  TrustStep
<1> DEFINE d == [desk EXCEPT !.local = TRUE]
<1>1. /\ desk.pending /\ (AdvancePairing(d) \/ KeepWaiting(d))
      /\ Consents(Desk, "User")
  BY DEF ConfirmLocally
<1>2. d \in DeskState /\ ~d.senderCommitted
  BY <1>1, Fields DEF IInv, TypeOK, DeskState, DeskShape
<1> HIDE DEF d
<1>3. trusted' = trusted /\ established' = established
  BY <1>1, <1>2, AdvanceFacts
<1>4. Trust!Confirm(Desk)
  BY <1>1, <1>3 DEF Consents, Trust!Confirm
<1> QED BY <1>4, Sides, SideStepRefines

LEMMA CommitRefines ==
    ASSUME IInv, HandleCommit
    PROVE  TrustStep
<1> DEFINE d == [desk EXCEPT !.senderCommitted = TRUE]
<1>1. /\ AdvancePairing(d) /\ consent' = consent
      /\ toDesk # <<>> /\ Head(toDesk) = "Commit"
  BY DEF HandleCommit, DeskTakes
<1>2. Queued("Commit", toDesk)
  BY <1>1, TailFacts DEF IInv, TypeOK
<1>3. desk.local /\ desk.remote /\ Phone \in established
  BY <1>2 DEF IInv, CommitShape
<1>4. d.local = desk.local /\ d.remote = desk.remote /\ d.senderCommitted = TRUE
  BY DEF IInv, TypeOK, DeskState
<1> HIDE DEF d
<1>5. Complete(d)
  BY <1>1, <1>3, <1>4 DEF AdvancePairing, AwaitsCompletion, AwaitsApproval
<1>6. consent[Phone] # "None" /\ consent[Desk] # "None"
  BY <1>3 DEF IInv, ConsentShape
<1>7. Trust!Establish(Desk)
  BY <1>1, <1>3, <1>5, <1>6 DEF Complete, Persisted, Trust!Establish, Trust!Side
<1> QED BY <1>7, Sides, SideStepRefines

LEMMA HelloRenewalRefines ==
    ASSUME IInv, HandleHelloRenewal
    PROVE  TrustStep
<1>1. trusted' = trusted /\ established' = established
  BY DEF HandleHelloRenewal, trust
<1>2. CASE UNCHANGED consent
  BY <1>1, <1>2, StutterRefines
<1>3. CASE trusted[Phone] /\ Consents(Phone, "Renewed")
  <2>1. Queued("HelloRenewal", toPhone)
    BY TailFacts DEF HandleHelloRenewal, PhoneHas, IInv, TypeOK
  <2>2. consent[Phone] = "None"
    BY <2>1 DEF IInv, HelloShape, Hellos
  <2>3. Trust!Renew(Phone)
    BY <1>1, <1>3, <2>2 DEF Consents, Trust!Renew
  <2> QED BY <2>3, Sides, SideStepRefines
<1> QED BY <1>2, <1>3 DEF HandleHelloRenewal

LEMMA UserConfirmsRefines ==
    ASSUME IInv, UserConfirms
    PROVE  TrustStep
<1>1. Trust!Confirm(Phone)
  BY DEF UserConfirms, Consents, trust, Trust!Confirm
<1> QED BY <1>1, Sides, SideStepRefines

LEMMA ApprovalRefines ==
    ASSUME IInv, HandleApproval
    PROVE  TrustStep
<1>1. consent' = consent
  BY DEF HandleApproval
<1>2. CASE phone.confirmSent /\ ApprovalStored
  <2>1. Queued("Approval", toPhone)
    BY TailFacts DEF HandleApproval, PhoneHas, IInv, TypeOK
  <2>2. consent[Phone] # "None" /\ consent[Desk] # "None"
    BY <1>2, <2>1 DEF IInv, ConsentShape
  <2>3. Trust!Establish(Phone)
    BY <1>1, <1>2, <2>2, Sides DEF ApprovalStored, Persisted, Trust!Establish, Trust!Side
  <2> QED BY <2>3, Sides, SideStepRefines
<1>3. CASE UNCHANGED <<trusted, established>>
  BY <1>1, <1>3, StutterRefines
<1> QED BY <1>2, <1>3 DEF HandleApproval, ApprovalStoreFails, RollBack, trust

LEMMA ConnectRefines == Connect => TrustStep
BY DEF Connect, trust, TrustStep, Trust!Next, Trust!BeginHandshake, Trust!Side, Side

LEMMA NextRefines == IInv /\ [Next]_vars => TrustStep
<1> SUFFICES ASSUME IInv, [Next]_vars PROVE TrustStep
  OBVIOUS
<1>1. CASE UNCHANGED vars
  BY <1>1, StutterRefines DEF vars, trust, history
<1>2. CASE Forgets
  BY <1>2, ForgetsForgets, StutterRefines DEF Forgetful, history
<1>3. CASE \E s \in Side: RemoveTrusted(s)
  BY <1>3, RemoveTrustedRefines
<1>4. CASE HandleHelloRequired \/ HandleComplete
  BY <1>4, StutterRefines DEF HandleHelloRequired, HandleComplete, trust, history
<1> QED
  BY <1>1, <1>2, <1>3, <1>4, ConnectRefines, ClientHelloRefines, ConfirmRefines,
     CommitRefines, ConfirmLocallyRefines, HelloRenewalRefines, UserConfirmsRefines,
     ApprovalRefines
     DEF Next, PhoneReceives, DeskReceives, Users, Failures, Forgets

(* Trust begins only when both sides have consented to the running          *)
(* handshake, the phone's before the desktop's, and ends only when a user   *)
(* withdraws it, whatever is lost, fails or restarts.                       *)
THEOREM Implements == Spec => TrustSpec
<1>1. IInv /\ [Next]_vars => [Trust!Next]_(Trust!trustVars)
  BY NextRefines DEF TrustStep
<1> QED BY <1>1, InitRefines, Invariant, PTL DEF Spec, TrustSpec, Trust!Spec

-----------------------------------------------------------------------------
(***************************************************************************)
(* Nobody is accused.  A message that its reader would refuse is never     *)
(* sent, or never reached: every kind is sent once, in its order, and the  *)
(* state of its sender says what its reader has taken in before it.        *)
(***************************************************************************)
Once(m, q) == \A i, j \in 1..Len(q): q[i] = m /\ q[j] = m => i = j

HelloStarts(q) == 1 \in 1..Len(q) => q[1] \in Hellos

(* Telemetry waits behind the Complete.                                     *)
ReportsLast(q) == \A j \in 1..Len(q): q[j] \in Telemetry =>
                     \E i \in 1..Len(q): i < j /\ q[i] = "Complete"

(* Sessions begin and end with their connection.                            *)
Sessions ==
    /\ wire => phone.up /\ desk.up
    /\ phone.up => phone.stream # "Idle"
    /\ ~phone.up => phone.challenge = "None" /\ ~phone.confirmSent /\ toPhone = <<>>
    /\ phone.challenge = "None" => phone.stream # "Streaming"
    /\ phone.up /\ Phone \in established => phone.committed /\ phone.confirmSent
    /\ phone.up /\ repeated => phone.confirmSent
    /\ ~desk.up => ~desk.sender
    /\ desk.allowed => ~desk.pending /\ desk.remote
    /\ desk.sender => desk.pending \/ desk.allowed

(* Before the hello the phone reads nothing else.                           *)
HelloComesFirst ==
    phone.up /\ phone.challenge = "None" =>
        HelloStarts(toPhone) /\ (wire /\ desk.sender => toPhone # <<>>)

(* One approval, before the phone writes its trust.                         *)
OneApproval ==
    /\ Once("Approval", toPhone)
    /\ desk.up /\ ~desk.approvalSent => Phone \notin established
    /\ Queued("Approval", toPhone) =>
          Phone \notin established /\ (desk.up => desk.approvalSent)

(* One Complete, and the reports after it.                                  *)
OneComplete ==
    /\ Once("Complete", toPhone)
    /\ Queued("Complete", toPhone) => phone.stream # "Streaming"
    /\ phone.stream # "Streaming" /\ Phone \notin withdrawn =>
          /\ ReportsLast(toPhone)
          /\ wire /\ desk.allowed => Queued("Complete", toPhone)

(* One ClientHello, one Commit, and one Confirm unless the user confirms    *)
(* again.                                                                   *)
OneOfEach ==
    /\ desk.up /\ ~desk.sender => toDesk \in {<<>>, <<"ClientHello">>}
    /\ desk.sender => ~Queued("ClientHello", toDesk)
    /\ Once("Commit", toDesk)
    /\ Once("Confirm", toDesk) \/ repeated
    /\ phone.up /\ ~phone.confirmSent => ~Queued("Confirm", toDesk) /\ ~desk.remote
    /\ desk.up =>
          /\ Queued("Commit", toDesk) => ~desk.allowed
          /\ Queued("StreamConfig", toDesk) => desk.allowed
          /\ desk.remote /\ ~repeated => ~Queued("Confirm", toDesk)

Expected == /\ Sessions
            /\ HelloComesFirst
            /\ OneApproval
            /\ OneComplete
            /\ OneOfEach
            /\ NoFalseAccusation

-----------------------------------------------------------------------------
(* The order within a queue.                                                *)

LEMMA EmptyOrder ==
    /\ \A m: Once(m, <<>>)
    /\ HelloStarts(<<>>) /\ ReportsLast(<<>>)
BY DEF Once, HelloStarts, ReportsLast

LEMMA AppendOrder ==
    ASSUME NEW S, NEW q \in Seq(S), NEW m \in S
    PROVE  /\ \A x: Once(x, q) /\ (x = m => ~Queued(x, q)) => Once(x, Append(q, m))
           /\ HelloStarts(q) /\ (q # <<>> \/ m \in Hellos) => HelloStarts(Append(q, m))
           /\ ReportsLast(q) /\ (m \in Telemetry => Queued("Complete", q))
                 => ReportsLast(Append(q, m))
           /\ Append(q, m) # <<>>
<1>1. /\ Len(Append(q, m)) = Len(q) + 1 /\ Len(q) \in Nat
      /\ \A i \in 1..Len(q): Append(q, m)[i] = q[i]
      /\ Append(q, m)[Len(q) + 1] = m
      /\ Append(q, m) # <<>>
  BY AppendProperties, LenProperties, EmptySeq
<1>2. ASSUME NEW x, Once(x, q), x = m => ~Queued(x, q)
      PROVE  Once(x, Append(q, m))
  BY <1>1, <1>2 DEF Once, Queued
<1>3. HelloStarts(q) /\ (q # <<>> \/ m \in Hellos) => HelloStarts(Append(q, m))
  <2>1. q # <<>> => Len(q) >= 1
    BY <1>1, EmptySeq
  <2>2. q = <<>> => Append(q, m)[1] = m
    BY <1>1
  <2> QED BY <1>1, <2>1, <2>2 DEF HelloStarts
<1>4. ASSUME ReportsLast(q), m \in Telemetry => Queued("Complete", q)
      PROVE  ReportsLast(Append(q, m))
  <2> SUFFICES ASSUME NEW j \in 1..Len(q) + 1, Append(q, m)[j] \in Telemetry
               PROVE  \E i \in 1..Len(q) + 1: i < j /\ Append(q, m)[i] = "Complete"
    BY <1>1 DEF ReportsLast
  <2>1. CASE j \in 1..Len(q)
    <3>1. PICK i \in 1..Len(q): i < j /\ q[i] = "Complete"
      BY <1>1, <1>4, <2>1 DEF ReportsLast
    <3> QED BY <1>1, <3>1
  <2>2. CASE j = Len(q) + 1
    <3>1. PICK i \in 1..Len(q): q[i] = "Complete"
      BY <1>1, <1>4, <2>2 DEF Queued
    <3> QED BY <1>1, <2>2, <3>1
  <2> QED BY <1>1, <2>1, <2>2
<1> QED BY <1>1, <1>2, <1>3, <1>4

LEMMA TailOrder ==
    ASSUME NEW S, NEW q \in Seq(S), q # <<>>
    PROVE  /\ \A x: Once(x, q) => Once(x, Tail(q))
           /\ Once(Head(q), q) => ~Queued(Head(q), Tail(q))
           /\ \A x: Queued(x, q) /\ x # Head(q) => Queued(x, Tail(q))
           /\ HelloStarts(q) => Head(q) \in Hellos
           /\ ReportsLast(q) => Head(q) \notin Telemetry
           /\ ReportsLast(q) /\ Head(q) # "Complete" => ReportsLast(Tail(q))
<1>1. /\ Head(q) = q[1] /\ Len(Tail(q)) = Len(q) - 1 /\ Len(q) \in Nat /\ Len(q) >= 1
      /\ \A i \in 1..Len(q) - 1: Tail(q)[i] = q[i + 1]
  BY HeadTailProperties, LenProperties, EmptySeq
<1>2. ASSUME NEW x, Once(x, q) PROVE Once(x, Tail(q))
  <2> SUFFICES ASSUME NEW i \in 1..Len(q) - 1, NEW j \in 1..Len(q) - 1,
                      Tail(q)[i] = x, Tail(q)[j] = x
               PROVE  i = j
    BY <1>1 DEF Once
  <2>1. q[i + 1] = x /\ q[j + 1] = x /\ i + 1 \in 1..Len(q) /\ j + 1 \in 1..Len(q)
    BY <1>1
  <2> QED BY <1>1, <1>2, <2>1 DEF Once
<1>3. ASSUME Once(Head(q), q) PROVE ~Queued(Head(q), Tail(q))
  <2> SUFFICES ASSUME NEW i \in 1..Len(q) - 1, Tail(q)[i] = Head(q) PROVE FALSE
    BY <1>1 DEF Queued
  <2>1. q[i + 1] = Head(q) /\ q[1] = Head(q) /\ i + 1 \in 1..Len(q) /\ 1 \in 1..Len(q)
    BY <1>1
  <2> QED BY <1>3, <2>1 DEF Once
<1>4. ASSUME NEW x, Queued(x, q), x # Head(q) PROVE Queued(x, Tail(q))
  <2>1. PICK i \in 1..Len(q): q[i] = x
    BY <1>4 DEF Queued
  <2>2. i # 1 /\ i - 1 \in 1..Len(q) - 1 /\ (i - 1) + 1 = i
    BY <1>1, <1>4, <2>1
  <2>3. Tail(q)[i - 1] = x
    BY <1>1, <2>1, <2>2
  <2> QED BY <1>1, <2>2, <2>3 DEF Queued
<1>5. HelloStarts(q) => Head(q) \in Hellos
  BY <1>1 DEF HelloStarts
<1>6. ReportsLast(q) => Head(q) \notin Telemetry
  BY <1>1 DEF ReportsLast
<1>7. ASSUME ReportsLast(q), Head(q) # "Complete" PROVE ReportsLast(Tail(q))
  <2> SUFFICES ASSUME NEW j \in 1..Len(q) - 1, Tail(q)[j] \in Telemetry
               PROVE  \E i \in 1..Len(q) - 1: i < j /\ Tail(q)[i] = "Complete"
    BY <1>1 DEF ReportsLast
  <2>1. j + 1 \in 1..Len(q) /\ q[j + 1] \in Telemetry
    BY <1>1
  <2>2. PICK i \in 1..Len(q): i < j + 1 /\ q[i] = "Complete"
    BY <1>7, <2>1 DEF ReportsLast
  <2>3. i # 1 /\ i - 1 \in 1..Len(q) - 1 /\ i - 1 < j /\ (i - 1) + 1 = i
    BY <1>1, <1>7, <2>2
  <2>4. Tail(q)[i - 1] = "Complete"
    BY <1>1, <2>2, <2>3
  <2> QED BY <2>3, <2>4
<1> QED BY <1>2, <1>3, <1>4, <1>5, <1>6, <1>7

LEMMA PrefixOrder ==
    ASSUME NEW S, NEW q \in Seq(S), NEW p \in Prefixes(q)
    PROVE  /\ \A x: Once(x, q) => Once(x, p)
           /\ HelloStarts(q) => HelloStarts(p)
           /\ ReportsLast(q) => ReportsLast(p)
           /\ \A x: q = <<x>> => p \in {<<>>, <<x>>}
<1>1. PICK n \in 0..Len(q): p = SubSeq(q, 1, n)
  BY DEF Prefixes
<1>2. Len(q) \in Nat /\ q \in [1..Len(q) -> S]
  BY LenProperties
<1>3. /\ p \in Seq(S) /\ Len(p) = n
      /\ \A i \in 1..n: p[i] = q[i]
  BY <1>1, <1>2, SubSeqProperties
<1>4. \A x: Once(x, q) => Once(x, p)
  BY <1>2, <1>3 DEF Once
<1>5. HelloStarts(q) => HelloStarts(p)
  BY <1>2, <1>3 DEF HelloStarts
<1>6. ASSUME ReportsLast(q) PROVE ReportsLast(p)
  <2> SUFFICES ASSUME NEW j \in 1..n, p[j] \in Telemetry
               PROVE  \E i \in 1..n: i < j /\ p[i] = "Complete"
    BY <1>3 DEF ReportsLast
  <2>1. PICK i \in 1..Len(q): i < j /\ q[i] = "Complete"
    BY <1>2, <1>3, <1>6 DEF ReportsLast
  <2> QED BY <1>2, <1>3, <2>1
<1>7. ASSUME NEW x, q = <<x>> PROVE p \in {<<>>, <<x>>}
  <2>1. CASE n = 0
    BY <1>3, <2>1, EmptySeq
  <2>2. CASE n = 1
    <3>1. <<x>> \in Seq(S) /\ Len(<<x>>) = 1 /\ <<x>>[1] = x
      BY <1>7
    <3>2. Len(p) = 1 /\ p[1] = x
      BY <1>3, <1>7, <2>2
    <3> QED BY <1>3, <3>1, <3>2, SeqEqual
  <2> QED BY <1>2, <1>7, <2>1, <2>2
<1> QED BY <1>4, <1>5, <1>6, <1>7

-----------------------------------------------------------------------------
(* Nobody refuses.                                                          *)

LEMMA PhoneIsNotAccused ==
    ASSUME IInv, Expected, phone.up, toPhone # <<>>, ~PhoneAllows(Head(toPhone))
    PROVE  Phone \in withdrawn
<1> DEFINE m == Head(toPhone)
<1>1. m \in ToPhone /\ Queued(m, toPhone) /\ toPhone \in Seq(ToPhone)
  BY TailFacts DEF IInv, TypeOK
<1>2. /\ HelloStarts(toPhone) => m \in Hellos
      /\ ReportsLast(toPhone) => m \notin Telemetry
  BY <1>1, TailOrder
<1> HIDE DEF m
<1>3. phone.stream \in {"Negotiating", "Streaming"}
  BY DEF Expected, Sessions, IInv, TypeOK, PhoneState
<1>4. phone.challenge = "None" => m \in Hellos
  BY <1>2 DEF Expected, HelloComesFirst
<1>5. CASE m \in Hellos
  <2>1. phone.challenge = "None" /\ phone.stream = "Negotiating"
    BY <1>1, <1>3, <1>5 DEF Expected, Sessions, IInv, HelloShape
  <2>2. PhoneAllows(m)
    BY <1>5, <2>1 DEF PhoneAllows, Hellos, Telemetry
  <2> QED BY <2>2 DEF m
<1>6. CASE m \in {"Approval", "Complete"}
  <2>1. phone.stream # "Streaming"
    BY <1>1, <1>6 DEF Expected, OneApproval, OneComplete, IInv, EstablishedInOrder, Side
  <2>2. phone.challenge # "None"
    BY <1>4, <1>6 DEF Hellos
  <2>3. PhoneAllows(m)
    BY <1>3, <1>6, <2>1, <2>2 DEF PhoneAllows, Telemetry
  <2> QED BY <2>3 DEF m
<1>7. CASE m \in Telemetry
  <2> SUFFICES ASSUME Phone \notin withdrawn PROVE FALSE
    OBVIOUS
  <2>1. phone.stream = "Streaming"
    BY <1>2, <1>7 DEF Expected, OneComplete
  <2>2. trusted[Phone]
    BY <2>1 DEF IInv, EstablishedInOrder, PhoneKeepsTrust, Side
  <2>3. PhoneAllows(m)
    BY <1>7, <2>1, <2>2 DEF PhoneAllows, Telemetry
  <2> QED BY <2>3 DEF m
<1>8. CASE m = "Rejected"
  <2>1. PhoneAllows(m)
    BY <1>8 DEF PhoneAllows, Telemetry
  <2> QED BY <2>1 DEF m
<1> QED BY <1>1, <1>5, <1>6, <1>7, <1>8 DEF ToPhone, Hellos

LEMMA DeskIsNotAccused ==
    ASSUME IInv, Expected, desk.up, toDesk # <<>>, ~DeskAllows(Head(toDesk))
    PROVE  repeated
<1> DEFINE m == Head(toDesk)
<1>1. m \in ToDesk /\ Queued(m, toDesk)
  BY TailFacts DEF IInv, TypeOK
<1>2. CASE ~desk.sender
  <2>1. m = "ClientHello" /\ ~desk.pending
    <3>1. toDesk = <<"ClientHello">>
      BY <1>2 DEF Expected, OneOfEach
    <3>2. Head(<<"ClientHello">>) = "ClientHello"
      OBVIOUS
    <3> QED BY <1>2, <3>1, <3>2, Fields
  <2>2. DeskAllows(m)
    BY <1>2, <2>1 DEF DeskAllows, DeskPhase
  <2> QED BY <2>2
<1> HIDE DEF m
<1>3. CASE desk.sender
  <2> SUFFICES ASSUME ~repeated PROVE FALSE
    OBVIOUS
  <2>1. m # "ClientHello"
    BY <1>1, <1>3 DEF Expected, OneOfEach
  <2>2. CASE desk.pending
    <3>1. ~desk.allowed
      BY <2>2 DEF Expected, Sessions
    <3>2. m \in {"Confirm", "Commit"}
      BY <1>1, <2>1, <3>1 DEF Expected, OneOfEach, ToDesk
    <3>3. DeskAllows(m)
      BY <2>2, <3>2 DEF DeskAllows, DeskPhase
    <3> QED BY <3>3 DEF m
  <2>3. CASE ~desk.pending
    <3>1. desk.allowed /\ desk.remote
      BY <1>3, <2>3 DEF Expected, Sessions
    <3>2. m = "StreamConfig"
      BY <1>1, <2>1, <3>1 DEF Expected, OneOfEach, ToDesk
    <3>3. DeskAllows(m)
      BY <1>3, <2>3, <3>1, <3>2 DEF DeskAllows, DeskPhase
    <3> QED BY <3>3 DEF m
  <2> QED BY <2>2, <2>3
<1> QED BY <1>2, <1>3

-----------------------------------------------------------------------------
(* Steps after which no more is expected than before.                       *)

PhoneQueue(q) ==
    /\ ~phone.up => q = <<>>
    /\ Once("Approval", q) /\ Once("Complete", q)
    /\ phone.up /\ phone.challenge = "None" => HelloStarts(q)
    /\ phone.stream # "Streaming" /\ Phone \notin withdrawn => ReportsLast(q)
    /\ \A m \in {"Approval", "Complete"}: Queued(m, q) => Queued(m, toPhone)

DeskQueue(q) ==
    /\ Once("Commit", q) /\ (Once("Confirm", q) \/ repeated)
    /\ desk.up /\ ~desk.sender => q \in {<<>>, <<"ClientHello">>}
    /\ \A m: Queued(m, q) => Queued(m, toDesk)

Calm ==
    /\ phone' = phone \/ (phone' = PhoneIdle /\ toPhone' = <<>> /\ wire' = FALSE)
    /\ desk' = desk \/ (desk' = DeskIdle /\ toDesk' = <<>> /\ wire' = FALSE)
    /\ wire' => /\ wire
                /\ toPhone # <<>> /\ phone.challenge = "None" => toPhone' # <<>>
                /\ Queued("Complete", toPhone) => Queued("Complete", toPhone')
    /\ PhoneQueue(toPhone') /\ DeskQueue(toDesk')
    /\ UNCHANGED <<established, withdrawn, repeated>>
    /\ NoFalseAccusation'

LEMMA CalmKeeps ==
    ASSUME IInv, Expected, Calm
    PROVE  Expected'
<1>1. \/ phone' = phone
      \/ /\ phone'.up = FALSE /\ phone'.challenge = "None" /\ phone'.confirmSent = FALSE
         /\ phone'.stream = "Idle" /\ toPhone' = <<>> /\ wire' = FALSE
  BY DEF Calm, PhoneIdle
<1>2. \/ desk' = desk
      \/ /\ desk'.up = FALSE /\ desk'.sender = FALSE /\ desk'.pending = FALSE
         /\ desk'.allowed = FALSE /\ toDesk' = <<>> /\ wire' = FALSE
         /\ desk'.remote = FALSE
  BY DEF Calm, DeskIdle
<1>3. /\ established' = established /\ withdrawn' = withdrawn /\ repeated' = repeated
      /\ NoFalseAccusation' /\ PhoneQueue(toPhone') /\ DeskQueue(toDesk')
  BY DEF Calm
<1>4. Sessions'
  BY <1>1, <1>2, <1>3 DEF Expected, Sessions, Calm, PhoneQueue
<1>5. HelloComesFirst'
  BY <1>1, <1>2, <1>3, EmptyOrder DEF Expected, HelloComesFirst, Calm, PhoneQueue
<1>6. OneApproval'
  BY <1>1, <1>2, <1>3, EmptyFacts DEF Expected, OneApproval, PhoneQueue
<1>7. OneComplete'
  BY <1>1, <1>2, <1>3, EmptyOrder, EmptyFacts DEF Expected, OneComplete, Calm, PhoneQueue
<1>8. OneOfEach'
  BY <1>1, <1>2, <1>3, EmptyFacts DEF Expected, OneOfEach, DeskQueue
<1> QED BY <1>3, <1>4, <1>5, <1>6, <1>7, <1>8 DEF Expected

LEMMA PhoneQueuePrefix ==
    ASSUME NEW q \in Seq(ToPhone), PhoneQueue(q), NEW p \in Prefixes(q)
    PROVE  PhoneQueue(p)
BY PrefixFacts, PrefixOrder DEF PhoneQueue

LEMMA PhoneQueueNow ==
    ASSUME IInv, Expected
    PROVE  /\ toPhone \in Seq(ToPhone) /\ toDesk \in Seq(ToDesk)
           /\ PhoneQueue(toPhone) /\ PhoneQueue(<<>>)
           /\ \A p \in Prefixes(toPhone): PhoneQueue(p)
           /\ DeskQueue(toDesk) /\ DeskQueue(<<>>)
           /\ \A p \in Prefixes(toDesk): DeskQueue(p)
<1>1. toPhone \in Seq(ToPhone) /\ toDesk \in Seq(ToDesk)
  BY DEF IInv, TypeOK
<1>2. PhoneQueue(toPhone)
  BY DEF PhoneQueue, Expected, Sessions, OneApproval, OneComplete, HelloComesFirst
<1>3. PhoneQueue(<<>>) /\ DeskQueue(<<>>)
  BY EmptyFacts, EmptyOrder DEF PhoneQueue, DeskQueue
<1>4. DeskQueue(toDesk)
  BY DEF DeskQueue, Expected, OneOfEach
<1>5. ASSUME NEW p \in Prefixes(toDesk) PROVE DeskQueue(p)
  <2>1. /\ \A x: Queued(x, p) => Queued(x, toDesk)
        /\ \A x: Once(x, toDesk) => Once(x, p)
        /\ toDesk = <<>> => p = <<>>
        /\ toDesk = <<"ClientHello">> => p \in {<<>>, <<"ClientHello">>}
    BY <1>1, PrefixFacts, PrefixOrder
  <2> QED BY <1>4, <2>1 DEF DeskQueue
<1> QED BY <1>1, <1>2, <1>3, <1>4, <1>5, PhoneQueuePrefix

(* A last word of the desktop.                                              *)
LEMMA PhoneQueueAppend ==
    ASSUME IInv, Expected, wire, desk.sender,
           NEW m \in Telemetry \cup {"Rejected"}, m \in Telemetry => desk.allowed
    PROVE  /\ Append(toPhone, m) \in Seq(ToPhone) /\ PhoneQueue(Append(toPhone, m))
           /\ \A p \in Prefixes(Append(toPhone, m)): PhoneQueue(p)
           /\ Append(toPhone, m) # <<>>
           /\ Queued("Complete", toPhone) => Queued("Complete", Append(toPhone, m))
<1>1. /\ m \in ToPhone /\ m \notin Hellos /\ m # "Approval" /\ m # "Complete"
      /\ toPhone \in Seq(ToPhone) /\ PhoneQueue(toPhone)
  BY PhoneQueueNow DEF ToPhone, Telemetry, Hellos
<1>2. /\ Append(toPhone, m) \in Seq(ToPhone)
      /\ \A x: Queued(x, Append(toPhone, m)) <=> Queued(x, toPhone) \/ x = m
  BY <1>1, AppendFacts
<1>3. /\ \A x: Once(x, toPhone) /\ (x = m => ~Queued(x, toPhone))
                  => Once(x, Append(toPhone, m))
      /\ HelloStarts(toPhone) /\ toPhone # <<>> => HelloStarts(Append(toPhone, m))
      /\ ReportsLast(toPhone) /\ (m \in Telemetry => Queued("Complete", toPhone))
            => ReportsLast(Append(toPhone, m))
      /\ Append(toPhone, m) # <<>>
  BY <1>1, AppendOrder
<1>4. phone.up /\ (phone.challenge = "None" => toPhone # <<>>)
  BY DEF Expected, Sessions, HelloComesFirst
<1>5. phone.stream # "Streaming" /\ Phone \notin withdrawn /\ m \in Telemetry
         => Queued("Complete", toPhone)
  BY DEF Expected, OneComplete
<1>6. PhoneQueue(Append(toPhone, m))
  BY <1>1, <1>2, <1>3, <1>4, <1>5 DEF PhoneQueue
<1> QED BY <1>2, <1>3, <1>6, PhoneQueuePrefix

LEMMA ForgetsIsCalm ==
    ASSUME IInv, Expected, Forgets
    PROVE  Calm
<1>1. /\ toPhone \in Seq(ToPhone) /\ toDesk \in Seq(ToDesk)
      /\ PhoneQueue(toPhone) /\ PhoneQueue(<<>>)
      /\ \A p \in Prefixes(toPhone): PhoneQueue(p)
      /\ DeskQueue(toDesk) /\ DeskQueue(<<>>)
      /\ \A p \in Prefixes(toDesk): DeskQueue(p)
  BY PhoneQueueNow
<1>2. NoFalseAccusation /\ (desk.allowed \/ desk.pending => desk.sender)
  BY DEF Expected, IInv, DeskShape
<1>3. CASE WireBreaks
  <2>1. UNCHANGED <<phone, desk, established, withdrawn, repeated, fault>> /\ ~wire'
    BY <1>3 DEF WireBreaks, history
  <2>2. PhoneQueue(toPhone') /\ DeskQueue(toDesk')
    BY <1>1, <1>3 DEF WireBreaks
  <2> QED BY <1>2, <2>1, <2>2 DEF Calm, NoFalseAccusation
<1>4. CASE PhoneEnds /\ UNCHANGED <<desk, established, withdrawn, repeated>>
           /\ NoFalseAccusation'
  BY <1>1, <1>4 DEF PhoneEnds, Calm
<1>5. CASE DeskEnds /\ UNCHANGED <<phone, established, withdrawn, repeated>>
           /\ NoFalseAccusation'
  BY <1>1, <1>5 DEF DeskEnds, Calm
<1>6. UNCHANGED <<withdrawn, repeated, fault>> => NoFalseAccusation'
  BY <1>2 DEF NoFalseAccusation
<1>7. CASE PhoneSees \/ PhoneDisconnects \/ PhoneRestarts \/ HandleStopStream
  BY <1>4, <1>6, <1>7 DEF PhoneSees, PhoneDisconnects, PhoneRestarts, HandleStopStream, history
<1>8. CASE PhoneRefuses
  <2>1. Phone \in withdrawn
    BY <1>8, PhoneIsNotAccused DEF PhoneRefuses
  <2> QED BY <1>4, <1>8, <2>1 DEF PhoneRefuses, PhoneRejects, NoFalseAccusation, history
<1>9. CASE DeskSees \/ DeskRestarts \/ ChallengeExpires \/ CommitFails
  BY <1>5, <1>6, <1>9 DEF DeskSees, DeskRestarts, ChallengeExpires, CommitFails, history
<1>10. CASE DeskRefuses
  <2>1. repeated
    BY <1>10, DeskIsNotAccused DEF DeskRefuses
  <2> QED BY <1>5, <1>10, <2>1 DEF DeskRefuses, NoFalseAccusation, history
<1>11. CASE HandleStreamConfig
  <2>1. /\ UNCHANGED <<phone, desk, wire, toPhone, established, withdrawn, repeated, fault>>
        /\ toDesk # <<>> /\ toDesk' = Tail(toDesk) /\ desk.sender
    BY <1>2, <1>11 DEF HandleStreamConfig, DeskTakes, DeskAllows, DeskPhase, history
  <2>2. /\ \A x: Once(x, toDesk) => Once(x, toDesk')
        /\ \A x: Queued(x, toDesk') => Queued(x, toDesk)
    BY <1>1, <2>1, TailFacts, TailOrder
  <2>3. DeskQueue(toDesk')
    BY <1>1, <2>1, <2>2 DEF DeskQueue
  <2> QED BY <1>1, <1>6, <2>1, <2>3 DEF Calm
<1>12. CASE RejectLocally \/ DeskCloses
  <2>1. /\ desk' = DeskIdle /\ wire' = FALSE /\ toDesk' = <<>> /\ phone' = phone
        /\ UNCHANGED <<established, withdrawn, repeated, fault>>
    BY <1>12 DEF RejectLocally, DeskCloses, history
  <2>2. CASE toPhone' \in Prefixes(toPhone)
    BY <1>1, <1>6, <2>1, <2>2 DEF Calm
  <2>3. ASSUME NEW m \in Telemetry \cup {"Rejected"}, m \in Telemetry => desk.allowed,
               wire, desk.sender, toPhone' \in Prefixes(Append(toPhone, m))
        PROVE  Calm
    <3>1. PhoneQueue(toPhone')
      BY <2>3, PhoneQueueAppend
    <3> QED BY <1>1, <1>6, <2>1, <3>1 DEF Calm
  <2>4. CASE RejectLocally
    BY <1>2, <2>2, <2>3, <2>4 DEF RejectLocally, Telemetry
  <2>5. CASE DeskCloses
    BY <1>2, <2>2, <2>3, <2>5 DEF DeskCloses, SaysFarewell, Telemetry
  <2> QED BY <1>12, <2>4, <2>5
<1>13. CASE DeskReports
  <2>1. /\ UNCHANGED <<phone, desk, wire, toDesk, established, withdrawn, repeated, fault>>
        /\ desk.allowed /\ desk.sender /\ wire /\ toPhone' = Append(toPhone, "Telemetry")
    BY <1>2, <1>13 DEF DeskReports, DeskSends, history
  <2>2. /\ PhoneQueue(toPhone') /\ toPhone' # <<>>
        /\ Queued("Complete", toPhone) => Queued("Complete", toPhone')
    BY <2>1, PhoneQueueAppend DEF Telemetry
  <2> QED BY <1>1, <1>6, <2>1, <2>2 DEF Calm
<1>14. CASE HandleReport \/ HandleRejected
  <2>1. /\ UNCHANGED <<phone, desk, wire, toDesk, established, withdrawn, repeated, fault>>
        /\ toPhone # <<>> /\ toPhone' = Tail(toPhone) /\ phone.up
        /\ Head(toPhone) \in {"Telemetry", "Rejected"}
    BY <1>14 DEF HandleReport, HandleRejected, PhoneHas, PhoneTakes, history
  <2>2. /\ \A x: Once(x, toPhone) => Once(x, toPhone')
        /\ \A x: Queued(x, toPhone') => Queued(x, toPhone)
        /\ Queued("Complete", toPhone) => Queued("Complete", toPhone')
        /\ ReportsLast(toPhone) => ReportsLast(toPhone')
        /\ ~HelloStarts(toPhone)
    BY <1>1, <2>1, TailFacts, TailOrder DEF Hellos
  <2>3. phone.challenge # "None"
    BY <2>1, <2>2 DEF Expected, HelloComesFirst
  <2>4. PhoneQueue(toPhone')
    BY <1>1, <2>1, <2>2, <2>3 DEF PhoneQueue
  <2> QED BY <1>1, <1>6, <2>1, <2>2, <2>3, <2>4 DEF Calm
<1> QED
  BY <1>3, <1>7, <1>8, <1>9, <1>10, <1>11, <1>12, <1>13, <1>14 DEF Forgets

-----------------------------------------------------------------------------
(* Steps that are expected.                                                 *)

LEMMA InitExpected == Init => Expected
<1> SUFFICES ASSUME Init PROVE Expected
  OBVIOUS
<1>1. /\ toPhone = <<>> /\ toDesk = <<>> /\ ~wire /\ established = {} /\ ~repeated
      /\ phone.up = FALSE /\ phone.stream = "Idle" /\ phone.challenge = "None"
      /\ phone.confirmSent = FALSE /\ fault = "None"
      /\ desk.up = FALSE /\ desk.sender = FALSE /\ desk.allowed = FALSE
      /\ desk.pending = FALSE /\ desk.remote = FALSE
  BY DEF Init, PhoneIdle, DeskIdle
<1> QED
  BY <1>1, EmptyFacts, EmptyOrder DEF Expected, Sessions, HelloComesFirst, OneApproval,
     OneComplete, OneOfEach, NoFalseAccusation

LEMMA ConnectExpected ==
    ASSUME IInv, Expected, Connect
    PROVE  Expected'
<1>1. /\ toPhone' = <<>> /\ toDesk' = <<"ClientHello">> /\ established' = {}
      /\ repeated' = FALSE /\ fault' = "None"
      /\ phone'.up = TRUE /\ phone'.stream = "Negotiating" /\ phone'.challenge = "None"
      /\ phone'.confirmSent = FALSE
      /\ desk'.up = TRUE /\ desk'.sender = FALSE /\ desk'.allowed = FALSE
      /\ desk'.pending = FALSE /\ desk'.remote = FALSE
  BY DEF Connect, PhoneIdle, DeskIdle
<1>2. /\ \A x: Once(x, toDesk')
      /\ \A x: Queued(x, toDesk') => x = "ClientHello"
  BY <1>1 DEF Once, Queued
<1> QED
  BY <1>1, <1>2, EmptyFacts, EmptyOrder DEF Expected, Sessions, HelloComesFirst,
     OneApproval, OneComplete, OneOfEach, NoFalseAccusation

LEMMA RemoveTrustedExpected ==
    ASSUME IInv, Expected, NEW s \in Side, RemoveTrusted(s)
    PROVE  Expected'
<1>1. /\ UNCHANGED <<phone, desk, wire, toPhone, toDesk, established, repeated, fault>>
      /\ withdrawn \subseteq withdrawn'
  BY DEF RemoveTrusted, channels
<1> QED
  BY <1>1 DEF Expected, Sessions, HelloComesFirst, OneApproval, OneComplete, OneOfEach,
     NoFalseAccusation

LEMMA ClientHelloExpected ==
    ASSUME IInv, Expected, HandleClientHello
    PROVE  Expected'
<1>1. /\ UNCHANGED <<phone, established, withdrawn, repeated, fault>>
      /\ desk.up /\ ~desk.sender /\ toDesk # <<>> /\ toDesk' = Tail(toDesk)
  BY DeskPhases DEF HandleClientHello, DeskTakes
<1>2. PICK a \in BOOLEAN, h \in Hellos:
         /\ desk' = [desk EXCEPT !.sender = TRUE, !.pending = TRUE, !.local = a]
         /\ DeskSends(h)
  BY DEF HandleClientHello, IInv, TypeOK, Side, Hellos
<1>3. /\ toPhone = <<>> /\ phone.challenge = "None" /\ ~phone.confirmSent
      /\ ~desk.allowed /\ ~desk.remote
  BY <1>1, Fields DEF IInv, Fresh
<1>4. /\ desk'.up = TRUE /\ desk'.sender = TRUE /\ desk'.pending = TRUE
      /\ desk'.allowed = desk.allowed /\ desk'.remote = desk.remote
      /\ desk'.approvalSent = desk.approvalSent
  BY <1>1, <1>2, Fields DEF IInv, TypeOK, DeskState
<1>5. toDesk' = <<>>
  <2>1. toDesk = <<"ClientHello">>
    BY <1>1 DEF Expected, OneOfEach
  <2> QED BY <1>1, <2>1
<1>6. wire' = wire /\ toPhone' = IF wire THEN <<h>> ELSE <<>>
  BY <1>2, <1>3 DEF DeskSends
<1>7. /\ \A m: Queued(m, toPhone') => m \in Hellos
      /\ \A m: Once(m, toPhone')
      /\ HelloStarts(toPhone') /\ ReportsLast(toPhone')
      /\ <<h>> # <<>>
  BY <1>6, EmptyFacts, EmptyOrder DEF Queued, Once, HelloStarts, ReportsLast, Hellos, Telemetry
<1>8. Sessions' /\ HelloComesFirst'
  BY <1>1, <1>3, <1>4, <1>6, <1>7 DEF Expected, Sessions, HelloComesFirst
<1>9. OneApproval' /\ OneComplete'
  BY <1>1, <1>3, <1>4, <1>6, <1>7 DEF Expected, OneApproval, OneComplete, Hellos
<1>10. OneOfEach' /\ NoFalseAccusation'
  BY <1>1, <1>3, <1>4, <1>5, EmptyFacts, EmptyOrder DEF Expected, OneOfEach,
     NoFalseAccusation
<1> QED BY <1>8, <1>9, <1>10 DEF Expected

(* A confirmation of either side: at most, the approval goes out.           *)
LEMMA ConfirmedExpected ==
    ASSUME IInv, Expected, desk.pending, NEW d \in DeskState,
           \/ d = [desk EXCEPT !.local = TRUE]
           \/ d = [desk EXCEPT !.remote = TRUE],
           AdvancePairing(d) \/ KeepWaiting(d),
           DeskQueue(toDesk'),
           d.remote => phone.confirmSent \/ ~phone.up,
           d.remote /\ ~repeated => ~Queued("Confirm", toDesk'),
           UNCHANGED <<phone, withdrawn, repeated, fault>>
    PROVE  Expected'
<1>1. /\ desk.sender = TRUE /\ desk.pending = TRUE /\ desk.senderCommitted = FALSE
      /\ desk.up = TRUE /\ desk.allowed = FALSE
  BY Fields DEF Expected, Sessions, IInv, DeskShape
<1>2. /\ d.up = TRUE /\ d.sender = TRUE /\ d.allowed = FALSE /\ d.pending = TRUE
      /\ d.senderCommitted = FALSE /\ d.approvalSent = desk.approvalSent
  BY <1>1 DEF IInv, TypeOK, DeskState
<1>3. /\ desk'.up = TRUE /\ desk'.sender = TRUE /\ desk'.allowed = FALSE
      /\ desk'.pending = TRUE /\ desk'.remote = d.remote
      /\ established' = established /\ wire' = wire
  BY <1>1, <1>2, AdvanceFacts
<1>4. \/ desk'.approvalSent = desk.approvalSent /\ toPhone' = toPhone
      \/ /\ ~desk.approvalSent /\ desk'.approvalSent = TRUE
         /\ toPhone' = IF wire THEN Append(toPhone, "Approval") ELSE toPhone
  <2>1. ~AwaitsCompletion(d)
    BY <1>2 DEF AwaitsCompletion
  <2>2. KeepWaiting(d) \/ (AwaitsApproval(d) /\ SendApproval(d))
    BY <2>1 DEF AdvancePairing
  <2> QED BY <1>2, <2>2 DEF KeepWaiting, AwaitsApproval, SendApproval, DeskSends, DeskState
<1>5. /\ toPhone \in Seq(ToPhone) /\ "Approval" \in ToPhone
      /\ "Approval" \notin Telemetry /\ "Approval" \notin Hellos
  BY PhoneQueueNow DEF ToPhone, Telemetry, Hellos
<1> DEFINE q == Append(toPhone, "Approval")
<1>6. /\ q # <<>>
      /\ \A x: Queued(x, q) <=> Queued(x, toPhone) \/ x = "Approval"
      /\ \A x: Once(x, toPhone) /\ (x = "Approval" => ~Queued(x, toPhone)) => Once(x, q)
      /\ HelloStarts(toPhone) /\ toPhone # <<>> => HelloStarts(q)
      /\ ReportsLast(toPhone) => ReportsLast(q)
  BY <1>5, AppendFacts, AppendOrder
<1>7. q = Append(toPhone, "Approval")
  OBVIOUS
<1> HIDE DEF q
<1>8. ~desk.approvalSent => Phone \notin established /\ ~Queued("Approval", toPhone)
  BY <1>1 DEF Expected, OneApproval
<1>9. wire /\ phone.challenge = "None" => toPhone # <<>>
  BY <1>1 DEF Expected, Sessions, HelloComesFirst
<1>10. Sessions'
  BY <1>1, <1>3, <1>4 DEF Expected, Sessions
<1>11. HelloComesFirst'
  BY <1>1, <1>3, <1>4, <1>6, <1>7, <1>9 DEF Expected, HelloComesFirst
<1>12. OneApproval'
  BY <1>1, <1>3, <1>4, <1>6, <1>7, <1>8 DEF Expected, OneApproval
<1>13. OneComplete'
  BY <1>1, <1>3, <1>4, <1>6, <1>7 DEF Expected, OneComplete
<1>14. OneOfEach' /\ NoFalseAccusation'
  BY <1>1, <1>3 DEF Expected, OneOfEach, DeskQueue, NoFalseAccusation
<1> QED BY <1>10, <1>11, <1>12, <1>13, <1>14 DEF Expected

LEMMA ConfirmExpected ==
    ASSUME IInv, Expected, HandleConfirm
    PROVE  Expected'
<1> DEFINE d == [desk EXCEPT !.remote = TRUE]
<1>1. /\ desk.pending /\ AdvancePairing(d)
      /\ toDesk # <<>> /\ Head(toDesk) = "Confirm" /\ toDesk' = Tail(toDesk)
      /\ UNCHANGED <<phone, withdrawn, repeated, fault>>
  BY DeskPhases DEF HandleConfirm, DeskTakes
<1>2. /\ toDesk \in Seq(ToDesk) /\ DeskQueue(toDesk)
      /\ \A x: Queued(x, toDesk') => Queued(x, toDesk)
      /\ Queued("Confirm", toDesk)
      /\ \A x: Once(x, toDesk) => Once(x, toDesk')
      /\ Once("Confirm", toDesk) => ~Queued("Confirm", toDesk')
  BY <1>1, PhoneQueueNow, TailFacts, TailOrder
<1>3. desk.sender
  BY <1>1 DEF IInv, DeskShape
<1>4. DeskQueue(toDesk')
  BY <1>1, <1>2, <1>3 DEF DeskQueue
<1>5. /\ phone.confirmSent \/ ~phone.up
      /\ ~repeated => ~Queued("Confirm", toDesk')
  BY <1>2 DEF Expected, OneOfEach
<1>6. d \in DeskState
  BY DEF IInv, TypeOK, DeskState
<1> HIDE DEF d
<1>7. d = [desk EXCEPT !.remote = TRUE]
  BY DEF d
<1> QED BY <1>1, <1>4, <1>5, <1>6, <1>7, ConfirmedExpected

LEMMA ConfirmLocallyExpected ==
    ASSUME IInv, Expected, ConfirmLocally
    PROVE  Expected'
<1> DEFINE d == [desk EXCEPT !.local = TRUE]
<1>1. /\ desk.pending /\ (AdvancePairing(d) \/ KeepWaiting(d)) /\ toDesk' = toDesk
      /\ UNCHANGED <<phone, withdrawn, repeated, fault>>
  BY DEF ConfirmLocally
<1>2. DeskQueue(toDesk')
  BY <1>1, PhoneQueueNow
<1>3. d \in DeskState /\ d.remote = desk.remote
  BY DEF IInv, TypeOK, DeskState
<1>4. desk.up
  BY <1>1 DEF Expected, Sessions, IInv, DeskShape
<1>5. /\ desk.remote => phone.confirmSent \/ ~phone.up
      /\ desk.remote /\ ~repeated => ~Queued("Confirm", toDesk')
  BY <1>1, <1>4 DEF Expected, OneOfEach
<1> HIDE DEF d
<1>6. d = [desk EXCEPT !.local = TRUE]
  BY DEF d
<1> QED BY <1>1, <1>2, <1>3, <1>5, <1>6, ConfirmedExpected

LEMMA CommitExpected ==
    ASSUME IInv, Expected, HandleCommit
    PROVE  Expected'
<1> DEFINE d == [desk EXCEPT !.senderCommitted = TRUE]
<1>1. /\ desk.pending /\ AdvancePairing(d)
      /\ toDesk # <<>> /\ Head(toDesk) = "Commit" /\ toDesk' = Tail(toDesk)
      /\ UNCHANGED <<phone, withdrawn, repeated, fault>>
  BY DeskPhases DEF HandleCommit, DeskTakes
<1>2. /\ toPhone \in Seq(ToPhone) /\ toDesk \in Seq(ToDesk) /\ DeskQueue(toDesk)
      /\ Queued("Commit", toDesk)
      /\ \A x: Queued(x, toDesk') => Queued(x, toDesk)
      /\ \A x: Once(x, toDesk) => Once(x, toDesk')
      /\ Once("Commit", toDesk) => ~Queued("Commit", toDesk')
  BY <1>1, PhoneQueueNow, TailFacts, TailOrder
<1>3. /\ desk.local /\ desk.remote /\ Phone \in established
      /\ desk.sender = TRUE /\ desk.up = TRUE
      /\ ~desk.allowed
  BY <1>1, <1>2, Fields DEF Expected, Sessions, IInv, CommitShape, DeskShape
<1>4. /\ d \in DeskState /\ d.up = TRUE /\ d.sender = TRUE
      /\ d.local = desk.local /\ d.remote = TRUE /\ d.senderCommitted = TRUE
      /\ d.approvalSent = desk.approvalSent
  BY <1>3, Fields DEF IInv, TypeOK, DeskState
<1> HIDE DEF d
<1>5. Complete(d)
  BY <1>1, <1>3, <1>4 DEF AdvancePairing, AwaitsApproval, AwaitsCompletion
<1>6. /\ desk'.up = TRUE /\ desk'.sender = TRUE /\ desk'.pending = FALSE
      /\ desk'.allowed = TRUE /\ desk'.remote = TRUE
      /\ desk'.approvalSent = desk.approvalSent
  BY <1>4, <1>5 DEF Complete, DeskState
<1>7. /\ established' = established \cup {Desk} /\ wire' = wire
      /\ toPhone' = IF wire THEN Append(toPhone, "Complete") ELSE toPhone
  BY <1>5 DEF Complete, DeskSends
<1>8. "Complete" \in ToPhone /\ "Complete" \notin Telemetry /\ "Complete" \notin Hellos
  BY DEF ToPhone, Telemetry, Hellos
<1> DEFINE q == Append(toPhone, "Complete")
<1>9. /\ q # <<>>
      /\ \A x: Queued(x, q) <=> Queued(x, toPhone) \/ x = "Complete"
      /\ \A x: Once(x, toPhone) /\ (x = "Complete" => ~Queued(x, toPhone)) => Once(x, q)
      /\ HelloStarts(toPhone) /\ toPhone # <<>> => HelloStarts(q)
      /\ ReportsLast(toPhone) => ReportsLast(q)
  BY <1>2, <1>8, AppendFacts, AppendOrder
<1>10. toPhone' \in {toPhone, q} /\ (wire => toPhone' = q) /\ (~wire => toPhone' = toPhone)
  BY <1>7
<1> HIDE DEF q
<1>11. /\ ~Queued("Complete", toPhone) /\ ~Queued("Approval", toPhone)
       /\ phone.stream # "Streaming"
  BY <1>3 DEF Expected, OneApproval, IInv, CompleteShape, EstablishedInOrder
<1>12. wire /\ phone.challenge = "None" => toPhone # <<>>
  BY <1>3 DEF Expected, Sessions, HelloComesFirst
<1>13. Phone \in established' <=> Phone \in established
  BY <1>7, Sides
<1>14. Sessions'
  BY <1>1, <1>3, <1>6, <1>7, <1>13 DEF Expected, Sessions
<1>15. HelloComesFirst'
  BY <1>1, <1>3, <1>6, <1>7, <1>9, <1>10, <1>12 DEF Expected, HelloComesFirst
<1>16. OneApproval'
  BY <1>3, <1>6, <1>9, <1>10, <1>11, <1>13 DEF Expected, OneApproval
<1>17. OneComplete'
  BY <1>1, <1>6, <1>7, <1>9, <1>10, <1>11 DEF Expected, OneComplete
<1>18. repeated \/ ~Queued("Confirm", toDesk)
  BY <1>3 DEF Expected, OneOfEach
<1>19. OneOfEach'
  BY <1>1, <1>2, <1>3, <1>6, <1>18 DEF Expected, OneOfEach
<1>20. NoFalseAccusation'
  BY <1>1 DEF Expected, NoFalseAccusation
<1> QED BY <1>14, <1>15, <1>16, <1>17, <1>19, <1>20 DEF Expected

(* What the phone leaves in its queue when it takes a message.              *)
LEMMA TakenOrder ==
    ASSUME IInv, Expected, NEW m, PhoneHas(m), PhoneTakes
    PROVE  /\ phone.up
           /\ Queued(m, toPhone)
           /\ \A x: Queued(x, toPhone') => Queued(x, toPhone)
           /\ \A x: Queued(x, toPhone) /\ x # m => Queued(x, toPhone')
           /\ Once("Approval", toPhone') /\ Once("Complete", toPhone')
           /\ m \in {"Approval", "Complete"} => ~Queued(m, toPhone')
           /\ ReportsLast(toPhone) /\ m # "Complete" => ReportsLast(toPhone')
<1>1. /\ toPhone \in Seq(ToPhone) /\ toPhone # <<>> /\ Head(toPhone) = m
      /\ toPhone' = Tail(toPhone) /\ phone.up
  BY PhoneQueueNow DEF PhoneHas, PhoneTakes
<1>2. Once("Approval", toPhone) /\ Once("Complete", toPhone)
  BY DEF Expected, OneApproval, OneComplete
<1> QED BY <1>1, <1>2, TailFacts, TailOrder

(* A message of the phone behind what it has sent.                          *)
LEMMA SentOrder ==
    ASSUME IInv, Expected, NEW m \in ToDesk, PhoneSends(m) \/ UNCHANGED <<wire, toDesk>>
    PROVE  /\ wire' = wire
           /\ \A x: Queued(x, toDesk') => Queued(x, toDesk) \/ (x = m /\ wire)
           /\ \A x: Once(x, toDesk) /\ (x = m => ~Queued(x, toDesk)) => Once(x, toDesk')
           /\ ~wire => toDesk' = toDesk
<1>1. toDesk \in Seq(ToDesk)
  BY PhoneQueueNow
<1>2. /\ \A x: Queued(x, Append(toDesk, m)) <=> Queued(x, toDesk) \/ x = m
      /\ \A x: Once(x, toDesk) /\ (x = m => ~Queued(x, toDesk))
            => Once(x, Append(toDesk, m))
  BY <1>1, AppendFacts, AppendOrder
<1> QED BY <1>2 DEF PhoneSends

LEMMA HelloRequiredExpected ==
    ASSUME IInv, Expected, HandleHelloRequired
    PROVE  Expected'
<1>1. /\ phone.up
      /\ \A x: Queued(x, toPhone') => Queued(x, toPhone)
      /\ \A x: Queued(x, toPhone) /\ x # "HelloRequired" => Queued(x, toPhone')
      /\ Once("Approval", toPhone') /\ Once("Complete", toPhone')
      /\ ReportsLast(toPhone) => ReportsLast(toPhone')
  BY TakenOrder DEF HandleHelloRequired
<1>2. UNCHANGED <<desk, wire, toDesk, established, withdrawn, repeated, fault>>
  BY DEF HandleHelloRequired, history
<1>3. /\ phone'.up = phone.up /\ phone'.stream = phone.stream
      /\ phone'.challenge = "Required" /\ phone'.confirmSent = phone.confirmSent
      /\ phone'.committed = phone.committed
  BY DEF HandleHelloRequired, IInv, TypeOK, PhoneState
<1>4. Sessions' /\ HelloComesFirst'
  BY <1>1, <1>2, <1>3 DEF Expected, Sessions, HelloComesFirst
<1>5. OneApproval' /\ OneComplete'
  BY <1>1, <1>2, <1>3 DEF Expected, OneApproval, OneComplete
<1>6. OneOfEach' /\ NoFalseAccusation'
  BY <1>2, <1>3 DEF Expected, OneOfEach, NoFalseAccusation
<1> QED BY <1>4, <1>5, <1>6 DEF Expected

(* The phone confirms: for the first time, or again for its user.           *)
LEMMA PhoneConfirmsExpected ==
    ASSUME IInv, Expected, phone.up,
           phone'.up = phone.up, phone'.stream = phone.stream,
           phone'.challenge # "None", phone'.confirmSent = TRUE,
           phone'.committed = phone.committed,
           PhoneSends("Confirm"),
           wire => desk.sender,
           phone.confirmSent => repeated',
           repeated => repeated',
           \A x: Queued(x, toPhone') => Queued(x, toPhone),
           Queued("Complete", toPhone) => Queued("Complete", toPhone'),
           Once("Approval", toPhone'), Once("Complete", toPhone'),
           ReportsLast(toPhone) => ReportsLast(toPhone'),
           UNCHANGED <<desk, established, withdrawn, fault>>
    PROVE  Expected'
<1>1. /\ wire' = wire
      /\ \A x: Queued(x, toDesk') => Queued(x, toDesk) \/ (x = "Confirm" /\ wire)
      /\ \A x: Once(x, toDesk) /\ (x = "Confirm" => ~Queued(x, toDesk)) => Once(x, toDesk')
      /\ ~wire => toDesk' = toDesk
  BY SentOrder DEF ToDesk
<1>2. Sessions' /\ HelloComesFirst'
  BY <1>1 DEF Expected, Sessions, HelloComesFirst
<1>3. OneApproval' /\ OneComplete'
  BY <1>1 DEF Expected, OneApproval, OneComplete
<1>4. Once("Commit", toDesk') /\ (Once("Confirm", toDesk') \/ repeated')
  BY <1>1 DEF Expected, OneOfEach
<1>5. desk.remote /\ ~repeated' => ~Queued("Confirm", toDesk')
  BY <1>1 DEF Expected, OneOfEach
<1>6. desk.up /\ ~desk.sender => toDesk' \in {<<>>, <<"ClientHello">>}
  BY <1>1 DEF Expected, OneOfEach
<1>7. OneOfEach'
  BY <1>1, <1>4, <1>5, <1>6 DEF Expected, OneOfEach
<1>8. NoFalseAccusation'
  BY DEF Expected, NoFalseAccusation
<1> QED BY <1>2, <1>3, <1>7, <1>8 DEF Expected

LEMMA HelloRenewalExpected ==
    ASSUME IInv, Expected, HandleHelloRenewal
    PROVE  Expected'
<1>1. CASE PhoneRejects("Bypass") /\ UNCHANGED consent
  <2>1. /\ PhoneEnds /\ fault' = "Bypass"
        /\ UNCHANGED <<desk, established, withdrawn, repeated>>
    BY <1>1 DEF HandleHelloRenewal, PhoneRejects
  <2>2. Calm
    BY <2>1, PhoneQueueNow DEF PhoneEnds, Calm, NoFalseAccusation
  <2> QED BY <2>2, CalmKeeps
<1>2. CASE /\ PhoneTakes
           /\ phone' = [phone EXCEPT !.challenge = "Renewal", !.confirmSent = TRUE]
           /\ PhoneSends("Confirm") /\ UNCHANGED fault
  <2>1. /\ phone.up
        /\ Queued("HelloRenewal", toPhone)
        /\ \A x: Queued(x, toPhone') => Queued(x, toPhone)
        /\ \A x: Queued(x, toPhone) /\ x # "HelloRenewal" => Queued(x, toPhone')
        /\ Once("Approval", toPhone') /\ Once("Complete", toPhone')
        /\ ReportsLast(toPhone) => ReportsLast(toPhone')
    BY <1>2, TakenOrder DEF HandleHelloRenewal
  <2>2. phone.challenge = "None" /\ ~phone.confirmSent /\ toPhone # <<>>
    BY <2>1, EmptyFacts DEF IInv, HelloShape, Hellos
  <2>3. /\ phone'.up = phone.up /\ phone'.stream = phone.stream
        /\ phone'.challenge # "None" /\ phone'.confirmSent = TRUE
        /\ phone'.committed = phone.committed
    BY <1>2 DEF IInv, TypeOK, PhoneState
  <2>4. UNCHANGED <<desk, established, withdrawn, repeated, fault>>
    BY <1>2 DEF HandleHelloRenewal
  <2>5. wire => desk.sender
    BY <2>2 DEF Expected, Sessions, IInv, Fresh
  <2> QED BY <1>2, <2>1, <2>2, <2>3, <2>4, <2>5, PhoneConfirmsExpected
<1> QED BY <1>1, <1>2 DEF HandleHelloRenewal

LEMMA UserConfirmsExpected ==
    ASSUME IInv, Expected, UserConfirms
    PROVE  Expected'
<1>1. /\ phone.challenge = "Required" /\ toPhone' = toPhone
      /\ repeated' = phone.confirmSent /\ PhoneSends("Confirm")
      /\ UNCHANGED <<desk, established, withdrawn, fault>>
  BY DEF UserConfirms
<1>2. phone.up /\ (repeated => phone.confirmSent)
  BY <1>1 DEF Expected, Sessions
<1>3. /\ phone'.up = phone.up /\ phone'.stream = phone.stream
      /\ phone'.challenge # "None" /\ phone'.confirmSent = TRUE
      /\ phone'.committed = phone.committed
  BY <1>1 DEF UserConfirms, IInv, TypeOK, PhoneState
<1>4. wire => desk.sender
  BY <1>1 DEF Expected, Sessions, IInv, Fresh
<1>5. Once("Approval", toPhone') /\ Once("Complete", toPhone')
  BY <1>1 DEF Expected, OneApproval, OneComplete
<1> QED BY <1>1, <1>2, <1>3, <1>4, <1>5, PhoneConfirmsExpected

LEMMA ApprovalExpected ==
    ASSUME IInv, Expected, HandleApproval
    PROVE  Expected'
<1>1. /\ phone.up /\ phone.challenge # "None"
      /\ Queued("Approval", toPhone) /\ ~Queued("Approval", toPhone')
      /\ \A x: Queued(x, toPhone') => Queued(x, toPhone)
      /\ \A x: Queued(x, toPhone) /\ x # "Approval" => Queued(x, toPhone')
      /\ Once("Approval", toPhone') /\ Once("Complete", toPhone')
      /\ ReportsLast(toPhone) => ReportsLast(toPhone')
  BY TakenOrder DEF HandleApproval, PhoneAllows, Telemetry
<1>2. UNCHANGED <<desk, withdrawn, repeated, fault>>
  BY DEF HandleApproval
<1>3. /\ Phone \notin established /\ (desk.up => desk.approvalSent /\ ~desk.allowed)
      /\ toPhone # <<>>
  BY <1>1, EmptyFacts DEF Expected, OneApproval, IInv, EstablishedInOrder, Side
<1>4. CASE UNCHANGED <<phone, wire, toDesk, established>>
  <2>1. Sessions' /\ HelloComesFirst'
    BY <1>1, <1>2, <1>4 DEF Expected, Sessions, HelloComesFirst
  <2>2. OneApproval' /\ OneComplete'
    BY <1>1, <1>2, <1>4 DEF Expected, OneApproval, OneComplete
  <2>3. OneOfEach' /\ NoFalseAccusation'
    BY <1>2, <1>4 DEF Expected, OneOfEach, NoFalseAccusation
  <2> QED BY <2>1, <2>2, <2>3 DEF Expected
<1>5. CASE phone.confirmSent /\ ApprovalStored
  <2>1. /\ phone'.up = phone.up /\ phone'.stream = phone.stream
        /\ phone'.challenge = phone.challenge /\ phone'.confirmSent = phone.confirmSent
        /\ phone'.committed = TRUE
    BY <1>5 DEF ApprovalStored, IInv, TypeOK, PhoneState
  <2>2. /\ wire' = wire
        /\ \A x: Queued(x, toDesk') => Queued(x, toDesk) \/ (x = "Commit" /\ wire)
        /\ \A x: Once(x, toDesk) /\ (x = "Commit" => ~Queued(x, toDesk)) => Once(x, toDesk')
        /\ ~wire => toDesk' = toDesk
    BY <1>5, SentOrder DEF ApprovalStored, ToDesk
  <2>3. ~Queued("Commit", toDesk)
    BY <1>3 DEF IInv, CommitShape
  <2>4. wire => desk.sender
    BY <1>3 DEF Expected, Sessions, IInv, Fresh
  <2>5. Sessions' /\ HelloComesFirst'
    BY <1>1, <1>2, <1>5, <2>1, <2>2 DEF Expected, Sessions, HelloComesFirst
  <2>6. OneApproval' /\ OneComplete'
    BY <1>1, <1>2, <1>3, <2>1, <2>2 DEF Expected, OneApproval, OneComplete
  <2>7. desk.up /\ ~desk.sender => toDesk' \in {<<>>, <<"ClientHello">>}
    BY <2>2, <2>4 DEF Expected, OneOfEach
  <2>8. OneOfEach'
    BY <1>2, <1>3, <2>1, <2>2, <2>3, <2>7 DEF Expected, OneOfEach
  <2>9. NoFalseAccusation'
    BY <1>2 DEF Expected, NoFalseAccusation
  <2> QED BY <2>5, <2>6, <2>8, <2>9 DEF Expected
<1> QED BY <1>4, <1>5 DEF HandleApproval, ApprovalStoreFails

(* Nothing but its user keeps the phone from streaming on the Complete.     *)
LEMMA CompleteExpected ==
    ASSUME IInv, Expected, HandleComplete
    PROVE  Expected'
<1>1. /\ phone.up /\ phone.challenge # "None"
      /\ Queued("Complete", toPhone) /\ ~Queued("Complete", toPhone')
      /\ \A x: Queued(x, toPhone') => Queued(x, toPhone)
      /\ Once("Approval", toPhone') /\ Once("Complete", toPhone')
  BY TakenOrder DEF HandleComplete, PhoneAllows, Telemetry
<1>2. UNCHANGED <<desk, established, withdrawn, repeated, fault>>
  BY DEF HandleComplete, history
<1>3. /\ established = Side /\ (desk.up => desk.allowed) /\ (desk.allowed => desk.sender)
      /\ phone.confirmSent /\ phone.committed
      /\ Phone \notin withdrawn => trusted[Phone]
  BY <1>1, Sides DEF Expected, Sessions, IInv, DeskShape, CompleteShape, PhoneKeepsTrust
<1>4. /\ phone'.up = phone.up /\ phone'.challenge = phone.challenge
      /\ phone'.confirmSent = phone.confirmSent /\ phone'.committed = phone.committed
      /\ phone'.stream \in {phone.stream, "Streaming"}
      /\ Phone \notin withdrawn => phone'.stream = "Streaming"
  BY <1>3 DEF HandleComplete, IInv, TypeOK, PhoneState
<1>5. /\ wire' = wire
      /\ \A x: Queued(x, toDesk') => Queued(x, toDesk) \/ (x = "StreamConfig" /\ wire)
      /\ \A x: Once(x, toDesk) /\ (x = "StreamConfig" => ~Queued(x, toDesk))
            => Once(x, toDesk')
      /\ ~wire => toDesk' = toDesk
  BY SentOrder DEF HandleComplete, ToDesk
<1>6. toPhone # <<>> /\ ~Queued("Approval", toPhone)
  BY <1>1, <1>3, Sides, EmptyFacts DEF Expected, OneApproval
<1>7. Sessions' /\ HelloComesFirst'
  BY <1>1, <1>2, <1>4, <1>5 DEF Expected, Sessions, HelloComesFirst
<1>8. OneApproval' /\ OneComplete'
  BY <1>1, <1>2, <1>4, <1>6 DEF Expected, OneApproval, OneComplete
<1>9. OneOfEach'
  BY <1>2, <1>3, <1>4, <1>5 DEF Expected, OneOfEach
<1>10. NoFalseAccusation'
  BY <1>2 DEF Expected, NoFalseAccusation
<1> QED BY <1>7, <1>8, <1>9, <1>10 DEF Expected

LEMMA NextExpected == IInv /\ Expected /\ [Next]_vars => Expected'
<1> SUFFICES ASSUME IInv, Expected, [Next]_vars PROVE Expected'
  OBVIOUS
<1>1. CASE UNCHANGED vars
  <2>1. UNCHANGED <<phone, desk, wire, toPhone, toDesk, established, withdrawn, repeated,
                    fault>>
    BY <1>1 DEF vars, channels, history
  <2> QED
    BY <2>1 DEF Expected, Sessions, HelloComesFirst, OneApproval, OneComplete, OneOfEach,
       NoFalseAccusation
<1>2. CASE Forgets
  BY <1>2, ForgetsIsCalm, CalmKeeps
<1>3. CASE \E s \in Side: RemoveTrusted(s)
  BY <1>3, RemoveTrustedExpected
<1> QED
  BY <1>1, <1>2, <1>3, ConnectExpected, ClientHelloExpected, ConfirmExpected,
     CommitExpected, ConfirmLocallyExpected, HelloRequiredExpected, HelloRenewalExpected,
     UserConfirmsExpected, ApprovalExpected, CompleteExpected
     DEF Next, PhoneReceives, DeskReceives, Users, Failures, Forgets

(* Two programs that follow the protocol never find each other at fault,    *)
(* whatever is lost and whoever gives up: only a pairing removed on the     *)
(* phone in the middle, or a short code confirmed again, is refused         *)
(* (receiver_payload_allowed and SenderSession::control_payload_allowed).    *)
THEOREM NobodyIsAccused == Spec => []NoFalseAccusation
<1>1. Expected => NoFalseAccusation
  BY DEF Expected
<1> QED BY <1>1, InitInvariant, NextInvariant, InitExpected, NextExpected, PTL DEF Spec

=============================================================================
