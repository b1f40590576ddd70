--------------------------- MODULE PairingHandshake ---------------------------
(***************************************************************************)
(* Pairing and trusted reconnection of one phone and one desktop:          *)
(* picoo-sender session/pairing.rs and control.rs against picoo-receiver   *)
(* session/pairing.rs and control.rs, over control streams that keep order *)
(* and may break at any moment, with the trusted stores of both sides in   *)
(* memory and on disk, their users, expiry, restarts and stores that       *)
(* cannot be written.                                                      *)
(*                                                                         *)
(* Both programs are the ones in this repository with fixed keys, so a     *)
(* signature, transcript and nonce of the running connection verifies, and *)
(* each connection is the only one its session knows (SenderLifecycle and  *)
(* ReceiverLifecycle treat connections that overlap).                      *)
(***************************************************************************)
EXTENDS Naturals, Sequences

CONSTANTS MaxConnections,  \* bound: connections opened
          MaxQueue         \* bound: queued messages when a report or a repeated
                           \* confirmation is added

ASSUME BoundAssumption == MaxConnections \in Nat \ {0} /\ MaxQueue \in Nat \ {0}

Phone == "phone"
Desk == "desk"
Side == {Phone, Desk}

VARIABLES
    phone,      \* SenderSession: reducer's stream, SenderPairing
    desk,       \* ReceiverSession: ActiveSender, PendingPairing
    trusted,    \* each side's TrustedDeviceStore has the other
    stored,     \* the same, in the store file
    wire,       \* the QUIC connection carries messages
    toPhone, toDesk,    \* control messages sent or delivered, oldest first
    connections,        \* history: connections opened
    consent,    \* history: how each side consented on this connection
    established,\* history: sides that wrote their trust on this connection
    withdrawn,  \* history: sides whose user removed the pairing on it
    repeated,   \* history: the phone's user confirmed again on it
    fault       \* history: a side found the other at fault on it

channels == <<wire, toPhone, toDesk>>
trust == <<trusted, stored>>
history == <<consent, established, withdrawn, repeated>>
vars == <<phone, desk, trust, channels, connections, history, fault>>

PhoneState == [up: BOOLEAN, stream: {"Idle", "Negotiating", "Streaming"},
               challenge: {"None", "Required", "Renewal"},
               confirmSent: BOOLEAN, committed: BOOLEAN]
DeskState == [up: BOOLEAN, sender: BOOLEAN, allowed: BOOLEAN, pending: BOOLEAN,
              local: BOOLEAN, remote: BOOLEAN, approvalSent: BOOLEAN,
              senderCommitted: BOOLEAN]

PhoneIdle == [up |-> FALSE, stream |-> "Idle", challenge |-> "None",
              confirmSent |-> FALSE, committed |-> FALSE]
DeskIdle == [up |-> FALSE, sender |-> FALSE, allowed |-> FALSE, pending |-> FALSE,
             local |-> FALSE, remote |-> FALSE,
             approvalSent |-> FALSE, senderCommitted |-> FALSE]

Telemetry == {"Telemetry", "StopStream"}
ToPhone == {"HelloRequired", "HelloRenewal", "Approval", "Complete",
            "Rejected"} \cup Telemetry
ToDesk == {"ClientHello", "Confirm", "Commit", "StreamConfig"}

TypeOK ==
    /\ phone \in PhoneState
    /\ desk \in DeskState
    /\ trusted \in [Side -> BOOLEAN] /\ stored \in [Side -> BOOLEAN]
    /\ wire \in BOOLEAN
    /\ toPhone \in Seq(ToPhone) /\ toDesk \in Seq(ToDesk)
    /\ connections \in 0..MaxConnections
    /\ consent \in [Side -> {"None", "Renewed", "User"}]
    /\ established \subseteq Side /\ withdrawn \subseteq Side /\ repeated \in BOOLEAN
    /\ fault \in {"None", "Bypass", "Phone", "Desk"}

Prefixes(q) == {SubSeq(q, 1, n): n \in 0..Len(q)}

-----------------------------------------------------------------------------
(* Ends of a connection.                                                    *)

(* The transport breaks; what each side's event queue already holds stays.  *)
WireBreaks ==
    /\ wire /\ wire' = FALSE
    /\ toPhone' \in Prefixes(toPhone)
    /\ toDesk' \in Prefixes(toDesk)
    /\ UNCHANGED <<phone, desk, trust, connections, history, fault>>

(* The phone ends the connection: reject_authentication, a user's           *)
(* disconnect, or the telling Disconnected after the last queued message.   *)
PhoneEnds ==
    /\ phone' = PhoneIdle
    /\ wire' = FALSE
    /\ toPhone' = <<>>
    /\ toDesk' \in Prefixes(toDesk)

(* The desktop aborts.  Close lets the control stream finish, so the phone  *)
(* still gets some of what was sent.                                        *)
DeskEnds ==
    /\ desk' = DeskIdle
    /\ wire' = FALSE
    /\ toDesk' = <<>>
    /\ toPhone' \in Prefixes(toPhone)

PhoneRejects(code) == PhoneEnds /\ fault' = code

PhoneSees ==
    /\ phone.up /\ ~wire /\ toPhone = <<>>
    /\ PhoneEnds
    /\ UNCHANGED <<desk, trust, connections, history, fault>>

PhoneDisconnects ==
    /\ phone.up
    /\ PhoneEnds
    /\ UNCHANGED <<desk, trust, connections, history, fault>>

(* active_session is cleared: whatever is still queued is refused.          *)
DeskSees ==
    /\ desk.up /\ ~wire
    /\ DeskEnds
    /\ UNCHANGED <<phone, trust, connections, history, fault>>

(* The process ends and starts again from the store file.                   *)
PhoneRestarts ==
    /\ phone.up
    /\ PhoneEnds
    /\ trusted' = [trusted EXCEPT ![Phone] = stored[Phone]]
    /\ UNCHANGED <<desk, stored, connections, history, fault>>

DeskRestarts ==
    /\ desk.up
    /\ DeskEnds
    /\ trusted' = [trusted EXCEPT ![Desk] = stored[Desk]]
    /\ UNCHANGED <<phone, stored, connections, history, fault>>

-----------------------------------------------------------------------------
(* A message is appended to the stream, or lost with the wire.  A send that *)
(* fails ends the connection and is not told apart from WireBreaks, except  *)
(* where the sender goes on (HandleApproval).                               *)

PhoneSends(m) == /\ toDesk' = IF wire THEN Append(toDesk, m) ELSE toDesk
                 /\ UNCHANGED wire
DeskSends(m) == /\ toPhone' = IF wire THEN Append(toPhone, m) ELSE toPhone
                /\ UNCHANGED wire

Persisted(s, value) == /\ trusted' = [trusted EXCEPT ![s] = value]
                       /\ stored' = [stored EXCEPT ![s] = value]

(* The store file could not be replaced: memory goes back to what it was.   *)
RollBackMissing(s, value) ==                            \* mutant
    trusted' = [trusted EXCEPT ![s] = value] /\ UNCHANGED stored
RollBack(s, value) == UNCHANGED trust

Consents(s, how) == consent' = [consent EXCEPT ![s] = how]

(* The user removes the pairing; sessions in progress are left alone.       *)
RemoveTrusted(s) ==
    /\ trusted[s]
    /\ \/ Persisted(s, FALSE) /\ withdrawn' = withdrawn \cup {s}
       \/ RollBack(s, FALSE) /\ UNCHANGED withdrawn
    /\ UNCHANGED <<phone, desk, channels, connections, consent, established,
                   repeated, fault>>

(* A new connection; the phone's first message is its ClientHello.          *)
Connect ==
    /\ ~phone.up /\ ~desk.up /\ connections < MaxConnections
    /\ connections' = connections + 1
    /\ phone' = [PhoneIdle EXCEPT !.up = TRUE, !.stream = "Negotiating"]
    /\ desk' = [DeskIdle EXCEPT !.up = TRUE]
    /\ wire' = TRUE /\ toDesk' = <<"ClientHello">> /\ toPhone' = <<>>
    /\ consent' = [s \in Side |-> "None"]
    /\ established' = {} /\ withdrawn' = {} /\ repeated' = FALSE /\ fault' = "None"
    /\ UNCHANGED trust

-----------------------------------------------------------------------------
(* The desktop.                                                             *)

DeskTakes(m) == /\ desk.up /\ toDesk # <<>> /\ Head(toDesk) = m
                /\ toDesk' = Tail(toDesk)

DeskPhase == IF desk.pending THEN "Pairing"
             ELSE IF ~desk.sender THEN "AwaitingClientHello" ELSE "Streaming"

DeskAllows(m) ==
    CASE DeskPhase = "AwaitingClientHello" -> m = "ClientHello"
      [] DeskPhase = "Pairing" -> m \in {"Confirm", "Commit"}
      [] DeskPhase = "Streaming" -> m = "StreamConfig" /\ desk.allowed

(* A payload outside its phase: the session is aborted.                     *)
DeskRefuses ==
    /\ desk.up /\ toDesk # <<>> /\ ~DeskAllows(Head(toDesk))
    /\ DeskEnds
    /\ fault' = "Desk"
    /\ UNCHANGED <<phone, trust, connections, history>>

(* `auto` is the setting that accepts trusted phones without a short code.  *)
HandleClientHello ==
    /\ DeskTakes("ClientHello") /\ DeskAllows("ClientHello")
    /\ \E auto \in BOOLEAN:
          LET accept == auto /\ trusted[Desk]
          IN  /\ desk' = [desk EXCEPT !.sender = TRUE, !.pending = TRUE,
                                      !.local = accept]
              /\ DeskSends(IF accept THEN "HelloRenewal" ELSE "HelloRequired")
              /\ IF accept THEN Consents(Desk, "Renewed") ELSE UNCHANGED consent
    /\ UNCHANGED <<phone, trust, connections, established, withdrawn, repeated, fault>>

AwaitsApproval(d) == d.local /\ d.remote /\ ~d.senderCommitted /\ ~d.approvalSent

(* Mutant: the desktop does not wait for the phone's commit.                *)
AwaitsCompletionEarly(d) == d.local /\ d.remote /\ d.approvalSent
AwaitsCompletion(d) == d.local /\ d.remote /\ d.senderCommitted

SendApproval(d) == /\ desk' = [d EXCEPT !.approvalSent = TRUE]
                   /\ DeskSends("Approval")
                   /\ UNCHANGED <<trust, established>>

Complete(d) == /\ desk' = [d EXCEPT !.pending = FALSE, !.allowed = TRUE]
               /\ Persisted(Desk, TRUE)
               /\ established' = established \cup {Desk}
               /\ DeskSends("Complete")

KeepWaiting(d) == /\ desk' = d
                  /\ UNCHANGED <<trust, established, wire, toPhone>>

AdvancePairing(d) == CASE AwaitsApproval(d) -> SendApproval(d)
                       [] AwaitsCompletion(d) -> Complete(d)
                       [] OTHER -> KeepWaiting(d)

HandleConfirm ==
    /\ DeskTakes("Confirm") /\ DeskAllows("Confirm")
    /\ AdvancePairing([desk EXCEPT !.remote = TRUE])
    /\ UNCHANGED <<phone, connections, consent, withdrawn, repeated, fault>>

HandleCommit ==
    /\ DeskTakes("Commit") /\ DeskAllows("Commit")
    /\ AdvancePairing([desk EXCEPT !.senderCommitted = TRUE])
    /\ UNCHANGED <<phone, connections, consent, withdrawn, repeated, fault>>

(* The phone has committed but the desktop's store cannot be written.       *)
CommitFails ==
    /\ desk.up /\ toDesk # <<>> /\ Head(toDesk) = "Commit"
    /\ DeskAllows("Commit") /\ AwaitsCompletion([desk EXCEPT !.senderCommitted = TRUE])
    /\ RollBack(Desk, TRUE)
    /\ DeskEnds
    /\ UNCHANGED <<phone, connections, history, fault>>

HandleStreamConfig ==
    /\ DeskTakes("StreamConfig") /\ DeskAllows("StreamConfig")
    /\ UNCHANGED <<phone, desk, trust, wire, toPhone, connections, history, fault>>

(* The confirmation stands when the approval cannot be sent; confirming     *)
(* again sends it then.                                                     *)
ConfirmLocally ==
    /\ desk.pending
    /\ LET d == [desk EXCEPT !.local = TRUE]
       IN  AdvancePairing(d) \/ (AwaitsApproval(d) /\ KeepWaiting(d))
    /\ Consents(Desk, "User")
    /\ UNCHANGED <<phone, toDesk, connections, withdrawn, repeated, fault>>

RejectLocally ==
    /\ desk.pending
    /\ desk' = DeskIdle /\ wire' = FALSE /\ toDesk' = <<>>
    /\ toPhone' \in Prefixes(IF wire THEN Append(toPhone, "Rejected") ELSE toPhone)
    /\ UNCHANGED <<phone, trust, connections, history, fault>>

(* Mutant: the window is only watched until the desktop's user has answered. *)
ChallengeExpiresUnanswered ==
    /\ desk.pending /\ ~desk.local
    /\ DeskEnds
    /\ UNCHANGED <<phone, trust, connections, history, fault>>

ChallengeExpires ==
    /\ desk.pending
    /\ DeskEnds
    /\ UNCHANGED <<phone, trust, connections, history, fault>>

SaysFarewellAlways == desk.sender           \* mutant: StopStream whatever the phase
SaysFarewell == desk.allowed

DeskCloses ==
    /\ desk.up
    /\ desk' = DeskIdle /\ wire' = FALSE /\ toDesk' = <<>>
    /\ toPhone' \in Prefixes(IF wire /\ SaysFarewell
                             THEN Append(toPhone, "StopStream") ELSE toPhone)
    /\ UNCHANGED <<phone, trust, connections, history, fault>>

(* Statistics and clock pings, at intervals while the session streams.      *)
DeskReports ==
    /\ desk.allowed /\ wire /\ Len(toPhone) < MaxQueue
    /\ DeskSends("Telemetry")
    /\ UNCHANGED <<phone, desk, trust, toDesk, connections, history, fault>>

-----------------------------------------------------------------------------
(* The phone.                                                               *)

PhoneHas(m) == phone.up /\ toPhone # <<>> /\ Head(toPhone) = m
PhoneTakes == toPhone' = Tail(toPhone)

PhoneAllows(m) ==
    CASE m \in {"HelloRequired", "HelloRenewal"} ->
            phone.stream = "Negotiating" /\ phone.challenge # "Required"
      [] m \in {"Approval", "Complete"} ->
            phone.stream = "Negotiating" /\ phone.challenge # "None"
      [] m \in Telemetry -> phone.stream = "Streaming" /\ trusted[Phone]
      [] m = "Rejected" -> TRUE

PhoneRefuses ==
    /\ phone.up /\ toPhone # <<>> /\ ~PhoneAllows(Head(toPhone))
    /\ PhoneRejects("Phone")
    /\ UNCHANGED <<desk, trust, connections, history>>

HandleHelloRequired ==
    /\ PhoneHas("HelloRequired") /\ PhoneAllows("HelloRequired")
    /\ PhoneTakes
    /\ phone' = [phone EXCEPT !.challenge = "Required"]
    /\ UNCHANGED <<desk, trust, wire, toDesk, connections, history, fault>>

(* A desktop that asks for no confirmation must be trusted already.         *)
HandleHelloRenewal ==
    /\ PhoneHas("HelloRenewal") /\ PhoneAllows("HelloRenewal")
    /\ \/ /\ trusted[Phone]
          /\ PhoneTakes
          /\ phone' = [phone EXCEPT !.challenge = "Renewal", !.confirmSent = TRUE]
          /\ PhoneSends("Confirm")
          /\ Consents(Phone, "Renewed")
          /\ UNCHANGED fault
       \/ /\ ~trusted[Phone]
          /\ PhoneRejects("Bypass")
          /\ UNCHANGED consent
    /\ UNCHANGED <<desk, trust, connections, established, withdrawn, repeated>>

(* Nothing in the session keeps the user from confirming a second time.     *)
UserConfirms ==
    /\ phone.challenge = "Required" /\ Len(toDesk) < MaxQueue
    /\ phone' = [phone EXCEPT !.confirmSent = TRUE]
    /\ repeated' = phone.confirmSent
    /\ PhoneSends("Confirm")
    /\ Consents(Phone, "User")
    /\ UNCHANGED <<desk, trust, toPhone, connections, established, withdrawn, fault>>

ApprovalStoreFails ==
    /\ RollBack(Phone, TRUE)
    /\ UNCHANGED <<phone, wire, toDesk, established>>

ApprovalStored ==
    /\ Persisted(Phone, TRUE)
    /\ phone' = [phone EXCEPT !.committed = TRUE]
    /\ established' = established \cup {Phone}
    /\ PhoneSends("Commit") \/ UNCHANGED <<wire, toDesk>>

(* Trust is written before the commit is sent, and the send may fail.       *)
HandleApproval ==
    /\ PhoneHas("Approval") /\ PhoneAllows("Approval")
    /\ PhoneTakes
    /\ IF phone.confirmSent THEN ApprovalStored \/ ApprovalStoreFails
       ELSE UNCHANGED <<phone, trust, wire, toDesk, established>>
    /\ UNCHANGED <<desk, connections, consent, withdrawn, repeated, fault>>

HandleComplete ==
    /\ PhoneHas("Complete") /\ PhoneAllows("Complete")
    /\ PhoneTakes
    /\ IF phone.confirmSent /\ phone.committed /\ trusted[Phone]
       THEN /\ phone' = [phone EXCEPT !.stream = "Streaming"]
            /\ PhoneSends("StreamConfig")
       ELSE UNCHANGED <<phone, wire, toDesk>>
    /\ UNCHANGED <<desk, trust, connections, history, fault>>

HandleReport ==
    /\ PhoneHas("Telemetry") /\ PhoneAllows("Telemetry")
    /\ PhoneTakes
    /\ UNCHANGED <<phone, desk, trust, wire, toDesk, connections, history, fault>>

HandleRejected ==
    /\ PhoneHas("Rejected")
    /\ PhoneTakes
    /\ UNCHANGED <<phone, desk, trust, wire, toDesk, connections, history, fault>>

HandleStopStream ==
    /\ PhoneHas("StopStream") /\ PhoneAllows("StopStream")
    /\ PhoneEnds
    /\ UNCHANGED <<desk, trust, connections, history, fault>>

-----------------------------------------------------------------------------
Init ==
    /\ phone = PhoneIdle /\ desk = DeskIdle
    /\ trusted \in [Side -> BOOLEAN] /\ stored = trusted
    /\ wire = FALSE /\ toPhone = <<>> /\ toDesk = <<>>
    /\ connections = 0
    /\ consent = [s \in Side |-> "None"]
    /\ established = {} /\ withdrawn = {} /\ repeated = FALSE /\ fault = "None"

PhoneReceives == PhoneRefuses \/ HandleHelloRequired \/ HandleHelloRenewal
                 \/ HandleApproval \/ HandleComplete \/ HandleReport
                 \/ HandleRejected \/ HandleStopStream

DeskReceives == DeskRefuses \/ HandleClientHello \/ HandleConfirm \/ HandleCommit
                \/ CommitFails \/ HandleStreamConfig

Users == UserConfirms \/ ConfirmLocally \/ RejectLocally \/ DeskCloses
         \/ PhoneDisconnects \/ \E s \in Side: RemoveTrusted(s)

Failures == WireBreaks \/ PhoneRestarts \/ DeskRestarts

Next == Connect \/ PhoneReceives \/ DeskReceives \/ Users \/ Failures
        \/ PhoneSees \/ DeskSees \/ ChallengeExpires \/ DeskReports

Spec == Init /\ [][Next]_vars

(* Both owners poll their events, the challenge has a deadline of a minute, *)
(* and a streaming desktop reports every second.  No user has to act.       *)
Fairness == /\ WF_vars(PhoneReceives \/ PhoneSees)
            /\ WF_vars(DeskReceives) /\ WF_vars(DeskSees)
            /\ WF_vars(ChallengeExpires) /\ WF_vars(DeskReports)

FairSpec == Spec /\ Fairness

-----------------------------------------------------------------------------
(* Properties.                                                              *)

(* The desktop takes media only after both sides have written their trust   *)
(* on this connection, and the phone streams only then.  Whatever fails, a  *)
(* desktop that has written its trust faces a phone whose trust is in its   *)
(* store, unless the phone's user removed it (REQ-PICOO-PAIRING-003).       *)
CommitOrder ==
    /\ Desk \in established => Phone \in established
    /\ Desk \in established /\ Phone \notin withdrawn => trusted[Phone] /\ stored[Phone]
    /\ desk.allowed => established = Side
    /\ phone.stream = "Streaming" => established = Side /\ (desk.up => desk.allowed)

(* Two programs that follow the protocol never find each other at fault,    *)
(* unless a user of the phone removed the pairing in the middle, or         *)
(* confirmed the same short code again.                                     *)
NoFalseAccusation == /\ fault = "Phone" => Phone \in withdrawn
                     /\ fault = "Desk" => repeated

(* Trust begins and ends as PairingTrust allows, also when a store cannot   *)
(* be written and after restarts: memory and file never differ.             *)
Trust == INSTANCE PairingTrust
TrustSpec == Trust!Spec

(* The phone does not wait for ever in a handshake, whatever the users do.  *)
HandshakeEnds == phone.stream = "Negotiating" ~> phone.stream # "Negotiating"

(* Of the docs; the code does not keep the two that follow.                 *)

(* "After the pairing is deleted the other device cannot resume video       *)
(* without a new confirmation" (PUC-007): trust that begins on a connection *)
(* was confirmed on it by both users.                                       *)
TrustNeedsBothUsers ==
    [][\A s \in Side: ~trusted[s] /\ trusted'[s]
          => consent = [t \in Side |-> "User"]]_<<trusted, consent>>
=============================================================================
