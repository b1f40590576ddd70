------------------------------ MODULE SenderStream ------------------------------
(***************************************************************************)
(* The outgoing stream of the phone (crates/picoo-sender): the encoder     *)
(* transaction of session/encoder_transaction.rs, the stream epochs and    *)
(* StreamConfigs of session/stream.rs, the admission of native encoder     *)
(* events of session/media.rs and the parts of pump, of abr.rs and of the  *)
(* session reset that touch them.                                          *)
(*                                                                         *)
(* Every entry point runs under the session mutex; `call` is the point its *)
(* holder has reached.  The native encoders are a second actor: each       *)
(* restart makes a new generation, and a generation that was replaced may  *)
(* still report.  Connection and authentication are reduced to `link`; the *)
(* module SenderLifecycle models them.                                     *)
(***************************************************************************)
EXTENDS Naturals

CONSTANTS
    Formats,    \* source formats: codec, height and frame rate
    Tall,       \* the formats of 1080 lines; the others have 720
    Offers,     \* sets of formats a receiver may offer
    None,       \* Option::None, and no transaction
    MaxEpoch,   \* MAX_STREAM_EPOCH
    MaxId,      \* u64::MAX, the last transaction id
    MaxGen      \* bound: encoder generations the platform starts

ASSUME FormatAssumption == /\ Tall \subseteq Formats
                           /\ Offers \subseteq SUBSET Formats
                           /\ None \notin Formats \cup Offers
ASSUME BoundAssumption == /\ MaxEpoch \in Nat \ {0}
                          /\ MaxId \in Nat \ {0}
                          /\ MaxGen \in Nat

VARIABLES
    link,       \* the session has no connection, negotiates or streams
    caps,       \* receiver_capabilities
    config,     \* pending_stream_config
    configSent, \* stream_config_sent
    wantsKey,   \* keyframe_requested
    tx,         \* encoder_apply_state: None is Committed
    nextId,     \* next_encoder_directive_id
    epoch,      \* current_stream_epoch
    lastEpoch,  \* last_allocated_stream_epoch
    gen,        \* committed_encoder_generation, 0 before the first
    height,     \* committed_encoder_height
    committed,  \* committed_source_format
    encoders,   \* the platform: generation -> what was started
    call,       \* what the holder of the session lock is doing
    au,         \* the encoder event it holds
    announced,  \* history: last StreamConfig queued on this connection
    carried,    \* history: format first sent under each epoch
    flushed     \* history: access unit just given to the transport

negotiated == <<caps, config, configSent>>
directives == <<tx, nextId, epoch, lastEpoch>>
native == <<gen, height, committed>>
wire == <<announced, carried, flushed>>
vars == <<link, negotiated, wantsKey, directives, native, encoders, call, au, wire>>

Epoch == 1..MaxEpoch
Generation == 1..MaxGen
Heights == {720, 1080}
Height(f) == IF f \in Tall THEN 1080 ELSE 720
Config == [format: Formats, epoch: Epoch]
Encoder == [format: Formats, epoch: Epoch]
Rollback == [config: Config \cup {None}, sent: BOOLEAN, gen: 0..MaxGen]
Transaction == [id: 1..MaxId, kind: {"Local", "Recovery"}, target: Formats,
                epoch: Epoch, rollback: Rollback, staged: BOOLEAN,
                expected: 0..MaxGen]
AccessUnit == [gen: Generation, key: BOOLEAN, config: BOOLEAN, txId: 0..MaxId]
Flushed == [format: Formats, epoch: Epoch, under: Config \cup {None}, own: BOOLEAN]

ASSUME NoneAssumption ==
    None \notin Config \cup Encoder \cup Transaction \cup AccessUnit \cup Flushed

TypeOK ==
    /\ link \in {"Down", "Negotiating", "Streaming"}
    /\ caps \in Offers \cup {None}
    /\ config \in Config \cup {None}
    /\ configSent \in BOOLEAN /\ wantsKey \in BOOLEAN
    /\ tx \in Transaction \cup {None}
    /\ nextId \in 1..MaxId
    /\ epoch \in Epoch /\ lastEpoch \in epoch..MaxEpoch
    /\ gen \in 0..MaxGen /\ height \in Heights \cup {0}
    /\ committed \in Formats \cup {None}
    /\ encoders \in [Generation -> Encoder \cup {None}]
    /\ call \in {"Free", "Pump", "PumpTake", "PumpFirst", "Ingest"}
    /\ au \in AccessUnit \cup {None}
    /\ announced \in Config \cup {None}
    /\ carried \in [Epoch -> Formats \cup {None}]
    /\ flushed \in Flushed \cup {None}

Applying == tx # None

Init ==
    /\ link = "Down" /\ caps = None /\ config = None
    /\ configSent = FALSE /\ wantsKey = FALSE
    /\ tx = None /\ nextId = 1 /\ epoch = 1 /\ lastEpoch = 1
    /\ gen = 0 /\ height = 0 /\ committed = None
    /\ encoders = [g \in Generation |-> None]
    /\ call = "Free" /\ au = None
    /\ announced = None /\ carried = [e \in Epoch |-> None]
    /\ flushed = None

-----------------------------------------------------------------------------
(* Beginning and ending an encoder transaction.                             *)

(* begin_encoder_transaction: the snapshot of what a failure returns to.    *)
NewTransaction(kind, target, e) ==
    [id |-> nextId, kind |-> kind, target |-> target, epoch |-> e,
     rollback |-> [config |-> config, sent |-> configSent, gen |-> gen],
     staged |-> FALSE, expected |-> 0]

RollBack_KeepsStaged(t) ==            \* mutant: the staged config stays
    /\ gen' = t.rollback.gen
    /\ configSent' = t.rollback.sent
    /\ UNCHANGED config

RollBack(t) ==
    /\ gen' = t.rollback.gen
    /\ config' = t.rollback.config
    /\ configSent' = t.rollback.sent

(* lifecycle.rs reset_session_resources, on every end of a connection: the  *)
(* transaction is aborted, the format and the epoch stay.                   *)
Reset ==
    /\ link' = "Down" /\ caps' = None /\ wantsKey' = FALSE /\ tx' = None
    /\ configSent' = FALSE
    /\ IF Applying
       THEN gen' = tx.rollback.gen /\ config' = tx.rollback.config
       ELSE UNCHANGED <<gen, config>>
    /\ announced' = None /\ flushed' = None
    /\ UNCHANGED <<nextId, epoch, lastEpoch, height, committed, carried>>

(* start_committed_encoder_recovery, from the state a rollback has restored *)
(* (the committed one when nothing was applying).                           *)
RecoverFrom(cfg, sent, g) ==
    IF height = 0 \/ nextId = MaxId \/ cfg = None
    THEN Reset
    ELSE /\ tx' = [id |-> nextId, kind |-> "Recovery", target |-> cfg.format,
                   epoch |-> epoch, staged |-> FALSE, expected |-> 0,
                   rollback |-> [config |-> cfg, sent |-> sent, gen |-> g]]
         /\ nextId' = nextId + 1 /\ wantsKey' = TRUE
         /\ config' = cfg /\ configSent' = sent /\ gen' = g
         /\ UNCHANGED <<link, caps, epoch, lastEpoch, height, committed, wire>>

(* handle_encoder_failure_transition.                                       *)
RollBackOnly ==
    /\ RollBack(tx) /\ tx' = None
    /\ UNCHANGED <<link, caps, wantsKey, nextId, epoch, lastEpoch, height,
                   committed, wire>>

RecoverCommitted ==
    RecoverFrom(tx.rollback.config, tx.rollback.sent, tx.rollback.gen)

FailStarted == IF tx.kind = "Recovery" THEN Reset ELSE RecoverCommitted

-----------------------------------------------------------------------------
(* The platform's encoders, outside the session lock.  A restart takes the  *)
(* epoch of a directive it has read, or the current one; the format it ends *)
(* up with need not be the requested one.                                   *)

StartEncoder(f) ==
    \E g \in Generation:
        /\ \A h \in Generation: encoders[h] = None <=> h >= g
        /\ \E e \in {epoch} \cup (IF Applying THEN {tx.epoch} ELSE {}):
              encoders' = [encoders EXCEPT ![g] = [format |-> f, epoch |-> e]]
        /\ UNCHANGED <<link, negotiated, wantsKey, directives, native, call, au, wire>>

-----------------------------------------------------------------------------
(* Calls of the platform on the session.                                    *)

NextEpoch_Reuses == epoch + 1         \* mutant: a failed epoch is used again
NextEpoch == lastEpoch + 1

BeginStreamReconfiguration(f) ==
    /\ call = "Free" /\ ~Applying
    /\ f \in (IF caps = None THEN Formats ELSE caps)
    /\ nextId < MaxId /\ lastEpoch < MaxEpoch
    /\ tx' = NewTransaction("Local", f, NextEpoch)
    /\ nextId' = nextId + 1
    /\ lastEpoch' = NextEpoch
    /\ wantsKey' = TRUE
    /\ UNCHANGED <<link, negotiated, epoch, native, encoders, call, au, wire>>

(* report_encoder_failed with a transaction id; generation 0 says that the  *)
(* new encoder never started.                                               *)
ReportTransactionFailed(id, g) ==
    /\ call = "Free" /\ Applying
    /\ id = tx.id
    /\ g # 0 => tx.expected \in {0, g}
    /\ IF g = 0 /\ tx.kind # "Recovery" THEN RollBackOnly ELSE FailStarted
    /\ UNCHANGED <<encoders, call, au>>

(* report_encoder_failed of the committed encoder.                          *)
ReportCommittedFailed(g) ==
    /\ call = "Free" /\ ~Applying
    /\ g # 0 /\ g = gen
    /\ RecoverFrom(config, configSent, gen)
    /\ UNCHANGED <<encoders, call, au>>

TakeKeyframeRequest ==
    /\ call = "Free" /\ wantsKey
    /\ wantsKey' = FALSE
    /\ UNCHANGED <<link, negotiated, directives, native, encoders, call, au, wire>>

(* disconnect, connect to another receiver.                                 *)
EndConnection ==
    /\ call = "Free" /\ (link # "Down" \/ Applying)
    /\ Reset
    /\ UNCHANGED <<encoders, call, au>>

StartPump ==
    /\ call = "Free"
    /\ call' = "Pump"
    /\ UNCHANGED <<link, negotiated, wantsKey, directives, native, encoders, au, wire>>

-----------------------------------------------------------------------------
(* submit_encoder_event.                                                    *)

TxIdFor(e) == IF Applying /\ tx.epoch = e THEN tx.id ELSE 0

BoundFormat == IF committed # None THEN committed
               ELSE IF config # None THEN config.format ELSE None

(* The checks that come before anything is mutated.                         *)
Admissible(g, key, withConfig) ==
    LET e == encoders[g] IN
    /\ withConfig => key \/ (TxIdFor(e.epoch) = 0 /\ gen # 0)
    /\ withConfig /\ ~Applying /\ gen # 0 => BoundFormat \in {None, e.format}
    /\ withConfig \/ config # None
    /\ caps # None
    /\ (IF withConfig THEN e.format ELSE config.format) \in caps
    /\ withConfig /\ Applying => e.format = tx.target

(* report_encoder_started, report_initial_encoder_event_started: whether    *)
(* the generation is the one expected, or the first.                        *)
MatchesTransaction(g) ==
    /\ TxIdFor(encoders[g].epoch) # 0
    /\ Height(tx.target) = Height(encoders[g].format)
    /\ tx.expected \in {0, g}

MatchesCommitted(g, withConfig) ==
    /\ ~Applying /\ encoders[g].epoch = epoch
    /\ \/ gen = 0 /\ withConfig
       \/ gen = 0 /\ config # None /\ Height(config.format) = Height(encoders[g].format)
       \/ gen = g /\ height = Height(encoders[g].format)

SubmitRefused(g, withConfig) ==
    /\ ~MatchesTransaction(g) /\ ~MatchesCommitted(g, withConfig)
    /\ call' = "PumpTake"
    /\ UNCHANGED <<config, configSent, tx, gen, height, au>>

AfterStaging_Straight(withConfig) == "Ingest"   \* mutant: not pumped first
AfterStaging(withConfig) == IF withConfig /\ ~Applying THEN "PumpFirst" ELSE "Ingest"

SubmitAccepted(g, key, withConfig) ==
    LET e == encoders[g]
        t == IF Applying THEN [tx EXCEPT !.expected = g, !.staged = @ \/ withConfig]
                         ELSE None
    IN  /\ MatchesTransaction(g) \/ MatchesCommitted(g, withConfig)
        /\ tx' = t
        /\ IF Applying THEN UNCHANGED <<gen, height>>
                       ELSE gen' = g /\ height' = Height(e.format)
        /\ IF withConfig
           THEN config' = [format |-> e.format, epoch |-> epoch] /\ configSent' = FALSE
           ELSE UNCHANGED <<config, configSent>>
        /\ \/ /\ call' = AfterStaging(withConfig)
              /\ au' = [gen |-> g, key |-> key, config |-> withConfig,
                         txId |-> TxIdFor(e.epoch)]
           \/ call' = "Free" /\ UNCHANGED au    \* align_access_unit fails

SubmitEncoderEvent(g, key, withConfig) ==
    /\ call = "Free" /\ encoders[g] # None
    /\ Admissible(g, key, withConfig)
    /\ SubmitRefused(g, withConfig) \/ SubmitAccepted(g, key, withConfig)
    /\ UNCHANGED <<link, caps, wantsKey, nextId, epoch, lastEpoch, committed,
                   encoders, wire>>

-----------------------------------------------------------------------------
(* ingest_encoder_access_unit and the flush that follows it.  The lock is   *)
(* held, so these steps belong to the submission above.                     *)

Carry(e, f) == carried' = [carried EXCEPT ![e] = IF @ = None THEN f ELSE @]

(* flush_pending: the access unit reaches the transport, or its queue is    *)
(* full and it is dropped with an error.                                    *)
Flush(e, f, under) ==
    \/ /\ flushed' = [epoch |-> e, format |-> f, under |-> under, own |-> au.config \/ Applying]
       /\ call' = "PumpTake"
    \/ UNCHANGED flushed /\ call' = "Free"

Rejected ==
    /\ call' = "Free"
    /\ UNCHANGED <<config, configSent, wantsKey, tx, epoch, native, wire>>

Fails == call' = "Free" /\ UNCHANGED flushed
Unmoved == UNCHANGED <<config, configSent, wantsKey, tx, epoch, native>>

IngestNow == call = "Ingest"
Encoded == encoders[au.gen]
Live == link = "Streaming"

MatchesNativeFacts ==
    /\ Applying /\ au.txId = tx.id
    /\ Encoded.epoch = tx.epoch
    /\ Height(Encoded.format) = Height(tx.target)
    /\ tx.expected = au.gen

(* The IDR that commits: its StreamConfig is queued first, under the        *)
(* candidate epoch, then the access unit is packetized, then committed.     *)
CommitReady ==
    /\ MatchesNativeFacts /\ au.key /\ tx.staged
    /\ config # None /\ config.format = tx.target
    /\ Height(config.format) = Height(Encoded.format)

CommitEpoch == IF tx.kind = "Recovery" THEN epoch ELSE tx.epoch

IngestCommit ==
    /\ IngestNow /\ Live /\ CommitReady
    /\ LET cfg == [format |-> config.format, epoch |-> tx.epoch] IN
       \/ /\ Fails /\ UNCHANGED <<announced, carried>> /\ Unmoved  \* send_control
       \/ /\ announced' = cfg /\ Carry(cfg.epoch, cfg.format)
          /\ Fails /\ Unmoved                                      \* packetization
       \/ /\ announced' = cfg /\ Carry(cfg.epoch, cfg.format)
          /\ config' = cfg /\ configSent' = TRUE
          /\ tx' = None /\ epoch' = CommitEpoch
          /\ gen' = au.gen /\ height' = Height(Encoded.format)
          /\ committed' = cfg.format
          /\ wantsKey' = FALSE
          /\ Flush(tx.epoch, Encoded.format, cfg)
    /\ au' = None
    /\ UNCHANGED <<link, caps, nextId, lastEpoch, encoders>>

IsCommitted ==
    /\ ~Applying /\ au.txId = 0
    /\ au.gen = gen /\ Encoded.epoch = epoch /\ height = Height(Encoded.format)

KeepsFormat == config = None \/ committed \in {None, config.format}

IngestCommitted ==
    /\ IngestNow /\ Live /\ IsCommitted /\ KeepsFormat
    /\ \/ Fails /\ UNCHANGED <<announced, carried>> /\ Unmoved     \* packetization
       \/ /\ committed' = IF config = None THEN committed ELSE config.format
          /\ wantsKey' = (wantsKey /\ ~au.key)
          /\ Flush(epoch, Encoded.format, announced)
          /\ Carry(epoch, Encoded.format)
          /\ UNCHANGED <<config, configSent, tx, epoch, gen, height, announced>>
    /\ au' = None
    /\ UNCHANGED <<link, caps, nextId, lastEpoch, encoders>>

IngestRejected ==
    /\ IngestNow
    /\ ~(Live /\ (CommitReady \/ (IsCommitted /\ KeepsFormat)))
    /\ Rejected
    /\ au' = None
    /\ UNCHANGED <<link, caps, nextId, lastEpoch, encoders>>

-----------------------------------------------------------------------------
(* pump: drain_events, then the deadline, then the pending StreamConfig.    *)

Pumping == call \in {"Pump", "PumpTake", "PumpFirst"}

(* TransportConnected, and PrepareConnection's ClientHello.  A connection   *)
(* that ends during a submission is not succeeded before the next pump.     *)
PollConnected ==
    /\ call = "Pump" /\ link = "Down"
    /\ link' = "Negotiating"
    /\ UNCHANGED <<negotiated, wantsKey, directives, native, encoders, call, au, wire>>

(* accept_pairing_complete: enter_streaming.                                *)
PollAuthenticated ==
    /\ Pumping /\ link = "Negotiating"
    /\ link' = "Streaming" /\ wantsKey' = TRUE
    /\ UNCHANGED <<negotiated, directives, native, encoders, call, au, wire>>

(* handle_capabilities; the receiver sends them once per connection.        *)
PollCapabilities(c) ==
    /\ Pumping /\ link = "Streaming" /\ caps = None
    /\ caps' = c
    /\ UNCHANGED <<link, config, configSent, wantsKey, directives, native,
                   encoders, call, au, wire>>

PollKeyframeRequest ==
    /\ Pumping /\ link = "Streaming" /\ ~wantsKey
    /\ wantsKey' = TRUE
    /\ UNCHANGED <<link, negotiated, directives, native, encoders, call, au, wire>>

(* TransportDisconnected, StopStream, AuthenticationRejected.               *)
PollEnd ==
    /\ Pumping /\ link # "Down"
    /\ Reset
    /\ UNCHANGED <<encoders, call, au>>

Drained(next) ==
    /\ call' = next /\ flushed' = None
    /\ UNCHANGED <<encoders, nextId, epoch, lastEpoch, native, tx, link, caps>>

(* expire_encoder_transaction in pump: the deadline of three seconds has    *)
(* passed.  What follows in the same pump finds a recovery, or no session.  *)
ExpireTransaction_LocalOnly ==        \* mutant: a recovery has no deadline
    /\ Pumping /\ Applying
    /\ tx.kind = "Local" /\ RecoverCommitted
    /\ UNCHANGED <<encoders, call, au>>

ExpireTransaction ==
    /\ Pumping /\ Applying
    /\ FailStarted
    /\ UNCHANGED <<encoders, call, au>>

SendDue ==
    /\ Live /\ ~configSent /\ ~Applying /\ caps # None
    /\ config # None /\ config.format \in caps

PumpSendFails ==                              \* the command queue is full
    /\ Pumping /\ SendDue
    /\ au' = None
    /\ Drained("Free")
    /\ UNCHANGED <<config, configSent, wantsKey, announced, carried>>

AfterPump == IF call = "PumpFirst" THEN "Ingest" ELSE "Free"

PumpSends ==
    /\ Pumping /\ SendDue
    /\ config' = [config EXCEPT !.epoch = epoch]
    /\ configSent' = TRUE
    /\ announced' = [format |-> config.format, epoch |-> epoch]
    /\ Carry(epoch, config.format)
    /\ wantsKey' = (wantsKey /\ call # "PumpTake")
    /\ Drained(AfterPump)
    /\ UNCHANGED au

PumpEnds ==
    /\ Pumping /\ ~SendDue
    /\ wantsKey' = (wantsKey /\ call # "PumpTake")
    /\ Drained(AfterPump)
    /\ UNCHANGED <<config, configSent, au, announced, carried>>

-----------------------------------------------------------------------------
Platform ==
    \/ \E f \in Formats: StartEncoder(f) \/ BeginStreamReconfiguration(f)
    \/ \E id \in 1..MaxId, g \in 0..MaxGen: ReportTransactionFailed(id, g)
    \/ \E g \in Generation: ReportCommittedFailed(g)
    \/ \E g \in Generation, key, withConfig \in BOOLEAN:
          SubmitEncoderEvent(g, key, withConfig)
    \/ TakeKeyframeRequest
    \/ EndConnection

Ingest == IngestCommit \/ IngestCommitted \/ IngestRejected

Pump ==
    \/ PollConnected \/ PollAuthenticated \/ PollKeyframeRequest \/ PollEnd
    \/ \E c \in Offers: PollCapabilities(c)
    \/ ExpireTransaction \/ PumpSendFails \/ PumpSends \/ PumpEnds

Next == Platform \/ StartPump \/ Ingest \/ Pump

(* The pump runs on a timer; a deadline that has passed is seen by it.      *)
Fairness ==
    /\ SF_vars(StartPump) /\ WF_vars(Ingest)
    /\ WF_vars(PumpSends \/ PumpSendFails \/ PumpEnds)
    /\ SF_vars(ExpireTransaction)

Spec == Init /\ [][Next]_vars
FairSpec == Spec /\ Fairness

-----------------------------------------------------------------------------
(* The committed generation, height and format always describe one encoder  *)
(* that was started for the current epoch: a late event of a replaced       *)
(* encoder, a failed candidate or a rollback never mixes two of them        *)
(* (report_encoder_started, commit_stream_epoch, report_encoder_failed).    *)
CommittedFactsAgree ==
    /\ gen # 0 =>
          /\ encoders[gen].epoch = epoch
          /\ height = Height(encoders[gen].format)
          /\ committed \in {None, encoders[gen].format}
    /\ gen # 0 /\ ~Applying => /\ config # None
                               /\ Height(config.format) = height
                               /\ committed \in {None, config.format}

(* A stream epoch is one format for all time, on this connection and on     *)
(* every later one: neither a StreamConfig nor an access unit goes out      *)
(* under an epoch that a failed directive or another connection has used    *)
(* for something else (allocate_stream_epoch).                              *)
EpochBindsFormat ==
    /\ announced # None => announced.format = carried[announced.epoch]
    /\ flushed # None => flushed.format = carried[flushed.epoch]

(* The access unit of an event that carries a StreamConfig, and the one     *)
(* that commits a directive, are flushed only after that StreamConfig, with *)
(* their own epoch and format, is queued (submit_encoder_event pumps first, *)
(* ingest_encoder_access_unit sends the candidate's).                       *)
ConfigBeforeItsMedia ==
    flushed # None /\ flushed.own =>
        flushed.under = [format |-> flushed.format, epoch |-> flushed.epoch]

(* Every directive ends: committed, rolled back or, after a failed recovery *)
(* too, with the connection (expire_encoder_transaction).                   *)
TransactionEnds == Applying ~> ~Applying

=============================================================================
