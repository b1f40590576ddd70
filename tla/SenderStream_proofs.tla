-------------------------- MODULE SenderStream_proofs --------------------------
(***************************************************************************)
(* The safety of the outgoing stream for every set of formats, every offer *)
(* of a receiver, and any number of epochs, directives and encoder         *)
(* generations.                                                            *)
(*                                                                         *)
(* What is committed is one encoder (CommittedShape); while a directive is *)
(* under way it is also what the rollback restores, so the failure paths   *)
(* need nothing else (DirectiveShape).  The epoch of a local directive is  *)
(* above every epoch that was committed, and what goes out under it before *)
(* the commit has its target format (CarriedShape).  Between the staging   *)
(* of an event that carries a StreamConfig and its ingestion, the pump has *)
(* queued that StreamConfig or the connection is gone (SubmissionShape).   *)
(***************************************************************************)
EXTENDS SenderStream, TLAPS

(* The committed encoder; without one nothing was ever announced.           *)
CommittedShape ==
    /\ gen = 0 => height = 0 /\ committed = None /\ carried[epoch] = None
    /\ gen # 0 => /\ encoders[gen] # None
                  /\ encoders[gen].epoch = epoch
                  /\ height = Height(encoders[gen].format)
                  /\ committed \in {None, encoders[gen].format}
                  /\ carried[epoch] \in {None, encoders[gen].format}

(* cfg is the StreamConfig of the committed encoder.                        *)
OfCommitted(cfg) == /\ cfg # None <=> gen # 0
                    /\ gen # 0 => cfg.format = encoders[gen].format

DirectiveShape ==
    /\ ~Applying => OfCommitted(config)
    /\ Applying =>
          /\ OfCommitted(tx.rollback.config) /\ tx.rollback.gen = gen
          /\ tx.kind = "Recovery" => /\ tx.epoch = epoch /\ gen # 0
                                     /\ tx.target = encoders[gen].format
          /\ tx.kind = "Local" => epoch < tx.epoch /\ tx.epoch = lastEpoch
          /\ tx.staged => tx.expected # 0
          /\ tx.expected # 0 => encoders[tx.expected] # None
          /\ tx.staged => encoders[tx.expected].format = tx.target

CarriedShape ==
    /\ \A e \in Epoch : e > lastEpoch => carried[e] = None
    /\ Applying /\ tx.kind = "Local" => carried[tx.epoch] \in {None, tx.target}

SubmissionShape ==
    /\ call \in {"PumpFirst", "Ingest"} => au # None /\ encoders[au.gen] # None
    /\ caps # None => link = "Streaming"
    /\ call = "PumpFirst" =>
          /\ ~Applying /\ ~configSent /\ link # "Negotiating"
          /\ config # None /\ config.format = encoders[au.gen].format
          /\ Live => caps # None /\ config.format \in caps
    /\ call = "Ingest" /\ au.config /\ ~Applying /\ Live =>
          announced = [format |-> encoders[au.gen].format, epoch |-> epoch]

IInv ==
    /\ TypeOK
    /\ CommittedShape
    /\ DirectiveShape
    /\ CarriedShape
    /\ SubmissionShape
    /\ EpochBindsFormat
    /\ ConfigBeforeItsMedia

-----------------------------------------------------------------------------
(* The fields of the records.                                               *)

LEMMA DirectiveFields ==
    ASSUME TypeOK, Applying
    PROVE  /\ tx \in Transaction /\ tx.id \in 1..MaxId /\ tx.kind \in {"Local", "Recovery"}
           /\ tx.target \in Formats /\ tx.epoch \in Epoch /\ tx.staged \in BOOLEAN
           /\ tx.expected \in 0..MaxGen /\ tx.rollback \in Rollback
           /\ tx.rollback.config \in Config \cup {None}
           /\ tx.rollback.sent \in BOOLEAN /\ tx.rollback.gen \in 0..MaxGen
<1>1. tx \in Transaction
  BY DEF TypeOK, Applying
<1>2. tx.rollback \in Rollback
  BY <1>1 DEF Transaction
<1> QED BY <1>1, <1>2 DEF Transaction, Rollback

LEMMA EncoderFields ==
    ASSUME TypeOK, NEW g \in Generation, encoders[g] # None
    PROVE  /\ encoders[g] \in Encoder /\ encoders[g].format \in Formats
           /\ encoders[g].epoch \in Epoch
           /\ Height(encoders[g].format) \in Heights
<1>1. encoders[g] \in Encoder
  BY DEF TypeOK
<1> QED BY <1>1 DEF Encoder, Height, Heights

LEMMA ConfigFields ==
    ASSUME NEW cfg \in Config \cup {None}, cfg # None
    PROVE  cfg \in Config /\ cfg.format \in Formats /\ cfg.epoch \in Epoch
BY DEF Config

(* A generation is a number above zero.                                     *)
LEMMA GenerationFacts ==
    ASSUME NEW g \in 0..MaxGen
    PROVE  g # 0 <=> g \in Generation
BY BoundAssumption DEF Generation

LEMMA NoneIsNothing ==
    /\ \A f \in Formats : f # None
    /\ \A c \in Config : c # None
    /\ \A e \in Encoder : e # None
    /\ \A t \in Transaction : t # None
    /\ \A a \in AccessUnit : a # None
    /\ \A s \in Flushed : s # None
    /\ \A o \in Offers : o # None
BY NoneAssumption, FormatAssumption

LEMMA InitInvariant == Init => IInv
<1> SUFFICES ASSUME Init PROVE IInv
  OBVIOUS
<1> USE DEF Init
<1>1. ~Applying
  BY DEF Applying
<1>2. 1 \in Epoch /\ 1 \in 1..MaxId /\ 1 \in 1..MaxEpoch
  BY BoundAssumption DEF Epoch
<1>3. TypeOK
  <2>1. encoders \in [Generation -> Encoder \cup {None}]
    OBVIOUS
  <2>2. carried \in [Epoch -> Formats \cup {None}]
    OBVIOUS
  <2>3. 0 \in 0..MaxGen
    BY BoundAssumption
  <2> QED BY <1>2, <2>1, <2>2, <2>3 DEF TypeOK
<1>4. CommittedShape
  BY <1>2 DEF CommittedShape
<1>5. DirectiveShape
  BY <1>1 DEF DirectiveShape, OfCommitted
<1>6. CarriedShape
  BY <1>1 DEF CarriedShape
<1>7. SubmissionShape
  BY DEF SubmissionShape
<1>8. EpochBindsFormat /\ ConfigBeforeItsMedia
  BY DEF EpochBindsFormat, ConfigBeforeItsMedia
<1> QED BY <1>3, <1>4, <1>5, <1>6, <1>7, <1>8 DEF IInv

-----------------------------------------------------------------------------
(* Ends of a directive.                                                     *)

(* The committed encoder stays, and what was sent under each epoch.         *)
LEMMA CommittedKeeps ==
    ASSUME IInv, gen' = gen, UNCHANGED <<height, committed, carried, epoch, encoders>>
    PROVE  CommittedShape'
BY DEF IInv, CommittedShape

LEMMA ResetKeeps ==
    ASSUME IInv, Reset, UNCHANGED <<encoders, call, au>>
    PROVE  IInv'
<1>1. /\ TypeOK /\ CommittedShape /\ DirectiveShape /\ CarriedShape /\ SubmissionShape
  BY DEF IInv
<1>2. /\ link' = "Down" /\ caps' = None /\ wantsKey' = FALSE /\ tx' = None
      /\ configSent' = FALSE /\ announced' = None /\ flushed' = None
      /\ UNCHANGED <<nextId, epoch, lastEpoch, height, committed, carried>>
  BY DEF Reset
<1>3. ~Applying'
  BY <1>2 DEF Applying
<1>4. /\ gen' = gen /\ config' \in Config \cup {None} /\ OfCommitted(config)'
      /\ ~Applying => config' = config
  <2>1. CASE Applying
    <3>1. gen' = tx.rollback.gen /\ config' = tx.rollback.config
      BY <2>1 DEF Reset
    <3>2. OfCommitted(tx.rollback.config) /\ tx.rollback.gen = gen
      BY <1>1, <2>1 DEF DirectiveShape
    <3>3. OfCommitted(config)'
      BY <3>1, <3>2 DEF OfCommitted
    <3> QED BY <1>1, <2>1, <3>1, <3>2, <3>3, DirectiveFields
  <2>2. CASE ~Applying
    <3>1. gen' = gen /\ config' = config
      BY <2>2 DEF Reset
    <3> QED BY <1>1, <2>2, <3>1 DEF DirectiveShape, OfCommitted, TypeOK
  <2> QED BY <2>1, <2>2
<1>5. TypeOK'
  BY <1>1, <1>2, <1>4 DEF TypeOK
<1>6. CommittedShape'
  BY <1>2, <1>4, CommittedKeeps
<1>7. DirectiveShape'
  BY <1>3, <1>4 DEF DirectiveShape
<1>8. CarriedShape'
  BY <1>1, <1>2, <1>3 DEF CarriedShape
<1>9. SubmissionShape'
  BY <1>1, <1>2, <1>3, <1>4 DEF SubmissionShape, Live
<1>10. EpochBindsFormat' /\ ConfigBeforeItsMedia'
  BY <1>2 DEF EpochBindsFormat, ConfigBeforeItsMedia
<1> QED BY <1>5, <1>6, <1>7, <1>8, <1>9, <1>10 DEF IInv

(* A recovery restarts the committed encoder, in the committed epoch.       *)
LEMMA RecoverFromKeeps ==
    ASSUME IInv, NEW cfg \in Config \cup {None}, NEW sent \in BOOLEAN, NEW g, g = gen,
           OfCommitted(cfg), RecoverFrom(cfg, sent, g), UNCHANGED <<encoders, call, au>>,
           call # "PumpFirst"
    PROVE  IInv'
<1>1. /\ TypeOK /\ CommittedShape /\ DirectiveShape /\ CarriedShape /\ SubmissionShape
      /\ EpochBindsFormat /\ ConfigBeforeItsMedia
  BY DEF IInv
<1>2. CASE height = 0 \/ nextId = MaxId \/ cfg = None
  <2>1. Reset
    BY <1>2 DEF RecoverFrom
  <2> QED BY <2>1, ResetKeeps
<1>3. CASE ~(height = 0 \/ nextId = MaxId \/ cfg = None)
  <2> DEFINE t == [id |-> nextId, kind |-> "Recovery", target |-> cfg.format,
                   epoch |-> epoch, staged |-> FALSE, expected |-> 0,
                   rollback |-> [config |-> cfg, sent |-> sent, gen |-> g]]
  <2>1. /\ tx' = t
        /\ nextId' = nextId + 1 /\ wantsKey' = TRUE
        /\ config' = cfg /\ configSent' = sent /\ gen' = g
        /\ UNCHANGED <<link, caps, epoch, lastEpoch, height, committed,
                       announced, carried, flushed>>
    BY <1>3 DEF RecoverFrom, wire
  <2>2. nextId \in 1..MaxId /\ nextId + 1 \in 1..MaxId
    BY <1>1, <1>3, BoundAssumption DEF TypeOK
  <2>3. cfg.format \in Formats /\ gen # 0 /\ cfg.format = encoders[gen].format
    BY <1>3, ConfigFields DEF OfCommitted
  <2>4. t \in Transaction
    <3>1. epoch \in Epoch /\ g \in 0..MaxGen /\ 0 \in 0..MaxGen
      BY <1>1, BoundAssumption DEF TypeOK
    <3> QED BY <2>2, <2>3, <3>1 DEF Transaction, Rollback
  <2>5. /\ t.kind = "Recovery" /\ t.epoch = epoch /\ t.target = encoders[gen].format
        /\ ~t.staged /\ t.expected = 0 /\ t.rollback.config = cfg /\ t.rollback.gen = gen
    BY <2>3
  <2>6. tx' \in Transaction /\ Applying'
    BY <2>1, <2>4, NoneIsNothing DEF Applying
  <2> HIDE DEF t
  <2>7. TypeOK'
    BY <1>1, <2>1, <2>2, <2>6 DEF TypeOK
  <2>8. CommittedShape'
    BY <2>1, CommittedKeeps
  <2>9. DirectiveShape'
    BY <2>1, <2>3, <2>5, <2>6 DEF DirectiveShape, OfCommitted
  <2>10. CarriedShape'
    BY <1>1, <2>1, <2>5 DEF CarriedShape
  <2>11. SubmissionShape'
    BY <1>1, <2>1, <2>6 DEF SubmissionShape
  <2>12. EpochBindsFormat' /\ ConfigBeforeItsMedia'
    BY <1>1, <2>1 DEF EpochBindsFormat, ConfigBeforeItsMedia
  <2> QED BY <2>7, <2>8, <2>9, <2>10, <2>11, <2>12 DEF IInv
<1> QED BY <1>2, <1>3

LEMMA FailStartedKeeps ==
    ASSUME IInv, Applying, FailStarted \/ RollBackOnly, UNCHANGED <<encoders, call, au>>,
           call # "Ingest"
    PROVE  IInv'
<1>1. /\ TypeOK /\ CommittedShape /\ DirectiveShape /\ CarriedShape /\ SubmissionShape
      /\ EpochBindsFormat /\ ConfigBeforeItsMedia
  BY DEF IInv
<1>2. /\ tx.rollback.config \in Config \cup {None} /\ tx.rollback.sent \in BOOLEAN
      /\ tx.rollback.gen = gen /\ OfCommitted(tx.rollback.config) /\ call # "PumpFirst"
  BY <1>1, DirectiveFields DEF DirectiveShape, SubmissionShape
<1>3. CASE FailStarted
  <2>1. Reset \/ RecoverCommitted
    BY <1>3 DEF FailStarted
  <2> QED BY <1>2, <2>1, ResetKeeps, RecoverFromKeeps DEF RecoverCommitted
<1>4. CASE RollBackOnly
  <2>1. /\ config' = tx.rollback.config /\ configSent' = tx.rollback.sent /\ gen' = gen
        /\ tx' = None
        /\ UNCHANGED <<link, caps, wantsKey, nextId, epoch, lastEpoch, height,
                       committed, announced, carried, flushed>>
    BY <1>2, <1>4 DEF RollBackOnly, RollBack, wire
  <2>2. ~Applying'
    BY <2>1 DEF Applying
  <2>3. TypeOK'
    BY <1>1, <1>2, <2>1 DEF TypeOK
  <2>4. CommittedShape'
    BY <2>1, CommittedKeeps
  <2>5. DirectiveShape'
    BY <1>2, <2>1, <2>2 DEF DirectiveShape, OfCommitted
  <2>6. CarriedShape'
    BY <1>1, <2>1, <2>2 DEF CarriedShape
  <2>7. SubmissionShape'
    BY <1>1, <1>2, <2>1 DEF SubmissionShape
  <2>8. EpochBindsFormat' /\ ConfigBeforeItsMedia'
    BY <1>1, <2>1 DEF EpochBindsFormat, ConfigBeforeItsMedia
  <2> QED BY <2>3, <2>4, <2>5, <2>6, <2>7, <2>8 DEF IInv
<1> QED BY <1>3, <1>4

-----------------------------------------------------------------------------
(* The platform.                                                            *)

(* A generation that starts is none that anything refers to.                *)
LEMMA StartEncoderKeeps ==
    ASSUME IInv, NEW f \in Formats, StartEncoder(f)
    PROVE  IInv'
<1>1. /\ TypeOK /\ CommittedShape /\ DirectiveShape /\ CarriedShape /\ SubmissionShape
      /\ EpochBindsFormat /\ ConfigBeforeItsMedia
  BY DEF IInv
<1>2. PICK g \in Generation :
        /\ \A h \in Generation: encoders[h] = None <=> h >= g
        /\ \E e \in {epoch} \cup (IF Applying THEN {tx.epoch} ELSE {}):
              encoders' = [encoders EXCEPT ![g] = [format |-> f, epoch |-> e]]
        /\ UNCHANGED <<link, negotiated, wantsKey, directives, native, call, au, wire>>
  BY DEF StartEncoder
<1>3. PICK e \in {epoch} \cup (IF Applying THEN {tx.epoch} ELSE {}):
              encoders' = [encoders EXCEPT ![g] = [format |-> f, epoch |-> e]]
  BY <1>2
<1>4. e \in Epoch
  BY <1>1, <1>3, DirectiveFields DEF TypeOK
<1>5. encoders[g] = None
  BY <1>2 DEF Generation
<1>6. /\ encoders' \in [Generation -> Encoder \cup {None}]
      /\ \A h \in Generation : encoders[h] # None => h # g /\ encoders'[h] = encoders[h]
  BY <1>1, <1>3, <1>4, <1>5 DEF TypeOK, Encoder
<1>7. UNCHANGED <<link, caps, config, configSent, wantsKey, tx, nextId, epoch, lastEpoch,
                  gen, height, committed, call, au, announced, carried, flushed>>
  BY <1>2 DEF negotiated, directives, native, wire
<1>8. gen # 0 => encoders'[gen] = encoders[gen] /\ encoders[gen] # None
  BY <1>1, <1>6, GenerationFacts DEF CommittedShape, TypeOK
<1>9. Applying /\ tx.expected # 0 => encoders'[tx.expected] = encoders[tx.expected]
  <2> SUFFICES ASSUME Applying, tx.expected # 0
               PROVE  encoders'[tx.expected] = encoders[tx.expected]
    OBVIOUS
  <2>1. tx.expected \in Generation /\ encoders[tx.expected] # None
    BY <1>1, DirectiveFields, GenerationFacts DEF DirectiveShape
  <2> QED BY <1>6, <2>1
<1>10. call \in {"PumpFirst", "Ingest"} => encoders'[au.gen] = encoders[au.gen]
  <2> SUFFICES ASSUME call \in {"PumpFirst", "Ingest"}
               PROVE  encoders'[au.gen] = encoders[au.gen]
    OBVIOUS
  <2>1. au \in AccessUnit /\ encoders[au.gen] # None
    BY <1>1 DEF SubmissionShape, TypeOK
  <2>2. au.gen \in Generation
    BY <2>1 DEF AccessUnit
  <2> QED BY <1>6, <2>1, <2>2
<1>11. Applying' <=> Applying
  BY <1>7 DEF Applying
<1>12. TypeOK'
  BY <1>1, <1>6, <1>7 DEF TypeOK
<1>13. CommittedShape'
  BY <1>1, <1>7, <1>8 DEF CommittedShape
<1>14. DirectiveShape'
  BY <1>1, <1>7, <1>8, <1>9, <1>11 DEF DirectiveShape, OfCommitted
<1>15. CarriedShape'
  BY <1>1, <1>7, <1>11 DEF CarriedShape
<1>16. SubmissionShape'
  BY <1>1, <1>7, <1>10, <1>11 DEF SubmissionShape, Live
<1>17. EpochBindsFormat' /\ ConfigBeforeItsMedia'
  BY <1>1, <1>7 DEF EpochBindsFormat, ConfigBeforeItsMedia
<1> QED BY <1>12, <1>13, <1>14, <1>15, <1>16, <1>17 DEF IInv

LEMMA BeginKeeps ==
    ASSUME IInv, NEW f \in Formats, BeginStreamReconfiguration(f)
    PROVE  IInv'
<1>1. /\ TypeOK /\ CommittedShape /\ DirectiveShape /\ CarriedShape /\ SubmissionShape
      /\ EpochBindsFormat /\ ConfigBeforeItsMedia
  BY DEF IInv
<1> DEFINE t == NewTransaction("Local", f, lastEpoch + 1)
<1>2. /\ call = "Free" /\ ~Applying /\ nextId < MaxId /\ lastEpoch < MaxEpoch
      /\ tx' = t /\ nextId' = nextId + 1 /\ lastEpoch' = lastEpoch + 1 /\ wantsKey' = TRUE
      /\ UNCHANGED <<link, caps, config, configSent, epoch, gen, height, committed,
                     encoders, call, au, announced, carried, flushed>>
  BY DEF BeginStreamReconfiguration, NextEpoch, negotiated, native, wire
<1>3. /\ nextId \in 1..MaxId /\ nextId + 1 \in 1..MaxId
      /\ epoch \in Epoch /\ lastEpoch \in epoch..MaxEpoch
      /\ lastEpoch + 1 \in Epoch /\ epoch < lastEpoch + 1
      /\ lastEpoch + 1 \in epoch..MaxEpoch
  BY <1>1, <1>2, BoundAssumption DEF TypeOK, Epoch
<1>4. t \in Transaction
  <2>1. config \in Config \cup {None} /\ configSent \in BOOLEAN /\ gen \in 0..MaxGen
        /\ 0 \in 0..MaxGen
    BY <1>1, BoundAssumption DEF TypeOK
  <2> QED BY <1>3, <2>1 DEF NewTransaction, Transaction, Rollback
<1>5. /\ t.kind = "Local" /\ t.epoch = lastEpoch + 1 /\ t.target = f
      /\ ~t.staged /\ t.expected = 0 /\ t.rollback.config = config /\ t.rollback.gen = gen
  BY DEF NewTransaction
<1> HIDE DEF t
<1>6. tx' \in Transaction /\ Applying'
  BY <1>2, <1>4, NoneIsNothing DEF Applying
<1>7. TypeOK'
  BY <1>1, <1>2, <1>3, <1>6 DEF TypeOK
<1>8. CommittedShape'
  BY <1>2, CommittedKeeps
<1>9. DirectiveShape'
  BY <1>1, <1>2, <1>3, <1>5, <1>6 DEF DirectiveShape, OfCommitted
<1>10. CarriedShape'
  <2>1. \A e \in Epoch : e > lastEpoch => carried[e] = None
    BY <1>1 DEF CarriedShape
  <2>2. \A e \in Epoch : e > lastEpoch + 1 => e > lastEpoch
    BY <1>3 DEF Epoch
  <2>3. carried[lastEpoch + 1] = None
    BY <1>3, <2>1
  <2> QED BY <1>2, <1>5, <2>1, <2>2, <2>3 DEF CarriedShape
<1>11. SubmissionShape'
  BY <1>1, <1>2 DEF SubmissionShape
<1>12. EpochBindsFormat' /\ ConfigBeforeItsMedia'
  BY <1>1, <1>2 DEF EpochBindsFormat, ConfigBeforeItsMedia
<1> QED BY <1>7, <1>8, <1>9, <1>10, <1>11, <1>12 DEF IInv

LEMMA FailureReportsKeep ==
    ASSUME IInv, \/ \E id \in 1..MaxId, g \in 0..MaxGen: ReportTransactionFailed(id, g)
                 \/ \E g \in Generation: ReportCommittedFailed(g)
                 \/ EndConnection
    PROVE  IInv'
<1>1. CASE \E id \in 1..MaxId, g \in 0..MaxGen: ReportTransactionFailed(id, g)
  BY <1>1, FailStartedKeeps DEF ReportTransactionFailed
<1>2. CASE \E g \in Generation: ReportCommittedFailed(g)
  <2>1. /\ ~Applying /\ call = "Free" /\ RecoverFrom(config, configSent, gen)
        /\ UNCHANGED <<encoders, call, au>>
    BY <1>2 DEF ReportCommittedFailed
  <2>2. config \in Config \cup {None} /\ configSent \in BOOLEAN /\ OfCommitted(config)
    BY <2>1 DEF IInv, TypeOK, DirectiveShape
  <2> QED BY <2>1, <2>2, RecoverFromKeeps
<1>3. CASE EndConnection
  BY <1>3, ResetKeeps DEF EndConnection
<1> QED BY <1>1, <1>2, <1>3

(* Steps that change neither a directive, nor the committed encoder, nor    *)
(* what was announced.                                                      *)
LEMMA ListensKeep ==
    ASSUME IInv, UNCHANGED <<config, configSent, tx, nextId, epoch, lastEpoch, gen, height,
                             committed, encoders, announced, carried>>,
           flushed' \in {flushed, None}, au' \in AccessUnit \cup {None},
           wantsKey' \in BOOLEAN, caps' \in Offers \cup {None},
           link' \in {"Down", "Negotiating", "Streaming"},
           call' \in {"Free", "Pump", "PumpTake", "PumpFirst", "Ingest"},
           SubmissionShape'
    PROVE  IInv'
<1>1. /\ TypeOK /\ DirectiveShape /\ CarriedShape
      /\ EpochBindsFormat /\ ConfigBeforeItsMedia
  BY DEF IInv
<1>2. Applying' <=> Applying
  BY DEF Applying
<1>3. TypeOK'
  BY <1>1 DEF TypeOK
<1>4. CommittedShape'
  BY CommittedKeeps
<1>5. DirectiveShape'
  BY <1>1, <1>2 DEF DirectiveShape, OfCommitted
<1>6. CarriedShape'
  BY <1>1, <1>2 DEF CarriedShape
<1>7. EpochBindsFormat' /\ ConfigBeforeItsMedia'
  BY <1>1 DEF EpochBindsFormat, ConfigBeforeItsMedia
<1> QED BY <1>3, <1>4, <1>5, <1>6, <1>7 DEF IInv

LEMMA EventsKeep ==
    ASSUME IInv, \/ TakeKeyframeRequest \/ StartPump \/ PollConnected \/ PollAuthenticated
                 \/ PollKeyframeRequest \/ \E c \in Offers : PollCapabilities(c)
    PROVE  IInv'
<1>1. TypeOK /\ SubmissionShape
  BY DEF IInv
<1>2. /\ UNCHANGED <<config, configSent, tx, nextId, epoch, lastEpoch, gen, height,
                     committed, encoders, au, announced, carried, flushed>>
      /\ au' \in AccessUnit \cup {None} /\ wantsKey' \in BOOLEAN /\ caps' \in Offers \cup {None}
      /\ link' \in {"Down", "Negotiating", "Streaming"}
      /\ call' \in {"Free", "Pump", "PumpTake", "PumpFirst", "Ingest"}
  BY <1>1 DEF TakeKeyframeRequest, StartPump, PollConnected, PollAuthenticated,
              PollKeyframeRequest, PollCapabilities, TypeOK, negotiated, directives,
              native, wire
<1>3. Applying' <=> Applying
  BY <1>2 DEF Applying
<1>4. SubmissionShape'
  <2>1. CASE TakeKeyframeRequest \/ StartPump
    BY <1>1, <1>2, <1>3, <2>1 DEF SubmissionShape, TakeKeyframeRequest, StartPump, Live,
                                  negotiated
  <2>2. CASE PollConnected
    BY <1>1, <1>2, <1>3, <2>2, NoneIsNothing DEF SubmissionShape, PollConnected, negotiated
  <2>3. CASE PollAuthenticated
    BY <1>1, <1>2, <1>3, <2>3 DEF SubmissionShape, PollAuthenticated, negotiated, Pumping
  <2>4. CASE PollKeyframeRequest
    BY <1>1, <1>2, <1>3, <2>4 DEF SubmissionShape, PollKeyframeRequest, negotiated, Live
  <2>5. CASE \E c \in Offers : PollCapabilities(c)
    BY <1>1, <1>2, <1>3, <2>5 DEF SubmissionShape, PollCapabilities, Live, Pumping
  <2> QED BY <2>1, <2>2, <2>3, <2>4, <2>5
<1> QED BY <1>2, <1>4, ListensKeep

-----------------------------------------------------------------------------
(* submit_encoder_event.                                                    *)

LEMMA SubmittedFacts ==
    ASSUME IInv, NEW g \in Generation, NEW key \in BOOLEAN, NEW withConfig \in BOOLEAN,
           encoders[g] # None, Admissible(g, key, withConfig),
           SubmitAccepted(g, key, withConfig)
    PROVE  /\ config' \in Config \cup {None} /\ configSent' \in BOOLEAN
           /\ withConfig => /\ config' # None /\ config'.format = encoders[g].format
                            /\ ~configSent' /\ encoders[g].format \in caps
           /\ ~withConfig => config' = config /\ config # None
           /\ caps # None
           /\ au' \in AccessUnit \cup {None}
           /\ \/ call' = AfterStaging(withConfig) /\ au' # None
                 /\ au'.gen = g /\ au'.config = withConfig
              \/ call' = "Free"
<1>1. TypeOK
  BY DEF IInv
<1>2. encoders[g].format \in Formats /\ epoch \in Epoch
  BY <1>1, EncoderFields DEF TypeOK
<1> DEFINE staged == [format |-> encoders[g].format, epoch |-> epoch]
           unit == [gen |-> g, key |-> key, config |-> withConfig,
                    txId |-> TxIdFor(encoders[g].epoch)]
<1>3. staged \in Config /\ staged.format = encoders[g].format
  BY <1>2 DEF Config
<1>4. TxIdFor(encoders[g].epoch) \in 0..MaxId
  BY <1>1, DirectiveFields, BoundAssumption DEF TxIdFor
<1>5. unit \in AccessUnit /\ unit.gen = g /\ unit.config = withConfig
  BY <1>4 DEF AccessUnit
<1>6. /\ IF withConfig THEN config' = staged /\ configSent' = FALSE
                       ELSE config' = config /\ configSent' = configSent
      /\ \/ call' = AfterStaging(withConfig) /\ au' = unit
         \/ call' = "Free" /\ au' = au
  BY DEF SubmitAccepted
<1> HIDE DEF staged, unit
<1>7. au' \in AccessUnit \cup {None} /\ staged # None /\ unit # None
  BY <1>1, <1>3, <1>5, <1>6, NoneIsNothing DEF TypeOK
<1>8. caps # None /\ (~withConfig => config # None)
      /\ (withConfig => encoders[g].format \in caps)
  BY DEF Admissible
<1> QED BY <1>1, <1>3, <1>5, <1>6, <1>7, <1>8 DEF TypeOK

LEMMA SubmitKeeps ==
    ASSUME IInv, NEW g \in Generation, NEW key \in BOOLEAN, NEW withConfig \in BOOLEAN,
           SubmitEncoderEvent(g, key, withConfig)
    PROVE  IInv'
<1>1. /\ TypeOK /\ CommittedShape /\ DirectiveShape /\ CarriedShape /\ SubmissionShape
      /\ EpochBindsFormat /\ ConfigBeforeItsMedia
  BY DEF IInv
<1>2. /\ call = "Free" /\ encoders[g] # None /\ Admissible(g, key, withConfig)
      /\ UNCHANGED <<link, caps, wantsKey, nextId, epoch, lastEpoch, committed,
                     encoders, announced, carried, flushed>>
  BY DEF SubmitEncoderEvent, wire
<1>3. encoders[g].format \in Formats /\ Height(encoders[g].format) \in Heights
      /\ g # 0 /\ g \in 0..MaxGen
  BY <1>1, <1>2, EncoderFields, BoundAssumption DEF Generation
<1>4. CASE SubmitRefused(g, withConfig)
  <2>1. /\ call' = "PumpTake" /\ UNCHANGED <<config, configSent, tx, gen, height, au>>
    BY <1>4 DEF SubmitRefused
  <2>2. SubmissionShape'
    BY <1>1, <1>2, <2>1 DEF SubmissionShape
  <2>3. /\ au' \in AccessUnit \cup {None} /\ wantsKey' \in BOOLEAN /\ caps' \in Offers \cup {None}
        /\ link' \in {"Down", "Negotiating", "Streaming"}
    BY <1>1, <1>2, <2>1 DEF TypeOK
  <2> QED BY <1>2, <2>1, <2>2, <2>3, ListensKeep
<1>5. CASE SubmitAccepted(g, key, withConfig) /\ Applying
  <2> DEFINE t == [tx EXCEPT !.expected = g, !.staged = @ \/ withConfig]
  <2>1. /\ config' \in Config \cup {None} /\ configSent' \in BOOLEAN
        /\ caps # None /\ au' \in AccessUnit \cup {None}
        /\ \/ call' = AfterStaging(withConfig) /\ au' # None
              /\ au'.gen = g /\ au'.config = withConfig
           \/ call' = "Free"
    BY <1>2, <1>5, SubmittedFacts
  <2>2. AfterStaging(withConfig) = "Ingest"
    BY <1>5 DEF AfterStaging
  <2>3. /\ tx' = t /\ UNCHANGED <<gen, height>>
        /\ MatchesTransaction(g) \/ MatchesCommitted(g, withConfig)
    BY <1>5 DEF SubmitAccepted
  <2>4. tx.expected \in {0, g}
    BY <1>5, <2>3 DEF MatchesTransaction, MatchesCommitted
  <2>5. withConfig => encoders[g].format = tx.target
    BY <1>2, <1>5 DEF Admissible
  <2>6. tx \in Transaction /\ tx.staged \in BOOLEAN
    BY <1>1, <1>5, DirectiveFields
  <2>7. /\ t \in Transaction /\ t.expected = g /\ (t.staged <=> tx.staged \/ withConfig)
        /\ t.kind = tx.kind /\ t.target = tx.target /\ t.epoch = tx.epoch
        /\ t.rollback = tx.rollback
    BY <1>3, <2>6 DEF Transaction
  <2> HIDE DEF t
  <2>8. tx' \in Transaction /\ Applying'
    BY <2>3, <2>7, NoneIsNothing DEF Applying
  <2>9. TypeOK'
    BY <1>1, <1>2, <2>1, <2>2, <2>3, <2>8 DEF TypeOK
  <2>10. CommittedShape'
    BY <1>2, <2>3, CommittedKeeps
  <2>11. DirectiveShape'
    <3>1. t.staged => encoders[g].format = t.target
      BY <1>1, <1>5, <2>4, <2>5, <2>7 DEF DirectiveShape
    <3> QED BY <1>1, <1>2, <1>3, <1>5, <2>3, <2>7, <2>8, <3>1 DEF DirectiveShape, OfCommitted
  <2>12. CarriedShape'
    BY <1>1, <1>2, <1>5, <2>3, <2>7 DEF CarriedShape
  <2>13. SubmissionShape'
    BY <1>1, <1>2, <2>1, <2>2, <2>8 DEF SubmissionShape
  <2>14. EpochBindsFormat' /\ ConfigBeforeItsMedia'
    BY <1>1, <1>2 DEF EpochBindsFormat, ConfigBeforeItsMedia
  <2> QED BY <2>9, <2>10, <2>11, <2>12, <2>13, <2>14 DEF IInv
<1>6. CASE SubmitAccepted(g, key, withConfig) /\ ~Applying
  <2>1. /\ config' \in Config \cup {None} /\ configSent' \in BOOLEAN
        /\ withConfig => /\ config' # None /\ config'.format = encoders[g].format
                         /\ ~configSent' /\ encoders[g].format \in caps
        /\ ~withConfig => config' = config /\ config # None
        /\ caps # None /\ au' \in AccessUnit \cup {None}
        /\ \/ call' = AfterStaging(withConfig) /\ au' # None
              /\ au'.gen = g /\ au'.config = withConfig
           \/ call' = "Free"
    BY <1>2, <1>6, SubmittedFacts
  <2>2. AfterStaging(withConfig) = IF withConfig THEN "PumpFirst" ELSE "Ingest"
    BY <1>6 DEF AfterStaging
  <2>3. tx' = None /\ gen' = g /\ height' = Height(encoders[g].format)
    BY <1>6 DEF SubmitAccepted
  <2>4. MatchesCommitted(g, withConfig)
    BY <1>6 DEF SubmitAccepted, MatchesTransaction, TxIdFor
  <2>5. encoders[g].epoch = epoch /\ gen \in {0, g}
    BY <2>4 DEF MatchesCommitted
  <2>6. ~Applying'
    BY <2>3 DEF Applying
  <2>7. TypeOK'
    <3>1. call' \in {"Free", "Pump", "PumpTake", "PumpFirst", "Ingest"}
      BY <2>1, <2>2
    <3> QED BY <1>1, <1>2, <1>3, <2>1, <2>3, <3>1 DEF TypeOK
  <2>8. CommittedShape'
    BY <1>1, <1>2, <1>3, <2>3, <2>5 DEF CommittedShape
  <2>9. config' # None /\ config'.format = encoders[g].format
    <3>1. CASE withConfig
      BY <2>1, <3>1
    <3>2. CASE ~withConfig
      BY <1>1, <1>6, <2>1, <2>5, <3>2 DEF DirectiveShape, OfCommitted
    <3> QED BY <3>1, <3>2
  <2>10. DirectiveShape'
    BY <1>2, <1>3, <2>3, <2>6, <2>9 DEF DirectiveShape, OfCommitted
  <2>11. CarriedShape'
    BY <1>1, <1>2, <2>6 DEF CarriedShape
  <2>12. SubmissionShape'
    BY <1>1, <1>2, <2>1, <2>2, <2>6, <2>9 DEF SubmissionShape
  <2>13. EpochBindsFormat' /\ ConfigBeforeItsMedia'
    BY <1>1, <1>2 DEF EpochBindsFormat, ConfigBeforeItsMedia
  <2> QED BY <2>7, <2>8, <2>10, <2>11, <2>12, <2>13 DEF IInv
<1> QED BY <1>4, <1>5, <1>6 DEF SubmitEncoderEvent

-----------------------------------------------------------------------------
(* ingest_encoder_access_unit.                                              *)

(* What goes out under an epoch is of the format it has, or gives it one.   *)
LEMMA CarryFacts ==
    ASSUME TypeOK, EpochBindsFormat, NEW e \in Epoch, NEW f \in Formats, Carry(e, f),
           carried[e] \in {None, f}
    PROVE  /\ carried' \in [Epoch -> Formats \cup {None}]
           /\ carried'[e] = f
           /\ \A x \in Epoch : x # e => carried'[x] = carried[x]
           /\ announced # None => announced.format = carried'[announced.epoch]
           /\ flushed # None => flushed.format = carried'[flushed.epoch]
<1>1. carried \in [Epoch -> Formats \cup {None}]
  BY DEF TypeOK
<1>2. carried' = [carried EXCEPT ![e] = IF carried[e] = None THEN f ELSE carried[e]]
  BY DEF Carry
<1>3. /\ carried' \in [Epoch -> Formats \cup {None}]
      /\ carried'[e] = f
      /\ \A x \in Epoch : x # e => carried'[x] = carried[x]
  BY <1>1, <1>2
<1>4. \A x \in Epoch : carried[x] # None => carried'[x] = carried[x]
  BY <1>3
<1>5. announced # None => announced.format = carried'[announced.epoch]
  <2>1. announced # None => announced.format \in Formats /\ announced.epoch \in Epoch
    BY ConfigFields DEF TypeOK
  <2> QED BY <1>4, <2>1, NoneIsNothing DEF EpochBindsFormat
<1>6. flushed # None => flushed.format = carried'[flushed.epoch]
  <2>1. flushed # None => flushed.format \in Formats /\ flushed.epoch \in Epoch
    BY DEF TypeOK, Flushed
  <2> QED BY <1>4, <2>1, NoneIsNothing DEF EpochBindsFormat
<1> QED BY <1>3, <1>5, <1>6

LEMMA FlushedFacts ==
    ASSUME TypeOK, NEW e \in Epoch, NEW f \in Formats, NEW under \in Config \cup {None},
           au \in AccessUnit, Flush(e, f, under)
    PROVE  /\ flushed' \in Flushed \cup {None}
           /\ call' \in {"PumpTake", "Free"}
           /\ \/ flushed' = flushed
              \/ /\ flushed'.format = f /\ flushed'.epoch = e /\ flushed'.under = under
                 /\ flushed'.own <=> au.config \/ Applying
<1> DEFINE s == [epoch |-> e, format |-> f, under |-> under, own |-> au.config \/ Applying]
<1>1. au.config \in BOOLEAN
  BY DEF AccessUnit
<1>2. s \in Flushed
  BY <1>1 DEF Flushed
<1>3. /\ s.format = f /\ s.epoch = e /\ s.under = under
      /\ s.own <=> au.config \/ Applying
  OBVIOUS
<1>4. \/ flushed' = s /\ call' = "PumpTake"
      \/ flushed' = flushed /\ call' = "Free"
  BY DEF Flush
<1> HIDE DEF s
<1> QED BY <1>2, <1>3, <1>4 DEF TypeOK

LEMMA IngestCommitKeeps ==
    ASSUME IInv, IngestCommit
    PROVE  IInv'
<1>1. /\ TypeOK /\ CommittedShape /\ DirectiveShape /\ CarriedShape /\ SubmissionShape
      /\ EpochBindsFormat /\ ConfigBeforeItsMedia
  BY DEF IInv
<1> DEFINE cfg == [format |-> config.format, epoch |-> tx.epoch]
<1>2. /\ call = "Ingest" /\ CommitReady /\ au' = None
      /\ UNCHANGED <<link, caps, nextId, lastEpoch, encoders>>
      /\ \/ Fails /\ UNCHANGED <<announced, carried>> /\ Unmoved
         \/ /\ announced' = cfg /\ Carry(cfg.epoch, cfg.format)
            /\ Fails /\ Unmoved
         \/ /\ announced' = cfg /\ Carry(cfg.epoch, cfg.format)
            /\ config' = cfg /\ configSent' = TRUE
            /\ tx' = None /\ epoch' = CommitEpoch
            /\ gen' = au.gen /\ height' = Height(Encoded.format)
            /\ committed' = cfg.format
            /\ wantsKey' = FALSE
            /\ Flush(tx.epoch, Encoded.format, cfg)
  BY DEF IngestCommit, IngestNow
<1>3. /\ Applying /\ tx.staged /\ tx.expected = au.gen /\ encoders[au.gen].epoch = tx.epoch
      /\ config # None /\ config.format = tx.target
  BY <1>2 DEF CommitReady, MatchesNativeFacts, Encoded
<1>4. /\ au \in AccessUnit /\ au.gen \in Generation /\ au.gen # 0 /\ au.gen \in 0..MaxGen
      /\ encoders[au.gen] # None
  <2>1. au \in AccessUnit /\ encoders[au.gen] # None
    BY <1>1, <1>2 DEF SubmissionShape, TypeOK
  <2> QED BY <2>1, BoundAssumption DEF AccessUnit, Generation
<1>5. /\ encoders[au.gen].format = tx.target /\ tx.target \in Formats /\ tx.epoch \in Epoch
      /\ tx.kind \in {"Local", "Recovery"}
      /\ Height(encoders[au.gen].format) \in Heights
  BY <1>1, <1>3, <1>4, DirectiveFields, EncoderFields DEF DirectiveShape
<1>6. cfg \in Config /\ cfg.format = tx.target /\ cfg.epoch = tx.epoch
  BY <1>3, <1>5 DEF Config
<1>7. /\ tx.kind = "Recovery" => tx.epoch = epoch /\ tx.target = encoders[gen].format
      /\ tx.kind = "Local" => epoch < tx.epoch
      /\ tx.epoch <= lastEpoch /\ epoch <= lastEpoch /\ tx.epoch \in Nat /\ epoch \in Epoch
      /\ lastEpoch \in tx.epoch..MaxEpoch
  BY <1>1, <1>3, <1>5, BoundAssumption DEF DirectiveShape, TypeOK, Epoch
<1>8. carried[tx.epoch] \in {None, tx.target}
  BY <1>1, <1>3, <1>5, <1>7 DEF CarriedShape, CommittedShape, DirectiveShape
<1> HIDE DEF cfg
<1>9. CASE Fails /\ UNCHANGED <<announced, carried>> /\ Unmoved
  <2>1. /\ UNCHANGED <<config, configSent, tx, epoch, gen, height, committed, wantsKey,
                       flushed>> /\ call' = "Free"
    BY <1>9 DEF Fails, Unmoved, native
  <2>2. /\ wantsKey' \in BOOLEAN /\ caps' \in Offers \cup {None}
        /\ link' \in {"Down", "Negotiating", "Streaming"}
    BY <1>1, <1>2, <2>1 DEF TypeOK
  <2>3. SubmissionShape'
    BY <1>1, <1>2, <2>1 DEF SubmissionShape
  <2> QED BY <1>2, <1>9, <2>1, <2>2, <2>3, ListensKeep
<1>10. CASE announced' = cfg /\ Carry(cfg.epoch, cfg.format) /\ Fails /\ Unmoved
  <2>1. /\ UNCHANGED <<config, configSent, tx, epoch, gen, height, committed, wantsKey,
                       flushed>> /\ call' = "Free" /\ announced' = cfg
    BY <1>10 DEF Fails, Unmoved, native
  <2>2. /\ carried' \in [Epoch -> Formats \cup {None}]
        /\ carried'[tx.epoch] = tx.target
        /\ \A x \in Epoch : x # tx.epoch => carried'[x] = carried[x]
        /\ flushed # None => flushed.format = carried'[flushed.epoch]
    BY <1>1, <1>5, <1>6, <1>8, <1>10, CarryFacts
  <2>3. Applying'
    BY <1>3, <2>1 DEF Applying
  <2>4. TypeOK'
    BY <1>1, <1>2, <1>6, <2>1, <2>2 DEF TypeOK
  <2>5. CommittedShape'
    BY <1>1, <1>2, <1>3, <1>5, <1>7, <2>1, <2>2 DEF CommittedShape, DirectiveShape
  <2>6. DirectiveShape'
    BY <1>1, <1>2, <1>3, <2>1, <2>3 DEF DirectiveShape, OfCommitted
  <2>7. CarriedShape'
    <3>1. \A e \in Epoch : e > lastEpoch => e # tx.epoch
      BY <1>7 DEF Epoch
    <3> QED BY <1>1, <1>2, <2>1, <2>2, <3>1 DEF CarriedShape
  <2>8. SubmissionShape'
    BY <1>1, <1>2, <2>1 DEF SubmissionShape
  <2>9. EpochBindsFormat' /\ ConfigBeforeItsMedia'
    BY <1>1, <1>6, <2>1, <2>2 DEF EpochBindsFormat, ConfigBeforeItsMedia
  <2> QED BY <2>4, <2>5, <2>6, <2>7, <2>8, <2>9 DEF IInv
<1>11. CASE /\ announced' = cfg /\ Carry(cfg.epoch, cfg.format)
            /\ config' = cfg /\ configSent' = TRUE
            /\ tx' = None /\ epoch' = CommitEpoch
            /\ gen' = au.gen /\ height' = Height(Encoded.format)
            /\ committed' = cfg.format
            /\ wantsKey' = FALSE
            /\ Flush(tx.epoch, Encoded.format, cfg)
  <2>1. /\ carried' \in [Epoch -> Formats \cup {None}]
        /\ carried'[tx.epoch] = tx.target
        /\ \A x \in Epoch : x # tx.epoch => carried'[x] = carried[x]
        /\ flushed # None => flushed.format = carried'[flushed.epoch]
    BY <1>1, <1>5, <1>6, <1>8, <1>11, CarryFacts
  <2>2. epoch' = tx.epoch
    BY <1>5, <1>7, <1>11 DEF CommitEpoch
  <2>3. /\ flushed' \in Flushed \cup {None}
        /\ call' \in {"PumpTake", "Free"}
        /\ \/ flushed' = flushed
           \/ /\ flushed'.format = tx.target /\ flushed'.epoch = tx.epoch
              /\ flushed'.under = cfg
    BY <1>1, <1>4, <1>5, <1>6, <1>11, FlushedFacts DEF Encoded
  <2>4. height' = Height(encoders[au.gen].format) /\ ~Applying'
    BY <1>11 DEF Encoded, Applying
  <2>5. TypeOK'
    BY <1>1, <1>2, <1>4, <1>5, <1>6, <1>7, <1>11, <2>1, <2>2, <2>3, <2>4 DEF TypeOK
  <2>6. CommittedShape'
    BY <1>2, <1>3, <1>4, <1>5, <1>6, <1>11, <2>1, <2>2, <2>4 DEF CommittedShape
  <2>7. DirectiveShape'
    BY <1>2, <1>4, <1>5, <1>6, <1>11, <2>4, NoneIsNothing DEF DirectiveShape, OfCommitted
  <2>8. CarriedShape'
    <3>1. \A e \in Epoch : e > lastEpoch => e # tx.epoch
      BY <1>7 DEF Epoch
    <3> QED BY <1>1, <1>2, <2>1, <2>4, <3>1 DEF CarriedShape
  <2>9. SubmissionShape'
    BY <1>1, <1>2, <2>3 DEF SubmissionShape
  <2>10. EpochBindsFormat'
    BY <1>6, <1>11, <2>1, <2>3 DEF EpochBindsFormat
  <2>11. ConfigBeforeItsMedia'
    <3>1. cfg = [format |-> tx.target, epoch |-> tx.epoch]
      BY <1>3 DEF cfg
    <3> QED BY <1>1, <2>3, <3>1 DEF ConfigBeforeItsMedia
  <2> QED BY <2>5, <2>6, <2>7, <2>8, <2>9, <2>10, <2>11 DEF IInv
<1> QED BY <1>2, <1>9, <1>10, <1>11

LEMMA IngestCommittedKeeps ==
    ASSUME IInv, IngestCommitted
    PROVE  IInv'
<1>1. /\ TypeOK /\ CommittedShape /\ DirectiveShape /\ CarriedShape /\ SubmissionShape
      /\ EpochBindsFormat /\ ConfigBeforeItsMedia
  BY DEF IInv
<1>2. /\ call = "Ingest" /\ Live /\ ~Applying /\ au.gen = gen /\ au' = None
      /\ encoders[gen].epoch = epoch
      /\ UNCHANGED <<link, caps, nextId, lastEpoch, encoders>>
      /\ \/ Fails /\ UNCHANGED <<announced, carried>> /\ Unmoved
         \/ /\ committed' = IF config = None THEN committed ELSE config.format
            /\ wantsKey' = (wantsKey /\ ~au.key)
            /\ Flush(epoch, Encoded.format, announced)
            /\ Carry(epoch, Encoded.format)
            /\ UNCHANGED <<config, configSent, tx, epoch, gen, height, announced>>
  BY DEF IngestCommitted, IngestNow, IsCommitted, Encoded
<1>3. au \in AccessUnit /\ gen \in Generation /\ gen # 0 /\ encoders[gen] # None
  <2>1. au \in AccessUnit /\ encoders[gen] # None
    BY <1>1, <1>2 DEF SubmissionShape, TypeOK
  <2> QED BY <1>2, <2>1, BoundAssumption DEF AccessUnit, Generation
<1>4. /\ encoders[gen].format \in Formats
      /\ config # None /\ config.format = encoders[gen].format
      /\ carried[epoch] \in {None, encoders[gen].format}
      /\ epoch \in Epoch /\ epoch <= lastEpoch /\ lastEpoch \in Nat
      /\ announced \in Config \cup {None}
  BY <1>1, <1>2, <1>3, EncoderFields, BoundAssumption
     DEF DirectiveShape, OfCommitted, CommittedShape, TypeOK, Epoch
<1>5. CASE Fails /\ UNCHANGED <<announced, carried>> /\ Unmoved
  <2>1. /\ UNCHANGED <<config, configSent, tx, epoch, gen, height, committed, wantsKey,
                       flushed>> /\ call' = "Free"
    BY <1>5 DEF Fails, Unmoved, native
  <2>2. /\ wantsKey' \in BOOLEAN /\ caps' \in Offers \cup {None}
        /\ link' \in {"Down", "Negotiating", "Streaming"}
    BY <1>1, <1>2, <2>1 DEF TypeOK
  <2>3. SubmissionShape'
    BY <1>1, <1>2, <2>1 DEF SubmissionShape
  <2> QED BY <1>2, <1>5, <2>1, <2>2, <2>3, ListensKeep
<1>6. CASE /\ committed' = IF config = None THEN committed ELSE config.format
           /\ wantsKey' = (wantsKey /\ ~au.key)
           /\ Flush(epoch, Encoded.format, announced)
           /\ Carry(epoch, Encoded.format)
           /\ UNCHANGED <<config, configSent, tx, epoch, gen, height, announced>>
  <2>1. /\ carried' \in [Epoch -> Formats \cup {None}]
        /\ carried'[epoch] = encoders[gen].format
        /\ \A x \in Epoch : x # epoch => carried'[x] = carried[x]
        /\ announced # None => announced.format = carried'[announced.epoch]
        /\ flushed # None => flushed.format = carried'[flushed.epoch]
    BY <1>1, <1>2, <1>4, <1>6, CarryFacts DEF Encoded
  <2>2. /\ flushed' \in Flushed \cup {None}
        /\ call' \in {"PumpTake", "Free"}
        /\ \/ flushed' = flushed
           \/ /\ flushed'.format = encoders[gen].format /\ flushed'.epoch = epoch
              /\ flushed'.under = announced
              /\ flushed'.own <=> au.config \/ Applying
    BY <1>1, <1>2, <1>3, <1>4, <1>6, FlushedFacts DEF Encoded
  <2>3. committed' = encoders[gen].format /\ ~Applying' /\ wantsKey' \in BOOLEAN
    BY <1>2, <1>4, <1>6 DEF Applying
  <2>4. TypeOK'
    BY <1>1, <1>2, <1>4, <1>6, <2>1, <2>2, <2>3 DEF TypeOK
  <2>5. CommittedShape'
    BY <1>1, <1>2, <1>3, <1>6, <2>1, <2>3 DEF CommittedShape
  <2>6. DirectiveShape'
    BY <1>1, <1>2, <1>6, <2>3 DEF DirectiveShape, OfCommitted
  <2>7. CarriedShape'
    <3>1. \A e \in Epoch : e > lastEpoch => e # epoch
      BY <1>4 DEF Epoch
    <3> QED BY <1>1, <1>2, <2>1, <2>3, <3>1 DEF CarriedShape
  <2>8. SubmissionShape'
    BY <1>1, <1>2, <2>2 DEF SubmissionShape
  <2>9. EpochBindsFormat'
    BY <1>6, <2>1, <2>2 DEF EpochBindsFormat
  <2>10. ConfigBeforeItsMedia'
    <3>1. au.config => announced = [format |-> encoders[gen].format, epoch |-> epoch]
      BY <1>1, <1>2 DEF SubmissionShape
    <3> QED BY <1>1, <1>2, <2>2, <3>1 DEF ConfigBeforeItsMedia
  <2> QED BY <2>4, <2>5, <2>6, <2>7, <2>8, <2>9, <2>10 DEF IInv
<1> QED BY <1>2, <1>5, <1>6

LEMMA IngestRejectedKeeps ==
    ASSUME IInv, IngestRejected
    PROVE  IInv'
<1>1. TypeOK /\ SubmissionShape
  BY DEF IInv
<1>2. /\ call' = "Free" /\ au' = None
      /\ UNCHANGED <<config, configSent, wantsKey, tx, epoch, gen, height, committed,
                     announced, carried, flushed, link, caps, nextId, lastEpoch, encoders>>
  BY DEF IngestRejected, Rejected, native, wire
<1>3. /\ wantsKey' \in BOOLEAN /\ caps' \in Offers \cup {None}
      /\ link' \in {"Down", "Negotiating", "Streaming"}
  BY <1>1, <1>2 DEF TypeOK
<1>4. SubmissionShape'
  BY <1>1, <1>2 DEF SubmissionShape
<1> QED BY <1>2, <1>3, <1>4, ListensKeep

-----------------------------------------------------------------------------
(* pump.                                                                    *)

LEMMA PumpSendsKeeps ==
    ASSUME IInv, PumpSends
    PROVE  IInv'
<1>1. /\ TypeOK /\ CommittedShape /\ DirectiveShape /\ CarriedShape /\ SubmissionShape
      /\ EpochBindsFormat /\ ConfigBeforeItsMedia
  BY DEF IInv
<1> DEFINE cfg == [format |-> config.format, epoch |-> epoch]
<1>2. /\ ~Applying /\ config # None
      /\ config' = [config EXCEPT !.epoch = epoch] /\ configSent' = TRUE
      /\ announced' = cfg /\ Carry(epoch, config.format)
      /\ wantsKey' = (wantsKey /\ call # "PumpTake")
      /\ call' = AfterPump /\ flushed' = None /\ au' = au
      /\ UNCHANGED <<encoders, nextId, epoch, lastEpoch, gen, height, committed, tx, link,
                     caps>>
  BY DEF PumpSends, SendDue, Drained, native
<1>3. /\ config \in Config /\ config.format \in Formats /\ epoch \in Epoch
      /\ epoch <= lastEpoch /\ lastEpoch \in Nat
      /\ gen # 0 /\ config.format = encoders[gen].format
      /\ carried[epoch] \in {None, config.format}
  BY <1>1, <1>2, ConfigFields, BoundAssumption
     DEF DirectiveShape, OfCommitted, CommittedShape, TypeOK, Epoch
<1>4. cfg \in Config /\ cfg.format = config.format /\ cfg.epoch = epoch
  BY <1>3 DEF Config
<1>5. config' \in Config /\ config' # None /\ config'.format = config.format
  BY <1>2, <1>3, NoneIsNothing DEF Config
<1>6. /\ carried' \in [Epoch -> Formats \cup {None}]
      /\ carried'[epoch] = config.format
      /\ \A x \in Epoch : x # epoch => carried'[x] = carried[x]
  BY <1>1, <1>2, <1>3, CarryFacts
<1>7. call' \in {"Ingest", "Free"} /\ ~Applying' /\ (call' = "Ingest" <=> call = "PumpFirst")
  BY <1>2 DEF AfterPump, Applying
<1>8. TypeOK'
  BY <1>1, <1>2, <1>4, <1>5, <1>6, <1>7 DEF TypeOK
<1>9. CommittedShape'
  BY <1>1, <1>2, <1>3, <1>6 DEF CommittedShape
<1>10. DirectiveShape'
  BY <1>2, <1>3, <1>5, <1>7 DEF DirectiveShape, OfCommitted
<1>11. CarriedShape'
  <2>1. \A e \in Epoch : e > lastEpoch => e # epoch
    BY <1>3 DEF Epoch
  <2> QED BY <1>1, <1>2, <1>6, <1>7, <2>1 DEF CarriedShape
<1>12. SubmissionShape'
  <2>1. call = "PumpFirst" =>
            cfg = [format |-> encoders[au.gen].format, epoch |-> epoch]
    BY <1>1 DEF SubmissionShape
  <2> QED BY <1>1, <1>2, <1>7, <2>1 DEF SubmissionShape
<1>13. EpochBindsFormat' /\ ConfigBeforeItsMedia'
  BY <1>2, <1>4, <1>6 DEF EpochBindsFormat, ConfigBeforeItsMedia
<1> QED BY <1>8, <1>9, <1>10, <1>11, <1>12, <1>13 DEF IInv

(* A pump that sends nothing before a submission is ingested has found the  *)
(* connection gone: the StreamConfig of that submission is due otherwise.   *)
LEMMA PumpEndsKeep ==
    ASSUME IInv, PumpEnds \/ PumpSendFails
    PROVE  IInv'
<1>1. TypeOK /\ SubmissionShape
  BY DEF IInv
<1>2. /\ UNCHANGED <<config, configSent, tx, nextId, epoch, lastEpoch, gen, height,
                     committed, encoders, announced, carried, link, caps>>
      /\ flushed' = None /\ wantsKey' \in BOOLEAN /\ au' \in {au, None}
      /\ \/ call' = "Free"
         \/ call' = "Ingest" /\ call = "PumpFirst" /\ ~SendDue /\ au' = au
  BY <1>1 DEF PumpEnds, PumpSendFails, Drained, native, AfterPump, TypeOK
<1>3. call = "PumpFirst" /\ ~SendDue => ~Live
  BY <1>1 DEF SubmissionShape, SendDue
<1>4. /\ au' \in AccessUnit \cup {None} /\ caps' \in Offers \cup {None}
      /\ link' \in {"Down", "Negotiating", "Streaming"}
  BY <1>1, <1>2 DEF TypeOK
<1>5. SubmissionShape'
  BY <1>1, <1>2, <1>3 DEF SubmissionShape, Live
<1> QED BY <1>2, <1>4, <1>5, ListensKeep

-----------------------------------------------------------------------------

LEMMA StutterKeeps ==
    ASSUME IInv, UNCHANGED vars
    PROVE  IInv'
<1>1. UNCHANGED <<config, configSent, tx, nextId, epoch, lastEpoch, gen, height, committed,
                  encoders, announced, carried, flushed, au, wantsKey, caps, link, call>>
  BY DEF vars, negotiated, directives, native, wire
<1>2. Applying' <=> Applying
  BY <1>1 DEF Applying
<1>3. SubmissionShape'
  BY <1>1, <1>2 DEF IInv, SubmissionShape, Live
<1> QED BY <1>1, <1>3, ListensKeep DEF IInv, TypeOK

LEMMA StepInvariant == IInv /\ [Next]_vars => IInv'
<1> SUFFICES ASSUME IInv, [Next]_vars PROVE IInv'
  OBVIOUS
<1>1. CASE Platform
  BY <1>1, StartEncoderKeeps, BeginKeeps, FailureReportsKeep, SubmitKeeps, EventsKeep
     DEF Platform
<1>2. CASE Ingest
  BY <1>2, IngestCommitKeeps, IngestCommittedKeeps, IngestRejectedKeeps DEF Ingest
<1>3. CASE PollEnd
  BY <1>3, ResetKeeps DEF PollEnd
<1>4. CASE ExpireTransaction
  BY <1>4, FailStartedKeeps DEF ExpireTransaction, Pumping
<1>5. CASE \/ StartPump \/ PollConnected \/ PollAuthenticated \/ PollKeyframeRequest
           \/ \E c \in Offers: PollCapabilities(c)
  BY <1>5, EventsKeep
<1>6. CASE PumpSends \/ PumpEnds \/ PumpSendFails
  BY <1>6, PumpSendsKeeps, PumpEndsKeep
<1>7. CASE UNCHANGED vars
  BY <1>7, StutterKeeps
<1> QED BY <1>1, <1>2, <1>3, <1>4, <1>5, <1>6, <1>7 DEF Next, Pump

LEMMA InvariantHolds == Spec => []IInv
BY InitInvariant, StepInvariant, PTL DEF Spec

-----------------------------------------------------------------------------

(* Every variable has its type: epochs and directive numbers stay in their  *)
(* range whatever the platform reports.                                     *)
THEOREM TypeCorrect == Spec => []TypeOK
<1>1. IInv => TypeOK
  BY DEF IInv
<1> QED BY <1>1, InvariantHolds, PTL

(* The committed generation, height, format and epoch are of one encoder,   *)
(* and without a directive its StreamConfig is the pending one: a rollback  *)
(* and a recovery restore all of it.                                        *)
THEOREM CommittedIsOneEncoder == Spec => []CommittedFactsAgree
<1>1. IInv => CommittedFactsAgree
  BY NoneIsNothing DEF IInv, CommittedShape, DirectiveShape, OfCommitted,
                       CommittedFactsAgree
<1> QED BY <1>1, InvariantHolds, PTL

(* No epoch ever goes out with a second format, on any connection: a local  *)
(* directive has an epoch of its own, and a recovery keeps the format.      *)
THEOREM EpochHasOneFormat == Spec => []EpochBindsFormat
<1>1. IInv => EpochBindsFormat
  BY DEF IInv
<1> QED BY <1>1, InvariantHolds, PTL

(* The media of an event with a StreamConfig follows that StreamConfig.     *)
THEOREM ConfigGoesFirst == Spec => []ConfigBeforeItsMedia
<1>1. IInv => ConfigBeforeItsMedia
  BY DEF IInv
<1> QED BY <1>1, InvariantHolds, PTL

=============================================================================
