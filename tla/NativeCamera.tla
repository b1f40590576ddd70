---------------------------- MODULE NativeCamera ----------------------------
(***************************************************************************)
(* The native path of the Windows virtual camera.  The desktop renders its *)
(* newest picture into a shared surface and hands it over a named pipe;    *)
(* the media source in the Frame Server imports it and queues it as a      *)
(* sample for the application that asked.  The shared ring carries only a  *)
(* signal that says whether there is live content or a placeholder.        *)
(*                                                                         *)
(* Six threads: the receiver's owner (submit, placeholder), the desktop's  *)
(* pipe worker, the application's requests, its control calls (Start,      *)
(* Stop, Shutdown, SetD3DManager, SetOutputMediaType), the source's        *)
(* preparation thread, and the callback that returns a sample's surface.   *)
(*                                                                         *)
(* The code tags what it captures with revisions and compares them later.  *)
(* Revisions never repeat, so a captured tag is a flag that is TRUE until  *)
(* the revision moves on: life (lifecycle_revision), sess                  *)
(* (native_session_revision, which every change of the output revision     *)
(* moves as well), token (the live content token), content (the desktop's  *)
(* content_generation).  fresh is no variable of the code: the picture of  *)
(* a surface is newer than the last change to a placeholder.               *)
(***************************************************************************)
EXTENDS Naturals, Sequences, FiniteSets

CONSTANTS MaxRequests,   \* MAX_NATIVE_REQUESTS
          MaxEvents      \* bound on the calls and faults that disturb the path

ASSUME BoundsAssumption == MaxRequests \in Nat \ {0} /\ MaxEvents \in Nat

VARIABLES
    cam,        \* StreamState of the media source
    lock,       \* who holds lifecycle_operation
    control,    \* where the control call is
    announced,  \* the last stream event was MEStreamStarted
    p,          \* the preparation thread and what it captured
    r,          \* the RequestSample call under way
    out,        \* samples that left the source and whose surface is not back
    link,       \* the pipe: gone, closed, listening or up
    toServer, toClient,
    w,          \* the desktop's pipe worker
    owner,      \* where the receiver's owner is in submit or placeholder
    latest,     \* its newest picture: none, current, or revoked in the ring only
    signal,     \* the content kind observed in the ring
    desktop,    \* the desktop process runs
    events

camVars  == <<cam, lock, control, announced>>
pipeVars == <<link, toServer, toClient>>
deskVars == <<w, owner, latest, signal, desktop>>
vars == <<camVars, p, r, out, pipeVars, deskVars, events>>

Ends == {"none", "live", "dead"}
Offered == [pipe : Ends, life : BOOLEAN, token : BOOLEAN, fresh : BOOLEAN]

TypeOK ==
    /\ cam \in [running : BOOLEAN, transitioning : BOOLEAN, alive : BOOLEAN,
                native : BOOLEAN, placeholder : BOOLEAN, pipe : Ends,
                handshake : BOOLEAN, prepared : SUBSET Offered,
                inflight : BOOLEAN, requests : 0..MaxRequests]
    /\ Cardinality(cam.prepared) <= 1
    /\ lock \in {"free", "control", "preparer", "request"}
    /\ announced \in BOOLEAN
    /\ out \subseteq [pipe : Ends, sess : BOOLEAN]
    /\ Cardinality(out) <= 1
    /\ link \in {"gone", "closed", "listening", "up"}
    /\ latest \in {"none", "current", "revoked"}
    /\ signal \in {"Live", "Placeholder"}

-----------------------------------------------------------------------------
(* The pipe.  It has one instance; a disconnect discards what was not read *)
(* and the client's end is of no use from then on.                         *)

Dead(end) == IF end = "live" THEN "dead" ELSE end

\* A sample of an ended session on a dead pipe has nothing left to report.
Kept(samples) == {s \in samples : s.sess \/ s.pipe = "live"}

Disconnect ==
    IF link = "up"
    THEN /\ link' = "closed" /\ toServer' = <<>> /\ toClient' = <<>>
         /\ cam' = [cam EXCEPT !.pipe = Dead(@),
                               !.prepared = {[s EXCEPT !.pipe = Dead(@)] : s \in @}]
         /\ p' = [p EXCEPT !.pipe = Dead(@)]
         /\ out' = Kept({[s EXCEPT !.pipe = Dead(@)] : s \in out})
    ELSE UNCHANGED <<pipeVars, cam, p, out>>

\* The client's end is open as long as anyone holds a reference to it.
ClientOpen == "live" \in {cam.pipe, p.pipe} \cup {s.pipe : s \in cam.prepared \cup out}

-----------------------------------------------------------------------------
(* The desktop: the owner of the receiver session.                         *)

\* Whatever was captured of the content is outdated: the ring's signal moved
\* to Placeholder, or the mapping was replaced.
Revoke ==
    /\ cam' = [cam EXCEPT !.prepared =
                   {[s EXCEPT !.token = FALSE, !.fresh = FALSE] : s \in @}]
    /\ p' = [p EXCEPT !.token = FALSE, !.fresh = FALSE]
    /\ toClient' = [i \in DOMAIN toClient |-> [toClient[i] EXCEPT !.fresh = FALSE]]

Happens == events < MaxEvents /\ events' = events + 1

SubmitRing ==
    /\ desktop = "up" /\ owner = "idle"
    /\ signal # "Live" \/ latest # "current"
    /\ signal' = "Live" /\ owner' = "submit"
    /\ UNCHANGED <<camVars, p, r, out, pipeVars, w, latest, desktop, events>>

SubmitNative ==
    /\ owner = "submit"
    /\ latest' = "current" /\ owner' = "idle"
    /\ UNCHANGED <<camVars, p, r, out, pipeVars, w, signal, desktop, events>>

PlaceholderRing ==
    /\ desktop = "up" /\ owner = "idle" /\ Happens
    /\ signal' = "Placeholder" /\ owner' = "clear"
    /\ latest' = IF latest = "current" THEN "revoked" ELSE latest
    /\ w' = [w EXCEPT !.fresh = FALSE]
    /\ Revoke
    /\ UNCHANGED <<lock, control, announced, r, out, link, toServer, desktop>>

ClearNative ==
    /\ owner = "clear"
    /\ latest' = "none" /\ owner' = "cut"
    /\ w' = [w EXCEPT !.content = FALSE]
    /\ UNCHANGED <<camVars, p, r, out, pipeVars, signal, desktop, events>>

CutClient ==
    /\ owner = "cut" /\ owner' = "idle"
    /\ Disconnect
    /\ UNCHANGED <<lock, control, announced, r, w, latest, signal, desktop, events>>

Accepting == [pc |-> "Accept", channel |-> FALSE, content |-> FALSE, fresh |-> FALSE]

\* The process dies: its end of the pipe goes with it, the ring keeps its
\* signal until the hold of the last picture is over.
Crash ==
    /\ desktop = "up" /\ Happens
    /\ desktop' = "down" /\ w' = Accepting /\ owner' = "idle" /\ latest' = "none"
    /\ link' = "gone" /\ toServer' = <<>> /\ toClient' = <<>>
    /\ cam' = [cam EXCEPT !.pipe = Dead(@),
                          !.prepared = {[s EXCEPT !.pipe = Dead(@)] : s \in @}]
    /\ p' = [p EXCEPT !.pipe = Dead(@)]
    /\ out' = Kept({[s EXCEPT !.pipe = Dead(@)] : s \in out})
    /\ UNCHANGED <<lock, control, announced, r, signal>>

HoldEnds ==
    /\ desktop = "down" /\ signal = "Live"
    /\ signal' = "Placeholder"
    /\ Revoke
    /\ UNCHANGED <<lock, control, announced, r, out, link, toServer, w, owner,
                   latest, desktop, events>>

Restart ==
    /\ desktop = "down"
    /\ desktop' = "up" /\ signal' = "Placeholder" /\ link' = "closed"
    /\ Revoke
    /\ UNCHANGED <<lock, control, announced, r, out, toServer, w, owner, latest, events>>

-----------------------------------------------------------------------------
(* The desktop's pipe worker.  It waits at most a second for a message; a  *)
(* wait that ends, a message out of turn and a failed write all end the    *)
(* connection.                                                             *)

Unmoved == UNCHANGED <<lock, control, announced, r, owner, latest, signal, desktop, events>>

WorkerFails == w' = Accepting /\ Disconnect /\ Unmoved

ServerWrites(m) == /\ toClient' = Append(toClient, m)
                   /\ UNCHANGED <<link, toServer, cam, p, out>> /\ Unmoved

AcceptClient ==
    /\ desktop = "up" /\ w.pc = "Accept"
    /\ CASE link = "closed" -> link' = "listening" /\ w' = w
         [] link = "up" -> w' = [w EXCEPT !.pc = "Demand"] /\ link' = link
         [] OTHER -> FALSE
    /\ UNCHANGED <<toServer, toClient, cam, p, out>> /\ Unmoved

TakeFrame ==
    LET taken == [w EXCEPT !.content = TRUE, !.fresh = (latest = "current")] IN
    /\ w.pc = "Take" /\ latest # "none"
    /\ IF w.channel
       THEN w' = [taken EXCEPT !.pc = "Check"] /\ UNCHANGED <<pipeVars, cam, p, out>> /\ Unmoved
       ELSE IF link = "up" /\ ClientOpen
       THEN /\ w' = [taken EXCEPT !.pc = "Ready"]
            /\ ServerWrites([type |-> "Hello", fresh |-> FALSE])
       ELSE WorkerFails

\* The picture cannot be rendered, or it is of another stream than the
\* channel of this connection.  The Close that is written in the second case
\* is discarded by the disconnect that follows.
TakeFrameFails == w.pc = "Take" /\ latest # "none" /\ WorkerFails

WriteOffer ==
    /\ w.pc = "Check"
    /\ IF w.content /\ link = "up" /\ ClientOpen
       THEN /\ w' = [w EXCEPT !.pc = "Imported"]
            /\ ServerWrites([type |-> "Offer", fresh |-> w.fresh])
       ELSE WorkerFails

Awaited == [Demand |-> "Demand", Ready |-> "Ready",
            Imported |-> "Imported", Released |-> "Released"]

\* Mutant: the surface is taken back when the camera has imported it.
AfterRead_Imported ==
    [Demand   |-> [w EXCEPT !.pc = "Take"],
     Ready    |-> [w EXCEPT !.pc = "Check", !.channel = TRUE],
     Imported |-> [w EXCEPT !.pc = "Take", !.content = FALSE, !.fresh = FALSE],
     Released |-> w]

AfterRead == [Demand   |-> [w EXCEPT !.pc = "Take"],
              Ready    |-> [w EXCEPT !.pc = "Check", !.channel = TRUE],
              Imported |-> [w EXCEPT !.pc = "Released"],
              Released |-> [w EXCEPT !.pc = "Take", !.content = FALSE, !.fresh = FALSE]]

ServerReads ==
    /\ w.pc \in DOMAIN Awaited /\ toServer # <<>>
    /\ IF Head(toServer) = Awaited[w.pc]
       THEN /\ w' = AfterRead[w.pc]
            /\ toServer' = Tail(toServer)
            /\ UNCHANGED <<link, toClient, cam, p, out>> /\ Unmoved
       ELSE WorkerFails

\* The second is over, or the peer is gone.
ServerReadFails == w.pc \in DOMAIN Awaited /\ toServer = <<>> /\ WorkerFails

WorkerStep == \/ AcceptClient \/ TakeFrame \/ TakeFrameFails \/ WriteOffer
              \/ ServerReads \/ ServerReadFails

-----------------------------------------------------------------------------
(* The source's sessions.  A reset drops the pipe, the handshake and the   *)
(* requests, and aborts the prepared sample: its surface goes back to the  *)
(* desktop through the same callback as a delivered one.                   *)

Reset(k) == [k EXCEPT !.pipe = "none", !.handshake = FALSE, !.inflight = FALSE,
                      !.requests = 0, !.prepared = {}]

Aborted(samples) ==
    Kept({[pipe |-> s.pipe, sess |-> FALSE] : s \in out \cup samples})

EndSession(k) == /\ cam' = Reset(k)
                 /\ out' = Aborted(k.prepared)

NewLife(k) == [k EXCEPT !.prepared = {[s EXCEPT !.life = FALSE] : s \in @}]

Outdated(life, sess) ==
    /\ p' = [p EXCEPT !.life = @ /\ ~life, !.sess = @ /\ ~sess]
    /\ r' = [r EXCEPT !.life = @ /\ ~life]

Quiet == [pc |-> "Loop", pipe |-> "none", life |-> FALSE, sess |-> FALSE,
          token |-> FALSE, fresh |-> FALSE]


-----------------------------------------------------------------------------
(* Control calls.  Start and Stop hold lifecycle_operation from beginning  *)
(* to end and mark the stream as transitioning; the two calls that change  *)
(* the configuration hold the state's mutex only.                          *)

Stage(from, to) == control = from /\ control' = to

Begin(running) ==
    /\ Stage("idle", IF running THEN "start" ELSE "stop")
    /\ lock = "free" /\ cam.alive /\ ~cam.transitioning /\ cam.running # running
    /\ running \/ Happens
    /\ running => events' = events
    /\ lock' = "control"
    /\ cam' = [cam EXCEPT !.transitioning = TRUE]
    /\ UNCHANGED <<announced, p, r, out, pipeVars, deskVars>>

StartCommit ==
    /\ Stage("start", "started")
    /\ cam' = NewLife([cam EXCEPT !.running = TRUE])
    /\ Outdated(TRUE, FALSE)
    /\ UNCHANGED <<lock, announced, out, pipeVars, deskVars, events>>

\* The allocator of the CPU path refuses: the stream stays as it was.
AllocatorFails ==
    /\ Stage("start", "leave") \/ Stage("stop", "leave")
    /\ ~cam.native /\ Happens
    /\ UNCHANGED <<cam, lock, announced, p, r, out, pipeVars, deskVars>>

StartEvent ==
    /\ Stage("started", "leave")
    /\ announced' = TRUE
    /\ UNCHANGED <<cam, lock, p, r, out, pipeVars, deskVars, events>>

StartEventFails ==
    /\ Stage("started", "leave") /\ Happens
    /\ EndSession([cam EXCEPT !.running = FALSE])
    /\ Outdated(TRUE, TRUE)
    /\ UNCHANGED <<lock, announced, pipeVars, deskVars>>

StopCommit ==
    /\ Stage("stop", "reset")
    /\ cam' = NewLife([cam EXCEPT !.running = FALSE])
    /\ Outdated(TRUE, FALSE)
    /\ UNCHANGED <<lock, announced, out, pipeVars, deskVars, events>>

StopReset ==
    /\ Stage("reset", "stopped")
    /\ EndSession(cam)
    /\ Outdated(FALSE, TRUE)
    /\ UNCHANGED <<lock, announced, pipeVars, deskVars, events>>

StopEvent ==
    /\ Stage("stopped", "leave")
    /\ announced' = FALSE
    /\ UNCHANGED <<cam, lock, p, r, out, pipeVars, deskVars, events>>

\* The stream runs on, unless an allocator of the CPU path had to be
\* initialised again and was not.
StopEventFails ==
    /\ Stage("stopped", "leave") /\ Happens
    /\ \E restored \in {TRUE, cam.native} :
           IF restored
           THEN cam' = NewLife([cam EXCEPT !.running = TRUE]) /\ Outdated(TRUE, FALSE)
           ELSE UNCHANGED <<cam, p, r>>
    /\ UNCHANGED <<lock, announced, out, pipeVars, deskVars>>

Leave ==
    /\ Stage("leave", "idle")
    /\ cam' = [cam EXCEPT !.transitioning = FALSE]
    /\ lock' = "free"
    /\ UNCHANGED <<announced, p, r, out, pipeVars, deskVars, events>>

\* Mutant: Shutdown joins the preparation thread with the gate closed.
Shutdown_HoldsGate ==
    /\ Stage("idle", "join") /\ Happens
    /\ lock = "free" /\ cam.alive
    /\ lock' = "control"
    /\ EndSession([cam EXCEPT !.running = FALSE, !.transitioning = FALSE, !.alive = FALSE])
    /\ Outdated(TRUE, TRUE)
    /\ UNCHANGED <<announced, pipeVars, deskVars>>

\* The gate is released before the preparation thread is joined.
Shutdown ==
    /\ Stage("idle", "join") /\ Happens
    /\ lock = "free" /\ cam.alive
    /\ EndSession([cam EXCEPT !.running = FALSE, !.transitioning = FALSE, !.alive = FALSE])
    /\ Outdated(TRUE, TRUE)
    /\ UNCHANGED <<lock, announced, pipeVars, deskVars>>

Join ==
    /\ Stage("join", "gone") /\ p.pc = "Done"
    /\ UNCHANGED <<cam, lock, announced, p, r, out, pipeVars, deskVars, events>>

MayConfigure == cam.alive /\ ~cam.running /\ ~cam.transitioning

SetD3DManager ==
    /\ MayConfigure /\ Happens
    /\ \E native \in {TRUE, ~cam.native} :
           EndSession([cam EXCEPT !.native = native, !.placeholder = FALSE])
    /\ Outdated(TRUE, TRUE)
    /\ UNCHANGED <<lock, control, announced, pipeVars, deskVars>>

SetOutputMediaType ==
    /\ MayConfigure /\ Happens
    /\ EndSession(cam)
    /\ Outdated(FALSE, TRUE)
    /\ UNCHANGED <<lock, control, announced, pipeVars, deskVars>>

ControlStep == \/ AllocatorFails \/ StartCommit \/ StartEvent \/ StartEventFails
               \/ StopCommit \/ StopReset \/ StopEvent \/ StopEventFails
               \/ Leave \/ Join

-----------------------------------------------------------------------------
(* RequestSample.  With a D3D manager a placeholder is served from memory  *)
(* and live content by the preparation thread; without one every sample is *)
(* copied from the ring (DeliverCpu).                                      *)

Waiting == [pc |-> "idle", placeholder |-> FALSE, life |-> FALSE]
Flows == cam.running /\ ~cam.transitioning

RequestSample ==
    /\ r.pc = "idle" /\ Flows
    /\ r' = [r EXCEPT !.pc = IF cam.native THEN "Kind" ELSE "Acquire"]
    /\ UNCHANGED <<camVars, p, out, pipeVars, deskVars, events>>

ContentKind ==
    /\ r.pc = "Kind"
    /\ r' = [r EXCEPT !.pc = "Set", !.placeholder = (signal = "Placeholder")]
    /\ UNCHANGED <<camVars, p, out, pipeVars, deskVars, events>>

SetPlaceholderActive ==
    /\ r.pc = "Set"
    /\ r' = [r EXCEPT !.pc = IF r.placeholder THEN "Acquire" ELSE "Push",
                      !.placeholder = FALSE]
    /\ IF cam.placeholder = r.placeholder
       THEN UNCHANGED <<cam, p, out>>
       ELSE /\ lock = "free"
            /\ EndSession([cam EXCEPT !.placeholder = r.placeholder])
            /\ p' = [p EXCEPT !.sess = FALSE]
    /\ UNCHANGED <<lock, control, announced, pipeVars, deskVars, events>>

\* A full queue drops the request without an error.
RequestNativeSample ==
    /\ r.pc = "Push"
    /\ r' = Waiting
    /\ cam' = IF Flows /\ cam.requests < MaxRequests
              THEN [cam EXCEPT !.requests = @ + 1] ELSE cam
    /\ UNCHANGED <<lock, control, announced, p, out, pipeVars, deskVars, events>>

AcquireForOutput ==
    /\ r.pc = "Acquire"
    /\ \E acquired \in BOOLEAN :
           r' = IF acquired /\ Flows THEN [r EXCEPT !.pc = "Copy", !.life = TRUE] ELSE Waiting
    /\ UNCHANGED <<camVars, p, out, pipeVars, deskVars, events>>

\* Mutant: what was acquired while the stream ran is still good.
StillCurrent_Acquired == TRUE

StillCurrent == Flows /\ r.life

DeliverCpuSample ==
    /\ r.pc = "Copy" /\ lock = "free"
    /\ IF StillCurrent
       THEN r' = [r EXCEPT !.pc = "Queue"] /\ lock' = "request"
       ELSE r' = Waiting /\ lock' = lock
    /\ UNCHANGED <<cam, control, announced, p, out, pipeVars, deskVars, events>>

QueueCpuSample ==
    /\ r.pc = "Queue"
    /\ r' = Waiting /\ lock' = "free"
    /\ UNCHANGED <<cam, control, announced, p, out, pipeVars, deskVars, events>>

RequestStep == \/ ContentKind \/ SetPlaceholderActive \/ RequestNativeSample
               \/ AcquireForOutput \/ DeliverCpuSample \/ QueueCpuSample


-----------------------------------------------------------------------------
(* The preparation thread, native_prepare_loop: it delivers the prepared   *)
(* sample to the oldest request, and prepares the next when none is        *)
(* prepared and none in flight.                                            *)

Elsewhere == UNCHANGED <<control, announced, r, deskVars, events>>

GoTo(pc) == p' = [p EXCEPT !.pc = pc]

GiveUp == p' = Quiet /\ UNCHANGED <<cam, out>>

\* reset_native_session_if_current, on every error of the exchange.
ResetIfCurrent == IF p.sess THEN EndSession(cam) ELSE UNCHANGED <<cam, out>>

PrepareFails == p' = Quiet /\ ResetIfCurrent

Delivers == /\ cam.native /\ ~cam.placeholder /\ Flows /\ cam.requests > 0

ChooseWork ==
    /\ p.pc = "Loop"
    /\ IF ~cam.alive THEN GoTo("Done")
       ELSE /\ Delivers
            /\ cam.prepared # {} \/ ~cam.inflight
            /\ GoTo(IF cam.prepared # {} THEN "Pop" ELSE "Connect")
    /\ UNCHANGED <<cam, lock, out, pipeVars>> /\ Elsewhere

\* Opens the pipe if the session has none; the one instance must be listening.
Connect ==
    LET captured(end) == [p EXCEPT !.pc = "Token", !.pipe = end,
                                   !.life = TRUE, !.sess = TRUE] IN
    /\ p.pc = "Connect"
    /\ IF ~cam.native \/ (cam.pipe = "none" /\ link # "listening")
       THEN p' = Quiet /\ UNCHANGED <<cam, link>>
       ELSE IF cam.pipe = "none"
       THEN p' = captured("live") /\ cam' = [cam EXCEPT !.pipe = "live"] /\ link' = "up"
       ELSE p' = captured(cam.pipe) /\ UNCHANGED <<cam, link>>
    /\ UNCHANGED <<lock, out, toServer, toClient>> /\ Elsewhere

\* Without live content E_PENDING: the session, the pipe and the requests stay.
CaptureToken ==
    /\ p.pc = "Token"
    /\ p' = IF signal = "Live" THEN [p EXCEPT !.pc = "Demand", !.token = TRUE] ELSE Quiet
    /\ UNCHANGED <<cam, lock, out, pipeVars>> /\ Elsewhere

Captured == p.life /\ p.sess

ClientWrites(m) == toServer' = IF p.pipe = "live" THEN Append(toServer, m) ELSE toServer

WriteDemand ==
    /\ p.pc = "Demand"
    /\ IF ~Captured THEN GiveUp /\ toServer' = toServer
       ELSE IF cam.handshake THEN GoTo("Offer") /\ UNCHANGED <<cam, out, toServer>>
       ELSE IF p.pipe = "live"
       THEN GoTo("Hello") /\ ClientWrites("Demand") /\ UNCHANGED <<cam, out>>
       ELSE PrepareFails /\ toServer' = toServer
    /\ UNCHANGED <<lock, link, toClient>> /\ Elsewhere

ClientReads(type) == /\ p.pipe = "live" /\ toClient # <<>>
                     /\ Head(toClient).type = type
                     /\ toClient' = Tail(toClient)

\* Ready is written before the session is committed: one that ended meanwhile
\* is answered with Ready and Close.
ReadHello ==
    /\ p.pc = "Hello" /\ ClientReads("Hello")
    /\ IF Captured
       THEN /\ cam' = [cam EXCEPT !.handshake = TRUE]
            /\ GoTo("Offer") /\ toServer' = Append(toServer, "Ready")
       ELSE /\ cam' = cam
            /\ p' = Quiet /\ toServer' = toServer \o <<"Ready", "Close">>
    /\ UNCHANGED <<lock, out, link>> /\ Elsewhere

\* Session or stream moved on: the offer is dropped without an answer.
ReadOffer ==
    /\ p.pc = "Offer" /\ ClientReads("Offer")
    /\ p' = IF Captured THEN [p EXCEPT !.pc = "Import", !.fresh = Head(toClient).fresh]
            ELSE Quiet
    /\ UNCHANGED <<cam, lock, out, link, toServer>> /\ Elsewhere

\* The 250 ms are over, the peer is gone, or its message is refused: a Hello
\* of another adapter, an Offer where none belongs.
ClientReadFails ==
    /\ p.pc \in {"Hello", "Offer"}
    /\ PrepareFails
    /\ IF p.pipe = "live" /\ toClient # <<>>
       THEN toClient' = Tail(toClient) /\ ClientWrites("Close")
       ELSE UNCHANGED <<toServer, toClient>>
    /\ UNCHANGED <<lock, link>> /\ Elsewhere

\* import_nv12_surface, then the check that the stream still runs.
Import ==
    /\ p.pc = "Import"
    /\ \E imported \in BOOLEAN :
           IF imported /\ Flows /\ Captured
           THEN GoTo("Sample") /\ UNCHANGED <<cam, out, toServer>>
           ELSE PrepareFails /\ ClientWrites("Rejected")
    /\ UNCHANGED <<lock, link, toClient>> /\ Elsewhere

WriteImported ==
    /\ p.pc = "Sample"
    /\ IF p.pipe = "live"
       THEN GoTo("Store") /\ ClientWrites("Imported") /\ UNCHANGED <<cam, out>>
       ELSE PrepareFails /\ toServer' = toServer
    /\ UNCHANGED <<lock, link, toClient>> /\ Elsewhere

Surface == [pipe |-> p.pipe, sess |-> p.sess]

StorePrepared ==
    /\ p.pc = "Store"
    /\ IF /\ cam.native /\ ~cam.placeholder /\ Flows /\ Captured
          /\ cam.prepared = {} /\ ~cam.inflight
       THEN /\ cam' = [cam EXCEPT !.prepared = {[pipe |-> p.pipe, life |-> TRUE,
                                                 token |-> p.token, fresh |-> p.fresh]}]
            /\ out' = out
       ELSE cam' = cam /\ out' = Kept(out \cup {Surface})
    /\ p' = Quiet
    /\ UNCHANGED <<lock, pipeVars>> /\ Elsewhere


-----------------------------------------------------------------------------
(* Delivery, deliver_native_sample_owned: under lifecycle_operation from   *)
(* taking the sample to queueing its event.                                *)

PopRequest ==
    /\ p.pc = "Pop"
    /\ cam' = [cam EXCEPT !.requests = IF @ > 0 THEN @ - 1 ELSE 0]
    /\ GoTo("Gate")
    /\ UNCHANGED <<lock, out, pipeVars>> /\ Elsewhere

CheckPlaceholder ==
    /\ p.pc = "Gate"
    /\ GoTo(IF cam.placeholder THEN "Fail" ELSE "Take")
    /\ UNCHANGED <<cam, lock, out, pipeVars>> /\ Elsewhere

Failed == [Quiet EXCEPT !.pc = "Fail"]

TakePrepared ==
    /\ p.pc = "Take" /\ lock = "free"
    /\ IF Flows /\ cam.prepared # {}
       THEN /\ cam' = [cam EXCEPT !.prepared = {}, !.inflight = TRUE]
            /\ \E s \in cam.prepared :
                   IF s.life
                   THEN /\ p' = [pc |-> "Admit", pipe |-> s.pipe, life |-> TRUE,
                                 sess |-> TRUE, token |-> s.token, fresh |-> s.fresh]
                        /\ lock' = "preparer" /\ out' = out
                   ELSE /\ p' = Failed /\ lock' = lock
                        /\ out' = Kept(out \cup {[pipe |-> s.pipe, sess |-> TRUE]})
       ELSE p' = Failed /\ UNCHANGED <<cam, lock, out>>
    /\ UNCHANGED pipeVars /\ Elsewhere

\* Mutant: live content is enough, whichever it is.
TokenHolds_KindOnly == signal = "Live"

TokenHolds == p.token

\* The last look at the ring: from here on the sample counts as in flight.
AdmitLive ==
    /\ p.pc = "Admit"
    /\ IF TokenHolds
       THEN GoTo("Recheck") /\ UNCHANGED <<cam, lock, out>>
       ELSE /\ cam' = Reset(cam) /\ out' = Aborted(cam.prepared \cup {Surface})
            /\ p' = Failed /\ lock' = "free"
    /\ UNCHANGED pipeVars /\ Elsewhere

Recheck ==
    /\ p.pc = "Recheck"
    /\ IF Captured /\ Flows
       THEN GoTo("Queue") /\ UNCHANGED <<lock, out>>
       ELSE p' = Failed /\ lock' = "free" /\ out' = Kept(out \cup {Surface})
    /\ UNCHANGED <<cam, pipeVars>> /\ Elsewhere

QueueSample ==
    /\ p.pc = "Queue"
    /\ out' = Kept(out \cup {Surface})
    /\ p' = Quiet /\ lock' = "free"
    /\ UNCHANGED <<cam, pipeVars>> /\ Elsewhere

QueueSampleFails ==
    /\ p.pc = "Queue" /\ Happens
    /\ IF p.sess THEN cam' = Reset(cam) ELSE cam' = cam
    /\ out' = Aborted(cam.prepared \cup {Surface})
    /\ p' = Failed /\ lock' = "free"
    /\ UNCHANGED <<control, announced, r, pipeVars, deskVars>>

\* A failed delivery resets the session in force, whichever it is.
DeliveryFails ==
    /\ p.pc = "Fail"
    /\ EndSession(cam) /\ p' = Quiet
    /\ UNCHANGED <<lock, pipeVars>> /\ Elsewhere

PreparerStep ==
    \/ ChooseWork \/ Connect \/ CaptureToken \/ WriteDemand \/ ReadHello \/ ReadOffer
    \/ ClientReadFails \/ Import \/ WriteImported \/ StorePrepared
    \/ PopRequest \/ CheckPlaceholder \/ TakePrepared \/ AdmitLive \/ Recheck
    \/ QueueSample \/ DeliveryFails

-----------------------------------------------------------------------------
(* The last reference to a sample is gone: the callback returns the        *)
(* surface.  It needs the pipe, which the preparation thread may hold.     *)

PipeIsHeld(end) == end = "live" /\ p.pipe = "live" /\ p.pc \in {"Demand", "Hello", "Offer"}

\* Mutant: the callback only writes its acknowledgement.
Uncounted_Forgets(s) == cam

Uncounted(s) == [cam EXCEPT !.inflight = @ /\ ~s.sess]

Release(s, returned) ==
    LET written == returned /\ s.pipe = "live" IN
    /\ s \in out /\ ~PipeIsHeld(s.pipe)
    /\ toServer' = IF written THEN Append(toServer, "Released") ELSE toServer
    /\ IF s.sess /\ ~written
       THEN /\ cam' = Reset(cam) /\ p' = [p EXCEPT !.sess = FALSE]
            /\ out' = Aborted(cam.prepared) \ {[s EXCEPT !.sess = FALSE]}
       ELSE /\ cam' = Uncounted(s)
            /\ p' = p /\ out' = out \ {s}
    /\ UNCHANGED <<lock, link, toClient, control, announced, r, deskVars>>

ReleaseSample == \E s \in out : Release(s, TRUE) /\ events' = events

\* The keyed mutex does not come back: nothing is acknowledged.
ReleaseFails == \E s \in out : Release(s, FALSE) /\ Happens

-----------------------------------------------------------------------------

Init ==
    /\ cam = [running |-> FALSE, transitioning |-> FALSE, alive |-> TRUE,
              native |-> FALSE, placeholder |-> FALSE, pipe |-> "none",
              handshake |-> FALSE, prepared |-> {}, inflight |-> FALSE, requests |-> 0]
    /\ lock = "free" /\ control = "idle" /\ announced = FALSE
    /\ p = Quiet /\ r = Waiting /\ out = {}
    /\ link = "closed" /\ toServer = <<>> /\ toClient = <<>>
    /\ w = Accepting /\ owner = "idle" /\ latest = "none"
    /\ signal = "Placeholder" /\ desktop = "up"
    /\ events = 0

OwnerStep == SubmitNative \/ ClearNative \/ CutClient

Next ==
    \/ SubmitRing \/ PlaceholderRing \/ OwnerStep \/ Crash \/ HoldEnds \/ Restart
    \/ WorkerStep
    \/ (\E running \in BOOLEAN : Begin(running)) \/ Shutdown
    \/ SetD3DManager \/ SetOutputMediaType \/ ControlStep
    \/ RequestSample \/ RequestStep
    \/ PreparerStep \/ QueueSampleFails
    \/ ReleaseSample \/ ReleaseFails

Spec == /\ Init /\ [][Next]_vars
        /\ WF_vars(WorkerStep) /\ WF_vars(OwnerStep)
        /\ WF_vars(PreparerStep) /\ WF_vars(ReleaseSample)
        /\ WF_vars(ControlStep) /\ WF_vars(RequestStep)

-----------------------------------------------------------------------------

\* Samples reach the application only between the announcement that the
\* stream started and the one that it stopped: lifecycle_operation orders the
\* events of three threads, and a sample prepared before Stop is not queued
\* after it, nor after Shutdown.
SampleWithinRun ==
    (p.pc = "Queue" \/ r.pc = "Queue") => announced /\ cam.running /\ cam.alive

\* A picture that was made before a change to the placeholder, or by a desktop
\* that has died, does not pass the final admission, however long its surface
\* was under way and even if there is live content again.
LiveSampleIsCurrent == [][p.pc = "Admit" /\ p'.pc = "Recheck" => p.fresh]_vars

Carries == {"Import", "Sample", "Store", "Admit", "Recheck", "Queue"}

\* The desktop renders into its surface again only when, on a connection that
\* is up, the camera holds nothing of it any more: not in preparation, not
\* prepared, not with the application.
SurfaceReturned ==
    link = "up" /\ w.channel /\ w.pc \in {"Take", "Check"} =>
        /\ ~(p.pipe = "live" /\ p.pc \in Carries)
        /\ \A s \in cam.prepared \cup out : s.pipe # "live"

\* With live content that lasts, a full queue of requests moves: no broken
\* pipe, lost acknowledgement or aborted sample blocks the camera for good.
RequestsMove ==
    <>[](signal = "Live" /\ latest = "current" /\ desktop = "up" /\ cam.native)
        => []<>(cam.requests < MaxRequests)

\* Shutdown returns: the preparation thread it joins does not wait for it.
ShutdownEnds == control = "join" ~> control = "gone"

=============================================================================
