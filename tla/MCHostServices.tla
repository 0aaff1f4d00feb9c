--------------------------- MODULE MCHostServices ---------------------------
(***************************************************************************)
(* The services of one host beside its volumes: the sandbox engine,        *)
(* project images, the worker broker, snapshots, the guest's sessions, the *)
(* limits of the event outbox and a sandbox's network gateway.  A          *)
(* behaviour exercises one of them; the variables of the others are Off,   *)
(* or keep the state they start from.                                      *)
(***************************************************************************)
EXTENDS NetGateway, WorkerBroker

CONSTANTS
    b1, b2, v1,                 \* builds and a clone of project images
    w1, w2,                     \* workers
    n1, n2,                     \* snapshot names
    r1, r2,                     \* managed runs
    nil                         \* no record of the engine

VARIABLES
    part,
    escope, up, mem, disk, dir, state, live, paused, astray, net, vols, eop, probe,
    clobbered, faults,
    iscope, baseFile, proof, builder, source, image, froze, refs, generation,
    clone, holder, mail, svc, imageFaults,
    sscope, vm, vmDir, shelf, stock, snapRows, daemon, vtask, rtask, committed,
    captured, restored, snapFaults,
    gscope, stable, maker, ghost, sess, proc, reaper, deleter, writer, att, stray,
    status, stream, events, lines, torn, exited, oup, crashes, sender, posted,
    mails, seen, gone, expired

engineVars == <<escope, up, mem, disk, dir, state, live, paused, astray, net,
                vols, eop, probe, clobbered, faults>>
imageVars == <<iscope, baseFile, proof, builder, source, image, froze, refs,
               generation, clone, holder, mail, svc, imageFaults>>
snapVars == <<sscope, vm, vmDir, shelf, stock, snapRows, daemon, vtask, rtask,
              committed, captured, restored, snapFaults>>
sessionVars == <<gscope, stable, maker, ghost, sess, proc, reaper, deleter,
                 writer, att, stray>>
outboxVars == <<status, stream, events, lines, torn, exited, oup, crashes, sender,
                posted, mails, seen, gone, expired>>

(***************************************************************************)
(* Engines: local storage behind a gateway, without one, and behind a       *)
(* broker; desktops, which have no checkpoint, with and without the control *)
(* socket that pause needs; a replicated disk with a broker, and one with a *)
(* gateway.  Three failures of any kind the configuration can meet, two for *)
(* the desktops and the local storage behind a broker.                      *)
(***************************************************************************)
LocalNet == [storage |-> "local", desktop |-> FALSE, gpu |-> FALSE, net |-> TRUE,
             broker |-> FALSE,
             calls |-> {"create", "start", "stop", "pause", "resume", "destroy",
                        "snapshot", "status", "reclaim"},
             faults |-> 3,
             fail |-> {"persist", "boot", "ready", "ctl", "erase", "term", "net",
                       "die", "crash", "orphan"}]
LocalPlain == [LocalNet EXCEPT !.net = FALSE]
LocalBroker == [LocalNet EXCEPT !.broker = TRUE, !.fail = @ \cup {"reply"}, !.faults = 2]
Desktop == [LocalNet EXCEPT !.desktop = TRUE, !.faults = 2]
GpuDesktop == [Desktop EXCEPT !.gpu = TRUE]
Replica == [LocalNet EXCEPT !.storage = "replicated", !.net = FALSE, !.broker = TRUE,
                            !.calls = @ \ {"snapshot", "status"},
                            !.fail = @ \cup {"volume", "reply"}]
ReplicaNet == [Replica EXCEPT !.net = TRUE, !.broker = FALSE,
                              !.calls = {"create", "start", "stop", "destroy"},
                              !.fail = {"ready", "term", "net", "die", "crash", "orphan"}]

Engine == INSTANCE SandboxEngine WITH
    Vols <- {1, 2},
    Scopes <- {LocalNet, LocalPlain, LocalBroker, Desktop, GpuDesktop, Replica, ReplicaNet},
    scope <- escope, op <- eop, None <- nil

\* Project images: one build and a clone, with faults; two builds without.
Images == INSTANCE ProjectImages WITH
    Builds <- {b1, b2}, Clones <- {v1}, MaxGeneration <- 1,
    ImageScopes <-
        {[builds |-> {b1}, clones |-> {v1}, faults |-> 2, replace |-> TRUE,
          writes |-> 1],
         [builds |-> {b1, b2}, clones |-> {}, faults |-> 0, replace |-> FALSE,
          writes |-> 0]}

\* The broker: one worker with three faults and a changed root, two with one
\* fault.
TwoWorkers == {w1, w2}
Brokers ==
    {[workers |-> {w1}, identities |-> 3, faults |-> 3, reconfigure |-> TRUE],
     [workers |-> {w1, w2}, identities |-> 3, faults |-> 1, reconfigure |-> FALSE]}

\* Snapshots: one left by an older version and two faults; two and one fault.
Snaps == INSTANCE Snapshots WITH
    Names <- {n1, n2},
    SnapScopes <-
        {[names |-> {n1}, legacy |-> {n1}, writes |-> 2, faults |-> 2, quota |-> 1],
         [names |-> {n1, n2}, legacy |-> {}, writes |-> 2, faults |-> 1, quota |-> 2]}

\* Sessions: a reader that outruns the ring; two streams, one attached to late;
\* input; two creations under a limit of one; an isolated run.
Plain == [ids |-> {1}, pumps |-> {"out"}, kin |-> {}, output |-> 0, from |-> {},
          input |-> FALSE, limit |-> 1, pinned |-> {}, faults |-> FALSE]
Sessions == INSTANCE GuestSessions WITH
    table <- stable,
    SessionScopes <-
        {[Plain EXCEPT !.kin = {"group"}, !.output = 3, !.from = {0}],
         [Plain EXCEPT !.kin = {"group", "away"}, !.output = 1, !.from = {1},
                       !.pumps = {"out", "err"}, !.faults = TRUE],
         [Plain EXCEPT !.input = TRUE],
         [Plain EXCEPT !.ids = {1, 2}, !.pumps = {}],
         [Plain EXCEPT !.ids = {1, 2}, !.pumps = {}, !.pinned = {1}]}

\* The outbox: two runs share its limits.  Events of size 2 are receipts.
Outbox == INSTANCE EventOutbox WITH
    Run <- {r1, r2}, MaxSize <- 2, MaxCheck <- 1, RunLimit <- 4, TotalLimit <- 5,
    StreamLimit <- 2, Slots <- 1, Faults <- {}, MaxLines <- 1, MaxCrash <- 0,
    up <- oup, net <- mails

\* The gateway: one connection with everything that can go wrong; two that want
\* the one place in the table, over two links.
Gateways ==
    {[keys |-> {1}, flows |-> 1, dials |-> 1, guest |-> 2, host |-> 2,
      buffer |-> 2, links |-> 1, faults |-> {"reset", "idle", "failed"}],
     [keys |-> {1, 2}, flows |-> 1, dials |-> 2, guest |-> 1, host |-> 0,
      buffer |-> 1, links |-> 2, faults |-> {"lookup"}]}

\* What the proofs about the gateway assume of its constants.
ASSUME GatewayFits == GatewayConstants

-----------------------------------------------------------------------------
Off == 0    \* a variable of a part that does not run

EngineOff ==
    /\ escope = Off /\ up = Off /\ mem = Off /\ disk = Off /\ dir = Off
    /\ state = Off /\ live = Off /\ paused = Off /\ astray = Off
    /\ net = Off /\ vols = Off
    /\ eop = Off /\ probe = Off /\ clobbered = Off /\ faults = Off
ImageOff ==
    /\ iscope = Off /\ baseFile = Off /\ proof = Off /\ builder = Off
    /\ source = Off /\ image = Off /\ froze = Off /\ refs = Off
    /\ generation = Off /\ clone = Off /\ holder = Off /\ mail = Off
    /\ svc = Off /\ imageFaults = Off
BrokerOff == BrokerInit /\ bscope = CHOOSE s \in BrokerScopes : TRUE
SnapOff ==
    /\ sscope = Off /\ vm = Off /\ vmDir = Off /\ shelf = Off /\ stock = Off
    /\ snapRows = Off /\ daemon = Off /\ vtask = Off /\ rtask = Off
    /\ committed = Off /\ captured = Off /\ restored = Off /\ snapFaults = Off
SessionOff ==
    /\ gscope = Off /\ stable = Off /\ maker = Off /\ ghost = Off /\ sess = Off
    /\ proc = Off /\ reaper = Off /\ deleter = Off /\ writer = Off
    /\ att = Off /\ stray = Off
OutboxOff ==
    /\ status = Off /\ stream = Off /\ events = Off /\ lines = Off
    /\ torn = Off /\ exited = Off /\ oup = Off /\ crashes = Off
    /\ sender = Off /\ posted = Off /\ mails = Off /\ seen = Off /\ gone = Off
    /\ expired = Off
GatewayOff == GatewayInit /\ wscope = CHOOSE s \in GatewayScopes : TRUE

MCInit ==
    \/ part = "engine" /\ Engine!Init
       /\ ImageOff /\ BrokerOff /\ SnapOff /\ SessionOff
       /\ OutboxOff /\ GatewayOff
    \/ part = "images" /\ Images!ImageInit
       /\ EngineOff /\ BrokerOff /\ SnapOff /\ SessionOff
       /\ OutboxOff /\ GatewayOff
    \/ part = "broker" /\ BrokerInit
       /\ EngineOff /\ ImageOff /\ SnapOff /\ SessionOff
       /\ OutboxOff /\ GatewayOff
    \/ part = "snapshots" /\ Snaps!SnapInit
       /\ EngineOff /\ ImageOff /\ BrokerOff /\ SessionOff
       /\ OutboxOff /\ GatewayOff
    \/ part = "sessions" /\ Sessions!SessionInit
       /\ EngineOff /\ ImageOff /\ BrokerOff /\ SnapOff
       /\ OutboxOff /\ GatewayOff
    \/ part = "outbox" /\ Outbox!Init
       /\ EngineOff /\ ImageOff /\ BrokerOff /\ SnapOff
       /\ SessionOff /\ GatewayOff
    \/ part = "gateway" /\ GatewayInit
       /\ EngineOff /\ ImageOff /\ BrokerOff /\ SnapOff
       /\ SessionOff /\ OutboxOff

MCNext ==
    \/ part = "engine" /\ Engine!Next /\ UNCHANGED part
       /\ UNCHANGED <<imageVars, brokerVars, snapVars, sessionVars, outboxVars,
                      gatewayVars>>
    \/ part = "images" /\ Images!ImageNext /\ UNCHANGED part
       /\ UNCHANGED <<engineVars, brokerVars, snapVars, sessionVars, outboxVars,
                      gatewayVars>>
    \/ part = "broker" /\ BrokerNext /\ UNCHANGED part
       /\ UNCHANGED <<engineVars, imageVars, snapVars, sessionVars, outboxVars,
                      gatewayVars>>
    \/ part = "snapshots" /\ Snaps!SnapNext /\ UNCHANGED part
       /\ UNCHANGED <<engineVars, imageVars, brokerVars, sessionVars, outboxVars,
                      gatewayVars>>
    \/ part = "sessions" /\ Sessions!SessionNext /\ UNCHANGED part
       /\ UNCHANGED <<engineVars, imageVars, brokerVars, snapVars, outboxVars,
                      gatewayVars>>
    \/ part = "outbox" /\ Outbox!Next /\ UNCHANGED part
       /\ UNCHANGED <<engineVars, imageVars, brokerVars, snapVars, sessionVars,
                      gatewayVars>>
    \/ part = "gateway" /\ GatewayNext /\ UNCHANGED part
       /\ UNCHANGED <<engineVars, imageVars, brokerVars, snapVars, sessionVars,
                      outboxVars>>

MCSpec ==
    MCInit /\ [][MCNext]_<<part, engineVars, imageVars, brokerVars, snapVars,
                           sessionVars, outboxVars, gatewayVars>>

-----------------------------------------------------------------------------
\* What SandboxEngine promises, see there.
DiskExclusive == part = "engine" => Engine!DiskExclusive
VolumeKept == part = "engine" => Engine!VolumeKept
RecordIsTrue == part = "engine" => Engine!RecordIsTrue

\* What ProjectImages promises, see there.
ImageCharged == part = "images" => Images!ImageCharged
VerdictIsTrue == part = "images" => Images!VerdictIsTrue
ImageOutlivesVolumes == part = "images" => Images!ImageOutlivesVolumes

\* What Snapshots promises, see there.
SnapshotsKept == part = "snapshots" => Snaps!SnapshotsKept

\* What GuestSessions promises, see there.
NoStraySignal == part = "sessions" => Sessions!NoStraySignal
StreamsKept == part = "sessions" => Sessions!StreamsKept

\* What EventOutbox promises of its limits, see there.
ReceiptFits == part = "outbox" => Outbox!ReceiptFits
=============================================================================
