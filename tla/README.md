# A verification project for Agent House

Agent House runs persistent Linux microVMs for coding agents. A daemon on the
host owns sandboxes, runs and receipts in SQLite; an engine supervises one VMM
process per sandbox; a volume service keeps disks in a local journal and
replicates them to an object store; a guest agent runs sessions inside the VM.
This directory models the protocols of these parts whose failures are hard to
test, model-checks them with TLC and proves part of them with TLAPS.

`PROJECT.json` lists every part with its sources and what is or is not modelled,
the source lines of every definition, the hazards with the line where each
bites and the properties that would catch it, the runs and their mutants.

## Parts of the system

| Part | Module | What is hard about it |
| --- | --- | --- |
| Volume ownership (`ahvm-volume/owned.rs`) | `Ownership`, `VolumeOwner` | two hosts, lost and late replies, crashes around fsync |
| Local journal and replication (`local.rs`) | `DurableDisk`, `LocalJournal` | crash between publication and compaction, writes during uploads |
| Index, packs, collection (`indexed.rs`, `reclaim.rs`, `packs.rs`) | `BlockIndex` | deleting what a root still reaches, a cursor that outlives a kill |
| Object cache (`cache.rs`, `cache/metadata.rs`) | `BlockCache` | read-ahead racing deletions and uploads over one budget |
| Volume service (`service/`) | `VolumeService` | two copies of a record, devices and budget shared by volumes, restarts |
| Managed runs (`runs.rs` in daemon and store) | `ManagedRuns` | lost launch replies, restarts, siblings on one VM |
| Run events (`run_events.rs`) | `EventOutbox` | ordered delivery, limits with a reserve, deletion before delivery |
| Sandbox lifecycle (`sandboxes.rs`, `operations.rs`, `scheduler.rs`, `quotas.rs`, `thermal.rs`, `replicated.rs`) | `SandboxLifecycle` | races for one name and one quota, restart in mid-operation |
| Engine (`ahvm-engine`) | `SandboxEngine` | workers that outlive the daemon, stops that fail half way |
| Project images (three crates) | `ProjectImages` | three parties, lost answers, charges for what exists |
| Snapshots (`krucible.rs`, `snapshots.rs`) | `Snapshots` | file and row in two stores, power loss between renames |
| Worker broker (`ahvm-worker-broker`) | `WorkerBroker` | identities never given out twice over crashes and reboots |
| Guest sessions (`ahvm-forge`) | `GuestSessions` | pumps, reaper, kill and readers on one session |
| Network gateway (`ahvm-netd`) | `NetGateway` | half-closes, a full table, dial threads that outlive their flow |

How the parts meet. A sandbox of `SandboxLifecycle` is run by the engine of
`SandboxEngine`, whose workers are processes of `WorkerBroker` and whose
replicated disk comes from `VolumeService`. The disk is the journal of
`LocalJournal` under an ownership of `VolumeOwner`; its remote form is that of
`BlockIndex`, read through `BlockCache`. A managed run is a session of
`GuestSessions` as `ManagedRuns` sees it, and its end is a row update that also
appends the receipt of `EventOutbox`. Where one module stands on another it
states what it takes from it: `BlockIndex` has one owner and an exact journal,
`SandboxLifecycle` calls an engine that succeeds or fails in one step.

## Modules

Each module has one action per step between two effects that others can see:
a critical section, a transaction, a durable write, a request. A lock held
across several steps is a variable. A fault is a disjunct of the step that can
fail, bounded by a counter where the code sets no bound.

**Ownership, VolumeOwner.** `Ownership` is the promise: one fresh token per
epoch, publications by the owner one generation at a time, a tombstone that
stays. `VolumeOwner` is `owned.rs`: one action per step between two
externally visible effects (read of the head, identity file, its fsync, the
conditional write), for each local directory, with administrative enrolment and
retirement that take no directory lock. A conditional write succeeds, conflicts,
or fails with its effect unknown; with `Delay` it may also land later.
`owner.json` may be absent, torn, written or durable. The refinement mapping
reads the promise off the remote head.

**DurableDisk, LocalJournal.** `DurableDisk` promises that only a disk that does
not serve loses writes, and never a flushed one. `LocalJournal` is `local.rs`
with the eviction of `owned.rs`: journal file and synced prefix, pending
versions, the replication job in its steps (read the root, capture under the
lock, upload, publish, accept and compact), offline compaction of the remote
root, process kills and host crashes. A crash keeps a prefix of the unsynced
records: this is an assumption about the file system.

**BlockIndex.** A root over immutable pages and packs, named by their contents;
commits, reads through the base image, mark and sweep, pack compaction with its
durable cursor, and eviction. The journal is the set of writes not yet known to
be in the root.

**BlockCache.** The FIFO of verified objects within a byte budget, with
read-ahead threads, uploads, deletions and the metadata slot. A panic under the
mutex poisons it.

**VolumeService.** Two copies of a volume's record (the file and the registry),
the operation mutex as `job`, admission and its freeze after a save whose outcome
is unknown, devices, shares of the budget, the storage worker and NBD client as
processes, the sweep at start.

**ManagedRuns.** The store's run rows, the controller task of each run, the
daemon's life, the activity hold, the sweeper's stop, lifecycle routes and the
guest's sessions. One action per branch of `step`, separated where a call to the
guest or the engine leaves room for others. The per-sandbox lifecycle lock is a
variable. Run kinds are legacy, fencing and isolated.

**EventOutbox.** Streams and events as SQLite rows, one action per transaction;
the guest's journal as a number of valid records and possibly an invalid one; a
sender per stream with a shared pool of permits; a network that loses, repeats
and delays requests; a receiver that takes each number once. `delete_sandbox`
is two statements, so the daemon may also die between them. Run identities are
not reused, as `ahvm-store/src/schema.rs` demands of callers.

**SandboxLifecycle.** Handlers, operation receipts, the lock registry with its
leases, permits, quota holds, activity entries, the idle sweep, the reaper and
the startup reconciliation over the rows of one store. A request's steps are
those between two awaits that others can get in between. What a volume leaves on
the host is a state of its own (`disk`): held, doomed by a deletion that was
asked for, fenced with its objects still in the store, or gone. Retirement is two
calls, `DestroyVm` and `ReclaimVolume`, and each can fail with the other done.
The undo of a creation can fail too; what it leaves behind, a VM without a row,
is destroyed at the next start (`Reconciled`), which can fail again.

**SandboxEngine.** One name behind its reservation, with the persisted records,
the live worker, its disk, the volume it has attached, the gateway and the scan
at start. `status` takes no reservation and runs beside the rest. A worker is
`astray` when it runs and no record leads to it: its termination failed after the
handle was given up; the engine died between the spawn and the rename of
`state.json`; a broker's reply was lost, or the save of the state and then the
stop failed; or the scan passed over a directory without a record and without
`net.json`. What is overwritten or removed under a worker is noted with whether
the engine knew of the worker (`clobbered`).

**ProjectImages.** Daemon rows and charges, the supervisor's candidate and its
files, and the socket between them, on which an answer may be lost while the
request is carried on with. A capture request the daemon has given up on may so
arrive after the verdict (`late`).

**Snapshots.** A directory is the sequence of its states since it was last
synced: a host crash keeps any of them, a daemon crash the last. A bundle is
consistent when its RAM and disk carry the same number.

**WorkerBroker.** The registry file, the launcher that waits for its plan, cgroup
membership, credentials, descendants; restarts of the broker, reboots of the
host, and a restart with another cgroup root. The model starts with the registry
that a first initialisation leaves.

**GuestSessions.** The table with its placeholder, a ring of output positions,
pumps, the reaper with its wait that can fail, kill and deletion, an attached
reader, and input, whose handle a writer takes out of the session and puts back. A
byte is its position in the output.

**NetGateway.** The single loop (frames, then one visit to every flow), dial
threads and their permits, the host ends. Removing a flow drops its stream, which
ends it for the host whatever was left to write. The TCP stack is external: its
socket states are those the loop tells apart. A byte is its position in its stream.

## Runs

| Run | Instance | Shows |
| --- | --- | --- |
| volumes (915,534 states) | owners: 2 directories and a prompt store, 1 directory and 2 late requests; cache: 2 private objects, capacity 2, 2 read-aheads, a fault; service: one volume, two over one device, one share of the budget, one name | one serving owner, drained hand-off, durable owner, refinement of `Ownership`; the cache's budget and contents; records, shares and connections |
| journal (221,407) | 2 chunks, 2 writes, 3 revisions, 2 journals, a late publication | reads and barriers, marks and status, refinement of `DurableDisk` |
| background (105,556) | outbox: 1 stream, 2 records, all faults, 2 daemon deaths; index: 2 pages of 2 slots, 4 scopes | true and ordered delivery, the receipt arrives; reads see the last write, an evicted disk is lean, maintenance ends |
| runs_mixed (817,174) | 2 runs of all kinds, 2 boots | quiet and true receipts, no idle stop, siblings spared |
| runs_own (104,406) | 1 run of each kind, 2 boots, 2 daemon deaths | launched once, true receipt, held again, and an owning run ends |
| lifecycle (70,711) | 10 scopes of callers on one name and one quota, up to 3 failures, one restart | sections, exact quota, storage charged until it is released, one identity per request, execution once, rows outlive VMs, every operation ends |
| host (941,937) | engine, images, broker, snapshots, sessions, outbox with 2 streams and 1 permit, gateway | see the properties of each module |
| journal_torn, journal_refused, gateway_retired, engine_survivor, session_eof | violations | see Findings |

Three runs put several independent instances side by side (`MCVolumes`,
`MCBackgroundWork`, `MCHostServices`). The variable `part` is chosen in the first
state and says which instance moves; the variables of the others have the value
`Off`. The states are those of the instances one after the other, and a property
of an instance is required in its part only. Where TLC must check a definition
of a component under its own name, the MC module extends the component.

**Bounds.** The bounds are the least at which the interesting cases occur. Two
directories compete and a third token allows a release and a new claim. Two
directories with one delayed request are too many states for a listed run; that
instance was checked once without error over 14,146,701 states, and the theorems
cover it. Two journals allow a mark of an earlier one. Two boots allow a restart
under a run and two daemon deaths one during recovery. Two pages of two slots
allow a pack that is partly dead. The scopes of the service and of the lifecycle
each leave out what the question at hand does not need (a second name, a second
owner, a keyed request). In the lifecycle the scopes without failures also leave
out the service's own collection of a fenced volume, which nobody waits for there,
and those with three failures have one volume. In the outbox a receipt has up to 2 units and a
checkpoint 1, and the total limit is not a multiple of the receipt, as in the
code, where 128 MiB exceeds the last multiple of 300 KiB by 278528 bytes, more
than a checkpoint event can have; `OutboxAssumption` states it. Deadlock is not
checked because every instance may use up its bounded writes, boots, runs or
faults and then rests.

**Fairness.** `runs_own`: the daemon is restarted, timers pass, and the
controller's loop retries every step; strong fairness stands for calls to guest
and engine that fail for a while but not for ever. `background`: the capture and
terminal loops retry, the permit semaphore is a fair queue, and a sender that
posts again and again is answered in the end, which is an assumption about the
receiver; maintenance is called again by the service until it reports that
nothing is left. `lifecycle`: an operation's task runs on, the lock queue is
first come first served (tokio's mutex), and a daemon that stopped is started.
Nothing is assumed about expiry or retirement, which the properties name as
exceptions. An isolated run may stay unfinished by design
(`docs/MANAGED-RUNS.md`), so `OwnRunsEnd` is about the other kinds.

## Proofs

TLC shows the properties on the instances above; the following hold for every
value of the constants. Each proof has the same shape: an inductive invariant,
one lemma per action that it is kept, and the property read off it.

**Volume ownership.** Assuming only that the constants have their types
(`OwnerAssumption`), `VolumeOwnerProofs` proves

- `OwnerDurable`: the owner named by the head is always in a durable `owner.json`;
- `ImplementsOwnership`: `VolumeOwner` implements `Ownership`, with lost and
  delayed requests;
- `ExclusiveOwner`: with a prompt store an open handle is the owner, at most one
  directory serves, and ownership is not given up over unpublished writes;
- `RetiredIsFenced`: a directory with the retired marker never serves.

None of these is inductive alone. `IInv` says what makes a conditional write safe.
A head that a handle or an administrator has read is either the current one or
older (`Seen`). A delayed request that could still land is one the code would be
right to send now (`LateInv`, `Legal`). Tokens are unique to a directory, and a
token that ever owned the volume is durable and belongs to an epoch that has begun
(`IdentInv`). The program counter of a handle says which of its checks still hold
(`HandleOK`). The first two theorems follow from `IInv`, the second because every legal
replacement is a step of `Ownership`. `PromptInv` adds, for a store that answers
each request before the next: a serving directory owns the head, a directory that
is opening owns the head exactly when the head it read names it, and unpublished
writes stay with their owner. `RetiredIsFenced` rests on `MarkerInv`: a directory
with the marker is closed, or open only to be retired.

**Local journal.** For any finite set of chunks, any number of writes, revisions,
journals and late requests (`JournalAssumption`), `LocalJournalProofs` proves

- `JournalReadsWhatReplays`: what a serving disk answers is what a replay of its
  journal over the remote root would answer;
- `JournalMarksHonest`: what a remote barrier covered stays in the remote root, no
  mark runs ahead of the durable journal, and the status never over-reports;
- `JournalKeepsDisk`: `LocalJournal` implements `DurableDisk`: a crash takes back
  unflushed writes only, and the remote generation only moves forward.

The properties speak of one journal and one root. Which root a process reads,
and which one a request in flight will replace, changes under them, so the
invariant `JournalInv` (module `LocalJournalSound`) speaks of every root that can
still matter: the published one, the one the process reads, those in flight.
A record above a root's mark is newer than what that root has of its chunk, and
one up to the mark is not (`Fits`). The mark lies between what the header
acknowledges and what is durable (`Covered`, `Lim`). A root that would be
published if it arrived now has the blocks and mark of the present one, or adds
those of durable records (`Follows`). The pending versions are exactly those of
the records above the acknowledged sequence (`Exact`). What was flushed is in the
root or in a durable record (`Firm`). The chunks with unreplicated records stay
within `DirtyLimit`, because otherwise a replay would be refused (`Bounded`).

The lemmas are distributed by what they share: `LocalJournalSound` has the
invariant, the facts on files and roots that speak of no variable, and what the
invariant implies; `LocalJournalOpens` has opening, replay, crashes and eviction,
the compaction of a journal and the capture of a replication;
`LocalJournalWrites` appends, barriers, the rest of replication and failures;
`LocalJournalProofs` the initial state, all steps together and the theorems.
`Counting` collects the facts about numbers and finite sets that the other modules
use; `Rules` proves it from the library.

**Network gateway.** For any table and buffer sizes, keys, links and streams
(`GatewayConstants`: finitely many connections, numbered from 1),
`NetGatewayProofs` proves

- `RelayIsFaithful`: both streams of every connection arrive in order and once,
  and each half-close is seen only behind the last byte unless the connection was
  cut. When a flow is removed the host sees an end without a half-close; then bytes
  of the guest can be missing only if the guest has closed and has taken the whole
  of the host's stream and its end;
- `DialsAreBounded`: the count of dial threads is exact and at most `MAX_FLOWS`,
  and so is the table.

What a connection has carried is an invariant of the connection alone: what the
host got and the receive buffer together are what the guest sent, likewise the
other way, and the socket's state says which ends have been seen (`Sound`). The
gateway's own invariant (`Connected`) adds that keys are distinct and that dial
threads, also those whose flow is gone, are counted once.

**Managed runs.** For any set of runs, any number of guest boots and any number of
deaths of the daemon (`RunsAssumption`: runs are distinct from the other names the
lock can have), `ManagedRunsProofs` proves

- `RunsLaunchOnce`: the command of a run is sent to a guest at most once;
- `RunsReceiptIsTrue`: a receipt reports the end of its own process, a finished run
  leaves nothing running or on its way, a fencing run that did not succeed has lost
  its guest, and an acknowledged cancellation decides the end;
- `RunsKeepVm`: a serving daemon holds the VM of every unfinished run under the
  epoch its controller writes with, commits no idle stop under it, and fences no run
  while a sibling is unfinished.

A receipt is the only thing that survives a crash, so the invariant `RunsInv` says
what a receipt alone guarantees. A session or a pending create request of a run is
in the boot its receipt names, and a receipt that names no boot has sent nothing
(`Said`). The guest has at most one session or one pending request of a run, never
both (`WorldOk`). This is why an uncertain launch need not be repeated, and why the
one session with the run's command is the run's own. Where a controller stands tells
what it may count on after the last crash point (`Placed`): before the create request
nothing was sent, and after a cold stop the guest is gone. A worker can die, a late
request can land and a session can end between any two of these points; `Spared`
says that such a step leaves every true receipt true. The lock, the hold and the rule
that only isolated runs share a sandbox (`DaemonOk`) give `RunsKeepVm`.

**Worker broker.** For any workers, and any number of identities, failed saves, crashes
and reconfigurations (`BrokerAssumption`: the workers in use are among the known
ones), `WorkerBrokerProofs` proves

- `BrokerKnowsWorkers`: processes with a plan share an identity exactly if they belong
  to one worker, the saved counter covers every identity ever given to a process, and
  a worker reported as not alive has no process left.

Two registries matter, the saved one and the broker's copy, and between a change and
its save they differ; a crash falls back to the saved one. `BrokerInv` therefore says
`Listed` of both: a process with a plan is under its own worker's entry, with a PID and
with the root it was sent to. A drain looks for processes in their group only,
so a process that is not yet in it must be accounted for otherwise: its launch is under
way, or its intent is still in the saved registry and the next open kills it
(`SetupInv`). A launcher that waits for its plan is in no entry, but it is alone
under its identity and gets no plan once its launch is over (`ProcInv`). `OpInv` says
what each step of a launch may count on, and `Shown` that an identity the daemon asks
about has no launcher left that could still come alive. The proof takes the broker alone
(`BrokerSpec`); the parts explored beside it in the `host` run share no variable with it.

**Model-checked only.** Liveness (`ReceiptArrives`, `MaintenanceEnds`,
`OwnRunsEnd`, `OpsEnd`), which the prover does not handle, and the safety
properties of the other modules, whose inductive invariants have not been worked
out. `HandoffSafe` is what `ExclusiveOwner` and `RetiredIsFenced` state, put
together for the instance of a prompt store.

## Findings

- `journal_torn`: `LocalDisk::open` creates the journal before its header is
  written and synced. A crash in between leaves a file that every later open
  refuses. `journal_refused`: an offline compaction publishes a root before the
  journal header names it. When the process dies in between and this journal has
  not replicated yet, every later open returns a conflict. Both disagree with the
  contract in `experiments/durable-storage/EVENTUAL.md`. A torn `owner.json` is
  likewise refused at every open; it is modelled as the torn identity.
- `gateway_retired`: a SYN that finds the table full removes a socket in
  TIME_WAIT, which may still hold bytes of the guest that a slow host has not
  taken; the comment there says that none are left. The same bytes are lost without
  a full table when the guest acknowledges the last FIN, or TIME_WAIT runs out,
  before the host has taken them: the loop removes a closed socket with its buffer.
- `engine_survivor`: a stop whose termination fails has already given up the
  worker's handle; the next start copies the saved disk over the one in use. The
  other ways to lose a worker listed above lead to the same end for a local disk.
- `session_eof`: the attach loop takes the total before it asks whether the pumps
  are done, and may announce the end of a stream before its last bytes.

## Limits of the models

- *Ownership.* With delayed requests, exclusive serving and drained hand-off are
  claimed for a prompt store only; the conditional write alone guarantees less.
  `OwnedDisk::release` is exercised only by the repository's tests.
  `DiscardLocal` and opening for retirement are allowed more often than the
  volume service calls them.
- *Journal.* A crash keeps a prefix of the unsynced records.
- *Index and cache.* The format-1 `Volume`, `BatchedDisk`, the commit forced by the
  dirty limit, and deletes that land late are left out. A compaction that stops in
  the middle of one pack and resumes there (`indexed.rs:1029-1037`) needs more slots
  of one pack than these instances have; here a pass ends with a whole pack.
- *Volume service.* A failed save may or may not have replaced the file. One
  request waits at a time. An NBD client connects to the socket it was given.
  Binding, cgroups and maximal sizes are abstracted, and so is the empty journal
  directory that is made again for a volume without one.
- *Runs.* A guest that reboots ends its VMM process (`reboot=k panic=-1` in
  `ahvm-vmm/src/main.rs`), so a new boot follows a worker's death, or a restart by
  an operator while the daemon is down. If a guest could reboot in place between
  the reading of its boot identity and the landing of the session, a terminal
  receipt could leave a process behind. One daemon runs at a time (the engine's
  directory lock), so epochs matter across restarts only. Idle times and in-flight
  guards are nondeterministic choices.
- *Events.* The guest writes no record after its controller ended, and every run has
  a sandbox of its own.
- *Lifecycle.* `OneIdentity` relies on tokio's first-come-first-served mutex. A
  request that reads an identity while a deletion of it is under way, and is not
  queued for the lock then, may act on the sandbox that replaced it
  (`sandboxes.rs:304`, `replicated.rs:283`); the model does not promise otherwise.
  Storage is charged until its logical release (`docs/VOLUME-SERVICE.md`): objects
  of a released volume may stay in the store uncharged, and `UseIsCharged` asks
  then that its ledger entry stays open. A VM without a row that a failed undo
  leaves behind is charged to nobody until the next start destroys it. `OpsEnd`
  excuses an operation whose receipt the store refused to write: it stays pending
  until a restart. The limit of 64 pending receipts (`store/operations.rs:72`) is
  left out, since no instance has more than two.
- *Engine.* The network bandwidth update is left out, and `status` persists in two
  steps without the reservation. The host run has workers astray too. For them
  `DiskExclusive` promises less, which is what `engine_survivor` shows: with local
  storage a later start may overwrite the disk under such a worker. A broker still
  admits no second worker beside it, and the volume service, which looks whether
  the device is open, detaches and removes no disk under it. A paused guest that a
  failed destroy spared is alive, so `status` calls it Running; `RecordIsTrue`
  excepts it.
- *Broker.* Of the first initialisation only the result is modelled, not its search
  for populated groups. A growing identity range, `Inspect` and `Check`, and the
  validation of a plan are left out; a worker has at most one descendant.
  The unit has `KillMode=process`
  (`packaging/rust/ahvm-worker-broker.service.in`), so workers survive it.
- *Snapshots.* Forking and uploads are left out. What a crash may leave follows
  `docs/STORAGE.md` and `docs/CRASH-DISK-RECOVERY.md`.
- *Sessions.* Resizing, listing and the opening of a terminal are left out, and the
  order of locks. A writer that found the session alive may put the input handle
  back after the reaper or a deletion closed it; `InputKept` speaks of sessions
  whose exit is not published.
- *Gateway.* DNS, ICMP, the bandwidth bucket and the destination policy are left
  out; under pressure any socket in TIME_WAIT may be removed. The TCP stack
  (smoltcp) is external.
- *Images.* The contents of a manifest and the cleaning of a root file system are
  left out. A late capture of an image that is ready looks at the file again, and
  any error there, a lock held by a reader included, marks the candidate failed
  behind a ready row. `VerdictIsTrue` allows it: the bytes stay, volumes made from
  the image are not affected, and new clones are refused.
- Previews, the command line, wire formats, authentication, metrics, validation of
  JSON, rendering, HTTP details and logging are not modelled; `PROJECT.json` says
  why for each.
