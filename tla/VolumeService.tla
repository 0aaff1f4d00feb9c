--------------------------- MODULE VolumeService ---------------------------
(***************************************************************************)
(* The volume supervisor (ahvm-volume, service): one process that admits   *)
(* replicated disks to a host, lends each an NBD device and a share of the *)
(* journal and cache budget, runs a storage worker and an NBD client per   *)
(* attached disk, and takes the share back when a disk is evicted or       *)
(* deleted.                                                                *)
(*                                                                         *)
(* A volume has two copies of its record: disk (record.json) and mem (the  *)
(* entry of the registry map).  They differ between an assignment and its  *)
(* persist, and after a persist that failed; admission reads the first,    *)
(* every other operation the second.  job is the holder of the volume's    *)
(* operation mutex, one step of which is one durable or external effect.   *)
(* sweep is the supervisor's recovery job before it has the mutex.  The    *)
(* VM, the NBD client and the storage worker are processes of their own.   *)
(***************************************************************************)
EXTENDS Naturals, FiniteSets

CONSTANTS Volumes, Scopes

(* A scope is one small host: its devices (tried in order), how many disks *)
(* its journal budget and its logical budget hold, how many unreclaimed    *)
(* records it keeps, the volumes the engine knows, those it launches a VM  *)
(* on, the requests it sends and how many faults befall the host.          *)
VARIABLES scope, faults,
          disk, mem,      \* the durable record and the entry's record
          frozen,         \* admission_failed
          job,            \* the operation that holds the volume's mutex
          waiting,        \* the request waiting for a collector to yield
          sweep,          \* the recovery job not yet holding the mutex
          failures,       \* consecutive failed recoveries
          nbd,            \* the connection of each device
          worker,         \* the storage worker runs
          going,          \* the NBD client let go of its pipe, not yet joined
          vm,             \* the connection the VM has open
          ready,          \* the engine may launch a VM on the disk
          journal         \* the volume's local journal

vars == <<scope, faults, disk, mem, frozen, job, waiting, sweep, failures,
          nbd, worker, going, vm, ready, journal>>
host == <<nbd, worker, going, vm, ready, journal>>

Devices == 1 .. scope.devices
Calls == {"prepare", "attach", "bind", "sync", "detach", "delete"}
NoConn == [vol |-> "none", n |-> 0]
Idle == [op |-> "idle", at |-> "", then |-> "", cancelled |-> FALSE]
Starting(op, at) == [Idle EXCEPT !.op = op, !.at = at]

Blank == [known |-> FALSE, device |-> 1, evicted |-> FALSE, prepared |-> FALSE,
          deleted |-> FALSE, reclaimed |-> FALSE, released |-> FALSE,
          desired |-> FALSE, gc |-> FALSE,
          worker |-> FALSE, client |-> 0, vm |-> FALSE]
NoSweep == [on |-> FALSE, snap |-> Blank, healthy |-> FALSE,
            cancelled |-> FALSE]

Conn(v, n) == [vol |-> v, n |-> n]
Processes(r) == r.worker \/ r.client # 0 \/ r.vm

Resident(r) == r.known /\ ~r.reclaimed /\ ~r.evicted
HoldsDevice(r) == r.known /\ (Resident(r) \/ r.worker \/ r.client # 0)
Retained(r) == r.known /\ ~r.reclaimed /\ ~r.released

Init ==
    /\ scope \in Scopes /\ faults = scope.faults
    /\ disk = [v \in Volumes |-> Blank] /\ mem = disk
    /\ frozen = FALSE
    /\ job = [v \in Volumes |-> Idle]
    /\ waiting = [v \in Volumes |-> "none"]
    /\ sweep = [v \in Volumes |-> NoSweep]
    /\ failures = [v \in Volumes |-> 0]
    /\ nbd = [d \in Devices |-> NoConn]
    /\ worker = [v \in Volumes |-> FALSE]
    /\ going = [v \in Volumes |-> 0]
    /\ vm = [v \in Volumes |-> NoConn]
    /\ ready = [v \in Volumes |-> FALSE]
    /\ journal = [v \in Volumes |-> "none"]

-----------------------------------------------------------------------------
(* Saving a record: a new file, fsync, rename, fsync of the directory.  A  *)
(* save that reports an error has replaced the file or has not.            *)

Save(v, r, Ok, Err) ==
    \/ disk' = [disk EXCEPT ![v] = r] /\ UNCHANGED faults /\ Ok
    \/ /\ faults > 0 /\ faults' = faults - 1
       /\ disk' \in {disk, [disk EXCEPT ![v] = r]}
       /\ Err

Go(v, at) == job' = [job EXCEPT ![v].at = at] /\ UNCHANGED failures
GoDetach(v, then) ==
    /\ job' = [job EXCEPT ![v].at = "clear", ![v].then = then]
    /\ UNCHANGED failures
Finish(v) ==
    /\ job' = [job EXCEPT ![v] = Idle]
    /\ failures' = [failures EXCEPT ![v] = 0]
(* Only a failed recovery is counted; a failed request leaves the count.   *)
Fail(v) ==
    /\ job' = [job EXCEPT ![v] = Idle]
    /\ failures' = IF job[v].op # "recover" THEN failures
                   ELSE [failures EXCEPT ![v] = IF @ < 2 THEN @ + 1 ELSE @]

At(v, at) == job[v].op # "idle" /\ job[v].at = at

(* Most steps change the record in memory first and then save it: after a  *)
(* failed save the two copies may differ.                                  *)
Commit(v, r, Next) ==
    /\ mem' = [mem EXCEPT ![v] = r]
    /\ Save(v, r, Next, Fail(v))
    /\ UNCHANGED frozen
(* The steps that lend or return a device and a budget save first, under   *)
(* the registry lock; a failed save freezes admission until a restart.     *)
Publish(v, r, Next) ==
    Save(v, r, mem' = [mem EXCEPT ![v] = r] /\ Next /\ UNCHANGED frozen,
               frozen' = TRUE /\ Fail(v) /\ UNCHANGED mem)

quiet == <<scope, waiting, sweep>>

-----------------------------------------------------------------------------
(* Admission reads the record file of every entry of the map.              *)

Others(v) == {w \in Volumes \ {v} : mem[w].known}
FreeDevices(v) ==
    {d \in Devices : \A w \in Others(v) : HoldsDevice(disk[w]) => disk[w].device # d}
Fits(v) ==
    /\ Cardinality({w \in Others(v) : Resident(disk[w])}) < scope.resident
    /\ Cardinality({w \in Others(v) : Retained(disk[w])}) < scope.logical
FirstFree(v) == CHOOSE d \in FreeDevices(v) : \A e \in FreeDevices(v) : d <= e
Admissible(v) == Fits(v) /\ FreeDevices(v) # {} /\ nbd[FirstFree(v)] = NoConn

(* entry, for an unknown volume: prepare takes a device and the budgets,   *)
(* retire records a tombstone that borrows neither.  Both put the entry in *)
(* the map before they save it.                                            *)
NewEntry(v, r) ==
    /\ mem' = [mem EXCEPT ![v] = r]
    /\ Save(v, r, UNCHANGED frozen, frozen' = TRUE)
    /\ UNCHANGED <<job, failures>> /\ UNCHANGED quiet /\ UNCHANGED host

Admit(v) ==
    /\ ~mem[v].known /\ ~frozen
    /\ Cardinality({w \in Others(v) : disk[w].known /\ ~disk[w].reclaimed})
           < scope.records
    /\ Admissible(v)
    /\ NewEntry(v, [Blank EXCEPT !.known = TRUE, !.device = FirstFree(v)])

RetireUnknown(v) ==
    /\ ~mem[v].known /\ ~frozen
    /\ NewEntry(v, [Blank EXCEPT !.known = TRUE, !.deleted = TRUE, !.evicted = TRUE])

Starts(op) ==
    CASE op = "prepare" -> "import" [] op = "attach" -> "reserve"
      [] op = "sync" -> "reserve"   [] op = "bind" -> "bind"
      [] op = "detach" -> "release" [] op = "delete" -> "tomb"

(* request and foreground: a free mutex is taken; behind an announced      *)
(* collection the request cancels it and waits; behind anything else it is *)
(* refused.  Either way it has moved the ticket that a sampled or running  *)
(* recovery compares.  A request of the engine other than bind ends its    *)
(* right to launch a VM.                                                   *)
Collecting(v) == /\ job[v].op = "recover" /\ job[v].at # "begin"
                 /\ ~mem[v].deleted /\ mem[v].gc /\ ~mem[v].desired

MoveTicket(v) ==
    /\ job' = [job EXCEPT ![v].cancelled = job[v].op = "recover"]
    /\ sweep' = [sweep EXCEPT ![v].cancelled = sweep[v].on]

Request(v, op) ==
    /\ op \in scope.calls[v] /\ mem[v].known /\ waiting[v] = "none"
    /\ op = "prepare" => ~frozen
    /\ op # "delete" => ~mem[v].deleted
    /\ ready' = [ready EXCEPT ![v] = @ /\ op = "bind"]
    /\ \/ /\ job[v] = Idle
          /\ job' = [job EXCEPT ![v] = Starting(op, Starts(op))]
          /\ UNCHANGED <<waiting, sweep>>
       \/ /\ Collecting(v)
          /\ MoveTicket(v)
          /\ waiting' = [waiting EXCEPT ![v] = op]
       \/ /\ job[v] # Idle /\ ~Collecting(v)
          /\ MoveTicket(v)
          /\ UNCHANGED waiting
    /\ UNCHANGED <<scope, faults, disk, mem, frozen, failures, nbd, worker,
                   going, vm, journal>>

HandOver(v) ==
    /\ waiting[v] # "none" /\ job[v] = Idle
    /\ job' = [job EXCEPT ![v] = Starting(waiting[v], Starts(waiting[v]))]
    /\ waiting' = [waiting EXCEPT ![v] = "none"]
    /\ UNCHANGED <<scope, faults, disk, mem, frozen, sweep, failures>>
    /\ UNCHANGED host

(* Ten seconds passed behind the collector.                                *)
GiveUp(v) ==
    /\ waiting[v] # "none" /\ job[v] # Idle
    /\ waiting' = [waiting EXCEPT ![v] = "none"]
    /\ UNCHANGED <<scope, faults, disk, mem, frozen, job, sweep, failures>>
    /\ UNCHANGED host

(* A step that calls out of the process can fail and change nothing.       *)
CallsOut == {"import", "ready", "joined", "cut", "drop", "collect", "evict",
             "discard", "reclaim"}
StepFails(v) ==
    /\ job[v].op # "idle" /\ job[v].at \in CallsOut /\ faults > 0
    /\ faults' = faults - 1
    /\ Fail(v)
    /\ going' = [going EXCEPT ![v] = IF job[v].at = "joined" THEN 0 ELSE @]
    /\ UNCHANGED <<scope, disk, mem, frozen, waiting, sweep, nbd, worker, vm, ready,
                   journal>>

-----------------------------------------------------------------------------
(* What a check of the host sees.                                          *)

Dev(v) == mem[v].device
Held(d) == \E w \in Volumes : vm[w] # NoConn /\ mem[w].device = d
OwnConn(v) == mem[v].client # 0 /\ nbd[Dev(v)] = Conn(v, mem[v].client)
Inspects(v) == ~mem[v].evicted /\ OwnConn(v) /\ mem[v].worker /\ worker[v]
VmRuns(v) == ~mem[v].evicted /\ vm[v] # NoConn

effects == <<frozen, quiet, host>>

(* prepare: the import, its base and the enrolment are one remote effect.  *)
Import(v) ==
    /\ At(v, "import")
    /\ IF mem[v].prepared
       THEN Finish(v) /\ UNCHANGED <<faults, disk, mem, frozen>>
       ELSE Commit(v, [mem[v] EXCEPT !.prepared = TRUE], Finish(v))
    /\ UNCHANGED <<quiet, host>>

(* reserve_residency, for attach and sync.                                 *)
ReserveSkipped(v) ==
    /\ At(v, "reserve")
    /\ IF ~mem[v].prepared \/ (job[v].op = "attach" /\ VmRuns(v)) THEN Fail(v)
       ELSE Go(v, IF job[v].op = "attach" THEN "want" ELSE "inspect")
    /\ UNCHANGED <<faults, disk, mem, frozen, quiet, host>>

ReserveResidency(v) ==
    /\ At(v, "reserve")
    /\ IF ~mem[v].prepared \/ (job[v].op = "attach" /\ VmRuns(v))
       THEN Fail(v) /\ UNCHANGED <<faults, disk, mem, frozen>>
       ELSE LET on == IF job[v].op = "attach" THEN "want" ELSE "inspect" IN
            IF ~mem[v].evicted
            THEN Go(v, on) /\ UNCHANGED <<faults, disk, mem, frozen>>
            ELSE IF frozen \/ ~Admissible(v)
            THEN Fail(v) /\ UNCHANGED <<faults, disk, mem, frozen>>
            ELSE Publish(v, [mem[v] EXCEPT !.evicted = FALSE,
                                           !.device = FirstFree(v)], Go(v, on))
    /\ UNCHANGED <<quiet, host>>

Want(v) ==
    /\ At(v, "want")
    /\ Commit(v, [mem[v] EXCEPT !.desired = TRUE, !.gc = FALSE], Go(v, "inspect"))
    /\ UNCHANGED <<quiet, host>>

Bind(v) ==
    /\ At(v, "bind")
    /\ IF Inspects(v) /\ VmRuns(v)
       THEN Commit(v, [mem[v] EXCEPT !.vm = TRUE], Finish(v))
       ELSE Fail(v) /\ UNCHANGED <<faults, disk, mem, frozen>>
    /\ UNCHANGED <<quiet, host>>

-----------------------------------------------------------------------------
(* detach: refuse while anything but the NBD client holds the device, cut  *)
(* the connection, stop the worker, then forget the processes.             *)

AfterDetach(v) == IF job[v].then = "done" THEN Finish(v) ELSE Go(v, job[v].then)

ClearUnlooking(v) ==
    /\ At(v, "clear")
    /\ IF mem[v].evicted THEN AfterDetach(v)
       ELSE IF nbd[Dev(v)] = NoConn THEN Go(v, "drop")
       ELSE IF OwnConn(v) THEN Go(v, "cut")
       ELSE Fail(v)
    /\ UNCHANGED <<faults, disk, mem, effects>>

Clear(v) ==
    /\ At(v, "clear")
    /\ IF mem[v].evicted THEN AfterDetach(v)
       ELSE IF VmRuns(v) \/ Held(Dev(v)) THEN Fail(v)
       ELSE IF nbd[Dev(v)] = NoConn THEN Go(v, "drop")
       ELSE IF OwnConn(v) THEN Go(v, "cut")
       ELSE Fail(v)
    /\ UNCHANGED <<faults, disk, mem, effects>>

Cut(v) ==
    /\ At(v, "cut")
    /\ nbd' = [nbd EXCEPT ![Dev(v)] = NoConn]
    /\ Go(v, "drop")
    /\ UNCHANGED <<faults, disk, mem, frozen, quiet, worker, going, vm, ready, journal>>

DropProcesses(v) ==
    /\ At(v, "drop")
    /\ worker' = [worker EXCEPT ![v] = @ /\ ~mem[v].worker]
    /\ going' = [going EXCEPT ![v] = 0]
    /\ Commit(v, [mem[v] EXCEPT !.worker = FALSE, !.client = 0, !.vm = FALSE],
              AfterDetach(v))
    /\ UNCHANGED <<quiet, nbd, vm, ready, journal>>

(* What follows an attach: a sync of an unwanted disk detaches it again.   *)
AfterAttach(v) ==
    IF job[v].op = "sync" /\ ~mem[v].desired
    THEN GoDetach(v, "done") /\ UNCHANGED ready
    ELSE Finish(v) /\ ready' = [ready EXCEPT ![v] = @ \/ job[v].op = "attach"]

(* attach: keep a healthy attachment; otherwise detach, start the worker   *)
(* (it blocks on its pipe until its identity is saved) and then the client *)
(* (the same).                                                             *)
Inspect(v) ==
    /\ At(v, "inspect")
    /\ IF Inspects(v) THEN AfterAttach(v)
                      ELSE GoDetach(v, "spawn") /\ UNCHANGED ready
    /\ UNCHANGED <<faults, disk, mem, frozen, quiet, nbd, worker, going, vm, journal>>

SpawnWorker(v) ==
    /\ At(v, "spawn")
    /\ Commit(v, [mem[v] EXCEPT !.worker = TRUE], Go(v, "ready"))
    /\ worker' = [worker EXCEPT ![v] = job'[v].at = "ready"]
    /\ journal' = [journal EXCEPT ![v] =
                      IF worker'[v] /\ @ = "none" THEN "empty" ELSE @]
    /\ UNCHANGED <<quiet, nbd, going, vm, ready>>

(* A process identity (pid, start time, boot) names no earlier process.    *)
FreshClient(v) ==
    CHOOSE n \in 1 .. 6 : n \notin {vm[v].n, nbd[Dev(v)].n, going[v],
                                    mem[v].client, disk[v].client}

SpawnClient(v) ==
    /\ At(v, "ready")
    /\ IF worker[v]
       THEN /\ Commit(v, [mem[v] EXCEPT !.client = FreshClient(v)], Go(v, "joined"))
            /\ going' = [going EXCEPT ![v] =
                            IF job'[v].at = "joined" THEN FreshClient(v) ELSE 0]
       ELSE Fail(v) /\ UNCHANGED <<faults, disk, mem, frozen, going>>
    /\ UNCHANGED <<quiet, nbd, worker, vm, ready, journal>>

Joined(v) ==
    /\ At(v, "joined") /\ going[v] = 0
    /\ IF Inspects(v) THEN AfterAttach(v) ELSE Fail(v) /\ UNCHANGED ready
    /\ UNCHANGED <<faults, disk, mem, frozen, quiet, nbd, worker, going, vm, journal>>


-----------------------------------------------------------------------------
(* The detach request: the disk becomes eligible for collection.           *)

Release(v) ==
    /\ At(v, "release")
    /\ IF VmRuns(v) THEN Fail(v) /\ UNCHANGED <<faults, disk, mem, frozen>>
       ELSE Commit(v, [mem[v] EXCEPT !.desired = FALSE], GoDetach(v, "eligible"))
    /\ UNCHANGED <<quiet, host>>

Eligible(v) ==
    /\ At(v, "eligible")
    /\ Commit(v, [mem[v] EXCEPT !.gc = TRUE], Finish(v))
    /\ UNCHANGED <<quiet, host>>

(* delete and retire: the tombstone first, then the processes, then        *)
(* release_deleted_local: the local journal, and last the device, the      *)
(* budgets and the name.                                                   *)
Tomb(v) ==
    /\ At(v, "tomb")
    /\ Commit(v, [mem[v] EXCEPT !.deleted = TRUE, !.desired = FALSE],
              IF ~mem[v].deleted \/ Processes(mem[v]) THEN GoDetach(v, "free")
                                                     ELSE Go(v, "free"))
    /\ UNCHANGED <<quiet, host>>

Free(v) ==
    /\ At(v, "free")
    /\ IF Resident(mem[v]) /\ mem[v].prepared THEN GoDetach(v, "discard")
                                              ELSE Go(v, "discard")
    /\ UNCHANGED <<faults, disk, mem, effects>>

AfterFree(v) == IF job[v].op = "delete" THEN Finish(v) ELSE Go(v, "reclaim")

Discard(v) ==
    /\ At(v, "discard")
    /\ IF mem[v].desired \/ Processes(mem[v]) THEN Fail(v) /\ UNCHANGED journal
       ELSE IF mem[v].released /\ mem[v].evicted THEN AfterFree(v) /\ UNCHANGED journal
       ELSE IF worker[v] THEN Fail(v) /\ UNCHANGED journal
       ELSE Go(v, "freed") /\ journal' = [journal EXCEPT ![v] = "none"]
    /\ UNCHANGED <<faults, disk, mem, frozen, quiet, nbd, worker, going, vm, ready>>

Freed(v) ==
    /\ At(v, "freed")
    /\ Publish(v, [mem[v] EXCEPT !.released = TRUE, !.evicted = TRUE], AfterFree(v))
    /\ UNCHANGED <<quiet, host>>

(* The remote tombstone and one sweep of the namespace; only an observed   *)
(* empty listing completes it.                                             *)
Reclaim(v) ==
    /\ At(v, "reclaim")
    /\ \/ Finish(v) /\ UNCHANGED <<faults, disk, mem, frozen>>
       \/ Commit(v, [mem[v] EXCEPT !.reclaimed = TRUE], Finish(v))
    /\ UNCHANGED <<quiet, host>>

(* collect_offline and evict.  A pass saves the record; the pass that ends *)
(* a cycle goes on to evict unless a request asked for the disk.           *)
Busy(v) == VmRuns(v) \/ nbd[Dev(v)] # NoConn \/ Held(Dev(v)) \/ worker[v]

Collect(v) ==
    /\ At(v, "collect")
    /\ IF Busy(v) \/ job[v].cancelled
       THEN Fail(v) /\ UNCHANGED <<faults, disk, mem, frozen, journal>>
       ELSE /\ journal' = [journal EXCEPT ![v] = IF @ = "none" THEN "empty" ELSE @]
            /\ \/ Commit(v, mem[v], Finish(v))
               \/ Commit(v, mem[v], Go(v, "evict"))
    /\ UNCHANGED <<quiet, nbd, worker, going, vm, ready>>

Evict(v) ==
    /\ At(v, "evict")
    /\ IF job[v].cancelled THEN Finish(v) /\ UNCHANGED journal
       ELSE IF Busy(v) \/ Processes(mem[v]) THEN Fail(v) /\ UNCHANGED journal
       ELSE Go(v, "evicted") /\ journal' = [journal EXCEPT ![v] = "none"]
    /\ UNCHANGED <<faults, disk, mem, frozen, quiet, nbd, worker, going, vm, ready>>

EvictPublish(v) ==
    /\ At(v, "evicted")
    /\ Publish(v, [mem[v] EXCEPT !.evicted = TRUE], Finish(v))
    /\ UNCHANGED <<quiet, host>>

-----------------------------------------------------------------------------
(* The supervisor's sweep.  A job is admitted to one of two pools before   *)
(* its thread exists: one cleanup at a time, live recoveries apart.  The   *)
(* health probe runs without the mutex, on a snapshot of the record; what  *)
(* follows is done only if the record still equals the snapshot.           *)

CleaningUp(v) == \/ sweep[v].on /\ ~sweep[v].snap.desired
                 \/ job[v].op = "recover" /\ ~mem[v].desired

Due(r) == /\ r.known
          /\ r.deleted \/ ~r.evicted
          /\ r.deleted \/ r.gc \/ r.desired \/ r.worker \/ r.client # 0

Sweep(v) ==
    /\ job[v] = Idle /\ ~sweep[v].on /\ Due(mem[v])
    /\ mem[v].desired \/ \A w \in Volumes : ~CleaningUp(w)
    /\ sweep' = [sweep EXCEPT ![v] =
           [on |-> TRUE, snap |-> mem[v], healthy |-> mem[v].desired /\ Inspects(v),
            cancelled |-> FALSE]]
    /\ UNCHANGED <<scope, faults, disk, mem, frozen, job, waiting, failures, host>>

Enter(v) ==
    /\ sweep[v].on
    /\ sweep' = [sweep EXCEPT ![v] = NoSweep]
    /\ IF job[v] # Idle \/ mem[v] # sweep[v].snap THEN UNCHANGED <<job, failures>>
       ELSE IF sweep[v].healthy
       THEN failures' = [failures EXCEPT ![v] = 0] /\ UNCHANGED job
       ELSE /\ job' = [job EXCEPT ![v] = 
                  [Starting("recover", "begin") EXCEPT !.cancelled = sweep[v].cancelled]]
            /\ UNCHANGED failures
    /\ UNCHANGED <<scope, faults, disk, mem, frozen, waiting, host>>

CleanupStep(v) ==
    IF mem[v].deleted THEN "free"
    ELSE IF mem[v].prepared /\ mem[v].gc /\ ~mem[v].evicted THEN "collect"
    ELSE "done"

(* recover: a volume nobody wants is detached and cleaned up; a wanted one *)
(* that fails its inspection is retried while its worker lives, and then   *)
(* its VM is stopped before the disk is connected again.                   *)
Recover(v) ==
    /\ At(v, "begin")
    /\ IF ~mem[v].desired
       THEN /\ IF Processes(mem[v]) THEN GoDetach(v, CleanupStep(v))
               ELSE IF CleanupStep(v) = "done" THEN Finish(v)
               ELSE Go(v, CleanupStep(v))
            /\ UNCHANGED vm
       ELSE IF Inspects(v) THEN Finish(v) /\ UNCHANGED vm
       ELSE IF mem[v].worker /\ worker[v] /\ failures[v] < 2
       THEN Fail(v) /\ UNCHANGED vm
       ELSE GoDetach(v, "inspect") /\ vm' = [vm EXCEPT ![v] = NoConn]
    /\ UNCHANGED <<faults, disk, mem, frozen, quiet, nbd, worker, going, ready, journal>>

-----------------------------------------------------------------------------
(* The other processes.  A client that was let go joins the device if its  *)
(* worker still serves and the device is free, and gives up with that      *)
(* worker; a connection ends with its worker.  The engine launches a VM    *)
(* after a successful attach.                                              *)

state == <<scope, disk, mem, frozen, job, waiting, sweep, failures>>

ClientJoins(v) ==
    /\ going[v] # 0
    /\ going' = [going EXCEPT ![v] = 0]
    /\ IF worker[v] /\ nbd[Dev(v)] = NoConn
       THEN nbd' = [nbd EXCEPT ![Dev(v)] = Conn(v, going[v])]
       ELSE UNCHANGED nbd
    /\ UNCHANGED <<state, faults, worker, vm, ready, journal>>

ClientDrops(d) ==
    /\ nbd[d] # NoConn
    /\ ~worker[nbd[d].vol] \/ mem[nbd[d].vol].client # nbd[d].n
    /\ nbd' = [nbd EXCEPT ![d] = NoConn]
    /\ UNCHANGED <<state, faults, worker, going, vm, ready, journal>>

ClientDies(d) ==
    /\ nbd[d] # NoConn /\ faults > 0 /\ faults' = faults - 1
    /\ nbd' = [nbd EXCEPT ![d] = NoConn]
    /\ UNCHANGED <<state, worker, going, vm, ready, journal>>

WorkerDies(v) ==
    /\ worker[v] /\ faults > 0 /\ faults' = faults - 1
    /\ worker' = [worker EXCEPT ![v] = FALSE]
    /\ UNCHANGED <<state, nbd, going, vm, ready, journal>>

VmOpens(v) ==
    /\ v \in scope.guests /\ ready[v] /\ vm[v] = NoConn /\ nbd[Dev(v)] # NoConn
    /\ vm' = [vm EXCEPT ![v] = nbd[Dev(v)]]
    /\ UNCHANGED <<state, faults, nbd, worker, going, ready, journal>>

VmWrites(v) ==
    /\ vm[v] # NoConn /\ nbd[Dev(v)] = vm[v] /\ worker[vm[v].vol]
    /\ journal' = [journal EXCEPT ![vm[v].vol] = "used"]
    /\ UNCHANGED <<state, faults, nbd, worker, going, vm, ready>>

VmExits(v) ==
    /\ vm[v] # NoConn
    /\ vm' = [vm EXCEPT ![v] = NoConn]
    /\ UNCHANGED <<state, faults, nbd, worker, going, ready, journal>>

(* The supervisor dies, or is restarted because admission is frozen, and   *)
(* Service::open rebuilds the map from the records.                        *)
(* Workers, clients and VMs outlive it; a child still on its pipe does not.*)
Restart ==
    /\ IF frozen THEN UNCHANGED faults ELSE faults > 0 /\ faults' = faults - 1
    /\ mem' = disk /\ frozen' = FALSE
    /\ job' = [v \in Volumes |-> Idle]
    /\ waiting' = [v \in Volumes |-> "none"]
    /\ sweep' = [v \in Volumes |-> NoSweep]
    /\ failures' = [v \in Volumes |-> 0]
    /\ UNCHANGED <<scope, disk, host>>

Step(v) ==
    \/ Import(v) \/ ReserveResidency(v) \/ Want(v) \/ Bind(v)
    \/ Clear(v) \/ Cut(v) \/ DropProcesses(v)
    \/ Inspect(v) \/ SpawnWorker(v) \/ SpawnClient(v) \/ Joined(v)
    \/ Release(v) \/ Eligible(v)
    \/ Tomb(v) \/ Free(v) \/ Discard(v) \/ Freed(v) \/ Reclaim(v)
    \/ Collect(v) \/ Evict(v) \/ EvictPublish(v)
    \/ Recover(v)

Next ==
    \/ \E v \in Volumes : Step(v)
    \/ \E v \in scope.volumes : Admit(v)
    \/ \E v \in scope.volumes : RetireUnknown(v)
    \/ \E v \in Volumes, op \in Calls : Request(v, op)
    \/ \E v \in Volumes : HandOver(v)
    \/ \E v \in Volumes : GiveUp(v)
    \/ \E v \in Volumes : StepFails(v)
    \/ \E v \in Volumes : Sweep(v)
    \/ \E v \in Volumes : Enter(v)
    \/ \E v \in Volumes : ClientJoins(v)
    \/ \E d \in Devices : ClientDrops(d)
    \/ \E d \in Devices : ClientDies(d)
    \/ \E v \in Volumes : WorkerDies(v)
    \/ \E v \in Volumes : VmOpens(v)
    \/ \E v \in Volumes : VmWrites(v)
    \/ \E v \in Volumes : VmExits(v)
    \/ Restart

Spec == Init /\ [][Next]_vars

-----------------------------------------------------------------------------
(* The disks that occupy a share of the host: on either copy of the record *)
(* or by the bytes a guest left in the local journal.                      *)
Occupies(v) == Resident(mem[v]) \/ Resident(disk[v]) \/ journal[v] = "used"

(* The journal and logical budgets are never overdrawn, and no two disks   *)
(* occupy one device, through any order of admissions, evictions,          *)
(* deletions, failed saves and restarts: entry and reserve_residency read  *)
(* the saved records under the registry lock, evict and                    *)
(* release_deleted_local give a share back only after the local bytes are  *)
(* gone, and a save whose outcome is unknown freezes both.                 *)
SharesKept ==
    /\ Cardinality({v \in Volumes : Occupies(v)}) <= scope.resident
    /\ Cardinality({v \in Volumes : \E r \in {mem[v], disk[v]} :
                       Retained(r) /\ ~r.deleted}) <= scope.logical
    /\ \A v, w \in Volumes : \A r \in {mem[v], disk[v]}, q \in {mem[w], disk[w]} :
           v # w /\ HoldsDevice(r) /\ HoldsDevice(q) => r.device # q.device

(* Whatever step the supervisor dies at, the records it left are records   *)
(* Service::open accepts: no contradictory binding, no device assigned     *)
(* twice, and no live connection on a device no record accounts for.       *)
RestartAccepts ==
    /\ \A v \in Volumes : LET r == disk[v] IN
           r.known =>
              /\ r.released \/ r.reclaimed => r.deleted /\ ~r.desired /\ ~Processes(r)
              /\ r.evicted => (r.prepared \/ r.deleted) /\ ~r.desired /\ ~Processes(r)
    /\ \A v, w \in Volumes :
           v # w /\ HoldsDevice(disk[v]) /\ HoldsDevice(disk[w])
               => disk[v].device # disk[w].device
    /\ \A d \in Devices : nbd[d] # NoConn =>
           \/ \E v \in Volumes : HoldsDevice(disk[v]) /\ disk[v].device = d
           \/ ~worker[nbd[d].vol]

(* The records account for the host, before and after any crash.           *)
RecordsSound == SharesKept /\ RestartAccepts

(* A running VM keeps the connection it opened: the disk under it is its   *)
(* own volume, and it is never given a replacement connection, though the  *)
(* VM may open the device between a detach's check and its disconnect.     *)
NoReplacedConnection ==
    \A v \in Volumes : vm[v] # NoConn =>
        vm[v].vol = v /\ nbd[mem[v].device] \in {NoConn, vm[v]}

=============================================================================
