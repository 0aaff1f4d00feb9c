------------------------------ MODULE Snapshots ------------------------------
(***************************************************************************)
(* Snapshots of a local VM: the checkpoint bundle in the VM's directory,   *)
(* which is what a stopped VM consists of (krucible.rs, snapshot_live and  *)
(* publish_bundle), the named snapshots copied from it into the host's     *)
(* snapshot registry, and the rows the daemon charges them to              *)
(* (ahvm-daemon/src/snapshots.rs).                                         *)
(*                                                                         *)
(* A bundle holds RAM and disk; its files come at different moments.  The  *)
(* guest's state is a number: every guest write changes RAM and disk to    *)
(* the next one, so a bundle is consistent when both numbers agree.  A     *)
(* directory is the sequence of its states since it was last synced; a     *)
(* host crash keeps any one of them, and tears files that were not synced. *)
(* A daemon crash keeps what is visible.                                   *)
(***************************************************************************)
EXTENDS Naturals, Sequences, FiniteSets

CONSTANTS
    Names,          \* snapshot names
    SnapScopes      \* the scopes explored, see MCHostServices

VARIABLES
    sscope,     \* [names, legacy, writes, faults, quota]
    vm,         \* the VM's process: [worker, ram, disk, stuck]
    vmDir,      \* states of the VM's directory: [pending, bundle, old]
    shelf,      \* states of the registry: [tmp, reg], a bundle for each name
    stock,      \* the engine's map of registered snapshots
    snapRows,   \* the daemon's rows
    daemon,     \* "down", "recovering" or "serving"
    vtask,      \* the operation on the VM: [task, name, step, well]
    rtask,      \* the operation on a snapshot: [task, name, step]
    committed,  \* history: guest state of the last bundle published
    captured,   \* history: guest state each snapshot was taken in
    restored,   \* the VM being restored: [ram, disk]
    snapFaults

snapVars == <<sscope, vm, vmDir, shelf, stock, snapRows, daemon, vtask, rtask,
              committed, captured, restored, snapFaults>>
files == <<vmDir, shelf>>
snapHistory == <<committed, captured, restored>>

Absent == [there |-> FALSE, ram |-> 0, disk |-> 0, sidecar |-> FALSE,
           synced |-> TRUE]
TornBundle == [Absent EXCEPT !.there = TRUE]
OldBundle == [there |-> TRUE, ram |-> 1, disk |-> 1, sidecar |-> TRUE,
              synced |-> TRUE]
NoTask == [task |-> "none", name |-> "", step |-> "", well |-> TRUE]
NothingRestored == [ram |-> 0, disk |-> 0]

\* The daemon is about to start; record-only deletions of an older release may
\* have left bundles without a row.
SnapInit ==
    /\ sscope \in SnapScopes
    /\ vm = [worker |-> "running", ram |-> 1, disk |-> 1, stuck |-> FALSE]
    /\ vmDir = <<[pending |-> Absent, bundle |-> Absent, old |-> Absent]>>
    /\ shelf = <<[tmp |-> [n \in Names |-> Absent],
                  reg |-> [n \in Names |-> IF n \in sscope.legacy THEN OldBundle
                                            ELSE Absent]]>>
    /\ stock = {} /\ snapRows = [n \in Names |-> "none"]
    /\ daemon = "down" /\ vtask = NoTask /\ rtask = NoTask
    /\ committed = 0 /\ captured = [n \in Names |-> 0]
    /\ restored = NothingRestored
    /\ snapFaults = sscope.faults

SnapFault == snapFaults > 0 /\ snapFaults' = snapFaults - 1
NoSnapFault == UNCHANGED snapFaults

----------------------------------------------------------------------------
(***************************************************************************)
(* Directories                                                             *)
(***************************************************************************)

Visible(dir) == dir[Len(dir)]
Dir == Visible(vmDir)
Shelf == Visible(shelf)
Synced(dir) == <<Visible(dir)>>
Put(dir, d) == IF d = Visible(dir) THEN dir ELSE Append(dir, d)

\* recover_bundle: the old generation comes back under its name when nothing
\* took its place, the name is made durable, and only then the other one goes.
Recovered(dir) ==
    LET d == Visible(dir)
        kept == IF d.bundle.there THEN d
                ELSE [d EXCEPT !.bundle = d.old, !.old = Absent]
    IN IF d.old.there THEN <<kept, [kept EXCEPT !.old = Absent]>> ELSE dir

Whole(b) == b.there /\ b.sidecar /\ b.ram = b.disk /\ b.ram # 0

----------------------------------------------------------------------------
(***************************************************************************)
(* The guest, its worker, and starting it                                  *)
(***************************************************************************)

OnVm(task, n) == vtask' = [task |-> task, name |-> n, step |-> "clean", well |-> TRUE]
VmFree == daemon = "serving" /\ vtask = NoTask

GuestRuns ==
    /\ vm.worker = "running" /\ vm.ram < sscope.writes
    /\ vm' = [vm EXCEPT !.ram = @ + 1, !.disk = vm.ram + 1]
    /\ UNCHANGED <<sscope, files, stock, snapRows, daemon, vtask, rtask,
                   snapHistory, snapFaults>>

WorkerDies ==
    /\ vm.worker # "none" /\ SnapFault
    /\ vm' = [vm EXCEPT !.worker = "none"]
    /\ UNCHANGED <<sscope, files, stock, snapRows, daemon, vtask, rtask,
                   snapHistory>>

\* start: a paused worker is resumed; a dead one boots the bundle, RAM and
\* disk, or the disk alone when there is none.
StartVm ==
    /\ VmFree
    /\ \/ /\ vm.worker = "paused"
          /\ vm' = [vm EXCEPT !.worker = "running", !.stuck = FALSE]
       \/ /\ vm.worker = "none"
          /\ LET b == Dir.bundle IN
             IF b.ram = 0
             THEN vm' = [vm EXCEPT !.worker = "running", !.ram = vm.disk,
                                   !.stuck = FALSE]
             ELSE vm' = [worker |-> "running", ram |-> b.ram, disk |-> b.disk,
                         stuck |-> FALSE]
    /\ UNCHANGED <<sscope, files, stock, snapRows, daemon, vtask, rtask,
                   snapHistory, snapFaults>>

\* stop: a snapshot, then the end of the worker.
StopVm ==
    /\ VmFree /\ vm.worker = "running" /\ ~vm.stuck
    /\ OnVm("stop", "")
    /\ UNCHANGED <<sscope, vm, files, stock, snapRows, daemon, rtask,
                   snapHistory, snapFaults>>

----------------------------------------------------------------------------
(***************************************************************************)
(* snapshot_live                                                           *)
(***************************************************************************)

At(step) == vtask.step = step
Goes(step) == vtask' = [vtask EXCEPT !.step = step]
Fails(step) == vtask' = [vtask EXCEPT !.step = step, !.well = FALSE]
vmRest == <<sscope, shelf, stock, snapRows, daemon, rtask, restored>>

\* Each step may fail; every failure goes on to wake the guest.
Failure ==
    /\ \E s \in {"clean", "pause", "native", "freeze", "publish"} : At(s)
    /\ IF vm.worker = "none" /\ (At("pause") \/ At("native"))
       THEN NoSnapFault ELSE SnapFault
    /\ Fails("wake")
    /\ UNCHANGED <<vmRest, vm, vmDir, committed, captured>>

Clean ==
    /\ At("clean")
    /\ vmDir' = Put(vmDir, [Dir EXCEPT !.pending = Absent])
    /\ Goes("pause")
    /\ UNCHANGED <<vmRest, vm, committed, captured, snapFaults>>

\* PAUSE; its reply may be lost.
PauseVm ==
    /\ At("pause") /\ vm.worker = "running"
    /\ vm' = [vm EXCEPT !.worker = "paused"]
    /\ \/ Goes("native") /\ NoSnapFault
       \/ Fails("wake") /\ SnapFault
    /\ UNCHANGED <<vmRest, vmDir, committed, captured>>

\* SNAPSHOT: the worker writes RAM, and its files move to the new directory.
NativeSnapshot ==
    /\ At("native") /\ vm.worker = "paused"
    /\ vmDir' = Put(vmDir, [Dir EXCEPT !.pending =
                   [TornBundle EXCEPT !.ram = vm.ram, !.synced = FALSE]])
    /\ captured' = [n \in Names |-> IF n = vtask.name THEN vm.ram ELSE captured[n]]
    /\ Goes("freeze")
    /\ UNCHANGED <<vmRest, vm, committed, snapFaults>>

\* The overlay is copied while the guest sleeps, and the sidecar is written.
FreezeDisk ==
    /\ At("freeze")
    /\ vmDir' = Put(vmDir, [Dir EXCEPT !.pending.disk = vm.disk,
                                          !.pending.sidecar = TRUE])
    /\ Goes("publish")
    /\ UNCHANGED <<vmRest, vm, committed, captured, snapFaults>>

\* publish_bundle, up to the new generation's own durability.
PublishBegin ==
    /\ At("publish")
    /\ LET r == Recovered(vmDir) IN
       vmDir' = Put(r, [Visible(r) EXCEPT !.pending.synced = TRUE])
    /\ Goes("aside")
    /\ UNCHANGED <<vmRest, vm, committed, captured, snapFaults>>

\* The old generation steps aside, durably; if that fails it comes back.
PublishAside ==
    /\ At("aside")
    /\ LET aside == Append(vmDir, [Dir EXCEPT !.old = Dir.bundle,
                                              !.bundle = Absent])
       IN \/ /\ vmDir' = (IF Dir.bundle.there THEN Synced(aside) ELSE vmDir)
             /\ Goes("rename") /\ NoSnapFault
          \/ /\ Dir.bundle.there /\ SnapFault
             /\ vmDir' = aside \o Recovered(aside) /\ Fails("wake")
    /\ UNCHANGED <<vmRest, vm, committed, captured>>

PublishRename ==
    /\ At("rename")
    /\ \/ /\ vmDir' = Put(vmDir, [Dir EXCEPT !.bundle = Dir.pending,
                                                !.pending = Absent])
          /\ Goes("sync") /\ NoSnapFault
       \/ /\ SnapFault /\ Fails("wake")
          /\ vmDir' = vmDir \o Recovered(vmDir)
    /\ UNCHANGED <<vmRest, vm, committed, captured>>

\* The old generation is removed only after the new name is durable.
PublishEnd ==
    /\ At("sync")
    /\ \/ /\ vmDir' = <<[Dir EXCEPT !.old = Absent]>>
          /\ committed' = Dir.bundle.ram /\ Goes("wake") /\ NoSnapFault
       \/ /\ SnapFault /\ Fails("wake")
          /\ \E d \in {vmDir, Synced(vmDir)} : vmDir' = d
          /\ UNCHANGED committed
    /\ UNCHANGED <<vmRest, vm, captured>>

\* recover_control runs after every attempt; a guest that cannot be woken is
\* not called running.
Wake ==
    /\ At("wake")
    /\ \/ /\ vm.worker # "none" /\ vm' = [vm EXCEPT !.worker = "running"]
          /\ vmDir' = IF vtask.well THEN vmDir
                      ELSE Put(vmDir, [Dir EXCEPT !.pending = Absent])
          /\ NoSnapFault
          /\ Goes(IF ~vtask.well THEN "failed"
                  ELSE IF vtask.task = "stop" THEN "kill" ELSE "copy")
       \/ /\ IF vm.worker = "none" THEN NoSnapFault ELSE SnapFault
          /\ vm' = [vm EXCEPT !.stuck = TRUE]
          /\ UNCHANGED vmDir /\ Fails("failed")
    /\ UNCHANGED <<vmRest, committed, captured>>

\* stop ends the worker; a stop that failed ends there.
KillVm ==
    /\ At("kill")
    /\ vm' = [vm EXCEPT !.worker = "none"]
    /\ vtask' = NoTask
    /\ UNCHANGED <<vmRest, vmDir, committed, captured, snapFaults>>
StopFails ==
    /\ At("failed") /\ vtask.task = "stop"
    /\ vtask' = NoTask
    /\ UNCHANGED <<vmRest, vm, vmDir, committed, captured, snapFaults>>

----------------------------------------------------------------------------
(***************************************************************************)
(* Named snapshots: create                                                 *)
(***************************************************************************)

snapRest == <<sscope, vm, vmDir, daemon, snapHistory>>
OnName(task, n, step) ==
    rtask' = [task |-> task, name |-> n, step |-> step, well |-> TRUE]

\* The lock of a name: one operation on it at a time.  Operations other than a
\* create are also taken one at a time here; they touch different entries.
NameFree(n) == daemon = "serving" /\ vtask.name # n /\ rtask = NoTask
Charges == {n \in Names : snapRows[n] # "none"}

\* reserve_snapshot and the row come before any file.  A VM that is busy or
\* not running makes the engine refuse, and the row is cleaned up.
CreateSnapshot(n) ==
    /\ NameFree(n) /\ snapRows[n] = "none"
    /\ Cardinality(Charges) < sscope.quota
    /\ snapRows' = [snapRows EXCEPT ![n] = "creating"]
    /\ IF VmFree /\ vm.worker = "running" /\ ~vm.stuck
       THEN OnVm("create", n) /\ UNCHANGED rtask
       ELSE OnName("cleanup", n, "mark") /\ UNCHANGED vtask
    /\ UNCHANGED <<snapRest, shelf, stock, snapFaults>>

\* The bundle is copied aside; an unowned entry of that name is a conflict.
CopyBundle ==
    /\ At("copy")
    /\ LET n == vtask.name IN
       \/ /\ ~Shelf.reg[n].there /\ Goes("shelve") /\ NoSnapFault
          /\ shelf' = Put(shelf, [Shelf EXCEPT !.tmp[n] =
                                       [Dir.bundle EXCEPT !.synced = FALSE]])
       \/ /\ IF Shelf.reg[n].there THEN NoSnapFault ELSE SnapFault
          /\ Fails("failed")
          /\ shelf' = Put(shelf, [Shelf EXCEPT !.tmp[n] = Absent])
    /\ UNCHANGED <<snapRest, stock, snapRows, rtask>>

Shelved(n, b) == [Shelf EXCEPT !.reg[n] = b, !.tmp[n] = Absent]

\* A bug to catch: the copy's files are not flushed before it is named.
ShelveUnsynced ==
    /\ At("shelve")
    /\ shelf' = <<Shelved(vtask.name, Shelf.tmp[vtask.name])>>
    /\ stock' = stock \union {vtask.name}
    /\ Goes("ready") /\ NoSnapFault
    /\ UNCHANGED <<snapRest, snapRows, rtask>>

\* Files, then the name, then the name's durability.
Shelve ==
    /\ At("shelve")
    /\ LET n == vtask.name
           named == Shelved(n, [Shelf.tmp[n] EXCEPT !.synced = TRUE])
       IN \/ /\ shelf' = <<named>> /\ stock' = stock \union {n}
             /\ Goes("ready") /\ NoSnapFault
          \/ /\ SnapFault /\ Fails("failed") /\ UNCHANGED stock
             /\ \E s \in {[Shelf EXCEPT !.tmp[n] = Absent], named} :
                   shelf' = Put(shelf, s)
    /\ UNCHANGED <<snapRest, snapRows, rtask>>

\* The row is told last; if that fails it stays as it is for recovery.
MarkReady ==
    /\ At("ready")
    /\ \/ snapRows' = [snapRows EXCEPT ![vtask.name] = "ready"] /\ NoSnapFault
       \/ UNCHANGED snapRows /\ SnapFault
    /\ vtask' = NoTask
    /\ UNCHANGED <<snapRest, files, stock, rtask>>

\* An engine error: the partial publication still belongs to the charged row.
CreateFails ==
    /\ At("failed") /\ vtask.task = "create" /\ rtask = NoTask
    /\ OnName("cleanup", vtask.name, "mark") /\ vtask' = NoTask
    /\ UNCHANGED <<snapRest, shelf, stock, snapRows, snapFaults>>

----------------------------------------------------------------------------
(***************************************************************************)
(* Delete, cleanup and restore                                             *)
(***************************************************************************)

DeleteSnapshot(n) ==
    /\ NameFree(n) /\ snapRows[n] # "none"
    /\ OnName("cleanup", n, "mark")
    /\ UNCHANGED <<snapRest, shelf, stock, snapRows, vtask, snapFaults>>

CleanupMark ==
    /\ rtask.step = "mark"
    /\ snapRows' = [snapRows EXCEPT ![rtask.name] = "deleting"]
    /\ rtask' = [rtask EXCEPT !.step = "files"]
    /\ UNCHANGED <<snapRest, shelf, stock, vtask, snapFaults>>

\* remove_snapshot_bundle; an error in the middle leaves the row deleting, and
\* during startup it ends the daemon.
CleanupFiles ==
    /\ rtask.step = "files"
    /\ LET n == rtask.name
           bare == [Shelf EXCEPT !.reg[n] = Absent, !.tmp[n] = Absent]
       IN \/ /\ shelf' = <<bare>> /\ stock' = stock \ {n}
             /\ rtask' = [rtask EXCEPT !.step = "row"]
             /\ NoSnapFault /\ UNCHANGED daemon
          \/ /\ SnapFault /\ rtask' = NoTask /\ UNCHANGED stock
             /\ \E s \in {Shelf, [Shelf EXCEPT !.reg[n] = Absent], bare} :
                   shelf' = Put(shelf, s)
             /\ daemon' = IF daemon = "recovering" THEN "down" ELSE daemon
    /\ UNCHANGED <<sscope, vm, vmDir, snapHistory, snapRows, vtask>>

CleanupRow ==
    /\ rtask.step = "row"
    /\ snapRows' = [snapRows EXCEPT ![rtask.name] = "none"]
    /\ captured' = [captured EXCEPT ![rtask.name] = 0]
    /\ rtask' = NoTask
    /\ UNCHANGED <<sscope, vm, vmDir, daemon, committed, restored, shelf, stock,
                   vtask, snapFaults>>

\* restore: only a ready snapshot that the engine knows and can read.
Restore(n) ==
    /\ NameFree(n) /\ snapRows[n] = "ready"
    /\ n \in stock /\ Shelf.reg[n].sidecar
    /\ OnName("restore", n, "root")
    /\ UNCHANGED <<snapRest, shelf, stock, snapRows, vtask, snapFaults>>

\* The disk is copied, then the worker boots with the bundle's memory.
RestoreRoot ==
    /\ rtask.step = "root"
    /\ restored' = [ram |-> 0, disk |-> Shelf.reg[rtask.name].disk]
    /\ rtask' = [rtask EXCEPT !.step = "memory"]
    /\ UNCHANGED <<sscope, vm, vmDir, daemon, committed, captured, shelf, stock,
                   snapRows, vtask, snapFaults>>
RestoreMemory ==
    /\ rtask.step = "memory"
    /\ \/ /\ NoSnapFault /\ rtask' = [rtask EXCEPT !.step = "booted"]
          /\ restored' = [restored EXCEPT !.ram = Shelf.reg[rtask.name].ram]
       \/ SnapFault /\ rtask' = NoTask /\ restored' = NothingRestored
    /\ UNCHANGED <<sscope, vm, vmDir, daemon, committed, captured, shelf, stock,
                   snapRows, vtask>>
RestoreEnds ==
    /\ rtask.step = "booted" /\ rtask' = NoTask /\ restored' = NothingRestored
    /\ UNCHANGED <<sscope, vm, vmDir, daemon, committed, captured, shelf, stock,
                   snapRows, vtask, snapFaults>>

----------------------------------------------------------------------------
(***************************************************************************)
(* Crashes and startup                                                     *)
(***************************************************************************)

crashed ==
    /\ daemon' = "down" /\ vtask' = NoTask /\ rtask' = NoTask /\ stock' = {}
    /\ UNCHANGED <<sscope, snapRows, committed, captured>>
    /\ restored' = NothingRestored

DaemonCrash ==
    /\ daemon # "down" /\ SnapFault /\ crashed
    /\ UNCHANGED <<vm, files>>

Tear(b) == IF b.synced THEN b ELSE TornBundle

HostCrash ==
    /\ SnapFault /\ crashed
    /\ vm' = [vm EXCEPT !.worker = "none"]
    /\ \E i \in DOMAIN vmDir :
          vmDir' = <<[f \in DOMAIN Dir |-> Tear(vmDir[i][f])]>>
    /\ \E i \in DOMAIN shelf :
          shelf' = <<[k \in {"tmp", "reg"} |->
                        [n \in Names |-> Tear(shelf[i][k][n])]]>>

\* sweep_debris: recover the bundle, then drop what was never published.
Swept(dir) ==
    LET r == Recovered(dir) IN
    Put(r, [Visible(r) EXCEPT !.pending = Absent])

\* The engine opens: debris goes, the registry is read, a surviving worker is
\* adopted and woken.
EngineOpen ==
    /\ daemon = "down" /\ daemon' = "recovering"
    /\ vmDir' = Swept(vmDir)
    /\ shelf' = Put(shelf, [Shelf EXCEPT !.tmp = [n \in Names |-> Absent]])
    /\ stock' = {n \in Names : Shelf.reg[n].there}
    /\ \/ /\ NoSnapFault
          /\ vm' = IF vm.worker = "none" THEN vm
                   ELSE [vm EXCEPT !.worker = "running", !.stuck = FALSE]
       \/ /\ vm.worker # "none" /\ SnapFault /\ vm' = [vm EXCEPT !.stuck = TRUE]
    /\ UNCHANGED <<sscope, snapRows, vtask, rtask, snapHistory>>

\* recover: an interrupted creation is finished or undone by what is readable.
RecoverRow(n) ==
    /\ daemon = "recovering" /\ rtask = NoTask
    /\ snapRows[n] \in {"creating", "deleting"}
    /\ IF snapRows[n] = "creating" /\ n \in stock /\ Shelf.reg[n].sidecar
       THEN snapRows' = [snapRows EXCEPT ![n] = "ready"] /\ UNCHANGED rtask
       ELSE OnName("cleanup", n, "mark") /\ UNCHANGED snapRows
    /\ UNCHANGED <<snapRest, shelf, stock, vtask, snapFaults>>

\* Bundles no row owns are retired, and requests are accepted.
RecoverOrphans ==
    /\ daemon = "recovering" /\ rtask = NoTask
    /\ \A n \in Names : snapRows[n] \in {"none", "ready"}
    /\ LET orphans == {n \in stock : snapRows[n] = "none"} IN
       /\ shelf' = IF orphans = {} THEN shelf
                   ELSE <<[Shelf EXCEPT !.reg = [n \in Names |->
                             IF n \in orphans THEN Absent ELSE Shelf.reg[n]]]>>
       /\ stock' = stock \ orphans
    /\ daemon' = "serving"
    /\ UNCHANGED <<sscope, vm, vmDir, snapRows, vtask, rtask, snapHistory,
                   snapFaults>>

SnapNext ==
    \/ GuestRuns \/ WorkerDies \/ StartVm \/ StopVm
    \/ Failure \/ Clean \/ PauseVm \/ NativeSnapshot \/ FreezeDisk
    \/ PublishBegin \/ PublishAside \/ PublishRename \/ PublishEnd
    \/ Wake \/ KillVm \/ StopFails
    \/ \E n \in sscope.names :
                        \/ CreateSnapshot(n) \/ DeleteSnapshot(n) \/ Restore(n)
                        \/ RecoverRow(n)
    \/ CopyBundle \/ Shelve \/ MarkReady \/ CreateFails
    \/ CleanupMark \/ CleanupFiles \/ CleanupRow
    \/ RestoreRoot \/ RestoreMemory \/ RestoreEnds
    \/ DaemonCrash \/ HostCrash \/ EngineOpen \/ RecoverOrphans

----------------------------------------------------------------------------
(***************************************************************************)
(* A snapshot called ready is the machine it was taken of: whole on disk,  *)
(* RAM and disk of the one moment it was captured in, through crashes of   *)
(* the daemon and of the host; and a VM restored from it is that machine.  *)
(***************************************************************************)
SnapshotFaithful ==
    /\ \A n \in Names : snapRows[n] = "ready" =>
          Whole(Shelf.reg[n]) /\ Shelf.reg[n].ram = captured[n]
    /\ restored.ram # 0 => restored.ram = restored.disk

(***************************************************************************)
(* The recovery point is never lost: once a bundle was published, a VM     *)
(* that is started outside of a publication finds a whole bundle, of that  *)
(* generation or a later one, whatever crashed in between.                 *)
(***************************************************************************)
RecoveryPointKept ==
    committed # 0 /\ daemon # "down" /\ vtask = NoTask =>
       Whole(Dir.bundle) /\ Dir.bundle.ram >= committed

(***************************************************************************)
(* Bytes are always somebody's: while requests are served, every file in   *)
(* the registry, complete or partial, belongs to a row that charges it.    *)
(***************************************************************************)
BytesCharged ==
    daemon = "serving" =>
       \A n \in Names : Shelf.reg[n].there \/ Shelf.tmp[n].there =>
          snapRows[n] # "none"

(***************************************************************************)
(* Rows and files of the registry agree, in both directions.               *)
(***************************************************************************)
RowsMatchFiles == SnapshotFaithful /\ BytesCharged

(***************************************************************************)
(* Nothing that was captured is lost or misreported: the registry's rows   *)
(* tell the truth about its files, and a VM keeps its recovery point.      *)
(***************************************************************************)
SnapshotsKept == RowsMatchFiles /\ RecoveryPointKept
=============================================================================
