----------------------------- MODULE SandboxEngine -----------------------------
(***************************************************************************)
(* The engine behind one sandbox name: KrucibleBackend with its two storage *)
(* modes, its per-name reservation (OpGuard), the persisted sandbox.json    *)
(* and state.json, the VMM worker processes that outlive the daemon, their  *)
(* control socket, the supervised gateway process (network.rs) and the      *)
(* startup scan that adopts what survived. A reservation admits one         *)
(* operation at a time; status() takes none and runs beside it. The volume  *)
(* service behind a replicated disk is only what the engine asks of it.     *)
(***************************************************************************)
EXTENDS Naturals, FiniteSetsExt

CONSTANTS
    Vols,       \* identities a create may mint: volume ids, each used once
    Scopes,     \* the instances: storage mode, configuration, calls, failures
    None

VARIABLES
    scope,      \* the instance of this behaviour, never changed
    up,         \* the daemon process runs
    mem,        \* LiveRec of the name in Inner.sandboxes, or None
    disk,       \* sandbox.json, or None
    dir,        \* the sandbox directory exists
    state,      \* state.json: the worker process it names, 0 if none
    live,       \* VMM processes that run
    paused,     \* those whose vCPUs are paused
    net,        \* Networks: the entry, its VM, the gateway process, net.json
    vols,       \* what the volume service holds of each volume
    op,         \* the operation that holds the name's reservation
    probe,      \* a record status() is about to persist
    astray,     \* workers that run and the engine has lost track of
    clobbered,  \* whose disk was overwritten or removed while it ran
    faults

files == <<disk, dir, state>>
procs == <<live, paused, astray>>
vars == <<scope, up, mem, files, procs, net, vols, op, probe, clobbered, faults>>

Procs == 1..5
Idle == [kind |-> None, pc |-> "idle", rec |-> None, gen |-> 0, ok |-> TRUE]
Unborn == [prep |-> FALSE, att |-> FALSE, dirty |-> {}, del |-> FALSE]
NoNet == [entry |-> FALSE, vm |-> 0, gw |-> FALSE, file |-> FALSE]

Replicated == scope.storage = "replicated"

Init ==
    /\ scope \in Scopes
    /\ up = TRUE /\ mem = None
    /\ disk = None /\ dir = FALSE /\ state = 0
    /\ live = {} /\ paused = {} /\ astray = {}
    /\ net = NoNet /\ vols = [v \in Vols |-> Unborn]
    /\ op = Idle /\ probe = None
    /\ clobbered = {} /\ faults = 0

-----------------------------------------------------------------------------
(* Failures, and the pieces operations share.                               *)

Fails(k) == k \in scope.fail /\ faults < scope.faults /\ faults' = faults + 1
Fine == UNCHANGED faults

\* A record as sandbox.json holds it: no handle, no flags.
Durable(r) == [st |-> r.st, deleting |-> r.deleting, vol |-> r.vol, prep |-> r.prep]

\* persist_record: temporary file, fsync, rename, fsync of the directory. When
\* the last one fails the record is replaced and the caller sees an error.
Save(r, saved, lost) ==
    \/ disk' = Durable(r) /\ saved /\ Fine
    \/ Fails("persist") /\ disk' \in {disk, Durable(r)} /\ lost

\* Its result ignored.
TrySave(r) == disk' = Durable(r) \/ disk' = disk

Finish == op' = Idle
Goto(l) == op' = [op EXCEPT !.pc = l]

\* A process number nothing refers to.
FreshProc ==
    Min(Procs \ (live \cup {state, op.gen, net.vm}
                 \cup (IF mem = None THEN {} ELSE {mem.handle})))

\* An identity nothing refers to and the volume service never saw.
Unused == {v \in Vols : /\ vols[v] = Unborn
                        /\ \A r \in {mem, disk, probe} : r # None => r.vol # v}

Alive(r) == r.handle \in live

Dead(g) ==
    live' = live \ {g} /\ paused' = paused \ {g} /\ astray' = astray \ {g}

\* WorkerHandle::terminate. A child of this daemon is killed and reaped; an
\* adopted process may survive SIGTERM, and a broker may not confirm the death.
\* The caller keeps the handle of a survivor, or drops it.
Terminate(g, owned, dead, survived) ==
    \/ Dead(g) /\ dead /\ Fine
    \/ /\ g \in live /\ (~owned \/ scope.broker)
       /\ Fails("term") /\ UNCHANGED <<live, paused>>
       /\ survived
Drops(g) == astray' = astray \cup {g}

\* recover_control: STATUS, and RESUME if the guest is paused. A lost reply
\* leaves open whether the command had its effect.
Recover(g, resumed, lost) ==
    \/ g \in live /\ paused' = paused \ {g} /\ resumed /\ Fine
    \/ g \notin live /\ UNCHANGED paused /\ lost /\ Fine
    \/ g \in live /\ Fails("ctl") /\ paused' \in {paused, paused \ {g}} /\ lost

\* One request to the volume service; an error does not say it had no effect.
Ask(v, after, granted, refused) ==
    \/ vols' = [vols EXCEPT ![v] = after] /\ granted /\ Fine
    \/ Fails("volume") /\ vols' \in {vols, [vols EXCEPT ![v] = after]} /\ refused

\* The service looks only for the worker state.json names.
InUseNamed(v, workers) == vols[v].att /\ state \in workers

\* The volume service's own check: a device is in use while a process has it open,
\* whether or not a file names that process.
InUse(v, workers) == vols[v].att /\ workers # {}

\* A device in use is not disconnected; a delete is recorded all the same.
AskDetach(v, granted, refused) ==
    IF InUse(v, live) THEN UNCHANGED vols /\ refused /\ Fine
    ELSE Ask(v, [vols[v] EXCEPT !.att = FALSE], granted, refused)
AskDelete(v, granted, refused) ==
    IF InUse(v, live) THEN vols' = [vols EXCEPT ![v].del = TRUE] /\ refused /\ Fine
    ELSE Ask(v, [vols[v] EXCEPT !.del = TRUE, !.att = FALSE], granted, refused)

\* Networks::remove: the entry goes, then the gateway ends; it may survive like
\* any other worker. Its caller stops at the error, or ignores it.
NetGone == net' = [net EXCEPT !.entry = FALSE, !.vm = 0, !.gw = FALSE]
NetLeft == net' = [net EXCEPT !.entry = FALSE, !.vm = 0]
NetTried == NetGone \/ ("net" \in scope.fail /\ net.gw /\ NetLeft)

\* Whether the engine keeps track of these workers.
Whose(workers, strays) ==
    {k \in {"known", "astray"} :
        (IF k = "known" THEN workers \ strays ELSE workers \cap strays) # {}}

\* A disk is overwritten or removed while these workers run on it.
Overwritten(workers, strays) == clobbered' = clobbered \cup Whose(workers, strays)

\* The sandbox directory goes with everything in it.
Erased ==
    /\ dir' = FALSE /\ disk' = None /\ state' = 0
    /\ Overwritten(live, astray)

-----------------------------------------------------------------------------
(* create, and the boot it shares with start.                               *)

\* create on local storage: a new directory and a fresh overlay in it.
CreateLocal ==
    /\ up /\ op = Idle /\ "create" \in scope.calls /\ ~Replicated
    /\ mem = None /\ Unused # {}
    /\ dir' = TRUE /\ Overwritten(live, astray)
    /\ op' = [Idle EXCEPT !.kind = "create", !.pc = "net", !.rec =
                 [st |-> "running", deleting |-> FALSE, needs |-> FALSE,
                  handle |-> 0, owned |-> TRUE, spared |-> FALSE,
                  vol |-> Min(Unused), prep |-> FALSE]]
    /\ net' = [net EXCEPT !.file = dir /\ net.file]
    /\ UNCHANGED <<scope, up, mem, disk, state, procs, vols, probe, faults>>

\* create_replicated: a new identity, never over an existing directory, and the
\* intent durable before anything is asked of the volume service.
CreateReplicated ==
    LET r == [st |-> "creating", deleting |-> FALSE, needs |-> FALSE, handle |-> 0,
              owned |-> TRUE, spared |-> FALSE, vol |-> Min(Unused), prep |-> FALSE]
    IN /\ up /\ op = Idle /\ "create" \in scope.calls /\ Replicated
       /\ mem = None /\ ~dir /\ Unused # {}
       /\ dir' = TRUE /\ mem' = r /\ net' = [net EXCEPT !.file = FALSE]
       /\ Save(r, op' = [Idle EXCEPT !.kind = "create", !.pc = "begin"], Finish)
       /\ UNCHANGED <<scope, up, state, procs, vols, probe, clobbered>>

\* The end of a boot that failed, m being the record it leaves in memory. A
\* replicated create saves it once more, as Failed.
BootFailed(m) ==
    /\ Finish
    /\ IF op.kind = "create" /\ Replicated
       THEN LET r == [m EXCEPT !.st = "failed"] IN mem' = r /\ TrySave(r)
       ELSE mem' = m /\ UNCHANGED disk

\* write_worker_spec, with the worker's file policy, comes first in a boot. When it
\* fails the network is as it was.
WriteSpecFails ==
    /\ op.pc = "net" /\ Fails("boot") /\ Goto("unbooted")
    /\ UNCHANGED <<scope, up, mem, files, procs, net, vols, probe, clobbered>>

\* Networks::prepare: the gateway is launched, or the live one adopted; the VM
\* the entry watched is forgotten, also when the launch then fails.
PrepareNet ==
    /\ op.pc = "net" /\ scope.net
    /\ \/ /\ net' = [entry |-> TRUE, vm |-> 0, gw |-> TRUE, file |-> TRUE]
          /\ Goto("launch") /\ Fine
       \/ /\ net' \in {[net EXCEPT !.vm = 0], [net EXCEPT !.vm = 0, !.file = TRUE]}
          /\ Fails("boot") /\ Goto("unbooted")
    /\ UNCHANGED <<scope, up, mem, files, procs, vols, probe, clobbered>>

\* The worker process starts and state.json names it; the network monitor then
\* watches it, if the entry is still there. A broker refuses a second worker.
Launch ==
    LET g == FreshProc IN
    /\ op.pc = IF scope.net THEN "launch" ELSE "net"
    /\ \/ /\ scope.broker => live = {}
          /\ live' = live \cup {g} /\ state' = g
          /\ net' = IF net.entry THEN [net EXCEPT !.vm = g] ELSE net
          /\ op' = [op EXCEPT !.pc = "ready", !.gen = g]
          /\ Fine /\ UNCHANGED astray
       \/ /\ \/ scope.broker /\ live # {} /\ Fine
             \/ Fails("boot")
          /\ NetTried /\ Goto("unbooted")
          /\ UNCHANGED <<live, astray, state>>
    /\ UNCHANGED <<scope, up, mem, disk, dir, paused, vols, probe, clobbered>>

\* The broker starts the worker and its reply is lost, or state.json cannot be
\* written and the worker not stopped either: the boot fails and the worker runs.
LaunchLost ==
    /\ op.pc = IF scope.net THEN "launch" ELSE "net"
    /\ scope.broker /\ live = {} /\ Fails("reply")
    /\ live' = {FreshProc} /\ Drops(FreshProc)
    /\ NetTried /\ Goto("unbooted")
    /\ UNCHANGED <<scope, up, mem, files, paused, vols, probe, clobbered>>

\* boot_worker returned an error: a replicated start asks for its disk to be
\* detached again, a local create removes the directory it made, a local start just
\* fails.
Unbooted ==
    /\ op.pc = "unbooted"
    /\ IF Replicated
       THEN /\ AskDetach(mem.vol, TRUE, TRUE)
            /\ BootFailed(mem)
            /\ UNCHANGED <<dir, state, net, clobbered>>
       ELSE /\ Finish /\ Fine /\ UNCHANGED <<mem, vols>>
            /\ IF op.kind = "create" THEN NetTried /\ Erased
               ELSE UNCHANGED <<files, net, clobbered>>
    /\ UNCHANGED <<scope, up, procs, probe>>

\* wait_ready, the guest's network setup, and for a replicated disk bind.
Ready ==
    /\ op.pc = "ready"
    /\ \/ op.gen \in live /\ Goto("publish") /\ Fine
       \/ op.gen \notin live /\ Goto("unready") /\ Fine
       \/ op.gen \in live /\ Fails("ready") /\ Goto("unready")
    /\ UNCHANGED <<scope, up, mem, files, procs, net, vols, probe, clobbered>>

\* start_replicated: a worker that never became ready is terminated, and its disk
\* detached only when it is dead, if the service answers; otherwise its handle is
\* kept.
UnreadyReplicated ==
    /\ op.pc = "unready" /\ Replicated
    /\ Terminate(op.gen, TRUE,
         /\ \/ vols' = [vols EXCEPT ![mem.vol].att = InUse(mem.vol, live')]
            \/ "volume" \in scope.fail /\ UNCHANGED vols
         /\ NetTried /\ BootFailed(mem),
         /\ BootFailed([mem EXCEPT !.handle = op.gen, !.owned = TRUE])
         /\ UNCHANGED <<vols, net, astray>>)
    /\ UNCHANGED <<scope, up, dir, state, probe, clobbered>>

\* Local storage: terminated, the result ignored; create removes the directory.
UnreadyLocal ==
    /\ op.pc = "unready" /\ ~Replicated
    /\ Terminate(op.gen, TRUE, TRUE, Drops(op.gen))
    /\ Finish
    /\ IF op.kind = "create"
       THEN /\ dir' = FALSE /\ disk' = None /\ state' = 0 /\ NetTried
            /\ Overwritten(live', astray')
       ELSE UNCHANGED <<files, net, clobbered>>
    /\ UNCHANGED <<scope, up, mem, vols, probe>>

\* The booted worker becomes the record's. A local create enters the map only
\* with a durable record; every other boot reports Running even if the record
\* could not be written.
Publish ==
    LET r == [(IF op.kind = "create" /\ ~Replicated THEN op.rec ELSE mem) EXCEPT
                 !.st = "running", !.handle = op.gen, !.owned = TRUE,
                 !.spared = FALSE, !.needs = IF Replicated THEN @ ELSE FALSE]
    IN /\ op.pc = "publish" /\ Finish
       /\ IF op.kind = "create" /\ ~Replicated
          THEN \/ disk' = Durable(r) /\ mem' = r /\ Fine /\ UNCHANGED procs
               \/ /\ Fails("persist") /\ disk' \in {disk, Durable(r)}
                  /\ mem' = mem
                  /\ \/ Dead(op.gen)
                     \/ /\ scope.broker /\ "term" \in scope.fail /\ op.gen \in live
                        /\ UNCHANGED <<live, paused>> /\ Drops(op.gen)
          ELSE /\ mem' = r /\ UNCHANGED procs
               /\ Save(r, TRUE, TRUE)
       /\ UNCHANGED <<scope, up, dir, state, net, vols, probe, clobbered>>

-----------------------------------------------------------------------------
(* start and the resident pause.                                            *)

\* resume_resident's guard: a paused or half-snapshotted guest still alive.
Resident == (mem.st = "paused" \/ mem.needs) /\ Alive(mem)

\* start, stop and resume_paused first wake a resident guest.
Wake(k) ==
    /\ up /\ op = Idle /\ k \in scope.calls \cap {"start", "stop", "resume"}
    /\ mem # None /\ Resident
    /\ k = "resume" => mem.st = "paused"
    /\ op' = [Idle EXCEPT !.kind = k, !.pc = "wake"]
    /\ UNCHANGED <<scope, up, mem, files, procs, net, vols, probe, clobbered, faults>>

WakeControl ==
    /\ op.pc = "wake"
    /\ Recover(mem.handle, Goto("woken"), Finish)
    /\ UNCHANGED <<scope, up, mem, files, live, astray, net, vols, probe, clobbered>>

\* Running is durable before memory says so.
Woken ==
    LET r == [mem EXCEPT !.st = "running", !.needs = FALSE] IN
    /\ op.pc = "woken"
    /\ Save(r, mem' = r /\ IF op.kind = "stop" THEN Goto("stop") ELSE Finish,
               Finish /\ UNCHANGED mem)
    /\ UNCHANGED <<scope, up, dir, state, procs, net, vols, probe, clobbered>>

\* start of a local sandbox whose worker is gone: the dead handle is dropped and
\* the bundle's frozen root copied over the overlay, if there is a bundle.
StartLocal ==
    LET r == [mem EXCEPT !.handle = 0, !.st = IF @ = "running" THEN "failed" ELSE @] IN
    /\ up /\ op = Idle /\ "start" \in scope.calls /\ mem # None /\ ~Replicated
    /\ ~Alive(mem) /\ dir
    /\ mem' = r
    /\ IF r.st = "failed" THEN TrySave(r) ELSE UNCHANGED disk
    /\ Overwritten(live, astray)
    /\ op' = [Idle EXCEPT !.kind = "start", !.pc = "net"]
    /\ UNCHANGED <<scope, up, dir, state, procs, net, vols, probe, faults>>

\* start_replicated: a live worker only needs its record put right; otherwise
\* Failed is durable before the disk is touched.
StartReplicated ==
    /\ up /\ Replicated /\ mem # None /\ ~Resident /\ ~mem.deleting
    /\ \/ op = Idle /\ "start" \in scope.calls
       \/ op.kind = "create" /\ op.pc = "begin"
    /\ LET kind == IF op = Idle THEN "start" ELSE op.kind
           r == [mem EXCEPT !.st = IF Alive(mem) THEN "running" ELSE "failed",
                            !.handle = IF Alive(mem) THEN @ ELSE 0]
       IN /\ mem' = r
          /\ Save(r, op' = IF Alive(mem) THEN Idle
                           ELSE [Idle EXCEPT !.kind = kind,
                                   !.pc = IF mem.prep THEN "attach" ELSE "prepare"],
                     Finish)
    /\ UNCHANGED <<scope, up, dir, state, procs, net, vols, probe, clobbered>>

\* prepare is idempotent; a volume it prepared is remembered as such.
PrepareVolume ==
    LET r == [mem EXCEPT !.prep = TRUE] IN
    /\ op.pc = "prepare"
    /\ \/ /\ ~vols[mem.vol].del
          /\ vols' = [vols EXCEPT ![mem.vol].prep = TRUE] /\ mem' = r
          /\ Save(r, Goto("attach"), Finish)
       \/ /\ Fails("volume") /\ ~vols[mem.vol].del /\ BootFailed(mem)
          /\ vols' \in {vols, [vols EXCEPT ![mem.vol].prep = TRUE]}
       \/ vols[mem.vol].del /\ BootFailed(mem) /\ Fine /\ UNCHANGED vols
    /\ UNCHANGED <<scope, up, dir, state, procs, net, probe, clobbered>>

\* The service gives out no deleted volume, nor one whose VM it knows to run.
AttachVolume ==
    /\ op.pc = "attach"
    /\ IF vols[mem.vol].del \/ state \in live THEN BootFailed(mem) /\ Fine /\ UNCHANGED vols
       ELSE Ask(mem.vol, [vols[mem.vol] EXCEPT !.att = TRUE],
                Goto("net") /\ UNCHANGED <<mem, disk>>, BootFailed(mem))
    /\ UNCHANGED <<scope, up, dir, state, procs, net, probe, clobbered>>

\* pause_resident: the intent is durable before PAUSE is sent. Of the desktops only
\* one with a GPU has a control socket.
Pause ==
    LET r == [mem EXCEPT !.st = "paused"] IN
    /\ up /\ op = Idle /\ "pause" \in scope.calls
    /\ scope.desktop => scope.gpu
    /\ mem # None /\ Alive(mem) /\ mem.st = "running"
    /\ Save(r, mem' = r /\ op' = [Idle EXCEPT !.kind = "pause", !.pc = "pausing"],
               UNCHANGED <<mem, op>>)
    /\ UNCHANGED <<scope, up, dir, state, procs, net, vols, probe, clobbered>>

\* PAUSE, then STATUS if the reply was lost; a guest that is not known to be
\* paused is resumed, and one that cannot be resumed is Failed.
Pausing ==
    /\ op.pc = "pausing" /\ Finish
    /\ \/ /\ mem.handle \in live /\ paused' = paused \cup {mem.handle}
          /\ Fine /\ UNCHANGED <<mem, disk>>
       \/ \E back \in BOOLEAN :
          /\ \/ mem.handle \notin live /\ ~back /\ Fine /\ UNCHANGED paused
             \/ /\ mem.handle \in live /\ Fails("ctl")
                /\ paused' \in {paused \ {mem.handle}}
                               \cup IF back THEN {} ELSE {paused \cup {mem.handle}}
          /\ LET r == [mem EXCEPT !.needs = ~back,
                                  !.st = IF back THEN "running" ELSE "failed"]
             IN mem' = r /\ TrySave(r)
    /\ UNCHANGED <<scope, up, dir, state, live, astray, net, vols, probe, clobbered>>

-----------------------------------------------------------------------------
(* stop, the live snapshot it takes, and destroy.                           *)

\* stop of a name without a worker only records it.
StopNoWorker ==
    LET r == [mem EXCEPT !.st = "stopped"] IN
    /\ up /\ op = Idle /\ "stop" \in scope.calls /\ mem # None /\ ~Replicated
    /\ mem.handle = 0 /\ dir
    /\ mem' = r /\ Save(r, TRUE, TRUE)
    /\ UNCHANGED <<scope, up, dir, state, procs, net, vols, op, probe, clobbered>>

Stop ==
    /\ up /\ mem # None /\ ~mem.deleting
    /\ Replicated \/ mem.handle # 0
    /\ \/ op = Idle /\ "stop" \in scope.calls /\ ~Resident
       \/ op.pc = "stop"
    /\ op' = [Idle EXCEPT !.kind = "stop",
                 !.pc = IF Replicated \/ scope.desktop THEN "sync" ELSE "checkpoint"]
    /\ UNCHANGED <<scope, up, mem, files, procs, net, vols, probe, clobbered, faults>>

\* The guest flushes its disk: always for a replicated disk that is alive, and in
\* place of a checkpoint for a desktop.
GuestSync ==
    /\ op.pc = "sync"
    /\ \/ Replicated /\ ~Alive(mem) /\ Goto("kill") /\ Fine
       \/ Alive(mem) /\ mem.handle \notin paused /\ Goto("kill") /\ Fine
       \/ ~Replicated /\ ~Alive(mem) /\ Finish /\ Fine
       \/ Alive(mem) /\ mem.handle \in paused /\ Finish /\ Fine
       \/ Alive(mem) /\ Fails("ctl") /\ Finish
    /\ UNCHANGED <<scope, up, mem, files, procs, net, vols, probe, clobbered>>

\* create_snapshot on a running sandbox.
Snapshot ==
    /\ up /\ op = Idle /\ "snapshot" \in scope.calls /\ ~Replicated /\ ~scope.desktop
    /\ mem # None /\ mem.st = "running" /\ mem.handle # 0
    /\ op' = [Idle EXCEPT !.kind = "snapshot", !.pc = "checkpoint"]
    /\ UNCHANGED <<scope, up, mem, files, procs, net, vols, probe, clobbered, faults>>

\* snapshot_live up to its publication: PAUSE, SNAPSHOT, copy, publish_bundle.
Checkpoint ==
    /\ op.pc = "checkpoint"
    /\ \/ /\ Alive(mem) /\ paused' = paused \cup {mem.handle} /\ Fine
          /\ op' = [op EXCEPT !.pc = "uncheckpoint"]
       \/ /\ \/ ~Alive(mem) /\ Fine /\ UNCHANGED paused
             \/ Alive(mem) /\ Fails("ctl") /\ paused' \in {paused, paused \cup {mem.handle}}
          /\ op' = [op EXCEPT !.pc = "uncheckpoint", !.ok = FALSE]
    /\ UNCHANGED <<scope, up, mem, files, live, astray, net, vols, probe, clobbered>>

\* Every snapshot attempt ends with recover_control; when that fails the sandbox
\* is not advertised as Running although its process lives.
Uncheckpoint ==
    LET r == [mem EXCEPT !.needs = TRUE, !.st = "failed"] IN
    /\ op.pc = "uncheckpoint"
    /\ Recover(mem.handle,
         /\ IF op.ok /\ op.kind = "stop" THEN Goto("kill") ELSE Finish
         /\ UNCHANGED <<mem, disk>>,
         Finish /\ mem' = r /\ TrySave(r))
    /\ UNCHANGED <<scope, up, dir, state, live, astray, net, vols, probe, clobbered>>

\* stop of a local sandbox: the handle leaves the record before terminate, and
\* does not come back when terminate fails.
KillLocal ==
    /\ op.pc = "kill" /\ op.kind = "stop" /\ ~Replicated
    /\ mem' = [mem EXCEPT !.handle = 0]
    /\ Terminate(mem.handle, mem.owned, Goto("unnet"), Finish /\ Drops(mem.handle))
    /\ UNCHANGED <<scope, up, files, net, vols, probe, clobbered>>

\* kill_replica_worker: the handle is put back when terminate fails.
KillReplica ==
    /\ op.pc = "kill" /\ Replicated
    /\ Terminate(mem.handle, mem.owned,
         /\ mem' = [mem EXCEPT !.handle = 0]
         /\ Goto(IF op.kind = "stop" THEN "drain" ELSE "unnet"),
         Finish /\ UNCHANGED <<mem, astray>>)
    /\ UNCHANGED <<scope, up, files, net, vols, probe, clobbered>>

\* stop_replicated after the worker's death: Failed is durable first.
Drain ==
    LET r == [mem EXCEPT !.st = "failed"] IN
    /\ op.pc = "drain" /\ mem' = r
    /\ Save(r, Goto("unnet"), Finish)
    /\ UNCHANGED <<scope, up, dir, state, procs, net, vols, probe, clobbered>>

\* stop, destroy and reclaim end the gateway next, and go no further when they
\* cannot; destroy of a local sandbox then keeps its record, Failed.
RemoveNet ==
    LET next == CASE op.kind = "stop" -> IF Replicated THEN "upload" ELSE "stopped"
                  [] op.kind = "destroy" /\ Replicated -> "delete"
                  [] OTHER -> "erase"
    IN /\ op.pc = "unnet"
       /\ \/ NetGone /\ Goto(next) /\ Fine /\ UNCHANGED mem
          \/ /\ net.gw /\ NetLeft /\ Fails("net") /\ Finish
             /\ mem' = IF op.kind = "destroy" /\ ~Replicated
                       THEN [op.rec EXCEPT !.st = "failed"] ELSE mem
       /\ UNCHANGED <<scope, up, files, procs, vols, probe, clobbered>>

\* A disk detached while part of it is only in the local journal.
UploadSkipped ==
    /\ op.pc = "upload"
    /\ AskDetach(mem.vol, Goto("stopped"), Finish)
    /\ UNCHANGED <<scope, up, mem, files, procs, net, probe, clobbered>>

\* sync: the whole disk is remote, or the stop fails.
Upload ==
    /\ op.pc = "upload"
    /\ Ask(mem.vol, [vols[mem.vol] EXCEPT !.dirty = {}], Goto("detach"), Finish)
    /\ UNCHANGED <<scope, up, mem, files, procs, net, probe, clobbered>>

Detach ==
    /\ op.pc = "detach"
    /\ AskDetach(mem.vol, Goto("stopped"), Finish)
    /\ UNCHANGED <<scope, up, mem, files, procs, net, probe, clobbered>>

\* state.json goes and the record says Stopped.
Stopped ==
    LET r == [mem EXCEPT !.st = "stopped"] IN
    /\ op.pc = "stopped" /\ Finish
    /\ state' = 0 /\ mem' = r
    /\ Save(r, TRUE, TRUE)
    /\ UNCHANGED <<scope, up, dir, procs, net, vols, probe, clobbered>>

\* destroy: the local record leaves the map at once.
DestroyLocal ==
    /\ up /\ op = Idle /\ "destroy" \in scope.calls /\ mem # None /\ ~Replicated
    /\ mem' = None
    /\ op' = [Idle EXCEPT !.kind = "destroy", !.pc = "kill", !.rec = mem]
    /\ UNCHANGED <<scope, up, files, procs, net, vols, probe, clobbered, faults>>

\* A record whose cleanup failed goes back into the map, Failed. That its worker,
\* which may be paused, was spared is nowhere in it: spared is for the properties.
KillDestroyed ==
    /\ op.pc = "kill" /\ op.kind = "destroy" /\ ~Replicated
    /\ Terminate(op.rec.handle, op.rec.owned,
         op' = [op EXCEPT !.pc = "unnet", !.rec.handle = 0] /\ UNCHANGED mem,
         /\ Finish /\ UNCHANGED astray
         /\ mem' = [op.rec EXCEPT !.st = "failed", !.spared = TRUE])
    /\ UNCHANGED <<scope, up, files, net, vols, probe, clobbered>>

\* The directory, then the resource group. A directory that is gone already cannot be
\* removed again: remove_dir_all reports it missing.
EraseLocal ==
    /\ op.pc = "erase" /\ ~Replicated /\ Finish
    /\ \/ dir /\ Erased /\ Fine /\ UNCHANGED mem
       \/ /\ mem' = [op.rec EXCEPT !.st = "failed"]
          /\ \/ /\ dir /\ Fails("erase") /\ disk' \in {disk, None}
                /\ UNCHANGED <<dir, state, clobbered>>
             \/ dir /\ Fails("erase") /\ Erased
             \/ ~dir /\ Fine /\ UNCHANGED <<files, clobbered>>
    /\ UNCHANGED <<scope, up, procs, net, vols, probe>>

\* destroy_replicated: the intent to delete is durable first, and stays.
DestroyReplicated ==
    LET r == [mem EXCEPT !.deleting = TRUE, !.st = "failed"] IN
    /\ up /\ op = Idle /\ "destroy" \in scope.calls /\ mem # None /\ Replicated
    /\ mem' = r
    /\ Save(r, op' = [Idle EXCEPT !.kind = "destroy", !.pc = "kill"], UNCHANGED op)
    /\ UNCHANGED <<scope, up, dir, state, procs, net, vols, probe, clobbered>>

\* The service holds the delete from here on; an error leaves the record.
DeleteVolume ==
    /\ op.pc = "delete"
    /\ AskDelete(mem.vol, Goto("erase"), Finish)
    /\ UNCHANGED <<scope, up, mem, files, procs, net, probe, clobbered>>

EraseReplicated ==
    /\ op.pc = "erase" /\ Replicated /\ Finish
    /\ \/ Erased /\ mem' = None /\ Fine
       \/ /\ Fails("erase") /\ disk' \in {disk, None}
          /\ UNCHANGED <<mem, dir, state, clobbered>>
    /\ UNCHANGED <<scope, up, procs, net, vols, probe>>

\* reclaim_replicated_volume: the disk of another identity is only retired; the
\* record's own only once it is being deleted and has no worker; a directory
\* without a record only if nothing but an unfinished record is in it.
Reclaim(v) ==
    /\ up /\ op = Idle /\ "reclaim" \in scope.calls /\ Replicated
    /\ vols[v] # Unborn \/ (mem # None /\ mem.vol = v)
    /\ \/ /\ mem # None /\ mem.vol # v
          /\ AskDelete(v, TRUE, TRUE)
          /\ UNCHANGED op
       \/ /\ IF mem = None THEN disk = None /\ state = 0
             ELSE mem.vol = v /\ mem.deleting /\ mem.handle = 0
          /\ AskDelete(v,
               op' \in {Idle, [Idle EXCEPT !.kind = "reclaim",
                                !.pc = IF mem = None THEN "erase" ELSE "unnet"]},
               UNCHANGED op)
    /\ UNCHANGED <<scope, up, mem, files, procs, net, probe, clobbered>>

-----------------------------------------------------------------------------
(* Beside the reservation: status, the network monitor, the processes, the  *)
(* daemon's crash and its next start.                                       *)

\* status of a local sandbox: a dead worker makes it Failed, a live one that
\* needs no resume heals it. The record is written after the map is unlocked.
Status ==
    LET r == IF Alive(mem) THEN [mem EXCEPT !.st = "running"]
             ELSE [mem EXCEPT !.st = "failed", !.handle = 0]
    IN /\ up /\ probe = None /\ "status" \in scope.calls
       /\ mem # None /\ ~Replicated
       /\ \/ mem.handle # 0 /\ ~Alive(mem)
          \/ Alive(mem) /\ ~mem.needs /\ mem.st = "failed"
       /\ mem' = r /\ probe' = Durable(r)
       /\ UNCHANGED <<scope, up, files, procs, net, vols, op, clobbered, faults>>

StatusPersist ==
    /\ probe # None /\ probe' = None
    /\ disk' = IF dir THEN probe ELSE disk
    /\ UNCHANGED <<scope, up, mem, dir, state, procs, net, vols, op, clobbered, faults>>

\* The netd supervisor's round: the gateway of a dead VM ends, one that died
\* under a live VM is launched again.
Monitor ==
    /\ up /\ net.entry
    /\ \/ net.vm # 0 /\ net.vm \notin live /\ NetGone
       \/ (net.vm # 0 => net.vm \in live) /\ ~net.gw /\ net' = [net EXCEPT !.gw = TRUE]
    /\ UNCHANGED <<scope, up, mem, files, procs, vols, op, probe, clobbered, faults>>

\* The guest of a replicated disk writes.
GuestWrite ==
    /\ Replicated /\ live \ paused # {}
    /\ \E v \in Vols : /\ vols[v].att
                       /\ ~(Whose(live \ paused, astray) \subseteq vols[v].dirty)
                       /\ vols' = [vols EXCEPT ![v].dirty =
                                              @ \cup Whose(live \ paused, astray)]
    /\ UNCHANGED <<scope, up, mem, files, procs, net, op, probe, clobbered, faults>>

VmDies(g) ==
    /\ g \in live /\ Fails("die")
    /\ Dead(g)
    /\ UNCHANGED <<scope, up, mem, files, net, vols, op, probe, clobbered>>

GatewayDies ==
    /\ net.gw /\ Fails("die")
    /\ net' = [net EXCEPT !.gw = FALSE]
    /\ UNCHANGED <<scope, up, mem, files, procs, vols, op, probe, clobbered>>

\* The daemon dies; workers and gateway live on. Between spawn and the rename of
\* state.json it leaves a worker no file names.
Crash ==
    /\ up /\ up' = FALSE
    /\ \/ Fails("crash") /\ UNCHANGED <<live, astray>>
       \/ /\ op.pc = (IF scope.net THEN "launch" ELSE "net") /\ Fails("orphan")
          /\ scope.broker => live = {}
          /\ live' = live \cup {FreshProc} /\ Drops(FreshProc)
    /\ mem' = None /\ op' = Idle /\ probe' = None
    /\ net' = [net EXCEPT !.entry = FALSE, !.vm = 0]
    /\ UNCHANGED <<scope, files, paused, vols, clobbered>>

\* A start that leaves alone what no record names.
OpenOrphanKeeps ==
    /\ ~up /\ disk = None /\ up' = TRUE
    /\ UNCHANGED <<scope, mem, files, procs, net, vols, op, probe, clobbered, faults>>

\* A directory without a record: the processes its files name are terminated if
\* it ever had a gateway, and left to run if not. The directory itself stays.
OpenOrphan ==
    /\ ~up /\ disk = None
    /\ up' = TRUE
    /\ IF dir /\ net.file
       THEN /\ Terminate(state, FALSE, TRUE, FALSE)
            /\ net' = [net EXCEPT !.gw = FALSE]
       ELSE /\ astray' = astray \cup {g \in live : dir /\ g = state}
            /\ Fine /\ UNCHANGED <<live, paused, net>>
    /\ UNCHANGED <<scope, mem, files, vols, op, probe, clobbered>>

\* KrucibleBackend::open on a record: the worker state.json names is adopted if
\* it lives; an intended pause is kept, any other paused guest is resumed, and
\* one that does not answer is Failed. Without a worker nothing is Running. A
\* desktop without a control socket is not asked.
OpenRecord ==
    LET w == IF state \in live THEN state ELSE 0
        asked == scope.desktop => scope.gpu \/ disk.st = "paused"
        keeps == w # 0 /\ disk.st = "paused" /\ w \in paused
        Adopted(st, needs) ==
            mem' = [st |-> st, deleting |-> disk.deleting, needs |-> needs,
                    handle |-> w, owned |-> FALSE, spared |-> FALSE,
                    vol |-> disk.vol, prep |-> disk.prep]
        St(st) == IF disk.deleting THEN "failed" ELSE st
    IN /\ ~up /\ disk # None /\ up' = TRUE
       /\ w # 0 /\ Replicated => vols[disk.vol].att
       /\ \/ /\ w = 0 /\ Fine /\ UNCHANGED paused
             /\ Adopted(IF disk.st \in {"running", "paused"} THEN "failed" ELSE disk.st, FALSE)
          \/ keeps /\ Adopted(St("paused"), FALSE) /\ Fine /\ UNCHANGED paused
          \/ /\ keeps /\ Fails("ctl")
             /\ \/ paused' = paused \ {w} /\ Adopted(St("running"), FALSE)
                \/ paused' \in {paused, paused \ {w}} /\ Adopted("failed", TRUE)
          \/ /\ w # 0 /\ ~asked /\ Adopted(St("running"), FALSE)
             /\ Fine /\ UNCHANGED paused
          \/ /\ w # 0 /\ ~keeps /\ asked
             /\ Recover(w, Adopted(St("running"), FALSE), Adopted("failed", TRUE))
       /\ net' = IF ~scope.net THEN net
                 ELSE IF w # 0 THEN [entry |-> TRUE, vm |-> w, gw |-> TRUE, file |-> TRUE]
                 ELSE [net EXCEPT !.gw = FALSE]
       /\ astray' = astray \ {w}
       /\ UNCHANGED <<scope, files, live, vols, op, probe, clobbered>>

-----------------------------------------------------------------------------
Next ==
    \/ CreateLocal \/ CreateReplicated
    \/ WriteSpecFails \/ PrepareNet \/ Launch \/ LaunchLost \/ Unbooted
    \/ Ready \/ UnreadyReplicated \/ UnreadyLocal \/ Publish
    \/ \E k \in {"start", "stop", "resume"} : Wake(k)
    \/ WakeControl \/ Woken \/ StartLocal \/ StartReplicated
    \/ PrepareVolume \/ AttachVolume \/ Pause \/ Pausing
    \/ StopNoWorker \/ Stop \/ GuestSync \/ Snapshot \/ Checkpoint \/ Uncheckpoint
    \/ KillLocal \/ KillReplica \/ Drain \/ RemoveNet \/ Upload \/ Detach \/ Stopped
    \/ DestroyLocal \/ KillDestroyed \/ EraseLocal
    \/ DestroyReplicated \/ DeleteVolume \/ EraseReplicated
    \/ \E v \in Vols : Reclaim(v)
    \/ Status \/ StatusPersist \/ Monitor \/ GuestWrite
    \/ \E g \in Procs : VmDies(g)
    \/ GatewayDies \/ Crash \/ OpenOrphan \/ OpenRecord

Spec == Init /\ [][Next]_vars

-----------------------------------------------------------------------------
(* No operation overwrites or removes the disk of a VMM process the engine   *)
(* keeps track of, and no second one is started beside it: neither across    *)
(* failed boots, stops and destroys, nor across restarts of the daemon that  *)
(* adopt, wake or give up what they find (boot_worker, cleanup_orphan). Of a *)
(* worker it has lost track of, a broker still allows no second, and the     *)
(* volume service no removal of its disk.                                    *)
DiskExclusive ==
    /\ "known" \notin clobbered /\ Cardinality(live \ astray) <= 1
    /\ scope.broker => Cardinality(live) <= 1
    /\ Replicated => clobbered = {}

(* A volume stays attached as long as a worker may write to it, also one     *)
(* whose launch was reported as failed: start's error path asks for the disk *)
(* to be detached, and only the service's check of the device refuses it.    *)
NeverDetachLive ==
    Replicated /\ live # {} =>
        \E v \in Vols : vols[v].att /\ (disk # None => disk.vol = v)

(* No guest the engine calls Running has paused vCPUs: lost replies to PAUSE *)
(* and RESUME, interrupted snapshots and the adoption after a restart never  *)
(* leave a paused guest behind a Running record once the reservation is      *)
(* released. The exception is a paused guest that a failed destroy spared:   *)
(* its record is Failed, and status() calls it Running because it is alive.  *)
RunningIsAwake ==
    up /\ op = Idle /\ mem # None /\ mem.st = "running" /\ ~mem.spared =>
        mem.handle \notin paused

(* A record that says Stopped on disk has no worker, its volume is detached  *)
(* and everything the guest wrote has left the local journal. A worker the   *)
(* engine has lost track of may write after the last sync.                   *)
StoppedIsDrained ==
    Replicated /\ disk # None /\ disk.st = "stopped" =>
        /\ live = {}
        /\ ~vols[disk.vol].att /\ "known" \notin vols[disk.vol].dirty

(* Whatever crashes or fails, a volume the service holds and was not asked   *)
(* to delete is named by a durable record: create and destroy leave nothing  *)
(* behind that no later call can find.                                       *)
VolumeAccounted ==
    Replicated => \A v \in Vols :
        vols[v].prep /\ ~vols[v].del => disk # None /\ disk.vol = v

(* The gateway entry of a VM that reached Running watches that VM: a dying   *)
(* predecessor never takes it down (Networks::prepare, attach, the monitor). *)
GatewayKept ==
    scope.net /\ up /\ op = Idle /\ mem # None /\ mem.st = "running" /\ Alive(mem) =>
        net.entry /\ net.vm = mem.handle

(* What the record says of the VM is true: a Running guest runs behind its   *)
(* own gateway, a Stopped one has left nothing behind.                       *)
RecordIsTrue == RunningIsAwake /\ StoppedIsDrained /\ GatewayKept

(* What a comment says of termination errors (worker_broker.rs): a disk is   *)
(* not overwritten while the death of its worker is not confirmed.           *)
ErrorsAreNotDeath == clobbered = {}

(* A replicated sandbox's volume is neither detached under a worker nor lost *)
(* to the records.                                                           *)
VolumeKept == NeverDetachLive /\ VolumeAccounted
================================================================================
