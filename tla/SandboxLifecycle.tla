--------------------------- MODULE SandboxLifecycle ---------------------------
(***************************************************************************)
(* The daemon's sandbox lifecycle: the per-name lock map and the operation *)
(* permits (scheduler.rs), the quota holds (quotas.rs), the activity       *)
(* tracker and the idle sweeper (thermal.rs), the HTTP handlers            *)
(* (sandboxes.rs, routes.rs), durable operation receipts (operations.rs),  *)
(* replicated-disk reservations and their reaper (replicated.rs) and the   *)
(* startup reconciliation (main.rs), over the SQLite rows of ahvm-store.   *)
(* Engine calls are single steps that succeed or fail; the engine itself   *)
(* is the subject of module SandboxEngine.                                 *)
(***************************************************************************)
EXTENDS Naturals, FiniteSets, SequencesExt

CONSTANTS
    Ids,        \* sandbox names
    Users,
    Volumes,    \* volume ids a create may mint; each is used once
    Ops,        \* idempotency keys of durable operations
    Requests,   \* concurrently running handler tasks
    Scopes,     \* the instances: which calls arrive in which slot, which names are
                \* local, how many permits (AHVM_MAX_CONCURRENT_OPS) and failures,
                \* and whether the storage service collects meanwhile
    MaxCpus,    \* users.max_cpus; every sandbox has one CPU
    MaxBoxes,   \* users.max_sandboxes
    None

ASSUME LifecycleConstants == MaxCpus \in Nat /\ MaxBoxes \in Nat

VARIABLES
    scope,      \* the instance of this behaviour, never changed
    row,        \* sandboxes table: name -> owner and state
    res,        \* replicated_reservations table: volume -> reservation
    receipt,    \* lifecycle_operations table: key -> state and sandbox
    vm,         \* the engine's records: name -> state, disk, generation
    disk,       \* what the storage service holds of each volume, see below
    up,         \* the daemon process runs
    task,       \* handler tasks, the sweeper and the reaper
    lockOf,     \* LifecycleLocks: name -> entry of the map, 0 if absent
    line,       \* tasks waiting for the mutex of an entry, first come first
    hold,       \* quotas::Registry: name -> user that reserved capacity
    idle,       \* ActivityTracker.last, as an age: 0 fresh .. 2 past idle_secs
    retired,    \* ActivityTracker.retired
    stopping,   \* ActivityTracker.stopping
    ran,        \* how often the command of a key was executed
    drift,      \* names whose row missed a change of the engine
    slipped,    \* rows found live that no admission had counted
    faults      \* failures so far

durable == <<row, res, receipt>>
host    == <<vm, disk>>
locks   == <<lockOf, line>>
tracker == <<idle, retired, stopping>>
ghosts  == <<ran, drift, slipped>>
vars == <<scope, durable, host, up, task, locks, hold, tracker, ghosts, faults>>

Actors  == Requests \cup {"sweeper", "reaper"}
Entries == 1..Cardinality(Actors)
Live    == {"running", "paused"}
Kinds   == {"create", "start", "stop", "get", "destroy", "exec", "settle"}

Parked == [pc |-> "idle", kind |-> None, id |-> None, user |-> None,
           op |-> None, vol |-> None, entry |-> 0, stale |-> FALSE,
           held |-> FALSE, permit |-> FALSE, flight |-> FALSE, seen |-> 0,
           late |-> FALSE, proof |-> FALSE]

Init ==
    /\ scope \in Scopes
    /\ row = [i \in Ids |-> None] /\ res = [v \in Volumes |-> None]
    /\ receipt = [k \in Ops |-> None]
    /\ vm = [i \in Ids |-> None] /\ disk = [v \in Volumes |-> "none"]
    /\ up = TRUE
    /\ task = [t \in Actors |-> Parked]
    /\ lockOf = [i \in Ids |-> 0] /\ line = [e \in Entries |-> <<>>]
    /\ hold = [i \in Ids |-> None]
    /\ idle = [i \in Ids |-> None] /\ retired = {} /\ stopping = {}
    /\ ran = [k \in Ops |-> 0] /\ drift = {} /\ slipped = {}
    /\ faults = 0

-----------------------------------------------------------------------------
(* What the handlers read. *)

Owns(u, i) == row[i] # None /\ row[i].owner = u

\* check_lifecycle_fence: another operation on this name is pending.
Fenced(i, k) ==
    \E o \in Ops \ {k} : receipt[o] # None /\ receipt[o].id = i
                                          /\ receipt[o].state = "pending"

\* ActivityTracker::in_flight.
InFlight(i) == \E t \in Actors : task[t].id = i /\ task[t].flight

\* An unreleased reservation owns the name (check_replicated_name_available).
Retained(i) ==
    {v \in Volumes : res[v] # None /\ res[v].sandbox = i /\ ~res[v].released}

\* A record whose deletion is durable: its worker is gone (deleting), or could
\* not be stopped (dying).
Deleting == {"deleting", "dying"}

\* What Backend::status reports of a record.
StateOf(m) == IF m.st \in Deleting THEN "failed" ELSE m.st

\* Registry::reserve_locked without its holds: two admissions may overlap.
ChargedRowsOnly(u, i) == {j \in Ids \ {i} : Owns(u, j) /\ row[j].state \in Live}

\* The CPU a user is charged for, with the request for name i left out.
Charged(u, i) ==
    {j \in Ids \ {i} : \/ hold[j] = u
                       \/ Owns(u, j) /\ row[j].state \in Live}

Admissible(u, i) ==
    /\ hold[i] = None
    /\ Cardinality({j \in Ids \ {i} : hold[j] = u \/ (Owns(u, j)
                       /\ row[j].state # "failed")}) < MaxBoxes
    /\ Cardinality(Charged(u, i)) < MaxCpus

PermitsLeft == Cardinality({t \in Actors : task[t].permit}) < scope.permits
Critical(i) == {t \in Actors : task[t].held /\ task[t].id = i}
Free(e) == \A t \in Actors : task[t].entry = e => ~task[t].held
FirstInLine(t) == Free(task[t].entry) /\ Head(line[task[t].entry]) = t

\* The identity is invalidated and its deletion under way.
BeingDeleted(i) ==
    \E t \in Critical(i) :
        \/ task[t].pc \in {"intent", "retire", "reclaim", "confirm", "delete"}
        \/ task[t].kind = "destroy" /\ task[t].pc = "work"

\* Identities are never reused while anything still refers to them.
FreshGen ==
    Min((1..(Cardinality(Actors) + Cardinality(Ids) + 1))
        \ ({vm[i].gen : i \in {j \in Ids : vm[j] # None}}
           \cup {task[t].seen : t \in Actors}))

Faults(n) == faults + n <= scope.faults /\ faults' = faults + n
Fault == Faults(1)
-----------------------------------------------------------------------------
(* Steps every task takes: lease, lock, permit, unlock, reclaim the lease. *)

\* LifecycleLocks::lease: the map's entry, or a new one; lock queues on it.
EntryFor(i) ==
    IF lockOf[i] # 0 THEN lockOf[i]
    ELSE Min(Entries \ ({task[t].entry : t \in Actors}
                        \cup {lockOf[j] : j \in Ids}))

Lease(t, r) ==
    LET e == EntryFor(r.id) IN
    /\ lockOf' = [lockOf EXCEPT ![r.id] = e]
    /\ task' = [task EXCEPT ![t] = [r EXCEPT !.entry = e]]
    /\ line' = IF r.held THEN line ELSE [line EXCEPT ![e] = Append(@, t)]

\* lease and try_lock together, for the two background loops.
Lockable(i) == lockOf[i] # 0 => Free(lockOf[i]) /\ line[lockOf[i]] = <<>>
TryLock(t, r) == Lockable(r.id) /\ Lease(t, [r EXCEPT !.held = TRUE])

\* LifecycleGuard unlocks before its lease is dropped; the permit goes too.
Done(t) == task' = [task EXCEPT ![t].pc = "unlock", ![t].held = FALSE,
                                ![t].permit = FALSE, ![t].flight = FALSE]
Goto(t, l) == task' = [task EXCEPT ![t].pc = l]

\* invalidate_identity: the entry's epoch moves past every lease taken so far.
Invalidated(f, t) ==
    [o \in Actors |-> [f[o] EXCEPT !.stale = @ \/ f[o].entry = f[t].entry]]

\* LifecycleLease::drop: the last lease takes the entry out of the map. An
\* admitted guest call goes on with its in-flight guard; a durable operation
\* goes on to settle its receipt.
DropLease(t) ==
    LET r == task[t]
        last == \A o \in Actors \ {t} : task[o].entry # r.entry
    IN /\ r.pc = "unlock"
       /\ lockOf' = IF last THEN [lockOf EXCEPT ![r.id] = 0] ELSE lockOf
       /\ task' = [task EXCEPT ![t] =
             IF r.flight THEN [r EXCEPT !.pc = "guest", !.entry = 0]
             ELSE IF r.op # None /\ r.kind # "settle"
             THEN [Parked EXCEPT !.pc = "settle", !.id = r.id, !.user = r.user,
                                 !.op = r.op, !.kind = "settle"]
             ELSE Parked]
       /\ UNCHANGED <<scope, durable, host, up, line, hold, tracker, ghosts, faults>>

Touch(i) == idle' = IF i \in retired THEN idle ELSE [idle EXCEPT ![i] = 0]

\* Bound: a create arrives only while an unused volume id is left for it.
VolumeLeft(kind, i) ==
    kind = "create" /\ i \notin scope.local =>
        Cardinality({v \in scope.volumes : res[v] = None}) >
        Cardinality({t \in Actors : task[t].kind = "create"})

\* The sandbox a call names when it arrives: the one that is listed then.
Named(i) == IF row[i] = None \/ vm[i] = None THEN 0 ELSE vm[i].gen

\* A handler starts. start, stop and exec first look the row up unlocked, and
\* exec records activity at once.
Arrive(t, kind, i, u) ==
    /\ up /\ task[t].pc = "idle"
    /\ kind \in scope.calls[t] /\ i \in scope.ids /\ u \in scope.users
    /\ VolumeLeft(kind, i)
    /\ kind \in {"start", "stop", "exec"} => Owns(u, i)
    /\ Lease(t, [Parked EXCEPT !.pc = "queued", !.kind = kind, !.id = i,
                   !.user = u, !.late = BeingDeleted(i), !.seen = Named(i)])
    /\ IF kind = "exec" THEN Touch(i) ELSE UNCHANGED idle
    /\ UNCHANGED <<scope, durable, host, up, hold, retired, stopping, ghosts, faults>>

\* admit_lifecycle_operation: a new key, and no pending operation on the name.
AdmitReceipt(k, i) ==
    /\ receipt[k] = None /\ ~Fenced(i, None)
    /\ receipt' = [receipt EXCEPT ![k] = [state |-> "pending", id |-> i, lost |-> FALSE]]

\* operations::submit: receipt before ownership, ownership before admission;
\* one pending operation per name; the receipt commits before the task runs.
Submit(t, k, kind, i, u) ==
    /\ up /\ task[t].pc = "idle"
    /\ kind \in scope.ops[t] /\ i \in scope.ids /\ u \in scope.users
    /\ VolumeLeft(kind, i)
    /\ IF kind = "create" THEN row[i] = None \/ Owns(u, i)
       ELSE Owns(u, i) \/ (kind = "destroy" /\ row[i] = None)
    /\ AdmitReceipt(k, i)
    /\ Lease(t, [Parked EXCEPT !.pc = "queued", !.kind = kind, !.id = i,
                   !.user = u, !.op = k, !.late = BeingDeleted(i), !.seen = Named(i)])
    /\ UNCHANGED <<scope, row, res, host, up, hold, tracker, ghosts, faults>>

\* The client of a plain request goes away while its handler still awaits.
Cancel(t) ==
    /\ t \in Requests /\ task[t].op = None
    /\ task[t].pc \in {"queued", "permit"}
    /\ Done(t) /\ line' = [line EXCEPT ![task[t].entry] = SelectSeq(@, LAMBDA o : o # t)]
    /\ UNCHANGED <<scope, durable, host, up, lockOf, hold, tracker, ghosts, faults>>

\* operations.rs: the finished operation reads the sandbox again, under a new lease.
Settle(t) ==
    /\ task[t].pc = "settle"
    /\ Lease(t, [task[t] EXCEPT !.pc = "queued"])
    /\ UNCHANGED <<scope, durable, host, up, hold, tracker, ghosts, faults>>

\* A call admitted although the name changed hands while it waited.
AdmittedStale(t) ==
    LET r == task[t] IN
    /\ r.kind # "create" => Owns(r.user, r.id)
    /\ r.kind \in {"create", "start", "stop", "destroy"} => ~Fenced(r.id, r.op)
    /\ r.kind = "create" => ~InFlight(r.id) /\ Retained(r.id) = {}
    /\ r.kind = "exec" => r.id \notin stopping \cup retired

\* The checks a handler makes once it holds the lock: identity_available and
\* check_replicated_name_available for a create; unchanged_identity, owned,
\* check_lifecycle_fence and ActivityTracker::begin for the others.
Admitted(t) ==
    LET r == task[t] IN
    /\ r.kind # "create" => Owns(r.user, r.id) /\ ~r.stale
    /\ r.kind \in {"create", "start", "stop", "destroy"} => ~Fenced(r.id, r.op)
    /\ r.kind = "create" => ~InFlight(r.id) /\ Retained(r.id) = {}
    /\ r.kind = "exec" => r.id \notin stopping \cup retired

Acquire(t) ==
    LET r == task[t] IN
    /\ r.pc = "queued" /\ r.kind # "settle" /\ FirstInLine(t)
    /\ line' = [line EXCEPT ![r.entry] = Tail(@)]
    /\ IF Admitted(t)
       THEN task' = [task EXCEPT ![t] = [r EXCEPT
               !.held = TRUE, !.flight = (r.kind = "exec"),
               !.pc = IF r.kind \in {"get", "exec"} THEN "work" ELSE "permit",
               !.seen = IF @ = 0 /\ vm[r.id] # None THEN vm[r.id].gen ELSE @,
               !.vol = IF r.kind = "destroy" /\ Retained(r.id) # {}
                       THEN CHOOSE v \in Retained(r.id) : TRUE ELSE None]]
       ELSE Done(t)
    /\ UNCHANGED <<scope, durable, host, up, lockOf, hold, tracker, ghosts, faults>>

\* The permit of OpsLimiter; destroy invalidates the name's identity with it.
TakePermit(t) ==
    LET r == task[t]
        ready == [task EXCEPT ![t].pc = "work", ![t].permit = TRUE]
    IN /\ r.pc = "permit" /\ PermitsLeft
       /\ task' = IF r.kind = "destroy" THEN Invalidated(ready, t) ELSE ready
       /\ ran' = IF r.op = None THEN ran ELSE [ran EXCEPT ![r.op] = @ + 1]
       /\ UNCHANGED <<scope, durable, host, up, locks, hold, tracker, drift,
                      slipped, faults>>

\* finish_lifecycle_operation_with_error: only a pending receipt is finished.
Finished(k) ==
    [receipt EXCEPT ![k].state = IF @ = "pending" THEN "done" ELSE @]

\* finish_lifecycle_operation, once the sandbox's state was read under the lock.
\* The store may fail: the receipt then stays pending until the next start.
FinishReceipt(t) ==
    LET r == task[t] IN
    /\ r.pc = "queued" /\ r.kind = "settle" /\ FirstInLine(t)
    /\ line' = [line EXCEPT ![r.entry] = Tail(@)]
    /\ \/ receipt' = Finished(r.op) /\ UNCHANGED faults
       \/ Fault /\ receipt' = [receipt EXCEPT ![r.op].lost = TRUE]
    /\ Done(t)
    /\ UNCHANGED <<scope, row, res, host, up, lockOf, hold, tracker, ghosts>>

-----------------------------------------------------------------------------
(* Inside the critical section: blocking tasks that no client can cancel.   *)

\* set_sandbox_state: the row takes the engine's state. A row that turns live
\* without a hold was not admitted against the quota.
Mirror(i, st) ==
    /\ row' = [row EXCEPT ![i].state = st]
    /\ drift' = drift \ {i}
    /\ slipped' = IF st \notin Live THEN slipped \ {i}
                  ELSE IF row[i].state \notin Live /\ hold[i] = None
                  THEN slipped \cup {i} ELSE slipped

\* The engine changed and the row did not follow.
Missed(i) == drift' = drift \cup {i} /\ UNCHANGED <<row, slipped>>

Hold(t) == hold' = [hold EXCEPT ![task[t].id] = task[t].user]
Unhold(t) == hold' = [hold EXCEPT ![task[t].id] = None]

\* replicated::create, sandboxes::set_running: capacity first, under the
\* registry's lock. A start of a running sandbox only mirrors and touches.
ReserveQuota(t) ==
    LET r == task[t] IN
    /\ r.pc = "work" /\ r.kind \in {"create", "start"}
    /\ r.kind = "start" /\ vm[r.id] # None => vm[r.id].st # "running"
    /\ IF Admissible(r.user, r.id)
            /\ (r.kind = "start" => vm[r.id] # None)
       THEN Hold(t) /\ Goto(t, "boot")
       ELSE Done(t) /\ UNCHANGED hold
    /\ UNCHANGED <<scope, durable, host, up, locks, tracker, ghosts, faults>>

StartNoop(t) ==
    LET r == task[t] IN
    /\ r.pc = "work" /\ r.kind = "start"
    /\ vm[r.id] # None /\ vm[r.id].st = "running"
    /\ Mirror(r.id, "running") /\ Touch(r.id) /\ Done(t)
    /\ UNCHANGED <<scope, res, receipt, host, up, locks, hold, retired, stopping,
                   ran, faults>>

NewVm(st, v) == [st |-> st, vol |-> v, gen |-> FreshGen]

\* The engine refuses a name it already has a record of.
CreateRefused(t) ==
    LET r == task[t] IN
    /\ r.pc = "boot" /\ r.kind = "create" /\ vm[r.id] # None
    /\ Unhold(t) /\ Done(t)
    /\ UNCHANGED <<scope, durable, host, up, locks, tracker, ghosts, faults>>

\* A local sandbox boots, or fails and leaves nothing.
CreateLocal(t) ==
    LET r == task[t] IN
    /\ r.pc = "boot" /\ r.kind = "create" /\ vm[r.id] = None
    /\ r.id \in scope.local
    /\ \/ /\ vm' = [vm EXCEPT ![r.id] = NewVm("running", None)]
          /\ Goto(t, "commit") /\ UNCHANGED <<hold, faults>>
       \/ Fault /\ Unhold(t) /\ Done(t) /\ UNCHANGED vm
    /\ UNCHANGED <<scope, durable, disk, up, locks, tracker, ghosts>>

\* A replicated one mints a volume id and reserves it durably, with the name
\* checked in the same transaction, before the service is asked for anything.
CreateReserve(t, v) ==
    LET r == task[t] IN
    /\ r.pc = "boot" /\ r.kind = "create" /\ vm[r.id] = None
    /\ r.id \notin scope.local /\ res[v] = None /\ v \in scope.volumes
    /\ IF Retained(r.id) = {}
       THEN /\ res' = [res EXCEPT ![v] = [owner |-> r.user, sandbox |-> r.id,
                                         state |-> "reserved", released |-> FALSE]]
            /\ vm' = [vm EXCEPT ![r.id] = NewVm("creating", v)]
            /\ task' = [task EXCEPT ![t].pc = "import", ![t].vol = v]
            /\ UNCHANGED hold
       ELSE Unhold(t) /\ Done(t) /\ UNCHANGED <<res, vm>>
    /\ UNCHANGED <<scope, row, receipt, disk, up, locks, tracker, ghosts, faults>>

\* Import and boot; a failure may leave the volume and the record behind.
CreateImport(t) ==
    LET r == task[t] IN
    /\ r.pc = "import"
    /\ \/ /\ disk' = [disk EXCEPT ![r.vol] = "held"]
          /\ vm' = [vm EXCEPT ![r.id].st = "running"]
          /\ Goto(t, "commit") /\ UNCHANGED faults
       \/ /\ Fault
          /\ \E d \in {"none", "held"} : disk' = [disk EXCEPT ![r.vol] = d]
          /\ vm' = [vm EXCEPT ![r.id].st = "failed"]
          /\ Goto(t, "intent")
    /\ UNCHANGED <<scope, durable, up, locks, hold, tracker, ghosts>>

\* The row is inserted and the hold released.
CreateCommit(t) ==
    LET r == task[t] IN
    /\ r.pc = "commit" /\ row[r.id] = None
    /\ row' = [row EXCEPT ![r.id] = [owner |-> r.user, state |-> vm[r.id].st]]
    /\ drift' = drift \ {r.id} /\ slipped' = slipped \ {r.id}
    /\ Touch(r.id) /\ Unhold(t) /\ Done(t)
    /\ UNCHANGED <<scope, res, receipt, host, up, locks, retired, stopping, ran,
                   faults>>

\* The insert fails: a name still in the table, or the store. The sandbox just
\* booted is taken down again, a local one at once. An error of that is ignored:
\* the engine then keeps a failed record that no row lists.
CreateUndo(t) ==
    LET r == task[t]
        refused == row[r.id] # None
        undo(m, d) == /\ vm' = [vm EXCEPT ![r.id] = m] /\ drift' = d
                      /\ Unhold(t) /\ Done(t)
    IN /\ r.pc = "commit"
       /\ \/ /\ IF refused THEN UNCHANGED faults ELSE Fault
             /\ IF r.vol # None THEN Goto(t, "intent") /\ UNCHANGED <<vm, hold, drift>>
                ELSE undo(None, drift)
          \/ /\ r.vol = None
             /\ Faults(IF refused THEN 1 ELSE 2)
             /\ undo([vm[r.id] EXCEPT !.st = "failed"], drift \cup {r.id})
       /\ UNCHANGED <<scope, durable, disk, up, locks, tracker, ran, slipped>>

\* Backend::start under the hold: the sandbox runs, or is left failed.
StartBoot(t) ==
    LET r == task[t] IN
    /\ r.pc = "boot" /\ r.kind = "start"
    /\ \/ /\ vm[r.id].st \notin Deleting
          /\ vm' = [vm EXCEPT ![r.id].st = "running"] /\ Goto(t, "mirror")
          /\ UNCHANGED <<hold, drift, faults>>
       \/ /\ IF vm[r.id].st \in Deleting THEN UNCHANGED <<vm, drift, faults>>
             ELSE /\ Fault /\ vm' = [vm EXCEPT ![r.id].st = "failed"]
                  /\ drift' = drift \cup {r.id}
          /\ Unhold(t) /\ Done(t)
    /\ UNCHANGED <<scope, durable, disk, up, locks, tracker, ran, slipped>>

\* Backend::stop.
StopVm(t) ==
    LET r == task[t] IN
    /\ r.pc = "work" /\ r.kind = "stop"
    /\ \/ /\ vm[r.id] # None /\ vm[r.id].st \notin Deleting
          /\ vm' = [vm EXCEPT ![r.id].st = "stopped"] /\ Goto(t, "mirror")
          /\ UNCHANGED <<drift, faults>>
       \/ /\ IF vm[r.id] = None \/ vm[r.id].st \in Deleting
             THEN UNCHANGED <<vm, drift, faults>>
             ELSE /\ Fault /\ vm' = [vm EXCEPT ![r.id].st = "failed"]
                  /\ drift' = drift \cup {r.id}
          /\ Done(t)
    /\ UNCHANGED <<scope, durable, disk, up, locks, hold, tracker, ran, slipped>>

\* The state is read back, mirrored, and a running sandbox touched.
MirrorState(t) ==
    LET r == task[t] IN
    /\ r.pc = "mirror"
    /\ \/ Mirror(r.id, StateOf(vm[r.id])) /\ UNCHANGED faults
          /\ IF StateOf(vm[r.id]) = "running" THEN Touch(r.id) ELSE UNCHANGED idle
       \/ Missed(r.id) /\ Fault /\ UNCHANGED idle
    /\ Unhold(t) /\ Done(t)
    /\ UNCHANGED <<scope, res, receipt, host, up, locks, retired, stopping, ran>>

-----------------------------------------------------------------------------
(* Deletion: by a destroy, by the cleanup of a failed create, by the reaper. *)

\* ActivityTracker::remove: guest calls still inside retire the name.
Forget(i) ==
    /\ idle' = [idle EXCEPT ![i] = None]
    /\ retired' = IF InFlight(i) THEN retired \cup {i} ELSE retired
    /\ stopping' = stopping \ {i}

\* A local sandbox, or one without a retained disk: engine first.
DestroyLocal(t) ==
    LET r == task[t] IN
    /\ r.pc = "work" /\ r.kind = "destroy" /\ r.vol = None
    /\ \/ vm' = [vm EXCEPT ![r.id] = None] /\ Goto(t, "delete")
          /\ UNCHANGED <<drift, faults>>
       \/ /\ Fault /\ vm[r.id] # None
          /\ vm' = [vm EXCEPT ![r.id].st = "failed"]
          /\ drift' = drift \cup {r.id} /\ Done(t)
    /\ UNCHANGED <<scope, durable, disk, up, locks, hold, tracker, ran, slipped>>

DeleteRow(t) ==
    LET r == task[t] IN
    /\ r.pc = "delete"
    /\ \/ /\ row' = [row EXCEPT ![r.id] = None] /\ slipped' = slipped \ {r.id}
          /\ Forget(r.id) /\ UNCHANGED faults
       \/ Fault /\ UNCHANGED <<row, slipped, tracker>>
    /\ Done(t)
    /\ UNCHANGED <<scope, res, receipt, host, up, locks, hold, ran, drift>>

\* delete_replicated_reservation: the intent is durable before the engine acts.
DeleteIntent(t) ==
    LET r == task[t] IN
    /\ \/ r.pc = "intent"
       \/ r.pc = "work" /\ r.kind = "destroy" /\ r.vol # None
    /\ \/ res' = [res EXCEPT ![r.vol].state = "deleting"] /\ Goto(t, "retire")
          /\ UNCHANGED <<hold, faults>>
       \/ Fault /\ Unhold(t) /\ Done(t) /\ UNCHANGED res
    /\ UNCHANGED <<scope, row, receipt, host, up, locks, tracker, ghosts>>

\* What the service holds of a volume: nothing it knows of (none), a disk with
\* its journal and perhaps a device (held), the same with a durable deletion it
\* has not carried out (doomed), only remote objects, the local part being
\* detached, fenced and removed (fenced), or a tombstone (gone). delete and
\* retire end in Detached; a failing one may stop anywhere before.
Detached(d) == IF d = "gone" THEN d ELSE "fenced"
Fates(d) == IF d = "held" THEN {"held", "doomed", "fenced"}
            ELSE IF d = "doomed" THEN {"doomed", "fenced"} ELSE {d}
Tombs(d) == IF d = "none" THEN {"none", "doomed", "fenced"} ELSE Fates(d)

\* What a failing destroy leaves of the record of a replicated sandbox and of its
\* volume: the intent was not saved, the worker not stopped, or the rest not done.
Wrecks(m) ==
    {[st |-> "deleting", disk |-> d] : d \in Fates(disk[m.vol])}
    \cup {[st |-> st, disk |-> disk[m.vol]] :
            st \in {m.st} \cup (IF m.st \in Live THEN {"dying"} ELSE {})}

\* destroy, whose result is kept for later: destroy_operation names the sandbox,
\* the others destroy only the record of their very volume. The service refuses
\* to delete a volume it was never asked to prepare.
DestroyVm(t) ==
    LET r == task[t]
        m == vm[r.id]
        ours == m # None /\ (r.kind = "destroy" \/ m.vol = r.vol)
        left(w) == /\ vm' = [vm EXCEPT ![r.id].st = w.st]
                   /\ disk' = [disk EXCEPT ![m.vol] = w.disk]
                   /\ drift' = drift \cup {r.id}
    IN /\ r.pc = "retire" /\ Goto(t, "reclaim")
       /\ \/ ~ours /\ UNCHANGED <<host, drift, faults>>
          \/ /\ ours /\ disk[m.vol] # "none"
             /\ vm' = [vm EXCEPT ![r.id] = None]
             /\ disk' = [disk EXCEPT ![m.vol] = Detached(@)]
             /\ UNCHANGED <<drift, faults>>
          \/ /\ ours /\ disk[m.vol] = "none"
             /\ left([st |-> "deleting", disk |-> "none"]) /\ UNCHANGED faults
          \/ /\ ours /\ Fault
             /\ \E w \in Wrecks(m) : left(w)
       /\ UNCHANGED <<scope, durable, up, locks, hold, tracker, ran, slipped>>

\* reclaim_replicated_volume, whether the destroy went well or not: refused for a
\* record that is not being deleted or whose worker lives. The proof says whether
\* the remote objects are gone too.
ReclaimVolume(t) ==
    LET r == task[t]
        ours == vm[r.id] # None /\ vm[r.id].vol = r.vol
        retained == ours /\ vm[r.id].st # "deleting"
    IN /\ r.pc = "reclaim"
       /\ \/ /\ ~retained
             /\ disk' = [disk EXCEPT ![r.vol] = Detached(@)]
             /\ vm' = IF ours THEN [vm EXCEPT ![r.id] = None] ELSE vm
             /\ task' = [task EXCEPT ![t].pc = "confirm",
                                     ![t].proof = disk[r.vol] = "gone"]
             /\ UNCHANGED <<hold, faults>>
          \/ /\ retained /\ UNCHANGED <<host, faults>>
             /\ Unhold(t) /\ Done(t)
          \/ /\ ~retained /\ Fault
             /\ \E d \in Tombs(disk[r.vol]) : disk' = [disk EXCEPT ![r.vol] = d]
             /\ UNCHANGED vm
             /\ Unhold(t) /\ Done(t)
       /\ UNCHANGED <<scope, durable, up, locks, tracker, ghosts>>

\* The service on its own: a deletion it could not carry out is retried, and the
\* remote objects of a fenced volume are collected.
ServiceReclaims(v) ==
    /\ scope.collects /\ disk[v] \in {"doomed", "fenced"}
    /\ disk' = [disk EXCEPT ![v] = IF @ = "doomed" THEN "fenced" ELSE "gone"]
    /\ UNCHANGED <<scope, durable, vm, up, task, locks, hold, tracker, ghosts, faults>>

\* A retirement proof that deletes the row of the name whenever it arrives.
ConfirmByName(t) ==
    LET r == task[t] IN
    /\ r.pc = "confirm"
    /\ row' = [row EXCEPT ![r.id] = None] /\ slipped' = slipped \ {r.id}
    /\ res' = [res EXCEPT ![r.vol].state = IF r.proof THEN "reclaimed" ELSE "deleting",
                          ![r.vol].released = TRUE]
    /\ Forget(r.id)
    /\ Unhold(t) /\ Done(t)
    /\ UNCHANGED <<scope, receipt, host, up, locks, ran, drift, faults>>

\* confirm_replicated_retirement: the first release frees the quota and deletes
\* the row in one transaction; a later proof only updates the ledger. A failed
\* create and a proof that releases nothing leave the activity record alone.
ConfirmRetirement(t) ==
    LET r == task[t]
        first == ~res[r.vol].released
        foreign == row[r.id] # None /\ row[r.id].owner # res[r.vol].owner
    IN /\ r.pc = "confirm"
       /\ \/ /\ ~(first /\ foreign)
             /\ row' = IF first THEN [row EXCEPT ![r.id] = None] ELSE row
             /\ slipped' = IF first THEN slipped \ {r.id} ELSE slipped
             /\ res' = [res EXCEPT
                  ![r.vol].state = IF r.proof THEN "reclaimed" ELSE "deleting",
                  ![r.vol].released = TRUE]
             /\ IF r.kind = "destroy" \/ (r.kind = "reap" /\ first)
                THEN Forget(r.id) ELSE UNCHANGED tracker
             /\ UNCHANGED faults
          \/ /\ IF first /\ foreign THEN UNCHANGED faults ELSE Fault
             /\ UNCHANGED <<row, res, slipped, tracker>>
       /\ Unhold(t) /\ Done(t)
       /\ UNCHANGED <<scope, receipt, host, up, locks, ran, drift>>

\* replicated::run, one row of a pass: skipped when the name is locked, fenced
\* or short of permits; a reservation without a sandbox row is an orphan.
Reap(v) ==
    LET r == [Parked EXCEPT !.pc = IF res[v].released THEN "reclaim" ELSE "retire",
                !.kind = "reap", !.vol = v,
                !.id = res[v].sandbox, !.user = res[v].owner, !.permit = TRUE]
    IN /\ up /\ task["reaper"].pc = "idle"
       /\ res[v] # None /\ res[v].state # "reclaimed"
       /\ res[v].released \/ ~Fenced(r.id, None)
       /\ PermitsLeft
       /\ res[v].state = "deleting" \/ row[r.id] = None
       /\ Lockable(r.id)
       /\ LET e == EntryFor(r.id)
              held == [task EXCEPT !["reaper"] =
                         [r EXCEPT !.held = TRUE, !.entry = e]]
          IN /\ lockOf' = [lockOf EXCEPT ![r.id] = e] /\ UNCHANGED line
             /\ task' = IF res[v].released THEN held ELSE Invalidated(held, "reaper")
       /\ res' = [res EXCEPT ![v].state = "deleting"]
       /\ UNCHANGED <<scope, row, receipt, host, up, hold, tracker, ghosts, faults>>

-----------------------------------------------------------------------------
(* Guest calls, state reads and the idle sweeper.                           *)

\* InFlight::drop: completion counts as activity; the last call of a retired
\* name frees it for reuse.
EndFlight(t) ==
    LET i == task[t].id
        others == \E o \in Actors \ {t} : task[o].id = i /\ task[o].flight
    IN /\ retired' = IF others THEN retired ELSE retired \ {i}
       /\ Touch(i)

\* routes::admit: a paused guest is resumed before the call is let in.
ResumeGuest(t) ==
    LET r == task[t]
        m == vm[r.id]
        enter == task' = [task EXCEPT ![t].pc = "unlock", ![t].held = FALSE]
    IN /\ r.pc = "work" /\ r.kind = "exec"
       /\ \/ /\ m # None /\ m.st # "paused" /\ enter
             /\ UNCHANGED <<vm, row, drift, slipped, idle, retired, faults>>
          \/ /\ m # None /\ m.st = "paused"
             /\ vm' = [vm EXCEPT ![r.id].st = "running"]
             /\ Mirror(r.id, "running") /\ enter
             /\ UNCHANGED <<idle, retired, faults>>
          \/ /\ IF m = None THEN UNCHANGED <<vm, drift, faults>>
                ELSE /\ m.st = "paused" /\ Fault
                     /\ vm' = [vm EXCEPT ![r.id].st = "failed"]
                     /\ drift' = drift \cup {r.id}
             /\ EndFlight(t) /\ Done(t) /\ UNCHANGED <<row, slipped>>
       /\ UNCHANGED <<scope, res, receipt, disk, up, locks, hold, stopping, ran>>

\* The guest answers, or the engine gives up on it.
GuestDone(t) ==
    /\ task[t].pc = "guest"
    /\ task' = [task EXCEPT ![t] = Parked]
    /\ EndFlight(t)
    /\ UNCHANGED <<scope, durable, host, up, locks, hold, stopping, ghosts, faults>>

\* sandboxes::get: status and its mirror; a missing record is an error.
GetState(t) ==
    LET r == task[t] IN
    /\ r.pc = "work" /\ r.kind = "get"
    /\ IF vm[r.id] = None THEN UNCHANGED <<row, drift, slipped>>
       ELSE Mirror(r.id, StateOf(vm[r.id]))
    /\ Done(t)
    /\ UNCHANGED <<scope, res, receipt, host, up, locks, hold, tracker, ran, faults>>

\* sweep_once, one row: the row follows the engine, a sandbox seen for the first
\* time is only noted, and an idle one is chosen for a stop or a pause.
SweepRow(i) ==
    LET st == StateOf(vm[i])
        want == IF idle[i] = 2 THEN "stop" ELSE "pause"
        due == idle[i] = 2 \/ (idle[i] = 1 /\ st = "running")
    IN /\ up /\ task["sweeper"].pc = "idle" /\ row[i] # None
       /\ Lockable(i)
       /\ ~Fenced(i, None)
       /\ IF vm[i] = None THEN Mirror(i, "failed") ELSE Mirror(i, st)
       /\ IF vm[i] = None \/ st \notin Live \/ (idle[i] # None /\ ~due)
          THEN UNCHANGED <<task, locks, idle>>
          ELSE IF idle[i] = None THEN Touch(i) /\ UNCHANGED <<task, locks>>
          ELSE /\ TryLock("sweeper", [Parked EXCEPT !.pc = "decide",
                                       !.kind = want, !.id = i])
               /\ UNCHANGED idle
       /\ UNCHANGED <<scope, res, receipt, host, up, hold, retired, stopping, ran,
                      faults>>

\* A stop committed on the age the sweep read, whatever happened since.
SweepCommitStale ==
    LET r == task["sweeper"] IN
    /\ r.pc = "decide" /\ PermitsLeft
    /\ stopping' = stopping \cup {r.id}
    /\ task' = [task EXCEPT !["sweeper"].pc = "act", !["sweeper"].permit = TRUE]
    /\ UNCHANGED <<scope, durable, host, up, locks, hold, idle, retired, ghosts,
                   faults>>

\* begin_idle_transition: permit, age, in-flight calls and the stopping flag
\* are checked again at once; any of them defers the row to the next sweep.
SweepCommit ==
    LET r == task["sweeper"] IN
    /\ r.pc = "decide"
    /\ IF /\ PermitsLeft /\ r.id \notin stopping /\ ~InFlight(r.id)
          /\ idle[r.id] # None
          /\ idle[r.id] >= (IF r.kind = "stop" THEN 2 ELSE 1)
       THEN /\ stopping' = stopping \cup {r.id}
            /\ task' = [task EXCEPT !["sweeper"].pc = "act",
                                    !["sweeper"].permit = TRUE]
       ELSE Done("sweeper") /\ UNCHANGED stopping
    /\ UNCHANGED <<scope, durable, host, up, locks, hold, idle, retired, ghosts,
                   faults>>

\* The stop or pause, and its row; errors are left to the next sweep.
SweepAct ==
    LET r == task["sweeper"]
        to == IF r.kind = "stop" THEN "stopped" ELSE "paused"
    IN /\ r.pc = "act"
       /\ \/ /\ r.kind = "stop" \/ vm[r.id].st = "running"
             /\ vm' = [vm EXCEPT ![r.id].st = to] /\ Mirror(r.id, to)
             /\ UNCHANGED faults
          \/ /\ r.kind = "pause" /\ vm[r.id].st # "running"
             /\ UNCHANGED <<vm, row, drift, slipped, faults>>
          \/ /\ Fault /\ vm' = [vm EXCEPT ![r.id].st = "failed"] /\ Missed(r.id)
       /\ stopping' = stopping \ {r.id}
       /\ Done("sweeper")
       /\ UNCHANGED <<scope, res, receipt, disk, up, locks, hold, idle, retired, ran>>

-----------------------------------------------------------------------------
(* Time, failures, restarts.                                                *)

Age(i) ==
    /\ up /\ scope.ages /\ idle[i] \in 0..1
    /\ idle' = [idle EXCEPT ![i] = @ + 1]
    /\ UNCHANGED <<scope, durable, host, up, task, locks, hold, retired, stopping,
                   ghosts, faults>>

WorkerDies(i) ==
    /\ Fault /\ vm[i] # None /\ vm[i].st \in Live
    /\ vm' = [vm EXCEPT ![i].st = "failed"] /\ drift' = drift \cup {i}
    /\ UNCHANGED <<scope, durable, disk, up, task, locks, hold, tracker, ran, slipped>>

\* The daemon dies; sandboxes and the database outlive it.
Crash ==
    /\ Fault /\ up
    /\ up' = FALSE
    /\ drift' = drift \cup {i \in Ids : Critical(i) # {}}
    /\ task' = [t \in Actors |-> Parked] /\ lockOf' = [i \in Ids |-> 0]
    /\ line' = [e \in Entries |-> <<>>]
    /\ hold' = [i \in Ids |-> None]
    /\ idle' = [i \in Ids |-> None] /\ retired' = {} /\ stopping' = {}
    /\ UNCHANGED <<scope, durable, host, ran, slipped>>

\* backend.destroy of the records without a row; lost are the ones it fails for,
\* the ones of a volume the service does not know among them.
Reconciled(lost) ==
    LET orphans == {i \in Ids : vm[i] # None /\ row[i] = None}
        unknown == {i \in orphans : vm[i].vol # None /\ disk[vm[i].vol] = "none"}
        left(i) == IF vm[i].vol = None THEN {[st |-> "failed", disk |-> "none"]}
                   ELSE Wrecks(vm[i])
        gone == {vm[i].vol : i \in orphans \ lost}
    IN /\ unknown \subseteq lost /\ lost \subseteq orphans
       /\ IF lost = unknown THEN UNCHANGED faults ELSE Fault
       /\ \E w \in [lost -> UNION {left(i) : i \in lost}] :
             /\ \A i \in lost : w[i] \in left(i)
             /\ vm' = [i \in Ids |->
                   IF vm[i] = None \/ i \in orphans \ lost THEN None
                   ELSE IF i \in lost THEN [vm[i] EXCEPT !.st = w[i].st]
                   ELSE [vm[i] EXCEPT !.st = IF @ = "creating" THEN "failed" ELSE @]]
             /\ disk' = [v \in Volumes |->
                   IF v \in gone THEN Detached(disk[v])
                   ELSE IF \E i \in lost : vm[i].vol = v
                   THEN w[CHOOSE i \in lost : vm[i].vol = v].disk ELSE disk[v]]

\* Startup that forgets the commands the crash cut short.
RestartForgets ==
    /\ ~up /\ up' = TRUE
    /\ \E lost \in SUBSET Ids : Reconciled(lost)
    /\ receipt' = [k \in Ops |-> IF receipt[k] # None /\ receipt[k].state = "pending"
                                 THEN None ELSE receipt[k]]
    /\ UNCHANGED <<scope, row, res, task, locks, hold, tracker, ghosts>>

\* Startup that leaves the operations of the dead process pending.
RestartKeepsPending ==
    /\ ~up /\ up' = TRUE
    /\ \E lost \in SUBSET Ids : Reconciled(lost)
    /\ UNCHANGED <<scope, durable, task, locks, hold, tracker, ghosts>>

\* interrupt_lifecycle_operations.
Interrupted ==
    [k \in Ops |-> IF receipt[k] # None /\ receipt[k].state = "pending"
                   THEN [receipt[k] EXCEPT !.state = "interrupted"] ELSE receipt[k]]

\* main: interrupted creates are failed records, records without a row are
\* destroyed (an error is ignored), and pending operations are interrupted,
\* never run again.
Restart ==
    /\ ~up /\ up' = TRUE
    /\ \E lost \in SUBSET Ids : Reconciled(lost)
    /\ receipt' = Interrupted
    /\ UNCHANGED <<scope, row, res, task, locks, hold, tracker, ghosts>>

Next ==
    \/ \E t \in Requests, i \in Ids, u \in Users :
         \E kind \in Kinds : Arrive(t, kind, i, u)
    \/ \E t \in Requests, k \in Ops, i \in Ids, u \in Users :
         \E kind \in Kinds : Submit(t, k, kind, i, u)
    \/ \E t \in Actors : Cancel(t)
    \/ \E t \in Actors : Acquire(t)
    \/ \E t \in Actors : TakePermit(t)
    \/ \E t \in Actors : DropLease(t)
    \/ \E t \in Actors : Settle(t)
    \/ \E t \in Actors : FinishReceipt(t)
    \/ \E t \in Actors : ReserveQuota(t)
    \/ \E t \in Actors : StartNoop(t)
    \/ \E t \in Actors : CreateRefused(t)
    \/ \E t \in Actors : CreateLocal(t)
    \/ \E t \in Actors, v \in Volumes : CreateReserve(t, v)
    \/ \E t \in Actors : CreateImport(t)
    \/ \E t \in Actors : CreateCommit(t)
    \/ \E t \in Actors : CreateUndo(t)
    \/ \E t \in Actors : StartBoot(t)
    \/ \E t \in Actors : StopVm(t)
    \/ \E t \in Actors : MirrorState(t)
    \/ \E t \in Actors : DestroyLocal(t)
    \/ \E t \in Actors : DeleteRow(t)
    \/ \E t \in Actors : DeleteIntent(t)
    \/ \E t \in Actors : DestroyVm(t)
    \/ \E t \in Actors : ReclaimVolume(t)
    \/ \E v \in Volumes : ServiceReclaims(v)
    \/ \E t \in Actors : ConfirmRetirement(t)
    \/ \E v \in Volumes : Reap(v)
    \/ \E t \in Actors : ResumeGuest(t)
    \/ \E t \in Actors : GuestDone(t)
    \/ \E t \in Actors : GetState(t)
    \/ \E i \in Ids : SweepRow(i)
    \/ SweepCommit
    \/ SweepAct
    \/ \E i \in Ids : Age(i)
    \/ \E i \in Ids : WorkerDies(i)
    \/ Crash
    \/ Restart

\* What a task does without waiting for a permit: tokio's mutex serves its
\* line in order, so even the first in line keeps its turn.
Progress(t) ==
    /\ task[t].pc \notin {"idle", "permit", "guest"}
    /\ \/ Acquire(t) \/ FinishReceipt(t) \/ DropLease(t) \/ Settle(t)
       \/ ReserveQuota(t) \/ StartNoop(t) \/ CreateRefused(t) \/ CreateLocal(t)
       \/ (\E v \in Volumes : CreateReserve(t, v)) \/ CreateImport(t)
       \/ CreateCommit(t) \/ CreateUndo(t) \/ StartBoot(t) \/ StopVm(t)
       \/ MirrorState(t) \/ DestroyLocal(t) \/ DeleteRow(t) \/ DeleteIntent(t)
       \/ DestroyVm(t) \/ ReclaimVolume(t)
       \/ ConfirmRetirement(t) \/ ResumeGuest(t) \/ GetState(t)

\* Running tasks go on, the semaphore serves a waiter whose turn comes again and
\* again, and a dead daemon is restarted by its service manager.
Fairness ==
    /\ \A t \in Requests : WF_vars(Progress(t)) /\ SF_vars(TakePermit(t))
    /\ WF_vars(Progress("reaper"))
    /\ WF_vars(SweepCommit \/ SweepAct \/ Progress("sweeper"))
    /\ WF_vars(Restart)

Spec == Init /\ [][Next]_vars /\ Fairness

-----------------------------------------------------------------------------
(* Properties.                                                              *)

\* scheduler.rs, LifecycleLocks: one critical section per name at a time, also
\* while entries are reclaimed under waiters, cancelled ones included.
LockExclusive == \A i \in Ids : Cardinality(Critical(i)) <= 1

\* quotas.rs, Registry: concurrent admissions never take a user past the limit.
\* A sandbox the daemon finds running although no admission counted it (after a
\* crash or a lost row update) is the only excess.
QuotaExact ==
    \A u \in Users :
        Cardinality({i \in Ids \ slipped : hold[i] = u \/
                        (Owns(u, i) /\ row[i].state \in Live)}) <= MaxCpus

\* A call past its admission, or inside the guest, that named one sandbox when
\* it arrived and finds another under the same name.
Crosses(t) ==
    LET r == task[t] IN
    /\ r.held \/ r.flight
    /\ r.kind \in Kinds \ {"create", "settle"}
    /\ r.seen # 0 /\ vm[r.id] # None /\ vm[r.id].gen # r.seen

\* routes.rs, identity_available and unchanged_identity: a call that queued
\* before a deletion began, or was inside the sandbox by then, never reaches the
\* sandbox that takes over the name.
OneIdentity == \A t \in Actors : Crosses(t) => task[t].late

\* operations.rs: the command of a key runs at most once, whatever crashes and
\* retries come between.
ExecutedOnce == \A k \in Ops : ran[k] <= 1

\* ahvm-store replicated.rs: the logical release of a volume frees the owner's
\* storage quota and the name, and comes only when the service has fenced and
\* removed its local part and the engine has no record of it, whichever of
\* destroy, reclaim, the daemon or the service stopped half-way. Remote objects
\* may remain, uncharged; until they are gone the ledger keeps the volume open.
ChargedUntilReleased ==
    \A v \in Volumes :
        /\ disk[v] \in {"held", "doomed"} \/ (\E i \in Ids : vm[i] # None /\ vm[i].vol = v)
              => res[v] # None /\ ~res[v].released
        /\ disk[v] \in {"held", "doomed", "fenced"}
              => res[v] # None /\ res[v].state # "reclaimed"

\* replicated.rs, finish: a sandbox row disappears only once the engine holds no
\* sandbox of that name; a late proof for an old volume spares the new one.
RowOutlivesVm ==
    [][\A i \in Ids : row[i] # None /\ row'[i] = None => vm[i] = None]_vars

\* thermal.rs: the sweeper stops or pauses no sandbox a guest call is inside.
IdleStopSafe ==
    task["sweeper"].pc = "act" => ~InFlight(task["sweeper"].id)

\* thermal.rs and sandboxes.rs: outside the critical sections a row shows the
\* engine's state, unless a failure or a crash kept it from following.
RowMatchesVm ==
    \A i \in Ids \ drift :
        Critical(i) = {} /\ vm[i] # None /\ row[i] # None
            => row[i].state = StateOf(vm[i])

\* The critical sections of LifecycleLocks do what they are for: one at a time for
\* a name, none of the sweeper's under a guest call, and between them rows that
\* show the engine's state.
SectionsKept == LockExclusive /\ IdleStopSafe /\ RowMatchesVm

\* What is used is charged: CPUs by the quota registry, storage by reservations.
UseIsCharged == QuotaExact /\ ChargedUntilReleased

Pending(k) == receipt[k] # None /\ receipt[k].state = "pending"

\* operations.rs: a pending operation ends, done or interrupted, so its fence
\* is lifted; only a receipt the store refused to write stays behind.
OpsEnd ==
    \A k \in Ops : Pending(k) ~> (~Pending(k) \/ receipt[k].lost)
=============================================================================
