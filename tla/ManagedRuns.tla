---------------------------- MODULE ManagedRuns ----------------------------
(***************************************************************************)
(* The managed background runs of one sandbox: the durable receipts of     *)
(* ahvm-store/src/runs.rs, the controllers of ahvm-daemon/src/runs.rs that *)
(* reconcile them with the guest, the activity hold of thermal.rs that     *)
(* keeps the idle sweeper away, and the guest session table of             *)
(* ahvm-forge/src/sessions.rs.                                             *)
(*                                                                         *)
(* A controller step holds the sandbox's lifecycle lock, so steps do not   *)
(* interleave with each other, with a cancel, with the sweeper or with a   *)
(* user's start and stop.  What does interleave with a step is everything  *)
(* that needs no lock: the guest's processes, the death of the VM, the     *)
(* clock, a create request that arrives late, and the death of the daemon. *)
(* A step is therefore cut at each point where one of these can matter:    *)
(* after the launch intent is committed, after the create request is sent, *)
(* before the sessions are listed, before and after a cold stop, and       *)
(* between the terminal commit and the release of the hold.                *)
(*                                                                         *)
(* The clock appears as two facts about a run: its deadline has passed,    *)
(* and RECONCILE_SECS have passed since its receipt was last written.      *)
(***************************************************************************)
EXTENDS Integers, FiniteSets

CONSTANTS
    Run,        \* run identities, each submitted at most once
    Kinds,      \* the kinds of request submitted in this instance
    MaxBoot,    \* guest boots
    MaxCrash    \* deaths of the daemon

ASSUME RunsAssumption ==
    /\ Kinds \subseteq {"legacy", "fencing", "isolated"}
    /\ MaxBoot \in Nat \ {0}
    /\ MaxCrash \in Nat
    /\ Run \cap {"free", "sweep"} = {}

VARIABLES
    row,        \* managed_runs: the durable receipt of each run
    expired,    \* unix_now() >= deadline_at
    waited,     \* unix_now() - updated_at >= RECONCILE_SECS
    daemon,     \* "down", "recovering" (before HTTP and the sweeper) or "up"
    crashes,    \* deaths of the daemon so far
    lock,       \* the sandbox's lifecycle lock: a run, "sweep" or "free"
    ctl,        \* where the controller task of each run stands
    hold,       \* ActivityTracker.managed_runs: the epoch holding the VM awake
    stopping,   \* ActivityTracker.stopping: an idle transition is committed
    vm,         \* what the backend would say of the worker
    boot,       \* the guest's boot identity
    guest,      \* the sessions in the guest's table
    serial,     \* sessions created since the guest booted
    late,       \* create requests sent and not yet served, as runs
    made,       \* how many create requests were ever sent for a run
    truth,      \* the exit code the run's own process ended with
    cancelled   \* runs whose cancellation was acknowledged to the caller

vars == <<row, expired, waited, daemon, crashes, lock, ctl, hold, stopping,
          vm, boot, guest, serial, late, made, truth, cancelled>>

receipt == <<row, waited>>
world == <<vm, boot, guest, serial, late, made, truth>>
process == <<daemon, crashes>>

-----------------------------------------------------------------------------
(* Receipts.                                                               *)

Terminal == {"succeeded", "failed", "interrupted"}
NoExit == -1

Absent == [phase |-> "absent", kind |-> "legacy", epoch |-> 0, sid |-> 0,
           boot |-> 0, exit |-> NoExit, failing |-> FALSE]

Admitted(r) == row[r].phase # "absent"
Finished(r) == row[r].phase \in Terminal
Active(r) == Admitted(r) /\ ~Finished(r)
Isolated(r) == row[r].kind = "isolated"
Fencing(r) == row[r].kind = "fencing"

\* Controller positions in which a step is under way and the lock is held.
MidStep == {"create", "created", "list", "stop", "stopped", "done"}

Running(s) == s.exit = NoExit
Alive == vm \in {"running", "paused", "sick"}

-----------------------------------------------------------------------------
(* Faulty variants of definitions below, each the form a plausible slip in *)
(* the code would take.                                                    *)

AdmissibleByNew(k) == k = "isolated" \/ \A q \in Run : ~Active(q)
LaunchableAgain(r) == row[r].phase = "starting"
MatchingAny(r) == {s \in guest : row[r].sid \in {0, s.sid}}
FenceNever(r) == "poll"
RestoredNot(r, e) == hold
FenceOnCodeOnly(r, code, interrupted) == Fencing(r) /\ code # 0

-----------------------------------------------------------------------------
(* The store.                                                              *)

\* admit_managed_run: a run shares the sandbox only with isolated runs, and
\* only when it is isolated itself.
Admissible(k) == \A q \in Run : Active(q) => k = "isolated" /\ Isolated(q)

\* update_managed_run on the current unfinished epoch: identities are kept
\* unless given, the exit code and detail are replaced by what is given.
Saved(r, phase, sid, b, exit, failing) ==
    [row[r] EXCEPT !.phase = phase,
                   !.sid = IF sid = 0 THEN @ ELSE sid,
                   !.boot = IF b = 0 THEN @ ELSE b,
                   !.exit = exit,
                   !.failing = failing]

\* The receipt of r becomes rec; its updated_at is now.
Write(r, rec) ==
    /\ row' = [row EXCEPT ![r] = rec]
    /\ waited' = [waited EXCEPT ![r] = FALSE]

Phased(r, phase) == Saved(r, phase, 0, 0, NoExit, FALSE)

-----------------------------------------------------------------------------
(* Moving a controller.                                                    *)

\* The step of r goes on to position p and keeps the lock, or ends ("poll").
Goto(r, p) ==
    /\ ctl' = [ctl EXCEPT ![r] = p]
    /\ lock' = IF p \in MidStep THEN r ELSE "free"

\* fence: a job that shares the VM is never fenced, it is reconciled again;
\* any other goes on to a verified cold stop.
Fence(r) == IF Isolated(r) THEN "poll" ELSE "stop"

\* uncertain, from receipt rec: record the doubt once, then wait for the
\* reconcile window or the deadline before fencing.
Uncertain(r, rec) ==
    LET new == IF rec.phase \in {"uncertain", "cancelling"} THEN rec
               ELSE [rec EXCEPT !.phase = "uncertain", !.exit = NoExit, !.failing = FALSE]
        same == new = row[r]
    IN  /\ IF same THEN UNCHANGED receipt ELSE Write(r, new)
        /\ Goto(r, IF expired[r] \/ (same /\ waited[r]) THEN Fence(r) ELSE "poll")

\* A terminal update of r: the receipt commits, its release follows.
Finish(r, rec) == Write(r, rec) /\ Goto(r, "done")

-----------------------------------------------------------------------------
(* Submission, cancellation and recovery.                                  *)

\* submit: an awake VM, an admissible request; the receipt, the hold and the
\* controller appear with no suspension point in between.
Submit(r, k) ==
    /\ daemon = "up" /\ lock = "free" /\ vm \in {"running", "paused"}
    /\ ~Admitted(r) /\ Admissible(k)
    /\ Write(r, [Absent EXCEPT !.phase = "starting", !.kind = k, !.epoch = 1])
    /\ hold' = [hold EXCEPT ![r] = 1]
    /\ ctl' = [ctl EXCEPT ![r] = "fresh"]
    /\ UNCHANGED <<expired, process, lock, stopping, world, cancelled>>

\* cancel: acknowledged without effect on a finished or cancelling run.
Cancel(r) ==
    /\ daemon = "up" /\ lock = "free"
    /\ Active(r) /\ row[r].phase # "cancelling"
    /\ Write(r, Phased(r, "cancelling"))
    /\ cancelled' = cancelled \cup {r}
    /\ UNCHANGED <<expired, process, lock, ctl, hold, stopping, world>>

\* The daemon dies: tasks, locks and the activity tracker go with it.
Crash ==
    /\ daemon # "down" /\ crashes < MaxCrash
    /\ daemon' = "down" /\ crashes' = crashes + 1
    /\ lock' = "free" /\ stopping' = FALSE
    /\ ctl' = [r \in Run |-> "none"]
    /\ hold' = [r \in Run |-> 0]
    /\ UNCHANGED <<receipt, expired, world, cancelled>>

\* The exited session of a finished isolated run of this boot.
Receipts(r) ==
    {s \in guest : /\ s.run = r /\ s.sid = row[r].sid /\ ~Running(s)
                   /\ Isolated(r) /\ Finished(r) /\ row[r].boot = boot}

\* recover, first part: finished runs whose guest receipt survived a crash
\* have it released, when the guest answers.
Restart ==
    /\ daemon = "down" /\ daemon' = "recovering"
    /\ guest' \in {guest, guest \ UNION {Receipts(r) : r \in Run}}
    /\ UNCHANGED <<receipt, expired, crashes, lock, ctl, hold, stopping,
                   vm, boot, serial, late, made, truth, cancelled>>

\* set_managed_run, as recovery calls it for the claimed epoch.
Restored(r, e) == [hold EXCEPT ![r] = e]

\* recover, second part: claim_managed_run takes the next epoch, and the hold
\* is reinstalled under it.
Claim(r) ==
    /\ daemon = "recovering" /\ Active(r) /\ ctl[r] = "none"
    /\ Write(r, [row[r] EXCEPT !.epoch = @ + 1])
    /\ hold' = Restored(r, row[r].epoch + 1)
    /\ ctl' = [ctl EXCEPT ![r] = "claimed"]
    /\ UNCHANGED <<expired, process, lock, stopping, world, cancelled>>

\* recover, last part: every active run is claimed; the controllers start,
\* never to launch, and the daemon serves.
Ready ==
    /\ daemon = "recovering" /\ \A r \in Run : Active(r) => ctl[r] = "claimed"
    /\ daemon' = "up"
    /\ ctl' = [r \in Run |-> IF Active(r) THEN "poll" ELSE "none"]
    /\ UNCHANGED <<receipt, expired, crashes, lock, hold, stopping, world, cancelled>>

-----------------------------------------------------------------------------
(* One step of a controller, cut at its crash points.                      *)

AtStep(r) == daemon = "up" /\ lock = "free" /\ ctl[r] \in {"fresh", "poll"} /\ Active(r)
At(r, p) == daemon = "up" /\ ctl[r] = p

\* The launch is dispatched by the first step of the controller that admitted
\* the run, and only from a receipt that holds no launch intent.
Launchable(r) == ctl[r] = "fresh" /\ row[r].phase = "starting" /\ row[r].boot = 0

\* A recorded outcome whose cold stop is still owed.
FencePending(r) == Fencing(r) /\ row[r].phase = "cancelling" /\ row[r].exit # NoExit

\* step: an owed cold stop goes before any question to the backend.
StepOwed(r) ==
    /\ AtStep(r) /\ FencePending(r)
    /\ Goto(r, "stop")
    /\ UNCHANGED <<receipt, expired, process, hold, stopping, world, cancelled>>

\* step: a stopped VM interrupts the run.
StepStopped(r) ==
    /\ AtStep(r) /\ ~FencePending(r) /\ vm = "stopped"
    /\ Finish(r, Phased(r, "interrupted"))
    /\ UNCHANGED <<expired, process, hold, stopping, world, cancelled>>

\* step: a worker that is neither stopped nor serving is fenced.
StepFailed(r) ==
    /\ AtStep(r) /\ ~FencePending(r) /\ vm \in {"sick", "dead"}
    /\ Goto(r, Fence(r))
    /\ UNCHANGED <<receipt, expired, process, hold, stopping, world, cancelled>>

\* step with an awake guest: the VM is resumed and its boot identity asked for.
Awake(r) ==
    /\ AtStep(r) /\ ~FencePending(r) /\ vm \in {"running", "paused"}
    /\ vm' = "running"
    /\ UNCHANGED <<expired, process, hold, stopping, boot, guest, serial, late, made, truth, cancelled>>

\* ... the boot identity cannot be read,
StepBlind(r) == Awake(r) /\ Uncertain(r, row[r])

\* ... the guest has rebooted, or the run was never dispatched and now never
\* will be: its deadline has passed, it was cancelled, or its controller died,
StepInterrupt(r) ==
    /\ Awake(r)
    /\ \/ row[r].boot \notin {0, boot}
       \/ row[r].boot = 0 /\ (expired[r] \/ ~Launchable(r))
    /\ Finish(r, Phased(r, "interrupted"))

\* ... the launch intent is committed with the boot it is meant for,
StepLaunch(r) ==
    /\ Awake(r) /\ Launchable(r) /\ row[r].boot \in {0, boot}
    /\ ~(row[r].boot = 0 /\ expired[r])
    /\ Write(r, Saved(r, "starting", 0, boot, NoExit, FALSE))
    /\ Goto(r, "create")

\* ... or the dispatched run is looked for among the guest's sessions.
StepList(r) ==
    /\ Awake(r) /\ row[r].boot = boot /\ ~Launchable(r)
    /\ Goto(r, "list")
    /\ UNCHANGED receipt

\* session_create is sent.
Create(r) ==
    /\ At(r, "create")
    /\ late' = late \cup {r} /\ made' = [made EXCEPT ![r] = @ + 1]
    /\ Goto(r, "created")
    /\ UNCHANGED <<receipt, expired, process, hold, stopping, vm, boot, guest, serial, truth, cancelled>>

\* ... its answer arrives with the session's identity, or does not arrive.
Created(r) ==
    /\ At(r, "created")
    /\ \/ \E s \in guest : /\ s.run = r
                           /\ Write(r, Saved(r, "running", s.sid, 0, NoExit, FALSE))
          /\ Goto(r, "list")
       \/ Uncertain(r, row[r])
    /\ UNCHANGED <<expired, process, hold, stopping, world, cancelled>>

-----------------------------------------------------------------------------
(* The second half of a step: the guest's sessions are known.              *)

\* The sessions with the run's exact command, and its identity when bound.
Matching(r) == {s \in guest : s.run = r /\ row[r].sid \in {0, s.sid}}

\* The phase in which a session found by its command is bound.
BoundPhase(r) == IF row[r].phase = "cancelling" THEN "cancelling" ELSE "running"

\* The receipt once session s is bound to it.
Bound(r, s) == IF row[r].sid # 0 THEN row[r]
               ELSE Saved(r, BoundPhase(r), s.sid, 0, NoExit, FALSE)

Interrupted(r, rec) ==
    rec.phase = "cancelling" \/ (row[r].kind \in {"fencing", "isolated"} /\ expired[r])

\* fence_on_failure: this outcome is recorded, then fenced.
MustFence(r, code, interrupted) == Fencing(r) /\ (interrupted \/ code # 0)

\* session_list fails, or does not show exactly one session of this run; or it
\* does, and the exited session's result cannot be confirmed or, for an
\* isolated run, is no proof of termination.
ListUnclear(r) ==
    /\ At(r, "list")
    /\ \/ Uncertain(r, row[r])
       \/ /\ Cardinality(Matching(r)) = 1
          /\ \E s \in Matching(r) : ~Running(s) /\ Uncertain(r, Bound(r, s))
    /\ UNCHANGED <<expired, process, hold, stopping, world, cancelled>>

\* The session has exited with a confirmed code.  An isolated controller
\* proves termination by zero alone.
ListExited(r) ==
    /\ At(r, "list") /\ Cardinality(Matching(r)) = 1
    /\ \E s \in Matching(r) :
         LET rec == Bound(r, s)
             interrupted == Interrupted(r, rec)
             phase == IF interrupted THEN "interrupted"
                      ELSE IF s.exit = 0 THEN "succeeded" ELSE "failed"
         IN  /\ ~Running(s) /\ (Isolated(r) => s.exit = 0)
             /\ IF MustFence(r, s.exit, interrupted)
                THEN /\ Write(r, [rec EXCEPT !.phase = "cancelling", !.exit = s.exit,
                                             !.failing = ~interrupted])
                     /\ Goto(r, "stop")
                ELSE Finish(r, [rec EXCEPT !.phase = phase, !.exit = s.exit, !.failing = FALSE])
    /\ UNCHANGED <<expired, process, hold, stopping, world, cancelled>>

\* The session runs on and may: the receipt says so.
ListRunning(r) ==
    /\ At(r, "list") /\ Cardinality(Matching(r)) = 1
    /\ \E s \in Matching(r) :
         LET rec == Bound(r, s)
         IN  /\ Running(s) /\ ~expired[r] /\ rec.phase # "cancelling"
             /\ IF rec = row[r] /\ rec.phase = "running" THEN UNCHANGED receipt
                ELSE Write(r, [rec EXCEPT !.phase = "running", !.exit = NoExit, !.failing = FALSE])
    /\ Goto(r, "poll")
    /\ UNCHANGED <<expired, process, hold, stopping, world, cancelled>>

\* The session runs on and may not: a legacy one is killed, if the request
\* gets through; an isolated one is asked to end.  A cancellation that has
\* waited long enough is fenced.
ListCancelling(r) ==
    /\ At(r, "list") /\ Cardinality(Matching(r)) = 1
    /\ \E s \in Matching(r) :
         LET rec == Bound(r, s)
             asked == rec = row[r] /\ rec.phase = "cancelling"
         IN  /\ Running(s) /\ (expired[r] \/ rec.phase = "cancelling")
             /\ IF asked THEN UNCHANGED receipt
                ELSE Write(r, [rec EXCEPT !.phase = "cancelling", !.exit = NoExit, !.failing = FALSE])
             /\ \/ UNCHANGED <<guest, truth>>
                \/ /\ ~Isolated(r)
                   /\ guest' = (guest \ {s}) \cup {[s EXCEPT !.exit = 1]}
                   /\ truth' = [truth EXCEPT ![s.run] = 1]
             /\ Goto(r, IF asked /\ waited[r] THEN Fence(r) ELSE "poll")
    /\ UNCHANGED <<expired, process, hold, stopping, vm, boot, serial, late, made, cancelled>>

-----------------------------------------------------------------------------
(* Cold stop, terminal commit and release.                                 *)

\* What becomes of the guest when its VM is gone.
Gone == guest' = {} /\ late' = {} /\ serial' = 0

\* cold_stop succeeds: the backend says the VM is stopped.
Stop(r) ==
    /\ At(r, "stop")
    /\ vm' = "stopped" /\ Gone
    /\ Goto(r, "stopped")
    /\ UNCHANGED <<receipt, expired, process, hold, stopping, boot, made, truth, cancelled>>

\* The stop fails half way, the worker killed and the volume not yet detached.
StopPart(r) ==
    /\ At(r, "stop") /\ vm # "stopped"
    /\ vm' = "dead" /\ Gone
    /\ Goto(r, "poll")
    /\ UNCHANGED <<receipt, expired, process, hold, stopping, boot, made, truth, cancelled>>

\* The outcome finish_fenced_result reads back from the receipt's detail.
FencedPhase(r) == IF row[r].failing THEN "failed" ELSE "interrupted"

\* The terminal update that follows a cold stop: the recorded outcome of a
\* fencing run, or an interruption.
Fenced(r) ==
    /\ At(r, "stopped")
    /\ Finish(r, IF FencePending(r)
                 THEN Saved(r, FencedPhase(r), 0, 0, row[r].exit, FALSE)
                 ELSE Phased(r, "interrupted"))
    /\ UNCHANGED <<expired, process, hold, stopping, world, cancelled>>

\* An error propagates out of the step before anything further is written;
\* the lock is dropped, and a launch not yet committed is forfeited.
StepError(r) ==
    /\ \/ AtStep(r) /\ ctl[r] = "fresh"
       \/ daemon = "up" /\ ctl[r] \in {"created", "list", "stop", "stopped"}
    /\ Goto(r, "poll")
    /\ UNCHANGED <<receipt, expired, process, hold, stopping, world, cancelled>>

\* After the terminal commit: the guest's pinned receipt is deleted, if the
\* guest answers, and the hold is dropped.
Done(r) ==
    /\ At(r, "done")
    /\ guest' \in {guest, guest \ Receipts(r)}
    /\ hold' = [hold EXCEPT ![r] = 0]
    /\ Goto(r, "none")
    /\ UNCHANGED <<receipt, expired, process, stopping, vm, boot, serial, late, made, truth, cancelled>>

Step(r) ==
    \/ StepOwed(r) \/ StepStopped(r) \/ StepFailed(r) \/ StepBlind(r)
    \/ StepInterrupt(r) \/ StepLaunch(r) \/ StepList(r) \/ Create(r) \/ Created(r)
    \/ ListUnclear(r) \/ ListExited(r) \/ ListRunning(r) \/ ListCancelling(r)
    \/ Stop(r) \/ StopPart(r) \/ Fenced(r) \/ StepError(r) \/ Done(r)

-----------------------------------------------------------------------------
(* The rest of the daemon.                                                 *)

\* has_managed_run: some run holds the VM awake.
Held == \E r \in Run : hold[r] # 0

\* sweep_once commits an idle stop or pause under the lifecycle lock.
SweepBegin ==
    /\ daemon = "up" /\ lock = "free" /\ vm \in {"running", "paused"} /\ ~Held
    /\ lock' = "sweep" /\ stopping' = TRUE
    /\ UNCHANGED <<receipt, expired, process, ctl, hold, world, cancelled>>

\* ... and performs it, or fails to, and drops the guard and the lock.
SweepEnd ==
    /\ daemon = "up" /\ lock = "sweep"
    /\ lock' = "free" /\ stopping' = FALSE
    /\ \/ UNCHANGED <<vm, guest, serial, late>>
       \/ vm = "running" /\ vm' = "paused" /\ UNCHANGED <<guest, serial, late>>
       \/ vm' \in {"stopped", "dead"} /\ Gone
    /\ UNCHANGED <<receipt, expired, process, ctl, hold, boot, made, truth, cancelled>>

\* set_running: a user's start or stop, refused while a run is unfinished.
Lifecycle ==
    /\ daemon = "up" /\ lock = "free" /\ \A r \in Run : ~Active(r)
    /\ \/ /\ vm \in {"dead", "stopped"} /\ boot < MaxBoot
          /\ vm' = "running" /\ boot' = boot + 1 /\ UNCHANGED <<guest, serial, late>>
       \/ vm # "stopped" /\ vm' = "stopped" /\ Gone /\ UNCHANGED boot
    /\ UNCHANGED <<receipt, expired, process, lock, ctl, hold, stopping, made, truth, cancelled>>

\* Guest work admitted by a route wakes a paused VM.
Wake ==
    /\ daemon = "up" /\ lock = "free" /\ vm = "paused" /\ vm' = "running"
    /\ UNCHANGED <<receipt, expired, process, lock, ctl, hold, stopping,
                   boot, guest, serial, late, made, truth, cancelled>>

-----------------------------------------------------------------------------
(* The guest, the worker and the clock.                                    *)

outside == <<receipt, expired, process, lock, ctl, hold, stopping, cancelled>>

\* Forge serves a create request that may be long given up on.
Land(r) ==
    /\ r \in late /\ vm \in {"running", "sick"}
    /\ guest' = guest \cup {[run |-> r, sid |-> serial + 1, exit |-> NoExit]}
    /\ serial' = serial + 1 /\ late' = late \ {r}
    /\ UNCHANGED <<outside, vm, boot, made, truth>>

\* A session's process ends.
Exit(s, code) ==
    /\ Running(s) /\ vm \in {"running", "sick"}
    /\ guest' = (guest \ {s}) \cup {[s EXCEPT !.exit = code]}
    /\ truth' = [truth EXCEPT ![s.run] = code]
    /\ UNCHANGED <<outside, vm, boot, serial, late, made>>

\* A full session table evicts an exited session, never an isolated run's.
Evictable(s) == ~Running(s) /\ ~Isolated(s.run)

Evict(s) ==
    /\ Evictable(s) /\ vm \in {"running", "sick"}
    /\ guest' = guest \ {s}
    /\ UNCHANGED <<outside, vm, boot, serial, late, made, truth>>

\* The worker dies (a guest that reboots takes its worker down with it), or
\* serves on while its status says it failed, or is well again; an operator
\* restarts the VM while the daemon is down.
Die == Alive /\ vm' = "dead" /\ Gone /\ UNCHANGED <<outside, boot, made, truth>>
Sicken ==
    /\ vm = "running" /\ vm' = "sick"
    /\ UNCHANGED <<outside, boot, guest, serial, late, made, truth>>
Heal ==
    /\ vm = "sick" /\ vm' = "running"
    /\ UNCHANGED <<outside, boot, guest, serial, late, made, truth>>
OperatorRestart ==
    /\ daemon = "down" /\ boot < MaxBoot
    /\ vm' = "running" /\ boot' = boot + 1 /\ Gone
    /\ UNCHANGED <<outside, made, truth>>

\* The clock passes the deadline of r, or the reconcile window.
Expire(r) ==
    /\ Active(r) /\ ~expired[r] /\ expired' = [expired EXCEPT ![r] = TRUE]
    /\ UNCHANGED <<receipt, process, lock, ctl, hold, stopping, world, cancelled>>
Wait(r) ==
    /\ Active(r) /\ ~waited[r] /\ waited' = [waited EXCEPT ![r] = TRUE]
    /\ UNCHANGED <<row, expired, process, lock, ctl, hold, stopping, world, cancelled>>

-----------------------------------------------------------------------------
Init ==
    /\ row = [r \in Run |-> Absent]
    /\ expired = [r \in Run |-> FALSE] /\ waited = [r \in Run |-> FALSE]
    /\ daemon = "up" /\ crashes = 0 /\ lock = "free"
    /\ ctl = [r \in Run |-> "none"] /\ hold = [r \in Run |-> 0] /\ stopping = FALSE
    /\ vm = "running" /\ boot = 1 /\ guest = {} /\ serial = 0 /\ late = {}
    /\ made = [r \in Run |-> 0] /\ truth = [r \in Run |-> NoExit] /\ cancelled = {}

Next ==
    \/ \E r \in Run : \/ \E k \in Kinds : Submit(r, k)
                      \/ Cancel(r) \/ Claim(r) \/ Step(r)
                      \/ Land(r) \/ Expire(r) \/ Wait(r)
    \/ \E s \in guest : Evict(s) \/ \E code \in {0, 1} : Exit(s, code)
    \/ Crash \/ Restart \/ Ready
    \/ SweepBegin \/ SweepEnd \/ Lifecycle \/ Wake
    \/ Die \/ Sicken \/ Heal \/ OperatorRestart

Spec == Init /\ [][Next]_vars

-----------------------------------------------------------------------------
(* Properties.                                                             *)

\* A run's command is sent to a guest at most once, over crashes of the daemon,
\* lost replies and reboots: "NEVER replay an uncertain launch".
LaunchedOnce == \A r \in Run : made[r] <= 1

\* A terminal receipt means the work is over: no process of the run is alive in
\* the guest and no create request that could start one is still on its way.
TerminalIsQuiet ==
    \A r \in Run : Finished(r) =>
        /\ r \notin late
        /\ \A s \in guest : s.run = r => ~Running(s)

\* A receipt reports what its own process did, never a sibling's: success and
\* failure are backed by that process's exit code, and so is any code recorded.
OutcomeIsTrue ==
    \A r \in Run :
        /\ row[r].phase = "succeeded" => truth[r] = 0
        /\ row[r].phase = "failed" => truth[r] = 1
        /\ row[r].exit # NoExit => row[r].exit = truth[r]

\* A fencing run that was dispatched and did not succeed is terminal only once
\* the guest it ran in has been stopped or has rebooted.
FencedBeforeTerminal ==
    \A r \in Run :
        Finished(r) /\ Fencing(r) /\ row[r].phase # "succeeded" /\ row[r].boot # 0
        => row[r].boot # boot \/ ~Alive

\* A serving daemon holds the VM awake for every unfinished run, under the
\* epoch its controller writes with.
HeldUntilFinished ==
    daemon = "up" => \A r \in Run : Active(r) => hold[r] = row[r].epoch

\* No idle transition is committed while a run is unfinished, so installing the
\* hold of a new run never meets one (submit asserts it).
NoIdleStopUnderRun == stopping => \A r \in Run : ~Active(r)

\* The cold stop that fences one run never takes a sibling's guest away.
FenceSparesSiblings ==
    \A r \in Run : ctl[r] \in {"stop", "stopped"} => \A q \in Run \ {r} : ~Active(q)

\* A cancellation the caller was told of is not forgotten: whatever the session
\* is found doing afterwards, the run ends interrupted.
CancelSticks == \A r \in cancelled : row[r].phase \in {"cancelling", "interrupted"}

\* A receipt is true when it is written and stays so: its outcome is its own
\* process's, nothing of the run goes on after it, the guest of a fencing run is
\* gone, and a cancellation that was acknowledged decides it.
ReceiptIsTrue ==
    OutcomeIsTrue /\ TerminalIsQuiet /\ FencedBeforeTerminal /\ CancelSticks

\* The VM stays with its unfinished runs: a serving daemon holds it awake, the idle
\* sweep has not claimed it, and no sibling's fence is about to stop it.
VmKept == HeldUntilFinished /\ NoIdleStopUnderRun /\ FenceSparesSiblings

-----------------------------------------------------------------------------
(* Liveness.  The controllers and the recovery are loops that never give   *)
(* up; time passes; and an operation that is tried for ever and could      *)
(* succeed does succeed in the end.  An isolated run may stay unfinished   *)
(* for ever by design, a run that owns its VM may not.                     *)

\* The steps a controller takes when the backend and the store answer.
Enters(r) == StepOwed(r) \/ StepStopped(r) \/ StepFailed(r) \/ StepInterrupt(r)
             \/ StepLaunch(r) \/ StepList(r)
Lists(r) == ListUnclear(r) \/ ListExited(r) \/ ListRunning(r) \/ ListCancelling(r)
Settles(r) == Create(r) \/ Created(r) \/ Done(r)

Fairness ==
    /\ WF_vars(Restart) /\ WF_vars(Ready) /\ WF_vars(SweepEnd)
    /\ \A r \in Run :
         /\ WF_vars(Claim(r)) /\ WF_vars(Expire(r)) /\ WF_vars(Wait(r))
         /\ WF_vars(Settles(r)) /\ SF_vars(Enters(r)) /\ SF_vars(Lists(r))
         /\ SF_vars(Stop(r)) /\ SF_vars(Fenced(r))

FairSpec == Spec /\ Fairness

\* A run that does not share its VM ends, whatever crashes, lost replies and
\* failed stops come in between.
OwnRunsEnd ==
    \A r \in Run : (Active(r) /\ ~Isolated(r)) ~> Finished(r)

=============================================================================
