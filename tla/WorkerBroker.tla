---------------------------- MODULE WorkerBroker ----------------------------
(***************************************************************************)
(* The root worker broker (ahvm-worker-broker): it alone starts and stops  *)
(* the processes of a VM, each under a host identity that is never given   *)
(* out twice, and keeps a registry of them that survives its own restarts. *)
(* Workers survive a restart too (the unit's KillMode is process).         *)
(*                                                                         *)
(* A worker is a VM's role (VM monitor or gateway); its identity is the    *)
(* number uid, gid and generation are derived from.  A launcher process    *)
(* waits for its plan on a pipe, moves itself into the role's cgroup, and  *)
(* only then takes its host credentials and becomes the worker; a worker   *)
(* may fork.  The broker serves one request at a time; the daemon may give *)
(* up on a request the broker carries on with.                             *)
(***************************************************************************)
EXTENDS Naturals, FiniteSets

CONSTANTS
    Workers,        \* VM roles
    BrokerScopes    \* the scopes explored, see MCHostServices

ASSUME BrokerAssumption == \A s \in BrokerScopes : s.workers \subseteq Workers

VARIABLES
    bscope,     \* [workers, identities, faults, reconfigure]
    registry,   \* registry.json: [root, next, entries]
    table,      \* the broker's copy of it, or Down
    procs,      \* processes: [worker, identity, stage, plan, group, main]
    op,         \* the request in work: [task, worker, step, live]
    children,   \* identities whose Child handle the broker holds
    dirs,       \* workers whose VM directory exists
    known,      \* identity of the worker record the daemon saved, or 0
    confirmed,  \* history: identities the broker reported as not alive
    spawned,    \* history: identities a process was started for
    brokerFaults

brokerVars == <<bscope, registry, table, procs, op, children, dirs, known,
                confirmed, spawned, brokerFaults>>
daemonSide == <<dirs, known>>
history == <<confirmed, spawned>>

NoEntry == [intent |-> FALSE, identity |-> 0, pid |-> FALSE]
Down == [root |-> 0, next |-> 0, entries |-> [w \in Workers |-> NoEntry]]
IdleOp == [task |-> "idle", worker |-> "", step |-> "", live |-> FALSE]

BrokerInit ==
    /\ bscope \in BrokerScopes
    /\ registry = [Down EXCEPT !.root = 1]
    /\ table = registry
    /\ procs = {} /\ op = IdleOp /\ children = {}
    /\ dirs = bscope.workers
    /\ known = [w \in Workers |-> 0]
    /\ confirmed = {} /\ spawned = {}
    /\ brokerFaults = bscope.faults

BrokerFault == brokerFaults > 0 /\ brokerFaults' = brokerFaults - 1
NoFault == UNCHANGED brokerFaults
Up == table # Down

Entry(w) == table.entries[w]

\* members: the role's cgroup under a configured root.
Members(root, w) == {p \in procs : p.group = root /\ p.worker = w}

\* The recorded process, by PID and start time.
Recorded(e) == {p \in procs : e.pid /\ p.main /\ p.identity = e.identity}

\* process_ids: its own host credentials, not root's.
HasCredentials(p) == p.stage \in {"dropped", "running"}

\* matches: the recorded process is there under its assigned credentials.
Matches(e) == \E p \in Recorded(e) : HasCredentials(p)

\* persist: on an error the file may or may not have been replaced, and the
\* broker goes on with its own copy.
Persisted(new) == table' = new /\ registry' = new /\ NoFault
NotPersisted(new) ==
    BrokerFault /\ table' = new /\ registry' \in {registry, new}

Step(task, step) == op' = [op EXCEPT !.task = task, !.step = step]
WithEntry(w, e) == [table EXCEPT !.entries[w] = e]

\* An error answer.
Refuse == op' = IdleOp

----------------------------------------------------------------------------
(***************************************************************************)
(* Requests of the daemon                                                  *)
(***************************************************************************)

Free == Up /\ op = IdleOp
Request(task, w, step) ==
    op' = [task |-> task, worker |-> w, step |-> step, live |-> TRUE]
brokerSide == <<bscope, registry, table, procs, children, brokerFaults>>

\* The daemon boots a worker it has no record of, or whose end was confirmed.
AskLaunch(w) ==
    /\ Free /\ w \in dirs
    /\ known[w] = 0 \/ known[w] \in confirmed
    /\ Request("launch", w, "check")
    /\ UNCHANGED <<brokerSide, daemonSide, history>>

\* Stop and Status carry the daemon's record, which must be the broker's.
AskAbout(w, task) ==
    /\ Free /\ known[w] # 0
    /\ LET e == Entry(w) IN
       IF e.intent \/ e.identity # known[w] \/ (task = "status" /\ Matches(e))
       THEN UNCHANGED op
       ELSE Request(task, w, "drain")
    /\ UNCHANGED <<brokerSide, daemonSide, history>>

\* The daemon stops waiting; the broker does not notice.
GiveUp ==
    /\ op.live /\ BrokerFault
    /\ op' = [op EXCEPT !.live = FALSE]
    /\ UNCHANGED <<bscope, registry, table, procs, children, daemonSide, history>>

\* The VM is deleted, or created again under its name.
DeleteDirectory(w) ==
    /\ w \in dirs /\ ~(op.live /\ op.worker = w)
    /\ known[w] = 0 \/ known[w] \in confirmed
    /\ dirs' = dirs \ {w} /\ known' = [known EXCEPT ![w] = 0]
    /\ UNCHANGED <<brokerSide, op, history>>
CreateDirectory(w) ==
    /\ dirs' = dirs \union {w} /\ w \notin dirs
    /\ UNCHANGED <<brokerSide, op, known, history>>

----------------------------------------------------------------------------
(***************************************************************************)
(* Launch                                                                  *)
(***************************************************************************)

Launching(step) == op.task = "launch" /\ op.step = step

\* What an earlier launch left behind decides whether this one may go on.
LaunchCheck ==
    /\ Launching("check")
    /\ LET w == op.worker  e == Entry(w)
           live == Recorded(e) # {} \/ Members(table.root, w) # {}
       IN \/ /\ IF e.intent THEN live ELSE Matches(e)
             /\ Refuse /\ NoFault /\ UNCHANGED <<registry, table>>
          \/ /\ e.intent /\ ~live
             /\ LET new == WithEntry(w, [e EXCEPT !.intent = FALSE]) IN
                \/ Persisted(new) /\ UNCHANGED op
                \/ NotPersisted(new) /\ Refuse
          \/ /\ ~e.intent /\ ~Matches(e)
             /\ Step("launch", IF e = NoEntry THEN "allocate" ELSE "drain")
             /\ NoFault /\ UNCHANGED <<registry, table>>
    /\ UNCHANGED <<bscope, procs, children, daemonSide, history>>

\* plan: made from the VM's directory, whose contents may be refused.
PlanMade(w) == IF w \in dirs THEN BOOLEAN ELSE {FALSE}

\* The identity is consumed, durably, before a process exists.
Allocate ==
    /\ Launching("allocate")
    /\ LET w == op.worker
           new == [WithEntry(w, [intent |-> TRUE, identity |-> table.next + 1,
                                 pid |-> FALSE]) EXCEPT !.next = @ + 1]
       IN \E planned \in PlanMade(w) :
             IF /\ planned /\ Members(table.root, w) = {}
                /\ table.next < bscope.identities
             THEN \/ Persisted(new) /\ Step("launch", "spawn")
                  \/ NotPersisted(new) /\ Refuse
             ELSE Refuse /\ NoFault /\ UNCHANGED <<registry, table>>
    /\ UNCHANGED <<bscope, procs, children, daemonSide, history>>

\* The launcher starts and waits for its plan; its PID is known to the broker.
Spawn ==
    /\ Launching("spawn")
    /\ \/ /\ NoFault /\ op.worker \in dirs
          /\ procs' = procs \union {[worker |-> op.worker, main |-> TRUE,
                                     identity |-> Entry(op.worker).identity,
                                     stage |-> "blocked", plan |-> 0, group |-> 0]}
          /\ spawned' = spawned \union {Entry(op.worker).identity}
          /\ table' = WithEntry(op.worker, [Entry(op.worker) EXCEPT !.pid = TRUE])
          /\ Step("launch", "record")
       \/ /\ IF op.worker \in dirs THEN BrokerFault ELSE NoFault
          /\ Refuse /\ UNCHANGED <<procs, spawned, table>>
    /\ UNCHANGED <<bscope, registry, children, daemonSide, confirmed>>

\* The PID is durable before the launcher is told what to do.
RecordPid ==
    /\ Launching("record")
    /\ \/ Persisted(table) /\ Step("launch", "plan")
       \/ NotPersisted(table) /\ Step("abort", "kill")
    /\ UNCHANGED <<bscope, procs, children, daemonSide, history>>

\* The plan goes to a launcher that is still there.
SendPlan ==
    /\ Launching("plan")
    /\ LET waiting == Recorded(Entry(op.worker)) IN
       IF waiting = {} THEN Step("abort", "kill") /\ UNCHANGED procs
       ELSE /\ procs' = (procs \ waiting)
                        \union {[p EXCEPT !.stage = "setup", !.plan = table.root] :
                                  p \in waiting}
            /\ Step("launch", "ack")
    /\ UNCHANGED <<bscope, registry, table, children, daemonSide, history,
                   brokerFaults>>

\* The daemon saves the record it is given, or asks to stop what it cannot save.
Launched ==
    /\ children' = children \union {Entry(op.worker).identity}
    /\ IF op.live
       THEN \/ /\ known' = [known EXCEPT ![op.worker] = Entry(op.worker).identity]
               /\ op' = IdleOp
            \/ /\ op' = [op EXCEPT !.task = "stop", !.step = "drain"]
               /\ UNCHANGED known
       ELSE op' = IdleOp /\ UNCHANGED known

\* The acknowledgement pipe closes, by the worker's exec or the launcher's end,
\* or the broker waits for too long.
Acknowledged ==
    /\ Launching("ack")
    /\ LET w == op.worker  e == Entry(w)
           new == WithEntry(w, [e EXCEPT !.intent = FALSE])
           ready == \E p \in Recorded(e) : p.stage = "running"
       IN \/ /\ ready
             /\ \/ Persisted(new) /\ Launched
                \/ NotPersisted(new) /\ Step("abort", "kill")
                   /\ UNCHANGED <<children, known>>
          \/ /\ ~ready
             /\ IF Recorded(e) = {} THEN NoFault ELSE BrokerFault
             /\ Step("abort", "kill")
             /\ UNCHANGED <<registry, table, children, known>>
    /\ UNCHANGED <<bscope, procs, dirs, history>>

\* A failed launch ends its own child before it drains the group.
AbortLaunch ==
    /\ op.task = "abort" /\ op.step = "kill"
    /\ procs' = procs \ Recorded(Entry(op.worker))
    /\ table' = WithEntry(op.worker, [Entry(op.worker) EXCEPT !.intent = FALSE])
    /\ Step("abort", "drain")
    /\ UNCHANGED <<bscope, registry, children, daemonSide, history, brokerFaults>>

AbortSave ==
    /\ op.task = "abort" /\ op.step = "save"
    /\ Persisted(table) \/ NotPersisted(table)
    /\ Refuse
    /\ UNCHANGED <<bscope, procs, children, daemonSide, history>>

----------------------------------------------------------------------------
(***************************************************************************)
(* Drain: the only proof that a worker is gone                             *)
(***************************************************************************)

Draining == op.step = "drain"

\* Members are killed one by one, never one with foreign credentials.
DrainKill ==
    /\ Draining
    /\ \E p \in Members(table.root, op.worker) :
          HasCredentials(p) /\ procs' = procs \ {p}
    /\ UNCHANGED <<bscope, registry, table, op, children, daemonSide, history,
                   brokerFaults>>

\* A bug to catch: the recorded process is gone, so the worker is.
DrainedMainOnly(w) == ~Matches(Entry(w))

Drained(w) == Members(table.root, w) = {} /\ ~Matches(Entry(w))

DrainDone ==
    /\ Draining /\ Drained(op.worker)
    /\ children' = children \ {Entry(op.worker).identity}
    /\ CASE op.task = "launch" -> Step("launch", "allocate") /\ UNCHANGED confirmed
         [] op.task = "abort" -> Step("abort", "save") /\ UNCHANGED confirmed
         [] op.task = "maintain" -> op' = IdleOp /\ UNCHANGED confirmed
         [] OTHER -> /\ op' = IdleOp
                     /\ confirmed' = IF op.live
                                     THEN confirmed \union {Entry(op.worker).identity}
                                     ELSE confirmed
    /\ UNCHANGED <<bscope, registry, table, procs, daemonSide, spawned,
                   brokerFaults>>

\* Foreign credentials, a survivor outside the group, or five seconds.
DrainFails ==
    /\ Draining
    /\ IF \/ \E p \in Members(table.root, op.worker) : ~HasCredentials(p)
          \/ Members(table.root, op.worker) = {} /\ Matches(Entry(op.worker))
       THEN NoFault ELSE BrokerFault
    /\ IF op.task = "abort" THEN Step("abort", "save") ELSE Refuse
    /\ UNCHANGED <<bscope, registry, table, procs, children, daemonSide, history>>

\* maintain: a child that exited is reaped and its group drained.
Maintain(w) ==
    /\ Free
    /\ Entry(w).identity \in children /\ Recorded(Entry(w)) = {}
    /\ op' = [task |-> "maintain", worker |-> w, step |-> "drain", live |-> FALSE]
    /\ UNCHANGED <<brokerSide, daemonSide, history>>

----------------------------------------------------------------------------
(***************************************************************************)
(* Processes, restarts and compaction                                      *)
(***************************************************************************)

Become(p, q) ==
    /\ procs' = (procs \ {p}) \union q
    /\ UNCHANGED <<bscope, registry, table, op, children, daemonSide, history,
                   brokerFaults>>

\* execute: the group first, the credentials and the worker's code later.  The
\* plan names the configuration it was made under.
EnterGroup(p) ==
    p.stage = "setup" /\ Become(p, {[p EXCEPT !.stage = "grouped",
                                              !.group = p.plan]})
DropIdentity(p) ==
    p.stage = "grouped" /\ Become(p, {[p EXCEPT !.stage = "dropped"]})
Exec(p) == p.stage = "dropped" /\ Become(p, {[p EXCEPT !.stage = "running"]})

\* A launcher whose plan does not come, and one that cannot set its jail up.
NoPlan(p) == p.stage = "blocked" /\ Become(p, {})
SetupFails(p) == p.stage \in {"setup", "grouped", "dropped"} /\ Become(p, {})

\* A running worker has at most one descendant in this model.
Fork(p) ==
    /\ p.main /\ p.stage = "running"
    /\ Become(p, {p, [p EXCEPT !.main = FALSE]})
Exit(p) == p.stage = "running" /\ Become(p, {})

BrokerCrash ==
    /\ Up /\ BrokerFault
    /\ table' = Down /\ op' = IdleOp /\ children' = {}
    /\ UNCHANGED <<bscope, registry, procs, daemonSide, history>>

\* A changed configuration needs every recorded worker and old group gone.
Reconfigurable(root) ==
    root # registry.root =>
       \A w \in bscope.workers : LET e == registry.entries[w] IN
          e # NoEntry => Recorded(e) = {} /\ Members(registry.root, w) = {}

\* An interrupted launch must not have left a process.
Interrupted(root) ==
    \E w \in bscope.workers :
       /\ registry.entries[w].intent
       /\ Recorded(registry.entries[w]) # {} \/ Members(root, w) # {}

Opened(root) ==
    [registry EXCEPT !.root = root, !.entries =
        [w \in Workers |-> [registry.entries[w] EXCEPT !.intent = FALSE]]]

\* Config::load: the operator may have moved the cgroup root.
Loaded(root) == root = registry.root \/ bscope.reconfigure

\* Broker::open; a refused open leaves the broker down, as does a failed probe
\* after the registry was saved.
Open(root) ==
    /\ ~Up /\ Loaded(root) /\ Reconfigurable(root) /\ ~Interrupted(root)
    /\ registry' = Opened(root)
    /\ \/ table' = Opened(root) /\ NoFault
       \/ BrokerFault /\ UNCHANGED table
    /\ UNCHANGED <<bscope, procs, op, children, daemonSide, history>>

\* compact, with the service stopped: records of deleted and drained VMs go,
\* the allocation counter stays.
Compact(root) ==
    /\ ~Up /\ Loaded(root) /\ Reconfigurable(root) /\ ~Interrupted(root)
    /\ LET new == Opened(root)
           retired == {w \in bscope.workers \ dirs :
                         /\ new.entries[w] # NoEntry
                         /\ ~Matches(new.entries[w])
                         /\ Members(root, w) = {}}
       IN registry' = [new EXCEPT !.entries =
             [w \in Workers |-> IF w \in retired THEN NoEntry
                                ELSE new.entries[w]]]
    /\ UNCHANGED <<bscope, table, procs, op, children, daemonSide, history,
                   brokerFaults>>

ProcessStep(p) ==
    \/ NoPlan(p) \/ EnterGroup(p) \/ DropIdentity(p) \/ Exec(p)
    \/ SetupFails(p) \/ Fork(p) \/ Exit(p)

BrokerNext ==
    \/ \E w \in bscope.workers :
          \/ AskLaunch(w) \/ AskAbout(w, "stop") \/ AskAbout(w, "status")
          \/ DeleteDirectory(w) \/ CreateDirectory(w) \/ Maintain(w)
    \/ LaunchCheck \/ Allocate \/ Spawn \/ RecordPid \/ SendPlan \/ Acknowledged
    \/ AbortLaunch \/ AbortSave \/ DrainKill \/ DrainDone \/ DrainFails
    \/ GiveUp \/ BrokerCrash
    \/ \E root \in {1, 2} : Open(root) \/ Compact(root)
    \/ \E p \in procs : ProcessStep(p)

BrokerSpec == BrokerInit /\ [][BrokerNext]_brokerVars

----------------------------------------------------------------------------
(***************************************************************************)
(* Identities keep workers apart.  Of the processes that ever got a plan,  *)
(* two alive at once share a host identity exactly when they belong to the *)
(* same worker: no worker is started while a process of an earlier start   *)
(* of it survives, whatever was interrupted, and no identity is handed out *)
(* a second time after a restart, since it was durable before its process. *)
(***************************************************************************)
IdentitiesApart ==
    /\ \A p, q \in {r \in procs : r.stage # "blocked"} :
          p.worker = q.worker <=> p.identity = q.identity
    /\ \A i \in spawned : i <= registry.next

(***************************************************************************)
(* "Not alive" is a proof.  Once the broker has told the daemon that a     *)
(* worker is gone, by a stop or by a status, no process of that start is   *)
(* left, descendants included, and none appears later.                     *)
(***************************************************************************)
DeathIsConfirmed == \A p \in procs : p.identity \notin confirmed

(***************************************************************************)
(* The broker knows its workers: whom it launched under which identity,    *)
(* and which of them are gone.                                             *)
(***************************************************************************)
WorkersKnown == IdentitiesApart /\ DeathIsConfirmed
=============================================================================
