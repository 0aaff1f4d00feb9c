------------------------ MODULE WorkerBrokerProofs ------------------------
(***************************************************************************)
(* The worker broker never hands an identity out twice and never reports a *)
(* worker dead that has a process left, for any number of workers,         *)
(* identities, starts, persistence failures, crashes and reconfigurations. *)
(*                                                                         *)
(* A process that has got its plan is listed: both the saved registry and  *)
(* the broker's copy name its identity, its PID and the root it was sent   *)
(* to (Listed).  It is in its group, where a drain finds it, except while  *)
(* it sets up, and then its launch is under way or its intent is still in  *)
(* the saved registry (SetupInv).  A launcher without a plan is not        *)
(* listed, but it is the only process of its identity (ProcInv) and gets   *)
(* no plan once its launch is over.                                        *)
(***************************************************************************)
EXTENDS WorkerBroker, TLAPS

Entries == [intent : BOOLEAN, identity : Nat, pid : BOOLEAN]
Registry == [root : Nat, next : Nat, entries : [Workers -> Entries]]
Stages == {"blocked", "setup", "grouped", "dropped", "running"}
Process == [worker : Workers, identity : Nat, stage : Stages, plan : Nat, group : Nat,
            main : BOOLEAN]

\* A launcher is the only process of its identity, and only a worker forks.
ProcInv(P) ==
    /\ P \subseteq Process
    /\ \A p \in P : p.stage \in {"blocked", "setup"} => p.main
    /\ \A p \in P : p.stage \in {"grouped", "dropped", "running"} => p.group = p.plan
    /\ \A p, q \in P : p.identity = q.identity /\ (p.stage = "blocked" \/ (p.main /\ q.main))
                       => p = q

\* What a registry T, saved or in memory, says of the processes P.
Listed(T, P) ==
    /\ T \in Registry /\ T.root # 0
    /\ \A w \in Workers : T.entries[w].identity <= T.next
    /\ \A v, w \in Workers : T.entries[v].identity = T.entries[w].identity
                             /\ T.entries[v].identity # 0 => v = w
    /\ \A p \in P : \A w \in Workers : T.entries[w].identity = p.identity => w = p.worker
    /\ \A p \in P : p.stage # "blocked" =>
          /\ T.entries[p.worker].identity = p.identity /\ T.entries[p.worker].pid
          /\ p.plan = T.root

\* Every identity in use was durable before its process, and no confirmed one has a process.
SpawnInv ==
    /\ \A i \in spawned : i \in Nat /\ 0 < i /\ i <= registry.next
    /\ confirmed \subseteq spawned
    /\ \A p \in procs : p.identity \in spawned /\ p.identity \notin confirmed
    /\ \A p \in procs : p.worker \in bscope.workers

\* A process that sets up is outside its group: its launch, or the abort of it, is under way,
\* and the next open finds its intent.
SetupInv ==
    \A p \in procs : p.stage = "setup" =>
        /\ registry.entries[p.worker].intent
        /\ Up => /\ op.worker = p.worker
                 /\ \/ op.task = "launch" /\ op.step = "ack"
                    \/ op.task = "abort" /\ op.step = "kill"

\* The start i got its plan, so that all its processes are listed.
Shown(i) == i \in spawned /\ \A p \in procs : p.identity = i => p.stage # "blocked"

\* The daemon asks only about starts that got their plan.
KnownInv == known \in [Workers -> Nat] /\ \A w \in Workers : known[w] # 0 => Shown(known[w])

Op == [task : {"launch", "abort", "maintain", "stop", "status"}, worker : bscope.workers,
       step : {"check", "drain", "allocate", "spawn", "record", "plan", "ack", "kill", "save"},
       live : BOOLEAN]

\* What the request under way may count on at each of its steps.
OpInv ==
    /\ op = IdleOp \/ (Up /\ op \in Op)
    /\ Launching("spawn") => /\ Entry(op.worker).intent
                             /\ Entry(op.worker).identity = table.next /\ table.next # 0
                             /\ \A i \in spawned : i < table.next
    /\ Launching("record") \/ Launching("plan") =>
          Entry(op.worker).intent /\ Entry(op.worker).pid
    /\ Launching("spawn") \/ Launching("plan") => registry = table
    /\ Launching("spawn") \/ Launching("record") \/ Launching("plan") =>
          \A p \in procs : p.worker = op.worker => p.stage = "blocked"
    /\ op.task \in {"stop", "status"} => Shown(Entry(op.worker).identity)

BrokerInv ==
    /\ bscope.workers \subseteq Workers
    /\ ProcInv(procs)
    /\ Listed(registry, procs)
    /\ Up => Listed(table, procs) /\ registry.next <= table.next
    /\ SpawnInv
    /\ SetupInv
    /\ KnownInv
    /\ OpInv

-----------------------------------------------------------------------------
(* Registries and processes.                                               *)

\* The request of a broker that has none.
LEMMA IdleFields ==
    IdleOp.task = "idle" /\ IdleOp.step = "" /\ IdleOp.live = FALSE
  BY DEF IdleOp

\* The fields of a registry with another entry for w.
LEMMA WithFields ==
    ASSUME NEW T \in Registry, NEW w \in Workers, NEW e \in Entries
    PROVE  LET U == [T EXCEPT !.entries[w] = e] IN
           /\ U \in Registry /\ U.root = T.root /\ U.next = T.next /\ U.entries[w] = e
           /\ \A v \in Workers : v # w => U.entries[v] = T.entries[v]
  BY DEF Registry

\* The fields of an entry whose intent, or whose PID, is set.
LEMMA EntryFields ==
    ASSUME NEW e \in Entries, NEW b \in BOOLEAN
    PROVE  /\ [e EXCEPT !.intent = b] \in Entries /\ [e EXCEPT !.pid = b] \in Entries
           /\ [e EXCEPT !.intent = b].identity = e.identity
           /\ [e EXCEPT !.intent = b].pid = e.pid
           /\ [e EXCEPT !.pid = b].identity = e.identity
           /\ [e EXCEPT !.pid = b].intent = e.intent
           /\ [e EXCEPT !.pid = b].pid = b
  BY DEF Entries

\* What holds of some processes holds of fewer.
LEMMA Fewer ==
    ASSUME NEW P, NEW Q \in SUBSET P
    PROVE  /\ ProcInv(P) => ProcInv(Q)
           /\ \A T : Listed(T, P) => Listed(T, Q)
  BY Zenon DEF ProcInv, Listed

\* A registry U lists what T lists, if it sends to the same root and differs only in
\* intents, PIDs learnt and entries dropped of workers with no process but launchers.
LEMMA ListedAlso ==
    ASSUME NEW P, NEW T, Listed(T, P), NEW U \in Registry, U.root # 0, U.next = T.next,
           \A w \in Workers :
              \/ /\ U.entries[w].identity = T.entries[w].identity
                 /\ T.entries[w].pid => U.entries[w].pid
              \/ /\ U.entries[w].identity = 0
                 /\ \A p \in P : p.worker = w => p.stage = "blocked",
           \A p \in P : p.worker \in Workers /\ p.identity # 0,
           U.root = T.root \/ \A p \in P : p.stage = "blocked"
    PROVE  Listed(U, P)
  <1>1. \A w \in Workers : U.entries[w].identity <= U.next
    BY DEF Listed, Registry, Entries
  <1>2. ASSUME NEW v \in Workers, NEW w \in Workers,
               U.entries[v].identity = U.entries[w].identity, U.entries[v].identity # 0
        PROVE  v = w
    <2>1. /\ U.entries[v].identity = T.entries[v].identity
          /\ U.entries[w].identity = T.entries[w].identity
      BY <1>2, Zenon
    <2>2. T.entries[v].identity = T.entries[w].identity /\ T.entries[v].identity # 0
      BY <1>2, <2>1, Zenon
    <2> QED BY <2>2, Zenon DEF Listed
  <1>3. ASSUME NEW p \in P, NEW w \in Workers, U.entries[w].identity = p.identity
        PROVE  w = p.worker
    <2>1. T.entries[w].identity = p.identity
      BY <1>3, Zenon
    <2> QED BY <2>1, Zenon DEF Listed
  <1>4. \A p \in P : p.stage # "blocked" =>
          /\ U.entries[p.worker].identity = p.identity /\ U.entries[p.worker].pid
          /\ p.plan = U.root
    BY Zenon DEF Listed
  <1> QED BY <1>1, <1>2, <1>3, <1>4, Zenon DEF Listed

\* A registry that lists a worker's identity lists its launcher.
LEMMA ListedMore ==
    ASSUME NEW P, NEW T, Listed(T, P), NEW n, n.stage = "blocked", n.worker \in Workers,
           T.entries[n.worker].identity = n.identity, n.identity # 0
    PROVE  Listed(T, P \cup {n})
  <1>1. ASSUME NEW p \in P \cup {n}, NEW w \in Workers, T.entries[w].identity = p.identity
        PROVE  w = p.worker
    <2>1. CASE p \in P
      BY <1>1, <2>1, Zenon DEF Listed
    <2>2. CASE p = n
      <3>1. T.entries[w].identity = T.entries[n.worker].identity /\ T.entries[w].identity # 0
        BY <1>1, <2>2, Zenon
      <3>2. w = n.worker
        BY <3>1, Zenon DEF Listed
      <3> QED BY <2>2, <3>2, Zenon
    <2> QED BY <2>1, <2>2, Zenon
  <1>2. \A p \in P \cup {n} : p.stage # "blocked" =>
          /\ T.entries[p.worker].identity = p.identity /\ T.entries[p.worker].pid
          /\ p.plan = T.root
    BY Zenon DEF Listed
  <1> QED BY <1>1, <1>2, Zenon DEF Listed

\* An identity that was never used, for a worker with no process but launchers.
LEMMA ListedNew ==
    ASSUME NEW P, NEW T, Listed(T, P), NEW U \in Registry, NEW w \in Workers,
           U.root = T.root, U.next = T.next + 1, U.entries[w].identity = T.next + 1,
           \A v \in Workers : v # w => U.entries[v] = T.entries[v],
           \A p \in P : p.worker \in Workers /\ p.identity \in Nat /\ p.identity <= T.next,
           \A p \in P : p.worker = w => p.stage = "blocked"
    PROVE  Listed(U, P)
  <1>1. /\ T.next \in Nat /\ T \in Registry
        /\ \A v \in Workers : T.entries[v].identity \in Nat /\ T.entries[v].identity <= T.next
    BY DEF Listed, Registry, Entries
  <1>2. \A v \in Workers : U.entries[v].identity <= U.next
    BY <1>1
  <1>3. \A v \in Workers : v # w => U.entries[v].identity # T.next + 1
    BY <1>1
  <1>4. ASSUME NEW u \in Workers, NEW v \in Workers,
               U.entries[u].identity = U.entries[v].identity, U.entries[u].identity # 0
        PROVE  u = v
    <2>1. CASE u = w \/ v = w
      BY <1>3, <1>4, <2>1, Zenon
    <2>2. CASE u # w /\ v # w
      <3>1. T.entries[u].identity = T.entries[v].identity /\ T.entries[u].identity # 0
        BY <1>4, <2>2, Zenon
      <3> QED BY <3>1, Zenon DEF Listed
    <2> QED BY <2>1, <2>2, Zenon
  <1>5. \A p \in P : p.identity # T.next + 1
    BY <1>1
  <1>6. ASSUME NEW p \in P, NEW v \in Workers, U.entries[v].identity = p.identity
        PROVE  v = p.worker
    <2>1. v # w
      BY <1>5, <1>6, Zenon
    <2>2. T.entries[v].identity = p.identity
      BY <1>6, <2>1, Zenon
    <2> QED BY <2>2, Zenon DEF Listed
  <1>7. \A p \in P : p.stage # "blocked" =>
          /\ U.entries[p.worker].identity = p.identity /\ U.entries[p.worker].pid
          /\ p.plan = U.root
    BY Zenon DEF Listed
  <1> QED BY <1>2, <1>4, <1>6, <1>7, Zenon DEF Listed

\* A process in its group, in the place of p, which had its plan, or beside it.
LEMMA Moves ==
    ASSUME NEW P, NEW p \in P, ProcInv(P), NEW q \in Process,
           q.worker = p.worker, q.identity = p.identity, q.plan = p.plan,
           q.group = q.plan, q.stage \in {"grouped", "dropped", "running"},
           p.stage # "blocked", NEW Q, Q \in SUBSET (P \cup {q}), p \in Q => ~ q.main,
           q.main => p.main
    PROVE  /\ ProcInv(Q)
           /\ \A T : Listed(T, P) => Listed(T, Q)
  <1>1. q.stage # "blocked" /\ q.stage # "setup"
    OBVIOUS
  <1>2. Q \subseteq Process /\ \A r \in Q : r \in P \/ r = q
    BY Zenon DEF ProcInv
  <1>3. \A r \in Q : r.stage \in {"blocked", "setup"} => r.main
    BY <1>1, <1>2, Zenon DEF ProcInv
  <1>4. \A r \in Q : r.stage \in {"grouped", "dropped", "running"} => r.group = r.plan
    BY <1>2, Zenon DEF ProcInv
  <1>5. ASSUME NEW r \in Q, r \in P, r.identity = q.identity,
               r.stage = "blocked" \/ (r.main /\ q.main)
        PROVE  r = q
    BY <1>5, Zenon DEF ProcInv
  <1>6. \A r, t \in Q : r.identity = t.identity /\ (r.stage = "blocked" \/ (r.main /\ t.main))
                        => r = t
    BY <1>1, <1>2, <1>5, Zenon DEF ProcInv
  <1>7. ProcInv(Q)
    BY <1>2, <1>3, <1>4, <1>6, Zenon DEF ProcInv
  <1>8. ASSUME NEW T, Listed(T, P) PROVE Listed(T, Q)
    <2>1. ASSUME NEW r \in Q, NEW w \in Workers, T.entries[w].identity = r.identity
          PROVE  w = r.worker
      <3>1. CASE r \in P
        BY <1>8, <2>1, <3>1, Zenon DEF Listed
      <3>2. CASE r = q
        <4>1. T.entries[w].identity = p.identity
          BY <2>1, <3>2, Zenon
        <4>2. w = p.worker
          BY <1>8, <4>1, Zenon DEF Listed
        <4> QED BY <3>2, <4>2, Zenon
      <3> QED BY <1>2, <3>1, <3>2, Zenon
    <2>2. ASSUME NEW r \in Q, r.stage # "blocked"
          PROVE  /\ T.entries[r.worker].identity = r.identity /\ T.entries[r.worker].pid
                 /\ r.plan = T.root
      <3>1. CASE r \in P
        BY <1>8, <2>2, <3>1, Zenon DEF Listed
      <3>2. CASE r = q
        <4>1. /\ T.entries[p.worker].identity = p.identity /\ T.entries[p.worker].pid
              /\ p.plan = T.root
          BY <1>8, Zenon DEF Listed
        <4> QED BY <3>2, <4>1, Zenon
      <3> QED BY <1>2, <3>1, <3>2, Zenon
    <2> QED BY <1>8, <2>1, <2>2, Zenon DEF Listed
  <1> QED BY <1>7, <1>8, Zenon
-----------------------------------------------------------------------------
(* What the invariant says, and what is left to show of a step.            *)

\* The types of processes and entries.
LEMMA InvTypes ==
    ASSUME BrokerInv
    PROVE  /\ registry \in Registry /\ registry.next \in Nat
           /\ Up => table \in Registry /\ table.next \in Nat /\ registry.next <= table.next
           /\ Up => \A w \in Workers : Entry(w) \in Entries /\ Entry(w).identity \in Nat
                                       /\ Entry(w).identity <= table.next
           /\ \A p \in procs : /\ p \in Process /\ p.worker \in Workers
                               /\ p.worker \in bscope.workers
                               /\ p.identity \in Nat /\ p.identity # 0
                               /\ p.identity <= registry.next
  <1>1. registry \in Registry /\ registry.next \in Nat
    BY DEF BrokerInv, Listed, Registry
  <1>2. Up => table \in Registry /\ table.next \in Nat /\ registry.next <= table.next
    BY DEF BrokerInv, Listed, Registry
  <1>3. Up => \A w \in Workers : Entry(w) \in Entries /\ Entry(w).identity \in Nat
                                 /\ Entry(w).identity <= table.next
    BY DEF BrokerInv, Listed, Registry, Entries, Entry
  <1>4. \A p \in procs : p \in Process /\ p.worker \in Workers
    BY DEF BrokerInv, ProcInv, Process
  <1>5. \A p \in procs : /\ p.worker \in bscope.workers /\ p.identity \in Nat
                         /\ 0 < p.identity /\ p.identity <= registry.next
    BY Zenon DEF BrokerInv, SpawnInv
  <1>6. \A p \in procs : p.identity # 0
    BY <1>5
  <1> QED BY <1>1, <1>2, <1>3, <1>4, <1>5, <1>6, Zenon

\* The request in work.
LEMMA AtWork ==
    ASSUME BrokerInv, op # IdleOp
    PROVE  Up /\ op \in Op /\ op.worker \in bscope.workers /\ op.worker \in Workers
  <1>1. Up /\ op \in Op /\ bscope.workers \subseteq Workers
    BY Zenon DEF BrokerInv, OpInv
  <1> QED BY <1>1 DEF Op

\* No process sets up except during its launch or while the launch is given up.
LEMMA NoneSetsUp ==
    ASSUME BrokerInv, Up, ~ Launching("ack"), ~ (op.task = "abort" /\ op.step = "kill")
    PROVE  \A p \in procs : p.stage # "setup"
  BY Zenon DEF BrokerInv, SetupInv, Launching

\* A worker whose group is empty has no process but launchers.
LEMMA Emptied ==
    ASSUME BrokerInv, NEW T, Listed(T, procs), NEW w, Members(T.root, w) = {},
           \A p \in procs : p.stage # "setup"
    PROVE  \A p \in procs : p.worker = w => p.stage = "blocked"
  <1> SUFFICES ASSUME NEW p \in procs, p.worker = w, p.stage # "blocked"
               PROVE  FALSE
    BY Zenon
  <1>1. p.stage \in {"grouped", "dropped", "running"}
    BY InvTypes DEF Process, Stages
  <1>2. p.group = p.plan /\ p.plan = T.root
    BY <1>1, Zenon DEF BrokerInv, ProcInv, Listed
  <1> QED BY <1>2, Zenon DEF Members

\* Processes come to an end, or go on in their group; nothing else changes.
LEMMA ProcessMoves ==
    ASSUME BrokerInv,
           UNCHANGED <<bscope, registry, table, op, known, confirmed, spawned>>,
           ProcInv(procs'), \A T : Listed(T, procs) => Listed(T, procs'),
           \A q \in procs' : \E p \in procs :
               /\ q.worker = p.worker /\ q.identity = p.identity
               /\ q = p \/ (p.stage # "blocked" /\ q.stage # "blocked" /\ q.stage # "setup")
    PROVE  BrokerInv'
  <1>1. Listed(registry', procs') /\ (Up' => Listed(table', procs') /\ registry'.next <= table'.next)
    BY Zenon DEF BrokerInv, Up
  <1>2. SpawnInv'
    BY Zenon DEF BrokerInv, SpawnInv
  <1>3. SetupInv'
    BY Zenon DEF BrokerInv, SetupInv, Up
  <1>4. \A i : Shown(i) => Shown(i)'
    BY Zenon DEF Shown
  <1>5. KnownInv'
    BY <1>4, Zenon DEF BrokerInv, KnownInv
  <1>6. OpInv'
    <2>1. op' = IdleOp \/ (Up' /\ op' \in Op')
      BY Zenon DEF BrokerInv, OpInv, Up, Op
    <2>2. Launching("spawn")' \/ Launching("record")' \/ Launching("plan")' =>
            \A p \in procs' : p.worker = op'.worker => p.stage = "blocked"
      <3> SUFFICES ASSUME Launching("spawn") \/ Launching("record") \/ Launching("plan"),
                          NEW q \in procs', q.worker = op.worker
                   PROVE  q.stage = "blocked"
        BY Zenon DEF Launching
      <3>1. \A p \in procs : p.worker = op.worker => p.stage = "blocked"
        BY Zenon DEF BrokerInv, OpInv
      <3> QED BY <3>1, Zenon
    <2>3. op'.task \in {"stop", "status"} => Shown(Entry(op.worker).identity)'
      BY <1>4, Zenon DEF BrokerInv, OpInv, Entry
    <2> QED BY <2>1, <2>2, <2>3, Zenon DEF BrokerInv, OpInv, Launching, Entry
  <1> QED BY <1>1, <1>2, <1>3, <1>5, <1>6, Zenon DEF BrokerInv

\* A step of the broker that starts no process and gives none its plan.
LEMMA BrokerMoves ==
    ASSUME BrokerInv, UNCHANGED <<bscope, spawned, confirmed>>, procs' \in SUBSET procs,
           Listed(registry', procs'),
           Up' => Listed(table', procs') /\ registry'.next <= table'.next,
           registry.next <= registry'.next, registry'.next \in Nat,
           known' = known \/ KnownInv', SetupInv', OpInv'
    PROVE  BrokerInv'
  <1>1. \A i \in spawned : i <= registry'.next
    <2>1. \A i \in spawned : i \in Nat /\ i <= registry.next
      BY Zenon DEF BrokerInv, SpawnInv
    <2> QED BY <2>1, InvTypes
  <1>2. SpawnInv'
    BY <1>1, Zenon DEF BrokerInv, SpawnInv
  <1>3. \A i : Shown(i) => Shown(i)'
    BY Zenon DEF Shown
  <1>4. KnownInv'
    BY <1>3, Zenon DEF BrokerInv, KnownInv
  <1>5. ProcInv(procs')
    BY Fewer, Zenon DEF BrokerInv
  <1> QED BY <1>2, <1>4, <1>5, Zenon DEF BrokerInv

\* ... and its registry too.
LEMMA OpMoves ==
    ASSUME BrokerInv, SetupInv', OpInv',
           UNCHANGED <<bscope, procs, spawned, confirmed, known, registry, table>>
    PROVE  BrokerInv'
  <1>1. registry.next <= registry'.next /\ registry'.next \in Nat /\ procs' \in SUBSET procs
    BY InvTypes
  <1> QED BY <1>1, BrokerMoves, Zenon DEF BrokerInv, Up

\* A request that has nothing to remember.
LEMMA CalmOp ==
    ASSUME op' = IdleOp \/ (Up' /\ op' \in Op'), op'.task # "stop", op'.task # "status",
           op'.task = "launch" => op'.step \notin {"spawn", "record", "plan"}
    PROVE  OpInv'
  BY Zenon DEF OpInv, Launching

\* What is so of the broker's copy with the entry e for w.
Rewrote(new, w, e) ==
    /\ Listed(new, procs) /\ new.entries[w] = e /\ new.next = table.next
    /\ registry.next <= new.next

\* The broker's copy with another intent for w, or with its PID.
LEMMA Rewrite ==
    ASSUME BrokerInv, Up, NEW w \in Workers, NEW e \in Entries, e.identity = Entry(w).identity,
           Entry(w).pid => e.pid
    PROVE  Rewrote(WithEntry(w, e), w, e)
  <1> DEFINE new == WithEntry(w, e)
  <1>1. table \in Registry /\ Listed(table, procs)
    BY InvTypes, Zenon DEF BrokerInv
  <1>2. /\ new \in Registry /\ new.root = table.root /\ new.next = table.next
        /\ new.entries[w] = e
        /\ \A v \in Workers : v # w => new.entries[v] = table.entries[v]
    BY <1>1, WithFields DEF WithEntry
  <1> HIDE DEF new
  <1>3. \A v \in Workers : /\ new.entries[v].identity = table.entries[v].identity
                           /\ table.entries[v].pid => new.entries[v].pid
    BY <1>2, Zenon DEF Entry
  <1>4. new.root # 0 /\ registry.next <= new.next
    BY <1>1, <1>2, InvTypes, Zenon DEF Listed
  <1>5. \A v \in Workers :
           \/ /\ new.entries[v].identity = table.entries[v].identity
              /\ table.entries[v].pid => new.entries[v].pid
           \/ /\ new.entries[v].identity = 0
              /\ \A p \in procs : p.worker = v => p.stage = "blocked"
    BY <1>3, Zenon
  <1>6. \A p \in procs : p.worker \in Workers /\ p.identity # 0
    BY InvTypes, Zenon
  <1>7. Listed(new, procs)
    BY <1>1, <1>2, <1>4, <1>5, <1>6, ListedAlso, Zenon
  <1> QED BY <1>2, <1>4, <1>7, Zenon DEF Rewrote, new

\* persist, with and without success.
LEMMA Saves ==
    ASSUME BrokerInv, NEW new, Listed(new, procs), registry.next <= new.next,
           Persisted(new) \/ NotPersisted(new)
    PROVE  /\ table' = new /\ Up' /\ registry' \in {registry, new}
           /\ Listed(registry', procs) /\ registry'.next \in Nat
           /\ registry.next <= registry'.next /\ registry'.next <= new.next
  <1>1. table' = new /\ registry' \in {registry, new}
    BY Zenon DEF Persisted, NotPersisted
  <1>2. new.next \in Nat /\ new.root # 0
    BY DEF Listed, Registry
  <1>3. Up'
    BY <1>1, <1>2 DEF Up, Down
  <1>4. /\ Listed(registry', procs) /\ registry'.next \in Nat
        /\ registry.next <= registry'.next /\ registry'.next <= new.next
    BY <1>1, <1>2, InvTypes DEF BrokerInv
  <1> QED BY <1>1, <1>3, <1>4
-----------------------------------------------------------------------------
(* Requests and the daemon.                                                *)

\* The daemon asks for a launch.
LEMMA AskLaunchStep ==
    ASSUME BrokerInv, NEW w \in bscope.workers, AskLaunch(w)
    PROVE  BrokerInv'
  <1>1. /\ Up /\ op = IdleOp /\ UNCHANGED <<bscope, procs, spawned, confirmed, known, registry, table>>
        /\ op' = [task |-> "launch", worker |-> w, step |-> "check", live |-> TRUE]
    BY Zenon DEF AskLaunch, Free, Request, brokerSide, daemonSide, history
  <1>2. \A p \in procs : p.stage # "setup"
    BY <1>1, NoneSetsUp, Zenon DEF IdleOp, Launching
  <1>3. op' \in Op' /\ op'.task = "launch" /\ op'.step = "check"
    BY <1>1 DEF Op
  <1>4. OpInv'
    BY <1>1, <1>3, CalmOp DEF Up
  <1>5. SetupInv'
    BY <1>1, <1>2, Zenon DEF SetupInv
  <1> QED BY <1>1, <1>4, <1>5, OpMoves, Zenon

\* The daemon asks for a stop or a status.
LEMMA AskAboutStep ==
    ASSUME BrokerInv, NEW w \in bscope.workers, NEW t \in {"stop", "status"}, AskAbout(w, t)
    PROVE  BrokerInv'
  <1>1. /\ Up /\ op = IdleOp /\ UNCHANGED <<bscope, procs, spawned, confirmed, known, registry, table>>
        /\ known[w] # 0
    BY Zenon DEF AskAbout, Free, brokerSide, daemonSide, history
  <1>2. \A p \in procs : p.stage # "setup"
    BY <1>1, NoneSetsUp, Zenon DEF IdleOp, Launching
  <1>3. SetupInv'
    BY <1>1, <1>2, Zenon DEF SetupInv
  <1>4. CASE op' = op
    <2>1. OpInv'
      BY <1>1, <1>4, CalmOp, Zenon DEF IdleOp
    <2> QED BY <1>1, <1>3, <2>1, OpMoves, Zenon
  <1>5. CASE op' = [task |-> t, worker |-> w, step |-> "drain", live |-> TRUE]
             /\ Entry(w).identity = known[w]
    <2>1. op' \in Op' /\ op'.task # "launch" /\ op'.worker = w
      BY <1>1, <1>5 DEF Op
    <2>2. Shown(Entry(w).identity)'
      <3>1. w \in Workers
        BY Zenon DEF BrokerInv
      <3>2. Shown(known[w])
        BY <1>1, <3>1, Zenon DEF BrokerInv, KnownInv
      <3>3. Entry(w)'.identity = known[w]
        BY <1>1, <1>5, Zenon DEF Entry
      <3> QED BY <1>1, <3>2, <3>3, Zenon DEF Shown
    <2>3. OpInv'
      BY <1>1, <2>1, <2>2, Zenon DEF OpInv, Launching, Up
    <2> QED BY <1>1, <1>3, <2>3, OpMoves, Zenon
  <1> QED BY <1>4, <1>5, Zenon DEF AskAbout, Request

\* The daemon gives up on its request.
LEMMA GiveUpStep ==
    ASSUME BrokerInv, GiveUp
    PROVE  BrokerInv'
  <1>1. /\ UNCHANGED <<bscope, procs, spawned, confirmed, known, registry, table>>
        /\ op.live /\ op' = [op EXCEPT !.live = FALSE]
    BY Zenon DEF GiveUp, daemonSide, history
  <1>2. op # IdleOp
    BY <1>1, IdleFields, Zenon
  <1>3. op' \in Op' /\ op'.task = op.task /\ op'.worker = op.worker /\ op'.step = op.step
    BY <1>1, <1>2, AtWork, Zenon DEF Op
  <1>4. Up /\ Up'
    BY <1>1, <1>2, AtWork, Zenon DEF Up
  <1>5. OpInv'
    <2>1. OpInv
      BY Zenon DEF BrokerInv
    <2>2. /\ Launching("spawn")' <=> Launching("spawn")
          /\ Launching("record")' <=> Launching("record")
          /\ Launching("plan")' <=> Launching("plan")
      BY <1>3, Zenon DEF Launching
    <2>3. Entry(op.worker)' = Entry(op.worker)
      BY <1>1, <1>3, Zenon DEF Entry
    <2>4. \A i : Shown(i) => Shown(i)'
      BY <1>1, Zenon DEF Shown
    <2>5. Shown(Entry(op.worker).identity) => Shown(Entry(op.worker).identity)'
      <3>1. PICK i : i = Entry(op.worker).identity
        OBVIOUS
      <3>2. i = Entry(op.worker)'.identity
        BY <2>3, <3>1, Zenon
      <3>3. Shown(i) => i \in spawned' /\ \A p \in procs' : p.identity = i => p.stage # "blocked"
        BY <1>1, Zenon DEF Shown
      <3> QED BY <3>1, <3>2, <3>3, Zenon DEF Shown
    <2> HIDE DEF Launching, Entry, Shown
    <2> QED BY <1>1, <1>3, <1>4, <2>1, <2>2, <2>3, <2>5, Zenon DEF OpInv
  <1>6. SetupInv'
    BY <1>1, <1>3, Zenon DEF BrokerInv, SetupInv, Up
  <1> QED BY <1>1, <1>5, <1>6, OpMoves, Zenon

\* The VM's directory goes or comes.
LEMMA DirectoryStep ==
    ASSUME BrokerInv, NEW w \in bscope.workers, DeleteDirectory(w) \/ CreateDirectory(w)
    PROVE  BrokerInv'
  <1>1. UNCHANGED <<bscope, procs, spawned, confirmed, registry, table, op>>
    BY Zenon DEF DeleteDirectory, CreateDirectory, brokerSide, history
  <1>2. known' \in {known, [known EXCEPT ![w] = 0]}
    BY Zenon DEF DeleteDirectory, CreateDirectory
  <1>3. known' \in [Workers -> Nat] /\ \A v \in Workers : known'[v] \in {known[v], 0}
    BY <1>2 DEF BrokerInv, KnownInv
  <1>4. KnownInv'
    BY <1>1, <1>3, Zenon DEF BrokerInv, KnownInv, Shown
  <1> QED BY <1>1, <1>4, Zenon DEF BrokerInv, SpawnInv, SetupInv, OpInv, Op, Up, Launching,
                                   Entry, Shown

\* A child that exited is reaped.
LEMMA MaintainStep ==
    ASSUME BrokerInv, NEW w \in bscope.workers, Maintain(w)
    PROVE  BrokerInv'
  <1>1. /\ Up /\ op = IdleOp /\ UNCHANGED <<bscope, procs, spawned, confirmed, known, registry, table>>
        /\ op' = [task |-> "maintain", worker |-> w, step |-> "drain", live |-> FALSE]
    BY Zenon DEF Maintain, Free, brokerSide, daemonSide, history
  <1>2. \A p \in procs : p.stage # "setup"
    BY <1>1, NoneSetsUp, Zenon DEF IdleOp, Launching
  <1>3. op' \in Op' /\ op'.task = "maintain"
    BY <1>1 DEF Op
  <1>4. OpInv'
    BY <1>1, <1>3, CalmOp DEF Up
  <1>5. SetupInv'
    BY <1>1, <1>2, Zenon DEF SetupInv
  <1> QED BY <1>1, <1>4, <1>5, OpMoves, Zenon

-----------------------------------------------------------------------------
(* Launch.                                                                 *)

\* The request goes on to another step of a task, or ends.
LEMMA NextStep ==
    ASSUME BrokerInv, op # IdleOp, bscope' = bscope, Up',
           NEW t \in {"launch", "abort", "stop"},
           NEW s \in {"check", "drain", "allocate", "spawn", "record", "plan", "ack", "kill", "save"},
           op' = [op EXCEPT !.task = t, !.step = s]
    PROVE  op' \in Op' /\ op'.task = t /\ op'.step = s /\ op'.worker = op.worker
  BY AtWork, Zenon DEF Op

\* The broker decides whether an earlier launch lets this one go on.
LEMMA LaunchCheckStep ==
    ASSUME BrokerInv, LaunchCheck
    PROVE  BrokerInv'
  <1> DEFINE w == op.worker
             e == Entry(w)
             new == WithEntry(w, [e EXCEPT !.intent = FALSE])
  <1>1. /\ UNCHANGED <<bscope, procs, spawned, confirmed, known>>
        /\ op.task = "launch" /\ op.step = "check"
    BY Zenon DEF LaunchCheck, Launching, daemonSide, history
  <1>2. op # IdleOp
    BY <1>1, IdleFields, Zenon
  <1>3. Up /\ op \in Op /\ w \in Workers /\ e \in Entries /\ table \in Registry
        /\ bscope.workers \subseteq Workers
    BY <1>2, AtWork, InvTypes, Zenon DEF BrokerInv
  <1>4. \A p \in procs : p.stage # "setup"
    BY <1>1, <1>3, NoneSetsUp DEF Launching
  <1>5. SetupInv'
    BY <1>1, <1>4, Zenon DEF SetupInv
  <1>6. CASE op' = IdleOp /\ UNCHANGED <<registry, table>>
    <2>1. OpInv'
      BY <1>6, CalmOp, Zenon DEF IdleOp
    <2> QED BY <1>1, <1>5, <1>6, <2>1, OpMoves, Zenon
  <1>7. CASE /\ Persisted(new) \/ NotPersisted(new)
             /\ op' \in {op, IdleOp}
    <2>1. [e EXCEPT !.intent = FALSE] \in Entries /\ [e EXCEPT !.intent = FALSE].identity = e.identity
          /\ [e EXCEPT !.intent = FALSE].pid = e.pid
      BY <1>3, EntryFields, Zenon
    <2>2. new = WithEntry(w, [e EXCEPT !.intent = FALSE])
      OBVIOUS
    <2> HIDE DEF new
    <2>3. Listed(new, procs) /\ registry.next <= new.next
      <3>1. Rewrote(new, w, [e EXCEPT !.intent = FALSE])
        BY <1>3, <2>1, <2>2, Rewrite, Zenon
      <3> QED BY <3>1, Zenon DEF Rewrote
    <2>5. /\ table' = new /\ Up' /\ Listed(registry', procs) /\ registry'.next \in Nat
          /\ registry.next <= registry'.next /\ registry'.next <= new.next
      BY <1>7, <2>3, Saves
    <2>6. op' = IdleOp \/ (op' \in Op' /\ op'.task = "launch" /\ op'.step = "check")
      BY <1>1, <1>3, <1>7, Zenon DEF Op
    <2>7. OpInv'
      BY <2>5, <2>6, CalmOp, IdleFields, Zenon
    <2>8. procs' \in SUBSET procs
      BY <1>1, Zenon
    <2> QED BY <1>1, <1>5, <2>3, <2>5, <2>7, <2>8, BrokerMoves, Zenon
  <1>8. CASE /\ UNCHANGED <<registry, table>>
             /\ op' = [op EXCEPT !.task = "launch", !.step = IF e = NoEntry THEN "allocate" ELSE "drain"]
    <2>1. Up'
      BY <1>3, <1>8, Zenon DEF Up
    <2>2. op' \in Op' /\ op'.task = "launch" /\ op'.step \in {"allocate", "drain"}
      <3>1. CASE e = NoEntry
        BY <1>1, <1>2, <1>8, <2>1, <3>1, NextStep
      <3>2. CASE e # NoEntry
        BY <1>1, <1>2, <1>8, <2>1, <3>2, NextStep
      <3> QED BY <3>1, <3>2
    <2>3. OpInv'
      BY <2>1, <2>2, CalmOp
    <2> QED BY <1>1, <1>5, <1>8, <2>3, OpMoves, Zenon
  <1>9. \/ op' = IdleOp /\ UNCHANGED <<registry, table>>
        \/ (Persisted(new) \/ NotPersisted(new)) /\ op' \in {op, IdleOp}
        \/ /\ UNCHANGED <<registry, table>>
           /\ op' = [op EXCEPT !.task = "launch", !.step = IF e = NoEntry THEN "allocate" ELSE "drain"]
    BY Zenon DEF LaunchCheck, Refuse, Step
  <1> QED BY <1>6, <1>7, <1>8, <1>9

\* An identity is consumed and recorded, or the launch refused.
LEMMA AllocateStep ==
    ASSUME BrokerInv, Allocate
    PROVE  BrokerInv'
  <1> DEFINE w == op.worker
             e == [intent |-> TRUE, identity |-> table.next + 1, pid |-> FALSE]
             new == [WithEntry(w, e) EXCEPT !.next = @ + 1]
  <1>1. /\ UNCHANGED <<bscope, procs, spawned, confirmed, known>>
        /\ op.task = "launch" /\ op.step = "allocate"
    BY Zenon DEF Allocate, Launching, daemonSide, history
  <1>2. op # IdleOp
    BY <1>1, IdleFields, Zenon
  <1>3. /\ Up /\ op \in Op /\ w \in Workers /\ table \in Registry /\ table.next \in Nat
        /\ registry.next <= table.next /\ registry.next \in Nat /\ Listed(table, procs)
    BY <1>2, AtWork, InvTypes, Zenon DEF BrokerInv
  <1>4. \A p \in procs : p.stage # "setup"
    BY <1>1, <1>3, NoneSetsUp DEF Launching
  <1>5. SetupInv'
    BY <1>1, <1>4, Zenon DEF SetupInv
  <1>6. CASE op' = IdleOp /\ UNCHANGED <<registry, table>>
    <2>1. OpInv'
      BY <1>6, CalmOp, Zenon DEF IdleOp
    <2> QED BY <1>1, <1>5, <1>6, <2>1, OpMoves, Zenon
  <1>7. CASE /\ Members(table.root, w) = {}
             /\ \/ Persisted(new) /\ op' = [op EXCEPT !.task = "launch", !.step = "spawn"]
                \/ NotPersisted(new) /\ op' = IdleOp
    <2>1. e \in Entries /\ e.identity = table.next + 1 /\ e.intent
      BY <1>3 DEF Entries
    <2>2. /\ new \in Registry /\ new.root = table.root /\ new.next = table.next + 1
          /\ new.entries[w] = e /\ \A v \in Workers : v # w => new.entries[v] = table.entries[v]
      <3> DEFINE U == WithEntry(w, e)
      <3> HIDE DEF e
      <3>1. /\ U \in Registry /\ U.root = table.root /\ U.next = table.next /\ U.entries[w] = e
            /\ \A v \in Workers : v # w => U.entries[v] = table.entries[v]
        BY <1>3, <2>1, WithFields DEF WithEntry
      <3> HIDE DEF U
      <3>2. /\ [U EXCEPT !.next = @ + 1] \in Registry
            /\ [U EXCEPT !.next = @ + 1].root = U.root
            /\ [U EXCEPT !.next = @ + 1].next = U.next + 1
            /\ [U EXCEPT !.next = @ + 1].entries = U.entries
        BY <3>1 DEF Registry
      <3>3. new = [U EXCEPT !.next = @ + 1]
        BY DEF U
      <3> HIDE DEF new
      <3> QED BY <3>1, <3>2, <3>3, Zenon
    <2> HIDE DEF new, e
    <2>3. \A p \in procs : p.worker = w => p.stage = "blocked"
      BY <1>3, <1>4, <1>7, Emptied, Zenon
    <2>4. \A p \in procs : p.worker \in Workers /\ p.identity \in Nat /\ p.identity <= table.next
      BY <1>3, InvTypes
    <2>5. Listed(new, procs)
      BY <1>3, <2>1, <2>2, <2>3, <2>4, ListedNew, Zenon
    <2>6. registry.next <= new.next /\ new.next # 0
      BY <1>3, <2>2
    <2>7. /\ table' = new /\ Up' /\ Listed(registry', procs) /\ registry'.next \in Nat
          /\ registry.next <= registry'.next /\ registry'.next <= new.next
      BY <1>7, <2>5, <2>6, Saves, Zenon
    <2>8. OpInv'
      <3>1. CASE op' = IdleOp
        BY <3>1, CalmOp, Zenon DEF IdleOp
      <3>2. CASE Persisted(new) /\ op' = [op EXCEPT !.task = "launch", !.step = "spawn"]
        <4>1. op' \in Op' /\ op'.task = "launch" /\ op'.step = "spawn" /\ op'.worker = w
          BY <1>1, <1>2, <2>7, <3>2, NextStep
        <4>2. \A i \in spawned : i < new.next
          <5>1. \A i \in spawned : i \in Nat /\ i <= registry.next
            BY Zenon DEF BrokerInv, SpawnInv
          <5> QED BY <1>3, <2>2, <5>1
        <4>3. registry' = new /\ table'.entries[w] = e
          BY <2>2, <2>7, <3>2, Zenon DEF Persisted
        <4> QED BY <1>1, <2>1, <2>2, <2>3, <2>6, <2>7, <4>1, <4>2, <4>3 DEF OpInv, Launching, Entry
      <3> QED BY <1>7, <3>1, <3>2, Zenon
    <2>9. procs' \in SUBSET procs
      BY <1>1, Zenon
    <2> QED BY <1>1, <1>5, <2>5, <2>7, <2>8, <2>9, BrokerMoves, Zenon
  <1>8. \/ op' = IdleOp /\ UNCHANGED <<registry, table>>
        \/ /\ Members(table.root, w) = {}
           /\ \/ Persisted(new) /\ op' = [op EXCEPT !.task = "launch", !.step = "spawn"]
              \/ NotPersisted(new) /\ op' = IdleOp
    BY Zenon DEF Allocate, Refuse, Step
  <1> QED BY <1>6, <1>7, <1>8, Zenon

\* The launcher starts, or cannot be started.
LEMMA SpawnStep ==
    ASSUME BrokerInv, Spawn
    PROVE  BrokerInv'
  <1> DEFINE w == op.worker
             e == Entry(w)
             n == [worker |-> w, main |-> TRUE, identity |-> e.identity, stage |-> "blocked",
                   plan |-> 0, group |-> 0]
             new == WithEntry(w, [e EXCEPT !.pid = TRUE])
  <1>1. UNCHANGED <<bscope, confirmed, known, registry>> /\ op.task = "launch" /\ op.step = "spawn"
    BY Zenon DEF Spawn, Launching, daemonSide
  <1>2. op # IdleOp
    BY <1>1, IdleFields, Zenon
  <1>3. /\ Up /\ op \in Op /\ w \in Workers /\ w \in bscope.workers /\ table \in Registry
        /\ table.next \in Nat /\ Listed(table, procs) /\ Listed(registry, procs) /\ e \in Entries
    BY <1>2, AtWork, InvTypes, Zenon DEF BrokerInv
  <1>4. \A p \in procs : p.stage # "setup"
    BY <1>1, <1>3, NoneSetsUp DEF Launching
  <1>5. /\ e.intent /\ e.identity = table.next /\ e.identity # 0 /\ registry = table
        /\ (\A i \in spawned : i < table.next)
        /\ \A p \in procs : p.worker = w => p.stage = "blocked"
    BY <1>1, Zenon DEF BrokerInv, OpInv, Launching
  <1>6. CASE op' = IdleOp /\ UNCHANGED <<procs, spawned, table>>
    <2>1. OpInv'
      BY <1>6, CalmOp, Zenon DEF IdleOp
    <2>2. SetupInv'
      BY <1>4, <1>6, Zenon DEF SetupInv
    <2> QED BY <1>1, <1>6, <2>1, <2>2, OpMoves, Zenon
  <1>7. CASE /\ procs' = procs \cup {n} /\ spawned' = spawned \cup {e.identity} /\ table' = new
             /\ op' = [op EXCEPT !.task = "launch", !.step = "record"]
    <2>1. /\ n \in Process /\ n.stage = "blocked" /\ n.main /\ n.worker = w
          /\ n.identity = e.identity
      BY <1>3 DEF Process, Stages, Entries
    <2>2. /\ [e EXCEPT !.pid = TRUE] \in Entries /\ [e EXCEPT !.pid = TRUE].identity = e.identity
          /\ [e EXCEPT !.pid = TRUE].pid /\ [e EXCEPT !.pid = TRUE].intent = e.intent
      BY <1>3, EntryFields, Zenon
    <2>3. new = WithEntry(w, [e EXCEPT !.pid = TRUE])
      OBVIOUS
    <2> HIDE DEF new, n
    <2>4. Listed(new, procs) /\ new.entries[w] = [e EXCEPT !.pid = TRUE] /\ new.next = table.next
          /\ registry.next <= new.next
      <3>1. Rewrote(new, w, [e EXCEPT !.pid = TRUE])
        BY <1>3, <2>2, <2>3, Rewrite, Zenon
      <3> QED BY <3>1, Zenon DEF Rewrote
    <2>5. Listed(registry', procs') /\ Listed(table', procs')
      BY <1>1, <1>3, <1>5, <1>7, <2>1, <2>2, <2>4, ListedMore, Zenon DEF Entry
    <2>6. Up' /\ registry'.next <= table'.next
      <3>1. new.root # 0
        BY <2>4, Zenon DEF Listed
      <3> QED BY <1>1, <1>7, <2>4, <3>1 DEF Up, Down
    <2>7. n.identity \notin spawned /\ \A p \in procs : p.identity # n.identity
      <3>1. n.identity \notin spawned
        BY <1>3, <1>5, <2>1
      <3> QED BY <3>1, Zenon DEF BrokerInv, SpawnInv
    <2>8. ProcInv(procs')
      BY <1>7, <2>1, <2>7, ZenonT(40) DEF BrokerInv, ProcInv
    <2>9. SpawnInv'
      <3>1. n.identity \in Nat /\ 0 < n.identity /\ n.identity <= registry.next
        BY <1>3, <1>5, <2>1
      <3> QED BY <1>1, <1>3, <1>7, <2>1, <2>7, <3>1, Zenon DEF BrokerInv, SpawnInv
    <2>10. SetupInv'
      BY <1>4, <1>7, <2>1 DEF SetupInv
    <2>11. KnownInv'
      <3>1. \A i : Shown(i) => Shown(i)'
        BY <1>7, <2>7, Zenon DEF Shown
      <3> QED BY <1>1, <3>1, Zenon DEF BrokerInv, KnownInv
    <2>12. OpInv'
      <3>1. op' \in Op' /\ op'.task = "launch" /\ op'.step = "record" /\ op'.worker = w
        BY <1>1, <1>2, <1>7, <2>6, NextStep
      <3>2. \A p \in procs' : p.worker = w => p.stage = "blocked"
        BY <1>5, <1>7, <2>1, Zenon
      <3> QED BY <1>5, <1>7, <2>2, <2>4, <2>6, <3>1, <3>2, ZenonT(40) DEF OpInv, Launching, Entry
    <2> QED BY <1>1, <2>5, <2>6, <2>8, <2>9, <2>10, <2>11, <2>12, Zenon DEF BrokerInv
  <1> QED BY <1>6, <1>7, Zenon DEF Spawn, Refuse, Step

\* The PID is saved, or the launch given up.
LEMMA RecordPidStep ==
    ASSUME BrokerInv, RecordPid
    PROVE  BrokerInv'
  <1> DEFINE w == op.worker
  <1>1. /\ UNCHANGED <<bscope, procs, spawned, confirmed, known>>
        /\ op.task = "launch" /\ op.step = "record"
    BY Zenon DEF RecordPid, Launching, daemonSide, history
  <1>2. op # IdleOp
    BY <1>1, IdleFields, Zenon
  <1>3. /\ Up /\ op \in Op /\ w \in Workers /\ Listed(table, procs) /\ registry.next <= table.next
        /\ Entry(w).intent /\ Entry(w).pid
        /\ \A p \in procs : p.worker = w => p.stage = "blocked"
    BY <1>1, <1>2, AtWork, Zenon DEF BrokerInv, OpInv, Launching
  <1>4. \A p \in procs : p.stage # "setup"
    BY <1>1, <1>3, NoneSetsUp DEF Launching
  <1>5. SetupInv' /\ procs' \in SUBSET procs
    BY <1>1, <1>4, Zenon DEF SetupInv
  <1>6. Persisted(table) \/ NotPersisted(table)
    BY Zenon DEF RecordPid
  <1>7. /\ table' = table /\ Up' /\ Listed(registry', procs) /\ registry'.next \in Nat
        /\ registry.next <= registry'.next /\ registry'.next <= table.next
    BY <1>3, <1>6, Saves, Zenon
  <1>8. OpInv'
    <2>1. CASE Persisted(table) /\ op' = [op EXCEPT !.task = "launch", !.step = "plan"]
      <3>1. op' \in Op' /\ op'.task = "launch" /\ op'.step = "plan" /\ op'.worker = w
        BY <1>1, <1>2, <1>7, <2>1, NextStep
      <3>2. registry' = table' /\ table'.entries[w] = table.entries[w]
        BY <1>7, <2>1, Zenon DEF Persisted
      <3> QED BY <1>1, <1>3, <1>7, <3>1, <3>2 DEF OpInv, Launching, Entry
    <2>2. CASE op' = [op EXCEPT !.task = "abort", !.step = "kill"]
      <3>1. op' \in Op' /\ op'.task = "abort"
        BY <1>1, <1>2, <1>7, <2>2, NextStep
      <3> QED BY <1>7, <3>1, CalmOp
    <2> QED BY <2>1, <2>2, Zenon DEF RecordPid, Step
  <1> QED BY <1>1, <1>3, <1>5, <1>7, <1>8, BrokerMoves, Zenon

\* The launcher is given its plan, if it is still there.
LEMMA SendPlanStep ==
    ASSUME BrokerInv, SendPlan
    PROVE  BrokerInv'
  <1> DEFINE w == op.worker
             e == Entry(w)
             W == Recorded(e)
             sent(p) == [p EXCEPT !.stage = "setup", !.plan = table.root]
  <1>1. /\ UNCHANGED <<bscope, spawned, confirmed, known, registry, table>>
        /\ op.task = "launch" /\ op.step = "plan"
    BY Zenon DEF SendPlan, Launching, daemonSide, history
  <1>2. op # IdleOp
    BY <1>1, IdleFields, Zenon
  <1>3. /\ Up /\ Up' /\ op \in Op /\ w \in Workers /\ Listed(table, procs) /\ registry = table
        /\ e.intent /\ e.pid
        /\ \A p \in procs : p.worker = w => p.stage = "blocked"
    BY <1>1, <1>2, AtWork, Zenon DEF BrokerInv, OpInv, Launching, Up
  <1>4. \A p \in procs : p.stage # "setup"
    BY <1>1, <1>3, NoneSetsUp DEF Launching
  <1>5. CASE procs' = procs /\ op' = [op EXCEPT !.task = "abort", !.step = "kill"]
    <2>1. op' \in Op' /\ op'.task = "abort"
      BY <1>1, <1>2, <1>3, <1>5, NextStep
    <2>2. OpInv'
      BY <1>3, <2>1, CalmOp
    <2>3. SetupInv'
      BY <1>4, <1>5, Zenon DEF SetupInv
    <2> QED BY <1>1, <1>5, <2>2, <2>3, OpMoves, Zenon
  <1>6. CASE /\ procs' = (procs \ W) \cup {sent(p) : p \in W}
             /\ op' = [op EXCEPT !.task = "launch", !.step = "ack"]
    <2>1. table.root \in Nat
      BY <1>3 DEF Listed, Registry
    <2>2. \A p \in W : /\ p \in procs /\ p.main /\ p.identity = e.identity /\ p.worker = w
                       /\ p.stage = "blocked"
      BY <1>3, Zenon DEF Recorded, Listed, Entry
    <2>3. \A p \in W : /\ sent(p) \in Process /\ sent(p).worker = w /\ sent(p).identity = e.identity
                       /\ sent(p).main /\ sent(p).stage = "setup" /\ sent(p).plan = table.root
      BY <2>1, <2>2, InvTypes, Zenon DEF Process, Stages
    <2>4. \A p, q \in W : p = q
      BY <2>2, ZenonT(40) DEF BrokerInv, ProcInv
    <2> HIDE DEF W, sent
    <2>5. \A q \in procs' : \/ q \in procs /\ q \notin W
                            \/ \E p \in W : q = sent(p)
      BY <1>6, Zenon
    <2>6. ProcInv(procs')
      <3>1. /\ procs' \subseteq Process
            /\ \A q \in procs' : q.stage \in {"blocked", "setup"} => q.main
            /\ \A q \in procs' : q.stage \in {"grouped", "dropped", "running"} => q.group = q.plan
        BY <2>3, <2>5 DEF BrokerInv, ProcInv
      <3>2. ASSUME NEW r \in procs, r \notin W, NEW p \in W
            PROVE  r.identity # sent(p).identity
        <4>1. p \in procs /\ p.stage = "blocked" /\ p.identity = sent(p).identity
          BY <2>2, <2>3, Zenon
        <4>2. p.identity = r.identity => p = r
          BY <4>1, Zenon DEF BrokerInv, ProcInv
        <4> QED BY <3>2, <4>1, <4>2, Zenon
      <3>3. ASSUME NEW q \in procs', NEW r \in procs', q.identity = r.identity,
                   q.stage = "blocked" \/ (q.main /\ r.main)
            PROVE  q = r
        <4>1. CASE q \in procs /\ q \notin W /\ r \in procs /\ r \notin W
          BY <3>3, <4>1, Zenon DEF BrokerInv, ProcInv
        <4>2. CASE \E t \in W : q = sent(t)
          BY <2>4, <2>5, <3>2, <3>3, <4>2, ZenonT(40)
        <4>3. CASE \E t \in W : r = sent(t)
          BY <2>4, <2>5, <3>2, <3>3, <4>3, Zenon
        <4> QED BY <2>5, <4>1, <4>2, <4>3, Zenon
      <3> QED BY <3>1, <3>3, Zenon DEF ProcInv
    <2>7. Listed(table, procs')
      <3>0. \A t \in procs : \A v \in Workers : table.entries[v].identity = t.identity => v = t.worker
        BY <1>3, Zenon DEF Listed
      <3>1. ASSUME NEW q \in procs', NEW v \in Workers, table.entries[v].identity = q.identity
            PROVE  v = q.worker
        <4>1. PICK t \in procs : t.identity = q.identity /\ t.worker = q.worker
          <5>1. CASE q \in procs
            BY <5>1, Zenon
          <5>2. ASSUME NEW t \in W, q = sent(t)
                PROVE  t \in procs /\ t.identity = q.identity /\ t.worker = q.worker
            <6>1. t \in procs /\ t.identity = e.identity /\ t.worker = w
              BY <2>2, Zenon
            <6>2. sent(t).identity = e.identity /\ sent(t).worker = w
              BY <2>3, Zenon
            <6> QED BY <5>2, <6>1, <6>2, Zenon
          <5> QED BY <2>5, <5>1, <5>2, Zenon
        <4>2. v = t.worker
          BY <3>0, <3>1, <4>1, ZenonT(40)
        <4> QED BY <4>1, <4>2, Zenon
      <3>2. ASSUME NEW q \in procs', q.stage # "blocked"
            PROVE  /\ table.entries[q.worker].identity = q.identity /\ table.entries[q.worker].pid
                   /\ q.plan = table.root
        <4>1. CASE q \in procs
          BY <1>3, <3>2, <4>1, Zenon DEF Listed
        <4>2. CASE \E t \in W : q = sent(t)
          <5>0. PICK t \in W : q = sent(t)
            BY <4>2, Zenon
          <5>2. sent(t).worker = w /\ sent(t).identity = e.identity /\ sent(t).plan = table.root
            BY <2>3, Zenon
          <5>1. q.worker = w /\ q.identity = e.identity /\ q.plan = table.root
            BY <5>0, <5>2, Zenon
          <5> QED BY <1>3, <5>1, Zenon DEF Entry
        <4> QED BY <2>5, <4>1, <4>2, Zenon
      <3> QED BY <1>3, <3>1, <3>2, Zenon DEF Listed
    <2>8. op' \in Op' /\ op'.task = "launch" /\ op'.step = "ack" /\ op'.worker = w
      BY <1>1, <1>2, <1>3, <1>6, NextStep
    <2>9. OpInv'
      BY <1>3, <2>8, CalmOp
    <2>10. SpawnInv'
      <3>1. \A q \in procs' : \E p \in procs : q.identity = p.identity /\ q.worker = p.worker
        BY <2>2, <2>3, <2>5, Zenon
      <3> QED BY <1>1, <3>1, Zenon DEF BrokerInv, SpawnInv
    <2>11. SetupInv'
      BY <1>1, <1>3, <1>4, <2>3, <2>5, <2>8, Zenon DEF SetupInv, Entry
    <2>12. KnownInv'
      <3>1. \A i : Shown(i) => Shown(i)'
        BY <1>1, <2>3, <2>5 DEF Shown
      <3> QED BY <1>1, <3>1, Zenon DEF BrokerInv, KnownInv
    <2> QED BY <1>1, <1>3, <2>6, <2>7, <2>9, <2>10, <2>11, <2>12, Zenon DEF BrokerInv
  <1> QED BY <1>5, <1>6, Zenon DEF SendPlan, Step

\* A launch whose worker runs has no process that sets up, or waits for a plan.
LEMMA Ready ==
    ASSUME BrokerInv, Launching("ack"), NEW r \in Recorded(Entry(op.worker)), r.stage = "running"
    PROVE  (\A p \in procs : p.stage # "setup") /\ Shown(Entry(op.worker).identity)
  <1>1. op # IdleOp
    BY IdleFields, Zenon DEF Launching
  <1>2. Up /\ op.worker \in Workers /\ Listed(table, procs)
    BY <1>1, AtWork, Zenon DEF BrokerInv
  <1>3. r \in procs /\ r.main /\ r.identity = Entry(op.worker).identity
    BY Zenon DEF Recorded
  <1>4. ASSUME NEW p \in procs, p.stage = "setup" PROVE FALSE
    <2>1. p.worker = op.worker /\ p.main
      BY <1>2, <1>4, Zenon DEF BrokerInv, SetupInv, ProcInv
    <2>2. p.identity = r.identity
      BY <1>2, <1>3, <1>4, <2>1 DEF Listed, Entry
    <2>3. p = r
      BY <1>3, <2>1, <2>2, Zenon DEF BrokerInv, ProcInv
    <2> QED BY <1>4, <2>3
  <1>5. r.identity \in spawned
    BY <1>3, Zenon DEF BrokerInv, SpawnInv
  <1>6. ASSUME NEW p \in procs, p.identity = r.identity, p.stage = "blocked" PROVE FALSE
    <2>1. p = r
      BY <1>3, <1>6, Zenon DEF BrokerInv, ProcInv
    <2> QED BY <1>6, <2>1
  <1> QED BY <1>3, <1>4, <1>5, <1>6, Zenon DEF Shown

\* The launch succeeds, or is given up.
LEMMA AcknowledgedStep ==
    ASSUME BrokerInv, Acknowledged
    PROVE  BrokerInv'
  <1> DEFINE w == op.worker
             e == Entry(w)
             new == WithEntry(w, [e EXCEPT !.intent = FALSE])
  <1>1. UNCHANGED <<bscope, procs, spawned, confirmed>> /\ op.task = "launch" /\ op.step = "ack"
    BY Zenon DEF Acknowledged, Launching, history
  <1>2. op # IdleOp
    BY <1>1, IdleFields, Zenon
  <1>3. Up /\ op \in Op /\ w \in Workers /\ e \in Entries
    BY <1>2, AtWork, InvTypes, Zenon
  <1>4. CASE /\ UNCHANGED <<registry, table, known>>
             /\ op' = [op EXCEPT !.task = "abort", !.step = "kill"]
    <2>1. Up'
      BY <1>3, <1>4, Zenon DEF Up
    <2>2. op' \in Op' /\ op'.task = "abort" /\ op'.step = "kill" /\ op'.worker = w
      BY <1>1, <1>2, <1>4, <2>1, NextStep
    <2>3. OpInv'
      BY <2>1, <2>2, CalmOp
    <2>4. SetupInv'
      BY <1>1, <1>3, <1>4, <2>2, Zenon DEF BrokerInv, SetupInv
    <2> QED BY <1>1, <1>4, <2>3, <2>4, OpMoves, Zenon
  <1>5. CASE /\ \E r \in Recorded(e) : r.stage = "running"
             /\ \/ Persisted(new) /\ Launched
                \/ /\ NotPersisted(new) /\ known' = known
                   /\ op' = [op EXCEPT !.task = "abort", !.step = "kill"]
    <2>1. (\A p \in procs : p.stage # "setup") /\ Shown(e.identity)
      BY <1>1, <1>5, Ready, Zenon DEF Launching
    <2>0. PICK i : i = e.identity
      OBVIOUS
    <2>2. SetupInv' /\ Shown(i)' /\ procs' \in SUBSET procs
      BY <1>1, <2>0, <2>1, Zenon DEF SetupInv, Shown
    <2>3. /\ [e EXCEPT !.intent = FALSE] \in Entries /\ [e EXCEPT !.intent = FALSE].identity = e.identity
          /\ [e EXCEPT !.intent = FALSE].pid = e.pid
      BY <1>3, EntryFields, Zenon
    <2>4. new = WithEntry(w, [e EXCEPT !.intent = FALSE])
      OBVIOUS
    <2> HIDE DEF new
    <2>5. Listed(new, procs) /\ new.entries[w] = [e EXCEPT !.intent = FALSE] /\ registry.next <= new.next
      <3>1. Rewrote(new, w, [e EXCEPT !.intent = FALSE])
        BY <1>3, <2>3, <2>4, Rewrite, Zenon
      <3> QED BY <3>1, Zenon DEF Rewrote
    <2>6. /\ table' = new /\ Up' /\ Listed(registry', procs) /\ registry'.next \in Nat
          /\ registry.next <= registry'.next /\ registry'.next <= new.next
      BY <1>5, <2>5, Saves, Zenon
    <2>7. known' = known \/ KnownInv'
      <3>1. CASE known' = [known EXCEPT ![w] = e.identity]
        <4>1. known \in [Workers -> Nat] /\ e.identity \in Nat
          BY <1>3 DEF BrokerInv, KnownInv, Entries
        <4>2. known' \in [Workers -> Nat] /\ \A v \in Workers : known'[v] = known[v] \/ known'[v] = e.identity
          BY <1>3, <3>1, <4>1
        <4>3. \A j : Shown(j) => Shown(j)'
          BY <1>1, Zenon DEF Shown
        <4>4. ASSUME NEW v \in Workers, known'[v] # 0 PROVE Shown(known[v])'
          <5>1. PICK j : j = known'[v]
            OBVIOUS
          <5>2. Shown(j)'
            BY <2>0, <2>2, <4>2, <4>3, <4>4, <5>1, Zenon DEF BrokerInv, KnownInv
          <5> QED BY <5>1, <5>2, Zenon DEF Shown
        <4>5. KnownInv'
          BY <4>2, <4>4, Zenon DEF KnownInv
        <4> QED BY <4>5, Zenon
      <3> QED BY <1>5, <3>1, Zenon DEF Launched
    <2>8. OpInv'
      <3>1. CASE op' = IdleOp
        BY <3>1, CalmOp, Zenon DEF IdleOp
      <3>2. CASE op' = [op EXCEPT !.task = "abort", !.step = "kill"]
        <4>1. op' \in Op' /\ op'.task = "abort"
          BY <1>1, <1>2, <2>6, <3>2, NextStep
        <4> QED BY <2>6, <4>1, CalmOp
      <3>3. CASE op' = [op EXCEPT !.task = "stop", !.step = "drain"]
        <4>1. op' \in Op' /\ op'.task = "stop" /\ op'.step = "drain" /\ op'.worker = w
          BY <1>1, <1>2, <2>6, <3>3, NextStep
        <4>2. (Entry(op.worker).identity)' = i
          BY <2>0, <2>3, <2>5, <2>6, <4>1, Zenon DEF Entry
        <4>3. Shown(Entry(op.worker).identity)'
          BY <2>2, <4>2, Zenon DEF Shown
        <4> QED BY <2>6, <4>1, <4>3 DEF OpInv, Launching
      <3> QED BY <1>5, <3>1, <3>2, <3>3, Zenon DEF Launched
    <2> QED BY <1>1, <2>2, <2>5, <2>6, <2>7, <2>8, BrokerMoves, Zenon
  <1> QED BY <1>4, <1>5, Zenon DEF Acknowledged, Step

\* A launch that failed kills its own child.
LEMMA AbortLaunchStep ==
    ASSUME BrokerInv, AbortLaunch
    PROVE  BrokerInv'
  <1> DEFINE w == op.worker
             e == Entry(w)
             new == WithEntry(w, [e EXCEPT !.intent = FALSE])
  <1>1. /\ UNCHANGED <<bscope, spawned, confirmed, known, registry>> /\ table' = new
        /\ op.task = "abort" /\ op.step = "kill" /\ procs' = procs \ Recorded(e)
        /\ op' = [op EXCEPT !.task = "abort", !.step = "drain"]
    BY Zenon DEF AbortLaunch, Step, daemonSide, history
  <1>2. op # IdleOp
    BY <1>1, IdleFields, Zenon
  <1>3. /\ Up /\ op \in Op /\ w \in Workers /\ e \in Entries /\ Listed(table, procs)
        /\ Listed(registry, procs) /\ registry.next \in Nat
    BY <1>2, AtWork, InvTypes, Zenon DEF BrokerInv
  <1>4. ASSUME NEW p \in procs', p.stage = "setup" PROVE FALSE
    <2>1. p \in procs /\ p \notin Recorded(e)
      BY <1>1, Zenon
    <2>2. p.worker = w /\ p.main
      BY <1>3, <1>4, <2>1, Zenon DEF BrokerInv, SetupInv, ProcInv
    <2>3. e.identity = p.identity /\ e.pid
      BY <1>3, <1>4, <2>1, <2>2 DEF Listed, Entry
    <2> QED BY <2>1, <2>2, <2>3, Zenon DEF Recorded
  <1>5. SetupInv' /\ procs' \in SUBSET procs
    BY <1>1, <1>4, Zenon DEF SetupInv
  <1>6. /\ [e EXCEPT !.intent = FALSE] \in Entries /\ [e EXCEPT !.intent = FALSE].identity = e.identity
        /\ [e EXCEPT !.intent = FALSE].pid = e.pid
    BY <1>3, EntryFields, Zenon
  <1>7. new = WithEntry(w, [e EXCEPT !.intent = FALSE])
    OBVIOUS
  <1> HIDE DEF new
  <1>8. Listed(new, procs) /\ registry.next <= new.next
    <2>1. Rewrote(new, w, [e EXCEPT !.intent = FALSE])
      BY <1>3, <1>6, <1>7, Rewrite, Zenon
    <2> QED BY <2>1, Zenon DEF Rewrote
  <1>9. Listed(table', procs') /\ Listed(registry', procs') /\ registry'.next <= table'.next
    BY <1>1, <1>3, <1>5, <1>8, Fewer, Zenon
  <1>10. Up'
    <2>1. table'.root # 0
      BY <1>9, Zenon DEF Listed
    <2> QED BY <2>1 DEF Up, Down
  <1>11. op' \in Op' /\ op'.task = "abort"
    BY <1>1, <1>2, <1>10, NextStep
  <1>12. OpInv'
    BY <1>10, <1>11, CalmOp
  <1>13. registry.next <= registry'.next /\ registry'.next \in Nat
    BY <1>1, <1>3
  <1> QED BY <1>1, <1>5, <1>9, <1>12, <1>13, BrokerMoves, Zenon

\* ... and saves the registry.
LEMMA AbortSaveStep ==
    ASSUME BrokerInv, AbortSave
    PROVE  BrokerInv'
  <1>1. /\ UNCHANGED <<bscope, procs, spawned, confirmed, known>>
        /\ op.task = "abort" /\ op.step = "save" /\ op' = IdleOp
        /\ Persisted(table) \/ NotPersisted(table)
    BY Zenon DEF AbortSave, Refuse, daemonSide, history
  <1>2. op # IdleOp
    BY <1>1, IdleFields, Zenon
  <1>3. Up /\ Listed(table, procs) /\ registry.next <= table.next
    BY <1>2, AtWork, Zenon DEF BrokerInv
  <1>4. \A p \in procs : p.stage # "setup"
    BY <1>1, <1>3, NoneSetsUp DEF Launching
  <1>5. SetupInv' /\ procs' \in SUBSET procs
    BY <1>1, <1>4, Zenon DEF SetupInv
  <1>6. /\ table' = table /\ Up' /\ Listed(registry', procs) /\ registry'.next \in Nat
        /\ registry.next <= registry'.next /\ registry'.next <= table.next
    BY <1>1, <1>3, Saves, Zenon
  <1>7. OpInv'
    BY <1>1, CalmOp, Zenon DEF IdleOp
  <1> QED BY <1>1, <1>3, <1>5, <1>6, <1>7, BrokerMoves, Zenon

-----------------------------------------------------------------------------
(* Drains and processes.                                                   *)

\* The group of the worker is empty.
LEMMA DrainDoneStep ==
    ASSUME BrokerInv, DrainDone
    PROVE  BrokerInv'
  <1> DEFINE w == op.worker
  <1>1. /\ UNCHANGED <<bscope, procs, spawned, known, registry, table>> /\ op.step = "drain"
        /\ Members(table.root, w) = {}
    BY Zenon DEF DrainDone, Draining, Drained, daemonSide
  <1>2. op # IdleOp
    BY <1>1, IdleFields, Zenon
  <1>3. Up /\ Up' /\ op \in Op /\ w \in Workers /\ Listed(table, procs)
    BY <1>1, <1>2, AtWork, Zenon DEF BrokerInv, Up
  <1>4. \A p \in procs : p.stage # "setup"
    BY <1>1, <1>3, NoneSetsUp DEF Launching
  <1>5. SetupInv'
    BY <1>1, <1>4, Zenon DEF SetupInv
  <1>6. CASE /\ op' = [op EXCEPT !.task = "launch", !.step = "allocate"]
             /\ confirmed' = confirmed
    <2>1. op' \in Op' /\ op'.task = "launch" /\ op'.step = "allocate"
      BY <1>1, <1>2, <1>3, <1>6, NextStep
    <2>2. OpInv'
      BY <1>3, <2>1, CalmOp
    <2> QED BY <1>1, <1>5, <1>6, <2>2, OpMoves, Zenon
  <1>7. CASE op' = [op EXCEPT !.task = "abort", !.step = "save"] /\ confirmed' = confirmed
    <2>1. op' \in Op' /\ op'.task = "abort"
      BY <1>1, <1>2, <1>3, <1>7, NextStep
    <2>2. OpInv'
      BY <1>3, <2>1, CalmOp
    <2> QED BY <1>1, <1>5, <1>7, <2>2, OpMoves, Zenon
  <1>8. CASE op' = IdleOp /\ confirmed' = confirmed
    <2>1. OpInv'
      BY <1>8, CalmOp, Zenon DEF IdleOp
    <2> QED BY <1>1, <1>5, <1>8, <2>1, OpMoves, Zenon
  <1>9. CASE /\ op.task \in {"stop", "status"} /\ op' = IdleOp
             /\ confirmed' = confirmed \cup {Entry(w).identity}
    <2>1. Shown(Entry(w).identity)
      BY <1>9, Zenon DEF BrokerInv, OpInv
    <2>2. \A p \in procs : p.worker = w => p.stage = "blocked"
      BY <1>1, <1>3, <1>4, Emptied, Zenon
    <2>3. ASSUME NEW p \in procs, p.identity = Entry(w).identity PROVE FALSE
      <3>1. p.stage # "blocked"
        BY <2>1, <2>3, Zenon DEF Shown
      <3>2. p.worker = w
        BY <1>3, <2>3, Zenon DEF Listed, Entry
      <3> QED BY <2>2, <3>1, <3>2, Zenon
    <2>4. SpawnInv'
      BY <1>1, <1>9, <2>1, <2>3, Zenon DEF BrokerInv, SpawnInv, Shown
    <2>5. OpInv'
      BY <1>9, CalmOp, Zenon DEF IdleOp
    <2> QED BY <1>1, <1>3, <1>5, <2>4, <2>5, Zenon DEF BrokerInv, KnownInv, Shown, Up
  <1>10. op.task \in {"launch", "abort", "maintain", "stop", "status"}
    BY <1>3 DEF Op
  <1> QED BY <1>6, <1>7, <1>8, <1>9, <1>10 DEF DrainDone, Step

\* The drain is given up.
LEMMA DrainFailsStep ==
    ASSUME BrokerInv, DrainFails
    PROVE  BrokerInv'
  <1>1. /\ UNCHANGED <<bscope, procs, spawned, confirmed, known, registry, table>> /\ op.step = "drain"
        /\ op' = IdleOp \/ op' = [op EXCEPT !.task = "abort", !.step = "save"]
    BY Zenon DEF DrainFails, Draining, Refuse, Step, daemonSide, history
  <1>2. op # IdleOp
    BY <1>1, IdleFields, Zenon
  <1>3. Up /\ Up'
    BY <1>1, <1>2, AtWork, Zenon DEF Up
  <1>4. \A p \in procs : p.stage # "setup"
    BY <1>1, <1>3, NoneSetsUp DEF Launching
  <1>5. SetupInv'
    BY <1>1, <1>4, Zenon DEF SetupInv
  <1>6. OpInv'
    <2>1. CASE op' = IdleOp
      BY <2>1, CalmOp, Zenon DEF IdleOp
    <2>2. CASE op' = [op EXCEPT !.task = "abort", !.step = "save"]
      <3>1. op' \in Op' /\ op'.task = "abort"
        BY <1>1, <1>2, <1>3, <2>2, NextStep
      <3> QED BY <1>3, <3>1, CalmOp
    <2> QED BY <1>1, <2>1, <2>2, Zenon
  <1> QED BY <1>1, <1>5, <1>6, OpMoves, Zenon

\* A process is killed or ends by itself.
LEMMA EndStep ==
    ASSUME BrokerInv, procs' \in SUBSET procs,
           UNCHANGED <<bscope, registry, table, op, known, confirmed, spawned>>
    PROVE  BrokerInv'
  <1>1. ProcInv(procs') /\ \A T : Listed(T, procs) => Listed(T, procs')
    BY Fewer, Zenon DEF BrokerInv
  <1>2. \A q \in procs' : \E p \in procs :
           /\ q.worker = p.worker /\ q.identity = p.identity
           /\ q = p \/ (p.stage # "blocked" /\ q.stage # "blocked" /\ q.stage # "setup")
    BY Zenon
  <1> QED BY <1>1, <1>2, ProcessMoves, Zenon

\* A process with its plan goes on, or forks.
LEMMA GoesOn ==
    ASSUME BrokerInv, NEW p \in procs, p.stage # "blocked", NEW q \in Process,
           q.worker = p.worker, q.identity = p.identity, q.plan = p.plan,
           q.group = q.plan, q.stage \in {"grouped", "dropped", "running"}, q.main => p.main,
           \/ procs' = (procs \ {p}) \cup {q} /\ q # p
           \/ procs' = (procs \ {p}) \cup {p, q} /\ ~ q.main,
           UNCHANGED <<bscope, registry, table, op, known, confirmed, spawned>>
    PROVE  BrokerInv'
  <1>1. procs' \in SUBSET (procs \cup {q}) /\ (p \in procs' => ~ q.main) /\ ProcInv(procs)
    BY Zenon DEF BrokerInv
  <1>2. ProcInv(procs') /\ \A T : Listed(T, procs) => Listed(T, procs')
    BY <1>1, Moves, Zenon
  <1>3. q.stage # "blocked" /\ q.stage # "setup"
    OBVIOUS
  <1>4. \A r \in procs' : \E t \in procs :
           /\ r.worker = t.worker /\ r.identity = t.identity
           /\ r = t \/ (t.stage # "blocked" /\ r.stage # "blocked" /\ r.stage # "setup")
    BY <1>1, <1>3, Zenon
  <1> QED BY <1>2, <1>4, ProcessMoves, Zenon

\* A process takes a step of its own.
LEMMA ProcessStepStep ==
    ASSUME BrokerInv, NEW p \in procs, ProcessStep(p)
    PROVE  BrokerInv'
  <1>1. UNCHANGED <<bscope, registry, table, op, known, confirmed, spawned>>
    BY Zenon DEF ProcessStep, NoPlan, EnterGroup, DropIdentity, Exec, SetupFails, Fork, Exit, Become,
                 daemonSide, history
  <1>2. p \in Process
    BY InvTypes, Zenon
  <1>3. CASE NoPlan(p) \/ SetupFails(p) \/ Exit(p)
    <2>1. procs' \in SUBSET procs
      BY <1>3, Zenon DEF NoPlan, SetupFails, Exit, Become
    <2> QED BY <1>1, <2>1, EndStep, Zenon
  <1>4. CASE EnterGroup(p)
    <2> DEFINE q == [p EXCEPT !.stage = "grouped", !.group = p.plan]
    <2>1. p.stage = "setup" /\ procs' = (procs \ {p}) \cup {q}
      BY <1>4, Zenon DEF EnterGroup, Become
    <2>2. /\ q \in Process /\ q.worker = p.worker /\ q.identity = p.identity /\ q.plan = p.plan
          /\ q.group = q.plan /\ q.stage = "grouped" /\ q.main = p.main
      BY <1>2, Zenon DEF Process, Stages
    <2>3. p.stage # "blocked" /\ q # p /\ q.stage \in {"grouped", "dropped", "running"}
      BY <2>1, <2>2, Zenon
    <2> HIDE DEF q
    <2> QED BY <1>1, <2>1, <2>2, <2>3, GoesOn, Zenon
  <1>5. CASE DropIdentity(p)
    <2> DEFINE q == [p EXCEPT !.stage = "dropped"]
    <2>1. p.stage = "grouped" /\ procs' = (procs \ {p}) \cup {q}
      BY <1>5, Zenon DEF DropIdentity, Become
    <2>2. p.group = p.plan
      BY <2>1, Zenon DEF BrokerInv, ProcInv
    <2>3. /\ q \in Process /\ q.worker = p.worker /\ q.identity = p.identity /\ q.plan = p.plan
          /\ q.group = q.plan /\ q.stage = "dropped" /\ q.main = p.main
      BY <1>2, <2>2 DEF Process, Stages
    <2>4. p.stage # "blocked" /\ q # p /\ q.stage \in {"grouped", "dropped", "running"}
      BY <2>1, <2>3, Zenon
    <2> HIDE DEF q
    <2> QED BY <1>1, <2>1, <2>3, <2>4, GoesOn, Zenon
  <1>6. CASE Exec(p)
    <2> DEFINE q == [p EXCEPT !.stage = "running"]
    <2>1. p.stage = "dropped" /\ procs' = (procs \ {p}) \cup {q}
      BY <1>6, Zenon DEF Exec, Become
    <2>2. p.group = p.plan
      BY <2>1, Zenon DEF BrokerInv, ProcInv
    <2>3. /\ q \in Process /\ q.worker = p.worker /\ q.identity = p.identity /\ q.plan = p.plan
          /\ q.group = q.plan /\ q.stage = "running" /\ q.main = p.main
      BY <1>2, <2>2 DEF Process, Stages
    <2>4. p.stage # "blocked" /\ q # p /\ q.stage \in {"grouped", "dropped", "running"}
      BY <2>1, <2>3, Zenon
    <2> HIDE DEF q
    <2> QED BY <1>1, <2>1, <2>3, <2>4, GoesOn, Zenon
  <1>7. CASE Fork(p)
    <2> DEFINE q == [p EXCEPT !.main = FALSE]
    <2>1. p.stage = "running" /\ procs' = (procs \ {p}) \cup {p, q}
      BY <1>7, Zenon DEF Fork, Become
    <2>2. p.group = p.plan
      BY <2>1, Zenon DEF BrokerInv, ProcInv
    <2>3. /\ q \in Process /\ q.worker = p.worker /\ q.identity = p.identity /\ q.plan = p.plan
          /\ q.group = q.plan /\ q.stage = "running" /\ ~ q.main
      BY <1>2, <2>1, <2>2, Zenon DEF Process
    <2>4. p.stage # "blocked" /\ q.stage \in {"grouped", "dropped", "running"}
      BY <2>1, <2>3
    <2> HIDE DEF q
    <2> QED BY <1>1, <2>1, <2>3, <2>4, GoesOn, Zenon
  <1> QED BY <1>3, <1>4, <1>5, <1>6, <1>7, Zenon DEF ProcessStep

-----------------------------------------------------------------------------
(* The broker stops, and opens or compacts its registry.                   *)

\* The broker crashes; the processes stay.
LEMMA BrokerCrashStep ==
    ASSUME BrokerInv, BrokerCrash
    PROVE  BrokerInv'
  <1>1. /\ UNCHANGED <<bscope, procs, spawned, confirmed, known, registry>>
        /\ ~ Up' /\ op' = IdleOp
    BY Zenon DEF BrokerCrash, Up, daemonSide, history
  <1>2. OpInv'
    BY <1>1, CalmOp, Zenon DEF IdleOp
  <1>3. SetupInv'
    BY <1>1, Zenon DEF BrokerInv, SetupInv
  <1>4. registry'.next \in Nat /\ registry.next <= registry'.next
    BY <1>1, InvTypes
  <1>5. Listed(registry', procs') /\ procs' \in SUBSET procs
    BY <1>1, Zenon DEF BrokerInv
  <1> QED BY <1>1, <1>2, <1>3, <1>4, <1>5, BrokerMoves, Zenon

\* What a stopped broker checks before it takes the registry up under a root.
LEMMA Adopts ==
    ASSUME BrokerInv, ~ Up, NEW root, Reconfigurable(root), ~ Interrupted(root)
    PROVE  /\ \A p \in procs : p.stage # "setup"
           /\ root = registry.root \/ \A p \in procs : p.stage = "blocked"
  <1>1. /\ Listed(registry, procs) /\ bscope.workers \subseteq Workers
        /\ \A p \in procs : p.worker \in bscope.workers
    BY InvTypes, Zenon DEF BrokerInv
  <1>2. ASSUME NEW p \in procs, p.stage # "blocked"
        PROVE  /\ registry.entries[p.worker] # NoEntry
               /\ p.main => p \in Recorded(registry.entries[p.worker])
               /\ p.stage # "setup" => p \in Members(registry.root, p.worker)
    <2>1. /\ registry.entries[p.worker].identity = p.identity /\ registry.entries[p.worker].pid
          /\ p.plan = registry.root /\ p.identity # 0
      BY <1>1, <1>2, InvTypes, Zenon DEF Listed
    <2>2. p.stage # "setup" => p.group = p.plan
      <3>1. p.stage \in Stages
        BY InvTypes DEF Process
      <3> QED BY <1>2, <3>1, Zenon DEF BrokerInv, ProcInv, Stages
    <2> QED BY <2>1, <2>2 DEF Recorded, Members, NoEntry
  <1>3. ASSUME NEW p \in procs, p.stage = "setup" PROVE FALSE
    <2>1. registry.entries[p.worker].intent /\ p.main /\ p.stage # "blocked"
      BY <1>3, Zenon DEF BrokerInv, SetupInv, ProcInv
    <2> QED BY <1>1, <1>2, <2>1, Zenon DEF Interrupted
  <1>4. ASSUME root # registry.root, NEW p \in procs, p.stage # "blocked" PROVE FALSE
    BY <1>1, <1>2, <1>3, <1>4, Zenon DEF Reconfigurable
  <1> QED BY <1>3, <1>4, Zenon

\* The registry as it is opened.
LEMMA OpenedFields ==
    ASSUME NEW root \in Nat, registry \in Registry
    PROVE  /\ Opened(root) \in Registry /\ Opened(root).root = root
           /\ Opened(root).next = registry.next
           /\ \A w \in Workers : /\ Opened(root).entries[w].identity = registry.entries[w].identity
                                 /\ Opened(root).entries[w].pid = registry.entries[w].pid
  <1> DEFINE es == [w \in Workers |-> [registry.entries[w] EXCEPT !.intent = FALSE]]
  <1>1. \A w \in Workers : registry.entries[w] \in Entries
    BY DEF Registry
  <1>2. \A w \in Workers : /\ es[w] \in Entries /\ es[w].identity = registry.entries[w].identity
                           /\ es[w].pid = registry.entries[w].pid
    BY <1>1, EntryFields, Zenon
  <1>3. es \in [Workers -> Entries]
    BY <1>2
  <1>4. Opened(root) = [registry EXCEPT !.root = root, !.entries = es]
    BY DEF Opened
  <1> HIDE DEF es
  <1>5. /\ Opened(root) \in Registry /\ Opened(root).root = root
        /\ Opened(root).next = registry.next /\ Opened(root).entries = es
    BY <1>3, <1>4, Zenon DEF Registry
  <1> QED BY <1>2, <1>5, Zenon

\* A stopped broker has no request.
LEMMA Stopped ==
    ASSUME BrokerInv, ~ Up
    PROVE  op = IdleOp
  BY Zenon DEF BrokerInv, OpInv

\* The broker opens its registry.
LEMMA OpenStep ==
    ASSUME BrokerInv, NEW root \in {1, 2}, Open(root)
    PROVE  BrokerInv'
  <1>1. /\ UNCHANGED <<bscope, procs, spawned, confirmed, known, op>> /\ ~ Up
        /\ Reconfigurable(root) /\ ~ Interrupted(root) /\ registry' = Opened(root)
        /\ table' = Opened(root) \/ table' = table
    BY Zenon DEF Open, daemonSide, history
  <1>2. /\ \A p \in procs : p.stage # "setup"
        /\ root = registry.root \/ \A p \in procs : p.stage = "blocked"
    BY <1>1, Adopts, Zenon
  <1>3. /\ Opened(root) \in Registry /\ Opened(root).root = root
        /\ Opened(root).next = registry.next
        /\ \A w \in Workers : /\ Opened(root).entries[w].identity = registry.entries[w].identity
                              /\ Opened(root).entries[w].pid = registry.entries[w].pid
    BY InvTypes, OpenedFields
  <1>4. Listed(Opened(root), procs)
    <2>1. Listed(registry, procs) /\ root # 0
      BY DEF BrokerInv
    <2>2. \A v \in Workers :
             \/ /\ Opened(root).entries[v].identity = registry.entries[v].identity
                /\ registry.entries[v].pid => Opened(root).entries[v].pid
             \/ /\ Opened(root).entries[v].identity = 0
                /\ \A p \in procs : p.worker = v => p.stage = "blocked"
      BY <1>3, Zenon
    <2>3. \A p \in procs : p.worker \in Workers /\ p.identity # 0
      BY InvTypes, Zenon
    <2>4. /\ Opened(root).root # 0
          /\ Opened(root).root = registry.root \/ \A p \in procs : p.stage = "blocked"
      BY <1>2, <1>3, <2>1, Zenon
    <2> QED BY <1>3, <2>1, <2>2, <2>3, <2>4, ListedAlso, Zenon
  <1>5. registry'.next \in Nat /\ registry.next <= registry'.next
    BY <1>1, <1>3, InvTypes
  <1>6. Up' => Listed(table', procs') /\ registry'.next <= table'.next
    BY <1>1, <1>4, <1>5 DEF Up
  <1>7. SetupInv' /\ procs' \in SUBSET procs
    BY <1>1, <1>2, Zenon DEF SetupInv
  <1>8. OpInv'
    BY <1>1, Stopped, CalmOp, IdleFields, Zenon
  <1> QED BY <1>1, <1>4, <1>5, <1>6, <1>7, <1>8, BrokerMoves, Zenon

\* The registry is compacted.
LEMMA CompactStep ==
    ASSUME BrokerInv, NEW root \in {1, 2}, Compact(root)
    PROVE  BrokerInv'
  <1> DEFINE new == Opened(root)
             R == {w \in bscope.workers \ dirs : /\ new.entries[w] # NoEntry
                                                 /\ ~ Matches(new.entries[w])
                                                 /\ Members(root, w) = {}}
             es == [w \in Workers |-> IF w \in R THEN NoEntry ELSE new.entries[w]]
  <1>1. /\ UNCHANGED <<bscope, procs, spawned, confirmed, known, op, table>> /\ ~ Up
        /\ Reconfigurable(root) /\ ~ Interrupted(root)
        /\ registry' = [new EXCEPT !.entries = es]
    BY Zenon DEF Compact, daemonSide, history
  <1>2. /\ \A p \in procs : p.stage # "setup"
        /\ root = registry.root \/ \A p \in procs : p.stage = "blocked"
    BY <1>1, Adopts, Zenon
  <1>3. /\ new \in Registry /\ new.root = root /\ new.next = registry.next
        /\ \A w \in Workers : /\ new.entries[w].identity = registry.entries[w].identity
                              /\ new.entries[w].pid = registry.entries[w].pid
    BY InvTypes, OpenedFields
  <1>4. \A w \in R : Members(root, w) = {}
    BY Zenon
  <1> HIDE DEF new, R
  <1>5. /\ es \in [Workers -> Entries]
        /\ \A w \in Workers : es[w] = IF w \in R THEN NoEntry ELSE new.entries[w]
    <2>1. NoEntry \in Entries /\ \A w \in Workers : new.entries[w] \in Entries
      BY <1>3 DEF Registry, NoEntry, Entries
    <2> QED BY <2>1
  <1> HIDE DEF es
  <1>6. /\ registry' \in Registry /\ registry'.root = root /\ registry'.next = registry.next
        /\ registry'.entries = es
    BY <1>1, <1>3, <1>5 DEF Registry
  <1>7. \A w \in R : \A p \in procs : p.worker = w => p.stage = "blocked"
    BY <1>2, <1>4, Emptied, Zenon DEF BrokerInv
  <1>8. Listed(registry', procs)
    <2>1. Listed(registry, procs) /\ root # 0
      BY DEF BrokerInv
    <2>2. \A w \in Workers :
            \/ /\ registry'.entries[w].identity = registry.entries[w].identity
               /\ registry.entries[w].pid => registry'.entries[w].pid
            \/ /\ registry'.entries[w].identity = 0
               /\ \A p \in procs : p.worker = w => p.stage = "blocked"
      BY <1>3, <1>5, <1>6, <1>7 DEF NoEntry
    <2> QED BY <1>2, <1>6, <2>1, <2>2, ListedAlso, InvTypes, Zenon
  <1>9. registry'.next \in Nat /\ registry.next <= registry'.next
    BY <1>6, InvTypes
  <1>10. ~ Up' /\ procs' \in SUBSET procs
    BY <1>1, Zenon DEF Up
  <1>11. SetupInv'
    BY <1>1, <1>2, Zenon DEF SetupInv
  <1>12. OpInv'
    BY <1>1, Stopped, CalmOp, IdleFields, Zenon
  <1> QED BY <1>1, <1>8, <1>9, <1>10, <1>11, <1>12, BrokerMoves, Zenon

-----------------------------------------------------------------------------
(* The theorem.                                                            *)

\* The invariant holds of a broker without workers.
LEMMA BrokerStarts == BrokerInit => BrokerInv
  <1> SUFFICES ASSUME BrokerInit PROVE BrokerInv
    OBVIOUS
  <1>1. bscope.workers \subseteq Workers
    BY BrokerAssumption, Zenon DEF BrokerInit
  <1>2. procs = {} /\ spawned = {} /\ confirmed = {} /\ op = IdleOp /\ table = registry
    BY Zenon DEF BrokerInit
  <1>3. /\ registry \in Registry /\ registry.root = 1 /\ registry.next = 0
        /\ \A w \in Workers : registry.entries[w].identity = 0
    BY Zenon DEF BrokerInit, Down, NoEntry, Registry, Entries
  <1>4. Listed(registry, procs)
    BY <1>2, <1>3 DEF Listed
  <1>5. ProcInv(procs) /\ SpawnInv /\ SetupInv
    BY <1>2, Zenon DEF ProcInv, SpawnInv, SetupInv
  <1>6. KnownInv
    <2>1. known = [w \in Workers |-> 0]
      BY Zenon DEF BrokerInit
    <2> QED BY <2>1 DEF KnownInv
  <1>7. OpInv
    BY <1>2, Zenon DEF OpInv, Launching, IdleOp
  <1>8. registry.next <= table.next
    BY <1>2, <1>3
  <1> QED BY <1>1, <1>2, <1>4, <1>5, <1>6, <1>7, <1>8, Zenon DEF BrokerInv

\* A step of anything else leaves the invariant as it is.
LEMMA BrokerStutters ==
    ASSUME BrokerInv, UNCHANGED brokerVars
    PROVE  BrokerInv'
  <1>1. UNCHANGED <<bscope, procs, spawned, confirmed, known, registry, table, op>>
    BY Zenon DEF brokerVars
  <1>2. OpInv' /\ SetupInv'
    BY <1>1, Zenon DEF BrokerInv, OpInv, SetupInv, Op, Up, Launching, Entry, Shown
  <1> QED BY <1>1, <1>2, OpMoves, Zenon

\* Every step keeps the invariant.
LEMMA BrokerSteps ==
    ASSUME BrokerInv, [BrokerNext]_brokerVars
    PROVE  BrokerInv'
  <1>1. CASE \E w \in bscope.workers :
                \/ AskLaunch(w) \/ AskAbout(w, "stop") \/ AskAbout(w, "status")
                \/ DeleteDirectory(w) \/ CreateDirectory(w) \/ Maintain(w)
    BY <1>1, AskLaunchStep, AskAboutStep, DirectoryStep, MaintainStep, Zenon
  <1>2. CASE LaunchCheck \/ Allocate \/ Spawn \/ RecordPid \/ SendPlan \/ Acknowledged
    BY <1>2, LaunchCheckStep, AllocateStep, SpawnStep, RecordPidStep, SendPlanStep,
       AcknowledgedStep, Zenon
  <1>3. CASE DrainKill
    <2>1. /\ procs' \in SUBSET procs
          /\ UNCHANGED <<bscope, registry, table, op, known, confirmed, spawned>>
      BY <1>3, Zenon DEF DrainKill, daemonSide, history
    <2> QED BY <2>1, EndStep, Zenon
  <1>4. CASE AbortLaunch \/ AbortSave \/ DrainDone \/ DrainFails \/ GiveUp \/ BrokerCrash
    BY <1>4, AbortLaunchStep, AbortSaveStep, DrainDoneStep, DrainFailsStep, GiveUpStep,
       BrokerCrashStep, Zenon
  <1>5. CASE \E root \in {1, 2} : Open(root) \/ Compact(root)
    BY <1>5, OpenStep, CompactStep, Zenon
  <1>6. CASE \E p \in procs : ProcessStep(p)
    BY <1>6, ProcessStepStep, Zenon
  <1>7. CASE UNCHANGED brokerVars
    BY <1>7, BrokerStutters, Zenon
  <1> QED BY <1>1, <1>2, <1>3, <1>4, <1>5, <1>6, <1>7, Zenon DEF BrokerNext

(***************************************************************************)
(* Of the processes that got a plan, two share a host identity exactly if  *)
(* they belong to the same worker; the saved counter covers every identity *)
(* a process was ever started with, so that a restart hands out none of    *)
(* them again; and a worker reported as not alive has no process left.     *)
(* This holds for any set of workers and any number of identities, faults  *)
(* and reconfigurations (main.rs of the worker broker: launch, drain, open *)
(* and compact).                                                           *)
(***************************************************************************)
THEOREM BrokerKnowsWorkers == BrokerSpec => []WorkersKnown
  <1>1. BrokerInit => BrokerInv
    BY BrokerStarts
  <1>2. BrokerInv /\ [BrokerNext]_brokerVars => BrokerInv'
    BY BrokerSteps
  <1>3. BrokerInv => WorkersKnown
    <2> SUFFICES ASSUME BrokerInv PROVE WorkersKnown
      OBVIOUS
    <2>1. ASSUME NEW p \in procs, NEW q \in procs, p.stage # "blocked", q.stage # "blocked"
          PROVE  p.worker = q.worker <=> p.identity = q.identity
      <3>1. /\ registry.entries[p.worker].identity = p.identity
            /\ registry.entries[q.worker].identity = q.identity
        BY <2>1, Zenon DEF BrokerInv, Listed
      <3>2. /\ p.worker \in Workers
            /\ registry.entries[p.worker].identity = q.identity => p.worker = q.worker
        <4>1. p.worker \in Workers
          BY InvTypes, Zenon
        <4>2. Listed(registry, procs)
          BY Zenon DEF BrokerInv
        <4>3. \A t \in procs : \A v \in Workers :
                  registry.entries[v].identity = t.identity => v = t.worker
          BY <4>2, Zenon DEF Listed
        <4> QED BY <4>1, <4>3, Zenon
      <3> QED BY <3>1, <3>2, Zenon
    <2> QED BY <2>1, Zenon DEF BrokerInv, SpawnInv, WorkersKnown, IdentitiesApart,
                                     DeathIsConfirmed
  <1> QED BY <1>1, <1>2, <1>3, PTL DEF BrokerSpec
=============================================================================
