------------------------- MODULE ManagedRunsProofs -------------------------
(***************************************************************************)
(* A managed run is launched at most once, its receipt is true, and its VM *)
(* is kept for it, for any set of runs, any number of boots and any number *)
(* of deaths of the daemon.                                                *)
(*                                                                         *)
(* The guest has at most one session or one pending create request of a    *)
(* run, never both, and none before the run's launch (WorldOk).  The       *)
(* receipt bounds where those can be: they are in the boot it names, a     *)
(* receipt that names none has sent nothing, and a terminal one leaves     *)
(* nothing running (Said).  The position of a controller says which of     *)
(* these a step may count on after a lock, a crash point or a cold stop    *)
(* (Placed), and the lock, the hold and the siblings keep the sweeper and  *)
(* the fences of other runs away (DaemonOk).                               *)
(***************************************************************************)
EXTENDS ManagedRuns, TLAPS

Phases == {"absent", "starting", "running", "uncertain", "cancelling"} \cup Terminal
Receipt == [phase : Phases, kind : {"legacy", "fencing", "isolated"}, epoch : Nat, sid : Nat,
            boot : Nat, exit : {NoExit, 0, 1}, failing : BOOLEAN]
Session == [run : Run, sid : Nat, exit : {NoExit, 0, 1}]
Places == {"none", "claimed", "fresh", "poll"} \cup MidStep

\* Whether a receipt is one of an unfinished run.
Open(c) == c.phase # "absent" /\ c.phase \notin Terminal

\* The guest: a run has one session or one request under way, and the session knows its end.
WorldOk ==
    /\ vm \in {"running", "paused", "sick", "dead", "stopped"} /\ boot \in Nat /\ serial \in Nat
    /\ boot # 0 /\ guest \subseteq Session /\ late \subseteq Run /\ cancelled \subseteq Run
    /\ made \in [Run -> {0, 1}] /\ truth \in [Run -> {NoExit, 0, 1}]
    /\ \A r \in Run : made[r] = 0 => truth[r] = NoExit
    /\ \A r \in late : made[r] = 1 /\ truth[r] = NoExit /\ \A s \in guest : s.run # r
    /\ \A s \in guest : made[s.run] = 1 /\ s.exit = truth[s.run]
    /\ \A s, t \in guest : s.run = t.run => s = t
    /\ ~ Alive => guest = {}
    /\ vm = "stopped" => late = {}

\* What the receipt c of run r says is so.
Said(r, c) ==
    /\ c \in Receipt /\ c.boot <= boot
    /\ c.phase = "absent" => c.boot = 0
    /\ c.phase # "absent" => c.epoch # 0
    /\ c.boot = 0 => made[r] = 0
    /\ r \in late => c.boot = boot
    /\ \A s \in guest : s.run = r => c.boot = boot
    /\ c.phase \in Terminal => r \notin late /\ \A s \in guest : s.run = r => ~ Running(s)
    /\ c.phase = "succeeded" => truth[r] = 0
    /\ c.phase = "failed" => truth[r] = 1
    /\ c.exit # NoExit => c.exit = truth[r]
    /\ c.failing => c.exit = 1
    /\ c.phase \in Terminal /\ c.phase # "succeeded" /\ c.kind = "fencing" /\ c.boot = boot => ~ Alive
    /\ r \in cancelled => c.phase \in {"cancelling", "interrupted"} /\ ~ c.failing

\* Where the controller of r, whose receipt is c, may stand.
Placed(r, p, c) ==
    /\ p \in Places
    /\ p \in MidStep <=> lock = r
    /\ p \in {"fresh", "create"} => made[r] = 0
    /\ p = "create" => c.boot = boot /\ vm # "stopped"
    /\ p \in {"create", "created"} => c.phase = "starting"
    /\ p \in {"stop", "stopped"} => c.kind # "isolated"
    /\ p = "stopped" => vm = "stopped"
    /\ p = "claimed" => Open(c)
    /\ daemon = "up" => p # "claimed" /\ (p \in {"none", "done"} <=> ~ Open(c))
    /\ daemon = "recovering" => p \in {"none", "claimed"}
    /\ daemon = "down" => p = "none"

\* The hold, the lock and the siblings.
DaemonOk ==
    /\ daemon \in {"up", "recovering", "down"}
    /\ row \in [Run -> Receipt] /\ ctl \in [Run -> Places] /\ hold \in [Run -> Nat]
    /\ lock \in Run \cup {"free", "sweep"} /\ stopping \in BOOLEAN
    /\ lock # "free" => daemon = "up"
    /\ stopping <=> lock = "sweep"
    /\ lock = "sweep" => \A r \in Run : ~ Open(row[r])
    /\ \A r \in Run : Open(row[r]) /\ (daemon = "up" \/ ctl[r] = "claimed")
                      => hold[r] = row[r].epoch
    /\ \A q, r \in Run : q # r /\ Open(row[q]) /\ Open(row[r]) => row[q].kind = "isolated"

RunsInv ==
    /\ WorldOk
    /\ DaemonOk
    /\ \A r \in Run : Said(r, row[r]) /\ Placed(r, ctl[r], row[r])

-----------------------------------------------------------------------------
(* What the invariant says.                                                *)

\* A run is never mistaken for a free lock or for the sweep.
LEMMA Names == \A r \in Run : r # "free" /\ r # "sweep"
  BY RunsAssumption, Zenon

\* The invariant's part about the guest and its part about the daemon.
LEMMA Parts == RunsInv => WorldOk /\ DaemonOk
  BY Zenon DEF RunsInv

\* An unfinished run is one with an open receipt, and its receipt and place are right.
LEMMA ActiveIs ==
    ASSUME RunsInv, NEW r \in Run
    PROVE  /\ Active(r) <=> Open(row[r])
           /\ Said(r, row[r]) /\ Placed(r, ctl[r], row[r]) /\ row[r] \in Receipt
           /\ ctl[r] \in Places
  BY Zenon DEF RunsInv, DaemonOk, Active, Admitted, Finished, Open

\* A controller in the middle of a step has the lock, and its run is unfinished or just done.
LEMMA InStep ==
    ASSUME RunsInv, NEW r \in Run, ctl[r] \in MidStep
    PROVE  /\ lock = r /\ daemon = "up" /\ ~ stopping
           /\ ctl[r] # "done" => Open(row[r])
           /\ \A q \in Run \ {r} : ctl[q] \notin MidStep
  <1>1. Placed(r, ctl[r], row[r])
    BY ActiveIs, Zenon
  <1>2. lock = r /\ r # "free" /\ r # "sweep"
    BY <1>1, Names, Zenon DEF Placed
  <1>3. daemon = "up" /\ ~ stopping
    BY <1>2, Zenon DEF RunsInv, DaemonOk
  <1>4. ctl[r] # "none" /\ (ctl[r] # "done" => Open(row[r]))
    BY <1>1, <1>3 DEF Placed, MidStep
  <1>5. \A q \in Run \ {r} : ctl[q] \notin MidStep
    BY <1>2, Zenon DEF RunsInv, Placed
  <1> QED BY <1>2, <1>3, <1>4, <1>5, Zenon

\* A controller about to take a step.
LEMMA AtRest ==
    ASSUME RunsInv, daemon = "up", lock = "free"
    PROVE  ~ stopping /\ \A q \in Run : ctl[q] \notin MidStep
  BY Names, Zenon DEF RunsInv, DaemonOk, Placed

-----------------------------------------------------------------------------
(* Steps of the guest and the worker.                                      *)

\* A step of the world after which every receipt is as true as before.
Spared ==
    /\ WorldOk' /\ boot' = boot /\ made' = made
    /\ \A q \in Run : \A d : Said(q, d) => Said(q, d)'

\* Sessions and requests go, the worker stays or goes.
LEMMA Fades ==
    ASSUME RunsInv, guest' \in SUBSET guest, late' \in SUBSET late, serial' \in Nat,
           UNCHANGED <<boot, made, truth, cancelled>>,
           vm' \in {"running", "paused", "sick", "dead", "stopped"}, Alive' => Alive,
           ~ Alive' => guest' = {}, vm' = "stopped" => late' = {}
    PROVE  Spared
  <1>1. WorldOk'
    BY Zenon DEF RunsInv, WorldOk
  <1>2. ASSUME NEW q \in Run, NEW d, Said(q, d) PROVE Said(q, d)'
    BY <1>2, Zenon DEF Said, Running
  <1> QED BY <1>1, <1>2, Zenon DEF Spared

\* The worker serves, or is resumed, and nothing else happens.
LEMMA Serves ==
    ASSUME RunsInv, vm' = vm \/ (vm \in {"running", "paused"} /\ vm' = "running"),
           UNCHANGED <<boot, guest, serial, late, made, truth, cancelled>>
    PROVE  Spared
  <1>1. /\ vm' \in {"running", "paused", "sick", "dead", "stopped"} /\ serial' \in Nat
        /\ (Alive' <=> Alive) /\ (~ Alive => guest = {}) /\ (vm' = "stopped" => late' = {})
    BY DEF RunsInv, WorldOk, Alive
  <1>2. guest' \in SUBSET guest /\ late' \in SUBSET late
    BY Zenon
  <1> QED BY <1>1, <1>2, Fades, Zenon

\* The session s ends.
LEMMA Ends ==
    ASSUME RunsInv, NEW s \in guest, Running(s), NEW code \in {0, 1},
           guest' = (guest \ {s}) \cup {[s EXCEPT !.exit = code]},
           truth' = [truth EXCEPT ![s.run] = code],
           UNCHANGED <<vm, boot, serial, late, made, cancelled>>
    PROVE  Spared
  <1> DEFINE t == [s EXCEPT !.exit = code]
  <1>1. /\ s \in Session /\ s.run \in Run /\ s.exit = NoExit /\ truth[s.run] = NoExit
        /\ made[s.run] = 1 /\ s.run \notin late
    BY Zenon DEF RunsInv, WorldOk, Running, Session
  <1>2. t \in Session /\ t.run = s.run /\ t.exit = code /\ ~ Running(t)
    BY <1>1 DEF Session, Running, NoExit
  <1>3. /\ truth' \in [Run -> {NoExit, 0, 1}] /\ truth'[s.run] = code
        /\ \A r \in Run : r # s.run => truth'[r] = truth[r]
    BY <1>1 DEF RunsInv, WorldOk
  <1> HIDE DEF t
  <1>4. \A u \in guest' : (u \in guest /\ u # s) \/ u = t
    BY Zenon DEF t
  <1>5. \A u \in guest : u # s => u.run # s.run
    BY Zenon DEF RunsInv, WorldOk
  <1>6. WorldOk'
    <2>1. /\ guest' \subseteq Session
          /\ \A r \in Run : made'[r] = 0 => truth'[r] = NoExit
          /\ \A r \in late' : made'[r] = 1 /\ truth'[r] = NoExit /\ \A u \in guest' : u.run # r
      <3>1. guest' \subseteq Session
        BY <1>2, <1>4, Parts, Zenon DEF WorldOk
      <3>2. \A r \in Run : made'[r] = 0 => truth'[r] = NoExit
        <4>1. made'[s.run] # 0
          BY <1>1
        <4> QED BY <1>3, <4>1, Parts, Zenon DEF WorldOk
      <3>3. ASSUME NEW r \in late'
            PROVE  made'[r] = 1 /\ truth'[r] = NoExit /\ \A u \in guest' : u.run # r
        <4>1. r \in late /\ r \in Run /\ r # s.run
          BY <1>1, <3>3, Parts, Zenon DEF WorldOk
        <4>2. made[r] = 1 /\ truth[r] = NoExit /\ \A u \in guest : u.run # r
          BY <4>1, Parts, Zenon DEF WorldOk
        <4> QED BY <1>2, <1>3, <1>4, <4>1, <4>2, Zenon
      <3> QED BY <3>1, <3>2, <3>3, Zenon
    <2>2. ASSUME NEW u \in guest' PROVE made'[u.run] = 1 /\ u.exit = truth'[u.run]
      <3>1. CASE u = t
        BY <1>1, <1>2, <1>3, <3>1, Zenon
      <3>2. CASE u \in guest /\ u # s
        <4>1. u.run \in Run /\ u.run # s.run
          BY <1>5, <3>2, Parts, Zenon DEF WorldOk, Session
        <4> QED BY <1>3, <3>2, <4>1, Parts, Zenon DEF WorldOk
      <3> QED BY <1>4, <2>2, <3>1, <3>2, Zenon
    <2>3. \A u, v \in guest' : u.run = v.run => u = v
      BY <1>2, <1>4, <1>5, ZenonT(40) DEF RunsInv, WorldOk
    <2>4. ~ Alive' => guest' = {}
      BY Zenon DEF RunsInv, WorldOk, Alive
    <2> QED BY <1>3, <2>1, <2>2, <2>3, <2>4, Zenon DEF RunsInv, WorldOk
  <1>7. ASSUME NEW q \in Run, NEW d, Said(q, d) PROVE Said(q, d)'
    <2>1. \A u \in guest' : u.run = q => d.boot = boot
      BY <1>2, <1>4, <1>7, Zenon DEF Said
    <2>2. d.phase \in Terminal => \A u \in guest' : u.run = q => ~ Running(u)'
      BY <1>2, <1>4, <1>7, Zenon DEF Said, Running
    <2>3. q = s.run => d.phase \notin Terminal /\ d.exit = NoExit
      BY <1>1, <1>7, Zenon DEF Said
    <2>4. /\ d.phase = "succeeded" => truth'[q] = 0
          /\ d.phase = "failed" => truth'[q] = 1
          /\ d.exit # NoExit => d.exit = truth'[q]
      BY <1>3, <1>7, <2>3 DEF Said, Terminal
    <2> QED BY <1>7, <2>1, <2>2, <2>4, Zenon DEF Said, Alive
  <1> QED BY <1>6, <1>7, Zenon DEF Spared

\* A create request is served, late or not.
LEMMA Lands ==
    ASSUME RunsInv, NEW r \in Run, Land(r)
    PROVE  Spared
  <1> DEFINE t == [run |-> r, sid |-> serial + 1, exit |-> NoExit]
  <1>1. /\ r \in late /\ vm \in {"running", "sick"} /\ guest' = guest \cup {t}
        /\ serial' = serial + 1 /\ late' = late \ {r}
        /\ UNCHANGED <<vm, boot, made, truth, cancelled>>
    BY Zenon DEF Land, outside
  <1>2. /\ made[r] = 1 /\ truth[r] = NoExit /\ (\A s \in guest : s.run # r) /\ serial \in Nat
    BY <1>1, Zenon DEF RunsInv, WorldOk
  <1>3. t \in Session /\ t.run = r /\ t.exit = NoExit /\ serial' \in Nat
    BY <1>1, <1>2 DEF Session
  <1>4. Alive'
    BY <1>1 DEF Alive
  <1> HIDE DEF t
  <1>5. \A u \in guest' : u \in guest \/ u = t
    BY <1>1, Zenon
  <1>6. WorldOk'
    <2>1. /\ guest' \subseteq Session /\ late' \subseteq Run
          /\ \A q \in late' : made'[q] = 1 /\ truth'[q] = NoExit /\ \A u \in guest' : u.run # q
          /\ \A u \in guest' : made'[u.run] = 1 /\ u.exit = truth'[u.run]
      BY <1>1, <1>2, <1>3, <1>5, Zenon DEF RunsInv, WorldOk
    <2>2. \A u, v \in guest' : u.run = v.run => u = v
      BY <1>2, <1>3, <1>5, Zenon DEF RunsInv, WorldOk
    <2>3. vm' # "stopped"
      BY <1>1
    <2> QED BY <1>1, <1>3, <1>4, <2>1, <2>2, <2>3, Zenon DEF RunsInv, WorldOk
  <1>7. ASSUME NEW q \in Run, NEW d, Said(q, d) PROVE Said(q, d)'
    <2>1. \A u \in guest' : u.run = q => d.boot = boot'
      BY <1>1, <1>3, <1>5, <1>7, Zenon DEF Said
    <2>2. d.phase \in Terminal => q # r
      BY <1>1, <1>7, Zenon DEF Said
    <2>3. d.phase \in Terminal => q \notin late' /\ \A u \in guest' : u.run = q => ~ Running(u)'
      BY <1>1, <1>3, <1>5, <1>7, <2>2, Zenon DEF Said, Running
    <2>4. Alive' <=> Alive
      BY <1>1, Zenon DEF Alive
    <2> QED BY <1>1, <1>7, <2>1, <2>3, <2>4, Zenon DEF Said
  <1> QED BY <1>1, <1>6, <1>7, Zenon DEF Spared

\* The daemon and the controllers do nothing.
LEMMA WorldMoves ==
    ASSUME RunsInv, Spared, UNCHANGED <<row, daemon, lock, ctl, hold, stopping>>,
           vm' = "stopped" <=> vm = "stopped"
    PROVE  RunsInv'
  <1>1. \A r \in Run : Said(r, row[r])'
    BY Zenon DEF RunsInv, Spared
  <1>2. ASSUME NEW r \in Run PROVE Placed(r, ctl[r], row[r])'
    BY Zenon DEF RunsInv, Spared, Placed, Open
  <1>3. DaemonOk'
    BY Zenon DEF RunsInv, DaemonOk, Open
  <1> QED BY <1>1, <1>2, <1>3, Zenon DEF RunsInv, Spared

-----------------------------------------------------------------------------
(* Steps of a controller.                                                  *)

\* The controller of r may write and move.
Stands(r) == daemon = "up" /\ lock \in {"free", r} /\ Open(row[r])

\* The receipt of r becomes c and its controller goes to p.
Moved(r, c, p) ==
    /\ row' = [row EXCEPT ![r] = c] /\ Goto(r, p)
    /\ daemon' = daemon /\ hold' = hold /\ stopping' = stopping /\ Spared

\* The receipt c says of r what the present one does, in another open phase.
Restates(r, c) ==
    /\ c \in Receipt /\ Open(c)
    /\ c.boot = row[r].boot /\ c.kind = row[r].kind /\ c.epoch = row[r].epoch
    /\ c.exit # NoExit => c.exit = truth[r]
    /\ c.failing => c.exit = 1
    /\ r \in cancelled => c.phase = "cancelling" /\ ~ c.failing

\* A controller that is about to take a step, or in the middle of one, may write.
LEMMA Standing ==
    ASSUME RunsInv, NEW r \in Run,
           AtStep(r) \/ (daemon = "up" /\ ctl[r] \in MidStep /\ ctl[r] # "done")
    PROVE  Stands(r)
  BY ActiveIs, InStep, Zenon DEF Stands, AtStep

\* Writing the receipt that is there changes nothing.
LEMMA SameRow ==
    ASSUME RunsInv, NEW r \in Run
    PROVE  row = [row EXCEPT ![r] = row[r]]
  BY DEF RunsInv, DaemonOk

\* The lock and the positions after a move.
LEMMA Moves ==
    ASSUME RunsInv, NEW r \in Run, NEW c, NEW p, Stands(r), Moved(r, c, p), p \in Places
    PROVE  /\ row'[r] = c /\ ctl'[r] = p
           /\ \A q \in Run : q # r => row'[q] = row[q] /\ ctl'[q] = ctl[q] /\ ctl[q] \notin MidStep
           /\ p \in MidStep <=> lock' = r
           /\ \A q \in Run : q # r => lock' # q
           /\ ~ stopping /\ lock' # "sweep" /\ lock' \in Run \cup {"free", "sweep"}
           /\ ctl' \in [Run -> Places]
  <1>1. row'[r] = c /\ \A q \in Run : q # r => row'[q] = row[q]
    BY DEF RunsInv, DaemonOk, Moved
  <1>2. /\ ctl'[r] = p /\ ctl' \in [Run -> Places]
        /\ \A q \in Run : q # r => ctl'[q] = ctl[q]
    BY DEF RunsInv, DaemonOk, Moved, Goto
  <1>3. lock' = r \/ lock' = "free"
    BY Zenon DEF Moved, Goto
  <1>4. p \in MidStep <=> lock' = r
    BY Names, Zenon DEF Moved, Goto
  <1>5. ASSUME NEW q \in Run, q # r PROVE ctl[q] \notin MidStep /\ lock' # q
    <2>1. Placed(q, ctl[q], row[q]) /\ q # "free" /\ lock # q
      BY <1>5, ActiveIs, Names, Zenon DEF Stands
    <2> QED BY <1>3, <1>5, <2>1, Zenon DEF Placed
  <1>6. ~ stopping /\ lock' # "sweep"
    BY <1>3, Names, Zenon DEF RunsInv, DaemonOk, Stands
  <1> QED BY <1>1, <1>2, <1>3, <1>4, <1>5, <1>6, Zenon

\* A controller's step keeps the invariant if its receipt is true and its position fits.
LEMMA CtlMoves ==
    ASSUME RunsInv, NEW r \in Run, NEW c, NEW p, Stands(r), Moved(r, c, p),
           Said(r, c), c.phase # "absent", c.kind = row[r].kind, c.epoch = row[r].epoch,
           p \in Places \ {"none", "claimed", "fresh"},
           p = "done" <=> ~ Open(c),
           p = "create" => made[r] = 0 /\ c.boot = boot /\ vm' # "stopped",
           p \in {"create", "created"} => c.phase = "starting",
           p \in {"stop", "stopped"} => c.kind # "isolated",
           p = "stopped" => vm' = "stopped"
    PROVE  RunsInv'
  <1>1. p \in Places /\ p # "none" /\ p # "claimed" /\ p # "fresh"
    BY Zenon
  <1>2. /\ row'[r] = c /\ ctl'[r] = p
        /\ \A q \in Run : q # r => row'[q] = row[q] /\ ctl'[q] = ctl[q] /\ ctl[q] \notin MidStep
        /\ p \in MidStep <=> lock' = r
        /\ \A q \in Run : q # r => lock' # q
        /\ ~ stopping /\ lock' # "sweep" /\ lock' \in Run \cup {"free", "sweep"}
        /\ ctl' \in [Run -> Places]
    BY <1>1, Moves, Zenon
  <1>3. /\ daemon' = "up" /\ daemon = "up" /\ hold' = hold /\ stopping' = stopping
        /\ boot' = boot /\ made' = made /\ WorldOk' /\ Open(row[r])
    BY Zenon DEF Moved, Spared, Stands
  <1>4. ASSUME NEW q \in Run PROVE Said(q, row[q])'
    <2>1. CASE q = r
      <3>1. Said(r, c)'
        BY Zenon DEF Moved, Spared
      <3> QED BY <1>2, <2>1, <3>1, ZenonT(40) DEF Said
    <2>2. CASE q # r
      <3>1. PICK d : d = row[q]
        OBVIOUS
      <3>2. Said(q, d) /\ row'[q] = d
        BY <1>2, <2>2, <3>1, ActiveIs, Zenon
      <3>3. Said(q, d)'
        BY <3>2, Zenon DEF Moved, Spared
      <3> QED BY <3>2, <3>3, ZenonT(40) DEF Said
    <2> QED BY <2>1, <2>2, Zenon
  <1>5. Placed(r, ctl[r], row[r])'
    BY <1>1, <1>2, <1>3, Zenon DEF Placed, Open
  <1>6. ASSUME NEW q \in Run, q # r PROVE Placed(q, ctl[q], row[q])'
    <2>1. Placed(q, ctl[q], row[q]) /\ ctl[q] \notin MidStep /\ row'[q] = row[q] /\ ctl'[q] = ctl[q]
      BY <1>2, <1>6, Zenon DEF RunsInv
    <2>2. ctl[q] # "create" /\ ctl[q] # "created" /\ ctl[q] # "stop" /\ ctl[q] # "stopped"
      BY <2>1, Zenon DEF MidStep
    <2> QED BY <1>2, <1>3, <1>6, <2>1, <2>2, Zenon DEF Placed, Open
  <1>7. DaemonOk'
    <2>1. row' \in [Run -> Receipt]
      BY DEF RunsInv, DaemonOk, Moved, Said
    <2>2. \A q \in Run : Open(row'[q]) => Open(row[q]) /\ row'[q].kind = row[q].kind
                                          /\ row'[q].epoch = row[q].epoch
      BY <1>2, <1>3, Zenon
    <2>3. \A q \in Run : Open(row'[q]) => hold[q] = row'[q].epoch
      BY <1>3, <2>2, Zenon DEF RunsInv, DaemonOk
    <2>4. \A q, s \in Run : q # s /\ Open(row'[q]) /\ Open(row'[s]) => row'[q].kind = "isolated"
      BY <2>2, Zenon DEF RunsInv, DaemonOk
    <2>5. hold' \in [Run -> Nat] /\ stopping' \in BOOLEAN
      BY <1>3, Zenon DEF RunsInv, DaemonOk
    <2>6. daemon' \in {"up", "recovering", "down"} /\ (stopping' <=> lock' = "sweep")
      BY <1>2, <1>3, Zenon
    <2> QED BY <1>2, <1>3, <2>1, <2>3, <2>4, <2>5, <2>6, Zenon DEF DaemonOk, Open
  <1> QED BY <1>3, <1>4, <1>5, <1>6, <1>7, Zenon DEF RunsInv

\* A receipt that restates the present one is as true as the present one.
LEMMA Rewords ==
    ASSUME RunsInv, NEW r \in Run, NEW c, Restates(r, c), Open(row[r])
    PROVE  Said(r, c) /\ c.phase # "absent"
  <1>1. Said(r, row[r])
    BY ActiveIs, Zenon
  <1>2. row[r].phase # "absent" /\ row[r].phase \notin Terminal
    BY Zenon DEF Open
  <1>3. c.phase # "absent" /\ c.phase \notin Terminal
    BY Zenon DEF Open, Restates
  <1>4. c.phase # "succeeded" /\ c.phase # "failed"
    BY <1>3, Zenon DEF Terminal
  <1> QED BY <1>1, <1>2, <1>3, <1>4, Zenon DEF Said, Restates

\* An open receipt restates itself.
LEMMA Itself ==
    ASSUME RunsInv, NEW r \in Run, Open(row[r])
    PROVE  Restates(r, row[r])
  <1>1. Said(r, row[r]) /\ row[r] \in Receipt
    BY ActiveIs, Zenon
  <1>2. row[r].phase # "interrupted"
    BY Zenon DEF Open, Terminal
  <1> QED BY <1>1, <1>2, Zenon DEF Restates, Said

\* A step that leaves an open receipt and goes on listing, polling or stopping.
LEMMA GoesOn ==
    ASSUME RunsInv, NEW r \in Run, NEW c, NEW p, Stands(r), Moved(r, c, p), Restates(r, c),
           p \in {"poll", "list", "stop"}, p = "stop" => row[r].kind # "isolated"
    PROVE  RunsInv'
  <1>1. Said(r, c) /\ c.phase # "absent"
    BY Rewords, Zenon DEF Stands
  <1>2. c.kind = row[r].kind /\ c.epoch = row[r].epoch /\ Open(c)
    BY Zenon DEF Restates
  <1>3. p \in Places \ {"none", "claimed", "fresh"}
    BY DEF Places, MidStep
  <1>4. /\ p # "done" /\ p # "create" /\ p # "stopped" /\ p \notin {"create", "created"}
        /\ p \in {"stop", "stopped"} => c.kind # "isolated"
    BY <1>2
  <1> QED BY <1>1, <1>2, <1>3, <1>4, CtlMoves, Zenon

\* A step that ends the run.
LEMMA Finishes ==
    ASSUME RunsInv, NEW r \in Run, NEW c, Stands(r), Moved(r, c, "done"), Said(r, c),
           c.kind = row[r].kind, c.epoch = row[r].epoch, c.phase \in Terminal
    PROVE  RunsInv'
  <1>1. c.phase # "absent" /\ ~ Open(c)
    BY DEF Open, Terminal
  <1>2. /\ "done" \in Places \ {"none", "claimed", "fresh"} /\ "done" # "create"
        /\ "done" \notin {"create", "created"} /\ "done" \notin {"stop", "stopped"}
        /\ "done" # "stopped"
    BY DEF Places, MidStep
  <1> QED BY <1>1, <1>2, CtlMoves, Zenon

-----------------------------------------------------------------------------
(* Receipts written.                                                       *)

\* The receipt c is d in a phase, with an exit code and a word on failing.
Fields(c, d, phase, exit, failing) ==
    /\ c \in Receipt /\ c.phase = phase /\ c.exit = exit /\ c.failing = failing
    /\ c.kind = d.kind /\ c.epoch = d.epoch /\ c.boot = d.boot

\* What update_managed_run leaves of a receipt when it is given no boot.
LEMMA SavedFields ==
    ASSUME NEW r \in Run, row[r] \in Receipt, NEW phase \in Phases, NEW sid \in Nat,
           NEW exit \in {NoExit, 0, 1}, NEW failing \in BOOLEAN
    PROVE  Fields(Saved(r, phase, sid, 0, exit, failing), row[r], phase, exit, failing)
  BY Zenon DEF Receipt, Saved, Fields

\* What a change of phase, exit code and failing leaves of a receipt.
LEMMA ChangedFields ==
    ASSUME NEW d \in Receipt, NEW phase \in Phases, NEW exit \in {NoExit, 0, 1},
           NEW failing \in BOOLEAN
    PROVE  Fields([d EXCEPT !.phase = phase, !.exit = exit, !.failing = failing],
                  d, phase, exit, failing)
  BY Zenon DEF Receipt, Fields

\* What an update of the phase alone leaves of a receipt.
LEMMA PhasedFields ==
    ASSUME NEW r \in Run, row[r] \in Receipt, NEW phase \in Phases
    PROVE  Fields(Phased(r, phase), row[r], phase, NoExit, FALSE)
  BY Zenon DEF Receipt, Phased, Saved, Fields

\* A run nothing is left of may be called interrupted.
LEMMA Interrupts ==
    ASSUME RunsInv, NEW r \in Run, Stands(r), NEW c, Moved(r, c, "done"),
           c = Phased(r, "interrupted"), r \notin late, \A s \in guest : s.run # r,
           row[r].boot = boot => ~ Alive
    PROVE  RunsInv'
  <1>1. Said(r, row[r]) /\ row[r] \in Receipt /\ row[r].phase # "absent"
    BY ActiveIs, Zenon DEF Stands, Open
  <1>2. "interrupted" \in Phases /\ "interrupted" \in Terminal
    BY DEF Phases, Terminal
  <1>3. /\ c \in Receipt /\ c.phase = "interrupted" /\ c.exit = NoExit /\ c.failing = FALSE
        /\ c.kind = row[r].kind /\ c.epoch = row[r].epoch /\ c.boot = row[r].boot
    <2>1. Fields(c, row[r], "interrupted", NoExit, FALSE)
      BY <1>1, <1>2, PhasedFields, Zenon
    <2> QED BY <2>1, Zenon DEF Fields
  <1>4. c.phase # "succeeded" /\ c.phase # "failed" /\ c.phase # "absent" /\ c.phase \in Terminal
    BY <1>3, <1>2
  <1>5. Said(r, c)
    BY <1>1, <1>3, <1>4, Zenon DEF Said
  <1> QED BY <1>3, <1>4, <1>5, Finishes, Zenon

\* The doubt about r is written, or was, and the run is polled again or fenced.
LEMMA Doubts ==
    ASSUME RunsInv, NEW r \in Run, Stands(r), NEW c, Restates(r, c), Uncertain(r, c),
           daemon' = daemon, hold' = hold, stopping' = stopping, Spared
    PROVE  RunsInv'
  <1> DEFINE new == IF c.phase \in {"uncertain", "cancelling"} THEN c
                    ELSE [c EXCEPT !.phase = "uncertain", !.exit = NoExit, !.failing = FALSE]
             p == IF expired[r] \/ (new = row[r] /\ waited[r]) THEN Fence(r) ELSE "poll"
  <1>1. /\ IF new = row[r] THEN UNCHANGED receipt ELSE Write(r, new)
        /\ Goto(r, p)
    BY Zenon DEF Uncertain
  <1>2. row' = [row EXCEPT ![r] = new]
    BY <1>1, SameRow, Zenon DEF receipt, Write
  <1>3. p \in {"poll", "list", "stop"} /\ (p = "stop" => row[r].kind # "isolated")
    BY DEF Fence, Isolated
  <1>4. Restates(r, new)
    <2>1. CASE c.phase \in {"uncertain", "cancelling"}
      BY <2>1, Zenon
    <2>2. CASE c.phase \notin {"uncertain", "cancelling"}
      <3>1. new = [c EXCEPT !.phase = "uncertain", !.exit = NoExit, !.failing = FALSE]
        BY <2>2, Zenon
      <3>2. "uncertain" \in Phases /\ NoExit \in {NoExit, 0, 1} /\ FALSE \in BOOLEAN
        BY DEF Phases
      <3>3. c \in Receipt
        BY Zenon DEF Restates
      <3> HIDE DEF new
      <3>4. /\ new \in Receipt /\ new.phase = "uncertain" /\ new.exit = NoExit
            /\ new.failing = FALSE
            /\ new.kind = c.kind /\ new.epoch = c.epoch /\ new.boot = c.boot
        <4>1. Fields(new, c, "uncertain", NoExit, FALSE)
          BY <3>1, <3>2, <3>3, ChangedFields, Zenon
        <4> QED BY <4>1, Zenon DEF Fields
      <3>5. Open(new)
        BY <3>4 DEF Open, Terminal
      <3>6. r \notin cancelled
        BY <2>2, Zenon DEF Restates
      <3> QED BY <3>4, <3>5, <3>6, Zenon DEF Restates
    <2> QED BY <2>1, <2>2, Zenon
  <1> HIDE DEF new, p
  <1>5. Moved(r, new, p)
    BY <1>1, <1>2, Zenon DEF Moved
  <1> QED BY <1>3, <1>4, <1>5, GoesOn, Zenon

-----------------------------------------------------------------------------
(* One lemma for each action of a controller.                              *)

\* Nothing happens outside the daemon.
LEMMA Still ==
    ASSUME RunsInv, UNCHANGED <<world, cancelled>>
    PROVE  Spared
  <1>1. vm' = vm /\ UNCHANGED <<boot, guest, serial, late, made, truth, cancelled>>
    BY Zenon DEF world
  <1> QED BY <1>1, Serves, Zenon

\* The invariant holds after step: an owed cold stop goes first.
LEMMA StepOwedStep ==
    ASSUME RunsInv, NEW r \in Run, StepOwed(r)
    PROVE  RunsInv'
  <1>1. Stands(r)
    BY Standing, Zenon DEF StepOwed
  <1>2. Moved(r, row[r], "stop")
    BY SameRow, Still, Zenon DEF StepOwed, Moved, receipt, process
  <1>3. row[r].kind # "isolated"
    BY DEF StepOwed, FencePending, Fencing
  <1>4. Restates(r, row[r]) /\ "stop" \in {"poll", "list", "stop"}
    BY <1>1, Itself, Zenon DEF Stands
  <1> QED BY <1>1, <1>2, <1>3, <1>4, GoesOn, Zenon

\* The invariant holds after step: a stopped VM interrupts the run.
LEMMA StepStoppedStep ==
    ASSUME RunsInv, NEW r \in Run, StepStopped(r)
    PROVE  RunsInv'
  <1> DEFINE c == Phased(r, "interrupted")
  <1>1. Stands(r)
    BY Standing, Zenon DEF StepStopped
  <1>2. Moved(r, c, "done")
    BY Still, Zenon DEF StepStopped, Moved, process, Finish, Write
  <1>3. vm = "stopped"
    BY Zenon DEF StepStopped
  <1>4. ~ Alive
    BY <1>3 DEF Alive
  <1>5. r \notin late /\ \A s \in guest : s.run # r
    BY <1>3, <1>4, Zenon DEF RunsInv, WorldOk
  <1> QED BY <1>1, <1>2, <1>4, <1>5, Interrupts, Zenon

\* The invariant holds after step: a worker that does not serve is fenced.
LEMMA StepFailedStep ==
    ASSUME RunsInv, NEW r \in Run, StepFailed(r)
    PROVE  RunsInv'
  <1>1. Stands(r)
    BY Standing, Zenon DEF StepFailed
  <1>2. Moved(r, row[r], Fence(r))
    BY SameRow, Still, Zenon DEF StepFailed, Moved, receipt, process
  <1>3. Fence(r) \in {"poll", "list", "stop"} /\ (Fence(r) = "stop" => row[r].kind # "isolated")
    BY DEF Fence, Isolated
  <1>4. Restates(r, row[r])
    BY <1>1, Itself, Zenon DEF Stands
  <1> QED BY <1>1, <1>2, <1>3, <1>4, GoesOn, Zenon

\* A step that finds the guest awake.
LEMMA Awakes ==
    ASSUME RunsInv, NEW r \in Run, Awake(r)
    PROVE  /\ Stands(r) /\ Spared /\ daemon' = daemon /\ hold' = hold /\ stopping' = stopping
           /\ Alive /\ vm' # "stopped" /\ Restates(r, row[r])
  <1>1. Stands(r)
    BY Standing, Zenon DEF Awake
  <1>2. Spared
    BY Serves, Zenon DEF Awake
  <1>3. Alive /\ vm' # "stopped"
    BY DEF Awake, Alive
  <1>4. daemon' = daemon /\ hold' = hold /\ stopping' = stopping
    BY Zenon DEF Awake, process
  <1> QED BY <1>1, <1>2, <1>3, <1>4, Itself, Zenon DEF Stands

\* The invariant holds after step: the boot identity cannot be read.
LEMMA StepBlindStep ==
    ASSUME RunsInv, NEW r \in Run, StepBlind(r)
    PROVE  RunsInv'
  <1>1. Awake(r) /\ Uncertain(r, row[r])
    BY Zenon DEF StepBlind
  <1> QED BY <1>1, Awakes, Doubts, Zenon

\* The invariant holds after step: the guest rebooted, or the launch is off.
LEMMA StepInterruptStep ==
    ASSUME RunsInv, NEW r \in Run, StepInterrupt(r)
    PROVE  RunsInv'
  <1> DEFINE c == Phased(r, "interrupted")
  <1>1. Awake(r) /\ Finish(r, c)
    BY Zenon DEF StepInterrupt
  <1>2. /\ Stands(r) /\ Spared /\ daemon' = daemon /\ hold' = hold /\ stopping' = stopping
    BY <1>1, Awakes, Zenon
  <1>3. Moved(r, c, "done")
    BY <1>1, <1>2, Zenon DEF Moved, Finish, Write
  <1>4. row[r].boot # boot
    BY Zenon DEF StepInterrupt, RunsInv, WorldOk
  <1>5. r \notin late /\ \A s \in guest : s.run # r
    BY <1>4, ActiveIs, Zenon DEF Said
  <1> QED BY <1>2, <1>3, <1>4, <1>5, Interrupts, Zenon

\* The invariant holds after step: the launch intent is committed with its boot.
LEMMA StepLaunchStep ==
    ASSUME RunsInv, NEW r \in Run, StepLaunch(r)
    PROVE  RunsInv'
  <1> DEFINE c == Saved(r, "starting", 0, boot, NoExit, FALSE)
  <1>1. Awake(r) /\ Launchable(r) /\ Write(r, c) /\ Goto(r, "create")
    BY Zenon DEF StepLaunch
  <1>2. /\ Stands(r) /\ Spared /\ daemon' = daemon /\ hold' = hold /\ stopping' = stopping
        /\ vm' # "stopped"
    BY <1>1, Awakes, Zenon
  <1>3. Moved(r, c, "create")
    BY <1>1, <1>2, Zenon DEF Moved, Write
  <1>4. /\ Said(r, row[r]) /\ row[r] \in Receipt /\ made[r] = 0 /\ row[r].phase = "starting"
        /\ row[r].phase # "absent" /\ boot \in Nat /\ boot # 0
    BY <1>1, <1>2, ActiveIs, Zenon DEF Launchable, Placed, Stands, Open, RunsInv, WorldOk, Said
  <1>6. /\ c \in Receipt /\ c.phase = "starting" /\ c.exit = NoExit /\ c.failing = FALSE
        /\ c.kind = row[r].kind /\ c.epoch = row[r].epoch /\ c.boot = boot
    BY <1>4, Zenon DEF Receipt, Phases, Saved
  <1> HIDE DEF c
  <1>7. /\ c.phase # "absent" /\ c.phase \notin Terminal /\ c.phase # "succeeded"
        /\ c.phase # "failed" /\ Open(c)
    BY <1>6 DEF Terminal, Open
  <1>8. r \notin late /\ (\A s \in guest : s.run # r) /\ r \notin cancelled
    <2>1. row[r].phase # "cancelling" /\ row[r].phase # "interrupted" /\ made[r] # 1
      BY <1>4
    <2>2. r \notin late /\ \A s \in guest : s.run # r
      BY <2>1, Parts, Zenon DEF WorldOk
    <2> QED BY <1>4, <2>1, <2>2, Zenon DEF Said
  <1>9. c.boot <= boot
    BY <1>4, <1>6
  <1>10. Said(r, c)
    BY <1>4, <1>6, <1>7, <1>8, <1>9, Zenon DEF Said
  <1>11. /\ "create" \in Places \ {"none", "claimed", "fresh"} /\ "create" # "done"
         /\ "create" \notin {"stop", "stopped"} /\ "create" # "stopped"
    BY DEF Places, MidStep
  <1> QED BY <1>2, <1>3, <1>4, <1>6, <1>7, <1>10, <1>11, CtlMoves, Zenon

\* The invariant holds after step: a dispatched run is looked for.
LEMMA StepListStep ==
    ASSUME RunsInv, NEW r \in Run, StepList(r)
    PROVE  RunsInv'
  <1>1. Awake(r) /\ Goto(r, "list") /\ row' = row
    BY Zenon DEF StepList, receipt
  <1>2. /\ Stands(r) /\ Spared /\ daemon' = daemon /\ hold' = hold /\ stopping' = stopping
        /\ Restates(r, row[r])
    BY <1>1, Awakes, Zenon
  <1>3. Moved(r, row[r], "list")
    BY <1>1, <1>2, SameRow, Zenon DEF Moved
  <1>4. "list" \in {"poll", "list", "stop"} /\ "list" # "stop"
    OBVIOUS
  <1> QED BY <1>2, <1>3, <1>4, GoesOn, Zenon

\* The invariant holds after session_create is sent, the first one of the run.
LEMMA CreateStep ==
    ASSUME RunsInv, NEW r \in Run, Create(r)
    PROVE  RunsInv'
  <1>1. /\ daemon = "up" /\ ctl[r] = "create" /\ late' = late \cup {r}
        /\ made' = [made EXCEPT ![r] = @ + 1] /\ Goto(r, "created")
        /\ UNCHANGED <<row, daemon, hold, stopping, vm, boot, guest, serial, truth, cancelled>>
    BY Zenon DEF Create, At, receipt, process
  <1>2. "create" \in MidStep /\ "created" \in MidStep /\ "created" \in Places
    BY DEF MidStep, Places
  <1>3. /\ lock = r /\ ~ stopping /\ Open(row[r]) /\ \A q \in Run \ {r} : ctl[q] \notin MidStep
    BY <1>1, <1>2, InStep
  <1>4. /\ made[r] = 0 /\ row[r].boot = boot /\ vm # "stopped" /\ row[r].phase = "starting"
        /\ boot # 0
    BY <1>1, ActiveIs, Zenon DEF Placed, RunsInv, WorldOk
  <1>5. /\ made' \in [Run -> {0, 1}] /\ made'[r] = 1
        /\ \A q \in Run : q # r => made'[q] = made[q]
    BY <1>1, <1>4 DEF RunsInv, WorldOk
  <1>6. /\ ctl' \in [Run -> Places] /\ ctl'[r] = "created" /\ lock' = r
        /\ \A q \in Run : q # r => ctl'[q] = ctl[q]
    BY <1>1, <1>2 DEF Goto, RunsInv, DaemonOk
  <1>7. truth[r] = NoExit /\ \A s \in guest : s.run # r
    <2>1. made[r] # 1
      BY <1>4
    <2> QED BY <1>4, <2>1, Zenon DEF RunsInv, WorldOk
  <1>8. WorldOk'
    <2>1. \A q \in late' : made'[q] = 1 /\ truth'[q] = NoExit /\ \A s \in guest' : s.run # q
      BY <1>1, <1>5, <1>7, Zenon DEF RunsInv, WorldOk
    <2>2. \A s \in guest' : s.run \in Run /\ s.run # r
      BY <1>1, <1>7, Zenon DEF RunsInv, WorldOk, Session
    <2>3. \A s \in guest' : made'[s.run] = 1 /\ s.exit = truth'[s.run]
      BY <1>1, <1>5, <2>2, Zenon DEF RunsInv, WorldOk
    <2>4. \A q \in Run : made'[q] = 0 => truth'[q] = NoExit
      BY <1>1, <1>5, <1>7, Zenon DEF RunsInv, WorldOk
    <2>5. late' \subseteq Run
      BY <1>1, Zenon DEF RunsInv, WorldOk
    <2> QED BY <1>1, <1>4, <1>5, <2>1, <2>3, <2>4, <2>5, Zenon DEF RunsInv, WorldOk, Alive
  <1>9. ASSUME NEW q \in Run PROVE Said(q, row[q])'
    <2>1. Said(q, row[q])
      BY ActiveIs, Zenon
    <2>2. CASE q = r
      <3>1. row[q].phase \notin Terminal /\ row[q].boot = boot /\ row[q].boot # 0
        BY <1>3, <1>4, <2>2, Zenon DEF Open
      <3> QED BY <1>1, <2>1, <3>1, Zenon DEF Said, Running, Alive
    <2>3. CASE q # r
      <3>1. (q \in late' <=> q \in late) /\ made'[q] = made[q]
        BY <1>1, <1>5, <2>3, Zenon
      <3> QED BY <1>1, <2>1, <3>1, ZenonT(40) DEF Said, Running, Alive
    <2> QED BY <2>2, <2>3, Zenon
  <1>10. Placed(r, ctl[r], row[r])'
    <2>1. /\ "created" # "fresh" /\ "created" # "create" /\ "created" # "stop"
          /\ "created" # "stopped" /\ "created" # "claimed" /\ "created" # "none"
          /\ "created" # "done"
      OBVIOUS
    <2> QED BY <1>1, <1>2, <1>3, <1>4, <1>6, <2>1, Zenon DEF Placed, Open
  <1>11. ASSUME NEW q \in Run, q # r PROVE Placed(q, ctl[q], row[q])'
    <2>1. Placed(q, ctl[q], row[q]) /\ ctl'[q] = ctl[q] /\ made'[q] = made[q] /\ lock' # q
      BY <1>5, <1>6, <1>11, ActiveIs, Zenon
    <2>2. ctl[q] \notin MidStep
      BY <1>3, <1>11, Zenon
    <2> QED BY <1>1, <2>1, <2>2, Zenon DEF Placed, Open
  <1>12. DaemonOk'
    BY <1>1, <1>3, <1>6, Names, Zenon DEF RunsInv, DaemonOk, Open
  <1> QED BY <1>8, <1>9, <1>10, <1>11, <1>12, Zenon DEF RunsInv

\* The invariant holds after the answer to session_create comes or is lost.
LEMMA CreatedStep ==
    ASSUME RunsInv, NEW r \in Run, Created(r)
    PROVE  RunsInv'
  <1>1. /\ daemon = "up" /\ ctl[r] = "created" /\ UNCHANGED <<world, cancelled>>
        /\ daemon' = daemon /\ hold' = hold /\ stopping' = stopping
    BY Zenon DEF Created, At, process
  <1>2. "created" \in MidStep /\ "created" # "done"
    BY DEF MidStep
  <1>3. Stands(r) /\ Spared
    BY <1>1, <1>2, Standing, Still, Zenon
  <1>4. Said(r, row[r]) /\ row[r] \in Receipt /\ row[r].phase = "starting" /\ Restates(r, row[r])
    BY <1>1, <1>3, ActiveIs, Itself, Zenon DEF Placed, Stands
  <1>5. CASE Uncertain(r, row[r])
    BY <1>1, <1>3, <1>4, <1>5, Doubts, Zenon
  <1>6. ASSUME NEW s \in guest, s.run = r, Goto(r, "list"),
               Write(r, Saved(r, "running", s.sid, 0, NoExit, FALSE))
        PROVE  RunsInv'
    <2> DEFINE c == Saved(r, "running", s.sid, 0, NoExit, FALSE)
    <2>1. s.sid \in Nat
      BY DEF RunsInv, WorldOk, Session
    <2>2. "running" \in Phases /\ NoExit \in {NoExit, 0, 1} /\ FALSE \in BOOLEAN /\ 0 \in Nat
      BY DEF Phases
    <2>3. /\ c \in Receipt /\ c.phase = "running" /\ c.exit = NoExit /\ c.failing = FALSE
          /\ c.kind = row[r].kind /\ c.epoch = row[r].epoch /\ c.boot = row[r].boot
      <3>1. Fields(c, row[r], "running", NoExit, FALSE)
        BY <1>4, <2>1, <2>2, SavedFields, Zenon
      <3> QED BY <3>1, Zenon DEF Fields
    <2>4. Moved(r, c, "list")
      BY <1>1, <1>3, <1>6, Zenon DEF Moved, Write
    <2> HIDE DEF c
    <2>5. Open(c)
      BY <2>3 DEF Open, Terminal
    <2>6. row[r].phase # "cancelling"
      BY <1>4
    <2>7. Restates(r, c)
      BY <1>4, <2>3, <2>5, <2>6, Zenon DEF Restates
    <2>8. "list" \in {"poll", "list", "stop"} /\ "list" # "stop"
      OBVIOUS
    <2> QED BY <1>3, <2>4, <2>7, <2>8, GoesOn, Zenon
  <1> QED BY <1>5, <1>6, Zenon DEF Created

-----------------------------------------------------------------------------
(* The sessions are listed.                                                *)

\* A controller that has listed the sessions may write, and its receipt is open.
LEMMA Listing ==
    ASSUME RunsInv, NEW r \in Run, At(r, "list")
    PROVE  Stands(r) /\ Restates(r, row[r])
  <1>1. "list" \in MidStep /\ "list" # "done"
    BY DEF MidStep
  <1> QED BY <1>1, Standing, Itself, Zenon DEF At, Stands

\* A session of r, once bound.
LEMMA Binds ==
    ASSUME RunsInv, NEW r \in Run, Open(row[r]), NEW s \in Matching(r)
    PROVE  /\ Restates(r, Bound(r, s)) /\ s \in guest /\ s.run = r /\ s \in Session
           /\ s.exit = truth[r] /\ r \notin late /\ row[r].boot = boot
           /\ \A t \in guest : t.run = r => t = s
  <1>1. s \in guest /\ s.run = r
    BY DEF Matching
  <1>2. /\ s \in Session /\ s.exit = truth[r] /\ r \notin late
        /\ \A t \in guest : t.run = r => t = s
    BY <1>1, Zenon DEF RunsInv, WorldOk
  <1>3. row[r].boot = boot /\ row[r] \in Receipt
    BY <1>1, ActiveIs, Zenon DEF Said
  <1>4. CASE row[r].sid # 0
    BY <1>1, <1>2, <1>3, <1>4, Itself, Zenon DEF Bound
  <1>5. CASE row[r].sid = 0
    <2> DEFINE c == Saved(r, BoundPhase(r), s.sid, 0, NoExit, FALSE)
    <2>1. s.sid \in Nat /\ BoundPhase(r) \in Phases
      BY <1>2 DEF Session, BoundPhase, Phases
    <2>2. NoExit \in {NoExit, 0, 1} /\ FALSE \in BOOLEAN /\ 0 \in Nat
      OBVIOUS
    <2>3. /\ c \in Receipt /\ c.phase = BoundPhase(r) /\ c.exit = NoExit /\ c.failing = FALSE
          /\ c.kind = row[r].kind /\ c.epoch = row[r].epoch /\ c.boot = row[r].boot
      <3>1. Fields(c, row[r], BoundPhase(r), NoExit, FALSE)
        BY <1>3, <2>1, <2>2, SavedFields, Zenon
      <3> QED BY <3>1, Zenon DEF Fields
    <2>4. Bound(r, s) = c
      BY <1>5, Zenon DEF Bound
    <2> HIDE DEF c
    <2>5. Open(c)
      BY <2>3 DEF Open, Terminal, BoundPhase
    <2>6. r \in cancelled => c.phase = "cancelling"
      BY <2>3, Itself, Zenon DEF Restates, BoundPhase
    <2>7. Restates(r, c)
      BY <2>3, <2>5, <2>6, Zenon DEF Restates
    <2> QED BY <1>1, <1>2, <1>3, <2>4, <2>7, Zenon
  <1> QED BY <1>4, <1>5, Zenon

\* The invariant holds after a list that does not settle the run.
LEMMA ListUnclearStep ==
    ASSUME RunsInv, NEW r \in Run, ListUnclear(r)
    PROVE  RunsInv'
  <1>1. /\ At(r, "list") /\ UNCHANGED <<world, cancelled>>
        /\ daemon' = daemon /\ hold' = hold /\ stopping' = stopping
    BY Zenon DEF ListUnclear, process
  <1>2. Stands(r) /\ Restates(r, row[r]) /\ Spared /\ Open(row[r])
    BY <1>1, Listing, Still, Zenon DEF Stands
  <1>3. CASE Uncertain(r, row[r])
    BY <1>1, <1>2, <1>3, Doubts, Zenon
  <1>4. ASSUME NEW s \in Matching(r), Uncertain(r, Bound(r, s)) PROVE RunsInv'
    <2>1. Restates(r, Bound(r, s))
      BY <1>2, Binds, Zenon
    <2> QED BY <1>1, <1>2, <1>4, <2>1, Doubts, Zenon
  <1> QED BY <1>3, <1>4, Zenon DEF ListUnclear

\* The invariant holds after a list that shows the session's confirmed end.
LEMMA ListExitedStep ==
    ASSUME RunsInv, NEW r \in Run, ListExited(r)
    PROVE  RunsInv'
  <1>1. /\ At(r, "list") /\ UNCHANGED <<world, cancelled>>
        /\ daemon' = daemon /\ hold' = hold /\ stopping' = stopping
    BY Zenon DEF ListExited, process
  <1>2. Stands(r) /\ Restates(r, row[r]) /\ Spared /\ Open(row[r])
    BY <1>1, Listing, Still, Zenon DEF Stands
  <1> DEFINE how(s) == Interrupted(r, Bound(r, s))
             as(s) == IF how(s) THEN "interrupted" ELSE IF s.exit = 0 THEN "succeeded" ELSE "failed"
             c(s) == [Bound(r, s) EXCEPT !.phase = "cancelling", !.exit = s.exit,
                                         !.failing = ~ how(s)]
             d(s) == [Bound(r, s) EXCEPT !.phase = as(s), !.exit = s.exit, !.failing = FALSE]
  <1>3. PICK s \in Matching(r) :
            /\ ~ Running(s)
            /\ IF MustFence(r, s.exit, how(s))
               THEN Write(r, c(s)) /\ Goto(r, "stop")
               ELSE Finish(r, d(s))
    BY Zenon DEF ListExited
  <1>4. /\ Restates(r, Bound(r, s)) /\ s.run = r /\ s \in Session /\ s.exit = truth[r]
        /\ r \notin late /\ \A t \in guest : t.run = r => t = s
    BY <1>2, Binds, Zenon
  <1>5. s.exit \in {0, 1} /\ s.exit \in {NoExit, 0, 1} /\ s.exit # NoExit
    BY <1>3, <1>4 DEF Session, Running
  <1>6. how(s) \in BOOLEAN /\ (r \in cancelled => how(s))
    BY <1>4, Zenon DEF Interrupted, Restates
  <1>7. Bound(r, s) \in Receipt
    BY <1>4, Zenon DEF Restates
  <1>8. CASE MustFence(r, s.exit, how(s))
    <2>1. "cancelling" \in Phases
      BY DEF Phases
    <2>2. Write(r, c(s)) /\ Goto(r, "stop") /\ row[r].kind # "isolated"
      <3>1. row[r].kind = "fencing" /\ "fencing" # "isolated"
        BY <1>8 DEF MustFence, Fencing
      <3> QED BY <1>3, <1>8, <3>1
    <2>3. ~ how(s) => s.exit = 1
      <3>1. ~ how(s) => s.exit # 0
        BY <1>8, Zenon DEF MustFence
      <3> QED BY <1>5, <3>1, Zenon
    <2>4. /\ c(s) \in Receipt /\ c(s).phase = "cancelling" /\ c(s).exit = s.exit
          /\ c(s).failing = ~ how(s) /\ c(s).kind = Bound(r, s).kind
          /\ c(s).epoch = Bound(r, s).epoch /\ c(s).boot = Bound(r, s).boot
      <3>1. how(s) \in BOOLEAN
        BY <1>6, Zenon
      <3> HIDE DEF how
      <3>2. (~ how(s)) \in BOOLEAN
        OBVIOUS
      <3>3. Fields(c(s), Bound(r, s), "cancelling", s.exit, ~ how(s))
        BY <1>5, <1>7, <2>1, <3>2, ChangedFields, Zenon
      <3> QED BY <3>3, Zenon DEF Fields
    <2>5. Moved(r, c(s), "stop")
      BY <1>1, <1>2, <2>2, Zenon DEF Moved, Write
    <2> HIDE DEF c
    <2>6. Open(c(s))
      BY <2>4 DEF Open, Terminal
    <2>7. Restates(r, c(s))
      BY <1>4, <1>6, <2>3, <2>4, <2>6, Zenon DEF Restates
    <2> QED BY <1>2, <2>2, <2>5, <2>7, GoesOn, Zenon
  <1>9. CASE ~ MustFence(r, s.exit, how(s))
    <2>1. as(s) \in Phases /\ as(s) \in Terminal /\ FALSE \in BOOLEAN
      BY DEF Phases, Terminal
    <2>2. /\ as(s) = "succeeded" => s.exit = 0
          /\ as(s) = "failed" => s.exit = 1
          /\ r \in cancelled => as(s) = "interrupted"
          /\ as(s) # "absent"
      BY <1>5, <1>6
    <2>3. row[r].kind = "fencing" => as(s) = "succeeded"
      <3>1. row[r].kind = "fencing" => ~ how(s) /\ s.exit = 0
        BY <1>9, Zenon DEF MustFence, Fencing
      <3> QED BY <3>1, Zenon
    <2> HIDE DEF as
    <2>4. /\ d(s) \in Receipt /\ d(s).phase = as(s) /\ d(s).exit = s.exit
          /\ d(s).failing = FALSE /\ d(s).kind = Bound(r, s).kind
          /\ d(s).epoch = Bound(r, s).epoch /\ d(s).boot = Bound(r, s).boot
      <3>1. Fields(d(s), Bound(r, s), as(s), s.exit, FALSE)
        BY <1>5, <1>7, <2>1, ChangedFields, Zenon
      <3> QED BY <3>1, Zenon DEF Fields
    <2>5. Moved(r, d(s), "done")
      BY <1>1, <1>2, <1>3, <1>9, Zenon DEF Moved, Finish, Write
    <2> HIDE DEF d
    <2>6. d(s).kind = row[r].kind /\ d(s).epoch = row[r].epoch /\ d(s).boot = row[r].boot
      BY <1>4, <2>4, Zenon DEF Restates
    <2>7. Said(r, row[r]) /\ row[r].phase # "absent"
      BY <1>2, ActiveIs, Zenon DEF Open
    <2>8. \A t \in guest : t.run = r => ~ Running(t) /\ row[r].boot = boot
      BY <1>3, <1>4, <2>7, Zenon DEF Said
    <2>9. Said(r, d(s))
      BY <1>4, <2>1, <2>2, <2>3, <2>4, <2>6, <2>7, <2>8, Zenon DEF Said
    <2> QED BY <1>2, <2>1, <2>4, <2>5, <2>6, <2>9, Finishes, Zenon
  <1> QED BY <1>8, <1>9, Zenon

\* A receipt that restates the present one, in a new phase without an outcome.
LEMMA Retells ==
    ASSUME RunsInv, NEW r \in Run, NEW b, Restates(r, b), NEW phase \in {"running", "cancelling"},
           r \in cancelled => phase = "cancelling",
           NEW c, c = [b EXCEPT !.phase = phase, !.exit = NoExit, !.failing = FALSE]
    PROVE  Restates(r, c)
  <1>1. phase \in Phases /\ NoExit \in {NoExit, 0, 1} /\ FALSE \in BOOLEAN
    BY DEF Phases
  <1>2. b \in Receipt
    BY Zenon DEF Restates
  <1>3. /\ c \in Receipt /\ c.phase = phase /\ c.exit = NoExit /\ c.failing = FALSE
        /\ c.kind = b.kind /\ c.epoch = b.epoch /\ c.boot = b.boot
    <2>1. Fields(c, b, phase, NoExit, FALSE)
      BY <1>1, <1>2, ChangedFields, Zenon
    <2> QED BY <2>1, Zenon DEF Fields
  <1>4. Open(c)
    BY <1>3 DEF Open, Terminal
  <1> QED BY <1>3, <1>4, Zenon DEF Restates

\* The invariant holds after a list that shows the session running on.
LEMMA ListRunningStep ==
    ASSUME RunsInv, NEW r \in Run, ListRunning(r)
    PROVE  RunsInv'
  <1>1. /\ At(r, "list") /\ UNCHANGED <<world, cancelled>> /\ Goto(r, "poll")
        /\ daemon' = daemon /\ hold' = hold /\ stopping' = stopping
    BY Zenon DEF ListRunning, process
  <1>2. Stands(r) /\ Restates(r, row[r]) /\ Spared /\ Open(row[r])
    BY <1>1, Listing, Still, Zenon DEF Stands
  <1> DEFINE b(s) == Bound(r, s)
             c(s) == [b(s) EXCEPT !.phase = "running", !.exit = NoExit, !.failing = FALSE]
  <1>3. PICK s \in Matching(r) :
            b(s).phase # "cancelling" /\ (row' = row \/ Write(r, c(s)))
    BY Zenon DEF ListRunning, receipt
  <1>4. Restates(r, b(s))
    BY <1>2, Binds, Zenon
  <1>5. "poll" \in {"poll", "list", "stop"} /\ "poll" # "stop"
        /\ "running" \in {"running", "cancelling"}
    OBVIOUS
  <1>6. CASE row' = row
    <2>1. Moved(r, row[r], "poll")
      BY <1>1, <1>2, <1>6, SameRow, Zenon DEF Moved
    <2> QED BY <1>2, <1>5, <2>1, GoesOn, Zenon
  <1>7. CASE Write(r, c(s))
    <2>1. Moved(r, c(s), "poll")
      BY <1>1, <1>2, <1>7, Zenon DEF Moved, Write
    <2>2. r \notin cancelled
      BY <1>3, <1>4, Zenon DEF Restates
    <2>3. Restates(r, c(s))
      BY <1>4, <1>5, <2>2, Retells, Zenon
    <2> QED BY <1>2, <1>5, <2>1, <2>3, GoesOn, Zenon
  <1> QED BY <1>3, <1>6, <1>7, Zenon

\* The invariant holds after a list that shows a session that must end.
LEMMA ListCancellingStep ==
    ASSUME RunsInv, NEW r \in Run, ListCancelling(r)
    PROVE  RunsInv'
  <1>1. /\ At(r, "list") /\ UNCHANGED <<vm, boot, serial, late, made, cancelled>>
        /\ daemon' = daemon /\ hold' = hold /\ stopping' = stopping
    BY Zenon DEF ListCancelling, process
  <1>2. Stands(r) /\ Restates(r, row[r]) /\ Open(row[r])
    BY <1>1, Listing, Zenon DEF Stands
  <1> DEFINE b(s) == Bound(r, s)
             c(s) == [b(s) EXCEPT !.phase = "cancelling", !.exit = NoExit, !.failing = FALSE]
             p(s) == IF (b(s) = row[r] /\ b(s).phase = "cancelling") /\ waited[r]
                     THEN Fence(r) ELSE "poll"
  <1>3. PICK s \in Matching(r) :
            /\ Running(s) /\ (row' = row \/ Write(r, c(s))) /\ Goto(r, p(s))
            /\ \/ UNCHANGED <<guest, truth>>
               \/ /\ guest' = (guest \ {s}) \cup {[s EXCEPT !.exit = 1]}
                  /\ truth' = [truth EXCEPT ![s.run] = 1]
    BY Zenon DEF ListCancelling, receipt
  <1>4. Restates(r, b(s)) /\ s \in guest
    BY <1>2, Binds, Zenon
  <1>5. p(s) \in {"poll", "list", "stop"} /\ (p(s) = "stop" => row[r].kind # "isolated")
    BY DEF Fence, Isolated
  <1>6. "cancelling" \in {"running", "cancelling"} /\ 1 \in {0, 1}
    OBVIOUS
  <1> HIDE DEF p
  <1>7. Spared
    <2>1. CASE UNCHANGED <<guest, truth>>
      <3>1. vm' = vm /\ UNCHANGED <<boot, guest, serial, late, made, truth, cancelled>>
        BY <1>1, <2>1, Zenon
      <3> QED BY <3>1, Serves, Zenon
    <2>2. CASE /\ guest' = (guest \ {s}) \cup {[s EXCEPT !.exit = 1]}
               /\ truth' = [truth EXCEPT ![s.run] = 1]
      BY <1>1, <1>3, <1>4, <1>6, <2>2, Ends, Zenon
    <2> QED BY <1>3, <2>1, <2>2, Zenon
  <1>8. CASE row' = row
    <2>1. Moved(r, row[r], p(s))
      BY <1>1, <1>3, <1>7, <1>8, SameRow, Zenon DEF Moved
    <2> QED BY <1>2, <1>5, <2>1, GoesOn, Zenon
  <1>9. CASE Write(r, c(s))
    <2>1. Moved(r, c(s), p(s))
      BY <1>1, <1>3, <1>7, <1>9, Zenon DEF Moved, Write
    <2>2. Restates(r, c(s))
      BY <1>4, <1>6, Retells, Zenon
    <2> QED BY <1>2, <1>5, <2>1, <2>2, GoesOn, Zenon
  <1> QED BY <1>3, <1>8, <1>9, Zenon

-----------------------------------------------------------------------------
(* The cold stop, the terminal commit and the release.                     *)

\* The worker is gone, and the guest with it.
LEMMA Vanishes ==
    ASSUME RunsInv, Gone, vm' \in {"dead", "stopped"},
           UNCHANGED <<boot, made, truth, cancelled>>
    PROVE  Spared
  <1>1. ~ Alive' /\ vm' \in {"running", "paused", "sick", "dead", "stopped"} /\ serial' \in Nat
    BY DEF Alive, Gone
  <1>2. guest' \in SUBSET guest /\ late' \in SUBSET late /\ guest' = {} /\ late' = {}
    BY Zenon DEF Gone
  <1> QED BY <1>1, <1>2, Fades, Zenon

\* The invariant holds after a cold stop that succeeds.
LEMMA StopStep ==
    ASSUME RunsInv, NEW r \in Run, Stop(r)
    PROVE  RunsInv'
  <1>1. /\ daemon = "up" /\ ctl[r] = "stop" /\ vm' = "stopped" /\ Gone /\ Goto(r, "stopped")
        /\ UNCHANGED <<row, daemon, hold, stopping, boot, made, truth, cancelled>>
    BY Zenon DEF Stop, At, receipt, process
  <1>2. /\ "stop" \in MidStep /\ "stop" # "done"
        /\ "stopped" \in Places \ {"none", "claimed", "fresh"} /\ "stopped" # "done"
        /\ "stopped" # "create" /\ "stopped" \notin {"create", "created"}
    BY DEF MidStep, Places
  <1>3. Stands(r)
    BY <1>1, <1>2, Standing, Zenon
  <1>4. Spared
    BY <1>1, Vanishes, Zenon
  <1>5. Moved(r, row[r], "stopped")
    BY <1>1, <1>4, SameRow, Zenon DEF Moved
  <1>6. Said(r, row[r]) /\ row[r].kind # "isolated" /\ row[r].phase # "absent" /\ Open(row[r])
    BY <1>1, <1>3, ActiveIs, Zenon DEF Placed, Stands, Open
  <1> QED BY <1>1, <1>2, <1>3, <1>5, <1>6, CtlMoves, Zenon

\* The invariant holds after a cold stop that fails half way.
LEMMA StopPartStep ==
    ASSUME RunsInv, NEW r \in Run, StopPart(r)
    PROVE  RunsInv'
  <1>1. /\ daemon = "up" /\ ctl[r] = "stop" /\ vm' = "dead" /\ Gone /\ Goto(r, "poll")
        /\ UNCHANGED <<row, daemon, hold, stopping, boot, made, truth, cancelled>>
    BY Zenon DEF StopPart, At, receipt, process
  <1>2. /\ "stop" \in MidStep /\ "stop" # "done"
        /\ "poll" \in {"poll", "list", "stop"} /\ "poll" # "stop"
    BY DEF MidStep
  <1>3. Stands(r) /\ Restates(r, row[r])
    BY <1>1, <1>2, Standing, Itself, Zenon DEF Stands
  <1>4. Spared
    BY <1>1, Vanishes, Zenon
  <1>5. Moved(r, row[r], "poll")
    BY <1>1, <1>4, SameRow, Zenon DEF Moved
  <1> QED BY <1>2, <1>3, <1>5, GoesOn, Zenon

\* The invariant holds after the terminal update that follows a cold stop.
LEMMA FencedStep ==
    ASSUME RunsInv, NEW r \in Run, Fenced(r)
    PROVE  RunsInv'
  <1> DEFINE c == Saved(r, FencedPhase(r), 0, 0, row[r].exit, FALSE)
             d == Phased(r, "interrupted")
  <1>1. /\ daemon = "up" /\ ctl[r] = "stopped" /\ UNCHANGED <<world, cancelled>>
        /\ daemon' = daemon /\ hold' = hold /\ stopping' = stopping
        /\ Finish(r, IF FencePending(r) THEN c ELSE d)
    BY Zenon DEF Fenced, At, process
  <1>2. "stopped" \in MidStep /\ "stopped" # "done"
    BY DEF MidStep
  <1>3. Stands(r) /\ Spared /\ vm = "stopped"
    BY <1>1, <1>2, Standing, Still, ActiveIs, Zenon DEF Placed
  <1>4. ~ Alive
    BY <1>3 DEF Alive
  <1>5. r \notin late /\ \A s \in guest : s.run # r
    BY <1>3, <1>4, Zenon DEF RunsInv, WorldOk
  <1>6. CASE ~ FencePending(r)
    <2>1. Moved(r, d, "done")
      BY <1>1, <1>3, <1>6, Zenon DEF Moved, Finish, Write
    <2> QED BY <1>3, <1>4, <1>5, <2>1, Interrupts, Zenon
  <1>7. CASE FencePending(r)
    <2>1. Moved(r, c, "done")
      BY <1>1, <1>3, <1>7, Zenon DEF Moved, Finish, Write
    <2>2. Said(r, row[r]) /\ row[r] \in Receipt /\ row[r].phase # "absent"
      BY <1>3, ActiveIs, Zenon DEF Stands, Open
    <2>3. /\ FencedPhase(r) \in Phases /\ FencedPhase(r) \in Terminal /\ FALSE \in BOOLEAN
          /\ FencedPhase(r) # "succeeded" /\ FencedPhase(r) # "absent"
          /\ FencedPhase(r) = "failed" => row[r].failing
          /\ ~ row[r].failing => FencedPhase(r) = "interrupted"
          /\ row[r].exit \in {NoExit, 0, 1} /\ 0 \in Nat
      BY <2>2 DEF FencedPhase, Phases, Terminal, Receipt
    <2>4. /\ c \in Receipt /\ c.phase = FencedPhase(r) /\ c.exit = row[r].exit
          /\ c.failing = FALSE
          /\ c.kind = row[r].kind /\ c.epoch = row[r].epoch /\ c.boot = row[r].boot
      <3>1. Fields(c, row[r], FencedPhase(r), row[r].exit, FALSE)
        BY <2>2, <2>3, SavedFields, Zenon
      <3> QED BY <3>1, Zenon DEF Fields
    <2> HIDE DEF c
    <2>5. c.phase = "failed" => truth[r] = 1
      <3>1. row[r].failing => row[r].exit = 1 /\ 1 # NoExit
        BY <2>2 DEF Said, NoExit
      <3> QED BY <2>2, <2>3, <2>4, <3>1, Zenon DEF Said
    <2>6. r \in cancelled => c.phase = "interrupted"
      BY <2>2, <2>3, <2>4, Zenon DEF Said
    <2>7. Said(r, c)
      BY <1>4, <1>5, <2>2, <2>3, <2>4, <2>5, <2>6, Zenon DEF Said
    <2> QED BY <1>3, <2>1, <2>3, <2>4, <2>7, Finishes, Zenon
  <1> QED BY <1>6, <1>7, Zenon

\* The invariant holds after an error that ends a step early.
LEMMA StepErrorStep ==
    ASSUME RunsInv, NEW r \in Run, StepError(r)
    PROVE  RunsInv'
  <1>1. /\ UNCHANGED <<world, cancelled>> /\ Goto(r, "poll")
        /\ UNCHANGED <<row, daemon, hold, stopping>>
    BY Zenon DEF StepError, receipt, process
  <1>2. Stands(r) /\ Restates(r, row[r])
    <2>1. \A p \in {"created", "list", "stop", "stopped"} : p \in MidStep /\ p # "done"
      BY DEF MidStep
    <2> QED BY <2>1, Standing, Itself, Zenon DEF StepError, Stands
  <1>3. Spared
    BY <1>1, Still, Zenon
  <1>4. Moved(r, row[r], "poll")
    BY <1>1, <1>3, SameRow, Zenon DEF Moved
  <1>5. "poll" \in {"poll", "list", "stop"} /\ "poll" # "stop"
    OBVIOUS
  <1> QED BY <1>2, <1>4, <1>5, GoesOn, Zenon

\* The invariant holds after the release that follows a terminal update.
LEMMA DoneStep ==
    ASSUME RunsInv, NEW r \in Run, Done(r)
    PROVE  RunsInv'
  <1>1. /\ daemon = "up" /\ ctl[r] = "done" /\ guest' \in {guest, guest \ Receipts(r)}
        /\ hold' = [hold EXCEPT ![r] = 0] /\ Goto(r, "none")
        /\ UNCHANGED <<row, daemon, stopping, vm, boot, serial, late, made, truth, cancelled>>
    BY Zenon DEF Done, At, receipt, process
  <1>2. "done" \in MidStep /\ "none" \notin MidStep /\ "none" \in Places
    BY DEF MidStep, Places
  <1>3. lock = r /\ ~ stopping /\ \A q \in Run \ {r} : ctl[q] \notin MidStep
    BY <1>1, <1>2, InStep, Zenon
  <1>4. ~ Open(row[r])
    BY <1>1, ActiveIs, Zenon DEF Placed
  <1>5. Spared
    <2>1. /\ guest' \in SUBSET guest /\ late' \in SUBSET late /\ (Alive' <=> Alive)
          /\ ~ Alive' => guest' = {}
      BY <1>1, Zenon DEF RunsInv, WorldOk, Alive
    <2> QED BY <1>1, <2>1, Fades, Zenon DEF RunsInv, WorldOk
  <1>6. /\ ctl' \in [Run -> Places] /\ ctl'[r] = "none" /\ lock' = "free"
        /\ \A q \in Run : q # r => ctl'[q] = ctl[q]
    BY <1>1, <1>2 DEF Goto, RunsInv, DaemonOk
  <1>7. hold' \in [Run -> Nat] /\ \A q \in Run : q # r => hold'[q] = hold[q]
    BY <1>1 DEF RunsInv, DaemonOk
  <1>8. \A q \in Run : Said(q, row[q])'
    BY <1>1, <1>5, Zenon DEF RunsInv, Spared
  <1>9. Placed(r, ctl[r], row[r])'
    <2>1. /\ "none" # "fresh" /\ "none" # "create" /\ "none" # "created" /\ "none" # "stop"
          /\ "none" # "stopped" /\ "none" # "claimed" /\ "up" # "recovering" /\ "up" # "down"
      OBVIOUS
    <2> QED BY <1>1, <1>2, <1>4, <1>6, <2>1, Names, Zenon DEF Placed, Open
  <1>10. ASSUME NEW q \in Run, q # r PROVE Placed(q, ctl[q], row[q])'
    <2>1. Placed(q, ctl[q], row[q]) /\ ctl'[q] = ctl[q] /\ lock' # q /\ ctl[q] \notin MidStep
      BY <1>3, <1>6, <1>10, ActiveIs, Names, Zenon
    <2> QED BY <1>1, <2>1, Zenon DEF Placed, Open
  <1>11. DaemonOk'
    BY <1>1, <1>3, <1>4, <1>6, <1>7, Zenon DEF RunsInv, DaemonOk, Open
  <1> QED BY <1>5, <1>8, <1>9, <1>10, <1>11, Zenon DEF RunsInv, Spared

-----------------------------------------------------------------------------
(* Submission, cancellation and recovery.                                  *)

\* What the next state says of a receipt it says of the row that holds it.
LEMMA Carried ==
    ASSUME NEW r, NEW c, row'[r] = c, Said(r, c)'
    PROVE  Said(r, row[r])'
  BY ZenonT(40) DEF Said

\* The receipt of r changes while the lock is free.
LEMMA Rewritten ==
    ASSUME RunsInv, NEW r \in Run, NEW c, row' = [row EXCEPT ![r] = c],
           \A q \in Run : \A d : q # r => (Said(q, d) => Said(q, d)'), Said(r, c)', WorldOk',
           DaemonOk', Placed(r, ctl[r], c)',
           \A q \in Run : q # r => ctl'[q] = ctl[q],
           UNCHANGED <<daemon, lock, made, boot, vm>>
    PROVE  RunsInv'
  <1>1. row'[r] = c /\ \A q \in Run : q # r => row'[q] = row[q]
    BY DEF RunsInv, DaemonOk
  <1>2. ASSUME NEW q \in Run, q # r PROVE Said(q, row[q])' /\ Placed(q, ctl[q], row[q])'
    <2>1. Said(q, row[q]) /\ row'[q] = row[q] /\ Placed(q, ctl[q], row[q]) /\ ctl'[q] = ctl[q]
      BY <1>1, <1>2, ActiveIs, Zenon
    <2>2. Said(q, row[q])'
      <3>1. PICK d : d = row[q]
        OBVIOUS
      <3>2. Said(q, d)' /\ row'[q] = d
        BY <1>2, <2>1, <3>1, Zenon
      <3> QED BY <3>2, ZenonT(40) DEF Said
    <2>3. Placed(q, ctl[q], row[q])'
      BY <2>1, Zenon DEF Placed, Open
    <2> QED BY <2>2, <2>3, Zenon
  <1>3. Said(r, row[r])'
    BY <1>1, Carried, Zenon
  <1>4. Placed(r, ctl[r], row[r])'
    BY <1>1, Zenon DEF Placed, Open
  <1> QED BY <1>2, <1>3, <1>4, Zenon DEF RunsInv

\* The invariant holds after submit admits a run.
LEMMA SubmitStep ==
    ASSUME RunsInv, NEW r \in Run, NEW k \in Kinds, Submit(r, k)
    PROVE  RunsInv'
  <1> DEFINE c == [Absent EXCEPT !.phase = "starting", !.kind = k, !.epoch = 1]
  <1>1. /\ daemon = "up" /\ lock = "free" /\ ~ Admitted(r) /\ Admissible(k)
        /\ row' = [row EXCEPT ![r] = c] /\ hold' = [hold EXCEPT ![r] = 1]
        /\ ctl' = [ctl EXCEPT ![r] = "fresh"]
        /\ UNCHANGED <<daemon, lock, stopping, vm, boot, guest, serial, late, made, truth, cancelled>>
    BY Zenon DEF Submit, process, world, Write
  <1>2. /\ c \in Receipt /\ c.phase = "starting" /\ c.kind = k /\ c.epoch = 1 /\ c.boot = 0
        /\ c.exit = NoExit /\ c.failing = FALSE
    BY RunsAssumption, Zenon DEF Receipt, Phases, Absent
  <1> HIDE DEF c
  <1>3. /\ Open(c) /\ c.phase \notin Terminal /\ c.phase # "succeeded" /\ c.phase # "failed"
        /\ c.phase # "absent" /\ c.epoch # 0
    BY <1>2 DEF Open, Terminal
  <1>4. /\ row[r].phase = "absent" /\ made[r] = 0 /\ r \notin cancelled /\ r \notin late
        /\ \A s \in guest : s.run # r
    <2>1. row[r].phase = "absent" /\ Said(r, row[r])
      BY <1>1, ActiveIs, Zenon DEF Admitted
    <2>2. row[r].phase \notin {"cancelling", "interrupted"}
      BY <2>1
    <2>3. made[r] = 0 /\ r \notin cancelled
      BY <2>1, <2>2, Zenon DEF Said
    <2>4. made[r] # 1
      BY <2>3
    <2> QED BY <2>1, <2>3, <2>4, Zenon DEF RunsInv, WorldOk
  <1>5. Spared
    BY <1>1, Serves, Zenon
  <1>6. Said(r, c)'
    <2>1. c.boot <= boot
      BY <1>2 DEF RunsInv, WorldOk
    <2>2. Said(r, c)
      BY <1>2, <1>3, <1>4, <2>1, Zenon DEF Said
    <2> QED BY <1>5, <2>2, Zenon DEF Spared
  <1>7. ~ stopping /\ ctl[r] \notin MidStep
    BY <1>1, AtRest, Zenon
  <1>8. /\ ctl' \in [Run -> Places] /\ ctl'[r] = "fresh" /\ "fresh" \notin MidStep
        /\ \A q \in Run : q # r => ctl'[q] = ctl[q]
    BY <1>1 DEF RunsInv, DaemonOk, Places, MidStep
  <1>9. Placed(r, ctl[r], c)'
    <2>1. /\ "fresh" # "create" /\ "fresh" # "created" /\ "fresh" # "stop" /\ "fresh" # "none"
          /\ "fresh" # "stopped" /\ "fresh" # "claimed" /\ "fresh" # "done" /\ "fresh" \in Places
          /\ "up" # "recovering" /\ "up" # "down"
      BY DEF Places
    <2> QED BY <1>1, <1>3, <1>4, <1>8, <2>1, Names, Zenon DEF Placed, Open
  <1>10. DaemonOk'
    <2>1. /\ row' \in [Run -> Receipt] /\ row'[r] = c /\ hold' \in [Run -> Nat] /\ hold'[r] = 1
          /\ \A q \in Run : q # r => row'[q] = row[q] /\ hold'[q] = hold[q]
      BY <1>1, <1>2 DEF RunsInv, DaemonOk
    <2>2. \A q \in Run : Open(row'[q]) => hold'[q] = row'[q].epoch
      BY <1>1, <1>2, <2>1, Zenon DEF RunsInv, DaemonOk
    <2>3. \A q \in Run : q # r /\ Open(row[q]) => k = "isolated" /\ row[q].kind = "isolated"
      BY <1>1, ActiveIs, Zenon DEF Admissible, Isolated
    <2>4. \A q, s \in Run : q # s /\ Open(row'[q]) /\ Open(row'[s]) => row'[q].kind = "isolated"
      BY <1>2, <2>1, <2>3, Zenon DEF RunsInv, DaemonOk
    <2>5. lock' # "sweep" /\ lock' = "free" /\ stopping' = stopping
      BY <1>1
    <2>6. daemon' = "up" /\ stopping' \in BOOLEAN /\ daemon' \in {"up", "recovering", "down"}
      BY <1>1, Parts, Zenon DEF DaemonOk
    <2> QED BY <1>7, <1>8, <2>1, <2>2, <2>4, <2>5, <2>6, Zenon DEF DaemonOk, Open
  <1> QED BY <1>1, <1>5, <1>6, <1>8, <1>9, <1>10, Rewritten, Zenon DEF Spared

\* The invariant holds after cancel is acknowledged.
LEMMA CancelStep ==
    ASSUME RunsInv, NEW r \in Run, Cancel(r)
    PROVE  RunsInv'
  <1>0. PICK c : c = Phased(r, "cancelling")
    OBVIOUS
  <1>1. /\ daemon = "up" /\ lock = "free" /\ Active(r)
        /\ row' = [row EXCEPT ![r] = c] /\ cancelled' = cancelled \cup {r}
        /\ UNCHANGED <<daemon, lock, ctl, hold, stopping, vm, boot, guest, serial, late, made, truth>>
    BY <1>0, Zenon DEF Cancel, process, world, Write
  <1>2. Said(r, row[r]) /\ row[r] \in Receipt /\ Open(row[r]) /\ Placed(r, ctl[r], row[r])
    BY <1>1, ActiveIs, Zenon
  <1>3. "cancelling" \in Phases
    BY DEF Phases
  <1>4. /\ c \in Receipt /\ c.phase = "cancelling" /\ c.exit = NoExit /\ c.failing = FALSE
        /\ c.kind = row[r].kind /\ c.epoch = row[r].epoch /\ c.boot = row[r].boot
    <2>1. Fields(c, row[r], "cancelling", NoExit, FALSE)
      BY <1>0, <1>2, <1>3, PhasedFields, Zenon
    <2> QED BY <2>1, Zenon DEF Fields
  <1>5. /\ Open(c) /\ c.phase \notin Terminal /\ c.phase # "succeeded" /\ c.phase # "failed"
        /\ c.phase # "absent" /\ row[r].phase # "absent"
    BY <1>2, <1>4 DEF Open, Terminal
  <1>6. Said(r, c)'
    BY <1>1, <1>2, <1>4, <1>5, Zenon DEF Said, Running
  <1>7. ASSUME NEW q \in Run, NEW d, q # r, Said(q, d) PROVE Said(q, d)'
    BY <1>1, <1>7, Zenon DEF Said, Running, Alive
  <1>8. WorldOk'
    BY <1>1, Zenon DEF RunsInv, WorldOk, Alive
  <1>9. ctl[r] \notin MidStep
    BY <1>1, AtRest, Zenon
  <1>10. Placed(r, ctl[r], c)'
    <2>1. /\ ctl[r] # "create" /\ ctl[r] # "created" /\ ctl[r] # "stop" /\ ctl[r] # "stopped"
      BY <1>9, Zenon DEF MidStep
    <2> QED BY <1>1, <1>2, <1>5, <2>1, Zenon DEF Placed, Open
  <1>11. DaemonOk'
    <2>1. /\ row' \in [Run -> Receipt] /\ row'[r] = c
          /\ \A q \in Run : q # r => row'[q] = row[q]
      BY <1>1, <1>4 DEF RunsInv, DaemonOk
    <2>2. \A q \in Run : /\ Open(row'[q]) <=> Open(row[q])
                         /\ row'[q].kind = row[q].kind /\ row'[q].epoch = row[q].epoch
      BY <1>2, <1>4, <1>5, <2>1, Zenon
    <2>3. \A q, s \in Run : q # s /\ Open(row'[q]) /\ Open(row'[s]) => row'[q].kind = "isolated"
      BY <2>2, Zenon DEF RunsInv, DaemonOk
    <2>4. \A q \in Run : Open(row'[q]) => hold[q] = row'[q].epoch
      BY <1>1, <2>2, Zenon DEF RunsInv, DaemonOk
    <2>5. /\ lock' # "sweep" /\ lock' = "free" /\ ~ stopping' /\ daemon' = "up"
          /\ hold' \in [Run -> Nat] /\ ctl' \in [Run -> Places] /\ stopping' \in BOOLEAN
      BY <1>1, AtRest DEF RunsInv, DaemonOk
    <2>6. daemon' \in {"up", "recovering", "down"} /\ hold' = hold
      BY <1>1, <2>5, Zenon
    <2> QED BY <2>1, <2>3, <2>4, <2>5, <2>6, Zenon DEF DaemonOk, Open
  <1> QED BY <1>1, <1>6, <1>7, <1>8, <1>10, <1>11, Rewritten, Zenon

\* The invariant holds after recovery claims the next epoch of a run.
LEMMA ClaimStep ==
    ASSUME RunsInv, NEW r \in Run, Claim(r)
    PROVE  RunsInv'
  <1>0. PICK c : c = [row[r] EXCEPT !.epoch = @ + 1]
    BY Zenon
  <1>1. /\ daemon = "recovering" /\ Active(r) /\ ctl[r] = "none"
        /\ row' = [row EXCEPT ![r] = c] /\ hold' = [hold EXCEPT ![r] = row[r].epoch + 1]
        /\ ctl' = [ctl EXCEPT ![r] = "claimed"]
        /\ UNCHANGED <<daemon, lock, stopping, vm, boot, guest, serial, late, made, truth, cancelled>>
    BY <1>0, Zenon DEF Claim, process, world, Write, Restored
  <1>2. Said(r, row[r]) /\ row[r] \in Receipt /\ Open(row[r])
    BY <1>1, ActiveIs, Zenon
  <1>3. /\ c \in Receipt /\ c.phase = row[r].phase /\ c.exit = row[r].exit
        /\ c.failing = row[r].failing /\ c.kind = row[r].kind /\ c.boot = row[r].boot
        /\ c.epoch = row[r].epoch + 1 /\ c.epoch # 0 /\ row[r].epoch + 1 \in Nat
    BY <1>0, <1>2 DEF Receipt
  <1>4. Spared
    BY <1>1, Serves, Zenon
  <1>5. Said(r, c)'
    <2>1. Said(r, c)
      BY <1>2, <1>3, ZenonT(40) DEF Said
    <2> QED BY <1>4, <2>1, Zenon DEF Spared
  <1>6. Open(c)
    BY <1>2, <1>3, Zenon DEF Open
  <1>7. /\ ctl' \in [Run -> Places] /\ ctl'[r] = "claimed" /\ "claimed" \notin MidStep
        /\ \A q \in Run : q # r => ctl'[q] = ctl[q]
    BY <1>1 DEF RunsInv, DaemonOk, Places, MidStep
  <1>8. "recovering" # "up" /\ "recovering" # "down"
    OBVIOUS
  <1>9. lock = "free" /\ ~ stopping
    BY <1>1, <1>8, Zenon DEF RunsInv, DaemonOk
  <1>10. Placed(r, ctl[r], c)'
    <2>1. /\ "claimed" # "create" /\ "claimed" # "created" /\ "claimed" # "stop"
          /\ "claimed" # "stopped" /\ "claimed" # "fresh" /\ "claimed" \in Places
      BY DEF Places
    <2>2. daemon' = "recovering" /\ lock' # r
      BY <1>1, <1>9, Names, Zenon
    <2> QED BY <1>6, <1>7, <1>8, <2>1, <2>2, Zenon DEF Placed, Open
  <1>11. DaemonOk'
    <2>1. /\ row' \in [Run -> Receipt] /\ row'[r] = c /\ hold' \in [Run -> Nat]
          /\ hold'[r] = c.epoch
          /\ \A q \in Run : q # r => row'[q] = row[q] /\ hold'[q] = hold[q]
      BY <1>1, <1>3 DEF RunsInv, DaemonOk
    <2>2. \A q \in Run : Open(row'[q]) /\ (daemon = "up" \/ ctl'[q] = "claimed")
                         => hold'[q] = row'[q].epoch
      BY <1>7, <2>1, Zenon DEF RunsInv, DaemonOk
    <2>3. \A q \in Run : (Open(row'[q]) <=> Open(row[q])) /\ row'[q].kind = row[q].kind
      BY <1>2, <1>3, <1>6, <2>1, Zenon
    <2>4. \A q, s \in Run : q # s /\ Open(row'[q]) /\ Open(row'[s]) => row'[q].kind = "isolated"
      BY <2>3, Zenon DEF RunsInv, DaemonOk
    <2>5. lock' # "sweep" /\ lock' = "free"
      BY <1>1, <1>9
    <2>6. /\ daemon' = daemon /\ stopping' = FALSE /\ stopping' \in BOOLEAN
          /\ daemon' \in {"up", "recovering", "down"}
      BY <1>1, <1>9 DEF RunsInv, DaemonOk
    <2> QED BY <1>7, <2>1, <2>2, <2>4, <2>5, <2>6, Zenon DEF DaemonOk, Open
  <1> QED BY <1>1, <1>4, <1>5, <1>7, <1>10, <1>11, Rewritten, Zenon DEF Spared

\* The daemon dies, restarts or serves: no run is in the middle of a step.
LEMMA Regroups ==
    ASSUME RunsInv, Spared, row' = row, lock' = "free", stopping' = FALSE,
           ctl' \in [Run -> {"none", "poll"}], hold' \in [Run -> Nat],
           daemon' \in {"up", "recovering", "down"},
           daemon' = "up" => \A r \in Run : /\ ctl'[r] = "none" <=> ~ Open(row[r])
                                            /\ Open(row[r]) => hold'[r] = row[r].epoch,
           daemon' # "up" => \A r \in Run : ctl'[r] = "none"
    PROVE  RunsInv'
  <1>1. \A r \in Run : Said(r, row[r])'
    BY Zenon DEF RunsInv, Spared
  <1>2. /\ ctl' \in [Run -> Places] /\ "none" \notin MidStep /\ "poll" \notin MidStep
        /\ "none" # "claimed" /\ "poll" # "claimed" /\ "free" # "sweep" /\ "poll" # "none"
        /\ "recovering" # "up" /\ "down" # "up" /\ "down" # "recovering"
    BY DEF Places, MidStep
  <1>3. \A p \in {"none", "poll"} :
            /\ p # "fresh" /\ p # "create" /\ p # "created" /\ p # "stop" /\ p # "stopped"
            /\ p # "done" /\ p \in Places
    BY DEF Places
  <1>4. \A r \in Run : ctl'[r] \in {"none", "poll"}
    BY Zenon
  <1>5. ASSUME NEW r \in Run PROVE Placed(r, ctl[r], row[r])'
    BY <1>2, <1>3, <1>4, Names, Zenon DEF Placed, Open
  <1>6. DaemonOk'
    BY <1>2, <1>4, Zenon DEF RunsInv, DaemonOk, Open
  <1> QED BY <1>1, <1>5, <1>6, Zenon DEF RunsInv, Spared

\* The invariant holds after the daemon dies.
LEMMA CrashStep ==
    ASSUME RunsInv, Crash
    PROVE  RunsInv'
  <1>1. /\ row' = row /\ lock' = "free" /\ stopping' = FALSE /\ daemon' = "down"
        /\ ctl' = [r \in Run |-> "none"] /\ hold' = [r \in Run |-> 0]
        /\ UNCHANGED <<world, cancelled>>
    BY Zenon DEF Crash, receipt
  <1>2. /\ ctl' \in [Run -> {"none", "poll"}] /\ hold' \in [Run -> Nat]
        /\ daemon' \in {"up", "recovering", "down"} /\ daemon' # "up"
        /\ \A r \in Run : ctl'[r] = "none"
    BY <1>1
  <1> QED BY <1>1, <1>2, Still, Regroups, Zenon

\* The invariant holds after recovery releases the guest's old receipts.
LEMMA RestartStep ==
    ASSUME RunsInv, Restart
    PROVE  RunsInv'
  <1>1. /\ daemon = "down" /\ daemon' = "recovering" /\ guest' \in SUBSET guest
        /\ UNCHANGED <<row, lock, ctl, hold, stopping, vm, boot, serial, late, made, truth, cancelled>>
    BY Zenon DEF Restart, receipt
  <1>2. "down" # "up" /\ "recovering" # "up" /\ "recovering" \in {"up", "recovering", "down"}
    OBVIOUS
  <1>3. lock = "free" /\ stopping = FALSE /\ \A r \in Run : ctl[r] = "none"
    BY <1>1, <1>2, Zenon DEF RunsInv, DaemonOk, Placed
  <1>4. ctl' \in [Run -> {"none", "poll"}] /\ hold' \in [Run -> Nat]
    BY <1>1, <1>3 DEF RunsInv, DaemonOk
  <1>5. Spared
    <2>1. late' \in SUBSET late /\ (Alive' <=> Alive) /\ (~ Alive' => guest' = {})
      BY <1>1, Zenon DEF RunsInv, WorldOk, Alive
    <2> QED BY <1>1, <2>1, Fades, Zenon DEF RunsInv, WorldOk
  <1> QED BY <1>1, <1>2, <1>3, <1>4, <1>5, Regroups, Zenon

\* The invariant holds after recovery is over and the controllers start.
LEMMA ReadyStep ==
    ASSUME RunsInv, Ready
    PROVE  RunsInv'
  <1>1. /\ daemon = "recovering" /\ (\A r \in Run : Active(r) => ctl[r] = "claimed")
        /\ daemon' = "up" /\ ctl' = [r \in Run |-> IF Active(r) THEN "poll" ELSE "none"]
        /\ row' = row /\ UNCHANGED <<lock, hold, stopping>> /\ UNCHANGED <<world, cancelled>>
    BY Zenon DEF Ready, receipt
  <1>2. "recovering" # "up" /\ "up" \in {"up", "recovering", "down"}
    OBVIOUS
  <1>3. lock = "free" /\ stopping = FALSE /\ hold \in [Run -> Nat]
    BY <1>1, <1>2, Zenon DEF RunsInv, DaemonOk
  <1>4. ctl' \in [Run -> {"none", "poll"}] /\ \A r \in Run : ctl'[r] = "none" <=> ~ Active(r)
    BY <1>1
  <1>5. \A r \in Run : /\ ctl'[r] = "none" <=> ~ Open(row[r])
                       /\ Open(row[r]) => hold[r] = row[r].epoch
    BY <1>1, <1>4, ActiveIs, Zenon DEF RunsInv, DaemonOk
  <1> QED BY <1>1, <1>2, <1>3, <1>4, <1>5, Still, Regroups, Zenon

-----------------------------------------------------------------------------
(* The sweeper, a user's start and stop, and an operator's.                *)

\* No run is unfinished.
LEMMA Idle ==
    ASSUME RunsInv, daemon = "up", \A r \in Run : ~ Open(row[r]), lock \in {"free", "sweep"}
    PROVE  (\A r \in Run : ctl[r] = "none") /\ late = {}
  <1>1. ASSUME NEW r \in Run PROVE ctl[r] = "none" /\ r \notin late
    <2>1. Placed(r, ctl[r], row[r]) /\ Said(r, row[r]) /\ ctl[r] \notin MidStep
      BY ActiveIs, Names, Zenon DEF Placed
    <2>2. "done" \in MidStep
      BY DEF MidStep
    <2>3. ctl[r] = "none"
      BY <2>1, <2>2, Zenon DEF Placed
    <2>4. CASE row[r].phase = "absent"
      <3>1. made[r] = 0
        BY <2>1, <2>4, Zenon DEF Said
      <3>2. made[r] # 1
        BY <3>1
      <3> QED BY <2>3, <3>2, Zenon DEF RunsInv, WorldOk
    <2>5. CASE row[r].phase \in Terminal
      BY <2>1, <2>3, <2>5, Zenon DEF Said
    <2> QED BY <2>4, <2>5, Zenon DEF Open
  <1> QED BY <1>1, Zenon DEF RunsInv, WorldOk

\* The invariant holds after the sweeper commits an idle stop.
LEMMA SweepBeginStep ==
    ASSUME RunsInv, SweepBegin
    PROVE  RunsInv'
  <1>1. /\ daemon = "up" /\ lock = "free" /\ ~ Held /\ lock' = "sweep" /\ stopping' = TRUE
        /\ UNCHANGED <<row, daemon, ctl, hold>> /\ UNCHANGED <<world, cancelled>>
    BY Zenon DEF SweepBegin, receipt, process
  <1>2. \A r \in Run : ~ Open(row[r])
    BY <1>1, ActiveIs, ZenonT(40) DEF RunsInv, DaemonOk, Held, Said, Open
  <1>3. Spared
    BY <1>1, Still, Zenon
  <1>4. ASSUME NEW r \in Run PROVE Placed(r, ctl[r], row[r])' /\ Said(r, row[r])'
    <2>1. ctl[r] = "none" /\ Placed(r, ctl[r], row[r]) /\ Said(r, row[r])
      BY <1>1, <1>2, Idle, ActiveIs, Zenon
    <2>2. "none" \notin MidStep /\ "none" # "create" /\ "none" # "stopped"
      BY DEF MidStep
    <2>3. Placed(r, ctl[r], row[r])'
      BY <1>1, <1>3, <2>1, <2>2, Names, Zenon DEF Placed, Open, Spared
    <2>4. Said(r, row[r])'
      BY <1>1, <1>3, <2>1, Zenon DEF Spared
    <2> QED BY <2>3, <2>4, Zenon
  <1>5. DaemonOk'
    BY <1>1, <1>2, Zenon DEF RunsInv, DaemonOk, Open
  <1> QED BY <1>3, <1>4, <1>5, Zenon DEF RunsInv, Spared

\* A step of the daemon while no run is unfinished, which ends with the lock free.
LEMMA Rests ==
    ASSUME RunsInv, WorldOk', \A r \in Run : Said(r, row[r])', daemon = "up",
           \A r \in Run : ~ Open(row[r]), lock \in {"free", "sweep"},
           lock' = "free", stopping' = FALSE, UNCHANGED <<row, daemon, ctl, hold>>
    PROVE  RunsInv'
  <1>1. \A r \in Run : ctl[r] = "none"
    BY Idle, Zenon
  <1>2. /\ "none" \notin MidStep /\ "none" # "create" /\ "none" # "stopped" /\ "none" # "fresh"
        /\ "free" # "sweep" /\ "none" # "created" /\ "none" # "stop" /\ "none" # "claimed"
    BY DEF MidStep
  <1>3. ASSUME NEW r \in Run PROVE Placed(r, ctl[r], row[r])'
    <2>1. ctl[r] = "none" /\ Placed(r, ctl[r], row[r])
      BY <1>1, ActiveIs, Zenon
    <2> QED BY <1>2, <2>1, Names, Zenon DEF Placed, Open
  <1>4. DaemonOk'
    BY <1>2, Zenon DEF RunsInv, DaemonOk, Open
  <1> QED BY <1>3, <1>4, Zenon DEF RunsInv

\* The invariant holds after the idle stop is done or has failed.
LEMMA SweepEndStep ==
    ASSUME RunsInv, SweepEnd
    PROVE  RunsInv'
  <1>1. /\ daemon = "up" /\ lock = "sweep" /\ lock' = "free" /\ stopping' = FALSE
        /\ UNCHANGED <<row, daemon, ctl, hold, boot, made, truth, cancelled>>
    BY Zenon DEF SweepEnd, receipt, process
  <1>2. \A r \in Run : ~ Open(row[r])
    BY <1>1, Zenon DEF RunsInv, DaemonOk
  <1>3. Spared
    <2>1. CASE UNCHANGED <<vm, guest, serial, late>>
      BY <1>1, <2>1, Serves, Zenon
    <2>2. CASE vm = "running" /\ vm' = "paused" /\ UNCHANGED <<guest, serial, late>>
      <3>1. Alive /\ Alive' /\ vm' \in {"running", "paused", "sick", "dead", "stopped"}
            /\ vm' # "stopped"
        BY <2>2 DEF Alive
      <3>2. guest' \in SUBSET guest /\ late' \in SUBSET late /\ serial' \in Nat
        BY <2>2, Zenon DEF RunsInv, WorldOk
      <3> QED BY <1>1, <3>1, <3>2, Fades, Zenon
    <2>3. CASE vm' \in {"stopped", "dead"} /\ Gone
      <3>1. vm' \in {"dead", "stopped"}
        BY <2>3, Zenon
      <3> QED BY <1>1, <2>3, <3>1, Vanishes, Zenon
    <2> QED BY <2>1, <2>2, <2>3, Zenon DEF SweepEnd
  <1>4. \A r \in Run : Said(r, row[r])'
    BY <1>1, <1>3, Zenon DEF RunsInv, Spared
  <1> QED BY <1>1, <1>2, <1>3, <1>4, Rests, Zenon DEF Spared

\* The guest boots anew, with nothing left of the old one.
LEMMA Boots ==
    ASSUME RunsInv, vm' = "running", boot' = boot + 1, guest' = {}, late' = {}, serial' \in Nat,
           UNCHANGED <<row, made, truth, cancelled>>
    PROVE  WorldOk' /\ \A r \in Run : Said(r, row[r])'
  <1>1. boot' \in Nat /\ boot' # 0 /\ Alive' /\ vm' # "stopped"
        /\ vm' \in {"running", "paused", "sick", "dead", "stopped"}
    BY DEF RunsInv, WorldOk, Alive
  <1>2. WorldOk'
    BY <1>1, Zenon DEF RunsInv, WorldOk
  <1>3. ASSUME NEW r \in Run PROVE Said(r, row[r])'
    <2>1. Said(r, row[r])
      BY ActiveIs, ZenonT(40)
    <2>2. row[r].boot <= boot' /\ row[r].boot # boot'
      BY <2>1 DEF Said, Receipt, RunsInv, WorldOk
    <2> QED BY <2>1, <2>2, Zenon DEF Said
  <1> QED BY <1>2, <1>3, Zenon

\* The invariant holds after a user's start or stop.
LEMMA LifecycleStep ==
    ASSUME RunsInv, Lifecycle
    PROVE  RunsInv'
  <1>1. /\ daemon = "up" /\ lock = "free" /\ (\A r \in Run : ~ Active(r))
        /\ UNCHANGED <<row, daemon, lock, ctl, hold, stopping, made, truth, cancelled>>
    BY Zenon DEF Lifecycle, receipt, process
  <1>2. /\ \A r \in Run : ~ Open(row[r])
        /\ lock \in {"free", "sweep"} /\ lock' = "free" /\ stopping' = FALSE
    BY <1>1, ActiveIs, AtRest DEF RunsInv, DaemonOk
  <1>3. CASE /\ vm \in {"dead", "stopped"} /\ vm' = "running" /\ boot' = boot + 1
             /\ UNCHANGED <<guest, serial, late>>
    <2>1. ~ Alive
      BY <1>3 DEF Alive
    <2>2. guest' = {} /\ late' = {} /\ serial' \in Nat
      BY <1>1, <1>2, <1>3, <2>1, Idle, Zenon DEF RunsInv, WorldOk
    <2>3. WorldOk' /\ \A r \in Run : Said(r, row[r])'
      BY <1>1, <1>3, <2>2, Boots, Zenon
    <2> QED BY <1>1, <1>2, <2>3, Rests, Zenon
  <1>4. CASE vm' = "stopped" /\ Gone /\ UNCHANGED boot
    <2>1. Spared
      BY <1>1, <1>4, Vanishes, Zenon
    <2>2. \A r \in Run : Said(r, row[r])'
      BY <1>1, <2>1, Zenon DEF RunsInv, Spared
    <2> QED BY <1>1, <1>2, <2>1, <2>2, Rests, Zenon DEF Spared
  <1> QED BY <1>3, <1>4, Zenon DEF Lifecycle

\* The invariant holds after an operator restarts the VM.
LEMMA OperatorRestartStep ==
    ASSUME RunsInv, OperatorRestart
    PROVE  RunsInv'
  <1>1. /\ daemon = "down" /\ vm' = "running" /\ boot' = boot + 1 /\ guest' = {} /\ late' = {}
        /\ serial' = 0 /\ UNCHANGED <<row, daemon, lock, ctl, hold, stopping, made, truth, cancelled>>
    BY Zenon DEF OperatorRestart, Gone, outside, receipt, process
  <1>2. WorldOk' /\ \A r \in Run : Said(r, row[r])'
    <2>1. serial' \in Nat
      BY <1>1
    <2> QED BY <1>1, <2>1, Boots, Zenon
  <1>3. ASSUME NEW r \in Run PROVE Placed(r, ctl[r], row[r])'
    <2>1. ctl[r] = "none" /\ Placed(r, ctl[r], row[r])
      BY <1>1, ActiveIs, Zenon DEF Placed
    <2>2. "none" # "create" /\ "none" # "stopped"
      OBVIOUS
    <2> QED BY <1>1, <2>1, <2>2, Zenon DEF Placed, Open
  <1>4. DaemonOk'
    BY <1>1, Zenon DEF RunsInv, DaemonOk, Open
  <1> QED BY <1>2, <1>3, <1>4, Zenon DEF RunsInv

-----------------------------------------------------------------------------
(* The guest, the worker and the clock.                                    *)

\* The invariant holds after a step of the guest or of the worker.
LEMMA OutsideStep ==
    ASSUME RunsInv,
           \/ \E r \in Run : Land(r)
           \/ \E s \in guest : Evict(s) \/ \E code \in {0, 1} : Exit(s, code)
           \/ Die \/ Sicken \/ Heal
    PROVE  RunsInv'
  <1>1. UNCHANGED <<row, daemon, lock, ctl, hold, stopping, boot, made, cancelled>>
    BY Zenon DEF Land, Evict, Exit, Die, Sicken, Heal, outside, receipt, process
  <1>2. vm' = "stopped" <=> vm = "stopped"
    BY DEF Land, Evict, Exit, Die, Sicken, Heal, Alive
  <1>3. Spared
    <2>3. ASSUME NEW r \in Run, Land(r) PROVE Spared
      BY <2>3, Lands, Zenon
    <2>4. ASSUME NEW s \in guest, Evict(s) PROVE Spared
      <3>1. /\ guest' \in SUBSET guest /\ late' \in SUBSET late /\ (Alive' <=> Alive)
            /\ (~ Alive' => guest' = {}) /\ vm' = vm /\ serial' = serial /\ truth' = truth
            /\ late' = late
        BY <2>4, Zenon DEF Evict, RunsInv, WorldOk, Alive
      <3> QED BY <1>1, <3>1, Fades, Zenon DEF RunsInv, WorldOk
    <2>5. ASSUME NEW s \in guest, NEW code \in {0, 1}, Exit(s, code) PROVE Spared
      BY <1>1, <2>5, Ends, Zenon DEF Exit
    <2>6. CASE Die
      <3>1. vm' \in {"dead", "stopped"} /\ Gone /\ truth' = truth
        BY <2>6, Zenon DEF Die
      <3> QED BY <1>1, <3>1, Vanishes, Zenon
    <2>7. CASE Sicken \/ Heal
      <3>1. Alive /\ Alive' /\ vm' \in {"running", "paused", "sick", "dead", "stopped"}
            /\ vm' # "stopped"
        BY <2>7 DEF Sicken, Heal, Alive
      <3>2. guest' \in SUBSET guest /\ late' \in SUBSET late /\ serial' \in Nat /\ truth' = truth
        BY <2>7, Zenon DEF Sicken, Heal, RunsInv, WorldOk
      <3> QED BY <1>1, <3>1, <3>2, Fades, Zenon
    <2> QED BY <2>3, <2>4, <2>5, <2>6, <2>7, Zenon
  <1> QED BY <1>1, <1>2, <1>3, WorldMoves, Zenon

\* The clock, or nothing.
LEMMA ClockStep ==
    ASSUME RunsInv, (\E r \in Run : Expire(r) \/ Wait(r)) \/ Wake \/ UNCHANGED vars
    PROVE  RunsInv'
  <1>1. /\ UNCHANGED <<row, daemon, lock, ctl, hold, stopping>>
        /\ UNCHANGED <<boot, guest, serial, late, made, truth, cancelled>>
        /\ vm' = vm \/ (vm = "paused" /\ vm' = "running")
    BY Zenon DEF Expire, Wait, Wake, vars, receipt, process, world
  <1>2. /\ vm' = "stopped" <=> vm = "stopped"
        /\ vm' = vm \/ (vm \in {"running", "paused"} /\ vm' = "running")
    BY <1>1
  <1> QED BY <1>1, <1>2, Serves, WorldMoves, Zenon

\* The invariant holds with no run submitted and a booted guest.
LEMMA RunsStart ==
    ASSUME Init
    PROVE  RunsInv
  <1>1. /\ "none" \notin MidStep /\ "none" \in Places /\ "absent" \notin Terminal
        /\ "absent" # "succeeded" /\ "absent" # "failed"
        /\ \A p \in {"fresh", "create", "created", "stop", "stopped", "claimed"} : "none" # p
    BY DEF MidStep, Places, Terminal
  <1>2. /\ Absent \in Receipt /\ Absent.phase = "absent" /\ Absent.boot = 0
        /\ Absent.exit = NoExit /\ Absent.failing = FALSE
    BY DEF Absent, Receipt, Phases
  <1>3. WorldOk
    BY DEF Init, WorldOk, Alive, Session
  <1>4. \A r \in Run : row[r] = Absent /\ ctl[r] = "none" /\ made[r] = 0
    BY DEF Init
  <1>5. ~ Open(Absent)
    BY <1>2, Zenon DEF Open
  <1>6. DaemonOk
    <2>1. row \in [Run -> Receipt] /\ ctl \in [Run -> Places] /\ hold \in [Run -> Nat]
      BY <1>1, <1>2 DEF Init
    <2>2. /\ daemon \in {"up", "recovering", "down"} /\ lock = "free" /\ lock # "sweep"
          /\ stopping = FALSE
      BY DEF Init
    <2> QED BY <1>4, <1>5, <2>1, <2>2, Zenon DEF DaemonOk
  <1>7. ASSUME NEW r \in Run PROVE Said(r, row[r]) /\ Placed(r, ctl[r], row[r])
    <2>1. Absent.boot <= boot /\ late = {} /\ guest = {} /\ cancelled = {}
      BY <1>2 DEF Init
    <2>2. Said(r, row[r])
      BY <1>1, <1>2, <1>4, <2>1, Zenon DEF Said
    <2>3. daemon = "up" /\ "up" # "recovering" /\ "up" # "down" /\ lock = "free"
      BY DEF Init
    <2>4. Placed(r, ctl[r], row[r])
      BY <1>1, <1>4, <1>5, <2>3, Names, Zenon DEF Placed
    <2> QED BY <2>2, <2>4, Zenon
  <1> QED BY <1>3, <1>6, <1>7, Zenon DEF RunsInv

\* The invariant holds after any step.
LEMMA RunsStep ==
    ASSUME RunsInv, [Next]_vars
    PROVE  RunsInv'
  <1>1. CASE Next
    <2>1. ASSUME NEW r \in Run, Step(r) PROVE RunsInv'
      BY <2>1, StepOwedStep, StepStoppedStep, StepFailedStep, StepBlindStep, StepInterruptStep,
         StepLaunchStep, StepListStep, CreateStep, CreatedStep, ListUnclearStep, ListExitedStep,
         ListRunningStep, ListCancellingStep, StopStep, StopPartStep, FencedStep, StepErrorStep,
         DoneStep, Zenon DEF Step
    <2>2. ASSUME NEW r \in Run, (\E k \in Kinds : Submit(r, k)) \/ Cancel(r) \/ Claim(r)
          PROVE  RunsInv'
      BY <2>2, SubmitStep, CancelStep, ClaimStep, Zenon
    <2>3. CASE \/ \E r \in Run : Land(r)
               \/ \E s \in guest : Evict(s) \/ \E code \in {0, 1} : Exit(s, code)
               \/ Die \/ Sicken \/ Heal
      BY <2>3, OutsideStep, Zenon
    <2>4. CASE (\E r \in Run : Expire(r) \/ Wait(r)) \/ Wake
      BY <2>4, ClockStep, Zenon
    <2>5. CASE \/ Crash \/ Restart \/ Ready \/ SweepBegin \/ SweepEnd \/ Lifecycle
               \/ OperatorRestart
      BY <2>5, CrashStep, RestartStep, ReadyStep, SweepBeginStep, SweepEndStep, LifecycleStep,
         OperatorRestartStep, Zenon
    <2> QED BY <1>1, <2>1, <2>2, <2>3, <2>4, <2>5, Zenon DEF Next
  <1>2. CASE UNCHANGED vars
    BY <1>2, ClockStep, Zenon
  <1> QED BY <1>1, <1>2, Zenon

\* The invariant always holds.
LEMMA RunsInductive == Spec => []RunsInv
  <1>1. Init => RunsInv
    BY RunsStart, Zenon
  <1>2. RunsInv /\ [Next]_vars => RunsInv'
    BY RunsStep, Zenon
  <1> QED BY <1>1, <1>2, PTL DEF Spec

\* The command of a run is sent to a guest at most once, whatever deaths of the daemon, lost
\* answers and reboots come in between: the launch intent is committed before session_create
\* and no later controller launches (runs.rs, step, submit and recover).
THEOREM RunsLaunchOnce == Spec => []LaunchedOnce
  <1>1. RunsInv => LaunchedOnce
    BY DEF RunsInv, WorldOk, LaunchedOnce
  <1> QED BY <1>1, RunsInductive, PTL

\* A receipt is true when it is written and ever after: its outcome is that of its own process,
\* nothing of a finished run goes on, a fencing run that did not succeed has lost its guest, and
\* an acknowledged cancellation decides the end (runs.rs, step, fence and finish_fenced_result).
THEOREM RunsReceiptIsTrue == Spec => []ReceiptIsTrue
  <1>1. ASSUME RunsInv PROVE ReceiptIsTrue
    <2>1. OutcomeIsTrue /\ TerminalIsQuiet
      BY <1>1, ActiveIs, Zenon DEF OutcomeIsTrue, TerminalIsQuiet, Finished, Said
    <2>2. FencedBeforeTerminal
      BY <1>1, ActiveIs, Zenon DEF FencedBeforeTerminal, Finished, Fencing, Said
    <2>3. CancelSticks
      BY <1>1, ActiveIs, Zenon DEF CancelSticks, Said, RunsInv, WorldOk
    <2> QED BY <2>1, <2>2, <2>3, Zenon DEF ReceiptIsTrue
  <1>2. RunsInv => ReceiptIsTrue
    BY <1>1, Zenon
  <1> QED BY <1>2, RunsInductive, PTL

\* A serving daemon holds the VM of every unfinished run awake under the epoch its controller
\* writes with, no idle stop is committed under it, and no sibling's fence stops it (runs.rs,
\* submit, recover and fence; thermal.rs, sweep_once).
THEOREM RunsKeepVm == Spec => []VmKept
  <1>1. ASSUME RunsInv PROVE VmKept
    <2>1. HeldUntilFinished
      BY <1>1, ActiveIs, Zenon DEF HeldUntilFinished, RunsInv, DaemonOk
    <2>2. NoIdleStopUnderRun
      BY <1>1, ActiveIs, Zenon DEF NoIdleStopUnderRun, RunsInv, DaemonOk
    <2>3. ASSUME NEW r \in Run, ctl[r] \in {"stop", "stopped"}, NEW q \in Run \ {r}
          PROVE  ~ Active(q)
      <3>1. ctl[r] \in MidStep /\ ctl[r] # "done"
        BY <2>3 DEF MidStep
      <3>2. Open(row[r]) /\ row[r].kind # "isolated"
        BY <1>1, <2>3, <3>1, InStep, ActiveIs, Zenon DEF Placed
      <3> QED BY <1>1, <2>3, <3>2, ActiveIs, Zenon DEF RunsInv, DaemonOk
    <2> QED BY <2>1, <2>2, <2>3, Zenon DEF VmKept, FenceSparesSiblings
  <1>2. RunsInv => VmKept
    BY <1>1, Zenon
  <1> QED BY <1>2, RunsInductive, PTL
=============================================================================
