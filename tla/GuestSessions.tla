--------------------------- MODULE GuestSessions ---------------------------
(***************************************************************************)
(* The session table of the guest agent: a session is a process group with *)
(* its output kept in a bounded ring.  Threads of several kinds meet on    *)
(* one session: the request that creates it, a pump per output stream, the *)
(* reaper, the requests that kill or delete it, a writer of its input and  *)
(* an attached reader.  Each step below is one critical section, or one    *)
(* system call, of one of these threads.                                   *)
(*                                                                         *)
(* A byte of output is its position in the output of the session; base,    *)
(* total and the labels of frames are what the code computes.              *)
(***************************************************************************)
EXTENDS Integers, Sequences, FiniteSets

CONSTANTS
    SessionScopes   \* what happens in a behaviour: the sessions (ids), their
                    \* streams (pumps), descendants (kin) and bytes (output),
                    \* where readers attach (from), whether input is written,
                    \* MAX_SESSIONS (limit), isolated runs (pinned), and
                    \* whether a wait may fail (faults)

RingCap == 2        \* RING_CAP, in bytes
Chunk == 1          \* CHUNK, in bytes

VARIABLES
    gscope,     \* the scope of this behaviour
    table,      \* SessionManager.sessions: what the map holds for each id
    maker,      \* where the create request of each id stands
    ghost,      \* the placeholder of each id was deleted (its exit is 124)
    sess,       \* the Session each create request built
    proc,       \* its processes, as the kernel sees them
    reaper,     \* where the reaper thread of each session stands
    deleter,    \* where the delete request of each id stands
    writer,     \* a request that writes to a session's input
    att,        \* an attached reader, and what it was sent
    stray       \* a signal was sent to the number of a reaped leader

sessionVars == <<gscope, table, maker, ghost, sess, proc, reaper, deleter,
                 writer, att, stray>>

Ids == gscope.ids
None == -1
Killed == 124       \* the exit code of a session ended by a signal
Least(S) == CHOOSE x \in S : \A y \in S : x <= y

-----------------------------------------------------------------------------
(* A session and its processes.  kin is a descendant that inherited the    *)
(* output: in the leader's group, or moved away from it.  input is the     *)
(* handle of its input: there (open), out with a writer (taken), or None   *)
(* because the session ended (closed) or a write failed (dropped).         *)

Unmade == [pgid |-> FALSE, exit |-> None, base |-> 0, total |-> 0,
           buf |-> <<>>, input |-> "none", pumps |-> {}]

Unborn == [leader |-> "none", code |-> None, kin |-> "none",
           pipe |-> [p \in {"out", "err"} |-> 0], left |-> 0, read |-> 0]

Spawned == [Unmade EXCEPT !.pgid = TRUE, !.input = "open", !.pumps = gscope.pumps]

Running == [Unborn EXCEPT !.leader = "running", !.left = gscope.output]

NoReader == [pc |-> "idle", id |-> 0, real |-> FALSE, from |-> 0, sent |-> 0,
             chunk |-> <<>>, next |-> 0, exit |-> None, skip |-> FALSE,
             drained |-> FALSE, got |-> {}, told |-> FALSE]

NoWriter == [pc |-> "idle", id |-> 0, ok |-> FALSE, alive |-> FALSE]

Writes(id) == proc[id].leader = "running" \/ proc[id].kin # "none"

\* kill(-pgid, SIGKILL), on the processes of id.
Shot(q) == [q EXCEPT !.leader = IF @ = "running" THEN "zombie" ELSE @,
                     !.code = IF q.leader = "running" THEN Killed ELSE @,
                     !.kin = IF @ = "group" THEN "none" ELSE @]

\* kill_group: the number of a leader that was reaped may be anybody's.
KillGroup(id) ==
    IF proc[id].leader = "reaped"
    THEN stray' = TRUE /\ UNCHANGED proc
    ELSE proc' = [proc EXCEPT ![id] = Shot(@)] /\ UNCHANGED stray

SessionInit ==
    /\ gscope \in SessionScopes
    /\ table = [i \in Ids |-> "absent"]
    /\ maker = [i \in Ids |-> "idle"]
    /\ ghost = [i \in Ids |-> FALSE]
    /\ sess = [i \in Ids |-> Unmade]
    /\ proc = [i \in Ids |-> Unborn]
    /\ reaper = [i \in Ids |-> [pc |-> "none", signal |-> FALSE, held |-> FALSE]]
    /\ deleter = [i \in Ids |-> "idle"]
    /\ writer = NoWriter
    /\ att = NoReader
    /\ stray = FALSE

-----------------------------------------------------------------------------
(* Faulty variants of definitions below.                                   *)

\* waitpid instead of waitid(WNOWAIT): the observation reaps.
ObservedReaped(id) == [proc EXCEPT ![id].leader = "reaped"]

\* A full ring that forgets to move its base.
AppendedKeepsBase(s, byte) ==
    LET buf == Append(s.buf, byte)
    IN  IF Len(buf) > RingCap
        THEN [s EXCEPT !.total = @ + 1, !.buf = Tail(buf)]
        ELSE [s EXCEPT !.total = @ + 1, !.buf = buf]

-----------------------------------------------------------------------------
(* create: reserve a slot, spawn, publish.                                 *)

InMap == {i \in Ids : table[i] # "absent"}

\* exit.is_some() for the object the map holds.
Completed(i) == table[i] = "real" /\ sess[i].exit # None

\* The oldest completed session goes when the table is full, unless it is the
\* receipt of an isolated run; ids are numbered in the order the code compares.
Evicted ==
    LET old == {i \in InMap : Completed(i) /\ i \notin gscope.pinned}
    IN  IF Cardinality(InMap) >= gscope.limit /\ old # {} THEN {Least(old)} ELSE {}

Reserve(id) ==
    /\ maker[id] = "idle"
    /\ \A i \in Ids : i < id => maker[i] # "idle"
    /\ maker' = [maker EXCEPT ![id] = "spawn"]
    /\ table' = [i \in Ids |-> IF i = id THEN "placeholder"
                               ELSE IF i \in Evicted THEN "absent" ELSE table[i]]
    /\ UNCHANGED <<gscope, ghost, sess, proc, reaper, deleter, writer, att, stray>>

\* create_piped_inner, create_pty_inner: the process, its pumps and its reaper
\* run before the map knows the session.
Spawn(id) ==
    /\ maker[id] = "spawn"
    /\ maker' = [maker EXCEPT ![id] = "publish"]
    /\ sess' = [sess EXCEPT ![id] = Spawned]
    /\ proc' = [proc EXCEPT ![id] = Running]
    /\ reaper' = [reaper EXCEPT ![id].pc = "observe"]
    /\ UNCHANGED <<gscope, table, ghost, deleter, writer, att, stray>>

Publish(id) ==
    /\ maker[id] = "publish"
    /\ maker' = [maker EXCEPT ![id] = "done"]
    /\ table' = [table EXCEPT ![id] = "real"]
    /\ UNCHANGED <<gscope, ghost, sess, proc, reaper, deleter, writer, att, stray>>

SpawnFails(id) ==
    /\ maker[id] = "spawn"
    /\ maker' = [maker EXCEPT ![id] = "done"]
    /\ table' = [table EXCEPT ![id] = "absent"]
    /\ UNCHANGED <<gscope, ghost, sess, proc, reaper, deleter, writer, att, stray>>

-----------------------------------------------------------------------------
(* The processes (external).                                               *)

Process(id, q) ==
    /\ proc' = [proc EXCEPT ![id] = q]
    /\ UNCHANGED <<gscope, table, maker, ghost, sess, reaper, deleter, writer, att, stray>>

Fork(id, where) ==
    /\ proc[id].leader = "running" /\ proc[id].kin = "none"
    /\ Process(id, [proc[id] EXCEPT !.kin = where])

Prints(id, p) ==
    /\ Writes(id) /\ proc[id].left > 0
    /\ Process(id, [proc[id] EXCEPT !.pipe[p] = @ + 1, !.left = @ - 1])

Exits(id) ==
    /\ proc[id].leader = "running"
    /\ Process(id, [proc[id] EXCEPT !.leader = "zombie", !.code = 0])

KinExits(id) ==
    /\ proc[id].kin # "none"
    /\ Process(id, [proc[id] EXCEPT !.kin = "none"])

-----------------------------------------------------------------------------
(* pump_stream: one thread per stream appends to the ring until no process *)
(* holds the other end.                                                    *)

Appended(s, byte) ==
    LET buf == Append(s.buf, byte)
    IN  IF Len(buf) > RingCap
        THEN [s EXCEPT !.total = @ + 1, !.buf = Tail(buf), !.base = @ + 1]
        ELSE [s EXCEPT !.total = @ + 1, !.buf = buf]

PumpReads(id, p) ==
    /\ p \in sess[id].pumps /\ proc[id].pipe[p] > 0
    /\ proc' = [proc EXCEPT ![id].pipe[p] = @ - 1, ![id].read = @ + 1]
    /\ sess' = [sess EXCEPT ![id] = Appended(@, proc[id].read + 1)]
    /\ UNCHANGED <<gscope, table, maker, ghost, reaper, deleter, writer, att, stray>>

PumpEnds(id, p) ==
    /\ p \in sess[id].pumps /\ proc[id].pipe[p] = 0 /\ ~Writes(id)
    /\ sess' = [sess EXCEPT ![id].pumps = @ \ {p}]
    /\ UNCHANGED <<gscope, table, maker, ghost, proc, reaper, deleter, writer, att, stray>>

-----------------------------------------------------------------------------
(* reap_session.  held: the zombie still reserves the leader's number.     *)

ReaperGoes(id, r) == reaper' = [reaper EXCEPT ![id] = r]

\* What waitid(WEXITED | WNOWAIT) leaves of the processes.
Observed(id) == proc

Observe(id) ==
    /\ reaper[id].pc = "observe" /\ proc[id].leader = "zombie"
    /\ proc' = Observed(id)
    /\ ReaperGoes(id, [pc |-> "take", signal |-> FALSE, held |-> TRUE])
    /\ UNCHANGED <<gscope, table, maker, ghost, sess, deleter, writer, att, stray>>

ObserveFails(id) ==
    /\ gscope.faults /\ reaper[id].pc = "observe"
    /\ ReaperGoes(id, [pc |-> "take", signal |-> FALSE, held |-> FALSE])
    /\ UNCHANGED <<gscope, table, maker, ghost, sess, proc, deleter, writer, att, stray>>

TakeTarget(id) ==
    /\ reaper[id].pc = "take"
    /\ ReaperGoes(id, [reaper[id] EXCEPT !.pc = "signal",
                                         !.signal = sess[id].pgid /\ reaper[id].held])
    /\ sess' = [sess EXCEPT ![id].pgid = FALSE]
    /\ UNCHANGED <<gscope, table, maker, ghost, proc, deleter, writer, att, stray>>

Signal(id) ==
    /\ reaper[id].pc = "signal"
    /\ IF reaper[id].signal THEN KillGroup(id) ELSE UNCHANGED <<proc, stray>>
    /\ ReaperGoes(id, [reaper[id] EXCEPT !.pc = "wait", !.signal = FALSE, !.held = FALSE])
    /\ UNCHANGED <<gscope, table, maker, ghost, sess, deleter, writer, att>>

Reap(id) ==
    /\ reaper[id].pc = "wait" /\ proc[id].leader \in {"zombie", "reaped"}
    /\ proc' = [proc EXCEPT ![id].leader = "reaped"]
    /\ ReaperGoes(id, [reaper[id] EXCEPT !.pc = "drain"])
    /\ UNCHANGED <<gscope, table, maker, ghost, sess, deleter, writer, att, stray>>

\* The pumps are done, or half a second passed.
PublishExit(id) ==
    /\ reaper[id].pc = "drain"
    /\ sess' = [sess EXCEPT ![id].exit = proc[id].code]
    /\ ReaperGoes(id, [reaper[id] EXCEPT !.pc = "close"])
    /\ UNCHANGED <<gscope, table, maker, ghost, proc, deleter, writer, att, stray>>

CloseInput(id) ==
    /\ reaper[id].pc = "close"
    /\ sess' = [sess EXCEPT ![id].input = "closed"]
    /\ ReaperGoes(id, [reaper[id] EXCEPT !.pc = "done"])
    /\ UNCHANGED <<gscope, table, maker, ghost, proc, deleter, writer, att, stray>>

-----------------------------------------------------------------------------
(* kill and delete.  A placeholder has no group to signal.                 *)

Kill(id) ==
    /\ table[id] = "real" /\ sess[id].exit = None /\ sess[id].pgid
    /\ KillGroup(id)
    /\ UNCHANGED <<gscope, table, maker, ghost, sess, reaper, deleter, writer, att>>

DeleteEntry(id) ==
    /\ table[id] # "absent"
    /\ table' = [table EXCEPT ![id] = "absent"]
    /\ ghost' = [ghost EXCEPT ![id] = @ \/ table[id] = "placeholder"]
    /\ deleter' = IF table[id] = "real" THEN [deleter EXCEPT ![id] = "end"] ELSE deleter
    /\ UNCHANGED <<gscope, maker, sess, proc, reaper, writer, att, stray>>

DeleteEnd(id) ==
    /\ deleter[id] = "end"
    /\ IF sess[id].exit = None /\ sess[id].pgid THEN KillGroup(id)
       ELSE UNCHANGED <<proc, stray>>
    /\ sess' = [sess EXCEPT ![id].exit = Killed, ![id].pgid = FALSE]
    /\ deleter' = [deleter EXCEPT ![id] = "close"]
    /\ UNCHANGED <<gscope, table, maker, ghost, reaper, writer, att>>

DeleteClose(id) ==
    /\ deleter[id] = "close"
    /\ sess' = [sess EXCEPT ![id].input = "closed"]
    /\ deleter' = [deleter EXCEPT ![id] = "idle"]
    /\ UNCHANGED <<gscope, table, maker, ghost, proc, reaper, writer, att, stray>>

-----------------------------------------------------------------------------
(* write_stdin: take the handle out, write without a lock, put it back if  *)
(* the write went well and a look taken just before found the session      *)
(* alive; otherwise the handle is dropped.                                 *)

Writer(w) ==
    /\ writer' = w
    /\ UNCHANGED <<gscope, table, maker, ghost, proc, reaper, deleter, att, stray>>

TakeInput(id) ==
    /\ gscope.input
    /\ writer.pc = "idle" /\ table[id] = "real" /\ sess[id].input = "open"
    /\ sess' = [sess EXCEPT ![id].input = "taken"]
    /\ Writer([pc |-> "write", id |-> id, ok |-> FALSE, alive |-> FALSE])

\* All of it was written; or the session completed, the write timed out or
\* failed.
WriteInput(ok) ==
    /\ writer.pc = "write"
    /\ Writer([writer EXCEPT !.pc = "look", !.ok = ok])
    /\ UNCHANGED sess

LookAlive ==
    /\ writer.pc = "look"
    /\ Writer([writer EXCEPT !.pc = "restore", !.alive = sess[writer.id].exit = None])
    /\ UNCHANGED sess

RestoreInput ==
    /\ writer.pc = "restore"
    /\ sess' = [sess EXCEPT ![writer.id].input =
                   IF writer.ok /\ writer.alive THEN "open"
                   ELSE IF writer.ok THEN "closed" ELSE "dropped"]
    /\ Writer(NoWriter)

-----------------------------------------------------------------------------
(* Attach: read a chunk of the ring and the exit code, look at the total,  *)
(* look at the pumps, then send a frame or wait.                           *)

Reader(a) ==
    /\ att' = a
    /\ UNCHANGED <<gscope, table, maker, ghost, sess, proc, reaper, deleter, writer, stray>>

Attach(id, from) ==
    /\ att.pc = "idle" /\ table[id] # "absent"
    /\ Reader([NoReader EXCEPT !.pc = "read", !.id = id, !.from = from,
                               !.real = table[id] = "real", !.sent = from])

\* The object the reader holds: the session, or the placeholder it found.
Held ==
    IF att.real THEN sess[att.id]
    ELSE [Unmade EXCEPT !.exit = IF ghost[att.id] THEN Killed ELSE None]

ReadFrom ==
    LET s == Held
        start == IF att.sent <= s.base THEN 0
                 ELSE IF att.sent - s.base > Len(s.buf) THEN Len(s.buf)
                 ELSE att.sent - s.base
        end == IF start + Chunk > Len(s.buf) THEN Len(s.buf) ELSE start + Chunk
    IN  /\ att.pc = "read"
        /\ Reader([att EXCEPT !.pc = "total", !.chunk = SubSeq(s.buf, start + 1, end),
                              !.next = s.base + end, !.exit = s.exit,
                              !.skip = att.sent < s.base])

ReadTotal ==
    /\ att.pc = "total"
    /\ Reader([att EXCEPT !.pc = "pumps", !.drained = att.next = Held.total])

Eof == att.exit # None /\ att.drained /\ Held.pumps = {}

Nothing == att.chunk = <<>> /\ ~Eof

AttachWaits ==
    /\ att.pc = "pumps" /\ Nothing
    /\ Reader([att EXCEPT !.pc = "read"])

\* The idle bound passed, the client went away or it has all: it may attach
\* again.
AttachCloses ==
    /\ att.pc \in {"pumps", "eof"}
    /\ Reader(NoReader)

\* The frame is labelled with where its chunk starts.
AttachSends ==
    /\ att.pc = "pumps" /\ ~Nothing
    /\ LET seq == att.next - Len(att.chunk)
       IN  Reader([att EXCEPT
               !.pc = IF Eof THEN "eof" ELSE "read",
               !.got = @ \cup {<<seq + i, att.chunk[i]>> : i \in 1..Len(att.chunk)},
               !.told = @ \/ att.skip,
               !.sent = IF Eof THEN @ ELSE att.next])

-----------------------------------------------------------------------------
Processes(id) ==
    \/ \E where \in gscope.kin : Fork(id, where)
    \/ \E p \in gscope.pumps : Prints(id, p)
    \/ Exits(id) \/ KinExits(id)

SessionNext ==
    \/ \E id \in Ids :
        \/ Reserve(id) \/ Spawn(id) \/ Publish(id) \/ SpawnFails(id)
        \/ Processes(id)
        \/ \E p \in gscope.pumps : PumpReads(id, p) \/ PumpEnds(id, p)
        \/ Observe(id) \/ ObserveFails(id) \/ TakeTarget(id) \/ Signal(id)
        \/ Reap(id) \/ PublishExit(id) \/ CloseInput(id)
        \/ Kill(id) \/ DeleteEntry(id) \/ DeleteEnd(id) \/ DeleteClose(id)
        \/ TakeInput(id)
        \/ \E from \in gscope.from : Attach(id, from)
    \/ \E ok \in BOOLEAN : WriteInput(ok)
    \/ LookAlive \/ RestoreInput
    \/ ReadFrom \/ ReadTotal \/ AttachWaits \/ AttachCloses \/ AttachSends

-----------------------------------------------------------------------------
(* Properties.                                                             *)

\* No signal goes to the number of a leader that was reaped: the reaper,
\* kill() and delete() agree through the lifecycle lock on who may still use
\* the group, whatever order they run in and however the wait ends.
NoStraySignal == ~stray

\* An attached reader can trust its frames: each byte carries its true position
\* in the output, and unless a frame told it that output was dropped from the
\* ring, it has every byte from where it attached.
AttachFollows ==
    /\ \A f \in att.got : f[1] = f[2]
    /\ ~att.told => {f[1] : f \in att.got} =
                    (att.from + 1)..(att.from + Cardinality(att.got))

\* A living session keeps its input between writes: whoever else closes or
\* takes the handle meanwhile, only a write that failed costs the session its
\* input, so that the write after one that went well finds it.
InputKept ==
    \A id \in Ids :
        sess[id].input # "none" /\ sess[id].exit = None =>
            \/ sess[id].input \in {"open", "dropped"}
            \/ sess[id].input = "taken" /\ writer.pc # "idle" /\ writer.id = id

\* Both directions of a session's stream: AttachFollows and InputKept.
StreamsKept == AttachFollows /\ InputKept

\* "EOF only when process exited AND pumps drained AND ring drained": a reader
\* that was sent EOF of a session nobody deleted was sent the end of its output.
EofIsComplete ==
    att.pc = "eof" /\ table[att.id] = "real" => att.next = Held.total
=============================================================================
