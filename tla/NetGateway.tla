------------------------------ MODULE NetGateway ------------------------------
(***************************************************************************)
(* The TCP relay of a sandbox's gateway (ahvm-netd: gateway.rs, main.rs):  *)
(* the flow table, the dial threads and their permits, the retirement of   *)
(* finished connections under pressure, and the copying of both streams    *)
(* with their half-closes.                                                 *)
(*                                                                         *)
(* The gateway is one loop.  A pass handles the guest's frames, letting    *)
(* the TCP stack answer each, and then visits every flow once; only the    *)
(* dial threads and the hosts beyond the flows run beside it.  The stack   *)
(* (smoltcp) is external: a socket's states are those the loop tells       *)
(* apart, FinWait standing for FIN-WAIT-1 and -2.  A byte is its position  *)
(* in its stream.                                                          *)
(***************************************************************************)
EXTENDS Naturals, Sequences, FiniteSets

CONSTANTS
    GuestKeys,      \* Key: the guest's port and the destination
    Conns,          \* 1 .. n: connections dialled, in turn
    GatewayScopes   \* the instances: keys, MAX_FLOWS, dials, bytes each side sends,
                    \* buffer size, guest links, and which of the faults happen

VARIABLES
    wscope,         \* the instance of this behaviour, never changed
    flows,          \* flows: the connection of each key, 0 if none
    conn,           \* each connection's flow, socket, peers and dial
    dialled,        \* connections so far
    permits,        \* the shared count of dial threads
    links,          \* guest links served so far
    todo,           \* flows this pass has still to visit
    doomed,         \* remove: connections this pass takes out of the table
    passing         \* the loop is visiting flows

gatewayVars == <<wscope, flows, conn, dialled, permits, links, todo, doomed,
                 passing>>

\* What the constants stand for; finitely many connections, of which a scope
\* dials the first ones.
GatewayConstants ==
    /\ IsFiniteSet(Conns) /\ Conns \subseteq Nat \ {0}
    /\ \A s \in GatewayScopes :
        /\ s.keys \subseteq GuestKeys /\ s.flows \in Nat
        /\ s.dials \in Nat /\ 1 .. s.dials \subseteq Conns

Unused == [key |-> 0]
Fresh(k) ==
    [key |-> k, st |-> "SynReceived", rx |-> <<>>, tx |-> <<>>,
     dial |-> "run", thread |-> TRUE, open |-> FALSE,   \* Flow.host
     readEof |-> FALSE, writeEof |-> FALSE,
     \* the guest: bytes sent, FIN sent, bytes received, how its stream ended
     sent |-> 0, fin |-> FALSE, got |-> <<>>, end |-> "open",
     \* the host: bytes sent, read by the gateway, FIN, reset, bytes received,
     \* the end of the guest's stream seen
     hSent |-> 0, hTaken |-> 0, hFin |-> FALSE, hReset |-> FALSE, hGot |-> <<>>,
     hEnd |-> FALSE,
     \* history: cut short on purpose, evicted with bytes to deliver
     cut |-> FALSE, dropped |-> FALSE]

Used == {c \in Conns : conn[c] # Unused}
Tracked == {c \in Used : flows[conn[c].key] = c}
Threads == {c \in Used : conn[c].thread}

GatewayInit ==
    /\ wscope \in GatewayScopes
    /\ flows = [k \in GuestKeys |-> 0] /\ conn = [c \in Conns |-> Unused]
    /\ dialled = 0 /\ permits = 0 /\ links = 1
    /\ todo = {} /\ doomed = {} /\ passing = FALSE

Set(c, f) == conn' = [conn EXCEPT ![c] = f]
tableSide == <<wscope, flows, dialled, permits, links>>
pass == <<todo, doomed, passing>>

-----------------------------------------------------------------------------
(* The guest's frames, and the stack's answers. *)

\* A flow leaves the table, and its TcpStream is dropped: to the host this is the
\* end of the guest's stream, whatever the receive buffer still holds.
Dropped(f) == [f EXCEPT !.hEnd = TRUE]

\* A flow makes room: its socket is removed in TIME_WAIT.
Gone(f) == [Dropped(f) EXCEPT !.st = "Closed",
                              !.dropped = (f.st = "TimeWait" /\ f.rx # <<>>)]

\* Under pressure a connection in TIME_WAIT makes room (the oldest one).
Retirable ==
    LET done == {c \in Tracked : conn[c].st = "TimeWait"} IN
    IF Cardinality(Tracked) < wscope.flows \/ done = {} THEN {{}} ELSE {{c} : c \in done}

\* ConnectPermit::take.
PermitLeft == permits < wscope.flows

(***************************************************************************)
(* A SYN for a key that has no flow.  Room is made first; then it is       *)
(* dropped for want of room, of a permit or of the host's addresses        *)
(* (host_ips fails), or a socket listens and a thread dials.               *)
(***************************************************************************)
Syn(k) == \E old \in Retirable :
    LET c == dialled + 1
        Without(j) == IF flows[j] \in old THEN 0 ELSE flows[j]
        After(d) == IF d \in old THEN Gone(conn[d]) ELSE conn[d] IN
    /\ ~ passing /\ k \in wscope.keys /\ flows[k] = 0 /\ c <= wscope.dials
    /\ \/ /\ old # {} \/ Cardinality(Tracked) < wscope.flows
          /\ PermitLeft
          /\ conn' = [d \in Conns |-> IF d = c THEN Fresh(k) ELSE After(d)]
          /\ flows' = [j \in GuestKeys |-> IF j = k THEN c ELSE Without(j)]
          /\ dialled' = c /\ permits' = permits + 1
       \/ /\ old # {} /\ (~ PermitLeft \/ "lookup" \in wscope.faults)
          /\ conn' = [d \in Conns |-> After(d)]
          /\ flows' = [j \in GuestKeys |-> Without(j)]
          /\ UNCHANGED <<dialled, permits>>
    /\ UNCHANGED <<wscope, links, pass>>

\* The guest's side of a tracked connection acts, and the stack with it.
GuestDoes(c, guard, f) ==
    /\ ~ passing /\ c \in Tracked /\ guard
    /\ Set(c, f) /\ UNCHANGED <<tableSide, pass>>

GuestAcks(c) ==
    GuestDoes(c, conn[c].st = "SynReceived", [conn[c] EXCEPT !.st = "Established"])

GuestSends(c) ==
    GuestDoes(c, /\ conn[c].st \in {"Established", "FinWait"} /\ ~ conn[c].fin
                 /\ conn[c].sent < wscope.guest /\ Len(conn[c].rx) < wscope.buffer,
              [conn[c] EXCEPT !.sent = @ + 1, !.rx = Append(@, conn[c].sent + 1)])

\* The guest's FIN: our own may be unsent, unacknowledged or acknowledged.
GuestCloses(c) ==
    GuestDoes(c, conn[c].st \in {"Established", "FinWait"} /\ ~ conn[c].fin,
              [conn[c] EXCEPT !.fin = TRUE,
                              !.st = IF @ = "Established" THEN "CloseWait"
                                     ELSE IF conn[c].end = "fin" THEN "TimeWait"
                                     ELSE "Closing"])

\* The guest receives and acknowledges the next byte, or the FIN behind the last.
GuestTakes(c) ==
    \/ GuestDoes(c, conn[c].tx # <<>> /\ conn[c].st # "Closed",
                 [conn[c] EXCEPT !.tx = Tail(@), !.got = Append(@, conn[c].tx[1])])
    \/ GuestDoes(c, /\ conn[c].tx = <<>> /\ conn[c].end = "open"
                    /\ conn[c].st \in {"FinWait", "Closing", "LastAck"},
                 [conn[c] EXCEPT !.end = "fin",
                                 !.st = CASE @ = "FinWait" -> "FinWait"
                                          [] @ = "Closing" -> "TimeWait"
                                          [] @ = "LastAck" -> "Closed"])

GuestResets(c) ==
    GuestDoes(c, "reset" \in wscope.faults /\ conn[c].st # "Closed",
              [conn[c] EXCEPT !.st = "Closed", !.end = "reset", !.cut = TRUE])

\* The stack's timer.
TimeWaitEnds(c) ==
    GuestDoes(c, conn[c].st = "TimeWait", [conn[c] EXCEPT !.st = "Closed"])

-----------------------------------------------------------------------------
(* What runs beside the loop. *)

Beside(c, f) == Set(c, f) /\ UNCHANGED <<tableSide, pass>>

\* The thread's connect ends; the result goes into the flow's own channel.
Dialled(c) ==
    /\ c \in Used /\ conn[c].dial = "run"
    /\ \E r \in {"ok"} \cup ({"failed"} \cap wscope.faults) :
        Beside(c, [conn[c] EXCEPT !.dial = r])

\* ConnectPermit::drop, when the thread is over.
ThreadEnds(c) ==
    /\ c \in Threads /\ conn[c].dial # "run"
    /\ permits' = permits - 1
    /\ Set(c, [conn[c] EXCEPT !.thread = FALSE])
    /\ UNCHANGED <<wscope, flows, dialled, links, pass>>

HostUp(c) == c \in Tracked /\ conn[c].dial = "ok" /\ ~ conn[c].hReset
HostSends(c) ==
    /\ HostUp(c) /\ ~ conn[c].hFin /\ conn[c].hSent < wscope.host
    /\ Beside(c, [conn[c] EXCEPT !.hSent = @ + 1])
HostCloses(c) == HostUp(c) /\ ~ conn[c].hFin /\ Beside(c, [conn[c] EXCEPT !.hFin = TRUE])
HostResets(c) ==
    HostUp(c) /\ "reset" \in wscope.faults /\ Beside(c, [conn[c] EXCEPT !.hReset = TRUE])

-----------------------------------------------------------------------------
(* The loop's visit to a flow. *)

\* tcp::Socket::abort: the guest is sent a reset.
Aborted(f) ==
    [f EXCEPT !.st = "Closed", !.cut = TRUE, !.end = IF @ = "open" THEN "reset" ELSE @]

\* host.write of what the guest sent: some of it, none when the host is slow.
Written(f) ==
    IF f.rx = <<>> THEN {f}
    ELSE IF f.hReset THEN {Aborted(f)}
    ELSE {[f EXCEPT !.rx = SubSeq(@, n + 1, Len(@)),
                    !.hGot = @ \o SubSeq(f.rx, 1, n)] : n \in 0 .. Len(f.rx)}

\* host.read into the socket's send buffer; the host's end closes our side.
Read(f) ==
    IF f.st \notin {"Established", "CloseWait"} \/ Len(f.tx) >= wscope.buffer \/ f.readEof
    THEN {f}
    ELSE IF f.hReset THEN {Aborted(f)}
    ELSE IF f.hSent > f.hTaken
    THEN {[f EXCEPT !.tx = @ \o [i \in 1 .. n |-> f.hTaken + i], !.hTaken = @ + n] :
             n \in {m \in 1 .. (f.hSent - f.hTaken) : Len(f.tx) + m <= wscope.buffer}}
    ELSE IF f.hFin
    THEN {[f EXCEPT !.readEof = TRUE,
                    !.st = IF @ = "Established" THEN "FinWait" ELSE "LastAck"]}
    ELSE {f}

\* tcp::Socket::may_recv.
MayRecv(f) == f.st \in {"Established", "FinWait"} \/ f.rx # <<>>

\* Mutant: the guest's FIN is passed on ahead of the bytes before it.
ShutByState(f) ==
    IF f.st \in {"Established", "FinWait", "SynReceived"} \/ f.writeEof THEN f
    ELSE [f EXCEPT !.writeEof = TRUE, !.hEnd = TRUE]

\* Once nothing more can come from the guest, the host's side is shut.
Shut(f) ==
    IF MayRecv(f) \/ f.writeEof \/ f.st = "SynReceived" THEN f
    ELSE [f EXCEPT !.writeEof = TRUE, !.hEnd = TRUE]

\* 120 seconds in which neither stream moved.
Idled(f, before) ==
    {f} \cup (IF "idle" \in wscope.faults /\ f.hGot = before.hGot
                 /\ f.hTaken = before.hTaken
              THEN {Aborted(f)} ELSE {})

BeginPass ==
    /\ ~ passing /\ Tracked # {}
    /\ passing' = TRUE /\ todo' = Tracked
    /\ UNCHANGED <<tableSide, conn, doomed>>

Relay(c) ==
    LET f == conn[c] IN
    /\ c \in todo /\ todo' = todo \ {c}
    /\ \E g \in (IF ~ f.open /\ f.dial = "run" THEN {f}
                 ELSE IF ~ f.open /\ f.dial = "failed" THEN {Aborted(f)}
                 ELSE UNION {UNION {Idled(Shut(r), f) : r \in Read(w)} :
                             w \in Written([f EXCEPT !.open = TRUE])}) :
        /\ Set(c, g)
        /\ doomed' = IF g.st = "Closed" /\ (g.open \/ g.dial = "failed")
                     THEN doomed \cup {c} ELSE doomed
    /\ UNCHANGED <<wscope, flows, dialled, permits, links, passing>>

EndPass ==
    /\ passing /\ todo = {}
    /\ flows' = [k \in GuestKeys |-> IF flows[k] \in doomed THEN 0 ELSE flows[k]]
    /\ conn' = [c \in Conns |-> IF c \in doomed THEN Dropped(conn[c]) ELSE conn[c]]
    /\ doomed' = {} /\ passing' = FALSE
    /\ UNCHANGED <<wscope, dialled, permits, links, todo>>

-----------------------------------------------------------------------------
(***************************************************************************)
(* serve returns: the guest closed the link, or a frame was invalid or     *)
(* never completed.  The next link starts with an empty table, while the   *)
(* dial threads of this one go on with their permits.                      *)
(***************************************************************************)
Unlinked ==
    /\ ~ passing /\ links < wscope.links /\ links' = links + 1
    /\ flows' = [k \in GuestKeys |-> 0]
    /\ conn' = [c \in Conns |-> IF c \in Tracked
                                THEN [Dropped(conn[c]) EXCEPT !.st = "Closed",
                                                              !.cut = TRUE]
                                ELSE conn[c]]

\* Mutant: every link counts its own dial threads.
LinkEndsForgets == Unlinked /\ permits' = 0 /\ UNCHANGED <<wscope, dialled, pass>>

LinkEnds == Unlinked /\ UNCHANGED <<wscope, dialled, permits, pass>>

GatewayNext ==
    \/ \E k \in GuestKeys : Syn(k)
    \/ \E c \in Used :
        \/ GuestAcks(c) \/ GuestSends(c) \/ GuestCloses(c) \/ GuestTakes(c)
        \/ GuestResets(c) \/ TimeWaitEnds(c)
        \/ Dialled(c) \/ ThreadEnds(c) \/ HostSends(c) \/ HostCloses(c) \/ HostResets(c)
        \/ Relay(c)
    \/ BeginPass \/ EndPass \/ LinkEnds

GatewaySpec == GatewayInit /\ [][GatewayNext]_gatewayVars

-----------------------------------------------------------------------------
Counting(s) == s = [i \in 1 .. Len(s) |-> i]

(***************************************************************************)
(* Both streams arrive as they were sent: in order, without gaps or        *)
(* repetitions over short writes and full buffers.  The guest sees the end *)
(* of the host's stream, and the host the half-close of the guest's, only  *)
(* behind the last byte, unless the connection was cut short by a reset,   *)
(* an idle timeout or the end of the link (gateway.rs, 366-434).  The host *)
(* also sees an end when the flow is removed and its stream dropped        *)
(* (288-290, 437-441): bytes may then be missing, but only after the guest *)
(* has closed and has acknowledged all of the host's stream, so never      *)
(* while one side is still open.                                           *)
(***************************************************************************)
RelayFaithful ==
    \A c \in Used : LET f == conn[c] IN
        /\ Counting(f.hGot) /\ Len(f.hGot) <= f.sent
        /\ Counting(f.got) /\ Len(f.got) <= f.hSent
        /\ f.end = "fin" => f.hFin /\ Len(f.got) = f.hSent
        /\ f.writeEof /\ ~ f.cut => f.fin /\ Len(f.hGot) = f.sent
        /\ f.hEnd /\ ~ f.cut => f.fin /\ (Len(f.hGot) = f.sent \/ f.end = "fin")

(***************************************************************************)
(* Never more than MAX_FLOWS dial threads run, those whose flow or whose   *)
(* link is gone included: the count they share is exact over removals and  *)
(* new links (ConnectPermit).                                              *)
(***************************************************************************)
DialsBounded ==
    /\ permits = Cardinality(Threads) /\ permits <= wscope.flows
    /\ Cardinality(Tracked) <= wscope.flows

(***************************************************************************)
(* A connection retired from TIME_WAIT to admit another has no application *)
(* data left (the comment on the eviction, gateway.rs:270).                *)
(***************************************************************************)
RetiredIsDrained == \A c \in Used : ~ conn[c].dropped
=============================================================================
