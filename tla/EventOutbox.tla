---------------------------- MODULE EventOutbox ----------------------------
(***************************************************************************)
(* The ordered host outbox of managed runs: ahvm-store/src/run_events.rs   *)
(* (streams, events, limits, acknowledgement) with the capture and relay   *)
(* tasks of ahvm-daemon/src/run_events.rs that fill and drain it.          *)
(*                                                                         *)
(* A guest controller writes numbered records into a journal file.  The    *)
(* capture task turns each into an event of the run's stream, the terminal *)
(* update of the run appends the final receipt event and seals the stream, *)
(* and one sender per stream posts the first unacknowledged event until it *)
(* is acknowledged.  Every write below is one SQLite transaction.          *)
(*                                                                         *)
(* Sizes are counted in units of which the largest event has MaxSize.      *)
(***************************************************************************)
EXTENDS Integers, Sequences, FiniteSets, FiniteSetsExt

CONSTANTS
    Run,         \* run identities
    MaxSize,     \* MAX_MANAGED_EVENT_BYTES
    MaxCheck,    \* the largest checkpoint event: 262144 bytes and its envelope
    RunLimit,    \* MAX_RUN_PENDING
    TotalLimit,  \* MAX_TOTAL_PENDING
    StreamLimit, \* MAX_PENDING_STREAMS
    Slots,       \* MAX_CONCURRENT_DELIVERIES
    Faults,      \* what the surroundings may do: "tear", "retire", "expire", "delete"
    MaxLines,    \* records a guest writes
    MaxCrash     \* deaths of the daemon

\* In bytes: 128 MiB leaves 278528 over the last full multiple of 300 KiB, more
\* than a checkpoint event can have.
ASSUME OutboxAssumption ==
    /\ MaxCheck \in Nat \ {0} /\ MaxSize \in Nat /\ MaxCheck <= MaxSize
    /\ RunLimit \in Nat /\ MaxCheck + MaxSize <= RunLimit
    /\ TotalLimit \in Nat /\ MaxCheck <= TotalLimit % MaxSize
    /\ StreamLimit \in Nat /\ Slots \in Nat \ {0}
    /\ Faults \subseteq {"tear", "retire", "expire", "delete"}
    /\ MaxLines \in Nat /\ MaxCrash \in Nat

VARIABLES
    status,   \* managed_runs: "absent", "active", "finished" or "deleted"
    stream,   \* managed_run_event_streams
    events,   \* managed_run_events of each run, oldest first
    lines,    \* valid records in the guest's journal
    torn,     \* ... followed by one that is invalid or incomplete
    exited,   \* the guest controller has ended and writes no more
    up,       \* the daemon runs
    crashes,  \* deaths of the daemon so far
    sender,   \* the relay task of each run: "none", "idle" or "sent"
    posted,   \* the event the sender waits for an answer to
    net,      \* requests that may still reach the receiver
    seen,     \* what the receiver took, first deliveries only, in order
    gone,     \* runs the receiver has retired and answers 410 for
    expired   \* retry_until has passed

vars == <<status, stream, events, lines, torn, exited, up, crashes, sender,
          posted, net, seen, gone, expired>>

guest == <<lines, torn, exited>>
relay == <<sender, posted, net, seen, gone>>
process == <<up, crashes, expired>>

NoStream == [exists |-> FALSE, seq |-> 0, next |-> 1, acked |-> 0,
             pending |-> 0, proof |-> 0, failed |-> FALSE, sealed |-> FALSE]

-----------------------------------------------------------------------------
(* Faulty variants of definitions below: a limit without the reserve, a    *)
(* payload never uncharged, one rendered anew for each attempt, and a      *)
(* recovery of open streams only.                                          *)

\* totals: bytes pending over all streams.
Pending == MapThenSumSet(LAMBDA r : stream[r].pending, Run)

FitsUnreserved(r, size, final) ==
    stream[r].pending + size <= RunLimit /\ Pending + size <= TotalLimit
FirstRendered(r) == [events[r][1] EXCEPT !.rec = stream[r].proof]
ResumableOpen(r) == stream[r].exists /\ ~stream[r].sealed

-----------------------------------------------------------------------------
(* The store.                                                              *)

\* A stream with something still to send, or still open.
Unfinished(r) ==
    stream[r].exists /\ (~stream[r].sealed \/ stream[r].acked < stream[r].next - 1)

\* totals: the open streams.
Open == {r \in Run : stream[r].exists /\ ~stream[r].sealed}

\* append's limits: whatever is not a receipt leaves room for the receipt of
\* every open stream, its own included.
Fits(r, size, final) ==
    /\ stream[r].pending + size <= RunLimit - (IF final THEN 0 ELSE MaxSize)
    /\ Pending + size + (Cardinality(Open) - (IF final THEN 1 ELSE 0)) * MaxSize
       <= TotalLimit

\* append: the event takes the next sequence number; a receipt seals.
Appended(r, kind, rec, size) ==
    /\ events' = [events EXCEPT ![r] =
                    Append(@, [seq |-> stream[r].next, kind |-> kind, rec |-> rec, size |-> size])]
    /\ stream' = [stream EXCEPT ![r].next = @ + 1, ![r].pending = @ + size,
                                ![r].sealed = (kind = "receipt"),
                                ![r].seq = IF kind = "receipt" THEN @ ELSE rec,
                                ![r].proof = IF kind = "receipt" THEN @ ELSE rec]

\* cleanup_retired_streams: streams fully delivered whose run is deleted, with
\* the events that refer to them.
Retired(st) == {r \in Run : stream[r].exists /\ st[r] = "deleted" /\ ~Unfinished(r)}

Cleanup(st) ==
    /\ stream' = [r \in Run |-> IF r \in Retired(st) THEN NoStream ELSE stream[r]]
    /\ events' = [r \in Run |-> IF r \in Retired(st) THEN <<>> ELSE events[r]]

\* admit's limit, read after its own stream was inserted: the receipts of all
\* open streams fit beside what is pending.
Room == Pending + (Cardinality(Open) + 1) * MaxSize <= TotalLimit

\* admit and spawn: the stream is inserted with the run, and its sender started.
\* An identity is used once.
Admit(r) ==
    /\ up /\ status[r] = "absent"
    /\ Room
    /\ Cardinality({q \in Run : Unfinished(q)}) < StreamLimit
    /\ status' = [status EXCEPT ![r] = "active"]
    /\ stream' = [q \in Run |-> IF q = r THEN [NoStream EXCEPT !.exists = TRUE]
                                ELSE IF q \in Retired(status) THEN NoStream ELSE stream[q]]
    /\ events' = [q \in Run |-> IF q \in Retired(status) THEN <<>> ELSE events[q]]
    /\ sender' = [sender EXCEPT ![r] = "idle"]
    /\ UNCHANGED <<guest, posted, net, seen, gone, process>>

-----------------------------------------------------------------------------
(* Capture and the end of a run.                                           *)

\* The record capture reads: the one after the cursor committed with the last.
NextLine(r) == stream[r].seq + 1

\* The capture task runs until the retry window ends, the final capture when the
\* controller has ended.
Capturing(r) == up /\ status[r] = "active" /\ ~stream[r].failed /\ (~expired[r] \/ exited[r])

\* append_managed_run_checkpoint: cursor, projection and event commit together,
\* or, when the outbox is full, not at all.
Capture(r, size) ==
    /\ Capturing(r) /\ NextLine(r) <= lines[r] /\ Fits(r, size, FALSE)
    /\ Appended(r, "checkpoint", NextLine(r), size)
    /\ UNCHANGED <<status, guest, relay, process>>

\* fail_managed_run_event_source: an invalid record, a record cut short when the
\* controller has ended, or a guest that is gone before its journal was read.
FailSource(r) ==
    /\ Capturing(r)
    /\ (torn[r] /\ NextLine(r) > lines[r]) \/ exited[r]
    /\ stream' = [stream EXCEPT ![r].failed = TRUE, ![r].proof = 0]
    /\ UNCHANGED <<status, events, guest, relay, process>>

\* The projection the receipt carries: none when the source has failed.
Proof(r) == IF stream[r].failed THEN 0 ELSE stream[r].proof

\* The terminal update of the run, after a final capture that read everything
\* or gave the source up: the receipt is appended in the same transaction.
Terminate(r, size) ==
    /\ up /\ status[r] = "active" /\ exited[r]
    /\ stream[r].failed \/ (NextLine(r) > lines[r] /\ ~torn[r])
    /\ Fits(r, size, TRUE)
    /\ Appended(r, "receipt", Proof(r), size)
    /\ status' = [status EXCEPT ![r] = "finished"]
    /\ UNCHANGED <<guest, relay, process>>

\* delete_sandbox: the run receipts go with the sandbox, the stream stays until
\* it is delivered.  These are two statements; the daemon may die between them.
Delete(r) ==
    /\ "delete" \in Faults /\ up /\ status[r] = "finished"
    /\ status' = [status EXCEPT ![r] = "deleted"]
    /\ Cleanup(status')
    /\ UNCHANGED <<guest, relay, process>>

Die == up /\ crashes < MaxCrash /\ up' = FALSE /\ crashes' = crashes + 1
       /\ sender' = [r \in Run |-> "none"]

DeleteCut(r) ==
    /\ "delete" \in Faults /\ status[r] = "finished" /\ Die
    /\ status' = [status EXCEPT ![r] = "deleted"]
    /\ UNCHANGED <<stream, events, guest, posted, net, seen, gone, expired>>

-----------------------------------------------------------------------------
(* Delivery.                                                               *)

\* first_managed_run_event: the stored bytes of the oldest retained event.
First(r) == events[r][1]

\* send_events and delivery_attempt: with a permit, the oldest event is posted.
Post(r) ==
    /\ up /\ sender[r] = "idle" /\ Unfinished(r) /\ ~expired[r] /\ stream[r].pending > 0
    /\ Cardinality({q \in Run : sender[q] = "sent"}) < Slots
    /\ posted' = [posted EXCEPT ![r] = First(r)]
    /\ net' = net \cup {[run |-> r, event |-> First(r)]}
    /\ sender' = [sender EXCEPT ![r] = "sent"]
    /\ UNCHANGED <<status, stream, events, guest, seen, gone, process>>

\* The bytes still charged to the stream once an event is released.
Released(r, size) == stream[r].pending - size

\* The answer names the event: acknowledge_managed_run_event releases it, and
\* with the last one of a deleted run the stream goes too.  A retired run is
\* answered without being taken.
Answer(r) ==
    /\ up /\ sender[r] = "sent"
    /\ gone[r] \/ posted[r] \in {seen[r][i] : i \in DOMAIN seen[r]}
    /\ posted[r].seq = stream[r].acked + 1
    /\ LET last == stream[r].sealed /\ posted[r].seq = stream[r].next - 1
           released == [stream[r] EXCEPT !.acked = posted[r].seq,
                                         !.pending = Released(r, posted[r].size),
                                         !.proof = IF last THEN 0 ELSE @]
       IN  stream' = [stream EXCEPT ![r] = IF last /\ status[r] = "deleted" THEN NoStream ELSE released]
    /\ events' = [events EXCEPT ![r] = SelectSeq(@, LAMBDA e : e.seq # posted[r].seq)]
    /\ sender' = [sender EXCEPT ![r] = "idle"]
    /\ UNCHANGED <<status, guest, posted, net, seen, gone, process>>

\* No answer, or not the expected one: the permit is dropped, the request may
\* still arrive, and after its back-off the sender posts again.
NoAnswer(r) ==
    /\ up /\ sender[r] = "sent"
    /\ sender' = [sender EXCEPT ![r] = "idle"]
    /\ UNCHANGED <<status, stream, events, guest, posted, net, seen, gone, process>>

\* The sender ends: all is delivered, or the retry window has passed and the
\* payload is left where it is.
SenderEnds(r) ==
    /\ up /\ sender[r] = "idle" /\ (expired[r] \/ ~Unfinished(r))
    /\ sender' = [sender EXCEPT ![r] = "none"]
    /\ UNCHANGED <<status, stream, events, guest, posted, net, seen, gone, process>>

-----------------------------------------------------------------------------
(* The receiver, the guest, the clock and the daemon's life.               *)

\* A request reaches the receiver, which takes an event number once.
Receive(m) ==
    /\ net' = net \ {m}
    /\ seen' = IF gone[m.run] \/ \E i \in DOMAIN seen[m.run] : seen[m.run][i].seq = m.event.seq
               THEN seen ELSE [seen EXCEPT ![m.run] = Append(@, m.event)]
    /\ UNCHANGED <<status, stream, events, guest, sender, posted, gone, process>>

RetireRun(r) ==
    /\ "retire" \in Faults /\ status[r] # "absent" /\ ~gone[r] /\ gone' = [gone EXCEPT ![r] = TRUE]
    /\ UNCHANGED <<status, stream, events, guest, sender, posted, net, seen, process>>

GuestWrite(r) ==
    /\ status[r] = "active" /\ ~exited[r] /\ ~torn[r] /\ lines[r] < MaxLines
    /\ lines' = [lines EXCEPT ![r] = @ + 1]
    /\ UNCHANGED <<status, stream, events, torn, exited, relay, process>>

GuestTear(r) ==
    /\ "tear" \in Faults /\ status[r] = "active" /\ ~exited[r] /\ ~torn[r]
    /\ torn' = [torn EXCEPT ![r] = TRUE]
    /\ UNCHANGED <<status, stream, events, lines, exited, relay, process>>

GuestExit(r) ==
    /\ status[r] = "active" /\ ~exited[r]
    /\ exited' = [exited EXCEPT ![r] = TRUE]
    /\ UNCHANGED <<status, stream, events, lines, torn, relay, process>>

Expire(r) ==
    /\ "expire" \in Faults /\ status[r] # "absent" /\ ~expired[r] /\ expired' = [expired EXCEPT ![r] = TRUE]
    /\ UNCHANGED <<status, stream, events, guest, relay, up, crashes>>

Crash ==
    /\ Die
    /\ UNCHANGED <<status, stream, events, guest, posted, net, seen, gone, expired>>

\* list_managed_run_event_streams: still open, or not delivered.
Resumable(r) == Unfinished(r)

\* recover: cleanup, then a sender for every such stream.
Recover ==
    /\ ~up /\ up' = TRUE
    /\ Cleanup(status)
    /\ sender' = [r \in Run |-> IF Resumable(r) THEN "idle" ELSE "none"]
    /\ UNCHANGED <<status, guest, crashes, posted, net, seen, gone, expired>>

-----------------------------------------------------------------------------
Init ==
    /\ status = [r \in Run |-> "absent"] /\ stream = [r \in Run |-> NoStream]
    /\ events = [r \in Run |-> <<>>] /\ lines = [r \in Run |-> 0]
    /\ torn = [r \in Run |-> FALSE] /\ exited = [r \in Run |-> FALSE]
    /\ up = TRUE /\ crashes = 0 /\ expired = [r \in Run |-> FALSE]
    /\ sender = [r \in Run |-> "none"]
    /\ posted = [r \in Run |-> [seq |-> 0, kind |-> "checkpoint", rec |-> 0, size |-> 1]]
    /\ net = {} /\ seen = [r \in Run |-> <<>>] /\ gone = [r \in Run |-> FALSE]

Captures(r) == \E size \in 1..MaxCheck : Capture(r, size)
Terminates(r) == \E size \in 1..MaxSize : Terminate(r, size)

Next ==
    \/ \E r \in Run :
          \/ Admit(r) \/ Captures(r) \/ FailSource(r) \/ Terminates(r)
          \/ Delete(r) \/ DeleteCut(r)
          \/ Post(r) \/ Answer(r) \/ NoAnswer(r) \/ SenderEnds(r)
          \/ RetireRun(r) \/ GuestWrite(r) \/ GuestTear(r) \/ GuestExit(r) \/ Expire(r)
    \/ \E m \in net : Receive(m)
    \/ Crash \/ Recover

Spec == Init /\ [][Next]_vars

\* The daemon is restarted; a run that has ended is captured and finished by its
\* retrying controller; the permit queue is fair; and a sender that posts again
\* and again is answered in the end.
Fairness ==
    /\ WF_vars(Recover)
    /\ \A r \in Run :
          /\ SF_vars(Captures(r) \/ (torn[r] /\ FailSource(r)) \/ Terminates(r))
          /\ SF_vars(Post(r)) /\ SF_vars(Answer(r))
          /\ WF_vars(\E m \in net : m.run = r /\ Receive(m))

FairSpec == Spec /\ Fairness

-----------------------------------------------------------------------------
(* Properties.                                                             *)

\* The outbox accounts for itself: a stream holds exactly the events after its
\* acknowledged one, and is charged for exactly those (append, acknowledge).
LedgerExact ==
    \A r \in Run :
        /\ Len(events[r]) = stream[r].next - 1 - stream[r].acked
        /\ \A i \in DOMAIN events[r] : events[r][i].seq = stream[r].acked + i
        /\ stream[r].pending = MapThenSumSet(LAMBDA i : events[r][i].size, DOMAIN events[r])

\* However full the outbox is, the receipt of every open stream fits: a terminal
\* update is never refused for want of space (the reserve of append and admit).
\* Nor do the reserves alone fill it: once what is pending was delivered, an open
\* stream can append the record it has to capture before it may end.
ReceiptFits ==
    /\ \A r \in Open : stream[r].pending + MaxSize <= RunLimit
    /\ Pending + Cardinality(Open) * MaxSize <= TotalLimit
    /\ Open # {} => Cardinality(Open) * MaxSize + MaxCheck <= TotalLimit

\* The receiver takes the events of a run in their order without a gap, whatever
\* is lost, repeated or late, and nothing is released that it did not take.
InOrder ==
    \A r \in Run :
        /\ \A i \in DOMAIN seen[r] : seen[r][i].seq = i
        /\ ~gone[r] => stream[r].acked <= Len(seen[r])

\* A repeated request carries the bytes the receiver has already taken under its
\* number ("Lost ACKs replay identical persisted bytes").
SameBytes ==
    \A m \in net : m.event.seq <= Len(seen[m.run]) => m.event = seen[m.run][m.event.seq]

\* A receipt that carries a proof carries the guest's last record, and there was
\* nothing invalid after it (fail_managed_run_event_source, final capture).
HonestProof ==
    \A r \in Run : \A i \in DOMAIN seen[r] :
        seen[r][i].kind = "receipt" /\ seen[r][i].rec # 0
            => seen[r][i].rec = lines[r] /\ ~torn[r]

\* The receipt of a finished run is in the outbox until the receiver has it, even
\* when the sandbox is deleted first, and nothing is sent after it.
ReceiptKept ==
    \A r \in Run : status[r] \in {"finished", "deleted"} /\ ~gone[r] =>
        \/ seen[r] # <<>> /\ seen[r][Len(seen[r])].kind = "receipt"
        \/ events[r] # <<>> /\ events[r][Len(events[r])].kind = "receipt"

\* What the receiver takes is what happened, and it can take the rest: in order,
\* the same bytes under the same number, proofs of the guest's last record, and a
\* receipt that waits in an outbox that accounts for every event until it is taken.
DeliveryIsTrue == LedgerExact /\ InOrder /\ SameBytes /\ HonestProof /\ ReceiptKept

\* A finished run's receipt arrives, across restarts, lost answers and deletion,
\* unless the retry window ends or the receiver retires the run.
ReceiptArrives ==
    \A r \in Run : status[r] = "finished" ~>
        (expired[r] \/ gone[r] \/ \E i \in DOMAIN seen[r] : seen[r][i].kind = "receipt")

=============================================================================
