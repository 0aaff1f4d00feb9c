--------------------------- MODULE LocalJournal ---------------------------
(***************************************************************************)
(* The local write-ahead journal of a replicated disk and its replication  *)
(* (ahvm-volume/src/local.rs, with eviction from owned.rs).                *)
(*                                                                         *)
(* One directory owns the volume (VolumeOwner), so the remote object is    *)
(* replaced only by this journal, but by a process that may be killed, on  *)
(* a host that may crash, through requests whose replies may be lost and   *)
(* which may even land after their sender gave up.  A block's data is the  *)
(* number of the guest write that produced it.                             *)
(***************************************************************************)
EXTENDS Integers, FiniteSets

CONSTANTS Block,       \* chunks of the disk
          DirtyLimit,  \* DIRTY_LIMIT: distinct pending chunks
          LogLimit,    \* LOG_LIMIT: records in the journal file
          MaxWrite,    \* bound: guest writes
          MaxRev,      \* bound: remote revisions
          MaxJournal,  \* bound: journals created (random identities)
          MaxLate      \* bound: delayed requests in flight at once

ASSUME JournalAssumption ==
    /\ IsFiniteSet(Block)
    /\ DirtyLimit \in Nat
    /\ LogLimit \in Nat
    /\ MaxWrite \in Nat
    /\ MaxRev \in Nat
    /\ MaxJournal \in Nat
    /\ MaxLate \in Nat

VARIABLES remote,    \* the published root: revision, block map, replication mark
          late,      \* roots sent by somebody who already gave up on them
          file,      \* the journal file as a reader of its path sees it
          synced,    \* every record of the file up to this sequence is durable
          evicting,  \* the durable "eviction" marker
          pc, failed, base, ack, seq, local, pending, reader,  \* struct State
          job,       \* the call that holds the writer mutex (sync_remote)
          ids,       \* journal identities drawn so far
          last,      \* history: number of guest writes
          written,   \* history: written[b], versions ever sent to b
          stable,    \* history: stable[b], version covered by the last flush
          barrier    \* history: barrier[b], version covered by sync_remote

store == <<remote, late>>
disk == <<file, synced, evicting, ids>>
header == <<base, ack, pending, reader>>
state == <<pc, failed, base, ack, seq, local, pending, reader>>
guest == <<last, written, stable>>
vars == <<store, disk, state, job, guest, barrier>>

Map == [Block -> Nat]

\* id 0: no replication mark yet.
Root == [rev: Nat, map: Map, id: Nat, seq: Nat]

Image == [rev |-> 1, map |-> [b \in Block |-> 0], id |-> 0, seq |-> 0]

Record == [seq: Nat, block: Block, val: Nat]

NoFile == [kind |-> "none", id |-> 0, base |-> 0, ack |-> 0, seq |-> 0, recs |-> {}]

Torn == [kind |-> "torn", id |-> 0, base |-> 0, ack |-> 0, seq |-> 0, recs |-> {}]

\* "down", "head" (opening, remote root read), "new" (journal file created), "up".
Pcs == {"down", "head", "new", "up"}

Clean == [seq |-> 0, val |-> 0]

Idle == [pc |-> "idle", next |-> Image, want |-> Image.map]

Larger(m, n) == IF m < n THEN n ELSE m

(***************************************************************************)
(* Faulty variants of operators below.  Nothing here uses them: a mutation *)
(* run substitutes one of them and must see the named property fail.       *)
(***************************************************************************)
\* ReadsWhatReplays: replay goes by any remote mark, also one of an earlier journal.
ReplayAckAnyMark(f, root) == Larger(root.seq, f.ack)

\* DiskKept: replication forgets writes that arrived during the upload.
RetainNone(p, n) == [b \in Block |-> Clean]

\* MarkBehindJournal: replication publishes before the journal is synced.
SkipSync == UNCHANGED synced

(***************************************************************************)
(* What the guest reads, and what a reopening process would read.          *)
(***************************************************************************)
Dirty == {b \in Block : pending[b].seq # 0}

\* LocalDisk::read.
View(b) == IF b \in Dirty THEN pending[b].val ELSE reader.map[b]

\* Replay of the records above an acknowledged sequence: the newest one wins.
Replay(recs, above, b) ==
    LET R == {r \in recs : r.block = b /\ r.seq > above}
    IN  IF R = {} THEN Clean
        ELSE LET r == CHOOSE r \in R : \A q \in R : q.seq <= r.seq
             IN  [seq |-> r.seq, val |-> r.val]

\* The acknowledgement that replay goes by: the remote mark when it is ours.
ReplayAck(f, root) ==
    IF root.id = f.id THEN Larger(root.seq, f.ack) ELSE f.ack

\* The sequence that replay arrives at.
Top(f) ==
    IF \A r \in f.recs : r.seq <= f.seq THEN f.seq
    ELSE CHOOSE n \in {r.seq : r \in f.recs} : \A r \in f.recs : r.seq <= n

\* The disk as a reader of the journal and the remote root would restore it.
Restored(b) ==
    LET v == Replay(file.recs, ReplayAck(file, remote), b)
    IN  IF v.seq # 0 THEN v.val ELSE remote.map[b]

(***************************************************************************)
(* State::accept and State::compact.                                       *)
(***************************************************************************)
\* A root other than the one last seen must carry our mark, between what was
\* acknowledged and what was written; anything else is a conflict.
Acceptable(root, id, old, acked, top) ==
    \/ root.rev = old
    \/ root.id = id /\ acked <= root.seq /\ root.seq <= top

Acked(root, old, acked) == IF root.rev = old THEN acked ELSE root.seq

Retain(p, n) == [b \in Block |-> IF p[b].seq > n THEN p[b] ELSE Clean]

\* accept: move to this root, forget the pending versions it covers.
Accept(root) ==
    /\ base' = root.rev
    /\ ack' = Acked(root, base, ack)
    /\ pending' = Retain(pending, ack')
    /\ reader' = root

\* compact_inner writes the header and the pending versions to a new file, syncs
\* it, renames it over the journal and syncs the directory.
Compacted(id, b, a, n, p) ==
    [kind |-> "ok", id |-> id, base |-> b, ack |-> a, seq |-> n,
     recs |-> {[seq |-> p[c].seq, block |-> c, val |-> p[c].val] :
                  c \in {c \in Block : p[c].seq # 0}}]

CompactOk(f) ==
    /\ file' = f
    /\ synced' = f.seq
    /\ local' = f.seq
    /\ UNCHANGED failed

\* sync_all of the journal file.
SyncFile == synced' = Top(file)

\* An error before the rename leaves the old file, one after it the new file.
CompactFail(f) ==
    /\ \/ UNCHANGED <<file, synced>>
       \/ file' = f /\ synced' = f.seq
    /\ failed' = TRUE
    /\ UNCHANGED local

(***************************************************************************)
(* The remote root is replaced by compare-and-swap on its revision.        *)
(***************************************************************************)
Current(n) == n.rev = remote.rev + 1

CasOk(n) == Current(n) /\ remote' = n /\ UNCHANGED late

\* Refused, lost on the way, reply lost, or delayed: the sender cannot tell.
CasFail(n) ==
    \/ ~Current(n) /\ UNCHANGED store
    \/ UNCHANGED store
    \/ CasOk(n)
    \/ Cardinality(late) < MaxLate /\ late' = late \cup {n} /\ UNCHANGED remote

Deliver(n) ==
    /\ n \in late
    /\ late' = late \ {n}
    /\ remote' = IF Current(n) THEN n ELSE remote
    /\ UNCHANGED <<disk, state, job, guest, barrier>>

(***************************************************************************)
(* LocalDisk::open, called with the owner lock held.                       *)
(***************************************************************************)
OpenRead ==
    /\ pc = "down"
    /\ ~evicting
    /\ pc' = "head"
    /\ reader' = remote
    /\ UNCHANGED <<store, disk, failed, base, ack, seq, local, pending, job, guest, barrier>>

\* No journal: create the file ...
OpenCreate ==
    /\ pc = "head"
    /\ file.kind = "none"
    /\ file' = Torn
    /\ pc' = "new"
    /\ UNCHANGED <<store, synced, evicting, ids, failed, header, seq, local, job, guest, barrier>>

\* ... and write and sync a header with a new random identity.
OpenHeader ==
    /\ pc = "new"
    /\ ids < MaxJournal
    /\ ids' = ids + 1
    /\ file' = [kind |-> "ok", id |-> ids + 1, base |-> reader.rev, ack |-> 0,
                seq |-> 0, recs |-> {}]
    /\ synced' = 0
    /\ pc' = "up"
    /\ base' = reader.rev
    /\ UNCHANGED <<store, evicting, failed, ack, seq, local, pending, reader, job, guest, barrier>>

\* Does replay of this journal over this root succeed?
Openable(f, root) ==
    /\ f.kind = "ok"
    /\ f.ack <= f.seq
    /\ \A r \in f.recs : r.seq >= f.ack
    /\ Cardinality({r.block : r \in {r \in f.recs : r.seq > ReplayAck(f, root)}}) <= DirtyLimit
    /\ Acceptable(root, f.id, f.base, f.ack, Top(f))

\* Memory of a process that does not have the journal open.
Shut ==
    /\ pc' = "down"
    /\ failed' = FALSE
    /\ base' = 0 /\ ack' = 0 /\ seq' = 0 /\ local' = 0
    /\ pending' = [b \in Block |-> Clean]
    /\ reader' = Image
    /\ job' = Idle

\* Replay the journal, accept the root that was read, compact.  When compaction
\* fails the open fails, with either file in place.
OpenReplay ==
    LET a == Acked(reader, file.base, file.ack)
        p == Retain([b \in Block |-> Replay(file.recs, ReplayAck(file, reader), b)], a)
        f == Compacted(file.id, reader.rev, a, Top(file), p)
    IN  /\ pc = "head"
        /\ Openable(file, reader)
        /\ \/ /\ pc' = "up"
              /\ base' = reader.rev
              /\ ack' = a
              /\ seq' = Top(file)
              /\ pending' = p
              /\ CompactOk(f)
              /\ UNCHANGED <<reader, job>>
           \/ Shut /\ file' = f /\ synced' = f.seq
        /\ UNCHANGED <<store, evicting, ids, guest, barrier>>

\* The open fails, the handle is dropped, or the process is killed.
Close ==
    /\ pc # "down"
    /\ Shut
    /\ UNCHANGED <<store, disk, guest, barrier>>

\* What a crash can leave of the journal: every synced record, and a prefix of the
\* others whose last write may be incomplete.
Remnants ==
    UNION {{{r \in file.recs : r.seq <= n} \cup P :
               P \in SUBSET {r \in file.recs : r.seq = n + 1}} : n \in synced..Top(file)}

Crash ==
    /\ Shut
    /\ \/ /\ file.kind = "ok"
          /\ \E R \in Remnants : file' = [file EXCEPT !.recs = R]
          /\ synced' = Top(file')
       \/ /\ file.kind # "ok"
          /\ file' \in {file, NoFile}
          /\ UNCHANGED synced
    /\ UNCHANGED <<store, evicting, ids, guest, barrier>>

(***************************************************************************)
(* Guest I/O.                                                              *)
(***************************************************************************)
Up == pc = "up" /\ ~failed

\* The file that a write of these chunks is appended to: a log at its limit is
\* compacted first.
Full(B) == Cardinality(file.recs) + Cardinality(B) > LogLimit

Here == Compacted(file.id, base, ack, seq, pending)

Appended(f, B) ==
    [f EXCEPT !.recs = @ \cup {[seq |-> seq + 1, block |-> b, val |-> last + 1] : b \in B}]

Sent(B) ==
    /\ last < MaxWrite
    /\ last' = last + 1
    /\ written' = [b \in Block |-> IF b \in B THEN written[b] \cup {last + 1} ELSE written[b]]
    /\ UNCHANGED <<stable, barrier>>

\* LocalDisk::write: refused (backpressure) when too many chunks are pending;
\* otherwise appended, then visible.  It is not durable yet.
Write(B) ==
    /\ Up
    /\ Cardinality(Dirty \cup B) <= DirtyLimit
    /\ Sent(B)
    /\ IF Full(B)
       THEN file' = Appended(Here, B) /\ synced' = seq /\ local' = seq
       ELSE file' = Appended(file, B) /\ UNCHANGED <<synced, local>>
    /\ seq' = seq + 1
    /\ pending' = [b \in Block |-> IF b \in B THEN [seq |-> seq + 1, val |-> last + 1]
                                   ELSE pending[b]]
    /\ UNCHANGED <<store, evicting, ids, pc, failed, base, ack, reader, job>>

\* A failed append (some records may be in the file) or a failed compaction
\* poisons the handle.
WriteFail(B) ==
    /\ Up
    /\ Cardinality(Dirty \cup B) <= DirtyLimit
    /\ \/ \E P \in SUBSET B :
             /\ Sent(P)
             /\ IF Full(B)
                THEN file' = Appended(Here, P) /\ synced' = seq /\ local' = seq
                ELSE file' = Appended(file, P) /\ UNCHANGED <<synced, local>>
             /\ failed' = TRUE
       \/ /\ Full(B)
          /\ CompactFail(Here)
          /\ UNCHANGED <<guest, barrier>>
    /\ UNCHANGED <<store, evicting, ids, pc, header, seq, job>>

\* LocalDisk::flush: the guest's durability barrier; it does not wait for the store.
Flush ==
    /\ Up
    /\ \/ /\ SyncFile
          /\ local' = seq
          /\ stable' = [b \in Block |-> View(b)]
          /\ UNCHANGED failed
       \/ failed' = TRUE /\ UNCHANGED <<synced, local, stable>>
    /\ UNCHANGED <<store, file, evicting, ids, pc, header, seq, job, last, written, barrier>>

(***************************************************************************)
(* LocalDisk::sync_remote: replication, under the writer mutex.  The state *)
(* mutex is released between its steps.                                    *)
(***************************************************************************)
\* A successful call covers what was admitted before it started.
Barrier(m) == barrier' = [b \in Block |-> Larger(barrier[b], m[b])]

\* The end of a call: it succeeds when the journal is compacted.
Finish(f) ==
    \/ CompactOk(f) /\ Barrier(job.want)
    \/ CompactFail(f) /\ UNCHANGED barrier

Viewed == [b \in Block |-> View(b)]

SyncNothing ==
    /\ Up
    /\ job.pc = "idle"
    /\ Dirty = {}
    /\ Barrier(Viewed)
    /\ UNCHANGED <<store, disk, state, job, guest>>

ReplicateRead ==
    /\ Up
    /\ job.pc = "idle"
    /\ Dirty # {}
    /\ remote.rev < MaxRev
    /\ job' = [pc |-> "read", next |-> remote, want |-> Viewed]
    /\ UNCHANGED <<store, disk, state, guest, barrier>>

\* Reconcile with the root just read (a publication whose reply was lost), sync
\* the journal, and capture what is still pending together with our mark.
ReplicateCapture ==
    LET root == job.next
        a == Acked(root, base, ack)
        p == Retain(pending, a)
        f == Compacted(file.id, root.rev, a, seq, p)
        next == [rev |-> root.rev + 1, id |-> file.id, seq |-> seq,
                 map |-> [b \in Block |-> IF p[b].seq # 0 THEN p[b].val ELSE root.map[b]]]
    IN  /\ job.pc = "read"
        /\ \/ /\ ~Acceptable(root, file.id, base, ack, seq)
              /\ failed' = TRUE
              /\ job' = Idle
              /\ UNCHANGED <<file, synced, header, local, barrier>>
           \/ /\ Acceptable(root, file.id, base, ack, seq)
              /\ Accept(root)
              /\ \/ failed' = TRUE /\ job' = Idle /\ UNCHANGED <<file, synced, local, barrier>>
                 \/ /\ p # [b \in Block |-> Clean]
                    /\ SyncFile
                    /\ local' = seq
                    /\ job' = [pc |-> "upload", next |-> next, want |-> job.want]
                    /\ UNCHANGED <<file, failed, barrier>>
                 \/ /\ p = [b \in Block |-> Clean]
                    /\ Finish(f)
                    /\ job' = Idle
        /\ UNCHANGED <<store, evicting, ids, pc, seq, guest>>

\* Publish; then accept the published root and compact.  On an error nothing is
\* forgotten and the next call reconciles.
ReplicateCommit ==
    LET root == job.next
        a == Acked(root, base, ack)
        f == Compacted(file.id, root.rev, a, seq, Retain(pending, a))
    IN  /\ job.pc = "upload"
        /\ \/ /\ CasOk(root)
              /\ Acceptable(root, file.id, base, ack, seq)
              /\ Accept(root)
              /\ Finish(f)
           \/ CasFail(root) /\ UNCHANGED <<file, synced, header, failed, local, barrier>>
        /\ job' = Idle
        /\ UNCHANGED <<evicting, ids, pc, seq, guest>>

\* LocalDisk::compact_remote: rewrite packs of an idle disk under both mutexes; the
\* new root has the same blocks and the same mark.
CompactRemote ==
    LET n == [remote EXCEPT !.rev = @ + 1]
        f == Compacted(file.id, n.rev, ack, seq, pending)
    IN  /\ Up
        /\ job.pc = "idle"
        /\ Dirty = {}
        /\ remote.rev = reader.rev
        /\ remote.rev < MaxRev
        /\ \/ /\ CasOk(n)
              /\ base' = n.rev
              /\ reader' = n
              /\ CompactOk(f) \/ CompactFail(f)
           \/ CasFail(n) /\ failed' = TRUE /\ UNCHANGED <<file, synced, local, base, reader>>
        /\ UNCHANGED <<evicting, ids, pc, ack, seq, pending, job, guest, barrier>>

(***************************************************************************)
(* OwnedDisk::evict_local and finish_eviction: once everything is in the   *)
(* store, a durable marker allows the journal to be removed.               *)
(***************************************************************************)
EvictMark ==
    /\ Up
    /\ job.pc = "idle"
    /\ Dirty = {}
    /\ evicting' = TRUE
    /\ Shut
    /\ UNCHANGED <<store, file, synced, ids, guest, barrier>>

EvictRemove ==
    /\ evicting
    /\ pc = "down"
    /\ file' = NoFile
    /\ synced' = 0
    /\ UNCHANGED <<store, evicting, ids, state, job, guest, barrier>>

EvictDone ==
    /\ evicting
    /\ file.kind = "none"
    /\ evicting' = FALSE
    /\ UNCHANGED <<store, file, synced, ids, state, job, guest, barrier>>

Init ==
    /\ remote = Image
    /\ late = {}
    /\ file = NoFile
    /\ synced = 0
    /\ evicting = FALSE
    /\ ids = 0
    /\ pc = "down"
    /\ failed = FALSE
    /\ base = 0 /\ ack = 0 /\ seq = 0 /\ local = 0
    /\ pending = [b \in Block |-> Clean]
    /\ reader = Image
    /\ job = Idle
    /\ last = 0
    /\ written = [b \in Block |-> {0}]
    /\ stable = Image.map
    /\ barrier = Image.map

Next ==
    \/ \E n \in late : Deliver(n)
    \/ OpenRead \/ OpenCreate \/ OpenHeader \/ OpenReplay \/ Close \/ Crash
    \/ \E B \in (SUBSET Block) \ {{}} : Write(B) \/ WriteFail(B)
    \/ Flush
    \/ SyncNothing \/ ReplicateRead \/ ReplicateCapture \/ ReplicateCommit
    \/ CompactRemote
    \/ EvictMark \/ EvictRemove \/ EvictDone

Spec == Init /\ [][Next]_vars

(***************************************************************************)
(* Properties.                                                             *)
(***************************************************************************)
\* Read-your-writes across replication: what an open disk serves is exactly what a
\* process that replayed the journal now would serve, although replication drops
\* pending chunks and switches roots underneath the guest.
ReadsWhatReplays == Up => \A b \in Block : View(b) = Restored(b)

\* A remote barrier holds for ever: what a successful sync_remote covered is in the
\* remote generation, whatever is retried, evicted or compacted afterwards.
BarrierHolds == \A b \in Block : barrier[b] <= remote.map[b]

\* The remote mark never runs ahead of the durable journal, neither in the published
\* root nor in one still on its way: after any crash the journal that wrote it can
\* be replayed against it.
MarkBehindJournal ==
    \A root \in {remote} \cup {n \in late : Current(n)} :
        file.kind = "ok" /\ root.id = file.id =>
            /\ root.seq <= Larger(synced, file.seq)
            /\ Openable(file, root)

\* Status never over-reports: local_sequence is durable, and remote_sequence is
\* covered by the remote root.
StatusHonest ==
    Up => /\ local <= synced
          /\ ack > 0 => remote.id = file.id /\ ack <= remote.seq

\* Nothing the journal says runs ahead of what it stands for: a remote barrier, the
\* mark in the remote root, and the sequences of status.
MarksHonest == BarrierHolds /\ MarkBehindJournal /\ StatusHonest

\* After a crash of the process or of the host whose disk is retained, the journal
\* can be read: a file that exists has a complete header.
JournalReadable == pc = "down" => file.kind # "torn"

\* ... and a complete journal is replayed against the remote generation, not refused.
JournalReplays == pc = "down" /\ file.kind = "ok" => Openable(file, remote)

\* The journal implements a durable disk: a crash takes back unflushed writes only,
\* in order, and replication only moves the remote generation forward.
Promise == INSTANCE DurableDisk WITH serving <- Up,
                                     content <- [b \in Block |-> Restored(b)],
                                     published <- remote.map

DiskKept == Promise!DSpec
=============================================================================
