------------------------------ MODULE BlockIndex ------------------------------
(***************************************************************************)
(* The remote form of one replicated disk: a small root replaced by        *)
(* compare-and-swap, immutable index pages and immutable data objects,     *)
(* and the offline maintenance that rewrites sparse objects and deletes    *)
(* the ones the root no longer reaches.                                    *)
(*                                                                         *)
(* Objects are named by their hash, so a page is the function of its slots *)
(* and a data object (a "pack") is the sequence of the blocks it holds.    *)
(* A pack of one block is the block's own object.  Block values are small  *)
(* numbers, their hash order is the order of the numbers, and 0 is the     *)
(* block of zeros, which has no object.                                    *)
(*                                                                         *)
(* The disk has one owner (VolumeOwner) and its journal is exact           *)
(* (LocalJournal); here the journal is the set of writes not yet known to  *)
(* be in the root.                                                         *)
(***************************************************************************)
EXTENDS Naturals, Integers, Sequences, FiniteSets, FiniteSetsExt, SequencesExt

CONSTANTS
    IndexScopes,  \* the disks and fault budgets looked at
    PageCount,    \* index pages of the disk
    SlotCount,    \* slots of a page (SLOTS)
    ObjectBlocks, \* blocks in the largest pack (MAX_OBJECT_BYTES)
    PassBlocks    \* blocks one compaction pass may move (budget), enough for
                  \* one full pack and its rewriting

VARIABLES
    xscope,   \* the disk looked at: packed, base, plan of writes, faults, limit
    head,     \* the remote root and its revision
    objects,  \* the remote objects of this disk: packs and pages
    disk,     \* what the guest last wrote, block by block
    attached, \* a worker serves the disk to its VM
    pending,  \* journalled writes: value and sequence per block, 0 if none
    sequence, \* sequence of the last journalled write
    job,      \* the operation in progress on the disk
    late,     \* publications given up on that may still reach the store
    record,   \* maintenance cursors of the service's record, in memory
    saved,    \* the same, as persisted
    marked    \* the cached mark: revision and live objects

indexVars == <<xscope, head, objects, disk, attached, pending, sequence, job,
               late, record, saved, marked>>

IndexPages == 0 .. PageCount - 1
IndexSlots == 0 .. SlotCount - 1
Blocks == IndexPages \X IndexSlots

NoSlot == [chunk |-> 0, pack |-> <<>>]
Direct(v) == [chunk |-> v, pack |-> <<>>]
NoPage == [s \in IndexSlots |-> NoSlot]
NoCursor == [page |-> -1, pack |-> 0]
NoMark == [rev |-> 0, packs |-> {}, pages |-> {}]

\* The hash order of packs and pages: any fixed order will do.
PackKey(q) == FoldLeft(LAMBDA n, v : 4 * n + v, 0, q)
PageKey(p, page) ==
    100 + FoldLeft(LAMBDA n, slot : 64 * n + 16 * slot.chunk + PackKey(slot.pack),
                   p, [i \in 1 .. SlotCount |-> page[i - 1]])

-----------------------------------------------------------------------------
\* Pages, slots and what a root reaches.

\* object_slot: the object a used slot is read from.
ObjectSlot(slot) == IF slot.pack = <<>> THEN <<slot.chunk>> ELSE slot.pack

\* base_page: the page of the shared image, all slots direct.
BasePage(p) == xscope.base[p]

\* page: a root page that is the image's page is read from the image.
Inherited(root, p) == root.pages[p] # NoPage /\ root.pages[p] = BasePage(p)

\* A slot of a private page that still is the image's slot.
InheritedSlot(slot, p, s) ==
    /\ slot.chunk # 0
    /\ slot.chunk = BasePage(p)[s].chunk
    /\ ObjectSlot(slot) = ObjectSlot(BasePage(p)[s])

PrivatePages(root) ==
    {p \in IndexPages : root.pages[p] # NoPage /\ ~Inherited(root, p)}

\* Mutant of PackReferences: a block equal to any block of the image's page
\* is taken for the image's own.
PackReferencesShared(root) ==
    UNION {{ObjectSlot(root.pages[p][s]) :
              s \in {s \in IndexSlots :
                       /\ root.pages[p][s].chunk # 0
                       /\ \A t \in IndexSlots :
                            root.pages[p][s].chunk # BasePage(p)[t].chunk}} :
           p \in PrivatePages(root)}

\* references: the page objects and data objects of the private part.
PageReferences(root) == {<<p, root.pages[p]>> : p \in PrivatePages(root)}
PackReferences(root) ==
    UNION {{ObjectSlot(root.pages[p][s]) :
              s \in {s \in IndexSlots :
                       /\ root.pages[p][s].chunk # 0
                       /\ ~InheritedSlot(root.pages[p][s], p, s)}} :
           p \in PrivatePages(root)}

\* load: a block through the root, -1 where an object is missing.
Load(root, b) ==
    LET p == b[1]
        slot == root.pages[p][b[2]]
    IN  CASE root.pages[p] = NoPage -> 0
          [] Inherited(root, p) -> slot.chunk
          [] <<p, root.pages[p]>> \notin objects.pages -> -1
          [] slot.chunk = 0 \/ InheritedSlot(slot, p, b[2]) -> slot.chunk
          [] ObjectSlot(slot) \notin objects.packs -> -1
          [] OTHER -> slot.chunk

\* Every page and pack an operation on this root must fetch is there.
Fetched(root) ==
    /\ PageReferences(root) \subseteq objects.pages
    /\ PackReferences(root) \subseteq objects.packs

-----------------------------------------------------------------------------
\* Building the next root from a set of written blocks.

\* unique.chunks: the new blocks in hash order, cut into packs; an unpacked
\* disk stores each block as an object of its own.
Packs(values) ==
    LET q == SetToSortSeq(values, <)
        width == IF xscope.packed THEN ObjectBlocks ELSE 1
    IN  {SubSeq(q, i, Min({i + width - 1, Len(q)})) :
           i \in {i \in 1 .. Len(q) : i % width = 1 % width}}

\* Blocks whose slot must name new content: not zero, not already there
\* (unless forced), not the image's own block.
Changed(root, dirty, force) ==
    {b \in DOMAIN dirty :
       /\ dirty[b] # 0
       /\ force \/ root.pages[b[1]][b[2]].chunk # dirty[b]
       /\ BasePage(b[1])[b[2]].chunk # dirty[b]}

NewPacks(root, dirty, force) ==
    Packs({dirty[b] : b \in Changed(root, dirty, force)})

NewSlot(root, dirty, force, fresh, b) ==
    LET old == root.pages[b[1]][b[2]]
    IN  CASE b \notin DOMAIN dirty -> old
          [] b \in DOMAIN dirty /\ dirty[b] = 0 -> NoSlot
          [] b \in DOMAIN dirty /\ dirty[b] # 0 ->
               IF ~force /\ old.chunk = dirty[b] THEN old
               ELSE IF xscope.packed /\ BasePage(b[1])[b[2]].chunk # dirty[b]
               THEN [chunk |-> dirty[b],
                     pack |-> CHOOSE q \in fresh : Contains(q, dirty[b])]
               ELSE Direct(dirty[b])

NewRoot(root, dirty, force, mark) ==
    LET fresh == NewPacks(root, dirty, force)
    IN  [pages |-> [p \in IndexPages |-> [s \in IndexSlots |->
                      NewSlot(root, dirty, force, fresh, <<p, s>>)]],
         mark |-> mark]

\* Pages that must be uploaded: changed, not empty, not the image's.
NewPages(root, next) ==
    {<<p, next.pages[p]>> :
       p \in {p \in PrivatePages(next) : next.pages[p] # root.pages[p]}}

-----------------------------------------------------------------------------
\* One compaction pass over one index page.

HasPage(root, after) ==
    {p \in IndexPages : root.pages[p] # NoPage /\ p >= after.page}

\* The packs of a page, a block's own object excepted, in hash order.
Groups(page) ==
    SetToSortSeq({page[s].pack : s \in {s \in IndexSlots : Len(page[s].pack) > 1}},
                 LAMBDA a, b : PackKey(a) < PackKey(b))

\* The loop over the packs of page p: what is rewritten and where to resume.
CompactStep(page, p, acc, pack) ==
    LET entries == SetToSortSeq({s \in IndexSlots : page[s].pack = pack}, <)
        used == {page[s].chunk : s \in Range(entries)}
        read == acc.consumed + Len(pack)
        taken == SubSeq(entries, 1, Min({Len(entries), PassBlocks - read}))
        resume == [page |-> p, pack |-> acc.completed]
    IN  IF acc.next # NoCursor THEN acc
        ELSE IF acc.consumed + ObjectBlocks + 1 > PassBlocks
             THEN [acc EXCEPT !.next = resume]
        ELSE IF Cardinality(used) >= Len(pack)
             THEN [acc EXCEPT !.consumed = read, !.completed = PackKey(pack)]
        ELSE [consumed |-> read + Len(taken),
              moved |-> acc.moved \cup Range(taken),
              completed |-> IF Len(taken) < Len(entries) THEN acc.completed
                            ELSE PackKey(pack),
              next |-> IF Len(taken) < Len(entries) THEN resume ELSE NoCursor]

\* The page a pass works on: the first from the cursor on, or PageCount.
CompactPage(root, after) ==
    IF xscope.packed THEN Min(HasPage(root, after) \cup {PageCount}) ELSE PageCount

\* What the loop over the packs of page p behind the cursor ends with.
CompactLoop(root, p, after) ==
    LET from == IF after.page = p THEN after.pack ELSE 0
        todo == IF p = PageCount THEN <<>>
                ELSE SelectSeq(Groups(root.pages[p]), LAMBDA q : PackKey(q) > from)
    IN  FoldLeft(LAMBDA acc, q : CompactStep(root.pages[p], p, acc, q),
                 [consumed |-> 0, moved |-> {}, completed |-> from, next |-> NoCursor],
                 todo)

\* Mutant of CompactPlan: the next page is looked for from the same page on.
CompactPlanRepeats(root, p, end) ==
    [dirty |-> [b \in {p} \X end.moved |-> root.pages[p][b[2]].chunk],
     next |-> IF p = PageCount \/ end.next # NoCursor THEN end.next
              ELSE [page |-> p, pack |-> 0]]

\* compact_packs_inner: blocks to rewrite and the cursor after the pass.
CompactPlan(root, p, end) ==
    LET rest == {q \in IndexPages : q > p /\ root.pages[q] # NoPage}
    IN  [dirty |-> [b \in {p} \X end.moved |-> root.pages[p][b[2]].chunk],
         next |-> IF end.next # NoCursor \/ rest = {} THEN end.next
                  ELSE [page |-> Min(rest), pack |-> 0]]

-----------------------------------------------------------------------------
Idle == [pc |-> "idle", rev |-> 0]

NoCursors == [gcAfter |-> 0, compactAfter |-> NoCursor, compactRev |-> 0,
              evicted |-> FALSE]

\* create_from_base or create: the first root is the image's map, or empty.
IndexInit ==
    /\ xscope \in IndexScopes
    /\ head = [rev |-> 1, root |-> [pages |-> xscope.base, mark |-> 0]]
    /\ objects = [packs |-> {}, pages |-> {}]
    /\ disk = [b \in Blocks |-> xscope.base[b[1]][b[2]].chunk]
    /\ attached = TRUE
    /\ pending = [b \in Blocks |-> [value |-> 0, seq |-> 0]]
    /\ sequence = 0
    /\ job = Idle
    /\ late = {}
    /\ record = NoCursors /\ saved = NoCursors
    /\ marked = NoMark

Fault == xscope.faults > 0 /\ xscope' = [xscope EXCEPT !.faults = @ - 1]

\* accept: writes the root's watermark covers leave the journal.
Accepted(root) ==
    [b \in Blocks |-> IF pending[b].seq <= root.mark
                      THEN [value |-> 0, seq |-> 0] ELSE pending[b]]
Waiting(p) == {b \in Blocks : p[b].seq # 0}

-----------------------------------------------------------------------------
\* The guest, its attachment and replication.

\* Mutant of Attach: the collection cursor survives the attachment.
AttachKeepsCursor ==
    /\ ~attached /\ job = Idle
    /\ attached' = TRUE
    /\ record' = [record EXCEPT !.evicted = FALSE]
    /\ saved' = record'
    /\ marked' = NoMark
    /\ UNCHANGED <<xscope, head, objects, disk, pending, sequence, job, late>>

Attach ==
    /\ ~attached /\ job = Idle
    /\ attached' = TRUE
    /\ record' = [record EXCEPT !.gcAfter = 0, !.evicted = FALSE]
    /\ saved' = record'
    /\ marked' = NoMark
    /\ UNCHANGED <<xscope, head, objects, disk, pending, sequence, job, late>>

Detach ==
    /\ attached /\ job = Idle
    /\ attached' = FALSE
    /\ saved' = record
    /\ marked' = NoMark
    /\ UNCHANGED <<xscope, head, objects, disk, pending, sequence, job, late,
                   record>>

GuestWrite(b, v) ==
    /\ attached /\ sequence < Len(xscope.plan)
    /\ <<b, v>> \in xscope.plan[sequence + 1]
    /\ sequence' = sequence + 1
    /\ disk' = [disk EXCEPT ![b] = v]
    /\ pending' = [pending EXCEPT ![b] = [value |-> v, seq |-> sequence + 1]]
    /\ UNCHANGED <<xscope, head, objects, attached, job, late, record, saved,
                   marked>>

\* A commit in progress: the root it starts from, the root it will publish
\* and the objects to upload first.
Commit(kind, next, packs, cursor) ==
    [pc |-> "upload", rev |-> head.rev, kind |-> kind, next |-> next,
     packs |-> packs, pages |-> NewPages(head.root, next), cursor |-> cursor]

\* replicate, by the worker's background thread or a sync request: reopen the
\* root, drop what it already has, and commit the rest with its watermark.
Replicate ==
    /\ job = Idle /\ Waiting(pending) # {}
    /\ pending' = Accepted(head.root)
    /\ \E dirty \in {[b \in Waiting(pending') |-> pending[b].value]} :
         IF Waiting(pending') = {} \/ ~Fetched(head.root)
         THEN UNCHANGED job
         ELSE \E next \in {NewRoot(head.root, dirty, FALSE, sequence)} :
                job' = Commit("replicate", next,
                              NewPacks(head.root, dirty, FALSE), NoCursor)
    /\ marked' = NoMark
    /\ UNCHANGED <<xscope, head, objects, disk, attached, sequence, late,
                   record, saved>>

\* upload_objects: every object is stored before the root is replaced.
Upload ==
    /\ job.pc = "upload"
    /\ objects' = [packs |-> objects.packs \cup job.packs,
                   pages |-> objects.pages \cup job.pages]
    /\ job' = [job EXCEPT !.pc = "publish"]
    /\ UNCHANGED <<xscope, head, disk, attached, pending, sequence, late,
                   record, saved, marked>>

\* An upload fails, times out or is cancelled; some objects are left behind.
UploadFails ==
    /\ job.pc = "upload" /\ Fault
    /\ \E packs \in SUBSET job.packs, pages \in SUBSET job.pages :
         objects' = [packs |-> objects.packs \cup packs,
                     pages |-> objects.pages \cup pages]
    /\ job' = Idle
    /\ UNCHANGED <<head, disk, attached, pending, sequence, late, record, saved,
                   marked>>

\* What the publisher does once its root is in place.
Published ==
    IF job.kind = "replicate"
    THEN /\ pending' = Accepted(job.next)
         /\ job' = Idle
         /\ UNCHANGED record
    ELSE /\ record' = [record EXCEPT !.compactRev = head.rev + 1,
                                    !.compactAfter = job.cursor]
         /\ job' = [pc |-> "mark", rev |-> head.rev + 1]
         /\ UNCHANGED pending

Publish ==
    /\ job.pc = "publish" /\ head.rev = job.rev
    /\ head' = [rev |-> head.rev + 1, root |-> job.next]
    /\ Published
    /\ UNCHANGED <<xscope, objects, disk, attached, sequence, late, saved, marked>>

\* The root was replaced by a publication given up on earlier.
PublishConflict ==
    /\ job.pc = "publish" /\ head.rev # job.rev
    /\ job' = Idle
    /\ UNCHANGED <<xscope, head, objects, disk, attached, pending, sequence, late,
                   record, saved, marked>>

\* The answer is lost: the root was replaced, or will be when the request is
\* served at last, or never.  The handle is poisoned and dropped.
PublishUncertain ==
    /\ job.pc = "publish" /\ Fault
    /\ \/ head.rev = job.rev /\ UNCHANGED late
          /\ head' = [rev |-> head.rev + 1, root |-> job.next]
       \/ late' = late \cup {[rev |-> job.rev, root |-> job.next]} /\ UNCHANGED head
       \/ UNCHANGED <<head, late>>
    /\ job' = Idle
    /\ UNCHANGED <<objects, disk, attached, pending, sequence, record, saved, marked>>

\* The store serves a publication whose sender gave up on it.
LatePublish ==
    \E l \in late :
        /\ late' = late \ {l}
        /\ head' = IF head.rev = l.rev THEN [rev |-> head.rev + 1, root |-> l.root]
                   ELSE head
        /\ UNCHANGED <<xscope, objects, disk, attached, pending, sequence, job,
                       record, saved, marked>>

-----------------------------------------------------------------------------
\* One pass of collect_offline over a detached disk.

\* Open the disk.  Unreplicated writes refuse the pass.  A cycle starts with
\* compaction, whose cursor is void for another revision.
PassOpen ==
    /\ ~attached /\ job = Idle /\ ~record.evicted
    /\ Waiting(Accepted(head.root)) = {}
    /\ pending' = Accepted(head.root)
    /\ IF record.gcAfter = 0 /\ marked = NoMark
       THEN /\ record' = [record EXCEPT !.compactAfter =
                             IF record.compactRev = head.rev THEN @ ELSE NoCursor]
            /\ job' = [pc |-> "compact", rev |-> head.rev]
       ELSE /\ job' = [pc |-> "mark", rev |-> head.rev]
            /\ UNCHANGED record
    /\ UNCHANGED <<xscope, head, objects, disk, attached, sequence, late, saved,
                   marked>>

\* compact_remote: plan one bounded rewrite against the root the disk was
\* opened at, and publish it like any commit.
Compact ==
    /\ job.pc = "compact"
    /\ \E p \in {CompactPage(head.root, record.compactAfter)} :
       \E end \in {CompactLoop(head.root, p, record.compactAfter)} :
       \E plan \in {CompactPlan(head.root, p, end)} :
       \E next \in {NewRoot(head.root, plan.dirty, TRUE, head.root.mark)} :
           IF head.rev # job.rev \/ ~Fetched(head.root)
           THEN job' = Idle /\ UNCHANGED record
           ELSE IF next = head.root
           THEN /\ record' = [record EXCEPT !.compactRev = head.rev,
                                           !.compactAfter = plan.next]
                /\ job' = [pc |-> "mark", rev |-> head.rev]
           ELSE /\ job' = Commit("compact", next,
                                 NewPacks(head.root, plan.dirty, TRUE), plan.next)
                /\ UNCHANGED record
    /\ UNCHANGED <<xscope, head, objects, disk, attached, pending, sequence, late,
                   saved, marked>>

\* Read the root and mark what it reaches, unless this revision is marked.
Mark ==
    /\ job.pc = "mark"
    /\ marked' = IF marked.rev = head.rev THEN marked
                 ELSE [rev |-> head.rev, packs |-> PackReferences(head.root),
                       pages |-> PageReferences(head.root)]
    /\ job' = [pc |-> "list", rev |-> head.rev]
    /\ UNCHANGED <<xscope, head, objects, disk, attached, pending, sequence, late,
                   record, saved>>

Keys == {PackKey(q) : q \in objects.packs} \cup
        {PageKey(o[1], o[2]) : o \in objects.pages}

\* List the next objects by key, then check that the marked root still stands.
List ==
    /\ job.pc = "list"
    /\ LET ahead == {k \in Keys : k > record.gcAfter}
           found == {k \in ahead :
                       Cardinality({j \in ahead : j <= k}) <= xscope.limit}
       IN  job' = IF head.rev # job.rev THEN Idle
                  ELSE [pc |-> "delete", rev |-> head.rev, listed |-> found]
    /\ UNCHANGED <<xscope, head, objects, disk, attached, pending, sequence, late,
                   record, saved, marked>>

GarbagePacks ==
    {q \in objects.packs \ marked.packs : PackKey(q) \in job.listed}
GarbagePages ==
    {o \in objects.pages \ marked.pages : PageKey(o[1], o[2]) \in job.listed}

\* Delete what is listed and not marked, advance and save the cursor.  A cycle
\* ends with an empty listing; when the whole disk is compacted as well its
\* local copy is evicted.
Delete ==
    /\ job.pc = "delete"
    /\ objects' = [packs |-> objects.packs \ GarbagePacks,
                   pages |-> objects.pages \ GarbagePages]
    /\ marked' = IF job.listed = {} THEN NoMark ELSE marked
    /\ LET after == IF job.listed = {} THEN 0 ELSE Max(job.listed)
       IN  record' = [record EXCEPT !.gcAfter = after,
                         !.evicted = after = 0 /\ record.compactAfter = NoCursor]
    /\ saved' = record'
    /\ job' = Idle
    /\ UNCHANGED <<xscope, head, disk, attached, pending, sequence, late>>

\* The delete fails or its answer is lost after removing some objects.
DeleteFails ==
    /\ job.pc = "delete" /\ Fault
    /\ \E packs \in SUBSET GarbagePacks, pages \in SUBSET GarbagePages :
         objects' = [packs |-> objects.packs \ packs,
                     pages |-> objects.pages \ pages]
    /\ job' = Idle
    /\ UNCHANGED <<head, disk, attached, pending, sequence, late, record, saved,
                   marked>>

\* A foreground request cancels the pass; its mark goes with it.
Yield ==
    /\ job.pc \in {"compact", "mark", "list"} /\ Fault
    /\ job' = Idle
    /\ marked' = NoMark
    /\ UNCHANGED <<head, objects, disk, attached, pending, sequence, late, record,
                   saved>>

\* The process dies: only the store, the journal and the saved record remain.
Crash ==
    /\ Fault
    /\ job' = Idle
    /\ record' = saved
    /\ marked' = NoMark
    /\ UNCHANGED <<head, objects, disk, attached, pending, sequence, late, saved>>

PassStep == PassOpen \/ Compact \/ Mark \/ List \/ Delete
CommitStep == Upload \/ Publish \/ PublishConflict

IndexNext ==
    \/ Attach \/ Detach \/ Replicate \/ Upload \/ UploadFails
    \/ Publish \/ PublishConflict \/ PublishUncertain \/ LatePublish
    \/ PassOpen \/ Compact \/ Mark \/ List \/ Delete
    \/ DeleteFails \/ Yield \/ Crash
    \/ \E b \in Blocks, v \in 0 .. 3 : GuestWrite(b, v)

-----------------------------------------------------------------------------
\* Properties.

\* Reading any block, through the journal and then the root, returns what the
\* guest last wrote there: at every step of commits, compaction and
\* collection, after lost answers, late publications and crashes
\* (references, collect_offline_cached, commit_packed, load).
ReadsLastWrite ==
    \A b \in Blocks :
        disk[b] = IF pending[b].seq # 0 THEN pending[b].value
                  ELSE Load(head.root, b)

\* When the service gives up the local copy of a detached disk, nothing is
\* left in the store that the root does not reach, and no pack holds a block
\* that the page using it does not use (collect_offline, compact_packs).
EvictedIsLean ==
    record.evicted =>
        /\ objects.packs = PackReferences(head.root)
        /\ objects.pages = PageReferences(head.root)
        /\ \A p \in PrivatePages(head.root), s \in IndexSlots :
             LET page == head.root.pages[p]
             IN  Range(page[s].pack) \subseteq {page[t].chunk : t \in IndexSlots}

\* A detached disk with nothing left to replicate is compacted, collected and
\* evicted after finitely many passes, or attached again: no pass returns to
\* a cursor it has left ("so each pass progresses", compact_packs_inner).
MaintenanceEnds ==
    (~attached /\ Waiting(pending) = {}) ~> (record.evicted \/ attached)

=============================================================================
