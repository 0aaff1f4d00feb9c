------------------------- MODULE LocalJournalOpens --------------------------
(****************************************************************************)
(* The invariant is kept when a delayed publication arrives, when a disk    *)
(* is opened, replayed, closed and evicted, and when its host crashes.      *)
(* None of these steps changes what a reader restores except by taking      *)
(* back unflushed writes.                                                   *)
(****************************************************************************)
EXTENDS LocalJournalSound

\* A delayed publication arrives.
LEMMA DeliverStep ==
    ASSUME JournalInv, NEW n \in late, Deliver(n)
    PROVE  JournalInv' /\ Settles
  <1>0. /\ UNCHANGED <<disk, state, job, guest, barrier>>
        /\ Lim' = Lim /\ n \in Root /\ n.rev \in Nat /\ remote.rev \in Nat
        /\ \A b \in Block : View(b)' = View(b)
    BY Zenon DEF Deliver, disk, state, Lim, JournalInv, JournalTypeOK, Root, View, Dirty
  <1>1. /\ JournalTypeOK' /\ Genuine' /\ Filed' /\ Closed' /\ Opened'
    BY <1>0 DEF Deliver, disk, state, guest, JournalInv, JournalTypeOK, Genuine, Filed,
                Closed, Opened
  <1>2. CASE ~ Current(n)
    <2>1. remote' = remote /\ late' \subseteq late
      BY <1>2, Zenon DEF Deliver
    <2>2. InFlight' \subseteq InFlight
      BY <1>0, <2>1, Zenon DEF InFlight, Current
    <2>3. Published'
      BY <1>0, <2>1, <2>2, Zenon DEF JournalInv, Published, disk, state
    <2>4. Reading' /\ Working' /\ Saved' /\ Bounded'
      BY <1>0, <2>1, Zenon DEF JournalInv, Reading, Working, Saved, Bounded, BarrierHolds, disk, state,
                        guest
    <2>5. Settles
      <3>1. \A b \in Block : remote.map[b] \in Nat
        BY Zenon DEF JournalInv, JournalTypeOK, Root, Map
      <3> QED BY <1>0, <2>1, <3>1, Ordering, Zenon DEF Settles, disk
    <2> QED BY <1>1, <2>3, <2>4, <2>5, Zenon DEF JournalInv
  <1>3. CASE Current(n)
    <2>1. remote' = n /\ late' \subseteq late /\ n.rev = remote.rev + 1
      BY <1>3, Zenon DEF Deliver, Current
    <2>2. Follows(file, Lim, remote, n) /\ (pc # "down" => reader = remote)
      BY <1>3, Zenon DEF JournalInv, Published, InFlight
    <2>3. /\ Sound(file, Lim, n) /\ Mark(file, remote) <= Mark(file, n)
          /\ Agreed(file, n) /\ (file.kind = "ok" => file.base <= n.rev)
          /\ \A b \in Block : remote.map[b] <= n.map[b]
          /\ \A b \in Block : Firm(file, Lim, n, b, stable[b])
          /\ \A b \in Block : barrier[b] <= n.map[b]
          /\ Cardinality(Blocks(file, Mark(file, n))) <= DirtyLimit
          /\ \A m \in late : m.rev <= n.rev
          /\ (job.pc = "upload" => job.next.rev <= n.rev)
          /\ \A b \in Block : \A v \in Nat :
                Newest(file, remote, b, v) => Newest(file, n, b, v)
      BY <1>0, <2>1, <2>2, Publishes, Zenon
    <2>4. \A m \in late : m.rev \in Nat /\ job.next.rev \in Nat
      BY Zenon DEF JournalInv, JournalTypeOK, Root
    <2>5. InFlight' = {}
      BY <1>0, <2>1, <2>3, <2>4 DEF InFlight, Current
    <2>6. evicting => \A r \in file.recs : r.seq <= Mark(file, n)
      <3>1. /\ \A r \in file.recs : r.seq \in Nat
            /\ Mark(file, remote) \in Nat /\ Mark(file, n) \in Nat
        BY <1>0, NumbersOf, Zenon DEF JournalInv, JournalTypeOK
      <3> QED BY <2>3, <3>1, Ordering, Zenon DEF JournalInv, Published
    <2>7. Published'
      BY <1>0, <2>1, <2>3, <2>4, <2>5, <2>6, Ordering, Successor, Zenon DEF JournalInv, Published, disk, state
    <2>8. Reading'
      BY <1>0, <2>1, <2>2 DEF JournalInv, Reading, disk, state
    <2>9. Working'
      <3>1. job.pc # "idle" => pc # "down"
        BY Zenon DEF JournalInv, Closed
      <3> QED BY <1>0, <2>1, <2>2, <3>1, Zenon DEF JournalInv, Working, state
    <2>10. Saved' /\ Bounded'
      BY <1>0, <2>1, <2>3, Zenon DEF JournalInv, Saved, Bounded, BarrierHolds, disk, state, guest
    <2>11. Settles
      BY <1>0, <2>1, <2>3, Zenon DEF Settles, disk
    <2> QED BY <1>1, <2>7, <2>8, <2>9, <2>10, <2>11, Zenon DEF JournalInv
  <1> QED BY <1>2, <1>3, Zenon

-----------------------------------------------------------------------------
\* A new journal, or none, in place of one that the root covers.
LEMMA EmptyFits ==
    ASSUME Counting, NEW f \in File, NEW g \in File, NEW lim \in Nat, NEW wide \in Nat,
           NEW root \in Root, Sound(f, lim, root), \A r \in f.recs : r.seq <= Mark(f, root),
           g.recs = {}, g.ack = 0, g.kind = "ok" => Mark(g, root) = 0
    PROVE  /\ Ordered(g) /\ Sound(g, wide, root)
           /\ \A n \in Root : Follows(f, lim, root, n) => Copy(root, n)
           /\ \A b \in Block : \A v \in Nat : Firm(f, lim, root, b, v) => Firm(g, wide, root, b, v)
           /\ \A b \in Block : \A v \in Nat : Newest(f, root, b, v) => Newest(g, root, b, v)
           /\ \A c \in Nat : Cardinality(Blocks(g, c)) = 0
  <1>1. /\ \A r \in f.recs : r.seq \in Nat /\ r.val \in Nat /\ r.block \in Block
        /\ \A b \in Block : root.map[b] \in Nat
        /\ Mark(f, root) \in Nat /\ Mark(g, root) \in Nat /\ g.seq \in Nat
    BY NumbersOf, Zenon
  <1>2. Ordered(g) /\ Sound(g, wide, root)
    BY <1>1 DEF Ordered, Sound, Fits, Covered
  <1>3. \A n \in Root : Follows(f, lim, root, n) => Copy(root, n)
    BY FollowsCopies, Zenon
  <1>4. \A r \in f.recs : r.val <= root.map[r.block]
    BY <1>1 DEF Sound, Fits
  <1>5. \A b \in Block : \A v \in Nat : Firm(f, lim, root, b, v) => Firm(g, wide, root, b, v)
    BY <1>1, <1>4 DEF Firm
  <1>6. \A b \in Block : \A v \in Nat : Newest(f, root, b, v) => Newest(g, root, b, v)
    BY <1>1, <1>4 DEF Newest
  <1>7. \A c \in Nat : Cardinality(Blocks(g, c)) = 0
    <2>1. \A c \in Nat : Blocks(g, c) = {}
      BY Zenon DEF Blocks
    <2> QED BY <2>1, Zenon DEF Counting
  <1> QED BY <1>2, <1>3, <1>5, <1>6, <1>7, Zenon

\* Opening reads the remote root.
LEMMA OpenReadStep ==
    ASSUME JournalInv, OpenRead
    PROVE  JournalInv' /\ Settles
  <1>0. /\ UNCHANGED <<store, disk, failed, base, ack, seq, local, pending, job, guest, barrier>>
        /\ pc = "down" /\ pc' = "head" /\ reader' = remote /\ ~ evicting /\ Lim' = Lim
    BY Zenon DEF OpenRead, disk, Lim
  <1>1. JournalTypeOK' /\ Genuine' /\ Filed' /\ Closed' /\ Opened'
    BY <1>0, Zenon DEF store, disk, guest, JournalInv, JournalTypeOK, Genuine, Filed, Closed, Opened, Pcs
  <1>2. InFlight' = InFlight
    BY <1>0, Zenon DEF InFlight, Current, store
  <1>3. Published'
    BY <1>0, <1>2, Zenon DEF JournalInv, Published, disk, store
  <1>4. Reading'
    BY <1>0, Zenon DEF JournalInv, Published, Reading, disk, store
  <1>5. Working'
    BY <1>0, Zenon DEF JournalInv, Closed, Working
  <1>6. Saved' /\ Bounded'
    BY <1>0, Zenon DEF JournalInv, Saved, Bounded, BarrierHolds, disk, store, guest
  <1>7. Settles
    <2>1. \A b \in Block : remote.map[b] \in Nat
      BY Zenon DEF JournalInv, JournalTypeOK, Root, Map
    <2> QED BY <1>0, <2>1, Ordering, Zenon DEF Settles, disk, store
  <1> QED BY <1>1, <1>3, <1>4, <1>5, <1>6, <1>7, Zenon DEF JournalInv

\* OpenCreate and OpenHeader: the journal is empty before and after.
LEMMA OpenEmpty ==
    ASSUME JournalInv, pc \in {"head", "new"}, file.kind # "ok",
           file' \in File, file'.recs = {}, file'.ack = 0, file'.seq = 0, file'.id <= ids',
           file'.kind = "ok" => file'.base = reader.rev /\ ids < file'.id,
           synced' \in Nat, file'.kind = "ok" => synced' = 0, ids' \in Nat, ids <= ids',
           pc' \in {"new", "up"}, pc' = "new" <=> file'.kind = "torn",
           pc' = "up" <=> file'.kind = "ok", pc' = "up" => base' = reader.rev,
           base' \in Nat,
           UNCHANGED <<store, evicting, failed, ack, seq, local, pending, reader, job, guest,
                       barrier>>
    PROVE  JournalInv' /\ Settles
  <1>0. /\ UNCHANGED <<remote, late, last, written, stable>> /\ Lim' \in Nat /\ Lim \in Nat
        /\ file \in File /\ remote \in Root /\ reader \in Root /\ DirtyLimit \in Nat
        /\ ids \in Nat /\ seq \in Nat /\ last \in Nat
        /\ file.recs = {} /\ ~ failed /\ ack = 0 /\ seq = 0 /\ local = 0
        /\ pending = [b \in Block |-> Clean] /\ job.pc = "idle" /\ ~ evicting
    <2>1. Lim \in Nat /\ seq \in Nat
      BY LimIs, Zenon DEF JournalInv, JournalTypeOK
    <2> QED BY <2>1, JournalAssumption, Zenon DEF JournalInv, JournalTypeOK, Closed, Filed, Published,
                                           store, guest, Lim
  <1>1. \A root \in {remote, reader} : file'.kind = "ok" => Mark(file', root) = 0
    BY <1>0 DEF JournalInv, Genuine, Mark, Root
  <1>2. Sound(file, Lim, remote) /\ Sound(file, Lim, reader)
    BY Zenon DEF JournalInv, Published, Reading
  <1>3. \A root \in {remote, reader} :
          /\ Ordered(file') /\ Sound(file', Lim', root)
          /\ \A n \in Root : Follows(file, Lim, root, n) => Copy(root, n)
          /\ \A b \in Block : \A v \in Nat :
                Firm(file, Lim, root, b, v) => Firm(file', Lim', root, b, v)
          /\ \A b \in Block : \A v \in Nat : Newest(file, root, b, v) => Newest(file', root, b, v)
          /\ \A c \in Nat : Cardinality(Blocks(file', c)) = 0
    <2> TAKE root \in {remote, reader}
    <2>1. Counting /\ file' \in File /\ file'.recs = {} /\ file'.ack = 0
      BY Counts, Zenon
    <2>2. root \in Root /\ Sound(file, Lim, root) /\ \A r \in file.recs : r.seq <= Mark(file, root)
      BY <1>0, <1>2, Zenon
    <2>3. file'.kind = "ok" => Mark(file', root) = 0
      BY <1>1, Zenon
    <2> QED BY <1>0, <2>1, <2>2, <2>3, EmptyFits, Zenon
  <1>4. JournalTypeOK' /\ Genuine'
    <2>1. JournalTypeOK'
      BY <1>0, Zenon DEF JournalInv, JournalTypeOK, Pcs
    <2>2. \A root \in {remote, reader, job.next} \cup late : root.id \in Nat /\ root.id <= ids
      BY Zenon DEF JournalInv, JournalTypeOK, Genuine, Root
    <2>3. \A root \in {remote, reader, job.next} \cup late : root.id <= ids'
      BY <1>0, <2>2, Ordering, Zenon
    <2>4. Genuine'
      BY <1>0, <2>3, Zenon DEF JournalInv, Genuine
    <2> QED BY <2>1, <2>4, Zenon
  <1>5. Filed'
    BY <1>0, <1>3 DEF Filed, File
  <1>6. \A root \in {remote, reader} :
          Agreed(file', root) /\ (file'.kind = "ok" => file'.base <= root.rev)
    <2>1. reader.rev <= remote.rev /\ reader.rev \in Nat
      BY <1>0, RemoteAhead, Zenon DEF Root
    <2> QED BY <1>0, <1>1, <2>1, Ordering, Zenon DEF Agreed
  <1>7. InFlight' = InFlight /\ InFlight \subseteq Root
    BY <1>0, Zenon DEF InFlight, Current, JournalInv, JournalTypeOK
  <1>8. Published'
    <2>1. \A n \in InFlight : Follows(file', Lim', remote, n) /\ reader = remote
      BY <1>3, <1>7, Zenon DEF JournalInv, Published, Follows
    <2> QED BY <1>0, <1>3, <1>6, <1>7, <2>1, Zenon DEF JournalInv, Published
  <1>9. Reading'
    <2>1. reader = remote \/ (reader.rev < remote.rev /\ Follows(file, Lim, reader, remote))
      BY Zenon DEF JournalInv, Reading
    <2>2. reader = remote \/ (reader.rev < remote.rev /\ Follows(file', Lim', reader, remote))
      BY <1>0, <1>3, <2>1, Zenon DEF Follows
    <2> QED BY <1>0, <1>3, <1>6, <2>2, Zenon DEF Reading
  <1>10. Closed'
    BY <1>0, Zenon DEF Closed
  <1>11. Opened'
    <2>1. Exact(file', pending, 0, 0)
      BY <1>0, Zenon DEF Exact, Clean
    <2> QED BY <1>0, <1>1, <2>1 DEF Opened
  <1>12. Working' /\ Bounded'
    <2>1. Mark(file', remote) \in Nat
      BY <1>0, NumbersOf, Zenon
    <2> QED BY <1>0, <1>3, <2>1 DEF Working, Bounded
  <1>13. Saved'
    <2>1. \A b \in Block : Firm(file, Lim, remote, b, stable[b]) /\ stable[b] \in Nat
      BY Zenon DEF JournalInv, Saved, JournalTypeOK, Map
    <2> QED BY <1>0, <1>3, <2>1, Zenon DEF JournalInv, Saved, BarrierHolds
  <1>14. Settles
    <2>1. \A b \in Block : remote.map[b] \in Nat
      BY <1>0, Zenon DEF Root, Map
    <2> QED BY <1>0, <1>3, <2>1, Ordering, Zenon DEF Settles, guest
  <1> QED BY <1>4, <1>5, <1>8, <1>9, <1>10, <1>11, <1>12, <1>13, <1>14, Zenon DEF JournalInv

\* Opening creates the journal file.
LEMMA OpenCreateStep ==
    ASSUME JournalInv, OpenCreate
    PROVE  JournalInv' /\ Settles
  <1>1. /\ Torn \in File /\ Torn.recs = {} /\ Torn.ack = 0 /\ Torn.seq = 0 /\ Torn.id = 0
        /\ Torn.kind = "torn"
    BY Zenon DEF Torn, File
  <1>2. synced \in Nat /\ ids \in Nat /\ base \in Nat
    BY Zenon DEF JournalInv, JournalTypeOK
  <1> QED BY <1>1, <1>2, OpenEmpty DEF OpenCreate, header

\* Opening completes the header of a new journal.
LEMMA OpenHeaderStep ==
    ASSUME JournalInv, OpenHeader
    PROVE  JournalInv' /\ Settles
  <1>1. /\ ids \in Nat /\ reader.rev \in Nat
        /\ pc = "new" /\ file.kind = "torn"
    BY Zenon DEF JournalInv, JournalTypeOK, Closed, OpenHeader, Root
  <1>2. /\ file' \in File /\ file'.recs = {} /\ file'.ack = 0 /\ file'.seq = 0
        /\ file'.id = ids + 1 /\ file'.kind = "ok" /\ file'.base = reader.rev
    BY <1>1, Ordering, Successor, Zenon DEF OpenHeader, File
  <1> QED BY <1>1, <1>2, OpenEmpty, Ordering, Successor, Zenon DEF OpenHeader

-----------------------------------------------------------------------------
\* The process has gone, or is not there, and the remote root fits what is left.
LEMMA DownStep ==
    ASSUME JournalInv, Shut \/ (pc = "down" /\ UNCHANGED <<state, job>>),
           UNCHANGED <<store, ids, guest, barrier>>,
           file' \in File, synced' \in Nat, evicting' \in BOOLEAN,
           Ordered(file'), Sound(file', synced', remote), Agreed(file', remote),
           \A n \in Root : Follows(file, Lim, remote, n) => Follows(file', synced', remote, n),
           \A b \in Block : \A v \in Nat :
              Firm(file, Lim, remote, b, v) => Firm(file', synced', remote, b, v),
           Cardinality(Blocks(file', Mark(file', remote))) <= DirtyLimit,
           file'.id <= ids, file'.recs \subseteq file.recs,
           file'.kind = "ok" => file'.base <= remote.rev,
           \A r \in file'.recs : file'.ack < r.seq, file'.ack <= file'.seq, file'.seq <= last,
           file'.kind # "ok" => file'.recs = {} /\ file'.ack = 0,
           file'.kind = "ok" => synced' <= file'.seq \/ \E r \in file'.recs : r.seq = synced',
           evicting' => \A r \in file'.recs : r.seq <= Mark(file', remote)
    PROVE  JournalInv' /\ Settles
  <1>0. /\ UNCHANGED <<remote, late, last, written, stable>> /\ Lim' = synced'
        /\ pc' = "down" /\ remote \in Root
    BY Zenon DEF JournalInv, JournalTypeOK, store, guest, state, Lim, Shut
  <1>1. /\ Idle.next = Image /\ Idle.pc = "idle" /\ Image \in Root /\ Image.id = 0
        /\ \A b \in Block : Image.map[b] = 0
        /\ Idle \in [pc: {"idle", "read", "upload"}, next: Root, want: Map]
    BY Zenon DEF Idle, Image, Root, Map
  <1>2. /\ JournalTypeOK' /\ Closed' /\ job'.pc = "idle"
        /\ {reader', job'.next} \subseteq {reader, job.next, Image}
    <2>1. [b \in Block |-> Clean] \in [Block -> Version]
      BY Zenon DEF Clean, Version
    <2>2. CASE Shut
      BY <1>0, <1>1, <2>1, <2>2, Zenon DEF JournalInv, JournalTypeOK, Closed, Shut, Pcs
    <2>3. CASE pc = "down" /\ UNCHANGED <<state, job>>
      BY <1>0, <2>3, Zenon DEF JournalInv, JournalTypeOK, Closed, state
    <2> QED BY <2>2, <2>3, Zenon
  <1>3. Genuine'
    <2>1. \A root \in {remote', reader', job'.next} \cup late' :
            root = Image \/ root \in {remote, reader, job.next} \cup late
      BY <1>0, <1>2, Zenon
    <2>2. ids' = ids /\ ids \in Nat
      BY Zenon DEF JournalInv, JournalTypeOK
    <2> QED BY <1>0, <1>1, <2>1, <2>2 DEF JournalInv, Genuine
  <1>4. Filed'
    BY <1>0, Zenon DEF Filed
  <1>5. InFlight' \subseteq InFlight /\ InFlight \subseteq Root
    BY <1>0, <1>2, Zenon DEF InFlight, Current, JournalInv, JournalTypeOK
  <1>6. Published'
    BY <1>0, <1>5, Zenon DEF JournalInv, Published
  <1>7. Reading' /\ Opened' /\ Working'
    BY <1>0, <1>2, Zenon DEF Reading, Opened, Working
  <1>8. Saved'
    <2>1. \A b \in Block : Firm(file, Lim, remote, b, stable[b]) /\ stable[b] \in Nat
      BY Zenon DEF JournalInv, Saved, JournalTypeOK, Map
    <2> QED BY <1>0, <2>1, Zenon DEF JournalInv, Saved, BarrierHolds
  <1>9. Bounded'
    BY <1>0, Zenon DEF Bounded
  <1>10. Settles
    <2>1. \A b \in Block : remote.map[b] \in Nat
      BY <1>0, Zenon DEF Root, Map
    <2> QED BY <1>0, <2>1, Ordering, Zenon DEF Settles, guest, Up
  <1> QED BY <1>2, <1>3, <1>4, <1>6, <1>7, <1>8, <1>9, <1>10, Zenon DEF JournalInv

\* Close, Crash, EvictMark and an open that fails: the process has gone, and the
\* journal keeps its durable records.
LEMMA ShutStep ==
    ASSUME JournalInv, Shut, UNCHANGED <<store, ids, guest, barrier>>,
           file' \in File, synced' \in Nat, evicting' \in BOOLEAN,
           NEW a \in Nat, Keeps(file, Lim, file', synced', a),
           a <= Mark(file, remote), file'.ack <= Mark(file, remote), Agreed(file', remote),
           file'.kind = "ok" => file'.base <= remote.rev,
           \A r \in file'.recs : file'.ack < r.seq, file'.ack <= file'.seq, file'.seq <= last,
           file'.kind # "ok" => file'.recs = {} /\ file'.ack = 0,
           file'.kind = "ok" => synced' <= file'.seq \/ \E r \in file'.recs : r.seq = synced',
           evicting' => \A r \in file'.recs : r.seq <= Mark(file, remote)
    PROVE  JournalInv' /\ Settles
  <1>0. /\ Lim' = synced' /\ file \in File /\ remote \in Root /\ DirtyLimit \in Nat
        /\ file'.id = file.id /\ file'.recs \subseteq file.recs /\ file.id <= ids
    BY JournalAssumption, Zenon DEF JournalInv, JournalTypeOK, Filed, Lim, Shut, Keeps
  <1>1. Sound(file, Lim, remote)
    BY Zenon DEF JournalInv, Published
  <1>2. /\ Ordered(file') /\ Sound(file', Lim', remote)
        /\ Mark(file', remote) = Mark(file, remote)
        /\ \A n \in Root : Follows(file, Lim, remote, n) => Follows(file', Lim', remote, n)
        /\ \A b \in Block : \A v \in Nat :
              Firm(file, Lim, remote, b, v) => Firm(file', Lim', remote, b, v)
    BY <1>0, <1>1, Kept, Zenon
  <1>3. Cardinality(Blocks(file', Mark(file', remote))) <= DirtyLimit
    <2>1. Mark(file, remote) \in Nat
      BY <1>0, NumbersOf, Zenon
    <2>2. Cardinality(Blocks(file, Mark(file, remote))) <= DirtyLimit
      BY Zenon DEF JournalInv, Bounded
    <2> QED BY <1>0, <1>2, <2>1, <2>2, FewerBlocks, Counts, Ordering, ZenonT(40)
  <1> QED BY <1>0, <1>2, <1>3, DownStep, Zenon

\* The disk is closed, or marked for eviction.
LEMMA CloseStep ==
    ASSUME JournalInv, Close \/ EvictMark
    PROVE  JournalInv' /\ Settles
  <1>0. /\ Shut /\ UNCHANGED <<store, ids, guest, barrier>> /\ file' = file /\ synced' = synced
        /\ evicting' \in BOOLEAN
    BY Zenon DEF Close, EvictMark, disk, JournalInv, JournalTypeOK
  <1>1. /\ file \in File /\ synced \in Nat /\ Lim \in Nat /\ Lim <= synced /\ remote \in Root
        /\ Mark(file, remote) \in Nat /\ \A r \in file.recs : r.seq \in Nat
    BY LimIs, NumbersOf, Zenon DEF JournalInv, JournalTypeOK
  <1>2. Keeps(file, Lim, file', synced', 0)
    BY <1>0, <1>1, SameKeeps, Zenon
  <1>3. evicting' => \A r \in file.recs : r.seq <= Mark(file, remote)
    <2>1. CASE Close
      BY <2>1, Zenon DEF Close, disk, JournalInv, Published
    <2>2. CASE EvictMark
      <3>1. pc = "up" /\ ~ failed /\ Dirty = {}
        BY <2>2, Zenon DEF EvictMark, Up
      <3>2. /\ Exact(file, pending, ack, seq) /\ \A r \in file.recs : r.seq <= seq
            /\ ack = Mark(file, reader) /\ ack \in Nat
        BY <3>1, Zenon DEF JournalInv, JournalTypeOK, Opened
      <3>3. \A r \in file.recs : r.block \in Block /\ pending[r.block].seq = 0
        BY <1>1, <3>1, NumbersOf, Zenon DEF Dirty
      <3>4. \A r \in file.recs : r.seq <= ack
        BY <1>1, <3>2, <3>3 DEF Exact
      <3>5. ack <= Mark(file, remote)
        BY <3>1, <3>2, RemoteAhead, Zenon
      <3> QED BY <1>1, <3>2, <3>4, <3>5, Ordering, Zenon
    <2> QED BY <2>1, <2>2, Zenon
  <1>4. /\ file.ack <= Mark(file, remote) /\ Agreed(file, remote)
        /\ (file.kind = "ok" => file.base <= remote.rev)
    BY Zenon DEF JournalInv, Published, Sound, Covered
  <1>5. /\ \A r \in file.recs : file.ack < r.seq
        /\ file.ack <= file.seq /\ file.seq <= last
        /\ (file.kind # "ok" => file.recs = {} /\ file.ack = 0)
        /\ (file.kind = "ok" => synced <= file.seq \/ \E r \in file.recs : r.seq = synced)
    BY Zenon DEF JournalInv, Filed
  <1> QED BY <1>0, <1>1, <1>2, <1>3, <1>4, <1>5, ShutStep

\* A journal that is empty, torn or covered by the root may go.
LEMMA GoneStep ==
    ASSUME JournalInv, Shut \/ (pc = "down" /\ UNCHANGED <<state, job>>),
           UNCHANGED <<store, ids, guest, barrier>>, file' = NoFile, synced' \in Nat,
           evicting' \in BOOLEAN, \A r \in file.recs : r.seq <= Mark(file, remote)
    PROVE  JournalInv' /\ Settles
  <1>0. /\ file \in File /\ remote \in Root /\ Lim \in Nat /\ ids \in Nat /\ last \in Nat
        /\ Sound(file, Lim, remote) /\ DirtyLimit \in Nat
    BY LimIs, JournalAssumption, Zenon DEF JournalInv, JournalTypeOK, Published
  <1>1. /\ file' \in File /\ file'.recs = {} /\ file'.ack = 0 /\ file'.seq = 0 /\ file'.id = 0
        /\ file'.kind = "none"
    BY Zenon DEF NoFile, File
  <1>2. /\ Ordered(file') /\ Sound(file', synced', remote)
        /\ \A n \in Root : Follows(file, Lim, remote, n) => Copy(remote, n)
        /\ \A b \in Block : \A v \in Nat :
              Firm(file, Lim, remote, b, v) => Firm(file', synced', remote, b, v)
        /\ \A c \in Nat : Cardinality(Blocks(file', c)) = 0
    BY <1>0, <1>1, EmptyFits, Counts, Zenon
  <1>3. \A n \in Root : Follows(file, Lim, remote, n) => Follows(file', synced', remote, n)
    BY <1>2, Zenon DEF Follows
  <1>4. Cardinality(Blocks(file', Mark(file', remote))) <= DirtyLimit
    BY <1>0, <1>1, <1>2, NumbersOf
  <1> QED BY <1>0, <1>1, <1>2, <1>3, <1>4, DownStep DEF Agreed

\* The host crashes and takes back records that were not synced.
LEMMA CrashStep ==
    ASSUME JournalInv, Crash
    PROVE  JournalInv' /\ Settles
  <1>0. /\ Shut /\ UNCHANGED <<store, ids, guest, barrier>>
        /\ evicting' = evicting /\ evicting \in BOOLEAN
        /\ file \in File /\ synced \in Nat /\ Lim \in Nat /\ Lim <= synced /\ remote \in Root
        /\ Mark(file, remote) \in Nat /\ last \in Nat /\ file.seq \in Nat
        /\ \A r \in file.recs : r.seq \in Nat /\ r.seq <= last
    BY LimIs, NumbersOf, Zenon DEF JournalInv, JournalTypeOK, Crash, Genuine
  <1>1. /\ file.ack <= Mark(file, remote) /\ Agreed(file, remote)
        /\ (file.kind = "ok" => file.base <= remote.rev)
        /\ (evicting => \A r \in file.recs : r.seq <= Mark(file, remote))
    BY Zenon DEF JournalInv, Published, Sound, Covered
  <1>2. /\ \A r \in file.recs : file.ack < r.seq
        /\ file.ack <= file.seq /\ file.seq <= last
        /\ (file.kind # "ok" => file.recs = {} /\ file.ack = 0)
        /\ (file.kind = "ok" => synced <= file.seq \/ \E r \in file.recs : r.seq = synced)
    BY Zenon DEF JournalInv, Filed
  <1>3. CASE file.kind = "ok"
    <2>1. PICK R \in Remnants : file' = [file EXCEPT !.recs = R]
      BY <1>3, Zenon DEF Crash
    <2>2. synced' = Top(file')
      BY <1>3, Zenon DEF Crash
    <2>3. PICK n \in synced..Top(file) : \E P \in SUBSET {r \in file.recs : r.seq = n + 1} :
             R = {r \in file.recs : r.seq <= n} \cup P
      BY Zenon DEF Remnants
    <2>4. R \subseteq file.recs /\ \A r \in file.recs : r.seq <= n => r \in R
      BY <2>3, Zenon
    <2>5. /\ file' \in File /\ file'.recs = R /\ file'.kind = "ok" /\ file'.id = file.id
          /\ file'.base = file.base /\ file'.ack = file.ack /\ file'.seq = file.seq
      BY <1>0, <1>3, <2>1, <2>4, Zenon DEF File
    <2>6. /\ Top(file') \in Nat /\ file.seq <= Top(file') /\ \A r \in R : r.seq <= Top(file')
          /\ Top(file') = file.seq \/ \E r \in R : r.seq = Top(file')
      BY <1>0, <2>4, <2>5, TopFinds, Counts, Zenon
    <2>7. n \in Nat /\ synced <= n
      BY <1>0, <2>3, TopIs
    <2>8. synced <= synced'
      BY <1>0, <1>2, <1>3, <2>2, <2>4, <2>6, <2>7
    <2>9. \A r \in file.recs : r.seq <= Lim => r \in R /\ r.seq <= synced'
      BY <1>0, <2>2, <2>4, <2>6, <2>7, <2>8, Ordering, Zenon
    <2>10. Keeps(file, Lim, file', synced', 0)
      BY <1>0, <1>3, <2>2, <2>4, <2>5, <2>6, <2>8, <2>9, Ordering, ZenonT(40) DEF Keeps
    <2>11. Agreed(file', remote)
      BY <1>1, <1>3, <2>5, Zenon DEF Agreed, Mark
    <2> QED BY <1>0, <1>1, <1>2, <1>3, <2>2, <2>4, <2>5, <2>6, <2>10, <2>11, ShutStep
  <1>4. CASE file.kind # "ok"
    <2>1. file' \in {file, NoFile} /\ synced' = synced
      BY <1>4, Zenon DEF Crash
    <2>2. CASE file' = file
      <3>1. Keeps(file, Lim, file', synced', 0)
        BY <1>0, <2>1, <2>2, SameKeeps, Zenon
      <3> QED BY <1>0, <1>1, <1>2, <2>1, <2>2, <3>1, ShutStep
    <2>3. CASE file' = NoFile
      BY <1>0, <1>2, <1>4, <2>1, <2>3, GoneStep, Zenon
    <2> QED BY <2>1, <2>2, <2>3, Zenon
  <1> QED BY <1>3, <1>4, Zenon

\* Eviction removes the journal, whose records are all in the remote root.
LEMMA EvictRemoveStep ==
    ASSUME JournalInv, EvictRemove
    PROVE  JournalInv' /\ Settles
  <1>1. \A r \in file.recs : r.seq <= Mark(file, remote)
    BY Zenon DEF JournalInv, Published, EvictRemove
  <1>2. evicting' \in BOOLEAN
    BY Zenon DEF EvictRemove, JournalInv, JournalTypeOK
  <1> QED BY <1>1, <1>2, GoneStep, Zenon DEF EvictRemove

\* Eviction clears its marker.
LEMMA EvictDoneStep ==
    ASSUME JournalInv, EvictDone
    PROVE  JournalInv' /\ Settles
  <1>0. /\ UNCHANGED <<store, file, synced, ids, state, job, guest, barrier>> /\ ~ evicting'
        /\ evicting' \in BOOLEAN /\ Lim' = Lim /\ InFlight' = InFlight
        /\ \A b \in Block : View(b)' = View(b)
    BY Zenon DEF EvictDone, state, store, Lim, InFlight, Current, View, Dirty
  <1>1. /\ JournalTypeOK' /\ Genuine' /\ Filed' /\ Closed' /\ Opened' /\ Working'
    BY <1>0, ZenonT(40) DEF store, state, guest, JournalInv, JournalTypeOK, Genuine, Filed, Closed, Opened,
                Working
  <1>2. Published' /\ Reading'
    BY <1>0, Zenon DEF JournalInv, Published, Reading, store, state
  <1>3. Saved' /\ Bounded'
    BY <1>0, Zenon DEF JournalInv, Saved, Bounded, BarrierHolds, store, state, guest
  <1>4. Settles
    <2>1. \A b \in Block : remote.map[b] \in Nat
      BY Ordering, Zenon DEF JournalInv, JournalTypeOK, Root, Map
    <2> QED BY <1>0, <2>1, Ordering, Zenon DEF Settles, store
  <1> QED BY <1>1, <1>2, <1>3, <1>4, Zenon DEF JournalInv

\* Opening replays the journal against the root it has read.
LEMMA OpenReplayStep ==
    ASSUME JournalInv, OpenReplay
    PROVE  JournalInv' /\ Settles
  <1> DEFINE a == Acked(reader, file.base, file.ack)
             q == [b \in Block |-> Replay(file.recs, ReplayAck(file, reader), b)]
             p == Retain(q, a)
             f == Compacted(file.id, reader.rev, a, Top(file), p)
  <1>0. /\ pc = "head" /\ Openable(file, reader) /\ UNCHANGED <<store, evicting, ids, guest, barrier>>
        /\ \/ /\ pc' = "up" /\ base' = reader.rev /\ ack' = a /\ seq' = Top(file) /\ pending' = p
              /\ CompactOk(f) /\ UNCHANGED <<reader, job>>
           \/ Shut /\ file' = f /\ synced' = f.seq
    BY Zenon DEF OpenReplay
  <1>1. /\ file \in File /\ reader \in Root /\ remote \in Root /\ Lim \in Nat /\ Lim = synced
        /\ synced \in Nat /\ last \in Nat /\ DirtyLimit \in Nat /\ file.kind = "ok"
        /\ evicting \in BOOLEAN /\ ids \in Nat
    BY <1>0, LimIs, JournalAssumption, Zenon DEF JournalInv, JournalTypeOK, Openable, Lim
  <1>2. /\ Sound(file, Lim, reader) /\ Agreed(file, reader) /\ file.ack <= Mark(file, reader)
        /\ Sound(file, Lim, remote)
    BY <1>0, Zenon DEF JournalInv, Reading, Published, Sound, Covered
  <1>3. a = Mark(file, reader) /\ a \in Nat
    BY <1>0, <1>1, <1>2, NumbersOf, Zenon DEF Openable, Acceptable, Acked, Agreed, Mark
  <1>4. ReplayAck(file, reader) = a
    BY <1>1, <1>2, <1>3, ReplayMark, Zenon
  <1>5. /\ Top(file) \in Nat /\ file.seq <= Top(file) /\ \A r \in file.recs : r.seq <= Top(file)
        /\ synced <= Top(file) /\ Top(file) <= last
    BY <1>1, TopIs, Zenon
  <1>6. q = [b \in Block |-> Replay(file.recs, a, b)]
    BY <1>4, Zenon
  <1>7. q \in [Block -> Version] /\ Exact(file, q, a, Top(file))
    <2> HIDE DEF a, q
    <2> QED BY <1>1, <1>3, <1>5, <1>6, ExactReplay, Counts, Zenon
  <1>8. p \in [Block -> Version] /\ Exact(file, p, a, Top(file))
    <2> HIDE DEF a, q
    <2> QED BY <1>1, <1>3, <1>5, <1>7, ExactAccept, Ordering, ZenonT(40)
  <1>9. f = Compacted(file.id, reader.rev, a, Top(file), p) /\ reader.rev \in Nat
    BY <1>1, Zenon DEF Root
  <1> HIDE DEF a, q, p, f
  <1>10. \A lim \in Nat : lim <= Top(file) => Shrunk(file, lim, f, p, reader.rev, a, Top(file))
    BY <1>1, <1>3, <1>5, <1>8, <1>9, CompactedKeeps, Zenon
  <1>11. /\ f \in File /\ f.kind = "ok" /\ f.id = file.id /\ f.base = reader.rev /\ f.ack = a
         /\ f.seq = Top(file) /\ f.recs \subseteq file.recs
         /\ \A r \in f.recs : a < r.seq /\ r.seq <= Top(file)
         /\ Exact(f, p, a, Top(file)) /\ Keeps(file, Lim, f, Top(file), a)
         /\ Keeps(file, Top(file), f, Top(file), a)
    BY <1>1, <1>5, <1>10, Ordering, Zenon DEF Shrunk
  <1>12. a <= Mark(file, remote) /\ reader.rev <= remote.rev /\ (reader.rev = remote.rev => reader = remote)
         /\ Mark(file, remote) \in Nat /\ remote.rev \in Nat
    BY <1>0, <1>1, <1>3, RemoteAhead, Zenon DEF Root
  <1>13. a <= Top(file) /\ Top(file) <= Top(file) /\ reader.rev <= reader.rev
    BY <1>1, <1>2, <1>3, <1>5, <1>9, Ordering, ZenonT(40) DEF Sound, Covered, File
  <1>14. file' = f /\ synced' = Top(file)
    BY <1>0, <1>11, Zenon DEF CompactOk
  <1>15. \A root \in Root : Mark(f, root) = Mark(file, root)
    BY <1>11, Zenon DEF Mark
  <1>16. Agreed(f, remote) /\ Agreed(f, reader)
    BY <1>1, <1>3, <1>11, <1>12, <1>15, Zenon DEF Agreed
  <1>17. Settles
    <2>1. \A b \in Block : remote.map[b] \in Nat
      BY <1>1, Zenon DEF Root, Map
    <2>2. \A b \in Block : \A v \in Nat : Newest(file, remote, b, v) => Newest(f, remote, b, v)
      <3>1. Ordered(file) /\ Fits(file, remote)
        BY <1>2, Zenon DEF JournalInv, Filed, Sound
      <3> QED BY <1>1, <1>3, <1>5, <1>11, <1>12, <3>1, KeepsNewest, Zenon
    <2> QED BY <1>0, <1>14, <2>1, <2>2, Ordering, Zenon DEF Settles, store
  <1>18. CASE Shut
    <2>1. evicting' => \A r \in f.recs : r.seq <= Mark(file, remote)
      BY <1>0, <1>11, Zenon DEF JournalInv, Published
    <2> QED BY <1>0, <1>1, <1>3, <1>5, <1>11, <1>12, <1>13, <1>14, <1>16, <1>18, <2>1, ShutStep, Zenon
  <1>19. CASE /\ pc' = "up" /\ base' = reader.rev /\ ack' = a /\ seq' = Top(file) /\ pending' = p
              /\ CompactOk(f) /\ UNCHANGED <<reader, job>>
    <2>0. /\ local' = Top(file) /\ failed' = failed /\ ~ failed /\ job.pc = "idle" /\ Lim' = Top(file)
          /\ ~ evicting /\ UNCHANGED <<remote, late, last, written, stable>>
      BY <1>0, <1>5, <1>11, <1>14, <1>19, ZenonT(40) DEF CompactOk, Lim, JournalInv, Closed, Published, store,
                                             guest
    <2>1. \A root \in {remote, reader} :
          /\ Ordered(f) /\ Sound(f, Lim', root) /\ Mark(f, root) = Mark(file, root)
          /\ \A n \in Root : Follows(file, Lim, root, n) => Follows(f, Lim', root, n)
          /\ \A b \in Block : \A v \in Nat :
                Firm(file, Lim, root, b, v) => Firm(f, Lim', root, b, v)
      <3> TAKE root \in {remote, reader}
      <3>1. file' \in File /\ Lim' \in Nat /\ Keeps(file, Lim, file', Lim', a) /\ file'.ack = a
        BY <1>5, <1>11, <1>14, <2>0, Zenon
      <3>2. root \in Root /\ Sound(file, Lim, root) /\ a <= Mark(file, root)
        BY <1>1, <1>2, <1>3, <1>12, Ordering, Zenon
      <3> QED BY <1>3, <1>14, <3>1, <3>2, Kept, Zenon
    <2>2. JournalTypeOK'
      BY <1>0, <1>1, <1>3, <1>5, <1>8, <1>9, <1>11, <1>14, <1>19, <2>0, Zenon DEF JournalInv, JournalTypeOK,
                                                                         Pcs
    <2>3. Genuine'
      BY <1>0, <1>11, <1>14, <1>19, <2>0, Zenon DEF JournalInv, Genuine
    <2>4. Filed'
      <3>1. file'.kind = "ok" /\ synced' <= file'.seq /\ file'.seq <= last' /\ file'.id <= ids'
        BY <1>0, <1>5, <1>11, <1>13, <1>14, <2>0, Zenon DEF JournalInv, Filed
      <3>2. /\ Ordered(file') /\ file'.ack <= file'.seq
            /\ \A r \in file'.recs : file'.ack < r.seq
        BY <1>11, <1>13, <1>14, <2>1, Zenon
      <3> QED BY <3>1, <3>2, Zenon DEF Filed
    <2>5. InFlight' = InFlight /\ InFlight \subseteq Root
      BY <1>19, <2>0, Zenon DEF InFlight, Current, JournalInv, JournalTypeOK
    <2>6. Published'
      <3>1. /\ Sound(file', Lim', remote') /\ Agreed(file', remote') /\ file'.base <= remote'.rev
            /\ ~ evicting'
        BY <1>0, <1>11, <1>12, <1>14, <1>16, <2>0, <2>1, Zenon
      <3>2. \A n \in late' : n.rev <= remote'.rev + 1
        BY <2>0, Zenon DEF JournalInv, Published
      <3>3. \A n \in InFlight' : Follows(file', Lim', remote', n) /\ reader' = remote'
        BY <1>0, <1>14, <1>19, <2>0, <2>1, <2>5, Zenon DEF JournalInv, Published
      <3> QED BY <3>1, <3>2, <3>3, Zenon DEF Published
    <2>7. Reading'
      <3>1. reader = remote \/ (reader.rev < remote.rev /\ Follows(file, Lim, reader, remote))
        BY <1>0, Zenon DEF JournalInv, Reading
      <3>2. reader = remote \/ (reader.rev < remote.rev /\ Follows(f, Lim', reader, remote))
        BY <1>1, <2>1, <3>1, Zenon
      <3>3. Sound(f, Lim', reader) /\ f.base <= reader.rev
        BY <1>11, <1>13, <2>1, Zenon
      <3> QED BY <1>14, <1>16, <1>19, <2>0, <3>2, <3>3, Zenon DEF Reading
    <2>8. Closed' /\ Working'
      BY <1>19, <2>0, Zenon DEF Closed, Working
    <2>9. Opened'
      BY <1>1, <1>3, <1>5, <1>11, <1>14, <1>15, <1>19, <2>0, Ordering, ZenonT(40) DEF Opened
    <2>10. Saved'
      <3>1. \A b \in Block : Firm(file, Lim, remote, b, stable[b]) /\ stable[b] \in Nat
        BY Zenon DEF JournalInv, Saved, JournalTypeOK, Map
      <3> QED BY <1>0, <1>14, <2>0, <2>1, <3>1, Zenon DEF JournalInv, Saved, BarrierHolds
    <2>11. Bounded'
      <3>1. Cardinality(Blocks(file, a)) <= DirtyLimit
        BY <1>0, <1>4, Zenon DEF Openable, Blocks
      <3>2. Cardinality(Blocks(f, a)) <= DirtyLimit
        BY <1>1, <1>3, <1>11, <3>1, FewerBlocks, Counts, Ordering, Zenon
      <3>3. Cardinality(Blocks(f, Mark(file, remote))) <= DirtyLimit
        BY <1>1, <1>3, <1>11, <1>12, <3>1, FewerBlocks, Counts, Zenon
      <3> QED BY <1>1, <1>14, <1>15, <1>19, <2>0, <3>2, <3>3, Zenon DEF Bounded
    <2> QED BY <1>17, <2>2, <2>3, <2>4, <2>6, <2>7, <2>8, <2>9, <2>10, <2>11, Zenon DEF JournalInv
  <1> QED BY <1>0, <1>18, <1>19, Zenon

-----------------------------------------------------------------------------
(****************************************************************************)
(* The invariant is kept when an open journal turns to another root and is  *)
(* compacted, and when replication captures what it will upload.            *)
(****************************************************************************)

\* The roots that a step of an open journal may turn to: the remote root stays or is
\* replaced by one that follows it, and the journal has the old or the new one.
Turns(root) ==
    /\ remote' \in Root /\ root \in Root
    /\ \/ remote' = remote /\ root \in {reader, remote}
       \/ /\ reader = remote /\ root \in {remote, remote'}
          /\ remote'.rev = remote.rev + 1 /\ Follows(file, Lim, remote, remote')
          /\ remote'.id <= ids /\ \A b \in Block : remote'.map[b] \in written[b]

\* A root that the journal may turn to fits the journal like the present one.
LEMMA TurnsFit ==
    ASSUME JournalInv, pc = "up", NEW root \in Root, Turns(root)
    PROVE  /\ \A n \in {root, remote'} :
                 /\ Sound(file, Lim, n) /\ Agreed(file, n) /\ file.base <= n.rev
                 /\ n \in Root /\ n.id <= ids /\ \A b \in Block : n.map[b] \in written[b]
           /\ root = remote' \/ (root.rev < remote'.rev /\ Follows(file, Lim, root, remote'))
           /\ ack <= Mark(file, root) /\ Mark(file, root) <= Mark(file, remote')
           /\ Mark(file, root) \in Nat /\ Mark(file, remote') \in Nat
           /\ \A b \in Block : Firm(file, Lim, remote', b, stable[b])
           /\ Cardinality(Blocks(file, Mark(file, remote'))) <= DirtyLimit
           /\ \A b \in Block : remote.map[b] <= remote'.map[b]
           /\ \A b \in Block : reader.map[b] <= root.map[b]
           /\ \A b \in Block : root.map[b] <= remote'.map[b]
           /\ \A b \in Block : \A v \in Nat :
                 Newest(file, remote, b, v) => Newest(file, remote', b, v)
  <1>1. /\ file \in File /\ remote \in Root /\ reader \in Root /\ remote' \in Root
        /\ file.kind = "ok" /\ ack = Mark(file, reader)
    BY Zenon DEF JournalInv, JournalTypeOK, Opened, Turns
  <1>2. \A n \in {reader, remote} :
          /\ Sound(file, Lim, n) /\ Agreed(file, n) /\ file.base <= n.rev
          /\ n.id <= ids /\ \A b \in Block : n.map[b] \in written[b]
    BY <1>1, Zenon DEF JournalInv, Reading, Published, Genuine
  <1>3. \A n \in {reader, remote, remote', root} :
          /\ Mark(file, n) \in Nat /\ n.rev \in Nat /\ \A b \in Block : n.map[b] \in Nat
    BY <1>1, NumbersOf, Zenon DEF Root
  <1>4. /\ Mark(file, reader) <= Mark(file, remote)
        /\ \A b \in Block : reader.map[b] <= remote.map[b]
        /\ reader = remote \/ (reader.rev < remote.rev /\ Follows(file, Lim, reader, remote))
    BY RemoteAhead, Zenon DEF JournalInv, Reading
  <1>5. CASE remote' = remote /\ root \in {reader, remote}
    <2>1. /\ \A b \in Block : Firm(file, Lim, remote', b, stable[b])
          /\ Cardinality(Blocks(file, Mark(file, remote'))) <= DirtyLimit
      BY <1>5, Zenon DEF JournalInv, Saved, Bounded
    <2>2. root = remote' \/ (root.rev < remote'.rev /\ Follows(file, Lim, root, remote'))
      BY <1>4, <1>5, Zenon
    <2>3. ack <= Mark(file, root) /\ Mark(file, root) <= Mark(file, remote')
      BY <1>1, <1>3, <1>4, <1>5, Ordering, Zenon
    <2>4. /\ \A b \in Block : remote.map[b] <= remote'.map[b]
          /\ \A b \in Block : reader.map[b] <= root.map[b]
          /\ \A b \in Block : root.map[b] <= remote'.map[b]
      BY <1>3, <1>4, <1>5, Ordering, Zenon
    <2> QED BY <1>1, <1>2, <1>3, <1>5, <2>1, <2>2, <2>3, <2>4, Zenon
  <1>6. CASE /\ reader = remote /\ root \in {remote, remote'}
             /\ remote'.rev = remote.rev + 1 /\ Follows(file, Lim, remote, remote')
             /\ remote'.id <= ids /\ \A b \in Block : remote'.map[b] \in written[b]
    <2>1. /\ Sound(file, Lim, remote') /\ Mark(file, remote) <= Mark(file, remote')
          /\ Agreed(file, remote') /\ (file.kind = "ok" => file.base <= remote'.rev)
          /\ \A b \in Block : remote.map[b] <= remote'.map[b]
          /\ \A b \in Block : Firm(file, Lim, remote', b, stable[b])
          /\ Cardinality(Blocks(file, Mark(file, remote'))) <= DirtyLimit
          /\ \A b \in Block : \A v \in Nat :
                Newest(file, remote, b, v) => Newest(file, remote', b, v)
      BY <1>1, <1>6, Publishes, Zenon
    <2>2. root = remote' \/ (root.rev < remote'.rev /\ Follows(file, Lim, root, remote'))
      BY <1>3, <1>6
    <2>3. ack <= Mark(file, root) /\ Mark(file, root) <= Mark(file, remote')
      BY <1>1, <1>3, <1>6, <2>1, Ordering, Zenon
    <2>4. /\ \A b \in Block : reader.map[b] <= root.map[b]
          /\ \A b \in Block : root.map[b] <= remote'.map[b]
      BY <1>3, <1>6, <2>1, Ordering, Zenon
    <2>5. \A n \in {root, remote'} :
             /\ Sound(file, Lim, n) /\ Agreed(file, n) /\ file.base <= n.rev
             /\ n \in Root /\ n.id <= ids /\ \A b \in Block : n.map[b] \in written[b]
      BY <1>1, <1>2, <1>6, <2>1, Zenon
    <2> QED BY <1>1, <1>3, <2>1, <2>2, <2>3, <2>4, <2>5, Zenon
  <1> QED BY <1>5, <1>6, Zenon DEF Turns

\* The file after such a step: as it was, or compacted with the pending versions p.
Rewritten(root, a, p) ==
    /\ file' \in File /\ file'.kind = "ok" /\ Keeps(file, Lim, file', Lim', a)
    /\ Exact(file', p, a, seq)
    /\ file' = file \/ (file'.base = root.rev /\ file'.ack = a)
    /\ \A r \in file'.recs : file'.ack < r.seq
    /\ file'.ack <= a /\ file'.ack <= file'.seq /\ file'.seq <= seq
    /\ seq <= file'.seq \/ \E r \in file'.recs : r.seq = seq
    /\ synced' \in Nat
    /\ synced' <= file'.seq \/ \E r \in file'.recs : r.seq = synced'
    /\ local' \in Nat /\ failed' \in BOOLEAN
    /\ ~ failed' => local' <= synced' /\ \A r \in file'.recs : r.seq <= seq
    /\ \/ failed'
       \/ \A b \in Block : \A v \in Nat :
             Newest(file, remote', b, v) => Newest(file', remote', b, v)

\* State::compact, whether it succeeds or fails, leaves such a file.
LEMMA Compacts ==
    ASSUME JournalInv, pc = "up", UNCHANGED <<pc, seq>>, NEW root \in Root, Turns(root),
           NEW a \in Nat, a = Mark(file, root), NEW p \in [Block -> Version],
           Exact(file, p, a, seq), NEW f, f = Compacted(file.id, root.rev, a, seq, p),
           CompactOk(f) \/ CompactFail(f)
    PROVE  Rewritten(root, a, p)
  <1>0. /\ file \in File /\ file.kind = "ok" /\ seq \in Nat /\ synced \in Nat /\ local \in Nat
        /\ failed \in BOOLEAN /\ Lim \in Nat /\ Lim <= seq /\ file.seq <= seq /\ file.seq \in Nat
        /\ root.rev \in Nat /\ file.ack \in Nat /\ \A r \in file.recs : r.seq \in Nat
        /\ (~ failed => \A r \in file.recs : r.seq <= seq)
    BY LimIs, Zenon DEF JournalInv, JournalTypeOK, Opened, File, Root, Record
  <1>1. /\ Sound(file, Lim, root) /\ a <= Mark(file, remote') /\ Sound(file, Lim, remote')
        /\ remote' \in Root
    BY TurnsFit, Zenon
  <1>2. a <= seq /\ file.ack <= a
    BY <1>0, <1>1, Ordering, Zenon DEF Sound, Covered
  <1>3. \A lim \in Nat : lim <= seq => Shrunk(file, lim, f, p, root.rev, a, seq)
    BY <1>0, CompactedKeeps, Zenon
  <1>4. /\ f \in File /\ f.kind = "ok" /\ f.id = file.id /\ f.base = root.rev /\ f.ack = a
        /\ f.seq = seq /\ f.recs \subseteq file.recs /\ \A r \in f.recs : a < r.seq /\ r.seq <= seq
        /\ Exact(f, p, a, seq) /\ Keeps(file, Lim, f, seq, a) /\ Keeps(file, seq, f, seq, a)
    BY <1>0, <1>3, Ordering, Zenon DEF Shrunk
  <1>5. CASE file' = f /\ synced' = f.seq /\ failed' \in BOOLEAN /\ local' \in Nat
             /\ (~ failed' => local' <= f.seq /\ ~ failed)
    <2>1. Lim' = seq
      BY <1>0, <1>4, <1>5, Zenon DEF Lim
    <2>2. ~ failed => \A b \in Block : \A v \in Nat :
                         Newest(file, remote', b, v) => Newest(f, remote', b, v)
      <3>1. Ordered(file) /\ Fits(file, remote')
        BY <1>1, Zenon DEF JournalInv, Filed, Sound
      <3> QED BY <1>0, <1>1, <1>4, <3>1, KeepsNewest, ZenonT(40)
    <2> QED BY <1>0, <1>2, <1>4, <1>5, <2>1, <2>2 DEF Rewritten
  <1>6. CASE file' = file /\ synced' = synced /\ failed' = TRUE /\ local' = local
    <2>1. Lim' = Lim
      BY <1>6, Zenon DEF Lim
    <2>2. Keeps(file, Lim, file', Lim', a)
      BY <1>0, <1>6, <2>1, SameKeeps, Ordering, Zenon
    <2>3. /\ \A r \in file.recs : file.ack < r.seq
          /\ file.ack <= file.seq
          /\ synced <= file.seq \/ \E r \in file.recs : r.seq = synced
          /\ seq <= file.seq \/ \E r \in file.recs : r.seq = seq
      BY <1>0, Zenon DEF JournalInv, Filed, Opened
    <2> QED BY <1>0, <1>2, <1>6, <2>2, <2>3, Zenon DEF Rewritten
  <1>7. CASE CompactOk(f)
    BY <1>0, <1>4, <1>5, <1>7 DEF CompactOk
  <1>8. CASE CompactFail(f)
    BY <1>0, <1>4, <1>5, <1>6, <1>8, Zenon DEF CompactFail
  <1> QED BY <1>7, <1>8, Zenon

\* The file is left alone, or synced.
LEMMA Leaves ==
    ASSUME JournalInv, pc = "up", UNCHANGED <<pc, seq, file>>, NEW root \in Root, Turns(root),
           NEW a \in Nat, a = Mark(file, root), NEW p \in [Block -> Version],
           Exact(file, p, a, seq),
           \/ UNCHANGED <<synced, local>>
           \/ synced' = Top(file) /\ local' = seq,
           failed' = failed \/ failed' = TRUE
    PROVE  Rewritten(root, a, p) /\ Lim <= Lim'
  <1>0. /\ file \in File /\ file.kind = "ok" /\ seq \in Nat /\ synced \in Nat /\ local \in Nat
        /\ failed \in BOOLEAN /\ Lim \in Nat /\ Lim <= seq /\ file.seq <= seq /\ file.seq \in Nat
        /\ file.ack \in Nat /\ \A r \in file.recs : r.seq \in Nat
        /\ (~ failed => local <= synced /\ \A r \in file.recs : r.seq <= seq)
    BY LimIs, Zenon DEF JournalInv, JournalTypeOK, Opened, File, Record
  <1>1. file.ack <= a
    BY TurnsFit, Zenon DEF Sound, Covered
  <1>2. /\ \A r \in file.recs : file.ack < r.seq
        /\ file.ack <= file.seq
        /\ synced <= file.seq \/ \E r \in file.recs : r.seq = synced
        /\ seq <= file.seq \/ \E r \in file.recs : r.seq = seq
    BY <1>0, Zenon DEF JournalInv, Filed, Opened
  <1>3. /\ Top(file) \in Nat /\ synced <= Top(file) /\ file.seq <= Top(file)
        /\ \A r \in file.recs : r.seq <= Top(file)
        /\ Top(file) = file.seq \/ \E r \in file.recs : r.seq = Top(file)
    BY <1>0, TopIs, Zenon
  <1>4. seq <= Top(file)
    BY <1>0, <1>2, <1>3
  <1>5. /\ synced' \in Nat /\ synced <= synced' /\ local' \in Nat
        /\ synced' <= file.seq \/ \E r \in file.recs : r.seq = synced'
        /\ (~ failed' => local' <= synced')
    BY <1>0, <1>2, <1>3, <1>4
  <1>6. Lim <= Lim' /\ Lim' \in Nat
    BY <1>0, <1>5, Ordering, Zenon DEF Lim
  <1>7. Keeps(file, Lim, file', Lim', a)
    BY <1>0, <1>6, SameKeeps, Zenon
  <1> QED BY <1>0, <1>1, <1>2, <1>5, <1>6, <1>7, Zenon DEF Rewritten

\* A step of an open journal that appends nothing: it turns to a root, drops the
\* pending versions that root covers, and may compact the file.
LEMMA TurnStep ==
    ASSUME JournalInv, pc = "up", UNCHANGED <<pc, seq, evicting, ids, guest>>,
           NEW root \in Root, Turns(root), reader' = root, base' = root.rev,
           NEW a \in Nat, a = Mark(file, root), ack' = a,
           pending' \in [Block -> Version], Rewritten(root, a, pending'),
           late' \in SUBSET Root, job' \in [pc: {"idle", "read", "upload"}, next: Root, want: Map],
           \A n \in late' \cup {job'.next} :
              n.id <= ids /\ \A b \in Block : n.map[b] \in written[b],
           \A n \in late' : n.rev <= remote'.rev + 1,
           \A n \in InFlight' : \/ remote' = remote /\ n \in InFlight
                                \/ root = remote' /\ Follows(file', Lim', remote', n),
           Working', barrier' \in Map, BarrierHolds'
    PROVE  JournalInv' /\ Settles
  <1> SUFFICES ASSUME
           file' \in File, file'.kind = "ok", Keeps(file, Lim, file', Lim', a),
           Exact(file', pending', a, seq),
           file' = file \/ (file'.base = root.rev /\ file'.ack = a),
           \A r \in file'.recs : file'.ack < r.seq,
           file'.ack <= a, file'.ack <= file'.seq, file'.seq <= seq,
           seq <= file'.seq \/ \E r \in file'.recs : r.seq = seq,
           synced' \in Nat, synced' <= file'.seq \/ \E r \in file'.recs : r.seq = synced',
           local' \in Nat, failed' \in BOOLEAN,
           ~ failed' => local' <= synced' /\ \A r \in file'.recs : r.seq <= seq,
           \/ failed'
           \/ \A b \in Block : \A v \in Nat :
                 Newest(file, remote', b, v) => Newest(file', remote', b, v)
         PROVE JournalInv' /\ Settles
    BY Zenon DEF Rewritten
  <1>0. /\ pc' = "up" /\ UNCHANGED <<seq, evicting, ids, last, written, stable>>
        /\ file \in File /\ file'.id = file.id /\ file'.recs \subseteq file.recs /\ ~ evicting
        /\ seq \in Nat /\ last \in Nat /\ seq <= last /\ remote' \in Root /\ DirtyLimit \in Nat
        /\ file'.seq \in Nat
    BY JournalAssumption, Zenon DEF guest, JournalInv, JournalTypeOK, Keeps, Published, Opened, Turns, File
  <1>1. Lim' \in Nat
    BY <1>0, Zenon DEF Lim
  <1>2. /\ \A n \in {root, remote'} :
              /\ Sound(file, Lim, n) /\ Agreed(file, n) /\ file.base <= n.rev
              /\ n \in Root /\ n.id <= ids /\ \A b \in Block : n.map[b] \in written[b]
        /\ root = remote' \/ (root.rev < remote'.rev /\ Follows(file, Lim, root, remote'))
        /\ ack <= a /\ a <= Mark(file, remote') /\ Mark(file, remote') \in Nat
        /\ \A b \in Block : Firm(file, Lim, remote', b, stable[b])
        /\ Cardinality(Blocks(file, Mark(file, remote'))) <= DirtyLimit
        /\ \A b \in Block : remote.map[b] <= remote'.map[b]
        /\ \A b \in Block : \A v \in Nat :
              Newest(file, remote, b, v) => Newest(file, remote', b, v)
    BY TurnsFit, Zenon
  <1>3. file'.ack \in Nat /\ file'.ack <= Mark(file, remote') /\ file'.ack <= Mark(file, root)
    <2>1. file'.ack \in Nat /\ Mark(file, root) = a /\ a \in Nat
      BY ZenonT(40) DEF File
    <2> QED BY <1>2, <2>1, Ordering, ZenonT(40)
  <1>4. \A n \in {root, remote'} :
          /\ Ordered(file') /\ Sound(file', Lim', n) /\ Mark(file', n) = Mark(file, n)
          /\ \A m \in Root : Follows(file, Lim, n, m) => Follows(file', Lim', n, m)
          /\ \A b \in Block : \A v \in Nat : Firm(file, Lim, n, b, v) => Firm(file', Lim', n, b, v)
    <2> SUFFICES ASSUME NEW n \in {root, remote'}
                 PROVE  /\ Ordered(file') /\ Sound(file', Lim', n) /\ Mark(file', n) = Mark(file, n)
                        /\ \A m \in Root : Follows(file, Lim, n, m) => Follows(file', Lim', n, m)
                        /\ \A b \in Block : \A v \in Nat :
                              Firm(file, Lim, n, b, v) => Firm(file', Lim', n, b, v)
      BY Zenon
    <2>1. n \in Root /\ Sound(file, Lim, n)
      BY <1>2, Zenon
    <2>2. a <= Mark(file, n) /\ file'.ack <= Mark(file, n)
      <3>1. a \in Nat /\ a <= a
        OBVIOUS
      <3> QED BY <1>2, <1>3, <3>1, Zenon
    <2> QED BY <1>1, <2>1, <2>2, Kept, Zenon
  <1>5. JournalTypeOK'
    <2>1. root.rev \in Nat
      BY ZenonT(40) DEF Root
    <2> QED BY <1>0, <2>1, Zenon DEF JournalInv, JournalTypeOK
  <1>6. Genuine'
    BY <1>0, <1>2, Zenon DEF JournalInv, Genuine
  <1>7. Filed'
    <2>1. file'.seq <= last /\ file'.id <= ids
      BY <1>0, Ordering, Zenon DEF JournalInv, Filed
    <2> QED BY <1>0, <1>4, <2>1, ZenonT(40) DEF Filed
  <1>8. \A n \in {root, remote'} : Agreed(file', n) /\ file'.base <= n.rev
    <2>1. CASE file' = file
      BY <1>2, <2>1, Zenon
    <2>2. CASE file'.base = root.rev /\ file'.ack = a
      <3>1. root.rev \in Nat /\ remote'.rev \in Nat /\ Mark(file', root) = a
        BY <1>0, <1>4, Zenon DEF Root
      <3>2. Agreed(file', root) /\ file'.base <= root.rev
        BY <2>2, <3>1, Ordering, Zenon DEF Agreed
      <3>3. CASE root = remote'
        BY <3>2, <3>3, Zenon
      <3>4. CASE root.rev < remote'.rev
        <4>1. root.rev <= remote'.rev /\ remote'.rev # root.rev
          BY <3>1, <3>4, Ordering, Zenon
        <4> QED BY <2>2, <3>2, <4>1, Zenon DEF Agreed
      <3> QED BY <1>2, <3>3, <3>4, Zenon
    <2> QED BY <2>1, <2>2, Zenon
  <1>9. \A n \in InFlight' : Follows(file', Lim', remote', n) /\ root = remote'
    <2> SUFFICES ASSUME NEW n \in InFlight' PROVE Follows(file', Lim', remote', n) /\ root = remote'
      BY Zenon
    <2>1. CASE remote' = remote /\ n \in InFlight
      <3>1. Follows(file, Lim, remote, n) /\ reader = remote /\ n \in Root
        BY <2>1, Zenon DEF JournalInv, JournalTypeOK, Published, InFlight
      <3>2. root = remote
        BY <2>1, <3>1, Zenon DEF Turns, Current
      <3> QED BY <1>4, <2>1, <3>1, <3>2, Zenon
    <2>2. CASE root = remote' /\ Follows(file', Lim', remote', n)
      BY <2>2, Zenon
    <2> QED BY <2>1, <2>2, Zenon
  <1>10. Published'
    <2>1. /\ Sound(file', Lim', remote') /\ Agreed(file', remote') /\ file'.base <= remote'.rev
          /\ ~ evicting'
      <3>1. Sound(file', Lim', remote')
        BY <1>4, Zenon
      <3>2. Agreed(file', remote') /\ file'.base <= remote'.rev
        BY <1>8, Zenon
      <3>3. evicting' = evicting /\ ~ evicting
        BY <1>0, Zenon
      <3> QED BY <3>1, <3>2, <3>3
    <2>2. \A n \in InFlight' : Follows(file', Lim', remote', n) /\ reader' = remote'
      BY <1>9, Zenon
    <2> QED BY <2>1, <2>2, Zenon DEF Published
  <1>11. Reading'
    <2>1. root = remote' \/ (root.rev < remote'.rev /\ Follows(file', Lim', root, remote'))
      BY <1>0, <1>2, <1>4, Zenon
    <2> QED BY <1>4, <1>8, <2>1, Zenon DEF Reading
  <1>12. Closed'
    BY <1>0, Zenon DEF Closed
  <1>13. Opened'
    BY <1>0, <1>4, Zenon DEF Opened
  <1>14. Saved'
    <2>1. \A b \in Block : stable[b] \in Nat
      BY Zenon DEF JournalInv, JournalTypeOK, Map
    <2> QED BY <1>0, <1>2, <1>4, <2>1, Zenon DEF Saved
  <1>15. Bounded'
    <2>1. Cardinality(Blocks(file, ack)) <= DirtyLimit /\ ack \in Nat
      BY Zenon DEF JournalInv, JournalTypeOK, Bounded
    <2>2. Cardinality(Blocks(file', a)) <= DirtyLimit
      BY <1>0, <1>2, <2>1, FewerBlocks, Counts, Zenon
    <2>3. Cardinality(Blocks(file', Mark(file, remote'))) <= DirtyLimit
      <3> DEFINE m == Mark(file, remote')
      <3>1. m \in Nat /\ m <= m /\ Cardinality(Blocks(file, m)) <= DirtyLimit
        BY <1>2, Ordering, Zenon
      <3> HIDE DEF m
      <3>2. Cardinality(Blocks(file', m)) <= DirtyLimit
        BY <1>0, <3>1, FewerBlocks, Counts, Zenon
      <3> QED BY <3>2, Zenon DEF m
    <2> QED BY <1>0, <1>4, <2>2, <2>3, Zenon DEF Bounded
  <1>16. Settles
    BY <1>0, <1>2, Zenon DEF Settles, guest, Up
  <1> QED BY <1>5, <1>6, <1>7, <1>10, <1>11, <1>12, <1>13, <1>14, <1>15, <1>16, Zenon DEF JournalInv

\* A step of an open journal while nothing happens to the remote root.
LEMMA StayStep ==
    ASSUME JournalInv, pc = "up", UNCHANGED <<pc, seq, evicting, ids, guest, store>>,
           NEW root \in {reader, remote}, reader' = root, base' = root.rev,
           ack' = Mark(file, root), pending' \in [Block -> Version],
           Rewritten(root, Mark(file, root), pending'),
           job' \in [pc: {"idle", "read", "upload"}, next: Root, want: Map],
           job'.next \in {remote, reader, job.next, Image}, job' = job \/ job'.pc # "upload",
           Working', barrier' \in Map, BarrierHolds'
    PROVE  JournalInv' /\ Settles
  <1>1. /\ UNCHANGED <<remote, late>> /\ root \in Root /\ remote \in Root /\ late \in SUBSET Root
        /\ Mark(file, root) \in Nat
    BY Holding, NumbersOf, Zenon DEF store, JournalInv, JournalTypeOK
  <1>2. Turns(root)
    BY <1>1, Zenon DEF Turns
  <1>3. \A n \in late' \cup {job'.next} :
           n.id <= ids /\ \A b \in Block : n.map[b] \in written[b]
    BY <1>1, Known, Zenon
  <1>4. \A n \in late' : n.rev <= remote'.rev + 1
    BY <1>1, Zenon DEF JournalInv, Published
  <1>5. \A n \in InFlight' : n \in InFlight
    BY <1>1, Zenon DEF InFlight, Current
  <1> QED BY <1>1, <1>2, <1>3, <1>4, <1>5, TurnStep, Zenon

-----------------------------------------------------------------------------
(* Replication. *)
\* A captured root adds the records above the old mark.
LEMMA UploadAdds ==
    ASSUME NEW f \in File, f.kind = "ok", NEW old \in Root, Fits(f, old), Ordered(f),
           NEW a \in Nat, a = Mark(f, old), f.ack <= a, NEW top \in Nat, a <= top,
           NEW p \in [Block -> Version], Exact(f, p, a, top), \E b \in Block : p[b].seq # 0,
           NEW n, n = [rev |-> old.rev + 1, id |-> f.id, seq |-> top,
                       map |-> [b \in Block |-> IF p[b].seq # 0 THEN p[b].val ELSE old.map[b]]]
    PROVE  n \in Root /\ Adds(f, top, old, n)
  <1>0. /\ \A r \in f.recs : r.seq \in Nat /\ r.val \in Nat /\ r.block \in Block
        /\ \A b \in Block : old.map[b] \in Nat /\ p[b].seq \in Nat /\ p[b].val \in Nat
        /\ old.rev \in Nat /\ f.id \in Nat /\ f.ack \in Nat
    BY NumbersOf, Zenon DEF Version, File, Root
  <1>1. /\ n.rev = old.rev + 1 /\ n.id = f.id /\ n.seq = top
        /\ \A b \in Block : n.map[b] = IF p[b].seq # 0 THEN p[b].val ELSE old.map[b]
        /\ n \in Root
    BY <1>0, Ordering, Successor, Zenon DEF Root, Map
  <1>2. Mark(f, n) = top
    BY <1>1, Zenon DEF Mark
  <1>3. ASSUME NEW b \in Block, p[b].seq # 0
        PROVE  \E r \in f.recs : /\ r.block = b /\ r.seq = p[b].seq /\ r.val = p[b].val
                                 /\ r.seq <= top /\ a < r.seq /\ old.map[b] < r.val
    <2>1. /\ [seq |-> p[b].seq, block |-> b, val |-> p[b].val] \in f.recs
          /\ a < p[b].seq /\ p[b].seq <= top
      BY <1>3, Zenon DEF Exact
    <2>2. PICK r \in f.recs : r.block = b /\ r.seq = p[b].seq /\ r.val = p[b].val
      BY <2>1, Zenon
    <2>3. old.map[b] < r.val
      BY <2>1, <2>2, Zenon DEF Fits
    <2> QED BY <2>1, <2>2, <2>3, Zenon
  <1>4. \A b \in Block : old.map[b] <= n.map[b] /\ n.map[b] \in Nat
    BY <1>0, <1>1, <1>3
  <1>5. \A b \in Block : \/ n.map[b] = old.map[b]
                         \/ \E r \in f.recs : /\ r.block = b /\ r.seq <= top
                                              /\ n.seq < r.seq \/ r.val = n.map[b]
    BY <1>1, <1>3, ZenonT(40)
  <1>6. \E r \in f.recs : r.seq <= top /\ Mark(f, old) < r.seq
    BY <1>3, Zenon
  <1>7. Fits(f, n)
    <2> SUFFICES ASSUME NEW r \in f.recs
                 PROVE  /\ (top < r.seq => n.map[r.block] < r.val)
                        /\ (r.seq <= top => r.val <= n.map[r.block])
      <3>1. \A r \in f.recs : ~ (top < r.seq) => r.seq <= top
        BY <1>0
      <3> QED BY <1>2, <3>1, Zenon DEF Fits
    <2>1. /\ a < r.seq => old.map[r.block] < r.val
          /\ r.seq <= a => r.val <= old.map[r.block]
      BY <1>0 DEF Fits
    <2>2. a < r.seq /\ r.seq <= top => r.seq <= p[r.block].seq
      BY Zenon DEF Exact
    <2>3. CASE p[r.block].seq # 0
      <3>1. PICK q \in f.recs : /\ q.block = r.block /\ q.seq = p[r.block].seq
                                /\ q.val = p[r.block].val
                                /\ q.seq <= top /\ a < q.seq /\ old.map[r.block] < q.val
        BY <1>0, <1>3, <2>3, Zenon
      <3>2. n.map[r.block] = q.val
        BY <1>0, <1>1, <2>3, <3>1, Zenon
      <3>3. (q.seq < r.seq => q.val < r.val) /\ (r.seq < q.seq => r.val < q.val)
            /\ (q.seq = r.seq => q.val = r.val)
        BY Zenon DEF Ordered
      <3> QED BY <1>0, <2>1, <2>2, <3>1, <3>2, <3>3
    <2>4. CASE p[r.block].seq = 0
      <3>1. n.map[r.block] = old.map[r.block]
        BY <1>0, <1>1, <2>4, Zenon
      <3> QED BY <1>0, <2>1, <2>2, <2>4, <3>1
    <2> QED BY <2>3, <2>4, Zenon
  <1>8. Sound(f, top, n)
    BY <1>0, <1>2, <1>7 DEF Sound, Covered
  <1> QED BY <1>1, <1>4, <1>5, <1>6, <1>8, Zenon DEF Adds

\* What the guest reads is in the root that is accepted, or still pending.
LEMMA ViewAfter ==
    ASSUME JournalInv, pc = "up", NEW root \in Root, Turns(root), NEW a \in Nat,
           a = Mark(file, root), NEW b \in Block
    PROVE  View(b) <= IF Retain(pending, a)[b].seq # 0 THEN Retain(pending, a)[b].val
                                                        ELSE root.map[b]
  <1>0. /\ pending \in [Block -> Version] /\ Exact(file, pending, ack, seq) /\ file \in File
        /\ View(b) \in Nat
    BY Holding, Zenon
  <1>1. pending[b].seq \in Nat /\ pending[b].val \in Nat /\ root.map[b] \in Nat
    BY <1>0, Zenon DEF Version, Root, Map
  <1>2. reader.map[b] <= root.map[b] /\ Fits(file, root)
    BY TurnsFit, Zenon DEF Sound
  <1>3. Retain(pending, a)[b] = IF pending[b].seq > a THEN pending[b] ELSE Clean
    BY Zenon DEF Retain
  <1>4. CASE pending[b].seq > a
    BY <1>0, <1>1, <1>3, <1>4, ViewIs
  <1>5. CASE ~ (pending[b].seq > a) /\ pending[b].seq # 0
    <2>1. [seq |-> pending[b].seq, block |-> b, val |-> pending[b].val] \in file.recs
      BY <1>0, <1>5, Zenon DEF Exact
    <2>2. PICK r \in file.recs : /\ r.block = b /\ r.seq = pending[b].seq
                                 /\ r.val = pending[b].val
      BY <2>1, Zenon
    <2>3. r.val <= root.map[b]
      BY <1>1, <1>2, <1>5, <2>2, Zenon DEF Fits
    <2>4. View(b) = r.val
      BY <1>5, <2>2, ViewIs, Zenon
    <2> QED BY <1>3, <1>5, <2>3, <2>4 DEF Clean
  <1>6. CASE pending[b].seq = 0
    <2>1. View(b) = reader.map[b]
      BY <1>6, ViewIs, Zenon
    <2> QED BY <1>1, <1>2, <1>3, <1>6, <2>1 DEF Clean
  <1> QED BY <1>4, <1>5, <1>6, Zenon

\* accept arrives at the mark of the root it turns to.
LEMMA AcceptMark ==
    ASSUME JournalInv, pc = "up", NEW root \in Root, Turns(root),
           root = reader \/ root.rev # reader.rev,
           Acceptable(root, file.id, base, ack, seq)
    PROVE  /\ Acked(root, base, ack) = Mark(file, root) /\ Mark(file, root) \in Nat
           /\ Retain(pending, Mark(file, root)) \in [Block -> Version]
           /\ Exact(file, Retain(pending, Mark(file, root)), Mark(file, root), seq)
  <1>1. /\ base = reader.rev /\ ack = Mark(file, reader) /\ ack \in Nat /\ seq \in Nat
        /\ pending \in [Block -> Version] /\ Exact(file, pending, ack, seq) /\ file \in File
    BY Holding, Zenon
  <1>2. Acked(root, base, ack) = Mark(file, root)
    BY <1>1, Zenon DEF Acked, Mark, Acceptable
  <1>3. ack <= Mark(file, root) /\ Mark(file, root) \in Nat
    BY TurnsFit, Zenon
  <1> QED BY <1>1, <1>2, <1>3, ExactAccept, Zenon

\* Reconciling with the root that was read, when nothing is captured.
LEMMA CaptureStays ==
    ASSUME JournalInv, ReplicateCapture, job' = Idle
    PROVE  JournalInv' /\ Settles
  <1> DEFINE root == job.next
             a == Acked(root, base, ack)
             p == Retain(pending, a)
             f == Compacted(file.id, root.rev, a, seq, p)
  <1>0. job.pc = "read" /\ UNCHANGED <<store, evicting, ids, pc, seq, guest>>
    BY Zenon DEF ReplicateCapture
  <1>1. pc = "up" /\ remote' = remote
    BY <1>0, Zenon DEF JournalInv, Closed, store
  <1>2. /\ root \in {reader, remote} /\ root \in Root /\ reader \in Root
        /\ \A b \in Block : job.want[b] <= View(b)
        /\ \A b \in Block : job.want[b] \in Nat
    BY <1>0, <1>1, Holding, Zenon DEF JournalInv, Working, Map
  <1>3. Turns(root) /\ Turns(reader)
    BY <1>1, <1>2, Holding, Zenon DEF Turns
  <1>4. Working' /\ job' \in [pc: {"idle", "read", "upload"}, next: Root, want: Map]
        /\ job'.next = Image /\ job'.pc # "upload"
    BY IdleIs, Zenon DEF Working
  <1>5. BarrierHolds /\ barrier \in Map
    BY Zenon DEF JournalInv, Saved, JournalTypeOK
  <1>6. CASE /\ failed' = TRUE
             /\ UNCHANGED <<file, synced, header, local, barrier>>
    <2>0. UNCHANGED <<base, ack, pending, reader>>
      BY <1>6, Zenon DEF header
    <2>1. Rewritten(reader, ack, pending)
      BY <1>0, <1>1, <1>3, <1>6, Holding, Leaves, Zenon
    <2>2. BarrierHolds'
      BY <1>1, <1>5, <1>6, Zenon DEF BarrierHolds
    <2> QED BY <1>0, <1>1, <1>4, <1>5, <1>6, <2>0, <2>1, <2>2, Holding, StayStep, Zenon
  <1>7. CASE /\ Acceptable(root, file.id, base, ack, seq) /\ Accept(root)
             /\ \/ failed' = TRUE /\ UNCHANGED <<file, synced, local, barrier>>
                \/ p = [b \in Block |-> Clean] /\ Finish(f)
    <2>1. root = reader \/ root.rev # reader.rev
      BY <1>1, <1>2, RemoteAhead, Zenon
    <2>2. /\ a = Mark(file, root) /\ a \in Nat /\ p \in [Block -> Version]
          /\ Exact(file, p, a, seq)
      BY <1>1, <1>2, <1>3, <1>7, <2>1, AcceptMark, Zenon
    <2>3. reader' = root /\ base' = root.rev /\ ack' = a /\ pending' = p
      BY <1>7, Zenon DEF Accept
    <2>4. \A b \in Block : /\ View(b) <= (IF p[b].seq # 0 THEN p[b].val ELSE root.map[b])
                           /\ root.map[b] <= remote.map[b]
                           /\ View(b) \in Nat /\ root.map[b] \in Nat /\ remote.map[b] \in Nat
      BY <1>1, <1>2, <1>3, <2>2, ViewAfter, Holding, TurnsFit, Zenon DEF Root, Map
    <2> HIDE DEF root, a, p, f
    <2>5. Rewritten(root, a, p)
      <3>1. CASE failed' = TRUE /\ UNCHANGED <<file, synced, local, barrier>>
        BY <1>0, <1>1, <1>2, <1>3, <2>2, <3>1, Leaves, Zenon
      <3>2. CASE Finish(f)
        <4>1. CompactOk(f) \/ CompactFail(f)
          BY <3>2, ZenonT(40) DEF Finish
        <4> QED BY <1>0, <1>1, <1>2, <1>3, <2>2, <4>1, Compacts, Zenon DEF f
      <3> QED BY <1>7, <3>1, <3>2, Zenon
    <2>6. barrier' \in Map /\ BarrierHolds'
      <3>1. CASE UNCHANGED barrier
        BY <1>1, <1>5, <3>1, Zenon DEF BarrierHolds
      <3>2. CASE p = [b \in Block |-> Clean] /\ Barrier(job.want)
        <4>1. \A b \in Block : /\ job.want[b] <= remote.map[b] /\ barrier[b] <= remote.map[b]
                               /\ barrier[b] \in Nat
          <5>1. \A b \in Block : p[b].seq = 0
            BY <3>2, Zenon DEF Clean
          <5> QED BY <1>2, <1>5, <2>4, <5>1 DEF BarrierHolds, Map
        <4> QED BY <1>1, <1>2, <3>2, <4>1, Zenon DEF Barrier, BarrierHolds, Map, Larger
      <3> QED BY <1>7, <3>1, <3>2, Zenon DEF Finish
    <2> QED BY <1>0, <1>1, <1>2, <1>4, <2>2, <2>3, <2>5, <2>6, StayStep, ZenonT(40)
  <1>8. job'.pc = "idle"
    BY IdleIs, Zenon
  <1>9. ~ \E x, y : job' = [pc |-> "upload", next |-> x, want |-> y]
    BY <1>8
  <1> QED BY <1>6, <1>7, <1>9, Zenon DEF ReplicateCapture

\* Replication captures what is pending and starts its upload.
LEMMA CaptureUploads ==
    ASSUME JournalInv, ReplicateCapture, job' # Idle
    PROVE  JournalInv' /\ Settles
  <1> DEFINE root == job.next
             a == Acked(root, base, ack)
             p == Retain(pending, a)
             next == [rev |-> root.rev + 1, id |-> file.id, seq |-> seq,
                      map |-> [b \in Block |-> IF p[b].seq # 0 THEN p[b].val ELSE root.map[b]]]
  <1>0. /\ job.pc = "read" /\ UNCHANGED <<store, evicting, ids, pc, seq, guest>>
        /\ Acceptable(root, file.id, base, ack, seq) /\ Accept(root)
        /\ p # [b \in Block |-> Clean] /\ synced' = Top(file) /\ local' = seq
        /\ job' = [pc |-> "upload", next |-> next, want |-> job.want]
        /\ UNCHANGED <<file, failed, barrier>>
    BY Zenon DEF ReplicateCapture, SyncFile
  <1>1. pc = "up" /\ UNCHANGED <<remote, late>>
    BY <1>0, Zenon DEF JournalInv, Closed, store
  <1>2. /\ root \in {reader, remote} /\ root \in Root /\ reader \in Root
        /\ \A b \in Block : job.want[b] <= View(b)
        /\ \A b \in Block : job.want[b] \in Nat
        /\ job.want \in Map
    BY <1>0, <1>1, Holding, Zenon DEF JournalInv, Working, Map
  <1>3. Turns(root)
    BY <1>1, <1>2, Holding, Zenon DEF Turns
  <1>4. root = reader \/ root.rev # reader.rev
    BY <1>1, <1>2, RemoteAhead, Zenon
  <1>5. /\ a = Mark(file, root) /\ a \in Nat /\ p \in [Block -> Version]
        /\ Exact(file, p, a, seq)
    BY <1>0, <1>1, <1>2, <1>3, <1>4, AcceptMark, Zenon
  <1>6. reader' = root /\ base' = root.rev /\ ack' = a /\ pending' = p
    BY <1>0, Zenon DEF Accept
  <1>7. \A b \in Block : View(b) <= (IF p[b].seq # 0 THEN p[b].val ELSE root.map[b])
    BY <1>1, <1>2, <1>3, <1>5, ViewAfter, Zenon
  <1>8. \E b \in Block : p[b].seq # 0
    <2>1. \A b \in Block : p[b].seq = 0 => p[b] = Clean
      <3>1. \A b \in Block : p[b] = IF pending[b].seq > a THEN pending[b] ELSE Clean
        BY Zenon DEF Retain
      <3>2. \A b \in Block : pending[b].seq \in Nat
        BY <1>1, Holding, Zenon DEF Version
      <3> HIDE DEF a, p
      <3> QED BY <1>5, <3>1, <3>2
    <2> HIDE DEF p
    <2> QED BY <1>0, <1>5, <2>1, Zenon
  <1>9. /\ job'.pc = "upload" /\ job'.next = next /\ job'.want = job.want
        /\ next.rev = root.rev + 1 /\ next.id = file.id
        /\ \A b \in Block : next.map[b] = IF p[b].seq # 0 THEN p[b].val ELSE root.map[b]
    BY <1>0, Zenon
  <1>10. next = [rev |-> root.rev + 1, id |-> file.id, seq |-> seq,
                 map |-> [b \in Block |-> IF p[b].seq # 0 THEN p[b].val ELSE root.map[b]]]
    BY Zenon
  <1>11. job' = [pc |-> "upload", next |-> next, want |-> job.want]
    BY <1>0, Zenon
  <1> HIDE DEF root, a, p, next
  <1>12. /\ file \in File /\ file.kind = "ok" /\ Ordered(file) /\ seq \in Nat
         /\ file.seq <= seq /\ file.seq \in Nat /\ Lim \in Nat /\ Lim <= seq
         /\ file.id <= ids /\ synced \in Nat /\ late \in SUBSET Root
         /\ (seq <= file.seq \/ \E r \in file.recs : r.seq = seq)
    BY <1>1, LimIs, Zenon DEF JournalInv, JournalTypeOK, Filed, Opened, File
  <1>13. Fits(file, root) /\ file.ack <= a /\ a <= seq
    <2>1. /\ Fits(file, root) /\ file.ack <= Mark(file, root)
          /\ Mark(file, root) <= Lim \/ Mark(file, root) <= file.seq
      BY <1>1, <1>2, <1>3, <1>12, TurnsFit, ZenonT(40) DEF Sound, Covered
    <2> QED BY <1>5, <1>12, <2>1, Ordering, Zenon
  <1>14. next \in Root /\ Adds(file, seq, root, next)
    BY <1>2, <1>5, <1>8, <1>10, <1>12, <1>13, UploadAdds
  <1>15. Rewritten(root, a, p)
    BY <1>0, <1>1, <1>2, <1>3, <1>5, Leaves, Zenon
  <1>16. Lim' = seq
    <2>1. Top(file) \in Nat /\ (seq < Top(file) \/ (seq = Top(file) /\ ~ (seq < seq)))
      <3>1. Top(file) \in Nat /\ seq <= Top(file)
        BY <1>1, <1>12, TopIs
      <3> QED BY <1>12, <3>1, Ordering, Zenon
    <2> QED BY <1>0, <1>1, <1>12, <2>1, Zenon DEF Lim
  <1>17. \A n \in late' \cup {job'.next} :
            n.id <= ids /\ \A b \in Block : n.map[b] \in written[b]
    <2>1. \A b \in Block : next.map[b] \in written[b]
      <3>1. \A b \in Block : root.map[b] \in written[b]
        BY <1>2, Known, Zenon
      <3>2. \A b \in Block : p[b].seq # 0 => p[b].val \in written[b]
        <4>1. \A r \in file.recs : r.val \in written[r.block]
          BY Zenon DEF JournalInv, Genuine
        <4>2. \A b \in Block : p[b].seq # 0 =>
                 [seq |-> p[b].seq, block |-> b, val |-> p[b].val] \in file.recs
          BY <1>5, Zenon DEF Exact
        <4> QED BY <4>1, <4>2, Zenon
      <3> QED BY <1>9, <3>1, <3>2, Zenon
    <2> QED BY <1>1, <1>9, <1>12, <2>1, Known, Zenon
  <1>18. \A n \in late' : n.rev <= remote'.rev + 1
    BY <1>1, Zenon DEF JournalInv, Published
  <1>19. \A n \in InFlight' : \/ remote' = remote /\ n \in InFlight
                              \/ root = remote' /\ Follows(file', Lim', remote', n)
    <2> SUFFICES ASSUME NEW n \in InFlight', n \notin InFlight
                 PROVE  root = remote' /\ Follows(file', Lim', remote', n)
      BY <1>1, Zenon
    <2>1. n = next /\ next.rev = remote.rev + 1
      BY <1>1, <1>9, Zenon DEF InFlight, Current
    <2>2. root.rev = remote.rev
      <3>1. root.rev \in Nat /\ remote.rev \in Nat /\ root.rev + 1 = remote.rev + 1
        BY <1>2, <1>9, <2>1, <1>1, Holding, Zenon DEF Root
      <3> QED BY <3>1
    <2>3. root = remote
      BY <1>1, <1>2, <2>2, RemoteAhead, Zenon
    <2> QED BY <1>0, <1>1, <1>14, <1>16, <2>1, <2>3, Zenon DEF Follows
  <1>20. Working'
    <2>1. \A b \in Block : View(b) \in Nat /\ next.map[b] \in Nat
      BY <1>1, <1>14, Holding, Zenon DEF Root, Map
    <2>2. \A b \in Block : job.want[b] <= next.map[b]
      BY <1>2, <1>7, <1>9, <2>1
    <2> QED BY <1>6, <1>9, <2>2, Zenon DEF Working
  <1>21. BarrierHolds' /\ barrier' \in Map
    BY <1>0, <1>1, Zenon DEF JournalInv, Saved, JournalTypeOK, BarrierHolds
  <1>22. job' \in [pc: {"idle", "read", "upload"}, next: Root, want: Map]
    BY <1>2, <1>11, <1>14, Zenon
  <1> QED BY <1>0, <1>1, <1>2, <1>3, <1>5, <1>6, <1>12, <1>15, <1>17, <1>18, <1>19, <1>20,
             <1>21, <1>22, TurnStep, ZenonT(40)

=============================================================================
