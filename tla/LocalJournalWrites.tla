------------------------- MODULE LocalJournalWrites -------------------------
(****************************************************************************)
(* The invariant is kept by writes, flushes and barriers, by the steps of   *)
(* replication other than the capture, by offline compaction of the remote  *)
(* root, and when one of these fails. A record is appended to the journal   *)
(* as it is or, when the file has grown too long, to its compacted form.    *)
(****************************************************************************)
EXTENDS LocalJournalOpens

\* The file g, durable up to w, that a write is appended to: the journal as it is, or
\* compacted.
Base(g, w) ==
    /\ g \in File /\ g.kind = "ok" /\ w \in Nat /\ w <= seq /\ Keeps(file, Lim, g, w, ack)
    /\ Exact(g, pending, ack, seq)
    /\ g = file \/ (g.base = base /\ g.ack = ack)
    /\ \A r \in g.recs : g.ack < r.seq /\ r.seq <= seq
    /\ g.ack <= ack /\ g.ack <= g.seq /\ g.seq <= seq
    /\ w <= g.seq \/ \E r \in g.recs : r.seq = w
    /\ seq <= g.seq \/ \E r \in g.recs : r.seq = seq
    /\ \A b \in Block : \A v \in Nat : Newest(file, remote, b, v) => Newest(g, remote, b, v)

\* An open journal knows how far it is durable.
LEMMA Healthy ==
    ASSUME JournalInv, Up
    PROVE  /\ pc = "up" /\ Lim = synced /\ synced <= seq /\ synced \in Nat /\ seq \in Nat
           /\ (\A r \in file.recs : r.seq <= seq) /\ local <= synced /\ local \in Nat
           /\ file.seq <= seq /\ file.seq \in Nat /\ ack <= seq /\ ack \in Nat
           /\ file.ack <= ack /\ file.ack \in Nat /\ file.ack <= file.seq
  <1>1. /\ pc = "up" /\ synced \in Nat /\ seq \in Nat /\ local <= synced /\ local \in Nat
        /\ (\A r \in file.recs : r.seq <= seq) /\ file.seq <= seq /\ file.kind = "ok"
    BY Zenon DEF JournalInv, JournalTypeOK, Opened, Up
  <1>2. file.seq \in Nat /\ file.ack \in Nat /\ ack \in Nat /\ file.ack <= file.seq
    BY Zenon DEF JournalInv, JournalTypeOK, File, Filed
  <1>3. synced <= file.seq \/ \E r \in file.recs : r.seq = synced
    BY <1>1, Zenon DEF JournalInv, Filed
  <1>4. synced <= seq
    BY <1>1, <1>2, <1>3
  <1>5. ack = Mark(file, reader) /\ file.ack <= Mark(file, reader)
    BY <1>1, Zenon DEF JournalInv, Opened, Reading, Sound, Covered
  <1>6. ack <= seq
    BY <1>1, <1>2, <1>5, RemoteAhead, RemoteWithin, Ordering, Zenon
  <1> QED BY <1>1, <1>2, <1>4, <1>5, <1>6 DEF Lim

\* The journal as it is, and its compacted form, can be appended to.
LEMMA BaseIs ==
    ASSUME JournalInv, Up, NEW g, NEW w, (g = file /\ w = synced) \/ (g = Here /\ w = seq)
    PROVE  Base(g, w)
  <1>1. /\ file \in File /\ file.kind = "ok" /\ Lim \in Nat /\ remote \in Root
        /\ pending \in [Block -> Version] /\ Exact(file, pending, ack, seq) /\ Ordered(file)
        /\ Fits(file, remote) /\ base \in Nat
        /\ (\A r \in file.recs : file.ack < r.seq /\ r.seq \in Nat)
        /\ (synced <= file.seq \/ \E r \in file.recs : r.seq = synced)
        /\ (seq <= file.seq \/ \E r \in file.recs : r.seq = seq)
    BY Healthy, Holding, LimIs, Zenon DEF JournalInv, JournalTypeOK, Filed, Opened, Published, Sound,
                                    File, Record
  <1>2. CASE g = file /\ w = synced
    <2>1. Keeps(file, Lim, file, synced, ack)
      BY <1>1, Healthy, SameKeeps
    <2> QED BY <1>1, <1>2, <2>1, Healthy, Zenon DEF Base
  <1>3. CASE g = Here /\ w = seq
    <2>0. \A lim \in Nat : lim <= seq => Shrunk(file, lim, g, pending, base, ack, seq)
      BY <1>1, <1>3, Healthy, CompactedKeeps, Zenon DEF Here
    <2>1. /\ g \in File /\ g.kind = "ok" /\ g.id = file.id /\ g.base = base /\ g.ack = ack
          /\ g.seq = seq /\ (\A r \in g.recs : ack < r.seq /\ r.seq <= seq)
          /\ Exact(g, pending, ack, seq) /\ Keeps(file, Lim, g, seq, ack)
      BY <1>1, <2>0, Healthy, Zenon DEF Shrunk
    <2>2. Keeps(file, seq, g, seq, ack)
      BY <2>0, Healthy, Ordering, Zenon DEF Shrunk
    <2>3. ack <= Mark(file, remote)
      BY Healthy, Holding, RemoteAhead, Zenon
    <2>4. \A b \in Block : \A v \in Nat : Newest(file, remote, b, v) => Newest(g, remote, b, v)
      BY <1>1, <2>1, <2>2, <2>3, Healthy, KeepsNewest, Zenon
    <2> QED BY <1>3, <2>1, <2>4, Healthy, Ordering, Zenon DEF Base
  <1> QED BY <1>2, <1>3, Zenon

\* The roots fit that file as they fit the journal.
LEMMA BaseFits ==
    ASSUME JournalInv, Up, NEW g, NEW w, Base(g, w), NEW root \in {remote, reader}
    PROVE  /\ Ordered(g) /\ Sound(g, w, root) /\ Mark(g, root) = Mark(file, root)
           /\ \A n \in Root : Follows(file, Lim, root, n) => Follows(g, w, root, n)
           /\ \A b \in Block : \A v \in Nat :
                 Firm(file, Lim, root, b, v) => Firm(g, w, root, b, v)
           /\ Agreed(g, root) /\ g.base <= root.rev
  <1>1. /\ file \in File /\ Lim \in Nat /\ Ordered(file) /\ file.kind = "ok" /\ pc = "up"
        /\ root \in Root /\ reader \in Root /\ remote \in Root
        /\ ack = Mark(file, reader) /\ base = reader.rev
        /\ reader.rev \in Nat /\ remote.rev \in Nat
    BY Holding, LimIs, Healthy, Zenon DEF JournalInv, JournalTypeOK, Filed
  <1>2. Sound(file, Lim, root) /\ Agreed(file, root) /\ file.base <= root.rev
    BY <1>1, Zenon DEF JournalInv, Published, Reading
  <1>3. /\ g \in File /\ w \in Nat /\ Keeps(file, Lim, g, w, ack) /\ g.ack <= ack
        /\ ack \in Nat /\ g.ack \in Nat /\ (g = file \/ (g.base = base /\ g.ack = ack))
    BY Healthy, Zenon DEF Base, File
  <1>4. ack <= Mark(file, root) /\ Mark(file, root) \in Nat
    BY <1>1, <1>3, RemoteAhead, Ordering, ZenonT(40)
  <1>5. g.ack <= Mark(file, root)
    BY <1>3, <1>4, Ordering, Zenon
  <1>6. Fits(file, root)
    BY <1>2, Zenon DEF Sound
  <1>7. Ordered(g)
    BY <1>1, <1>3, Zenon DEF Ordered, Keeps
  <1>8. Sound(g, w, root) /\ Mark(g, root) = Mark(file, root)
    BY <1>1, <1>2, <1>3, <1>5, KeepsSound
  <1>9. \A n \in Root : Follows(file, Lim, root, n) => Follows(g, w, root, n)
    BY <1>1, <1>3, <1>4, <1>5, <1>6, KeepsFollows, Zenon
  <1>10. \A b \in Block : \A v \in Nat :
            Firm(file, Lim, root, b, v) => Firm(g, w, root, b, v)
    BY <1>1, <1>3, <1>4, <1>6, KeepsFirm, Zenon
  <1>11. Agreed(g, root) /\ g.base <= root.rev
    <2>1. CASE g = file
      BY <1>2, <2>1, Zenon
    <2>2. CASE g.base = base /\ g.ack = ack
      <3>1. root.rev = reader.rev => root = reader
        BY <1>1, RemoteAhead, Zenon
      <3>2. reader.rev <= root.rev
        BY <1>1, RemoteAhead, Ordering, Zenon
      <3> QED BY <1>1, <1>8, <2>2, <3>1, <3>2, Zenon DEF Agreed
    <2> QED BY <1>3, <2>1, <2>2, Zenon
  <1> QED BY <1>7, <1>8, <1>9, <1>10, <1>11, Zenon

\* An append of records of the chunks P to g: a write of B (all of them), or a failed
\* one.
Appends(g, w, B, P) ==
    /\ Base(g, w) /\ B \in SUBSET Block /\ P \subseteq B /\ Sent(P)
    /\ Cardinality(Dirty \cup B) <= DirtyLimit
    /\ file' = With(g, P, seq + 1, last + 1) /\ synced' = w
    /\ local' = w \/ (local' = local /\ w = synced)
    /\ \/ /\ P = B /\ B # {} /\ failed' = failed /\ seq' = seq + 1
          /\ pending' = [b \in Block |-> IF b \in B THEN [seq |-> seq + 1, val |-> last + 1]
                                                    ELSE pending[b]]
       \/ failed' = TRUE /\ UNCHANGED <<seq, pending>>
    /\ UNCHANGED <<store, evicting, ids, pc, base, ack, reader, job>>

\* What the appended records do not disturb.
LEMMA AppendKeeps ==
    ASSUME JournalInv, Up, NEW g, NEW w, NEW B, NEW P, Appends(g, w, B, P)
    PROVE  /\ file' \in File /\ Grows(g, file', seq + 1, last + 1) /\ file'.base = g.base
           /\ (\A r \in file'.recs \ g.recs : r.block \in P)
           /\ (\A b \in P : [seq |-> seq + 1, block |-> b, val |-> last + 1] \in file'.recs)
           /\ Before(g, w, seq + 1, last + 1)
           /\ Ordered(file') /\ Lim' = w
           /\ \A root \in {remote, reader} :
                 /\ Sound(file', w, root) /\ Mark(file', root) = Mark(file, root)
                 /\ Agreed(file', root) /\ file'.base <= root.rev
                 /\ \A n \in {remote, job.next} \cup late :
                       Follows(file, Lim, root, n) => Follows(file', w, root, n)
                 /\ \A b \in Block : \A v \in Nat :
                       Firm(file, Lim, root, b, v) => Firm(file', w, root, b, v)
  <1>1. /\ g \in File /\ g.kind = "ok" /\ w \in Nat /\ w <= seq /\ Keeps(file, Lim, g, w, ack)
        /\ Base(g, w) /\ P \in SUBSET Block /\ g.seq <= seq /\ g.seq \in Nat
        /\ (\A r \in g.recs : r.seq <= seq /\ r.seq \in Nat)
        /\ file' = With(g, P, seq + 1, last + 1) /\ synced' = w /\ pc' = pc
        /\ (seq' = seq \/ seq' = seq + 1)
    BY Zenon DEF Appends, Base, File, Record
  <1>2. seq \in Nat /\ last \in Nat /\ pc = "up" /\ seq + 1 \in Nat /\ last + 1 \in Nat
    BY Healthy, Ordering, Successor, Zenon DEF JournalInv, JournalTypeOK
  <1>3. /\ file' \in File /\ Grows(g, file', seq + 1, last + 1) /\ file'.base = g.base
        /\ (\A r \in file'.recs \ g.recs : r.block \in P)
        /\ (\A b \in P : [seq |-> seq + 1, block |-> b, val |-> last + 1] \in file'.recs)
    <2> DEFINE s == seq + 1
               v == last + 1
    <2>1. g \in File /\ g.kind = "ok" /\ P \in SUBSET Block /\ s \in Nat /\ v \in Nat
      BY <1>1, <1>2, Zenon
    <2>2. file' = With(g, P, s, v)
      BY <1>1, Zenon
    <2> HIDE DEF s, v
    <2>3. /\ With(g, P, s, v) \in File /\ Grows(g, With(g, P, s, v), s, v)
          /\ With(g, P, s, v).base = g.base
          /\ \A r \in With(g, P, s, v).recs \ g.recs : r.block \in P
          /\ \A b \in P : [seq |-> s, block |-> b, val |-> v] \in With(g, P, s, v).recs
      BY <2>1, WithGrows, Zenon
    <2>4. /\ file' \in File /\ Grows(g, file', s, v) /\ file'.base = g.base
          /\ (\A r \in file'.recs \ g.recs : r.block \in P)
          /\ (\A b \in P : [seq |-> s, block |-> b, val |-> v] \in file'.recs)
      BY <2>2, <2>3, Zenon
    <2> QED BY <2>4, Zenon DEF s, v
  <1>4. /\ \A n \in {remote, reader, job.next} \cup late :
               n \in Root /\ \A b \in Block : n.map[b] < last + 1
        /\ \A r \in file.recs : r.val < last + 1
    BY Older, Zenon DEF JournalInv
  <1>5. Before(g, w, seq + 1, last + 1)
    <2>1. g.recs \subseteq file.recs
      BY <1>1, Zenon DEF Keeps
    <2> QED BY <1>1, <1>2, <1>4, <2>1, Ordering, Successor, ZenonT(40) DEF Before
  <1>6. Lim' = w
    BY <1>1, <1>2 DEF Lim
  <1>7. Ordered(file')
    BY <1>1, <1>2, <1>3, <1>5, BaseFits, GrowsOrdered, Zenon
  <1>8. ASSUME NEW root \in {remote, reader}
        PROVE  /\ Sound(file', w, root) /\ Mark(file', root) = Mark(file, root)
               /\ Agreed(file', root) /\ file'.base <= root.rev
               /\ \A n \in {remote, job.next} \cup late :
                     Follows(file, Lim, root, n) => Follows(file', w, root, n)
               /\ \A b \in Block : \A v \in Nat :
                     Firm(file, Lim, root, b, v) => Firm(file', w, root, b, v)
    <2>1. /\ Sound(g, w, root) /\ Mark(g, root) = Mark(file, root)
          /\ \A n \in Root : Follows(file, Lim, root, n) => Follows(g, w, root, n)
          /\ \A b \in Block : \A v \in Nat :
                Firm(file, Lim, root, b, v) => Firm(g, w, root, b, v)
          /\ Agreed(g, root) /\ g.base <= root.rev
      BY <1>1, BaseFits, Zenon
    <2>2. root \in Root /\ \A b \in Block : root.map[b] < last + 1
      BY <1>4, Zenon
    <2>3. Sound(file', w, root) /\ Mark(file', root) = Mark(file, root)
      BY <1>1, <1>2, <1>3, <1>5, <2>1, <2>2, GrowsSound, ZenonT(40)
    <2>4. \A n \in {remote, job.next} \cup late :
             Follows(file, Lim, root, n) => Follows(file', w, root, n)
      BY <1>1, <1>2, <1>3, <1>4, <1>5, <2>1, <2>2, GrowsFollows, ZenonT(40)
    <2>5. \A b \in Block : \A v \in Nat :
             Firm(file, Lim, root, b, v) => Firm(file', w, root, b, v)
      BY <1>3, <2>1, GrowsFirm, Zenon
    <2>6. Agreed(file', root) /\ file'.base <= root.rev
      BY <1>3, <2>1, <2>3, Zenon DEF Agreed, Grows
    <2> QED BY <2>3, <2>4, <2>5, <2>6, Zenon
  <1> QED BY <1>3, <1>5, <1>6, <1>7, <1>8, Zenon

\* The pending versions after it are those of its records.
LEMMA AppendExact ==
    ASSUME JournalInv, Up, NEW g, NEW w, NEW B, NEW P, Appends(g, w, B, P)
    PROVE  /\ pending' \in [Block -> Version] /\ Exact(file', pending', ack, seq')
           /\ \A b \in Block : View(b) <= View(b)'
           /\ Cardinality(Blocks(file', ack)) <= DirtyLimit
  <1>1. /\ file' \in File /\ (\A r \in file'.recs \ g.recs : r.block \in P)
        /\ (\A b \in P : [seq |-> seq + 1, block |-> b, val |-> last + 1] \in file'.recs)
        /\ g.recs \subseteq file'.recs
        /\ (\A r \in file'.recs \ g.recs : r.seq = seq + 1)
    BY AppendKeeps, Zenon DEF Grows
  <1>2. /\ Exact(g, pending, ack, seq) /\ P \subseteq B /\ B \in SUBSET Block
        /\ reader' = reader /\ ack' = ack
        /\ (\A r \in g.recs : r.seq <= seq)
    BY Zenon DEF Appends, Base
  <1>3. /\ pending \in [Block -> Version] /\ seq \in Nat /\ ack \in Nat /\ ack <= seq
        /\ last \in Nat /\ (\A r \in file'.recs : r.seq \in Nat /\ r.block \in Block)
        /\ (\A b \in Block : View(b) \in Nat /\ pending[b].seq \in Nat)
    BY <1>1, Healthy, Holding, Zenon DEF JournalInv, JournalTypeOK, File, Record, Version
  <1>4. pending' \in [Block -> Version] /\ Exact(file', pending', ack, seq')
    <2>1. CASE failed' = TRUE /\ UNCHANGED <<seq, pending>>
      <3>1. \A r \in file'.recs : r.seq <= seq => r \in g.recs
        BY <1>1, <1>3
      <3>2. Exact(file', pending, ack, seq)
        BY <1>1, <1>2, <1>3, <3>1, Zenon DEF Exact
      <3> QED BY <1>3, <2>1, <3>2, Zenon
    <2>2. CASE /\ P = B /\ seq' = seq + 1
               /\ pending' = [b \in Block |-> IF b \in B
                                              THEN [seq |-> seq + 1, val |-> last + 1]
                                              ELSE pending[b]]
      <3>1. pending' \in [Block -> Version]
        BY <1>3, <2>2, Ordering, Successor, Zenon DEF Version
      <3>2. /\ \A b \in B : pending'[b].seq = seq + 1 /\ pending'[b].val = last + 1
            /\ \A b \in Block \ B : pending'[b] = pending[b]
        BY <1>2, <2>2, Zenon
      <3>3. ASSUME NEW b \in Block, pending'[b].seq # 0
            PROVE  /\ [seq |-> pending'[b].seq, block |-> b, val |-> pending'[b].val] \in file'.recs
                   /\ ack < pending'[b].seq /\ pending'[b].seq <= seq + 1
        <4>1. CASE b \in B
          BY <1>1, <1>3, <2>2, <3>2, <4>1, Ordering, Successor, ZenonT(40)
        <4>2. CASE b \notin B
          <5>1. /\ [seq |-> pending[b].seq, block |-> b, val |-> pending[b].val] \in g.recs
                /\ ack < pending[b].seq /\ pending[b].seq <= seq
            BY <1>2, <3>2, <3>3, <4>2, Zenon DEF Exact
          <5> QED BY <1>1, <1>3, <3>2, <4>2, <5>1
        <4> QED BY <4>1, <4>2, Zenon
      <3>4. ASSUME NEW r \in file'.recs, ack < r.seq, r.seq <= seq + 1
            PROVE  r.seq <= pending'[r.block].seq
        <4>1. CASE r.block \in B
          BY <1>3, <3>2, <3>4, <4>1, Zenon
        <4>2. CASE r.block \notin B
          <5>1. r \in g.recs
            BY <1>1, <2>2, <4>2, Zenon
          <5>2. r.seq <= pending[r.block].seq
            BY <1>2, <3>4, <5>1, Zenon DEF Exact
          <5> QED BY <1>3, <3>2, <4>2, <5>2, Zenon
        <4> QED BY <4>1, <4>2, Zenon
      <3> QED BY <2>2, <3>1, <3>3, <3>4, Zenon DEF Exact
    <2> QED BY <2>1, <2>2, Zenon DEF Appends
  <1>5. ASSUME NEW b \in Block
        PROVE  View(b) <= View(b)'
    <2>0. View(b)' = IF pending'[b].seq # 0 THEN pending'[b].val ELSE reader.map[b]
      BY <1>2, Zenon DEF View, Dirty
    <2>1. CASE pending'[b] = pending[b]
      BY <1>3, <2>0, <2>1, ViewIs
    <2>2. CASE pending'[b] = [seq |-> seq + 1, val |-> last + 1]
      <3>1. View(b)' = last + 1
        BY <1>3, <2>0, <2>2
      <3>2. View(b) \in written[b] /\ \A v \in written[b] : v <= last
        BY Serves, Restores, Zenon DEF Up, Standing, JournalInv, Genuine
      <3> QED BY <1>3, <3>1, <3>2
    <2> QED BY <1>2, <2>1, <2>2, Zenon DEF Appends
  <1>6. Cardinality(Blocks(file', ack)) <= DirtyLimit
    <2>1. Blocks(file', ack) \subseteq Dirty \cup B
      <3> SUFFICES ASSUME NEW r \in file'.recs, r.seq > ack
                   PROVE  r.block \in Dirty \cup B
        BY Zenon DEF Blocks
      <3>1. CASE r \in g.recs
        <4>1. r.seq <= pending[r.block].seq
          BY <1>2, <1>3, <3>1, Zenon DEF Exact
        <4>2. pending[r.block].seq # 0
          BY <1>3, <4>1
        <4> QED BY <1>3, <4>2, Zenon DEF Dirty
      <3>2. CASE r \notin g.recs
        BY <1>1, <1>2, <3>2, Zenon
      <3> QED BY <3>1, <3>2, Zenon
    <2>2. Dirty \cup B \subseteq Block
      BY <1>2, Zenon DEF Dirty
    <2>3. Cardinality(Blocks(file', ack)) <= Cardinality(Dirty \cup B)
      BY <2>1, <2>2, Counts, Zenon DEF Counting
    <2>4. /\ Cardinality(Blocks(file', ack)) \in Nat /\ Cardinality(Dirty \cup B) \in Nat
          /\ DirtyLimit \in Nat
      BY <2>1, <2>2, Counts, JournalAssumption, Zenon DEF Counting
    <2>5. Cardinality(Dirty \cup B) <= DirtyLimit
      BY Zenon DEF Appends
    <2> QED BY <2>3, <2>4, <2>5, Ordering, Zenon
  <1> QED BY <1>4, <1>5, <1>6, Zenon

\* An append keeps the invariant.
LEMMA AppendInv ==
    ASSUME JournalInv, Up, NEW g, NEW w, NEW B, NEW P, Appends(g, w, B, P)
    PROVE  JournalInv'
  <1>0. /\ UNCHANGED <<remote, late, evicting, ids, pc, base, ack, reader, job, stable, barrier>>
        /\ pc = "up" /\ synced' = w /\ Base(g, w) /\ P \subseteq B /\ B \subseteq Block
        /\ last' = last + 1
        /\ written' = [b \in Block |-> IF b \in P THEN written[b] \cup {last + 1} ELSE written[b]]
    BY Zenon DEF Appends, Sent, store, Up
  <1>1. /\ file' \in File /\ Grows(g, file', seq + 1, last + 1)
        /\ (\A r \in file'.recs \ g.recs : r.block \in P)
        /\ (\A b \in P : [seq |-> seq + 1, block |-> b, val |-> last + 1] \in file'.recs)
        /\ Ordered(file') /\ Lim' = w
    BY AppendKeeps, Zenon
  <1>2. \A root \in {remote, reader} :
           /\ Sound(file', w, root) /\ Mark(file', root) = Mark(file, root)
           /\ Agreed(file', root) /\ file'.base <= root.rev
           /\ \A n \in {remote, job.next} \cup late :
                 Follows(file, Lim, root, n) => Follows(file', w, root, n)
           /\ \A b \in Block : \A v \in Nat :
                 Firm(file, Lim, root, b, v) => Firm(file', w, root, b, v)
    BY AppendKeeps, Zenon
  <1>3. /\ pending' \in [Block -> Version] /\ Exact(file', pending', ack, seq')
        /\ (\A b \in Block : View(b) <= View(b)')
        /\ Cardinality(Blocks(file', ack)) <= DirtyLimit
    BY AppendExact, Zenon
  <1>4. /\ g \in File /\ w \in Nat /\ w <= seq /\ g.recs \subseteq file.recs /\ g.id = file.id
        /\ (\A r \in g.recs : g.ack < r.seq /\ r.seq <= seq /\ r.seq \in Nat)
        /\ g.ack <= g.seq /\ g.seq <= seq /\ g.seq \in Nat /\ g.ack \in Nat
        /\ (w <= g.seq \/ \E r \in g.recs : r.seq = w)
        /\ (seq <= g.seq \/ \E r \in g.recs : r.seq = seq)
    BY <1>0, Zenon DEF Base, Keeps, File, Record
  <1>5. /\ file'.kind = "ok" /\ file'.id = file.id /\ file'.ack = g.ack /\ file'.seq = g.seq
        /\ g.recs \subseteq file'.recs
        /\ \A r \in file'.recs \ g.recs : r.seq = seq + 1 /\ r.val = last + 1
    BY <1>1, <1>4, Zenon DEF Grows
  <1>6. /\ seq \in Nat /\ last \in Nat /\ ack \in Nat /\ seq <= last /\ Lim \in Nat
        /\ local <= synced /\ synced <= seq /\ synced \in Nat /\ local \in Nat
        /\ file.kind = "ok" /\ file.id <= ids /\ failed \in BOOLEAN
        /\ written \in [Block -> SUBSET Nat]
    BY <1>0, Healthy, Holding, LimIs, Zenon DEF JournalInv, JournalTypeOK, Opened, Filed
  <1>7. /\ seq' \in Nat /\ seq <= seq' /\ seq' <= seq + 1
        /\ local' \in Nat /\ local' <= w /\ failed' \in BOOLEAN
        /\ (~ failed' => seq' = seq + 1)
        /\ (seq' = seq \/ (seq' = seq + 1 /\ P # {}))
    <2>1. local' = w \/ (local' = local /\ w = synced)
      BY Zenon DEF Appends
    <2>2. \/ P # {} /\ failed' = failed /\ seq' = seq + 1
          \/ failed' = TRUE /\ seq' = seq
      BY Zenon DEF Appends
    <2>3. local' \in Nat /\ local' <= w
      BY <1>4, <1>6, <2>1, Ordering, ZenonT(40)
    <2>4. failed' \in BOOLEAN /\ (~ failed' => seq' = seq + 1)
      BY <1>6, <2>2, Zenon
    <2>5. seq' \in Nat /\ seq <= seq' /\ seq' <= seq + 1
      BY <1>6, <2>2
    <2> QED BY <2>2, <2>3, <2>4, <2>5, Zenon
  <1>8. \A b \in Block : /\ written'[b] \subseteq Nat /\ written[b] \subseteq written'[b]
                         /\ \A v \in written'[b] : v \in written[b] \/ v = last + 1
                         /\ b \in P => last + 1 \in written'[b]
    BY <1>0, <1>6
  <1>9. JournalTypeOK'
    <2>1. written' \in [Block -> SUBSET Nat]
      BY <1>0, <1>6, Ordering, Successor, ZenonT(40)
    <2>2. last' \in Nat
      BY <1>0, <1>6, Ordering, Successor, Zenon
    <2> QED BY <1>0, <1>1, <1>3, <1>4, <1>6, <1>7, <2>1, <2>2, ZenonT(40) DEF JournalInv, JournalTypeOK
  <1>10. Genuine'
    <2>1. /\ \A b \in Block : 0 \in written[b] /\ \A v \in written[b] : v <= last
          /\ \A root \in {remote, reader, job.next} \cup late :
                root.id <= ids /\ \A b \in Block : root.map[b] \in written[b]
          /\ \A r \in file.recs : 0 < r.seq /\ r.seq <= last /\ r.val \in written[r.block]
      BY Zenon DEF JournalInv, Genuine
    <2>2. \A b \in Block : 0 \in written'[b] /\ \A v \in written'[b] : v <= last'
      BY <1>0, <1>6, <1>8, <2>1
    <2>3. \A root \in {remote', reader', job'.next} \cup late' :
             root.id <= ids' /\ \A b \in Block : root.map[b] \in written'[b]
      BY <1>0, <1>8, <2>1, Zenon
    <2>4. \A r \in file'.recs : 0 < r.seq /\ r.seq <= last' /\ r.val \in written'[r.block]
      <3>1. \A r \in g.recs : 0 < r.seq /\ r.seq <= last + 1 /\ r.val \in written'[r.block]
        <4>1. \A r \in g.recs : r.block \in Block
          BY <1>4, Zenon DEF File, Record
        <4> QED BY <1>4, <1>6, <1>8, <2>1, <4>1, Ordering, Successor, Zenon
      <3>2. \A r \in file'.recs \ g.recs : /\ 0 < r.seq /\ r.seq <= last + 1
                                           /\ r.val \in written'[r.block]
        BY <1>0, <1>1, <1>5, <1>6, <1>8
      <3> QED BY <1>0, <3>1, <3>2, Zenon
    <2> QED BY <2>2, <2>3, <2>4, Zenon DEF Genuine
  <1>11. \A r \in file'.recs : file'.ack < r.seq /\ r.seq <= seq + 1
    BY <1>4, <1>5, <1>6
  <1>12. Filed'
    BY <1>0, <1>1, <1>4, <1>5, <1>6, <1>11, Ordering, Successor, Zenon DEF Filed
  <1>13. InFlight' = InFlight
    BY <1>0, Zenon DEF InFlight, Current
  <1>14. Published'
    <2>1. /\ \A n \in late : n.rev <= remote.rev + 1
          /\ \A n \in InFlight : Follows(file, Lim, remote, n) /\ reader = remote
          /\ ~ evicting
      BY <1>0, Zenon DEF JournalInv, Published
    <2>2. \A n \in InFlight : n \in {remote, job.next} \cup late
      BY Zenon DEF InFlight
    <2> QED BY <1>0, <1>1, <1>2, <1>13, <2>1, <2>2, Zenon DEF Published
  <1>15. Reading'
    <2>1. \/ reader = remote
          \/ reader.rev < remote.rev /\ Follows(file, Lim, reader, remote)
      BY <1>0, Zenon DEF JournalInv, Reading
    <2> QED BY <1>0, <1>1, <1>2, <2>1, Zenon DEF Reading
  <1>16. Closed'
    BY <1>0, Zenon DEF Closed
  <1>17. Opened'
    <2>1. base = reader.rev /\ ack = Mark(file, reader)
      BY <1>0, Holding, Zenon
    <2>2. seq' <= file'.seq \/ \E r \in file'.recs : r.seq = seq'
      <3>1. CASE seq' = seq
        BY <1>4, <1>5, <3>1, Zenon
      <3>2. CASE seq' = seq + 1 /\ P # {}
        <4>1. PICK b \in P : TRUE
          BY <3>2, Zenon
        <4> DEFINE r == [seq |-> seq + 1, block |-> b, val |-> last + 1]
        <4>2. r \in file'.recs /\ r.seq = seq + 1
          BY <1>1, Zenon
        <4> HIDE DEF r
        <4> QED BY <3>2, <4>2, Zenon
      <3> QED BY <1>7, <3>1, <3>2, Zenon
    <2>3. seq' <= last' /\ file'.seq <= seq'
      BY <1>0, <1>4, <1>5, <1>6, <1>7
    <2>4. ~ failed' => local' <= synced' /\ \A r \in file'.recs : r.seq <= seq'
      BY <1>0, <1>7, <1>11, Zenon
    <2> QED BY <1>0, <1>2, <1>3, <1>5, <2>1, <2>2, <2>3, <2>4, Zenon DEF Opened
  <1>18. Working'
    <2>1. \A b \in Block : View(b) \in Nat /\ View(b)' \in Nat /\ job.want[b] \in Nat
      <3>1. \A b \in Block : View(b)' = IF pending'[b].seq # 0 THEN pending'[b].val
                                                               ELSE reader.map[b]
        BY <1>0, Zenon DEF View, Dirty
      <3>2. \A b \in Block : pending'[b].val \in Nat /\ reader.map[b] \in Nat
        BY <1>0, <1>3, Holding, Zenon DEF Version, Root, Map
      <3> QED BY <1>0, <3>1, <3>2, Holding, Zenon DEF Map
    <2>2. /\ job.pc = "read" => /\ job.next \in {reader, remote}
                                /\ \A b \in Block : job.want[b] <= View(b)
          /\ job.pc = "upload" => /\ job.next.rev = reader.rev + 1
                                  /\ \A b \in Block : job.want[b] <= job.next.map[b]
      BY Zenon DEF JournalInv, Working
    <2>3. job.pc = "read" => \A b \in Block : job.want[b] <= View(b)'
      BY <1>3, <2>1, <2>2, Ordering, ZenonT(40)
    <2> QED BY <1>0, <2>2, <2>3, Zenon DEF Working
  <1>19. Saved'
    <2>1. \A b \in Block : Firm(file, Lim, remote, b, stable[b]) /\ stable[b] \in Nat
      BY Zenon DEF JournalInv, Saved, JournalTypeOK, Map
    <2>2. BarrierHolds'
      BY <1>0, Zenon DEF JournalInv, Saved, BarrierHolds
    <2> QED BY <1>0, <1>1, <1>2, <2>1, <2>2, Zenon DEF Saved
  <1>20. Bounded'
    <2>1. /\ DirtyLimit \in Nat /\ Mark(file, remote) \in Nat /\ ack <= Mark(file, remote)
      BY <1>0, JournalAssumption, RemoteAhead, Holding, Zenon
    <2>2. Cardinality(Blocks(file', Mark(file, remote))) <= DirtyLimit
      BY <1>1, <1>3, <1>6, <2>1, FewerBlocks, Counts, Zenon
    <2> QED BY <1>0, <1>2, <1>3, <2>2, Zenon DEF Bounded
  <1> QED BY <1>9, <1>10, <1>12, <1>14, <1>15, <1>16, <1>17, <1>18, <1>19, <1>20, ZenonT(40)
          DEF JournalInv

\* An append is a write of the chunks whose records are in the file.
LEMMA AppendWrites ==
    ASSUME JournalInv, JournalInv', Up, NEW g, NEW w, NEW B, NEW P, Appends(g, w, B, P)
    PROVE  Promise!DWrite
  <1>0. /\ remote' = remote /\ stable' = stable /\ P \in SUBSET Block /\ last' = last + 1
        /\ written' = [b \in Block |-> IF b \in P THEN written[b] \cup {last + 1} ELSE written[b]]
        /\ Base(g, w) /\ file' = With(g, P, seq + 1, last + 1)
    BY Zenon DEF Appends, Sent, store
  <1>1. Standing /\ Standing'
    BY Restores, PTL
  <1>2. /\ seq \in Nat /\ last \in Nat /\ remote \in Root /\ g \in File /\ g.kind = "ok"
        /\ file' \in File /\ Before(g, w, seq + 1, last + 1)
    BY <1>0, Healthy, AppendKeeps, Zenon DEF JournalInv, JournalTypeOK, Base
  <1>3. \A b \in Block : remote.map[b] < last + 1
    BY Older, Zenon DEF JournalInv
  <1>4. ASSUME NEW b \in Block
        PROVE  Restored(b)' = IF b \in P THEN last + 1 ELSE Restored(b)
    <2> DEFINE s == seq + 1
               v == last + 1
               c == Restored(b)
               d == Restored(b)'
    <2>1. c \in Nat /\ d \in Nat /\ Newest(file, remote, b, c) /\ Newest(file', remote, b, d)
      BY <1>0, <1>1, Zenon DEF Standing
    <2>2. Newest(g, remote, b, c)
      BY <1>0, <2>1, Zenon DEF Base
    <2>3. /\ s \in Nat /\ v \in Nat /\ Before(g, w, s, v) /\ file' = With(g, P, s, v)
          /\ \A x \in Block : remote.map[x] < v
      BY <1>0, <1>2, <1>3, Ordering, Successor, Zenon
    <2> HIDE DEF s, v, c, d
    <2>4. Newest(With(g, P, s, v), remote, b, IF b \in P THEN v ELSE c)
      BY <1>0, <1>2, <2>1, <2>2, <2>3, WithNewest, Zenon
    <2>5. d = IF b \in P THEN v ELSE c
      <3>1. (IF b \in P THEN v ELSE c) \in Nat
        BY <2>1, <2>3, Zenon
      <3> QED BY <1>2, <2>1, <2>3, <2>4, <3>1, NewestOnce, Zenon
    <2> QED BY <2>5, Zenon DEF v, c, d
  <1>5. [b \in Block |-> Restored(b)'] =
           [b \in Block |-> IF b \in P THEN last' ELSE [x \in Block |-> Restored(x)][b]]
    BY <1>0, <1>4, Zenon
  <1>6. written' = [b \in Block |-> IF b \in P THEN written[b] \cup {last'} ELSE written[b]]
    BY <1>0, Zenon
  <1> QED BY <1>0, <1>5, <1>6, Zenon DEF Promise!DWrite

\* LocalDisk::write, and one that fails.
LEMMA WriteStep ==
    ASSUME JournalInv, NEW B \in (SUBSET Block) \ {{}}, Write(B)
    PROVE  JournalInv' /\ Promise!DWrite
  <1>1. /\ Up /\ Cardinality(Dirty \cup B) <= DirtyLimit /\ Sent(B) /\ seq' = seq + 1
        /\ pending' = [b \in Block |-> IF b \in B THEN [seq |-> seq + 1, val |-> last + 1]
                                                  ELSE pending[b]]
        /\ UNCHANGED <<store, evicting, ids, pc, failed, base, ack, reader, job>>
    BY Zenon DEF Write
  <1>2. /\ B \in SUBSET Block /\ B # {} /\ B \subseteq B
    BY Zenon
  <1>3. \E g, w : Appends(g, w, B, B)
    <2>1. CASE Full(B)
      <3>1. file' = With(Here, B, seq + 1, last + 1) /\ synced' = seq /\ local' = seq
        BY <2>1, Zenon DEF Write, Appended, With
      <3>2. Base(Here, seq)
        BY <1>1, BaseIs, Zenon
      <3>3. Appends(Here, seq, B, B)
        BY <1>1, <1>2, <3>1, <3>2, Zenon DEF Appends
      <3> QED BY <3>3, Zenon
    <2>2. CASE ~ Full(B)
      <3>1. file' = With(file, B, seq + 1, last + 1) /\ UNCHANGED <<synced, local>>
        BY <2>2, Zenon DEF Write, Appended, With
      <3>2. Base(file, synced)
        BY <1>1, BaseIs, Zenon
      <3>3. Appends(file, synced, B, B)
        BY <1>1, <1>2, <3>1, <3>2, Zenon DEF Appends
      <3> QED BY <3>3, Zenon
    <2> QED BY <2>1, <2>2, Zenon
  <1> QED BY <1>1, <1>3, AppendInv, AppendWrites, Zenon

\* LocalDisk::flush that succeeds: what the guest reads is durable.
LEMMA FlushStep ==
    ASSUME JournalInv, Up, synced' = Top(file), local' = seq, failed' = failed,
           stable' = [b \in Block |-> View(b)],
           UNCHANGED <<store, file, evicting, ids, pc, header, seq, job, last, written, barrier>>
    PROVE  JournalInv' /\ Promise!DFlush
  <1>1. /\ Up
        /\ UNCHANGED <<store, file, evicting, ids, pc, header, seq, job, last, written, barrier>>
    BY Zenon
  <1>2. /\ synced' = Top(file) /\ local' = seq /\ failed' = failed
        /\ stable' = [b \in Block |-> View(b)]
    BY Zenon
  <1>3. /\ UNCHANGED <<remote, late, base, ack, pending, reader>>
    BY <1>1, Zenon DEF store, header
  <1>4. /\ pc = "up" /\ ~ failed /\ file \in File /\ remote \in Root /\ reader \in Root
        /\ (\A r \in file.recs : r.seq <= seq) /\ file.seq <= seq
        /\ seq \in Nat /\ Lim \in Nat /\ Lim <= seq /\ ack \in Nat /\ file.kind = "ok"
    BY <1>1, Healthy, Holding, LimIs, Zenon DEF Up, JournalInv
  <1>5. /\ Top(file) \in Nat /\ Top(file) = seq
        /\ (Top(file) = file.seq \/ \E r \in file.recs : r.seq = Top(file))
    <2>1. seq <= file.seq \/ \E r \in file.recs : r.seq = seq
      BY <1>4, Zenon DEF JournalInv, Opened
    <2>2. /\ Top(file) \in Nat /\ file.seq <= Top(file) /\ file.seq \in Nat
          /\ \A r \in file.recs : r.seq <= Top(file)
          /\ Top(file) = file.seq \/ \E r \in file.recs : r.seq = Top(file)
      BY <1>4, TopIs, Zenon DEF File
    <2> QED BY <1>4, <2>1, <2>2
  <1>6. Lim' = seq
    BY <1>1, <1>2, <1>4, <1>5, Zenon DEF Lim
  <1>7. \A b \in Block : /\ View(b) \in Nat /\ Newest(file, remote, b, View(b))
                         /\ View(b) = Restored(b)
    BY <1>4, Holding, Serves, Zenon
  <1>8. Keeps(file, Lim, file, seq, ack)
    BY <1>4, SameKeeps, Zenon
  <1>9. \A root \in {remote, reader} :
           /\ Sound(file, seq, root)
           /\ \A n \in Root : Follows(file, Lim, root, n) => Follows(file, seq, root, n)
    <2> SUFFICES ASSUME NEW root \in {remote, reader}
                 PROVE  /\ Sound(file, seq, root)
                        /\ \A n \in Root : Follows(file, Lim, root, n)
                                           => Follows(file, seq, root, n)
      BY Zenon
    <2>1. Sound(file, Lim, root) /\ Fits(file, root) /\ file.ack <= Mark(file, root)
          /\ ack <= Mark(file, root) /\ Ordered(file) /\ root \in Root
      <3>1. Sound(file, Lim, remote) /\ Sound(file, Lim, reader) /\ Ordered(file)
        BY <1>4, Zenon DEF JournalInv, Published, Reading, Filed
      <3>2. ack = Mark(file, reader) /\ ack <= Mark(file, remote) /\ ack <= ack
        BY <1>4, RemoteAhead, Holding, Ordering, Zenon
      <3> QED BY <1>4, <3>1, <3>2, Zenon DEF Sound, Covered
    <2> QED BY <1>4, <1>8, <2>1, KeepsSound, KeepsFollows, Zenon
  <1>10. \A b \in Block : Firm(file, seq, remote, b, View(b))
    <2>1. remote \in Root /\ \A r \in file.recs : r.val \in Nat
      BY <1>4, NumbersOf, Zenon
    <2> QED BY <1>4, <1>7, <2>1, Zenon DEF Newest, Firm
  <1>11. JournalTypeOK'
    <2>1. stable' \in Map
      BY <1>2, <1>7, Zenon DEF Map
    <2> QED BY <1>1, <1>2, <1>3, <1>4, <1>5, <2>1, Zenon DEF JournalInv, JournalTypeOK
  <1>12. Genuine' /\ Filed' /\ Closed'
    BY <1>1, <1>2, <1>3, <1>4, <1>5, Zenon DEF JournalInv, Genuine, Filed, Closed
  <1>13. InFlight' = InFlight /\ InFlight \in SUBSET Root
    BY <1>1, <1>3, Zenon DEF InFlight, Current, JournalInv, JournalTypeOK
  <1>14. Published'
    BY <1>1, <1>3, <1>4, <1>6, <1>9, <1>13 DEF JournalInv, Published
  <1>15. Reading'
    BY <1>1, <1>3, <1>4, <1>6, <1>9, Zenon DEF JournalInv, Reading
  <1>16. Opened'
    BY <1>1, <1>2, <1>3, <1>4, <1>5, Zenon DEF JournalInv, Opened
  <1>17. Working'
    <2>1. \A b \in Block : View(b)' = View(b)
      BY <1>3, Zenon DEF View, Dirty
    <2> QED BY <1>1, <1>3, <2>1, Zenon DEF JournalInv, Working
  <1>18. Saved' /\ Bounded'
    <2>1. \A b \in Block : stable'[b] = View(b)
      BY <1>2, Zenon
    <2> QED BY <1>1, <1>3, <1>6, <1>10, <2>1, Zenon DEF JournalInv, Saved, Bounded, BarrierHolds
  <1>19. JournalInv'
    BY <1>11, <1>12, <1>14, <1>15, <1>16, <1>17, <1>18, Zenon DEF JournalInv
  <1>20. Promise!DFlush
    <2>1. [b \in Block |-> Restored(b)'] = [b \in Block |-> Restored(b)]
      BY <1>1, <1>3, Zenon DEF Restored
    <2>2. stable' = [b \in Block |-> Restored(b)]
      BY <1>2, <1>7, Zenon
    <2>3. Up' = Up
      BY <1>1, <1>2 DEF Up
    <2> QED BY <1>1, <1>3, <2>1, <2>2, <2>3, Zenon DEF Promise!DFlush
  <1> QED BY <1>19, <1>20, Zenon

\* Replication reads the remote root.
LEMMA ReplicateReadStep ==
    ASSUME JournalInv, ReplicateRead
    PROVE  JournalInv' /\ Settles
  <1>0. /\ pc = "up" /\ remote' = remote /\ UNCHANGED <<base, ack, pending, reader>>
        /\ job' = [pc |-> "read", next |-> remote, want |-> Viewed]
        /\ UNCHANGED <<store, disk, state, guest, barrier>>
    BY Zenon DEF ReplicateRead, Up, state, store
  <1>1. Turns(reader) /\ reader \in Root
    BY <1>0, Holding, Zenon DEF Turns
  <1>2. Rewritten(reader, ack, pending)
    BY <1>0, <1>1, Holding, Leaves, Zenon DEF disk, state
  <1>3. Viewed \in Map /\ \A b \in Block : Viewed[b] = View(b)
    BY <1>0, Holding, Zenon DEF Viewed, Map
  <1>4. /\ job' \in [pc: {"idle", "read", "upload"}, next: Root, want: Map]
        /\ job'.pc = "read" /\ job'.next = remote /\ job'.want = Viewed
    BY <1>0, <1>3, Holding, Zenon
  <1>5. Working' /\ BarrierHolds'
    <2>1. \A b \in Block : View(b)' = View(b) /\ View(b) \in Nat
      BY <1>0, Holding, Zenon DEF View, Dirty
    <2> QED BY <1>0, <1>3, <1>4, <2>1 DEF Working, JournalInv, Saved, BarrierHolds
  <1> QED BY <1>0, <1>2, <1>4, <1>5, Holding, StayStep, Zenon DEF disk, state

\* A compaction of a log at its limit that fails.
LEMMA HereFails ==
    ASSUME JournalInv, Up, CompactFail(Here), UNCHANGED <<guest, barrier>>,
           UNCHANGED <<store, evicting, ids, pc, header, seq, job>>
    PROVE  JournalInv' /\ Settles
  <1>0. pc = "up" /\ remote' = remote /\ UNCHANGED <<base, ack, pending, reader>>
    BY Zenon DEF Up, header, store
  <1>1. Turns(reader) /\ reader \in Root
    BY <1>0, Holding, Zenon DEF Turns
  <1>2. Rewritten(reader, ack, pending)
    <2>1. Here = Compacted(file.id, reader.rev, ack, seq, pending)
      BY <1>0, Holding, Zenon DEF Here
    <2> QED BY <1>0, <1>1, <2>1, Holding, Compacts, Zenon
  <1>3. Working' /\ BarrierHolds'
    <2>1. \A b \in Block : View(b)' = View(b)
      BY <1>0, Zenon DEF View, Dirty
    <2> QED BY <1>0, <2>1, Zenon DEF JournalInv, Working, Saved, BarrierHolds
  <1> QED BY <1>0, <1>2, <1>3, Holding, StayStep, Zenon

\* No root on its way can be published over one that has just been published.
LEMMA NoneInFlight ==
    ASSUME JournalInv, NEW n \in Root, remote' = n, Current(n), late' = late, job'.pc = "idle"
    PROVE  (\A m \in late' : m.rev <= remote'.rev + 1) /\ \A m \in InFlight' : FALSE
  <1>1. /\ remote.rev \in Nat /\ \A m \in late : m.rev \in Nat
        /\ \A m \in late : m.rev <= remote.rev + 1
        /\ remote'.rev = remote.rev + 1
    BY Zenon DEF JournalInv, JournalTypeOK, Root, Published, Current
  <1> QED BY <1>1 DEF InFlight, Current

\* A root sent with an error for an answer: it may be refused, lost, published or late.
LEMMA SendFails ==
    ASSUME JournalInv, pc = "up", UNCHANGED <<pc, seq, evicting, ids, guest>>,
           NEW n \in Root, n.id <= ids, \A b \in Block : n.map[b] \in written[b],
           n.rev = reader.rev + 1,
           Current(n) => Follows(file, Lim, remote, n) /\ reader = remote,
           CasFail(n), UNCHANGED <<file, synced, header, local, barrier>>,
           failed' = failed \/ failed' = TRUE,
           job' \in [pc: {"idle", "read", "upload"}, next: Root, want: Map],
           job'.pc = "idle", job'.next \in {job.next, Image}
    PROVE  JournalInv' /\ Settles
  <1>0. /\ UNCHANGED <<base, ack, pending, reader>>
        /\ remote.rev \in Nat /\ reader.rev \in Nat /\ late \in SUBSET Root
        /\ reader \in Root /\ remote \in Root
    BY Holding, Zenon DEF header, JournalInv, JournalTypeOK
  <1>1. Working'
    BY Zenon DEF Working
  <1>2. /\ barrier' \in Map /\ \A b \in Block : /\ barrier[b] <= remote.map[b]
                                                /\ barrier[b] \in Nat /\ remote.map[b] \in Nat
    BY <1>0, ZenonT(40) DEF JournalInv, Saved, JournalTypeOK, BarrierHolds, Map, Root
  <1>3. CASE UNCHANGED store
    <2>1. remote' = remote
      BY <1>3, Zenon DEF store
    <2>2. Turns(reader)
      BY <1>0, <2>1, Zenon DEF Turns
    <2>3. Rewritten(reader, ack, pending)
      BY <1>0, <2>2, Holding, Leaves, Zenon
    <2>4. BarrierHolds'
      BY <1>2, <2>1, Zenon DEF BarrierHolds
    <2> QED BY <1>0, <1>1, <1>2, <1>3, <2>3, <2>4, Holding, StayStep, ZenonT(40)
  <1>4. CASE CasOk(n)
    <2>1. remote' = n /\ late' = late /\ Current(n) /\ reader = remote
          /\ Follows(file, Lim, remote, n)
      BY <1>4, Zenon DEF CasOk
    <2>2. Turns(reader)
      BY <1>0, <2>1, Zenon DEF Turns, Current
    <2>3. Rewritten(reader, ack, pending)
      BY <1>0, <2>2, Holding, Leaves, Zenon
    <2>4. BarrierHolds'
      <3>1. \A b \in Block : remote.map[b] <= n.map[b] /\ n.map[b] \in Nat
        BY <1>0, <2>1, <2>2, TurnsFit, ZenonT(40) DEF Root, Map
      <3>2. \A b \in Block : barrier[b] <= n.map[b]
        <4> TAKE b \in Block
        <4>1. /\ barrier[b] <= remote.map[b] /\ remote.map[b] <= n.map[b]
              /\ barrier[b] \in Nat /\ remote.map[b] \in Nat /\ n.map[b] \in Nat
          BY <1>2, <3>1, Zenon
        <4> QED BY <4>1
      <3> QED BY <2>1, <3>2, Zenon DEF BarrierHolds
    <2>5. \A m \in late' \cup {job'.next} :
             m.id <= ids /\ \A b \in Block : m.map[b] \in written[b]
      BY <2>1, Known, Zenon
    <2>6. (\A m \in late' : m.rev <= remote'.rev + 1) /\ \A m \in InFlight' : FALSE
      BY <2>1, NoneInFlight, Zenon
    <2> QED BY <1>0, <1>1, <1>2, <2>1, <2>2, <2>3, <2>4, <2>5, <2>6, Holding, TurnStep, Zenon
  <1>5. CASE late' = late \cup {n} /\ remote' = remote
    <2>2. Turns(reader)
      BY <1>0, <1>5, Zenon DEF Turns
    <2>3. Rewritten(reader, ack, pending)
      BY <1>0, <2>2, Holding, Leaves, Zenon
    <2>4. BarrierHolds'
      BY <1>2, <1>5, Zenon DEF BarrierHolds
    <2>5. \A m \in late' \cup {job'.next} :
             m.id <= ids /\ \A b \in Block : m.map[b] \in written[b]
      BY <1>5, Known, Zenon
    <2>6. \A m \in late' : m.rev <= remote'.rev + 1
      <3>1. \A m \in late : m.rev <= remote.rev + 1
        BY Zenon DEF JournalInv, Published
      <3> QED BY <1>0, <1>5, <3>1, RemoteAhead
    <2>7. \A m \in InFlight' : \/ remote' = remote /\ m \in InFlight
                               \/ reader = remote' /\ Follows(file', Lim', remote', m)
      <3>1. Lim' = Lim
        BY Zenon DEF Lim
      <3>2. \A m \in InFlight' : m \in InFlight \/ (m = n /\ Current(n))
        BY <1>5, Zenon DEF InFlight, Current
      <3> QED BY <1>5, <3>1, <3>2, Zenon
    <2> QED BY <1>0, <1>1, <1>2, <1>5, <2>2, <2>3, <2>4, <2>5, <2>6, <2>7, Holding, TurnStep, Zenon
  <1> QED BY <1>3, <1>4, <1>5, Zenon DEF CasFail

\* Replication publishes its root, or fails to, and accepts the outcome.
LEMMA ReplicateCommitStep ==
    ASSUME JournalInv, ReplicateCommit
    PROVE  JournalInv' /\ Settles
  <1> DEFINE root == job.next
             a == Acked(root, base, ack)
             p == Retain(pending, a)
             f == Compacted(file.id, root.rev, a, seq, p)
  <1>0. /\ job.pc = "upload" /\ job' = Idle /\ UNCHANGED <<evicting, ids, pc, seq, guest>>
        /\ \/ /\ CasOk(root) /\ Acceptable(root, file.id, base, ack, seq) /\ Accept(root)
              /\ Finish(f)
           \/ CasFail(root) /\ UNCHANGED <<file, synced, header, failed, local, barrier>>
    BY Zenon DEF ReplicateCommit
  <1>1. pc = "up"
    BY <1>0, Zenon DEF JournalInv, Closed
  <1>2. /\ root \in Root /\ root.rev = reader.rev + 1
        /\ root.id <= ids /\ \A b \in Block : root.map[b] \in written[b]
        /\ \A b \in Block : job.want[b] <= root.map[b]
        /\ \A b \in Block : job.want[b] \in Nat /\ root.map[b] \in Nat
        /\ reader.rev \in Nat /\ reader \in Root /\ remote \in Root
    BY <1>0, <1>1, Holding, Known, Zenon DEF JournalInv, Working, Map, Root
  <1>3. Current(root) => Follows(file, Lim, remote, root) /\ reader = remote
    BY <1>0, <1>1, Zenon DEF JournalInv, Published, InFlight
  <1>4. /\ Working' /\ job' \in [pc: {"idle", "read", "upload"}, next: Root, want: Map]
        /\ job'.next = Image /\ job'.pc = "idle"
    BY <1>0, IdleIs, Zenon DEF Working
  <1>5. CASE CasFail(root) /\ UNCHANGED <<file, synced, header, failed, local, barrier>>
    BY <1>0, <1>1, <1>2, <1>3, <1>4, <1>5, SendFails, Zenon
  <1>6. CASE /\ CasOk(root) /\ Acceptable(root, file.id, base, ack, seq) /\ Accept(root)
             /\ Finish(f)
    <2>1. /\ remote' = root /\ late' = late /\ Current(root) /\ reader = remote
          /\ Follows(file, Lim, remote, root)
      BY <1>3, <1>6, Zenon DEF CasOk
    <2>2. Turns(root)
      BY <1>2, <2>1, Zenon DEF Turns, Current
    <2>3. root = reader \/ root.rev # reader.rev
      BY <1>2, Ordering, Successor, Zenon
    <2>4. /\ a = Mark(file, root) /\ a \in Nat /\ p \in [Block -> Version]
          /\ Exact(file, p, a, seq)
      BY <1>1, <1>2, <1>6, <2>2, <2>3, AcceptMark, Zenon
    <2>5. reader' = root /\ base' = root.rev /\ ack' = a /\ pending' = p
      BY <1>6, Zenon DEF Accept
    <2>6. \A b \in Block : remote.map[b] <= root.map[b]
      BY <1>1, <1>2, <2>1, <2>2, TurnsFit, Zenon
    <2> HIDE DEF root, a, p, f
    <2>7. Rewritten(root, a, p)
      <3>1. CompactOk(f) \/ CompactFail(f)
        BY <1>6, Zenon DEF Finish
      <3> QED BY <1>0, <1>1, <1>2, <2>2, <2>4, <3>1, Compacts, Zenon DEF f
    <2>8. barrier' \in Map /\ BarrierHolds'
      <3>1. \A b \in Block : /\ barrier[b] \in Nat /\ barrier[b] <= remote.map[b]
                             /\ remote.map[b] \in Nat
        BY <1>2, Zenon DEF JournalInv, JournalTypeOK, Saved, BarrierHolds, Map, Root
      <3>2. CASE UNCHANGED barrier
        <4>1. barrier \in Map
          BY Zenon DEF JournalInv, JournalTypeOK
        <4>2. \A b \in Block : barrier[b] <= remote'.map[b]
          BY <1>2, <2>1, <2>6, <3>1
        <4> QED BY <3>2, <4>1, <4>2, Zenon DEF BarrierHolds
      <3>3. CASE Barrier(job.want)
        BY <1>2, <2>1, <2>6, <3>1, <3>3 DEF Barrier, BarrierHolds, Map, Larger
      <3> QED BY <1>6, <3>2, <3>3, Zenon DEF Finish
    <2>9. \A m \in late' \cup {job'.next} :
             m.id <= ids /\ \A b \in Block : m.map[b] \in written[b]
      BY <1>4, <2>1, Known, Zenon
    <2>10. (\A m \in late' : m.rev <= remote'.rev + 1) /\ \A m \in InFlight' : FALSE
      BY <1>2, <1>4, <2>1, NoneInFlight, Zenon
    <2>11. late' \in SUBSET Root
      BY <2>1, Zenon DEF JournalInv, JournalTypeOK
    <2> QED BY <1>0, <1>1, <1>2, <1>4, <2>2, <2>4, <2>5, <2>7, <2>8, <2>9, <2>10, <2>11,
               TurnStep, Zenon
  <1> QED BY <1>0, <1>5, <1>6, Zenon

\* The root that an offline compaction publishes.
LEMMA NextRevision ==
    ASSUME NEW r \in Root
    PROVE  /\ [r EXCEPT !.rev = @ + 1] \in Root /\ [r EXCEPT !.rev = @ + 1].rev = r.rev + 1
           /\ Copy(r, [r EXCEPT !.rev = @ + 1])
  BY Ordering, Successor, Zenon DEF Root, Copy

\* Offline compaction of the remote root.
LEMMA CompactRemoteStep ==
    ASSUME JournalInv, CompactRemote
    PROVE  JournalInv' /\ Settles
  <1> DEFINE n == [remote EXCEPT !.rev = @ + 1]
             f == Compacted(file.id, n.rev, ack, seq, pending)
  <1>0. /\ pc = "up" /\ job.pc = "idle" /\ remote.rev = reader.rev
        /\ UNCHANGED <<evicting, ids, pc, ack, seq, pending, job, guest, barrier>>
        /\ \/ /\ CasOk(n) /\ base' = n.rev /\ reader' = n
              /\ CompactOk(f) \/ CompactFail(f)
           \/ CasFail(n) /\ failed' = TRUE /\ UNCHANGED <<file, synced, local, base, reader>>
    BY Zenon DEF CompactRemote, Up
  <1>1. reader = remote /\ remote \in Root /\ reader.rev \in Nat
    BY <1>0, RemoteAhead, Holding, Zenon
  <1>2. n \in Root /\ n.rev = reader.rev + 1 /\ Copy(remote, n)
    BY <1>1, NextRevision, Zenon
  <1>3. f = Compacted(file.id, n.rev, ack, seq, pending)
    BY Zenon
  <1> HIDE DEF n, f
  <1>4. /\ n.id <= ids /\ (\A b \in Block : n.map[b] \in written[b]) /\ n.map = remote.map
        /\ Follows(file, Lim, remote, n) /\ Mark(file, n) = ack
    BY <1>0, <1>1, <1>2, Known, Holding, Zenon DEF Copy, Follows, Mark
  <1>5. /\ job \in [pc: {"idle", "read", "upload"}, next: Root, want: Map]
        /\ late \in SUBSET Root /\ barrier \in Map
    BY Zenon DEF JournalInv, JournalTypeOK
  <1>6. CASE CasFail(n) /\ failed' = TRUE /\ UNCHANGED <<file, synced, local, base, reader>>
    BY <1>0, <1>1, <1>2, <1>4, <1>5, <1>6, SendFails, Zenon DEF header
  <1>7. CASE /\ CasOk(n) /\ base' = n.rev /\ reader' = n
             /\ CompactOk(f) \/ CompactFail(f)
    <2>1. remote' = n /\ late' = late /\ Current(n)
      BY <1>7, Zenon DEF CasOk
    <2>2. Turns(n)
      BY <1>1, <1>2, <1>4, <2>1, Zenon DEF Turns, Current
    <2>3. Rewritten(n, ack, pending)
      BY <1>0, <1>2, <1>3, <1>4, <1>7, <2>2, Holding, Compacts, Zenon
    <2>4. BarrierHolds' /\ Working'
      BY <1>0, <1>4, <2>1, Zenon DEF JournalInv, Saved, BarrierHolds, Working
    <2>5. \A m \in late' \cup {job'.next} :
             m.id <= ids /\ \A b \in Block : m.map[b] \in written[b]
      BY <1>0, <2>1, Known, Zenon
    <2>6. (\A m \in late' : m.rev <= remote'.rev + 1) /\ \A m \in InFlight' : FALSE
      BY <1>0, <1>2, <2>1, NoneInFlight, Zenon
    <2> QED BY <1>0, <1>2, <1>4, <1>5, <1>7, <2>1, <2>2, <2>3, <2>4, <2>5, <2>6, Holding,
               TurnStep, Zenon
  <1> QED BY <1>0, <1>6, <1>7, Zenon

\* A failed sync poisons the handle and changes nothing else.
LEMMA FlushFails ==
    ASSUME JournalInv, Up, failed' = TRUE, UNCHANGED <<synced, local, stable>>,
           UNCHANGED <<store, file, evicting, ids, pc, header, seq, job, last, written, barrier>>
    PROVE  JournalInv' /\ Settles
  <1>0. pc = "up" /\ remote' = remote /\ UNCHANGED <<base, ack, pending, reader>>
    BY Zenon DEF Up, header, store
  <1>1. Turns(reader) /\ reader \in Root
    BY <1>0, Holding, Zenon DEF Turns
  <1>2. Rewritten(reader, ack, pending)
    BY <1>0, <1>1, Holding, Leaves, Zenon
  <1>3. Working' /\ BarrierHolds'
    <2>1. \A b \in Block : View(b)' = View(b)
      BY <1>0, Zenon DEF View, Dirty
    <2> QED BY <1>0, <2>1, Zenon DEF JournalInv, Working, Saved, BarrierHolds
  <1> QED BY <1>0, <1>2, <1>3, Holding, StayStep, Zenon DEF guest

\* A remote barrier with nothing to replicate.
LEMMA SyncNothingStep ==
    ASSUME JournalInv, SyncNothing
    PROVE  JournalInv' /\ Settles
  <1>0. /\ pc = "up" /\ remote' = remote /\ UNCHANGED <<base, ack, pending, reader>>
        /\ Dirty = {} /\ Barrier(Viewed)
        /\ UNCHANGED <<store, disk, state, job, guest>>
    BY Zenon DEF SyncNothing, Up, state, store
  <1>1. Turns(reader) /\ reader \in Root
    BY <1>0, Holding, Zenon DEF Turns
  <1>2. Rewritten(reader, ack, pending)
    BY <1>0, <1>1, Holding, Leaves, Zenon DEF disk, state
  <1>3. Working'
    <2>1. \A b \in Block : View(b)' = View(b)
      BY <1>0, Zenon DEF View, Dirty
    <2> QED BY <1>0, <2>1, Zenon DEF JournalInv, Working
  <1>4. \A b \in Block : Viewed[b] = reader.map[b] /\ reader.map[b] <= remote.map[b]
    BY <1>0, RemoteAhead, Zenon DEF Viewed, View
  <1>5. barrier' \in Map /\ BarrierHolds'
    <2>1. \A b \in Block : /\ barrier[b] \in Nat /\ reader.map[b] \in Nat /\ remote.map[b] \in Nat
                           /\ barrier[b] <= remote.map[b]
      <3>1. \A b \in Block : barrier[b] \in Nat /\ reader.map[b] \in Nat /\ remote.map[b] \in Nat
        BY <1>0, Holding, Zenon DEF Map, Root
      <3> QED BY <3>1, Zenon DEF JournalInv, Saved, BarrierHolds
    <2>2. barrier' = [b \in Block |-> Larger(barrier[b], reader.map[b])]
      BY <1>0, <1>4, Zenon DEF Barrier
    <2> QED BY <1>0, <1>4, <2>1, <2>2, Zenon DEF Map, BarrierHolds, Larger
  <1> QED BY <1>0, <1>2, <1>3, <1>5, Holding, StayStep, ZenonT(40) DEF disk, state

\* A write that fails, before or after its record reached the file.
LEMMA WriteFailStep ==
    ASSUME JournalInv, NEW B \in (SUBSET Block) \ {{}}, WriteFail(B)
    PROVE  JournalInv' /\ (Promise!DWrite \/ Settles)
  <1>1. /\ Up /\ Cardinality(Dirty \cup B) <= DirtyLimit /\ B \in SUBSET Block
        /\ UNCHANGED <<store, evicting, ids, pc, header, seq, job>>
    BY Zenon DEF WriteFail
  <1>2. UNCHANGED <<base, ack, pending, reader>>
    BY <1>1, Zenon DEF header
  <1>3. CASE CompactFail(Here) /\ UNCHANGED <<guest, barrier>>
    BY <1>1, <1>3, HereFails, Zenon
  <1>4. ASSUME NEW P \in SUBSET B, Sent(P), failed' = TRUE,
               IF Full(B)
               THEN file' = Appended(Here, P) /\ synced' = seq /\ local' = seq
               ELSE file' = Appended(file, P) /\ UNCHANGED <<synced, local>>
        PROVE  JournalInv' /\ Promise!DWrite
    <2>1. \E g, w : Appends(g, w, B, P)
      <3>1. CASE Full(B)
        <4>1. file' = With(Here, P, seq + 1, last + 1) /\ synced' = seq /\ local' = seq
          BY <1>4, <3>1, Zenon DEF Appended, With
        <4>2. Base(Here, seq)
          BY <1>1, BaseIs, Zenon
        <4>3. Appends(Here, seq, B, P)
          BY <1>1, <1>2, <1>4, <4>1, <4>2, Zenon DEF Appends
        <4> QED BY <4>3, Zenon
      <3>2. CASE ~ Full(B)
        <4>1. file' = With(file, P, seq + 1, last + 1) /\ UNCHANGED <<synced, local>>
          BY <1>4, <3>2, Zenon DEF Appended, With
        <4>2. Base(file, synced)
          BY <1>1, BaseIs, Zenon
        <4>3. Appends(file, synced, B, P)
          BY <1>1, <1>2, <1>4, <4>1, <4>2, Zenon DEF Appends
        <4> QED BY <4>3, Zenon
      <3> QED BY <3>1, <3>2, Zenon
    <2> QED BY <1>1, <2>1, AppendInv, AppendWrites, Zenon
  <1> QED BY <1>3, <1>4, Zenon DEF WriteFail

\* A flush, successful or not.
LEMMA FlushCall ==
    ASSUME JournalInv, Flush
    PROVE  JournalInv' /\ (Promise!DFlush \/ Settles)
  <1>1. /\ Up
        /\ UNCHANGED <<store, file, evicting, ids, pc, header, seq, job, last, written, barrier>>
    BY Zenon DEF Flush
  <1>2. CASE failed' = TRUE /\ UNCHANGED <<synced, local, stable>>
    BY <1>1, <1>2, FlushFails, Zenon
  <1>3. CASE /\ synced' = Top(file) /\ local' = seq /\ failed' = failed
             /\ stable' = [b \in Block |-> View(b)]
    BY <1>1, <1>3, FlushStep, Zenon
  <1> QED BY <1>2, <1>3, Zenon DEF Flush, SyncFile
=============================================================================
