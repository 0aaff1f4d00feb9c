------------------------- MODULE LocalJournalSound --------------------------
(****************************************************************************)
(* The inductive invariant of LocalJournal, and what it says.               *)
(*                                                                          *)
(* A journal makes sense only against a root, and several roots matter at   *)
(* once: the published one, the one the process reads, and those of         *)
(* requests that may still arrive. Sound says when a journal fits a root,   *)
(* Follows when one root may replace another under a journal. The lemmas    *)
(* on files and roots come first; they speak of no variable and are         *)
(* instantiated by the steps. What the invariant implies, the safety        *)
(* properties included, comes last.                                         *)
(****************************************************************************)
EXTENDS LocalJournal, TLAPS

File == [kind: {"none", "torn", "ok"}, id: Nat, base: Nat, ack: Nat, seq: Nat,
         recs: SUBSET Record]

Version == [seq: Nat, val: Nat]

\* The sequence up to which a root covers a journal.
Mark(f, root) == IF root.id = f.id THEN root.seq ELSE 0

\* A record is in the root or newer than what the root has, as the mark says.
Fits(f, root) ==
    \A r \in f.recs : IF Mark(f, root) < r.seq THEN root.map[r.block] < r.val
                                               ELSE r.val <= root.map[r.block]

\* The mark lies between the acknowledged and the durable sequence.
Covered(f, lim, root) ==
    /\ f.ack <= Mark(f, root)
    /\ f.kind = "ok" => Mark(f, root) <= lim \/ Mark(f, root) <= f.seq

Sound(f, lim, root) == Fits(f, root) /\ Covered(f, lim, root)

\* A root that a journal published, or may still publish, over another: the same
\* blocks and mark (compact_remote), or those of durable records.
Copy(old, n) == n.map = old.map /\ n.id = old.id /\ n.seq = old.seq

Adds(f, lim, old, n) ==
    /\ f.kind = "ok" /\ n.id = f.id /\ Mark(f, old) <= n.seq
    /\ Sound(f, lim, n)
    /\ \A b \in Block : old.map[b] <= n.map[b]
    /\ \A b \in Block :
          \/ n.map[b] = old.map[b]
          \/ \E r \in f.recs : /\ r.block = b /\ r.seq <= lim
                               /\ n.seq < r.seq \/ r.val = n.map[b]
    /\ \E r \in f.recs : r.seq <= lim /\ Mark(f, old) < r.seq

Follows(f, lim, old, n) == Copy(old, n) \/ Adds(f, lim, old, n)

\* A version of a block that survives: it is in the root or in a durable record.
Firm(f, lim, root, b, v) ==
    \/ v <= root.map[b]
    \/ \E r \in f.recs : r.block = b /\ r.seq <= lim /\ v <= r.val

\* Newer records have newer versions.
Ordered(f) ==
    \A r, q \in f.recs : /\ r.seq < q.seq => r.val < q.val
                         /\ r.seq = q.seq => r.val = q.val

\* What a reader of the journal and the root restores, Restored(b).
Rest(f, root, b) ==
    LET v == Replay(f.recs, ReplayAck(f, root), b)
    IN  IF v.seq # 0 THEN v.val ELSE root.map[b]

\* The newest version of a block that the root or the journal has.
Newest(f, root, b, v) ==
    /\ root.map[b] <= v
    /\ \A r \in f.recs : r.block = b => r.val <= v
    /\ v = root.map[b] \/ \E r \in f.recs : r.block = b /\ r.val = v

\* A header that names a root has its mark.
Agreed(f, root) == f.kind = "ok" /\ root.rev = f.base => f.ack = Mark(f, root)

\* The chunks with records above a sequence.
Blocks(f, above) == {r.block : r \in {r \in f.recs : r.seq > above}}

\* Pending versions p are those of the records above a, up to top.
Exact(f, p, a, top) ==
    /\ \A b \in Block : p[b].seq # 0 =>
          /\ [seq |-> p[b].seq, block |-> b, val |-> p[b].val] \in f.recs
          /\ a < p[b].seq /\ p[b].seq <= top
    /\ \A r \in f.recs : a < r.seq /\ r.seq <= top => r.seq <= p[r.block].seq

\* g keeps the records of f above a that are durable.
Keeps(f, lim, g, wide, a) ==
    /\ g.kind = f.kind /\ g.id = f.id /\ g.recs \subseteq f.recs
    /\ lim <= wide /\ f.seq <= g.seq
    /\ \A r \in f.recs : a < r.seq /\ r.seq <= lim =>
          \E q \in g.recs : q.block = r.block /\ r.seq <= q.seq /\ q.seq <= wide

\* g is f with newer records: of sequence s, version v.
Grows(f, g, s, v) ==
    /\ f.kind = "ok" /\ g.kind = "ok" /\ g.id = f.id /\ g.ack = f.ack /\ g.seq = f.seq
    /\ f.recs \subseteq g.recs
    /\ \A r \in g.recs \ f.recs : r.seq = s /\ r.val = v

\* Everything before sequence s, in the journal or covered by a mark, is older.
Before(f, lim, s, v) ==
    /\ lim < s /\ f.seq < s
    /\ \A r \in f.recs : r.seq < s /\ r.val < v

\* Facts of numbers and finite sets that the arguments rest on.  They are stated here
\* and proved in LocalJournalProofs, where the library's theorems are in scope.
Counting ==
    /\ \A S \in SUBSET Nat : S # {} => \E m \in S : \A n \in S : m <= n
    /\ \A S \in SUBSET Block : /\ Cardinality(S) \in Nat
                               /\ \A T \in SUBSET S : Cardinality(T) <= Cardinality(S)
    /\ Cardinality({}) = 0

\* The order of the naturals.
LEMMA Ordering ==
    /\ \A m \in Nat : m <= m /\ ~ (m < m)
    /\ \A m, n \in Nat : m < n => m <= n /\ m # n
    /\ \A m, n \in Nat : m <= n => m < n \/ m = n
    /\ \A m, n, k \in Nat : m <= n /\ n <= k => m <= k
  OBVIOUS

\* The successor of a natural number, for the prover that does no arithmetic.
LEMMA Successor ==
    /\ \A m \in Nat : m + 1 \in Nat /\ 0 < m + 1 /\ m < m + 1 /\ m <= m + 1
    /\ \A m, n \in Nat : m <= n => m <= n + 1 /\ m < n + 1 /\ m + 1 <= n + 1
  OBVIOUS

\* A bounded nonempty set of numbers has a largest member.
LEMMA Maximum ==
    ASSUME Counting, NEW S \in SUBSET Nat, S # {}, NEW k \in Nat, \A n \in S : n <= k
    PROVE  \E m \in S : \A n \in S : n <= m
  <1> DEFINE B == {m \in Nat : \A n \in S : n <= m}
  <1>1. PICK m \in B : \A x \in B : m <= x
    <2>1. B \in SUBSET Nat /\ k \in B
      BY Zenon
    <2> QED BY <2>1, Zenon DEF Counting
  <1>2. m \in S
    <2>1. SUFFICES ASSUME m \notin S PROVE FALSE
      BY Zenon
    <2>2. \A n \in S : n < m
      BY <2>1, <1>1
    <2>3. PICK n \in S : n < m
      BY <2>2, Zenon
    <2>4. m - 1 \in Nat /\ \A x \in S : x <= m - 1
      BY <2>2, <2>3, <1>1
    <2> QED BY <2>4, <1>1
  <1> QED BY <1>1, <1>2, Zenon

-----------------------------------------------------------------------------
(* What replay finds. *)
LEMMA ReplayFinds ==
    ASSUME Counting, NEW recs \in SUBSET Record, NEW k \in Nat, \A r \in recs : r.seq <= k,
           NEW above \in Nat, NEW b \in Block
    PROVE  \/ /\ Replay(recs, above, b) = Clean
              /\ \A r \in recs : r.block = b => r.seq <= above
           \/ \E r \in recs : /\ r.block = b /\ above < r.seq
                              /\ Replay(recs, above, b) = [seq |-> r.seq, val |-> r.val]
                              /\ \A q \in recs : q.block = b => q.seq <= r.seq
  <1> DEFINE R == {r \in recs : r.block = b /\ r.seq > above}
             S == {r.seq : r \in R}
  <1>0. \A r \in recs : r.seq \in Nat
    BY Zenon DEF Record
  <1>1. CASE R = {}
    <2>1. Replay(recs, above, b) = Clean
      BY <1>1, Zenon DEF Replay
    <2>2. \A r \in recs : r.block = b => r.seq <= above
      BY <1>1, <1>0
    <2> QED BY <2>1, <2>2, Zenon
  <1>2. CASE R # {}
    <2>1. S \in SUBSET Nat /\ S # {} /\ \A n \in S : n <= k
      BY <1>0, <1>2, Zenon
    <2>2. PICK m \in S : \A n \in S : n <= m
      BY <2>1, Maximum, Zenon
    <2>3. \E r \in R : \A q \in R : q.seq <= r.seq
      BY <2>2, Zenon
    <2> DEFINE r == CHOOSE r \in R : \A q \in R : q.seq <= r.seq
    <2>4. r \in R /\ \A q \in R : q.seq <= r.seq
      BY <2>3, Zenon
    <2>5. Replay(recs, above, b) = [seq |-> r.seq, val |-> r.val]
      BY <1>2, Zenon DEF Replay
    <2> HIDE DEF r
    <2>6. \A q \in recs : q.block = b => q.seq <= r.seq
      BY <2>4, <1>0
    <2> QED BY <2>4, <2>5, <2>6, Zenon
  <1> QED BY <1>1, <1>2, Zenon

\* The end of a journal's file: no record lies beyond it, and one or the header does reach it.
LEMMA TopFinds ==
    ASSUME Counting, NEW f \in File, NEW k \in Nat, \A r \in f.recs : r.seq <= k
    PROVE  /\ Top(f) \in Nat /\ f.seq <= Top(f)
           /\ \A r \in f.recs : r.seq <= Top(f)
           /\ Top(f) = f.seq \/ \E r \in f.recs : r.seq = Top(f)
  <1>0. f.recs \subseteq Record /\ f.seq \in Nat /\ \A r \in f.recs : r.seq \in Nat
    BY Zenon DEF File, Record
  <1>1. CASE \A r \in f.recs : r.seq <= f.seq
    BY <1>0, <1>1 DEF Top
  <1>2. CASE ~ \A r \in f.recs : r.seq <= f.seq
    <2> DEFINE S == {r.seq : r \in f.recs}
               m == CHOOSE n \in S : \A r \in f.recs : r.seq <= n
    <2>1. S \in SUBSET Nat /\ S # {} /\ \A n \in S : n <= k
      BY <1>0, <1>2, Zenon
    <2>2. \E n \in S : \A x \in S : x <= n
      BY <2>1, Maximum, Zenon
    <2>3. m \in S /\ \A r \in f.recs : r.seq <= m
      BY <2>2, Zenon
    <2>4. Top(f) = m
      BY <1>2, Zenon DEF Top
    <2> HIDE DEF m
    <2> QED BY <2>1, <2>3, <2>4, <1>0, <1>2
  <1> QED BY <1>1, <1>2, Zenon

-----------------------------------------------------------------------------
(* What a reader restores is the newest version there is. *)

\* Replay goes by the mark of the root.
LEMMA ReplayMark ==
    ASSUME NEW f \in File, NEW root \in Root, f.ack <= Mark(f, root)
    PROVE  ReplayAck(f, root) = Mark(f, root) /\ Mark(f, root) \in Nat
  <1>1. f.ack \in Nat /\ root.seq \in Nat
    BY Zenon DEF File, Root
  <1> QED BY <1>1 DEF ReplayAck, Mark, Larger

\* The types of what is in a file and a root.
LEMMA NumbersOf ==
    ASSUME NEW f \in File, NEW root \in Root
    PROVE  /\ f.recs \subseteq Record /\ f.ack \in Nat /\ f.seq \in Nat /\ f.id \in Nat
           /\ \A r \in f.recs : r.seq \in Nat /\ r.val \in Nat /\ r.block \in Block
           /\ \A b \in Block : root.map[b] \in Nat
           /\ root.seq \in Nat /\ root.id \in Nat /\ Mark(f, root) \in Nat
  BY Zenon DEF File, Root, Record, Map, Mark

\* Restored is the newest version that the root or the journal has.
LEMMA RestIsNewest ==
    ASSUME Counting, NEW f \in File, NEW root \in Root, NEW k \in Nat,
           \A r \in f.recs : 0 < r.seq /\ r.seq <= k,
           f.ack <= Mark(f, root), Fits(f, root), Ordered(f), NEW b \in Block
    PROVE  Newest(f, root, b, Rest(f, root, b))
  <1> DEFINE a == Mark(f, root)
             v == Replay(f.recs, a, b)
  <1>0. /\ f.recs \in SUBSET Record /\ a \in Nat /\ root.map[b] \in Nat
        /\ \A r \in f.recs : r.seq \in Nat /\ r.val \in Nat
    BY NumbersOf, Zenon
  <1>1. ReplayAck(f, root) = a
    BY ReplayMark, Zenon
  <1>2. Rest(f, root, b) = IF v.seq # 0 THEN v.val ELSE root.map[b]
    BY <1>1, Zenon DEF Rest
  <1>3. \A r \in f.recs : r.block = b => IF a < r.seq THEN root.map[b] < r.val
                                                      ELSE r.val <= root.map[b]
    BY Zenon DEF Fits
  <1> HIDE DEF a
  <1>4. CASE v = Clean /\ \A r \in f.recs : r.block = b => r.seq <= a
    <2>1. Rest(f, root, b) = root.map[b]
      BY <1>2, <1>4 DEF Clean
    <2>2. \A r \in f.recs : r.block = b => r.val <= root.map[b]
      BY <1>0, <1>3, <1>4
    <2> QED BY <2>1, <2>2, <1>0 DEF Newest
  <1>5. CASE \E r \in f.recs : /\ r.block = b /\ a < r.seq
                               /\ v = [seq |-> r.seq, val |-> r.val]
                               /\ \A q \in f.recs : q.block = b => q.seq <= r.seq
    <2>1. PICK r \in f.recs : /\ r.block = b /\ a < r.seq
                              /\ v = [seq |-> r.seq, val |-> r.val]
                              /\ \A q \in f.recs : q.block = b => q.seq <= r.seq
      BY <1>5, Zenon
    <2>2. v.seq = r.seq /\ v.val = r.val /\ r.seq # 0
      BY <2>1
    <2>3. Rest(f, root, b) = r.val
      BY <1>2, <2>2, Zenon
    <2>4. root.map[b] < r.val
      BY <1>3, <2>1, Zenon
    <2>5. \A q \in f.recs : q.block = b => q.val <= r.val
      BY <2>1, <1>0 DEF Ordered
    <2> QED BY <2>1, <2>3, <2>4, <2>5, <1>0 DEF Newest
  <1>6. \/ /\ v = Clean
           /\ \A r \in f.recs : r.block = b => r.seq <= a
        \/ \E r \in f.recs : /\ r.block = b /\ a < r.seq
                              /\ v = [seq |-> r.seq, val |-> r.val]
                              /\ \A q \in f.recs : q.block = b => q.seq <= r.seq
    BY <1>0, ReplayFinds
  <1> QED BY <1>4, <1>5, <1>6, Zenon

\* There is only one newest version.
LEMMA NewestOnce ==
    ASSUME NEW f \in File, NEW root \in Root, NEW b \in Block, NEW v \in Nat, NEW w \in Nat,
           Newest(f, root, b, v), Newest(f, root, b, w)
    PROVE  v = w
  BY NumbersOf DEF Newest

\* A root that follows another restores the same.
LEMMA FollowsNewest ==
    ASSUME NEW f \in File, NEW lim \in Nat, NEW old \in Root, NEW n \in Root,
           Follows(f, lim, old, n), NEW b \in Block, NEW v \in Nat
    PROVE  Newest(f, n, b, v) <=> Newest(f, old, b, v)
  <1>0. /\ old.map[b] \in Nat /\ n.map[b] \in Nat /\ n.seq \in Nat
        /\ \A r \in f.recs : r.seq \in Nat /\ r.val \in Nat
    BY NumbersOf, Zenon
  <1>1. CASE n.map[b] = old.map[b]
    BY <1>1, Zenon DEF Newest
  <1>2. CASE Adds(f, lim, old, n) /\ n.map[b] # old.map[b]
    <2>1. old.map[b] <= n.map[b] /\ Mark(f, n) = n.seq
      BY <1>2, Zenon DEF Adds, Mark
    <2>2. PICK r \in f.recs : r.block = b /\ (n.seq < r.seq \/ r.val = n.map[b])
      BY <1>2, Zenon DEF Adds
    <2>3. n.map[b] <= r.val
      BY <1>0, <1>2, <2>1, <2>2 DEF Adds, Sound, Fits
    <2>4. old.map[b] < r.val
      BY <1>0, <1>2, <2>1, <2>3
    <2> QED BY <1>0, <2>1, <2>2, <2>3, <2>4 DEF Newest
  <1> QED BY <1>1, <1>2, Zenon DEF Follows, Copy

-----------------------------------------------------------------------------
(* Compaction and crashes. *)
LEMMA KeepsSound ==
    ASSUME NEW f \in File, NEW g \in File, NEW lim \in Nat, NEW wide \in Nat, NEW a \in Nat,
           Keeps(f, lim, g, wide, a), NEW root \in Root, Sound(f, lim, root),
           g.ack <= Mark(f, root)
    PROVE  Sound(g, wide, root) /\ Mark(g, root) = Mark(f, root)
  <1>0. Mark(f, root) \in Nat /\ f.seq \in Nat /\ g.seq \in Nat
    BY NumbersOf, Zenon
  <1>1. Mark(g, root) = Mark(f, root)
    BY Zenon DEF Keeps, Mark
  <1>2. Fits(g, root)
    BY <1>1, Zenon DEF Sound, Fits, Keeps
  <1>3. Covered(g, wide, root)
    BY <1>0, <1>1 DEF Sound, Covered, Keeps
  <1> QED BY <1>1, <1>2, <1>3, Zenon DEF Sound

\* What survives with a file survives with one that keeps its durable records.
LEMMA KeepsFirm ==
    ASSUME NEW f \in File, NEW g \in File, NEW lim \in Nat, NEW wide \in Nat, NEW a \in Nat,
           Keeps(f, lim, g, wide, a), Ordered(f), NEW root \in Root, Fits(f, root),
           a <= Mark(f, root), NEW b \in Block, NEW v \in Nat, Firm(f, lim, root, b, v)
    PROVE  Firm(g, wide, root, b, v)
  <1>0. /\ Mark(f, root) \in Nat /\ root.map[b] \in Nat
        /\ \A r \in f.recs : r.seq \in Nat /\ r.val \in Nat
        /\ \A r \in g.recs : r.seq \in Nat /\ r.val \in Nat
    BY NumbersOf, Zenon
  <1>1. CASE v <= root.map[b]
    BY <1>1, Zenon DEF Firm
  <1>2. CASE \E r \in f.recs : r.block = b /\ r.seq <= lim /\ v <= r.val
    <2>1. PICK r \in f.recs : r.block = b /\ r.seq <= lim /\ v <= r.val
      BY <1>2, Zenon
    <2>2. CASE r.seq <= a
      <3>1. r.val <= root.map[b]
        BY <1>0, <2>1, <2>2 DEF Fits
      <3> QED BY <1>0, <2>1, <3>1 DEF Firm
    <2>3. CASE a < r.seq
      <3>1. PICK q \in g.recs : q.block = b /\ r.seq <= q.seq /\ q.seq <= wide
        BY <2>1, <2>3, Zenon DEF Keeps
      <3>2. r.val <= q.val
        BY <1>0, <3>1 DEF Ordered, Keeps
      <3> QED BY <1>0, <2>1, <3>1, <3>2 DEF Firm
    <2> QED BY <1>0, <2>2, <2>3
  <1> QED BY <1>1, <1>2, Zenon DEF Firm

\* A root on its way still follows when the file is compacted.
LEMMA KeepsFollows ==
    ASSUME NEW f \in File, NEW g \in File, NEW lim \in Nat, NEW wide \in Nat, NEW a \in Nat,
           Keeps(f, lim, g, wide, a), Ordered(f), NEW old \in Root, Fits(f, old),
           a <= Mark(f, old), g.ack <= Mark(f, old), NEW n \in Root, Follows(f, lim, old, n)
    PROVE  Follows(g, wide, old, n)
  <1>0. /\ Mark(f, old) \in Nat /\ Mark(f, n) \in Nat /\ n.seq \in Nat /\ g.ack \in Nat
        /\ \A r \in f.recs : r.seq \in Nat /\ r.val \in Nat /\ r.block \in Block
        /\ \A b \in Block : old.map[b] \in Nat /\ n.map[b] \in Nat
        /\ g.recs \subseteq f.recs
    BY NumbersOf, Zenon DEF Keeps
  <1>1. SUFFICES ASSUME Adds(f, lim, old, n) PROVE Adds(g, wide, old, n)
    BY Zenon DEF Follows
  <1>2. Mark(f, n) = n.seq /\ Mark(f, old) <= n.seq /\ Mark(g, old) = Mark(f, old)
    BY <1>1, Zenon DEF Adds, Mark, Keeps
  <1>3. Sound(g, wide, n)
    BY <1>0, <1>1, <1>2, KeepsSound DEF Adds
  <1>4. \A r \in f.recs : a < r.seq /\ r.seq <= lim =>
          \E q \in g.recs : q.block = r.block /\ r.seq <= q.seq /\ q.seq <= wide
    BY Zenon DEF Keeps
  <1>5. ASSUME NEW b \in Block, n.map[b] # old.map[b]
        PROVE  \E r \in g.recs : /\ r.block = b /\ r.seq <= wide
                                 /\ n.seq < r.seq \/ r.val = n.map[b]
    <2>1. PICK r \in f.recs : /\ r.block = b /\ r.seq <= lim
                              /\ n.seq < r.seq \/ r.val = n.map[b]
      BY <1>1, <1>5, Zenon DEF Adds
    <2>2. a < r.seq
      <3>1. CASE r.seq <= a
        <4>1. r.val = n.map[b] /\ r.seq <= Mark(f, old)
          BY <1>0, <1>2, <2>1, <3>1
        <4>2. n.map[b] <= old.map[b]
          BY <1>0, <2>1, <4>1 DEF Fits
        <4>3. old.map[b] <= n.map[b]
          BY <1>1, Zenon DEF Adds
        <4> QED BY <1>0, <1>5, <4>2, <4>3
      <3> QED BY <1>0, <3>1
    <2>3. PICK q \in g.recs : q.block = b /\ r.seq <= q.seq /\ q.seq <= wide
      BY <1>4, <2>1, <2>2, Zenon
    <2>4. CASE n.seq < q.seq
      BY <2>3, <2>4, Zenon
    <2>5. CASE q.seq <= n.seq
      <3>1. q.val <= n.map[b]
        BY <1>0, <1>1, <1>2, <2>3, <2>5 DEF Adds, Sound, Fits
      <3>2. r.val = n.map[b] /\ r.val <= q.val
        BY <1>0, <2>1, <2>3, <2>5 DEF Ordered
      <3>3. q.val = n.map[b]
        BY <1>0, <3>1, <3>2
      <3> QED BY <2>3, <3>3, Zenon
    <2> QED BY <1>0, <2>4, <2>5
  <1>6. \E r \in g.recs : r.seq <= wide /\ Mark(g, old) < r.seq
    <2>1. PICK r \in f.recs : r.seq <= lim /\ Mark(f, old) < r.seq
      BY <1>1, Zenon DEF Adds
    <2>2. PICK q \in g.recs : r.seq <= q.seq /\ q.seq <= wide
      BY <1>0, <1>4, <2>1
    <2> QED BY <1>0, <1>2, <2>1, <2>2
  <1> QED BY <1>1, <1>2, <1>3, <1>5, <1>6, Zenon DEF Adds, Keeps

-----------------------------------------------------------------------------
(* Appending. *)
LEMMA GrowsSound ==
    ASSUME NEW f \in File, NEW g \in File, NEW lim \in Nat, NEW s \in Nat, NEW v \in Nat,
           Grows(f, g, s, v), Before(f, lim, s, v), NEW root \in Root, Sound(f, lim, root),
           \A b \in Block : root.map[b] < v
    PROVE  Sound(g, lim, root) /\ Mark(g, root) = Mark(f, root)
  <1>0. /\ Mark(f, root) \in Nat /\ f.seq \in Nat
        /\ \A r \in g.recs : r.seq \in Nat /\ r.val \in Nat /\ r.block \in Block
    BY NumbersOf, Zenon
  <1>1. Mark(g, root) = Mark(f, root)
    BY Zenon DEF Grows, Mark
  <1>2. Mark(f, root) < s
    BY <1>0 DEF Sound, Covered, Before, Grows
  <1>3. Fits(g, root)
    BY <1>0, <1>1, <1>2, Zenon DEF Sound, Fits, Grows
  <1>4. Covered(g, lim, root)
    BY <1>1, Zenon DEF Sound, Covered, Grows
  <1> QED BY <1>1, <1>3, <1>4, Zenon DEF Sound

\* ... and when the file grows.
LEMMA GrowsFollows ==
    ASSUME NEW f \in File, NEW g \in File, NEW lim \in Nat, NEW s \in Nat, NEW v \in Nat,
           Grows(f, g, s, v), Before(f, lim, s, v), NEW old \in Root, NEW n \in Root,
           Follows(f, lim, old, n), \A b \in Block : n.map[b] < v
    PROVE  Follows(g, lim, old, n)
  <1>1. SUFFICES ASSUME Adds(f, lim, old, n) PROVE Adds(g, lim, old, n)
    BY Zenon DEF Follows
  <1>2. Sound(g, lim, n)
    BY <1>1, GrowsSound, Zenon DEF Adds
  <1>3. f.recs \subseteq g.recs /\ g.id = f.id /\ g.kind = f.kind /\ Mark(g, old) = Mark(f, old)
    BY Zenon DEF Grows, Mark
  <1>4. \A b \in Block :
          \/ n.map[b] = old.map[b]
          \/ \E r \in g.recs : /\ r.block = b /\ r.seq <= lim
                               /\ n.seq < r.seq \/ r.val = n.map[b]
    BY <1>1, <1>3, Zenon DEF Adds
  <1>5. \E r \in g.recs : r.seq <= lim /\ Mark(g, old) < r.seq
    BY <1>1, <1>3, Zenon DEF Adds
  <1> QED BY <1>1, <1>2, <1>3, <1>4, <1>5, Zenon DEF Adds

\* A version that survives still does when the file grows.
LEMMA GrowsFirm ==
    ASSUME NEW f, NEW g, NEW lim, NEW s, NEW v, Grows(f, g, s, v), NEW root, NEW b, NEW w,
           Firm(f, lim, root, b, w)
    PROVE  Firm(g, lim, root, b, w)
  BY Zenon DEF Grows, Firm

\* A longer file is ordered when the added record is newer than all others.
LEMMA GrowsOrdered ==
    ASSUME NEW f \in File, NEW g \in File, NEW lim \in Nat, NEW s \in Nat, NEW v \in Nat,
           Grows(f, g, s, v), Before(f, lim, s, v), Ordered(f)
    PROVE  Ordered(g)
  <1>0. \A r \in g.recs : r.seq \in Nat /\ r.val \in Nat
    BY NumbersOf, Zenon DEF File, Record
  <1> QED BY <1>0 DEF Grows, Before, Ordered

\* A write: records of the chunks B.
With(f, B, s, v) == [f EXCEPT !.recs = @ \cup {[seq |-> s, block |-> b, val |-> v] : b \in B}]

\* The file with a write to the chunks B appended to it.
LEMMA WithGrows ==
    ASSUME NEW f \in File, f.kind = "ok", NEW B \in SUBSET Block, NEW s \in Nat, NEW v \in Nat
    PROVE  /\ With(f, B, s, v) \in File /\ Grows(f, With(f, B, s, v), s, v)
           /\ With(f, B, s, v).base = f.base
           /\ \A r \in With(f, B, s, v).recs \ f.recs : r.block \in B
           /\ \A b \in B : [seq |-> s, block |-> b, val |-> v] \in With(f, B, s, v).recs
  <1> DEFINE N == {[seq |-> s, block |-> b, val |-> v] : b \in B}
             g == [f EXCEPT !.recs = @ \cup N]
  <1>1. N \subseteq Record /\ \A r \in N : r.seq = s /\ r.val = v /\ r.block \in B
    BY DEF Record
  <1>2. \A b \in B : [seq |-> s, block |-> b, val |-> v] \in N
    BY Zenon
  <1> HIDE DEF N
  <1>3. /\ g \in File /\ g.recs = f.recs \cup N /\ g.base = f.base
        /\ g.kind = f.kind /\ g.id = f.id /\ g.ack = f.ack /\ g.seq = f.seq
    BY <1>1, Zenon DEF File
  <1>4. With(f, B, s, v) = g
    BY Zenon DEF With, N
  <1> HIDE DEF g
  <1> QED BY <1>1, <1>2, <1>3, <1>4, Zenon DEF Grows

\* After a write its chunks have its version and the others what they had.
LEMMA WithNewest ==
    ASSUME NEW f \in File, f.kind = "ok", NEW B \in SUBSET Block, NEW s \in Nat, NEW v \in Nat,
           NEW lim,
           Before(f, lim, s, v), NEW root \in Root, \A b \in Block : root.map[b] < v,
           NEW b \in Block, NEW w \in Nat, Newest(f, root, b, w)
    PROVE  Newest(With(f, B, s, v), root, b, IF b \in B THEN v ELSE w)
  <1> DEFINE g == With(f, B, s, v)
             N == [seq |-> s, block |-> b, val |-> v]
  <1>0. /\ g \in File /\ Grows(f, g, s, v) /\ (b \in B => N \in g.recs)
        /\ \A r \in g.recs \ f.recs : r.block \in B
    BY WithGrows, Zenon
  <1> HIDE DEF g
  <1>1. /\ g \in File /\ f.recs \subseteq g.recs /\ (b \in B => N \in g.recs)
        /\ \A r \in g.recs \ f.recs : r.val = v /\ r.block \in B
    BY <1>0, Zenon DEF Grows
  <1>2. N.block = b /\ N.val = v
    BY Zenon
  <1>3. root.map[b] \in Nat /\ \A r \in g.recs : r.val \in Nat
    BY <1>1, NumbersOf, Zenon
  <1>4. \A r \in f.recs : r.val < v
    BY Zenon DEF Before
  <1> HIDE DEF N
  <1>5. b \in B => Newest(g, root, b, v)
    BY <1>1, <1>2, <1>3, <1>4 DEF Newest
  <1>6. b \notin B => Newest(g, root, b, w)
    BY <1>1, <1>3, <1>4, Zenon DEF Newest
  <1> QED BY <1>5, <1>6, Zenon DEF g

-----------------------------------------------------------------------------
(* Pending versions, and the journal that is compacted to them. *)
LEMMA ExactAccept ==
    ASSUME NEW f \in File, NEW p \in [Block -> Version], NEW a \in Nat, NEW c \in Nat,
           NEW top \in Nat, Exact(f, p, a, top), a <= c
    PROVE  Retain(p, c) \in [Block -> Version] /\ Exact(f, Retain(p, c), c, top)
  <1>0. \A r \in f.recs : r.seq \in Nat /\ r.block \in Block
    BY Zenon DEF File, Record
  <1>1. \A b \in Block : p[b] \in Version /\ p[b].seq \in Nat
    BY Zenon DEF Version
  <1> DEFINE q == Retain(p, c)
  <1>2. q \in [Block -> Version] /\ \A b \in Block : q[b] = IF p[b].seq > c THEN p[b] ELSE Clean
    BY <1>1, Zenon DEF Retain, Clean, Version
  <1>3. Clean.seq = 0
    BY Zenon DEF Clean
  <1> HIDE DEF q
  <1>4. \A b \in Block : q[b].seq # 0 => q[b] = p[b] /\ c < p[b].seq
    BY <1>1, <1>2, <1>3, Zenon
  <1>5. \A b \in Block : q[b].seq # 0 =>
          /\ [seq |-> q[b].seq, block |-> b, val |-> q[b].val] \in f.recs
          /\ c < q[b].seq /\ q[b].seq <= top
    BY <1>1, <1>4, Zenon DEF Exact
  <1>6. ASSUME NEW r \in f.recs, c < r.seq, r.seq <= top
        PROVE  r.seq <= q[r.block].seq
    <2>1. r.seq <= p[r.block].seq
      BY <1>0, <1>6 DEF Exact
    <2>2. c < p[r.block].seq
      BY <1>0, <1>1, <1>6, <2>1
    <2> QED BY <1>0, <1>2, <2>1, <2>2, Zenon
  <1>7. Exact(f, q, c, top)
    BY <1>5, <1>6, Zenon DEF Exact
  <1> QED BY <1>2, <1>7, Zenon DEF q

\* Replay yields the pending versions of the journal.
LEMMA ExactReplay ==
    ASSUME Counting, NEW f \in File, NEW top \in Nat, \A r \in f.recs : r.seq <= top, NEW a \in Nat,
           NEW p, p = [b \in Block |-> Replay(f.recs, a, b)]
    PROVE  p \in [Block -> Version] /\ Exact(f, p, a, top)
  <1>0. f.recs \in SUBSET Record /\ \A r \in f.recs : r \in Record
    BY Zenon DEF File
  <1>1. Clean \in Version /\ Clean.seq = 0
    BY Zenon DEF Clean, Version
  <1>2. ASSUME Counting, NEW b \in Block
        PROVE  /\ p[b] \in Version
               /\ p[b].seq # 0 =>
                    /\ [seq |-> p[b].seq, block |-> b, val |-> p[b].val] \in f.recs
                    /\ a < p[b].seq /\ p[b].seq <= top
               /\ \A r \in f.recs : r.block = b /\ a < r.seq => r.seq <= p[b].seq
    <2>1. p[b] = Replay(f.recs, a, b)
      BY Zenon
    <2>2. CASE p[b] = Clean /\ \A r \in f.recs : r.block = b => r.seq <= a
      <3>1. \A r \in f.recs : r.seq \in Nat
        BY <1>0, Zenon DEF Record
      <3> QED BY <1>1, <2>2, <3>1
    <2>3. CASE \E r \in f.recs : /\ r.block = b /\ a < r.seq
                                 /\ p[b] = [seq |-> r.seq, val |-> r.val]
                                 /\ \A q \in f.recs : q.block = b => q.seq <= r.seq
      <3>1. PICK r \in f.recs : /\ r.block = b /\ a < r.seq
                                /\ p[b] = [seq |-> r.seq, val |-> r.val]
                                /\ \A q \in f.recs : q.block = b => q.seq <= r.seq
        BY <2>3, Zenon
      <3>2. r \in Record /\ r = [seq |-> r.seq, block |-> r.block, val |-> r.val]
        BY <1>0, Zenon DEF Record
      <3>3. p[b].seq = r.seq /\ p[b].val = r.val /\ p[b] \in Version
        BY <3>1, <3>2 DEF Record, Version
      <3>4. [seq |-> p[b].seq, block |-> b, val |-> p[b].val] = r
        BY <3>1, <3>2, <3>3, Zenon
      <3> QED BY <3>1, <3>3, <3>4, Zenon
    <2>4. \/ p[b] = Clean /\ \A r \in f.recs : r.block = b => r.seq <= a
          \/ \E r \in f.recs : /\ r.block = b /\ a < r.seq
                               /\ p[b] = [seq |-> r.seq, val |-> r.val]
                               /\ \A q \in f.recs : q.block = b => q.seq <= r.seq
      BY <1>0, <2>1, ReplayFinds
    <2> QED BY <2>2, <2>3, <2>4, Zenon
  <1>3. p \in [Block -> Version]
    BY <1>2, Zenon
  <1>4. \A r \in f.recs : r.block \in Block
    BY <1>0, Zenon DEF Record
  <1> QED BY <1>2, <1>3, <1>4, Zenon DEF Exact

\* What a compaction of f down to the table p leaves: g, which keeps the records of f up to lim.
Shrunk(f, lim, g, p, k, a, top) ==
    /\ g \in File /\ g.kind = "ok" /\ g.id = f.id /\ g.base = k /\ g.ack = a /\ g.seq = top
    /\ g.recs \subseteq f.recs /\ \A r \in g.recs : a < r.seq /\ r.seq <= top
    /\ Exact(g, p, a, top) /\ Keeps(f, lim, g, top, a)

\* A compacted file keeps the durable records that are not acknowledged.
LEMMA CompactedKeeps ==
    ASSUME NEW f \in File, f.kind = "ok", NEW p \in [Block -> Version], NEW k \in Nat,
           NEW a \in Nat, NEW top \in Nat, Exact(f, p, a, top),
           NEW lim \in Nat, lim <= top, f.seq <= top, NEW g, g = Compacted(f.id, k, a, top, p)
    PROVE  Shrunk(f, lim, g, p, k, a, top)
  <1> DEFINE R == {[seq |-> p[c].seq, block |-> c, val |-> p[c].val] :
                     c \in {c \in Block : p[c].seq # 0}}
  <1>1. R \subseteq f.recs
    BY Zenon DEF Exact
  <1>2. \A r \in R : a < r.seq /\ r.seq <= top
    BY DEF Exact
  <1>3. \A b \in Block : p[b].seq # 0 => [seq |-> p[b].seq, block |-> b, val |-> p[b].val] \in R
    BY Zenon
  <1>4. g = [kind |-> "ok", id |-> f.id, base |-> k, ack |-> a, seq |-> top, recs |-> R]
    BY Zenon DEF Compacted
  <1> HIDE DEF R
  <1>5. f.recs \subseteq Record /\ f.id \in Nat /\ f.seq \in Nat
    BY Zenon DEF File
  <1>6. /\ g \in File /\ g.kind = "ok" /\ g.id = f.id /\ g.base = k /\ g.ack = a /\ g.seq = top
        /\ g.recs = R
    BY <1>1, <1>4, <1>5 DEF File
  <1>7. \A b \in Block : p[b].seq \in Nat /\ p[b].val \in Nat
    BY Zenon DEF Version
  <1>8. \A r \in f.recs : r.seq \in Nat /\ r.block \in Block
    BY <1>5, Zenon DEF Record
  <1>9. Exact(g, p, a, top)
    BY <1>1, <1>3, <1>6, Zenon DEF Exact
  <1>10. ASSUME NEW r \in f.recs, a < r.seq, r.seq <= lim
         PROVE  \E q \in R : q.block = r.block /\ r.seq <= q.seq /\ q.seq <= top
    <2> DEFINE q == [seq |-> p[r.block].seq, block |-> r.block, val |-> p[r.block].val]
    <2>1. r.seq <= p[r.block].seq
      BY <1>8, <1>10 DEF Exact
    <2>2. p[r.block].seq # 0
      BY <1>7, <1>8, <1>10, <2>1
    <2>3. q \in R /\ q.block = r.block /\ q.seq = p[r.block].seq
      BY <1>3, <1>8, <2>2, Zenon
    <2> HIDE DEF q
    <2> QED BY <1>2, <2>1, <2>3, Zenon
  <1>11. Keeps(f, lim, g, top, a)
    BY <1>1, <1>6, <1>10, Zenon DEF Keeps
  <1> QED BY <1>1, <1>2, <1>6, <1>9, <1>11, Zenon DEF Shrunk

\* A journal compacted to all its records restores the same.
LEMMA KeepsNewest ==
    ASSUME NEW f \in File, NEW g \in File, NEW lim \in Nat, NEW wide \in Nat, NEW a \in Nat,
           Keeps(f, lim, g, wide, a), \A r \in f.recs : r.seq <= lim, Ordered(f),
           NEW root \in Root, Fits(f, root), a <= Mark(f, root),
           NEW b \in Block, NEW v \in Nat, Newest(f, root, b, v)
    PROVE  Newest(g, root, b, v)
  <1>0. /\ Mark(f, root) \in Nat /\ root.map[b] \in Nat
        /\ \A r \in f.recs : r.seq \in Nat /\ r.val \in Nat
        /\ g.recs \subseteq f.recs
    BY NumbersOf, Zenon DEF Keeps
  <1>1. root.map[b] <= v /\ \A r \in g.recs : r.block = b => r.val <= v
    BY <1>0, Zenon DEF Newest
  <1>2. v = root.map[b] \/ \E q \in g.recs : q.block = b /\ q.val = v
    <2>1. CASE v = root.map[b]
      BY <2>1, Zenon
    <2>2. CASE \E r \in f.recs : r.block = b /\ r.val = v
      <3>1. PICK r \in f.recs : r.block = b /\ r.val = v
        BY <2>2, Zenon
      <3>2. CASE r.seq <= a
        <4>1. r.val <= root.map[b]
          BY <1>0, <3>1, <3>2 DEF Fits
        <4> QED BY <1>0, <1>1, <3>1, <4>1
      <3>3. CASE a < r.seq
        <4>1. PICK q \in g.recs : q.block = b /\ r.seq <= q.seq
          BY <3>1, <3>3, Zenon DEF Keeps
        <4>2. r.val <= q.val
          BY <1>0, <4>1 DEF Ordered
        <4>3. q.val = v
          BY <1>0, <1>1, <3>1, <4>1, <4>2
        <4> QED BY <4>1, <4>3, Zenon
      <3> QED BY <1>0, <3>2, <3>3
    <2> QED BY <2>1, <2>2, Zenon DEF Newest
  <1> QED BY <1>1, <1>2, Zenon DEF Newest

\* A journal that lost records restores nothing newer.
LEMMA FewerNewest ==
    ASSUME NEW f \in File, NEW g \in File, g.recs \subseteq f.recs, NEW root \in Root,
           NEW b \in Block, NEW v \in Nat, NEW w \in Nat,
           Newest(f, root, b, v), Newest(g, root, b, w)
    PROVE  w <= v
  <1>0. root.map[b] \in Nat /\ \A r \in f.recs : r.val \in Nat
    BY NumbersOf, Zenon
  <1> QED BY <1>0, Zenon DEF Newest

\* What the guest reads: a pending version, or the root's.
LEMMA PendingNewest ==
    ASSUME NEW f \in File, NEW root \in Root, Fits(f, root), Ordered(f),
           NEW p \in [Block -> Version], NEW top \in Nat, \A r \in f.recs : r.seq <= top,
           Exact(f, p, Mark(f, root), top), NEW b \in Block
    PROVE  Newest(f, root, b, IF p[b].seq # 0 THEN p[b].val ELSE root.map[b])
  <1> DEFINE a == Mark(f, root)
  <1>0. /\ a \in Nat /\ root.map[b] \in Nat /\ p[b].seq \in Nat /\ p[b].val \in Nat
        /\ \A r \in f.recs : r.seq \in Nat /\ r.val \in Nat
    BY NumbersOf, Zenon DEF Version
  <1>1. \A r \in f.recs : r.block = b => IF a < r.seq THEN root.map[b] < r.val
                                                      ELSE r.val <= root.map[b]
    BY Zenon DEF Fits
  <1>2. \A r \in f.recs : r.block = b /\ a < r.seq => r.seq <= p[b].seq
    BY Zenon DEF Exact
  <1> DEFINE q == [seq |-> p[b].seq, block |-> b, val |-> p[b].val]
  <1>3. p[b].seq # 0 => q \in f.recs /\ a < p[b].seq
    BY Zenon DEF Exact
  <1>4. q.seq = p[b].seq /\ q.block = b /\ q.val = p[b].val
    BY Zenon
  <1> HIDE DEF a, q
  <1>5. CASE p[b].seq # 0
    <2>1. root.map[b] < p[b].val
      BY <1>0, <1>1, <1>3, <1>4, <1>5, Zenon
    <2>2. ASSUME NEW r \in f.recs, r.block = b PROVE r.val <= p[b].val
      <3>1. CASE a < r.seq
        BY <1>0, <1>2, <1>3, <1>4, <1>5, <2>2, <3>1 DEF Ordered
      <3>2. CASE ~ (a < r.seq)
        BY <1>0, <1>1, <2>1, <2>2, <3>2
      <3> QED BY <3>1, <3>2, Zenon
    <2>3. Newest(f, root, b, p[b].val)
      BY <1>0, <1>3, <1>4, <1>5, <2>1, <2>2 DEF Newest
    <2> QED BY <1>5, <2>3, Zenon
  <1>6. CASE p[b].seq = 0
    <2>1. \A r \in f.recs : r.block = b => r.val <= root.map[b]
      BY <1>0, <1>1, <1>2, <1>6
    <2>2. Newest(f, root, b, root.map[b])
      BY <1>0, <2>1 DEF Newest
    <2> QED BY <1>6, <2>2, Zenon
  <1> QED BY <1>5, <1>6, Zenon

-----------------------------------------------------------------------------
(* Roots that follow one another. *)
LEMMA FollowsSound ==
    ASSUME NEW f \in File, NEW lim \in Nat, NEW old \in Root, NEW n \in Root,
           Sound(f, lim, old), Follows(f, lim, old, n)
    PROVE  /\ Sound(f, lim, n) /\ Mark(f, old) <= Mark(f, n)
           /\ \A b \in Block : old.map[b] <= n.map[b]
  <1>0. Mark(f, old) \in Nat /\ \A b \in Block : old.map[b] \in Nat
    BY NumbersOf, Zenon
  <1>1. CASE Copy(old, n)
    <2>1. Mark(f, n) = Mark(f, old) /\ n.map = old.map
      BY <1>1, Zenon DEF Copy, Mark
    <2>2. Fits(f, n)
      BY <2>1, Zenon DEF Sound, Fits
    <2>3. Covered(f, lim, n)
      BY <2>1, Zenon DEF Sound, Covered
    <2> QED BY <1>0, <2>1, <2>2, <2>3 DEF Sound
  <1>2. CASE Adds(f, lim, old, n)
    BY <1>2, Zenon DEF Adds, Mark
  <1> QED BY <1>1, <1>2, Zenon DEF Follows

\* A root that adds nothing to what a journal has acknowledged is a copy.
LEMMA FollowsCopies ==
    ASSUME NEW f \in File, NEW lim \in Nat, NEW old \in Root, NEW n \in Root,
           Follows(f, lim, old, n), \A r \in f.recs : r.seq <= Mark(f, old)
    PROVE  Copy(old, n)
  <1>0. Mark(f, old) \in Nat /\ \A r \in f.recs : r.seq \in Nat
    BY NumbersOf, Zenon
  <1> QED BY <1>0 DEF Follows, Adds

\* A bound on the chunks with records holds for a part of them.
LEMMA FewerBlocks ==
    ASSUME Counting, NEW f \in File, NEW g \in File, g.recs \subseteq f.recs,
           NEW a \in Nat, NEW c \in Nat, a <= c, NEW k \in Nat, Cardinality(Blocks(f, a)) <= k
    PROVE  Cardinality(Blocks(g, c)) <= k
  <1>1. \A r \in f.recs : r.seq \in Nat /\ r.block \in Block
    BY Zenon DEF File, Record
  <1>2. Blocks(g, c) \subseteq Blocks(f, a) /\ Blocks(f, a) \subseteq Block
    BY <1>1 DEF Blocks
  <1>3. /\ Cardinality(Blocks(g, c)) <= Cardinality(Blocks(f, a))
        /\ Cardinality(Blocks(g, c)) \in Nat /\ Cardinality(Blocks(f, a)) \in Nat
    BY <1>2, Zenon DEF Counting
  <1> QED BY <1>3

\* The journal as it is, with nothing less durable, keeps its records.
LEMMA SameKeeps ==
    ASSUME NEW f \in File, NEW lim \in Nat, NEW wide \in Nat, lim <= wide, NEW a \in Nat
    PROVE  Keeps(f, lim, f, wide, a)
  <1>1. f.seq \in Nat /\ \A r \in f.recs : r.seq \in Nat
    BY Zenon DEF File, Record
  <1> QED BY <1>1 DEF Keeps

\* Records up to here survive a crash of the host, and a compaction of a failed handle.
Lim == IF pc = "up" /\ seq < synced THEN seq ELSE synced

JournalTypeOK ==
    /\ remote \in Root /\ late \in SUBSET Root /\ reader \in Root
    /\ file \in File /\ synced \in Nat /\ evicting \in BOOLEAN /\ ids \in Nat
    /\ pc \in Pcs /\ failed \in BOOLEAN
    /\ base \in Nat /\ ack \in Nat /\ seq \in Nat /\ local \in Nat
    /\ pending \in [Block -> Version]
    /\ job \in [pc: {"idle", "read", "upload"}, next: Root, want: Map]
    /\ last \in Nat /\ written \in [Block -> SUBSET Nat]
    /\ stable \in Map /\ barrier \in Map

\* Every version there is, in a root or in the journal, was sent by the guest.
Genuine ==
    /\ \A b \in Block : 0 \in written[b] /\ \A v \in written[b] : v <= last
    /\ \A root \in {remote, reader, job.next} \cup late :
          root.id <= ids /\ \A b \in Block : root.map[b] \in written[b]
    /\ \A r \in file.recs : 0 < r.seq /\ r.seq <= last /\ r.val \in written[r.block]

Filed ==
    /\ Ordered(file)
    /\ \A r \in file.recs : file.ack < r.seq
    /\ file.ack <= file.seq /\ file.seq <= last /\ file.id <= ids
    /\ file.kind # "ok" => file.recs = {} /\ file.ack = 0
    /\ file.kind = "ok" => synced <= file.seq \/ \E r \in file.recs : r.seq = synced

\* Roots on their way that would be published if they arrived now.
InFlight == {n \in late \cup {job.next} : Current(n) /\ (n \in late \/ job.pc = "upload")}

Published ==
    /\ Sound(file, Lim, remote) /\ Agreed(file, remote)
    /\ file.kind = "ok" => file.base <= remote.rev
    /\ \A n \in late : n.rev <= remote.rev + 1
    /\ \A n \in InFlight : Follows(file, Lim, remote, n) /\ (pc # "down" => reader = remote)
    /\ evicting => pc = "down" /\ \A r \in file.recs : r.seq <= Mark(file, remote)

Reading ==
    pc # "down" =>
        /\ Sound(file, Lim, reader) /\ Agreed(file, reader)
        /\ file.kind = "ok" => file.base <= reader.rev
        /\ \/ reader = remote
           \/ reader.rev < remote.rev /\ Follows(file, Lim, reader, remote)

Closed ==
    pc # "up" => /\ ~failed /\ ack = 0 /\ seq = 0 /\ local = 0
                 /\ pending = [b \in Block |-> Clean]
                 /\ job.pc = "idle"
                 /\ pc = "new" => file.kind = "torn"

Opened ==
    pc = "up" =>
        /\ file.kind = "ok" /\ base = reader.rev /\ ack = Mark(file, reader)
        /\ seq <= last /\ file.seq <= seq
        /\ seq <= file.seq \/ \E r \in file.recs : r.seq = seq
        /\ Exact(file, pending, ack, seq)
        /\ ~failed => local <= synced /\ \A r \in file.recs : r.seq <= seq

Working ==
    /\ job.pc = "read" => /\ job.next \in {reader, remote}
                          /\ \A b \in Block : job.want[b] <= View(b)
    /\ job.pc = "upload" => /\ job.next.rev = reader.rev + 1
                            /\ \A b \in Block : job.want[b] <= job.next.map[b]

Saved ==
    /\ \A b \in Block : Firm(file, Lim, remote, b, stable[b])
    /\ BarrierHolds

Bounded ==
    /\ Cardinality(Blocks(file, Mark(file, remote))) <= DirtyLimit
    /\ pc = "up" => Cardinality(Blocks(file, ack)) <= DirtyLimit

JournalInv ==
    /\ Counting /\ JournalTypeOK /\ Genuine /\ Filed /\ Published /\ Reading /\ Closed /\ Opened
    /\ Working /\ Saved /\ Bounded

\* Counting is part of the invariant, so that it can be used in every step.
LEMMA Counts == JournalInv => Counting
  BY Zenon DEF JournalInv

-----------------------------------------------------------------------------
(* What the invariant says. *)
LEMMA LimIs ==
    ASSUME JournalTypeOK
    PROVE  Lim \in Nat /\ Lim <= synced /\ (pc = "up" => Lim <= seq)
  BY DEF JournalTypeOK, Lim

\* Whatever a root or the journal has was written before.
LEMMA Older ==
    ASSUME JournalTypeOK, Genuine
    PROVE  /\ \A root \in {remote, reader, job.next} \cup late :
                  root \in Root /\ \A b \in Block : root.map[b] < last + 1
           /\ \A r \in file.recs : r.seq \in Nat /\ r.seq < last + 1 /\ r.val < last + 1
  <1>0. /\ file.recs \subseteq Record /\ last \in Nat
        /\ \A b \in Block : written[b] \subseteq Nat
    BY Zenon DEF JournalTypeOK, File
  <1>1. \A root \in {remote, reader, job.next} \cup late : root \in Root
    BY Zenon DEF JournalTypeOK
  <1>2. \A root \in {remote, reader, job.next} \cup late : \A b \in Block : root.map[b] < last + 1
    BY <1>0 DEF Genuine
  <1>3. \A r \in file.recs : r.seq \in Nat /\ r.seq < last + 1 /\ r.val < last + 1
    BY <1>0 DEF Genuine, Record
  <1> QED BY <1>1, <1>2, <1>3, Zenon

\* What a reader restores: the newest version, sent by the guest, that is neither
\* older than the remote generation nor than the last flush.
Standing ==
    \A b \in Block :
        /\ Newest(file, remote, b, Restored(b))
        /\ Restored(b) \in Nat /\ Restored(b) \in written[b]
        /\ remote.map[b] <= Restored(b) /\ stable[b] <= Restored(b)
        /\ remote.map[b] \in written[b]

\* The invariant determines what a reader restores.
LEMMA Restores == JournalInv => Standing
  <1> SUFFICES ASSUME JournalInv, NEW b \in Block
               PROVE  /\ Newest(file, remote, b, Restored(b))
                      /\ Restored(b) \in Nat /\ Restored(b) \in written[b]
                      /\ remote.map[b] <= Restored(b) /\ stable[b] <= Restored(b)
                      /\ remote.map[b] \in written[b]
    BY Zenon DEF Standing
  <1>1. file \in File /\ remote \in Root /\ last \in Nat
    BY Zenon DEF JournalInv, JournalTypeOK
  <1>2. \A r \in file.recs : 0 < r.seq /\ r.seq <= last
    BY Zenon DEF JournalInv, Genuine
  <1>3. file.ack <= Mark(file, remote) /\ Fits(file, remote) /\ Ordered(file)
    BY Zenon DEF JournalInv, Published, Filed, Sound, Covered
  <1>4. Restored(b) = Rest(file, remote, b)
    BY Zenon DEF Restored, Rest
  <1>5. Newest(file, remote, b, Restored(b))
    BY <1>1, <1>2, <1>3, <1>4, RestIsNewest, Counts, Zenon
  <1>6. remote.map[b] \in written[b] /\ \A r \in file.recs : r.val \in written[r.block]
    BY Zenon DEF JournalInv, Genuine
  <1>7. Restored(b) \in written[b]
    BY <1>5, <1>6, Zenon DEF Newest
  <1>8. written[b] \subseteq Nat /\ stable[b] \in Nat
    BY Zenon DEF JournalInv, JournalTypeOK, Map
  <1>9. stable[b] <= Restored(b)
    <2>1. Firm(file, Lim, remote, b, stable[b])
      BY Zenon DEF JournalInv, Saved
    <2>2. \A r \in file.recs : r.val \in Nat
      BY <1>1, NumbersOf, Zenon
    <2> QED BY <1>5, <1>6, <1>7, <1>8, <2>1, <2>2 DEF Newest, Firm
  <1> QED BY <1>5, <1>6, <1>7, <1>8, <1>9, Zenon DEF Newest

\* What the disk serves: the pending version, else that of the root it reads.
LEMMA ViewIs ==
    ASSUME NEW b \in Block
    PROVE  View(b) = IF pending[b].seq # 0 THEN pending[b].val ELSE reader.map[b]
  BY Zenon DEF View, Dirty

\* A healthy disk serves the newest version, which is the one a replay restores.
LEMMA Serves ==
    ASSUME JournalInv, pc = "up", ~failed, NEW b \in Block
    PROVE  Newest(file, remote, b, View(b)) /\ View(b) = Restored(b)
  <1>1. /\ file \in File /\ remote \in Root /\ reader \in Root /\ pending \in [Block -> Version]
        /\ seq \in Nat /\ Lim \in Nat
    BY LimIs, Zenon DEF JournalInv, JournalTypeOK
  <1>2. /\ Exact(file, pending, Mark(file, reader), seq) /\ \A r \in file.recs : r.seq <= seq
        /\ Fits(file, reader) /\ Ordered(file)
    BY Zenon DEF JournalInv, Opened, Reading, Sound, Filed
  <1>3. Newest(file, reader, b, View(b))
    BY <1>1, <1>2, ViewIs, PendingNewest, Zenon
  <1>4. View(b) \in Nat
    BY <1>1, ViewIs DEF Root, Map, Version
  <1>5. reader = remote \/ Follows(file, Lim, reader, remote)
    BY Zenon DEF JournalInv, Reading
  <1>6. Newest(file, remote, b, View(b))
    BY <1>1, <1>3, <1>4, <1>5, FollowsNewest, Zenon
  <1> QED BY <1>1, <1>4, <1>6, Restores, NewestOnce, Zenon DEF Standing

\* What the remote root covers while the journal is open.
LEMMA RemoteAhead ==
    ASSUME JournalInv, pc # "down"
    PROVE  /\ Mark(file, reader) <= Mark(file, remote)
           /\ \A b \in Block : reader.map[b] <= remote.map[b]
           /\ Mark(file, reader) \in Nat /\ Mark(file, remote) \in Nat
           /\ reader.rev <= remote.rev /\ (reader.rev = remote.rev => reader = remote)
  <1>1. /\ file \in File /\ remote \in Root /\ reader \in Root /\ Lim \in Nat
        /\ remote.rev \in Nat /\ reader.rev \in Nat
    BY LimIs, Zenon DEF JournalInv, JournalTypeOK, Root
  <1>2. \/ reader = remote
        \/ reader.rev < remote.rev /\ Follows(file, Lim, reader, remote)
    BY Zenon DEF JournalInv, Reading
  <1>3. Sound(file, Lim, reader)
    BY Zenon DEF JournalInv, Reading
  <1>4. Mark(file, reader) \in Nat /\ \A b \in Block : reader.map[b] \in Nat
    BY <1>1, NumbersOf, Zenon
  <1>5. Mark(file, remote) \in Nat
    BY <1>1, NumbersOf, Zenon
  <1>6. CASE reader = remote
    BY <1>1, <1>4, <1>6
  <1>7. CASE reader.rev < remote.rev /\ Follows(file, Lim, reader, remote)
    BY <1>1, <1>3, <1>4, <1>5, <1>7, FollowsSound
  <1> QED BY <1>2, <1>6, <1>7, Zenon

\* The mark of the remote root lies within the journal.
LEMMA RemoteWithin ==
    ASSUME JournalInv, file.kind = "ok"
    PROVE  /\ Mark(file, remote) <= synced \/ Mark(file, remote) <= file.seq
           /\ pc = "up" => Mark(file, remote) <= seq
  <1>1. /\ file \in File /\ remote \in Root /\ Lim \in Nat /\ Lim <= synced /\ synced \in Nat
        /\ seq \in Nat /\ (pc = "up" => Lim <= seq)
    BY LimIs, Zenon DEF JournalInv, JournalTypeOK
  <1>2. Mark(file, remote) \in Nat /\ file.seq \in Nat
    BY <1>1, NumbersOf, Zenon
  <1>3. Mark(file, remote) <= Lim \/ Mark(file, remote) <= file.seq
    BY Zenon DEF JournalInv, Published, Sound, Covered
  <1>4. pc = "up" => file.seq <= seq
    BY Zenon DEF JournalInv, Opened
  <1> QED BY <1>1, <1>2, <1>3, <1>4

\* What a step that keeps the durable records keeps of a root that fits.
LEMMA Kept ==
    ASSUME JournalInv, file' \in File, Lim' \in Nat, NEW a \in Nat,
           Keeps(file, Lim, file', Lim', a), NEW root \in Root, Sound(file, Lim, root),
           a <= Mark(file, root), file'.ack <= Mark(file, root)
    PROVE  /\ Ordered(file') /\ Sound(file', Lim', root)
           /\ Mark(file', root) = Mark(file, root)
           /\ \A n \in Root : Follows(file, Lim, root, n) => Follows(file', Lim', root, n)
           /\ \A b \in Block : \A v \in Nat :
                 Firm(file, Lim, root, b, v) => Firm(file', Lim', root, b, v)
  <1>1. file \in File /\ Lim \in Nat
    BY LimIs, Zenon DEF JournalInv, JournalTypeOK
  <1>2. Ordered(file) /\ Fits(file, root)
    BY Zenon DEF JournalInv, Filed, Sound
  <1>3. Ordered(file')
    BY <1>2, Zenon DEF Ordered, Keeps
  <1>4. Sound(file', Lim', root) /\ Mark(file', root) = Mark(file, root)
    BY <1>1, <1>2, KeepsSound
  <1>5. \A n \in Root : Follows(file, Lim, root, n) => Follows(file', Lim', root, n)
    BY <1>1, <1>2, KeepsFollows, Zenon
  <1>6. \A b \in Block : \A v \in Nat :
          Firm(file, Lim, root, b, v) => Firm(file', Lim', root, b, v)
    BY <1>1, <1>2, KeepsFirm, Zenon
  <1> QED BY <1>3, <1>4, <1>5, <1>6, Zenon

\* The end of the present file.
LEMMA TopIs ==
    ASSUME JournalInv
    PROVE  /\ Top(file) \in Nat /\ file.seq <= Top(file)
           /\ \A r \in file.recs : r.seq <= Top(file)
           /\ Top(file) = file.seq \/ \E r \in file.recs : r.seq = Top(file)
           /\ file.kind = "ok" => synced <= Top(file)
           /\ Top(file) <= last
  <1>1. /\ file \in File /\ last \in Nat /\ file.seq \in Nat /\ synced \in Nat
        /\ \A r \in file.recs : r.seq \in Nat
    BY Zenon DEF JournalInv, JournalTypeOK, File, Record
  <1>2. \A r \in file.recs : r.seq <= last
    BY Zenon DEF JournalInv, Genuine
  <1>3. /\ Top(file) \in Nat /\ file.seq <= Top(file)
        /\ \A r \in file.recs : r.seq <= Top(file)
        /\ Top(file) = file.seq \/ \E r \in file.recs : r.seq = Top(file)
    BY <1>1, <1>2, TopFinds, Counts, Zenon
  <1>4. file.seq <= last
    BY Zenon DEF JournalInv, Filed
  <1>5. file.kind = "ok" => synced <= Top(file)
    BY <1>1, <1>3 DEF JournalInv, Filed
  <1> QED BY <1>2, <1>3, <1>4, <1>5, Zenon

-----------------------------------------------------------------------------
(* The steps of the disk that the journal implements. *)

\* Nothing is written or flushed: the remote generation moves forward, and what is
\* restored stays, or loses something while the disk does not serve.
Settles ==
    /\ UNCHANGED guest
    /\ \A b \in Block : remote.map[b] <= remote'.map[b]
    /\ \A b \in Block : \A v \in Nat :
          Newest(file, remote, b, v) => Newest(file, remote', b, v)
    /\ \/ \A b \in Block : \A v \in Nat :
              Newest(file, remote', b, v) => Newest(file', remote', b, v)
       \/ ~ Up' /\ file'.recs \subseteq file.recs

\* What Settles says is a step of DurableDisk that loses nothing flushed.
LEMMA Settled ==
    ASSUME JournalInv, JournalInv', Settles
    PROVE  Promise!DSettle
  <1>0. Standing /\ Standing'
    BY Restores, PTL
  <1>1. \A b \in Block :
          /\ Newest(file, remote', b, Restored(b)) /\ Newest(file', remote', b, Restored(b)')
          /\ Restored(b) \in Nat /\ Restored(b)' \in Nat
    BY <1>0, Zenon DEF Standing, Settles
  <1>2. file \in File /\ file' \in File /\ remote' \in Root
    BY Zenon DEF JournalInv, JournalTypeOK
  <1>3. \A b \in Block :
          /\ Restored(b)' \in written[b] /\ stable[b] <= Restored(b)'
          /\ remote'.map[b] <= Restored(b)' /\ remote'.map[b] \in written[b]
    BY <1>0, Zenon DEF Settles, guest, Standing
  <1>4. CASE \A b \in Block : \A v \in Nat :
                Newest(file, remote', b, v) => Newest(file', remote', b, v)
    <2>1. \A b \in Block : Restored(b)' = Restored(b)
      BY <1>1, <1>2, <1>4, NewestOnce, Zenon
    <2>2. [b \in Block |-> Restored(b)'] = [b \in Block |-> Restored(b)]
      BY <2>1, Zenon
    <2>3. \A b \in Block : Restored(b)' <= Restored(b)
      BY <1>1, <2>1
    <2> QED BY <1>3, <2>2, <2>3, Zenon DEF Promise!DSettle, Settles, guest, Up
  <1>5. CASE ~ Up' /\ file'.recs \subseteq file.recs
    <2>1. \A b \in Block : Restored(b)' <= Restored(b)
      BY <1>1, <1>2, <1>5, FewerNewest, Zenon
    <2> QED BY <1>3, <1>5, <2>1, Zenon DEF Promise!DSettle, Settles, guest, Up
  <1> QED BY <1>4, <1>5, Zenon DEF Settles

\* The idle job and the image that a disk starts from.
LEMMA IdleIs ==
    /\ Idle.next = Image /\ Idle.pc = "idle" /\ Image \in Root /\ Image.id = 0
    /\ \A b \in Block : Image.map[b] = 0
    /\ Idle \in [pc: {"idle", "read", "upload"}, next: Root, want: Map]
  BY Zenon DEF Idle, Image, Root, Map

\* The roots that are known, and the one a fresh process starts from.
LEMMA Known ==
    ASSUME JournalInv
    PROVE  \A n \in {remote, reader, job.next, Image} \cup late :
              n \in Root /\ n.id <= ids /\ \A b \in Block : n.map[b] \in written[b]
  <1>1. ids \in Nat /\ \A b \in Block : 0 \in written[b]
    BY Zenon DEF JournalInv, JournalTypeOK, Genuine
  <1>2. Image \in Root /\ Image.id <= ids /\ \A b \in Block : Image.map[b] \in written[b]
    BY <1>1, IdleIs
  <1>3. \A n \in {remote, reader, job.next} \cup late :
           n \in Root /\ n.id <= ids /\ \A b \in Block : n.map[b] \in written[b]
    BY Zenon DEF JournalInv, JournalTypeOK, Genuine
  <1> QED BY <1>2, <1>3, Zenon

\* What an open journal has in memory.
LEMMA Holding ==
    ASSUME JournalInv, pc = "up"
    PROVE  /\ reader \in Root /\ remote \in Root /\ file \in File /\ file.kind = "ok"
           /\ ack = Mark(file, reader) /\ ack \in Nat /\ base = reader.rev /\ seq \in Nat
           /\ pending \in [Block -> Version] /\ Exact(file, pending, ack, seq)
           /\ \A b \in Block : View(b) \in Nat
           /\ job \in [pc: {"idle", "read", "upload"}, next: Root, want: Map]
           /\ barrier \in Map
           /\ reader.rev \in Nat /\ remote.rev \in Nat
  <1>1. /\ reader \in Root /\ remote \in Root /\ file \in File /\ file.kind = "ok"
        /\ ack = Mark(file, reader) /\ ack \in Nat /\ base = reader.rev /\ seq \in Nat
        /\ pending \in [Block -> Version] /\ Exact(file, pending, ack, seq)
        /\ job \in [pc: {"idle", "read", "upload"}, next: Root, want: Map]
        /\ barrier \in Map
    BY Zenon DEF JournalInv, JournalTypeOK, Opened
  <1>2. \A b \in Block : View(b) \in Nat
    BY <1>1, ViewIs DEF Root, Map, Version
  <1>3. reader.rev \in Nat /\ remote.rev \in Nat
    BY <1>1, Zenon DEF Root
  <1> QED BY <1>1, <1>2, <1>3, Zenon

\* A root on its way is published: it fits the journal as the old one did.
LEMMA Publishes ==
    ASSUME JournalInv, NEW n \in Root, Follows(file, Lim, remote, n), n.rev = remote.rev + 1
    PROVE  /\ Sound(file, Lim, n) /\ Mark(file, remote) <= Mark(file, n)
           /\ Agreed(file, n) /\ (file.kind = "ok" => file.base <= n.rev)
           /\ \A b \in Block : remote.map[b] <= n.map[b]
           /\ \A b \in Block : Firm(file, Lim, n, b, stable[b])
           /\ \A b \in Block : barrier[b] <= n.map[b]
           /\ Cardinality(Blocks(file, Mark(file, n))) <= DirtyLimit
           /\ \A m \in late : m.rev <= n.rev
           /\ (job.pc = "upload" => job.next.rev <= n.rev)
           /\ \A b \in Block : \A v \in Nat :
                 Newest(file, remote, b, v) => Newest(file, n, b, v)
  <1>1. /\ file \in File /\ remote \in Root /\ Lim \in Nat /\ remote.rev \in Nat
        /\ n.rev \in Nat /\ file.base \in Nat /\ DirtyLimit \in Nat
        /\ stable \in Map /\ barrier \in Map
    BY LimIs, JournalAssumption, Zenon DEF JournalInv, JournalTypeOK, Root, File
  <1>2. Sound(file, Lim, remote)
    BY Zenon DEF JournalInv, Published
  <1>3. /\ Sound(file, Lim, n) /\ Mark(file, remote) <= Mark(file, n)
        /\ \A b \in Block : remote.map[b] <= n.map[b]
    BY <1>1, <1>2, FollowsSound, Zenon
  <1>4. /\ Agreed(file, n) /\ (file.kind = "ok" => file.base <= n.rev)
    BY <1>1 DEF JournalInv, Published, Agreed
  <1>5. /\ Mark(file, remote) \in Nat /\ Mark(file, n) \in Nat
        /\ \A b \in Block : remote.map[b] \in Nat /\ n.map[b] \in Nat
        /\ \A b \in Block : stable[b] \in Nat /\ barrier[b] \in Nat
    BY <1>1, NumbersOf, Zenon DEF Map
  <1>6. \A b \in Block : Firm(file, Lim, n, b, stable[b])
    <2>1. \A b \in Block : Firm(file, Lim, remote, b, stable[b])
      BY Zenon DEF JournalInv, Saved
    <2> QED BY <1>3, <1>5, <2>1 DEF Firm
  <1>7. \A b \in Block : barrier[b] <= n.map[b]
    BY <1>3, <1>5 DEF JournalInv, Saved, BarrierHolds
  <1>8. Cardinality(Blocks(file, Mark(file, n))) <= DirtyLimit
    BY <1>1, <1>3, <1>5, FewerBlocks, Counts, Zenon DEF JournalInv, Bounded
  <1>9. \A m \in late : m.rev <= n.rev
    BY Zenon DEF JournalInv, Published
  <1>10. job.pc = "upload" => job.next.rev <= n.rev
    <2> SUFFICES ASSUME job.pc = "upload" PROVE job.next.rev <= n.rev
      BY Zenon
    <2>1. job.next.rev = reader.rev + 1 /\ pc # "down" /\ reader.rev \in Nat
      BY Zenon DEF JournalInv, JournalTypeOK, Working, Closed, Root
    <2> QED BY <1>1, <2>1, RemoteAhead
  <1>11. \A b \in Block : \A v \in Nat : Newest(file, remote, b, v) => Newest(file, n, b, v)
    BY <1>1, FollowsNewest, Zenon
  <1> QED BY <1>3, <1>4, <1>6, <1>7, <1>8, <1>9, <1>10, <1>11, Zenon

\* A root that carries the journal's mark can be replayed against.
LEMMA MarkReplays ==
    ASSUME JournalInv, file.kind = "ok", NEW root \in Root, root.id = file.id,
           root = remote \/ Follows(file, Lim, remote, root)
    PROVE  root.seq <= Larger(synced, file.seq) /\ Openable(file, root)
  <1>1. /\ file \in File /\ remote \in Root /\ Lim \in Nat /\ synced \in Nat /\ Lim <= synced
        /\ DirtyLimit \in Nat
    BY LimIs, JournalAssumption DEF JournalInv, JournalTypeOK
  <1>2. /\ Mark(file, root) = root.seq /\ root.seq \in Nat /\ Mark(file, remote) \in Nat
        /\ file.seq \in Nat /\ file.ack \in Nat
    BY <1>1, NumbersOf, Zenon DEF Mark
  <1>3. Sound(file, Lim, root) /\ Mark(file, remote) <= root.seq
    <2>1. Sound(file, Lim, remote)
      BY Zenon DEF JournalInv, Published
    <2>2. CASE root = remote
      BY <1>2, <2>1, <2>2
    <2>3. CASE Follows(file, Lim, remote, root)
      BY <1>1, <1>2, <2>1, <2>3, FollowsSound
    <2> QED BY <2>2, <2>3, Zenon
  <1>4. file.ack <= root.seq /\ (root.seq <= Lim \/ root.seq <= file.seq)
    BY <1>2, <1>3, Zenon DEF Sound, Covered
  <1>5. root.seq <= Larger(synced, file.seq)
    BY <1>1, <1>2, <1>4 DEF Larger
  <1>6. root.seq <= Top(file)
    BY <1>1, <1>2, <1>4, TopIs
  <1>7. ReplayAck(file, root) = root.seq
    BY <1>1, <1>2, <1>4, ReplayMark, Zenon
  <1>8. Cardinality(Blocks(file, root.seq)) <= DirtyLimit
    BY <1>1, <1>2, <1>3, FewerBlocks, Counts DEF JournalInv, Bounded
  <1>9. /\ file.ack <= file.seq
        /\ \A r \in file.recs : r.seq >= file.ack
    <2>1. \A r \in file.recs : r.seq \in Nat
      BY <1>1, NumbersOf, Zenon
    <2>2. /\ file.ack <= file.seq /\ file.ack \in Nat
          /\ \A r \in file.recs : file.ack < r.seq
      BY <1>1, <1>2, Zenon DEF JournalInv, Filed, File
    <2> QED BY <2>1, <2>2
  <1>10. Openable(file, root)
    BY <1>4, <1>6, <1>7, <1>8, <1>9 DEF Openable, Acceptable, Blocks
  <1> QED BY <1>5, <1>10

\* The invariant implies the two safety properties.
LEMMA Honest ==
    ASSUME JournalInv
    PROVE  ReadsWhatReplays /\ MarksHonest
  <1>1. ReadsWhatReplays
    BY Serves, Zenon DEF ReadsWhatReplays, Up
  <1>2. MarkBehindJournal
    <2>1. \A root \in {remote} \cup {n \in late : Current(n)} :
            root \in Root /\ (root = remote \/ Follows(file, Lim, remote, root))
      BY Zenon DEF JournalInv, JournalTypeOK, Published, InFlight
    <2> QED BY <2>1, MarkReplays DEF MarkBehindJournal
  <1>3. StatusHonest
    <2>1. ASSUME pc = "up", ack > 0 PROVE remote.id = file.id /\ ack <= remote.seq
      <3>1. ack = Mark(file, reader) /\ ack \in Nat
        BY <2>1, Zenon DEF JournalInv, JournalTypeOK, Opened
      <3>2. ack <= Mark(file, remote) /\ Mark(file, remote) \in Nat
        BY <2>1, <3>1, RemoteAhead
      <3> QED BY <2>1, <3>1, <3>2 DEF Mark
    <2>2. Up => local <= synced
      BY Zenon DEF JournalInv, Opened, Up
    <2> QED BY <2>1, <2>2, Zenon DEF StatusHonest, Up
  <1> QED BY <1>1, <1>2, <1>3 DEF MarksHonest, JournalInv, Saved

\* The invariant is kept when nothing changes.
LEMMA Stutters ==
    ASSUME JournalInv, UNCHANGED vars
    PROVE  JournalInv' /\ UNCHANGED Promise!dvars
  <1>0. UNCHANGED <<remote, late, file, synced, evicting, ids, pc, failed, base, ack, seq, local,
                    pending, reader, job, last, written, stable, barrier>>
    BY Zenon DEF vars, store, disk, state, guest
  <1>1. /\ Lim' = Lim /\ InFlight' = InFlight /\ BarrierHolds' = BarrierHolds
        /\ \A b \in Block : View(b)' = View(b) /\ Restored(b)' = Restored(b)
    BY <1>0, Zenon DEF Lim, InFlight, Current, BarrierHolds, View, Dirty, Restored
  <1>2. JournalTypeOK' /\ Genuine' /\ Filed' /\ Published' /\ Reading'
    BY <1>0, <1>1, ZenonT(40) DEF JournalInv, JournalTypeOK, Genuine, Filed, Published, Reading
  <1>3. Closed' /\ Opened' /\ Working' /\ Saved' /\ Bounded'
    BY <1>0, <1>1, Zenon DEF JournalInv, Closed, Opened, Working, Saved, Bounded
  <1>4. JournalInv'
    BY <1>2, <1>3, Zenon DEF JournalInv
  <1>5. [b \in Block |-> Restored(b)'] = [b \in Block |-> Restored(b)]
    BY <1>1, Zenon
  <1> QED BY <1>0, <1>4, <1>5, Zenon DEF Promise!dvars, Up

=============================================================================
