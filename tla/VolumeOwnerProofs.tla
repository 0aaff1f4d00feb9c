------------------------- MODULE VolumeOwnerProofs -------------------------
(***************************************************************************)
(* Proofs about VolumeOwner, for every set of directories and every bound. *)
(*                                                                         *)
(* The argument is the one owned.rs relies on.  A replacement is prepared  *)
(* from a head that was read earlier, and it lands only on that very head  *)
(* (SeenInv), so at the moment it lands what the code checked on the head  *)
(* it read still holds (Legal).  Everything else follows from Legal.       *)
(***************************************************************************)
EXTENDS VolumeOwner, TLAPS

\* A head read earlier is the current head, or the store has moved on.
Seen(h) == h.rev <= head.rev /\ (h.rev = head.rev => h = head)

HasDurable(d) == ident[d].disk = "durable"

\* The replacements the code may ask for, judged against the current head.
Legal(n) ==
    \/ head.kind = "absent" /\ n = Imported(head)
    \/ head.kind = "plain" /\ n = Enrolled(head)
    \/ head.kind # "tomb" /\ n = Tombstone(head)
    \/ head.owner # None /\ n = Released(head)
    \/ \E d \in Dir : /\ HasDurable(d) /\ Matches(head, ident[d])
                      /\ n = PublishedBy(head, ident[d])
    \/ \E d \in Dir : /\ HasDurable(d) /\ head.kind = "owned"
                      /\ Claimable(head, ident[d]) /\ n = ClaimedBy(head, ident[d])

HeadInv ==
    /\ head.rev = 0 => head = NoHead
    /\ head.kind \in {"absent", "plain"} => head.epoch = 0
    /\ head.owner # None => head.kind = "owned" /\ head.owner \in granted

\* Tokens are unique, and a token that ever owned the volume is durable and
\* belongs to an epoch that has begun.
IdentInv ==
    /\ granted \subseteq 1..fresh
    /\ \A d \in Dir : /\ ident[d].disk = "none" => ident[d].token = None
                      /\ ident[d].disk # "none" => ident[d].token \in 1..fresh
                      /\ ident[d].token \in granted =>
                            HasDurable(d) /\ ident[d].epoch <= head.epoch
    /\ \A d, e \in Dir :
          ident[d].disk # "none" /\ ident[d].token = ident[e].token => d = e

LateInv == \A n \in late : n.rev <= head.rev + 1 /\ (Current(n) => Legal(n))

Core == HeadInv /\ IdentInv /\ OwnerIsDurable /\ LateInv

\* What the program counter of the lock holder says about what it has read.
HandleOK(d) ==
    /\ Seen(handle[d].seen)
    /\ handle[d].pc \in {"head", "ident", "synced"} => handle[d].seen.kind = "owned"
    /\ handle[d].pc = "ident" => ident[d].disk \in {"cached", "durable"}
    /\ handle[d].pc \notin {"closed", "head", "ident"} => HasDurable(d)
    /\ handle[d].pc \in {"commit", "releasing", "burying"} =>
          Matches(handle[d].seen, ident[d])

HandleInv == \A d \in Dir : HandleOK(d)

AdminInv ==
    /\ Seen(admin.seen)
    /\ admin.op = "enroll" => admin.seen.kind = "plain"
    /\ admin.op = "retire" => admin.seen.kind # "tomb" /\ admin.seen.owner = None

IInv == TypeOK /\ Core /\ HandleInv /\ AdminInv

(***************************************************************************)
(* The replacements are heads.                                             *)
(***************************************************************************)
LEMMA PutTypes ==
    ASSUME NEW h \in Heads, NEW i \in Identity
    PROVE  /\ Imported(h) \in Heads /\ Enrolled(h) \in Heads
           /\ ClaimedBy(h, i) \in Heads /\ PublishedBy(h, i) \in Heads
           /\ Released(h) \in Heads /\ Tombstone(h) \in Heads
           /\ Imported(h).rev = h.rev + 1 /\ Enrolled(h).rev = h.rev + 1
           /\ ClaimedBy(h, i).rev = h.rev + 1 /\ PublishedBy(h, i).rev = h.rev + 1
           /\ Released(h).rev = h.rev + 1 /\ Tombstone(h).rev = h.rev + 1
  BY DEF Replacement, Imported, Enrolled, ClaimedBy, PublishedBy, Released, Tombstone,
         Heads, Kinds, Identity, None

(***************************************************************************)
(* One accepted replacement: the store's part of the invariant survives it *)
(* and the abstract specification takes a step.                            *)
(***************************************************************************)
LEMMA LandKeepsCore ==
    ASSUME IInv, NEW n \in Heads, Legal(n), Land(n), UNCHANGED <<ident, fresh>>,
           late' \subseteq late
    PROVE  Core' /\ head' \in Heads /\ granted' \subseteq Nat /\ Promise!ANext
  <1> USE DEF None
  <1>1. /\ head' = n /\ n.rev = head.rev + 1 /\ head \in Heads
        /\ granted' = granted \cup ({n.owner} \ {None})
        /\ ident' = ident /\ fresh' = fresh
    BY Zenon DEF Land, Current, IInv, TypeOK
  <1>2. LateInv'
    <2>1. \A m \in late' : m \in Heads /\ m.rev <= head.rev + 1
      BY Zenon DEF IInv, Core, LateInv, TypeOK
    <2>2. \A m \in late' : m.rev <= n.rev + 1 /\ m.rev # n.rev + 1
      BY <2>1, <1>1 DEF Heads
    <2> QED BY <2>2, <1>1, Zenon DEF LateInv, Current
  <1>3. \A d \in Dir : ident[d] \in Identity
    BY Zenon DEF IInv, TypeOK
  <1>4. HeadInv /\ IdentInv /\ OwnerIsDurable /\ granted \subseteq Nat /\ fresh \in Nat
    BY Zenon DEF IInv, Core, TypeOK
  \* What every replacement does to the epoch and to the owner.
  <1> DEFINE Kept == /\ n.epoch >= head.epoch
                     /\ n.kind \in {"absent", "plain"} => n.epoch = 0
                     /\ n.owner # None =>
                           /\ n.kind = "owned"
                           /\ \E d \in Dir : HasDurable(d) /\ Matches(n, ident[d])
  <1>5. Kept /\ Promise!ANext
    <2>1. CASE head.kind = "absent" /\ n = Imported(head)
      BY <2>1, <1>1, <1>4 DEF Imported, Replacement, HeadInv, Heads,
         Promise!ANext, Promise!AImport
    <2>2. CASE head.kind = "plain" /\ n = Enrolled(head)
      BY <2>2, <1>1, <1>4 DEF Enrolled, Replacement, HeadInv, Heads,
         Promise!ANext, Promise!AEnroll
    <2>3. CASE head.kind # "tomb" /\ n = Tombstone(head)
      BY <2>3, <1>1, <1>4 DEF Tombstone, Replacement, HeadInv, Heads,
         Promise!ANext, Promise!ARetire, Promise!Nobody
    <2>4. CASE head.owner # None /\ n = Released(head)
      BY <2>4, <1>1, <1>4 DEF Released, Replacement, HeadInv, Heads,
         Promise!ANext, Promise!ARelease, Promise!Nobody
    <2>5. CASE \E d \in Dir : /\ HasDurable(d) /\ Matches(head, ident[d])
                              /\ n = PublishedBy(head, ident[d])
      <3>1. PICK d \in Dir : /\ HasDurable(d) /\ Matches(head, ident[d])
                             /\ n = PublishedBy(head, ident[d])
        BY <2>5, Zenon
      <3>2. ident[d].token # None
        BY <3>1, <1>4 DEF IdentInv, HasDurable
      <3>3. Kept
        BY <3>1, <3>2, <1>1, <1>3 DEF PublishedBy, Replacement, Matches, Heads, Identity
      <3>4. head.owner \in granted
        BY <3>1, <3>2, <1>4, Zenon DEF HeadInv, Matches
      <3>5. Promise!APublish
        BY <3>1, <3>2, <3>4, <1>1, <1>3 DEF PublishedBy, Replacement, Matches, Heads,
           Identity, Promise!APublish, Promise!Nobody
      <3> QED BY <3>3, <3>5, Zenon DEF Promise!ANext
    <2>6. CASE \E d \in Dir : /\ HasDurable(d) /\ head.kind = "owned"
                              /\ Claimable(head, ident[d]) /\ n = ClaimedBy(head, ident[d])
      <3>1. PICK d \in Dir : /\ HasDurable(d) /\ head.kind = "owned"
                             /\ Claimable(head, ident[d]) /\ n = ClaimedBy(head, ident[d])
        BY <2>6, Zenon
      <3>2. ident[d].token # None
        BY <3>1, <1>4 DEF IdentInv, HasDurable
      <3>3. ident[d].token \notin granted
        BY <3>1, <1>1, <1>3, <1>4 DEF IdentInv, Claimable, Heads, Identity
      <3>4. Kept
        BY <3>1, <3>2, <1>1, <1>3 DEF ClaimedBy, Replacement, Matches, Claimable, Heads,
           Identity
      <3>5. Promise!AGrant
        BY <3>1, <3>2, <3>3, <1>1, <1>3 DEF ClaimedBy, Replacement, Claimable, Heads,
           Identity, Promise!AGrant, Promise!Nobody
      <3> QED BY <3>4, <3>5, Zenon DEF Promise!ANext
    <2> QED BY <2>1, <2>2, <2>3, <2>4, <2>5, <2>6, Zenon DEF Legal
  <1>6. HeadInv'
    BY <1>1, <1>5 DEF HeadInv, Heads
  <1>7. OwnerIsDurable'
    BY <1>1, <1>5, Zenon DEF OwnerIsDurable, HasDurable
  <1>8. IdentInv'
    <2>1. \A d \in Dir : ident[d].disk # "none" /\ ident[d].token = n.owner =>
                         n.owner # None /\ HasDurable(d) /\ ident[d].epoch = n.epoch
      BY <1>3, <1>4, <1>5 DEF IdentInv, HasDurable, Matches, Heads, Identity
    <2>2. n.owner # None => n.owner \in 1..fresh
      BY <1>4, <1>5, Zenon DEF IdentInv, HasDurable, Matches
    <2>3. granted' \subseteq 1..fresh
      BY Zenon, <2>2, <1>1, <1>4 DEF IdentInv
    <2>4. ASSUME NEW d \in Dir, ident[d].token \in granted'
          PROVE  HasDurable(d) /\ ident[d].epoch <= n.epoch
      <3>1. CASE ident[d].token \in granted
        BY <3>1, <1>1, <1>3, <1>4, <1>5 DEF IdentInv, Heads, Identity
      <3>2. CASE ident[d].token = n.owner /\ n.owner # None
        BY <3>2, <2>1, <1>3, <1>4 DEF IdentInv, Identity
      <3> QED BY <2>4, <3>1, <3>2, <1>1, Zenon
    <2> QED BY <2>3, <2>4, <1>1, <1>4 DEF IdentInv, HasDurable
  <1> QED BY Zenon, <1>1, <1>2, <1>4, <1>5, <1>6, <1>7, <1>8 DEF Core, Heads

\* A conditional PUT, whatever its outcome.
LEMMA CasKeepsCore ==
    ASSUME IInv, NEW n \in Heads, n.rev <= head.rev + 1, Current(n) => Legal(n),
           CasOk(n) \/ CasFail(n), UNCHANGED <<ident, fresh>>
    PROVE  /\ Core' /\ head' \in Heads /\ granted' \subseteq Nat /\ late' \subseteq Heads
           /\ head' = head \/ head'.rev = head.rev + 1
           /\ [Promise!ANext]_(Promise!avars)
  <1>1. CASE CasOk(n)
    <2>1. Land(n) /\ Current(n) /\ late' = late
      BY <1>1, Zenon DEF CasOk, Land
    <2> QED BY <2>1, LandKeepsCore, Zenon DEF IInv, TypeOK, Land, Current
  <1>2. CASE UNCHANGED <<head, late, granted>>
    BY <1>2 DEF IInv, TypeOK, Core, HeadInv, IdentInv, OwnerIsDurable, LateInv, Legal,
       Current, HasDurable, Promise!avars
  <1>3. CASE late' = late \cup {n} /\ UNCHANGED <<head, granted>>
    BY <1>3 DEF IInv, TypeOK, Core, HeadInv, IdentInv, OwnerIsDurable, LateInv, Legal,
       Current, HasDurable, Promise!avars
  <1> QED BY <1>1, <1>2, <1>3, Zenon DEF CasFail, CasConflict, CasLost

\* A step that leaves the store and the identities alone.
LEMMA IdleKeepsCore ==
    ASSUME IInv, UNCHANGED <<head, late, granted, ident, fresh>>
    PROVE  Core' /\ [Promise!ANext]_(Promise!avars)
  BY DEF IInv, Core, HeadInv, IdentInv, OwnerIsDurable, LateInv, Legal, Current,
     HasDurable, Promise!avars

\* What was read earlier stays a current or an overtaken head.
LEMMA SeenKept ==
    ASSUME head \in Heads, head' \in Heads, head' = head \/ head'.rev = head.rev + 1,
           NEW h \in Heads, Seen(h)
    PROVE  h.rev <= head'.rev /\ (h.rev = head'.rev => h = head')
  BY DEF Seen, Heads

\* A step of somebody else does not disturb directory e.
LEMMA OthersKept ==
    ASSUME IInv, head' \in Heads, head' = head \/ head'.rev = head.rev + 1,
           NEW e \in Dir, handle'[e] = handle[e], ident'[e] = ident[e]
    PROVE  HandleOK(e)'
  <1>1. handle[e].seen \in Heads /\ Seen(handle[e].seen) /\ head \in Heads /\ HandleOK(e)
    BY Zenon DEF IInv, TypeOK, Handle, HandleInv, HandleOK
  <1>2. handle[e].seen.rev <= head'.rev /\ (handle[e].seen.rev = head'.rev => handle[e].seen = head')
    BY <1>1, SeenKept, Zenon
  <1> QED BY <1>1, <1>2, Zenon DEF HandleOK, Seen, HasDurable

LEMMA AdminKept ==
    ASSUME IInv, head' \in Heads, head' = head \/ head'.rev = head.rev + 1,
           UNCHANGED admin
    PROVE  AdminInv'
  <1>1. admin.seen \in Heads /\ Seen(admin.seen) /\ head \in Heads /\ AdminInv
    BY Zenon DEF IInv, TypeOK, AdminInv
  <1>2. admin.seen.rev <= head'.rev /\ (admin.seen.rev = head'.rev => admin.seen = head')
    BY <1>1, SeenKept, Zenon
  <1> QED BY <1>1, <1>2, Zenon DEF AdminInv, Seen

\* No head at all is always overtaken, or still current before the import.
LEMMA NoHeadSeen ==
    ASSUME head \in Heads, HeadInv
    PROVE  NoHead \in Heads /\ Seen(NoHead) /\ Closed \in Handle /\ Closed.seen = NoHead
  BY DEF NoHead, Seen, Heads, HeadInv, None, Kinds, Closed, Handle, Pcs

(***************************************************************************)
(* The steps: each keeps the invariant and is a step, or a stutter, of the *)
(* abstract specification.                                                 *)
(***************************************************************************)
Step == IInv' /\ [Promise!ANext]_(Promise!avars)

\* Assembling a step of directory d from its effect on the store and on d.
LEMMA DirStep ==
    ASSUME IInv, NEW d \in Dir, TypeOK', Core', HandleOK(d)',
           \A e \in Dir \ {d} : handle'[e] = handle[e] /\ ident'[e] = ident[e],
           head' = head \/ head'.rev = head.rev + 1, UNCHANGED admin,
           [Promise!ANext]_(Promise!avars)
    PROVE  Step
  <1>1. head' \in Heads
    BY Zenon DEF TypeOK
  <1>2. \A e \in Dir : HandleOK(e)'
    BY <1>1, OthersKept, Zenon
  <1>3. AdminInv'
    BY <1>1, AdminKept, Zenon
  <1> QED BY <1>2, <1>3, Zenon DEF Step, IInv, HandleInv

\* A step that changes only the handle of d (and its journal or its marker).
LEMMA HandleStep ==
    ASSUME IInv, NEW d \in Dir, NEW x \in Handle, handle' = [handle EXCEPT ![d] = x],
           dirty' \in [Dir -> {"clean", "pending", "captured"}],
           marker' \in [Dir -> BOOLEAN],
           UNCHANGED <<head, late, ident, admin, fresh, granted>>,
           Seen(x.seen),
           x.pc \in {"head", "ident", "synced"} => x.seen.kind = "owned",
           x.pc = "ident" => ident[d].disk \in {"cached", "durable"},
           x.pc \notin {"closed", "head", "ident"} => HasDurable(d),
           x.pc \in {"commit", "releasing", "burying"} => Matches(x.seen, ident[d])
    PROVE  Step
  <1>1. TypeOK'
    BY Zenon DEF IInv, TypeOK
  <1>2. Core' /\ [Promise!ANext]_(Promise!avars)
    BY IdleKeepsCore, Zenon
  <1>3. handle'[d] = x /\ \A e \in Dir \ {d} : handle'[e] = handle[e] /\ ident'[e] = ident[e]
    BY Zenon DEF IInv, TypeOK
  <1>4. HandleOK(d)'
    BY <1>3, Zenon DEF HandleOK, Seen, HasDurable
  <1> QED BY <1>1, <1>2, <1>3, <1>4, DirStep, Zenon

LEMMA HandleActions ==
    ASSUME IInv, NEW d \in Dir
    PROVE  /\ \A retiring \in BOOLEAN : OpenRead(d, retiring) => Step
           /\ Close(d) => Step
           /\ Write(d) => Step
           /\ PublishRead(d) => Step
           /\ ReleaseClose(d) => Step
           /\ ReleaseRead(d) => Step
           /\ RetireRead(d) => Step
           /\ DiscardLocal(d) => Step
  <1>1. /\ head \in Heads /\ HeadInv /\ HandleOK(d) /\ handle[d] \in Handle
        /\ dirty \in [Dir -> {"clean", "pending", "captured"}]
        /\ marker \in [Dir -> BOOLEAN]
        /\ handle \in [Dir -> Handle]
    BY Zenon DEF IInv, TypeOK, Core, HandleInv
  <1>2. NoHead \in Heads /\ Seen(NoHead) /\ Closed \in Handle /\ Closed.seen = NoHead
        /\ Closed.pc = "closed"
    BY <1>1, NoHeadSeen, Zenon DEF Closed
  <1>3. Seen(head)
    BY <1>1 DEF Seen, Heads
  <1>4. ASSUME NEW pc \in Pcs, NEW h \in Heads
        PROVE  [pc |-> pc, retiring |-> handle[d].retiring, seen |-> h] \in Handle
    BY <1>1, Zenon DEF Handle
  <1>5. ASSUME NEW retiring \in BOOLEAN, OpenRead(d, retiring) PROVE Step
    <2>1. [pc |-> "head", retiring |-> retiring, seen |-> head] \in Handle
      BY <1>1, Zenon DEF Handle, Pcs
    <2> QED BY Zenon, <1>5, <2>1, <1>1, <1>3, HandleStep DEF OpenRead
  <1>6. ASSUME Close(d) PROVE Step
    BY Zenon, <1>6, <1>1, <1>2, HandleStep DEF Close
  <1>7. ASSUME Write(d) PROVE Step
    <2>1. handle' = [handle EXCEPT ![d] = handle[d]] /\ handle[d] \in Handle
      BY <1>7, <1>1, Zenon DEF Write
    <2>2. dirty' \in [Dir -> {"clean", "pending", "captured"}]
      BY <1>7, <1>1, Zenon DEF Write
    <2> QED BY Zenon, <1>7, <2>1, <2>2, <1>1, HandleStep DEF Write, HandleOK
  <1>8. ASSUME PublishRead(d) PROVE Step
    <2>1. dirty' \in [Dir -> {"clean", "pending", "captured"}]
      BY <1>8, <1>1, Zenon DEF PublishRead
    <2>2. [pc |-> "commit", retiring |-> handle[d].retiring, seen |-> head] \in Handle
      BY <1>1, <1>4, Zenon DEF Pcs
    <2> QED BY Zenon, <1>8, <2>1, <2>2, <1>1, <1>3, HandleStep DEF PublishRead, GotoRead, HandleOK
  <1>9. ASSUME ReleaseClose(d) PROVE Step
    <2>1. [pc |-> "closing", retiring |-> handle[d].retiring, seen |-> NoHead] \in Handle
      BY <1>2, <1>4, Zenon DEF Pcs
    <2> QED BY Zenon, <1>9, <2>1, <1>1, <1>2, HandleStep DEF ReleaseClose, Goto, HandleOK
  <1>10. ASSUME ReleaseRead(d) PROVE Step
    <2>1. [pc |-> "released", retiring |-> handle[d].retiring, seen |-> NoHead] \in Handle
      BY <1>2, <1>4, Zenon DEF Pcs
    <2>2. [pc |-> "releasing", retiring |-> handle[d].retiring, seen |-> head] \in Handle
      BY <1>1, <1>4, Zenon DEF Pcs
    <2>3. CASE Goto(d, "released")
      BY Zenon, <1>10, <2>1, <2>3, <1>1, <1>2, HandleStep DEF ReleaseRead, Goto, HandleOK
    <2>4. CASE Matches(head, ident[d]) /\ GotoRead(d, "releasing")
      BY Zenon, <1>10, <2>2, <2>4, <1>1, <1>3, HandleStep DEF ReleaseRead, GotoRead, HandleOK
    <2> QED BY <1>10, <2>3, <2>4, Zenon DEF ReleaseRead
  <1>11. ASSUME RetireRead(d) PROVE Step
    <2>1. [pc |-> "burying", retiring |-> handle[d].retiring, seen |-> head] \in Handle
      BY <1>1, <1>4, Zenon DEF Pcs
    <2> QED BY Zenon, <1>11, <2>1, <1>1, <1>3, HandleStep DEF RetireRead, GotoRead, HandleOK
  <1>12. ASSUME DiscardLocal(d) PROVE Step
    <2>1. handle' = [handle EXCEPT ![d] = handle[d]]
      BY <1>12, <1>1, Zenon DEF DiscardLocal
    <2>2. dirty' \in [Dir -> {"clean", "pending", "captured"}] /\ marker' \in [Dir -> BOOLEAN]
      BY <1>12, <1>1, Zenon DEF DiscardLocal
    <2> QED BY Zenon, <1>12, <2>1, <2>2, <1>1, HandleStep DEF DiscardLocal, HandleOK
  <1> QED BY <1>5, <1>6, <1>7, <1>8, <1>9, <1>10, <1>11, <1>12, Zenon

\* The identity file of d changes, to one that is durable if it was, and that
\* carries the old token and epoch or a token nobody has.
LEMMA IdentityKeepsCore ==
    ASSUME IInv, NEW d \in Dir, NEW i \in Identity, ident' = [ident EXCEPT ![d] = i],
           UNCHANGED <<head, late, granted>>, fresh' \in Nat, fresh' >= fresh,
           HasDurable(d) => i = ident[d],
           i.disk = "none" => i.token = None,
           i.disk # "none" => \/ i.token = ident[d].token /\ ident[d].disk # "none"
                              \/ i.token \in (fresh + 1)..fresh',
           i.token \in granted => i = ident[d]
    PROVE  Core' /\ [Promise!ANext]_(Promise!avars)
  <1> USE DEF None
  <1>1. /\ HeadInv /\ IdentInv /\ OwnerIsDurable /\ LateInv /\ fresh \in Nat
        /\ ident \in [Dir -> Identity] /\ granted \subseteq Nat
    BY Zenon DEF IInv, Core, TypeOK
  <1>2. ident'[d] = i /\ \A e \in Dir \ {d} : ident'[e] = ident[e]
    BY <1>1, Zenon
  <1>3. \A e \in Dir : HasDurable(e) => ident'[e] = ident[e]
    BY <1>1, <1>2, Zenon DEF HasDurable
  <1>4. HeadInv'
    BY <1>1, Zenon DEF HeadInv
  <1>5. OwnerIsDurable'
    BY <1>1, <1>3, Zenon DEF OwnerIsDurable, HasDurable
  <1>6. LateInv'
    BY <1>1, <1>3 DEF LateInv, Current, Legal, HasDurable
  <1>7. IdentInv'
    <2>1. \A e \in Dir : /\ ident'[e].disk = "none" => ident'[e].token = None
                         /\ ident'[e].disk # "none" => ident'[e].token \in 1..fresh'
      BY <1>1, <1>2 DEF IdentInv, Identity
    <2>2. \A e \in Dir : ident'[e].token \in granted =>
                            ident'[e].disk = "durable" /\ ident'[e].epoch <= head.epoch
      BY <1>1, <1>2 DEF IdentInv, HasDurable
    <2>3. \A e, f \in Dir :
            ident'[e].disk # "none" /\ ident'[e].token = ident'[f].token => e = f
      <3>1. \A e \in Dir : ident[e].token \in 0..fresh
        BY <1>1 DEF IdentInv, Identity
      <3> QED BY <3>1, <1>1, <1>2 DEF IdentInv, Identity
    <2> QED BY <2>1, <2>2, <2>3, <1>1 DEF IdentInv, HasDurable
  <1> QED BY <1>4, <1>5, <1>6, <1>7, Zenon DEF Core, Promise!avars

LEMMA IdentityActions ==
    ASSUME IInv, NEW d \in Dir
    PROVE  /\ OpenIdentity(d) => Step
           /\ OpenSync(d) => Step
           /\ Crash(d) => Step
  <1> USE DEF None
  <1>1. /\ head \in Heads /\ HeadInv /\ IdentInv /\ HandleOK(d) /\ handle[d] \in Handle
        /\ ident[d] \in Identity /\ fresh \in Nat /\ granted \subseteq Nat
        /\ ident \in [Dir -> Identity] /\ handle \in [Dir -> Handle]
        /\ handle[d].seen \in Heads /\ handle[d].retiring \in BOOLEAN
        /\ dirty \in [Dir -> {"clean", "pending", "captured"}]
    BY Zenon DEF IInv, TypeOK, Core, HandleInv, Handle
  <1>2. ASSUME NEW x \in Handle, NEW i \in Identity,
               handle' = [handle EXCEPT ![d] = x], ident' = [ident EXCEPT ![d] = i],
               UNCHANGED <<head, late, granted, admin, marker>>, fresh' \in Nat,
               dirty' \in [Dir -> {"clean", "pending", "captured"}],
               Core', [Promise!ANext]_(Promise!avars), HandleOK(d)'
        PROVE  Step
    <2>1. TypeOK'
      BY <1>1, <1>2, Zenon DEF IInv, TypeOK
    <2>2. \A e \in Dir \ {d} : handle'[e] = handle[e] /\ ident'[e] = ident[e]
      BY <1>1, <1>2, Zenon
    <2> QED BY <1>2, <2>1, <2>2, DirStep, Zenon
  <1>3. ASSUME OpenIdentity(d) PROVE Step
    <2> DEFINE x == [handle[d] EXCEPT !.pc = "ident"]
    <2>1. /\ x \in Handle /\ handle' = [handle EXCEPT ![d] = x] /\ x.pc = "ident"
          /\ x.seen = handle[d].seen /\ handle'[d] = x
      BY <1>1, <1>3, Zenon DEF OpenIdentity, Handle, Pcs
    <2>2. CASE ident[d].disk \in {"cached", "durable"} /\ UNCHANGED <<ident, fresh>>
      <3>1. Core' /\ [Promise!ANext]_(Promise!avars)
        BY <1>3, <2>2, IdleKeepsCore, Zenon DEF OpenIdentity
      <3>2. HandleOK(d)'
        BY <1>1, <1>3, <2>1, <2>2 DEF OpenIdentity, HandleOK, Seen, HasDurable
      <3>3. ident' = [ident EXCEPT ![d] = ident[d]]
        BY <1>1, <2>2, Zenon
      <3> QED BY Zenon, <1>1, <1>2, <1>3, <2>1, <2>2, <3>1, <3>2, <3>3 DEF OpenIdentity
    <2>3. CASE /\ ident[d].disk = "none" /\ fresh' = fresh + 1
               /\ ident' = [ident EXCEPT ![d] = [disk |-> "cached", token |-> fresh + 1,
                                                 epoch |-> handle[d].seen.epoch + 1]]
      <3>1. PICK i \in Identity : /\ i.disk = "cached" /\ i.token = fresh + 1
                                  /\ ident' = [ident EXCEPT ![d] = i] /\ ident'[d] = i
        <4> DEFINE j == [disk |-> "cached", token |-> fresh + 1,
                         epoch |-> handle[d].seen.epoch + 1]
        <4>1. /\ j \in Identity /\ j.disk = "cached" /\ j.token = fresh + 1
              /\ ident' = [ident EXCEPT ![d] = j] /\ ident'[d] = j
          BY <1>1, <2>3 DEF Identity, Heads
        <4> QED BY Zenon, <4>1
      <3>2. /\ i.token \notin granted /\ ~HasDurable(d) /\ i.disk # "none"
            /\ i.token \in (fresh + 1)..fresh' /\ fresh' \in Nat /\ fresh' >= fresh
            /\ UNCHANGED <<head, late, granted>>
        BY <1>1, <1>3, <2>3, <3>1 DEF IdentInv, HasDurable, OpenIdentity
      <3>3. Core' /\ [Promise!ANext]_(Promise!avars)
        BY Zenon, <3>1, <3>2, IdentityKeepsCore
      <3>4. HandleOK(d)'
        BY <1>1, <1>3, <2>1, <2>3, <3>1 DEF OpenIdentity, HandleOK, Seen, HasDurable
      <3> QED BY Zenon, <1>1, <1>2, <1>3, <2>1, <3>1, <3>2, <3>3, <3>4 DEF OpenIdentity
    <2> QED BY <1>3, <2>2, <2>3, Zenon DEF OpenIdentity
  <1>4. ASSUME OpenSync(d) PROVE Step
    <2> DEFINE x == [handle[d] EXCEPT !.pc = "synced"]
    <2>1. /\ x \in Handle /\ handle' = [handle EXCEPT ![d] = x] /\ x.pc = "synced"
          /\ x.seen = handle[d].seen /\ handle'[d] = x
      BY <1>1, <1>4, Zenon DEF OpenSync, Handle, Pcs
    <2>2. PICK i \in Identity :
              /\ i.disk = "durable" /\ i.token = ident[d].token
              /\ ident' = [ident EXCEPT ![d] = i] /\ ident'[d] = i
              /\ HasDurable(d) => i = ident[d]
      <3> DEFINE j == [ident[d] EXCEPT !.disk = "durable"]
      <3>1. /\ j \in Identity /\ j.disk = "durable" /\ j.token = ident[d].token
            /\ ident' = [ident EXCEPT ![d] = j] /\ ident'[d] = j
            /\ HasDurable(d) => j = ident[d]
        BY <1>1, <1>4, Zenon DEF OpenSync, Identity, HasDurable
      <3> QED BY Zenon, <3>1
    <2>3. ident[d].disk # "none"
      BY <1>1, <1>4, Zenon DEF OpenSync, HandleOK
    <2>4. i.token \in granted => i = ident[d]
      BY <1>1, <2>2, Zenon DEF IdentInv
    <2>5. Core' /\ [Promise!ANext]_(Promise!avars)
      <3>1. UNCHANGED <<head, late, granted>> /\ fresh' \in Nat /\ fresh' >= fresh
        BY <1>1, <1>4 DEF OpenSync
      <3> QED BY Zenon, <3>1, <2>2, <2>3, <2>4, IdentityKeepsCore
    <2>6. HandleOK(d)'
      BY <1>1, <1>4, <2>1, <2>2 DEF OpenSync, HandleOK, Seen, HasDurable
    <2> QED BY Zenon, <1>1, <1>2, <1>4, <2>1, <2>2, <2>5, <2>6 DEF OpenSync
  <1>5. ASSUME Crash(d) PROVE Step
    <2>1. NoHead \in Heads /\ Seen(NoHead) /\ Closed \in Handle /\ Closed.seen = NoHead
          /\ Closed.pc = "closed" /\ handle' = [handle EXCEPT ![d] = Closed]
          /\ handle'[d] = Closed
      BY <1>1, <1>5, NoHeadSeen, Zenon DEF Closed, Crash
    <2>2. dirty' \in [Dir -> {"clean", "pending", "captured"}] /\ fresh' \in Nat
      BY <1>1, <1>5, Zenon DEF Crash
    <2>3. HandleOK(d)'
      BY <1>5, <2>1, Zenon DEF Crash, HandleOK, Seen
    <2>4. CASE UNCHANGED ident
      <3>1. Core' /\ [Promise!ANext]_(Promise!avars)
        BY <1>5, <2>4, IdleKeepsCore, Zenon DEF Crash
      <3>2. ident' = [ident EXCEPT ![d] = ident[d]]
        BY <1>1, <2>4, Zenon
      <3> QED BY Zenon, <1>1, <1>2, <1>5, <2>1, <2>2, <2>3, <3>1, <3>2 DEF Crash
    <2>5. ASSUME ident[d].disk = "cached",
                 NEW i \in {NoIdentity, [ident[d] EXCEPT !.disk = "torn"]},
                 ident' = [ident EXCEPT ![d] = i]
          PROVE  Step
      <3>1. /\ i \in Identity /\ (i.disk = "none" => i.token = None)
            /\ (i.disk # "none" => i.token = ident[d].token)
            /\ i.token = None \/ i.token = ident[d].token
        BY <1>1, <2>5 DEF Identity, NoIdentity
      <3>2. ~HasDurable(d) /\ i.token \notin granted
        BY <1>1, <2>5, <3>1 DEF IdentInv, HasDurable
      <3>3. Core' /\ [Promise!ANext]_(Promise!avars)
        <4>1. UNCHANGED <<head, late, granted>> /\ fresh' \in Nat /\ fresh' >= fresh
          BY <1>1, <1>5 DEF Crash
        <4> QED BY Zenon, <4>1, <2>5, <3>1, <3>2, IdentityKeepsCore
      <3> QED BY Zenon, <1>1, <1>2, <1>5, <2>1, <2>2, <2>3, <2>5, <3>1, <3>3 DEF Crash
    <2> QED BY <1>5, <2>4, <2>5, Zenon DEF Crash
  <1> QED BY <1>3, <1>4, <1>5, Zenon

\* A replacement prepared from a head that was read: if it is current, then
\* the head it was prepared from is the current one.
LEMMA PreparedIsCurrent ==
    ASSUME head \in Heads, NEW h \in Heads, Seen(h), NEW n \in Heads, n.rev = h.rev + 1
    PROVE  n.rev <= head.rev + 1 /\ (Current(n) => h = head)
  BY DEF Seen, Heads, Current

\* A conditional PUT of directory d, after which its handle is x.
LEMMA CasStep ==
    ASSUME IInv, NEW d \in Dir, NEW n \in Heads, n.rev <= head.rev + 1,
           Current(n) => Legal(n), CasOk(n) \/ CasFail(n),
           NEW x \in Handle, handle' = [handle EXCEPT ![d] = x], x.seen = NoHead,
           x.pc \in {"closed", "active", "closing", "released", "sealed"},
           HasDurable(d), UNCHANGED <<ident, fresh, marker, admin>>,
           dirty' \in [Dir -> {"clean", "pending", "captured"}]
    PROVE  Step
  <1>1. /\ Core' /\ head' \in Heads /\ granted' \subseteq Nat /\ late' \subseteq Heads
        /\ head' = head \/ head'.rev = head.rev + 1
        /\ [Promise!ANext]_(Promise!avars)
    BY CasKeepsCore, Zenon
  <1>2. TypeOK'
    BY Zenon, <1>1 DEF IInv, TypeOK
  <1>3. handle'[d] = x /\ \A e \in Dir \ {d} : handle'[e] = handle[e] /\ ident'[e] = ident[e]
    BY Zenon DEF IInv, TypeOK
  <1>4. NoHead.rev <= head'.rev /\ (NoHead.rev = head'.rev => NoHead = head')
    BY <1>1 DEF Core, HeadInv, NoHead, Heads
  <1>5. HandleOK(d)'
    BY <1>3, <1>4, Zenon DEF HandleOK, Seen, HasDurable
  <1> QED BY <1>1, <1>2, <1>3, <1>5, DirStep, Zenon

LEMMA CasActions ==
    ASSUME IInv, NEW d \in Dir
    PROVE  /\ OpenClaim(d) => Step
           /\ PublishCas(d) => Step
           /\ ReleaseCas(d) => Step
           /\ RetireCas(d) => Step
  <1>1. /\ head \in Heads /\ HeadInv /\ IdentInv /\ HandleOK(d) /\ handle[d] \in Handle
        /\ ident[d] \in Identity /\ handle[d].seen \in Heads /\ Seen(handle[d].seen)
        /\ handle[d].retiring \in BOOLEAN /\ handle \in [Dir -> Handle]
        /\ dirty \in [Dir -> {"clean", "pending", "captured"}]
        /\ NoHead \in Heads /\ Seen(NoHead) /\ Closed \in Handle /\ Closed.seen = NoHead
        /\ Closed.pc = "closed" /\ marker \in [Dir -> BOOLEAN]
    BY NoHeadSeen, Zenon DEF IInv, TypeOK, Core, HandleInv, Handle, HandleOK, Closed
  <1>2. ASSUME NEW pc \in {"active", "closing", "released", "sealed"}, Goto(d, pc)
        PROVE  \E x \in Handle : /\ handle' = [handle EXCEPT ![d] = x]
                                 /\ x.pc = pc /\ x.seen = NoHead
    <2> DEFINE x == [pc |-> pc, retiring |-> handle[d].retiring, seen |-> NoHead]
    <2>1. /\ x \in Handle /\ x.pc = pc /\ x.seen = NoHead
          /\ handle' = [handle EXCEPT ![d] = x]
      BY <1>1, <1>2, Zenon DEF Goto, Handle, Pcs
    <2> QED BY Zenon, <2>1
  <1> DEFINE seen == handle[d].seen
  <1>3. ASSUME OpenClaim(d) PROVE Step
    <2> DEFINE n == ClaimedBy(seen, ident[d])
    <2>1. HasDurable(d) /\ seen.kind = "owned" /\ handle[d].pc = "synced"
      BY <1>1, <1>3, Zenon DEF HandleOK, OpenClaim
    <2>2. CASE Matches(seen, ident[d]) /\ Opened(d) /\ UNCHANGED <<head, late, granted>>
      <3>1. PICK x \in Handle : /\ handle' = [handle EXCEPT ![d] = x]
                                /\ x.pc \in {"active", "sealed"} /\ x.seen = NoHead
        BY <1>2, <2>2, Zenon DEF Opened
      <3>2. UNCHANGED <<head, late, ident, dirty, marker, admin, fresh, granted>>
        BY <1>3, <2>2, Zenon DEF OpenClaim
      <3> QED BY Zenon, <1>1, <2>1, <3>1, <3>2, HandleStep
    <2>3. CASE /\ Claimable(seen, ident[d])
               /\ \/ CasOk(n) /\ Opened(d)
                  \/ CasFail(n) /\ handle' = [handle EXCEPT ![d] = Closed]
      <3>1. n \in Heads /\ n.rev = seen.rev + 1
        BY Zenon, <1>1, PutTypes
      <3>2. n.rev <= head.rev + 1 /\ (Current(n) => seen = head)
        BY <1>1, <3>1, PreparedIsCurrent, Zenon
      <3>3. Current(n) => Legal(n)
        BY <2>1, <2>3, <3>2, Zenon DEF Legal
      <3>4. PICK x \in Handle : /\ handle' = [handle EXCEPT ![d] = x] /\ x.seen = NoHead
                                /\ x.pc \in {"closed", "active", "sealed"}
        BY <1>1, <1>2, <2>3, Zenon DEF Opened
      <3>5. UNCHANGED <<ident, fresh, marker, admin, dirty>>
        BY <1>3, Zenon DEF OpenClaim
      <3> HIDE DEF n
      <3> QED BY Zenon, <1>1, <2>1, <2>3, <3>1, <3>2, <3>3, <3>4, <3>5, CasStep
    <2> QED BY <1>3, <2>2, <2>3, Zenon DEF OpenClaim
  <1>4. ASSUME PublishCas(d) PROVE Step
    <2> DEFINE n == PublishedBy(seen, ident[d])
    <2>1. HasDurable(d) /\ Matches(seen, ident[d])
      BY <1>1, <1>4, Zenon DEF HandleOK, PublishCas
    <2>2. n \in Heads /\ n.rev = seen.rev + 1
      BY Zenon, <1>1, PutTypes
    <2>3. n.rev <= head.rev + 1 /\ (Current(n) => seen = head)
      BY <1>1, <2>2, PreparedIsCurrent
    <2>4. Current(n) => Legal(n)
      BY <2>1, <2>3, Zenon DEF Legal
    <2>5. PICK x \in Handle : /\ handle' = [handle EXCEPT ![d] = x] /\ x.seen = NoHead
                              /\ x.pc = "active"
      BY <1>2, <1>4, Zenon DEF PublishCas
    <2>6. /\ UNCHANGED <<ident, fresh, marker, admin>> /\ (CasOk(n) \/ CasFail(n))
          /\ dirty' \in [Dir -> {"clean", "pending", "captured"}]
      BY <1>1, <1>4, Zenon DEF PublishCas
    <2> HIDE DEF n
    <2> QED BY Zenon, <2>1, <2>2, <2>3, <2>4, <2>5, <2>6, CasStep
  <1>5. ASSUME ReleaseCas(d) PROVE Step
    <2> DEFINE n == Released(seen)
    <2>1. HasDurable(d) /\ Matches(seen, ident[d]) /\ ident[d].token # None
      BY <1>1, <1>5 DEF HandleOK, ReleaseCas, IdentInv, HasDurable, None
    <2>2. n \in Heads /\ n.rev = seen.rev + 1
      BY <1>1, PutTypes, Zenon
    <2>3. n.rev <= head.rev + 1 /\ (Current(n) => seen = head)
      BY <1>1, <2>2, PreparedIsCurrent, Zenon
    <2>4. Current(n) => Legal(n)
      BY <2>1, <2>3, Zenon DEF Legal, Matches
    <2>5. PICK x \in Handle : /\ handle' = [handle EXCEPT ![d] = x] /\ x.seen = NoHead
                              /\ x.pc \in {"closing", "released"}
      BY <1>2, <1>5, Zenon DEF ReleaseCas
    <2>6. UNCHANGED <<ident, fresh, marker, admin, dirty>> /\ (CasOk(n) \/ CasFail(n))
      BY <1>5, Zenon DEF ReleaseCas
    <2> HIDE DEF n
    <2> QED BY Zenon, <1>1, <2>1, <2>2, <2>3, <2>4, <2>5, <2>6, CasStep
  <1>6. ASSUME RetireCas(d) PROVE Step
    <2> DEFINE n == Tombstone(seen)
    <2>1. HasDurable(d) /\ Matches(seen, ident[d])
      BY <1>1, <1>6, Zenon DEF HandleOK, RetireCas
    <2>2. n \in Heads /\ n.rev = seen.rev + 1
      BY <1>1, PutTypes, Zenon
    <2>3. n.rev <= head.rev + 1 /\ (Current(n) => seen = head)
      BY <1>1, <2>2, PreparedIsCurrent
    <2>4. Current(n) => Legal(n)
      BY <2>1, <2>3, Zenon DEF Legal, Matches
    <2>5. /\ UNCHANGED <<ident, fresh, marker, admin, dirty>> /\ (CasOk(n) \/ CasFail(n))
          /\ handle' = [handle EXCEPT ![d] = Closed]
      BY <1>6, Zenon DEF RetireCas
    <2> HIDE DEF n
    <2> QED BY Zenon, <1>1, <2>1, <2>2, <2>3, <2>4, <2>5, CasStep
  <1> QED BY <1>3, <1>4, <1>5, <1>6, Zenon

\* The steps nobody's directory takes: delayed requests, import, maintenance.
LEMMA StoreActions ==
    ASSUME IInv
    PROVE  /\ \A n \in late : Deliver(n) => Step
           /\ Import => Step
           /\ AdminRead => Step
           /\ AdminCas => Step
  <1>1. /\ head \in Heads /\ HeadInv /\ AdminInv /\ admin.seen \in Heads
        /\ late \subseteq Heads /\ LateInv /\ Seen(admin.seen)
        /\ NoHead \in Heads /\ Seen(NoHead) /\ Seen(head)
        /\ NoIdentity \in Identity
    BY NoHeadSeen DEF IInv, TypeOK, Core, AdminInv, Seen, Heads, NoIdentity, Identity, None
  <1>2. ASSUME TypeOK', Core', UNCHANGED <<handle, ident>>, AdminInv',
               head' = head \/ head'.rev = head.rev + 1,
               [Promise!ANext]_(Promise!avars)
        PROVE  Step
    <2>1. head' \in Heads
      BY <1>2, Zenon DEF TypeOK
    <2>2. \A e \in Dir : HandleOK(e)'
      BY <1>2, <2>1, OthersKept, Zenon
    <2> QED BY <1>2, <2>2, Zenon DEF Step, IInv, HandleInv
  <1>3. ASSUME NEW n \in late, Deliver(n) PROVE Step
    <2>1. n \in Heads /\ late' \subseteq late /\ UNCHANGED <<ident, fresh, handle, admin, dirty, marker>>
      BY <1>1, <1>3, Zenon DEF Deliver
    <2>2. CASE Land(n)
      <3>1. Legal(n) /\ head'.rev = head.rev + 1
        BY <1>1, <2>2, Zenon DEF LateInv, Land, Current
      <3>2. Core' /\ head' \in Heads /\ granted' \subseteq Nat /\ Promise!ANext
        BY <2>1, <2>2, <3>1, LandKeepsCore, Zenon
      <3>3. TypeOK'
        BY <2>1, <3>2, Zenon DEF IInv, TypeOK
      <3>4. AdminInv'
        BY <2>1, <3>1, <3>2, AdminKept, Zenon
      <3> QED BY <1>2, <2>1, <3>1, <3>2, <3>3, <3>4, Zenon
    <2>3. CASE UNCHANGED <<head, granted>>
      <3>1. Core' /\ [Promise!ANext]_(Promise!avars)
        BY <2>1, <2>3 DEF IInv, Core, HeadInv, IdentInv, OwnerIsDurable, LateInv, Legal,
           Current, HasDurable, Promise!avars
      <3>2. TypeOK'
        BY <2>1, <2>3, Zenon DEF IInv, TypeOK
      <3>3. AdminInv'
        BY <2>1, <2>3, <1>1, AdminKept, Zenon
      <3> QED BY <1>2, <2>1, <2>3, <3>1, <3>2, <3>3, Zenon
    <2> QED BY <1>3, <2>2, <2>3, Zenon DEF Deliver
  <1>4. ASSUME Import PROVE Step
    <2> DEFINE n == Imported(head)
    <2>1. n \in Heads /\ n.rev = head.rev + 1
      BY <1>1, PutTypes, Zenon
    <2>2. Legal(n) /\ Land(n) /\ UNCHANGED <<late, ident, handle, dirty, marker, admin, fresh>>
      BY <1>4, Zenon DEF Legal, Import
    <2> HIDE DEF n
    <2>3. Core' /\ head' \in Heads /\ granted' \subseteq Nat /\ Promise!ANext
      BY <2>1, <2>2, LandKeepsCore, Zenon
    <2>4. TypeOK' /\ head'.rev = head.rev + 1
      BY <2>1, <2>2, <2>3, Zenon DEF IInv, TypeOK, Land
    <2>5. AdminInv'
      BY <2>2, <2>3, <2>4, AdminKept, Zenon
    <2> QED BY <1>2, <2>2, <2>3, <2>4, <2>5, Zenon
  <1>5. ASSUME AdminRead PROVE Step
    <2>1. UNCHANGED <<head, late, ident, handle, dirty, marker, fresh, granted>>
      BY <1>5, Zenon DEF AdminRead
    <2>2. Core' /\ [Promise!ANext]_(Promise!avars)
      BY <2>1, IdleKeepsCore, Zenon
    <2>3. /\ admin' \in [op: {"none", "enroll", "retire"}, seen: Heads]
          /\ admin'.seen = head
          /\ admin'.op = "enroll" => head.kind = "plain"
          /\ admin'.op = "retire" => head.kind # "tomb" /\ head.owner = None
      BY <1>1, <1>5 DEF AdminRead, HeadInv
    <2>4. TypeOK'
      BY <2>1, <2>3, Zenon DEF IInv, TypeOK
    <2>5. AdminInv'
      BY <1>1, <2>1, <2>3, Zenon DEF AdminInv, Seen
    <2> QED BY <1>2, <2>1, <2>2, <2>4, <2>5, Zenon
  <1>6. ASSUME AdminCas PROVE Step
    <2> DEFINE n == IF admin.op = "enroll" THEN Enrolled(admin.seen) ELSE Tombstone(admin.seen)
    <2>1. n \in Heads /\ n.rev = admin.seen.rev + 1
      BY <1>1, PutTypes, Zenon
    <2>2. n.rev <= head.rev + 1 /\ (Current(n) => admin.seen = head)
      BY <1>1, <2>1, PreparedIsCurrent, Zenon
    <2>3. Current(n) => Legal(n)
      <3>1. admin.op \in {"enroll", "retire"}
        BY <1>6, Zenon DEF AdminCas, IInv, TypeOK
      <3> QED BY <3>1, <1>1, <2>2, Zenon DEF Legal, AdminInv
    <2>4. /\ CasOk(n) \/ CasFail(n)
          /\ admin' = [op |-> "none", seen |-> NoHead]
          /\ UNCHANGED <<ident, handle, dirty, marker, fresh>>
      BY <1>6, Zenon DEF AdminCas
    <2> HIDE DEF n
    <2>5. /\ Core' /\ head' \in Heads /\ granted' \subseteq Nat /\ late' \subseteq Heads
          /\ head' = head \/ head'.rev = head.rev + 1
          /\ [Promise!ANext]_(Promise!avars)
      BY <2>1, <2>2, <2>3, <2>4, CasKeepsCore, Zenon
    <2>6. TypeOK'
      BY <1>1, <2>4, <2>5, Zenon DEF IInv, TypeOK
    <2>7. AdminInv'
      BY <2>4, <2>5 DEF AdminInv, Seen, Core, HeadInv, NoHead, Heads
    <2> QED BY <1>2, <2>4, <2>5, <2>6, <2>7, Zenon
  <1> QED BY <1>3, <1>4, <1>5, <1>6, Zenon

\* The inductive step.
LEMMA NextKeeps ==
    ASSUME IInv, [Next]_vars
    PROVE  Step
  <1>1. CASE UNCHANGED vars
    <2>1. Core' /\ [Promise!ANext]_(Promise!avars)
      BY <1>1, IdleKeepsCore, Zenon DEF vars
    <2>2. TypeOK' /\ HandleInv' /\ AdminInv'
      BY <1>1, Zenon DEF vars, IInv, TypeOK, HandleInv, HandleOK, AdminInv, Seen, HasDurable
    <2> QED BY <2>1, <2>2, Zenon DEF Step, IInv
  <1>2. CASE Next
    BY <1>2, HandleActions, IdentityActions, CasActions, StoreActions, Zenon DEF Next, DirNext
  <1> QED BY <1>1, <1>2, Zenon

LEMMA InitHolds == Init => IInv /\ Promise!AInit
  BY DEF Init, IInv, TypeOK, Core, HeadInv, IdentInv, OwnerIsDurable, LateInv, HandleInv,
     HandleOK, AdminInv, Seen, HasDurable, NoHead, NoIdentity, Closed, Heads, Identity,
     Handle, Pcs, Kinds, None, Promise!AInit, Promise!Nobody

\* For every number of directories: the type invariant, and that the token in
\* the head is always in a durable owner.json (open_inner syncs the identity
\* before the claim is sent), even with delayed requests.
THEOREM OwnerDurable == Spec => [](TypeOK /\ OwnerIsDurable)
  <1>1. Init => IInv
    BY InitHolds, Zenon
  <1>2. IInv /\ [Next]_vars => IInv'
    BY NextKeeps, Zenon DEF Step
  <1>3. IInv => TypeOK /\ OwnerIsDurable
    BY Zenon DEF IInv, Core
  <1> QED BY <1>1, <1>2, <1>3, PTL DEF Spec

\* owned.rs implements the ownership promise: one fresh token per epoch,
\* publication by the owner only, a tombstone for ever.
THEOREM ImplementsOwnership == Spec => OwnershipKept
  <1>1. Init => IInv /\ Promise!AInit
    BY InitHolds, Zenon
  <1>2. IInv /\ [Next]_vars => IInv'
    BY NextKeeps DEF Step
  <1>3. IInv /\ [Next]_vars => [Promise!ANext]_(Promise!avars)
    BY NextKeeps, Zenon DEF Step
  <1> QED BY <1>1, <1>2, <1>3, PTL DEF Spec, OwnershipKept, Promise!ASpec

-----------------------------------------------------------------------------
(***************************************************************************)
(* With a prompt store an open handle IS the owner.  A head that names d   *)
(* can only be replaced by d itself, under d's own lock, so what d read    *)
(* when it opened still holds while it serves.                             *)
(***************************************************************************)

OwnsNow(d) == ident[d].disk # "none" /\ Matches(head, ident[d])

Opening(d) == handle[d].pc \in {"head", "ident", "synced"} /\ ident[d].disk # "none"

PromptOK(d) ==
    /\ Serving(d) => OwnsNow(d)
    /\ Opening(d) => (Matches(handle[d].seen, ident[d]) <=> OwnsNow(d))
    /\ dirty[d] # "clean" => HasDurable(d) /\ (head.kind # "tomb" => OwnsNow(d))
    /\ handle[d].pc \in {"closing", "releasing", "released"} => dirty[d] = "clean"

PromptInv == Prompt => late = {} /\ \A d \in Dir : PromptOK(d)

LEMMA OneOwner ==
    ASSUME IInv, NEW d \in Dir, NEW e \in Dir, OwnsNow(d), OwnsNow(e)
    PROVE  d = e
  BY Zenon DEF IInv, Core, IdentInv, OwnsNow, Matches

LEMMA OwnersHaveTokens ==
    ASSUME IInv, NEW d \in Dir, OwnsNow(d)
    PROVE  head.owner # None /\ head.kind = "owned"
  BY DEF IInv, Core, IdentInv, OwnsNow, Matches, None

\* Nothing of e changes, and the head did not change, or it did not name e
\* before and does not name it now.
LEMMA PromptOther ==
    ASSUME IInv, NEW e \in Dir, PromptOK(e), handle'[e] = handle[e],
           ident'[e] = ident[e], dirty'[e] = dirty[e],
           head' = head \/ (head.kind # "tomb" /\ ~OwnsNow(e) /\ ~OwnsNow(e)')
    PROVE  PromptOK(e)'
  <1>1. CASE head' = head
    BY <1>1, Zenon DEF PromptOK, Serving, Opening, OwnsNow, HasDurable
  <1>2. CASE head.kind # "tomb" /\ ~OwnsNow(e) /\ ~OwnsNow(e)'
    <2>1. ~Serving(e) /\ dirty[e] = "clean"
      BY <1>2, Zenon DEF PromptOK
    <2> QED BY Zenon, <1>2, <2>1 DEF PromptOK, Serving, Opening
  <1> QED BY <1>1, <1>2, Zenon

\* A replacement by d: of a head that names d or nobody, by one that does.
Replaces(d) ==
    /\ head.kind # "tomb"
    /\ OwnsNow(d) \/ head.owner = None
    /\ head'.owner = None \/ (ident[d].disk # "none" /\ head'.owner = ident[d].token)

\* A step of d; what remains is d itself.
LEMMA PromptStep ==
    ASSUME IInv, PromptInv, Prompt, NEW d \in Dir, late' = {}, PromptOK(d)',
           \A e \in Dir \ {d} : /\ handle'[e] = handle[e] /\ ident'[e] = ident[e]
                                /\ dirty'[e] = dirty[e],
           head' = head \/ Replaces(d)
    PROVE  PromptInv'
  <1>1. ASSUME NEW e \in Dir \ {d} PROVE PromptOK(e)'
    <2>1. PromptOK(e) /\ IdentInv
      BY Zenon DEF PromptInv, IInv, Core
    <2>2. ASSUME Replaces(d) PROVE head.kind # "tomb" /\ ~OwnsNow(e) /\ ~OwnsNow(e)'
      <3>1. ~OwnsNow(e)
        BY <2>2, OneOwner, OwnersHaveTokens, Zenon DEF Replaces
      <3>2. ~OwnsNow(e)'
        BY <2>1, <2>2 DEF Replaces, OwnsNow, Matches, IdentInv, None
      <3> QED BY <2>2, <3>1, <3>2, Zenon DEF Replaces
    <2> QED BY <2>1, <2>2, PromptOther, Zenon
  <1> QED BY <1>1, Zenon DEF PromptInv, Prompt

\* Without delay a conditional PUT leaves the head alone or lands.
LEMMA PromptCas ==
    ASSUME Prompt, NEW n, CasOk(n) \/ CasFail(n)
    PROVE  late' = late /\ (head' = head \/ (Current(n) /\ head' = n))
  BY Zenon DEF Prompt, CasOk, CasFail, CasConflict, CasLost, Land

LEMMA PromptDir ==
    ASSUME IInv, PromptInv, Prompt, NEW d \in Dir, DirNext(d)
    PROVE  PromptInv'
  <1> USE DEF None
  <1>t. /\ handle \in [Dir -> Handle] /\ ident \in [Dir -> Identity]
        /\ dirty \in [Dir -> {"clean", "pending", "captured"}]
    BY Zenon DEF IInv, TypeOK
  <1>1. late = {} /\ PromptOK(d) /\ HandleOK(d)
    BY Zenon DEF PromptInv, IInv, HandleInv
  <1>i. IdentInv /\ head \in Heads
    BY Zenon DEF IInv, Core, TypeOK
  <1>s. /\ head \in Heads /\ handle[d].seen \in Heads /\ Seen(handle[d].seen)
        /\ ident[d] \in Identity
    BY <1>1, <1>t, <1>i, Zenon DEF HandleOK, Handle
  <1>2. ASSUME NEW retiring \in BOOLEAN, OpenRead(d, retiring) PROVE PromptInv'
    <2>1. /\ handle'[d].pc = "head" /\ handle'[d].seen = head
          /\ \A e \in Dir \ {d} : handle'[e] = handle[e]
          /\ UNCHANGED <<head, late, ident, dirty>>
      BY <1>t, <1>2, Zenon DEF OpenRead
    <2>2. PromptOK(d)'
      BY <1>1, <2>1, Zenon DEF PromptOK, Serving, Opening, OwnsNow, HasDurable
    <2> QED BY <1>1, <2>1, <2>2, PromptStep, Zenon
  <1>3. ASSUME OpenIdentity(d) PROVE PromptInv'
    <2>1. /\ handle'[d].pc = "ident" /\ handle'[d].seen = handle[d].seen
          /\ \A e \in Dir \ {d} : handle'[e] = handle[e] /\ ident'[e] = ident[e]
          /\ UNCHANGED <<head, late, dirty>> /\ handle[d].pc = "head"
      BY <1>t, <1>3 DEF OpenIdentity, Handle
    <2>2. CASE ident[d].disk \in {"cached", "durable"} /\ UNCHANGED ident
      <3>1. PromptOK(d)'
        BY <1>1, <2>1, <2>2, Zenon DEF PromptOK, Serving, Opening, OwnsNow, HasDurable
      <3> QED BY <1>1, <2>1, <3>1, PromptStep, Zenon
    <2>3. CASE ident[d].disk = "none" /\ handle[d].seen.owner = None /\ ident'[d].token = fresh + 1
      <3>1. fresh \in Nat /\ dirty[d] = "clean"
        BY Zenon, <1>1, <2>3 DEF IInv, TypeOK, PromptOK, HasDurable
      <3>2. head.owner # fresh + 1
        BY <1>i, <3>1 DEF IInv, Core, HeadInv, IdentInv
      <3>3. PromptOK(d)'
        <4>1. ~Matches(handle'[d].seen, ident'[d]) /\ ~OwnsNow(d)'
          BY <2>1, <2>3, <3>1, <3>2 DEF OwnsNow, Matches
        <4>2. ~Serving(d)' /\ dirty'[d] = "clean"
          BY <2>1, <3>1, Zenon DEF Serving
        <4> QED BY <4>1, <4>2, Zenon DEF PromptOK
      <3> QED BY <1>1, <2>1, <3>3, PromptStep
    <2>4. CASE ident[d].disk = "none"
      BY <1>t, <1>3, <2>3, <2>4 DEF OpenIdentity
    <2> QED BY <1>3, <2>2, <2>4, Zenon DEF OpenIdentity
  <1>4. ASSUME OpenSync(d) PROVE PromptInv'
    <2>1. /\ handle'[d].pc = "synced" /\ handle'[d].seen = handle[d].seen
          /\ \A e \in Dir \ {d} : handle'[e] = handle[e] /\ ident'[e] = ident[e]
          /\ UNCHANGED <<head, late, dirty>> /\ handle[d].pc = "ident"
          /\ ident'[d].disk = "durable" /\ ident'[d].token = ident[d].token
          /\ ident'[d].epoch = ident[d].epoch
      BY <1>t, <1>4 DEF OpenSync, Handle, Identity
    <2>2. ident[d].disk # "none"
      BY <1>1, <2>1, Zenon DEF HandleOK
    <2>3. PromptOK(d)'
      BY <1>1, <2>1, <2>2, Zenon DEF PromptOK, Serving, Opening, OwnsNow, HasDurable, Matches
    <2> QED BY <1>1, <2>1, <2>3, PromptStep, Zenon
  <1>5. ASSUME OpenClaim(d) PROVE PromptInv'
    <2> DEFINE seen == handle[d].seen
               n == ClaimedBy(seen, ident[d])
    <2>1. /\ HasDurable(d) /\ handle[d].pc = "synced" /\ seen.kind = "owned"
          /\ ident[d].token # None /\ ident[d].disk # "none"
      <3>1. handle[d].pc = "synced"
        BY <1>5, Zenon DEF OpenClaim
      <3>2. HasDurable(d)
        BY Zenon, <1>1, <3>1 DEF HandleOK
      <3>3. seen.kind = "owned"
        BY Zenon, <1>1, <3>1 DEF HandleOK
      <3>4. ident[d].disk # "none"
        BY Zenon, <3>2 DEF HasDurable
      <3>5. ident[d].token # None
        <4>1. ident[d].token \in 1..fresh
          BY Zenon, <1>i, <3>4 DEF IdentInv
        <4> QED BY <4>1
      <3> QED BY Zenon, <3>1, <3>2, <3>3, <3>4, <3>5
    <2>2. UNCHANGED <<ident, dirty>> /\ \A e \in Dir \ {d} : handle'[e] = handle[e]
      BY <1>t, <1>5, Zenon DEF OpenClaim, Opened, Goto
    <2>3. CASE Matches(seen, ident[d]) /\ Opened(d) /\ UNCHANGED <<head, late>>
      <3>1. OwnsNow(d)
        BY <1>1, <2>1, <2>3, Zenon DEF PromptOK, Opening
      <3>2. handle'[d].pc \in {"active", "sealed"}
        BY <1>t, <2>3, Zenon DEF Opened, Goto
      <3>3. PromptOK(d)'
        BY <1>1, <2>2, <2>3, <3>1, <3>2, Zenon DEF PromptOK, Opening, OwnsNow, HasDurable
      <3> QED BY <1>1, <2>2, <2>3, <3>3, PromptStep, Zenon
    <2>4. CASE /\ ~Matches(seen, ident[d]) /\ Claimable(seen, ident[d])
               /\ \/ CasOk(n) /\ Opened(d)
                  \/ CasFail(n) /\ handle' = [handle EXCEPT ![d] = Closed]
      <3>1. n \in Heads /\ n.rev = seen.rev + 1
        BY Zenon, <1>s, PutTypes
      <3>2. Current(n) => seen = head
        BY <1>s, <3>1, PreparedIsCurrent, Zenon
      <3>3. late' = late /\ (head' = head \/ (Current(n) /\ head' = n))
        BY <2>4, PromptCas, Zenon
      <3>4. n.owner = ident[d].token /\ n.epoch = ident[d].epoch /\ n.kind = seen.kind
        BY Zenon DEF ClaimedBy, Replacement
      <3>5. head' = head \/ Replaces(d)
        BY Zenon, <2>1, <2>4, <3>2, <3>3, <3>4 DEF Claimable, Replaces
      <3>6. ~OwnsNow(d)
        BY Zenon, <1>1, <2>1, <2>4 DEF PromptOK, Opening
      <3>7. CASE head' = n
        <4>1. OwnsNow(d)'
          BY <2>1, <2>2, <3>4, <3>7, Zenon DEF OwnsNow, Matches
        <4>2. handle'[d].pc \in {"closed", "active", "sealed"}
          BY <1>t, <2>4 DEF Opened, Goto, Closed
        <4>3. PromptOK(d)'
          BY <1>1, <2>1, <2>2, <4>1, <4>2, Zenon DEF PromptOK, Opening, HasDurable
        <4> QED BY <1>1, <2>2, <3>3, <3>5, <4>3, PromptStep, Zenon
      <3>8. CASE head' = head /\ head' # n
        <4>1. handle' = [handle EXCEPT ![d] = Closed]
          BY <2>4, <3>8, Zenon DEF CasOk, Land
        <4>2. handle'[d].pc = "closed"
          BY <1>t, <4>1, Zenon DEF Closed
        <4>3. PromptOK(d)'
          BY <1>1, <2>2, <3>8, <4>2, Zenon DEF PromptOK, Opening, Serving, HasDurable, OwnsNow
        <4> QED BY <1>1, <2>2, <3>3, <3>5, <4>3, PromptStep
      <3> QED BY <3>3, <3>7, <3>8, Zenon
    <2> QED BY <1>5, <2>3, <2>4, Zenon DEF OpenClaim
  <1>6. ASSUME Close(d) PROVE PromptInv'
    <2>1. /\ handle'[d].pc = "closed" /\ \A e \in Dir \ {d} : handle'[e] = handle[e]
          /\ UNCHANGED <<head, late, ident, dirty>>
      BY <1>t, <1>6, Zenon DEF Close, Closed
    <2>2. PromptOK(d)'
      BY <1>1, <2>1, Zenon DEF PromptOK, Serving, Opening, OwnsNow, HasDurable
    <2> QED BY <1>1, <2>1, <2>2, PromptStep, Zenon
  <1>7. ASSUME Crash(d) PROVE PromptInv'
    <2>1. /\ handle'[d].pc = "closed" /\ \A e \in Dir \ {d} : handle'[e] = handle[e]
          /\ UNCHANGED <<head, late>> /\ dirty'[d] \in {dirty[d], "clean"}
          /\ \A e \in Dir \ {d} : ident'[e] = ident[e] /\ dirty'[e] = dirty[e]
      BY <1>t, <1>7, Zenon DEF Crash, Closed
    <2>2. dirty[d] # "clean" => ident'[d] = ident[d]
      BY <1>1, <1>t, <1>7, Zenon DEF Crash, PromptOK, HasDurable
    <2>3. PromptOK(d)'
      BY <1>1, <2>1, <2>2, Zenon DEF PromptOK, Serving, Opening, OwnsNow, HasDurable
    <2> QED BY Zenon, <1>1, <2>1, <2>3, PromptStep
  <1>8. ASSUME Write(d) PROVE PromptInv'
    <2>1. HasDurable(d) /\ OwnsNow(d)
      BY <1>1, <1>8, Zenon DEF Write, Serving, HandleOK, PromptOK
    <2>2. UNCHANGED <<head, late, ident, handle>> /\ \A e \in Dir \ {d} : dirty'[e] = dirty[e]
      BY <1>t, <1>8, Zenon DEF Write
    <2>3. PromptOK(d)'
      BY <1>1, <1>8, <2>1, <2>2, Zenon DEF PromptOK, Write, Serving, Opening, OwnsNow, HasDurable
    <2> QED BY <1>1, <2>2, <2>3, PromptStep, Zenon
  <1>9. ASSUME PublishRead(d) PROVE PromptInv'
    <2>1. /\ handle'[d].pc = "commit" /\ \A e \in Dir \ {d} : handle'[e] = handle[e]
          /\ UNCHANGED <<head, late, ident>> /\ \A e \in Dir \ {d} : dirty'[e] = dirty[e]
          /\ handle[d].pc = "active" /\ dirty[d] # "clean"
      BY <1>t, <1>9, Zenon DEF PublishRead, GotoRead
    <2>2. PromptOK(d)'
      BY <1>1, <2>1, Zenon DEF PromptOK, Serving, Opening, OwnsNow, HasDurable
    <2> QED BY <1>1, <2>1, <2>2, PromptStep, Zenon
  <1>10. ASSUME PublishCas(d) PROVE PromptInv'
    <2> DEFINE seen == handle[d].seen
               n == PublishedBy(seen, ident[d])
    <2>1. /\ OwnsNow(d) /\ HasDurable(d) /\ Matches(seen, ident[d]) /\ seen.kind = "owned"
      BY Zenon, <1>1, <1>10 DEF PublishCas, HandleOK, PromptOK, Serving, Matches
    <2>2. /\ handle'[d].pc = "active" /\ \A e \in Dir \ {d} : handle'[e] = handle[e]
          /\ UNCHANGED ident /\ \A e \in Dir \ {d} : dirty'[e] = dirty[e]
      BY <1>t, <1>10, Zenon DEF PublishCas, Goto
    <2>3. late' = late /\ (head' = head \/ (Current(n) /\ head' = n))
      BY <1>10, PromptCas, Zenon DEF PublishCas
    <2>4. n.owner = ident[d].token /\ n.epoch = ident[d].epoch /\ n.kind = seen.kind
      BY Zenon DEF PublishedBy, Replacement
    <2>5. OwnsNow(d)'
      BY Zenon, <2>1, <2>2, <2>3, <2>4 DEF OwnsNow, Matches
    <2>6. head' = head \/ Replaces(d)
      BY <2>1, <2>3, <2>4, OwnersHaveTokens, Zenon DEF Replaces, OwnsNow
    <2>7. PromptOK(d)'
      BY <2>1, <2>2, <2>5, Zenon DEF PromptOK, Opening, HasDurable
    <2> QED BY <1>1, <2>2, <2>3, <2>6, <2>7, PromptStep, Zenon
  <1>11. ASSUME ReleaseClose(d) PROVE PromptInv'
    <2>1. /\ handle'[d].pc = "closing" /\ \A e \in Dir \ {d} : handle'[e] = handle[e]
          /\ UNCHANGED <<head, late, ident, dirty>> /\ dirty[d] = "clean"
      BY <1>t, <1>11, Zenon DEF ReleaseClose, Goto
    <2>2. PromptOK(d)'
      BY <2>1, Zenon DEF PromptOK, Serving, Opening
    <2> QED BY <1>1, <2>1, <2>2, PromptStep, Zenon
  <1>12. ASSUME ReleaseRead(d) PROVE PromptInv'
    <2>1. /\ handle'[d].pc \in {"released", "releasing"}
          /\ \A e \in Dir \ {d} : handle'[e] = handle[e]
          /\ UNCHANGED <<head, late, ident, dirty>> /\ handle[d].pc = "closing"
      BY <1>t, <1>12 DEF ReleaseRead, Goto, GotoRead
    <2>2. PromptOK(d)'
      BY Zenon, <1>1, <2>1 DEF PromptOK, Serving, Opening
    <2> QED BY <1>1, <2>1, <2>2, PromptStep, Zenon
  <1>13. ASSUME ReleaseCas(d) PROVE PromptInv'
    <2> DEFINE seen == handle[d].seen
               n == Released(seen)
    <2>1. HasDurable(d) /\ Matches(seen, ident[d]) /\ handle[d].pc = "releasing"
          /\ dirty[d] = "clean"
      <3>1. handle[d].pc = "releasing"
        BY Zenon, <1>13 DEF ReleaseCas
      <3>2. HasDurable(d)
        BY Zenon, <1>1, <3>1 DEF HandleOK
      <3>3. Matches(seen, ident[d])
        BY Zenon, <1>1, <3>1 DEF HandleOK
      <3>4. dirty[d] = "clean"
        BY Zenon, <1>1, <3>1 DEF PromptOK
      <3> QED BY Zenon, <3>1, <3>2, <3>3, <3>4
    <2>2. /\ handle'[d].pc \in {"released", "closing"}
          /\ \A e \in Dir \ {d} : handle'[e] = handle[e]
          /\ UNCHANGED <<ident, dirty>>
      BY <1>t, <1>13 DEF ReleaseCas, Goto
    <2>3. late' = late /\ (head' = head \/ (Current(n) /\ head' = n))
      BY <1>13, PromptCas, Zenon DEF ReleaseCas
    <2>4. n.owner = None /\ n \in Heads /\ n.rev = seen.rev + 1
      BY <1>s, PutTypes, Zenon DEF Released, Replacement
    <2>5. Current(n) => seen = head
      BY <1>s, <2>4, PreparedIsCurrent, Zenon
    <2>6. head' = head \/ Replaces(d)
      <3>1. seen = head => OwnsNow(d) /\ head.kind # "tomb"
        BY <2>1, Zenon DEF OwnsNow, Matches, HasDurable
      <3> QED BY <2>3, <2>4, <2>5, <3>1, Zenon DEF Replaces
    <2>7. PromptOK(d)'
      BY <2>1, <2>2, Zenon DEF PromptOK, Opening, Serving
    <2> QED BY <1>1, <2>2, <2>3, <2>6, <2>7, PromptStep, Zenon
  <1>14. ASSUME RetireRead(d) PROVE PromptInv'
    <2>1. /\ handle'[d].pc = "burying" /\ \A e \in Dir \ {d} : handle'[e] = handle[e]
          /\ UNCHANGED <<head, late, ident, dirty>>
      BY <1>t, <1>14, Zenon DEF RetireRead, GotoRead
    <2>2. PromptOK(d)'
      BY <1>1, <2>1, Zenon DEF PromptOK, Serving, Opening, OwnsNow, HasDurable
    <2> QED BY <1>1, <2>1, <2>2, PromptStep, Zenon
  <1>15. ASSUME RetireCas(d) PROVE PromptInv'
    <2> DEFINE seen == handle[d].seen
               n == Tombstone(seen)
    <2>1. HasDurable(d) /\ Matches(seen, ident[d])
      BY Zenon, <1>1, <1>15 DEF RetireCas, HandleOK
    <2>2. /\ handle'[d].pc = "closed" /\ \A e \in Dir \ {d} : handle'[e] = handle[e]
          /\ UNCHANGED <<ident, dirty>>
      BY <1>t, <1>15, Zenon DEF RetireCas, Closed
    <2>3. late' = late /\ (head' = head \/ (Current(n) /\ head' = n))
      BY <1>15, PromptCas, Zenon DEF RetireCas
    <2>4. n.owner = None /\ n.kind = "tomb" /\ n \in Heads /\ n.rev = seen.rev + 1
      BY <1>s, PutTypes, Zenon DEF Tombstone, Replacement
    <2>5. Current(n) => seen = head
      BY <1>s, <2>4, PreparedIsCurrent, Zenon
    <2>6. head' = head \/ Replaces(d)
      <3>1. seen = head => OwnsNow(d) /\ head.kind # "tomb"
        BY <2>1, Zenon DEF OwnsNow, Matches, HasDurable
      <3> QED BY <2>3, <2>4, <2>5, <3>1, Zenon DEF Replaces
    <2>7. PromptOK(d)'
      BY Zenon, <1>1, <2>1, <2>2, <2>3, <2>4 DEF PromptOK, Opening, Serving, HasDurable, OwnsNow
    <2> QED BY Zenon, <1>1, <2>2, <2>3, <2>6, <2>7, PromptStep
  <1>16. ASSUME DiscardLocal(d) PROVE PromptInv'
    <2>1. /\ dirty'[d] = "clean" /\ \A e \in Dir \ {d} : dirty'[e] = dirty[e]
          /\ UNCHANGED <<head, late, ident, handle>> /\ handle[d].pc = "closed"
      BY <1>t, <1>16, Zenon DEF DiscardLocal
    <2>2. PromptOK(d)'
      BY <2>1, Zenon DEF PromptOK, Serving, Opening
    <2> QED BY Zenon, <1>1, <2>1, <2>2, PromptStep
  <1> QED BY <1>2, <1>3, <1>4, <1>5, <1>6, <1>7, <1>8, <1>9, <1>10, <1>11, <1>12, <1>13,
             <1>14, <1>15, <1>16, Zenon DEF DirNext

\* Steps of nobody's directory replace a head that names nobody.
LEMMA PromptStore ==
    ASSUME IInv, PromptInv, Prompt, Import \/ AdminRead \/ AdminCas \/ \E n \in late : Deliver(n)
    PROVE  PromptInv'
  <1>1. /\ late = {} /\ head \in Heads /\ HeadInv /\ AdminInv /\ IdentInv
        /\ admin.seen \in Heads /\ Seen(admin.seen)
    BY Zenon DEF PromptInv, IInv, TypeOK, Core, AdminInv
  <1>2. ASSUME UNCHANGED <<handle, ident, dirty>>, late' = late,
               head' = head \/ (head.kind # "tomb" /\ head.owner = None /\ head'.owner = None)
        PROVE  PromptInv'
    <2>1. ASSUME NEW e \in Dir PROVE PromptOK(e)'
      <3>1. PromptOK(e)
        BY Zenon DEF PromptInv
      <3>2. head' = head \/ (head.kind # "tomb" /\ ~OwnsNow(e) /\ ~OwnsNow(e)')
        <4>1. OwnsNow(e) => head.owner # None
          BY OwnersHaveTokens, Zenon
        <4>2. ident[e].disk # "none" => ident[e].token # None
          BY <1>1 DEF IdentInv, None
        <4>3. head'.owner = None => ~OwnsNow(e)'
          BY <1>2, <4>2, Zenon DEF OwnsNow, Matches
        <4> QED BY <1>2, <4>1, <4>3, Zenon
      <3> QED BY <1>2, <3>1, <3>2, PromptOther, Zenon
    <2> QED BY <1>1, <1>2, <2>1, Zenon DEF PromptInv, Prompt
  <1>3. CASE Import
    <2>1. head.owner = None
      BY Zenon, <1>1, <1>3 DEF Import, HeadInv
    <2> QED BY <1>2, <1>3, <2>1, Zenon DEF Import, Land, Imported, Replacement
  <1>4. CASE AdminRead
    BY <1>2, <1>4, Zenon DEF AdminRead
  <1>5. CASE AdminCas
    <2> DEFINE n == IF admin.op = "enroll" THEN Enrolled(admin.seen) ELSE Tombstone(admin.seen)
    <2>1. n \in Heads /\ n.rev = admin.seen.rev + 1
      <3>1. NoIdentity \in Identity
        BY Zenon DEF NoIdentity, Identity, None
      <3> QED BY <1>1, <3>1, PutTypes, Zenon
    <2>2. Current(n) => admin.seen = head
      BY <1>1, <2>1, PreparedIsCurrent, Zenon
    <2>3. late' = late /\ (head' = head \/ (Current(n) /\ head' = n))
      BY <1>5, PromptCas DEF AdminCas
    <2>4. admin.seen = head => head.kind # "tomb" /\ head.owner = None /\ n.owner = None
      <3>1. admin.op \in {"enroll", "retire"}
        BY <1>5, Zenon DEF AdminCas, IInv, TypeOK
      <3> QED BY <1>1, <3>1, Zenon DEF AdminInv, HeadInv, Enrolled, Tombstone, Replacement
    <2>5. UNCHANGED <<handle, ident, dirty>>
      BY <1>5, Zenon DEF AdminCas
    <2> QED BY <1>2, <2>2, <2>3, <2>4, <2>5, Zenon
  <1>6. CASE \E n \in late : Deliver(n)
    BY <1>1, <1>6, Zenon
  <1> QED BY <1>3, <1>4, <1>5, <1>6, Zenon

LEMMA PromptKept ==
    ASSUME IInv, PromptInv, [Next]_vars
    PROVE  PromptInv'
  <1>1. CASE ~Prompt
    BY <1>1, Zenon DEF PromptInv, Prompt
  <1>2. CASE Prompt /\ Next
    BY <1>2, PromptDir, PromptStore, Zenon DEF Next
  <1>3. CASE UNCHANGED vars
    BY <1>3, Zenon DEF vars, PromptInv, PromptOK, Serving, Opening, OwnsNow, HasDurable
  <1> QED BY <1>1, <1>2, <1>3, Zenon

\* With a prompt store, for every number of directories: a serving handle is the
\* remote owner, two directories never serve at once, and ownership is never
\* handed on over unpublished writes (Store::open_inner, OwnedDisk::release).
THEOREM ExclusiveOwner == Spec => [](ServingIsOwner /\ OneServer /\ DrainedHandoff)
  <1>1. Init => IInv /\ PromptInv
    <2>1. Init => PromptInv
      BY DEF Init, PromptInv, PromptOK, Serving, Opening, Closed
    <2> QED BY <2>1, InitHolds, Zenon
  <1>2. IInv /\ PromptInv /\ [Next]_vars => (IInv /\ PromptInv)'
    BY NextKeeps, PromptKept, Zenon DEF Step
  <1>3. IInv /\ PromptInv => ServingIsOwner /\ OneServer /\ DrainedHandoff
    <2>1. ASSUME IInv, PromptInv, Prompt PROVE \A d \in Dir : Serving(d) => OwnsNow(d)
      BY <2>1, Zenon DEF PromptInv, PromptOK
    <2>2. ASSUME IInv, PromptInv PROVE ServingIsOwner
      BY <2>1, <2>2, Zenon DEF ServingIsOwner, OwnsNow
    <2>3. ASSUME IInv, PromptInv PROVE OneServer
      BY <2>1, <2>3, OneOwner, Zenon DEF OneServer
    <2>4. ASSUME IInv, PromptInv PROVE DrainedHandoff
      BY <2>4, Zenon DEF DrainedHandoff, PromptInv, PromptOK, OwnsNow
    <2> QED BY <2>2, <2>3, <2>4, Zenon
  <1> QED BY <1>1, <1>2, <1>3, PTL DEF Spec

\* A retired directory is closed, or opened only to be retired.
MarkerInv ==
    \A d \in Dir : marker[d] =>
        \/ handle[d].pc \in {"closed", "sealed", "burying"}
        \/ handle[d].pc \in {"head", "ident", "synced"} /\ handle[d].retiring

\* discard_retired_local fences its directory for good: after the durable marker
\* no handle of that directory admits guest I/O, with or without delayed requests.
THEOREM RetiredIsFenced == Spec => []RetiredNeverServes
  <1>1. Init => MarkerInv
    BY Zenon DEF Init, MarkerInv
  <1>2. ASSUME TypeOK, MarkerInv, [Next]_vars PROVE MarkerInv'
    <2>1. handle \in [Dir -> Handle] /\ marker \in [Dir -> BOOLEAN]
      BY <1>2, Zenon DEF TypeOK
    <2>2. ASSUME NEW d \in Dir, DirNext(d) PROVE MarkerInv'
      BY <1>2, <2>1, <2>2 DEF MarkerInv, DirNext, OpenRead, OpenIdentity, OpenSync, OpenClaim,
         Opened, Close, Crash, Write, PublishRead, PublishCas, ReleaseClose, ReleaseRead,
         ReleaseCas, RetireRead, RetireCas, DiscardLocal, Goto, GotoRead, Closed, Handle
    <2>3. CASE UNCHANGED <<handle, marker>>
      BY <1>2, <2>3, Zenon DEF MarkerInv
    <2>4. CASE Import \/ AdminRead \/ AdminCas \/ \E n \in late : Deliver(n)
      BY <2>3, <2>4, Zenon DEF Import, AdminRead, AdminCas, Deliver
    <2> QED BY <1>2, <2>2, <2>3, <2>4, Zenon DEF Next, vars
  <1>3. MarkerInv => RetiredNeverServes
    BY Zenon DEF MarkerInv, RetiredNeverServes, Serving
  <1> QED BY <1>1, <1>2, <1>3, OwnerDurable, PTL DEF Spec
=============================================================================
