---------------------------- MODULE VolumeOwner ----------------------------
(***************************************************************************)
(* Exclusive writer ownership of one replicated volume                     *)
(* (ahvm-volume/src/owned.rs).                                             *)
(*                                                                         *)
(* The owner, the epoch and the disk map live in ONE object of the remote  *)
(* store that is only ever replaced by compare-and-swap on its revision.   *)
(* Every owner directory (one per host that ever opens the volume) keeps a *)
(* random identity in owner.json and a lock file; there is no lease, no    *)
(* expiry and no forced takeover.  Any request may lose its reply; with    *)
(* Delay it may also reach the store after its sender gave up.             *)
(***************************************************************************)
EXTENDS Integers, FiniteSets

CONSTANTS Dir,        \* owner directories
          Delay,      \* may a request land after its sender saw an error?
          MaxToken,   \* bound: random tokens drawn
          MaxGen,     \* bound: generations published
          MaxLate     \* bound: delayed requests in flight at once

ASSUME OwnerAssumption ==
    /\ Delay \in BOOLEAN
    /\ MaxToken \in Nat
    /\ MaxGen \in Nat
    /\ MaxLate \in Nat

VARIABLES head,     \* the remote object: revision, kind, epoch, owner, generation
          late,     \* replacements sent by somebody who already gave up on them
          ident,    \* ident[d]: what owner.json of directory d holds
          handle,   \* handle[d]: the process that has owner.lock of d
          dirty,    \* dirty[d]: does d's journal hold writes the store lacks?
          marker,   \* marker[d]: the durable "retired" marker of d
          admin,    \* the directory-less maintenance call: enroll, or retire
          fresh,    \* tokens drawn so far (32 random bytes never repeat)
          granted   \* history: every token that owned the volume

vars == <<head, late, ident, handle, dirty, marker, admin, fresh, granted>>

None == 0            \* "no owner": tokens are 1, 2, ...

Kinds == {"absent", "plain", "owned", "tomb"}

Heads == [rev: Nat, kind: Kinds, epoch: Nat, owner: Nat, gen: Nat]

NoHead == [rev |-> 0, kind |-> "absent", epoch |-> 0, owner |-> None, gen |-> 0]

Identity == [disk: {"none", "torn", "cached", "durable"}, token: Nat, epoch: Nat]

NoIdentity == [disk |-> "none", token |-> None, epoch |-> 0]

\* Progress of the call that holds owner.lock.  Opening: "head" (head read),
\* "ident" (owner.json complete in the page cache), "synced" (owner.json durable).
\* Open: "active", "commit" (a publication was prepared).  Closing: "closing",
\* "releasing" (release prepared), "released".  Retiring: "sealed", "burying".
Pcs == {"closed", "head", "ident", "synced", "active", "commit", "closing",
        "releasing", "released", "sealed", "burying"}

Handle == [pc: Pcs, retiring: BOOLEAN, seen: Heads]

Closed == [pc |-> "closed", retiring |-> FALSE, seen |-> NoHead]

\* Handle of a call that goes on to step pc with no use for an earlier read.
Goto(d, pc) ==
    handle' = [handle EXCEPT ![d] =
                 [pc |-> pc, retiring |-> handle[d].retiring, seen |-> NoHead]]

\* Handle of a call that has just read the head and goes on to step pc.
GotoRead(d, pc) ==
    handle' = [handle EXCEPT ![d] =
                 [pc |-> pc, retiring |-> handle[d].retiring, seen |-> head]]

(***************************************************************************)
(* Faulty variants of operators below.  Nothing here uses them: a mutation *)
(* run substitutes one of them and must see the named property fail.       *)
(***************************************************************************)
\* OneServer: an identity is recognised by its epoch alone.
MatchesEpoch(h, i) == h.kind = "owned" /\ h.epoch = i.epoch

\* OwnershipKept: an identity left over from any earlier epoch may claim.
ClaimableAnyEpoch(h, i) == h.owner = None

\* OwnerIsDurable: an existing owner.json is not synced again before the claim.
OpenWithoutSync(d) ==
    /\ handle[d].pc = "ident"
    /\ handle' = [handle EXCEPT ![d].pc = "synced"]
    /\ UNCHANGED <<head, late, ident, dirty, marker, admin, fresh, granted>>

\* HandoffSafe: release closes the handle before the journal is drained.
ReleaseUndrained(d) ==
    /\ handle[d].pc = "active"
    /\ Goto(d, "closing")
    /\ UNCHANGED <<head, late, ident, dirty, marker, admin, fresh, granted>>

\* Store::active of an ordinary handle: guest I/O and publication are admitted.
Serving(d) == handle[d].pc \in {"active", "commit"}

\* Store::matches: the remote object names this exact identity.
Matches(h, i) == h.kind = "owned" /\ h.epoch = i.epoch /\ h.owner = i.token

(***************************************************************************)
(* Replacements of the remote object.  Each is prepared from a head that   *)
(* was read earlier; its revision is one above the one it expects.         *)
(***************************************************************************)
Replacement(h, kind, epoch, owner, gen) ==
    [rev |-> h.rev + 1, kind |-> kind, epoch |-> epoch, owner |-> owner, gen |-> gen]

Imported(h) == Replacement(h, "plain", h.epoch, h.owner, h.gen)

Enrolled(h) == Replacement(h, "owned", 1, h.owner, h.gen)

ClaimedBy(h, i) == Replacement(h, h.kind, i.epoch, i.token, h.gen)

\* publish_cancellable stamps the writer's own epoch and token on the new map.
PublishedBy(h, i) == Replacement(h, h.kind, i.epoch, i.token, h.gen + 1)

Released(h) == Replacement(h, h.kind, h.epoch, None, h.gen)

\* The object of a deleted volume has no map; its epoch and generation are history.
Tombstone(h) == Replacement(h, "tomb", h.epoch, None, h.gen)

\* Does the store accept this replacement now?
Current(n) == n.rev = head.rev + 1

Land(n) ==
    /\ Current(n)
    /\ head' = n
    /\ granted' = granted \cup ({n.owner} \ {None})

\* The three outcomes of a conditional PUT: accepted, refused, reply lost.
CasOk(n) == Land(n) /\ UNCHANGED late

CasConflict(n) == ~Current(n) /\ UNCHANGED <<head, late, granted>>

CasLost(n) ==
    \/ ~Delay /\ CasOk(n)
    \/ UNCHANGED <<head, late, granted>>
    \/ /\ Delay
       /\ Cardinality(late) < MaxLate
       /\ late' = late \cup {n}
       /\ UNCHANGED <<head, granted>>

\* The sender sees an error; whether the replacement took effect is unknown.
CasFail(n) == CasConflict(n) \/ CasLost(n)

\* A delayed request reaches the store.
Deliver(n) ==
    /\ n \in late
    /\ late' = late \ {n}
    /\ Land(n) \/ (~Current(n) /\ UNCHANGED <<head, granted>>)
    /\ UNCHANGED <<ident, handle, dirty, marker, admin, fresh>>

(***************************************************************************)
(* Store::open_inner, under owner.lock.                                    *)
(***************************************************************************)
\* Take the lock, refuse a retired directory unless retiring, read the head.
\* A missing, tombstoned or unenrolled volume (epoch 0) is an error.
OpenRead(d, retiring) ==
    /\ handle[d].pc = "closed"
    /\ retiring \/ ~marker[d]
    /\ head.kind = "owned"
    /\ handle' = [handle EXCEPT ![d] =
                    [pc |-> "head", retiring |-> retiring, seen |-> head]]
    /\ UNCHANGED <<head, late, ident, dirty, marker, admin, fresh, granted>>

\* Load owner.json, or write a new one for the epoch after the one just read.
\* A torn file, or no file while the volume is owned, is an error.
OpenIdentity(d) ==
    /\ handle[d].pc = "head"
    /\ \/ /\ ident[d].disk \in {"cached", "durable"}
          /\ UNCHANGED <<ident, fresh>>
       \/ /\ ident[d].disk = "none"
          /\ handle[d].seen.owner = None
          /\ fresh < MaxToken
          /\ fresh' = fresh + 1
          /\ ident' = [ident EXCEPT ![d] = [disk |-> "cached", token |-> fresh + 1,
                                            epoch |-> handle[d].seen.epoch + 1]]
    /\ handle' = [handle EXCEPT ![d].pc = "ident"]
    /\ UNCHANGED <<head, late, dirty, marker, admin, granted>>

\* fsync of owner.json, its directory and the parent, every time.
OpenSync(d) ==
    /\ handle[d].pc = "ident"
    /\ ident' = [ident EXCEPT ![d].disk = "durable"]
    /\ handle' = [handle EXCEPT ![d].pc = "synced"]
    /\ UNCHANGED <<head, late, dirty, marker, admin, fresh, granted>>

\* The state after a successful open: serving, or sealed for retirement.
Opened(d) == Goto(d, IF handle[d].retiring THEN "sealed" ELSE "active")

\* Only an unowned predecessor can be claimed.
Claimable(h, i) == h.owner = None /\ h.epoch + 1 = i.epoch

\* The head already names this identity, or it is claimed by a conditional
\* replacement of exactly the head that was read.
OpenClaim(d) ==
    LET seen == handle[d].seen
    IN  /\ handle[d].pc = "synced"
        /\ \/ /\ Matches(seen, ident[d])
              /\ Opened(d)
              /\ UNCHANGED <<head, late, granted>>
           \/ /\ ~Matches(seen, ident[d])
              /\ Claimable(seen, ident[d])
              /\ \/ CasOk(ClaimedBy(seen, ident[d])) /\ Opened(d)
                 \/ /\ CasFail(ClaimedBy(seen, ident[d]))
                    /\ handle' = [handle EXCEPT ![d] = Closed]
        /\ UNCHANGED <<ident, dirty, marker, admin, fresh>>

\* The call fails or the handle is dropped: the lock file is unlocked.
Close(d) ==
    /\ handle[d].pc # "closed"
    /\ handle' = [handle EXCEPT ![d] = Closed]
    /\ UNCHANGED <<head, late, ident, dirty, marker, admin, fresh, granted>>

\* The machine of directory d crashes.  Bytes of owner.json that were never
\* synced may be gone, torn or intact; unflushed guest writes may be lost.
Crash(d) ==
    /\ handle' = [handle EXCEPT ![d] = Closed]
    /\ \/ UNCHANGED ident
       \/ /\ ident[d].disk = "cached"
          /\ \E i \in {NoIdentity, [ident[d] EXCEPT !.disk = "torn"]} :
                ident' = [ident EXCEPT ![d] = i]
    /\ dirty' \in {dirty, [dirty EXCEPT ![d] = "clean"]}
    /\ UNCHANGED <<head, late, marker, admin, fresh, granted>>

(***************************************************************************)
(* An open handle.                                                         *)
(***************************************************************************)
\* A guest write is accepted by the local journal.
Write(d) ==
    /\ Serving(d)
    /\ dirty' = [dirty EXCEPT ![d] = "pending"]
    /\ UNCHANGED <<head, late, ident, handle, marker, admin, fresh, granted>>

\* sync_remote: read the head through the owned store (a head that does not
\* match this identity is a conflict) and take the pending writes.
PublishRead(d) ==
    /\ handle[d].pc = "active"
    /\ dirty[d] # "clean"
    /\ head.gen < MaxGen
    /\ Matches(head, ident[d])
    /\ dirty' = [dirty EXCEPT ![d] = "captured"]
    /\ GotoRead(d, "commit")
    /\ UNCHANGED <<head, late, ident, marker, admin, fresh, granted>>

\* ... and replace the head that was read.  Writes that arrived meanwhile,
\* or whose publication failed, stay in the journal.
PublishCas(d) ==
    LET n == PublishedBy(handle[d].seen, ident[d])
    IN  /\ handle[d].pc = "commit"
        /\ \/ /\ CasOk(n)
              /\ dirty' = [dirty EXCEPT ![d] = IF @ = "captured" THEN "clean" ELSE @]
           \/ CasFail(n) /\ UNCHANGED dirty
        /\ Goto(d, "active")
        /\ UNCHANGED <<ident, marker, admin, fresh>>

\* OwnedDisk::release: drain the journal (the publications above), then close
\* the handle for good.
ReleaseClose(d) ==
    /\ handle[d].pc = "active"
    /\ dirty[d] = "clean"
    /\ Goto(d, "closing")
    /\ UNCHANGED <<head, late, ident, dirty, marker, admin, fresh, granted>>

\* Store::release reads the head: already released (or reacquired by somebody
\* else) is success, another owner of the same epoch is a conflict.
ReleaseRead(d) ==
    /\ handle[d].pc = "closing"
    /\ head.kind = "owned"
    /\ \/ /\ \/ head.epoch > ident[d].epoch
             \/ head.epoch = ident[d].epoch /\ head.owner = None
          /\ Goto(d, "released")
       \/ /\ Matches(head, ident[d])
          /\ GotoRead(d, "releasing")
    /\ UNCHANGED <<head, late, ident, dirty, marker, admin, fresh, granted>>

ReleaseCas(d) ==
    LET n == Released(handle[d].seen)
    IN  /\ handle[d].pc = "releasing"
        /\ \/ CasOk(n) /\ Goto(d, "released")
           \/ CasFail(n) /\ Goto(d, "closing")
        /\ UNCHANGED <<ident, dirty, marker, admin, fresh>>

(***************************************************************************)
(* Retirement and maintenance.                                             *)
(***************************************************************************)
\* OwnedDisk::retire of an owned volume: after open_inner(retiring), read the
\* head again, it must still match, and replace it by the tombstone.
RetireRead(d) ==
    /\ handle[d].pc = "sealed"
    /\ Matches(head, ident[d])
    /\ GotoRead(d, "burying")
    /\ UNCHANGED <<head, late, ident, dirty, marker, admin, fresh, granted>>

RetireCas(d) ==
    LET n == Tombstone(handle[d].seen)
    IN  /\ handle[d].pc = "burying"
        /\ CasOk(n) \/ CasFail(n)
        /\ handle' = [handle EXCEPT ![d] = Closed]
        /\ UNCHANGED <<ident, dirty, marker, admin, fresh>>

\* discard_retired_local: under owner.lock, write the durable marker and delete
\* the journal of an irrevocably deleted disk.
DiscardLocal(d) ==
    /\ handle[d].pc = "closed"
    /\ marker' = [marker EXCEPT ![d] = TRUE]
    /\ dirty' = [dirty EXCEPT ![d] = "clean"]
    /\ UNCHANGED <<head, late, ident, handle, admin, fresh, granted>>

\* IndexedVolume::create and finish_import publish the first complete map.
Import ==
    /\ head.kind = "absent"
    /\ Land(Imported(head))
    /\ UNCHANGED <<late, ident, handle, dirty, marker, admin, fresh>>

\* OwnedDisk::enroll, and OwnedDisk::retire of a volume nobody owns, take no
\* directory lock: they read the head and replace exactly what they read.
AdminRead ==
    /\ admin.op = "none"
    /\ \/ head.kind = "plain" /\ admin' = [op |-> "enroll", seen |-> head]
       \/ /\ head.kind \in {"absent", "plain"} \/ (head.kind = "owned" /\ head.owner = None)
          /\ admin' = [op |-> "retire", seen |-> head]
    /\ UNCHANGED <<head, late, ident, handle, dirty, marker, fresh, granted>>

AdminCas ==
    LET n == IF admin.op = "enroll" THEN Enrolled(admin.seen) ELSE Tombstone(admin.seen)
    IN  /\ admin.op # "none"
        /\ CasOk(n) \/ CasFail(n)
        /\ admin' = [op |-> "none", seen |-> NoHead]
        /\ UNCHANGED <<ident, handle, dirty, marker, fresh>>

Init ==
    /\ head = NoHead
    /\ late = {}
    /\ ident = [d \in Dir |-> NoIdentity]
    /\ handle = [d \in Dir |-> Closed]
    /\ dirty = [d \in Dir |-> "clean"]
    /\ marker = [d \in Dir |-> FALSE]
    /\ admin = [op |-> "none", seen |-> NoHead]
    /\ fresh = 0
    /\ granted = {}

DirNext(d) ==
    \/ \E retiring \in BOOLEAN : OpenRead(d, retiring)
    \/ OpenIdentity(d) \/ OpenSync(d) \/ OpenClaim(d) \/ Close(d) \/ Crash(d)
    \/ Write(d) \/ PublishRead(d) \/ PublishCas(d)
    \/ ReleaseClose(d) \/ ReleaseRead(d) \/ ReleaseCas(d)
    \/ RetireRead(d) \/ RetireCas(d) \/ DiscardLocal(d)

Next ==
    \/ \E d \in Dir : DirNext(d)
    \/ \E n \in late : Deliver(n)
    \/ Import \/ AdminRead \/ AdminCas

Spec == Init /\ [][Next]_vars

(***************************************************************************)
(* Properties.                                                             *)
(***************************************************************************)
\* The remote object, the identities and the handles have their types; an epoch and a
\* token never leave the natural numbers (Envelope, Identity).
TypeOK ==
    /\ head \in Heads
    /\ late \subseteq Heads
    /\ ident \in [Dir -> Identity]
    /\ handle \in [Dir -> Handle]
    /\ dirty \in [Dir -> {"clean", "pending", "captured"}]
    /\ marker \in [Dir -> BOOLEAN]
    /\ admin \in [op: {"none", "enroll", "retire"}, seen: Heads]
    /\ fresh \in Nat
    /\ granted \subseteq Nat

\* The object store is prompt: a request whose sender saw an error has taken
\* effect already, or never will (the reading of Error::Uncertain in owned.rs).
Prompt == ~Delay

\* An open handle is the remote owner: while Store::active holds, the head names
\* this directory's token and epoch, so no second host can serve the same disk.
ServingIsOwner == Prompt => \A d \in Dir : Serving(d) => Matches(head, ident[d])

\* Two directories never serve the volume at the same time, through any order of
\* lost claim replies, crashes during open, releases and reopenings.
OneServer ==
    Prompt => \A d, e \in Dir : Serving(d) /\ Serving(e) => d = e

\* An owned volume can always be reopened by somebody: the token in the head is
\* in a durable owner.json.  There is no forced takeover, so a claim whose
\* identity a crash can lose would leave the volume unusable for ever.
OwnerIsDurable ==
    head.owner # None =>
        \E d \in Dir : ident[d].disk = "durable" /\ Matches(head, ident[d])

\* A journal with writes the store lacks belongs to the owner: ownership is never
\* given up, by release or by reconciling a lost release, over unpublished writes
\* (deletion of the volume excepted, which discards them on purpose).
DrainedHandoff ==
    Prompt => \A d \in Dir :
        dirty[d] # "clean" /\ head.kind # "tomb" => Matches(head, ident[d])

\* A directory with the durable retired marker never serves the guest again.
RetiredNeverServes == \A d \in Dir : marker[d] => ~Serving(d)

\* The code implements the promise: one fresh token per epoch, publications only
\* by the owner and one generation at a time, a tombstone that is never replaced,
\* whatever requests are lost or (with Delay) land late.
Promise == INSTANCE Ownership WITH stage <- head.kind, epoch <- head.epoch,
                                   holder <- head.owner, gen <- head.gen

OwnershipKept == Promise!ASpec
=============================================================================
