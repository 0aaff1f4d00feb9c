----------------------------- MODULE Ownership -----------------------------
(***************************************************************************)
(* What exclusive volume ownership promises, with no hosts, no requests    *)
(* and no failures: a volume is imported once, enrolled once, granted to   *)
(* one fresh token at a time under a strictly increasing epoch, published  *)
(* to only while it is owned, and retired for ever.  VolumeOwner (the code *)
(* of ahvm-volume/src/owned.rs) implements this specification.             *)
(***************************************************************************)
EXTENDS Integers

VARIABLES stage,    \* "absent", "plain" (imported), "owned" (enrolled), "tomb"
          epoch,    \* number of the current, or of the last, grant
          holder,   \* the token that owns the volume, 0 when nobody does
          gen,      \* generation of the published disk map
          granted   \* every token that ever owned the volume

avars == <<stage, epoch, holder, gen, granted>>

Nobody == 0

AInit ==
    /\ stage = "absent"
    /\ epoch = 0
    /\ holder = Nobody
    /\ gen = 0
    /\ granted = {}

AImport ==
    /\ stage = "absent"
    /\ stage' = "plain"
    /\ UNCHANGED <<epoch, holder, gen, granted>>

AEnroll ==
    /\ stage = "plain"
    /\ stage' = "owned"
    /\ epoch' = 1
    /\ UNCHANGED <<holder, gen, granted>>

\* A grant starts a new epoch for a token that never owned the volume before.
AGrant ==
    /\ stage = "owned"
    /\ holder = Nobody
    /\ epoch' = epoch + 1
    /\ holder' # Nobody
    /\ holder' \notin granted
    /\ granted' = granted \cup {holder'}
    /\ UNCHANGED <<stage, gen>>

\* Publication moves the disk map one generation forward under the same owner.
APublish ==
    /\ stage = "owned"
    /\ holder # Nobody
    /\ gen' = gen + 1
    /\ UNCHANGED <<stage, epoch, holder, granted>>

ARelease ==
    /\ stage = "owned"
    /\ holder # Nobody
    /\ holder' = Nobody
    /\ UNCHANGED <<stage, epoch, gen, granted>>

\* The tombstone carries no owner and no disk map, and nothing replaces it.
ARetire ==
    /\ stage # "tomb"
    /\ stage' = "tomb"
    /\ holder' = Nobody
    /\ UNCHANGED <<epoch, gen, granted>>

ANext == AImport \/ AEnroll \/ AGrant \/ APublish \/ ARelease \/ ARetire

ASpec == AInit /\ [][ANext]_avars
=============================================================================
