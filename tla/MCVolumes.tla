------------------------------ MODULE MCVolumes ------------------------------
(***************************************************************************)
(* The replicated volumes: who may write one (VolumeOwner), what the       *)
(* host's service keeps of those attached to it (VolumeService) and how    *)
(* it caches their objects (BlockCache).  A behaviour is of one part:      *)
(*   "prompt"   two hosts and a store that answers within the call;        *)
(*   "late"     one host and a store that may apply a request after its    *)
(*              sender has given up on it;                                 *)
(*   "service"  one host's volume service;                                 *)
(*   "cache"    the cache of one volume.                                   *)
(***************************************************************************)
EXTENDS VolumeOwner

CONSTANTS d1, d2, Volumes, Scopes

VARIABLES part, scope, faults, disk, mem, frozen, job, waiting, sweep, failures,
          nbd, worker, going, vm, ready, journal,
          remote, content, order, bytes, reserved, ahead, call, localBase,
          metaSlot, poisoned, misled, cacheFaults

serviceVars == <<scope, faults, disk, mem, frozen, job, waiting, sweep, failures,
                 nbd, worker, going, vm, ready, journal>>
cacheVars == <<remote, content, order, bytes, reserved, ahead, call, localBase,
               metaSlot, poisoned, misled, cacheFaults>>

Dirs == {d1, d2}

Slow == INSTANCE VolumeOwner WITH Delay <- TRUE, MaxGen <- MaxGen + 1

Service == INSTANCE VolumeService

(***************************************************************************)
(* The hosts of the service: one disk with every request; two disks that   *)
(* compete for one device, for one share of the journal budget of a host   *)
(* with two devices, and for its logical budget.                           *)
(***************************************************************************)
Both(one, two) == [v \in Volumes |-> IF v = "v1" THEN one ELSE two]
Using == {"prepare", "attach", "detach"}

Lone == [devices |-> 1, resident |-> 1, logical |-> 1, records |-> 2,
         volumes |-> {"v1"}, guests |-> {"v1"}, faults |-> 1,
         calls |-> Both(Using \cup {"bind", "sync", "delete"}, {})]
OneDevice == [Lone EXCEPT !.volumes = Volumes, !.resident = 2, !.logical = 2,
                          !.guests = {}, !.calls = Both(Using, {"prepare"})]
OneShare == [OneDevice EXCEPT !.devices = 2, !.resident = 1, !.faults = 0,
                              !.guests = {"v1"}, !.calls = Both(Using, Using)]
OneName == [OneDevice EXCEPT !.devices = 2, !.logical = 1,
                             !.calls = Both({"prepare", "delete"}, {"prepare", "delete"})]
Hosts == {Lone, OneDevice, OneShare, OneName}

\* The cache: two private objects that do not fit together, a block and a page of
\* the base image, and two requests of read-ahead.
Cache == INSTANCE BlockCache WITH
    pending <- reserved, Private <- {"p", "q"}, Data <- {"d"}, Meta <- {"m"},
    Length <- [p |-> 1, q |-> 2, d |-> 1, m |-> 1],
    Capacity <- 2, MaxAhead <- 2, Callers <- {1}, MaxCacheFaults <- 1

-----------------------------------------------------------------------------
Off == 0    \* a variable of a part that does not run

ServiceOff ==
    /\ scope = Off /\ faults = Off /\ disk = Off /\ mem = Off
    /\ frozen = Off /\ job = Off /\ waiting = Off /\ sweep = Off
    /\ failures = Off /\ nbd = Off /\ worker = Off /\ going = Off
    /\ vm = Off /\ ready = Off /\ journal = Off
CacheOff ==
    /\ remote = Off /\ content = Off /\ order = Off /\ bytes = Off
    /\ reserved = Off /\ ahead = Off /\ call = Off /\ localBase = Off
    /\ metaSlot = Off /\ poisoned = Off /\ misled = Off /\ cacheFaults = Off

MCInit ==
    /\ part \in {"prompt", "late", "service", "cache"} /\ Init
    /\ IF part = "service" THEN Service!Init ELSE ServiceOff
    /\ IF part = "cache" THEN Cache!CacheInit ELSE CacheOff

\* Tokens and generations are bounded, so an owner may come to rest; the
\* service and the cache may not.
Rest == part \in {"prompt", "late"} /\ UNCHANGED <<part, vars, serviceVars, cacheVars>>

MCNext ==
    \/ Rest
    \/ part = "prompt" /\ Next /\ UNCHANGED <<part, serviceVars, cacheVars>>
    \/ part = "late" /\ UNCHANGED <<part, serviceVars, cacheVars>>
          /\ \/ Slow!DirNext(d1)
             \/ \E n \in late : Slow!Deliver(n)
             \/ Slow!Import \/ Slow!AdminRead \/ Slow!AdminCas
    \/ part = "service" /\ Service!Next /\ UNCHANGED <<part, vars, cacheVars>>
    \/ part = "cache" /\ Cache!CacheNext /\ UNCHANGED <<part, vars, serviceVars>>

MCSpec == MCInit /\ [][MCNext]_<<part, vars, serviceVars, cacheVars>>

-----------------------------------------------------------------------------
\* With a store that answers within the call, ownership is handed over with all
\* the writes published, and only an owner that was not retired serves the guest
\* (OwnedDisk::release, Store::retire and the retired marker).
HandoffSafe ==
    part = "prompt" => ServingIsOwner /\ DrainedHandoff /\ RetiredNeverServes

\* What VolumeService promises, see there.
RecordsSound == part = "service" => Service!RecordsSound
NoReplacedConnection == part = "service" => Service!NoReplacedConnection

\* What BlockCache promises, see there.
CacheExact == part = "cache" => Cache!CacheExact
=============================================================================
