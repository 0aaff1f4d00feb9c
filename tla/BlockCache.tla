------------------------------ MODULE BlockCache ------------------------------
(***************************************************************************)
(* The cache of verified immutable objects in front of a volume's object   *)
(* store (ahvm-volume: cache.rs, cache/metadata.rs): a FIFO of whole       *)
(* objects within a byte budget, read-ahead threads that share it with     *)
(* demanded reads, uploads and deletions, a local copy of the base image   *)
(* and a metadata slot that all volumes of the host share.                 *)
(*                                                                         *)
(* Every critical section of the state's mutex is one step; a request to   *)
(* the store, the image or the slot happens between them.  An object's     *)
(* bytes are "good" when they hash to the name they are asked by, else     *)
(* "bad".  A panic while the mutex is held poisons it, and every later     *)
(* lock panics.                                                            *)
(***************************************************************************)
EXTENDS Naturals, Sequences, FiniteSets, SequencesExt, FiniteSetsExt

CONSTANTS
    Private,        \* the volume's own objects
    Data, Meta,     \* blocks and metadata pages of the base image
    Length,         \* the length of each object, in chunks
    Capacity,       \* of the cache, in chunks (at least one)
    MaxAhead,       \* read-ahead requests at a time
    Callers,        \* threads of the volume that use the store
    MaxCacheFaults  \* failed requests and wrong bytes, in all

VARIABLES
    remote,         \* the volume's objects that the store holds
    content,        \* objects: the cached bytes of each key, or "none"
    order,          \* the keys, oldest first
    bytes,          \* the length accounted for
    pending,        \* keys reserved by read-ahead
    ahead,          \* the read-ahead thread of each key
    call,           \* what each caller is doing
    localBase,      \* the local image: "good", "bad", or "failed" once found bad
    metaSlot,       \* the shared slot: a metadata page, or "torn"
    poisoned,
    misled,         \* history: a caller was answered bytes that do not match
    cacheFaults

cacheVars == <<remote, content, order, bytes, pending, ahead, call, localBase,
               metaSlot, poisoned, misled, cacheFaults>>

Keys == Private \cup Data \cup Meta
Objects == {k \in Keys : content[k] # "none"}
Idle == [pc |-> "idle"]

CacheInit ==
    /\ remote \in SUBSET Private
    /\ content = [k \in Keys |-> "none"]
    /\ order = <<>> /\ bytes = 0 /\ pending = {}
    /\ ahead = [k \in Keys |-> "none"]
    /\ call = [c \in Callers |-> Idle]
    /\ localBase \in {"good", "bad", "failed"}
    /\ metaSlot = "torn" /\ poisoned = FALSE
    /\ misled = FALSE /\ cacheFaults = 0

-----------------------------------------------------------------------------
(***************************************************************************)
(* insert_into: bytes that do not hash to the key are refused, an object   *)
(* larger than the whole cache is not kept, and the oldest objects make    *)
(* room for a new one.                                                     *)
(***************************************************************************)
Room(k) ==      \* how many of the oldest may go to make room for k
    {n \in 0 .. Len(order) :
        bytes + Length[k] <=
            Capacity + MapThenSumSet(LAMBDA i : Length[order[i]], 1 .. n)}

InsertInto(k, b) ==
    IF b = "bad" \/ Length[k] > Capacity \/ k \in Objects
    THEN UNCHANGED <<content, order, bytes, poisoned>>
    ELSE IF Room(k) = {} \/ \E i \in 1 .. Min(Room(k)) : order[i] \notin Objects
    THEN poisoned' = TRUE /\ UNCHANGED <<content, order, bytes>>
    ELSE LET n == Min(Room(k))
             popped == {order[i] : i \in 1 .. n} IN
         /\ content' = [j \in Keys |-> IF j = k THEN b
                                       ELSE IF j \in popped THEN "none" ELSE content[j]]
         /\ order' = Append(SubSeq(order, n + 1, Len(order)), k)
         /\ bytes' = bytes + Length[k]
                         - MapThenSumSet(LAMBDA i : Length[order[i]], 1 .. n)
         /\ UNCHANGED poisoned

-----------------------------------------------------------------------------
(***************************************************************************)
(* The store below the cache.  An object of the base image is always       *)
(* there; one of the volume is when it was uploaded and not deleted.  A    *)
(* request may fail, and may answer bytes that do not match the name.      *)
(***************************************************************************)
Inner(k) ==
    (IF k \in remote \cup Data \cup Meta THEN {"good"} ELSE {"error"})
        \cup (IF cacheFaults < MaxCacheFaults THEN {"bad", "error"} ELSE {})
Counted(k, r) ==
    cacheFaults' = cacheFaults + IF r = "good" \/ (r = "error" /\ k \in Private \ remote)
                                 THEN 0 ELSE 1

Goto(c, r) == call' = [call EXCEPT ![c] = r]
Answer(c, b) == misled' = (misled \/ b = "bad") /\ Goto(c, Idle)
Starts(c) == ~ poisoned /\ call[c].pc = "idle"

\* ObjectStore::chunk and base_chunk: a cached object answers.
Hit(c, k) ==
    /\ Starts(c) /\ k \in Objects
    /\ Answer(c, content[k])
    /\ UNCHANGED <<remote, content, order, bytes, pending, ahead, localBase,
                   metaSlot, poisoned, cacheFaults>>

\* chunk: an object of the volume that is not cached is fetched.
ChunkMiss(c, k) ==
    /\ Starts(c) /\ k \in Private \ Objects
    /\ Goto(c, [pc |-> "fetch", k |-> k])
    /\ UNCHANGED <<remote, content, order, bytes, pending, ahead, localBase,
                   metaSlot, poisoned, misled, cacheFaults>>

(***************************************************************************)
(* base_chunk of a block: the local image answers, without being cached,   *)
(* until its bytes are found not to match; from then on the store is       *)
(* asked.                                                                  *)
(***************************************************************************)
BaseData(c, k) ==
    /\ Starts(c) /\ k \in Data \ Objects
    /\ IF localBase = "good" THEN Answer(c, "good") /\ UNCHANGED localBase
       ELSE /\ Goto(c, [pc |-> "fetch", k |-> k])
            /\ localBase' = "failed" /\ UNCHANGED misled
    /\ UNCHANGED <<remote, content, order, bytes, pending, ahead, metaSlot,
                   poisoned, cacheFaults>>

\* base_chunk of a metadata page: MetadataCache::get checks what the slot holds.
BaseMeta(c, k) ==
    /\ Starts(c) /\ k \in Meta \ Objects
    /\ Goto(c, IF metaSlot = k THEN [pc |-> "insert", k |-> k, b |-> "good"]
               ELSE [pc |-> "fetch", k |-> k])
    /\ UNCHANGED <<remote, content, order, bytes, pending, ahead, localBase,
                   metaSlot, poisoned, misled, cacheFaults>>

(***************************************************************************)
(* The store's answer.  MetadataCache::put keeps a page that matches; the  *)
(* slot is written in place, so a failed write leaves it torn.             *)
(***************************************************************************)
Fetched(c) ==
    /\ call[c].pc = "fetch"
    /\ \E r \in Inner(call[c].k) :
        /\ Counted(call[c].k, r)
        /\ IF r = "error" THEN Goto(c, Idle)
           ELSE Goto(c, [pc |-> "insert", k |-> call[c].k, b |-> r])
        /\ IF call[c].k \in Meta /\ r = "good" THEN metaSlot' \in {call[c].k, "torn"}
           ELSE UNCHANGED metaSlot
    /\ UNCHANGED <<remote, content, order, bytes, pending, ahead, localBase,
                   poisoned, misled>>

\* The bytes are inserted before the caller has them: a mismatch is its error.
FetchInserted(c) ==
    /\ ~ poisoned /\ call[c].pc = "insert"
    /\ InsertInto(call[c].k, call[c].b)
    /\ IF call[c].b = "bad" THEN Goto(c, Idle) /\ UNCHANGED misled
       ELSE Answer(c, call[c].b)
    /\ UNCHANGED <<remote, pending, ahead, localBase, metaSlot, cacheFaults>>

-----------------------------------------------------------------------------
(***************************************************************************)
(* put_chunk: the store is asked even for an object that is cached, and    *)
(* only an acknowledged upload is inserted.  A failed one may have         *)
(* arrived.                                                                *)
(***************************************************************************)
Put(c, k) ==
    /\ Starts(c) /\ k \in Private
    /\ \/ /\ remote' = remote \cup {k}
          /\ Goto(c, [pc |-> "put", k |-> k]) /\ UNCHANGED cacheFaults
       \/ /\ cacheFaults < MaxCacheFaults /\ cacheFaults' = cacheFaults + 1
          /\ remote' \in {remote, remote \cup {k}} /\ UNCHANGED call
    /\ UNCHANGED <<content, order, bytes, pending, ahead, localBase, metaSlot,
                   poisoned, misled>>

PutInserted(c) ==
    /\ ~ poisoned /\ call[c].pc = "put"
    /\ InsertInto(call[c].k, "good")
    /\ Goto(c, Idle)
    /\ UNCHANGED <<remote, pending, ahead, localBase, metaSlot, misled, cacheFaults>>

(***************************************************************************)
(* delete_chunks: the store first; an error leaves the cache as it is, and *)
(* some of the batch may be gone.                                          *)
(***************************************************************************)
Delete(c, gone) ==
    /\ Starts(c) /\ gone \in SUBSET Private \ {{}}
    /\ \/ /\ remote' = remote \ gone
          /\ Goto(c, [pc |-> "delete", gone |-> gone]) /\ UNCHANGED cacheFaults
       \/ /\ cacheFaults < MaxCacheFaults /\ cacheFaults' = cacheFaults + 1
          /\ remote' \in {remote \ g : g \in SUBSET gone} /\ UNCHANGED call
    /\ UNCHANGED <<content, order, bytes, pending, ahead, localBase, metaSlot,
                   poisoned, misled>>

\* Mutant: the keys of deleted objects stay in the queue.
DeletedKeepsOrder(c) ==
    /\ ~ poisoned /\ call[c].pc = "delete"
    /\ LET out == call[c].gone \cap Objects IN
        /\ content' = [k \in Keys |-> IF k \in out THEN "none" ELSE content[k]]
        /\ bytes' = bytes - MapThenSumSet(LAMBDA k : Length[k], out)
        /\ UNCHANGED order
    /\ Goto(c, Idle)
    /\ UNCHANGED <<remote, pending, ahead, localBase, metaSlot, poisoned,
                   misled, cacheFaults>>

Deleted(c) ==
    /\ ~ poisoned /\ call[c].pc = "delete"
    /\ LET out == call[c].gone \cap Objects IN
        /\ content' = [k \in Keys |-> IF k \in out THEN "none" ELSE content[k]]
        /\ bytes' = bytes - MapThenSumSet(LAMBDA k : Length[k], out)
        /\ order' = SelectSeq(order, LAMBDA k : k \in Objects \ out)
    /\ Goto(c, Idle)
    /\ UNCHANGED <<remote, pending, ahead, localBase, metaSlot, poisoned,
                   misled, cacheFaults>>

-----------------------------------------------------------------------------
(***************************************************************************)
(* prefetch_objects, one hash at a time: nothing is queued beyond the      *)
(* budget, and a key is read ahead once.  Blocks of a base image with a    *)
(* usable local copy are not read ahead (prefetch_base).                   *)
(***************************************************************************)
Prefetch(k) ==
    /\ ~ poisoned /\ k \in Private \cup Data
    /\ k \in Data => localBase = "failed"
    /\ Cardinality(pending) < MaxAhead
    /\ k \notin Objects \cup pending
    /\ pending' = pending \cup {k}
    /\ ahead' = [ahead EXCEPT ![k] = "fetch"]
    /\ UNCHANGED <<remote, content, order, bytes, call, localBase, metaSlot,
                   poisoned, misled, cacheFaults>>

AheadFetched(k) ==
    /\ ahead[k] = "fetch"
    /\ \E r \in Inner(k) : Counted(k, r) /\ ahead' = [ahead EXCEPT ![k] = r]
    /\ UNCHANGED <<remote, content, order, bytes, pending, call, localBase,
                   metaSlot, poisoned, misled>>

AheadInserted(k) ==
    /\ ~ poisoned /\ ahead[k] \in {"good", "bad"}
    /\ InsertInto(k, ahead[k])
    /\ ahead' = [ahead EXCEPT ![k] = "error"]
    /\ UNCHANGED <<remote, pending, call, localBase, metaSlot, misled, cacheFaults>>

\* Pending::drop, also when the request failed.
AheadEnds(k) ==
    /\ ~ poisoned /\ ahead[k] = "error"
    /\ pending' = pending \ {k}
    /\ ahead' = [ahead EXCEPT ![k] = "none"]
    /\ UNCHANGED <<remote, content, order, bytes, call, localBase, metaSlot,
                   poisoned, misled, cacheFaults>>

\* Another volume's worker writes the shared slot.
OtherWorker ==
    /\ metaSlot' \in (Meta \cup {"torn"}) \ {metaSlot}
    /\ UNCHANGED <<remote, content, order, bytes, pending, ahead, call, localBase,
                   poisoned, misled, cacheFaults>>

CacheNext ==
    \/ \E c \in Callers :
        \/ \E k \in Keys : Hit(c, k) \/ ChunkMiss(c, k) \/ BaseData(c, k)
                              \/ BaseMeta(c, k) \/ Put(c, k)
        \/ \E gone \in SUBSET Private : Delete(c, gone)
        \/ Fetched(c) \/ FetchInserted(c) \/ PutInserted(c) \/ Deleted(c)
    \/ \E k \in Keys : Prefetch(k) \/ AheadFetched(k) \/ AheadInserted(k) \/ AheadEnds(k)
    \/ OtherWorker

CacheSpec == CacheInit /\ [][CacheNext]_cacheVars

-----------------------------------------------------------------------------
(***************************************************************************)
(* The queue, the map and the byte count agree whatever deletions,         *)
(* uploads, reads and read-ahead threads do to them in whatever order:     *)
(* every cached object is queued once, the count is their total length     *)
(* and within the capacity, so an eviction never finds the queue or the    *)
(* map empty and panics with the mutex held (insert_into's two unwraps).   *)
(* A read-ahead reservation belongs to a running thread, within the        *)
(* budget, and no caller is answered bytes that do not match the name.     *)
(***************************************************************************)
CacheExact ==
    /\ ~ poisoned
    /\ ToSet(order) = Objects /\ Len(order) = Cardinality(Objects)
    /\ bytes = MapThenSumSet(LAMBDA k : Length[k], Objects) /\ bytes <= Capacity
    /\ pending = {k \in Keys : ahead[k] # "none"} /\ Cardinality(pending) <= MaxAhead
    /\ ~ misled
=============================================================================
