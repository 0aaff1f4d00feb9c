------------------------- MODULE LocalJournalProofs -------------------------
(****************************************************************************)
(* The local journal serves what it would replay, its marks and status are  *)
(* honest, and it implements a durable disk, for any finite set of chunks,  *)
(* any limits and any number of writes, journals, revisions, crashes and    *)
(* delayed requests.                                                        *)
(*                                                                          *)
(* The facts on numbers and finite sets that the invariant takes along are  *)
(* proved here, then the initial state, all steps together, and the         *)
(* theorems.                                                                *)
(****************************************************************************)
EXTENDS LocalJournalWrites,
        FiniteSetTheorems, WellFoundedInduction

-----------------------------------------------------------------------------
(* The journal keeps its promises. *)
\* What the arguments rest on, from the library.
LEMMA Rules == Counting
  <1>1. ASSUME NEW S \in SUBSET Nat, S # {}
        PROVE  \E m \in S : \A n \in S : m <= n
    <2> DEFINE R == OpToRel(<, Nat)
    <2>1. IsWellFoundedOn(R, Nat)
      BY NatLessThanWellFounded, Zenon
    <2>2. \A x, y \in Nat : y < x => <<y, x>> \in R
      BY Zenon DEF OpToRel
    <2> HIDE DEF R
    <2>3. PICK x \in S : \A y \in S : ~ (<<y, x>> \in R)
      BY <1>1, <2>1, WFMin, Zenon
    <2>4. \A y \in S : ~ (y < x)
      BY <2>2, <2>3, Zenon
    <2> QED BY <2>4
  <1>2. ASSUME NEW S \in SUBSET Block
        PROVE  /\ Cardinality(S) \in Nat
               /\ \A T \in SUBSET S : Cardinality(T) <= Cardinality(S)
    <2>1. IsFiniteSet(Block)
      BY JournalAssumption, Zenon
    <2>2. IsFiniteSet(S)
      BY <2>1, FS_Subset, Zenon
    <2> QED BY <2>2, FS_Subset, FS_CardinalityType, Zenon
  <1>3. Cardinality({}) = 0
    BY FS_EmptySet, Zenon
  <1> QED BY <1>1, <1>2, <1>3, Zenon DEF Counting

\* The invariant holds of a new disk.
LEMMA JournalInit ==
    ASSUME Init
    PROVE  JournalInv /\ Promise!DInit
  <1>0. /\ Image \in Root /\ Image.id = 0 /\ Image.seq = 0
        /\ Image.map \in Map /\ Image.map = [b \in Block |-> 0]
        /\ Idle.next = Image /\ Idle.pc = "idle"
        /\ Idle \in [pc: {"idle", "read", "upload"}, next: Root, want: Map]
    <2>1. Image.seq = 0 /\ Image.map = [b \in Block |-> 0]
      BY Zenon DEF Image
    <2>2. [b \in Block |-> 0] \in Map
      BY Zenon DEF Map
    <2> QED BY <2>1, <2>2, IdleIs, Zenon
  <1>1. /\ NoFile \in File /\ NoFile.recs = {} /\ NoFile.kind = "none" /\ NoFile.id = 0
        /\ NoFile.ack = 0 /\ NoFile.seq = 0
    BY Zenon DEF NoFile, File
  <1>2. JournalTypeOK
    <2>1. Clean \in Version /\ [b \in Block |-> Clean] \in [Block -> Version]
      BY Zenon DEF Clean, Version
    <2>2. [b \in Block |-> {0}] \in [Block -> SUBSET Nat]
      OBVIOUS
    <2> QED BY <1>0, <1>1, <2>1, <2>2, Zenon DEF Init, JournalTypeOK, Pcs
  <1>3. Genuine /\ Filed
    BY <1>0, <1>1 DEF Init, Genuine, Filed, Ordered
  <1>4. Mark(file, remote) = 0
    BY <1>0, <1>1, Zenon DEF Init, Mark
  <1>5. Sound(file, Lim, remote) /\ Agreed(file, remote)
    <2>1. 0 <= 0 /\ file.ack = 0 /\ file.recs = {} /\ file.kind = "none"
      BY <1>1, Ordering, Zenon DEF Init
    <2> QED BY <1>4, <2>1, Zenon DEF Sound, Fits, Covered, Agreed
  <1>6. Published /\ Reading /\ Closed /\ Opened /\ Working
    BY <1>0, <1>1, <1>5, ZenonT(40) DEF Init, Published, Reading, Closed, Opened, Working, InFlight
  <1>7. Saved
    <2>1. /\ \A b \in Block : remote.map[b] = 0 /\ stable[b] = 0 /\ barrier[b] = 0
          /\ 0 <= 0
      BY <1>0, Ordering, Zenon DEF Init
    <2> QED BY <1>0, <1>1, <2>1, Zenon DEF Init, Saved, Firm, BarrierHolds
  <1>8. Bounded
    <2>1. Blocks(file, Mark(file, remote)) = {}
      BY <1>1, Zenon DEF Init, Blocks
    <2>2. Cardinality({}) = 0 /\ DirtyLimit \in Nat
      BY Rules, JournalAssumption, Zenon DEF Counting
    <2> QED BY <2>1, <2>2 DEF Bounded, Init
  <1>9. JournalInv
    BY <1>2, <1>3, <1>6, <1>7, <1>8, Rules, ZenonT(40) DEF JournalInv
  <1>10. \A b \in Block : Restored(b) = 0
    <2>1. \A b \in Block : Newest(file, remote, b, 0) /\ remote \in Root /\ file \in File
      BY <1>0, <1>1 DEF Init, Newest
    <2>2. Standing
      BY <1>9, Restores, Zenon
    <2> QED BY <2>1, <2>2, NewestOnce, ZenonT(40) DEF Standing
  <1>11. [b \in Block |-> Restored(b)] = [b \in Block |-> 0]
    BY <1>10, Zenon
  <1>12. Promise!DInit
    BY <1>0, <1>11, Zenon DEF Init, Promise!DInit, Up
  <1> QED BY <1>9, <1>12, Zenon

\* Every step keeps the invariant and is a step, or none, of the durable disk.
LEMMA Steps ==
    ASSUME JournalInv, [Next]_vars
    PROVE  JournalInv' /\ [Promise!DNext]_(Promise!dvars)
  <1>1. CASE \E n \in late : Deliver(n)
    BY <1>1, DeliverStep, Settled, ZenonT(40) DEF Promise!DNext
  <1>2. CASE OpenRead \/ OpenCreate \/ OpenHeader \/ OpenReplay
    BY <1>2, OpenReadStep, OpenCreateStep, OpenHeaderStep, OpenReplayStep, Settled, Zenon
       DEF Promise!DNext
  <1>3. CASE Close \/ EvictMark \/ Crash
    BY <1>3, CloseStep, CrashStep, Settled, Zenon DEF Promise!DNext
  <1>4. CASE \E B \in (SUBSET Block) \ {{}} : Write(B) \/ WriteFail(B)
    BY <1>4, WriteStep, WriteFailStep, Settled, Zenon DEF Promise!DNext
  <1>5. CASE Flush
    BY <1>5, FlushCall, Settled, ZenonT(40) DEF Promise!DNext
  <1>6. CASE SyncNothing \/ ReplicateRead
    BY <1>6, SyncNothingStep, ReplicateReadStep, Settled, Zenon DEF Promise!DNext
  <1>7. CASE ReplicateCapture
    BY <1>7, CaptureStays, CaptureUploads, Settled, Zenon DEF Promise!DNext
  <1>8. CASE ReplicateCommit \/ CompactRemote
    BY <1>8, ReplicateCommitStep, CompactRemoteStep, Settled, ZenonT(40) DEF Promise!DNext
  <1>9. CASE EvictRemove \/ EvictDone
    BY <1>9, EvictRemoveStep, EvictDoneStep, Settled, ZenonT(40) DEF Promise!DNext
  <1>10. CASE UNCHANGED vars
    BY <1>10, Stutters, Zenon
  <1> QED BY <1>1, <1>2, <1>3, <1>4, <1>5, <1>6, <1>7, <1>8, <1>9, <1>10, Zenon DEF Next

(***************************************************************************)
(* What an open disk serves is what a process that replayed the journal    *)
(* now would serve, for any chunks, limits and number of writes, crashes,  *)
(* delayed requests and remote generations (local.rs, LocalDisk::read and  *)
(* State::accept).                                                         *)
(***************************************************************************)
THEOREM JournalReadsWhatReplays == Spec => []ReadsWhatReplays
  <1>1. Init => JournalInv
    BY JournalInit, Zenon
  <1>2. JournalInv /\ [Next]_vars => JournalInv'
    BY Steps, Zenon
  <1>3. JournalInv => ReadsWhatReplays
    BY Honest, ZenonT(40)
  <1> QED BY <1>1, <1>2, <1>3, PTL DEF Spec

(***************************************************************************)
(* A remote barrier holds for ever, no mark that is published or may still *)
(* be published runs ahead of the durable journal, and status never        *)
(* over-reports (local.rs, sync_remote, compact_remote and status).        *)
(***************************************************************************)
THEOREM JournalMarksHonest == Spec => []MarksHonest
  <1>1. Init => JournalInv
    BY JournalInit, Zenon
  <1>2. JournalInv /\ [Next]_vars => JournalInv'
    BY Steps, Zenon
  <1>3. JournalInv => MarksHonest
    BY Honest, Zenon
  <1> QED BY <1>1, <1>2, <1>3, PTL DEF Spec

(***************************************************************************)
(* The journal implements a durable disk: a flushed write is never lost, a *)
(* crash or a poisoned handle takes back unflushed writes only, and        *)
(* replication only moves the remote generation forward (local.rs).        *)
(***************************************************************************)
THEOREM JournalKeepsDisk == Spec => DiskKept
  <1>1. Init => JournalInv /\ Promise!DInit
    BY JournalInit, Zenon
  <1>2. JournalInv /\ [Next]_vars => JournalInv' /\ [Promise!DNext]_(Promise!dvars)
    BY Steps, Zenon
  <1> QED BY <1>1, <1>2, PTL DEF Spec, DiskKept, Promise!DSpec
=============================================================================
