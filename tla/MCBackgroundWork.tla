-------------------------- MODULE MCBackgroundWork --------------------------
(***************************************************************************)
(* Work the host finishes after its callers have left: a run's events are  *)
(* delivered (EventOutbox), a disk nobody uses is compacted and evicted    *)
(* (BlockIndex).  A behaviour is of one part: one run, or one disk.  The   *)
(* events of MaxSize 2 are receipts, those of MaxCheck 1 checkpoints.      *)
(***************************************************************************)
EXTENDS EventOutbox

CONSTANTS r1, IndexScopes, PageCount, SlotCount, ObjectBlocks, PassBlocks

VARIABLES part, xscope, head, objects, disk, attached, pending, sequence, job,
          late, record, saved, marked

OneRun == {r1}
AllFaults == {"tear", "retire", "expire", "delete"}

Index == INSTANCE BlockIndex

diskVars == <<xscope, head, objects, disk, attached, pending, sequence, job,
              late, record, saved, marked>>

(***************************************************************************)
(* The disks: the image they are based on, what the guest writes in turn,  *)
(* as many faults, and the objects one listing returns.                    *)
(***************************************************************************)
NoBase == [p \in {0, 1} |-> [s \in {0, 1} |-> [chunk |-> 0, pack |-> <<>>]]]
OneBase == [NoBase EXCEPT ![0][0].chunk = 1]
AnyWrite == {<<0, 0>>, <<0, 1>>, <<1, 0>>} \X {0, 1, 2}
LastWrite == {<<0, 0>>, <<0, 1>>, <<1, 0>>} \X {0, 2}
FirstWrite == {<<<<0, 0>>, 2>>, <<<<0, 1>>, 1>>, <<<<1, 0>>, 2>>}
Disks ==
    {[packed |-> TRUE, base |-> OneBase, faults |-> 0, limit |-> 1,
      plan |-> <<FirstWrite, FirstWrite, LastWrite>>],
     [packed |-> FALSE, base |-> OneBase, faults |-> 1, limit |-> 2,
      plan |-> <<FirstWrite, AnyWrite>>],
     [packed |-> TRUE, base |-> NoBase, faults |-> 0, limit |-> 3,
      plan |-> <<{<<<<0, 0>>, 1>>}, {<<<<1, 0>>, 2>>},
                 {<<<<0, 1>>, 3>>, <<<<0, 0>>, 2>>},
                 {<<<<1, 1>>, 1>>}>>],
     [packed |-> TRUE, base |-> OneBase, faults |-> 2, limit |-> 2,
      plan |-> <<{<<<<0, 1>>, 2>>}, {<<<<1, 0>>, 1>>, <<<<0, 0>>, 2>>}>>]}

-----------------------------------------------------------------------------
MCInit ==
    /\ part \in {"run", "disk"}
    /\ Init /\ Index!IndexInit
    /\ part # "disk" => xscope = CHOOSE s \in Disks : TRUE

MCNext ==
    \/ part = "run" /\ Next /\ UNCHANGED <<part, diskVars>>
    \/ part = "disk" /\ Index!IndexNext /\ UNCHANGED <<part, vars>>

\* The fairness of the two modules: neither has a fair action enabled in the
\* initial state it keeps while the other one runs.
MCSpec ==
    /\ MCInit /\ [][MCNext]_<<part, vars, diskVars>>
    /\ Fairness
    /\ WF_diskVars(Index!PassStep) /\ WF_diskVars(Index!CommitStep)

\* What BlockIndex promises, see there.
ReadsLastWrite == Index!ReadsLastWrite
EvictedIsLean == Index!EvictedIsLean
MaintenanceEnds == Index!MaintenanceEnds
=============================================================================
