---------------------------- MODULE DurableDisk ----------------------------
(***************************************************************************)
(* What a disk with local durability and eventual replication promises,    *)
(* with no journal, no worker and no object store.  Every guest write has  *)
(* a number; a block holds the number of the newest write that reached it. *)
(* LocalJournal (ahvm-volume/src/local.rs) implements this specification.  *)
(***************************************************************************)
EXTENDS Integers

CONSTANT Block

VARIABLES serving,    \* is the disk open and trusted?
          content,    \* content[b]: the version a guest reads, now or after a reopen
          stable,     \* stable[b]: the version the last successful flush covered
          published,  \* published[b]: the version of the remote generation
          written,    \* written[b]: every version ever sent to b (0: the image)
          last        \* number of writes sent so far

dvars == <<serving, content, stable, published, written, last>>

DInit ==
    /\ serving = FALSE
    /\ content = [b \in Block |-> 0]
    /\ stable = content
    /\ published = content
    /\ written = [b \in Block |-> {0}]
    /\ last = 0

\* A write reaches the blocks it names; one that fails reaches some of them, and
\* the disk is not trusted any more.
DWrite ==
    /\ serving
    /\ \E B \in SUBSET Block :
        /\ last' = last + 1
        /\ content' = [b \in Block |-> IF b \in B THEN last' ELSE content[b]]
        /\ written' = [b \in Block |-> IF b \in B THEN written[b] \cup {last'} ELSE written[b]]
    /\ UNCHANGED <<stable, published>>

DFlush ==
    /\ serving
    /\ stable' = content
    /\ UNCHANGED <<serving, content, published, written, last>>

\* The disk opens, fails or is closed; replication moves the remote generation
\* forward, never past the disk.  Only a disk that does not serve (a crash, a
\* poisoned handle) loses writes: unflushed ones, never a flushed one.
DSettle ==
    /\ serving' \in BOOLEAN
    /\ \A b \in Block : /\ stable[b] <= content'[b]
                        /\ content'[b] <= content[b]
                        /\ content'[b] \in written[b]
                        /\ published[b] <= published'[b]
                        /\ published'[b] <= content'[b]
                        /\ published'[b] \in written[b]
    /\ content' = content \/ ~serving'
    /\ UNCHANGED <<stable, written, last>>

DNext == DWrite \/ DFlush \/ DSettle

DSpec == DInit /\ [][DNext]_dvars
=============================================================================
