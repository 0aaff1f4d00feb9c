--------------------------- MODULE MCGuestSessions ---------------------------
(***************************************************************************)
(* An instance of GuestSessions: one session whose descendants keep its    *)
(* stream open, and a reader.                                              *)
(***************************************************************************)
EXTENDS GuestSessions

Followed == {[ids |-> {1}, pumps |-> {"out"}, kin |-> {"group", "away"}, output |-> 3,
              from |-> {0}, input |-> FALSE, limit |-> 1, pinned |-> {},
              faults |-> FALSE]}

SessionSpec == SessionInit /\ [][SessionNext]_sessionVars
==============================================================================
