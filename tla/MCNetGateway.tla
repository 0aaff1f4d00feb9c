---------------------------- MODULE MCNetGateway ----------------------------
(***************************************************************************)
(* An instance of NetGateway: a table with one place that two connections  *)
(* want, the first of which carries a byte.                                *)
(***************************************************************************)
EXTENDS NetGateway

Pressed == {[keys |-> {1, 2}, flows |-> 1, dials |-> 2, guest |-> 1, host |-> 0,
             buffer |-> 1, links |-> 1, faults |-> {}]}
=============================================================================
