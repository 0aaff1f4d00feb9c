-------------------------- MODULE MCSandboxLifecycle --------------------------
(* Small instances of SandboxLifecycle for TLC. *)
EXTENDS SandboxLifecycle

CONSTANTS a, b, u1, v1, v2, k1, k2, r1, r2, r3, none

MCIds == {a, b}
MCUsers == {u1}
MCVolumes == {v1, v2}
MCOps == {k1, k2}
MCRequests == {r1, r2, r3}

\* calls: what arrives in each slot.
Scope(calls, ops, names, local, volumes, ages, failures) ==
    [calls |-> calls, ops |-> [r \in MCRequests |-> IF r = r1 THEN ops ELSE {}],
     ids |-> names, users |-> MCUsers, local |-> local, volumes |-> volumes,
     ages |-> ages, permits |-> 1, faults |-> failures,
     collects |-> failures > 0]
Calls(one, two, three) == (r1 :> one) @@ (r2 :> two) @@ (r3 :> three)
Twice(calls) == Calls(calls, calls, {})

\* A name deleted and taken again under queued and running calls.
Names == Scope(Calls({"create", "destroy"}, {"create", "exec"}, {}), {}, {a}, {},
               MCVolumes, FALSE, 0)
Queue == Scope(Calls({"destroy"}, {"create"}, {"exec"}), {}, {a}, {a}, {}, FALSE, 0)
\* Two names against one CPU.
Quota == [Scope(Twice({"create", "start", "stop"}), {}, MCIds, MCIds, {}, FALSE, 0)
          EXCEPT !.permits = 2]
\* Durable operations across failures and restarts.
Keys == Scope(Calls({"get"}, {}, {}), {"create", "destroy"}, {a}, {}, MCVolumes,
              FALSE, 1)
\* Idle stops and pauses against guest calls.
Idle == Scope(Calls({"create", "exec"}, {"exec"}, {}), {}, {a}, {a}, {}, TRUE, 0)
\* Starts and stops of a local sandbox that may fail.
Drift == Scope(Twice({"create", "start", "stop"}), {}, {a}, {a}, {}, FALSE, 1)
\* One caller, with failures, against a replicated and a local sandbox.
Alone == Scope(Calls({"create", "get", "exec", "stop", "start", "destroy"}, {}, {}),
               {}, {a}, {}, {v1}, FALSE, 1)
AloneLocal == [Alone EXCEPT !.local = {a}, !.ages = TRUE]
\* Several failures on the way from a creation to its removal.
Undone == Scope(Calls({"create", "destroy"}, {}, {}), {}, {a}, {}, {v1}, FALSE, 3)
UndoneLocal == [Undone EXCEPT !.local = {a}]

MCScopes == {Names, Queue, Quota, Keys, Idle, Drift, Alone, AloneLocal, Undone,
             UndoneLocal}
=============================================================================
