------------------------------ MODULE MCWorkers ------------------------------
(* Instance of Workers for TLC: the dispatcher with two callers. *)
EXTENDS Workers

CONSTANTS c1, c2, t1, t2, t3, r1, r2

MCClients == {c1, c2}
MCTasks == {t1, t2, t3}
MCRuns == {r1, r2}
MCLimits == {0, 1, 2}
=============================================================================
