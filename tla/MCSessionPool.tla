---------------------------- MODULE MCSessionPool ----------------------------
(* Instance of SessionPool for TLC. *)
EXTENDS SessionPool

CONSTANTS c1, c2, c3, h1, h2, h3

MCCallers2 == {c1, c2}
MCCallers3 == {c1, c2, c3}
MCHandles == {h1, h2, h3}

(* Three callers compete for two permits while the token has no fault of its
   own; two callers meet every fault.  A step always has an outcome left in
   which the token is not at fault. *)
MCNext == Next /\ (faults' = 0 \/ pc'[c3] = "idle")
MCSpec == Init /\ [][MCNext]_vars /\ Fairness
=============================================================================
