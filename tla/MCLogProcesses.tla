--------------------------- MODULE MCLogProcesses ---------------------------
(* The instances of LogProcesses that TLC explores: a context, alone or with
   one derived from it, two goroutines that log and three traces. *)
EXTENDS LogProcesses, TLC

CONSTANTS c1, c2, h1, h2, p1, p2, p3

MCContext == {c1}
MCContexts == {c1, c2}
MCHandlers == {h1, h2}
MCProcs == {p1, p2, p3}
MCSymmetry == Permutations(MCHandlers) \cup Permutations(MCProcs)
=============================================================================
