------------------------------- MODULE MCJobs -------------------------------
(* The instances of Jobs that TLC explores: a definition takes the one id or the
   other, and two generations make one restart. *)
EXTENDS Jobs

CONSTANTS d1, i1, i2

MCDef == {d1}
MCIds == {i1, i2}
MCId == {i1}
=============================================================================
