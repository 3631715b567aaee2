------------------------------ MODULE TaskQueue ------------------------------
(***************************************************************************)
(* What tools/workers promises to a caller that knows nothing of its       *)
(* goroutines, mutex and condition variable: tasks wait in one line that   *)
(* is no longer than the limit allowed when they were added, and are       *)
(* executed from its front, once each, as slots become free.               *)
(***************************************************************************)
EXTENDS Integers, Sequences, FiniteSets

CONSTANTS
    Tasks,      \* what can be submitted
    Limits      \* the numbers of slots that can be asked for

VARIABLES
    waiting,    \* the accepted tasks that have no slot yet, oldest first
    slots,      \* the limit in force: slots, and places in line
    active,     \* the tasks that hold a slot
    done        \* the tasks that have given theirs back

vars == <<waiting, slots, active, done>>

Known == {waiting[i] : i \in 1..Len(waiting)} \cup active \cup done

Init ==
    /\ waiting = << >>
    /\ slots \in {l \in Limits : l > 0}
    /\ active = {}
    /\ done = {}

\* A new limit takes nothing back: tasks in line or in a slot stay there.
Resize(limit) ==
    /\ slots' = limit
    /\ UNCHANGED <<waiting, active, done>>

Submit(t) ==
    /\ t \notin Known
    /\ Len(waiting) < slots
    /\ waiting' = Append(waiting, t)
    /\ UNCHANGED <<slots, active, done>>

Begin ==
    /\ waiting # << >>
    /\ Cardinality(active) < slots
    /\ active' = active \cup {Head(waiting)}
    /\ waiting' = Tail(waiting)
    /\ UNCHANGED <<slots, done>>

End(t) ==
    /\ t \in active
    /\ active' = active \ {t}
    /\ done' = done \cup {t}
    /\ UNCHANGED <<waiting, slots>>

Next ==
    \/ \E l \in Limits : Resize(l)
    \/ \E t \in Tasks : Submit(t) \/ End(t)
    \/ Begin

Spec == Init /\ [][Next]_vars
=============================================================================
