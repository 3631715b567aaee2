---------------------------- MODULE LogProcesses ----------------------------
(***************************************************************************)
(* The completed child traces of a request in logger/builder: TraceEnd     *)
(* (formatLog.go) appends a trace to the collection that a context and the *)
(* contexts derived from it share, and Handle (slog.go) builds an entry    *)
(* from a snapshot of it, delivers the entry to the local writer and the   *)
(* exporter, and then clears as many traces as the entry carried.          *)
(*                                                                         *)
(* The collection is read and written under the mutex of the Context that  *)
(* the caller uses; a derived Context has a mutex of its own, so the read  *)
(* and the write of the slice header are separate actions and the lock is  *)
(* explicit.                                                               *)
(***************************************************************************)
EXTENDS Integers, Sequences, FiniteSets

CONSTANTS
    Contexts,  \* *builder.Context values that share one collection
    Procs,     \* traces, each ended once
    Handlers,  \* goroutines that log on a context
    MaxLogs,   \* bound: entries built by all handlers together
    Nobody     \* an unlocked mutex

ASSUME LogProcessesAssumption ==
    /\ MaxLogs \in Nat
    /\ Procs \cap Handlers = {}
    /\ Nobody \notin Procs \cup Handlers

VARIABLES
    services,  \* *[]formatter.Process, under servicesKey
    mux,       \* the holder of each context's mutex
    seen,      \* the collection as the holder of a mutex read it
    ended,     \* traces whose TraceEnd returned
    pc,        \* where a handler is in Handle
    on,        \* the context it logs on
    entry,     \* entry.Process of the entry it is handling
    delivered, \* history: in how many delivered entries a trace was
    logs,      \* how many entries were built
    overlap    \* history: two entries were under way, or two contexts used, at once

vars == <<services, mux, seen, ended, pc, on, entry, delivered, logs, overlap>>
history == <<delivered, logs, overlap>>
call == <<pc, on, entry>>

Listed == {services[k] : k \in 1..Len(services)}
InEntry(h) == {entry[h][k] : k \in 1..Len(entry[h])}

\* New: an empty collection.
Init ==
    /\ services = << >>
    /\ mux = [c \in Contexts |-> Nobody]
    /\ seen = [c \in Contexts |-> << >>]
    /\ ended = {}
    /\ pc = [h \in Handlers |-> "idle"]
    /\ on \in [Handlers -> Contexts]
    /\ entry = [h \in Handlers |-> << >>]
    /\ delivered = [p \in Procs |-> 0]
    /\ logs = 0
    /\ overlap = FALSE

-----------------------------------------------------------------------------
\* Take c's mutex and read the collection; write it back and release.
LockAndRead(c, who) ==
    /\ mux[c] = Nobody
    /\ mux' = [mux EXCEPT ![c] = who]
    /\ seen' = [seen EXCEPT ![c] = services]

\* The collection is in use under the mutex of another context than c.
InUse(c) == \E d \in Contexts \ {c} : mux[d] # Nobody

WriteAndUnlock(c, new) ==
    /\ services' = new
    /\ mux' = [mux EXCEPT ![c] = Nobody]
    /\ seen' = [seen EXCEPT ![c] = << >>]

Holds(who) == \E c \in Contexts : mux[c] = who

-----------------------------------------------------------------------------
(* TraceEnd, called once for a trace. *)

TraceEnd(p, c) ==
    /\ p \notin ended
    /\ ~Holds(p)
    /\ LockAndRead(c, p)
    /\ overlap' = (overlap \/ InUse(c))
    /\ UNCHANGED <<services, ended, call, delivered, logs>>

TraceEndAppend(p, c) ==
    /\ mux[c] = p
    /\ WriteAndUnlock(c, Append(seen[c], p))
    /\ ended' = ended \cup {p}
    /\ UNCHANGED <<call, history>>

-----------------------------------------------------------------------------
(* Handle. *)

(* buildEntry: the snapshot of Processes ends up in the entry.  A handler logs
   on the same context every time. *)
BuildEntry(h) ==
    /\ pc[h] = "idle"
    /\ mux[on[h]] = Nobody
    /\ logs < MaxLogs
    /\ logs' = logs + 1
    /\ entry' = [entry EXCEPT ![h] = services]
    /\ pc' = [pc EXCEPT ![h] = "deliver"]
    /\ overlap' = (overlap \/ InUse(on[h]) \/ \E g \in Handlers : pc[g] # "idle")
    /\ UNCHANGED <<services, mux, seen, ended, on, delivered>>

\* The entry cannot be encoded: Handle returns the error.
BuildFails(h) ==
    /\ pc[h] = "deliver"
    /\ pc' = [pc EXCEPT ![h] = "idle"]
    /\ entry' = [entry EXCEPT ![h] = << >>]
    /\ UNCHANGED <<services, mux, seen, ended, on, history>>

\* Bugs: both sinks are needed to clear, or none is.
ClearIfBoth(written, exported) == written /\ exported
ClearAlways(written, exported) == TRUE

\* localErr == nil || exported
ReachedSink(written, exported) == written \/ exported

(* writeEntry, then exportEntry; either may fail and the export may be off.
   An empty entry has nothing to clear. *)
Deliver(h, written, exported) ==
    /\ pc[h] = "deliver"
    /\ delivered' = [p \in Procs |->
                        IF (written \/ exported) /\ p \in InEntry(h)
                        THEN delivered[p] + 1 ELSE delivered[p]]
    /\ IF ReachedSink(written, exported) /\ entry[h] # << >>
       THEN pc' = [pc EXCEPT ![h] = "clear"] /\ UNCHANGED entry
       ELSE /\ pc' = [pc EXCEPT ![h] = "idle"]
            /\ entry' = [entry EXCEPT ![h] = << >>]
    /\ UNCHANGED <<services, mux, seen, ended, on, logs, overlap>>

(* clearProcesses: the first count traces go, all of them when there are no
   more than that. *)
Remaining(s, count) == SubSeq(s, count + 1, Len(s))

ClearProcesses(h) ==
    /\ pc[h] = "clear"
    /\ LockAndRead(on[h], h)
    /\ pc' = [pc EXCEPT ![h] = "clearing"]
    /\ overlap' = (overlap \/ InUse(on[h]))
    /\ UNCHANGED <<services, ended, on, entry, delivered, logs>>

ClearProcessesWrite(h) ==
    /\ pc[h] = "clearing"
    /\ WriteAndUnlock(on[h], Remaining(seen[on[h]], Len(entry[h])))
    /\ pc' = [pc EXCEPT ![h] = "idle"]
    /\ entry' = [entry EXCEPT ![h] = << >>]
    /\ UNCHANGED <<ended, on, history>>

-----------------------------------------------------------------------------
Next ==
    \/ \E p \in Procs, c \in Contexts : TraceEnd(p, c) \/ TraceEndAppend(p, c)
    \/ \E h \in Handlers :
          \/ BuildEntry(h)
          \/ BuildFails(h)
          \/ \E written, exported \in BOOLEAN : Deliver(h, written, exported)
          \/ ClearProcesses(h)
          \/ ClearProcessesWrite(h)

Spec == Init /\ [][Next]_vars

-----------------------------------------------------------------------------
(* Properties. *)

Dropped == ended \ Listed

(* As long as the entries of one request do not overlap, nor uses of the
   collection under different contexts, a trace leaves the collection only
   after an entry that carried it reached a sink: TraceEnd running during the
   delivery, an encoding error or a failure of both sinks lose nothing. *)
DroppedOnlyIfLogged ==
    ~overlap => \A p \in Dropped : delivered[p] > 0

(* ... and no trace is in two delivered entries ("so no later entry repeats
   them"). *)
NeverRepeated == ~overlap => \A p \in Procs : delivered[p] <= 1

(* What clearProcesses documents, "removes only the traces included in a
   completed log payload", for any number of goroutines that log on the
   context at the same time. *)
OnlyIncludedRemoved == \A p \in Dropped : delivered[p] > 0
=============================================================================
