------------------------ MODULE FilesAndTracesProofs ------------------------
(***************************************************************************)
(* Proofs about two small components that share no state: the writer of a  *)
(* batch of files and the collection of child traces.  Of AtomicWriter,    *)
(* for a batch of any size, any permission bits and any number of changes  *)
(* by other processes.  Of LogProcesses, for any contexts, goroutines that *)
(* log, traces and number of entries: as long as nothing overlaps, a trace *)
(* is dropped only after it was delivered, and is delivered once.          *)
(***************************************************************************)
EXTENDS AtomicWriter, LogProcesses, TLAPS

(* How far the loops have got.  In words: before the commit nothing was
   touched; in the commit the targets below i are new and the others as they
   were; in a rollback without errors the targets above i are back. *)
Loops ==
    /\ phase \in {"stage", "validate", "commit"} => i >= 1
    /\ phase = "rollback" => i <= N
    /\ \A t \in Targets \ late :
          /\ phase \in {"stage", "validate"} => file[t] = base[t]
          /\ phase = "commit" => file[t] = IF t < i THEN New ELSE base[t]
          /\ phase \in {"sync", "succeeded"} => file[t] = New
          /\ phase = "rollback" /\ ~rollbackErr =>
                file[t] = IF t <= i THEN New ELSE base[t]
          /\ phase \in {"cleanup", "failed"} /\ ~rollbackErr => file[t] = base[t]

(* Only a target that was checked can be changed behind the call's back, and
   what was checked is what everybody else left. *)
Verified ==
    /\ phase = "stage" => late = {}
    /\ phase = "validate" => \A t \in late : t < i
    /\ phase = "validate" => \A t \in Targets : t < i => base[t] = snap[t]
    /\ phase \in {"commit", "sync", "rollback"} =>
          \A t \in Targets : base[t] = snap[t]
    /\ phase \in {"stage", "validate"} => committed = {}

(* Where temporary files can be. *)
TempsKnown ==
    /\ ~removeErr => \A x \in temps : x[2] = "stage"
    /\ phase = "commit" => \A x \in temps : x[2] = "stage" => x[1] >= i
    /\ phase \in {"sync", "succeeded"} => \A x \in temps : x[2] # "stage"
    /\ phase = "failed" /\ ~removeErr => temps = {}

(* The inductive invariant. *)
BatchIInv == BatchTypeOK /\ Loops /\ Verified /\ NoEditLost /\ OldOrNew /\ TempsKnown

-----------------------------------------------------------------------------
\* What the files and the batch are made of.
LEMMA Shapes ==
    /\ N \in Nat /\ N >= 1
    /\ Absent \in Files /\ New \in Files
    /\ \A f \in Files : [f EXCEPT !.mode = RestoreMode] \in Files
BY AtomicWriterAssumption DEF AtomicWriterAssumption, Absent, New, Files

\* Nothing has happened yet.
LEMMA InitBatch == BatchInit => BatchIInv
<1>. SUFFICES ASSUME BatchInit PROVE BatchIInv
  OBVIOUS
<1>1. file \in [Targets -> Files] /\ snap \in [Targets -> Files] /\ base = file
  BY Shapes DEF BatchInit, Files, Absent
<1>2. rollbackErr \in BOOLEAN /\ removeErr \in BOOLEAN
  BY Zenon DEF BatchInit
<1>3. BatchTypeOK
  BY <1>1, <1>2, Shapes, AtomicWriterAssumption
  DEF BatchInit, BatchTypeOK, Phases, Temps, Targets, AtomicWriterAssumption
<1>4. Loops /\ Verified /\ NoEditLost /\ OldOrNew /\ TempsKnown
  BY <1>1 DEF BatchInit, Loops, Verified, NoEditLost, OldOrNew, TempsKnown
<1>. QED
  BY <1>3, <1>4 DEF BatchIInv

-----------------------------------------------------------------------------
\* Every step of the call keeps its variables in their types.
LEMMA BatchTypesPreserved ==
    ASSUME BatchIInv, [BatchNext]_batchVars
    PROVE  BatchTypeOK'
<1>. USE Shapes DEF BatchIInv, BatchTypeOK, Targets, outside, Phases, Temps
<1>1. ASSUME Stage PROVE BatchTypeOK'
  <2>1. i \in Targets /\ i + 1 \in 0..N + 1
    BY <1>1 DEF Stage, Loops
  <2>2. temps' \subseteq Temps
    BY <1>1, <2>1 DEF Stage
  <2>. QED
    BY <1>1, <2>1, <2>2 DEF Stage
<1>0. ASSUME StageEnds \/ Validate \/ ValidateFails \/ ValidateEnds PROVE BatchTypeOK'
  BY <1>0 DEF StageEnds, Validate, ValidateFails, ValidateEnds
<1>2. ASSUME StageFails PROVE BatchTypeOK'
  <2>1. PICK left \in SUBSET {<<i, "orphan">>} :
            temps' = temps \cup left /\ removeErr' = (removeErr \/ left # {})
    BY <1>2 DEF StageFails
  <2>2. i \in Targets
    BY <1>2 DEF StageFails, Loops
  <2>3. temps' \subseteq Temps
    BY <2>1, <2>2
  <2>4. removeErr' \in BOOLEAN
    BY <2>1, Zenon
  <2>. QED
    BY <1>2, <2>3, <2>4 DEF StageFails
<1>3. ASSUME Commit PROVE BatchTypeOK'
  <2>1. i \in Targets /\ i + 1 \in 0..N + 1
    BY <1>3 DEF Commit, Loops
  <2>2. file' \in [Targets -> Files] /\ temps' \subseteq Temps /\ committed' \subseteq Targets
    BY <1>3, <2>1 DEF Commit
  <2>. QED
    BY <1>3, <2>1, <2>2 DEF Commit
<1>12. ASSUME CommitFails PROVE BatchTypeOK'
  BY <1>12 DEF CommitFails, Loops
<1>4. ASSUME CommitEnds \/ Sync \/ SyncFails \/ Killed PROVE BatchTypeOK'
  BY <1>4 DEF CommitEnds, Sync, SyncFails, Killed
<1>13. ASSUME phase = "rollback" PROVE i <= N
  BY <1>13 DEF Loops
<1>5. ASSUME Restore PROVE BatchTypeOK'
  <2>1. i \in Targets /\ i - 1 \in 0..N + 1
    BY <1>5, <1>13 DEF Restore
  <2>2. file' \in [Targets -> Files] /\ committed' \subseteq Targets
    BY <1>5, <2>1 DEF Restore, Restored
  <2>. QED
    BY <1>5, <2>1, <2>2 DEF Restore
<1>6. ASSUME RestoreFails PROVE BatchTypeOK'
  <2>1. PICK left \in SUBSET {<<i, "orphan">>} :
            temps' = temps \cup left /\ removeErr' = (removeErr \/ left # {})
    BY <1>6 DEF RestoreFails
  <2>2. i \in Targets /\ i - 1 \in 0..N + 1
    BY <1>6, <1>13 DEF RestoreFails
  <2>3. temps' \subseteq Temps
    BY <2>1, <2>2
  <2>4. removeErr' \in BOOLEAN
    BY <2>1, Zenon
  <2>5. rollbackErr' \in BOOLEAN
    BY <1>6, Zenon DEF RestoreFails
  <2>. QED
    BY <1>6, <2>2, <2>3, <2>4, <2>5 DEF RestoreFails
<1>7. ASSUME ChmodFails PROVE BatchTypeOK'
  <2>1. i \in Targets /\ i - 1 \in 0..N + 1
    BY <1>7, <1>13 DEF ChmodFails
  <2>2. file' \in [Targets -> Files]
    BY <1>7, <2>1 DEF ChmodFails
  <2>3. rollbackErr' \in BOOLEAN
    BY <1>7, Zenon DEF ChmodFails
  <2>. QED
    BY <1>7, <2>1, <2>2, <2>3 DEF ChmodFails
<1>8. ASSUME RollbackEnds PROVE BatchTypeOK'
  BY <1>8 DEF RollbackEnds
<1>9. ASSUME Cleanup PROVE BatchTypeOK'
  BY <1>9 DEF Cleanup, Removable
<1>10. ASSUME NEW t \in Targets,
              NEW new \in [content : {"theirs"}, mode : Modes] \cup {Absent}, Edit(t, new)
       PROVE  BatchTypeOK'
  <2>1. new \in Files
    BY DEF Files
  <2>. QED
    BY <1>10, <2>1, AtomicWriterAssumption DEF Edit, AtomicWriterAssumption
<1>11. CASE UNCHANGED batchVars
  BY <1>11 DEF batchVars
<1>. QED
  BY <1>0, <1>1, <1>2, <1>3, <1>4, <1>5, <1>6, <1>7, <1>8, <1>9, <1>10, <1>11, <1>12
  DEF BatchNext, Targets

\* The loops of the commit and of the rollback touch one target at a time, in
\* order, and a change by another process is either seen or marked late.
LEMMA FilesPreserved ==
    ASSUME BatchIInv, [BatchNext]_batchVars
    PROVE  Loops' /\ Verified' /\ NoEditLost' /\ OldOrNew'
<1>. DEFINE Safe == Loops /\ Verified /\ NoEditLost /\ OldOrNew
<1>. SUFFICES Safe'
  OBVIOUS
<1>. USE Shapes DEF BatchIInv, BatchTypeOK, Targets, outside, Loops, Verified, NoEditLost, OldOrNew
<1>1. ASSUME Stage PROVE Safe'
  BY <1>1 DEF Stage
<1>2. ASSUME StageFails PROVE Safe'
  BY <1>2 DEF StageFails
<1>3. ASSUME StageEnds PROVE Safe'
  BY <1>3 DEF StageEnds
<1>4. ASSUME Validate PROVE Safe'
  BY <1>4 DEF Validate, Unchanged
<1>5. ASSUME ValidateFails PROVE Safe'
  BY <1>5 DEF ValidateFails
<1>6. ASSUME ValidateEnds PROVE Safe'
  BY <1>6 DEF ValidateEnds
<1>7. ASSUME Commit PROVE Safe'
  BY <1>7 DEF Commit
<1>8. ASSUME CommitFails PROVE Safe'
  BY <1>8 DEF CommitFails
<1>9. ASSUME CommitEnds PROVE Safe'
  BY <1>9 DEF CommitEnds
<1>10. ASSUME Sync PROVE Safe'
  BY <1>10 DEF Sync
<1>11. ASSUME SyncFails PROVE Safe'
  BY <1>11 DEF SyncFails
<1>12. ASSUME Restore PROVE Safe'
  <2>1. i \in Targets /\ snap[i] = base[i] /\ file' = [file EXCEPT ![i] = snap[i]]
    BY <1>12 DEF Restore, Restored
  <2>4. /\ UNCHANGED <<phase, base, late, rollbackErr>> /\ phase = "rollback" /\ i' = i - 1
        /\ file'[i] = base[i]
        /\ \A t \in Targets : t # i => file'[t] = file[t]
    BY <1>12, <2>1 DEF Restore
  <2>5. Loops'
    BY <2>1, <2>4
  <2>6. OldOrNew'
    BY <2>1, <2>4
  <2>2. Loops' /\ OldOrNew'
    BY <2>5, <2>6
  <2>3. Verified' /\ NoEditLost'
    BY <1>12 DEF Restore
  <2>. QED
    BY <2>2, <2>3
<1>13. ASSUME RestoreFails PROVE Safe'
  BY <1>13 DEF RestoreFails
<1>14. ASSUME ChmodFails PROVE Safe'
  <2>1. i \in Targets /\ snap[i] = base[i] /\ base[i] # Absent
    BY <1>14 DEF ChmodFails
  <2>2. /\ file'[i] = [base[i] EXCEPT !.mode = RestoreMode]
        /\ \A t \in Targets : t # i => file'[t] = file[t]
    BY <1>14, <2>1 DEF ChmodFails
  <2>3. UNCHANGED <<phase, base, late, snap, committed>> /\ rollbackErr' /\ phase = "rollback" /\ i' = i - 1
    BY <1>14 DEF ChmodFails
  <2>4. Loops' /\ Verified' /\ NoEditLost'
    BY <2>1, <2>3
  <2>5. OldOrNew'
    BY <2>1, <2>2, <2>3
  <2>. QED
    BY <2>4, <2>5
<1>15. ASSUME RollbackEnds PROVE Safe'
  BY <1>15 DEF RollbackEnds
<1>16. ASSUME Cleanup PROVE Safe'
  BY <1>16 DEF Cleanup
<1>17. ASSUME Killed PROVE Safe'
  BY <1>17 DEF Killed
<1>18. ASSUME NEW t \in Targets, NEW new, Edit(t, new) PROVE Safe'
  <2>1. /\ UNCHANGED <<phase, i, snap, committed, rollbackErr>>
        /\ file' = [file EXCEPT ![t] = new]
    BY <1>18 DEF Edit
  <2>2. CASE Checked(t)
    <3>1. late' = late \cup {t} /\ base' = base
      BY <1>18, <2>2 DEF Edit
    <3>2. Loops' /\ OldOrNew'
      BY <2>1, <3>1
    <3>3. Verified' /\ NoEditLost'
      BY <2>1, <2>2, <3>1 DEF Checked
    <3>. QED
      BY <3>2, <3>3
  <2>3. CASE ~Checked(t)
    <3>1. base' = [base EXCEPT ![t] = new] /\ late' = late
      BY <1>18, <2>3 DEF Edit
    <3>2. phase = "stage" \/ (phase = "validate" /\ t >= i)
      BY <2>3 DEF Checked
    <3>3. file'[t] = new /\ base'[t] = new
      BY <2>1, <3>1
    <3>4. \A u \in Targets : u # t => file'[u] = file[u] /\ base'[u] = base[u]
      BY <2>1, <3>1
    <3>5. Loops'
      BY <2>1, <3>1, <3>2, <3>3, <3>4
    <3>6. OldOrNew'
      BY <2>1, <3>1, <3>2, <3>3, <3>4
    <3>7. Verified' /\ NoEditLost'
      BY <2>1, <3>1, <3>2, <3>4
    <3>. QED
      BY <3>5, <3>6, <3>7
  <2>. QED
    BY <2>2, <2>3
<1>19. CASE UNCHANGED batchVars
  BY <1>19 DEF batchVars
<1>. QED
  BY <1>1, <1>2, <1>3, <1>4, <1>5, <1>6, <1>7, <1>8, <1>9, <1>10, <1>11, <1>12, <1>13,
     <1>14, <1>15, <1>16, <1>17, <1>18, <1>19 DEF BatchNext

\* A staged file is renamed away or removed, or its removal has failed.
LEMMA TempsPreserved ==
    ASSUME BatchIInv, [BatchNext]_batchVars
    PROVE  TempsKnown'
<1>. USE Shapes DEF BatchIInv, BatchTypeOK, Targets, outside, TempsKnown, Temps
<1>1. ASSUME Stage PROVE TempsKnown'
  BY <1>1 DEF Stage
<1>2. ASSUME StageFails PROVE TempsKnown'
  BY <1>2 DEF StageFails
<1>3. ASSUME StageEnds \/ Validate \/ ValidateFails \/ ValidateEnds PROVE TempsKnown'
  BY <1>3 DEF StageEnds, Validate, ValidateFails, ValidateEnds
<1>4. ASSUME Commit PROVE TempsKnown'
  BY <1>4 DEF Commit, Loops
<1>5. ASSUME CommitFails \/ CommitEnds \/ Sync \/ SyncFails \/ Killed PROVE TempsKnown'
  BY <1>5 DEF CommitFails, CommitEnds, Sync, SyncFails, Killed
<1>6. ASSUME Restore \/ ChmodFails \/ RollbackEnds PROVE TempsKnown'
  BY <1>6 DEF Restore, ChmodFails, RollbackEnds
<1>7. ASSUME RestoreFails PROVE TempsKnown'
  BY <1>7 DEF RestoreFails
<1>8. ASSUME Cleanup PROVE TempsKnown'
  BY <1>8 DEF Cleanup, Removable
<1>9. ASSUME NEW t \in Targets, NEW new, Edit(t, new) PROVE TempsKnown'
  BY <1>9 DEF Edit, Ended
<1>10. CASE UNCHANGED batchVars
  BY <1>10 DEF batchVars
<1>. QED
  BY <1>1, <1>2, <1>3, <1>4, <1>5, <1>6, <1>7, <1>8, <1>9, <1>10 DEF BatchNext

-----------------------------------------------------------------------------
\* BatchIInv is an invariant of writePEMFilesAtomically.
LEMMA BatchInvariance == BatchSpec => []BatchIInv
<1>1. ASSUME BatchIInv, [BatchNext]_batchVars PROVE BatchIInv'
  BY <1>1, BatchTypesPreserved, FilesPreserved, TempsPreserved DEF BatchIInv
<1>. QED
  BY <1>1, InitBatch, PTL DEF BatchSpec

\* All variables keep their types; no loop of atomic.go leaves the batch.
THEOREM TypeCorrectness == BatchSpec => []BatchTypeOK
BY BatchInvariance, PTL DEF BatchIInv

\* A batch is installed as a whole or not at all, whichever call fails.
THEOREM BatchIsAllOrNothing == BatchSpec => []AllOrNothing
<1>1. BatchIInv => AllOrNothing
  BY DEF BatchIInv, Loops, AllOrNothing
<1>. QED
  BY <1>1, BatchInvariance, PTL

\* A change another process made before the check is never overwritten.
THEOREM EditsNeverLost == BatchSpec => []NoEditLost
BY BatchInvariance, PTL DEF BatchIInv

\* Killed anywhere, every target is the complete old or the complete new file.
THEOREM TargetsComplete == BatchSpec => []OldOrNew
BY BatchInvariance, PTL DEF BatchIInv

\* A call that returns leaves no temporary file unless removing it failed.
THEOREM TempsRemoved == BatchSpec => []NoTempLeft
<1>1. BatchIInv => NoTempLeft
  BY DEF BatchIInv, TempsKnown, NoTempLeft
<1>. QED
  BY <1>1, BatchInvariance, PTL

-----------------------------------------------------------------------------
(* The collection of child traces. *)

TypeOK ==
    /\ services \in Seq(Procs)
    /\ mux \in [Contexts -> Procs \cup Handlers \cup {Nobody}]
    /\ seen \in [Contexts -> Seq(Procs)]
    /\ ended \in SUBSET Procs
    /\ pc \in [Handlers -> {"idle", "deliver", "clear", "clearing"}]
    /\ on \in [Handlers -> Contexts]
    /\ entry \in [Handlers -> Seq(Procs)]
    /\ delivered \in [Procs -> Nat]
    /\ logs \in Nat
    /\ overlap \in BOOLEAN

\* One mutex is held at a time, by a trace that has not ended or by the handler
\* that clears, and its holder knows the collection as it is.
Serialised ==
    /\ \A c, d \in Contexts : mux[c] # Nobody /\ mux[d] # Nobody => c = d
    /\ \A c \in Contexts : mux[c] # Nobody => seen[c] = services
    /\ \A c \in Contexts : mux[c] \notin ended
    /\ \A h \in Handlers : pc[h] = "clearing" => mux[on[h]] = h

\* One entry is under way at a time.
OneEntry == \A g, h \in Handlers : pc[g] # "idle" /\ pc[h] # "idle" => g = h

\* A trace is listed once, after it ended.
ListedOnce ==
    /\ Listed \subseteq ended
    /\ \A m, k \in 1..Len(services) : services[m] = services[k] => m = k

\* An entry under way is how the collection begins.
Begins(e) == Len(e) <= Len(services) /\ \A k \in 1..Len(e) : e[k] = services[k]

EntryBegins == \A h \in Handlers : pc[h] # "idle" => Begins(entry[h])

\* The traces that have left the collection, or will when a handler clears it.
Leaving(p) == \E h \in Handlers : pc[h] \in {"clear", "clearing"} /\ p \in InEntry(h)

DeliveredOnce ==
    \A p \in Procs : delivered[p] = IF p \in Dropped \/ Leaving(p) THEN 1 ELSE 0

Orderly == Serialised /\ OneEntry /\ ListedOnce /\ EntryBegins /\ DeliveredOnce

IInv == TypeOK /\ (~overlap => Orderly)

-----------------------------------------------------------------------------
\* The inductive invariant holds at first.
LEMMA InitIInv == Init => IInv
<1>. SUFFICES ASSUME Init PROVE IInv
  OBVIOUS
<1>1. TypeOK
  <2>1. << >> \in Seq(Procs)
    OBVIOUS
  <2>2. mux \in [Contexts -> Procs \cup Handlers \cup {Nobody}] /\ seen \in [Contexts -> Seq(Procs)]
    BY <2>1 DEF Init
  <2>3. pc \in [Handlers -> {"idle", "deliver", "clear", "clearing"}] /\ entry \in [Handlers -> Seq(Procs)]
    BY <2>1 DEF Init
  <2>4. overlap \in BOOLEAN
    BY Zenon DEF Init
  <2>. QED
    BY <2>1, <2>2, <2>3, <2>4 DEF Init, TypeOK
<1>2. services = << >> /\ Listed = {} /\ Dropped = {}
  BY DEF Init, Listed, Dropped
<1>3. Serialised /\ OneEntry /\ EntryBegins
  BY DEF Init, Serialised, OneEntry, EntryBegins
<1>4. ListedOnce
  BY <1>2 DEF Init, ListedOnce
<1>5. DeliveredOnce
  BY <1>2 DEF Init, DeliveredOnce, Leaving
<1>. QED
  BY <1>1, <1>3, <1>4, <1>5 DEF IInv, Orderly

\* Removing the first count traces keeps the others, in their order.
LEMMA RemainingIs ==
    ASSUME NEW s \in Seq(Procs), NEW n \in Nat, n <= Len(s)
    PROVE  /\ Remaining(s, n) \in Seq(Procs)
           /\ Len(Remaining(s, n)) = Len(s) - n
           /\ \A k \in 1..(Len(s) - n) : Remaining(s, n)[k] = s[k + n]
BY DEF Remaining

\* Removing any number of traces leaves a sequence of traces.
LEMMA RemainingType ==
    ASSUME NEW s \in Seq(Procs), NEW n \in Nat
    PROVE  Remaining(s, n) \in Seq(Procs)
BY DEF Remaining

\* Every step keeps the types.
LEMMA TypesPreserved == TypeOK /\ [Next]_vars => TypeOK'
<1>. SUFFICES ASSUME TypeOK, [Next]_vars PROVE TypeOK'
  OBVIOUS
<1>. USE DEF TypeOK
<1>1. ASSUME NEW p \in Procs, NEW c \in Contexts, TraceEnd(p, c) PROVE TypeOK'
  BY <1>1 DEF TraceEnd, LockAndRead, call
<1>2. ASSUME NEW p \in Procs, NEW c \in Contexts, TraceEndAppend(p, c) PROVE TypeOK'
  BY <1>2 DEF TraceEndAppend, WriteAndUnlock, call, history
<1>3. ASSUME NEW h \in Handlers, BuildEntry(h) PROVE TypeOK'
  <2>1. overlap' \in BOOLEAN
    BY <1>3, Zenon DEF BuildEntry
  <2>. QED
    BY <1>3, <2>1 DEF BuildEntry
<1>4. ASSUME NEW h \in Handlers, BuildFails(h) PROVE TypeOK'
  BY <1>4 DEF BuildFails, history
<1>5. ASSUME NEW h \in Handlers, NEW w \in BOOLEAN, NEW x \in BOOLEAN, Deliver(h, w, x) PROVE TypeOK'
  <2>1. delivered' \in [Procs -> Nat]
    BY <1>5 DEF Deliver
  <2>2. << >> \in Seq(Procs)
    OBVIOUS
  <2>3. entry' \in [Handlers -> Seq(Procs)] /\ pc' \in [Handlers -> {"idle", "deliver", "clear", "clearing"}]
    BY <1>5, <2>2 DEF Deliver
  <2>. QED
    BY <1>5, <2>1, <2>3 DEF Deliver
<1>6. ASSUME NEW h \in Handlers, ClearProcesses(h) PROVE TypeOK'
  BY <1>6 DEF ClearProcesses, LockAndRead
<1>7. ASSUME NEW h \in Handlers, ClearProcessesWrite(h) PROVE TypeOK'
  <2>1. Remaining(seen[on[h]], Len(entry[h])) \in Seq(Procs)
    BY RemainingType
  <2>. QED
    BY <1>7, <2>1 DEF ClearProcessesWrite, WriteAndUnlock, history
<1>8. ASSUME UNCHANGED vars PROVE TypeOK'
  BY <1>8 DEF vars
<1>. QED
  BY <1>1, <1>2, <1>3, <1>4, <1>5, <1>6, <1>7, <1>8 DEF Next

-----------------------------------------------------------------------------
\* A step that leaves traces, entries and deliveries alone keeps what is said
\* of them.
LEMMA TracesAside ==
    ASSUME UNCHANGED <<services, ended, pc, entry, delivered>>, Orderly
    PROVE  OneEntry' /\ ListedOnce' /\ EntryBegins' /\ DeliveredOnce'
BY DEF Orderly, OneEntry, ListedOnce, EntryBegins, DeliveredOnce, Listed, Dropped,
       Leaving, InEntry, Begins

\* When no mutex but c's can be held and c's is not, none is.
LEMMA NobodyHolds ==
    ASSUME NEW c \in Contexts, mux[c] = Nobody, ~InUse(c)
    PROVE  \A d \in Contexts : mux[d] = Nobody
BY DEF InUse

\* TraceEnd takes the mutex and reads the collection.
LEMMA TraceEndOrderly ==
    ASSUME TypeOK, Orderly, ~overlap', NEW p \in Procs, NEW c \in Contexts, TraceEnd(p, c)
    PROVE  Orderly'
<1>1. \A d \in Contexts : mux[d] = Nobody
  BY NobodyHolds DEF TraceEnd, LockAndRead
<1>2. OneEntry' /\ ListedOnce' /\ EntryBegins' /\ DeliveredOnce'
  BY TracesAside DEF TraceEnd, call
<1>3. \A h \in Handlers : pc[h] # "clearing"
  BY <1>1, LogProcessesAssumption DEF Orderly, Serialised, TypeOK
<1>4. Serialised'
  BY <1>1, <1>3 DEF TraceEnd, LockAndRead, call, Orderly, Serialised, TypeOK
<1>. QED
  BY <1>2, <1>4 DEF Orderly

\* TraceEnd appends its trace, which was not listed before.
LEMMA TraceEndAppendOrderly ==
    ASSUME TypeOK, Orderly, NEW p \in Procs, NEW c \in Contexts, TraceEndAppend(p, c)
    PROVE  Orderly'
<1>1. /\ mux[c] = p /\ p # Nobody /\ p \notin ended
      /\ seen[c] = services
      /\ \A d \in Contexts \ {c} : mux[d] = Nobody
  BY LogProcessesAssumption DEF TraceEndAppend, Orderly, Serialised, TypeOK
<1>2. \A h \in Handlers : pc[h] # "clearing"
  <2>1. \A h \in Handlers : on[h] \in Contexts /\ h # p /\ h # Nobody
    BY LogProcessesAssumption DEF TypeOK
  <2>2. \A h \in Handlers : pc[h] = "clearing" => mux[on[h]] = h
    BY DEF Orderly, Serialised
  <2>. QED
    BY <1>1, <2>1, <2>2
<1>3. services' = Append(services, p) /\ ended' = ended \cup {p}
  BY <1>1 DEF TraceEndAppend, WriteAndUnlock
<1>4. /\ Len(services') = Len(services) + 1
      /\ \A k \in 1..Len(services) : services'[k] = services[k]
      /\ services'[Len(services) + 1] = p
  BY <1>3 DEF TypeOK
<1>5. Listed' = Listed \cup {p}
  <2>1. Len(services) \in Nat
    BY DEF TypeOK
  <2>2. 1..Len(services') = 1..Len(services) \cup {Len(services) + 1}
    BY <1>4, <2>1
  <2>3. \A q : q \in Listed' <=> \E k \in 1..Len(services) \cup {Len(services) + 1} : q = services'[k]
    BY <2>2 DEF Listed
  <2>. QED
    BY <1>4, <2>1, <2>3 DEF Listed
<1>6. p \notin Listed /\ Dropped' = Dropped
  BY <1>1, <1>3, <1>5 DEF Dropped, Orderly, ListedOnce
<1>7. UNCHANGED <<pc, on, entry, delivered>>
  BY DEF TraceEndAppend, call, history
<1>8. Serialised'
  BY <1>1, <1>2, <1>3, <1>7, LogProcessesAssumption
     DEF TraceEndAppend, WriteAndUnlock, Orderly, Serialised, TypeOK
<1>9. OneEntry'
  BY <1>7 DEF Orderly, OneEntry
<1>10. ListedOnce'
  <2>1. \A k \in 1..Len(services) : services[k] # p
    BY <1>6 DEF Listed
  <2>2. Listed' \subseteq ended'
    BY <1>3, <1>5 DEF Orderly, ListedOnce
  <2>3. Len(services) \in Nat /\ \A m, k \in 1..Len(services) : services[m] = services[k] => m = k
    BY DEF Orderly, ListedOnce, TypeOK
  <2>4. \A k \in 1..Len(services') : k \in 1..Len(services) \/ k = Len(services) + 1
    BY <1>4, <2>3
  <2>5. \A m, k \in 1..Len(services') : services'[m] = services'[k] => m = k
    BY <1>4, <2>1, <2>3, <2>4
  <2>. QED
    BY <2>2, <2>5 DEF ListedOnce
<1>11. EntryBegins'
  BY <1>4, <1>7 DEF Orderly, EntryBegins, Begins, TypeOK
<1>12. DeliveredOnce'
  BY <1>6, <1>7 DEF Orderly, DeliveredOnce, Leaving, InEntry
<1>. QED
  BY <1>8, <1>9, <1>10, <1>11, <1>12 DEF Orderly

\* The snapshot of buildEntry is how the collection begins.
LEMMA BuildEntryOrderly ==
    ASSUME TypeOK, Orderly, ~overlap', NEW h \in Handlers, BuildEntry(h)
    PROVE  Orderly'
<1>1. \A g \in Handlers : pc[g] = "idle"
  BY Zenon DEF BuildEntry
<1>2. UNCHANGED <<services, mux, seen, ended, on, delivered>>
  BY DEF BuildEntry
<1>3. /\ pc' = [pc EXCEPT ![h] = "deliver"]
      /\ entry' = [entry EXCEPT ![h] = services]
  BY DEF BuildEntry
<1>4. Serialised'
  BY <1>1, <1>2, <1>3 DEF Orderly, Serialised, TypeOK
<1>5. OneEntry'
  BY <1>1, <1>3 DEF OneEntry, TypeOK
<1>6. ListedOnce' /\ Dropped' = Dropped
  BY <1>2 DEF Orderly, ListedOnce, Listed, Dropped
<1>7. EntryBegins'
  BY <1>1, <1>2, <1>3 DEF EntryBegins, Begins, TypeOK
<1>8. \A p \in Procs : ~Leaving(p) /\ ~Leaving(p)'
  BY <1>1, <1>3 DEF Leaving, TypeOK
<1>9. DeliveredOnce'
  BY <1>2, <1>6, <1>8 DEF Orderly, DeliveredOnce
<1>. QED
  BY <1>4, <1>5, <1>6, <1>7, <1>9 DEF Orderly

\* An entry that cannot be encoded delivers and drops nothing.
LEMMA BuildFailsOrderly ==
    ASSUME TypeOK, Orderly, NEW h \in Handlers, BuildFails(h)
    PROVE  Orderly'
<1>1. \A g \in Handlers \ {h} : pc[g] = "idle"
  BY DEF BuildFails, Orderly, OneEntry
<1>2. UNCHANGED <<services, mux, seen, ended, on, delivered>>
  BY DEF BuildFails, history
<1>3. pc[h] = "deliver" /\ pc' = [pc EXCEPT ![h] = "idle"]
  BY DEF BuildFails
<1>4. \A g \in Handlers : pc'[g] = "idle"
  BY <1>1, <1>3 DEF TypeOK
<1>5. Serialised' /\ OneEntry' /\ EntryBegins'
  BY <1>2, <1>4 DEF Orderly, Serialised, OneEntry, EntryBegins
<1>6. ListedOnce' /\ Dropped' = Dropped
  BY <1>2 DEF Orderly, ListedOnce, Listed, Dropped
<1>7. \A p \in Procs : ~Leaving(p) /\ ~Leaving(p)'
  BY <1>1, <1>3, <1>4 DEF Leaving
<1>8. DeliveredOnce'
  BY <1>2, <1>6, <1>7 DEF Orderly, DeliveredOnce
<1>. QED
  BY <1>5, <1>6, <1>8 DEF Orderly

\* A delivery counts once for each trace of the entry, and these then leave.
LEMMA DeliverOrderly ==
    ASSUME TypeOK, Orderly, NEW h \in Handlers, NEW w \in BOOLEAN, NEW x \in BOOLEAN, Deliver(h, w, x)
    PROVE  Orderly'
<1>1. \A g \in Handlers \ {h} : pc[g] = "idle"
  BY DEF Deliver, Orderly, OneEntry
<1>2. UNCHANGED <<services, mux, seen, ended, on>>
  BY DEF Deliver
<1>3. pc[h] = "deliver" /\ \A p \in Procs : ~Leaving(p)
  BY <1>1 DEF Deliver, Leaving
<1>4. pc' \in [Handlers -> {"idle", "clear"}] /\ \A g \in Handlers \ {h} : pc'[g] = "idle"
  BY <1>1, <1>3 DEF Deliver, TypeOK
<1>5. Serialised'
  BY <1>2, <1>4 DEF Orderly, Serialised
<1>6. OneEntry'
  BY <1>4 DEF OneEntry
<1>7. ListedOnce' /\ Listed' = Listed /\ Dropped' = Dropped
  BY <1>2 DEF Orderly, ListedOnce, Listed, Dropped
<1>8. pc'[h] # "idle" => entry' = entry
  BY DEF Deliver, TypeOK
<1>9. EntryBegins'
  BY <1>2, <1>3, <1>4, <1>8 DEF Orderly, EntryBegins, Begins
<1>10. InEntry(h) \subseteq Listed
  <2>1. Len(entry[h]) \in Nat /\ Len(services) \in Nat
    BY DEF TypeOK
  <2>2. Len(entry[h]) <= Len(services) /\ \A k \in 1..Len(entry[h]) : entry[h][k] = services[k]
    BY <1>3 DEF Orderly, EntryBegins, Begins
  <2>. QED
    BY <2>1, <2>2 DEF InEntry, Listed
<1>11. \A p \in Procs : delivered[p] = IF p \in Dropped THEN 1 ELSE 0
  BY <1>3 DEF Orderly, DeliveredOnce
<1>12. InEntry(h) \cap Dropped = {}
  BY <1>10 DEF Dropped
<1>13. CASE (w \/ x) /\ entry[h] # << >>
  <2>1. pc'[h] = "clear" /\ entry' = entry
    BY <1>13 DEF Deliver, ReachedSink, TypeOK
  <2>2. \A p \in Procs : Leaving(p)' <=> p \in InEntry(h)
    BY <1>4, <2>1 DEF Leaving, InEntry
  <2>3. \A p \in Procs : delivered'[p] = IF p \in InEntry(h) THEN delivered[p] + 1 ELSE delivered[p]
    BY <1>13 DEF Deliver
  <2>4. DeliveredOnce'
    BY <1>7, <1>11, <1>12, <2>2, <2>3 DEF DeliveredOnce
  <2>. QED
    BY <1>5, <1>6, <1>7, <1>9, <2>4 DEF Orderly
<1>14. CASE ~((w \/ x) /\ entry[h] # << >>)
  <2>1. pc'[h] = "idle"
    BY <1>14 DEF Deliver, ReachedSink, TypeOK
  <2>2. \A p \in Procs : ~Leaving(p)'
    BY <1>4, <2>1 DEF Leaving
  <2>3. (w \/ x) => InEntry(h) = {}
    BY <1>14 DEF InEntry
  <2>4. \A p \in Procs : delivered'[p] = delivered[p]
    BY <2>3 DEF Deliver
  <2>5. DeliveredOnce'
    BY <1>7, <1>11, <2>2, <2>4 DEF DeliveredOnce
  <2>. QED
    BY <1>5, <1>6, <1>7, <1>9, <2>5 DEF Orderly
<1>. QED
  BY <1>13, <1>14

\* clearProcesses takes the mutex and reads the collection.
LEMMA ClearProcessesOrderly ==
    ASSUME TypeOK, Orderly, ~overlap', NEW h \in Handlers, ClearProcesses(h)
    PROVE  Orderly'
<1>1. on[h] \in Contexts /\ \A d \in Contexts : mux[d] = Nobody
  BY NobodyHolds DEF ClearProcesses, LockAndRead, TypeOK
<1>2. UNCHANGED <<services, ended, on, entry, delivered>>
  BY DEF ClearProcesses
<1>3. pc[h] = "clear" /\ pc' = [pc EXCEPT ![h] = "clearing"]
  BY DEF ClearProcesses
<1>4. \A g \in Handlers : pc[g] # "clearing"
  BY <1>1, LogProcessesAssumption DEF Orderly, Serialised, TypeOK
<1>5. mux'[on[h]] = h /\ seen'[on[h]] = services /\ \A d \in Contexts \ {on[h]} : mux'[d] = Nobody
  BY <1>1 DEF ClearProcesses, LockAndRead, TypeOK
<1>6. h \notin ended /\ Nobody \notin ended
  BY LogProcessesAssumption DEF TypeOK
<1>7. Serialised'
  BY <1>2, <1>3, <1>4, <1>5, <1>6 DEF Serialised, TypeOK
<1>8. OneEntry' /\ EntryBegins'
  BY <1>2, <1>3 DEF Orderly, OneEntry, EntryBegins, Begins, TypeOK
<1>9. ListedOnce' /\ Dropped' = Dropped
  BY <1>2 DEF Orderly, ListedOnce, Listed, Dropped
<1>10. \A p \in Procs : Leaving(p)' <=> Leaving(p)
  BY <1>2, <1>3 DEF Leaving, InEntry, TypeOK
<1>11. DeliveredOnce'
  BY <1>2, <1>9, <1>10 DEF Orderly, DeliveredOnce
<1>. QED
  BY <1>7, <1>8, <1>9, <1>11 DEF Orderly

\* The traces removed by their number are those of the entry.
LEMMA ClearProcessesWriteOrderly ==
    ASSUME TypeOK, Orderly, NEW h \in Handlers, ClearProcessesWrite(h)
    PROVE  Orderly'
<1>. DEFINE n == Len(entry[h])
            c == on[h]
<1>1. pc[h] = "clearing" /\ c \in Contexts /\ mux[c] = h /\ h # Nobody /\ n \in Nat
  BY LogProcessesAssumption DEF ClearProcessesWrite, Orderly, Serialised, TypeOK
<1>0. Len(services) \in Nat
  BY DEF TypeOK
<1>2. seen[c] = services /\ \A d \in Contexts \ {c} : mux[d] = Nobody
  BY <1>1 DEF Orderly, Serialised
<1>3. n <= Len(services) /\ \A k \in 1..n : entry[h][k] = services[k]
  BY <1>1 DEF Orderly, EntryBegins, Begins
<1>4. services' = Remaining(services, n)
  BY <1>2 DEF ClearProcessesWrite, WriteAndUnlock
<1>5. /\ services' \in Seq(Procs) /\ Len(services') = Len(services) - n
      /\ \A k \in 1..(Len(services) - n) : services'[k] = services[k + n]
  BY <1>1, <1>3, <1>4, RemainingIs DEF TypeOK
<1>6. UNCHANGED <<ended, on, delivered>>
  BY DEF ClearProcessesWrite, history
<1>7. \A g \in Handlers : pc'[g] = "idle"
  BY <1>1 DEF ClearProcessesWrite, Orderly, OneEntry, TypeOK
<1>8. \A d \in Contexts : mux'[d] = Nobody
  BY <1>1, <1>2 DEF ClearProcessesWrite, WriteAndUnlock, TypeOK
<1>9. Serialised' /\ OneEntry' /\ EntryBegins'
  BY <1>6, <1>7, <1>8, LogProcessesAssumption DEF Serialised, OneEntry, EntryBegins, TypeOK
<1>10. InEntry(h) \subseteq Listed
  BY <1>1, <1>3 DEF InEntry, Listed, TypeOK
<1>11. Listed' = Listed \ InEntry(h)
  <2>1. ASSUME NEW k \in 1..Len(services') PROVE services'[k] \in Listed \ InEntry(h)
    <3>1. k + n \in 1..Len(services) /\ services'[k] = services[k + n]
      BY <1>0, <1>1, <1>3, <1>5, <2>1, 1..Len(services') = 1..(Len(services) - n)
    <3>2. \A m \in 1..n : m \in 1..Len(services) /\ services[k + n] # services[m]
      BY <1>1, <1>3, <3>1 DEF Orderly, ListedOnce, TypeOK
    <3>. QED
      BY <1>3, <3>1, <3>2 DEF Listed, InEntry
  <2>2. ASSUME NEW k \in 1..Len(services), services[k] \notin InEntry(h) PROVE services[k] \in Listed'
    <3>1. k \notin 1..n
      BY <1>3, <2>2 DEF InEntry
    <3>2. k - n \in 1..Len(services') /\ services'[k - n] = services[k]
      BY <1>1, <1>3, <1>5, <3>1 DEF TypeOK
    <3>. QED
      BY <3>2 DEF Listed
  <2>. QED
    BY <2>1, <2>2 DEF Listed
<1>12. Dropped' = Dropped \cup InEntry(h)
  BY <1>6, <1>10, <1>11 DEF Dropped, Orderly, ListedOnce
<1>13. ListedOnce'
  <2>1. \A m, k \in 1..Len(services') : services'[m] = services'[k] => m = k
    <3>1. \A k \in 1..Len(services') : k + n \in 1..Len(services) /\ services'[k] = services[k + n]
      BY <1>0, <1>1, <1>3, <1>5, 1..Len(services') = 1..(Len(services) - n)
    <3>2. \A m, k \in 1..Len(services) : services[m] = services[k] => m = k
      BY DEF Orderly, ListedOnce
    <3>. SUFFICES ASSUME NEW m \in 1..Len(services'), NEW k \in 1..Len(services'), services'[m] = services'[k]
                 PROVE  m = k
      OBVIOUS
    <3>3. m + n = k + n
      BY <3>1, <3>2
    <3>. QED
      BY <1>1, <3>3
  <2>. QED
    BY <1>6, <1>11, <2>1 DEF Orderly, ListedOnce
<1>14. \A p \in Procs : (Leaving(p) <=> p \in InEntry(h)) /\ ~Leaving(p)'
  BY <1>1, <1>7 DEF Leaving, Orderly, OneEntry
<1>15. DeliveredOnce'
  BY <1>6, <1>12, <1>14 DEF Orderly, DeliveredOnce
<1>. QED
  BY <1>9, <1>13, <1>15 DEF Orderly

\* Every step keeps the inductive invariant.
LEMMA StepIInv == IInv /\ [Next]_vars => IInv'
<1>. SUFFICES ASSUME IInv, [Next]_vars, ~overlap' PROVE Orderly'
  BY TypesPreserved DEF IInv
<1>1. CASE UNCHANGED vars
  <2>1. Orderly
    BY <1>1 DEF IInv, vars
  <2>2. Serialised'
    BY <1>1, <2>1 DEF Orderly, Serialised, vars
  <2>. QED
    BY <1>1, <2>1, <2>2, TracesAside DEF Orderly, vars
<1>2. CASE Next
  <2>1. ~overlap
    BY <1>2 DEF Next, TraceEnd, TraceEndAppend, BuildEntry, BuildFails, Deliver, ClearProcesses,
                ClearProcessesWrite, history
  <2>2. TypeOK /\ Orderly
    BY <2>1 DEF IInv
  <2>. QED
    BY <1>2, <2>2, TraceEndOrderly, TraceEndAppendOrderly, BuildEntryOrderly, BuildFailsOrderly, DeliverOrderly,
       ClearProcessesOrderly, ClearProcessesWriteOrderly DEF Next
<1>. QED
  BY <1>1, <1>2

\* The inductive invariant always holds.
LEMMA Invariance == Spec => []IInv
BY InitIInv, StepIInv, PTL DEF Spec

-----------------------------------------------------------------------------
(* clearProcesses, which removes traces by their number after the delivery of
   an entry, removes none that no delivered entry carried, for any number of
   contexts, goroutines and traces, whatever TraceEnd appends meanwhile. *)
THEOREM DropsOnlyLogged == Spec => []DroppedOnlyIfLogged
<1>1. IInv => DroppedOnlyIfLogged
  BY DEF IInv, Orderly, DeliveredOnce, DroppedOnlyIfLogged, TypeOK, Dropped
<1>. QED
  BY <1>1, Invariance, PTL

(* ... and none is in two delivered entries. *)
THEOREM RepeatsNothing == Spec => []NeverRepeated
<1>1. ASSUME IInv, ~overlap, NEW p \in Procs PROVE delivered[p] <= 1
  <2>1. delivered[p] = 1 \/ delivered[p] = 0
    BY <1>1 DEF IInv, Orderly, DeliveredOnce
  <2>. QED
    BY <2>1
<1>2. IInv => NeverRepeated
  BY <1>1 DEF NeverRepeated
<1>. QED
  BY <1>2, Invariance, PTL
=============================================================================
