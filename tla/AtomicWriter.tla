---------------------------- MODULE AtomicWriter ----------------------------
(***************************************************************************)
(* writePEMFilesAtomically of cmd/go-openssl/code/atomic.go: a batch of    *)
(* key and certificate files is staged in temporary files, the targets are *)
(* checked not to have changed, every target is replaced by a rename, the  *)
(* directories are synced, and an error on the way undoes what was done.   *)
(*                                                                         *)
(* Every system call may fail, the process may be killed between any two   *)
(* steps, and another process (Edit) may change a target at any time.      *)
(* A file is its content and its permission bits; a temporary file holds   *)
(* what was staged in it, and a rename is atomic.                          *)
(***************************************************************************)
EXTENDS Integers

CONSTANTS
    N,          \* the batch has N updates, each with a target of its own
    Modes,      \* permission bits
    NewMode,    \* update.mode
    RestoreMode,\* 0o600, the mode a restored file is staged with
    MaxEdits    \* bound: how often other processes change a target

ASSUME AtomicWriterAssumption ==
    /\ N \in Nat \ {0}
    /\ {NewMode, RestoreMode} \subseteq Modes
    /\ MaxEdits \in Nat

VARIABLES
    phase,       \* the phase of the call
    i,           \* the index of the phase's loop
    file,        \* the targets in the file system
    temps,       \* the temporary files there: <<target, purpose>>
    snap,        \* originalContent, originalMode and existed of each update
    committed,   \* the updates with committed set
    rollbackErr, \* a rollback step reported an error
    removeErr,   \* history: a temporary file could not be removed
    base,        \* history: the targets as everybody else left them
    late,        \* history: targets others changed after their check
    edits        \* how many changes others have made

batchVars == <<phase, i, file, temps, snap, committed, rollbackErr, removeErr,
               base, late, edits>>
outside == <<base, late, edits>>

Targets == 1..N
Absent == [content |-> "absent", mode |-> RestoreMode]
New == [content |-> "new", mode |-> NewMode]
Files == [content : {"absent", "old", "new", "theirs"}, mode : Modes]

\* Staged files, and those whose path was lost with an error.
Temps == Targets \X {"stage", "orphan"}

Phases == {"stage", "validate", "commit", "sync", "rollback", "cleanup",
            "succeeded", "failed", "killed"}
Ended == {"succeeded", "failed", "killed"}

BatchTypeOK ==
    /\ phase \in Phases
    /\ i \in 0..N + 1
    /\ file \in [Targets -> Files]
    /\ temps \subseteq Temps
    /\ snap \in [Targets -> Files]
    /\ committed \subseteq Targets
    /\ rollbackErr \in BOOLEAN
    /\ removeErr \in BOOLEAN
    /\ base \in [Targets -> Files]
    /\ late \subseteq Targets
    /\ edits \in 0..MaxEdits

BatchInit ==
    /\ phase = "stage"
    /\ i = 1
    /\ file \in [Targets -> [content : {"old"}, mode : Modes] \cup {Absent}]
    /\ temps = {}
    /\ snap = [t \in Targets |-> Absent]
    /\ committed = {}
    /\ rollbackErr = FALSE
    /\ removeErr = FALSE
    /\ base = file
    /\ late = {}
    /\ edits = 0

-----------------------------------------------------------------------------
(* The staging loop. *)

\* Lstat, the snapshot of an existing target, and its temporary file.
Stage ==
    /\ phase = "stage"
    /\ i <= N
    /\ snap' = [snap EXCEPT ![i] = file[i]]
    /\ temps' = temps \cup {<<i, "stage">>}
    /\ i' = i + 1
    /\ UNCHANGED <<phase, file, committed, rollbackErr, removeErr, outside>>

(* Any of it fails: stagePEMReader removes a file it could not finish, if it
   can, and the call cleans up. *)
StageFails ==
    /\ phase = "stage"
    /\ i <= N
    /\ \E left \in SUBSET {<<i, "orphan">>} :
          /\ temps' = temps \cup left
          /\ removeErr' = (removeErr \/ left # {})
    /\ phase' = "cleanup"
    /\ UNCHANGED <<i, file, snap, committed, rollbackErr, outside>>

StageEnds ==
    /\ phase = "stage"
    /\ i = N + 1
    /\ phase' = "validate"
    /\ i' = 1
    /\ UNCHANGED <<file, temps, snap, committed, rollbackErr, removeErr, outside>>

-----------------------------------------------------------------------------
(* validateStagedTargetsUnchanged. *)

\* A bug: only whether the target exists is compared.
UnchangedIfExists(t) == (file[t] = Absent) <=> (snap[t] = Absent)

\* Existence, permissions and content.
Unchanged(t) == file[t] = snap[t]

Validate ==
    /\ phase = "validate"
    /\ i <= N
    /\ Unchanged(i)
    /\ i' = i + 1
    /\ UNCHANGED <<phase, file, temps, snap, committed, rollbackErr, removeErr,
                   outside>>

\* A target changed, or it cannot be read.
ValidateFails ==
    /\ phase = "validate"
    /\ i <= N
    /\ phase' = "cleanup"
    /\ UNCHANGED <<i, file, temps, snap, committed, rollbackErr, removeErr,
                   outside>>

ValidateEnds ==
    /\ phase = "validate"
    /\ i = N + 1
    /\ phase' = "commit"
    /\ i' = 1
    /\ UNCHANGED <<file, temps, snap, committed, rollbackErr, removeErr, outside>>

-----------------------------------------------------------------------------
(* The commit loop and the sync of the directories. *)

Commit ==
    /\ phase = "commit"
    /\ i <= N
    /\ file' = [file EXCEPT ![i] = New]
    /\ temps' = temps \ {<<i, "stage">>}
    /\ committed' = committed \cup {i}
    /\ i' = i + 1
    /\ UNCHANGED <<phase, snap, rollbackErr, removeErr, outside>>

\* A bug: no rollback, the call only cleans up.
CommitFailsForward ==
    /\ phase = "commit"
    /\ i <= N
    /\ phase' = "cleanup"
    /\ UNCHANGED <<i, file, temps, snap, committed, rollbackErr, removeErr,
                   outside>>

\* The rename fails: roll back what precedes it.
CommitFails ==
    /\ phase = "commit"
    /\ i <= N
    /\ phase' = "rollback"
    /\ i' = i - 1
    /\ UNCHANGED <<file, temps, snap, committed, rollbackErr, removeErr, outside>>

CommitEnds ==
    /\ phase = "commit"
    /\ i = N + 1
    /\ phase' = "sync"
    /\ UNCHANGED <<i, file, temps, snap, committed, rollbackErr, removeErr,
                   outside>>

Sync ==
    /\ phase = "sync"
    /\ phase' = "succeeded"
    /\ UNCHANGED <<i, file, temps, snap, committed, rollbackErr, removeErr,
                   outside>>

SyncFails ==
    /\ phase = "sync"
    /\ phase' = "rollback"
    /\ i' = N
    /\ UNCHANGED <<file, temps, snap, committed, rollbackErr, removeErr, outside>>

-----------------------------------------------------------------------------
(* rollbackStagedPEMFiles, from the last committed target to the first. *)

\* Content and permissions as they were.
Restored(t) == snap[t]

(* A target that existed is restored through a rename and a chmod, one that
   did not is removed. *)
Restore ==
    /\ phase = "rollback"
    /\ i >= 1
    /\ file' = [file EXCEPT ![i] = Restored(i)]
    /\ committed' = committed \ {i}
    /\ i' = i - 1
    /\ UNCHANGED <<phase, temps, snap, rollbackErr, removeErr, outside>>

\* A bug: the replacement is removed before the restored file is staged.
RestoreFailsAfterRemove ==
    /\ phase = "rollback"
    /\ i >= 1
    /\ file' = [file EXCEPT ![i] = Absent]
    /\ rollbackErr' = TRUE
    /\ i' = i - 1
    /\ UNCHANGED <<phase, temps, snap, committed, removeErr, outside>>

(* The restored file cannot be staged or renamed (its temporary file may then
   stay behind), or the replacement cannot be removed; the loop goes on. *)
RestoreFails ==
    /\ phase = "rollback"
    /\ i >= 1
    /\ \E left \in SUBSET {<<i, "orphan">>} :
          /\ left # {} => snap[i] # Absent
          /\ temps' = temps \cup left
          /\ removeErr' = (removeErr \/ left # {})
    /\ rollbackErr' = TRUE
    /\ i' = i - 1
    /\ UNCHANGED <<phase, file, snap, committed, outside>>

\* The chmod fails: the content is back, with the mode it was staged with.
ChmodFails ==
    /\ phase = "rollback"
    /\ i >= 1
    /\ snap[i] # Absent
    /\ file' = [file EXCEPT ![i] = [snap[i] EXCEPT !.mode = RestoreMode]]
    /\ rollbackErr' = TRUE
    /\ i' = i - 1
    /\ UNCHANGED <<phase, temps, snap, committed, removeErr, outside>>

\* The final sync of the directories, which may fail too.
RollbackEnds ==
    /\ phase = "rollback"
    /\ i = 0
    /\ \E err \in BOOLEAN : rollbackErr' = (rollbackErr \/ err)
    /\ phase' = "cleanup"
    /\ UNCHANGED <<i, file, temps, snap, committed, removeErr, outside>>

-----------------------------------------------------------------------------
\* A bug: the temporary file of the step that failed is not in the list.
RemovableAfterFirst == {t \in temps : t[2] = "stage" /\ t[1] < i}

\* The files whose tempPath is still set.
Removable == {t \in temps : t[2] = "stage"}

\* cleanupStagedPEMFiles, after which the call returns its error.
Cleanup ==
    /\ phase = "cleanup"
    /\ \E left \in SUBSET Removable :
          /\ temps' = (temps \ Removable) \cup left
          /\ removeErr' = (removeErr \/ left # {})
    /\ phase' = "failed"
    /\ UNCHANGED <<i, file, snap, committed, rollbackErr, outside>>

Killed ==
    /\ phase \notin Ended
    /\ phase' = "killed"
    /\ UNCHANGED <<i, file, temps, snap, committed, rollbackErr, removeErr,
                   outside>>

\* Has the call looked at target t for the last time?
Checked(t) == phase # "stage" /\ (phase = "validate" => t < i)

\* Another process writes a target, changes its mode or removes it.
Edit(t, new) ==
    /\ phase \notin Ended
    /\ edits < MaxEdits
    /\ new # file[t]
    /\ edits' = edits + 1
    /\ file' = [file EXCEPT ![t] = new]
    /\ IF Checked(t)
       THEN late' = late \cup {t} /\ UNCHANGED base
       ELSE base' = [base EXCEPT ![t] = new] /\ UNCHANGED late
    /\ UNCHANGED <<phase, i, temps, snap, committed, rollbackErr, removeErr>>

BatchNext ==
    \/ Stage \/ StageFails \/ StageEnds
    \/ Validate \/ ValidateFails \/ ValidateEnds
    \/ Commit \/ CommitFails \/ CommitEnds
    \/ Sync \/ SyncFails
    \/ Restore \/ RestoreFails \/ ChmodFails \/ RollbackEnds
    \/ Cleanup
    \/ Killed
    \/ \E t \in Targets :
          \E new \in [content : {"theirs"}, mode : Modes] \cup {Absent} :
              Edit(t, new)

BatchSpec == BatchInit /\ [][BatchNext]_batchVars

-----------------------------------------------------------------------------
(* Properties. *)

(* All or nothing: a call that returns nil has installed every update of the
   batch, and one that returns an error without a rollback error has changed
   nothing, every target has the content and the permissions it had, whichever
   step failed and however far the renames had got ("earlier replacements are
   rolled back from verified in-memory snapshots"). *)
AllOrNothing ==
    \A t \in Targets \ late :
        /\ phase = "succeeded" => file[t] = New
        /\ phase = "failed" /\ ~rollbackErr => file[t] = base[t]

(* What another process wrote between the snapshot and the check is never
   replaced: no rename happens over a target that differs from its snapshot,
   so a rollback cannot bring back a stale copy either. *)
NoEditLost == \A t \in committed : base[t] = snap[t]

(* At every instant, so also when the process is killed or a rollback step
   fails, each target is the old file or the new one, complete; the old one
   may only have the tighter mode of a restore in progress.  In particular a
   key that existed is never missing. *)
OldOrNew ==
    \A t \in Targets \ late :
        \/ file[t] \in {base[t], New}
        \/ base[t] # Absent /\ file[t] = [base[t] EXCEPT !.mode = RestoreMode]

(* No private key stays behind in a temporary file when the call returns,
   unless removing it failed. *)
NoTempLeft ==
    phase \in {"succeeded", "failed"} /\ ~removeErr => temps = {}
=============================================================================
