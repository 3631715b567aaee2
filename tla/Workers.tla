------------------------------- MODULE Workers -------------------------------
(***************************************************************************)
(* The background task dispatcher of tools/workers/workers.go: a package-  *)
(* level queue of tasks, one dispatcher goroutine per run, and the callers *)
(* of AddTask, SetWorkersLimit, SetParallelism, RunWorkers, StopWorkers    *)
(* and RestartWorkers.  All of it shares one mutex and ONE condition       *)
(* variable, on which producers (no room) and the dispatcher (no task, no  *)
(* slot) park.                                                             *)
(*                                                                         *)
(* A critical section of stateMu is one action; everything the code does   *)
(* outside the lock (the parallelism load, the task itself, close(done),   *)
(* the receive from done) is an action of its own.  A goroutine parked in  *)
(* Cond.Wait has the control state "parked"; Broadcast sends every parked  *)
(* goroutine back to the loop that re-tests its condition.                 *)
(***************************************************************************)
EXTENDS Integers, Sequences, FiniteSets

CONSTANTS
    Clients,    \* goroutines that call the package's functions
    Tasks,      \* the functions handed to AddTask, each at most once
    Runs,       \* the *workerRun values RunWorkers can allocate
    Limits,     \* the arguments SetWorkersLimit is called with
    NoRun,      \* the nil *workerRun
    NoTask      \* "no task in hand"

ASSUME WorkersAssumption ==
    /\ Limits \subseteq Int
    /\ NoRun \notin Runs
    /\ NoTask \notin Tasks

VARIABLES
    queue,         \* queue []func()
    workersLimit,  \* workersLimit int
    activeTasks,   \* activeTasks int
    activeRun,     \* activeRun *workerRun
    stopSignal,    \* the run whose stop channel stopSignal holds
    flagRunning,   \* flagRunning atomic.Bool
    parallelism,   \* parallelism atomic.Bool
    stopping,      \* runs with run.stopping set (their stop channel is closed)
    closed,        \* runs whose done channel is closed
    disp,          \* control state of each run's dispatch goroutine
    hand,          \* the task a dispatcher took and has not handed over
    task,          \* life of a task
    pc,            \* control state of each caller
    arg,           \* the task an AddTask caller is adding
    wait           \* the run a StopWorkers caller waits for

vars == <<queue, workersLimit, activeTasks, activeRun, stopSignal, flagRunning,
          parallelism, stopping, closed, disp, hand, task, pc, arg, wait>>

runVars == <<activeRun, stopSignal, flagRunning>>
callVars == <<pc, arg, wait>>

DispStates == {"none", "next", "parked", "got", "exec", "finish", "closing",
               "gone"}
TaskStates == {"new", "offered", "queued", "held", "running", "done"}
CallStates == {"idle", "add", "parked", "stopWait", "restartWait", "run"}

TypeOK ==
    /\ queue \in Seq(Tasks)
    /\ workersLimit \in Int
    /\ activeTasks \in Nat
    /\ activeRun \in Runs \cup {NoRun}
    /\ stopSignal \in Runs \cup {NoRun}
    /\ flagRunning \in BOOLEAN
    /\ parallelism \in BOOLEAN
    /\ stopping \subseteq Runs
    /\ closed \subseteq Runs
    /\ disp \in [Runs -> DispStates]
    /\ hand \in [Runs -> Tasks \cup {NoTask}]
    /\ task \in [Tasks -> TaskStates]
    /\ pc \in [Clients -> CallStates]
    /\ arg \in [Clients -> Tasks \cup {NoTask}]
    /\ wait \in [Clients -> Runs \cup {NoRun}]

\* func init: any machine's CPU count is a positive limit.
Init ==
    /\ queue = << >>
    /\ workersLimit \in {l \in Limits : l > 0}
    /\ activeTasks = 0
    /\ activeRun = NoRun
    /\ stopSignal = NoRun
    /\ flagRunning = FALSE
    /\ parallelism = TRUE
    /\ stopping = {}
    /\ closed = {}
    /\ disp = [r \in Runs |-> "none"]
    /\ hand = [r \in Runs |-> NoTask]
    /\ task = [t \in Tasks |-> "new"]
    /\ pc = [c \in Clients |-> "idle"]
    /\ arg = [c \in Clients |-> NoTask]
    /\ wait = [c \in Clients |-> NoRun]

-----------------------------------------------------------------------------
(* stateChanged.Broadcast(): every parked goroutine re-tests its condition. *)

\* Bugs: Signal where Broadcast is needed, so one kind of waiter is missed.
AsleepDisp(d) == d
AsleepPc(p) == p

WokenDisp(d) == [r \in Runs |-> IF d[r] = "parked" THEN "next" ELSE d[r]]
WokenPc(p) == [c \in Clients |-> IF p[c] = "parked" THEN "add" ELSE p[c]]

-----------------------------------------------------------------------------
(* The callers.  The two setters never wait, so any goroutine may call them. *)

SetWorkersLimit(limit) ==
    /\ workersLimit' = limit
    /\ disp' = WokenDisp(disp)
    /\ pc' = WokenPc(pc)
    /\ UNCHANGED <<queue, activeTasks, runVars, parallelism, stopping, closed,
                   hand, task, arg, wait>>

SetParallelism(parallel) ==
    /\ parallelism' = parallel
    /\ UNCHANGED <<queue, workersLimit, activeTasks, runVars, stopping, closed,
                   disp, hand, task, callVars>>

(* The code never compares tasks or looks inside one, nor run objects: fresh
   ones are taken in a fixed order. *)
IsNextTask(t) == task[t] = "new" /\ t = CHOOSE u \in Tasks : task[u] = "new"
IsNextRun(r) == disp[r] = "none" /\ r = CHOOSE u \in Runs : disp[u] = "none"

\* AddTask is called: the caller has not got the lock yet.
AddTaskCall(c, t) ==
    /\ pc[c] = "idle"
    /\ IsNextTask(t)
    /\ task' = [task EXCEPT ![t] = "offered"]
    /\ pc' = [pc EXCEPT ![c] = "add"]
    /\ arg' = [arg EXCEPT ![c] = t]
    /\ UNCHANGED <<queue, workersLimit, activeTasks, runVars, parallelism,
                   stopping, closed, disp, hand, wait>>

\* for len(queue) >= workersLimit { stateChanged.Wait() }
AddTaskPark(c) ==
    /\ pc[c] = "add"
    /\ Len(queue) >= workersLimit
    /\ pc' = [pc EXCEPT ![c] = "parked"]
    /\ UNCHANGED <<queue, workersLimit, activeTasks, runVars, parallelism,
                   stopping, closed, disp, hand, task, arg, wait>>

AddTaskAppend(c) ==
    /\ pc[c] = "add"
    /\ Len(queue) < workersLimit
    /\ queue' = Append(queue, arg[c])
    /\ task' = [task EXCEPT ![arg[c]] = "queued"]
    /\ disp' = WokenDisp(disp)
    /\ pc' = WokenPc([pc EXCEPT ![c] = "idle"])
    /\ arg' = [arg EXCEPT ![c] = NoTask]
    /\ UNCHANGED <<workersLimit, activeTasks, runVars, parallelism, stopping,
                   closed, hand, wait>>

(* StopWorkers and RestartWorkers: `after` is what the caller does next when
   no run is active, `waiting` its control state while it receives from done. *)
SignalStop(c, after, waiting) ==
    /\ pc[c] = "idle"
    /\ \/ /\ activeRun = NoRun
          /\ flagRunning' = FALSE
          /\ stopSignal' = NoRun
          /\ pc' = [pc EXCEPT ![c] = after]
          /\ UNCHANGED <<activeRun, stopping, disp, wait>>
       \/ /\ activeRun # NoRun
          /\ stopping' = stopping \cup {activeRun}
          /\ wait' = [wait EXCEPT ![c] = activeRun]
          /\ disp' = WokenDisp(disp)
          /\ pc' = WokenPc([pc EXCEPT ![c] = waiting])
          /\ UNCHANGED runVars
    /\ UNCHANGED <<queue, workersLimit, activeTasks, parallelism, closed, hand,
                   task, arg>>

StopWorkers(c) == SignalStop(c, "idle", "stopWait")
RestartWorkers(c) == SignalStop(c, "run", "restartWait")

\* <-run.done
StopReturns(c) ==
    /\ pc[c] \in {"stopWait", "restartWait"}
    /\ wait[c] \in closed
    /\ pc' = [pc EXCEPT ![c] = IF pc[c] = "stopWait" THEN "idle" ELSE "run"]
    /\ wait' = [wait EXCEPT ![c] = NoRun]
    /\ UNCHANGED <<queue, workersLimit, activeTasks, runVars, parallelism,
                   stopping, closed, disp, hand, task, arg>>

\* A bug: a run that is stopping no longer counts.
RunWorkersOverStopping(c) ==
    /\ pc[c] \in {"idle", "run"}
    /\ pc' = [pc EXCEPT ![c] = "idle"]
    /\ activeRun \in stopping \cup {NoRun}
    /\ \E r \in Runs :
          /\ IsNextRun(r)
          /\ activeRun' = r
          /\ stopSignal' = r
          /\ disp' = [disp EXCEPT ![r] = "next"]
    /\ flagRunning' = TRUE
    /\ UNCHANGED <<queue, workersLimit, activeTasks, parallelism, stopping,
                   closed, hand, task, arg, wait>>

(* RunWorkers, called directly or as the second half of RestartWorkers.  A
   run that is still stopping counts as running: the call does nothing. *)
RunWorkers(c) ==
    /\ pc[c] \in {"idle", "run"}
    /\ pc' = [pc EXCEPT ![c] = "idle"]
    /\ \/ /\ activeRun # NoRun
          /\ UNCHANGED <<runVars, disp>>
       \/ /\ activeRun = NoRun
          /\ \E r \in Runs :
                /\ IsNextRun(r)
                /\ activeRun' = r
                /\ stopSignal' = r
                /\ disp' = [disp EXCEPT ![r] = "next"]
          /\ flagRunning' = TRUE
    /\ UNCHANGED <<queue, workersLimit, activeTasks, parallelism, stopping,
                   closed, hand, task, arg, wait>>

-----------------------------------------------------------------------------
(* The dispatch goroutine of run r. *)

\* nextTask's wait condition.
MustWait(r) ==
    r \notin stopping /\ (queue = << >> \/ activeTasks >= workersLimit)

NextTaskPark(r) ==
    /\ disp[r] = "next"
    /\ MustWait(r)
    /\ disp' = [disp EXCEPT ![r] = "parked"]
    /\ UNCHANGED <<queue, workersLimit, activeTasks, runVars, parallelism,
                   stopping, closed, hand, task, callVars>>

\* A bug: no slot limit.
TakesUnlimited(r) == queue # << >> /\ r \notin stopping

Takes(r) == ~MustWait(r) /\ r \notin stopping

\* Take the head of the queue and a slot with it.
NextTaskTake(r) ==
    /\ disp[r] = "next"
    /\ Takes(r)
    /\ hand' = [hand EXCEPT ![r] = Head(queue)]
    /\ task' = [task EXCEPT ![Head(queue)] = "held"]
    /\ queue' = Tail(queue)
    /\ activeTasks' = activeTasks + 1
    /\ disp' = WokenDisp([disp EXCEPT ![r] = "got"])
    /\ pc' = WokenPc(pc)
    /\ UNCHANGED <<workersLimit, runVars, parallelism, stopping, closed, arg,
                   wait>>

\* The run has been stopped: leave the loop, finishRun is deferred.
NextTaskStopped(r) ==
    /\ disp[r] = "next"
    /\ r \in stopping
    /\ disp' = [disp EXCEPT ![r] = "finish"]
    /\ UNCHANGED <<queue, workersLimit, activeTasks, runVars, parallelism,
                   stopping, closed, hand, task, callVars>>

\* The mode is read after nextTask has released the lock.
Dispatch(r) ==
    /\ disp[r] = "got"
    /\ task' = [task EXCEPT ![hand[r]] = "running"]
    /\ \/ /\ parallelism
          /\ disp' = [disp EXCEPT ![r] = "next"]
          /\ hand' = [hand EXCEPT ![r] = NoTask]
       \/ /\ ~parallelism
          /\ disp' = [disp EXCEPT ![r] = "exec"]
          /\ UNCHANGED hand
    /\ UNCHANGED <<queue, workersLimit, activeTasks, runVars, parallelism,
                   stopping, closed, callVars>>

\* A dispatcher that ran t itself goes back to its loop.
Resumed(t) ==
    [r \in Runs |-> IF disp[r] = "exec" /\ hand[r] = t THEN "next" ELSE disp[r]]

(* The task function returns and the deferred releaseExecutionSlot gives the
   slot back; until it has the lock the task counts as running. *)
ExecuteTask(t) ==
    /\ task[t] = "running"
    /\ task' = [task EXCEPT ![t] = "done"]
    /\ activeTasks' = activeTasks - 1
    /\ disp' = WokenDisp(Resumed(t))
    /\ hand' = [r \in Runs |-> IF hand[r] = t THEN NoTask ELSE hand[r]]
    /\ pc' = WokenPc(pc)
    /\ UNCHANGED <<queue, workersLimit, runVars, parallelism, stopping, closed,
                   arg, wait>>

\* A bug: the end of a run resets the slot count of tasks still in flight.
FinishRunFreshSlots(r) ==
    /\ disp[r] = "finish"
    /\ activeRun' = NoRun /\ stopSignal' = NoRun /\ flagRunning' = FALSE
    /\ disp' = [disp EXCEPT ![r] = "closing"]
    /\ activeTasks' = 0
    /\ UNCHANGED <<queue, workersLimit, parallelism, stopping, closed, hand,
                   task, callVars>>

FinishRun(r) ==
    /\ disp[r] = "finish"
    /\ IF activeRun = r
       THEN activeRun' = NoRun /\ stopSignal' = NoRun /\ flagRunning' = FALSE
       ELSE UNCHANGED runVars
    /\ disp' = [disp EXCEPT ![r] = "closing"]
    /\ UNCHANGED <<queue, workersLimit, activeTasks, parallelism, stopping,
                   closed, hand, task, callVars>>

\* close(run.done), after the lock is released.
CloseDone(r) ==
    /\ disp[r] = "closing"
    /\ disp' = [disp EXCEPT ![r] = "gone"]
    /\ closed' = closed \cup {r}
    /\ UNCHANGED <<queue, workersLimit, activeTasks, runVars, parallelism,
                   stopping, hand, task, callVars>>

-----------------------------------------------------------------------------
ClientProceeds(c) == AddTaskPark(c) \/ AddTaskAppend(c) \/ StopReturns(c)

ClientCalls(c) ==
    \/ \E t \in Tasks : AddTaskCall(c, t)
    \/ StopWorkers(c)
    \/ RestartWorkers(c)
    \/ RunWorkers(c)

Dispatcher(r) ==
    \/ NextTaskPark(r)
    \/ NextTaskTake(r)
    \/ NextTaskStopped(r)
    \/ Dispatch(r)
    \/ FinishRun(r)
    \/ CloseDone(r)

Next ==
    \/ \E l \in Limits : SetWorkersLimit(l)
    \/ \E p \in BOOLEAN : SetParallelism(p)
    \/ \E c \in Clients : ClientProceeds(c) \/ ClientCalls(c)
    \/ \E r \in Runs : Dispatcher(r)
    \/ \E t \in Tasks : ExecuteTask(t)

(* Go schedules every runnable goroutine, its mutex hands the lock to a waiter
   it has starved, and the tasks terminate.  Nobody is obliged to make a new
   call. *)
Fairness ==
    /\ \A c \in Clients : WF_vars(ClientProceeds(c))
    /\ \A r \in Runs : WF_vars(Dispatcher(r))
    /\ \A t \in Tasks : WF_vars(ExecuteTask(t))

Spec == Init /\ [][Next]_vars
FairSpec == Spec /\ Fairness

-----------------------------------------------------------------------------
(* Properties. *)

Occupied == {t \in Tasks : task[t] \in {"held", "running"}}

(* Nobody sleeps on stateChanged while the condition it waits for is false:
   the one condition variable is shared by producers and dispatchers, so every
   change of queue, activeTasks, workersLimit or run.stopping must wake both
   kinds.  A producer parked with room, or a dispatcher parked with work, a
   slot or a stop to look at, would sleep for ever. *)
NoLostWakeup ==
    /\ \A c \in Clients : pc[c] = "parked" => Len(queue) >= workersLimit
    /\ \A r \in Runs : disp[r] = "parked" => MustWait(r)

(* activeTasks counts the tasks that really hold a slot, whichever run started
   them: a restart neither forgets the tasks the previous run left in flight
   nor counts one twice. *)
SlotAccounting == IsFiniteSet(Occupied) /\ activeTasks = Cardinality(Occupied)

(* There is never more than one dispatcher that can take or run a task, and it
   is the active run: StopWorkers and RunWorkers racing each other cannot
   leave two loops on one queue, nor an active run without a loop, nor a
   running flag or stop channel that belongs to no run. *)
OneDispatcher ==
    /\ \A r \in Runs :
          disp[r] \in {"next", "parked", "got", "exec", "finish"}
             <=> activeRun = r
    /\ stopSignal = activeRun
    /\ flagRunning <=> activeRun # NoRun

(* Seen from outside, the goroutines, the condition variable, the runs and
   their hands are gone: what AddTask accepted waits in the queue, what a run
   took and has not given back holds a slot. *)
Promise == INSTANCE TaskQueue
           WITH waiting <- queue, slots <- workersLimit, active <- Occupied,
                done <- {t \in Tasks : task[t] = "done"}

(* The package is a bounded first-in first-out executor: AddTask accepts a
   task only with room below the limit in force, accepted tasks get a slot in
   the order they were accepted, only while fewer tasks than that limit hold
   one ("the maximum number of concurrently executing tasks"), each exactly
   once, and none is dropped by a change of limit or mode, a stop or a restart
   that races it. *)
ImplementsTaskQueue == Promise!Spec

(* StopWorkers and the first half of RestartWorkers return: the dispatcher
   they wait for sees the stop even if it is parked, and a task it runs inline
   ends. *)
StopTerminates ==
    \A c \in Clients :
        pc[c] \in {"stopWait", "restartWait"} ~> pc[c] \in {"idle", "run"}

(* While a dispatcher stays up with a positive limit, every producer's AddTask
   returns and every accepted task is executed, whatever the other callers
   do to the limit and the mode meanwhile. *)
Serving == activeRun # NoRun /\ activeRun \notin stopping /\ workersLimit > 0
ServedWhileRunning ==
    <>[]Serving =>
        /\ \A c \in Clients : pc[c] \in {"add", "parked"} ~> pc[c] = "idle"
        /\ \A t \in Tasks : task[t] = "queued" ~> task[t] = "done"
=============================================================================
