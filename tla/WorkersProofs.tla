---------------------------- MODULE WorkersProofs ----------------------------
(***************************************************************************)
(* Proofs about Workers for any number of callers, tasks and runs and any  *)
(* set of limits.                                                          *)
(***************************************************************************)
EXTENDS Workers, FiniteSetTheorems, SequenceTheorems, TLAPS

(* Who owns a task, in each of the three places it can be before it runs: an
   AddTask call in progress, the queue, a dispatcher's hand.  Slot accounting
   is not inductive without it: taking the head of the queue adds one slot
   only if that task does not hold one already. *)
OffersOwned ==
    /\ \A c \in Clients : pc[c] \in {"add", "parked"} =>
          arg[c] \in Tasks /\ task[arg[c]] = "offered"
    /\ \A c, d \in Clients :
          pc[c] \in {"add", "parked"} /\ pc[d] \in {"add", "parked"} /\ c # d
             => arg[c] # arg[d]

QueueOwned ==
    /\ \A i \in 1..Len(queue) : task[queue[i]] = "queued"
    /\ \A i, j \in 1..Len(queue) : i # j => queue[i] # queue[j]

HandsOwned ==
    \A r \in Runs : disp[r] = "got" => hand[r] \in Tasks /\ task[hand[r]] = "held"

(* The inductive invariant. *)
IInv ==
    /\ TypeOK
    /\ OneDispatcher
    /\ OffersOwned /\ QueueOwned /\ HandsOwned
    /\ SlotAccounting
    /\ NoLostWakeup

-----------------------------------------------------------------------------
\* The initial state satisfies the inductive invariant: nothing is queued,
\* held or parked.
LEMMA InitIInv == Init => IInv
<1>. SUFFICES ASSUME Init PROVE IInv
  OBVIOUS
<1>1. TypeOK
  <2>1. workersLimit \in Int
    BY WorkersAssumption DEF Init, WorkersAssumption
  <2>. QED
    BY <2>1, EmptySeq DEF Init, TypeOK, DispStates, TaskStates, CallStates
<1>2. OneDispatcher /\ OffersOwned /\ QueueOwned /\ HandsOwned /\ NoLostWakeup
  BY WorkersAssumption
  DEF Init, OneDispatcher, OffersOwned, QueueOwned, HandsOwned, NoLostWakeup
<1>3. SlotAccounting
  <2>1. Occupied = {}
    BY DEF Init, Occupied
  <2>. QED
    BY <2>1, FS_EmptySet DEF SlotAccounting, Init
<1>. QED
  BY <1>1, <1>2, <1>3 DEF IInv

\* After a Broadcast nobody is parked, and only the parked have moved.
LEMMA Broadcast ==
    /\ \A d \in [Runs -> DispStates] :
          /\ WokenDisp(d) \in [Runs -> DispStates]
          /\ \A r \in Runs :
                /\ WokenDisp(d)[r] # "parked"
                /\ d[r] # "parked" => WokenDisp(d)[r] = d[r]
                /\ d[r] = "parked" => WokenDisp(d)[r] = "next"
    /\ \A p \in [Clients -> CallStates] :
          /\ WokenPc(p) \in [Clients -> CallStates]
          /\ \A c \in Clients :
                /\ WokenPc(p)[c] # "parked"
                /\ p[c] # "parked" => WokenPc(p)[c] = p[c]
                /\ p[c] = "parked" => WokenPc(p)[c] = "add"
BY DEF WokenDisp, WokenPc, DispStates, CallStates

\* Every step preserves the types of all variables but the slot counter.
LEMMA TypesPreserved ==
    ASSUME IInv, [Next]_vars, activeTasks' \in Nat
    PROVE  TypeOK'
<1>. USE DEF IInv, TypeOK, runVars, callVars
<1>1. ASSUME NEW l \in Limits, SetWorkersLimit(l) PROVE TypeOK'
  BY <1>1, Broadcast, WorkersAssumption DEF SetWorkersLimit
<1>2. ASSUME NEW p \in BOOLEAN, SetParallelism(p) PROVE TypeOK'
  BY <1>2 DEF SetParallelism
<1>3. ASSUME NEW c \in Clients, AddTaskPark(c) PROVE TypeOK'
  BY <1>3 DEF AddTaskPark, CallStates
<1>4. ASSUME NEW c \in Clients, AddTaskAppend(c) PROVE TypeOK'
  <2>1. arg[c] \in Tasks
    BY <1>4 DEF AddTaskAppend, OffersOwned
  <2>2. [pc EXCEPT ![c] = "idle"] \in [Clients -> CallStates]
    BY DEF CallStates
  <2>3. /\ disp' \in [Runs -> DispStates]
        /\ pc' \in [Clients -> CallStates]
    BY <1>4, <2>2, Broadcast DEF AddTaskAppend
  <2>. QED
    BY <1>4, <2>1, <2>3, AppendProperties DEF AddTaskAppend, TaskStates
<1>5. ASSUME NEW c \in Clients, StopReturns(c) PROVE TypeOK'
  BY <1>5 DEF StopReturns, CallStates
<1>6. ASSUME NEW c \in Clients, NEW t \in Tasks, AddTaskCall(c, t) PROVE TypeOK'
  BY <1>6 DEF AddTaskCall, CallStates, TaskStates
<1>7. ASSUME NEW c \in Clients, NEW a \in CallStates, NEW w \in CallStates,
             SignalStop(c, a, w)
      PROVE  TypeOK'
  <2>1. /\ [pc EXCEPT ![c] = a] \in [Clients -> CallStates]
        /\ [pc EXCEPT ![c] = w] \in [Clients -> CallStates]
    OBVIOUS
  <2>2. /\ WokenDisp(disp) \in [Runs -> DispStates]
        /\ WokenPc([pc EXCEPT ![c] = w]) \in [Clients -> CallStates]
    BY <2>1, Broadcast
  <2>. QED
    BY <1>7, <2>1, <2>2 DEF SignalStop
<1>8. ASSUME NEW c \in Clients, RunWorkers(c) PROVE TypeOK'
  BY <1>8 DEF RunWorkers, CallStates, DispStates
<1>9. ASSUME NEW r \in Runs, Dispatcher(r) PROVE TypeOK'
  <2>1. CASE NextTaskPark(r)
    BY <2>1 DEF NextTaskPark, DispStates
  <2>2. CASE NextTaskTake(r)
    <3>1. queue # << >>
      BY <2>2 DEF NextTaskTake, Takes, MustWait
    <3>2. Head(queue) \in Tasks /\ Tail(queue) \in Seq(Tasks)
      BY <3>1, HeadTailProperties
    <3>3. [disp EXCEPT ![r] = "got"] \in [Runs -> DispStates]
      BY DEF DispStates
    <3>. QED
      BY <2>2, <3>2, <3>3, Broadcast DEF NextTaskTake, TaskStates
  <2>3. CASE NextTaskStopped(r)
    BY <2>3 DEF NextTaskStopped, DispStates
  <2>4. CASE Dispatch(r)
    BY <2>4 DEF Dispatch, DispStates, TaskStates
  <2>5. CASE FinishRun(r)
    BY <2>5 DEF FinishRun, DispStates
  <2>6. CASE CloseDone(r)
    BY <2>6 DEF CloseDone, DispStates
  <2>. QED
    BY <1>9, <2>1, <2>2, <2>3, <2>4, <2>5, <2>6 DEF Dispatcher
<1>10. ASSUME NEW t \in Tasks, ExecuteTask(t) PROVE TypeOK'
  <2>1. Resumed(t) \in [Runs -> DispStates]
    BY DEF Resumed, DispStates
  <2>. QED
    BY <1>10, <2>1, Broadcast DEF ExecuteTask, TaskStates
<1>11. CASE UNCHANGED vars
  BY <1>11 DEF vars
<1>. QED
  BY <1>1, <1>2, <1>3, <1>4, <1>5, <1>6, <1>7, <1>8, <1>9, <1>10, <1>11
  DEF Next, ClientProceeds, ClientCalls, StopWorkers, RestartWorkers, CallStates

-----------------------------------------------------------------------------
\* Whatever changes a wait condition of workers.go also broadcasts, so no step
\* leaves a goroutine parked on a condition that has become false.
LEMMA WakeupsPreserved ==
    ASSUME IInv, [Next]_vars
    PROVE  NoLostWakeup'
<1>. USE DEF IInv, TypeOK, runVars, callVars, NoLostWakeup, MustWait
<1>1. ASSUME NEW l \in Limits, SetWorkersLimit(l) PROVE NoLostWakeup'
  BY <1>1, Broadcast DEF SetWorkersLimit
<1>2. ASSUME NEW p \in BOOLEAN, SetParallelism(p) PROVE NoLostWakeup'
  BY <1>2 DEF SetParallelism
<1>3. ASSUME NEW c \in Clients, AddTaskPark(c) PROVE NoLostWakeup'
  BY <1>3 DEF AddTaskPark
<1>4. ASSUME NEW c \in Clients, AddTaskAppend(c) PROVE NoLostWakeup'
  <2>1. [pc EXCEPT ![c] = "idle"] \in [Clients -> CallStates]
    BY DEF CallStates
  <2>. QED
    BY <1>4, <2>1, Broadcast DEF AddTaskAppend
<1>5. ASSUME NEW c \in Clients, StopReturns(c) PROVE NoLostWakeup'
  BY <1>5 DEF StopReturns
<1>6. ASSUME NEW c \in Clients, NEW t \in Tasks, AddTaskCall(c, t)
      PROVE  NoLostWakeup'
  BY <1>6 DEF AddTaskCall
<1>7. ASSUME NEW c \in Clients, NEW a \in CallStates, NEW w \in CallStates,
             a # "parked", SignalStop(c, a, w)
      PROVE  NoLostWakeup'
  <2>1. CASE activeRun = NoRun
    BY <1>7, <2>1 DEF SignalStop
  <2>2. CASE activeRun # NoRun
    <3>1. [pc EXCEPT ![c] = w] \in [Clients -> CallStates]
      OBVIOUS
    <3>2. /\ \A r \in Runs : WokenDisp(disp)[r] # "parked"
          /\ \A x \in Clients : WokenPc([pc EXCEPT ![c] = w])[x] # "parked"
      BY <3>1, Broadcast
    <3>. QED
      BY <1>7, <2>2, <3>2 DEF SignalStop
  <2>. QED
    BY <2>1, <2>2
<1>8. ASSUME NEW c \in Clients, RunWorkers(c) PROVE NoLostWakeup'
  BY <1>8 DEF RunWorkers
<1>9. ASSUME NEW r \in Runs, Dispatcher(r) PROVE NoLostWakeup'
  <2>1. CASE NextTaskPark(r)
    BY <2>1 DEF NextTaskPark
  <2>2. CASE NextTaskTake(r)
    <3>1. [disp EXCEPT ![r] = "got"] \in [Runs -> DispStates]
      BY DEF DispStates
    <3>. QED
      BY <2>2, <3>1, Broadcast DEF NextTaskTake
  <2>3. CASE NextTaskStopped(r)
    BY <2>3 DEF NextTaskStopped
  <2>4. CASE Dispatch(r)
    BY <2>4 DEF Dispatch
  <2>5. CASE FinishRun(r)
    BY <2>5 DEF FinishRun
  <2>6. CASE CloseDone(r)
    BY <2>6 DEF CloseDone
  <2>. QED
    BY <1>9, <2>1, <2>2, <2>3, <2>4, <2>5, <2>6 DEF Dispatcher
<1>10. ASSUME NEW t \in Tasks, ExecuteTask(t) PROVE NoLostWakeup'
  <2>1. Resumed(t) \in [Runs -> DispStates]
    BY DEF Resumed, DispStates
  <2>. QED
    BY <1>10, <2>1, Broadcast DEF ExecuteTask
<1>11. CASE UNCHANGED vars
  BY <1>11 DEF vars
<1>. QED
  BY <1>1, <1>2, <1>3, <1>4, <1>5, <1>6, <1>7, <1>8, <1>9, <1>10, <1>11
  DEF Next, ClientProceeds, ClientCalls, StopWorkers, RestartWorkers, CallStates

\* RunWorkers allocates a loop only when there is none, and a loop gives up
\* activeRun before anyone can allocate the next.
LEMMA OneDispatcherPreserved ==
    ASSUME IInv, [Next]_vars
    PROVE  OneDispatcher'
<1>. USE WorkersAssumption
     DEF IInv, TypeOK, runVars, callVars, OneDispatcher, WorkersAssumption
<1>1. ASSUME NEW l \in Limits, SetWorkersLimit(l) PROVE OneDispatcher'
  BY <1>1 DEF SetWorkersLimit, WokenDisp
<1>2. ASSUME NEW p \in BOOLEAN, SetParallelism(p) PROVE OneDispatcher'
  BY <1>2 DEF SetParallelism
<1>3. ASSUME NEW c \in Clients, ClientProceeds(c) PROVE OneDispatcher'
  BY <1>3 DEF ClientProceeds, AddTaskPark, AddTaskAppend, StopReturns, WokenDisp
<1>4. ASSUME NEW c \in Clients, NEW t \in Tasks, AddTaskCall(c, t)
      PROVE  OneDispatcher'
  BY <1>4 DEF AddTaskCall
<1>5. ASSUME NEW c \in Clients, NEW a \in CallStates, NEW w \in CallStates,
             SignalStop(c, a, w)
      PROVE  OneDispatcher'
  BY <1>5 DEF SignalStop, WokenDisp
<1>6. ASSUME NEW c \in Clients, RunWorkers(c) PROVE OneDispatcher'
  BY <1>6 DEF RunWorkers, IsNextRun
<1>7. ASSUME NEW r \in Runs, Dispatcher(r) PROVE OneDispatcher'
  <2>1. CASE NextTaskPark(r)
    BY <2>1 DEF NextTaskPark
  <2>2. CASE NextTaskTake(r)
    BY <2>2 DEF NextTaskTake, WokenDisp
  <2>3. CASE NextTaskStopped(r)
    BY <2>3 DEF NextTaskStopped
  <2>4. CASE Dispatch(r)
    BY <2>4 DEF Dispatch
  <2>5. CASE FinishRun(r)
    BY <2>5 DEF FinishRun
  <2>6. CASE CloseDone(r)
    BY <2>6 DEF CloseDone
  <2>. QED
    BY <1>7, <2>1, <2>2, <2>3, <2>4, <2>5, <2>6 DEF Dispatcher
<1>8. ASSUME NEW t \in Tasks, ExecuteTask(t) PROVE OneDispatcher'
  BY <1>8 DEF ExecuteTask, WokenDisp, Resumed
<1>9. CASE UNCHANGED vars
  BY <1>9 DEF vars
<1>. QED
  BY <1>1, <1>2, <1>3, <1>4, <1>5, <1>6, <1>7, <1>8, <1>9
  DEF Next, ClientCalls, StopWorkers, RestartWorkers, CallStates

-----------------------------------------------------------------------------
\* A task is in one place at a time on its way from AddTask to a slot.
LEMMA OwnershipPreserved ==
    ASSUME IInv, [Next]_vars
    PROVE  OffersOwned' /\ QueueOwned' /\ HandsOwned'
<1>. DEFINE Owned == OffersOwned /\ QueueOwned /\ HandsOwned
<1>. SUFFICES Owned'
  OBVIOUS
<1>. USE DEF IInv, TypeOK, runVars, callVars, OffersOwned, QueueOwned, HandsOwned
<1>0. Len(queue) \in Nat /\ \A i \in 1..Len(queue) : queue[i] \in Tasks
  BY LenProperties, ElementOfSeq
<1>1. ASSUME NEW l \in Limits, SetWorkersLimit(l) PROVE Owned'
  BY <1>1, Broadcast DEF SetWorkersLimit
<1>2. ASSUME NEW p \in BOOLEAN, SetParallelism(p) PROVE Owned'
  BY <1>2 DEF SetParallelism
<1>3. ASSUME NEW c \in Clients, AddTaskPark(c) PROVE Owned'
  BY <1>3 DEF AddTaskPark
<1>4. ASSUME NEW c \in Clients, AddTaskAppend(c) PROVE Owned'
  <2>1. pc[c] = "add" /\ arg[c] \in Tasks /\ task[arg[c]] = "offered"
    BY <1>4 DEF AddTaskAppend
  <2>2. /\ Len(queue') = Len(queue) + 1
        /\ \A i \in 1..Len(queue) : queue'[i] = queue[i]
        /\ queue'[Len(queue) + 1] = arg[c]
    BY <1>4, <2>1, AppendProperties DEF AddTaskAppend
  <2>3. \A i \in 1..Len(queue') : i = Len(queue) + 1 \/ i \in 1..Len(queue)
    BY <1>0, <2>2
  <2>4. QueueOwned'
    BY <1>0, <1>4, <2>1, <2>2, <2>3 DEF AddTaskAppend
  <2>5. HandsOwned'
    BY <1>4, <2>1 DEF AddTaskAppend, WokenDisp
  <2>6. \A x \in Clients : pc'[x] \in {"add", "parked"} =>
            x # c /\ pc[x] \in {"add", "parked"} /\ arg'[x] = arg[x]
    BY <1>4 DEF AddTaskAppend, WokenPc
  <2>7. \A x \in Clients : x # c /\ pc[x] \in {"add", "parked"} =>
            /\ arg[x] \in Tasks
            /\ task'[arg[x]] = "offered"
    BY <1>4, <2>1 DEF AddTaskAppend
  <2>8. OffersOwned'
    <3>. HIDE DEF IInv, TypeOK, QueueOwned, HandsOwned
    <3>1. OffersOwned
      BY DEF IInv
    <3>. QED
      BY <2>6, <2>7, <3>1
  <2>. QED
    BY <2>4, <2>5, <2>8
<1>5. ASSUME NEW c \in Clients, StopReturns(c) PROVE Owned'
  BY <1>5 DEF StopReturns
<1>6. ASSUME NEW c \in Clients, NEW t \in Tasks, AddTaskCall(c, t) PROVE Owned'
  <2>1. task[t] = "new" /\ task' = [task EXCEPT ![t] = "offered"]
    BY <1>6 DEF AddTaskCall, IsNextTask
  <2>2. QueueOwned' /\ HandsOwned'
    BY <1>0, <1>6, <2>1 DEF AddTaskCall
  <2>3. \A x \in Clients : pc'[x] \in {"add", "parked"} =>
            \/ x = c /\ arg'[x] = t
            \/ x # c /\ pc[x] \in {"add", "parked"} /\ arg'[x] = arg[x]
    BY <1>6 DEF AddTaskCall
  <2>4. \A x \in Clients : x # c /\ pc[x] \in {"add", "parked"} =>
            arg[x] # t /\ task'[arg[x]] = "offered"
    BY <2>1
  <2>5. task'[t] = "offered"
    BY <2>1
  <2>6. OffersOwned'
    <3>. HIDE DEF IInv, TypeOK, QueueOwned, HandsOwned
    <3>1. OffersOwned
      BY DEF IInv
    <3>. QED
      BY <2>3, <2>4, <2>5, <3>1
  <2>. QED
    BY <2>2, <2>6
<1>7. ASSUME NEW c \in Clients, NEW a \in CallStates \ {"add", "parked"},
             NEW w \in CallStates \ {"add", "parked"}, SignalStop(c, a, w)
      PROVE  Owned'
  <2>1. \A x \in Clients : pc'[x] \in {"add", "parked"} =>
            pc[x] \in {"add", "parked"}
    BY <1>7 DEF SignalStop, WokenPc
  <2>2. \A r \in Runs : disp'[r] = "got" => disp[r] = "got"
    BY <1>7 DEF SignalStop, WokenDisp
  <2>3. UNCHANGED <<queue, hand, task, arg>>
    BY <1>7 DEF SignalStop
  <2>4. QueueOwned' /\ HandsOwned'
    BY <2>2, <2>3
  <2>5. OffersOwned'
    BY <2>1, <2>3
  <2>. QED
    BY <2>4, <2>5
<1>8. ASSUME NEW c \in Clients, RunWorkers(c) PROVE Owned'
  BY <1>8 DEF RunWorkers
<1>9. ASSUME NEW r \in Runs, Dispatcher(r) PROVE Owned'
  <2>1. CASE NextTaskPark(r)
    BY <2>1 DEF NextTaskPark
  <2>2. CASE NextTaskTake(r)
    <3>1. queue # << >>
      BY <2>2 DEF NextTaskTake, Takes, MustWait
    <3>2. /\ Head(queue) \in Tasks
          /\ Len(queue) > 0 /\ Head(queue) = queue[1]
          /\ Len(Tail(queue)) = Len(queue) - 1
          /\ \A i \in 1..Len(Tail(queue)) : Tail(queue)[i] = queue[i + 1]
      BY <3>1, <1>0, HeadTailProperties, EmptySeq
    <3>3. task[Head(queue)] = "queued"
      BY <3>2, <1>0
    <3>4. QueueOwned'
      <4>1. /\ queue' = Tail(queue)
            /\ task' = [task EXCEPT ![Head(queue)] = "held"]
        BY <2>2 DEF NextTaskTake
      <4>2. \A i \in 1..Len(Tail(queue)) :
                i + 1 \in 1..Len(queue) /\ i + 1 # 1
        BY <3>2, <1>0
      <4>3. \A i \in 1..Len(Tail(queue)) :
                /\ Tail(queue)[i] = queue[i + 1]
                /\ Tail(queue)[i] \in Tasks
                /\ Tail(queue)[i] # Head(queue)
                /\ task[Tail(queue)[i]] = "queued"
        <5>. TAKE i \in 1..Len(Tail(queue))
        <5>1. Tail(queue)[i] = queue[i + 1] /\ i + 1 \in 1..Len(queue) /\ i + 1 # 1
          BY <3>2, <4>2
        <5>2. 1 \in 1..Len(queue)
          BY <3>2, <1>0
        <5>. QED
          BY <5>1, <5>2, <3>2, <1>0
      <4>4. \A i, j \in 1..Len(Tail(queue)) :
                i # j => Tail(queue)[i] # Tail(queue)[j]
        BY <3>2, <4>2, <1>0
      <4>5. \A i \in 1..Len(Tail(queue)) : task'[Tail(queue)[i]] = "queued"
        BY <4>1, <4>3
      <4>. QED
        BY <4>1, <4>4, <4>5
    <3>5. OffersOwned'
      BY <2>2, <3>2, <3>3 DEF NextTaskTake, WokenPc
    <3>6. \A s \in Runs : disp'[s] = "got" => s = r \/ disp[s] = "got"
      BY <2>2 DEF NextTaskTake, WokenDisp
    <3>7. HandsOwned'
      BY <2>2, <3>2, <3>3, <3>6 DEF NextTaskTake
    <3>. QED
      BY <3>4, <3>5, <3>7
  <2>3. CASE NextTaskStopped(r)
    BY <2>3 DEF NextTaskStopped
  <2>4. CASE Dispatch(r)
    <3>1. hand[r] \in Tasks /\ task[hand[r]] = "held"
      BY <2>4 DEF Dispatch
    <3>2. \A s \in Runs : disp'[s] = "got" => s # r /\ disp[s] = "got"
      BY <2>4 DEF Dispatch
    <3>3. \A s \in Runs : disp[s] = "got" => s = r
      BY <2>4 DEF Dispatch, OneDispatcher
    <3>4. HandsOwned'
      BY <3>2, <3>3
    <3>5. QueueOwned'
      BY <2>4, <3>1, <1>0 DEF Dispatch
    <3>6. OffersOwned'
      BY <2>4, <3>1 DEF Dispatch
    <3>. QED
      BY <3>4, <3>5, <3>6
  <2>5. CASE FinishRun(r)
    BY <2>5 DEF FinishRun
  <2>6. CASE CloseDone(r)
    BY <2>6 DEF CloseDone
  <2>. QED
    BY <1>9, <2>1, <2>2, <2>3, <2>4, <2>5, <2>6 DEF Dispatcher
<1>10. ASSUME NEW t \in Tasks, ExecuteTask(t) PROVE Owned'
  <2>1. task[t] = "running" /\ task' = [task EXCEPT ![t] = "done"]
    BY <1>10 DEF ExecuteTask
  <2>2. QueueOwned'
    BY <1>0, <1>10, <2>1 DEF ExecuteTask
  <2>3. OffersOwned'
    BY <1>10, <2>1 DEF ExecuteTask, WokenPc
  <2>4. HandsOwned'
    BY <1>10, <2>1 DEF ExecuteTask, WokenDisp, Resumed
  <2>. QED
    BY <2>2, <2>3, <2>4
<1>11. CASE UNCHANGED vars
  BY <1>11 DEF vars
<1>. QED
  BY <1>1, <1>2, <1>3, <1>4, <1>5, <1>6, <1>7, <1>8, <1>9, <1>10, <1>11
  DEF Next, ClientProceeds, ClientCalls, StopWorkers, RestartWorkers, CallStates

-----------------------------------------------------------------------------
\* A step that moves no task in or out of the slots and leaves activeTasks
\* alone keeps the accounting.
LEMMA SlotsUntouched ==
    ASSUME SlotAccounting, activeTasks' = activeTasks,
           \A t \in Tasks : task'[t] \in {"held", "running"}
                               <=> task[t] \in {"held", "running"}
    PROVE  SlotAccounting'
<1>1. Occupied' = Occupied
  BY DEF Occupied
<1>. QED
  BY <1>1 DEF SlotAccounting

\* nextTask takes one task that held no slot and counts it; the deferred
\* releaseExecutionSlot gives back one that did; nothing else moves.
LEMMA SlotsPreserved ==
    ASSUME IInv, [Next]_vars
    PROVE  SlotAccounting' /\ activeTasks' \in Nat
<1>. USE DEF IInv, TypeOK, runVars, callVars
<1>1. ASSUME NEW l \in Limits, SetWorkersLimit(l)
      PROVE  SlotAccounting' /\ activeTasks' \in Nat
  BY <1>1, SlotsUntouched DEF SetWorkersLimit
<1>2. ASSUME NEW p \in BOOLEAN, SetParallelism(p)
      PROVE  SlotAccounting' /\ activeTasks' \in Nat
  BY <1>2, SlotsUntouched DEF SetParallelism
<1>3. ASSUME NEW c \in Clients, AddTaskPark(c) \/ StopReturns(c)
      PROVE  SlotAccounting' /\ activeTasks' \in Nat
  BY <1>3, SlotsUntouched DEF AddTaskPark, StopReturns
<1>4. ASSUME NEW c \in Clients, AddTaskAppend(c)
      PROVE  SlotAccounting' /\ activeTasks' \in Nat
  <2>1. arg[c] \in Tasks /\ task[arg[c]] = "offered"
    BY <1>4 DEF AddTaskAppend, OffersOwned
  <2>. QED
    BY <1>4, <2>1, SlotsUntouched DEF AddTaskAppend
<1>5. ASSUME NEW c \in Clients, NEW t \in Tasks, AddTaskCall(c, t)
      PROVE  SlotAccounting' /\ activeTasks' \in Nat
  BY <1>5, SlotsUntouched DEF AddTaskCall, IsNextTask
<1>6. ASSUME NEW c \in Clients, NEW a, NEW w, SignalStop(c, a, w)
      PROVE  SlotAccounting' /\ activeTasks' \in Nat
  BY <1>6, SlotsUntouched DEF SignalStop
<1>7. ASSUME NEW c \in Clients, RunWorkers(c)
      PROVE  SlotAccounting' /\ activeTasks' \in Nat
  BY <1>7, SlotsUntouched DEF RunWorkers
<1>8. ASSUME NEW r \in Runs, NextTaskTake(r)
      PROVE  SlotAccounting' /\ activeTasks' \in Nat
  <2>1. queue # << >>
    BY <1>8 DEF NextTaskTake, Takes, MustWait
  <2>2. Head(queue) \in Tasks /\ 1 \in 1..Len(queue) /\ Head(queue) = queue[1]
    BY <2>1, HeadTailProperties, EmptySeq
  <2>3. task[Head(queue)] = "queued"
    BY <2>2 DEF QueueOwned
  <2>4. /\ task' = [task EXCEPT ![Head(queue)] = "held"]
        /\ activeTasks' = activeTasks + 1
    BY <1>8 DEF NextTaskTake
  <2>5. Occupied' = Occupied \cup {Head(queue)} /\ Head(queue) \notin Occupied
    BY <2>2, <2>3, <2>4 DEF Occupied
  <2>6. /\ IsFiniteSet(Occupied')
        /\ Cardinality(Occupied') = Cardinality(Occupied) + 1
    BY <2>5, FS_AddElement DEF SlotAccounting
  <2>. QED
    BY <2>4, <2>6 DEF SlotAccounting
<1>9. ASSUME NEW r \in Runs, Dispatch(r)
      PROVE  SlotAccounting' /\ activeTasks' \in Nat
  <2>1. hand[r] \in Tasks /\ task[hand[r]] = "held"
    BY <1>9 DEF Dispatch, HandsOwned
  <2>2. \A t \in Tasks : task'[t] \in {"held", "running"}
                             <=> task[t] \in {"held", "running"}
    BY <1>9, <2>1 DEF Dispatch
  <2>. QED
    BY <1>9, <2>2, SlotsUntouched DEF Dispatch
<1>10. ASSUME NEW r \in Runs,
              NextTaskPark(r) \/ NextTaskStopped(r) \/ FinishRun(r) \/ CloseDone(r)
       PROVE  SlotAccounting' /\ activeTasks' \in Nat
  BY <1>10, SlotsUntouched
  DEF NextTaskPark, NextTaskStopped, FinishRun, CloseDone
<1>11. ASSUME NEW t \in Tasks, ExecuteTask(t)
       PROVE  SlotAccounting' /\ activeTasks' \in Nat
  <2>1. /\ task[t] = "running"
        /\ task' = [task EXCEPT ![t] = "done"]
        /\ activeTasks' = activeTasks - 1
    BY <1>11 DEF ExecuteTask
  <2>2. Occupied' = Occupied \ {t} /\ t \in Occupied
    BY <2>1 DEF Occupied
  <2>3. SlotAccounting'
    BY <2>1, <2>2, FS_RemoveElement DEF SlotAccounting
  <2>. QED
    BY <2>3, FS_CardinalityType DEF SlotAccounting
<1>12. CASE UNCHANGED vars
  BY <1>12, SlotsUntouched DEF vars
<1>. QED
  BY <1>1, <1>2, <1>3, <1>4, <1>5, <1>6, <1>7, <1>8, <1>9, <1>10, <1>11, <1>12
  DEF Next, ClientProceeds, ClientCalls, Dispatcher, StopWorkers, RestartWorkers

-----------------------------------------------------------------------------
\* IInv is an invariant of the dispatcher.
LEMMA Invariance == Spec => []IInv
<1>1. ASSUME IInv, [Next]_vars PROVE IInv'
  <2>1. SlotAccounting' /\ activeTasks' \in Nat
    BY <1>1, SlotsPreserved
  <2>2. TypeOK'
    BY <1>1, <2>1, TypesPreserved
  <2>. QED
    BY <1>1, <2>1, <2>2, WakeupsPreserved, OneDispatcherPreserved,
       OwnershipPreserved
    DEF IInv
<1>. QED
  BY <1>1, InitIInv, PTL DEF Spec

\* All variables of the dispatcher keep their types; the slot counter of
\* workers.go never goes negative.
THEOREM TypeCorrectness == Spec => []TypeOK
BY Invariance, PTL DEF IInv

\* workers.go never loses a wake-up: a producer parked in AddTask really has no
\* room, a dispatcher parked in nextTask really has nothing it may do.
THEOREM WakeupsNeverLost == Spec => []NoLostWakeup
BY Invariance, PTL DEF IInv

\* activeTasks is the number of tasks that hold an execution slot, across any
\* sequence of limit changes, stops and restarts.
THEOREM SlotsAccounted == Spec => []SlotAccounting
BY Invariance, PTL DEF IInv

\* RunWorkers, StopWorkers and RestartWorkers never leave two dispatch loops on
\* the queue, nor an active run without its loop.
THEOREM AtMostOneDispatcher == Spec => []OneDispatcher
BY Invariance, PTL DEF IInv

-----------------------------------------------------------------------------
Finished == {t \in Tasks : task[t] = "done"}

\* A step that keeps queue and limit, and moves no task into or out of a slot,
\* is invisible in TaskQueue.
LEMMA Invisible ==
    ASSUME queue' = queue, workersLimit' = workersLimit,
           \A t \in Tasks :
              /\ task'[t] \in {"held", "running"} <=> task[t] \in {"held", "running"}
              /\ task'[t] = "done" <=> task[t] = "done"
    PROVE  UNCHANGED Promise!vars
<1>1. Occupied' = Occupied
  BY DEF Occupied
<1>2. Finished' = Finished
  BY DEF Finished
<1>. QED
  BY <1>1, <1>2 DEF Promise!vars, Finished

\* The append of AddTask is a Submit: nobody else has the task, so it is new to
\* the line, the slots and the finished tasks.
LEMMA AppendSubmits ==
    ASSUME IInv, NEW c \in Clients, AddTaskAppend(c)
    PROVE  arg[c] \in Tasks /\ Promise!Submit(arg[c])
<1>. USE DEF IInv, TypeOK
<1>1. arg[c] \in Tasks /\ task[arg[c]] = "offered"
  BY DEF AddTaskAppend, OffersOwned
<1>2. /\ queue' = Append(queue, arg[c])
      /\ Len(queue) < workersLimit
      /\ workersLimit' = workersLimit
      /\ task' = [task EXCEPT ![arg[c]] = "queued"]
  BY DEF AddTaskAppend
<1>3. arg[c] \notin {queue[i] : i \in 1..Len(queue)}
  BY <1>1 DEF QueueOwned
<1>4. arg[c] \notin Occupied /\ arg[c] \notin Finished
  BY <1>1 DEF Occupied, Finished
<1>5. Occupied' = Occupied
  BY <1>1, <1>2 DEF Occupied
<1>6. Finished' = Finished
  BY <1>1, <1>2 DEF Finished
<1>7. arg[c] \notin Promise!Known
  BY <1>3, <1>4 DEF Promise!Known, Finished
<1>. HIDE DEF IInv, TypeOK
<1>. QED
  BY <1>1, <1>2, <1>5, <1>6, <1>7 DEF Promise!Submit, Finished

\* nextTask's take is a Begin: activeTasks really counts the slots in use.
LEMMA TakeBegins ==
    ASSUME IInv, NEW r \in Runs, NextTaskTake(r)
    PROVE  Promise!Begin
<1>. USE DEF IInv, TypeOK
<1>1. queue # << >> /\ activeTasks < workersLimit
  BY DEF NextTaskTake, Takes, MustWait
<1>2. Head(queue) \in Tasks /\ 1 \in 1..Len(queue) /\ Head(queue) = queue[1]
  BY <1>1, HeadTailProperties, EmptySeq
<1>3. task[Head(queue)] = "queued"
  BY <1>2 DEF QueueOwned
<1>4. /\ task' = [task EXCEPT ![Head(queue)] = "held"]
      /\ queue' = Tail(queue)
      /\ workersLimit' = workersLimit
  BY DEF NextTaskTake
<1>5. Occupied' = Occupied \cup {Head(queue)}
  BY <1>2, <1>3, <1>4 DEF Occupied
<1>6. Finished' = Finished
  BY <1>2, <1>3, <1>4 DEF Finished
<1>7. Cardinality(Occupied) < workersLimit
  BY <1>1 DEF SlotAccounting
<1>8. Promise!Cardinality(Occupied) = Cardinality(Occupied)
  BY DEF Promise!Cardinality, Cardinality
<1>. HIDE DEF IInv, TypeOK
<1>. QED
  BY <1>1, <1>4, <1>5, <1>6, <1>7, <1>8 DEF Promise!Begin, Finished

\* The end of a task, with its deferred releaseExecutionSlot, is an End.
LEMMA ExecuteEnds ==
    ASSUME IInv, NEW t \in Tasks, ExecuteTask(t)
    PROVE  Promise!End(t)
<1>1. /\ task[t] = "running" /\ task' = [task EXCEPT ![t] = "done"]
      /\ queue' = queue /\ workersLimit' = workersLimit
  BY DEF ExecuteTask
<1>2. Occupied' = Occupied \ {t} /\ t \in Occupied
  BY <1>1 DEF IInv, TypeOK, Occupied
<1>3. Finished' = Finished \cup {t}
  BY <1>1 DEF IInv, TypeOK, Finished
<1>. QED
  BY <1>1, <1>2, <1>3 DEF Promise!End, Finished

\* Every step of workers.go is a step of TaskQueue or invisible in it.
LEMMA StepSimulates ==
    ASSUME IInv, [Next]_vars
    PROVE  [Promise!Next]_(Promise!vars)
<1>. USE DEF IInv, TypeOK, runVars, callVars
<1>1. ASSUME NEW l \in Limits, SetWorkersLimit(l) PROVE Promise!Next
  <2>1. Occupied' = Occupied /\ Finished' = Finished
    BY <1>1 DEF SetWorkersLimit, Occupied, Finished
  <2>2. Promise!Resize(l)
    BY <1>1, <2>1 DEF SetWorkersLimit, Promise!Resize, Finished
  <2>. QED
    BY <2>2 DEF Promise!Next
<1>2. ASSUME NEW c \in Clients, AddTaskAppend(c) PROVE Promise!Next
  BY <1>2, AppendSubmits DEF Promise!Next
<1>3. ASSUME NEW r \in Runs, NextTaskTake(r) PROVE Promise!Next
  BY <1>3, TakeBegins DEF Promise!Next
<1>4. ASSUME NEW t \in Tasks, ExecuteTask(t) PROVE Promise!Next
  BY <1>4, ExecuteEnds DEF Promise!Next
<1>5. ASSUME NEW p \in BOOLEAN, SetParallelism(p) PROVE UNCHANGED Promise!vars
  BY <1>5, Invisible DEF SetParallelism
<1>6. ASSUME NEW c \in Clients, AddTaskPark(c) \/ StopReturns(c)
      PROVE  UNCHANGED Promise!vars
  BY <1>6, Invisible DEF AddTaskPark, StopReturns
<1>7. ASSUME NEW c \in Clients, NEW t \in Tasks, AddTaskCall(c, t)
      PROVE  UNCHANGED Promise!vars
  <2>1. task[t] = "new" /\ task' = [task EXCEPT ![t] = "offered"]
    BY <1>7 DEF AddTaskCall, IsNextTask
  <2>. QED
    BY <1>7, <2>1, Invisible DEF AddTaskCall
<1>8. ASSUME NEW c \in Clients, NEW a, NEW w, SignalStop(c, a, w)
      PROVE  UNCHANGED Promise!vars
  BY <1>8, Invisible DEF SignalStop
<1>9. ASSUME NEW c \in Clients, RunWorkers(c) PROVE UNCHANGED Promise!vars
  BY <1>9, Invisible DEF RunWorkers
<1>10. ASSUME NEW r \in Runs, Dispatch(r) PROVE UNCHANGED Promise!vars
  <2>1. hand[r] \in Tasks /\ task[hand[r]] = "held"
    BY <1>10 DEF Dispatch, HandsOwned
  <2>2. task' = [task EXCEPT ![hand[r]] = "running"]
    BY <1>10 DEF Dispatch
  <2>3. queue' = queue /\ workersLimit' = workersLimit
    BY <1>10 DEF Dispatch
  <2>. QED
    BY <2>1, <2>2, <2>3, Invisible
<1>11. ASSUME NEW r \in Runs,
              NextTaskPark(r) \/ NextTaskStopped(r) \/ FinishRun(r) \/ CloseDone(r)
       PROVE  UNCHANGED Promise!vars
  BY <1>11, Invisible
  DEF NextTaskPark, NextTaskStopped, FinishRun, CloseDone
<1>12. CASE UNCHANGED vars
  BY <1>12, Invisible DEF vars
<1>13. ASSUME NEW c \in Clients, ClientProceeds(c) \/ ClientCalls(c)
       PROVE  Promise!Next \/ UNCHANGED Promise!vars
  BY <1>2, <1>6, <1>7, <1>8, <1>9, <1>13
  DEF ClientProceeds, ClientCalls, StopWorkers, RestartWorkers
<1>14. ASSUME NEW r \in Runs, Dispatcher(r)
       PROVE  Promise!Next \/ UNCHANGED Promise!vars
  BY <1>3, <1>10, <1>11, <1>14 DEF Dispatcher
<1>. HIDE DEF IInv, TypeOK
<1>. QED
  BY <1>1, <1>4, <1>5, <1>12, <1>13, <1>14 DEF Next

\* The dispatcher of workers.go implements TaskQueue: bounded admission, first
\* in first out, each task in a slot once and never beyond the limit in force,
\* whatever limits, modes, stops and restarts race it.
THEOREM WorkersImplementTaskQueue == Spec => ImplementsTaskQueue
<1>1. Init => Promise!Init
  <2>. SUFFICES ASSUME Init PROVE Promise!Init
    OBVIOUS
  <2>1. Occupied = {} /\ Finished = {}
    BY DEF Init, Occupied, Finished
  <2>. QED
    BY <2>1 DEF Init, Promise!Init, Finished
<1>. QED
  BY <1>1, StepSimulates, Invariance, PTL
  DEF Spec, ImplementsTaskQueue, Promise!Spec
=============================================================================
