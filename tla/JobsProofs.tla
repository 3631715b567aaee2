----------------------------- MODULE JobsProofs -----------------------------
(***************************************************************************)
(* Proofs about Jobs for any number of ids, definitions and stop channels: *)
(* the registry agrees with itself, no channel is closed twice, a stop     *)
(* leaves nothing running and no registration is forgotten.                *)
(***************************************************************************)
EXTENDS Jobs, TLAPS

\* A definition that is not registered is not stopped either.
FreshDefs == \A d \in Defs : ~Registered(d) => ~def[d].stopped

Starting == {"store", "snapshot", "spawn"}
Stopping == {"close", "wait", "clear", "stopped"}

(* Which step of a lifecycle call goes with which flags and channel. *)
Phase ==
    /\ life.at \in Starting => started
    /\ life.at \in Stopping => ~started
    /\ life.at \in {"free", "start"} => status = started
    /\ life.at \in {"start", "store"} \/ life.restart => stopCh < MaxGen
    /\ life.at \in {"start"} \cup Starting => ~life.restart
    /\ closed \subseteq 1..stopCh
    /\ started /\ life.at # "store" => stopCh \in Gens \ closed
    /\ life.at = "close" => stopCh \in Gens \ closed
    /\ ~started /\ life.at # "close" => stopCh = 0 \/ stopCh \in closed
    /\ life.at = "store" => stopCh = 0 \/ stopCh \in closed

(* A goroutine that no stop has overtaken belongs to the current channel, and is
   alive only between the store of that channel and the wait of the next stop;
   the same holds of the registrations that are about to create one. *)
Generations ==
    /\ \A l \in AllLive : l[3] # "overtaken" =>
          /\ l[2] = stopCh
          /\ (started /\ life.at # "store") \/ life.at \in {"close", "wait"}
    /\ \A d \in Defs : pending[d] # 0 /\ pending[d] \notin closed =>
          /\ pending[d] = stopCh
          /\ (started /\ life.at # "store") \/ life.at = "close"

(* Every listed job has its goroutine, or is in the copy that startJobs starts,
   or its registration starts it. *)
Covered ==
    /\ started /\ life.at \notin Starting =>
          \A d \in lists : d \in spawned \/ pending[d] = stopCh
    /\ life.at = "spawn" =>
          \A d \in lists : d \in life.snap \/ d \in spawned \/ pending[d] = stopCh

(* The inductive invariant. *)
IInv == TypeOK /\ RegistryAgrees /\ FreshDefs /\ Phase /\ Generations /\ Covered

-----------------------------------------------------------------------------
\* Nothing is registered, started or alive.
LEMMA InitIInv == Init => IInv
<1>. SUFFICES ASSUME Init PROVE IInv
  OBVIOUS
<1>. USE JobsAssumption DEF JobsAssumption
<1>1. started \in BOOLEAN /\ status \in BOOLEAN
  BY Zenon DEF Init
<1>2. TypeOK
  BY <1>1 DEF Init, TypeOK, IdleLife, LifeStates, LoopStates, JobKinds
<1>3. RegistryAgrees /\ FreshDefs
  BY DEF Init, RegistryAgrees, FreshDefs, Registered
<1>4. Phase
  BY DEF Init, Phase, IdleLife, Starting, Stopping
<1>5. Generations /\ Covered
  BY DEF Init, Generations, Covered, AllLive, IdleLife
<1>. QED
  BY <1>2, <1>3, <1>4, <1>5 DEF IInv

\* A step of a job goroutine moves that goroutine and nothing else, and wakes
\* none that has ended.
LEMMA LoopStep ==
    ASSUME NEW l \in Loops, LoopProceeds(l) \/ Exit(l) \/ TimeOut(l)
    PROVE  \E to \in LoopStates : loop[l] # "none" /\ Goto(l, to)
BY DEF LoopProceeds, Begin, Tick, CallFn, FnReturns, Exit, TimeOut, Rest, LoopStates

\* startIntervalJob and startCronJob make the goroutines they are asked for.
LEMMA NewLoops ==
    ASSUME TypeOK, NEW new \in SUBSET Loops, StartLoops(new)
    PROVE  /\ loop' \in [Loops -> LoopStates]
           /\ AllLive' = AllLive \cup new
           /\ spawned' \subseteq Defs
           /\ spawned \subseteq spawned'
           /\ \A l \in new : l[1] \in Defs /\ l[2] = stopCh => l[1] \in spawned'
BY DEF TypeOK, StartLoops, AllLive, LoopStates

\* A goroutine's name from its parts.
LEMMA LoopName == \A d \in Defs, g \in Gens, c \in Creators : <<d, g, c>> \in Loops
BY DEF Loops

\* The goroutines of one startJobs.
LEMMA LoopNames ==
    \A S \in SUBSET Defs, g \in Gens :
        /\ S \X {g} \X {"startJobs"} \in SUBSET Loops
        /\ \A d \in S : <<d, g, "startJobs">> \in S \X {g} \X {"startJobs"}
        /\ \A l \in S \X {g} \X {"startJobs"} : l[1] \in S /\ l[2] = g /\ l[3] = "startJobs"
BY DEF Loops, Creators

\* The goroutine that a registration creates.
LEMMA LateLoop ==
    ASSUME TypeOK, NEW d \in Defs, LateStart(d)
    PROVE  /\ {<<d, pending[d], LateCreator(d)>>} \in SUBSET Loops
           /\ StartLoops({<<d, pending[d], LateCreator(d)>>})
<1>1. pending[d] \in Gens
  BY JobsAssumption DEF JobsAssumption, TypeOK, LateStart, Gens
<1>2. LateCreator(d) \in Creators
  BY DEF LateCreator, Creators
<1>. QED
  BY <1>1, <1>2, LoopName DEF LateStart

-----------------------------------------------------------------------------
\* Every step keeps the types.
LEMMA TypesPreserved ==
    ASSUME IInv, [Next]_vars
    PROVE  TypeOK'
<1>. USE JobsAssumption DEF JobsAssumption, IInv, TypeOK, instance, registry, Gens
<1>1. ASSUME NEW d \in Defs, NEW id \in Ids, NEW kind \in Kinds, Register(d, id, kind) PROVE TypeOK'
  <2>1. pending' \in [Defs -> 0..MaxGen]
    BY <1>1 DEF Register
  <2>2. def' \in [Defs -> [id : Ids \cup {NoId}, kind : JobKinds, paused : BOOLEAN, stopped : BOOLEAN]]
    <3>1. kind \in JobKinds
      OBVIOUS
    <3>2. def' = [x \in Defs |-> IF x = d THEN [def[d] EXCEPT !.id = id, !.kind = kind] ELSE def[x]]
      BY <1>1 DEF Register
    <3>3. [def[d] EXCEPT !.id = id, !.kind = kind] \in [id : Ids \cup {NoId}, kind : JobKinds, paused : BOOLEAN, stopped : BOOLEAN]
      BY <3>1
    <3>. QED
      BY <3>2, <3>3
  <2>. QED
    BY <1>1, <2>1, <2>2 DEF Register
<1>2. ASSUME NEW d \in Defs, LateStart(d) PROVE TypeOK'
  <2>1. {<<d, pending[d], LateCreator(d)>>} \in SUBSET Loops
    BY <1>2, LateLoop
  <2>2. loop' \in [Loops -> LoopStates] /\ spawned' \subseteq Defs
    BY <1>2, <2>1, NewLoops DEF LateStart
  <2>. QED
    BY <1>2, <2>2 DEF LateStart
<1>3. ASSUME NEW at \in LifeStates, NEW clear \in BOOLEAN, NEW restart \in BOOLEAN,
             Lock(at, clear, restart)
      PROVE  TypeOK'
  BY <1>3 DEF Lock
<1>4. ASSUME NEW m \in BOOLEAN, CasStarted(m) PROVE TypeOK'
  <2>1. life' \in [at : LifeStates, clear : BOOLEAN, restart : BOOLEAN, snap : SUBSET Defs]
    <3>1. life' = IdleLife \/ life' = [life EXCEPT !.at = "store"]
      BY <1>4, Zenon DEF CasStarted
    <3>2. IdleLife \in [at : LifeStates, clear : BOOLEAN, restart : BOOLEAN, snap : SUBSET Defs]
      BY DEF IdleLife, LifeStates
    <3>3. [life EXCEPT !.at = "store"]
              \in [at : LifeStates, clear : BOOLEAN, restart : BOOLEAN, snap : SUBSET Defs]
      BY DEF LifeStates
    <3>. QED
      BY <3>1, <3>2, <3>3
  <2>2. started' \in BOOLEAN
    BY <1>4, Zenon DEF CasStarted
  <2>. QED
    BY <1>4, <2>1, <2>2 DEF CasStarted
<1>5. ASSUME StoreChannel PROVE TypeOK'
  BY <1>5 DEF StoreChannel, LifeStates, Phase
<1>6. ASSUME Snapshot PROVE TypeOK'
  BY <1>6 DEF Snapshot, LifeStates
<1>7. ASSUME StartSnapshot PROVE TypeOK'
  <2>1. stopCh \in Gens
    BY <1>7 DEF StartSnapshot, Phase, Starting
  <2>2. life.snap \X {stopCh} \X {"startJobs"} \in SUBSET Loops
    BY <2>1, LoopNames
  <2>3. loop' \in [Loops -> LoopStates] /\ spawned' \subseteq Defs
    BY <1>7, <2>2, NewLoops DEF StartSnapshot
  <2>4. status' \in BOOLEAN
    BY <1>7, Zenon DEF StartSnapshot
  <2>5. life' \in [at : LifeStates, clear : BOOLEAN, restart : BOOLEAN, snap : SUBSET Defs]
    BY <1>7 DEF StartSnapshot, IdleLife, LifeStates
  <2>. QED
    BY <1>7, <2>3, <2>4, <2>5 DEF StartSnapshot
<1>8. ASSUME CasStopped PROVE TypeOK'
  <2>1. life' \in [at : LifeStates, clear : BOOLEAN, restart : BOOLEAN, snap : SUBSET Defs]
    BY <1>8 DEF CasStopped, LifeStates
  <2>2. started' \in BOOLEAN
    BY <1>8, Zenon DEF CasStopped
  <2>. QED
    BY <1>8, <2>1, <2>2 DEF CasStopped
<1>9. ASSUME CloseChannel PROVE TypeOK'
  BY <1>9 DEF CloseChannel, LifeStates, Phase
<1>10. ASSUME WaitLoops PROVE TypeOK'
  BY <1>10 DEF WaitLoops, LifeStates
<1>11. ASSUME ClearJobs PROVE TypeOK'
  <2>1. def' \in [Defs -> [id : Ids \cup {NoId}, kind : JobKinds, paused : BOOLEAN, stopped : BOOLEAN]]
    <3>1. \A d \in Defs : [def[d] EXCEPT !.stopped = TRUE] \in
              [id : Ids \cup {NoId}, kind : JobKinds, paused : BOOLEAN, stopped : BOOLEAN]
      OBVIOUS
    <3>. QED
      BY <1>11, <3>1 DEF ClearJobs
  <2>. QED
    BY <1>11, <2>1 DEF ClearJobs, LifeStates
<1>12. ASSUME StopReturns PROVE TypeOK'
  <2>1. life' \in [at : LifeStates, clear : BOOLEAN, restart : BOOLEAN, snap : SUBSET Defs]
    BY <1>12 DEF StopReturns, IdleLife, LifeStates
  <2>2. status' \in BOOLEAN
    BY <1>12, Zenon DEF StopReturns
  <2>. QED
    BY <1>12, <2>1, <2>2 DEF StopReturns
<1>13. ASSUME NEW id \in Ids, NEW v \in BOOLEAN, SetPaused(id, v) PROVE TypeOK'
  BY <1>13 DEF SetPaused
<1>14. ASSUME NEW id \in Ids, StopJob(id) PROVE TypeOK'
  BY <1>14 DEF StopJob
<1>15. ASSUME NEW l \in Loops, LoopProceeds(l) \/ Exit(l) \/ TimeOut(l) PROVE TypeOK'
  <2>1. PICK to \in LoopStates : Goto(l, to)
    BY <1>15, LoopStep
  <2>. QED
    BY <2>1 DEF Goto
<1>16. CASE UNCHANGED vars
  BY <1>16 DEF vars
<1>. QED
  BY <1>1, <1>2, <1>3, <1>4, <1>5, <1>6, <1>7, <1>8, <1>9, <1>10, <1>11, <1>12, <1>13,
     <1>14, <1>15, <1>16
  DEF Next, Lifecycle, StartJobs, RestartJobs, StopAllJobs, PauseJob, ResumeJob, LifeStates

-----------------------------------------------------------------------------
\* Registrations, StopJob and the clear change lists, controls and flags together.
LEMMA RegistryPreserved ==
    ASSUME IInv, [Next]_vars
    PROVE  RegistryAgrees' /\ FreshDefs'
<1>. USE JobsAssumption
     DEF JobsAssumption, IInv, TypeOK, instance, registry, RegistryAgrees, FreshDefs, Registered
<1>1. ASSUME UNCHANGED registry PROVE RegistryAgrees' /\ FreshDefs'
  BY <1>1
<1>2. ASSUME NEW d \in Defs, NEW id \in Ids, NEW kind \in Kinds, Register(d, id, kind)
      PROVE  RegistryAgrees' /\ FreshDefs'
  <2>1. /\ def[d].id = NoId /\ controls[id] = NoDef /\ d \notin lists
        /\ ~def[d].stopped
    BY <1>2 DEF Register
  <2>2. /\ def'[d].id = id /\ def'[d].stopped = def[d].stopped
        /\ \A x \in Defs : x # d => def'[x] = def[x]
    BY <1>2 DEF Register
  <2>3. /\ controls' = [controls EXCEPT ![id] = d]
        /\ lists' = lists \cup {d}
    BY <1>2 DEF Register
  <2>4. \A i \in Ids : controls[i] # d
    BY <2>1
  <2>. QED
    BY <2>1, <2>2, <2>3, <2>4
<1>3. ASSUME ClearJobs PROVE RegistryAgrees' /\ FreshDefs'
  <2>1. \A d \in Defs : def'[d].id = def[d].id
    BY <1>3 DEF ClearJobs
  <2>2. \A d \in Defs : def'[d].stopped <=> def[d].stopped \/ \E i \in Ids : controls[i] = d
    BY <1>3 DEF ClearJobs
  <2>3. lists' = {} /\ \A i \in Ids : controls'[i] = NoDef
    BY <1>3 DEF ClearJobs
  <2>. QED
    BY <2>1, <2>2, <2>3
<1>4. ASSUME NEW id \in Ids, NEW v \in BOOLEAN, SetPaused(id, v)
      PROVE  RegistryAgrees' /\ FreshDefs'
  <2>1. \A d \in Defs : def'[d].id = def[d].id /\ def'[d].stopped = def[d].stopped
    BY <1>4 DEF SetPaused
  <2>2. UNCHANGED <<controls, lists>>
    BY <1>4 DEF SetPaused
  <2>. QED
    BY <2>1, <2>2
<1>5. ASSUME NEW id \in Ids, StopJob(id) PROVE RegistryAgrees' /\ FreshDefs'
  <2>1. controls[id] \in Defs /\ def[controls[id]].id = id
    BY <1>5 DEF StopJob
  <2>2. /\ \A d \in Defs : def'[d].id = def[d].id
        /\ def'[controls[id]].stopped
        /\ \A d \in Defs : d # controls[id] => def'[d].stopped = def[d].stopped
    BY <1>5, <2>1 DEF StopJob
  <2>3. /\ controls' = [controls EXCEPT ![id] = NoDef]
        /\ lists' = {d \in lists : def[d].id # id}
    BY <1>5 DEF StopJob
  <2>. QED
    BY <2>1, <2>2, <2>3
<1>6. ASSUME \/ \E d \in Defs : LateStart(d)
             \/ StartJobs \/ RestartJobs \/ \E b \in BOOLEAN : StopAllJobs(b)
             \/ \E m \in BOOLEAN : CasStarted(m)
             \/ StoreChannel \/ Snapshot \/ StartSnapshot
             \/ CasStopped \/ CloseChannel \/ WaitLoops \/ StopReturns
      PROVE  UNCHANGED registry
  BY <1>6 DEF LateStart, StartJobs, RestartJobs, StopAllJobs, Lock, CasStarted, StoreChannel,
              Snapshot, StartSnapshot, CasStopped, CloseChannel, WaitLoops, StopReturns
<1>7. ASSUME NEW l \in Loops, LoopProceeds(l) \/ Exit(l) \/ TimeOut(l) PROVE UNCHANGED registry
  BY <1>7, LoopStep DEF Goto
<1>8. CASE UNCHANGED vars
  BY <1>8 DEF vars
<1>. QED
  BY <1>1, <1>2, <1>3, <1>4, <1>5, <1>6, <1>7, <1>8 DEF Next, Lifecycle, PauseJob, ResumeJob

\* lifecycleMu makes the flags and the channel follow the call that holds it.
LEMMA PhasePreserved ==
    ASSUME IInv, [Next]_vars
    PROVE  Phase'
<1>. USE JobsAssumption
     DEF JobsAssumption, IInv, TypeOK, instance, registry, Phase, Starting, Stopping, Gens, LifeStates
<1>1. ASSUME UNCHANGED <<instance, life>> PROVE Phase'
  BY <1>1
<1>2. ASSUME StartJobs \/ RestartJobs \/ \E b \in BOOLEAN : StopAllJobs(b) PROVE Phase'
  <2>1. UNCHANGED instance /\ life.at = "free"
    BY <1>2 DEF StartJobs, RestartJobs, StopAllJobs, Lock
  <2>2. \/ life'.at = "start" /\ ~life'.restart /\ stopCh < MaxGen
        \/ life'.at = "stop" /\ (life'.restart => stopCh < MaxGen)
    BY <1>2 DEF StartJobs, RestartJobs, StopAllJobs, Lock
  <2>. QED
    BY <2>1, <2>2
<1>3. ASSUME NEW m \in BOOLEAN, CasStarted(m) PROVE Phase'
  <2>1. CASE m \/ started
    BY <1>3, <2>1 DEF CasStarted, IdleLife
  <2>2. CASE ~(m \/ started)
    BY <1>3, <2>2 DEF CasStarted
  <2>. QED
    BY <2>1, <2>2
<1>4. ASSUME StoreChannel PROVE Phase'
  <2>1. /\ life.at = "store" /\ life'.at = "snapshot" /\ life'.restart = life.restart
        /\ stopCh' = stopCh + 1 /\ UNCHANGED <<started, closed, status>>
    BY <1>4 DEF StoreChannel
  <2>2. stopCh + 1 \in 1..MaxGen /\ stopCh + 1 \notin closed /\ closed \subseteq 1..stopCh + 1
    BY <2>1
  <2>3. ~life.restart
    BY <2>1
  <2>. QED
    BY <2>1, <2>2, <2>3
<1>5. ASSUME Snapshot PROVE Phase'
  BY <1>5 DEF Snapshot
<1>6. ASSUME StartSnapshot PROVE Phase'
  BY <1>6 DEF StartSnapshot, IdleLife
<1>7. ASSUME CasStopped PROVE Phase'
  BY <1>7 DEF CasStopped
<1>8. ASSUME CloseChannel PROVE Phase'
  BY <1>8 DEF CloseChannel
<1>9. ASSUME WaitLoops PROVE Phase'
  BY <1>9 DEF WaitLoops
<1>10. ASSUME ClearJobs PROVE Phase'
  BY <1>10 DEF ClearJobs
<1>11. ASSUME StopReturns PROVE Phase'
  BY <1>11 DEF StopReturns, IdleLife
<1>12. ASSUME \/ \E d \in Defs, id \in Ids, kind \in Kinds : Register(d, id, kind)
              \/ \E d \in Defs : LateStart(d)
              \/ \E id \in Ids : PauseJob(id) \/ ResumeJob(id) \/ StopJob(id)
       PROVE  UNCHANGED <<instance, life>>
  BY <1>12 DEF Register, LateStart, PauseJob, ResumeJob, SetPaused, StopJob
<1>13. ASSUME NEW l \in Loops, LoopProceeds(l) \/ Exit(l) \/ TimeOut(l)
       PROVE  UNCHANGED <<instance, life>>
  BY <1>13, LoopStep DEF Goto
<1>14. CASE UNCHANGED vars
  BY <1>14 DEF vars
<1>. QED
  BY <1>1, <1>2, <1>3, <1>4, <1>5, <1>6, <1>7, <1>8, <1>9, <1>10, <1>11, <1>12, <1>13, <1>14
  DEF Next, Lifecycle

-----------------------------------------------------------------------------
\* stop waits for every goroutine before the next channel is made.
LEMMA GenerationsPreserved ==
    ASSUME IInv, [Next]_vars
    PROVE  Generations'
<1>. USE JobsAssumption
     DEF JobsAssumption, IInv, TypeOK, instance, registry, Generations, Phase, Starting, Stopping, Gens
<1>1. ASSUME UNCHANGED <<instance, life, pending>>, AllLive' \subseteq AllLive PROVE Generations'
  BY <1>1
<1>2. ASSUME StartJobs \/ RestartJobs \/ \E b \in BOOLEAN : StopAllJobs(b) PROVE Generations'
  <2>1. /\ UNCHANGED <<instance, pending>> /\ AllLive' = AllLive
        /\ life.at = "free" /\ life'.at \in {"start", "stop"}
    BY <1>2 DEF StartJobs, RestartJobs, StopAllJobs, Lock, AllLive
  <2>. QED
    BY <2>1
<1>3. ASSUME NEW m \in BOOLEAN, CasStarted(m) PROVE Generations'
  <2>1. AllLive' = AllLive /\ UNCHANGED <<stopCh, closed, pending>> /\ life.at = "start"
    BY <1>3 DEF CasStarted, AllLive
  <2>2. \/ life' = IdleLife /\ started' = started
        \/ life' = [life EXCEPT !.at = "store"] /\ ~started
    BY <1>3, Zenon DEF CasStarted
  <2>3. (life'.at = "free" /\ started' = started) \/ ~started
    BY <2>2 DEF IdleLife
  <2>. QED
    BY <2>1, <2>3
<1>4. ASSUME StoreChannel \/ Snapshot PROVE Generations'
  <2>1. /\ AllLive' = AllLive /\ UNCHANGED <<started, closed, pending>>
        /\ \/ life.at = "store"
           \/ life.at = "snapshot" /\ life'.at = "spawn" /\ stopCh' = stopCh
    BY <1>4 DEF StoreChannel, Snapshot, AllLive
  <2>. QED
    BY <2>1
<1>5. ASSUME StartSnapshot PROVE Generations'
  <2>1. stopCh \in Gens /\ started /\ life.at = "spawn"
    BY <1>5 DEF StartSnapshot
  <2>2. life'.at = "free" /\ UNCHANGED <<started, stopCh, closed, pending>>
    BY <1>5 DEF StartSnapshot, IdleLife
  <2>3. life.snap \X {stopCh} \X {"startJobs"} \in SUBSET Loops
    BY <2>1, LoopNames
  <2>4. AllLive' = AllLive \cup (life.snap \X {stopCh} \X {"startJobs"})
    BY <1>5, <2>3, NewLoops DEF StartSnapshot
  <2>5. \A l \in life.snap \X {stopCh} \X {"startJobs"} : l[2] = stopCh
    BY <2>1, LoopNames
  <2>. QED
    BY <2>1, <2>2, <2>4, <2>5
<1>6. ASSUME CasStopped \/ CloseChannel PROVE Generations'
  <2>1. AllLive' = AllLive /\ UNCHANGED <<stopCh, pending>>
    BY <1>6 DEF CasStopped, CloseChannel, AllLive
  <2>2. \/ life.at = "stop" /\ started /\ life'.at = "close" /\ closed' = closed
        \/ life.at = "stop" /\ ~started /\ closed' = closed
        \/ life.at = "close" /\ life'.at = "wait" /\ closed' = closed \cup {stopCh}
    BY <1>6 DEF CasStopped, CloseChannel
  <2>. QED
    BY <2>1, <2>2
<1>7. ASSUME WaitLoops PROVE Generations'
  <2>1. /\ AllLive = {} /\ AllLive' = AllLive
        /\ UNCHANGED <<instance, pending>> /\ life.at = "wait"
    BY <1>7 DEF WaitLoops, WaitGroupDone, AllLive
  <2>. QED
    BY <2>1
<1>8. ASSUME ClearJobs \/ StopReturns PROVE Generations'
  <2>1. /\ AllLive' = AllLive /\ life.at \in {"clear", "stopped"}
        /\ UNCHANGED <<closed, pending>>
    BY <1>8 DEF ClearJobs, StopReturns, AllLive
  <2>. QED
    BY <2>1
<1>9. ASSUME NEW d \in Defs, LateStart(d) PROVE Generations'
  <2>. DEFINE l0 == <<d, pending[d], LateCreator(d)>>
  <2>1. AllLive' = AllLive \cup {l0}
    BY <1>9, LateLoop, NewLoops
  <2>2. UNCHANGED <<instance, life>> /\ pending' = [pending EXCEPT ![d] = 0] /\ pending[d] # 0
    BY <1>9 DEF LateStart
  <2>3. l0[2] = pending[d] /\ (l0[3] # "overtaken" => pending[d] \notin closed)
    BY DEF LateCreator
  <2>4. l0[3] # "overtaken" =>
            /\ l0[2] = stopCh
            /\ (started /\ life.at # "store") \/ life.at = "close"
    BY <2>2, <2>3
  <2>. QED
    BY <2>1, <2>2, <2>4
<1>10. ASSUME NEW d \in Defs, NEW id \in Ids, NEW kind \in Kinds, Register(d, id, kind)
       PROVE  Generations'
  <2>1. /\ UNCHANGED <<instance, life>> /\ AllLive' = AllLive
        /\ pending' = [pending EXCEPT ![d] = IF AlreadyStarted THEN stopCh ELSE 0]
    BY <1>10 DEF Register, AllLive
  <2>2. AlreadyStarted => \/ stopCh \in closed
                          \/ started /\ life.at # "store"
    BY DEF AlreadyStarted
  <2>. QED
    BY <2>1, <2>2
<1>11. ASSUME \E id \in Ids : PauseJob(id) \/ ResumeJob(id) \/ StopJob(id)
       PROVE  Generations'
  <2>1. UNCHANGED <<instance, life, pending, loop>>
    BY <1>11 DEF PauseJob, ResumeJob, SetPaused, StopJob
  <2>. QED
    BY <1>1, <2>1 DEF AllLive
<1>12. ASSUME NEW l \in Loops, LoopProceeds(l) \/ Exit(l) \/ TimeOut(l) PROVE Generations'
  <2>1. PICK to \in LoopStates : loop[l] # "none" /\ Goto(l, to)
    BY <1>12, LoopStep
  <2>2. AllLive' \subseteq AllLive
    BY <2>1 DEF Goto, AllLive
  <2>. QED
    BY <1>1, <2>1, <2>2 DEF Goto
<1>13. CASE UNCHANGED vars
  BY <1>1, <1>13 DEF vars, AllLive
<1>. QED
  BY <1>2, <1>3, <1>4, <1>5, <1>6, <1>7, <1>8, <1>9, <1>10, <1>11, <1>12, <1>13
  DEF Next, Lifecycle

\* A registration is in the list before startJobs copies it, or has seen the
\* new channel: it is never missed by both.
LEMMA CoveredPreserved ==
    ASSUME IInv, [Next]_vars
    PROVE  Covered'
<1>. USE JobsAssumption
     DEF JobsAssumption, IInv, TypeOK, instance, registry, Covered, Phase, Starting, Stopping, Gens
<1>1. ASSUME UNCHANGED <<started, stopCh, life, pending, spawned>>, lists' \subseteq lists
      PROVE  Covered'
  BY <1>1
<1>2. ASSUME StartJobs \/ RestartJobs \/ \E b \in BOOLEAN : StopAllJobs(b) PROVE Covered'
  <2>1. /\ UNCHANGED <<started, stopCh, lists, pending, spawned>>
        /\ life.at = "free" /\ life'.at \in {"start", "stop"}
    BY <1>2 DEF StartJobs, RestartJobs, StopAllJobs, Lock
  <2>. QED
    BY <2>1
<1>3. ASSUME NEW m \in BOOLEAN, CasStarted(m) PROVE Covered'
  <2>1. UNCHANGED <<stopCh, lists, pending, spawned>> /\ life.at = "start"
    BY <1>3 DEF CasStarted
  <2>2. \/ life' = IdleLife /\ started' = started
        \/ life' = [life EXCEPT !.at = "store"]
    BY <1>3, Zenon DEF CasStarted
  <2>3. \/ life'.at = "free" /\ started' = started
        \/ life'.at = "store"
    BY <2>2 DEF IdleLife
  <2>. QED
    BY <2>1, <2>3
<1>4. ASSUME StoreChannel PROVE Covered'
  BY <1>4 DEF StoreChannel
<1>5. ASSUME Snapshot PROVE Covered'
  BY <1>5 DEF Snapshot
<1>6. ASSUME StartSnapshot PROVE Covered'
  <2>1. stopCh \in Gens /\ life.at = "spawn"
    BY <1>6 DEF StartSnapshot
  <2>2. life'.at = "free" /\ UNCHANGED <<started, stopCh, lists, pending>>
    BY <1>6 DEF StartSnapshot, IdleLife
  <2>3. life.snap \X {stopCh} \X {"startJobs"} \in SUBSET Loops
    BY <2>1, LoopNames
  <2>4. /\ spawned \subseteq spawned'
        /\ \A l \in life.snap \X {stopCh} \X {"startJobs"} :
              l[1] \in Defs /\ l[2] = stopCh => l[1] \in spawned'
    BY <1>6, <2>3, NewLoops DEF StartSnapshot
  <2>5. \A d \in life.snap : d \in spawned'
    <3>. TAKE d \in life.snap
    <3>1. <<d, stopCh, "startJobs">> \in life.snap \X {stopCh} \X {"startJobs"}
      BY <2>1, LoopNames
    <3>2. d \in Defs
      OBVIOUS
    <3>. QED
      BY <2>4, <3>1, <3>2
  <2>. QED
    BY <2>1, <2>2, <2>4, <2>5
<1>7. ASSUME CasStopped \/ CloseChannel \/ WaitLoops \/ ClearJobs PROVE Covered'
  <2>1. ~started' /\ life'.at # "spawn"
    BY <1>7 DEF CasStopped, CloseChannel, WaitLoops, ClearJobs
  <2>. QED
    BY <2>1
<1>8. ASSUME StopReturns PROVE Covered'
  <2>1. ~started' /\ life'.at # "spawn"
    BY <1>8 DEF StopReturns, IdleLife
  <2>. QED
    BY <2>1
<1>9. ASSUME NEW d \in Defs, LateStart(d) PROVE Covered'
  <2>. DEFINE l0 == <<d, pending[d], LateCreator(d)>>
  <2>1. l0[1] = d /\ l0[2] = pending[d]
    OBVIOUS
  <2>2. /\ spawned \subseteq spawned'
        /\ pending[d] = stopCh => d \in spawned'
    BY <1>9, <2>1, LateLoop, NewLoops
  <2>3. /\ UNCHANGED <<started, stopCh, lists, life>>
        /\ pending' = [pending EXCEPT ![d] = 0]
    BY <1>9 DEF LateStart
  <2>. QED
    BY <2>2, <2>3
<1>10. ASSUME NEW d \in Defs, NEW id \in Ids, NEW kind \in Kinds, Register(d, id, kind)
       PROVE  Covered'
  <2>1. /\ UNCHANGED <<started, stopCh, life, spawned>> /\ lists' = lists \cup {d}
        /\ pending' = [pending EXCEPT ![d] = IF AlreadyStarted THEN stopCh ELSE 0]
    BY <1>10 DEF Register
  <2>2. d \notin lists
    BY <1>10 DEF Register, RegistryAgrees, Registered
  <2>3. started /\ life.at # "store" => pending'[d] = stopCh
    BY <2>1 DEF AlreadyStarted
  <2>4. \A x \in lists : pending'[x] = pending[x]
    BY <2>1, <2>2
  <2>. QED
    BY <2>1, <2>3, <2>4
<1>11. ASSUME NEW id \in Ids, PauseJob(id) \/ ResumeJob(id) \/ StopJob(id) PROVE Covered'
  <2>1. UNCHANGED <<started, stopCh, life, pending, spawned>> /\ lists' \subseteq lists
    BY <1>11 DEF PauseJob, ResumeJob, SetPaused, StopJob
  <2>. QED
    BY <1>1, <2>1
<1>12. ASSUME NEW l \in Loops, LoopProceeds(l) \/ Exit(l) \/ TimeOut(l) PROVE Covered'
  BY <1>1, <1>12, LoopStep DEF Goto
<1>13. CASE UNCHANGED vars
  BY <1>1, <1>13 DEF vars
<1>. QED
  BY <1>2, <1>3, <1>4, <1>5, <1>6, <1>7, <1>8, <1>9, <1>10, <1>11, <1>12, <1>13 DEF Next, Lifecycle

-----------------------------------------------------------------------------
\* IInv is an invariant of the scheduler.
LEMMA Invariance == Spec => []IInv
<1>1. ASSUME IInv, [Next]_vars PROVE IInv'
  BY <1>1, TypesPreserved, RegistryPreserved, PhasePreserved, GenerationsPreserved,
     CoveredPreserved
  DEF IInv
<1>. QED
  BY <1>1, InitIInv, PTL DEF Spec

\* All variables of the scheduler keep their types.
THEOREM TypeCorrectness == Spec => []TypeOK
BY Invariance, PTL DEF IInv

\* Lists, control map and control flags of jobs.go agree at every instant.
THEOREM RegistryConsistent == Spec => []RegistryAgrees
BY Invariance, PTL DEF IInv

\* A registration that races a start or a restart is never missed by both.
THEOREM NoRegistrationMissed == Spec => []NoJobForgotten
<1>1. IInv => NoJobForgotten
  BY DEF IInv, Covered, NoJobForgotten, Starting
<1>. QED
  BY <1>1, Invariance, PTL

\* A stop that has returned left no goroutine alive but those of registrations
\* it overtook, which had not created them when it closed the channel.
THEOREM StopLeavesNothing == Spec => []StopQuiesces
<1>1. IInv => StopQuiesces
  <2>. SUFFICES ASSUME IInv, life.at = "free"
                PROVE  /\ status = started
                       /\ started => stopCh # 0 /\ stopCh \notin closed
                       /\ \A l \in AllLive : l[3] = "overtaken" \/ (started /\ l[2] = stopCh)
    BY DEF StopQuiesces
  <2>1. status = started
    BY DEF IInv, Phase
  <2>2. started => stopCh # 0 /\ stopCh \notin closed
    BY DEF IInv, Phase, Gens
  <2>3. \A l \in AllLive : l[3] = "overtaken" \/ (started /\ l[2] = stopCh)
    BY DEF IInv, Generations
  <2>. QED
    BY <2>1, <2>2, <2>3
<1>. QED
  BY <1>1, Invariance, PTL

\* stop never closes a nil channel or one that is closed already.
THEOREM ChannelsClosedOnce == Spec => []ClosesOpenChannel
<1>1. IInv => ClosesOpenChannel
  BY DEF IInv, Phase, ClosesOpenChannel
<1>. QED
  BY <1>1, Invariance, PTL

\* Once a job is stopped or cleared, no goroutine is let through to its function
\* any more, and only calls let through before that still begin.
THEOREM StoppedJobsStayStopped == Spec => NeverResurrected
<1>. DEFINE Kept(l) == /\ loop'[l] = "admitted" => loop[l] = "admitted"
                       /\ loop'[l] = "running" => loop[l] \in {"admitted", "running"}
            Allowed == \A l \in Loops : def[l[1]].stopped => Kept(l)
<1>1. ASSUME IInv, [Next]_vars PROVE [Allowed]_vars
  <2>. SUFFICES ASSUME NEW l \in Loops, def[l[1]].stopped
                PROVE  Kept(l)
    OBVIOUS
  <2>. USE DEF IInv, TypeOK
  <2>1. ASSUME NEW k \in Loops, LoopProceeds(k) \/ Exit(k) \/ TimeOut(k)
        PROVE  Kept(l)
    <3>1. CASE k # l
      <4>1. PICK to \in LoopStates : Goto(k, to)
        BY <2>1, LoopStep
      <4>. QED
        BY <3>1, <4>1 DEF Goto
    <3>2. CASE k = l
      <4>1. ~CanRun(k[1]) /\ Rest(k[1]) \in {"top", "select"}
        BY <3>2 DEF CanRun, Rest
      <4>2. \A at \in LoopStates : Goto(k, at) => loop'[k] = at
        BY <1>1 DEF Goto
      <4>3. CASE Begin(k) \/ Tick(k) \/ FnReturns(k) \/ Exit(k) \/ TimeOut(k)
        <5>1. loop'[k] \in {"none", "top", "select"}
          BY <4>1, <4>2, <4>3 DEF Begin, Tick, FnReturns, Exit, TimeOut, LoopStates
        <5>. QED
          BY <3>2, <5>1
      <4>4. CASE CallFn(k)
        BY <3>2, <4>2, <4>4 DEF CallFn, LoopStates
      <4>. QED
        BY <2>1, <4>3, <4>4 DEF LoopProceeds
    <3>. QED
      BY <3>1, <3>2
  <2>2. ASSUME NEW d \in Defs, LateStart(d) PROVE Kept(l)
    BY <2>2 DEF LateStart, StartLoops
  <2>3. ASSUME StartSnapshot PROVE Kept(l)
    BY <2>3 DEF StartSnapshot, StartLoops
  <2>4. ASSUME \/ \E d \in Defs, id \in Ids, kind \in Kinds : Register(d, id, kind)
               \/ StartJobs \/ RestartJobs \/ \E b \in BOOLEAN : StopAllJobs(b)
               \/ \E m \in BOOLEAN : CasStarted(m)
               \/ StoreChannel \/ Snapshot \/ CasStopped \/ CloseChannel \/ WaitLoops
               \/ ClearJobs \/ StopReturns
               \/ \E id \in Ids : PauseJob(id) \/ ResumeJob(id) \/ StopJob(id)
               \/ UNCHANGED vars
        PROVE  Kept(l)
    <3>1. UNCHANGED loop
      BY <2>4 DEF Register, StartJobs, RestartJobs, StopAllJobs, Lock, CasStarted, StoreChannel,
                  Snapshot, CasStopped, CloseChannel, WaitLoops, ClearJobs, StopReturns,
                  PauseJob, ResumeJob, SetPaused, StopJob, vars
    <3>. QED
      BY <3>1
  <2>. QED
    BY <1>1, <2>1, <2>2, <2>3, <2>4 DEF Next, Lifecycle
<1>. QED
  BY <1>1, Invariance, PTL DEF Spec, NeverResurrected
=============================================================================
