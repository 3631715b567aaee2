-------------------------------- MODULE Jobs --------------------------------
(***************************************************************************)
(* The package-level scheduler of tools/jobs/jobs.go: registration of      *)
(* interval and cron jobs, the lifecycle calls StartJobs, StopAllJobs and  *)
(* RestartJobs, the per-job calls PauseJob, ResumeJob and StopJob, and one *)
(* goroutine per started job.                                              *)
(*                                                                         *)
(* Three kinds of synchronisation overlap here and the actions are cut     *)
(* where they meet: lifecycleMu serialises lifecycle calls but not         *)
(* registrations; jobs.mux guards the job lists and the controls; started  *)
(* and stopCh are atomics that registrations read under mux and startJobs  *)
(* and stop write without it.  One scheduler instance, globalJobs, is      *)
(* modelled: nothing outside the package's tests creates another.          *)
(*                                                                         *)
(* Every start makes a new stop channel; channels are numbered, and the    *)
(* number is the generation of the goroutines that listen to it.           *)
(***************************************************************************)
EXTENDS Integers

CONSTANTS
    Ids,       \* job ids
    Defs,      \* job definitions, each with its *jobControl
    Kinds,     \* the kinds of job that are registered, out of JobKinds
    MaxGen,    \* bound: how many stop channels startJobs creates
    NoDef,     \* nil *jobControl
    NoId       \* the id of a definition that is not registered yet

(* An interval job without and with a timeout, a cron job that runs daily and
   one that repeats at an interval once its trigger has aligned it. *)
JobKinds == {"interval", "timed", "daily", "aligned"}

ASSUME JobsAssumption ==
    /\ Kinds \subseteq JobKinds
    /\ MaxGen \in Nat
    /\ NoDef \notin Defs
    /\ NoId \notin Ids

VARIABLES
    started,   \* jobs.started
    stopCh,    \* jobs.stopCh: the generation stored last, 0 when none
    closed,    \* generations whose stop channel is closed
    controls,  \* jobs.controls: id -> definition
    lists,     \* definitions in intervalJobs and cronJobs
    status,    \* checkJobsStop
    def,       \* the definitions and their controls
    pending,   \* the generation a registration is about to start its job in
    life,      \* the lifecycle call that holds lifecycleMu
    loop,      \* control state of the job goroutines
    spawned    \* history: definitions with a goroutine created for stopCh

vars == <<started, stopCh, closed, controls, lists, status, def, pending, life,
          loop, spawned>>
instance == <<started, stopCh, closed, status>>
registry == <<controls, lists, def>>

Gens == 1..MaxGen

(* A goroutine is named by its definition, its generation and who created it:
   startJobs, the registration itself ("late"), or a registration that a stop
   has overtaken, on a channel that is closed already.  Each creates it once. *)
Creators == {"startJobs", "late", "overtaken"}
Loops == Defs \X Gens \X Creators
LoopStates == {"none", "top", "select", "admitted", "running"}
LifeStates == {"free", "start", "store", "snapshot", "spawn", "stop", "close",
               "wait", "clear", "stopped"}

IdleLife == [at |-> "free", clear |-> FALSE, restart |-> FALSE, snap |-> {}]

TypeOK ==
    /\ started \in BOOLEAN
    /\ stopCh \in 0..MaxGen
    /\ closed \subseteq Gens
    /\ controls \in [Ids -> Defs \cup {NoDef}]
    /\ lists \subseteq Defs
    /\ status \in BOOLEAN
    /\ def \in [Defs -> [id : Ids \cup {NoId}, kind : JobKinds,
                         paused : BOOLEAN, stopped : BOOLEAN]]
    /\ pending \in [Defs -> 0..MaxGen]
    /\ life \in [at : LifeStates, clear : BOOLEAN, restart : BOOLEAN,
                 snap : SUBSET Defs]
    /\ loop \in [Loops -> LoopStates]
    /\ spawned \subseteq Defs

Init ==
    /\ started = FALSE
    /\ stopCh = 0
    /\ closed = {}
    /\ status = FALSE
    /\ controls = [i \in Ids |-> NoDef]
    /\ lists = {}
    /\ def = [d \in Defs |-> [id |-> NoId, kind |-> "interval",
                              paused |-> FALSE, stopped |-> FALSE]]
    /\ pending = [d \in Defs |-> 0]
    /\ life = IdleLife
    /\ loop = [l \in Loops |-> "none"]
    /\ spawned = {}

Live(d) == {l \in Loops : l[1] = d /\ loop[l] # "none"}
AllLive == {l \in Loops : loop[l] # "none"}

\* startIntervalJob, startCronJob: a goroutine for each of new.
StartLoops(new) ==
    /\ loop' = [l \in Loops |-> IF l \in new THEN "top" ELSE loop[l]]
    /\ spawned' = spawned \cup {d \in Defs : \E l \in new :
                                       l[1] = d /\ l[2] = stopCh}

-----------------------------------------------------------------------------
(* Registration: registerIntervalJob and registerCronJob. *)

\* A bug: ask the status flag, which startJobs sets last.
AlreadyStartedByStatus == status /\ stopCh # 0

\* j.started.Load() and a stop channel that is not nil.
AlreadyStarted == started /\ stopCh # 0

(* The critical section of mux.  A taken id is refused and nothing changes.
   When the instance is started the caller leaves with the channel it read and
   starts the goroutine outside the lock. *)
Register(d, id, kind) ==
    /\ def[d].id = NoId
    /\ controls[id] = NoDef
    /\ controls' = [controls EXCEPT ![id] = d]
    /\ lists' = lists \cup {d}
    /\ def' = [def EXCEPT ![d].id = id, ![d].kind = kind]
    /\ pending' = [pending EXCEPT ![d] = IF AlreadyStarted THEN stopCh ELSE 0]
    /\ UNCHANGED <<instance, life, loop, spawned>>

LateCreator(d) == IF pending[d] \in closed THEN "overtaken" ELSE "late"

LateStart(d) ==
    /\ pending[d] # 0
    /\ StartLoops({<<d, pending[d], LateCreator(d)>>})
    /\ pending' = [pending EXCEPT ![d] = 0]
    /\ UNCHANGED <<instance, registry, life>>

-----------------------------------------------------------------------------
(* The lifecycle calls, one at a time: StartJobs, RestartJobs, StopAllJobs.  *)

Lock(at, clear, restart) ==
    /\ life.at = "free"
    /\ life' = [at |-> at, clear |-> clear, restart |-> restart, snap |-> {}]
    /\ UNCHANGED <<instance, registry, pending, loop, spawned>>

StartJobs == stopCh < MaxGen /\ Lock("start", FALSE, FALSE)
RestartJobs == stopCh < MaxGen /\ Lock("stop", FALSE, TRUE)
StopAllJobs(clearJobs) == Lock("stop", clearJobs, FALSE)

\* startJobs: server.modeTest is read at every start; then the swap of started.
CasStarted(modeTest) ==
    /\ life.at = "start"
    /\ IF modeTest \/ started
       THEN life' = IdleLife /\ UNCHANGED started
       ELSE life' = [life EXCEPT !.at = "store"] /\ started' = TRUE
    /\ UNCHANGED <<stopCh, closed, status, registry, pending, loop, spawned>>

StoreChannel ==
    /\ life.at = "store"
    /\ stopCh' = stopCh + 1
    /\ spawned' = {}
    /\ life' = [life EXCEPT !.at = "snapshot"]
    /\ UNCHANGED <<started, closed, status, registry, pending, loop>>

Snapshot ==
    /\ life.at = "snapshot"
    /\ life' = [life EXCEPT !.at = "spawn", !.snap = lists]
    /\ UNCHANGED <<instance, registry, pending, loop, spawned>>

StartSnapshot ==
    /\ life.at = "spawn"
    /\ StartLoops(life.snap \X {stopCh} \X {"startJobs"})
    /\ status' = TRUE
    /\ life' = IdleLife
    /\ UNCHANGED <<started, stopCh, closed, registry, pending>>

\* A bug: a plain store where the swap is, so a second stop goes on.
CasStoppedUnchecked ==
    /\ life.at = "stop"
    /\ started' = FALSE
    /\ life' = [life EXCEPT !.at = "close"]
    /\ UNCHANGED <<stopCh, closed, status, registry, pending, loop, spawned>>

\* stop: a scheduler that is not started is neither closed nor waited for.
CasStopped ==
    /\ life.at = "stop"
    /\ started' = FALSE
    /\ life' = [life EXCEPT !.at = IF started THEN "close"
                                   ELSE IF life.clear THEN "clear"
                                   ELSE "stopped"]
    /\ UNCHANGED <<stopCh, closed, status, registry, pending, loop, spawned>>

CloseChannel ==
    /\ life.at = "close"
    /\ closed' = closed \cup {stopCh}
    /\ life' = [life EXCEPT !.at = "wait"]
    /\ UNCHANGED <<started, stopCh, status, registry, pending, loop, spawned>>

\* A bug: no j.wg.Wait().
WaitGroupDoneAlways == TRUE

WaitGroupDone == AllLive = {}

WaitLoops ==
    /\ life.at = "wait"
    /\ WaitGroupDone
    /\ life' = [life EXCEPT !.at = IF life.clear THEN "clear" ELSE "stopped"]
    /\ UNCHANGED <<instance, registry, pending, loop, spawned>>

\* A bug: the definitions are forgotten but their controls stay usable.
ClearJobsKeepingControls ==
    /\ life.at = "clear"
    /\ lists' = {}
    /\ controls' = [i \in Ids |-> NoDef]
    /\ life' = [life EXCEPT !.at = "stopped"]
    /\ UNCHANGED <<instance, def, pending, loop, spawned>>

\* stopAndClear, after stop: every control in the map is stopped.
ClearJobs ==
    /\ life.at = "clear"
    /\ def' = [d \in Defs |->
                  IF \E i \in Ids : controls[i] = d
                  THEN [def[d] EXCEPT !.stopped = TRUE] ELSE def[d]]
    /\ lists' = {}
    /\ controls' = [i \in Ids |-> NoDef]
    /\ life' = [life EXCEPT !.at = "stopped"]
    /\ UNCHANGED <<instance, pending, loop, spawned>>

\* stopAllJobs clears the status; RestartJobs goes on to startJobs.
StopReturns ==
    /\ life.at = "stopped"
    /\ status' = FALSE
    /\ life' = IF life.restart THEN [IdleLife EXCEPT !.at = "start"]
               ELSE IdleLife
    /\ UNCHANGED <<started, stopCh, closed, registry, pending, loop, spawned>>

Lifecycle ==
    \/ \E modeTest \in BOOLEAN : CasStarted(modeTest)
    \/ StoreChannel \/ Snapshot \/ StartSnapshot
    \/ CasStopped \/ CloseChannel \/ WaitLoops \/ ClearJobs \/ StopReturns

-----------------------------------------------------------------------------
(* The calls on one job.  An unknown id is refused and nothing changes. *)

SetPaused(id, value) ==
    /\ controls[id] # NoDef
    /\ ~def[controls[id]].stopped
    /\ def' = [def EXCEPT ![controls[id]].paused = value]
    /\ UNCHANGED <<instance, controls, lists, pending, life, loop, spawned>>

PauseJob(id) == SetPaused(id, TRUE)
ResumeJob(id) == SetPaused(id, FALSE)

StopJob(id) ==
    /\ controls[id] # NoDef
    /\ controls' = [controls EXCEPT ![id] = NoDef]
    /\ lists' = {d \in lists : def[d].id # id}
    /\ def' = [def EXCEPT ![controls[id]].stopped = TRUE]
    /\ UNCHANGED <<instance, pending, life, loop, spawned>>

-----------------------------------------------------------------------------
(* A job goroutine. *)

CanRun(d) == ~def[d].stopped /\ ~def[d].paused

Goto(l, to) ==
    /\ loop' = [loop EXCEPT ![l] = to]
    /\ UNCHANGED <<instance, registry, pending, life, spawned>>

\* Where a goroutine waits next: a daily cron job computes its next delay.
Rest(d) == IF def[d].kind = "daily" THEN "top" ELSE "select"

\* A bug: the immediate run does not ask the control.
BeginUnchecked(l) ==
    /\ loop[l] = "top"
    /\ \/ def[l[1]].kind \in {"interval", "timed"} /\ Goto(l, "admitted")
       \/ def[l[1]].kind \in {"daily", "aligned"}
             /\ (Goto(l, "select") \/ Goto(l, "none"))

(* An interval job runs once at once, if canRun lets it.  A cron job computes
   the delay to its trigger and ends when the trigger has no future run. *)
Begin(l) ==
    /\ loop[l] = "top"
    /\ \/ /\ def[l[1]].kind \in {"interval", "timed"}
          /\ Goto(l, IF CanRun(l[1]) THEN "admitted" ELSE "select")
       \/ /\ def[l[1]].kind \in {"daily", "aligned"}
          /\ Goto(l, "select") \/ Goto(l, "none")

\* The ticker or the timer is the ready case that select takes.
Tick(l) ==
    /\ loop[l] = "select"
    /\ Goto(l, IF CanRun(l[1]) THEN "admitted" ELSE Rest(l[1]))

(* Nothing is held between canRun and the call of fn: the job may be paused,
   stopped or cleared here and its function is called all the same. *)
CallFn(l) ==
    /\ loop[l] = "admitted"
    /\ Goto(l, "running")

FnReturns(l) ==
    /\ loop[l] = "running"
    /\ Goto(l, Rest(l[1]))

\* A bug: the goroutine does not listen to the control's own channel.
MustEndOnStopOnly(l) == l[2] \in closed
\* A bug: the goroutine does not listen to the instance's channel.
MustEndOnControlOnly(l) == def[l[1]].stopped

\* The control's stop channel or the generation's is closed.
MustEnd(l) == def[l[1]].stopped \/ l[2] \in closed

Exit(l) ==
    /\ loop[l] = "select"
    /\ MustEnd(l)
    /\ Goto(l, "none")

TimeOut(l) ==
    /\ loop[l] = "select"
    /\ def[l[1]].kind = "timed"
    /\ Goto(l, "none")

LoopProceeds(l) == Begin(l) \/ Tick(l) \/ CallFn(l) \/ FnReturns(l)

-----------------------------------------------------------------------------
Next ==
    \/ \E d \in Defs, id \in Ids, kind \in Kinds : Register(d, id, kind)
    \/ \E d \in Defs : LateStart(d)
    \/ StartJobs \/ RestartJobs
    \/ \E clearJobs \in BOOLEAN : StopAllJobs(clearJobs)
    \/ Lifecycle
    \/ \E id \in Ids : PauseJob(id) \/ ResumeJob(id) \/ StopJob(id)
    \/ \E l \in Loops : LoopProceeds(l) \/ Exit(l) \/ TimeOut(l)

(* A call that has begun goes on, timers fire and job functions return.  The
   exit needs strong fairness: select picks at random among its ready cases,
   so a tick cannot win against a closed channel for ever. *)
Fairness ==
    /\ WF_vars(Lifecycle)
    /\ \A d \in Defs : WF_vars(LateStart(d))
    /\ \A l \in Loops : WF_vars(LoopProceeds(l)) /\ SF_vars(Exit(l))

Spec == Init /\ [][Next]_vars
FairSpec == Spec /\ Fairness

-----------------------------------------------------------------------------
(* Properties. *)

Registered(d) == def[d].id # NoId

(* The lists, the control map and the control flags tell the same story: a
   registered definition is either listed, under its id and not stopped, or
   dropped from both and stopped.  A definition dropped with a usable control
   could still be run by a goroutine that holds it. *)
RegistryAgrees ==
    /\ \A d \in Defs : Registered(d) =>
          /\ d \in lists <=> controls[def[d].id] = d
          /\ d \in lists <=> ~def[d].stopped
    /\ \A d \in lists : Registered(d)
    /\ \A i \in Ids : controls[i] # NoDef => def[controls[i]].id = i

(* When no lifecycle call is under way and the scheduler is started, every
   listed job has had a goroutine in the current generation or its
   registration is about to create one: a registration that races a start or
   a restart is never missed by both. *)
NoJobForgotten ==
    life.at = "free" /\ started =>
        \A d \in lists : d \in spawned \/ pending[d] = stopCh

(* Between lifecycle calls CheckStatusJobs tells whether the scheduler is
   started, a started scheduler's channel is open, and only goroutines that
   listen to the current channel or come from a registration that a stop
   overtook are alive: stop waits for every goroutine created before it closed
   the channel, by startJobs or by a registration. *)
StopQuiesces ==
    life.at = "free" =>
        /\ status = started
        /\ started => stopCh # 0 /\ stopCh \notin closed
        /\ \A l \in AllLive :
              l[3] = "overtaken" \/ (started /\ l[2] = stopCh)

(* stop closes a channel that exists and is open: closing nil or closing twice
   panics.  Starts in test mode, repeated stops and restarts before the first
   start all come this way. *)
ClosesOpenChannel == life.at = "close" => stopCh \in Gens \ closed

(* Once a job is stopped or cleared, canRun lets no goroutine through to its
   function any more, not even one started from a snapshot or a registration
   older than the stop, and only the calls let through before that still
   begin: a stopped job is never resurrected. *)
NeverResurrected ==
    [][\A l \in Loops : def[l[1]].stopped =>
           /\ loop'[l] = "admitted" => loop[l] = "admitted"
           /\ loop'[l] = "running" => loop[l] \in {"admitted", "running"}]_vars

(* StopAllJobs and RestartJobs return: every goroutine they wait for sees the
   closed channel, whatever it is doing. *)
StopTerminates == life.at \in {"stop", "wait"} ~> life.at = "free"

(* The goroutines of a job that StopJob or a clear dropped end, without a stop
   of the scheduler. *)
StoppedJobEnds ==
    \A d \in Defs : def[d].stopped /\ Live(d) # {} ~> Live(d) = {}

(* What the documentation promises: "repeated starts do not duplicate running
   jobs", and a job registered on a started instance "starts immediately.
   Otherwise, it is queued until StartJobs is called" - one or the other. *)
OneLoopPerJob ==
    \A d \in Defs : \A l, m \in Live(d) :
        l[2] = m[2] /\ l[2] \notin closed => l = m
=============================================================================
