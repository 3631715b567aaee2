# TLA+ models of forge-go

This directory holds TLA+ models of the stateful parts of forge-go, the TLC
configurations that check them on small instances, and TLAPS proofs of their main
invariants for every instance. `PROJECT.json` lists the runs, the source lines
behind every definition, the mutants that show each property can fail, the
hazards the properties are aimed at and the theorems.

Check a model with `tlc -config X.cfg MCModule`, a proof with `tlapm MProofs.tla`.

## 1. The system

forge-go is a Go library for services: servers and clients with logging and
telemetry built in, background work, encryption behind several key providers,
and two command-line tools. Most of its state is package-level and shared by all
goroutines of a process.

| Component | State it keeps | Operations | What is hard | What makes it correct |
|---|---|---|---|---|
| Task workers `tools/workers` | queue, limit, active count, active run, one mutex and one condition variable | AddTask, SetWorkersLimit, SetParallelism, RunWorkers, StopWorkers, RestartWorkers, dispatcher | two kinds of waiter on one condition; limits changed at run time; a restart while old tasks still run | no lost wake-up, slots counted exactly, one dispatcher, FIFO, limit respected, stop returns |
| PKCS#11 sessions `encrypt/pkcs11` | module registry, slot cache, permits, idle sessions, cached login | withSession, acquire, release, login, Close, Shutdown | every library call may fail, and the failure of a close is ignored; the token may reset; Close runs among operations; the login is cached | permits always come back, sessions exclusive, none forgotten or in excess but those the token refuses to close, operations return, no refused login |
| Job scheduler `tools/jobs` | job lists, controls, `started`, stop channel, wait group | Job, CronJob, StartJobs, RestartJobs, StopAllJobs, PauseJob, ResumeJob, StopJob, job goroutines | lifecycle mutex, list mutex and atomics overlap; registrations are not serialised with starts | each job started once, none forgotten, stop quiesces, no stopped job is admitted again |
| Atomic batch writer `cmd/go-openssl` | targets, temporary files, snapshots | stage, validate, commit, sync, roll back, clean up | any system call fails; kills; other writers | all or nothing; old or new at every instant; no key left in a temporary file |
| Logger `logger/builder` | the request's completed child traces | TraceEnd, Handle (build, write, export, clear) | the clear is by count and happens after the delivery | a trace is dropped only after it was logged, and logged once |
| gRPC server `config/server/grpc` | server, listener, shutdown handlers, signal channel | Register, Serve, Stop, GracefulStop, signal waiter | three kinds of goroutine run one shutdown | handlers once, finished before anybody returns; a signal or a stop ends Serve |
| Gin server `config/server/gin` | package-level server, handlers, TLS configuration and signal channel | CreateApp, Start, Stop | one deadline for flushing and draining; stale signals; settings an earlier CreateApp left | Start returns, every shutdown tried by then; mutual TLS honoured |
| Telemetry `tools/utilities/traces`, `logger/builder/config.go` | global log, metric and trace providers | InitLogger, InitOtel, InitTelemetry, shutdown | partial failure of the initialisation; initialising again; shutdowns that fail | the shutdown of every provider out of use was tried |
| Key repositories `encrypt` (local, AWS, Azure, GCP, PKCS#11) | keys at a service, the configured key | generate, rotate, get, deactivate; encrypt, sign, hash | methods of several remote calls that may each fail, before or after their effect; versions; local keys given to remote backends | what a key seals it opens; bound data; rotation and deactivation take effect; nothing sealed is lost |
| JWT and cookies `security/auth` | layered settings of the process | services from settings, create and decode tokens | settings written by programs, files and services; expiry at the boundary | the program accepts what it issues; keys set last are used |
| Security middlewares `security/middlewares` | the service each was built with | JWT, cookie and gRPC middlewares | built at once or at the first request | a handler runs only for an authentic, valid token |
| Logger middlewares | request context, captured bodies | HTTP and gRPC interceptors | body limits | one entry per request, bodies unchanged |
| Clients `config/client` | one connection, request options | HTTP verbs, gRPC dial and close | use under concurrency | one critical section per operation |
| Configuration `tools/utilities` | viper settings | environment and INI loading | layering, parsing | precedence of the sources |
| Portable operations, bundle, scaffolding `share`, `cmd/qgo` | none, file trees | dispatch, bundle, create project | framing | decode after encode |

How they meet: both servers load configuration, initialise the logger and the
telemetry, keep their shutdown functions and run them when a signal or a stop
arrives; other code may initialise the same global telemetry. Cookies are built on
the JWT service and write into the same settings; the middlewares are built from
these. Remote repositories hand keys that are local material to the local one. The middlewares create the logger context of a request, in which clients
and key providers open child traces; the final log entry carries these. The
generator of go-openssl writes through the atomic writer. Workers and jobs stand
alone and are called by applications.

## 2. Modules

| Module | Source | Shape |
|---|---|---|
| `TaskQueue` | what `tools/workers` promises | abstract: a line, slots, and what is done |
| `Workers`, `MCWorkers`, `WorkersProofs` | `tools/workers/workers.go` | one action per critical section of `stateMu` and per step outside it; implements `TaskQueue` |
| `SessionPool`, `MCSessionPool`, `SessionPoolProofs` | `encrypt/pkcs11/session.go`, `backend.go`, `repository.go` (Close) | one action per lock, channel operation or library call |
| `Jobs`, `MCJobs`, `JobsProofs` | `tools/jobs/jobs.go` | one action per critical section, atomic operation and goroutine step |
| `AtomicWriter`, `MCAtomicWriter`, `FilesAndTracesProofs` | `cmd/go-openssl/code/atomic.go` | one action per iteration of a phase, with its failure |
| `LogProcesses`, `MCLogProcesses`, `FilesAndTracesProofs` | `logger/builder/formatLog.go`, `slog.go`, `context.go` | explicit context mutex; read and write of the collection apart |
| `GrpcServer` | `config/server/grpc/config.go` | one action per blocking point of Serve, its waiter and the stoppers |
| `Telemetry` | `tools/utilities/traces/*.go`, `logger/builder/config.go` | initialisations as operators on the set of providers |
| `GinServer` | `config/server/gin/config.go` | extends `Telemetry`; one action per blocking point |
| `MCServers`, `ServersProofs` | | both servers, one of them per behaviour; the proofs about each |
| `KeyMaterial` | `encrypt/models`, `encrypt/utilities` | texts, key data, sealed values, plans of calls |
| `LocalKeys`, `AwsKms`, `AzureKeyVault`, `GcpKms`, `Pkcs11Keys` | the repositories of `encrypt` | one operator per method: a value, an error, or the calls it makes |
| `Keys`, `MCKeys`, `KeysProofs`, `KeysServeProofs` | the repositories and the services they call | composes the five; one action per call of a method, per call to the service and per return |
| `Security`, `MCSecurity`, `SecurityProofs` | `security/auth/jwt`, `security/auth/cookies`, `security/middlewares` | uses `LocalKeys`; one action per call of the program and per request |

Operators named "A bug: ..." are never used by a specification. Each is a
plausible mistake in the code; `PROJECT.json` names the definition it replaces
and the property that then fails.

### Workers

`disp[r]` is the control state of run `r`'s dispatcher, `pc[c]` that of a caller,
`task[t]` the life of a task. `parked` stands for a goroutine in `Cond.Wait`;
`WokenDisp` and `WokenPc` are the broadcast, which sends every parked goroutine
back to the loop that tests its condition. `Dispatch` reads `parallelism` after
the lock has been released, as the code does. `ImplementsTaskQueue` maps the queue
to the line, the limit to the slots, and the tasks between `nextTask` and
`releaseExecutionSlot` to the active ones; everything else is a stutter.
Tasks that call the package themselves are left out: a task that calls
StopWorkers while it runs inline waits for itself.

### SessionPool

A caller goes through withSession step by step: `TakePermit`, `Pick`,
`OpenSession`, `Login`, `RunOp`, `Release`, `Free`, `ResetLogin`. The token is
external: open sessions and one login, dropped with the last session or by a
reset. Every call of it may fail. C_CloseSession does not always close: `release`
ignores its error and `drain` only reports it, so the session stays open on the
token with nobody to use it, and C_Finalize in Shutdown may fail too; `refused`
is the set of these sessions. A token may also report an error that
`sessionIsDead` counts (CKR_DEVICE_ERROR, for one) of a session it keeps open
(`ReportsDead`; `MaxFaults` bounds these and the resets). The code bounds none of
this, so `NoSessionLeak` and `OpenSessionsBounded` leave the refused sessions out
and say that there are no others: with a failing close the token really can have
more sessions open than the pool's size. `Close` drains the idle sessions of every repository that shares the
library, because the pool belongs to the library and not to the repository.

Abstractions: one library and one slot. Resolving the slot is part of
`WithSession`, as nothing in it waits or can be undone. Handles come in a fixed
order, since the code never compares them; a token that hands out an old handle
again after a reset is not modelled. The reference count is left out because
nothing reads it (each operation adds one and nothing takes it away). The comment
on `drain` that sessions in flight "return to a pool nobody reads afterwards" is
not what happens: the pool stays in the registry and the next operation reuses
them, which is what the model has. After a reset the PIN provider is asked again,
unlike "at most once per token" in `config.go`.

### Jobs

A goroutine is named by its definition, the generation of the stop channel it
listens to and its creator: startJobs, the registration (`late`), or a
registration that found its channel closed by a stop (`overtaken`). `life` is the
lifecycle call that holds `lifecycleMu`, cut at the atomics: `CasStarted`,
`StoreChannel`, `Snapshot`, `StartSnapshot` and `CasStopped`, `CloseChannel`,
`WaitLoops`, `ClearJobs`, `StopReturns`. `pending` is a registration that left
the list mutex and has not started its goroutine yet.

Abstractions: one scheduler instance. Refused calls change nothing and are left
out. Time is a
choice: a ticker or timer may fire whenever a goroutine waits for it. A job
function that calls StopAllJobs or RestartJobs would wait for itself and is left
out. `Begin` and `Tick` ask `canRun`; `CallFn` is the call, a step of its own, and a
StopJob may return between the two (`admitted`): then the function starts after
the stop. `NeverResurrected` therefore says that no goroutine is admitted after the
stop and that only those admitted before still begin. `StopQuiesces` excuses
exactly the goroutines that a registration created on a channel already closed: it
read the channel under the mutex (`jobs.go:171`) and started its goroutine after a
StopAllJobs had closed it and waited. Such a one may run its job's function after
CheckStatusJobs says, in the words of `jobs.go:408`, that jobs have been "fully
stopped"; it ends when its select takes the closed channel. A job that timed out keeps its id:
the model has it and no property excludes it.

### AtomicWriter

`phase` is the phase and `i` the index of its loop. Every step has its failure, so
each error path is reached from each index. `Edit` is another process, `Killed`
the end of this one at any point. `base` is what each target would be without
this call, `late` the targets changed by others after their check: the window
between the check and the rename is open in the code and the properties exclude
exactly it. The rename and the chmod of a restore are one step when both succeed;
`ChmodFails` is the state between them. An `orphan` is a temporary file whose
path was lost with an error, which no clean-up sees.

### LogProcesses

`services` is the slice that a context and the contexts derived from it share,
guarded by the mutex of the context in use; `seen` is what the holder of the
mutex read. `Handlers` run Handle: snapshot, delivery to the writer and the
exporter, then the clear by count. A derived context has a mutex of its own and
shares the slice: `overlap` records that two entries were under way at once, or
that the collection was used under two mutexes at once. The properties speak of
behaviours without it, and `log_overlap` of what happens otherwise.

### GrpcServer

`pc` and `walk` give the position of Serve, its waiter and each stopper, and the
handler each has reached; `once` is the sync.Once of each handler. grpc.Server is
external: up, draining or stopped, with a number of calls in flight. The waiter
runs the handlers before it drains the server, as the code does: what the calls
still in flight log or trace after that is not exported. `Stop` on a server that
does not exist yet creates it first. Concurrent Serves of one Config, and several
Configs that share the signal channel, are not modelled. `SetListener` is called
between Serves only.

### Telemetry and GinServer

`tel` is the set of providers that are up, the pipeline that the next InitOtel
will shut down, the three global providers, and a generation that numbers the
initialisations. An environment says which exporters are off, on or cannot be
made. A shutdown tries providers, once each, and any of them may fail, because its
exporter does or because the context it is given has ended; `failed` is the set of
those, which stay up and which nobody tries again. `initProviders` is the common part of `loadConfig` and `InitTelemetry`:
logger first, pipeline second, logger shut down again if the pipeline fails.

`main` is the goroutine that calls CreateApp and Start, `lsn` its listening
goroutine, `sleeping` the calls of Stop in their first second, `ginQuit` the
channel with one place. `late` is the deadline of the shutdown, which handlers
and drain share. TLS is resolved in the code's order over the package variable,
which keeps what an earlier CreateApp left, with the policy for client
certificates of `mtls.clientAuth` (`noclientcert` asks for none, although mutual TLS
is enabled).

Behaviours of the code that the model has and no property excludes:

* A CreateApp that fails in TLS leaves the providers it made up. The next
  CreateApp shuts the pipeline down, but replaces the handler list, so the
  earlier logger provider is never shut down.
* The exporter of the logs is made before their resource (`builder/config.go:203`)
  and is not shut down when the resource fails (`Orphan`).
* A shutdown that fails, or that starts after the deadline of the shutdown, is only
  logged by the server: what it held stays. InitOtel ignores a failed shutdown of
  the previous pipeline (`http.go:95`), forgets it, and nobody tries it again:
  two pipelines are then up, which its comment (`http.go:78-80`) rules out.
* Handlers run before the drain, so what requests in flight still log or trace is
  dropped.
* Start on a server that was shut down waits for a signal, since the listener's
  refusal is no failure; a signal left in the channel ends the next Start at once.
* A second InitOtel shuts down the providers that the first server's middlewares
  captured.
* `telemetry.go:31` says that flushing logs first lets a record emitted during the
  later shutdowns still reach an exporter; logs are what is shut down first.

### Keys

`KeyMaterial` stands for strings by what they are: a form (local material of some
encoding, reference, identifier), the algorithm, the key and its version.
Cryptography is ideal: a sealed value opens with the key, version and bound data
it was made with. A method is an operator that yields a value, an error, or a
plan: the calls it makes to the service, each with what happens if it fails, and
what the method makes of the last answer. `Keys` runs these plans for concurrent
clients; a call that an answer makes needless is skipped (`Remaining`: at most two
in a row in any plan). The service is external: it answers, refuses, or fails with or without
having had its effect. `env` chooses the backend, the family of keys, the options
and whether a key is configured; `held` is the key data that callers were given,
and `arts` what was sealed, with its arguments.

Exceptions the properties name, each from the code:

* A local RSA pair is encoded in PKCS#1 (`local/repository.go:271`), and the
  parsers of `utilities.go` take PKIX and PKCS#8 only, so it serves no method
  (`NotServed`), although `encrypt/README.md:98` says that local pairs do. Azure has no Ed25519 keys.
* ECDH_Decode of an empty message inside the token (`EmptyInHardware`): the
  plaintext comes back as nil, which the code reads as "not decrypted there".
* A token that cannot derive with HKDF opens an ECDH message only if it may give
  out the shared secret (`NoWayToDerive`).
* Key data of a token may lack the public half, since GetKey goes on when it
  cannot be read (`pkcs11/repository.go:926`). Encrypting with that half then falls
  back on the configured key, so the key data does not open it (`NoPublicHalf`).
* A PKCS#11 key is not known by its KeyID alone, only by its URI (`ManagedBy`),
  although `encrypt/README.md:262-281` passes the KeyID and includes PKCS#11.
* With Google only AES keys have a primary version, so the KeyID of a pair stands
  for its first version whichever its caller has (`StandsForFirst`);
  `keys_google_id` shows a deactivation that misses the caller's version.
* Azure and Google join identifier and additional data, so an identifier alone
  and additional data alone can collide (`AuthBinding`).
* Two Google rotations that overlap may leave the older version primary, so
  `RotationTakesEffect` speaks of rotations nothing overlapped.

Seen while modelling, without a property: a failed Generate or Rotate of several
calls leaves the key or version it made behind; HMAC returns the empty string on
failure; Azure's Deactivate without a version
may turn off a version that a rotation has just replaced; GetKey of a PKCS#11
pair returns no public key when reading it fails; rotating a PKCS#11 AES or RSA key
falls back to the default size when the token does not tell it; and since
`defer end(err)` evaluates its argument at once, `internal/trace` records every
call as a success.

### Security

`layers` is viper: values that were Set, those of a file, and defaults. A
middleware is off, refused, or checking with the service it was built with; the
gRPC interceptor builds its service at the first request and keeps it or its
error. `last` is the last request and what became of it. Signatures are ideal.
Strategies and refusal handlers supplied by the caller are left out; a custom
refusal handler for gin that does not abort lets the chain go on.

## 3. Runs

| Run | Instance | What it shows |
|---|---|---|
| `workers` | 2 callers, 3 tasks, 2 runs, limits 0 to 2 | `NoLostWakeup`, `SlotAccounting`, `OneDispatcher`, `ImplementsTaskQueue` (the refinement), `StopTerminates`, `ServedWhileRunning` |
| `session_pool` | pool of 2, 3 handles, failing closes; 3 callers without, 2 with up to 2 resets or errors of live sessions | `PermitsReturned`, `Exclusive`, `NoSessionLeak`, `OpenSessionsBounded`, `OpReturns` |
| `session_pool_login` | 2 callers, no reset | violation of `NeverRefusedLogin` |
| `jobs` | 1 definition, of any of the 4 kinds, 2 ids, 2 generations | `RegistryAgrees`, `NoJobForgotten`, `StopQuiesces`, `ClosesOpenChannel`, `NeverResurrected`, `StopTerminates`, `StoppedJobEnds` |
| `jobs_twice` | 1 definition | violation of `OneLoopPerJob` |
| `atomic_writer` | 3 files, 2 outside edits | `AllOrNothing`, `NoEditLost`, `OldOrNew`, `NoTempLeft` |
| `log_processes` | 2 contexts, 2 handlers, 3 traces, 5 entries | `DroppedOnlyIfLogged`, `NeverRepeated` |
| `log_overlap` | 4 entries | violation of `OnlyIncludedRemoved` |
| `servers` | gRPC: 2 stoppers, 2 handlers, 2 Serves, 2 signals, 2 calls. Gin: 2 CreateApps, 2 Starts, and either 5 environments, 2 initialisations, any shutdown failing, 1 Stop or signal; or 5 TLS settings, 2 Stops or signals, 1 request | `FlushedOnReturn`, `ServeTerminates`; `StartFlushes`, `Released`, `MutualTLSHonoured`, `StartReturns` |
| `keys` | 5 backends, 5 families, all options, a user and a manager, 2 new keys beside a configured one, 3 calls | `RoundTrip`, `AuthBinding`, `PastKept`, `RotationTakesEffect`, `Deactivated`, `GeneratedKeyServes`, `ManagedById` |
| `keys_google_id` | Google key pairs | violation of `DeactivatedById` |
| `security` | 4 files, 2 pairs, 3 cookie inputs, 4 claims, 2 writes, 2 middlewares, 1 token, clock 0 to 2 | `Authentic`, `OwnTokensServe`, `LastKeysWin` |

Type invariants are proved where there is a proof module and are not listed as
properties of the runs.

Bounds. Three tasks under a limit of at most two fill the queue and the slots
while a third producer waits; two runs suffice for an old run's tasks to outlive
it. Three callers compete for two permits while one may be draining; faults of the
token and a third caller are not combined, which keeps the liveness check small (the
proofs of the safety properties have no such bound). Handles run
out when the token refuses to close, which is what a token at its limit does. Two
faults are a dead session and one in its place, or a reset and an error after it. Two
generations are a start and a restart. One definition has up to two goroutines
in each generation; definitions meet only in the map from ids, and the
proofs are for any number of them. The symmetry in `log_processes` is over the
handlers and over the traces.
Three files give a first, a middle and a last one, so failures have something to
roll back, to skip and to clean up. Five entries over three traces allow a retry
after a failed delivery for each handler. Two signals are one that is taken and
one that is left over. Two CreateApps are one that leaves settings or providers
behind and one that meets them. What telemetry meets does not touch the
progress of the servers (a handler returns at the deadline at the latest, whatever
it shuts down), nor does it touch TLS, so a behaviour of `servers` varies one or the
other (`MCGinNext`). Three calls of key methods are generate, rotate
or seal, and open, by two clients whose calls to the service interleave. Two
writes of settings are one before and one after a middleware or a token is made;
the clock passes before, at and after the boundaries of `nbf` and `exp`.

Deadlock checking is off in `atomic_writer`, `log_processes`, `servers`,
`keys` and `security`: there a call ends, the traces run out or the bounded calls are used up. Every
other passing run checks it.

Fairness. Go runs every goroutine that can run, mutexes hand over to starved
waiters, and functions given to the library are taken to return: weak fairness
for each step that a begun call has left. Three places need more. A blocked
sender on a channel is served in order, so `TakePermit` is strongly fair. A
select with several ready cases picks at random, so the exit of a job goroutine
cannot lose to its ticker for ever and is strongly fair. `ServeTerminates` assumes
that calls in flight end, since GracefulStop has no deadline. `StartReturns` does
not: there time passes, handlers heed the deadline of their context, and requests
need not end nor listeners fail.
Nobody is obliged to call, cancel or signal. `OpReturns` is about operations
only: a Close whose drain is fed by releases for ever need not return.

### Findings

* `session_pool_login`: Close closes the last session, which logs the token out,
  before it clears the cached login. An operation in between skips C_Login and is
  refused, which the comment at `session.go:108` rules out.
* `jobs_twice`: a registration between the store of the stop channel and the copy
  of the job lists is started both by itself and by startJobs.
* `keys_google_id`: DeactivateKey with the KeyID of a Google key pair's latest
  version succeeds and turns off version 1 (`encrypt/README.md:262`).
* `log_overlap`: two entries logged on one context at the same time clear by
  count twice, and a trace that neither carried is dropped.

## 4. Proofs

The proof modules hold for all values of the constants that satisfy the
assumptions named in the modules or theorems: any callers, tasks, runs, handles,
limits (negative ones included) and sizes; `Callers` of the pool is finite.

**Workers.** `TypeOK`, `OneDispatcher`, `NoLostWakeup` and `SlotAccounting` are
not inductive by themselves. `IInv` adds ownership: a task that is offered
belongs to one caller (`OffersOwned`), a queued one to one place of the queue
(`QueueOwned`) and a held one to one dispatcher's hand (`HandsOwned`). With it,
taking the head of the queue makes exactly one more task hold a slot, and a task
that ends gives back exactly one, so `activeTasks` follows the cardinality and
never goes below zero. The lemma `Broadcast` says that afterwards nobody is
parked, which settles `NoLostWakeup` for every action that changes a condition.
The refinement `WorkersImplementTaskQueue` uses `IInv` step by step: a critical
section that changes neither queue, limit nor slots is `Invisible`; `AddTask`'s
append is a Submit (`AppendSubmits`), `nextTask` a Begin whose guard on the slots
comes from `SlotAccounting` (`TakeBegins`), and the end of a task an End
(`ExecuteEnds`). Theorems: `TypeCorrectness`, `WakeupsNeverLost`,
`SlotsAccounted`, `AtMostOneDispatcher`, `WorkersImplementTaskQueue`.

**SessionPool.** `IInv` adds `HandsOK` (who has a session in hand, by control
state) and the finiteness of `idle` to `PermitsReturned`, `Capacity`, `Exclusive`
and `NoSessionLeak`, the last with the sessions the token refused to close. `Capacity` rests on `PermitsReturned`: a caller about to
pick holds a permit and no session yet, so there is room for one more.
`CountingStep` collects the ways an action can move the counts and is proved to
cover every action, so that the counting argument is made once.
`OpenSessionsBounded` then follows by counting the hands that hold the sessions
that are open and not refused. Theorems: `TypeCorrectness`, `PermitsAreReturned`, `CapacityRespected`,
`SessionsAreExclusive`, `SessionsNeverLeak`, `OpenSessionsAreBounded`.

**Jobs.** `IInv` adds to `TypeOK` and `RegistryAgrees`: what a definition never
registered looks like (`FreshDefs`), what each step of a lifecycle call may rely
on (`Phase`), that goroutines only listen to channels that were made
(`Generations`), and that between the store of the channel and the end of the
start every listed job is spawned, in the snapshot still to be started, or pending
(`Covered`). `Covered` is what `NoJobForgotten` needs: the snapshot is taken after
the store of the channel, so a registration that it misses has seen the channel.
Theorems: `TypeCorrectness`, `RegistryConsistent`, `NoRegistrationMissed`,
`StopLeavesNothing`, `ChannelsClosedOnce`, `StoppedJobsStayStopped`.

**AtomicWriter** (in `FilesAndTracesProofs`, whose definitions are prefixed with
`Batch` where both components have one). For any number of files. `BatchIInv` adds the
meaning of the loop index in each phase (`Loops`), that what was checked is still
what the snapshot says except for late edits (`Verified`), and that every temporary
file is known to the clean-up or already excused (`TempsKnown`). Theorems: `TypeCorrectness`,
`BatchIsAllOrNothing`, `EditsNeverLost`, `TargetsComplete`, `TempsRemoved`.

**GrpcServer.** For any stoppers and handlers: a goroutine is past a handler only
if its once is done, and the handler was invoked exactly if its once was entered.
Theorems: `TypeCorrectness`, `ReturnsAreFlushed`.

**GinServer and Telemetry.** For all environments and TLS settings, and any
shutdowns failing. A provider is `GivenUp` if its shutdown failed or if it is the
exporter that no provider took. `Sound` says of the providers that generations
grow, that of those not given up nothing was released, and that a tracer or meter
provider among them is both global and the next InitOtel's to shut down; lemmas
show that each initialisation and shutdown keeps it (`ShutFacts` is the one about
failing shutdowns). `GinIInv` adds that the registered handlers belong to an
initialisation that was made and that each handler that ran has tried its
providers: they cannot come back, since a later initialisation has a generation of
its own. `MutualTLSHonoured` needs of the package variable only that the last of
the three resolutions is the one for client certificates. Theorems: `ReturnsFlushed`,
`ProvidersReleased`, `MutualTLSAlwaysHonoured`.

**LogProcesses** (in `FilesAndTracesProofs`). For any contexts, goroutines, traces and number of entries.
`IInv` says that as long as nothing overlapped one mutex is held at a time and its
holder knows the collection as it is (`Serialised`), one entry is under way
(`OneEntry`), a trace is listed once (`ListedOnce`), an entry under way is how the
collection begins (`EntryBegins`), and a trace was delivered exactly if it left or
is about to leave (`DeliveredOnce`). `EntryBegins` is why the clear by count is
right: what ends in the meantime is appended behind the entry, so the first
`count` traces are still those of the entry. Theorems: `DropsOnlyLogged`,
`RepeatsNothing`.

**Security.** For any files, inputs, pairs, claims, leeway and instants that
satisfy `SecurityAssumption`: settings hold texts, and the halves of a pair of
`KeyPairs` belong together. Lemmas say what the layered store gives back after
Set, SetDefault and the cookie service's settings, what each constructor takes
from it, and that a decoder accepts exactly what was signed with the counterpart.
The invariant says of every middleware that its service is usable, and of
every token which service made it. Theorems: `OnlyAuthenticRequestsRun`,
`IssuedTokensAreAccepted`, `PairSetLastIsUsed`.

**Keys.** For any names, versions, clients, messages and arguments, all five
backends and all their options; `KeysAssumption` says that instances are pairs of
a backend and a family and that "none" is no name. There are three inductive
invariants, each inductive only together with those before it.

`BindingInv` says that the key data a service gives out is texts that name a key,
never material; that every AES ciphertext a caller holds is bound to `Bind` of
the identifier and the additional data it was made with; that an EncryptAES or
DecryptAES under way has one call left, which carries the binding of its own
arguments; and that what a method has returned is as it may be. It is proved
along the plans: `UsePlan`, `SealPlan`, `MakePlan` and `ManagePlan`
classify what a method may yield, one lemma per method and backend shows its class
(`AwsMethods`, `AzureMethods`, `GcpMethods`, `TokenMethods`, `MemMethods`), and the
steps of `Keys` are then argued per class: the service's answers (`AnswersOK`), what
a method makes of the last one (`Concludes`), and the next call (`AfterAnswer`).
Theorems: `CiphertextsAreBound`, `OpensOnlyAsSealed`.

`KeptInv` is about the service's keys. None of `PastKept`, `RotationTakesEffect` and
`Deactivated` is inductive: each depends on where every call under way stands and
on what it was told on the way there. So `KeptInv` says, of the four services
(`RetentionInv`),
  - that keys are well formed and a version is off only for a reason (`VersionsKept`:
    its key's deactivation was asked for, or a replacement of it exists and the
    policy disables what is replaced);
  - that no acknowledged rotation is ahead of its key's primary version (`Acknowledged`);
  - that the configured text, the key data held and the artefacts name versions that exist;
  - that no two calls under way would create the same key (`OwnNames`);
  - of every call, what it was `Given`, its `Progress` (one stage predicate per kind
    of method: `UseStage`, `SealStage`, `MakeStage`, `InspectStage`, `RotateStage`,
    `DisableStage`) and its `Result`.

The proof has three layers. `Grows` (the service forgets nothing and turns nothing on
again) carries what is known of one call across the steps of all others (`GrowsJob`).
The answers of the service are lemmas of their own (`RotateKeyAnswers`,
`NewVersionAnswers`, `UpdatePrimaryAnswers`, `TurnOffAnswers`, `ReplacementAnswers`,
`LookAnswers`, `ReadingTells`), each with the change it makes to one key (`Follows`,
`Effected`). Then, per kind of method and per backend for rotations, every
answer, refusal and fault leads from one stage to the next or to a result
(`UseAnswered`, `SealAnswered`, `MakeAnswered`, `InspectAnswered`, `DeactivateAnswered`,
`AwsRotated`, `AzureRotated`, `GcpRotated`, `TokenRotated`). The local repository has
no service and is the other case (`Nowhere`). Theorems: `KeysAreKept`,
`OldCiphertextsStayInReach`, `EncryptionFollowsRotation`, `DeactivatedKeysAreOff`.

`ServeInv` (in `KeysServeProofs`) is about success. `RoundTrip`, `GeneratedKeyServes`
and `ManagementSucceeds` (the part of `ManagedById` about failure) say that a call cannot fail except for a fault, a version turned
off or a use the key was not made for, so they need to know that nothing else can
go wrong: that the key's text, the key data, the artefact and the plan fit together
and fit the service's keys. Of the four services (`ServiceServes`) it says
  - that the keys are of the family and of a size that the family has (`KeysFit`);
  - that key data is a description of a key and version that exist (`Describes`,
    `DataFits`), and the configured text refers to one (`Refers`);
  - that an artefact names the key that its key data stands for, unless the data
    lacks the public half (`ArtFits`);
  - of every call, what it was made with (`Had`); while it is under way, that it
    asks for what its method plans (`Under`, `Asks`, with the plan written out per
    method in `Plan` and what it may be refused for in `Able`); and that its result
    is one its plan allows (`Done`).

`AwsWorks`, `AzureWorks`, `GcpWorks` and `TokenWorks` show that each method of each
backend yields the plan of `Plan` or an error that `Able` accounts for; `Wider`
(`Grows`, and sizes stay) carries what is known across the steps of other clients
(`WiderKeeps`); `CallServes`, `ServiceStep` and `TakeServes` are the steps. The local
repository is again the other case (`LocalServes`): its methods answer at once, from
the material in the text. Theorems: `KeysServe` (the invariant), `SealedThenOpened`
(`RoundTrip`), `GeneratedKeysServe` (`GeneratedKeyServes`), `KeysServeManagement`
(`ManagementSucceeds`).

Every invariant of the passing runs is thus stated by a theorem, but for
`ManagedById`: that a managing call fails only for a reason is proved, that it deals
with the key and version meant is model-checked only. Also only model-checked
are the liveness properties, since liveness under fairness is out of the prover's
reach, and the four violations, which are counterexamples and have nothing to prove.

## 5. Not modelled

* Cryptographic computations, C bindings, generated code, templates, terminal
  output and text rewriting (sanitizer, formatter, parsers of settings and URIs):
  their data has no small abstraction.
* The calendar behind daily triggers (`nextRun`). In `Jobs` a trigger may fire at
  any time, so the properties do not depend on it. `destroy` of the scheduler is
  called by tests only.
* Calls that a task or a job function makes back into its package: StopWorkers
  from a task that runs inline, and StopAllJobs or RestartJobs from a job
  function, wait for themselves.
* The logger middlewares are sequential per request; what they share with other
  goroutines is the collection of traces in `LogProcesses`. The settings cache, the
  gRPC client and the HTTP client have one critical section per operation.
* Two servers in one process that share the signal channels: `MCServers` runs one
  server per behaviour; the telemetry that other code initialises is part of it.
* Portable operations are stateless; the WebAssembly bundle, the API inventory,
  qgo and the commands of go-openssl are tools whose state is the file system, of
  which the part that must not be half-written is `AtomicWriter`.
