----------------------------- MODULE GrpcServer -----------------------------
(***************************************************************************)
(* The life of the gRPC server wrapper of config/server/grpc/config.go:    *)
(* Serve, Stop and GracefulStop on one *Config, the goroutine Serve starts *)
(* to wait for a signal, and the shutdown handlers (logger, OpenTelemetry) *)
(* that all of them run and that onceShutdownHandlers makes run once.      *)
(*                                                                         *)
(* Three kinds of goroutine meet here: the one in Serve, its signal waiter *)
(* and the callers of Stop and GracefulStop.  The grpc.Server is external: *)
(* it accepts calls while it is up and Serve has it, a graceful stop lets  *)
(* the calls in flight end, a stop drops them, and its Serve returns once  *)
(* the stop is complete.                                                   *)
(***************************************************************************)
EXTENDS Integers

CONSTANTS
    Stoppers,    \* goroutines that call Register, Stop or GracefulStop
    N,           \* how many shutdown handlers loadConfig returns
    MaxServes,   \* bound: calls of Serve
    MaxSignals,  \* bound: signals the process receives
    MaxRpcs,     \* bound: calls in flight
    Serving,     \* names of the goroutine in Serve and of its waiter
    Waiter

ASSUME GrpcServerAssumption ==
    /\ {N, MaxServes, MaxSignals, MaxRpcs} \subseteq Nat
    /\ Serving # Waiter
    /\ {Serving, Waiter} \cap Stoppers = {}
    /\ {"fresh", "done"} \cap (Stoppers \cup {Serving, Waiter}) = {}

VARIABLES
    server,     \* su.server, and the state of that grpc.Server
    serverErr,  \* su.serverErr is set
    list,       \* len(su.shutdownList)
    listener,   \* su.listener
    quit,       \* signals in the channel quit, which holds one
    done,       \* Serve's channel done is closed
    once,       \* each handler's sync.Once: fresh, its runner, or done
    pc,         \* where each goroutine is
    walk,       \* the handler it has reached
    rpcs,       \* calls in flight
    serves,     \* how often Serve was called
    signals,    \* how many signals have arrived
    invoked     \* history: how often each handler was called

vars == <<server, serverErr, list, listener, quit, done, once, pc, walk, rpcs,
          serves, signals, invoked>>
config == <<server, serverErr, list, listener>>
handlers == <<once, walk, invoked>>
bounds == <<serves, signals>>

Actors == Stoppers \cup {Serving, Waiter}
Handlers == 1..N
States == {"idle", "accept", "serving", "closeDone", "join", "cleanup",
           "select", "flush", "graceful", "drain", "stop", "returned"}

TypeOK ==
    /\ server \in {"nil", "up", "draining", "stopped"}
    /\ serverErr \in BOOLEAN
    /\ list \in {0, N}
    /\ listener \in {"nil", "open", "closed"}
    /\ quit \in 0..1
    /\ done \in BOOLEAN
    /\ once \in [Handlers -> Actors \cup {"fresh", "done"}]
    /\ pc \in [Actors -> States]
    /\ walk \in [Actors -> 1..N + 1]
    /\ rpcs \in 0..MaxRpcs
    /\ serves \in 0..MaxServes
    /\ signals \in 0..MaxSignals
    /\ invoked \in [Handlers -> Nat]

(* NewIConfig: the server may be injected and the listener set beforehand; a
   configuration that cannot be loaded leaves an error and no handlers. *)
Init ==
    /\ server \in {"nil", "up"}
    /\ serverErr \in BOOLEAN
    /\ list = IF serverErr THEN 0 ELSE N
    /\ listener \in {"nil", "open"}
    /\ quit = 0
    /\ done = FALSE
    /\ once = [k \in Handlers |-> "fresh"]
    /\ pc = [a \in Actors |-> "idle"]
    /\ walk = [a \in Actors |-> 1]
    /\ rpcs = 0
    /\ serves = 0
    /\ signals = 0
    /\ invoked = [k \in Handlers |-> 0]

Goto(a, s) == pc' = [pc EXCEPT ![a] = s]

(* ensureServer: an injected server or an error stays; else the options, TLS
   among them, make a server or an error for good. *)
EnsureServer ==
    \/ /\ server # "nil" \/ serverErr
       /\ UNCHANGED <<server, serverErr>>
    \/ /\ server = "nil" /\ ~serverErr
       /\ \/ server' = "up" /\ UNCHANGED serverErr
          \/ serverErr' = TRUE /\ UNCHANGED server

-----------------------------------------------------------------------------
(* The shutdown handlers: shutdown, and the loop of waitForShutdownSignal. *)

Flushing(a) == pc[a] \in {"cleanup", "flush"} /\ walk[a] <= list

\* sync.Once: only the first caller runs the handler.
Calls(k) == once[k] = "fresh"

CallHandler(a) ==
    /\ Flushing(a)
    /\ Calls(walk[a])
    /\ once' = [once EXCEPT ![walk[a]] = a]
    /\ invoked' = [invoked EXCEPT ![walk[a]] = @ + 1]
    /\ UNCHANGED <<config, quit, done, pc, walk, rpcs, bounds>>

\* The handler returns to its caller.
HandlerReturns(a) ==
    /\ Flushing(a)
    /\ once[walk[a]] = a
    /\ once' = [once EXCEPT ![walk[a]] = "done"]
    /\ walk' = [walk EXCEPT ![a] = @ + 1]
    /\ UNCHANGED <<config, quit, done, pc, rpcs, bounds, invoked>>

\* A bug: a caller that comes second does not wait for the first.
PassesAtOnce(k) == once[k] # "fresh"

\* once.Do blocks until the first call has returned.
Passes(k) == once[k] = "done"

SkipHandler(a) ==
    /\ Flushing(a)
    /\ once[walk[a]] # a
    /\ Passes(walk[a])
    /\ walk' = [walk EXCEPT ![a] = @ + 1]
    /\ UNCHANGED <<config, quit, done, once, pc, rpcs, bounds, invoked>>

Flushed(a) == walk[a] > list

-----------------------------------------------------------------------------
(* Serve. *)

(* Up to the start of the waiter.  Without a listener one is opened on the
   address, if there is one; every error goes through shutdown. *)
Serve ==
    /\ pc[Serving] \in {"idle", "returned"}
    /\ serves < MaxServes
    /\ serves' = serves + 1
    /\ EnsureServer
    /\ walk' = [walk EXCEPT ![Serving] = 1, ![Waiter] = 1]
    /\ done' = FALSE
    /\ \/ /\ serverErr' \/ listener = "nil"
          /\ Goto(Serving, "cleanup")
          /\ UNCHANGED listener
       \/ /\ ~serverErr'
          /\ listener' = IF listener = "nil" THEN "open" ELSE listener
          /\ pc' = [pc EXCEPT ![Serving] = "accept", ![Waiter] = "select"]
    /\ UNCHANGED <<list, quit, once, rpcs, signals, invoked>>

\* server.Serve refuses when the server was stopped, or the listener is closed.
Accept ==
    /\ pc[Serving] = "accept"
    /\ IF server = "up" /\ listener = "open"
       THEN Goto(Serving, "serving") /\ UNCHANGED listener
       ELSE Goto(Serving, "closeDone") /\ listener' = "closed"
    /\ UNCHANGED <<server, serverErr, list, quit, done, handlers, rpcs, bounds>>

(* server.Serve returns: nil when a stop is complete, an error when the
   listener fails by itself. *)
ServeEnds ==
    /\ pc[Serving] = "serving"
    /\ server \in {"up", "stopped"}
    /\ listener' = "closed"
    /\ Goto(Serving, "closeDone")
    /\ UNCHANGED <<server, serverErr, list, quit, done, handlers, rpcs, bounds>>

\* A bug: the deferred function does not close done.
CloseDoneForgotten ==
    /\ pc[Serving] = "closeDone"
    /\ Goto(Serving, "join")
    /\ UNCHANGED <<config, quit, done, handlers, rpcs, bounds>>

CloseDone ==
    /\ pc[Serving] = "closeDone"
    /\ done' = TRUE
    /\ Goto(Serving, "join")
    /\ UNCHANGED <<config, quit, handlers, rpcs, bounds>>

WaiterDone == pc[Waiter] = "returned"

\* <-waiterDone
Join ==
    /\ pc[Serving] = "join"
    /\ WaiterDone
    /\ Goto(Serving, "cleanup")
    /\ UNCHANGED <<config, quit, done, handlers, rpcs, bounds>>

ServeReturns ==
    /\ pc[Serving] = "cleanup"
    /\ Flushed(Serving)
    /\ Goto(Serving, "returned")
    /\ UNCHANGED <<config, quit, done, handlers, rpcs, bounds>>

-----------------------------------------------------------------------------
(* The rest of IConfig. *)

(* Register: makes the server, or reports the error and runs the handlers.
   GetServer does the same when there is no server, and else nothing. *)
Register(a) ==
    /\ a \in Stoppers
    /\ pc[a] = "idle"
    /\ EnsureServer
    /\ Goto(a, IF serverErr' THEN "cleanup" ELSE "idle")
    /\ UNCHANGED <<list, listener, quit, done, handlers, rpcs, bounds>>

\* SetListener, between two calls of Serve; SetAddress is a choice of Serve.
SetListener ==
    /\ pc[Serving] \in {"idle", "returned"}
    /\ listener' = "open"
    /\ UNCHANGED <<server, serverErr, list, quit, done, handlers, pc, rpcs, bounds>>

-----------------------------------------------------------------------------
(* waitForShutdownSignal: the handlers run before the graceful stop. *)

SignalTaken ==
    /\ pc[Waiter] = "select"
    /\ quit = 1
    /\ quit' = 0
    /\ Goto(Waiter, "flush")
    /\ UNCHANGED <<config, done, handlers, rpcs, bounds>>

DoneTaken ==
    /\ pc[Waiter] = "select"
    /\ done
    /\ Goto(Waiter, "returned")
    /\ UNCHANGED <<config, quit, handlers, rpcs, done, bounds>>

WaiterFlushed ==
    /\ pc[Waiter] = "flush"
    /\ Flushed(Waiter)
    /\ Goto(Waiter, "graceful")
    /\ UNCHANGED <<config, quit, done, handlers, rpcs, bounds>>

-----------------------------------------------------------------------------
(* Stop and GracefulStop. *)

(* They make the server they stop when there is none yet; when that fails
   only the handlers run. *)
StopCall(a, kind) ==
    /\ a \in Stoppers
    /\ pc[a] = "idle"
    /\ \/ /\ server # "nil"
          /\ UNCHANGED <<server, serverErr>>
          /\ Goto(a, kind)
       \/ /\ server = "nil"
          /\ EnsureServer
          /\ Goto(a, IF serverErr' THEN "cleanup" ELSE kind)
    /\ UNCHANGED <<list, listener, quit, done, handlers, rpcs, bounds>>

StopNow(a) ==
    /\ pc[a] = "stop"
    /\ server' = "stopped"
    /\ rpcs' = 0
    /\ Goto(a, "cleanup")
    /\ UNCHANGED <<serverErr, list, listener, quit, done, handlers, bounds>>

StopReturns(a) ==
    /\ a \in Stoppers
    /\ pc[a] = "cleanup"
    /\ Flushed(a)
    /\ Goto(a, "returned")
    /\ UNCHANGED <<config, quit, done, handlers, rpcs, bounds>>

\* server.GracefulStop, by the waiter or by a caller: it accepts no more calls...
Drain(a) ==
    /\ pc[a] = "graceful"
    /\ server' = IF server = "up" THEN "draining" ELSE server
    /\ Goto(a, "drain")
    /\ UNCHANGED <<serverErr, list, listener, quit, done, handlers, rpcs, bounds>>

\* ...and returns when those in flight have ended.
Drained(a) ==
    /\ pc[a] = "drain"
    /\ rpcs = 0 \/ server = "stopped"
    /\ server' = "stopped"
    /\ Goto(a, IF a = Waiter THEN "returned" ELSE "cleanup")
    /\ UNCHANGED <<serverErr, list, listener, quit, done, handlers, rpcs, bounds>>

-----------------------------------------------------------------------------
(* The process's environment: calls and signals. *)

RpcBegins ==
    /\ pc[Serving] = "serving"
    /\ server = "up"
    /\ rpcs < MaxRpcs
    /\ rpcs' = rpcs + 1
    /\ UNCHANGED <<config, quit, done, handlers, pc, bounds>>

RpcEnds ==
    /\ rpcs > 0
    /\ rpcs' = rpcs - 1
    /\ UNCHANGED <<config, quit, done, handlers, pc, bounds>>

\* signal.Notify does not block: a signal is dropped when the channel is full.
Signal ==
    /\ signals < MaxSignals
    /\ signals' = signals + 1
    /\ quit' = 1
    /\ UNCHANGED <<config, done, handlers, pc, rpcs, serves>>

-----------------------------------------------------------------------------
ServeProceeds == Accept \/ CloseDone \/ Join \/ ServeReturns
WaiterProceeds == SignalTaken \/ DoneTaken \/ WaiterFlushed
Proceeds(a) ==
    \/ CallHandler(a) \/ HandlerReturns(a) \/ SkipHandler(a)
    \/ StopNow(a) \/ StopReturns(a) \/ Drain(a) \/ Drained(a)

Next ==
    \/ Serve \/ SetListener \/ ServeEnds \/ ServeProceeds \/ WaiterProceeds
    \/ \E a \in Actors :
          \/ StopCall(a, "stop") \/ StopCall(a, "graceful") \/ Register(a)
          \/ Proceeds(a)
    \/ RpcBegins \/ RpcEnds \/ Signal

(* Every goroutine that can go on does, handlers and calls end, and the
   server's Serve returns once it is stopped.  No one is obliged to call, and
   a listener never has to fail. *)
Fairness ==
    /\ WF_vars(ServeProceeds)
    /\ WF_vars(ServeEnds /\ server = "stopped")
    /\ WF_vars(WaiterProceeds)
    /\ \A a \in Actors : WF_vars(Proceeds(a))
    /\ WF_vars(RpcEnds)

Spec == Init /\ [][Next]_vars
FairSpec == Spec /\ Fairness

-----------------------------------------------------------------------------
(* Properties. *)

(* When Serve, Stop or GracefulStop returns, every provider has been flushed,
   also when another goroutine is the one that ran the handlers, and however
   they meet each provider is shut down once; and when Serve returns its
   waiter is gone, so a later signal is not taken by it. *)
FlushedOnReturn ==
    /\ \A a \in Stoppers \cup {Serving} : pc[a] = "returned" =>
          \A k \in 1..list : once[k] = "done"
    /\ \A k \in Handlers : invoked[k] <= 1
    /\ pc[Serving] \in {"cleanup", "returned"} =>
          pc[Waiter] \in {"idle", "returned"}

(* One signal, one Stop, a graceful stop or a failing listener: Serve returns.
   The waiter, the handlers and the deferred cleanup never wait for each
   other in a circle. *)
ServeTerminates ==
    /\ quit = 1 /\ pc[Serving] \in {"accept", "serving"}
          ~> pc[Serving] = "returned"
    /\ (\E a \in Stoppers : pc[a] \in {"stop", "graceful"})
          ~> pc[Serving] \in {"idle", "returned"}
=============================================================================
