---------------------------- MODULE ServersProofs ----------------------------
(***************************************************************************)
(* Proofs about the two servers and the telemetry that they share with the *)
(* rest of the process.  Of GrpcServer, for any number of callers and of   *)
(* shutdown handlers: whoever returns has seen every handler end, and no   *)
(* handler runs twice.  Of GinServer, for any environments and settings    *)
(* and any number of calls: the shutdown of every provider has been tried  *)
(* when Start returns, only what failed to shut down is out of reach, and  *)
(* mutual TLS is honoured.                                                 *)
(***************************************************************************)
EXTENDS GrpcServer, GinServer, TLAPS


\* A caller of shutdown has passed a handler only when the handler has ended.
Passed ==
    \A a \in Actors : \A k \in Handlers : k < walk[a] => once[k] = "done"

\* A handler was called once, unless nobody has come yet.
Counted ==
    \A k \in Handlers : invoked[k] = IF once[k] = "fresh" THEN 0 ELSE 1

\* Who has returned has walked the whole list.
Walked ==
    \A a \in Stoppers \cup {Serving} : pc[a] = "returned" => walk[a] > list

\* The waiter lives only while Serve is between its start and its join.
WaiterJoined ==
    pc[Serving] \in {"idle", "cleanup", "returned"} =>
        pc[Waiter] \in {"idle", "returned"}

\* What the calls of a stopper and of Serve may be doing.
Roles ==
    /\ \A a \in Stoppers : pc[a] \in {"idle", "stop", "graceful", "drain", "cleanup", "returned"}
    /\ pc[Serving] \in {"idle", "accept", "serving", "closeDone", "join", "cleanup", "returned"}
    /\ pc[Waiter] \in {"idle", "select", "flush", "graceful", "drain", "returned"}

(* The inductive invariant. *)
IInv == TypeOK /\ Passed /\ Counted /\ Walked /\ WaiterJoined /\ Roles

-----------------------------------------------------------------------------
\* Nobody has started and no handler was called.
LEMMA InitIInv == Init => IInv
<1>. SUFFICES ASSUME Init PROVE IInv
  OBVIOUS
<1>. USE GrpcServerAssumption DEF GrpcServerAssumption, Actors, Handlers
<1>1. TypeOK
  <2>1. /\ {N, MaxServes, MaxSignals, MaxRpcs} \subseteq Nat
        /\ 1 \in 1..N + 1 /\ 0 \in 0..MaxRpcs /\ 0 \in 0..MaxServes /\ 0 \in 0..MaxSignals
    OBVIOUS
  <2>2. serverErr \in BOOLEAN /\ server \in {"nil", "up", "draining", "stopped"}
    BY DEF Init
  <2>3. list \in {0, N}
    BY DEF Init
  <2>4. /\ listener \in {"nil", "open", "closed"} /\ quit \in 0..1
        /\ pc \in [Actors -> States]
    BY DEF Init, States
  <2>7. done \in BOOLEAN
    BY Zenon DEF Init
  <2>5. /\ once \in [Handlers -> Actors \cup {"fresh", "done"}]
        /\ walk \in [Actors -> 1..N + 1] /\ invoked \in [Handlers -> Nat]
    BY <2>1 DEF Init
  <2>6. rpcs \in 0..MaxRpcs /\ serves \in 0..MaxServes /\ signals \in 0..MaxSignals
    BY <2>1 DEF Init
  <2>. QED
    BY <2>2, <2>3, <2>4, <2>5, <2>6, <2>7 DEF TypeOK
<1>2. Passed /\ Counted
  BY DEF Init, Passed, Counted
<1>3. Walked /\ WaiterJoined /\ Roles
  BY DEF Init, Walked, WaiterJoined, Roles
<1>. QED
  BY <1>1, <1>2, <1>3 DEF IInv

\* The types of the configuration, of the bounds and of the control states are
\* kept by every step.
LEMMA TypesPreserved ==
    ASSUME IInv, [Next]_vars
    PROVE  TypeOK'
<1>. USE GrpcServerAssumption
     DEF GrpcServerAssumption, IInv, TypeOK, Actors, Handlers, config, handlers, bounds, Goto, States
<1>1. ASSUME Serve PROVE TypeOK'
  <2>1. server' \in {"nil", "up", "draining", "stopped"} /\ serverErr' \in BOOLEAN
    BY <1>1 DEF Serve, EnsureServer
  <2>2. walk' \in [Actors -> 1..N + 1]
    BY <1>1 DEF Serve
  <2>3. /\ pc' \in [Actors -> States]
        /\ listener' \in {"nil", "open", "closed"}
    BY <1>1 DEF Serve
  <2>4. serves' \in 0..MaxServes
    BY <1>1 DEF Serve
  <2>5. done' \in BOOLEAN
    BY <1>1, Zenon DEF Serve
  <2>. QED
    BY <1>1, <2>1, <2>2, <2>3, <2>4, <2>5 DEF Serve
<1>2. ASSUME SetListener \/ ServeEnds \/ ServeProceeds PROVE TypeOK'
  BY <1>2 DEF SetListener, ServeEnds, ServeProceeds, Accept, CloseDone, Join, ServeReturns
<1>3. ASSUME WaiterProceeds PROVE TypeOK'
  BY <1>3 DEF WaiterProceeds, SignalTaken, DoneTaken, WaiterFlushed
<1>4. ASSUME NEW a \in Actors, NEW kind \in {"stop", "graceful"}, StopCall(a, kind) PROVE TypeOK'
  BY <1>4 DEF StopCall, EnsureServer
<1>5. ASSUME NEW a \in Actors, Register(a) PROVE TypeOK'
  BY <1>5 DEF Register, EnsureServer
<1>6. ASSUME NEW a \in Actors, CallHandler(a) PROVE TypeOK'
  <2>1. walk[a] \in 1..N /\ walk[a] \in Handlers
    BY <1>6 DEF CallHandler, Flushing
  <2>. QED
    BY <1>6, <2>1 DEF CallHandler
<1>7. ASSUME NEW a \in Actors, HandlerReturns(a) \/ SkipHandler(a) PROVE TypeOK'
  <2>1. walk[a] \in 1..N /\ walk[a] + 1 \in 1..N + 1
    BY <1>7 DEF HandlerReturns, SkipHandler, Flushing
  <2>. QED
    BY <1>7, <2>1 DEF HandlerReturns, SkipHandler
<1>8. ASSUME NEW a \in Actors, StopNow(a) \/ StopReturns(a) \/ Drain(a) \/ Drained(a) PROVE TypeOK'
  BY <1>8 DEF StopNow, StopReturns, Drain, Drained
<1>9. ASSUME RpcBegins \/ RpcEnds \/ Signal PROVE TypeOK'
  BY <1>9 DEF RpcBegins, RpcEnds, Signal
<1>10. CASE UNCHANGED vars
  BY <1>10 DEF vars
<1>. QED
  BY <1>1, <1>2, <1>3, <1>4, <1>5, <1>6, <1>7, <1>8, <1>9, <1>10 DEF Next, Proceeds

\* No goroutine is named like a state of a handler's sync.Once.
LEMMA Names == \A a \in Actors : a # "fresh" /\ a # "done"
BY GrpcServerAssumption, Zenon DEF GrpcServerAssumption, Actors

\* sync.Once: a handler that ended stays ended, so what a caller has passed stays
\* passed, and the second caller neither runs the handler nor overtakes it.
LEMMA OncesPreserved ==
    ASSUME IInv, [Next]_vars
    PROVE  Passed' /\ Counted'
<1>. USE GrpcServerAssumption
     DEF GrpcServerAssumption, IInv, TypeOK, Actors, Handlers, config, handlers, bounds, Passed, Counted
<1>1. ASSUME UNCHANGED <<once, walk, invoked>> PROVE Passed' /\ Counted'
  BY <1>1
<1>2. ASSUME Serve PROVE Passed' /\ Counted'
  <2>1. \A a \in Actors : walk'[a] = walk[a] \/ walk'[a] = 1
    BY <1>2 DEF Serve
  <2>2. UNCHANGED <<once, invoked>>
    BY <1>2 DEF Serve
  <2>. QED
    BY <2>1, <2>2
<1>3. ASSUME NEW a \in Actors, CallHandler(a) PROVE Passed' /\ Counted'
  <2>1. walk[a] \in Handlers /\ once[walk[a]] = "fresh"
    BY <1>3 DEF CallHandler, Flushing, Calls
  <2>3. a # "fresh"
    BY Names, Zenon DEF Actors
  <2>2. /\ once' = [once EXCEPT ![walk[a]] = a]
        /\ invoked' = [invoked EXCEPT ![walk[a]] = @ + 1]
        /\ walk' = walk
    BY <1>3 DEF CallHandler
  <2>. QED
    BY <2>1, <2>2, <2>3
<1>4. ASSUME NEW a \in Actors, HandlerReturns(a) PROVE Passed' /\ Counted'
  <2>1. walk[a] \in Handlers /\ once[walk[a]] = a
    BY <1>4 DEF HandlerReturns, Flushing
  <2>3. a # "fresh"
    BY Names, Zenon DEF Actors
  <2>2. /\ once' = [once EXCEPT ![walk[a]] = "done"]
        /\ walk' = [walk EXCEPT ![a] = @ + 1]
        /\ invoked' = invoked
    BY <1>4 DEF HandlerReturns
  <2>. QED
    BY <2>1, <2>2, <2>3
<1>5. ASSUME NEW a \in Actors, SkipHandler(a) PROVE Passed' /\ Counted'
  <2>1. walk[a] \in Handlers /\ once[walk[a]] = "done"
    BY <1>5 DEF SkipHandler, Flushing, Passes
  <2>2. walk' = [walk EXCEPT ![a] = @ + 1] /\ UNCHANGED <<once, invoked>>
    BY <1>5 DEF SkipHandler
  <2>. QED
    BY <2>1, <2>2
<1>6. ASSUME SetListener \/ ServeEnds \/ ServeProceeds \/ WaiterProceeds \/ RpcBegins \/ RpcEnds \/ Signal
      PROVE  UNCHANGED <<once, walk, invoked>>
  BY <1>6 DEF SetListener, ServeEnds, ServeProceeds, Accept, CloseDone, Join, ServeReturns,
              WaiterProceeds, SignalTaken, DoneTaken, WaiterFlushed, RpcBegins, RpcEnds, Signal
<1>7. ASSUME NEW a \in Actors,
             \/ StopCall(a, "stop") \/ StopCall(a, "graceful") \/ Register(a)
             \/ StopNow(a) \/ StopReturns(a) \/ Drain(a) \/ Drained(a)
      PROVE  UNCHANGED <<once, walk, invoked>>
  BY <1>7 DEF StopCall, Register, StopNow, StopReturns, Drain, Drained
<1>8. CASE UNCHANGED vars
  BY <1>1, <1>8 DEF vars
<1>. QED
  BY <1>1, <1>2, <1>3, <1>4, <1>5, <1>6, <1>7, <1>8 DEF Next, Proceeds

\* Serve joins its waiter before it cleans up, and nobody returns before the end
\* of the list.
LEMMA ControlPreserved ==
    ASSUME IInv, [Next]_vars
    PROVE  Walked' /\ WaiterJoined' /\ Roles'
<1>. DEFINE Control == Walked /\ WaiterJoined /\ Roles
<1>. SUFFICES Control'
  OBVIOUS
<1>. USE GrpcServerAssumption
     DEF GrpcServerAssumption, IInv, TypeOK, Actors, config, handlers, bounds, Goto,
         Walked, WaiterJoined, Roles
<1>1. ASSUME Serve PROVE Control'
  <2>1. \A a \in Stoppers : pc'[a] = pc[a] /\ walk'[a] = walk[a]
    BY <1>1 DEF Serve
  <2>2. list' = list
    BY <1>1 DEF Serve
  <2>3. \/ pc'[Serving] = "cleanup" /\ pc'[Waiter] = pc[Waiter]
        \/ pc'[Serving] = "accept" /\ pc'[Waiter] = "select"
    BY <1>1 DEF Serve
  <2>4. pc[Serving] \in {"idle", "returned"}
    BY <1>1 DEF Serve
  <2>. QED
    BY <2>1, <2>2, <2>3, <2>4
<1>2. ASSUME SetListener \/ ServeEnds \/ ServeProceeds PROVE Control'
  BY <1>2 DEF SetListener, ServeEnds, ServeProceeds, Accept, CloseDone, Join, WaiterDone, ServeReturns, Flushed
<1>3. ASSUME WaiterProceeds PROVE Control'
  BY <1>3 DEF WaiterProceeds, SignalTaken, DoneTaken, WaiterFlushed
<1>4. ASSUME NEW a \in Actors, NEW kind \in {"stop", "graceful"}, StopCall(a, kind) PROVE Control'
  BY <1>4 DEF StopCall
<1>5. ASSUME NEW a \in Actors, Register(a) PROVE Control'
  BY <1>5 DEF Register
<1>6. ASSUME NEW a \in Actors, CallHandler(a) PROVE Control'
  BY <1>6 DEF CallHandler
<1>7. ASSUME NEW a \in Actors, HandlerReturns(a) \/ SkipHandler(a) PROVE Control'
  <2>1. /\ walk' = [walk EXCEPT ![a] = @ + 1]
        /\ UNCHANGED <<pc, list>>
        /\ pc[a] # "returned"
    BY <1>7 DEF HandlerReturns, SkipHandler, Flushing
  <2>. QED
    BY <2>1
<1>8. ASSUME NEW a \in Actors, StopNow(a) \/ StopReturns(a) PROVE Control'
  BY <1>8 DEF StopNow, StopReturns, Flushed
<1>9. ASSUME NEW a \in Actors, Drain(a) \/ Drained(a) PROVE Control'
  BY <1>9 DEF Drain, Drained
<1>10. ASSUME RpcBegins \/ RpcEnds \/ Signal PROVE Control'
  BY <1>10 DEF RpcBegins, RpcEnds, Signal
<1>11. CASE UNCHANGED vars
  BY <1>11 DEF vars
<1>. QED
  BY <1>1, <1>2, <1>3, <1>4, <1>5, <1>6, <1>7, <1>8, <1>9, <1>10, <1>11 DEF Next, Proceeds

\* IInv is an invariant of the server wrapper.
LEMMA Invariance == Spec => []IInv
<1>1. ASSUME IInv, [Next]_vars PROVE IInv'
  BY <1>1, TypesPreserved, OncesPreserved, ControlPreserved DEF IInv
<1>. QED
  BY <1>1, InitIInv, PTL DEF Spec

\* All variables of the wrapper keep their types.
THEOREM TypeCorrectness == Spec => []TypeOK
BY Invariance, PTL DEF IInv

\* Serve, Stop and GracefulStop return only when every shutdown handler of the
\* list has ended, each handler runs once, and Serve leaves no waiter behind.
THEOREM ReturnsAreFlushed == Spec => []FlushedOnReturn
<1>1. IInv => FlushedOnReturn
  <2>. SUFFICES ASSUME IInv PROVE FlushedOnReturn
    OBVIOUS
  <2>. USE GrpcServerAssumption DEF GrpcServerAssumption, IInv, TypeOK, Actors, Handlers
  <2>1. ASSUME NEW a \in Stoppers \cup {Serving}, pc[a] = "returned", NEW k \in 1..list
        PROVE  once[k] = "done"
    BY <2>1 DEF Passed, Walked
  <2>2. \A k \in Handlers : invoked[k] <= 1
    BY DEF Counted
  <2>. QED
    BY <2>1, <2>2 DEF FlushedOnReturn, WaiterJoined
<1>. QED
  BY <1>1, Invariance, PTL

-----------------------------------------------------------------------------
(* The HTTP server. *)

Kinds     == Signals \cup {"exporter"}
Providers == [kind : Kinds, gen : Nat]
Globals   == [Signals -> Providers \cup {NoProvider}]

TelStates == [up : SUBSET Providers, failed : SUBSET Providers, previous : SUBSET Providers,
              gen : Nat, released : SUBSET Nat, global : Globals]

\* Nobody will shut it down any more: it was tried and failed, or nobody has it.
GivenUp(t, p) == p \in t.failed \/ p.kind = "exporter"

(* What every initialisation and shutdown keeps: generations grow, so a new one
   is not released yet; an exporter without a provider is of an initialisation
   that failed; and of the providers that are not given up, none is released,
   and a tracer or meter is the global one and the one the next InitOtel shuts
   down. *)
Sound(t) ==
    /\ t \in TelStates
    /\ \A g \in t.released : g <= t.gen
    /\ \A p \in t.up : 1 <= p.gen /\ p.gen <= t.gen
    /\ \A p \in t.up : ~GivenUp(t, p) => p.gen \notin t.released
    /\ \A p \in t.up : ~GivenUp(t, p) /\ p.kind # "logs" => p \in t.previous /\ t.global[p.kind] = p

\* A provider that was shut down and is still up is one whose shutdown failed;
\* the rest is as it was.
LEMMA ShutFacts ==
    ASSUME NEW t \in TelStates, NEW S, NEW lost, NEW u, u = Shut(t, S, lost)
    PROVE  /\ u \in TelStates
           /\ u.up \subseteq t.up /\ t.failed \subseteq u.failed
           /\ \A p \in u.up : p \in S => p \in u.failed
           /\ u.gen = t.gen /\ u.released = t.released /\ u.global = t.global
           /\ u.previous = t.previous
<1>. DEFINE tried == (S \cap t.up) \ t.failed
<1>1. u = [t EXCEPT !.up = t.up \ (tried \ lost), !.failed = t.failed \cup (tried \cap lost)]
  BY Zenon DEF Shut
<1>2. /\ u.up = t.up \ (tried \ lost) /\ u.failed = t.failed \cup (tried \cap lost)
      /\ u.gen = t.gen /\ u.released = t.released /\ u.global = t.global
      /\ u.previous = t.previous
  BY <1>1 DEF TelStates
<1>3. u \in TelStates
  BY <1>1 DEF TelStates
<1>. QED BY <1>2, <1>3

LEMMA ShutSound ==
    ASSUME NEW t, Sound(t), NEW S, NEW lost, NEW u, u = Shut(t, S, lost)
    PROVE  Sound(u)
<1>1. t \in TelStates
  BY DEF Sound
<1>2. /\ u \in TelStates
      /\ u.up \subseteq t.up /\ t.failed \subseteq u.failed
      /\ u.gen = t.gen /\ u.released = t.released /\ u.global = t.global
      /\ u.previous = t.previous
  BY <1>1, ShutFacts
<1>. QED BY <1>2 DEF Sound, GivenUp

\* InitLogger adds at most the logger provider of the new generation.
LEMMA InitLoggerSound ==
    ASSUME NEW t, Sound(t), NEW e \in Environments,
           NEW u, u = [InitLogger(t, e, t.gen + 1) EXCEPT !.gen = t.gen + 1]
    PROVE  /\ Sound(u) /\ u.gen = t.gen + 1
           /\ u.up \subseteq t.up \cup {Provider("logs", t.gen + 1)}
           /\ u.failed = t.failed /\ u.released = t.released
<1>. DEFINE p == Provider("logs", t.gen + 1)
            up == t.up \cup LoggerOf(e, t.gen + 1)
            global == IF LoggerOf(e, t.gen + 1) = {} THEN t.global ELSE [t.global EXCEPT !["logs"] = p]
            v == InitLogger(t, e, t.gen + 1)
<1>0. t \in TelStates /\ t.gen \in Nat
  BY DEF Sound, TelStates
<1>1. LoggerOf(e, t.gen + 1) \subseteq {p}
  BY DEF LoggerOf, Made
<1>2. p \in Providers /\ p.kind = "logs" /\ p.gen = t.gen + 1
  BY <1>0 DEF Provider, Providers, Kinds, Signals
<1>3. up \in SUBSET Providers
  BY <1>0, <1>1, <1>2 DEF TelStates
<1>4. t.global \in Globals
  BY <1>0 DEF TelStates
<1>5. global \in Globals /\ \A k \in Signals : k # "logs" => global[k] = t.global[k]
  BY <1>2, <1>4 DEF Globals
<1>6. v = [t EXCEPT !.up = up, !.global = global]
  BY Zenon DEF InitLogger
<1>7. /\ v \in TelStates
      /\ v.up = up /\ v.global = global /\ v.previous = t.previous /\ v.released = t.released
      /\ v.failed = t.failed
  <2>. HIDE DEF up, global, v
  <2>. QED BY <1>0, <1>3, <1>5, <1>6 DEF TelStates
<1>8. /\ u \in TelStates /\ u.gen = t.gen + 1
      /\ u.up = up /\ u.global = global /\ u.previous = t.previous /\ u.released = t.released
      /\ u.failed = t.failed
  <2>. HIDE DEF up, global, v
  <2>1. u = [v EXCEPT !.gen = t.gen + 1]
    BY DEF v
  <2>. QED BY <1>0, <1>7, <2>1 DEF TelStates
<1>9. \A q \in u.up : q \in t.up \/ q = p
  BY <1>1, <1>8
<1>10. \A q \in t.up : q.kind \in Kinds /\ q.gen \in Nat
  BY <1>0 DEF TelStates, Providers
<1>11. Sound(u)
  <2>. HIDE DEF p, up, global
  <2>1. \A h \in u.released : h <= u.gen
    BY <1>0, <1>8 DEF Sound, TelStates
  <2>2. \A q \in u.up : 1 <= q.gen /\ q.gen <= u.gen
    BY <1>0, <1>2, <1>8, <1>9, <1>10 DEF Sound
  <2>3. \A q \in u.up : ~GivenUp(u, q) => q.gen \notin u.released
    BY <1>0, <1>2, <1>8, <1>9, <1>10 DEF Sound, GivenUp, TelStates
  <2>4. \A q \in u.up : ~GivenUp(u, q) /\ q.kind # "logs" => q \in u.previous /\ u.global[q.kind] = q
    BY <1>2, <1>5, <1>8, <1>9, <1>10 DEF Sound, GivenUp, Kinds
  <2>. QED BY <1>8, <2>1, <2>2, <2>3, <2>4 DEF Sound
<1>. QED
  BY <1>1, <1>8, <1>11

\* InitOtel replaces the pipeline by that of the new generation, or by none.
LEMMA InitOtelSound ==
    ASSUME NEW t, Sound(t), t.gen >= 1, t.gen \notin t.released, NEW e \in Environments,
           NEW lost, NEW u, u = InitOtel(t, e, t.gen, lost)
    PROVE  /\ Sound(u) /\ u.gen = t.gen /\ u.released = t.released
           /\ u.up \subseteq t.up \cup PipelineOf(e, t.gen)
           /\ t.failed \subseteq u.failed
           /\ OtelFails(e) => \A p \in u.up : p \in t.up \/ p \in u.failed
<1>. DEFINE g == t.gen
            s == Shut(t, t.previous, lost)
            d == [s EXCEPT !.previous = {}]
            new == PipelineOf(e, g)
            one == [d.global EXCEPT !["traces"] = Global(e.traces, "traces", g)]
            both == [d.global EXCEPT !["traces"] = Global(e.traces, "traces", g),
                                     !["metrics"] = Global(e.metrics, "metrics", g)]
            none == [d.global EXCEPT !["traces"] = NoProvider, !["metrics"] = NoProvider]
<1>0. t \in TelStates /\ g \in Nat
  BY DEF Sound, TelStates
<1>1. /\ d \in TelStates /\ d.up \subseteq t.up /\ t.failed \subseteq d.failed
      /\ d.gen = g /\ d.released = t.released
      /\ d.previous = {} /\ d.global = t.global /\ d.global \in Globals
      /\ \A q \in d.up : q \in t.previous => q \in d.failed
  <2>1. /\ s \in TelStates /\ s.up \subseteq t.up /\ t.failed \subseteq s.failed
        /\ s.gen = g /\ s.released = t.released /\ s.global = t.global
        /\ \A q \in s.up : q \in t.previous => q \in s.failed
    <3>. HIDE DEF g, s
    <3>. QED BY <1>0, ShutFacts DEF g, s
  <2>. HIDE DEF g, s
  <2>. QED BY <2>1 DEF TelStates
<1>2. \A q \in d.up : /\ q.gen \in Nat
                      /\ ~GivenUp(d, q) => q.kind = "logs"
  <2>. HIDE DEF d
  <2>. QED BY <1>0, <1>1 DEF Sound, GivenUp, TelStates, Providers
<1>3. /\ Provider("metrics", g) \in Providers /\ Provider("traces", g) \in Providers
      /\ Provider("metrics", g).gen = g /\ Provider("traces", g).gen = g
      /\ Provider("metrics", g).kind = "metrics" /\ Provider("traces", g).kind = "traces"
  BY <1>0 DEF Provider, Providers, Kinds, Signals
<1>4. new \subseteq {Provider("metrics", g), Provider("traces", g)}
  BY DEF PipelineOf, Made
<1>5. one \in Globals /\ both \in Globals /\ none \in Globals
  <2>1. Global(e.traces, "traces", g) \in Providers \cup {NoProvider}
    BY <1>3 DEF Global
  <2>2. Global(e.metrics, "metrics", g) \in Providers \cup {NoProvider}
    BY <1>3 DEF Global
  <2>. HIDE DEF d, g
  <2>. QED BY <1>1, <2>1, <2>2 DEF Globals
<1>6. \A q \in new : both[q.kind] = q
  <2>1. Provider("metrics", g) \in new => both["metrics"] = Provider("metrics", g)
    <3>1. Provider("metrics", g) \in new => e.metrics = "on"
      BY <1>3 DEF PipelineOf, Made
    <3>2. e.metrics = "on" => both["metrics"] = Provider("metrics", g)
      <4>. HIDE DEF d, g
      <4>. QED BY <1>1 DEF Global, Globals, Signals
    <3>. QED BY <3>1, <3>2
  <2>2. Provider("traces", g) \in new => both["traces"] = Provider("traces", g)
    <3>1. Provider("traces", g) \in new => e.traces = "on"
      BY <1>3 DEF PipelineOf, Made
    <3>2. e.traces = "on" => both["traces"] = Provider("traces", g)
      <4>. HIDE DEF d, g
      <4>. QED BY <1>1 DEF Global, Globals, Signals
    <3>. QED BY <3>1, <3>2
  <2>. QED BY <1>3, <1>4, <2>1, <2>2
<1>7. \A q \in d.up : /\ 1 <= q.gen /\ q.gen <= g
                      /\ ~GivenUp(d, q) => q.gen \notin t.released
  <2>. HIDE DEF d
  <2>. QED BY <1>1 DEF Sound, GivenUp
<1>8. \A h \in t.released : h <= g
  BY DEF Sound
<1>9. CASE e.disabled
  <2>1. u = [d EXCEPT !.global = none]
    BY <1>9, Zenon DEF InitOtel
  <2>. HIDE DEF d, s, g, none, new
  <2>2. /\ u \in TelStates /\ u.up = d.up /\ u.gen = g /\ u.released = t.released
        /\ u.failed = d.failed
    BY <1>1, <1>5, <2>1 DEF TelStates
  <2>. QED BY <1>1, <1>2, <1>7, <1>8, <1>9, <2>2 DEF Sound, GivenUp, OtelFails, g
<1>10. CASE ~e.disabled /\ (e.resource = "fail" \/ e.traces = "fail")
  <2>1. u = d
    BY <1>10, Zenon DEF InitOtel
  <2>. HIDE DEF d, s, g, new
  <2>. QED BY <1>1, <1>2, <1>7, <1>8, <2>1 DEF Sound, GivenUp, g
<1>11. CASE ~e.disabled /\ ~(e.resource = "fail" \/ e.traces = "fail") /\ e.metrics = "fail"
  <2>. DEFINE mt == Made(e.traces, "traces", g)
              tracer == [d EXCEPT !.up = @ \cup mt, !.global = one]
  <2>0. e.resource = "ok" /\ e.traces # "fail"
    BY <1>11 DEF Environments
  <2>1. u = Shut(tracer, {Provider("traces", g)}, lost)
    BY <1>11, <2>0, Zenon DEF InitOtel
  <2>2. mt \subseteq {Provider("traces", g)} /\ mt \subseteq new
    BY <1>11 DEF Made, PipelineOf
  <2>. HIDE DEF d, s, g, one, new, mt
  <2>3. /\ tracer \in TelStates /\ tracer.up = d.up \cup mt /\ tracer.gen = g
        /\ tracer.released = t.released /\ tracer.failed = d.failed
    BY <1>1, <1>3, <1>5, <2>2 DEF TelStates
  <2>. HIDE DEF tracer
  <2>4. /\ u \in TelStates /\ u.up \subseteq d.up \cup mt /\ u.gen = g /\ u.released = t.released
        /\ d.failed \subseteq u.failed
        /\ Provider("traces", g) \in u.up => Provider("traces", g) \in u.failed
    BY <2>1, <2>3, ShutFacts
  <2>5. \A q \in u.up : q \in d.up \/ (q \in u.failed /\ q.gen = g)
    BY <1>3, <2>2, <2>4
  <2>6. Sound(u)
    BY <1>0, <1>2, <1>7, <1>8, <2>4, <2>5 DEF Sound, GivenUp, g
  <2>. QED BY <1>1, <2>2, <2>4, <2>5, <2>6 DEF g, new
<1>12. CASE ~e.disabled /\ ~(e.resource = "fail" \/ e.traces = "fail") /\ e.metrics # "fail"
  <2>. DEFINE mt == Made(e.traces, "traces", g)
              mm == Made(e.metrics, "metrics", g)
              tracer == [d EXCEPT !.up = @ \cup mt, !.global = one]
  <2>0. e.disabled = FALSE /\ new = mt \cup mm
    BY <1>12 DEF PipelineOf, Environments
  <2>1. u = [tracer EXCEPT !.up = @ \cup mm, !.previous = new,
                           !.global = [@ EXCEPT !["metrics"] = Global(e.metrics, "metrics", g)]]
    BY <1>12, Zenon DEF InitOtel
  <2>2. ~OtelFails(e)
    BY <1>12 DEF OtelFails
  <2>9. [one EXCEPT !["metrics"] = Global(e.metrics, "metrics", g)] = both
    OBVIOUS
  <2>. HIDE DEF d, s, g, one, both, new, mt, mm
  <2>3. new \in SUBSET Providers
    BY <1>3, <1>4
  <2>8. /\ tracer \in TelStates /\ tracer.up = d.up \cup mt /\ tracer.gen = g
        /\ tracer.released = t.released /\ tracer.failed = d.failed /\ tracer.global = one
    BY <1>1, <1>5, <2>0, <2>3 DEF TelStates
  <2>. HIDE DEF tracer
  <2>4. /\ u \in TelStates /\ u.up = d.up \cup new /\ u.gen = g /\ u.released = t.released
        /\ u.previous = new /\ u.global = both /\ u.failed = d.failed
    <3>1. u = [tracer EXCEPT !.up = d.up \cup new, !.previous = new, !.global = both]
      BY <2>0, <2>1, <2>8, <2>9
    <3>. QED BY <1>1, <1>5, <2>3, <2>8, <3>1 DEF TelStates
  <2>5. \A q \in new : 1 <= q.gen /\ q.gen <= g /\ q.gen \notin t.released
    BY <1>0, <1>3, <1>4 DEF g
  <2>6. \A q \in u.up : ~GivenUp(u, q) /\ q.kind # "logs" => q \in u.previous /\ u.global[q.kind] = q
    BY <1>2, <1>6, <2>4 DEF GivenUp
  <2>7. Sound(u)
    BY <1>7, <1>8, <2>4, <2>5, <2>6 DEF Sound, GivenUp
  <2>. QED BY <1>1, <2>2, <2>4, <2>7 DEF g, new
<1>. QED BY <1>9, <1>10, <1>11, <1>12

\* Releasing a generation of which only what is given up is still up.
LEMMA ReleaseSound ==
    ASSUME NEW t, Sound(t), NEW g \in Nat, g <= t.gen, \A p \in t.up : p.gen = g => GivenUp(t, p),
           NEW u, u = Release(t, g)
    PROVE  /\ Sound(u) /\ u.up = t.up /\ u.gen = t.gen
           /\ u.failed = t.failed /\ u.released = t.released \cup {g}
<1>1. t \in TelStates
  BY DEF Sound
<1>2. /\ u \in TelStates /\ u.up = t.up /\ u.gen = t.gen
      /\ u.released = t.released \cup {g} /\ u.previous = t.previous
      /\ u.global = t.global /\ u.failed = t.failed
  BY <1>1 DEF Release, TelStates
<1>. QED BY <1>2 DEF Sound, GivenUp

\* What the two servers and InitTelemetry do to the providers.
LEMMA InitProvidersSound ==
    ASSUME NEW t, Sound(t), NEW e \in Environments, NEW lost, NEW u, u = initProviders(t, e, lost)
    PROVE  /\ Sound(u) /\ u.gen = t.gen + 1
           /\ t.failed \subseteq u.failed
           /\ \A p \in u.up : p \in t.up \/ p.gen = t.gen + 1
           /\ ~Fails(e) => Provider("exporter", t.gen + 1) \notin u.up
<1>. DEFINE g == t.gen + 1
            logged == [InitLogger(t, e, g) EXCEPT !.gen = g]
            otel == InitOtel(logged, e, g, lost)
<1>0. t \in TelStates /\ t.gen \in Nat /\ g \in Nat
  BY DEF Sound, TelStates
<1>1. /\ Sound(logged) /\ logged.gen = g /\ logged.released = t.released
      /\ logged.failed = t.failed
      /\ logged.up \subseteq t.up \cup {Provider("logs", g)}
  <2>. HIDE DEF logged
  <2>1. logged = [InitLogger(t, e, t.gen + 1) EXCEPT !.gen = t.gen + 1]
    BY DEF logged
  <2>. QED BY <2>1, InitLoggerSound
<1>2. g >= 1 /\ g \notin t.released /\ \A p \in t.up : p.gen # g
  BY <1>0 DEF Sound, TelStates, Providers
<1>3. /\ Sound(otel) /\ otel.gen = g /\ otel.released = t.released
      /\ otel.up \subseteq logged.up \cup PipelineOf(e, g)
      /\ t.failed \subseteq otel.failed
      /\ OtelFails(e) => \A p \in otel.up : p \in logged.up \/ p \in otel.failed
  <2>. HIDE DEF logged, g
  <2>1. otel = InitOtel(logged, e, logged.gen, lost)
    BY <1>1
  <2>. HIDE DEF otel
  <2>. QED BY <1>1, <1>2, <2>1, InitOtelSound
<1>4. \A p \in otel.up : p \in t.up \/ (p.gen = g /\ p.kind # "exporter")
  <2>1. \A p \in PipelineOf(e, g) : p.gen = g /\ p.kind # "exporter"
    BY DEF PipelineOf, Made, Provider
  <2>2. Provider("logs", g).gen = g /\ Provider("logs", g).kind = "logs"
    BY DEF Provider
  <2>. HIDE DEF logged, otel, g
  <2>. QED BY <1>1, <1>3, <2>1, <2>2
<1>5. CASE LoggerFails(e)
  <2>. DEFINE up == t.up \cup Orphan(e, g)
  <2>1. u = [t EXCEPT !.gen = g, !.released = t.released \cup {g}, !.up = up]
    BY <1>5, Zenon DEF initProviders
  <2>2. \A p \in Orphan(e, g) : p \in Providers /\ p.gen = g /\ p.kind = "exporter"
    BY <1>0 DEF Orphan, Provider, Providers, Kinds
  <2>. HIDE DEF g, up
  <2>3. up \in SUBSET Providers
    BY <1>0, <2>2 DEF up, TelStates
  <2>4. /\ u \in TelStates /\ u.up = up /\ u.gen = g /\ u.released = t.released \cup {g}
        /\ u.previous = t.previous /\ u.global = t.global /\ u.failed = t.failed
    BY <1>0, <2>1, <2>3 DEF TelStates
  <2>5. \A p \in u.up : p \in t.up \/ (p.gen = g /\ p.kind = "exporter")
    BY <2>2, <2>4 DEF up
  <2>6. \A p \in t.up : p.gen \in Nat /\ 1 <= p.gen /\ p.gen <= t.gen
    BY <1>0 DEF Sound, TelStates, Providers
  <2>7. t.gen <= g /\ t.released \subseteq Nat
    BY <1>0 DEF g, TelStates
  <2>8. \A h \in u.released : h <= u.gen
    BY <1>0, <2>4, <2>7 DEF Sound
  <2>9. \A p \in u.up : 1 <= p.gen /\ p.gen <= u.gen
    BY <1>0, <1>2, <2>4, <2>5, <2>6, <2>7
  <2>10. \A p \in u.up : ~GivenUp(u, p) => p \in t.up /\ ~GivenUp(t, p) /\ p.gen # g
    BY <1>2, <2>4, <2>5 DEF GivenUp
  <2>11. Sound(u)
    BY <2>4, <2>8, <2>9, <2>10 DEF Sound
  <2>. QED BY <1>5, <2>4, <2>5, <2>11 DEF g, Fails
<1>6. CASE ~LoggerFails(e) /\ OtelFails(e)
  <2>. DEFINE shut == LoggerShutdown(otel, g, lost)
  <2>1. u = Release(shut, g)
    BY <1>6, Zenon DEF initProviders
  <2>2. /\ Sound(shut) /\ shut.gen = g /\ shut.up \subseteq otel.up
        /\ otel.failed \subseteq shut.failed
        /\ Provider("logs", g) \in shut.up => Provider("logs", g) \in shut.failed
    <3>1. otel \in TelStates
      BY <1>3 DEF Sound
    <3>2. shut = Shut(otel, {Provider("logs", g)}, lost)
      BY Zenon DEF LoggerShutdown
    <3>. HIDE DEF shut, otel, g
    <3>. QED BY <1>3, <3>1, <3>2, ShutFacts, ShutSound
  <2>. HIDE DEF logged, otel, shut
  <2>3. \A p \in shut.up : p.gen = g => GivenUp(shut, p)
    <3>. HIDE DEF g
    <3>. QED BY <1>1, <1>2, <1>3, <1>6, <2>2 DEF GivenUp
  <2>4. Sound(u) /\ u.gen = g /\ u.up = shut.up /\ u.failed = shut.failed
    <3>. HIDE DEF g
    <3>. QED BY <1>0, <2>1, <2>2, <2>3, ReleaseSound
  <2>. QED BY <1>3, <1>4, <1>6, <2>2, <2>4 DEF Fails
<1>7. CASE ~LoggerFails(e) /\ ~OtelFails(e)
  <2>1. u = otel
    BY <1>7, Zenon DEF initProviders
  <2>2. Provider("exporter", g) \notin otel.up
    <3>1. Provider("exporter", g).gen = g /\ Provider("exporter", g).kind = "exporter"
      BY DEF Provider
    <3>. HIDE DEF logged, otel, g
    <3>. QED BY <1>2, <1>4, <3>1
  <2>. HIDE DEF otel, logged
  <2>. QED BY <1>3, <1>4, <2>1, <2>2
<1>. QED BY <1>5, <1>6, <1>7

----------------------------------------------------------------------------
(* The server *)

(* The handlers of the server are those of an initialisation that succeeded;
   when one of them ran, what is left of its providers is what failed to shut
   down, and none of them comes back, because every later initialisation has a
   generation of its own. *)
ListFlushed == \A p \in tel.up : p.gen = shutdownList => p \in tel.failed
LogsFlushed == Provider("logs", shutdownList) \in tel.up => Provider("logs", shutdownList) \in tel.failed

Policies == {"requestclientcert", "requireanyclientcert", "verifyclientcertifgiven", "noclientcert",
             "requireandverifyclientcert"}
TLSConfigs == [from : {"none", "custom", "auto", "files"}, clientCAs : BOOLEAN, clientAuth : Policies]

GinIInv ==
    /\ Sound(tel)
    /\ shutdownList \in Nat /\ shutdownList <= tel.gen
    /\ Provider("exporter", shutdownList) \notin tel.up
    /\ handled \in 0..2
    /\ main = "handlers" /\ handled >= 1 => LogsFlushed
    /\ main \in {"drain", "returned"} \/ (main = "handlers" /\ handled = 2) => ListFlushed
    /\ tlsConfig \in TLSConfigs
    /\ MutualTLSHonoured

\* A step that leaves the providers, the handlers and TLS alone.
LEMMA Aside ==
    ASSUME GinIInv, UNCHANGED <<tel, main, shutdownList, handled, tlsConfig, made>>
    PROVE  GinIInv'
BY DEF GinIInv, ListFlushed, LogsFlushed, MutualTLSHonoured

\* The handlers of one generation.
LEMMA HandlersSound ==
    ASSUME NEW t, Sound(t), NEW g, NEW lost,
           NEW a, a = LoggerShutdown(t, g, lost), NEW b, b = OtelShutdown(t, g, lost)
    PROVE  /\ Sound(a) /\ a.gen = t.gen /\ a.up \subseteq t.up /\ t.failed \subseteq a.failed
           /\ Provider("logs", g) \in a.up => Provider("logs", g) \in a.failed
           /\ Sound(b) /\ b.gen = t.gen /\ b.up \subseteq t.up /\ t.failed \subseteq b.failed
           /\ \A k \in {"metrics", "traces"} : Provider(k, g) \in b.up => Provider(k, g) \in b.failed
<1>1. t \in TelStates
  BY DEF Sound
<1>2. a = Shut(t, {Provider("logs", g)}, lost)
  BY DEF LoggerShutdown
<1>3. b = Shut(t, {Provider("metrics", g), Provider("traces", g)}, lost)
  BY DEF OtelShutdown
<1>4. Sound(a) /\ Sound(b)
  BY <1>2, <1>3, ShutSound
<1>5. /\ a.gen = t.gen /\ a.up \subseteq t.up /\ t.failed \subseteq a.failed
      /\ Provider("logs", g) \in a.up => Provider("logs", g) \in a.failed
  BY <1>1, <1>2, ShutFacts
<1>6. /\ b.gen = t.gen /\ b.up \subseteq t.up /\ t.failed \subseteq b.failed
      /\ \A p \in b.up : p \in {Provider("metrics", g), Provider("traces", g)} => p \in b.failed
  BY <1>1, <1>3, ShutFacts
<1>. QED BY <1>4, <1>5, <1>6

\* A provider is one of four of its generation.
LEMMA FourProviders ==
    ASSUME NEW p \in Providers
    PROVE  p \in {Provider(k, p.gen) : k \in {"logs", "metrics", "traces"}} \/ p.kind = "exporter"
BY DEF Providers, Kinds, Signals, Provider

\* Shutting down and releasing a whole generation.
LEMMA TelemetryShutdownSound ==
    ASSUME NEW t, Sound(t), NEW g \in Nat, g <= t.gen, NEW lost,
           NEW u, u = Release(OtelShutdown(LoggerShutdown(t, g, lost), g, lost), g)
    PROVE  Sound(u) /\ u.gen = t.gen /\ u.up \subseteq t.up /\ t.failed \subseteq u.failed
<1>. DEFINE a == LoggerShutdown(t, g, lost)
            b == OtelShutdown(a, g, lost)
<1>1. /\ Sound(a) /\ a.gen = t.gen /\ a.up \subseteq t.up /\ t.failed \subseteq a.failed
      /\ Provider("logs", g) \in a.up => Provider("logs", g) \in a.failed
  BY HandlersSound
<1>2. /\ Sound(b) /\ b.gen = t.gen /\ b.up \subseteq a.up /\ a.failed \subseteq b.failed
      /\ \A k \in {"metrics", "traces"} : Provider(k, g) \in b.up => Provider(k, g) \in b.failed
  <2>. HIDE DEF a
  <2>. QED BY <1>1, HandlersSound
<1>4. u = Release(b, g)
  OBVIOUS
<1>. HIDE DEF a, b
<1>3. \A p \in b.up : p.gen = g => GivenUp(b, p)
  <2>1. \A p \in b.up : p \in Providers
    BY <1>2 DEF Sound, TelStates
  <2>. QED BY <1>1, <1>2, <2>1, FourProviders DEF GivenUp
<1>. QED BY <1>1, <1>2, <1>3, <1>4, ReleaseSound

\* The configurations the package makes itself.
LEMMA MadeTLS ==
    \A f \in {"none", "custom", "auto", "files"} : NewTLS(f) \in TLSConfigs
BY DEF TLSConfigs, NewTLS, Policies

\* Resolving TLS keeps the form of the configuration and honours mutual TLS.
LEMMA ResolvedTLS ==
    ASSUME NEW c \in TLSConfigs, NEW s
    PROVE  /\ resolveTLSAutoConfig(c, s) \in TLSConfigs
           /\ resolveTLSConfig(resolveTLSAutoConfig(c, s), s) \in TLSConfigs
           /\ Resolved(c, s) \in TLSConfigs
           /\ s.mtls => /\ Resolved(c, s).clientCAs
                        /\ Resolved(c, s).clientAuth = parseClientAuth(s.clientAuth)
<1>. DEFINE a == resolveTLSAutoConfig(c, s)
            b == resolveTLSConfig(a, s)
            policy == parseClientAuth(s.clientAuth)
<1>1. a \in TLSConfigs
  BY MadeTLS DEF resolveTLSAutoConfig
<1>2. b \in TLSConfigs
  <2>. HIDE DEF a
  <2>. QED BY <1>1, MadeTLS DEF resolveTLSConfig
<1>3. policy \in Policies
  BY DEF parseClientAuth, Policies
<1>4. Resolved(c, s) = IF s.mtls THEN [b EXCEPT !.clientCAs = TRUE, !.clientAuth = policy] ELSE b
  BY Zenon DEF Resolved, resolvemTLSConfig
<1>. HIDE DEF a, b, policy
<1>5. /\ Resolved(c, s) \in TLSConfigs
      /\ s.mtls => Resolved(c, s).clientCAs /\ Resolved(c, s).clientAuth = policy
  BY <1>2, <1>3, <1>4 DEF TLSConfigs
<1>. QED BY <1>1, <1>2, <1>5 DEF a, b, policy

\* A step of the server or of other code keeps the invariant.
LEMMA GinStep ==
    ASSUME Environment \subseteq Environments, GinIInv, [GinNext]_ginVars
    PROVE  GinIInv'
<1>0. /\ Sound(tel) /\ tel.gen \in Nat /\ shutdownList \in Nat /\ shutdownList <= tel.gen
      /\ handled \in 0..2
      /\ \A p \in tel.up : p.gen \in Nat /\ 1 <= p.gen /\ p.gen <= tel.gen
  BY DEF GinIInv, Sound, TelStates, Providers
<1>1. CASE SetTLSsConfig
  <2>1. tlsConfig' \in TLSConfigs
    BY <1>1, MadeTLS DEF SetTLSsConfig
  <2>. QED BY <1>1, <2>1 DEF SetTLSsConfig, GinIInv, ListFlushed, MutualTLSHonoured
<1>2. ASSUME NEW e \in Environment, NEW s \in Settings, CreateApp(e, s) PROVE GinIInv'
  <2>. DEFINE auto == resolveTLSAutoConfig(tlsConfig, s)
              files == resolveTLSConfig(auto, s)
  <2>1. /\ Sound(tel') /\ tel'.gen = tel.gen + 1
        /\ \A p \in tel'.up : p \in tel.up \/ p.gen = tel.gen + 1
        /\ ~Fails(e) => Provider("exporter", tel.gen + 1) \notin tel'.up
    <3>1. PICK lost : tel' = initProviders(tel, e, lost)
      BY <1>2 DEF CreateApp, Initialised
    <3>. QED BY <1>0, <3>1, InitProvidersSound
  <2>2. IF Fails(e) THEN shutdownList' = shutdownList ELSE shutdownList' = tel.gen + 1
    BY <1>2 DEF CreateApp
  <2>3. main' = "idle" /\ handled' = handled
    BY <1>2 DEF CreateApp
  <2>4. tlsConfig \in TLSConfigs /\ MutualTLSHonoured
    BY DEF GinIInv
  <2>5. \/ tlsConfig' = tlsConfig /\ made' = made
        \/ tlsConfig' = auto /\ made' = made
        \/ tlsConfig' = files /\ made' = made
        \/ tlsConfig' = Resolved(tlsConfig, s) /\ made' = [settings |-> s, tls |-> tlsConfig']
    <3>1. CASE Fails(e)
      BY <1>2, <3>1 DEF CreateApp
    <3>2. CASE ~Fails(e)
      <4>1. CASE TLSFails(auto, s)
        BY <1>2, <3>2, <4>1, Zenon DEF CreateApp
      <4>2. CASE ~TLSFails(auto, s) /\ MTLSFails(files, s)
        BY <1>2, <3>2, <4>2, Zenon DEF CreateApp
      <4>3. CASE ~TLSFails(auto, s) /\ ~MTLSFails(files, s)
        BY <1>2, <3>2, <4>3, Zenon DEF CreateApp
      <4>. QED BY <4>1, <4>2, <4>3
    <3>. QED BY <3>1, <3>2
  <2>6. tlsConfig' \in TLSConfigs
    BY <2>4, <2>5, ResolvedTLS
  <2>7. MutualTLSHonoured'
    <3>1. CASE made' = made
      BY <2>4, <3>1 DEF MutualTLSHonoured
    <3>2. CASE tlsConfig' = Resolved(tlsConfig, s) /\ made' = [settings |-> s, tls |-> tlsConfig']
      BY <2>4, <3>2, ResolvedTLS DEF MutualTLSHonoured
    <3>. QED BY <2>5, <3>1, <3>2
  <2>8. shutdownList' \in Nat /\ shutdownList' <= tel'.gen
    BY <1>0, <2>1, <2>2
  <2>9. Provider("exporter", shutdownList') \notin tel'.up
    <3>1. Provider("exporter", shutdownList) \notin tel.up
      BY DEF GinIInv
    <3>2. Provider("exporter", shutdownList).gen = shutdownList
      BY DEF Provider
    <3>. QED BY <1>0, <2>1, <2>2, <3>1, <3>2
  <2>. QED BY <1>0, <2>1, <2>3, <2>6, <2>7, <2>8, <2>9 DEF GinIInv
<1>3. CASE CreateAppFails
  BY <1>3, Aside DEF CreateAppFails
<1>4. CASE Start
  BY <1>4 DEF Start, GinIInv, ListFlushed, MutualTLSHonoured
<1>5. CASE Listen
  BY <1>5, Aside DEF Listen
<1>6. CASE ListenFailed
  BY <1>6, Aside DEF ListenFailed
<1>7. CASE WaitForShutdownSignal
  BY <1>7 DEF WaitForShutdownSignal, GinIInv, ListFlushed, LogsFlushed, MutualTLSHonoured
<1>8. CASE BeginDrain
  <2>1. ListFlushed
    <3>1. CASE handled = 2
      BY <1>8, <3>1 DEF BeginDrain, GinIInv
    <3>2. CASE shutdownList = 0
      BY <1>0, <3>2 DEF ListFlushed
    <3>. QED BY <1>8, <3>1, <3>2 DEF BeginDrain
  <2>. QED BY <1>8, <2>1 DEF BeginDrain, GinIInv, ListFlushed, MutualTLSHonoured
<1>9. CASE DrainEnds
  BY <1>9 DEF DrainEnds, GinIInv, ListFlushed, MutualTLSHonoured
<1>10. CASE ListenEnds
  BY <1>10, Aside DEF ListenEnds
<1>11. CASE RunHandler
  <2>0. UNCHANGED <<main, shutdownList, tlsConfig, made>> /\ main = "handlers" /\ handled' = handled + 1
    BY <1>11 DEF RunHandler
  <2>3. Provider("exporter", shutdownList) \notin tel.up
    BY DEF GinIInv
  <2>1. CASE handled = 0
    <3>1. PICK lost : tel' = LoggerShutdown(tel, shutdownList, lost)
      BY <1>11, <2>1 DEF RunHandler
    <3>2. /\ Sound(tel') /\ tel'.gen = tel.gen /\ tel'.up \subseteq tel.up
          /\ Provider("logs", shutdownList) \in tel'.up => Provider("logs", shutdownList) \in tel'.failed
      BY <1>0, <3>1, HandlersSound
    <3>. QED BY <1>0, <2>0, <2>1, <2>3, <3>2 DEF GinIInv, LogsFlushed, MutualTLSHonoured
  <2>2. CASE handled = 1
    <3>1. PICK lost : tel' = Release(OtelShutdown(tel, shutdownList, lost), shutdownList)
      BY <1>11, <2>2 DEF RunHandler
    <3>. DEFINE b == OtelShutdown(tel, shutdownList, lost)
    <3>2. /\ Sound(b) /\ b.gen = tel.gen /\ b.up \subseteq tel.up /\ tel.failed \subseteq b.failed
          /\ \A k \in {"metrics", "traces"} :
                Provider(k, shutdownList) \in b.up => Provider(k, shutdownList) \in b.failed
      BY <1>0, HandlersSound
    <3>3. tel' = Release(b, shutdownList)
      BY <3>1
    <3>. HIDE DEF b
    <3>4. \A p \in b.up : p.gen = shutdownList => p \in b.failed
      <4>1. LogsFlushed
        BY <2>0, <2>2 DEF GinIInv
      <4>2. \A p \in b.up : p \in Providers
        BY <3>2 DEF Sound, TelStates
      <4>3. \A p \in Providers : p.kind = "exporter" => p = Provider("exporter", p.gen)
        BY DEF Providers, Provider
      <4>. QED BY <2>3, <3>2, <4>1, <4>2, <4>3, FourProviders DEF LogsFlushed
    <3>5. \A p \in b.up : p.gen = shutdownList => GivenUp(b, p)
      BY <3>4 DEF GivenUp
    <3>6. Sound(tel') /\ tel'.gen = tel.gen /\ tel'.up = b.up /\ tel'.failed = b.failed
      BY <1>0, <3>2, <3>3, <3>5, ReleaseSound
    <3>7. ListFlushed' /\ LogsFlushed'
      BY <2>0, <3>4, <3>6 DEF ListFlushed, LogsFlushed, Provider
    <3>. QED BY <1>0, <2>0, <2>2, <2>3, <3>2, <3>6, <3>7 DEF GinIInv, MutualTLSHonoured
  <2>. QED BY <1>0, <1>11, <2>1, <2>2 DEF RunHandler
<1>12. CASE Deadline
  BY <1>12, Aside DEF Deadline
<1>13. CASE Stop \/ StopSends \/ Interrupt
  BY <1>13, Aside DEF Stop, StopSends, Interrupt
<1>14. CASE RequestBegins \/ RequestEnds
  BY <1>14, Aside DEF RequestBegins, RequestEnds
<1>15. CASE OtherTelemetry
  <2>0. UNCHANGED <<main, shutdownList, handled, tlsConfig, made>>
    BY <1>15 DEF OtherTelemetry
  <2>1. ASSUME NEW e \in Environment, InitTelemetry(e) PROVE GinIInv'
    <3>1. /\ Sound(tel') /\ tel'.gen = tel.gen + 1
          /\ tel.failed \subseteq tel'.failed
          /\ \A p \in tel'.up : p \in tel.up \/ p.gen = tel.gen + 1
      <4>1. PICK lost : tel' = initProviders(tel, e, lost)
        BY <2>1 DEF InitTelemetry, Initialised
      <4>. QED BY <1>0, <4>1, InitProvidersSound
    <3>2. \A k : Provider(k, shutdownList).gen = shutdownList
      BY DEF Provider
    <3>. QED BY <1>0, <2>0, <3>1, <3>2 DEF GinIInv, ListFlushed, LogsFlushed, MutualTLSHonoured
  <2>2. ASSUME NEW g \in 1..tel.gen, TelemetryShutdown(g) PROVE GinIInv'
    <3>1. /\ Sound(tel') /\ tel'.gen = tel.gen /\ tel'.up \subseteq tel.up
          /\ tel.failed \subseteq tel'.failed
      <4>1. PICK lost : tel' = Release(OtelShutdown(LoggerShutdown(tel, g, lost), g, lost), g)
        BY <2>2 DEF TelemetryShutdown
      <4>. QED BY <1>0, <4>1, TelemetryShutdownSound
    <3>. QED BY <1>0, <2>0, <3>1 DEF GinIInv, ListFlushed, LogsFlushed, MutualTLSHonoured
  <2>. QED BY <1>15, <2>1, <2>2 DEF OtherTelemetry
<1>16. CASE UNCHANGED ginVars
  BY <1>16, Aside DEF ginVars
<1>. QED
  BY <1>1, <1>2, <1>3, <1>4, <1>5, <1>6, <1>7, <1>8, <1>9, <1>10, <1>11, <1>12, <1>13, <1>14,
     <1>15, <1>16 DEF GinNext, GinProceeds

\* The inductive invariant of the Gin server always holds.
LEMMA GinInvariant ==
    ASSUME Environment \subseteq Environments
    PROVE  GinSpec => []GinIInv
<1>1. GinInit => GinIInv
  <2>. SUFFICES ASSUME GinInit PROVE GinIInv
    OBVIOUS
  <2>1. Sound(tel) /\ tel.gen = 0 /\ tel.up = {}
    BY DEF GinInit, TelInit, Sound, TelStates, Globals, Providers
  <2>2. tlsConfig \in TLSConfigs
    BY MadeTLS DEF GinInit, NoTLS
  <2>3. MutualTLSHonoured
    BY DEF GinInit, MutualTLSHonoured, NoSettings
  <2>4. shutdownList = 0 /\ handled = 0 /\ main = "idle"
    BY DEF GinInit
  <2>. QED BY <2>1, <2>2, <2>3, <2>4 DEF GinIInv
<1>2. GinIInv /\ [GinNext]_ginVars => GinIInv'
  BY GinStep
<1>. QED BY <1>1, <1>2, PTL DEF GinSpec

(* For every set of environments and TLS settings and any number of calls: when
   Start of the HTTP server returns, the shutdown of its logs, metrics and
   traces has been tried, each, whatever other code did to the telemetry of the
   process meanwhile; what is not flushed by then is what failed to. *)
THEOREM ReturnsFlushed ==
    ASSUME Environment \subseteq Environments
    PROVE  GinSpec => []StartFlushes
<1>1. GinIInv => StartFlushes
  BY DEF GinIInv, ListFlushed, StartFlushes
<1>. QED BY <1>1, GinInvariant, PTL

(* Of a failed initialisation, or of one that was shut down, nothing runs on but
   what failed to shut down and the exporter that no provider had taken; and no
   tracer or meter provider runs that the globals no longer name, unless its own
   shutdown failed. *)
THEOREM ProvidersReleased ==
    ASSUME Environment \subseteq Environments
    PROVE  GinSpec => []Released
<1>1. GinIInv => Released
  BY DEF GinIInv, Sound, GivenUp, Released
<1>. QED BY <1>1, GinInvariant, PTL

(* A server made while mutual TLS was enabled has the client authorities, and
   asks for client certificates as its setting says, whatever an earlier
   CreateApp or SetTLSsConfig left behind. *)
THEOREM MutualTLSAlwaysHonoured ==
    ASSUME Environment \subseteq Environments
    PROVE  GinSpec => []MutualTLSHonoured
<1>1. GinIInv => MutualTLSHonoured
  BY DEF GinIInv
<1>. QED BY <1>1, GinInvariant, PTL
=============================================================================
