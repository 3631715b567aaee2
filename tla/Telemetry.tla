----------------------------- MODULE Telemetry -----------------------------
(***************************************************************************)
(* The OpenTelemetry providers of a process: the logger's (logger/builder/ *)
(* config.go), and the tracer and meter providers that InitOtel installs   *)
(* (tools/utilities/traces/http.go), with InitTelemetry over both          *)
(* (telemetry.go).  A provider that is up holds an exporter and a          *)
(* goroutine until it is shut down.  Its shutdown may fail, because the    *)
(* exporter does or because the context it is given has ended: then what   *)
(* it held may stay, unflushed, and nobody tries again.                    *)
(*                                                                         *)
(* Every initialisation has a number, its generation.  Exporters are       *)
(* chosen by environment variables: for a signal there is none ("off": a   *)
(* provider that drops everything and needs no shutdown), one ("on"), or   *)
(* one that cannot be made ("fail").                                       *)
(***************************************************************************)
EXTENDS Naturals

CONSTANT MaxInits    \* bound: initialisations of telemetry

VARIABLE tel         \* the providers of the process

NoProvider     == [kind |-> "none", gen |-> 0]
Provider(k, g) == [kind |-> k, gen |-> g]
Signals        == {"logs", "metrics", "traces"}
Exporters      == {"off", "on", "fail"}

\* What one initialisation meets.
Environments == [disabled : BOOLEAN, logResource : {"ok", "fail"}, resource : {"ok", "fail"},
                 logs : Exporters, metrics : Exporters, traces : Exporters]

\* The set with the provider, if its exporter is on.
Made(exporter, k, g) == IF exporter = "on" THEN {Provider(k, g)} ELSE {}
Global(exporter, k, g) == IF exporter = "on" THEN Provider(k, g) ELSE NoProvider
AllOf(g) == {Provider(k, g) : k \in Signals}

(* Shutdown of some providers, of which those in lost fail.  A provider is only
   tried once: onceShutdown, and the SDK's own flags, see to that. *)
Shut(t, providers, lost) ==
    LET tried == (providers \cap t.up) \ t.failed
    IN  [t EXCEPT !.up = @ \ (tried \ lost), !.failed = @ \cup (tried \cap lost)]

(* The provider of the logs fails with its exporter, or with the resource,
   which is only built once there is an exporter. *)
LogResourceFails(e) == ~e.disabled /\ e.logs = "on" /\ e.logResource = "fail"
LoggerFails(e) == (~e.disabled /\ e.logs = "fail") \/ LogResourceFails(e)
LoggerOf(e, g) == IF e.disabled THEN {} ELSE Made(e.logs, "logs", g)

\* Nobody shuts down the exporter that no provider has taken.
Orphan(e, g) == IF LogResourceFails(e) THEN {Provider("exporter", g)} ELSE {}

\* The global logger provider is only replaced by one that exports.
InitLogger(t, e, g) ==
    [t EXCEPT !.up = @ \cup LoggerOf(e, g),
              !.global = IF LoggerOf(e, g) = {} THEN @ ELSE [@ EXCEPT !["logs"] = Provider("logs", g)]]

OtelFails(e) == ~e.disabled /\ "fail" \in {e.resource, e.traces, e.metrics}
PipelineOf(e, g) ==
    IF e.disabled THEN {} ELSE Made(e.metrics, "metrics", g) \cup Made(e.traces, "traces", g)

(* The pipeline of an earlier call is shut down first, and forgotten whether
   that succeeded or not.  When the meter provider cannot be made, the tracer
   provider, already global, is drained. *)
InitOtel(t, e, g, lost) ==
    LET drained == [Shut(t, t.previous, lost) EXCEPT !.previous = {}]
        tracer  == [drained EXCEPT !.up = @ \cup Made(e.traces, "traces", g),
                                   !.global = [@ EXCEPT !["traces"] = Global(e.traces, "traces", g)]]
    IN  CASE e.disabled ->
               [drained EXCEPT !.global = [@ EXCEPT !["traces"] = NoProvider, !["metrics"] = NoProvider]]
          [] ~e.disabled /\ (e.resource = "fail" \/ e.traces = "fail") -> drained
          [] ~e.disabled /\ e.resource = "ok" /\ e.traces # "fail" /\ e.metrics = "fail" ->
               Shut(tracer, {Provider("traces", g)}, lost)
          [] OTHER ->
               [tracer EXCEPT !.up = @ \cup Made(e.metrics, "metrics", g), !.previous = PipelineOf(e, g),
                              !.global = [@ EXCEPT !["metrics"] = Global(e.metrics, "metrics", g)]]

(* The handlers of one initialisation: the logger's, then the pipeline's, which
   tries the traces whatever became of the metrics. *)
LoggerShutdown(t, g, lost) == Shut(t, {Provider("logs", g)}, lost)
OtelShutdown(t, g, lost)   == Shut(t, {Provider("metrics", g), Provider("traces", g)}, lost)
Release(t, g)              == [t EXCEPT !.released = @ \cup {g}]

Fails(e) == LoggerFails(e) \/ OtelFails(e)

\* A bug: when InitOtel fails, the logger's provider is left as it is.
initProvidersLeakingLogger(t, e, lost) ==
    LET g == t.gen + 1
        logged == [InitLogger(t, e, g) EXCEPT !.gen = g]
    IN  CASE LoggerFails(e) -> [t EXCEPT !.gen = g, !.released = @ \cup {g}, !.up = @ \cup Orphan(e, g)]
          [] ~LoggerFails(e) /\ OtelFails(e) -> Release(InitOtel(logged, e, g, lost), g)
          [] OTHER -> InitOtel(logged, e, g, lost)

(* The logger, then the pipeline; when the second fails the first is shut
   down.  loadConfig of both servers and InitTelemetry do the same. *)
initProviders(t, e, lost) ==
    LET g == t.gen + 1
        logged == [InitLogger(t, e, g) EXCEPT !.gen = g]
    IN  CASE LoggerFails(e) -> [t EXCEPT !.gen = g, !.released = @ \cup {g}, !.up = @ \cup Orphan(e, g)]
          [] ~LoggerFails(e) /\ OtelFails(e) ->
               Release(LoggerShutdown(InitOtel(logged, e, g, lost), g, lost), g)
          [] OTHER -> InitOtel(logged, e, g, lost)

\* An initialisation may fail to shut down what was up, and what it made.
Initialised(t, e) ==
    {initProviders(t, e, lost) : lost \in SUBSET (t.up \cup AllOf(t.gen + 1))}

TelInit ==
    tel = [up |-> {}, failed |-> {}, previous |-> {}, gen |-> 0, released |-> {},
           global |-> [k \in Signals |-> NoProvider]]

----------------------------------------------------------------------------
(* A program without a server: InitTelemetry, and the shutdown it returns,   *)
(* which only its first call runs.                                         *)

InitTelemetry(e) ==
    /\ tel.gen < MaxInits
    /\ tel' \in Initialised(tel, e)

TelemetryShutdown(g) ==
    /\ g \in 1..tel.gen
    /\ \E lost \in SUBSET tel.up :
          tel' = Release(OtelShutdown(LoggerShutdown(tel, g, lost), g, lost), g)

----------------------------------------------------------------------------
(* No provider runs that nobody has shut down or will: of what failed or was
   shut down, only the providers are left whose own shutdown failed, and the
   exporter without a provider; and of the traces and metrics only what the
   globals name can be up besides, however often and by whomever telemetry was
   initialised. *)
Released ==
    /\ \A p \in tel.up : p.gen \in tel.released => p \in tel.failed \/ p.kind = "exporter"
    /\ \A p \in tel.up : p.kind \in {"metrics", "traces"} =>
          p \in tel.failed \/ tel.global[p.kind] = p
=============================================================================
