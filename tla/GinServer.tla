----------------------------- MODULE GinServer -----------------------------
(***************************************************************************)
(* The HTTP server of config/server/gin/config.go: CreateApp, which loads  *)
(* the configuration, initialises telemetry and resolves TLS; Start, with  *)
(* the goroutine that listens; the shutdown on a signal, under one         *)
(* deadline for the handlers and the requests in flight; and Stop.         *)
(*                                                                         *)
(* One goroutine (main) calls CreateApp and Start; others call Stop, and   *)
(* InitTelemetry beside the server.  The http.Server is external.          *)
(***************************************************************************)
EXTENDS Telemetry

CONSTANTS
    Environment,   \* the telemetry environments tried
    Settings,      \* the TLS settings: auto, tls, mtls, certs, ca, clientAuth
    MaxApps,       \* bound: calls of CreateApp
    MaxStarts,     \* bound: calls of Start
    MaxStops,      \* bound: calls of Stop and signals
    MaxRequests    \* bound: requests in flight

VARIABLES
    main,          \* where the goroutine of CreateApp and Start is
    srv,           \* the http.Server: none, new, serving, closed
    lsn,           \* its listening goroutine
    ginQuit,       \* signals in the channel quit, which holds one
    sleeping,      \* calls of Stop in their first second
    shutdownList,  \* the generation whose handlers are registered, 0: none
    handled,       \* the handlers done
    late,          \* the deadline of the shutdown has passed
    requests,      \* requests in flight
    tlsConfig,     \* the package's TLS configuration
    made,          \* history: the settings and TLS configuration of srv
    used           \* how often each bounded call was made

ginVars == <<tel, main, srv, lsn, ginQuit, sleeping, shutdownList, handled, late,
             requests, tlsConfig, made, used>>

\* A tls.Config, with the zero values of ClientCAs and ClientAuth.
NewTLS(from) == [from |-> from, clientCAs |-> FALSE, clientAuth |-> "noclientcert"]
NoTLS == NewTLS("none")
NoSettings == [auto |-> FALSE, tls |-> FALSE, mtls |-> FALSE, certs |-> FALSE, ca |-> FALSE,
               clientAuth |-> ""]

Count(call) == used' = [used EXCEPT ![call] = @ + 1]

----------------------------------------------------------------------------
(* TLS *)

resolveTLSAutoConfig(c, s) == IF s.auto THEN NewTLS("auto") ELSE c

\* A custom or automatic configuration stays unless TLS itself is enabled.
TLSFails(c, s) == (s.tls \/ (s.mtls /\ c = NoTLS)) /\ ~s.certs
resolveTLSConfig(c, s) ==
    IF s.tls \/ (s.mtls /\ c = NoTLS) THEN NewTLS("files") ELSE c

\* The four policies weaker than the default have names; any other text is the default.
parseClientAuth(raw) ==
    IF raw \in {"requestclientcert", "requireanyclientcert", "verifyclientcertifgiven", "noclientcert"}
    THEN raw ELSE "requireandverifyclientcert"

MTLSFails(c, s) == s.mtls /\ (c = NoTLS \/ ~s.ca)
resolvemTLSConfig(c, s) ==
    IF s.mtls THEN [c EXCEPT !.clientCAs = TRUE, !.clientAuth = parseClientAuth(s.clientAuth)] ELSE c

\* A bug: the client certificates are resolved before the server's own.
ResolvedEarly(c, s) == resolveTLSConfig(resolvemTLSConfig(resolveTLSAutoConfig(c, s), s), s)

Resolved(c, s) == resolvemTLSConfig(resolveTLSConfig(resolveTLSAutoConfig(c, s), s), s)

SetTLSsConfig ==
    /\ main \in {"idle", "returned"}
    /\ tlsConfig # NewTLS("custom")
    /\ tlsConfig' = NewTLS("custom")
    /\ UNCHANGED <<tel, main, srv, lsn, ginQuit, sleeping, shutdownList, handled, late, requests, made, used>>

----------------------------------------------------------------------------
(* CreateApp *)

\* loadConfig: handlers are only registered when everything was initialised.
CreateApp(e, s) ==
    /\ main \in {"idle", "returned"}
    /\ used["app"] < MaxApps
    /\ tel.gen < MaxInits
    /\ Count("app")
    /\ tel' \in Initialised(tel, e)
    /\ LET auto  == resolveTLSAutoConfig(tlsConfig, s)
           files == resolveTLSConfig(auto, s)
       IN  IF Fails(e)
           THEN UNCHANGED <<srv, shutdownList, tlsConfig, made>>
           ELSE /\ shutdownList' = tel.gen + 1
                /\ CASE TLSFails(auto, s) ->
                          tlsConfig' = auto /\ UNCHANGED <<srv, made>>
                     [] ~TLSFails(auto, s) /\ MTLSFails(files, s) ->
                          tlsConfig' = files /\ UNCHANGED <<srv, made>>
                     [] OTHER ->
                          /\ tlsConfig' = Resolved(tlsConfig, s)
                          /\ srv' = "new"
                          /\ made' = [settings |-> s, tls |-> tlsConfig']
    /\ main' = "idle"
    /\ UNCHANGED <<lsn, ginQuit, sleeping, handled, late, requests>>

\* An environment or configuration file that cannot be loaded.
CreateAppFails ==
    /\ main \in {"idle", "returned"}
    /\ used["app"] < MaxApps
    /\ Count("app")
    /\ UNCHANGED <<tel, main, srv, lsn, ginQuit, sleeping, shutdownList, handled, late, requests, tlsConfig, made>>

----------------------------------------------------------------------------
(* Start: without a server it logs an error and returns. *)

Start ==
    /\ main \in {"idle", "returned"}
    /\ srv # "none"
    /\ lsn \in {"none", "ended"}
    /\ used["start"] < MaxStarts
    /\ Count("start")
    /\ main' = "waiting"
    /\ lsn' = "starting"
    /\ UNCHANGED <<tel, srv, ginQuit, sleeping, shutdownList, handled, late, requests, tlsConfig, made>>

\* A server that was shut down refuses to listen, which is no failure.
Listen ==
    /\ lsn = "starting"
    /\ IF srv = "closed" THEN lsn' = "ended" /\ UNCHANGED srv
       ELSE /\ lsn' \in {"listening", "failed"}
            /\ srv' = "serving"
    /\ UNCHANGED <<tel, main, ginQuit, sleeping, shutdownList, handled, late, requests, tlsConfig, made, used>>

\* The listener fails by itself, or returns because of the shutdown.
ListenEnds ==
    /\ lsn = "listening"
    /\ lsn' = IF srv = "closed" THEN "ended" ELSE "failed"
    /\ UNCHANGED <<tel, main, srv, ginQuit, sleeping, shutdownList, handled, late, requests, tlsConfig, made, used>>

\* A bug: a failed listener is only logged.
ListenFailsSilently ==
    /\ lsn = "failed"
    /\ lsn' = "ended"
    /\ UNCHANGED <<tel, main, srv, ginQuit, sleeping, shutdownList, handled, late, requests, tlsConfig, made, used>>

\* A failed listener is logged and stops the server.
ListenFailed ==
    /\ lsn = "failed"
    /\ lsn' = "ended"
    /\ sleeping' = sleeping + 1
    /\ UNCHANGED <<tel, main, srv, ginQuit, shutdownList, handled, late, requests, tlsConfig, made, used>>

WaitForShutdownSignal ==
    /\ main = "waiting"
    /\ ginQuit = 1
    /\ ginQuit' = 0
    /\ main' = "handlers"
    /\ handled' = 0
    /\ late' = FALSE
    /\ UNCHANGED <<tel, srv, lsn, sleeping, shutdownList, requests, tlsConfig, made, used>>

\* A bug: an error of a handler ends the loop.
RunHandlerUntilError ==
    /\ main = "handlers"
    /\ shutdownList # 0
    /\ handled < 2
    /\ handled' \in {handled + 1, 2}
    /\ \E lost \in SUBSET tel.up :
          tel' = IF handled = 0 THEN LoggerShutdown(tel, shutdownList, lost)
                 ELSE Release(OtelShutdown(tel, shutdownList, lost), shutdownList)
    /\ UNCHANGED <<main, srv, lsn, ginQuit, sleeping, shutdownList, late, requests, tlsConfig, made, used>>

(* The registered handlers, one after the other, under one deadline; an error
   is only logged.  An exporter that does not answer holds its handler until
   the deadline, and a handler that starts after it may well fail. *)
RunHandler ==
    /\ main = "handlers"
    /\ shutdownList # 0
    /\ handled < 2
    /\ handled' = handled + 1
    /\ \E lost \in SUBSET tel.up :
          tel' = IF handled = 0 THEN LoggerShutdown(tel, shutdownList, lost)
                 ELSE Release(OtelShutdown(tel, shutdownList, lost), shutdownList)
    /\ UNCHANGED <<main, srv, lsn, ginQuit, sleeping, shutdownList, late, requests, tlsConfig, made, used>>

\* srv.Shutdown: no more requests...
BeginDrain ==
    /\ main = "handlers"
    /\ handled = 2 \/ shutdownList = 0
    /\ srv' = "closed"
    /\ main' = "drain"
    /\ UNCHANGED <<tel, lsn, ginQuit, sleeping, shutdownList, handled, late, requests, tlsConfig, made, used>>

\* ...and those in flight end, or the deadline, which the handlers share, passes.
DrainEnds ==
    /\ main = "drain"
    /\ requests = 0 \/ late
    /\ main' = "returned"
    /\ UNCHANGED <<tel, srv, lsn, ginQuit, sleeping, shutdownList, handled, late, requests, tlsConfig, made, used>>

Deadline ==
    /\ main \in {"handlers", "drain"}
    /\ ~late
    /\ late' = TRUE
    /\ UNCHANGED <<tel, main, srv, lsn, ginQuit, sleeping, shutdownList, handled, requests, tlsConfig, made, used>>

----------------------------------------------------------------------------
(* Stop, signals and requests *)

Stop ==
    /\ used["stop"] < MaxStops
    /\ Count("stop")
    /\ sleeping' = sleeping + 1
    /\ UNCHANGED <<tel, main, srv, lsn, ginQuit, shutdownList, handled, late, requests, tlsConfig, made>>

\* After a second; a full channel is left as it is.
StopSends ==
    /\ sleeping > 0
    /\ sleeping' = sleeping - 1
    /\ ginQuit' = 1
    /\ UNCHANGED <<tel, main, srv, lsn, shutdownList, handled, late, requests, tlsConfig, made, used>>

Interrupt ==
    /\ used["stop"] < MaxStops
    /\ Count("stop")
    /\ ginQuit' = 1
    /\ UNCHANGED <<tel, main, srv, lsn, sleeping, shutdownList, handled, late, requests, tlsConfig, made>>

RequestBegins ==
    /\ lsn = "listening" /\ srv = "serving"
    /\ requests < MaxRequests
    /\ requests' = requests + 1
    /\ UNCHANGED <<tel, main, srv, lsn, ginQuit, sleeping, shutdownList, handled, late, tlsConfig, made, used>>

RequestEnds ==
    /\ requests > 0
    /\ requests' = requests - 1
    /\ UNCHANGED <<tel, main, srv, lsn, ginQuit, sleeping, shutdownList, handled, late, tlsConfig, made, used>>

\* Telemetry initialised and shut down by other code of the process.
OtherTelemetry ==
    /\ \/ \E e \in Environment : InitTelemetry(e)
       \/ \E g \in (1..tel.gen) \ {shutdownList} : g \notin tel.released /\ TelemetryShutdown(g)
    /\ UNCHANGED <<main, srv, lsn, ginQuit, sleeping, shutdownList, handled, late, requests, tlsConfig, made, used>>

GinInit ==
    /\ TelInit
    /\ main = "idle"
    /\ srv = "none"
    /\ lsn = "none"
    /\ ginQuit = 0
    /\ sleeping = 0
    /\ shutdownList = 0
    /\ handled = 0
    /\ late = FALSE
    /\ requests = 0
    /\ tlsConfig = NoTLS
    /\ made = [settings |-> NoSettings, tls |-> NoTLS]
    /\ used = [call \in {"app", "start", "stop"} |-> 0]

GinProceeds == Listen \/ ListenFailed \/ WaitForShutdownSignal \/ BeginDrain \/ DrainEnds

GinNext ==
    \/ SetTLSsConfig
    \/ \E e \in Environment, s \in Settings : CreateApp(e, s)
    \/ CreateAppFails
    \/ Start \/ GinProceeds \/ ListenEnds \/ RunHandler \/ Deadline
    \/ Stop \/ StopSends \/ Interrupt
    \/ RequestBegins \/ RequestEnds
    \/ OtherTelemetry

(* Goroutines that can go on do, time passes, and handlers heed the deadline.
   Requests need not end and listeners need not fail. *)
GinFairness ==
    /\ WF_ginVars(Listen)
    /\ WF_ginVars(ListenFailed)
    /\ WF_ginVars(WaitForShutdownSignal)
    /\ WF_ginVars(RunHandler /\ late)
    /\ WF_ginVars(BeginDrain \/ DrainEnds)
    /\ WF_ginVars(StopSends)
    /\ WF_ginVars(Deadline)

GinSpec == GinInit /\ [][GinNext]_ginVars /\ GinFairness

----------------------------------------------------------------------------
(* Start returns after a signal, after Stop, and after its listener failed,
   though an exporter does not answer and requests do not end: the one
   deadline of the shutdown bounds both. *)
StartReturns ==
    main = "waiting" /\ (ginQuit = 1 \/ sleeping > 0 \/ lsn = "failed") ~> main = "returned"

(* When Start returns, the shutdown of the server's logs, metrics and traces
   has been tried, each of them, also after an earlier handler failed or ran
   into the deadline, and whoever else initialised telemetry meanwhile: what
   is not flushed and released by then is what failed to. *)
StartFlushes ==
    main = "returned" => \A p \in tel.up : p.gen = shutdownList => p \in tel.failed

(* A server made while mutual TLS was enabled has the client authorities and
   asks for client certificates as the setting says, by default with a valid
   one required, wherever its own TLS configuration comes from, and also when
   an earlier CreateApp left one behind. *)
MutualTLSHonoured ==
    made.settings.mtls =>
        /\ made.tls.clientCAs
        /\ made.tls.clientAuth = parseClientAuth(made.settings.clientAuth)
=============================================================================
