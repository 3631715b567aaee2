----------------------------- MODULE MCServers -----------------------------
(***************************************************************************)
(* A process that runs one of the two servers.  Of the gRPC server: two    *)
(* callers of Stop, GracefulStop or Register, the two handlers of          *)
(* loadConfig, a second Serve.  Of the HTTP server: two calls of CreateApp *)
(* and of Start with every TLS setting, and telemetry that other code      *)
(* initialises as well.                                                    *)
(***************************************************************************)
EXTENDS GrpcServer, GinServer

CONSTANTS s1, s2

VARIABLE kind    \* what a behaviour is about: "grpc", or of the HTTP server "telemetry" or "tls"

MCStoppers == {s1, s2}

\* Everything works; nothing is exported; the metrics' exporter, the logs'
\* exporter or the logs' resource cannot be made.
Works  == [disabled |-> FALSE, logResource |-> "ok", resource |-> "ok",
           logs |-> "on", metrics |-> "on", traces |-> "on"]
MCEnvironment ==
    {Works, [Works EXCEPT !.disabled = TRUE], [Works EXCEPT !.metrics = "fail"],
     [Works EXCEPT !.traces = "off", !.logs = "fail"], [Works EXCEPT !.logResource = "fail"]}

\* Mutual TLS on an automatic or custom certificate, on one of a file, with a
\* file of client authorities that cannot be read, and no mutual TLS; client
\* certificates required by default, verified if given, or not asked for.
Mutual == [auto |-> FALSE, tls |-> FALSE, mtls |-> TRUE, certs |-> TRUE, ca |-> TRUE,
           clientAuth |-> ""]
MCSettings ==
    {Mutual, [Mutual EXCEPT !.tls = TRUE, !.auto = TRUE, !.clientAuth = "verifyclientcertifgiven"],
     [Mutual EXCEPT !.clientAuth = "noclientcert"], [Mutual EXCEPT !.ca = FALSE],
     [Mutual EXCEPT !.tls = TRUE, !.mtls = FALSE, !.certs = FALSE]}

(* A behaviour runs one of the servers.  Of the HTTP server some behaviours vary
   what telemetry meets, with one TLS setting that works, one stop, no requests;
   others vary the TLS settings while nothing is exported.  Only calls of the
   program and requests are left out, never a step that fairness obliges. *)
MCInit ==
    /\ kind \in {"grpc", "telemetry", "tls"}
    /\ Init
    /\ GinInit
    /\ kind # "grpc" => server = "nil" /\ listener = "nil" /\ ~serverErr

MCGinNext ==
    /\ GinNext
    /\ kind = "telemetry" =>
          made'.settings \in {NoSettings, Mutual} /\ used'["stop"] <= 1 /\ requests' = 0
    /\ kind = "tls" => tel'.up = {}

MCNext ==
    \/ kind = "grpc" /\ Next /\ UNCHANGED <<kind, ginVars>>
    \/ kind # "grpc" /\ MCGinNext /\ UNCHANGED <<kind, vars>>

MCSpec == MCInit /\ [][MCNext]_<<kind, vars, ginVars>> /\ Fairness /\ GinFairness
=============================================================================
