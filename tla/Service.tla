------------------------------ MODULE Service ------------------------------
(***************************************************************************)
(* The life of a generated service: main (templates/main.tmpl) boots the   *)
(* telemetry stack of pkg/telemetry, serves HTTP with pkg/server and gRPC  *)
(* with pkg/rpc, waits for a signal or for a listener that fails, stops    *)
(* both within one budget, and shuts the telemetry down.  The readiness    *)
(* probe of pkg/server is one of the HTTP requests.                        *)
(***************************************************************************)
EXTENDS Integers, FiniteSets

CONSTANTS
    Serves,     \* the calls of server.Serve; main makes one
    HttpCalls,  \* the HTTP requests, Probe among them
    GrpcCalls,  \* the gRPC calls
    Probe,      \* the readiness probe
    Checks,     \* the readiness checks
    TelemetryConfigs,  \* the telemetry sections of the configuration
    MaxFaults   \* bound: the listeners that fail to bind or to accept

ASSUME CallsAssumption == /\ Probe \in HttpCalls /\ HttpCalls \cap GrpcCalls = {}
                          /\ "grpc" \notin Serves /\ "none" \notin Serves \cup {"grpc"}
\* The generated main calls server.Serve in one place, once.
ASSUME ServesAssumption == \A s, t \in Serves : s = t
ASSUME FaultsAssumption == MaxFaults \in Nat
ASSUME TelemetryAssumption ==
    TelemetryConfigs \subseteq [traces : BOOLEAN, metrics : {"off", "push", "scrape"}, bound : BOOLEAN,
                               fails : {"no", "traces", "metrics"}]

Servers == Serves \cup {"grpc"}
Calls == HttpCalls \cup GrpcCalls
Stoppers == {"http", "grpc"}

VARIABLES
    main,       \* where main stands
    exitCode,
    signalled,  \* a signal waits in the channel stop
    failed,     \* the tokens in the channel failed
    tel,        \* what of the telemetry stack runs
    httpSrv,    \* server.Server.httpSrv: the Serve call whose http.Server it holds
    stopped,    \* the servers' field stopped
    inner,      \* rpc.Server.inner is built
    health,     \* the status the gRPC health service reports
    serving,    \* where each Serve call stands
    lis,        \* its listener
    shut,       \* its http.Server or grpc.Server is shutting down
    stopper,    \* where the two goroutines that stop the servers stand
    taken,      \* the http.Server that server.Stop read
    expired,    \* the shutdown budget is over
    call,       \* each request or call
    at,         \* the Serve call that took it
    registered, \* server.Server.healthChecks
    check,      \* the goroutines of the probe
    faults      \* the failures so far

mainVars == <<main, exitCode, signalled>>
faultVars == <<failed, faults>>
httpVars == <<httpSrv, taken>>
grpcVars == <<inner, health>>
serveVars == <<serving, lis>>
callVars == <<call, at, check>>
vars == <<mainVars, faultVars, tel, httpVars, grpcVars, stopped, serveVars, shut, stopper, expired,
          callVars, registered>>

\* Each variable has its type; a server is built before it serves.
TypeOK ==
    /\ main \in {"boot", "refused", "select", "drain", "telemetry", "exited"}
    /\ exitCode \in {0, 1} /\ failed \in 0 .. Cardinality(Servers)
    /\ {signalled, inner, expired} \subseteq BOOLEAN
    /\ tel \in [{"admin", "meters", "tracers"} -> BOOLEAN]
    /\ httpSrv \in Serves \cup {"none"} /\ taken \in Serves \cup {"none"}
    /\ stopped \in [Stoppers -> BOOLEAN] /\ shut \in [Servers -> BOOLEAN]
    /\ health \in {"none", "SERVING", "NOT_SERVING"}
    /\ serving \in [Servers -> {"listen", "bound", "built", "serving", "returned"}]
    /\ lis \in [Servers -> {"none", "open", "closed"}]
    /\ stopper \in [Stoppers -> {"idle", "stop", "mark", "shutdown", "drain", "cut", "wiring", "done"}]
    /\ call \in [Calls -> {"none", "running", "cut", "done"}] /\ at \in [Calls -> Servers \cup {"none"}]
    /\ registered \subseteq Checks /\ check \in [Checks -> {"none", "running", "ok", "failed"}]
    /\ faults \in 0 .. MaxFaults

Init ==
    /\ main = "boot" /\ exitCode = 0 /\ signalled = FALSE /\ failed = 0
    /\ tel = [p \in {"admin", "meters", "tracers"} |-> FALSE]
    /\ httpSrv = "none" /\ taken = "none" /\ inner = FALSE /\ health = "none"
    /\ stopped = [l \in Stoppers |-> FALSE] /\ stopper = [l \in Stoppers |-> "idle"]
    /\ serving = [s \in Servers |-> "listen"] /\ lis = [s \in Servers |-> "none"]
    /\ shut = [s \in Servers |-> FALSE] /\ expired = FALSE
    /\ call = [c \in Calls |-> "none"] /\ at = [c \in Calls |-> "none"]
    /\ registered = {} /\ check = [c \in Checks |-> "none"] /\ faults = 0

Running(s) == {c \in Calls : at[c] = s /\ call[c] \in {"running", "cut"}}

\* s takes new requests.
Accepting(s) == serving[s] = "serving" /\ lis[s] = "open" /\ ~shut[s]

-----------------------------------------------------------------------------
\* initTraces and initMetrics bring up the parts c selects; the admin listener needs the scrape,
\* and an address that binds.
initTraces(c) == [tel EXCEPT !["tracers"] = c.traces]

startAdmin(c) == c.bound

initMetrics(c, t) ==
    [t EXCEPT !["meters"] = c.metrics # "off", !["admin"] = c.metrics = "scrape" /\ startAdmin(c)]

\* Shutdown of telemetry stops the admin listener, then the meters, then the tracers, whatever
\* each returns.
Shutdown(t) == [p \in DOMAIN t |-> FALSE]

InitTelemetry_keep(c) ==
    CASE c.fails = "traces" -> tel
      [] OTHER -> initMetrics(c, initTraces(c))

\* telemetry.Init: a failure of the metrics takes down what the traces brought up.
InitTelemetry(c) ==
    CASE c.fails = "traces" -> tel
      [] c.fails = "metrics" -> Shutdown(initMetrics(c, initTraces(c)))
      [] OTHER -> initMetrics(c, initTraces(c))

\* main up to its goroutines: telemetry.Init, or a later step, that fails ends the process with 1.
Boot ==
    /\ main = "boot"
    /\ \E c \in TelemetryConfigs :
        /\ tel' = InitTelemetry(c)
        /\ \/ c.fails = "no" /\ main' = "select" /\ UNCHANGED exitCode
           \/ c.fails = "no" /\ main' = "exited" /\ exitCode' = 1
           \/ c.fails # "no" /\ main' = "refused" /\ exitCode' = 1
    /\ UNCHANGED <<signalled, faultVars, httpVars, stopped, grpcVars, serveVars, shut, stopper, expired, callVars, registered>>

Signal ==
    /\ main = "select" /\ ~signalled /\ signalled' = TRUE
    /\ UNCHANGED <<main, exitCode, faultVars, tel, httpVars, stopped, grpcVars, serveVars, shut, stopper, expired, callVars, registered>>

\* The select of main: with both channels ready Go takes either.
Select ==
    /\ main = "select"
    /\ \/ signalled /\ signalled' = FALSE /\ UNCHANGED <<failed, exitCode>>
       \/ failed > 0 /\ failed' = failed - 1 /\ exitCode' = 1 /\ UNCHANGED signalled
    /\ main' = "drain" /\ stopper' = [l \in Stoppers |-> "stop"]
    /\ UNCHANGED <<tel, httpVars, stopped, grpcVars, serveVars, shut, expired, callVars, registered, faults>>

\* wg.Wait, then telemetry.Shutdown and the end of the process.
WaitBoth ==
    /\ main = "drain" /\ (\A l \in Stoppers : stopper[l] = "done") /\ main' = "telemetry"
    /\ UNCHANGED <<exitCode, signalled, faultVars, tel, httpVars, stopped, grpcVars, serveVars, shut, stopper, expired, callVars, registered>>

Exit ==
    /\ main = "telemetry" /\ tel' = Shutdown(tel) /\ main' = "exited"
    /\ UNCHANGED <<exitCode, signalled, faultVars, httpVars, stopped, grpcVars, serveVars, shut, stopper, expired, callVars, registered>>

\* The deadline of shutdownCtx.
Expire ==
    /\ main \in {"drain", "telemetry"} /\ ~expired /\ expired' = TRUE
    /\ UNCHANGED <<mainVars, faultVars, tel, httpVars, stopped, grpcVars, serveVars, shut, stopper, callVars, registered>>

-----------------------------------------------------------------------------
\* The goroutine of a Serve call: net.Listen, which may fail, ...
Listen(s) ==
    /\ main # "boot" /\ serving[s] = "listen"
    /\ \/ /\ serving' = [serving EXCEPT ![s] = "bound"] /\ lis' = [lis EXCEPT ![s] = "open"]
          /\ UNCHANGED faultVars
       \/ /\ faults < MaxFaults /\ faults' = faults + 1 /\ failed' = failed + 1
          /\ serving' = [serving EXCEPT ![s] = "returned"] /\ UNCHANGED lis
    /\ UNCHANGED <<mainVars, tel, httpVars, stopped, grpcVars, shut, stopper, expired, callVars, registered>>

Refused_never == FALSE

\* ... httpServer under Server.mu, which hands out no http.Server once Stop ran ...
Refused == stopped["http"]

httpServer(s) ==
    /\ s \in Serves /\ serving[s] = "bound"
    /\ IF Refused
       THEN /\ serving' = [serving EXCEPT ![s] = "returned"] /\ lis' = [lis EXCEPT ![s] = "closed"]
            /\ UNCHANGED httpSrv
       ELSE serving' = [serving EXCEPT ![s] = "built"] /\ httpSrv' = s /\ UNCHANGED lis
    /\ UNCHANGED <<mainVars, faultVars, tel, stopped, grpcVars, shut, stopper, taken, expired, callVars, registered>>

\* ... or GRPCServer, which builds the grpc.Server and its health service once ...
built == [inner |-> TRUE, health |-> IF inner THEN health ELSE "SERVING"]

GRPCServer ==
    /\ serving["grpc"] = "bound" /\ serving' = [serving EXCEPT !["grpc"] = "built"]
    /\ inner' = built.inner /\ health' = built.health
    /\ UNCHANGED <<mainVars, faultVars, tel, httpVars, stopped, lis, shut, stopper, expired, callVars, registered>>

\* ... and Serve of the library, which refuses once the server is shutting down.
Serve(s) ==
    /\ serving[s] = "built"
    /\ IF shut[s]
       THEN serving' = [serving EXCEPT ![s] = "returned"] /\ lis' = [lis EXCEPT ![s] = "closed"]
       ELSE serving' = [serving EXCEPT ![s] = "serving"] /\ UNCHANGED lis
    /\ UNCHANGED <<mainVars, faultVars, tel, httpVars, stopped, grpcVars, shut, stopper, expired, callVars, registered>>

\* It returns nil after a shutdown, and the error of a listener that stops accepting.
ServeReturns(s) ==
    /\ serving[s] = "serving" /\ serving' = [serving EXCEPT ![s] = "returned"]
    /\ lis' = [lis EXCEPT ![s] = "closed"]
    /\ \/ shut[s] /\ UNCHANGED faultVars
       \/ ~shut[s] /\ faults < MaxFaults /\ faults' = faults + 1 /\ failed' = failed + 1
    /\ UNCHANGED <<mainVars, tel, httpVars, stopped, grpcVars, shut, stopper, expired, callVars, registered>>

-----------------------------------------------------------------------------
\* server.Stop under Server.mu: later Serve calls are refused, and the http.Server there is, if
\* any, is the one to shut down.
StopHttp ==
    /\ stopper["http"] = "stop" /\ stopped' = [stopped EXCEPT !["http"] = TRUE]
    /\ taken' = httpSrv
    /\ stopper' = [stopper EXCEPT !["http"] = IF httpSrv = "none" THEN "wiring" ELSE "shutdown"]
    /\ UNCHANGED <<mainVars, faultVars, tel, httpSrv, grpcVars, serveVars, shut, expired, callVars, registered>>

\* http.Server.Shutdown closes the listeners, then waits for the requests or for the budget.
ShutdownHttp ==
    /\ stopper["http"] = "shutdown" /\ stopper' = [stopper EXCEPT !["http"] = "drain"]
    /\ shut' = [shut EXCEPT ![taken] = TRUE]
    /\ lis' = [lis EXCEPT ![taken] = IF serving[taken] = "serving" THEN "closed" ELSE @]
    /\ UNCHANGED <<mainVars, faultVars, tel, httpVars, stopped, grpcVars, serving, expired, callVars, registered>>

Drained_wait == Running(taken) = {}

Drained == Running(taken) = {} \/ expired

DrainedHttp ==
    /\ stopper["http"] = "drain" /\ Drained
    /\ stopper' = [stopper EXCEPT !["http"] = "wiring"]
    /\ UNCHANGED <<mainVars, faultVars, tel, httpVars, stopped, grpcVars, serveVars, shut, expired, callVars, registered>>

\* rpc.Stop builds the server when nothing did, ...
StopGrpc ==
    /\ stopper["grpc"] = "stop" /\ stopper' = [stopper EXCEPT !["grpc"] = "mark"]
    /\ inner' = built.inner /\ health' = built.health
    /\ UNCHANGED <<mainVars, faultVars, tel, httpVars, stopped, serveVars, shut, expired, callVars, registered>>

Unhealthy_later == health

\* ... turns its health service NOT_SERVING before it stops accepting, ...
Unhealthy == "NOT_SERVING"

MarkGrpc ==
    /\ stopper["grpc"] = "mark" /\ stopper' = [stopper EXCEPT !["grpc"] = "shutdown"]
    /\ stopped' = [stopped EXCEPT !["grpc"] = TRUE] /\ health' = Unhealthy
    /\ UNCHANGED <<mainVars, faultVars, tel, httpVars, inner, serveVars, shut, expired, callVars, registered>>

GracefulStop ==
    /\ stopper["grpc"] = "shutdown" /\ stopper' = [stopper EXCEPT !["grpc"] = "drain"]
    /\ shut' = [shut EXCEPT !["grpc"] = TRUE]
    /\ lis' = [lis EXCEPT !["grpc"] = IF serving["grpc"] = "serving" THEN "closed" ELSE @]
    /\ UNCHANGED <<mainVars, faultVars, tel, httpVars, stopped, grpcVars, serving, expired, callVars, registered>>

\* ... and when the budget ends first, cuts the calls off and waits for them to end.
CutGrpc ==
    /\ stopper["grpc"] = "drain" /\ expired /\ stopper' = [stopper EXCEPT !["grpc"] = "cut"]
    /\ call' = [c \in Calls |-> IF c \in Running("grpc") THEN "cut" ELSE call[c]]
    /\ UNCHANGED <<mainVars, faultVars, tel, httpVars, stopped, grpcVars, serveVars, shut, expired, at, registered, check>>

DrainedGrpc ==
    /\ stopper["grpc"] \in {"drain", "cut"} /\ Running("grpc") = {}
    /\ stopper' = [stopper EXCEPT !["grpc"] = "wiring"]
    /\ UNCHANGED <<mainVars, faultVars, tel, httpVars, stopped, grpcVars, serveVars, shut, expired, callVars, registered>>

\* The wiring shutdown that follows each Stop.
ShutdownWiring(l) ==
    /\ stopper[l] = "wiring" /\ stopper' = [stopper EXCEPT ![l] = "done"]
    /\ UNCHANGED <<mainVars, faultVars, tel, httpVars, stopped, grpcVars, serveVars, shut, expired, callVars, registered>>

-----------------------------------------------------------------------------
\* A request or call arrives; the probe starts one goroutine per check registered by then.
Arrive(c, s) ==
    /\ call[c] = "none" /\ Accepting(s) /\ (s = "grpc") = (c \in GrpcCalls)
    /\ call' = [call EXCEPT ![c] = "running"] /\ at' = [at EXCEPT ![c] = s]
    /\ check' = IF c = Probe
                THEN [k \in Checks |-> IF k \in registered THEN "running" ELSE "none"] ELSE check
    /\ UNCHANGED <<mainVars, faultVars, tel, httpVars, stopped, grpcVars, serveVars, shut, stopper, expired, registered>>

\* healthCheck.run: nil, or an error, a panic and a timeout among them.
run(k) ==
    /\ check[k] = "running" /\ \E r \in {"ok", "failed"} : check' = [check EXCEPT ![k] = r]
    /\ UNCHANGED <<mainVars, faultVars, tel, httpVars, stopped, grpcVars, serveVars, shut, stopper, expired, call, at, registered>>

\* A handler returns; the readiness handler only after every check has.
Finish(c) ==
    /\ call[c] \in {"running", "cut"}
    /\ c = Probe => \A k \in Checks : check[k] # "running"
    /\ call' = [call EXCEPT ![c] = "done"]
    /\ UNCHANGED <<mainVars, faultVars, tel, httpVars, stopped, grpcVars, serveVars, shut, stopper, expired, at, registered, check>>

RegisterHealthCheck(k) ==
    /\ main # "boot" /\ k \notin registered /\ registered' = registered \cup {k}
    /\ UNCHANGED <<mainVars, faultVars, tel, httpVars, stopped, grpcVars, serveVars, shut, stopper, expired, callVars>>

-----------------------------------------------------------------------------
\* What the program's own goroutines do next.
MainStep == Select \/ WaitBoth \/ Exit

ServeStep(s) == Listen(s) \/ httpServer(s) \/ (s = "grpc" /\ GRPCServer) \/ Serve(s) \/ ServeReturns(s)

StopStep ==
    \/ StopHttp \/ ShutdownHttp \/ DrainedHttp
    \/ StopGrpc \/ MarkGrpc \/ GracefulStop \/ CutGrpc \/ DrainedGrpc
    \/ \E l \in Stoppers : ShutdownWiring(l)

Next ==
    /\ main \notin {"exited", "refused"}
    /\ \/ Boot \/ Signal \/ MainStep \/ Expire \/ StopStep
       \/ \E s \in Servers : ServeStep(s) \/ \E c \in Calls : Arrive(c, s)
       \/ \E c \in Calls : Finish(c)
       \/ \E k \in Checks : run(k) \/ RegisterHealthCheck(k)

Spec == Init /\ [][Next]_vars

\* The scheduler runs every goroutine that can go on, and the budget is a timer.  No handler and
\* no check need ever return, a gRPC handler whose context has ended included.
FairSpec == Spec /\ WF_vars(MainStep) /\ WF_vars(Expire) /\ WF_vars(StopStep)

-----------------------------------------------------------------------------
\* The wiring of a server shuts down only once no request of it runs, or, for HTTP alone, once
\* the budget is over; and after Stop nothing accepts any more ("Start serves Handler on addr
\* until Stop").  A Serve call that races Stop, before or after it, is held to both.
WiringAfterDrain ==
    /\ TypeOK
    /\ stopper["grpc"] \in {"wiring", "done"} => Running("grpc") = {} /\ ~Accepting("grpc")
    /\ stopper["http"] \in {"wiring", "done"} =>
        \A s \in Serves : ~Accepting(s) /\ (Running(s) = {} \/ expired)

\* The gRPC health service never reports SERVING for a server that has stopped accepting.
HealthTurnsFirst == health = "SERVING" => ~shut["grpc"]

\* telemetry.Init "fails, leaving nothing running"; and a process that got to serve ends with
\* every part of the telemetry down, after both servers' wirings.
TelemetryLast ==
    /\ main = "refused" => \A p \in DOMAIN tel : ~tel[p]
    /\ main = "exited" /\ stopper["http"] # "idle" =>
        (\A p \in DOMAIN tel : ~tel[p]) /\ (\A l \in Stoppers : stopper[l] = "done")

\* The order in which a service stops: a server's health turns before it stops accepting, its wiring
\* shuts down once its requests have drained, the telemetry last.
StopInOrder == WiringAfterDrain /\ HealthTurnsFirst /\ TelemetryLast

\* rpc.Stop waits for a call that it cut off, for as long as the handler ignores its context.
WaitsForCut == stopper["grpc"] = "cut" /\ Running("grpc") # {}

\* A signal, or a listener that fails, ends the process, whatever the HTTP handlers and the checks
\* do, and unless a gRPC handler that outlived the budget never returns: from each moment at which
\* rpc.Stop does not wait for one, the process goes on to its end or to such a wait.
ProcessEnds ==
    (signalled \/ failed > 0 \/ main \in {"drain", "telemetry"}) ~> (main = "exited" \/ WaitsForCut)
=============================================================================
