---------------------------- MODULE ServiceProofs ----------------------------
(***************************************************************************)
(* Proofs about Service: whatever the signal, the listeners that fail, the *)
(* requests and the budget do, a service stops in order, for any requests, *)
(* calls, checks and telemetry sections.                                   *)
(*                                                                         *)
(* The invariant has a part for main, one for each server, and one for the *)
(* channel of listeners that failed.  What ties Stop to a Serve call that  *)
(* races it is Http: Stop has read the http.Server that every request runs *)
(* on, or no request ever runs.                                            *)
(***************************************************************************)
EXTENDS Service, FiniteSetTheorems, TLAPS

\* The types, without the bound on the channel failed.
Typed ==
    /\ main \in {"boot", "refused", "select", "drain", "telemetry", "exited"}
    /\ exitCode \in {0, 1} /\ failed \in Nat
    /\ signalled \in BOOLEAN /\ inner \in BOOLEAN /\ expired \in BOOLEAN
    /\ tel \in [{"admin", "meters", "tracers"} -> BOOLEAN]
    /\ httpSrv \in Serves \cup {"none"} /\ taken \in Serves \cup {"none"}
    /\ stopped \in [Stoppers -> BOOLEAN] /\ shut \in [Servers -> BOOLEAN]
    /\ health \in {"none", "SERVING", "NOT_SERVING"}
    /\ serving \in [Servers -> {"listen", "bound", "built", "serving", "returned"}]
    /\ lis \in [Servers -> {"none", "open", "closed"}]
    /\ stopper \in [Stoppers -> {"idle", "stop", "mark", "shutdown", "drain", "cut", "wiring", "done"}]
    /\ call \in [Calls -> {"none", "running", "cut", "done"}] /\ at \in [Calls -> Servers \cup {"none"}]
    /\ registered \subseteq Checks /\ check \in [Checks -> {"none", "running", "ok", "failed"}]
    /\ faults \in 0 .. MaxFaults

\* A listener that failed has returned, and put one token in the channel.
Returned == {s \in Servers : serving[s] = "returned"}

Tokens == failed <= Cardinality(Returned)

Down == \A p \in DOMAIN tel : ~tel[p]

Idle == \A l \in Stoppers : stopper[l] = "idle"

Done == \A l \in Stoppers : stopper[l] = "done"

\* Where main stands, against the goroutines that stop the servers and the telemetry.
Main ==
    /\ main \in {"boot", "refused"} => Down
    /\ main \in {"boot", "refused", "select"} => Idle
    /\ main = "drain" => \A l \in Stoppers : stopper[l] # "idle"
    /\ main = "telemetry" => Done
    /\ main = "exited" => Idle \/ (Done /\ Down)

\* server.Stop, from the moment it has read the http.Server.
Reading == stopper["http"] \in {"idle", "stop"}

\* Every request runs on the http.Server httpSrv holds; once Stop has run that is the one it read,
\* which is shut down before the wait for the requests, and when there is none there is no request.
Http ==
    /\ \A s \in Serves : serving[s] \in {"built", "serving"} => httpSrv = s
    /\ \A c \in Calls : at[c] \in Serves => httpSrv = at[c]
    /\ ~Reading => stopped["http"] /\ taken = httpSrv
    /\ stopper["http"] \in {"shutdown", "drain"} => taken # "none"
    /\ stopper["http"] \in {"drain", "wiring", "done"} /\ taken # "none" => shut[taken]
    /\ stopper["http"] \in {"wiring", "done"} /\ taken # "none" => Running(taken) = {} \/ expired

\* The steps of rpc.Stop, against the health service, the grpc.Server and its calls.
Grpc ==
    /\ stopper["grpc"] \notin {"idle", "stop"} => inner
    /\ stopper["grpc"] \notin {"idle", "stop", "mark"} => health = "NOT_SERVING"
    /\ shut["grpc"] <=> stopper["grpc"] \in {"drain", "cut", "wiring", "done"}
    /\ stopper["grpc"] \in {"wiring", "done"} => Running("grpc") = {}

\* The inductive invariant.
IInv == Typed /\ Tokens /\ Main /\ Http /\ Grpc

-----------------------------------------------------------------------------
\* Every step keeps the types.
LEMMA TypedStep == Typed /\ [Next]_vars => Typed'
<1> SUFFICES ASSUME Typed, [Next]_vars PROVE Typed'
  OBVIOUS
<1> USE DEF Typed, mainVars, faultVars, httpVars, grpcVars, serveVars, callVars
<1>1. CASE UNCHANGED vars
  BY <1>1 DEF vars
<1>2. CASE Boot
  <2>1. PICK c \in TelemetryConfigs : tel' = InitTelemetry(c)
    BY <1>2 DEF Boot
  <2>2. tel' \in [{"admin", "meters", "tracers"} -> BOOLEAN]
    BY <2>1, TelemetryAssumption, Zenon DEF InitTelemetry, initMetrics, initTraces, startAdmin, Shutdown
  <2>3. main' \in {"select", "exited", "refused"} /\ exitCode' \in {0, 1}
    BY <1>2 DEF Boot
  <2> QED
    BY <1>2, <2>2, <2>3 DEF Boot
<1>3. CASE Signal
  BY <1>3 DEF Signal
<1>4. CASE Select
  <2>1. failed' \in Nat /\ exitCode' \in {0, 1}
    BY <1>4 DEF Select
  <2>2. signalled' \in BOOLEAN
    BY <1>4, Zenon DEF Select
  <2> QED
    BY <1>4, <2>1, <2>2 DEF Select
<1>5. CASE WaitBoth
  BY <1>5 DEF WaitBoth
<1>6. CASE Exit
  BY <1>6 DEF Exit, Shutdown
<1>7. CASE Expire
  BY <1>7 DEF Expire
<1>8. CASE StopHttp
  <2>1. stopper' \in [Stoppers -> {"idle", "stop", "mark", "shutdown", "drain", "cut", "wiring", "done"}]
    BY <1>8, Zenon DEF StopHttp
  <2>2. stopped' \in [Stoppers -> BOOLEAN]
    BY <1>8, Zenon DEF StopHttp
  <2> QED
    BY <1>8, <2>1, <2>2 DEF StopHttp
<1>9. CASE ShutdownHttp
  <2>1. stopper' \in [Stoppers -> {"idle", "stop", "mark", "shutdown", "drain", "cut", "wiring", "done"}]
    BY <1>9, Zenon DEF ShutdownHttp
  <2>2. shut' \in [Servers -> BOOLEAN]
    BY <1>9, Zenon DEF ShutdownHttp
  <2>3. lis' \in [Servers -> {"none", "open", "closed"}]
    BY <1>9, Zenon DEF ShutdownHttp
  <2> QED
    BY <1>9, <2>1, <2>2, <2>3 DEF ShutdownHttp
<1>10. CASE DrainedHttp
  <2>1. stopper' \in [Stoppers -> {"idle", "stop", "mark", "shutdown", "drain", "cut", "wiring", "done"}]
    BY <1>10, Zenon DEF DrainedHttp
  <2> QED
    BY <1>10, <2>1 DEF DrainedHttp
<1>11. CASE StopGrpc
  BY <1>11, Zenon DEF StopGrpc, built
<1>12. CASE MarkGrpc
  <2>1. stopper' \in [Stoppers -> {"idle", "stop", "mark", "shutdown", "drain", "cut", "wiring", "done"}]
    BY <1>12, Zenon DEF MarkGrpc
  <2>2. stopped' \in [Stoppers -> BOOLEAN]
    BY <1>12, Zenon DEF MarkGrpc
  <2> QED
    BY <1>12, <2>1, <2>2 DEF MarkGrpc, Unhealthy
<1>13. CASE GracefulStop
  <2>1. stopper' \in [Stoppers -> {"idle", "stop", "mark", "shutdown", "drain", "cut", "wiring", "done"}]
    BY <1>13, Zenon DEF GracefulStop
  <2>2. shut' \in [Servers -> BOOLEAN]
    BY <1>13, Zenon DEF GracefulStop
  <2>3. lis' \in [Servers -> {"none", "open", "closed"}]
    BY <1>13, Zenon DEF GracefulStop
  <2> QED
    BY <1>13, <2>1, <2>2, <2>3 DEF GracefulStop
<1>14. CASE CutGrpc
  <2>1. stopper' \in [Stoppers -> {"idle", "stop", "mark", "shutdown", "drain", "cut", "wiring", "done"}]
    BY <1>14, Zenon DEF CutGrpc
  <2>2. call' \in [Calls -> {"none", "running", "cut", "done"}]
    BY <1>14 DEF CutGrpc
  <2> QED
    BY <1>14, <2>1, <2>2 DEF CutGrpc
<1>15. CASE DrainedGrpc
  <2>1. stopper' \in [Stoppers -> {"idle", "stop", "mark", "shutdown", "drain", "cut", "wiring", "done"}]
    BY <1>15, Zenon DEF DrainedGrpc
  <2> QED
    BY <1>15, <2>1 DEF DrainedGrpc
<1>16. ASSUME NEW l \in Stoppers, ShutdownWiring(l)
      PROVE  Typed'
  BY <1>16 DEF ShutdownWiring
<1>17. ASSUME NEW s \in Servers, Listen(s)
      PROVE  Typed'
  BY <1>17, FaultsAssumption DEF Listen
<1>18. ASSUME NEW s \in Servers, httpServer(s)
      PROVE  Typed'
  BY <1>18 DEF httpServer
<1>19. CASE GRPCServer
  <2>1. serving' \in [Servers -> {"listen", "bound", "built", "serving", "returned"}]
    BY <1>19, Zenon DEF GRPCServer
  <2>2. inner' \in BOOLEAN /\ health' \in {"none", "SERVING", "NOT_SERVING"}
    BY <1>19 DEF GRPCServer, built
  <2> QED
    BY <1>19, <2>1, <2>2 DEF GRPCServer
<1>20. ASSUME NEW s \in Servers, Serve(s)
      PROVE  Typed'
  BY <1>20 DEF Serve
<1>21. ASSUME NEW s \in Servers, ServeReturns(s)
      PROVE  Typed'
  BY <1>21, FaultsAssumption DEF ServeReturns
<1>22. ASSUME NEW c \in Calls, NEW s \in Servers, Arrive(c, s)
      PROVE  Typed'
  BY <1>22 DEF Arrive
<1>23. ASSUME NEW c \in Calls, Finish(c)
      PROVE  Typed'
  BY <1>23 DEF Finish
<1>24. ASSUME NEW k \in Checks, run(k)
      PROVE  Typed'
  BY <1>24 DEF run
<1>25. ASSUME NEW k \in Checks, RegisterHealthCheck(k)
      PROVE  Typed'
  BY <1>25 DEF RegisterHealthCheck
<1> QED
  BY <1>1, <1>2, <1>3, <1>4, <1>5, <1>6, <1>7, <1>8, <1>9, <1>10, <1>11, <1>12, Zenon,
     <1>13, <1>14, <1>15, <1>16, <1>17, <1>18, <1>19, <1>20, <1>21, <1>22, <1>23, <1>24, <1>25
     DEF Next, MainStep, StopStep, ServeStep

\* The channel failed holds no more tokens than there are servers that returned: a step that puts
\* one in it is the return of one more server.
LEMMA ServersFinite == IsFiniteSet(Servers)
<1>1. CASE Serves = {}
  BY <1>1, FS_EmptySet, FS_AddElement, {} \cup {"grpc"} = Serves \cup {"grpc"} DEF Servers
<1>2. ASSUME NEW s \in Serves PROVE IsFiniteSet(Servers)
  <2>1. Servers = ({} \cup {s}) \cup {"grpc"}
    BY ServesAssumption DEF Servers
  <2> QED
    BY <2>1, FS_EmptySet, FS_AddElement, Zenon
<1> QED
  BY <1>1, <1>2

LEMMA ReturnedFinite ==
    ASSUME Typed
    PROVE  IsFiniteSet(Returned) /\ Cardinality(Returned) \in Nat /\ Cardinality(Returned) <= Cardinality(Servers)
<1>1. Returned \subseteq Servers
  BY DEF Returned
<1> QED
  BY <1>1, ServersFinite, FS_Subset, FS_CardinalityType

LEMMA TokensKept ==
    ASSUME Typed, Typed', Tokens, failed' <= failed,
           \A s \in Servers : serving[s] = "returned" => serving'[s] = "returned"
    PROVE  Tokens'
<1>1. Returned \subseteq Returned'
  BY DEF Returned
<1>2. IsFiniteSet(Returned') /\ Cardinality(Returned') \in Nat
  <2>1. Returned' \subseteq Servers
    BY DEF Returned
  <2> QED
    BY <2>1, ServersFinite, FS_Subset, FS_CardinalityType
<1>3. Cardinality(Returned) <= Cardinality(Returned')
  BY <1>1, <1>2, FS_Subset
<1> QED
  BY <1>2, <1>3, ReturnedFinite DEF Tokens, Typed

LEMMA TokensAdded ==
    ASSUME Typed, Tokens, failed' = failed + 1,
           NEW s \in Servers, serving[s] # "returned", serving' = [serving EXCEPT ![s] = "returned"]
    PROVE  Tokens'
<1>1. Returned' = Returned \cup {s} /\ s \notin Returned
  BY DEF Returned, Typed
<1>2. Cardinality(Returned') = Cardinality(Returned) + 1
  BY <1>1, ReturnedFinite, FS_AddElement, Zenon
<1> QED
  BY <1>2, ReturnedFinite DEF Tokens, Typed

\* Every step keeps the count.
LEMMA TokensStep == Typed /\ Typed' /\ Tokens /\ [Next]_vars => Tokens'
<1> SUFFICES ASSUME Typed, Typed', Tokens, [Next]_vars PROVE Tokens'
  OBVIOUS
<1> USE DEF mainVars, faultVars, httpVars, grpcVars, serveVars, callVars
<1>1. CASE UNCHANGED <<failed, serving>>
  BY <1>1, TokensKept DEF Typed
<1>2. CASE Select
  <2>1. failed' <= failed /\ UNCHANGED serving
    BY <1>2 DEF Select, Typed
  <2> QED
    BY <2>1, TokensKept
<1>3. ASSUME NEW s \in Servers, httpServer(s) \/ Serve(s) \/ (s = "grpc" /\ GRPCServer)
      PROVE  Tokens'
  <2>1. failed' <= failed /\ \A t \in Servers : serving[t] = "returned" => serving'[t] = "returned"
    BY <1>3 DEF httpServer, Serve, GRPCServer, Typed
  <2> QED
    BY <2>1, TokensKept
<1>4. ASSUME NEW s \in Servers, Listen(s) \/ ServeReturns(s)
      PROVE  Tokens'
  <2>1. CASE failed' = failed
    <3>1. \A t \in Servers : serving[t] = "returned" => serving'[t] = "returned"
      BY <1>4 DEF Listen, ServeReturns, Typed
    <3> QED
      BY <2>1, <3>1, TokensKept DEF Typed
  <2>2. CASE failed' = failed + 1 /\ serving' = [serving EXCEPT ![s] = "returned"]
    <3>1. serving[s] # "returned"
      BY <1>4 DEF Listen, ServeReturns
    <3> QED
      BY <2>2, <3>1, TokensAdded, Zenon
  <2> QED
    BY <1>4, <2>1, <2>2 DEF Listen, ServeReturns
<1> QED
  BY <1>1, <1>2, <1>3, <1>4, Zenon
     DEF Next, MainStep, StopStep, ServeStep, vars, Boot, Signal, WaitBoth, Exit, Expire, StopHttp,
         ShutdownHttp, DrainedHttp, StopGrpc, MarkGrpc, GracefulStop, CutGrpc, DrainedGrpc,
         ShutdownWiring, Arrive, Finish, run, RegisterHealthCheck

\* main waits for both goroutines before it shuts the telemetry down.
LEMMA MainStepKeeps == Typed /\ Main /\ [Next]_vars => Main'
<1> SUFFICES ASSUME Typed , Main, [Next]_vars PROVE Main'
  OBVIOUS
<1> USE DEF Main, Down, Idle, Done, Typed, Stoppers, mainVars, faultVars, httpVars, grpcVars, serveVars, callVars
<1>1. CASE UNCHANGED vars
  BY <1>1 DEF vars
<1>2. CASE Boot
  <2>1. main = "boot" /\ UNCHANGED stopper /\ main' \in {"select", "exited", "refused"}
    BY <1>2 DEF Boot
  <2>2. CASE main' = "refused"
    <3>1. PICK c \in TelemetryConfigs : tel' = InitTelemetry(c) /\ c.fails # "no"
      BY <1>2, <2>2 DEF Boot
    <3>2. CASE c.fails = "traces"
      BY <2>1, <2>2, <3>1, <3>2 DEF InitTelemetry
    <3>3. CASE c.fails = "metrics"
      <4>1. tel' = Shutdown(initMetrics(c, initTraces(c)))
        BY <3>1, <3>3 DEF InitTelemetry
      <4>2. \A q \in DOMAIN tel' : ~tel'[q]
        BY <4>1 DEF Shutdown
      <4> QED
        BY <2>1, <2>2, <4>2
    <3> QED
      BY <3>1, <3>2, <3>3, TelemetryAssumption
  <2> QED
    BY <2>1, <2>2
<1>3. CASE Signal
  BY <1>3 DEF Signal
<1>4. CASE Select
  BY <1>4 DEF Select
<1>5. CASE WaitBoth
  BY <1>5 DEF WaitBoth
<1>6. CASE Exit
  BY <1>6 DEF Exit, Shutdown
<1>7. CASE Expire
  BY <1>7 DEF Expire
<1>8. CASE StopHttp
  BY <1>8 DEF StopHttp
<1>9. CASE ShutdownHttp
  BY <1>9 DEF ShutdownHttp
<1>10. CASE DrainedHttp
  BY <1>10 DEF DrainedHttp
<1>11. CASE StopGrpc
  BY <1>11 DEF StopGrpc
<1>12. CASE MarkGrpc
  BY <1>12 DEF MarkGrpc
<1>13. CASE GracefulStop
  BY <1>13 DEF GracefulStop
<1>14. CASE CutGrpc
  BY <1>14 DEF CutGrpc
<1>15. CASE DrainedGrpc
  BY <1>15 DEF DrainedGrpc
<1>16. ASSUME NEW l \in Stoppers, ShutdownWiring(l)
      PROVE  Main'
  BY <1>16 DEF ShutdownWiring
<1>17. ASSUME NEW s \in Servers, Listen(s)
      PROVE  Main'
  BY <1>17 DEF Listen
<1>18. ASSUME NEW s \in Servers, httpServer(s)
      PROVE  Main'
  BY <1>18 DEF httpServer
<1>19. CASE GRPCServer
  BY <1>19 DEF GRPCServer
<1>20. ASSUME NEW s \in Servers, Serve(s)
      PROVE  Main'
  BY <1>20 DEF Serve
<1>21. ASSUME NEW s \in Servers, ServeReturns(s)
      PROVE  Main'
  BY <1>21 DEF ServeReturns
<1>22. ASSUME NEW c \in Calls, NEW s \in Servers, Arrive(c, s)
      PROVE  Main'
  BY <1>22 DEF Arrive
<1>23. ASSUME NEW c \in Calls, Finish(c)
      PROVE  Main'
  BY <1>23 DEF Finish
<1>24. ASSUME NEW k \in Checks, run(k)
      PROVE  Main'
  BY <1>24 DEF run
<1>25. ASSUME NEW k \in Checks, RegisterHealthCheck(k)
      PROVE  Main'
  BY <1>25 DEF RegisterHealthCheck
<1> QED
  BY <1>1, <1>2, <1>3, <1>4, <1>5, <1>6, <1>7, <1>8, <1>9, <1>10, <1>11, <1>12, Zenon,
     <1>13, <1>14, <1>15, <1>16, <1>17, <1>18, <1>19, <1>20, <1>21, <1>22, <1>23, <1>24, <1>25
     DEF Next, MainStep, StopStep, ServeStep

\* A step that leaves server.Stop where it is, and starts no request, keeps Http.
LEMMA HttpKept ==
    ASSUME Typed, Http,
           UNCHANGED <<httpSrv, taken, at, stopper["http"], stopped["http"]>>, expired => expired',
           \A s \in Serves : /\ serving'[s] \in {"built", "serving"} => serving[s] \in {"built", "serving"}
                             /\ shut[s] => shut'[s],
           \A c \in Calls : call'[c] \in {"running", "cut"} => call[c] \in {"running", "cut"}
    PROVE  Http'
<1>1. /\ \A s \in Serves : serving'[s] \in {"built", "serving"} => httpSrv' = s
      /\ \A c \in Calls : at'[c] \in Serves => httpSrv' = at'[c]
      /\ ~Reading' => stopped'["http"] /\ taken' = httpSrv'
  BY DEF Http, Reading
<1>2. stopper'["http"] \in {"shutdown", "drain"} => taken' # "none"
  BY DEF Http
<1>3. stopper'["http"] \in {"drain", "wiring", "done"} /\ taken' # "none" => shut'[taken']
  BY DEF Http, Typed
<1>4. stopper'["http"] \in {"wiring", "done"} /\ taken' # "none" => Running(taken)' = {} \/ expired'
  <2>1. Running(taken)' \subseteq Running(taken)
    BY DEF Running
  <2> QED
    BY <2>1 DEF Http
<1> QED
  BY <1>1, <1>2, <1>3, <1>4 DEF Http, Reading

\* Stop and the Serve call it races: every step keeps Http.
LEMMA HttpStep == Typed /\ Http /\ [Next]_vars => Http'
<1> SUFFICES ASSUME Typed, Http, [Next]_vars PROVE Http'
  OBVIOUS
<1> USE DEF mainVars, faultVars, httpVars, grpcVars, serveVars, callVars
<1>1. CASE UNCHANGED <<httpSrv, taken, at, call, stopper, stopped, serving, shut>> /\ (expired => expired')
  BY <1>1, HttpKept
<1>2. CASE Select
  <2>1. stopper'["http"] = "stop" /\ UNCHANGED <<serving, httpSrv, at>>
    BY <1>2 DEF Select, Stoppers
  <2> QED
    BY <2>1 DEF Http, Reading
<1>3. ASSUME NEW s \in Servers, httpServer(s) PROVE Http'
  <2>1. s \in Serves /\ serving[s] = "bound"
    BY <1>3 DEF httpServer
  <2>2. CASE Refused
    <3>1. serving' = [serving EXCEPT ![s] = "returned"]
          /\ UNCHANGED <<httpSrv, taken, at, call, stopper, stopped, shut, expired>>
      BY <1>3, <2>2 DEF httpServer
    <3>2. \A t \in Serves : serving'[t] \in {"built", "serving"} => serving[t] \in {"built", "serving"}
      BY <2>1, <3>1 DEF Typed, Servers
    <3> QED
      BY <3>1, <3>2, HttpKept
  <2>3. CASE ~Refused
    <3>1. /\ httpSrv' = s
          /\ UNCHANGED <<taken, at, call, stopper, stopped, shut, expired>>
      BY <1>3, <2>3 DEF httpServer
    <3>2. Reading
      BY <2>3 DEF Http, Refused
    <3>3. \A c \in Calls : at[c] \in Serves => at[c] = s
      BY <2>1, ServesAssumption
    <3>4. \A t \in Serves : t = s
      BY <2>1, ServesAssumption
    <3> QED
      BY <3>1, <3>2, <3>3, <3>4 DEF Http, Reading
  <2> QED
    BY <2>2, <2>3
<1>4. ASSUME NEW s \in Servers, Listen(s) \/ Serve(s) \/ ServeReturns(s) \/ (s = "grpc" /\ GRPCServer)
      PROVE  Http'
  <2>1. UNCHANGED <<httpSrv, taken, at, call, stopper, stopped, shut, expired>>
    BY <1>4 DEF Listen, Serve, ServeReturns, GRPCServer
  <2>2. \A t \in Serves : serving'[t] \in {"built", "serving"} => serving[t] \in {"built", "serving"}
    <3>1. /\ \E v : serving' = [serving EXCEPT ![s] = v]
          /\ s \in Serves => serving[s] \in {"built", "serving"} \/ serving'[s] \notin {"built", "serving"}
      <4>1. CASE Listen(s)
        BY <4>1 DEF Listen, Typed
      <4>2. CASE Serve(s) \/ ServeReturns(s)
        BY <4>2 DEF Serve, ServeReturns
      <4>3. CASE s = "grpc" /\ GRPCServer
        BY <4>3, CallsAssumption, Zenon DEF GRPCServer
      <4> QED
        BY <1>4, <4>1, <4>2, <4>3
    <3> QED
      BY <3>1 DEF Typed, Servers
  <2> QED
    BY <2>1, <2>2, HttpKept
<1>5. CASE StopHttp
  <2>1. /\ stopped'["http"] /\ taken' = httpSrv /\ UNCHANGED <<httpSrv, serving, at, call, shut, expired>>
        /\ stopper'["http"] = IF httpSrv = "none" THEN "wiring" ELSE "shutdown"
    BY <1>5 DEF StopHttp, Typed, Stoppers
  <2> QED
    BY <2>1 DEF Http
<1>6. CASE ShutdownHttp
  <2>1. stopper["http"] = "shutdown" /\ stopper'["http"] = "drain"
    BY <1>6 DEF ShutdownHttp, Typed, Stoppers
  <2>2. taken \in Serves /\ UNCHANGED <<httpSrv, taken, serving, at, stopped>>
    BY <1>6, <2>1 DEF ShutdownHttp, Http, Typed
  <2>3. shut'[taken]
    BY <1>6, <2>2 DEF ShutdownHttp, Typed, Servers
  <2> QED
    BY <2>1, <2>2, <2>3, CallsAssumption DEF Http, Reading
<1>7. CASE DrainedHttp
  <2>1. /\ stopper["http"] = "drain" /\ stopper'["http"] = "wiring" /\ (Running(taken) = {} \/ expired)
        /\ UNCHANGED <<httpSrv, taken, serving, at, call, stopped, shut, expired>>
    BY <1>7 DEF DrainedHttp, Drained, Typed, Stoppers
  <2> QED
    BY <2>1 DEF Http, Reading, Running
<1>8. ASSUME NEW l \in Stoppers, ShutdownWiring(l) PROVE Http'
  <2>1. /\ \/ UNCHANGED stopper["http"]
           \/ stopper["http"] = "wiring" /\ stopper'["http"] = "done"
        /\ UNCHANGED <<httpSrv, taken, serving, at, call, stopped, shut, expired>>
    BY <1>8 DEF ShutdownWiring, Typed, Stoppers
  <2> QED
    BY <2>1 DEF Http, Reading, Running
<1>9. CASE StopGrpc \/ MarkGrpc \/ GracefulStop \/ CutGrpc \/ DrainedGrpc
  <2>1. UNCHANGED <<httpSrv, taken, at, serving, expired, stopper["http"], stopped["http"]>>
    <3>1. \E v : stopper' = [stopper EXCEPT !["grpc"] = v]
      BY <1>9 DEF StopGrpc, MarkGrpc, GracefulStop, CutGrpc, DrainedGrpc
    <3>2. UNCHANGED stopped \/ stopped' = [stopped EXCEPT !["grpc"] = TRUE]
      BY <1>9 DEF StopGrpc, MarkGrpc, GracefulStop, CutGrpc, DrainedGrpc
    <3>3. UNCHANGED <<httpSrv, taken, at, serving, expired>>
      BY <1>9 DEF StopGrpc, MarkGrpc, GracefulStop, CutGrpc, DrainedGrpc
    <3> QED
      BY <3>1, <3>2, <3>3 DEF Typed, Stoppers
  <2>2. \A s \in Serves : shut[s] => shut'[s]
    <3>1. UNCHANGED shut \/ shut' = [shut EXCEPT !["grpc"] = TRUE]
      BY <1>9 DEF StopGrpc, MarkGrpc, GracefulStop, CutGrpc, DrainedGrpc
    <3> QED
      BY <3>1, CallsAssumption DEF Typed, Servers
  <2>3. \A c \in Calls : call'[c] \in {"running", "cut"} => call[c] \in {"running", "cut"}
    BY <1>9 DEF StopGrpc, MarkGrpc, GracefulStop, CutGrpc, DrainedGrpc, Running
  <2> QED
    BY <2>1, <2>2, <2>3, HttpKept
<1>10. ASSUME NEW c \in Calls, NEW s \in Servers, Arrive(c, s) PROVE Http'
  <2>1. /\ at' = [at EXCEPT ![c] = s] /\ serving[s] = "serving" /\ ~shut[s]
        /\ UNCHANGED <<httpSrv, taken, serving, stopper, stopped, shut, expired>>
    BY <1>10 DEF Arrive, Accepting
  <2>2. s \in Serves => httpSrv = s
    BY <2>1 DEF Http
  <2>3. \A d \in Calls : at'[d] \in Serves => httpSrv = at'[d]
    BY <2>1, <2>2 DEF Http, Typed
  <2>4. ASSUME stopper["http"] \in {"wiring", "done"}, taken # "none"
        PROVE  Running(taken)' = {} \/ expired
    <3>1. taken # s /\ (Running(taken) = {} \/ expired)
      BY <2>1, <2>4 DEF Http
    <3>2. Running(taken)' \subseteq Running(taken)
      BY <1>10, <3>1, <2>1 DEF Arrive, Running, Typed
    <3> QED
      BY <3>1, <3>2
  <2> QED
    BY <2>1, <2>3, <2>4 DEF Http, Reading
<1>11. ASSUME NEW c \in Calls, Finish(c) PROVE Http'
  <2>1. /\ UNCHANGED <<httpSrv, taken, at, serving, stopper, stopped, shut, expired>>
        /\ \A d \in Calls : call'[d] \in {"running", "cut"} => call[d] \in {"running", "cut"}
    BY <1>11 DEF Finish, Typed
  <2> QED
    BY <2>1, HttpKept
<1>12. CASE Boot \/ Signal \/ WaitBoth \/ Exit \/ Expire \/ UNCHANGED vars
  BY <1>1, <1>12 DEF Boot, Signal, WaitBoth, Exit, Expire, vars
<1>13. ASSUME NEW k \in Checks, run(k) \/ RegisterHealthCheck(k) PROVE Http'
  BY <1>1, <1>13, Zenon DEF run, RegisterHealthCheck
<1> QED
  BY <1>2, <1>3, <1>4, <1>5, <1>6, <1>7, <1>8, <1>9, <1>10, <1>11, <1>12, <1>13
     DEF Next, MainStep, StopStep, ServeStep

\* A step that leaves rpc.Stop and its server where they are, and starts no gRPC call, keeps Grpc.
LEMMA GrpcKept ==
    ASSUME Typed, Grpc, UNCHANGED <<stopper["grpc"], shut["grpc"], inner, health>>,
           \A c \in Calls : at'[c] = "grpc" /\ call'[c] \in {"running", "cut"}
                              => at[c] = "grpc" /\ call[c] \in {"running", "cut"}
    PROVE  Grpc'
<1>1. Running("grpc")' \subseteq Running("grpc")
  BY DEF Running
<1> QED
  BY <1>1, Zenon DEF Grpc

\* The steps of rpc.Stop come in their order: every step keeps Grpc.
LEMMA GrpcStep == Typed /\ Main /\ Http /\ Grpc /\ [Next]_vars => Grpc'
<1> SUFFICES ASSUME Typed, Main, Http, Grpc, [Next]_vars PROVE Grpc'
  OBVIOUS
<1> USE DEF mainVars, faultVars, httpVars, grpcVars, serveVars, callVars
<1>1. CASE UNCHANGED <<at, call, stopper, shut, inner, health>>
  BY <1>1, GrpcKept
<1>2. CASE Select
  <2>1. stopper'["grpc"] = "stop" /\ UNCHANGED shut
    BY <1>2 DEF Select, Stoppers
  <2>2. ~shut["grpc"]
    BY <1>2 DEF Select, Main, Idle, Stoppers, Grpc
  <2> QED
    BY <2>1, <2>2 DEF Grpc
<1>3. CASE GRPCServer
  BY <1>3 DEF GRPCServer, built, Grpc, Running
<1>4. CASE StopHttp \/ DrainedHttp
  <2>1. UNCHANGED <<at, call, stopper["grpc"], shut, inner, health>>
    BY <1>4 DEF StopHttp, DrainedHttp, Typed, Stoppers
  <2> QED
    BY <2>1, GrpcKept
<1>5. CASE ShutdownHttp
  <2>1. taken # "grpc"
    BY CallsAssumption DEF Typed
  <2>2. UNCHANGED <<at, call, stopper["grpc"], shut["grpc"], inner, health>>
    BY <1>5, <2>1, Zenon DEF ShutdownHttp, Typed, Stoppers, Servers
  <2> QED
    BY <2>2, GrpcKept
<1>6. CASE StopGrpc
  <2>1. stopper["grpc"] = "stop" /\ stopper'["grpc"] = "mark" /\ inner' /\ UNCHANGED shut
    BY <1>6 DEF StopGrpc, built, Typed, Stoppers
  <2> QED
    BY <2>1 DEF Grpc
<1>7. CASE MarkGrpc
  <2>1. /\ stopper["grpc"] = "mark" /\ stopper'["grpc"] = "shutdown" /\ health' = "NOT_SERVING"
        /\ UNCHANGED <<inner, shut>>
    BY <1>7 DEF MarkGrpc, Unhealthy, Typed, Stoppers
  <2> QED
    BY <2>1 DEF Grpc
<1>8. CASE GracefulStop
  <2>1. /\ stopper["grpc"] = "shutdown" /\ stopper'["grpc"] = "drain" /\ shut'["grpc"]
        /\ UNCHANGED <<inner, health>>
    BY <1>8 DEF GracefulStop, Typed, Stoppers, Servers
  <2> QED
    BY <2>1 DEF Grpc
<1>9. CASE CutGrpc
  <2>1. /\ stopper["grpc"] = "drain" /\ stopper'["grpc"] = "cut"
        /\ UNCHANGED <<inner, health, shut>>
    BY <1>9 DEF CutGrpc, Typed, Stoppers
  <2> QED
    BY <2>1 DEF Grpc
<1>10. CASE DrainedGrpc
  <2>1. /\ stopper["grpc"] \in {"drain", "cut"} /\ stopper'["grpc"] = "wiring" /\ Running("grpc") = {}
        /\ UNCHANGED <<inner, health, shut, at, call>>
    BY <1>10 DEF DrainedGrpc, Typed, Stoppers
  <2> QED
    BY <2>1 DEF Grpc, Running
<1>11. ASSUME NEW l \in Stoppers, ShutdownWiring(l) PROVE Grpc'
  <2>1. /\ \/ UNCHANGED stopper["grpc"]
           \/ stopper["grpc"] = "wiring" /\ stopper'["grpc"] = "done"
        /\ UNCHANGED <<inner, health, shut, at, call>>
    BY <1>11 DEF ShutdownWiring, Typed, Stoppers
  <2> QED
    BY <2>1 DEF Grpc, Running
<1>12. ASSUME NEW c \in Calls, NEW s \in Servers, Arrive(c, s) PROVE Grpc'
  <2>1. /\ at' = [at EXCEPT ![c] = s] /\ call' = [call EXCEPT ![c] = "running"] /\ ~shut[s]
        /\ UNCHANGED <<inner, health, shut, stopper>>
    BY <1>12 DEF Arrive, Accepting
  <2>2. CASE s = "grpc"
    BY <2>1, <2>2 DEF Grpc
  <2>3. CASE s # "grpc"
    <3>1. \A d \in Calls : at'[d] = "grpc" /\ call'[d] \in {"running", "cut"}
                              => at[d] = "grpc" /\ call[d] \in {"running", "cut"}
      BY <2>1, <2>3 DEF Typed
    <3> QED
      BY <2>1, <3>1, GrpcKept
  <2> QED
    BY <2>2, <2>3
<1>13. ASSUME NEW c \in Calls, Finish(c) PROVE Grpc'
  <2>1. /\ UNCHANGED <<at, stopper, shut, inner, health>>
        /\ \A d \in Calls : call'[d] \in {"running", "cut"} => call[d] \in {"running", "cut"}
    BY <1>13 DEF Finish, Typed
  <2> QED
    BY <2>1, GrpcKept
<1>14. CASE Boot \/ Signal \/ WaitBoth \/ Exit \/ Expire \/ UNCHANGED vars
  BY <1>1, <1>14, Zenon DEF Boot, Signal, WaitBoth, Exit, Expire, vars
<1>15. ASSUME NEW s \in Servers, Listen(s) \/ httpServer(s) \/ Serve(s) \/ ServeReturns(s) PROVE Grpc'
  BY <1>1, <1>15, Zenon DEF Listen, httpServer, Serve, ServeReturns
<1>16. ASSUME NEW k \in Checks, run(k) \/ RegisterHealthCheck(k) PROVE Grpc'
  BY <1>1, <1>16 DEF run, RegisterHealthCheck
<1> QED
  BY <1>2, <1>3, <1>4, <1>5, <1>6, <1>7, <1>8, <1>9, <1>10, <1>11, <1>12, <1>13, <1>14, <1>15, <1>16
     DEF Next, MainStep, StopStep, ServeStep

-----------------------------------------------------------------------------
LEMMA InitIInv == Init => IInv
<1> SUFFICES ASSUME Init PROVE IInv
  OBVIOUS
<1>1. Typed
  <2>1. signalled \in BOOLEAN /\ inner \in BOOLEAN /\ expired \in BOOLEAN
    BY Zenon DEF Init
  <2>2. 0 \in 0 .. MaxFaults
    BY FaultsAssumption
  <2> QED
    BY <2>1, <2>2 DEF Init, Typed
<1>2. Tokens
  BY <1>1, ReturnedFinite DEF Init, Tokens
<1>3. Main
  BY DEF Init, Main, Down, Idle
<1>4. Http
  BY CallsAssumption DEF Init, Http, Reading, Stoppers, Servers
<1>5. Grpc
  BY DEF Init, Grpc, Stoppers, Servers
<1> QED
  BY <1>1, <1>2, <1>3, <1>4, <1>5 DEF IInv

LEMMA StepIInv == IInv /\ [Next]_vars => IInv'
  BY TypedStep, TokensStep, MainStepKeeps, HttpStep, GrpcStep DEF IInv

\* The inductive invariant holds of every run of a generated main: of the types, the channel of
\* failed listeners, main against its goroutines, and each server against its Stop.
THEOREM Invariance == Spec => []IInv
  BY InitIInv, StepIInv, PTL DEF Spec

-----------------------------------------------------------------------------
\* What Http and Grpc say of a server whose wiring shuts down.
LEMMA WiringIsAfterDrain == IInv => WiringAfterDrain
<1> SUFFICES ASSUME IInv PROVE WiringAfterDrain
  OBVIOUS
<1>1. TypeOK
  <2>1. failed \in 0 .. Cardinality(Servers)
    <3>1. Cardinality(Servers) \in Nat
      BY ServersFinite, FS_CardinalityType
    <3>2. failed \in Nat /\ failed <= Cardinality(Returned)
      BY DEF IInv, Typed, Tokens
    <3>3. Cardinality(Returned) \in Nat /\ Cardinality(Returned) <= Cardinality(Servers)
      BY ServersFinite, FS_Subset, FS_CardinalityType DEF Returned
    <3> QED
      BY <3>1, <3>2, <3>3
  <2>2. {signalled, inner, expired} \subseteq BOOLEAN
    BY DEF IInv, Typed
  <2> QED
    BY <2>1, <2>2 DEF IInv, Typed, TypeOK
<1>2. stopper["grpc"] \in {"wiring", "done"} => Running("grpc") = {} /\ ~Accepting("grpc")
  BY DEF IInv, Grpc, Accepting
<1>3. ASSUME stopper["http"] \in {"wiring", "done"}, NEW s \in Serves
      PROVE  ~Accepting(s) /\ (Running(s) = {} \/ expired)
  <2>1. taken = httpSrv
    BY <1>3 DEF IInv, Http, Reading
  <2>2. CASE taken = "none"
    <3>1. serving[s] \notin {"built", "serving"} /\ \A c \in Calls : at[c] # s
      BY <2>1, <2>2, CallsAssumption DEF IInv, Http, Servers
    <3> QED
      BY <3>1 DEF Accepting, Running
  <2>3. CASE taken # "none"
    <3>1. taken = s
      BY <2>3, ServesAssumption DEF IInv, Typed
    <3> QED
      BY <1>3, <2>3, <3>1 DEF IInv, Http, Accepting
  <2> QED
    BY <2>2, <2>3
<1> QED
  BY <1>1, <1>2, <1>3 DEF WiringAfterDrain

LEMMA HealthIsFirst == IInv => HealthTurnsFirst
  BY DEF IInv, Grpc, HealthTurnsFirst

LEMMA TelemetryIsLast == IInv => TelemetryLast
  BY DEF IInv, Main, Idle, Done, Down, TelemetryLast, Stoppers

\* A service stops in order, for any requests, calls, checks and telemetry sections, and any
\* interleaving of main, the Serve calls, the goroutines that stop them and the budget: the health
\* service turns before the gRPC server stops accepting, a wiring shuts down when nothing accepts
\* and no request runs (or, for HTTP, the budget is over), and the telemetry goes last
\* (main.tmpl, server.Serve and Stop, rpc.Stop, telemetry.Init).
THEOREM StopInOrderTheorem == Spec => []StopInOrder
<1>1. IInv => StopInOrder
  BY WiringIsAfterDrain, HealthIsFirst, TelemetryIsLast DEF StopInOrder
<1> QED
  BY <1>1, Invariance, PTL
=============================================================================
