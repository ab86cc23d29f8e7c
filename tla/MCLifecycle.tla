---------------------------- MODULE MCLifecycle ----------------------------
(***************************************************************************)
(* What has to come to an end, for TLC: four machines side by side, a      *)
(* generated main and its servers (Service), a gRPC call (RpcCall), the    *)
(* subscriptions of the core NATS transport (NatsTransport) and a batch    *)
(* publish (BatchPublish).  An execution is of one machine, the others     *)
(* rest in an initial state, so the states add up and do not multiply.     *)
(***************************************************************************)
EXTENDS Service, Sequences, TLC

CONSTANTS
    p, g, k1,
    MaxRecv,                        \* RpcCall
    NatsSubs, Batches, Max, MaxMsgs, \* NatsTransport
    N, Adapters                     \* BatchPublish

VARIABLES
    machine,    \* the machine that runs
    rpc_cs, rpc_client, rpc_clientLine, rpc_gone, rpc_ctx, rpc_timer, rpc_stack, rpc_pc, rpc_ret,
    rpc_lines, rpc_got, rpc_late, rpc_answer,
    nats_closed, nats_recorded, nats_s, nats_ended, nats_watched, nats_queue, nats_pc, nats_batch,
    nats_cut, nats_live, nats_sent,
    pub_adapter, pub_pc, pub_at, pub_wire, pub_ack, pub_unsent, pub_waited, pub_closed, pub_result

rpcVars ==
    <<rpc_cs, rpc_client, rpc_clientLine, rpc_gone, rpc_ctx, rpc_timer, rpc_stack, rpc_pc, rpc_ret,
      rpc_lines, rpc_got, rpc_late, rpc_answer>>
natsVars ==
    <<nats_closed, nats_recorded, nats_s, nats_ended, nats_watched, nats_queue, nats_pc, nats_batch,
      nats_cut, nats_live, nats_sent>>
publishVars ==
    <<pub_adapter, pub_pc, pub_at, pub_wire, pub_ack, pub_unsent, pub_waited, pub_closed, pub_result>>

-----------------------------------------------------------------------------
MCTelemetryConfigs ==
    {[traces |-> TRUE, metrics |-> "scrape", bound |-> TRUE, fails |-> f] : f \in {"no", "traces", "metrics"}}
    \cup {[traces |-> TRUE, metrics |-> "push", bound |-> FALSE, fails |-> "no"]}

Plain == [chain |-> <<"log", "timeout">>, stream |-> FALSE, infra |-> FALSE, skip |-> FALSE, invalid |-> FALSE,
          deadline |-> FALSE, clientTimeout |-> TRUE, clientLog |-> TRUE]

Cases ==
    {[Plain EXCEPT !.chain = c, !.stream = s] :
        c \in {<<>>, <<"log", "timeout">>, <<"timeout", "log", "guard">>, <<"log", "guard", "timeout", "timeout">>}, s \in BOOLEAN}
    \cup {[Plain EXCEPT !.infra = TRUE, !.chain = <<"log", "guard", "timeout">>]}
    \cup {[Plain EXCEPT !.skip = TRUE, !.invalid = TRUE, !.clientLog = FALSE]}
    \cup {[Plain EXCEPT !.clientTimeout = FALSE, !.deadline = d] : d \in BOOLEAN}

Errors ==
    {[is |-> "status", code |-> "Aborted"], [is |-> "http", code |-> 404], [is |-> "http", code |-> 418],
     [is |-> "context", code |-> "Canceled"], [is |-> "other"]}

Codes == [s \in {404} |-> "NotFound"]

Rpc == INSTANCE RpcCall WITH
    httpCodes <- Codes, cs <- rpc_cs, client <- rpc_client, clientLine <- rpc_clientLine, gone <-
    rpc_gone, ctx <- rpc_ctx, timer <- rpc_timer, stack <- rpc_stack, pc <- rpc_pc, ret <- rpc_ret,
    lines <- rpc_lines, got <- rpc_got, late <- rpc_late, answer <- rpc_answer
Nats == INSTANCE NatsTransport WITH
    Subs <- NatsSubs, closed <- nats_closed, recorded <- nats_recorded, s <- nats_s, ended <-
    nats_ended, watched <- nats_watched, queue <- nats_queue, pc <- nats_pc, batch <- nats_batch,
    cut <- nats_cut, live <- nats_live, sent <- nats_sent
Publish == INSTANCE BatchPublish WITH
    adapter <- pub_adapter, pc <- pub_pc, at <- pub_at, wire <- pub_wire, ack <- pub_ack, unsent <-
    pub_unsent, waited <- pub_waited, closed <- pub_closed, result <- pub_result

ASSUME InstanceConstants ==
    /\ Nats!BatchesAssumption /\ Nats!SizesAssumption
    /\ Publish!SizeAssumption /\ Publish!AdaptersAssumption

-----------------------------------------------------------------------------
all == <<machine, vars, rpcVars, natsVars, publishVars>>
OfService(A) == machine = "service" /\ A /\ UNCHANGED <<machine, rpcVars, natsVars, publishVars>>
OfRpc(A) == machine = "rpc" /\ A /\ UNCHANGED <<machine, vars, natsVars, publishVars>>
OfNats(A) == machine = "nats" /\ A /\ UNCHANGED <<machine, vars, rpcVars, publishVars>>
OfPublish(A) == machine = "publish" /\ A /\ UNCHANGED <<machine, vars, rpcVars, natsVars>>

\* A machine at rest has one initial state.
AnyInit ==
    /\ machine \in {"service", "rpc", "nats", "publish"}
    /\ machine # "rpc" => rpc_cs = CHOOSE c \in Cases : TRUE
    /\ machine # "publish" => pub_adapter = CHOOSE a \in Adapters : TRUE
    /\ Init /\ Rpc!Init /\ Nats!Init /\ Publish!Init

AnyNext == OfService(Next) \/ OfRpc(Rpc!Next) \/ OfNats(Nats!Next) \/ OfPublish(Publish!Next)

\* The fairness of the four specifications: of one machine that runs, a disjunct of each is its own.
AnyFair ==
    /\ WF_all(OfService(MainStep) \/ OfRpc(Rpc!ClientDeadline) \/ OfPublish(Publish!CallStep))
    /\ WF_all(OfService(Expire) \/ OfRpc(Rpc!ClientReceives))
    /\ WF_all(OfService(StopStep) \/ OfRpc(Rpc!Enter))
    /\ WF_all(OfRpc(Rpc!Unwind))
    /\ \A u \in NatsSubs : WF_all(OfNats(Nats!GoroutineStep(u))) /\ WF_all(OfNats(Nats!AfterFunc(u)))

AnySpec == AnyInit /\ [][AnyNext]_all /\ AnyFair

-----------------------------------------------------------------------------
\* Every gRPC call that was answered has its access line, with the code that was sent, panics and
\* late successes included; a call inside Timeout is not answered OK when its context had ended
\* (AccessLog, Recovery, Timeout, validatingStream).
CallAnswered == machine = "rpc" => Rpc!LineIsAnswer /\ Rpc!LateIsNotOK

\* A unary call with a client timeout or a deadline of its own ends, though the server never
\* answers (clientTimeout), and Close ends a JetStream publish that waits, though the broker never
\* answers (JetStream.PublishBatch): Rpc!BoundedCallEnds and Publish!CloseEndsPublish as one.
WaitsEnd ==
    ((machine = "rpc" /\ Rpc!BoundedCall) \/ (machine = "publish" /\ Publish!ClosedPublish))
    ~> ((machine = "rpc" /\ Rpc!CallOver) \/ (machine = "publish" /\ Publish!PublishOver))

\* No subscription is open after Close, and a batch cut short has a context that stands
\* (subscribeOne, Close, gather, handleBatch).
SubscriptionsHold == machine = "nats" => Nats!SubscriptionsHold

\* What core NATS gave a subscription is handled, though its context ends or Close comes before a
\* batch is full, and the goroutine of a subscription that is over ends (gather, Close).
ComesToRest == []<>(machine = "nats" => Nats!AtRest)

\* Every envelope the result of a batch publish does not name unsent was confirmed, a partial
\* error names the others once and in order, and a plain one means that nothing went out
\* (PublishAll, PublishBatch, UnsentAt, checkedBatch).
PublishAccounted == machine = "publish" => Publish!Accounted /\ Publish!ReportValid /\ Publish!PlainBeforeFlush
=============================================================================
