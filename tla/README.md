# craftgo: a TLA+ verification project

craftgo is a design-first framework for Go services. A compiler (`internal/`,
`cmd/`) turns a design into Go code and an OpenAPI document; the code it
generates runs on a library (`pkg/`): an HTTP server, a gRPC server, telemetry,
and an event bus over an in-process, a Kafka, a core NATS and a JetStream
transport. This project models both halves, checks them with TLC on small
instances, and proves with TLAPS the safety of the parts where order and failure
matter most. `PROJECT.json` lists every run, the source lines each definition
stands for, the hazards the code is exposed to, and the theorems.

## 1. The system's parts and how they interact

Generated code registers subscriptions on a `Bus`. `Start` wraps each handler in
its chains and gives all of them to one transport, which calls the wrapped
handlers from goroutines of its own and answers the broker from the error and the
disposition they leave. `Publish` and `PublishAll` encode and give messages to
the transport. A generated `main` boots telemetry, serves HTTP and gRPC, and on a
signal or a failed listener stops everything within one budget, concurrently with
the requests and deliveries still running.

The compiler reads design files (lexer, parser), checks them (semantic analysis)
and generates three things from one design: Go types with their validation, the
transport code that binds requests to them, and the OpenAPI document. Nothing
makes these three agree but that each reads the design the same way. `craftgo
gen` writes the files, `craftgo fmt` prints a design back, `craftgo lsp` keeps an
editor's diagnostics fresh.

## 2. Modules

A step of a model is what a goroutine does between two points where another may
run: under one hold of a mutex, or one call of a client library. Mutexes do not
appear: a critical section is one action. Data is abstracted to what the code
tells apart. The compiler is pure, so its models are operators named after its
functions, and the state is the design, grown or edited one step at a time; the
properties speak of every design so reached that the analysis accepts.

### Runtime

| Module | Models | State and actions |
|---|---|---|
| `MemoryTransport` | `events/memory/memory.go` | `members`, `next` (round robin), `pending`/`timer`/`stopped` of each batcher, `inflight`, handler calls `jobs`; register, stop, pick, begin, the hand-over, expire, finish, Drain |
| `KafkaTransport` | `events/kafka/kafka.go`: `subscribeOne`, `claim`, `release`, `track`, `releaseClient`, `producerClient`, `Close` | `holder`/`readers` are `Transport.held`; `clients`, `producer`, `closed`; `client` is what the library knows |
| `KafkaConsumer` | `kafka.go`: `consume`, `deliver`, `commit`, `ackFor`, `interrupted`; `batch.go` | one read loop with a program counter, classic or share group, single or batch handler; broker and client external |
| `JetStreamGroups` | `events/nats/jetstream.go`: `Subscribe`, `reserve`, `release`, `consumeGroup`, `Close` | `held` is `JetStream.groups`; `watch` the goroutine of `consumeGroup` |
| `JetStreamDurable` | `jetstream.go`: `plan`, `durable`, `createDurable`, `adopting`, `dispatch` | the durable of a group, and the lookup and write of each replica as two steps; `taken` remembers which subjects a write took out of the filter that a replica may have needed; a durable of a group in `DeliverNew` starts after what is on the stream, and passes by what it does not filter |
| `JetStreamDelivery` | `jetstream.go`: `dispatch`, `deliver`, `holdOpen`, `answer`; `jetstream_batch.go` | one consumer, single or batch; the durable, its ack clock and redelivery external |
| `NatsTransport` | `events/nats/nats.go` | each subscription, its queue in the client, `gather`, `handleBatch`, Close |
| `BatchPublish` | `events/publish.go` and each `PublishBatch` | one `PublishAll` over any transport, "other" being one of the application that may report anything |
| `EventWire` | `publish.go`, `event.go`, the wire format of each transport | one message from its options and the bus's defaults to the handler |
| `Bus` | `events.go`, `subscribe.go`, `plan.go`, `batch.go` | Register with its refusals in the code's order, Use, Start in its two steps, Plan |
| `HandlerChain` | `subscribe.go`, `chain.go`, `batch.go`, `event.go` | one delivery down and up the frames, panics included, and back to `itemErr` |
| `Service` | the generated `main` (`main-mixed.go`), `server/server.go`, `health.go`, `rpc/server.go`, `telemetry` | main, the Serve calls, the stop goroutines, requests, the budget |
| `RpcCall` | `pkg/rpc` | one call through the client's and the server's interceptors |
| `HttpRequest` | `server/compress.go`, `middleware.go`, `cors.go`, errors | one request through the chain; the handler may write, flush, hijack, fail or panic at any point. The encoder holds up to `Window` bytes back until it is flushed or closed, and its stream has an end only once closed |
| `BodyDecode` | `server/codec*.go`, `presence.go` | decoding of a JSON body and the naming of the value it refuses |
| `Multipart` | `server/multipart.go` | the part limiter, read by read |

### Compiler and tools

| Module | Models |
|---|---|
| `Parser`, `Format`, `DesignFile` | `internal/parser`, `internal/format`, and a file an author edits |
| `Declarations`, `DesignTypes` | names, mixins, generics and cycles; the Go packages and the components of the document |
| `Routes`, `DesignServices` | routes as `ServeMux` ranks them; services, outputs, operation ids, middlewares |
| `Payloads`, `BindingChecks`, `DesignBindings` | JSON data and Go values; where fields ride; the generated handler against the document |
| `Decorators`, `ConstraintRules`, `ConstraintChecks`, `DesignConstraints` | decorators and their arguments; bounds and defaults; the generated checks against the schema |
| `GenPass` | `craftgo gen`: `internal/codegen/codegen.go`, `prune.go`, `internal/genfile` over a tree of files |
| `LspSession` | `internal/lsp`: documents, diagnostics, watched files, exit, and the end of the connection, at the end of its input or by an error |

### For TLC, and proofs

`MCHandling`, `MCLifecycle`, `MCTools`, `MCNaming` and `MCValues` put several
machines side by side: a variable `machine`, chosen in the initial state, says
which one moves, and the others rest in one initial state. The states of the
machines therefore add up, and nothing is said of two machines together. A
property of machine `x` is stated as `machine = "x" => ...`. The other runs check
a specification directly; their instances are at its end.

`MemoryTransportProofs`, `KafkaTransportProofs`, `KafkaConsumerProofs` (with
`KafkaConsumerPolls`, its first half), `JetStreamGroupsProofs`,
`JetStreamDurableProofs`, `HandlerChainProofs` and `ServiceProofs` hold the theorems
about the module they extend.

Operators named `X_something` next to an operator `X` are deliberate faults, each
a plausible slip in the code `X` stands for; TLC refutes the property named for
it in `PROJECT.json` when `X` is replaced by it. No specification uses them.

## 3. What the runs show

| Run | Instance | Shows |
|---|---|---|
| `memory` | one group, a plain and a batch member (Max 2), 2 publishes, 1 Drain | a message goes to one member of the group; nothing picked is lost or handed over twice; the count is exact; no batch is stranded; Drain joins what it owes; every delivery is handled and every Drain returns |
| `kafka_transport` | 2 subscribes of one group and topic, 2 contracts, a publisher, 2 Close | claims are exact; one contract per group and topic; each client is closed once and none leaks; a stop ends everything |
| `kafka_consumer` | 2 partitions, one record of another contract, 4 modes, Max 2, cap 2, 1 mishap | the broker is rid of a record only once its handling ended; a share record is answered once; every record settles |
| `jetstream_groups` | 2 Subscribe calls over overlapping groups, a durable that may be deleted, 1 Close | consumers of a group never overlap; a hold is always someone's to give up; no false `ErrConsumerStopped`; a stop ends everything |
| `jetstream_delivery` | 2 messages and a foreign one, both modes, Max 2, cap 2, 1 mishap, 1 reset | a message leaves the stream only by its handling; it is answered once and never reset after; Drain hands over; every message settles |
| `jetstream_durable` | 3 replicas that subscribe a, a+b and a+c (the last with `AllowNarrow`), 4 durables to start from, 1 message, 2 stops | a replica that consumes stays served: the durable lets its subjects through whatever replicas of other versions do, unless one took them on request or by a stale lookup; the durable loses a subject only on request or by a stale lookup; what is served is answered |
| `jetstream_narrow` | the same without `AllowNarrow` | **violated**: see Findings |
| `handling` | machines body, form, request, bus, wire, frame | a refused value is named by its own field; a form is held to its limits however it is read; a request gets one answer that head, body and log agree on; a bus hands over exactly what was accepted; a message arrives as asked; what a panicking frame asked for is void; each failure reaches its own message |
| `lifecycle` | machines service, rpc, nats, publish | a service stops in order and its process ends, unless rpc.Stop waits for a call it cut off; a call is answered and logged alike and ends; subscriptions hold and come to rest; what a publish does not report unsent was confirmed, and Close ends its wait |
| `tools` | machines file, gen, lsp | formatting keeps what a file says and is idempotent, the parser recovers; a run of gen settles the tree and keeps the user's files; the editor shows what analysis finds |
| `naming` | machines types, services | of an accepted design, and with the exceptions that section 4 lists, the Go packages of the types declare and import each name once and select what they mean, instantiation ends, names and files keep apart, the mux takes every route and the document tells where it goes |
| `values` | machines bindings, constraints | of an accepted design the handler takes what the document describes (with one exception, section 4), refuses what lacks a required value, and answers as documented; the generated checks and the schema admit the same values, and the bounds of a field, enums and patterns aside, leave one to pass |

**Bounds.** Two of each actor make every pairwise race happen. Max 2 makes a
batch empty, filling and full; a cap of 2 makes a delivery below, at and past it
(`MaxCount` exceeds the cap). `MaxMishaps` and `MaxFaults` count stops, crashes
and lapses: one interrupts the code at any step, and the rest of the behaviour is
its recovery. `MaxHandOvers` is the number of messages the stream of
`JetStreamGroups` holds; one is enough for a handler to be running when its
consumer ends. `MaxLspEvents` is 4: to open two files, change one and close it is the
shortest way to a diagnostic of the other that `onDidClose` must renew. `IntMax` scales the largest int down; the run does not reach it. `MaxEdits`, `MaxAdded`
and the menus of `MCNaming` and `MCValues` bound designs to a skeleton and the
additions at which names, routes or values can meet, one menu for each rule of
the analysis; they are samples of the designs, not all of them. No symmetry is
used. Deadlock checking is off where an instance may
end: publishes, stops, edits and mishaps run out.

**Fairness.** Goroutines are scheduled (Go's scheduler is preemptive), timers
fire, handlers of events return (the code waits for them without limit except
where Close's drain times out, which is a choice of the model). Weak fairness is
enough for the code itself; strong fairness is assumed only of a broker asked
over and over to deliver (`KafkaConsumer`, `JetStreamDelivery`,
`JetStreamDurable`), since each poll may be interrupted and asked again. Nothing
is assumed of callers, of a broker's acknowledgements (`BatchPublish`), of the
handlers of a service or a gRPC call (`Service`, `RpcCall`), or of failures. A gRPC
handler that ignores its context for ever keeps `Stop` waiting after the budget
(`rpc/server.go:203-206`), and with it the process: `ProcessEnds` says that nothing
else does, and that the process goes on as soon as the handler returns.
`JetStreamGroups` and `KafkaTransport` use one weak fairness over all goroutine
steps: each goroutine takes finitely many, so every one gets its turn.

## 4. Finding and observations

**Finding** (`jetstream_narrow`). `adopting` says "Only a widening is repointed
without allowNarrow" (`pkg/events/nats/jetstream.go:698`; `docs/guide/events.md:292`
says the same of a subject that would stop reaching anyone). But `durable`
compares its plan with the filters it looked up and then replaces them whole in a
second call (`jetstream.go:639`). Two replicas that each widen the durable from
one lookup, neither with `AllowNarrow`, undo each other: the second update drops
what the first added. What does hold, `NarrowsOnRequest`, is checked and proved.

Observations met while modelling; the models follow the code in each, and no run
is spent on them:

- `memory.go:224` converts a 64-bit counter to an int: past 2^31 publishes on a
  32-bit build (2^63 on others) the remainder is negative and indexing panics.
  `PickStart` computes it, and the model takes no step from there.
- `Close` of JetStream promises to wait for running handlers (`jetstream.go:937`), but
  a consumer that is started while Close runs is only stopped (`jetstream.go:555`): a
  handler it had begun may outlive Close. `StopEndsAll` says that it ends.
- `PublishBatch` of core NATS hands all messages to the client and then flushes;
  a failed flush returns a plain error (`nats.go:115`), which `events.go:76` reserves
  for when nothing went out. `PublishAccounted` therefore says only that what is
  *not* reported unsent was confirmed.
- `Generate` says that a failure to write leaves the tree as it was
  (`codegen.go:70`); when a rename fails, the files renamed before it stay, as the
  error itself says (`genfile.go:214`). `TreeSettled` claims it for a failure before
  the first rename.
- `checkPairArgs` compares `@range` bounds as floats (`decorator_arg_checks.go:279`),
  and the exact comparison skips two bounds of one decorator
  (`numeric_domain.go:185`): two integers that round to one float may be given
  in the wrong order. `DesignConstraints` leaves such a pair out.
- No required check is generated for a list of files (`validate_emit_required.go:12`):
  a form without the part is accepted.
- A `HEAD` route that overlaps a `GET` one is accepted and refused by `ServeMux`
  at startup, as `docs/llms.md:1060` says; `ServicesSound` makes the same exception.

In the following the code does less than a document or a comment says. The
property of the run states the exception by name, and says that there is no
other; the instances reach each one, so the property without it is violated.

- Routes (`NotCompared`, `RootPastEnd`; `ServicesSound`). `docs/guide/lsp.md:89` says
  that `path/collision` reports two routes `ServeMux` cannot both register, and
  `docs/guide/decorators.md:490` and `internal/semantic/paths_test.go:165` that a
  route it would refuse is rejected. Routes of different lengths are not compared
  (`route.go:236`), though one that ends in `{name...}` or `{$}` may conflict with a
  longer or shorter one; and a root route under a basePath that ends in such a segment is
  registered with `{$}` behind it, which `ServeMux` refuses.
- Go packages (`GoCompiles`; `TypesSound`). `docs/llms.md:1060` guarantees that
  generated code compiles, with a list of designs that are the author's to fix.
  Not on it: a design package with a capitalised name is imported under that name
  (`imports.go:107`), and a declaration of the same name in the importing package
  then redeclares it.
- Errors (`ErrorReadsReach`; `TypesSound`). `collision_checks.go:275` says that an
  error type never reads an embedded mixin by name. A header field that needs its
  embed path is read by that path (`flatten.go:203`); through a mixin named `Error`
  it selects the method.
- Null (`DocumentedAccepted`; `BindingsSound`). `docs/llms.md:485` says that null for
  a required member is a 400, and the handler does so. The schema of a member of
  type `any`, or of `@format(raw)` bytes, is empty and admits it.
- `Serve` (`EndsRight`; `EditorFresh`). `lsp/server.go:31` says that an `exit` without
  `shutdown` is an error. When the connection ends before `Serve` comes to its
  select, both channels are ready and it may return nil.

## 5. What is proved

Every theorem holds for all values of the constants under the `ASSUME`s of the
component's module, which TLC evaluates on each instance. Each rests on an
inductive invariant: the checked property alone is not preserved by a step, since
it says nothing of the calls that are halfway. Each proof has a lemma per action.

**`MemoryTransportProofs`.** `TypeOK`, `NothingLost`, `NoStrandedBatch`, `OnePerGroup`,
`InflightExact`, `DrainJoins`, for any groups, finitely many members and messages,
any `Max` and any Drain calls. The invariant is built in layers. `Types` adds that
a publish that counted a delivery has a target. `Places` says where each delivery
is: among the targets of a publish, in a batcher or in a handler call, and in one
only. With it `NothingLost` and, from the bound on each batch, `OnePerGroup`.
`NoStrandedBatch` is inductive by itself over the types. The count is exact
because each step adds or removes one delivery from the set of those begun, so
cardinalities follow. `DrainJoins` uses what a waiting Drain is still owed.

**`KafkaTransportProofs`.** `TopicsHeld` and `ClientsClosed`, for any calls, keys and
contracts (finitely many subscriptions). A claim belongs to those between `claim`
and `release` (`Claimed`), who read alike (`ReadsAlike`) and are counted until
Close (`Counted`); a client is its own call's (`OwnClient`), tracked while open
(`Tracked`) or taken by whoever will close it (`Taken`), so none leaks (`NoLeak`).
`releaseClient` and Close race for the client: `Taken` is what makes it closed once.

**`KafkaConsumerPolls`, `KafkaConsumerProofs`.** `RecordsKept`, for any partitions and
records, handler outcomes, batch size, stops, crashes and lapses, in classic and
share groups; a poll returns records of one partition or of two, as in the model.
`RecordsKept` speaks of what the broker no longer has. The invariant says what the
loop has in hand at each place (`Stands`), that what it has dealt with has ended or
is handed back because it must stop (`Dealt`), that a classic group reads a
partition in order and without gaps, so that everything below a committed offset
was dealt with (`Classic`), and that a share group owes one answer for each record
in hand it has not dealt with and for no other (`Owed`, `Shared`), the answers on
their way being those the handling asked for (`Answers`). `KafkaConsumerPolls` proves
the steps that poll and commit, `KafkaConsumerProofs` the others.

**`JetStreamGroupsProofs`.** `GroupsHeld`, for any calls, groups and Close calls. Groups
a call has not started have no consumer (`Unstarted`); a started one has a
goroutine that minds it (`Minded`); each hold is of a call or goroutine that will
give it up (`Owned`); a hold lasts while its consumer may hand over (`Lasting`);
an end that was asked for is known before it is seen (`NoFalseStop`).

**`JetStreamDurableProofs`.** `ServedWhileUp` and the action property
`NarrowsOnRequest`, for any replicas, plans, messages and stops. `ServedWhileUp` is not
preserved by an update alone: that of a replica without `AllowNarrow` must be a
widening of what is there. The invariant therefore ties a writer to its lookup
(`Writer`): while the version is the one it saw, the durable carries what it
compared, and without `AllowNarrow` that is some of its own plan.

**`HandlerChainProofs`.** `AsksKept` and `Attributed`, for any batch, depths, recovers
and retries, under `Constants` (the module's assumptions, cited as a hypothesis
since a run reaches the module through `INSTANCE`). The properties speak of the
end of a delivery; `Above`, `Standing`, `Escaping`, `Recorded` and `Reported` say what
holds at every frame on the way. The run `handling` checks the same formulas under
`machine = "frame"`.

**`ServiceProofs`.** `StopInOrder`, for any requests, calls, checks and telemetry. Besides
the types the invariant has parts for the channel of failed listeners (`Tokens`,
which never blocks a goroutine), for main against the goroutines it waits for
(`Main`), and for each server (`Http`, `Grpc`): Stop has read the `http.Server` every
request runs on, or no request ever runs.

## 6. What is only model-checked

- Liveness (`DeliveryEnds`, `StopEndsAll`, `EveryRecordSettles`, `EveryMessageSettles`,
  `ServedIsAnswered`, `ProcessEnds`, `WaitsEnd`, `ComesToRest`): fairness and `ENABLED` are
  out of the prover's reach.
- The compiler's models, `BodyDecode`, `EventWire` and the tools: they rest on
  recursive definitions, which the prover cannot unfold by induction.
- `MessagesKept` of `JetStreamDelivery`, and the safety
  of `NatsTransport`, `BatchPublish`, `Bus`, `RpcCall`, `HttpRequest`, `Multipart`: within
  reach, not proved.

## 7. What is not modelled

The text of generated files and of the YAML; wording of diagnostics and logs;
characters (tokens are the parser's input); `log`; cookies, media types and the
docs page; gRPC dial options and error details; the translation of Protocol
Buffers descriptors; the answers of the language server that change nothing
(completion, hover, rename); a Kafka rebalance between live members, and the goroutine
that renews the lock of a share record (`holdOpen`, `kafka.go:696`): the model lets a lock
lapse at any time, whatever it does; raw strings over several lines, which are
one line of the model; whether a whole generated file compiles (the naming run looks at
the names a package declares, imports and selects);
`craftgo init` and flags; checks of event declarations.
Brokers, client libraries, `net/http`, gRPC, OpenTelemetry and the file system are
modelled by what the code relies on and marked external. The codec of a process is
fixed: installing another while requests run is left out. Hazards without
a property say why in `PROJECT.json`.
