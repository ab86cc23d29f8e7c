---------------------------- MODULE BatchPublish ----------------------------
(***************************************************************************)
(* Bus.PublishAll, pkg/events/publish.go, over each transport of the       *)
(* repository: a Publisher that takes one message at a time, and the       *)
(* PublishBatch of Kafka, JetStream and core NATS.  "other" is a           *)
(* BatchPublisher of the application, which may report anything.           *)
(*                                                                         *)
(* The broker stores a message some time after it is on the wire, and its  *)
(* acknowledgement may be lost.  Envelopes are numbered from 0.            *)
(***************************************************************************)
EXTENDS Integers, Sequences, FiniteSets, TLC

CONSTANTS
    N,          \* the envelopes of the batch
    Adapters    \* the transports the bus may be bound to

SizeAssumption == N \in Nat \ {0}
AdaptersAssumption == Adapters \subseteq {"one", "kafka", "jetstream", "nats", "other"}

VARIABLES
    adapter,    \* the transport
    pc,         \* where PublishAll stands
    at,         \* the envelope it is at
    wire,       \* a message: "none", "flight", "stored" or "lost"
    ack,        \* what the client knows of it: "none", "ok" or "err"
    unsent,     \* the indices the adapter has listed as unsent, in that order
    waited,     \* the messages whose outcome it has taken
    closed,     \* the transport is closed
    result      \* what PublishAll returned

vars == <<adapter, pc, at, wire, ack, unsent, waited, closed, result>>

Index == 0 .. N - 1

Nil == [kind |-> "nil", unsent |-> <<>>, first |-> -1]
Plain == [Nil EXCEPT !.kind = "plain"]
Envelope == [Nil EXCEPT !.kind = "envelope"]
Pending == [Nil EXCEPT !.kind = "pending"]

\* Each variable has its type; the adapter never lists more than the batch.
TypeOK ==
    /\ adapter \in Adapters
    /\ pc \in {"begin", "encode", "refuse", "send", "wait", "flush", "done"}
    /\ at \in 0 .. N
    /\ wire \in [Index -> {"none", "flight", "stored", "lost"}]
    /\ ack \in [Index -> {"none", "ok", "err"}]
    /\ unsent \in Seq(Index) /\ Len(unsent) <= N
    /\ waited \subseteq Index
    /\ closed \in BOOLEAN
    /\ result.kind \in {"pending", "nil", "plain", "envelope", "partial"}

Init ==
    /\ adapter \in Adapters
    /\ pc = "begin" /\ at = 0
    /\ wire = [i \in Index |-> "none"] /\ ack = [i \in Index |-> "none"]
    /\ unsent = <<>> /\ waited = {}
    /\ closed = FALSE
    /\ result = Pending

-----------------------------------------------------------------------------
\* UnsentAt sorts a copy and derives Sent from the lowest.
UnsentAt(indices) ==
    LET sorted == SortSeq(indices, <)
    IN  [kind |-> "partial", unsent |-> sorted, first |-> IF sorted = <<>> THEN 0 ELSE sorted[1]]

From(i) == [k \in 1 .. N - i |-> i + k - 1]

\* UnsentFrom reports a batch that stopped at index i.
UnsentFrom(i) == UnsentAt(From(i))

\* Faulty: an index may come twice.
validateUnsent_dup(list) ==
    /\ list # <<>>
    /\ \A k \in DOMAIN list : list[k] \in Index /\ (k > 1 => list[k] >= list[k - 1])

\* Whether a partial report can be true: it names some envelope, each of the batch, ascending.
validateUnsent(list) ==
    /\ list # <<>>
    /\ \A k \in DOMAIN list : list[k] \in Index /\ (k > 1 => list[k] > list[k - 1])

\* checkedBatch replaces an impossible report by one that names the whole batch.
checkedBatch(r) ==
    IF r.kind # "partial" THEN r
    ELSE IF validateUnsent(r.unsent) THEN [r EXCEPT !.first = r.unsent[1]]
    ELSE UnsentFrom(0)

Return(r) == pc' = "done" /\ result' = r

-----------------------------------------------------------------------------
\* A cancelled context publishes nothing.
Begin ==
    /\ pc = "begin"
    /\ \/ Return(Plain)
       \/ pc' = "encode" /\ UNCHANGED result
    /\ UNCHANGED <<adapter, at, wire, ack, unsent, waited, closed>>

\* An envelope that will not encode refuses the batch.
Encode ==
    /\ pc = "encode"
    /\ \/ at < N /\ Return(Envelope) /\ UNCHANGED at
       \/ at < N /\ at' = at + 1 /\ UNCHANGED <<pc, result>>
       \/ /\ at = N
          /\ at' = 0
          /\ pc' = IF adapter = "one" THEN "send" ELSE "refuse"
          /\ UNCHANGED result
    /\ UNCHANGED <<adapter, wire, ack, unsent, waited, closed>>

\* PublishBatch refuses on a closed transport or an ended context, and for a message it cannot
\* carry: Kafka with the error of encode, NATS with an EnvelopeError (carriedAll).
Refuse ==
    /\ pc = "refuse" /\ adapter # "other"
    /\ \/ (adapter = "nats" => closed) /\ Return(Plain)
       \/ Return(IF adapter = "kafka" THEN Plain ELSE Envelope)
       \/ ~closed /\ pc' = "send" /\ UNCHANGED result
    /\ UNCHANGED <<adapter, at, wire, ack, unsent, waited, closed>>

\* A BatchPublisher of the application.
Other ==
    /\ pc = "refuse" /\ adapter = "other"
    /\ \E r \in {Nil, Plain} \cup
                {UnsentAt(<<>>)} \cup
                {[kind |-> "partial", unsent |-> l, first |-> 0] : l \in UNION {[1 .. n -> -1 .. N] : n \in 1 .. 2}} :
           Return(checkedBatch(r))
    /\ UNCHANGED <<adapter, at, wire, ack, unsent, waited, closed>>

\* Faulty: a batch that stops is an error like any other.
Stopped_plain(i) == Plain

\* A publish that fails ends the batch at i.
Stopped(i) == UnsentFrom(i)

\* PublishAll without a BatchPublisher: each message is on the wire, then waited for.
SendOne ==
    /\ pc = "send" /\ adapter = "one"
    /\ \/ at = N /\ Return(Nil) /\ UNCHANGED wire
       \/ at < N /\ Return(Stopped(at)) /\ UNCHANGED wire
       \/ at < N /\ wire' = [wire EXCEPT ![at] = "flight"] /\ pc' = "wait" /\ UNCHANGED result
    /\ UNCHANGED <<adapter, at, ack, unsent, waited, closed>>

WaitOne ==
    /\ pc = "wait" /\ adapter = "one" /\ ack[at] # "none"
    /\ \/ ack[at] = "ok" /\ at' = at + 1 /\ pc' = "send" /\ UNCHANGED result
       \/ ack[at] = "err" /\ Return(Stopped(at)) /\ UNCHANGED at
    /\ UNCHANGED <<adapter, wire, ack, unsent, waited, closed>>

\* Kafka: ProduceSync sends every record and returns when each has its result.
ProduceSync ==
    /\ pc = "send" /\ adapter = "kafka"
    /\ pc' = "wait"
    /\ wire' = [i \in Index |-> "flight"]
    /\ UNCHANGED <<adapter, at, ack, unsent, waited, closed, result>>

\* Its results come in any order.
KafkaResult(i) ==
    /\ pc = "wait" /\ adapter = "kafka" /\ ack[i] # "none" /\ i \notin waited
    /\ waited' = waited \cup {i}
    /\ unsent' = IF ack[i] = "err" THEN Append(unsent, i) ELSE unsent
    /\ UNCHANGED <<adapter, pc, at, wire, ack, closed, result>>

\* Faulty: the messages after the one PublishMsgAsync refused are not listed.
NotSent_one == <<at>>

NotSent == From(at)

\* JetStream: each message is sent without waiting; one the client refuses ends the sending.
PublishMsgAsync ==
    /\ pc = "send" /\ adapter = "jetstream"
    /\ \/ /\ at < N
          /\ wire' = [wire EXCEPT ![at] = "flight"]
          /\ at' = at + 1
          /\ UNCHANGED <<pc, unsent>>
       \/ /\ at < N
          /\ unsent' = NotSent
          /\ pc' = "wait"
          /\ UNCHANGED <<at, wire>>
       \/ /\ at = N
          /\ pc' = "wait"
          /\ UNCHANGED <<at, wire, unsent>>
    /\ UNCHANGED <<adapter, ack, waited, closed, result>>

\* Faulty: Close does not end the wait.
WaitOver_never == FALSE

WaitOver == closed

\* The futures are waited for in order; Close ends the wait.
WaitFuture ==
    LET i == Cardinality(waited)
    IN  /\ pc = "wait" /\ adapter = "jetstream" /\ i < at
        /\ \/ ack[i] = "ok" /\ UNCHANGED unsent
           \/ ack[i] = "err" /\ unsent' = Append(unsent, i)
           \/ WaitOver /\ unsent' = Append(unsent, i)
        /\ waited' = waited \cup {i}
        /\ UNCHANGED <<adapter, pc, at, wire, ack, closed, result>>

\* Every outcome is known.
BatchReturns ==
    /\ pc = "wait"
    /\ \/ adapter = "kafka" /\ waited = Index
       \/ adapter = "jetstream" /\ Cardinality(waited) = at
    /\ Return(checkedBatch(IF unsent = <<>> THEN Nil ELSE UnsentAt(unsent)))
    /\ UNCHANGED <<adapter, at, wire, ack, unsent, waited, closed>>

\* Core NATS: a message in the connection's buffer counts as sent; then one flush.
PublishMsg ==
    /\ pc = "send" /\ adapter = "nats"
    /\ \/ /\ at < N
          /\ wire' = [wire EXCEPT ![at] = "flight"] /\ ack' = [ack EXCEPT ![at] = "ok"]
          /\ at' = at + 1
          /\ UNCHANGED <<pc, result>>
       \/ at < N /\ Return(checkedBatch(Stopped(at))) /\ UNCHANGED <<at, wire, ack>>
       \/ at = N /\ pc' = "flush" /\ UNCHANGED <<at, wire, ack, result>>
    /\ UNCHANGED <<adapter, unsent, waited, closed>>

flush ==
    /\ pc = "flush"
    /\ \/ Return(Nil) /\ wire' = [i \in Index |-> "stored"]
       \/ Return(Plain) /\ UNCHANGED wire
    /\ UNCHANGED <<adapter, at, ack, unsent, waited, closed>>

-----------------------------------------------------------------------------
(* The broker and the client library.                                      *)

Store(i) ==
    /\ wire[i] = "flight"
    /\ \/ wire' = [wire EXCEPT ![i] = "stored"]
       \/ wire' = [wire EXCEPT ![i] = "lost"]
    /\ UNCHANGED <<adapter, pc, at, ack, unsent, waited, closed, result>>

Acknowledge(i) ==
    /\ wire[i] = "stored" /\ ack[i] = "none"
    /\ ack' = [ack EXCEPT ![i] = "ok"]
    /\ UNCHANGED <<adapter, pc, at, wire, unsent, waited, closed, result>>

\* The message is refused or lost, or its acknowledgement is, or the wait for it has run out.
Fail(i) ==
    /\ wire[i] # "none" /\ ack[i] = "none"
    /\ ack' = [ack EXCEPT ![i] = "err"]
    /\ UNCHANGED <<adapter, pc, at, wire, unsent, waited, closed, result>>

Close ==
    /\ ~closed
    /\ closed' = TRUE
    /\ UNCHANGED <<adapter, pc, at, wire, ack, unsent, waited, result>>

CallStep ==
    \/ Begin \/ Encode \/ Refuse \/ Other \/ SendOne \/ WaitOne \/ ProduceSync
    \/ \E i \in Index : KafkaResult(i)
    \/ PublishMsgAsync \/ WaitFuture \/ BatchReturns \/ PublishMsg \/ flush

Next ==
    \/ CallStep \/ Close
    \/ \E i \in Index : Store(i) \/ Acknowledge(i) \/ Fail(i)

Spec == Init /\ [][Next]_vars

\* The goroutine of the call is scheduled; nothing is assumed of the broker.
FairSpec == Spec /\ WF_vars(CallStep)

-----------------------------------------------------------------------------
\* Every envelope the result does not name unsent was confirmed: nil stands for the whole batch,
\* a PartialPublishError for every envelope outside Unsent, whatever order the outcomes came in
\* (PublishAll, PublishBatch, UnsentAt).  Every variable keeps its type.
Accounted ==
    /\ TypeOK
    /\ adapter # "other" =>
          /\ result.kind = "nil" => \A i \in Index : ack[i] = "ok"
          /\ result.kind = "partial" =>
                \A i \in Index : ack[i] = "ok" \/ \E k \in DOMAIN result.unsent : result.unsent[k] = i

\* The PartialPublishError a caller sees names some envelope, each of the batch and once, in
\* ascending order, and Sent is the first, whatever the transport reported (checkedBatch).
ReportValid ==
    result.kind = "partial" =>
        /\ result.unsent # <<>> /\ result.first = result.unsent[1]
        /\ \A k \in DOMAIN result.unsent : result.unsent[k] \in Index
        /\ \A j, k \in DOMAIN result.unsent : j < k => result.unsent[j] < result.unsent[k]

\* A plain error means that nothing went out (events.BatchPublisher).
PlainMeansNothing ==
    result.kind \in {"plain", "envelope"} => \A i \in Index : wire[i] = "none"

\* The same, but for core NATS once it has given the whole batch to the connection (flush).
PlainBeforeFlush == (adapter = "nats" /\ at = N) \/ PlainMeansNothing

ClosedPublish == closed /\ adapter = "jetstream"

PublishOver == pc = "done"

\* Close ends a publish that waits, though the broker never answers (JetStream.PublishBatch).
CloseEndsPublish == ClosedPublish ~> PublishOver
=============================================================================
