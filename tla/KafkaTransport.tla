---------------------------- MODULE KafkaTransport ----------------------------
(***************************************************************************)
(* The clients and the topic claims of the Kafka transport,                *)
(* pkg/events/kafka/kafka.go: subscribeOne, the end of a read loop, the    *)
(* producer a publish opens on first use, and Close.                       *)
(*                                                                         *)
(* A step is what a goroutine does under one hold of Transport.mu, or one  *)
(* call of the client library.  What a read loop does with its records is  *)
(* modelled in KafkaConsumer.                                              *)
(***************************************************************************)
EXTENDS Integers, FiniteSets

CONSTANTS
    Subs,       \* the subscriptions, each subscribed by one call
    Keys,       \* the groupTopic pairs
    KeyOf,      \* the group and topic of a subscription
    Contracts,  \* the contracts
    NoContract, \* the key is not in Transport.held
    Share,      \* WithShareGroup
    Publishers, \* the goroutines that publish, once each
    Closers     \* the goroutines that call Close

ASSUME SubsAssumption == KeyOf \in [Subs -> Keys] /\ IsFiniteSet(Subs)
ASSUME NoContractAssumption == NoContract \notin Contracts
ASSUME NamesAssumption == Subs \cap Publishers = {}

\* Every subscription of one group and topic, for an instance.
OneKey == [s \in Subs |-> CHOOSE k \in Keys : TRUE]

VARIABLES
    closed,     \* Transport.closed
    holder,     \* Transport.held: the contract a key is claimed for
    readers,    \* Transport.held: the readers of the claim
    clients,    \* Transport.clients: the consumers Close would close, by subscription
    producer,   \* Transport.producer: the publisher that opened it, or none
    shareOK,    \* Transport.shareOK
    ended,      \* whether the context of a subscription has ended
    contract,   \* the contract a subscription was made for
    pc,         \* where subscribeOne, then its read loop, stands
    publish,    \* where a publish stands, then what it returned
    using,      \* the producer a publish uses
    closing,    \* where a Close call stands
    toClose,    \* the clients a Close call has still to close
    client,     \* the state of each client, by who opened it
    closes      \* history: how often Close was called on a client

claimVars == <<holder, readers>>
subVars == <<pc, contract>>
clientVars == <<client, closes>>
publishVars == <<producer, publish, using>>
closeVars == <<closed, closing, toClose>>
vars == <<claimVars, clients, shareOK, ended, subVars, publishVars, closeVars, clientVars>>

Owners == Subs \cup Publishers

\* From claim to release.
Holding == {"claimed", "opening", "probing", "dialing", "dialed", "running", "leaving", "closing", "left", "failing"}

Holders(k) == {s \in Subs : KeyOf[s] = k /\ pc[s] \in Holding}

TypeOK ==
    /\ closed \in BOOLEAN
    /\ holder \in [Keys -> Contracts \cup {NoContract}]
    /\ readers \in [Keys -> Nat]
    /\ clients \in SUBSET Subs
    /\ producer \in SUBSET Publishers
    /\ shareOK \in BOOLEAN
    /\ ended \in [Subs -> BOOLEAN]
    /\ pc \in [Subs -> Holding \cup {"idle", "returned", "done"}]
    /\ contract \in [Subs -> Contracts \cup {NoContract}]
    /\ publish \in [Publishers -> {"idle", "producing", "nil", "ErrClosed", "error"}]
    /\ using \in [Publishers -> SUBSET Publishers]
    /\ closing \in [Closers -> {"idle", "closing", "returned"}]
    /\ toClose \in [Closers -> SUBSET Owners]
    /\ client \in [Owners -> {"none", "open", "closed"}]
    /\ closes \in [Owners -> Nat]

Init ==
    /\ closed = FALSE
    /\ holder = [k \in Keys |-> NoContract]
    /\ readers = [k \in Keys |-> 0]
    /\ clients = {}
    /\ producer = {}
    /\ shareOK = FALSE
    /\ ended = [s \in Subs |-> FALSE]
    /\ pc = [s \in Subs |-> "idle"]
    /\ contract = [s \in Subs |-> NoContract]
    /\ publish = [p \in Publishers |-> "idle"]
    /\ using = [p \in Publishers |-> {}]
    /\ closing = [c \in Closers |-> "idle"]
    /\ toClose = [c \in Closers |-> {}]
    /\ client = [o \in Owners |-> "none"]
    /\ closes = [o \in Owners |-> 0]

-----------------------------------------------------------------------------
\* kgo.Client.Close.
CloseClient(o) ==
    /\ client' = [client EXCEPT ![o] = "closed"]
    /\ closes' = [closes EXCEPT ![o] = @ + 1]

\* kgo.NewClient.
OpenClient(o) ==
    /\ client' = [client EXCEPT ![o] = "open"]
    /\ UNCHANGED closes

\* Faulty: whoever comes joins the claim.
Joins_any(k, a) == TRUE

Joins(k, a) == holder[k] \in {NoContract, a}

\* subscribeOne of contract a starts with claim: a reader of the same contract joins, another
\* is refused.
claim(s, a) ==
    LET k == KeyOf[s]
    IN  /\ pc[s] = "idle"
        /\ contract' = [contract EXCEPT ![s] = a]
        /\ \/ /\ Joins(k, a)
              /\ holder' = [holder EXCEPT ![k] = a]
              /\ readers' = [readers EXCEPT ![k] = @ + 1]
              /\ pc' = [pc EXCEPT ![s] = "claimed"]
           \/ /\ ~Joins(k, a)
              /\ pc' = [pc EXCEPT ![s] = "returned"]
              /\ UNCHANGED claimVars
        /\ UNCHANGED <<clients, shareOK, ended, publishVars, closeVars, clientVars>>

\* openConsumer opens nothing once the transport is closed.
CheckClosed(s) ==
    /\ pc[s] = "claimed"
    /\ pc' = [pc EXCEPT ![s] = IF closed THEN "failing" ELSE "opening"]
    /\ UNCHANGED <<claimVars, clients, shareOK, ended, contract, publishVars, closeVars, clientVars>>

\* probeShareAPIs asks the broker, unless it has answered before;
probeShareAPIs(s) ==
    /\ pc[s] = "opening"
    /\ pc' = [pc EXCEPT ![s] = IF Share /\ ~shareOK THEN "probing" ELSE "dialing"]
    /\ UNCHANGED <<claimVars, clients, shareOK, ended, contract, publishVars, closeVars, clientVars>>

\* only success is cached.
ProbeReturns(s) ==
    /\ pc[s] = "probing"
    /\ \/ /\ pc' = [pc EXCEPT ![s] = "dialing"]
          /\ shareOK' = TRUE
       \/ /\ pc' = [pc EXCEPT ![s] = "failing"]
          /\ UNCHANGED shareOK
    /\ UNCHANGED <<claimVars, clients, ended, contract, publishVars, closeVars, clientVars>>

\* newClient, which fails on options it refuses.
newClient(s) ==
    /\ pc[s] = "dialing"
    /\ \/ /\ pc' = [pc EXCEPT ![s] = "dialed"]
          /\ OpenClient(s)
       \/ /\ pc' = [pc EXCEPT ![s] = "failing"]
          /\ UNCHANGED clientVars
    /\ UNCHANGED <<claimVars, clients, shareOK, ended, contract, publishVars, closeVars>>

\* Faulty: a client opened while Close ran is given up open.
GiveUp_open(s) == UNCHANGED clientVars

\* A client opened while Close ran is closed.
GiveUp(s) == CloseClient(s)

\* track records the client and the read loop starts, or the subscription fails.
track(s) ==
    /\ pc[s] = "dialed"
    /\ \/ /\ ~closed
          /\ clients' = clients \cup {s}
          /\ pc' = [pc EXCEPT ![s] = "running"]
          /\ UNCHANGED clientVars
       \/ /\ closed
          /\ GiveUp(s)
          /\ pc' = [pc EXCEPT ![s] = "failing"]
          /\ UNCHANGED clients
    /\ UNCHANGED <<claimVars, shareOK, ended, contract, publishVars, closeVars>>

-----------------------------------------------------------------------------
\* The context of a subscription ends; once it is done no one looks.
EndContext(s) ==
    /\ ~ended[s] /\ pc[s] \in Holding
    /\ ended' = [ended EXCEPT ![s] = TRUE]
    /\ UNCHANGED <<claimVars, clients, shareOK, subVars, publishVars, closeVars, clientVars>>

\* Faulty: the loop looks at the transport only.
MustStop_closed(s) == closed

MustStop(s) == ended[s] \/ closed

\* The read loop sees that it must stop, or that its client is closed.
LeaveLoop(s) ==
    /\ pc[s] = "running" /\ MustStop(s)
    /\ pc' = [pc EXCEPT ![s] = "leaving"]
    /\ UNCHANGED <<claimVars, clients, shareOK, ended, contract, publishVars, closeVars, clientVars>>

\* Faulty: the client is closed whether or not Close took it.
Held_always(s) == TRUE

\* The client is still the loop's to close.
Held(s) == s \in clients

\* releaseClient takes the client off the list, unless Close took it,
releaseClient(s) ==
    /\ pc[s] = "leaving"
    /\ pc' = [pc EXCEPT ![s] = IF Held(s) THEN "closing" ELSE "left"]
    /\ clients' = clients \ {s}
    /\ UNCHANGED <<claimVars, shareOK, ended, contract, publishVars, closeVars, clientVars>>

\* and closes it.
CloseOwn(s) ==
    /\ pc[s] = "closing"
    /\ pc' = [pc EXCEPT ![s] = "left"]
    /\ CloseClient(s)
    /\ UNCHANGED <<claimVars, clients, shareOK, ended, contract, publishVars, closeVars>>

\* Faulty: the last reader keeps it.
Freed_late(k) == readers[k] <= 0

\* The last reader frees the claim; Close may have dropped it before.
Freed(k) == readers[k] <= 1

\* release, when the loop has ended or the client could not be opened.
release(s) ==
    LET k == KeyOf[s]
    IN  /\ pc[s] \in {"left", "failing"}
        /\ pc' = [pc EXCEPT ![s] = IF pc[s] = "left" THEN "done" ELSE "returned"]
        /\ holder' = IF Freed(k) THEN [holder EXCEPT ![k] = NoContract] ELSE holder
        /\ readers' = [readers EXCEPT ![k] = IF Freed(k) THEN 0 ELSE @ - 1]
        /\ UNCHANGED <<clients, shareOK, ended, contract, publishVars, closeVars, clientVars>>

-----------------------------------------------------------------------------
\* Publish asks producerClient for the producer, which opens it on first use.
producerClient(p) ==
    /\ publish[p] = "idle"
    /\ \/ /\ closed
          /\ publish' = [publish EXCEPT ![p] = "ErrClosed"]
          /\ UNCHANGED <<producer, using, clientVars>>
       \/ /\ ~closed
          /\ publish' = [publish EXCEPT ![p] = "producing"]
          /\ producer' = IF producer = {} THEN {p} ELSE producer
          /\ using' = [using EXCEPT ![p] = producer']
          /\ IF producer = {} THEN OpenClient(p) ELSE UNCHANGED clientVars
       \/ /\ ~closed /\ producer = {}
          /\ publish' = [publish EXCEPT ![p] = "error"]
          /\ UNCHANGED <<producer, using, clientVars>>
    /\ UNCHANGED <<claimVars, clients, shareOK, ended, subVars, closeVars>>

\* ProduceSync returns: the broker's answer, or ErrClosed when the client was closed under it.
Produce(p) ==
    /\ publish[p] = "producing"
    /\ \E o \in using[p] :
          publish' = [publish EXCEPT ![p] = IF client[o] = "closed" THEN "ErrClosed" ELSE "nil"]
    /\ UNCHANGED <<claimVars, clients, producer, using, shareOK, ended, subVars, closeVars, clientVars>>

\* The broker refuses the record.
ProduceFails(p) ==
    /\ publish[p] = "producing"
    /\ publish' = [publish EXCEPT ![p] = "error"]
    /\ UNCHANGED <<claimVars, clients, producer, using, shareOK, ended, subVars, closeVars, clientVars>>

\* Close takes every client and drops the claims, under the lock.
Close(c) ==
    /\ closing[c] = "idle"
    /\ closing' = [closing EXCEPT ![c] = "closing"]
    /\ closed' = TRUE
    /\ toClose' = [toClose EXCEPT ![c] = producer \cup clients]
    /\ producer' = {}
    /\ clients' = {}
    /\ holder' = [k \in Keys |-> NoContract]
    /\ readers' = [k \in Keys |-> 0]
    /\ UNCHANGED <<shareOK, ended, subVars, publish, using, clientVars>>

\* It closes the producer first.
CloseNext(c) ==
    /\ closing[c] = "closing"
    /\ \E o \in toClose[c] :
          /\ toClose[c] \cap Publishers # {} => o \in Publishers
          /\ CloseClient(o)
          /\ toClose' = [toClose EXCEPT ![c] = @ \ {o}]
    /\ UNCHANGED <<claimVars, clients, shareOK, ended, subVars, publishVars, closed, closing>>

CloseReturns(c) ==
    /\ closing[c] = "closing" /\ toClose[c] = {}
    /\ closing' = [closing EXCEPT ![c] = "returned"]
    /\ UNCHANGED <<claimVars, clients, shareOK, ended, subVars, publishVars, closed, toClose, clientVars>>

SubStep(s) ==
    \/ CheckClosed(s) \/ probeShareAPIs(s) \/ ProbeReturns(s) \/ newClient(s) \/ track(s)
    \/ LeaveLoop(s) \/ releaseClient(s) \/ CloseOwn(s) \/ release(s)
CloseStep(c) == CloseNext(c) \/ CloseReturns(c)
GoroutineStep == (\E s \in Subs : SubStep(s)) \/ (\E c \in Closers : CloseStep(c))

Next ==
    \/ \E s \in Subs : (\E a \in Contracts : claim(s, a)) \/ EndContext(s)
    \/ \E p \in Publishers : producerClient(p) \/ Produce(p) \/ ProduceFails(p)
    \/ \E c \in Closers : Close(c)
    \/ GoroutineStep

Spec == Init /\ [][Next]_vars

\* Every goroutine is scheduled, and a read loop comes round to look whether it must stop.  Each
\* takes finitely many steps, so that some one of those that can step does is enough.
Fairness == WF_vars(GoroutineStep)

FairSpec == Spec /\ Fairness

-----------------------------------------------------------------------------
\* Until Close drops them, the claims are exact: claim and release keep the readers of a key
\* equal to the subscriptions between the two, every one of the contract it is held for, and
\* a key without readers is free for any contract.  Every variable keeps its type.
ClaimsExact ==
    /\ TypeOK
    /\ ~closed => \A k \in Keys :
          /\ readers[k] = Cardinality(Holders(k))
          /\ holder[k] = NoContract <=> Holders(k) = {}
          /\ \A s \in Holders(k) : holder[k] = contract[s]

\* No group divides a topic between two contracts: read loops of one group and topic with a
\* client of their own read for one contract, before Close and after it.
OneContract ==
    \A s, t \in Subs : KeyOf[s] = KeyOf[t] /\ client[s] = "open" /\ client[t] = "open"
                          => contract[s] = contract[t]

\* kgo.Client.Close has no guard against a second call: between track, releaseClient and any
\* number of Close calls, a client is closed once at most.
ClosedOnce == \A o \in Owners : closes[o] <= 1 /\ (closes[o] = 1 <=> client[o] = "closed")

\* An open client is always in someone's hands: a Close call's that has still to close it, the
\* transport's until it is closed, or its subscription's, which has opened it and not yet tracked
\* it or has just taken it back.  So nothing leaks, and a closed transport opens nothing again.
NoLeak ==
    \A o \in Owners : client[o] = "open" =>
        \/ \E c \in Closers : o \in toClose[c]
        \/ ~closed /\ o \in clients \cup producer
        \/ o \in Subs /\ pc[o] \in {"dialed", "closing"}

\* Stopping ends everything: a subscription whose context ended gives up its claim and its client,
\* and once Close has been called every subscription does and the producer is closed as well.
StopEndsAll ==
    (closed \/ \E s \in Subs : ended[s] /\ pc[s] \in Holding)
        ~> /\ \A s \in Subs : ended[s] \/ closed => pc[s] \notin Holding /\ client[s] # "open"
           /\ closed => \A p \in Publishers : client[p] # "open"

\* A topic of a group has one contract at a time, and the claims that see to it are exact (claim,
\* release, Subscribe).
TopicsHeld == ClaimsExact /\ OneContract

\* Every client is closed, and closed once (track, releaseClient, Close).
ClientsClosed == ClosedOnce /\ NoLeak
=============================================================================
