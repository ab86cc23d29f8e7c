---------------------------- MODULE KafkaConsumer ----------------------------
(***************************************************************************)
(* The read loop of one Kafka subscription: consume and deliver of         *)
(* pkg/events/kafka/kafka.go, or consumeBatches, pollBatch and deliverBatch*)
(* of pkg/events/kafka/batch.go, in a classic consumer group or in a share *)
(* group, with the broker it reads from.                                   *)
(*                                                                         *)
(* The subscription's context may end and Close may run at any step; the   *)
(* process may crash, and the subscription is started again.  The broker   *)
(* and the client library are external: a classic group has a committed    *)
(* offset per partition, a share group acquires a record for one consumer  *)
(* until it is answered or its lock lapses.  The consumer has the group to *)
(* itself.                                                                 *)
(***************************************************************************)
EXTENDS Integers, Sequences, FiniteSets

CONSTANTS
    Partitions,     \* the partitions of the topic
    Length,         \* how many records each partition has
    Foreign,        \* the records of another contract
    Modes,          \* the subscriptions to look at, each by its kind of group and of handler
    Max,            \* Batch.Max
    MaxDeliveries,  \* WithMaxDeliveries, zero for none
    Outcomes,       \* what a handler may return and ask for
    MaxCount,       \* bound: the deliveries of one record
    MaxMishaps      \* bound: how often a lock lapses or the subscription stops, by a crash or not

Records == UNION {{p} \X (1 .. Length[p]) : p \in Partitions}
Dispositions == {"unset", "settle", "redeliver", "reject"}

ASSUME ModesAssumption == Modes \subseteq [share: BOOLEAN, batch: BOOLEAN]
ASSUME SizeAssumption == Length \in [Partitions -> Nat] /\ Max \in Nat \ {0} /\ MaxDeliveries \in Nat
ASSUME ForeignAssumption == Foreign \subseteq Records
ASSUME OutcomesAssumption == Outcomes \subseteq [err: BOOLEAN, asked: Dispositions]
ASSUME BoundsAssumption == {MaxCount, MaxMishaps} \subseteq Nat

VARIABLES
    mode,       \* the subscription's kind, which never changes
    committed,  \* classic: the last offset committed in a partition
    position,   \* classic: the last offset fetched from a partition
    status,     \* share: "available", "acquired", "accepted" or "rejected"
    count,      \* share: the deliveries of a record
    acks,       \* share: the answers the client has not sent yet
    clientOpen, \* whether the client is open
    ctxEnded,   \* the subscription's context has ended
    closed,     \* Transport.closed
    pc,         \* where the read loop stands
    recs,       \* the records polled
    timer,      \* the deadline of pollCtx: "none", "running" or "expired"
    handled,    \* the records of recs the loop has dealt with
    back,       \* the records of a batch returned to the broker, by index
    outcome,    \* what the handler asked for the record at an index of a batch
    answers,    \* history: the answers given since a record was acquired
    ended,      \* history: the records whose handling ended, not cut short
    accepting,  \* history: the records some handling took as done
    rejecting,  \* history: the records given up, by the chain or at the cap
    mishaps

broker == <<committed, position, status, count>>
answering == <<acks, answers>>
shutdown == <<clientOpen, ctxEnded, closed>>
poll == <<recs, timer>>
dealing == <<handled, back, outcome>>
history == <<ended, accepting, rejecting>>
bounds == <<mishaps, mode>>
vars == <<broker, answering, shutdown, pc, poll, dealing, history, bounds>>

\* WithShareGroup, and whether the subscription is a batch one.
Share == mode.share
Batch == mode.batch

stopping == ctxEnded \/ closed

\* The indices of the records of this contract.
Mine == {i \in DOMAIN recs : recs[i] \notin Foreign}

\* Each variable has its type; a batch never holds more than Max records.
TypeOK ==
    /\ mode \in Modes
    /\ committed \in [Partitions -> Nat] /\ position \in [Partitions -> Nat]
    /\ \A p \in Partitions : committed[p] <= Length[p] /\ position[p] <= Length[p]
    /\ status \in [Records -> {"available", "acquired", "accepted", "rejected"}]
    /\ count \in [Records -> 0 .. MaxCount]
    /\ acks \subseteq (Records \X (1 .. MaxCount) \X {"accept", "release", "reject"})
    /\ {clientOpen, ctxEnded, closed} \subseteq BOOLEAN
    /\ pc \in {"top", "polling", "polled", "gathering", "delivering", "handing", "handling",
               "ending", "decoding", "answering", "committing", "stopped", "down"}
    /\ recs \in Seq(Records) /\ (Batch => Len(recs) <= Max)
    /\ timer \in {"none", "running", "expired"}
    /\ handled \in 0 .. Len(recs)
    /\ back \subseteq DOMAIN recs
    /\ outcome \in Seq(Outcomes)
    /\ answers \in [Records -> Nat]
    /\ ended \subseteq Records /\ accepting \subseteq Records /\ rejecting \subseteq Records
    /\ mishaps \in 0 .. MaxMishaps

Init ==
    /\ mode \in Modes
    /\ committed = [p \in Partitions |-> 0] /\ position = committed
    /\ status = [r \in Records |-> "available"]
    /\ count = [r \in Records |-> 0] /\ answers = count
    /\ acks = {}
    /\ clientOpen = TRUE /\ ctxEnded = FALSE /\ closed = FALSE
    /\ pc = "top"
    /\ recs = <<>> /\ timer = "none"
    /\ handled = 0 /\ back = {} /\ outcome = <<>>
    /\ ended = {} /\ accepting = {} /\ rejecting = {}
    /\ mishaps = 0

-----------------------------------------------------------------------------
\* Record.Ack with each answer of A, in a share group; a classic group answers nothing.  The
\* client keeps the answers until it sends them, and a closed client sends none.
Ack(A) ==
    /\ acks' = IF Share /\ clientOpen
               THEN acks \cup {<<a[1], count[a[1]], a[2]>> : a \in A} ELSE acks
    /\ answers' = [r \in Records |->
                     answers[r] + IF Share THEN Cardinality({a \in A : a[1] = r}) ELSE 0]

\* handBack: a share group releases the records of S, a classic one leaves them uncommitted.
handBack(S) == Ack(S \X {"release"})

\* Whether the shutdown cut the handling of a record short.
interrupted(o) == o.err /\ ctxEnded /\ o.asked \in {"unset", "redeliver"}

\* Whether WithMaxDeliveries overrides the chain's Redeliver.
capped(o, r) == o.asked = "redeliver" /\ MaxDeliveries > 0 /\ count[r] >= MaxDeliveries

\* The answer to a record; unset accepts.
ackFor(o, r) ==
    CASE o.asked = "redeliver" -> IF capped(o, r) THEN "reject" ELSE "release"
      [] o.asked = "reject" -> "reject"
      [] OTHER -> "accept"

\* The handling of record r ended with o: a share group answers it.
Settle(o, r) ==
    /\ ended' = ended \cup {r}
    /\ accepting' = IF o.asked \in {"unset", "settle"} THEN accepting \cup {r} ELSE accepting
    /\ rejecting' = IF o.asked = "reject" \/ capped(o, r) THEN rejecting \cup {r} ELSE rejecting
    /\ Ack({<<r, ackFor(o, r)>>})

-----------------------------------------------------------------------------
\* The offsets a poll may return from partition p: in a share group those no consumer holds.
Fetchable(p) ==
    {n \in 1 .. Length[p] :
        IF Share THEN status[<<p, n>>] = "available" /\ count[<<p, n>>] < MaxCount
                 ELSE n > position[p]}

\* What a poll may return from partition p: its first records, in offset order.
FetchedFrom(p) ==
    {f \in UNION {[1 .. n -> {p} \X Fetchable(p)] : n \in 0 .. Length[p]} :
        /\ \A i, j \in DOMAIN f : i < j => f[i][2] < f[j][2]
        /\ \A j \in DOMAIN f : \A k \in Fetchable(p) :
              k < f[j][2] => \E i \in DOMAIN f : f[i][2] = k}

\* The most records a poll asks for.
Limit == IF Batch THEN Max - Len(recs) ELSE Cardinality(Records)

\* What a poll may return: records of one partition or of two, one partition after the other.
Fetched ==
    LET from(P) == UNION {FetchedFrom(p) : p \in P}
        one == from(Partitions)
        two == UNION {{f \o g : f \in FetchedFrom(p), g \in from(Partitions \ {p})} : p \in Partitions}
    IN  {f \in one \cup two : f # <<>> /\ Len(f) <= Limit}

\* The offsets of partition p among the records of S.
Offsets(S, p) == {r[2] : r \in {s \in S : s[1] = p}}

\* For each partition the highest offset among the records of S, or what it was without one.
Raised(at, S) ==
    [p \in Partitions |->
        IF Offsets(S, p) = {} THEN at[p]
        ELSE CHOOSE n \in Offsets(S, p) : \A m \in Offsets(S, p) : m <= n]

\* releaseClient: the loop closes its client, unless Close has taken it.
releaseClient == clientOpen' = (clientOpen /\ closed)

\* The loop looks whether it must stop, and polls.  The client then accepts what the last fetch
\* left unanswered.
Top ==
    /\ pc = "top"
    /\ \/ /\ stopping
          /\ pc' = "stopped"
          /\ releaseClient
          /\ UNCHANGED <<answering, poll, dealing>>
       \/ /\ ~stopping
          /\ pc' = "polling"
          /\ LET left == {recs[i] : i \in {j \in DOMAIN recs : answers[recs[j]] = 0}}
             IN  Ack(left \X {"accept"})
          /\ recs' = <<>> /\ timer' = "none"
          /\ handled' = 0 /\ back' = {} /\ outcome' = <<>>
          /\ UNCHANGED clientOpen
    /\ UNCHANGED <<broker, ctxEnded, closed, history, bounds>>

\* A poll returns records: a share group acquires them.
Poll ==
    /\ pc = "polling" /\ clientOpen
    /\ pc' = "polled"
    /\ \E f \in Fetched :
          LET got == {f[i] : i \in DOMAIN f}
          IN  /\ recs' = recs \o f
              /\ IF Share
                 THEN /\ status' = [r \in Records |-> IF r \in got THEN "acquired" ELSE status[r]]
                      /\ count' = [r \in Records |-> IF r \in got THEN count[r] + 1 ELSE count[r]]
                      /\ answers' = [r \in Records |-> IF r \in got THEN 0 ELSE answers[r]]
                      /\ UNCHANGED position
                 ELSE /\ position' = Raised(position, got)
                      /\ UNCHANGED <<status, count, answers>>
    /\ UNCHANGED <<committed, acks, shutdown, timer, dealing, history, bounds>>

\* A poll returns nothing: its context ended, the client was closed, or the broker failed it.
PollNothing ==
    /\ pc = "polling"
    /\ pc' = "polled"
    /\ UNCHANGED <<broker, answering, shutdown, poll, dealing, history, bounds>>

\* The first record of the batch has waited for Wait.
WaitOver ==
    /\ timer = "running" /\ pc \in {"polling", "polled", "gathering"}
    /\ timer' = "expired"
    /\ UNCHANGED <<broker, answering, shutdown, pc, recs, dealing, history, bounds>>

\* The records polled so far.
Polled == {recs[i] : i \in DOMAIN recs}

\* After a poll the loop looks again: when it must stop, the records go back and it ends.
PollReturns ==
    /\ pc = "polled"
    /\ \/ /\ stopping \/ ~clientOpen
          /\ pc' = "stopped"
          /\ handBack(Polled)
          /\ releaseClient
       \/ /\ ~stopping /\ clientOpen
          /\ pc' = IF Batch THEN "gathering" ELSE "delivering"
          /\ UNCHANGED <<answering, clientOpen>>
    /\ UNCHANGED <<broker, ctxEnded, closed, poll, dealing, history, bounds>>

\* Faulty: the wait of a batch is not looked at.
Gathered_full == Share \/ ctxEnded \/ Len(recs) >= Max

\* A share group's batch is one fetch; a classic one's is full or its wait is over.
Gathered == Share \/ ctxEnded \/ timer = "expired" \/ Len(recs) >= Max

\* The batch is complete, or polls again with the wait of its first record running.
Gather ==
    /\ pc = "gathering"
    /\ pc' = CASE ~Gathered -> "polling"
               [] Gathered /\ recs = <<>> -> "top"
               [] Gathered /\ recs # <<>> -> "decoding"
    /\ timer' = IF ~Gathered /\ recs # <<>> /\ timer = "none" THEN "running" ELSE timer
    /\ UNCHANGED <<broker, answering, shutdown, recs, dealing, history, bounds>>

-----------------------------------------------------------------------------
(* consume and deliver: one record at a time.                              *)

\* The fetch is dealt with, or the loop must stop.
FetchOver == handled = Len(recs) \/ stopping

\* The next record: one of another contract is skipped.
NextRecord ==
    /\ pc = "delivering"
    /\ \/ /\ FetchOver
          /\ pc' = "ending"
          /\ UNCHANGED <<handled, answering>>
       \/ /\ ~FetchOver /\ recs[handled + 1] \in Foreign
          /\ handled' = handled + 1
          /\ Ack({<<recs[handled + 1], "accept">>})
          /\ UNCHANGED pc
       \/ /\ ~FetchOver /\ recs[handled + 1] \notin Foreign
          /\ pc' = "handing"
          /\ UNCHANGED <<handled, answering>>
    /\ UNCHANGED <<broker, shutdown, poll, back, outcome, history, bounds>>

\* The handler is called: the loop may have had to stop since it looked.
HandOver ==
    /\ pc = "handing"
    /\ pc' = "handling"
    /\ UNCHANGED <<broker, answering, shutdown, poll, dealing, history, bounds>>

\* The handler returns: the record is answered, unless the shutdown cut it short.
HandlerReturns(o) ==
    /\ pc = "handling" /\ ~Batch
    /\ IF interrupted(o)
       THEN pc' = "ending" /\ UNCHANGED <<handled, answering, ended, accepting, rejecting>>
       ELSE pc' = "delivering" /\ handled' = handled + 1 /\ Settle(o, recs[handled + 1])
    /\ UNCHANGED <<broker, shutdown, poll, back, outcome, bounds>>

\* The records of the fetch the loop did not deal with.
LeftOver == {recs[i] : i \in handled + 1 .. Len(recs)}

\* They go back.
EndFetch ==
    /\ pc = "ending"
    /\ pc' = "committing"
    /\ handBack(LeftOver)
    /\ UNCHANGED <<broker, shutdown, poll, dealing, history, bounds>>

-----------------------------------------------------------------------------
(* deliverBatch: the records of a batch at once.                           *)

\* The records of another contract are skipped, and when the loop must stop the others go back.
Decode ==
    LET mine == {recs[i] : i \in Mine}
        stop == mine # {} /\ stopping
    IN  /\ pc = "decoding"
        /\ pc' = IF mine = {} \/ stop THEN "committing" ELSE "handing"
        /\ back' = IF stop THEN Mine ELSE {}
        /\ Ack(((Polled \ mine) \X {"accept"}) \cup (IF stop THEN mine \X {"release"} ELSE {}))
        /\ UNCHANGED <<broker, shutdown, poll, handled, outcome, history, bounds>>

\* The batch handler returns, with an error and a disposition for each record.
BatchReturns ==
    /\ pc = "handling" /\ Batch
    /\ pc' = "answering"
    /\ outcome' \in [1 .. Len(recs) -> Outcomes]
    /\ UNCHANGED <<broker, answering, shutdown, poll, handled, back, history, bounds>>

\* Faulty: a record the shutdown cut short is left unanswered.
CutShort_silent(i) == back' = back \cup {i} /\ UNCHANGED answering

\* The record at i goes back.
CutShort(i) == back' = back \cup {i} /\ handBack({recs[i]})

\* The records are answered one by one; the context may end between two of them.
Answer ==
    LET i == handled + 1
    IN  /\ pc = "answering"
        /\ IF handled = Len(recs) THEN pc' = "committing" /\ UNCHANGED handled
                                  ELSE handled' = i /\ UNCHANGED pc
        /\ \/ /\ i \notin Mine
              /\ UNCHANGED <<back, answering, ended, accepting, rejecting>>
           \/ /\ i \in Mine /\ interrupted(outcome[i])
              /\ CutShort(i)
              /\ UNCHANGED <<ended, accepting, rejecting>>
           \/ /\ i \in Mine /\ ~interrupted(outcome[i])
              /\ Settle(outcome[i], recs[i])
              /\ UNCHANGED back
        /\ UNCHANGED <<broker, shutdown, poll, outcome, bounds>>

-----------------------------------------------------------------------------
\* Faulty: only the records that went back are left out.
committable_holes == DOMAIN recs \ back

\* The records of a batch before, in their partition, the first that went back.
committable == {i \in DOMAIN recs : ~\E j \in back : j <= i /\ recs[j][1] = recs[i][1]}

\* The records a classic group commits.
ToCommit == {recs[i] : i \in IF Batch THEN committable ELSE 1 .. handled}

\* CommitRecords: the committed offset of a partition is a high-water mark.
CommitRecords(S) == committed' = Raised(committed, S)

\* A classic group commits what was handled; the broker may fail the commit.
commit ==
    /\ pc = "committing"
    /\ pc' = "top"
    /\ \/ ~Share /\ clientOpen /\ ToCommit # {} /\ CommitRecords(ToCommit)
       \/ UNCHANGED committed
    /\ UNCHANGED <<position, status, count, answering, shutdown, poll, dealing, history, bounds>>

-----------------------------------------------------------------------------
\* A stop counts once, whatever brings it about.
CountStop ==
    /\ stopping \/ mishaps < MaxMishaps
    /\ mishaps' = IF stopping THEN mishaps ELSE mishaps + 1
    /\ UNCHANGED mode

\* The subscription's context ends.
EndContext ==
    /\ ~ctxEnded /\ pc \notin {"stopped", "down"} /\ CountStop
    /\ ctxEnded' = TRUE
    /\ UNCHANGED <<broker, answering, clientOpen, closed, pc, poll, dealing, history>>

\* Close marks the transport closed, and then closes the client.
Close ==
    /\ ~closed /\ pc \notin {"stopped", "down"} /\ CountStop
    /\ closed' = TRUE
    /\ UNCHANGED <<broker, answering, clientOpen, ctxEnded, pc, poll, dealing, history>>

CloseClient ==
    /\ closed /\ clientOpen
    /\ clientOpen' = FALSE
    /\ UNCHANGED <<broker, answering, ctxEnded, closed, pc, poll, dealing, history, bounds>>

\* The client sends the answers: the broker takes one for a record that delivery still holds.
FlushAcks ==
    LET becomes == [accept |-> "accepted", reject |-> "rejected", release |-> "available"]
        sent(r) == {a \in acks : a[1] = r /\ a[2] = count[r] /\ status[r] = "acquired"}
    IN  /\ acks # {}
        /\ acks' = {}
        /\ status' = [r \in Records |-> IF sent(r) = {} THEN status[r]
                                        ELSE becomes[(CHOOSE a \in sent(r) : TRUE)[3]]]
        /\ UNCHANGED <<committed, position, count, answers, shutdown, pc, poll, dealing, history, bounds>>

\* The lock of a record lapses before the loop answers; it may at any time, renewed by holdOpen or not.
Lapse(r) ==
    /\ status[r] = "acquired" /\ mishaps < MaxMishaps
    /\ status' = [status EXCEPT ![r] = "available"]
    /\ mishaps' = mishaps + 1
    /\ UNCHANGED <<committed, position, count, answering, shutdown, pc, poll, dealing, history, mode>>

\* The process dies.
Crash ==
    /\ pc \notin {"stopped", "down"} /\ CountStop
    /\ pc' = "down"
    /\ clientOpen' = FALSE
    /\ acks' = {}
    /\ UNCHANGED <<broker, answers, ctxEnded, closed, poll, dealing, history>>

\* The subscription is made again: the broker gives up what the last client held, and the
\* answers it had not sent are lost.
Restart ==
    /\ pc \in {"stopped", "down"}
    /\ pc' = "top"
    /\ position' = committed
    /\ status' = [r \in Records |-> IF status[r] = "acquired" THEN "available" ELSE status[r]]
    /\ clientOpen' = TRUE /\ ctxEnded' = FALSE /\ closed' = FALSE
    /\ acks' = {}
    /\ recs' = <<>> /\ timer' = "none"
    /\ handled' = 0 /\ back' = {} /\ outcome' = <<>>
    /\ UNCHANGED <<committed, count, answers, ended, accepting, rejecting, bounds>>

\* A step of the read loop.
LoopStep ==
    \/ Top \/ PollReturns \/ Gather \/ NextRecord \/ HandOver
    \/ \E o \in Outcomes : HandlerReturns(o)
    \/ EndFetch \/ Decode \/ BatchReturns \/ Answer \/ commit

Next ==
    \/ LoopStep \/ Poll \/ PollNothing \/ WaitOver \/ FlushAcks
    \/ EndContext \/ Close \/ CloseClient \/ Crash \/ Restart
    \/ \E r \in Records : Lapse(r)

Spec == Init /\ [][Next]_vars

\* The loop is scheduled and handlers return; Close comes to the client, the wait of a batch
\* ends, a poll whose context has ended returns; the client sends the answers, a broker asked
\* over and over answers a poll, and a subscription that stopped is made again.
Fairness ==
    /\ WF_vars(LoopStep) /\ WF_vars(CloseClient) /\ WF_vars(WaitOver)
    /\ WF_vars(PollNothing /\ (ctxEnded \/ ~clientOpen \/ timer = "expired"))
    /\ WF_vars(FlushAcks) /\ SF_vars(Poll) /\ WF_vars(Restart)

FairSpec == Spec /\ Fairness

-----------------------------------------------------------------------------
\* A classic group never commits past a record whose handling did not end: what the shutdown
\* kept from the handler or cut short is delivered again (consume, commit and committable).
CommittedEnded ==
    \A p \in Partitions : \A n \in 1 .. committed[p] : <<p, n>> \in ended \cup Foreign

\* A share group is rid of a record only by a handling that took it as done or gave it up:
\* neither the shutdown nor the accept of the next fetch drops one (deliver, ackFor, handBack).
DroppedEnded ==
    \A r \in Records : /\ status[r] = "accepted" => r \in accepting \cup Foreign
                       /\ status[r] = "rejected" => r \in rejecting

\* The broker is rid of a record only once its handling has ended, in either kind of group and
\* wherever the loop is stopped or crashes.  Every variable keeps its type.
SettledEnded == TypeOK /\ CommittedEnded /\ DroppedEnded

\* Every record a share group acquires is answered once: the loop answers none twice, and when
\* it has stopped it leaves none for its lock to lapse (deliver, deliverBatch, handBack).
AnsweredOnce ==
    /\ \A r \in Records : answers[r] <= 1
    /\ Share /\ pc = "stopped" => \A r \in Records : status[r] = "acquired" => answers[r] = 1

\* Every record's handling ends, however the subscription stops and starts again, a batch that
\* never fills being handed over when its wait is over (consume, consumeBatches); and under
\* WithMaxDeliveries a share group is rid of every record, whatever the chain asks for (capped).
EveryRecordSettles ==
    <>(/\ Records \ Foreign \subseteq ended
       /\ Share => \A r \in Records : status[r] \in {"accepted", "rejected"})

\* The broker is rid of a record only once its handling has ended, and a record a share group
\* acquires is answered once (consume, deliver, commit, handBack).
RecordsKept == SettledEnded /\ AnsweredOnce

-----------------------------------------------------------------------------
\* An instance for TLC: both kinds of group, each with both kinds of handler.
AllModes == [share: BOOLEAN, batch: BOOLEAN]

\* Two records in a partition, and one of another contract in the other.
Busy == CHOOSE p \in Partitions : TRUE
Lengths == [p \in Partitions |-> IF p = Busy THEN 2 ELSE 1]
OneForeign == (Partitions \ {Busy}) \X {1}

\* One handler outcome per way the loop tells them apart.
AllOutcomes == {[err |-> FALSE, asked |-> "unset"], [err |-> TRUE, asked |-> "redeliver"],
                [err |-> TRUE, asked |-> "reject"]}
=============================================================================
