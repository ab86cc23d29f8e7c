-------------------------- MODULE JetStreamDelivery --------------------------
(***************************************************************************)
(* The delivery of a group's messages: dispatch, deliver and holdOpen of   *)
(* pkg/events/nats/jetstream.go, or consumeBatches, gather, deliverBatch   *)
(* and batchHold of pkg/events/nats/jetstream_batch.go, with the durable   *)
(* they consume.                                                           *)
(*                                                                         *)
(* The durable delivers a message, counts the delivery and delivers it     *)
(* again once AckWait has passed without an answer; a hold resets that     *)
(* timer from a goroutine of its own.  The subscription's context may end, *)
(* Close may drain or stop the consumer, and the process may crash, at any *)
(* step.  A delivery is a pair <<message, count>>.                         *)
(***************************************************************************)
EXTENDS Integers, Sequences, FiniteSets

CONSTANTS
    Msgs,           \* the messages of the stream the durable filters
    Foreign,        \* those of a subject no consumer here handles
    Modes,          \* the groups to look at: whether the subscription is a batch one
    Max,            \* Batch.Max
    MaxInFlight,    \* WithMaxInFlight, the messages a pull buffers
    MaxDeliveries,  \* WithMaxDeliveries, zero for none
    Outcomes,       \* what a handler may return and ask for
    MaxCount,       \* bound: the deliveries of one message
    MaxMishaps,     \* bound: how often the consumer ends, AckWait passes for a message in hand, an
                    \* answer is lost, or a message comes between the end of the context and Stop
    MaxResets       \* bound: how often a hold resets the timers

ASSUME SizesAssumption == Max \in Nat \ {0} /\ MaxInFlight \in Nat \ {0} /\ MaxDeliveries \in Nat
ASSUME ModesAssumption == Modes \subseteq BOOLEAN
ASSUME ForeignAssumption == Foreign \subseteq Msgs
ASSUME OutcomesAssumption ==
    Outcomes \subseteq [err: BOOLEAN, asked: {"unset", "settle", "redeliver", "reject"}]
ASSUME BoundsAssumption == {MaxCount, MaxMishaps, MaxResets} \subseteq Nat

\* One handler outcome per way the answers tell them apart, for an instance.
AllOutcomes == {[err |-> FALSE, asked |-> "unset"], [err |-> TRUE, asked |-> "unset"],
                [err |-> TRUE, asked |-> "redeliver"], [err |-> FALSE, asked |-> "reject"]}

VARIABLES
    Batch,      \* whether the group's subscription is a batch one, which never changes
    status,     \* a message: "available", "delivered", "acked" or "termed"
    count,      \* its deliveries
    state,      \* the consumer: "running", "draining" or "stopped" (batchState)
    ended,      \* the subscription's context has ended
    buffer,     \* the deliveries in the pull's buffer
    pc,         \* where the callback, or the loop of a batch group, stands
    ms,         \* the deliveries in hand
    outcome,    \* what the handler returned and asked for each
    answered,   \* how many of them are answered
    hold,       \* the goroutine of the hold: "off", "waiting" or "resetting"
    resetting,  \* the deliveries it is about to reset
    answers,    \* history: the answers to a delivery
    lateReset,  \* history: a timer was reset after the answer
    unseen,     \* history: gathered messages were handed back unseen by a running consumer
    accepting,  \* history: the messages some handling took as done
    rejecting,  \* history: the messages given up, by the chain or at the cap
    mishaps, resets

Deliveries == Msgs \X (1 .. MaxCount)
server == <<status, count>>
inHand == <<ms, outcome, answered>>
holding == <<hold, resetting>>
history == <<lateReset, unseen, accepting, rejecting>>
bounds == <<mishaps, resets, Batch>>
vars == <<server, state, ended, buffer, pc, inHand, holding, answers, history, bounds>>

\* Each variable has its type; a batch never holds more than Max messages.
TypeOK ==
    /\ Batch \in Modes
    /\ status \in [Msgs -> {"available", "delivered", "acked", "termed"}]
    /\ count \in [Msgs -> 0 .. MaxCount]
    /\ state \in {"running", "draining", "stopped"}
    /\ ended \in BOOLEAN
    /\ buffer \in Seq(Deliveries) /\ Len(buffer) <= MaxInFlight
    /\ pc \in {"idle", "gathering", "gathered", "handing", "handling", "releasing", "answering",
               "returning", "closed"}
    /\ ms \in Seq(Deliveries) /\ Len(ms) <= (IF Batch THEN Max ELSE 1)
    /\ outcome \in Seq(Outcomes)
    /\ answered \in 0 .. Len(ms)
    /\ hold \in {"off", "waiting", "resetting"}
    /\ resetting \subseteq Deliveries
    /\ answers \in [Deliveries -> Nat]
    /\ {lateReset, unseen} \subseteq BOOLEAN
    /\ accepting \subseteq Msgs /\ rejecting \subseteq Msgs
    /\ mishaps \in 0 .. MaxMishaps /\ resets \in 0 .. MaxResets

Init ==
    /\ Batch \in Modes
    /\ status = [m \in Msgs |-> "available"] /\ count = [m \in Msgs |-> 0]
    /\ state = "running" /\ ended = FALSE
    /\ buffer = <<>>
    /\ pc = "idle"
    /\ ms = <<>> /\ outcome = <<>> /\ answered = 0
    /\ hold = "off" /\ resetting = {}
    /\ answers = [d \in Deliveries |-> 0]
    /\ lateReset = FALSE /\ unseen = FALSE
    /\ accepting = {} /\ rejecting = {}
    /\ mishaps = 0 /\ resets = 0

Handed == {ms[i] : i \in DOMAIN ms}
Buffered == {buffer[i] : i \in DOMAIN buffer}

-----------------------------------------------------------------------------
(* The durable.                                                            *)

\* A message the durable may deliver.
Deliverable == {m \in Msgs : status[m] = "available" /\ count[m] < MaxCount}

DeliverTo(m) ==
    /\ status' = [status EXCEPT ![m] = "delivered"]
    /\ count' = [count EXCEPT ![m] = @ + 1]

\* The answers A to deliveries of different messages reach the server, or are lost with the
\* connection.
Answer(A) ==
    LET becomes == [ack |-> "acked", term |-> "termed", nak |-> "available"]
        to(m) == {a \in A : a[1][1] = m}
        taken == [m \in Msgs |-> IF to(m) = {} \/ status[m] \in {"acked", "termed"} THEN status[m]
                                 ELSE becomes[(CHOOSE a \in to(m) : TRUE)[2]]]
    IN  /\ \/ status' = taken /\ UNCHANGED mishaps
           \/ mishaps < MaxMishaps /\ mishaps' = mishaps + 1 /\ UNCHANGED status
        /\ answers' = [d \in Deliveries |-> answers[d] + Cardinality({a \in A : a[1] = d})]

\* AckWait passes for a message no one here will answer;
Lapse(m) ==
    /\ status[m] = "delivered" /\ <<m, count[m]>> \notin Handed \cup Buffered
    /\ status' = [status EXCEPT ![m] = "available"]
    /\ UNCHANGED <<count, state, ended, buffer, pc, inHand, holding, answers, history, bounds>>

\* or for one that waits in a buffer or whose reset comes late.
LapseInHand(m) ==
    /\ status[m] = "delivered" /\ <<m, count[m]>> \in Handed \cup Buffered
    /\ mishaps < MaxMishaps
    /\ mishaps' = mishaps + 1
    /\ status' = [status EXCEPT ![m] = "available"]
    /\ UNCHANGED <<count, state, ended, buffer, pc, inHand, holding, answers, history, resets, Batch>>

-----------------------------------------------------------------------------
(* holdOpen and batchHold: a goroutine resets the timers every half AckWait.*)

Tick ==
    /\ hold = "waiting" /\ ms # <<>> /\ resets < MaxResets
    /\ hold' = "resetting"
    /\ resetting' = Handed
    /\ resets' = resets + 1
    /\ UNCHANGED <<server, state, ended, buffer, pc, inHand, answers, history, mishaps, Batch>>

Reset ==
    /\ hold = "resetting"
    /\ hold' = IF pc \in {"gathering", "gathered", "handing", "handling", "releasing", "returning"}
               THEN "waiting" ELSE "off"
    /\ resetting' = {}
    /\ lateReset' = (lateReset \/ \E d \in resetting : answers[d] > 0)
    /\ UNCHANGED <<server, state, ended, buffer, pc, inHand, answers, unseen, accepting, rejecting, bounds>>

\* Faulty: the hold is told to end and not waited for.
Ended_told == TRUE

\* release returns once no reset can follow.
Ended == hold # "resetting"

release == Ended /\ hold' = (IF hold = "waiting" THEN "off" ELSE hold) /\ UNCHANGED resetting

-----------------------------------------------------------------------------
(* consume, dispatch and deliver: one message at a time.                   *)

\* The pull delivers a message into the buffer.
Pull(m) ==
    /\ ~Batch /\ pc # "closed" /\ state = "running" /\ Len(buffer) < MaxInFlight
    /\ m \in Deliverable
    /\ DeliverTo(m)
    /\ buffer' = Append(buffer, <<m, count[m] + 1>>)
    /\ IF ended THEN mishaps < MaxMishaps /\ mishaps' = mishaps + 1 ELSE UNCHANGED mishaps
    /\ UNCHANGED <<state, ended, pc, inHand, holding, answers, history, resets, Batch>>

\* Whether deliver hands the message back unhandled.
Refused(m) == m \in Foreign \/ ended

\* dispatch and deliver: a message no consumer here handles goes back, as does one that arrives
\* once the context has ended; for another the hold starts.
dispatch ==
    LET d == Head(buffer)
    IN  /\ ~Batch /\ pc = "idle" /\ buffer # <<>>
        /\ buffer' = Tail(buffer)
        /\ \/ /\ Refused(d[1])
              /\ Answer({<<d, "nak">>})
              /\ UNCHANGED <<pc, inHand, hold>>
           \/ /\ ~Refused(d[1])
              /\ pc' = "handing"
              /\ ms' = <<d>> /\ outcome' = <<>> /\ answered' = 0
              /\ hold' = "waiting"
              /\ UNCHANGED <<status, answers, mishaps>>
        /\ UNCHANGED <<count, state, ended, resetting, history, resets, Batch>>

\* The library ends a consumer told to stop, or to drain what it has.
ConsumeEnds ==
    /\ ~Batch /\ pc = "idle" /\ buffer = <<>> /\ state # "running"
    /\ pc' = "closed"
    /\ UNCHANGED <<server, state, ended, buffer, inHand, holding, answers, history, bounds>>

-----------------------------------------------------------------------------
(* consumeBatches and gather: a batch at a time.                           *)

\* The loop looks whether to go on, and starts the hold of the next batch.
Loop ==
    /\ Batch /\ pc = "idle"
    /\ \/ /\ state = "running" /\ ~ended
          /\ pc' = "gathering"
          /\ hold' = "waiting"
       \/ /\ state # "running" \/ ended
          /\ pc' = "closed"
          /\ UNCHANGED hold
    /\ ms' = <<>> /\ outcome' = <<>> /\ answered' = 0
    /\ UNCHANGED <<server, state, ended, buffer, resetting, answers, history, bounds>>

Wanted == Len(ms) < Max

\* A pull returns message m, which joins the batch and its hold unless its subject is foreign.
Fetch(m) ==
    /\ pc = "gathering" /\ Wanted
    /\ m \in Deliverable
    /\ count' = [count EXCEPT ![m] = @ + 1]
    /\ IF m \in Foreign
       THEN /\ UNCHANGED status
            /\ answers' = [answers EXCEPT ![<<m, count[m] + 1>>] = @ + 1]
            /\ UNCHANGED ms
       ELSE /\ status' = [status EXCEPT ![m] = "delivered"]
            /\ ms' = Append(ms, <<m, count[m] + 1>>)
            /\ UNCHANGED answers
    /\ UNCHANGED <<state, ended, buffer, pc, outcome, answered, holding, history, bounds>>

\* Faulty: gather returns a full batch only.
GatherReturns_full ==
    /\ pc = "gathering" /\ (Len(ms) = Max \/ state # "running" \/ ended)
    /\ pc' = "gathered"
    /\ UNCHANGED <<server, state, ended, buffer, inHand, holding, answers, history, bounds>>

\* gather returns: the batch is full or its wait over, the pull ran out of time or failed, or
\* Drain or Stop ended it.
GatherReturns ==
    /\ pc = "gathering"
    /\ pc' = "gathered"
    /\ UNCHANGED <<server, state, ended, buffer, inHand, holding, answers, history, bounds>>

\* Faulty: a consumer that drains hands the batch back.
GivesBack_drain == state # "running" \/ ended

\* A stopped consumer hands the batch back; a draining one still hands it over.
GivesBack == state = "stopped" \/ ended

Gathered ==
    /\ pc = "gathered"
    /\ \/ /\ GivesBack
          /\ pc' = "returning"
          /\ UNCHANGED holding
       \/ /\ ~GivesBack /\ ms = <<>>
          /\ release
          /\ pc' = "idle"
       \/ /\ ~GivesBack /\ ms # <<>>
          /\ pc' = "handing"
          /\ UNCHANGED holding
    /\ UNCHANGED <<server, state, ended, buffer, inHand, answers, history, bounds>>

\* Faulty: the batch a stopped consumer gathered is dropped.
GiveBack_drop == UNCHANGED <<status, answers, mishaps>>

GiveBack == Answer(Handed \X {"nak"})

\* The batch goes back and the loop ends.
ReturnBatch ==
    /\ pc = "returning"
    /\ release
    /\ GiveBack
    /\ unseen' = (unseen \/ (state # "stopped" /\ ~ended /\ ms # <<>>))
    /\ answered' = Len(ms)
    /\ pc' = "closed"
    /\ UNCHANGED <<count, state, ended, buffer, ms, outcome, lateReset, accepting, rejecting, resets, Batch>>

-----------------------------------------------------------------------------
(* deliver and deliverBatch: the handler and the answers.                  *)

HandOver ==
    /\ pc = "handing"
    /\ pc' = "handling"
    /\ UNCHANGED <<server, state, ended, buffer, inHand, holding, answers, history, bounds>>

HandlerReturns ==
    /\ pc = "handling"
    /\ pc' = "releasing"
    /\ outcome' \in [1 .. Len(ms) -> Outcomes]
    /\ UNCHANGED <<server, state, ended, buffer, ms, answered, holding, answers, history, bounds>>

ReleaseHold ==
    /\ pc = "releasing"
    /\ release
    /\ pc' = "answering"
    /\ UNCHANGED <<server, state, ended, buffer, inHand, answers, history, bounds>>

\* Whether the shutdown cut the handling of a message short.
interrupted(o) == o.err /\ ended /\ o.asked \in {"unset", "redeliver"}

\* Whether WithMaxDeliveries overrides the chain's Redeliver.
capped(o, d) == o.asked = "redeliver" /\ MaxDeliveries > 0 /\ d[2] >= MaxDeliveries

\* Faulty: a message cut short is settled.
answer_settle(o, d) ==
    CASE o.asked = "redeliver" /\ ~capped(o, d) -> "nak"
      [] o.asked = "reject" \/ capped(o, d) -> "term"
      [] OTHER -> "ack"

\* The answer to a delivery: handBack for one cut short, or what the chain decided; unset settles.
answer(o, d) ==
    CASE interrupted(o) \/ (o.asked = "redeliver" /\ ~capped(o, d)) -> "nak"
      [] ~interrupted(o) /\ (o.asked = "reject" \/ capped(o, d)) -> "term"
      [] OTHER -> "ack"

\* The messages are answered in turn; the context may end between two of them.
AnswerNext ==
    LET i == answered + 1
        o == outcome[i]
    IN  /\ pc = "answering"
        /\ \/ /\ answered = Len(ms)
              /\ pc' = "idle"
              /\ ms' = <<>> /\ outcome' = <<>> /\ answered' = 0
              /\ UNCHANGED <<status, answers, mishaps, accepting, rejecting>>
           \/ /\ answered < Len(ms)
              /\ answered' = i
              /\ Answer({<<ms[i], answer(o, ms[i])>>})
              /\ accepting' = IF ~interrupted(o) /\ o.asked \in {"unset", "settle"}
                              THEN accepting \cup {ms[i][1]} ELSE accepting
              /\ rejecting' = IF o.asked = "reject" \/ (~interrupted(o) /\ capped(o, ms[i]))
                              THEN rejecting \cup {ms[i][1]} ELSE rejecting
              /\ UNCHANGED <<pc, ms, outcome>>
        /\ UNCHANGED <<count, state, ended, buffer, holding, lateReset, unseen, resets, Batch>>

-----------------------------------------------------------------------------
\* An end counts once, whatever brings it about.
CountEnd ==
    LET ending == ended \/ state # "running"
    IN  /\ ending \/ mishaps < MaxMishaps
        /\ mishaps' = IF ending THEN mishaps ELSE mishaps + 1
        /\ UNCHANGED <<resets, Batch>>

EndContext ==
    /\ ~ended /\ pc # "closed" /\ CountEnd
    /\ ended' = TRUE
    /\ UNCHANGED <<server, state, buffer, pc, inHand, holding, answers, history>>

\* Close drains the consumer.
Drain ==
    /\ state = "running" /\ pc # "closed" /\ CountEnd
    /\ state' = "draining"
    /\ UNCHANGED <<server, ended, buffer, pc, inHand, holding, answers, history>>

\* The goroutine that watches the context, or Close that has waited, stops it: the pull's buffer
\* is dropped, and comes back once AckWait has passed.
Stop ==
    /\ state # "stopped" /\ (ended \/ state = "draining") /\ pc # "closed"
    /\ state' = "stopped"
    /\ buffer' = <<>>
    /\ UNCHANGED <<server, ended, pc, inHand, holding, answers, history, bounds>>

Crash ==
    /\ pc # "closed" /\ CountEnd
    /\ pc' = "closed"
    /\ state' = "stopped"
    /\ buffer' = <<>> /\ ms' = <<>> /\ outcome' = <<>> /\ answered' = 0
    /\ hold' = "off" /\ resetting' = {}
    /\ UNCHANGED <<server, ended, answers, history>>

\* The group is subscribed again.
Restart ==
    /\ pc = "closed" /\ hold = "off"
    /\ pc' = "idle" /\ state' = "running" /\ ended' = FALSE
    /\ ms' = <<>> /\ outcome' = <<>> /\ answered' = 0
    /\ UNCHANGED <<server, buffer, holding, answers, history, bounds>>

ConsumerStep ==
    \/ dispatch \/ ConsumeEnds \/ Loop \/ GatherReturns \/ Gathered \/ ReturnBatch
    \/ HandOver \/ HandlerReturns \/ ReleaseHold \/ AnswerNext

Next ==
    \/ ConsumerStep \/ Tick \/ Reset
    \/ \E m \in Msgs : Pull(m) \/ Fetch(m) \/ Lapse(m) \/ LapseInHand(m)
    \/ EndContext \/ Drain \/ Stop \/ Crash \/ Restart

Spec == Init /\ [][Next]_vars

\* Goroutines are scheduled and handlers return; the server delivers what it may to a consumer
\* that asks over and over, and AckWait passes; a consumer that ended is started again.
Fairness ==
    /\ WF_vars(ConsumerStep) /\ WF_vars(Reset) /\ WF_vars(Stop) /\ WF_vars(Restart)
    /\ WF_vars(\E m \in Msgs : Lapse(m)) /\ SF_vars(\E m \in Msgs : Pull(m) \/ Fetch(m))

FairSpec == Spec /\ Fairness

-----------------------------------------------------------------------------
\* The stream is rid of a message only by a handling that took it as done or gave it up; what
\* the shutdown kept from the handler or cut short stays (deliver, deliverBatch, handBack).  Every
\* variable keeps its type.
DroppedEnded ==
    /\ TypeOK
    /\ \A m \in Msgs : /\ status[m] = "acked" => m \in accepting
                       /\ status[m] = "termed" => m \in rejecting

\* A delivery is answered once at most, and a batch group that ended without a crash has
\* answered every message it fetched (consumeBatches, deliverBatch).
AnsweredOnce ==
    /\ \A d \in Deliveries : answers[d] <= 1
    /\ Batch /\ pc \in {"idle", "closed"} => \A d \in Handed : answers[d] = 1

\* No reset of the redelivery timer follows the answer (holdOpen, batchHold.release).
NoLateReset == ~lateReset

\* Drain hands over what was gathered: messages go back unseen only from a consumer that was
\* stopped or whose context ended (consumeBatches).
DrainHandsOver == ~unseen

\* Under WithMaxDeliveries the stream is rid of every message in the end, whatever the chain
\* asks for and however the consumer ends (answer, capped).
EveryMessageSettles == <>(\A m \in Msgs \ Foreign : status[m] \in {"acked", "termed"})

\* No message is lost, answered twice, held open after its answer or handed back unseen by a Drain
\* (deliver, deliverBatch, holdOpen, consumeBatches).
MessagesKept == DroppedEnded /\ AnsweredOnce /\ NoLateReset /\ DrainHandsOver
=============================================================================
