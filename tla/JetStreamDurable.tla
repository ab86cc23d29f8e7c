-------------------------- MODULE JetStreamDurable --------------------------
(***************************************************************************)
(* The durable of a consumer group while the replicas of a deployment, on  *)
(* several versions, start and stop: how Subscribe plans the group, looks  *)
(* the durable up, and creates, adopts or repoints it, and how a delivery  *)
(* finds its handler (pkg/events/nats/jetstream.go, plan, durable,         *)
(* createDurable, adopting, dispatch).                                     *)
(*                                                                         *)
(* The lookup and the write are two calls to the server.  A filter is the  *)
(* set of its subjects; the empty one is no filter, which is every subject.*)
(***************************************************************************)
EXTENDS Naturals, FiniteSets

CONSTANTS
    Replicas,       \* the processes of the group
    Subjects,       \* the subjects of the streams
    Subs,           \* a replica's subscriptions: the subject, the stream that carries it, and batch
    AllowNarrow,    \* the replicas whose group config has AllowNarrow
    DeliverNew,     \* those whose group config asks for the messages after the durable's creation only
    Durables,       \* what may be on the server to begin with
    Messages,       \* the messages published
    MaxStops,       \* bound: the times a replica is stopped
    NoStream        \* no stream carries a subject

ASSUME SubsAssumption ==
    \A r \in Replicas : \A s \in Subs[r] : s.subject \in Subjects /\ s.batch \in BOOLEAN
ASSUME PlacesAssumption == Replicas \cap {"unpublished", "stream", "passed", "done"} = {}
ASSUME DurablesAssumption ==
    Durables \subseteq [there : BOOLEAN, filter : SUBSET Subjects, explicit : BOOLEAN]

VARIABLES
    durable,    \* the durable on the server: whether it is there, its filter, whether acks are explicit
    version,    \* history: the writes it has had
    taken,      \* history: the subjects a replica took from its filter that may, or that looked too early
    pc,         \* where a replica's Subscribe stands
    carried,    \* the filter a replica found
    looked,     \* the version it found it at
    stops,      \* the stops so far
    msg         \* a message: its subject and where it is

rvars == <<pc, carried, looked>>
vars == <<durable, version, taken, rvars, stops, msg>>

\* The subjects of the group in a replica's plan.
Planned(r) == {s.subject : s \in Subs[r]}

Init ==
    /\ durable \in Durables /\ version = 0 /\ taken = {}
    /\ pc = [r \in Replicas |-> "down"]
    /\ carried = [r \in Replicas |-> {}] /\ looked = [r \in Replicas |-> 0]
    /\ stops = 0
    /\ msg = [m \in Messages |-> [subject |-> "none", at |-> "unpublished"]]

-----------------------------------------------------------------------------
(* A replica's Subscribe.                                                  *)

\* streamCovering: a subject some stream carries.
Covered(s) == s.stream # NoStream

\* plan: each subject is carried by a stream, all by one, none comes twice, and a batch
\* subscription has the group to itself.
PlanOK(r) ==
    /\ \A s \in Subs[r] : Covered(s)
    /\ \A s, t \in Subs[r] : s.stream = t.stream /\ (s # t => s.subject # t.subject)
    /\ (\E s \in Subs[r] : s.batch) => Cardinality(Subs[r]) = 1

\* checkAccount and streamCovering ask the server; either may get no answer in time.
Start(r) ==
    /\ pc[r] = "down"
    /\ \/ PlanOK(r) /\ pc' = [pc EXCEPT ![r] = "looking"]
       \/ pc' = [pc EXCEPT ![r] = "failed"]
    /\ UNCHANGED <<durable, version, taken, carried, looked, stops, msg>>

\* Faulty: no filter, which is every subject, counts as none.
Widens_empty(found, planned) == found \subseteq planned

\* subset, of a filter that has subjects: pointing the durable at the plan takes none away.
Widens(found, planned) == found # {} /\ found \subseteq planned

\* Faulty: any filter that shares a subject with the plan may be repointed.
Adopting_overlap(found, planned, narrow) ==
    IF found = planned THEN "adoptAsIs"
    ELSE IF narrow \/ found \cap planned # {} THEN "repoint"
    ELSE "refuse"

\* adopting: only a widening is repointed without allowNarrow.
Adopting(found, planned, narrow) ==
    IF found = planned THEN "adoptAsIs"
    ELSE IF narrow \/ Widens(found, planned) THEN "repoint"
    ELSE "refuse"

\* durable, up to its write.
Lookup(r) ==
    /\ pc[r] = "looking"
    /\ carried' = [carried EXCEPT ![r] = durable.filter]
    /\ looked' = [looked EXCEPT ![r] = version]
    /\ pc' = [pc EXCEPT ![r] =
                 IF ~durable.there THEN "creating"
                 ELSE IF ~durable.explicit THEN "failed"
                 ELSE CASE Adopting(durable.filter, Planned(r), r \in AllowNarrow) = "adoptAsIs" -> "consuming"
                        [] Adopting(durable.filter, Planned(r), r \in AllowNarrow) = "repoint" -> "updating"
                        [] OTHER -> "failed"]
    /\ UNCHANGED <<durable, version, taken, stops, msg>>

\* The messages a durable created by r starts after: DeliverAll, the default, leaves out none.
Skipped(r) == {m \in Messages : r \in DeliverNew /\ msg[m].at = "stream"}

\* createDurable.  The server refuses to create a durable that is there with another filter; its
\* answer may come too late for the probe's timeout.
Create(r) ==
    /\ pc[r] = "creating"
    /\ \/ /\ ~durable.there
          /\ durable' = [there |-> TRUE, filter |-> Planned(r), explicit |-> TRUE]
          /\ version' = version + 1
          /\ msg' = [m \in Messages |-> IF m \in Skipped(r) THEN [msg[m] EXCEPT !.at = "passed"] ELSE msg[m]]
          /\ \E end \in {"consuming", "failed"} : pc' = [pc EXCEPT ![r] = end]
       \/ /\ durable.there
          /\ pc' = [pc EXCEPT ![r] = IF durable.filter = Planned(r) /\ durable.explicit THEN "consuming" ELSE "failed"]
          /\ UNCHANGED <<durable, version, msg>>
    /\ UNCHANGED <<taken, carried, looked, stops>>

\* setFilter, on the configuration the server has.
SetFilter(d, r) == [d EXCEPT !.filter = Planned(r)]

\* The subjects a filter lets through.
Through(filter) == IF filter = {} THEN Subjects ELSE filter

\* A replica that may take subjects from the filter, or cannot know that it does.
MayTake(r) == r \in AllowNarrow \/ looked[r] # version

\* UpdateConsumer writes the filter, whatever it has become since the lookup; here too the answer
\* may be late.
Update(r) ==
    /\ pc[r] = "updating"
    /\ durable' = SetFilter(durable, r)
    /\ version' = version + 1
    /\ taken' = (taken \cup (IF MayTake(r) THEN Through(durable.filter) ELSE {})) \ Planned(r)
    /\ \E end \in {"consuming", "failed"} : pc' = [pc EXCEPT ![r] = end]
    /\ UNCHANGED <<carried, looked, stops, msg>>

\* A call fails at the server, or never gets to it in time.
Fails(r) ==
    /\ pc[r] \in {"looking", "creating", "updating"}
    /\ pc' = [pc EXCEPT ![r] = "failed"]
    /\ UNCHANGED <<durable, version, taken, carried, looked, stops, msg>>

\* The process stops or crashes; what it had not answered goes back.  One that failed to
\* subscribe is started again.
Stop(r) ==
    /\ pc[r] \in {"consuming", "failed"} /\ stops < MaxStops
    /\ pc' = [pc EXCEPT ![r] = "down"]
    /\ stops' = stops + 1
    /\ msg' = [m \in Messages |-> IF msg[m].at = r THEN [msg[m] EXCEPT !.at = "stream"] ELSE msg[m]]
    /\ UNCHANGED <<durable, version, taken, carried, looked>>

-----------------------------------------------------------------------------
(* Deliveries.                                                             *)

Filtered(s) == durable.there /\ s \in Through(durable.filter)

\* A message waits on the stream, with a durable there or not yet.
Publish(m, s) ==
    /\ msg[m].at = "unpublished"
    /\ msg' = [msg EXCEPT ![m] = [subject |-> s, at |-> "stream"]]
    /\ UNCHANGED <<durable, version, taken, rvars, stops>>

\* The durable passes a message by that it has no filter for, and never comes back to it.
Pass(m) ==
    /\ msg[m].at = "stream" /\ durable.there /\ ~Filtered(msg[m].subject)
    /\ msg' = [msg EXCEPT ![m].at = "passed"]
    /\ UNCHANGED <<durable, version, taken, rvars, stops>>

\* The server gives a message to any replica that pulls.
Deliver(m, r) ==
    /\ msg[m].at = "stream" /\ Filtered(msg[m].subject) /\ pc[r] = "consuming"
    /\ msg' = [msg EXCEPT ![m].at = r]
    /\ UNCHANGED <<durable, version, taken, rvars, stops>>

\* Faulty: a message no subscription here handles is terminated.
Answer_term(m, r) == IF msg[m].subject \in Planned(r) THEN "done" ELSE "passed"

\* What dispatch does with a delivery: the subject's handler, or back to the stream.
Answer(m, r) == IF msg[m].subject \in Planned(r) THEN "done" ELSE "stream"

Dispatch(m, r) ==
    /\ msg[m].at = r
    /\ msg' = [msg EXCEPT ![m].at = Answer(m, r)]
    /\ UNCHANGED <<durable, version, taken, rvars, stops>>

Next ==
    \/ \E r \in Replicas : Start(r) \/ Lookup(r) \/ Create(r) \/ Update(r) \/ Fails(r) \/ Stop(r)
    \/ \E m \in Messages, s \in Subjects : Publish(m, s)
    \/ \E m \in Messages : Pass(m)
    \/ \E m \in Messages, r \in Replicas : Deliver(m, r) \/ Dispatch(m, r)

Spec == Init /\ [][Next]_vars

\* A replica that asks again and again gets its turn with a message; what it got it answers.
Fairness ==
    \A m \in Messages, r \in Replicas : SF_vars(Deliver(m, r)) /\ WF_vars(Dispatch(m, r))

FairSpec == Spec /\ Fairness

-----------------------------------------------------------------------------
\* The durable's filter loses a subject only to a replica that has AllowNarrow, or that looked the
\* durable up before another replica's write: adopting repoints a widening alone, of the filter
\* the lookup returned (durable, UpdateConsumer).
NarrowsOnRequest ==
    [][\A s \in Subjects :
           (Filtered(s) /\ ~Filtered(s)') =>
               \E r \in Replicas : pc[r] = "updating" /\ pc'[r] # "updating" /\ MayTake(r)]_vars

\* The filter loses a subject only to a replica that has AllowNarrow.
NarrowsOnlyIfAllowed ==
    [][\A s \in Subjects :
           (Filtered(s) /\ ~Filtered(s)') =>
               \E r \in AllowNarrow : pc[r] = "updating" /\ pc'[r] # "updating"]_vars

\* A replica that consumes is served: the durable filters every subject it subscribes, whatever
\* the replicas of other versions have made of the durable since, but for a subject that one with
\* AllowNarrow, or with a lookup out of date, took away and nobody has put back (durable,
\* createDurable, adopting).
ServedWhileUp ==
    \A r \in Replicas : pc[r] = "consuming" => \A s \in Planned(r) : Filtered(s) \/ s \in taken

\* A message on the stream is answered while a replica consumes that subscribes its subject and
\* the durable filters it, though the other replicas are given it too (dispatch).
ServedIsAnswered ==
    \A m \in Messages :
        msg[m].at = "stream" ~>
            \/ msg[m].at = "done"
            \/ ~\E r \in Replicas : pc[r] = "consuming" /\ msg[m].subject \in Planned(r) /\ Filtered(msg[m].subject)
=============================================================================
