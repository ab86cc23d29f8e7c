--------------------------- MODULE MemoryTransport ---------------------------
(***************************************************************************)
(* The in-process transport of pkg/events/memory/memory.go.                *)
(*                                                                         *)
(* A publish call is a process named by the message it carries.  It picks  *)
(* one live member of every group of the contract under the read lock,     *)
(* gives the lock up, and only then counts and starts the deliveries, so a *)
(* member may end between being picked and being delivered to.  A batch    *)
(* member gathers messages in a batcher that hands a batch over when it is *)
(* full, when its timer fires or when the member stops.  Drain waits on a  *)
(* condition variable for the count of unfinished deliveries to be zero.   *)
(*                                                                         *)
(* The groups are those of one contract: groups of different contracts     *)
(* share nothing but the count.  A delivery is a pair <<member, message>>. *)
(***************************************************************************)
EXTENDS Integers, Sequences, FiniteSets

CONSTANTS
    Groups,     \* the groupKeys of the contract
    Members,    \* the subscriptions that may register
    GroupOf,    \* the group of each member
    Batched,    \* the members whose subscription is a batch one
    Max,        \* Batch.Max
    Msgs,       \* the messages, each published by one call
    Drainers,   \* the goroutines that call Drain
    IntMax      \* the largest int: the counter of a group is an int's width

ASSUME MembersAssumption ==
    /\ GroupOf \in [Members -> Groups]
    /\ Batched \subseteq Members
ASSUME MaxAssumption == Max \in Nat \ {0}
ASSUME IntMaxAssumption == IntMax \in Nat
ASSUME FiniteAssumption == IsFiniteSet(Members) /\ IsFiniteSet(Msgs)

\* Every member in one group, for an instance.
OneGroup == [m \in Members |-> CHOOSE g \in Groups : TRUE]

VARIABLES
    members,    \* group.members, in the order they registered
    next,       \* group.next, the round-robin counter
    ended,      \* whether the context of a member has ended
    done,       \* member.done
    pc,         \* where a publish call stands
    toPick,     \* the groups a publish call has still to pick from
    targets,    \* the members a publish call has picked and not handed over to
    inflight,   \* Transport.inflight
    pending,    \* batcher.pending of a batch member
    timer,      \* batcher.timer: "none", "armed", or "fired" and not yet taken
    expiring,   \* the expire calls a fired timer has started, not yet run
    stopped,    \* batcher.stopped
    jobs,       \* the handler calls running or ending
    drain,      \* where a Drain call stands
    owed,       \* history: the deliveries a Drain call must see handled
    picked,     \* history: the deliveries picked
    handled     \* history: the deliveries whose handler has returned

publishVars == <<pc, toPick, targets>>
batchVars == <<pending, timer, expiring, stopped>>
memberVars == <<members, ended, done>>
drainVars == <<drain, owed>>
vars == <<memberVars, next, publishVars, inflight, batchVars, jobs, drainVars, picked, handled>>

\* A call of a handler with a batch of messages, one for a member that takes them one at a
\* time; left are the deliveries it has not yet finished.
Job == [to: Members, batch: SUBSET Msgs, left: SUBSET Msgs, state: {"running", "returned"}]
call(m, batch, left, state) == [to |-> m, batch |-> batch, left |-> left, state |-> state]

-----------------------------------------------------------------------------
\* A registered member.
Registered(m) == \E i \in DOMAIN members[GroupOf[m]] : members[GroupOf[m]][i] = m

\* No publish call holds the read lock, so a writer can take it.
Writable == \A p \in Msgs : pc[p] # "picking"

\* The deliveries counted and not finished: the one a publish call is about to hand over,
\* those of the filling batches and those of the handler calls.
InHand == {d \in Members \X Msgs : pc[d[2]] = "begun" /\ d[1] = Head(targets[d[2]])}
Filling == {d \in Members \X Msgs : d[2] \in pending[d[1]]}
Running == {d \in Members \X Msgs : \E j \in jobs : j.to = d[1] /\ d[2] \in j.left}
Outstanding == InHand \cup Filling \cup Running

\* The deliveries picked and not yet counted.
Waiting == {d \in Members \X Msgs :
              \E i \in DOMAIN targets[d[2]] :
                 targets[d[2]][i] = d[1] /\ ~(i = 1 /\ pc[d[2]] = "begun")}

MemberTypes ==
    /\ members \in [Groups -> Seq(Members)]
    /\ next \in [Groups -> 0 .. 2 * IntMax + 1]
    /\ ended \in [Members -> BOOLEAN]
    /\ done \in [Members -> BOOLEAN]
PublishTypes ==
    /\ pc \in [Msgs -> {"idle", "picking", "delivering", "begun", "returned"}]
    /\ toPick \in [Msgs -> SUBSET Groups]
    /\ targets \in [Msgs -> Seq(Members)]
BatchTypes ==
    /\ pending \in [Members -> SUBSET Msgs]
    /\ timer \in [Members -> {"none", "armed", "fired"}]
    /\ expiring \in [Members -> Nat]
    /\ stopped \in [Members -> BOOLEAN]
DeliveryTypes ==
    /\ jobs \in SUBSET Job
    /\ picked \in SUBSET (Members \X Msgs)
    /\ handled \in SUBSET (Members \X Msgs)
DrainTypes ==
    /\ drain \in [Drainers -> {"out", "waiting", "woken", "returned"}]
    /\ owed \in [Drainers -> SUBSET (Members \X Msgs)]

TypeOK ==
    /\ MemberTypes /\ PublishTypes /\ BatchTypes /\ DeliveryTypes /\ DrainTypes
    /\ inflight \in Nat

Init ==
    /\ members = [g \in Groups |-> <<>>]
    /\ next = [g \in Groups |-> 0]
    /\ ended = [m \in Members |-> FALSE]
    /\ done = [m \in Members |-> FALSE]
    /\ pc = [p \in Msgs |-> "idle"]
    /\ toPick = [p \in Msgs |-> {}]
    /\ targets = [p \in Msgs |-> <<>>]
    /\ inflight = 0
    /\ pending = [m \in Members |-> {}]
    /\ timer = [m \in Members |-> "none"]
    /\ expiring = [m \in Members |-> 0]
    /\ stopped = [m \in Members |-> FALSE]
    /\ jobs = {}
    /\ drain = [d \in Drainers |-> "out"]
    /\ owed = [d \in Drainers |-> {}]
    /\ picked = {}
    /\ handled = {}

-----------------------------------------------------------------------------
\* register: m joins its group, under the write lock.
register(m) ==
    /\ ~Registered(m) /\ Writable
    /\ members' = [members EXCEPT ![GroupOf[m]] = Append(@, m)]
    /\ UNCHANGED <<next, ended, done, publishVars, inflight, batchVars, jobs, drainVars, picked, handled>>

\* The context the member was registered with ends.
EndContext(m) ==
    /\ Registered(m) /\ ~ended[m]
    /\ ended' = [ended EXCEPT ![m] = TRUE]
    /\ UNCHANGED <<members, next, done, publishVars, inflight, batchVars, jobs, drainVars, picked, handled>>

\* The goroutine register started has seen the context end: the member takes no new message.
SetDone(m) ==
    /\ ended[m] /\ ~done[m] /\ Writable
    /\ done' = [done EXCEPT ![m] = TRUE]
    /\ UNCHANGED <<members, next, ended, publishVars, inflight, batchVars, jobs, drainVars, picked, handled>>

-----------------------------------------------------------------------------
\* A batcher gives its pending batch up and stops its timer: a timer that has fired keeps
\* its expire call.
take(m) ==
    /\ pending' = [pending EXCEPT ![m] = {}]
    /\ timer' = [timer EXCEPT ![m] = "none"]

\* handle is called on a batch, unless it is empty.
startHandle(m, batch) ==
    jobs' = IF batch = {} THEN jobs
            ELSE jobs \cup {call(m, batch, batch, "running")}

\* Faulty: a stopped batcher gathers like a running one.
add_afterStop(m, p) ==
    LET batch == pending[m] \cup {p}
    IN  /\ IF Cardinality(batch) >= Max
           THEN take(m) /\ startHandle(m, batch)
           ELSE /\ pending' = [pending EXCEPT ![m] = batch]
                /\ timer' = IF Cardinality(batch) = 1 THEN [timer EXCEPT ![m] = "armed"] ELSE timer
                /\ UNCHANGED jobs
        /\ UNCHANGED <<expiring, stopped>>

\* Faulty: the timer starts with the second message of a batch.
add_lateTimer(m, p) ==
    LET batch == pending[m] \cup {p}
        full == stopped[m] \/ Cardinality(batch) >= Max
    IN  /\ IF full
           THEN take(m) /\ startHandle(m, batch)
           ELSE /\ pending' = [pending EXCEPT ![m] = batch]
                /\ timer' = IF Cardinality(batch) = 2 THEN [timer EXCEPT ![m] = "armed"] ELSE timer
                /\ UNCHANGED jobs
        /\ UNCHANGED <<expiring, stopped>>

\* add: queue message p, handing the batch over when it is full or the batcher stopped.
add(m, p) ==
    LET batch == pending[m] \cup {p}
        full == stopped[m] \/ Cardinality(batch) >= Max
    IN  /\ IF full
           THEN take(m) /\ startHandle(m, batch)
           ELSE /\ pending' = [pending EXCEPT ![m] = batch]
                /\ timer' = IF Cardinality(batch) = 1 THEN [timer EXCEPT ![m] = "armed"] ELSE timer
                /\ UNCHANGED jobs
        /\ UNCHANGED <<expiring, stopped>>

\* stop, which the goroutine of register calls after setting done.
stop(m) ==
    /\ m \in Batched /\ done[m] /\ ~stopped[m]
    /\ stopped' = [stopped EXCEPT ![m] = TRUE]
    /\ take(m)
    /\ startHandle(m, pending[m])
    /\ UNCHANGED <<memberVars, next, publishVars, inflight, expiring, drainVars, picked, handled>>

\* The timer of the filling batch fires: its expire call is on its way.
FireTimer(m) ==
    /\ timer[m] = "armed"
    /\ timer' = [timer EXCEPT ![m] = "fired"]
    /\ expiring' = [expiring EXCEPT ![m] = @ + 1]
    /\ UNCHANGED <<memberVars, next, publishVars, inflight, pending, stopped, jobs, drainVars, picked, handled>>

\* Faulty: the batch handed over stays pending.
expire_keep(m) ==
    /\ expiring[m] > 0
    /\ expiring' = [expiring EXCEPT ![m] = @ - 1]
    /\ startHandle(m, pending[m])
    /\ UNCHANGED <<memberVars, next, publishVars, inflight, pending, timer, stopped, drainVars, picked, handled>>

\* expire: hand the pending batch over, be it the one the timer was started for or a later one.
expire(m) ==
    /\ expiring[m] > 0
    /\ expiring' = [expiring EXCEPT ![m] = @ - 1]
    /\ take(m)
    /\ startHandle(m, pending[m])
    /\ UNCHANGED <<memberVars, next, publishVars, inflight, stopped, drainVars, picked, handled>>

-----------------------------------------------------------------------------
\* Publish takes the read lock and ranges over the groups.
StartPublish(p) ==
    /\ pc[p] = "idle"
    /\ pc' = [pc EXCEPT ![p] = "picking"]
    /\ toPick' = [toPick EXCEPT ![p] = {g \in Groups : members[g] # <<>>}]
    /\ UNCHANGED <<memberVars, next, targets, inflight, batchVars, jobs, drainVars, picked, handled>>

\* int(x): a counter past the largest int is negative.
ToInt(x) == IF x > IntMax THEN x - 2 * (IntMax + 1) ELSE x

\* Go's remainder takes the sign of the dividend.
Rem(a, n) == IF a >= 0 THEN a % n ELSE -((-a) % n)

\* Where pick starts its walk of the n members.
PickStart(counter, n) == Rem(ToInt(counter), n)

\* The index of the i-th member pick looks at.
PickIndex(counter, n, i) == Rem(PickStart(counter, n) + i, n)

\* The members pick may return: the first live one in round-robin order, or none.
Candidates(g) ==
    LET n == Len(members[g])
        At(i) == members[g][PickIndex(next[g], n, i) + 1]
    IN  {At(i) : i \in {k \in 0 .. n - 1 : ~done[At(k)] /\ \A l \in 0 .. k - 1 : done[At(l)]}}

\* Faulty: the group is asked again.
pick_again(p, g) ==
    /\ pc[p] = "picking" /\ g \in toPick[p]
    /\ next' = [next EXCEPT ![g] = (@ + 1) % (2 * (IntMax + 1))]
    /\ \/ /\ Candidates(g) = {}
          /\ toPick' = [toPick EXCEPT ![p] = @ \ {g}]
          /\ UNCHANGED <<targets, picked>>
       \/ \E m \in Candidates(g) :
             /\ toPick' = IF next[g] = 0 THEN toPick ELSE [toPick EXCEPT ![p] = @ \ {g}]
             /\ targets' = [targets EXCEPT ![p] = Append(@, m)]
             /\ picked' = picked \cup {<<m, p>>}
    /\ UNCHANGED <<memberVars, pc, inflight, batchVars, jobs, drainVars, handled>>

\* pick: the counter moves even when no member is live.  A walk that starts below zero panics:
\* the call goes no further and never gives the read lock up.
pick(p, g) ==
    /\ pc[p] = "picking" /\ g \in toPick[p]
    /\ PickStart(next[g], Len(members[g])) >= 0
    /\ toPick' = [toPick EXCEPT ![p] = @ \ {g}]
    /\ next' = [next EXCEPT ![g] = (@ + 1) % (2 * (IntMax + 1))]
    /\ \/ /\ Candidates(g) = {}
          /\ UNCHANGED <<targets, picked>>
       \/ \E m \in Candidates(g) :
             /\ targets' = [targets EXCEPT ![p] = Append(@, m)]
             /\ picked' = picked \cup {<<m, p>>}
    /\ UNCHANGED <<memberVars, pc, inflight, batchVars, jobs, drainVars, handled>>

\* Every group has been asked: Publish gives the read lock up.
Unlock(p) ==
    /\ pc[p] = "picking" /\ toPick[p] = {}
    /\ pc' = [pc EXCEPT ![p] = "delivering"]
    /\ UNCHANGED <<memberVars, next, toPick, targets, inflight, batchVars, jobs, drainVars, picked, handled>>

\* begin: count the delivery to the next target.
begin(p) ==
    /\ pc[p] = "delivering" /\ targets[p] # <<>>
    /\ pc' = [pc EXCEPT ![p] = "begun"]
    /\ inflight' = inflight + 1
    /\ UNCHANGED <<memberVars, next, toPick, targets, batchVars, jobs, drainVars, picked, handled>>

\* Give the counted delivery to the batcher, or to a goroutine that runs the handler.
HandOver(p) ==
    LET m == Head(targets[p])
    IN  /\ pc[p] = "begun"
        /\ pc' = [pc EXCEPT ![p] = "delivering"]
        /\ targets' = [targets EXCEPT ![p] = Tail(@)]
        /\ IF m \in Batched
           THEN add(m, p)
           ELSE startHandle(m, {p}) /\ UNCHANGED batchVars
        /\ UNCHANGED <<memberVars, next, toPick, inflight, drainVars, picked, handled>>

\* Publish returns.
Return(p) ==
    /\ pc[p] = "delivering" /\ targets[p] = <<>>
    /\ pc' = [pc EXCEPT ![p] = "returned"]
    /\ UNCHANGED <<memberVars, next, toPick, targets, inflight, batchVars, jobs, drainVars, picked, handled>>

\* A step of a Publish call that has begun.
PublishStep(p) ==
    \/ \E g \in Groups : pick(p, g)
    \/ Unlock(p) \/ begin(p) \/ HandOver(p) \/ Return(p)

-----------------------------------------------------------------------------
\* A handler returns; the deliveries of its batch are then finished one by one.
HandlerReturns(j) ==
    /\ j.state = "running"
    /\ jobs' = (jobs \ {j}) \cup {call(j.to, j.batch, j.left, "returned")}
    /\ handled' = handled \cup {<<j.to, p>> : p \in j.batch}
    /\ UNCHANGED <<memberVars, next, publishVars, inflight, batchVars, drainVars, picked>>

\* Faulty: a delivery is finished while its handler runs.
finish_early(j) ==
    /\ \E p \in j.left :
          jobs' = (jobs \ {j}) \cup IF j.left = {p} THEN {} ELSE {call(j.to, j.batch, j.left \ {p}, j.state)}
    /\ inflight' = inflight - 1
    /\ drain' = IF inflight' = 0
                THEN [d \in Drainers |-> IF drain[d] = "waiting" THEN "woken" ELSE drain[d]]
                ELSE drain
    /\ UNCHANGED <<memberVars, next, publishVars, batchVars, owed, picked, handled>>

\* Faulty: a batch counts as one delivery when it ends.
finish_once(j) ==
    /\ j.state = "returned"
    /\ jobs' = jobs \ {j}
    /\ inflight' = inflight - 1
    /\ drain' = IF inflight' = 0
                THEN [d \in Drainers |-> IF drain[d] = "waiting" THEN "woken" ELSE drain[d]]
                ELSE drain
    /\ UNCHANGED <<memberVars, next, publishVars, batchVars, owed, picked, handled>>

\* Faulty: the count is compared with zero before it goes down.
finish_stale(j) ==
    /\ j.state = "returned"
    /\ \E p \in j.left :
          jobs' = (jobs \ {j}) \cup IF j.left = {p} THEN {} ELSE {call(j.to, j.batch, j.left \ {p}, j.state)}
    /\ inflight' = inflight - 1
    /\ drain' = IF inflight = 0
                THEN [d \in Drainers |-> IF drain[d] = "waiting" THEN "woken" ELSE drain[d]]
                ELSE drain
    /\ UNCHANGED <<memberVars, next, publishVars, batchVars, owed, picked, handled>>

\* finish: the last delivery to end wakes every Drain.
finish(j) ==
    /\ j.state = "returned"
    /\ \E p \in j.left :
          jobs' = (jobs \ {j}) \cup IF j.left = {p} THEN {} ELSE {call(j.to, j.batch, j.left \ {p}, j.state)}
    /\ inflight' = inflight - 1
    /\ drain' = IF inflight' = 0
                THEN [d \in Drainers |-> IF drain[d] = "waiting" THEN "woken" ELSE drain[d]]
                ELSE drain
    /\ UNCHANGED <<memberVars, next, publishVars, batchVars, owed, picked, handled>>

\* A goroutine calls Drain, which owes it the deliveries started so far and those of the
\* publish calls that have returned.
CallDrain(d) ==
    /\ drain[d] = "out"
    /\ drain' = [drain EXCEPT ![d] = IF inflight > 0 THEN "waiting" ELSE "returned"]
    /\ owed' = [owed EXCEPT ![d] = Outstanding \cup {e \in picked : pc[e[2]] = "returned"}]
    /\ UNCHANGED <<memberVars, next, publishVars, inflight, batchVars, jobs, picked, handled>>

\* A woken Drain looks at the count again.
WakeDrain(d) ==
    /\ drain[d] = "woken"
    /\ drain' = [drain EXCEPT ![d] = IF inflight > 0 THEN "waiting" ELSE "returned"]
    /\ UNCHANGED <<memberVars, next, publishVars, inflight, batchVars, jobs, owed, picked, handled>>

Next ==
    \/ \E m \in Members : \/ register(m) \/ EndContext(m) \/ SetDone(m)
                          \/ stop(m) \/ FireTimer(m) \/ expire(m)
    \/ \E p \in Msgs : StartPublish(p) \/ PublishStep(p)
    \/ \E j \in jobs : HandlerReturns(j) \/ finish(j)
    \/ \E d \in Drainers : CallDrain(d) \/ WakeDrain(d)

Spec == Init /\ [][Next]_vars

\* Every goroutine is scheduled, a timer fires, and a handler returns.
Fairness ==
    /\ \A p \in Msgs : WF_vars(PublishStep(p))
    /\ \A m \in Members : WF_vars(SetDone(m)) /\ WF_vars(stop(m))
                          /\ WF_vars(FireTimer(m)) /\ WF_vars(expire(m))
    /\ WF_vars(\E j \in jobs : HandlerReturns(j))
    /\ WF_vars(\E j \in jobs : finish(j))
    /\ \A d \in Drainers : WF_vars(WakeDrain(d))

FairSpec == Spec /\ Fairness

-----------------------------------------------------------------------------
\* The count Drain waits on is exact: Transport.inflight is the number of deliveries counted
\* by begin and not yet finished, wherever they are, so it is never negative and zero only
\* when nothing is under way.
InflightExact == inflight = Cardinality(Outstanding)

\* No message sits in a filling batch that nothing will hand over: a batch that holds a
\* message has an armed timer or an expire call on its way, and a stopped batcher, which
\* starts no timer, holds none.
NoStrandedBatch ==
    \A m \in Members :
        /\ pending[m] # {} => ~stopped[m] /\ (timer[m] = "armed" \/ expiring[m] > 0)
        /\ Cardinality(pending[m]) < Max

\* Between pick and the handler's return a delivery is in exactly one place: with the publish
\* call, counted or not, in a filling batch or in one handler call.  Nothing picked is lost
\* when a member stops under a publish call, and nothing is handed over twice.
NothingLost ==
    /\ picked = Waiting \cup Outstanding \cup handled
    /\ Waiting \cap Outstanding = {}
    /\ InHand \cap (Filling \cup Running) = {}
    /\ Filling \cap Running = {}
    /\ \A j, k \in jobs : j.to = k.to /\ j # k => j.batch \cap k.batch = {}
    /\ \A d \in handled : d \notin Waiting \cup InHand \cup Filling

\* A message goes to at most one member of a group, however the members come and go while it
\* is published, and a batch handler never gets more than Max messages.
OnePerGroup ==
    /\ \A d, e \in picked : d[2] = e[2] /\ GroupOf[d[1]] = GroupOf[e[1]] => d = e
    /\ \A j \in jobs : Cardinality(j.batch) <= (IF j.to \in Batched THEN Max ELSE 1)

\* When Drain returns, the handlers of the deliveries started before it was called, and of
\* every publish that had returned by then, have returned.
DrainJoins == \A d \in Drainers : drain[d] = "returned" => owed[d] \subseteq handled

\* Every delivery picked is handled in the end, whether its member stays or stops.
PickedIsHandled == \A d \in Members \X Msgs : d \in picked ~> d \in handled

\* No wake-up is lost: a Drain that waits returns, once the messages to publish run out.
DrainReturns == \A d \in Drainers : drain[d] = "waiting" ~> drain[d] = "returned"

\* What was begun ends: every delivery picked is handled, and every Drain that waits returns
\* (Publish, deliver, stop, expire, finish, Drain).
DeliveryEnds == PickedIsHandled /\ DrainReturns
=============================================================================
