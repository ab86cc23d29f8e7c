--------------------------- MODULE JetStreamGroups ---------------------------
(***************************************************************************)
(* The groups a JetStream transport consumes, pkg/events/nats/jetstream.go:*)
(* Subscribe, its hold on each group, the goroutine that watches a group's *)
(* consumer, and Close.                                                    *)
(*                                                                         *)
(* A step is what a goroutine does under one hold of JetStream.mu, or one  *)
(* call of the client library.  A registration is a pair <<call, group>>.  *)
(* Its consumer, a ConsumeContext of the library or a batchConsumer, runs  *)
(* one handler at a time; what becomes of the messages is modelled in      *)
(* JetStreamDelivery.                                                      *)
(***************************************************************************)
EXTENDS Integers, Sequences

CONSTANTS
    Calls,      \* the Subscribe calls, each with a context of its own
    Groups,     \* the groups
    GroupsOf,   \* the groups of a call, in the order plan found them
    Batched,    \* the groups of a batch subscription
    Deletable,  \* the groups whose durable may be deleted while it is consumed
    Closers,    \* the goroutines that call Close
    MaxHandOvers, \* bound: the messages the stream holds, over all groups
    NoReg       \* the group is not held

Regs == {r \in Calls \X Groups : \E i \in DOMAIN GroupsOf[r[1]] : GroupsOf[r[1]][i] = r[2]}

\* plan keeps the groups it finds by their names: no two of a call are the same.
ASSUME GroupsAssumption ==
    \A c \in Calls :
        /\ GroupsOf[c] \in Seq(Groups) /\ GroupsOf[c] # <<>>
        /\ \A i, j \in DOMAIN GroupsOf[c] : GroupsOf[c][i] = GroupsOf[c][j] => i = j
ASSUME HandOversAssumption == MaxHandOvers \in Nat
ASSUME NoRegAssumption == NoReg \notin Regs

VARIABLES
    closing,    \* JetStream.closing is closed
    held,       \* JetStream.groups: the registration that holds a group
    attached,   \* the registrations whose cc is set
    pc,         \* where a Subscribe call stands
    at,         \* the group of the call it is at
    ended,      \* whether the context of a call has ended
    cc,         \* the consumer of a registration
    busy,       \* whether its handler runs
    handed,     \* the messages handed over so far
    deleted,    \* the groups whose durable, or its stream, was deleted
    gone,       \* history: the registrations whose consumer lost it
    watch,      \* where the goroutine that watches a consumer stands
    reported,   \* the registrations ErrConsumerStopped was reported for
    close,      \* where a Close call stands, then what it returned
    consuming   \* the consumers a Close call waits for

subscribeVars == <<pc, at>>
consumerVars == <<cc, busy, handed>>
watchVars == <<watch, reported>>
closeVars == <<closing, close, consuming>>
serverVars == <<deleted, gone>>
vars == <<held, attached, subscribeVars, ended, consumerVars, serverVars, watchVars, closeVars>>

\* The registration a call is at.
Reg(c) == <<c, GroupsOf[c][at[c]]>>

\* The consumers that may hand messages over or have a handler running.
Alive(r) == cc[r] \in {"open", "draining", "stopped"}

TypeOK ==
    /\ closing \in BOOLEAN
    /\ held \in [Groups -> Regs \cup {NoReg}]
    /\ attached \subseteq Regs
    /\ pc \in [Calls -> {"idle", "planning", "reserving", "looking", "starting", "attaching",
                         "stopping", "failing", "returned"}]
    /\ at \in [Calls -> Nat] /\ \A c \in Calls : at[c] \in DOMAIN GroupsOf[c]
    /\ ended \in [Calls -> BOOLEAN]
    /\ cc \in [Regs -> {"none", "open", "draining", "stopped", "closed"}]
    /\ busy \in [Regs -> BOOLEAN] /\ handed \in 0 .. MaxHandOvers
    /\ deleted \subseteq Groups /\ gone \subseteq Regs
    /\ watch \in [Regs -> {"none", "watching", "waiting", "reporting", "done"}]
    /\ reported \subseteq Regs
    /\ close \in [Closers -> {"idle", "collecting", "draining", "waiting", "nil", "late"}]
    /\ consuming \in [Closers -> SUBSET Regs]

Init ==
    /\ closing = FALSE
    /\ held = [g \in Groups |-> NoReg]
    /\ attached = {}
    /\ pc = [c \in Calls |-> "idle"] /\ at = [c \in Calls |-> 1]
    /\ ended = [c \in Calls |-> FALSE]
    /\ cc = [r \in Regs |-> "none"] /\ busy = [r \in Regs |-> FALSE] /\ handed = 0
    /\ deleted = {} /\ gone = {}
    /\ watch = [r \in Regs |-> "none"] /\ reported = {}
    /\ close = [k \in Closers |-> "idle"] /\ consuming = [k \in Closers |-> {}]

-----------------------------------------------------------------------------
(* The consumer: Drain ends it after the messages it has, Stop at once.    *)

Stop(S) == cc' = [r \in Regs |-> IF r \in S /\ cc[r] \in {"open", "draining"} THEN "stopped" ELSE cc[r]]
Drain(S) == cc' = [r \in Regs |-> IF r \in S /\ cc[r] = "open" THEN "draining" ELSE cc[r]]

\* A message reaches the handler: deliver looks at the context first.
StartHandler(r) ==
    /\ cc[r] \in {"open", "draining"} /\ ~busy[r] /\ ~ended[r[1]] /\ handed < MaxHandOvers
    /\ busy' = [busy EXCEPT ![r] = TRUE] /\ handed' = handed + 1
    /\ UNCHANGED <<held, attached, subscribeVars, ended, cc, serverVars, watchVars, closeVars>>

HandlerReturns(r) ==
    /\ busy[r]
    /\ busy' = [busy EXCEPT ![r] = FALSE]
    /\ UNCHANGED <<held, attached, subscribeVars, ended, cc, handed, serverVars, watchVars, closeVars>>

\* The consumer has stopped, its handler returned: it was told to, its durable is gone, or, for
\* a batchConsumer, its context ended.
CloseConsumer(r) ==
    /\ ~busy[r]
    /\ \/ cc[r] \in {"draining", "stopped"}
       \/ cc[r] = "open" /\ (r[2] \in deleted \/ (r[2] \in Batched /\ ended[r[1]]))
    /\ cc' = [cc EXCEPT ![r] = "closed"]
    /\ gone' = IF r[2] \in deleted THEN gone \cup {r} ELSE gone
    /\ UNCHANGED <<held, attached, subscribeVars, ended, busy, handed, deleted, watchVars, closeVars>>

\* The durable of a consumer, or its stream, is deleted.
DeleteDurable(g) ==
    /\ g \in Deletable \ deleted /\ \E r \in Regs : r[2] = g /\ Alive(r)
    /\ deleted' = deleted \cup {g}
    /\ UNCHANGED <<held, attached, subscribeVars, ended, consumerVars, gone, watchVars, closeVars>>

EndContext(c) ==
    /\ ~ended[c] /\ pc[c] # "idle"
    /\ ended' = [ended EXCEPT ![c] = TRUE]
    /\ UNCHANGED <<held, attached, subscribeVars, consumerVars, serverVars, watchVars, closeVars>>

-----------------------------------------------------------------------------
Goto(c, where) == pc' = [pc EXCEPT ![c] = where]

\* release frees the groups the registrations of S hold.
release(S) == held' = [g \in Groups |-> IF held[g] \in S THEN NoReg ELSE held[g]]

Subscribe(c) ==
    /\ pc[c] = "idle"
    /\ Goto(c, IF closing THEN "returned" ELSE "planning")
    /\ UNCHANGED <<held, attached, at, ended, consumerVars, serverVars, watchVars, closeVars>>

\* checkAccount and plan ask the server, and may fail.
plan(c) ==
    /\ pc[c] = "planning"
    /\ \/ Goto(c, "reserving")
       \/ Goto(c, "returned")
    /\ UNCHANGED <<held, attached, at, ended, consumerVars, serverVars, watchVars, closeVars>>

\* reserve holds every group of the call, or none when one is held.
reserve(c) ==
    LET mine == {GroupsOf[c][i] : i \in DOMAIN GroupsOf[c]}
    IN  /\ pc[c] = "reserving"
        /\ \/ /\ \E g \in mine : held[g] # NoReg
              /\ Goto(c, "returned")
              /\ UNCHANGED held
           \/ /\ \A g \in mine : held[g] = NoReg
              /\ Goto(c, "looking")
              /\ held' = [g \in Groups |-> IF g \in mine THEN <<c, g>> ELSE held[g]]
        /\ UNCHANGED <<attached, at, ended, consumerVars, serverVars, watchVars, closeVars>>

\* consumeGroup looks the durable up, or creates it: one deleted before is there again.
durable(c) ==
    /\ pc[c] = "looking"
    /\ \/ Goto(c, "starting") /\ deleted' = deleted \ {Reg(c)[2]}
       \/ Goto(c, "failing") /\ UNCHANGED deleted
    /\ UNCHANGED <<held, attached, at, ended, consumerVars, gone, watchVars, closeVars>>

\* and starts its consumer; the library may refuse to consume.
StartConsumer(c) ==
    /\ pc[c] = "starting"
    /\ \/ /\ Goto(c, "attaching")
          /\ cc' = [cc EXCEPT ![Reg(c)] = "open"]
       \/ /\ Reg(c)[2] \notin Batched
          /\ Goto(c, "failing")
          /\ UNCHANGED cc
    /\ UNCHANGED <<held, attached, at, ended, busy, handed, serverVars, watchVars, closeVars>>

\* Faulty: the consumer is attached to a closing transport.
MayAttach_always == TRUE

MayAttach == ~closing

LastGroup(c) == at[c] = Len(GroupsOf[c])

\* The consumer becomes Close's to drain, unless Close has begun, and the goroutine that
\* watches it starts; Subscribe goes on to its next group.
Attach(c) ==
    /\ pc[c] = "attaching"
    /\ \/ /\ MayAttach
          /\ attached' = attached \cup {Reg(c)}
          /\ watch' = [watch EXCEPT ![Reg(c)] = "watching"]
          /\ IF LastGroup(c)
             THEN Goto(c, "returned") /\ UNCHANGED at
             ELSE Goto(c, "looking") /\ at' = [at EXCEPT ![c] = @ + 1]
       \/ /\ ~MayAttach
          /\ Goto(c, "stopping")
          /\ UNCHANGED <<attached, watch, at>>
    /\ UNCHANGED <<held, ended, consumerVars, serverVars, reported, closeVars>>

StopOwn(c) ==
    /\ pc[c] = "stopping"
    /\ Goto(c, "failing")
    /\ Stop({Reg(c)})
    /\ UNCHANGED <<held, attached, at, ended, busy, handed, serverVars, watchVars, closeVars>>

\* Faulty: only the group that failed is freed.
NotStarted_one(c) == {Reg(c)}

\* The registrations of the groups the call did not start.
NotStarted(c) == {<<c, GroupsOf[c][i]>> : i \in at[c] .. Len(GroupsOf[c])}

\* Subscribe fails: groups it started before stay live.
Fail(c) ==
    /\ pc[c] = "failing"
    /\ Goto(c, "returned")
    /\ release(NotStarted(c))
    /\ UNCHANGED <<attached, at, ended, consumerVars, serverVars, watchVars, closeVars>>

-----------------------------------------------------------------------------
(* The goroutine that watches a consumer waits for the first of three.     *)

WatchClosed(r) ==
    /\ watch[r] = "watching" /\ cc[r] = "closed"
    /\ watch' = [watch EXCEPT ![r] = "reporting"]
    /\ release({r})
    /\ UNCHANGED <<attached, subscribeVars, ended, consumerVars, serverVars, reported, closeVars>>

\* Faulty: every consumer that closes is reported.
Lost_always(r) == TRUE

\* The consumer closed although its context stands and no Close has begun.
Lost(r) == ~ended[r[1]] /\ ~closing

ReportStopped(r) ==
    /\ watch[r] = "reporting"
    /\ watch' = [watch EXCEPT ![r] = "done"]
    /\ reported' = IF Lost(r) THEN reported \cup {r} ELSE reported
    /\ UNCHANGED <<held, attached, subscribeVars, ended, consumerVars, serverVars, closeVars>>

WatchContext(r) ==
    /\ watch[r] = "watching" /\ ended[r[1]]
    /\ watch' = [watch EXCEPT ![r] = "waiting"]
    /\ Stop({r})
    /\ UNCHANGED <<held, attached, subscribeVars, ended, busy, handed, serverVars, reported, closeVars>>

\* Faulty: the group is free while its handler runs.
Quiet_now(r) == TRUE

Quiet(r) == cc[r] = "closed"

\* The group is free once its running handler has returned.
FreeGroup(r) ==
    /\ watch[r] = "waiting" /\ Quiet(r)
    /\ watch' = [watch EXCEPT ![r] = "done"]
    /\ release({r})
    /\ UNCHANGED <<attached, subscribeVars, ended, consumerVars, serverVars, reported, closeVars>>

WatchClosing(r) ==
    /\ watch[r] = "watching" /\ closing
    /\ watch' = [watch EXCEPT ![r] = "done"]
    /\ UNCHANGED <<held, attached, subscribeVars, ended, consumerVars, serverVars, reported, closeVars>>

-----------------------------------------------------------------------------
BeginClose(k) ==
    /\ close[k] = "idle"
    /\ close' = [close EXCEPT ![k] = "collecting"]
    /\ closing' = TRUE
    /\ UNCHANGED <<held, attached, subscribeVars, ended, consumerVars, serverVars, watchVars, consuming>>

\* Close takes the consumers of the groups held, and frees the groups, under the lock.
Collect(k) ==
    /\ close[k] = "collecting"
    /\ close' = [close EXCEPT ![k] = "draining"]
    /\ consuming' = [consuming EXCEPT ![k] = {r \in attached : held[r[2]] = r}]
    /\ held' = [g \in Groups |-> NoReg]
    /\ UNCHANGED <<attached, subscribeVars, ended, consumerVars, serverVars, watchVars, closing>>

DrainAll(k) ==
    /\ close[k] = "draining"
    /\ close' = [close EXCEPT ![k] = "waiting"]
    /\ Drain(consuming[k])
    /\ UNCHANGED <<held, attached, subscribeVars, ended, busy, handed, serverVars, watchVars, closing, consuming>>

\* Every consumer has closed, or a handler outlives the wait.
CloseReturns(k) ==
    /\ close[k] = "waiting"
    /\ \/ /\ \A r \in consuming[k] : cc[r] = "closed"
          /\ close' = [close EXCEPT ![k] = "nil"]
          /\ UNCHANGED cc
       \/ /\ consuming[k] # {}
          /\ close' = [close EXCEPT ![k] = "late"]
          /\ Stop(consuming[k])
    /\ UNCHANGED <<held, attached, subscribeVars, ended, busy, handed, serverVars, watchVars, closing, consuming>>

-----------------------------------------------------------------------------
CallStep(c) ==
    plan(c) \/ reserve(c) \/ durable(c) \/ StartConsumer(c) \/ Attach(c) \/ StopOwn(c) \/ Fail(c)
WatchStep(r) ==
    WatchClosed(r) \/ ReportStopped(r) \/ WatchContext(r) \/ FreeGroup(r) \/ WatchClosing(r)
CloseStep(k) == Collect(k) \/ DrainAll(k) \/ CloseReturns(k)

\* A step of a goroutine that has begun; each takes finitely many.
GoroutineStep ==
    \/ \E c \in Calls : CallStep(c)
    \/ \E r \in Regs : WatchStep(r) \/ HandlerReturns(r) \/ CloseConsumer(r)
    \/ \E k \in Closers : CloseStep(k)

Next ==
    \/ \E c \in Calls : Subscribe(c) \/ EndContext(c)
    \/ \E r \in Regs : StartHandler(r)
    \/ \E g \in Groups : DeleteDurable(g)
    \/ \E k \in Closers : BeginClose(k)
    \/ GoroutineStep

Spec == Init /\ [][Next]_vars

\* Goroutines are scheduled and handlers return.  Every goroutine takes finitely many steps, so
\* that some one of those that can step does is enough for each to get its turn.
Fairness == WF_vars(GoroutineStep)

FairSpec == Spec /\ Fairness

-----------------------------------------------------------------------------
\* Until Close, a group's consumers never overlap in this process: whoever consumes, or has a
\* handler running, holds the group, so another Subscribe is refused until the handler returns
\* (reserve, consumeGroup, release).  Every variable keeps its type.
OneConsumer == TypeOK /\ (~closing => \A r \in Regs : Alive(r) => held[r[2]] = r)

\* Until Close, every hold is some goroutine's to give up: the call that took it, or the one
\* watching the consumer.  A call that fails leaves no group held for good.
HeldExact ==
    ~closing => \A g \in Groups : held[g] # NoReg =>
        \/ pc[held[g][1]] \notin {"idle", "planning", "reserving", "returned"}
        \/ watch[held[g]] \in {"watching", "waiting"}

\* ErrConsumerStopped is never reported for a group that stopped because its context ended or
\* because of Close, whichever of the three the watching goroutine sees first (consumeGroup).
NoFalseStop == reported \subseteq gone

\* Whatever a Subscribe under way does, Close leaves no consumer open and no handler running, and
\* a group whose context ended is free again once its handler has returned: no registration holds
\* one for good (Close, consumeGroup's goroutine).
StopEndsAll ==
    (closing \/ \E r \in Regs : ended[r[1]] /\ held[r[2]] = r)
        ~> \A r \in Regs : /\ closing => ~Alive(r) /\ ~busy[r]
                           /\ ended[r[1]] => held[r[2]] # r

\* Until Close a group has one consumer and one holder, who gives it up, and ErrConsumerStopped is
\* reported only for a consumer that was lost (reserve, consumeGroup, release).
GroupsHeld == OneConsumer /\ HeldExact /\ NoFalseStop

-----------------------------------------------------------------------------
\* An instance for TLC: both calls subscribe the batch group, the first one another group before it.
Overlapping ==
    LET first == CHOOSE c \in Calls : TRUE
        batch == CHOOSE g \in Batched : TRUE
        plain == CHOOSE g \in Groups \ Batched : TRUE
    IN  [c \in Calls |-> IF c = first THEN <<plain, batch>> ELSE <<batch>>]
=============================================================================
