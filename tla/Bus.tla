--------------------------------- MODULE Bus ---------------------------------
(***************************************************************************)
(* The assembly of an events.Bus, pkg/events: Register and Use from        *)
(* several goroutines, Start, which fixes the bus and hands what is        *)
(* registered to the transport, and Plan.                                  *)
(*                                                                         *)
(* A step is what a goroutine does under one hold of Bus.mu; Start calls   *)
(* the transport after it.  A subscription is a record; contracts and      *)
(* groups are numbers in the order of their names, group 0 the empty name. *)
(***************************************************************************)
EXTENDS Integers, Sequences, FiniteSets, TLC

CONSTANTS
    Goroutines,     \* the callers
    Subscriptions,  \* the subscriptions they register
    Codecs,         \* the contracts a codec is configured for
    HasSubscriber,  \* whether the bus has a subscribe half
    CanBatch,       \* whether it consumes in batches
    CanRequired,    \* whether it honours the required dispositions
    MaxUses         \* bound: how often Use is called

SubscriptionsAssumption ==
    Subscriptions \subseteq [event: Nat, consumer: Nat, group: Nat, handle: SUBSET {"single", "batch"}, batch: BOOLEAN,
                             max: Int, wait: Int]
FlagsAssumption == {HasSubscriber, CanBatch, CanRequired} \subseteq BOOLEAN /\ MaxUses \in Nat

VARIABLES
    subs,       \* Bus.subs
    claimed,    \* Bus.claimed
    chain,      \* how many middlewares Bus.chain has
    started,    \* Bus.started
    starting,   \* what a Start under way has read, or None
    refused,    \* history: what Register refused last, and why
    handed      \* history: what the transport's Subscribe calls were given

vars == <<subs, claimed, chain, started, starting, refused, handed>>

None == [subs |-> <<>>, chain |-> -1]
Key(sub) == <<sub.event, sub.group>>
Elements(s) == {s[i] : i \in DOMAIN s}

\* Each variable has its type; no subscription is registered twice.
TypeOK ==
    /\ subs \in Seq(Subscriptions) /\ Cardinality(Elements(subs)) = Len(subs)
    /\ claimed \subseteq Nat \X Nat
    /\ chain \in 0 .. MaxUses
    /\ started \in BOOLEAN
    /\ \A g \in Goroutines : starting[g] = None \/ starting[g].chain \in 0 .. MaxUses
    /\ \A r \in refused : r[1] \in Subscriptions
    /\ handed \in Seq([subs: Seq(Subscriptions), chain: 0 .. MaxUses])

Init ==
    /\ subs = <<>> /\ claimed = {}
    /\ chain = 0
    /\ started = FALSE
    /\ starting = [g \in Goroutines |-> None]
    /\ refused = {}
    /\ handed = <<>>

-----------------------------------------------------------------------------
\* Why a batch subscription cannot be registered.
batchProblem(sub) == "single" \in sub.handle \/ sub.max < 1 \/ sub.wait <= 0

\* Faulty: only a batch subscription looks at the group.
sharesBatchGroup_batch(sub) == \E held \in Elements(subs) : held.group = sub.group /\ sub.batch

\* Whether sub would share its group with a batch subscription, or is one and would share its own.
sharesBatchGroup(sub) ==
    \E held \in Elements(subs) : held.group = sub.group /\ (sub.batch \/ held.batch)

\* Faulty: the group is looked at before the contract.
Duplicate_late(sub) == Key(sub) \in claimed /\ ~sharesBatchGroup(sub)

Duplicate(sub) == Key(sub) \in claimed

\* What Register looks at, in order: each condition with the error it refuses sub with.
Checks(sub) ==
    <<<<started, "ErrStarted">>,
      <<(IF sub.batch THEN "batch" ELSE "single") \notin sub.handle, "ErrNoHandler">>,
      <<sub.batch /\ batchProblem(sub), "ErrInvalidBatch">>,
      <<sub.group = 0, "ErrNoGroup">>,
      <<sub.event \notin Codecs, "ErrNoCodec">>,
      <<~CanRequired, "ErrDispositionUnsupported">>,
      <<sub.batch /\ HasSubscriber /\ ~CanBatch, "ErrBatchUnsupported">>,
      <<Duplicate(sub), "ErrDuplicateSubscription">>,
      <<sharesBatchGroup(sub), "ErrBatchGroupShared">>>>

\* The first that refuses sub, "" when none does.
Refusal(sub) ==
    LET failed == SelectSeq(Checks(sub), LAMBDA check : check[1])
    IN  IF failed = <<>> THEN "" ELSE failed[1][2]

Claim(sub) == IF Refusal(sub) = "" THEN claimed \cup {Key(sub)} ELSE claimed

Register(sub) ==
    /\ claimed' = Claim(sub)
    /\ IF Refusal(sub) = ""
       THEN subs' = Append(subs, sub) /\ UNCHANGED refused
       ELSE refused' = {<<sub, Refusal(sub)>>} /\ UNCHANGED subs
    /\ UNCHANGED <<chain, started, starting, handed>>

\* Use panics after Start.
Use ==
    /\ ~started /\ chain < MaxUses
    /\ chain' = chain + 1
    /\ UNCHANGED <<subs, claimed, started, starting, refused, handed>>

\* The order in which the transport receives two subscriptions.
Before(a, b) ==
    \/ a.group < b.group
    \/ a.group = b.group /\ a.event < b.event
    \/ a.group = b.group /\ a.event = b.event /\ a.consumer < b.consumer

\* Faulty: sorted by contract.
sortedSubscriptions_event(s) == SortSeq(s, LAMBDA a, b : a.event < b.event)

sortedSubscriptions(s) == SortSeq(s, Before)

\* Faulty: the bus is fixed once the transport has taken the subscriptions.
Fixed_late == UNCHANGED started

Fixed == started' = TRUE

\* Start fixes the bus and reads it under the lock; a second Start is ErrStarted.
StartReads(g) ==
    /\ ~started /\ starting[g] = None
    /\ Fixed
    /\ starting' = [starting EXCEPT ![g] = [subs |-> sortedSubscriptions(subs), chain |-> chain]]
    /\ UNCHANGED <<subs, claimed, chain, refused, handed>>

\* It hands the subscriptions over; without any, or without a transport, there is nothing to do.
StartHands(g) ==
    /\ starting[g] # None
    /\ starting' = [starting EXCEPT ![g] = None]
    /\ started' = TRUE
    /\ handed' = IF starting[g].subs = <<>> \/ ~HasSubscriber THEN handed ELSE Append(handed, starting[g])
    /\ UNCHANGED <<subs, claimed, chain, refused>>

Next ==
    \/ \E sub \in Subscriptions : Register(sub)
    \/ Use
    \/ \E g \in Goroutines : StartReads(g) \/ StartHands(g)

Spec == Init /\ [][Next]_vars

-----------------------------------------------------------------------------
\* Plan starts a group where the sorted subscriptions change groups.
Plan ==
    LET s == sortedSubscriptions(subs)
    IN  [groups |-> {i \in DOMAIN s : i = 1 \/ s[i].group # s[i - 1].group}, subs |-> s]

\* A batch subscription holds its group alone, and no contract is twice in a group, however the
\* Registers of several goroutines interleave; what Register claims is what it registered, so a
\* refused subscription leaves no trace that would refuse a later one (Register,
\* sharesBatchGroup).  Every variable keeps its type.
GroupsSound ==
    /\ TypeOK
    /\ \A i, j \in DOMAIN subs : i # j /\ subs[i].group = subs[j].group =>
          ~subs[i].batch /\ ~subs[j].batch /\ subs[i].event # subs[j].event
    /\ claimed = {Key(sub) : sub \in Elements(subs)}

\* ErrDuplicateSubscription means the same contract in the group, ErrBatchGroupShared another one
\* (the comment of ErrBatchGroupShared).
RefusalExact ==
    \A r \in refused :
        /\ r[2] = "ErrDuplicateSubscription" => \E s \in Elements(subs) : Key(s) = Key(r[1])
        /\ r[2] = "ErrBatchGroupShared" => \E s \in Elements(subs) : s.group = r[1].group /\ s.event # r[1].event

\* The transport gets one Subscribe call, with everything registered and the whole bus chain: no
\* Register that returned nil and no Use that did not panic comes too late (Start).
HandedExact ==
    /\ Len(handed) <= 1
    /\ \A i \in DOMAIN handed : Elements(handed[i].subs) = Elements(subs) /\ handed[i].chain = chain

\* A group is one group of the Plan, and of what the transport plans from the order it is given.
PlanGroupsOnce == Cardinality(Plan.groups) = Cardinality({sub.group : sub \in Elements(subs)})
=============================================================================
