------------------------ MODULE MemoryTransportProofs ------------------------
(***************************************************************************)
(* Proofs about the in-process transport: the types of its variables; where*)
(* each delivery is, and that none is lost or handed over twice; then the  *)
(* batches, the count of unfinished deliveries and Drain.                  *)
(***************************************************************************)
EXTENDS MemoryTransport, FiniteSetTheorems, TLAPS

\* A publish call that has counted a delivery has a target to hand it to.
HasTarget == \A p \in Msgs : pc[p] = "begun" => targets[p] # <<>>

\* The types of the variables, the count apart.
Types == MemberTypes /\ PublishTypes /\ BatchTypes /\ DeliveryTypes /\ DrainTypes /\ HasTarget

\* A walk that starts in the slice stays in it.
LEMMA PickIndexRange ==
    ASSUME NEW c \in Int, NEW n \in Nat, NEW i \in 0 .. n - 1, PickStart(c, n) >= 0
    PROVE  PickIndex(c, n, i) \in 0 .. n - 1
<1>1. n > 0
  OBVIOUS
<1>2. PickStart(c, n) \in Int
  BY IntMaxAssumption, <1>1 DEF PickStart, Rem, ToInt
<1> DEFINE s == PickStart(c, n) + i
<1>3. s \in Nat
  BY <1>2
<1>4. s % n \in 0 .. n - 1
  BY <1>1, <1>3
<1> QED
  BY <1>2, <1>3, <1>4 DEF PickIndex, Rem

\* What pick returns is a member of the group.
LEMMA CandidatesType ==
    ASSUME MemberTypes, NEW g \in Groups, PickStart(next[g], Len(members[g])) >= 0,
           NEW m \in Candidates(g)
    PROVE  m \in Members /\ \E i \in DOMAIN members[g] : m = members[g][i]
<1>1. members[g] \in Seq(Members) /\ next[g] \in Int /\ Len(members[g]) \in Nat
  BY IntMaxAssumption DEF MemberTypes
<1> DEFINE n == Len(members[g])
<1>2. PICK i \in 0 .. n - 1 : m = members[g][PickIndex(next[g], n, i) + 1]
  BY DEF Candidates
<1> DEFINE k == PickIndex(next[g], n, i)
<1>3. k \in 0 .. n - 1
  BY <1>1, PickIndexRange
<1>4. k + 1 \in 1 .. n
  BY <1>1, <1>3
<1> QED
  BY <1>1, <1>2, <1>4

\* A step keeps the types of the members and of the round-robin counters.
LEMMA MemberTypesNext == Types /\ [Next]_vars => MemberTypes'
<1> SUFFICES ASSUME Types, [Next]_vars PROVE MemberTypes'
  OBVIOUS
<1> USE MembersAssumption, IntMaxAssumption DEF Types, MemberTypes
<1>1. ASSUME NEW m \in Members, register(m) PROVE MemberTypes'
  BY <1>1 DEF register
<1>2. ASSUME NEW m \in Members, EndContext(m) PROVE MemberTypes'
  BY <1>2 DEF EndContext
<1>3. ASSUME NEW m \in Members, SetDone(m) PROVE MemberTypes'
  BY <1>3 DEF SetDone
<1>4. ASSUME NEW p \in Msgs, NEW g \in Groups, pick(p, g) PROVE MemberTypes'
  <2>1. (next[g] + 1) % (2 * (IntMax + 1)) \in 0 .. 2 * IntMax + 1
    OBVIOUS
  <2> QED BY <1>4, <2>1 DEF pick, memberVars
<1>5. CASE UNCHANGED <<memberVars, next>>
  BY <1>5 DEF memberVars
<1> QED
  BY <1>1, <1>2, <1>3, <1>4, <1>5, Zenon DEF Next, PublishStep, vars, stop, FireTimer, expire,
     StartPublish, Unlock, begin, HandOver, Return, HandlerReturns, finish, CallDrain, WakeDrain

\* A step keeps the types of the publish calls, and a target for a delivery counted.
LEMMA PublishTypesNext == Types /\ [Next]_vars => PublishTypes' /\ HasTarget'
<1> SUFFICES ASSUME Types, [Next]_vars PROVE PublishTypes' /\ HasTarget'
  OBVIOUS
<1> USE DEF Types, PublishTypes, HasTarget
<1>1. ASSUME NEW p \in Msgs, StartPublish(p) PROVE PublishTypes' /\ HasTarget'
  BY <1>1 DEF StartPublish
<1>2. ASSUME NEW p \in Msgs, NEW g \in Groups, pick(p, g) PROVE PublishTypes' /\ HasTarget'
  <2>1. CASE UNCHANGED targets
    BY <1>2, <2>1 DEF pick
  <2>2. ASSUME NEW m \in Candidates(g), targets' = [targets EXCEPT ![p] = Append(@, m)]
        PROVE  PublishTypes' /\ HasTarget'
    <3>1. m \in Members
      BY <1>2, <2>2, CandidatesType, Zenon DEF pick
    <3> QED BY <1>2, <2>2, <3>1 DEF pick
  <2> QED BY <1>2, <2>1, <2>2 DEF pick
<1>3. ASSUME NEW p \in Msgs, Unlock(p) PROVE PublishTypes' /\ HasTarget'
  BY <1>3 DEF Unlock
<1>4. ASSUME NEW p \in Msgs, begin(p) PROVE PublishTypes' /\ HasTarget'
  BY <1>4 DEF begin
<1>5. ASSUME NEW p \in Msgs, HandOver(p) PROVE PublishTypes' /\ HasTarget'
  BY <1>5 DEF HandOver
<1>6. ASSUME NEW p \in Msgs, Return(p) PROVE PublishTypes' /\ HasTarget'
  BY <1>6 DEF Return
<1>7. CASE UNCHANGED publishVars
  BY <1>7 DEF publishVars
<1> QED
  BY <1>1, <1>2, <1>3, <1>4, <1>5, <1>6, <1>7 DEF Next, PublishStep, vars, register, EndContext,
     SetDone, stop, FireTimer, expire, HandlerReturns, finish, CallDrain, WakeDrain

\* A step keeps the types of the batchers.
LEMMA BatchTypesNext == Types /\ [Next]_vars => BatchTypes'
<1> SUFFICES ASSUME Types, [Next]_vars PROVE BatchTypes'
  OBVIOUS
<1> USE DEF Types, BatchTypes
<1>1. ASSUME NEW m \in Members, stop(m) PROVE BatchTypes'
  BY <1>1 DEF stop, take
<1>2. ASSUME NEW m \in Members, FireTimer(m) PROVE BatchTypes'
  BY <1>2 DEF FireTimer
<1>3. ASSUME NEW m \in Members, expire(m) PROVE BatchTypes'
  BY <1>3 DEF expire, take
<1>4. ASSUME NEW p \in Msgs, HandOver(p) PROVE BatchTypes'
  <2> DEFINE m == Head(targets[p])
  <2>1. m \in Members
    BY <1>4 DEF PublishTypes, HasTarget, HandOver
  <2>2. CASE m \in Batched
    <3> DEFINE batch == pending[m] \cup {p}
    <3>1. batch \in SUBSET Msgs /\ UNCHANGED <<expiring, stopped>>
      BY <1>4, <2>1, <2>2 DEF HandOver, add
    <3>2. \/ pending' = [pending EXCEPT ![m] = {}] /\ timer' = [timer EXCEPT ![m] = "none"]
          \/ pending' = [pending EXCEPT ![m] = batch] /\ timer' = [timer EXCEPT ![m] = "armed"]
          \/ pending' = [pending EXCEPT ![m] = batch] /\ timer' = timer
      BY <1>4, <2>2 DEF HandOver, add, take
    <3> QED BY <2>1, <3>1, <3>2
  <2>3. CASE m \notin Batched
    BY <1>4, <2>3 DEF HandOver, batchVars
  <2> QED BY <2>2, <2>3
<1>5. CASE UNCHANGED batchVars
  BY <1>5 DEF batchVars
<1> QED
  BY <1>1, <1>2, <1>3, <1>4, <1>5 DEF Next, PublishStep, vars, register, EndContext,
     SetDone, StartPublish, pick, Unlock, begin, Return, HandlerReturns, finish, CallDrain, WakeDrain

\* What a handler call is made of.
LEMMA CallType ==
    ASSUME NEW m \in Members, NEW batch \in SUBSET Msgs, NEW left \in SUBSET Msgs,
           NEW state \in {"running", "returned"}
    PROVE  /\ call(m, batch, left, state) \in Job
           /\ call(m, batch, left, state).to = m
           /\ call(m, batch, left, state).batch = batch
           /\ call(m, batch, left, state).left = left
           /\ call(m, batch, left, state).state = state
  BY DEF call, Job

LEMMA JobType ==
    ASSUME NEW j \in Job
    PROVE  /\ j.to \in Members /\ j.batch \in SUBSET Msgs /\ j.left \in SUBSET Msgs
           /\ j.state \in {"running", "returned"}
           /\ j = call(j.to, j.batch, j.left, j.state)
  BY DEF call, Job

\* A step keeps the types of the handler calls and of the histories.
LEMMA DeliveryTypesNext == Types /\ [Next]_vars => DeliveryTypes'
<1> SUFFICES ASSUME Types, [Next]_vars PROVE DeliveryTypes'
  OBVIOUS
<1> USE DEF Types, DeliveryTypes
<1>1. ASSUME NEW m \in Members, NEW batch \in SUBSET Msgs, startHandle(m, batch),
             UNCHANGED <<picked, handled>>
      PROVE  DeliveryTypes'
  <2>1. call(m, batch, batch, "running") \in Job
    BY CallType
  <2> QED BY <1>1, <2>1 DEF startHandle
<1>2. ASSUME NEW m \in Members, stop(m) PROVE DeliveryTypes'
  BY <1>1, <1>2 DEF stop, BatchTypes
<1>3. ASSUME NEW m \in Members, expire(m) PROVE DeliveryTypes'
  BY <1>1, <1>3 DEF expire, BatchTypes
<1>4. ASSUME NEW p \in Msgs, NEW g \in Groups, pick(p, g) PROVE DeliveryTypes'
  <2>1. ASSUME NEW m \in Candidates(g) PROVE m \in Members
    BY <1>4, <2>1, CandidatesType DEF pick
  <2> QED BY <1>4, <2>1 DEF pick
<1>5. ASSUME NEW p \in Msgs, HandOver(p) PROVE DeliveryTypes'
  <2> DEFINE m == Head(targets[p])
  <2>1. m \in Members
    BY <1>5 DEF PublishTypes, HasTarget, HandOver
  <2>2. pending[m] \cup {p} \in SUBSET Msgs
    BY <2>1 DEF BatchTypes
  <2>3. \/ UNCHANGED jobs
        \/ startHandle(m, {p})
        \/ startHandle(m, pending[m] \cup {p})
    BY <1>5 DEF HandOver, add
  <2>4. UNCHANGED <<picked, handled>>
    BY <1>5 DEF HandOver
  <2> QED BY <1>1, <2>1, <2>2, <2>3, <2>4
<1>6. ASSUME NEW j \in jobs, HandlerReturns(j) PROVE DeliveryTypes'
  <2>1. j.to \in Members /\ j.batch \in SUBSET Msgs /\ j.left \in SUBSET Msgs
    BY JobType
  <2>2. call(j.to, j.batch, j.left, "returned") \in Job
    BY <2>1, CallType
  <2>3. {<<j.to, p>> : p \in j.batch} \subseteq Members \X Msgs
    BY <2>1
  <2> QED BY <1>6, <2>2, <2>3 DEF HandlerReturns
<1>7. ASSUME NEW j \in jobs, finish(j) PROVE DeliveryTypes'
  <2>1. j.to \in Members /\ j.batch \in SUBSET Msgs /\ j.left \in SUBSET Msgs /\ j.state \in {"running", "returned"}
    BY JobType
  <2>2. ASSUME NEW p \in j.left PROVE call(j.to, j.batch, j.left \ {p}, j.state) \in Job
    BY <2>1, CallType
  <2> QED BY <1>7, <2>2 DEF finish
<1>8. CASE UNCHANGED <<jobs, picked, handled>>
  BY <1>8
<1> QED
  BY <1>2, <1>3, <1>4, <1>5, <1>6, <1>7, <1>8 DEF Next, PublishStep, vars, register, EndContext,
     SetDone, FireTimer, StartPublish, Unlock, begin, Return, CallDrain, WakeDrain

\* A step keeps the types of the Drain calls.
LEMMA DrainTypesNext == Types /\ [Next]_vars => DrainTypes'
<1> SUFFICES ASSUME Types, [Next]_vars PROVE DrainTypes'
  OBVIOUS
<1> USE DEF Types, DrainTypes
<1>1. ASSUME NEW j \in jobs, finish(j) PROVE DrainTypes'
  BY <1>1 DEF finish
<1>2. ASSUME NEW d \in Drainers, CallDrain(d) PROVE DrainTypes'
  <2>1. Outstanding \cup {e \in picked : pc[e[2]] = "returned"} \subseteq Members \X Msgs
    BY DEF Outstanding, InHand, Filling, Running, DeliveryTypes
  <2> QED BY <1>2, <2>1 DEF CallDrain
<1>3. ASSUME NEW d \in Drainers, WakeDrain(d) PROVE DrainTypes'
  BY <1>3 DEF WakeDrain
<1>4. CASE UNCHANGED drainVars
  BY <1>4 DEF drainVars
<1> QED
  BY <1>1, <1>2, <1>3, <1>4, Zenon DEF Next, PublishStep, vars, register, EndContext, SetDone, stop,
     FireTimer, expire, StartPublish, pick, Unlock, begin, HandOver, Return, HandlerReturns

\* The variables keep their types.
LEMMA TypesInvariant == Spec => []Types
<1>1. Init => Types
  BY IntMaxAssumption DEF Init, Types, MemberTypes, PublishTypes, BatchTypes, DeliveryTypes,
     DrainTypes, HasTarget
<1>2. Types /\ [Next]_vars => Types'
  BY MemberTypesNext, PublishTypesNext, BatchTypesNext, DeliveryTypesNext, DrainTypesNext DEF Types
<1> QED
  BY <1>1, <1>2, PTL DEF Spec

(***************************************************************************)

(***************************************************************************)
(* The inductive invariant: where each delivery is.                        *)
(***************************************************************************)
\* The members of a group belong to it.
Belongs == \A g \in Groups : \A i \in 1 .. Len(members[g]) : GroupOf[members[g][i]] = g

\* A publish call has picked nothing before it starts, nothing from a group it has still to
\* ask, and one member of a group at most; it returns with no target left.
PickedInv ==
    /\ \A p \in Msgs : pc[p] \in {"idle", "returned"} => targets[p] = <<>>
    /\ \A m \in Members, p \in Msgs :
          <<m, p>> \in picked => pc[p] # "idle" /\ GroupOf[m] \notin toPick[p]
    /\ \A m, n \in Members, p \in Msgs :
          <<m, p>> \in picked /\ <<n, p>> \in picked /\ GroupOf[m] = GroupOf[n] => m = n
    /\ handled \subseteq picked

\* m is a target of publish call p; p is in a handler call of m, or in one unfinished.
Target(m, p) == \E i \in 1 .. Len(targets[p]) : targets[p][i] = m
Called(m, p) == \E j \in jobs : j.to = m /\ p \in j.batch
Unfinished(m, p) == \E j \in jobs : j.to = m /\ p \in j.left

\* The targets of a publish call are distinct.
DistinctInv ==
    \A p \in Msgs : \A i, k \in 1 .. Len(targets[p]) : targets[p][k] = targets[p][i] => k = i

\* A target is given to nothing else yet; a message of a filling batch is in no handler call; and a
\* delivery picked is a target, in a filling batch, in a handler call, or handled.
Place(m, p) ==
    /\ Target(m, p) => <<m, p>> \in picked \ handled /\ p \notin pending[m] /\ ~Called(m, p)
    /\ p \in pending[m] => <<m, p>> \in picked \ handled /\ ~Called(m, p)
    /\ <<m, p>> \in picked =>
          <<m, p>> \in handled \/ Target(m, p) \/ p \in pending[m] \/ Unfinished(m, p)

PlaceInv == \A m \in Members, p \in Msgs : Place(m, p)

\* A handler call has finished nothing while it runs, and the deliveries of one that has returned
\* are handled.
CallOK(j) ==
    /\ j.left # {} /\ j.left \subseteq j.batch
    /\ j.state = "running" => j.left = j.batch
    /\ \A p \in j.batch : <<j.to, p>> \in picked /\ (<<j.to, p>> \in handled <=> j.state = "returned")

\* The handler calls of a member share no message.
JobsInv ==
    /\ \A j \in jobs : CallOK(j)
    /\ \A j, k \in jobs : \A p \in Msgs : j.to = k.to /\ p \in j.batch /\ p \in k.batch => j = k

Deliveries == PickedInv /\ DistinctInv /\ PlaceInv /\ JobsInv
Places == Belongs /\ Deliveries

\* Only register changes the members of a group.
LEMMA BelongsNext == Types /\ Belongs /\ [Next]_vars => Belongs'
<1> SUFFICES ASSUME Types, Belongs, [Next]_vars PROVE Belongs'
  OBVIOUS
<1>1. ASSUME NEW m \in Members, register(m) PROVE Belongs'
  <2>1. GroupOf[m] \in Groups
    BY MembersAssumption
  <2>2. SUFFICES ASSUME NEW g \in Groups, NEW i \in 1 .. Len(members'[g])
                 PROVE  GroupOf[members'[g][i]] = g
    BY DEF Belongs
  <2>3. CASE g # GroupOf[m]
    BY <1>1, <2>1, <2>3 DEF register, Belongs, Types, MemberTypes
  <2>4. CASE g = GroupOf[m]
    <3>1. members'[g] = Append(members[g], m) /\ members[g] \in Seq(Members)
      BY <1>1, <2>1, <2>4 DEF register, Types, MemberTypes
    <3> QED BY <2>4, <3>1 DEF Belongs
  <2> QED BY <2>3, <2>4
<1>2. CASE UNCHANGED members
  BY <1>2 DEF Belongs
<1> QED
  BY <1>1, <1>2, Zenon DEF Next, PublishStep, vars, memberVars, EndContext, SetDone, stop, FireTimer, expire,
     StartPublish, pick, Unlock, begin, HandOver, Return, HandlerReturns, finish, CallDrain, WakeDrain

\* Where one delivery is, read off the invariant.
LEMMA PlaceAt ==
    ASSUME Places, NEW m \in Members, NEW p \in Msgs
    PROVE  Place(m, p)
  BY DEF Places, Deliveries, PlaceInv

\* A step that gives no delivery away leaves each in its place.
LEMMA FramePlaces ==
    ASSUME Places, UNCHANGED <<targets, pending, jobs, picked, handled>>
    PROVE  DistinctInv' /\ PlaceInv' /\ JobsInv'
<1>1. DistinctInv'
  BY DEF Places, Deliveries, DistinctInv
<1>2. JobsInv'
  BY DEF Places, Deliveries, JobsInv, CallOK
<1>3. ASSUME NEW n \in Members, NEW q \in Msgs PROVE Place(n, q)'
  <2>1. (Target(n, q)' <=> Target(n, q)) /\ (Called(n, q)' <=> Called(n, q)) /\ (Unfinished(n, q)' <=> Unfinished(n, q))
    BY DEF Target, Called, Unfinished
  <2> QED BY <2>1, PlaceAt DEF Place
<1> QED BY <1>1, <1>2, <1>3 DEF PlaceInv

\* A handler call starts on messages that are in no other one.
LEMMA NewCall ==
    ASSUME Types, JobsInv, NEW m \in Members, NEW batch \in SUBSET Msgs, startHandle(m, batch),
           \A p \in batch : <<m, p>> \in picked \ handled /\ ~Called(m, p),
           UNCHANGED <<picked, handled>>
    PROVE  /\ JobsInv'
           /\ \A n \in Members, p \in Msgs :
                 /\ Called(n, p)' <=> (Called(n, p) \/ (n = m /\ p \in batch))
                 /\ Unfinished(n, p)' <=> (Unfinished(n, p) \/ (n = m /\ p \in batch))
<1> DEFINE c == call(m, batch, batch, "running")
<1>1. c.to = m /\ c.batch = batch /\ c.left = batch /\ c.state = "running"
  BY DEF call
<1>2. CASE batch = {}
  <2>1. jobs' = jobs
    BY <1>2 DEF startHandle
  <2>2. \A n \in Members, p \in Msgs : (Called(n, p)' <=> Called(n, p)) /\ (Unfinished(n, p)' <=> Unfinished(n, p))
    BY <2>1 DEF Called, Unfinished
  <2>3. JobsInv'
    BY <2>1 DEF JobsInv, CallOK
  <2> QED BY <1>2, <2>2, <2>3
<1>3. CASE batch # {}
  <2>1. jobs' = jobs \cup {c}
    BY <1>3 DEF startHandle
  <2> HIDE DEF c
  <2>2. ASSUME NEW j \in jobs' PROVE CallOK(j)'
    <3>1. CASE j \in jobs
      BY <3>1 DEF JobsInv, CallOK
    <3>2. CASE j = c
      BY <1>1, <1>3, <3>2 DEF CallOK
    <3> QED BY <2>1, <3>1, <3>2
  <2>3. ASSUME NEW j \in jobs', NEW k \in jobs', NEW p \in Msgs, j.to = k.to,
               p \in j.batch, p \in k.batch
        PROVE  j = k
    <3>1. CASE j = c /\ k \in jobs
      <4>1. Called(m, p)
        BY <1>1, <2>3, <3>1 DEF Called
      <4> QED BY <1>1, <2>3, <3>1, <4>1, Zenon
    <3>2. CASE k = c /\ j \in jobs
      <4>1. Called(m, p)
        BY <1>1, <2>3, <3>2 DEF Called
      <4> QED BY <1>1, <2>3, <3>2, <4>1, Zenon
    <3>3. CASE j \in jobs /\ k \in jobs
      BY <2>3, <3>3 DEF JobsInv
    <3> QED BY <2>1, <3>1, <3>2, <3>3
  <2>4. JobsInv'
    BY <2>2, <2>3 DEF JobsInv
  <2>5. \A n \in Members, p \in Msgs :
           /\ Called(n, p)' <=> (Called(n, p) \/ (n = m /\ p \in batch))
           /\ Unfinished(n, p)' <=> (Unfinished(n, p) \/ (n = m /\ p \in batch))
    BY <1>1, <2>1 DEF Called, Unfinished
  <2> QED BY <2>4, <2>5
<1> QED BY <1>2, <1>3

\* A batcher that gives its batch up, in stop or expire, moves its messages to a handler call.
LEMMA GiveUpEffect ==
    ASSUME Types, Places, NEW m \in Members, take(m), startHandle(m, pending[m]), UNCHANGED <<picked, handled>>
    PROVE  /\ JobsInv'
           /\ \A n \in Members, q \in Msgs :
                 /\ q \in pending'[n] <=> q \in pending[n] /\ n # m
                 /\ Called(n, q)' <=> (Called(n, q) \/ (n = m /\ q \in pending[m]))
                 /\ Unfinished(n, q)' <=> (Unfinished(n, q) \/ (n = m /\ q \in pending[m]))
<1>1. pending[m] \in SUBSET Msgs
  BY DEF Types, BatchTypes
<1>2. \A q \in pending[m] : <<m, q>> \in picked \ handled /\ ~Called(m, q)
  BY <1>1, PlaceAt DEF Place
<1>3. JobsInv
  BY DEF Places, Deliveries
<1>4. \A n \in Members, q \in Msgs : q \in pending'[n] <=> q \in pending[n] /\ n # m
  BY DEF Types, BatchTypes, take
<1>5. /\ JobsInv'
      /\ \A n \in Members, q \in Msgs :
            /\ Called(n, q)' <=> (Called(n, q) \/ (n = m /\ q \in pending[m]))
            /\ Unfinished(n, q)' <=> (Unfinished(n, q) \/ (n = m /\ q \in pending[m]))
  BY <1>1, <1>2, <1>3, NewCall
<1> QED BY <1>4, <1>5

LEMMA GiveUpPlaces ==
    ASSUME Types, Places, NEW m \in Members, take(m), startHandle(m, pending[m]),
           UNCHANGED <<publishVars, picked, handled>>
    PROVE  Deliveries'
<1>1. UNCHANGED <<pc, toPick, targets, picked, handled>>
  BY DEF publishVars
<1>2. PickedInv' /\ DistinctInv'
  BY <1>1 DEF Places, Deliveries, PickedInv, DistinctInv
<1>3. JobsInv'
  BY <1>1, GiveUpEffect
<1>4. ASSUME NEW n \in Members, NEW q \in Msgs PROVE Place(n, q)'
  <2>1. /\ q \in pending'[n] <=> q \in pending[n] /\ n # m
        /\ Called(n, q)' <=> (Called(n, q) \/ (n = m /\ q \in pending[n]))
        /\ Unfinished(n, q)' <=> (Unfinished(n, q) \/ (n = m /\ q \in pending[n]))
    BY <1>1, GiveUpEffect
  <2>2. Target(n, q)' <=> Target(n, q)
    BY <1>1 DEF Target
  <2>3. Place(n, q)
    BY PlaceAt
  <2> QED BY <1>1, <2>1, <2>2, <2>3 DEF Place
<1> QED BY <1>2, <1>3, <1>4 DEF Deliveries, PlaceInv

\* The steps of a publish call that give nothing away.
LEMMA StartPublishPlaces ==
    ASSUME Types, Places, NEW p \in Msgs, StartPublish(p)
    PROVE  Deliveries'
<1>1. UNCHANGED <<targets, pending, jobs, picked, handled>>
  BY DEF StartPublish, batchVars
<1>2. PickedInv'
  BY DEF Places, Deliveries, PickedInv, StartPublish, Types, PublishTypes
<1> QED BY <1>1, <1>2, FramePlaces DEF Deliveries

LEMMA PcPlaces ==
    ASSUME Types, Places, NEW p \in Msgs, Unlock(p) \/ begin(p) \/ Return(p)
    PROVE  Deliveries'
<1>1. UNCHANGED <<toPick, targets, pending, jobs, picked, handled>>
  BY DEF Unlock, begin, Return, batchVars
<1>2. PickedInv'
  <2>1. \A q \in Msgs : (pc'[q] = "idle" <=> pc[q] = "idle")
                        /\ (pc'[q] = "returned" => pc[q] = "returned" \/ targets[q] = <<>>)
    BY DEF Unlock, begin, Return, Types, PublishTypes
  <2> QED BY <1>1, <2>1 DEF Places, Deliveries, PickedInv
<1> QED BY <1>1, <1>2, FramePlaces DEF Deliveries

\* pick adds a target of a group the call had picked nothing from.
LEMMA PickPlaces ==
    ASSUME Types, Places, NEW p \in Msgs, NEW g \in Groups, pick(p, g)
    PROVE  Deliveries'
<1>1. /\ pc[p] = "picking" /\ g \in toPick[p]
      /\ toPick' = [toPick EXCEPT ![p] = @ \ {g}]
      /\ UNCHANGED <<pc, pending, jobs, handled>>
  BY DEF pick, batchVars
<1>2. CASE UNCHANGED <<targets, picked>>
  <2>1. PickedInv'
    BY <1>1, <1>2 DEF Places, Deliveries, PickedInv, Types, PublishTypes
  <2> QED BY <1>1, <1>2, <2>1, FramePlaces DEF Deliveries
<1>3. ASSUME NEW m \in Candidates(g), targets' = [targets EXCEPT ![p] = Append(@, m)],
             picked' = picked \cup {<<m, p>>}
      PROVE  Deliveries'
  <2>1. m \in Members /\ \E i \in DOMAIN members[g] : m = members[g][i]
    BY <1>3, CandidatesType DEF pick, Types
  <2>2. GroupOf[m] = g
    <3>1. members[g] \in Seq(Members)
      BY DEF Types, MemberTypes
    <3>2. PICK i \in 1 .. Len(members[g]) : m = members[g][i]
      BY <2>1, <3>1
    <3> QED BY <3>2 DEF Places, Belongs
  <2>3. <<m, p>> \notin picked
    BY <1>1, <2>1, <2>2 DEF Places, Deliveries, PickedInv
  <2>4. \A q \in Msgs : q # p => targets'[q] = targets[q]
    BY <1>3 DEF Types, PublishTypes
  <2>5. targets'[p] = Append(targets[p], m) /\ targets[p] \in Seq(Members)
    BY <1>3 DEF Types, PublishTypes
  <2>6. /\ Len(targets'[p]) = Len(targets[p]) + 1 /\ Len(targets[p]) \in Nat
        /\ \A i \in 1 .. Len(targets[p]) : targets'[p][i] = targets[p][i]
        /\ targets'[p][Len(targets[p]) + 1] = m
    BY <2>5
  <2>7. \A n \in Members, q \in Msgs : Target(n, q)' <=> Target(n, q) \/ (n = m /\ q = p)
    <3>1. \A n \in Members, q \in Msgs : q # p => (Target(n, q)' <=> Target(n, q))
      BY <2>4 DEF Target
    <3>2. ASSUME NEW n \in Members PROVE Target(n, p)' <=> Target(n, p) \/ n = m
      <4>1. Target(n, p) => Target(n, p)'
        BY <2>6 DEF Target
      <4>2. n = m => Target(n, p)'
        BY <2>6 DEF Target
      <4>3. ASSUME NEW i \in 1 .. Len(targets'[p]), targets'[p][i] = n PROVE Target(n, p) \/ n = m
        <5>1. i \in 1 .. Len(targets[p]) \/ i = Len(targets[p]) + 1
          BY <2>6
        <5> QED BY <2>6, <4>3, <5>1 DEF Target
      <4> QED BY <4>1, <4>2, <4>3 DEF Target
    <3> QED BY <3>1, <3>2
  <2>8. ~Target(m, p) /\ ~Called(m, p) /\ p \notin pending[m] /\ <<m, p>> \notin handled
    <3>1. ~Target(m, p) /\ p \notin pending[m]
      BY <2>1, <2>3, PlaceAt DEF Place
    <3>2. ~Called(m, p)
      BY <2>3 DEF Called, Places, Deliveries, JobsInv, CallOK
    <3>3. <<m, p>> \notin handled
      BY <2>3 DEF Places, Deliveries, PickedInv
    <3> QED BY <3>1, <3>2, <3>3
  <2>9. PickedInv'
    <3>1. \A q \in Msgs : pc'[q] \in {"idle", "returned"} => targets'[q] = <<>>
      BY <1>1, <2>4 DEF Places, Deliveries, PickedInv
    <3>2. \A n \in Members, q \in Msgs :
             <<n, q>> \in picked' => pc'[q] # "idle" /\ GroupOf[n] \notin toPick'[q]
      BY <1>1, <1>3, <2>2 DEF Places, Deliveries, PickedInv, Types, PublishTypes
    <3>3. \A n, o \in Members, q \in Msgs :
             <<n, q>> \in picked' /\ <<o, q>> \in picked' /\ GroupOf[n] = GroupOf[o] => n = o
      BY <1>1, <1>3, <2>2 DEF Places, Deliveries, PickedInv
    <3>4. handled' \subseteq picked'
      BY <1>1, <1>3 DEF Places, Deliveries, PickedInv
    <3> QED BY <3>1, <3>2, <3>3, <3>4 DEF PickedInv
  <2>10. DistinctInv'
    <3>1. ASSUME NEW i \in 1 .. Len(targets'[p]), NEW k \in 1 .. Len(targets'[p]), targets'[p][k] = targets'[p][i]
          PROVE  k = i
      <4>1. \A l \in 1 .. Len(targets'[p]) : l \in 1 .. Len(targets[p]) \/ l = Len(targets[p]) + 1
        BY <2>6
      <4>2. \A l \in 1 .. Len(targets[p]) : targets[p][l] # m
        BY <2>8 DEF Target
      <4>3. CASE i \in 1 .. Len(targets[p]) /\ k \in 1 .. Len(targets[p])
        BY <2>6, <3>1, <4>3 DEF Places, Deliveries, DistinctInv
      <4> QED BY <2>6, <3>1, <4>1, <4>2, <4>3
    <3> QED BY <2>4, <3>1 DEF Places, Deliveries, DistinctInv
  <2>11. JobsInv'
    BY <1>1, <1>3 DEF Places, Deliveries, JobsInv, CallOK
  <2>12. ASSUME NEW n \in Members, NEW q \in Msgs PROVE Place(n, q)'
    <3>1. (Called(n, q)' <=> Called(n, q)) /\ (Unfinished(n, q)' <=> Unfinished(n, q))
      BY <1>1 DEF Called, Unfinished
    <3>2. <<n, q>> \in picked' <=> <<n, q>> \in picked \/ (n = m /\ q = p)
      BY <1>3
    <3>3. Place(n, q) /\ (Target(n, q)' <=> Target(n, q) \/ (n = m /\ q = p))
      BY <2>7, PlaceAt
    <3> QED BY <1>1, <2>8, <3>1, <3>2, <3>3 DEF Place
  <2> QED BY <2>9, <2>10, <2>11, <2>12 DEF Deliveries, PlaceInv
<1> QED BY <1>2, <1>3 DEF pick

\* The next target of a publish call is in no batch and in no handler call.
LEMMA CountedOnce ==
    ASSUME Types, Places, NEW p \in Msgs, targets[p] # <<>>, NEW m, m = Head(targets[p])
    PROVE  /\ m \in Members /\ p \notin pending[m] /\ ~Unfinished(m, p) /\ ~Called(m, p)
           /\ <<m, p>> \in picked \ handled
<1>1. targets[p] \in Seq(Members)
  BY DEF Types, PublishTypes
<1>2. m \in Members /\ 1 \in 1 .. Len(targets[p]) /\ m = targets[p][1]
  BY <1>1
<1>3. Target(m, p)
  BY <1>2 DEF Target
<1>4. Unfinished(m, p) => Called(m, p)
  BY DEF Unfinished, Called, Places, Deliveries, JobsInv, CallOK
<1>5. Place(m, p)
  BY <1>2, PlaceAt
<1> QED BY <1>2, <1>3, <1>4, <1>5 DEF Place

\* HandOver gives the next target to the batcher or to a handler call, the filling batch with it
\* when that is handed over, and moves no other delivery.
LEMMA HandOverEffect ==
    ASSUME Types, Places, NEW p \in Msgs, HandOver(p), NEW m, m = Head(targets[p])
    PROVE  /\ JobsInv'
           /\ \A n \in Members, q \in Msgs :
                 /\ q \in pending'[n] \/ Unfinished(n, q)' <=>
                       q \in pending[n] \/ Unfinished(n, q) \/ (n = m /\ q = p)
                 /\ q \in pending'[n] => q \in pending[n] \/ (n = m /\ q = p)
                 /\ q \in pending'[n] => (Called(n, q)' <=> Called(n, q))
                 /\ Called(n, q)' => Called(n, q) \/ q \in pending[n] \/ (n = m /\ q = p)
<1>1. targets[p] # <<>> /\ UNCHANGED <<picked, handled>>
  BY DEF HandOver, Types, HasTarget
<1>2. m \in Members /\ p \notin pending[m] /\ ~Called(m, p) /\ <<m, p>> \in picked \ handled
  BY <1>1, CountedOnce
<1>3. pending \in [Members -> SUBSET Msgs] /\ JobsInv
  BY DEF Types, BatchTypes, Places, Deliveries
<1>4. \A q \in pending[m] : <<m, q>> \in picked \ handled /\ ~Called(m, q)
  BY <1>2, <1>3, PlaceAt DEF Place
<1>5. CASE m \notin Batched
  <2>1. startHandle(m, {p}) /\ pending' = pending
    BY <1>5 DEF HandOver, batchVars
  <2> DEFINE batch == {p}
  <2>2. batch \in SUBSET Msgs /\ \A q \in batch : <<m, q>> \in picked \ handled /\ ~Called(m, q)
    BY <1>2
  <2>3. \A q \in Msgs : q \in batch <=> q = p
    OBVIOUS
  <2>4. startHandle(m, batch)
    BY <2>1
  <2> HIDE DEF batch
  <2>5. /\ JobsInv'
        /\ \A n \in Members, q \in Msgs :
              /\ Called(n, q)' <=> (Called(n, q) \/ (n = m /\ q \in batch))
              /\ Unfinished(n, q)' <=> (Unfinished(n, q) \/ (n = m /\ q \in batch))
    BY <1>1, <1>2, <1>3, <2>2, <2>4, NewCall
  <2> QED BY <1>2, <2>1, <2>3, <2>5
<1>6. CASE m \in Batched /\ (stopped[m] \/ Cardinality(pending[m] \cup {p}) >= Max)
  <2> DEFINE batch == pending[m] \cup {p}
  <2>1. startHandle(m, batch) /\ pending' = [pending EXCEPT ![m] = {}]
    BY <1>6 DEF HandOver, add, take
  <2>2. batch \in SUBSET Msgs /\ \A q \in batch : <<m, q>> \in picked \ handled /\ ~Called(m, q)
    BY <1>2, <1>3, <1>4
  <2>3. \A q \in Msgs : q \in batch <=> q \in pending[m] \/ q = p
    OBVIOUS
  <2> HIDE DEF batch
  <2>4. /\ JobsInv'
        /\ \A n \in Members, q \in Msgs :
              /\ Called(n, q)' <=> (Called(n, q) \/ (n = m /\ q \in batch))
              /\ Unfinished(n, q)' <=> (Unfinished(n, q) \/ (n = m /\ q \in batch))
    BY <1>1, <1>2, <1>3, <2>1, <2>2, NewCall
  <2>5. \A n \in Members, q \in Msgs : q \in pending'[n] <=> q \in pending[n] /\ n # m
    BY <1>2, <1>3, <2>1
  <2> QED BY <2>3, <2>4, <2>5
<1>7. CASE m \in Batched /\ ~(stopped[m] \/ Cardinality(pending[m] \cup {p}) >= Max)
  <2>1. jobs' = jobs /\ pending' = [pending EXCEPT ![m] = pending[m] \cup {p}]
    BY <1>7, Zenon DEF HandOver, add
  <2>2. \A n \in Members, q \in Msgs : (Called(n, q)' <=> Called(n, q)) /\ (Unfinished(n, q)' <=> Unfinished(n, q))
    BY <2>1 DEF Called, Unfinished
  <2>3. JobsInv'
    BY <1>1, <1>3, <2>1, Zenon DEF JobsInv, CallOK
  <2>4. \A n \in Members, q \in Msgs : q \in pending'[n] <=> q \in pending[n] \/ (n = m /\ q = p)
    BY <1>2, <1>3, <2>1
  <2> QED BY <2>2, <2>3, <2>4
<1> QED BY <1>5, <1>6, <1>7

LEMMA HandOverPlaces ==
    ASSUME Types, Places, NEW p \in Msgs, HandOver(p)
    PROVE  Deliveries'
<1>1. /\ pc[p] = "begun" /\ pc' = [pc EXCEPT ![p] = "delivering"]
      /\ targets' = [targets EXCEPT ![p] = Tail(@)] /\ UNCHANGED <<toPick, picked, handled>>
  BY DEF HandOver
<1>2. PICK m : m = Head(targets[p])
  OBVIOUS
<1>3. targets[p] # <<>> /\ targets[p] \in Seq(Members)
  BY <1>1 DEF Types, PublishTypes, HasTarget
<1>4. m \in Members /\ p \notin pending[m] /\ ~Called(m, p) /\ <<m, p>> \in picked \ handled
  BY <1>2, <1>3, CountedOnce
<1>5. /\ \A q \in Msgs : q # p => targets'[q] = targets[q] /\ pc'[q] = pc[q]
      /\ pc'[p] = "delivering" /\ targets'[p] = Tail(targets[p])
  BY <1>1 DEF Types, PublishTypes
<1>6. /\ Len(targets[p]) \in Nat /\ Len(targets[p]) > 0 /\ m = targets[p][1]
      /\ Len(targets'[p]) = Len(targets[p]) - 1
      /\ \A i \in 1 .. Len(targets'[p]) : i + 1 \in 1 .. Len(targets[p]) /\ targets'[p][i] = targets[p][i + 1]
  BY <1>2, <1>3, <1>5
<1>7. \A n \in Members, q \in Msgs : Target(n, q)' <=> Target(n, q) /\ ~(n = m /\ q = p)
  <2>1. \A n \in Members, q \in Msgs : q # p => (Target(n, q)' <=> Target(n, q))
    BY <1>5 DEF Target
  <2>2. ASSUME NEW i \in 1 .. Len(targets'[p]) PROVE targets'[p][i] # m
    <3>1. i + 1 \in 1 .. Len(targets[p]) /\ targets'[p][i] = targets[p][i + 1] /\ i + 1 # 1 /\ 1 \in 1 .. Len(targets[p])
      BY <1>6
    <3> QED BY <1>6, <3>1, Zenon DEF Places, Deliveries, DistinctInv
  <2>3. ASSUME NEW n \in Members, n # m PROVE Target(n, p)' <=> Target(n, p)
    <3>1. Target(n, p)' => Target(n, p)
      BY <1>6 DEF Target
    <3>2. ASSUME NEW i \in 1 .. Len(targets[p]), targets[p][i] = n PROVE Target(n, p)'
      <4>1. i # 1
        BY <1>6, <2>3, <3>2
      <4>2. i - 1 \in 1 .. Len(targets'[p]) /\ (i - 1) + 1 = i
        BY <1>6, <4>1
      <4> QED BY <1>6, <3>2, <4>2, Zenon DEF Target
    <3> QED BY <3>1, <3>2 DEF Target
  <2>4. ~Target(m, p)'
    BY <2>2 DEF Target
  <2> QED BY <2>1, <2>3, <2>4
<1>8. DistinctInv'
  <2>1. ASSUME NEW i \in 1 .. Len(targets'[p]), NEW k \in 1 .. Len(targets'[p]), targets'[p][k] = targets'[p][i]
        PROVE  k = i
    <3>1. \A a, b \in 1 .. Len(targets[p]) : targets[p][b] = targets[p][a] => b = a
      BY DEF Places, Deliveries, DistinctInv
    <3>2. /\ i + 1 \in 1 .. Len(targets[p]) /\ targets'[p][i] = targets[p][i + 1]
          /\ k + 1 \in 1 .. Len(targets[p]) /\ targets'[p][k] = targets[p][k + 1]
      BY <1>6
    <3>3. k + 1 = i + 1
      BY <2>1, <3>1, <3>2
    <3> QED BY <3>3
  <2> QED BY <1>5, <2>1, Zenon DEF Places, Deliveries, DistinctInv
<1>9. PickedInv'
  <2>1. \A q \in Msgs : /\ pc'[q] \in {"idle", "returned"} => pc[q] = pc'[q] /\ targets'[q] = targets[q]
                        /\ pc'[q] = "idle" => pc[q] = "idle"
    BY <1>5
  <2> QED BY <1>1, <2>1 DEF Places, Deliveries, PickedInv
<1>10. JobsInv'
  BY <1>2, HandOverEffect
<1>11. ASSUME NEW n \in Members, NEW q \in Msgs PROVE Place(n, q)'
  <2>1. /\ q \in pending'[n] \/ Unfinished(n, q)' <=> q \in pending[n] \/ Unfinished(n, q) \/ (n = m /\ q = p)
        /\ q \in pending'[n] => q \in pending[n] \/ (n = m /\ q = p)
        /\ q \in pending'[n] => (Called(n, q)' <=> Called(n, q))
        /\ Called(n, q)' => Called(n, q) \/ q \in pending[n] \/ (n = m /\ q = p)
    BY <1>2, HandOverEffect, Zenon
  <2>2. Place(n, q) /\ (Target(n, q)' <=> Target(n, q) /\ ~(n = m /\ q = p))
    BY <1>7, PlaceAt
  <2> QED BY <1>1, <1>4, <2>1, <2>2, Zenon DEF Place
<1> QED BY <1>8, <1>9, <1>10, <1>11 DEF Deliveries, PlaceInv

\* A handler returns: the messages of its batch are handled.
LEMMA HandlerReturnsPlaces ==
    ASSUME Types, Places, NEW j \in jobs, HandlerReturns(j)
    PROVE  Deliveries'
<1> DEFINE c == call(j.to, j.batch, j.left, "returned")
<1>1. j.to \in Members /\ j.batch \in SUBSET Msgs /\ j.left \in SUBSET Msgs
  BY JobType DEF Types, DeliveryTypes
<1>2. c.to = j.to /\ c.batch = j.batch /\ c.left = j.left /\ c.state = "returned"
  BY DEF call
<1>3. j.state = "running" /\ jobs' = (jobs \ {j}) \cup {c} /\ UNCHANGED <<pc, toPick, targets, pending, picked>>
  BY DEF HandlerReturns, publishVars, batchVars
<1> HIDE DEF c
<1>4. \A n \in Members, q \in Msgs :
         <<n, q>> \in handled' <=> <<n, q>> \in handled \/ (n = j.to /\ q \in j.batch)
  BY <1>1 DEF HandlerReturns
<1>5. CallOK(j)
  BY DEF Places, Deliveries, JobsInv
<1>6. DistinctInv'
  BY <1>3 DEF Places, Deliveries, DistinctInv
<1>7. PickedInv'
  <2>1. ASSUME NEW d \in handled' PROVE d \in picked
    <3>1. d \in handled \/ \E q \in j.batch : d = <<j.to, q>>
      BY <2>1 DEF HandlerReturns
    <3> QED BY <1>5, <3>1 DEF Places, Deliveries, PickedInv, CallOK
  <2> QED BY <1>3, <2>1 DEF Places, Deliveries, PickedInv
<1>8. JobsInv'
  <2>1. ASSUME NEW k \in jobs' PROVE CallOK(k)'
    <3>1. CASE k = c
      BY <1>1, <1>2, <1>3, <1>4, <1>5, <3>1 DEF CallOK
    <3>2. CASE k \in jobs /\ k # j
      <4>1. k.to \in Members /\ k.batch \in SUBSET Msgs
        BY <3>2, JobType DEF Types, DeliveryTypes
      <4>2. \A q \in k.batch : ~(k.to = j.to /\ q \in j.batch)
        BY <3>2, <4>1 DEF Places, Deliveries, JobsInv
      <4>3. CallOK(k) /\ \A q \in k.batch : <<k.to, q>> \in handled' <=> <<k.to, q>> \in handled
        BY <1>4, <3>2, <4>1, <4>2 DEF Places, Deliveries, JobsInv
      <4> QED BY <1>3, <4>3 DEF CallOK
    <3> QED BY <1>3, <3>1, <3>2
  <2>2. ASSUME NEW k \in jobs', NEW l \in jobs', NEW q \in Msgs, k.to = l.to,
               q \in k.batch, q \in l.batch
        PROVE  k = l
    <3>1. \A i \in jobs' : i = c \/ (i \in jobs /\ i # j)
      BY <1>3
    <3>2. \A i \in jobs : i # j => ~(i.to = j.to /\ q \in i.batch /\ q \in j.batch)
      BY DEF Places, Deliveries, JobsInv
    <3>3. CASE k \in jobs /\ l \in jobs
      BY <2>2, <3>3 DEF Places, Deliveries, JobsInv
    <3> QED BY <1>2, <2>2, <3>1, <3>2, <3>3
  <2> QED BY <2>1, <2>2 DEF JobsInv
<1>9. ASSUME NEW n \in Members, NEW q \in Msgs PROVE Place(n, q)'
  <2>1. (Called(n, q)' <=> Called(n, q)) /\ (Unfinished(n, q)' <=> Unfinished(n, q))
    BY <1>2, <1>3 DEF Called, Unfinished
  <2>2. Target(n, q)' <=> Target(n, q)
    BY <1>3, Zenon DEF Target
  <2>3. n = j.to /\ q \in j.batch => Called(n, q)
    BY DEF Called
  <2>4. Place(n, q) /\ (<<n, q>> \in handled' <=> <<n, q>> \in handled \/ (n = j.to /\ q \in j.batch))
    BY <1>4, PlaceAt
  <2> QED BY <1>3, <2>1, <2>2, <2>3, <2>4, Zenon DEF Place
<1> QED BY <1>6, <1>7, <1>8, <1>9 DEF Deliveries, PlaceInv

\* finish takes one handled delivery of a returned call away, and no other.
LEMMA FinishEffect ==
    ASSUME Types, Places, NEW j \in jobs, finish(j)
    PROVE  \E p \in j.left :
             /\ JobsInv'
             /\ Unfinished(j.to, p) /\ <<j.to, p>> \in handled
             /\ \A n \in Members, q \in Msgs :
                   /\ Called(n, q)' => Called(n, q)
                   /\ Unfinished(n, q)' <=> Unfinished(n, q) /\ ~(n = j.to /\ q = p)
<1>1. PICK p \in j.left : jobs' = (jobs \ {j}) \cup IF j.left = {p} THEN {} ELSE {call(j.to, j.batch, j.left \ {p}, j.state)}
  BY Zenon DEF finish
<1> DEFINE c == call(j.to, j.batch, j.left \ {p}, j.state)
<1>2. j.to \in Members /\ j.batch \in SUBSET Msgs /\ j.left \in SUBSET Msgs /\ j.state \in {"running", "returned"}
  BY JobType DEF Types, DeliveryTypes
<1>3. c.to = j.to /\ c.batch = j.batch /\ c.left = j.left \ {p} /\ c.state = j.state
  BY DEF call
<1>4. j.state = "returned" /\ UNCHANGED <<picked, handled>>
  BY DEF finish
<1>5. \A k \in jobs' : (k \in jobs /\ k # j) \/ (k = c /\ j.left # {p})
  BY <1>1
<1>6. (\A k \in jobs : k # j => k \in jobs') /\ (j.left # {p} => c \in jobs')
  BY <1>1
<1> HIDE DEF c
<1>7. CallOK(j)
  BY DEF Places, Deliveries, JobsInv
<1>8. p \in j.batch /\ p \in Msgs /\ Unfinished(j.to, p) /\ <<j.to, p>> \in handled
  BY <1>2, <1>4, <1>7 DEF CallOK, Unfinished
<1>9. \A k \in jobs, q \in Msgs : k # j => ~(k.to = j.to /\ q \in k.batch /\ q \in j.batch)
  BY DEF Places, Deliveries, JobsInv
<1>10. ASSUME NEW n \in Members, NEW q \in Msgs, Called(n, q)' PROVE Called(n, q)
  BY <1>3, <1>5, <1>10 DEF Called
<1>11. ASSUME NEW n \in Members, NEW q \in Msgs, Unfinished(n, q)'
       PROVE  Unfinished(n, q) /\ ~(n = j.to /\ q = p)
  <2>1. PICK k \in jobs' : k.to = n /\ q \in k.left
    BY <1>11 DEF Unfinished
  <2>2. CASE k = c
    BY <1>3, <2>1, <2>2 DEF Unfinished
  <2>3. CASE k \in jobs /\ k # j
    <3>1. q \in k.batch
      BY <2>1, <2>3 DEF Places, Deliveries, JobsInv, CallOK
    <3>2. ~(n = j.to /\ q = p)
      BY <1>8, <1>9, <2>1, <2>3, <3>1
    <3> QED BY <2>1, <2>3, <3>2 DEF Unfinished
  <2> QED BY <1>5, <2>1, <2>2, <2>3
<1>12. ASSUME NEW n \in Members, NEW q \in Msgs, Unfinished(n, q), ~(n = j.to /\ q = p)
       PROVE  Unfinished(n, q)'
  <2>1. PICK k \in jobs : k.to = n /\ q \in k.left
    BY <1>12 DEF Unfinished
  <2>2. CASE k # j
    BY <1>6, <2>1, <2>2 DEF Unfinished
  <2>3. CASE k = j
    <3>1. q \in j.left \ {p} /\ j.left # {p}
      BY <1>12, <2>1, <2>3
    <3> QED BY <1>3, <1>6, <2>1, <2>3, <3>1 DEF Unfinished
  <2> QED BY <2>2, <2>3
<1>13. JobsInv'
  <2>1. ASSUME NEW k \in jobs' PROVE CallOK(k)'
    <3>1. CASE k = c /\ j.left # {p}
      BY <1>3, <1>4, <1>7, <3>1 DEF CallOK
    <3>2. CASE k \in jobs
      BY <1>4, <3>2 DEF Places, Deliveries, JobsInv, CallOK
    <3> QED BY <1>5, <3>1, <3>2
  <2>2. ASSUME NEW k \in jobs', NEW l \in jobs', NEW q \in Msgs, k.to = l.to,
               q \in k.batch, q \in l.batch
        PROVE  k = l
    <3>1. CASE k \in jobs /\ l \in jobs
      BY <2>2, <3>1 DEF Places, Deliveries, JobsInv
    <3> QED BY <1>3, <1>5, <1>9, <2>2, <3>1
  <2> QED BY <2>1, <2>2 DEF JobsInv
<1>14. \A n \in Members, q \in Msgs :
         /\ Called(n, q)' => Called(n, q)
         /\ Unfinished(n, q)' <=> Unfinished(n, q) /\ ~(n = j.to /\ q = p)
  BY <1>10, <1>11, <1>12
<1> QED BY <1>8, <1>13, <1>14

LEMMA FinishPlaces ==
    ASSUME Types, Places, NEW j \in jobs, finish(j)
    PROVE  Deliveries'
<1>1. PICK p \in j.left :
             /\ JobsInv'
             /\ Unfinished(j.to, p) /\ <<j.to, p>> \in handled
             /\ \A n \in Members, q \in Msgs :
                   /\ Called(n, q)' => Called(n, q)
                   /\ Unfinished(n, q)' <=> Unfinished(n, q) /\ ~(n = j.to /\ q = p)
  BY FinishEffect
<1>2. UNCHANGED <<pc, toPick, targets, pending, picked, handled>>
  BY DEF finish, publishVars, batchVars
<1>3. PickedInv'
  BY <1>2 DEF Places, Deliveries, PickedInv
<1>4. DistinctInv'
  BY <1>2 DEF Places, Deliveries, DistinctInv
<1>5. ASSUME NEW n \in Members, NEW q \in Msgs PROVE Place(n, q)'
  <2>1. Target(n, q)' <=> Target(n, q)
    BY <1>2 DEF Target
  <2>2. Place(n, q)
    BY PlaceAt
  <2>3. /\ Called(n, q)' => Called(n, q)
        /\ Unfinished(n, q)' <=> Unfinished(n, q) /\ ~(n = j.to /\ q = p)
        /\ n = j.to /\ q = p => <<n, q>> \in handled
    BY <1>1, Zenon
  <2> QED BY <1>2, <2>1, <2>2, <2>3, Zenon DEF Place
<1> QED BY <1>1, <1>3, <1>4, <1>5 DEF Deliveries, PlaceInv

\* A step keeps every delivery in its place.
LEMMA PlacesNext == Types /\ Places /\ [Next]_vars => Places'
<1> SUFFICES ASSUME Types, Places, [Next]_vars PROVE Places'
  OBVIOUS
<1>1. Belongs'
  BY BelongsNext DEF Places
<1>2. ASSUME NEW m \in Members, stop(m) \/ expire(m) PROVE Deliveries'
  <2>1. take(m) /\ startHandle(m, pending[m]) /\ UNCHANGED <<publishVars, picked, handled>>
    BY <1>2 DEF stop, expire
  <2> QED BY <2>1, GiveUpPlaces
<1>3. ASSUME NEW p \in Msgs, StartPublish(p) \/ PublishStep(p) PROVE Deliveries'
  BY <1>3, StartPublishPlaces, PickPlaces, PcPlaces, HandOverPlaces DEF PublishStep
<1>4. ASSUME NEW j \in jobs, HandlerReturns(j) \/ finish(j) PROVE Deliveries'
  BY <1>4, HandlerReturnsPlaces, FinishPlaces
<1>5. ASSUME UNCHANGED <<pc, toPick, targets, pending, jobs, picked, handled>> PROVE Deliveries'
  <2>1. PickedInv'
    BY <1>5 DEF Places, Deliveries, PickedInv
  <2> QED BY <1>5, <2>1, FramePlaces DEF Deliveries
<1>6. ASSUME NEW m \in Members, register(m) \/ EndContext(m) \/ SetDone(m) \/ FireTimer(m) PROVE Deliveries'
  <2>1. UNCHANGED <<pc, toPick, targets, pending, jobs, picked, handled>>
    BY <1>6 DEF register, EndContext, SetDone, FireTimer, publishVars, batchVars
  <2> QED BY <1>5, <2>1
<1>7. ASSUME NEW d \in Drainers, CallDrain(d) \/ WakeDrain(d) PROVE Deliveries'
  <2>1. UNCHANGED <<pc, toPick, targets, pending, jobs, picked, handled>>
    BY <1>7 DEF CallDrain, WakeDrain, publishVars, batchVars
  <2> QED BY <1>5, <2>1
<1>8. ASSUME UNCHANGED vars PROVE Deliveries'
  BY <1>5, <1>8 DEF vars, publishVars, batchVars
<1>9. Deliveries'
  BY <1>2, <1>3, <1>4, <1>6, <1>7, <1>8 DEF Next
<1> QED BY <1>1, <1>9 DEF Places

LEMMA PlacesInvariant == Spec => [](Types /\ Places)
<1>1. Init => Places
  <2> SUFFICES ASSUME Init PROVE Places
    OBVIOUS
  <2>1. Belongs /\ DistinctInv
    BY DEF Init, Belongs, DistinctInv
  <2>2. PickedInv /\ JobsInv
    BY DEF Init, PickedInv, JobsInv
  <2>3. PlaceInv
    BY DEF Init, PlaceInv, Place, Target
  <2> QED BY <2>1, <2>2, <2>3 DEF Places, Deliveries
<1> QED
  BY <1>1, PlacesNext, TypesInvariant, PTL DEF Spec

-----------------------------------------------------------------------------
\* Nothing picked is lost and nothing is handed over twice: from pick (memory.go) to the
\* return of its handler a delivery is with the publish call, in a filling batch or in one
\* handler call, in exactly one of them.
THEOREM NothingLostTheorem == Spec => []NothingLost
<1>1. Types /\ Places => NothingLost
  <2> SUFFICES ASSUME Types, Places PROVE NothingLost
    OBVIOUS
  <2>1. ASSUME NEW m \in Members, NEW p \in Msgs
        PROVE  /\ <<m, p>> \in Waiting \cup InHand <=> Target(m, p)
               /\ <<m, p>> \notin Waiting \cap InHand
               /\ <<m, p>> \in Filling <=> p \in pending[m]
               /\ <<m, p>> \in Running <=> Unfinished(m, p)
    <3>1. targets[p] \in Seq(Members) /\ (pc[p] = "begun" => targets[p] # <<>>)
      BY DEF Types, PublishTypes, HasTarget
    <3>2. pc[p] = "begun" => 1 \in 1 .. Len(targets[p]) /\ Head(targets[p]) = targets[p][1]
      BY <3>1
    <3>3. \A i, k \in 1 .. Len(targets[p]) : targets[p][k] = targets[p][i] => k = i
      BY DEF Places, Deliveries, DistinctInv
    <3>4. <<m, p>> \in Waiting <=>
             \E i \in 1 .. Len(targets[p]) : targets[p][i] = m /\ ~(i = 1 /\ pc[p] = "begun")
      BY <3>1 DEF Waiting
    <3>5. <<m, p>> \in InHand <=> pc[p] = "begun" /\ m = targets[p][1]
      BY <3>2 DEF InHand
    <3>6. /\ <<m, p>> \in Waiting \cup InHand <=> Target(m, p)
          /\ <<m, p>> \notin Waiting \cap InHand
      BY <3>2, <3>3, <3>4, <3>5 DEF Target
    <3>7. <<m, p>> \in Filling <=> p \in pending[m]
      BY DEF Filling
    <3>8. <<m, p>> \in Running <=> Unfinished(m, p)
      BY DEF Running, Unfinished
    <3> QED BY <3>6, <3>7, <3>8
  <2>2. /\ picked \subseteq Members \X Msgs /\ handled \subseteq Members \X Msgs
        /\ Waiting \subseteq Members \X Msgs /\ InHand \subseteq Members \X Msgs
        /\ Filling \subseteq Members \X Msgs /\ Running \subseteq Members \X Msgs
    BY DEF Types, DeliveryTypes, Waiting, InHand, Filling, Running
  <2>3. ASSUME NEW m \in Members, NEW p \in Msgs
        PROVE  /\ Unfinished(m, p) => Called(m, p)
               /\ Called(m, p) => <<m, p>> \in picked
               /\ Target(m, p) => <<m, p>> \in picked \ handled /\ p \notin pending[m] /\ ~Called(m, p)
               /\ p \in pending[m] => <<m, p>> \in picked \ handled /\ ~Called(m, p)
               /\ <<m, p>> \in picked => <<m, p>> \in handled \/ Target(m, p) \/ p \in pending[m] \/ Unfinished(m, p)
               /\ <<m, p>> \in handled => <<m, p>> \in picked
    <3>1. Place(m, p)
      BY PlaceAt
    <3>2. (Unfinished(m, p) => Called(m, p)) /\ (Called(m, p) => <<m, p>> \in picked)
      BY DEF Places, Deliveries, JobsInv, CallOK, Called, Unfinished
    <3>3. <<m, p>> \in handled => <<m, p>> \in picked
      BY DEF Places, Deliveries, PickedInv
    <3> QED BY <3>1, <3>2, <3>3, Zenon DEF Place
  <2>4. ASSUME NEW d \in Members \X Msgs
        PROVE  /\ d \in picked <=> d \in Waiting \cup Outstanding \cup handled
               /\ ~(d \in Waiting /\ d \in Outstanding)
               /\ ~(d \in InHand /\ d \in Filling \cup Running)
               /\ ~(d \in Filling /\ d \in Running)
               /\ ~(d \in handled /\ d \in Waiting \cup InHand \cup Filling)
    <3>1. PICK m \in Members, p \in Msgs : d = <<m, p>>
      OBVIOUS
    <3> QED BY <2>1, <2>3, <3>1 DEF Outstanding
  <2>5. \A j, k \in jobs : j.to = k.to /\ j # k => j.batch \cap k.batch = {}
    <3>1. \A j \in jobs : j.batch \subseteq Msgs
      BY JobType DEF Types, DeliveryTypes
    <3> QED BY <3>1 DEF Places, Deliveries, JobsInv
  <2>6. picked = Waiting \cup Outstanding \cup handled
    BY <2>2, <2>4 DEF Outstanding
  <2>7. /\ Waiting \cap Outstanding = {} /\ InHand \cap (Filling \cup Running) = {}
        /\ Filling \cap Running = {}
        /\ \A d \in handled : d \notin Waiting \cup InHand \cup Filling
    BY <2>2, <2>4
  <2> QED BY <2>5, <2>6, <2>7, Zenon DEF NothingLost
<1> QED BY <1>1, PlacesInvariant, PTL

-----------------------------------------------------------------------------
(***************************************************************************)
(* The batchers: the size of a batch, and that something will hand it over.*)
(***************************************************************************)
BatchSizes ==
    /\ \A m \in Members : pending[m] # {} => m \in Batched
    /\ \A j \in jobs : Cardinality(j.batch) <= (IF j.to \in Batched THEN Max ELSE 1)

\* Adding a message to a batch that is not full makes it full at most.
LEMMA AddSize ==
    ASSUME Types, NoStrandedBatch, NEW m \in Members, NEW p \in Msgs
    PROVE  /\ Cardinality(pending[m] \cup {p}) \in Nat
           /\ Cardinality(pending[m] \cup {p}) <= Max
           /\ pending[m] = {} => Cardinality(pending[m] \cup {p}) = 1
           /\ Cardinality({p}) = 1 /\ Cardinality(pending[m]) \in Nat
<1>1. IsFiniteSet(pending[m])
  <2>1. pending[m] \subseteq Msgs
    BY DEF Types, BatchTypes
  <2> QED BY <2>1, FiniteAssumption, FS_Subset
<1>2. Cardinality(pending[m]) \in Nat /\ Cardinality(pending[m]) < Max
  BY <1>1, FS_CardinalityType DEF NoStrandedBatch
<1>3. /\ Cardinality(pending[m] \cup {p}) = IF p \in pending[m] THEN Cardinality(pending[m])
                                                              ELSE Cardinality(pending[m]) + 1
  BY <1>1, FS_AddElement, Zenon
<1>4. Cardinality({p}) = 1
  BY FS_Singleton
<1>5. pending[m] = {} => Cardinality(pending[m] \cup {p}) = 1
  <2>1. pending[m] = {} => pending[m] \cup {p} = {p}
    OBVIOUS
  <2> QED BY <1>4, <2>1
<1>6. Cardinality(pending[m] \cup {p}) \in Nat /\ Cardinality(pending[m] \cup {p}) <= Max
  BY <1>2, <1>3, MaxAssumption
<1> QED BY <1>2, <1>4, <1>5, <1>6

\* A step strands no batch.
LEMMA NoStrandedBatchNext == Types /\ NoStrandedBatch /\ [Next]_vars => NoStrandedBatch'
<1> SUFFICES ASSUME Types, NoStrandedBatch, [Next]_vars PROVE NoStrandedBatch'
  OBVIOUS
<1>1. Cardinality({}) = 0
  BY FS_EmptySet
<1>2. ASSUME NEW m \in Members, stop(m) \/ expire(m) PROVE NoStrandedBatch'
  <2> SUFFICES ASSUME NEW n \in Members
               PROVE  /\ pending'[n] # {} => ~stopped'[n] /\ (timer'[n] = "armed" \/ expiring'[n] > 0)
                      /\ Cardinality(pending'[n]) < Max
    BY DEF NoStrandedBatch
  <2>1. CASE n = m
    <3>1. pending'[n] = {}
      BY <1>2, <2>1 DEF stop, expire, take, Types, BatchTypes
    <3>2. 0 < Max
      BY MaxAssumption
    <3> QED BY <1>1, <3>1, <3>2
  <2>2. CASE n # m
    <3>1. /\ pending'[n] = pending[n] /\ timer'[n] = timer[n]
          /\ expiring'[n] = expiring[n] /\ stopped'[n] = stopped[n]
      BY <1>2, <2>2 DEF stop, expire, take, Types, BatchTypes
    <3> QED BY <3>1 DEF NoStrandedBatch
  <2> QED BY <2>1, <2>2
<1>3. ASSUME NEW m \in Members, FireTimer(m) PROVE NoStrandedBatch'
  BY <1>3 DEF FireTimer, Types, BatchTypes, NoStrandedBatch
<1>4. ASSUME NEW p \in Msgs, HandOver(p) PROVE NoStrandedBatch'
  <2> DEFINE m == Head(targets[p])
  <2>1. CASE UNCHANGED batchVars
    BY <2>1 DEF NoStrandedBatch, batchVars
  <2>2. CASE add(m, p) /\ m \in Members
    <3> SUFFICES ASSUME NEW n \in Members
                 PROVE  /\ pending'[n] # {} => ~stopped'[n] /\ (timer'[n] = "armed" \/ expiring'[n] > 0)
                        /\ Cardinality(pending'[n]) < Max
      BY DEF NoStrandedBatch
    <3> HIDE DEF m
    <3>1. CASE n # m
      <4>1. /\ pending'[n] = pending[n] /\ timer'[n] = timer[n]
            /\ expiring'[n] = expiring[n] /\ stopped'[n] = stopped[n]
        BY <2>2, <3>1 DEF add, take, Types, BatchTypes
      <4> QED BY <4>1 DEF NoStrandedBatch
    <3>2. CASE n = m /\ (stopped[m] \/ Cardinality(pending[m] \cup {p}) >= Max)
      <4>1. pending'[n] = {}
        BY <2>2, <3>2 DEF add, take, Types, BatchTypes
      <4> QED BY <1>1, <4>1, MaxAssumption
    <3>3. CASE n = m /\ ~(stopped[m] \/ Cardinality(pending[m] \cup {p}) >= Max)
      <4>1. /\ pending' = [pending EXCEPT ![m] = pending[m] \cup {p}] /\ UNCHANGED <<expiring, stopped>>
            /\ timer' = IF Cardinality(pending[m] \cup {p}) = 1 THEN [timer EXCEPT ![m] = "armed"] ELSE timer
        BY <2>2, <3>3 DEF add
      <4>2. /\ Cardinality(pending[m] \cup {p}) \in Nat
            /\ pending[m] = {} => Cardinality(pending[m] \cup {p}) = 1
        BY <2>2, AddSize, Zenon
      <4>3. pending[m] # {} => timer[m] = "armed" \/ expiring[m] > 0
        BY <2>2 DEF NoStrandedBatch
      <4>4. timer'[m] = "armed" \/ expiring'[m] > 0
        BY <2>2, <4>1, <4>2, <4>3 DEF Types, BatchTypes
      <4>5. pending'[m] = pending[m] \cup {p}
        BY <2>2, <4>1 DEF Types, BatchTypes
      <4>6. Cardinality(pending'[m]) < Max
        BY <3>3, <4>2, <4>5, MaxAssumption
      <4>7. ~stopped'[n]
        BY <3>3, <4>1
      <4>8. n = m
        BY <3>3
      <4> QED BY <4>4, <4>6, <4>7, <4>8
    <3> QED BY <3>1, <3>2, <3>3
  <2>3. m \in Batched => m \in Members
    BY MembersAssumption
  <2> QED BY <1>4, <2>1, <2>2, <2>3 DEF HandOver
<1>5. CASE UNCHANGED batchVars
  BY <1>5 DEF NoStrandedBatch, batchVars
<1>6. ASSUME NEW m \in Members, register(m) \/ EndContext(m) \/ SetDone(m) PROVE NoStrandedBatch'
  BY <1>5, <1>6 DEF register, EndContext, SetDone
<1>7. ASSUME NEW p \in Msgs, StartPublish(p) \/ PublishStep(p) PROVE NoStrandedBatch'
  <2>1. HandOver(p) \/ UNCHANGED batchVars
    BY <1>7, Zenon DEF StartPublish, PublishStep, pick, Unlock, begin, Return
  <2> QED BY <1>4, <1>5, <2>1
<1>8. ASSUME NEW j \in jobs, HandlerReturns(j) \/ finish(j) PROVE NoStrandedBatch'
  BY <1>5, <1>8 DEF HandlerReturns, finish
<1>9. ASSUME NEW d \in Drainers, CallDrain(d) \/ WakeDrain(d) PROVE NoStrandedBatch'
  BY <1>5, <1>9 DEF CallDrain, WakeDrain
<1>10. ASSUME UNCHANGED vars PROVE NoStrandedBatch'
  BY <1>5, <1>10 DEF vars
<1> QED
  BY <1>2, <1>3, <1>6, <1>7, <1>8, <1>9, <1>10 DEF Next

\* No message is stranded in a batch: add arms the timer with the first message of a batch,
\* and stop and a fired timer's expire empty it (memory.go).
THEOREM NoStrandedBatchTheorem == Spec => []NoStrandedBatch
<1>1. Init => NoStrandedBatch
  BY FS_EmptySet, MaxAssumption DEF Init, NoStrandedBatch
<1> QED BY <1>1, NoStrandedBatchNext, TypesInvariant, PTL DEF Spec

\* A step keeps the sizes of the handler calls.
LEMMA BatchSizesNext == Types /\ NoStrandedBatch /\ BatchSizes /\ [Next]_vars => BatchSizes'
<1> SUFFICES ASSUME Types, NoStrandedBatch, BatchSizes, [Next]_vars PROVE BatchSizes'
  OBVIOUS
<1>1. ASSUME NEW m \in Members, NEW batch \in SUBSET Msgs, startHandle(m, batch),
             batch # {} => Cardinality(batch) <= (IF m \in Batched THEN Max ELSE 1)
      PROVE  \A j \in jobs' : Cardinality(j.batch) <= (IF j.to \in Batched THEN Max ELSE 1)
  <2> DEFINE c == call(m, batch, batch, "running")
  <2>1. c.to = m /\ c.batch = batch
    BY DEF call
  <2>2. \A j \in jobs' : j \in jobs \/ (j = c /\ batch # {})
    BY <1>1 DEF startHandle
  <2> QED BY <1>1, <2>1, <2>2 DEF BatchSizes
<1>2. ASSUME NEW m \in Members, stop(m) \/ expire(m) PROVE BatchSizes'
  <2>1. /\ \A n \in Members : pending'[n] = {} \/ pending'[n] = pending[n]
        /\ startHandle(m, pending[m]) /\ pending[m] \in SUBSET Msgs
    BY <1>2 DEF stop, expire, take, Types, BatchTypes
  <2>2. Cardinality(pending[m]) \in Nat /\ Cardinality(pending[m]) < Max
    BY <2>1, FiniteAssumption, FS_Subset, FS_CardinalityType DEF NoStrandedBatch
  <2>3. pending[m] # {} => Cardinality(pending[m]) <= (IF m \in Batched THEN Max ELSE 1)
    BY <2>2, MaxAssumption DEF BatchSizes
  <2> QED BY <1>1, <2>1, <2>3 DEF BatchSizes
<1>3. ASSUME NEW p \in Msgs, HandOver(p) PROVE BatchSizes'
  <2> DEFINE m == Head(targets[p])
  <2>1. m \in Members
    BY <1>3 DEF HandOver, Types, PublishTypes, HasTarget
  <2>2. /\ Cardinality(pending[m] \cup {p}) <= Max /\ Cardinality({p}) = 1
        /\ pending[m] \cup {p} \in SUBSET Msgs
    BY <2>1, AddSize, Zenon DEF Types, BatchTypes
  <2>3. CASE m \notin Batched
    <3>1. startHandle(m, {p}) /\ pending' = pending
      BY <1>3, <2>3 DEF HandOver, batchVars
    <3> QED BY <1>1, <2>1, <2>2, <2>3, <3>1 DEF BatchSizes
  <2>4. CASE m \in Batched /\ (stopped[m] \/ Cardinality(pending[m] \cup {p}) >= Max)
    <3>1. /\ startHandle(m, pending[m] \cup {p})
          /\ \A n \in Members : pending'[n] = {} \/ pending'[n] = pending[n]
      BY <1>3, <2>4 DEF HandOver, add, take, Types, BatchTypes
    <3> HIDE DEF m
    <3> QED BY <1>1, <2>1, <2>2, <2>4, <3>1 DEF BatchSizes
  <2>5. CASE m \in Batched /\ ~(stopped[m] \/ Cardinality(pending[m] \cup {p}) >= Max)
    <3>1. /\ UNCHANGED jobs
          /\ \A n \in Members : n = m \/ pending'[n] = pending[n]
      BY <1>3, <2>5 DEF HandOver, add, Types, BatchTypes
    <3> HIDE DEF m
    <3> QED BY <2>5, <3>1 DEF BatchSizes
  <2> QED BY <2>3, <2>4, <2>5
<1>4. ASSUME NEW j \in jobs, HandlerReturns(j) PROVE BatchSizes'
  <2> DEFINE c == call(j.to, j.batch, j.left, "returned")
  <2>1. c.to = j.to /\ c.batch = j.batch
    BY DEF call
  <2>2. UNCHANGED pending /\ \A k \in jobs' : k \in jobs \/ k = c
    BY <1>4 DEF HandlerReturns, batchVars
  <2> QED BY <2>1, <2>2 DEF BatchSizes
<1>5. ASSUME NEW j \in jobs, finish(j) PROVE BatchSizes'
  <2>1. PICK p \in j.left : \A k \in jobs' : k \in jobs \/ k = call(j.to, j.batch, j.left \ {p}, j.state)
    BY <1>5, Zenon DEF finish
  <2> DEFINE c == call(j.to, j.batch, j.left \ {p}, j.state)
  <2>2. c.to = j.to /\ c.batch = j.batch
    BY DEF call
  <2>3. UNCHANGED pending
    BY <1>5 DEF finish, batchVars
  <2> QED BY <2>1, <2>2, <2>3 DEF BatchSizes
<1>6. CASE UNCHANGED <<pending, jobs>>
  BY <1>6 DEF BatchSizes
<1>7. ASSUME NEW m \in Members, register(m) \/ EndContext(m) \/ SetDone(m) \/ FireTimer(m) PROVE BatchSizes'
  <2>1. UNCHANGED <<pending, jobs>>
    BY <1>7 DEF register, EndContext, SetDone, FireTimer, batchVars
  <2> QED BY <1>6, <2>1
<1>8. ASSUME NEW p \in Msgs, StartPublish(p) \/ PublishStep(p) PROVE BatchSizes'
  <2>1. HandOver(p) \/ UNCHANGED <<batchVars, jobs>>
    BY <1>8, Zenon DEF StartPublish, PublishStep, pick, Unlock, begin, Return
  <2> QED BY <1>3, <1>6, <2>1 DEF batchVars
<1>9. ASSUME NEW d \in Drainers, CallDrain(d) \/ WakeDrain(d) PROVE BatchSizes'
  <2>1. UNCHANGED <<pending, jobs>>
    BY <1>9, Zenon DEF CallDrain, WakeDrain, batchVars
  <2> QED BY <1>6, <2>1
<1>10. ASSUME UNCHANGED vars PROVE BatchSizes'
  BY <1>6, <1>10 DEF vars, batchVars
<1> QED
  BY <1>2, <1>4, <1>5, <1>7, <1>8, <1>9, <1>10 DEF Next

\* pick returns one member of a group per publish call, and add hands a batch over as soon as
\* it is full (memory.go): a message goes to one member of a group at most, and a handler gets
\* Max messages at most.
THEOREM OnePerGroupTheorem == Spec => []OnePerGroup
<1>1. Init => BatchSizes
  BY DEF Init, BatchSizes
<1>2. Types /\ Places /\ BatchSizes => OnePerGroup
  <2> SUFFICES ASSUME Types, Places, BatchSizes PROVE OnePerGroup
    OBVIOUS
  <2>1. ASSUME NEW d \in picked, NEW e \in picked, d[2] = e[2], GroupOf[d[1]] = GroupOf[e[1]]
        PROVE  d = e
    <3>1. PICK m \in Members, p \in Msgs : d = <<m, p>>
      BY DEF Types, DeliveryTypes
    <3>2. PICK n \in Members, q \in Msgs : e = <<n, q>>
      BY DEF Types, DeliveryTypes
    <3> QED BY <2>1, <3>1, <3>2 DEF Places, Deliveries, PickedInv
  <2> QED BY <2>1 DEF OnePerGroup, BatchSizes
<1> QED
  BY <1>1, <1>2, BatchSizesNext, NoStrandedBatchTheorem, TypesInvariant, PlacesInvariant, PTL DEF Spec

-----------------------------------------------------------------------------
(***************************************************************************)
(* The count, and Drain.                                                   *)
(***************************************************************************)
\* Publish call p has counted the delivery to m and not yet handed it over.
Counted(m, p) == pc[p] = "begun" /\ m = Head(targets[p])

\* A delivery is outstanding when it is counted, in a filling batch or unfinished, now and in
\* the next state.
LEMMA OutstandingAt ==
    ASSUME NEW m \in Members, NEW p \in Msgs
    PROVE  /\ <<m, p>> \in Outstanding <=> Counted(m, p) \/ p \in pending[m] \/ Unfinished(m, p)
           /\ <<m, p>> \in Outstanding' <=> Counted(m, p)' \/ p \in pending'[m] \/ Unfinished(m, p)'
<1>1. (<<m, p>> \in InHand <=> Counted(m, p)) /\ (<<m, p>> \in InHand' <=> Counted(m, p)')
  BY DEF InHand, Counted
<1>2. (<<m, p>> \in Filling <=> p \in pending[m]) /\ (<<m, p>> \in Filling' <=> p \in pending'[m])
  BY DEF Filling
<1>3. (<<m, p>> \in Running <=> Unfinished(m, p)) /\ (<<m, p>> \in Running' <=> Unfinished(m, p)')
  BY DEF Running, Unfinished
<1> QED BY <1>1, <1>2, <1>3 DEF Outstanding

LEMMA OutstandingType == Outstanding \subseteq Members \X Msgs /\ Outstanding' \subseteq Members \X Msgs
  BY DEF Outstanding, InHand, Filling, Running

\* begin adds one delivery.
LEMMA BeginOutstanding ==
    ASSUME Types, Places, NEW p \in Msgs, begin(p)
    PROVE  \E d \in (Members \X Msgs) \ Outstanding : Outstanding' = Outstanding \cup {d}
<1> DEFINE m == Head(targets[p])
<1>1. /\ pc[p] = "delivering" /\ targets[p] # <<>> /\ pc' = [pc EXCEPT ![p] = "begun"]
      /\ UNCHANGED <<targets, pending, jobs>>
  BY DEF begin, batchVars
<1>2. m \in Members /\ p \notin pending[m] /\ ~Unfinished(m, p)
  BY <1>1, CountedOnce, Zenon
<1>3. \A n \in Members, q \in Msgs : Counted(n, q)' <=> Counted(n, q) \/ (n = m /\ q = p)
  BY <1>1 DEF Counted, Types, PublishTypes
<1>4. \A n \in Members, q \in Msgs : Unfinished(n, q)' <=> Unfinished(n, q)
  BY <1>1 DEF Unfinished
<1>5. ~Counted(m, p)
  BY <1>1 DEF Counted
<1> HIDE DEF m
<1>6. <<m, p>> \in (Members \X Msgs) \ Outstanding
  BY <1>2, <1>5, OutstandingAt
<1>7. ASSUME NEW n \in Members, NEW q \in Msgs
      PROVE  <<n, q>> \in Outstanding' <=> <<n, q>> \in Outstanding \cup {<<m, p>>}
  BY <1>1, <1>3, <1>4, OutstandingAt, Zenon
<1>8. Outstanding' = Outstanding \cup {<<m, p>>}
  BY <1>2, <1>7, OutstandingType
<1> QED BY <1>6, <1>8

\* A batch given up moves its messages to a handler call.
LEMMA GiveUpOutstanding ==
    ASSUME Types, Places, NEW m \in Members, take(m), startHandle(m, pending[m]),
           UNCHANGED <<publishVars, picked, handled>>
    PROVE  Outstanding' = Outstanding
<1>1. UNCHANGED <<pc, targets, picked, handled>>
  BY DEF publishVars
<1>2. ASSUME NEW n \in Members, NEW q \in Msgs PROVE <<n, q>> \in Outstanding' <=> <<n, q>> \in Outstanding
  <2>1. /\ q \in pending'[n] <=> q \in pending[n] /\ n # m
        /\ Unfinished(n, q)' <=> (Unfinished(n, q) \/ (n = m /\ q \in pending[n]))
    BY <1>1, GiveUpEffect, Zenon
  <2>2. Counted(n, q)' <=> Counted(n, q)
    BY <1>1 DEF Counted
  <2> QED BY <2>1, <2>2, OutstandingAt, Zenon
<1> QED BY <1>2, OutstandingType

\* HandOver moves the delivery counted to a batch or to a handler call.
LEMMA HandOverOutstanding ==
    ASSUME Types, Places, NEW p \in Msgs, HandOver(p)
    PROVE  Outstanding' = Outstanding
<1>1. /\ pc[p] = "begun" /\ pc' = [pc EXCEPT ![p] = "delivering"]
      /\ targets' = [targets EXCEPT ![p] = Tail(@)]
  BY DEF HandOver
<1>2. PICK m : m = Head(targets[p])
  OBVIOUS
<1>3. \A q \in Msgs : /\ q # p => pc'[q] = pc[q] /\ targets'[q] = targets[q]
                      /\ q = p => pc'[q] = "delivering"
  BY <1>1 DEF Types, PublishTypes
<1>4. ASSUME NEW n \in Members, NEW q \in Msgs PROVE <<n, q>> \in Outstanding' <=> <<n, q>> \in Outstanding
  <2>1. q \in pending'[n] \/ Unfinished(n, q)' <=> q \in pending[n] \/ Unfinished(n, q) \/ (n = m /\ q = p)
    BY <1>2, HandOverEffect, Zenon
  <2>2. Counted(n, q) <=> Counted(n, q)' \/ (n = m /\ q = p)
    BY <1>1, <1>2, <1>3 DEF Counted
  <2> QED BY <2>1, <2>2, OutstandingAt
<1> QED BY <1>4, OutstandingType

\* finish takes one delivery, handled, away.
LEMMA FinishOutstanding ==
    ASSUME Types, Places, NEW j \in jobs, finish(j)
    PROVE  \E d \in Outstanding \cap handled : Outstanding' = Outstanding \ {d}
<1>1. PICK p \in j.left :
             /\ Unfinished(j.to, p) /\ <<j.to, p>> \in handled
             /\ \A n \in Members, q \in Msgs :
                   Unfinished(n, q)' <=> Unfinished(n, q) /\ ~(n = j.to /\ q = p)
  BY FinishEffect, Zenon
<1>2. j.to \in Members /\ p \in Msgs
  BY JobType DEF Types, DeliveryTypes
<1>3. UNCHANGED <<pc, targets, pending>>
  BY DEF finish, publishVars, batchVars
<1>4. \A n \in Members, q \in Msgs : Counted(n, q)' <=> Counted(n, q)
  BY <1>3 DEF Counted
<1>5. ~Counted(j.to, p) /\ p \notin pending[j.to]
  <2>1. p \notin pending[j.to]
    BY <1>1, <1>2, PlaceAt DEF Place
  <2>2. pc[p] = "begun" => targets[p] # <<>>
    BY <1>2 DEF Types, HasTarget
  <2>3. ~Counted(j.to, p)
    BY <1>1, <2>2, CountedOnce, <1>2 DEF Counted
  <2> QED BY <2>1, <2>3
<1>6. <<j.to, p>> \in Outstanding \cap handled
  BY <1>1, <1>2, OutstandingAt
<1>7. ASSUME NEW n \in Members, NEW q \in Msgs
      PROVE  <<n, q>> \in Outstanding' <=> <<n, q>> \in Outstanding \ {<<j.to, p>>}
  <2>1. Unfinished(n, q)' <=> Unfinished(n, q) /\ ~(n = j.to /\ q = p)
    BY <1>1
  <2>2. (Counted(n, q)' <=> Counted(n, q)) /\ pending'[n] = pending[n]
    BY <1>3, <1>4
  <2>3. n = j.to /\ q = p => ~Counted(n, q) /\ q \notin pending[n]
    BY <1>5
  <2> QED BY <2>1, <2>2, <2>3, OutstandingAt
<1>8. Outstanding' = Outstanding \ {<<j.to, p>>}
  BY <1>7, OutstandingType
<1> QED BY <1>6, <1>8

\* The count moves with the deliveries outstanding, and a delivery leaves them handled.
Kept == inflight' = inflight /\ Outstanding' = Outstanding
Added == inflight' = inflight + 1 /\ \E d \in (Members \X Msgs) \ Outstanding : Outstanding' = Outstanding \cup {d}
Removed == inflight' = inflight - 1 /\ \E d \in Outstanding \cap handled : Outstanding' = Outstanding \ {d}

LEMMA OutstandingNext == Types /\ Places /\ [Next]_vars => Kept \/ Added \/ Removed
<1> SUFFICES ASSUME Types, Places, [Next]_vars PROVE Kept \/ Added \/ Removed
  OBVIOUS
<1>1. ASSUME NEW p \in Msgs, begin(p) PROVE Added
  <2>1. inflight' = inflight + 1
    BY <1>1 DEF begin
  <2> QED BY <1>1, <2>1, BeginOutstanding DEF Added
<1>2. ASSUME NEW p \in Msgs, HandOver(p) PROVE Kept
  <2>1. inflight' = inflight
    BY <1>2 DEF HandOver
  <2> QED BY <1>2, <2>1, HandOverOutstanding DEF Kept
<1>3. ASSUME NEW m \in Members, stop(m) \/ expire(m) PROVE Kept
  <2>1. take(m) /\ startHandle(m, pending[m]) /\ UNCHANGED <<publishVars, picked, handled>> /\ inflight' = inflight
    BY <1>3 DEF stop, expire
  <2> QED BY <2>1, GiveUpOutstanding DEF Kept
<1>4. ASSUME NEW j \in jobs, finish(j) PROVE Removed
  <2>1. inflight' = inflight - 1
    BY <1>4 DEF finish
  <2> QED BY <1>4, <2>1, FinishOutstanding DEF Removed
<1>5. ASSUME NEW j \in jobs, HandlerReturns(j) PROVE Kept
  <2> DEFINE c == call(j.to, j.batch, j.left, "returned")
  <2>1. c.to = j.to /\ c.left = j.left
    BY DEF call
  <2>2. jobs' = (jobs \ {j}) \cup {c} /\ UNCHANGED <<pc, targets, pending, inflight>>
    BY <1>5 DEF HandlerReturns, publishVars, batchVars
  <2>3. \A n \in Members, q \in Msgs : (Unfinished(n, q)' <=> Unfinished(n, q)) /\ (Counted(n, q)' <=> Counted(n, q))
    BY <2>1, <2>2 DEF Unfinished, Counted
  <2>4. ASSUME NEW n \in Members, NEW q \in Msgs PROVE <<n, q>> \in Outstanding' <=> <<n, q>> \in Outstanding
    BY <2>2, <2>3, OutstandingAt
  <2> QED BY <2>2, <2>4, OutstandingType DEF Kept
<1>6. ASSUME UNCHANGED <<pc, targets, pending, jobs, inflight>> PROVE Kept
  BY <1>6 DEF Kept, Outstanding, InHand, Filling, Running
<1>7. ASSUME NEW p \in Msgs, StartPublish(p) \/ (\E g \in Groups : pick(p, g)) \/ Unlock(p) \/ Return(p) PROVE Kept
  <2>1. UNCHANGED <<pending, jobs, inflight>>
    BY <1>7, Zenon DEF StartPublish, pick, Unlock, Return, batchVars
  <2>2. \A n \in Members, q \in Msgs : Counted(n, q)' <=> Counted(n, q)
    <3>1. /\ pc[p] # "begun" /\ pc'[p] # "begun"
          /\ \A q \in Msgs \ {p} : pc'[q] = pc[q] /\ targets'[q] = targets[q]
      BY <1>7, Zenon DEF StartPublish, pick, Unlock, Return, Types, PublishTypes
    <3> QED BY <3>1 DEF Counted
  <2>3. \A n \in Members, q \in Msgs : Unfinished(n, q)' <=> Unfinished(n, q)
    BY <2>1 DEF Unfinished
  <2>4. ASSUME NEW n \in Members, NEW q \in Msgs PROVE <<n, q>> \in Outstanding' <=> <<n, q>> \in Outstanding
    BY <2>1, <2>2, <2>3, OutstandingAt, Zenon
  <2> QED BY <2>1, <2>4, OutstandingType DEF Kept
<1>8. ASSUME NEW m \in Members, register(m) \/ EndContext(m) \/ SetDone(m) \/ FireTimer(m) PROVE Kept
  BY <1>6, <1>8 DEF register, EndContext, SetDone, FireTimer, publishVars, batchVars
<1>9. ASSUME NEW d \in Drainers, CallDrain(d) \/ WakeDrain(d) PROVE Kept
  BY <1>6, <1>9, Zenon DEF CallDrain, WakeDrain, publishVars, batchVars
<1>10. ASSUME UNCHANGED vars PROVE Kept
  BY <1>6, <1>10 DEF vars, publishVars, batchVars
<1> QED
  BY <1>1, <1>2, <1>3, <1>4, <1>5, <1>7, <1>8, <1>9, <1>10 DEF Next, PublishStep

\* Members and messages are finite, so the deliveries outstanding are.
LEMMA OutstandingFinite == IsFiniteSet(Outstanding) /\ Cardinality(Outstanding) \in Nat
<1>1. IsFiniteSet(Members \X Msgs)
  BY FiniteAssumption, FS_Product
<1>2. IsFiniteSet(Outstanding)
  BY <1>1, OutstandingType, FS_Subset
<1> QED BY <1>2, FS_CardinalityType

\* Transport.inflight (memory.go) is the number of deliveries that begin has counted and that
\* finish has not yet taken away.
THEOREM InflightExactTheorem == Spec => []InflightExact
<1>1. Init => InflightExact
  <2> SUFFICES ASSUME Init PROVE InflightExact
    OBVIOUS
  <2>1. Outstanding = {}
    BY DEF Init, Outstanding, InHand, Filling, Running
  <2> QED BY <2>1, FS_EmptySet DEF Init, InflightExact
<1>2. Types /\ Places /\ InflightExact /\ [Next]_vars => InflightExact'
  <2> SUFFICES ASSUME Types, Places, InflightExact, [Next]_vars PROVE InflightExact'
    OBVIOUS
  <2>1. CASE inflight' = inflight /\ Outstanding' = Outstanding
    BY <2>1 DEF InflightExact
  <2>2. ASSUME inflight' = inflight + 1, NEW d \in (Members \X Msgs) \ Outstanding, Outstanding' = Outstanding \cup {d}
        PROVE  InflightExact'
    <3>1. Cardinality(Outstanding') = Cardinality(Outstanding) + 1
      BY <2>2, OutstandingFinite, FS_AddElement
    <3> QED BY <2>2, <3>1 DEF InflightExact
  <2>3. ASSUME inflight' = inflight - 1, NEW d \in Outstanding, Outstanding' = Outstanding \ {d}
        PROVE  InflightExact'
    <3>1. Cardinality(Outstanding') = Cardinality(Outstanding) - 1
      BY <2>3, OutstandingFinite, FS_RemoveElement
    <3> QED BY <2>3, <3>1 DEF InflightExact
  <2> QED BY <2>1, <2>2, <2>3, OutstandingNext DEF Kept, Added, Removed
<1> QED BY <1>1, <1>2, PlacesInvariant, PTL DEF Spec

\* Type correctness of the transport's fields, the count being a natural number among them.
THEOREM TypeOKTheorem == Spec => []TypeOK
<1>1. Types /\ InflightExact => TypeOK
  BY OutstandingFinite DEF Types, InflightExact, TypeOK
<1> QED BY <1>1, TypesInvariant, InflightExactTheorem, PTL

-----------------------------------------------------------------------------
\* What Drain owes a caller is under way or handled, and handled once it has returned.
OwedInv ==
    /\ \A d \in Drainers : owed[d] \subseteq Outstanding \cup handled
    /\ DrainJoins

LEMMA OwedInvNext == Types /\ Places /\ InflightExact /\ OwedInv /\ [Next]_vars => OwedInv'
<1> SUFFICES ASSUME Types, Places, InflightExact, OwedInv, [Next]_vars PROVE OwedInv'
  OBVIOUS
<1>1. Outstanding \cup handled \subseteq Outstanding' \cup handled' /\ handled \subseteq handled'
  <2>1. handled \subseteq handled'
    BY Zenon DEF Next, PublishStep, vars, register, EndContext, SetDone, stop, FireTimer, expire, StartPublish, pick,
       Unlock, begin, HandOver, Return, HandlerReturns, finish, CallDrain, WakeDrain
  <2> QED BY <2>1, OutstandingNext DEF Kept, Added, Removed
<1>2. inflight > 0 \/ Outstanding = {}
  <2>1. Cardinality(Outstanding) = 0 => Outstanding = {}
    BY OutstandingFinite, FS_EmptySet
  <2> QED BY <2>1, OutstandingFinite DEF InflightExact
<1>3. ASSUME NEW d \in Drainers, CallDrain(d) PROVE OwedInv'
  <2> DEFINE due == {e \in picked : pc[e[2]] = "returned"}
  <2>1. due \subseteq Outstanding \cup handled
    <3> SUFFICES ASSUME NEW m \in Members, NEW p \in Msgs, <<m, p>> \in picked, pc[p] = "returned"
                 PROVE  <<m, p>> \in Outstanding \cup handled
      BY DEF Types, DeliveryTypes
    <3>1. ~Target(m, p)
      <4>1. targets[p] = <<>>
        BY DEF Places, Deliveries, PickedInv
      <4> QED BY <4>1 DEF Target
    <3>2. <<m, p>> \in handled \/ p \in pending[m] \/ Unfinished(m, p)
      BY <3>1, PlaceAt DEF Place
    <3> QED BY <3>2, OutstandingAt, Zenon
  <2>2. /\ owed' = [owed EXCEPT ![d] = Outstanding \cup due]
        /\ drain' = [drain EXCEPT ![d] = IF inflight > 0 THEN "waiting" ELSE "returned"]
    BY <1>3 DEF CallDrain
  <2> HIDE DEF due
  <2>3. ASSUME NEW e \in Drainers
        PROVE  owed'[e] \subseteq Outstanding \cup handled /\ (drain'[e] = "returned" => owed'[e] \subseteq handled)
    BY <1>2, <2>1, <2>2 DEF OwedInv, DrainJoins, Types, DrainTypes
  <2> QED BY <1>1, <2>3 DEF OwedInv, DrainJoins
<1>4. ASSUME NEW d \in Drainers, WakeDrain(d) PROVE OwedInv'
  <2>1. ASSUME NEW e \in Drainers
        PROVE  owed'[e] \subseteq Outstanding \cup handled /\ (drain'[e] = "returned" => owed'[e] \subseteq handled)
    BY <1>2, <1>4 DEF WakeDrain, OwedInv, DrainJoins, Types, DrainTypes
  <2> QED BY <1>1, <2>1 DEF OwedInv, DrainJoins
<1>5. ASSUME UNCHANGED owed, \A e \in Drainers : drain'[e] = "returned" => drain[e] = "returned"
      PROVE  OwedInv'
  BY <1>1, <1>5 DEF OwedInv, DrainJoins
<1>6. ASSUME NEW j \in jobs, finish(j) PROVE OwedInv'
  <2>1. UNCHANGED owed /\ \A e \in Drainers : drain'[e] = "returned" => drain[e] = "returned"
    BY <1>6 DEF finish
  <2> QED BY <1>5, <2>1
<1>7. ASSUME UNCHANGED drainVars PROVE OwedInv'
  BY <1>5, <1>7 DEF drainVars
<1>8. ASSUME NEW m \in Members,
             register(m) \/ EndContext(m) \/ SetDone(m) \/ stop(m) \/ FireTimer(m) \/ expire(m)
      PROVE  OwedInv'
  BY <1>7, <1>8, Zenon DEF register, EndContext, SetDone, stop, FireTimer, expire
<1>9. ASSUME NEW p \in Msgs, StartPublish(p) \/ PublishStep(p) PROVE OwedInv'
  <2>1. UNCHANGED drainVars
    BY <1>9, Zenon DEF StartPublish, PublishStep, pick, Unlock, begin, HandOver, Return
  <2> QED BY <1>7, <2>1
<1>10. ASSUME NEW j \in jobs, HandlerReturns(j) PROVE OwedInv'
  BY <1>7, <1>10, Zenon DEF HandlerReturns
<1>11. ASSUME UNCHANGED vars PROVE OwedInv'
  BY <1>7, <1>11 DEF vars
<1> QED
  BY <1>3, <1>4, <1>6, <1>8, <1>9, <1>10, <1>11 DEF Next

\* When Drain (memory.go) returns, the handlers of the deliveries started before it was called
\* and of every publish that had returned by then have returned.
THEOREM DrainJoinsTheorem == Spec => []DrainJoins
<1>1. Init => OwedInv
  BY DEF Init, OwedInv, DrainJoins
<1>2. OwedInv => DrainJoins
  BY Zenon DEF OwedInv
<1> QED
  BY <1>1, <1>2, OwedInvNext, TypesInvariant, PlacesInvariant, InflightExactTheorem, PTL DEF Spec
=============================================================================
