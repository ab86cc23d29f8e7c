------------------------ MODULE JetStreamGroupsProofs ------------------------
(***************************************************************************)
(* What holds of the groups a JetStream transport consumes for any number  *)
(* of Subscribe calls, groups and Close calls: until Close a group has one *)
(* consumer in the process and one holder, whose to give up it is, and     *)
(* ErrConsumerStopped is reported only for a consumer that was lost.       *)
(***************************************************************************)
EXTENDS JetStreamGroups, TLAPS

\* A call that has reserved its groups and has some left to start.
Active == {"looking", "starting", "attaching", "failing"}

\* The consumer of a registration was started, and its watching goroutine is about to be.
Attaching(r) == pc[r[1]] = "attaching" /\ r = Reg(r[1])

Watched(r) == watch[r] \in {"watching", "waiting"}

\* A call that has not reserved has started nothing; one that has holds every group it has not
\* started, and none of them has a consumer but the one it is about to attach.
Unstarted ==
    /\ \A c \in Calls : pc[c] # "stopping"
    /\ \A c \in Calls : pc[c] \in {"idle", "planning", "reserving"} => at[c] = 1
    /\ \A r \in Regs : pc[r[1]] \in {"idle", "planning", "reserving"} => cc[r] = "none" /\ watch[r] = "none"
    /\ \A r \in Regs : pc[r[1]] \in Active /\ r \in NotStarted(r[1]) =>
          /\ held[r[2]] = r
          /\ watch[r] = "none"
          /\ cc[r] = "none" \/ Attaching(r)

\* A registration whose consumer lives is watched or about to be, and one that is watched holds its
\* group; the goroutine is done with it only once its consumer has closed.
Minded ==
    /\ \A r \in Regs : Alive(r) => Watched(r) \/ Attaching(r)
    /\ \A r \in Regs : Watched(r) => held[r[2]] = r
    /\ \A r \in Regs : watch[r] \in {"reporting", "done"} => cc[r] = "closed"

\* A hold that some goroutine has yet to give up: the call's, on what it has not started, or that of
\* the one watching the consumer.
Due(r) ==
    \/ pc[r[1]] \in Active /\ r \in NotStarted(r[1])
    \/ Watched(r)

\* A group is held by a registration of its own, not started yet or watched.
Owned == \A g \in Groups : held[g] # NoReg => held[g][2] = g /\ Due(held[g])

\* While its context stands, a consumer closes only because its durable was lost.
Lasting ==
    \A r \in Regs : ~ended[r[1]] => \/ cc[r] \in {"none", "open"}
                                    \/ cc[r] = "closed" /\ r \in gone

\* The inductive invariant.  Close frees every group at once, so what a hold is worth is said of the
\* time before it.
IInv ==
    /\ TypeOK
    /\ \A k \in Closers : close[k] # "idle" => closing
    /\ ~closing => Unstarted /\ Minded /\ Owned /\ Lasting
    /\ NoFalseStop

-----------------------------------------------------------------------------
(* Facts the steps below share.                                            *)

\* A registration is a pair of its call and its group.
LEMMA RegPair ==
    ASSUME NEW r \in Regs
    PROVE  r = <<r[1], r[2]>> /\ r[1] \in Calls /\ r[2] \in Groups
  BY DEF Regs

\* What a call has not started are registrations of its own, the one it is at among them.
LEMMA NotStartedRegs ==
    ASSUME TypeOK, NEW c \in Calls
    PROVE  /\ Reg(c) \in Regs /\ Reg(c)[1] = c /\ Reg(c) \in NotStarted(c)
           /\ NotStarted(c) \subseteq Regs /\ \A r \in NotStarted(c) : r[1] = c
  <1>1. /\ GroupsOf[c] \in Seq(Groups) /\ at[c] \in DOMAIN GroupsOf[c] /\ Len(GroupsOf[c]) \in Nat
        /\ DOMAIN GroupsOf[c] = 1 .. Len(GroupsOf[c])
    BY GroupsAssumption DEF TypeOK
  <1>2. \A i \in DOMAIN GroupsOf[c] : <<c, GroupsOf[c][i]>> \in Regs
    BY <1>1 DEF Regs
  <1>3. \A i \in at[c] .. Len(GroupsOf[c]) : i \in DOMAIN GroupsOf[c]
    BY <1>1
  <1>4. at[c] \in at[c] .. Len(GroupsOf[c])
    BY <1>1 DEF TypeOK
  <1>5. Reg(c) \in Regs /\ Reg(c)[1] = c /\ Reg(c) \in NotStarted(c)
    BY <1>1, <1>2, <1>4 DEF Reg, NotStarted
  <1>6. NotStarted(c) \subseteq Regs /\ \A r \in NotStarted(c) : r[1] = c
    BY <1>2, <1>3 DEF NotStarted
  <1> QED
    BY <1>5, <1>6

\* A call at its first group has started none.
LEMMA NotStartedFirst ==
    ASSUME NEW c \in Calls, at[c] = 1, NEW r \in Regs, r[1] = c
    PROVE  r \in NotStarted(c)
  <1>1. /\ DOMAIN GroupsOf[c] = 1 .. Len(GroupsOf[c])
    BY GroupsAssumption
  <1>2. PICK i \in DOMAIN GroupsOf[c] : GroupsOf[c][i] = r[2]
    BY DEF Regs
  <1>3. r = <<c, r[2]>>
    BY RegPair
  <1> QED
    BY <1>1, <1>2, <1>3 DEF NotStarted

\* After its group was attached a call has that one no more to start, and no others less.
LEMMA NotStartedNext ==
    ASSUME TypeOK, NEW c \in Calls, at' = [at EXCEPT ![c] = @ + 1]
    PROVE  /\ NotStarted(c)' = NotStarted(c) \ {Reg(c)}
           /\ \A d \in Calls : d # c => NotStarted(d)' = NotStarted(d) /\ Reg(d)' = Reg(d)
  <1>1. /\ GroupsOf[c] \in Seq(Groups) /\ at[c] \in DOMAIN GroupsOf[c] /\ Len(GroupsOf[c]) \in Nat
        /\ DOMAIN GroupsOf[c] = 1 .. Len(GroupsOf[c])
        /\ at'[c] = at[c] + 1 /\ \A d \in Calls : d # c => at'[d] = at[d]
        /\ at[c] \in Nat
    BY GroupsAssumption DEF TypeOK
  <1>2. \A i \in at[c] + 1 .. Len(GroupsOf[c]) : GroupsOf[c][i] # GroupsOf[c][at[c]]
    BY <1>1, GroupsAssumption
  <1>3. at[c] .. Len(GroupsOf[c]) = {at[c]} \cup (at[c] + 1 .. Len(GroupsOf[c]))
    BY <1>1
  <1>4. NotStarted(c)' = {<<c, GroupsOf[c][i]>> : i \in at[c] + 1 .. Len(GroupsOf[c])}
    BY <1>1 DEF NotStarted
  <1>5. NotStarted(c)' = NotStarted(c) \ {Reg(c)}
    BY <1>2, <1>3, <1>4 DEF NotStarted, Reg
  <1> QED
    BY <1>1, <1>5 DEF NotStarted, Reg

\* At its last group a call has that one alone to start.
LEMMA NotStartedLast ==
    ASSUME TypeOK, NEW c \in Calls, LastGroup(c)
    PROVE  NotStarted(c) = {Reg(c)}
  <1>1. at[c] = Len(GroupsOf[c]) /\ at[c] \in Nat
    BY DEF LastGroup, TypeOK
  <1>2. at[c] .. Len(GroupsOf[c]) = {at[c]}
    BY <1>1
  <1> QED
    BY <1>2 DEF NotStarted, Reg

\* Owned, of a registration, and what shows it of the next state.
LEMMA OwnedAt ==
    ASSUME Owned, NEW g \in Groups, NEW r \in Regs, held[g] = r
    PROVE  r[2] = g /\ Due(r)
  <1>1. held[g] # NoReg
    BY NoRegAssumption
  <1> QED
    BY <1>1 DEF Owned

LEMMA OwnedNext ==
    ASSUME TypeOK',
           ASSUME NEW g \in Groups, NEW r \in Regs, held'[g] = r PROVE r[2] = g /\ Due(r)'
    PROVE  Owned'
  <1> SUFFICES ASSUME NEW g \in Groups, held'[g] # NoReg
               PROVE  held'[g][2] = g /\ Due(held[g])'
    BY DEF Owned
  <1>1. held'[g] \in Regs
    BY DEF TypeOK
  <1>2. PICK r \in Regs : held'[g] = r
    BY <1>1
  <1>3. r[2] = g /\ Due(r)'
    BY <1>2
  <1> QED
    BY <1>2, <1>3 DEF Due, NotStarted, Watched

\* A step that touches neither holds nor consumers keeps the invariant.
LEMMA QuietKept ==
    ASSUME IInv, TypeOK', UNCHANGED <<closing, close, held, pc, at, cc, gone, watch, reported>>,
           \A c \in Calls : ended[c] => ended'[c]
    PROVE  IInv'
  <1>1. NoFalseStop'
    BY DEF IInv, NoFalseStop
  <1>2. ASSUME ~closing PROVE Unstarted' /\ Minded' /\ Owned' /\ Lasting'
    <2>1. Unstarted' /\ Minded' /\ Owned'
      BY <1>2 DEF IInv, Unstarted, Minded, Owned, Due, NotStarted, Reg, Attaching, Watched, Alive
    <2>2. Lasting'
      BY <1>2, RegPair DEF IInv, Lasting
    <2> QED
      BY <2>1, <2>2
  <1> QED
    BY <1>1, <1>2 DEF IInv

\* The invariant holds to begin with.
LEMMA InitInv == Init => IInv
  <1> SUFFICES ASSUME Init PROVE IInv
    OBVIOUS
  <1>1. TypeOK
    <2>1. ASSUME NEW c \in Calls PROVE 1 \in DOMAIN GroupsOf[c]
      <3>1. GroupsOf[c] \in Seq(Groups) /\ GroupsOf[c] # <<>>
        BY GroupsAssumption
      <3>2. Len(GroupsOf[c]) # 0
        BY <3>1
      <3> QED
        BY <3>1, <3>2
    <2>2. /\ at \in [Calls -> Nat] /\ \A c \in Calls : at[c] \in DOMAIN GroupsOf[c]
          /\ handed \in 0 .. MaxHandOvers
      BY <2>1, HandOversAssumption DEF Init
    <2> QED
      BY <2>2, Zenon DEF Init, TypeOK
  <1>2. Unstarted
    BY RegPair DEF Init, Unstarted, Active
  <1>3. Minded /\ Owned /\ Lasting /\ NoFalseStop
    BY RegPair DEF Init, Minded, Owned, Lasting, NoFalseStop, Alive, Watched
  <1>4. \A k \in Closers : close[k] = "idle"
    BY DEF Init
  <1> QED
    BY <1>1, <1>2, <1>3, <1>4 DEF IInv

-----------------------------------------------------------------------------
(* The consumer.                                                           *)

\* A handler starts or returns, a durable is deleted, a context ends.
LEMMA QuietInv ==
    ASSUME IInv,
           \/ \E r \in Regs : StartHandler(r) \/ HandlerReturns(r)
           \/ \E g \in Groups : DeleteDurable(g)
           \/ \E c \in Calls : EndContext(c)
           \/ UNCHANGED vars
    PROVE  IInv'
  <1> USE DEF subscribeVars, consumerVars, serverVars, watchVars, closeVars
  <1>1. UNCHANGED <<closing, held, attached, pc, at, cc, gone, watch, reported, close, consuming>>
    BY DEF StartHandler, HandlerReturns, DeleteDurable, EndContext, vars
  <1>2. \A c \in Calls : ended[c] => ended'[c]
    BY DEF StartHandler, HandlerReturns, DeleteDurable, EndContext, vars, IInv, TypeOK
  <1>3. /\ ended' \in [Calls -> BOOLEAN] /\ busy' \in [Regs -> BOOLEAN]
        /\ handed' \in 0 .. MaxHandOvers /\ deleted' \subseteq Groups
    <2> USE DEF IInv, TypeOK
    <2>1. CASE \E r \in Regs : StartHandler(r)
      BY <2>1, HandOversAssumption DEF StartHandler
    <2>2. CASE \E r \in Regs : HandlerReturns(r)
      BY <2>2 DEF HandlerReturns
    <2>3. CASE \E g \in Groups : DeleteDurable(g)
      BY <2>3 DEF DeleteDurable
    <2>4. CASE \E c \in Calls : EndContext(c)
      BY <2>4 DEF EndContext
    <2>5. CASE UNCHANGED vars
      BY <2>5 DEF vars
    <2> QED
      BY <2>1, <2>2, <2>3, <2>4, <2>5
  <1>4. TypeOK'
    BY <1>1, <1>3 DEF IInv, TypeOK
  <1> QED
    BY <1>1, <1>2, <1>4, QuietKept

\* A consumer closes: it was lost, its context has ended, or Close has begun.
LEMMA CloseConsumerInv ==
    ASSUME IInv, NEW q \in Regs, CloseConsumer(q)
    PROVE  IInv'
  <1>1. /\ cc' = [cc EXCEPT ![q] = "closed"] /\ Alive(q)
        /\ UNCHANGED <<closing, held, attached, pc, at, ended, busy, handed, deleted, watch, reported, close, consuming>>
        /\ gone \subseteq gone' /\ gone' \subseteq Regs
    BY DEF CloseConsumer, subscribeVars, consumerVars, watchVars, closeVars, Alive, IInv, TypeOK
  <1>2. TypeOK'
    BY <1>1 DEF IInv, TypeOK
  <1>3. cc'[q] = "closed" /\ \A r \in Regs : r # q => cc'[r] = cc[r]
    BY <1>1 DEF IInv, TypeOK
  <1>4. NoFalseStop'
    BY <1>1 DEF IInv, NoFalseStop
  <1>5. ASSUME ~closing PROVE Unstarted' /\ Minded' /\ Owned' /\ Lasting'
    <2> USE <1>1, <1>3, <1>5
    <2>1. Unstarted'
      <3>1. Watched(q) \/ Attaching(q)
        BY DEF IInv, Minded
      <3> QED
        BY <3>1 DEF IInv, Unstarted, NotStarted, Reg, Attaching, Watched
    <2>2. Minded' /\ Owned'
      BY DEF IInv, Minded, Owned, Due, NotStarted, Reg, Attaching, Watched, Alive
    <2>3. Lasting'
      <3>1. ~ended[q[1]] => q \in gone'
        BY DEF CloseConsumer, IInv, Lasting
      <3> QED
        BY <3>1 DEF IInv, Lasting
    <2> QED
      BY <2>1, <2>2, <2>3
  <1> QED
    BY <1>1, <1>2, <1>4, <1>5 DEF IInv

-----------------------------------------------------------------------------
(* Subscribe.                                                              *)

\* A call that has reserved nothing goes on, or returns: Subscribe, plan, or reserve refused.
LEMMA EarlyInv ==
    ASSUME IInv, NEW c \in Calls, pc[c] \in {"idle", "planning", "reserving"},
           NEW w \in {"planning", "reserving", "returned"}, Goto(c, w),
           UNCHANGED <<held, attached, at, ended, consumerVars, serverVars, watchVars, closeVars>>
    PROVE  IInv'
  <1>1. /\ pc' = [pc EXCEPT ![c] = w]
        /\ UNCHANGED <<held, attached, at, ended, cc, busy, handed, deleted, gone, watch, reported, closing, close, consuming>>
    BY DEF Goto, consumerVars, serverVars, watchVars, closeVars
  <1>2. TypeOK'
    BY <1>1 DEF IInv, TypeOK
  <1>3. pc'[c] = w /\ \A d \in Calls : d # c => pc'[d] = pc[d]
    BY <1>1 DEF IInv, TypeOK
  <1>4. ASSUME ~closing PROVE Unstarted' /\ Minded' /\ Owned' /\ Lasting'
    <2> USE <1>1, <1>3, <1>4, RegPair DEF IInv, Active, NotStarted, Reg, Attaching, Watched, Alive
    <2>1. Unstarted'
      BY DEF Unstarted
    <2>2. Minded'
      BY DEF Minded
    <2>3. Owned'
      BY DEF Owned, Due, TypeOK
    <2>4. Lasting'
      BY DEF Lasting
    <2> QED
      BY <2>1, <2>2, <2>3, <2>4
  <1> QED
    BY <1>1, <1>2, <1>4 DEF IInv, NoFalseStop

\* reserve holds every group of the call: none was held, so none has a consumer.
LEMMA reserveInv ==
    ASSUME IInv, NEW c \in Calls, reserve(c)
    PROVE  IInv'
  <1> DEFINE mine == {GroupsOf[c][i] : i \in DOMAIN GroupsOf[c]}
  <1>1. CASE Goto(c, "returned") /\ UNCHANGED held
    BY <1>1, EarlyInv DEF reserve
  <1>2. CASE /\ \A g \in mine : held[g] = NoReg
             /\ Goto(c, "looking")
             /\ held' = [g \in Groups |-> IF g \in mine THEN <<c, g>> ELSE held[g]]
    <2>1. /\ pc[c] = "reserving" /\ pc' = [pc EXCEPT ![c] = "looking"]
          /\ UNCHANGED <<attached, at, ended, cc, busy, handed, deleted, gone, watch, reported, closing, close, consuming>>
      BY <1>2 DEF reserve, Goto, consumerVars, serverVars, watchVars, closeVars
    <2>2. pc'[c] = "looking" /\ \A d \in Calls : d # c => pc'[d] = pc[d]
      BY <2>1 DEF IInv, TypeOK
    <2>3. mine \subseteq Groups
      BY GroupsAssumption
    <2>4. \A g \in mine : <<c, g>> \in Regs
      BY <2>3 DEF Regs
    <2>5. \A r \in Regs : r[1] = c => r[2] \in mine
      BY DEF Regs
    <2>6. /\ \A g \in mine : held'[g] = <<c, g>>
          /\ \A g \in Groups : g \notin mine => held'[g] = held[g]
      BY <1>2, <2>3
    <2>7. TypeOK'
      <3>1. held' \in [Groups -> Regs \cup {NoReg}]
        BY <1>2, <2>4 DEF IInv, TypeOK
      <3> QED
        BY <2>1, <3>1 DEF IInv, TypeOK
    <2>8. ASSUME ~closing PROVE Unstarted' /\ Minded' /\ Owned' /\ Lasting'
      <3> USE <2>8 DEF IInv
      <3>1. at[c] = 1 /\ \A r \in Regs : r[1] = c => cc[r] = "none" /\ watch[r] = "none"
        BY <2>1 DEF Unstarted
      <3>2. \A g \in mine, r \in Regs : held[g] # r
        BY <1>2, NoRegAssumption
      <3>3. \A d \in Calls : NotStarted(d)' = NotStarted(d) /\ Reg(d)' = Reg(d)
        BY <2>1 DEF NotStarted, Reg
      <3>4. \A r \in Regs : r[1] # c /\ held[r[2]] = r => held'[r[2]] = r
        BY <2>6, <3>2, RegPair
      <3>5. \A r \in Regs : r[1] = c => held'[r[2]] = r
        BY <2>5, <2>6, RegPair
      <3>6. Unstarted'
        BY <2>1, <2>2, <3>1, <3>3, <3>4, <3>5, RegPair DEF Unstarted, Active, Attaching
      <3>7. Minded'
        BY <2>1, <2>2, <3>1, <3>3, <3>4, <3>5, RegPair DEF Minded, Attaching, Watched, Alive
      <3>8. Owned'
        <4> SUFFICES ASSUME NEW g \in Groups, NEW r \in Regs, held'[g] = r
                     PROVE  r[2] = g /\ Due(r)'
          BY <2>7, OwnedNext, Zenon
        <4>1. CASE g \in mine
          <5>1. r = <<c, g>> /\ r \in NotStarted(c)
            BY <2>4, <2>6, <3>1, <4>1, NotStartedFirst, Zenon
          <5> QED
            BY <2>2, <3>3, <5>1 DEF Active, Due
        <4>2. CASE g \notin mine
          <5>1. held[g] = r
            BY <2>6, <4>2
          <5>2. r[2] = g /\ Due(r)
            BY <5>1, OwnedAt
          <5>3. r[1] # c /\ r[1] \in Calls
            BY <2>5, <4>2, <5>2, RegPair
          <5> QED
            BY <2>1, <2>2, <3>3, <5>2, <5>3 DEF Due, Watched
        <4> QED
          BY <4>1, <4>2
      <3>9. Lasting'
        BY <2>1 DEF Lasting
      <3> QED
        BY <3>6, <3>7, <3>8, <3>9
    <2> QED
      BY <2>1, <2>7, <2>8 DEF IInv, NoFalseStop
  <1> QED
    BY <1>1, <1>2 DEF reserve

\* A call that has reserved moves on within a group: what it has not started is held as it was.
LEMMA MoveKept ==
    ASSUME IInv, TypeOK', NEW c \in Calls, pc[c] \in Active \ {"attaching"}, NEW w \in Active \ {"attaching"},
           pc' = [pc EXCEPT ![c] = w],
           UNCHANGED <<held, at, ended, cc, gone, watch, reported, closing, close>>
    PROVE  IInv'
  <1>1. pc'[c] = w /\ \A d \in Calls : d # c => pc'[d] = pc[d]
    BY DEF IInv, TypeOK
  <1>2. ASSUME ~closing PROVE Unstarted' /\ Minded' /\ Owned' /\ Lasting'
    <2> USE <1>1, <1>2, RegPair DEF IInv, Active, NotStarted, Reg, Attaching, Watched, Alive
    <2>1. Unstarted'
      BY DEF Unstarted
    <2>2. Minded'
      BY DEF Minded
    <2>3. Owned'
      BY DEF Owned, Due, TypeOK
    <2>4. Lasting'
      BY DEF Lasting
    <2> QED
      BY <2>1, <2>2, <2>3, <2>4
  <1> QED
    BY <1>2 DEF IInv, NoFalseStop

\* The durable is there, or the call fails.
LEMMA durableInv ==
    ASSUME IInv, NEW c \in Calls, durable(c)
    PROVE  IInv'
  <1>1. PICK w \in {"starting", "failing"} : pc' = [pc EXCEPT ![c] = w]
    BY DEF durable, Goto
  <1>2. /\ pc[c] = "looking" /\ deleted' \subseteq deleted
        /\ UNCHANGED <<held, attached, at, ended, cc, busy, handed, gone, watch, reported, closing, close, consuming>>
    BY DEF durable, consumerVars, watchVars, closeVars
  <1>3. TypeOK'
    BY <1>1, <1>2 DEF IInv, TypeOK
  <1> QED
    BY <1>1, <1>2, <1>3, MoveKept, Zenon DEF Active

\* The consumer of the group the call is at starts, or the library refuses.
LEMMA StartConsumerInv ==
    ASSUME IInv, NEW c \in Calls, StartConsumer(c)
    PROVE  IInv'
  <1>1. /\ pc[c] = "starting"
        /\ UNCHANGED <<held, attached, at, ended, busy, handed, deleted, gone, watch, reported, closing, close, consuming>>
    BY DEF StartConsumer, serverVars, watchVars, closeVars
  <1>2. CASE pc' = [pc EXCEPT ![c] = "failing"] /\ UNCHANGED cc
    <2>1. TypeOK'
      BY <1>1, <1>2 DEF IInv, TypeOK
    <2> QED
      BY <1>1, <1>2, <2>1, MoveKept, Zenon DEF Active
  <1>3. CASE pc' = [pc EXCEPT ![c] = "attaching"] /\ cc' = [cc EXCEPT ![Reg(c)] = "open"]
    <2>1. Reg(c) \in Regs /\ Reg(c)[1] = c /\ Reg(c) \in NotStarted(c)
      BY NotStartedRegs DEF IInv
    <2>2. TypeOK'
      BY <1>1, <1>3, <2>1 DEF IInv, TypeOK
    <2>3. /\ pc'[c] = "attaching" /\ \A d \in Calls : d # c => pc'[d] = pc[d]
          /\ cc'[Reg(c)] = "open" /\ \A r \in Regs : r # Reg(c) => cc'[r] = cc[r]
      BY <1>3, <2>1 DEF IInv, TypeOK
    <2>4. \A d \in Calls : NotStarted(d)' = NotStarted(d) /\ Reg(d)' = Reg(d)
      BY <1>1 DEF NotStarted, Reg
    <2>5. ASSUME ~closing PROVE Unstarted' /\ Minded' /\ Owned' /\ Lasting'
      <3> USE <1>1, <2>1, <2>3, <2>4, <2>5, RegPair DEF IInv, Active, Attaching, Watched, Alive
      <3>1. Unstarted'
        BY DEF Unstarted
      <3>2. Minded'
        BY DEF Minded, Unstarted
      <3>3. Owned'
        BY DEF Owned, Due, TypeOK
      <3>4. Lasting'
        BY DEF Lasting
      <3> QED
        BY <3>1, <3>2, <3>3, <3>4
    <2> QED
      BY <1>1, <2>2, <2>5 DEF IInv, NoFalseStop
  <1> QED
    BY <1>2, <1>3 DEF StartConsumer, Goto

\* Once Close has begun the invariant says no more of the holds.
LEMMA ClosingKept ==
    ASSUME IInv, TypeOK', closing', NoFalseStop'
    PROVE  IInv'
  BY DEF IInv

\* The consumer is attached and watched; the call has one group less to start.
LEMMA AttachInv ==
    ASSUME IInv, NEW c \in Calls, Attach(c)
    PROVE  IInv'
  <1> DEFINE R == Reg(c)
  <1>1. /\ pc[c] = "attaching"
        /\ UNCHANGED <<held, ended, cc, busy, handed, deleted, gone, reported, closing, close, consuming>>
    BY DEF Attach, consumerVars, serverVars, closeVars
  <1>2. R \in Regs /\ R[1] = c /\ R \in NotStarted(c) /\ NotStarted(c) \subseteq Regs
    BY NotStartedRegs DEF IInv
  <1>3. NoFalseStop'
    BY <1>1 DEF IInv, NoFalseStop
  <1>4. CASE ~MayAttach /\ Goto(c, "stopping") /\ UNCHANGED <<attached, watch, at>>
    <2>1. TypeOK'
      BY <1>1, <1>4 DEF IInv, TypeOK, Goto
    <2> QED
      BY <1>1, <1>3, <1>4, <2>1, ClosingKept DEF MayAttach
  <1>5. CASE /\ MayAttach
             /\ attached' = attached \cup {R}
             /\ watch' = [watch EXCEPT ![R] = "watching"]
             /\ IF LastGroup(c)
                THEN Goto(c, "returned") /\ UNCHANGED at
                ELSE Goto(c, "looking") /\ at' = [at EXCEPT ![c] = @ + 1]
    <2>1. PICK w \in {"looking", "returned"} : pc' = [pc EXCEPT ![c] = w]
      BY <1>5 DEF Goto
    <2>2. /\ pc'[c] = w /\ \A d \in Calls : d # c => pc'[d] = pc[d]
          /\ watch'[R] = "watching" /\ \A r \in Regs : r # R => watch'[r] = watch[r]
      BY <1>2, <1>5, <2>1 DEF IInv, TypeOK
    <2>3. /\ \A d \in Calls : d # c => NotStarted(d)' = NotStarted(d) /\ Reg(d)' = Reg(d)
          /\ w = "looking" => NotStarted(c)' = NotStarted(c) \ {R}
          /\ w = "returned" => NotStarted(c) = {R}
          /\ \A d \in Calls : d # c => at'[d] = at[d]
      <3>1. CASE LastGroup(c)
        <4>1. UNCHANGED at /\ pc'[c] = "returned"
          BY <1>5, <3>1 DEF Goto, IInv, TypeOK
        <4> QED
          BY <2>2, <3>1, <4>1, NotStartedLast DEF IInv, NotStarted, Reg
      <3>2. CASE ~LastGroup(c)
        <4>1. at' = [at EXCEPT ![c] = @ + 1] /\ pc'[c] = "looking"
          BY <1>5, <3>2 DEF Goto, IInv, TypeOK
        <4>2. \A d \in Calls : d # c => at'[d] = at[d]
          BY <4>1 DEF IInv, TypeOK
        <4> QED
          BY <2>2, <4>1, <4>2, NotStartedNext, Zenon DEF IInv
      <3> QED
        BY <3>1, <3>2
    <2>4. TypeOK'
      <3>1. at' \in [Calls -> Nat] /\ \A d \in Calls : at'[d] \in DOMAIN GroupsOf[d]
        <4>1. CASE LastGroup(c)
          BY <1>5, <4>1 DEF IInv, TypeOK
        <4>2. CASE ~LastGroup(c)
          <5>1. /\ GroupsOf[c] \in Seq(Groups) /\ Len(GroupsOf[c]) \in Nat
                /\ DOMAIN GroupsOf[c] = 1 .. Len(GroupsOf[c])
                /\ at \in [Calls -> Nat] /\ \A d \in Calls : at[d] \in DOMAIN GroupsOf[d]
            BY GroupsAssumption DEF IInv, TypeOK
          <5>2. at' = [at EXCEPT ![c] = @ + 1] /\ at[c] # Len(GroupsOf[c])
            BY <1>5, <4>2 DEF LastGroup
          <5>3. at[c] + 1 \in DOMAIN GroupsOf[c] /\ at[c] + 1 \in Nat
            BY <5>1, <5>2
          <5> QED
            BY <5>1, <5>2, <5>3
        <4> QED
          BY <4>1, <4>2
      <3>2. pc' \in [Calls -> {"idle", "planning", "reserving", "looking", "starting", "attaching",
                               "stopping", "failing", "returned"}]
        BY <2>1 DEF IInv, TypeOK
      <3>3. watch' \in [Regs -> {"none", "watching", "waiting", "reporting", "done"}] /\ attached' \subseteq Regs
        BY <1>2, <1>5 DEF IInv, TypeOK
      <3> QED
        BY <1>1, <3>1, <3>2, <3>3 DEF IInv, TypeOK
    <2>5. ~closing /\ Unstarted /\ Minded /\ Owned /\ Lasting
      BY <1>5 DEF IInv, MayAttach
    <2>6. held[R[2]] = R
      BY <1>1, <1>2, <2>5, Zenon DEF Unstarted, Active
    <2>7. Unstarted'
      <3>1. \A d \in Calls : pc'[d] # "stopping"
        BY <2>2, <2>5 DEF Unstarted
      <3>2. \A d \in Calls : pc'[d] \in {"idle", "planning", "reserving"} => at'[d] = 1
        BY <2>2, <2>3, <2>5 DEF Unstarted
      <3>3. \A r \in Regs : pc'[r[1]] \in {"idle", "planning", "reserving"} => cc'[r] = "none" /\ watch'[r] = "none"
        BY <1>1, <1>2, <2>2, <2>5, RegPair DEF Unstarted
      <3>4. ASSUME NEW r \in Regs, pc'[r[1]] \in Active, r \in NotStarted(r[1])'
            PROVE  held'[r[2]] = r /\ watch'[r] = "none" /\ (cc'[r] = "none" \/ Attaching(r)')
        <4>1. CASE r[1] = c
          <5>1. r \in NotStarted(c) /\ r # R
            BY <2>2, <2>3, <3>4, <4>1 DEF Active
          <5>2. held[r[2]] = r /\ watch[r] = "none" /\ cc[r] = "none"
            BY <1>1, <2>5, <4>1, <5>1 DEF Unstarted, Active, Attaching
          <5> QED
            BY <1>1, <2>2, <5>1, <5>2
        <4>2. CASE r[1] # c
          <5>1. r[1] \in Calls /\ r # R
            BY <1>2, <4>2, RegPair
          <5> QED
            BY <1>1, <2>2, <2>3, <2>5, <3>4, <4>2, <5>1 DEF Unstarted, Attaching
        <4> QED
          BY <4>1, <4>2
      <3> QED
        BY <3>1, <3>2, <3>3, <3>4 DEF Unstarted, NotStarted, Attaching, Reg
    <2>8. Minded'
      <3>1. ASSUME NEW r \in Regs, Alive(r) PROVE Watched(r)' \/ Attaching(r)'
        <4>1. CASE r = R
          BY <2>2, <4>1 DEF Watched
        <4>2. CASE r # R /\ r[1] = c
          BY <2>2, <2>5, <3>1, <4>2 DEF Minded, Watched, Attaching
        <4>3. CASE r # R /\ r[1] # c
          BY <2>2, <2>3, <2>5, <3>1, <4>3, RegPair DEF Minded, Watched, Attaching
        <4> QED
          BY <4>1, <4>2, <4>3
      <3>2. \A r \in Regs : Watched(r)' => held'[r[2]] = r
        BY <1>1, <2>2, <2>5, <2>6 DEF Minded, Watched
      <3>3. \A r \in Regs : watch'[r] \in {"reporting", "done"} => cc'[r] = "closed"
        BY <1>1, <2>2, <2>5 DEF Minded
      <3> QED
        BY <1>1, <3>1, <3>2, <3>3 DEF Minded, Alive
    <2>9. Owned'
      <3> SUFFICES ASSUME NEW g \in Groups, NEW r \in Regs, held'[g] = r
                   PROVE  r[2] = g /\ Due(r)'
        BY <2>4, OwnedNext, Zenon
      <3>1. r[2] = g /\ Due(r)
        BY <1>1, <2>5, OwnedAt
      <3>2. CASE r = R
        BY <2>2, <3>1, <3>2 DEF Due, Watched
      <3>3. CASE r # R /\ r[1] = c
        BY <2>2, <2>3, <3>1, <3>3 DEF Due, Watched, Active
      <3>4. CASE r # R /\ r[1] # c
        BY <2>2, <2>3, <3>1, <3>4, RegPair DEF Due, Watched
      <3> QED
        BY <3>2, <3>3, <3>4
    <2>10. Lasting'
      BY <1>1, <2>5 DEF Lasting
    <2> QED
      BY <1>1, <1>3, <2>4, <2>7, <2>8, <2>9, <2>10 DEF IInv
  <1> QED
    BY <1>4, <1>5 DEF Attach

\* A call that finds Close has begun stops its own consumer.
LEMMA StopOwnInv ==
    ASSUME IInv, NEW c \in Calls, StopOwn(c)
    PROVE  IInv'
  <1>1. /\ pc[c] = "stopping" /\ pc' = [pc EXCEPT ![c] = "failing"] /\ Stop({Reg(c)})
        /\ UNCHANGED <<held, attached, at, ended, busy, handed, deleted, gone, watch, reported, closing, close, consuming>>
    BY DEF StopOwn, Goto, serverVars, watchVars, closeVars
  <1>2. cc' \in [Regs -> {"none", "open", "draining", "stopped", "closed"}]
    BY <1>1 DEF Stop, IInv, TypeOK
  <1>3. TypeOK'
    BY <1>1, <1>2 DEF IInv, TypeOK
  <1>4. closing
    BY <1>1 DEF IInv, Unstarted
  <1> QED
    BY <1>1, <1>3, <1>4, ClosingKept DEF IInv, NoFalseStop

\* Freeing the groups of some registrations leaves those of the others held.
LEMMA Released ==
    ASSUME IInv, NEW S \in SUBSET Regs, release(S)
    PROVE  /\ held' \in [Groups -> Regs \cup {NoReg}]
           /\ \A r \in Regs : r \notin S /\ held[r[2]] = r => held'[r[2]] = r
           /\ \A g \in Groups, r \in Regs : held'[g] = r => held[g] = r /\ r \notin S
  <1>1. held \in [Groups -> Regs \cup {NoReg}]
    BY DEF IInv, TypeOK
  <1>2. \A g \in Groups : held'[g] = IF held[g] \in S THEN NoReg ELSE held[g]
    BY DEF release
  <1>3. held' \in [Groups -> Regs \cup {NoReg}]
    BY <1>1 DEF release
  <1> QED
    BY <1>2, <1>3, RegPair, NoRegAssumption

\* A call that fails frees what it has not started: none of it has a consumer.
LEMMA FailInv ==
    ASSUME IInv, NEW c \in Calls, Fail(c)
    PROVE  IInv'
  <1>1. /\ pc[c] = "failing" /\ pc' = [pc EXCEPT ![c] = "returned"] /\ release(NotStarted(c))
        /\ UNCHANGED <<attached, at, ended, cc, busy, handed, deleted, gone, watch, reported, closing, close, consuming>>
    BY DEF Fail, Goto, consumerVars, serverVars, watchVars, closeVars
  <1>2. NotStarted(c) \subseteq Regs /\ \A r \in NotStarted(c) : r[1] = c
    BY NotStartedRegs DEF IInv
  <1>3. /\ held' \in [Groups -> Regs \cup {NoReg}]
        /\ \A r \in Regs : r \notin NotStarted(c) /\ held[r[2]] = r => held'[r[2]] = r
        /\ \A g \in Groups, r \in Regs : held'[g] = r => held[g] = r /\ r \notin NotStarted(c)
    BY <1>1, <1>2, Released
  <1>4. TypeOK'
    BY <1>1, <1>3 DEF IInv, TypeOK
  <1>5. pc'[c] = "returned" /\ \A d \in Calls : d # c => pc'[d] = pc[d]
    BY <1>1, ZenonT(30) DEF IInv, TypeOK
  <1>6. \A d \in Calls : NotStarted(d)' = NotStarted(d) /\ Reg(d)' = Reg(d)
    BY <1>1, Zenon DEF NotStarted, Reg
  <1>7. ASSUME ~closing PROVE Unstarted' /\ Minded' /\ Owned' /\ Lasting'
    <2>1. Unstarted /\ Minded /\ Owned /\ Lasting
      BY <1>7 DEF IInv
    <2>2. \A r \in NotStarted(c) : cc[r] = "none" /\ watch[r] = "none"
      BY <1>1, <1>2, <2>1, ZenonT(30) DEF Unstarted, Active, Attaching
    <2>3. Unstarted'
      BY <1>1, <1>2, <1>3, <1>5, <1>6, <2>1, RegPair DEF Unstarted, Active, Attaching
    <2>4. Minded'
      <3>1. ASSUME NEW r \in Regs, Alive(r) PROVE Watched(r)' \/ Attaching(r)'
        BY <1>1, <1>5, <1>6, <2>1, <3>1, RegPair DEF Minded, Watched, Attaching
      <3>2. \A r \in Regs : Watched(r)' => held'[r[2]] = r
        BY <1>1, <1>3, <2>1, <2>2, Zenon DEF Minded, Watched
      <3> QED
        BY <1>1, <2>1, <3>1, <3>2, Zenon DEF Minded, Alive
    <2>5. Owned'
      <3> SUFFICES ASSUME NEW g \in Groups, NEW r \in Regs, held'[g] = r
                   PROVE  r[2] = g /\ Due(r)'
        BY <1>4, OwnedNext, Zenon
      <3>1. held[g] = r /\ r \notin NotStarted(c)
        BY <1>3
      <3>2. r[2] = g /\ Due(r)
        BY <2>1, <3>1, OwnedAt
      <3> QED
        BY <1>1, <1>5, <1>6, <3>1, <3>2, RegPair DEF Due, Watched
    <2>6. Lasting'
      BY <1>1, <2>1 DEF Lasting
    <2> QED
      BY <2>3, <2>4, <2>5, <2>6
  <1> QED
    BY <1>1, <1>4, <1>7 DEF IInv, NoFalseStop

-----------------------------------------------------------------------------
(* The goroutine that watches a consumer.                                  *)

\* It frees the group of a consumer that has closed.
LEMMA FreeKept ==
    ASSUME IInv, NEW q \in Regs, Watched(q), cc[q] = "closed", NEW w \in {"reporting", "done"},
           watch' = [watch EXCEPT ![q] = w], release({q}),
           UNCHANGED <<attached, pc, at, ended, cc, busy, handed, deleted, gone, reported, closing, close, consuming>>
    PROVE  IInv'
  <1>1. /\ held' \in [Groups -> Regs \cup {NoReg}]
        /\ \A r \in Regs : r # q /\ held[r[2]] = r => held'[r[2]] = r
        /\ \A g \in Groups, r \in Regs : held'[g] = r => held[g] = r /\ r # q
    BY Released
  <1>2. watch'[q] = w /\ \A r \in Regs : r # q => watch'[r] = watch[r]
    BY DEF IInv, TypeOK
  <1>3. TypeOK'
    <2>1. watch' \in [Regs -> {"none", "watching", "waiting", "reporting", "done"}]
      BY DEF IInv, TypeOK
    <2> QED
      BY <1>1, <2>1, ZenonT(30) DEF IInv, TypeOK
  <1>4. \A d \in Calls : NotStarted(d)' = NotStarted(d) /\ Reg(d)' = Reg(d)
    BY Zenon DEF NotStarted, Reg
  <1>5. ASSUME ~closing PROVE Unstarted' /\ Minded' /\ Owned' /\ Lasting'
    <2>1. Unstarted /\ Minded /\ Owned /\ Lasting
      BY <1>5 DEF IInv
    <2>2. Unstarted'
      BY <1>1, <1>2, <1>4, <2>1, RegPair DEF Unstarted, Attaching, Watched
    <2>3. Minded'
      <3>1. ASSUME NEW r \in Regs, Alive(r) PROVE Watched(r)' \/ Attaching(r)'
        BY <1>2, <1>4, <2>1, <3>1, RegPair DEF Minded, Watched, Attaching, Alive
      <3>2. \A r \in Regs : Watched(r)' => held'[r[2]] = r
        BY <1>1, <1>2, <2>1, ZenonT(30) DEF Minded, Watched
      <3>3. \A r \in Regs : watch'[r] \in {"reporting", "done"} => cc'[r] = "closed"
        BY <1>2, <2>1, Zenon DEF Minded
      <3> QED
        BY <3>1, <3>2, <3>3, Zenon DEF Minded, Alive
    <2>4. Owned'
      <3> SUFFICES ASSUME NEW g \in Groups, NEW r \in Regs, held'[g] = r
                   PROVE  r[2] = g /\ Due(r)'
        BY <1>3, OwnedNext, Zenon
      <3>1. held[g] = r /\ r # q
        BY <1>1
      <3>2. r[2] = g /\ Due(r)
        BY <2>1, <3>1, OwnedAt
      <3> QED
        BY <1>2, <1>4, <3>1, <3>2, RegPair DEF Due, Watched
    <2>5. Lasting'
      BY <2>1 DEF Lasting
    <2> QED
      BY <2>2, <2>3, <2>4, <2>5
  <1> QED
    BY <1>3, <1>5 DEF IInv, NoFalseStop

\* It moves on without freeing the group, and may stop the consumer if its context has ended.
LEMMA WatchKept ==
    ASSUME IInv, TypeOK', NEW q \in Regs, NEW w, watch' = [watch EXCEPT ![q] = w],
           \/ watch[q] = "watching" /\ w = "waiting" /\ ended[q[1]]
           \/ watch[q] = "reporting" /\ w = "done" /\ cc' = cc,
           \A r \in Regs : r # q => cc'[r] = cc[r],
           cc'[q] = cc[q] \/ cc'[q] = "stopped", reported' \subseteq gone',
           UNCHANGED <<held, pc, at, ended, gone, closing, close>>
    PROVE  IInv'
  <1>0. DOMAIN watch = Regs
    BY DEF IInv, TypeOK
  <1>1. watch'[q] = w /\ \A r \in Regs : r # q => watch'[r] = watch[r]
    BY <1>0
  <1>2. \A d \in Calls : NotStarted(d)' = NotStarted(d) /\ Reg(d)' = Reg(d)
    BY DEF NotStarted, Reg
  <1>3. ASSUME ~closing PROVE Unstarted' /\ Minded' /\ Owned' /\ Lasting'
    <2>1. Unstarted /\ Minded /\ Owned /\ Lasting
      BY <1>3 DEF IInv
    <2>2. Unstarted'
      BY <1>1, <1>2, <2>1, RegPair DEF Unstarted, Attaching
    <2>3. Minded'
      <3>1. ASSUME NEW r \in Regs, Alive(r)' PROVE Watched(r)' \/ Attaching(r)'
        <4>1. CASE r = q
          BY <1>1, <2>1, <3>1, <4>1 DEF Minded, Watched, Alive
        <4>2. CASE r # q
          BY <1>1, <1>2, <2>1, <3>1, <4>2, RegPair DEF Minded, Watched, Attaching, Alive
        <4> QED
          BY <4>1, <4>2
      <3>2. \A r \in Regs : Watched(r)' => held'[r[2]] = r
        BY <1>1, <2>1 DEF Minded, Watched
      <3>3. \A r \in Regs : watch'[r] \in {"reporting", "done"} => cc'[r] = "closed"
        BY <1>1, <2>1 DEF Minded
      <3> QED
        BY <3>1, <3>2, <3>3, Zenon DEF Minded, Alive
    <2>4. Owned'
      <3> SUFFICES ASSUME NEW g \in Groups, NEW r \in Regs, held'[g] = r
                   PROVE  r[2] = g /\ Due(r)'
        BY OwnedNext, Zenon
      <3>1. r[2] = g /\ Due(r)
        BY <2>1, OwnedAt
      <3> QED
        BY <1>1, <1>2, <3>1, RegPair DEF Due, Watched
    <2>5. Lasting'
      BY <2>1 DEF Lasting
    <2> QED
      BY <2>2, <2>3, <2>4, <2>5
  <1> QED
    BY <1>3 DEF IInv, NoFalseStop

LEMMA WatchInv ==
    ASSUME IInv, NEW q \in Regs, WatchStep(q)
    PROVE  IInv'
  <1> USE DEF subscribeVars, consumerVars, serverVars, closeVars
  <1>1. CASE WatchClosed(q)
    BY <1>1, FreeKept, Zenon DEF WatchClosed, Watched
  <1>2. CASE FreeGroup(q)
    BY <1>2, FreeKept, Zenon DEF FreeGroup, Watched, Quiet
  <1>3. CASE ReportStopped(q)
    <2>1. watch[q] = "reporting" /\ watch' = [watch EXCEPT ![q] = "done"]
          /\ UNCHANGED <<held, attached, pc, at, ended, cc, busy, handed, deleted, gone, closing, close, consuming>>
      BY <1>3 DEF ReportStopped
    <2>2. Lost(q) => q \in gone
      BY <2>1 DEF Lost, IInv, Minded, Lasting
    <2>3. reported' \subseteq gone /\ reported' \subseteq Regs
      BY <1>3, <2>2 DEF ReportStopped, IInv, NoFalseStop, TypeOK
    <2>4. TypeOK'
      BY <2>1, <2>3 DEF IInv, TypeOK
    <2> QED
      BY <2>1, <2>3, <2>4, WatchKept, Zenon
  <1>4. CASE WatchContext(q)
    <2>1. watch[q] = "watching" /\ ended[q[1]] /\ watch' = [watch EXCEPT ![q] = "waiting"] /\ Stop({q})
          /\ UNCHANGED <<held, attached, pc, at, ended, busy, handed, deleted, gone, reported, closing, close, consuming>>
      BY <1>4, Zenon DEF WatchContext
    <2>2. /\ cc' \in [Regs -> {"none", "open", "draining", "stopped", "closed"}]
          /\ \A r \in Regs : r # q => cc'[r] = cc[r]
          /\ cc'[q] = cc[q] \/ cc'[q] = "stopped"
      BY <2>1 DEF Stop, IInv, TypeOK
    <2>3. TypeOK'
      BY <2>1, <2>2, Zenon DEF IInv, TypeOK
    <2> QED
      BY <2>1, <2>2, <2>3, WatchKept, Zenon DEF IInv, NoFalseStop
  <1>5. CASE WatchClosing(q)
    <2>1. closing /\ watch' = [watch EXCEPT ![q] = "done"]
          /\ UNCHANGED <<held, attached, pc, at, ended, cc, busy, handed, deleted, gone, reported, closing, close, consuming>>
      BY <1>5 DEF WatchClosing
    <2>2. TypeOK'
      BY <2>1 DEF IInv, TypeOK
    <2> QED
      BY <2>1, <2>2, ClosingKept DEF IInv, NoFalseStop
  <1> QED
    BY <1>1, <1>2, <1>3, <1>4, <1>5 DEF WatchStep

-----------------------------------------------------------------------------
(* Close.                                                                  *)

LEMMA CloseInv ==
    ASSUME IInv, NEW k \in Closers, BeginClose(k) \/ CloseStep(k)
    PROVE  IInv'
  <1> USE DEF subscribeVars, consumerVars, serverVars, watchVars
  <1>1. CASE BeginClose(k)
    <2>1. TypeOK' /\ closing' /\ NoFalseStop'
      BY <1>1 DEF BeginClose, IInv, TypeOK, NoFalseStop
    <2> QED
      BY <2>1, ClosingKept
  <1>2. CASE Collect(k)
    <2>1. closing' /\ NoFalseStop'
      BY <1>2, ZenonT(30) DEF Collect, IInv, NoFalseStop
    <2>2. /\ close' \in [Closers -> {"idle", "collecting", "draining", "waiting", "nil", "late"}]
          /\ consuming' \in [Closers -> SUBSET Regs] /\ held' \in [Groups -> Regs \cup {NoReg}]
      BY <1>2 DEF Collect, IInv, TypeOK
    <2>3. TypeOK'
      BY <1>2, <2>2 DEF Collect, IInv, TypeOK
    <2> QED
      BY <2>1, <2>3, ClosingKept
  <1>3. CASE DrainAll(k)
    <2>1. closing' /\ NoFalseStop'
      BY <1>3, Zenon DEF DrainAll, IInv, NoFalseStop
    <2>2. /\ close' \in [Closers -> {"idle", "collecting", "draining", "waiting", "nil", "late"}]
          /\ cc' \in [Regs -> {"none", "open", "draining", "stopped", "closed"}]
      BY <1>3, Zenon DEF DrainAll, Drain, IInv, TypeOK
    <2>3. TypeOK'
      BY <1>3, <2>2 DEF DrainAll, IInv, TypeOK
    <2> QED
      BY <2>1, <2>3, ClosingKept
  <1>4. CASE CloseReturns(k)
    <2>1. closing' /\ NoFalseStop'
      BY <1>4, ZenonT(30) DEF CloseReturns, IInv, NoFalseStop
    <2>2. /\ close' \in [Closers -> {"idle", "collecting", "draining", "waiting", "nil", "late"}]
          /\ cc' \in [Regs -> {"none", "open", "draining", "stopped", "closed"}]
      BY <1>4 DEF CloseReturns, Stop, IInv, TypeOK
    <2>3. TypeOK'
      BY <1>4, <2>2, Zenon DEF CloseReturns, IInv, TypeOK
    <2> QED
      BY <2>1, <2>3, ClosingKept
  <1> QED
    BY <1>1, <1>2, <1>3, <1>4 DEF CloseStep

-----------------------------------------------------------------------------
\* Every step keeps the invariant.
LEMMA NextInv == IInv /\ [Next]_vars => IInv'
  <1> SUFFICES ASSUME IInv, [Next]_vars PROVE IInv'
    OBVIOUS
  <1>1. ASSUME NEW c \in Calls, Subscribe(c) PROVE IInv'
    BY <1>1, EarlyInv DEF Subscribe
  <1>2. ASSUME NEW c \in Calls, CallStep(c) PROVE IInv'
    <2>1. CASE plan(c)
      BY <2>1, EarlyInv DEF plan
    <2> QED
      BY <1>2, <2>1, reserveInv, durableInv, StartConsumerInv, AttachInv, StopOwnInv, FailInv DEF CallStep
  <1>3. CASE \/ \E r \in Regs : StartHandler(r) \/ HandlerReturns(r)
             \/ \E g \in Groups : DeleteDurable(g)
             \/ \E c \in Calls : EndContext(c)
             \/ UNCHANGED vars
    BY <1>3, QuietInv
  <1>4. ASSUME NEW r \in Regs, WatchStep(r) \/ CloseConsumer(r) PROVE IInv'
    BY <1>4, WatchInv, CloseConsumerInv
  <1>5. ASSUME NEW k \in Closers, BeginClose(k) \/ CloseStep(k) PROVE IInv'
    BY <1>5, CloseInv
  <1> QED
    BY <1>1, <1>2, <1>3, <1>4, <1>5 DEF Next, GoroutineStep

\* The invariant gives the property of the runs.
LEMMA InvHeld == IInv => GroupsHeld
  <1> SUFFICES ASSUME IInv PROVE GroupsHeld
    OBVIOUS
  <1>1. ASSUME ~closing, NEW r \in Regs, Alive(r) PROVE held[r[2]] = r
    <2>1. CASE Watched(r)
      BY <1>1, <2>1 DEF IInv, Minded
    <2>2. CASE Attaching(r)
      <3>1. r[1] \in Calls /\ r \in NotStarted(r[1])
        BY <2>2, RegPair, NotStartedRegs DEF Attaching, IInv
      <3> QED
        BY <1>1, <2>2, <3>1 DEF IInv, Unstarted, Active, Attaching
    <2> QED
      BY <1>1, <2>1, <2>2 DEF IInv, Minded
  <1>2. HeldExact
    BY DEF IInv, HeldExact, Owned, Due, Active, Watched
  <1> QED
    BY <1>1, <1>2 DEF IInv, GroupsHeld, OneConsumer

\* For any calls, groups and Close calls: what a hold is worth, of every reachable state.
THEOREM Invariance == Spec => []IInv
  <1> QED
    BY InitInv, NextInv, PTL DEF Spec

\* Until Close, a group has one consumer in the process and one holder, who has yet to give it up, so
\* that a second Subscribe is refused while a handler runs; and ErrConsumerStopped is reported only
\* for a consumer that was lost (reserve, consumeGroup, release, Close).
THEOREM GroupsHeldTheorem == Spec => []GroupsHeld
  <1> QED
    BY Invariance, InvHeld, PTL
=============================================================================
