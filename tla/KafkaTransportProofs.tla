------------------------ MODULE KafkaTransportProofs ------------------------
(***************************************************************************)
(* What holds of the Kafka transport's claims and clients for any number   *)
(* of subscriptions, keys, contracts, publishers and Close calls: a topic  *)
(* of a group is read for one contract, the count of its readers is exact  *)
(* until Close, and every client is closed once and never left behind.     *)
(***************************************************************************)
EXTENDS KafkaTransport, TLAPS

\* From the look at closed in openConsumer to the end of the read loop.
Admitted == {"opening", "probing", "dialing", "dialed", "running", "leaving", "closing"}

\* A subscription that reads, or that nothing will keep from reading.
Reads(s) == pc[s] \in Admitted \/ client[s] = "open"

\* Subscriptions of one key that read do so for one contract.  OneContract speaks of open clients
\* alone: a subscription that passed the look at closed opens one after Close dropped the claims.
ReadsAlike ==
    \A s, t \in Subs : KeyOf[s] = KeyOf[t] /\ Reads(s) /\ Reads(t) => contract[s] = contract[t]

\* Until Close drops them, the claims are exact (claim, release).
Claimed ==
    ~closed => \A k \in Keys :
        /\ readers[k] = Cardinality(Holders(k))
        /\ holder[k] = NoContract <=> Holders(k) = {}
        /\ \A s \in Holders(k) : holder[k] = contract[s]

\* A client was closed once or not at all.
Counted == \A o \in Owners : closes[o] = IF client[o] = "closed" THEN 1 ELSE 0

\* Where the client of a subscription or of a publish is before it is opened and while it is its own.
OwnClient ==
    /\ \A s \in Subs : pc[s] \in {"idle", "claimed", "opening", "probing", "dialing"} => client[s] = "none"
    /\ \A s \in Subs : pc[s] \in {"dialed", "closing"} => client[s] = "open"
    /\ \A p \in Publishers : publish[p] = "idle" => client[p] = "none"

\* The transport's clients are open, and of read loops that have not given them up.
Tracked ==
    /\ \A s \in clients : client[s] = "open" /\ pc[s] \in {"running", "leaving"}
    /\ \A p \in producer : client[p] = "open"
    /\ closed => clients = {} /\ producer = {}

\* What a Close call has taken is open and no one else's.
Taken ==
    /\ \A c \in Closers, o \in Owners : o \in toClose[c] =>
          /\ closed
          /\ client[o] = "open"
          /\ o \in Subs => pc[o] \in {"running", "leaving", "left", "done"}
    /\ \A c, d \in Closers : c # d => toClose[c] \cap toClose[d] = {}
    /\ \A c \in Closers : closing[c] = "idle" => toClose[c] = {}

\* The inductive invariant.
IInv ==
    /\ TypeOK
    /\ Claimed
    /\ ReadsAlike
    /\ Counted
    /\ OwnClient
    /\ Tracked
    /\ Taken
    /\ NoLeak

-----------------------------------------------------------------------------
(* Facts the steps below share.                                            *)

\* What the proofs need of the sizes of finite sets; the library proves it, before the theorems.
SetSizes ==
    /\ \A S : Cardinality(S) = 0 /\ IsFiniteSet(S) <=> S = {}
    /\ \A S : IsFiniteSet(S) => Cardinality(S) \in Nat /\ \A T \in SUBSET S : IsFiniteSet(T)
    /\ \A S, x : IsFiniteSet(S) /\ x \notin S => Cardinality(S \cup {x}) = Cardinality(S) + 1
    /\ \A S, x : IsFiniteSet(S) /\ x \in S =>
                  IsFiniteSet(S \ {x}) /\ Cardinality(S \ {x}) = Cardinality(S) - 1

\* The invariant holds to begin with.
LEMMA InitInv ==
    ASSUME SetSizes, Init
    PROVE  IInv
  <1>1. TypeOK
    BY NoContractAssumption, Zenon DEF Init, TypeOK, Owners, Holding
  <1>2. Claimed
    <2>1. \A k \in Keys : Holders(k) = {}
      BY DEF Init, Holders, Holding
    <2> QED
      BY <2>1, Zenon DEF SetSizes, Claimed, Init
  <1>3. ReadsAlike
    BY DEF Init, ReadsAlike, Reads, Admitted, Owners
  <1>4. Counted /\ OwnClient /\ Tracked /\ Taken /\ NoLeak
    BY DEF Init, Counted, OwnClient, Tracked, Taken, NoLeak, Owners
  <1> QED
    BY <1>1, <1>2, <1>3, <1>4 DEF IInv

\* What is left of a finite set of n elements without one of them.
LEMMA OneLess ==
    ASSUME SetSizes, NEW S, IsFiniteSet(S), NEW x \in S, NEW n, n = Cardinality(S)
    PROVE  /\ Cardinality(S \ {x}) = IF n <= 1 THEN 0 ELSE n - 1
           /\ S \ {x} = {} <=> n <= 1
  <1>1. /\ Cardinality(S \ {x}) = n - 1 /\ IsFiniteSet(S \ {x}) /\ n \in Nat
        /\ Cardinality(S \ {x}) \in Nat
    BY Zenon DEF SetSizes
  <1>2. S \ {x} = {} <=> Cardinality(S \ {x}) = 0
    BY <1>1, Zenon DEF SetSizes
  <1> QED
    BY <1>1, <1>2

\* The subscriptions that hold a key are finitely many.
LEMMA HoldersFinite ==
    ASSUME SetSizes, NEW k \in Keys
    PROVE  IsFiniteSet(Holders(k)) /\ Cardinality(Holders(k)) \in Nat
  <1>1. Holders(k) \in SUBSET Subs
    BY DEF Holders
  <1> QED
    BY <1>1, SubsAssumption DEF SetSizes

\* A step in which no subscription takes or gives up a claim keeps the claims exact.
LEMMA ClaimedKept ==
    ASSUME Claimed, UNCHANGED <<holder, readers, contract, closed>>,
           \A s \in Subs : pc'[s] \in Holding <=> pc[s] \in Holding
    PROVE  Claimed'
  <1>1. \A k \in Keys : Holders(k)' = Holders(k)
    BY DEF Holders
  <1> QED
    BY <1>1 DEF Claimed

\* A step after which no other subscription reads keeps the readers of a key of one contract.
LEMMA ReadsAlikeKept ==
    ASSUME ReadsAlike, UNCHANGED contract, \A s \in Subs : Reads(s)' => Reads(s)
    PROVE  ReadsAlike'
  BY DEF ReadsAlike

\* Until Close, whoever reads holds the claim on its key.
LEMMA ReadersHold ==
    ASSUME IInv, ~closed, NEW s \in Subs, Reads(s)
    PROVE  s \in Holders(KeyOf[s])
  <1>1. pc[s] \in Holding
    <2>1. CASE pc[s] \in Admitted
      BY <2>1 DEF Admitted, Holding
    <2>2. CASE client[s] = "open"
      <3>1. s \in Owners
        BY DEF Owners
      <3>2. \A c \in Closers : s \notin toClose[c]
        BY <3>1 DEF IInv, Taken
      <3>3. s \in clients \cup producer \/ pc[s] \in {"dialed", "closing"}
        BY <2>2, <3>1, <3>2 DEF IInv, NoLeak
      <3>4. s \notin producer
        BY NamesAssumption DEF IInv, TypeOK
      <3> QED
        BY <3>3, <3>4 DEF IInv, Tracked, Holding
    <2> QED
      BY <2>1, <2>2 DEF Reads
  <1> QED
    BY <1>1 DEF Holders

-----------------------------------------------------------------------------
(* subscribeOne.                                                           *)

\* A claim that joins adds the subscription to the readers of its key; one that is refused
\* changes nothing.
LEMMA claimInv ==
    ASSUME SetSizes, IInv, NEW s \in Subs, NEW a \in Contracts, claim(s, a)
    PROVE  IInv'
  <1> DEFINE k == KeyOf[s]
  <1>1. k \in Keys /\ pc[s] = "idle" /\ client[s] = "none"
    BY SubsAssumption DEF claim, IInv, OwnClient
  <1>2. UNCHANGED <<clients, shareOK, ended, publishVars, closeVars, clientVars>>
    BY DEF claim
  <1>3. contract' = [contract EXCEPT ![s] = a]
    BY DEF claim
  <1>4. \/ /\ holder[k] \in {NoContract, a}
           /\ holder' = [holder EXCEPT ![k] = a]
           /\ readers' = [readers EXCEPT ![k] = @ + 1]
           /\ pc' = [pc EXCEPT ![s] = "claimed"]
        \/ /\ pc' = [pc EXCEPT ![s] = "returned"]
           /\ UNCHANGED <<holder, readers>>
    BY DEF claim, Joins, claimVars
  <1> USE <1>1, <1>2, <1>3 DEF IInv, publishVars, closeVars, clientVars
  <1>5. TypeOK'
    BY <1>4 DEF TypeOK, Holding
  <1>6. pc' \in [Subs -> Holding \cup {"idle", "returned", "done"}] /\ pc'[s] \in {"claimed", "returned"}
        /\ \A t \in Subs : t # s => pc'[t] = pc[t] /\ contract'[t] = contract[t]
    BY <1>4, <1>5 DEF TypeOK
  <1>7. Claimed'
    <2> SUFFICES ASSUME ~closed, NEW j \in Keys
                 PROVE  /\ readers'[j] = Cardinality(Holders(j)')
                        /\ holder'[j] = NoContract <=> Holders(j)' = {}
                        /\ \A t \in Holders(j)' : holder'[j] = contract'[t]
      BY DEF Claimed
    <2>0. /\ readers[j] = Cardinality(Holders(j))
          /\ holder[j] = NoContract <=> Holders(j) = {}
          /\ \A t \in Holders(j) : holder[j] = contract[t]
      BY DEF Claimed
    <2>1. s \notin Holders(j)
      BY DEF Holders, Holding
    <2>2. CASE pc'[s] = "returned" \/ j # k
      <3>1. Holders(j)' = Holders(j)
        BY <1>6, <2>2 DEF Holders, Holding, TypeOK
      <3>2. readers'[j] = readers[j] /\ holder'[j] = holder[j]
        BY <1>4, <2>2 DEF TypeOK
      <3>3. \A t \in Holders(j) : contract'[t] = contract[t]
        BY <1>6, <2>1 DEF Holders
      <3> QED
        BY <2>0, <3>1, <3>2, <3>3
    <2>3. CASE pc'[s] = "claimed" /\ j = k
      <3>1. Holders(j)' = Holders(j) \cup {s}
        BY <1>6, <2>3 DEF Holders, Holding
      <3>2. holder[k] \in {NoContract, a} /\ readers'[j] = readers[j] + 1 /\ holder'[j] = a
        BY <1>4, <2>3 DEF TypeOK
      <3>3. Cardinality(Holders(j)') = Cardinality(Holders(j)) + 1
        BY <2>1, <3>1, HoldersFinite, Zenon DEF SetSizes
      <3>4. \A t \in Holders(j) : contract'[t] = a
        BY <1>6, <2>0, <2>1, <2>3, <3>2 DEF Holders
      <3>5. contract'[s] = a
        BY DEF TypeOK
      <3> QED
        BY <2>0, <3>1, <3>2, <3>3, <3>4, <3>5, NoContractAssumption
    <2> QED
      BY <1>6, <2>2, <2>3
  <1>8. ReadsAlike'
    <2>1. ~Reads(s)'
      BY <1>6 DEF Reads, Admitted
    <2>2. \A t \in Subs : t # s => (Reads(t)' <=> Reads(t))
      BY <1>6 DEF Reads
    <2> QED
      BY <1>6, <2>1, <2>2 DEF ReadsAlike
  <1>9. Counted' /\ OwnClient'
    BY <1>6 DEF Counted, OwnClient
  <1>10. Tracked' /\ Taken'
    BY <1>6, NamesAssumption DEF Tracked, Taken, TypeOK
  <1>11. NoLeak'
    BY <1>6 DEF NoLeak
  <1> QED
    BY <1>5, <1>7, <1>8, <1>9, <1>10, <1>11

\* A step that moves one subscription on and touches neither claims nor clients: it still has
\* no client, or its loop leaves; it passes the look at closed only before Close.
LEMMA MoveInv ==
    ASSUME IInv, NEW s \in Subs, NEW to \in Holding, pc[s] \in Holding,
           pc' = [pc EXCEPT ![s] = to], shareOK' \in BOOLEAN,
           UNCHANGED <<claimVars, clients, ended, contract, publishVars, closeVars, clientVars>>,
           \/ pc[s] \in {"claimed", "opening", "probing", "dialing"} /\ to \in {"opening", "probing", "dialing", "failing"}
           \/ pc[s] = "running" /\ to = "leaving",
           to \in Admitted => pc[s] \in Admitted \/ ~closed
    PROVE  IInv'
  <1> USE DEF IInv, claimVars, publishVars, closeVars, clientVars
  <1>1. TypeOK'
    BY DEF TypeOK
  <1>2. pc'[s] = to /\ \A t \in Subs : t # s => pc'[t] = pc[t]
    BY DEF TypeOK
  <1>3. Claimed'
    BY <1>2, ClaimedKept
  <1>4. ReadsAlike'
    <2>1. CASE Reads(s)' => Reads(s)
      <3>1. \A t \in Subs : Reads(t)' => Reads(t)
        BY <1>2, <2>1 DEF Reads
      <3> QED
        BY <3>1, ReadsAlikeKept
    <2>2. CASE Reads(s)' /\ ~Reads(s)
      <3>1. ~closed
        BY <1>2, <2>2 DEF Reads
      <3>2. \A t \in Subs : Reads(t)' => t \in Holders(KeyOf[t])
        <4>1. s \in Holders(KeyOf[s])
          BY DEF Holders
        <4>2. \A t \in Subs : t # s /\ Reads(t)' => Reads(t)
          BY <1>2 DEF Reads
        <4> QED
          BY <3>1, <4>1, <4>2, ReadersHold
      <3>3. \A t \in Subs : Reads(t)' => contract[t] = holder[KeyOf[t]]
        BY <3>1, <3>2, SubsAssumption DEF Claimed
      <3> QED
        BY <3>3 DEF ReadsAlike
    <2> QED
      BY <2>1, <2>2
  <1>5. Counted' /\ OwnClient'
    BY <1>2 DEF Counted, OwnClient
  <1>6. Tracked'
    BY <1>2 DEF Tracked, TypeOK, OwnClient
  <1>7. Taken'
    <2> SUFFICES ASSUME NEW c \in Closers, s \in toClose[c] PROVE to \in {"running", "leaving", "left", "done"}
      BY <1>2 DEF Taken
    <2> QED
      BY DEF Taken, Owners
  <1>8. NoLeak'
    BY <1>2 DEF NoLeak
  <1> QED
    BY <1>1, <1>3, <1>4, <1>5, <1>6, <1>7, <1>8

\* openConsumer's look at closed, the probe and its answer, and a loop that sees it must stop.
LEMMA MovesInv ==
    ASSUME IInv, NEW s \in Subs,
           CheckClosed(s) \/ probeShareAPIs(s) \/ ProbeReturns(s) \/ LeaveLoop(s)
    PROVE  IInv'
  <1>1. CASE CheckClosed(s)
    <2> DEFINE to == IF closed THEN "failing" ELSE "opening"
    <2>1. to \in {"opening", "failing"} /\ (to \in Admitted => ~closed)
      BY DEF Admitted
    <2> QED
      BY <1>1, <2>1, MoveInv, Zenon DEF CheckClosed, Holding, IInv, TypeOK
  <1>2. CASE probeShareAPIs(s)
    <2> DEFINE to == IF Share /\ ~shareOK THEN "probing" ELSE "dialing"
    <2>1. to \in {"probing", "dialing"}
      OBVIOUS
    <2> QED
      BY <1>2, <2>1, MoveInv, Zenon DEF probeShareAPIs, Holding, IInv, TypeOK, Admitted
  <1>3. CASE ProbeReturns(s)
    BY <1>3, MoveInv, Zenon DEF ProbeReturns, Holding, IInv, TypeOK, Admitted
  <1>4. CASE LeaveLoop(s)
    BY <1>4, MoveInv, Zenon DEF LeaveLoop, Holding, IInv, TypeOK, Admitted
  <1> QED
    BY <1>1, <1>2, <1>3, <1>4

\* newClient opens the client of a subscription that had none.
LEMMA newClientInv ==
    ASSUME IInv, NEW s \in Subs, newClient(s)
    PROVE  IInv'
  <1>1. CASE pc' = [pc EXCEPT ![s] = "failing"] /\ UNCHANGED clientVars
    BY <1>1, MoveInv, Zenon DEF newClient, Holding, IInv, TypeOK, Admitted
  <1>2. CASE pc' = [pc EXCEPT ![s] = "dialed"] /\ OpenClient(s)
    <2>1. /\ pc[s] = "dialing" /\ client[s] = "none" /\ s \in Owners
          /\ client' = [client EXCEPT ![s] = "open"] /\ UNCHANGED closes
          /\ UNCHANGED <<holder, readers, clients, shareOK, ended, contract, publishVars, closeVars>>
      BY <1>2 DEF newClient, OpenClient, IInv, OwnClient, Owners, claimVars
    <2> USE <1>2, <2>1 DEF IInv, publishVars, closeVars
    <2>2. TypeOK'
      BY DEF TypeOK, Holding
    <2>3. /\ pc'[s] = "dialed" /\ \A t \in Subs : t # s => pc'[t] = pc[t]
          /\ client'[s] = "open" /\ \A o \in Owners : o # s => client'[o] = client[o]
      BY DEF TypeOK
    <2>4. Claimed'
      BY <2>3, ClaimedKept DEF Holding
    <2>5. ReadsAlike'
      <3>1. \A t \in Subs : Reads(t)' => Reads(t)
        BY <2>3 DEF Reads, Admitted, Owners
      <3> QED
        BY <3>1, ReadsAlikeKept
    <2>6. Counted'
      BY <2>3 DEF Counted
    <2>7. OwnClient'
      BY <2>3, NamesAssumption DEF OwnClient, Owners
    <2>8. Tracked'
      BY <2>3, NamesAssumption DEF Tracked, TypeOK, Owners
    <2>9. Taken'
      BY <2>3 DEF Taken, Owners
    <2>10. NoLeak'
      BY <2>3 DEF NoLeak, Owners
    <2> QED
      BY <2>2, <2>4, <2>5, <2>6, <2>7, <2>8, <2>9, <2>10
  <1> QED
    BY <1>1, <1>2 DEF newClient

\* track makes the client the transport's, or closes it behind Close.
LEMMA trackInv ==
    ASSUME IInv, NEW s \in Subs, track(s)
    PROVE  IInv'
  <1>1. /\ pc[s] = "dialed" /\ client[s] = "open" /\ s \in Owners
        /\ UNCHANGED <<holder, readers, shareOK, ended, contract, publishVars, closeVars>>
    BY DEF track, IInv, OwnClient, Owners, claimVars
  <1>2. s \notin clients /\ \A c \in Closers : s \notin toClose[c]
    BY <1>1 DEF IInv, Tracked, Taken
  <1> USE <1>1 DEF IInv, publishVars, closeVars
  <1>3. CASE ~closed /\ clients' = clients \cup {s} /\ pc' = [pc EXCEPT ![s] = "running"] /\ UNCHANGED clientVars
    <2> USE <1>3 DEF clientVars
    <2>1. TypeOK'
      BY DEF TypeOK, Holding
    <2>2. pc'[s] = "running" /\ \A t \in Subs : t # s => pc'[t] = pc[t]
      BY DEF TypeOK
    <2>3. Claimed'
      BY <2>2, ClaimedKept DEF Holding
    <2>4. ReadsAlike'
      <3>1. \A t \in Subs : Reads(t)' => Reads(t)
        BY <2>2 DEF Reads, Admitted
      <3> QED
        BY <3>1, ReadsAlikeKept
    <2>5. Counted' /\ OwnClient'
      BY <2>2 DEF Counted, OwnClient
    <2>6. Tracked'
      BY <2>2 DEF Tracked, TypeOK
    <2>7. Taken'
      BY <1>2, <2>2 DEF Taken, TypeOK
    <2>8. NoLeak'
      BY <2>2 DEF NoLeak
    <2> QED
      BY <2>1, <2>3, <2>4, <2>5, <2>6, <2>7, <2>8
  <1>4. CASE closed /\ CloseClient(s) /\ pc' = [pc EXCEPT ![s] = "failing"] /\ UNCHANGED clients
    <2>1. client' = [client EXCEPT ![s] = "closed"] /\ closes' = [closes EXCEPT ![s] = @ + 1]
      BY <1>4 DEF CloseClient
    <2> USE <1>4, <2>1
    <2>2. TypeOK'
      BY DEF TypeOK, Holding
    <2>3. /\ pc'[s] = "failing" /\ \A t \in Subs : t # s => pc'[t] = pc[t]
          /\ client'[s] = "closed" /\ \A o \in Owners : o # s => client'[o] = client[o]
          /\ closes'[s] = closes[s] + 1 /\ \A o \in Owners : o # s => closes'[o] = closes[o]
      BY DEF TypeOK
    <2>4. Claimed'
      BY <2>3, ClaimedKept DEF Holding
    <2>5. ReadsAlike'
      <3>1. \A t \in Subs : Reads(t)' => Reads(t)
        BY <2>3 DEF Reads, Admitted, Owners
      <3> QED
        BY <3>1, ReadsAlikeKept
    <2>6. Counted'
      BY <2>3 DEF Counted
    <2>7. OwnClient'
      BY <2>3, NamesAssumption DEF OwnClient, Owners
    <2>8. Tracked'
      BY <1>2, <2>3, NamesAssumption DEF Tracked, TypeOK, Owners
    <2>9. Taken'
      BY <1>2, <2>3 DEF Taken, Owners
    <2>10. NoLeak'
      BY <2>3 DEF NoLeak, Owners
    <2> QED
      BY <2>2, <2>4, <2>5, <2>6, <2>7, <2>8, <2>9, <2>10
  <1> QED
    BY <1>3, <1>4 DEF track, GiveUp

-----------------------------------------------------------------------------
(* The end of a read loop.                                                 *)

\* releaseClient takes the client back from the transport, or leaves it to the Close call that
\* took it.
LEMMA releaseClientInv ==
    ASSUME IInv, NEW s \in Subs, releaseClient(s)
    PROVE  IInv'
  <1>1. /\ pc[s] = "leaving" /\ clients' = clients \ {s} /\ s \in Owners
        /\ pc' = [pc EXCEPT ![s] = IF s \in clients THEN "closing" ELSE "left"]
        /\ UNCHANGED <<holder, readers, shareOK, ended, contract, publishVars, closeVars, clientVars>>
    BY DEF releaseClient, Held, Owners, claimVars
  <1> USE <1>1 DEF IInv, publishVars, closeVars, clientVars
  <1>2. TypeOK'
    BY DEF TypeOK, Holding
  <1>3. /\ pc'[s] = IF s \in clients THEN "closing" ELSE "left"
        /\ \A t \in Subs : t # s => pc'[t] = pc[t]
    BY DEF TypeOK
  <1>4. Claimed'
    BY <1>3, ClaimedKept DEF Holding
  <1>5. ReadsAlike'
    <2>1. \A t \in Subs : Reads(t)' => Reads(t)
      BY <1>3 DEF Reads, Admitted
    <2> QED
      BY <2>1, ReadsAlikeKept
  <1>6. Counted' /\ OwnClient'
    BY <1>3 DEF Counted, OwnClient, Tracked
  <1>7. Tracked'
    BY <1>3 DEF Tracked, TypeOK
  <1>8. Taken'
    <2>1. s \in clients => \A c \in Closers : s \notin toClose[c]
      BY DEF Tracked, Taken
    <2> QED
      BY <1>3, <2>1 DEF Taken
  <1>9. NoLeak'
    BY <1>3, NamesAssumption DEF NoLeak, TypeOK
  <1> QED
    BY <1>2, <1>4, <1>5, <1>6, <1>7, <1>8, <1>9

\* The loop closes the client it took back.
LEMMA CloseOwnInv ==
    ASSUME IInv, NEW s \in Subs, CloseOwn(s)
    PROVE  IInv'
  <1>1. /\ pc[s] = "closing" /\ client[s] = "open" /\ s \in Owners
        /\ pc' = [pc EXCEPT ![s] = "left"]
        /\ client' = [client EXCEPT ![s] = "closed"] /\ closes' = [closes EXCEPT ![s] = @ + 1]
        /\ UNCHANGED <<holder, readers, clients, shareOK, ended, contract, publishVars, closeVars>>
    BY DEF CloseOwn, CloseClient, IInv, OwnClient, Owners, claimVars
  <1>2. s \notin clients /\ \A c \in Closers : s \notin toClose[c]
    BY <1>1 DEF IInv, Tracked, Taken
  <1> USE <1>1 DEF IInv, publishVars, closeVars
  <1>3. TypeOK'
    BY DEF TypeOK, Holding
  <1>4. /\ pc'[s] = "left" /\ \A t \in Subs : t # s => pc'[t] = pc[t]
        /\ client'[s] = "closed" /\ \A o \in Owners : o # s => client'[o] = client[o]
        /\ closes'[s] = closes[s] + 1 /\ \A o \in Owners : o # s => closes'[o] = closes[o]
    BY DEF TypeOK
  <1>5. Claimed'
    BY <1>4, ClaimedKept DEF Holding
  <1>6. ReadsAlike'
    <2>1. \A t \in Subs : Reads(t)' => Reads(t)
      BY <1>4 DEF Reads, Admitted, Owners
    <2> QED
      BY <2>1, ReadsAlikeKept
  <1>7. Counted'
    BY <1>4 DEF Counted
  <1>8. OwnClient'
    BY <1>4, NamesAssumption DEF OwnClient, Owners
  <1>9. Tracked'
    BY <1>2, <1>4, NamesAssumption DEF Tracked, TypeOK, Owners
  <1>10. Taken'
    BY <1>2, <1>4 DEF Taken, Owners
  <1>11. NoLeak'
    BY <1>4 DEF NoLeak, Owners
  <1> QED
    BY <1>3, <1>5, <1>6, <1>7, <1>8, <1>9, <1>10, <1>11

\* release takes the subscription off the readers of its key; the last one frees it.
LEMMA releaseInv ==
    ASSUME SetSizes, IInv, NEW s \in Subs, release(s)
    PROVE  IInv'
  <1> DEFINE k == KeyOf[s]
  <1>1. /\ pc[s] \in {"left", "failing"} /\ k \in Keys
        /\ pc' = [pc EXCEPT ![s] = IF pc[s] = "left" THEN "done" ELSE "returned"]
        /\ holder' = IF readers[k] <= 1 THEN [holder EXCEPT ![k] = NoContract] ELSE holder
        /\ readers' = [readers EXCEPT ![k] = IF readers[k] <= 1 THEN 0 ELSE @ - 1]
        /\ UNCHANGED <<clients, shareOK, ended, contract, publishVars, closeVars, clientVars>>
    BY SubsAssumption DEF release, Freed
  <1> USE <1>1 DEF IInv, publishVars, closeVars, clientVars
  <1>2. TypeOK'
    <2>1. readers' \in [Keys -> Nat]
      BY DEF TypeOK
    <2> QED
      BY <2>1 DEF TypeOK
  <1>3. /\ pc'[s] \in {"done", "returned"} /\ (pc[s] = "left" => pc'[s] = "done")
        /\ \A t \in Subs : t # s => pc'[t] = pc[t]
    BY DEF TypeOK
  <1>4. Claimed'
    <2> SUFFICES ASSUME ~closed, NEW j \in Keys
                 PROVE  /\ readers'[j] = Cardinality(Holders(j)')
                        /\ holder'[j] = NoContract <=> Holders(j)' = {}
                        /\ \A t \in Holders(j)' : holder'[j] = contract[t]
      BY DEF Claimed
    <2>1. /\ readers[j] = Cardinality(Holders(j))
          /\ holder[j] = NoContract <=> Holders(j) = {}
          /\ \A t \in Holders(j) : holder[j] = contract[t]
      BY DEF Claimed
    <2>2. CASE j # k
      <3>1. Holders(j)' = Holders(j)
        BY <1>3, <2>2 DEF Holders
      <3>2. readers'[j] = readers[j] /\ holder'[j] = holder[j]
        BY <2>2 DEF TypeOK
      <3> QED
        BY <2>1, <3>1, <3>2
    <2>3. CASE j = k
      <3>1. s \in Holders(j) /\ Holders(j)' = Holders(j) \ {s}
        BY <1>3, <2>3 DEF Holders, Holding
      <3>2. /\ readers'[j] = IF readers[j] <= 1 THEN 0 ELSE readers[j] - 1
            /\ holder'[j] = IF readers[j] <= 1 THEN NoContract ELSE holder[j]
        BY <2>3 DEF TypeOK
      <3>3. IsFiniteSet(Holders(j))
        BY HoldersFinite, Zenon
      <3>4. /\ Cardinality(Holders(j) \ {s}) = IF readers[j] <= 1 THEN 0 ELSE readers[j] - 1
            /\ Holders(j) \ {s} = {} <=> readers[j] <= 1
        <4>1. s \in Holders(j) /\ readers[j] = Cardinality(Holders(j))
          BY <2>1, <3>1, Zenon
        <4> QED
          BY <3>3, <4>1, OneLess, Zenon
      <3>5. holder[j] # NoContract
        BY <2>1, <3>1, Zenon
      <3> QED
        BY <2>1, <3>1, <3>2, <3>4, <3>5, Zenon
    <2> QED
      BY <2>2, <2>3
  <1>5. ReadsAlike'
    <2>1. \A t \in Subs : Reads(t)' => Reads(t)
      BY <1>3 DEF Reads, Admitted
    <2> QED
      BY <2>1, ReadsAlikeKept
  <1>6. Counted' /\ OwnClient'
    BY <1>3 DEF Counted, OwnClient
  <1>7. Tracked' /\ Taken'
    BY <1>3 DEF Tracked, Taken, TypeOK, Owners
  <1>8. NoLeak'
    BY <1>3 DEF NoLeak
  <1> QED
    BY <1>2, <1>4, <1>5, <1>6, <1>7, <1>8

-----------------------------------------------------------------------------
(* The producer, and Close.                                                *)

\* producerClient opens the producer only before Close and only when there is none.
LEMMA producerClientInv ==
    ASSUME IInv, NEW p \in Publishers, producerClient(p)
    PROVE  IInv'
  <1>1. /\ publish[p] = "idle" /\ client[p] = "none" /\ p \in Owners /\ p \notin Subs
        /\ UNCHANGED <<holder, readers, clients, shareOK, ended, pc, contract, closed, closing, toClose>>
    BY NamesAssumption, Zenon DEF producerClient, IInv, OwnClient, Owners, claimVars, subVars, closeVars
  <1> USE <1>1 DEF IInv
  <1>2. Claimed'
    BY ClaimedKept, Zenon
  <1>3. CASE /\ publish' \in [Publishers -> {"idle", "producing", "nil", "ErrClosed", "error"}]
             /\ publish'[p] # "idle" /\ \A q \in Publishers : q # p => publish'[q] = publish[q]
             /\ using' \in [Publishers -> SUBSET Publishers]
             /\ UNCHANGED <<producer, client, closes>>
    <2> USE <1>3
    <2>1. TypeOK'
      BY DEF TypeOK
    <2>2. ReadsAlike' /\ Counted'
      BY Zenon DEF ReadsAlike, Reads, Counted
    <2>3. OwnClient'
      BY Zenon DEF OwnClient
    <2>4. Tracked' /\ Taken'
      BY Zenon DEF Tracked, Taken
    <2>5. NoLeak'
      BY Zenon DEF NoLeak
    <2> QED
      BY <1>2, <2>1, <2>2, <2>3, <2>4, <2>5, Zenon
  <1>4. CASE /\ ~closed /\ producer = {} /\ producer' = {p}
             /\ publish' = [publish EXCEPT ![p] = "producing"]
             /\ using' = [using EXCEPT ![p] = producer']
             /\ client' = [client EXCEPT ![p] = "open"] /\ UNCHANGED closes
    <2> USE <1>4
    <2>1. TypeOK'
      BY DEF TypeOK
    <2>2. /\ publish'[p] = "producing" /\ \A q \in Publishers : q # p => publish'[q] = publish[q]
          /\ client'[p] = "open" /\ \A o \in Owners : o # p => client'[o] = client[o]
      BY DEF TypeOK
    <2>3. ReadsAlike'
      <3>1. \A t \in Subs : Reads(t)' => Reads(t)
        BY <2>2 DEF Reads, Owners
      <3> QED
        BY <3>1, ReadsAlikeKept
    <2>4. Counted'
      BY <2>2 DEF Counted
    <2>5. OwnClient'
      BY <2>2 DEF OwnClient, Owners
    <2>6. Tracked'
      BY <2>2 DEF Tracked, TypeOK, Owners
    <2>7. Taken'
      BY <2>2 DEF Taken
    <2>8. NoLeak'
      BY <2>2 DEF NoLeak
    <2> QED
      BY <1>2, <2>1, <2>3, <2>4, <2>5, <2>6, <2>7, <2>8
  <1>5. \/ /\ publish' = [publish EXCEPT ![p] = "ErrClosed"]
           /\ UNCHANGED <<producer, using, client, closes>>
        \/ /\ producer # {}
           /\ publish' = [publish EXCEPT ![p] = "producing"]
           /\ using' = [using EXCEPT ![p] = producer']
           /\ UNCHANGED <<producer, client, closes>>
        \/ /\ publish' = [publish EXCEPT ![p] = "error"]
           /\ UNCHANGED <<producer, using, client, closes>>
        \/ /\ ~closed /\ producer = {} /\ producer' = {p}
           /\ publish' = [publish EXCEPT ![p] = "producing"]
           /\ using' = [using EXCEPT ![p] = producer']
           /\ client' = [client EXCEPT ![p] = "open"] /\ UNCHANGED closes
    BY DEF producerClient, OpenClient, clientVars
  <1>6. CASE /\ publish' \in {[publish EXCEPT ![p] = "ErrClosed"], [publish EXCEPT ![p] = "error"]}
             /\ UNCHANGED <<producer, using, client, closes>>
    BY <1>3, <1>6 DEF TypeOK
  <1>7. CASE /\ publish' = [publish EXCEPT ![p] = "producing"]
             /\ using' = [using EXCEPT ![p] = producer']
             /\ UNCHANGED <<producer, client, closes>>
    BY <1>3, <1>7 DEF TypeOK
  <1> QED
    BY <1>4, <1>5, <1>6, <1>7

\* Produce returns, or the broker refuses the record: no client changes hands.
LEMMA ProduceInv ==
    ASSUME IInv, NEW p \in Publishers, Produce(p) \/ ProduceFails(p)
    PROVE  IInv'
  <1>1. /\ publish' \in [Publishers -> {"idle", "producing", "nil", "ErrClosed", "error"}]
        /\ publish'[p] # "idle" /\ \A q \in Publishers : q # p => publish'[q] = publish[q]
    BY DEF Produce, ProduceFails, IInv, TypeOK
  <1>2. UNCHANGED <<holder, readers, clients, producer, using, shareOK, ended, pc, contract, closed, closing, toClose, client, closes>>
    BY DEF Produce, ProduceFails, claimVars, subVars, closeVars, clientVars
  <1> USE <1>1, <1>2 DEF IInv
  <1>3. TypeOK'
    BY DEF TypeOK
  <1>4. Claimed'
    BY ClaimedKept
  <1>5. ReadsAlike' /\ Counted'
    BY DEF ReadsAlike, Reads, Counted
  <1>6. OwnClient'
    BY DEF OwnClient
  <1>7. Tracked' /\ Taken'
    BY DEF Tracked, Taken
  <1>8. NoLeak'
    BY DEF NoLeak
  <1> QED
    BY <1>3, <1>4, <1>5, <1>6, <1>7, <1>8

\* Close takes what the transport had, which no other Close call has.
LEMMA CloseInv ==
    ASSUME IInv, NEW c \in Closers, Close(c)
    PROVE  IInv'
  <1>1. /\ closing[c] = "idle" /\ toClose[c] = {}
        /\ closing' = [closing EXCEPT ![c] = "closing"] /\ closed' = TRUE
        /\ toClose' = [toClose EXCEPT ![c] = producer \cup clients]
        /\ producer' = {} /\ clients' = {}
        /\ holder' = [k \in Keys |-> NoContract] /\ readers' = [k \in Keys |-> 0]
        /\ UNCHANGED <<shareOK, ended, pc, contract, publish, using, client, closes>>
    BY DEF Close, IInv, Taken, subVars, clientVars
  <1> USE <1>1 DEF IInv
  <1>2. TypeOK'
    BY DEF TypeOK, Owners
  <1>3. /\ toClose'[c] = producer \cup clients /\ closing'[c] = "closing"
        /\ \A d \in Closers : d # c => toClose'[d] = toClose[d] /\ closing'[d] = closing[d]
    BY DEF TypeOK
  <1>4. Claimed' /\ ReadsAlike' /\ Counted' /\ OwnClient' /\ Tracked'
    <2>1. Claimed'
      BY DEF Claimed
    <2>2. ReadsAlike'
      BY DEF ReadsAlike, Reads
    <2>3. Counted'
      BY ZenonT(30) DEF Counted
    <2>4. OwnClient'
      BY Zenon DEF OwnClient
    <2>5. Tracked'
      BY DEF Tracked
    <2> QED
      BY <2>1, <2>2, <2>3, <2>4, <2>5
  <1>5. Taken'
    <2>1. ASSUME NEW d \in Closers, NEW o \in Owners, o \in toClose'[d]
          PROVE  client[o] = "open" /\ (o \in Subs => pc[o] \in {"running", "leaving", "left", "done"})
      <3>1. CASE d = c
        BY <1>3, <2>1, <3>1, NamesAssumption DEF Tracked, TypeOK
      <3>2. CASE d # c
        BY <1>3, <2>1, <3>2 DEF Taken
      <3> QED
        BY <3>1, <3>2
    <2>2. \A d \in Closers : d # c => toClose[d] \cap (producer \cup clients) = {}
      <3> SUFFICES ASSUME NEW d \in Closers, NEW o \in toClose[d] PROVE o \notin producer \cup clients
        OBVIOUS
      <3>1. o \in Owners
        BY DEF TypeOK
      <3>2. closed
        BY <3>1, Zenon DEF Taken
      <3> QED
        BY <3>2, Zenon DEF Tracked
    <2>3. \A d, e \in Closers : d # e => toClose'[d] \cap toClose'[e] = {}
      BY <1>3, <2>2 DEF Taken
    <2>4. \A d \in Closers : closing'[d] = "idle" => toClose'[d] = {}
      BY <1>3 DEF Taken
    <2> QED
      BY <2>1, <2>3, <2>4, Zenon DEF Taken
  <1>6. NoLeak'
    BY <1>3 DEF NoLeak
  <1> QED
    BY <1>2, <1>4, <1>5, <1>6

\* A Close call closes a client it has taken.
LEMMA CloseNextInv ==
    ASSUME IInv, NEW c \in Closers, CloseNext(c)
    PROVE  IInv'
  <1>1. PICK o \in toClose[c] : CloseClient(o) /\ toClose' = [toClose EXCEPT ![c] = @ \ {o}]
    BY Zenon DEF CloseNext
  <1>2. /\ o \in Owners /\ client[o] = "open" /\ closed
        /\ o \in Subs => pc[o] \in {"running", "leaving", "left", "done"}
        /\ client' = [client EXCEPT ![o] = "closed"] /\ closes' = [closes EXCEPT ![o] = @ + 1]
        /\ UNCHANGED <<holder, readers, clients, producer, publish, using, shareOK, ended, pc, contract, closed, closing>>
    BY <1>1, Zenon DEF CloseNext, CloseClient, IInv, Taken, TypeOK, claimVars, subVars, publishVars
  <1> USE <1>1, <1>2 DEF IInv
  <1>3. TypeOK'
    BY DEF TypeOK
  <1>4. /\ client'[o] = "closed" /\ \A q \in Owners : q # o => client'[q] = client[q]
        /\ closes'[o] = closes[o] + 1 /\ \A q \in Owners : q # o => closes'[q] = closes[q]
        /\ toClose'[c] = toClose[c] \ {o} /\ \A d \in Closers : d # c => toClose'[d] = toClose[d]
    BY Zenon DEF TypeOK
  <1>5. \A d \in Closers : o \notin toClose'[d]
    BY <1>4, Zenon DEF Taken
  <1>6. Claimed'
    BY ClaimedKept
  <1>7. ReadsAlike'
    <2>1. \A t \in Subs : Reads(t)' => Reads(t)
      BY <1>4 DEF Reads, Owners
    <2> QED
      BY <2>1, ReadsAlikeKept
  <1>8. Counted'
    BY <1>4 DEF Counted
  <1>9. OwnClient'
    BY <1>4 DEF OwnClient, Owners
  <1>10. Tracked'
    BY DEF Tracked
  <1>11. Taken'
    <2>1. \A d \in Closers : toClose'[d] \subseteq toClose[d]
      BY <1>4
    <2>2. ASSUME NEW d \in Closers, NEW q \in Owners, q \in toClose'[d]
          PROVE  closed' /\ client'[q] = "open" /\ (q \in Subs => pc'[q] \in {"running", "leaving", "left", "done"})
      <3>1. q # o /\ q \in toClose[d]
        BY <1>5, <2>1, <2>2
      <3>2. client'[q] = client[q]
        BY <1>4, <3>1
      <3> QED
        BY <3>1, <3>2 DEF Taken
    <2>3. \A d, e \in Closers : d # e => toClose'[d] \cap toClose'[e] = {}
      BY <2>1 DEF Taken
    <2>4. \A d \in Closers : closing'[d] = "idle" => toClose'[d] = {}
      BY <2>1 DEF Taken
    <2> QED
      BY <2>2, <2>3, <2>4 DEF Taken
  <1>12. NoLeak'
    BY <1>4 DEF NoLeak
  <1> QED
    BY <1>3, <1>6, <1>7, <1>8, <1>9, <1>10, <1>11, <1>12

\* A context ends, or a Close call returns.
LEMMA QuietInv ==
    ASSUME IInv,
           \/ \E s \in Subs : EndContext(s)
           \/ \E c \in Closers : CloseReturns(c)
           \/ UNCHANGED vars
    PROVE  IInv'
  <1>1. UNCHANGED <<holder, readers, clients, producer, publish, using, shareOK, pc, contract, closed, toClose, client, closes>>
    BY DEF EndContext, CloseReturns, vars, claimVars, subVars, publishVars, closeVars, clientVars
  <1>2. ended' \in [Subs -> BOOLEAN] /\ closing' \in [Closers -> {"idle", "closing", "returned"}]
    BY Zenon DEF EndContext, CloseReturns, vars, closeVars, IInv, TypeOK
  <1>3. \A c \in Closers : closing'[c] = "idle" => closing[c] = "idle"
    BY DEF EndContext, CloseReturns, vars, closeVars, IInv, TypeOK
  <1> USE <1>1 DEF IInv
  <1>4. TypeOK'
    BY <1>2 DEF TypeOK
  <1>5. Claimed'
    BY ClaimedKept, Zenon
  <1>6. ReadsAlike' /\ Counted'
    BY Zenon DEF ReadsAlike, Reads, Counted
  <1>7. OwnClient'
    BY Zenon DEF OwnClient
  <1>8. Tracked'
    BY DEF Tracked
  <1>9. Taken' /\ NoLeak'
    BY <1>3 DEF Taken, NoLeak
  <1> QED
    BY <1>4, <1>5, <1>6, <1>7, <1>8, <1>9

-----------------------------------------------------------------------------
\* Every step keeps the invariant.
LEMMA NextInv ==
    ASSUME SetSizes, IInv, [Next]_vars
    PROVE  IInv'
  <1>1. ASSUME NEW s \in Subs, SubStep(s) PROVE IInv'
    BY <1>1, MovesInv, newClientInv, trackInv, releaseClientInv, CloseOwnInv, releaseInv DEF SubStep
  <1>2. ASSUME NEW c \in Closers, Close(c) \/ CloseStep(c) PROVE IInv'
    BY <1>2, CloseInv, CloseNextInv, QuietInv DEF CloseStep
  <1>3. ASSUME NEW s \in Subs, (\E a \in Contracts : claim(s, a)) \/ EndContext(s) PROVE IInv'
    BY <1>3, claimInv, QuietInv
  <1>4. ASSUME NEW p \in Publishers, producerClient(p) \/ Produce(p) \/ ProduceFails(p) PROVE IInv'
    BY <1>4, producerClientInv, ProduceInv
  <1>5. CASE UNCHANGED vars
    BY <1>5, QuietInv
  <1> QED
    BY <1>1, <1>2, <1>3, <1>4, <1>5 DEF Next, GoroutineStep

-----------------------------------------------------------------------------
INSTANCE FiniteSetTheorems

\* The library proves what was assumed of finite sets.
LEMMA SetSizesHold == SetSizes
  <1>1. \A S : IsFiniteSet(S) => Cardinality(S) \in Nat /\ \A T \in SUBSET S : IsFiniteSet(T)
    BY FS_CardinalityType, FS_Subset
  <1>2. \A S : Cardinality(S) = 0 /\ IsFiniteSet(S) <=> S = {}
    BY FS_EmptySet
  <1>3. \A S, x : IsFiniteSet(S) /\ x \notin S => Cardinality(S \cup {x}) = Cardinality(S) + 1
    BY FS_AddElement
  <1>4. \A S, x : IsFiniteSet(S) /\ x \in S =>
                  IsFiniteSet(S \ {x}) /\ Cardinality(S \ {x}) = Cardinality(S) - 1
    BY FS_RemoveElement
  <1> QED
    BY <1>1, <1>2, <1>3, <1>4 DEF SetSizes

\* The invariant holds in every reachable state, for any subscriptions, contracts, publishers and
\* Close calls (Subscribe, Publish, Close).
THEOREM Invariance == Spec => []IInv
  <1>1. Init => IInv
    BY SetSizesHold, InitInv
  <1>2. IInv /\ [Next]_vars => IInv'
    BY SetSizesHold, NextInv
  <1> QED
    BY <1>1, <1>2, PTL DEF Spec

\* A topic of a group is read for one contract, before Close and after it, and until Close the
\* claims that see to it are exact (claim, release).
THEOREM TopicsHeldTheorem == Spec => []TopicsHeld
  <1>1. IInv => TopicsHeld
    <2>1. IInv => ClaimsExact
      BY DEF IInv, ClaimsExact, Claimed
    <2>2. IInv => OneContract
      BY DEF IInv, OneContract, ReadsAlike, Reads
    <2> QED
      BY <2>1, <2>2 DEF TopicsHeld
  <1> QED
    BY <1>1, Invariance, PTL

\* A client is closed at most once, and while it is open it is someone's to close (track,
\* releaseClient, Close).
THEOREM ClientsClosedTheorem == Spec => []ClientsClosed
  <1>1. IInv => ClientsClosed
    <2>1. IInv => ClosedOnce
      BY DEF IInv, ClosedOnce, Counted, TypeOK
    <2> QED
      BY <2>1 DEF ClientsClosed, IInv
  <1> QED
    BY <1>1, Invariance, PTL
=============================================================================
