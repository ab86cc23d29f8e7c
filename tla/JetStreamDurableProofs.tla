----------------------- MODULE JetStreamDurableProofs -----------------------
(***************************************************************************)
(* What holds of a group's durable for any replicas, plans and messages:   *)
(* it is narrowed only on request or by a replica whose lookup is out of   *)
(* date, and a replica that consumes is served every subject it subscribes *)
(* until such a write takes one away.                                      *)
(***************************************************************************)
EXTENDS JetStreamDurable, TLAPS

States == {"down", "looking", "creating", "updating", "consuming", "failed"}

\* Each variable has its type, as far as the proofs need it.
Types ==
    /\ durable \in [there : BOOLEAN, filter : SUBSET Subjects, explicit : BOOLEAN]
    /\ version \in Nat
    /\ pc \in [Replicas -> States]
    /\ carried \in [Replicas -> SUBSET Subjects]
    /\ looked \in [Replicas -> Nat]

\* A replica about to write found a filter it may write over, and while its lookup is not out of
\* date the filter is still the one it found.
Writer(r) ==
    /\ durable.there
    /\ looked[r] <= version
    /\ looked[r] = version => carried[r] = durable.filter
    /\ r \in AllowNarrow \/ (carried[r] # {} /\ carried[r] \subseteq Planned(r))

\* What ServedWhileUp says of one replica.
Served(r) == \A s \in Planned(r) : Filtered(s) \/ s \in taken

IInv ==
    /\ Types
    /\ \A r \in Replicas : pc[r] = "updating" => Writer(r)
    /\ \A r \in Replicas : pc[r] = "consuming" => Served(r)

\* What a replica plans is a set of subjects.
LEMMA PlannedSubjects == \A r \in Replicas : Planned(r) \subseteq Subjects
  BY SubsAssumption DEF Planned

\* The invariant holds to begin with.
LEMMA InitInv == Init => IInv
  <1> SUFFICES ASSUME Init PROVE IInv
    OBVIOUS
  <1>1. Types
    BY DurablesAssumption DEF Init, Types, States
  <1>2. \A r \in Replicas : pc[r] = "down"
    BY DEF Init
  <1> QED
    BY <1>1, <1>2 DEF IInv

\* A step in which a replica does not come to write or to consume, no write is made and no lookup
\* changes keeps every writer a writer and every replica served.
LEMMA Kept ==
    ASSUME IInv, UNCHANGED <<durable, version, taken, carried, looked>>,
           \A r \in Replicas : pc'[r] \in {"updating", "consuming"} => pc'[r] = pc[r]
    PROVE  /\ \A r \in Replicas : pc'[r] = "updating" => Writer(r)'
           /\ \A r \in Replicas : pc'[r] = "consuming" => Served(r)'
  <1>1. ASSUME NEW r \in Replicas, pc'[r] = "updating" PROVE Writer(r)'
    BY <1>1 DEF IInv, Writer, Planned
  <1>2. ASSUME NEW r \in Replicas, pc'[r] = "consuming" PROVE Served(r)'
    <2>1. Served(r)
      BY <1>2 DEF IInv
    <2> QED
      BY <2>1 DEF Served, Filtered, Through, Planned
  <1> QED
    BY <1>1, <1>2

\* The replica whose plan the durable filters exactly is served.
LEMMA ExactServes ==
    ASSUME NEW r \in Replicas, durable.there, durable.filter = Planned(r)
    PROVE  Served(r)
  BY PlannedSubjects DEF Served, Filtered, Through

\* UpdateConsumer of replica r: whoever was served still is, and r is.
LEMMA UpdateServes ==
    ASSUME IInv, NEW r \in Replicas, Update(r), NEW q \in Replicas, q = r \/ Served(q)
    PROVE  Served(q)'
  <1> SUFFICES ASSUME NEW s \in Planned(q) PROVE Filtered(s)' \/ s \in taken'
    BY DEF Served, Planned
  <1>1. /\ Writer(r)
        /\ durable'.there
        /\ durable'.filter = Planned(r)
        /\ taken' = (taken \cup (IF MayTake(r) THEN Through(durable.filter) ELSE {})) \ Planned(r)
    BY DEF Update, SetFilter, IInv, Types, Writer
  <1>2. s \in Subjects
    BY PlannedSubjects
  <1>3. CASE s \in Planned(r)
    BY <1>1, <1>2, <1>3 DEF Filtered, Through
  <1>4. CASE s \notin Planned(r)
    <2>1. Filtered(s) \/ s \in taken
      BY <1>4 DEF Served
    <2>2. CASE s \in taken
      BY <1>1, <1>4, <2>2
    <2>3. CASE Filtered(s) /\ MayTake(r)
      BY <1>1, <1>4, <2>3 DEF Filtered
    <2>4. CASE Filtered(s) /\ ~MayTake(r)
      <3>1. durable.filter # {} /\ durable.filter \subseteq Planned(r)
        BY <1>1, <2>4 DEF MayTake, Writer
      <3> QED
        BY <1>4, <2>4, <3>1 DEF Filtered, Through
    <2> QED
      BY <2>1, <2>2, <2>3, <2>4
  <1> QED
    BY <1>3, <1>4

\* Every step keeps the invariant (Subscribe of each replica, dispatch of each message).
LEMMA NextInv == IInv /\ [Next]_vars => IInv'
  <1> SUFFICES ASSUME IInv, [Next]_vars PROVE IInv'
    OBVIOUS
  <1> USE DEF IInv
  <1>1. ASSUME NEW r \in Replicas, Start(r) PROVE IInv'
    <2>1. Types'
      BY <1>1 DEF Start, Types, States
    <2>2. \A q \in Replicas : pc'[q] \in {"updating", "consuming"} => pc'[q] = pc[q]
      BY <1>1 DEF Start, Types
    <2> QED
      BY <1>1, <2>1, <2>2, Kept DEF Start
  <1>2. ASSUME NEW r \in Replicas, Lookup(r) PROVE IInv'
    <2>1. Types'
      BY <1>2 DEF Lookup, Types, States
    <2>2. durable' = durable /\ version' = version /\ taken' = taken
      BY <1>2 DEF Lookup
    <2>3. ASSUME NEW q \in Replicas, q # r
          PROVE  pc'[q] = pc[q] /\ carried'[q] = carried[q] /\ looked'[q] = looked[q]
      BY <1>2, <2>3 DEF Lookup, Types
    <2>4. ASSUME NEW q \in Replicas, pc'[q] = "updating" PROVE Writer(q)'
      <3>1. CASE q = r
        <4>1. /\ durable.there
              /\ Adopting(durable.filter, Planned(r), r \in AllowNarrow) = "repoint"
          BY <1>2, <2>4, <3>1 DEF Lookup, Types
        <4>2. r \in AllowNarrow \/ (durable.filter # {} /\ durable.filter \subseteq Planned(r))
          BY <4>1 DEF Adopting, Widens
        <4>3. carried'[r] = durable.filter /\ looked'[r] = version
          BY <1>2 DEF Lookup, Types
        <4> QED
          BY <2>2, <3>1, <4>1, <4>2, <4>3 DEF Writer, Types, Planned
      <3>2. CASE q # r
        <4>1. Writer(q)
          BY <2>3, <2>4, <3>2
        <4> QED
          BY <2>2, <2>3, <3>2, <4>1 DEF Writer, Planned
      <3> QED
        BY <3>1, <3>2
    <2>5. ASSUME NEW q \in Replicas, pc'[q] = "consuming" PROVE Served(q)'
      <3>1. CASE q = r
        <4>1. /\ durable.there
              /\ Adopting(durable.filter, Planned(r), r \in AllowNarrow) = "adoptAsIs"
          BY <1>2, <2>5, <3>1 DEF Lookup, Types
        <4>2. durable.filter = Planned(r)
          BY <4>1 DEF Adopting
        <4>3. Served(q)
          BY <3>1, <4>1, <4>2, ExactServes
        <4> QED
          BY <2>2, <4>3 DEF Served, Filtered, Through, Planned
      <3>2. CASE q # r
        <4>1. Served(q)
          BY <2>3, <2>5, <3>2
        <4> QED
          BY <2>2, <4>1 DEF Served, Filtered, Through, Planned
      <3> QED
        BY <3>1, <3>2
    <2> QED
      BY <2>1, <2>4, <2>5
  <1>3. ASSUME NEW r \in Replicas, Create(r) PROVE IInv'
    <2>1. /\ pc' \in [Replicas -> States]
          /\ \A q \in Replicas : q # r => pc'[q] = pc[q]
          /\ pc'[r] # "updating"
          /\ UNCHANGED <<taken, carried, looked>>
      BY <1>3 DEF Create, Types, States
    <2>2. CASE durable.there
      <3>1. durable' = durable /\ version' = version
        BY <1>3, <2>2 DEF Create
      <3>2. Types'
        BY <2>1, <3>1 DEF Types
      <3>3. ASSUME NEW q \in Replicas, pc'[q] = "updating" PROVE Writer(q)'
        <4>1. Writer(q)
          BY <2>1, <3>3
        <4> QED
          BY <2>1, <3>1, <4>1 DEF Writer, Planned
      <3>4. ASSUME NEW q \in Replicas, pc'[q] = "consuming" PROVE Served(q)'
        <4>1. CASE q = r
          <5>1. durable.filter = Planned(r)
            BY <1>3, <2>2, <3>4, <4>1 DEF Create, Types
          <5>2. Served(q)
            BY <2>2, <4>1, <5>1, ExactServes
          <5> QED
            BY <2>1, <3>1, <5>2 DEF Served, Filtered, Through, Planned
        <4>2. CASE q # r
          <5>1. Served(q)
            BY <2>1, <3>4, <4>2
          <5> QED
            BY <2>1, <3>1, <5>1 DEF Served, Filtered, Through, Planned
        <4> QED
          BY <4>1, <4>2
      <3> QED
        BY <3>2, <3>3, <3>4
    <2>3. CASE ~durable.there
      <3> DEFINE new == [there |-> TRUE, filter |-> Planned(r), explicit |-> TRUE]
      <3>1. durable' = new /\ version' = version + 1
        BY <1>3, <2>3 DEF Create
      <3>2. new \in [there : BOOLEAN, filter : SUBSET Subjects, explicit : BOOLEAN]
        BY PlannedSubjects, Zenon
      <3>3. new.there /\ new.filter = Planned(r)
        OBVIOUS
      <3> HIDE DEF new
      <3>4. Types'
        BY <2>1, <3>1, <3>2 DEF Types
      <3>5. \A q \in Replicas : pc'[q] # "updating"
        BY <2>1, <2>3 DEF Writer
      <3>6. ASSUME NEW q \in Replicas, pc'[q] = "consuming" PROVE Served(q)'
        <4>1. CASE q = r
          BY <3>1, <3>3, <4>1, PlannedSubjects DEF Served, Filtered, Through, Planned
        <4>2. CASE q # r
          <5>1. Served(q)
            BY <2>1, <3>6, <4>2
          <5>2. \A s \in Planned(q) : s \in taken
            BY <2>3, <5>1 DEF Served, Filtered
          <5> QED
            BY <2>1, <5>2 DEF Served, Planned
        <4> QED
          BY <4>1, <4>2
      <3> QED
        BY <3>4, <3>5, <3>6
    <2> QED
      BY <2>2, <2>3
  <1>4. ASSUME NEW r \in Replicas, Update(r) PROVE IInv'
    <2>1. Types'
      BY <1>4, PlannedSubjects DEF Update, SetFilter, Types, States
    <2>2. ASSUME NEW q \in Replicas, pc'[q] = "updating" PROVE Writer(q)'
      <3>1. pc[q] = "updating"
        BY <1>4, <2>2 DEF Update, SetFilter, Types
      <3>2. Writer(q)
        BY <3>1
      <3>3. carried' = carried /\ looked' = looked /\ version' = version + 1 /\ durable'.there = durable.there
        BY <1>4 DEF Update, SetFilter, Types
      <3>4. looked[q] \in Nat /\ version \in Nat
        BY DEF Types
      <3> QED
        BY <3>2, <3>3, <3>4 DEF Writer, Planned
    <2>3. ASSUME NEW q \in Replicas, pc'[q] = "consuming" PROVE Served(q)'
      <3>1. q = r \/ pc[q] = "consuming"
        BY <1>4, <2>3 DEF Update, Types
      <3>2. q = r \/ Served(q)
        BY <3>1
      <3> QED
        BY <1>4, <3>2, UpdateServes
    <2> QED
      BY <2>1, <2>2, <2>3
  <1>5. ASSUME NEW r \in Replicas, Fails(r) PROVE IInv'
    <2>1. Types'
      BY <1>5 DEF Fails, Types, States
    <2>2. \A q \in Replicas : pc'[q] \in {"updating", "consuming"} => pc'[q] = pc[q]
      BY <1>5 DEF Fails, Types
    <2> QED
      BY <1>5, <2>1, <2>2, Kept DEF Fails
  <1>6. ASSUME NEW r \in Replicas, Stop(r) PROVE IInv'
    <2>1. Types'
      BY <1>6 DEF Stop, Types, States
    <2>2. \A q \in Replicas : pc'[q] \in {"updating", "consuming"} => pc'[q] = pc[q]
      BY <1>6 DEF Stop, Types
    <2> QED
      BY <1>6, <2>1, <2>2, Kept DEF Stop
  <1>7. CASE UNCHANGED <<durable, version, taken, rvars>>
    <2>1. Types'
      BY <1>7 DEF rvars, Types
    <2> QED
      BY <1>7, <2>1, Kept DEF rvars
  <1>8. ASSUME NEW m \in Messages, NEW s \in Subjects, Publish(m, s) PROVE IInv'
    BY <1>7, <1>8 DEF Publish
  <1>9. ASSUME NEW m \in Messages, Pass(m) PROVE IInv'
    BY <1>7, <1>9 DEF Pass
  <1>10. ASSUME NEW m \in Messages, NEW r \in Replicas, Deliver(m, r) \/ Dispatch(m, r) PROVE IInv'
    BY <1>7, <1>10 DEF Deliver, Dispatch
  <1>11. CASE UNCHANGED vars
    BY <1>7, <1>11 DEF vars
  <1> QED
    BY <1>1, <1>2, <1>3, <1>4, <1>5, <1>6, <1>8, <1>9, <1>10, <1>11 DEF Next

\* The invariant holds throughout.
THEOREM Invariance == Spec => []IInv
  BY InitInv, NextInv, PTL DEF Spec

\* Whatever the versions of the replicas and the order of their starts and stops, a replica that
\* consumes is served every subject it subscribes, but for those a replica took away that has
\* AllowNarrow or whose lookup was out of date (durable, createDurable, adopting).
THEOREM ServedTheorem == Spec => []ServedWhileUp
  <1>1. IInv => ServedWhileUp
    BY DEF IInv, ServedWhileUp, Served
  <1> QED
    BY <1>1, Invariance, PTL

\* The subjects a durable filters before a step, it filters after it, unless a replica writes that
\* has AllowNarrow, or whose lookup another write has made out of date (durable, adopting).
THEOREM Narrowing == Spec => NarrowsOnRequest
  <1> DEFINE Narrows ==
         \A s \in Subjects :
             (Filtered(s) /\ ~Filtered(s)') =>
                 \E r \in Replicas : pc[r] = "updating" /\ pc'[r] # "updating" /\ MayTake(r)
  <1>1. ASSUME IInv, [Next]_vars PROVE [Narrows]_vars
    <2> SUFFICES ASSUME NEW s \in Subjects, Filtered(s), ~Filtered(s)'
                 PROVE  \E r \in Replicas : pc[r] = "updating" /\ pc'[r] # "updating" /\ MayTake(r)
      OBVIOUS
    <2>1. durable' # durable
      BY DEF Filtered, Through
    <2>2. PICK r \in Replicas : Create(r) \/ Update(r)
      BY <1>1, <2>1, Zenon DEF Next, vars, Start, Lookup, Fails, Stop, Publish, Pass, Deliver, Dispatch
    <2>3. durable.there
      BY DEF Filtered
    <2>4. Update(r)
      BY <2>1, <2>2, <2>3 DEF Create
    <2>5. pc[r] = "updating" /\ pc'[r] # "updating"
      BY <1>1, <2>4 DEF Update, SetFilter, IInv, Types
    <2>6. ASSUME ~MayTake(r) PROVE FALSE
      <3>1. durable.filter # {} /\ durable.filter \subseteq Planned(r)
        BY <1>1, <2>5, <2>6 DEF IInv, Writer, MayTake
      <3>2. durable'.filter = Planned(r) /\ durable'.there
        BY <1>1, <2>3, <2>4 DEF Update, SetFilter, IInv, Types
      <3>3. s \in Planned(r)
        BY <3>1 DEF Filtered, Through
      <3> QED
        BY <3>2, <3>3 DEF Filtered, Through
    <2> QED
      BY <2>5, <2>6
  <1>2. IInv /\ [Next]_vars => [Narrows]_vars
    BY <1>1
  <1>3. Spec => [][Narrows]_vars
    BY <1>2, Invariance, PTL DEF Spec
  <1> QED
    BY <1>3 DEF NarrowsOnRequest
=============================================================================
