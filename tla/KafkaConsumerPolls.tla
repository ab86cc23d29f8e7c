------------------------- MODULE KafkaConsumerPolls --------------------------
(***************************************************************************)
(* The inductive invariant of the read loop of a Kafka subscription, and   *)
(* the proof that the steps which poll and commit keep it; the other steps *)
(* and the theorems are in KafkaConsumerProofs.                            *)
(*                                                                         *)
(* The invariant says what the loop has at hand at each place: that a      *)
(* classic group reads a partition in order and without gaps, so that what *)
(* lies below a committed offset was dealt with, and that a share group    *)
(* owes one answer for each record it has not dealt with.                  *)
(***************************************************************************)
EXTENDS KafkaConsumer, TLAPS

\* The record at i has been handled to its end, or is another contract's.
Ended(i) == recs[i] \in ended \cup Foreign

\* Where the loop stands for each kind of handler, and what it has at hand there.
Stands ==
    /\ Batch => pc \notin {"delivering", "ending"}
    /\ ~Batch => pc \notin {"gathering", "decoding", "answering"}
    /\ pc \in {"polling", "polled", "gathering", "decoding"} => handled = 0
    /\ Batch /\ pc \in {"handing", "handling"} => handled = 0
    /\ ~Batch /\ pc \in {"handing", "handling"} => handled < Len(recs)
    /\ pc = "answering" => outcome \in [1 .. Len(recs) -> Outcomes]
    /\ Share /\ pc = "polling" => recs = <<>>

\* What the loop has dealt with has ended, and what it has not is left only when it must stop.
Dealt ==
    /\ ~Batch => \A i \in 1 .. handled : Ended(i)
    /\ ~Batch /\ pc \in {"ending", "committing", "top"} => handled = Len(recs) \/ stopping
    /\ pc = "answering" => \A i \in 1 .. handled : Ended(i) \/ i \in back
    /\ Batch /\ pc \in {"committing", "top"} => \A i \in DOMAIN recs : Ended(i) \/ i \in back
    /\ back # {} => stopping

\* A classic group reads a partition in order and without gaps: what it has fetched has ended or is
\* in its hands.
Classic ==
    /\ \A i, j \in DOMAIN recs : i < j /\ recs[i][1] = recs[j][1] => recs[i][2] < recs[j][2]
    /\ \A i \in DOMAIN recs : recs[i][2] <= position[recs[i][1]]
    /\ \A p \in Partitions : \A n \in 1 .. position[p] : <<p, n>> \in ended \cup Foreign \cup Polled
    /\ \A r \in Records : answers[r] = 0

\* The record at i is still to be answered.
Owed(i) ==
    \/ pc \in {"polling", "polled", "gathering", "decoding"}
    \/ /\ pc \in {"delivering", "handing", "handling", "ending", "answering"}
       /\ i > handled /\ (Batch => i \in Mine)

\* A share group owes an answer for what it has in hand and for nothing else it has acquired.
Shared ==
    /\ \A i, j \in DOMAIN recs : recs[i] = recs[j] => i = j
    /\ \A i \in DOMAIN recs : count[recs[i]] >= 1
    /\ pc # "down" => \A i \in DOMAIN recs : answers[recs[i]] = IF Owed(i) THEN 0 ELSE 1
    /\ \A r \in Records : status[r] = "acquired" => r \in Polled \/ answers[r] = 1

\* The answers on their way take a record as done, or give it up, only as its handling did.
Answers ==
    /\ \A r \in Records : answers[r] <= 1
    /\ \A a \in acks : /\ a[3] = "accept" => a[1] \in accepting \cup Foreign
                       /\ a[3] = "reject" => a[1] \in rejecting

\* The inductive invariant.
IInv ==
    /\ TypeOK /\ Stands /\ Dealt /\ Answers /\ CommittedEnded /\ DroppedEnded
    /\ ~Share => Classic
    /\ Share => Shared

-----------------------------------------------------------------------------
(* What is taken from the library of finite sets, in the section before    *)
(* the theorems: no other section needs the library.                       *)

\* The sizes of the empty set and of a set of one.
Counted == Cardinality({}) = 0 /\ \A x : Cardinality({x}) = 1

\* Of finitely many offsets one is the highest.
HasHighest == \A L \in Nat : \A S \in SUBSET (1 .. L) : S # {} => \E n \in S : \A m \in S : m <= n

Known == Counted /\ HasHighest

-----------------------------------------------------------------------------
\* The invariant holds at the start: nothing is polled and nothing answered.
LEMMA InitInv ==
    ASSUME Init
    PROVE  IInv
<1> USE DEF Init
<1>1. DOMAIN recs = {} /\ recs \in Seq(Records) /\ Len(recs) = 0 /\ outcome \in Seq(Outcomes) /\ 0 <= Max
  BY SizeAssumption
<1>2. TypeOK
  <2>1. /\ committed \in [Partitions -> Nat] /\ position \in [Partitions -> Nat]
        /\ \A p \in Partitions : committed[p] <= Length[p] /\ position[p] <= Length[p]
    BY SizeAssumption
  <2>2. /\ status \in [Records -> {"available", "acquired", "accepted", "rejected"}]
        /\ count \in [Records -> 0 .. MaxCount] /\ answers \in [Records -> Nat] /\ mishaps \in 0 .. MaxMishaps
    BY BoundsAssumption
  <2>3. Batch => Len(recs) <= Max
    BY <1>1
  <2>4. handled \in 0 .. Len(recs) /\ back \subseteq DOMAIN recs
    BY <1>1
  <2> QED BY <1>1, <2>1, <2>2, <2>3, <2>4, Zenon DEF TypeOK
<1>3. Stands /\ Dealt
  BY <1>1 DEF Stands, Dealt
<1>4. Answers
  BY DEF Answers
<1>5. CommittedEnded /\ DroppedEnded
  BY DEF CommittedEnded, DroppedEnded
<1>6. ASSUME ~Share PROVE Classic
  BY <1>1 DEF Classic
<1>7. Shared
  BY <1>1 DEF Shared
<1> QED BY <1>2, <1>3, <1>4, <1>5, <1>6, <1>7 DEF IInv

\* What is past a position is past all that does not pass it.
LEMMA LessThrough == \A a, b, c \in Nat : a <= b /\ c > b => a < c
OBVIOUS

\* The lengths and positions the steps of the loop count with.
LEMMA Sizes ==
    ASSUME IInv
    PROVE  /\ recs \in Seq(Records) /\ DOMAIN recs = 1 .. Len(recs) /\ Len(recs) \in Nat
           /\ handled \in 0 .. Len(recs) /\ handled \in Nat
           /\ pc = "polling" => handled = 0
           /\ pc = "decoding" => handled = 0 /\ Batch
           /\ pc \in {"delivering", "ending"} => ~Batch
           /\ pc = "handling" /\ ~Batch => handled < Len(recs)
           /\ back \subseteq DOMAIN recs
BY DEF IInv, TypeOK, Stands

-----------------------------------------------------------------------------
(* What a poll returns.                                                    *)

\* A record is a partition and an offset of it.
LEMMA RecordFields ==
    /\ \A r \in Records : /\ r = <<r[1], r[2]>> /\ r[1] \in Partitions
                          /\ r[2] \in 1 .. Length[r[1]] /\ r[2] \in Nat
    /\ \A p \in Partitions : \A n \in 1 .. Length[p] : <<p, n>> \in Records
BY SizeAssumption DEF Records

\* What comes of one partition are records of it in offset order, and none is passed over.
LEMMA FetchedFromIs ==
    ASSUME NEW p \in Partitions, NEW f \in FetchedFrom(p)
    PROVE  /\ f \in Seq(Records)
           /\ \A i \in DOMAIN f : f[i] = <<p, f[i][2]>> /\ f[i][1] = p /\ f[i][2] \in Fetchable(p)
           /\ \A i, j \in DOMAIN f : i < j => f[i][2] < f[j][2]
           /\ \A j \in DOMAIN f : \A k \in Fetchable(p) :
                 k < f[j][2] => \E i \in DOMAIN f : f[i][2] = k
<1> DEFINE Q(n) == [1 .. n -> {p} \X Fetchable(p)]
<1>1. /\ f \in UNION {Q(n) : n \in 0 .. Length[p]}
      /\ \A i, j \in DOMAIN f : i < j => f[i][2] < f[j][2]
      /\ \A j \in DOMAIN f : \A k \in Fetchable(p) :
            k < f[j][2] => \E i \in DOMAIN f : f[i][2] = k
  BY Zenon DEF FetchedFrom
<1>2. PICK n \in 0 .. Length[p] : f \in Q(n)
  BY <1>1, Zenon
<1>3. n \in Nat /\ Fetchable(p) \subseteq 1 .. Length[p]
  BY SizeAssumption DEF Fetchable
<1>4. \A k \in Fetchable(p) : <<p, k>> \in Records
  BY <1>3, RecordFields, Zenon
<1>5. \A i \in DOMAIN f : f[i] = <<p, f[i][2]>> /\ f[i][1] = p /\ f[i][2] \in Fetchable(p)
  BY <1>2
<1>6. f \in Seq(Records)
  BY <1>2, <1>3, <1>4, <1>5
<1> QED BY <1>1, <1>5, <1>6, Zenon

\* A poll may return nothing from a partition.
LEMMA FetchedNone ==
    ASSUME NEW p \in Partitions
    PROVE  \E g \in FetchedFrom(p) : DOMAIN g = {}
<1> DEFINE Q(n) == [1 .. n -> {p} \X Fetchable(p)]
           g == [i \in 1 .. 0 |-> <<p, i>>]
<1>1. DOMAIN g = {} /\ g \in Q(0) /\ 0 \in 0 .. Length[p]
  BY SizeAssumption
<1>2. g \in UNION {Q(n) : n \in 0 .. Length[p]}
  BY <1>1, Zenon
<1> HIDE DEF g
<1>3. g \in FetchedFrom(p)
  BY <1>1, <1>2, Zenon DEF FetchedFrom
<1> QED BY <1>1, <1>3

\* What a poll returns is what comes of one partition, or of two.
LEMMA FetchedParts ==
    ASSUME NEW f \in Fetched
    PROVE  /\ f # <<>> /\ Len(f) <= Limit
           /\ \E p \in Partitions : \E g \in FetchedFrom(p) :
                 f = g \/ \E q \in Partitions \ {p} : \E h \in FetchedFrom(q) : f = g \o h
<1> DEFINE from(P) == UNION {FetchedFrom(p) : p \in P}
           two(p) == {g \o h : g \in FetchedFrom(p), h \in from(Partitions \ {p})}
<1>1. f # <<>> /\ Len(f) <= Limit /\ f \in from(Partitions) \cup UNION {two(p) : p \in Partitions}
  BY SMTT(20) DEF Fetched
<1>2. ASSUME NEW P, NEW g \in from(P) PROVE \E p \in P : g \in FetchedFrom(p)
  BY Zenon
<1>3. ASSUME NEW p \in Partitions, f \in two(p)
      PROVE  \E g \in FetchedFrom(p) : \E q \in Partitions \ {p} : \E h \in FetchedFrom(q) : f = g \o h
  <2>1. PICK g \in FetchedFrom(p), h \in from(Partitions \ {p}) : f = g \o h
    BY <1>3
  <2> QED BY <1>2, <2>1, Zenon
<1> HIDE DEF two
<1>4. CASE f \in from(Partitions)
  BY <1>1, <1>2, <1>4, Zenon
<1>5. CASE f \in UNION {two(p) : p \in Partitions}
  <2>1. PICK p \in Partitions : f \in two(p)
    BY <1>5, Zenon
  <2> QED BY <1>1, <1>3, <2>1, Zenon
<1> QED BY <1>1, <1>4, <1>5

\* The records of a partition lie side by side in what a poll returns.
LEMMA FetchedPart ==
    ASSUME NEW f \in Fetched, NEW p \in Partitions
    PROVE  /\ f \in Seq(Records)
           /\ \E g \in FetchedFrom(p), o \in Nat :
                 /\ \A i \in DOMAIN f : f[i][1] = p => i - o \in DOMAIN g /\ f[i] = g[i - o]
                 /\ \A j \in DOMAIN g : o + j \in DOMAIN f /\ f[o + j] = g[j]
<1> DEFINE Lies(g, o) ==
                 /\ \A i \in DOMAIN f : f[i][1] = p => i - o \in DOMAIN g /\ f[i] = g[i - o]
                 /\ \A j \in DOMAIN g : o + j \in DOMAIN f /\ f[o + j] = g[j]
<1>0. PICK u \in Partitions : \E g \in FetchedFrom(u) :
        f = g \/ \E q \in Partitions \ {u} : \E h \in FetchedFrom(q) : f = g \o h
  BY FetchedParts
<1>1. PICK g \in FetchedFrom(u) :
        f = g \/ \E q \in Partitions \ {u} : \E h \in FetchedFrom(q) : f = g \o h
  BY <1>0
<1>2. g \in Seq(Records) /\ \A i \in DOMAIN g : g[i][1] = u
  BY FetchedFromIs
<1>3. PICK e \in FetchedFrom(p) : DOMAIN e = {}
  BY FetchedNone
<1>4. CASE f = g
  <2>1. ASSUME u = p PROVE Lies(g, 0)
    BY <1>2, <1>4
  <2>2. ASSUME u # p PROVE Lies(e, 0)
    BY <1>2, <1>3, <1>4, <2>2
  <2> QED BY <1>2, <1>4, <2>1, <2>2
<1>5. ASSUME NEW q \in Partitions \ {u}, NEW h \in FetchedFrom(q), f = g \o h
      PROVE  f \in Seq(Records) /\ \E x \in FetchedFrom(p), o \in Nat : Lies(x, o)
  <2>1. h \in Seq(Records) /\ \A i \in DOMAIN h : h[i][1] = q
    BY FetchedFromIs
  <2>2. /\ f \in Seq(Records) /\ Len(f) = Len(g) + Len(h)
        /\ \A i \in 1 .. Len(g) + Len(h) : f[i] = IF i <= Len(g) THEN g[i] ELSE h[i - Len(g)]
    BY <1>2, <1>5, <2>1
  <2>3. /\ DOMAIN f = 1 .. Len(g) + Len(h) /\ DOMAIN g = 1 .. Len(g) /\ DOMAIN h = 1 .. Len(h)
        /\ Len(g) \in Nat /\ Len(h) \in Nat
    BY <1>2, <2>1, <2>2
  <2>4. ASSUME NEW i \in 1 .. Len(g) + Len(h), i <= Len(g)
        PROVE  i \in DOMAIN g /\ f[i] = g[i] /\ f[i][1] = u /\ i = i - 0
    BY <1>2, <2>2, <2>3, <2>4
  <2>5. ASSUME NEW i \in 1 .. Len(g) + Len(h), ~(i <= Len(g))
        PROVE  i - Len(g) \in DOMAIN h /\ f[i] = h[i - Len(g)] /\ f[i][1] = q
    BY <2>1, <2>2, <2>3, <2>5
  <2>6. ASSUME NEW j \in DOMAIN g PROVE 0 + j \in DOMAIN f /\ f[0 + j] = g[j]
    BY <2>2, <2>3
  <2>7. ASSUME NEW j \in DOMAIN h PROVE Len(g) + j \in DOMAIN f /\ f[Len(g) + j] = h[j]
    BY <2>2, <2>3
  <2>8. ASSUME u = p PROVE Lies(g, 0)
    BY <2>3, <2>4, <2>5, <2>6, <2>8
  <2>9. ASSUME q = p PROVE Lies(h, Len(g))
    BY <2>3, <2>4, <2>5, <2>7, <2>9
  <2>10. ASSUME u # p, q # p PROVE Lies(e, 0)
    BY <1>3, <2>3, <2>4, <2>5, <2>10
  <2> HIDE DEF Lies
  <2>11. 0 \in Nat
    OBVIOUS
  <2> QED BY <1>3, <2>2, <2>3, <2>8, <2>9, <2>10, <2>11, Zenon
<1> HIDE DEF Lies
<1> QED BY <1>1, <1>4, <1>5, Zenon DEF Lies

\* A poll returns different records, each of them one its partition offers.
LEMMA FetchedIs ==
    ASSUME NEW f \in Fetched
    PROVE  /\ f \in Seq(Records) /\ f # <<>>
           /\ \A i \in DOMAIN f : f[i] \in Records /\ f[i][2] \in Fetchable(f[i][1])
           /\ \A i, j \in DOMAIN f : f[i] = f[j] => i = j
<1>1. f # <<>>
  BY FetchedParts
<1>2. CASE Partitions = {}
  BY <1>2, FetchedParts
<1>3. CASE Partitions # {}
  <2>1. f \in Seq(Records)
    BY <1>3, FetchedPart
  <2>2. \A i \in DOMAIN f : f[i] \in Records /\ f[i][1] \in Partitions /\ i \in Int
    BY <2>1, RecordFields
  <2>3. ASSUME NEW i \in DOMAIN f
        PROVE  f[i][2] \in Fetchable(f[i][1]) /\ \A j \in DOMAIN f : f[i] = f[j] => i = j
    <3>1. PICK g \in FetchedFrom(f[i][1]), o \in Nat :
                /\ \A k \in DOMAIN f : f[k][1] = f[i][1] => k - o \in DOMAIN g /\ f[k] = g[k - o]
                /\ \A j \in DOMAIN g : o + j \in DOMAIN f /\ f[o + j] = g[j]
      BY <2>2, FetchedPart, Zenon
    <3>2. /\ g \in Seq(Records) /\ \A k \in DOMAIN g : g[k][2] \in Fetchable(f[i][1])
          /\ \A k, l \in DOMAIN g : k < l => g[k][2] < g[l][2]
      BY <2>2, FetchedFromIs
    <3>3. f[i][2] \in Fetchable(f[i][1])
      BY <3>1, <3>2
    <3>4. ASSUME NEW j \in DOMAIN f, f[i] = f[j] PROVE i = j
      <4>1. i - o \in DOMAIN g /\ j - o \in DOMAIN g /\ g[i - o] = g[j - o]
        BY <3>1, <3>4
      <4>2. i - o \in Int /\ j - o \in Int /\ g[i - o][2] \in Int
        BY <2>2, <3>2, <4>1, RecordFields
      <4>3. ~(i - o < j - o) /\ ~(j - o < i - o)
        BY <3>2, <4>1, <4>2
      <4> QED BY <2>2, <4>2, <4>3
    <3> QED BY <3>3, <3>4
  <2> QED BY <1>1, <2>1, <2>2, <2>3
<1> QED BY <1>2, <1>3

\* The records of f.
Got(f) == {f[i] : i \in DOMAIN f}

\* What Raised gives a partition: the highest offset of S, when S has one.
LEMMA RaisedIs ==
    ASSUME HasHighest, NEW at \in [Partitions -> Nat], NEW S \in SUBSET Records, NEW p \in Partitions,
           at[p] <= Length[p]
    PROVE  /\ Raised(at, S)[p] \in Nat /\ Raised(at, S)[p] <= Length[p]
           /\ \/ Raised(at, S)[p] = at[p] /\ \A n : <<p, n>> \notin S
              \/ <<p, Raised(at, S)[p]>> \in S /\ \A n : <<p, n>> \in S => n <= Raised(at, S)[p]
<1> DEFINE O == Offsets(S, p)
           high == Raised(at, S)[p]
<1>1. \A n : n \in O <=> <<p, n>> \in S
  <2>1. \A r \in S : r = <<r[1], r[2]>>
    BY RecordFields
  <2> QED BY <2>1 DEF Offsets
<1>2. O \in SUBSET (1 .. Length[p]) /\ Length[p] \in Nat
  <2>1. Length[p] \in Nat
    BY SizeAssumption
  <2>2. ASSUME NEW n \in O PROVE n \in 1 .. Length[p]
    <3>1. <<p, n>> \in Records /\ <<p, n>>[1] = p /\ <<p, n>>[2] = n
      BY <1>1
    <3> QED BY <3>1, RecordFields
  <2> HIDE DEF O
  <2> QED BY <2>1, <2>2
<1>3. high = IF O = {} THEN at[p] ELSE CHOOSE n \in O : \A m \in O : m <= n
  BY DEF Raised
<1> HIDE DEF O, high
<1>4. CASE O = {}
  BY <1>1, <1>3, <1>4 DEF high
<1>5. CASE O # {}
  <2>1. \E n \in O : \A m \in O : m <= n
    BY <1>2, <1>5, Zenon DEF HasHighest
  <2>2. high \in O /\ \A m \in O : m <= high
    BY <1>3, <1>5, <2>1
  <2>3. high \in Nat /\ high <= Length[p]
    BY <1>2, <2>2
  <2> QED BY <1>1, <2>2, <2>3 DEF high
<1> QED BY <1>4, <1>5

\* What a classic group's poll returns from a partition are the records after its position up to
\* its new one, in order.
LEMMA ClassicFetched ==
    ASSUME HasHighest, TypeOK, ~Share, NEW f \in Fetched, NEW p \in Partitions
    PROVE  LET now == Raised(position, Got(f))[p]
           IN  /\ now \in Nat /\ position[p] <= now /\ now <= Length[p]
               /\ \A i \in DOMAIN f : f[i][1] = p => f[i][2] > position[p] /\ f[i][2] <= now
               /\ \A m \in Nat : position[p] < m /\ m <= now => <<p, m>> \in Got(f)
               /\ \A i, j \in DOMAIN f : i < j /\ f[i][1] = p /\ f[j][1] = p => f[i][2] < f[j][2]
<1> DEFINE now == Raised(position, Got(f))[p]
<1>1. /\ position \in [Partitions -> Nat] /\ position[p] \in Nat /\ Length[p] \in Nat
      /\ position[p] <= Length[p]
  BY SizeAssumption DEF TypeOK
<1>2. f \in Seq(Records) /\ \A i \in DOMAIN f : f[i] \in Records /\ i \in Nat
  BY FetchedIs
<1>3. Got(f) \in SUBSET Records
  BY <1>2 DEF Got
<1>4. /\ now \in Nat /\ now <= Length[p]
      /\ \/ now = position[p] /\ \A n : <<p, n>> \notin Got(f)
         \/ <<p, now>> \in Got(f) /\ \A n : <<p, n>> \in Got(f) => n <= now
  BY <1>1, <1>3, RaisedIs
<1> HIDE DEF now
<1>5. PICK g \in FetchedFrom(p), o \in Nat :
         /\ \A i \in DOMAIN f : f[i][1] = p => i - o \in DOMAIN g /\ f[i] = g[i - o]
         /\ \A j \in DOMAIN g : o + j \in DOMAIN f /\ f[o + j] = g[j]
  BY FetchedPart, Zenon
<1>6. /\ g \in Seq(Records)
      /\ \A i \in DOMAIN g : g[i] = <<p, g[i][2]>> /\ g[i][2] \in Fetchable(p)
      /\ \A i, j \in DOMAIN g : i < j => g[i][2] < g[j][2]
      /\ \A j \in DOMAIN g : \A k \in Fetchable(p) : k < g[j][2] => \E i \in DOMAIN g : g[i][2] = k
  BY FetchedFromIs
<1>7. \A k : k \in Fetchable(p) <=> k \in 1 .. Length[p] /\ k > position[p]
  BY DEF Fetchable
<1>8. \A n : <<p, n>> \in Got(f) <=> \E j \in DOMAIN g : g[j] = <<p, n>>
  <2>1. ASSUME NEW n, <<p, n>> \in Got(f) PROVE \E j \in DOMAIN g : g[j] = <<p, n>>
    <3>1. PICK i \in DOMAIN f : f[i] = <<p, n>>
      BY <2>1 DEF Got
    <3> QED BY <1>5, <3>1
  <2>2. ASSUME NEW n, NEW j \in DOMAIN g, g[j] = <<p, n>> PROVE <<p, n>> \in Got(f)
    BY <1>5, <2>2 DEF Got
  <2> QED BY <2>1, <2>2, Zenon
<1>9. ASSUME NEW i \in DOMAIN f, f[i][1] = p
      PROVE  f[i][2] > position[p] /\ f[i][2] <= now /\ f[i][2] \in Nat
  <2>1. f[i] = <<p, f[i][2]>> /\ f[i] \in Got(f)
    BY <1>2, <1>9, RecordFields DEF Got
  <2>2. i - o \in DOMAIN g /\ f[i] = g[i - o] /\ f[i][2] \in Fetchable(p)
    BY <1>5, <1>6, <1>9
  <2>3. f[i][2] \in Nat /\ f[i][2] > position[p]
    BY <1>1, <1>7, <2>2
  <2>4. f[i][2] <= now
    BY <1>4, <2>1
  <2> QED BY <2>3, <2>4
<1>10. position[p] <= now
  <2>1. ASSUME <<p, now>> \in Got(f) PROVE now > position[p]
    <3>1. PICK i \in DOMAIN f : f[i] = <<p, now>>
      BY <2>1 DEF Got
    <3> QED BY <1>9, <3>1
  <2> QED BY <1>1, <1>4, <2>1
<1>11. ASSUME NEW m \in Nat, position[p] < m, m <= now PROVE <<p, m>> \in Got(f)
  <2>1. <<p, now>> \in Got(f)
    BY <1>1, <1>4, <1>11
  <2>2. PICK j \in DOMAIN g : g[j] = <<p, now>>
    BY <1>8, <2>1
  <2>3. m \in Fetchable(p)
    BY <1>1, <1>4, <1>7, <1>11
  <2>4. \E i \in DOMAIN g : g[i][2] = m
    BY <1>4, <1>6, <1>11, <2>2, <2>3
  <2> QED BY <1>6, <1>8, <2>4
<1>12. ASSUME NEW i \in DOMAIN f, NEW j \in DOMAIN f, i < j, f[i][1] = p, f[j][1] = p PROVE f[i][2] < f[j][2]
  <2>1. i - o \in DOMAIN g /\ f[i] = g[i - o] /\ j - o \in DOMAIN g /\ f[j] = g[j - o]
    BY <1>5, <1>12
  <2>2. i - o < j - o
    BY <1>2, <1>12
  <2> QED BY <1>6, <2>1, <2>2
<1> QED BY <1>4, <1>9, <1>10, <1>11, <1>12 DEF now

-----------------------------------------------------------------------------
(* What the answers of a step do.                                          *)

\* What answers are there.
Kinds == {"accept", "release", "reject"}

\* A step that answers each record of A once adds one to the answers of those, in a share group.
LEMMA AckEffect ==
    ASSUME Known,
           TypeOK, NEW A \in SUBSET (Records \X Kinds), Ack(A),
           Share => \A a, b \in A : a[1] = b[1] => a = b
    PROVE  /\ answers' \in [Records -> Nat]
           /\ ~Share => answers' = answers /\ acks' = acks
           /\ Share => \A r \in Records :
                 answers'[r] = answers[r] + IF \E a \in A : a[1] = r THEN 1 ELSE 0
<1>1. answers \in [Records -> Nat]
  BY DEF TypeOK
<1>2. answers' = [r \in Records |-> answers[r] + IF Share THEN Cardinality({a \in A : a[1] = r}) ELSE 0]
  BY DEF Ack
<1>3. ASSUME ~Share PROVE answers' = answers /\ acks' = acks /\ answers' \in [Records -> Nat]
  <2>1. \A r \in Records : answers[r] + 0 = answers[r]
    BY <1>1
  <2>2. answers' = [r \in Records |-> answers[r]]
    BY <1>2, <1>3, <2>1
  <2>3. acks' = acks
    BY <1>3 DEF Ack
  <2> QED BY <1>1, <2>2, <2>3
<1>4. ASSUME Share, NEW r \in Records
      PROVE  answers'[r] = answers[r] + (IF \E a \in A : a[1] = r THEN 1 ELSE 0)
  <2> DEFINE B == {a \in A : a[1] = r}
  <2>1. ASSUME NEW a \in A, a[1] = r PROVE Cardinality(B) = 1
    <3>1. \A b \in A : b[1] = r => b = a
      BY <1>4, <2>1
    <3>2. B = {a}
      BY <2>1, <3>1, Zenon
    <3> QED BY <3>2, Zenon DEF Known, Counted
  <2>2. ASSUME ~\E a \in A : a[1] = r PROVE Cardinality(B) = 0
    <3>1. B = {}
      BY <2>2
    <3> QED BY <3>1 DEF Known, Counted
  <2>3. answers'[r] = answers[r] + Cardinality(B)
    BY <1>2, <1>4
  <2> QED BY <2>1, <2>2, <2>3
<1>5. ASSUME Share PROVE answers' \in [Records -> Nat]
  <2>1. \A r \in Records : answers'[r] \in Nat
    BY <1>1, <1>4, <1>5
  <2> QED BY <1>2, <2>1
<1> QED BY <1>3, <1>4, <1>5

\* A step that answers the records at the indices D, which are owed an answer, as their handling
\* justifies: each has been answered once then, and no other record has been answered.
LEMMA Answered ==
    ASSUME Known,
           IInv, pc # "down", NEW D \in SUBSET DOMAIN recs, NEW A \in SUBSET (Records \X Kinds), Ack(A),
           accepting \subseteq accepting', rejecting \subseteq rejecting',
           Share => /\ \A a, b \in A : a[1] = b[1] => a = b
                    /\ \A a \in A : \E i \in D : a[1] = recs[i]
                    /\ \A i \in D : Owed(i) /\ \E a \in A : a[1] = recs[i]
                    /\ \A a \in A : /\ a[2] = "accept" => a[1] \in accepting' \cup Foreign
                                    /\ a[2] = "reject" => a[1] \in rejecting'
    PROVE  /\ answers' \in [Records -> Nat]
           /\ acks' \subseteq (Records \X (1 .. MaxCount) \X Kinds)
           /\ Answers'
           /\ ~Share => answers' = answers
           /\ Share => /\ \A i \in DOMAIN recs : answers'[recs[i]] = IF Owed(i) /\ i \notin D THEN 0 ELSE 1
                       /\ \A r \in Records : r \notin Polled => answers'[r] = answers[r]
<1>1. /\ answers' \in [Records -> Nat]
      /\ ~Share => answers' = answers /\ acks' = acks
      /\ Share => \A r \in Records : answers'[r] = answers[r] + IF \E a \in A : a[1] = r THEN 1 ELSE 0
  BY AckEffect DEF IInv
<1>2. /\ answers \in [Records -> Nat] /\ acks \subseteq (Records \X (1 .. MaxCount) \X Kinds)
      /\ recs \in Seq(Records) /\ count \in [Records -> 0 .. MaxCount] /\ MaxCount \in Nat
  BY BoundsAssumption DEF IInv, TypeOK, Kinds
<1>3. /\ \A r \in Records : answers[r] <= 1
      /\ \A a \in acks : /\ a[3] = "accept" => a[1] \in accepting \cup Foreign
                         /\ a[3] = "reject" => a[1] \in rejecting
  BY DEF IInv, Answers
<1>4. ASSUME Share
      PROVE  /\ \A i, j \in DOMAIN recs : recs[i] = recs[j] => i = j
             /\ \A i \in DOMAIN recs : count[recs[i]] >= 1 /\ answers[recs[i]] = IF Owed(i) THEN 0 ELSE 1
  BY <1>4 DEF IInv, Shared
<1>5. \A i \in DOMAIN recs : recs[i] \in Records
  BY <1>2
<1>6. ASSUME Share, NEW i \in DOMAIN recs
      PROVE  answers'[recs[i]] = IF Owed(i) /\ i \notin D THEN 0 ELSE 1
  <2>1. (\E a \in A : a[1] = recs[i]) <=> i \in D
    BY <1>4, <1>6
  <2>2. answers'[recs[i]] = answers[recs[i]] + IF i \in D THEN 1 ELSE 0
    BY <1>1, <1>5, <1>6, <2>1
  <2>3. i \in D => Owed(i)
    BY <1>6
  <2>4. answers[recs[i]] = IF Owed(i) THEN 0 ELSE 1
    BY <1>4, <1>6
  <2> QED BY <2>2, <2>3, <2>4
<1>7. ASSUME Share, NEW r \in Records, r \notin Polled PROVE answers'[r] = answers[r]
  <2>1. ~\E a \in A : a[1] = r
    BY <1>7 DEF Polled
  <2>2. answers'[r] = answers[r] + IF \E a \in A : a[1] = r THEN 1 ELSE 0
    BY <1>1, <1>7
  <2>3. answers'[r] = answers[r] + 0
    BY <2>1, <2>2, Zenon
  <2>4. answers[r] \in Nat
    BY <1>2
  <2> QED BY <2>3, <2>4
<1>8. ASSUME NEW r \in Records PROVE answers'[r] <= 1
  <2>1. CASE ~Share
    BY <1>1, <1>3, <2>1
  <2>2. CASE Share /\ r \in Polled
    BY <1>6, <2>2 DEF Polled
  <2>3. CASE Share /\ r \notin Polled
    BY <1>3, <1>7, <2>3
  <2> QED BY <2>1, <2>2, <2>3
<1>9. ASSUME NEW a \in acks'
      PROVE  /\ a \in Records \X (1 .. MaxCount) \X Kinds
             /\ a[3] = "accept" => a[1] \in accepting' \cup Foreign
             /\ a[3] = "reject" => a[1] \in rejecting'
  <2>1. CASE a \in acks
    BY <1>2, <1>3, <2>1
  <2>2. CASE a \notin acks
    <3>1. Share
      BY <1>1, <1>9, <2>2
    <3>2. PICK b \in A : a = <<b[1], count[b[1]], b[2]>>
      BY <1>9, <2>2 DEF Ack
    <3>3. b[1] \in Records /\ b[2] \in Kinds
      OBVIOUS
    <3>4. count[b[1]] \in 1 .. MaxCount
      BY <1>2, <1>4, <1>5, <3>1, <3>3
    <3>5. a[1] = b[1] /\ a[3] = b[2]
      BY <3>2
    <3>6. /\ b[2] = "accept" => b[1] \in accepting' \cup Foreign
          /\ b[2] = "reject" => b[1] \in rejecting'
      BY <3>1
    <3>7. a \in Records \X (1 .. MaxCount) \X Kinds
      BY <3>2, <3>3, <3>4
    <3> QED BY <3>5, <3>6, <3>7
  <2> QED BY <2>1, <2>2
<1>10. Answers'
  BY <1>8, <1>9 DEF Answers
<1>11. acks' \subseteq (Records \X (1 .. MaxCount) \X Kinds)
  BY <1>9
<1> QED BY <1>1, <1>6, <1>7, <1>10, <1>11

-----------------------------------------------------------------------------
(* Steps that leave the broker and the records in hand alone.              *)

\* Such a step keeps what a classic group knows of its offsets and what a group has dropped.
LEMMA Frame ==
    ASSUME IInv, UNCHANGED <<mode, committed, position, status, recs>>,
           ended \subseteq ended', accepting \subseteq accepting', rejecting \subseteq rejecting',
           ~Share => answers' = answers
    PROVE  /\ CommittedEnded' /\ DroppedEnded'
           /\ ~Share' => Classic'
<1>1. CommittedEnded'
  BY Zenon DEF IInv, CommittedEnded
<1>2. DroppedEnded'
  BY DEF IInv, DroppedEnded
<1>3. ASSUME ~Share' PROVE Classic'
  <2>1. ~Share /\ answers' = answers /\ Polled' = Polled
    BY <1>3 DEF Share, Polled
  <2>2. Classic
    BY <2>1 DEF IInv
  <2>3. \A p \in Partitions : \A n \in 1 .. position[p] : <<p, n>> \in ended' \cup Foreign \cup Polled
    BY <2>2, Zenon DEF Classic
  <2> QED BY <2>1, <2>2, <2>3 DEF Classic
<1> QED BY <1>1, <1>2, <1>3

\* Such a step keeps what a share group owes, when it answers the records at D and no longer owes
\* an answer for exactly those.
LEMMA FrameShared ==
    ASSUME IInv, UNCHANGED <<mode, status, count, recs>>, Share, pc # "down", NEW D \in SUBSET DOMAIN recs,
           \A i \in DOMAIN recs : answers'[recs[i]] = IF Owed(i) /\ i \notin D THEN 0 ELSE 1,
           \A r \in Records : r \notin Polled => answers'[r] = answers[r],
           \A i \in DOMAIN recs : Owed(i)' <=> Owed(i) /\ i \notin D
    PROVE  Shared'
<1>1. Shared /\ Polled' = Polled
  BY DEF IInv, Polled
<1>2. \A i \in DOMAIN recs : answers'[recs[i]] = IF Owed(i)' THEN 0 ELSE 1
  BY Zenon
<1>3. ASSUME NEW r \in Records, status[r] = "acquired" PROVE r \in Polled \/ answers'[r] = 1
  BY <1>1, <1>3 DEF Shared
<1> QED BY <1>1, <1>2, <1>3 DEF Shared

\* A step that answers nothing, and leaves all it owes owed.
LEMMA FrameQuiet ==
    ASSUME IInv, UNCHANGED <<mode, committed, position, status, count, recs, answers, acks, history>>,
           pc # "down" \/ pc' = "down", \A i \in DOMAIN recs : Owed(i)' <=> Owed(i)
    PROVE  /\ CommittedEnded' /\ DroppedEnded' /\ Answers'
           /\ ~Share' => Classic'
           /\ Share' => Shared'
<1> USE DEF history
<1>1. CommittedEnded' /\ DroppedEnded' /\ (~Share' => Classic')
  BY Frame
<1>2. Answers'
  BY DEF IInv, Answers
<1>3. ASSUME Share' PROVE Shared'
  <2>1. Share
    BY <1>3 DEF Share
  <2>0. CASE pc' = "down"
    BY <2>0, <2>1 DEF IInv, Shared, Polled
  <2>2. ASSUME pc # "down"
        PROVE  \A i \in DOMAIN recs : answers'[recs[i]] = IF Owed(i) /\ i \notin {} THEN 0 ELSE 1
    BY <2>1, <2>2 DEF IInv, Shared
  <2>3. {} \in SUBSET DOMAIN recs /\ \A i \in DOMAIN recs : Owed(i)' <=> Owed(i) /\ i \notin {}
    OBVIOUS
  <2> QED BY <2>0, <2>1, <2>2, <2>3, FrameShared, Zenon
<1> QED BY <1>1, <1>2, <1>3

\* A step that answers the records at D.
LEMMA FrameAnswers ==
    ASSUME Known,
           IInv, pc # "down", NEW D \in SUBSET DOMAIN recs, NEW A \in SUBSET (Records \X Kinds), Ack(A),
           UNCHANGED <<mode, committed, position, status, count, recs>>,
           ended \subseteq ended', accepting \subseteq accepting', rejecting \subseteq rejecting',
           Share => /\ \A a, b \in A : a[1] = b[1] => a = b
                    /\ \A a \in A : \E i \in D : a[1] = recs[i]
                    /\ \A i \in D : Owed(i) /\ \E a \in A : a[1] = recs[i]
                    /\ \A a \in A : /\ a[2] = "accept" => a[1] \in accepting' \cup Foreign
                                    /\ a[2] = "reject" => a[1] \in rejecting'
                    /\ \A i \in DOMAIN recs : Owed(i)' <=> Owed(i) /\ i \notin D
    PROVE  /\ answers' \in [Records -> Nat]
           /\ acks' \subseteq (Records \X (1 .. MaxCount) \X {"accept", "release", "reject"})
           /\ CommittedEnded' /\ DroppedEnded' /\ Answers'
           /\ ~Share' => Classic'
           /\ Share' => Shared'
<1>1. /\ answers' \in [Records -> Nat]
      /\ acks' \subseteq (Records \X (1 .. MaxCount) \X Kinds)
      /\ Answers'
      /\ ~Share => answers' = answers
      /\ Share => /\ \A i \in DOMAIN recs : answers'[recs[i]] = IF Owed(i) /\ i \notin D THEN 0 ELSE 1
                  /\ \A r \in Records : r \notin Polled => answers'[r] = answers[r]
  BY Answered, Zenon
<1>2. CommittedEnded' /\ DroppedEnded' /\ (~Share' => Classic')
  BY <1>1, Frame
<1>3. ASSUME Share' PROVE Shared'
  <2>1. Share
    BY <1>3 DEF Share
  <2> QED BY <1>1, <2>1, FrameShared
<1> QED BY <1>1, <1>2, <1>3 DEF Kinds

\* A step that answers the record at n, which is owed an answer, with the answer k.
LEMMA FrameOne ==
    ASSUME Known,
           IInv, pc # "down", NEW n \in DOMAIN recs, NEW k \in Kinds, Ack({<<recs[n], k>>}),
           UNCHANGED <<mode, committed, position, status, count, recs>>,
           ended \subseteq ended', accepting \subseteq accepting', rejecting \subseteq rejecting',
           k = "accept" => recs[n] \in accepting' \cup Foreign, k = "reject" => recs[n] \in rejecting',
           Owed(n), \A i \in DOMAIN recs : Owed(i)' <=> Owed(i) /\ i # n
    PROVE  /\ answers' \in [Records -> Nat]
           /\ acks' \subseteq (Records \X (1 .. MaxCount) \X {"accept", "release", "reject"})
           /\ CommittedEnded' /\ DroppedEnded' /\ Answers'
           /\ ~Share' => Classic'
           /\ Share' => Shared'
<1> DEFINE A == {<<recs[n], k>>}
<1>1. recs[n] \in Records
  BY Sizes
<1>2. A \in SUBSET (Records \X Kinds) /\ Ack(A) /\ {n} \in SUBSET DOMAIN recs
  BY <1>1
<1>3. \A a \in A : a[1] = recs[n] /\ a[2] = k
  OBVIOUS
<1>4. (\A a, b \in A : a = b) /\ \E a \in A : a[1] = recs[n]
  BY <1>3
<1> HIDE DEF A
<1>5. /\ \A a, b \in A : a[1] = b[1] => a = b
      /\ \A a \in A : \E i \in {n} : a[1] = recs[i]
      /\ \A i \in {n} : Owed(i) /\ \E a \in A : a[1] = recs[i]
      /\ \A a \in A : /\ a[2] = "accept" => a[1] \in accepting' \cup Foreign
                      /\ a[2] = "reject" => a[1] \in rejecting'
      /\ \A i \in DOMAIN recs : Owed(i)' <=> Owed(i) /\ i \notin {n}
  BY <1>3, <1>4
<1> QED BY <1>2, <1>5, FrameAnswers, Zenon

-----------------------------------------------------------------------------
(* The inductive step: the poll and the commit.                            *)

\* A poll returns f.
Returns(f) ==
    /\ pc = "polling" /\ pc' = "polled" /\ recs' = recs \o f
    /\ UNCHANGED <<committed, acks, shutdown, timer, dealing, history, bounds>>

\* The records in hand after a poll are those before it, and then what it returned.
LEMMA Appended ==
    ASSUME IInv, NEW f \in Fetched, Returns(f)
    PROVE  /\ recs \in Seq(Records) /\ f \in Seq(Records) /\ recs' \in Seq(Records)
           /\ DOMAIN recs = 1 .. Len(recs) /\ DOMAIN f = 1 .. Len(f) /\ DOMAIN recs' = 1 .. Len(recs')
           /\ Len(recs) \in Nat /\ Len(f) \in Nat /\ Len(recs') = Len(recs) + Len(f)
           /\ \A i \in DOMAIN recs : i \in DOMAIN recs' /\ recs'[i] = recs[i]
           /\ \A i \in DOMAIN recs' :
                 \/ i \in DOMAIN recs /\ recs'[i] = recs[i]
                 \/ i - Len(recs) \in DOMAIN f /\ recs'[i] = f[i - Len(recs)] /\ i > Len(recs)
           /\ Polled' = Polled \cup Got(f) /\ Got(f) \subseteq Records
<1>1. recs \in Seq(Records) /\ recs' = recs \o f
  BY DEF IInv, TypeOK, Returns
<1>2. f \in Seq(Records) /\ \A i \in DOMAIN f : f[i] \in Records
  BY FetchedIs
<1>3. /\ recs' \in Seq(Records) /\ Len(recs') = Len(recs) + Len(f)
      /\ \A i \in 1 .. Len(recs) + Len(f) : recs'[i] = IF i <= Len(recs) THEN recs[i] ELSE f[i - Len(recs)]
  BY <1>1, <1>2
<1>4. /\ DOMAIN recs = 1 .. Len(recs) /\ DOMAIN f = 1 .. Len(f) /\ DOMAIN recs' = 1 .. Len(recs) + Len(f)
      /\ Len(recs) \in Nat /\ Len(f) \in Nat
  BY <1>1, <1>2, <1>3
<1>5. \A i \in DOMAIN recs' :
         \/ i \in DOMAIN recs /\ recs'[i] = recs[i]
         \/ i - Len(recs) \in DOMAIN f /\ recs'[i] = f[i - Len(recs)] /\ i > Len(recs)
  BY <1>3, <1>4
<1>6. \A i \in DOMAIN recs : i \in DOMAIN recs' /\ recs'[i] = recs[i]
  BY <1>3, <1>4
<1>7. \A i \in DOMAIN f : Len(recs) + i \in DOMAIN recs' /\ recs'[Len(recs) + i] = f[i]
  BY <1>3, <1>4
<1>8. Polled' = Polled \cup Got(f)
  BY <1>5, <1>6, <1>7 DEF Polled, Got
<1>9. Got(f) \subseteq Records
  BY <1>2, Zenon DEF Got
<1> QED BY <1>1, <1>2, <1>3, <1>4, <1>5, <1>6, <1>8, <1>9

\* Whatever the group is, a poll keeps what the invariant says of the loop and of what is committed.
LEMMA PolledInv ==
    ASSUME IInv, NEW f \in Fetched, Returns(f),
           position' \in [Partitions -> Nat], \A p \in Partitions : position'[p] <= Length[p],
           status' \in [Records -> {"available", "acquired", "accepted", "rejected"}],
           count' \in [Records -> 0 .. MaxCount], answers' \in [Records -> Nat],
           DroppedEnded', Answers', ~Share => Classic', Share => Shared'
    PROVE  IInv'
<1>1. /\ pc = "polling" /\ pc' = "polled"
      /\ UNCHANGED <<committed, acks, shutdown, timer, dealing, history, bounds>>
  BY DEF Returns
<1> USE DEF shutdown, dealing, bounds
<1>2. /\ recs' \in Seq(Records) /\ Len(recs') = Len(recs) + Len(f) /\ Len(recs) \in Nat /\ Len(f) \in Nat
      /\ DOMAIN recs \subseteq DOMAIN recs'
  BY Appended, Zenon
<1>3. handled = 0 /\ back \subseteq DOMAIN recs
  BY <1>1, Sizes, Zenon
<1>4. ASSUME Batch PROVE Len(recs') <= Max
  <2>1. Len(f) <= Max - Len(recs)
    BY <1>4, FetchedParts DEF Limit
  <2> QED BY <1>2, <2>1, SizeAssumption
<1>5. handled' \in 0 .. Len(recs') /\ back' \subseteq DOMAIN recs'
  <2>1. handled' \in 0 .. Len(recs')
    BY <1>1, <1>2, <1>3
  <2> QED BY <1>1, <1>2, <1>3, <2>1, Zenon
<1>6. TypeOK'
  <2>1. pc' \in {"polled"} /\ Batch' = Batch
    BY <1>1 DEF Batch
  <2>2. recs' \in Seq(Records) /\ (Batch' => Len(recs') <= Max)
    BY <1>2, <1>4, <2>1, Zenon
  <2> QED BY <1>1, <1>5, <2>2, SMTT(20) DEF IInv, TypeOK, history
<1>7. Stands'
  BY <1>1, <1>3 DEF IInv, Stands, Batch, Share
<1>8. Dealt'
  BY <1>1, <1>3 DEF IInv, Dealt, Ended, Batch, stopping
<1>9. CommittedEnded'
  BY <1>1, Zenon DEF IInv, CommittedEnded, history
<1>10. Share' = Share
  BY <1>1 DEF Share
<1> QED BY <1>6, <1>7, <1>8, <1>9, <1>10, Zenon DEF IInv

\* A poll of a share group acquires what it returns, and owes an answer for each.
LEMMA PollSharedInv ==
    ASSUME IInv, NEW f \in Fetched, Returns(f), Share,
           status' = [r \in Records |-> IF r \in Got(f) THEN "acquired" ELSE status[r]],
           count' = [r \in Records |-> IF r \in Got(f) THEN count[r] + 1 ELSE count[r]],
           answers' = [r \in Records |-> IF r \in Got(f) THEN 0 ELSE answers[r]],
           position' = position
    PROVE  IInv'
<1>1. /\ pc = "polling" /\ pc' = "polled" /\ acks' = acks
      /\ ended' = ended /\ accepting' = accepting /\ rejecting' = rejecting
  BY DEF Returns, history
<1>2. recs = <<>> /\ Polled = {} /\ Len(recs) = 0 /\ Shared /\ DroppedEnded /\ Answers
  BY <1>1 DEF IInv, Stands, Polled
<1>3. /\ f \in Seq(Records) /\ DOMAIN f = 1 .. Len(f) /\ DOMAIN recs' = 1 .. Len(recs') /\ Len(f) \in Nat
      /\ Len(recs') = Len(recs) + Len(f) /\ Got(f) \subseteq Records
      /\ \A i \in DOMAIN recs' :
            \/ i \in DOMAIN recs /\ recs'[i] = recs[i]
            \/ i - Len(recs) \in DOMAIN f /\ recs'[i] = f[i - Len(recs)] /\ i > Len(recs)
      /\ Polled' = Polled \cup Got(f)
  BY Appended, Zenon
<1>4. /\ \A i \in DOMAIN f : f[i] \in Records /\ f[i][2] \in Fetchable(f[i][1])
      /\ \A i, j \in DOMAIN f : f[i] = f[j] => i = j
  BY FetchedIs, Zenon
<1>5. /\ status \in [Records -> {"available", "acquired", "accepted", "rejected"}]
      /\ count \in [Records -> 0 .. MaxCount] /\ answers \in [Records -> Nat] /\ MaxCount \in Nat
      /\ position \in [Partitions -> Nat] /\ \A p \in Partitions : position[p] <= Length[p]
  BY BoundsAssumption DEF IInv, TypeOK
<1>6. ASSUME NEW r \in Got(f) PROVE r \in Records /\ count[r] < MaxCount
  <2>1. PICK i \in DOMAIN f : r = f[i]
    BY DEF Got
  <2>2. r \in Records /\ r = <<r[1], r[2]>> /\ r[2] \in Fetchable(r[1])
    BY <1>4, <2>1, RecordFields
  <2> QED BY <2>2 DEF Fetchable
<1>7. status' \in [Records -> {"available", "acquired", "accepted", "rejected"}] /\ answers' \in [Records -> Nat]
  BY <1>5
<1>8. count' \in [Records -> 0 .. MaxCount]
  BY <1>5, <1>6
<1>9. DroppedEnded'
  BY <1>1, <1>2 DEF DroppedEnded
<1>10. Answers'
  <2>1. \A r \in Records : answers'[r] <= 1
    BY <1>2, <1>5 DEF Answers
  <2> QED BY <1>1, <1>2, <2>1 DEF Answers
<1>11. \A i \in DOMAIN recs' : i \in DOMAIN f /\ recs'[i] = f[i] /\ recs'[i] \in Got(f)
  <2>1. \A i \in DOMAIN recs' : i \in DOMAIN f /\ recs'[i] = f[i]
    BY <1>2, <1>3
  <2> QED BY <2>1 DEF Got
<1>12. \A i, j \in DOMAIN recs' : recs'[i] = recs'[j] => i = j
  BY <1>4, <1>11, Zenon
<1>13. \A i \in DOMAIN recs' : count'[recs'[i]] >= 1
  <2>1. \A r \in Got(f) : count'[r] >= 1
    BY <1>5, <1>6
  <2> QED BY <1>11, <2>1, Zenon
<1>14. \A i \in DOMAIN recs' : answers'[recs'[i]] = IF Owed(i)' THEN 0 ELSE 1
  <2>1. \A i : Owed(i)'
    BY <1>1 DEF Owed
  <2> QED BY <1>3, <1>11, <2>1
<1>15. ASSUME NEW r \in Records, status'[r] = "acquired" PROVE r \in Polled' \/ answers'[r] = 1
  <2>1. CASE r \in Got(f)
    BY <1>3, <2>1
  <2>2. CASE r \notin Got(f)
    BY <1>2, <1>15, <2>2 DEF Shared
  <2> QED BY <2>1, <2>2
<1>16. Shared'
  BY <1>1, <1>12, <1>13, <1>14, <1>15 DEF Shared
<1> QED BY <1>5, <1>7, <1>8, <1>9, <1>10, <1>16, PolledInv

\* A poll of a classic group moves the position of a partition past what it returns from it.
LEMMA PollClassicInv ==
    ASSUME Known, IInv, NEW f \in Fetched, Returns(f), ~Share,
           position' = Raised(position, Got(f)), UNCHANGED <<status, count, answers>>
    PROVE  IInv'
<1>1. ended' = ended /\ accepting' = accepting /\ rejecting' = rejecting /\ acks' = acks
  BY DEF Returns, history
<1>2. Classic /\ DroppedEnded /\ Answers
  BY DEF IInv
<1>3. /\ f \in Seq(Records) /\ recs \in Seq(Records) /\ Len(recs) \in Nat
      /\ DOMAIN recs = 1 .. Len(recs) /\ DOMAIN recs' = 1 .. Len(recs')
      /\ \A i \in DOMAIN recs' :
            \/ i \in DOMAIN recs /\ recs'[i] = recs[i]
            \/ i - Len(recs) \in DOMAIN f /\ recs'[i] = f[i - Len(recs)] /\ i > Len(recs)
      /\ Polled' = Polled \cup Got(f)
  BY Appended, Zenon
<1>4. \A p \in Partitions : position[p] \in Nat
  BY DEF IInv, TypeOK
<1>5. ASSUME NEW p \in Partitions
      PROVE  /\ position'[p] \in Nat /\ position[p] <= position'[p] /\ position'[p] <= Length[p]
             /\ \A i \in DOMAIN f : f[i][1] = p => f[i][2] > position[p] /\ f[i][2] <= position'[p]
             /\ \A m \in Nat : position[p] < m /\ m <= position'[p] => <<p, m>> \in Got(f)
             /\ \A i, j \in DOMAIN f : i < j /\ f[i][1] = p /\ f[j][1] = p => f[i][2] < f[j][2]
  BY ClassicFetched, Zenon DEF IInv, Known
<1>6. position' \in [Partitions -> Nat]
  BY <1>5, Zenon DEF Raised
<1>7. /\ status' \in [Records -> {"available", "acquired", "accepted", "rejected"}]
      /\ count' \in [Records -> 0 .. MaxCount] /\ answers' \in [Records -> Nat]
  BY DEF IInv, TypeOK
<1>8. DroppedEnded' /\ Answers'
  BY <1>1, <1>2 DEF DroppedEnded, Answers
<1>9. /\ \A i \in DOMAIN recs : recs[i][1] \in Partitions /\ recs[i][2] \in Nat /\ i \in Nat
      /\ \A i \in DOMAIN f : f[i][1] \in Partitions /\ f[i][2] \in Nat /\ i \in Nat
  BY <1>3, RecordFields
<1>10. ASSUME NEW i \in DOMAIN recs', NEW j \in DOMAIN recs', i < j, recs'[i][1] = recs'[j][1]
       PROVE  recs'[i][2] < recs'[j][2]
  <2>1. CASE i \in DOMAIN recs /\ recs'[i] = recs[i] /\ j \in DOMAIN recs /\ recs'[j] = recs[j]
    BY <1>2, <1>10, <2>1, Zenon DEF Classic
  <2>2. ASSUME NEW p, NEW k, i \in DOMAIN recs, recs'[i] = recs[i], p = recs[i][1],
               k \in DOMAIN f, recs'[j] = f[k]
        PROVE  recs'[i][2] < recs'[j][2]
    <3>1. p \in Partitions /\ recs[i][2] \in Nat /\ recs[i][2] <= position[p] /\ position[p] \in Nat
      BY <1>2, <1>4, <1>9, <2>2, Zenon DEF Classic
    <3>2. f[k][2] > position[p] /\ f[k][2] \in Nat
      BY <1>5, <1>9, <1>10, <2>2, <3>1, Zenon
    <3>3. recs[i][2] < f[k][2]
      BY <3>1, <3>2, LessThrough, Zenon
    <3> QED BY <2>2, <3>3, Zenon
  <2>3. CASE /\ i - Len(recs) \in DOMAIN f /\ recs'[i] = f[i - Len(recs)]
             /\ j - Len(recs) \in DOMAIN f /\ recs'[j] = f[j - Len(recs)]
    <3>1. i - Len(recs) < j - Len(recs)
      BY <1>3, <1>10
    <3> QED BY <1>5, <1>9, <1>10, <2>3, <3>1, Zenon
  <2>4. ~(i > Len(recs) /\ j \in DOMAIN recs)
    BY <1>3, <1>10
  <2> QED BY <1>3, <2>1, <2>2, <2>3, <2>4, Zenon
<1>11. ASSUME NEW i \in DOMAIN recs' PROVE recs'[i][2] <= position'[recs'[i][1]]
  <2>1. ASSUME NEW p, i \in DOMAIN recs, recs'[i] = recs[i], p = recs[i][1]
        PROVE  recs'[i][2] <= position'[recs'[i][1]]
    <3>1. p \in Partitions /\ recs[i][2] \in Nat /\ recs[i][2] <= position[p] /\ position[p] \in Nat
      BY <1>2, <1>4, <1>9, <2>1, Zenon DEF Classic
    <3>2. position'[p] \in Nat /\ position[p] <= position'[p]
      BY <1>5, <3>1, Zenon
    <3>3. recs[i][2] <= position'[p]
      BY <3>1, <3>2
    <3> QED BY <2>1, <3>3, Zenon
  <2>2. ASSUME NEW k \in DOMAIN f, recs'[i] = f[k] PROVE recs'[i][2] <= position'[recs'[i][1]]
    BY <1>5, <1>9, <2>2, Zenon
  <2> QED BY <1>3, <2>1, <2>2, Zenon
<1>12. ASSUME NEW p \in Partitions, NEW m \in 1 .. position'[p]
       PROVE  <<p, m>> \in ended \cup Foreign \cup Polled'
  <2>1. position[p] \in Nat /\ position'[p] \in Nat /\ m \in Nat /\ m <= position'[p] /\ 1 <= m
    BY <1>4, <1>5
  <2>2. CASE m \in 1 .. position[p]
    BY <1>2, <1>3, <2>2, Zenon DEF Classic
  <2>3. CASE position[p] < m
    BY <1>3, <1>5, <2>1, <2>3, Zenon
  <2> QED BY <2>1, <2>2, <2>3
<1>13. Classic'
  BY <1>1, <1>2, <1>10, <1>11, <1>12, Zenon DEF Classic
<1> QED BY <1>5, <1>6, <1>7, <1>8, <1>13, PolledInv

\* A poll returns records.
LEMMA PollInv ==
    ASSUME Known, IInv, Poll
    PROVE  IInv'
<1>1. PICK f \in Fetched :
         /\ Returns(f)
         /\ IF Share
            THEN /\ status' = [r \in Records |-> IF r \in Got(f) THEN "acquired" ELSE status[r]]
                 /\ count' = [r \in Records |-> IF r \in Got(f) THEN count[r] + 1 ELSE count[r]]
                 /\ answers' = [r \in Records |-> IF r \in Got(f) THEN 0 ELSE answers[r]]
                 /\ UNCHANGED position
            ELSE /\ position' = Raised(position, Got(f))
                 /\ UNCHANGED <<status, count, answers>>
  BY Zenon DEF Poll, Returns, Got
<1> QED BY <1>1, PollSharedInv, PollClassicInv

\* A classic group commits up to a record it has dealt with, as it has every one before it.
LEMMA commitInv ==
    ASSUME Known,
           IInv, commit
    PROVE  IInv'
<1>1. /\ pc = "committing" /\ pc' = "top"
      /\ UNCHANGED <<position, status, count, answering, shutdown, poll, dealing, history, bounds>>
  BY DEF commit
<1> USE DEF answering, shutdown, poll, dealing, bounds
<1>2. \A i \in DOMAIN recs : ~Owed(i) /\ ~Owed(i)'
  BY <1>1 DEF Owed
<1>3. Stands'
  BY <1>1 DEF IInv, Stands, Batch, Share
<1>4. Dealt'
  BY <1>1 DEF IInv, Dealt, Ended, Batch, stopping, history
<1>5. CASE UNCHANGED committed
  <2>1. CommittedEnded' /\ DroppedEnded' /\ Answers' /\ (~Share' => Classic') /\ (Share' => Shared')
    BY <1>1, <1>2, <1>5, FrameQuiet
  <2>2. TypeOK'
    BY <1>1, <1>5 DEF IInv, TypeOK, Batch, history
  <2> QED BY <1>3, <1>4, <2>1, <2>2 DEF IInv
<1>6. CASE ~Share /\ CommitRecords(ToCommit)
  <2> DEFINE I == IF Batch THEN committable ELSE 1 .. handled
  <2>1. /\ recs \in Seq(Records) /\ DOMAIN recs = 1 .. Len(recs) /\ Len(recs) \in Nat
        /\ handled \in 0 .. Len(recs) /\ back \subseteq DOMAIN recs
        /\ committed \in [Partitions -> Nat] /\ position \in [Partitions -> Nat]
        /\ \A p \in Partitions : position[p] <= Length[p] /\ committed[p] <= Length[p] /\ Length[p] \in Nat
    BY SizeAssumption DEF IInv, TypeOK
  <2>2. /\ \A i, j \in DOMAIN recs : i < j /\ recs[i][1] = recs[j][1] => recs[i][2] < recs[j][2]
        /\ \A i \in DOMAIN recs : recs[i][2] <= position[recs[i][1]]
        /\ \A p \in Partitions : \A n \in 1 .. position[p] : <<p, n>> \in ended \cup Foreign \cup Polled
    BY <1>6 DEF IInv, Classic
  <2>3. \A i \in DOMAIN recs : /\ recs[i] \in Records /\ recs[i][1] \in Partitions /\ recs[i][2] \in Nat
                               /\ recs[i][2] \in 1 .. Length[recs[i][1]] /\ i \in Nat
    BY <2>1, RecordFields
  <2>4. I \subseteq DOMAIN recs
    BY <2>1 DEF committable
  <2>5. ASSUME NEW i \in I, NEW j \in DOMAIN recs, j <= i, recs[j][1] = recs[i][1] PROVE Ended(j)
    <3>1. CASE Batch
      <4>1. j \notin back
        BY <2>5, <3>1 DEF committable
      <4> QED BY <1>1, <3>1, <4>1 DEF IInv, Dealt
    <3>2. CASE ~Batch
      <4>1. j \in 1 .. handled
        BY <2>1, <2>5, <3>2
      <4> QED BY <3>2, <4>1 DEF IInv, Dealt
    <3> QED BY <3>1, <3>2
  <2>6. ToCommit = {recs[i] : i \in I}
    BY DEF ToCommit
  <2>7. ToCommit \in SUBSET Records
    BY <2>3, <2>4, <2>6
  <2>8. ASSUME NEW p \in Partitions
        PROVE  /\ committed'[p] \in Nat /\ committed'[p] <= Length[p]
               /\ committed'[p] = committed[p] \/ <<p, committed'[p]>> \in ToCommit
    <3>1. committed' = Raised(committed, ToCommit)
      BY <1>6 DEF CommitRecords
    <3> QED BY <2>1, <2>7, <3>1, RaisedIs, Zenon DEF Known
  <2>9. ASSUME NEW p \in Partitions
        PROVE  /\ committed'[p] \in Nat /\ committed'[p] <= Length[p]
               /\ \A n \in 1 .. committed'[p] : <<p, n>> \in ended \cup Foreign
    <3>1. CASE committed'[p] = committed[p]
      BY <2>8, <3>1, ZenonT(30) DEF IInv, CommittedEnded
    <3>2. CASE <<p, committed'[p]>> \in ToCommit
      <4>4. PICK i \in I : recs[i] = <<p, committed'[p]>> /\ recs[i][1] = p /\ recs[i][2] = committed'[p]
        BY <2>6, <3>2
      <4> HIDE DEF I
      <4>5. i \in DOMAIN recs /\ committed'[p] \in Nat /\ committed'[p] <= position[p] /\ committed'[p] <= Length[p]
        BY <2>1, <2>2, <2>3, <2>4, <2>8, <4>4
      <4>6. ASSUME NEW n \in 1 .. committed'[p] PROVE <<p, n>> \in ended \cup Foreign
        <5>1. n \in 1 .. position[p]
          BY <2>1, <4>5
        <5>2. CASE <<p, n>> \notin Polled
          BY <2>2, <5>1, <5>2
        <5>3. CASE <<p, n>> \in Polled
          <6>1. PICK j \in DOMAIN recs : recs[j] = <<p, n>>
            BY <5>3 DEF Polled
          <6>2. recs[j][1] = p /\ recs[j][2] = n
            BY <6>1
          <6>3. n <= committed'[p]
            BY <4>5
          <6>4. ~(i < j)
            <7>1. i < j => committed'[p] < n
              BY <2>2, <4>4, <4>5, <6>2
            <7> QED BY <4>5, <6>3, <7>1
          <6>5. j <= i
            BY <2>3, <4>5, <6>4
          <6>6. Ended(j)
            BY <2>5, <4>4, <6>2, <6>5
          <6> QED BY <6>1, <6>6 DEF Ended
        <5> QED BY <5>2, <5>3
      <4> QED BY <4>5, <4>6
    <3> QED BY <2>8, <3>1, <3>2
  <2>10. CommittedEnded'
    BY <1>1, <2>9, Zenon DEF CommittedEnded, history
  <2>11. DroppedEnded' /\ Answers'
    BY <1>1 DEF IInv, DroppedEnded, Answers, history
  <2>12. ~Share' /\ Classic'
    BY <1>1, <1>6 DEF IInv, Classic, Polled, Share, history
  <2>13. TypeOK'
    <3>1. committed' \in [Partitions -> Nat]
      BY <1>6, <2>9, Zenon DEF CommitRecords, Raised
    <3> QED BY <1>1, <2>9, <3>1, Zenon DEF IInv, TypeOK, Batch, history
  <2> QED BY <1>3, <1>4, <2>10, <2>11, <2>12, <2>13 DEF IInv
<1> QED BY <1>5, <1>6, Zenon DEF commit

\* The loop ends, or has dealt with all it had polled and polls again.
LEMMA TopInv ==
    ASSUME Known,
           IInv, Top
    PROVE  IInv'
<1>1. pc = "top" /\ UNCHANGED <<broker, ctxEnded, closed, history, bounds>>
  BY Zenon DEF Top
<1> USE DEF broker, bounds
<1>2. \A i \in DOMAIN recs : ~Owed(i)
  BY <1>1 DEF Owed
<1>3. CASE pc' = "stopped" /\ releaseClient /\ UNCHANGED <<answering, poll, dealing>>
  <2> USE DEF answering, poll, dealing
  <2>1. \A i \in DOMAIN recs : ~Owed(i)'
    BY <1>3 DEF Owed
  <2>2. CommittedEnded' /\ DroppedEnded' /\ Answers' /\ (~Share' => Classic') /\ (Share' => Shared')
    BY <1>1, <1>2, <1>3, <2>1, FrameQuiet
  <2>3. clientOpen' \in BOOLEAN
    BY <1>3 DEF releaseClient, IInv, TypeOK
  <2>4. TypeOK'
    BY <1>1, <1>3, <2>3 DEF IInv, TypeOK, Batch, history
  <2>5. Stands'
    BY <1>1, <1>3 DEF IInv, Stands, Batch, Share
  <2>6. Dealt'
    BY <1>1, <1>3 DEF IInv, Dealt, Ended, Batch, stopping, history
  <2> QED BY <2>2, <2>4, <2>5, <2>6 DEF IInv
<1>4. ASSUME ~stopping, pc' = "polling", recs' = <<>>, timer' = "none", handled' = 0, back' = {}, outcome' = <<>>,
             UNCHANGED clientOpen,
             Ack({recs[i] : i \in {j \in DOMAIN recs : answers[recs[j]] = 0}} \X {"accept"})
      PROVE  IInv'
  <2> DEFINE A == {recs[i] : i \in {j \in DOMAIN recs : answers[recs[j]] = 0}} \X {"accept"}
  <2>1. recs \in Seq(Records) /\ Polled' = {}
    BY <1>4 DEF IInv, TypeOK, Polled
  <2>2. A \in SUBSET (Records \X Kinds)
    BY <2>1 DEF Kinds
  <2>3. ASSUME Share PROVE A = {} /\ \A i \in DOMAIN recs : answers[recs[i]] = 1
    <3>1. \A i \in DOMAIN recs : answers[recs[i]] = 1
      BY <1>1, <1>2, <2>3 DEF IInv, Shared
    <3> QED BY <3>1
  <2>4. Ack(A)
    BY <1>4
  <2> HIDE DEF A
  <2>5. {} \in SUBSET DOMAIN recs /\ pc # "down" /\ UNCHANGED <<accepting, rejecting>>
    BY <1>1 DEF history
  <2>6. /\ answers' \in [Records -> Nat]
        /\ acks' \subseteq (Records \X (1 .. MaxCount) \X Kinds)
        /\ Answers'
        /\ ~Share => answers' = answers
        /\ Share => /\ \A i \in DOMAIN recs : answers'[recs[i]] = IF Owed(i) /\ i \notin {} THEN 0 ELSE 1
                    /\ \A r \in Records : r \notin Polled => answers'[r] = answers[r]
    BY <2>2, <2>3, <2>4, <2>5, Answered, Zenon
  <2>7. \A r \in Polled : r \in ended \cup Foreign
    <3>1. ASSUME NEW i \in DOMAIN recs PROVE Ended(i)
      <4>1. CASE Batch
        BY <1>1, <1>4, <4>1, Zenon DEF IInv, Dealt
      <4>2. CASE ~Batch
        <5>1. handled = Len(recs) /\ \A j \in 1 .. handled : Ended(j)
          BY <1>1, <1>4, <4>2, Zenon DEF IInv, Dealt
        <5>2. DOMAIN recs = 1 .. Len(recs)
          BY <2>1
        <5> QED BY <5>1, <5>2
      <4> QED BY <4>1, <4>2
    <3> QED BY <3>1 DEF Polled, Ended
  <2>8. ASSUME ~Share' PROVE Classic'
    <3>1. ~Share /\ Classic
      BY <1>1, <2>8 DEF IInv, Share
    <3>2. \A p \in Partitions : \A n \in 1 .. position[p] : <<p, n>> \in ended \cup Foreign
      BY <2>7, <3>1, Zenon DEF Classic
    <3>3. DOMAIN recs' = {}
      BY <1>4
    <3> QED BY <1>1, <2>6, <3>1, <3>2, <3>3 DEF Classic, history
  <2>9. ASSUME Share' PROVE Shared'
    <3>1. Share /\ Shared
      BY <1>1, <2>9 DEF IInv, Share
    <3>2. DOMAIN recs' = {}
      BY <1>4
    <3>3. ASSUME NEW r \in Records, status[r] = "acquired" PROVE answers'[r] = 1
      <4>1. CASE r \in Polled
        BY <1>2, <2>6, <3>1, <4>1 DEF Polled
      <4>2. CASE r \notin Polled
        BY <2>6, <3>1, <3>3, <4>2, SMTT(20) DEF Shared
      <4> QED BY <4>1, <4>2
    <3> QED BY <1>1, <3>2, <3>3 DEF Shared
  <2>10. TypeOK'
    <3>1. recs' \in Seq(Records) /\ Len(recs') = 0 /\ outcome' \in Seq(Outcomes) /\ 0 <= Max
      BY <1>4, SizeAssumption
    <3> QED BY <1>1, <1>4, <2>6, <3>1 DEF IInv, TypeOK, Batch, history, Kinds
  <2>11. Stands'
    BY <1>4, Zenon DEF Stands
  <2>12. Dealt'
    BY <1>4 DEF Dealt
  <2>13. CommittedEnded' /\ DroppedEnded'
    BY <1>1 DEF IInv, CommittedEnded, DroppedEnded, history
  <2> QED BY <2>6, <2>8, <2>9, <2>10, <2>11, <2>12, <2>13 DEF IInv
<1> QED BY <1>3, <1>4, Zenon DEF Top, poll
=============================================================================
