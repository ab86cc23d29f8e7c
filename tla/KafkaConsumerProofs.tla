------------------------- MODULE KafkaConsumerProofs -------------------------
(***************************************************************************)
(* The proof that the read loop of a Kafka subscription keeps its records: *)
(* RecordsKept of KafkaConsumer is an invariant, for any number of         *)
(* partitions, records and handler outcomes, any batch size and any number *)
(* of stops, crashes and lapsed locks.                                     *)
(***************************************************************************)
EXTENDS KafkaConsumerPolls, TLAPS

-----------------------------------------------------------------------------
(* The inductive step: the steps that answer records.                      *)

\* A record whose handling ended is answered as it was asked for.
LEMMA SettleEffect ==
    ASSUME NEW o \in Outcomes, NEW r \in Records, Settle(o, r),
           accepting \subseteq Records, rejecting \subseteq Records, ended \subseteq Records
    PROVE  /\ ended \subseteq ended' /\ ended' \subseteq Records /\ r \in ended'
           /\ accepting \subseteq accepting' /\ accepting' \subseteq Records
           /\ rejecting \subseteq rejecting' /\ rejecting' \subseteq Records
           /\ ackFor(o, r) \in Kinds /\ Ack({<<r, ackFor(o, r)>>})
           /\ ackFor(o, r) = "accept" => r \in accepting'
           /\ ackFor(o, r) = "reject" => r \in rejecting'
<1>1. o.asked \in {"unset", "settle", "redeliver", "reject"}
  BY OutcomesAssumption DEF Dispositions
<1>2. /\ ended' = ended \cup {r} /\ Ack({<<r, ackFor(o, r)>>})
      /\ accepting' = IF o.asked \in {"unset", "settle"} THEN accepting \cup {r} ELSE accepting
      /\ rejecting' = IF o.asked = "reject" \/ capped(o, r) THEN rejecting \cup {r} ELSE rejecting
  BY DEF Settle
<1>3. CASE o.asked = "redeliver"
  <2>1. ackFor(o, r) = IF capped(o, r) THEN "reject" ELSE "release"
    BY <1>3 DEF ackFor
  <2> QED BY <1>2, <1>3, <2>1 DEF Kinds
<1>4. CASE o.asked = "reject"
  <2>1. ackFor(o, r) = "reject"
    BY <1>4 DEF ackFor
  <2> QED BY <1>2, <1>4, <2>1 DEF Kinds
<1>5. CASE o.asked \in {"unset", "settle"}
  <2>1. ackFor(o, r) = "accept"
    BY <1>5 DEF ackFor
  <2> QED BY <1>2, <1>5, <2>1 DEF Kinds
<1> QED BY <1>1, <1>3, <1>4, <1>5

\* The records of a batch are answered one by one.
LEMMA AnswerInv ==
    ASSUME Known,
           IInv, Answer
    PROVE  IInv'
<1> DEFINE n == handled + 1
<1>1. /\ pc = "answering" /\ Batch /\ recs \in Seq(Records) /\ handled \in 0 .. Len(recs)
      /\ DOMAIN recs = 1 .. Len(recs) /\ Len(recs) \in Nat /\ handled \in Nat
      /\ outcome \in [1 .. Len(recs) -> Outcomes]
  <2>1. pc = "answering" /\ Batch /\ outcome \in [1 .. Len(recs) -> Outcomes]
    BY DEF IInv, Stands, Answer
  <2> QED BY <2>1, Sizes, Zenon
<1>2. /\ IF handled = Len(recs) THEN pc' = "committing" /\ UNCHANGED handled ELSE handled' = n /\ UNCHANGED pc
      /\ UNCHANGED <<broker, shutdown, poll, outcome, bounds>>
  BY DEF Answer
<1> USE DEF broker, shutdown, poll, bounds
<1>3. Mine' = Mine /\ Mine \subseteq DOMAIN recs /\ \A i \in DOMAIN recs : i \notin Mine => recs[i] \in Foreign
  BY <1>2 DEF Mine
<1>4. /\ \A i \in 1 .. handled : Ended(i) \/ i \in back
      /\ back # {} => stopping
  BY <1>1 DEF IInv, Dealt
<1>5. n \notin 1 .. handled /\ \A i \in 1 .. n : i \in 1 .. handled \/ i = n
  BY <1>1
<1>6. CASE handled = Len(recs)
  <2>1. n \notin Mine
    BY <1>1, <1>3, <1>6
  <2>2. pc' = "committing" /\ UNCHANGED <<handled, back, answering, history>>
    BY <1>2, <1>6, <2>1 DEF Answer, history
  <2>3. \A i \in DOMAIN recs : Owed(i)' <=> Owed(i)
    BY <1>1, <1>6, <2>2 DEF Owed
  <2>4. CommittedEnded' /\ DroppedEnded' /\ Answers' /\ (~Share' => Classic') /\ (Share' => Shared')
    BY <1>1, <1>2, <2>2, <2>3, FrameQuiet, ZenonT(30) DEF answering
  <2>5. TypeOK'
    BY <1>2, <2>2 DEF IInv, TypeOK, Batch, history, answering
  <2>6. Stands'
    BY <1>1, <1>2, <2>2, Zenon DEF IInv, Stands, Batch, Share
  <2>7. Dealt'
    BY <1>1, <1>2, <1>4, <1>6, <2>2 DEF Dealt, Ended, Batch, stopping, history
  <2> QED BY <2>4, <2>5, <2>6, <2>7 DEF IInv
<1>7. CASE handled # Len(recs)
  <2>1. n \in DOMAIN recs /\ n \in 1 .. Len(recs) /\ recs[n] \in Records /\ outcome[n] \in Outcomes
    <3>1. handled \in 0 .. Len(recs) /\ Len(recs) \in Nat
      BY <1>1
    <3>2. n \in 1 .. Len(recs)
      BY <1>7, <3>1
    <3> HIDE DEF n
    <3> QED BY <1>1, <3>2
  <2>2. handled' = n /\ pc' = pc
    BY <1>2, <1>7
  <2>3. ASSUME TypeOK', CommittedEnded', DroppedEnded', Answers', ~Share' => Classic', Share' => Shared',
               ended \subseteq ended', back \subseteq back', recs[n] \in ended' \cup Foreign \/ n \in back',
               back' # {} => stopping
        PROVE  IInv'
    <3>1. Stands'
      BY <1>1, <1>2, <2>2, Zenon DEF IInv, Stands, Batch, Share
    <3>2. ASSUME NEW i \in 1 .. handled' PROVE Ended(i)' \/ i \in back'
      <4>1. CASE i = n
        BY <1>2, <2>3, <4>1 DEF Ended
      <4>2. CASE i \in 1 .. handled
        BY <1>2, <1>4, <2>3, <4>2 DEF Ended
      <4> QED BY <1>5, <2>2, <4>1, <4>2
    <3>3. Dealt'
      BY <1>1, <1>2, <2>2, <2>3, <3>2, Zenon DEF Dealt, Batch, stopping
    <3> QED BY <2>3, <3>1, <3>3 DEF IInv
  <2>4. Owed(n) <=> n \in Mine
    BY <1>1 DEF Owed
  <2>5. \A i \in DOMAIN recs : Owed(i)' <=> Owed(i) /\ i # n
    <3>1. \A i \in DOMAIN recs : Owed(i) <=> i > handled /\ i \in Mine
      BY <1>1 DEF Owed
    <3>2. \A i \in DOMAIN recs : Owed(i)' <=> i > n /\ i \in Mine
      <4> HIDE DEF n
      <4> QED BY <1>1, <1>2, <1>3, <2>2, Zenon DEF Owed, Batch
    <3>3. handled \in Nat /\ \A i \in DOMAIN recs : i \in Nat
      BY <1>1
    <3>4. \A i \in DOMAIN recs : i > n <=> i > handled /\ i # n
      BY <3>3
    <3> QED BY <3>1, <3>2, <3>4
  <2>6. handled' \in 0 .. Len(recs')
    BY <1>2, <2>1, <2>2
  <2>7. CASE n \notin Mine /\ UNCHANGED <<back, answering, ended, accepting, rejecting>>
    <3>1. \A i \in DOMAIN recs : Owed(i)' <=> Owed(i)
      BY <2>4, <2>5, <2>7
    <3>2. CommittedEnded' /\ DroppedEnded' /\ Answers' /\ (~Share' => Classic') /\ (Share' => Shared')
      BY <1>1, <1>2, <2>7, <3>1, FrameQuiet, ZenonT(30) DEF answering, history
    <3>3. TypeOK'
      BY <1>2, <2>2, <2>6, <2>7, ZenonT(30) DEF IInv, TypeOK, Batch, answering
    <3> QED BY <1>3, <1>4, <2>1, <2>3, <2>7, <3>2, <3>3
  <2>8. CASE n \in Mine /\ interrupted(outcome[n]) /\ CutShort(n) /\ UNCHANGED <<ended, accepting, rejecting>>
    <3>1. back' = back \cup {n} /\ Ack({recs[n]} \X {"release"}) /\ stopping
      BY <2>8 DEF CutShort, handBack, interrupted, stopping
    <3>2. {recs[n]} \X {"release"} = {<<recs[n], "release">>}
      OBVIOUS
    <3>3. /\ answers' \in [Records -> Nat]
          /\ acks' \subseteq (Records \X (1 .. MaxCount) \X {"accept", "release", "reject"})
          /\ CommittedEnded' /\ DroppedEnded' /\ Answers' /\ (~Share' => Classic') /\ (Share' => Shared')
      <4> HIDE DEF n
      <4>1. Ack({<<recs[n], "release">>}) /\ Owed(n) /\ pc # "down" /\ "release" \in Kinds
        BY <1>1, <2>4, <2>8, <3>1, <3>2, Zenon DEF Kinds
      <4> QED BY <1>2, <2>1, <2>5, <2>8, <4>1, FrameOne, Zenon
    <3>4. TypeOK'
      BY <1>2, <2>1, <2>2, <2>6, <2>8, <3>1, <3>3, ZenonT(30) DEF IInv, TypeOK, Batch
    <3> QED BY <2>3, <2>8, <3>1, <3>3, <3>4, Zenon
  <2>9. CASE n \in Mine /\ Settle(outcome[n], recs[n]) /\ UNCHANGED back
    <3> HIDE DEF n
    <3>1. /\ ended \subseteq ended' /\ ended' \subseteq Records /\ recs[n] \in ended'
          /\ accepting \subseteq accepting' /\ accepting' \subseteq Records
          /\ rejecting \subseteq rejecting' /\ rejecting' \subseteq Records
          /\ ackFor(outcome[n], recs[n]) \in Kinds /\ Ack({<<recs[n], ackFor(outcome[n], recs[n])>>})
          /\ ackFor(outcome[n], recs[n]) = "accept" => recs[n] \in accepting'
          /\ ackFor(outcome[n], recs[n]) = "reject" => recs[n] \in rejecting'
      BY <2>1, <2>9, SettleEffect, ZenonT(30) DEF IInv, TypeOK
    <3>2. /\ answers' \in [Records -> Nat]
          /\ acks' \subseteq (Records \X (1 .. MaxCount) \X {"accept", "release", "reject"})
          /\ CommittedEnded' /\ DroppedEnded' /\ Answers' /\ (~Share' => Classic') /\ (Share' => Shared')
      BY <1>1, <1>2, <2>1, <2>4, <2>5, <2>9, <3>1, FrameOne, ZenonT(30)
    <3>3. TypeOK'
      BY <1>2, <2>2, <2>6, <2>9, <3>1, <3>2, Zenon DEF IInv, TypeOK, Batch
    <3> QED BY <1>4, <2>3, <2>9, <3>1, <3>2, <3>3, ZenonT(30)
  <2> QED BY <2>7, <2>8, <2>9, Zenon DEF Answer
<1> QED BY <1>6, <1>7

\* The records of another contract are answered, and the others go back when the loop must stop.
LEMMA DecodeInv ==
    ASSUME Known,
           IInv, Decode
    PROVE  IInv'
<1> DEFINE mine == {recs[i] : i \in Mine}
           stop == mine # {} /\ stopping
           D == IF stop THEN DOMAIN recs ELSE DOMAIN recs \ Mine
           A == ((Polled \ mine) \X {"accept"}) \cup (IF stop THEN mine \X {"release"} ELSE {})
<1>1. /\ pc = "decoding" /\ Batch /\ handled = 0 /\ recs \in Seq(Records)
      /\ DOMAIN recs = 1 .. Len(recs) /\ Len(recs) \in Nat
  BY Sizes, Zenon DEF Decode
<1>2. /\ pc' = IF mine = {} \/ stop THEN "committing" ELSE "handing"
      /\ back' = IF stop THEN Mine ELSE {}
      /\ Ack(A)
      /\ UNCHANGED <<broker, shutdown, poll, handled, outcome, history, bounds>>
  BY ZenonT(30) DEF Decode
<1> USE DEF broker, shutdown, poll, bounds
<1>3. /\ \A i \in DOMAIN recs : recs[i] \in Records /\ i > 0 /\ (recs[i] \in mine <=> i \in Mine)
      /\ \A i \in DOMAIN recs : i \notin Mine => recs[i] \in Foreign
      /\ Mine \subseteq DOMAIN recs /\ (mine = {} <=> Mine = {})
  <2>1. \A i \in DOMAIN recs : recs[i] \in Records /\ i > 0
    BY <1>1
  <2>2. Mine \subseteq DOMAIN recs /\ \A i \in DOMAIN recs : i \in Mine <=> recs[i] \notin Foreign
    BY DEF Mine
  <2>3. \A i \in DOMAIN recs : recs[i] \in mine <=> i \in Mine
    BY <2>2
  <2>4. mine = {} <=> Mine = {}
    OBVIOUS
  <2> QED BY <2>1, <2>2, <2>3, <2>4
<1>4. ASSUME NEW a \in A
      PROVE  \E i \in DOMAIN recs : \/ i \notin Mine /\ a = <<recs[i], "accept">>
                                    \/ stop /\ i \in Mine /\ a = <<recs[i], "release">>
  <2>1. CASE a \in (Polled \ mine) \X {"accept"}
    BY <1>3, <2>1 DEF Polled
  <2>2. CASE stop /\ a \in mine \X {"release"}
    BY <1>3, <2>2
  <2> QED BY <2>1, <2>2
<1>5. ASSUME NEW i \in DOMAIN recs
      PROVE  /\ i \notin Mine => <<recs[i], "accept">> \in A
             /\ stop /\ i \in Mine => <<recs[i], "release">> \in A
  BY <1>3 DEF Polled
<1> HIDE DEF A, mine, stop
<1>6. A \in SUBSET (Records \X Kinds)
  BY <1>3, <1>4 DEF Kinds
<1>7. ASSUME NEW a \in A, NEW b \in A, a[1] = b[1] PROVE a = b
  <2>1. PICK i \in DOMAIN recs : \/ i \notin Mine /\ a = <<recs[i], "accept">>
                                 \/ stop /\ i \in Mine /\ a = <<recs[i], "release">>
    BY <1>4
  <2>2. PICK j \in DOMAIN recs : \/ j \notin Mine /\ b = <<recs[j], "accept">>
                                 \/ stop /\ j \in Mine /\ b = <<recs[j], "release">>
    BY <1>4
  <2>3. recs[i] = recs[j] /\ (i \in Mine <=> j \in Mine)
    BY <1>3, <1>7, <2>1, <2>2
  <2> QED BY <2>1, <2>2, <2>3
<1>8. \A a \in A : \E i \in D : a[1] = recs[i]
  BY <1>3, <1>4
<1>9. \A i \in D : \E a \in A : a[1] = recs[i]
  <2> SUFFICES ASSUME NEW i \in D PROVE \E a \in A : a[1] = recs[i]
    OBVIOUS
  <2>1. i \in DOMAIN recs /\ (stop \/ i \notin Mine)
    BY <1>3
  <2>2. <<recs[i], "accept">>[1] = recs[i] /\ <<recs[i], "release">>[1] = recs[i]
    OBVIOUS
  <2> QED BY <1>5, <2>1, <2>2, Zenon
<1>10. \A a \in A : (a[2] = "accept" => a[1] \in Foreign) /\ a[2] # "reject"
  BY <1>3, <1>4
<1>11. (\A i \in D : Owed(i)) /\ D \in SUBSET DOMAIN recs
  BY <1>1, <1>3 DEF Owed
<1>12. \A i \in DOMAIN recs : Owed(i)' <=> Owed(i) /\ i \notin D
  <2>1. Mine' = Mine
    BY <1>2 DEF Mine
  <2>2. CASE mine = {} \/ stop
    BY <1>2, <1>3, <2>2 DEF Owed
  <2>3. CASE ~(mine = {} \/ stop)
    BY <1>1, <1>2, <1>3, <2>1, <2>3 DEF Owed, Batch
  <2> QED BY <2>2, <2>3
<1> HIDE DEF D
<1>13. /\ answers' \in [Records -> Nat]
       /\ acks' \subseteq (Records \X (1 .. MaxCount) \X {"accept", "release", "reject"})
       /\ CommittedEnded' /\ DroppedEnded' /\ Answers' /\ (~Share' => Classic') /\ (Share' => Shared')
  <2>1. Ack(A) /\ pc # "down" /\ UNCHANGED <<mode, committed, position, status, count, recs, ended, accepting, rejecting>>
    BY <1>1, <1>2 DEF history
  <2> QED BY <1>6, <1>7, <1>8, <1>9, <1>10, <1>11, <1>12, <2>1, FrameAnswers, Zenon
<1>14. TypeOK'
  BY <1>2, <1>3, <1>13, Zenon DEF IInv, TypeOK, Batch, history
<1>15. Stands'
  BY <1>1, <1>2 DEF IInv, Stands, Batch, Share
<1>16. Dealt'
  <2>1. stop => stopping
    BY DEF stop
  <2>2. ASSUME mine = {} \/ stop PROVE \A i \in DOMAIN recs : Ended(i) \/ i \in back'
    BY <1>2, <1>3, <2>2 DEF Ended
  <2> QED BY <1>1, <1>2, <2>1, <2>2 DEF Dealt, Ended, Batch, stopping, history
<1> QED BY <1>13, <1>14, <1>15, <1>16 DEF IInv

\* The records the loop did not deal with go back.
LEMMA EndFetchInv ==
    ASSUME Known,
           IInv, EndFetch
    PROVE  IInv'
<1> DEFINE D == handled + 1 .. Len(recs)
           A == LeftOver \X {"release"}
<1>1. /\ pc = "ending" /\ ~Batch /\ recs \in Seq(Records) /\ handled \in 0 .. Len(recs)
      /\ DOMAIN recs = 1 .. Len(recs) /\ Len(recs) \in Nat /\ handled \in Nat
  BY Sizes, Zenon DEF EndFetch
<1>2. pc' = "committing" /\ Ack(A) /\ UNCHANGED <<broker, shutdown, poll, dealing, history, bounds>>
  BY DEF EndFetch, handBack
<1> USE DEF broker, shutdown, poll, dealing, bounds
<1>3. D \in SUBSET DOMAIN recs /\ \A i \in DOMAIN recs : i \in D <=> i > handled
  BY <1>1
<1>4. \A i \in D : recs[i] \in Records
  BY <1>1, <1>3
<1>5. A \in SUBSET (Records \X Kinds)
  BY <1>4 DEF LeftOver, Kinds
<1>6. \A a \in A : a[2] = "release" /\ \E i \in D : a[1] = recs[i]
  BY DEF LeftOver
<1>7. \A a, b \in A : a[1] = b[1] => a = b
  OBVIOUS
<1>8. \A i \in D : <<recs[i], "release">> \in A /\ <<recs[i], "release">>[1] = recs[i]
  BY DEF LeftOver
<1>9. /\ \A i \in D : Owed(i)
      /\ \A i \in DOMAIN recs : Owed(i)' <=> Owed(i) /\ i \notin D
  BY <1>1, <1>2, <1>3 DEF Owed, Batch
<1> HIDE DEF A, D
<1>10. /\ answers' \in [Records -> Nat]
       /\ acks' \subseteq (Records \X (1 .. MaxCount) \X {"accept", "release", "reject"})
       /\ CommittedEnded' /\ DroppedEnded' /\ Answers' /\ (~Share' => Classic') /\ (Share' => Shared')
  BY <1>1, <1>2, <1>3, <1>5, <1>6, <1>7, <1>8, <1>9, FrameAnswers, ZenonT(30) DEF history
<1>11. TypeOK'
  BY <1>2, <1>10, ZenonT(30) DEF IInv, TypeOK, Batch, history
<1>12. Stands'
  BY <1>1, <1>2 DEF IInv, Stands, Batch, Share
<1>13. Dealt'
  BY <1>1, <1>2, Zenon DEF IInv, Dealt, Ended, Batch, stopping, history
<1> QED BY <1>10, <1>11, <1>12, <1>13 DEF IInv

\* A handler returns: the record is answered, or the shutdown cut it short.
LEMMA HandlerReturnsInv ==
    ASSUME Known,
           IInv, NEW o \in Outcomes, HandlerReturns(o)
    PROVE  IInv'
<1> DEFINE n == handled + 1
<1>1. /\ pc = "handling" /\ ~Batch /\ recs \in Seq(Records) /\ handled < Len(recs) /\ Len(recs) \in Nat
      /\ handled \in Nat
  BY Sizes, Zenon DEF HandlerReturns
<1>2. UNCHANGED <<broker, shutdown, poll, back, outcome, bounds>>
  BY DEF HandlerReturns
<1> USE DEF broker, shutdown, poll, bounds
<1>3. n \in DOMAIN recs /\ recs[n] \in Records /\ DOMAIN recs = 1 .. Len(recs)
  BY <1>1
<1>4. CASE interrupted(o) /\ pc' = "ending" /\ UNCHANGED <<handled, answering, ended, accepting, rejecting>>
  <2>1. \A i \in DOMAIN recs : Owed(i)' <=> Owed(i)
    BY <1>1, <1>2, <1>4 DEF Owed, Batch
  <2>2. CommittedEnded' /\ DroppedEnded' /\ Answers' /\ (~Share' => Classic') /\ (Share' => Shared')
    BY <1>1, <1>2, <1>4, <2>1, FrameQuiet DEF answering, history
  <2>3. TypeOK'
    BY <1>2, <1>4 DEF IInv, TypeOK, Batch, answering
  <2>4. Stands'
    BY <1>1, <1>2, <1>4 DEF IInv, Stands, Batch, Share
  <2>5. stopping
    BY <1>4 DEF interrupted, stopping
  <2>6. Dealt'
    BY <1>1, <1>2, <1>4, <2>5 DEF IInv, Dealt, Ended, Batch, stopping
  <2> QED BY <2>2, <2>3, <2>4, <2>6 DEF IInv
<1>5. CASE pc' = "delivering" /\ handled' = n /\ Settle(o, recs[n])
  <2> HIDE DEF n
  <2>1. /\ ended \subseteq ended' /\ ended' \subseteq Records /\ recs[n] \in ended'
        /\ accepting \subseteq accepting' /\ accepting' \subseteq Records
        /\ rejecting \subseteq rejecting' /\ rejecting' \subseteq Records
        /\ ackFor(o, recs[n]) \in Kinds /\ Ack({<<recs[n], ackFor(o, recs[n])>>})
        /\ ackFor(o, recs[n]) = "accept" => recs[n] \in accepting'
        /\ ackFor(o, recs[n]) = "reject" => recs[n] \in rejecting'
    BY <1>3, <1>5, SettleEffect, ZenonT(30) DEF IInv, TypeOK
  <2>2. Owed(n) /\ \A i \in DOMAIN recs : Owed(i)' <=> Owed(i) /\ i # n
    BY <1>1, <1>2, <1>3, <1>5 DEF Owed, Batch, n
  <2>3. /\ answers' \in [Records -> Nat]
        /\ acks' \subseteq (Records \X (1 .. MaxCount) \X {"accept", "release", "reject"})
        /\ CommittedEnded' /\ DroppedEnded' /\ Answers' /\ (~Share' => Classic') /\ (Share' => Shared')
    BY <1>1, <1>2, <1>3, <2>1, <2>2, FrameOne, Zenon
  <2>4. TypeOK'
    <3>1. handled' \in 0 .. Len(recs')
      BY <1>1, <1>2, <1>3, <1>5 DEF n
    <3> QED BY <1>2, <1>5, <2>1, <2>3, <3>1, Zenon DEF IInv, TypeOK, Batch
  <2>5. Stands'
    BY <1>1, <1>2, <1>5 DEF IInv, Stands, Batch, Share
  <2>6. Dealt'
    <3>1. \A i \in 1 .. n : i \in 1 .. handled \/ i = n
      BY <1>1 DEF n
    <3>2. \A i \in 1 .. n : recs[i] \in ended' \cup Foreign
      BY <1>1, <2>1, <3>1 DEF IInv, Dealt, Ended
    <3>3. back # {} => stopping
      BY DEF IInv, Dealt
    <3> QED BY <1>1, <1>2, <1>5, <3>2, <3>3 DEF Dealt, Ended, Batch, stopping
  <2> QED BY <2>3, <2>4, <2>5, <2>6 DEF IInv
<1> QED BY <1>4, <1>5, Zenon DEF HandlerReturns

\* The next record is one of another contract and is answered, or is handed over, or there is none.
LEMMA NextRecordInv ==
    ASSUME Known,
           IInv, NextRecord
    PROVE  IInv'
<1> USE DEF broker, shutdown, poll, bounds
<1> DEFINE n == handled + 1
<1>1. /\ pc = "delivering" /\ ~Batch /\ recs \in Seq(Records) /\ handled \in 0 .. Len(recs)
      /\ DOMAIN recs = 1 .. Len(recs) /\ Len(recs) \in Nat
      /\ UNCHANGED <<broker, shutdown, poll, back, outcome, history, bounds>>
  BY Sizes, Zenon DEF NextRecord
<1>5. ASSUME ~FetchOver PROVE n \in 1 .. Len(recs) /\ handled < Len(recs)
  <2>1. handled # Len(recs)
    BY <1>5, Zenon DEF FetchOver
  <2>2. handled \in 0 .. Len(recs) /\ Len(recs) \in Nat
    BY <1>1
  <2> QED BY <2>1, <2>2
<1>2. CASE FetchOver /\ pc' = "ending" /\ UNCHANGED <<handled, answering>>
  <2>1. \A i \in DOMAIN recs : Owed(i)' <=> Owed(i)
    BY <1>1, <1>2 DEF Owed, Batch
  <2>2. CommittedEnded' /\ DroppedEnded' /\ Answers' /\ (~Share' => Classic') /\ (Share' => Shared')
    BY <1>1, <1>2, <2>1, FrameQuiet, Zenon DEF answering
  <2>3. TypeOK'
    BY <1>1, <1>2, Zenon DEF IInv, TypeOK, Batch, history, answering
  <2>4. Stands'
    BY <1>1, <1>2 DEF IInv, Stands, Batch, Share
  <2>5. Dealt'
    BY <1>1, <1>2, Zenon DEF IInv, Dealt, Ended, Batch, stopping, history, FetchOver
  <2> QED BY <2>2, <2>3, <2>4, <2>5 DEF IInv
<1>3. CASE ~FetchOver /\ recs[n] \in Foreign /\ handled' = n /\ Ack({<<recs[n], "accept">>}) /\ UNCHANGED pc
  <2>1. n \in DOMAIN recs /\ handled' = n /\ n \in 1 .. Len(recs)
    BY <1>1, <1>3, <1>5
  <2>2. Owed(n) /\ \A i \in DOMAIN recs : Owed(i)' <=> Owed(i) /\ i # n
    BY <1>1, <1>3, <2>1 DEF Owed, Batch
  <2> HIDE DEF n
  <2>6. /\ answers' \in [Records -> Nat]
        /\ acks' \subseteq (Records \X (1 .. MaxCount) \X {"accept", "release", "reject"})
        /\ CommittedEnded' /\ DroppedEnded' /\ Answers' /\ (~Share' => Classic') /\ (Share' => Shared')
    BY <1>1, <1>3, <2>1, <2>2, FrameOne, Zenon DEF history, Kinds
  <2>7. TypeOK'
    <3>1. handled' \in 0 .. Len(recs')
      BY <1>1, <2>1
    <3> QED BY <1>1, <1>3, <2>6, <3>1, Zenon DEF IInv, TypeOK, Batch, history
  <2>8. Stands'
    BY <1>1, <1>3 DEF IInv, Stands, Batch, Share
  <2>9. Dealt'
    <3>1. \A i \in 1 .. n : i \in 1 .. handled \/ i = n
      BY <1>1 DEF n
    <3>2. \A i \in 1 .. n : Ended(i)
      BY <1>1, <1>3, <3>1 DEF IInv, Dealt, Ended
    <3> QED BY <1>1, <1>3, <2>1, <3>2 DEF IInv, Dealt, Ended, Batch, stopping, history
  <2> QED BY <2>6, <2>7, <2>8, <2>9 DEF IInv
<1>4. CASE ~FetchOver /\ pc' = "handing" /\ UNCHANGED <<handled, answering>>
  <2>1. \A i \in DOMAIN recs : Owed(i)' <=> Owed(i)
    BY <1>1, <1>4 DEF Owed, Batch
  <2>2. CommittedEnded' /\ DroppedEnded' /\ Answers' /\ (~Share' => Classic') /\ (Share' => Shared')
    BY <1>1, <1>4, <2>1, FrameQuiet, Zenon DEF answering
  <2>3. TypeOK'
    BY <1>1, <1>4 DEF IInv, TypeOK, Batch, history, answering
  <2>4. Stands'
    BY <1>1, <1>4, <1>5 DEF IInv, Stands, Batch, Share
  <2>5. Dealt'
    BY <1>1, <1>4 DEF IInv, Dealt, Ended, Batch, stopping, history
  <2> QED BY <2>2, <2>3, <2>4, <2>5 DEF IInv
<1> QED BY <1>2, <1>3, <1>4, Zenon DEF NextRecord

\* The loop must stop after a poll, and what it polled goes back; or it goes on.
LEMMA PollReturnsInv ==
    ASSUME Known,
           IInv, PollReturns
    PROVE  IInv'
<1> USE DEF PollReturns, broker, poll, dealing, bounds
<1>1. CASE (stopping \/ ~clientOpen) /\ pc' = "stopped" /\ handBack(Polled) /\ releaseClient
  <2> DEFINE A == Polled \X {"release"}
  <2>1. recs \in Seq(Records)
    BY Sizes, Zenon
  <2>2. A \in SUBSET (Records \X Kinds) /\ Ack(A)
    BY <1>1, <2>1 DEF handBack, Polled, Kinds
  <2>3. \A a \in A : a[2] = "release" /\ \E i \in DOMAIN recs : a[1] = recs[i]
    BY DEF Polled
  <2>4. \A a, b \in A : a[1] = b[1] => a = b
    OBVIOUS
  <2>5. \A i \in DOMAIN recs : <<recs[i], "release">> \in A /\ <<recs[i], "release">>[1] = recs[i]
    BY DEF Polled
  <2>6. \A i \in DOMAIN recs : Owed(i) /\ ~Owed(i)'
    BY <1>1 DEF Owed
  <2> HIDE DEF A
  <2>7. /\ answers' \in [Records -> Nat]
        /\ acks' \subseteq (Records \X (1 .. MaxCount) \X {"accept", "release", "reject"})
        /\ CommittedEnded' /\ DroppedEnded' /\ Answers' /\ (~Share' => Classic') /\ (Share' => Shared')
    BY <2>2, <2>3, <2>4, <2>5, <2>6, FrameAnswers, ZenonT(30) DEF history
  <2>8. TypeOK'
    <3>1. clientOpen' \in BOOLEAN
      BY <1>1 DEF releaseClient, IInv, TypeOK
    <3> QED BY <1>1, <2>7, <3>1, SMTT(20) DEF IInv, TypeOK, Batch, history
  <2>9. Stands'
    BY <1>1 DEF IInv, Stands, Batch, Share
  <2>10. Dealt'
    BY <1>1 DEF IInv, Dealt, Ended, Batch, stopping, history
  <2> QED BY <2>7, <2>8, <2>9, <2>10 DEF IInv
<1>2. CASE pc' = (IF Batch THEN "gathering" ELSE "delivering") /\ UNCHANGED <<answering, clientOpen>>
  <2>1. \A i \in DOMAIN recs : i > 0
    BY Sizes
  <2>2. \A i \in DOMAIN recs : Owed(i)' <=> Owed(i)
    BY <1>2, <2>1 DEF Owed, Batch, IInv, Stands
  <2>3. CommittedEnded' /\ DroppedEnded' /\ Answers' /\ (~Share' => Classic') /\ (Share' => Shared')
    BY <1>2, <2>2, FrameQuiet, Zenon DEF answering
  <2>4. TypeOK'
    BY <1>2 DEF IInv, TypeOK, Batch, history, answering
  <2>5. Stands'
    BY <1>2 DEF IInv, Stands, Batch, Share
  <2>6. Dealt'
    BY <1>2 DEF IInv, Dealt, Ended, Batch, stopping, history
  <2> QED BY <2>3, <2>4, <2>5, <2>6 DEF IInv
<1> QED BY <1>1, <1>2

-----------------------------------------------------------------------------
(* The inductive step: the broker, a crash and a restart.                  *)

\* The broker takes the answers, or the lock of a record lapses: no record is acquired by that, and
\* none is dropped but by an answer.
LEMMA BrokerInv ==
    ASSUME IInv, UNCHANGED <<committed, position, count, answers, shutdown, pc, poll, dealing, history, mode>>,
           mishaps' \in 0 .. MaxMishaps, acks' \subseteq acks,
           status' \in [Records -> {"available", "acquired", "accepted", "rejected"}],
           \A r \in Records : status'[r] = "acquired" => status[r] = "acquired",
           DroppedEnded'
    PROVE  IInv'
<1> USE DEF shutdown, poll, dealing, history
<1>1. TypeOK'
  BY ZenonT(30) DEF IInv, TypeOK, Batch
<1>2. Stands'
  BY DEF IInv, Stands, Batch, Share
<1>3. Dealt'
  BY DEF IInv, Dealt, Ended, Batch, stopping
<1>4. Answers'
  BY Zenon DEF IInv, Answers
<1>5. CommittedEnded'
  BY ZenonT(30) DEF IInv, CommittedEnded
<1>6. ASSUME ~Share' PROVE Classic'
  BY <1>6, ZenonT(30) DEF IInv, Classic, Share, Polled
<1>7. ASSUME Share' PROVE Shared'
  <2>1. Share /\ Shared /\ Polled' = Polled
    BY <1>7, Zenon DEF IInv, Share, Polled
  <2>2. \A i \in DOMAIN recs : Owed(i)' <=> Owed(i)
    BY DEF Owed, Batch, Mine
  <2> QED BY <2>1, <2>2, ZenonT(30) DEF Shared
<1> QED BY <1>1, <1>2, <1>3, <1>4, <1>5, <1>6, <1>7 DEF IInv

\* The client sends the answers.
LEMMA FlushAcksInv ==
    ASSUME IInv, FlushAcks
    PROVE  IInv'
<1> DEFINE becomes == [accept |-> "accepted", reject |-> "rejected", release |-> "available"]
           sent(r) == {a \in acks : a[1] = r /\ a[2] = count[r] /\ status[r] = "acquired"}
<1>1. /\ acks' = {}
      /\ status' = [r \in Records |-> IF sent(r) = {} THEN status[r]
                                      ELSE becomes[(CHOOSE a \in sent(r) : TRUE)[3]]]
      /\ UNCHANGED <<committed, position, count, answers, shutdown, pc, poll, dealing, history, bounds>>
  BY ZenonT(30) DEF FlushAcks
<1>2. /\ acks \subseteq Records \X (1 .. MaxCount) \X Kinds
      /\ status \in [Records -> {"available", "acquired", "accepted", "rejected"}]
      /\ mishaps \in 0 .. MaxMishaps
  BY DEF IInv, TypeOK, Kinds
<1>3. ASSUME NEW r \in Records
      PROVE  \/ status'[r] = status[r]
             \/ /\ status'[r] = "accepted" /\ r \in accepting \cup Foreign
             \/ /\ status'[r] = "rejected" /\ r \in rejecting
             \/ status'[r] = "available"
  <2>1. CASE sent(r) = {}
    BY <1>1, <2>1, ZenonT(30)
  <2>2. CASE sent(r) # {}
    <3> DEFINE a == CHOOSE b \in sent(r) : TRUE
    <3>1. a \in sent(r)
      BY <2>2
    <3>2. a \in acks /\ a[1] = r /\ a[3] \in Kinds
      BY <1>2, <3>1
    <3>3. status'[r] = becomes[a[3]]
      BY <1>1, <2>2
    <3> HIDE DEF a, sent
    <3>4. /\ a[3] = "accept" => a[1] \in accepting \cup Foreign
          /\ a[3] = "reject" => a[1] \in rejecting
      BY <3>2 DEF IInv, Answers
    <3> QED BY <3>2, <3>3, <3>4 DEF Kinds
  <2> QED BY <2>1, <2>2, ZenonT(30)
<1>4. status' \in [Records -> {"available", "acquired", "accepted", "rejected"}]
  <2>1. \A r \in Records : status'[r] \in {"available", "acquired", "accepted", "rejected"}
    BY <1>2, <1>3
  <2> HIDE DEF sent, becomes
  <2> QED BY <1>1, <2>1
<1>5. DroppedEnded'
  <2>1. UNCHANGED <<ended, accepting, rejecting>> /\ DroppedEnded
    BY <1>1 DEF IInv, history
  <2> QED BY <1>3, <2>1 DEF DroppedEnded
<1> QED BY <1>1, <1>2, <1>3, <1>4, <1>5, BrokerInv, ZenonT(30) DEF bounds

\* A lock lapses.
LEMMA LapseInv ==
    ASSUME IInv, NEW r \in Records, Lapse(r)
    PROVE  IInv'
<1>1. /\ status' = [status EXCEPT ![r] = "available"] /\ mishaps < MaxMishaps /\ mishaps' = mishaps + 1
      /\ UNCHANGED <<committed, position, count, answering, shutdown, pc, poll, dealing, history, mode>>
  BY DEF Lapse
<1>2. status \in [Records -> {"available", "acquired", "accepted", "rejected"}] /\ mishaps \in 0 .. MaxMishaps
  BY DEF IInv, TypeOK
<1>3. \A s \in Records : status'[s] = status[s] \/ status'[s] = "available"
  BY <1>1, <1>2
<1>4. mishaps' \in 0 .. MaxMishaps
  BY <1>1, <1>2, BoundsAssumption
<1>5. status' \in [Records -> {"available", "acquired", "accepted", "rejected"}]
  BY <1>1, <1>2
<1>6. DroppedEnded'
  BY <1>1, <1>3 DEF IInv, DroppedEnded, history
<1>7. UNCHANGED <<acks, answers>>
  BY <1>1 DEF answering
<1> QED BY <1>1, <1>3, <1>4, <1>5, <1>6, <1>7, BrokerInv

\* The process dies: what it had not answered stays acquired.
LEMMA CrashInv ==
    ASSUME IInv, Crash
    PROVE  IInv'
<1>1. /\ pc' = "down" /\ clientOpen' = FALSE /\ acks' = {}
      /\ UNCHANGED <<broker, answers, ctxEnded, closed, poll, dealing, history, mode>>
  BY DEF Crash, CountStop
<1>2. mishaps' \in 0 .. MaxMishaps
  BY BoundsAssumption DEF Crash, CountStop, IInv, TypeOK
<1> USE <1>1 DEF broker, poll, dealing, history
<1>3. TypeOK'
  BY <1>2, ZenonT(30) DEF IInv, TypeOK, Batch
<1>4. Stands' /\ Dealt'
  BY DEF IInv, Stands, Dealt, Ended, Batch, stopping
<1>5. Answers' /\ CommittedEnded' /\ DroppedEnded'
  BY Zenon DEF IInv, Answers, CommittedEnded, DroppedEnded
<1>6. ASSUME ~Share' PROVE Classic'
  BY <1>6, Zenon DEF IInv, Classic, Share, Polled
<1>7. ASSUME Share' PROVE Shared'
  BY <1>7, Zenon DEF IInv, Shared, Share, Polled
<1> QED BY <1>3, <1>4, <1>5, <1>6, <1>7 DEF IInv

\* The subscription is made again, from what was committed.
LEMMA RestartInv ==
    ASSUME IInv, Restart
    PROVE  IInv'
<1>1. /\ pc' = "top" /\ position' = committed /\ acks' = {}
      /\ status' = [r \in Records |-> IF status[r] = "acquired" THEN "available" ELSE status[r]]
      /\ clientOpen' = TRUE /\ ctxEnded' = FALSE /\ closed' = FALSE
      /\ recs' = <<>> /\ timer' = "none" /\ handled' = 0 /\ back' = {} /\ outcome' = <<>>
      /\ UNCHANGED <<committed, count, answers, ended, accepting, rejecting, mishaps, mode>>
  BY DEF Restart, bounds
<1>2. DOMAIN recs' = {} /\ recs' \in Seq(Records) /\ Len(recs') = 0 /\ outcome' \in Seq(Outcomes) /\ 0 <= Max
  BY <1>1, SizeAssumption
<1>3. \A r \in Records : status'[r] # "acquired" /\ (status'[r] = status[r] \/ status'[r] = "available")
  BY <1>1
<1>4. TypeOK'
  <2>1. status' \in [Records -> {"available", "acquired", "accepted", "rejected"}]
    BY <1>1, Zenon DEF IInv, TypeOK
  <2>2. /\ recs' \in Seq(Records) /\ (Batch' => Len(recs') <= Max)
        /\ handled' \in 0 .. Len(recs') /\ back' \subseteq DOMAIN recs' /\ outcome' \in Seq(Outcomes)
    BY <1>1, <1>2
  <2>3. position' \in [Partitions -> Nat] /\ \A p \in Partitions : committed'[p] <= Length[p] /\ position'[p] <= Length[p]
    BY <1>1 DEF IInv, TypeOK
  <2> QED BY <1>1, <2>1, <2>2, <2>3, Zenon DEF IInv, TypeOK
<1>5. Stands' /\ Dealt'
  BY <1>1, <1>2 DEF Stands, Dealt
<1>6. Answers' /\ CommittedEnded'
  BY <1>1, Zenon DEF IInv, Answers, CommittedEnded
<1>7. DroppedEnded'
  BY <1>1, <1>3 DEF IInv, DroppedEnded
<1>8. ASSUME ~Share' PROVE Classic'
  BY <1>1, <1>2, <1>8, Zenon DEF IInv, Classic, Share, CommittedEnded
<1>9. Shared'
  BY <1>2, <1>3 DEF Shared
<1> QED BY <1>4, <1>5, <1>6, <1>7, <1>8, <1>9 DEF IInv

-----------------------------------------------------------------------------
(* The inductive step: the steps that answer nothing.                      *)

\* The subscription's context ends, Close marks the transport closed or closes the client.
LEMMA StopInv ==
    ASSUME IInv, EndContext \/ Close \/ CloseClient
    PROVE  IInv'
<1>1. /\ UNCHANGED <<broker, answering, pc, poll, dealing, history, mode>>
      /\ mishaps' \in 0 .. MaxMishaps /\ {clientOpen', ctxEnded', closed'} \subseteq BOOLEAN
      /\ stopping => stopping'
  <2>1. UNCHANGED <<broker, answering, pc, poll, dealing, history, mode>>
    BY Zenon DEF EndContext, Close, CloseClient, CountStop, bounds
  <2>2. mishaps' \in 0 .. MaxMishaps
    <3>1. mishaps' = mishaps \/ (mishaps < MaxMishaps /\ mishaps' = mishaps + 1)
      BY Zenon DEF EndContext, Close, CloseClient, CountStop, bounds
    <3>2. mishaps \in 0 .. MaxMishaps
      BY Zenon DEF IInv, TypeOK
    <3> QED BY <3>1, <3>2, BoundsAssumption
  <2>3. clientOpen' \in BOOLEAN /\ ctxEnded' \in BOOLEAN /\ closed' \in BOOLEAN
    BY Zenon DEF EndContext, Close, CloseClient, IInv, TypeOK
  <2>4. stopping => stopping'
    BY Zenon DEF EndContext, Close, CloseClient, stopping
  <2> QED BY <2>1, <2>2, <2>3, <2>4
<1> USE <1>1 DEF broker, answering, poll, dealing
<1>2. \A i \in DOMAIN recs : Owed(i)' <=> Owed(i)
  BY DEF Owed, Mine, Batch
<1>3. CommittedEnded' /\ DroppedEnded' /\ Answers' /\ (~Share' => Classic') /\ (Share' => Shared')
  BY <1>2, FrameQuiet
<1>4. TypeOK'
  BY DEF IInv, TypeOK, Batch, history
<1>5. Stands'
  BY DEF IInv, Stands, Batch, Share
<1>6. Dealt'
  BY DEF IInv, Dealt, Ended, Batch, history
<1> QED BY <1>3, <1>4, <1>5, <1>6 DEF IInv

\* A poll returns nothing.
LEMMA PollNothingInv ==
    ASSUME IInv, PollNothing
    PROVE  IInv'
<1> USE DEF PollNothing, broker, answering, shutdown, poll, dealing, bounds
<1>1. \A i \in DOMAIN recs : Owed(i)' <=> Owed(i)
  BY DEF Owed
<1>2. CommittedEnded' /\ DroppedEnded' /\ Answers' /\ (~Share' => Classic') /\ (Share' => Shared')
  BY <1>1, FrameQuiet, Zenon
<1>3. TypeOK'
  BY DEF IInv, TypeOK, Batch, history
<1>4. Stands'
  BY DEF IInv, Stands, Batch, Share
<1>5. Dealt'
  BY DEF IInv, Dealt, Ended, Batch, stopping, history
<1> QED BY <1>2, <1>3, <1>4, <1>5 DEF IInv

\* The wait of a batch is over.
LEMMA WaitOverInv ==
    ASSUME IInv, WaitOver
    PROVE  IInv'
<1> USE DEF WaitOver, broker, answering, shutdown, dealing, bounds
<1>1. \A i \in DOMAIN recs : Owed(i)' <=> Owed(i)
  BY DEF Owed, Mine, Batch
<1>2. CommittedEnded' /\ DroppedEnded' /\ Answers' /\ (~Share' => Classic') /\ (Share' => Shared')
  BY <1>1, FrameQuiet, Zenon
<1>3. TypeOK'
  BY DEF IInv, TypeOK, Batch, history
<1>4. Stands'
  BY DEF IInv, Stands, Batch, Share
<1>5. Dealt'
  BY DEF IInv, Dealt, Ended, Batch, stopping, history
<1> QED BY <1>2, <1>3, <1>4, <1>5 DEF IInv

\* A batch is complete or waits for more.
LEMMA GatherInv ==
    ASSUME IInv, Gather
    PROVE  IInv'
<1> USE DEF Gather, broker, answering, shutdown, dealing, bounds
<1>1. /\ pc = "gathering" /\ Batch
      /\ \/ pc' = "polling" /\ ~Share
         \/ pc' = "top" /\ recs = <<>>
         \/ pc' = "decoding"
  BY DEF IInv, Stands, Gathered
<1>2. \A i \in DOMAIN recs : Owed(i)' <=> Owed(i)
  BY <1>1 DEF Owed
<1>3. CommittedEnded' /\ DroppedEnded' /\ Answers' /\ (~Share' => Classic') /\ (Share' => Shared')
  BY <1>2, FrameQuiet
<1>4. TypeOK'
  <2>1. timer' \in {"none", "running", "expired"} /\ pc' \in {"polling", "top", "decoding"}
    BY <1>1 DEF IInv, TypeOK
  <2> QED BY <2>1 DEF IInv, TypeOK, Batch, history
<1>5. Stands'
  BY <1>1 DEF IInv, Stands, Batch, Share
<1>6. Dealt'
  BY <1>1 DEF IInv, Dealt, Ended, Batch, stopping, history
<1> QED BY <1>3, <1>4, <1>5, <1>6 DEF IInv

\* The handler is called.
LEMMA HandOverInv ==
    ASSUME IInv, HandOver
    PROVE  IInv'
<1> USE DEF HandOver, broker, answering, shutdown, poll, dealing, bounds
<1>1. \A i \in DOMAIN recs : Owed(i)' <=> Owed(i)
  BY DEF Owed, Mine, Batch
<1>2. CommittedEnded' /\ DroppedEnded' /\ Answers' /\ (~Share' => Classic') /\ (Share' => Shared')
  BY <1>1, FrameQuiet, Zenon
<1>3. TypeOK'
  BY DEF IInv, TypeOK, Batch, history
<1>4. Stands'
  BY DEF IInv, Stands, Batch, Share
<1>5. Dealt'
  BY DEF IInv, Dealt, Ended, Batch, stopping, history
<1> QED BY <1>2, <1>3, <1>4, <1>5 DEF IInv

\* A batch handler returns.
LEMMA BatchReturnsInv ==
    ASSUME IInv, BatchReturns
    PROVE  IInv'
<1> USE DEF BatchReturns, broker, answering, shutdown, poll, bounds
<1>1. \A i \in DOMAIN recs : Owed(i)' <=> Owed(i)
  BY DEF Owed, Mine, Batch
<1>2. CommittedEnded' /\ DroppedEnded' /\ Answers' /\ (~Share' => Classic') /\ (Share' => Shared')
  BY <1>1, FrameQuiet, ZenonT(20)
<1>3. TypeOK'
  <2>1. Len(recs) \in Nat
    BY Sizes, Zenon
  <2>2. outcome' \in Seq(Outcomes)
    BY <2>1
  <2> QED BY <2>2 DEF IInv, TypeOK, Batch, history
<1>4. Stands'
  BY DEF IInv, Stands, Batch, Share
<1>5. Dealt'
  BY DEF IInv, Stands, Dealt, Ended, Batch, stopping, history
<1> QED BY <1>2, <1>3, <1>4, <1>5 DEF IInv

\* A stuttering step changes nothing.
LEMMA StutterInv ==
    ASSUME IInv, UNCHANGED vars
    PROVE  IInv'
<1> USE DEF vars, broker, answering, shutdown, poll, dealing, bounds
<1>1. \A i \in DOMAIN recs : Owed(i)' <=> Owed(i)
  BY DEF Owed, Batch, Mine
<1>2. CommittedEnded' /\ DroppedEnded' /\ Answers' /\ (~Share' => Classic') /\ (Share' => Shared')
  BY <1>1, FrameQuiet
<1>3. TypeOK'
  BY Zenon DEF IInv, TypeOK, Batch, history
<1>4. Stands'
  BY DEF IInv, Stands, Batch, Share
<1>5. Dealt'
  BY DEF IInv, Dealt, Ended, Batch, stopping, history
<1> QED BY <1>2, <1>3, <1>4, <1>5 DEF IInv

\* Every step keeps the invariant.
LEMMA NextInv ==
    ASSUME Known,
           IInv, [Next]_vars
    PROVE  IInv'
<1>1. CASE LoopStep
  <2>1. CASE \E o \in Outcomes : HandlerReturns(o)
    BY <2>1, HandlerReturnsInv
  <2> QED BY <1>1, <2>1, TopInv, PollReturnsInv, GatherInv, NextRecordInv, HandOverInv, EndFetchInv,
             DecodeInv, BatchReturnsInv, AnswerInv, commitInv DEF LoopStep
<1>2. CASE \E r \in Records : Lapse(r)
  BY <1>2, LapseInv
<1>3. CASE UNCHANGED vars
  BY <1>3, StutterInv
<1> QED BY <1>1, <1>2, <1>3, PollInv, PollNothingInv, WaitOverInv, FlushAcksInv, StopInv, CrashInv,
           RestartInv DEF Next

-----------------------------------------------------------------------------
(* What the library of finite sets gives, and the theorems.                *)

INSTANCE FiniteSetTheorems

\* The sizes and the highest offsets are what the proof takes them for.
LEMMA KnownHolds == Known
<1>1. Counted
  BY FS_EmptySet, FS_Singleton, Zenon DEF Counted
<1>2. ASSUME NEW L \in Nat, NEW S \in SUBSET (1 .. L), S # {} PROVE \E n \in S : \A m \in S : m <= n
  <2> DEFINE below == {L - n : n \in S}
             less == OpToRel(<, Nat)
  <2>1. below \subseteq Nat /\ below # {}
    <3>1. \A n \in S : L - n \in Nat
      OBVIOUS
    <3> QED BY <1>2, <3>1, Zenon
  <2>2. \A x, y \in Nat : y < x => <<y, x>> \in less
    BY DEF OpToRel
  <2> HIDE DEF less
  <2>3. IsWellFoundedOn(less, Nat)
    BY NatLessThanWellFounded, Zenon DEF less
  <2>4. PICK x \in below : \A y \in below : ~(<<y, x>> \in less)
    <3> HIDE DEF below
    <3> QED BY <2>1, <2>3, WFMin, Zenon
  <2>5. PICK n \in S : x = L - n
    OBVIOUS
  <2>6. ASSUME NEW m \in S PROVE m <= n
    <3>1. L - m \in below /\ L - m \in Nat /\ x \in Nat
      BY <2>1
    <3>2. ~(L - m < x)
      BY <2>2, <2>4, <3>1, Zenon
    <3> QED BY <2>5, <3>1, <3>2
  <2> QED BY <2>6
<1> QED BY <1>1, <1>2, Zenon DEF Known, HasHighest

\* The inductive invariant holds of every behaviour of the read loop and its broker.
THEOREM Invariance == Spec => []IInv
  BY InitInv, NextInv, KnownHolds, PTL DEF Spec

\* The broker is rid of a record only once its handling has ended, wherever the loop is stopped or
\* crashes, and a record a share group acquires is answered once (consume, consumeBatches, commit).
THEOREM RecordsKeptTheorem == Spec => []RecordsKept
<1>1. ASSUME IInv PROVE RecordsKept
  <2>1. SettledEnded
    BY <1>1 DEF IInv, SettledEnded
  <2>2. \A r \in Records : answers[r] <= 1
    BY <1>1 DEF IInv, Answers
  <2>3. ASSUME Share, pc = "stopped", NEW r \in Records, status[r] = "acquired" PROVE answers[r] = 1
    <3>1. \A i \in DOMAIN recs : ~Owed(i)
      BY <2>3 DEF Owed
    <3>2. \A i \in DOMAIN recs : answers[recs[i]] = 1
      BY <1>1, <2>3, <3>1, ZenonT(30) DEF IInv, Shared
    <3>3. r \in Polled \/ answers[r] = 1
      BY <1>1, <2>3, Zenon DEF IInv, Shared
    <3> QED BY <3>2, <3>3 DEF Polled
  <2> QED BY <2>1, <2>2, <2>3 DEF RecordsKept, AnsweredOnce
<1> QED BY <1>1, Invariance, PTL
=============================================================================
