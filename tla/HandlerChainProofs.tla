------------------------- MODULE HandlerChainProofs -------------------------
(***************************************************************************)
(* Proofs about HandlerChain: for any batch, any depth of the two chains,  *)
(* any of their middlewares being events.Recover and any retries, the      *)
(* transport answers what stands and each message for its own failure.     *)
(*                                                                         *)
(* The properties speak of the moment the wrapped handler has returned.    *)
(* The invariant says what holds on the way: which frames a panic may have *)
(* unwound (Above), what they asked for (Standing), and what the handler's *)
(* errors are while the function runs (Recorded) and after it (Reported).  *)
(***************************************************************************)
EXTENDS HandlerChain, TLAPS

\* What the constants are assumed to be.
Constants == DepthAssumption /\ EscapedAssumption /\ BoundAssumption

\* Only frames below the one that runs have been unwound in their latest call.
Above == \A k \in unwound : frame < k

\* Unless a panic is unwinding, no disposition is one an unwound frame asked for.
Standing == way # "panic" => \A m \in Msgs : by[m] \notin unwound

\* A panic that left the chain is reported as one, with Escaped asked of every message.
Escaping == 1 \in unwound /\ Depth > 0 => err = "panic" /\ \A m \in Msgs : disp[m] = Escaped

\* While the function runs, a message has the error of its payload, of Item.Fail, or none.
Recorded ==
    frame = Handler =>
        /\ err = "nil"
        /\ items # <<>> => \A m \in Msgs :
               errs[m] = IF m \notin Mine THEN "payload" ELSE IF m \in failed THEN "item" ELSE "nil"

\* What Attributed says of message m, wherever the error is on its way up.
Own(m) ==
    errs[m] = CASE m \notin Mine -> "payload"
                [] m \in Mine /\ m \in failed -> "item"
                [] OTHER -> IF returned.kind = "nil" THEN "nil"
                            ELSE IF returned.kind = "error" \/ returned.named \ (0 .. Len(items) - 1) # {} THEN "whole"
                            ELSE IF ItemOf(m) \in returned.named \ returned.nils THEN "named"
                            ELSE "nil"

Reported == err = "items" => \A m \in Msgs : Own(m)

\* The inductive invariant.
IInv == TypeOK /\ Above /\ Standing /\ Escaping /\ Recorded /\ Reported

-----------------------------------------------------------------------------
\* An item is a message.
LEMMA ItemIsMsg == ASSUME TypeOK, NEW k \in DOMAIN items PROVE items[k] \in Msgs
<1>1. items \in Seq(Msgs)
  BY DEF TypeOK
<1> QED
  BY <1>1

\* Every step keeps the types.
LEMMA TypedStep == ASSUME Constants, TypeOK, [Next]_vars PROVE TypeOK'
<1> USE DEF handler, asking, Frames, Handler, Asked, Msgs, NoError
<1>1. CASE UNCHANGED vars
  BY <1>1 DEF vars, TypeOK
<1>2. ASSUME NEW m \in Msgs, NEW d \in Asked, Ask(m, d)
      PROVE  TypeOK'
  BY <1>2 DEF Ask, Running, TypeOK
<1>3. CASE CallNext
  <2>1. items' \in Seq(Msgs) /\ DOMAIN items' = {}
    BY <1>3 DEF CallNext
  <2>2. frame' \in 0 .. Handler /\ frame' # 0 /\ calls' \in 0 .. MaxCalls
    BY <1>3 DEF CallNext, TypeOK, Constants, DepthAssumption, BoundAssumption
  <2> QED
    BY <1>3, <2>1, <2>2, Zenon DEF CallNext, TypeOK
<1>4. CASE Return
  <2>1. frame' \in 0 .. Handler
    BY <1>4 DEF Return, TypeOK, Constants, DepthAssumption
  <2> QED
    BY <1>4, <2>1 DEF Return, TypeOK
<1>5. CASE Panic
  BY <1>5 DEF Panic, Running, TypeOK
<1>6. CASE Unwind
  <2>1. frame' \in 0 .. Handler /\ (frame' = 0 => way' = "up")
    BY <1>6 DEF Unwind, Recovered, TypeOK, Constants, DepthAssumption
  <2>2. disp' \in [Msgs -> Asked \cup {"unset"}] /\ by' \in [Msgs -> 0 .. Handler]
    <3>1. Left(frame) \in Asked \cup {"unset"} /\ 0 \in 0 .. Handler
      BY DEF Left, Constants, DepthAssumption, EscapedAssumption
    <3>2. CASE UNCHANGED <<disp, by>>
      BY <3>2 DEF TypeOK
    <3>3. CASE Voided(Left(frame))
      BY <3>1, <3>3 DEF Voided
    <3> QED
      BY <1>6, <3>2, <3>3 DEF Unwind
  <2> QED
    BY <1>6, <2>1, <2>2 DEF Unwind, TypeOK
<1>7. CASE Decode
  <2>1. PICK n \in 0 .. N : items' \in [1 .. n -> Msgs]
    BY <1>7 DEF Decode, Decoded
  <2>2. /\ items' \in Seq(Msgs)
        /\ \A j, k \in DOMAIN items' : j < k => items'[j] < items'[k]
    BY <1>7, <2>1 DEF Decode, Decoded, Constants, DepthAssumption
  <2>3. errs' \in [Msgs -> {"nil", "payload", "item", "named", "whole"}]
    BY <1>7 DEF Decode
  <2>4. \A k \in DOMAIN items' : errs'[items'[k]] # "payload"
    BY <1>7, <2>1 DEF Decode
  <2>5. /\ frame' \in 0 .. Handler
        /\ way' \in {"down", "up", "panic"} /\ (frame' = 0 => way' = "up")
        /\ err' \in {"nil", "error", "panic", "items"}
    BY <1>7 DEF Decode, HandlerReturns, TypeOK, Constants, DepthAssumption
  <2>6. failed' \subseteq Msgs /\ returned'.kind \in {"nil", "error", "ItemErrors"}
    BY <1>7 DEF Decode
  <2> QED
    BY <1>7, <2>2, <2>3, <2>4, <2>5, <2>6, Zenon DEF Decode, TypeOK
<1>8. ASSUME NEW j \in Msgs, NEW cleared \in BOOLEAN, Fail(j, cleared)
      PROVE  TypeOK'
  <2>1. items[j + 1] \in Msgs
    BY <1>8, ItemIsMsg DEF Fail
  <2>2. errs' \in [Msgs -> {"nil", "payload", "item", "named", "whole"}]
    BY <1>8, <2>1 DEF Fail, TypeOK
  <2>3. \A k \in DOMAIN items : errs'[items[k]] # "payload"
    BY <1>8, <2>1 DEF Fail, TypeOK
  <2>4. failed' \subseteq Msgs
    BY <1>8, <2>1, Zenon DEF Fail, TypeOK
  <2>5. UNCHANGED <<frame, way, disp, by, err, unwound, calls, items, returned>>
    BY <1>8 DEF Fail, asking
  <2> QED
    BY <2>2, <2>3, <2>4, <2>5 DEF TypeOK
<1>9. CASE FunctionReturns
  <2>1. errs' \in [Msgs -> {"nil", "payload", "item", "named", "whole"}]
    BY <1>9 DEF FunctionReturns, failItems, TypeOK
  <2>2. \A k \in DOMAIN items : errs'[items[k]] # "payload"
    <3> SUFFICES ASSUME NEW k \in DOMAIN items PROVE errs'[items[k]] # "payload"
      OBVIOUS
    <3>1. items[k] \in Msgs /\ errs[items[k]] # "payload"
      BY ItemIsMsg DEF TypeOK
    <3> QED
      BY <1>9, <3>1 DEF FunctionReturns, failItems
  <2>3. frame' \in 0 .. Handler /\ way' = "up" /\ err' \in {"nil", "error", "panic", "items"}
    BY <1>9 DEF FunctionReturns, HandlerReturns, TypeOK, Constants, DepthAssumption
  <2>4. returned'.kind \in {"nil", "error", "ItemErrors"}
    BY <1>9 DEF FunctionReturns
  <2> QED
    BY <1>9, <2>1, <2>2, <2>3, <2>4 DEF FunctionReturns, TypeOK
<1> QED
  BY <1>1, <1>2, <1>3, <1>4, <1>5, <1>6, <1>7, <1>8, <1>9 DEF Next

-----------------------------------------------------------------------------
\* A panic unwinds the frame that runs and hands on to the one above; a call of next starts the
\* frames below anew.
LEMMA AboveStep == ASSUME Constants, TypeOK, Above, [Next]_vars PROVE Above'
<1> USE DEF handler, asking, Above, Handler, Frames, Constants, DepthAssumption
<1>1. CASE UNCHANGED vars
  BY <1>1 DEF vars
<1>2. ASSUME NEW m \in Msgs, NEW d \in Asked, Ask(m, d)
      PROVE  Above'
  BY <1>2 DEF Ask
<1>3. CASE CallNext
  BY <1>3 DEF CallNext, TypeOK
<1>4. CASE Return
  BY <1>4 DEF Return, TypeOK
<1>5. CASE Panic
  BY <1>5 DEF Panic
<1>6. CASE Unwind
  BY <1>6 DEF Unwind, TypeOK
<1>7. CASE Decode
  BY <1>7 DEF Decode, HandlerReturns, TypeOK
<1>8. ASSUME NEW j \in Msgs, NEW cleared \in BOOLEAN, Fail(j, cleared)
      PROVE  Above'
  BY <1>8 DEF Fail
<1>9. CASE FunctionReturns
  BY <1>9 DEF FunctionReturns, HandlerReturns, TypeOK
<1> QED
  BY <1>1, <1>2, <1>3, <1>4, <1>5, <1>6, <1>7, <1>8, <1>9 DEF Next

\* The frame that asks has not been unwound, and the recover that ends a panic voids what was asked.
LEMMA StandingStep == ASSUME Constants, TypeOK, Above, Standing, [Next]_vars PROVE Standing'
<1> USE DEF handler, asking, Standing
<1>1. CASE UNCHANGED vars
  BY <1>1 DEF vars
<1>2. ASSUME NEW m \in Msgs, NEW d \in Asked, Ask(m, d)
      PROVE  Standing'
  <2>1. frame \notin unwound /\ UNCHANGED <<way, unwound>> /\ way # "panic"
    BY <1>2 DEF Ask, Running, Above, TypeOK
  <2>2. \A q \in Msgs : by'[q] = by[q] \/ by'[q] = frame
    BY <1>2 DEF Ask, TypeOK
  <2> QED
    BY <2>1, <2>2
<1>3. CASE CallNext
  BY <1>3 DEF CallNext
<1>4. CASE Return
  BY <1>4 DEF Return
<1>5. CASE Panic
  BY <1>5 DEF Panic
<1>6. CASE Unwind
  <2>1. CASE way' = "panic"
    BY <2>1
  <2>2. CASE way' # "panic"
    <3>1. \A m \in Msgs : by'[m] = 0
      BY <1>6, <2>2 DEF Unwind, Voided
    <3>2. 0 \notin unwound'
      BY <1>6 DEF Unwind, TypeOK, Frames
    <3> QED
      BY <3>1, <3>2
  <2> QED
    BY <2>1, <2>2
<1>7. CASE Decode
  BY <1>7 DEF Decode
<1>8. ASSUME NEW j \in Msgs, NEW cleared \in BOOLEAN, Fail(j, cleared)
      PROVE  Standing'
  BY <1>8 DEF Fail
<1>9. CASE FunctionReturns
  BY <1>9 DEF FunctionReturns
<1> QED
  BY <1>1, <1>2, <1>3, <1>4, <1>5, <1>6, <1>7, <1>8, <1>9 DEF Next

\* Once the outermost frame is unwound nothing runs any more.
LEMMA EscapingStep == ASSUME Constants, TypeOK, Above, Escaping, [Next]_vars PROVE Escaping'
<1> USE DEF handler, asking, Escaping, Handler, Frames
<1>1. CASE UNCHANGED vars
  BY <1>1 DEF vars
<1>2. CASE Unwind
  <2>1. CASE frame = 1
    <3>1. Recovered(frame) /\ (Depth > 0 => Left(frame) = Escaped)
      BY <2>1 DEF Recovered, Left
    <3>2. err' = "panic" /\ (Depth > 0 => \A m \in Msgs : disp'[m] = Escaped)
      BY <1>2, <3>1 DEF Unwind, Voided
    <3> QED
      BY <3>2
  <2>2. CASE frame # 1
    <3>1. 1 \notin unwound'
      BY <1>2, <2>2 DEF Unwind, Above, TypeOK
    <3> QED
      BY <3>1
  <2> QED
    BY <2>1, <2>2
<1>3. CASE frame > 0 /\ unwound' \subseteq unwound
  <2>1. 1 \notin unwound
    BY <1>3 DEF Above, TypeOK
  <2> QED
    BY <1>3, <2>1
<1>4. Next /\ ~Unwind => frame > 0 /\ unwound' \subseteq unwound
  BY DEF Next, Ask, Running, CallNext, Return, Panic, Decode, Fail, FunctionReturns, Constants, DepthAssumption
<1> QED
  BY <1>1, <1>2, <1>3, <1>4

-----------------------------------------------------------------------------
\* Decode gives the messages left out their payload's error, Fail keeps the others' in step.
LEMMA RecordedStep == ASSUME Constants, TypeOK, Recorded, [Next]_vars PROVE Recorded'
<1> USE DEF handler, asking, Handler, Recorded, Mine, Constants, DepthAssumption
<1>1. CASE UNCHANGED vars
  BY <1>1 DEF vars
<1>2. ASSUME NEW m \in Msgs, NEW d \in Asked, Ask(m, d)
      PROVE  Recorded'
  BY <1>2 DEF Ask
<1>3. CASE CallNext
  BY <1>3 DEF CallNext
<1>4. CASE Return
  BY <1>4 DEF Return, TypeOK
<1>5. CASE Panic
  BY <1>5 DEF Panic
<1>6. CASE Unwind
  <2>1. frame' # Handler
    BY <1>6 DEF Unwind, TypeOK
  <2> QED
    BY <2>1
<1>7. CASE Decode
  <2>1. CASE items' = <<>>
    BY <1>7, <2>1 DEF Decode, HandlerReturns
  <2>2. CASE items' # <<>>
    <3>1. err' = err /\ frame = Handler /\ failed' = {}
      BY <1>7, <2>2 DEF Decode
    <3>2. \A m \in Msgs : errs'[m] = IF \E k \in DOMAIN items' : items'[k] = m THEN "nil" ELSE "payload"
      BY <1>7 DEF Decode
    <3> QED
      BY <3>1, <3>2
  <2> QED
    BY <2>1, <2>2
<1>8. ASSUME NEW j \in Msgs, NEW cleared \in BOOLEAN, Fail(j, cleared)
      PROVE  Recorded'
  <2>1. j + 1 \in DOMAIN items /\ items # <<>> /\ frame = Handler /\ UNCHANGED <<frame, err, items>>
    BY <1>8 DEF Fail
  <2>2. \A m \in Msgs : errs'[m] = IF m = items[j + 1] THEN (IF cleared THEN "nil" ELSE "item") ELSE errs[m]
    BY <1>8 DEF Fail, TypeOK
  <2>3. \A m \in Msgs : m \in failed' <=> IF m = items[j + 1] THEN ~cleared ELSE m \in failed
    BY <1>8 DEF Fail
  <2> QED
    BY <2>1, <2>2, <2>3
<1>9. CASE FunctionReturns
  BY <1>9 DEF FunctionReturns, HandlerReturns
<1> QED
  BY <1>1, <1>2, <1>3, <1>4, <1>5, <1>6, <1>7, <1>8, <1>9 DEF Next

\* The item of a message among the items is the one place that holds it.
LEMMA ItemOfIs ==
    ASSUME Constants, TypeOK, NEW j \in 0 .. Len(items) - 1
    PROVE  ItemOf(items[j + 1]) = j
<1>1. items \in Seq(Msgs) /\ Len(items) \in Nat /\ DOMAIN items = 1 .. Len(items)
  BY DEF TypeOK
<1>2. \A k \in 0 .. Len(items) - 1 : items[k + 1] = items[j + 1] => k = j
  <2> SUFFICES ASSUME NEW k \in 0 .. Len(items) - 1, items[k + 1] = items[j + 1]
               PROVE  k = j
    OBVIOUS
  <2>1. k + 1 \in DOMAIN items /\ j + 1 \in DOMAIN items
    BY <1>1
  <2>2. items[k + 1] \in Int /\ items[j + 1] \in Int
    BY <2>1, ItemIsMsg DEF Msgs, Constants, DepthAssumption
  <2>3. ~(k + 1 < j + 1) /\ ~(j + 1 < k + 1)
    BY <2>1, <2>2 DEF TypeOK
  <2> QED
    BY <1>1, <2>3
<1> QED
  BY <1>2 DEF ItemOf

\* failItems gives each item the error that names it, and leaves every other message's alone.
LEMMA ReturnsOwn ==
    ASSUME Constants, TypeOK, Recorded, FunctionReturns
    PROVE  \A m \in Msgs : Own(m)'
<1> SUFFICES ASSUME NEW m \in Msgs PROVE Own(m)'
  OBVIOUS
<1> DEFINE e == returned'
           perItem == e.kind = "ItemErrors" /\ within(e, Len(items))
           hit == CASE e.kind = "nil" -> {}
                    [] perItem -> {Position(j) : j \in e.named \ e.nils}
                    [] OTHER -> Mine
<1>1. errs'[m] = IF m \in hit /\ Open(m) THEN (IF perItem THEN "named" ELSE "whole") ELSE errs[m]
  BY DEF FunctionReturns, failItems
<1>2. errs[m] = IF m \notin Mine THEN "payload" ELSE IF m \in failed THEN "item" ELSE "nil"
  BY DEF FunctionReturns, Recorded
<1>3. UNCHANGED <<items, failed>>
  BY DEF FunctionReturns
<1>4. e.kind \in {"nil", "error", "ItemErrors"}
  BY DEF FunctionReturns, NoError
<1>5. Mine' = Mine /\ ItemOf(m)' = ItemOf(m)
  BY <1>3 DEF Mine, ItemOf
<1>6. CASE m \notin Mine \/ m \in failed
  BY <1>1, <1>2, <1>3, <1>5, <1>6 DEF Own, Open
<1>7. CASE m \in Mine /\ m \notin failed
  <2>1. Open(m)
    BY <1>2, <1>7 DEF Open
  <2>2. CASE e.kind = "nil"
    BY <1>1, <1>2, <1>3, <1>5, <1>7, <2>2 DEF Own
  <2>3. CASE e.kind # "nil" /\ ~perItem
    <3>1. errs'[m] = "whole"
      BY <1>1, <1>7, <2>1, <2>3
    <3>2. e.kind = "error" \/ e.named \ (0 .. Len(items) - 1) # {}
      BY <1>4, <2>3 DEF within
    <3> QED
      BY <1>3, <1>5, <1>7, <2>3, <3>1, <3>2 DEF Own
  <2>4. CASE perItem
    <3>1. e.named \ (0 .. Len(items) - 1) = {} /\ e.kind = "ItemErrors"
      BY <2>4 DEF within
    <3>2. m \in hit <=> ItemOf(m) \in e.named \ e.nils
      <4>1. hit = {items[j + 1] : j \in e.named \ e.nils}
        BY <2>4 DEF Position
      <4>2. ASSUME m \in hit PROVE ItemOf(m) \in e.named \ e.nils
        <5>1. PICK j \in e.named \ e.nils : m = items[j + 1]
          BY <4>1, <4>2
        <5>2. j \in 0 .. Len(items) - 1
          BY <3>1
        <5> QED
          BY <5>1, <5>2, ItemOfIs
      <4>3. ASSUME ItemOf(m) \in e.named \ e.nils PROVE m \in hit
        <5>1. PICK k \in DOMAIN items : m = items[k]
          BY <1>7 DEF Mine
        <5>2. k - 1 \in 0 .. Len(items) - 1 /\ (k - 1) + 1 = k
          BY DEF TypeOK
        <5>3. ItemOf(m) = k - 1
          BY <5>1, <5>2, ItemOfIs
        <5> QED
          BY <4>1, <4>3, <5>1, <5>2, <5>3, Zenon
      <4> QED
        BY <4>2, <4>3
    <3> QED
      BY <1>1, <1>2, <1>3, <1>5, <1>7, <2>1, <2>4, <3>1, <3>2 DEF Own
  <2> QED
    BY <1>4, <2>2, <2>3, <2>4
<1> QED
  BY <1>6, <1>7

\* The handler's error is made once, with what it says of each message, and changed by no frame.
LEMMA ReportedStep == ASSUME Constants, TypeOK, Recorded, Reported, [Next]_vars PROVE Reported'
<1> USE DEF handler, asking
<1>1. ASSUME UNCHANGED handler, err' = "items" => err = "items"
      PROVE  Reported'
  <2>1. \A m \in Msgs : Own(m)' <=> Own(m)
    BY <1>1 DEF Own, Mine, ItemOf
  <2> QED
    BY <1>1, <2>1 DEF Reported
<1>2. ASSUME err' # "items"
      PROVE  Reported'
  BY <1>2 DEF Reported
<1>3. CASE Decode
  <2>1. CASE items' = <<>>
    <3>1. Mine' = {}
      BY <2>1 DEF Mine
    <3>2. \A m \in Msgs : errs'[m] = "payload"
      BY <1>3, <2>1 DEF Decode
    <3> QED
      BY <3>1, <3>2 DEF Reported, Own
  <2>2. CASE items' # <<>>
    BY <1>2, <1>3, <2>2 DEF Decode, Recorded
  <2> QED
    BY <2>1, <2>2
<1>4. ASSUME NEW j \in Msgs, NEW cleared \in BOOLEAN, Fail(j, cleared)
      PROVE  Reported'
  BY <1>2, <1>4 DEF Fail, Recorded
<1>5. CASE FunctionReturns
  BY <1>5, ReturnsOwn DEF Reported
<1>6. CASE UNCHANGED vars
  BY <1>1, <1>6 DEF vars
<1>7. ASSUME NEW m \in Msgs, NEW d \in Asked, Ask(m, d)
      PROVE  Reported'
  BY <1>1, <1>7 DEF Ask
<1>8. CASE CallNext
  BY <1>2, <1>8 DEF CallNext
<1>9. CASE Return
  BY <1>1, <1>9 DEF Return
<1>10. CASE Panic
  BY <1>1, <1>10 DEF Panic
<1>11. CASE Unwind
  BY <1>1, <1>11 DEF Unwind
<1> QED
  BY <1>3, <1>4, <1>5, <1>6, <1>7, <1>8, <1>9, <1>10, <1>11 DEF Next

-----------------------------------------------------------------------------
LEMMA InitIInv == ASSUME Constants, Init PROVE IInv
<1> USE DEF Init, Msgs, Handler, Frames, Asked, Constants, DepthAssumption, BoundAssumption
<1>1. TypeOK
  <2>1. items \in Seq(Msgs) /\ DOMAIN items = {}
    OBVIOUS
  <2>2. returned.kind = "nil"
    BY DEF NoError
  <2> QED
    BY <2>1, <2>2 DEF TypeOK
<1>2. Above /\ Standing /\ Escaping /\ Reported
  BY DEF Above, Standing, Escaping, Reported
<1>3. Recorded
  BY DEF Recorded
<1> QED
  BY <1>1, <1>2, <1>3 DEF IInv

LEMMA StepIInv == ASSUME Constants, IInv, [Next]_vars PROVE IInv'
  BY TypedStep, AboveStep, StandingStep, EscapingStep, RecordedStep, ReportedStep DEF IInv

\* The inductive invariant holds on the whole way of a delivery through the chains.
THEOREM Invariance == ASSUME Constants PROVE Spec => []IInv
<1>1. Init => IInv
  BY InitIInv
<1>2. IInv /\ [Next]_vars => IInv'
  BY StepIInv
<1> QED
  BY <1>1, <1>2, PTL DEF Spec

\* The transport answers a message with what stands: never with what a frame asked for that a
\* panic unwound later, and with redelivery when the panic left the chain, for any batch, chains,
\* recovers and retries (recoverHandler, recoverBatch, decorated, decoratedBatch).
THEOREM AsksKeptTheorem == ASSUME Constants PROVE Spec => []AsksKept
<1>1. IInv => AsksKept
  <2> SUFFICES ASSUME IInv PROVE AsksKept
    OBVIOUS
  <2>1. TypeOK /\ (frame = 0 => \A m \in Msgs : by[m] \notin unwound)
    BY DEF IInv, TypeOK, Standing
  <2> QED
    BY <2>1 DEF IInv, Escaping, AsksKept, NoVoidedAsk, EscapedRedelivers
<1> QED
  BY <1>1, Invariance, PTL

\* Each message of a batch is answered for its own failure and no other's, for any batch and any
\* messages left out of the function's (BatchHandler, failItems, itemErr).
THEOREM AttributedTheorem == ASSUME Constants PROVE Spec => []Attributed
<1>1. IInv => Attributed
  BY DEF IInv, Reported, Own, Attributed, itemErr
<1> QED
  BY <1>1, Invariance, PTL
=============================================================================
