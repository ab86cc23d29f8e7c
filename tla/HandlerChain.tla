---------------------------- MODULE HandlerChain ----------------------------
(***************************************************************************)
(* One delivery through the wrapped handler Bus.Start hands to a           *)
(* transport: outer recover, bus chain, subscription chain, inner recover, *)
(* handler (decorated, recoverHandler and, for a batch, decoratedBatch,    *)
(* recoverBatch of pkg/events; Chain.wrap and Recover of chain.go), down   *)
(* to the function an Event.BatchHandler adapts and back to itemErr, with  *)
(* which the Kafka and JetStream adapters read the error per message.      *)
(*                                                                         *)
(* Frame k of 1 .. Depth is a middleware, outermost first; frame Depth + 1 *)
(* is the handler.  A middleware may ask for a disposition before and      *)
(* after it calls next, not call it, call it again, change the error or    *)
(* panic.  A single message is a batch of one.                             *)
(*                                                                         *)
(* Messages are numbered from 0 in the batch, items from 0 among those     *)
(* that decoded: the function's ItemErrors speaks of items, the transport's*)
(* of messages.                                                            *)
(***************************************************************************)
EXTENDS Integers, Sequences

CONSTANTS
    N,          \* the messages of the delivery
    Depth,      \* the middlewares of the two chains
    Recovers,   \* those that are events.Recover
    Escaped,    \* what the outer recover asks for: "redeliver", or "unset" where the transport cannot
    MaxCalls    \* bound: how often a middleware calls next again

DepthAssumption == N \in Nat \ {0} /\ Depth \in Nat /\ Recovers \subseteq 1 .. Depth
EscapedAssumption == Escaped \in {"unset", "redeliver"}
BoundAssumption == MaxCalls \in Nat

VARIABLES
    frame,      \* the frame that runs, 0 once the wrapped handler has returned
    way,        \* "down" before it calls next, "up" after, "panic" while a panic unwinds it
    disp,       \* Message.disposition
    by,         \* history: the frame that asked for it, 0 for a recover or none
    err,        \* the error of the call below: "nil", "error", "panic", or the handler's ItemErrors
    unwound,    \* history: the frames a panic unwound in their latest call
    calls,      \* how often next was called again
    errs,       \* the handler's error for each message, named for where it came from
    items,      \* the message behind each item
    failed,     \* history: the messages whose item the function failed with Item.Fail
    returned    \* history: what the function returned

handler == <<errs, items, failed, returned>>
asking == <<disp, by>>
vars == <<frame, way, asking, err, unwound, calls, handler>>

Msgs == 0 .. N - 1
Frames == 1 .. Depth + 1
Handler == Depth + 1
Asked == {"settle", "redeliver", "reject"}
NoError == [kind |-> "nil", named |-> {}, nils |-> {}]

\* Each variable has its type, the wrapped handler returns to the transport, never panics, and
\* an item is a message that decoded, in the order of the batch.
TypeOK ==
    /\ frame \in 0 .. Handler
    /\ way \in {"down", "up", "panic"} /\ (frame = 0 => way = "up")
    /\ disp \in [Msgs -> Asked \cup {"unset"}]
    /\ by \in [Msgs -> 0 .. Handler]
    /\ err \in {"nil", "error", "panic", "items"}
    /\ unwound \subseteq Frames
    /\ calls \in 0 .. MaxCalls
    /\ errs \in [Msgs -> {"nil", "payload", "item", "named", "whole"}]
    /\ items \in Seq(Msgs) /\ \A j, k \in DOMAIN items : j < k => items[j] < items[k]
    /\ \A k \in DOMAIN items : errs[items[k]] # "payload"
    /\ failed \subseteq Msgs
    /\ returned.kind \in {"nil", "error", "ItemErrors"}

Init ==
    /\ frame = 1 /\ way = "down"
    /\ disp = [m \in Msgs |-> "unset"] /\ by = [m \in Msgs |-> 0]
    /\ err = "nil"
    /\ unwound = {}
    /\ calls = 0
    /\ errs = [m \in Msgs |-> "nil"] /\ items = <<>>
    /\ failed = {} /\ returned = NoError

-----------------------------------------------------------------------------
\* The frame runs code of its own.
Running == frame \in Frames \ Recovers /\ way \in {"down", "up"}

\* The messages of the items.
Mine == {items[k] : k \in DOMAIN items}

\* Settle, Redeliver or Reject of a message; the function has those of its items.
Ask(m, d) ==
    /\ Running /\ (frame = Handler => m \in Mine)
    /\ disp' = [disp EXCEPT ![m] = d]
    /\ by' = [by EXCEPT ![m] = frame]
    /\ UNCHANGED <<frame, way, err, unwound, calls, handler>>

\* A middleware calls next, a second time to try again.
CallNext ==
    /\ frame \in 1 .. Depth
    /\ \/ way = "down" /\ UNCHANGED calls
       \/ way = "up" /\ frame \notin Recovers /\ calls < MaxCalls /\ calls' = calls + 1
    /\ frame' = frame + 1
    /\ way' = "down"
    /\ err' = "nil"
    /\ unwound' = unwound \ (frame + 1 .. Handler)
    /\ items' = <<>>
    /\ UNCHANGED <<asking, errs, failed, returned>>

\* A middleware returns to the frame above: with an error of its own, none, or the one it got.
Return ==
    /\ frame \in 1 .. Depth /\ way \in {"down", "up"}
    /\ IF frame \in Recovers THEN way = "up" /\ err' = err ELSE err' \in {"nil", "error", err}
    /\ frame' = frame - 1
    /\ way' = "up"
    /\ UNCHANGED <<asking, unwound, calls, handler>>

Panic ==
    /\ Running
    /\ way' = "panic"
    /\ UNCHANGED <<frame, asking, err, unwound, calls, handler>>

\* Whether the deferred recover above frame k catches its panic: the inner one the handler's,
\* the outer one what leaves the chain, events.Recover what comes from below it.
Recovered(k) == k - 1 \in Recovers \cup {0, Depth}

\* Faulty: what the panicking frames asked for stands.
Voided_not(to) == UNCHANGED <<disp, by>>

\* Every message of the delivery gets disposition to.
Voided(to) == disp' = [m \in Msgs |-> to] /\ by' = [m \in Msgs |-> 0]

\* Faulty: the outer recover leaves the messages unset.
Left_unset(k) == "unset"

\* decorated: the recover above the chain asks for Escaped, any other leaves it to the frames above.
Left(k) == IF k = 1 /\ Depth > 0 THEN Escaped ELSE "unset"

\* The panic unwinds the frame and is recovered above it, or goes on.
Unwind ==
    /\ frame \in Frames /\ way = "panic"
    /\ unwound' = unwound \cup {frame}
    /\ frame' = frame - 1
    /\ \/ /\ Recovered(frame)
          /\ way' = "up"
          /\ err' = "panic"
          /\ Voided(Left(frame))
       \/ /\ ~Recovered(frame)
          /\ UNCHANGED <<way, err, disp, by>>
    /\ UNCHANGED <<calls, handler>>

-----------------------------------------------------------------------------
\* itemErrors keeps the errors that are not nil: without one the handler returns nil.
HandlerReturns(es) ==
    /\ frame' = frame - 1
    /\ way' = "up"
    /\ err' = IF \A m \in Msgs : es[m] = "nil" THEN "nil" ELSE "items"

\* What the messages that decode may be: any of the batch, in its order.
Decoded == {q \in UNION {[1 .. n -> Msgs] : n \in 0 .. N} : \A j, k \in DOMAIN q : j < k => q[j] < q[k]}

\* BatchHandler: the messages that do not decode or validate get that error, the others become
\* items; without items the function is not called.
Decode ==
    /\ frame = Handler /\ way = "down" /\ items = <<>>
    /\ items' \in Decoded
    /\ errs' = [m \in Msgs |-> IF \E k \in DOMAIN items' : items'[k] = m THEN "nil" ELSE "payload"]
    /\ failed' = {} /\ returned' = NoError
    /\ IF items' = <<>> THEN HandlerReturns(errs') ELSE UNCHANGED <<frame, way, err>>
    /\ UNCHANGED <<asking, unwound, calls>>

\* Item.Fail of item j, or, with nil, its failure taken back.
Fail(j, cleared) ==
    /\ frame = Handler /\ way = "down" /\ j + 1 \in DOMAIN items
    /\ errs' = [errs EXCEPT ![items[j + 1]] = IF cleared THEN "nil" ELSE "item"]
    /\ failed' = IF cleared THEN failed \ {items[j + 1]} ELSE failed \cup {items[j + 1]}
    /\ UNCHANGED <<frame, way, asking, err, unwound, calls, items, returned>>

within(e, n) == e.named \subseteq 0 .. n - 1

\* Faulty: the index of an item is taken for one of the batch.
Position_batch(j) == j

\* The message behind item j.
Position(j) == items[j + 1]

\* An item without an error of its own.
Open(m) == errs[m] = "nil"

\* failItems: e, the function's error, goes to the items it fails.
failItems(e) ==
    LET perItem == e.kind = "ItemErrors" /\ within(e, Len(items))
        hit == CASE e.kind = "nil" -> {}
                 [] perItem -> {Position(j) : j \in e.named \ e.nils}
                 [] OTHER -> Mine
    IN  errs' = [m \in Msgs |-> IF m \in hit /\ Open(m)
                                THEN (IF perItem THEN "named" ELSE "whole") ELSE errs[m]]

\* The function returns nil, an error, or an ItemErrors, which may name an index that is no item
\* and hold nil for one it names.
FunctionReturns ==
    /\ frame = Handler /\ way = "down" /\ items # <<>>
    /\ \/ returned' = NoError
       \/ returned' = [NoError EXCEPT !.kind = "error"]
       \/ \E named \in SUBSET (-1 .. Len(items)) : \E nils \in SUBSET named :
              returned' = [kind |-> "ItemErrors", named |-> named, nils |-> nils]
    /\ failItems(returned')
    /\ HandlerReturns(errs')
    /\ UNCHANGED <<asking, unwound, calls, items, failed>>

Next ==
    \/ \E m \in Msgs, d \in Asked : Ask(m, d)
    \/ CallNext \/ Return \/ Panic \/ Unwind
    \/ Decode \/ (\E j \in Msgs, cleared \in BOOLEAN : Fail(j, cleared)) \/ FunctionReturns

Spec == Init /\ [][Next]_vars

\* itemErr: what the adapter reads back for message m.
itemErr(m) ==
    CASE err = "items" -> errs[m]
      [] err \in {"error", "panic"} -> "whole"
      [] OTHER -> "nil"

-----------------------------------------------------------------------------
\* The transport never answers a message with what a frame asked for that a panic unwound later,
\* in any nesting of retries and recovers (recoverHandler, recoverBatch).  Every variable keeps
\* its type.
NoVoidedAsk == TypeOK /\ (frame = 0 => \A m \in Msgs : by[m] \notin unwound)

\* A panic that leaves the chain asks for redelivery of every message, where the transport can,
\* and reaches it as a PanicError (decorated, decoratedBatch).
EscapedRedelivers ==
    frame = 0 /\ 1 \in unwound /\ Depth > 0 => err = "panic" /\ \A m \in Msgs : disp[m] = Escaped

\* What the transport answers is what stands: no voided ask, and a panic that escapes redelivers
\* (recoverHandler, recoverBatch, decorated, decoratedBatch).
AsksKept == NoVoidedAsk /\ EscapedRedelivers

\* The index of the item of message m.
ItemOf(m) == CHOOSE j \in 0 .. Len(items) - 1 : items[j + 1] = m

\* The adapter answers each message for its own failure and no other's: the payload's, else the
\* one Item.Fail recorded, else what the function's error says of its item, even when messages
\* left out of the function's batch shift the indices (BatchHandler, failItems, itemErr).
Attributed ==
    frame = 0 /\ err = "items" => \A m \in Msgs :
        LET bad == returned.named \ (0 .. Len(items) - 1) # {}
        IN  itemErr(m) = CASE m \notin Mine -> "payload"
                           [] m \in Mine /\ m \in failed -> "item"
                           [] OTHER -> IF returned.kind = "nil" THEN "nil"
                                       ELSE IF returned.kind = "error" \/ bad THEN "whole"
                                       ELSE IF ItemOf(m) \in returned.named \ returned.nils THEN "named"
                                       ELSE "nil"
=============================================================================
