---------------------------- MODULE NatsTransport ----------------------------
(***************************************************************************)
(* The core NATS transport, pkg/events/nats/nats.go: subscribeOne, the     *)
(* handler callback of a subscription, gather and handleBatch of a batch   *)
(* one, and Close.  NATS delivers a message once at most: what the client  *)
(* has queued is dropped by Unsubscribe, and what gather has taken comes   *)
(* from nowhere else.                                                      *)
(***************************************************************************)
EXTENDS Integers, Sequences, FiniteSets

CONSTANTS
    Subs,       \* the subscriptions, each with its context
    Batches,    \* those that take batches
    Max,        \* Batch.Max
    MaxMsgs     \* bound: the messages the server sends a subscription

BatchesAssumption == Batches \subseteq Subs
SizesAssumption == Max \in Nat \ {0} /\ MaxMsgs \in Nat

VARIABLES
    closed,     \* Transport.closed
    recorded,   \* Transport.subs
    s,          \* a subscription of the client: "none", "open" or "unsubscribed"
    ended,      \* whether its context has ended
    watched,    \* whether its AfterFunc is still to run
    queue,      \* the messages the client has queued for it
    pc,         \* where its goroutine stands
    batch,      \* the messages in hand
    cut,        \* the end of the context ended the filling of the batch
    live,       \* the handler's context is one the end of the subscription's does not end
    sent        \* the messages sent to it

vars == <<closed, recorded, s, ended, watched, queue, pc, batch, cut, live, sent>>

\* Each variable has its type; a batch never holds more than Max messages.
TypeOK ==
    /\ closed \in BOOLEAN
    /\ recorded \subseteq Subs
    /\ s \in [Subs -> {"none", "open", "unsubscribed"}]
    /\ {ended, watched, cut, live} \subseteq [Subs -> BOOLEAN]
    /\ pc \in [Subs -> {"none", "next", "fill", "hand", "handling", "done"}]
    /\ \A u \in Subs : Len(batch[u]) <= (IF u \in Batches THEN Max ELSE 1)
    /\ sent \in [Subs -> 0 .. MaxMsgs]

Init ==
    /\ closed = FALSE /\ recorded = {}
    /\ s = [u \in Subs |-> "none"]
    /\ ended = [u \in Subs |-> FALSE] /\ watched = [u \in Subs |-> FALSE]
    /\ queue = [u \in Subs |-> <<>>] /\ batch = [u \in Subs |-> <<>>]
    /\ pc = [u \in Subs |-> "none"]
    /\ cut = [u \in Subs |-> FALSE] /\ live = [u \in Subs |-> FALSE]
    /\ sent = [u \in Subs |-> 0]

-----------------------------------------------------------------------------
\* Unsubscribe of the subscriptions S drops what the client has queued for them.
Unsubscribe(S) ==
    /\ s' = [u \in Subs |-> IF u \in S /\ s[u] = "open" THEN "unsubscribed" ELSE s[u]]
    /\ queue' = [u \in Subs |-> IF u \in S THEN <<>> ELSE queue[u]]

\* Faulty: a closed transport is not looked at.
MaySubscribe_always == TRUE

MaySubscribe == ~closed

\* subscribeOne, all under the lock; the client may refuse.
subscribeOne(u) ==
    /\ s[u] = "none" /\ MaySubscribe
    /\ s' = [s EXCEPT ![u] = "open"]
    /\ recorded' = recorded \cup {u}
    /\ watched' = [watched EXCEPT ![u] = TRUE]
    /\ pc' = [pc EXCEPT ![u] = "next"]
    /\ UNCHANGED <<closed, ended, queue, batch, cut, live, sent>>

EndContext(u) ==
    /\ ~ended[u]
    /\ ended' = [ended EXCEPT ![u] = TRUE]
    /\ UNCHANGED <<closed, recorded, s, watched, queue, pc, batch, cut, live, sent>>

\* The AfterFunc of the context.
AfterFunc(u) ==
    /\ watched[u] /\ ended[u]
    /\ watched' = [watched EXCEPT ![u] = FALSE]
    /\ Unsubscribe({u})
    /\ UNCHANGED <<closed, recorded, ended, pc, batch, cut, live, sent>>

Close ==
    /\ ~closed
    /\ closed' = TRUE
    /\ recorded' = {}
    /\ Unsubscribe(recorded)
    /\ UNCHANGED <<ended, watched, pc, batch, cut, live, sent>>

\* The server sends a message.
Send(u) ==
    /\ s[u] = "open" /\ sent[u] < MaxMsgs
    /\ sent' = [sent EXCEPT ![u] = @ + 1]
    /\ queue' = [queue EXCEPT ![u] = Append(@, sent[u] + 1)]
    /\ UNCHANGED <<closed, recorded, s, ended, watched, pc, batch, cut, live>>

-----------------------------------------------------------------------------
Take(u) ==
    /\ queue[u] # <<>>
    /\ queue' = [queue EXCEPT ![u] = Tail(@)]
    /\ batch' = [batch EXCEPT ![u] = Append(@, Head(queue[u]))]

\* The client hands the callback its next message, or ends with the subscription.
Callback(u) ==
    /\ u \in Subs \ Batches /\ pc[u] = "next"
    /\ \/ Take(u) /\ pc' = [pc EXCEPT ![u] = "handling"]
       \/ s[u] = "unsubscribed" /\ pc' = [pc EXCEPT ![u] = "done"] /\ UNCHANGED <<queue, batch>>
    /\ UNCHANGED <<closed, recorded, s, ended, watched, cut, live, sent>>

\* Faulty: an error of a subscription that is gone is passed over like a slow consumer's.
Gone_ctx(u) == ended[u]

Gone(u) == s[u] = "unsubscribed" \/ ended[u]

\* gather takes the first message of a batch, or returns: NextMsgWithContext fails once the
\* context has ended or the subscription is gone.
NextFirst(u) ==
    /\ u \in Batches /\ pc[u] = "next"
    /\ \/ Take(u) /\ pc' = [pc EXCEPT ![u] = "fill"]
       \/ Gone(u) /\ pc' = [pc EXCEPT ![u] = "done"] /\ UNCHANGED <<queue, batch>>
    /\ UNCHANGED <<closed, recorded, s, ended, watched, cut, live, sent>>

Full(u) == Len(batch[u]) >= Max

\* Faulty: a batch cut short by the end of the context is dropped.
CutShort_drop(u) == IF ended[u] THEN "done" ELSE "hand"

CutShort(u) == "hand"

\* and the others, until the batch is full, its Wait has passed, or NextMsgWithContext fails.
NextMore(u) ==
    /\ pc[u] = "fill"
    /\ \/ ~Full(u) /\ Take(u) /\ UNCHANGED <<pc, cut>>
       \/ /\ pc' = [pc EXCEPT ![u] = CutShort(u)]
          /\ cut' = [cut EXCEPT ![u] = ~Full(u) /\ ended[u]]
          /\ UNCHANGED <<queue, batch>>
    /\ UNCHANGED <<closed, recorded, s, ended, watched, live, sent>>

\* Faulty: the handler runs on the subscription's context.
Detached_never(u) == FALSE

Detached(u) == ended[u]

\* handleBatch runs the handler on ctx, or on a context of its own once ctx has ended.
handleBatch(u) ==
    /\ pc[u] = "hand"
    /\ pc' = [pc EXCEPT ![u] = "handling"]
    /\ live' = [live EXCEPT ![u] = Detached(u)]
    /\ UNCHANGED <<closed, recorded, s, ended, watched, queue, batch, cut, sent>>

HandlerReturns(u) ==
    /\ pc[u] = "handling"
    /\ pc' = [pc EXCEPT ![u] = "next"]
    /\ batch' = [batch EXCEPT ![u] = <<>>]
    /\ cut' = [cut EXCEPT ![u] = FALSE] /\ live' = [live EXCEPT ![u] = FALSE]
    /\ UNCHANGED <<closed, recorded, s, ended, watched, queue, sent>>

GoroutineStep(u) == Callback(u) \/ NextFirst(u) \/ NextMore(u) \/ handleBatch(u) \/ HandlerReturns(u)

Next ==
    \/ Close
    \/ \E u \in Subs : subscribeOne(u) \/ EndContext(u) \/ AfterFunc(u) \/ Send(u) \/ GoroutineStep(u)

Spec == Init /\ [][Next]_vars

\* Goroutines are scheduled, handlers return and a batch's Wait passes.
FairSpec == Spec /\ \A u \in Subs : WF_vars(GoroutineStep(u)) /\ WF_vars(AfterFunc(u))

-----------------------------------------------------------------------------
\* After Close the transport has no subscription open, however it raced with Subscribe, and a batch
\* that was filling when the context ended runs on a context that end does not reach
\* (subscribeOne, Close, gather, handleBatch).  Every variable keeps its type.
SubscriptionsHold ==
    /\ TypeOK
    /\ closed => \A u \in Subs : s[u] # "open"
    /\ \A u \in Batches : pc[u] = "handling" /\ cut[u] => live[u]

\* No message a subscription has taken waits to be handled (only the end of its handler empties a batch), and
\* a subscription that is over has ended its goroutine.
AtRest ==
    \A u \in Subs :
        /\ batch[u] = <<>>
        /\ (pc[u] # "none" /\ (closed \/ ended[u])) => pc[u] = "done"

\* The subscriptions come to rest: what gather has taken is handled, though the context ends or
\* Close comes before the batch is full (core NATS will not deliver it again), and a subscription
\* whose context ended, or whose transport closed, ends its goroutine.
ComesToRest == []<>AtRest
=============================================================================
