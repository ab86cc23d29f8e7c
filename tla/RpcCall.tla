------------------------------- MODULE RpcCall -------------------------------
(***************************************************************************)
(* One gRPC call through pkg/rpc: the client's chain of Dial, the server's *)
(* interceptors behind Recovery, the generated method with its validation  *)
(* and error mapping.  A context ends on its own time, the client's first  *)
(* and the server's some time after.                                       *)
(***************************************************************************)
EXTENDS Naturals, Sequences, FiniteSets

CONSTANTS
    Cases,      \* the calls: how the two sides are configured and which method is called
    Errors,     \* the errors a service may return
    httpCodes,  \* the table of gRPC codes by HTTP status
    MaxRecv     \* the messages a stream receives

VARIABLES
    cs,         \* the call's case
    client,     \* "before", "calling", or the code the caller got
    clientLine, \* the code on the client's log line, "none" before there is one
    gone,       \* the client's context: "live", "Canceled" or "DeadlineExceeded"
    ctx,        \* the call's context on the server, likewise
    timer,      \* the Timeout interceptors whose own deadline has passed
    stack,      \* the interceptors the call is inside, outermost first
    pc,         \* where the server stands
    ret,        \* what the innermost frame returned or panicked with
    lines,      \* the codes on the server's access lines
    got,        \* the messages the stream handed the service: "ok" or "refused"
    late,       \* a Timeout's context had ended when the handler returned
    answer      \* the code the server sent

cvars == <<client, clientLine, gone>>
svars == <<ctx, timer, stack, pc, ret, lines, got, late, answer>>
vars == <<cs, cvars, svars>>

Nothing == [panics |-> FALSE, code |-> "none"]
Returns(c) == [panics |-> FALSE, code |-> c]
Panics == [panics |-> TRUE, code |-> "none"]

Init ==
    /\ cs \in Cases
    /\ client = "before" /\ clientLine = "none" /\ gone = "live"
    /\ ctx = "live" /\ timer = {} /\ stack = <<>> /\ pc = "idle" /\ ret = Nothing
    /\ lines = <<>> /\ got = <<>> /\ late = FALSE /\ answer = "none"

-----------------------------------------------------------------------------
(* The client: Dial's chain puts the deadline outside the access log.      *)

\* Faulty: no call is given a deadline.
Bounded_own == cs.deadline

\* clientTimeout gives a unary call without a deadline the default one.
Bounded == cs.deadline \/ (cs.clientTimeout /\ ~cs.stream)

\* Only unary calls are logged.
clientAccessLog(code) == IF cs.clientLog /\ ~cs.stream THEN code ELSE "none"

Ends(code) == client' = code /\ clientLine' = clientAccessLog(code)

Call ==
    /\ client = "before"
    /\ client' = "calling" /\ pc' = "enter"
    /\ UNCHANGED <<cs, clientLine, gone, ctx, timer, stack, ret, lines, got, late, answer>>

\* The deadline passes, or the caller gives up: the call ends there and then.
ClientDeadline ==
    /\ client = "calling" /\ Bounded /\ gone = "live"
    /\ gone' = "DeadlineExceeded" /\ Ends("DeadlineExceeded")
    /\ UNCHANGED <<cs, svars>>

ClientCancel ==
    /\ client = "calling" /\ gone = "live"
    /\ gone' = "Canceled" /\ Ends("Canceled")
    /\ UNCHANGED <<cs, svars>>

ClientReceives ==
    /\ client = "calling" /\ answer # "none"
    /\ Ends(answer)
    /\ UNCHANGED <<cs, gone, svars>>

-----------------------------------------------------------------------------
(* The server's chain, as GRPCServer builds it: Recovery, then each        *)
(* interceptor that has the call's form, which health and reflection       *)
(* calls pass by (bypassUnary, bypassStream).                              *)

\* Timeout is unary only; a guard is an interceptor of the application with both forms.
HasForm(i) == i = "timeout" => ~cs.stream

Chain == <<"recovery">> \o SelectSeq(cs.chain, LAMBDA i : HasForm(i) /\ ~cs.infra)

\* AccessLog steps aside for a method it skips.
Watches(i) == i = "log" => ~cs.skip

Enter ==
    /\ pc = "enter"
    /\ LET n == Len(stack) + 1
       IN  \/ /\ n <= Len(Chain)
              /\ stack' = Append(stack, Chain[n])
              /\ UNCHANGED <<pc, ret>>
           \/ \* a guard refuses the call, or panics, before the handler
              /\ stack # <<>> /\ stack[Len(stack)] = "guard"
              /\ ret' \in {Returns("PermissionDenied"), Panics}
              /\ pc' = "unwind"
              /\ stack' = SubSeq(stack, 1, Len(stack) - 1)
           \/ /\ n > Len(Chain)
              /\ pc' = "handler"
              /\ UNCHANGED <<stack, ret>>
    /\ UNCHANGED <<cs, cvars, ctx, timer, lines, got, late, answer>>

\* The call's context ends after the client's; a Timeout's own when its duration has passed.
ContextEnds ==
    /\ pc \in {"enter", "handler", "unwind"} /\ ctx = "live" /\ gone # "live"
    /\ ctx' = gone
    /\ UNCHANGED <<cs, cvars, timer, stack, pc, ret, lines, got, late, answer>>

TimerFires(i) ==
    /\ pc \in {"enter", "handler", "unwind"} /\ i \in DOMAIN stack /\ stack[i] = "timeout" /\ i \notin timer
    /\ timer' = timer \cup {i}
    /\ UNCHANGED <<cs, cvars, ctx, stack, pc, ret, lines, got, late, answer>>

\* What the context inside frame i says: a derived context ends with its parent too.
ErrAt(i) ==
    IF \E j \in timer : j <= i THEN "DeadlineExceeded" ELSE ctx

-----------------------------------------------------------------------------
(* The method: its request is validated, the service's error mapped.       *)

NoError == [is |-> "nil"]

codeFor(status) == IF status \in DOMAIN httpCodes THEN httpCodes[status] ELSE "Unknown"

\* Error: a status error passes, a StatusError takes its HTTP status's code, a context error
\* its own, any other is opaque.
Error(e) ==
    CASE e.is = "nil" -> "OK"
      [] e.is = "status" -> e.code
      [] e.is = "http" -> codeFor(e.code)
      [] e.is = "context" -> e.code
      [] OTHER -> "Internal"

Leave(r) ==
    /\ ret' = r /\ pc' = "unwind"
    /\ late' = \E i \in DOMAIN stack : stack[i] = "timeout" /\ ErrAt(i) # "live"

\* Validate refuses a unary request; the service returns or panics.
Unary ==
    /\ pc = "handler" /\ ~cs.stream
    /\ \/ cs.invalid /\ Leave(Returns("InvalidArgument")) /\ UNCHANGED got
       \/ /\ ~cs.invalid
          /\ got' = <<"ok">>
          /\ \/ \E e \in Errors \cup {NoError} : Leave(Returns(Error(e)))
             \/ ErrAt(Len(stack)) # "live" /\ Leave(Returns(Error([is |-> "context", code |-> ErrAt(Len(stack))])))
             \/ Leave(Panics)
    /\ UNCHANGED <<cs, cvars, ctx, timer, stack, lines, answer>>

\* validatingStream.RecvMsg runs Validate on each message it receives.
Validate(valid) == IF valid THEN "ok" ELSE "refused"

Recv ==
    /\ pc = "handler" /\ cs.stream /\ Len(got) < MaxRecv
    /\ \E valid \in BOOLEAN : got' = Append(got, [valid |-> valid, as |-> Validate(valid)])
    /\ UNCHANGED <<cs, cvars, ctx, timer, stack, pc, ret, lines, late, answer>>

Stream ==
    /\ pc = "handler" /\ cs.stream
    /\ \/ \E e \in Errors \cup {NoError} : Leave(Returns(Error(e)))
       \/ /\ got # <<>> /\ got[Len(got)].as = "refused"
          /\ Leave(Returns(Error([is |-> "status", code |-> "InvalidArgument"])))
       \/ Leave(Panics)
    /\ UNCHANGED <<cs, cvars, ctx, timer, stack, lines, got, answer>>

-----------------------------------------------------------------------------
(* The way back through the frames.                                        *)

\* Faulty: the line has the code the handler returned, and a panic none.
AccessLog_code(r) == IF r.panics THEN lines ELSE Append(lines, r.code)

\* The line has the code of what comes back, Internal for a panic, which goes on.
AccessLog(r) == Append(lines, IF r.panics THEN "Internal" ELSE r.code)

\* Faulty: the late success is kept.
Timeout_keep(r, err) == r

\* A success that comes back after the context ended is that context's error.
Timeout(r, err) == IF r = Returns("OK") /\ err # "live" THEN Returns(err) ELSE r

Recovery(r) == IF r.panics THEN Returns("Internal") ELSE r

Unwind ==
    /\ pc = "unwind"
    /\ LET n == Len(stack)
           i == stack[n]
       IN  /\ n > 0
           /\ stack' = SubSeq(stack, 1, n - 1)
           /\ lines' = IF i = "log" /\ Watches(i) THEN AccessLog(ret) ELSE lines
           /\ ret' = CASE i = "timeout" -> Timeout(ret, ErrAt(n))
                       [] i = "recovery" -> Recovery(ret)
                       [] OTHER -> ret
           /\ pc' = IF n = 1 THEN "sent" ELSE pc
           /\ answer' = IF n = 1 THEN ret'.code ELSE answer
    /\ UNCHANGED <<cs, cvars, ctx, timer, got, late>>

ServerStep == Enter \/ Unary \/ Recv \/ Stream \/ Unwind

Next ==
    \/ Call \/ ClientDeadline \/ ClientCancel \/ ClientReceives
    \/ ServerStep \/ ContextEnds
    \/ \E i \in 1 .. Len(cs.chain) + 1 : TimerFires(i)

Spec == Init /\ [][Next]_vars

\* The deadline's timer fires and an answer that was sent arrives; a handler may never return.
FairSpec == Spec /\ WF_vars(ClientDeadline) /\ WF_vars(ClientReceives) /\ WF_vars(Enter) /\ WF_vars(Unwind)

-----------------------------------------------------------------------------
Logs == Len(SelectSeq(Chain, LAMBDA i : i = "log" /\ Watches(i)))

\* Every call that was answered has one line for each access log it passed, and where the log is
\* the outermost of the chain, as the generated main installs it, the code on the line is the code
\* that was sent, panics and late successes included (AccessLog, Recovery, Timeout).  The client's
\* line has the code its caller got.
LineIsAnswer ==
    /\ pc = "sent" =>
          /\ answer # "none"
          /\ (Len(Chain) > 1 /\ Chain[2] = "log") => (Watches("log") => lines # <<>> /\ lines[Len(lines)] = answer)
          /\ Len(lines) <= Logs
          /\ (\A i \in DOMAIN cs.chain : cs.chain[i] = "guard" => FALSE) => Len(lines) = Logs
    /\ clientLine # "none" => clientLine = client

\* A unary call inside Timeout is not answered OK when the context had ended by the time the
\* handler returned; health calls and streams are not bounded (Timeout, bypassUnary).  No service
\* is handed a message that fails its validation as if it were good (validatingStream).
LateIsNotOK ==
    /\ (pc = "sent" /\ late) => answer # "OK" /\ ~cs.stream /\ ~cs.infra
    /\ cs.stream => \A i \in DOMAIN got : got[i].as = "ok" <=> got[i].valid

\* A unary call with a client timeout, or a call with a deadline of its own (clientTimeout).
BoundedCall == client = "calling" /\ (cs.deadline \/ (cs.clientTimeout /\ ~cs.stream))

CallOver == client \notin {"before", "calling"}

\* A bounded call ends, though the server never answers.
BoundedCallEnds == BoundedCall ~> CallOver
=============================================================================
