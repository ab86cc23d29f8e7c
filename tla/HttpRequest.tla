---------------------------- MODULE HttpRequest ----------------------------
(***************************************************************************)
(* One request through the chain a generated service builds with           *)
(* pkg/server: Recovery, CORS, AccessLog, Compress, the mux, the route's   *)
(* limits and the handler.  The handler, typed or raw, may write, flush,   *)
(* hijack, fail or panic at any point; the client may leave, and the       *)
(* route's deadline may pass, between any two of its steps.                *)
(***************************************************************************)
EXTENDS Integers, Sequences, FiniteSets, SequencesExt

CONSTANTS
    Requests,   \* the requests, with the configuration each meets
    MinSize,    \* CompressOptions.MinSize
    Window,     \* the bytes an encoder holds before it writes them out by itself
    MaxOps      \* bound: the calls a raw handler makes on its ResponseWriter

BoundsAssumption == MinSize \in Nat /\ Window \in Nat /\ MaxOps \in Nat

VARIABLES
    rq,         \* the request
    pc,         \* where it stands
    left,       \* the client is gone
    ctx,        \* the handler's context: live, canceled or past its deadline
    w,          \* the writers of the chain and what went out
    body,       \* what cappedBody remembers of the reads of the body
    ops,        \* the calls the raw handler made
    wrote,      \* the bytes the handler wrote, as chunks
    flushed,    \* history: how many of them it had written when it last flushed
    failed,     \* how the handler ended, and whether the response was committed then
    line        \* the status of the access line, 0 before there is one

vars == <<rq, pc, left, ctx, w, body, ops, wrote, flushed, failed, line>>

noLength == -1
noHeaders == [len |-> noLength, enc |-> "none", type |-> "none", range |-> FALSE]
newWriter == [on |-> FALSE, coding |-> "none", status |-> 0, set |-> FALSE, decided |-> FALSE,
              compress |-> FALSE, buf |-> <<>>, cmp |-> "none", held |-> <<>>]
Bytes(n, looks) == [from |-> "handler", n |-> n, looks |-> looks]
ErrorBody == [from |-> "error", n |-> 1, looks |-> "text"]
Total(b) == FoldLeft(LAMBDA a, c : a + c.n, 0, b)

-----------------------------------------------------------------------------
\* net/http's response: the first final status sends the headers as they are then; a body goes
\* out only where the status and the method have one.
netWriteHeader(x, c) ==
    IF x.wire.status # 0 \/ x.wire.hijacked \/ ~(c = 101 \/ c >= 200) THEN x
    ELSE [x EXCEPT !.wire.status = c, !.wire.hdr = x.hdr]

netWrite(x, b, enc) ==
    LET y == netWriteHeader(x, 200) IN
    IF rq.head \/ y.wire.hijacked \/ y.wire.status \in {204, 304} THEN y
    ELSE [y EXCEPT !.wire.body = @ \o [i \in DOMAIN b |-> [enc |-> enc] @@ b[i]]]

\* trackingWriter, of recovery and of AccessLog: a call goes through the trackers in ts, each of
\* which records the first status the call commits.
finalStatus(c) == c = 101 \/ (c >= 200 /\ c <= 999)

commit_last(x, ts, c) == [x EXCEPT !.track = [t \in DOMAIN @ |-> IF t \in ts THEN c ELSE @[t]]]

commit(x, ts, c) == [x EXCEPT !.track = [t \in DOMAIN @ |-> IF t \in ts /\ @[t] = 0 THEN c ELSE @[t]]]

trackWriteHeader(x, ts, c) == netWriteHeader(IF finalStatus(c) THEN commit(x, ts, c) ELSE x, c)

trackWrite(x, ts, b, enc) == netWrite(commit(x, ts, 200), b, enc)

trackFlush(x, ts) == netWriteHeader(commit(x, ts, 200), 200)

trackHijack(x, ts) == [commit(x, ts, 101) EXCEPT !.wire.hijacked = TRUE]

Status(x, t) == IF x.track[t] = 0 THEN 200 ELSE x.track[t]

-----------------------------------------------------------------------------
\* gzip.Writer and flate.Writer, which hold what they are given until they have a block of it, are
\* flushed or are closed; Close writes the end of the stream, without which nothing decodes.
cmpFlush(x) ==
    IF x.cw.held = <<>> THEN x
    ELSE [trackWrite(x, x.ts, x.cw.held, x.cw.coding) EXCEPT !.cw.held = <<>>]

cmpWrite(x, b) ==
    LET y == [x EXCEPT !.cw.held = @ \o b] IN
    IF Total(y.cw.held) < Window THEN y ELSE cmpFlush(y)

cmpClose(x) == [cmpFlush(x) EXCEPT !.wire.ended = TRUE]

\* compressWriter over the trackers in x.ts.
skippedType(x) == x.hdr.type = "image"

shouldSkipImmediately(x) ==
    \/ x.cw.status \in {204, 304, 206}
    \/ x.hdr.enc # "none" \/ x.hdr.range
    \/ x.hdr.len # noLength /\ x.hdr.len < MinSize
    \/ skippedType(x)

commitPassthrough(x) ==
    LET y == trackWriteHeader([x EXCEPT !.cw.decided = TRUE, !.cw.compress = FALSE], x.ts, x.cw.status) IN
    IF x.cw.buf = <<>> THEN y ELSE [trackWrite(y, x.ts, x.cw.buf, "none") EXCEPT !.cw.buf = <<>>]

commitCompressed_length(x) ==
    LET y == trackWriteHeader([x EXCEPT !.cw.decided = TRUE, !.cw.compress = TRUE, !.hdr.enc = x.cw.coding],
                              x.ts, x.cw.status)
    IN cmpWrite([y EXCEPT !.cw.cmp = "open", !.cw.buf = <<>>], x.cw.buf)

commitCompressed(x) ==
    LET y == trackWriteHeader([x EXCEPT !.cw.decided = TRUE, !.cw.compress = TRUE, !.hdr.enc = x.cw.coding,
                                        !.hdr.len = noLength], x.ts, x.cw.status)
    IN cmpWrite([y EXCEPT !.cw.cmp = "open", !.cw.buf = <<>>], x.cw.buf)

sniffContentType(x, t) == [x EXCEPT !.hdr.type = IF @ = "none" THEN t ELSE @]

cwWriteHeader(x, c) ==
    IF x.cw.set THEN x
    ELSE IF ~finalStatus(c) THEN trackWriteHeader(x, x.ts, c)
    ELSE [x EXCEPT !.cw.status = c, !.cw.set = TRUE]

\* The plain bytes of a body without a Content-Type sniff as text or as an image.
cwBuffered(x, b) ==
    LET y == [x EXCEPT !.cw.buf = Append(@, b)]
        z == sniffContentType(y, y.cw.buf[1].looks)
    IN CASE Total(y.cw.buf) < MinSize -> y
         [] skippedType(z) -> commitPassthrough(z)
         [] OTHER -> commitCompressed(z)

cwWrite(x, b) ==
    LET y == cwWriteHeader(x, 200) IN
    CASE y.cw.decided /\ y.cw.compress -> cmpWrite(y, <<b>>)
      [] y.cw.decided /\ ~y.cw.compress -> trackWrite(y, y.ts, <<b>>, "none")
      [] ~y.cw.decided /\ shouldSkipImmediately(y) -> trackWrite(commitPassthrough(y), y.ts, <<b>>, "none")
      [] OTHER -> cwBuffered(y, b)

cwReadFrom(x, b) ==
    LET y == cwWriteHeader(x, 200)
        z == IF ~y.cw.decided /\ shouldSkipImmediately(y) THEN commitPassthrough(y) ELSE y
    IN IF z.cw.decided /\ ~z.cw.compress THEN trackWrite(z, z.ts, <<b>>, "none") ELSE cwWrite(z, b)

cwFlush_head(x) ==
    LET y == cwWriteHeader(x, 200) IN
    trackFlush(IF y.cw.decided THEN y ELSE commitPassthrough(y), y.ts)

cwFlush(x) ==
    LET y == cwWriteHeader(x, 200) IN
    trackFlush(CASE ~y.cw.decided -> commitPassthrough(y)
                 [] y.cw.decided /\ y.cw.compress -> cmpFlush(y)
                 [] OTHER -> y, y.ts)

cwHijack(x) ==
    [trackHijack(x, x.ts) EXCEPT !.cw.set = TRUE, !.cw.decided = TRUE, !.cw.compress = FALSE]

Close_drop(x) == IF x.cw.on /\ x.cw.compress THEN [cmpClose(x) EXCEPT !.cw.cmp = "none"] ELSE x

Close_open(x) == IF x.cw.on /\ ~x.cw.decided /\ x.cw.set THEN commitPassthrough(x) ELSE x

\* Close of compressWriter, deferred by Compress: the encoder goes back to its pool.
Close(x) ==
    CASE x.cw.on /\ ~x.cw.decided /\ x.cw.set -> commitPassthrough(x)
      [] x.cw.on /\ x.cw.compress -> [cmpClose(x) EXCEPT !.cw.cmp = "none"]
      [] OTHER -> x

\* The ResponseWriter the handler holds.
WriteHeader(x, c) == IF x.cw.on THEN cwWriteHeader(x, c) ELSE trackWriteHeader(x, x.ts, c)
Write(x, b) == IF x.cw.on THEN cwWrite(x, b) ELSE trackWrite(x, x.ts, <<b>>, "none")
ReadFrom(x, b) == IF x.cw.on THEN cwReadFrom(x, b) ELSE trackWrite(x, x.ts, <<b>>, "none")
Flush(x) == IF x.cw.on THEN cwFlush(x) ELSE trackFlush(x, x.ts)
Hijack(x) == IF x.cw.on THEN cwHijack(x) ELSE trackHijack(x, x.ts)

responseCommitted_wire(x) == x.wire.status # 0

responseCommitted(x) == IF x.cw.on THEN x.cw.set ELSE x.track[IF "acc" \in x.ts THEN "acc" ELSE "rec"] # 0

-----------------------------------------------------------------------------
\* The rendering of errors.
writeErrorHead(x, c) == WriteHeader([x EXCEPT !.hdr.len = noLength, !.hdr.type = "json"], c)

writeStatusError(x, c) == Write(writeErrorHead(x, c), ErrorBody)

bodyTooLarge(err) == err = "toolarge" \/ body = "over"

bodyReadFailed(err, binding) ==
    [failed |-> err = "read" \/ (binding /\ err \in {"net", "nettimeout"}),
     timeout |-> (err = "read" /\ body = "timeout") \/ (binding /\ err = "nettimeout")]

writeBodyReadFailure(x, timeout) == writeStatusError(x, IF timeout THEN 408 ELSE 400)

defaultValidationFailed(x) == IF responseCommitted(x) THEN x ELSE writeStatusError(x, 400)

WriteValidationError(x, err) ==
    LET open == ~responseCommitted(x)
        read == bodyReadFailed(err, TRUE)
    IN IF open /\ bodyTooLarge(err) THEN writeStatusError(x, 413)
       ELSE IF open /\ err = "notmultipart" THEN writeStatusError(x, 415)
       ELSE IF open /\ read.failed THEN writeBodyReadFailure(x, read.timeout)
       ELSE defaultValidationFailed(x)

\* A context error is answered unless the request's context has none of its own to blame.
isContextError(err) == err = "deadline" \/ (err = "canceled" /\ ctx # "live")

writeContextError_silent(x) == x

writeContextError(x) ==
    IF ctx = "canceled" \/ responseCommitted(x) THEN x ELSE writeStatusError(x, 504)

WriteError(x, err) ==
    LET read == bodyReadFailed(err, FALSE) IN
    IF isContextError(err) THEN writeContextError(x)
    ELSE IF responseCommitted(x) THEN x
    ELSE IF err = "status" THEN writeStatusError(x, 404)
    ELSE IF bodyTooLarge(err) THEN writeStatusError(x, 413)
    ELSE IF read.failed THEN writeBodyReadFailure(x, read.timeout)
    ELSE writeStatusError(x, 500)

\* WriteResponse encodes before it writes, so a value that does not encode is an error.
WriteResponse(x, c, b) == Write(WriteHeader([x EXCEPT !.hdr.type = "json"], c), b)

-----------------------------------------------------------------------------
\* The first coding of Accept-Encoding, in header order and without the refused ones, that
\* Compress has.
acceptedCodings(accept) == SelectSeq(accept, LAMBDA c : ~c.refused)

negotiateEncoding(accept) ==
    LET known == SelectSeq(acceptedCodings(accept), LAMBDA c : c.coding \in {"gzip", "deflate"})
    IN IF known = <<>> THEN "none" ELSE Head(known).coding

\* A rule with a "*", cut at the first one, against an origin.
matchWildcard(rule, origin) ==
    LET star   == SelectInSeq(rule, LAMBDA piece : piece = "*")
        prefix == SubSeq(rule, 1, star - 1)
        suffix == SubSeq(rule, star + 1, Len(rule))
    IN /\ star # 0
       /\ IsPrefix(prefix, origin) /\ IsSuffix(suffix, origin) /\ Len(origin) >= Len(prefix) + Len(suffix)

\* Whether a rule allows the origin; "*" alone allows every one.
matchOrigin(origin, rules) ==
    origin # <<>> /\ \E i \in DOMAIN rules : rules[i] \in {<<"*">>, origin} \/ matchWildcard(rules[i], origin)

Preflight == rq.options /\ matchOrigin(rq.origin, rq.allowed)

\* The chain Handler builds: what each middleware wraps the ResponseWriter in.
Chain ==
    LET coding == IF rq.compress THEN negotiateEncoding(rq.accept) ELSE "none" IN
    [ts |-> IF rq.skipLog THEN {"rec"} ELSE {"rec", "acc"}, track |-> [t \in {"rec", "acc"} |-> 0],
     cw |-> [newWriter EXCEPT !.on = coding # "none" /\ ~rq.head, !.coding = coding],
     hdr |-> noHeaders, wire |-> [status |-> 0, hdr |-> noHeaders, body |-> <<>>, ended |-> FALSE,
                                 hijacked |-> FALSE]]

Init ==
    /\ rq \in Requests /\ pc = "enter" /\ left = FALSE /\ ctx = "live" /\ w = Chain
    /\ body = "fine" /\ ops = 0 /\ wrote = <<>> /\ flushed = 0 /\ line = 0
    /\ failed = [how |-> "no", committed |-> FALSE, gone |-> FALSE]

Fails(how) == failed' = [how |-> how, committed |-> responseCommitted(w), gone |-> ctx = "canceled"]

\* The mux's own answer to a path it has under another spelling, a redirect with a line of text.
Redirect(x, b) == Write(WriteHeader([x EXCEPT !.hdr.type = "text"], 301), b)

\* The steps before the handler: a preflight ends in the CORS middleware, a request the mux has
\* no route for in muxLocked, a body declared too long in maxBodySizeHandler.
Enter ==
    /\ pc = "enter"
    /\ CASE Preflight -> /\ w' = trackWriteHeader([w EXCEPT !.ts = {"rec"}], {"rec"}, 204)
                         /\ pc' = "recover" /\ UNCHANGED wrote
         [] ~Preflight /\ rq.route = "missing" -> w' = writeStatusError(w, 404) /\ pc' = "close" /\ UNCHANGED wrote
         [] ~Preflight /\ rq.route = "method" -> w' = writeStatusError(w, 405) /\ pc' = "close" /\ UNCHANGED wrote
         [] ~Preflight /\ rq.route = "redirect" ->
                LET b == Bytes(MinSize, "text") IN w' = Redirect(w, b) /\ wrote' = <<b>> /\ pc' = "close"
         [] ~Preflight /\ rq.route = "found" /\ rq.declared ->
                w' = writeStatusError(w, 413) /\ pc' = "close" /\ UNCHANGED wrote
         [] OTHER -> w' = w /\ pc' = rq.handler /\ UNCHANGED wrote
    /\ UNCHANGED <<rq, left, ctx, body, ops, flushed, failed, line>>

\* The generated handler up to the logic: the media type, the body, the parameters, Validate.
Bind ==
    /\ pc = "typed"
    /\ \/ pc' = "logic" /\ UNCHANGED <<w, body, failed>>
       \/ w' = writeStatusError(w, 415) /\ pc' = "close" /\ Fails("error") /\ UNCHANGED body
       \/ \E b \in {"fine", "over", "timeout", "broken"}, err \in {"toolarge", "notmultipart", "read", "net", "nettimeout", "invalid"} :
            /\ (err = "read") = (b \in {"timeout", "broken"}) /\ (b # "fine" => rq.capped)
            /\ body' = b /\ pc' = "bindfailed" /\ Fails(err) /\ UNCHANGED w
    /\ UNCHANGED <<rq, left, ctx, ops, wrote, flushed, line>>

BindFailed ==
    /\ pc = "bindfailed" /\ w' = WriteValidationError(w, failed.how) /\ pc' = "close"
    /\ UNCHANGED <<rq, left, ctx, body, ops, wrote, flushed, failed, line>>

\* The typed logic returns a response, or one without a body, of which the status alone is written.
Respond ==
    /\ pc = "logic"
    /\ \/ \E n \in {1, MinSize} : /\ wrote' = <<Bytes(n, "text")>>
                                  /\ w' = WriteResponse(w, 201, Bytes(n, "text"))
       \/ \E c \in {202, 204} : w' = WriteHeader(w, c) /\ UNCHANGED wrote
    /\ pc' = "close" /\ UNCHANGED <<rq, left, ctx, body, ops, flushed, failed, line>>

Errors == {"status", "deadline", "canceled", "toolarge", "read", "net", "nettimeout", "other"}

\* The logic, typed or raw, returns an error.
Fail ==
    /\ pc \in {"logic", "raw"}
    /\ \E err \in Errors :
        /\ err = "read" => body \in {"timeout", "broken"}
        /\ w' = WriteError(w, err) /\ Fails(err)
    /\ pc' = "close" /\ UNCHANGED <<rq, left, ctx, body, ops, wrote, flushed, line>>

\* The logic, or a write of it, panics; with http.ErrAbortHandler on purpose.
Panic ==
    /\ pc \in {"logic", "raw"} /\ \E how \in {"panic", "abort"} : Fails(how)
    /\ pc' = "close" /\ UNCHANGED <<rq, left, ctx, w, body, ops, wrote, flushed, line>>

\* A raw handler reads its body, sets a header, or calls its ResponseWriter.
ReadBody ==
    /\ pc = "raw" /\ body = "fine" /\ rq.capped
    /\ body' \in {"over", "timeout", "broken"}
    /\ UNCHANGED <<rq, pc, left, ctx, w, ops, wrote, flushed, failed, line>>

RawStep(x, b) == /\ pc = "raw" /\ ops < MaxOps /\ ops' = ops + 1 /\ w' = x /\ wrote' = wrote \o b
                 /\ UNCHANGED <<rq, pc, left, ctx, body, failed, line>>

\* A handler that declares a length writes no more than that.
Fits(b) == w.hdr.len = noLength \/ Total(Append(wrote, b)) <= w.hdr.len

RawHandler ==
    \/ /\ \/ \E h \in {[noHeaders EXCEPT !.len = n] : n \in {1, MinSize}}
                     \cup {[noHeaders EXCEPT !.type = "image"], [noHeaders EXCEPT !.range = TRUE], [noHeaders EXCEPT !.enc = "br"]} :
             wrote = <<>> /\ ops = 0 /\ RawStep([w EXCEPT !.hdr = h], <<>>)
          \/ \E c \in {103, 200, 204, 206} : RawStep(WriteHeader(w, c), <<>>)
          \/ \E n \in {1, MinSize}, looks \in {"text", "image"} :
             LET b == Bytes(n, looks) IN
             Fits(b) /\ (RawStep(Write(w, b), <<b>>) \/ RawStep(ReadFrom(w, b), <<b>>))
          \/ RawStep(Hijack(w), <<>>)
       /\ UNCHANGED flushed
    \/ RawStep(Flush(w), <<>>) /\ flushed' = Len(wrote)

RawReturn ==
    /\ pc = "raw" /\ pc' = "close"
    /\ w.hdr.len # noLength => Total(wrote) = w.hdr.len
    /\ UNCHANGED <<rq, left, ctx, w, body, ops, wrote, flushed, failed, line>>

Panicked == failed.how \in {"panic", "abort"}

\* The deferred Close of Compress, on a panic too.
CloseWriter ==
    /\ pc = "close" /\ w' = Close(w)
    /\ pc' = IF Panicked \/ rq.skipLog THEN "recover" ELSE "log"
    /\ UNCHANGED <<rq, left, ctx, body, ops, wrote, flushed, failed, line>>

\* What AccessLog records: 499 for a client that left before anything was written.
LoggedStatus == IF w.track["acc"] = 0 /\ left THEN 499 ELSE Status(w, "acc")

AccessLog ==
    /\ pc = "log" /\ line' = LoggedStatus /\ pc' = "recover"
    /\ UNCHANGED <<rq, left, ctx, w, body, ops, wrote, flushed, failed>>

\* The deferred function of recovery; it holds its own trackingWriter alone.
recovery ==
    /\ pc = "recover"
    /\ IF ~Panicked THEN pc' = "done" /\ w' = w
       ELSE IF failed.how = "abort" \/ w.track["rec"] # 0 THEN pc' = "aborted" /\ w' = w
       ELSE pc' = "done" /\ w' = writeStatusError([w EXCEPT !.ts = {"rec"}, !.cw.on = FALSE], 500)
    /\ UNCHANGED <<rq, left, ctx, body, ops, wrote, flushed, failed, line>>

\* The client leaves, or the deadline of timeoutHandler passes, the first of them ending ctx.
Leave ==
    /\ ~left /\ left' = TRUE /\ ctx' = IF ctx = "live" THEN "canceled" ELSE ctx
    /\ UNCHANGED <<rq, pc, w, body, ops, wrote, flushed, failed, line>>

Deadline ==
    /\ rq.timeout /\ ctx = "live" /\ pc \in {"typed", "bindfailed", "logic", "raw"} /\ ctx' = "deadline"
    /\ UNCHANGED <<rq, pc, left, w, body, ops, wrote, flushed, failed, line>>

Next ==
    /\ pc \notin {"done", "aborted"}
    /\ \/ Enter \/ Bind \/ BindFailed \/ Respond \/ Fail \/ Panic \/ ReadBody \/ RawHandler \/ RawReturn
       \/ CloseWriter \/ AccessLog \/ recovery \/ Leave \/ Deadline

Spec == Init /\ [][Next]_vars

-----------------------------------------------------------------------------
\* The variables have their types; the trackers agree on what was committed under them.
TypeOK ==
    /\ rq \in Requests /\ left \in BOOLEAN /\ ctx \in {"live", "canceled", "deadline"}
    /\ pc \in {"enter", "typed", "bindfailed", "logic", "raw", "close", "log", "recover", "done", "aborted"}
    /\ body \in {"fine", "over", "timeout", "broken"} /\ ops \in 0 .. MaxOps /\ line \in 0 .. 999
    /\ w.ts \subseteq {"rec", "acc"} /\ w.wire.status \in 0 .. 999 /\ flushed \in 0 .. Len(wrote)

\* An error's body is the whole response, under an error status: WriteError, WriteValidationError
\* and recovery write nothing into a response that is committed, not even one compressWriter
\* still holds back.
OneAnswer ==
    /\ TypeOK
    /\ (\E i \in DOMAIN w.wire.body : w.wire.body[i].from = "error") =>
        Len(w.wire.body) = 1 /\ w.wire.status >= 400 /\ w.wire.hdr.type = "json"

Answered == pc = "done" /\ ~w.wire.hijacked
HasBody == ~rq.head /\ w.wire.status \notin {204, 304}

\* A handler that returns without an error gets every byte it wrote to the client, once and in
\* order, whether compressWriter buffered, encoded or passed it on; and one that flushes has what
\* it wrote by then on its way, the encoder holding none of it back.
BodyIntact ==
    /\ Answered /\ failed.how = "no" /\ HasBody /\ wrote # <<>> =>
        [i \in DOMAIN w.wire.body |-> [f \in {"from", "n", "looks"} |-> w.wire.body[i][f]]] = wrote
    /\ pc = "raw" /\ ~w.wire.hijacked /\ HasBody => Len(w.wire.body) >= flushed

\* The head describes the body: the coding the chain applied, to all of it or to none, and named
\* only for a body that is whole, has a type and is not of one that is skipped; a length only when
\* it is that of the bytes that follow; and an encoded body has its end, after an error too, with
\* the encoder back in its pool.
HeadFitsBody ==
    /\ Answered /\ w.wire.hdr.enc \in {"gzip", "deflate"} => w.wire.ended /\ w.cw.cmp = "none"
    /\ Answered /\ (failed.how = "no" \/ ~failed.committed) =>
        LET h == w.wire.hdr IN
        /\ \A i \in DOMAIN w.wire.body : w.wire.body[i].enc = IF h.enc = "br" THEN "none" ELSE h.enc
        /\ h.enc \in {"gzip", "deflate"} => h.len = noLength /\ ~h.range /\ h.type \notin {"none", "image"} /\ w.wire.status # 206
        /\ h.len # noLength /\ HasBody => h.len = Total(w.wire.body)

\* A request that fails before its response is committed is answered with an error status and
\* its body, unless its own context was canceled.
FailureAnswered ==
    Answered /\ failed.how # "no" /\ ~failed.committed =>
        \/ failed.gone /\ failed.how \in {"deadline", "canceled"} /\ w.wire.status = 0
        \/ w.wire.status >= 400 /\ (rq.head \/ Total(w.wire.body) = ErrorBody.n)

\* The access line has the status the client got: 101 for a connection that was taken over and
\* 499 when the client left with nothing sent.
LogTellsTruth ==
    line # 0 =>
        CASE line = 499 -> left /\ w.wire.status = 0
          [] w.wire.status # 0 -> line = w.wire.status
          [] OTHER -> line = IF w.wire.hijacked THEN 101 ELSE 200
=============================================================================
