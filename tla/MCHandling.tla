----------------------------- MODULE MCHandling -----------------------------
(***************************************************************************)
(* What one request or one message goes through, for TLC: six machines     *)
(* side by side, the decoding of a JSON body (BodyDecode), the limits of a *)
(* multipart one (Multipart), the HTTP chain (HttpRequest), the assembly   *)
(* of a bus (Bus), a message from publish to handler (EventWire) and the   *)
(* chain a delivery runs through (HandlerChain).  An execution is of one   *)
(* machine, the others rest in an initial state, so the states add up and  *)
(* do not multiply.                                                        *)
(***************************************************************************)
EXTENDS BodyDecode

CONSTANTS
    maxPartHeader, Pieces,                                      \* Multipart
    MinSize, Window, MaxOps,                                    \* HttpRequest
    Goroutines, HasSubscriber, CanBatch, CanRequired, MaxUses,  \* Bus
    N, MaxDepth, Recovers, Escaped, MaxCalls                    \* HandlerChain

VARIABLES
    machine,    \* the machine that runs
    form_form, form_at, form_l,
    rq_rq, rq_pc, rq_left, rq_ctx, rq_w, rq_body, rq_ops, rq_wrote, rq_flushed, rq_failed, rq_line,
    bus_subs, bus_claimed, bus_chain, bus_started, bus_starting, bus_refused, bus_handed,
    wire_bus, wire_codecs, wire_results, wire_wire, wire_seen,
    frame_frame, frame_way, frame_disp, frame_by, frame_err, frame_unwound, frame_calls, frame_errs,
    frame_items, frame_failed, frame_returned

formVars ==
    <<form_form, form_at, form_l>>
requestVars ==
    <<rq_rq, rq_pc, rq_left, rq_ctx, rq_w, rq_body, rq_ops, rq_wrote, rq_flushed, rq_failed, rq_line>>
busVars ==
    <<bus_subs, bus_claimed, bus_chain, bus_started, bus_starting, bus_refused, bus_handed>>
wireVars ==
    <<wire_bus, wire_codecs, wire_results, wire_wire, wire_seen>>
frameVars ==
    <<frame_frame, frame_way, frame_disp, frame_by, frame_err, frame_unwound, frame_calls,
      frame_errs, frame_items, frame_failed, frame_returned>>

-----------------------------------------------------------------------------
(* Bodies: types that embed, nest and repeat names, and the bodies that    *)
(* hold one or two values of theirs that decode or not.                    *)

Plain(k) == [kind |-> k]
F(go, tag, t) == [go |-> go, tag |-> tag, type |-> t, anon |-> FALSE, exported |-> TRUE, dash |-> FALSE]
Embed(go, t) == [F(go, <<>>, t) EXCEPT !.anon = TRUE]
Struct(name, fields) == [kind |-> "struct", name |-> name, fields |-> fields]

\* Audit is embedded beside a key of its name; Deep embeds Audit through Mid; Node holds itself;
\* Twice reaches a name at one depth by two ways, one of them tagged.
MCTypes == [
    int |-> Plain("int"), string |-> Plain("string"), time |-> Plain("time"), text |-> Plain("text"),
    bytes |-> Plain("bytes"), raw |-> Plain("raw"),
    times |-> [kind |-> "list", elem |-> "time"],
    byDay |-> [kind |-> "map", elem |-> "time", key |-> "string"],
    byId |-> [kind |-> "map", elem |-> "int", key |-> "int"],
    Inner |-> Struct("Inner", <<F("N", <<"n">>, "int"), F("Data", <<"data">>, "bytes")>>),
    inners |-> [kind |-> "list", elem |-> "Inner"],
    byHost |-> [kind |-> "map", elem |-> "Inner", key |-> "string"],
    Audit |-> Struct("Audit", <<F("By", <<"by">>, "string"), F("At", <<"at">>, "time")>>),
    Prev |-> Struct("", <<F("By", <<"by">>, "string")>>),
    Clash |-> Struct("Clash", <<F("Prev", <<"Audit">>, "Prev"), Embed("Audit", "Audit")>>),
    Mid |-> Struct("Mid", <<Embed("Audit", "Audit"), F("K", <<"k">>, "int")>>),
    Deep |-> Struct("Deep", <<Embed("Mid", "Mid"), F("By", <<"by">>, "int"), F("In", <<"c", "d">>, "Mid")>>),
    One |-> Struct("One", <<F("Tagged", <<"X">>, "time")>>),
    Two |-> Struct("Two", <<F("X", <<>>, "string"), F("Y", <<>>, "string")>>),
    Three |-> Struct("Three", <<F("Y", <<>>, "time"), F("Z", <<>>, "time")>>),
    Twice |-> Struct("Twice", <<Embed("One", "One"), Embed("Two", "Two"), Embed("Three", "Three")>>),
    Node |-> Struct("Node", <<F("Child", <<"c">>, "Node"), F("V", <<"v">>, "int"), F("At", <<"at">>, "time")>>),
    NullTime |-> [kind |-> "nullable", elem |-> "time"],
    NullInner |-> [kind |-> "nullable", elem |-> "Inner"],
    Patch |-> Struct("Patch", <<F("When", <<"when">>, "NullTime"), F("In", <<"in">>, "NullInner"), F("At", <<"at">>, "time")>>),
    Order |-> Struct("Order", <<F("Days", <<"days">>, "byDay"), F("Ids", <<"ids">>, "byId"),
                               F("Items", <<"items">>, "inners"), F("Level", <<"level">>, "text"), F("Raw", <<"raw">>, "raw")>>),
    Hosts |-> Struct("Hosts", <<F("Hosts", <<"a/b">>, "byHost")>>)]

MCLower == [AT |-> "at"]
MCEscape == [x \in {"a/b"} |-> "a~1b"]

Num == [k |-> "num"]
Str(s) == [k |-> "str", s |-> s]
Obj(m) == [k |-> "obj", m |-> m]
Arr(e) == [k |-> "arr", e |-> e]
Member(key, v) == [key |-> key, v |-> v]

\* The body has two members at most, a value in it one.
UpTo(S, n) == {<<x>> : x \in S} \cup (IF n = 2 THEN {<<x, y>> : x, y \in S} ELSE {})

\* The keys of a struct's members: those of its fields, one in another case, one of no field.
RECURSIVE Values(_, _, _)
FieldValues(way, d) == IF way = <<>> THEN {Num} ELSE Values(Last(way[1]).type, d, 1)
KeysOf(t) ==
    {JsonName(Last(p)) : p \in AllWays[t]} \cup (IF Kind(t) = "struct" THEN {<<"AT">>, <<"zz">>} ELSE {})
Values(t, d, n) ==
    CASE Kind(t) \in {"int", "string"} -> {Num, Str("good")}
      [] Kind(t) \in {"time", "bytes"} -> {Num, Str("good"), Str("bad"), Str("worse"), [k |-> "null"]}
      [] Kind(t) = "text" -> {Num, Str("good"), Str("bad")}
      [] Kind(t) = "raw" -> {Obj(<<Member(<<"at">>, Num)>>)}
      [] Kind(t) = "nullable" -> Values(Types[t].elem, d, n) \cup {[k |-> "null"]}
      [] d = 0 -> {Num}
      [] Kind(t) = "list" -> {Num} \cup {Arr(e) : e \in UpTo(Values(Types[t].elem, d - 1, 1), n)}
      [] Kind(t) = "map" ->
             {Num} \cup {Obj(m) : m \in UpTo({Member(key, v) : key \in {<<"0">>, <<"h", "c">>}, v \in Values(Types[t].elem, d - 1, 1)}, n)}
      [] Kind(t) = "struct" ->
             {Num} \cup {Obj(m) : m \in UpTo(UNION {{Member(key, v) :
                 v \in FieldValues(Taken(t, key), d - 1)} : key \in KeysOf(t)}, n)}

Depth == [Order |-> 2, Hosts |-> 3, Patch |-> 2, Clash |-> 2, Deep |-> 2, Twice |-> 1, Node |-> 2, times |-> 1]

Rests == {<<>>, <<"space", "space", "space">>, <<"space", "data">>}
MCBodies ==
    UNION {{[type |-> t, v |-> v, rest |-> <<>>, ends |-> "whole"] : v \in Values(t, Depth[t], 2)} : t \in DOMAIN Depth}
    \cup {[type |-> "Clash", v |-> v, rest |-> r, ends |-> e] :
             v \in Values("Clash", 1, 1), r \in Rests, e \in {"whole", "failed read", "early", "empty"}}

MCEngines == {[path |-> "v1", rule |-> "fatal"], [path |-> "v2", rule |-> "fatal"], [path |-> "v2", rule |-> "first"]}

-----------------------------------------------------------------------------
(* Forms. *)

Part(name, content) == [name |-> name, content |-> content, header |-> <<>>, blank |-> <<>>]

\* Contents of any mix, the boundary inside a line, and after a newline with more behind it.
Contents ==
    UNION {[1 .. n -> {"x", "n", "r", "-"}] : n \in 0 .. 3}
    \cup {<<"x", "x", "x", "x">>, <<"-", "-", "b", "x">>, <<"n", "-", "-", "b", "x">>, <<"r", "n", "-", "-", "x", "x", "x", "x">>}

Form(crlf, preamble, parts) == [crlf |-> crlf, preamble |-> preamble, parts |-> parts]

Forms ==
    {Form(c, <<>>, <<Part("A", t)>>) : c \in BOOLEAN, t \in Contents}
    \cup {Form(c, <<>>, <<Part("B", t), Part("A", <<"x", "r">>)>>) : c \in BOOLEAN, t \in Contents}
    \cup {Form(c, <<"x", "n">>, <<[Part("C", <<>>) EXCEPT !.blank = <<" ">>], Part("A", t)>>) :
              c \in BOOLEAN, t \in {<<"x", "x">>, <<"x", "x", "x">>}}
    \cup {Form(TRUE, <<>>, <<[Part("C", <<>>) EXCEPT !.header = [i \in 1 .. 14 |-> "x"]], Part("A", <<"x", "x", "x">>)>>)}

Limits == [n \in {"A", "B"} |-> IF n = "A" THEN 2 ELSE 3]

Parts == INSTANCE Multipart WITH
    limits <- Limits, form <- form_form, at <- form_at, l <- form_l

-----------------------------------------------------------------------------
(* Requests. *)

Coding(c, z) == [coding |-> c, refused |-> z]

PlainRequest == [handler |-> "raw", head |-> FALSE, compress |-> TRUE, accept |-> <<Coding("gzip", FALSE)>>,
          origin |-> <<>>, allowed |-> <<>>, options |-> FALSE, route |-> "found", declared |-> FALSE,
          capped |-> FALSE, timeout |-> FALSE, skipLog |-> FALSE]

\* Origins, in the pieces the wildcard rules tell apart.
Site == <<"https://", "a.", "example.com">>
Other == <<"https://", "example.org">>

\* The raw handler in full behind Compress and without it, the typed one with limits, and the
\* requests the chain answers before the handler.
Requests ==
    {[PlainRequest EXCEPT !.compress = c, !.head = h] : c, h \in BOOLEAN}
    \cup {[PlainRequest EXCEPT !.handler = "typed", !.capped = TRUE, !.timeout = TRUE, !.accept = a, !.skipLog = k] :
            a \in {<<>>, <<Coding("br", FALSE), Coding("gzip", TRUE), Coding("deflate", FALSE)>>}, k \in BOOLEAN}
    \cup {[PlainRequest EXCEPT !.origin = Site, !.options = TRUE, !.allowed = r, !.route = "missing"] :
            r \in {<<Other>>, <<Other, Site>>, << <<"*">> >>, << <<"https://", "*", "example.com">> >>,
                  << <<"https://", "a.", "*", "a.", "example.com">> >>}}
    \cup {[PlainRequest EXCEPT !.route = "redirect", !.head = h] : h \in BOOLEAN}
    \cup {[PlainRequest EXCEPT !.route = "method", !.head = h] : h \in BOOLEAN}
    \cup {[PlainRequest EXCEPT !.declared = TRUE, !.timeout = TRUE]}

Request == INSTANCE HttpRequest WITH
    rq <- rq_rq, pc <- rq_pc, left <- rq_left, ctx <- rq_ctx, w <- rq_w, body <- rq_body, ops <-
    rq_ops, wrote <- rq_wrote, flushed <- rq_flushed, failed <- rq_failed, line <- rq_line

-----------------------------------------------------------------------------
(* Subscriptions. *)

Single(e, c, g) ==
    [event |-> e, consumer |-> c, group |-> g, handle |-> {"single"}, batch |-> FALSE, max |-> 0, wait |-> 0]
Batches(e, g, n) ==
    [event |-> e, consumer |-> e, group |-> g, handle |-> {"batch"}, batch |-> TRUE, max |-> n, wait |-> 1]

\* Two contracts in two groups, one of them in a batch too; and one subscription of each kind
\* that is refused for itself.
Mixed ==
    {Single(1, 1, 1), Single(1, 2, 1), Single(2, 2, 1), Single(1, 1, 2), Batches(1, 1, 2), Batches(2, 2, 2),
     Batches(2, 1, 0), Single(1, 1, 0), Single(3, 3, 1), [Single(2, 2, 2) EXCEPT !.handle = {}]}

Assembly == INSTANCE Bus WITH
    Subscriptions <- Mixed, Codecs <- {1, 2}, subs <- bus_subs, claimed <- bus_claimed, chain <-
    bus_chain, started <- bus_started, starting <- bus_starting, refused <- bus_refused, handed <-
    bus_handed

-----------------------------------------------------------------------------
(* Publish calls. *)

Lowered(word) == [word |-> word, upper |-> FALSE]
Titled(word) == [word |-> word, upper |-> TRUE]
SetKey(v) == [sets |-> "key", v |-> v]
Dedup(v) == [sets |-> "dedup", v |-> v]
Header(k, v) == [sets |-> "header", k |-> k, v |-> v]
AdapterOption(a, k, v) == [sets |-> "option", adapter |-> a, k |-> k, v |-> v]

Json == [name |-> <<"j">>]
Wide == [name |-> <<"w", " ">>]
Table(all, per) == [all |-> all, per |-> per]
Tables == {Table(Json, <<>>), Table([name |-> <<>>], [e \in {"b"} |-> Json]), Table(Json, [e \in {"a"} |-> Wide])}

Trace == Lowered("trace")

Defaults == {
    <<>>,
    <<SetKey(<<"k">>), Header(Trace, <<"d">>)>>,
    <<Dedup(<<"i">>), [sets |-> "nothing"], Header(Titled("trace"), <<"d">>), AdapterOption("nats", "timestamp", "time")>>}

Buses == {[via |-> v, defaults |-> d, codecs |-> t] : v \in {"memory", "nats", "kafka", "other"}, d \in Defaults, t \in Tables}

Options == {
    <<>>,
    <<SetKey(<<>>), Dedup(<<>>)>>,
    <<SetKey(<<"x", " ">>), SetKey(<<"y">>)>>,
    <<SetKey(<<"y">>), SetKey(<<"x", " ">>)>>,
    <<Dedup(<<"x", "\n", "y">>)>>,
    <<Header(Trace, <<"t">>), Header(Titled("trace"), <<>>)>>,
    <<Header(Trace, <<" ">>)>>,
    <<Header(Lowered("my tag"), <<"t">>)>>,
    <<Header(Titled("content-codec"), <<"t">>), Header(Lowered("content-codec"), <<"t", " ">>)>>,
    <<Header(Titled("craftgo-key"), <<"t">>), Header(Lowered("craftgo-key"), <<"t">>), Header(Titled("nats-msg-id"), <<"t", " ">>)>>,
    <<AdapterOption("kafka", "timestamp", "time")>>,
    <<AdapterOption("kafka", "timestamp", "text")>>,
    <<AdapterOption("memory", "ttl", "text")>>}

Item(e, p, o) == [event |-> e, payload |-> p, opts |-> o]

Calls ==
    {[batch |-> b, items |-> <<Item(e, "p", o)>>] : b \in BOOLEAN, e \in {"a", "b"}, o \in Options}
    \cup {[batch |-> b, items |-> <<Item("a", p, <<>>)>>] : b \in BOOLEAN, p \in {"channel", "invalid"}}
    \cup {[batch |-> TRUE, items |-> <<Item("a", "p", <<>>), Item(e, "q", o)>>] : e \in {"", "a"}, o \in Options}

Wire == INSTANCE EventWire WITH
    Codecs <- Tables, MaxCalls <- 1, bus <- wire_bus, codecs <- wire_codecs, results <-
    wire_results, wire <- wire_wire, seen <- wire_seen

Chain == INSTANCE HandlerChain WITH
    Depth <- MaxDepth, frame <- frame_frame, way <- frame_way, disp <- frame_disp, by <- frame_by,
    err <- frame_err, unwound <- frame_unwound, calls <- frame_calls, errs <- frame_errs, items <-
    frame_items, failed <- frame_failed, returned <- frame_returned

ASSUME InstanceConstants ==
    /\ Request!BoundsAssumption /\ Assembly!SubscriptionsAssumption /\ Assembly!FlagsAssumption
    /\ Chain!DepthAssumption /\ Chain!EscapedAssumption /\ Chain!BoundAssumption

-----------------------------------------------------------------------------
all == <<machine, vars, formVars, requestVars, busVars, wireVars, frameVars>>

\* A machine at rest has one initial state.
AnyInit ==
    /\ machine \in {"body", "form", "request", "bus", "wire", "frame"}
    /\ machine # "body" =>
          body = (CHOOSE b \in MCBodies : TRUE) /\ engine = (CHOOSE e \in MCEngines : TRUE) /\ strict = TRUE
    /\ machine # "form" => form_form = CHOOSE f \in Forms : TRUE
    /\ machine # "request" => rq_rq = CHOOSE r \in Requests : TRUE
    /\ machine # "wire" => wire_bus = (CHOOSE b \in Buses : TRUE) /\ wire_codecs = (CHOOSE t \in Tables : TRUE)
    /\ Init /\ Parts!Init /\ Request!Init /\ Assembly!Init /\ Wire!Init /\ Chain!Init

AnyNext ==
    \/ machine = "body" /\ Next
       /\ UNCHANGED <<machine, formVars, requestVars, busVars, wireVars, frameVars>>
    \/ machine = "form" /\ Parts!Next
       /\ UNCHANGED <<machine, vars, requestVars, busVars, wireVars, frameVars>>
    \/ machine = "request" /\ Request!Next
       /\ UNCHANGED <<machine, vars, formVars, busVars, wireVars, frameVars>>
    \/ machine = "bus" /\ Assembly!Next
       /\ UNCHANGED <<machine, vars, formVars, requestVars, wireVars, frameVars>>
    \/ machine = "wire" /\ Wire!Next
       /\ UNCHANGED <<machine, vars, formVars, requestVars, busVars, frameVars>>
    \/ machine = "frame" /\ Chain!Next
       /\ UNCHANGED <<machine, vars, formVars, requestVars, busVars, wireVars>>

AnySpec == AnyInit /\ [][AnyNext]_all
-----------------------------------------------------------------------------
\* A body that does not decode is answered with the JSON names of the fields down to the value
\* the decoder refused, and no other value's (wirePath, refusedValue, decodeFailure); a strict
\* decode takes a body only if every member has a field and nothing but space follows the value
\* (DecodeStrict, TrailingData).
BodyRead == machine = "body" => NamesTheValue /\ StrictTakesOne

\* However the body is cut into reads, a form is refused exactly when one of its parts is larger
\* than the limit of its name, and that part is held to it (partLimiter.Read, weigh).
FormHeld == machine = "form" => Parts!PartsHeldToLimits

\* A request gets one answer: an error's body is all of the response or none of it, a handler's
\* bytes reach the client once and in order, a failure before the head is sent is answered, and the
\* head and the access line tell the coding, the length and the status of what went out (WriteError,
\* recovery, compressWriter, AccessLog).
RequestAnswered ==
    machine = "request" =>
        /\ Request!OneAnswer /\ Request!BodyIntact /\ Request!FailureAnswered
        /\ Request!HeadFitsBody /\ Request!LogTellsTruth

\* A bus hands the transport everything registered and the whole chain, once, however Register,
\* Use and Start interleave; no contract is twice in a group, a batch group is one contract's, and
\* a refusal names its reason (Register, sharesBatchGroup, Start, Plan).
BusHandsAll ==
    machine = "bus" =>
        Assembly!GroupsSound /\ Assembly!RefusalExact /\ Assembly!HandedExact /\ Assembly!PlanGroupsOnce

\* A delivered message is the one its publish asked for, with the call's settings over the
\* defaults', and a publish fails before anything is sent exactly when some message of it cannot
\* be carried as written (withDefaults, encode, decode, carried, Bus.Decode).
MessageAsAsked == machine = "wire" => Wire!ArrivesAsAsked /\ Wire!RefusedWithCause

\* The transport never answers a message with what a frame asked for that a panic unwound later,
\* and a panic that leaves the chain asks for redelivery of every message (recoverHandler,
\* recoverBatch, decorated).
AsksKept == machine = "frame" => Chain!AsksKept

\* The adapter answers each message for its own failure and no other's, even when messages left
\* out of the function's batch shift the indices (BatchHandler, failItems, itemErr).
Attributed == machine = "frame" => Chain!Attributed
=============================================================================
