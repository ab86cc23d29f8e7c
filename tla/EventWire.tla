------------------------------ MODULE EventWire ------------------------------
(***************************************************************************)
(* What a publish carries to its consumer: the options and envelopes of    *)
(* pkg/events/publish.go over the bus's defaults, the message encode makes *)
(* of them, the wire format of the memory, NATS and Kafka transports, and  *)
(* the decoding before a typed handler runs (event.go).                    *)
(*                                                                         *)
(* A header name is a word and whether it is written in the case of an     *)
(* HTTP header; a header value is a sequence of letters, blanks and line   *)
(* breaks, the empty sequence being the empty string.                      *)
(***************************************************************************)
EXTENDS Naturals, Sequences, FiniteSets, SequencesExt

CONSTANTS
    Buses,      \* the publishing buses: their transport, defaults and codecs
    Codecs,     \* the codec tables the consuming bus may have
    Calls,      \* the publish calls
    MaxCalls    \* the calls of one behaviour

VARIABLES
    bus,        \* the publishing bus
    codecs,     \* the codecs of the consuming bus
    results,    \* what each call returned
    wire,       \* the messages on their way, each with the request it came from
    seen        \* the deliveries: the request, the message and what the handler was given

vars == <<bus, codecs, results, wire, seen>>

None == <<>>
Name(word) == [word |-> word, upper |-> FALSE]
Titled(word) == [word |-> word, upper |-> TRUE]

MetaCodec == Name("content-codec")

\* The words under MetaPrefix, "craftgo-".
Prefixed == {"craftgo-event", "craftgo-key", "craftgo-dedup-id", "craftgo-mark"}

Set(f, k, v) == [x \in DOMAIN f \cup {k} |-> IF x = k THEN v ELSE f[x]]
Over(f, g) == [x \in DOMAIN f \cup DOMAIN g |-> IF x \in DOMAIN f THEN f[x] ELSE g[x]]
Only(f, S) == [x \in DOMAIN f \cap S |-> f[x]]

-----------------------------------------------------------------------------
(* The options and the envelope.                                           *)

NewEnvelope(event, payload) ==
    [event |-> event, payload |-> payload, key |-> None, dedup |-> None, meta |-> None, options |-> None]

\* WithKey, WithDedupID, WithHeader and WithAdapterOption.
WithKey(env, o) == [env EXCEPT !.key = o.v]
WithDedupID(env, o) == [env EXCEPT !.dedup = o.v]
WithHeader(env, o) == [env EXCEPT !.meta = Set(@, o.k, o.v)]
WithAdapterOption(env, o) == [env EXCEPT !.options = Set(@, <<o.adapter, o.k>>, o.v)]

PublishOption(env, o) ==
    CASE o.sets = "key" -> WithKey(env, o)
      [] o.sets = "dedup" -> WithDedupID(env, o)
      [] o.sets = "header" -> WithHeader(env, o)
      [] o.sets = "option" -> WithAdapterOption(env, o)
      [] o.sets = "nothing" -> env

\* Apply applies opts in order, a nil one being passed over.
Apply(env, opts) == FoldLeft(PublishOption, env, opts)

JoinOptions(defaults, opts) == defaults \o opts

\* Faulty: the envelope's metadata replaces the defaults' instead of being laid over it.
WithDefaults_replace(b, env) ==
    LET out == Apply(NewEnvelope(env.event, env.payload), b.defaults)
    IN  [out EXCEPT !.key = IF env.key # None THEN env.key ELSE @,
                    !.dedup = IF env.dedup # None THEN env.dedup ELSE @,
                    !.meta = IF env.meta # None THEN env.meta ELSE @,
                    !.options = Over(env.options, @)]

\* withDefaults layers an envelope of PublishAll over the defaults: a value it carries wins.
WithDefaults(b, env) ==
    LET out == Apply(NewEnvelope(env.event, env.payload), b.defaults)
    IN  [out EXCEPT !.key = IF env.key # None THEN env.key ELSE @,
                    !.dedup = IF env.dedup # None THEN env.dedup ELSE @,
                    !.meta = Over(env.meta, @),
                    !.options = Over(env.options, @)]

\* Each adapter's name and the options it reads; a transport that is not OptionAware has none.
OptionAware(b) == b.via # "other"
KnownOptions(b) == IF b.via = "kafka" THEN {"timestamp"} ELSE {}

\* checkAdapterOptions refuses an option addressed to the bus's adapter that it does not read.
CheckAdapterOptions(b, env) ==
    OptionAware(b) => \A o \in DOMAIN env.options : o[1] = b.via => o[2] \in KnownOptions(b)

-----------------------------------------------------------------------------
(* The message.                                                            *)

\* Case is ignored; both the codec's key and every key under the prefix are the bus's own.
IsReservedMeta(k) == k.word = MetaCodec.word \/ k.word \in Prefixed

NoCodec == [name |-> None]

\* The codec a table has for a contract: its own, or the bus's, or none.
CodecFor(table, event) ==
    IF event \in DOMAIN table.per /\ table.per[event] # NoCodec THEN table.per[event] ELSE table.all

\* A codec's bytes are the value and the encoding; a channel has none.
Marshals(payload) == payload # "channel"
Marshal(codec, payload) == [in |-> codec.name, value |-> payload]
Unmarshals(codec, data) == data.in = codec.name

\* encode builds the message of an envelope, or says why there is none.
Encode(b, env) ==
    LET codec == CodecFor(b.codecs, env.event)
        own == Only(env.meta, {k \in DOMAIN env.meta : ~IsReservedMeta(k)})
        refused(why) == [err |-> why]
    IN  IF ~CheckAdapterOptions(b, env) THEN refused("option")
        ELSE IF codec = NoCodec THEN refused("codec")
        ELSE IF ~Marshals(env.payload) THEN refused("payload")
        ELSE [err |-> "", event |-> env.event, key |-> env.key, dedup |-> env.dedup,
              data |-> Marshal(codec, env.payload), options |-> env.options,
              meta |-> Set(own, MetaCodec, codec.name)]

-----------------------------------------------------------------------------
(* NATS: a message is its headers and its data, on the subject of its      *)
(* contract.                                                               *)

NatsKey == Titled("craftgo-key")
NatsDedupID == Titled("nats-msg-id")

Blank == {" ", "\t"}

\* Faulty: only the front of a value is looked at.
Changed_front(v) == v # None /\ (v[1] \in Blank \/ \E i \in DOMAIN v : v[i] \in {"\r", "\n"})

\* changed: what nats.go would not carry as it is.
Changed(v) ==
    \/ \E i \in DOMAIN v : v[i] \in {"\r", "\n"}
    \/ v # None /\ (v[1] \in Blank \/ v[Len(v)] \in Blank)

\* headerName: printable ASCII without blanks; "my tag" stands for a name that is not.
HeaderName(k) == k.word \notin {"", "my tag"}

\* carried: what is refused before anything is sent.
Carried(msg) ==
    /\ ~Changed(msg.key) /\ ~Changed(msg.dedup)
    /\ \A k \in DOMAIN msg.meta \ {NatsKey, NatsDedupID} : HeaderName(k) /\ ~Changed(msg.meta[k])

EncodeTo(msg) ==
    LET meta == Only(msg.meta, DOMAIN msg.meta \ {NatsKey, NatsDedupID})
        keyed == IF msg.key # None THEN Set(meta, NatsKey, msg.key) ELSE meta
    IN  [header |-> IF msg.dedup # None THEN Set(keyed, NatsDedupID, msg.dedup) ELSE keyed,
         data |-> msg.data]

\* nats.go on the wire: a line break becomes a space, and the blanks around a value are lost.
RECURSIVE Trim(_)
Trim(v) ==
    IF v = None THEN v
    ELSE IF v[1] \in Blank THEN Trim(Tail(v))
    ELSE IF v[Len(v)] \in Blank THEN Trim(Front(v))
    ELSE v

Sent(v) == Trim([i \in DOMAIN v |-> IF v[i] \in {"\r", "\n"} THEN " " ELSE v[i]])

NatsWire(m) == [m EXCEPT !.header = [k \in DOMAIN @ |-> Sent(@[k])]]

\* decodeFrom is the reverse, the contract being the subscription's.
DecodeFrom(contract, m) ==
    LET get(k) == IF k \in DOMAIN m.header THEN m.header[k] ELSE None
    IN  [event |-> contract, key |-> get(NatsKey), dedup |-> get(NatsDedupID), data |-> m.data,
         meta |-> Only(m.header, DOMAIN m.header \ {NatsKey, NatsDedupID})]

-----------------------------------------------------------------------------
(* Kafka: a record's headers are a sequence, the metadata in the order Go  *)
(* ranges over the map.                                                    *)

KafkaEvent == Name("craftgo-event")
KafkaKey == Name("craftgo-key")
KafkaDedupID == Name("craftgo-dedup-id")

Orders(S) == {s \in [1 .. Cardinality(S) -> S] : \A i, j \in DOMAIN s : s[i] = s[j] => i = j}

\* The option OptionTimestamp is a time, or encode fails.
TimestampOK(msg) == <<"kafka", "timestamp">> \in DOMAIN msg.options => msg.options[<<"kafka", "timestamp">>] = "time"

KafkaEncode(msg, order) ==
    LET header(k, v) == [k |-> k, v |-> v]
        own == <<header(KafkaEvent, msg.event)>>
               \o (IF msg.key # None THEN <<header(KafkaKey, msg.key)>> ELSE <<>>)
               \o (IF msg.dedup # None THEN <<header(KafkaDedupID, msg.dedup)>> ELSE <<>>)
        rest == SelectSeq(order, LAMBDA k : k \notin {KafkaEvent, KafkaKey, KafkaDedupID})
    IN  [key |-> msg.key, data |-> msg.data,
         headers |-> own \o [i \in DOMAIN rest |-> header(rest[i], msg.meta[rest[i]])]]

KafkaHeader(m, h) ==
    CASE h.k = KafkaEvent -> [m EXCEPT !.event = h.v]
      [] h.k = KafkaKey -> [m EXCEPT !.key = h.v]
      [] h.k = KafkaDedupID -> [m EXCEPT !.dedup = h.v]
      [] OTHER -> [m EXCEPT !.meta = Set(@, h.k, h.v)]

\* decode reads the headers in turn; the contract is the subscription's without one.
KafkaDecode(contract, rec) ==
    FoldLeft(KafkaHeader,
             [event |-> contract, key |-> rec.key, dedup |-> None, data |-> rec.data, meta |-> None],
             rec.headers)

-----------------------------------------------------------------------------
(* The calls.                                                              *)

\* A batch call is PublishAll over envelopes, any other is Publish.
EnvelopeOf(b, call, r) ==
    IF call.batch THEN WithDefaults(b, Apply(NewEnvelope(r.event, r.payload), r.opts))
    ELSE Apply(NewEnvelope(r.event, r.payload), JoinOptions(b.defaults, r.opts))

\* What encode, then the transport, refuses a request for.
Refusal(b, call, r) ==
    LET msg == Encode(b, EnvelopeOf(b, call, r))
    IN  IF call.batch /\ r.event = "" THEN "contract"
        ELSE IF msg.err # "" THEN msg.err
        ELSE IF b.via = "nats" /\ ~Carried(msg) THEN "carry"
        ELSE IF b.via = "kafka" /\ ~TimestampOK(msg) THEN "timestamp"
        ELSE ""

\* The message as the transport hands it to a subscription of its contract.
Arrivals(b, call, r) ==
    LET msg == Encode(b, EnvelopeOf(b, call, r))
    IN  CASE b.via = "nats" -> {DecodeFrom(msg.event, NatsWire(EncodeTo(msg)))}
          [] b.via = "kafka" -> {KafkaDecode(msg.event, KafkaEncode(msg, o)) : o \in Orders(DOMAIN msg.meta)}
          [] OTHER -> {Only(msg, {"event", "key", "dedup", "data", "meta"})}

Init ==
    /\ bus \in Buses /\ codecs \in Codecs
    /\ results = <<>> /\ wire = {} /\ seen = {}

\* Event.Publish refuses a payload that is not valid; a batch is refused as a whole, before
\* anything is sent, for its first envelope that cannot be carried.
Publish ==
    /\ Len(results) < MaxCalls
    /\ \E c \in Calls :
           LET why(i) == IF ~c.batch /\ c.items[i].payload = "invalid" THEN "invalid"
                         ELSE Refusal(bus, c, c.items[i])
               refused == {i \in DOMAIN c.items : why(i) # ""}
               n == Len(results) + 1
           IN  IF refused # {}
               THEN /\ results' = Append(results, [call |-> c, err |-> why(CHOOSE i \in refused : \A j \in refused : i <= j)])
                    /\ UNCHANGED wire
               ELSE /\ results' = Append(results, [call |-> c, err |-> ""])
                    /\ \E f \in [DOMAIN c.items -> UNION {Arrivals(bus, c, c.items[i]) : i \in DOMAIN c.items}] :
                           /\ \A i \in DOMAIN f : f[i] \in Arrivals(bus, c, c.items[i])
                           /\ wire' = wire \cup {[of |-> <<n, i>>, msg |-> f[i]] : i \in DOMAIN c.items}
    /\ UNCHANGED <<bus, codecs, seen>>

\* Bus.Decode: a message stamped with another codec is refused, and one the codec cannot read.
Decode(msg) ==
    LET codec == CodecFor(codecs, msg.event)
        stamp == IF MetaCodec \in DOMAIN msg.meta THEN msg.meta[MetaCodec] ELSE None
    IN  IF codec = NoCodec THEN "no codec"
        ELSE IF stamp # None /\ stamp # codec.name THEN "mismatch"
        ELSE IF ~Unmarshals(codec, msg.data) THEN "undecodable"
        ELSE ""

\* Event.Handler decodes and validates before the function runs.
Handled(msg) ==
    IF Decode(msg) # "" THEN Decode(msg)
    ELSE IF msg.data.value = "invalid" THEN "invalid"
    ELSE "handled"

Deliver ==
    \E d \in wire :
        /\ wire' = wire \ {d}
        /\ seen' = seen \cup {[of |-> d.of, msg |-> d.msg, end |-> Handled(d.msg)]}
        /\ UNCHANGED <<bus, codecs, results>>

Next == Publish \/ Deliver

Spec == Init /\ [][Next]_vars

-----------------------------------------------------------------------------
(* What was asked of a request, said without the code: of the settings of  *)
(* the defaults and then of the call, the last of each value counts, and   *)
(* an envelope's empty value sets nothing.                                 *)

Settings(call, r) ==
    bus.defaults \o SelectSeq(r.opts, LAMBDA o : ~(call.batch /\ o.sets \in {"key", "dedup"} /\ o.v = None))

LastOf(settings, P(_)) ==
    LET at == {i \in DOMAIN settings : P(settings[i])}
    IN  IF at = {} THEN None ELSE settings[CHOOSE i \in at : \A j \in at : j <= i].v

Asked(call, r) ==
    LET all == Settings(call, r)
        headers == {all[i].k : i \in {i \in DOMAIN all : all[i].sets = "header"}}
        lost == IF bus.via = "nats" THEN {NatsDedupID} ELSE {}
    IN  [event |-> r.event,
         key |-> LastOf(all, LAMBDA o : o.sets = "key"),
         dedup |-> LastOf(all, LAMBDA o : o.sets = "dedup"),
         meta |-> [k \in {k \in headers : ~IsReservedMeta(k)} \ lost |->
                      LastOf(all, LAMBDA o : o.sets = "header" /\ o.k = k)]]

Request(of) == results[of[1]].call.items[of[2]]

\* A delivered message has the contract, key, dedup ID and metadata its publish asked for: the
\* last setting of each, the call's over the defaults', but for the reserved names; NATS keeps
\* its own dedup header (withDefaults, encode, encodeTo, decodeFrom, Kafka's encode and decode).
\* The handler's function runs on the very payload published, and only where the consumer's
\* codec is the publisher's (Bus.Decode).
ArrivesAsAsked ==
    \A d \in seen :
        LET call == results[d.of[1]].call
            r == Request(d.of)
        IN  /\ [event |-> d.msg.event, key |-> d.msg.key, dedup |-> d.msg.dedup,
                meta |-> Only(d.msg.meta, DOMAIN d.msg.meta \ {MetaCodec})] = Asked(call, r)
            /\ d.end = "handled" <=>
                  /\ CodecFor(codecs, r.event) = CodecFor(bus.codecs, r.event)
                  /\ r.payload # "invalid"
            /\ d.msg.data.value = r.payload

\* What stands in the way of carrying a request as written.
Obstacle(call, r) ==
    LET all == Settings(call, r)
        last(i) == \A j \in DOMAIN all : (j > i /\ all[j].sets = all[i].sets) => all[j].sets = "header" /\ all[j].k # all[i].k
        kept(o) == o.sets # "header" \/ (~IsReservedMeta(o.k) /\ o.k # NatsDedupID)
    IN  \/ ~call.batch /\ r.payload = "invalid"
        \/ r.payload = "channel" \/ CodecFor(bus.codecs, r.event) = NoCodec
        \/ bus.via = "nats" /\ Sent(CodecFor(bus.codecs, r.event).name) # CodecFor(bus.codecs, r.event).name
        \/ bus.via = "nats" /\ \E i \in DOMAIN all :
               /\ all[i].sets \in {"key", "dedup", "header"} /\ last(i) /\ kept(all[i])
               /\ Sent(all[i].v) # all[i].v \/ (all[i].sets = "header" /\ all[i].k.word = "my tag")
        \/ \E i \in DOMAIN all :
               /\ all[i].sets = "option" /\ all[i].adapter = bus.via
               /\ OptionAware(bus) /\ (bus.via # "kafka" \/ all[i].k # "timestamp" \/ all[i].v # "time")
        \/ call.batch /\ r.event = ""

\* A publish fails before anything is sent exactly when some message of it cannot be carried as
\* written: an option its adapter does not read, no codec, a payload the codec or the contract
\* refuses, a header NATS would change (checkAdapterOptions, encode, carried, carriedAll).
RefusedWithCause ==
    \A n \in DOMAIN results :
        LET call == results[n].call
        IN  results[n].err # "" <=> \E i \in DOMAIN call.items : Obstacle(call, call.items[i])
=============================================================================
