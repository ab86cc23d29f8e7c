----------------------------- MODULE BodyDecode -----------------------------
(***************************************************************************)
(* How the default codec decodes a JSON body and names, for the client,    *)
(* the value that does not decode (pkg/server/codec.go, codec_jsonv1.go,   *)
(* codec_jsonv2.go, presence.go).                                          *)
(*                                                                         *)
(* encoding/json names a value of the wrong type by a path: its v1 engine  *)
(* by the Go names of the embedded structs and the JSON names of the       *)
(* fields, its v2 engine by the keys and indexes of the document, both     *)
(* joined by dots.  wirePath reads the JSON names of the fields out of     *)
(* either.  For a value that decodes itself, or is base64, the engines     *)
(* name nothing, and the codec searches the recorded body for a value that *)
(* fails in the same words.                                                *)
(*                                                                         *)
(* A name is the sequence of its segments between dots.  A Go type is a    *)
(* name in Types; pointers are followed (indirect).                        *)
(***************************************************************************)
EXTENDS Naturals, Sequences, FiniteSets, SequencesExt

CONSTANTS
    Types,      \* the Go types: name -> its kind, element type or fields
    Bodies,     \* the bodies: the type decoded into, the JSON value, what follows it
    Engines,    \* the encoding/json engines: whose paths, and which failure they report
    Lower,      \* a segment -> the segment in lower case
    Escape,     \* a segment -> the segment as JSON pointers escape it
    ReadSize    \* how many bytes TrailingData reads at once

VARIABLES body, engine, strict, phase, err, tail, src

vars == <<body, engine, strict, phase, err, tail, src>>

Kind(t) == Types[t].kind

\* A segment the tables do not list is its own lower case and its own escape.
LowerSeg(s) == IF s \in DOMAIN Lower THEN Lower[s] ELSE s
EscapeSeg(s) == IF s \in DOMAIN Escape THEN Escape[s] ELSE s
Each(Op(_), segs) == [i \in DOMAIN segs |-> Op(segs[i])]

\* A sequence of sequences in one; it is written out first, so that TLC computes an element once.
Flat(seqs) == FlattenSeq(<<>> \o seqs)
EqualFold(a, b) == Each(LowerSeg, a) = Each(LowerSeg, b)

-----------------------------------------------------------------------------
(* The fields of a struct.                                                 *)

\* jsonTagName and the Go name it stands in for.
JsonName(sf) == IF sf.tag = <<>> THEN <<sf.go>> ELSE sf.tag

\* decodesInto.
DecodesInto(sf) == ~sf.dash /\ (sf.exported \/ (sf.anon /\ Kind(sf.type) = "struct"))

\* isFlattened.
IsFlattened(sf) == sf.anon /\ sf.tag = <<>> /\ Kind(sf.type) = "struct"

Lex(a, b) ==
    \E n \in 1..Len(b) :
        /\ \A i \in 1..(n - 1) : i <= Len(a) /\ a[i] = b[i]
        /\ n > Len(a) \/ a[n] < b[n]

\* One level of objectFields: the fields of its types, and the types they embed, each once, at
\* the first place that embeds it.
LevelFields(level) ==
    UNION {{[name |-> JsonName(Types[e.type].fields[i]), type |-> Types[e.type].fields[i].type,
             index |-> Append(e.index, i), tagged |-> Types[e.type].fields[i].tag # <<>>, count |-> e.count] :
               i \in {i \in DOMAIN Types[e.type].fields :
                         DecodesInto(Types[e.type].fields[i]) /\ ~IsFlattened(Types[e.type].fields[i])}} : e \in level}
LevelEmbeds(level) ==
    UNION {{[type |-> Types[e.type].fields[i].type, index |-> Append(e.index, i)] :
               i \in {i \in DOMAIN Types[e.type].fields :
                         DecodesInto(Types[e.type].fields[i]) /\ IsFlattened(Types[e.type].fields[i])}} : e \in level}
Queued(level) ==
    LET embeds == LevelEmbeds(level)
    IN {[type |-> e.type, index |-> e.index, count |-> Cardinality({f \in embeds : f.type = e.type})] :
           e \in {e \in embeds : ~\E f \in embeds : f.type = e.type /\ Lex(f.index, e.index)}}

RECURSIVE FieldsBelow(_, _)
FieldsBelow(level, visited) ==
    LET fresh == {e \in level : e.type \notin visited}
    IN IF fresh = {} THEN {}
       ELSE LevelFields(fresh) \cup FieldsBelow(Queued(fresh), visited \cup {e.type : e \in fresh})

\* dominantFields: of the fields of one name the shallowest, then a tagged one; none when two tie.
DominantFields(all) ==
    LET Before(f, g) == \/ Len(f.index) < Len(g.index)
                        \/ Len(f.index) = Len(g.index) /\ f.tagged /\ ~g.tagged
    IN {f \in all : f.count = 1 /\ \A g \in all \ {f} : g.name = f.name => Before(f, g)}

\* objectFields, in declaration order.
ObjectFields(t) ==
    SetToSortSeq(DominantFields(FieldsBelow({[type |-> t, index |-> <<>>, count |-> 1]}, {})),
                 LAMBDA f, g : Lex(f.index, g.index))

\* fieldCache.
FieldCache == [t \in {t \in DOMAIN Types : Kind(t) = "struct"} |-> ObjectFields(t)]

\* fieldCache.lookup: the field of that name, else the first whose name differs in case alone.
LookupIn(fields, key) ==
    LET exact == {i \in DOMAIN fields : fields[i].name = key}
        fold == {i \in DOMAIN fields : EqualFold(fields[i].name, key)}
        first(S) == fields[CHOOSE i \in S : \A j \in S : i <= j]
    IN IF exact # {} THEN <<first(exact)>> ELSE IF fold # {} THEN <<first(fold)>> ELSE <<>>
Lookup(t, key) == LookupIn(FieldCache[t], key)

-----------------------------------------------------------------------------
(* The values that decode themselves.                                      *)

\* selfDecoding: a raw value takes any JSON and is not one.
SelfDecoding(t) == Kind(t) \in {"time", "text", "nullable", "bytes"}

\* holdsSelfDecodingIn.
RECURSIVE HoldsIn(_, _)
HoldsIn(t, seen) ==
    /\ t \notin seen
    /\ \/ SelfDecoding(t)
       \/ Kind(t) \in {"list", "map"} /\ HoldsIn(Types[t].elem, seen \cup {t})
       \/ Kind(t) = "struct" /\ \E i \in DOMAIN FieldCache[t] : HoldsIn(FieldCache[t][i].type, seen \cup {t})

\* selfDecodingHolders, the cache of holdsSelfDecoding.
SelfDecodingHolders == {t \in DOMAIN Types : HoldsIn(t, {})}
HoldsSelfDecoding(t) == t \in SelfDecodingHolders

\* refusal: how the failure of a value that decodes itself is worded.
Refusal(t, v) ==
    CASE Kind(t) = "time" /\ v.k # "str" -> "expected string"
      [] Kind(t) = "time" -> "not a datetime"
      [] Kind(t) = "bytes" -> "not base64"
      [] OTHER -> "unknown level"

-----------------------------------------------------------------------------
(* wirePath with the v1 engine.                                            *)

\* structOf: the struct type a type holds through lists and maps.
RECURSIVE StructOf(_)
StructOf(t) ==
    CASE Kind(t) \in {"list", "map"} -> StructOf(Types[t].elem)
      [] Kind(t) = "struct" -> t
      [] OTHER -> "none"

Own(t) == {i \in DOMAIN Types[t].fields : DecodesInto(Types[t].fields[i]) /\ ~IsFlattened(Types[t].fields[i])}

\* jsonField, the first field of that name.
JsonField(t, key) == {i \in Own(t) : JsonName(Types[t].fields[i]) = key /\ \A j \in Own(t) : JsonName(Types[t].fields[j]) = key => i <= j}

\* keyContinues: a field's name goes on past head and a dot.
KeyContinues(t, head) ==
    \E i \in Own(t) : LET n == JsonName(Types[t].fields[i]) IN Len(n) > Len(head) /\ SubSeq(n, 1, Len(head)) = head

\* embeddedStruct.
EmbeddedStruct(t, seg) == {i \in DOMAIN Types[t].fields : Types[t].fields[i].go = seg /\ IsFlattened(Types[t].fields[i])}

The(S) == CHOOSE x \in S : TRUE
NoRead == [ok |-> FALSE, last |-> FALSE, names |-> <<>>]

\* pathReader.read, of the segments from pos on, inside cur, which obj is or embeds: prefer a
\* reading whose innermost object is the error's struct, then an embedded struct's name to a key.
RECURSIVE Read1(_, _, _, _), Keys1(_, _, _, _)
ReadEmbedded(te, obj, cur, pos, in) ==
    IF in # {} /\ pos < Len(te.field) THEN Read1(te, obj, Types[cur].fields[The(in)].type, pos + 1) ELSE NoRead
Read1(te, obj, cur, pos) ==
    Keys1(te, <<obj, cur, pos>>, pos + 1, ReadEmbedded(te, obj, cur, pos, EmbeddedStruct(cur, te.field[pos])))
\* The loop over the keys that start at the segment; end is one past a key's last segment.
ReadKey(te, obj, end, inner) ==
    IF end = Len(te.field) + 1 THEN [ok |-> TRUE, last |-> Types[obj].name = te.struct, names |-> <<>>]
    ELSE IF inner # "none" THEN Read1(te, inner, inner, end) ELSE NoRead
BetterRead(best, r, key) == IF r.ok /\ (~best.ok \/ r.last) THEN [r EXCEPT !.names = key \o @] ELSE best
Keys1(te, st, end, best) ==
    LET key == SubSeq(te.field, st[3], end - 1)
        f == JsonField(st[2], key)
    IN IF end > Len(te.field) + 1 \/ best.last \/ (f = {} /\ ~KeyContinues(st[2], key)) THEN best
       ELSE Keys1(te, st, end + 1,
                  IF f = {} THEN best
                  ELSE BetterRead(best, ReadKey(te, st[1], end, StructOf(Types[st[2]].fields[The(f)].type)), key))

\* greedyPath: no reading reaches the end.
RECURSIVE GreedyPath(_, _)
GreedyPath(t, segs) ==
    IF segs = <<>> THEN <<>>
    ELSE LET s == StructOf(t)
             in == EmbeddedStruct(s, segs[1])
             f == JsonField(s, <<segs[1]>>)
         IN IF s = "none" THEN segs
            ELSE IF in # {} THEN GreedyPath(Types[s].fields[The(in)].type, Tail(segs))
            ELSE IF f = {} THEN segs
            ELSE <<segs[1]>> \o GreedyPath(Types[s].fields[The(f)].type, Tail(segs))

WirePath1(t, te) ==
    LET Names(r) == IF r.ok THEN r.names ELSE GreedyPath(t, te.field)
        Whole(root) == IF root = "none" THEN NoRead ELSE Read1(te, root, root, 1)
    IN IF te.field = <<>> THEN <<>> ELSE Names(Whole(StructOf(t)))

-----------------------------------------------------------------------------
(* wirePath with the v2 engine.                                            *)

\* keyAt: whether the segments from pos on start with a key.
KeyAt(segs, pos, name, fold) ==
    LET key == Each(EscapeSeg, name)
        here == SubSeq(segs, pos, pos + Len(key) - 1)
    IN pos + Len(key) - 1 <= Len(segs) /\ (here = key \/ (fold /\ EqualFold(here, key)))

Indexes == {"0", "1", "2"}
NoPointer == [ok |-> FALSE, match |-> FALSE, names |-> <<>>]

\* consider: the first reading that reaches a value of the error's type, else the first that
\* reaches a value.
Better(best, r) == IF r.ok /\ (~best.ok \/ (r.match /\ ~best.match)) THEN r ELSE best
Considered(reads) == FoldLeft(Better, NoPointer, reads)

\* pointerReader.read and readFresh.  The budget bounds the reads of distinct states, which are
\* fewer than it as long as 64 types or fewer are reached.
RECURSIVE Read2(_, _, _)
Read2(te, t, pos) ==
    IF pos > Len(te.field) THEN [ok |-> TRUE, match |-> t = te.type, names |-> <<>>]
    ELSE CASE Kind(t) = "struct" ->
                  LET fields == FieldCache[t]
                      Reads(fold) == Each(LAMBDA f : IF KeyAt(te.field, pos, f.name, fold)
                                                     THEN LET r == Read2(te, f.type, pos + Len(f.name))
                                                          IN [r EXCEPT !.names = f.name \o @]
                                                     ELSE NoPointer, fields)
                  IN Considered(Reads(FALSE) \o Reads(TRUE))
           [] Kind(t) = "list" ->
                  IF te.field[pos] \in Indexes THEN Considered(<<Read2(te, Types[t].elem, pos + 1)>>) ELSE NoPointer
           [] Kind(t) = "map" ->
                  Considered([n \in 1..(Len(te.field) - pos + 1) |->
                                 LET r == Read2(te, Types[t].elem, pos + n)
                                 IN [r EXCEPT !.match = @ \/ (pos + n > Len(te.field) /\ Types[t].key = te.type)]])
           [] OTHER -> NoPointer

\* unescapeTokens.
Unescape(seg) == IF \E s \in DOMAIN Escape : Escape[s] = seg THEN CHOOSE s \in DOMAIN Escape : Escape[s] = seg ELSE seg

WirePath2(t, te) ==
    LET Names(r) == IF r.ok THEN r.names ELSE Each(Unescape, te.field) IN Names(Read2(te, t, 1))

-----------------------------------------------------------------------------
(* encoding/json.  The field a member decodes into: of those of its name,  *)
(* however deep they are embedded, the shallowest, then a tagged one.      *)

\* A way from a struct to a field: the fields gone through.
RECURSIVE Ways(_, _)
Ways(t, depth) ==
    LET at(i) == Types[t].fields[i]
    IN UNION {IF ~DecodesInto(at(i)) THEN {}
              ELSE IF ~IsFlattened(at(i)) THEN {<<at(i)>>}
              ELSE IF depth = 0 THEN {} ELSE {<<at(i)>> \o w : w \in Ways(at(i).type, depth - 1)} : i \in DOMAIN Types[t].fields}

MaxEmbedding == 3
AllWays == [t \in {t \in DOMAIN Types : Kind(t) = "struct"} |-> Ways(t, MaxEmbedding)]
Preferred(few, many) == IF few # {} THEN few ELSE many
Exact(ways, key) == Preferred({w \in ways : JsonName(Last(w)) = key}, ways)
Shallowest(ways) == {w \in ways : \A x \in ways : Len(w) <= Len(x)}
Tagged(ways) == Preferred({w \in ways : Last(w).tag # <<>>}, ways)
OnlyOne(ways) == IF Cardinality(ways) = 1 THEN <<The(ways)>> ELSE <<>>
Taken(t, key) ==
    OnlyOne(Tagged(Shallowest(Exact({w \in AllWays[t] : EqualFold(JsonName(Last(w)), key)}, key))))

Root == [names |-> <<>>, stack |-> <<>>, struct |-> "", ptr |-> <<>>]
Into(at, t, way, key) ==
    LET go == [i \in 1..(Len(way) - 1) |-> way[i].go]
    IN [names |-> at.names \o JsonName(Last(way)), stack |-> at.stack \o go \o JsonName(Last(way)),
        struct |-> Types[t].name, ptr |-> at.ptr \o Each(EscapeSeg, key)]
Under(at, key) == [at EXCEPT !.ptr = @ \o Each(EscapeSeg, key)]

Index(i) == <<"0", "1", "2">>[i]

Failure(how, at, t, v) == [how |-> how, at |-> at, type |-> t, v |-> v, inner |-> <<>>]
OK == [is |-> "nil"]

\* The failures of a value, in the order of the document.  A value that decodes itself fails in
\* words of its own; a Nullable decodes its value with the codec (UnmarshalJSON), so its failure
\* is the codec's.
RECURSIVE Failures(_, _, _, _, _), DecodeValue(_, _, _, _), Finder(_, _, _, _, _, _)
MemberFailures(t, m, way, at, s, e) ==
    IF way # <<>> THEN Failures(Last(way[1]).type, m.v, Into(at, t, way[1], m.key), s, e)
    ELSE IF s THEN <<Failure("unknown", at, t, m.key)>> ELSE <<>>
NullableFailures(t, v, at, er) ==
    IF er = OK THEN <<>> ELSE <<[Failure("member", at, t, v) EXCEPT !.inner = <<er>>]>>
Failures(t, v, at, s, e) ==
    CASE v.k = "null" \/ Kind(t) = "raw" -> <<>>
      [] Kind(t) = "struct" /\ v.k = "obj" ->
             Flat([i \in DOMAIN v.m |-> MemberFailures(t, v.m[i], Taken(t, v.m[i].key), at, s, e)])
      [] Kind(t) = "map" /\ v.k = "obj" ->
             Flat([i \in DOMAIN v.m |->
                 Failures(Types[t].elem, v.m[i].v, Under(at, v.m[i].key), s, e)
                     \o IF Types[t].key = "int" /\ v.m[i].key[1] \notin Indexes
                        THEN <<Failure("type", Under(at, v.m[i].key), "int", v)>> ELSE <<>>])
      [] Kind(t) = "list" /\ v.k = "arr" ->
             Flat([i \in DOMAIN v.e |-> Failures(Types[t].elem, v.e[i], Under(at, <<Index(i)>>), s, e)])
      [] Kind(t) = "nullable" ->
             NullableFailures(t, v, at, DecodeValue(Types[t].elem, v, s, e))
      [] Kind(t) = "int" /\ v.k = "num" -> <<>>
      [] Kind(t) \in {"string", "time", "text", "bytes"} /\ v.k = "str" ->
             IF Kind(t) = "string" \/ v.s = "good" THEN <<>>
             ELSE <<Failure(IF Kind(t) = "bytes" THEN "base64" ELSE "self", at, t, v)>>
      [] Kind(t) = "time" -> <<Failure("self", at, t, v)>>
      [] OTHER -> <<Failure("type", at, t, v)>>

\* The failure an engine reports: the first of a value that decodes itself, which ends the
\* decoding, else the first; or the first.
Fatal(f) == f.how \in {"self", "member"}
Reported(fs, e) ==
    LET fatal == {i \in DOMAIN fs : Fatal(fs[i])} IN IF e.rule = "fatal" /\ fatal # {} THEN fs[Min(fatal)] ELSE fs[1]

\* ... and the error it makes of it.
ErrorOf(f, e) ==
    LET te == [is |-> "te", field |-> IF e.path = "v1" THEN f.at.stack ELSE f.at.ptr, struct |-> f.at.struct,
               type |-> f.type, reason |-> IF f.how = "base64" THEN "not base64" ELSE "type"]
    IN CASE f.how = "unknown" -> [is |-> "json unknown", name |-> f.v]
         [] f.how = "member" -> [is |-> "member", err |-> f.inner[1]]
         [] f.how = "type" \/ (f.how = "base64" /\ e.path = "v2") -> te
         [] OTHER -> [is |-> "plain", text |-> <<Kind(f.type), f.v>>]
ErrorOfAll(fs, e) == IF fs = <<>> THEN OK ELSE ErrorOf(Reported(fs, e), e)
JsonError(t, v, s, e) == ErrorOfAll(Failures(t, v, Root, s, e), e)

-----------------------------------------------------------------------------
(* The codec.                                                              *)

\* failureText: the words a failure is told by.
FailureText(er) ==
    CASE er.is = "member" -> <<er.err>>
      [] er.is = "plain" -> er.text
      [] OTHER -> <<>>

DecodeError(path, reason) == [is |-> "decodeError", path |-> path, reason |-> reason]

\* valueFinder.value at a value that decodes itself with er.
Found(t, v, path, want, er) ==
    IF er = OK \/ FailureText(er) # want THEN <<>>
    ELSE IF er.is # "member" THEN <<DecodeError(path, Refusal(t, v))>>
    ELSE IF er.err.is # "decodeError" THEN <<DecodeError(path, er.err)>>
    ELSE <<DecodeError(IF er.err.path = <<"body">> THEN path ELSE path \o er.err.path, er.err.reason)>>

\* A part of an object or a list, by the field the key looks up or by the element type.
FieldPart(fd, m, path) == IF fd = <<>> THEN <<>> ELSE <<fd[1].type, m.v, path \o fd[1].name>>
PartsOf(t, v, path) ==
    CASE Kind(t) = "struct" /\ v.k = "obj" ->
             [i \in DOMAIN v.m |-> FieldPart(Lookup(t, v.m[i].key), v.m[i], path)]
      [] Kind(t) = "map" /\ v.k = "obj" -> [i \in DOMAIN v.m |-> <<Types[t].elem, v.m[i].v, path>>]
      [] Kind(t) = "list" /\ v.k = "arr" -> [i \in DOMAIN v.e |-> <<Types[t].elem, v.e[i], path>>]
      [] OTHER -> <<>>

\* valueFinder.value: nothing, or where the value to find is, the first of them in the document,
\* and why it fails.
FirstFound(found) == LET at == {i \in DOMAIN found : found[i] # <<>>} IN IF at = {} THEN <<>> ELSE found[Min(at)]
FoundIn(parts, want, s, e) ==
    [i \in DOMAIN parts |-> IF parts[i] = <<>> THEN <<>> ELSE Finder(parts[i][1], parts[i][2], parts[i][3], want, s, e)]
Finder(t, v, path, want, s, e) ==
    CASE ~HoldsSelfDecoding(t) -> <<>>
      [] SelfDecoding(t) -> Found(t, v, path, want, JsonError(t, v, s, e))
      [] OTHER -> FirstFound(<<>> \o FoundIn(PartsOf(t, v, path), want, s, e))

AtRoot(path) == IF path = <<>> THEN <<"body">> ELSE path

\* refusedValue, in the recorded body.
RefusedValue(t, v, er, s, e) ==
    LET Else(found) == IF found = <<>> THEN er ELSE [found[1] EXCEPT !.path = AtRoot(@)]
    IN Else(Finder(t, v, <<>>, FailureText(er), s, e))

\* wireDecodeError.
WireDecodeError(t, te, e) ==
    DecodeError(AtRoot(IF e.path = "v1" THEN WirePath1(t, te) ELSE WirePath2(t, te)), te.reason)

\* Faulty: a Nullable's error is searched for a type error first.
DecodeFailure_chain(er, t, v, s, e) ==
    CASE er.is = "json unknown" -> [is |-> "unknownField", name |-> er.name]
      [] er.is = "member" /\ er.err.is = "decodeError" -> er.err
      [] er.is = "te" -> WireDecodeError(t, er, e)
      [] OTHER -> IF HoldsSelfDecoding(t) THEN RefusedValue(t, v, er, s, e) ELSE er

\* decodeFailure, for a body that is JSON.  A type that can fail with a memberError is recorded.
DecodeFailure(er, t, v, s, e) ==
    CASE er.is = "json unknown" -> [is |-> "unknownField", name |-> er.name]
      [] er.is = "member" /\ er.err.is = "unknownField" -> er.err
      [] er.is = "te" -> WireDecodeError(t, er, e)
      [] OTHER -> IF er.is = "member" \/ HoldsSelfDecoding(t) THEN RefusedValue(t, v, er, s, e) ELSE er

\* decodeBody, up to what follows the value.
Decoded(er, t, v, s, e) == IF er = OK THEN OK ELSE DecodeFailure(er, t, v, s, e)
DecodeValue(t, v, s, e) == Decoded(JsonError(t, v, s, e), t, v, s, e)

Init ==
    /\ body \in Bodies /\ engine \in Engines /\ strict \in BOOLEAN
    /\ phase = "decode" /\ err = OK
    /\ tail = <<>> /\ src = 1

\* decodeBody.  A body that ends early, or whose read fails, is the decoder's error; an empty one
\* is required.
Decode ==
    /\ phase = "decode"
    /\ \E buffered \in 0..Len(body.rest) :
           tail' = <<SubSeq(body.rest, 1, buffered), SubSeq(body.rest, buffered + 1, Len(body.rest))>>
    /\ err' = CASE body.ends = "empty" -> DecodeError(<<"body">>, "required")
                [] body.ends = "early" -> [is |-> "syntax"]
                [] OTHER -> DecodeValue(body.type, body.v, strict, engine)
    /\ phase' = IF err' = OK /\ strict THEN "tail" ELSE "done"
    /\ UNCHANGED <<body, engine, strict, src>>

\* TrailingData: a read of what the decoder read ahead, then of the body.
TrailingData ==
    /\ phase = "tail"
    /\ \E n \in 0..(IF Len(tail[src]) < ReadSize THEN Len(tail[src]) ELSE ReadSize) :
          /\ n > 0 \/ tail[src] = <<>>
          /\ IF \E i \in 1..n : tail[src][i] # "space"
             THEN err' = [is |-> "trailing"] /\ phase' = "done" /\ UNCHANGED <<tail, src>>
             ELSE IF n > 0 THEN tail' = [tail EXCEPT ![src] = SubSeq(@, n + 1, Len(@))] /\ UNCHANGED <<err, phase, src>>
             ELSE IF src = 1 THEN src' = 2 /\ UNCHANGED <<err, phase, tail>>
             ELSE /\ err' = IF body.ends = "failed read" THEN [is |-> "read"] ELSE OK
                  /\ phase' = "done" /\ UNCHANGED <<tail, src>>
    /\ UNCHANGED <<body, engine, strict>>

Next == Decode \/ TrailingData

Spec == Init /\ [][Next]_vars

-----------------------------------------------------------------------------
\* The names of the fields down to the value a failure is about, a Nullable's value included.
RECURSIVE TrueNames(_, _, _)
NamesDown(f, s) == IF f.how # "member" THEN f.at.names ELSE f.at.names \o TrueNames(Types[f.type].elem, f.v, s)
TrueNames(t, v, s) == NamesDown(Reported(Failures(t, v, Root, s, engine), engine), s)

\* A body that does not decode is answered with the JSON names of the fields down to the value
\* the decoder refused, whichever engine decoded it and however the value fails: no Go name, key
\* or index in it, and no other value's name (wirePath, refusedValue, decodeFailure).
NamesTheValue ==
    (phase = "done" /\ err.is = "decodeError" /\ body.ends # "empty") =>
        err.path = AtRoot(TrueNames(body.type, body.v, strict))

\* A refused value is answered with a path; a strict decode takes a body only if every member has
\* a field and nothing but space follows the value, and tells a failed read from data that follows
\* (DecodeStrict, TrailingData).
StrictTakesOne ==
    phase = "done" =>
        /\ body.ends # "early" => err.is \notin {"plain", "te", "member"}
        /\ strict /\ err = OK =>
              /\ body.ends = "whole" /\ \A i \in DOMAIN body.rest : body.rest[i] = "space"
              /\ Failures(body.type, body.v, Root, TRUE, engine) = <<>>
        /\ err.is = "read" => \A i \in DOMAIN body.rest : body.rest[i] = "space"
=============================================================================
