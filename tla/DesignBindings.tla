--------------------------- MODULE DesignBindings ---------------------------
(***************************************************************************)
(* What a generated handler reads off a request and writes in a response,  *)
(* against what the OpenAPI document of the same design says.              *)
(*                                                                         *)
(* A design grows by one field or mixin at a time.  Once the analyser      *)
(* accepts it, a client sends a request to one of its methods, which the   *)
(* generated handler (internal/codegen/golang/transport*.go) binds, or the *)
(* logic answers with a response or a declared error.                      *)
(*                                                                         *)
(* A request is [text, body]: text gives every parameter and part of the   *)
(* method, keyed by where it rides and its wire name, its raw text -       *)
(* "absent", "none" (there, and empty), "good" or "odd" - and body the     *)
(* JSON datum, Bad when there is none.                                     *)
(***************************************************************************)
EXTENDS BindingChecks

CONSTANTS Menus,        \* what the design may grow into
          Skeleton,     \* menu -> the declarations it starts from
          Methods,      \* menu -> its methods
          Members,      \* menu -> the <<declaration, member>>s it may add, in order
          MaxAdded,     \* menu -> the most members added
          Depth         \* how deep the structs of a JSON body nest

VARIABLES menu, design, added, shape, answer

vars == <<menu, design, added, shape, answer>>

(***************************************************************************)
(* The handler.                                                            *)
(***************************************************************************)
ParamPlaces == {"path", "query", "header", "cookie"}

(* newOpShape, buildTransportData: what both generators read off a method. *)
ShapeOf(m, fields, groups, decodes, top, plan) ==
  [m |-> m, fields |-> fields, all |-> Elements(fields), multipart |-> IsMultipart(fields),
   params |-> Elements(Riding(fields, ParamPlaces)), parts |-> Elements(BodyParts(fields)),
   groups |-> groups, decodes |-> decodes, top |-> top, plan |-> plan,
   wired |-> decodes /\ top \in plan.heavy]

Shape(D, methods, m) ==
  ShapeOf(m, RequestFields(D, m), InlineGroups(D, TypeOf(D, m.req), {}), DecodesBody(D, m),
          IF DecodesBody(D, m) THEN Top(D, m) ELSE Instance(D, m.req, {}), Plan(D, methods))

Names(s) == {rf.f.name : rf \in s.all}
FieldOf(s, n) == CHOOSE rf \in s.all : rf.f.name = n

(* Where the handler reads a field, Body for the JSON body.                *)
Body == <<"body", None>>
Place(s, rf) ==
  CASE rf.at \in ParamPlaces -> WireKey(rf.f, rf.at)
    [] s.multipart -> <<IF IsFileTypeRef(rf.f.ref) THEN "file" ELSE "form", WireName(rf.f, "form")>>
    [] OTHER -> Body

DefaultValue(f) == IF f.ref.arr > 0 THEN Arr(<<Tok("def")>>) ELSE Tok("def")

(* collectDefaults: what a field holds before the request is read.         *)
CollectDefaults(D, rf, wired) ==
  IF Has(rf.f, "default") /\ rf.f.ref.name # Map /\ ~(wired /\ rf.at = "body")
  THEN DefaultValue(rf.f) ELSE Zero(D, GoRef(rf.f), Has(rf.f, "raw"))

(* ParseSigned and its like, and the conversion of a string.               *)
Parse(D, t, raw) ==
  CASE raw = "good" -> Tok("good")
    [] Prim(D, t) # StringT -> Bad
    [] OTHER -> IF raw = "none" THEN Tok("zero") ELSE Tok("odd")

(* The values of an array source: HeaderList drops an empty element.       *)
Values(kind, raw) == IF raw = "absent" \/ (kind = "header" /\ raw = "none") THEN <<>> ELSE <<raw>>

(* renderWireBindLine: guardBind around the shape bindShape picks.         *)
RenderWireBind(D, kind, f, raw, cur) ==
  LET parsed == Prim(D, ElemOf(f.ref)) # StringT
      values == Values(kind, raw)
      parts == Eager([i \in DOMAIN values |-> Parse(D, ElemOf(f.ref), values[i])])
  IN  IF kind # "path" /\ ~f.ref.opt /\ ~Has(f, "default") /\ raw = "absent" THEN Bad
      ELSE IF kind = "cookie" /\ raw = "absent" THEN cur
      ELSE IF f.ref.arr > 0 THEN IF values = <<>> THEN cur ELSE WholeList(parts)
      ELSE IF raw \in {"absent", "none"}
      THEN IF parsed \/ GoPointer(D, f) \/ Has(f, "default") THEN cur ELSE Tok("zero")
      ELSE Parse(D, f.ref, raw)

(* The file parts of one name: transport.tmpl reads the first, or all.     *)
BindFile(f, raw, cur) ==
  IF raw = "absent" THEN cur ELSE IF f.ref.arr > 0 THEN Arr(<<Tok("good")>>) ELSE Tok("good")

(* The struct the JSON body gives, over what the fields hold already.      *)
ReadFromBody(s, f) == OnWireBody(f) /\ ~(s.wired /\ Skipped(s.top, f))
LaidOver(s, start, got) ==
  IF got = Bad THEN Bad
  ELSE Obj([n \in Names(s) |-> IF ReadFromBody(s, FieldOf(s, n).f) THEN got.members[n] ELSE start[n]])

DecodeBody(D, s, j, start) ==
  IF ~s.decodes THEN Obj(start)
  ELSE IF j = Bad THEN Bad
  ELSE LaidOver(s, start, IF s.wired THEN To(D, s.plan, s.top, j) ELSE Decode(D, s.m.req, FALSE, j))

(* The parameters and the parts, over what the body gave.                  *)
BindField(D, rf, place, q, cur) ==
  CASE rf.at = "sensitive" \/ place = Body -> cur
    [] rf.at # "sensitive" /\ place[1] = "file" -> BindFile(rf.f, q.text[place], cur)
    [] OTHER -> RenderWireBind(D, place[1], rf.f, q.text[place], cur)

Validated(D, s, bound) ==
  IF (\E n \in Names(s) : bound[n] = Bad) \/ ~ValidateStruct(D, s.m.req, Obj(bound)) THEN Bad ELSE Obj(bound)

BindAll(D, s, q, body) ==
  IF body = Bad THEN Bad
  ELSE Validated(D, s, [n \in Names(s) |->
         BindField(D, FieldOf(s, n), Place(s, FieldOf(s, n)), q, body.members[n])])

(* The handler: defaults, the body, the parameters, the parts, then        *)
(* Validate; Bad is the 400 that ends it at the first fault.               *)
Handle(D, s, q) ==
  BindAll(D, s, q, DecodeBody(D, s, q.body,
    [n \in Names(s) |-> CollectDefaults(D, FieldOf(s, n), s.wired)]))

(***************************************************************************)
(* The document of a request.                                              *)
(***************************************************************************)
(* paramSchema over a raw text.                                            *)
TextFits(D, f, raw) ==
  LET t == ElemOf(NonNull(f.ref))
      x == Parse(D, t, raw)
  IN  CASE f.ref.arr > 0 /\ Has(f, "header") /\ raw = "none" -> TRUE
        [] Category(D, t, FALSE) = "enum" -> EnumMember(D, t, x)
        [] OTHER -> x # Bad

(* parameterGroups: a group all of whose members ride as parameters.       *)
ParameterGroups(s, q) ==
  LET set == {rf.f.name : rf \in {x \in s.params : q.text[WireKey(x.f, x.at)] \notin {"absent", "none"}}}
  IN  \A g \in s.groups : g.names \subseteq {rf.f.name : rf \in s.params} => GroupHolds(g, set)

(* paramsFromBins.                                                         *)
ParamsFit(D, s, q) ==
  \A rf \in s.params :
    LET raw == q.text[WireKey(rf.f, rf.at)]
    IN  IF raw = "absent" THEN rf.at # "path" /\ ~SpecRequired(rf.f) ELSE TextFits(D, rf.f, raw)

(* multipartRequestBody, its groups with presentParts.                     *)
PartsFit(D, s, q) ==
  LET raw(rf) == q.text[Place(s, rf)]
      unset(rf) == IF IsFileTypeRef(rf.f.ref) THEN {"absent"} ELSE {"absent", "none"}
  IN  /\ \A rf \in s.parts :
           CASE raw(rf) = "absent" -> ~SpecRequired(rf.f)
             [] IsFileTypeRef(rf.f.ref) -> TRUE
             [] OTHER -> TextFits(D, rf.f, raw(rf))
      /\ \A g \in s.groups :
           GroupHolds(g, {n \in g.names : raw(FieldOf(s, n)) \notin unset(FieldOf(s, n))})

(* requestBodySchema: the type's schema, or its body fields in place when  *)
(* others ride elsewhere.                                                  *)
RequestBodySchema(D, s, j) ==
  LET td == TypeOf(D, s.m.req)
  IN  IF s.params = {} THEN AdmitsStruct(D, s.m.req, j)
      ELSE /\ IsObj(j)
           /\ \A rf \in s.parts : AdmitsProperty(D, rf.f, j)
           /\ \A g \in s.groups : AdmitsGroup(D, td, g, j)

(* requestSide: the document admits q.                                     *)
RequestSide(D, s, q) ==
  /\ ParamsFit(D, s, q)
  /\ ParameterGroups(s, q)
  /\ IsBodyVerb(s.m.verb) =>
       CASE s.multipart -> PartsFit(D, s, q)
         [] s.parts # {} -> RequestBodySchema(D, s, q.body)
         [] OTHER -> TRUE

(***************************************************************************)
(* Responses.  An answer is the head fields it sends and its JSON body.    *)
(***************************************************************************)
SetCookie == <<"set-cookie">>
Envelope == Obj(<<"code">> :> Tok("good") @@ <<"message">> :> Tok("good"))

HeadName(f) ==
  IF BindingKind(f) = "cookie" THEN SetCookie ELSE CanonicalWireName("header", WireName(f, "header"))

HeadFields(fields) == {f \in fields : BindingKind(f) \in {"header", "cookie"}}

(* renderResponseWrite, renderCookieWrite: the fields v writes.            *)
ResponseHead(fields, v) ==
  {HeadName(f) : f \in {g \in HeadFields(fields) :
                          v.members[g.name] \notin {Nil, Arr(<<>>)}}}

(* encoding/json over the struct tags of types.go (omitOption).            *)
RECURSIVE Encode(_, _, _)
EncodeValue(D, f, v) ==
  CASE v = Nil -> Null
    [] Category(D, f.ref, Has(f, "raw")) = "struct" -> Encode(D, Elements(Flattened(D, f.ref)), v)
    [] OTHER -> v

Encode(D, fields, v) ==
  LET sent == {f \in fields : OnWireBody(f) /\ ~(f.ref.opt /\ v.members[f.name] = Nil)}
  IN  Obj([k \in {JSONName(f) : f \in sent} |->
            LET f == CHOOSE g \in sent : JSONName(g) = k IN EncodeValue(D, f, v.members[f.name])])

(* The bodies a status of m may send: its response's fields, and those of  *)
(* the errors it names.                                                    *)
ErrorDecls(D, m) == {d \in Errors(D) : d.name \in m.errors}
ResponseFields(D, m) == Elements(Flattened(D, m.resp))
ErrorFields(D, d) == Elements(FlatBody(D, d))
Senders(D, m, status) ==
  (IF m.status = status THEN {ResponseFields(D, m)} ELSE {})
    \cup {ErrorFields(D, d) : d \in {e \in ErrorDecls(D, m) : e.status = status}}

(* What a body sends whatever it holds.                                    *)
AlwaysSent(fields) ==
  {HeadName(f) : f \in {g \in HeadFields(fields) : ~g.ref.opt /\ g.ref.arr = 0 /\ g.ref.name # CookieT}}

(* Faulty: requires what one of the bodies always sends.                   *)
RequiredHeaders_any(D, m, status) ==
  UNION {AlwaysSent(fields) : fields \in Senders(D, m, status)}

(* buildResponseHeaders.                                                   *)
RequiredHeaders(D, m, status) ==
  LET OfAll(senders) ==
        {h \in UNION {AlwaysSent(fields) : fields \in senders} :
           \A fields \in senders : h \in AlwaysSent(fields)}
  IN  OfAll(Senders(D, m, status))
DocumentedHeaders(D, m, status) ==
  UNION {{HeadName(f) : f \in HeadFields(fields)} : fields \in Senders(D, m, status)}

(* ErrorHasJSONMember: an error without one is the {code, message} body.   *)
ErrorHasJSONMember(D, d) == \E f \in ErrorFields(D, d) : OnWireBody(f)

(* errorSchema, and schemaFromTypeDecl over an error's body.               *)
AdmitsError(D, d, j) ==
  LET OneOf(fields) ==
        IF fields = {} THEN j = Envelope ELSE IsObj(j) /\ \A f \in fields : AdmitsProperty(D, f, j)
  IN  OneOf({f \in ErrorFields(D, d) : OnWireBody(f)})

(* responseBodySchema, addErrorResponses and mergeStatusResponses: one of  *)
(* the schemas of the status admits the body.                              *)
AdmitsBody(D, m, status, j) ==
  \/ m.status = status /\ IsObj(j)
       /\ \A f \in ResponseFields(D, m) : OnWireBody(f) => AdmitsProperty(D, f, j)
  \/ \E d \in ErrorDecls(D, m) : d.status = status /\ AdmitsError(D, d, j)

(* errorDefaults: the constructor gives an optional field left nil its     *)
(* default.                                                                *)
Constructed(fields, v) ==
  Obj([n \in DOMAIN v.members |->
        IF v.members[n] = Nil /\ \E f \in fields : f.name = n /\ f.ref.opt /\ Has(f, "default")
        THEN DefaultValue(CHOOSE f \in fields : f.name = n) ELSE v.members[n]])

ErrorAnswer(D, d, v) ==
  LET Sent(fields, body) ==
        [status |-> d.status, head |-> ResponseHead(fields, body),
         body |-> IF ErrorHasJSONMember(D, d) THEN Encode(D, fields, body) ELSE Envelope]
      From(fields) == Sent(fields, Constructed(fields, v))
  IN  From(ErrorFields(D, d))

ResponseAnswer(D, m, v) ==
  [status |-> m.status, head |-> ResponseHead(ResponseFields(D, m), v),
   body |-> Encode(D, ResponseFields(D, m), v)]

-----------------------------------------------------------------------------
(***************************************************************************)
(* What clients send and logic returns.                                    *)
(***************************************************************************)
RECURSIVE Data(_, _, _, _), Objects(_, _, _, _)
Data(D, t, raw, n) ==
  LET cat == Category(D, t, raw)
  IN  CASE cat = "array" -> {Arr(<<>>)} \cup {Arr(<<x>>) : x \in Data(D, Elem(t), FALSE, n) \cup {Null}}
        [] cat = "map" -> {Obj(<<"k">> :> x) : x \in Data(D, t.args[2], FALSE, n) \cup {Null}}
        [] cat = "struct" -> IF n = 0 THEN {Obj(<<>>)} ELSE Objects(D, Flattened(D, t), {}, n - 1)
        [] cat \in {"any", "raw"} -> {Tok("good")}
        [] OTHER -> IF n = Depth THEN {Tok("good"), Tok("zero"), Tok("odd")} ELSE {Tok("good")}

(* The objects of fields; a member the route fills is there or not.        *)
Objects(D, fields, routed, n) ==
  IF fields = <<>> THEN {Obj(<<>>)}
  ELSE LET f == Head(fields)
           rest == Objects(D, Tail(fields), routed, n)
           values == IF f.name \in routed THEN {Tok("junk")}
                     ELSE Data(D, NonNull(f.ref), Has(f, "raw"), n) \cup {Null}
       IN  IF ~OnWireBody(f) THEN rest
           ELSE rest \cup {Obj(o.members @@ (JSONName(f) :> x)) : o \in rest, x \in values}

Texts(place) ==
  CASE place[1] = "path" -> {"good", "odd"}
    [] place[1] = "file" -> {"absent", "good"}
    [] OTHER -> {"absent", "none", "good", "odd"}

Requests(D, s) ==
  LET places == {Place(s, rf) : rf \in {x \in s.all : x.at # "sensitive"}} \ {Body}
      texts == {t \in [places -> UNION {Texts(p) : p \in places}] : \A p \in places : t[p] \in Texts(p)}
      bodies == IF s.decodes THEN {Bad, Null} \cup Objects(D, Flattened(D, s.m.req), s.top.skip, Depth) ELSE {Bad}
  IN  {[text |-> t, body |-> b] : t \in texts, b \in bodies}

(* The values of a struct, its lists and maps there when required.         *)
Values1(D, f) ==
  CASE f.ref.arr > 0 -> {Arr(<<>>), Arr(<<Tok("good")>>)} \cup (IF f.ref.opt THEN {Nil} ELSE {})
    [] FieldIsOptional(f) \/ f.ref.name = CookieT -> {Nil, Tok("good")}
    [] OTHER -> {Tok("good"), Tok("zero")}
Returned(D, fields) ==
  LET of(n) == CHOOSE f \in fields : f.name = n
      names == {f.name : f \in fields}
  IN  {Obj(v) : v \in {w \in [names -> UNION {Values1(D, f) : f \in fields}] :
                        \A n \in names : w[n] \in Values1(D, of(n))}}

-----------------------------------------------------------------------------
NoShape == [wired |-> FALSE]
NoAnswer == [by |-> "none"]

Init ==
  /\ menu \in Menus
  /\ design = Skeleton[menu]
  /\ added = <<>>
  /\ shape = NoShape
  /\ answer = NoAnswer

AddMember ==
  /\ shape = NoShape
  /\ Len(added) < MaxAdded[menu]
  /\ \E k \in DOMAIN Members[menu], i \in DOMAIN design :
       /\ \A j \in DOMAIN added : k > added[j]
       /\ design[i].name = Members[menu][k][1]
       /\ design' = [design EXCEPT ![i].body = Append(@, Members[menu][k][2])]
       /\ added' = Append(added, k)
  /\ UNCHANGED <<menu, shape, answer>>

(* The handler of a method of a design the analyser accepts is generated,  *)
(* and its operation in the document.  (The comparison with TRUE has TLC   *)
(* evaluate the analysis as one value, not conjunct by conjunct.)          *)
Generate ==
  /\ shape = NoShape
  /\ AnalyzeBindings(design, Methods[menu]) = TRUE
  /\ \E m \in Methods[menu] : shape' = Shape(design, Methods[menu], m)
  /\ UNCHANGED <<menu, design, added, answer>>

(* A request reaches the handler.                                          *)
Call ==
  /\ shape # NoShape
  /\ answer = NoAnswer
  /\ "request" \notin shape.m.raw
  /\ \E q \in Requests(design, shape) :
       answer' = [by |-> "handler", q |-> q, got |-> Handle(design, shape, q)]
  /\ UNCHANGED <<menu, design, added, shape>>

(* The logic returns a response, or an error its method names.             *)
Respond ==
  /\ shape # NoShape
  /\ answer = NoAnswer
  /\ \E v \in Returned(design, ResponseFields(design, shape.m)) :
       answer' = [by |-> "logic", sent |-> ResponseAnswer(design, shape.m, v)]
  /\ UNCHANGED <<menu, design, added, shape>>

Fail ==
  /\ shape # NoShape
  /\ answer = NoAnswer
  /\ \E d \in ErrorDecls(design, shape.m) : \E v \in Returned(design, ErrorFields(design, d)) :
       answer' = [by |-> "logic", sent |-> ErrorAnswer(design, d, v)]
  /\ UNCHANGED <<menu, design, added, shape>>

Next == AddMember \/ Generate \/ Call \/ Respond \/ Fail

Spec == Init /\ [][Next]_vars

-----------------------------------------------------------------------------
(***************************************************************************)
(* Properties.                                                             *)
(***************************************************************************)
Handled == answer.by = "handler"
Taken == Handled /\ answer.got # Bad

TypeOK ==
  /\ menu \in Menus
  /\ Len(added) <= MaxAdded[menu]
  /\ Handled => answer.got = Bad \/ IsObj(answer.got)

(* A body holds null for a required member of the empty schema, at any     *)
(* depth.                                                                  *)
RECURSIVE HoldsNull(_, _, _)
NullMember(D, f, j) ==
  LET x == Member(j, JSONName(f))
  IN  /\ Present(j, JSONName(f))
      /\ IF x = Null THEN EmptySchema(D, f) /\ JSONPresence(f) = "required"
         ELSE ~Has(f, "raw") /\ HoldsNull(D, NonNull(f.ref), x)

HoldsNull(D, t, x) ==
  LET cat == Category(D, t, FALSE)
  IN  CASE x = Null -> FALSE
        [] cat = "struct" -> \E f \in Elements(Flattened(D, t)) : OnWireBody(f) /\ NullMember(D, f, x)
        [] cat = "array" -> \E i \in DOMAIN x.elems : HoldsNull(D, Elem(t), x.elems[i])
        [] cat = "map" -> \E k \in DOMAIN x.members : HoldsNull(D, t.args[2], x.members[k])
        [] OTHER -> FALSE

(* A request the document admits, by its parameters, the schema of its     *)
(* body and its parts, is never answered 400 by the generated handler, but *)
(* for one whose body holds null for a required any or raw member, which   *)
(* the empty schema admits and the decoder answers as a member left out.   *)
DocumentedAccepted ==
  Handled /\ answer.got = Bad =>
    \/ ~RequestSide(design, shape, answer.q)
    \/ \E rf \in shape.parts : ~shape.multipart /\ NullMember(design, rf.f, answer.q.body)

(* The members a value of type t must hold are all there, at any depth; a  *)
(* null element is the struct of no member.                                *)
RECURSIVE Carries(_, _, _)
CarriesMember(D, f, j) ==
  LET here == Present(j, JSONName(f))
      x == Member(j, JSONName(f))
  IN  /\ JSONPresence(f) = "nullable" => here
      /\ JSONPresence(f) = "required" /\ ~Has(f, "default") => here /\ x # Null
      /\ here /\ x # Null /\ ~Has(f, "raw") => Carries(D, NonNull(f.ref), x)

Carries(D, t, x) ==
  LET cat == Category(D, t, FALSE)
  IN  CASE cat = "struct" -> \A f \in Elements(Flattened(D, t)) : OnWireBody(f) => CarriesMember(D, f, x)
        [] x = Null -> TRUE
        [] cat = "array" -> \A i \in DOMAIN x.elems : Carries(D, Elem(t), x.elems[i])
        [] cat = "map" -> \A k \in DOMAIN x.members : Carries(D, t.args[2], x.members[k])
        [] OTHER -> TRUE

(* What a design requires reached the logic: a handler that takes a        *)
(* request was sent every required parameter, part and body member, those  *)
(* of nested structs, elements, map values and mixins included.            *)
RequiredRefused ==
  Taken => \A rf \in shape.all :
             LET place == Place(shape, rf)
             IN  CASE rf.at = "sensitive" -> TRUE
                   [] place = Body -> CarriesMember(design, rf.f, answer.q.body)
                   [] OTHER -> SpecRequired(rf.f) => answer.q.text[place] # "absent"

(* The value a datum of type t stands for: a member left out or null takes *)
(* its default, at any depth.                                              *)
RECURSIVE Meant(_, _, _)
MeantMember(D, f, j) ==
  LET here == Present(j, JSONName(f))
      x == Member(j, JSONName(f))
      raw == Has(f, "raw")
  IN  CASE ~OnWireBody(f) -> Zero(D, GoRef(f), raw)
        [] Has(f, "default") /\ (~here \/ x = Null) -> DefaultValue(f)
        [] raw /\ here -> x
        [] ~here \/ (x = Null /\ FieldIsOptional(f)) -> Zero(D, GoRef(f), raw)
        [] OTHER -> Meant(D, NonNull(f.ref), x)

Meant(D, t, x) ==
  LET cat == Category(D, t, FALSE)
  IN  CASE cat = "struct" ->
             LET fields == Elements(Flattened(D, t))
             IN  Obj([n \in {f.name : f \in fields} |->
                       MeantMember(D, CHOOSE f \in fields : f.name = n, x)])
        [] x = Null -> Zero(D, t, FALSE)
        [] cat = "array" -> Arr(Eager([i \in DOMAIN x.elems |-> Meant(D, Elem(t), x.elems[i])]))
        [] cat = "map" -> Obj([k \in DOMAIN x.members |-> Meant(D, t.args[2], x.members[k])])
        [] OTHER -> x

MeantText(D, f, raw) ==
  LET empty == IF Has(f, "default") THEN DefaultValue(f) ELSE Zero(D, GoRef(f), FALSE)
  IN  CASE raw = "absent" -> empty
        [] f.ref.arr > 0 -> IF raw = "none" /\ Has(f, "header") THEN empty
                            ELSE Arr(<<Tok(IF raw = "none" THEN "zero" ELSE raw)>>)
        [] raw = "none" -> empty
        [] OTHER -> Tok(raw)

(* Every field of a request a handler takes holds what was sent at its     *)
(* own place and no other, or its default: a member the route fills never  *)
(* holds the copy the body carries, a @sensitive one never anything, and   *)
(* no two fields read one place.                                           *)
ReadsItsPlace ==
  TypeOK /\ (Taken =>
    /\ \A rf \in shape.all :
         LET place == Place(shape, rf)
         IN  answer.got.members[rf.f.name] =
               CASE rf.at = "sensitive" -> Zero(design, GoRef(rf.f), FALSE)
                 [] place = Body -> MeantMember(design, rf.f, answer.q.body)
                 [] OTHER -> MeantText(design, rf.f, answer.q.text[place])
    /\ \A x, y \in {rf \in shape.all : rf.at # "sensitive"} :
         x # y /\ Place(shape, x) = Place(shape, y) => Place(shape, x) = Body)

(* A response or a declared error is one the document gives its status: it *)
(* sends every header documented as required and none that is not          *)
(* documented, and its body matches a schema of the status.                *)
ResponseDocumented ==
  answer.by = "logic" =>
    LET m == shape.m
        sent == answer.sent
    IN  /\ RequiredHeaders(design, m, sent.status) \subseteq sent.head
        /\ sent.head \subseteq DocumentedHeaders(design, m, sent.status)
        /\ AdmitsBody(design, m, sent.status, sent.body)
=============================================================================
