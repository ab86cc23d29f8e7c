---------------------------- MODULE BindingChecks ----------------------------
(***************************************************************************)
(* The analyser's checks on where fields ride                              *)
(* (internal/semantic/binding_checks.go, method_checks.go, paths.go,       *)
(* decorator_ref_checks.go, value_literal_checks.go).  Each is TRUE when   *)
(* it reports no error.                                                    *)
(***************************************************************************)
EXTENDS Payloads

(***************************************************************************)
(* The wire structs a transport segment decodes JSON request bodies into   *)
(* (internal/codegen/golang/transport_body.go).  A wire struct mirrors one *)
(* instance of a struct type a body reaches,                               *)
(*   [ref, skip]                                                           *)
(* with skip the names of the members the route of the method fills.  A    *)
(* plan is the set of its instances (all) and of those that check a member *)
(* or fill a default, or hold one that does (heavy, `nonTrivial`).         *)
(***************************************************************************)

(* skipWithin: the names of skip that ref, or a mixin below it, declares.  *)
SkipWithin(D, ref, skip) ==
  skip \cap {f.name : f \in Elements(Flattened(D, ref))}

Instance(D, ref, skip) ==
  [ref |-> [NonNull(ref) EXCEPT !.arr = 0], skip |-> SkipWithin(D, ref, skip)]

JSONFields(D, s) ==
  SelectSeq(Fields(ClosedBody(D, s.ref)), LAMBDA f : JSONPresence(f) # "absent")

Skipped(s, f) == f.name \in s.skip /\ ~ExplicitlyBound(f)
Filled(f) == Has(f, "default") /\ f.ref.name # Map /\ ~ParamTyped(f)

(* walkValue: the struct a value of type t holds, directly or in an        *)
(* element or a map value; an argument stands where its parameter stood.   *)
RECURSIVE WalkValue(_, _)
WalkValue(D, t) ==
  IF t.name = Map THEN WalkValue(D, t.args[2])
  ELSE IF TypeOf(D, t) # NoDecl THEN {Instance(D, t, {})} ELSE {}

MixinInstances(D, s) == {Instance(D, mx, s.skip) : mx \in MixinRefs(D, s.ref)}

Children(D, s) ==
  UNION {WalkValue(D, f.ref) : f \in Elements(JSONFields(D, s))} \cup MixinInstances(D, s)

(* checks, defaults: what a wire struct does of its own.                   *)
Works(D, s) ==
  \E f \in Elements(JSONFields(D, s)) :
    ~Skipped(s, f) /\ (Filled(f) \/ JSONPresence(f) # "optional")

RECURSIVE Reach(_, _)
Reach(D, found) ==
  LET next == found \cup UNION {Children(D, s) : s \in found}
  IN  IF next = found THEN found ELSE Reach(D, next)

(* Faulty: weighs an instance by its own members alone.                    *)
NonTrivial_once(D, all, heavy) == {s \in all : Works(D, s)}

RECURSIVE NonTrivial(_, _, _)
NonTrivial(D, all, heavy) ==
  LET next == {s \in all : s \in heavy \/ Works(D, s) \/ Children(D, s) \cap heavy # {}}
  IN  IF next = heavy THEN heavy ELSE NonTrivial(D, all, next)

(* Faulty: one wire struct per type, whatever the route of a method fills. *)
Top_shared(D, m) == Instance(D, m.req, {})

(* add: the instance the body of m decodes into.                           *)
Top(D, m) ==
  LET routed == {rf.f.name : rf \in {x \in Elements(RequestFields(D, m)) : x.at = "path" /\ x.auto}}
  IN  Instance(D, m.req, routed)

(* bodyFields: the methods that decode a JSON body.                        *)
DecodesBody(D, m) ==
  /\ IsBodyVerb(m.verb)
  /\ "request" \notin m.raw
  /\ LET fields == RequestFields(D, m) IN BodyParts(fields) # <<>> /\ ~IsMultipart(fields)

Plan(D, methods) ==
  LET Of(all) == [all |-> all, heavy |-> NonTrivial(D, all, {})]
  IN  Of(Reach(D, {Top(D, m) : m \in {n \in methods : DecodesBody(D, n)}}))

-----------------------------------------------------------------------------
(* wireType # goType: a value of type t decodes through a wire struct.     *)
Wired(D, plan, t) == WalkValue(D, t) \cap plan.heavy # {}

RECURSIVE CopyValue(_, _, _, _), To(_, _, _, _)

(* renderMember: what the copy of member f out of the object j writes.     *)
RenderMember(D, plan, s, f, j) ==
  LET x == Member(j, JSONName(f))
      here == Present(j, JSONName(f))
      raw == Has(f, "raw")
      strict == Filled(f) \/ JSONPresence(f) = "required"
  IN  IF Skipped(s, f) THEN IF here /\ Decode(D, GoRef(f), raw, x) = Bad THEN Bad ELSE Zero(D, GoRef(f), raw)
      ELSE IF here /\ (x # Null \/ (raw /\ ~strict))
      THEN IF raw THEN x ELSE CopyValue(D, plan, NonNull(f.ref), x)
      ELSE IF Filled(f) THEN IF f.ref.arr > 0 THEN Arr(<<Tok("def")>>) ELSE Tok("def")
      ELSE IF JSONPresence(f) = "required" \/ (JSONPresence(f) = "nullable" /\ ~here) THEN Bad
      ELSE Nil

(* to: the struct of s out of j, Bad when a required member is missing;    *)
(* a null element is the wire struct of no member.                         *)
OwnFields(D, plan, s, own, j) ==
  [n \in {f.name : f \in own} |->
    LET f == CHOOSE g \in own : g.name = n
    IN  IF OnWireBody(f) THEN RenderMember(D, plan, s, f, j) ELSE Zero(D, GoRef(f), Has(f, "raw"))]

Joined(fields, mixins) ==
  LET promoted(n) == CHOOSE mx \in mixins : n \in DOMAIN mx.members
      names == DOMAIN fields \cup UNION {DOMAIN mx.members : mx \in mixins}
  IN  IF Bad \in mixins \/ \E n \in DOMAIN fields : fields[n] = Bad THEN Bad
      ELSE Obj([n \in names |-> IF n \in DOMAIN fields THEN fields[n] ELSE promoted(n).members[n]])

To(D, plan, s, j) ==
  IF j # Null /\ ~IsObj(j) THEN Bad
  ELSE Joined(OwnFields(D, plan, s, Elements(Fields(ClosedBody(D, s.ref))), j),
              {To(D, plan, mx, j) : mx \in MixinInstances(D, s)})

(* copyValue: a wire value of type t into the request's.                   *)
CopyValue(D, plan, t, x) ==
  IF ~Wired(D, plan, t) THEN Decode(D, t, FALSE, x)
  ELSE IF x = Null /\ (t.arr > 0 \/ t.name = Map \/ t.opt) THEN Nil
  ELSE IF t.arr > 0
  THEN IF IsList(x) THEN WholeList(Eager([i \in DOMAIN x.elems |-> CopyValue(D, plan, Elem(t), x.elems[i])])) ELSE Bad
  ELSE IF t.name = Map
  THEN IF IsObj(x) THEN WholeObj([n \in DOMAIN x.members |-> CopyValue(D, plan, t.args[2], x.members[n])]) ELSE Bad
  ELSE To(D, plan, Instance(D, t, {}), x)

(***************************************************************************)

Types(D) == {d \in Elements(D) : d.kind = "type"}
Errors(D) == {d \in Elements(D) : d.kind = "error"}
Own(d) == Elements(Fields(d.body))

(* A declaration as a reference naming no argument.                        *)
Bare(d) == [pkg |-> None, name |-> d.name, args |-> <<>>, arr |-> 0, opt |-> FALSE, par |-> FALSE]

(* The fields of a body with its mixins', no argument bound.               *)
FlatBody(D, d) ==
  LET flat == FlattenFields(D, d.pkg, d.pkg, d.body, <<>>, <<>>)
  IN  Eager([i \in DOMAIN flat |-> flat[i].field])

(***************************************************************************)
(* What a binding carries.                                                 *)
(***************************************************************************)
IsWireParseable(prim) == prim \in {StringT, IntT}

ElemOf(t) == IF t.arr > 0 THEN Elem(t) ELSE t

WireBindable(D, t) ==
  /\ t.name # Map /\ t.args = <<>> /\ t.arr <= 1
  /\ LET cat == Category(D, ElemOf(t), FALSE)
     IN  cat = "enum" \/ (cat \in {"primitive", "scalar"} /\ IsWireParseable(Prim(D, ElemOf(t))))
PathBindable(D, t) == ~t.opt /\ t.arr = 0 /\ WireBindable(D, t)
FormBindable(D, t) ==
  t.name # Map /\ (IF t.name = FileT THEN t.arr <= 1 ELSE WireBindable(D, t))

(* wireTypeFault finds none.                                               *)
RidesWire(D, f, kind) ==
  LET t == f.ref
  IN  CASE t.arr > 1 /\ kind \in {"query", "header", "form"} -> FALSE
        [] kind = "path" -> PathBindable(D, t)
        [] kind = "cookie" -> t.arr = 0 /\ (t.name = CookieT \/ WireBindable(D, t))
        [] kind = "form" -> FormBindable(D, t)
        [] OTHER -> WireBindable(D, t)

(***************************************************************************)
(* Per field and per declaration.                                          *)
(***************************************************************************)
CheckSingleBinding(f) == Cardinality(Bindings(f)) <= 1

CheckBindingFieldType(D, f) ==
  BindingKind(f) \in ParamBindings =>
    /\ ~Has(f, "nullable")
    /\ ~(Has(f, "path") /\ Has(f, "default"))
    /\ f.ref.par \/ RidesWire(D, f, BindingKind(f))

CheckSensitiveConflicts(f) ==
  Has(f, "sensitive") =>
    f.key = None /\ f.decs \cap (BindingNames \cup {"nullable", "default", "raw"}) = {}

CheckJSONDecorator(f) == f.key # None => BindingKind(f) = "body"

(* literalTargetProblem and @nullable beside @default.                     *)
CheckFieldDefault(D, f) ==
  LET elem == Elem([f.ref EXCEPT !.arr = IF @ = 0 THEN 1 ELSE @])
      cat == Category(D, elem, Has(f, "raw"))
  IN  Has(f, "default") =>
        /\ ~Has(f, "nullable")
        /\ f.ref.name # Map /\ ~f.ref.par /\ f.ref.arr <= 1
        /\ cat = "enum" \/ (cat \in {"primitive", "scalar"} /\ Prim(D, elem) # BytesT)

CheckCookieField(f) ==
  IF f.ref.name = CookieT THEN BindingKind(f) = "cookie" ELSE ~HoldsCookie(f.ref)

CheckFileArrayDepth(f) == IsFileTypeRef(f.ref) => f.ref.arr <= 1

CheckField(D, f) ==
  /\ CheckSingleBinding(f) /\ CheckBindingFieldType(D, f)
  /\ CheckSensitiveConflicts(f) /\ CheckJSONDecorator(f)
  /\ CheckFieldDefault(D, f) /\ CheckCookieField(f)

CheckDuplicateWireNames(D, d) ==
  LET bound(f) == BindingKind(f) \in ParamBindings
      key(f) == WireKey(f, BindingKind(f))
      Apart(fields) ==
        \A i, j \in DOMAIN fields :
          i # j /\ bound(fields[i]) /\ bound(fields[j]) => key(fields[i]) # key(fields[j])
  IN  Apart(FlatBody(D, d))

CheckJSONKeysIn(D, d) ==
  LET Apart(fields) ==
        \A i, j \in DOMAIN fields :
          i # j /\ OnWireBody(fields[i]) /\ OnWireBody(fields[j]) => JSONName(fields[i]) # JSONName(fields[j])
  IN  Apart(FlatBody(D, d))

PresenceUnclean(D, f) ==
  LET cat == Category(D, f.ref, Has(f, "raw"))
  IN  IsNilable(D, f.ref, Has(f, "raw")) /\ ~SpellsPointer(D, f.ref) /\ cat # "raw"

(* checkFieldGroupRefs, reportCrossFieldMemberIssues.                      *)
CheckFieldGroupRefs(D, d) ==
  \A g \in Elements(d.groups) : \A n \in g.names :
    \E f \in Elements(FlatBody(D, d)) :
      /\ f.name = n
      /\ ~PresenceUnclean(D, f) /\ FieldIsOptional(f)
      /\ ~Has(f, "sensitive") /\ ~Has(f, "default") /\ BindingKind(f) \notin ParamBindings

(***************************************************************************)
(* Per method.                                                             *)
(***************************************************************************)
(* visitFieldsWhere: the fields of the structs t reaches, and of those     *)
(* below them.                                                             *)
RECURSIVE OuterNamedRefs(_)
OuterNamedRefs(t) ==
  IF t.name = Map THEN OuterNamedRefs(t.args[1]) \cup OuterNamedRefs(t.args[2])
  ELSE {[NonNull(t) EXCEPT !.arr = 0]}

RECURSIVE StructsBelow(_, _)
StructsBelow(D, refs) ==
  LET structs == {r \in refs : TypeOf(D, r) # NoDecl}
      below == UNION {OuterNamedRefs(f.ref) : f \in UNION {Elements(Flattened(D, r)) : r \in structs}}
  IN  IF below \subseteq refs THEN structs ELSE StructsBelow(D, refs \cup below)

FieldsBelow(D, t) ==
  UNION {Elements(Flattened(D, r)) : r \in StructsBelow(D, OuterNamedRefs(t))}

CheckInstanceWireBindings(D, ref, fileReported, raw) ==
  \A f \in Elements(Flattened(D, ref)) :
    ParamTyped(f) /\ BindingKind(f) \in ParamBindings =>
      \/ fileReported /\ HoldsFile(f.ref)
      \/ RidesWire(D, f, BindingKind(f)) /\ (~SliceBehindPointer(f) \/ raw)

(* Faulty: compares explicit bindings only.                                *)
CheckDuplicateAutoWireNames_off(D, m) == TRUE

CheckDuplicateAutoWireNames(D, m) ==
  LET key(rf) == WireKey(rf.f, rf.at)
      param(rf) == rf.at \in ParamBindings
      Apart(fields) ==
        \A i, j \in DOMAIN fields :
          i # j /\ param(fields[i]) /\ param(fields[j]) /\ key(fields[i]) = key(fields[j]) =>
            ~fields[i].auto /\ ~fields[j].auto
  IN  Apart(RequestFields(D, m))

CheckAutoPathField(D, m) ==
  \A rf \in Elements(RequestFields(D, m)) :
    rf.auto /\ rf.at = "path" =>
      ~Has(rf.f, "nullable") /\ ~Has(rf.f, "default") /\ PathBindable(D, rf.f.ref)

(* checkMethodPathParams with requestPathFields.                           *)
CheckMethodPathParams(D, m) ==
  LET bound == {WireName(rf.f, "path") : rf \in {x \in Elements(RequestFields(D, m)) : x.at = "path"}}
  IN  bound = m.vars

CheckRequestFiles(D, m) ==
  \A f \in Elements(Flattened(D, m.req)) :
    IF IsFileTypeRef(f.ref) THEN f.ref.arr <= 1
    ELSE ~HoldsFile(f.ref) /\ \A g \in FieldsBelow(D, f.ref) : ~HoldsFile(g.ref)

CheckResponseFiles(D, m) == \A g \in FieldsBelow(D, m.resp) : ~HoldsFile(g.ref)

CheckErrorBodyFiles(D, d) ==
  \A x \in Elements(d.body) : ~HoldsFile(x.ref) /\ \A g \in FieldsBelow(D, x.ref) : ~HoldsFile(g.ref)

CheckNestedBindings(D, fields) ==
  \A f \in fields : \A g \in FieldsBelow(D, f.ref) : BindingKind(g) \notin ParamBindings

CheckCookiePosition(D, m) == \A g \in FieldsBelow(D, m.req) : ~HoldsCookie(g.ref)

(* checkBodyBindingVerb, bodyBindingVerbRules.                             *)
CheckBodyBindingVerb(D, m) ==
  ~IsBodyVerb(m.verb) =>
    \A rf \in Elements(RequestFields(D, m)) :
      /\ Bindings(rf.f) \cap {"body", "form"} = {}
      /\ rf.auto /\ rf.at = "query" =>
           ~Has(rf.f, "nullable") /\ ~SliceBehindPointer(rf.f) /\ WireBindable(D, rf.f.ref)

CheckMultipartParts(D, m) ==
  LET Sound(parts, multipart) ==
        IF ~multipart THEN \A f \in parts : ~Has(f, "form")
        ELSE "request" \in m.raw \/ \A f \in parts :
               /\ ~(OptionalParam(f) /\ IsFileTypeRef(f.ref))
               /\ \/ Has(f, "form") \/ HoldsFile(f.ref)
                  \/ ~SliceBehindPointer(f) /\ WireBindable(D, f.ref)
      SoundIn(fields) == Sound({rf.f : rf \in Elements(BodyParts(fields))}, IsMultipart(fields))
  IN  IsBodyVerb(m.verb) => SoundIn(RequestFields(D, m))

CheckMethod(D, m) ==
  /\ TypeOf(D, m.req) # NoDecl
  /\ CheckInstanceWireBindings(D, m.req, FALSE, "request" \in m.raw)
  /\ CheckInstanceWireBindings(D, m.resp, TRUE, "response" \in m.raw)
  /\ CheckMethodPathParams(D, m) /\ CheckAutoPathField(D, m)
  /\ CheckDuplicateAutoWireNames(D, m) /\ CheckBodyBindingVerb(D, m)
  /\ CheckMultipartParts(D, m) /\ CheckRequestFiles(D, m)
  /\ CheckResponseFiles(D, m) /\ CheckCookiePosition(D, m)
  /\ \A r \in {m.req, m.resp} : CheckNestedBindings(D, Elements(Flattened(D, r)))

(* checkOptionalMapValues, and no optional generic argument.               *)
RECURSIVE CheckArguments(_)
CheckArguments(t) == \A i \in DOMAIN t.args : ~t.args[i].opt /\ CheckArguments(t.args[i])

CheckBody(D, d) ==
  /\ \A x \in Elements(d.body) : CheckArguments(x.ref)
  /\ \A f \in Own(d) : CheckField(D, f)
  /\ CheckDuplicateWireNames(D, d) /\ CheckJSONKeysIn(D, d)

AnalyzeBindings(D, methods) ==
  /\ \A d \in Types(D) : CheckBody(D, d) /\ CheckFieldGroupRefs(D, d)
  /\ \A d \in Types(D) : \A f \in Own(d) : CheckFileArrayDepth(f)
  /\ \A d \in Errors(D) :
       /\ CheckBody(D, d) /\ CheckErrorBodyFiles(D, d)
       /\ CheckNestedBindings(D, Elements(FlatBody(D, d)))
       /\ \A x \in Elements(d.body) :
            IsField(x) \/ CheckInstanceWireBindings(D, x.ref, TRUE, FALSE)
  /\ \A m \in methods : CheckMethod(D, m)
=============================================================================
