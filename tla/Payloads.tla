------------------------------ MODULE Payloads ------------------------------
(***************************************************************************)
(* JSON data and the Go values they become: encoding/json over the         *)
(* generated types (internal/codegen/golang/types.go), the generated       *)
(* Validate methods (validate*.go), and the schemas of the document        *)
(* (internal/codegen/docs/openapi_schemas.go, openapi_typeref.go).         *)
(*                                                                         *)
(* A datum is null, a token, an object or a list.  The token "good" is a   *)
(* value of its type, "zero" the zero value of its Go type, "def" the      *)
(* value of a @default and "odd" a token of another JSON kind, or for an   *)
(* enum a string that is no member.  A Go value is a datum or Nil, a       *)
(* struct being the object of its fields, mixin fields included, by their  *)
(* names.                                                                  *)
(***************************************************************************)
EXTENDS Declarations, TLC

(***************************************************************************)
(* What one field means on the wire: the type behind it                    *)
(* (internal/semantic/resolved.go), where its value rides                  *)
(* (internal/wire/wire.go) and the parts of a multipart request            *)
(* (internal/semantic/form.go).                                            *)
(*                                                                         *)
(* Here a member of a body is                                              *)
(*   [m, name, ref, orig, decs, wire, key]                                 *)
(* orig being its type as declared, before type arguments replace the      *)
(* parameters of ref, decs the names of its decorators, wire the name its  *)
(* binding decorator gives and key the one of @json, each None when there  *)
(* is none.  A declaration also has prim, the primitive behind a scalar or *)
(* enum, zero, that an enum has a member with its kind's zero value, and   *)
(* groups, its @requiresOneOf and @mutuallyExclusive decorators.  A method *)
(* is [verb, vars, req, resp, errors, raw], vars the variables of its      *)
(* route and raw the sides its logic reads or writes itself.  One package  *)
(* declares everything; what several packages change is DesignTypes'.      *)
(***************************************************************************)

CONSTANT Lower          \* piece of a header name -> the piece in lower case

Has(f, dec) == dec \in f.decs

(***************************************************************************)
(* Types.                                                                  *)
(***************************************************************************)
StringT == <<"string">>
IntT == <<"int">>
BytesT == <<"bytes">>
AnyT == <<"any">>
FileT == <<"file">>
CookieT == <<"cookie">>

Elem(t) == [t EXCEPT !.arr = @ - 1, !.opt = FALSE]
NonNull(t) == [t EXCEPT !.opt = FALSE]

(* resolveTypeRef: a type parameter resolves to no category.               *)
Category(D, t, raw) ==
  LET d == Lookup(D, D[1].pkg, t, TypeRefDecls)
  IN  CASE t.arr > 0 -> "array"
        [] t.name = Map -> "map"
        [] t.par -> "unknown"
        [] t.name = BytesT -> IF raw THEN "raw" ELSE "bytes"
        [] t.name = AnyT -> "any"
        [] t.name = FileT -> "file"
        [] t.name = CookieT -> "cookie"
        [] t.name \in PrimNames -> "primitive"
        [] d.kind = "scalar" -> IF d.prim = BytesT /\ raw THEN "raw" ELSE "scalar"
        [] d.kind = "enum" -> "enum"
        [] d.kind = "type" -> "struct"
        [] OTHER -> "unknown"

(* ResolvedPrim of a built-in, scalar or enum.                             *)
Prim(D, t) ==
  IF t.name \in PrimNames THEN t.name ELSE Lookup(D, D[1].pkg, t, {"scalar", "enum"}).prim

IsNilable(D, t, raw) ==
  LET cat == Category(D, t, raw)
  IN  \/ cat \in {"array", "map", "bytes", "any", "file", "cookie", "raw"}
      \/ cat = "scalar" /\ Prim(D, t) = BytesT

SpellsPointer(D, t) == Category(D, t, FALSE) \in {"file", "cookie"}
FieldIsOptional(f) == f.ref.opt \/ Has(f, "nullable")
GoPointer(D, f) ==
  SpellsPointer(D, f.ref) \/ (FieldIsOptional(f) /\ ~IsNilable(D, f.ref, Has(f, "raw")))
SpecRequired(f) == ~f.ref.opt /\ ~Has(f, "default")
RuntimeEnforced(f) == ~FieldIsOptional(f) /\ ~Has(f, "sensitive")

IsFileTypeRef(t) == t.name = FileT
HoldsFile(t) == \E n \in NamedRefs(t) : n.name = FileT
HoldsCookie(t) == \E n \in NamedRefs(t) : n.name = CookieT

(* A field the flattening typed by an argument: paramTyped, optionalParam  *)
(* and sliceBehindPointer of a FlatField.                                  *)
ParamTyped(f) == f.orig.par
OptionalParam(f) == f.orig.par /\ f.orig.opt /\ f.orig.arr = 0
SliceBehindPointer(f) == OptionalParam(f) /\ f.ref.arr > 0

(***************************************************************************)
(* Bindings.                                                               *)
(***************************************************************************)
ParamBindings == {"path", "query", "header", "cookie", "form"}
BindingNames == ParamBindings \cup {"body"}

Bindings(f) == f.decs \cap BindingNames
ExplicitlyBound(f) == Bindings(f) # {}
BindingKind(f) == IF ExplicitlyBound(f) THEN CHOOSE b \in Bindings(f) : TRUE ELSE "body"
IsBodyVerb(verb) == verb \in {"POST", "PUT", "PATCH"}
NonBodyBindingKind(f) == BindingKind(f) \in {"path", "query", "header", "cookie"}

(* RequestFieldBinding.                                                    *)
RequestFieldBinding(f, pathNames, bodyVerb) ==
  CASE Has(f, "sensitive") -> "sensitive"
    [] ExplicitlyBound(f) -> BindingKind(f)
    [] f.name \in pathNames -> "path"
    [] ~bodyVerb -> "query"
    [] OTHER -> "body"
AutoBound(f, pathNames, bodyVerb) ==
  ~ExplicitlyBound(f) /\ RequestFieldBinding(f, pathNames, bodyVerb) \in {"path", "query"}

WireName(f, binding) == IF Has(f, binding) /\ f.wire # None THEN f.wire ELSE f.name
CanonicalWireName(binding, name) ==
  IF binding = "header"
  THEN Eager([i \in DOMAIN name |-> IF name[i] \in DOMAIN Lower THEN Lower[name[i]] ELSE name[i]])
  ELSE name
WireKey(f, binding) == <<binding, CanonicalWireName(binding, WireName(f, binding))>>

(* JSONShape: `?` wins over @nullable.                                     *)
JSONName(f) == IF f.key # None THEN f.key ELSE f.name
OnWireBody(f) == ~NonBodyBindingKind(f) /\ ~Has(f, "sensitive")
JSONPresence(f) ==
  CASE ~OnWireBody(f) -> "absent"
    [] f.ref.opt -> "optional"
    [] Has(f, "nullable") -> "nullable"
    [] OTHER -> "required"

(***************************************************************************)
(* The fields of a request, a response or an error, mixins included.       *)
(***************************************************************************)
Flattened(D, ref) ==
  LET FieldsOf(flat) == Eager([i \in DOMAIN flat |-> flat[i].field])
  IN  FieldsOf(InstanceFields(D, D[1].pkg, ref))

(* RequestFields: each field with where it rides.                          *)
RequestFields(D, m) ==
  LET body == IsBodyVerb(m.verb)
      Bound(fields) ==
        Eager([i \in DOMAIN fields |->
          [f |-> fields[i], at |-> RequestFieldBinding(fields[i], m.vars, body),
           auto |-> AutoBound(fields[i], m.vars, body)]])
  IN  Bound(Flattened(D, m.req))

Riding(fields, where) == SelectSeq(fields, LAMBDA rf : rf.at \in where)

(* FormParts: no multipart without a file.                                 *)
BodyParts(fields) == Riding(fields, {"body", "form"})
IsMultipart(fields) == \E rf \in Elements(BodyParts(fields)) : IsFileTypeRef(rf.f.ref)
FileParts(fields) ==
  IF IsMultipart(fields) THEN SelectSeq(BodyParts(fields), LAMBDA rf : IsFileTypeRef(rf.f.ref)) ELSE <<>>
TextParts(fields) ==
  IF IsMultipart(fields) THEN SelectSeq(BodyParts(fields), LAMBDA rf : ~IsFileTypeRef(rf.f.ref)) ELSE <<>>

(* inlineDecorators: the groups of the mixins of td, then its own.         *)
RECURSIVE InlineGroups(_, _, _)
InlineGroups(D, td, seen) ==
  UNION {LET mx == Lookup(D, td.pkg, td.body[i].ref, {"type"})
         IN  IF IsField(td.body[i]) \/ mx = NoDecl \/ mx.name \in seen THEN {}
             ELSE InlineGroups(D, mx, seen \cup {mx.name}) : i \in DOMAIN td.body}
    \cup Elements(td.groups)

TypeOf(D, ref) == Lookup(D, D[1].pkg, ref, {"type"})

(***************************************************************************)

Null == [k |-> "null"]
Nil == [k |-> "nil"]
Bad == [k |-> "bad"]
Tok(v) == [k |-> "tok", v |-> v]
Obj(members) == [k |-> "obj", members |-> members]
Arr(elems) == [k |-> "list", elems |-> elems]

IsObj(j) == j.k = "obj"
IsList(j) == j.k = "list"
Member(j, key) == IF IsObj(j) /\ key \in DOMAIN j.members THEN j.members[key] ELSE Bad
Present(j, key) == IsObj(j) /\ key \in DOMAIN j.members

(* A list or an object of parts, Bad when one of them is.                  *)
Undamaged(parts, x) == IF \E i \in DOMAIN parts : parts[i] = Bad THEN Bad ELSE x
WholeList(elems) == Undamaged(elems, Arr(elems))
WholeObj(members) == Undamaged(members, Obj(members))

(* The members of the type ref names, its parameters bound.                *)
ClosedBody(D, ref) ==
  LET td == TypeOf(D, ref)
      subst == SubstMap(td.params, ref.args)
  IN  Eager([i \in DOMAIN td.body |-> [td.body[i] EXCEPT !.ref = SubstituteTypeRef(@, subst)]])

MixinRefs(D, ref) ==
  {m.ref : m \in {n \in Elements(ClosedBody(D, ref)) : ~IsField(n) /\ TypeOf(D, n.ref) # NoDecl}}

(* The Go type of a field: @nullable is the pointer `?` is.                *)
GoRef(f) == [f.ref EXCEPT !.opt = FieldIsOptional(f)]

RECURSIVE Zero(_, _, _)
Zero(D, t, raw) ==
  IF t.opt \/ IsNilable(D, t, raw) THEN Nil
  ELSE IF Category(D, t, raw) # "struct" THEN Tok("zero")
  ELSE LET Of(f) == Zero(D, GoRef(f), Has(f, "raw"))
           Each(fields) == [n \in {f.name : f \in fields} |-> Of(CHOOSE f \in fields : f.name = n)]
       IN  Obj(Each(Elements(Flattened(D, t))))

(* encoding/json into a Go value of type t.                                *)
RECURSIVE Decode(_, _, _, _)
DecodeFields(D, fields, j) ==
  [n \in {f.name : f \in fields} |->
    LET f == CHOOSE g \in fields : g.name = n
    IN  IF OnWireBody(f) /\ Present(j, JSONName(f))
        THEN Decode(D, GoRef(f), Has(f, "raw"), Member(j, JSONName(f)))
        ELSE Zero(D, GoRef(f), Has(f, "raw"))]

DecodeAs(D, t, cat, raw, j) ==
  IF cat = "raw" THEN j
  ELSE IF j = Null THEN Zero(D, t, raw)
  ELSE CASE cat = "any" -> j
         [] cat = "array" -> IF IsList(j) THEN WholeList(Eager([i \in DOMAIN j.elems |-> Decode(D, Elem(t), FALSE, j.elems[i])])) ELSE Bad
         [] cat = "map" -> IF IsObj(j) THEN WholeObj([x \in DOMAIN j.members |-> Decode(D, t.args[2], FALSE, j.members[x])]) ELSE Bad
         [] cat = "struct" -> IF IsObj(j) THEN WholeObj(DecodeFields(D, Elements(Flattened(D, t)), j)) ELSE Bad
         [] cat = "enum" -> IF j.k = "tok" THEN j ELSE Bad
         [] OTHER -> IF j.k = "tok" /\ j # Tok("odd") THEN j ELSE Bad

Decode(D, t, raw, j) == DecodeAs(D, t, Category(D, t, raw), raw, j)

-----------------------------------------------------------------------------
(***************************************************************************)
(* Validate.                                                               *)
(***************************************************************************)
EnumMember(D, t, v) ==
  v \in {Tok("good"), Tok("def")} \/ (v = Tok("zero") /\ TypeOf(D, t) = NoDecl
                                        /\ Lookup(D, D[1].pkg, t, {"enum"}).zero)

(* requiredCheck, typeParamPresence.                                       *)
PresenceChecked(f) == IF ParamTyped(f) THEN {"file", "any"} ELSE {"file", "any", "cookie", "raw"}

RequiredCheck(D, f, v) ==
  ~(RuntimeEnforced(f) /\ Category(D, f.ref, Has(f, "raw")) \in PresenceChecked(f) /\ v = Nil)

(* requiresOneOfCheck, mutuallyExclusiveCheck: a raw null is unset.        *)
GroupHolds(g, set) ==
  LET n == Cardinality(g.names \cap set)
  IN  IF g.kind = "requiresOneOf" THEN n >= 1 ELSE n <= 1

RECURSIVE ValidateValue(_, _, _), ValidateStruct(_, _, _)
ValidateValue(D, t, v) ==
  LET cat == Category(D, t, FALSE)
  IN  CASE v = Nil -> TRUE
        [] cat = "array" -> \A i \in DOMAIN v.elems : ValidateValue(D, Elem(t), v.elems[i])
        [] cat = "map" -> \A x \in DOMAIN v.members : ValidateValue(D, t.args[2], v.members[x])
        [] cat = "enum" -> EnumMember(D, t, v)
        [] cat = "struct" -> ValidateStruct(D, t, v)
        [] OTHER -> TRUE

ValidateStruct(D, ref, v) ==
  LET body == ClosedBody(D, ref)
      at(n) == v.members[n]
  IN  /\ \A f \in Elements(Fields(body)) :
           ~Has(f, "sensitive") => RequiredCheck(D, f, at(f.name)) /\ ValidateValue(D, GoRef(f), at(f.name))
      /\ \A mx \in MixinRefs(D, ref) : ValidateStruct(D, mx, v)
      /\ \A g \in Elements(TypeOf(D, ref).groups) : GroupHolds(g, {n \in g.names : at(n) \notin {Nil, Null}})

-----------------------------------------------------------------------------
(***************************************************************************)
(* The document.  The schema of `any` and of a raw field is empty, so it   *)
(* admits null even where the member is required.                          *)
(***************************************************************************)
Fits(D, t, j) ==
  IF Category(D, t, FALSE) = "enum" THEN EnumMember(D, t, j) ELSE j \in {Tok("good"), Tok("zero"), Tok("def")}

RECURSIVE Admits(_, _, _), AdmitsStruct(_, _, _)
(* schemaForTypeRef.                                                       *)
Admits(D, t, j) ==
  LET cat == Category(D, t, FALSE)
  IN  CASE cat = "array" -> IsList(j) /\ \A i \in DOMAIN j.elems : Admits(D, Elem(t), j.elems[i])
        [] cat = "map" -> IsObj(j) /\ \A x \in DOMAIN j.members : Admits(D, t.args[2], j.members[x])
        [] cat = "any" -> TRUE
        [] j = Null -> t.opt
        [] cat = "struct" -> AdmitsStruct(D, t, j)
        [] OTHER -> Fits(D, t, j)

(* primitiveSchema of any, and @format(raw).                               *)
EmptySchema(D, f) == Has(f, "raw") \/ Category(D, f.ref, FALSE) = "any"

(* addBodyProperty: a property of the object j.                            *)
AdmitsProperty(D, f, j) ==
  LET x == Member(j, JSONName(f))
  IN  IF ~Present(j, JSONName(f)) THEN ~SpecRequired(f)
      ELSE \/ EmptySchema(D, f)
           \/ x = Null /\ FieldIsOptional(f)
           \/ x # Null /\ Admits(D, NonNull(f.ref), x)

(* crossFieldSchemaFragments with presentNonNull.                          *)
AdmitsGroup(D, td, g, j) ==
  LET fields == Elements(Flattened(D, [pkg |-> None, name |-> td.name, args |-> <<>>, par |-> FALSE]))
      key(n) == JSONName(CHOOSE f \in fields : f.name = n)
  IN  GroupHolds(g, {n \in g.names : Present(j, key(n)) /\ Member(j, key(n)) # Null})

(* schemaFromTypeDecl: its properties, its mixins' schemas, its groups.    *)
AdmitsStruct(D, ref, j) ==
  LET td == TypeOf(D, ref)
  IN  /\ IsObj(j)
      /\ \A f \in Elements(Fields(ClosedBody(D, ref))) : OnWireBody(f) => AdmitsProperty(D, f, j)
      /\ \A mx \in MixinRefs(D, ref) : AdmitsStruct(D, mx, j)
      /\ \A g \in Elements(td.groups) : AdmitsGroup(D, td, g, j)
=============================================================================
