-------------------------- MODULE ConstraintChecks --------------------------
(***************************************************************************)
(* The two readings of one field: the checks the generated program runs    *)
(* on its value, and the schema the document publishes for it.             *)
(***************************************************************************)
EXTENDS ConstraintRules

(***************************************************************************)
(* The checks a generated Validate() runs on a field's value               *)
(* (internal/codegen/golang/validate_*.go, transport_defaults.go), and the *)
(* Go value a wire value decodes to.                                       *)
(*                                                                         *)
(* A wire value has the shape of a literal: number, string, bool, null,    *)
(* bytes (base64 of v bytes), datetime (instant v, zone text), file (v     *)
(* bytes of type text), array, and object, whose els are pairs [key, val]. *)
(* A check is [kind, ends, arg, names, prim, guard, pointer]: it fails a   *)
(* value past one of its ends, or by its arg, or by its names; a guarded   *)
(* check passes nil, and a pointer it does not guard is dereferenced.      *)
(***************************************************************************)

Optional(D) == D.t.opt \/ Has(D.decs, "nullable")          \* NeedsNilGuard
Nilable(D, t) == ~IsNamed(t) \/ PrimOf(D, t) \in {"bytes", "any"}
GoPointer(D) ==
  \/ IsNamed(D.t) /\ D.t.name \in {"file", "cookie"}
  \/ Optional(D) /\ ~Nilable(D, D.t)

(* fieldTarget and primTarget.                                             *)
FieldTarget(D) ==
  [cat |-> CASE D.t.arr > 0 -> "array" [] D.t.key # "" -> "map" [] OTHER -> "flat",
   prim |-> CheckedPrim(D, D.t), pointer |-> GoPointer(D), nilGuard |-> Optional(D)]
PrimTarget(prim) == [cat |-> "flat", prim |-> prim, pointer |-> FALSE, nilGuard |-> FALSE]
MayBeNil(t) == t.pointer \/ t.nilGuard

Check(t, kind) ==
  [kind |-> kind, ends |-> {}, arg |-> 0, names |-> {}, prim |-> t.prim,
   guard |-> MayBeNil(t), pointer |-> t.pointer]
Ends(t, kind, ends) == IF ends = {} THEN <<>> ELSE <<[Check(t, kind) EXCEPT !.ends = ends]>>

(* boundLiteral, as the compiler converts it to the type of the value.     *)
BoundLiteral(prim, e) ==
  IF IsInteger(prim) THEN Rat(e) ELSE AtBits(Text(e), Bits(prim))

(* numericBoundCheck and rangeCheck: each end the type does not enforce.   *)
NumericBoundCheck(t, d) ==
  IF ~IsNumeric(t.prim) THEN <<>>
  ELSE Ends(t, "value", {[side |-> b.side, n |-> BoundLiteral(t.prim, b.value)] :
         b \in {b \in Range(BoundsOf(<<d>>, 1)) : ~BoundImpliedByType(t.prim, b)}})

SignCheck(t, d) ==
  IF ~IsNumeric(t.prim) THEN <<>> ELSE Ends(t, "value", {[side |-> BoundSides(d.name)[1], n |-> 0]})

MultipleOfCheck(t, d) ==
  IF ~IsInteger(t.prim) \/ ~IsWhole(d.args[1]) \/ Rat(d.args[1]) = 0 THEN <<>>
  ELSE <<[Check(t, "multiple") EXCEPT !.arg = Rat(d.args[1])]>>

(* lengthCheck and minMaxLengthCheck: one length on both sides is one      *)
(* comparison, else each end some length fails.                            *)
LengthCheck(t, d) ==
  LET Exactly(bs) == Len(bs) = 2 /\ Rat(bs[1].value) = Rat(bs[Len(bs)].value)
      Asked(bs, asked) ==
        IF asked = {} THEN <<>>
        ELSE Ends(t, "length", {[side |-> b.side, n |-> Rat(b.value)] :
               b \in IF Exactly(bs) THEN Range(bs) ELSE asked})
      Of(bs) == Asked(bs, {b \in Range(bs) : ~BoundImpliedByType(t.prim, b)})
  IN  IF Kind(t.prim) \notin {"string", "bytes"} THEN <<>> ELSE Of(BoundsOf(<<d>>, 1))

PatternCheck(t, d) ==
  IF Kind(t.prim) # "string" THEN <<>>
  ELSE <<[Check(t, "text") EXCEPT !.names = {d.args[1].text}]>>
FormatCheck(t, d) ==
  IF Kind(t.prim) # "string" \/ d.args[1].text \notin Formats THEN <<>>
  ELSE <<[Check(t, "text") EXCEPT !.names = {d.args[1].text}]>>

ItemsBoundCheck(t, d) ==
  LET Of(b) == IF BoundImpliedByType(t.prim, b) THEN <<>>
               ELSE Ends(t, "items", {[side |-> b.side, n |-> Rat(b.value)]})
  IN  IF t.cat = "flat" THEN <<>> ELSE Of(BoundsOf(<<d>>, 1)[1])
UniqueItemsCheck(t, d) == IF t.cat # "array" THEN <<>> ELSE <<[Check(t, "unique") EXCEPT !.guard = FALSE]>>

MaxSizeCheck(t, d) ==
  IF Kind(t.prim) # "file" THEN <<>>
  ELSE <<[Check(t, "size") EXCEPT !.ends = {[side |-> Side(FALSE, FALSE), n |-> SizeBytes(d.args[1])]}]>>
MimeTypesCheck(t, d) ==
  LET names == {ArgNames(d)[i].text : i \in DOMAIN ArgNames(d)}
  IN  IF Kind(t.prim) # "file" \/ "*/*" \in names THEN <<>>
      ELSE <<[Check(t, "mime") EXCEPT !.names = names]>>

(* goChecks.                                                               *)
GoCheck(t, d) ==
  CASE d.name \in {"gt", "gte", "lt", "lte", "range"} -> NumericBoundCheck(t, d)
    [] d.name \in {"positive", "negative"} -> SignCheck(t, d)
    [] d.name = "multipleOf" -> MultipleOfCheck(t, d)
    [] d.name \in {"length", "minLength", "maxLength"} -> LengthCheck(t, d)
    [] d.name = "pattern" -> PatternCheck(t, d)
    [] d.name = "format" -> FormatCheck(t, d)
    [] d.name \in {"minItems", "maxItems"} -> ItemsBoundCheck(t, d)
    [] d.name = "uniqueItems" -> UniqueItemsCheck(t, d)
    [] d.name = "maxSize" -> MaxSizeCheck(t, d)
    [] d.name = "mimeTypes" -> MimeTypesCheck(t, d)
    [] OTHER -> <<>>
DecoratorChecks(t, decs) == FlattenSeq([i \in DOMAIN decs |-> GoCheck(t, decs[i])])

(* primValueChecks: a scalar's or an enum's value is tested as its         *)
(* primitive, in a block that guards it as its field is guarded.           *)
GuardedAs(t, cs) == [i \in DOMAIN cs |-> [cs[i] EXCEPT !.guard = MayBeNil(t), !.pointer = t.pointer]]
PrimValueChecks(D) == GuardedAs(FieldTarget(D), DecoratorChecks(PrimTarget(CheckedPrim(D, D.t)), D.decs))

FieldChecks(D) ==
  IF IsNamed(D.t) /\ D.t.name \in {Scalar, Enum} THEN PrimValueChecks(D)
  ELSE DecoratorChecks(FieldTarget(D), D.decs)

(* scalarValidateChecks; a raw scalar has no Validate.                     *)
ScalarChecks(D) ==
  IF HasRawFormat(D.scalarDecs) THEN <<>> ELSE DecoratorChecks(PrimTarget(D.prim), D.scalarDecs)

(***************************************************************************)
(* What the decoder takes, and the Go value it leaves.                     *)
(***************************************************************************)
GreatestOffset == "+24:00"      \* an offset the decoder takes and RFC 3339 does not
DecodesPrim(prim, w) ==
  CASE IsInteger(prim) -> w.kind = "number" /\ IsInt(w.v) /\ Holds(Capacity(prim), w.v)
    [] Kind(prim) = "float" -> w.kind = "number" /\ ~Overflows(w.v, Bits(prim))
    [] Kind(prim) \in {"string", "bool", "bytes", "datetime", "file"} -> w.kind = Kind(prim)
    [] OTHER -> TRUE
DecodesNamed(D, name, w) ==
  IF IsStruct(D, name) THEN w.kind = "object"
  ELSE DecodesPrim(CheckedPrim(D, [arr |-> 0, key |-> "", name |-> name, opt |-> FALSE]), w)
Decodes(D, w) ==
  CASE D.t.arr > 0 -> w.kind = "array" /\ \A i \in DOMAIN w.els : DecodesNamed(D, D.t.name, w.els[i])
    [] D.t.key # "" -> /\ w.kind = "object"
                       /\ \A i \in DOMAIN w.els : /\ DecodesNamed(D, D.t.key, w.els[i].key)
                                                  /\ DecodesNamed(D, D.t.name, w.els[i].val)
    [] OTHER -> DecodesNamed(D, D.t.name, w)

GoNumber(prim, w) == IF Kind(prim) = "float" THEN AtBits(w.v, Bits(prim)) ELSE w.v

(* What == tells of two elements at places i and j: a pointer, and the     *)
(* location a time.Time holds, compare by address.                         *)
RECURSIVE GoEqual(_, _, _, _)
GoEqual(D, t, x, y) ==
  CASE IsStruct(D, t.name) ->
         \A i \in DOMAIN D.structs[t.name] :
           LET m == D.structs[t.name][i]
           IN  IF MemberPointer(D, m) THEN x.els[i].val.kind = "null" /\ y.els[i].val.kind = "null"
               ELSE GoEqual(D, m.t, x.els[i].val, y.els[i].val)
    [] t.name \in {"datetime", "file", "cookie"} -> FALSE
    [] x.kind = "number" -> GoNumber(CheckedPrim(D, t), x) = GoNumber(CheckedPrim(D, t), y)
    [] OTHER -> x = y

Passes(D, c, w) ==
  LET In(q) == \A e \in c.ends : ~Fails(e.side, q, e.n)
  IN  CASE c.kind = "value" -> In(GoNumber(c.prim, w))
        [] c.kind = "multiple" -> w.v % c.arg = 0
        [] c.kind = "length" -> In((IF w.kind = "bytes" THEN w.v ELSE Length(w.text)) * Whole)
        [] c.kind = "items" -> In(Len(w.els) * Whole)
        [] c.kind = "text" -> \A n \in c.names : Meets(w.text, n)
        [] c.kind = "unique" ->
             \A i, j \in DOMAIN w.els : i # j => ~GoEqual(D, ElemType(D.t), w.els[i], w.els[j])
        [] c.kind = "size" -> In(w.v)
        [] c.kind = "mime" -> \E n \in c.names : Meets(w.text, n)

(* enumValidateChecks, and the Validate calls of validateCalls.            *)
EnumValidates(D, w) == \E i \in DOMAIN D.enum : LET m == EnumMemberWire(D.enum[i]) IN w.v = m.v /\ w.text = m.text
LeafValidates(D, checks, name, w) ==
  CASE name = Scalar -> \A i \in DOMAIN checks : Passes(D, checks[i], w)
    [] name = Enum -> EnumValidates(D, w)
    [] name = "datetime" -> w.text # GreatestOffset
    [] OTHER -> TRUE
ValidateCalls(D, checks, w) ==
  CASE D.t.arr > 0 -> \A i \in DOMAIN w.els : LeafValidates(D, checks, D.t.name, w.els[i])
    [] D.t.key # "" -> \A i \in DOMAIN w.els : /\ LeafValidates(D, checks, D.t.key, w.els[i].key)
                                               /\ LeafValidates(D, checks, D.t.name, w.els[i].val)
    [] OTHER -> LeafValidates(D, checks, D.t.name, w)

(***************************************************************************)
(* The schema the OpenAPI document gives a field, and what a reader of it  *)
(* admits (internal/codegen/docs/openapi_keywords.go, openapi_fields.go,   *)
(* openapi_typeref.go, openapi_schemas.go).                                *)
(*                                                                         *)
(* A schema is [types, kw, pattern, format, unique]: types the JSON types  *)
(* it lists (none: any), kw its numeric keywords, each a stored number     *)
(* [exact, v]: a float64, or the digits of an integer no float64 holds.    *)
(***************************************************************************)

Schema(types) == [types |-> types, kw |-> <<>>, pattern |-> "", format |-> "", unique |-> FALSE]
Holding(s, key) == key \in DOMAIN s.kw
Drop(s, keys) == [s EXCEPT !.kw = [k \in DOMAIN @ \ keys |-> @[k]]]

(* setNumber and schemaNumber.                                             *)
SetNumber(s, key, n) ==
  LET exact == IsInt(n) /\ Abs(n) > Exact * Whole
  IN  [s EXCEPT !.kw = (key :> [exact |-> exact, v |-> IF exact THEN n ELSE AtBits(n, 64)]) @@ @]
SchemaNumber(s, key) == s.kw[key].v

PrimitiveSchema(prim) ==
  LET s == Schema(CASE IsInteger(prim) -> {"integer"}
                    [] Kind(prim) = "float" -> {"number"}
                    [] Kind(prim) = "bool" -> {"boolean"}
                    [] prim = "any" -> {}
                    [] OTHER -> {"string"})
  IN  CASE IsUnsigned(prim) \/ (IsInteger(prim) /\ Bits(prim) > 0) ->
             SetNumber(SetNumber(s, "minimum", Capacity(prim).lo), "maximum", Capacity(prim).hi)
        [] prim = "float32" ->
             SetNumber(SetNumber(s, "exclusiveMinimum", -Overflow(32)), "exclusiveMaximum", Overflow(32))
        [] prim = "datetime" -> [s EXCEPT !.format = "datetime"]
        [] OTHER -> s

(* tightenBound keeps the tighter of two bounds on a side, an exclusive    *)
(* one of two alike.                                                       *)
BoundKeyword(side) ==
  CASE side.lower /\ side.strict -> "exclusiveMinimum"
    [] side.lower -> "minimum"
    [] side.strict -> "exclusiveMaximum"
    [] OTHER -> "maximum"

TightenBound(s, side, n) ==
  LET loose == IF side.lower THEN "minimum" ELSE "maximum"
      strict == IF side.lower THEN "exclusiveMinimum" ELSE "exclusiveMaximum"
      Tighter(held) == IF side.lower THEN SchemaNumber(s, held) - n ELSE n - SchemaNumber(s, held)
      kept == \E held \in {loose, strict} :
                /\ Holding(s, held)
                /\ Tighter(held) > 0 \/ (Tighter(held) = 0 /\ (held = strict \/ ~side.strict))
  IN  IF kept THEN s ELSE SetNumber(Drop(s, {loose, strict}), BoundKeyword(side), n)

(* floatBound: the literal or the float the check compares with, whichever *)
(* judges both as the check does.                                          *)
FloatBound_literal(side, e, bits) == Rat(e)
FloatBound(side, e, bits) ==
  LET checked == AtBits(Text(e), bits)
      sent == AtBits(Rat(e), bits)
      admitsLiteral == ~Fails(side, sent, checked)
      literalLooser == (Rat(e) < checked) = side.lower
  IN  IF Overflows(Text(e), bits) \/ Overflows(Rat(e), bits) \/ admitsLiteral = literalLooser
      THEN Rat(e) ELSE checked

EmitBound(s, b, prim) ==
  TightenBound(s, b.side,
    IF Kind(prim) = "float" THEN FloatBound(b.side, b.value, Bits(prim)) ELSE Rat(b.value))

(* valueKeywords and lengthKeywords, one bound after another.              *)
ValueKeywords(s, bs, prim) == FoldLeft(LAMBDA acc, b : EmitBound(acc, b, prim), s, bs)

SetCount(s, key, n) == [s EXCEPT !.kw = (key :> [exact |-> TRUE, v |-> n]) @@ @]
SetMinLen(s, n) == IF n > (IF Holding(s, "minLength") THEN SchemaNumber(s, "minLength") ELSE 0)
                   THEN SetCount(s, "minLength", n) ELSE s
SetMaxLen(s, n) == IF Holding(s, "maxLength") /\ SchemaNumber(s, "maxLength") <= n THEN s
                   ELSE SetCount(s, "maxLength", n)
LengthKeywords(s, bs, prim) ==
  IF Kind(prim) = "bytes" THEN s
  ELSE FoldLeft(LAMBDA acc, b : IF b.side.lower THEN SetMinLen(acc, Rat(b.value))
                                ELSE SetMaxLen(acc, Rat(b.value)), s, bs)

ItemCountKeywords(s, b) ==
  LET of == IF "array" \in s.types THEN <<"minItems", "maxItems">> ELSE <<"minProperties", "maxProperties">>
  IN  IF s.types \intersect {"array", "object"} = {} THEN s
      ELSE SetCount(s, IF b.side.lower THEN of[1] ELSE of[2], Rat(b.value))

(* schemaKeywords: one decorator on the schema of a value of prim.         *)
Keyword(d, s, prim) ==
  LET bs == BoundsOf(<<d>>, 1)
  IN  CASE d.name \in {"gt", "gte", "lt", "lte", "range", "positive", "negative"} -> ValueKeywords(s, bs, prim)
        [] d.name \in {"length", "minLength", "maxLength"} -> LengthKeywords(s, bs, prim)
        [] d.name = "multipleOf" -> SetNumber(s, "multipleOf", Rat(d.args[1]))
        [] d.name = "pattern" -> [s EXCEPT !.pattern = d.args[1].text]
        [] d.name = "format" ->
             IF d.args[1].text = FormatRaw THEN [s EXCEPT !.types = {}, !.format = ""]
             ELSE [s EXCEPT !.format = d.args[1].text]
        [] d.name \in {"minItems", "maxItems"} -> ItemCountKeywords(s, bs[1])
        [] d.name = "uniqueItems" -> [s EXCEPT !.unique = "array" \in s.types]
        [] OTHER -> s

ApplyConstraintFamilies(decs, s, fams, prim) ==
  FoldLeft(LAMBDA acc, d : IF ConstraintOf(d.name) \in fams THEN Keyword(d, acc, prim) ELSE acc, s, decs)
Narrowing == {"numeric", "length", "text"}
ApplyFieldConstraints(decs, s, prim) ==
  ApplyConstraintFamilies(decs, s, Narrowing \union {"items"}, prim)

ScalarSchema(D) == ApplyFieldConstraints(D.scalarDecs, PrimitiveSchema(D.prim), D.prim)

(* propertyNamesForMapKey, of a key that is no enum: a string scalar's     *)
(* constraints; a numeric scalar's bounds have no form there.              *)
PropertyNames(D) ==
  IF D.t.key = Scalar /\ D.prim = "string"
  THEN ApplyConstraintFamilies(D.scalarDecs, Schema({"string"}), {"length", "text"}, D.prim)
  ELSE Schema({"string"})

(* schemaForTypeRef and applyFieldMetadata: [form, s], form the wrapper a  *)
(* $ref takes beside keywords, or the lack of one.                         *)
Narrows(decs) == \E i \in DOMAIN decs : ConstraintOf(decs[i].name) \in Narrowing
Refers(D) == IsNamed(D.t) /\ (D.t.name \in {Scalar, Enum} \/ IsStruct(D, D.t.name))
ApplyNullable(s) == IF s.types = {} THEN s ELSE [s EXCEPT !.types = @ \union {"null"}]

ApplyFieldMetadata(D) ==
  LET prim == CheckedPrim(D, D.t)
      own == CASE D.t.arr > 0 -> Schema({"array"})
               [] D.t.key # "" -> Schema({"object"})
               [] OTHER -> PrimitiveSchema(D.t.name)
      extra == ApplyFieldConstraints(D.decs, Schema({}), prim)
  IN  IF ~Refers(D)
      THEN [form |-> "own",
            s |-> ApplyFieldConstraints(D.decs, IF Optional(D) THEN ApplyNullable(own) ELSE own, prim)]
      ELSE IF Optional(D) THEN [form |-> "anyOf", s |-> extra]
      ELSE IF Narrows(D.decs) THEN [form |-> "allOf", s |-> extra]
      ELSE [form |-> "ref", s |-> Schema({})]

(***************************************************************************)
(* What a reader of the document admits.                                   *)
(***************************************************************************)
JsonTypes(w) ==
  CASE w.kind = "number" -> IF IsInt(w.v) THEN {"integer", "number"} ELSE {"number"}
    [] w.kind = "bool" -> {"boolean"}
    [] w.kind \in {"array", "object", "null"} -> {w.kind}
    [] OTHER -> {"string"}

Printed(x) == IF x.exact THEN x.v ELSE Shortest(x.v)
AdmitsKeywords(s, w) ==
  LET q == CASE w.kind = "number" -> w.v
             [] w.kind \in {"array", "object"} -> Len(w.els) * Whole
             [] w.kind = "string" -> Length(w.text) * Whole
             [] OTHER -> 0
      Bound(key, side) == Holding(s, key) => ~Fails(side, q, Printed(s.kw[key]))
  IN  /\ w.kind = "number" =>
           /\ Bound("minimum", Side(TRUE, FALSE)) /\ Bound("exclusiveMinimum", Side(TRUE, TRUE))
           /\ Bound("maximum", Side(FALSE, FALSE)) /\ Bound("exclusiveMaximum", Side(FALSE, TRUE))
           /\ Holding(s, "multipleOf") => q % Printed(s.kw["multipleOf"]) = 0
      /\ w.kind = "string" => Bound("minLength", Side(TRUE, FALSE)) /\ Bound("maxLength", Side(FALSE, FALSE))
      /\ w.kind = "array" => Bound("minItems", Side(TRUE, FALSE)) /\ Bound("maxItems", Side(FALSE, FALSE))
      /\ w.kind = "object" =>
           Bound("minProperties", Side(TRUE, FALSE)) /\ Bound("maxProperties", Side(FALSE, FALSE))

AdmitsSchema(s, w) ==
  /\ s.types # {} => s.types \intersect JsonTypes(w) # {}
  /\ AdmitsKeywords(s, w)
  /\ (w.kind = "string" /\ s.pattern # "") => Meets(w.text, s.pattern)
  /\ (w.kind = "string" /\ s.format # "") => Meets(w.text, s.format)
  /\ w.kind = "datetime" => w.text # GreatestOffset
  /\ (s.unique /\ w.kind = "array") => \A i, j \in DOMAIN w.els : w.els[i] = w.els[j] => i = j

(* A component or a built-in, by name; the enum lists its wire values.     *)
AdmitsNamed(D, scalar, name, w) ==
  CASE name = Scalar -> AdmitsSchema(scalar, w)
    [] name = Enum -> AdmitsSchema(Schema({IF EnumPrimitive(D) = "int" THEN "integer" ELSE "string"}), w)
                      /\ EnumValidates(D, w)
    [] IsStruct(D, name) -> w.kind = "object"
    [] OTHER -> AdmitsSchema(PrimitiveSchema(name), w)

AdmitsKey(D, names, key) ==
  CASE D.t.key = Enum -> EnumValidates(D, key)
    [] PrimOf(D, [D.t EXCEPT !.key = "", !.name = D.t.key]) = "string" -> AdmitsSchema(names, key)
    [] OTHER -> key.kind = "number" /\ IsInt(key.v)
                /\ (IsUnsigned(PrimOf(D, [D.t EXCEPT !.key = "", !.name = D.t.key])) => key.v >= 0)

AdmitsField(D, doc, w) ==
  CASE doc.field.form = "own" ->
         /\ AdmitsSchema(doc.field.s, w)
         /\ w.kind = "array" => \A i \in DOMAIN w.els : AdmitsNamed(D, doc.scalar, D.t.name, w.els[i])
         /\ w.kind = "object" => \A i \in DOMAIN w.els :
              AdmitsKey(D, doc.names, w.els[i].key) /\ AdmitsNamed(D, doc.scalar, D.t.name, w.els[i].val)
    [] doc.field.form = "anyOf" -> (w.kind = "null" \/ AdmitsNamed(D, doc.scalar, D.t.name, w))
                                   /\ AdmitsSchema(doc.field.s, w)
    [] OTHER -> AdmitsNamed(D, doc.scalar, D.t.name, w) /\ AdmitsSchema(doc.field.s, w)
=============================================================================
