-------------------------- MODULE ConstraintRules --------------------------
(***************************************************************************)
(* The rules on values: that the bounds of a field and of its scalar leave *)
(* one, that a @default is one and fits its type, that a map's key and a   *)
(* @uniqueItems element compare by value, that an enum's members differ    *)
(* (internal/semantic/constraint_checks.go, numeric_domain.go,             *)
(* value_literal_checks.go, collections_checks.go, enum_checks.go).        *)
(***************************************************************************)
EXTENDS Decorators

(***************************************************************************)
(* What the analysis asks of the constraints on a field and on the scalar  *)
(* its type names (internal/semantic/constraint_checks.go,                 *)
(* numeric_domain.go, types_compat.go, value_literal_checks.go,            *)
(* collections_checks.go, enum_checks.go).                                 *)
(*                                                                         *)
(* A design D holds one field of type D.t with decorators D.decs at level  *)
(* D.level, the scalar "S" of primitive D.prim with D.scalarDecs, the enum *)
(* "E" of members D.enum, [name, kind, wire] each, the structs D.structs   *)
(* (name to members, [t, decs] each) and the type parameters D.params.  A  *)
(* type is [arr, key, name, opt]: arr its array depth, key the name of a   *)
(* map's key, "" for no map, whose value name then is.                     *)
(***************************************************************************)

Scalar == "S"
Enum == "E"
ElemType(t) == [t EXCEPT !.arr = @ - 1, !.opt = FALSE]
IsMap(t) == t.arr = 0 /\ t.key # ""
IsNamed(t) == t.arr = 0 /\ t.key = ""
IsStruct(D, name) == name \in DOMAIN D.structs
IsParam(D, name) == name \in D.params

HasRawFormat(decs) ==
  Has(decs, "format") /\ LET d == Find(decs, "format") IN d.args # <<>> /\ d.args[1].text = FormatRaw

EnumPrimitive(D) == IF D.enum # <<>> /\ D.enum[1].kind = "int" THEN "int" ELSE "string"
EnumMember(D, name) == SelectSeq(D.enum, LAMBDA m : m.name = name)
EnumMemberWire(m) == IF m.kind = "bare" THEN Word("string", m.name) ELSE m.wire

(* primOf, checkedPrim, valuePrim: "" is no primitive.                     *)
PrimOf(D, t) == IF ~IsNamed(t) THEN "" ELSE IF t.name = Scalar THEN D.prim ELSE t.name
CheckedPrim(D, t) == IF IsNamed(t) /\ t.name = Enum THEN EnumPrimitive(D) ELSE PrimOf(D, t)
ValuePrim(D) == IF D.t.arr > 0 THEN "" ELSE CheckedPrim(D, D.t)

(***************************************************************************)
(* Types a decorator applies to.                                           *)
(***************************************************************************)
PrimFromName(prim) ==
  CASE IsInteger(prim) -> {"integer"}
    [] Kind(prim) \in {"string", "bytes", "float", "bool", "file", "datetime", "cookie"} -> {Kind(prim)}
    [] OTHER -> {}

ScalarWraps(prim) == PrimFromName(prim) \notin {{}, {"file"}, {"cookie"}, {"datetime"}}

ScalarPrims(D) ==
  IF D.prim = "bytes" /\ HasRawFormat(D.scalarDecs) THEN {"rawbytes"} ELSE PrimFromName(D.prim)

(* ResolvedField.Prims, of the categories resolveTypeRef finds.            *)
FieldPrims(D) ==
  CASE D.t.arr > 0 -> {"array"}
    [] D.t.key # "" -> {"map"}
    [] D.t.name = "bytes" /\ HasRawFormat(D.decs) -> {"rawbytes"}
    [] D.t.name = Scalar -> ScalarPrims(D)
    [] D.t.name = "any" -> {"any"}
    [] IsStruct(D, D.t.name) -> {"struct"}
    [] IsParam(D, D.t.name) -> {}
    [] OTHER -> PrimFromName(CheckedPrim(D, D.t))

(* @format's argument against the type, which AppliesTo cannot tell.       *)
FormatFits(d, actual) ==
  (d.name = "format" /\ d.args # <<>> /\ TextValue(d.args[1])) =>
    IF d.args[1].text = FormatRaw THEN actual = {"rawbytes"}
    ELSE actual \intersect {"bytes", "rawbytes"} = {}

Applies(d, actual) ==
  LET On(kinds) == kinds # {} => kinds \intersect actual # {}
  IN  Known(d.name) => On(DecoratorSpec(d.name).applies)

CheckBodyTypeCompat(D) ==
  \A i \in DOMAIN D.decs :
    FormatFits(D.decs[i], FieldPrims(D)) /\ (FieldPrims(D) # {} => Applies(D.decs[i], FieldPrims(D)))

CheckScalarTypeCompat(D) ==
  /\ ScalarWraps(D.prim)
  /\ \A i \in DOMAIN D.scalarDecs :
       FormatFits(D.scalarDecs[i], ScalarPrims(D)) /\ Applies(D.scalarDecs[i], ScalarPrims(D))

(***************************************************************************)
(* Bounds.  A side is [lower, strict].                                     *)
(***************************************************************************)
Side(lower, strict) == [lower |-> lower, strict |-> strict]
BoundDecorators ==
  LET On(limits, sides) == [limits |-> limits, sides |-> sides]
      AtLeast == Side(TRUE, FALSE)   Above == Side(TRUE, TRUE)
      AtMost == Side(FALSE, FALSE)   Below == Side(FALSE, TRUE)
  IN  [gt |-> On("value", <<Above>>), gte |-> On("value", <<AtLeast>>),
       lt |-> On("value", <<Below>>), lte |-> On("value", <<AtMost>>),
       range |-> On("value", <<AtLeast, AtMost>>),
       positive |-> On("value", <<Above>>), negative |-> On("value", <<Below>>),
       length |-> On("length", <<AtLeast, AtMost>>),
       minLength |-> On("length", <<AtLeast>>), maxLength |-> On("length", <<AtMost>>),
       minItems |-> On("item count", <<AtLeast>>), maxItems |-> On("item count", <<AtMost>>)]
Bounds(d) == d.name \in DOMAIN BoundDecorators
BoundSides(name) == BoundDecorators[name].sides

(* FailOp: what a quantity on each side of its limit fails by.             *)
Fails(side, q, n) ==
  CASE side.lower /\ side.strict -> q <= n
    [] side.lower -> q < n
    [] side.strict -> q >= n
    [] OTHER -> q > n

BoundArgs(d) ==
  LET args == IF d.name = "length" /\ Len(d.args) = 1 THEN <<d.args[1], d.args[1]>> ELSE d.args
  IN  IF Bounds(d) /\ Len(args) = Len(BoundSides(d.name)) THEN args ELSE <<>>

(* The bounds of one decorator, dec its place in decs.                     *)
BoundsOf(decs, i) ==
  LET d == decs[i]
      Put(B, args) ==
        [k \in DOMAIN args |-> [side |-> B.sides[k], dec |-> i, limits |-> B.limits, value |-> args[k]]]
      Numbers(args) == IF \E k \in DOMAIN args : ~ParseNumeric(args[k]) THEN <<>> ELSE args
  IN  IF ~Bounds(d) \/ \E j \in 1 .. i - 1 : decs[j].name = d.name THEN <<>>
      ELSE Put(BoundDecorators[d.name],
               IF DecoratorSpec(d.name).max = 0 THEN <<Lit("int", 0)>> ELSE Numbers(BoundArgs(d)))
DeclaredBounds(decs) == UNION {ToSet(BoundsOf(decs, i)) : i \in DOMAIN decs}

(***************************************************************************)
(* Scales: the quantities a bound meets as the generated check compares    *)
(* them.                                                                   *)
(***************************************************************************)
MaxLen == (2^(WideBits - 1) - 1) * Whole        \* math.MaxInt64, the greatest length
ScaleOf(prim, limits) ==
  CASE limits # "value" -> [whole |-> TRUE, bits |-> 0, lo |-> 0, hi |-> MaxLen]
    [] IsInteger(prim) ->
         [whole |-> TRUE, bits |-> 0, lo |-> Capacity(prim).lo, hi |-> Capacity(prim).hi]
    [] Kind(prim) = "float" ->
         [whole |-> FALSE, bits |-> Bits(prim),
          lo |-> -MaxFloat(Bits(prim)), hi |-> MaxFloat(Bits(prim))]
    [] OTHER -> [whole |-> FALSE, bits |-> 0, lo |-> 0, hi |-> 0]

OnWidth(sc, e) == ~Overflows(Text(e), sc.bits)
AtWidth(sc, e) == AtBits(Text(e), sc.bits)

Admits_written(b, prim, e) == ~Fails(b.side, Rat(e), Rat(b.value))
Admits(b, prim, e) ==
  LET sc == ScaleOf(prim, b.limits)
  IN  IF sc.bits # 0 /\ OnWidth(sc, e) /\ OnWidth(sc, b.value)
      THEN ~Fails(b.side, AtWidth(sc, e), AtWidth(sc, b.value))
      ELSE ~Fails(b.side, Rat(e), Rat(b.value))

(* A bound as a limit on its scale: `set` when `at` is the last quantity   *)
(* it admits, `none` when it admits none.                                  *)
LimitOn(sc, b) ==
  LET strict == IF b.side.strict THEN IF b.side.lower THEN Whole ELSE -Whole ELSE 0
      f == IF b.side.strict THEN NextFloat(AtWidth(sc, b.value), sc.bits, b.side.lower)
           ELSE AtWidth(sc, b.value)
      onScale == IF sc.whole THEN IsWhole(b.value) /\ Holds(sc, Rat(b.value))
                 ELSE sc.bits # 0 /\ OnWidth(sc, b.value)
      at == IF sc.whole THEN Rat(b.value) + strict ELSE f
      past == onScale /\ (\/ b.side.lower /\ at > sc.hi
                          \/ ~b.side.lower /\ at < sc.lo
                          \/ ~sc.whole /\ IsInf(at, sc.bits))
  IN  [bound |-> b, set |-> onScale /\ ~past, none |-> past,
       at |-> IF onScale THEN at ELSE 0]

(* BoundImpliedByType, of one bound.                                       *)
BoundImpliedByType(prim, b) ==
  LET Past(sc, l) == sc.whole /\ l.set /\ (IF b.side.lower THEN l.at <= sc.lo ELSE l.at >= sc.hi)
      On(sc) == Past(sc, LimitOn(sc, b))
  IN  On(ScaleOf(prim, b.limits))

(***************************************************************************)

(***************************************************************************)
(* What keys a map, what @uniqueItems can tell apart, and what an enum and *)
(* a type parameter ask (internal/semantic/collections_checks.go,          *)
(* enum_checks.go and checkValueConstraintOnTypeParam).                    *)
(***************************************************************************)

(* keyMarshalable, of the map's key in the field's type.                   *)
KeyMarshalable(D, key) ==
  /\ ~IsParam(D, key) /\ ~IsStruct(D, key)
  /\ \/ key = Enum
     \/ Kind(IF key = Scalar THEN D.prim ELSE key) \in {"string", "int", "uint"}
MapKeysComparable(D) == D.t.key # "" => KeyMarshalable(D, D.t.key)

(* GoPointer, of a struct's member: a file or a cookie spells its pointer, *)
(* any other optional value that holds no nil itself becomes one.          *)
MemberPointer(D, m) ==
  LET plain == IsNamed(m.t)
      prim == PrimOf(D, m.t)
  IN  \/ plain /\ prim \in {"file", "cookie"}
      \/ (m.t.opt \/ Has(m.decs, "nullable")) /\ plain /\ prim \notin {"bytes", "any"}

RECURSIVE Dedupes(_, _, _)
(* dedupeKeyProblem and structDedupeProblem, told the other way round:     *)
(* values of t compare by value as map keys.                               *)
StructDedupes(D, name, seen) ==
  name \in seen
    \/ \A i \in DOMAIN D.structs[name] :
         LET m == D.structs[name][i]
         IN  ~MemberPointer(D, m) /\ Dedupes(D, m.t, seen \union {name})
Dedupes(D, t, seen) ==
  /\ IsNamed(t)
  /\ IF IsStruct(D, t.name) THEN StructDedupes(D, t.name, seen)
     ELSE t.name = Enum \/ PrimOf(D, t) \notin {"datetime", "file", "cookie", "bytes", "any"}

CheckUniqueItemsComparable(D) ==
  (Has(D.decs, "uniqueItems") /\ D.t.arr > 0) =>
    ~IsParam(D, D.t.name) /\ ~IsParam(D, D.t.key) /\ Dedupes(D, ElemType(D.t), {})

CheckEnums(D) ==
  /\ D.enum # <<>>
  /\ \A i, j \in DOMAIN D.enum :
       /\ D.enum[i].kind = D.enum[j].kind
       /\ i # j => /\ D.enum[i].name # D.enum[j].name
                   /\ EnumMemberWire(D.enum[i]) # EnumMemberWire(D.enum[j])

CheckValueConstraintOnTypeParam(D) ==
  (D.t.arr = 0 /\ D.t.key = "" /\ IsParam(D, D.t.name)) =>
    \A i \in DOMAIN D.decs : ConstraintOf(D.decs[i].name) = "none"

(***************************************************************************)

(* valueConstraintSites of a field: its own decorators, then its scalar's. *)
(* A limit is of the checked site (own) or of the scalar behind it.        *)
FieldSites(D) ==
  <<D.decs>> \o (IF ValuePrim(D) # "" /\ D.t.name = Scalar THEN <<D.scalarDecs>> ELSE <<>>)

SiteLimits(prim, sites) ==
  UNION {{[own |-> s = 1, of |-> s, l |-> LimitOn(ScaleOf(prim, b.limits), b)] :
            b \in DeclaredBounds(sites[s])} : s \in DOMAIN sites}

(* numericArgs, checkCapacity, checkBoundCapacity,                         *)
(* checkIntBoundFloatLiteral.                                              *)
NumericArgs(d) ==
  IF ConstraintOf(d.name) = "numeric" /\ Arity(DecoratorSpec(d.name), Len(d.args))
  THEN SelectSeq(d.args, ParseNumeric) ELSE <<>>

CheckCapacity(prim, e) ==
  IF IsInteger(prim) THEN IsWhole(e) => Holds(Capacity(prim), Rat(e))
  ELSE prim = "float32" => Abs(FloatVal(e)) <= MaxFloat(32)

CheckBoundCapacity(prim, decs) ==
  \A i \in DOMAIN decs : \A e \in Range(NumericArgs(decs[i])) : CheckCapacity(prim, e)

CheckIntBoundFloatLiteral(prim, decs) ==
  IsInteger(prim) => \A i \in DOMAIN decs : \A e \in Range(NumericArgs(decs[i])) : IsWhole(e)

(* A lower and an upper limit of two decorators that no quantity meets:    *)
(* as written, or on the scale of the check.                               *)
Contradiction_written(lo, hi) ==
  LET c == Rat(lo.bound.value) - Rat(hi.bound.value)
  IN  c > 0 \/ (c = 0 /\ (lo.bound.side.strict \/ hi.bound.side.strict))
Contradiction(lo, hi) ==
  LET c == Rat(lo.bound.value) - Rat(hi.bound.value)
  IN  \/ c > 0
      \/ c = 0 /\ (lo.bound.side.strict \/ hi.bound.side.strict)
      \/ lo.set /\ hi.set /\ lo.at > hi.at

Contradict(ls) ==
  \E x, y \in ls :
    /\ x.l.bound.side.lower /\ ~y.l.bound.side.lower
    /\ x.l.bound.limits = y.l.bound.limits
    /\ <<x.of, x.l.bound.dec>> # <<y.of, y.l.bound.dec>>
    /\ x.own \/ y.own
    /\ Contradiction(x.l, y.l)

LimitsPastScale(ls) == \E x \in ls : x.own /\ x.l.none

(* reportNoMultiple: the bounds and divisors leave no multiple, and the    *)
(* checked site has a part in it.                                          *)
RECURSIVE Gcd(_, _)
Gcd(a, b) == IF b = 0 THEN a ELSE Gcd(b, a % b)
Lcm(a, b) == (a \div Gcd(a, b)) * b

NoMultiple(prim, sites, ls) ==
  LET sc == ScaleOf(prim, "value")
      Divisor(s) == Find(sites[s], "multipleOf").args[1]
      divided == {s \in DOMAIN sites :
        /\ Has(sites[s], "multipleOf")
        /\ Find(sites[s], "multipleOf").args # <<>>
        /\ LET e == Divisor(s)
           IN  ParseNumeric(e) /\ IsWhole(e) /\ Rat(e) > 0 /\ Rat(e) <= sc.hi}
      lcm == FoldSet(LAMBDA s, m : Lcm(m, Rat(Divisor(s)) \div Whole), 1, divided)
      Set(lower) == {x \in ls : x.l.bound.limits = "value" /\ x.l.set /\ x.l.bound.side.lower = lower}
      lo == {x \in Set(TRUE) : \A y \in Set(TRUE) : x.l.at >= y.l.at}
      hi == {x \in Set(FALSE) : \A y \in Set(FALSE) : x.l.at <= y.l.at}
      from == IF lo = {} THEN sc.lo ELSE (CHOOSE x \in lo : TRUE).l.at
      to == IF hi = {} THEN sc.hi ELSE (CHOOSE x \in hi : TRUE).l.at
      first == -(((-from) \div Whole) \div lcm) * lcm * Whole
  IN  /\ sc.whole /\ divided # {}
      /\ first > to
      /\ 1 \in divided \/ \E x \in lo \union hi : x.own

CheckValueDomain(prim, sites) ==
  LET Sound(ls) == ~Contradict(ls) /\ ~LimitsPastScale(ls) /\ ~NoMultiple(prim, sites, ls)
  IN  Sound(SiteLimits(prim, sites))

CheckValueRules(prim, sites) ==
  /\ CheckBoundCapacity(prim, sites[1])
  /\ CheckIntBoundFloatLiteral(prim, sites[1])
  /\ CheckValueDomain(prim, sites)

(***************************************************************************)
(* Literals: @default and @example.                                        *)
(***************************************************************************)
PrimitiveArgKind(prim) ==
  CASE Kind(prim) \in {"string", "bytes", "datetime"} -> "string"
    [] IsInteger(prim) -> "int"
    [] Kind(prim) = "float" -> "number"
    [] Kind(prim) = "bool" -> "bool"
    [] OTHER -> "any"

(* What a default may target: a primitive, an enum or a scalar that has a  *)
(* literal form, or one array of it.                                       *)
LiteralTarget(D, name) ==
  /\ D.t.arr <= 1
  /\ name = "default" =>
       /\ D.t.key = "" /\ ~IsStruct(D, D.t.name) /\ ~IsParam(D, D.t.name)
       /\ \/ D.t.name = Enum
          \/ PrimFromName(PrimOf(D, [D.t EXCEPT !.arr = 0]))
               \notin {{}, {"bytes"}, {"file"}, {"cookie"}, {"datetime"}}

CheckEnumLiteral(D, e) == e.kind = "identifier" /\ EnumMember(D, e.text) # <<>>

CheckPrimitiveLiteral(name, prim, e) ==
  LET want == PrimitiveArgKind(prim)
  IN  want # "any" =>
        /\ ExprMatchesKind(e, want)
        /\ (name = "default" /\ ParseNumeric(e)) => CheckCapacity(prim, e)

CheckElementType(D, name, t, e) ==
  /\ e.kind # "array"
  /\ IF ~IsNamed(t) THEN TRUE
     ELSE IF t.name = Enum THEN CheckEnumLiteral(D, e)
     ELSE CheckPrimitiveLiteral(name, PrimOf(D, t), e)

CheckLiteralType(D, name, e) ==
  IF D.t.arr = 0 THEN CheckElementType(D, name, D.t, e)
  ELSE e.kind = "array" /\ \A i \in DOMAIN e.els : CheckElementType(D, name, ElemType(D.t), e.els[i])

(* checkedValue: an enum member is checked as its wire value.              *)
CheckedValue(D, t, e) ==
  IF IsNamed(t) /\ t.name = Enum /\ e.kind = "identifier" /\ EnumMember(D, e.text) # <<>>
  THEN EnumMemberWire(EnumMember(D, e.text)[1]) ELSE e

(* Length(s) and Meets(s, x), what a text is to the constraints on it, are *)
(* the instance's.                                                         *)
CONSTANTS Length(_), Meets(_, _)
Count(n) == Lit("int", n * Whole)

TextConstraintBreach(d, text) ==
  d.name \in {"pattern", "format"} /\ d.args # <<>> /\ d.args[1].text # FormatRaw
    /\ ~Meets(text, d.args[1].text)

MeetsSite(decs, prim, e) ==
  /\ e.kind = "string" =>
       /\ \A b \in DeclaredBounds(decs) : b.limits = "length" => Admits(b, "", Count(Length(e.text)))
       /\ \A i \in DOMAIN decs : ~TextConstraintBreach(decs[i], e.text)
  /\ ParseNumeric(e) =>
       /\ \A b \in DeclaredBounds(decs) : b.limits = "value" => Admits(b, prim, e)
       /\ (Has(decs, "multipleOf") /\ IsInteger(prim)) =>
            LET div == Find(decs, "multipleOf").args[1]
            IN  (ParseNumeric(div) /\ FloatVal(div) # 0) => Rat(e) % Rat(div) = 0

CheckValueConstraints(sites, prim, e) ==
  ExprMatchesKind(e, PrimitiveArgKind(prim)) => \A s \in DOMAIN sites : MeetsSite(sites[s], prim, e)

(* literalKey: the value a literal holds as an element of its type.        *)
LiteralKey(prim, e) ==
  IF ParseNumeric(e)
  THEN Lit("key", IF Kind(prim) = "float" THEN AtBits(FloatVal(e), Bits(prim)) ELSE Rat(e))
  ELSE e

CheckDefaultConstraints(D, e) ==
  LET elem == ElemType(D.t)
      sites == IF elem.key = "" /\ elem.name = Scalar THEN <<D.scalarDecs>> ELSE <<>>
      prim == CheckedPrim(D, elem)
      vals == [i \in DOMAIN e.els |-> CheckedValue(D, elem, e.els[i])]
  IN  IF D.t.arr = 0 THEN CheckValueConstraints(FieldSites(D), CheckedPrim(D, D.t), CheckedValue(D, D.t, e))
      ELSE e.kind = "array" =>
        /\ \A b \in DeclaredBounds(D.decs) :
             b.limits = "item count" => Admits(b, "", Count(Len(e.els)))
        /\ Has(D.decs, "uniqueItems") =>
             \A i, j \in DOMAIN vals : LiteralKey(prim, vals[i]) = LiteralKey(prim, vals[j]) => i = j
        /\ \A i \in DOMAIN vals : CheckValueConstraints(sites, prim, vals[i])

CheckFieldDefault(D) ==
  Has(D.decs, "default") =>
    /\ LiteralTarget(D, "default")
    /\ ~Has(D.decs, "nullable")
    /\ LET d == Find(D.decs, "default")
       IN  Len(d.args) = 1 => CheckLiteralType(D, "default", d.args[1])
                              /\ CheckDefaultConstraints(D, d.args[1])

CheckFieldExample(D) ==
  Has(D.decs, "example") =>
    /\ LiteralTarget(D, "example")
    /\ LET d == Find(D.decs, "example")
       IN  \A i \in DOMAIN d.args : d.args[i].kind = "none" \/ CheckLiteralType(D, "example", d.args[i])
=============================================================================
