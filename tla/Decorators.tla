----------------------------- MODULE Decorators -----------------------------
(***************************************************************************)
(* The decorators craftgo knows, where each may sit and which arguments it *)
(* takes (internal/semantic/decorators.go, decorator_sites.go and          *)
(* decorator_arg_checks.go).                                               *)
(*                                                                         *)
(* A decorator is [name, args, named]: args its positional arguments,      *)
(* named its `name: value` ones as pairs.  A site is [level, decs].        *)
(***************************************************************************)
EXTENDS Integers, Sequences, SequencesExt, TLC

(***************************************************************************)
(* The numbers a design writes and the ones a generated program holds      *)
(* (internal/semantic/decorator_values.go, internal/prims/prims.go and the *)
(* conversions of math/big and strconv the generators call).               *)
(*                                                                         *)
(* A number is an integer count of parts, Whole of them to one, so that a  *)
(* fraction is a number too.  A float64 holds every half up to Exact ones  *)
(* (the code's 2^53 for whole numbers) and every other whole number beyond *)
(* it, a float32 every other float64.  A literal is an expression          *)
(*   [kind, v, text, els]                                                  *)
(* v its value when it is a number, a size or a duration, text the text of *)
(* a string or the name of an identifier, els the elements of an array.    *)
(***************************************************************************)

CONSTANTS Whole,        \* parts of one
          Exact,        \* the ones up to which a float64 holds every whole number
          NarrowBits,   \* the width of int8 and uint8, which stand for the narrow integers
          WideBits      \* the width of int and uint, which stand for the 64-bit integers

WholeHasParts == Whole \in Nat /\ Whole % 8 = 0 /\ Whole > 0
ExactOnes == Exact \in Nat \ {0}
Widths == NarrowBits \in Nat \ {0} /\ WideBits \in Nat /\ WideBits > NarrowBits

Abs(n) == IF n < 0 THEN -n ELSE n
IsInt(n) == n % Whole = 0

(* Rounding to the nearest multiple of step, a tie to the even one.        *)
Nearest(n, step) ==
  LET q == n \div step
      r == 2 * (n % step)
  IN  step * (IF r > step \/ (r = step /\ q % 2 = 1) THEN q + 1 ELSE q)

(* The gap between floats near n.                                          *)
Gap(n, bits) ==
  (IF bits = 32 THEN 2 ELSE 1) * (IF Abs(n) <= Exact * Whole THEN Whole \div 2 ELSE 2 * Whole)

(* Rat.Float64, Rat.Float32 and strconv.ParseFloat, and what overflows.    *)
AtBits(n, bits) == Nearest(n, Gap(n, bits))
MaxFloat(bits) == (IF bits = 32 THEN 2 ELSE 4) * Exact * Whole
Overflow(bits) == MaxFloat(bits) + Gap(MaxFloat(bits), bits) \div 2
Overflows(n, bits) == Abs(n) >= Overflow(bits)

(* math.Nextafter, Nextafter32: past the greatest float lies an infinity.  *)
NextFloat(f, bits, up) == IF up THEN f + Gap(f + 1, bits) ELSE f - Gap(f - 1, bits)
IsInf(f, bits) == Abs(f) > MaxFloat(bits)

(* The shortest text that reads back as float64 f: of a half it need not   *)
(* be the float itself, as 0.1 is not.                                     *)
Shortest(f) == IF f % (2 * Whole) = Whole \div 2 THEN f + 1 ELSE f

(***************************************************************************)
(* Literals.                                                               *)
(***************************************************************************)
Lit(kind, v) == [kind |-> kind, v |-> v, text |-> "", els |-> <<>>]
Word(kind, text) == [kind |-> kind, v |-> 0, text |-> text, els |-> <<>>]
ArrayLit(els) == [kind |-> "array", v |-> 0, text |-> "", els |-> els]
NoValue == Lit("none", 0)

ParseNumeric(e) == e.kind \in {"int", "float"}
Rat(e) == e.v
FloatVal(e) == AtBits(e.v, 64)
IsWhole(e) == IsInt(Rat(e))

(* NumericLit.Text: the digits of an integer, a float through a float64.   *)
Text(e) == IF e.kind = "int" THEN e.v ELSE Shortest(FloatVal(e))

IntArg(e) == e.kind = "int"
TextValue(e) == e.kind \in {"string", "identifier"}

(* A size literal is a number, v, and a unit, text.  scaleSize multiplies  *)
(* a whole number in the width of an int64 and divides to see it did not   *)
(* wrap, and truncates the product of a fraction.                          *)
CONSTANTS SizeUnits           \* unit to its bytes, "" to one
Half == 2^(WideBits - 1)
Wrap(n) == ((n + Half) % (2 * Half)) - Half
Quotient(a, b) == (IF (a < 0) = (b < 0) THEN 1 ELSE -1) * (Abs(a) \div Abs(b))
SizeArg_wrapped(e) == e.kind \in {"int", "size"}
SizeArg(e) ==
  \/ e.kind = "int"
  \/ /\ e.kind = "size"
     /\ LET mult == SizeUnits[e.text]
            n == e.v \div Whole
        IN  IF IsInt(e.v) THEN n = 0 \/ Quotient(Wrap(n * mult), n) = mult
            ELSE Abs(FloatVal(e) * mult) < Half * Whole
SizeBytes(e) ==
  IF e.kind = "int" THEN e.v \div Whole
  ELSE IF IsInt(e.v) THEN Wrap((e.v \div Whole) * SizeUnits[e.text])
  ELSE Quotient(FloatVal(e) * SizeUnits[e.text], Whole)

(* DurationArg: a bare integer counts seconds, more of which than a        *)
(* duration holds are refused.                                             *)
CONSTANTS Second,             \* the ticks of a second
          MaxDurationSeconds
DurationArg(e) ==
  \/ e.kind = "int" /\ Abs(e.v) <= MaxDurationSeconds * Whole
  \/ e.kind = "duration"
Duration(e) == IF e.kind = "int" THEN (e.v \div Whole) * Second ELSE e.v

(***************************************************************************)
(* The built-in types.                                                     *)
(***************************************************************************)
Kind(prim) ==
  CASE prim \in {"int", "int8"} -> "int"
    [] prim \in {"uint", "uint8"} -> "uint"
    [] prim \in {"float32", "float64"} -> "float"
    [] prim \in {"string", "bool", "bytes", "any", "datetime", "file", "cookie"} -> prim
    [] OTHER -> "none"

Bits(prim) ==
  CASE prim \in {"int8", "uint8"} -> NarrowBits
    [] prim = "float32" -> 32
    [] prim = "float64" -> 64
    [] OTHER -> 0

IsNumeric(prim) == Kind(prim) \in {"int", "uint", "float"}
IsInteger(prim) == Kind(prim) \in {"int", "uint"}
IsUnsigned(prim) == Kind(prim) = "uint"

(* Capacity, of an integer kind.                                           *)
Capacity(prim) ==
  LET bits == IF Bits(prim) = 0 THEN WideBits ELSE Bits(prim)
  IN  IF IsUnsigned(prim) THEN [lo |-> 0, hi |-> (2^bits - 1) * Whole]
      ELSE [lo |-> -(2^(bits - 1)) * Whole, hi |-> (2^(bits - 1) - 1) * Whole]
Holds(range, n) == range.lo <= n /\ n <= range.hi

(***************************************************************************)

CONSTANTS Formats,        \* the names strfmt validates, among the texts of a design
          Patterns,       \* the texts that are regular expressions
          MediaRanges     \* the texts that are a media type or a range of them

FormatRaw == "raw"
Dec(name, args) == [name |-> name, args |-> args, named |-> <<>>]
Named(decs, name) == SelectSeq(decs, LAMBDA d : d.name = name)
Has(decs, name) == \E i \in DOMAIN decs : decs[i].name = name
Find(decs, name) == Named(decs, name)[1]      \* ast.FindDecorator, where there is one

(* argKinds: the expressions each kind of argument accepts.                *)
Accepts(kind) ==
  CASE kind = "number" -> {"int", "float"}
    [] kind = "duration" -> {"duration", "int"}
    [] kind = "size" -> {"size", "int"}
    [] kind = "stringOrIdent" -> {"string", "identifier"}
    [] kind = "ident" -> {"identifier"}
    [] OTHER -> {kind}
ExprMatchesKind(e, kind) == kind = "any" \/ e.kind \in Accepts(kind)

(***************************************************************************)
(* The registry.  A Spec is the levels a decorator is legal at, the shape  *)
(* of its arguments, the categories of type it applies to (none: any) and  *)
(* what it constrains.                                                     *)
(***************************************************************************)
Flag(levels) ==
  [levels |-> levels, min |-> 0, max |-> 0, kinds |-> <<>>, variadic |-> "any", enum |-> {},
   array |-> FALSE, named |-> <<>>, applies |-> {}, family |-> "none",
   repeatable |-> FALSE, metadata |-> FALSE]
Takes(levels, min, kinds) ==
  [Flag(levels) EXCEPT !.min = min, !.max = Len(kinds), !.kinds = kinds]
List(levels, kind) ==
  [Flag(levels) EXCEPT !.min = 1, !.max = -1, !.variadic = kind, !.array = TRUE]
Limits(family, applies, spec) == [spec EXCEPT !.family = family, !.applies = applies]

Everywhere ==
  {"file", "type", "field", "service", "method", "enum", "enumValue", "error", "scalar",
   "middleware", "event", "errorField"}
OnField == {"field", "errorField"}
OnValue == {"field", "scalar", "errorField"}

DocSpecs ==
  LET Metadata(spec) == [spec EXCEPT !.metadata = TRUE]
  IN  [doc        |-> Metadata(Takes(Everywhere, 1, <<"string">>)),
       deprecated |-> Metadata(Takes(Everywhere \ {"enum", "error", "scalar"}, 0, <<"string">>)),
       example    |-> Metadata(Takes(OnField, 1, <<"any">>)),
       version    |-> Takes({"file"}, 1, <<"string">>)]

TypeSpecs ==
  [requiresOneOf     |-> List({"type"}, "stringOrIdent"),
   mutuallyExclusive |-> List({"type"}, "stringOrIdent")]

StringSpecs ==
  LET Length(min, kinds) == Limits("length", {"string", "bytes"}, Takes(OnValue, min, kinds))
  IN  [length    |-> Length(1, <<"int", "int">>),
       minLength |-> Length(1, <<"int">>),
       maxLength |-> Length(1, <<"int">>),
       pattern   |-> Limits("text", {"string"}, Takes(OnValue, 1, <<"string">>)),
       format    |-> Limits("text", {"string", "bytes", "rawbytes"},
                        [Takes(OnValue, 1, <<"stringOrIdent">>)
                           EXCEPT !.enum = Formats \union {FormatRaw}])]

NumberSpecs ==
  LET Bound(spec) == Limits("numeric", {"integer", "float"}, spec)
      One == Takes(OnValue, 1, <<"number">>)
  IN  [gt |-> Bound(One), gte |-> Bound(One), lt |-> Bound(One), lte |-> Bound(One),
       range      |-> Bound(Takes(OnValue, 2, <<"number", "number">>)),
       positive   |-> Bound(Flag(OnValue)),
       negative   |-> Bound(Flag(OnValue)),
       multipleOf |-> Limits("numeric", {"integer"}, One)]

ItemSpecs ==
  [minItems    |-> Limits("items", {"array", "map"}, Takes(OnField, 1, <<"int">>)),
   maxItems    |-> Limits("items", {"array", "map"}, Takes(OnField, 1, <<"int">>)),
   uniqueItems |-> Limits("items", {"array"}, Flag(OnField))]

FileSpecs ==
  [maxSize   |-> Limits("runtime", {"file"}, Takes({"field"}, 1, <<"size">>)),
   mimeTypes |-> Limits("runtime", {"file"}, List({"field"}, "string"))]

FieldSpecs ==
  [default   |-> Takes(OnField, 1, <<"any">>),
   nullable  |-> Flag(OnField),
   json      |-> Takes(OnField, 1, <<"string">>),
   sensitive |-> Flag(OnField)]

BindingSpecs ==
  LET Place(levels) == Takes(levels, 0, <<"string">>)
  IN  [path |-> Place({"field"}), query |-> Place({"field"}), header |-> Place(OnField),
       body |-> Place({"field"}), form |-> Place({"field"}),
       cookie |-> [Place(OnField) EXCEPT !.named =
         [path |-> "string", domain |-> "string", maxAge |-> "duration",
          httpOnly |-> "bool", secure |-> "bool", sameSite |-> "ident"]]]

ServiceSpecs ==
  LET Chain(levels, kind) == [List(levels, kind) EXCEPT !.repeatable = TRUE]
      Both == {"service", "method"}
  IN  [prefix |-> Takes({"service"}, 1, <<"string">>), group |-> Takes({"service"}, 1, <<"string">>),
       contract |-> Takes({"event"}, 1, <<"string">>),
       middlewares |-> Chain(Both, "ident"), tags |-> Chain(Both, "stringOrIdent"),
       security |-> Chain(Both, "ident"), hidden |-> Flag(Both),
       ignoreMiddleware |-> Flag({"method"}), ignoreSecurity |-> Flag({"method"}),
       ignoreTags |-> Flag({"method"})]

MethodSpecs ==
  LET One(kind) == Takes({"method"}, 1, <<kind>>)
  IN  [summary |-> One("string"), operationId |-> One("string"), status |-> One("int"),
       errors |-> [List({"method"}, "ident") EXCEPT !.repeatable = TRUE],
       passthrough |-> Flag({"method"}), rawRequest |-> Flag({"method"}),
       rawResponse |-> Flag({"method"}),
       timeout |-> One("duration"), maxBodySize |-> One("size")]

Registry ==
  DocSpecs @@ TypeSpecs @@ StringSpecs @@ NumberSpecs @@ ItemSpecs @@ FileSpecs
    @@ FieldSpecs @@ BindingSpecs @@ ServiceSpecs @@ MethodSpecs
Known(name) == name \in DOMAIN Registry
DecoratorSpec(name) == Registry[name]
ConstraintOf(name) ==
  LET Family(specs) == IF name \in DOMAIN specs THEN specs[name].family ELSE "none" IN Family(Registry)

(***************************************************************************)
(* Where a decorator sits.  A removed decorator is refused as an unknown   *)
(* one is.  (An extend block's sites are module Names's.)                  *)
(***************************************************************************)
Allows(level, name) ==
  LET In(specs) == name \in DOMAIN specs /\ level \in specs[name].levels IN In(Registry)

CheckPlacement(site) == \A i \in DOMAIN site.decs : Allows(site.level, site.decs[i].name)

CheckDecoratorDuplicates(site) ==
  LET Repeats(specs, name) == name \in DOMAIN specs /\ specs[name].repeatable
  IN  \A i, j \in DOMAIN site.decs :
        i < j /\ site.decs[i].name = site.decs[j].name => Repeats(Registry, site.decs[i].name)

(***************************************************************************)
(* The shape of the arguments.                                             *)
(***************************************************************************)
CheckNamedArgs(d, takes) ==
  /\ \A i \in DOMAIN d.named :
       d.named[i][1] \in DOMAIN takes /\ ExprMatchesKind(d.named[i][2], takes[d.named[i][1]])
  /\ \A i, j \in DOMAIN d.named : d.named[i][1] = d.named[j][1] => i = j

Arity(rule, n) == n >= rule.min /\ (rule.max < 0 \/ n <= rule.max)

CheckArrayShortcut(rule, els) ==
  Arity(rule, Len(els)) /\ \A i \in DOMAIN els : ExprMatchesKind(els[i], rule.variadic)

CheckEnumOnFirst(rule, args) ==
  rule.enum = {} \/ args = <<>> \/ ~TextValue(args[1]) \/ args[1].text \in rule.enum

CheckPositionalArgs(d, rule) ==
  /\ CheckNamedArgs(d, rule.named)
  /\ IF rule.array /\ Len(d.args) = 1 /\ d.args[1].kind = "array"
     THEN CheckArrayShortcut(rule, d.args[1].els)
     ELSE /\ Arity(rule, Len(d.args))
          /\ \A i \in DOMAIN d.args :
               ExprMatchesKind(d.args[i],
                 IF i <= Len(rule.kinds) THEN rule.kinds[i] ELSE rule.variadic)
  /\ CheckEnumOnFirst(rule, d.args)

(* An @example that is an object, which the parser leaves without a value. *)
CheckExampleArg(d) ==
  d.name = "example" => \A i \in DOMAIN d.args : d.args[i].kind # "none"

CheckDecoratorShape(d, rule) == CheckExampleArg(d) /\ CheckPositionalArgs(d, rule)

(***************************************************************************)
(* The values of the arguments, once their shape holds.                    *)
(***************************************************************************)
ArgNames(d) == IF d.args # <<>> /\ d.args[1].kind = "array" THEN d.args[1].els ELSE d.args
CheckMediaTypes(d) == \A i \in DOMAIN ArgNames(d) : ArgNames(d)[i].text \in MediaRanges
CheckPatternArg(d) == d.args[1].text # "" /\ d.args[1].text \in Patterns

CheckPairArgs(d) ==
  IF d.name = "length" /\ Len(d.args) = 1 THEN FloatVal(d.args[1]) >= 0
  ELSE /\ FloatVal(d.args[1]) <= FloatVal(d.args[2])
       /\ d.name = "length" => FloatVal(d.args[1]) >= 0

CheckMultipleOf(d) == FloatVal(d.args[1]) > 0
CONSTANTS MinStatus, MaxStatus          \* 100 and 599
CheckHTTPStatus(d) == Holds([lo |-> MinStatus * Whole, hi |-> MaxStatus * Whole], d.args[1].v)
CheckPositiveDuration(d) == DurationArg(d.args[1]) /\ Duration(d.args[1]) > 0
CheckPositiveSize(d) == SizeArg(d.args[1]) /\ SizeBytes(d.args[1]) > 0
CheckNonNegativeInt(d) == d.args[1].v >= 0

CheckDecoratorValue(d) ==
  CASE d.name = "pattern" -> CheckPatternArg(d)
    [] d.name \in {"length", "range"} -> CheckPairArgs(d)
    [] d.name = "multipleOf" -> CheckMultipleOf(d)
    [] d.name = "status" -> CheckHTTPStatus(d)
    [] d.name = "timeout" -> CheckPositiveDuration(d)
    [] d.name \in {"maxBodySize", "maxSize"} -> CheckPositiveSize(d)
    [] d.name \in {"minLength", "maxLength", "minItems", "maxItems"} -> CheckNonNegativeInt(d)
    [] d.name = "mimeTypes" -> CheckMediaTypes(d)
    [] OTHER -> TRUE

CheckDecoratorArgs(site) ==
  \A i \in DOMAIN site.decs :
    LET d == site.decs[i]
    IN  Known(d.name) =>
          CheckDecoratorShape(d, DecoratorSpec(d.name)) /\ CheckDecoratorValue(d)
=============================================================================
