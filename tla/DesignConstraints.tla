------------------------- MODULE DesignConstraints -------------------------
(***************************************************************************)
(* A design's constraints from the page to the wire: an author decorates a *)
(* field, the scalar its type names and another place of the design, the   *)
(* analysis accepts or refuses the whole (internal/semantic), and the      *)
(* generators write the handler's checks (internal/codegen/golang) and the *)
(* document's schema (internal/codegen/docs) of what it accepts.           *)
(***************************************************************************)
EXTENDS ConstraintChecks

CONSTANTS Menus         \* name to [design, field, scalar, other, wires, most]: what an author may
                        \* write, at most how many decorators, and what a client sends

Written(D) == Len(D.decs) + Len(D.scalarDecs) + Len(D.other)

VARIABLES
  menu,       \* the menu the author writes from
  design,     \* what is written
  stage,      \* "written", "analyzed" or "generated"
  accepted,   \* the analysis found no error
  out         \* what the generators wrote: checks, scalarChecks, doc

vars == <<menu, design, stage, accepted, out>>

UsesScalar(D) == Scalar \in {D.t.name, D.t.key}
UsesEnum(D) == Enum \in {D.t.name, D.t.key}

(* appendDeclSites, and checkDecoratorSites at each site.                  *)
Sites(D) ==
  <<[level |-> D.level, decs |-> D.decs], [level |-> "scalar", decs |-> D.scalarDecs]>> \o D.other
CheckDecoratorSites(D) ==
  /\ \A i \in DOMAIN Sites(D) :
       /\ CheckDecoratorDuplicates(Sites(D)[i])
       /\ CheckPlacement(Sites(D)[i])
       /\ CheckDecoratorArgs(Sites(D)[i])
  /\ CheckFieldDefault(D)
  /\ CheckFieldExample(D)

CheckFieldTypeCompat(D) == CheckBodyTypeCompat(D) /\ (UsesScalar(D) => CheckScalarTypeCompat(D))

CheckBodyRanges(D) ==
  /\ CheckValueRules(ValuePrim(D), FieldSites(D))
  /\ CheckUniqueItemsComparable(D)
  /\ CheckValueConstraintOnTypeParam(D)
  /\ MapKeysComparable(D)
CheckDeclRanges(D) ==
  CheckBodyRanges(D) /\ (UsesScalar(D) => CheckValueRules(D.prim, <<D.scalarDecs>>))

Analyze(D) ==
  /\ CheckDecoratorSites(D)
  /\ CheckFieldTypeCompat(D)
  /\ UsesEnum(D) => CheckEnums(D)
  /\ CheckDeclRanges(D)

Num(v) == Lit("number", v)

(* renderDefault: the Go value a @default leaves in its field, each number *)
(* rounded to the type the cast or the constant gives it.                  *)
Plain(D, e) == IF e.kind = "identifier" THEN EnumMemberWire(EnumMember(D, e.text)[1]) ELSE e
RenderValue(D, t, e) ==
  LET w == Plain(D, e)
  IN  IF ParseNumeric(w) THEN Num(GoNumber(CheckedPrim(D, t), Num(Text(w)))) ELSE w
RenderDefault(D, e) ==
  IF D.t.arr = 0 THEN RenderValue(D, D.t, e)
  ELSE ArrayLit([i \in DOMAIN e.els |-> RenderValue(D, ElemType(D.t), e.els[i])])

(* ResolveDefaultValue: the wire value the document gives it.              *)
LiteralValue(D, e) ==
  LET w == Plain(D, e) IN IF ParseNumeric(w) THEN Num(Text(w)) ELSE w
ResolveDefaultValue(D, e) ==
  IF D.t.arr = 0 THEN LiteralValue(D, e)
  ELSE ArrayLit([i \in DOMAIN e.els |-> LiteralValue(D, e.els[i])])

(* methodLimitsLiteral: the limits the generated route puts on its method, *)
(* none when zero, each as a count of the largest unit that divides it.    *)
CONSTANTS DurationUnits       \* the ticks of each unit a duration is written in, one tick among them
InLargest(units, n) ==
  LET unit == Max({u \in units : n % u = 0}) IN (n \div unit) * unit
MethodLimits(decs) ==
  LET Arg(name) == Find(decs, name).args[1]
  IN  [timeout |-> IF Has(decs, "timeout") /\ DurationArg(Arg("timeout"))
                   THEN InLargest(DurationUnits, Duration(Arg("timeout"))) ELSE 0,
       maxBodySize |-> IF /\ Has(decs, "maxBodySize") /\ SizeArg(Arg("maxBodySize"))
                          /\ SizeBytes(Arg("maxBodySize")) > 0
                       THEN InLargest(Range(SizeUnits), SizeBytes(Arg("maxBodySize"))) ELSE 0]

BuildOutput(D) ==
  [checks |-> FieldChecks(D), scalarChecks |-> ScalarChecks(D),
   doc |-> [field |-> ApplyFieldMetadata(D), scalar |-> ScalarSchema(D), names |-> PropertyNames(D)]]
NoOutput == [checks |-> <<>>, scalarChecks |-> <<>>, doc |-> <<>>]

Init ==
  /\ menu \in DOMAIN Menus
  /\ design = Menus[menu].design
  /\ stage = "written" /\ accepted = FALSE /\ out = NoOutput

DecorateField ==
  /\ stage = "written" /\ Written(design) < Menus[menu].most
  /\ \E d \in Menus[menu].field : design' = [design EXCEPT !.decs = Append(@, d)]
  /\ UNCHANGED <<menu, stage, accepted, out>>

DecorateScalar ==
  /\ stage = "written" /\ Written(design) < Menus[menu].most
  /\ \E d \in Menus[menu].scalar : design' = [design EXCEPT !.scalarDecs = Append(@, d)]
  /\ UNCHANGED <<menu, stage, accepted, out>>

DecorateOther ==
  /\ stage = "written" /\ Written(design) < Menus[menu].most
  /\ \E site \in Menus[menu].other : design' = [design EXCEPT !.other = Append(@, site)]
  /\ UNCHANGED <<menu, stage, accepted, out>>

AnalyzeDesign ==
  /\ stage = "written"
  /\ accepted' = Analyze(design)
  /\ stage' = "analyzed"
  /\ UNCHANGED <<menu, design, out>>

Generate ==
  /\ stage = "analyzed" /\ accepted
  /\ out' = BuildOutput(design)
  /\ stage' = "generated"
  /\ UNCHANGED <<menu, design, accepted>>

Next == DecorateField \/ DecorateScalar \/ DecorateOther \/ AnalyzeDesign \/ Generate
Spec == Init /\ [][Next]_vars

(***************************************************************************)
(* Properties.                                                             *)
(***************************************************************************)
(* Validate, with nil where a wire null leaves it: a check that does not   *)
(* guard its pointer dereferences it, and only ranging over nil is safe.   *)
Validates(D, w) ==
  IF w.kind = "null" THEN \A i \in DOMAIN out.checks : out.checks[i].guard \/ out.checks[i].kind = "unique"
  ELSE /\ \A i \in DOMAIN out.checks : Passes(D, out.checks[i], w)
       /\ ValidateCalls(D, out.scalarChecks, w)
HandlerTakes(D, w) == (w.kind = "null" \/ Decodes(D, w)) /\ Validates(D, w)

(* A value the comparison leaves out: a null the presence checks meet, a   *)
(* number past the signed 64-bit integers, which the document does not     *)
(* bound, a number as a map's key, whose type the document bounds no       *)
(* further than by its sign, and a number that rounds to a float of which  *)
(* it is neither the shortest text nor the one literal of the design.      *)
Literals(D) ==
  UNION {UNION {ToSet(Sites(D)[i].decs[j].args) : j \in DOMAIN Sites(D)[i].decs} : i \in DOMAIN Sites(D)}
OneLiteral(D, prim, v) ==
  \E e \in Literals(D) :
    /\ Rat(e) = v /\ Text(e) = v
    /\ \A x \in Literals(D) : GoNumber(prim, Num(Text(x))) = GoNumber(prim, Num(v)) => Rat(x) = v
LeftOut(D, w) ==
  \/ /\ w.kind = "object" /\ D.t.key # ""
     /\ LET prim == IF D.t.key = Scalar THEN D.prim ELSE D.t.key
        IN  IsInteger(prim) /\ (D.t.key = Scalar => D.scalarDecs # <<>>)
  \/ w.kind = "null" /\ ~Optional(D)
  \/ w.kind = "number" /\ ValuePrim(D) = "int" /\ ~Holds(Capacity("int"), w.v)
  \/ /\ w.kind = "number" /\ Kind(ValuePrim(D)) = "float"
     /\ w.v # Shortest(GoNumber(ValuePrim(D), w)) /\ ~OneLiteral(D, ValuePrim(D), w.v)

(* The handler takes a value exactly when the document admits it.          *)
ChecksMatchDocument ==
  stage = "generated" =>
    \A w \in Menus[menu].wires :
      ~LeftOut(design, w) =>
        (HandlerTakes(design, w) <=> AdmitsField(design, out.doc, w))

(* The bounds leave room: some number of the type is inside every bound of *)
(* the field and its scalar and a multiple of each @multipleOf, and some   *)
(* length or count inside every bound on it.  A pattern or a format is not *)
(* weighed against the length, and a field of an enum, whose members are   *)
(* fixed, is not looked at: the analyser weighs neither.                   *)
Quantities(prim, kind) ==
  IF kind # "value" THEN {n * Whole : n \in 0 .. MaxLen \div Whole}
  ELSE IF IsInteger(prim) THEN {n \in Capacity(prim).lo .. Capacity(prim).hi : IsInt(n)}
  ELSE {AtBits(n, Bits(prim)) : n \in -MaxFloat(Bits(prim)) .. MaxFloat(Bits(prim))}
Room(prim, checks) ==
  \A kind \in {c.kind : c \in checks} \intersect {"value", "length", "items"} :
    \E q \in Quantities(prim, kind) :
      \A c \in checks :
        /\ c.kind = kind => \A e \in c.ends : ~Fails(e.side, q, e.n)
        /\ (kind = "value" /\ c.kind = "multiple") => q % c.arg = 0
BoundsLeaveAValue ==
  (stage = "generated" /\ ~UsesEnum(design)) =>
    /\ Room(ValuePrim(design), ToSet(out.checks) \union
         (IF Len(FieldSites(design)) = 2 THEN ToSet(out.scalarChecks) ELSE {}))
    /\ UsesScalar(design) => Room(design.prim, ToSet(out.scalarChecks))

(* The same of the designs whose @range and @length pairs are in order:    *)
(* checkPairArgs compares them as floats, which do not tell every two      *)
(* literals apart.                                                         *)
PairsInOrder(D) ==
  \A i \in DOMAIN Sites(D) : \A j \in DOMAIN Sites(D)[i].decs :
    LET d == Sites(D)[i].decs[j]
    IN  (d.name \in {"range", "length"} /\ Len(d.args) = 2) => Rat(d.args[1]) <= Rat(d.args[2])
SomeValuePasses == PairsInOrder(design) => BoundsLeaveAValue

(* An accepted @default passes the checks of its field.                    *)
DefaultHolds ==
  (stage = "generated" /\ Has(design.decs, "default")) =>
    LET e == Find(design.decs, "default").args[1]
        go == RenderDefault(design, e)
        sent == ResolveDefaultValue(design, e)
    IN  /\ Validates(design, go)
        /\ Decodes(design, sent)
        /\ LeftOut(design, sent) \/ AdmitsField(design, out.doc, sent)

WrittenSize(e) ==
  ((IF IsInt(e.v) THEN e.v ELSE FloatVal(e)) * (IF e.kind = "int" THEN 1 ELSE SizeUnits[e.text])) \div Whole

(* No accepted constraint is dropped.                                      *)
NoneDropped ==
  stage = "generated" =>
    LET Enforced(t, d) ==
          \/ GoCheck(t, d) # <<>>
          \/ LET Implied(bs) == bs # {} /\ \A b \in bs : BoundImpliedByType(t.prim, b)
             IN  Implied(Range(BoundsOf(<<d>>, 1)))
          \/ d.name = "format" /\ d.args[1].text = FormatRaw
          \/ d.name = "mimeTypes" /\ \E i \in DOMAIN ArgNames(d) : ArgNames(d)[i].text = "*/*"
        Constrains(d) == ConstraintOf(d.name) # "none"
    IN  /\ \A i \in DOMAIN design.decs :
             Constrains(design.decs[i]) => Enforced(FieldTarget(design), design.decs[i])
        /\ \A i \in DOMAIN design.scalarDecs :
             Constrains(design.scalarDecs[i]) => Enforced(PrimTarget(design.prim), design.scalarDecs[i])
        /\ \A i \in DOMAIN design.other : \A j \in DOMAIN design.other[i].decs :
             /\ ~Constrains(design.other[i].decs[j])
             /\ LET d == design.other[i].decs[j]
                    limits == MethodLimits(design.other[i].decs)
                IN  /\ d.name = "timeout" => limits.timeout > 0
                    /\ d.name = "maxBodySize" => limits.maxBodySize > 0 /\ limits.maxBodySize = WrittenSize(d.args[1])
=============================================================================
