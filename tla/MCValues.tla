----------------------------- MODULE MCValues ------------------------------
(***************************************************************************)
(* Small designs and the values that cross the wire under them, for TLC:   *)
(* two machines side by side, what a request and an answer carry           *)
(* (DesignBindings), and what the constraints of a field admit             *)
(* (DesignConstraints).  An execution is of one machine, the other rests   *)
(* in an initial state, so the states add up and do not multiply.          *)
(***************************************************************************)
EXTENDS DesignBindings

VARIABLES
    machine,    \* the machine that runs
    con_menu, con_design, con_stage, con_accepted, con_out

constraintVars == <<con_menu, con_design, con_stage, con_accepted, con_out>>

-----------------------------------------------------------------------------
(* DesignBindings: small packages whose types grow by fields and mixins    *)
(* that share wire names, nest, recur, carry defaults, files, groups and   *)
(* type parameters.                                                        *)
BindingUpper == [p \in {"a", "b"} |-> IF p = "a" THEN "A" ELSE "B"]
BindingLower == [p \in {"X"} |-> "x"]
BindingPrimNames == {StringT, IntT, BytesT, AnyT, FileT, CookieT}

P(x) == <<x>>
App == P("app")

Ref(name, args, arr, opt) ==
  [pkg |-> None, name |-> name, args |-> args, arr |-> arr, opt |-> opt, par |-> FALSE]
T(x) == Ref(P(x), <<>>, 0, FALSE)
G(x, arg) == Ref(P(x), <<arg>>, 0, FALSE)
MapOf(t) == Ref(Map, <<T("string"), t>>, 0, FALSE)
List(t) == [t EXCEPT !.arr = @ + 1]
Maybe(t) == [t EXCEPT !.opt = TRUE]

Member_(m, name, ref, decs, wire, key) ==
  [m |-> m, name |-> name, ref |-> ref, orig |-> ref, decs |-> decs, wire |-> wire, key |-> key]
F(x, ref) == Member_("field", P(x), ref, {}, None, None)
FD(x, ref, decs) == Member_("field", P(x), ref, decs, None, None)
FW(x, ref, dec, wire) == Member_("field", P(x), ref, {dec}, wire, None)
FJ(x, ref, key) == Member_("field", P(x), ref, {}, None, P(key))
Mix(ref) == Member_("mixin", None, ref, {}, None, None)

(* A member as the declaration with these parameters writes it.            *)
In(params, m) ==
  LET t == TypeParamRefs(m.ref, params) IN [m EXCEPT !.ref = t, !.orig = t]

Declare(kind, x, params, body, groups, prim, zero, status) ==
  [pkg |-> App, kind |-> kind, name |-> P(x), params |-> params,
   body |-> Eager([i \in DOMAIN body |-> In(params, body[i])]), values |-> <<>>,
   groups |-> groups, prim |-> prim, zero |-> zero, status |-> status]
Type(x, body) == Declare("type", x, <<>>, body, <<>>, None, FALSE, "")
Grouped(x, body, groups) == Declare("type", x, <<>>, body, groups, None, FALSE, "")
Of(x, params, body) == Declare("type", x, params, body, <<>>, None, FALSE, "")
Enum(x, prim, zero) == Declare("enum", x, <<>>, <<>>, <<>>, prim, zero, "")
Scalar(x, prim) == Declare("scalar", x, <<>>, <<>>, <<>>, prim, FALSE, "")
Err(x, status, body) == Declare("error", x, <<>>, body, <<>>, None, FALSE, status)

Group(kind, a, b) == [kind |-> kind, names |-> {P(a), P(b)}]
Method(verb, route, req, resp, errors) ==
  [verb |-> verb, vars |-> route, req |-> T(req), resp |-> T(resp), errors |-> errors,
   raw |-> {}, status |-> "200"]
Plain(verb, route, req) == Method(verb, route, req, "Resp", {})
Resp == Type("Resp", <<F("ok", T("int"))>>)
To_(x, m) == <<P(x), m>>

BindingMenus == {"params", "body", "nest", "generic", "route", "upload", "groups", "answers"}

BindingSkeleton ==
  [params |-> <<Type("Req", <<F("id", T("string"))>>), Enum("Kind", StringT, FALSE), Resp>>,
   body |-> <<Type("Req", <<>>), Enum("Kind", StringT, TRUE), Scalar("Blob", BytesT), Resp>>,
   nest |-> <<Type("Req", <<>>), Type("Inner", <<>>), Type("Base", <<>>), Resp>>,
   generic |-> <<Type("Req", <<>>), Of("Box", <<P("T")>>, <<>>),
                 Type("Inner", <<F("x", T("string"))>>), Type("Alt", <<>>), Resp>>,
   route |-> <<Type("Req", <<Mix(T("Base"))>>), Type("Base", <<F("id", T("string"))>>),
               Type("Put", <<Mix(T("Base"))>>), Type("Leaf", <<F("id", T("string"))>>), Resp>>,
   upload |-> <<Type("Req", <<FD("f", T("file"), {})>>), Enum("Kind", StringT, FALSE), Resp>>,
   groups |-> <<Grouped("Req", <<>>, <<Group("requiresOneOf", "a", "b")>>),
                Grouped("Base", <<F("c", Maybe(T("string")))>>, <<>>), Resp>>,
   answers |-> <<Type("Req", <<>>), Type("Resp", <<>>), Err("Gone", "404", <<>>), Err("Lost", "404", <<>>),
                 Err("Clash", "200", <<>>)>>]

BindingMethods ==
  [params |-> {Plain("GET", {P("id")}, "Req"), Plain("POST", {P("id")}, "Req")},
   body |-> {Plain("POST", {}, "Req")},
   nest |-> {Plain("POST", {}, "Req")},
   generic |-> {Plain("POST", {}, "Req"), Plain("PUT", {}, "Alt")},
   route |-> {Plain("POST", {P("id")}, "Req"), Plain("PUT", {}, "Req"), Plain("PATCH", {P("id")}, "Put")},
   upload |-> {Plain("POST", {}, "Req")},
   groups |-> {Plain("GET", {}, "Req"), Plain("POST", {}, "Req")},
   answers |-> {Method("GET", {}, "Req", "Resp", {P("Gone"), P("Lost"), P("Clash")})}]

BindingMembers ==
  [params |->
     <<To_("Req", F("q", T("string"))), To_("Req", FW("r", T("int"), "query", P("q"))),
       To_("Req", FD("n", Maybe(T("int")), {"default"})), To_("Req", FD("d", T("string"), {"default", "query"})),
       To_("Req", FD("l", List(T("string")), {"query"})), To_("Req", FD("ks", List(T("Kind")), {"query", "default"})),
       To_("Req", FW("h", T("string"), "header", P("X"))), To_("Req", FW("i", List(T("int")), "header", P("x"))),
       To_("Req", FD("c", T("Kind"), {"cookie"})), To_("Req", FD("s", T("string"), {"sensitive"})),
       To_("Req", FW("p", T("string"), "path", P("id"))), To_("Req", FD("u", T("string"), {"nullable"}))>>,
   body |->
     <<To_("Req", F("a", T("string"))), To_("Req", F("n", Maybe(T("int")))), To_("Req", FD("u", T("int"), {"nullable"})),
       To_("Req", FD("d", Maybe(T("string")), {"default"})), To_("Req", FD("e", T("Kind"), {"default"})),
       To_("Req", F("k", T("Kind"))), To_("Req", F("y", T("any"))), To_("Req", FD("w", T("bytes"), {"raw"})),
       To_("Req", FD("z", Maybe(T("bytes")), {"raw"})), To_("Req", F("o", T("Blob"))),
       To_("Req", FJ("j", T("string"), "a")), To_("Req", FD("ls", List(T("string")), {"default"}))>>,
   nest |->
     <<To_("Inner", F("x", T("string"))), To_("Inner", FD("d", Maybe(T("int")), {"default"})),
       To_("Inner", F("o", Maybe(T("string")))), To_("Inner", F("up", Maybe(T("Req")))),
       To_("Base", F("b", T("string"))), To_("Req", Mix(T("Base"))), To_("Inner", Mix(T("Base"))),
       To_("Req", F("in", T("Inner"))), To_("Req", F("op", Maybe(T("Inner")))),
       To_("Req", FD("nu", T("Inner"), {"nullable"})), To_("Req", F("li", List(T("Inner")))),
       To_("Req", F("mp", MapOf(T("Inner"))))>>,
   generic |->
     <<To_("Box", In(<<P("T")>>, F("v", T("T")))), To_("Box", In(<<P("T")>>, F("o", Maybe(T("T"))))),
       To_("Box", In(<<P("T")>>, F("l", List(T("T"))))), To_("Box", In(<<P("T")>>, FD("q", Maybe(T("T")), {"query"}))),
       To_("Req", Mix(G("Box", T("string")))), To_("Alt", Mix(G("Box", List(T("int"))))),
       To_("Req", F("b", G("Box", T("Inner")))), To_("Req", F("c", Maybe(G("Box", List(T("Inner")))))),
       To_("Req", F("m", MapOf(G("Box", T("int"))))), To_("Req", F("y", G("Box", T("any"))))>>,
   route |->
     <<To_("Base", F("n", T("string"))), To_("Base", F("leaf", Maybe(T("Leaf")))), To_("Req", F("a", T("string"))),
       To_("Put", FD("d", T("int"), {"default"})), To_("Req", F("leaves", List(T("Leaf")))),
       To_("Put", F("req", Maybe(T("Req")))), To_("Base", FW("h", T("string"), "header", P("X")))>>,
   upload |->
     <<To_("Req", F("g", Maybe(T("file")))), To_("Req", F("t", T("string"))), To_("Req", F("n", Maybe(T("int")))),
       To_("Req", FD("k", List(T("Kind")), {"form"})), To_("Req", FW("w", T("string"), "form", P("part"))),
       To_("Req", FD("d", T("string"), {"default", "form"})), To_("Req", FW("h", T("int"), "header", P("X"))),
       To_("Req", F("m", MapOf(T("string"))))>>,
   groups |->
     <<To_("Req", F("a", Maybe(T("string")))), To_("Req", F("b", Maybe(T("int")))),
       To_("Req", F("a", T("string"))), To_("Req", FD("b", T("string"), {"nullable"})),
       To_("Req", FD("b", Maybe(T("string")), {"query"})), To_("Req", FJ("b", Maybe(T("string")), "bee")),
       To_("Req", F("d", Maybe(T("string")))), To_("Req", Mix(T("Base"))), To_("Req", FD("e", T("string"), {"header"}))>>,
   answers |->
     <<To_("Resp", FW("h", T("string"), "header", P("X"))), To_("Resp", FW("o", Maybe(T("string")), "header", P("y"))),
       To_("Resp", FD("c", T("cookie"), {"cookie"})), To_("Resp", F("v", T("string"))),
       To_("Resp", F("w", Maybe(T("string")))),
       To_("Gone", FW("h", T("string"), "header", P("x"))), To_("Gone", FD("t", T("string"), {"cookie"})),
       To_("Gone", FD("m", Maybe(T("string")), {"default"})), To_("Lost", FW("h", List(T("int")), "header", P("X"))),
       To_("Lost", FW("k", T("string"), "header", P("X"))), To_("Lost", FD("c", T("cookie"), {"cookie"})),
       To_("Lost", F("n", T("int"))), To_("Clash", FW("h", Maybe(T("string")), "header", P("X"))),
       To_("Clash", FD("u", T("string"), {"nullable"})), To_("Clash", FW("g", T("string"), "header", P("x")))>>]

BindingMaxAdded == [m \in BindingMenus |-> IF m \in {"params", "body", "route"} THEN 3 ELSE 4]

-----------------------------------------------------------------------------
(* DesignConstraints: one is eight parts; a float64 holds every whole      *)
(* number up to 4, int and uint have four bits, int8 and uint8 two.        *)
TextLength(s) == CASE s = "" -> 0 [] s = "a" -> 1 [] s = "ab" -> 2 [] s = "abc" -> 3 [] OTHER -> 4
TextMeets(s, x) == CASE x = "p" -> s \in {"a", "ab"} [] x = "email" -> s \in {"ab", "abc"} [] OTHER -> s = x

ConWhole == 8
ConUnits == [x \in {"", "KB", "MB"} |-> CASE x = "" -> 1 [] x = "KB" -> 2 [] OTHER -> 4]

Rules == INSTANCE ConstraintChecks WITH
    Whole <- ConWhole, Exact <- 4, NarrowBits <- 2, WideBits <- 4, Second <- 8,
    SizeUnits <- ConUnits, MaxDurationSeconds <- 4, MinStatus <- 1, MaxStatus <- 5,
    Formats <- {"email"}, Patterns <- {"p"}, MediaRanges <- {"*/*", "image"}, Length <- TextLength,
    Meets <- TextMeets

ConNum(v) == Rules!Lit("number", v)
ConT(name) == [arr |-> 0, key |-> "", name |-> name, opt |-> FALSE]
ConArray(t) == [t EXCEPT !.arr = @ + 1]
ConMap(key, name) == [arr |-> 0, key |-> key, name |-> name, opt |-> FALSE]
ConOpt(t) == [t EXCEPT !.opt = TRUE]

ConMember(name, kind, wire) == [name |-> name, kind |-> kind, wire |-> wire]
ConI(n) == Rules!Lit("int", n * ConWhole)
ConF(n) == Rules!Lit("float", n)
ConStr(s) == Rules!Word("string", s)
ConIdent(s) == Rules!Word("identifier", s)
ConNums(ns) == {ConNum(n) : n \in ns}
ConOnes(ns) == ConNums({n * ConWhole : n \in ns})
ConNull == Rules!Lit("null", 0)
ConTexts == {ConStr(s) : s \in {"", "a", "ab", "abc", "long"}}

ConDesign(t) ==
  [t |-> t, decs |-> <<>>, level |-> "field", prim |-> "", scalarDecs |-> <<>>, enum |-> <<>>,
   structs |-> [T |-> <<[t |-> ConT("int"), decs |-> <<>>]>>,
                P |-> <<[t |-> ConOpt(ConT("int")), decs |-> <<>>]>>,
                U |-> <<[t |-> ConT("T"), decs |-> <<>>], [t |-> ConT("datetime"), decs |-> <<>>]>>],
   params |-> {"Q"}, other |-> <<>>]
ConMenu(start, field, wires, most) ==
  [design |-> start, field |-> field, scalar |-> {}, other |-> {}, wires |-> wires, most |-> most]
ConOf(prim, t) == [ConDesign(t) EXCEPT !.prim = prim]

Bound(lits) == {Rules!Dec(n, <<e>>) : n \in {"gt", "gte", "lt", "lte"}, e \in lits}
Ranges(lits) == {Rules!Dec("range", <<x, y>>) : x, y \in lits}
Signs == {Rules!Dec("positive", <<>>), Rules!Dec("negative", <<>>)}
Multiples(lits) == {Rules!Dec("multipleOf", <<e>>) : e \in lits}

WideLits == {ConI(n) : n \in {-8, 0, 4, 5, 7}} \union {ConF(64)}
WideDecs == Bound(WideLits \union {ConF(4), ConF(40)}) \union Signs \union Multiples({ConI(0), ConI(3), ConI(5), ConF(4)})
              \union Ranges({ConI(4), ConI(5)})
NarrowLits == {ConI(n) : n \in {-2, 0, 1, 3, 4}}
NarrowDecs == Bound(NarrowLits) \union Signs \union Multiples({ConI(2), ConI(3)})
FloatLits == {ConI(0), ConF(4), ConF(5), ConF(7), ConI(5), ConF(64), ConF(69)}
FloatDecs == Bound(FloatLits) \union Signs \union Ranges({ConF(5), ConF(7)})
FloatWires == ConNums({-8, 0, 4, 5, 7, 8, 12, 16, 40, 48, 64, 69, 72, 80})

IntMenus ==
  {ConMenu(ConOf("", ConOpt(ConT(p))), WideDecs, ConOnes(-9 .. 16) \union {ConNum(4), ConNull, ConStr("a")}, 2) : p \in {"int", "uint"}}
    \union {ConMenu(ConOf("", ConT(p)), NarrowDecs, ConOnes(-3 .. 5), 2) : p \in {"int8", "uint8"}}
    \union {[ConMenu(ConOf(p, t), Bound({ConI(n) : n \in {0, 1, 3}}) \union Multiples({ConI(2)}), ConOnes(-3 .. 8), 3)
              EXCEPT !.scalar = Bound({ConI(n) : n \in {1, 2}}) \union Multiples({ConI(3)})] :
              p \in {"int", "uint8"}, t \in {ConT("S"), ConOpt(ConT("S"))}}
FloatMenus ==
  {ConMenu(ConOf("", ConT(p)), FloatDecs, FloatWires, 2) : p \in {"float32", "float64"}}
    \union {[ConMenu(ConOf(p, ConT("S")), Bound({ConF(5), ConF(4)}), FloatWires, 3) EXCEPT !.scalar = Bound({ConF(5), ConF(7)})] :
              p \in {"float32", "float64"}}

TextDecs ==
  {Rules!Dec("length", <<ConI(x), ConI(y)>>) : x \in {0, 1, 5}, y \in {1, 2, 4}}
    \union {Rules!Dec("length", <<ConI(x)>>) : x \in {0, 2}}
    \union {Rules!Dec(n, <<ConI(x)>>) : n \in {"minLength", "maxLength"}, x \in {-1, 0, 2, 7}}
    \union {Rules!Dec("pattern", <<ConStr("p")>>), Rules!Dec("format", <<ConStr("email")>>), Rules!Dec("format", <<ConIdent("raw")>>)}
TextMenus ==
  {ConMenu(ConDesign(ConOpt(ConT("string"))), TextDecs, ConTexts \union {ConNull, ConNum(8)}, 2)}
    \union {[ConMenu(ConOf("string", t), {d \in TextDecs : Len(d.args) = 1}, ConTexts, 2)
              EXCEPT !.scalar = TextDecs] : t \in {ConT("S"), ConOpt(ConT("S"))}}

EnumOf(ms) == [ConDesign(ConOpt(ConT("E"))) EXCEPT !.enum = ms]
EnumMenus ==
  {ConMenu(EnumOf(ms), Bound({ConI(1)}) \union {Rules!Dec("minLength", <<ConI(2)>>), Rules!Dec("nullable", <<>>)},
     ConOnes(0 .. 3) \union ConTexts \union {ConNull}, 2) :
     ms \in {<<>>, <<ConMember("A", "bare", Rules!NoValue), ConMember("B", "bare", Rules!NoValue)>>,
             <<ConMember("A", "int", ConI(1)), ConMember("B", "int", ConI(2))>>,
             <<ConMember("A", "int", ConI(1)), ConMember("B", "int", ConI(1))>>,
             <<ConMember("A", "string", ConStr("a")), ConMember("B", "bare", Rules!NoValue)>>,
             <<ConMember("A", "string", ConStr("a")), ConMember("B", "string", ConStr("ab"))>>}}

(* Arrays, maps and what keys them.                                        *)
ConObj(vals) == [kind |-> "object", v |-> 0, text |-> "", els |-> [i \in DOMAIN vals |-> [key |-> ConStr("m"), val |-> vals[i]]]]
Entries(S, val) == {[kind |-> "object", v |-> 0, text |-> "", els |-> ks] :
                      ks \in {<<>>} \union {<<[key |-> k, val |-> val]>> : k \in S}}
Lists(S) == {Rules!ArrayLit(els) : els \in UNION {[1 .. n -> S] : n \in 0 .. 2}}
ItemDecs == {Rules!Dec(n, <<ConI(x)>>) : n \in {"minItems", "maxItems"}, x \in {-1, 0, 1, 7}} \union {Rules!Dec("uniqueItems", <<>>)}
Instants == {[Rules!Lit("datetime", 1) EXCEPT !.text = z] : z \in {"Z", Rules!GreatestOffset}}
ArrayMenus ==
  {ConMenu(ConOf("int", ConArray(ConOpt(ConT("int")))), ItemDecs, Lists(ConOnes({1, 2})) \union {ConNull}, 2),
   ConMenu(ConDesign(ConArray(ConT("T"))), ItemDecs, Lists({ConObj(<<ConNum(8)>>), ConObj(<<ConNum(16)>>)}), 2),
   ConMenu(ConDesign(ConArray(ConT("P"))), ItemDecs, Lists({ConObj(<<ConNum(8)>>), ConObj(<<ConNull>>)}), 2),
   ConMenu(ConDesign(ConArray(ConT("U"))), ItemDecs, Lists({ConObj(<<ConObj(<<ConNum(8)>>), [Rules!Lit("datetime", 1) EXCEPT !.text = "Z"]>>)}), 2),
   ConMenu(ConDesign(ConArray(ConT("datetime"))), ItemDecs, Lists(Instants), 1),
   ConMenu(ConDesign(ConArray(ConArray(ConT("int")))), {Rules!Dec("uniqueItems", <<>>)}, {Rules!ArrayLit(<<>>)}, 1),
   ConMenu(ConDesign(ConArray(ConT("Q"))), {Rules!Dec("uniqueItems", <<>>)}, {}, 1),
   ConMenu(ConDesign(ConT("Q")), Bound({ConI(1)}) \union ItemDecs, {}, 1),
   [ConMenu(ConOf("string", ConArray(ConT("S"))), ItemDecs, Lists({ConStr("a"), ConStr("abc")}), 2) EXCEPT !.scalar = {Rules!Dec("pattern", <<ConStr("p")>>)}],
   ConMenu([EnumOf(<<ConMember("A", "bare", Rules!NoValue), ConMember("B", "bare", Rules!NoValue)>>) EXCEPT !.t = ConArray(ConT("E"))],
     ItemDecs, Lists({ConStr("A"), ConStr("a")}), 2)}
MapMenus ==
  {ConMenu(ConOf("", ConMap(k, "int8")), ItemDecs, Entries(ConTexts \union ConOnes({-1, 0, 1}), ConNum(8)) \union Entries({ConStr("a")}, ConNum(16)), 1) :
     k \in {"string", "int8", "uint8", "float64", "T", "Q", "bytes"}}
    \union {[ConMenu(ConOf(p, ConMap("S", "bool")), ItemDecs, Entries(ConTexts \union ConOnes({-1, 0, 1, 2}), Rules!Lit("bool", 1)), 2)
              EXCEPT !.scalar = {Rules!Dec("pattern", <<ConStr("p")>>), Rules!Dec("minLength", <<ConI(2)>>)} \union Bound({ConI(1)})] :
              p \in {"string", "int", "float64"}}
    \union {ConMenu([EnumOf(<<ConMember("A", "int", ConI(1))>>) EXCEPT !.t = ConMap("E", "S"), !.prim = "int8"], ItemDecs,
              Entries(ConOnes({0, 1}), ConNum(8)), 1)}

(* Defaults.                                                               *)
Defaults(lits) == {Rules!Dec("default", <<e>>) : e \in lits}
DefaultMenus ==
  {ConMenu(ConOf("", t), Defaults({ConI(0), ConI(2), ConF(8), ConStr("a")}) \union Bound({ConI(0), ConI(1)}) \union Multiples({ConI(2)}) \union {Rules!Dec("nullable", <<>>)},
     {}, 2) : t \in {ConT("int"), ConT("uint8"), ConOpt(ConT("int8"))}}
    \union {ConMenu(ConOf("", ConT(p)), Defaults({ConF(4), ConF(5), ConF(7), ConI(5), ConF(69), ConF(80)}) \union Bound({ConF(4), ConF(5), ConF(7), ConI(4), ConF(64)}), {}, 2) :
              p \in {"float32", "float64"}}
    \union {[ConMenu(ConOf("float32", ConT("S")), Defaults({ConF(5), ConF(7)}) \union Bound({ConF(5)}), {}, 2) EXCEPT !.scalar = Bound({ConF(5), ConF(7)})]}
    \union {ConMenu(ConOf("", ConT("string")), Defaults({ConStr("a"), ConStr("abc"), ConIdent("A")}) \union {d \in TextDecs : Len(d.args) = 1}, {}, 2)}
    \union {[ConMenu(ConOf("string", ConArray(ConT("S"))), Defaults({ConStr("a"), Rules!ArrayLit(<<ConStr("a"), ConStr("a")>>), Rules!ArrayLit(<<ConStr("abc")>>)}) \union ItemDecs,
              {}, 3) EXCEPT !.scalar = {Rules!Dec("pattern", <<ConStr("p")>>), Rules!Dec("maxLength", <<ConI(2)>>)}]}
    \union {ConMenu(ConOf("", ConArray(ConT("float64"))), Defaults({Rules!ArrayLit(<<ConF(4), ConF(5)>>), Rules!ArrayLit(<<ConF(4), ConF(8)>>)}) \union ItemDecs, {}, 2)}
    \union {ConMenu([EnumOf(ms) EXCEPT !.t = t], Defaults({ConIdent("A"), ConIdent("C"), ConStr("A")}) \union Bound({ConI(1)}) \union {Rules!Dec("maxLength", <<ConI(1)>>)},
              {}, 2) : t \in {ConT("E")}, ms \in {<<ConMember("A", "int", ConI(1))>>, <<ConMember("A", "string", ConStr("ab"))>>}}

(* Other places, and arguments of the wrong shape.                         *)
ConSite(level, d) == [level |-> level, decs |-> <<d>>]
ConSize(n, unit) == [Rules!Lit("size", n) EXCEPT !.text = unit]
SiteMenus ==
  {[ConMenu(ConDesign(ConT("file")),
      {Rules!Dec("maxSize", <<e>>) : e \in {ConI(0), ConI(2), ConSize(-8, "KB"), ConSize(12, "KB")}}
        \union {Rules!Dec("mimeTypes", <<Rules!ArrayLit(<<ConStr("image"), ConStr("*/*")>>)>>), Rules!Dec("mimeTypes", <<ConStr("image")>>), Rules!Dec("mimeTypes", <<ConStr("a")>>),
                 Rules!Dec("format", <<ConStr("email")>>), Rules!Dec("secret", <<>>)}, {}, 2)
      EXCEPT !.other =
        {ConSite(l, d) : l \in {"method", "type", "enum"}, d \in {Rules!Dec("gt", <<ConI(1)>>), Rules!Dec("maxItems", <<ConI(1)>>), Rules!Dec("doc", <<ConStr("a")>>), Rules!Dec("doc", <<>>)}}
        \union {ConSite("method", Rules!Dec("maxBodySize", <<e>>)) : e \in {ConI(0), ConI(3)} \union {ConSize(n, u) : n \in {-8, 4, 8, 12, 24, 40}, u \in {"", "KB", "MB"}}}
        \union {ConSite("method", Rules!Dec("timeout", <<e>>)) : e \in {ConI(0), ConI(-1), ConI(3), ConI(5), Rules!Lit("duration", 12), ConStr("a")}}
        \union {ConSite("method", Rules!Dec("status", <<ConI(n)>>)) : n \in {0, 1, 5, 6}}]}

RECURSIVE Listed(_)
Listed(S) == IF S = {} THEN <<>> ELSE LET m == CHOOSE m \in S : TRUE IN <<m>> \o Listed(S \ {m})
AllMenus == Listed(IntMenus) \o Listed(FloatMenus) \o Listed(TextMenus) \o Listed(EnumMenus)
              \o Listed(ArrayMenus) \o Listed(MapMenus) \o Listed(DefaultMenus) \o Listed(SiteMenus)

Constraints == INSTANCE DesignConstraints WITH
    Whole <- ConWhole, Exact <- 4, NarrowBits <- 2, WideBits <- 4, Second <- 8,
    SizeUnits <- ConUnits, MaxDurationSeconds <- 4, MinStatus <- 1, MaxStatus <- 5,
    Formats <- {"email"}, Patterns <- {"p"}, MediaRanges <- {"*/*", "image"}, Length <- TextLength,
    Meets <- TextMeets, DurationUnits <- {1, 8, 16}, Menus <- AllMenus, menu <- con_menu,
    design <- con_design, stage <- con_stage, accepted <- con_accepted, out <- con_out

ASSUME InstanceConstants == Constraints!WholeHasParts /\ Constraints!ExactOnes /\ Constraints!Widths

-----------------------------------------------------------------------------
\* A machine at rest has one initial state.
AnyInit ==
    /\ machine \in {"bindings", "constraints"}
    /\ machine # "bindings" => menu = "body"
    /\ machine # "constraints" => con_menu = 1
    /\ Init /\ Constraints!Init

AnyNext ==
    \/ machine = "bindings" /\ Next /\ UNCHANGED <<machine, constraintVars>>
    \/ machine = "constraints" /\ Constraints!Next /\ UNCHANGED <<machine, vars>>

AnySpec == AnyInit /\ [][AnyNext]_<<machine, vars, constraintVars>>

-----------------------------------------------------------------------------
\* Of a design the analyser accepts, the generated handler takes every request the document
\* describes but one with null for a required any or raw member (DocumentedAccepted), refuses
\* one that leaves out what is required, reads each field from its own place, and answers as
\* documented (internal/semantic, internal/codegen/golang, internal/codegen/docs).
BindingsSound ==
    machine = "bindings" => DocumentedAccepted /\ RequiredRefused /\ ReadsItsPlace /\ ResponseDocumented

\* Of a design the analyser accepts, Validate and the document's schema admit the same values, the
\* bounds leave one to pass, a default holds, and no constraint is dropped (internal/semantic,
\* internal/codegen/golang, internal/codegen/docs).
ConstraintsSound ==
    machine = "constraints" =>
        /\ Constraints!ChecksMatchDocument /\ Constraints!SomeValuePasses
        /\ Constraints!DefaultHolds /\ Constraints!NoneDropped
=============================================================================
