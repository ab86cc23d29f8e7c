----------------------------- MODULE MCNaming ------------------------------
(***************************************************************************)
(* Small designs whose names and places meet, for TLC: two machines side   *)
(* by side, the declarations of a design and the Go and OpenAPI names made *)
(* of them (DesignTypes), and its services, routes and outputs             *)
(* (DesignServices).  An execution is of one machine, the other rests in   *)
(* an initial state, so the states add up and do not multiply.             *)
(***************************************************************************)
EXTENDS DesignTypes

VARIABLES
    machine,    \* the machine that runs
    svc_menu, svc_methods, svc_docs

serviceVars == <<svc_menu, svc_methods, svc_docs>>

-----------------------------------------------------------------------------
(* DesignTypes: families of small designs, each with the declarations and  *)
(* members whose combinations one group of checks and generators tells     *)
(* apart.                                                                  *)
P(piece) == <<piece>>

(* References.                                                             *)
Ref(pkg, name, args) == [pkg |-> pkg, name |-> name, args |-> args, arr |-> 0, opt |-> FALSE, par |-> FALSE]
T(name) == Ref(None, name, <<>>)
Q(pkg, name) == Ref(pkg, name, <<>>)
G(name, args) == Ref(None, name, args)
List(t) == [t EXCEPT !.arr = @ + 1]
Maybe(t) == [t EXCEPT !.opt = TRUE]

String == P("string")
Str == T(String)

(* Members and declarations.                                               *)
Field(name, ref) == [m |-> "field", name |-> name, ref |-> ref, key |-> name, off |-> FALSE, head |-> FALSE]
Keyed(f, key) == [f EXCEPT !.key = key]
Header(f) == [f EXCEPT !.off = TRUE, !.head = TRUE]
Mixin(ref) == [m |-> "mixin", name |-> None, ref |-> ref, key |-> None, off |-> FALSE, head |-> FALSE]
X(ref) == Field(P("x"), ref)

Declare(pkg, kind, name, params, body, values) ==
  [pkg |-> pkg, kind |-> kind, name |-> name, params |-> params,
   body |-> [i \in DOMAIN body |-> [body[i] EXCEPT !.ref = TypeParamRefs(body[i].ref, params)]],
   values |-> values]
Type(pkg, name, body) == Declare(pkg, "type", name, <<>>, body, <<>>)
Of(pkg, name, params, body) == Declare(pkg, "type", name, params, body, <<>>)
Err(pkg, name, body) == Declare(pkg, "error", name, <<>>, body, <<>>)
Enum(pkg, name, values) == Declare(pkg, "enum", name, <<>>, <<>>, values)
Event(pkg, name, body) == Declare(pkg, "event", name, <<>>, body, <<>>)

a == P("a")
b == P("b")
lib == P("lib")
api == P("api")
time == P("time")
time2 == <<"time", "2">>
Lib == P("Lib")
TT == P("T")
UU == P("U")
Item == P("Item")
Page == P("Page")
Base == P("Base")
Host == P("Host")
Mid == P("Mid")
Meta == P("Meta")
Box == P("Box")
User == P("User")
Tree == P("Tree")
Pair == P("Pair")

TypeUpper == [x |-> "X", a |-> "A", b |-> "B", c |-> "C", page |-> "Page", user |-> "User", id |-> "Id", code |-> "Code",
            session |-> "Session", validate |-> "Validate", error |-> "Error", lib |-> "Lib", api |-> "Api",
            time |-> "Time", shared |-> "Shared", string |-> "String", int |-> "Int", cookie |-> "Cookie",
            items |-> "Items", meta |-> "Meta", gone |-> "Gone", body |-> "Body", mid |-> "Mid", item |-> "Item",
            switch |-> "Switch"]
TypePrims == {P("string"), P("int"), P("cookie")}

(* `errors` and `capital` reach the two designs that are accepted and do   *)
(* not compile, which ErrorReadsReach and GoCompiles name.                 *)
TypeMenus == {"packages", "generics", "mixins", "decls", "merge", "errors", "capital", "spell"}

TypeSkeleton ==
  [packages |-> <<Type(a, P("A"), <<>>), Type(b, P("B"), <<>>), Type(time, P("Clock"), <<>>),
                  Err(time2, P("Late"), <<>>), Of(Lib, Box, <<TT>>, <<>>), Of(a, P("C"), <<Lib, TT>>, <<>>)>>,
   generics |-> <<Of(a, Tree, <<TT>>, <<>>), Of(a, Pair, <<TT, UU>>, <<>>), Type(a, Item, <<>>),
                  Of(b, Box, <<UU>>, <<>>)>>,
   mixins |-> <<Type(a, Host, <<>>), Type(a, Page, <<>>), Type(a, Mid, <<>>), Of(b, Page, <<TT>>, <<>>),
                Err(a, P("Gone"), <<>>)>>,
   decls |-> <<>>,
   merge |-> <<Type(lib, User, <<>>), Of(lib, Page, <<Item>>, <<>>), Type(api, Host, <<>>)>>,
   errors |-> <<Type(a, P("Error"), <<>>), Type(a, Page, <<>>), Err(a, P("Gone"), <<>>)>>,
   capital |-> <<Type(a, User, <<>>), Type(User, Item, <<>>)>>,
   spell |-> <<Of(lib, Page, <<TT>>, <<Field(P("items"), List(T(TT)))>>), Type(lib, Meta, <<>>),
               Of(lib, Box, <<UU>>, <<>>), Type(api, Meta, <<>>), Type(api, Host, <<>>), Of(api, Mid, <<TT>>, <<>>)>>]

To(pkg, name, ms) == {<< <<pkg, name>>, m>> : m \in ms}

TypeDecls ==
  [packages |-> {Type(P("switch"), P("D"), <<>>)},
   generics |-> {},
   mixins |-> {},
   errors |-> {},
   capital |-> {},
   decls |-> {Err(a, P("Gone"), <<>>), Err(a, <<"Gone", "Err">>, <<>>), Type(a, <<"Gone", "Err">>, <<>>),
              Type(a, <<"Gone", "Body">>, <<>>), Type(a, <<"New", "Gone", "Err">>, <<>>), Type(a, P("item"), <<>>),
              Type(a, P("string"), <<>>), Type(b, <<"Gone", "Err">>, <<>>),
              Enum(a, P("Err"), << <<"code", "_", "Gone">> >>), Enum(a, P("Gone"), <<P("body"), <<"a", "B">>, <<"a", "_", "b">> >>),
              Type(a, User, <<>>), Type(a, <<"New", "User", "Session", "Cookie">>, <<>>),
              Event(a, P("Gone"), <<>>), Event(a, <<"Gone", "Contract">>, <<>>)},
   merge |-> {Type(api, User, <<>>), Type(api, <<"Lib", "User">>, <<>>), Err(lib, P("Gone"), <<>>),
              Type(api, <<"Gone", "Err">>, <<>>), Type(lib, Item, <<>>), Type(api, <<"Int", "Array">>, <<>>),
              Type(lib, <<"Item", "2">>, <<>>), Type(api, <<"Page", "Of", "User">>, <<>>),
              Type(b, Item, <<>>)},
   spell |-> {Event(api, P("Seen"), <<X(Ref(lib, Page, <<T(Meta)>>))>>),
              Event(api, P("Kept"), <<X(Ref(lib, Box, <<List(T(Meta))>>))>>)}]

TypeMembers ==
  [packages |->
     To(a, P("A"), {X(Q(b, P("B"))), X(Q(time, P("Clock"))), X(Q(a, P("A"))), X(Q(b, P("Z"))), X(Q(P("z"), P("B"))),
                    Field(P("a"), Q(time, P("Clock")))})
       \cup To(b, P("B"), {X(Q(a, P("A"))), X(Q(time, P("Clock"))), X(Ref(Lib, Box, <<Q(a, P("A"))>>))})
       \cup To(time, P("Clock"), {X(Q(b, P("B"))), Mixin(Q(a, P("A")))})
       \cup To(time2, P("Late"), {X(Q(time, P("Clock"))), X(Q(a, P("A"))), Field(P("a"), Q(time, P("Clock")))})
       \cup To(a, P("C"), {X(T(Lib)), X(Ref(Lib, Box, <<T(TT)>>)), Field(P("a"), Q(time, P("Clock"))),
                           Field(P("b"), G(P("C"), <<Str, Q(time2, P("Late"))>>))}),
   generics |->
     To(a, Tree, {X(G(Tree, <<T(TT)>>)), X(G(Tree, <<List(T(TT))>>)), X(G(Pair, <<T(TT), T(TT)>>)), Field(P("a"), T(TT)),
                  Field(P("b"), G(Pair, <<G(Tree, <<T(TT)>>), T(Item)>>)), X(G(Tree, <<T(Item)>>)), X(T(Tree)),
                  X(Ref(b, Box, <<T(TT)>>))})
       \cup To(a, Pair, {X(G(Tree, <<T(UU)>>)), X(G(Pair, <<T(UU), T(TT)>>)), X(G(Pair, <<T(TT), List(T(UU))>>)),
                         Field(P("a"), G(Pair, <<T(Item), T(TT)>>)), Field(P("b"), G(Tree, <<G(Map, <<Str, T(TT)>>)>>)),
                         X(G(Pair, <<Maybe(T(TT)), T(UU)>>))})
       \cup To(a, Item, {X(G(Tree, <<T(Item)>>)), X(G(Pair, <<T(Item), G(Tree, <<Str>>)>>)), X(G(Item, <<Str>>))})
       \cup To(b, Box, {X(Ref(a, Tree, <<T(UU)>>)), X(G(Box, <<G(Box, <<T(UU)>>)>>))}),
   mixins |->
     To(a, Host, {Field(P("page"), Str), Field(<<"user", "_", "id">>, Str), Field(<<"user", "Id">>, Str), Mixin(T(Page)),
                  Mixin(T(Mid)), Mixin(T(Host)), Keyed(X(Str), P("page")), Field(P("validate"), Str)})
       \cup To(a, Page, {Field(P("page"), Str), Field(<<"user", "Id">>, Str), Mixin(T(Mid)),
                         Header(Field(P("error"), Str))})
       \cup To(a, Mid, {Field(P("page"), Str), X(Str), Mixin(Ref(b, Page, <<Str>>)), Mixin(Q(b, Page)), Mixin(T(Page))})
       \cup To(b, Page, {X(T(TT)), Field(P("page"), Str), Mixin(T(TT))})
       \cup To(a, P("Gone"), {Mixin(T(Page)), Header(Field(P("page"), Str)), Header(Field(<<"gone", "Body">>, Str))}),
   errors |->
     To(a, P("Error"), {Header(Field(P("page"), Str)), Header(X(Str))})
       \cup To(a, P("Gone"), {Mixin(T(P("Error"))), Mixin(T(Page)), Header(Field(P("page"), Str))}),
   capital |-> To(a, User, {X(Q(User, Item))}),
   decls |->
     To(a, P("Gone"), {X(Str)})
       \cup To(a, User, {Field(P("session"), T(P("cookie"))), Field(<<"user", "_", "id">>, Str)}),
   merge |->
     To(lib, User, {X(G(Page, <<T(User)>>)), X(T(Item))})
       \cup To(lib, Page, {X(List(T(Item))), X(Q(b, Item)), Field(P("a"), T(User)), Field(P("b"), G(Page, <<T(Item)>>))})
       \cup To(api, Host, {X(Ref(lib, Page, <<T(User)>>)), X(Q(lib, User)), Field(P("a"), Ref(lib, Page, <<Q(lib, User)>>)),
                           Mixin(Q(lib, User)), Field(P("b"), Ref(lib, Page, <<List(T(P("int")))>>)),
                           Field(P("b"), Ref(lib, Page, <<T(<<"Int", "Array">>)>>)),
                           Field(P("c"), Ref(lib, Page, <<G(Map, <<Str, List(Q(lib, User))>>)>>))}),
   spell |->
     To(lib, Page, {Field(P("meta"), T(Meta)), X(T(TT))})
       \cup To(lib, Meta, {X(Str)})
       \cup To(lib, Box, {Mixin(G(Page, <<T(UU)>>)), Mixin(G(Page, <<T(Meta)>>)), Field(P("a"), Maybe(T(UU))),
                          Field(P("b"), G(Page, <<G(Map, <<Str, T(UU)>>)>>))})
       \cup To(api, Host, {Mixin(Ref(lib, Page, <<T(Meta)>>)), Mixin(Ref(lib, Box, <<List(T(Meta))>>)),
                           Mixin(G(Mid, <<T(Meta)>>)), Field(P("a"), T(Meta))})
       \cup To(api, Mid, {Mixin(Ref(lib, Box, <<T(TT)>>)), Mixin(Ref(lib, Page, <<G(Mid, <<T(TT)>>)>>)), X(T(Meta))})]

TypeMaxAdded == [errors |-> 3, capital |-> 1, packages |-> 3, generics |-> 3, mixins |-> 4, decls |-> 3, merge |-> 3, spell |-> 4]
TypeGoPackageWords == {P("switch")}
TypeBoundNames == {P("wire"), P("time")}

-----------------------------------------------------------------------------
(* DesignServices: one family of menus per question, routes against the    *)
(* mux, variables against fields, output directories, operation names,     *)
(* middleware chains, and the docs routes.                                 *)
ServiceDigits == {"2", "3"}
ServiceSeparators == {"_"}
ServiceGoFileWords == {<<"Test">>, <<"Linux">>}
Path == INSTANCE Routes WITH
    Digits <- ServiceDigits, Separators <- ServiceSeparators, GoFileWords <- ServiceGoFileWords

ServiceHealthPaths == {Path!KebabCase(<<"Healthz">>), Path!KebabCase(<<"Readyz">>)}

text(n) == Path!KebabCase(<<n>>)
seg(n) == Path!Lit(text(n))
var(n) == Path!Var(text(n))
rest(n) == Path!Rest(text(n))

NoExt == [group |-> <<>>, hidden |-> FALSE, mws |-> <<>>, ignore |-> FALSE]
service(pkg, name, prefix) ==
  [pkg |-> pkg, name |-> name, prefix |-> prefix, group |-> <<>>, hidden |-> FALSE, mws |-> <<>>, ext |-> NoExt]

NoRequest == { [name |-> <<>>, at |-> "none", arg |-> <<>>] }
offer(s, name, verb, path) ==
  [svc |-> s, blk |-> "primary", name |-> name, verb |-> verb, path |-> path, req |-> NoRequest,
   raw |-> TRUE, resp |-> FALSE, hidden |-> FALSE, opid |-> <<>>, mws |-> <<>>, ignore |-> FALSE]

plainMenu(kind, base, svcs) ==
  [kind |-> kind, base |-> base, fileCase |-> "snake", svcs |-> svcs, mws |-> {}, declared |-> {}, docs |-> {}]

field(name, at, arg) == [name |-> text(name), at |-> at, arg |-> arg]

-----------------------------------------------------------------------------
(* Routes: two services, every path of up to two segments over a literal   *)
(* of each kind and one of three, under base paths and prefixes of every   *)
(* kind.                                                                   *)
RoutePaths == { <<>>, <<seg("A")>>, <<var("x")>>, <<seg("A"), seg("B")>>, <<seg("A"), var("x")>>,
                <<var("x"), seg("B")>>, <<var("x"), var("y")>>, <<Path!Bad>>, <<var("x"), var("x")>>,
                <<seg("Healthz")>>, <<var("x"), seg("B"), seg("B")>> }

(* One name for each path, so that names never clash where routes do not.  *)
RouteName(s, path) ==
  << IF s = 1 THEN "One" ELSE "Two" >>
    \o [i \in DOMAIN path |-> IF path[i].k = "lit" THEN path[i].n[1][1] ELSE "Any"]

RouteOffers(verbs) ==
  {offer(s, RouteName(s, p), v, p) : s \in 1 .. 2, v \in verbs, p \in RoutePaths}
    \cup {offer(2, <<"A">>, v, Path!NoPath) : v \in verbs}

RouteMenus ==
  {plainMenu("routes", bs, <<service("p", <<"S">>, <<>>), service("q", <<"T">>, p)>>) :
     bs \in {<<>>, <<seg("Api")>>, <<var("v")>>, <<rest("v")>>, <<Path!Bad>>},
     p \in {<<>>, <<seg("A")>>, <<var("x")>>, <<rest("x")>>, <<seg("A"), rest("x")>>, <<Path!End>>}}
  \cup {plainMenu("verbs", <<>>, <<service("p", <<"S">>, <<>>), service("q", <<"T">>, <<>>)>>)}

(* Variables: what one method's fields bind, of its own path's variable,   *)
(* the prefix's and the base path's.                                       *)
PathFields == {field("v", "", <<>>), field("w", "", <<>>), field("x", "", <<>>), field("k", "path", text("x")),
           field("q", "query", <<>>), field("y", "path", <<>>)}
BindingOffers ==
  {[offer(1, <<"Get">>, verb, path) EXCEPT !.req = req, !.raw = raw] :
     verb \in {"GET", "POST"}, path \in {<<>>, <<var("x")>>, <<seg("A"), var("x")>>, Path!NoPath},
     req \in {NoRequest} \cup SUBSET PathFields, raw \in BOOLEAN}
BindingMenus ==
  {plainMenu("bindings", bs, <<service("p", <<"S">>, p)>>) : bs \in {<<>>, <<var("v")>>}, p \in {<<>>, <<var("w")>>}}

(* Outputs: directories shared by group or by name, and names that write   *)
(* one file or declare one Go name.  The first service has an extend block.*)
OrdersName == <<"OrdersName">>
UsersName == <<"UsersName">>
OutputSvcs(g, eg, h) ==
  << [service("p", OrdersName, <<seg("O")>>) EXCEPT !.group = g, !.ext = [NoExt EXCEPT !.group = eg]],
     [service("p", UsersName, <<seg("U")>>) EXCEPT !.group = h],
     service("q", OrdersName, <<seg("Q")>>) >>
OutputNames == {<<"Get">>, <<"New", "Get">>, <<"Get", "Test">>, <<"Get", "_", "Test">>, <<"Logger">>, <<"Test">>}
OutputOffers ==
  {offer(s, n, "POST", Path!NoPath) : s \in 1 .. 3, n \in OutputNames}
    \cup {[offer(1, n, "POST", Path!NoPath) EXCEPT !.blk = "extend"] : n \in OutputNames}
OutputMenus ==
  {[plainMenu("outputs", <<>>, OutputSvcs(g, eg, h)) EXCEPT !.fileCase = c] :
     g \in {<<>>, Path!FileName(<<"Shared">>)}, eg \in {<<>>, Path!FileName(UsersName)},
     h \in {<<>>, Path!FileName(<<"Shared">>)}, c \in {"snake", "camel"}}

(* Operation names: services whose names and methods spell one stem.       *)
ABC == <<"A", "B", "C">>
Body == {field("f", "", <<>>)}
named(s, name) == [offer(s, name, "POST", Path!NoPath) EXCEPT !.req = Body, !.raw = FALSE, !.resp = TRUE]
NameOffers ==
  { named(1, <<"B", "C">>), named(2, <<"C">>), named(3, <<"B", "C">>),
    named(4, <<"C">>), named(4, ABC), named(4, ABC \o <<"2">>),
    [named(2, <<"C">>) EXCEPT !.opid = <<"Own">>], [named(1, <<"B", "C">>) EXCEPT !.hidden = TRUE] }
NameMenus ==
  {[plainMenu("names", <<>>, << service("p", <<"A">>, <<seg("I")>>), service("p", <<"A", "B">>, <<seg("J")>>),
                                service("q", <<"A">>, <<seg("K")>>), service("q", <<"Z">>, <<seg("L")>>) >>)
     EXCEPT !.declared = d] :
     d \in {{}, {ABC \o <<"2", "RespBody">>}, {<<"C", "ReqBody">>}}}

(* Chains: a service's, its extend block's and a method's middlewares.     *)
ref(pkg, name) == [pkg |-> pkg, name |-> name]
Auth == <<"Auth">>
Chains == {<<>>, <<ref("", Auth)>>, <<ref("q", Auth), ref("", <<"Log">>)>>}
ChainOffers ==
  {[offer(1, <<"Get">>, "GET", Path!NoPath) EXCEPT !.blk = bs, !.mws = mine, !.ignore = drop] :
     bs \in {"primary", "extend"}, mine \in Chains, drop \in BOOLEAN}
ChainMenus ==
  {[plainMenu("chains", <<>>, << [service("p", <<"S">>, <<>>) EXCEPT !.mws = own,
                                    !.ext = [NoExt EXCEPT !.mws = ext, !.ignore = ig]] >>)
     EXCEPT !.mws = declared] :
     own \in Chains, ext \in Chains, ig \in BOOLEAN,
     declared \in {{ref("p", Auth), ref("q", <<"Log">>)}, {ref("q", Auth), ref("p", <<"Log">>)},
                   {ref("p", Auth), ref("q", Auth), ref("q", <<"Log">>)},
                   {ref("q", Auth), ref("q", <<"Log">>), ref("p", <<"Lo", "_", "g">>)}}}

(* Docs: the two paths ServeDocs asks for, beside routes that hold them.   *)
DocsOffers ==
  {offer(1, <<"M">>, v, <<seg("Docs")>>) : v \in {"GET", "POST"}}
    \cup {offer(1, <<"N">>, "GET", <<var("x")>>), offer(1, <<"O">>, "GET", <<var("x"), seg("B")>>)}
DocsMenus ==
  {[plainMenu("docs", <<>>, <<service("p", <<"S">>, <<>>)>>)
     EXCEPT !.docs = { <<seg("Docs")>>, <<seg("Spec")>>, <<seg("Healthz")>>, <<Path!Bad>>, <<seg("Spec"), seg("B")>> }]}

ServiceMenus == RouteMenus \cup BindingMenus \cup OutputMenus \cup NameMenus \cup ChainMenus \cup DocsMenus
ServiceOffers ==
  [routes |-> RouteOffers({"GET"}), verbs |-> RouteOffers({"GET", "HEAD"}), bindings |-> BindingOffers,
   outputs |-> OutputOffers, names |-> NameOffers, chains |-> ChainOffers, docs |-> DocsOffers]
ServiceMaxMethods ==
  [routes |-> 2, verbs |-> 2, bindings |-> 1, outputs |-> 2, names |-> 4, chains |-> 1, docs |-> 2]

Services == INSTANCE DesignServices WITH
    Digits <- ServiceDigits, Separators <- ServiceSeparators, GoFileWords <- ServiceGoFileWords,
    HealthPaths <- ServiceHealthPaths, Menus <- ServiceMenus, Offers <- ServiceOffers,
    MaxMethods <- ServiceMaxMethods, menu <- svc_menu, methods <- svc_methods,
    docs <- svc_docs

-----------------------------------------------------------------------------
\* A machine at rest has one initial state.
AnyInit ==
    /\ machine \in {"types", "services"}
    /\ machine # "types" => menu = "decls"
    /\ machine # "services" => svc_menu = CHOOSE m \in DocsMenus : TRUE
    /\ Init /\ Services!Init

AnyNext ==
    \/ machine = "types" /\ Next /\ UNCHANGED <<machine, serviceVars>>
    \/ machine = "services" /\ Services!Next /\ UNCHANGED <<machine, vars>>

AnySpec == AnyInit /\ [][AnyNext]_<<machine, vars, serviceVars>>

-----------------------------------------------------------------------------
\* Of a design the analyser accepts, the types packages compile but for a capitalised package
\* imported beside a declaration of its name and a header of an error read through a mixin named
\* Error (GoCompiles, ErrorReadsReach), instantiation ends, a promoted member is reached where the
\* document says, flattening spells what the generator spells, and the document's components are
\* apart (internal/semantic, internal/codegen/golang, internal/codegen/docs).
TypesSound ==
    machine = "types" => Sound

\* Of a design the analyser accepts, the mux takes every route but a root one under a basePath that
\* ends the route, and every two but GET beside HEAD and routes of two lengths of which one ends
\* in a wildcard (RootPastEnd, NotCompared), a documented operation reaches its own handler, no two
\* outputs share a file or a Go name, the document's names are apart and every middleware chain is
\* wired (internal/semantic, internal/codegen/golang, internal/codegen/docs).
ServicesSound ==
    machine = "services" => Services!Sound
=============================================================================
