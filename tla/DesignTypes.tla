---------------------------- MODULE DesignTypes -----------------------------
(***************************************************************************)
(* The type, enum, scalar, error and event declarations of a design: what  *)
(* the analyser accepts (internal/semantic), the Go the types generator    *)
(* writes for them (internal/codegen/golang) and the components of the     *)
(* OpenAPI document (internal/codegen/docs).  A design starts as a         *)
(* skeleton and grows by one declaration or one member at a time; the      *)
(* properties speak of every design the analyser accepts.                  *)
(***************************************************************************)
EXTENDS Declarations, TLC

CONSTANTS Menus,           \* the families of designs
          Skeleton,        \* [Menus -> declarations a design starts from]
          OfferedDecls,    \* [Menus -> declarations a design may gain]
          OfferedMembers,  \* [Menus -> set of <<declaration, member>>]
          MaxAdded,        \* [Menus -> bound on what a design gains]
          GoPackageWords,  \* the package names Go keeps for itself
          BoundNames       \* the names types.go binds besides its imports

VARIABLES menu, design, added

vars == <<menu, design, added>>

Decls(D, kinds) == {D[i] : i \in {j \in DOMAIN D : D[j].kind \in kinds}}
Bodies(D) == Decls(D, {"type", "error"})
NoDup(s) == \A i, j \in DOMAIN s : s[i] = s[j] => i = j

RECURSIVE Flat(_)
Flat(ss) == IF ss = <<>> THEN <<>> ELSE Head(ss) \o Flat(Tail(ss))

-----------------------------------------------------------------------------
(***************************************************************************)
(* The analyser.  Each operator is TRUE when its check reports no error.   *)
(***************************************************************************)

(* groupFilesByPackage, goPackageNameProblem.                              *)
groupFilesByPackage(D) == Packages(D) \cap GoPackageWords = {}

(* collectDecls: types, enums, scalars and errors share one namespace,     *)
(* which keeps clear of the built-ins; events have their own.              *)
Namespace(kind) == IF kind \in TypeTable THEN "types" ELSE kind

collectDecls(D) ==
  /\ \A i, j \in DOMAIN D :
       /\ i # j
       /\ D[i].pkg = D[j].pkg
       /\ Namespace(D[i].kind) = Namespace(D[j].kind)
       => D[i].name # D[j].name
  /\ \A d \in Decls(D, TypeTable) : d.name \notin PrimNames

(* checkTypeParamsHidePackages: a parameter spelled like a package the     *)
(* body names.                                                             *)
checkTypeParamsHidePackages(D, d) ==
  ~\E t \in TypeRefs(d) :
     t.pkg \in Elements(d.params) /\ Exported(t.pkg) /\ t.pkg \in Packages(D) \ {d.pkg}

checkOneDeclNameCase(D, d) ==
  /\ Exported(d.name)
  /\ \A i \in DOMAIN d.params : Exported(d.params[i])
  /\ d.kind = "type" => checkTypeParamsHidePackages(D, d)

(* typesGoNames: the identifiers a declaration puts in the types package.  *)
IsCookie(f) == f.ref.pkg = None /\ f.ref.name = <<"cookie">> /\ f.ref.arr = 0

cookieConstructorGoNames(owner, body) ==
  LET fields == Fields(body)
      cookies == SelectSeq([i \in DOMAIN fields |-> i], LAMBDA i : IsCookie(fields[i]))
  IN  [k \in DOMAIN cookies |-> CookieConstructorName(owner, GoLevelNames(body)[cookies[k]])]

(* Faulty: forgets the body struct of an error.                            *)
typesGoNames_body(d) ==
  CASE d.kind \in {"type", "scalar"} -> <<d.name>> \o cookieConstructorGoNames(d.name, d.body)
    [] d.kind = "enum" -> <<d.name>> \o EnumConstNames(d.name, d.values)
    [] d.kind = "error" ->
         <<ErrorTypeName(d.name), ErrorCodeName(d.name), ErrorConstructorName(d.name)>>
           \o cookieConstructorGoNames(ErrorTypeName(d.name), d.body)
    [] OTHER -> <<>>


typesGoNames(d) ==
  CASE d.kind = "type" -> <<d.name>> \o cookieConstructorGoNames(d.name, d.body)
    [] d.kind = "scalar" -> <<d.name>>
    [] d.kind = "enum" -> <<d.name>> \o EnumConstNames(d.name, d.values)
    [] d.kind = "error" ->
         <<ErrorTypeName(d.name), ErrorCodeName(d.name), ErrorConstructorName(d.name)>>
           \o (IF d.body = <<>> THEN <<>> ELSE <<ErrorBodyName(d.name)>>)
           \o cookieConstructorGoNames(ErrorTypeName(d.name), d.body)
    [] OTHER -> <<>>

eventGoNames(d) == IF d.kind = "event" THEN <<d.name, EventContractName(d.name)>> ELSE <<>>

checkDeclGoNameCollisions(D, pkg) ==
  LET own == SelectSeq(D, LAMBDA d : d.pkg = pkg)
  IN  /\ NoDup(Flat([i \in DOMAIN own |-> typesGoNames(own[i])]))
      /\ NoDup(Flat([i \in DOMAIN own |-> eventGoNames(own[i])]))

(* generatedMemberClash, and the names of the members it guards.           *)
bodyStructMethods == {<<"Validate">>}
errorTypeMethods ==
  {<<"Error">>, <<"Err", "Code">>, <<"HTTPStatus">>, <<"MarshalJSON">>,
   <<"WriteResponseHeaders">>, <<"ResponseCookies">>}

generatedMemberClash(goName, d, promoted) ==
  \/ ~promoted /\ goName \in bodyStructMethods
  \/ d.kind = "error" /\ goName \in errorTypeMethods \cup {ErrorBodyName(d.name)}

(* checkFieldUniqueness with checkGeneratedMemberNames.                    *)
checkFieldUniqueness(D, d) ==
  /\ NoDup(FieldNames(d.body))
  /\ \A i \in DOMAIN FieldNames(d.body) : GoFieldName(FieldNames(d.body)[i]) # None
  /\ \A i \in DOMAIN GoLevelNames(d.body) : ~generatedMemberClash(GoLevelNames(d.body)[i], d, FALSE)
  /\ \A i \in DOMAIN d.body : ~IsField(d.body[i]) =>
       LET promoted == FlattenFields(D, d.pkg, d.pkg, <<d.body[i]>>, <<>>, <<>>)
       IN  /\ GoEmbedName(d.body[i].ref) \notin bodyStructMethods
           /\ \A k \in DOMAIN promoted :
                ~generatedMemberClash(promoted[k].sel[Len(promoted[k].sel)], d, TRUE)

(* checkJSONKeysIn: two body fields, mixin fields included, of one key.    *)
checkJSONKeysIn(D, d) ==
  LET flat == FlattenFields(D, d.pkg, d.pkg, d.body, <<>>, <<>>)
      riding == SelectSeq(flat, LAMBDA ff : ~ff.field.off)
  IN  \A i, j \in DOMAIN riding :
        i # j /\ riding[i].field.key = riding[j].field.key => riding[i].field = riding[j].field

(* checkTypeRef with checkArity; the arity of a mixin is processMixin's.   *)
checkTypeRef(D, d, t, mixin) ==
  LET pkg == Resolve(D, d.pkg, t)
      target == Decl(D, pkg, t.name, IF mixin THEN MixinNamedKinds ELSE TypeRefDecls)
  IN  /\ \A i \in DOMAIN t.args : ~t.args[i].opt
      /\ t.pkg # d.pkg
      /\ IF t.pkg = None /\ t.name \in PrimNames THEN mixin \/ t.args = <<>>
         ELSE IF t.par THEN t.args = <<>>
         ELSE /\ pkg # None
              /\ target # NoDecl
              /\ mixin \/ Len(t.args) = Len(target.params)

checkTypeRefs(D, d) ==
  \A i \in DOMAIN d.body : \A t \in NamedRefs(d.body[i].ref) :
    checkTypeRef(D, d, t, ~IsField(d.body[i]) /\ t = d.body[i].ref)

(* collectMixinFields: the fields each mixin of a host brings, seen as     *)
(* <<field name, the host's mixin>>; ok is cleared by a conflict or a      *)
(* cycle through the types being expanded.                                 *)
RECURSIVE collectMixinFields(_, _, _, _, _, _)
collectMixinFields(D, td, label, i, visited, acc) ==
  IF i > Len(td.body) THEN acc
  ELSE LET m == td.body[i]
           prev == {o \in acc.seen : o[1] = m.name}
           next == Lookup(D, td.pkg, m.ref, {"type"})
           cyclic == <<next.pkg, next.name>> \in visited
           after ==
             CASE IsField(m) /\ prev = {} -> [acc EXCEPT !.seen = @ \cup {<<m.name, label>>}]
               [] IsField(m) /\ prev # {} -> [acc EXCEPT !.ok = @ /\ prev = {<<m.name, label>>}]
               [] next = NoDecl -> acc
               [] cyclic -> [acc EXCEPT !.ok = FALSE]
               [] OTHER -> collectMixinFields(D, next, label, 1,
                                              visited \cup {<<next.pkg, next.name>>}, acc)
       IN  collectMixinFields(D, td, label, i + 1, visited, after)

(* processMixin, for the mixins of a host from the i-th member on.         *)
RECURSIVE processMixins(_, _, _, _)
processMixins(D, d, i, acc) ==
  IF i > Len(d.body) THEN acc
  ELSE LET ref == d.body[i].ref
           named == Lookup(D, d.pkg, ref, MixinNamedKinds)
           host == <<d.pkg, d.name>>
           key == <<named.pkg, named.name>>
           after ==
             CASE IsField(d.body[i]) \/ named = NoDecl -> acc
               [] named.kind # "type" -> [acc EXCEPT !.ok = FALSE]
               [] Len(ref.args) # Len(named.params) -> [acc EXCEPT !.ok = FALSE]
               [] key = host -> [acc EXCEPT !.ok = FALSE]
               [] OTHER -> collectMixinFields(D, named, <<ref.pkg, ref.name>>, 1, {host, key}, acc)
       IN  processMixins(D, d, i + 1, after)

(* checkOneTypeMixins with checkTypeParamMixin and reportGoNameCollisions. *)
reportGoNameCollisions(seen) ==
  \A a, b \in seen : GoFieldName(a[1]) = GoFieldName(b[1]) => a[2] = b[2]

checkOneTypeMixins(D, d) ==
  LET mixins == SelectSeq(d.body, LAMBDA m : ~IsField(m))
      leaves == [i \in DOMAIN mixins |-> GoEmbedName(mixins[i].ref)]
      own == {<<FieldNames(d.body)[i], <<<<"host">>, d.name>> >> : i \in DOMAIN FieldNames(d.body)}
      expanded == processMixins(D, d, 1, [seen |-> own, ok |-> TRUE])
  IN  /\ NoDup(leaves)
      /\ \A i \in DOMAIN leaves : leaves[i] \notin Elements(d.params) \/ mixins[i].ref.pkg # None
      /\ \A i \in DOMAIN FieldNames(d.body) : GoFieldName(FieldNames(d.body)[i]) \notin Elements(leaves)
      /\ expanded.ok
      /\ reportGoNameCollisions(expanded.seen)

(* checkPackageCycles over packageRefs: the types of two packages never    *)
(* reach each other.                                                       *)
packageRefs(D) ==
  {<<d.pkg, t.pkg>> : <<d, t>> \in {<<d, t>> \in Bodies(D) \X UNION {TypeRefs(d) : d \in Bodies(D)} :
                                      t \in TypeRefs(d) /\ t.pkg \in Packages(D) \ {d.pkg}}}

RECURSIVE ReachedFrom(_, _)
ReachedFrom(edges, from) ==
  LET more == from \cup {e[2] : e \in {x \in edges : x[1] \in from}}
  IN  IF more = from THEN from ELSE ReachedFrom(edges, more)

Successors(edges, n) == {e[2] : e \in {x \in edges : x[1] = n}}
OnCycle(edges, n) == n \in ReachedFrom(edges, Successors(edges, n))

checkPackageCycles(D) == \A p \in Packages(D) : ~OnCycle(packageRefs(D), p)

(* paramFlows: host parameter j reaches parameter i of a type the host     *)
(* names; it grows when the argument is more than the parameter itself.    *)
mentionsTypeParam(t, p) == \E n \in NamedRefs(t) : n.pkg = None /\ n.name = p
(* Faulty: takes `T[]` for the parameter itself.                           *)
grows_list(arg, p) == arg.opt \/ ~(arg.pkg = None /\ arg.name = p)


grows(arg, p) == arg.arr > 0 \/ arg.opt \/ ~(arg.pkg = None /\ arg.name = p)

paramFlows(D) ==
  UNION {UNION {LET target == Lookup(D, host.pkg, t, {"type"})
                IN  {[from |-> <<host.pkg, host.name, ij[2]>>, to |-> <<target.pkg, target.name, ij[1]>>,
                      grows |-> grows(t.args[ij[1]], host.params[ij[2]])] :
                       ij \in {x \in (DOMAIN t.args \cap DOMAIN target.params) \X DOMAIN host.params :
                                 mentionsTypeParam(t.args[x[1]], host.params[x[2]])}}
                : t \in TypeRefs(host)}
         : host \in Decls(D, {"type"})}

endlessParamFlows(D) ==
  LET flows == paramFlows(D)
      next == {<<f.from, f.to>> : f \in flows}
  IN  {f \in flows : f.grows /\ f.from \in ReachedFrom(next, {f.to})}

checkInstantiationCycles(D) == endlessParamFlows(D) = {}

AnalyzeProject(D) ==
  /\ groupFilesByPackage(D)
  /\ collectDecls(D)
  /\ \A i \in DOMAIN D : checkOneDeclNameCase(D, D[i])
  /\ \A p \in Packages(D) : checkDeclGoNameCollisions(D, p)
  /\ \A i \in DOMAIN D : checkTypeRefs(D, D[i])
  /\ \A d \in Bodies(D) : checkOneTypeMixins(D, d)
  /\ \A d \in Bodies(D) : checkFieldUniqueness(D, d) /\ checkJSONKeysIn(D, d)
  /\ checkPackageCycles(D)
  /\ checkInstantiationCycles(D)

-----------------------------------------------------------------------------
(***************************************************************************)
(* What a reference denotes, read off the design: a built-in, a parameter, *)
(* or a declaration over what its arguments denote.  env gives what the    *)
(* parameters in scope stand for.                                          *)
(***************************************************************************)
Denoted(of, pkg, name, args, t) ==
  [of |-> of, pkg |-> pkg, name |-> name, args |-> args, arr |-> t.arr, opt |-> t.opt]

RECURSIVE Denote(_, _, _)
Denote(home, t, env) ==
  LET args == Eager([i \in DOMAIN t.args |-> Denote(home, t.args[i], env)])
      target == Lookup(design, home, t, TypeRefDecls)
  IN  CASE t.par /\ t.name \in DOMAIN env ->
             [env[t.name] EXCEPT !.arr = @ + t.arr, !.opt = @ \/ t.opt]
        [] t.par -> Denoted("param", None, t.name, <<>>, t)
        [] t.pkg = None /\ t.name \in PrimNames \cup {Map} -> Denoted("builtin", None, t.name, args, t)
        [] OTHER -> Denoted("decl", target.pkg, target.name, args, t)

NoEnv == [p \in {} |-> NoDecl]

-----------------------------------------------------------------------------
(***************************************************************************)
(* The Go of the types packages (codegen/golang types.go, errors.go).      *)
(***************************************************************************)

(* importSet.add: the alias of a package, numbered while it is bound.      *)
(* imports is the sequence of <<package, alias>> added so far.             *)
Numbered(alias, n) == IF n = 1 THEN alias ELSE alias \o <<ToString(n)>>

add(imports, pkg) ==
  IF \E i \in DOMAIN imports : imports[i][1] = pkg THEN imports
  ELSE LET free(a) == a \notin BoundNames /\ \A i \in DOMAIN imports : imports[i][2] # a
           n == CHOOSE k \in 1..9 : free(Numbered(pkg, k)) /\ \A j \in 1..(k - 1) : ~free(Numbered(pkg, j))
       IN  Append(imports, <<pkg, Numbered(pkg, n)>>)

RECURSIVE addAll(_, _)
addAll(imports, pkgs) == IF pkgs = <<>> THEN imports ELSE addAll(add(imports, Head(pkgs)), Tail(pkgs))

(* The packages a type spells, in the order qualify meets them.            *)
RECURSIVE Qualifiers(_)
Qualifiers(t) ==
  (IF t.pkg = None THEN <<>> ELSE <<t.pkg>>) \o Flat([i \in DOMAIN t.args |-> Qualifiers(t.args[i])])

(* buildTypesGo and buildErrorsGo: the imports of the package's file that  *)
(* holds its declarations of the given kind.                               *)
fileImports(pkg, kind) ==
  LET own == SelectSeq(design, LAMBDA d : d.pkg = pkg /\ d.kind = kind)
  IN  addAll(<<>>, Flat([i \in DOMAIN own |->
                           Flat([k \in DOMAIN own[i].body |-> Qualifiers(own[i].body[k].ref)])]))

(* What the spelled type means to the Go compiler: inside the declaration  *)
(* a parameter hides a package or a type of its name.                      *)
RECURSIVE GoMeaning(_, _, _)
GoMeaning(d, t, imports) ==
  LET args == Eager([i \in DOMAIN t.args |-> GoMeaning(d, t.args[i], imports)])
      alias == CHOOSE i \in DOMAIN imports : imports[i][1] = t.pkg
      named == {i \in DOMAIN imports : imports[i][2] = imports[alias][2]}
  IN  IF t.pkg = None
      THEN IF t.name \in Elements(d.params) THEN Denoted("param", None, t.name, <<>>, t)
           ELSE IF t.name \in PrimNames \cup {Map} THEN Denoted("builtin", None, t.name, args, t)
           ELSE Denoted("decl", d.pkg, t.name, args, t)
      ELSE IF imports[alias][2] \in Elements(d.params) \/ Cardinality(named) > 1
           THEN Denoted("hidden", None, t.name, args, t)
           ELSE Denoted("decl", t.pkg, t.name, args, t)

(* renderTypeBody: the members of a struct, and the methods beside them.   *)
renderTypeBody(body) ==
  [i \in DOMAIN body |-> IF IsField(body[i]) THEN FieldGoName(body, i) ELSE GoEmbedName(body[i].ref)]

(* The package-level identifiers of types.go, enums.go and errors.go, as   *)
(* the templates declare them.                                             *)
renderError(d) ==
  <<ErrorCodeName(d.name), ErrorTypeName(d.name), ErrorConstructorName(d.name)>>
    \o (IF d.body = <<>> THEN <<>> ELSE <<ErrorBodyName(d.name)>>)

renderCookieConstructors(owner, body) ==
  LET cookies == {i \in DOMAIN body : IsField(body[i]) /\ IsCookie(body[i])}
      nth == SelectSeq([i \in DOMAIN body |-> i], LAMBDA i : i \in cookies)
  IN  [k \in DOMAIN nth |-> CookieConstructorName(owner, FieldGoName(body, nth[k]))]

Rendered(d) ==
  CASE d.kind = "type" -> <<d.name>> \o renderCookieConstructors(d.name, d.body)
    [] d.kind = "scalar" -> <<d.name>>
    [] d.kind = "enum" -> <<d.name>> \o EnumConstNames(d.name, d.values)
    [] d.kind = "error" -> renderError(d) \o renderCookieConstructors(ErrorTypeName(d.name), d.body)
    [] OTHER -> <<>>

TypesPackage(pkg) ==
  LET own == SelectSeq(design, LAMBDA d : d.pkg = pkg)
  IN  Flat([i \in DOMAIN own |-> Rendered(own[i])])

EventsPackage(pkg) ==
  LET own == SelectSeq(design, LAMBDA d : d.pkg = pkg /\ d.kind = "event")
  IN  Flat([i \in DOMAIN own |-> <<EventContractName(own[i].name), own[i].name>>])

GoImports == {<<p, fileImports(p, k)[i][1]>> :
                <<p, k, i>> \in {<<p, k, i>> \in Packages(design) \X {"type", "error"} \X (1..9) :
                                   i \in DOMAIN fileImports(p, k)}}

(***************************************************************************)
(* Go's selector rule: the name at the shallowest depth, which must be the *)
(* only one there.  M holds every member a value has, embedded structs     *)
(* expanded, as [path, name, what, key].                                   *)
(***************************************************************************)
RECURSIVE GoMembers(_, _, _)
GoMembers(pkg, body, path) ==
  UNION {LET m == body[i]
             target == Lookup(design, pkg, m.ref, {"type"})
         IN  IF IsField(m)
             THEN {[path |-> path, name |-> renderTypeBody(body)[i], what |-> "field",
                    key |-> IF m.off THEN None ELSE m.key]}
             ELSE {[path |-> path, name |-> GoEmbedName(m.ref), what |-> "embed", key |-> None]}
                    \cup GoMembers(target.pkg, target.body, Append(path, GoEmbedName(m.ref)))
         : i \in DOMAIN body}

Shallowest(M) == {m \in M : \A n \in M : Len(m.path) <= Len(n.path)}

RECURSIVE Selected(_, _, _)
Selected(M, sel, at) ==
  LET named == Shallowest({m \in M : m.name = Head(sel) /\ Len(m.path) >= Len(at) /\ SubSeq(m.path, 1, Len(at)) = at})
      m == CHOOSE x \in named : TRUE
  IN  IF Cardinality(named) # 1 THEN <<>>
      ELSE IF Len(sel) = 1 THEN (IF m.what = "field" THEN <<m.path, m.name>> ELSE <<>>)
      ELSE IF m.what = "embed" THEN Selected(M, Tail(sel), Append(m.path, m.name)) ELSE <<>>

(* The error type: the body struct it embeds, and its methods.             *)
ErrorMembers(d) ==
  LET body == ErrorBodyName(d.name)
  IN  {[m EXCEPT !.path = <<body>> \o @] : m \in GoMembers(d.pkg, d.body, <<>>)}
        \cup {[path |-> <<>>, name |-> body, what |-> "embed", key |-> None]}
        \cup {[path |-> <<>>, name |-> n, what |-> "method", key |-> None] : n \in errorTypeMethods}

-----------------------------------------------------------------------------
(***************************************************************************)
(* The OpenAPI document (codegen/docs): the packages merged into one, and  *)
(* the components of its schemas.                                          *)
(***************************************************************************)
mergedKinds == {i \in DOMAIN design : design[i].kind \in TypeTable}

componentName(i, name) == IF design[i].kind = "error" THEN ErrorTypeName(name) ELSE name
OwnComponent(i) == componentName(i, design[i].name)

(* mergedNames: a name, or a component name, two packages share takes its  *)
(* package's.                                                              *)
mergedNames ==
  [i \in mergedKinds |->
     IF \E j \in mergedKinds \ {i} : \/ design[j].name = design[i].name
                                     \/ OwnComponent(j) = OwnComponent(i)
     THEN PascalCase(design[i].pkg) \o design[i].name ELSE design[i].name]

projectMergeCollisions(names) ==
  \E i, j \in mergedKinds : i # j /\ componentName(i, names[i]) = componentName(j, names[j])

(* Faulty: keeps the parameter a merged declaration is named like.         *)
typeParams_kept(params, i, used, names) == IF i > Len(params) THEN <<>> ELSE params

(* merger.typeParams: a parameter a merged name takes gets a number.       *)
RECURSIVE typeParams(_, _, _, _)
typeParams(params, i, used, names) ==
  IF i > Len(params) THEN <<>>
  ELSE LET p == params[i]
           bound(n) == \/ n \in {names[k] : k \in DOMAIN names}
                       \/ n # p /\ n \in used
           k == CHOOSE n \in 1..9 : ~bound(Numbered(p, n)) /\ \A j \in 1..(n - 1) : bound(Numbered(p, j))
       IN  <<Numbered(p, k)>> \o typeParams(params, i + 1, used \cup {Numbered(p, k)}, names)

(* merger.ref: a reference under the merged name of what it resolves to.   *)
RECURSIVE mergedRef(_, _, _, _)
mergedRef(home, t, scope, names) ==
  LET target == Lookup(design, home, t, TypeRefDecls)
      at == CHOOSE i \in mergedKinds : design[i] = target
      args == Eager([i \in DOMAIN t.args |-> mergedRef(home, t.args[i], scope, names)])
  IN  IF t.pkg = None /\ t.name \in DOMAIN scope THEN [t EXCEPT !.name = scope[t.name], !.args = args]
      ELSE IF t.name \in PrimNames \cup {Map} \/ target = NoDecl THEN [t EXCEPT !.args = args]
      ELSE [t EXCEPT !.pkg = None, !.name = names[at], !.args = args]

(* mergeProjectForOpenAPI: the declarations in design order, each at its   *)
(* index.                                                                  *)
mergeProjectForOpenAPI(names) ==
  [i \in mergedKinds |->
     LET d == design[i]
         params == typeParams(d.params, 1, Elements(d.params), names)
         scope == SubstMap(d.params, params)
     IN  [d EXCEPT !.pkg = None, !.name = names[i], !.params = params,
            !.body = [k \in DOMAIN d.body |->
                        [d.body[k] EXCEPT !.ref = TypeParamRefs(mergedRef(d.pkg, d.body[k].ref, scope, names), params)]]]]

(* genericComponentName and its parts.                                     *)
pascalIdent(name) == <<Up(Head(name))>> \o Tail(name)

compound(t) == t.args # <<>>

RECURSIVE typeRefName(_)
RECURSIVE argsName(_)
argsName(args) ==
  IF Len(args) = 1 THEN typeRefName(args[1])
  ELSE typeRefName(args[1]) \o <<"And">> \o argsName(Tail(args))

typeRefName(t) ==
  LET present == [t EXCEPT !.opt = FALSE]
      elem == [t EXCEPT !.arr = @ - 1]
  IN  CASE t.opt /\ compound(t) -> <<"Null", "Or">> \o typeRefName(present)
        [] t.opt /\ ~compound(t) -> typeRefName(present) \o <<"Or", "Null">>
        [] t.arr > 0 /\ compound(t) -> <<"Array", "Of">> \o typeRefName(elem)
        [] t.arr > 0 /\ ~compound(t) -> typeRefName(elem) \o <<"Array">>
        [] t.name = Map -> <<"Map", "Of">> \o argsName(t.args)
        [] t.args = <<>> -> pascalIdent(t.name)
        [] OTHER -> pascalIdent(t.name) \o <<"Of">> \o argsName(t.args)

genericComponentName(d, args) == pascalIdent(d.name) \o <<"Of">> \o argsName(args)

(* The generic registry: refName names the component a reference points    *)
(* to, and an instance is emitted for every generic reference that the     *)
(* schemas reach; a map's key is inlined.                                  *)
Generic(merged, t) ==
  {i \in DOMAIN merged : merged[i].kind = "type" /\ merged[i].name = t.name /\ merged[i].params # <<>>}

refName(merged, t) ==
  IF t.args # <<>> /\ Generic(merged, t) # {}
  THEN genericComponentName(merged[CHOOSE i \in Generic(merged, t) : TRUE], t.args)
  ELSE t.name

RECURSIVE SchemaRefs(_)
SchemaRefs(t) ==
  IF t.name = Map THEN SchemaRefs(t.args[2]) ELSE {[t EXCEPT !.arr = 0, !.opt = FALSE]}

InBody(m) == ~IsField(m) \/ ~m.off

(* schemaFromTypeDecl and addErrorBody: the references of one component.   *)
schemaFromTypeDecl(d, args) ==
  UNION {SchemaRefs(SubstituteTypeRef(d.body[k].ref, SubstMap(d.params, args))) :
           k \in {j \in DOMAIN d.body : InBody(d.body[j])}}

RECURSIVE emitGenericInstances(_, _)
emitGenericInstances(merged, emitted) ==
  LET refs == UNION {schemaFromTypeDecl(merged[e[1]], e[2]) : e \in emitted}
      next == emitted \cup UNION {{<<i, t.args>> : i \in Generic(merged, t)} :
                                    t \in {r \in refs : r.args # <<>>}}
  IN  IF next = emitted THEN emitted ELSE emitGenericInstances(merged, next)

Components(merged) ==
  LET roots == {<<i, <<>> >> : i \in {j \in DOMAIN merged : merged[j].params = <<>>}}
      named(e) == IF e[2] # <<>> THEN genericComponentName(merged[e[1]], e[2])
                  ELSE componentName(e[1], merged[e[1]].name)
  IN  {[name |-> named(e), i |-> e[1], args |-> e[2]] : e \in emitGenericInstances(merged, roots)}

(* schemaNames.put and genericRegistry.register refuse a name twice.       *)
TwoShareAName(comps) == \E a, b \in comps : a # b /\ a.name = b.name

-----------------------------------------------------------------------------
Init ==
  /\ menu \in Menus
  /\ design = Skeleton[menu]
  /\ added = 0

Add(new) ==
  /\ design' = new
  /\ added' = added + 1
  /\ UNCHANGED menu

(* A declaration written at the end of its package.                        *)
AddDecl(d) == Add(Append(design, d))

(* A member written at the end of a declaration's body.                    *)
AddMember(i, m) ==
  Add([design EXCEPT ![i].body = Append(@, [m EXCEPT !.ref = TypeParamRefs(m.ref, design[i].params)])])

Next ==
  /\ added < MaxAdded[menu]
  /\ \/ \E d \in OfferedDecls[menu] : AddDecl(d)
     \/ \E i \in DOMAIN design, o \in OfferedMembers[menu] :
          o[1] = <<design[i].pkg, design[i].name>> /\ AddMember(i, o[2])

Spec == Init /\ [][Next]_vars

-----------------------------------------------------------------------------
TypeOK ==
  /\ menu \in Menus
  /\ added \in 0..MaxAdded[menu]
  /\ \A i \in DOMAIN design : design[i].kind \in TypeTable \cup {"middleware", "event"}

(* The Go of the types packages compiles: every Go package declares an     *)
(* identifier once, a struct a member once, no import clashes with what    *)
(* its package declares, the packages import one another without a cycle,  *)
(* and each field's Go type means the type the design names, type          *)
(* parameters included.  One accepted design in this reach does not        *)
(* compile: importSet.add takes a package's name as it is written, so a    *)
(* capitalised one may be the name of a declaration of the file that       *)
(* imports it.  No other import name clashes.  A type holding itself by    *)
(* value is the design's to fix and is not part of this.                   *)
GoCompiles ==
  /\ TypeOK
  /\ \A p \in Packages(design) : NoDup(TypesPackage(p)) /\ NoDup(EventsPackage(p))
  /\ \A d \in Bodies(design) : NoDup(renderTypeBody(d.body) \o << <<"Validate">> >>)
  /\ \A p \in Packages(design) : ~OnCycle(GoImports, p)
  /\ \A d \in Bodies(design) :
       LET imports == fileImports(d.pkg, d.kind)
       IN  /\ \A i \in DOMAIN imports :
                imports[i][2] \in Elements(TypesPackage(d.pkg)) => PascalCase(imports[i][2]) = imports[i][2]
           /\ \A k \in DOMAIN d.body :
                GoMeaning(d, d.body[k].ref, imports) = Denote(d.pkg, d.body[k].ref, NoEnv)

(* A generic type never needs infinitely many instances of itself, and     *)
(* the check rejects no design whose instances end: unfolding every        *)
(* generic type over its own parameters stops, exactly when no parameter   *)
(* flow grows on a cycle (instantiation_cycles.go).                        *)
Unfolded(instances) ==
  instances \cup
  UNION {LET d == e[1]
             env == SubstMap(d.params, e[2])
         IN  UNION {LET target == Lookup(design, d.pkg, t, {"type"})
                    IN  IF target.params = <<>> THEN {}
                        ELSE {<<target, Eager([k \in DOMAIN t.args |-> Denote(d.pkg, t.args[k], env)])>>}
                    : t \in TypeRefs(d)}
         : e \in instances}

RECURSIVE Unfold(_, _)
Unfold(instances, n) == IF n = 0 THEN instances ELSE Unfold(Unfolded(instances), n - 1)

InstancesEnd ==
  LET generic == {d \in Decls(design, {"type"}) : d.params # <<>>}
      ref(p) == [pkg |-> None, name |-> p, args |-> <<>>, arr |-> 0, opt |-> FALSE, par |-> TRUE]
      own(d) == <<d, Eager([k \in DOMAIN d.params |-> Denote(d.pkg, ref(d.params[k]), NoEnv)])>>
      late == Unfold({own(d) : d \in generic}, 4)
  IN  collectDecls(design) /\ (\A i \in DOMAIN design : checkTypeRefs(design, design[i])) =>
        (checkInstantiationCycles(design) <=> Unfolded(late) = late)

(* A header or cookie field of an error is read off the error type, which  *)
(* embeds the body struct beside its own methods, so no such field is      *)
(* hidden.  The exception is a field that another member's name makes the  *)
(* flattening reach through its mixin, when the mixin is a type named as a *)
(* method of errors (Error): the selector then names the method and the Go *)
(* does not compile, though collision_checks.go says the error type never  *)
(* reads an embedded mixin by name.                                        *)
ErrorReadsReach ==
  \A d \in Decls(design, {"error"}) :
    LET flat == FlattenFields(design, d.pkg, d.pkg, d.body, <<>>, <<>>)
        throughMethod(sel) == Len(sel) > 1 /\ Head(sel) \in errorTypeMethods
        place(ff) == << <<ErrorBodyName(d.name)>> \o ff.path, ff.sel[Len(ff.sel)] >>
    IN  \A k \in DOMAIN flat : flat[k].field.head =>
          Selected(ErrorMembers(d), flat[k].sel, <<>>)
            = IF throughMethod(flat[k].sel) THEN <<>> ELSE place(flat[k])

(* Every field of a type, mixin fields included, is reached by the         *)
(* selector the generators write for it, under Go's rule that the          *)
(* shallowest name wins, and its JSON key is the one encoding/json writes  *)
(* it under: no member is hidden, ambiguous or written twice.              *)
MembersReached ==
  /\ ErrorReadsReach
  /\ \A d \in Bodies(design) :
      LET flat == FlattenFields(design, d.pkg, d.pkg, d.body, <<>>, <<>>)
          M == GoMembers(d.pkg, d.body, <<>>)
          riding == {m \in M : m.key # None}
          place(ff) == <<ff.path, ff.sel[Len(ff.sel)]>>
      IN  /\ \A k \in DOMAIN flat : Selected(M, flat[k].sel, <<>>) = place(flat[k])
          /\ \A k \in DOMAIN flat : ~flat[k].field.off =>
               {<<m.path, m.name>> : m \in Shallowest({n \in riding : n.key = flat[k].field.key})}
                 = {place(flat[k])}
          /\ Cardinality(riding) = Cardinality({k \in DOMAIN flat : ~flat[k].field.off})

(* A flattened field's type, as the viewing package spells it, denotes     *)
(* what its declaration denotes under the arguments of the mixins that     *)
(* bring it: a name never resolves in the wrong package, a parameter never *)
(* captures another level's.                                               *)
RECURSIVE DenotedFields(_, _, _, _, _)
DenotedFields(pkg, body, i, env, acc) ==
  IF i > Len(body) THEN acc
  ELSE LET m == body[i]
           target == Lookup(design, pkg, m.ref, {"type"})
           key == <<target.pkg, target.name>>
           args == Eager([k \in DOMAIN m.ref.args |-> Denote(pkg, m.ref.args[k], env)])
           after == IF IsField(m) THEN [acc EXCEPT !.out = Append(@, <<m.name, Denote(pkg, m.ref, env)>>)]
                    ELSE IF key \in acc.seen THEN acc
                    ELSE DenotedFields(target.pkg, target.body, 1, SubstMap(target.params, args),
                                       [acc EXCEPT !.seen = @ \cup {key}])
       IN  DenotedFields(pkg, body, i + 1, env, after)

FlattenSpells ==
  /\ \A d \in Bodies(design) : \A view \in Packages(design) :
       LET flat == FlattenFields(design, view, d.pkg, d.body, d.params, <<>>)
       IN  [k \in DOMAIN flat |-> <<flat[k].field.name, Denote(view, flat[k].field.ref, NoEnv)>>]
             = DenotedFields(d.pkg, d.body, 1, NoEnv, [out |-> <<>>, seen |-> {}]).out
  /\ \A e \in Decls(design, {"event"}) : \A k \in DOMAIN e.body :
       LET ref == e.body[k].ref
           td == Lookup(design, e.pkg, ref, {"type"})
           flat == InstanceFields(design, e.pkg, ref)
           env == SubstMap(td.params, [i \in DOMAIN ref.args |-> Denote(e.pkg, ref.args[i], NoEnv)])
       IN  [i \in DOMAIN flat |-> <<flat[i].field.name, Denote(td.pkg, flat[i].field.ref, NoEnv)>>]
             = DenotedFields(td.pkg, td.body, 1, env, [out |-> <<>>, seen |-> {}]).out

(* When the document builds, every reference in it names the component of  *)
(* the declaration, and of the instance, that the design's own reference   *)
(* denotes: merging the packages under one namespace confuses no two.      *)
ComponentsSound ==
  LET names == mergedNames
      merged == mergeProjectForOpenAPI(names)
      comps == Components(merged)
      RECURSIVE byName(_)
      byName(t) ==
        LET at == {i \in DOMAIN merged : merged[i].kind \in TypeRefDecls /\ merged[i].name = t.name}
            d == design[CHOOSE i \in at : TRUE]
            args == Eager([k \in DOMAIN t.args |-> byName(t.args[k])])
        IN  IF at = {} THEN Denoted("builtin", None, t.name, args, t)
            ELSE Denoted("decl", d.pkg, d.name, args, t)
      RECURSIVE byRef(_)
      byRef(t) ==
        LET hit == {c \in comps : c.name = refName(merged, t)}
            c == CHOOSE x \in hit : TRUE
        IN  IF t.name = Map THEN Denoted("builtin", None, Map, <<byName(t.args[1]), byRef(t.args[2])>>, t)
            ELSE IF t.name \in PrimNames THEN Denoted("builtin", None, t.name, <<>>, t)
            ELSE IF hit = {} THEN Denoted("dangling", None, t.name, <<>>, t)
            ELSE Denoted("decl", design[c.i].pkg, design[c.i].name,
                         Eager([k \in DOMAIN c.args |-> byName(c.args[k])]), t)
  IN  projectMergeCollisions(names) \/ TwoShareAName(comps) \/
      \A c \in comps : \A k \in {j \in DOMAIN merged[c.i].body : InBody(merged[c.i].body[j])} :
        byRef(SubstituteTypeRef(merged[c.i].body[k].ref, SubstMap(merged[c.i].params, c.args)))
          = Denote(design[c.i].pkg, design[c.i].body[k].ref,
                   SubstMap(design[c.i].params, Eager([a \in DOMAIN c.args |-> byName(c.args[a])])))

(* The analyser refuses every design of which one of these fails.          *)
Sound ==
  /\ InstancesEnd
  /\ AnalyzeProject(design) => GoCompiles /\ MembersReached /\ FlattenSpells /\ ComponentsSound
=============================================================================
