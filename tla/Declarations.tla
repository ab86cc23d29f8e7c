---------------------------- MODULE Declarations ----------------------------
(***************************************************************************)
(* The declarations of a design and what the analyser and both code        *)
(* generators read off them: resolving a name, substituting type           *)
(* arguments, and flattening a body with its mixins                        *)
(* (internal/semantic/lookup.go, flatten.go; internal/idents).             *)
(*                                                                         *)
(* A name is the sequence of pieces it is spelled with, so that joining    *)
(* names joins spellings: <<"user", "_", "Id">>.  A type reference is      *)
(*   [pkg, name, args, arr, opt, par]                                      *)
(* with pkg empty for a bare name, arr the number of `[]`, and par set     *)
(* when the name is a type parameter of the declaration it is written in   *)
(* (Project.typeParams).  `map<K, V>` is the name Map over two arguments.  *)
(* A member is a field or a mixin,                                         *)
(*   [m, name, ref, key, off, head]                                        *)
(* where key is the JSON key of a field, off says that it does not ride    *)
(* the JSON body and head that it is a response header or cookie.  A       *)
(* design D is the sequence of its declarations                            *)
(*   [pkg, kind, name, params, body, values].                              *)
(***************************************************************************)
EXTENDS Integers, Sequences, FiniteSets

CONSTANTS Upper,        \* lower-case piece -> the piece capitalised
          Separators,   \* the pieces a Go name drops
          PrimNames     \* the names of the built-in types

Map == <<"map">>
None == <<>>

(* The same sequence; TLC evaluates its elements here, once.               *)
Eager(s) == s \o <<>>

Up(piece) == IF piece \in DOMAIN Upper THEN Upper[piece] ELSE piece
Exported(name) == name # None /\ Head(name) \notin DOMAIN Upper \cup Separators

(***************************************************************************)
(* internal/idents.                                                        *)
(***************************************************************************)
GoFieldName(name) ==
  LET words == SelectSeq(name, LAMBDA p : p \notin Separators)
  IN  Eager([i \in DOMAIN words |-> Up(words[i])])

PascalCase(name) == GoFieldName(name)

Rank == << <<>>, <<"_", "2">>, <<"_", "3">>, <<"_", "4">> >>

(* DedupGoFieldNames: the second name of one Go name ends in `_2`.         *)
DedupGoFieldNames(names) ==
  LET goNames == Eager([i \in DOMAIN names |-> GoFieldName(names[i])])
  IN  Eager([i \in DOMAIN names |->
               goNames[i] \o Rank[Cardinality({j \in 1..i : goNames[j] = goNames[i]})]])

ErrorTypeName(name) ==
  IF name[Len(name)] \in {"Err", "Error"} THEN name ELSE name \o <<"Err">>
ErrorBodyName(name) == name \o <<"Body">>
ErrorCodeName(name) == <<"Err", "Code">> \o name
ErrorConstructorName(name) == <<"New">> \o ErrorTypeName(name)
CookieConstructorName(owner, field) == <<"New">> \o owner \o field \o <<"Cookie">>
EventContractName(event) == event \o <<"Contract">>
EnumConstNames(enum, values) ==
  LET names == DedupGoFieldNames(values) IN Eager([i \in DOMAIN names |-> enum \o names[i]])

(***************************************************************************)
(* Declarations, and the references they hold.                             *)
(***************************************************************************)
TypeRefDecls == {"type", "enum", "scalar"}
TypeTable == TypeRefDecls \cup {"error"}
MixinNamedKinds == TypeTable \cup {"middleware"}

NoDecl == [pkg |-> None, kind |-> "none", name |-> None,
           params |-> <<>>, body |-> <<>>, values |-> <<>>]

IsField(m) == m.m = "field"
Fields(body) == SelectSeq(body, IsField)
FieldNames(body) == LET fs == Fields(body) IN Eager([i \in DOMAIN fs |-> fs[i].name])
Elements(s) == {s[i] : i \in DOMAIN s}

Packages(D) == {D[i].pkg : i \in DOMAIN D}

Decl(D, pkg, name, kinds) ==
  LET found == SelectSeq(D, LAMBDA d : d.pkg = pkg /\ d.name = name /\ d.kind \in kinds)
  IN  IF found = <<>> THEN NoDecl ELSE Head(found)

(* WalkNamedRefs: t and every reference inside it; a map has no name.      *)
RECURSIVE NamedRefs(_)
NamedRefs(t) ==
  (IF t.name = Map THEN {} ELSE {t}) \cup UNION {NamedRefs(t.args[i]) : i \in DOMAIN t.args}

(* typeParamRefs: the references inside t that name a parameter in scope.  *)
RECURSIVE TypeParamRefs(_, _)
TypeParamRefs(t, params) ==
  [t EXCEPT !.par = t.pkg = None /\ t.name \in Elements(params),
            !.args = Eager([i \in DOMAIN t.args |-> TypeParamRefs(t.args[i], params)])]

(* walkTypeRefs over a declaration: its field types, mixins and payload.   *)
TypeRefs(d) == UNION {NamedRefs(d.body[i].ref) : i \in DOMAIN d.body}

(* resolve: the package a reference written in home names, None for a      *)
(* type parameter or a package the project does not have.                  *)
Resolve(D, home, t) ==
  IF t.par THEN None
  ELSE IF t.pkg = None THEN home
  ELSE IF t.pkg \in Packages(D) THEN t.pkg ELSE None

Lookup(D, home, t, kinds) ==
  LET pkg == Resolve(D, home, t) IN IF pkg = None THEN NoDecl ELSE Decl(D, pkg, t.name, kinds)

(***************************************************************************)
(* Type arguments (flatten.go).                                            *)
(***************************************************************************)
SubstMap(params, args) ==
  [p \in {params[i] : i \in {j \in DOMAIN params : j <= Len(args)}} |->
     args[CHOOSE i \in DOMAIN params : params[i] = p]]

(* SubstituteTypeRef: the suffixes of `T[]?` are added to the argument's.  *)
RECURSIVE SubstituteTypeRef(_, _)
SubstituteTypeRef(t, subst) ==
  IF t.pkg = None /\ t.name \in DOMAIN subst
  THEN [subst[t.name] EXCEPT !.arr = @ + t.arr, !.opt = @ \/ t.opt]
  ELSE [t EXCEPT !.args = Eager([i \in DOMAIN t.args |-> SubstituteTypeRef(t.args[i], subst)])]

(* requalify: t, written in home, as package view spells it.               *)
RECURSIVE Requalify(_, _, _, _, _)
Requalify(D, t, home, view, params) ==
  IF home = view THEN t
  ELSE [t EXCEPT
          !.args = Eager([i \in DOMAIN t.args |-> Requalify(D, t.args[i], home, view, params)]),
          !.pkg = IF /\ t.pkg = None
                     /\ t.name \notin Elements(params)
                     /\ Decl(D, home, t.name, TypeRefDecls) # NoDecl
                  THEN home ELSE t.pkg]

(* Faulty: qualifies the arguments too, which view already spells.         *)
Spell_late(D, view, t, home, params, subst) ==
  Requalify(D, SubstituteTypeRef(t, subst), home, view, params)


Spell(D, view, t, home, params, subst) ==
  SubstituteTypeRef(Requalify(D, t, home, view, params), subst)

(***************************************************************************)
(* Flattening.  The walk w holds the fields so far, the mixin types        *)
(* expanded and the depth of every embedding; a flat field holds the       *)
(* selector that reaches it, the names of the mixins embedding it and the  *)
(* package it is declared in.                                              *)
(***************************************************************************)
GoLevelNames(body) == DedupGoFieldNames(FieldNames(body))
GoEmbedName(ref) == ref.name

(* The Go name of the i-th member of a body, a field.                      *)
FieldGoName(body, i) == GoLevelNames(body)[Len(Fields(SubSeq(body, 1, i)))]

Walk == [out |-> <<>>, expanded |-> {}, embeds |-> <<>>]

RECURSIVE Level(_, _, _, _, _, _, _, _, _)

(* mixin: the walk past the mixin ref.                                     *)
MixinLevel(D, view, home, ref, params, subst, path, w) ==
  LET target == Lookup(D, home, ref, {"type"})
      embed == GoEmbedName(ref)
      seen == [w EXCEPT !.embeds = Append(@, <<embed, Len(path)>>)]
      key == <<target.pkg, target.name>>
      args == Eager([k \in DOMAIN ref.args |-> Spell(D, view, ref.args[k], home, params, subst)])
  IN  CASE target = NoDecl -> w
        [] target # NoDecl /\ key \in w.expanded -> seen
        [] OTHER -> Level(D, view, target.pkg, target.body, 1, target.params,
                          SubstMap(target.params, args), Append(path, embed),
                          [seen EXCEPT !.expanded = @ \cup {key}])

(* level: the walk past the members of body from the i-th on.              *)
Level(D, view, home, body, i, params, subst, path, w) ==
  IF i > Len(body) THEN w
  ELSE LET m == body[i]
           field == [field |-> [m EXCEPT !.ref = Spell(D, view, m.ref, home, params, subst)],
                     sel |-> <<FieldGoName(body, i)>>, path |-> path, home |-> home]
           after == IF IsField(m) THEN [w EXCEPT !.out = Append(@, field)]
                    ELSE MixinLevel(D, view, home, m.ref, params, subst, path, w)
       IN  Level(D, view, home, body, i + 1, params, subst, path, after)

(* nameShadowedByPath: a promoted field another member at its depth or     *)
(* above shares its name with is reached through its embed path.           *)
(* Faulty: only a field hides a field, an embedded struct never.           *)
NameShadowedByPath_fields(w) ==
  LET depthOf(k) == Len(w.out[k].path)
      above(k) == Cardinality({j \in DOMAIN w.out : w.out[j].sel = w.out[k].sel /\ depthOf(j) <= depthOf(k)})
  IN  Eager([k \in DOMAIN w.out |->
               IF depthOf(k) > 0 /\ above(k) > 1
               THEN [w.out[k] EXCEPT !.sel = w.out[k].path \o @] ELSE w.out[k]])


NameShadowedByPath(w) ==
  LET depthOf(k) == Len(w.out[k].path)
      above(k) == Cardinality({j \in DOMAIN w.out : w.out[j].sel = w.out[k].sel /\ depthOf(j) <= depthOf(k)})
                    + Cardinality({e \in DOMAIN w.embeds : <<w.embeds[e][1]>> = w.out[k].sel
                                                            /\ w.embeds[e][2] <= depthOf(k)})
  IN  Eager([k \in DOMAIN w.out |->
               IF depthOf(k) > 0 /\ above(k) > 1
               THEN [w.out[k] EXCEPT !.sel = w.out[k].path \o @] ELSE w.out[k]])

(* flattenFields: body, declared in home with params bound to args, which  *)
(* view spells.                                                            *)
FlattenFields(D, view, home, body, params, args) ==
  NameShadowedByPath(Level(D, view, home, body, 1, params, SubstMap(params, args), <<>>, Walk))

(* instanceFields: the fields of the type a reference of home names, as    *)
(* the declaring package spells them.                                      *)
InstanceFields(D, home, ref) ==
  LET td == Lookup(D, home, ref, {"type"})
  IN  FlattenFields(D, td.pkg, td.pkg, td.body, td.params,
                    Eager([i \in DOMAIN ref.args |-> Requalify(D, ref.args[i], home, td.pkg, <<>>)]))
=============================================================================
