------------------------------- MODULE Routes -------------------------------
(***************************************************************************)
(* internal/route: a method's URL route and the comparison of two routes   *)
(* as net/http's ServeMux ranks them.  A route is the sequence of its      *)
(* segments, [k, n]: a literal, `{n}`, `{n...}`, `{$}`, or a segment       *)
(* ServeMux refuses wherever it stands ("bad": `.`, `a{b}`, `{}`).         *)
(***************************************************************************)
EXTENDS Integers, Sequences, FiniteSets, SequencesExt

(***************************************************************************)
(* The name conversions of internal/idents, on names abstracted to the     *)
(* sequence of pieces they are spelled with.  A piece is a capitalised     *)
(* word ("Get"), a digit ("2") or a separator ("_"); concatenating two     *)
(* names concatenates their spellings, so two names are one identifier     *)
(* exactly when the sequences are equal.  A word of a split name is the    *)
(* sequence of the pieces it holds: a digit never starts a word.           *)
(***************************************************************************)

CONSTANTS Digits, Separators,
          GoFileWords     \* the words that end a file the go command sets apart

IsDigit(p) == p \in Digits
IsSeparator(p) == p \in Separators

(* SplitFieldName: a separator ends the word before it, a word piece       *)
(* starts one, and a digit joins the word it follows.                      *)
WordStart(name, i) ==
  /\ ~IsSeparator(name[i])
  /\ \/ i = 1
     \/ IsSeparator(name[i - 1])
     \/ ~IsDigit(name[i])

SplitFieldName(name) ==
  LET starts == SelectSeq([i \in DOMAIN name |-> i], LAMBDA i : WordStart(name, i))
      upto(k) == IF k = Len(starts) THEN Len(name) ELSE starts[k + 1] - 1
  IN  [k \in DOMAIN starts |-> SelectSeq(SubSeq(name, starts[k], upto(k)), LAMBDA p : ~IsSeparator(p))]

(* FileName: the words lower-cased and joined by the file case.  No word   *)
(* holds the joint, so the words are the file's name in every case.        *)
FileName(name) == SplitFieldName(name)

(* KebabCase, the route segment of a method written without a path.        *)
KebabCase(name) == SplitFieldName(name)

(* GoFileProblem: under snake case the go command builds a file of two or  *)
(* more words ending in `test`, a system or an architecture apart.         *)
GoFileProblem(file, fileCase) ==
  /\ fileCase = "snake"
  /\ Len(file) > 1
  /\ file[Len(file)] \in GoFileWords

LogicTypeName(method) == method \o <<"Service">>
LogicConstructorName(method) == <<"New">> \o LogicTypeName(method)
LogicRival(method) == <<"New">> \o method
LogicEmbed == <<"Logger">>
MiddlewareFileName(name) == SplitFieldName(name) \o << <<"Middleware">> >>

(***************************************************************************)

Lit(n)  == [k |-> "lit", n |-> n]
Var(n)  == [k |-> "var", n |-> n]
Rest(n) == [k |-> "rest", n |-> n]
End     == [k |-> "end", n |-> <<>>]
Bad     == [k |-> "bad", n |-> <<>>]
NoPath  == << [k |-> "none", n |-> <<>>] >>

(* Resolve: basePath, then the service's @prefix, then the method's path,  *)
(* or its kebab-cased name.  Segments are never empty, so joining them is  *)
(* the collapse of slashes and the trim of the trailing one.               *)
Resolve(base, prefix, m) ==
  base \o prefix \o (IF m.path = NoPath THEN << Lit(KebabCase(m.name)) >> ELSE m.path)

(* The root route registered by its Resolve route, without its `{$}`.      *)
ServePath_bare(base, prefix, m) ==
  IF Resolve(<<>>, prefix, m) # <<>> THEN Resolve(base, prefix, m) ELSE base

(* ServePath: the ServeMux pattern, the root route with `/{$}`.            *)
ServePath(base, prefix, m) ==
  IF Resolve(<<>>, prefix, m) # <<>>
    THEN Resolve(base, prefix, m)
    ELSE Resolve(base, prefix, m) \o << End >>

Shape(rt) == [i \in DOMAIN rt |-> IF rt[i].k \in {"var", "rest"}
                                    THEN [rt[i] EXCEPT !.n = <<>>] ELSE rt[i]]

WildcardName(seg) == seg.k \in {"var", "rest"}
Vars(rt) == LET wild == SelectSeq(rt, WildcardName)
            IN  [i \in DOMAIN wild |-> wild[i].n]

(* OpenAPIPath: `{name...}` documented as `{name}`, and `{$}` as the       *)
(* trailing slash, an empty last segment; the root is that slash alone.    *)
Slash == Lit(<<>>)
OpenAPIPath(rt) ==
  IF rt = <<>> THEN << Slash >>
  ELSE [i \in DOMAIN rt |-> CASE rt[i].k = "rest" -> Var(rt[i].n)
                              [] rt[i].k = "end" -> Slash
                              [] OTHER -> rt[i]]

SegmentProblem(seg) == seg.k = "bad"
EndsRoute(seg) == seg.k \in {"rest", "end"}

-----------------------------------------------------------------------------
(* A relation that keeps the first difference alone.                       *)
combine_first(r, s) == IF r = "equivalent" THEN s ELSE r

(* combine: how two routes relate whose parts relate as r and s.           *)
combine(r, s) ==
  CASE r = "equivalent" -> s
    [] r # "equivalent" /\ "disjoint" \in {r, s} -> "disjoint"
    [] r # "equivalent" /\ "disjoint" \notin {r, s} /\ "overlaps" \in {r, s} -> "overlaps"
    [] OTHER -> IF s = "equivalent" \/ s = r THEN r ELSE "overlaps"

compareSegments(a, b) ==
  CASE a.k = "rest" /\ b.k = "rest" -> "equivalent"
    [] a.k = "rest" /\ b.k # "rest" -> "moreGeneral"
    [] a.k # "rest" /\ b.k = "rest" -> "moreSpecific"
    [] a.k = "var" /\ b.k = "var" -> "equivalent"
    [] a.k = "var" /\ b.k \notin {"var", "rest"} -> IF b.k = "end" THEN "disjoint" ELSE "moreGeneral"
    [] b.k = "var" /\ a.k \notin {"var", "rest"} -> IF a.k = "end" THEN "disjoint" ELSE "moreSpecific"
    [] OTHER -> IF a = b THEN "equivalent" ELSE "disjoint"

(* PatternsConflict: patterns of one length that match a common path with  *)
(* neither more specific.                                                  *)
PatternsConflict(a, b) ==
  /\ Len(a) = Len(b)
  /\ FoldLeft(combine, "equivalent", [i \in DOMAIN a |-> compareSegments(a[i], b[i])])
       \in {"equivalent", "overlaps"}

-----------------------------------------------------------------------------
(* net/http's ServeMux (external), by what it matches rather than how it   *)
(* compares.  A request is a verb and a path, a sequence of texts with an  *)
(* empty last one for a trailing slash.  The requests that tell two        *)
(* patterns apart spell their literals, one text neither spells, and run   *)
(* at most one segment past the longer.                                    *)
Fresh == << <<"Fresh">> >>

SegmentMatches(seg, text) ==
  CASE seg.k = "lit" -> text = seg.n
    [] seg.k = "var" -> text # <<>>
    [] seg.k = "end" -> text = <<>>
    [] OTHER -> FALSE

PathMatches(pattern, path) ==
  LET n == Len(pattern)
      multi == n > 0 /\ pattern[n].k = "rest"
  IN  /\ IF multi THEN Len(path) >= n ELSE Len(path) = n
      /\ \A i \in 1 .. (IF multi THEN n - 1 ELSE n) : SegmentMatches(pattern[i], path[i])

VerbsOf(verb) == IF verb = "GET" THEN {"GET", "HEAD"} ELSE {verb}

(* The texts of place i that tell p and q apart, and the paths of them.    *)
Spelled(p, q, i) ==
  {Fresh} \cup {s.n : s \in {r[i] : r \in {t \in {p, q} : i \in DOMAIN t /\ t[i].k = "lit"}}}

RECURSIVE Fronts(_, _, _)
Fronts(p, q, n) ==
  IF n = 0 THEN { <<>> } ELSE {Append(f, t) : f \in Fronts(p, q, n - 1), t \in Spelled(p, q, n)}

TellingPaths(p, q) ==
  UNION {{Append(front, last) : front \in Fronts(p, q, n), last \in Spelled(p, q, n + 1) \cup {<<>>}} :
           n \in 0 .. (IF Len(p) > Len(q) THEN Len(p) ELSE Len(q))}

Matched(e, paths) == VerbsOf(e.verb) \X {path \in paths : PathMatches(e.path, path)}

(* Two patterns the mux panics on: some request matches both and neither   *)
(* matches strictly fewer requests than the other.                         *)
MuxRefusesPair(e, f) ==
  LET paths == TellingPaths(e.path, f.path)
      me == Matched(e, paths)
      mf == Matched(f, paths)
  IN  /\ me \cap mf # {}
      /\ (me \subseteq mf) <=> (mf \subseteq me)

(* A pattern the mux panics on by itself.                                  *)
MuxRefuses(path) ==
  \/ \E i \in DOMAIN path : path[i].k = "bad"
  \/ \E i \in 1 .. (Len(path) - 1) : EndsRoute(path[i])
  \/ \E i, j \in DOMAIN path : i # j /\ WildcardName(path[i]) /\ WildcardName(path[j]) /\ path[i].n = path[j].n

(* The entries of the mux a request may be routed to, one when the mux     *)
(* took them all: a match no other match is narrower than.                 *)
Serves(e, verb, path) == verb \in VerbsOf(e.verb) /\ PathMatches(e.path, path)
RoutedTo(verb, path, entries) ==
  {e \in entries :
     /\ Serves(e, verb, path)
     /\ \A f \in entries \ {e} :
          Serves(f, verb, path) =>
            LET paths == TellingPaths(e.path, f.path) IN Matched(e, paths) \subseteq Matched(f, paths)}
=============================================================================
