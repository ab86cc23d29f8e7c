------------------------------- MODULE Parser -------------------------------
(***************************************************************************)
(* The parser of the design language: internal/parser over the tokens      *)
(* and comments of internal/lexer.                                         *)
(*                                                                         *)
(* A file is a sequence of lines [toks, comment]: the lexemes of the line  *)
(* and the text of the comment that ends it ("" for none), so a comment    *)
(* on a line of its own has no lexemes and a blank line has neither.  A    *)
(* lexeme is [k, t], its kind (its spelling, for a reserved word or a      *)
(* punctuation mark) and its text.                                         *)
(*                                                                         *)
(* The parser is a pure function: every operator takes the parser's state  *)
(* p and returns the state it leaves with what it read.  An optional part  *)
(* of a node is a sequence of at most one element.                         *)
(***************************************************************************)
EXTENDS Integers, Sequences, FiniteSets, SequencesExt

Verbs == {"get", "post", "put", "patch", "delete", "head", "options"}
DeclKeywords == {"type", "enum", "error", "scalar", "middleware", "event",
                 "service", "extend"}
Keywords == Verbs \cup DeclKeywords \cup
            {"package", "request", "response", "map", "true", "false",
             "null", "payload"}

(* The words of the instances, and what the code asks of a spelling. *)
Primitives == {"string", "int"}
Categories == {"NotFound"}
UpperFirst == {"A", "B", "C", "T", "U", "M", "N", "NotFound", "GET"}
LowerVerb == [GET |-> "get"]
OutOfRange(t, neg) == t = "9223372036854775808" /\ ~neg
FloatOutOfRange(t) == t = "1e309"
CanonInt(t) == IF t = "01" THEN "1" ELSE t

(* Given([x \in {e} |-> b]) is LET x == e IN b, with e computed before b:  *)
(* a long file is then read without keeping all its steps open.            *)
Given(f) == f[CHOOSE x \in DOMAIN f : TRUE]

KindOf(t) == IF t \in Keywords THEN t ELSE "Ident"
Word(t) == [k |-> KindOf(t), t |-> t]
Mark(k) == [k |-> k, t |-> k]

IsKeyword(t) == t.k \in Keywords
IsVerb(t) == t.k \in Verbs
IsWord(t) == t.k = "Ident" \/ IsKeyword(t)
-----------------------------------------------------------------------------
(* The lexer's products: the tokens with their line and the comments right *)
(* above them, and every comment of the file.                              *)

IsComment(line) == line.toks = << >> /\ line.comment # ""
IsBlank(line) == line.toks = << >> /\ line.comment = ""

(* The comment lines above line l with no blank line between them and it. *)
Doc(lines, l) ==
    LET top == CHOOSE m \in 1..l :
                   /\ \A x \in m..(l - 1) : IsComment(lines[x])
                   /\ m = 1 \/ ~IsComment(lines[m - 1])
    IN  [i \in 1..(l - top) |-> lines[top + i - 1].comment]

Tokenize(lines) ==
    LET ofLine(l) == [j \in 1..Len(lines[l].toks) |->
                        [k |-> lines[l].toks[j].k, t |-> lines[l].toks[j].t,
                         line |-> l,
                         doc |-> IF j = 1 THEN Doc(lines, l) ELSE << >>]]
        toks == FlattenSeq([l \in 1..Len(lines) |-> ofLine(l)])
        n == Len(toks)
    IN  Append([i \in 1..n |-> [k |-> toks[i].k, t |-> toks[i].t, line |-> toks[i].line,
                                doc |-> toks[i].doc, i |-> i]],
               [k |-> "EOF", t |-> "", line |-> Len(lines) + 1, doc |-> << >>, i |-> n + 1])

Comments(lines) ==
    LET all == [l \in 1..Len(lines) |->
                  [line |-> l, text |-> lines[l].comment,
                   leading |-> lines[l].toks = << >>]]
    IN  SelectSeq(all, LAMBDA c : c.text # "")

CloserOf == ("(" :> ")") @@ ("[" :> "]") @@ ("{" :> "}") @@ ("<" :> ">")
Openers == {"(", "[", "{"}
Closers == {")", "]", "}"}

(* The `<` that are closed: with nothing but what type arguments are made  *)
(* of up to the `>` that balances it.                                      *)
InAngles == {"Ident", "map", ".", ",", "?", "[", "]", "<", ">"}
ClosedAngles(toks) ==
    LET count(k, i, j) == Cardinality({x \in i..j : toks[x].k = k})
        balance(i, j) == count("<", i, j) - count(">", i, j)
    IN  {i \in {x \in DOMAIN toks : toks[x].k = "<"} :
           \E j \in i..Len(toks) :
              /\ \A x \in i..j : toks[x].k \in InAngles
              /\ balance(i, j) = 0}

(* The other opening brackets that are closed, from the n-th one of at on, *)
(* which are the indexes of the brackets: a closer closes the last bracket *)
(* of its kind in open and gives up those opened after it.                 *)
RECURSIVE ClosedFrom(_, _, _, _, _)
ClosedFrom(toks, at, n, open, closed) ==
    LET k == toks[at[n]].k
        js == {j \in 1..Len(open) : CloserOf[toks[open[j]].k] = k}
    IN  IF n > Len(at) THEN closed
        ELSE IF k \in Openers THEN ClosedFrom(toks, at, n + 1, Append(open, at[n]), closed)
        ELSE IF js = {} THEN ClosedFrom(toks, at, n + 1, open, closed)
        ELSE ClosedFrom(toks, at, n + 1, SubSeq(open, 1, Max(js) - 1),
                        closed \cup {open[Max(js)]})

ClosedBrackets(toks) ==
    ClosedAngles(toks) \cup
    ClosedFrom(toks, SelectSeq([i \in 1..Len(toks) |-> i],
                               LAMBDA i : toks[i].k \in Openers \cup Closers), 1, << >>, {})
-----------------------------------------------------------------------------
(* The cursor.  diags holds the indexes of the tokens an error was         *)
(* reported at: there is one report per position.                          *)

NewParser(lines) ==
    LET toks == Tokenize(lines)
    IN  [toks |-> toks, closed |-> ClosedBrackets(toks),
         comments |-> Comments(lines), pos |-> 1,
         diags |-> {i \in 1..Len(toks) : toks[i].k = "Error"},
         claimed |-> {}, chain |-> [l \in 1..(Len(lines) + 1) |-> << >>]]

R(p, v) == [p |-> p, v |-> v]

PeekAt(p, n) == p.toks[Min({p.pos + n, Len(p.toks)})]
Peek(p) == p.toks[p.pos]
Is(p, k) == Peek(p).k = k
Prev(p) == p.toks[p.pos - 1]
Advance(p) == [p EXCEPT !.pos = Min({@ + 1, Len(p.toks)})]
Errorf(p, i) == [p EXCEPT !.diags = @ \cup {i}]
ErrorIf(cond, p, i) == IF cond THEN Errorf(p, i) ELSE p

(* An empty token at the cursor. *)
NoToken(p) == [k |-> "", t |-> "", line |-> Peek(p).line, i |-> p.pos,
               doc |-> << >>]

Expect(p, k) == IF Is(p, k) THEN R(Advance(p), Peek(p))
                ELSE R(Errorf(p, p.pos), NoToken(p))

(* startsLine; a line of the model holds a raw string over several lines   *)
(* whole, and the tokens after it as far as the line it ends on.           *)
StartsLine(p) == p.pos = 1 \/ Peek(p).line > Prev(p).line

OpensDeclaration_generic(p) ==
    /\ StartsLine(p)
    /\ \/ /\ Peek(p).k \in {"enum", "service", "event"}
          /\ PeekAt(p, 1).k = "Ident"
          /\ PeekAt(p, 2).k = "{"
       \/ Is(p, "type") /\ PeekAt(p, 1).k = "Ident" /\ PeekAt(p, 2).k = "<"
       \/ Is(p, "extend") /\ PeekAt(p, 1).k = "service"

OpensDeclaration(p) ==
    /\ StartsLine(p)
    /\ \/ /\ Peek(p).k \in {"type", "enum", "service", "event"}
          /\ PeekAt(p, 1).k = "Ident"
          /\ PeekAt(p, 2).k \in {"{", "<"}
       \/ Is(p, "extend") /\ PeekAt(p, 1).k = "service"

StartsDeclaration(p) == \/ Peek(p).k \in DeclKeywords \cup {"package"}
                        \/ Is(p, "@") /\ StartsLine(p)

UpperVerb(t) == t.k = "Ident" /\ t.t \in DOMAIN LowerVerb

StartsMethod(p) == /\ StartsLine(p)
                   /\ IsVerb(Peek(p)) \/ UpperVerb(Peek(p)) \/ Is(p, "@")

RECURSIVE SkipLineFrom(_, _)
SkipLineFrom(p, line) ==
    IF Is(p, "EOF") \/ Peek(p).line # line THEN p
    ELSE SkipLineFrom(Advance(p), line)
SkipLine(p) == SkipLineFrom(p, Peek(p).line)

RECURSIVE SkipGroup(_, _)
SkipGroup(p, depth) ==
    IF Is(p, "EOF") THEN p
    ELSE LET d == depth + (IF Peek(p).k \in Openers THEN 1
                           ELSE IF Peek(p).k \in Closers THEN -1 ELSE 0)
         IN  IF d <= 0 THEN Advance(p) ELSE SkipGroup(Advance(p), d)
SkipBalanced(p) == SkipGroup(p, 0)

(* What ends a skip, by the caller's name for it. *)
SkipStops(stop, p) ==
    CASE stop = "line" -> StartsLine(p)
      [] stop = "declaration" -> StartsDeclaration(p)
      [] stop = "method" -> StartsMethod(p) \/ OpensDeclaration(p)

RECURSIVE SkipMore(_, _, _)
SkipMore(p, inBody, stop) ==
    IF Is(p, "EOF") \/ (inBody /\ Is(p, "}")) \/ SkipStops(stop, p) THEN p
    ELSE SkipMore(SkipBalanced(p), inBody, stop)
SkipUntil(p, inBody, stop) == SkipMore(SkipBalanced(p), inBody, stop)

RECURSIVE SkipParensFrom(_, _, _)
SkipParensFrom(p, parens, braces) ==
    LET k == Peek(p).k
    IN  CASE k = "EOF" -> R(p, FALSE)
          [] k = "(" -> SkipParensFrom(Advance(p), parens + 1, braces)
          [] k = ")" -> IF parens = 1 THEN R(Advance(p), TRUE)
                        ELSE SkipParensFrom(Advance(p), parens - 1, braces)
          [] k = "{" -> SkipParensFrom(Advance(p), parens, braces + 1)
          [] k = "}" -> IF braces = 0 THEN R(p, FALSE)
                        ELSE SkipParensFrom(Advance(p), parens, braces - 1)
          [] OTHER -> SkipParensFrom(Advance(p), parens, braces)
SkipParens(p) == IF p.pos \notin p.closed THEN R(SkipLine(p), FALSE)
                 ELSE SkipParensFrom(p, 0, 0)
-----------------------------------------------------------------------------
(* Which node owns a comment. *)

ClaimDoc(p, tok) ==
    [p EXCEPT !.claimed = @ \cup ((tok.line - Len(tok.doc))..(tok.line - 1))]

(* The comments inside a decorator chain go under the first line below     *)
(* them that holds a decorator, or the name or keyword that ends the       *)
(* chain.                                                                  *)
ClaimBetween(p, start, lines) ==
    LET mine == SelectSeq(p.comments, LAMBDA c :
                    /\ c.leading /\ c.line > start /\ c.line \notin p.claimed
                    /\ \E l \in ToSet(lines) : c.line < l)
        under(c) == Min({l \in ToSet(lines) : c.line < l})
        at(l) == SelectSeq(mine, LAMBDA c : under(c) = l)
    IN  [p EXCEPT !.claimed = @ \cup {c.line : c \in ToSet(mine)},
                  !.chain = [l \in DOMAIN @ |->
                      @[l] \o [i \in 1..Len(at(l)) |-> at(l)[i].text]]]

ClaimChain(p, decs, last) ==
    IF decs = << >> THEN p
    ELSE ClaimBetween(p, decs[1].at.line,
                      [i \in 1..Len(decs) |-> IF i = Len(decs) THEN last
                                              ELSE decs[i + 1].at.line])

ClaimInside(p, open, close) ==
    [p EXCEPT !.claimed = @ \cup
        {c.line : c \in {c \in ToSet(p.comments) :
                           c.leading /\ c.line > open /\ c.line < close}}]

(* The unclaimed comments between lines lo and hi, as blocks of adjacent   *)
(* lines.                                                                  *)
HarvestFreeComments(p, lo, hi) ==
    LET mine == SelectSeq(p.comments, LAMBDA c :
                    /\ c.leading /\ c.line > lo /\ c.line < hi
                    /\ c.line \notin p.claimed)
        Add(out, c) ==
          IF out # << >> /\ c.line = Last(out).at.line + Len(Last(out).text)
          THEN Append(Front(out), [Last(out) EXCEPT !.text = Append(@, c.text)])
          ELSE Append(out, [m |-> "free", at |-> [line |-> c.line],
                            text |-> <<c.text>>])
    IN  R([p EXCEPT !.claimed = @ \cup {c.line : c \in ToSet(mine)}],
          FoldLeft(Add, << >>, mine))

RECURSIVE MergeFreeComments(_, _)
MergeFreeComments(members, fcs) ==
    CASE fcs = << >> -> members
      [] members = << >> -> fcs
      [] fcs[1].at.line < members[1].at.line ->
           <<fcs[1]>> \o MergeFreeComments(members, Tail(fcs))
      [] OTHER -> <<members[1]>> \o MergeFreeComments(Tail(members), fcs)

DocAbove(p) == R(ClaimDoc(p, Peek(p)), Peek(p).doc)
-----------------------------------------------------------------------------
(* Bracketed lists.  One nothing closes ends with its opener's line. *)

More(p, open) == /\ Peek(p).k \notin {CloserOf[p.toks[open].k], "EOF"}
                 /\ open \in p.closed \/ Peek(p).line = p.toks[open].line

(* v: whether the list goes on. *)
ListSep(p, open) ==
    CASE Is(p, ",") -> R(Advance(p), TRUE)
      [] Peek(p).k \in {CloserOf[p.toks[open].k], "EOF"} -> R(p, TRUE)
      [] Peek(p).k \notin {",", CloserOf[p.toks[open].k], "EOF"}
         /\ open \notin p.closed -> R(p, FALSE)
      [] OTHER -> R(Errorf(p, p.pos), TRUE)

CloseList(p, open) ==
    IF Is(p, CloserOf[p.toks[open].k]) THEN R(Advance(p), Peek(p))
    ELSE R(Errorf(p, IF open \in p.closed THEN p.pos ELSE open), NoToken(p))

RECURSIVE ParseQualifiedRest(_, _)
ParseQualifiedRest(p, parts) ==
    IF ~Is(p, ".") THEN R(p, parts)
    ELSE LET n == Expect(Advance(p), "Ident")
         IN  IF n.v.k = "" THEN R(n.p, parts)
             ELSE ParseQualifiedRest(n.p, Append(parts, n.v.t))
ParseQualifiedIdent(p) ==
    LET n == Expect(p, "Ident")
    IN  IF n.v.k = "" THEN R(n.p, << >>)
        ELSE ParseQualifiedRest(n.p, <<n.v.t>>)

SignedInt(neg, t) ==
    IF neg /\ CanonInt(t) # "0"
    THEN <<Mark("-"), [k |-> "Int", t |-> CanonInt(t)]>>
    ELSE <<[k |-> "Int", t |-> CanonInt(t)]>>

Bad(tok) == [e |-> "bad", at |-> tok]
Lit(tok, out) == [e |-> "lit", at |-> tok, out |-> out]

SkipDecorator(p, mayClose) ==
    LET q == Advance(p)
        n == Advance(q)
        s == SkipParens(n)
        next == Peek(s.p)
    IN  IF ~IsWord(Peek(q)) THEN q
        ELSE IF ~Is(n, "(") THEN n
        ELSE IF s.v /\ mayClose /\ next.line > Prev(s.p).line
                /\ next.k \notin {",", ")"}
        THEN [s.p EXCEPT !.pos = @ - 1] ELSE s.p

ParseValue(p, closer) ==
    LET t == Peek(p)
        q == Advance(p)
        n == Peek(q)
        qi == ParseQualifiedIdent(p)
    IN  CASE t.k = "@" -> R(SkipDecorator(Errorf(p, t.i), closer = ")"), Bad(t))
          [] t.k = "Int" -> R(ErrorIf(OutOfRange(t.t, FALSE), q, t.i),
                              Lit(t, SignedInt(FALSE, t.t)))
          [] t.k \in {"String", "RawString", "Float", "Duration", "Size",
                      "true", "false", "null"} ->
               R(ErrorIf(t.k = "Float" /\ FloatOutOfRange(t.t), q, t.i),
                 Lit(t, <<[k |-> t.k, t |-> t.t]>>))
          [] t.k = "-" /\ n.k = "Int" ->
               R(ErrorIf(OutOfRange(n.t, TRUE), Advance(q), t.i),
                 Lit(t, SignedInt(TRUE, n.t)))
          [] t.k = "-" /\ n.k = "Float" ->
               R(ErrorIf(FloatOutOfRange(n.t), Advance(q), t.i),
                 Lit(t, <<Mark("-"), [k |-> "Float", t |-> n.t]>>))
          [] t.k = "-" /\ n.k \notin {"Int", "Float"} -> R(Errorf(q, t.i), Bad(t))
          [] t.k = "Ident" -> R(qi.p, [e |-> "ident", at |-> t, parts |-> qi.v])
          [] t.k \in Keywords \ {"true", "false", "null"} ->
               R(q, [e |-> "ident", at |-> t, parts |-> <<t.t>>])
          [] OTHER -> R(Advance(Errorf(p, t.i)), Bad(t))

RECURSIVE IsBad(_)
IsBad(e) == e.e = "bad" \/ (e.e = "array" /\ \E x \in ToSet(e.elems) : IsBad(x))

HoldsBadExpr(d) ==
    \E a \in ToSet(d.args) : IF a.isObj THEN \E f \in ToSet(a.fields) : IsBad(f.value)
                             ELSE IsBad(a.value)

RECURSIVE ListItems(_, _, _, _), ParseValueOrArray(_, _), ParseTypeRef(_)

(* `{ key: value, ... }` *)
ParseObjectField(p) ==
    LET t == Peek(p)
        named == IF IsWord(t) THEN Advance(p) ELSE Errorf(p, t.i)
        v == ParseValueOrArray(Expect(named, ":").p, "}")
    IN  R(v.p, [at |-> t, name |-> IF IsWord(t) THEN t.t ELSE "", value |-> v.v])

ParseObjectLiteral(p) ==
    LET items == ListItems("object", Advance(p), p.pos, << >>)
    IN  R(CloseList(items.p, p.pos).p, items.v)

ParseDecoratorArg(p) ==
    LET t == Peek(p)
        named == t.k = "Ident" /\ PeekAt(p, 1).k = ":"
        o == ParseObjectLiteral(p)
        v == ParseValueOrArray(IF named THEN Advance(Advance(p)) ELSE p, ")")
    IN  IF t.k = "{"
        THEN R(o.p, [at |-> t, named |-> FALSE, name |-> "", isObj |-> TRUE,
                     fields |-> o.v, value |-> Bad(t)])
        ELSE R(v.p, [at |-> t, named |-> named,
                     name |-> IF named THEN t.t ELSE "", isObj |-> FALSE,
                     fields |-> << >>, value |-> v.v])

ParseValueOrArray(p, closer) ==
    LET items == ListItems("array", Advance(p), p.pos, << >>)
    IN  IF Is(p, "[")
        THEN R(CloseList(items.p, p.pos).p,
               [e |-> "array", at |-> Peek(p), elems |-> items.v])
        ELSE ParseValue(p, closer)

(* One element of a list of the given kind, after those of acc; stop ends  *)
(* the list without a look at the separator.                               *)
ListElement(kind, p, acc) ==
    LET el == CASE kind = "args" -> ParseDecoratorArg(p)
                [] kind = "array" -> ParseValueOrArray(p, "]")
                [] kind = "object" -> ParseObjectField(p)
                [] kind = "typeArgs" -> ParseTypeRef(p)
                [] kind = "typeParams" -> Expect(p, "Ident")
        again == kind = "typeParams" /\ \E x \in ToSet(acc) : x = el.v.t
        none == kind = "typeParams" /\ el.v.k = ""
    IN  [p |-> ErrorIf(again, el.p, p.pos), stop |-> none,
         v |-> IF again \/ none THEN acc
               ELSE Append(acc, IF kind = "typeParams" THEN el.v.t ELSE el.v)]

ListItems(kind, p, open, acc) ==
    IF ~More(p, open) \/ (kind = "args" /\ Is(p, "}")) THEN R(p, acc)
    ELSE Given([el \in {ListElement(kind, p, acc)} |->
            LET s == ListSep(el.p, open)
            IN  IF el.stop THEN R(el.p, el.v)
                ELSE IF ~s.v \/ (kind = "typeArgs" /\ s.p.pos = p.pos)
                THEN R(s.p, el.v)
                ELSE ListItems(kind, s.p, open, el.v)])

ParseDecorator(p) ==
    LET at == Peek(p)
        q == Advance(p)
        name == Peek(q)
        n == Advance(q)
        none == [at |-> at, name |-> "", parens |-> FALSE, args |-> << >>]
        d == [none EXCEPT !.name = name.t]
        items == ListItems("args", Advance(n), n.pos, << >>)
        close == CloseList(items.p, n.pos)
        withArgs == [d EXCEPT !.parens = TRUE, !.args = items.v]
        failed == close.v.k # ")" \/ close.p.diags # n.diags
        badArg == [at |-> close.v, named |-> FALSE, name |-> "",
                   isObj |-> FALSE, fields |-> << >>, value |-> Bad(close.v)]
    IN  IF name.line # at.line THEN R(Errorf(q, at.i), none)
        ELSE IF ~IsWord(name) THEN R(Errorf(q, name.i), none)
        ELSE IF ~Is(n, "(") THEN R(n, d)
        ELSE R(ClaimInside(close.p, at.line, close.v.line),
               IF failed /\ ~HoldsBadExpr(withArgs)
               THEN [withArgs EXCEPT !.args = Append(@, badArg)] ELSE withArgs)

RECURSIVE ParseDecorators(_)
ParseDecorators(p) ==
    IF ~Is(p, "@") THEN R(p, << >>)
    ELSE Given([d \in {ParseDecorator(p)} |->
            LET rest == ParseDecorators(d.p) IN R(rest.p, <<d.v>> \o rest.v)])

RECURSIVE DecoratorsOnLine(_, _)
DecoratorsOnLine(p, line) ==
    IF ~Is(p, "@") \/ Peek(p).line # line THEN R(p, << >>)
    ELSE Given([d \in {ParseDecorator(p)} |->
            LET rest == DecoratorsOnLine(d.p, Prev(d.p).line)
            IN  R(rest.p, <<d.v>> \o rest.v)])

ErrorEach(p, decs) == [p EXCEPT !.diags = @ \cup {d.at.i : d \in ToSet(decs)}]

(* Decorators on the last line of a construct, unless they start the next. *)
RejectDecoratorsAfter(p, starts) ==
    LET r == DecoratorsOnLine(p, Prev(p).line)
    IN  IF /\ r.v # << >>
           /\ Peek(r.p).line = Prev(r.p).line /\ Peek(r.p).k \in starts
        THEN [r.p EXCEPT !.pos = p.pos]
        ELSE ErrorEach(r.p, r.v)

DanglingDecorators(p, decs) ==
    ErrorIf(\A d \in ToSet(decs) : ~HoldsBadExpr(d), p, decs[1].at.i)

(* The doc and the decorators above a member. *)
MemberHead(p) ==
    LET doc == DocAbove(p) IN
    Given([decs \in {ParseDecorators(doc.p)} |->
       LET t == Peek(decs.p)
       IN  [p |-> ClaimChain(decs.p, decs.v, t.line), decs |-> decs.v, t |-> t,
            doc |-> doc.v \o (IF decs.v = << >> THEN << >> ELSE t.doc)]])
-----------------------------------------------------------------------------
(* Types. *)

ParseNamedTypeRef(p) ==
    LET qi == ParseQualifiedIdent(p)
        open == qi.p.pos
        q == Advance(qi.p)
        ref(args) == [at |-> Peek(p), parts |-> qi.v, args |-> args]
    IN  IF ~Is(qi.p, "<") THEN R(qi.p, ref(<< >>))
        ELSE Given([items \in {ListItems("typeArgs", ErrorIf(Is(q, ">"), q, open),
                                         open, << >>)} |->
                LET close == CloseList(items.p, open)
                IN  R(ClaimInside(close.p, qi.p.toks[open].line, close.v.line),
                      ref(items.v))])

(* `map<K, V>`, kept as a reference with no name and the two arguments. *)
ParseMapType(p) ==
    LET open == p.pos + 1
        opened == Expect(Advance(p), "<")
        key == ParseTypeRef(opened.p)
        val == ParseTypeRef(Expect(key.p, ",").p)
        close == CloseList(val.p, open)
        ref == [at |-> Peek(p), parts |-> << >>, args |-> <<key.v, val.v>>]
    IN  IF opened.v.k = "" THEN R(val.p, ref)
        ELSE R(ClaimInside(close.p, p.toks[open].line, close.v.line), ref)

RECURSIVE ParseArraySuffix(_, _)
ParseArraySuffix(p, depth) ==
    IF ~Is(p, "[") THEN R(p, depth)
    ELSE ParseArraySuffix(Expect(Advance(p), "]").p, depth + 1)

ParseTypeRef(p) ==
    LET isMap == Is(p, "map")
    IN  Given([ref \in {IF isMap THEN ParseMapType(p) ELSE ParseNamedTypeRef(p)} |->
           LET arr == ParseArraySuffix(ref.p, 0)
           IN  R(IF Is(arr.p, "?") THEN Advance(arr.p) ELSE arr.p,
                 [at |-> Peek(p), map |-> isMap, ref |-> ref.v, depth |-> arr.v,
                  opt |-> Is(arr.p, "?")])])

ParseTypeParams(p) ==
    LET q == Advance(p)
        items == ListItems("typeParams", q, p.pos, << >>)
        close == CloseList(items.p, p.pos)
    IN  IF Is(q, ">") THEN R(Advance(Errorf(q, q.pos)), << >>)
        ELSE R(ClaimInside(close.p, Peek(p).line, close.v.line), items.v)

IsFieldFollower(next, line) ==
    /\ next.line = line
    /\ next.k = "map" \/ (next.k = "Ident" /\ next.t \in Primitives)

ParseField_leading(p, doc, decs) ==
    LET type == ParseTypeRef(Advance(p))
        trailing == DecoratorsOnLine(type.p, Prev(type.p).line)
    IN  R(trailing.p, <<[m |-> "field", at |-> Peek(p), doc |-> doc,
                         name |-> Peek(p).t, type |-> type.v, decs |-> decs]>>)

ParseField(p, doc, decs) ==
    Given([type \in {ParseTypeRef(Advance(p))} |->
       LET trailing == DecoratorsOnLine(type.p, Prev(type.p).line)
       IN  R(trailing.p, <<[m |-> "field", at |-> Peek(p), doc |-> doc,
                            name |-> Peek(p).t, type |-> type.v,
                            decs |-> decs \o trailing.v]>>)])

ParseMixin(p, doc, decs) ==
    LET ref == ParseNamedTypeRef(p)
        trailing == DecoratorsOnLine(ref.p, Prev(ref.p).line)
    IN  R(ErrorEach(trailing.p, decs \o trailing.v),
          <<[m |-> "mixin", at |-> Peek(p), doc |-> doc, ref |-> ref.v]>>)

ParseTypeMember(p) ==
    Given([h \in {MemberHead(p)} |->
    LET t == h.t
        next == PeekAt(h.p, 1)
    IN  CASE h.decs # << >> /\ t.k \in {"}", "EOF"} ->
               R(DanglingDecorators(h.p, h.decs), << >>)
          [] IsKeyword(t) -> ParseField(h.p, h.doc, h.decs)
          [] ~IsWord(t) /\ ~(h.decs # << >> /\ t.k \in {"}", "EOF"}) ->
               R(SkipUntil(Errorf(h.p, t.i), TRUE, "line"), << >>)
          [] OTHER ->
               IF /\ next.k \notin {".", "<"}
                  /\ IsFieldFollower(next, t.line) \/ t.t \notin UpperFirst
               THEN ParseField(h.p, h.doc, h.decs)
               ELSE ParseMixin(h.p, h.doc, h.decs)])

ParseEnumValue(p0) ==
    LET stray == Is(p0, "@") /\ PeekAt(p0, 2).k = "="
        h == MemberHead(IF stray THEN Advance(Errorf(p0, p0.pos)) ELSE p0)
        t == h.t
        n == Advance(h.p)
        q == Advance(n)
        lit == Peek(q)
        minus == Advance(q)
        given == CASE ~Is(n, "=") -> R(n, << >>)
                   [] Is(n, "=") /\ lit.k = "Int" ->
                        R(ErrorIf(OutOfRange(lit.t, FALSE), Advance(q), lit.i),
                          SignedInt(FALSE, lit.t))
                   [] Is(n, "=") /\ lit.k = "String" ->
                        R(Advance(q), <<[k |-> "String", t |-> lit.t]>>)
                   [] Is(n, "=") /\ lit.k = "-" /\ Is(minus, "Int") ->
                        R(ErrorIf(OutOfRange(Peek(minus).t, TRUE), Advance(minus), lit.i),
                          SignedInt(TRUE, Peek(minus).t))
                   [] Is(n, "=") /\ lit.k = "-" /\ ~Is(minus, "Int") ->
                        R(Errorf(minus, minus.pos), << >>)
                   [] OTHER -> R(Errorf(q, q.pos), << >>)
        trailing == DecoratorsOnLine(given.p, Prev(given.p).line)
    IN  IF h.decs # << >> /\ t.k \in {"}", "EOF"}
        THEN R(DanglingDecorators(h.p, h.decs), << >>)
        ELSE IF t.k = "}" THEN R(h.p, << >>)
        ELSE IF ~IsWord(t)
        THEN LET e == Errorf(h.p, t.i)
             IN  R(IF t.k = "EOF" THEN e ELSE SkipUntil(e, TRUE, "line"), << >>)
        ELSE R(trailing.p, <<[m |-> "value", at |-> t, doc |-> h.doc,
                              name |-> t.t, val |-> given.v,
                              decs |-> h.decs \o trailing.v]>>)
-----------------------------------------------------------------------------
(* Bodies: `{`, members up to `}`.  A `{` nothing closes is reported there *)
(* and its body ends at EOF, at a line that opens a declaration or, in a   *)
(* method, at one that may start a method.                                 *)

RECURSIVE BodyItems(_, _, _, _, _)

Body(kind, p) ==
    Given([b \in {Expect(p, "{")} |-> BodyItems(kind, b.p, p.pos, b.v.k # "", << >>)])

RejectOptionalSuffix(p) == IF Is(p, "?") THEN Advance(Errorf(p, p.pos)) ELSE p

RejectMethodTypeSuffix(p) ==
    LET q == Advance(Errorf(p, p.pos))
    IN  IF ~Is(p, "[") THEN RejectOptionalSuffix(p)
        ELSE IF Is(q, "]") THEN Advance(q) ELSE q

RECURSIVE ParsePayloadArray(_, _)
ParsePayloadArray(p, array) ==
    LET q == Expect(Advance(p), "]").p
    IN  IF ~Is(p, "[") THEN R(RejectOptionalSuffix(p), array)
        ELSE ParsePayloadArray(ErrorIf(array, q, p.pos), TRUE)

(* A clause of a method or an event, after those of acc. *)
ParseClause(kind, p, acc) ==
    LET k == Peek(p).k
        knows == IF kind = "event" THEN {"payload"} ELSE {"request", "response"}
        again == \E c \in ToSet(acc) : c.c = k
        ref == ParseNamedTypeRef(ErrorIf(again, Advance(p), p.pos))
        suffix == IF kind = "event" THEN ParsePayloadArray(ref.p, FALSE)
                  ELSE R(RejectMethodTypeSuffix(ref.p), FALSE)
    IN  IF k \notin knows
        THEN R(SkipUntil(Errorf(p, p.pos), TRUE, "line"), acc)
        ELSE R(suffix.p, SelectSeq(acc, LAMBDA c : c.c # k) \o
                         <<[c |-> k, ref |-> ref.v, array |-> suffix.v]>>)

RECURSIVE ParsePath(_, _)
ParsePath(p, segs) ==
    LET q == Advance(p)
        word == PeekAt(q, 1)
        param == <<Mark("/"), Mark("{"), [k |-> word.k, t |-> word.t], Mark("}")>>
    IN  IF ~Is(p, "/") THEN R(p, segs)
        ELSE IF Is(q, "{") /\ IsWord(word) /\ PeekAt(q, 2).k = "}"
        THEN ParsePath([q EXCEPT !.pos = @ + 3], Append(segs, param))
        ELSE IF Is(q, "PathWord")
        THEN ParsePath(Advance(q),
                 Append(segs, <<Mark("/"), [k |-> "PathWord", t |-> Peek(q).t]>>))
        ELSE IF Is(q, "/") THEN ParsePath(Errorf(q, p.pos), segs)
        ELSE IF segs # << >> THEN R(Errorf(q, q.pos), segs)
        ELSE R(q, <<<<Mark("/")>>>>)

(* `verb Name /path { ... }` *)
ParseMethod(p, decs, doc) ==
    LET verb == Peek(p)
        name == Expect(Advance(p), "Ident")
        path == ParsePath(name.p, << >>)
    IN  Given([b \in {Body("method", path.p)} |->
           LET fcs == HarvestFreeComments(b.p, verb.line, b.end.line)
           IN  R(fcs.p, <<[m |-> "method", at |-> verb, decs |-> decs, doc |-> doc,
                           verb |-> IF IsVerb(verb) THEN verb.t ELSE LowerVerb[verb.t],
                           name |-> name.v.t, path |-> FlattenSeq(path.v),
                           clauses |-> b.v, free |-> fcs.v, end |-> b.end]>>)])

ParseServiceMember(p) ==
    LET doc == DocAbove(p) IN
    Given([decs \in {ParseDecorators(doc.p)} |->
       LET t == Peek(decs.p)
           wrong == Errorf(decs.p, t.i)
           claimed == ClaimChain(ErrorIf(UpperVerb(t), decs.p, t.i), decs.v, t.line)
       IN  IF IsVerb(t) \/ UpperVerb(t)
           THEN Given([m \in {ParseMethod(claimed, decs.v, doc.v)} |->
                   R(RejectDecoratorsAfter(m.p, Verbs), m.v)])
           ELSE R(IF t.k \in {"}", "EOF"} THEN wrong
                  ELSE SkipUntil(wrong, TRUE, "method"), << >>)])

BodyItem(kind, p, acc) ==
    CASE kind = "type" -> ParseTypeMember(p)
      [] kind = "enum" -> ParseEnumValue(p)
      [] kind = "service" -> ParseServiceMember(p)
      [] OTHER -> ParseClause(kind, p, acc)

BodyItems(kind, p, open, opened, acc) ==
    IF Is(p, "}") THEN [p |-> Advance(p), v |-> acc, end |-> Peek(p)]
    ELSE IF \/ Is(p, "EOF")
            \/ kind = "method" /\ StartsMethod(p)
            \/ OpensDeclaration(p) /\ (~opened \/ open \notin p.closed)
    THEN [p |-> ErrorIf(opened, p, open), v |-> acc, end |-> NoToken(p)]
    ELSE Given([r \in {BodyItem(kind, p, acc)} |->
            BodyItems(kind, IF r.p.pos = p.pos THEN Advance(r.p) ELSE r.p, open, opened,
                      IF kind \in {"type", "enum", "service"} THEN acc \o r.v ELSE r.v)])
-----------------------------------------------------------------------------
(* Declarations.  A node has the fields its kind d needs; body holds the   *)
(* members, or the clauses of an event.                                    *)

Decl(d, at, name, decs, doc) ==
    [d |-> d, at |-> at, nameAt |-> name, name |-> name.t, decs |-> decs,
     doc |-> doc, params |-> << >>, category |-> "", prim |-> "",
     extend |-> FALSE, hasBody |-> FALSE, body |-> << >>, free |-> << >>,
     end |-> at]

(* The body of a declaration whose keyword is on line header, with its     *)
(* free comments merged in.                                                *)
WithBody(decl, kind, p, header) ==
    Given([b \in {Body(kind, p)} |->
       LET fcs == HarvestFreeComments(b.p, header, b.end.line)
       IN  R(fcs.p, <<[decl EXCEPT !.hasBody = TRUE, !.end = b.end,
                         !.body = IF kind = "event" THEN b.v
                                  ELSE MergeFreeComments(b.v, fcs.v),
                         !.free = fcs.v]>>)])

ParseTypeDecl(p, decs, doc) ==
    LET name == Expect(Advance(p), "Ident")
    IN  Given([params \in {IF Is(name.p, "<") THEN ParseTypeParams(name.p)
                           ELSE R(name.p, << >>)} |->
           LET decl == [Decl("type", Peek(p), name.v, decs, doc)
                          EXCEPT !.params = params.v]
           IN  IF ~Is(params.p, "{") THEN R(Errorf(params.p, params.p.pos), <<decl>>)
               ELSE WithBody(decl, "type", params.p, Peek(p).line)])

ParseErrorDecl(p, decs, doc) ==
    LET cat == Expect(Advance(p), "Ident")
        known == cat.v.t = "" \/ cat.v.t \in Categories
        name == Expect(ErrorIf(~known, cat.p, cat.v.i), "Ident")
        decl == [Decl("error", Peek(p), name.v, decs, doc)
                   EXCEPT !.category = cat.v.t]
    IN  IF Is(name.p, "{") THEN WithBody(decl, "type", name.p, Peek(p).line)
        ELSE R(name.p, <<decl>>)

ParseScalarDecl(p, decs, doc) ==
    LET name == Expect(Advance(p), "Ident")
        prim == Expect(name.p, "Ident")
        trailing == DecoratorsOnLine(prim.p, prim.v.line)
    IN  R(trailing.p, <<[Decl("scalar", Peek(p), name.v, decs \o trailing.v, doc)
                           EXCEPT !.prim = prim.v.t]>>)

ParseMiddlewareDecl(p, decs, doc) ==
    LET name == Expect(Advance(p), "Ident")
    IN  R(IF Is(name.p, "(") THEN SkipParens(Errorf(name.p, name.p.pos)).p
          ELSE name.p,
          <<Decl("middleware", Peek(p), name.v, decs, doc)>>)

ParseServiceDecl(p, decs, doc, header, extend) ==
    LET name == Expect(Advance(p), "Ident")
    IN  WithBody([Decl("service", Peek(p), name.v, decs, doc)
                    EXCEPT !.extend = extend], "service", name.p, header)

ParseExtendService(p, decs, doc) ==
    LET q == Advance(p)
        wrong == Errorf(q, q.pos)
    IN  IF Is(q, "service") THEN ParseServiceDecl(q, decs, doc, Peek(p).line, TRUE)
        ELSE R(IF Is(q, "EOF") \/ StartsDeclaration(q) THEN wrong
               ELSE SkipUntil(wrong, FALSE, "declaration"), << >>)

ParseNamedBody(kind, p, decs, doc) ==
    LET name == Expect(Advance(p), "Ident")
    IN  WithBody(Decl(kind, Peek(p), name.v, decs, doc), kind, name.p, Peek(p).line)

ParseTopLevelWith(p, extra) ==
    LET above == IF extra = << >> THEN DocAbove(p) ELSE R(p, << >>)
        own == ParseDecorators(above.p)
        decs == extra \o own.v
        t == Peek(own.p)
        q == ClaimChain(own.p, decs, t.line)
        doc == above.v \o (IF decs = << >> THEN << >> ELSE t.doc)
        wrong == Errorf(q, t.i)
    IN  CASE t.k = "type" -> ParseTypeDecl(q, decs, doc)
          [] t.k = "enum" -> ParseNamedBody("enum", q, decs, doc)
          [] t.k = "error" -> ParseErrorDecl(q, decs, doc)
          [] t.k = "scalar" -> ParseScalarDecl(q, decs, doc)
          [] t.k = "middleware" -> ParseMiddlewareDecl(q, decs, doc)
          [] t.k = "event" -> ParseNamedBody("event", q, decs, doc)
          [] t.k = "service" -> ParseServiceDecl(q, decs, doc, t.line, FALSE)
          [] t.k = "extend" -> ParseExtendService(q, decs, doc)
          [] t.k = "EOF" -> R(IF decs = << >> THEN q ELSE Errorf(q, decs[1].at.i),
                              << >>)
          [] t.k = "Ident" /\ t.t = "import" -> R(SkipLine(wrong), << >>)
          [] OTHER -> R(SkipUntil(wrong, FALSE, "declaration"), << >>)

RECURSIVE ParseDecls(_, _, _)
ParseDecls(p, leading, acc) ==
    IF Is(p, "EOF")
    THEN R(IF leading = << >> THEN p ELSE Errorf(p, leading[1].at.i), acc)
    ELSE Given([r \in {ParseTopLevelWith(p, leading)} |->
            LET q == IF r.v = << >> THEN r.p ELSE RejectDecoratorsAfter(r.p, DeclKeywords)
            IN  ParseDecls(IF q.pos = p.pos THEN Advance(q) ELSE q, << >>, acc \o r.v)])

(* The file: its package clause with the decorators above it, or none,     *)
(* then the declarations.                                                  *)
Parse(lines) ==
    Given([p \in {NewParser(lines)} |->
    LET top == IF Is(p, "@") THEN DocAbove(p) ELSE R(p, << >>) IN
    Given([leading \in {ParseDecorators(top.p)} |->
    LET pkg == Peek(leading.p)
        hasPkg == pkg.k = "package"
        kw == ClaimDoc(Advance(ClaimChain(leading.p, leading.v,
                                  IF leading.v = << >> THEN 0
                                  ELSE Last(leading.v).at.line)), pkg)
        name == Expect(kw, "Ident") IN
    Given([decls \in {ParseDecls(IF hasPkg THEN RejectDecoratorsAfter(name.p, DeclKeywords)
                                 ELSE leading.p,
                                 IF hasPkg THEN << >> ELSE leading.v, << >>)} |->
    LET free == HarvestFreeComments(decls.p, 0, Len(lines) + 2) IN
    [toks |-> p.toks, comments |-> p.comments, diags |-> free.p.diags,
     chain |-> free.p.chain, leadingDoc |-> top.v,
     pkg |-> IF hasPkg
             THEN <<[at |-> name.v, kw |-> pkg, doc |-> pkg.doc,
                     name |-> name.v.t, decs |-> leading.v]>>
             ELSE << >>,
     decls |-> decls.v, free |-> free.v]])])])
=============================================================================
