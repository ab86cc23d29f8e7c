------------------------------- MODULE Format -------------------------------
(***************************************************************************)
(* `craftgo fmt`: internal/format prints a parsed file back as canonical   *)
(* text and refuses a text that would not parse or would not hold the same *)
(* comments in the same places.                                            *)
(*                                                                         *)
(* The printer's state pr holds the lines written, the line being written  *)
(* and what is still to print; indentation and column padding are left     *)
(* out, so a printed line is its lexemes and its comment.  pr.src is the   *)
(* parsed file with the closing bracket of each opening one.               *)
(***************************************************************************)
EXTENDS Parser

(* What the decorator table and the string literals of the instances say:  *)
(* @format takes one of a closed set, and what a string literal holds.     *)
EnumArgDecorators == {"format"}
StringValue == ("\"email\"" :> "email") @@ ("\"type\"" :> "type") @@
               ("\"a b\"" :> "a b")
IsIdent(v) == v \notin Keywords /\ v # "a b"

DefaultNeedsOptional(f) ==
    /\ ~f.type.opt
    /\ \E d \in ToSet(f.decs) : d.name = "default"
    /\ \A d \in ToSet(f.decs) : d.name # "path"
-----------------------------------------------------------------------------
(* The token stream behind the AST. *)

(* The closing bracket of each opening one, whatever their kinds. *)
RECURSIVE MatchFrom(_, _, _, _, _)
MatchFrom(toks, at, n, open, closer) ==
    IF n > Len(at) THEN closer
    ELSE IF toks[at[n]].k \in DOMAIN CloserOf
    THEN MatchFrom(toks, at, n + 1, Append(open, at[n]), closer)
    ELSE IF open = << >> THEN MatchFrom(toks, at, n + 1, open, closer)
    ELSE MatchFrom(toks, at, n + 1, Front(open), (Last(open) :> at[n]) @@ closer)
Matching(toks) ==
    MatchFrom(toks, SelectSeq([i \in 1..Len(toks) |-> i],
                              LAMBDA i : toks[i].k \in DOMAIN CloserOf \cup Closers \cup {">"}),
              1, << >>, << >>)

After(src, i, n) == IF i + n \in DOMAIN src.toks THEN src.toks[i + n]
                    ELSE src.toks[i]
Closing(src, i) == IF i \in DOMAIN src.closer THEN src.toks[src.closer[i]]
                   ELSE src.toks[i]
Opening(src, i) ==
    LET os == {o \in DOMAIN src.closer : src.closer[o] = i}
    IN  IF os = {} THEN src.toks[i] ELSE src.toks[CHOOSE o \in os : TRUE]

(* The lines strictly inside a decorator's arguments or a type's. *)
ArgLines(toks, closer) ==
    UNION {LET from == IF toks[i].k = "@" THEN i + 2 ELSE i
           IN  IF from \in DOMAIN closer
               THEN (toks[i].line + 1)..(toks[closer[from]].line - 1) ELSE {} :
           i \in {i \in 1..Len(toks) :
                    \/ toks[i].k = "<"
                    \/ /\ toks[i].k = "@" /\ i + 2 <= Len(toks)
                       /\ toks[i + 2].k = "("}}

NewSource(f) ==
    LET closer == Matching(f.toks)
    IN  [toks |-> f.toks, closer |-> closer, chain |-> f.chain,
         args |-> ArgLines(f.toks, closer),
         trailing |-> SelectSeq(f.comments, LAMBDA c : ~c.leading),
         own |-> {c.line : c \in {c \in ToSet(f.comments) : c.leading}},
         text |-> [l \in {c.line : c \in ToSet(f.comments)} |->
                     (CHOOSE c \in ToSet(f.comments) : c.line = l).text],
         code |-> {c.line : c \in ToSet(f.comments)} \cup
                  {t.line : t \in {t \in ToSet(f.toks) : t.k # "EOF"}}]

NamedEnd(src, ref) ==
    LET name == After(src, ref.at.i, 2 * (Len(ref.parts) - 1))
    IN  IF ref.args = << >> THEN name ELSE Closing(src, name.i + 1)

TypeEnd(src, type) ==
    LET end == IF type.map THEN Closing(src, type.ref.at.i + 1)
               ELSE NamedEnd(src, type.ref)
    IN  After(src, end.i, 2 * type.depth + (IF type.opt THEN 1 ELSE 0))

ClauseEnd(src, cl) == After(src, NamedEnd(src, cl.ref).i, IF cl.array THEN 2 ELSE 0)

ValueEnd(src, v) ==
    IF v.val = << >> THEN v.at
    ELSE IF After(src, v.at.i, 2).k = "-" THEN After(src, v.at.i, 3)
    ELSE After(src, v.at.i, 2)

ArgsCloseLine(src, d) ==
    IF d.parens THEN Closing(src, d.at.i + 2).line ELSE d.at.line

MemberEndLine(src, code, decs) ==
    IF decs = << >> THEN code.line
    ELSE Max({code.line, After(src, Last(decs).at.i, 1).line,
              ArgsCloseLine(src, Last(decs))})

Keyword(src, d) == IF d.extend THEN After(src, d.at.i, -1) ELSE d.at

MemberStartLine(line, decs, docLen) ==
    (IF decs # << >> /\ decs[1].at.line < line THEN decs[1].at.line ELSE line)
    - docLen

FirstLine(src, d) == MemberStartLine(Keyword(src, d).line, d.decs, 0)
-----------------------------------------------------------------------------
(* The place of every comment: the construct it follows or documents, or   *)
(* its scope and the number of the scope's constructs above it.  A         *)
(* construct is named by its declaration, its member and its part.         *)

Name(d, m, part) == [d |-> d, m |-> m, part |-> part]
Placed(kind, name, n, texts) ==
    [i \in 1..Len(texts) |-> [kind |-> kind, name |-> name, n |-> n,
                              text |-> texts[i]]]
Anchor(line, name) == [line |-> line, name |-> name]

NoLayout == [anchors |-> << >>, frees |-> {}, comments |-> << >>]
OverAll(ls) == [anchors |-> FlattenSeq([i \in 1..Len(ls) |-> ls[i].anchors]),
                frees |-> UNION {ls[i].frees : i \in 1..Len(ls)},
                comments |-> FlattenSeq([i \in 1..Len(ls) |-> ls[i].comments])]
Anchors(as) == [NoLayout EXCEPT !.anchors = as]
Doc1(line, name, doc) ==
    [anchors |-> <<Anchor(line, name)>>, frees |-> {},
     comments |-> Placed("doc", name, 0, doc)]
Free1(name, above, c) ==
    [anchors |-> << >>, frees |-> {c.at.line},
     comments |-> Placed("in", name, above, c.text)]

(* Clauses print in a fixed order. *)
ClausesOf(body) == SelectSeq(body, LAMBDA c : c.c \in {"request", "payload"}) \o
                   SelectSeq(body, LAMBDA c : c.c = "response")

ClauseLayout(d, m, clauses, free, end) ==
    LET cls == ClausesOf(clauses)
        anchors == [i \in 1..Len(cls) |->
                      Anchor(cls[i].ref.at.line, Name(d, m, cls[i].c))]
        blocks == [i \in 1..Len(free) |->
                     Free1(Name(d, m, ""),
                           Cardinality({c \in 1..Len(cls) :
                              cls[c].ref.at.line < free[i].at.line}), free[i])]
    IN  OverAll(<<Anchors(anchors)>> \o blocks \o
                <<Anchors(<<Anchor(end.line, Name(d, m, "end"))>>)>>)

MemberLayout(d, n, m) ==
    LET name == Name(d, n + 1, "")
    IN  CASE m.m = "free" -> Free1(Name(d, 0, ""), n, m)
          [] m.m = "field" -> Doc1(MemberStartLine(m.at.line, m.decs, 0), name, m.doc)
          [] m.m \in {"mixin", "value"} -> Doc1(m.at.line, name, m.doc)
          [] m.m = "method" ->
               OverAll(<<Doc1(MemberStartLine(m.at.line, m.decs, 0), name, m.doc),
                         ClauseLayout(d, n + 1, m.clauses, m.free, m.end)>>)

DeclLayout(src, i, d) ==
    LET head == Doc1(FirstLine(src, d), Name(i, 0, ""), d.doc)
        above(j) == Cardinality({x \in 1..(j - 1) : d.body[x].m # "free"})
        members == [j \in 1..Len(d.body) |-> MemberLayout(i, above(j), d.body[j])]
    IN  IF d.d = "event"
        THEN OverAll(<<head, ClauseLayout(i, 0, d.body, d.free, d.end)>>)
        ELSE IF ~d.hasBody THEN head
        ELSE OverAll(<<head>> \o members \o
                     <<Anchors(<<Anchor(d.end.line, Name(i, 0, "end"))>>)>>)

(* The construct on or above line: the last of those that start lowest. *)
At(anchors, line) ==
    LET on == {i \in 1..Len(anchors) : anchors[i].line <= line}
        low == {i \in on : \A j \in on : anchors[j].line <= anchors[i].line}
    IN  IF anchors = << >> THEN Name(0, 0, "none")
        ELSE anchors[IF on = {} THEN 1 ELSE Max(low)].name

FileLayout(f, src) ==
    LET pkg == IF f.pkg = << >> THEN NoLayout
               ELSE Doc1(f.pkg[1].at.line, Name(0, 0, "package"), f.pkg[1].doc)
        decls == [i \in 1..Len(f.decls) |-> DeclLayout(src, i, f.decls[i])]
        all == OverAll(<<pkg>> \o decls)
        tops == [i \in 1..Len(f.decls) |-> FirstLine(src, f.decls[i])] \o
                [i \in 1..Len(f.pkg) |-> f.pkg[i].at.line]
        free == [i \in 1..Len(f.free) |->
                   Free1(Name(0, 0, "file"),
                         Cardinality({t \in 1..Len(tops) : tops[t] < f.free[i].at.line}),
                         f.free[i])]
        chain == [l \in 1..Len(f.chain) |->
                    Placed("chain", At(all.anchors, l - 1), 0, f.chain[l])]
        other == [i \in 1..Len(f.comments) |->
                    LET c == f.comments[i]
                        at == At(all.anchors, c.line)
                    IN  IF ~c.leading THEN Placed("after", at, 0, <<c.text>>)
                        ELSE IF c.line \in src.args
                        THEN Placed("args", at, 0, <<c.text>>) ELSE << >>]
        withFree == OverAll(<<all>> \o free)
    IN  [withFree EXCEPT !.comments =
            Placed("doc", Name(0, 0, "file"), 0, f.leadingDoc) \o @ \o
            FlattenSeq(chain) \o FlattenSeq(other)]

(* The first line of the construct below each free comment block. *)
CodeAfterFreeComments(layout, last) ==
    [l \in layout.frees |->
       Min({last} \cup {a.line : a \in {a \in ToSet(layout.anchors) : a.line > l}})]

(* The heads, from a name or keyword to the end of its type, that span     *)
(* lines: a comment on a line of its own in one would have to move.        *)
MemberHeads(src, m) ==
    CASE m.m = "field" -> {<<m.at.line, TypeEnd(src, m.type).line>>}
      [] m.m = "mixin" -> {<<m.at.line, NamedEnd(src, m.ref).line>>}
      [] m.m = "value" -> {<<m.at.line, ValueEnd(src, m).line>>}
      [] m.m = "method" -> {<<After(src, c.ref.at.i, -1).line,
                              ClauseEnd(src, c).line>> : c \in ToSet(m.clauses)}
      [] m.m = "free" -> {}

Heads(src, f) ==
    UNION {IF d.d = "event"
           THEN {<<After(src, c.ref.at.i, -1).line, ClauseEnd(src, c).line>> :
                   c \in ToSet(d.body)}
           ELSE UNION {MemberHeads(src, m) : m \in ToSet(d.body)} :
           d \in ToSet(f.decls)}

CommentInHead(src, f) ==
    \E l \in src.own \ src.args : \E h \in Heads(src, f) : h[1] < l /\ l < h[2]
-----------------------------------------------------------------------------
(* The printer. *)

Infinity == 1000

NewPrinter(f, src) ==
    [src |-> src, out |-> << >>, cur |-> << >>, open |-> FALSE, emitted |-> 0,
     joined |-> FALSE, free |-> f.free, freeEnd |-> 0,
     codeAfter |-> CodeAfterFreeComments(FileLayout(f, src), Infinity)]

Write(pr, toks) == [pr EXCEPT !.cur = @ \o toks]
Push(pr, toks, comment) ==
    [pr EXCEPT !.out = Append(@, [toks |-> toks, comment |-> comment])]
EndCode(pr) == [pr EXCEPT !.open = TRUE, !.freeEnd = 0]

TrailingBefore(pr, first, end) ==
    \E i \in (pr.emitted + 1)..Len(pr.src.trailing) :
       pr.src.trailing[i].line \in first..(end - 1)

(* The open code line ends; the trailing comments of the source lines      *)
(* above line join it, and a second one is lost.                           *)
EndLine(pr, line) ==
    LET n == Cardinality({i \in (pr.emitted + 1)..Len(pr.src.trailing) :
                            pr.src.trailing[i].line < line})
    IN  IF ~pr.open THEN pr
        ELSE [Push(pr, pr.cur, IF n = 0 THEN ""
                               ELSE pr.src.trailing[pr.emitted + 1].text)
                EXCEPT !.cur = << >>, !.open = FALSE, !.emitted = @ + n,
                       !.joined = @ \/ n > 1]

Reach(pr, line) ==
    EndLine(pr, IF line \in DOMAIN pr.codeAfter THEN pr.codeAfter[line] ELSE line)

PushComments(pr, texts) ==
    [pr EXCEPT !.out = @ \o [i \in 1..Len(texts) |->
                                [toks |-> << >>, comment |-> texts[i]]]]
InPlace(pr, line, texts) == PushComments(EndLine(pr, line), texts)
CommentLines(pr, line, texts) ==
    IF texts = << >> THEN pr ELSE PushComments(Reach(pr, line), texts)
Blank(pr, line) == Push(Reach(pr, line), << >>, "")

BlankBefore_offByOne(pr, prevEnd, start) ==
    /\ prevEnd # 0 /\ start > prevEnd
    /\ start - 2 \notin pr.src.code \/ (pr.freeEnd > 0 /\ pr.freeEnd # start - 1)

BlankBefore(pr, prevEnd, start) ==
    /\ prevEnd # 0 /\ start > prevEnd
    /\ start - 1 \notin pr.src.code \/ (pr.freeEnd > 0 /\ pr.freeEnd # start - 1)
BlankBetween(pr, prevEnd, start) ==
    IF BlankBefore(pr, prevEnd, start) THEN Blank(pr, start) ELSE pr

PrintFreeComment(pr, c) ==
    [CommentLines(pr, c.at.line, c.text)
       EXCEPT !.freeEnd = c.at.line + Len(c.text) - 1]

(* The comment lines right above line, at most max. *)
DocLines(src, line, max) ==
    Max({n \in 0..max : \A x \in 1..n : line - x \in src.own})

DocAboveDecorators_whole(src, doc, decs, kw) == doc

DocAboveDecorators(src, doc, decs, kw) ==
    IF decs = << >> \/ decs[1].at.line >= kw THEN doc
    ELSE SubSeq(doc, 1, Len(doc) - DocLines(src, kw, Len(doc)))

DocStartLine(src, line, decs, doc) ==
    MemberStartLine(line, decs, Len(DocAboveDecorators(src, doc, decs, line)))

ArgCommentsIn(src, lo, hi) == {l \in (lo + 1)..(hi - 1) : l \in src.own \cap src.args}
ArgComments(pr, lo, hi) ==
    LET ls == SetToSortSeq(ArgCommentsIn(pr.src, lo, hi), <)
    IN  IF ls = << >> THEN pr
        ELSE InPlace(pr, ls[1], [i \in 1..Len(ls) |-> pr.src.text[ls[i]]])
-----------------------------------------------------------------------------
(* Lists: on one line, or over lines when a comment sits among the items.  *)
(* An item is [first, last, kind, node]: its source lines, and what it is. *)

Dotted(parts) ==
    FlattenSeq([i \in 1..Len(parts) |->
                  IF i = 1 THEN <<Word(parts[i])>> ELSE <<Mark("."), Word(parts[i])>>])

Commas(items) ==
    FlattenSeq([i \in 1..Len(items) |->
                  IF i = 1 THEN items[i] ELSE <<Mark(",")>> \o items[i]])

RECURSIVE TypeToks(_)
RefToks(ref) ==
    Dotted(ref.parts) \o
    (IF ref.args = << >> THEN << >>
     ELSE <<Mark("<")>> \o Commas([i \in 1..Len(ref.args) |-> TypeToks(ref.args[i])])
          \o <<Mark(">")>>)
TypeToks(type) ==
    (IF type.map THEN <<Mark("map")>> ELSE << >>) \o RefToks(type.ref) \o
    FlattenSeq([i \in 1..type.depth |-> <<Mark("["), Mark("]")>>]) \o
    (IF type.opt THEN <<Mark("?")>> ELSE << >>)

ExprLastLine(src, e) == IF e.e = "array" THEN Closing(src, e.at.i).line
                        ELSE e.at.line
ArgLastLine(src, a) == IF a.isObj THEN Closing(src, a.at.i).line
                       ELSE ExprLastLine(src, a.value)

Item(first, last, kind, node) ==
    [first |-> first, last |-> last, kind |-> kind, node |-> node]
TypeItem(src, type) == Item(type.at.line, TypeEnd(src, type).line, "type", type)
TypeItems(src, ref) == [i \in 1..Len(ref.args) |-> TypeItem(src, ref.args[i])]

RECURSIVE PrintItem(_, _)

RECURSIVE PrintItems(_, _)
PrintItems(pr, items) ==
    IF items = << >> THEN pr
    ELSE Given([one \in {PrintItem(pr, items[1])} |->
            IF Len(items) = 1 THEN one
            ELSE PrintItems(Write(one, <<Mark(",")>>), Tail(items))])

(* The items of each source line on a line of their own, under the         *)
(* comments above it.                                                      *)
RECURSIVE PrintRows(_, _, _, _)
PrintRows(pr, prev, rows, trail) ==
    LET line == rows[1][1].first
        row == PrintItems(Reach(ArgComments(pr, prev, line), line), rows[1])
        done == EndCode(IF trail \/ Len(rows) > 1 THEN Write(row, <<Mark(",")>>) ELSE row)
    IN  IF rows = << >> THEN pr
        ELSE Given([p \in {done} |->
                PrintRows(p, Last(rows[1]).last, Tail(rows), trail)])

List(pr, open, end, opener, items, closer, trail) ==
    LET n == Len(items)
        starts == SetToSortSeq({i \in 1..n : i = 1 \/ items[i].first # items[i - 1].first}, <)
        rows == [g \in 1..Len(starts) |->
                   SubSeq(items, starts[g], IF g = Len(starts) THEN n
                                            ELSE starts[g + 1] - 1)]
        prev(g) == IF g = 1 THEN open ELSE Last(rows[g - 1]).last
        last == prev(Len(rows) + 1)
        keep == \/ n > 0 /\ items[n].first > open /\ TrailingBefore(pr, open, end)
                \/ \E g \in 1..Len(rows) :
                       ArgCommentsIn(pr.src, prev(g), rows[g][1].first) # {}
                \/ ArgCommentsIn(pr.src, last, end) # {}
        opened == Write(pr, <<Mark(opener)>>)
        body == PrintRows(EndCode(opened), open, rows, trail)
    IN  Write(IF keep THEN EndLine(ArgComments(body, last, end), Min({last + 1, end}))
              ELSE PrintItems(opened, items), <<Mark(closer)>>)

PrintRef(pr, ref, trail) ==
    LET lt == After(pr.src, ref.at.i, IF ref.parts = << >> THEN 1
                                      ELSE 2 * Len(ref.parts) - 1)
        named == Write(pr, Dotted(ref.parts))
    IN  IF ref.args = << >> THEN named
        ELSE List(named, lt.line, Closing(pr.src, lt.i).line, "<",
                  TypeItems(pr.src, ref), ">", trail)

PrintType(pr, type) ==
    Write(PrintRef(Write(pr, IF type.map THEN <<Mark("map")>> ELSE << >>),
                   type.ref, ~type.map),
          FlattenSeq([i \in 1..type.depth |-> <<Mark("["), Mark("]")>>]) \o
          (IF type.opt THEN <<Mark("?")>> ELSE << >>))

PrintExpr(pr, e) ==
    CASE e.e = "lit" -> Write(pr, e.out)
      [] e.e = "ident" -> Write(pr, Dotted(e.parts))
      [] e.e = "array" ->
           List(pr, e.at.line, Closing(pr.src, e.at.i).line, "[",
                [i \in 1..Len(e.elems) |->
                   Item(e.elems[i].at.line, ExprLastLine(pr.src, e.elems[i]),
                        "expr", e.elems[i])], "]", TRUE)
      [] OTHER -> pr

(* A string that is an identifier prints bare where a closed set of names  *)
(* is expected.                                                            *)
BareWord(dec, i, a) ==
    /\ dec \in EnumArgDecorators /\ i = 1 /\ ~a.named /\ ~a.isObj
    /\ a.value.e = "lit" /\ a.value.at.k = "String"
    /\ IsIdent(StringValue[a.value.at.t])

PrintArg(pr, a) ==
    LET named == IF a.named THEN Write(pr, <<Word(a.name), Mark(":")>>) ELSE pr
    IN  IF ~a.isObj THEN PrintExpr(named, a.value)
        ELSE List(named, a.at.line, Closing(pr.src, a.at.i).line, "{",
                  [i \in 1..Len(a.fields) |->
                     Item(a.fields[i].at.line, ExprLastLine(pr.src, a.fields[i].value),
                          "objectField", a.fields[i])], "}", TRUE)

PrintItem(pr, item) ==
    CASE item.kind = "type" -> PrintType(pr, item.node)
      [] item.kind = "expr" -> PrintExpr(pr, item.node)
      [] item.kind = "arg" -> PrintArg(pr, item.node)
      [] item.kind = "bare" ->
           Write(pr, <<Word(StringValue[item.node.value.at.t])>>)
      [] item.kind = "param" -> Write(pr, <<Word(item.node)>>)
      [] item.kind = "objectField" ->
           PrintExpr(Write(pr, <<Word(item.node.name), Mark(":")>>), item.node.value)

PrintDecorator(pr, d) ==
    LET end == ArgsCloseLine(pr.src, d)
        named == Write(pr, <<Mark("@"), Word(d.name)>>)
    IN  IF d.args = << >> /\ ArgCommentsIn(pr.src, d.at.line, end) = {} THEN named
        ELSE List(named, d.at.line, end, "(",
                  [i \in 1..Len(d.args) |->
                     Item(d.args[i].at.line, ArgLastLine(pr.src, d.args[i]),
                          IF BareWord(d.name, i, d.args[i]) THEN "bare" ELSE "arg",
                          d.args[i])], ")", TRUE)
-----------------------------------------------------------------------------
(* Decorators, headers and bodies. *)

RECURSIVE PrintDecorators(_, _, _)
PrintDecorators(pr, decs, i) ==
    LET line == decs[i].at.line
        above == IF i > 1 /\ line # decs[i - 1].at.line
                 THEN CommentLines(pr, line, pr.src.chain[line]) ELSE pr
    IN  IF i > Len(decs) THEN pr
        ELSE Given([p \in {EndCode(PrintDecorator(Reach(above, line), decs[i]))} |->
                PrintDecorators(p, decs, i + 1)])

DeclDecorators(pr, decs, last) ==
    LET printed == PrintDecorators(pr, decs, 1)
        chain == pr.src.chain[last]
        other == Len(chain) - DocLines(pr.src, last, Len(chain))
        free == CommentLines(printed, last, SubSeq(chain, 1, other))
    IN  IF decs = << >> \/ last = Last(decs).at.line THEN printed
        ELSE CommentLines(IF other > 0 THEN Push(free, << >>, "") ELSE free, last,
                          SubSeq(chain, other + 1, Len(chain)))

LeadingChain(decs, line) ==
    SubSeq(decs, 1, Max({n \in 0..Len(decs) : \A x \in 1..n : decs[x].at.line < line}))

(* The doc and the decorators above a member; those on its line are left. *)
LeadingDecorators(pr, line, decs, doc) ==
    LET lead == LeadingChain(decs, line)
        docs == CommentLines(pr, MemberStartLine(line, decs, 0),
                             DocAboveDecorators(pr.src, doc, lead, line))
    IN  DeclDecorators(docs, lead, line)
RECURSIVE InlineDecorators(_, _)
InlineDecorators(pr, decs) ==
    IF decs = << >> THEN pr
    ELSE Given([p \in {PrintDecorator(pr, decs[1])} |->
            InlineDecorators(p, Tail(decs))])

TrailingDecorators_offByOne(pr, line, decs) ==
    InlineDecorators(pr, SubSeq(decs, Len(LeadingChain(decs, line)) + 2, Len(decs)))

TrailingDecorators(pr, line, decs) ==
    InlineDecorators(pr, SubSeq(decs, Len(LeadingChain(decs, line)) + 1, Len(decs)))

(* The texts of comment blocks, a blank line between two. *)
BlockTexts(blocks) ==
    FlattenSeq([j \in 1..Len(blocks) |->
                  IF j = 1 THEN blocks[j].text ELSE <<"">> \o blocks[j].text])

(* The words after a keyword: on its line, or on lines of their own below  *)
(* the comments between them.  v is the source line of the last word.      *)
RECURSIVE HeaderFrom(_, _, _, _)
HeaderFrom(a, kw, words, i) ==
    LET line == After(a.p.src, kw.i, i).line
        blocks == SelectSeq(a.p.free, LAMBDA b : b.at.line < line)
        rest == SelectSeq(a.p.free, LAMBDA b : b.at.line >= line)
        q == EndCode([a.p EXCEPT !.free = rest])
        below == IF blocks = << >> THEN q
                 ELSE InPlace(q, blocks[1].at.line, BlockTexts(blocks))
        placed == IF blocks = << >> /\ ~TrailingBefore(a.p, a.v, line) THEN a.p
                  ELSE Reach(below, line)
    IN  IF i > Len(words) THEN a
        ELSE Given([p \in {Write(placed, words[i])} |->
                HeaderFrom(R(p, line), kw, words, i + 1)])
Header(pr, kw, words) == HeaderFrom(R(pr, kw.line), kw, words, 1)

OpenBrace(h, end) ==
    LET src == h.p.src
        brace == Opening(src, end.i)
        apart == /\ TrailingBefore(h.p, h.v, brace.line)
                 /\ TrailingBefore(h.p, brace.line, brace.line + 1)
                 /\ After(src, brace.i, 1).line # brace.line
    IN  Write(IF apart THEN Reach(EndCode(h.p), brace.line) ELSE h.p, <<Mark("{")>>)

CloseBrace(pr, line) == EndCode(Write(Reach(pr, line), <<Mark("}")>>))

CommentedType(pr, type) ==
    LET last == TypeEnd(pr.src, type).line
    IN  /\ last > type.at.line
        /\ \/ TrailingBefore(pr, type.at.line, last)
           \/ ArgCommentsIn(pr.src, type.at.line, last) # {}

PrintField(pr, f) ==
    Given([above \in {LeadingDecorators(pr, f.at.line, f.decs, f.doc)} |->
       LET named == Write(Reach(above, f.at.line), <<Word(f.name)>>)
           typed == IF CommentedType(named, f.type) THEN PrintType(named, f.type)
                    ELSE Write(named, TypeToks(f.type))
           full == IF DefaultNeedsOptional(f) THEN Write(typed, <<Mark("?")>>) ELSE typed
       IN  EndCode(TrailingDecorators(full, f.at.line, f.decs))])

PrintEnumValue(pr, v) ==
    LET named == Write(Reach(LeadingDecorators(pr, v.at.line, v.decs, v.doc), v.at.line),
                       <<Word(v.name)>>)
        full == IF v.val = << >> THEN named ELSE Write(named, <<Mark("=")>> \o v.val)
    IN  EndCode(TrailingDecorators(full, v.at.line, v.decs))

(* A method or event body, below the header h. *)
RECURSIVE PrintFrees(_, _)
PrintFrees(a, free) ==
    LET c == free[1]
    IN  IF free = << >> THEN a
        ELSE Given([p \in {PrintFreeComment(BlankBetween(a.p, a.v, c.at.line), c)} |->
                PrintFrees(R(p, c.at.line + Len(c.text) - 1), Tail(free))])

RECURSIVE PrintClauses(_, _, _, _)
PrintClauses(a, cls, i, free) ==
    LET cl == cls[i]
        line == cl.ref.at.line
        from == Max({0} \cup {cls[x].ref.at.line : x \in 1..(i - 1)})
        b == PrintFrees(a, SelectSeq(free, LAMBDA c :
                               c.at.line >= from /\ c.at.line < line))
        kw == Write(Reach(BlankBetween(b.p, b.v, line), line), <<Mark(cl.c)>>)
        typed == PrintRef(kw, cl.ref, TRUE)
        full == IF cl.array THEN Write(typed, <<Mark("["), Mark("]")>>) ELSE typed
    IN  IF i > Len(cls) THEN a
        ELSE Given([p \in {EndCode(full)} |->
                PrintClauses(R(p, ClauseEnd(p.src, cl).line), cls, i + 1, free)])

PrintMemberBody(h, clauses, free, end) ==
    LET cls == ClausesOf(clauses)
        opened == OpenBrace(h, end)
        past == Max({0} \cup {cls[x].ref.at.line : x \in 1..Len(cls)})
    IN  IF cls = << >> /\ free = << >> /\ ~TrailingBefore(h.p, 0, end.line)
        THEN EndCode(Write(opened, <<Mark("}")>>))
        ELSE Given([body \in {PrintClauses(R(EndCode(opened), 0), cls, 1, free)} |->
                LET rest == PrintFrees(body, SelectSeq(free, LAMBDA c : c.at.line >= past))
                IN  CloseBrace(rest.p, end.line)])

PrintMethod(pr, m) ==
    LET docs == CommentLines(pr, MemberStartLine(m.at.line, m.decs, 0), m.doc)
        verb == Write(Reach(DeclDecorators(docs, m.decs, m.at.line), m.at.line),
                      <<Word(m.verb)>>)
        words == <<<<Word(m.name)>>>> \o
                 (IF m.path = << >> THEN << >> ELSE <<m.path>>)
    IN  Given([h \in {Header(verb, m.at, words)} |->
           PrintMemberBody(h, m.clauses, m.free, m.end)])

(* One member of a body, after a member that ends on line a.v. *)
PrintMember(a, m) ==
    LET src == a.p.src
        Gap(start) == BlankBetween(a.p, a.v, start)
    IN  CASE m.m = "field" ->
               R(PrintField(Gap(DocStartLine(src, m.at.line, m.decs, m.doc)), m),
                 MemberEndLine(src, TypeEnd(src, m.type), m.decs))
          [] m.m = "mixin" ->
               R(EndCode(PrintRef(Reach(CommentLines(Gap(m.at.line - Len(m.doc)),
                                            m.at.line, m.doc), m.at.line),
                                  m.ref, TRUE)),
                 NamedEnd(src, m.ref).line)
          [] m.m = "value" ->
               R(PrintEnumValue(Gap(DocStartLine(src, m.at.line, m.decs, m.doc)), m),
                 MemberEndLine(src, ValueEnd(src, m), m.decs))
          [] m.m = "method" ->
               R(PrintMethod(Gap(MemberStartLine(m.at.line, m.decs, Len(m.doc))), m),
                 m.end.line)
          [] m.m = "free" ->
               R(PrintFreeComment(Gap(m.at.line), m), m.at.line + Len(m.text) - 1)

RECURSIVE PrintMembers(_, _)
PrintMembers(a, members) ==
    IF members = << >> THEN a
    ELSE Given([b \in {PrintMember(a, members[1])} |-> PrintMembers(b, Tail(members))])

PrintBody(h, d) ==
    CloseBrace(PrintMembers(R(EndCode(OpenBrace(h, d.end)), 0), d.body).p, d.end.line)

PrintParams(h, d) ==
    LET src == h.p.src
        lt == After(src, d.nameAt.i, 1)
        line(i) == After(src, lt.i, 1 + 2 * (i - 1)).line
        close == Closing(src, lt.i).line
    IN  IF d.params = << >> THEN h
        ELSE R(List(h.p, lt.line, close, "<",
                    [i \in 1..Len(d.params) |->
                       Item(line(i), line(i), "param", d.params[i])], ">", TRUE), close)

PrintDecl(pr, d) ==
    LET kw == Keyword(pr.src, d)
        docs == CommentLines(pr, MemberStartLine(kw.line, d.decs, 0),
                             DocAboveDecorators(pr.src, d.doc, d.decs, kw.line))
        top == IF d.d = "scalar" THEN LeadingDecorators(pr, kw.line, d.decs, d.doc)
               ELSE DeclDecorators(docs, d.decs, kw.line)
        words == CASE d.d = "error" -> <<<<Word(d.category)>>, <<Word(d.name)>>>>
                   [] d.d = "scalar" -> <<<<Word(d.name)>>, <<Word(d.prim)>>>>
                   [] d.extend -> <<<<Mark("service")>>, <<Word(d.name)>>>>
                   [] OTHER -> <<<<Word(d.name)>>>>
    IN  Given([h \in {Header(Write(Reach(top, kw.line), <<Mark(kw.k)>>), kw, words)} |->
           CASE d.d = "scalar" -> EndCode(TrailingDecorators(h.p, kw.line, d.decs))
             [] d.d = "event" -> PrintMemberBody(h, d.body, d.free, d.end)
             [] d.d = "type" -> PrintBody(PrintParams(h, d), d)
             [] OTHER -> IF d.hasBody THEN PrintBody(h, d) ELSE EndCode(h.p)])

(* The file-scope comment blocks above line, a blank line above each but   *)
(* the first thing printed.  v: whether anything is printed yet.           *)
FlushBefore(a, line) ==
    LET blocks == SelectSeq(a.p.free, LAMBDA b : b.at.line < line)
        rest == SelectSeq(a.p.free, LAMBDA b : b.at.line >= line)
        last == Last(blocks)
        texts == (IF a.v THEN <<"">> ELSE << >>) \o BlockTexts(blocks)
    IN  IF blocks = << >> THEN a
        ELSE R([CommentLines(a.p, blocks[1].at.line, texts)
                  EXCEPT !.free = rest,
                         !.freeEnd = last.at.line + Len(last.text) - 1], TRUE)

(* With a blank line below the blocks printed, if any. *)
FlushApart(a, line, blankAt) ==
    LET b == FlushBefore(a, line)
    IN  IF Len(b.p.free) < Len(a.p.free) THEN R(Blank(b.p, blankAt), TRUE) ELSE b

PrintPackage(a, f) ==
    LET pkg == f.pkg[1]
        start == MemberStartLine(pkg.kw.line, pkg.decs, Len(f.leadingDoc))
        top == FlushApart(a, start, start)
        decs == DeclDecorators(CommentLines(top.p, start, f.leadingDoc), pkg.decs,
                               pkg.kw.line)
        docs == FlushApart(R(decs, top.v), pkg.kw.line - Len(pkg.doc), pkg.kw.line)
        kw == Write(Reach(CommentLines(docs.p, pkg.kw.line, pkg.doc), pkg.kw.line),
                    <<Mark("package")>>)
    IN  R(EndCode(Header(kw, pkg.kw, <<<<Word(pkg.name)>>>>).p), TRUE)

RECURSIVE PrintDecls(_, _, _)
PrintDecls(a, f, i) ==
    LET doc == IF i = 1 /\ f.pkg = << >> THEN f.leadingDoc ELSE << >>
        line == FirstLine(a.p.src, f.decls[i]) - Len(doc)
        b == FlushBefore(a, line)
        q == IF b.v THEN Blank(b.p, line) ELSE b.p
    IN  IF i > Len(f.decls) THEN a
        ELSE Given([p \in {PrintDecl(CommentLines(q, line, doc), f.decls[i])} |->
                PrintDecls(R(p, TRUE), f, i + 1)])

PrintFile(f) ==
    Given([start \in {R(NewPrinter(f, NewSource(f)), FALSE)} |->
    Given([decls \in {PrintDecls(IF f.pkg = << >> THEN start ELSE PrintPackage(start, f),
                                 f, 1)} |->
       Reach(FlushBefore(decls, Infinity).p, Infinity)])])

CommentTexts(f) == ToBag([i \in 1..Len(f.comments) |-> f.comments[i].text])

(* Whether the text of the parsed file g may replace the one of f. *)
CheckOutput(f, g) ==
    IF g.diags # {} THEN "does not parse"
    ELSE IF CommentTexts(g) # CommentTexts(f) THEN "loses a comment"
    ELSE IF ToBag(FileLayout(g, NewSource(g)).comments)
              # ToBag(FileLayout(f, NewSource(f)).comments) THEN "moves a comment"
    ELSE "ok"

FormatFile(lines, f) ==
    LET Left(why) == [why |-> why, out |-> lines]
    IN  IF f.diags # {} THEN Left("source does not parse")
        ELSE IF CommentInHead(NewSource(f), f) THEN Left("comment in a head")
        ELSE Given([pr \in {PrintFile(f)} |->
                LET why == IF pr.joined THEN "joins comments"
                           ELSE CheckOutput(f, Parse(pr.out))
                IN  IF why = "ok" THEN [why |-> why, out |-> pr.out] ELSE Left(why)])

Format(lines) == FormatFile(lines, Parse(lines))
=============================================================================
