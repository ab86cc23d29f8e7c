----------------------------- MODULE DesignFile -----------------------------
(***************************************************************************)
(* A .craftgo file while it is edited: the author breaks and joins lines,  *)
(* writes comments anywhere and leaves out a token, and after every edit   *)
(* the file may be parsed (internal/parser) and formatted                  *)
(* (internal/format), which change nothing but what they return.           *)
(***************************************************************************)
EXTENDS Format

CONSTANTS Templates,    \* what the author writes first
          Below,        \* the lines below, which the author leaves alone
          MaxEdits,     \* the edits of a session
          Nearby        \* how far apart two edits that follow one another are

VARIABLES text,         \* the lines of the file above those
          edits,        \* the edits made so far
          caret         \* the line of the last edit, 0 before the first

vars == <<text, edits, caret>>

CommentNames == <<"c1", "c2", "c3">>

Line(toks, comment) == [toks |-> toks, comment |-> comment]

Init == text = << >> /\ edits = 0 /\ caret = 0

(* The author writes one of the templates above those. *)
WriteFirst ==
    /\ text = << >> /\ edits = 0 /\ text' \in Templates
    /\ UNCHANGED <<edits, caret>>

Change(l, new, n) ==
    /\ edits < MaxEdits /\ edits' = n
    /\ caret # 0 => l \in (caret - Nearby)..(caret + Nearby)
    /\ caret' = l /\ text' = new

Edit(l, new) == Change(l, new, edits + 1)

(* One mistake: the session ends with it. *)
Mistake(l, new) == Change(l, new, MaxEdits)

(* A comment at the end of line l, or on a line of its own above it. *)
CommentAfter(l) ==
    /\ text[l].toks # << >> /\ text[l].comment = ""
    /\ Edit(l, [text EXCEPT ![l].comment = CommentNames[edits + 1]])
CommentAbove(l) ==
    Edit(l, InsertAt(text, l, Line(<< >>, CommentNames[edits + 1])))

BlankAbove(l) ==
    /\ \A x \in {l - 1, l} \cap DOMAIN text : ~IsBlank(text[x])
    /\ Edit(l, InsertAt(text, l, Line(<< >>, "")))

Broken(l, j) ==
    SubSeq(text, 1, l - 1) \o
    <<Line(SubSeq(text[l].toks, 1, j), ""),
      Line(SubSeq(text[l].toks, j + 1, Len(text[l].toks)), text[l].comment)>> \o
    SubSeq(text, l + 1, Len(text))

(* Between two lexemes: a path word is read as one only behind its `/`,    *)
(* and a decorator's name stands on the line of its `@`.                   *)
Between(l) == {j \in 1..(Len(text[l].toks) - 1) :
                 text[l].toks[j + 1].k # "PathWord"}
BreakLine(l) == \E j \in Between(l) : text[l].toks[j].k # "@" /\ Edit(l, Broken(l, j))
BreakDecorator(l) ==
    \E j \in Between(l) : text[l].toks[j].k = "@" /\ Mistake(l, Broken(l, j))

JoinNext(l) ==
    /\ l < Len(text)
    /\ text[l].comment = "" /\ text[l].toks # << >> /\ text[l + 1].toks # << >>
    /\ Edit(l, [RemoveAt(text, l + 1) EXCEPT
               ![l] = Line(text[l].toks \o text[l + 1].toks, text[l + 1].comment)])

DropToken(l) ==
    \E j \in Between(l) \cup {Len(text[l].toks)} :
       /\ text[l].toks # << >>
       /\ Mistake(l, [text EXCEPT ![l].toks = RemoveAt(@, j)])

Next == \/ WriteFirst
        \/ \E l \in 1..Len(text) : \/ CommentAfter(l) \/ BreakLine(l)
                                   \/ JoinNext(l) \/ DropToken(l)
                                   \/ BreakDecorator(l)
        \/ \E l \in 1..(Len(text) + 1) : CommentAbove(l) \/ BlankAbove(l)

Spec == Init /\ [][Next]_vars
-----------------------------------------------------------------------------
(* What a parsed file says, free of its layout: the lexemes of each node,  *)
(* decorators first, without those it may be written with or without.      *)
Texts(toks) == [i \in 1..Len(toks) |-> IF toks[i].k = "String"
                                         THEN StringValue[toks[i].t]
                                         ELSE toks[i].t]
Flat(Op(_), seq) == FlattenSeq([i \in 1..Len(seq) |-> Op(seq[i])])

RECURSIVE ExprSays(_)
ExprSays(e) ==
    CASE e.e = "lit" -> Texts(e.out)
      [] e.e = "ident" -> Texts(Dotted(e.parts))
      [] e.e = "array" -> <<"[">> \o Flat(ExprSays, e.elems) \o <<"]">>
      [] e.e = "bad" -> <<"bad">>
FieldSays(f) == <<f.name, ":">> \o ExprSays(f.value)
ArgSays(a) == (IF a.named THEN <<a.name, ":">> ELSE << >>) \o
              (IF a.isObj THEN <<"{">> \o Flat(FieldSays, a.fields) \o <<"}">>
               ELSE ExprSays(a.value))
DecoratorSays(d) ==
    <<"@", d.name>> \o
    (IF d.args = << >> THEN << >> ELSE <<"(">> \o Flat(ArgSays, d.args) \o <<")">>)
TypeSays(type) == SelectSeq(Texts(TypeToks(type)), LAMBDA t : t # ",")
RefSays(ref) == SelectSeq(Texts(RefToks(ref)), LAMBDA t : t # ",")
ClauseSays(c) == <<c.c>> \o RefSays(c.ref) \o
                 (IF c.array THEN <<"[", "]">> ELSE << >>)
MemberSays(m) ==
    CASE m.m = "field" ->
           Flat(DecoratorSays, m.decs) \o <<m.name>> \o TypeSays(m.type)
      [] m.m = "mixin" -> RefSays(m.ref)
      [] m.m = "value" ->
           Flat(DecoratorSays, m.decs) \o <<m.name>> \o
           (IF m.val = << >> THEN << >> ELSE <<"=">> \o Texts(m.val))
      [] m.m = "method" ->
           Flat(DecoratorSays, m.decs) \o <<m.verb, m.name>> \o Texts(m.path) \o
           <<"{">> \o Flat(ClauseSays, ClausesOf(m.clauses)) \o <<"}">>
      [] m.m = "free" -> << >>
DeclSays(d) ==
    Flat(DecoratorSays, d.decs) \o (IF d.extend THEN <<"extend">> ELSE << >>) \o
    <<d.d>> \o SelectSeq(<<d.category, d.name, d.prim>>, LAMBDA t : t # "") \o
    (IF d.params = << >> THEN << >> ELSE <<"<">> \o d.params \o <<">">>) \o
    (IF ~d.hasBody THEN << >>
     ELSE <<"{">> \o (IF d.d = "event" THEN Flat(ClauseSays, d.body)
                      ELSE Flat(MemberSays, d.body)) \o <<"}">>)
Says(f) ==
    Flat(LAMBDA p : Flat(DecoratorSays, p.decs) \o <<"package", p.name>>, f.pkg) \o
    Flat(DeclSays, f.decls)

(* With the `?` that formatting adds to a field with a default. *)
WithOptionals(f) ==
    LET field(m) == IF m.m = "field" /\ DefaultNeedsOptional(m)
                    THEN [m EXCEPT !.type.opt = TRUE] ELSE m
        decl(d) == IF d.d = "event" THEN d
                   ELSE [d EXCEPT !.body = [j \in 1..Len(@) |-> field(@[j])]]
    IN  [f EXCEPT !.decls = [i \in 1..Len(@) |-> decl(@[i])]]

(* The lexemes of a file but for commas and empty argument lists. *)
Lexemes(f) ==
    LET k(i) == IF i \in 1..Len(f.toks) THEN f.toks[i].k ELSE ""
        kept(i) == /\ k(i) \notin {",", "EOF"}
                   /\ ~(k(i) = "(" /\ k(i + 1) = ")")
                   /\ ~(k(i) = ")" /\ k(i - 1) = "(")
        word(i) == CASE k(i) = "Int" -> CanonInt(f.toks[i].t)
                     [] k(i) = "String" -> StringValue[f.toks[i].t]
                     [] OTHER -> f.toks[i].t
    IN  Flat(LAMBDA i : IF kept(i) THEN <<word(i)>> ELSE << >>,
             [i \in 1..Len(f.toks) |-> i])

InOrder(f) ==
    \A d \in ToSet(f.decls) :
       d.d = "service" =>
          \A m \in ToSet(d.body) : m.m = "method" => ClausesOf(m.clauses) = m.clauses

(* internal/format prints the design it was given: a formatted file says   *)
(* what the source says, though checkOutput compares only the comments.    *)
FormatKeepsCode(parsed, formatted, again) ==
    formatted.why = "ok" => Says(again) = Says(WithOptionals(parsed))

(* Formatting a formatted file changes nothing, wherever the comments, the *)
(* blank lines and the line breaks of the source were.                     *)
FormatStable(lines, formatted, again) ==
    formatted.out # lines =>
       FormatFile(formatted.out, again) = [why |-> "ok", out |-> formatted.out]

(* A file that parses is printed as a text that parses, and fmt refuses it *)
(* only for a comment it cannot keep in place: one inside a head or an     *)
(* argument, one that would share its line with another, one in a method   *)
(* whose clauses print in another order, one above a file without package. *)
RefusesForAComment(parsed, formatted) ==
    /\ formatted.why # "does not parse"
    /\ formatted.why = "loses a comment" =>
          LET src == NewSource(parsed) IN src.own \cap src.args # {}
    /\ formatted.why = "moves a comment" => ~InOrder(parsed) \/ parsed.pkg = << >>

(* A file without a diagnostic is read to the last lexeme: what the parser *)
(* made of it holds each of them once.                                     *)
ReadsAll(parsed) ==
    parsed.diags = {} => ToBag(Says(parsed)) = ToBag(Lexemes(parsed))

(* The parser finds its way back after a mistake: the declaration below is *)
(* read in full whatever is wrong above it.  Two mistakes are excepted: a  *)
(* bracket left open right before another closer, which its list takes for *)
(* an element, and a body left open behind decorators, which then belong   *)
(* to a field named `type`.                                                *)
TakenForElement(parsed) ==
    \E i \in 1..(Len(parsed.toks) - 1) :
       /\ parsed.toks[i].k \in DOMAIN CloserOf
       /\ i \notin ClosedBrackets(parsed.toks)
       /\ parsed.toks[i + 1].k \in Closers
EndsInDecorators(above) ==
    LET code == SelectSeq(above, LAMBDA l : l.toks # << >>)
    IN  code # << >> /\ Last(code).toks[1].k = "@"

RestRead(parsed) ==
    /\ parsed.decls # << >>
    /\ Last(parsed.decls).name = "N" /\ Len(Last(parsed.decls).body) = 1

ResumesAtDeclaration(above, parsed) ==
    TakenForElement(parsed) \/ EndsInDecorators(above) \/ RestRead(parsed)

(* What the tools make of the file that is written above the lines below:  *)
(* it is parsed, it is formatted, and what that gave is parsed again.      *)
ToolsKeep(above) ==
    LET lines == above \o Below IN
    \A parsed \in {Parse(lines)} :
    \A formatted \in {FormatFile(lines, parsed)} :
    \A again \in {Parse(formatted.out)} :
       /\ FormatKeepsCode(parsed, formatted, again) /\ FormatStable(lines, formatted, again)
       /\ RefusesForAComment(parsed, formatted)
       /\ ReadsAll(parsed) /\ ResumesAtDeclaration(above, parsed)
=============================================================================
