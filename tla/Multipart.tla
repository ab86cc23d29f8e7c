------------------------------ MODULE Multipart ------------------------------
(***************************************************************************)
(* The partLimiter of pkg/server/multipart.go: it watches a multipart body *)
(* as it is read, in pieces cut anywhere, and fails the read once a part's *)
(* content passes the limit of its form name.                              *)
(*                                                                         *)
(* A body is a sequence of characters: "n" a newline, "r" a carriage       *)
(* return, "-", "b" the boundary, a blank, the letter of a part's name in  *)
(* its header block, and "x".                                              *)
(***************************************************************************)
EXTENDS Naturals, Integers, Sequences, FiniteSets

CONSTANTS
    Forms,          \* the forms a client sends: their line end, preamble and parts
    limits,         \* the limits by form name, 0 for none
    maxPartHeader,  \* the largest delimiter line or header block
    Pieces          \* the sizes a read may have

VARIABLES
    form,   \* the form sent
    at,     \* the bytes of it read so far
    l       \* the partLimiter

vars == <<form, at, l>>

delim == <<"n", "-", "-", "b">>

\* The bytes a client sends for a form.
NL(f) == IF f.crlf THEN <<"r", "n">> ELSE <<"n">>
Dashes == <<"-", "-", "b">>
PartHead(f, p) == Dashes \o p.blank \o NL(f) \o p.header \o <<p.name>> \o NL(f) \o NL(f)

RECURSIVE PartsFrom(_, _)
PartsFrom(f, i) ==
    IF i > Len(f.parts) THEN Dashes \o <<"-", "-">> \o NL(f)
    ELSE PartHead(f, f.parts[i]) \o f.parts[i].content \o NL(f) \o PartsFrom(f, i + 1)

Body(f) == f.preamble \o PartsFrom(f, 1)

-----------------------------------------------------------------------------
\* bytes.Index: where sub begins in s, the first index being 0; -1 when it does not.
Index(s, sub) ==
    LET here == {i \in 0 .. Len(s) - Len(sub) : SubSeq(s, i + 1, i + Len(sub)) = sub}
    IN  IF here = {} THEN -1 ELSE CHOOSE i \in here : \A j \in here : i <= j

HasPrefix(s, pre) == Len(s) >= Len(pre) /\ SubSeq(s, 1, Len(pre)) = pre
Drop(s, n) == SubSeq(s, n + 1, Len(s))

\* LimitParts wraps the body with the limiter; the newline lets the first delimiter match.
LimitParts ==
    [state |-> "preamble", crlf |-> FALSE, delimSeen |-> FALSE, pending |-> <<"n">>,
     name |-> "", limit |-> 0, count |-> 0, err |-> ""]

\* content counts n bytes of the current part, failing past its limit.
Content(x, n) ==
    IF x.state # "content" \/ x.limit <= 0 THEN x
    ELSE [x EXCEPT !.count = @ + n, !.err = IF x.count + n > x.limit THEN x.name ELSE @]

\* startPart takes the limit of the form name in a header block, its last character.
StartPart(x, header) ==
    LET name == IF header = <<>> THEN "" ELSE header[Len(header)]
    IN  [x EXCEPT !.name = name, !.count = 0, !.limit = IF name \in DOMAIN limits THEN limits[name] ELSE 0]

\* headerEnd: where the header block ends and the size of the blank line, -1 while there is none.
HeaderEnd(s) ==
    LET crlf == Index(s, <<"r", "n", "r", "n">>)
        lf == Index(s, <<"n", "n">>)
    IN  IF HasPrefix(s, <<"r", "n">>) THEN <<0, 2>>
        ELSE IF HasPrefix(s, <<"n">>) THEN <<0, 1>>
        ELSE IF crlf >= 0 /\ (lf < 0 \/ crlf < lf) THEN <<crlf, 4>>
        ELSE IF lf >= 0 THEN <<lf, 2>>
        ELSE <<-1, 0>>

\* Faulty: a carriage return at the end of what was read is not held back.
Keep_delim(x) == IF Len(x.pending) < Len(delim) THEN Len(x.pending) ELSE Len(delim)

\* What may be the start of a delimiter, and the carriage return before it.
Keep(x) == IF Len(x.pending) < Len(delim) + 1 THEN Len(x.pending) ELSE Len(delim) + 1

GiveUp(x) == IF Len(x.pending) > maxPartHeader THEN [x EXCEPT !.state = "epilogue"] ELSE x

\* One turn of weigh's loop over what is pending.
InContent(x) ==
    LET i == Index(x.pending, delim)
        after == i + Len(delim)
        n == IF x.crlf /\ i > 0 /\ x.pending[i] = "r" THEN i - 1 ELSE i
    IN  IF i < 0 \/ after = Len(x.pending)
        THEN [more |-> FALSE, x |-> [Content(x, Len(x.pending) - Keep(x)) EXCEPT
                                        !.pending = Drop(x.pending, Len(x.pending) - Keep(x))]]
        ELSE IF x.pending[after + 1] \notin {"-", " ", "r", "n"}
        THEN [more |-> TRUE, x |-> [Content(x, i + 1) EXCEPT !.pending = Drop(x.pending, i + 1)]]
        ELSE [more |-> TRUE, x |-> [Content(x, n) EXCEPT !.pending = Drop(x.pending, after), !.state = "delim"]]

InDelimLine(x) ==
    LET i == Index(x.pending, <<"n">>)
        y == IF x.delimSeen THEN x
             ELSE [x EXCEPT !.delimSeen = TRUE, !.crlf = i > 0 /\ x.pending[i] = "r"]
        closing == HasPrefix(x.pending, <<"-", "-">>)
    IN  IF i < 0 THEN [more |-> FALSE, x |-> GiveUp(x)]
        ELSE [more |-> ~closing,
              x |-> [y EXCEPT !.pending = Drop(x.pending, i + 1), !.state = IF closing THEN "epilogue" ELSE "headers"]]

InHeaders(x) ==
    LET end == HeaderEnd(x.pending)
    IN  IF end[1] < 0 THEN [more |-> FALSE, x |-> GiveUp(x)]
        ELSE [more |-> TRUE,
              x |-> [StartPart(x, SubSeq(x.pending, 1, end[1])) EXCEPT
                        !.pending = Drop(x.pending, end[1] + end[2]), !.state = "content"]]

Turn(x) ==
    CASE x.state \in {"preamble", "content"} -> InContent(x)
      [] x.state = "delim" -> InDelimLine(x)
      [] x.state = "headers" -> InHeaders(x)
      [] OTHER -> [more |-> FALSE, x |-> x]

\* weigh turns until it needs more bytes, or the part is past its limit.
RECURSIVE Turns(_)
Turns(x) == LET t == Turn(x) IN IF t.x.err # "" \/ ~t.more THEN t.x ELSE Turns(t.x)

Weigh(x, b) == Turns([x EXCEPT !.pending = @ \o b])

-----------------------------------------------------------------------------
Init == form \in Forms /\ at = 0 /\ l = LimitParts

\* Read hands out what the body's own Read returned, unless that passes a limit; then, and
\* from then on, it fails.
Read ==
    /\ l.err = ""
    /\ \E n \in Pieces :
           LET b == Body(form)
               to == IF at + n > Len(b) THEN Len(b) ELSE at + n
               x == IF l.state = "epilogue" THEN l ELSE Weigh(l, SubSeq(b, at + 1, to))
           IN  /\ at < Len(b)
               /\ l' = x
               /\ at' = IF x.err # "" THEN at ELSE to
    /\ UNCHANGED form

Next == Read

Spec == Init /\ [][Next]_vars

-----------------------------------------------------------------------------
\* Where a part's content begins in the body.
Begins(f, i) == Len(Body(f)) - Len(PartsFrom(f, i)) + Len(PartHead(f, f.parts[i]))

LimitOf(p) == IF p.name \in DOMAIN limits THEN limits[p.name] ELSE 0

TooLarge(f) == {i \in DOMAIN f.parts : LimitOf(f.parts[i]) > 0 /\ Len(f.parts[i].content) > LimitOf(f.parts[i])}

\* The bytes of part i's content that were handed out.
HandedOut(i) ==
    LET n == at - Begins(form, i)
    IN  IF n <= 0 THEN 0 ELSE IF n > Len(form.parts[i].content) THEN Len(form.parts[i].content) ELSE n

Followed == \A i \in DOMAIN form.parts : Len(form.parts[i].header) < maxPartHeader - 2

\* However the body is cut into reads, a form is refused exactly when one of its parts is larger
\* than the limit of its name, the first such part being named; of that part no more is handed
\* out than its limit and what may be the start of a delimiter (partLimiter.Read, weigh).
PartsHeldToLimits ==
    Followed =>
        /\ l.err # "" => \E i \in TooLarge(form) : l.err = form.parts[i].name /\ \A j \in TooLarge(form) : i <= j
        /\ at = Len(Body(form)) => TooLarge(form) = {}
        /\ \A i \in TooLarge(form) : HandedOut(i) <= LimitOf(form.parts[i]) + Len(delim) + 1
=============================================================================
