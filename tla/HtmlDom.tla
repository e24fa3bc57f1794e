------------------------------ MODULE HtmlDom ------------------------------
(***************************************************************************)
(* The HTML parser: the pieces ParserSax cuts a page into, the tree ParserDom *)
(* builds of them, and the attributes of a tag.  A page is a sequence of      *)
(* characters, of which only the kinds the parser tells apart occur: letters, *)
(* a quote, a space and the signs of the syntax.  The one-letter names "S"    *)
(* and "P" stand for a literal element (script, style, xmp, textarea) and for *)
(* plaintext, whose end tag is not looked for.                                *)
(***************************************************************************)
EXTENDS Integers, Sequences, FiniteSets, SequencesExt

CONSTANT MaxPieces      \* pieces of a page; named, to bound the tree

Links == INSTANCE TreeLinks WITH Size <- 2 * MaxPieces + 3

Literals == {"S", "P"}
Letters == {"a", "b", "x", "h"} \cup Literals
Quote == "q"
Space == " "

(* The character at a position; behind the end of a page, the terminator. *)
Char(d, i) == IF i \in DOMAIN d THEN d[i] ELSE "end"
End(d) == Len(d) + 1

(* The first position from i on that is the end, or whose character is in a set, or is not. *)
RECURSIVE Find(_, _, _)
Find(d, i, set) == IF i >= End(d) \/ Char(d, i) \in set THEN i ELSE Find(d, i + 1, set)
RECURSIVE Skip(_, _, _)
Skip(d, i, set) == IF Char(d, i) \in set THEN Skip(d, i + 1, set) ELSE i

-----------------------------------------------------------------------------
(* skipHtmlTag: to behind the > that is in no quoted value.  A quote that is never closed is not
   a quote. *)
RECURSIVE skipHtmlTag(_, _)
skipHtmlTag(d, c) ==
    LET at == Find(d, c, {">", "="})
        v == Skip(d, at + 1, {Space})
        close == Find(d, v + 1, {Quote})
    IN  IF at = End(d) THEN at
        ELSE IF d[at] = ">" THEN at + 1
        ELSE IF v = End(d) THEN v
        ELSE IF d[v] # Quote THEN skipHtmlTag(d, v)
        ELSE skipHtmlTag(d, IF close = End(d) THEN v + 1 ELSE close + 1)

(* skipHtmlComment: to behind the > that follows two dashes, with spaces between. *)
RECURSIVE skipHtmlComment(_, _)
skipHtmlComment(d, c) ==
    LET after == Skip(d, c + 2, {Space})
    IN  IF c >= End(d) THEN End(d)
        ELSE IF Char(d, c) = "-" /\ Char(d, c + 1) = "-" /\ after = End(d) THEN after
        ELSE IF Char(d, c) = "-" /\ Char(d, c + 1) = "-" /\ Char(d, after) = ">" THEN after + 1
        ELSE skipHtmlComment(d, c + 1)

OpensComment(d, c) == Char(d, c) = "!" /\ Char(d, c + 1) = "-" /\ Char(d, c + 2) = "-"

(* Inside of a literal element, the position of its end tag. *)
RECURSIVE LiteralEnd(_, _, _)
LiteralEnd(d, c, literal) ==
    LET open == Find(d, c, {"<"})
        named == Char(d, open + 1) = "/" /\ Char(d, open + 2) = literal
        close == Skip(d, open + 3, {Space})
    IN  IF open = End(d) THEN open
        ELSE IF named /\ literal # "P" /\ Char(d, close) = ">" THEN open
        ELSE IF OpensComment(d, open + 1)
             THEN LiteralEnd(d, skipHtmlComment(d, open + 4), literal)
        ELSE LiteralEnd(d, IF Char(d, open + 1) = "/" THEN open + 2 ELSE open + 1, literal)

(* The tag from b to c: its name, and whether it is an end tag. *)
TagPiece(d, b, c) ==
    LET isEnd == Char(d, b + 1) = "/"
        from == IF isEnd THEN b + 2 ELSE b + 1
    IN  [kind |-> IF isEnd THEN "end" ELSE "tag", from |-> b, to |-> c,
         name |-> SubSeq(d, from, Skip(d, from, Letters) - 1)]

Piece(kind, b, c) == [kind |-> kind, from |-> b, to |-> c, name |-> <<>>]

(* What begins with the < at a position, <<>> if it is only text. *)
Markup(d, c) ==
    LET next == Char(d, c + 1)
    IN  IF next \in Letters \/ (next = "/" /\ Char(d, c + 2) \in Letters)
        THEN <<TagPiece(d, c, skipHtmlTag(d, c + 1))>>
        ELSE IF OpensComment(d, c + 1) THEN <<Piece("comment", c, skipHtmlComment(d, c + 4))>>
        ELSE IF next \in {"/", "!", "?"} THEN <<Piece("comment", c, skipHtmlTag(d, c + 1))>>
        ELSE <<>>

Content(b, c) == IF b = c THEN <<>> ELSE <<Piece("text", b, c)>>

(* parse: the pieces of a page, in the order of the callbacks.  The text before the < at c begins
   at begin. *)
Opened(tag) ==
    IF tag.kind = "tag" /\ Len(tag.name) = 1 /\ tag.name[1] \in Literals THEN tag.name[1] ELSE ""

NextOpen(d, c, literal) == Find(d, IF literal = "" THEN c ELSE LiteralEnd(d, c, literal), {"<"})

RECURSIVE Pieces(_, _, _, _)
Pieces(d, begin, c, found) ==
    IF c = End(d) THEN Content(begin, c)
    ELSE IF found = <<>> THEN
         LET next == NextOpen(d, c + 1, "") IN Pieces(d, begin, next, Markup(d, next))
    ELSE LET tag == found[1]
             next == NextOpen(d, tag.to, Opened(tag))
         IN  Content(begin, c) \o found \o Pieces(d, tag.to, next, Markup(d, next))

parse(d) == LET first == NextOpen(d, 1, "") IN Pieces(d, 1, first, Markup(d, first))

-----------------------------------------------------------------------------
(* ParserDom.  The data of a node of the tree is the number of its piece, 0 for the root; where
   a piece begins and how long it is are the sums mCurrentOffset keeps. *)
offset(p, i) == FoldLeft(LAMBDA sum, q : sum + q.to - q.from, 0, SubSeq(p, 1, i - 1))

DomNode(k, off, len) == [kind |-> k, offset |-> off, length |-> len, closed |-> FALSE]

beginParsing ==
    [tree |-> Links!insert(Links!EmptyTree, Links!feet, 0), current |-> 1, nodes |-> <<>>, length |-> 0]

Appended(s, i) == [s EXCEPT !.tree = Links!append_child(s.tree, s.current, i)]

(* The nodes from the current one up to below the root. *)
RECURSIVE Open(_, _)
Open(tree, a) ==
    IF a = Links!begin(tree) THEN <<>> ELSE <<a>> \o Open(tree, tree[a].parent)

(* foundTag of an end tag: the innermost open tag of its name is closed, those inside of it are
   flattened; without one it is a comment. *)
ClosesOnly(s, p, i) ==
    LET open == Open(s.tree, s.current)
        same == SelectSeq([k \in DOMAIN open |-> k], LAMBDA k : p[s.tree[open[k]].data].name = p[i].name)
        at == open[same[1]]
        node == s.tree[at].data
        len == offset(p, i) + p[i].to - p[i].from - s.nodes[node].offset
    IN  IF same = <<>> THEN [Appended(s, i) EXCEPT !.nodes[i].kind = "comment"]
        ELSE [s EXCEPT !.current = s.tree[at].parent,
                       !.nodes[node].length = len, !.nodes[node].closed = TRUE]

Closes(s, p, i) ==
    LET open == Open(s.tree, s.current)
        same == SelectSeq([k \in DOMAIN open |-> k], LAMBDA k : p[s.tree[open[k]].data].name = p[i].name)
        at == open[same[1]]
        node == s.tree[at].data
        len == offset(p, i) + p[i].to - p[i].from - s.nodes[node].offset
    IN  IF same = <<>> THEN [Appended(s, i) EXCEPT !.nodes[i].kind = "comment"]
        ELSE [s EXCEPT !.tree = FoldLeft(Links!flatten, @, SubSeq(open, 1, same[1] - 1)),
                       !.current = s.tree[at].parent,
                       !.nodes[node].length = len, !.nodes[node].closed = TRUE]

(* foundText, foundComment and foundTag of the piece i. *)
Found(s0, p, i) ==
    LET s == [s0 EXCEPT !.nodes = Append(@, DomNode(p[i].kind, offset(p, i), p[i].to - p[i].from))]
        added == Appended(s, i)
    IN  CASE p[i].kind = "end" -> Closes(s, p, i)
          [] p[i].kind = "tag" -> [added EXCEPT !.current = added.tree[s.current].last_child]
          [] OTHER -> added

endParsing(s, p) == [s EXCEPT !.length = offset(p, Len(p) + 1)]

Dom(p) ==
    endParsing(FoldLeft(LAMBDA s, i : Found(s, p, i), beginParsing, [i \in DOMAIN p |-> i]), p)

-----------------------------------------------------------------------------
(* parseAttributes: the first value of each key of a tag. *)
Trimmed(d, b, e) ==
    LET inner == SubSeq(d, b, e - 1)
        solid == { i \in DOMAIN inner : inner[i] # Space }
    IN  IF solid = {} THEN <<>>
        ELSE SubSeq(inner, CHOOSE i \in solid : \A j \in solid : i <= j,
                           CHOOSE i \in solid : \A j \in solid : i >= j)

RECURSIVE Attributes(_, _, _)
Attributes(d, p, found) ==
    LET key == Skip(d, Find(d, p, Letters \cup {Space}), {Space})
        rest == Skip(d, key, Letters \cup {"-"})
        sign == Skip(d, rest, {Space})
        v == Skip(d, sign + 1, {Space})
        closed == Find(d, v + 1, {Quote})
        close == IF closed < End(d) THEN closed
                 ELSE IF Find(d, v + 1, {">"}) = End(d) THEN End(d) ELSE Find(d, v + 1, {Space, ">"})
        bare == Find(d, v, {Space, ">"})
        With(val) == IF \E a \in found : a.key = SubSeq(d, key, rest - 1) THEN found
                     ELSE found \cup {[key |-> SubSeq(d, key, rest - 1), val |-> val]}
    IN  IF Char(d, p) \in {"end", ">"} THEN found
        ELSE IF Char(d, sign) # "=" THEN Attributes(d, sign, With(<<>>))
        ELSE IF Char(d, v) # Quote THEN Attributes(d, bare, With(SubSeq(d, v, bare - 1)))
        ELSE IF close = End(d) THEN found
        ELSE Attributes(d, close + 1, With(Trimmed(d, v + 1, close)))

parseAttributes(d) ==
    LET name == Skip(d, Find(d, 1, {"<"}) + 1, {Space})
    IN  IF Char(d, name) \notin Letters THEN {}
        ELSE Attributes(d, Skip(d, Skip(d, name, Letters), {Space}), {})

-----------------------------------------------------------------------------
(* The pieces of a page are the whole page in order, so that the offsets are places in it. *)
AreThePage(d, p) ==
    /\ p # <<>> => p[1].from = 1 /\ Last(p).to = End(d)
    /\ \A i \in DOMAIN p : p[i].from < p[i].to /\ offset(p, i) = p[i].from - 1
    /\ \A i \in 2 .. Len(p) : p[i].from = p[i - 1].to

PiecesAreThePage(d) == AreThePage(d, parse(d))

(* The tree has the pieces in the order of the page, every tag once; what is below an element is
   within it, if it was closed, and nothing is below a tag that was never closed but for those
   still open at the end; the copy the crawler walks through is the same. *)
DataOf(tree) == LET walk == Links!PreOrder(tree) IN [i \in DOMAIN walk |-> tree[walk[i]].data]

NothingStaysBelow(s) ==
    LET Ends(i) == s.nodes[i].offset + s.nodes[i].length IN
    \A a \in ToSet(Links!PreOrder(s.tree)) :
        LET up == s.tree[a].parent
            k == s.tree[up].data
        IN  up # Links!NULL /\ up # Links!begin(s.tree) =>
                IF s.nodes[k].closed THEN Ends(s.tree[a].data) <= Ends(k)
                ELSE up \in ToSet(Open(s.tree, s.current))

IsThePage(d, p, s, order) ==
    /\ order = SetToSortSeq(ToSet(order), <)
    /\ s.length = Len(d)
    /\ { i \in DOMAIN p : p[i].kind # "end" } \subseteq ToSet(order)
    /\ NothingStaysBelow(s)
    /\ DataOf(Links!copy(s.tree)) = order

BuildsThePage(d, p, s) == IsThePage(d, p, s, DataOf(s.tree))
TreeIsThePage(d) == LET p == parse(d) IN BuildsThePage(d, p, Dom(p))

(* A tag is one piece, and its attributes are those that were written, the first of each key. *)
Written(a) ==
    <<Space>> \o a.key \o
    (CASE a.style = "none" -> <<>>
       [] a.style = "bare" -> <<"=">> \o a.val
       [] a.style = "quoted" -> <<"=", Quote>> \o a.val \o <<Quote>>
       [] a.style = "spaced" -> <<Space, "=", Space, Quote, Space>> \o a.val \o <<Space, Quote>>)

AttributesReadBack(attrs) ==
    LET d == <<"<", "a">> \o FlattenSeq([i \in DOMAIN attrs |-> Written(attrs[i])]) \o <<">">>
        first == { i \in DOMAIN attrs : \A j \in 1 .. i - 1 : attrs[j].key # attrs[i].key }
    IN  /\ parse(d) = <<[kind |-> "tag", from |-> 1, to |-> End(d), name |-> <<"a">>]>>
        /\ parseAttributes(d) =
               { [key |-> attrs[i].key, val |-> IF attrs[i].style = "none" THEN <<>> ELSE attrs[i].val] : i \in first }
=============================================================================
