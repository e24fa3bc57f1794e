------------------------------ MODULE AsmRules ------------------------------
(***************************************************************************)
(* The rule books of RealMedia streams (libstream/rtsp_asmrp.c): which rules  *)
(* hold for a bandwidth.  A book is a sequence of characters; the scanner     *)
(* makes symbols [sym, v] of it, and the parser evaluates them as it goes.    *)
(***************************************************************************)
EXTENDS Integers, Sequences, SequencesExt, Bitwise

Digits == {"0", "1", "2", "3", "4", "5", "6", "7", "8", "9"}
DigitValue == [d \in Digits |-> CHOOSE n \in 0 .. 9 : ToString(n) = d]
Letters == {"B", "D", "p"}              \* of the names the books here use
Blank == " "

Sym(s, v) == [sym |-> s, v |-> v]
EOF == Sym("eof", 0)

-----------------------------------------------------------------------------
(* asmrp_get_sym. *)
Ch(buf) == IF buf = <<>> THEN "" ELSE buf[1]
Skip(buf) == IF buf = <<>> THEN buf ELSE Tail(buf)

RECURSIVE SkipBlanks(_)
SkipBlanks(buf) == IF Ch(buf) = Blank THEN SkipBlanks(Tail(buf)) ELSE buf

RECURSIVE asmrp_number(_, _)
asmrp_number(buf, num) ==
    IF Ch(buf) \in Digits THEN asmrp_number(Tail(buf), num * 10 + DigitValue[Ch(buf)])
    ELSE [sym |-> Sym("num", num), buf |-> buf]

RECURSIVE asmrp_string(_, _)
asmrp_string(buf, str) ==
    IF Ch(buf) \in {"\"", ""} THEN [sym |-> Sym("string", str), buf |-> Skip(buf)]
    ELSE asmrp_string(Tail(buf), Append(str, Ch(buf)))

RECURSIVE asmrp_identifier(_, _)
asmrp_identifier(buf, str) ==
    IF Ch(buf) \in Letters \cup Digits THEN asmrp_identifier(Tail(buf), Append(str, Ch(buf)))
    ELSE [sym |-> Sym("id", str), buf |-> buf]

Doubled == {"=", "&", "|"}
Plain == {"#", ";", ",", "$", "(", ")"}

asmrp_get_sym(buf0) ==
    LET buf1 == SkipBlanks(buf0)
        buf == IF Ch(buf1) = "\\" THEN Tail(buf1) ELSE buf1
        c == Ch(buf)
        next == Ch(Skip(buf))
        Got(s, n) == [sym |-> Sym(s, 0), buf |-> SubSeq(buf, n + 1, Len(buf))]
    IN  CASE c = "" -> [sym |-> EOF, buf |-> <<>>]
          [] c \in Plain -> Got(c, 1)
          [] c \in Doubled -> Got(c, IF next = c THEN 2 ELSE 1)
          [] c \in {"<", ">"} -> IF next = "=" THEN Got(c \o "=", 2) ELSE Got(c, 1)
          [] c = "\"" -> asmrp_string(Tail(buf), <<>>)
          [] c \in Digits -> asmrp_number(buf, 0)
          [] OTHER -> asmrp_identifier(buf, <<>>)

-----------------------------------------------------------------------------
(* The parser asks for one symbol after the other: p is the symbols from the current one on, the
   value just computed, and whether an x_assert has failed, which ends the program. *)
RECURSIVE Symbols(_)
Symbols(buf) ==
    LET g == asmrp_get_sym(buf) IN IF g.sym.sym = "eof" THEN <<EOF>> ELSE <<g.sym>> \o Symbols(g.buf)

Advance(p) == [p EXCEPT !.syms = IF Len(@) > 1 THEN Tail(@) ELSE @]
Expect(p, s) == [p EXCEPT !.ok = @ /\ p.syms[1].sym = s]

asmrp_find_id(id, bandwidth) == IF id = <<"B">> THEN bandwidth ELSE 0

Truth(b) == IF b THEN 1 ELSE 0

Compare(op, a, b) ==
    CASE op = "<" -> Truth(a < b) [] op = "<=" -> Truth(a <= b) [] op = "=" -> Truth(a = b)
      [] op = ">=" -> Truth(a >= b) [] op = ">" -> Truth(a > b)

RECURSIVE asmrp_operand(_, _)
RECURSIVE Comparisons(_, _)
RECURSIVE Connectives(_, _)

asmrp_comp_expression(p, bw) == Comparisons(asmrp_operand(p, bw), bw)
asmrp_condition(p, bw) == Connectives(asmrp_comp_expression(p, bw), bw)

asmrp_operand(p, bw) ==
    CASE p.syms[1].sym = "$" ->
            LET q == Expect(Advance(p), "id")
            IN  Advance([q EXCEPT !.val = asmrp_find_id(q.syms[1].v, bw)])
      [] p.syms[1].sym = "num" -> Advance([p EXCEPT !.val = p.syms[1].v])
      [] p.syms[1].sym = "(" -> Advance(Expect(asmrp_condition(Advance(p), bw), ")"))
      [] OTHER -> [p EXCEPT !.ok = FALSE]

(* The loops of asmrp_comp_expression and asmrp_condition: what is left of an operator is its
   left operand, whatever the operators. *)
Comparisons(p, bw) ==
    IF ~p.ok \/ p.syms[1].sym \notin {"<", "<=", "=", ">=", ">"} THEN p
    ELSE LET q == asmrp_operand(Advance(p), bw)
         IN  Comparisons([q EXCEPT !.val = Compare(p.syms[1].sym, p.val, q.val)], bw)

Connectives(p, bw) ==
    IF ~p.ok \/ p.syms[1].sym \notin {"&", "|"} THEN p
    ELSE LET q == asmrp_comp_expression(Advance(p), bw)
         IN  Connectives([q EXCEPT !.val = IF p.syms[1].sym = "&" THEN p.val & q.val
                                           ELSE p.val | q.val], bw)

asmrp_assignment(p) ==
    IF p.syms[1].sym \in {",", ";"} THEN p
    ELSE LET q == Advance(Expect(p, "id"))
             r == Advance(Expect(q, "="))
         IN  Advance([r EXCEPT !.ok = @ /\ r.syms[1].sym \in {"num", "string", "id"}])

RECURSIVE Assignments(_)
Assignments(p) ==
    IF p.ok /\ p.syms[1].sym = "," THEN Assignments(asmrp_assignment(Advance(p))) ELSE p

asmrp_rule(p, bw) ==
    LET q == IF p.syms[1].sym = "#" THEN Assignments(asmrp_condition(Advance(p), bw))
             ELSE IF p.syms[1].sym = ";" THEN [p EXCEPT !.val = 1]
             ELSE Assignments(asmrp_assignment([p EXCEPT !.val = 1]))
    IN  Advance(Expect(q, ";"))

(* asmrp_eval: the numbers of the rules that hold; <<-1>> stands for the end of the program. *)
RECURSIVE Eval(_, _, _, _)
Eval(p, bw, rule, matches) ==
    IF ~p.ok THEN <<-1>>
    ELSE IF p.syms[1].sym = "eof" THEN matches
    ELSE LET q == asmrp_rule(p, bw)
         IN  Eval(q, bw, rule + 1, IF q.val # 0 THEN Append(matches, rule) ELSE matches)

asmrp_match(rules, bandwidth) == Eval([syms |-> Symbols(rules), val |-> 0, ok |-> TRUE], bandwidth, 0, <<>>)

-----------------------------------------------------------------------------
(* Rule books as they are meant: a rule is [cond, sets]; a condition is a sequence of tests
   [op, at, join], the value compared with the bandwidth and how the test is joined to the
   ones before it. *)
TestHolds(t, bw) == Compare(t.op, bw, t.at) = 1

Holds(cond, bw) ==
    FoldLeft(LAMBDA acc, t : CASE t.join = "&" -> acc /\ TestHolds(t, bw)
                               [] t.join = "|" -> acc \/ TestHolds(t, bw)
                               [] OTHER -> TestHolds(t, bw), TRUE, cond)

Writes(t) ==
    (CASE t.join = "" -> <<>> [] t.join = "&" -> <<"&", "&">> [] t.join = "|" -> <<"|", "|">>)
    \o (IF t.paren THEN <<"(">> ELSE <<>>)
    \o <<"$", "B">> \o (IF t.op = "=" THEN <<"=", "=">> ELSE t.spelt)
    \o <<" ", ToString(t.at)>> \o (IF t.paren THEN <<")">> ELSE <<>>)

Written(rule) ==
    (IF rule.cond = <<>> THEN <<"p", "=", "1">>
     ELSE <<"#">> \o FlattenSeq([i \in DOMAIN rule.cond |-> Writes(rule.cond[i])])
          \o FlattenSeq([i \in 1 .. rule.sets |-> <<",", "D", "=", "\\", "\"", "p", ";", "\"">>]))
    \o <<";">>

Book(rules) == FlattenSeq([i \in DOMAIN rules |-> Written(rules[i])])

(* The rules that are found to hold for a bandwidth are those whose conditions, read from left
   to right, hold for it, in the order of the book; what a rule sets is passed over, strings
   with a semicolon in them too. *)
MatchesAreTheRulesThatHold(rules, bw) ==
    asmrp_match(Book(rules), bw)
      = SelectSeq([i \in 1 .. Len(rules) |-> i - 1], LAMBDA i : Holds(rules[i + 1].cond, bw))
=============================================================================
