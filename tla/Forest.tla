------------------------------- MODULE Forest -------------------------------
(***************************************************************************)
(* What tree<T> promises: a sequence of trees, each with its data and the     *)
(* sequence of the trees below it.  A place is a path, the indices from the   *)
(* top down; every operation says what the forest is after it.                *)
(***************************************************************************)
EXTENDS Integers, Sequences, SequencesExt

CONSTANT Data

VARIABLES forest, call
vars == <<forest, call>>

Leaf(x) == [x |-> x, below |-> <<>>]

RECURSIVE Paths(_)
Paths(f) ==
    UNION { { <<i>> } \cup { <<i>> \o p : p \in Paths(f[i].below) } : i \in DOMAIN f }

Parent(p) == Front(p)
Index(p) == Last(p)

(* The row of siblings below a path, a tree, and a forest with a row changed. *)
RECURSIVE Row(_, _)
Row(f, p) == IF p = <<>> THEN f ELSE Row(f[Head(p)].below, Tail(p))
At(f, p) == Row(f, Parent(p))[Index(p)]

RECURSIVE SetRow(_, _, _)
SetRow(f, p, row) ==
    IF p = <<>> THEN row ELSE [f EXCEPT ![Head(p)].below = SetRow(@, Tail(p), row)]

Put(f, p, i, trees) ==
    LET row == Row(f, p) IN SetRow(f, p, SubSeq(row, 1, i - 1) \o trees \o SubSeq(row, i, Len(row)))
Cut(f, p) == SetRow(f, Parent(p), RemoveAt(Row(f, Parent(p)), Index(p)))
Set(f, p, tree) == SetRow(f, Parent(p), [Row(f, Parent(p)) EXCEPT ![Index(p)] = tree])
AtEnd(f, p) == Len(Row(f, p)) + 1

(* Where a path leads once the tree at another is cut. *)
AfterCut(p, cut) ==
    IF Len(p) >= Len(cut) /\ IsPrefix(Parent(cut), p) /\ p[Len(cut)] > Index(cut)
    THEN [p EXCEPT ![Len(cut)] = @ - 1] ELSE p

RECURSIVE Sorted(_, _)
Sorted(row, deep) ==
    LET Before(i, j) == row[i].x < row[j].x \/ (row[i].x = row[j].x /\ i < j)
        order == SortSeq([i \in DOMAIN row |-> i], Before)
        Inside(t) == IF deep THEN [t EXCEPT !.below = Sorted(@, TRUE)] ELSE t
    IN  [i \in DOMAIN row |-> Inside(row[order[i]])]

(* The trees of one row joined into another: what is there already is not added, or only once more
   if it is a leaf and leaves are duplicated.  To an empty row they all go as they are, equal ones
   too. *)
RECURSIVE Merged(_, _, _)
Merged(to, from, duplicate) ==
    LET tree == Head(from)
        same == SelectSeq([i \in DOMAIN to |-> i], LAMBDA i : to[i].x = tree.x)
        joined == IF same = <<>> THEN Append(to, tree)
                  ELSE IF tree.below # <<>>
                  THEN [to EXCEPT ![same[1]].below = Merged(@, tree.below, duplicate)]
                  ELSE IF duplicate THEN Append(to, Leaf(tree.x)) ELSE to
    IN  IF to = <<>> THEN from ELSE IF from = <<>> THEN to ELSE Merged(joined, Tail(from), duplicate)

-----------------------------------------------------------------------------
Makes(c, f) == call' = c /\ forest' = f

Init == forest = <<>> /\ call = <<"none">>

InsertTop == \E x \in Data : Makes(<<"insert_top", x>>, Append(forest, Leaf(x)))

AddLeaf ==
    \E p \in Paths(forest), x \in Data :
        \/ Makes(<<"append_child", p, x>>, Put(forest, p, AtEnd(forest, p), <<Leaf(x)>>))
        \/ Makes(<<"insert_at_end", p, x>>, Put(forest, p, AtEnd(forest, p), <<Leaf(x)>>))
        \/ Makes(<<"insert", p, x>>, Put(forest, Parent(p), Index(p), <<Leaf(x)>>))
        \/ Makes(<<"insert_after", p, x>>, Put(forest, Parent(p), Index(p) + 1, <<Leaf(x)>>))

AddCopy ==
    \E p, q \in Paths(forest) :
        \/ Makes(<<"append_subtree", p, q>>, Put(forest, p, AtEnd(forest, p), <<At(forest, q)>>))
        \/ Makes(<<"insert_subtree", p, q>>, Put(forest, Parent(p), Index(p), <<At(forest, q)>>))
        \/ Makes(<<"replace", p, q>>, Set(forest, p, At(forest, q)))
        \/ Makes(<<"replace_range", p, q>>,
                 Put(Cut(forest, p), Parent(p), Index(p), Row(forest, q)))
        \/ \E d \in BOOLEAN : Makes(<<"merge", p, q, d>>,
                 SetRow(forest, p, Merged(Row(forest, p), Row(forest, q), d)))

Erase ==
    \/ Makes(<<"clear">>, <<>>)
    \/ \E p \in Paths(forest) :
        \/ Makes(<<"erase", p>>, Cut(forest, p))
        \/ Makes(<<"erase_children", p>>, SetRow(forest, p, <<>>))

Rearrange ==
    \/ \E p \in Paths(forest) :
        \/ Makes(<<"flatten", p>>,
                 Put(SetRow(forest, p, <<>>), Parent(p), Index(p) + 1, Row(forest, p)))
        \/ Makes(<<"swap", p>>,
                 LET row == Row(forest, Parent(p))
                     i == Index(p)
                 IN  IF i = Len(row) THEN forest
                     ELSE SetRow(forest, Parent(p), [row EXCEPT ![i] = row[i + 1], ![i + 1] = row[i]]))
        \/ \E d \in BOOLEAN : Makes(<<"sort", p, d>>, SetRow(forest, p, Sorted(Row(forest, p), d)))
    \/ \E d \in BOOLEAN : Makes(<<"sort_top", d>>, Sorted(forest, d))

Move ==
    \E p, q \in Paths(forest) :
        LET tree == At(forest, q)
            to == AfterCut(p, q)
            rest == Cut(forest, q)
        IN  \/ Makes(<<"move_before", p, q>>,
                     IF p = q THEN forest ELSE Put(rest, Parent(to), Index(to), <<tree>>))
            \/ Makes(<<"move_ontop", p, q>>, IF p = q THEN forest ELSE Set(rest, to, tree))
            \/ Makes(<<"reparent", p, q>>,
                     LET bare == SetRow(forest, q, <<>>)
                     IN  Put(bare, p, AtEnd(bare, p), Row(forest, q)))

Next == InsertTop \/ AddLeaf \/ AddCopy \/ Erase \/ Rearrange \/ Move

Spec == Init /\ [][Next]_vars
=============================================================================
