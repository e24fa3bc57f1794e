-------------------------------- MODULE Tree --------------------------------
(***************************************************************************)
(* tree<T> (libhtmlparser/tree.h) under every sequence of its operations,     *)
(* each called as its assertions and comments ask.  The iterators a caller    *)
(* holds are places in the tree, which call records as paths.                 *)
(***************************************************************************)
EXTENDS TreeLinks

CONSTANTS
    Data,
    MaxNodes,       \* nodes of a tree that any operation is called on
    MaxMerged       \* nodes of what merge makes of it; then nodes are erased first

MaxDepth == 3

VARIABLES heap, call
vars == <<heap, call>>

Nodes == Used(heap)
Fits(more) == Cardinality(Nodes) + more <= MaxNodes
Below(a) == ToSet(Subtree(heap, a))

RECURSIVE Path(_, _)
Path(t, a) ==
    LET parent == t[a].parent
    IN  IF parent = NULL THEN <<Place(Tops(t), a)>>
        ELSE Append(Path(t, parent), Place(Children(t, parent), a))

(* The forest the links stand for. *)
RECURSIVE TreeAt(_, _)
TreeAt(t, a) ==
    LET kids == Children(t, a) IN [x |-> t[a].data, below |-> [i \in DOMAIN kids |-> TreeAt(t, kids[i])]]
Shape(t) == LET tops == Tops(t) IN [i \in DOMAIN tops |-> TreeAt(t, tops[i])]

-----------------------------------------------------------------------------
Makes(c, t) == call' = c /\ heap' = t

Init == heap = EmptyTree /\ call = <<"none">>

InsertTop == \E x \in Data : Fits(1) /\ Makes(<<"insert_top", x>>, insert(heap, NULL, x))

AddLeaf ==
    \E a \in Nodes, x \in Data :
        LET p == Path(heap, a)
        IN  /\ Fits(1)
            /\ \/ Makes(<<"append_child", p, x>>, append_child(heap, a, x))
               \/ Makes(<<"insert_at_end", p, x>>, insert_at_end(heap, a, x))
               \/ Makes(<<"insert", p, x>>, insert(heap, a, x))
               \/ Makes(<<"insert_after", p, x>>, insert_after(heap, a, x))

(* A copy is made of a subtree that does not hold the place the copy goes to. *)
AddCopy ==
    \E a, b \in Nodes :
        LET p == Path(heap, a)
            q == Path(heap, b)
            more == Cardinality(Below(b))
        IN  /\ a \notin Below(b)
            /\ Fits(more)
            /\ \/ Makes(<<"append_subtree", p, q>>, append_subtree(heap, a, b))
               \/ Makes(<<"insert_subtree", p, q>>, insert_subtree(heap, a, b))
               \/ b \notin Below(a) /\ Makes(<<"replace", p, q>>, replace_here(heap, a, b))
               \/ /\ heap[b].first_child # NULL /\ b \notin Below(a)
                  /\ Makes(<<"replace_range", p, q>>, replace_range(heap, <<a>>, Children(heap, b)))

(* Neither of the nodes whose children are merged holds the other. *)
Merge ==
    \E a, b \in Nodes, d \in BOOLEAN :
        LET t == merge(heap, a, b, d)
        IN  /\ a \notin Below(b) /\ b \notin Below(a)
            /\ Cardinality(Used(t)) <= MaxMerged
            /\ Makes(<<"merge", Path(heap, a), Path(heap, b), d>>, t)

Erase ==
    \/ Nodes # {} /\ Makes(<<"clear">>, clear(heap))
    \/ \E a \in Nodes :
        \/ Makes(<<"erase", Path(heap, a)>>, erase(heap, a))
        \/ Makes(<<"erase_children", Path(heap, a)>>, erase_children(heap, a))

(* The feet are no sibling to swap with. *)
Rearrange ==
    \/ \E a \in Nodes :
        LET p == Path(heap, a)
        IN  \/ Makes(<<"flatten", p>>, flatten(heap, a))
            \/ heap[a].next_sibling # feet /\ Makes(<<"swap", p>>, swap(heap, a))
            \/ \E d \in BOOLEAN : Makes(<<"sort", p, d>>, sort(heap, Children(heap, a), d))
    \/ \E d \in BOOLEAN : Makes(<<"sort_top", d>>, sort(heap, Tops(heap), d))

(* What is moved does not hold the place it moves to, nor is it freed with what it replaces; on
   top of a sibling next to it, the links it is given are those it had. *)
Move ==
    \E a, b \in Nodes :
        LET p == Path(heap, a)
            q == Path(heap, b)
            apart == a \notin Below(b) /\ b \notin Below(a)
        IN  \/ /\ a = b \/ a \notin Below(b)
               /\ Makes(<<"move_before", p, q>>, move_before(heap, a, b))
            \/ /\ a = b \/ apart
               /\ b \notin { heap[a].prev_sibling, heap[a].next_sibling }
               /\ Makes(<<"move_ontop", p, q>>, move_ontop(heap, a, b))
            \/ /\ a \notin Below(b) /\ heap[b].first_child # NULL
               /\ LET kids == Children(heap, b)
                  IN  Makes(<<"reparent", p, q>>, reparent(heap, a, kids[1], Last(kids)))

Next ==
    \/ Fits(0) /\ (InsertTop \/ AddLeaf \/ AddCopy \/ Merge \/ Rearrange \/ Move)
    \/ Erase

Spec == Init /\ [][Next]_vars

-----------------------------------------------------------------------------
Pointers == Addresses \cup {NULL, head, feet}
TypeOK ==
    heap \in [Addresses \cup {head, feet} ->
                [data : Data \cup {-1, 0}, parent : Pointers, first_child : Pointers,
                 last_child : Pointers, prev_sibling : Pointers, next_sibling : Pointers]]

Mutual ==
    /\ \A a \in Nodes \cup {head} :
        heap[a].next_sibling # NULL => heap[heap[a].next_sibling].prev_sibling = a
    /\ \A a \in Nodes :
        LET kids == Children(heap, a)
        IN  /\ \A i \in DOMAIN kids : heap[kids[i]].parent = a /\ child(heap, a, index(heap, kids[i])) = kids[i]
            /\ heap[a].last_child = IF kids = <<>> THEN NULL ELSE Last(kids)
            /\ kids # <<>> => heap[kids[1]].prev_sibling = NULL
    /\ \A a \in ToSet(Tops(heap)) : heap[a].parent = NULL

VisitsAll(t) ==
    LET pre == PreOrder(t)
        post == PostOrder(t)
    IN  /\ ToSet(pre) = Used(t) /\ Len(pre) = Cardinality(Used(t))
        /\ ToSet(post) = Used(t) /\ Len(post) = Cardinality(Used(t))
        /\ \A i \in 2 .. Len(pre) : PrePrev(t, pre[i]) = pre[i - 1]
        /\ \A i \in 2 .. Len(post) : PostPrev(t, post[i]) = post[i - 1]

(* The nodes of a depth, from left to right.  A hole is a node with children but none below it at
   that depth (tree.h:30-31). *)
AtDepth(t, d) == SelectSeq(PreOrder(t), LAMBDA a : depth(t, a) = d)
Hole(t, a, d) ==
    /\ t[a].first_child # NULL /\ depth(t, a) < d
    /\ \A b \in ToSet(Subtree(t, a)) : depth(t, b) # d

(* The iterators of a fixed depth.  Forwards, they come to every node of the depth, over holes too,
   if they begin at all: they do not where a hole comes before the first node of the depth.
   Backwards they come to the node before, or end where it has another grandparent. *)
FixedDepth(t) ==
    \A d \in 0 .. MaxDepth :
        LET row == AtDepth(t, d)
            pre == PreOrder(t)
            first == begin_fixed(t, begin(t), d)
            before == IF row = <<>> THEN pre ELSE SubSeq(pre, 1, Place(pre, row[1]))
            Grandparent(a) == IF d < 2 THEN NULL ELSE t[t[a].parent].parent
        IN  /\ first \in {NULL, feet} => row = <<>> \/ \E a \in ToSet(before) : Hole(t, a, d)
            /\ first \notin {NULL, feet} => Walk(FixedNext, t, first, IF d = 0 THEN feet ELSE NULL) = row
            /\ \A i \in DOMAIN row :
                FixedPrev(t, row[i]) =
                    IF i > 1 /\ Grandparent(row[i - 1]) = Grandparent(row[i]) THEN row[i - 1] ELSE NULL

(* Whatever operations came before, every link has its counterpart; the iterators visit each node
   once, backwards in the order opposite to forwards; subtrees compare equal when they are; and a
   copy is the same forest. *)
TreeInv ==
    /\ TypeOK
    /\ Mutual
    /\ VisitsAll(heap)
    /\ \A a, b \in Nodes : equal_subtree(heap, a, b) <=> TreeAt(heap, a) = TreeAt(heap, b)
    /\ Shape(copy(heap)) = Shape(heap)

(* The links are those of the forest the operations promise. *)
ForestOf == INSTANCE Forest WITH forest <- Shape(heap)
ImplementsForest == ForestOf!Spec
=============================================================================
