------------------------------ MODULE TreeLinks ------------------------------
(***************************************************************************)
(* The nodes of tree<T> (libhtmlparser/tree.h) and its operations on their    *)
(* links.  A heap maps the addresses of nodes to their contents, Free where   *)
(* nothing is allocated; head and feet hold the list of the top nodes.        *)
(***************************************************************************)
EXTENDS Integers, Sequences, FiniteSets, SequencesExt

CONSTANT Size           \* addresses of nodes; named, to bound the heap

NULL == 0
head == -1
feet == -2
Addresses == 1 .. Size

Node(data, parent, prev, next) ==
    [data |-> data, parent |-> parent, first_child |-> NULL, last_child |-> NULL,
     prev_sibling |-> prev, next_sibling |-> next]
Free == Node(-1, NULL, NULL, NULL)

(* head_initialise_. *)
EmptyTree == (head :> Node(0, NULL, NULL, feet)) @@ (feet :> Node(0, NULL, head, NULL))
                @@ [a \in Addresses |-> Free]

Used(t) == { a \in Addresses : t[a] # Free }
Room(t) == Size - Cardinality(Used(t))
Allocate(t) == CHOOSE a \in Addresses : t[a] = Free /\ \A b \in Addresses : t[b] = Free => a <= b

(* Assignments through pointers. *)
SetNext(t, a, v) == [t EXCEPT ![a].next_sibling = v]
SetPrev(t, a, v) == [t EXCEPT ![a].prev_sibling = v]
SetFirst(t, a, v) == [t EXCEPT ![a].first_child = v]
SetLast(t, a, v) == [t EXCEPT ![a].last_child = v]

(* What comes before a node leads to v, and what comes after it leads back to v. *)
LeadTo(t, parent, prev, v) == IF prev = NULL THEN SetFirst(t, parent, v) ELSE SetNext(t, prev, v)
LeadBack(t, parent, next, v) == IF next = NULL THEN SetLast(t, parent, v) ELSE SetPrev(t, next, v)

(* The siblings from a node on, and the children of a node. *)
RECURSIVE From(_, _)
From(t, a) == IF a = NULL THEN <<>> ELSE <<a>> \o From(t, t[a].next_sibling)

Children(t, a) == From(t, t[a].first_child)
Tops(t) == SelectSeq(From(t, head), LAMBDA a : a > 0)

(* A subtree in pre-order. *)
RECURSIVE Subtree(_, _)
Subtree(t, a) ==
    LET kids == Children(t, a)
    IN  <<a>> \o FlattenSeq([i \in DOMAIN kids |-> Subtree(t, kids[i])])

-----------------------------------------------------------------------------
append_child(t, pos, x) ==
    LET tmp == Allocate(t)
        last == t[pos].last_child
        made == [t EXCEPT ![tmp] = Node(x, pos, last, NULL)]
    IN  SetLast(IF last # NULL THEN SetNext(made, last, tmp) ELSE SetFirst(made, pos, tmp), pos, tmp)

(* insert before a node; NULL stands for the feet. *)
insert(t, pos0, x) ==
    LET pos == IF pos0 = NULL THEN feet ELSE pos0
        tmp == Allocate(t)
        prev == t[pos].prev_sibling
        made == SetPrev([t EXCEPT ![tmp] = Node(x, t[pos].parent, prev, pos)], pos, tmp)
    IN  LeadTo(made, t[pos].parent, prev, tmp)

(* insert with a sibling_iterator that is at the end of parent's children. *)
insert_at_end(t, parent, x) ==
    LET tmp == Allocate(t)
        last == t[parent].last_child
        made == SetLast([t EXCEPT ![tmp] = Node(x, parent, last, NULL)], parent, tmp)
    IN  LeadTo(made, parent, last, tmp)

insert_after(t, pos, x) ==
    LET tmp == Allocate(t)
        parent == t[pos].parent
        next == t[pos].next_sibling
        made == SetNext([t EXCEPT ![tmp] = Node(x, parent, pos, next)], pos, tmp)
    IN  IF next # NULL THEN SetPrev(made, next, tmp)
        ELSE IF parent # NULL THEN SetLast(made, parent, tmp) ELSE made

-----------------------------------------------------------------------------
(* erase_children frees what is below a node, erase the node as well. *)
erase_children(t, pos) ==
    LET below == ToSet(Tail(Subtree(t, pos)))
    IN  SetLast(SetFirst([a \in below |-> Free] @@ t, pos, NULL), pos, NULL)

Unlink(t, a) ==
    LET n == t[a]
    IN  LeadBack(LeadTo(t, n.parent, n.prev_sibling, n.next_sibling), n.parent, n.next_sibling, n.prev_sibling)

erase(t, pos) == [Unlink(erase_children(t, pos), pos) EXCEPT ![pos] = Free]

RECURSIVE clear(_)
clear(t) == IF t[head].next_sibling = feet THEN t ELSE clear(erase(t, t[head].next_sibling))

-----------------------------------------------------------------------------
(* replace: a copy of the subtree at from takes the place of pos.  The loop walks through the
   original and appends to the copy; toit is where the copy of current_from is. *)
RECURSIVE Climb(_, _, _, _, _)
Climb(t, src, start, current, toit) ==
    IF src[current].next_sibling = NULL /\ current # start
    THEN Climb(t, src, start, src[current].parent, t[toit].parent) ELSE <<current, toit>>

RECURSIVE CopyLoop(_, _, _, _, _)
CopyLoop(t, src, start, current, toit) ==
    LET up == Climb(t, src, start, current, toit)
        below == src[current].first_child # NULL
        from == IF below THEN src[current].first_child ELSE src[up[1]].next_sibling
        under == IF below THEN toit ELSE t[up[2]].parent
        more == append_child(t, under, src[from].data)
    IN  IF from = src[start].next_sibling THEN t
        ELSE CopyLoop(more, src, start, from, more[under].last_child)

(* The node at pos is replaced by a new one first; src is the tree that is copied from. *)
ReplaceHead(t, pos, x) ==
    LET bare == erase_children(t, pos)
        n == bare[pos]
        tmp == Allocate(bare)
        made == [bare EXCEPT ![tmp] = Node(x, n.parent, n.prev_sibling, n.next_sibling)]
    IN  [LeadBack(LeadTo(made, n.parent, n.prev_sibling, tmp), n.parent, n.next_sibling, tmp)
            EXCEPT ![pos] = Free]
Replacement(t, pos) == Allocate(erase_children(t, pos))

(* replace with a subtree of another tree, as in copy_. *)
replace(t, pos, src, from) ==
    CopyLoop(ReplaceHead(t, pos, src[from].data), src, from, from, Replacement(t, pos))

(* ... and with one of the same tree, which is not below pos: it is read after pos is replaced. *)
replace_here(t, pos, from) ==
    LET bare == ReplaceHead(t, pos, t[from].data)
    IN  CopyLoop(bare, bare, from, from, Replacement(t, pos))

(* insert_subtree, and append_child of a subtree: a dummy is inserted and replaced. *)
insert_subtree(t, pos, from) == replace_here(insert(t, pos, 0), Allocate(t), from)
insert_subtree_at_end(t, parent, from) == replace_here(insert_at_end(t, parent, 0), Allocate(t), from)
append_subtree(t, pos, from) == replace_here(append_child(t, pos, 0), Allocate(t), from)

(* replace of a range of siblings: copies of new are inserted before orig, which is then erased. *)
replace_range(t, orig, new) ==
    LET Copied == FoldLeft(LAMBDA u, a : insert_subtree(u, orig[1], a), t, new)
    IN  FoldLeft(erase, Copied, orig)

(* copy_: the top nodes first, each before the one before; then each is replaced by a subtree. *)
copy(src) ==
    LET tops == Tops(src)
        Rows == FoldLeft(LAMBDA t, a : insert(t, t[head].next_sibling, src[a].data), EmptyTree, tops)
        Fill(t, i) == replace(t, Tops(t)[i], src, tops[i])
    IN  FoldLeft(Fill, Rows, [i \in DOMAIN tops |-> i])

-----------------------------------------------------------------------------
(* flatten: the children of a node become its next siblings. *)
flatten(t, pos) ==
    LET n == t[pos]
        kids == ToSet(Children(t, pos))
        moved == [a \in kids |-> [t[a] EXCEPT !.parent = n.parent]] @@ t
        joined == IF n.next_sibling # NULL
                  THEN SetPrev(SetNext(moved, n.last_child, n.next_sibling), n.next_sibling, n.last_child)
                  ELSE SetLast(moved, n.parent, n.last_child)
        led == SetPrev(SetNext(joined, pos, n.first_child), n.first_child, pos)
    IN  IF n.first_child = NULL THEN t ELSE SetLast(SetFirst(led, pos, NULL), pos, NULL)

(* reparent: the siblings first .. last are appended to the children of pos. *)
reparent(t, pos, first, last) ==
    LET parent == t[first].parent
        before == t[first].prev_sibling
        after == t[last].next_sibling
        range == ToSet(From(t, first)) \ ToSet(From(t, after))
        out == LeadBack(LeadTo(t, parent, before, after), parent, after, before)
        in == IF out[pos].first_child = NULL
              THEN SetPrev(SetLast(SetFirst(out, pos, first), pos, last), first, NULL)
              ELSE SetLast(SetPrev(SetNext(out, out[pos].last_child, first), first, out[pos].last_child),
                           pos, last)
        cut == SetNext(in, last, NULL)
    IN  [a \in range |-> [cut[a] EXCEPT !.parent = pos]] @@ cut

move_before(t, dst, src) ==
    LET out == Unlink(t, src)
        prev == out[dst].prev_sibling
        in == SetPrev(LeadTo(out, out[dst].parent, prev, src), dst, src)
    IN  IF dst = src THEN t
        ELSE [in EXCEPT ![src] = [@ EXCEPT !.prev_sibling = prev, !.next_sibling = dst,
                                           !.parent = out[dst].parent]]

(* move_ontop: the target is erased, and the source takes the links it had before. *)
move_ontop(t, dst, src) ==
    LET b == t[dst]
        out == Unlink(erase(t, dst), src)
        in == LeadBack(LeadTo(out, b.parent, b.prev_sibling, src), b.parent, b.next_sibling, src)
    IN  IF dst = src THEN t
        ELSE [in EXCEPT ![src] = [@ EXCEPT !.prev_sibling = b.prev_sibling,
                                           !.next_sibling = b.next_sibling, !.parent = b.parent]]

(* swap with the next sibling. *)
swap(t, a) ==
    LET n == t[a]
        nxt == n.next_sibling
        nxtnxt == t[nxt].next_sibling
        led == SetPrev(LeadTo(t, n.parent, n.prev_sibling, nxt), nxt, n.prev_sibling)
        back == LeadBack(led, n.parent, nxtnxt, a)
    IN  IF nxt = NULL THEN t
        ELSE [back EXCEPT ![nxt].next_sibling = a,
                          ![a] = [@ EXCEPT !.prev_sibling = nxt, !.next_sibling = nxtnxt]]

(* sort: the siblings of a range are linked anew, in the order of their data; deep: below as well. *)
Place(row, a) == CHOOSE i \in DOMAIN row : row[i] = a

Ordered(t, row) ==
    LET Before(a, b) ==
            \/ t[a].data < t[b].data
            \/ t[a].data = t[b].data /\ Place(row, a) < Place(row, b)
    IN  SortSeq(row, Before)

SortRow(t, row) ==
    LET parent == t[row[1]].parent
        prev == t[row[1]].prev_sibling
        next == t[Last(row)].next_sibling
        s == <<prev>> \o Ordered(t, row) \o <<next>>
        at == [a \in ToSet(row) |-> Place(s, a)]
        chained == [a \in ToSet(row) |->
                        [t[a] EXCEPT !.prev_sibling = s[at[a] - 1], !.next_sibling = s[at[a] + 1]]] @@ t
    IN  LeadBack(LeadTo(chained, parent, prev, s[2]), parent, next, s[Len(s) - 1])

RECURSIVE sort(_, _, _)
sort(t, row, deep) ==
    LET done == SortRow(t, row)
    IN  IF row = <<>> THEN t
        ELSE IF deep THEN FoldLeft(LAMBDA u, a : sort(u, Children(u, a), deep), done, Ordered(t, row))
        ELSE done

(* merge: the children of from are merged into the children of to.  They are searched from the
   child that was the first at the call: where there was none, nothing is ever found. *)
\* As a mutant: the children are looked up again for each element.
RECURSIVE MergeAnew(_, _, _, _)
MergeAnew(t, to, from, duplicate_leaves) ==
    LET One(u, a) ==
            LET fnd == SelectSeq(Children(u, to), LAMBDA b : u[b].data = u[a].data)
            IN  IF fnd = <<>> THEN insert_subtree_at_end(u, to, a)
                ELSE IF u[a].first_child # NULL THEN MergeAnew(u, fnd[1], a, duplicate_leaves)
                ELSE IF duplicate_leaves THEN append_child(u, to, u[a].data) ELSE u
    IN  FoldLeft(One, t, Children(t, from))

RECURSIVE merge(_, _, _, _)
merge(t, to, from, duplicate_leaves) ==
    LET to1 == t[to].first_child
        One(u, a) ==
            LET fnd == SelectSeq(From(u, to1), LAMBDA b : u[b].data = u[a].data)
            IN  IF fnd = <<>> THEN insert_subtree_at_end(u, to, a)
                ELSE IF u[a].first_child # NULL THEN merge(u, fnd[1], a, duplicate_leaves)
                ELSE IF duplicate_leaves THEN append_child(u, to, u[a].data) ELSE u
    IN  FoldLeft(One, t, Children(t, from))

-----------------------------------------------------------------------------
(* The iterators.  In pre-order: ++ with and without the children, and --. *)
RECURSIVE Over(_, _)
Over(t, a) ==
    IF a = NULL THEN NULL
    ELSE IF t[a].next_sibling # NULL THEN t[a].next_sibling ELSE Over(t, t[a].parent)

PreNext(t, a) == IF t[a].first_child # NULL THEN t[a].first_child ELSE Over(t, a)

RECURSIVE DownLast(_, _)
DownLast(t, a) == IF t[a].last_child = NULL THEN a ELSE DownLast(t, t[a].last_child)
PrePrev(t, a) == IF t[a].prev_sibling # NULL THEN DownLast(t, t[a].prev_sibling) ELSE t[a].parent

(* In post-order. *)
RECURSIVE DownFirst(_, _)
DownFirst(t, a) == IF t[a].first_child = NULL THEN a ELSE DownFirst(t, t[a].first_child)
PostNext(t, a) == IF t[a].next_sibling = NULL THEN t[a].parent ELSE DownFirst(t, t[a].next_sibling)

RECURSIVE Back(_, _)
Back(t, a) == IF t[a].prev_sibling = NULL THEN Back(t, t[a].parent) ELSE t[a].prev_sibling
PostPrev(t, a) == IF t[a].last_child = NULL THEN Back(t, a) ELSE t[a].last_child

(* A walk with an iterator, from begin to end. *)
RECURSIVE Walk(_, _, _, _)
Walk(Step(_, _), t, a, end) == IF a = end THEN <<>> ELSE <<a>> \o Walk(Step, t, Step(t, a), end)

begin(t) == t[head].next_sibling

(* At a fixed depth: the first node dp levels below, NULL for a range_error, and ++, which is
   next_at_same_depth; NULL at the end, and behind the last top node the feet. *)
RECURSIVE begin_fixed(_, _, _)
begin_fixed(t, a, dp) ==
    IF a = NULL \/ dp = 0 THEN a
    ELSE IF t[a].first_child = NULL THEN begin_fixed(t, t[a].next_sibling, dp)
    ELSE begin_fixed(t, t[a].first_child, dp - 1)

RECURSIVE Upper(_, _, _), Lower(_, _, _), Deeper(_, _, _)
Upper(t, a, rel) ==
    LET up == t[a].parent
    IN  IF up = NULL THEN NULL
        ELSE IF t[up].next_sibling = NULL THEN Upper(t, up, rel - 1)
        ELSE Lower(t, up, rel - 1)
Lower(t, a, rel) ==
    LET over == t[a].next_sibling
    IN  IF t[over].first_child # NULL THEN Deeper(t, over, rel)
        ELSE IF t[over].next_sibling = NULL THEN Upper(t, over, rel) ELSE Lower(t, over, rel)
Deeper(t, a, rel) ==
    IF rel = 0 THEN a
    ELSE IF t[a].first_child # NULL THEN Deeper(t, t[a].first_child, rel + 1)
    ELSE IF t[a].next_sibling = NULL THEN Upper(t, a, rel) ELSE Lower(t, a, rel)

next_at_same_depth(t, a) ==
    IF t[a].next_sibling # NULL THEN t[a].next_sibling ELSE Upper(t, a, 0)

(* fixed_depth_iterator ++ is written out as next_at_same_depth is; -- looks among the children
   of the siblings of the parent only. *)
FixedNext(t, a) == next_at_same_depth(t, a)

RECURSIVE LastBefore(_, _)
LastBefore(t, a) ==
    LET left == t[a].prev_sibling
    IN  IF left = NULL THEN NULL
        ELSE IF t[left].last_child # NULL THEN t[left].last_child ELSE LastBefore(t, left)

FixedPrev(t, a) ==
    LET left == t[a].prev_sibling
    IN  IF left = head THEN NULL
        ELSE IF left # NULL THEN left ELSE LastBefore(t, t[a].parent)

RECURSIVE depth(_, _)
depth(t, a) == IF t[a].parent = NULL THEN 0 ELSE 1 + depth(t, t[a].parent)
(* A sibling_iterator at the end of a's children, as a pre_order_iterator. *)
BehindChildren(t, a) == Over(t, IF t[a].last_child # NULL THEN t[a].last_child ELSE a)

is_valid(a) == a \notin {NULL, feet}
number_of_children(t, a) == Len(Children(t, a))

(* equal, of the nodes from one to two and those from three on, and equal_subtree. *)
RECURSIVE equal(_, _, _, _)
equal(t, one, two, three) ==
    \/ one = two
    \/ ~is_valid(three)
    \/ /\ t[one].data = t[three].data
       /\ number_of_children(t, one) = number_of_children(t, three)
       /\ equal(t, PreNext(t, one), two, PreNext(t, three))

equal_subtree(t, one, two) ==
    LET Begin(a) == IF t[a].first_child = NULL THEN BehindChildren(t, a) ELSE t[a].first_child
    IN  /\ t[one].data = t[two].data
        /\ number_of_children(t, one) = number_of_children(t, two)
        /\ equal(t, Begin(one), BehindChildren(t, one), Begin(two))

(* The position of a node among its siblings, and the child at a position. *)
RECURSIVE index(_, _)
index(t, a) == IF t[a].prev_sibling \in {NULL, head} THEN 0 ELSE 1 + index(t, t[a].prev_sibling)
RECURSIVE NthFrom(_, _, _)
NthFrom(t, a, num) == IF num = 0 THEN a ELSE NthFrom(t, t[a].next_sibling, num - 1)
child(t, a, num) == NthFrom(t, t[a].first_child, num)

PreOrder(t) == Walk(PreNext, t, begin(t), feet)
PostOrder(t) == Walk(PostNext, t, DownFirst(t, begin(t)), feet)
=============================================================================
