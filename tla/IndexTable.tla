----------------------------- MODULE IndexTable -----------------------------
(***************************************************************************)
(* The index tables of media files: one growing array per stream, written    *)
(* one behind the other.  libstream/rmff.c and libstream/mms_asf.c have them  *)
(* in the same form.                                                         *)
(*                                                                         *)
(* An index is [count, max], its entries and the room for them; None where   *)
(* there is none yet.                                                        *)
(***************************************************************************)
EXTENDS Integers, Sequences, SequencesExt

CONSTANTS
    Grain,      \* 0x1000: what a table grows by at least
    Round,      \* 0x100: to what its growth is rounded up
    IndexSize, ItemSize,        \* RMFF_SINDEX_SIZE
    Packages    \* smaxpkts; 0 for no limit

None == [count |-> -1, max |-> 0]

(* growin_stable with resize_stable: room is made when there is none, unless there is room for
   all packages; the error is the positive ENOSPC. *)
Growth(count) ==
    LET third == IF count \div 3 < Grain THEN Grain ELSE count \div 3
    IN  ((third + Round - 1) \div Round) * Round

Resized(t, count) ==
    LET maxsize == Growth(count) + count
    IN  [count |-> count, max |-> IF t.max > maxsize THEN t.max ELSE maxsize]

Grown(t) == Resized(t, IF t = None THEN 0 ELSE t.count)

HasRoom(t) == t # None /\ t.count < t.max
Full(t) == Packages > 0 /\ t.max >= Packages

growin_stable(t) ==
    IF HasRoom(t) THEN [t EXCEPT !.count = @ + 1]
    ELSE IF Full(t) THEN t
    ELSE [Grown(t) EXCEPT !.count = @ + 1]

(* dump_stable: tables follow each other; next_offset of each is the end of it, and 0 for the
   last slot. *)
SizeOf(t) == IndexSize + t.count * ItemSize

StartOf(tables, i, offset) ==
    FoldLeft(LAMBDA at, t : IF t = None THEN at ELSE at + SizeOf(t), offset, SubSeq(tables, 1, i - 1))

next_offset(tables, i, offset) ==
    IF i = Len(tables) THEN 0 ELSE StartOf(tables, i + 1, offset)

-----------------------------------------------------------------------------
(* An entry is written inside the room of its table, and a table is never smaller than what it
   holds; a table that is not at the limit takes the entry. *)
EntriesFit(t) ==
    LET after == growin_stable(t)
    IN  /\ after.count <= after.max
        /\ ~Full(t) \/ HasRoom(t) => after.count = (IF t = None THEN 1 ELSE t.count + 1)

(* From the first table the offsets lead through all of them, when the last slot has one. *)
OffsetsLeadOn(tables, offset) ==
    \A i \in 1 .. Len(tables) - 1 :
        (tables[i] # None /\ tables[Len(tables)] # None) =>
            \E j \in i + 1 .. Len(tables) :
                /\ tables[j] # None /\ \A k \in i + 1 .. j - 1 : tables[k] = None
                /\ next_offset(tables, i, offset) = StartOf(tables, j, offset)
=============================================================================
