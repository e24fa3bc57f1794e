----------------------------- MODULE LocalFile -----------------------------
(***************************************************************************)
(* The ".dg" file a task downloads into.  A byte of the remote file is     *)
(* represented by its offset, and the local file by the function that maps *)
(* an offset to the remote byte stored there.  The last cell stands for    *)
(* everything beyond the end of the remote file.                           *)
(***************************************************************************)
EXTENDS Integers

Hole == -1
Cells(size) == 0 .. size
EmptyFile(size) == [c \in Cells(size) |-> Hole]

\* fwrite of n bytes of the remote file, from the byte src on, at offset at.
Written(F, size, at, src, n) ==
  [c \in Cells(size) |->
     IF c < size THEN IF at <= c /\ c < at + n THEN src + (c - at) ELSE F[c]
     ELSE IF at + n > size /\ n > 0 THEN size ELSE F[c]]

\* The file holds the remote bytes lo .. hi - 1 where they belong.
Holds(F, size, lo, hi) ==
  \A c \in Cells(size) : lo <= c /\ c < hi /\ c < size => F[c] = c

IsIntact(F, size) == Holds(F, size, 0, size) /\ F[size] = Hole
=============================================================================
