----------------------------- MODULE Blocks_proof -----------------------------
(***************************************************************************)
(* Facts about the cutting of a file into blocks, for every size of the     *)
(* file and every number of threads, and about writing into the local file; *)
(* and the induction over numbers that the proofs about files and their      *)
(* pieces use.                                                               *)
(***************************************************************************)
EXTENDS Partition, LocalFile, WellFoundedInduction, TLAPS

(***************************************************************************)
(* BytesPerConn and BytesLeft are the quotient and the remainder of the    *)
(* division of FileSize by ThreadCnt.                                      *)
(***************************************************************************)
LEMMA Division ==
  ASSUME NEW s \in Nat, NEW n \in Nat \ {0}
  PROVE  /\ BytesPerConn(s, n) \in Nat
         /\ BytesLeft(s, n) \in 0 .. n - 1
         /\ s = n * BytesPerConn(s, n) + BytesLeft(s, n)
<1>1. s # UnknownSize
  BY DEF UnknownSize
<1>2. s \div n \in Nat /\ s % n \in 0 .. n - 1 /\ s = n * (s \div n) + (s % n)
  OBVIOUS
<1> QED
  BY <1>1, <1>2 DEF BytesPerConn, BytesLeft

(***************************************************************************)
(* The blocks in closed form meet without gap or overlap and end at the    *)
(* end of the file.                                                        *)
(***************************************************************************)
LEMMA ClosedFormTiles ==
  ASSUME NEW s \in Nat, NEW n \in Nat \ {0}
  PROVE  /\ BlockStart(s, n, 0) = 0
         /\ BlockEnd(s, n, n - 1) = s
         /\ \A k \in 0 .. n - 2 : BlockEnd(s, n, k) = BlockStart(s, n, k + 1)
         /\ \A k \in 0 .. n - 1 : /\ BlockSize(s, n, k) = BlockEnd(s, n, k) - BlockStart(s, n, k)
                                  /\ BlockSize(s, n, k) >= 0
<1> DEFINE per == BytesPerConn(s, n)
           left == BytesLeft(s, n)
<1>1. s # UnknownSize
  BY DEF UnknownSize
<1>2. per \in Nat /\ left \in 0 .. n - 1 /\ s = n * per + left
  BY Division
<1>3. \A k \in 0 .. n - 1 : Remainder(s, n, k) = IF k = n - 1 THEN left ELSE 0
  BY <1>1, <1>2 DEF Remainder
<1>4. \A k \in 0 .. n - 1 : /\ BlockSize(s, n, k) = per + Remainder(s, n, k)
                            /\ BlockStart(s, n, k) = k * per
                            /\ BlockEnd(s, n, k) = (k + 1) * per + Remainder(s, n, k)
  BY <1>1 DEF BlockSize, BlockStart, BlockEnd
<1> HIDE DEF per, left
<1>5. BlockStart(s, n, 0) = 0
  BY <1>2, <1>4
<1>6. BlockEnd(s, n, n - 1) = s
  <2>1. BlockEnd(s, n, n - 1) = (n - 1 + 1) * per + left
    BY <1>3, <1>4
  <2>2. n - 1 + 1 = n
    OBVIOUS
  <2> QED
    BY <1>2, <2>1, <2>2
<1>7. ASSUME NEW k \in 0 .. n - 2
      PROVE  BlockEnd(s, n, k) = BlockStart(s, n, k + 1)
  <2>1. BlockEnd(s, n, k) = (k + 1) * per + 0
    BY <1>3, <1>4
  <2>2. BlockStart(s, n, k + 1) = (k + 1) * per
    BY <1>4
  <2>3. (k + 1) * per \in Int
    BY <1>2
  <2> QED
    BY <2>1, <2>2, <2>3
<1>8. ASSUME NEW k \in 0 .. n - 1
      PROVE  /\ BlockSize(s, n, k) = BlockEnd(s, n, k) - BlockStart(s, n, k)
             /\ BlockSize(s, n, k) >= 0
  <2>1. (k + 1) * per = k * per + per /\ k * per \in Int
    BY <1>2
  <2>2. Remainder(s, n, k) \in Nat
    BY <1>2, <1>3
  <2> QED
    BY <1>2, <1>4, <2>1, <2>2
<1> QED
  BY <1>5, <1>6, <1>7, <1>8

(***************************************************************************)
(* A larger number of blocks of one size is not shorter.                    *)
(***************************************************************************)
LEMMA MoreBlocksAreLonger ==
  ASSUME NEW a \in Nat, NEW b \in Nat, NEW p \in Nat, a <= b
  PROVE  a * p <= b * p
<1>1. b = a + (b - a) /\ b - a \in Nat
  OBVIOUS
<1>2. PICK d \in Nat : b = a + d
  BY <1>1
<1>3. (a + d) * p = a * p + d * p /\ d * p \in Nat /\ a * p \in Nat
  OBVIOUS
<1> QED
  BY <1>2, <1>3

(***************************************************************************)
(* A block lies in the file, and its size is the distance of its ends.       *)
(***************************************************************************)
LEMMA BlocksLieInTheFile ==
  ASSUME NEW s \in Nat, NEW n \in Nat \ {0}, NEW k \in 0 .. n - 1
  PROVE  /\ BlockStart(s, n, k) \in Nat /\ BlockEnd(s, n, k) \in Nat
         /\ BlockSize(s, n, k) \in Nat
         /\ BlockEnd(s, n, k) = BlockStart(s, n, k) + BlockSize(s, n, k)
         /\ BlockEnd(s, n, k) <= s
<1> DEFINE per == BytesPerConn(s, n)
           left == BytesLeft(s, n)
<1>1. s # UnknownSize
  BY DEF UnknownSize
<1>2. per \in Nat /\ left \in Nat /\ s = n * per + left
  BY Division
<1>3. Remainder(s, n, k) = 0 \/ Remainder(s, n, k) = left
  BY <1>1 DEF Remainder
<1>4. /\ BlockSize(s, n, k) = per + Remainder(s, n, k)
      /\ BlockStart(s, n, k) = k * per
      /\ BlockEnd(s, n, k) = (k + 1) * per + Remainder(s, n, k)
  BY <1>1 DEF BlockSize, BlockStart, BlockEnd
<1> HIDE DEF per, left
<1>5. (k + 1) * per = k * per + per /\ k * per \in Nat
  BY <1>2
<1>6. (k + 1) * per <= n * per
  BY <1>2, MoreBlocksAreLonger
<1>7. n * per \in Nat
  BY <1>2
<1> QED
  BY <1>2, <1>3, <1>4, <1>5, <1>6, <1>7

(***************************************************************************)
(* Every byte of the file lies in a block.                                  *)
(***************************************************************************)
LEMMA EveryByteHasABlock ==
  ASSUME NEW s \in Nat, NEW n \in Nat \ {0}, NEW c \in 0 .. s - 1
  PROVE  \E k \in 0 .. n - 1 : BlockStart(s, n, k) <= c /\ c < BlockEnd(s, n, k)
<1> DEFINE per == BytesPerConn(s, n)
<1>1. per \in Nat /\ s # UnknownSize
  BY Division DEF UnknownSize
<1>2. \A k \in 0 .. n - 1 : BlockStart(s, n, k) = k * per
  BY <1>1 DEF BlockStart
<1>3. \A k \in 0 .. n - 2 : BlockEnd(s, n, k) = (k + 1) * per
  <2>1. \A k \in 0 .. n - 2 : Remainder(s, n, k) = 0
    BY DEF Remainder
  <2>2. \A k \in 0 .. n - 2 : (k + 1) * per \in Nat
    BY <1>1
  <2> QED
    BY <1>1, <2>1, <2>2 DEF BlockEnd
<1>4. BlockEnd(s, n, n - 1) = s
  BY ClosedFormTiles
<1> HIDE DEF per
<1>5. (n - 1) * per \in Nat
  BY <1>1
<1>6. CASE (n - 1) * per <= c
  BY <1>2, <1>4, <1>6
<1>7. CASE c < (n - 1) * per
  <2>1. per # 0
    BY <1>1, <1>7
  <2>2. PICK k \in Nat : k = c \div per
    BY <1>1, <2>1
  <2>3. k * per <= c /\ c < (k + 1) * per
    <3>1. (c % per) \in 0 .. per - 1 /\ c = per * (c \div per) + (c % per)
      BY <1>1, <2>1
    <3>2. per * k = k * per /\ (k + 1) * per = k * per + per /\ k * per \in Nat
      BY <1>1
    <3> QED
      BY <1>1, <2>2, <3>1, <3>2
  <2>4. k < n - 1
    <3>1. SUFFICES ASSUME n - 1 <= k PROVE FALSE
      OBVIOUS
    <3>2. (n - 1) * per <= k * per
      BY <1>1, <3>1, MoreBlocksAreLonger
    <3>3. k * per \in Nat
      BY <1>1
    <3> QED
      BY <1>5, <1>7, <2>3, <3>2, <3>3
  <2> QED
    BY <1>2, <1>3, <2>3, <2>4
<1> QED
  BY <1>5, <1>6, <1>7

-----------------------------------------------------------------------------
(* Writing into the local file. *)

(***************************************************************************)
(* A write has the types of the file.                                      *)
(***************************************************************************)
LEMMA WritingIsTyped ==
  ASSUME NEW size \in Nat, NEW F \in [Cells(size) -> Int], NEW at \in Int, NEW src \in Int, NEW n \in Int
  PROVE  Written(F, size, at, src, n) \in [Cells(size) -> Int]
<1>1. \A c \in Cells(size) : c \in Int /\ F[c] \in Int
  BY DEF Cells
<1> QED
  BY <1>1 DEF Written

(***************************************************************************)
(* Bytes that are written where they belong leave what is there intact, and *)
(* what ended where they begin ends behind them.                            *)
(***************************************************************************)
LEMMA WritingInPlace ==
  ASSUME NEW size \in Nat, NEW F \in [Cells(size) -> Int], NEW at \in Int, NEW n \in Nat, at + n <= size,
         NEW G, G = Written(F, size, at, at, n)
  PROVE  /\ G[size] = F[size]
         /\ \A lo, hi \in Int : Holds(F, size, lo, hi) => Holds(G, size, lo, hi)
         /\ \A lo \in Int : Holds(F, size, lo, at) => Holds(G, size, lo, at + n)
<1>1. \A c \in Cells(size) : c \in Int /\ F[c] \in Int
  BY DEF Cells
<1>2. size \in Cells(size)
  BY DEF Cells
<1>3. \A c \in Cells(size) :
        G[c] = IF c < size THEN IF at <= c /\ c < at + n THEN c ELSE F[c] ELSE F[c]
  BY <1>1 DEF Written
<1>4. G[size] = F[size]
  BY <1>2, <1>3
<1>5. \A lo, hi \in Int : Holds(F, size, lo, hi) => Holds(G, size, lo, hi)
  BY <1>1, <1>3 DEF Holds
<1>6. \A lo \in Int : Holds(F, size, lo, at) => Holds(G, size, lo, at + n)
  BY <1>1, <1>3 DEF Holds
<1> QED
  BY <1>4, <1>5, <1>6

(***************************************************************************)
(* What is held up to a place is held up to any place before it.            *)
(***************************************************************************)
LEMMA LessIsHeld ==
  ASSUME NEW size \in Nat, NEW F, NEW lo \in Int, NEW hi \in Int, NEW mid \in Int, mid <= hi,
         Holds(F, size, lo, hi)
  PROVE  Holds(F, size, lo, mid)
<1>1. \A c \in Cells(size) : c \in Int
  BY DEF Cells
<1> QED
  BY <1>1 DEF Holds

(***************************************************************************)
(* An empty file holds nothing, everywhere.                                 *)
(***************************************************************************)
LEMMA NothingIsHeld ==
  ASSUME NEW size \in Nat, NEW lo \in Int
  PROVE  /\ EmptyFile(size) \in [Cells(size) -> Int]
         /\ EmptyFile(size)[size] = Hole
         /\ Holds(EmptyFile(size), size, lo, lo)
<1>1. \A c \in Cells(size) : c \in Int
  BY DEF Cells
<1>2. size \in Cells(size)
  BY DEF Cells
<1> QED
  BY <1>1, <1>2 DEF EmptyFile, Hole, Holds

-----------------------------------------------------------------------------
(* Induction over the numbers: from the well-foundedness of <, as the library's theorems about it
   take an operator. *)

\* A set of numbers that has 0 and with each number the next has them all.
LEMMA AllNumbers ==
  ASSUME NEW S, 0 \in S, \A n \in Nat : n \in S => n + 1 \in S
  PROVE  Nat \subseteq S
<1> DEFINE Out == {n \in Nat : n \notin S}
<1> SUFFICES ASSUME Out # {} PROVE FALSE
  OBVIOUS
<1>1. PICK m \in Out : \A k \in Out : ~(<<k, m>> \in OpToRel(<, Nat))
  BY NatLessThanWellFounded, WFMin
<1>2. m \in Nat /\ m # 0
  OBVIOUS
<1>3. m - 1 \in Nat /\ m - 1 < m
  BY <1>2
<1>4. m - 1 \in S
  BY <1>1, <1>2, <1>3 DEF OpToRel
<1> QED
  BY <1>3, <1>4

\* The same up to a bound.
LEMMA AllNumbersTo ==
  ASSUME NEW N \in Nat, NEW S, 0 \in S, \A n \in 0 .. N - 1 : n \in S => n + 1 \in S
  PROVE  0 .. N \subseteq S
<1> DEFINE T == S \cup {n \in Nat : n > N}
<1>1. 0 \in T /\ \A n \in Nat : n \in T => n + 1 \in T
  OBVIOUS
<1>2. Nat \subseteq T
  <2> HIDE DEF T
  <2> QED
    BY <1>1, AllNumbers
<1> QED
  BY <1>2

\* The functions on 0 .. N that start with a and go from each value to the next by D.
Sequels(N, V, a, D) ==
    {f \in [0 .. N -> V] : f[0] = a /\ \A j \in 1 .. N : f[j] = D[j][f[j - 1]]}

\* There is one: what a recursive definition over 0 .. N defines exists.
LEMMA Recursion ==
  ASSUME NEW N \in Nat, NEW V, NEW a \in V, NEW D \in [1 .. N -> [V -> V]]
  PROVE  Sequels(N, V, a, D) # {}
<1> DEFINE S == {n \in 0 .. N : Sequels(n, V, a, D) # {}}
<1>1. 0 \in S
  <2>1. [j \in 0 .. 0 |-> a] \in Sequels(0, V, a, D)
    BY DEF Sequels
  <2> QED
    BY <2>1
<1>2. ASSUME NEW n \in 0 .. N - 1, n \in S PROVE n + 1 \in S
  <2>1. PICK f : f \in Sequels(n, V, a, D)
    BY <1>2
  <2> DEFINE g == [j \in 0 .. n + 1 |-> IF j = n + 1 THEN D[n + 1][f[n]] ELSE f[j]]
  <2>2. f \in [0 .. n -> V] /\ f[0] = a /\ \A j \in 1 .. n : f[j] = D[j][f[j - 1]]
    BY <2>1 DEF Sequels
  <2>3. n \in 0 .. n /\ n + 1 \in 1 .. N /\ f[n] \in V
    BY <2>2
  <2>4. D[n + 1][f[n]] \in V
    BY <2>3
  <2>5. g \in [0 .. n + 1 -> V]
    BY <2>2, <2>4
  <2>6. g[0] = a
    BY <2>2
  <2>7. ASSUME NEW j \in 1 .. n + 1 PROVE g[j] = D[j][g[j - 1]]
    <3>1. j - 1 \in 0 .. n + 1 /\ j - 1 # n + 1 /\ g[j - 1] = f[j - 1]
      OBVIOUS
    <3>2. CASE j = n + 1
      BY <3>1, <3>2
    <3>3. CASE j \in 1 .. n
      BY <2>2, <3>1, <3>3
    <3> QED
      BY <3>2, <3>3
  <2>8. g \in Sequels(n + 1, V, a, D)
    <3> HIDE DEF g
    <3> QED
      BY <2>5, <2>6, <2>7 DEF Sequels
  <2>9. n + 1 \in 0 .. N
    OBVIOUS
  <2> HIDE DEF g
  <2> QED
    BY <2>8, <2>9
<1>3. 0 .. N \subseteq S
  <2> HIDE DEF S
  <2> QED
    BY <1>1, <1>2, AllNumbersTo
<1> QED
  BY <1>3

(* A set of natural numbers has a least one. *)
LEMMA LeastNumber ==
  ASSUME NEW S \in SUBSET Nat, S # {}
  PROVE  \E n \in S : \A k \in S : n <= k
<1>1. PICK n \in S : \A k \in S : ~(<<k, n>> \in OpToRel(<, Nat))
  BY NatLessThanWellFounded, WFMin
<1>2. ASSUME NEW k \in S PROVE n <= k
  <2>1. (k < n) => <<k, n>> \in OpToRel(<, Nat)
    BY DEF OpToRel
  <2>2. ~(k < n)
    BY <1>1, <2>1
  <2>3. k \in Nat /\ n \in Nat
    OBVIOUS
  <2> QED
    BY <2>2, <2>3
<1> QED
  BY <1>2
=============================================================================
