---------------------------- MODULE Windows_proof ----------------------------
(***************************************************************************)
(* Proofs about the parts of MCWindows, for every value of its constants: at   *)
(* most one program runs; a task that is posted from the dialog is whole; the  *)
(* messages, their rows and their widgets agree; the picture of a download     *)
(* shows what its threads had received.                                      *)
(***************************************************************************)
EXTENDS MCWindows, Blocks_proof, FiniteSetTheorems, SequenceTheorems, TLAPS

(* The parts count as we do. *)
LEMMA SameCount == ASSUME NEW S PROVE New!Cardinality(S) = Cardinality(S) /\ Views!Cardinality(S) = Cardinality(S)
BY DEF New!Cardinality, Views!Cardinality, Cardinality

(* The blocks of the picture are those of the task. *)
LEMMA SameBlocks ==
  /\ Picture!UnknownSize = UnknownSize
  /\ \A s, n : Picture!BytesPerConn(s, n) = BytesPerConn(s, n) /\ Picture!BytesLeft(s, n) = BytesLeft(s, n)
  /\ \A s, n, i : /\ Picture!BlockStart(s, n, i) = BlockStart(s, n, i)
                  /\ Picture!BlockEnd(s, n, i) = BlockEnd(s, n, i)
                  /\ Picture!BlockSize(s, n, i) = BlockSize(s, n, i)
BY DEF Picture!UnknownSize, UnknownSize, Picture!BytesPerConn, BytesPerConn, Picture!BytesLeft, BytesLeft,
       Picture!BlockStart, BlockStart, Picture!BlockEnd, BlockEnd, Picture!BlockSize, BlockSize,
       Picture!Remainder, Remainder

-----------------------------------------------------------------------------
(***************************************************************************)
(* The starts of the program.                                              *)
(***************************************************************************)
TypeOK ==
  /\ lock \in Pids \cup {Absent, Empty, Name}
  /\ proc \in [Pids -> {"none", "read", "judged", "opened", "runs", "other"}]
  /\ buf \in [Pids -> Pids \cup {Empty, Name}]
  /\ bRun \in [Pids -> BOOLEAN]
  /\ mishaps \in Nat

\* A start has read the line of a program that runs, and does not get past it.
Knows(s) == buf[s] \in Running /\ (proc[s] = "read" \/ bRun[s])

\* The programs that run and those that start are one more than the mishaps allow at most; and
\* when they are, one of those that start will be refused.
Accounts ==
  IF Starting = {}
    THEN /\ Cardinality(Running) <= 1 + mishaps
         /\ Cardinality(Running) = 1 + mishaps => lock \in Running
    ELSE /\ Cardinality(Running) + Cardinality(Starting) <= 2 + mishaps
         /\ Cardinality(Running) + Cardinality(Starting) = 2 + mishaps =>
              /\ \E s \in Starting : Knows(s)
              /\ lock \in Running \/ \E s \in Starting : proc[s] = "opened"

IInv == TypeOK /\ Accounts
-----------------------------------------------------------------------------
(***************************************************************************)
(* Every action keeps the types of the variables.                           *)
(***************************************************************************)
LEMMA TypesAreKept == TypeOK /\ [NextInstances]_ivars => TypeOK'
<1> SUFFICES ASSUME TypeOK, [NextInstances]_ivars PROVE TypeOK'
  OBVIOUS
<1>1. CASE UNCHANGED ivars
  BY <1>1 DEF TypeOK, ivars
<1>2. ASSUME NEW p \in Pids, ReadLock(p) PROVE TypeOK'
  <2>1. PICK reads \in {lock # Absent, FALSE} :
          /\ buf' = [buf EXCEPT ![p] = IF reads THEN lock ELSE Empty]
          /\ IF reads
               THEN Become(p, "read") /\ UNCHANGED bRun
               ELSE Become(p, "judged") /\ bRun' = [bRun EXCEPT ![p] = FALSE]
          /\ mishaps' = mishaps + (IF Starting # {} \/ (lock # Absent /\ ~reads) THEN 1 ELSE 0)
    BY <1>2 DEF ReadLock
  <2>2. buf' \in [Pids -> Pids \cup {Empty, Name}]
    <3>1. (IF reads THEN lock ELSE Empty) \in Pids \cup {Empty, Name}
      BY DEF TypeOK
    <3> QED
      BY <2>1, <3>1 DEF TypeOK
  <2>3. mishaps' \in Nat
    BY <2>1 DEF TypeOK
  <2>4. proc' \in [Pids -> {"none", "read", "judged", "opened", "runs", "other"}]
    BY <2>1 DEF TypeOK, Become
  <2>5. bRun' \in [Pids -> BOOLEAN] /\ lock' = lock
    BY <1>2, <2>1 DEF TypeOK, ReadLock
  <2> QED
    BY <2>2, <2>3, <2>4, <2>5 DEF TypeOK
<1>3. ASSUME NEW p \in Pids, Judge(p) PROVE TypeOK'
  <2>1. Found(buf[p]) \in BOOLEAN
    BY DEF Found
  <2> QED
    BY <1>3, <2>1 DEF TypeOK, Judge, Become
<1>4. ASSUME NEW p \in Pids, OpenLock(p) PROVE TypeOK'
  BY <1>4 DEF TypeOK, OpenLock, Become
<1>5. ASSUME NEW p \in Pids, WriteLock(p) PROVE TypeOK'
  <2>1. FirstLine(p) \in Pids \cup {Empty, Name}
    BY DEF FirstLine, TypeOK
  <2> QED
    BY <1>5, <2>1 DEF TypeOK, WriteLock, Become
<1>6. ASSUME NEW p \in Pids, End(p) PROVE TypeOK'
  <2>1. mishaps' \in Nat
    BY <1>6 DEF End, TypeOK
  <2> QED
    BY <1>6, <2>1 DEF TypeOK, End, Become
<1>7. ASSUME NEW p \in Pids, Other(p) PROVE TypeOK'
  BY <1>7 DEF TypeOK, Other, Become
<1> QED
  BY <1>1, <1>2, <1>3, <1>4, <1>5, <1>6, <1>7 DEF NextInstances

(***************************************************************************)
(* A step of one process leaves what the others do, and the counts change by  *)
(* this process.                                                            *)
(***************************************************************************)
LEMMA OnlyOneMoves ==
  ASSUME TypeOK, NEW p \in Pids, NEW to, Become(p, to)
  PROVE  /\ proc'[p] = to
         /\ \A q \in Pids : q # p => proc'[q] = proc[q]
BY DEF TypeOK, Become

(* How many run and start. *)
LEMMA Counts ==
  /\ Cardinality(Running) \in Nat /\ Cardinality(Starting) \in Nat
  /\ Cardinality(Running') \in Nat /\ Cardinality(Starting') \in Nat
  /\ Cardinality({}) = 0
<1>1. \A S \in SUBSET Pids : IsFiniteSet(S) /\ Cardinality(S) \in Nat
  BY PidsAssumption, FS_Subset, FS_CardinalityType
<1>2. Running \in SUBSET Pids /\ Starting \in SUBSET Pids
      /\ Running' \in SUBSET Pids /\ Starting' \in SUBSET Pids
  BY DEF Running, Starting
<1> QED
  BY <1>1, <1>2, FS_EmptySet

(* A process that joins a set of processes, or leaves it, is one of them. *)
LEMMA OneMore ==
  ASSUME NEW S \in SUBSET Pids, NEW p \in S, NEW T \in SUBSET Pids, T = S \ {p}
  PROVE  Cardinality(T) = Cardinality(S) - 1
BY PidsAssumption, FS_Subset, FS_RemoveElement

(* A set of processes that is not empty counts one at least, and two when its elements differ. *)
LEMMA AtLeast ==
  ASSUME NEW S \in SUBSET Pids, S # {}
  PROVE  Cardinality(S) >= 1
<1>1. IsFiniteSet(S)
  BY PidsAssumption, FS_Subset
<1>2. Cardinality(S) \in Nat /\ Cardinality(S) # 0
  BY <1>1, FS_CardinalityType, FS_EmptySet
<1> QED
  BY <1>2

(***************************************************************************)
(* A start that reads the number of a program that runs is one too many and   *)
(* knows it; every other start that is one too many comes with a mishap.      *)
(***************************************************************************)
LEMMA ReadLockKeeps == ASSUME IInv, NEW s \in Pids, ReadLock(s) PROVE Accounts'
<1>1. PICK reads \in {lock # Absent, FALSE} :
        /\ buf' = [buf EXCEPT ![s] = IF reads THEN lock ELSE Empty]
        /\ IF reads
             THEN Become(s, "read") /\ UNCHANGED bRun
             ELSE Become(s, "judged") /\ bRun' = [bRun EXCEPT ![s] = FALSE]
        /\ mishaps' = mishaps + (IF Starting # {} \/ (lock # Absent /\ ~reads) THEN 1 ELSE 0)
  BY DEF ReadLock
<1>2. TypeOK /\ Accounts /\ mishaps \in Nat /\ lock' = lock /\ proc[s] = "none"
  BY DEF IInv, ReadLock, TypeOK
<1>3. proc'[s] = (IF reads THEN "read" ELSE "judged") /\ \A q \in Pids : q # s => proc'[q] = proc[q]
  BY <1>1, <1>2, OnlyOneMoves
<1>4. Running' = Running /\ Starting' = Starting \cup {s} /\ s \notin Starting
  BY <1>2, <1>3 DEF Running, Starting
<1>5. Cardinality(Starting') = Cardinality(Starting) + 1
  <2>1. Starting' \in SUBSET Pids /\ s \in Starting' /\ Starting = Starting' \ {s} /\ Starting \in SUBSET Pids
    BY <1>4 DEF Starting
  <2> QED
    BY <2>1, OneMore, Counts
<1>6. CASE Starting = {}
  <2>1. Cardinality(Running) <= 1 + mishaps /\ (Cardinality(Running) = 1 + mishaps => lock \in Running)
    BY <1>2, <1>6 DEF Accounts
  <2>2. Cardinality(Starting') = 1
    BY <1>5, <1>6, Counts
  <2>3. ASSUME Cardinality(Running') + Cardinality(Starting') = 2 + mishaps'
        PROVE  Knows(s)' /\ lock' \in Running'
    <3>1. mishaps' = mishaps /\ Cardinality(Running) = 1 + mishaps
      BY <1>1, <1>2, <1>4, <2>1, <2>2, <2>3, Counts
    <3>2. lock \in Running
      BY <2>1, <3>1
    <3>3. lock # Absent
      BY <3>2, PidsAssumption DEF Running, Absent
    <3>4. reads
      BY <1>1, <1>2, <3>1, <3>3
    <3>5. buf'[s] = lock /\ proc'[s] = "read"
      BY <1>1, <1>2, <1>3, <3>4 DEF TypeOK
    <3> QED
      BY <1>2, <1>4, <3>2, <3>5 DEF Knows
  <2>4. Cardinality(Running') + Cardinality(Starting') <= 2 + mishaps'
    BY <1>1, <1>2, <1>4, <2>1, <2>2, Counts
  <2> QED
    BY <1>4, <2>3, <2>4 DEF Accounts
<1>7. CASE Starting # {}
  <2>1. mishaps' = mishaps + 1
    BY <1>1, <1>7
  <2>2. Cardinality(Running) + Cardinality(Starting) <= 2 + mishaps
    BY <1>2, <1>7 DEF Accounts
  <2>3. ASSUME Cardinality(Running') + Cardinality(Starting') = 2 + mishaps'
        PROVE  /\ \E q \in Starting' : Knows(q)'
               /\ lock' \in Running' \/ \E q \in Starting' : proc'[q] = "opened"
    <3>1. Cardinality(Running) + Cardinality(Starting) = 2 + mishaps
      BY <1>2, <1>4, <1>5, <2>1, <2>3, Counts
    <3>2. /\ \E q \in Starting : Knows(q)
          /\ lock \in Running \/ \E q \in Starting : proc[q] = "opened"
      BY <1>2, <1>7, <3>1 DEF Accounts
    <3>3. \A q \in Starting : /\ q \in Pids /\ q # s /\ proc'[q] = proc[q]
                              /\ buf'[q] = buf[q] /\ bRun'[q] = bRun[q]
      BY <1>1, <1>2, <1>3, <1>4 DEF Starting, TypeOK
    <3>4. \A q \in Starting : Knows(q) => Knows(q)'
      BY <1>4, <3>3 DEF Knows
    <3> QED
      BY <1>2, <1>4, <3>2, <3>3, <3>4
  <2>4. Cardinality(Running') + Cardinality(Starting') <= 2 + mishaps'
    BY <1>2, <1>4, <1>5, <2>1, <2>2, Counts
  <2> QED
    BY <1>4, <2>3, <2>4 DEF Accounts
<1> QED
  BY <1>6, <1>7

(***************************************************************************)
(* A start finds the program whose number it has read, while that runs.      *)
(***************************************************************************)
LEMMA JudgeKeeps == ASSUME IInv, NEW s \in Pids, Judge(s) PROVE Accounts'
<1>1. TypeOK /\ Accounts /\ proc[s] = "read" /\ bRun' = [bRun EXCEPT ![s] = Found(buf[s])]
      /\ UNCHANGED <<lock, buf, mishaps>>
  BY DEF Judge, IInv
<1>2. proc'[s] = "judged" /\ \A q \in Pids : q # s => proc'[q] = proc[q]
  BY <1>1, OnlyOneMoves DEF Judge
<1>3. Starting' = Starting /\ Running' = Running /\ s \in Starting
  BY <1>1, <1>2 DEF Starting, Running
<1>4. \A q \in Starting : Knows(q) => Knows(q)'
  <2> SUFFICES ASSUME NEW q \in Starting, Knows(q) PROVE Knows(q)'
    OBVIOUS
  <2>1. CASE q = s
    <3>1. buf[s] \in Running
      BY <2>1 DEF Knows
    <3>2. Found(buf[s])
      BY <3>1 DEF Found, Running
    <3>3. bRun'[s]
      BY <1>1, <3>2 DEF TypeOK
    <3> QED
      BY <1>1, <1>3, <2>1, <3>1, <3>3 DEF Knows
  <2>2. CASE q # s
    <3>1. q \in Pids /\ proc'[q] = proc[q] /\ bRun'[q] = bRun[q]
      BY <1>1, <1>2, <2>2 DEF Starting, TypeOK
    <3> QED
      BY <1>1, <1>3, <3>1 DEF Knows
  <2> QED
    BY <2>1, <2>2
<1>5. \A q \in Starting : proc[q] = "opened" => proc'[q] = "opened"
  BY <1>1, <1>2 DEF Starting
<1> QED
  BY <1>1, <1>3, <1>4, <1>5 DEF Accounts

(***************************************************************************)
(* A start that ends without having written the file, by itself or killed:     *)
(* the file is as it was, or that is a mishap.                              *)
(***************************************************************************)
LEMMA LeavingKeeps ==
  ASSUME IInv, NEW s \in Starting, Become(s, "none"), UNCHANGED <<lock, buf, bRun>>,
         mishaps' = mishaps + (IF proc[s] = "opened" THEN 1 ELSE 0)
  PROVE  Accounts'
<1>1. TypeOK /\ Accounts /\ mishaps \in Nat /\ s \in Pids
  BY DEF IInv, TypeOK, Starting
<1>2. proc'[s] = "none" /\ \A q \in Pids : q # s => proc'[q] = proc[q]
  BY <1>1, OnlyOneMoves
<1>3. Running' = Running /\ Starting' = Starting \ {s}
  BY <1>2 DEF Starting, Running
<1>4. Cardinality(Starting') = Cardinality(Starting) - 1
  BY <1>3, OneMore DEF Starting
<1>5. Cardinality(Running) + Cardinality(Starting) <= 2 + mishaps
  BY <1>1 DEF Accounts
<1>6. CASE Starting' # {}
  <2>1. Cardinality(Running') + Cardinality(Starting') < 2 + mishaps'
    BY <1>1, <1>3, <1>4, <1>5, Counts
  <2> QED
    BY <1>6, <2>1, Counts, <1>1 DEF Accounts
<1>7. CASE Starting' = {}
  <2>1. Cardinality(Starting) = 1
    BY <1>4, <1>7, Counts
  <2>2. Cardinality(Running') <= 1 + mishaps'
    BY <1>1, <1>3, <1>5, <2>1, Counts
  <2>3. ASSUME Cardinality(Running') = 1 + mishaps' PROVE lock' \in Running'
    <3>1. proc[s] # "opened" /\ Cardinality(Running) + Cardinality(Starting) = 2 + mishaps
      BY <1>1, <1>3, <1>5, <2>1, <2>3, Counts
    <3>2. lock \in Running \/ \E q \in Starting : proc[q] = "opened"
      BY <1>1, <3>1 DEF Accounts
    <3>3. Starting = {s}
      BY <1>3, <1>7
    <3> QED
      BY <1>3, <3>1, <3>2, <3>3
  <2> QED
    BY <1>7, <2>2, <2>3 DEF Accounts
<1> QED
  BY <1>6, <1>7

(***************************************************************************)
(* A start empties the file, or gives up and leaves it.                     *)
(***************************************************************************)
LEMMA OpenLockKeeps == ASSUME IInv, NEW s \in Pids, OpenLock(s) PROVE Accounts'
<1>1. TypeOK /\ Accounts /\ proc[s] = "judged" /\ UNCHANGED <<buf, bRun, mishaps>> /\ s \in Starting
      /\ mishaps \in Nat
  BY DEF OpenLock, IInv, Starting, TypeOK
<1>2. CASE Become(s, "opened")
  <2>1. proc'[s] = "opened" /\ \A q \in Pids : q # s => proc'[q] = proc[q]
    BY <1>1, <1>2, OnlyOneMoves
  <2>2. Starting' = Starting /\ Running' = Running
    BY <1>1, <2>1 DEF Starting, Running
  <2>3. \A q \in Starting : Knows(q) => Knows(q)'
    <3> SUFFICES ASSUME NEW q \in Starting, Knows(q) PROVE Knows(q)'
      OBVIOUS
    <3>1. q \in Pids /\ (proc'[q] = proc[q] \/ (q = s /\ proc[q] # "read"))
      BY <1>1, <2>1 DEF Starting
    <3> QED
      BY <1>1, <2>2, <3>1 DEF Knows
  <2> QED
    BY <1>1, <2>1, <2>2, <2>3 DEF Accounts
<1>3. CASE Become(s, "none") /\ lock' = lock
  <2>1. mishaps' = mishaps + (IF proc[s] = "opened" THEN 1 ELSE 0)
    BY <1>1
  <2> QED
    BY <1>1, <1>3, <2>1, LeavingKeeps
<1> QED
  BY <1>2, <1>3 DEF OpenLock

(***************************************************************************)
(* A start that found a program writes its line back; one that did not runs,  *)
(* and the file has its number.                                             *)
(***************************************************************************)
LEMMA WriteLockKeeps == ASSUME IInv, NEW s \in Pids, WriteLock(s) PROVE Accounts'
<1>1. /\ TypeOK /\ Accounts /\ mishaps \in Nat /\ proc[s] = "opened" /\ s \in Starting /\ s \notin Running
      /\ UNCHANGED <<buf, bRun, mishaps>> /\ lock' = FirstLine(s)
      /\ Become(s, IF bRun[s] THEN "none" ELSE "runs")
  BY DEF WriteLock, IInv, Starting, Running, TypeOK
<1>2. proc'[s] = (IF bRun[s] THEN "none" ELSE "runs") /\ \A q \in Pids : q # s => proc'[q] = proc[q]
  BY <1>1, OnlyOneMoves
<1>3. Starting' = Starting \ {s} /\ s \notin Starting'
  BY <1>2 DEF Starting
<1>4. Cardinality(Starting') = Cardinality(Starting) - 1
  BY <1>1, <1>3, OneMore DEF Starting
<1>5. Cardinality(Running) + Cardinality(Starting) <= 2 + mishaps
  BY <1>1 DEF Accounts
<1>6. \A q \in Starting' : q \in Starting /\ q # s /\ q \in Pids /\ proc'[q] = proc[q]
  BY <1>2, <1>3 DEF Starting
<1>7. CASE bRun[s]
  <2>1. Running' = Running
    BY <1>1, <1>2, <1>7 DEF Running
  <2>2. CASE Starting' # {}
    <3>1. Cardinality(Running') + Cardinality(Starting') < 2 + mishaps'
      BY <1>1, <1>4, <1>5, <2>1, Counts
    <3> QED
      BY <1>1, <2>2, <3>1, Counts DEF Accounts
  <2>3. CASE Starting' = {}
    <3>1. Cardinality(Starting) = 1 /\ Starting = {s}
      BY <1>1, <1>3, <1>4, <2>3, Counts
    <3>2. Cardinality(Running') <= 1 + mishaps'
      BY <1>1, <1>5, <2>1, <3>1, Counts
    <3>3. ASSUME Cardinality(Running') = 1 + mishaps' PROVE lock' \in Running'
      <4>1. Cardinality(Running) + Cardinality(Starting) = 2 + mishaps
        BY <1>1, <2>1, <3>1, <3>3, Counts
      <4>2. Knows(s)
        BY <1>1, <3>1, <4>1 DEF Accounts
      <4>3. lock' = buf[s]
        BY <1>1, <1>7, <4>2, PidsAssumption DEF FirstLine, Knows, Running, Empty
      <4> QED
        BY <2>1, <4>2, <4>3 DEF Knows
    <3> QED
      BY <2>3, <3>2, <3>3 DEF Accounts
  <2> QED
    BY <2>2, <2>3
<1>8. CASE ~bRun[s]
  <2>1. Running' = Running \cup {s} /\ s \in Running' /\ Running = Running' \ {s}
    BY <1>1, <1>2, <1>8 DEF Running
  <2>2. Cardinality(Running') = Cardinality(Running) + 1
    <3>1. Running' \in SUBSET Pids /\ Running \in SUBSET Pids
      BY DEF Running
    <3> QED
      BY <2>1, <3>1, OneMore, Counts
  <2>3. lock' \in Running'
    BY <1>1, <1>8, <2>1 DEF FirstLine
  <2>4. \A q \in Starting : Knows(q) => q \in Starting' /\ Knows(q)'
    <3> SUFFICES ASSUME NEW q \in Starting, Knows(q) PROVE q \in Starting' /\ Knows(q)'
      OBVIOUS
    <3>1. q # s
      BY <1>1, <1>8 DEF Knows
    <3>2. q \in Starting' /\ proc'[q] = proc[q]
      BY <1>3, <1>6, <3>1
    <3> QED
      BY <1>1, <2>1, <3>2 DEF Knows
  <2>5. Cardinality(Running) + Cardinality(Starting) = 2 + mishaps => \E q \in Starting' : Knows(q)'
    BY <1>1, <2>4 DEF Accounts
  <2>6. CASE Starting' # {}
    BY <1>1, <1>4, <1>5, <2>2, <2>3, <2>5, <2>6, Counts DEF Accounts
  <2>7. CASE Starting' = {}
    <3>1. Cardinality(Starting) = 1
      BY <1>4, <2>7, Counts
    <3>2. Cardinality(Running) + Cardinality(Starting) # 2 + mishaps
      BY <2>5, <2>7
    <3>3. Cardinality(Running') <= 1 + mishaps'
      BY <1>1, <1>5, <2>2, <3>1, <3>2, Counts
    <3> QED
      BY <2>3, <2>7, <3>3 DEF Accounts
  <2> QED
    BY <2>6, <2>7
<1> QED
  BY <1>7, <1>8

(***************************************************************************)
(* A program ends, a start is killed, or another program takes a number.      *)
(***************************************************************************)
LEMMA OthersKeep == ASSUME IInv, NEW s \in Pids, End(s) \/ Other(s) PROVE Accounts'
<1>1. TypeOK /\ Accounts /\ mishaps \in Nat /\ UNCHANGED <<lock, buf, bRun>>
  BY DEF End, Other, IInv, TypeOK
<1>2. CASE s \in Starting
  <2>1. End(s)
    BY <1>2 DEF Other, Starting
  <2> QED
    BY <1>1, <1>2, <2>1, LeavingKeeps DEF End
<1>3. CASE s \notin Starting
  <2>1. mishaps' = mishaps
    BY <1>1, <1>3 DEF End, Other, Starting
  <2>2. proc'[s] \in {"none", "other"} /\ \A q \in Pids : q # s => proc'[q] = proc[q]
    BY <1>1, OnlyOneMoves DEF End, Other
  <2>3. Starting' = Starting /\ \A q \in Starting : q \in Pids /\ proc'[q] = proc[q]
    BY <1>3, <2>2 DEF Starting
  <2>4. CASE s \in Running
    <3>1. Running' = Running \ {s}
      BY <2>2 DEF Running
    <3>2. Cardinality(Running') = Cardinality(Running) - 1
      BY <2>4, <3>1, OneMore DEF Running
    <3>3. CASE Starting = {}
      <4>1. Cardinality(Running') < 1 + mishaps'
        BY <1>1, <2>1, <3>2, <3>3, Counts DEF Accounts
      <4> QED
        BY <1>1, <2>1, <2>3, <3>3, <4>1, Counts DEF Accounts
    <3>4. CASE Starting # {}
      <4>1. Cardinality(Running') + Cardinality(Starting') < 2 + mishaps'
        BY <1>1, <2>1, <2>3, <3>2, <3>4, Counts DEF Accounts
      <4> QED
        BY <1>1, <2>1, <2>3, <3>4, <4>1, Counts DEF Accounts
    <3> QED
      BY <3>3, <3>4
  <2>5. CASE s \notin Running
    <3>1. Running' = Running
      BY <2>2, <2>5 DEF Running
    <3>2. \A q \in Starting : Knows(q) => Knows(q)'
      BY <1>1, <2>3, <3>1 DEF Knows
    <3> QED
      BY <1>1, <2>1, <2>3, <3>1, <3>2 DEF Accounts
  <2> QED
    BY <2>4, <2>5
<1> QED
  BY <1>2, <1>3

-----------------------------------------------------------------------------
(***************************************************************************)
(* Every step keeps the invariant.                                          *)
(***************************************************************************)
LEMMA NextKeepsIInv == IInv /\ [NextInstances]_ivars => IInv'
<1> SUFFICES ASSUME IInv, [NextInstances]_ivars PROVE IInv'
  OBVIOUS
<1>1. TypeOK'
  BY TypesAreKept DEF IInv
<1>2. Accounts'
  <2>1. CASE UNCHANGED ivars
    BY <2>1 DEF IInv, ivars, Accounts, Knows, Starting, Running
  <2>2. CASE NextInstances
    BY <2>2, ReadLockKeeps, JudgeKeeps, OpenLockKeeps, WriteLockKeeps, OthersKeep
    DEF NextInstances
  <2> QED
    BY <2>1, <2>2
<1> QED
  BY <1>1, <1>2 DEF IInv

(***************************************************************************)
(* Init of a machine on which the program has never run.                    *)
(***************************************************************************)
LEMMA InitEstablishesIInv == InitInstances => IInv
<1> SUFFICES ASSUME InitInstances PROVE IInv
  OBVIOUS
<1>1. Starting = {} /\ Running = {}
  BY DEF InitInstances, Starting, Running
<1>2. TypeOK
  BY DEF InitInstances, TypeOK, Empty, Absent
<1> QED
  BY <1>1, <1>2, Counts DEF InitInstances, IInv, Accounts

(***************************************************************************)
(* IsRunning, for every set of process ids and every number of starts: each   *)
(* start that overlaps with another one, cannot read the file that is there,   *)
(* or is killed after it has emptied it, lets in one program at most; without   *)
(* such a start at most one program runs, and the file names it.             *)
(***************************************************************************)
THEOREM OneProgramPerMachine == InstancesSpec => []OneInstanceRuns
<1>1. IInv => OneInstanceRuns
  <2> SUFFICES ASSUME IInv PROVE OneInstanceRuns
    OBVIOUS
  <2>1. CASE Starting = {}
    BY <2>1 DEF IInv, Accounts, OneInstanceRuns
  <2>2. CASE Starting # {}
    <3>1. Cardinality(Starting) >= 1
      BY <2>2, AtLeast DEF Starting
    <3>2. mishaps \in Nat /\ Cardinality(Running) + Cardinality(Starting) <= 2 + mishaps
      BY <2>2 DEF IInv, Accounts, TypeOK
    <3> QED
      BY <2>2, <3>1, <3>2, Counts DEF OneInstanceRuns
  <2> QED
    BY <2>1, <2>2
<1> QED
  BY <1>1, InitEstablishesIInv, NextKeepsIInv, PTL DEF InstancesSpec

-----------------------------------------------------------------------------
(***************************************************************************)
(* The dialog: while it is open and was not accepted, what it has left is     *)
(* nothing or a refusal; once accepted, it is whole.                        *)
(***************************************************************************)
Rows == [url : Urls, chosen : BOOLEAN]

Whole(t) ==
  /\ t.origUrl # New!NoUrl
  /\ t.vSurl # <<>> /\ t.vSurl[1] = t.origUrl /\ t.file # "" /\ (Len(t.vSurl) > 1 => t.nblks > 1)

\* What an OK stored that was refused for want of a file name.
Half(t) ==
  t.origUrl # New!NoUrl /\ t.vSurl = <<>> /\ t.proxyname = "" /\ t.user = "" /\ t.file = ""

Fields == {"open", "url", "file", "nblks", "auth", "user", "use_mirror", "mirrors", "accepted"}

FormTypes ==
  form.open => DOMAIN form = Fields /\ form.mirrors \in Seq(Rows) /\ form.nblks \in {1, 4}

NewInv ==
  /\ FormTypes
  /\ form.open /\ form.accepted => Whole(ntp)
  /\ form.open /\ ~form.accepted => ntp.origUrl = New!NoUrl \/ Half(ntp)
  /\ event.posted => IF event.accepted THEN Whole(event.ntp) ELSE Half(event.ntp)

(* What the user enters changes the form only. *)
LEMMA EntryKeeps ==
  ASSUME NewInv, form.open, UNCHANGED <<ntp, event>>, form'.open, form'.accepted = form.accepted,
         DOMAIN form' = Fields, form'.mirrors \in Seq(Rows), form'.nblks \in {1, 4}
  PROVE  NewInv'
BY DEF NewInv, FormTypes, Whole, Half

(* A row is removed from the table of mirrors. *)
LEMMA RemovalIsTyped ==
  ASSUME NEW s \in Seq(Rows), NEW i \in DOMAIN s
  PROVE  New!RemoveAt(s, i) \in Seq(Rows)
<1>1. i \in 1 .. Len(s) /\ Len(s) \in Nat
  BY LenProperties
<1>2. SubSeq(s, 1, i - 1) \in Seq(Rows)
  BY <1>1, SubSeqProperties
<1>3. SubSeq(s, i + 1, Len(s)) \in Seq(Rows)
  BY <1>1, SubSeqProperties
<1> QED
  BY <1>2, <1>3, ConcatProperties DEF New!RemoveAt

(* The user goes on with the form. *)
LEMMA EntriesKeep ==
  ASSUME NewInv, \/ New!slt_url_changed \/ New!Rename \/ New!SetBlocks \/ New!slt_checkbox_auth
                 \/ New!slt_checkbox_use_mirror \/ New!slt_btn_addmirror \/ New!ChooseMirror
                 \/ New!slt_btn_delmirror \/ New!slt_clear_all
  PROVE  NewInv'
<1>1. form.open /\ UNCHANGED <<ntp, event>>
  BY DEF New!slt_url_changed, New!Rename, New!SetBlocks, New!slt_checkbox_auth, New!slt_checkbox_use_mirror,
         New!slt_btn_addmirror, New!ChooseMirror, New!slt_btn_delmirror, New!slt_clear_all, New!Open, New!Mirrors
<1>2. DOMAIN form = Fields /\ form.mirrors \in Seq(Rows) /\ form.nblks \in {1, 4}
  BY <1>1 DEF NewInv, FormTypes
<1>3. CASE New!slt_url_changed
  BY <1>1, <1>2, <1>3, EntryKeeps DEF New!slt_url_changed, Fields
<1>4. CASE New!Rename
  BY <1>1, <1>2, <1>4, EntryKeeps DEF New!Rename, Fields
<1>5. CASE New!SetBlocks
  BY <1>1, <1>2, <1>5, EntryKeeps DEF New!SetBlocks, Fields
<1>6. CASE New!slt_checkbox_auth
  BY <1>1, <1>2, <1>6, EntryKeeps DEF New!slt_checkbox_auth, Fields
<1>7. CASE New!slt_checkbox_use_mirror
  BY <1>1, <1>2, <1>7, EntryKeeps DEF New!slt_checkbox_use_mirror, Fields
<1>8. CASE New!slt_btn_addmirror
  <2>1. PICK url \in Urls : form' = [form EXCEPT !.mirrors = Append(@, [url |-> url, chosen |-> FALSE])]
    BY <1>8 DEF New!slt_btn_addmirror
  <2>2. Append(form.mirrors, [url |-> url, chosen |-> FALSE]) \in Seq(Rows)
    BY <1>2, AppendProperties DEF Rows
  <2> QED
    BY <1>1, <1>2, <2>1, <2>2, EntryKeeps DEF Fields
<1>9. CASE New!ChooseMirror
  <2>1. PICK i \in DOMAIN form.mirrors : form' = [form EXCEPT !.mirrors[i].chosen = ~@]
    BY <1>9 DEF New!ChooseMirror
  <2> DEFINE row == form.mirrors[i]
             turned == [row EXCEPT !.chosen = ~@]
             table == [form.mirrors EXCEPT ![i] = turned]
  <2>2. row \in Rows
    BY <1>2, ElementOfSeq, LenProperties
  <2>3. turned \in Rows
    BY <2>2 DEF Rows
  <2>4. form' = [form EXCEPT !.mirrors = table]
    BY <2>1
  <2> HIDE DEF turned, row
  <2>5. table \in Seq(Rows)
    BY <1>2, <2>3, ExceptSeq
  <2> HIDE DEF table
  <2> QED
    BY <1>1, <1>2, <2>4, <2>5, EntryKeeps DEF Fields
<1>10. CASE New!slt_btn_delmirror
  <2>1. PICK i \in DOMAIN form.mirrors : form' = [form EXCEPT !.mirrors = New!RemoveAt(@, i)]
    BY <1>10 DEF New!slt_btn_delmirror
  <2>2. New!RemoveAt(form.mirrors, i) \in Seq(Rows)
    BY <1>2, RemovalIsTyped
  <2> QED
    BY <1>1, <1>2, <2>1, <2>2, EntryKeeps DEF Fields
<1>11. CASE New!slt_clear_all
  <2>1. <<>> \in Seq(Rows)
    BY EmptySeq
  <2> QED
    BY <1>1, <1>2, <1>11, <2>1, EntryKeeps DEF New!slt_clear_all, Fields
<1> QED
  BY <1>3, <1>4, <1>5, <1>6, <1>7, <1>8, <1>9, <1>10, <1>11

(* Rows taken in their order are a sequence. *)
LEMMA TakenAreASequence ==
  ASSUME NEW s \in Seq(Rows), NEW rows \in SUBSET (DOMAIN s), NEW it \in New!InOrder(rows)
  PROVE  /\ [i \in DOMAIN it |-> s[it[i]].url] \in Seq(Urls)
         /\ rows = {} => Len([i \in DOMAIN it |-> s[it[i]].url]) = 0
<1> DEFINE n == New!Cardinality(rows)
           taken == [i \in DOMAIN it |-> s[it[i]].url]
<1>1. IsFiniteSet(DOMAIN s)
  <2>1. DOMAIN s = 1 .. Len(s) /\ Len(s) \in Nat
    BY LenProperties
  <2> QED
    BY <2>1, FS_Interval
<1>2. IsFiniteSet(rows)
  BY <1>1, FS_Subset
<1>3. n \in Nat /\ (rows = {} => n = 0)
  BY <1>2, FS_CardinalityType, FS_EmptySet, SameCount
<1>4. it \in [1 .. n -> rows]
  BY DEF New!InOrder
<1> HIDE DEF n
<1>5. \A i \in 1 .. n : s[it[i]].url \in Urls
  <2> SUFFICES ASSUME NEW i \in 1 .. n PROVE s[it[i]].url \in Urls
    OBVIOUS
  <2>1. it[i] \in DOMAIN s
    BY <1>4
  <2>2. s[it[i]] \in Rows
    BY <2>1, ElementOfSeq, LenProperties
  <2> QED
    BY <2>2 DEF Rows
<1>6. taken = [i \in 1 .. n |-> s[it[i]].url]
  BY <1>4
<1>7. taken \in Seq(Urls)
  BY <1>3, <1>5, <1>6, IsASeq
<1>8. n = 0 => Len(taken) = 0
  <2> SUFFICES ASSUME n = 0 PROVE Len(taken) = 0
    OBVIOUS
  <2>1. DOMAIN taken = {}
    BY <1>6
  <2>2. Len(taken) \in Nat /\ DOMAIN taken = 1 .. Len(taken)
    BY <1>7, LenProperties
  <2> HIDE DEF taken
  <2> QED
    BY <2>1, <2>2
<1> QED
  BY <1>3, <1>7, <1>8

(* OK is refused, or leaves a task with its list of URLs. *)
LEMMA OkKeeps == ASSUME NewInv, New!slt_btn_ok PROVE NewInv'
<1>1. form.open /\ UNCHANGED event
  BY DEF New!slt_btn_ok, New!Open
<1>2. DOMAIN form = Fields /\ form.mirrors \in Seq(Rows) /\ form.nblks \in {1, 4}
  BY <1>1 DEF NewInv, FormTypes
<1>3. CASE form.url = New!NoUrl \/ form.file = ""
  <2>1. ntp' = New!Param(form.url, form.file, form.nblks, "", "", <<>>) /\ form' = form
    BY <1>3 DEF New!slt_btn_ok
  <2>2. ntp'.origUrl = form.url /\ ntp'.file = form.file /\ ntp'.user = "" /\ ntp'.proxyname = "" /\ ntp'.vSurl = <<>>
    BY <2>1 DEF New!Param
  <2>3. ntp'.origUrl = New!NoUrl \/ Half(ntp)'
    BY <1>3, <2>2 DEF Half
  <2>4. ~form.accepted
    BY DEF New!slt_btn_ok, New!Open
  <2> QED
    BY <1>1, <2>1, <2>3, <2>4 DEF NewInv, FormTypes, Whole, Half
<1>4. CASE ~(form.url = New!NoUrl \/ form.file = "")
  <2> DEFINE taken(it) == [i \in DOMAIN it |-> form.mirrors[it[i]].url]
  <2>1. PICK it \in New!InOrder(New!MirrorsTaken) :
           ntp' = New!Param(form.url, form.file, form.nblks,
                        IF form.auth THEN form.user ELSE "", New!getProxyName(form.url),
                        <<form.url>> \o taken(it))
    BY <1>4 DEF New!slt_btn_ok
  <2>2. New!MirrorsTaken \in SUBSET (DOMAIN form.mirrors) /\ (form.nblks <= 1 => New!MirrorsTaken = {})
    BY <1>2 DEF New!MirrorsTaken, New!ChosenMirrors
  <2>3. taken(it) \in Seq(Urls) /\ (New!MirrorsTaken = {} => Len(taken(it)) = 0)
    BY <1>2, <2>2, TakenAreASequence
  <2> DEFINE rest == taken(it)
             urls == <<form.url>> \o rest
  <2>4. ntp'.origUrl = form.url /\ ntp'.file = form.file /\ ntp'.nblks = form.nblks /\ ntp'.vSurl = urls
    BY <2>1 DEF New!Param
  <2>5. rest \in Seq(Urls) /\ (New!MirrorsTaken = {} => Len(rest) = 0)
    BY <2>3
  <2> HIDE DEF taken, rest
  <2>6. <<form.url>> \in Seq(Urls \cup {form.url}) /\ rest \in Seq(Urls \cup {form.url})
    <3>1. \A i \in 1 .. Len(rest) : rest[i] \in Urls \cup {form.url}
      BY <2>5, ElementOfSeq
    <3> QED
      BY <2>5, <3>1, SeqDef
  <2>7. Len(<<form.url>>) = 1 /\ <<form.url>>[1] = form.url
    OBVIOUS
  <2>8. Len(urls) = 1 + Len(rest) /\ urls[1] = form.url
    BY <2>6, <2>7, ConcatProperties, LenProperties
  <2>9. urls # <<>>
    <3>1. Len(rest) \in Nat
      BY <2>5, LenProperties
    <3>2. Len(<<>>) = 0
      OBVIOUS
    <3> QED
      BY <2>8, <3>1, <3>2
  <2>10. Len(urls) > 1 => form.nblks > 1
    BY <1>2, <2>2, <2>5, <2>8
  <2> HIDE DEF urls
  <2>11. Whole(ntp)'
    BY <1>4, <2>4, <2>8, <2>9, <2>10 DEF Whole
  <2>12. form' = [form EXCEPT !.accepted = TRUE]
    BY <1>4 DEF New!slt_btn_ok
  <2>13. /\ DOMAIN form' = Fields /\ form'.mirrors = form.mirrors /\ form'.nblks = form.nblks
         /\ form'.open /\ form'.accepted
    BY <1>1, <1>2, <2>12 DEF Fields
  <2> QED
    BY <1>1, <1>2, <2>11, <2>13 DEF NewInv, FormTypes, Whole, Half
<1> QED
  BY <1>3, <1>4

(* Every step of the dialog and of its slot keeps the invariant. *)
LEMMA NewStepKeeps == NewInv /\ [New!Next]_(New!vars) => NewInv'
<1> SUFFICES ASSUME NewInv, [New!Next]_(New!vars) PROVE NewInv'
  OBVIOUS
<1>1. CASE New!fileNewUrl
  <2>1. PICK url : form' = [open |-> TRUE, url |-> url, file |-> New!getFile(url), nblks |-> 4,
                    auth |-> FALSE, user |-> "", use_mirror |-> FALSE, mirrors |-> <<>>,
                    accepted |-> FALSE]
    BY <1>1 DEF New!fileNewUrl
  <2>4. form'.open /\ ~form'.accepted /\ form'.mirrors = <<>> /\ form'.nblks = 4
    BY <2>1
  <2>5. DOMAIN form' = Fields
    BY <2>1 DEF Fields
  <2>2. ntp'.origUrl = New!NoUrl
    BY <1>1 DEF New!fileNewUrl, New!NoParam, New!Param
  <2>3. event'.posted = FALSE
    BY <1>1 DEF New!fileNewUrl, New!None
  <2> QED
    BY <2>2, <2>3, <2>4, <2>5, EmptySeq DEF NewInv, FormTypes
<1>2. CASE New!Return
  <2>1. form'.open = FALSE /\ form.open
    BY <1>2 DEF New!Return, New!Closed
  <2>2. event'.posted => IF event'.accepted THEN Whole(event'.ntp) ELSE Half(event'.ntp)
    <3>1. CASE ntp.origUrl = New!NoUrl
      <4>1. event' = event
        BY <1>2, <3>1 DEF New!Return
      <4> QED
        BY <4>1 DEF NewInv
    <3>2. CASE ntp.origUrl # New!NoUrl
      <4>1. event' = [posted |-> TRUE, accepted |-> form.accepted, ntp |-> ntp]
        BY <1>2, <3>2 DEF New!Return
      <4>2. event'.accepted = form.accepted /\ event'.ntp = ntp
        BY <4>1
      <4>3. IF form.accepted THEN Whole(ntp) ELSE Half(ntp)
        BY <2>1, <3>2 DEF NewInv
      <4> QED
        BY <4>2, <4>3
    <3> QED
      BY <3>1, <3>2
  <2> QED
    BY <2>1, <2>2 DEF NewInv, FormTypes, Whole, Half
<1>3. CASE UNCHANGED New!vars
  BY <1>3 DEF NewInv, FormTypes, Whole, Half, New!vars
<1> QED
  BY <1>1, <1>2, <1>3, EntriesKeep, OkKeeps DEF New!Next

(* Before a dialog is opened nothing has been posted. *)
LEMMA NewBegins == New!Init => NewInv
<1> SUFFICES ASSUME New!Init PROVE NewInv
  OBVIOUS
<1>1. form.open = FALSE /\ event.posted = FALSE
  BY DEF New!Init, New!Closed, New!None
<1> QED
  BY <1>1 DEF NewInv, FormTypes

(* The invariant says what the run checks. *)
LEMMA NewInvImplies == NewInv => New!AcceptedTaskIsWhole
BY DEF NewInv, Whole, Half, New!AcceptedTaskIsWhole

-----------------------------------------------------------------------------
(***************************************************************************)
(* The boxes.                                                               *)
(***************************************************************************)
Widgets == {"none", "hidden", "shown"}

BoxTypes ==
  /\ messages \in Nat
  /\ lstMessages \in [Views!Folders -> Seq(Views!Messages)]
  /\ MsgList \in [Views!Folders -> SUBSET Views!Messages]
  /\ MsgItem \in [Views!Messages -> Views!Folders \cup {"none"}]
  /\ mTaskId \in [Views!Messages -> Int]
  /\ led \in [Views!Messages -> Widgets] /\ list \in [Views!Messages -> Widgets]
  /\ nodes \in [Views!Messages -> Int]
  /\ freed \in SUBSET (1 .. messages)

\* One view is shown: that of the selected folder, or of the one selected before the root.
OneView == MyCurFolder \in Views!Folders /\ shown = {MyCurFolder} /\ folder \in {Views!Root, MyCurFolder}

RowsAreBox ==
  /\ Views!ToSet(Views!NewTaskBox) = MsgList["NewTaskBox"] /\ Views!ToSet(Views!NewTaskBox) \cap freed = {}
  /\ Views!ToSet(Views!NewTaskBox) \subseteq 1 .. messages

RowsAreComplete ==
  \A m \in Views!ToSet(Views!NewTaskBox) :
     MsgItem[m] = "NewTaskBox" /\ led[m] # "none" /\ list[m] # "none" /\ nodes[m] > 0

IdsDiffer ==
  \A i, j \in DOMAIN Views!NewTaskBox : mTaskId[Views!NewTaskBox[i]] = mTaskId[Views!NewTaskBox[j]] => i = j

\* Only rows of the box have a widget that is shown, and at most one of them.
OneIsShown(widget, rows) ==
  /\ \A m \in Views!Messages : widget[m] = "shown" => m \in rows
  /\ \A m, k \in Views!Messages : widget[m] = "shown" /\ widget[k] = "shown" => m = k

\* The current message is the one whose row is selected.
CurrentIsSelected ==
  /\ item \in {Views!NULL} \cup Views!ToSet(Views!NewTaskBox) /\ MyCurTaskMsg \in {Views!NULL, item}
  /\ MyCurTaskMsg # Views!NULL => /\ list[MyCurTaskMsg] = "shown"
                                  /\ led[MyCurTaskMsg] = "shown" \/ OrigListbox

BoxInv ==
  /\ BoxTypes /\ OneView /\ RowsAreBox /\ RowsAreComplete /\ IdsDiffer
  /\ OneIsShown(led, Views!ToSet(Views!NewTaskBox)) /\ OneIsShown(list, Views!ToSet(Views!NewTaskBox))
  /\ CurrentIsSelected

\* The message of a slot has the slot for its id, and so has every message that found one.
QueueAgrees ==
  /\ TaskQue \in [Views!Slots -> Nat]
  /\ \A i \in Views!Slots : TaskQue[i] # Views!NULL =>
        TaskQue[i] \in Views!ToSet(Views!NewTaskBox) /\ mTaskId[TaskQue[i]] = i
  /\ \A m \in Views!ToSet(Views!NewTaskBox) \ strays : mTaskId[m] \in Views!Slots /\ TaskQue[mTaskId[m]] = m

\* Without two messages of one id all of this holds, and only a stray can have the id of another.
BoxesInv ==
  /\ ~muddled => BoxInv /\ QueueAgrees /\ ~dead
  /\ muddled => strays # {}

(* The elements of a sequence in terms of its places. *)
LEMMA Elements ==
  ASSUME NEW S, NEW s \in Seq(S)
  PROVE  /\ DOMAIN s = 1 .. Len(s) /\ Len(s) \in Nat
         /\ Views!ToSet(s) \in SUBSET S
         /\ \A e : e \in Views!ToSet(s) <=> \E i \in 1 .. Len(s) : s[i] = e
<1>1. DOMAIN s = 1 .. Len(s) /\ Len(s) \in Nat
  BY LenProperties
<1>2. \A i \in 1 .. Len(s) : s[i] \in S
  BY ElementOfSeq
<1> QED
  BY <1>1, <1>2 DEF Views!ToSet

(* An element of a sequence that has it once is removed. *)
LEMMA RemovedIs ==
  ASSUME NEW S, NEW s \in Seq(S), NEW i \in 1 .. Len(s),
         \A j \in 1 .. Len(s) : s[j] = s[i] => j = i
  PROVE  LET r == Views!RemoveFirst(s, s[i]) IN
         /\ r \in Seq(S) /\ Len(r) = Len(s) - 1
         /\ \A k \in 1 .. Len(r) : r[k] = IF k < i THEN s[k] ELSE s[k + 1]
<1> DEFINE e == s[i]
           found == {k \in 1 .. Len(s) : s[k] = e}
           r == Views!RemoveFirst(s, e)
<1>1. Len(s) \in Nat /\ i \in Int /\ 1 <= i /\ i <= Len(s)
  BY LenProperties
<1>2. found = {i}
  OBVIOUS
<1>3. Views!Min(found) = i
  BY <1>1, <1>2 DEF Views!Min
<1>4. Views!SelectInSeq(s, LAMBDA v : v = e) = i
  <2>1. Views!SelectInSeq(s, LAMBDA v : v = e) = IF found # {} THEN Views!Min(found) ELSE 0
    BY DEF Views!SelectInSeq
  <2> HIDE DEF found
  <2> QED
    BY <1>2, <1>3, <2>1
<1>5. r = Views!RemoveAt(s, i)
  <2>1. \E k \in 1 .. Len(s) : s[k] = e
    OBVIOUS
  <2>2. r = Views!RemoveAt(s, Views!SelectInSeq(s, LAMBDA v : v = e))
    BY <2>1 DEF Views!RemoveFirst
  <2> HIDE DEF r
  <2> QED
    BY <1>4, <2>2
<1> DEFINE a == SubSeq(s, 1, i - 1)
           b == SubSeq(s, i + 1, Len(s))
<1>6. a \in Seq(S) /\ Len(a) = i - 1 /\ \A k \in 1 .. i - 1 : a[k] = s[k]
  <2>1. \A k \in 1 .. i - 1 : s[k] \in S
    BY <1>1, ElementOfSeq
  <2>2. /\ a \in Seq(S) /\ Len(a) = IF 1 <= i - 1 THEN i - 1 - 1 + 1 ELSE 0
        /\ \A k \in 1 .. i - 1 - 1 + 1 : a[k] = s[1 + k - 1]
    BY <1>1, <2>1, SubSeqProperties
  <2> HIDE DEF a
  <2> QED
    BY <1>1, <2>2
<1>7. b \in Seq(S) /\ Len(b) = Len(s) - i /\ \A k \in 1 .. Len(s) - i : b[k] = s[k + i]
  <2>1. \A k \in i + 1 .. Len(s) : s[k] \in S
    BY <1>1, ElementOfSeq
  <2>2. /\ b \in Seq(S) /\ Len(b) = IF i + 1 <= Len(s) THEN Len(s) - (i + 1) + 1 ELSE 0
        /\ \A k \in 1 .. Len(s) - (i + 1) + 1 : b[k] = s[i + 1 + k - 1]
    BY <1>1, <2>1, SubSeqProperties
  <2> HIDE DEF b
  <2>3. \A k \in 1 .. Len(s) - i : i + 1 + k - 1 = k + i
    BY <1>1
  <2> QED
    BY <1>1, <2>2, <2>3
<1>8. r = a \o b
  <2> HIDE DEF r, a, b
  <2> QED
    BY <1>5 DEF Views!RemoveAt, a, b
<1> HIDE DEF a, b, r
<1>9. r \in Seq(S) /\ Len(r) = Len(s) - 1
  BY <1>1, <1>6, <1>7, <1>8, ConcatProperties
<1>10. ASSUME NEW k \in 1 .. Len(r) PROVE r[k] = IF k < i THEN s[k] ELSE s[k + 1]
  <2>1. r[k] = IF k <= i - 1 THEN a[k] ELSE b[k - (i - 1)]
    BY <1>1, <1>6, <1>7, <1>8, <1>9, ConcatProperties
  <2>2. CASE k < i
    BY <1>1, <1>6, <2>1, <2>2
  <2>3. CASE ~(k < i)
    <3>1. k - (i - 1) \in 1 .. Len(s) - i /\ k - (i - 1) + i = k + 1
      BY <1>1, <1>9, <2>3
    <3>2. b[k - (i - 1)] = s[k - (i - 1) + i]
      BY <1>7, <3>1
    <3> QED
      BY <1>1, <2>1, <2>3, <3>1, <3>2
  <2> QED
    BY <2>2, <2>3
<1> QED
  BY <1>9, <1>10 DEF r

(* A message is found by the id that it alone has. *)
LEMMA FoundIs ==
  ASSUME NEW box \in Seq(Views!Messages), NEW i \in 1 .. Len(box), NEW id,
         \A j \in 1 .. Len(box) : (mTaskId'[box[j]] = id) <=> (j = i)
  PROVE  Views!FindTaskMsgById(box, id) = box[i]
<1> DEFINE found == {k \in 1 .. Len(box) : mTaskId'[box[k]] = id}
<1>1. Len(box) \in Nat /\ i \in Int
  BY LenProperties
<1>2. found = {i}
  OBVIOUS
<1>3. Views!Min(found) = i
  BY <1>1, <1>2 DEF Views!Min
<1>4. Views!SelectInSeq(box, LAMBDA m : mTaskId'[m] = id) = i
  <2>1. Views!SelectInSeq(box, LAMBDA m : mTaskId'[m] = id) = IF found # {} THEN Views!Min(found) ELSE 0
    BY DEF Views!SelectInSeq
  <2> HIDE DEF found
  <2> QED
    BY <1>2, <1>3, <2>1
<1>5. Views!FindTaskMsgById(box, id) = box[Views!SelectInSeq(box, LAMBDA m : mTaskId'[m] = id)]
  BY DEF Views!FindTaskMsgById
<1> QED
  BY <1>4, <1>5

(* A widget is shown in the place of the others. *)
LEMMA ShownAloneIs ==
  ASSUME NEW w \in [Views!Messages -> Widgets], NEW box \in Seq(Views!Messages), NEW m \in Views!ToSet(box),
         \A k \in Views!Messages : w[k] = "shown" => k \in Views!ToSet(box)
  PROVE  LET v == Views!ShowOnly(w, box, m) IN
         /\ v \in [Views!Messages -> Widgets] /\ v[m] = "shown" /\ OneIsShown(v, Views!ToSet(box))
         /\ \A k \in Views!ToSet(box) : v[k] # "none"
<1>1. Views!ToSet(box) \in SUBSET Views!Messages
  BY Elements
<1> QED
  BY <1>1 DEF Views!ShowOnly, OneIsShown, Widgets

(* All of them are hidden. *)
LEMMA HiddenIs ==
  ASSUME NEW w \in [Views!Messages -> Widgets], NEW box \in Seq(Views!Messages),
         \A k \in Views!Messages : w[k] = "shown" => k \in Views!ToSet(box)
  PROVE  LET v == Views!HideAll(w, box) IN
         /\ v \in [Views!Messages -> Widgets] /\ OneIsShown(v, Views!ToSet(box))
         /\ \A k \in Views!ToSet(box) : v[k] # "none"
<1>1. Views!ToSet(box) \in SUBSET Views!Messages
  BY Elements
<1> QED
  BY <1>1 DEF Views!HideAll, OneIsShown, Widgets

(* The box as the handlers go through it. *)
LEMMA TheBox ==
  ASSUME BoxInv
  PROVE  /\ Views!NewTaskBox \in Seq(Views!Messages) /\ DOMAIN Views!NewTaskBox = 1 .. Len(Views!NewTaskBox)
         /\ Len(Views!NewTaskBox) \in Nat /\ Views!ToSet(Views!NewTaskBox) \in SUBSET Views!Messages
         /\ \A m : m \in Views!ToSet(Views!NewTaskBox) <=> \E i \in 1 .. Len(Views!NewTaskBox) : Views!NewTaskBox[i] = m
<1>1. Views!NewTaskBox \in Seq(Views!Messages)
  BY DEF BoxInv, BoxTypes, Views!NewTaskBox, Views!Folders
<1> QED
  BY <1>1, Elements

(* A message of the box is found by its id. *)
LEMMA FoundInTheBox ==
  ASSUME BoxInv, UNCHANGED mTaskId, NEW m \in Views!ToSet(Views!NewTaskBox)
  PROVE  Views!FindTaskMsgById(Views!NewTaskBox, mTaskId[m]) = m
<1>1. PICK i \in 1 .. Len(Views!NewTaskBox) : Views!NewTaskBox[i] = m
  BY TheBox
<1>2. \A j \in 1 .. Len(Views!NewTaskBox) : (mTaskId'[Views!NewTaskBox[j]] = mTaskId[m]) <=> (j = i)
  BY <1>1, TheBox DEF BoxInv, IdsDiffer
<1> QED
  BY <1>1, <1>2, TheBox, FoundIs

(* The message of a task is found by the slot of the task. *)
LEMMA SlotIsFound ==
  ASSUME BoxInv, QueueAgrees, UNCHANGED mTaskId, NEW slot \in Views!Slots, TaskQue[slot] # Views!NULL
  PROVE  /\ Views!FindTaskMsgById(Views!NewTaskBox, slot) = TaskQue[slot]
         /\ TaskQue[slot] \in Views!ToSet(Views!NewTaskBox) /\ mTaskId[TaskQue[slot]] = slot
<1>1. TaskQue[slot] \in Views!ToSet(Views!NewTaskBox) /\ mTaskId[TaskQue[slot]] = slot
  BY DEF QueueAgrees
<1>2. Views!FindTaskMsgById(Views!NewTaskBox, mTaskId[TaskQue[slot]]) = TaskQue[slot]
  BY <1>1, FoundInTheBox
<1> QED
  BY <1>1, <1>2

(* SelectFolder shows the view of the folder, or leaves the one that is shown. *)
LEMMA SelectFolderKeeps ==
  ASSUME BoxInv, NEW f \in Views!Folders \cup {Views!Root}, Views!SelectFolder(f)
  PROVE  BoxInv'
<1>1. UNCHANGED <<messages, lstMessages, MsgList, MsgItem, mTaskId, nodes, freed, item,
                  MyCurTaskMsg, led, list, OrigListbox>>
  BY DEF Views!SelectFolder, Views!pictures, Views!tasks
<1>2. Views!NewTaskBox' = Views!NewTaskBox
  BY <1>1 DEF Views!NewTaskBox
<1>3. OneView'
  BY DEF Views!SelectFolder, Views!ShowTaskMsgList, OneView, BoxInv
<1>4. BoxTypes'
  BY <1>1 DEF BoxInv, BoxTypes
<1>5. RowsAreBox' /\ RowsAreComplete' /\ IdsDiffer'
  BY <1>1, <1>2 DEF BoxInv, RowsAreBox, RowsAreComplete, IdsDiffer
<1>6. OneIsShown(led, Views!ToSet(Views!NewTaskBox))' /\ OneIsShown(list, Views!ToSet(Views!NewTaskBox))'
  BY <1>1, <1>2 DEF BoxInv, OneIsShown
<1>7. CurrentIsSelected'
  BY <1>1, <1>2 DEF BoxInv, CurrentIsSelected
<1> QED
  BY <1>3, <1>4, <1>5, <1>6, <1>7 DEF BoxInv

(* What changes only the pictures and the selection. *)
LEMMA PicturesKeep ==
  ASSUME BoxInv,
         UNCHANGED <<messages, lstMessages, MsgList, MsgItem, mTaskId, nodes, freed, Views!views>>,
         led' \in [Views!Messages -> Widgets], list' \in [Views!Messages -> Widgets],
         OneIsShown(led', Views!ToSet(Views!NewTaskBox)), OneIsShown(list', Views!ToSet(Views!NewTaskBox)),
         \A k \in Views!ToSet(Views!NewTaskBox) : led'[k] # "none" /\ list'[k] # "none",
         item' \in {Views!NULL} \cup Views!ToSet(Views!NewTaskBox), MyCurTaskMsg' \in {Views!NULL, item'},
         MyCurTaskMsg' # Views!NULL => /\ list'[MyCurTaskMsg'] = "shown"
                                       /\ led'[MyCurTaskMsg'] = "shown" \/ OrigListbox'
  PROVE  BoxInv'
<1>1. Views!NewTaskBox' = Views!NewTaskBox
  BY DEF Views!NewTaskBox
<1>2. BoxTypes'
  BY DEF BoxInv, BoxTypes
<1>3. OneView'
  BY DEF BoxInv, OneView, Views!views
<1>4. RowsAreBox' /\ RowsAreComplete' /\ IdsDiffer'
  BY <1>1 DEF BoxInv, RowsAreBox, RowsAreComplete, IdsDiffer
<1>5. CurrentIsSelected'
  BY <1>1 DEF CurrentIsSelected
<1> QED
  BY <1>1, <1>2, <1>3, <1>4, <1>5 DEF BoxInv, OneIsShown

(* SelectMessage shows the widgets of the message that becomes the current one. *)
LEMMA SelectMessageKeeps ==
  ASSUME BoxInv, NEW m \in {Views!NULL} \cup Views!ToSet(Views!NewTaskBox), Views!SelectMessage(m)
  PROVE  BoxInv'
<1>1. UNCHANGED <<messages, lstMessages, MsgList, MsgItem, mTaskId, nodes, freed, Views!views>>
  BY DEF Views!SelectMessage, Views!tasks
<1>2. item' = m /\ MyCurTaskMsg' \in {Views!NULL, m}
  BY DEF Views!SelectMessage, Views!slotMessageChanged
<1>3. /\ Views!NewTaskBox \in Seq(Views!Messages)
      /\ led \in [Views!Messages -> Widgets] /\ list \in [Views!Messages -> Widgets]
      /\ OneIsShown(led, Views!ToSet(Views!NewTaskBox)) /\ OneIsShown(list, Views!ToSet(Views!NewTaskBox))
      /\ \A k \in Views!ToSet(Views!NewTaskBox) : led[k] # "none" /\ list[k] # "none"
  BY TheBox DEF BoxInv, BoxTypes, RowsAreComplete
<1>4. CASE MyCurTaskMsg' = Views!NULL
  <2>1. led' = led /\ list' = list
    BY <1>4 DEF Views!SelectMessage
  <2> QED
    BY <1>1, <1>2, <1>3, <1>4, <2>1, PicturesKeep
<1>5. CASE MyCurTaskMsg' # Views!NULL
  <2>1. m \in Views!ToSet(Views!NewTaskBox) /\ MyCurTaskMsg' = m
    BY <1>2, <1>5
  <2>2. led' = Views!ShowOnly(led, Views!NewTaskBox, m) /\ list' = Views!ShowOnly(list, Views!NewTaskBox, m)
    BY <1>1, <1>5, <2>1, FoundInTheBox DEF Views!SelectMessage, Views!ShowById
  <2>3. /\ led' \in [Views!Messages -> Widgets] /\ led'[m] = "shown" /\ OneIsShown(led', Views!ToSet(Views!NewTaskBox))
        /\ \A k \in Views!ToSet(Views!NewTaskBox) : led'[k] # "none"
    BY <1>3, <2>1, <2>2, ShownAloneIs DEF OneIsShown
  <2>4. /\ list' \in [Views!Messages -> Widgets] /\ list'[m] = "shown" /\ OneIsShown(list', Views!ToSet(Views!NewTaskBox))
        /\ \A k \in Views!ToSet(Views!NewTaskBox) : list'[k] # "none"
    BY <1>3, <2>1, <2>2, ShownAloneIs DEF OneIsShown
  <2> QED
    BY <1>1, <1>2, <2>1, <2>3, <2>4, PicturesKeep
<1> QED
  BY <1>4, <1>5

(* ListNodeSelectChanged shows the picture of the current message, or hides all pictures. *)
LEMMA SelectNodeKeeps ==
  ASSUME BoxInv, NEW m \in Views!Messages, Views!SelectGraphic(m) \/ \E t \in 0 .. MaxThreads - 1 : Views!SelectThread(m, t)
  PROVE  BoxInv'
<1>1. UNCHANGED <<messages, lstMessages, MsgList, MsgItem, mTaskId, nodes, freed, Views!views, item,
                  MyCurTaskMsg, list>>
  BY DEF Views!SelectGraphic, Views!SelectThread, Views!tasks
<1>2. /\ Views!NewTaskBox \in Seq(Views!Messages)
      /\ led \in [Views!Messages -> Widgets] /\ list \in [Views!Messages -> Widgets]
      /\ OneIsShown(led, Views!ToSet(Views!NewTaskBox)) /\ OneIsShown(list, Views!ToSet(Views!NewTaskBox))
      /\ \A k \in Views!ToSet(Views!NewTaskBox) : led[k] # "none" /\ list[k] # "none"
  BY TheBox DEF BoxInv, BoxTypes, RowsAreComplete
<1>3. /\ item \in {Views!NULL} \cup Views!ToSet(Views!NewTaskBox) /\ MyCurTaskMsg \in {Views!NULL, item}
      /\ MyCurTaskMsg # Views!NULL => list[MyCurTaskMsg] = "shown"
  BY DEF BoxInv, CurrentIsSelected
<1>4. CASE Views!SelectGraphic(m)
  <2>1. CASE MyCurTaskMsg = Views!NULL
    <3>1. led' = led
      BY <1>4, <2>1 DEF Views!SelectGraphic
    <3> QED
      BY <1>1, <1>2, <1>3, <2>1, <3>1, PicturesKeep
  <2>2. CASE MyCurTaskMsg # Views!NULL
    <3>1. MyCurTaskMsg \in Views!ToSet(Views!NewTaskBox)
      BY <1>3, <2>2
    <3>2. led' = Views!ShowOnly(led, Views!NewTaskBox, MyCurTaskMsg)
      BY <1>1, <1>4, <2>2, <3>1, FoundInTheBox DEF Views!SelectGraphic, Views!ShowById
    <3>3. /\ led' \in [Views!Messages -> Widgets] /\ led'[MyCurTaskMsg] = "shown"
          /\ OneIsShown(led', Views!ToSet(Views!NewTaskBox)) /\ \A k \in Views!ToSet(Views!NewTaskBox) : led'[k] # "none"
      BY <1>2, <3>1, <3>2, ShownAloneIs DEF OneIsShown
    <3> QED
      BY <1>1, <1>2, <1>3, <3>3, PicturesKeep
  <2> QED
    BY <2>1, <2>2
<1>5. ASSUME NEW t, Views!SelectThread(m, t) PROVE BoxInv'
  <2>1. led' = Views!HideAll(led, Views!NewTaskBox) /\ OrigListbox' = TRUE
    BY <1>5 DEF Views!SelectThread
  <2>2. /\ led' \in [Views!Messages -> Widgets] /\ OneIsShown(led', Views!ToSet(Views!NewTaskBox))
        /\ \A k \in Views!ToSet(Views!NewTaskBox) : led'[k] # "none"
    BY <1>2, <2>1, HiddenIs DEF OneIsShown
  <2> QED
    BY <1>1, <1>2, <1>3, <2>1, <2>2, PicturesKeep
<1> QED
  BY <1>4, <1>5

(* InitListNode counts the threads anew. *)
LEMMA InitListNodeKeeps ==
  ASSUME BoxInv, QueueAgrees, NEW slot \in Views!Slots, NEW n \in 1 .. MaxThreads, Views!InitListNode(slot, n)
  PROVE  BoxInv' /\ ~dead'
<1> DEFINE m == Views!FindTaskMsgById(Views!NewTaskBox, slot)
<1>1. UNCHANGED <<messages, lstMessages, MsgList, MsgItem, mTaskId, freed, item, MyCurTaskMsg,
                  Views!views, led, list, OrigListbox>> /\ nodes' = [nodes EXCEPT ![m] = n]
      /\ dead' = (led[m] = "none" \/ list[m] = "none")
  BY DEF Views!InitListNode, Views!pictures, Views!tasks
<1>m. m \in Views!ToSet(Views!NewTaskBox) /\ m \in Views!Messages
  BY <1>1, SlotIsFound, TheBox DEF Views!InitListNode
<1> HIDE DEF m
<1>d. ~dead'
  BY <1>1, <1>m DEF BoxInv, RowsAreComplete
<1>2. Views!NewTaskBox' = Views!NewTaskBox
  BY <1>1 DEF Views!NewTaskBox
<1>3. n \in Int /\ n > 0
  OBVIOUS
<1>4. BoxTypes'
  BY <1>1, <1>3 DEF BoxInv, BoxTypes
<1>5. RowsAreBox' /\ IdsDiffer' /\ OneView'
  BY <1>1, <1>2 DEF BoxInv, RowsAreBox, IdsDiffer, OneView, Views!views
<1>6. RowsAreComplete'
  BY <1>1, <1>2, <1>3, <1>m, TheBox DEF BoxInv, RowsAreComplete, BoxTypes
<1>7. OneIsShown(led, Views!ToSet(Views!NewTaskBox))' /\ OneIsShown(list, Views!ToSet(Views!NewTaskBox))' /\ CurrentIsSelected'
  BY <1>1, <1>2 DEF BoxInv, OneIsShown, CurrentIsSelected
<1> QED
  BY <1>4, <1>5, <1>6, <1>7, <1>d DEF BoxInv

(* A new row is put behind the others. *)
LEMMA AppendedIs ==
  ASSUME NEW S, NEW s \in Seq(S), NEW e \in S
  PROVE  LET a == Append(s, e) IN
         /\ a \in Seq(S) /\ DOMAIN a = 1 .. Len(s) + 1 /\ a[Len(s) + 1] = e
         /\ \A i \in 1 .. Len(s) : a[i] = s[i]
         /\ Views!ToSet(a) = Views!ToSet(s) \cup {e}
<1> DEFINE a == Append(s, e)
<1>1. /\ a \in Seq(S) /\ Len(a) = Len(s) + 1 /\ a[Len(s) + 1] = e
      /\ \A i \in 1 .. Len(s) : a[i] = s[i]
  BY AppendProperties
<1> HIDE DEF a
<1>2. DOMAIN a = 1 .. Len(s) + 1 /\ Len(s) \in Nat
  BY <1>1, LenProperties
<1>3. \A x : x \in Views!ToSet(a) <=> \E i \in 1 .. Len(s) + 1 : a[i] = x
  BY <1>1, Elements
<1>4. \A x : x \in Views!ToSet(s) <=> \E i \in 1 .. Len(s) : s[i] = x
  BY Elements
<1>5. \A i : i \in 1 .. Len(s) + 1 <=> i \in 1 .. Len(s) \/ i = Len(s) + 1
  BY <1>2
<1>6. Views!ToSet(a) = Views!ToSet(s) \cup {e}
  BY <1>1, <1>3, <1>4, <1>5
<1> QED
  BY <1>1, <1>2, <1>6 DEF a

(* The id of a task is the least of the free slots, or any number. *)
LEMMA TaskIdsAre ==
  ASSUME NEW id \in Views!TaskIds
  PROVE  id \in Int /\ (Views!NullSlots # {} => id \in Views!NullSlots)
<1>1. CASE Views!NullSlots = {}
  BY <1>1 DEF Views!TaskIds, Views!Garbage
<1>2. CASE Views!NullSlots # {}
  <2>1. Views!NullSlots \in SUBSET Nat
    BY DEF Views!NullSlots, Views!Slots
  <2>2. \E n \in Views!NullSlots : \A k \in Views!NullSlots : n <= k
    BY <1>2, <2>1, LeastNumber
  <2>3. id = CHOOSE n \in Views!NullSlots : \A k \in Views!NullSlots : n <= k
    BY <1>2 DEF Views!TaskIds
  <2>4. id \in Views!NullSlots
    BY <2>2, <2>3
  <2> QED
    BY <2>1, <2>4
<1> QED
  BY <1>1, <1>2

(* ProcessNewTask adds a message, whose id only that of a task without a slot can be another's. *)
LEMMA IdsMeet ==
  ASSUME BoxInv, QueueAgrees, strays = {}, ~muddled, Views!ProcessNewTask, muddled' PROVE strays' # {}
<1>1. PICK id \in Views!TaskIds :
         /\ IF Views!NullSlots = {} THEN strays' = strays \cup {messages + 1} /\ UNCHANGED TaskQue
            ELSE TaskQue' = [TaskQue EXCEPT ![id] = messages + 1] /\ UNCHANGED strays
         /\ muddled' = (muddled \/ \E i \in DOMAIN Views!NewTaskBox : mTaskId[Views!NewTaskBox[i]] = id)
  BY DEF Views!ProcessNewTask
<1>2. PICK i \in DOMAIN Views!NewTaskBox : mTaskId[Views!NewTaskBox[i]] = id
  BY <1>1
<1>3. Views!NewTaskBox[i] \in Views!ToSet(Views!NewTaskBox)
  BY DEF Views!ToSet
<1>4. CASE Views!NullSlots = {}
  BY <1>1, <1>4
<1>5. CASE Views!NullSlots # {}
  <2>1. id \in Views!Slots /\ TaskQue[id] = Views!NULL
    BY <1>5, TaskIdsAre DEF Views!NullSlots
  <2>2. TaskQue[id] = Views!NewTaskBox[i]
    BY <1>2, <1>3 DEF QueueAgrees
  <2> QED
    BY <1>3, <2>1, <2>2, TheBox DEF Views!Messages, Views!NULL
<1> QED
  BY <1>4, <1>5

(* ProcessNewTask adds a message with an id of its own, and selects it when the id is 0. *)
LEMMA ProcessNewTaskKeeps ==
  ASSUME BoxInv, QueueAgrees, ~dead, Views!ProcessNewTask, ~muddled'
  PROVE  BoxInv' /\ QueueAgrees' /\ ~dead'
<1> DEFINE m == messages + 1
           box == Append(Views!NewTaskBox, m)
           newLed == [led EXCEPT ![m] = "hidden"]
           newList == [list EXCEPT ![m] = "hidden"]
<1>0. PICK id \in Views!TaskIds :
         LET first == Views!FindTaskMsgById(box, id)
             aLed == [led EXCEPT ![first] = "hidden"]
             aList == [list EXCEPT ![first] = "hidden"] IN
         /\ mTaskId' = [mTaskId EXCEPT ![m] = id]
         /\ IF Views!NullSlots = {} THEN strays' = strays \cup {m} /\ UNCHANGED TaskQue
            ELSE TaskQue' = [TaskQue EXCEPT ![id] = m] /\ UNCHANGED strays
         /\ muddled' = (muddled \/ \E i \in DOMAIN Views!NewTaskBox : mTaskId[Views!NewTaskBox[i]] = id)
         /\ nodes' = [nodes EXCEPT ![first] = 1]
         /\ IF id = 0
              THEN /\ led' = Views!ShowById(aLed, box, id) /\ list' = Views!ShowById(aList, box, id)
                   /\ dead' = (Views!MeetsNull(box, aLed) \/ Views!MeetsNull(box, aList))
                   /\ Views!slotMessageChanged(m, box, "NewTaskBox")
              ELSE led' = aLed /\ list' = aList /\ UNCHANGED <<item, MyCurTaskMsg, dead>>
  BY DEF Views!ProcessNewTask
<1>1. /\ m \in Views!Messages /\ messages' = m
      /\ lstMessages' = [lstMessages EXCEPT !["NewTaskBox"] = box]
      /\ MsgList' = [MsgList EXCEPT !["NewTaskBox"] = @ \cup {m}]
      /\ MsgItem' = [MsgItem EXCEPT ![m] = "NewTaskBox"]
      /\ UNCHANGED <<freed, MyCurThreadId, OrigListbox>>
  BY DEF Views!ProcessNewTask
<1>2. /\ folder' = "NewTaskBox"
      /\ IF folder = "NewTaskBox" THEN UNCHANGED <<shown, MyCurFolder>>
         ELSE Views!ShowTaskMsgList("NewTaskBox")
  BY DEF Views!ProcessNewTask
<1>4. id \in Int /\ mTaskId' = [mTaskId EXCEPT ![m] = id]
  BY <1>0, TaskIdsAre
<1>5. \A i \in DOMAIN Views!NewTaskBox : mTaskId[Views!NewTaskBox[i]] # id
  BY <1>0
<1>6. BoxTypes /\ OneView /\ RowsAreBox /\ RowsAreComplete /\ IdsDiffer
      /\ OneIsShown(led, Views!ToSet(Views!NewTaskBox)) /\ OneIsShown(list, Views!ToSet(Views!NewTaskBox)) /\ CurrentIsSelected
  BY DEF BoxInv
<1>7. messages \in Nat /\ m \notin Views!ToSet(Views!NewTaskBox) /\ m \notin freed /\ m # Views!NULL /\ m \in 1 .. m
      /\ 1 .. messages \subseteq 1 .. m
  BY <1>6 DEF BoxTypes, RowsAreBox, Views!NULL
<1>8. Views!NewTaskBox' = box
  BY <1>1, <1>6 DEF Views!NewTaskBox, BoxTypes, Views!Folders
<1>9. /\ box \in Seq(Views!Messages) /\ DOMAIN box = 1 .. Len(Views!NewTaskBox) + 1 /\ box[Len(Views!NewTaskBox) + 1] = m
      /\ \A i \in 1 .. Len(Views!NewTaskBox) : box[i] = Views!NewTaskBox[i]
      /\ Views!ToSet(box) = Views!ToSet(Views!NewTaskBox) \cup {m}
  BY <1>1, TheBox, AppendedIs
<1>10. Len(box) = Len(Views!NewTaskBox) + 1 /\ Len(Views!NewTaskBox) \in Nat
  BY <1>1, TheBox, AppendProperties
<1>11. Views!ToSet(Views!NewTaskBox) \in SUBSET Views!Messages
  BY TheBox
<1> HIDE DEF box, m
<1>12. OneView'
  BY <1>2, <1>6 DEF OneView, Views!ShowTaskMsgList, Views!Folders, Views!Root
<1>13. /\ newLed \in [Views!Messages -> Widgets] /\ newList \in [Views!Messages -> Widgets]
       /\ newLed[m] = "hidden" /\ newList[m] = "hidden"
       /\ \A k \in Views!Messages : k # m => newLed[k] = led[k] /\ newList[k] = list[k]
  BY <1>1, <1>6 DEF BoxTypes, Widgets
<1>14. /\ OneIsShown(newLed, Views!ToSet(box)) /\ OneIsShown(newList, Views!ToSet(box))
       /\ \A k \in Views!ToSet(box) : newLed[k] # "none" /\ newList[k] # "none"
  BY <1>6, <1>9, <1>11, <1>13 DEF OneIsShown, RowsAreComplete
<1> HIDE DEF newLed, newList
<1>15. \A i \in 1 .. Len(box) : mTaskId'[box[i]] = (IF i = Len(box) THEN id ELSE mTaskId[Views!NewTaskBox[i]])
  <2>1. mTaskId'[m] = id /\ \A k \in Views!Messages : k # m => mTaskId'[k] = mTaskId[k]
    BY <1>1, <1>4, <1>6 DEF BoxTypes
  <2>2. ASSUME NEW i \in 1 .. Len(Views!NewTaskBox)
        PROVE  i # Len(box) /\ mTaskId'[box[i]] = mTaskId[Views!NewTaskBox[i]]
    <3>1. Views!NewTaskBox[i] \in Views!ToSet(Views!NewTaskBox)
      BY TheBox
    <3>2. Views!NewTaskBox[i] \in Views!Messages /\ Views!NewTaskBox[i] # m
      BY <1>7, <1>11, <3>1
    <3> QED
      BY <1>9, <1>10, <2>1, <3>2
  <2>3. \A i \in 1 .. Len(box) : i = Len(box) \/ i \in 1 .. Len(Views!NewTaskBox)
    BY <1>10
  <2> QED
    BY <1>9, <1>10, <2>1, <2>2, <2>3
<1>16. \A i \in 1 .. Len(box) : (mTaskId'[box[i]] = id) <=> (i = Len(box))
  <2>1. ASSUME NEW i \in 1 .. Len(box), i # Len(box)
        PROVE  mTaskId[Views!NewTaskBox[i]] # id
    BY <1>5, <1>10, <2>1, TheBox
  <2> QED
    BY <1>15, <2>1
<1>17. Views!FindTaskMsgById(box, id) = m
  <2>1. Len(box) \in 1 .. Len(box)
    BY <1>10
  <2>2. Views!FindTaskMsgById(box, id) = box[Len(box)]
    BY <1>9, <1>16, <2>1, FoundIs
  <2> QED
    BY <1>9, <1>10, <2>2
<1>3. /\ IF id = 0
           THEN /\ led' = Views!ShowOnly(newLed, box, m) /\ list' = Views!ShowOnly(newList, box, m)
                /\ dead' = (Views!MeetsNull(box, newLed) \/ Views!MeetsNull(box, newList))
                /\ Views!slotMessageChanged(m, box, "NewTaskBox")
           ELSE led' = newLed /\ list' = newList /\ UNCHANGED <<item, MyCurTaskMsg, dead>>
      /\ nodes' = [nodes EXCEPT ![m] = 1]
  BY <1>0, <1>17 DEF Views!ShowById, newLed, newList
<1>18. BoxTypes'
  <2>1. mTaskId' \in [Views!Messages -> Int]
    BY <1>1, <1>4, <1>6 DEF BoxTypes
  <2>2. lstMessages' \in [Views!Folders -> Seq(Views!Messages)]
    BY <1>1, <1>6, <1>9 DEF BoxTypes
  <2>3. MsgList' \in [Views!Folders -> SUBSET Views!Messages]
    BY <1>1, <1>6 DEF BoxTypes, Views!Folders
  <2>4. MsgItem' \in [Views!Messages -> Views!Folders \cup {"none"}]
    BY <1>1, <1>6 DEF BoxTypes, Views!Folders
  <2>5. nodes' \in [Views!Messages -> Int]
    BY <1>1, <1>3, <1>6 DEF BoxTypes
  <2>6. messages' \in Nat /\ freed' \in SUBSET (1 .. messages')
    <3>1. m \in Nat
      BY <1>7 DEF m
    <3> QED
      BY <1>1, <1>6, <1>7, <3>1 DEF BoxTypes
  <2>7. led' \in [Views!Messages -> Widgets] /\ list' \in [Views!Messages -> Widgets]
    <3>1. CASE id = 0
      <4>1. led' = Views!ShowOnly(newLed, box, m) /\ list' = Views!ShowOnly(newList, box, m)
        BY <1>3, <3>1
      <4>2. m \in Views!ToSet(box)
        BY <1>9
      <4> QED
        BY <1>9, <1>13, <1>14, <4>1, <4>2, ShownAloneIs DEF OneIsShown
    <3>2. CASE id # 0
      BY <1>3, <1>13, <3>2
    <3> QED
      BY <3>1, <3>2
  <2> QED
    BY <2>1, <2>2, <2>3, <2>4, <2>5, <2>6, <2>7 DEF BoxTypes
<1>19. RowsAreBox'
  <2>1. MsgList'["NewTaskBox"] = MsgList["NewTaskBox"] \cup {m}
    BY <1>1, <1>6 DEF BoxTypes, Views!Folders
  <2> QED
    BY <1>1, <1>6, <1>7, <1>8, <1>9, <2>1 DEF RowsAreBox
<1>20. IdsDiffer'
  <2>1. DOMAIN box = 1 .. Len(box)
    BY <1>9, <1>10
  <2>2. ASSUME NEW i \in 1 .. Len(box), NEW j \in 1 .. Len(box), mTaskId'[box[i]] = mTaskId'[box[j]]
        PROVE  i = j
    <3>1. CASE i = Len(box) \/ j = Len(box)
      BY <1>16, <2>2, <3>1
    <3>2. CASE i # Len(box) /\ j # Len(box)
      <4>1. i \in DOMAIN Views!NewTaskBox /\ j \in DOMAIN Views!NewTaskBox
        BY <1>10, <3>2, TheBox
      <4>2. mTaskId[Views!NewTaskBox[i]] = mTaskId[Views!NewTaskBox[j]]
        BY <1>15, <2>2, <3>2
      <4> QED
        BY <1>6, <4>1, <4>2 DEF IdsDiffer
    <3> QED
      BY <3>1, <3>2
  <2> QED
    BY <1>8, <2>1, <2>2 DEF IdsDiffer
<1>21. /\ OneIsShown(led', Views!ToSet(box)) /\ OneIsShown(list', Views!ToSet(box))
       /\ \A k \in Views!ToSet(box) : led'[k] # "none" /\ list'[k] # "none"
       /\ id = 0 => led'[m] = "shown" /\ list'[m] = "shown"
  <2>1. CASE id = 0
    <3>1. led' = Views!ShowOnly(newLed, box, m) /\ list' = Views!ShowOnly(newList, box, m)
      BY <1>3, <2>1
    <3>2. m \in Views!ToSet(box)
      BY <1>9
    <3>3. /\ OneIsShown(led', Views!ToSet(box)) /\ led'[m] = "shown"
          /\ \A k \in Views!ToSet(box) : led'[k] # "none"
      BY <1>9, <1>13, <1>14, <3>1, <3>2, ShownAloneIs DEF OneIsShown
    <3>4. /\ OneIsShown(list', Views!ToSet(box)) /\ list'[m] = "shown"
          /\ \A k \in Views!ToSet(box) : list'[k] # "none"
      BY <1>9, <1>13, <1>14, <3>1, <3>2, ShownAloneIs DEF OneIsShown
    <3> QED
      BY <3>3, <3>4
  <2>2. CASE id # 0
    BY <1>3, <1>14, <2>2
  <2> QED
    BY <2>1, <2>2
<1>22. RowsAreComplete'
  <2>1. ASSUME NEW k \in Views!ToSet(box) PROVE MsgItem'[k] = "NewTaskBox" /\ nodes'[k] > 0
    <3>1. CASE k = m
      BY <1>1, <1>3, <1>6, <3>1 DEF BoxTypes
    <3>2. CASE k # m
      BY <1>1, <1>3, <1>6, <1>9, <1>11, <2>1, <3>2 DEF BoxTypes, RowsAreComplete
    <3> QED
      BY <3>1, <3>2
  <2> QED
    BY <1>8, <1>21, <2>1 DEF RowsAreComplete
<1>23. CurrentIsSelected'
  <2>1. CASE id = 0
    <3>1. item' = m /\ MyCurTaskMsg' = m
      BY <1>3, <2>1 DEF Views!slotMessageChanged
    <3> QED
      BY <1>8, <1>9, <1>21, <2>1, <3>1 DEF CurrentIsSelected
  <2>2. CASE id # 0
    <3>1. led' = newLed /\ list' = newList /\ item' = item /\ MyCurTaskMsg' = MyCurTaskMsg
      BY <1>3, <2>2
    <3>2. MyCurTaskMsg # Views!NULL => MyCurTaskMsg \in Views!Messages /\ MyCurTaskMsg # m
      BY <1>6, <1>7, <1>11 DEF CurrentIsSelected
    <3> QED
      BY <1>1, <1>6, <1>8, <1>9, <1>13, <3>1, <3>2 DEF CurrentIsSelected
  <2> QED
    BY <2>1, <2>2
<1>24. OneIsShown(led, Views!ToSet(Views!NewTaskBox))' /\ OneIsShown(list, Views!ToSet(Views!NewTaskBox))'
  BY <1>8, <1>21 DEF OneIsShown
<1>25. ~dead'
  BY <1>3, <1>14 DEF Views!MeetsNull
<1>26. \A k \in Views!ToSet(Views!NewTaskBox) : k # m /\ mTaskId'[k] = mTaskId[k] /\ k \in Nat
  BY <1>4, <1>6, <1>7, <1>11 DEF BoxTypes, Views!Messages
<1>27. mTaskId'[m] = id
  BY <1>1, <1>4, <1>6 DEF BoxTypes
<1>28. QueueAgrees'
  <2>1. CASE Views!NullSlots = {}
    <3>1. TaskQue' = TaskQue /\ strays' = strays \cup {m}
      BY <1>0, <2>1
    <3> QED
      BY <1>8, <1>9, <1>26, <3>1 DEF QueueAgrees
  <2>2. CASE Views!NullSlots # {}
    <3>1. TaskQue' = [TaskQue EXCEPT ![id] = m] /\ strays' = strays
      BY <1>0, <2>2
    <3>2. id \in Views!Slots /\ TaskQue[id] = Views!NULL
      BY <2>2, TaskIdsAre DEF Views!NullSlots
    <3>3. m \in Nat
      BY <1>7 DEF m
    <3>4. TaskQue' \in [Views!Slots -> Nat]
      BY <3>1, <3>3 DEF QueueAgrees
    <3>5. TaskQue'[id] = m /\ \A i \in Views!Slots : i # id => TaskQue'[i] = TaskQue[i]
      BY <3>1, <3>2 DEF QueueAgrees
    <3>6. ASSUME NEW i \in Views!Slots, TaskQue'[i] # Views!NULL
          PROVE  TaskQue'[i] \in Views!ToSet(box) /\ mTaskId'[TaskQue'[i]] = i
      BY <1>9, <1>26, <1>27, <3>5, <3>6 DEF QueueAgrees
    <3>7. ASSUME NEW k \in Views!ToSet(box) \ strays
          PROVE  mTaskId'[k] \in Views!Slots /\ TaskQue'[mTaskId'[k]] = k
      <4>1. CASE k = m
        BY <1>27, <3>2, <3>5, <4>1
      <4>2. CASE k # m
        <5>1. k \in Views!ToSet(Views!NewTaskBox) \ strays
          BY <1>9, <4>2
        <5>2. mTaskId[k] \in Views!Slots /\ TaskQue[mTaskId[k]] = k /\ k # Views!NULL
          BY <5>1, <1>11 DEF QueueAgrees, Views!Messages, Views!NULL
        <5> QED
          BY <1>26, <3>2, <3>5, <5>1, <5>2
      <4> QED
        BY <4>1, <4>2
    <3> QED
      BY <1>8, <3>1, <3>4, <3>6, <3>7 DEF QueueAgrees
  <2> QED
    BY <2>1, <2>2
<1> QED
  BY <1>12, <1>18, <1>19, <1>20, <1>22, <1>23, <1>24, <1>25, <1>28 DEF BoxInv

(* A sequence with the elements of another at some of its places, each place taken once. *)
TakenFrom(r, s) ==
    \E place \in [1 .. Len(r) -> 1 .. Len(s)] :
       /\ \A k \in 1 .. Len(r) : r[k] = s[place[k]]
       /\ \A j, k \in 1 .. Len(r) : place[j] = place[k] => j = k

(* What is left of a sequence without repetition when one element is removed. *)
LEMMA RemovedSet ==
  ASSUME NEW S, NEW s \in Seq(S), NEW e \in Views!ToSet(s),
         \A i, j \in 1 .. Len(s) : s[i] = s[j] => i = j
  PROVE  LET r == Views!RemoveFirst(s, e) IN
         /\ r \in Seq(S) /\ Views!ToSet(r) = Views!ToSet(s) \ {e}
         /\ TakenFrom(r, s)
<1> DEFINE r == Views!RemoveFirst(s, e)
<1>1. PICK i \in 1 .. Len(s) : s[i] = e
  BY Elements
<1>2. /\ r \in Seq(S) /\ Len(r) = Len(s) - 1
      /\ \A k \in 1 .. Len(r) : r[k] = IF k < i THEN s[k] ELSE s[k + 1]
  BY <1>1, RemovedIs
<1> HIDE DEF r
<1>3. Len(s) \in Nat
  BY Elements
<1> DEFINE place == [k \in 1 .. Len(r) |-> IF k < i THEN k ELSE k + 1]
<1>4. \A k \in 1 .. Len(r) : place[k] = (IF k < i THEN k ELSE k + 1) /\ place[k] \in 1 .. Len(s) /\ place[k] # i
  BY <1>2, <1>3
<1>5. place \in [1 .. Len(r) -> 1 .. Len(s)]
  BY <1>2, <1>3
<1>6. \A j, k \in 1 .. Len(r) : place[j] = place[k] => j = k
  BY <1>2, <1>3
<1>7. ASSUME NEW n \in 1 .. Len(s), n # i PROVE \E k \in 1 .. Len(r) : place[k] = n
  <2>1. CASE n < i
    <3>1. n \in 1 .. Len(r)
      BY <1>2, <1>3, <2>1
    <3> QED
      BY <2>1, <3>1
  <2>2. CASE n > i
    <3>1. n - 1 \in 1 .. Len(r) /\ ~(n - 1 < i) /\ n - 1 + 1 = n
      BY <1>2, <1>3, <2>2
    <3> QED
      BY <3>1
  <2> QED
    BY <1>3, <1>7, <2>1, <2>2
<1>8. \A k \in 1 .. Len(r) : r[k] = s[place[k]]
  BY <1>2, <1>4
<1> HIDE DEF place
<1>9. Views!ToSet(r) = Views!ToSet(s) \ {e}
  <2>1. \A x : x \in Views!ToSet(r) <=> \E k \in 1 .. Len(r) : r[k] = x
    BY <1>2, Elements
  <2>2. \A x : x \in Views!ToSet(s) <=> \E k \in 1 .. Len(s) : s[k] = x
    BY Elements
  <2>3. ASSUME NEW x \in Views!ToSet(r) PROVE x \in Views!ToSet(s) /\ x # e
    <3>1. PICK k \in 1 .. Len(r) : r[k] = x
      BY <2>1
    <3>2. s[place[k]] = x /\ place[k] \in 1 .. Len(s) /\ place[k] # i
      BY <1>4, <1>8, <3>1
    <3> QED
      BY <1>1, <2>2, <3>2
  <2>4. ASSUME NEW x \in Views!ToSet(s), x # e PROVE x \in Views!ToSet(r)
    <3>1. PICK n \in 1 .. Len(s) : s[n] = x
      BY <2>2
    <3>2. n # i
      BY <1>1, <2>4, <3>1
    <3>3. PICK k \in 1 .. Len(r) : place[k] = n
      BY <1>7, <3>2
    <3> QED
      BY <1>8, <2>1, <3>1, <3>3
  <2> QED
    BY <2>3, <2>4
<1>10. TakenFrom(r, s)
  BY <1>5, <1>6, <1>8 DEF TakenFrom
<1> QED
  BY <1>2, <1>9, <1>10 DEF r

(* ProcessFinshedTask and ProcessDeadTask take a message from the box, with its row and its widgets. *)
LEMMA RetireKeeps ==
  ASSUME BoxInv, QueueAgrees, NEW slot \in Views!Slots, Views!Retire(slot)
  PROVE  BoxInv' /\ QueueAgrees'
<1> DEFINE m == Views!FindTaskMsgById(Views!NewTaskBox, slot)
           box == Views!RemoveFirst(Views!NewTaskBox, m)
<1>0. TaskQue[slot] # Views!NULL /\ TaskQue' = [TaskQue EXCEPT ![slot] = Views!NULL] /\ UNCHANGED <<mTaskId, strays>>
  BY DEF Views!Retire
<1>m. m = TaskQue[slot] /\ m \in Views!ToSet(Views!NewTaskBox) /\ mTaskId[m] = slot /\ m \in Views!Messages
  BY <1>0, SlotIsFound, TheBox
<1>1. /\ m \in Views!ToSet(Views!NewTaskBox)
      /\ led' = [led EXCEPT ![m] = "none"] /\ list' = [list EXCEPT ![m] = "none"]
      /\ MsgItem' = [MsgItem EXCEPT ![m] = "OldTaskBox"]
      /\ MsgList' = [MsgList EXCEPT !["OldTaskBox"] = @ \cup {m}, !["NewTaskBox"] = @ \ {m}]
      /\ IF item = m THEN item' = Views!NULL /\ MyCurTaskMsg' = Views!NULL ELSE UNCHANGED <<item, MyCurTaskMsg>>
      /\ freed' = freed \cup {m}
      /\ UNCHANGED <<messages, mTaskId, nodes, Views!views, MyCurThreadId, OrigListbox>>
  BY <1>m DEF Views!Retire
<1>2. lstMessages' = [lstMessages EXCEPT !["OldTaskBox"] = Append(@, m),
                                         !["NewTaskBox"] = Views!RemoveFirst(@, m)]
  BY DEF Views!Retire
<1> HIDE DEF m
<1>3. BoxTypes /\ OneView /\ RowsAreBox /\ RowsAreComplete /\ IdsDiffer
      /\ OneIsShown(led, Views!ToSet(Views!NewTaskBox)) /\ OneIsShown(list, Views!ToSet(Views!NewTaskBox)) /\ CurrentIsSelected
  BY DEF BoxInv
<1>4. DOMAIN lstMessages = Views!Folders /\ lstMessages["OldTaskBox"] \in Seq(Views!Messages)
  BY <1>3 DEF BoxTypes, Views!Folders
<1>5. lstMessages'["NewTaskBox"] = box
  BY <1>2, <1>4 DEF Views!NewTaskBox, Views!Folders
<1>6. lstMessages'["OldTaskBox"] = Append(lstMessages["OldTaskBox"], m)
  BY <1>2, <1>4 DEF Views!Folders
<1>7. lstMessages'["TrashBox"] = lstMessages["TrashBox"] /\ DOMAIN lstMessages' = Views!Folders
  BY <1>2, <1>4 DEF Views!Folders
<1>8. Views!NewTaskBox' = box
  BY <1>5 DEF Views!NewTaskBox
<1>9. \A i, j \in 1 .. Len(Views!NewTaskBox) : Views!NewTaskBox[i] = Views!NewTaskBox[j] => i = j
  BY <1>3, TheBox DEF IdsDiffer
<1>10. /\ box \in Seq(Views!Messages) /\ Views!ToSet(box) = Views!ToSet(Views!NewTaskBox) \ {m}
       /\ TakenFrom(box, Views!NewTaskBox)
  <2>1. Views!NewTaskBox \in Seq(Views!Messages) /\ m \in Views!ToSet(Views!NewTaskBox)
    BY <1>1, TheBox
  <2> QED
    BY ONLY <1>9, <2>1, RemovedSet
<1>11. Views!ToSet(Views!NewTaskBox) \in SUBSET Views!Messages
  BY TheBox
<1> HIDE DEF box
<1>12. lstMessages' \in [Views!Folders -> Seq(Views!Messages)]
  <2>1. Append(lstMessages["OldTaskBox"], m) \in Seq(Views!Messages)
    BY <1>4, <1>m, AppendProperties
  <2>2. lstMessages'["TrashBox"] \in Seq(Views!Messages)
    BY <1>3, <1>7 DEF BoxTypes, Views!Folders
  <2>3. \A f \in Views!Folders : lstMessages'[f] \in Seq(Views!Messages)
    BY <1>5, <1>6, <1>10, <2>1, <2>2 DEF Views!Folders
  <2>4. lstMessages' = [f \in Views!Folders |-> lstMessages'[f]]
    BY <1>2, <1>7
  <2> QED
    BY <2>3, <2>4
<1>13. /\ MsgList' \in [Views!Folders -> SUBSET Views!Messages]
       /\ MsgList'["NewTaskBox"] = MsgList["NewTaskBox"] \ {m}
  BY <1>1, <1>3, <1>m DEF BoxTypes, Views!Folders
<1>14. m \in 1 .. messages
  BY <1>1, <1>3 DEF RowsAreBox
<1>15. BoxTypes'
  <2>1. led' \in [Views!Messages -> Widgets] /\ list' \in [Views!Messages -> Widgets]
    BY <1>1, <1>3 DEF BoxTypes, Widgets
  <2>2. MsgItem' \in [Views!Messages -> Views!Folders \cup {"none"}]
    BY <1>1, <1>3 DEF BoxTypes, Views!Folders
  <2> QED
    BY <1>1, <1>3, <1>12, <1>13, <1>14, <2>1, <2>2 DEF BoxTypes
<1>16. OneView'
  BY <1>1, <1>3 DEF OneView, Views!views
<1>17. RowsAreBox'
  BY <1>1, <1>3, <1>8, <1>10, <1>13 DEF RowsAreBox
<1>18. \A k \in Views!Messages : k # m => led'[k] = led[k] /\ list'[k] = list[k] /\ MsgItem'[k] = MsgItem[k]
  BY <1>1, <1>3 DEF BoxTypes
<1>19. led'[m] = "none" /\ list'[m] = "none"
  BY <1>1, <1>3, <1>m DEF BoxTypes
<1>20. RowsAreComplete'
  BY <1>1, <1>3, <1>8, <1>10, <1>11, <1>18 DEF RowsAreComplete
<1>21. IdsDiffer'
  <2>1. PICK place \in [1 .. Len(box) -> 1 .. Len(Views!NewTaskBox)] :
               /\ \A k \in 1 .. Len(box) : box[k] = Views!NewTaskBox[place[k]]
               /\ \A j, k \in 1 .. Len(box) : place[j] = place[k] => j = k
    BY <1>10 DEF TakenFrom
  <2>2. ASSUME NEW i \in 1 .. Len(box), NEW j \in 1 .. Len(box), mTaskId[box[i]] = mTaskId[box[j]]
        PROVE  i = j
    <3>1. place[i] \in DOMAIN Views!NewTaskBox /\ place[j] \in DOMAIN Views!NewTaskBox
      BY TheBox
    <3>2. mTaskId[Views!NewTaskBox[place[i]]] = mTaskId[Views!NewTaskBox[place[j]]]
      BY <2>1, <2>2
    <3>3. place[i] = place[j]
      BY <1>3, <3>1, <3>2 DEF IdsDiffer
    <3> QED
      BY <2>1, <3>3
  <2>3. DOMAIN box = 1 .. Len(box)
    BY <1>10, Elements
  <2> QED
    BY <1>1, <1>8, <2>2, <2>3 DEF IdsDiffer
<1>22. OneIsShown(led, Views!ToSet(Views!NewTaskBox))'
  BY <1>3, <1>8, <1>10, <1>18, <1>19 DEF OneIsShown
<1>23. OneIsShown(list, Views!ToSet(Views!NewTaskBox))'
  BY <1>3, <1>8, <1>10, <1>18, <1>19 DEF OneIsShown
<1>24. CurrentIsSelected'
  <2>1. CASE item = m
    BY <1>1, <2>1 DEF CurrentIsSelected
  <2>2. CASE item # m
    <3>1. item' = item /\ MyCurTaskMsg' = MyCurTaskMsg /\ OrigListbox' = OrigListbox
      BY <1>1, <2>2
    <3>2. item \in {Views!NULL} \cup Views!ToSet(box)
      BY <1>3, <1>10, <2>2 DEF CurrentIsSelected
    <3>3. MyCurTaskMsg # Views!NULL => MyCurTaskMsg \in Views!Messages /\ MyCurTaskMsg # m
      BY <1>3, <1>11, <2>2 DEF CurrentIsSelected
    <3> QED
      BY <1>3, <1>8, <1>18, <3>1, <3>2, <3>3 DEF CurrentIsSelected
  <2> QED
    BY <2>1, <2>2
<1>25. QueueAgrees'
  <2>1. TaskQue' \in [Views!Slots -> Nat] /\ TaskQue'[slot] = Views!NULL
        /\ \A i \in Views!Slots : i # slot => TaskQue'[i] = TaskQue[i]
    BY <1>0 DEF QueueAgrees, Views!NULL
  <2>2. ASSUME NEW i \in Views!Slots, TaskQue'[i] # Views!NULL
        PROVE  TaskQue'[i] \in Views!ToSet(box) /\ mTaskId[TaskQue'[i]] = i
    <3>1. i # slot /\ TaskQue'[i] = TaskQue[i]
      BY <2>1, <2>2
    <3>2. TaskQue[i] \in Views!ToSet(Views!NewTaskBox) /\ mTaskId[TaskQue[i]] = i
      BY <2>2, <3>1 DEF QueueAgrees
    <3> QED
      BY <1>m, <1>10, <3>1, <3>2
  <2>3. ASSUME NEW k \in Views!ToSet(box) \ strays
        PROVE  mTaskId[k] \in Views!Slots /\ TaskQue'[mTaskId[k]] = k
    <3>1. k \in Views!ToSet(Views!NewTaskBox) \ strays /\ k # m
      BY <1>10
    <3>2. mTaskId[k] \in Views!Slots /\ TaskQue[mTaskId[k]] = k
      BY <3>1 DEF QueueAgrees
    <3>3. mTaskId[k] # slot
      BY <1>m, <3>1, <3>2
    <3> QED
      BY <2>1, <3>2, <3>3
  <2> QED
    BY <1>0, <1>8, <2>1, <2>2, <2>3 DEF QueueAgrees
<1> QED
  BY <1>15, <1>16, <1>17, <1>20, <1>21, <1>22, <1>23, <1>24, <1>25 DEF BoxInv

(* What leaves the tasks and the box leaves the slots in agreement. *)
LEMMA QueueStays ==
  ASSUME QueueAgrees, UNCHANGED Views!tasks, UNCHANGED lstMessages
  PROVE  QueueAgrees'
<1>1. UNCHANGED <<TaskQue, mTaskId, strays>> /\ Views!NewTaskBox' = Views!NewTaskBox
  BY DEF Views!tasks, Views!NewTaskBox
<1> QED
  BY <1>1 DEF QueueAgrees

(* Every event keeps the boxes in agreement while the ids differ. *)
LEMMA EventsKeep ==
  ASSUME BoxInv, QueueAgrees, ~dead, [Views!NextBoxes]_(Views!bvars), ~muddled'
  PROVE  BoxInv' /\ QueueAgrees' /\ ~dead'
<1>0. \A w \in {led, list} : ~Views!MeetsNull(Views!NewTaskBox, w)
  BY DEF BoxInv, RowsAreComplete, Views!MeetsNull
<1>1. CASE UNCHANGED Views!bvars
  <2>1. UNCHANGED <<messages, lstMessages, MsgList, MsgItem, mTaskId, nodes, freed, Views!views, item,
                    MyCurTaskMsg, led, list, OrigListbox, dead>> /\ UNCHANGED Views!tasks
    BY <1>1 DEF Views!bvars, Views!pictures, Views!tasks
  <2>2. /\ led \in [Views!Messages -> Widgets] /\ list \in [Views!Messages -> Widgets]
        /\ OneIsShown(led, Views!ToSet(Views!NewTaskBox)) /\ OneIsShown(list, Views!ToSet(Views!NewTaskBox))
        /\ \A k \in Views!ToSet(Views!NewTaskBox) : led[k] # "none" /\ list[k] # "none"
    BY DEF BoxInv, BoxTypes, RowsAreComplete
  <2>3. CurrentIsSelected
    BY DEF BoxInv
  <2>4. BoxInv'
    BY <2>1, <2>2, <2>3, PicturesKeep DEF CurrentIsSelected
  <2> QED
    BY <2>1, <2>4, QueueStays
<1>2. ASSUME NEW f \in Views!Folders \cup {Views!Root}, Views!SelectFolder(f)
      PROVE  BoxInv' /\ QueueAgrees' /\ ~dead'
  <2>1. UNCHANGED Views!tasks /\ UNCHANGED lstMessages /\ UNCHANGED dead
    BY <1>2 DEF Views!SelectFolder
  <2> QED
    BY <1>2, <2>1, SelectFolderKeeps, QueueStays
<1>3. ASSUME NEW m \in {Views!NULL} \cup Views!ToSet(Views!NewTaskBox), Views!SelectMessage(m)
      PROVE  BoxInv' /\ QueueAgrees' /\ ~dead'
  <2>1. UNCHANGED Views!tasks /\ UNCHANGED lstMessages
    BY <1>3 DEF Views!SelectMessage
  <2>2. ~dead'
    BY <1>0, <1>3 DEF Views!SelectMessage
  <2> QED
    BY <1>3, <2>1, <2>2, SelectMessageKeeps, QueueStays
<1>4. ASSUME NEW m \in Views!Messages,
             Views!SelectGraphic(m) \/ \E t \in 0 .. MaxThreads - 1 : Views!SelectThread(m, t)
      PROVE  BoxInv' /\ QueueAgrees' /\ ~dead'
  <2>1. UNCHANGED Views!tasks /\ UNCHANGED lstMessages
    BY <1>4 DEF Views!SelectGraphic, Views!SelectThread
  <2>2. ~dead'
    BY <1>0, <1>4 DEF Views!SelectGraphic, Views!SelectThread
  <2> QED
    BY <1>4, <2>1, <2>2, SelectNodeKeeps, QueueStays
<1>5. ASSUME NEW slot \in Views!Slots, NEW n \in 1 .. MaxThreads, Views!InitListNode(slot, n)
      PROVE  BoxInv' /\ QueueAgrees' /\ ~dead'
  <2>1. UNCHANGED Views!tasks /\ UNCHANGED lstMessages
    BY <1>5 DEF Views!InitListNode
  <2> QED
    BY <1>5, <2>1, InitListNodeKeeps, QueueStays
<1>6. ASSUME NEW slot \in Views!Slots, Views!Retire(slot)
      PROVE  BoxInv' /\ QueueAgrees' /\ ~dead'
  <2>1. UNCHANGED dead
    BY <1>6 DEF Views!Retire
  <2> QED
    BY <1>6, <2>1, RetireKeeps
<1>7. CASE Views!ProcessNewTask
  BY <1>7, ProcessNewTaskKeeps
<1> QED
  BY <1>1, <1>2, <1>3, <1>4, <1>5, <1>6, <1>7 DEF Views!NextBoxes

(* Every event keeps the invariant: the ids of two messages meet only when a task found no slot. *)
LEMMA BoxStepKeeps == BoxesInv /\ [Views!NextBoxes]_(Views!bvars) => BoxesInv'
<1> SUFFICES ASSUME BoxesInv, [Views!NextBoxes]_(Views!bvars) PROVE BoxesInv'
  OBVIOUS
<1>1. (strays' = strays /\ muddled' = muddled) \/ Views!ProcessNewTask
  <2>1. CASE UNCHANGED Views!bvars
    BY <2>1 DEF Views!bvars, Views!tasks
  <2>2. ASSUME NEW f, Views!SelectFolder(f) PROVE strays' = strays /\ muddled' = muddled
    BY <2>2 DEF Views!SelectFolder, Views!tasks
  <2>3. ASSUME NEW m, Views!SelectMessage(m) PROVE strays' = strays /\ muddled' = muddled
    BY <2>3 DEF Views!SelectMessage, Views!tasks
  <2>4. ASSUME NEW m, Views!SelectGraphic(m) PROVE strays' = strays /\ muddled' = muddled
    BY <2>4 DEF Views!SelectGraphic, Views!tasks
  <2>5. ASSUME NEW m, NEW t, Views!SelectThread(m, t) PROVE strays' = strays /\ muddled' = muddled
    BY <2>5 DEF Views!SelectThread, Views!tasks
  <2>6. ASSUME NEW slot, NEW n, Views!InitListNode(slot, n) PROVE strays' = strays /\ muddled' = muddled
    BY <2>6 DEF Views!InitListNode, Views!tasks
  <2>7. ASSUME NEW slot, Views!Retire(slot) PROVE strays' = strays /\ muddled' = muddled
    BY <2>7 DEF Views!Retire
  <2> QED
    BY <2>1, <2>2, <2>3, <2>4, <2>5, <2>6, <2>7 DEF Views!NextBoxes
<1>2. Views!ProcessNewTask => strays \subseteq strays' /\ (muddled => muddled')
  BY DEF Views!ProcessNewTask
<1>3. CASE muddled
  BY <1>1, <1>2, <1>3 DEF BoxesInv
<1>4. CASE ~muddled /\ muddled'
  <2>1. BoxInv /\ QueueAgrees /\ Views!ProcessNewTask
    BY <1>1, <1>4 DEF BoxesInv
  <2>2. strays' # {}
    BY <1>2, <1>4, <2>1, IdsMeet
  <2> QED
    BY <1>4, <2>2 DEF BoxesInv
<1>5. CASE ~muddled /\ ~muddled'
  <2>1. BoxInv /\ QueueAgrees /\ ~dead
    BY <1>5 DEF BoxesInv
  <2>2. BoxInv' /\ QueueAgrees' /\ ~dead'
    BY <1>5, <2>1, EventsKeep
  <2> QED
    BY <1>5, <2>2 DEF BoxesInv
<1> QED
  BY <1>3, <1>4, <1>5

(* The window begins with empty boxes. *)
LEMMA BoxesBegin == Views!InitBoxes => BoxesInv
<1> SUFFICES ASSUME Views!InitBoxes PROVE BoxesInv
  OBVIOUS
<1>1. Views!NewTaskBox = <<>> /\ <<>> \in Seq(Views!Messages)
  BY EmptySeq DEF Views!InitBoxes, Views!NewTaskBox, Views!Folders
<1>2. Views!ToSet(Views!NewTaskBox) = {} /\ DOMAIN Views!NewTaskBox = {}
  <2>1. Len(<<>>) = 0
    OBVIOUS
  <2>2. DOMAIN Views!NewTaskBox = 1 .. 0
    BY <1>1, <2>1, LenProperties
  <2>3. DOMAIN Views!NewTaskBox = {}
    BY <2>2
  <2> QED
    BY <2>3 DEF Views!ToSet
<1>3. BoxTypes
  <2>1. lstMessages \in [Views!Folders -> Seq(Views!Messages)] /\ MsgList \in [Views!Folders -> SUBSET Views!Messages]
    BY <1>1 DEF Views!InitBoxes
  <2> QED
    BY <2>1 DEF Views!InitBoxes, BoxTypes, Widgets
<1>4. OneView
  BY DEF Views!InitBoxes, OneView, Views!Folders
<1>5. RowsAreBox /\ RowsAreComplete /\ IdsDiffer
  BY <1>2 DEF Views!InitBoxes, RowsAreBox, RowsAreComplete, IdsDiffer, Views!Folders
<1>6. OneIsShown(led, Views!ToSet(Views!NewTaskBox)) /\ OneIsShown(list, Views!ToSet(Views!NewTaskBox)) /\ CurrentIsSelected
  BY <1>2 DEF Views!InitBoxes, OneIsShown, CurrentIsSelected
<1>7. QueueAgrees
  BY <1>2 DEF Views!InitBoxes, QueueAgrees, Views!NULL
<1>8. ~muddled /\ ~dead
  BY DEF Views!InitBoxes
<1> QED
  BY <1>3, <1>4, <1>5, <1>6, <1>7, <1>8 DEF BoxInv, BoxesInv

(* The invariant says what the run checks. *)
LEMMA BoxInvImplies == BoxInv => Views!ViewsAgree
<1> SUFFICES ASSUME BoxInv PROVE Views!ViewsAgree
  OBVIOUS
<1>1. /\ Views!ToSet(Views!NewTaskBox) = MsgList["NewTaskBox"] /\ Views!ToSet(Views!NewTaskBox) \cap freed = {}
  BY DEF BoxInv, RowsAreBox
<1>2. \A i \in DOMAIN Views!NewTaskBox : LET m == Views!NewTaskBox[i] IN
          /\ MsgItem[m] = "NewTaskBox" /\ led[m] # "none" /\ list[m] # "none" /\ nodes[m] > 0
          /\ \A j \in DOMAIN Views!NewTaskBox : mTaskId[Views!NewTaskBox[j]] = mTaskId[m] => i = j
  BY DEF BoxInv, RowsAreComplete, IdsDiffer, Views!ToSet
<1>3. ASSUME NEW w, OneIsShown(w, Views!ToSet(Views!NewTaskBox))
      PROVE  Views!Cardinality(Views!Shown(w)) <= 1
  <2>1. CASE Views!Shown(w) = {}
    BY <2>1, FS_EmptySet, SameCount
  <2>2. ASSUME NEW m \in Views!Shown(w) PROVE Views!Shown(w) = {m}
    BY <1>3 DEF OneIsShown, Views!Shown
  <2>3. ASSUME NEW m \in Views!Shown(w) PROVE Views!Cardinality(Views!Shown(w)) = 1
    BY <2>2, FS_Singleton, SameCount
  <2>4. CASE Views!Shown(w) # {}
    BY <2>3, <2>4
  <2> QED
    BY <2>1, <2>4, FS_EmptySet, SameCount
<1>4. Views!Cardinality(Views!Shown(led)) <= 1 /\ Views!Cardinality(Views!Shown(list)) <= 1
  BY <1>3 DEF BoxInv
<1>5. ASSUME MyCurTaskMsg # Views!NULL
      PROVE  /\ MyCurTaskMsg \in Views!ToSet(Views!NewTaskBox) /\ Views!Shown(list) = {MyCurTaskMsg}
             /\ Views!Shown(led) = {MyCurTaskMsg} \/ OrigListbox
  <2>1. MyCurTaskMsg \in Views!ToSet(Views!NewTaskBox) /\ list[MyCurTaskMsg] = "shown"
        /\ (led[MyCurTaskMsg] = "shown" \/ OrigListbox)
    BY <1>5 DEF BoxInv, CurrentIsSelected
  <2>2. MyCurTaskMsg \in Views!Messages
    BY <2>1, TheBox
  <2> QED
    BY <2>1, <2>2 DEF BoxInv, OneIsShown, Views!Shown
<1>6. Views!Updates = (shown = {"NewTaskBox"} /\ Views!NewTaskBox # <<>>)
  <2>1. OneView
    BY DEF BoxInv
  <2>2. Views!NewTaskBox # <<>> => MsgList["NewTaskBox"] # {}
    <3> SUFFICES ASSUME MsgList["NewTaskBox"] = {} PROVE Views!NewTaskBox = <<>>
      OBVIOUS
    <3>1. ~(1 \in 1 .. Len(Views!NewTaskBox))
      BY <1>1, TheBox
    <3>2. Len(Views!NewTaskBox) = 0
      BY <3>1, TheBox
    <3> QED
      BY <3>2, TheBox, EmptySeq
  <2>3. Views!Updates <=> (shown = {"NewTaskBox"} /\ Views!NewTaskBox # <<>>)
    BY <2>1, <2>2 DEF Views!Updates, OneView, Views!Root, Views!Folders
  <2> QED
    BY <2>3 DEF Views!Updates
<1> QED
  BY <1>1, <1>2, <1>4, <1>5, <1>6 DEF Views!ViewsAgree

-----------------------------------------------------------------------------
(***************************************************************************)
(* The picture.                                                             *)
(***************************************************************************)
First(i) == Picture!BlockStart(FileSize, ThreadCnt, i)
Behind(i) == Picture!BlockEnd(FileSize, ThreadCnt, i)

LedTypes ==
  /\ FileSize \in Nat \cup {Picture!UnknownSize} /\ ThreadCnt \in Nat \ {0}
  /\ FileSize = Picture!UnknownSize => ThreadCnt = 1
  /\ status \in {"start", "running", "stopped"}
  /\ step \in {"idle", "load", "setup", "finished", "offset"} /\ at \in Picture!Threads
  /\ RemoteStartPos \in [Picture!Threads -> Nat] /\ RemoteBytesReceived \in [Picture!Threads -> Nat]
  /\ chunk \in [Picture!Threads -> Nat]
  /\ CHS \in [Picture!Threads -> [offset : Nat, finished : Nat]]
  /\ drawn \in [Picture!Threads -> Nat] /\ exact \in SUBSET Picture!Threads

\* A thread stays in its block but for one byte.
StaysInBlock ==
  \A i \in Picture!Threads :
     /\ First(i) <= RemoteStartPos[i]
     /\ FileSize # Picture!UnknownSize => /\ RemoteStartPos[i] <= Behind(i) + 1
                                          /\ RemoteStartPos[i] <= FileSize

\* Before the pthreads begin, nothing is between two positions once the log is loaded.
NothingMoves ==
  /\ status # "running" => step \in {"idle", "setup", "load"}
  /\ step = "load" => status = "stopped"
  /\ status # "running" =>
        \A i \in Picture!Threads : chunk[i] = 0 \/ (step = "load" /\ at <= i)

\* The threads that have been drawn since the picture was set up.
AreDrawn ==
  IF status = "running" THEN Picture!Threads ELSE IF step = "setup" THEN 0 .. at - 1 ELSE {}

\* The positions of a thread that was drawn from positions of one moment agree.
PositionsAgree ==
  \A i \in AreDrawn \cap exact : RemoteStartPos[i] = First(i) + RemoteBytesReceived[i] + chunk[i]

\* What was read of a thread is not more than it has.
ReadBefore ==
  \A i \in AreDrawn : CHS[i].finished <= RemoteBytesReceived[i] /\ First(i) <= CHS[i].offset

\* Of a thread that stood still, the last drawing ended where the next one will begin.
Between(i) == i = at /\ step \in {"finished", "offset"}
ExactIsExact ==
  \A i \in AreDrawn \cap exact :
     /\ First(i) <= drawn[i] /\ drawn[i] <= First(i) + RemoteBytesReceived[i]
     /\ ~Between(i) => CHS[i].offset = drawn[i] /\ drawn[i] = First(i) + CHS[i].finished
     /\ step = "offset" /\ i = at => drawn[i] <= First(i) + CHS[i].finished

\* The others are still to be drawn.
NotDrawn == step = "setup" => status # "running" /\ \A i \in at .. ThreadCnt - 1 : drawn[i] = First(i) /\ i \in exact

HasPicture == status = "running" \/ step = "setup"

CellsAreThere ==
  HasPicture /\ FileSize # 0 => DOMAIN vvCell = 0 .. Picture!Cells(FileSize) - 1

Shows(i) == \A k \in Picture!OwnCells(i) : (vvCell[k] = "DONE") <=> (Picture!CellEnd(k) <= drawn[i])
ShowsExactly == HasPicture /\ FileSize > 0 => \A i \in Picture!Threads : 0 .. i \subseteq exact => Shows(i)

LedIInv ==
  /\ LedTypes /\ StaysInBlock /\ PositionsAgree /\ NothingMoves /\ ReadBefore /\ ExactIsExact /\ NotDrawn
  /\ CellsAreThere /\ ShowsExactly

(* The blocks follow each other; a task with a file of unknown size has one thread. *)
LEMMA BlocksInOrder ==
  ASSUME LedTypes, FileSize # Picture!UnknownSize
  PROVE  /\ 0 \in Picture!Threads /\ First(0) = 0
         /\ \A i \in Picture!Threads : /\ First(i) \in Nat /\ Behind(i) \in Nat /\ First(i) <= Behind(i) /\ Behind(i) <= FileSize
                                       /\ \A l \in Picture!Threads : l < i => Behind(l) <= First(i)
<1> DEFINE s == FileSize
           n == ThreadCnt
<1>1. s \in Nat /\ n \in Nat \ {0}
  BY DEF LedTypes
<1>2. Picture!Threads = 0 .. n - 1
  BY DEF Picture!Threads
<1>3. 0 \in Picture!Threads /\ First(0) = 0
  BY <1>1, <1>2, ClosedFormTiles, SameBlocks DEF First
<1>4. ASSUME NEW i \in Picture!Threads
      PROVE  First(i) \in Nat /\ Behind(i) \in Nat /\ First(i) <= Behind(i) /\ Behind(i) <= FileSize
  <2>1. i \in 0 .. n - 1
    BY <1>2
  <2>2. /\ Picture!BlockStart(s, n, i) \in Nat /\ Picture!BlockEnd(s, n, i) \in Nat /\ Picture!BlockSize(s, n, i) \in Nat
        /\ Picture!BlockEnd(s, n, i) = Picture!BlockStart(s, n, i) + Picture!BlockSize(s, n, i)
        /\ Picture!BlockEnd(s, n, i) <= s
    BY <1>1, <2>1, BlocksLieInTheFile, SameBlocks
  <2>3. First(i) = Picture!BlockStart(s, n, i) /\ Behind(i) = Picture!BlockEnd(s, n, i)
    BY DEF First, Behind
  <2> QED
    BY <2>2, <2>3
<1>5. ASSUME NEW i \in Picture!Threads, NEW l \in Picture!Threads, l < i PROVE Behind(l) <= First(i)
  <2>1. l \in 0 .. n - 2 /\ l + 1 \in Nat /\ i \in Nat /\ l + 1 <= i
    BY <1>1, <1>2, <1>5
  <2>2. Behind(l) = Picture!BlockStart(s, n, l + 1)
    BY <1>1, <2>1, ClosedFormTiles, SameBlocks DEF Behind
  <2>3. Picture!BytesPerConn(s, n) \in Nat
    BY <1>1, Division, SameBlocks
  <2>4. (l + 1) * Picture!BytesPerConn(s, n) <= i * Picture!BytesPerConn(s, n)
    BY <2>1, <2>3, MoreBlocksAreLonger
  <2>5. Picture!BlockStart(s, n, l + 1) = (l + 1) * Picture!BytesPerConn(s, n) /\ First(i) = i * Picture!BytesPerConn(s, n)
    BY DEF Picture!BlockStart, First
  <2> QED
    BY <2>2, <2>4, <2>5
<1> QED
  BY <1>3, <1>4, <1>5

(* Where the block of a thread begins, also when it has no end. *)
LEMMA StartsAre ==
  ASSUME LedTypes
  PROVE  \A i \in Picture!Threads : First(i) \in Nat
<1>1. CASE FileSize # Picture!UnknownSize
  BY <1>1, BlocksInOrder
<1>2. CASE FileSize = Picture!UnknownSize
  BY <1>2 DEF First, Picture!BlockStart
<1> QED
  BY <1>1, <1>2

Edge(k) == k * per_size

(* The edges of the cells. *)
LEMMA Edges ==
  ASSUME NEW k \in Nat
  PROVE  Edge(k) \in Nat /\ Edge(k + 1) \in Nat /\ Edge(k) < Edge(k + 1)
<1>1. per_size \in Nat \ {0}
  BY LedAssumption
<1>2. (k + 1) * per_size = k * per_size + per_size /\ k * per_size \in Nat
  BY <1>1
<1> QED
  BY <1>1, <1>2 DEF Edge

(* The edges are in the order of the cells. *)
LEMMA EdgesRise ==
  ASSUME NEW k \in Nat, NEW j \in Nat, k < j
  PROVE  Edge(k + 1) <= Edge(j)
<1>1. k + 1 \in Nat /\ k + 1 <= j /\ per_size \in Nat
  BY LedAssumption
<1> QED
  BY <1>1, MoreBlocksAreLonger DEF Edge

(* The cell of a byte, and whether the byte is the first of its cell. *)
LEMMA CellOf ==
  ASSUME NEW a \in Nat
  PROVE  /\ Picture!CDiv(a, per_size) \in Nat
         /\ Edge(Picture!CDiv(a, per_size)) <= a /\ a < Edge(Picture!CDiv(a, per_size) + 1)
         /\ (Picture!CMod(a, per_size) = 0) <=> (a = Edge(Picture!CDiv(a, per_size)))
<1> DEFINE q == a \div per_size
           r == a % per_size
<1>1. per_size \in Nat \ {0}
  BY LedAssumption
<1>2. q \in Nat /\ r \in 0 .. per_size - 1 /\ a = per_size * q + r
  BY <1>1
<1>3. Picture!CDiv(a, per_size) = q
  BY DEF Picture!CDiv
<1> HIDE DEF q, r
<1>4. Edge(q) = per_size * q /\ Edge(q + 1) = per_size * q + per_size
  BY <1>1, <1>2 DEF Edge
<1>5. Picture!CMod(a, per_size) = a - per_size * q
  BY <1>3 DEF Picture!CMod
<1>6. per_size * q \in Nat
  BY <1>1, <1>2
<1> QED
  BY <1>1, <1>2, <1>3, <1>4, <1>5, <1>6

(* The cells are those that begin in the file. *)
LEMMA CellsBeginInTheFile ==
  ASSUME FileSize \in Nat
  PROVE  Picture!Cells(FileSize) \in Nat /\ \A k \in Nat : k \in 0 .. Picture!Cells(FileSize) - 1 <=> Edge(k) < FileSize
<1> DEFINE q == Picture!CDiv(FileSize, per_size)
<1>1. q \in Nat /\ Edge(q) <= FileSize /\ FileSize < Edge(q + 1)
      /\ ((Picture!CMod(FileSize, per_size) = 0) <=> (FileSize = Edge(q)))
  BY CellOf
<1>2. Picture!Cells(FileSize) = q + IF FileSize # Edge(q) THEN 1 ELSE 0
  BY <1>1 DEF Picture!Cells
<1> HIDE DEF q
<1>3. ASSUME NEW k \in Nat PROVE k \in 0 .. Picture!Cells(FileSize) - 1 <=> Edge(k) < FileSize
  <2>1. Edge(k) \in Nat /\ Edge(q) \in Nat /\ Edge(k) < Edge(k + 1) /\ Edge(k + 1) \in Nat /\ Edge(q + 1) \in Nat
    BY <1>1, Edges
  <2>2. CASE k < q
    BY <1>1, <1>2, <2>1, <2>2, EdgesRise
  <2>3. CASE k = q
    BY <1>1, <1>2, <2>1, <2>3
  <2>4. CASE q < k
    BY <1>1, <1>2, <2>1, <2>4, EdgesRise
  <2> QED
    BY <1>1, <2>2, <2>3, <2>4
<1> QED
  BY <1>1, <1>2, <1>3

Least(a, b) == IF a > b THEN b ELSE a

(* What drawLed clips. *)
LEMMA ClippedIs ==
  ASSUME FileSize \in Nat, NEW offset \in Nat, NEW length \in Nat
  PROVE  LET c == Picture!Clipped(offset, length) IN
         /\ c.offset = Least(offset, FileSize) /\ c.offset + c.length = Least(offset + length, FileSize)
<1>1. CASE offset > FileSize
  <2>1. Picture!Clipped(offset, length) = [offset |-> FileSize, length |-> 0]
    BY <1>1 DEF Picture!Clipped
  <2> QED
    BY <1>1, <2>1 DEF Least
<1>2. CASE ~(offset > FileSize) /\ offset + length > FileSize
  <2>1. Picture!Clipped(offset, length) = [offset |-> offset, length |-> FileSize - offset]
    BY <1>2 DEF Picture!Clipped
  <2> QED
    BY <1>2, <2>1 DEF Least
<1>3. CASE ~(offset > FileSize) /\ ~(offset + length > FileSize)
  <2>1. Picture!Clipped(offset, length) = [offset |-> offset, length |-> length]
    BY <1>3 DEF Picture!Clipped
  <2> QED
    BY <1>3, <2>1 DEF Least
<1> QED
  BY <1>1, <1>2, <1>3

(* What a drawing from a to b makes of the cells: those before it stay, those behind it are not
   done by it, and of those it touches the ones that end at b or before are done. *)
LEMMA DrawnIs ==
  ASSUME FileSize \in Nat, NEW cells, DOMAIN cells = 0 .. Picture!Cells(FileSize) - 1,
         NEW offset \in Nat, NEW length \in Nat
  PROVE  LET new == Picture!Drawn(cells, offset, length)
             a == Least(offset, FileSize)
             b == Least(offset + length, FileSize)
         IN  /\ DOMAIN new = DOMAIN cells
             /\ \A k \in DOMAIN cells :
                   /\ Edge(k + 1) <= a => new[k] = cells[k]
                   /\ b <= Edge(k) => ((new[k] = "DONE") <=> (cells[k] = "DONE"))
                   /\ a < Edge(k + 1) /\ Edge(k) < b =>
                         ((new[k] = "DONE") <=> (Edge(k + 1) <= b \/ FileSize <= b))
<1> DEFINE new == Picture!Drawn(cells, offset, length)
           a == Least(offset, FileSize)
           b == Least(offset + length, FileSize)
           i == Picture!CDiv(a, per_size)
           j == Picture!CDiv(b, per_size)
           full == [k \in DOMAIN cells |-> IF i <= k /\ k < j THEN "DONE" ELSE cells[k]]
           last == Picture!LastCell(full, b)
<1>1. new = [k \in DOMAIN cells |-> IF k = j /\ last # "none" THEN last ELSE full[k]]
  BY ClippedIs DEF Picture!Drawn
<1>2. a \in Nat /\ b \in Nat /\ a <= b /\ b <= FileSize
  BY DEF Least
<1> HIDE DEF new, a, b
<1>3. /\ i \in Nat /\ Edge(i) <= a /\ a < Edge(i + 1)
      /\ j \in Nat /\ Edge(j) <= b /\ b < Edge(j + 1)
      /\ ((Picture!CMod(b, per_size) = 0) <=> (b = Edge(j)))
  BY <1>2, CellOf
<1>4. last = (IF Picture!CMod(b, per_size) # 0 THEN IF b < FileSize THEN "CURRENT" ELSE "DONE"
              ELSE IF j \in DOMAIN full THEN IF full[j] = "DONE" THEN "DONE" ELSE "CURRENT"
              ELSE "none")
  BY DEF Picture!LastCell
<1> HIDE DEF i, j, last
<1>5. DOMAIN full = DOMAIN cells /\ \A k \in DOMAIN cells : full[k] = IF i <= k /\ k < j THEN "DONE" ELSE cells[k]
  OBVIOUS
<1> HIDE DEF full
<1>6. DOMAIN new = DOMAIN cells /\ \A k \in DOMAIN cells : new[k] = IF k = j /\ last # "none" THEN last ELSE full[k]
  BY <1>1
<1>7. ASSUME NEW k \in DOMAIN cells
      PROVE  /\ Edge(k + 1) <= a => new[k] = cells[k]
             /\ b <= Edge(k) => ((new[k] = "DONE") <=> (cells[k] = "DONE"))
             /\ a < Edge(k + 1) /\ Edge(k) < b =>
                         ((new[k] = "DONE") <=> (Edge(k + 1) <= b \/ FileSize <= b))
  <2>1. k \in Nat
    BY CellsBeginInTheFile
  <2>2. /\ Edge(k) \in Nat /\ Edge(k + 1) \in Nat /\ Edge(k) < Edge(k + 1)
        /\ Edge(i) \in Nat /\ Edge(i + 1) \in Nat /\ Edge(j) \in Nat /\ Edge(j + 1) \in Nat
    BY <1>3, <2>1, Edges
  <2>3. /\ k < i => Edge(k + 1) <= Edge(i)
        /\ i < k => Edge(i + 1) <= Edge(k)
        /\ k < j => Edge(k + 1) <= Edge(j)
        /\ j < k => Edge(j + 1) <= Edge(k)
        /\ j < i => Edge(j + 1) <= Edge(i)
    BY <1>3, <2>1, EdgesRise
  <2>4. i <= j
    BY <1>2, <1>3, <2>2, <2>3
  <2>5. ASSUME Edge(k + 1) <= a PROVE new[k] = cells[k]
    <3>1. k < i
      <4>1. CASE k = i
        BY <1>2, <1>3, <2>2, <2>5, <4>1
      <4>2. CASE i < k
        BY <1>2, <1>3, <2>2, <2>3, <2>5, <4>2
      <4> QED
        BY <1>3, <2>1, <4>1, <4>2
    <3>2. k # j /\ ~(i <= k)
      BY <1>3, <2>1, <2>4, <3>1
    <3> QED
      BY <1>5, <1>6, <3>2
  <2>6. ASSUME b <= Edge(k) PROVE (new[k] = "DONE") <=> (cells[k] = "DONE")
    <3>1. ~(k < j)
      BY <1>2, <1>3, <2>2, <2>3, <2>6
    <3>2. full[k] = cells[k]
      BY <1>5, <3>1
    <3>3. CASE k = j
      <4>1. Picture!CMod(b, per_size) = 0
        BY <1>2, <1>3, <2>2, <2>6, <3>3
      <4>2. last = IF full[k] = "DONE" THEN "DONE" ELSE "CURRENT"
        BY <1>4, <1>5, <3>3, <4>1
      <4> QED
        BY <1>6, <3>2, <3>3, <4>2
    <3>4. CASE k # j
      BY <1>6, <3>2, <3>4
    <3> QED
      BY <3>3, <3>4
  <2>7. ASSUME a < Edge(k + 1), Edge(k) < b
        PROVE  (new[k] = "DONE") <=> (Edge(k + 1) <= b \/ FileSize <= b)
    <3>1. i <= k
      BY <1>2, <1>3, <2>1, <2>2, <2>3, <2>7
    <3>2. CASE k < j
      <4>1. full[k] = "DONE" /\ k # j
        BY <1>3, <1>5, <2>1, <3>1, <3>2
      <4>2. Edge(k + 1) <= b
        BY <1>2, <1>3, <2>2, <2>3, <3>2
      <4> QED
        BY <1>6, <4>1, <4>2
    <3>3. CASE k = j
      <4>1. Picture!CMod(b, per_size) # 0 /\ ~(Edge(k + 1) <= b)
        BY <1>2, <1>3, <2>2, <2>7, <3>3
      <4>2. last = IF b < FileSize THEN "CURRENT" ELSE "DONE"
        BY <1>4, <4>1
      <4> QED
        BY <1>2, <1>6, <3>3, <4>1, <4>2
    <3>4. CASE j < k
      BY <1>2, <1>3, <2>2, <2>3, <2>7, <3>4
    <3> QED
      BY <1>3, <2>1, <3>2, <3>3, <3>4
  <2> QED
    BY <2>5, <2>6, <2>7
<1> QED
  BY <1>6, <1>7 DEF new, a, b

(* What the cells of a thread are: they begin behind its first byte, unless it is the first thread,
   and end in its block, unless it is the last one. *)
LEMMA OwnCellsAre ==
  ASSUME LedTypes, FileSize \in Nat, DOMAIN vvCell = 0 .. Picture!Cells(FileSize) - 1,
         NEW i \in Picture!Threads, NEW k \in Picture!OwnCells(i)
  PROVE  /\ k \in DOMAIN vvCell /\ k \in Nat /\ Edge(k) < FileSize
         /\ Edge(k) \in Nat /\ Edge(k + 1) \in Nat /\ Edge(k) < Edge(k + 1)
         /\ i = 0 \/ First(i) < Edge(k)
         /\ i = ThreadCnt - 1 \/ Edge(k + 1) <= Behind(i)
         /\ Picture!CellEnd(k) = Least(Edge(k + 1), FileSize)
<1>1. k \in DOMAIN vvCell
      /\ (k * per_size > First(i) \/ i = 0)
      /\ ((k + 1) * per_size <= Behind(i) \/ i = ThreadCnt - 1)
  BY DEF Picture!OwnCells, First, Behind
<1>2. k \in Nat
  BY <1>1, CellsBeginInTheFile
<1>3. Edge(k) < FileSize
  BY <1>1, <1>2, CellsBeginInTheFile
<1>4. Edge(k) \in Nat /\ Edge(k + 1) \in Nat /\ Edge(k) < Edge(k + 1)
  BY <1>2, Edges
<1>5. (k + 1) * per_size = Edge(k + 1) /\ k * per_size = Edge(k)
  BY DEF Edge
<1>6. First(i) \in Nat
  BY StartsAre
<1>7. Picture!CellEnd(k) = Least(Edge(k + 1), FileSize)
  BY <1>4, <1>5 DEF Picture!CellEnd, Least
<1> QED
  BY <1>1, <1>2, <1>3, <1>4, <1>5, <1>6, <1>7

(* A drawing of thread l keeps what the picture shows of the threads that stood still: the cells of
   those before l end before it begins; those of the later ones begin where it has ended, when l
   stood still as well; and of l itself it goes on where the last one has ended. *)
LEMMA DrawKeeps ==
  ASSUME LedTypes, FileSize \in Nat, DOMAIN vvCell = 0 .. Picture!Cells(FileSize) - 1,
         NEW l \in Picture!Threads, NEW offset \in Nat, NEW length \in Nat, First(l) <= offset,
         NEW E \in SUBSET exact,
         \A i \in Picture!Threads : 0 .. i \subseteq exact => Shows(i),
         l \in E => offset = drawn[l] /\ offset + length <= FileSize /\ offset + length <= Behind(l) + 1,
         vvCell' = Picture!Drawn(vvCell, offset, length), drawn' = [drawn EXCEPT ![l] = offset + length],
         FileSize' = FileSize, ThreadCnt' = ThreadCnt, exact' = E
  PROVE  \A i \in Picture!Threads : 0 .. i \subseteq exact' => Shows(i)'
<1> DEFINE a == Least(offset, FileSize)
           b == Least(offset + length, FileSize)
<1>1. a \in Nat /\ b \in Nat /\ a <= b
  BY DEF Least
<1>2. DOMAIN vvCell' = DOMAIN vvCell
  BY DrawnIs
<1>3. \A k \in DOMAIN vvCell :
         /\ Edge(k + 1) <= a => vvCell'[k] = vvCell[k]
         /\ b <= Edge(k) => ((vvCell'[k] = "DONE") <=> (vvCell[k] = "DONE"))
         /\ a < Edge(k + 1) /\ Edge(k) < b =>
               ((vvCell'[k] = "DONE") <=> (Edge(k + 1) <= b \/ FileSize <= b))
  <2> DEFINE new == Picture!Drawn(vvCell, offset, length)
  <2>1. \A k \in DOMAIN vvCell :
           /\ Edge(k + 1) <= a => new[k] = vvCell[k]
           /\ b <= Edge(k) => ((new[k] = "DONE") <=> (vvCell[k] = "DONE"))
           /\ a < Edge(k + 1) /\ Edge(k) < b =>
                 ((new[k] = "DONE") <=> (Edge(k + 1) <= b \/ FileSize <= b))
    BY DrawnIs
  <2>2. vvCell' = new
    OBVIOUS
  <2> HIDE DEF new, a, b
  <2> QED
    BY <2>1, <2>2
<1> HIDE DEF a, b
<1>4. drawn \in [Picture!Threads -> Nat] /\ FileSize # Picture!UnknownSize /\ ThreadCnt \in Nat \ {0}
  <2>1. drawn \in [Picture!Threads -> Nat] /\ ThreadCnt \in Nat \ {0}
    BY DEF LedTypes
  <2>2. FileSize # Picture!UnknownSize
    BY DEF Picture!UnknownSize
  <2> QED
    BY <2>1, <2>2
<1>5. drawn'[l] = offset + length /\ \A i \in Picture!Threads : i # l => drawn'[i] = drawn[i]
  BY <1>4
<1>6. ASSUME NEW i \in Picture!Threads, 0 .. i \subseteq E, NEW k \in Picture!OwnCells(i)
      PROVE  (vvCell'[k] = "DONE") <=> (Picture!CellEnd(k) <= drawn'[i])
  <2>1. /\ k \in DOMAIN vvCell /\ k \in Nat /\ Edge(k) < FileSize
        /\ Edge(k) \in Nat /\ Edge(k + 1) \in Nat /\ Edge(k) < Edge(k + 1)
        /\ (i = 0 \/ First(i) < Edge(k))
        /\ (i = ThreadCnt - 1 \/ Edge(k + 1) <= Behind(i))
        /\ Picture!CellEnd(k) = Least(Edge(k + 1), FileSize)
    BY OwnCellsAre
  <2>2. i \in Nat /\ l \in Nat /\ i <= ThreadCnt - 1 /\ l <= ThreadCnt - 1
    BY <1>4 DEF Picture!Threads
  <2>3. (vvCell[k] = "DONE") <=> (Picture!CellEnd(k) <= drawn[i])
    BY <1>6 DEF Shows
  <2>4. /\ First(i) \in Nat /\ Behind(i) \in Nat /\ Behind(i) <= FileSize
        /\ First(l) \in Nat /\ Behind(l) \in Nat
        /\ (l < i => Behind(l) <= First(i)) /\ (i < l => Behind(i) <= First(l))
    BY <1>4, BlocksInOrder
  <2>5. CASE i < l
    <3>1. Edge(k + 1) <= a
      BY <2>1, <2>2, <2>4, <2>5 DEF Least, a
    <3>2. vvCell'[k] = vvCell[k]
      BY <1>3, <2>1, <3>1
    <3>3. drawn'[i] = drawn[i]
      BY <1>5, <2>2, <2>5
    <3> QED
      BY <2>3, <3>2, <3>3
  <2>6. CASE l < i
    <3>1. l \in E
      BY <1>6, <2>2, <2>6
    <3>2. b <= Edge(k)
      <4>1. /\ offset + length \in Nat /\ FileSize \in Nat /\ Edge(k) \in Nat
            /\ Behind(l) <= First(i) /\ offset + length <= Behind(l) + 1 /\ First(i) < Edge(k)
        BY <2>1, <2>2, <2>4, <2>6, <3>1
      <4> QED
        BY ONLY <4>1, <2>4 DEF Least, b
    <3>3. (vvCell'[k] = "DONE") <=> (vvCell[k] = "DONE")
      BY <1>3, <2>1, <3>2
    <3>4. drawn'[i] = drawn[i]
      BY <1>5, <2>2, <2>6
    <3> QED
      BY <2>3, <3>3, <3>4
  <2>7. CASE l = i
    <3>1. l \in E
      BY <1>6, <2>2, <2>7
    <3>2. offset = drawn[i] /\ drawn'[i] = b /\ drawn[i] = a
      BY <1>5, <2>7, <3>1 DEF Least, a, b
    <3>3. CASE Edge(k + 1) <= a
      BY <1>1, <1>3, <2>1, <2>3, <3>2, <3>3 DEF Least
    <3>4. CASE a < Edge(k + 1) /\ Edge(k) < b
      BY <1>1, <1>3, <2>1, <2>3, <3>2, <3>4 DEF Least
    <3>5. CASE a < Edge(k + 1) /\ b <= Edge(k)
      BY <1>1, <1>3, <2>1, <2>3, <3>2, <3>5 DEF Least
    <3> QED
      BY <1>1, <2>1, <3>3, <3>4, <3>5
  <2> QED
    BY <2>2, <2>5, <2>6, <2>7
<1>7. \A i : Picture!OwnCells(i)' = Picture!OwnCells(i)
  BY <1>2 DEF Picture!OwnCells
<1>8. \A k : Picture!CellEnd(k)' = Picture!CellEnd(k)
  BY DEF Picture!CellEnd
<1> QED
  BY <1>6, <1>7, <1>8 DEF Shows

(* The fixed size and number of threads fix the blocks. *)
LEMMA BlocksStay ==
  ASSUME FileSize' = FileSize, ThreadCnt' = ThreadCnt
  PROVE  Picture!Threads' = Picture!Threads /\ Picture!Cells(FileSize)' = Picture!Cells(FileSize)
         /\ \A i : First(i)' = First(i) /\ Behind(i)' = Behind(i)
BY DEF Picture!Threads, Picture!Cells, Picture!CDiv, Picture!CMod, First, Behind

(* A picture that has just been set up shows that nothing has been drawn. *)
LEMMA SetupShows ==
  ASSUME LedTypes, FileSize \in Nat, FileSize # 0, vvCell' = Picture!initLed(vvCell, FileSize),
         drawn' = [i \in Picture!Threads |-> Picture!BlockStart(FileSize, ThreadCnt, i)],
         FileSize' = FileSize, ThreadCnt' = ThreadCnt
  PROVE  \A i \in Picture!Threads : Shows(i)'
<1>1. vvCell' = [k \in 0 .. Picture!Cells(FileSize) - 1 |-> "WAIT"]
  BY DEF Picture!initLed
<1>2. DOMAIN vvCell' = 0 .. Picture!Cells(FileSize) - 1
  BY <1>1
<1>3. ASSUME NEW i \in Picture!Threads, NEW k \in 0 .. Picture!Cells(FileSize) - 1, k * per_size > First(i) \/ i = 0
      PROVE  ~(Picture!CellEnd(k) <= drawn'[i])
  <2>1. k \in Nat
    BY CellsBeginInTheFile
  <2>2. Edge(k) < FileSize /\ Edge(k) \in Nat /\ Edge(k + 1) \in Nat /\ Edge(k) < Edge(k + 1)
    BY <2>1, CellsBeginInTheFile, Edges
  <2>3. k * per_size = Edge(k) /\ (k + 1) * per_size = Edge(k + 1)
    BY DEF Edge
  <2>4. drawn'[i] = First(i) /\ First(i) \in Nat
    BY StartsAre DEF First
  <2>5. i = 0 => First(i) = 0
    BY BlocksInOrder DEF LedTypes, Picture!UnknownSize
  <2> QED
    BY <1>3, <2>2, <2>3, <2>4, <2>5 DEF Picture!CellEnd
<1>4. ASSUME NEW i \in Picture!Threads, NEW k \in Picture!OwnCells(i)'
      PROVE  k \in 0 .. Picture!Cells(FileSize) - 1 /\ (k * per_size > First(i) \/ i = 0)
  BY <1>2, <1>4 DEF Picture!OwnCells, First
<1>5. \A k : Picture!CellEnd(k)' = Picture!CellEnd(k)
  BY DEF Picture!CellEnd
<1>6. \A k \in 0 .. Picture!Cells(FileSize) - 1 : vvCell'[k] # "DONE"
  BY <1>1
<1> QED
  BY <1>3, <1>4, <1>5, <1>6 DEF Shows

(* The picture begins. *)
LEMMA LedBegins == Picture!Init => LedIInv
<1> SUFFICES ASSUME Picture!Init PROVE LedIInv
  OBVIOUS
<1>1. PICK f \in Files : FileSize = f[1] /\ ThreadCnt = f[2]
  BY DEF Picture!Init
<1>2. /\ FileSize \in Nat \cup {Picture!UnknownSize} /\ ThreadCnt \in Nat \ {0}
      /\ FileSize = Picture!UnknownSize => ThreadCnt = 1
  BY <1>1, LedAssumption, SameBlocks
<1>3. /\ status = "start" /\ step = "idle" /\ at = 0 /\ exact = {}
      /\ RemoteStartPos = [i \in Picture!Threads |-> First(i)]
      /\ RemoteBytesReceived = [i \in Picture!Threads |-> 0]
      /\ chunk = [i \in Picture!Threads |-> 0]
      /\ CHS = [i \in Picture!Threads |-> Picture!Read(0, 0)]
      /\ drawn = [i \in Picture!Threads |-> 0]
  BY DEF Picture!Init, First
<1>4. 0 \in Picture!Threads
  BY <1>2 DEF Picture!Threads
<1>5. \A i \in Picture!Threads : First(i) \in Nat
  <2>1. CASE FileSize = Picture!UnknownSize
    BY <2>1 DEF First, Picture!BlockStart
  <2>2. CASE FileSize \in Nat
    BY <1>2, <2>2, BlocksLieInTheFile, SameBlocks DEF First, Picture!Threads
  <2> QED
    BY <1>2, <2>1, <2>2
<1>6. LedTypes
  <2>1. Picture!Read(0, 0) \in [offset : Nat, finished : Nat]
    BY DEF Picture!Read
  <2>2. CHS \in [Picture!Threads -> [offset : Nat, finished : Nat]]
    BY <1>3, <2>1
  <2> QED
    BY <1>2, <1>3, <1>4, <1>5, <2>2 DEF LedTypes
<1>7. StaysInBlock
  <2>1. ASSUME FileSize # Picture!UnknownSize, NEW i \in Picture!Threads PROVE First(i) <= Behind(i) + 1 /\ First(i) <= FileSize
    <3>1. First(i) \in Nat /\ Behind(i) \in Nat /\ First(i) <= Behind(i) /\ Behind(i) <= FileSize
      BY <1>6, <2>1, BlocksInOrder
    <3> QED
      BY <1>6, <2>1, <3>1 DEF LedTypes
  <2>2. \A i \in Picture!Threads : RemoteStartPos[i] = First(i) /\ RemoteBytesReceived[i] = 0 /\ chunk[i] = 0
    BY <1>3
  <2> QED
    BY <1>5, <2>1, <2>2 DEF StaysInBlock
<1> QED
  BY <1>3, <1>6, <1>7 DEF LedIInv, PositionsAgree, NothingMoves, ReadBefore, AreDrawn, ExactIsExact, NotDrawn,
     CellsAreThere, ShowsExactly, HasPicture

(* The picture is set up. *)
LEMMA SetupKeeps == LedIInv /\ Picture!Setup => LedIInv'
<1> SUFFICES ASSUME LedIInv, Picture!Setup PROVE LedIInv'
  OBVIOUS
<1>1. /\ status \in {"start", "stopped"} /\ step = "idle"
      /\ vvCell' = Picture!initLed(vvCell, FileSize)
      /\ step' = "setup" /\ at' = 0
      /\ drawn' = [i \in Picture!Threads |-> First(i)] /\ exact' = Picture!Threads
      /\ FileSize' = FileSize /\ ThreadCnt' = ThreadCnt /\ status' = status /\ CHS' = CHS
      /\ RemoteStartPos' = RemoteStartPos /\ RemoteBytesReceived' = RemoteBytesReceived /\ chunk' = chunk
  BY DEF Picture!Setup, Picture!positions, First
<1>2. LedTypes /\ StaysInBlock /\ NothingMoves
  BY DEF LedIInv
<1>3. /\ Picture!Threads' = Picture!Threads /\ Picture!Cells(FileSize)' = Picture!Cells(FileSize)
      /\ \A i : First(i)' = First(i) /\ Behind(i)' = Behind(i)
  BY <1>1, BlocksStay
<1>4. \A i \in Picture!Threads : First(i) \in Nat
  BY <1>2, StartsAre
<1>5. LedTypes'
  <2>1. 0 \in Picture!Threads
    BY <1>2 DEF LedTypes, Picture!Threads
  <2> QED
    BY <1>1, <1>2, <1>3, <1>4, <2>1 DEF LedTypes
<1>6. StaysInBlock'
  BY <1>1, <1>2, <1>3 DEF StaysInBlock
<1>7. NothingMoves'
  BY <1>1, <1>2, <1>3 DEF NothingMoves
<1>8. AreDrawn' = {}
  BY <1>1 DEF AreDrawn
<1>9. PositionsAgree' /\ ReadBefore' /\ ExactIsExact'
  BY <1>8 DEF PositionsAgree, ReadBefore, ExactIsExact
<1>10. NotDrawn'
  BY <1>1, <1>2, <1>3 DEF NotDrawn, Picture!Threads, LedTypes
<1>11. CellsAreThere'
  BY <1>1, <1>3 DEF CellsAreThere, Picture!initLed
<1>12. ShowsExactly'
  <2>1. CASE FileSize > 0
    <3>1. FileSize \in Nat /\ FileSize # 0
      BY <1>2, <2>1 DEF LedTypes, Picture!UnknownSize
    <3>2. drawn' = [i \in Picture!Threads |-> Picture!BlockStart(FileSize, ThreadCnt, i)]
      BY <1>1 DEF First
    <3>3. \A i \in Picture!Threads : Shows(i)'
      BY <1>1, <1>2, <3>1, <3>2, SetupShows
    <3> QED
      BY <1>3, <3>3 DEF ShowsExactly
  <2>2. CASE ~(FileSize > 0)
    BY <1>1, <2>2 DEF ShowsExactly
  <2> QED
    BY <2>1, <2>2
<1> QED
  BY <1>5, <1>6, <1>7, <1>9, <1>10, <1>11, <1>12 DEF LedIInv

(* A drawing of thread l, from the place and of the length the code takes, keeps the cells. *)
LEMMA CellsKept ==
  ASSUME LedIInv, HasPicture,
         NEW l \in Picture!Threads, NEW offset \in Nat, NEW length \in Nat, First(l) <= offset,
         NEW E \in SUBSET exact,
         FileSize # Picture!UnknownSize /\ l \in E =>
            offset = drawn[l] /\ offset + length <= FileSize /\ offset + length <= Behind(l) + 1,
         vvCell' = Picture!Drawn(vvCell, offset, length), drawn' = [drawn EXCEPT ![l] = offset + length],
         FileSize' = FileSize, ThreadCnt' = ThreadCnt, exact' = E
  PROVE  CellsAreThere' /\ ShowsExactly'
<1>1. DOMAIN vvCell' = DOMAIN vvCell
  BY DEF Picture!Drawn
<1>2. Picture!Threads' = Picture!Threads /\ Picture!Cells(FileSize)' = Picture!Cells(FileSize)
  BY BlocksStay
<1>3. CellsAreThere'
  BY <1>1, <1>2 DEF CellsAreThere, LedIInv
<1>4. CASE FileSize > 0
  <2>1. LedTypes /\ FileSize \in Nat /\ FileSize # 0
    BY <1>4 DEF LedTypes, LedIInv, Picture!UnknownSize
  <2>2. DOMAIN vvCell = 0 .. Picture!Cells(FileSize) - 1
    BY <2>1 DEF CellsAreThere, LedIInv
  <2>3. \A i \in Picture!Threads : 0 .. i \subseteq exact => Shows(i)
    BY <1>4 DEF ShowsExactly, LedIInv
  <2>4. l \in E => offset = drawn[l] /\ offset + length <= FileSize /\ offset + length <= Behind(l) + 1
    BY <2>1 DEF Picture!UnknownSize
  <2>5. \A i \in Picture!Threads : 0 .. i \subseteq exact' => Shows(i)'
    BY <2>1, <2>2, <2>3, <2>4, DrawKeeps
  <2> QED
    BY <1>2, <1>3, <2>5 DEF ShowsExactly
<1>5. CASE ~(FileSize > 0)
  BY <1>3, <1>5 DEF ShowsExactly
<1> QED
  BY <1>4, <1>5

(* Before there are pthreads, what a thread has received is drawn. *)
LEMMA DrawReceivedKeeps == LedIInv /\ Picture!DrawReceived => LedIInv'
<1> SUFFICES ASSUME LedIInv, Picture!DrawReceived PROVE LedIInv'
  OBVIOUS
<1> DEFINE l == at
           b == Picture!Begin(l)
           n == RemoteBytesReceived[l]
           same == b = First(l) /\ RemoteStartPos[l] = First(l) + n
<1>1. /\ step = "setup"
      /\ vvCell' = Picture!Drawn(vvCell, b, n)
      /\ drawn' = [drawn EXCEPT ![l] = b + n]
      /\ exact' = IF same THEN exact ELSE exact \ {l}
      /\ CHS' = [CHS EXCEPT ![l] = Picture!Read(RemoteStartPos[l], n)]
      /\ at' = (l + 1) % ThreadCnt
      /\ IF l = ThreadCnt - 1 THEN step' = "idle" /\ status' = "running"
                              ELSE step' = step /\ status' = status
      /\ FileSize' = FileSize /\ ThreadCnt' = ThreadCnt
      /\ RemoteStartPos' = RemoteStartPos /\ RemoteBytesReceived' = RemoteBytesReceived /\ chunk' = chunk
  BY DEF Picture!DrawReceived, Picture!Whole, Picture!positions, First
<1>2. LedTypes /\ StaysInBlock /\ PositionsAgree /\ NothingMoves /\ ReadBefore /\ ExactIsExact /\ NotDrawn
  BY DEF LedIInv
<1>3. /\ Picture!Threads' = Picture!Threads
      /\ \A i : First(i)' = First(i) /\ Behind(i)' = Behind(i)
  BY <1>1, BlocksStay
<1>4. l \in Picture!Threads /\ n \in Nat /\ ThreadCnt \in Nat \ {0} /\ Picture!Threads = 0 .. ThreadCnt - 1
  BY <1>2 DEF LedTypes, Picture!Threads
<1>5. status # "running" /\ \A i \in Picture!Threads : chunk[i] = 0
  BY <1>1, <1>2 DEF NotDrawn, NothingMoves
<1>6. /\ First(l) <= RemoteStartPos[l] /\ chunk[l] = 0
      /\ FileSize # Picture!UnknownSize => RemoteStartPos[l] <= Behind(l) + 1 /\ RemoteStartPos[l] <= FileSize
  BY <1>2, <1>4, <1>5 DEF StaysInBlock
<1>7. First(l) \in Nat /\ RemoteStartPos[l] \in Nat
  BY <1>2, <1>4, StartsAre DEF LedTypes
<1>8. drawn[l] = First(l) /\ l \in exact
  BY <1>1, <1>2, <1>4 DEF NotDrawn
<1>9. b \in Nat /\ First(l) <= b
  <2>1. CASE status = "start"
    BY <1>6, <1>7, <1>4, <2>1 DEF Picture!Begin
  <2>2. CASE status # "start" /\ FileSize = Picture!UnknownSize
    <3>1. ThreadCnt = 1 /\ l = 0
      BY <1>2, <1>4, <2>2 DEF LedTypes
    <3>2. Picture!BlockSize(FileSize, ThreadCnt, l) = -1
      BY <2>2 DEF Picture!BlockSize, Picture!BytesPerConn, Picture!Remainder
    <3>3. Picture!Begin(l) = 0
      BY <2>2, <3>1, <3>2 DEF Picture!Begin
    <3>4. First(l) = 0
      BY <2>2 DEF First, Picture!BlockStart
    <3> QED
      BY <3>3, <3>4
  <2>3. CASE status # "start" /\ FileSize # Picture!UnknownSize
    <3> DEFINE per == Picture!BytesPerConn(FileSize, ThreadCnt)
               rem == Picture!Remainder(FileSize, ThreadCnt, l)
    <3>1. FileSize \in Nat /\ l \in Nat
      BY <1>2, <1>4, <2>3 DEF LedTypes
    <3>2. per \in Nat /\ Picture!BytesLeft(FileSize, ThreadCnt) \in Nat
      BY <1>4, <3>1, Division, SameBlocks
    <3>3. rem \in Nat
      BY <3>2 DEF Picture!Remainder
    <3>4. Picture!Begin(l) = l * (per + rem) /\ First(l) = l * per
      BY <2>3 DEF Picture!Begin, Picture!BlockSize, First, Picture!BlockStart
    <3> HIDE DEF per, rem
    <3>5. l * (per + rem) = l * per + l * rem /\ l * rem \in Nat /\ l * per \in Nat
      BY <3>1, <3>2, <3>3
    <3> QED
      BY <3>4, <3>5
  <2> QED
    BY <2>1, <2>2, <2>3
<1>10. HasPicture
  BY <1>1 DEF HasPicture
<1> HIDE DEF b
<1>11. CellsAreThere' /\ ShowsExactly'
  <2> DEFINE E == exact'
  <2>1. E \in SUBSET exact /\ (l \in E => same)
    BY <1>1, <1>2 DEF LedTypes
  <2>2. FileSize # Picture!UnknownSize /\ l \in E => b = drawn[l] /\ b + n <= FileSize /\ b + n <= Behind(l) + 1
    BY <1>4, <1>6, <1>7, <1>8, <2>1
  <2>3. exact' = E
    OBVIOUS
  <2> HIDE DEF E
  <2> QED
    BY <1>1, <1>4, <1>9, <1>10, <2>1, <2>2, <2>3, CellsKept
<1>12. at' \in Picture!Threads /\ (l # ThreadCnt - 1 => at' = l + 1)
  BY <1>1, <1>4
<1>13. LedTypes'
  <2>1. Picture!Read(RemoteStartPos[l], n) \in [offset : Nat, finished : Nat]
    BY <1>4, <1>7 DEF Picture!Read
  <2>2. CHS' \in [Picture!Threads -> [offset : Nat, finished : Nat]]
    BY <1>1, <1>2, <1>4, <2>1 DEF LedTypes
  <2>3. b + n \in Nat
    BY <1>4, <1>9
  <2>4. drawn' \in [Picture!Threads -> Nat]
    BY <1>1, <1>2, <1>4, <2>3 DEF LedTypes
  <2>5. exact' \in SUBSET Picture!Threads
    BY <1>1, <1>2 DEF LedTypes
  <2>6. status' \in {"start", "running", "stopped"} /\ step' \in {"idle", "setup", "finished", "offset"}
    BY <1>1, <1>2 DEF LedTypes
  <2> QED
    BY <1>1, <1>2, <1>3, <1>12, <2>2, <2>4, <2>5, <2>6 DEF LedTypes
<1>14. StaysInBlock'
  BY <1>1, <1>2, <1>3 DEF StaysInBlock
<1>15. NothingMoves'
  BY <1>1, <1>3, <1>5 DEF NothingMoves
<1>16. AreDrawn' = AreDrawn \cup {l}
  <2>1. AreDrawn = 0 .. l - 1
    BY <1>1, <1>5 DEF AreDrawn
  <2>2. CASE l = ThreadCnt - 1
    BY <1>1, <1>3, <1>4, <2>1, <2>2 DEF AreDrawn
  <2>3. CASE l # ThreadCnt - 1
    <3>1. AreDrawn' = 0 .. (l + 1) - 1
      BY <1>1, <1>5, <1>12, <2>3 DEF AreDrawn
    <3> QED
      BY <1>4, <2>1, <3>1
  <2> QED
    BY <2>2, <2>3
<1>17. ~(l \in AreDrawn) /\ AreDrawn \subseteq Picture!Threads
  BY <1>1, <1>4, <1>5 DEF AreDrawn
<1>18. CHS'[l].offset = RemoteStartPos[l] /\ CHS'[l].finished = n
  <2>1. CHS'[l] = Picture!Read(RemoteStartPos[l], n)
    BY <1>1, <1>2, <1>4 DEF LedTypes
  <2> QED
    BY <2>1 DEF Picture!Read
<1>19. \A i \in AreDrawn : CHS'[i] = CHS[i] /\ drawn'[i] = drawn[i] /\ (i \in exact' => i \in exact)
  BY <1>1, <1>2, <1>17 DEF LedTypes
<1>24. PositionsAgree'
  <2>1. ASSUME NEW i \in (AreDrawn \cup {l}) \cap exact'
        PROVE  RemoteStartPos[i] = First(i) + RemoteBytesReceived[i] + chunk[i]
    <3>1. CASE i = l
      <4>1. RemoteStartPos[l] = First(l) + n
        BY <1>1, <1>2, <2>1, <3>1 DEF LedTypes
      <4> QED
        BY <1>4, <1>6, <1>7, <3>1, <4>1
    <3>2. CASE i # l
      BY <1>2, <1>19, <2>1, <3>2 DEF PositionsAgree
    <3> QED
      BY <3>1, <3>2
  <2> QED
    BY <1>1, <1>3, <1>16, <2>1 DEF PositionsAgree
<1>20. ReadBefore'
  <2>1. ASSUME NEW i \in AreDrawn \cup {l}
        PROVE  CHS'[i].finished <= RemoteBytesReceived[i] /\ First(i) <= CHS'[i].offset
    <3>1. CASE i = l
      BY <1>4, <1>6, <1>7, <1>18, <3>1
    <3>2. CASE i # l
      BY <1>2, <1>19, <2>1, <3>2 DEF ReadBefore
    <3> QED
      BY <3>1, <3>2
  <2> QED
    BY <1>1, <1>3, <1>16, <2>1 DEF ReadBefore
<1>21. \A i : ~Between(i) /\ ~Between(i)'
  BY <1>1 DEF Between
<1>22. ExactIsExact'
  <2>1. ASSUME NEW i \in (AreDrawn \cup {l}) \cap exact'
        PROVE  /\ First(i) <= drawn'[i] /\ drawn'[i] <= First(i) + RemoteBytesReceived[i]
               /\ CHS'[i].offset = drawn'[i] /\ drawn'[i] = First(i) + CHS'[i].finished
    <3>1. CASE i = l
      <4>1. drawn'[l] = b + n /\ b = First(l) /\ RemoteStartPos[l] = First(l) + n
        BY <1>1, <1>2, <1>4, <2>1, <3>1 DEF LedTypes
      <4> QED
        BY <1>4, <1>6, <1>7, <1>18, <3>1, <4>1
    <3>2. CASE i # l
      <4>1. i \in AreDrawn \cap exact
        BY <1>19, <2>1, <3>2
      <4> QED
        BY <1>2, <1>19, <1>21, <4>1 DEF ExactIsExact
    <3> QED
      BY <3>1, <3>2
  <2>2. step' # "offset"
    BY <1>1
  <2> QED
    BY <1>1, <1>3, <1>16, <2>1, <2>2 DEF ExactIsExact
<1>23. NotDrawn'
  <2>1. CASE l = ThreadCnt - 1
    BY <1>1, <2>1 DEF NotDrawn
  <2>2. CASE l # ThreadCnt - 1
    <3>1. ASSUME NEW i \in (l + 1) .. ThreadCnt - 1 PROVE drawn'[i] = First(i) /\ i \in exact'
      <4>1. i \in l .. ThreadCnt - 1 /\ i \in Picture!Threads /\ i # l
        BY <1>4, <3>1
      <4>2. drawn[i] = First(i) /\ i \in exact
        BY <1>1, <1>2, <4>1 DEF NotDrawn
      <4> QED
        BY <1>1, <1>2, <4>1, <4>2 DEF LedTypes
    <3> QED
      BY <1>1, <1>3, <1>5, <1>12, <2>2, <3>1 DEF NotDrawn
  <2> QED
    BY <2>1, <2>2
<1> QED
  BY <1>11, <1>13, <1>14, <1>15, <1>20, <1>22, <1>23, <1>24 DEF LedIInv

(* A stop leaves the positions and the picture as they are. *)
LEMMA StopKeeps == LedIInv /\ Picture!Stop => LedIInv'
<1> SUFFICES ASSUME LedIInv, Picture!Stop PROVE LedIInv'
  OBVIOUS
<1>1. /\ status' = "stopped" /\ step' = "load" /\ at' = at /\ at = 0 /\ chunk' = chunk
      /\ FileSize' = FileSize /\ ThreadCnt' = ThreadCnt
      /\ RemoteStartPos' = RemoteStartPos /\ RemoteBytesReceived' = RemoteBytesReceived
      /\ CHS' = CHS /\ drawn' = [i \in Picture!Threads |-> 0] /\ exact' = {}
  BY DEF Picture!Stop, Picture!positions
<1>2. LedTypes /\ StaysInBlock
  BY DEF LedIInv
<1>3. Picture!Threads' = Picture!Threads /\ \A i : First(i)' = First(i) /\ Behind(i)' = Behind(i)
  BY <1>1, BlocksStay
<1>4. LedTypes'
  BY <1>1, <1>2, <1>3 DEF LedTypes
<1>5. StaysInBlock'
  BY <1>1, <1>2, <1>3 DEF StaysInBlock
<1>6. NothingMoves'
  BY <1>1, <1>2, <1>3 DEF NothingMoves, LedTypes, Picture!Threads
<1>7. AreDrawn' = {}
  BY <1>1 DEF AreDrawn
<1>8. PositionsAgree' /\ ReadBefore' /\ ExactIsExact'
  BY <1>7 DEF PositionsAgree, ReadBefore, ExactIsExact
<1>9. NotDrawn' /\ CellsAreThere' /\ ShowsExactly'
  BY <1>1 DEF NotDrawn, CellsAreThere, ShowsExactly, HasPicture
<1> QED
  BY <1>4, <1>5, <1>6, <1>8, <1>9 DEF LedIInv

(* A record of the log leaves its thread in the block, whatever it says was received. *)
LEMMA LoadKeeps == LedIInv /\ Picture!loadLogFile => LedIInv'
<1> SUFFICES ASSUME LedIInv, Picture!loadLogFile PROVE LedIInv'
  OBVIOUS
<1> DEFINE l == at
<1>1. /\ step = "load" /\ step' = (IF l = ThreadCnt - 1 THEN "idle" ELSE "load")
      /\ chunk' = [chunk EXCEPT ![l] = 0] /\ at' = (l + 1) % ThreadCnt
      /\ FileSize' = FileSize /\ ThreadCnt' = ThreadCnt /\ status' = status
      /\ CHS' = CHS /\ vvCell' = vvCell /\ drawn' = drawn /\ exact' = exact
  BY DEF Picture!loadLogFile
<1>2. LedTypes /\ StaysInBlock /\ NothingMoves
  BY DEF LedIInv
<1>3. Picture!Threads' = Picture!Threads /\ \A i : First(i)' = First(i) /\ Behind(i)' = Behind(i)
  BY <1>1, BlocksStay
<1>4. l \in Picture!Threads /\ ThreadCnt \in Nat \ {0} /\ Picture!Threads = 0 .. ThreadCnt - 1
      /\ First(l) \in Nat /\ RemoteStartPos[l] \in Nat /\ RemoteBytesReceived[l] \in Nat
  BY <1>2, StartsAre DEF LedTypes, Picture!Threads
<1>5. status = "stopped"
  BY <1>1, <1>2 DEF NothingMoves
<1>6. PICK rec \in Picture!Records(l) :
         /\ RemoteStartPos' = [RemoteStartPos EXCEPT ![l] = rec.start]
         /\ RemoteBytesReceived' = [RemoteBytesReceived EXCEPT ![l] = rec.received]
  BY DEF Picture!loadLogFile
<1>7. /\ rec.start \in Nat /\ rec.received \in Nat
      /\ First(l) <= rec.start
      /\ FileSize # Picture!UnknownSize => rec.start <= RemoteStartPos[l]
  <2>1. CASE FileSize = Picture!UnknownSize
    <3>1. rec = [start |-> 0, received |-> RemoteBytesReceived[l]]
      BY <2>1 DEF Picture!Records
    <3>2. First(l) = 0
      BY <2>1 DEF First, Picture!BlockStart
    <3> QED
      BY <1>4, <2>1, <3>1, <3>2
  <2>2. CASE FileSize # Picture!UnknownSize
    <3>1. rec \in [start : First(l) .. RemoteStartPos[l], received : 0 .. RemoteBytesReceived[l]]
      BY <2>2 DEF Picture!Records, First
    <3>2. rec.start \in First(l) .. RemoteStartPos[l] /\ rec.received \in 0 .. RemoteBytesReceived[l]
      BY <3>1
    <3> QED
      BY <1>4, <3>2
  <2> QED
    BY <2>1, <2>2
<1>8. at' \in Picture!Threads /\ (l # ThreadCnt - 1 => at' = l + 1)
  BY <1>1, <1>4
<1>9. LedTypes'
  <2>1. /\ RemoteStartPos' \in [Picture!Threads -> Nat] /\ RemoteBytesReceived' \in [Picture!Threads -> Nat]
        /\ chunk' \in [Picture!Threads -> Nat]
    BY <1>1, <1>2, <1>6, <1>7 DEF LedTypes
  <2> QED
    BY <1>1, <1>2, <1>3, <1>8, <2>1 DEF LedTypes
<1>10. StaysInBlock'
  <2>1. ASSUME NEW i \in Picture!Threads
        PROVE  /\ First(i) <= RemoteStartPos'[i]
               /\ FileSize # Picture!UnknownSize => RemoteStartPos'[i] <= Behind(i) + 1 /\ RemoteStartPos'[i] <= FileSize
    <3>1. /\ First(i) <= RemoteStartPos[i]
          /\ FileSize # Picture!UnknownSize => RemoteStartPos[i] <= Behind(i) + 1 /\ RemoteStartPos[i] <= FileSize
      BY <1>2 DEF StaysInBlock
    <3>2. CASE i # l
      <4>1. RemoteStartPos'[i] = RemoteStartPos[i]
        BY <1>2, <1>6, <3>2 DEF LedTypes
      <4> QED
        BY <3>1, <4>1
    <3>3. CASE i = l
      <4>1. RemoteStartPos'[l] = rec.start
        BY <1>2, <1>4, <1>6 DEF LedTypes
      <4>2. FileSize # Picture!UnknownSize => Behind(l) \in Nat /\ FileSize \in Nat
        BY <1>2, <1>4, BlocksInOrder DEF LedTypes
      <4> QED
        BY <1>4, <1>7, <3>1, <3>3, <4>1, <4>2
    <3> QED
      BY <3>2, <3>3
  <2> QED
    BY <1>1, <1>3, <2>1 DEF StaysInBlock
<1>11. NothingMoves'
  <2>1. ASSUME NEW i \in Picture!Threads PROVE chunk'[i] = 0 \/ (step' = "load" /\ at' <= i)
    <3>1. CASE i = l
      BY <1>1, <1>2, <3>1 DEF LedTypes
    <3>2. CASE i # l
      <4>1. chunk'[i] = chunk[i] /\ (chunk[i] = 0 \/ l <= i)
        BY <1>1, <1>2, <1>5, <3>2 DEF LedTypes, NothingMoves
      <4>2. CASE chunk[i] # 0
        <5>1. l < i /\ i <= ThreadCnt - 1
          BY <1>4, <3>2, <4>1, <4>2
        <5> QED
          BY <1>1, <1>4, <1>8, <5>1
      <4> QED
        BY <4>1, <4>2
    <3> QED
      BY <3>1, <3>2
  <2> QED
    BY <1>1, <1>3, <1>5, <2>1 DEF NothingMoves
<1>12. AreDrawn' = {}
  BY <1>1, <1>5 DEF AreDrawn
<1>13. PositionsAgree' /\ ReadBefore' /\ ExactIsExact'
  BY <1>12 DEF PositionsAgree, ReadBefore, ExactIsExact
<1>14. NotDrawn' /\ CellsAreThere' /\ ShowsExactly'
  BY <1>1, <1>5 DEF NotDrawn, CellsAreThere, ShowsExactly, HasPicture
<1> QED
  BY <1>9, <1>10, <1>11, <1>13, <1>14 DEF LedIInv

(* A pthread moves its positions and touches nothing of the picture. *)
LEMMA ReceiveKeeps ==
  ASSUME LedIInv, NEW l \in Picture!Threads, Picture!Receive(l)
  PROVE  LedIInv'
<1>1. /\ status = "running" /\ status' = status
      /\ FileSize' = FileSize /\ ThreadCnt' = ThreadCnt
      /\ CHS' = CHS /\ vvCell' = vvCell /\ step' = step /\ at' = at /\ drawn' = drawn /\ exact' = exact
  BY DEF Picture!Receive, Picture!picture
<1>2. LedTypes /\ StaysInBlock /\ PositionsAgree /\ NothingMoves /\ ReadBefore /\ ExactIsExact
  BY DEF LedIInv
<1>3. Picture!Threads' = Picture!Threads /\ Picture!Cells(FileSize)' = Picture!Cells(FileSize)
      /\ \A i : First(i)' = First(i) /\ Behind(i)' = Behind(i)
  BY <1>1, BlocksStay
<1>4. AreDrawn = Picture!Threads /\ AreDrawn' = Picture!Threads
  BY <1>1, <1>3 DEF AreDrawn
<1>5. \A i \in Picture!Threads : First(i) \in Nat
  BY <1>2, StartsAre
<1>6. /\ RemoteStartPos' \in [Picture!Threads -> Nat] /\ RemoteBytesReceived' \in [Picture!Threads -> Nat]
      /\ chunk' \in [Picture!Threads -> Nat]
      /\ StaysInBlock' /\ PositionsAgree'
      /\ \A i \in Picture!Threads : RemoteBytesReceived[i] <= RemoteBytesReceived'[i]
  <2>1. CASE /\ chunk[l] = 0
             /\ FileSize = Picture!UnknownSize \/ RemoteStartPos[l] < Picture!BlockEnd(FileSize, ThreadCnt, l)
             /\ \E n \in 1 .. MaxChunk :
                   /\ RemoteStartPos[l] + n <= Picture!Limit(l)
                   /\ RemoteStartPos' = [RemoteStartPos EXCEPT ![l] = @ + n]
                   /\ chunk' = [chunk EXCEPT ![l] = n]
             /\ UNCHANGED RemoteBytesReceived
    <3>1. PICK n \in 1 .. MaxChunk :
                   /\ RemoteStartPos[l] + n <= Picture!Limit(l)
                   /\ RemoteStartPos' = [RemoteStartPos EXCEPT ![l] = @ + n]
                   /\ chunk' = [chunk EXCEPT ![l] = n]
      BY <2>1
    <3>2. n \in Nat
      OBVIOUS
    <3>3. /\ RemoteStartPos'[l] = RemoteStartPos[l] + n /\ chunk'[l] = n
          /\ \A i \in Picture!Threads : i # l => RemoteStartPos'[i] = RemoteStartPos[i] /\ chunk'[i] = chunk[i]
      BY <1>2, <3>1 DEF LedTypes
    <3>4. RemoteStartPos[l] \in Nat
      BY <1>2 DEF LedTypes
    <3>5. RemoteStartPos' \in [Picture!Threads -> Nat] /\ chunk' \in [Picture!Threads -> Nat]
      <4>1. RemoteStartPos[l] + n \in Nat
        BY <3>2, <3>4
      <4> QED
        BY <1>2, <3>1, <3>2, <4>1 DEF LedTypes
    <3>6. FileSize # Picture!UnknownSize => RemoteStartPos[l] + n <= Behind(l) + 1 /\ RemoteStartPos[l] + n <= FileSize
      <4> SUFFICES ASSUME FileSize # Picture!UnknownSize
                   PROVE RemoteStartPos[l] + n <= Behind(l) + 1 /\ RemoteStartPos[l] + n <= FileSize
        OBVIOUS
      <4>1. Behind(l) \in Nat /\ Behind(l) <= FileSize /\ FileSize \in Nat
        BY <1>2, BlocksInOrder DEF LedTypes
      <4>2. Picture!Limit(l) = IF Behind(l) = FileSize THEN FileSize ELSE Behind(l) + 1
        BY DEF Picture!Limit, Behind
      <4> QED
        BY <3>1, <3>2, <3>4, <4>1, <4>2
    <3>7. ASSUME NEW i \in Picture!Threads
          PROVE  /\ First(i) <= RemoteStartPos'[i]
                 /\ FileSize # Picture!UnknownSize => /\ RemoteStartPos'[i] <= Behind(i) + 1
                                                      /\ RemoteStartPos'[i] <= FileSize
                 /\ i \in exact => RemoteStartPos'[i] = First(i) + RemoteBytesReceived[i] + chunk'[i]
      <4>1. /\ First(i) <= RemoteStartPos[i]
            /\ i \in exact => RemoteStartPos[i] = First(i) + RemoteBytesReceived[i] + chunk[i]
        BY <1>2, <1>4 DEF StaysInBlock, PositionsAgree
      <4>2. RemoteBytesReceived[i] \in Nat
        BY <1>2 DEF LedTypes
      <4>3. CASE i = l
        BY <1>5, <2>1, <3>2, <3>3, <3>4, <3>6, <4>1, <4>2, <4>3
      <4>4. CASE i # l
        BY <1>2, <3>3, <4>1, <4>4 DEF StaysInBlock
      <4> QED
        BY <4>3, <4>4
    <3>8. StaysInBlock' /\ PositionsAgree'
      BY <1>1, <1>3, <1>4, <2>1, <3>7 DEF StaysInBlock, PositionsAgree
    <3>9. \A i \in Picture!Threads : RemoteBytesReceived[i] <= RemoteBytesReceived'[i]
      BY <1>2, <2>1 DEF LedTypes
    <3>10. RemoteBytesReceived' \in [Picture!Threads -> Nat]
      BY <1>2, <2>1 DEF LedTypes
    <3> QED
      BY <3>5, <3>8, <3>9, <3>10
  <2>2. CASE /\ chunk[l] > 0
             /\ RemoteBytesReceived' = [RemoteBytesReceived EXCEPT ![l] = @ + chunk[l]]
             /\ chunk' = [chunk EXCEPT ![l] = 0]
             /\ UNCHANGED RemoteStartPos
    <3>1. RemoteBytesReceived[l] \in Nat /\ chunk[l] \in Nat
      BY <1>2 DEF LedTypes
    <3>2. /\ RemoteBytesReceived'[l] = RemoteBytesReceived[l] + chunk[l] /\ chunk'[l] = 0
          /\ \A i \in Picture!Threads : i # l => RemoteBytesReceived'[i] = RemoteBytesReceived[i] /\ chunk'[i] = chunk[i]
      BY <1>2, <2>2 DEF LedTypes
    <3>3. RemoteBytesReceived' \in [Picture!Threads -> Nat] /\ chunk' \in [Picture!Threads -> Nat]
      <4>1. RemoteBytesReceived[l] + chunk[l] \in Nat /\ 0 \in Nat
        BY <3>1
      <4> QED
        BY <1>2, <2>2, <4>1 DEF LedTypes
    <3>4. ASSUME NEW i \in Picture!Threads
          PROVE  /\ i \in exact => RemoteStartPos[i] = First(i) + RemoteBytesReceived'[i] + chunk'[i]
                 /\ RemoteBytesReceived[i] <= RemoteBytesReceived'[i]
      <4>1. i \in exact => RemoteStartPos[i] = First(i) + RemoteBytesReceived[i] + chunk[i]
        BY <1>2, <1>4 DEF PositionsAgree
      <4>2. RemoteBytesReceived[i] \in Nat
        BY <1>2 DEF LedTypes
      <4>3. CASE i = l
        BY <1>5, <3>1, <3>2, <4>1, <4>3
      <4>4. CASE i # l
        BY <3>2, <4>1, <4>2, <4>4
      <4> QED
        BY <4>3, <4>4
    <3>5. StaysInBlock' /\ PositionsAgree'
      BY <1>1, <1>2, <1>3, <1>4, <2>2, <3>4 DEF StaysInBlock, PositionsAgree
    <3>6. RemoteStartPos' \in [Picture!Threads -> Nat]
      BY <1>2, <2>2 DEF LedTypes
    <3> QED
      BY <3>3, <3>4, <3>5, <3>6
  <2> QED
    BY <2>1, <2>2 DEF Picture!Receive
<1>7. LedTypes'
  BY <1>1, <1>2, <1>3, <1>6 DEF LedTypes
<1>8. NothingMoves' /\ NotDrawn'
  BY <1>1 DEF NothingMoves, NotDrawn, LedIInv
<1>9. \A i \in Picture!Threads : CHS[i].finished \in Nat /\ RemoteBytesReceived[i] \in Nat /\ RemoteBytesReceived'[i] \in Nat
                         /\ drawn[i] \in Nat
  <2>1. \A i \in Picture!Threads : CHS[i] \in [offset : Nat, finished : Nat]
    BY <1>2 DEF LedTypes
  <2> QED
    BY <1>2, <1>6, <2>1 DEF LedTypes
<1>10. ReadBefore'
  <2>1. \A i \in Picture!Threads : CHS[i].finished <= RemoteBytesReceived'[i] /\ First(i) <= CHS[i].offset
    BY <1>2, <1>4, <1>6, <1>9 DEF ReadBefore
  <2> QED
    BY <1>1, <1>3, <1>4, <2>1 DEF ReadBefore
<1>11. ExactIsExact'
  <2>1. \A i : Between(i)' <=> Between(i)
    BY <1>1 DEF Between
  <2>2. ASSUME NEW i \in Picture!Threads \cap exact
        PROVE  /\ First(i) <= drawn[i] /\ drawn[i] <= First(i) + RemoteBytesReceived'[i]
               /\ (~Between(i) => CHS[i].offset = drawn[i] /\ drawn[i] = First(i) + CHS[i].finished)
               /\ (step = "offset" /\ i = at => drawn[i] <= First(i) + CHS[i].finished)
    <3>1. /\ First(i) <= drawn[i] /\ drawn[i] <= First(i) + RemoteBytesReceived[i]
          /\ (~Between(i) => CHS[i].offset = drawn[i] /\ drawn[i] = First(i) + CHS[i].finished)
          /\ (step = "offset" /\ i = at => drawn[i] <= First(i) + CHS[i].finished)
      BY <1>2, <1>4, <2>2 DEF ExactIsExact
    <3>2. drawn[i] <= First(i) + RemoteBytesReceived'[i]
      BY <1>5, <1>6, <1>9, <3>1
    <3> QED
      BY <3>1, <3>2
  <2>3. \A i \in AreDrawn' \cap exact' : i \in Picture!Threads \cap exact
    BY <1>1, <1>4
  <2> HIDE DEF Between
  <2> QED
    BY <1>1, <1>3, <2>1, <2>2, <2>3 DEF ExactIsExact
<1>12. CellsAreThere'
  BY <1>1, <1>3 DEF CellsAreThere, HasPicture, LedIInv
<1>13. ShowsExactly'
  <2>1. \A i : Shows(i)' <=> Shows(i)
    <3>1. \A i : Picture!OwnCells(i)' = Picture!OwnCells(i)
      BY <1>1 DEF Picture!OwnCells
    <3>2. \A k : Picture!CellEnd(k)' = Picture!CellEnd(k)
      BY <1>1 DEF Picture!CellEnd
    <3> QED
      BY <1>1, <3>1, <3>2 DEF Shows
  <2> QED
    BY <1>1, <1>3, <2>1 DEF ShowsExactly, HasPicture, LedIInv
<1> QED
  BY <1>6, <1>7, <1>8, <1>10, <1>11, <1>12, <1>13 DEF LedIInv

(* What is new of a thread is drawn. *)
LEMMA DrawIncreaseKeeps ==
  ASSUME LedIInv, Picture!DrawIncrease, FileSize' = FileSize, ThreadCnt' = ThreadCnt, status' = status,
         RemoteStartPos' = RemoteStartPos, RemoteBytesReceived' = RemoteBytesReceived, chunk' = chunk
  PROVE  LedIInv'
<1> DEFINE l == at
           b == CHS[l].offset
           n == Picture!Increase(l)
<1>1. /\ status = "running" /\ step = "idle" /\ step' = "finished"
      /\ vvCell' = Picture!Drawn(vvCell, b, n)
      /\ drawn' = [drawn EXCEPT ![l] = b + n]
      /\ CHS' = CHS /\ at' = at /\ exact' = exact
  BY DEF Picture!DrawIncrease
<1>2. LedTypes /\ StaysInBlock /\ PositionsAgree /\ NothingMoves /\ ReadBefore /\ ExactIsExact
  BY DEF LedIInv
<1>3. Picture!Threads' = Picture!Threads
      /\ \A i : First(i)' = First(i) /\ Behind(i)' = Behind(i)
  BY BlocksStay
<1>4. AreDrawn = Picture!Threads /\ AreDrawn' = Picture!Threads
  BY <1>1, <1>3 DEF AreDrawn
<1>5. l \in Picture!Threads /\ RemoteBytesReceived[l] \in Nat /\ chunk[l] \in Nat /\ RemoteStartPos[l] \in Nat
  BY <1>2 DEF LedTypes
<1>6. CHS[l].offset \in Nat /\ CHS[l].finished \in Nat
  BY <1>2, <1>5 DEF LedTypes
<1>7. CHS[l].finished <= RemoteBytesReceived[l] /\ First(l) <= b /\ First(l) \in Nat
  BY <1>2, <1>4, <1>5, StartsAre DEF ReadBefore
<1>8. n \in Nat /\ n = RemoteBytesReceived[l] - CHS[l].finished
  BY <1>5, <1>6, <1>7 DEF Picture!Increase
<1>9. /\ l \in exact => RemoteStartPos[l] = First(l) + RemoteBytesReceived[l] + chunk[l]
      /\ FileSize # Picture!UnknownSize => RemoteStartPos[l] <= Behind(l) + 1 /\ RemoteStartPos[l] <= FileSize
  BY <1>2, <1>4, <1>5 DEF StaysInBlock, PositionsAgree
<1>10. l \in exact => b = drawn[l] /\ b + n = First(l) + RemoteBytesReceived[l]
  <2> SUFFICES ASSUME l \in exact PROVE b = drawn[l] /\ b + n = First(l) + RemoteBytesReceived[l]
    OBVIOUS
  <2>1. ~Between(l)
    BY <1>1 DEF Between
  <2>2. b = drawn[l] /\ drawn[l] = First(l) + CHS[l].finished
    BY <1>2, <1>4, <1>5, <2>1 DEF ExactIsExact
  <2> QED
    BY <1>5, <1>6, <1>7, <1>8, <2>2
<1> HIDE DEF n
<1>11. CellsAreThere' /\ ShowsExactly'
  <2>1. HasPicture
    BY <1>1 DEF HasPicture
  <2>2. FileSize # Picture!UnknownSize /\ l \in exact => b = drawn[l] /\ b + n <= FileSize /\ b + n <= Behind(l) + 1
    <3> SUFFICES ASSUME FileSize # Picture!UnknownSize, l \in exact
                 PROVE  b = drawn[l] /\ b + n <= FileSize /\ b + n <= Behind(l) + 1
      OBVIOUS
    <3>1. Behind(l) \in Nat /\ FileSize \in Nat
      BY <1>2, <1>5, BlocksInOrder DEF LedTypes
    <3> QED
      BY <1>5, <1>7, <1>9, <1>10, <3>1
  <2> DEFINE E == exact
  <2>3. E \in SUBSET exact /\ exact' = E
    BY <1>1
  <2>4. FileSize # Picture!UnknownSize /\ l \in E => b = drawn[l] /\ b + n <= FileSize /\ b + n <= Behind(l) + 1
    BY <2>2
  <2> HIDE DEF E, b
  <2>5. b \in Nat
    BY <1>6 DEF b
  <2> QED
    BY <1>1, <1>5, <1>7, <1>8, <2>1, <2>3, <2>4, <2>5, CellsKept
<1>12. LedTypes'
  <2>1. b + n \in Nat
    BY <1>6, <1>8
  <2>2. drawn' \in [Picture!Threads -> Nat]
    BY <1>1, <1>2, <1>5, <2>1 DEF LedTypes
  <2> QED
    BY <1>1, <1>2, <1>3, <2>2 DEF LedTypes
<1>13. StaysInBlock' /\ PositionsAgree'
  BY <1>1, <1>2, <1>3, <1>4 DEF StaysInBlock, PositionsAgree
<1>14. NothingMoves' /\ NotDrawn'
  BY <1>1 DEF NothingMoves, NotDrawn
<1>15. ReadBefore'
  BY <1>1, <1>2, <1>3, <1>4 DEF ReadBefore
<1>16. ExactIsExact'
  <2>1. ASSUME NEW i \in Picture!Threads \cap exact
        PROVE  /\ First(i) <= drawn'[i] /\ drawn'[i] <= First(i) + RemoteBytesReceived[i]
               /\ ~Between(i)' => CHS[i].offset = drawn'[i] /\ drawn'[i] = First(i) + CHS[i].finished
    <3>1. CASE i = l
      <4>1. drawn'[i] = b + n
        BY <1>1, <1>2, <3>1, <1>5 DEF LedTypes
      <4>2. Between(i)'
        BY <1>1, <3>1 DEF Between
      <4> QED
        BY <1>5, <1>6, <1>7, <1>8, <1>10, <2>1, <3>1, <4>1, <4>2
    <3>2. CASE i # l
      <4>1. drawn'[i] = drawn[i]
        BY <1>1, <1>2, <3>2, <2>1 DEF LedTypes
      <4>2. ~Between(i)
        BY <3>2 DEF Between
      <4> QED
        BY <1>2, <1>4, <2>1, <4>1, <4>2 DEF ExactIsExact
    <3> QED
      BY <3>1, <3>2
  <2>2. step' # "offset"
    BY <1>1
  <2> QED
    BY <1>1, <1>3, <1>4, <2>1, <2>2 DEF ExactIsExact
<1> QED
  BY <1>11, <1>12, <1>13, <1>14, <1>15, <1>16 DEF LedIInv

(* What is read of a thread in the drawing: first how many bytes it has, then its position. *)
LEMMA SetFinishedKeeps ==
  ASSUME LedIInv, Picture!SetFinished, FileSize' = FileSize, ThreadCnt' = ThreadCnt, status' = status,
         RemoteStartPos' = RemoteStartPos, RemoteBytesReceived' = RemoteBytesReceived, chunk' = chunk
  PROVE  LedIInv'
<1> DEFINE l == at
           n == RemoteBytesReceived[l]
<1>1. /\ step = "finished" /\ step' = "offset"
      /\ CHS' = [CHS EXCEPT ![l] = Picture!Read(CHS[l].offset, n)]
      /\ vvCell' = vvCell /\ drawn' = drawn /\ at' = at /\ exact' = exact
  BY DEF Picture!SetFinished
<1>2. LedTypes /\ StaysInBlock /\ PositionsAgree /\ NothingMoves /\ ReadBefore /\ ExactIsExact
  BY DEF LedIInv
<1>3. Picture!Threads' = Picture!Threads /\ Picture!Cells(FileSize)' = Picture!Cells(FileSize)
      /\ \A i : First(i)' = First(i) /\ Behind(i)' = Behind(i)
  BY BlocksStay
<1>4. status = "running"
  BY <1>1, <1>2 DEF NothingMoves
<1>5. AreDrawn = Picture!Threads /\ AreDrawn' = Picture!Threads
  BY <1>3, <1>4 DEF AreDrawn
<1>6. l \in Picture!Threads /\ n \in Nat /\ CHS[l] \in [offset : Nat, finished : Nat]
  BY <1>2 DEF LedTypes
<1>7. CHS'[l] = Picture!Read(CHS[l].offset, n) /\ \A i \in Picture!Threads : i # l => CHS'[i] = CHS[i]
  BY <1>1, <1>2, <1>6 DEF LedTypes
<1>8. CHS'[l].offset = CHS[l].offset /\ CHS'[l].finished = n
  BY <1>7 DEF Picture!Read
<1>9. LedTypes'
  <2>1. Picture!Read(CHS[l].offset, n) \in [offset : Nat, finished : Nat]
    BY <1>6 DEF Picture!Read
  <2>2. CHS' \in [Picture!Threads -> [offset : Nat, finished : Nat]]
    BY <1>1, <1>2, <1>6, <2>1 DEF LedTypes
  <2> QED
    BY <1>1, <1>2, <1>3, <2>2 DEF LedTypes
<1>10. StaysInBlock' /\ PositionsAgree'
  BY <1>1, <1>2, <1>3, <1>5 DEF StaysInBlock, PositionsAgree
<1>11. NothingMoves' /\ NotDrawn'
  BY <1>1, <1>4 DEF NothingMoves, NotDrawn
<1>12. ReadBefore'
  <2>1. ASSUME NEW i \in Picture!Threads
        PROVE  CHS'[i].finished <= RemoteBytesReceived[i] /\ First(i) <= CHS'[i].offset
    <3>1. CHS[i].finished <= RemoteBytesReceived[i] /\ First(i) <= CHS[i].offset
      BY <1>2, <1>5 DEF ReadBefore
    <3>2. CASE i = l
      BY <1>6, <1>8, <3>1, <3>2
    <3>3. CASE i # l
      BY <1>7, <3>1, <3>3
    <3> QED
      BY <3>2, <3>3
  <2> QED
    BY <1>3, <1>5, <2>1 DEF ReadBefore
<1>13. ExactIsExact'
  <2>1. ASSUME NEW i \in Picture!Threads \cap exact
        PROVE  /\ First(i) <= drawn[i] /\ drawn[i] <= First(i) + RemoteBytesReceived[i]
               /\ ~Between(i)' => CHS'[i].offset = drawn[i] /\ drawn[i] = First(i) + CHS'[i].finished
               /\ step' = "offset" /\ i = at => drawn[i] <= First(i) + CHS'[i].finished
    <3>1. /\ First(i) <= drawn[i] /\ drawn[i] <= First(i) + RemoteBytesReceived[i]
          /\ ~Between(i) => CHS[i].offset = drawn[i] /\ drawn[i] = First(i) + CHS[i].finished
      BY <1>2, <1>5, <2>1 DEF ExactIsExact
    <3>2. CASE i = l
      <4>1. Between(i)'
        BY <1>1, <3>2 DEF Between
      <4> QED
        BY <1>8, <3>1, <3>2, <4>1
    <3>3. CASE i # l
      <4>1. ~Between(i)
        BY <3>3 DEF Between
      <4> QED
        BY <1>7, <2>1, <3>1, <3>3, <4>1
    <3> QED
      BY <3>2, <3>3
  <2> QED
    BY <1>1, <1>3, <1>5, <2>1 DEF ExactIsExact
<1>14. CellsAreThere'
  BY <1>1, <1>3 DEF CellsAreThere, HasPicture, LedIInv
<1>15. ShowsExactly'
  <2>1. \A i : Shows(i)' <=> Shows(i)
    <3>1. \A i : Picture!OwnCells(i)' = Picture!OwnCells(i)
      BY <1>1 DEF Picture!OwnCells
    <3>2. \A k : Picture!CellEnd(k)' = Picture!CellEnd(k)
      BY DEF Picture!CellEnd
    <3> QED
      BY <1>1, <3>1, <3>2 DEF Shows
  <2> QED
    BY <1>1, <1>3, <1>4, <2>1 DEF ShowsExactly, HasPicture, LedIInv
<1> QED
  BY <1>9, <1>10, <1>11, <1>12, <1>13, <1>14, <1>15 DEF LedIInv

(* The position is read, and it is the turn of the next thread. *)
LEMMA SetOffsetKeeps ==
  ASSUME LedIInv, Picture!SetOffset, FileSize' = FileSize, ThreadCnt' = ThreadCnt, status' = status,
         RemoteStartPos' = RemoteStartPos, RemoteBytesReceived' = RemoteBytesReceived, chunk' = chunk
  PROVE  LedIInv'
<1> DEFINE l == at
           p == RemoteStartPos[l]
<1>1. /\ step = "offset" /\ step' = "idle"
      /\ CHS' = [CHS EXCEPT ![l] = Picture!Read(p, CHS[l].finished)]
      /\ at' = (l + 1) % ThreadCnt
      /\ exact' = IF drawn[l] = p /\ chunk[l] = 0 THEN exact ELSE exact \ {l}
      /\ vvCell' = vvCell /\ drawn' = drawn
  BY DEF Picture!SetOffset
<1>2. LedTypes /\ StaysInBlock /\ PositionsAgree /\ NothingMoves /\ ReadBefore /\ ExactIsExact
  BY DEF LedIInv
<1>3. Picture!Threads' = Picture!Threads /\ Picture!Cells(FileSize)' = Picture!Cells(FileSize)
      /\ \A i : First(i)' = First(i) /\ Behind(i)' = Behind(i)
  BY BlocksStay
<1>4. status = "running"
  BY <1>1, <1>2 DEF NothingMoves
<1>5. AreDrawn = Picture!Threads /\ AreDrawn' = Picture!Threads
  BY <1>3, <1>4 DEF AreDrawn
<1>6. l \in Picture!Threads /\ p \in Nat /\ CHS[l] \in [offset : Nat, finished : Nat] /\ chunk[l] \in Nat
      /\ RemoteBytesReceived[l] \in Nat /\ drawn[l] \in Nat
  BY <1>2 DEF LedTypes
<1>7. CHS'[l] = Picture!Read(p, CHS[l].finished) /\ \A i \in Picture!Threads : i # l => CHS'[i] = CHS[i]
  BY <1>1, <1>2, <1>6 DEF LedTypes
<1>8. CHS'[l].offset = p /\ CHS'[l].finished = CHS[l].finished
  BY <1>7 DEF Picture!Read
<1>9. /\ First(l) <= p /\ First(l) \in Nat
      /\ l \in exact => p = First(l) + RemoteBytesReceived[l] + chunk[l]
  BY <1>2, <1>5, <1>6, StartsAre DEF StaysInBlock, PositionsAgree
<1>10. exact' \subseteq exact /\ (l \in exact' => drawn[l] = p /\ chunk[l] = 0)
  BY <1>1
<1>11. LedTypes'
  <2>1. Picture!Read(p, CHS[l].finished) \in [offset : Nat, finished : Nat]
    BY <1>6 DEF Picture!Read
  <2>2. CHS' \in [Picture!Threads -> [offset : Nat, finished : Nat]]
    BY <1>1, <1>2, <1>6, <2>1 DEF LedTypes
  <2>3. at' \in Picture!Threads
    <3>1. l \in Nat /\ ThreadCnt \in Nat \ {0}
      BY <1>2, <1>6 DEF LedTypes, Picture!Threads
    <3>2. at' \in 0 .. ThreadCnt - 1
      BY <1>1, <3>1
    <3> QED
      BY <3>2 DEF Picture!Threads
  <2> QED
    BY <1>1, <1>2, <1>3, <1>10, <2>2, <2>3 DEF LedTypes
<1>12. StaysInBlock' /\ PositionsAgree'
  BY <1>2, <1>3, <1>5, <1>10 DEF StaysInBlock, PositionsAgree
<1>13. NothingMoves' /\ NotDrawn'
  BY <1>1, <1>4 DEF NothingMoves, NotDrawn
<1>14. ReadBefore'
  <2>1. ASSUME NEW i \in Picture!Threads
        PROVE  CHS'[i].finished <= RemoteBytesReceived[i] /\ First(i) <= CHS'[i].offset
    <3>1. CHS[i].finished <= RemoteBytesReceived[i] /\ First(i) <= CHS[i].offset
      BY <1>2, <1>5 DEF ReadBefore
    <3>2. CASE i = l
      BY <1>6, <1>8, <1>9, <3>1, <3>2
    <3>3. CASE i # l
      BY <1>7, <3>1, <3>3
    <3> QED
      BY <3>2, <3>3
  <2> QED
    BY <1>3, <1>5, <2>1 DEF ReadBefore
<1>15. ExactIsExact'
  <2>1. ASSUME NEW i \in Picture!Threads \cap exact'
        PROVE  /\ First(i) <= drawn[i] /\ drawn[i] <= First(i) + RemoteBytesReceived[i]
               /\ CHS'[i].offset = drawn[i] /\ drawn[i] = First(i) + CHS'[i].finished
    <3>1. /\ First(i) <= drawn[i] /\ drawn[i] <= First(i) + RemoteBytesReceived[i]
          /\ ~Between(i) => CHS[i].offset = drawn[i] /\ drawn[i] = First(i) + CHS[i].finished
          /\ i = l => drawn[i] <= First(i) + CHS[i].finished
      BY <1>1, <1>2, <1>5, <1>10, <2>1 DEF ExactIsExact
    <3>2. CASE i = l
      <4>1. drawn[l] = p /\ chunk[l] = 0
        BY <1>10, <2>1, <3>2
      <4>2. CHS[l].finished <= RemoteBytesReceived[l] /\ CHS[l].finished \in Nat
        BY <1>2, <1>5, <1>6 DEF ReadBefore
      <4> QED
        BY <1>6, <1>8, <1>9, <1>10, <2>1, <3>1, <3>2, <4>1, <4>2
    <3>3. CASE i # l
      <4>1. ~Between(i)
        BY <3>3 DEF Between
      <4> QED
        BY <1>7, <2>1, <3>1, <3>3, <4>1
    <3> QED
      BY <3>2, <3>3
  <2> QED
    BY <1>1, <1>3, <1>5, <2>1 DEF ExactIsExact
<1>16. CellsAreThere'
  BY <1>1, <1>3, <1>4 DEF CellsAreThere, HasPicture, LedIInv
<1>17. ShowsExactly'
  <2>1. \A i : Shows(i)' <=> Shows(i)
    <3>1. \A i : Picture!OwnCells(i)' = Picture!OwnCells(i)
      BY <1>1 DEF Picture!OwnCells
    <3>2. \A k : Picture!CellEnd(k)' = Picture!CellEnd(k)
      BY DEF Picture!CellEnd
    <3> QED
      BY <1>1, <3>1, <3>2 DEF Shows
  <2>2. \A i : 0 .. i \subseteq exact' => 0 .. i \subseteq exact
    BY <1>10
  <2> QED
    BY <1>1, <1>3, <1>4, <2>1, <2>2 DEF ShowsExactly, HasPicture, LedIInv
<1> QED
  BY <1>11, <1>12, <1>13, <1>14, <1>15, <1>16, <1>17 DEF LedIInv

(* Every step keeps the invariant. *)
LEMMA LedStepKeeps == LedIInv /\ [Picture!Next]_(Picture!lvars) => LedIInv'
<1> SUFFICES ASSUME LedIInv, [Picture!Next]_(Picture!lvars) PROVE LedIInv'
  OBVIOUS
<1>1. CASE UNCHANGED Picture!lvars
  <2>1. /\ FileSize' = FileSize /\ ThreadCnt' = ThreadCnt /\ status' = status
        /\ RemoteStartPos' = RemoteStartPos /\ RemoteBytesReceived' = RemoteBytesReceived /\ chunk' = chunk
        /\ CHS' = CHS /\ vvCell' = vvCell /\ step' = step /\ at' = at /\ drawn' = drawn /\ exact' = exact
    BY <1>1 DEF Picture!lvars, Picture!positions, Picture!picture
  <2>2. Picture!Threads' = Picture!Threads /\ Picture!Cells(FileSize)' = Picture!Cells(FileSize)
        /\ \A i : First(i)' = First(i) /\ Behind(i)' = Behind(i)
    BY <2>1, BlocksStay
  <2>4. AreDrawn' = AreDrawn /\ HasPicture' = HasPicture
    BY <2>1, <2>2 DEF AreDrawn, HasPicture
  <2>3. (LedTypes /\ StaysInBlock /\ PositionsAgree /\ NothingMoves)'
    BY <2>1, <2>2, <2>4 DEF LedIInv, LedTypes, StaysInBlock, PositionsAgree, NothingMoves
  <2>5. (ReadBefore /\ ExactIsExact /\ NotDrawn)'
    <3>1. \A i : Between(i)' <=> Between(i)
      BY <2>1 DEF Between
    <3>2. ReadBefore' /\ NotDrawn'
      BY <2>1, <2>2, <2>4 DEF LedIInv, ReadBefore, NotDrawn
    <3> HIDE DEF Between
    <3>3. ExactIsExact'
      BY <2>1, <2>2, <2>4, <3>1 DEF LedIInv, ExactIsExact
    <3> QED
      BY <3>2, <3>3
  <2>6. CellsAreThere'
    BY <2>1, <2>2, <2>4 DEF CellsAreThere, LedIInv
  <2>7. \A i : Shows(i)' <=> Shows(i)
    <3>1. \A i : Picture!OwnCells(i)' = Picture!OwnCells(i)
      BY <2>1 DEF Picture!OwnCells
    <3>2. \A k : Picture!CellEnd(k)' = Picture!CellEnd(k)
      BY <2>1 DEF Picture!CellEnd
    <3> QED
      BY <2>1, <3>1, <3>2 DEF Shows
  <2>8. ShowsExactly'
    BY <2>1, <2>2, <2>4, <2>7 DEF ShowsExactly, LedIInv
  <2> QED
    BY <2>3, <2>5, <2>6, <2>8 DEF LedIInv
<1>2. CASE Picture!Setup
  BY <1>2, SetupKeeps
<1>3. CASE Picture!DrawReceived
  BY <1>3, DrawReceivedKeeps
<1>4. CASE Picture!Stop
  BY <1>4, StopKeeps
<1>7. CASE Picture!loadLogFile
  BY <1>7, LoadKeeps
<1>5. CASE Picture!UpdateCurThreadsInfo
  <2>1. /\ FileSize' = FileSize /\ ThreadCnt' = ThreadCnt /\ status' = status
        /\ RemoteStartPos' = RemoteStartPos /\ RemoteBytesReceived' = RemoteBytesReceived /\ chunk' = chunk
    BY <1>5 DEF Picture!UpdateCurThreadsInfo, Picture!positions
  <2> QED
    BY <1>5, <2>1, DrawIncreaseKeeps, SetFinishedKeeps, SetOffsetKeeps DEF Picture!UpdateCurThreadsInfo
<1>6. CASE \E i \in Picture!Threads : Picture!Receive(i)
  BY <1>6, ReceiveKeeps
<1> QED
  BY <1>1, <1>2, <1>3, <1>4, <1>5, <1>6, <1>7 DEF Picture!Next

(* The invariant says more than what the run checks.  A drawing touches cells of the file only; of a
   file of unknown size it touches the one cell it has, or none. *)
LEMMA LedIInvImplies == LedIInv => Picture!LedInv
<1> SUFFICES ASSUME LedIInv PROVE Picture!LedInv
  OBVIOUS
<1>1. LedTypes /\ ReadBefore /\ CellsAreThere /\ ShowsExactly
  BY DEF LedIInv
<1>2. Picture!PictureIsExact
  BY <1>1 DEF Picture!PictureIsExact, ShowsExactly, HasPicture, Shows
<1>3. ASSUME status = "running", FileSize # 0
      PROVE  Picture!Touched(CHS[at].offset, Picture!Increase(at)) \subseteq DOMAIN vvCell
  <2> DEFINE offset == CHS[at].offset
             length == Picture!Increase(at)
  <2>1. at \in Picture!Threads /\ CHS[at] \in [offset : Nat, finished : Nat] /\ RemoteBytesReceived[at] \in Nat
    BY <1>1 DEF LedTypes
  <2>2. CHS[at].finished <= RemoteBytesReceived[at] /\ CHS[at].finished \in Nat
    BY <1>1, <1>3, <2>1 DEF ReadBefore, AreDrawn
  <2>3. offset \in Nat /\ length \in Nat
    BY <2>1, <2>2 DEF Picture!Increase
  <2>4. DOMAIN vvCell = 0 .. Picture!Cells(FileSize) - 1
    BY <1>1, <1>3 DEF CellsAreThere, HasPicture
  <2> HIDE DEF offset, length
  <2>5. CASE FileSize \in Nat
    <3> DEFINE b == Least(offset + length, FileSize)
               i == Picture!CDiv(Least(offset, FileSize), per_size)
               j == Picture!CDiv(b, per_size)
    <3>1. Picture!Touched(offset, length) = i .. (j - 1) \cup IF Picture!CMod(b, per_size) # 0 THEN {j} ELSE {}
      BY <2>3, <2>5, ClippedIs DEF Picture!Touched
    <3>2. b \in Nat /\ b <= FileSize /\ Least(offset, FileSize) \in Nat
      BY <2>3, <2>5 DEF Least
    <3>3. i \in Nat
      BY <3>2, CellOf
    <3>4. j \in Nat /\ Edge(j) <= b /\ ((Picture!CMod(b, per_size) = 0) <=> (b = Edge(j))) /\ Edge(j) \in Nat
      BY <3>2, CellOf, Edges
    <3> HIDE DEF b, i, j
    <3>5. ASSUME NEW k \in Picture!Touched(offset, length) PROVE k \in 0 .. Picture!Cells(FileSize) - 1
      <4>1. k \in Nat /\ (k < j \/ (k = j /\ Picture!CMod(b, per_size) # 0))
        <5>1. i \in Nat /\ j \in Nat
          BY <3>3, <3>4
        <5>2. CASE Picture!CMod(b, per_size) # 0
          <6>1. k \in i .. (j - 1) \/ k = j
            BY <3>1, <3>5, <5>2
          <6>2. k \in Nat /\ (k < j \/ k = j)
            BY <5>1, <6>1
          <6> QED
            BY <5>2, <6>2
        <5>3. CASE Picture!CMod(b, per_size) = 0
          <6>1. k \in i .. (j - 1)
            BY <3>1, <3>5, <5>3
          <6>2. k \in Nat /\ k < j
            BY <5>1, <6>1
          <6> QED
            BY <6>2
        <5> QED
          BY <5>2, <5>3
      <4>2. CASE k < j
        <5>1. Edge(k + 1) <= Edge(j) /\ Edge(k) < Edge(k + 1) /\ Edge(k) \in Nat /\ Edge(k + 1) \in Nat
          BY <3>4, <4>1, <4>2, EdgesRise, Edges
        <5>2. Edge(k) < FileSize
          BY <2>5, <3>2, <3>4, <5>1
        <5> QED
          BY <2>5, <4>1, <5>2, CellsBeginInTheFile
      <4>3. CASE k = j /\ Picture!CMod(b, per_size) # 0
        <5>1. Edge(k) < FileSize
          BY <2>5, <3>2, <3>4, <4>3
        <5> QED
          BY <2>5, <4>1, <5>1, CellsBeginInTheFile
      <4> QED
        BY <4>1, <4>2, <4>3
    <3> QED
      BY <2>4, <3>5 DEF offset, length
  <2>6. CASE FileSize = -1
    <3>1. Picture!Clipped(offset, length) = [offset |-> -1, length |-> 0]
      BY <2>3, <2>6 DEF Picture!Clipped
    <3> DEFINE c == Picture!Clipped(offset, length)
    <3>2. c.offset = -1 /\ c.offset + c.length = -1
      BY <3>1
    <3> HIDE DEF c
    <3>3. Picture!Touched(offset, length) =
             Picture!CDiv(-1, per_size) .. (Picture!CDiv(-1, per_size) - 1)
             \cup IF Picture!CMod(-1, per_size) # 0 THEN {Picture!CDiv(-1, per_size)} ELSE {}
      BY <3>2 DEF Picture!Touched, c
    <3>4. per_size \in Nat \ {0}
      BY LedAssumption
    <3>5. CASE per_size = 1
      <4>1. Picture!CDiv(-1, per_size) = -1
        BY <3>5 DEF Picture!CDiv
      <4>2. Picture!CMod(-1, per_size) = 0
        BY <3>5, <4>1 DEF Picture!CMod
      <4> QED
        BY <3>3, <4>1, <4>2 DEF offset, length
    <3>6. CASE per_size > 1
      <4>1. 1 \div per_size = 0
        BY <3>4, <3>6
      <4>2. Picture!CDiv(-1, per_size) = 0
        BY <4>1 DEF Picture!CDiv
      <4>3. Picture!CMod(-1, per_size) = -1
        BY <3>4, <4>2 DEF Picture!CMod
      <4>4. Picture!Cells(FileSize) = 1
        BY <2>6, <4>2, <4>3 DEF Picture!Cells
      <4> QED
        BY <2>4, <3>3, <4>2, <4>3, <4>4 DEF offset, length
    <3> QED
      BY <3>4, <3>5, <3>6
  <2> QED
    BY <1>1, <2>5, <2>6 DEF LedTypes, Picture!UnknownSize
<1> QED
  BY <1>2, <1>3 DEF Picture!LedInv, Picture!DrawingsStayInside

-----------------------------------------------------------------------------
(***************************************************************************)
(* The parts together: one of them runs, and the others keep what they have.  *)
(***************************************************************************)
WindowsInv ==
  /\ IInv
  /\ part = "new" => NewInv
  /\ part = "boxes" => BoxesInv
  /\ part = "led" => LedIInv

(* Each part begins as it does alone. *)
LEMMA WindowsBegin == Init => WindowsInv
<1> SUFFICES ASSUME Init PROVE WindowsInv
  OBVIOUS
<1>1. IInv
  BY InitEstablishesIInv DEF Init
<1>2. part = "new" => NewInv
  BY NewBegins DEF Init
<1>3. part = "boxes" => BoxesInv
  BY BoxesBegin DEF Init
<1>4. part = "led" => LedIInv
  BY LedBegins DEF Init
<1> QED
  BY <1>1, <1>2, <1>3, <1>4 DEF WindowsInv

(* A step of a part is a step it may do alone. *)
LEMMA WindowsStep == WindowsInv /\ [Next]_vars => WindowsInv'
<1> SUFFICES ASSUME WindowsInv, [Next]_vars PROVE WindowsInv'
  OBVIOUS
<1>1. part' = part
  BY DEF Next, vars
<1>2. [NextInstances]_ivars
  BY DEF Next, vars
<1>3. IInv'
  BY <1>2, NextKeepsIInv DEF WindowsInv
<1>4. part = "new" => NewInv'
  <2>1. part = "new" => [New!Next]_(New!vars)
    BY DEF Next, vars, onlyNewTask, New!vars
  <2> QED
    BY <2>1, NewStepKeeps DEF WindowsInv
<1>5. part = "boxes" => BoxesInv'
  <2>1. part = "boxes" => [Views!NextBoxes]_(Views!bvars)
    BY DEF Next, vars, onlyBoxes, Views!bvars, Views!views, Views!pictures, Views!tasks
  <2> QED
    BY <2>1, BoxStepKeeps DEF WindowsInv
<1>6. part = "led" => LedIInv'
  <2>1. part = "led" => [Picture!Next]_(Picture!lvars)
    BY DEF Next, vars, onlyLed, Picture!lvars, Picture!positions, Picture!picture
  <2> QED
    BY <2>1, LedStepKeeps DEF WindowsInv
<1> QED
  BY <1>1, <1>3, <1>4, <1>5, <1>6 DEF WindowsInv

(***************************************************************************)
(* FrmNewTask, for every set of URLs and of users and every number of        *)
(* mirrors: the task of an accepted dialog has a file name, and its URL comes *)
(* first in the list of its mirrors, which only a task of several threads     *)
(* has.  A dialog that was cancelled posts nothing, or the half of a task     *)
(* that an OK had stored before it was refused.                               *)
(***************************************************************************)
THEOREM AcceptedTasksAreWhole == Spec => []AcceptedTaskIsWhole
<1>1. WindowsInv => AcceptedTaskIsWhole
  BY NewInvImplies DEF WindowsInv, AcceptedTaskIsWhole
<1> QED
  BY <1>1, WindowsBegin, WindowsStep, PTL DEF Spec

(***************************************************************************)
(* TListViews and FrmMainWin: for every number of messages and of slots, the  *)
(* messages of NewTaskBox, the rows of its view and their widgets agree        *)
(* between two events and no handler follows a null pointer, until a message   *)
(* comes with an id that another one of the box has: no row names a message    *)
(* that was deleted, no message is without a widget, the ids differ, and at    *)
(* most one picture and one list are shown, those of the selected row.  And    *)
(* two ids meet only after a task was accepted for which there was no slot.    *)
(***************************************************************************)
THEOREM BoxesAlwaysAgree == Spec => []BoxesAgree
<1>1. WindowsInv => BoxesAgree
  BY BoxInvImplies DEF WindowsInv, BoxesAgree, Views!BoxesAgree, BoxesInv
<1> QED
  BY <1>1, WindowsBegin, WindowsStep, PTL DEF Spec

(***************************************************************************)
(* TLed: for every size of a file, of a cell and of the pieces, and every      *)
(* number of threads, no drawing leaves the picture, whatever was read of the   *)
(* threads while they ran and of the log; and while a thread and those before    *)
(* it stood still whenever they were read, and were not resumed from a record   *)
(* of two moments, its cells are done exactly as far as it was drawn.           *)
(***************************************************************************)
THEOREM PicturesAreExact == Spec => []LedInv
<1>1. WindowsInv => LedInv
  BY LedIInvImplies DEF WindowsInv, LedInv
<1> QED
  BY <1>1, WindowsBegin, WindowsStep, PTL DEF Spec
=============================================================================
