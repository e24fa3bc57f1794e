------------------------- MODULE ThreadQueue_proof -------------------------
(***************************************************************************)
(* Proofs that the blocks of a task's threads tile the remote file, for    *)
(* every file size, every number of threads and every MIN_FILE_SIZE.       *)
(***************************************************************************)
EXTENDS ThreadQueue, Blocks_proof

-----------------------------------------------------------------------------
(* The inductive invariant *)

\* The block of thread k before the remainder is added.
EvenBlock(k) ==
  IF FileSize = UnknownSize THEN Positions(-1, 0, -1, 0)
  ELSE Positions(BytesPerConn(FileSize, ThreadCnt),
                 k * BytesPerConn(FileSize, ThreadCnt),
                 (k + 1) * BytesPerConn(FileSize, ThreadCnt),
                 k * BytesPerConn(FileSize, ThreadCnt))

FinalBlock(k) ==
  Positions(BlockSize(FileSize, ThreadCnt, k), BlockStart(FileSize, ThreadCnt, k),
            BlockEnd(FileSize, ThreadCnt, k), BlockStart(FileSize, ThreadCnt, k))

\* Resuming is supported exactly when the size is known, and a file of unknown
\* size has one thread.
SizeAgrees ==
  pc # "start" => /\ IsResumeSupport = (FileSize # UnknownSize)
                  /\ FileSize = UnknownSize => ThreadCnt = 1

\* The loop of initTaskThreadQue has done the blocks below i.
LoopInvariant ==
  pc = "cut" => /\ i \in 0 .. ThreadCnt
                /\ \A k \in 0 .. i - 1 : ThreadQue[k] = EvenBlock(k)

CutIsFinal ==
  pc \in {"log", "running"} /\ ThreadQue[0] # NewThread =>
    \A k \in 0 .. ThreadCnt - 1 : ThreadQue[k] = FinalBlock(k)

IInv == TypeOK /\ SizeAgrees /\ LoopInvariant /\ CutIsFinal

(***************************************************************************)
(* The invariant holds when the task is created.                           *)
(***************************************************************************)
LEMMA InitEstablishesIInv == Init => IInv
<1> SUFFICES ASSUME Init PROVE IInv
  OBVIOUS
<1>1. NewThread \in ThreadPositions
  BY DEF NewThread, Positions, ThreadPositions
<1>2. ThreadQue \in [Indices -> ThreadPositions]
  BY <1>1 DEF Init
<1>3. ThreadCnt \in 1 .. MaxThreads /\ i \in 0 .. MaxThreads
  BY MaxThreadsAssumption DEF Init
<1>4. TypeOK
  BY <1>2, <1>3 DEF Init, TypeOK
<1> QED
  BY <1>4 DEF Init, IInv, SizeAgrees, LoopInvariant, CutIsFinal

(***************************************************************************)
(* Adding BytesLeft to the last of the even blocks gives the final ones.   *)
(***************************************************************************)
LEMMA CutStep ==
  ASSUME IInv, AddBytesLeft
  PROVE  IInv'
<1> USE MaxThreadsAssumption
<1> DEFINE per == BytesPerConn(FileSize, ThreadCnt)
           left == BytesLeft(FileSize, ThreadCnt)
           last == ThreadCnt - 1
<1>1. /\ ThreadCnt \in 1 .. MaxThreads
      /\ FileSize \in Nat \cup {UnknownSize}
      /\ i = ThreadCnt /\ i - 1 = last /\ last \in Indices
      /\ ThreadQue \in [Indices -> ThreadPositions]
      /\ \A k \in 0 .. last : ThreadQue[k] = EvenBlock(k) /\ k \in Indices
      /\ IsResumeSupport = (FileSize # UnknownSize)
      /\ FileSize = UnknownSize => ThreadCnt = 1
  BY DEF AddBytesLeft, IInv, TypeOK, SizeAgrees, LoopInvariant, Indices
<1>2. FileSize # UnknownSize => per \in Nat /\ left \in Nat
  BY <1>1, Division
<1>3. \A k \in 0 .. last : ThreadQue'[k] = FinalBlock(k)
  <2>1. CASE FileSize = UnknownSize
    BY <1>1, <2>1 DEF AddBytesLeft, EvenBlock, FinalBlock, Positions, BlockSize, BlockStart,
       BlockEnd, BytesPerConn, Remainder
  <2>2. CASE FileSize # UnknownSize /\ ThreadCnt = 1
    <3>1. /\ ThreadQue' = ThreadQue
          /\ \A k \in 0 .. last : Remainder(FileSize, ThreadCnt, k) = 0
      BY <2>2 DEF AddBytesLeft, Remainder
    <3> QED
      <4> HIDE DEF per, left
      <4>1. \A k \in 0 .. last : EvenBlock(k) = FinalBlock(k)
        <5> USE DEF per
        <5> SUFFICES ASSUME NEW k \in 0 .. last PROVE EvenBlock(k) = FinalBlock(k)
          OBVIOUS
        <5>1. k = 0
          BY <2>2
        <5> QED
          BY <1>1, <1>2, <2>2, <3>1, <5>1 DEF EvenBlock, FinalBlock, Positions, BlockSize,
             BlockStart, BlockEnd
      <4> QED
        BY <1>1, <3>1, <4>1
  <2>3. CASE FileSize # UnknownSize /\ ThreadCnt > 1
    <3> SUFFICES ASSUME NEW k \in 0 .. last PROVE ThreadQue'[k] = FinalBlock(k)
      OBVIOUS
    <3>1. ThreadQue' = [ThreadQue EXCEPT ![last] = Grown(@, left)]
      BY <1>1, <2>3 DEF AddBytesLeft
    <3>2. ThreadQue[k] = Positions(per, k * per, (k + 1) * per, k * per)
      BY <1>1, <2>3 DEF EvenBlock
    <3>3. FinalBlock(k) = Positions(per + Remainder(FileSize, ThreadCnt, k), k * per,
                            (k + 1) * per + Remainder(FileSize, ThreadCnt, k), k * per)
      BY <2>3 DEF FinalBlock, BlockSize, BlockStart, BlockEnd
    <3>4. k * per \in Int /\ (k + 1) * per \in Int
      BY <1>1, <1>2, <2>3
    <3>5. CASE k = last
      <4>1. Remainder(FileSize, ThreadCnt, k) = left
        BY <2>3, <3>5 DEF Remainder
      <4>2. ThreadQue'[k] = Grown(ThreadQue[k], left)
        BY <1>1, <3>1, <3>5
      <4>3. ThreadQue'[k] = Positions(per + left, k * per, (k + 1) * per + left, k * per)
        BY <3>2, <4>2 DEF Grown, Positions
      <4> QED
        BY <3>3, <4>1, <4>3
    <3>6. CASE k # last
      <4>1. Remainder(FileSize, ThreadCnt, k) = 0
        BY <1>1, <2>3, <3>6 DEF Remainder
      <4>2. ThreadQue'[k] = ThreadQue[k]
        BY <1>1, <3>1, <3>6
      <4> QED
        BY <1>2, <2>3, <3>2, <3>3, <3>4, <4>1, <4>2 DEF Positions
    <3> QED
      BY <3>5, <3>6
  <2> QED
    BY <1>1, <2>1, <2>2, <2>3
<1>4. ThreadQue' \in [Indices -> ThreadPositions]
  BY <1>1, <1>2 DEF AddBytesLeft, Grown, Positions, ThreadPositions
<1>5. TypeOK'
  BY <1>4 DEF AddBytesLeft, IInv, TypeOK
<1>6. SizeAgrees' /\ LoopInvariant'
  BY DEF AddBytesLeft, IInv, SizeAgrees, LoopInvariant
<1>7. CutIsFinal'
  BY <1>3 DEF AddBytesLeft, CutIsFinal, FinalBlock
<1> QED
  BY <1>5, <1>6, <1>7 DEF IInv

(***************************************************************************)
(* A turn of the loop adds one even block and leaves the earlier ones.     *)
(***************************************************************************)
LEMMA LoopStep ==
  ASSUME IInv, InitThread
  PROVE  IInv'
<1> USE MaxThreadsAssumption
<1>1. /\ ThreadCnt \in 1 .. MaxThreads
      /\ FileSize \in Nat \cup {UnknownSize}
      /\ i \in Indices /\ i \in 0 .. ThreadCnt - 1
      /\ ThreadQue \in [Indices -> ThreadPositions]
      /\ \A k \in 0 .. i - 1 : ThreadQue[k] = EvenBlock(k) /\ k \in Indices
  BY DEF InitThread, IInv, TypeOK, LoopInvariant, Indices
<1>2. FileSize # UnknownSize => BytesPerConn(FileSize, ThreadCnt) \in Nat
  BY <1>1, Division
<1>3. ThreadQue' = [ThreadQue EXCEPT ![i] = EvenBlock(i)]
  BY DEF InitThread, EvenBlock
<1>4. EvenBlock(i) \in ThreadPositions
  <2>1. FileSize # UnknownSize =>
          /\ i * BytesPerConn(FileSize, ThreadCnt) \in Int
          /\ (i + 1) * BytesPerConn(FileSize, ThreadCnt) \in Int
    BY <1>1, <1>2
  <2> QED
    BY <1>2, <2>1 DEF EvenBlock, Positions, ThreadPositions
<1>5. ThreadQue' \in [Indices -> ThreadPositions]
  BY <1>1, <1>3, <1>4
<1>6. i' \in 0 .. MaxThreads /\ i' \in 0 .. ThreadCnt
  BY <1>1 DEF InitThread
<1>7. TypeOK'
  BY <1>5, <1>6 DEF InitThread, IInv, TypeOK
<1>8. \A k \in 0 .. i : ThreadQue'[k] = EvenBlock(k)
  BY <1>1, <1>3
<1>9. LoopInvariant'
  <2>1. i' - 1 = i
    BY <1>1 DEF InitThread
  <2> QED
    BY <1>6, <1>8, <2>1 DEF InitThread, LoopInvariant, EvenBlock
<1>10. SizeAgrees' /\ CutIsFinal'
  BY DEF InitThread, IInv, SizeAgrees, CutIsFinal
<1> QED
  BY <1>7, <1>9, <1>10 DEF IInv

(***************************************************************************)
(* Every step of the start of a task, the failing ones included, preserves *)
(* the invariant.                                                          *)
(***************************************************************************)
LEMMA NextPreservesIInv == IInv /\ [Next]_vars => IInv'
<1> SUFFICES ASSUME IInv, [Next]_vars PROVE IInv'
  OBVIOUS
<1> USE MaxThreadsAssumption
<1>1. CASE ProcessStartTask
  <2>1. ThreadCnt' \in 1 .. MaxThreads
    BY <1>1 DEF ProcessStartTask, IInv, TypeOK, TaskThreadCnt
  <2>2. FileSize' = UnknownSize => ThreadCnt' = 1
    BY <1>1 DEF ProcessStartTask, TaskThreadCnt
  <2>3. TypeOK'
    BY <1>1, <2>1 DEF ProcessStartTask, IInv, TypeOK
  <2>4. SizeAgrees' /\ LoopInvariant' /\ CutIsFinal'
    BY <1>1, <2>2 DEF ProcessStartTask, SizeAgrees, LoopInvariant, CutIsFinal
  <2> QED
    BY <2>3, <2>4 DEF IInv
<1>2. CASE InitTask
  <2>1. NewThread \in ThreadPositions
    BY DEF NewThread, Positions, ThreadPositions
  <2>2. /\ ThreadQue' \in [Indices -> ThreadPositions]
        /\ ThreadQue'[0] = NewThread
        /\ ThreadCnt \in 1 .. MaxThreads
    BY <1>2, <2>1 DEF InitTask, IInv, TypeOK, Indices
  <2>3. TypeOK'
    BY <1>2, <2>2 DEF InitTask, IInv, TypeOK
  <2>4. SizeAgrees' /\ CutIsFinal'
    BY <1>2, <2>2 DEF InitTask, IInv, SizeAgrees, CutIsFinal
  <2>5. LoopInvariant'
    BY <1>2, <2>2 DEF InitTask, LoopInvariant
  <2> QED
    BY <2>3, <2>4, <2>5 DEF IInv
<1>3. CASE InitThread
  BY <1>3, LoopStep
<1>4. CASE AddBytesLeft
  BY <1>4, CutStep
<1>5. CASE createLogFile
  <2>1. TypeOK'
    BY <1>5 DEF createLogFile, IInv, TypeOK
  <2>2. SizeAgrees' /\ LoopInvariant'
    BY <1>5 DEF createLogFile, IInv, SizeAgrees, LoopInvariant
  <2>3. CutIsFinal'
    BY <1>5 DEF createLogFile, IInv, CutIsFinal, FinalBlock
  <2> QED
    BY <2>1, <2>2, <2>3 DEF IInv
<1>6. CASE UNCHANGED vars
  BY <1>6 DEF vars, IInv, TypeOK, SizeAgrees, LoopInvariant, CutIsFinal, EvenBlock, FinalBlock
<1> QED
  BY <1>1, <1>2, <1>3, <1>4, <1>5, <1>6 DEF Next

-----------------------------------------------------------------------------
(* Theorems *)

(***************************************************************************)
(* The strengthened invariant holds of every behaviour.                    *)
(***************************************************************************)
THEOREM InductiveInvariant == Spec => []IInv
  BY InitEstablishesIInv, NextPreservesIInv, PTL DEF Spec

(***************************************************************************)
(* initTaskThreadQue never indexes ThreadQue outside the array, and the    *)
(* number of threads stays between 1 and MAX_THREADS.                      *)
(***************************************************************************)
THEOREM TypeCorrect == Spec => []TypeOK
<1>1. IInv => TypeOK
  BY DEF IInv
<1> QED
  BY <1>1, InductiveInvariant, PTL

(***************************************************************************)
(* A running task has the blocks that Partition defines, whatever attempts *)
(* to start it came before.                                                *)
(***************************************************************************)
THEOREM ClosedFormIsComputed == Spec => []BlocksAreTheirClosedForm
<1>1. IInv => BlocksAreTheirClosedForm
  BY DEF IInv, CutIsFinal, FinalBlock, BlocksAreTheirClosedForm, RunsInitialised
<1> QED
  BY <1>1, InductiveInvariant, PTL

(***************************************************************************)
(* Every byte of the remote file belongs to exactly one thread, for every  *)
(* file size and every number of threads.                                  *)
(***************************************************************************)
THEOREM BlocksTile == Spec => []BlocksTileTheFile
<1>1. IInv => BlocksTileTheFile
  <2> SUFFICES ASSUME IInv, RunsInitialised, FileSize # UnknownSize
               PROVE  BlocksTileTheFile
    BY DEF BlocksTileTheFile
  <2>1. FileSize \in Nat /\ ThreadCnt \in Nat \ {0}
    BY MaxThreadsAssumption, MaxFileSizeAssumption DEF IInv, TypeOK
  <2>2. \A k \in 0 .. ThreadCnt - 1 :
          /\ ThreadQue[k].BlkSize = BlockSize(FileSize, ThreadCnt, k)
          /\ ThreadQue[k].RemoteStartPos = BlockStart(FileSize, ThreadCnt, k)
          /\ ThreadQue[k].RemoteEndPos = BlockEnd(FileSize, ThreadCnt, k)
          /\ ThreadQue[k].LocalStartPos = BlockStart(FileSize, ThreadCnt, k)
    <3> SUFFICES ASSUME NEW k \in 0 .. ThreadCnt - 1
                 PROVE  /\ ThreadQue[k].BlkSize = BlockSize(FileSize, ThreadCnt, k)
                        /\ ThreadQue[k].RemoteStartPos = BlockStart(FileSize, ThreadCnt, k)
                        /\ ThreadQue[k].RemoteEndPos = BlockEnd(FileSize, ThreadCnt, k)
                        /\ ThreadQue[k].LocalStartPos = BlockStart(FileSize, ThreadCnt, k)
      OBVIOUS
    <3>1. ThreadQue[k] = FinalBlock(k)
      BY DEF IInv, CutIsFinal, RunsInitialised
    <3> QED
      BY <3>1 DEF FinalBlock, Positions
  <2>3. /\ BlockStart(FileSize, ThreadCnt, 0) = 0
        /\ BlockEnd(FileSize, ThreadCnt, ThreadCnt - 1) = FileSize
        /\ \A k \in 0 .. ThreadCnt - 2 :
             BlockEnd(FileSize, ThreadCnt, k) = BlockStart(FileSize, ThreadCnt, k + 1)
        /\ \A k \in 0 .. ThreadCnt - 1 :
             /\ BlockSize(FileSize, ThreadCnt, k) =
                  BlockEnd(FileSize, ThreadCnt, k) - BlockStart(FileSize, ThreadCnt, k)
             /\ BlockSize(FileSize, ThreadCnt, k) >= 0
    BY <2>1, ClosedFormTiles
  <2>4. ThreadQue[0].RemoteStartPos = 0 /\ ThreadQue[ThreadCnt - 1].RemoteEndPos = FileSize
    BY <2>1, <2>2, <2>3
  <2>5. \A k \in 0 .. ThreadCnt - 2 :
          ThreadQue[k].RemoteEndPos = ThreadQue[k + 1].RemoteStartPos
    BY <2>1, <2>2, <2>3
  <2>6. \A k \in 0 .. ThreadCnt - 1 :
          /\ ThreadQue[k].BlkSize = ThreadQue[k].RemoteEndPos - ThreadQue[k].RemoteStartPos
          /\ ThreadQue[k].LocalStartPos = ThreadQue[k].RemoteStartPos
          /\ ThreadQue[k].BlkSize >= 0
    BY <2>2, <2>3
  <2> QED
    BY <2>4, <2>5, <2>6 DEF BlocksTileTheFile
<1> QED
  BY <1>1, InductiveInvariant, PTL
=============================================================================
