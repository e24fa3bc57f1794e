--------------------------- MODULE Download_proof ---------------------------
(***************************************************************************)
(* Proofs that a download is sound for every size of the file, every number *)
(* of threads, every size of a buffer, every number of stops and however    *)
(* often pthread_create fails, from a server that honours ranges: what is    *)
(* reported as complete is the remote file, unless a torn record was loaded. *)
(***************************************************************************)
EXTENDS Download, Blocks_proof, FiniteSetTheorems
-----------------------------------------------------------------------------
(* The inductive invariant *)

\* The GUI thread works on the task while it runs only, and its pthreads are there.
CrewIsThere ==
  /\ gui # "loop" => TaskStatus = "RUNNING"
  /\ TaskStatus = "RUNNING" => \A i \in Threads : pc[i] # "none"

Limit(i) == RemoteEndPos(i) + (IF Scheme = "http" THEN 1 ELSE 0)

\* Where what the pthread has written ends.
Reach(i) == LocalStartPos[i] + (IF pc[i] \in {"remote", "local"} THEN BytesRead[i] ELSE 0)

PositionsAgree(i) ==
  /\ RemoteStartPos[i] = LocalStartPos[i] + (IF pc[i] = "local" THEN BytesRead[i] ELSE 0)
  /\ FirstPos(i) <= LocalStartPos[i]
  /\ 0 <= RemoteBytesReceived[i]
  /\ FirstPos(i) + RemoteBytesReceived[i] + (IF pc[i] = "count" THEN BytesRead[i] ELSE 0)
       <= LocalStartPos[i]

ReachIsWritten(i) ==
  /\ Reach(i) <= Limit(i) /\ Reach(i) <= FileSize
  /\ BlockIsWritten(FirstPos(i), Reach(i))

\* What is left to receive, and where the server is.
Receiving(i) ==
  pc[i] \in {"recv", "remote", "local", "count"} =>
    /\ RemoteEndPos(i) - Reach(i) <= Length[i]
    /\ Scheme = "ftp" => Length[i] = RemoteEndPos(i) - Reach(i)
    /\ ServerPos[i] = Reach(i)

ThreadKeeps(i) == pc[i] # "none" => PositionsAgree(i) /\ ReachIsWritten(i) /\ Receiving(i)

RecordHolds(rec, i) ==
  /\ FirstPos(i) <= rec.LocalStartPos /\ rec.LocalStartPos <= Limit(i)
  /\ rec.LocalStartPos <= FileSize
  /\ 0 <= rec.RemoteBytesReceived
  /\ FirstPos(i) + rec.RemoteBytesReceived <= rec.LocalStartPos
  /\ BlockIsWritten(FirstPos(i), rec.RemoteStartPos)
  /\ BlockIsWritten(FirstPos(i), rec.LocalStartPos)

\* The record updateLogFile is filling in.
RecordGrows ==
  /\ gui \in {"count", "local"} => BlockIsWritten(FirstPos(current), tdrec.RemoteStartPos)
  /\ gui = "local" => /\ 0 <= tdrec.RemoteBytesReceived
                      /\ FirstPos(current) + tdrec.RemoteBytesReceived <= LocalStartPos[current]

Sound ==
  /\ \A i \in Threads : ThreadKeeps(i)
  /\ \A i \in Threads : RecordHolds(Log[i], i)
  /\ \A i \in Threads : Status[i] = "ALLDONE" => BlockIsWritten(FirstPos(i), RemoteEndPos(i))
  /\ \A i \in Threads : LocalStartPos[i] <= Limit(i) /\ LocalStartPos[i] <= FileSize
  /\ RecordGrows
  /\ File[FileSize] = Hole
  /\ TaskStatus = "FINISHED" => FileIsIntact

\* No record is ahead of the positions of its thread, nor of the record that is filled in.
LogIsBehind ==
  /\ \A i \in Threads : pc[i] # "none" =>
        /\ Log[i].RemoteStartPos <= RemoteStartPos[i]
        /\ Log[i].RemoteBytesReceived <= RemoteBytesReceived[i]
        /\ Log[i].LocalStartPos <= LocalStartPos[i]
  /\ gui \in {"count", "local"} =>
        /\ Log[current].RemoteStartPos <= tdrec.RemoteStartPos
        /\ tdrec.RemoteStartPos <= RemoteStartPos[current]
  /\ gui = "local" =>
        /\ Log[current].RemoteBytesReceived <= tdrec.RemoteBytesReceived
        /\ tdrec.RemoteBytesReceived <= RemoteBytesReceived[current]

\* What holds whatever the server sends, and what holds while no torn record was loaded.
BInv == TypeOK /\ CrewIsThere /\ LogIsBehind
IInv == BInv /\ (~tornRecord => Sound)
-----------------------------------------------------------------------------
(* The blocks and the numbers of threads *)

LEMMA Crew == ThreadCnt \in Nat \ {0} /\ 0 \in Threads
BY NblksAssumption DEF ThreadCnt, TaskThreadCnt, Threads

LEMMA Blocks ==
  ASSUME NEW i \in Threads
  PROVE  /\ FirstPos(i) \in Nat /\ BlkSize(i) \in Nat /\ RemoteEndPos(i) \in Nat
         /\ RemoteEndPos(i) = FirstPos(i) + BlkSize(i)
         /\ RemoteEndPos(i) <= FileSize
BY Crew, FileSizeAssumption, BlocksLieInTheFile DEF FirstPos, BlkSize, RemoteEndPos, Threads

LEMMA EveryByteHasAThread ==
  ASSUME NEW c \in 0 .. FileSize - 1
  PROVE  \E i \in Threads : FirstPos(i) <= c /\ c < RemoteEndPos(i)
BY Crew, FileSizeAssumption, EveryByteHasABlock DEF FirstPos, RemoteEndPos, Threads

(***************************************************************************)
(* Some threads are at most all threads.                                    *)
(***************************************************************************)
LEMMA SomeThreads == DCnt \in 0 .. ThreadCnt
<1>1. ThreadCnt - 1 \in Int
  BY Crew
<1>2. IsFiniteSet(Threads) /\ Cardinality(Threads) = ThreadCnt
  BY Crew, <1>1, FS_Interval DEF Threads
<1>3. WithStatus("DOWNLOADING") \subseteq Threads
  BY DEF WithStatus
<1>4. /\ IsFiniteSet(WithStatus("DOWNLOADING"))
      /\ Cardinality(WithStatus("DOWNLOADING")) <= Cardinality(Threads)
  BY <1>2, <1>3, FS_Subset
<1>5. Cardinality(WithStatus("DOWNLOADING")) \in Nat
  BY <1>4, FS_CardinalityType
<1> QED
  BY <1>2, <1>4, <1>5, Crew DEF DCnt

-----------------------------------------------------------------------------
(* Types *)

LEMMA ThreadStepIsTyped ==
  ASSUME TypeOK, NEW i \in Threads, run(i)
  PROVE  TypeOK'
<1> USE DEF TypeOK, Step, SetStatus, ForgetLocals, Elsewhere, guiVars, mutexVars, positions, locals,
            ThreadStatus, ThreadPc
<1>0. AttemptsAfter(i) \in 0 .. MaxTryAttempts /\ 0 \in 0 .. BufSize
  BY TryAssumption, BufSizeAssumption DEF AttemptsAfter
<1>1. CASE FindBlockDone(i)
  BY <1>0, <1>1 DEF FindBlockDone
<1>2. CASE BeginConnect(i)
  BY <1>2 DEF BeginConnect
<1>3. ASSUME NEW from, NEW s \in ThreadStatus, Fail(i, from, s) PROVE TypeOK'
  BY <1>0, <1>3 DEF Fail
<1>4. ASSUME NEW from, OpenLocalFile(i, from) PROVE TypeOK'
  <2>1. RemoteEndPos(i) - RemoteStartPos[i] \in Int
    BY Blocks
  <2> QED
    BY <1>4, <2>1 DEF OpenLocalFile
<1>5. CASE ConnectHttp(i)
  BY <1>3, <1>4, <1>5 DEF ConnectHttp
<1>6. CASE ConnectFtp(i)
  BY <1>3, <1>6 DEF ConnectFtp
<1>7. CASE LoginFtp(i)
  BY <1>3, <1>4, <1>7 DEF LoginFtp
<1>8. CASE RecvData(i)
  <2>1. PICK n \in 1 .. Wanted(i) :
          /\ File' = Written(File, FileSize, LocalStartPos[i], ServerPos[i], n)
          /\ BytesRead' = [BytesRead EXCEPT ![i] = n]
          /\ Length' = [Length EXCEPT ![i] = @ - n]
          /\ ServerPos' = [ServerPos EXCEPT ![i] = @ + n]
    BY <1>8 DEF RecvData
  <2>2. n \in 0 .. BufSize
    BY <1>8, BufSizeAssumption DEF RecvData, Wanted
  <2>3. File' \in [Cells(FileSize) -> Int]
    BY <2>1, <2>2, WritingIsTyped, BufSizeAssumption, FileSizeAssumption
  <2> QED
    BY <1>8, <2>1, <2>2, <2>3, BufSizeAssumption DEF RecvData
<1>9. CASE RecvFails(i)
  BY <1>3, <1>9 DEF RecvFails
<1>10. CASE AddRemoteStartPos(i)
  BY <1>10, BufSizeAssumption DEF AddRemoteStartPos
<1>11. CASE AddLocalStartPos(i)
  BY <1>11, BufSizeAssumption DEF AddLocalStartPos
<1>12. CASE AddRemoteBytesReceived(i)
  BY <1>0, <1>12, BufSizeAssumption DEF AddRemoteBytesReceived
<1>13. CASE FinishBlock(i)
  BY <1>0, <1>13 DEF FinishBlock
<1>14. CASE Retry(i)
  BY <1>0, <1>14 DEF Retry
<1>15. CASE GiveUp(i)
  BY <1>0, <1>15 DEF GiveUp
<1> QED
  BY <1>1, <1>2, <1>5, <1>6, <1>7, <1>8, <1>9, <1>10, <1>11, <1>12, <1>13, <1>14, <1>15 DEF run

(***************************************************************************)
(* The GUI thread's loop over the threads stays among them.                  *)
(***************************************************************************)
LEMMA NextThreadIsAThread ==
  ASSUME TypeOK, NEW phase \in GuiPc, NEW next \in GuiPc, NextThread(phase, next)
  PROVE  gui' \in {phase, next} /\ current' \in Threads
<1>1. current \in 0 .. ThreadCnt - 1
  BY DEF TypeOK, Threads
<1>2. CASE current + 1 < ThreadCnt
  BY <1>1, <1>2, Crew DEF NextThread, Threads
<1>3. CASE ~(current + 1 < ThreadCnt)
  BY <1>3, Crew DEF NextThread
<1> QED
  BY <1>2, <1>3

LEMMA GuiStepIsTyped ==
  ASSUME TypeOK, GuiStep \/ threadWaitCond \/ dlStop \/ dlStart
  PROVE  TypeOK'
<1> USE DEF TypeOK, Workers, guiVars, mutexVars, positions, locals
<1>1. CASE timerEvent
  BY <1>1, Crew DEF timerEvent, GuiPc
<1>2. CASE scheduleThread
  <2>1. gui' \in GuiPc /\ current' \in Threads
    BY <1>2, NextThreadIsAThread DEF scheduleThread, GuiPc
  <2>2. MaxSimConns' \in 0 .. ThreadCnt
    BY <1>2, SomeThreads DEF scheduleThread
  <2> QED
    BY <1>2, <2>1, <2>2 DEF scheduleThread
<1>3. CASE joinThread
  <2>1. gui' \in GuiPc /\ current' \in Threads
    BY <1>3, NextThreadIsAThread DEF joinThread, GuiPc
  <2>2. StatusMutex' \in BOOLEAN
    BY <1>3 DEF joinThread
  <2>3. createFails' \in 0 .. MaxCreateFails
    BY <1>3, StopsAssumption DEF joinThread
  <2>4. pc' \in [Threads -> ThreadPc] /\ Status' \in [Threads -> ThreadStatus]
    BY <1>3 DEF joinThread, SetStatus, ThreadPc, ThreadStatus
  <2> QED
    BY <1>3, <2>1, <2>2, <2>3, <2>4 DEF joinThread
<1>4. CASE threadWaitCond
  <2>1. gui' \in GuiPc /\ current' \in Threads
    BY <1>4, NextThreadIsAThread DEF threadWaitCond, GuiPc
  <2> QED
    BY <1>4, <2>1 DEF threadWaitCond
<1>5. CASE updateLogFileFails
  BY <1>5 DEF updateLogFileFails, GuiPc
<1>6. CASE ReadRemoteStartPos
  <2>1. tdrec' \in LogRecord
    BY <1>6 DEF ReadRemoteStartPos, LogRecord
  <2> QED
    BY <1>6, <2>1 DEF ReadRemoteStartPos, GuiPc
<1>7. CASE ReadRemoteBytesReceived
  <2>1. tdrec' \in LogRecord
    BY <1>7 DEF ReadRemoteBytesReceived, LogRecord
  <2> QED
    BY <1>7, <2>1 DEF ReadRemoteBytesReceived, GuiPc
<1>8. CASE WriteRecord
  <2>1. [tdrec EXCEPT !.LocalStartPos = LocalStartPos[current]] \in LogRecord
    BY DEF LogRecord
  <2>2. Record(0, 0, 0) \in LogRecord
    BY DEF Record, LogRecord
  <2>3. gui' \in GuiPc /\ current' \in Threads
    BY <1>8, NextThreadIsAThread DEF WriteRecord, GuiPc
  <2>4. Log' \in [Threads -> LogRecord] /\ tdrec' \in LogRecord
    BY <1>8, <2>1, <2>2 DEF WriteRecord
  <2> QED
    BY <1>8, <2>3, <2>4 DEF WriteRecord
<1>9. CASE CheckCompleted
  BY <1>9 DEF CheckCompleted, GuiPc
<1>10. CASE ProcessStopedTask
  BY <1>10, BufSizeAssumption DEF ProcessStopedTask, ThreadPc
<1>11. CASE ProcessResumeTask
  <2>1. /\ RemoteStartPos' \in [Threads -> Int] /\ RemoteBytesReceived' \in [Threads -> Int]
        /\ LocalStartPos' \in [Threads -> Int]
    BY <1>11 DEF ProcessResumeTask, LogRecord
  <2>2. /\ Status' \in [Threads -> ThreadStatus] /\ TryAttempts' \in [Threads -> 0 .. MaxTryAttempts]
        /\ pc' \in [Threads -> ThreadPc]
    BY <1>11, TryAssumption DEF ProcessResumeTask, ThreadStatus, ThreadPc
  <2>3. tornRecord' \in BOOLEAN
    BY <1>11 DEF ProcessResumeTask
  <2> QED
    BY <1>11, <2>1, <2>2, <2>3 DEF ProcessResumeTask
<1>12. CASE dlStop
  BY <1>12, StopsAssumption DEF dlStop
<1>13. CASE dlStart
  BY <1>13 DEF dlStart
<1> QED
  BY <1>1, <1>2, <1>3, <1>4, <1>5, <1>6, <1>7, <1>8, <1>9, <1>10, <1>11, <1>12, <1>13 DEF GuiStep

-----------------------------------------------------------------------------
(* The crew, and the log behind the positions *)

LEMMA ThreadStepMovesOneThread ==
  ASSUME TypeOK, NEW i \in Threads, run(i), NEW j \in Threads, j # i
  PROVE  /\ pc'[j] = pc[j] /\ Status'[j] = Status[j]
         /\ RemoteStartPos'[j] = RemoteStartPos[j] /\ LocalStartPos'[j] = LocalStartPos[j]
         /\ RemoteBytesReceived'[j] = RemoteBytesReceived[j]
         /\ Length'[j] = Length[j] /\ BytesRead'[j] = BytesRead[j] /\ ServerPos'[j] = ServerPos[j]
BY DEF TypeOK, run, FindBlockDone, BeginConnect, ConnectHttp, ConnectFtp, LoginFtp, RecvData, RecvFails,
       AddRemoteStartPos, AddLocalStartPos, AddRemoteBytesReceived, FinishBlock, Retry, GiveUp, Fail,
       OpenLocalFile, Step, SetStatus, ForgetLocals, positions, locals

LEMMA ThreadStepIsNotElsewhere ==
  ASSUME NEW i \in Threads, run(i)
  PROVE  /\ UNCHANGED <<Scheme, TaskStatus, Log, gui, current, tdrec, tornRecord>>
         /\ pc[i] # "none"
BY DEF run, FindBlockDone, BeginConnect, ConnectHttp, ConnectFtp, LoginFtp, RecvData, RecvFails,
       AddRemoteStartPos, AddLocalStartPos, AddRemoteBytesReceived, FinishBlock, Retry, GiveUp, Fail,
       OpenLocalFile, Step, Elsewhere, guiVars

LEMMA ThreadStepStaysInTheCrew ==
  ASSUME TypeOK, NEW i \in Threads, run(i)
  PROVE  pc'[i] # "none"
BY DEF TypeOK, run, FindBlockDone, BeginConnect, ConnectHttp, ConnectFtp, LoginFtp, RecvData, RecvFails,
       AddRemoteStartPos, AddLocalStartPos, AddRemoteBytesReceived, FinishBlock, Retry, GiveUp, Fail,
       OpenLocalFile, Step

(***************************************************************************)
(* A pthread takes none of its positions back.                              *)
(***************************************************************************)
LEMMA PositionsGrow ==
  ASSUME TypeOK, NEW i \in Threads, run(i)
  PROVE  /\ RemoteStartPos[i] <= RemoteStartPos'[i]
         /\ LocalStartPos[i] <= LocalStartPos'[i]
         /\ RemoteBytesReceived[i] <= RemoteBytesReceived'[i]
<1>1. BytesRead[i] \in Nat /\ RemoteStartPos[i] \in Int /\ LocalStartPos[i] \in Int
      /\ RemoteBytesReceived[i] \in Int
  BY BufSizeAssumption DEF TypeOK
<1>2. /\ RemoteStartPos'[i] \in {RemoteStartPos[i], RemoteStartPos[i] + BytesRead[i]}
      /\ LocalStartPos'[i] \in {LocalStartPos[i], LocalStartPos[i] + BytesRead[i]}
      /\ RemoteBytesReceived'[i] \in {RemoteBytesReceived[i], RemoteBytesReceived[i] + BytesRead[i]}
  BY DEF TypeOK, run, FindBlockDone, BeginConnect, ConnectHttp, ConnectFtp, LoginFtp, RecvData, RecvFails,
       AddRemoteStartPos, AddLocalStartPos, AddRemoteBytesReceived, FinishBlock, Retry, GiveUp, Fail,
       OpenLocalFile, positions
<1> QED
  BY <1>1, <1>2

LEMMA ThreadStepKeepsTheLogBehind ==
  ASSUME TypeOK, CrewIsThere, LogIsBehind, NEW i \in Threads, run(i)
  PROVE  CrewIsThere' /\ LogIsBehind'
<1>1. UNCHANGED <<Log, gui, current, tdrec, TaskStatus>> /\ pc[i] # "none" /\ pc'[i] # "none"
  BY ThreadStepIsNotElsewhere, ThreadStepStaysInTheCrew
<1>2. CrewIsThere'
  BY <1>1, ThreadStepMovesOneThread DEF CrewIsThere
<1>3. ASSUME NEW j \in Threads, pc'[j] # "none"
      PROVE  /\ Log[j].RemoteStartPos <= RemoteStartPos'[j]
             /\ Log[j].RemoteBytesReceived <= RemoteBytesReceived'[j]
             /\ Log[j].LocalStartPos <= LocalStartPos'[j]
  <2>1. /\ Log[j].RemoteStartPos \in Int /\ Log[j].RemoteBytesReceived \in Int
        /\ Log[j].LocalStartPos \in Int
    BY DEF TypeOK, LogRecord
  <2>2. CASE j = i
    <3>1. /\ RemoteStartPos'[i] \in Int /\ RemoteBytesReceived'[i] \in Int /\ LocalStartPos'[i] \in Int
          /\ RemoteStartPos[i] \in Int /\ RemoteBytesReceived[i] \in Int /\ LocalStartPos[i] \in Int
      BY ThreadStepIsTyped DEF TypeOK
    <3> QED
      BY <1>1, <2>1, <2>2, <3>1, PositionsGrow DEF LogIsBehind
  <2>3. CASE j # i
    BY <1>3, <2>3, ThreadStepMovesOneThread DEF LogIsBehind
  <2> QED
    BY <2>2, <2>3
<1>4. \A j \in Threads : /\ RemoteStartPos[j] <= RemoteStartPos'[j]
                         /\ RemoteBytesReceived[j] <= RemoteBytesReceived'[j]
  <2> SUFFICES ASSUME NEW j \in Threads
               PROVE  /\ RemoteStartPos[j] <= RemoteStartPos'[j]
                      /\ RemoteBytesReceived[j] <= RemoteBytesReceived'[j]
    OBVIOUS
  <2>1. RemoteStartPos[j] \in Int /\ RemoteBytesReceived[j] \in Int
    BY DEF TypeOK
  <2>2. CASE j = i
    BY <2>2, PositionsGrow
  <2>3. CASE j # i
    BY <2>1, <2>3, ThreadStepMovesOneThread
  <2> QED
    BY <2>2, <2>3
<1>5. /\ tdrec.RemoteStartPos \in Int /\ tdrec.RemoteBytesReceived \in Int
      /\ RemoteStartPos[current] \in Int /\ RemoteStartPos'[current] \in Int
      /\ RemoteBytesReceived[current] \in Int /\ RemoteBytesReceived'[current] \in Int
  BY <1>1, ThreadStepIsTyped DEF TypeOK, LogRecord
<1>6. current \in Threads
  BY DEF TypeOK
<1>7. /\ gui \in {"count", "local"} => tdrec.RemoteStartPos <= RemoteStartPos'[current]
      /\ gui = "local" => tdrec.RemoteBytesReceived <= RemoteBytesReceived'[current]
  BY <1>4, <1>5, <1>6 DEF LogIsBehind
<1> QED
  BY <1>1, <1>2, <1>3, <1>7 DEF LogIsBehind

\* The GUI thread's steps that leave the pthreads, the log and its record alone.
LEMMA GuiStepKeepsTheLogBehind ==
  ASSUME TypeOK, CrewIsThere, LogIsBehind, GuiStep \/ threadWaitCond \/ dlStop \/ dlStart
  PROVE  CrewIsThere' /\ LogIsBehind'
<1> USE DEF Workers, guiVars, positions
<1>1. CASE timerEvent \/ dlStop \/ dlStart \/ updateLogFileFails \/ CheckCompleted
  <2>1. UNCHANGED <<positions, pc, Log>> /\ gui' \notin {"count", "local"}
    BY <1>1 DEF timerEvent, dlStop, dlStart, updateLogFileFails, CheckCompleted
  <2>2. CrewIsThere'
    BY <1>1 DEF timerEvent, dlStop, dlStart, updateLogFileFails, CheckCompleted, CrewIsThere
  <2> QED
    BY <2>1, <2>2 DEF LogIsBehind
<1>2. CASE scheduleThread \/ threadWaitCond
  <2>1. /\ UNCHANGED <<positions, pc, Log, TaskStatus>> /\ gui' \notin {"count", "local", "loop"}
        /\ gui # "loop"
    BY <1>2 DEF scheduleThread, threadWaitCond, NextThread
  <2> QED
    BY <2>1 DEF LogIsBehind, CrewIsThere
<1>3. CASE joinThread
  <2>1. /\ UNCHANGED <<positions, Log, TaskStatus>> /\ gui' \notin {"count", "local", "loop"}
        /\ gui # "loop"
    BY <1>3 DEF joinThread, NextThread
  <2>2. \A j \in Threads : pc[j] # "none" /\ pc'[j] # "none"
    BY <1>3, <2>1 DEF joinThread, CrewIsThere, TypeOK
  <2> QED
    BY <2>1, <2>2 DEF LogIsBehind, CrewIsThere
<1>4. CASE ReadRemoteStartPos
  <2>1. UNCHANGED <<positions, pc, Log, TaskStatus, current>> /\ gui' = "count" /\ gui # "loop"
    BY <1>4 DEF ReadRemoteStartPos
  <2>2. tdrec'.RemoteStartPos = RemoteStartPos[current]
    BY <1>4 DEF ReadRemoteStartPos, TypeOK, LogRecord
  <2>3. Log[current].RemoteStartPos <= RemoteStartPos[current] /\ RemoteStartPos[current] \in Int
    BY <2>1 DEF CrewIsThere, LogIsBehind, TypeOK
  <2> QED
    BY <2>1, <2>2, <2>3 DEF LogIsBehind, CrewIsThere
<1>5. CASE ReadRemoteBytesReceived
  <2>1. UNCHANGED <<positions, pc, Log, TaskStatus, current>> /\ gui' = "local" /\ gui = "count"
    BY <1>5 DEF ReadRemoteBytesReceived
  <2>2. tdrec'.RemoteStartPos = tdrec.RemoteStartPos
    BY <1>5 DEF ReadRemoteBytesReceived, TypeOK, LogRecord
  <2>3. tdrec'.RemoteBytesReceived = RemoteBytesReceived[current]
    BY <1>5 DEF ReadRemoteBytesReceived, TypeOK, LogRecord
  <2>4. /\ Log[current].RemoteBytesReceived <= RemoteBytesReceived[current]
        /\ RemoteBytesReceived[current] \in Int
    BY <2>1 DEF CrewIsThere, LogIsBehind, TypeOK
  <2> QED
    BY <2>1, <2>2, <2>3, <2>4 DEF LogIsBehind, CrewIsThere
<1>6. CASE WriteRecord
  <2>1. UNCHANGED <<positions, pc, TaskStatus>> /\ gui' \notin {"count", "local", "loop"} /\ gui = "local"
    BY <1>6 DEF WriteRecord, NextThread
  <2>2. \A j \in Threads : j # current => Log'[j] = Log[j]
    BY <1>6 DEF WriteRecord, TypeOK
  <2>3. Log'[current] = [tdrec EXCEPT !.LocalStartPos = LocalStartPos[current]]
    BY <1>6 DEF WriteRecord, TypeOK
  <2>4. Log'[current].RemoteStartPos = tdrec.RemoteStartPos
    BY <2>3 DEF TypeOK, LogRecord
  <2>5. Log'[current].RemoteBytesReceived = tdrec.RemoteBytesReceived
    BY <2>3 DEF TypeOK, LogRecord
  <2>6. Log'[current].LocalStartPos = LocalStartPos[current]
    BY <2>3 DEF TypeOK, LogRecord
  <2>7. LocalStartPos[current] \in Int /\ current \in Threads
    BY DEF TypeOK
  <2> QED
    BY <2>1, <2>2, <2>4, <2>5, <2>6, <2>7 DEF LogIsBehind, CrewIsThere
<1>7. CASE ProcessStopedTask
  <2>1. (\A i \in Threads : pc'[i] = "none") /\ gui' = "loop" /\ TaskStatus' # "RUNNING"
    BY <1>7 DEF ProcessStopedTask
  <2> QED
    BY <2>1 DEF LogIsBehind, CrewIsThere
<1>8. CASE ProcessResumeTask
  <2>1. /\ \A i \in Threads : pc'[i] = "top"
        /\ gui' = "loop" /\ Log' = Log
        /\ \A i \in Threads : /\ RemoteStartPos'[i] = Log[i].RemoteStartPos
                              /\ RemoteBytesReceived'[i] = Log[i].RemoteBytesReceived
                              /\ LocalStartPos'[i] = Log[i].LocalStartPos
    BY <1>8 DEF ProcessResumeTask
  <2>2. \A i \in Threads : /\ Log[i].RemoteStartPos \in Int /\ Log[i].LocalStartPos \in Int
                           /\ Log[i].RemoteBytesReceived \in Int
    BY DEF TypeOK, LogRecord
  <2> QED
    BY <2>1, <2>2 DEF LogIsBehind, CrewIsThere
<1> QED
  BY <1>1, <1>2, <1>3, <1>4, <1>5, <1>6, <1>7, <1>8 DEF GuiStep

-----------------------------------------------------------------------------
(* What the pthreads write *)

\* What a step may do to the file: what is held stays held.
FileGrows ==
  /\ File'[FileSize] = File[FileSize]
  /\ \A lo, hi \in Int : BlockIsWritten(lo, hi) => BlockIsWritten(lo, hi)'

LEMMA SameFileGrows == File' = File => FileGrows
BY DEF FileGrows, BlockIsWritten, Holds

\* What a step of the pthread i leaves true of itself.
StepIsSound(i) ==
  /\ FileGrows
  /\ ThreadKeeps(i)'
  /\ Status'[i] = "ALLDONE" => BlockIsWritten(FirstPos(i), RemoteEndPos(i))'
  /\ LocalStartPos'[i] <= Limit(i) /\ LocalStartPos'[i] <= FileSize

\* The state of a pthread and of the server, with their types.
Numbers(i) ==
  /\ RemoteStartPos[i] \in Int /\ LocalStartPos[i] \in Int /\ RemoteBytesReceived[i] \in Int
  /\ Length[i] \in Int /\ BytesRead[i] \in Nat /\ ServerPos[i] \in Int
  /\ FirstPos(i) \in Nat /\ RemoteEndPos(i) \in Nat /\ Limit(i) \in Nat /\ FileSize \in Nat
  /\ RemoteEndPos(i) <= Limit(i)

LEMMA TheyAreNumbers == ASSUME TypeOK, NEW i \in Threads PROVE Numbers(i)
<1>1. BytesRead[i] \in Nat
  BY BufSizeAssumption DEF TypeOK
<1> QED
  BY <1>1, Blocks, FileSizeAssumption DEF TypeOK, Numbers, Limit

LEMMA LimitsAreFixed ==
  ASSUME NEW i \in Threads
  PROVE  /\ Scheme = "http" => Limit(i) = RemoteEndPos(i) + 1
         /\ Scheme # "http" => Limit(i) = RemoteEndPos(i)
         /\ UNCHANGED Scheme => Limit(i)' = Limit(i)
<1>1. RemoteEndPos(i) \in Nat
  BY Blocks
<1>2. Scheme = "http" => Limit(i) = RemoteEndPos(i) + 1
  BY DEF Limit
<1>3. Scheme # "http" => Limit(i) = RemoteEndPos(i)
  BY <1>1 DEF Limit
<1>4. UNCHANGED Scheme => Limit(i)' = Limit(i)
  BY DEF Limit
<1> QED
  BY <1>2, <1>3, <1>4

LEMMA ReachIsThePosition ==
  ASSUME NEW i \in Threads
  PROVE  /\ LocalStartPos[i] \in Int /\ pc[i] \notin {"remote", "local"}
              => Reach(i) = LocalStartPos[i]
         /\ LocalStartPos'[i] \in Int /\ pc'[i] \notin {"remote", "local"}
              => Reach(i)' = LocalStartPos'[i]
<1>1. LocalStartPos[i] \in Int /\ pc[i] \notin {"remote", "local"} => Reach(i) = LocalStartPos[i]
  BY DEF Reach
<1>2. LocalStartPos'[i] \in Int /\ pc'[i] \notin {"remote", "local"} => Reach(i)' = LocalStartPos'[i]
  BY DEF Reach
<1> QED
  BY <1>1, <1>2

\* A step that moves no position, and ends where nothing is received.
LEMMA StandingStillIsSound ==
  ASSUME TypeOK, Sound, NEW i \in Threads, pc[i] \in {"top", "connecting", "login", "recv", "failed"},
         UNCHANGED <<File, RemoteStartPos, LocalStartPos, RemoteBytesReceived, Scheme>>,
         pc'[i] \in {"top", "connecting", "login", "failed", "ended"},
         Status'[i] # "ALLDONE" \/ Status[i] = "ALLDONE"
  PROVE  StepIsSound(i)
<1>1. FileGrows
  BY SameFileGrows
<1>2. ThreadKeeps(i)
  BY DEF Sound
<1>n. Numbers(i)
  BY TheyAreNumbers
<1>3. Reach(i) = LocalStartPos[i] /\ Reach(i)' = LocalStartPos[i] /\ Limit(i)' = Limit(i)
  BY <1>n, ReachIsThePosition, LimitsAreFixed DEF Numbers
<1>4. PositionsAgree(i) /\ ReachIsWritten(i)
  BY <1>2 DEF ThreadKeeps
<1>5. PositionsAgree(i)'
  BY <1>n, <1>3, <1>4 DEF PositionsAgree, Numbers
<1>6. ReachIsWritten(i)'
  BY <1>3, <1>4 DEF ReachIsWritten, BlockIsWritten
<1>7. ThreadKeeps(i)'
  BY <1>5, <1>6 DEF ThreadKeeps, Receiving
<1>8. Status'[i] = "ALLDONE" => BlockIsWritten(FirstPos(i), RemoteEndPos(i))'
  BY DEF Sound, BlockIsWritten
<1> QED
  BY <1>1, <1>7, <1>8 DEF StepIsSound, Sound

LEMMA FailingIsSound ==
  ASSUME TypeOK, Sound, NEW i \in Threads, NEW from \in {"connecting", "login", "recv"},
         NEW s \in {"LOGINFAIL", "REMOTEFATAL", "LOCALFATAL"}, Fail(i, from, s)
  PROVE  StepIsSound(i)
BY StandingStillIsSound DEF Fail, Step, SetStatus, TypeOK, positions, Elsewhere

(***************************************************************************)
(* A block is found done: as much was received as it has, or it was done    *)
(* before.                                                                  *)
(***************************************************************************)
LEMMA FindingDoneIsSound ==
  ASSUME TypeOK, Sound, NEW i \in Threads, FindBlockDone(i)
  PROVE  StepIsSound(i)
<1>1. /\ UNCHANGED <<File, RemoteStartPos, LocalStartPos, RemoteBytesReceived, Scheme>>
      /\ pc[i] = "top" /\ pc'[i] = "ended" /\ Status'[i] = "ALLDONE"
      /\ BlkSize(i) = RemoteBytesReceived[i] \/ Status[i] = "ALLDONE"
  BY DEF FindBlockDone, Step, SetStatus, TypeOK, positions, Elsewhere
<1>2. CASE Status[i] = "ALLDONE"
  BY <1>1, <1>2, StandingStillIsSound
<1>3. CASE BlkSize(i) = RemoteBytesReceived[i]
  <2>n. Numbers(i)
    BY TheyAreNumbers
  <2>1. Numbers(i) /\ PositionsAgree(i) /\ ReachIsWritten(i) /\ Reach(i) = LocalStartPos[i]
    BY <1>1, <2>n, ReachIsThePosition DEF Sound, ThreadKeeps, Numbers
  <2>2. RemoteEndPos(i) = FirstPos(i) + RemoteBytesReceived[i]
    BY <1>3, Blocks
  <2>3. RemoteEndPos(i) <= LocalStartPos[i]
    BY <1>1, <2>1, <2>2 DEF PositionsAgree, Numbers
  <2>4. BlockIsWritten(FirstPos(i), RemoteEndPos(i))
    BY <2>1, <2>3, LessIsHeld, FileSizeAssumption DEF ReachIsWritten, BlockIsWritten, Numbers
  <2>5. FileGrows
    BY <1>1, SameFileGrows
  <2>6. Reach(i)' = LocalStartPos[i] /\ Limit(i)' = Limit(i)
    BY <1>1, <2>n, ReachIsThePosition, LimitsAreFixed DEF Numbers
  <2>7. PositionsAgree(i)' /\ ReachIsWritten(i)'
    BY <1>1, <2>1, <2>6 DEF PositionsAgree, ReachIsWritten, BlockIsWritten, Numbers
  <2>8. ThreadKeeps(i)'
    BY <1>1, <2>7 DEF ThreadKeeps, Receiving
  <2>9. BlockIsWritten(FirstPos(i), RemoteEndPos(i))'
    BY <1>1, <2>4 DEF BlockIsWritten
  <2> QED
    BY <1>1, <2>5, <2>8, <2>9 DEF StepIsSound, Sound
<1> QED
  BY <1>1, <1>2, <1>3

(***************************************************************************)
(* The server begins at the position that was asked for.                    *)
(***************************************************************************)
LEMMA OpeningIsSound ==
  ASSUME TypeOK, Sound, ServerReply = "range", NEW i \in Threads,
         NEW from \in {"connecting", "login"}, OpenLocalFile(i, from)
  PROVE  StepIsSound(i)
<1>1. /\ UNCHANGED <<File, RemoteStartPos, LocalStartPos, RemoteBytesReceived, Scheme, BytesRead>>
      /\ pc[i] = from /\ pc'[i] = "recv" /\ Status'[i] = "DOWNLOADING"
      /\ ServerPos'[i] = RemoteStartPos[i]
  BY DEF OpenLocalFile, Step, SetStatus, TypeOK, positions, Elsewhere
<1>2. Length'[i] = IF Scheme = "http" /\ RemoteEndPos(i) - RemoteStartPos[i] = 0 THEN 1
                   ELSE RemoteEndPos(i) - RemoteStartPos[i]
  BY DEF OpenLocalFile, TypeOK
<1>n. Numbers(i)
  BY TheyAreNumbers
<1>3. Numbers(i) /\ PositionsAgree(i) /\ ReachIsWritten(i) /\ Reach(i) = LocalStartPos[i]
  BY <1>1, <1>n, ReachIsThePosition DEF Sound, ThreadKeeps, Numbers
<1>4. RemoteStartPos[i] = LocalStartPos[i]
  BY <1>1, <1>3 DEF PositionsAgree, Numbers
<1>5. Reach(i)' = LocalStartPos[i] /\ Limit(i)' = Limit(i)
  BY <1>1, <1>n, ReachIsThePosition, LimitsAreFixed DEF Numbers
<1>6. PositionsAgree(i)' /\ ReachIsWritten(i)'
  BY <1>1, <1>3, <1>5 DEF PositionsAgree, ReachIsWritten, BlockIsWritten, Numbers
<1>7. Receiving(i)'
  BY <1>1, <1>2, <1>3, <1>4, <1>5 DEF Receiving, Numbers
<1> QED
  BY <1>1, <1>6, <1>7, SameFileGrows DEF StepIsSound, ThreadKeeps, Sound

(***************************************************************************)
(* What is received is what belongs where it is written, and ends in the    *)
(* file and one byte behind the block at most.                              *)
(***************************************************************************)
LEMMA WritesInPlace ==
  ASSUME TypeOK, Sound, ServerReply = "range", NEW i \in Threads, RecvData(i)
  PROVE  \E n \in Nat \ {0} :
           /\ LocalStartPos[i] \in Nat /\ ServerPos[i] = LocalStartPos[i]
           /\ LocalStartPos[i] + n <= FileSize /\ LocalStartPos[i] + n <= Limit(i)
           /\ Scheme = "ftp" => n <= Length[i]
           /\ File' = Written(File, FileSize, LocalStartPos[i], ServerPos[i], n)
           /\ BytesRead' = [BytesRead EXCEPT ![i] = n]
           /\ Length' = [Length EXCEPT ![i] = @ - n]
           /\ ServerPos' = [ServerPos EXCEPT ![i] = @ + n]
<1>1. /\ UNCHANGED <<Status, RemoteStartPos, LocalStartPos, RemoteBytesReceived, Scheme>>
      /\ pc[i] = "recv" /\ pc'[i] = "remote"
  BY DEF RecvData, Step, TypeOK, positions, Elsewhere
<1>2. PICK n \in 1 .. Wanted(i) :
        /\ ServerPos[i] + n <= ServerEnd(i)
        /\ File' = Written(File, FileSize, LocalStartPos[i], ServerPos[i], n)
        /\ BytesRead' = [BytesRead EXCEPT ![i] = n]
        /\ Length' = [Length EXCEPT ![i] = @ - n]
        /\ ServerPos' = [ServerPos EXCEPT ![i] = @ + n]
  BY DEF RecvData
<1>n. Numbers(i)
  BY TheyAreNumbers
<1>4. /\ Numbers(i) /\ PositionsAgree(i) /\ ReachIsWritten(i) /\ Receiving(i)
      /\ Reach(i) = LocalStartPos[i]
  BY <1>1, <1>n, ReachIsThePosition DEF Sound, ThreadKeeps, Numbers
<1>5. n \in Nat /\ n >= 1 /\ (Scheme = "ftp" => n <= Length[i])
  BY <1>4, BufSizeAssumption DEF Wanted, Numbers
<1>6. /\ ServerPos[i] = LocalStartPos[i] /\ RemoteEndPos(i) - LocalStartPos[i] <= Length[i]
      /\ Scheme = "ftp" => Length[i] = RemoteEndPos(i) - LocalStartPos[i]
  BY <1>1, <1>4 DEF Receiving
<1>8. LocalStartPos[i] + n <= FileSize /\ LocalStartPos[i] + n <= Limit(i)
  <2>1. Scheme \in {"http", "ftp"}
    BY SchemesAssumption DEF TypeOK
  <2>2. LocalStartPos[i] + n <= FileSize
    BY <1>2, <1>4, <1>5, <1>6, Blocks DEF ServerEnd, Numbers
  <2>3. CASE Scheme = "ftp"
    <3>1. Limit(i) = RemoteEndPos(i)
      BY <2>3, LimitsAreFixed
    <3> QED
      BY <1>4, <1>5, <1>6, <2>2, <2>3, <3>1 DEF Numbers
  <2>4. CASE Scheme = "http"
    <3>1. ServerEnd(i) <= RemoteEndPos(i) + 1
      BY <1>4, <2>4 DEF ServerEnd, Numbers
    <3>2. ServerEnd(i) \in Nat
      BY <1>4 DEF ServerEnd, Numbers
    <3> QED
      BY <1>2, <1>4, <1>5, <1>6, <2>2, <2>4, <3>1, <3>2, LimitsAreFixed DEF Numbers
  <2> QED
    BY <2>1, <2>2, <2>3, <2>4
<1>9. LocalStartPos[i] \in Nat
  <2>1. FirstPos(i) \in Nat /\ LocalStartPos[i] \in Int
    BY <1>4, Blocks DEF Numbers
  <2> QED
    BY <1>4, <2>1 DEF PositionsAgree
<1>10. n \in Nat \ {0} /\ ServerPos[i] = LocalStartPos[i]
  BY <1>5, <1>6
<1> QED
  BY <1>2, <1>5, <1>8, <1>9, <1>10, Zenon

\* What was received is in place, and the pthread has more to receive or is at its end.
LEMMA ReceivingIsSound ==
  ASSUME TypeOK, Sound, ServerReply = "range", NEW i \in Threads, RecvData(i)
  PROVE  StepIsSound(i)
<1>1. /\ UNCHANGED <<Status, RemoteStartPos, LocalStartPos, RemoteBytesReceived, Scheme>>
      /\ pc[i] = "recv" /\ pc'[i] = "remote"
  BY DEF RecvData, Step, TypeOK, positions, Elsewhere
<1>2. PICK n \in Nat \ {0} :
        /\ LocalStartPos[i] \in Nat /\ ServerPos[i] = LocalStartPos[i]
        /\ LocalStartPos[i] + n <= FileSize /\ LocalStartPos[i] + n <= Limit(i)
        /\ Scheme = "ftp" => n <= Length[i]
        /\ File' = Written(File, FileSize, LocalStartPos[i], ServerPos[i], n)
        /\ BytesRead' = [BytesRead EXCEPT ![i] = n]
        /\ Length' = [Length EXCEPT ![i] = @ - n]
        /\ ServerPos' = [ServerPos EXCEPT ![i] = @ + n]
  BY WritesInPlace
<1>3. BytesRead'[i] = n /\ Length'[i] = Length[i] - n /\ ServerPos'[i] = ServerPos[i] + n
  BY <1>2 DEF TypeOK
<1>n. Numbers(i)
  BY TheyAreNumbers
<1>4. /\ Numbers(i) /\ PositionsAgree(i) /\ ReachIsWritten(i) /\ Receiving(i)
      /\ Reach(i) = LocalStartPos[i]
  BY <1>1, <1>n, ReachIsThePosition DEF Sound, ThreadKeeps, Numbers
<1>5. n \in Nat /\ n >= 1 /\ (Scheme = "ftp" => n <= Length[i])
  BY <1>2
<1>6. /\ ServerPos[i] = LocalStartPos[i] /\ RemoteEndPos(i) - LocalStartPos[i] <= Length[i]
      /\ Scheme = "ftp" => Length[i] = RemoteEndPos(i) - LocalStartPos[i]
  BY <1>1, <1>4 DEF Receiving
<1>7. Reach(i)' = LocalStartPos[i] + n /\ Limit(i)' = Limit(i)
  BY <1>1, <1>3 DEF Reach, Limit
<1>8. LocalStartPos[i] + n <= FileSize /\ LocalStartPos[i] + n <= Limit(i)
  BY <1>2
<1>9. File \in [Cells(FileSize) -> Int]
  BY DEF TypeOK
<1>10. /\ File'[FileSize] = File[FileSize]
       /\ \A lo, hi \in Int : Holds(File, FileSize, lo, hi) => Holds(File', FileSize, lo, hi)
       /\ \A lo \in Int : Holds(File, FileSize, lo, LocalStartPos[i])
                            => Holds(File', FileSize, lo, LocalStartPos[i] + n)
  <2>1. File' = Written(File, FileSize, LocalStartPos[i], LocalStartPos[i], n)
    BY <1>2, <1>6
  <2>2. LocalStartPos[i] \in Int
    BY <1>4 DEF Numbers
  <2> QED
    BY <1>5, <1>8, <1>9, <2>1, <2>2, WritingInPlace, FileSizeAssumption
<1>11. FileGrows
  BY <1>10 DEF FileGrows, BlockIsWritten
<1>12. PositionsAgree(i)'
  BY <1>1, <1>4 DEF PositionsAgree, Numbers
<1>13. ReachIsWritten(i)'
  <2>1. Holds(File', FileSize, FirstPos(i), LocalStartPos[i] + n)
    BY <1>4, <1>10 DEF ReachIsWritten, BlockIsWritten, Numbers
  <2> QED
    BY <1>7, <1>8, <2>1 DEF ReachIsWritten, BlockIsWritten
<1>14. Receiving(i)'
  BY <1>1, <1>3, <1>4, <1>5, <1>6, <1>7 DEF Receiving, Numbers
<1>15. Status'[i] = "ALLDONE" => BlockIsWritten(FirstPos(i), RemoteEndPos(i))'
  BY <1>1, <1>4, <1>11 DEF Sound, FileGrows, Numbers
<1> QED
  BY <1>1, <1>11, <1>12, <1>13, <1>14, <1>15 DEF StepIsSound, ThreadKeeps, Sound

(***************************************************************************)
(* The three assignments that follow a write.                               *)
(***************************************************************************)
LEMMA AddingRemoteIsSound ==
  ASSUME TypeOK, Sound, NEW i \in Threads, AddRemoteStartPos(i)
  PROVE  StepIsSound(i)
<1>1. /\ UNCHANGED <<File, Status, LocalStartPos, RemoteBytesReceived, Scheme, Length, BytesRead, ServerPos>>
      /\ pc[i] = "remote" /\ pc'[i] = "local"
      /\ RemoteStartPos'[i] = RemoteStartPos[i] + BytesRead[i]
  BY DEF AddRemoteStartPos, Step, TypeOK, locals, Elsewhere
<1>2. Numbers(i)
  BY TheyAreNumbers
<1>3. PositionsAgree(i) /\ ReachIsWritten(i) /\ Receiving(i)
  BY <1>1 DEF Sound, ThreadKeeps
<1>4. Reach(i)' = Reach(i) /\ Limit(i)' = Limit(i)
  BY <1>1 DEF Reach, Limit
<1>5. PositionsAgree(i)'
  BY <1>1, <1>2, <1>3 DEF PositionsAgree, Numbers
<1>6. ReachIsWritten(i)' /\ Receiving(i)'
  BY <1>1, <1>3, <1>4 DEF ReachIsWritten, BlockIsWritten, Receiving
<1>7. FileGrows
  BY <1>1, SameFileGrows
<1> QED
  BY <1>1, <1>5, <1>6, <1>7 DEF StepIsSound, ThreadKeeps, Sound, BlockIsWritten

LEMMA AddingLocalIsSound ==
  ASSUME TypeOK, Sound, NEW i \in Threads, AddLocalStartPos(i)
  PROVE  StepIsSound(i)
<1>1. /\ UNCHANGED <<File, Status, RemoteStartPos, RemoteBytesReceived, Scheme, Length, BytesRead, ServerPos>>
      /\ pc[i] = "local" /\ pc'[i] = "count"
      /\ LocalStartPos'[i] = LocalStartPos[i] + BytesRead[i]
  BY DEF AddLocalStartPos, Step, TypeOK, locals, Elsewhere
<1>2. Numbers(i)
  BY TheyAreNumbers
<1>3. PositionsAgree(i) /\ ReachIsWritten(i) /\ Receiving(i)
  BY <1>1 DEF Sound, ThreadKeeps
<1>4. Reach(i) = LocalStartPos[i] + BytesRead[i] /\ Limit(i)' = Limit(i)
  BY <1>1 DEF Reach, Limit
<1>5. Reach(i)' = Reach(i) /\ LocalStartPos'[i] = Reach(i)
  BY <1>1, <1>2, <1>4, ReachIsThePosition DEF Numbers
<1>6. PositionsAgree(i)'
  BY <1>1, <1>2, <1>3 DEF PositionsAgree, Numbers
<1>7. ReachIsWritten(i)' /\ Receiving(i)'
  BY <1>1, <1>3, <1>4, <1>5 DEF ReachIsWritten, BlockIsWritten, Receiving
<1>8. LocalStartPos'[i] <= Limit(i) /\ LocalStartPos'[i] <= FileSize
  BY <1>3, <1>5 DEF ReachIsWritten
<1>9. FileGrows
  BY <1>1, SameFileGrows
<1> QED
  BY <1>1, <1>6, <1>7, <1>8, <1>9 DEF StepIsSound, ThreadKeeps, Sound, BlockIsWritten

LEMMA AddingReceivedIsSound ==
  ASSUME TypeOK, Sound, NEW i \in Threads, AddRemoteBytesReceived(i)
  PROVE  StepIsSound(i)
<1>1. /\ UNCHANGED <<File, Status, RemoteStartPos, LocalStartPos, Scheme, Length, ServerPos>>
      /\ pc[i] = "count" /\ pc'[i] = "recv"
      /\ RemoteBytesReceived'[i] = RemoteBytesReceived[i] + BytesRead[i]
  BY DEF AddRemoteBytesReceived, Step, TypeOK, Elsewhere
<1>2. Numbers(i)
  BY TheyAreNumbers
<1>3. PositionsAgree(i) /\ ReachIsWritten(i) /\ Receiving(i)
  BY <1>1 DEF Sound, ThreadKeeps
<1>4. Reach(i) = LocalStartPos[i] /\ Reach(i)' = LocalStartPos[i] /\ Limit(i)' = Limit(i)
  BY <1>1, <1>2, ReachIsThePosition, LimitsAreFixed DEF Numbers
<1>5. PositionsAgree(i)'
  BY <1>1, <1>2, <1>3 DEF PositionsAgree, Numbers
<1>6. ReachIsWritten(i)' /\ Receiving(i)'
  BY <1>1, <1>3, <1>4 DEF ReachIsWritten, BlockIsWritten, Receiving
<1>7. FileGrows
  BY <1>1, SameFileGrows
<1> QED
  BY <1>1, <1>5, <1>6, <1>7 DEF StepIsSound, ThreadKeeps, Sound, BlockIsWritten

(***************************************************************************)
(* Nothing is left to receive: the block is in the file.                    *)
(***************************************************************************)
LEMMA FinishingIsSound ==
  ASSUME TypeOK, Sound, NEW i \in Threads, FinishBlock(i)
  PROVE  StepIsSound(i)
<1>1. /\ UNCHANGED <<File, RemoteStartPos, LocalStartPos, RemoteBytesReceived, Scheme>>
      /\ pc[i] = "recv" /\ pc'[i] = "ended" /\ Length[i] <= 0
  BY DEF FinishBlock, Step, TypeOK, positions, Elsewhere
<1>2. Numbers(i)
  BY TheyAreNumbers
<1>3. PositionsAgree(i) /\ ReachIsWritten(i) /\ Receiving(i)
  BY <1>1 DEF Sound, ThreadKeeps
<1>4. Reach(i) = LocalStartPos[i] /\ Reach(i)' = LocalStartPos[i] /\ Limit(i)' = Limit(i)
  BY <1>1, <1>2, ReachIsThePosition, LimitsAreFixed DEF Numbers
<1>5. RemoteEndPos(i) <= LocalStartPos[i]
  BY <1>1, <1>2, <1>3, <1>4 DEF Receiving, Numbers
<1>6. BlockIsWritten(FirstPos(i), RemoteEndPos(i))
  BY <1>2, <1>3, <1>4, <1>5, LessIsHeld, FileSizeAssumption DEF ReachIsWritten, BlockIsWritten, Numbers
<1>7. PositionsAgree(i)'
  BY <1>1, <1>2, <1>3 DEF PositionsAgree, Numbers
<1>8. ReachIsWritten(i)' /\ Receiving(i)'
  BY <1>1, <1>3, <1>4 DEF ReachIsWritten, BlockIsWritten, Receiving
<1>9. FileGrows
  BY <1>1, SameFileGrows
<1> QED
  BY <1>1, <1>6, <1>7, <1>8, <1>9 DEF StepIsSound, ThreadKeeps, Sound, BlockIsWritten

(***************************************************************************)
(* Every step of a pthread.                                                 *)
(***************************************************************************)
LEMMA ThreadStepIsSound ==
  ASSUME TypeOK, Sound, ServerReply = "range", NEW i \in Threads, run(i)
  PROVE  StepIsSound(i)
<1> USE DEF Step, SetStatus, positions, Elsewhere
<1>1. CASE FindBlockDone(i)
  BY <1>1, FindingDoneIsSound
<1>2. CASE BeginConnect(i)
  BY <1>2, StandingStillIsSound DEF BeginConnect, TypeOK
<1>3. CASE ConnectHttp(i)
  BY <1>3, FailingIsSound, OpeningIsSound DEF ConnectHttp
<1>4. CASE ConnectFtp(i)
  <2>1. CASE Fail(i, "connecting", "REMOTEFATAL")
    BY <2>1, FailingIsSound
  <2>2. CASE ~Fail(i, "connecting", "REMOTEFATAL")
    BY <1>4, <2>2, StandingStillIsSound DEF ConnectFtp, TypeOK
  <2> QED
    BY <2>1, <2>2
<1>5. CASE LoginFtp(i)
  BY <1>5, FailingIsSound, OpeningIsSound DEF LoginFtp
<1>6. CASE RecvData(i)
  BY <1>6, ReceivingIsSound
<1>7. CASE RecvFails(i)
  BY <1>7, FailingIsSound DEF RecvFails
<1>8. CASE AddRemoteStartPos(i) \/ AddLocalStartPos(i) \/ AddRemoteBytesReceived(i) \/ FinishBlock(i)
  BY <1>8, AddingRemoteIsSound, AddingLocalIsSound, AddingReceivedIsSound, FinishingIsSound
<1>9. CASE Retry(i)
  BY <1>9, StandingStillIsSound DEF Retry, TypeOK
<1>10. CASE GiveUp(i)
  BY <1>10, StandingStillIsSound DEF GiveUp, TypeOK
<1> QED
  BY <1>1, <1>2, <1>3, <1>4, <1>5, <1>6, <1>7, <1>8, <1>9, <1>10 DEF run

-----------------------------------------------------------------------------
(* The task as a whole *)

LEMMA RecordsAreNumbers ==
  ASSUME NEW rec \in LogRecord
  PROVE  /\ rec.RemoteStartPos \in Int /\ rec.RemoteBytesReceived \in Int
         /\ rec.LocalStartPos \in Int
BY DEF LogRecord

\* What a record promises is kept while the file grows.
LEMMA RecordsKeepHolding ==
  ASSUME FileGrows, UNCHANGED Scheme, NEW i \in Threads, NEW rec \in LogRecord, RecordHolds(rec, i)
  PROVE  RecordHolds(rec, i)'
<1>1. FirstPos(i) \in Int
  BY Blocks
<1>2. Limit(i)' = Limit(i)
  BY LimitsAreFixed
<1>3. BlockIsWritten(FirstPos(i), rec.RemoteStartPos)' /\ BlockIsWritten(FirstPos(i), rec.LocalStartPos)'
  BY <1>1, RecordsAreNumbers DEF FileGrows, RecordHolds
<1> QED
  BY <1>2, <1>3 DEF RecordHolds

LEMMA ThreadStepKeepsSound ==
  ASSUME TypeOK, CrewIsThere, Sound, ServerReply = "range", NEW i \in Threads, run(i)
  PROVE  Sound'
<1>1. UNCHANGED <<Scheme, TaskStatus, Log, gui, current, tdrec, tornRecord>>
  BY ThreadStepIsNotElsewhere
<1>2. StepIsSound(i)
  BY ThreadStepIsSound
<1>3. FileGrows
  BY <1>2 DEF StepIsSound
<1>4. ASSUME NEW j \in Threads PROVE ThreadKeeps(j)'
  <2>1. CASE j = i
    BY <1>2, <2>1 DEF StepIsSound
  <2>2. CASE j # i
    <3>1. /\ pc'[j] = pc[j] /\ RemoteStartPos'[j] = RemoteStartPos[j]
          /\ LocalStartPos'[j] = LocalStartPos[j]
          /\ RemoteBytesReceived'[j] = RemoteBytesReceived[j]
          /\ Length'[j] = Length[j] /\ BytesRead'[j] = BytesRead[j] /\ ServerPos'[j] = ServerPos[j]
      BY <2>2, ThreadStepMovesOneThread
    <3>2. Reach(j)' = Reach(j) /\ Limit(j)' = Limit(j)
      BY <1>1, <3>1 DEF Reach, Limit
    <3>3. Reach(j) \in Int /\ FirstPos(j) \in Int
      BY TheyAreNumbers DEF Reach, Numbers
    <3>4. ThreadKeeps(j)
      BY DEF Sound
    <3>5. CASE pc[j] # "none"
      <4>1. PositionsAgree(j)' /\ Receiving(j)'
        BY <1>1, <3>1, <3>2, <3>4, <3>5 DEF PositionsAgree, Receiving, ThreadKeeps
      <4>2. ReachIsWritten(j)'
        BY <1>3, <3>2, <3>3, <3>4, <3>5 DEF ReachIsWritten, ThreadKeeps, FileGrows
      <4> QED
        BY <4>1, <4>2 DEF ThreadKeeps
    <3> QED
      BY <3>1, <3>5 DEF ThreadKeeps
  <2> QED
    BY <2>1, <2>2
<1>5. ASSUME NEW j \in Threads PROVE RecordHolds(Log[j], j)'
  <2>1. Log[j] \in LogRecord /\ Log'[j] = Log[j]
    BY <1>1 DEF TypeOK
  <2> QED
    BY <1>1, <1>3, <2>1, RecordsKeepHolding DEF Sound
<1>6. ASSUME NEW j \in Threads
      PROVE  /\ Status'[j] = "ALLDONE" => BlockIsWritten(FirstPos(j), RemoteEndPos(j))'
             /\ LocalStartPos'[j] <= Limit(j)' /\ LocalStartPos'[j] <= FileSize
  <2>1. Limit(j)' = Limit(j)
    BY <1>1, LimitsAreFixed
  <2>2. CASE j = i
    BY <1>2, <2>1, <2>2 DEF StepIsSound
  <2>3. CASE j # i
    <3>1. Status'[j] = Status[j] /\ LocalStartPos'[j] = LocalStartPos[j]
      BY <2>3, ThreadStepMovesOneThread
    <3> QED
      BY <1>3, <2>1, <3>1, Blocks DEF FileGrows, Sound
  <2> QED
    BY <2>2, <2>3
<1>7. RecordGrows'
  <2>1. current \in Threads /\ tdrec \in LogRecord
    BY DEF TypeOK
  <2>2. /\ LocalStartPos[current] \in Int /\ LocalStartPos'[current] \in Int
        /\ FirstPos(current) \in Int
    BY <2>1, TheyAreNumbers, ThreadStepIsTyped, Blocks DEF TypeOK
  <2>3. LocalStartPos[current] <= LocalStartPos'[current]
    BY <2>1, <2>2, PositionsGrow, ThreadStepMovesOneThread
  <2>4. gui \in {"count", "local"} => BlockIsWritten(FirstPos(current), tdrec.RemoteStartPos)'
    <3>1. tdrec.RemoteStartPos \in Int /\ tdrec' = tdrec /\ current' = current
      BY <1>1, <2>1, RecordsAreNumbers
    <3> QED
      BY <1>3, <2>2, <3>1 DEF FileGrows, Sound, RecordGrows
  <2>5. gui = "local" => /\ 0 <= tdrec.RemoteBytesReceived
                         /\ FirstPos(current) + tdrec.RemoteBytesReceived <= LocalStartPos'[current]
    BY <2>1, <2>2, <2>3, RecordsAreNumbers DEF Sound, RecordGrows
  <2> QED
    BY <1>1, <2>4, <2>5 DEF RecordGrows
<1>8. File'[FileSize] = Hole
  BY <1>3 DEF FileGrows, Sound
<1>9. TaskStatus' = "FINISHED" => FileIsIntact'
  <2>1. FileSize \in Int
    BY FileSizeAssumption
  <2> QED
    BY <1>1, <1>3, <1>8, <2>1 DEF FileGrows, Sound, FileIsIntact, IsIntact, BlockIsWritten
<1> QED
  BY <1>4, <1>5, <1>6, <1>7, <1>8, <1>9 DEF Sound

\* A step of the GUI thread that leaves the pthreads and the log as they are.
LEMMA LookingOnKeepsSound ==
  ASSUME Sound, UNCHANGED <<Workers, Log>>, RecordGrows', TaskStatus' = "FINISHED" => FileIsIntact
  PROVE  Sound'
<1> USE DEF Workers, positions, locals
<1>1. \A i \in Threads : ThreadKeeps(i)'
  BY DEF Sound, ThreadKeeps, PositionsAgree, ReachIsWritten, Receiving, Reach, Limit, BlockIsWritten
<1>2. \A i \in Threads : RecordHolds(Log[i], i)'
  BY DEF Sound, RecordHolds, Limit, BlockIsWritten
<1>3. \A i \in Threads : /\ Status'[i] = "ALLDONE" => BlockIsWritten(FirstPos(i), RemoteEndPos(i))'
                         /\ LocalStartPos'[i] <= Limit(i)' /\ LocalStartPos'[i] <= FileSize
  BY DEF Sound, Limit, BlockIsWritten
<1>4. TaskStatus' = "FINISHED" => FileIsIntact'
  BY DEF FileIsIntact
<1> QED
  BY <1>1, <1>2, <1>3, <1>4 DEF Sound

\* Nothing the thread has recorded is behind what it has written.
LEMMA PositionsAreWritten ==
  ASSUME TypeOK, Sound, NEW i \in Threads, pc[i] # "none"
  PROVE  /\ BlockIsWritten(FirstPos(i), RemoteStartPos[i])
         /\ BlockIsWritten(FirstPos(i), LocalStartPos[i])
         /\ 0 <= RemoteBytesReceived[i]
         /\ FirstPos(i) + RemoteBytesReceived[i] <= LocalStartPos[i]
         /\ FirstPos(i) <= LocalStartPos[i]
<1>1. Numbers(i)
  BY TheyAreNumbers
<1>2. PositionsAgree(i) /\ ReachIsWritten(i)
  BY DEF Sound, ThreadKeeps
<1>3. Reach(i) \in Int /\ LocalStartPos[i] <= Reach(i)
  BY <1>1 DEF Reach, Numbers
<1>4. RemoteStartPos[i] <= Reach(i)
  BY <1>1, <1>2 DEF Reach, PositionsAgree, Numbers
<1>5. BlockIsWritten(FirstPos(i), RemoteStartPos[i]) /\ BlockIsWritten(FirstPos(i), LocalStartPos[i])
  BY <1>1, <1>2, <1>3, <1>4, LessIsHeld, FileSizeAssumption DEF ReachIsWritten, BlockIsWritten, Numbers
<1> QED
  BY <1>1, <1>2, <1>5 DEF PositionsAgree, Numbers

(***************************************************************************)
(* The blocks of all threads are the file.                                  *)
(***************************************************************************)
LEMMA AllBlocksAreTheFile ==
  ASSUME TypeOK, Sound, WithStatus("ALLDONE") = Threads
  PROVE  FileIsIntact
<1>1. ASSUME NEW c \in Cells(FileSize), 0 <= c, c < FileSize PROVE File[c] = c
  <2>1. c \in 0 .. FileSize - 1
    BY <1>1, FileSizeAssumption DEF Cells
  <2>2. PICK i \in Threads : FirstPos(i) <= c /\ c < RemoteEndPos(i)
    BY <2>1, EveryByteHasAThread
  <2>3. BlockIsWritten(FirstPos(i), RemoteEndPos(i))
    BY <2>2 DEF WithStatus, Sound
  <2> QED
    BY <1>1, <2>2, <2>3 DEF BlockIsWritten, Holds
<1> QED
  BY <1>1 DEF FileIsIntact, IsIntact, Holds, Sound

LEMMA JoiningKeepsSound ==
  ASSUME TypeOK, Sound, joinThread
  PROVE  Sound'
<1>1. /\ UNCHANGED <<Scheme, RemoteStartPos, LocalStartPos, RemoteBytesReceived, Length, BytesRead,
                     ServerPos, File, TaskStatus, Log>>
      /\ gui' \notin {"count", "local"} /\ pc[current] = "ended" /\ current \in Threads
  BY DEF joinThread, NextThread, positions, locals, TypeOK
<1>2. \A i \in Threads : i # current => pc'[i] = pc[i] /\ Status'[i] = Status[i]
  BY DEF joinThread, SetStatus, TypeOK
<1>3. pc'[current] \in {"top", "ended"} /\ Status'[current] = "IDLE"
  BY <1>1 DEF joinThread, SetStatus, TypeOK
<1>4. ASSUME NEW i \in Threads PROVE ThreadKeeps(i)'
  <2>1. ThreadKeeps(i)
    BY DEF Sound
  <2>2. CASE i # current
    BY <1>1, <1>2, <2>1, <2>2 DEF ThreadKeeps, PositionsAgree, ReachIsWritten, Receiving, Reach, Limit,
       BlockIsWritten
  <2>3. CASE i = current
    <3>1. PositionsAgree(i) /\ ReachIsWritten(i) /\ Numbers(i)
      BY <1>1, <2>1, <2>3, TheyAreNumbers DEF ThreadKeeps
    <3>2. Reach(i) = LocalStartPos[i] /\ Reach(i)' = LocalStartPos[i] /\ Limit(i)' = Limit(i)
      BY <1>1, <1>3, <2>3, <3>1, ReachIsThePosition, LimitsAreFixed DEF Numbers
    <3>3. PositionsAgree(i)'
      BY <1>1, <1>3, <2>3, <3>1 DEF PositionsAgree
    <3>4. ReachIsWritten(i)'
      BY <1>1, <3>1, <3>2 DEF ReachIsWritten, BlockIsWritten
    <3> QED
      BY <1>3, <2>3, <3>3, <3>4 DEF ThreadKeeps, Receiving
  <2> QED
    BY <2>2, <2>3
<1>5. \A i \in Threads : RecordHolds(Log[i], i)'
  BY <1>1 DEF Sound, RecordHolds, Limit, BlockIsWritten
<1>6. \A i \in Threads : /\ Status'[i] = "ALLDONE" => BlockIsWritten(FirstPos(i), RemoteEndPos(i))'
                         /\ LocalStartPos'[i] <= Limit(i)' /\ LocalStartPos'[i] <= FileSize
  BY <1>1, <1>2, <1>3 DEF Sound, Limit, BlockIsWritten
<1>7. RecordGrows'
  BY <1>1 DEF RecordGrows
<1> QED
  BY <1>1, <1>4, <1>5, <1>6, <1>7 DEF Sound, FileIsIntact

(***************************************************************************)
(* A record is read while its thread goes on, and yet promises nothing the  *)
(* file does not hold.                                                      *)
(***************************************************************************)
LEMMA WritingKeepsSound ==
  ASSUME TypeOK, CrewIsThere, Sound, WriteRecord
  PROVE  Sound'
<1>1. /\ UNCHANGED <<Workers, TaskStatus>> /\ gui = "local" /\ gui' \notin {"count", "local"}
      /\ current \in Threads /\ pc[current] # "none" /\ tdrec \in LogRecord
  BY DEF WriteRecord, NextThread, CrewIsThere, TypeOK
<1>2. \A i \in Threads : i # current => Log'[i] = Log[i]
  BY DEF WriteRecord, TypeOK
<1>3. Log'[current] = [tdrec EXCEPT !.LocalStartPos = LocalStartPos[current]]
  BY <1>1 DEF WriteRecord, TypeOK
<1>4. Log'[current].RemoteStartPos = tdrec.RemoteStartPos
  BY <1>1, <1>3 DEF LogRecord
<1>5. Log'[current].RemoteBytesReceived = tdrec.RemoteBytesReceived
  BY <1>1, <1>3 DEF LogRecord
<1>6. Log'[current].LocalStartPos = LocalStartPos[current]
  BY <1>1, <1>3 DEF LogRecord
<1>7. /\ BlockIsWritten(FirstPos(current), LocalStartPos[current])
      /\ FirstPos(current) <= LocalStartPos[current]
  BY <1>1, PositionsAreWritten
<1>8. /\ LocalStartPos[current] <= Limit(current) /\ LocalStartPos[current] <= FileSize
      /\ BlockIsWritten(FirstPos(current), tdrec.RemoteStartPos)
      /\ 0 <= tdrec.RemoteBytesReceived
      /\ FirstPos(current) + tdrec.RemoteBytesReceived <= LocalStartPos[current]
  BY <1>1 DEF Sound, RecordGrows
<1>9. UNCHANGED <<File, Scheme>>
  BY <1>1 DEF Workers
<1>10. RecordHolds(Log'[current], current)
  BY <1>4, <1>5, <1>6, <1>7, <1>8 DEF RecordHolds
<1>11. ASSUME NEW i \in Threads PROVE RecordHolds(Log[i], i)'
  <2>1. RecordHolds(Log'[i], i)
    BY <1>2, <1>10 DEF Sound
  <2> QED
    BY <1>9, <2>1 DEF RecordHolds, Limit, BlockIsWritten
<1>12. \A i \in Threads : ThreadKeeps(i)'
  BY <1>1 DEF Sound, ThreadKeeps, PositionsAgree, ReachIsWritten, Receiving, Reach, Limit, BlockIsWritten,
     Workers, positions, locals
<1>13. \A i \in Threads : /\ Status'[i] = "ALLDONE" => BlockIsWritten(FirstPos(i), RemoteEndPos(i))'
                          /\ LocalStartPos'[i] <= Limit(i)' /\ LocalStartPos'[i] <= FileSize
  BY <1>1 DEF Sound, Limit, BlockIsWritten, Workers, positions
<1>14. RecordGrows'
  BY <1>1 DEF RecordGrows
<1> QED
  BY <1>1, <1>9, <1>11, <1>12, <1>13, <1>14 DEF Sound, FileIsIntact

\* Terminated pthreads keep nothing.
LEMMA StoppingKeepsSound ==
  ASSUME TypeOK, Sound, ProcessStopedTask
  PROVE  Sound'
<1>1. /\ UNCHANGED <<Scheme, Status, LocalStartPos, File, Log>>
      /\ gui' = "loop" /\ TaskStatus' # "FINISHED" /\ \A i \in Threads : pc'[i] = "none"
  BY DEF ProcessStopedTask, positions, guiVars
<1>2. \A i \in Threads : ThreadKeeps(i)'
  BY <1>1 DEF ThreadKeeps
<1>3. \A i \in Threads : RecordHolds(Log[i], i)'
  BY <1>1 DEF Sound, RecordHolds, Limit, BlockIsWritten
<1>4. \A i \in Threads : /\ Status'[i] = "ALLDONE" => BlockIsWritten(FirstPos(i), RemoteEndPos(i))'
                         /\ LocalStartPos'[i] <= Limit(i)' /\ LocalStartPos'[i] <= FileSize
  BY <1>1 DEF Sound, Limit, BlockIsWritten
<1> QED
  BY <1>1, <1>2, <1>3, <1>4 DEF Sound, RecordGrows

(***************************************************************************)
(* The threads that a record resumes are as sound as it is, when its        *)
(* positions are of one moment.                                             *)
(***************************************************************************)
LEMMA ResumingKeepsSound ==
  ASSUME TypeOK, Sound, ProcessResumeTask, ~tornRecord'
  PROVE  Sound'
<1>1. /\ UNCHANGED <<Scheme, File, Log>>
      /\ gui' = "loop" /\ TaskStatus' = "RUNNING"
  BY DEF ProcessResumeTask, guiVars
<1>2. ASSUME NEW i \in Threads
      PROVE  /\ RemoteStartPos'[i] = Log[i].RemoteStartPos /\ LocalStartPos'[i] = Log[i].LocalStartPos
             /\ RemoteBytesReceived'[i] = Log[i].RemoteBytesReceived
             /\ pc'[i] = "top"
             /\ Status'[i] = "ALLDONE" => RemoteEndPos(i) = Log[i].RemoteStartPos
             /\ Log[i].RemoteStartPos = Log[i].LocalStartPos
             /\ RecordHolds(Log[i], i)
             /\ Log[i] \in LogRecord
             /\ Limit(i)' = Limit(i)
  <2>1. /\ RemoteStartPos'[i] = Log[i].RemoteStartPos /\ LocalStartPos'[i] = Log[i].LocalStartPos
        /\ RemoteBytesReceived'[i] = Log[i].RemoteBytesReceived
        /\ pc'[i] = "top"
    BY DEF ProcessResumeTask
  <2>2. Status'[i] = "ALLDONE" => RemoteEndPos(i) = Log[i].RemoteStartPos
    BY DEF ProcessResumeTask
  <2>3. Log[i].RemoteStartPos = Log[i].LocalStartPos
    BY DEF ProcessResumeTask, Torn
  <2> QED
    BY <1>1, <2>1, <2>2, <2>3, LimitsAreFixed DEF Sound, TypeOK
<1>3. ASSUME NEW i \in Threads PROVE ThreadKeeps(i)'
  <2>1. /\ Log[i].RemoteStartPos \in Int /\ Log[i].LocalStartPos \in Int
        /\ Log[i].RemoteBytesReceived \in Int /\ FirstPos(i) \in Int
    BY <1>2, RecordsAreNumbers, Blocks
  <2>2. Reach(i)' = Log[i].LocalStartPos
    BY <1>2, <2>1, ReachIsThePosition
  <2>3. PositionsAgree(i)'
    BY <1>2, <2>1 DEF PositionsAgree, RecordHolds
  <2>4. ReachIsWritten(i)'
    BY <1>1, <1>2, <2>2 DEF ReachIsWritten, RecordHolds, BlockIsWritten
  <2> QED
    BY <1>2, <2>3, <2>4 DEF ThreadKeeps, Receiving
<1>4. \A i \in Threads : RecordHolds(Log[i], i)'
  BY <1>1 DEF Sound, RecordHolds, Limit, BlockIsWritten
<1>5. ASSUME NEW i \in Threads
      PROVE  /\ Status'[i] = "ALLDONE" => BlockIsWritten(FirstPos(i), RemoteEndPos(i))'
             /\ LocalStartPos'[i] <= Limit(i)' /\ LocalStartPos'[i] <= FileSize
  BY <1>1, <1>2 DEF RecordHolds, BlockIsWritten
<1> QED
  BY <1>1, <1>3, <1>4, <1>5 DEF Sound, RecordGrows

LEMMA GuiStepKeepsSound ==
  ASSUME TypeOK, CrewIsThere, Sound, GuiStep \/ threadWaitCond \/ dlStop \/ dlStart, ~tornRecord'
  PROVE  Sound'
<1>1. CASE timerEvent \/ scheduleThread \/ threadWaitCond \/ updateLogFileFails \/ dlStop \/ dlStart
  <2>1. UNCHANGED <<Workers, Log>>
    BY <1>1 DEF timerEvent, scheduleThread, threadWaitCond, updateLogFileFails, dlStop, dlStart
  <2>2. TaskStatus' = "FINISHED" => TaskStatus = "FINISHED"
    BY <1>1 DEF timerEvent, scheduleThread, threadWaitCond, updateLogFileFails, dlStop, dlStart
  <2>3. gui' \notin {"count", "local"}
    BY <1>1 DEF timerEvent, scheduleThread, threadWaitCond, updateLogFileFails, dlStop, dlStart,
       NextThread, guiVars
  <2>4. RecordGrows'
    BY <2>3 DEF RecordGrows
  <2> QED
    BY <2>1, <2>2, <2>4, LookingOnKeepsSound DEF Sound
<1>2. CASE joinThread
  BY <1>2, JoiningKeepsSound
<1>3. CASE ReadRemoteStartPos
  <2>1. /\ UNCHANGED <<Workers, Log, TaskStatus, current>> /\ gui' = "count"
        /\ current \in Threads /\ pc[current] # "none"
    BY <1>3 DEF ReadRemoteStartPos, CrewIsThere, TypeOK
  <2>2. tdrec'.RemoteStartPos = RemoteStartPos[current]
    BY <1>3 DEF ReadRemoteStartPos, TypeOK, LogRecord
  <2>3. BlockIsWritten(FirstPos(current), RemoteStartPos[current])
    BY <2>1, PositionsAreWritten
  <2>4. RecordGrows'
    BY <2>1, <2>2, <2>3 DEF RecordGrows, BlockIsWritten, Workers
  <2> QED
    BY <2>1, <2>4, LookingOnKeepsSound DEF Sound
<1>4. CASE ReadRemoteBytesReceived
  <2>1. /\ UNCHANGED <<Workers, Log, TaskStatus, current>> /\ gui' = "local" /\ gui = "count"
        /\ current \in Threads /\ pc[current] # "none"
    BY <1>4 DEF ReadRemoteBytesReceived, CrewIsThere, TypeOK
  <2>2. tdrec'.RemoteStartPos = tdrec.RemoteStartPos
    BY <1>4 DEF ReadRemoteBytesReceived, TypeOK, LogRecord
  <2>3. tdrec'.RemoteBytesReceived = RemoteBytesReceived[current]
    BY <1>4 DEF ReadRemoteBytesReceived, TypeOK, LogRecord
  <2>4. /\ 0 <= RemoteBytesReceived[current]
        /\ FirstPos(current) + RemoteBytesReceived[current] <= LocalStartPos[current]
    BY <2>1, PositionsAreWritten
  <2>5. BlockIsWritten(FirstPos(current), tdrec.RemoteStartPos)
    BY <2>1 DEF Sound, RecordGrows
  <2>6. RecordGrows'
    BY <2>1, <2>2, <2>3, <2>4, <2>5 DEF RecordGrows, BlockIsWritten, Workers, positions
  <2> QED
    BY <2>1, <2>6, LookingOnKeepsSound DEF Sound
<1>5. CASE WriteRecord
  BY <1>5, WritingKeepsSound
<1>6. CASE CheckCompleted
  <2>1. UNCHANGED <<Workers, Log>> /\ gui' = "loop"
    BY <1>6 DEF CheckCompleted
  <2>2. TaskStatus' = "FINISHED" => TaskStatus = "FINISHED" \/ WithStatus("ALLDONE") = Threads
    BY <1>6 DEF CheckCompleted
  <2>3. RecordGrows'
    BY <2>1 DEF RecordGrows
  <2>4. TaskStatus = "FINISHED" => FileIsIntact
    BY DEF Sound
  <2> QED
    BY <2>1, <2>2, <2>3, <2>4, LookingOnKeepsSound, AllBlocksAreTheFile
<1>7. CASE ProcessStopedTask
  BY <1>7, StoppingKeepsSound
<1>8. CASE ProcessResumeTask
  BY <1>8, ResumingKeepsSound
<1> QED
  BY <1>1, <1>2, <1>3, <1>4, <1>5, <1>6, <1>7, <1>8 DEF GuiStep

-----------------------------------------------------------------------------
(* The inductive invariant *)

LEMMA InitEstablishesIInv == Init => IInv
<1> SUFFICES ASSUME Init PROVE IInv
  OBVIOUS
<1> USE DEF Init
<1>1. \A i \in Threads : FirstPos(i) \in Nat /\ FirstPos(i) <= RemoteEndPos(i) /\ RemoteEndPos(i) <= FileSize
                         /\ RemoteEndPos(i) \in Nat
  BY Blocks
<1>2. \A i \in Threads : Log[i] = Record(FirstPos(i), 0, FirstPos(i)) /\ Log[i] \in LogRecord
  BY <1>1 DEF Record, LogRecord
<1>3. \A i \in Threads : /\ Log[i].RemoteStartPos = FirstPos(i) /\ Log[i].RemoteBytesReceived = 0
                         /\ Log[i].LocalStartPos = FirstPos(i)
  BY DEF Record
<1>4. /\ \A c \in Cells(FileSize) : File[c] = Hole
      /\ FileSize \in Cells(FileSize) /\ File \in [Cells(FileSize) -> Int]
      /\ \A c \in Cells(FileSize) : c \in Int
  BY FileSizeAssumption DEF EmptyFile, Hole, Cells
<1>5. TypeOK
  <2>1. tdrec \in LogRecord
    BY DEF Record, LogRecord
  <2>2. Log \in [Threads -> LogRecord]
    BY <1>2
  <2>3. /\ RemoteStartPos \in [Threads -> Int] /\ LocalStartPos \in [Threads -> Int]
        /\ RemoteBytesReceived \in [Threads -> Int]
        /\ Length \in [Threads -> Int] /\ BytesRead \in [Threads -> 0 .. BufSize]
        /\ ServerPos \in [Threads -> Int]
    BY <1>1, BufSizeAssumption
  <2>4. /\ TryAttempts \in [Threads -> 0 .. MaxTryAttempts] /\ MaxSimConns \in 0 .. ThreadCnt
        /\ createFails \in 0 .. MaxCreateFails /\ stops \in 0 .. MaxStops /\ current \in Threads
    BY Crew, TryAssumption, StopsAssumption
  <2>5. /\ Status \in [Threads -> ThreadStatus] /\ pc \in [Threads -> ThreadPc] /\ gui \in GuiPc
    BY DEF ThreadStatus, ThreadPc, GuiPc
  <2> QED
    BY <1>4, <2>1, <2>2, <2>3, <2>4, <2>5 DEF TypeOK
<1>6. CrewIsThere
  BY DEF CrewIsThere
<1>7. LogIsBehind
  BY <1>1, <1>3 DEF LogIsBehind
<1>8. \A i \in Threads : Reach(i) = FirstPos(i) /\ FirstPos(i) <= Limit(i) /\ FirstPos(i) <= FileSize
  BY <1>1, FileSizeAssumption DEF Reach, Limit
<1>9. \A i \in Threads : BlockIsWritten(FirstPos(i), FirstPos(i))
  BY <1>1, <1>4 DEF BlockIsWritten, Holds
<1>10. \A i \in Threads : ThreadKeeps(i)
  BY <1>1, <1>8, <1>9 DEF ThreadKeeps, PositionsAgree, ReachIsWritten, Receiving
<1>11. \A i \in Threads : RecordHolds(Log[i], i)
  BY <1>1, <1>3, <1>8, <1>9 DEF RecordHolds
<1>12. Sound
  BY <1>4, <1>8, <1>10, <1>11 DEF Sound, RecordGrows
<1> QED
  BY <1>5, <1>6, <1>7, <1>12 DEF IInv, BInv

LEMMA StepKeepsBInv ==
  ASSUME BInv, [Next]_vars
  PROVE  BInv'
<1>1. CASE UNCHANGED vars
  BY <1>1 DEF vars, BInv, TypeOK, CrewIsThere, LogIsBehind, positions, locals, guiVars, mutexVars
<1>2. ASSUME NEW i \in Threads, run(i) PROVE BInv'
  BY <1>2, ThreadStepIsTyped, ThreadStepKeepsTheLogBehind DEF BInv
<1>3. CASE GuiStep \/ threadWaitCond \/ dlStop \/ dlStart
  BY <1>3, GuiStepIsTyped, GuiStepKeepsTheLogBehind DEF BInv
<1> QED
  BY <1>1, <1>2, <1>3 DEF Next

LEMMA StepKeepsIInv ==
  ASSUME ServerReply = "range", IInv, [Next]_vars
  PROVE  IInv'
<1>1. BInv'
  BY StepKeepsBInv DEF IInv
<1>2. ASSUME ~tornRecord' PROVE Sound'
  <2>1. CASE UNCHANGED vars
    BY <1>2, <2>1 DEF vars, IInv, Sound, ThreadKeeps, PositionsAgree, ReachIsWritten, Receiving, RecordHolds,
       RecordGrows, Reach, Limit, BlockIsWritten, FileIsIntact, positions, locals, guiVars, mutexVars
  <2>2. ASSUME NEW i \in Threads, run(i) PROVE Sound'
    <3>1. tornRecord' = tornRecord
      BY <2>2, ThreadStepIsNotElsewhere
    <3> QED
      BY <1>2, <2>2, <3>1, ThreadStepKeepsSound DEF IInv, BInv
  <2>3. CASE GuiStep \/ threadWaitCond \/ dlStop \/ dlStart
    <3>1. tornRecord => tornRecord'
      BY <2>3 DEF GuiStep, timerEvent, scheduleThread, joinThread, updateLogFileFails, ReadRemoteStartPos,
         ReadRemoteBytesReceived, WriteRecord, CheckCompleted, ProcessStopedTask, ProcessResumeTask,
         threadWaitCond, dlStop, dlStart
    <3> QED
      BY <1>2, <2>3, <3>1, GuiStepKeepsSound DEF IInv, BInv
  <2> QED
    BY <2>1, <2>2, <2>3 DEF Next
<1> QED
  BY <1>1, <1>2 DEF IInv

(***************************************************************************)
(* A record that is written is not behind the one it replaces.              *)
(***************************************************************************)
LEMMA CheckpointAdvances ==
  ASSUME BInv, [Next]_vars, NEW i \in Threads
  PROVE  /\ Log'[i].RemoteStartPos >= Log[i].RemoteStartPos
         /\ Log'[i].RemoteBytesReceived >= Log[i].RemoteBytesReceived
         /\ Log'[i].LocalStartPos >= Log[i].LocalStartPos
<1>1. /\ Log[i].RemoteStartPos \in Int /\ Log[i].RemoteBytesReceived \in Int
      /\ Log[i].LocalStartPos \in Int
  BY RecordsAreNumbers DEF BInv, TypeOK
<1>2. CASE Log' = Log
  BY <1>1, <1>2
<1>3. CASE WriteRecord
  <2>1. gui = "local" /\ pc[current] # "none" /\ current \in Threads /\ tdrec \in LogRecord
    BY <1>3 DEF WriteRecord, BInv, CrewIsThere, TypeOK
  <2>2. i # current => Log'[i] = Log[i]
    BY <1>3 DEF WriteRecord, BInv, TypeOK
  <2>3. Log'[current] = [tdrec EXCEPT !.LocalStartPos = LocalStartPos[current]]
    BY <1>3, <2>1 DEF WriteRecord, BInv, TypeOK
  <2>4. Log'[current].RemoteStartPos = tdrec.RemoteStartPos
    BY <2>1, <2>3 DEF LogRecord
  <2>5. Log'[current].RemoteBytesReceived = tdrec.RemoteBytesReceived
    BY <2>1, <2>3 DEF LogRecord
  <2>6. Log'[current].LocalStartPos = LocalStartPos[current]
    BY <2>1, <2>3 DEF LogRecord
  <2>7. /\ tdrec.RemoteStartPos \in Int /\ tdrec.RemoteBytesReceived \in Int
        /\ LocalStartPos[current] \in Int
    BY <2>1, RecordsAreNumbers DEF BInv, TypeOK
  <2>8. /\ Log[current].RemoteStartPos <= tdrec.RemoteStartPos
        /\ Log[current].RemoteBytesReceived <= tdrec.RemoteBytesReceived
        /\ Log[current].LocalStartPos <= LocalStartPos[current]
    BY <2>1 DEF BInv, LogIsBehind
  <2>9. CASE i = current
    BY <1>1, <2>4, <2>5, <2>6, <2>7, <2>8, <2>9
  <2> QED
    BY <1>1, <2>2, <2>9
<1>4. Log' = Log \/ WriteRecord
  <2>1. ASSUME NEW j \in Threads, run(j) PROVE Log' = Log
    BY <2>1, ThreadStepIsNotElsewhere
  <2>2. CASE GuiStep \/ threadWaitCond \/ dlStop \/ dlStart
    BY <2>2 DEF GuiStep, timerEvent, scheduleThread, joinThread, updateLogFileFails, ReadRemoteStartPos,
       ReadRemoteBytesReceived, CheckCompleted, ProcessStopedTask, ProcessResumeTask, threadWaitCond,
       dlStop, dlStart
  <2>3. CASE UNCHANGED vars
    BY <2>3 DEF vars
  <2> QED
    BY <2>1, <2>2, <2>3 DEF Next
<1> QED
  BY <1>2, <1>3, <1>4

-----------------------------------------------------------------------------
(* The theorems *)

(***************************************************************************)
(* No checkpoint takes back what an earlier one recorded, whatever the      *)
(* server sends, and also after a record of two moments was loaded: what    *)
(* updateLogFile reads of a thread, one field at a time, only grows.        *)
(***************************************************************************)
THEOREM CheckpointsNeverRetreat == Spec => CheckpointsAdvance
<1>1. Init => BInv
  BY InitEstablishesIInv DEF IInv
<1>2. BInv /\ [Next]_vars => BInv'
  BY StepKeepsBInv
<1>3. BInv /\ [Next]_vars =>
        [\A i \in Threads :
           /\ Log'[i].RemoteStartPos >= Log[i].RemoteStartPos
           /\ Log'[i].RemoteBytesReceived >= Log[i].RemoteBytesReceived
           /\ Log'[i].LocalStartPos >= Log[i].LocalStartPos]_vars
  BY CheckpointAdvances
<1> QED
  BY <1>1, <1>2, <1>3, PTL DEF Spec, CheckpointsAdvance

(***************************************************************************)
(* From a server that honours ranges, a download that no torn record was    *)
(* loaded into is sound: a finished file is the remote file, a block that   *)
(* is done is written, the log file is never ahead of the file, and no      *)
(* thread leaves its block by more than the byte that an HTTP range asks    *)
(* for too much.                                                            *)
(***************************************************************************)
THEOREM DownloadIsSound ==
  ASSUME ServerReply = "range"
  PROVE  Spec => []DownloadInv
<1>1. Init => IInv
  BY InitEstablishesIInv
<1>2. IInv /\ [Next]_vars => IInv'
  BY StepKeepsIInv
<1>3. IInv => DownloadInv
  <2> SUFFICES ASSUME IInv PROVE DownloadInv
    OBVIOUS
  <2>1. TypeOK
    BY DEF IInv, BInv
  <2>2. FinishedFileIsIntact /\ DoneBlocksAreWritten
    BY DEF IInv, Sound, FinishedFileIsIntact, DoneBlocksAreWritten
  <2>3. LogNeverAheadOfFile
    <3> SUFFICES ASSUME ~tornRecord, NEW i \in Threads
                 PROVE  /\ BlockIsWritten(FirstPos(i), Log[i].RemoteStartPos)
                        /\ BlockIsWritten(FirstPos(i), Log[i].LocalStartPos)
                        /\ BlockIsWritten(FirstPos(i), FirstPos(i) + Log[i].RemoteBytesReceived)
      BY DEF LogNeverAheadOfFile
    <3>1. RecordHolds(Log[i], i)
      BY DEF IInv, Sound
    <3>2. /\ FirstPos(i) \in Int /\ Log[i].LocalStartPos \in Int
          /\ Log[i].RemoteBytesReceived \in Int
      BY <2>1, RecordsAreNumbers, Blocks DEF TypeOK
    <3>3. BlockIsWritten(FirstPos(i), FirstPos(i) + Log[i].RemoteBytesReceived)
      BY <3>1, <3>2, LessIsHeld, FileSizeAssumption DEF RecordHolds, BlockIsWritten
    <3> QED
      BY <3>1, <3>3 DEF RecordHolds
  <2>4. OverrunIsOneByte
    BY DEF IInv, Sound, OverrunIsOneByte, Limit
  <2> QED
    BY <2>1, <2>2, <2>3, <2>4 DEF DownloadInv
<1> QED
  BY <1>1, <1>2, <1>3, PTL DEF Spec

-----------------------------------------------------------------------------
(* The refinement of Delivery *)

\* A pthread that is done receives nothing, and nobody is at work on a finished task.
DoneIsOver ==
  /\ \A i \in Threads : Status[i] = "ALLDONE" => pc[i] \in {"none", "top", "ended"}
  /\ TaskStatus = "FINISHED" => \A i \in Threads : Status[i] = "ALLDONE"

DInv == IInv /\ DoneIsOver

\* A step of a pthread.
LEMMA ThreadStepKeepsDoneIsOver ==
  ASSUME TypeOK, DoneIsOver, NEW i \in Threads, run(i)
  PROVE  DoneIsOver'
<1>1. \A j \in Threads : j # i => Status'[j] = Status[j] /\ pc'[j] = pc[j]
  BY ThreadStepMovesOneThread
<1>2. TaskStatus' = TaskStatus
  BY ThreadStepIsNotElsewhere
<1>3. /\ Status'[i] = "ALLDONE" => pc'[i] \in {"none", "top", "ended"}
      /\ Status[i] = "ALLDONE" => Status'[i] = "ALLDONE"
  BY DEF TypeOK, DoneIsOver, run, FindBlockDone, BeginConnect, ConnectHttp, ConnectFtp, LoginFtp,
     RecvData, RecvFails, AddRemoteStartPos, AddLocalStartPos, AddRemoteBytesReceived, FinishBlock,
     Retry, GiveUp, Fail, OpenLocalFile, Step, SetStatus
<1> QED
  BY <1>1, <1>2, <1>3 DEF DoneIsOver

\* A step of the GUI thread.
LEMMA GuiStepKeepsDoneIsOver ==
  ASSUME TypeOK, CrewIsThere, DoneIsOver, GuiStep \/ threadWaitCond \/ dlStop \/ dlStart
  PROVE  DoneIsOver'
<1>1. CASE \/ timerEvent \/ scheduleThread \/ threadWaitCond \/ updateLogFileFails \/ dlStop \/ dlStart
           \/ ReadRemoteStartPos \/ ReadRemoteBytesReceived \/ WriteRecord
  BY <1>1 DEF DoneIsOver, Workers, timerEvent, scheduleThread, threadWaitCond, updateLogFileFails,
     dlStop, dlStart, ReadRemoteStartPos, ReadRemoteBytesReceived, WriteRecord
<1>2. CASE joinThread
  BY <1>2 DEF DoneIsOver, TypeOK, CrewIsThere, joinThread, SetStatus
<1>3. CASE CheckCompleted
  BY <1>3 DEF DoneIsOver, CheckCompleted, Workers, WithStatus
<1>4. CASE ProcessStopedTask
  BY <1>4 DEF DoneIsOver, ProcessStopedTask
<1>5. CASE ProcessResumeTask
  BY <1>5 DEF DoneIsOver, ProcessResumeTask
<1> QED
  BY <1>1, <1>2, <1>3, <1>4, <1>5 DEF GuiStep

\* The inductive step.
LEMMA StepKeepsDInv ==
  ASSUME ServerReply = "range", DInv, [Next]_vars
  PROVE  DInv'
<1>1. IInv'
  BY StepKeepsIInv DEF DInv
<1>2. TypeOK /\ CrewIsThere /\ DoneIsOver
  BY DEF DInv, IInv, BInv
<1>3. DoneIsOver'
  <2>1. CASE UNCHANGED vars
    BY <1>2, <2>1 DEF vars, DoneIsOver
  <2>2. ASSUME NEW i \in Threads, run(i) PROVE DoneIsOver'
    BY <1>2, <2>2, ThreadStepKeepsDoneIsOver
  <2>3. CASE GuiStep \/ threadWaitCond \/ dlStop \/ dlStart
    BY <1>2, <2>3, GuiStepKeepsDoneIsOver
  <2> QED
    BY <2>1, <2>2, <2>3 DEF Next
<1> QED
  BY <1>1, <1>3 DEF DInv

\* Only RecvData writes.
LEMMA OthersDoNotWrite ==
  ASSUME NEW i \in Threads, run(i), ~RecvData(i)
  PROVE  File' = File
BY DEF run, FindBlockDone, BeginConnect, ConnectHttp, ConnectFtp, LoginFtp, RecvFails, AddRemoteStartPos,
   AddLocalStartPos, AddRemoteBytesReceived, FinishBlock, Retry, GiveUp, Fail, OpenLocalFile

\* While no torn record is loaded, a step of a pthread stores bytes or changes nothing that is seen.
LEMMA ThreadStepDelivers ==
  ASSUME ServerReply = "range", DInv, NEW i \in Threads, run(i)
  PROVE  [Delivered!Next]_Delivered!vars
<1>1. TaskStatus' = TaskStatus /\ tornRecord' = tornRecord /\ Outcome' = Outcome
  BY ThreadStepIsNotElsewhere DEF Outcome
<1>2. CASE tornRecord \/ File' = File
  <2>1. ShownFile' = ShownFile
    BY <1>1, <1>2 DEF ShownFile
  <2> QED
    BY <1>1, <2>1 DEF Delivered!vars
<1>3. CASE ~tornRecord /\ RecvData(i)
  <2>1. TypeOK /\ Sound /\ DoneIsOver
    BY <1>3 DEF DInv, IInv, BInv
  <2>2. PICK n \in Nat \ {0} :
          /\ LocalStartPos[i] \in Nat /\ LocalStartPos[i] + n <= FileSize
          /\ File' = Written(File, FileSize, LocalStartPos[i], LocalStartPos[i], n)
    <3>1. \E n \in Nat \ {0} :
             /\ LocalStartPos[i] \in Nat /\ ServerPos[i] = LocalStartPos[i]
             /\ LocalStartPos[i] + n <= FileSize
             /\ File' = Written(File, FileSize, LocalStartPos[i], ServerPos[i], n)
      BY <1>3, <2>1, WritesInPlace
    <3> QED
      BY <3>1
  <2>3. pc[i] = "recv"
    BY <1>3 DEF RecvData, Step
  <2>4. TaskStatus # "FINISHED"
    BY <2>1, <2>3 DEF DoneIsOver
  <2>5. Outcome = "retrieving" /\ ShownFile = File /\ ShownFile' = File'
    BY <1>1, <1>3, <2>4 DEF Outcome, ShownFile
  <2> DEFINE at == LocalStartPos[i]
  <2>6. at \in 0 .. FileSize - 1 /\ n \in 1 .. FileSize - at
    BY <2>2, FileSizeAssumption
  <2> HIDE DEF at
  <2>7. ShownFile' = Delivered!Written(ShownFile, FileSize, at, at, n)
    BY <2>2, <2>5 DEF Written, Cells, Delivered!Written, Delivered!Cells, at
  <2>8. Delivered!Store
    BY <1>1, <2>5, <2>6, <2>7 DEF Delivered!Store
  <2> QED
    BY <2>8 DEF Delivered!Next
<1> QED
  BY <1>2, <1>3, OthersDoNotWrite

\* What the GUI thread does is success, the loading of a torn record, or not seen.
LEMMA GuiStepDelivers ==
  ASSUME DInv, GuiStep \/ threadWaitCond \/ dlStop \/ dlStart
  PROVE  [Delivered!Next]_Delivered!vars
<1>1. File' = File
  BY DEF GuiStep, threadWaitCond, dlStop, dlStart, Workers, timerEvent, scheduleThread, joinThread,
     updateLogFileFails, ReadRemoteStartPos, ReadRemoteBytesReceived, WriteRecord, CheckCompleted,
     ProcessStopedTask, ProcessResumeTask
<1>2. CASE CheckCompleted
  <2>1. tornRecord' = tornRecord /\ TaskStatus = "RUNNING" /\ ShownFile' = ShownFile
    BY <1>1, <1>2 DEF CheckCompleted, DInv, IInv, BInv, CrewIsThere, ShownFile
  <2>2. CASE ~tornRecord /\ WithStatus("ALLDONE") = Threads
    <3>1. FileIsIntact
      BY <2>2, AllBlocksAreTheFile DEF DInv, IInv, BInv
    <3>2. Outcome = "retrieving" /\ Outcome' = "success" /\ ShownFile = File
      BY <1>2, <2>1, <2>2 DEF CheckCompleted, Outcome, ShownFile
    <3>3. Delivered!IsIntact(ShownFile, FileSize)
      BY <3>1, <3>2 DEF FileIsIntact, IsIntact, Holds, Cells, Hole, Delivered!IsIntact, Delivered!Holds,
         Delivered!Cells, Delivered!Hole
    <3> QED
      BY <2>1, <3>2, <3>3 DEF Delivered!Next, Delivered!Succeed
  <2>3. CASE tornRecord \/ WithStatus("ALLDONE") # Threads
    <3>1. Outcome' = Outcome
      BY <1>2, <2>1, <2>3 DEF CheckCompleted, Outcome
    <3> QED
      BY <2>1, <3>1 DEF Delivered!vars
  <2> QED
    BY <2>2, <2>3
<1>3. CASE ProcessResumeTask
  <2>1. TaskStatus = "RESUME" /\ TaskStatus' = "RUNNING" /\ (tornRecord => tornRecord')
    BY <1>3 DEF ProcessResumeTask
  <2>2. CASE tornRecord' = tornRecord
    <3>1. Outcome' = Outcome /\ ShownFile' = ShownFile
      BY <1>1, <2>1, <2>2 DEF Outcome, ShownFile
    <3> QED
      BY <3>1 DEF Delivered!vars
  <2>3. CASE tornRecord' # tornRecord
    <3>1. tornRecord' /\ ~tornRecord
      BY <1>3, <2>1, <2>3 DEF ProcessResumeTask, DInv, IInv, BInv, TypeOK
    <3>2. Outcome = "retrieving" /\ Outcome' = "unknown" /\ ShownFile' = EmptyFile(FileSize)
      BY <2>1, <3>1 DEF Outcome, ShownFile
    <3> QED
      BY <3>2 DEF Delivered!Next, Delivered!LoseTrack, EmptyFile, Cells, Hole, Delivered!EmptyFile,
         Delivered!Cells, Delivered!Hole
  <2> QED
    BY <2>2, <2>3
<1>4. CASE ~CheckCompleted /\ ~ProcessResumeTask
  <2>1. tornRecord' = tornRecord
    BY <1>4 DEF GuiStep, threadWaitCond, dlStop, dlStart, timerEvent, scheduleThread, joinThread,
       updateLogFileFails, ReadRemoteStartPos, ReadRemoteBytesReceived, WriteRecord, ProcessStopedTask
  <2>2. TaskStatus' = "FINISHED" <=> TaskStatus = "FINISHED"
    BY <1>4 DEF GuiStep, threadWaitCond, dlStop, dlStart, timerEvent, scheduleThread, joinThread,
       updateLogFileFails, ReadRemoteStartPos, ReadRemoteBytesReceived, WriteRecord, ProcessStopedTask
  <2>3. Outcome' = Outcome /\ ShownFile' = ShownFile
    BY <1>1, <2>1, <2>2 DEF Outcome, ShownFile
  <2> QED
    BY <2>3 DEF Delivered!vars
<1> QED
  BY <1>2, <1>3, <1>4

(***************************************************************************)
(* Every step of a download whose server honours ranges stores bytes of the *)
(* remote file in their places, reports the success of a file that is       *)
(* whole, loads a torn record, or changes nothing that is seen; nothing is  *)
(* written after success: retrKnownSizeFile, IsAllCompleted, loadLogFile.   *)
(***************************************************************************)
THEOREM DownloadDelivers ==
  ASSUME ServerReply = "range"
  PROVE  Spec => ImplementsDelivery
<1>1. Init => DInv /\ Delivered!Init
  <2> SUFFICES ASSUME Init PROVE DInv /\ Delivered!Init
    OBVIOUS
  <2>1. DoneIsOver
    BY DEF Init, DoneIsOver
  <2>2. Delivered!Init
    BY DEF Init, Outcome, ShownFile, Delivered!Init, EmptyFile, Cells, Hole, Delivered!EmptyFile,
       Delivered!Cells, Delivered!Hole
  <2> QED
    BY <2>1, <2>2, InitEstablishesIInv DEF DInv
<1>2. DInv /\ [Next]_vars => DInv'
  BY StepKeepsDInv
<1>3. DInv /\ [Next]_vars => [Delivered!Next]_Delivered!vars
  <2> SUFFICES ASSUME DInv, [Next]_vars PROVE [Delivered!Next]_Delivered!vars
    OBVIOUS
  <2>1. CASE UNCHANGED vars
    BY <2>1 DEF vars, Delivered!vars, Outcome, ShownFile
  <2>2. ASSUME NEW i \in Threads, run(i) PROVE [Delivered!Next]_Delivered!vars
    BY <2>2, ThreadStepDelivers
  <2>3. CASE GuiStep \/ threadWaitCond \/ dlStop \/ dlStart
    BY <2>3, GuiStepDelivers
  <2> QED
    BY <2>1, <2>2, <2>3 DEF Next
<1> QED
  BY <1>1, <1>2, <1>3, PTL DEF Spec, ImplementsDelivery, Delivered!Spec
=============================================================================
