------------------------- MODULE UnknownSize_proof --------------------------
(***************************************************************************)
(* Proof that the attempts of a download of unknown size fit together, for  *)
(* every size of the remote file, every size of a buffer, every limit of    *)
(* attempts and every length of the local file.                             *)
(***************************************************************************)
EXTENDS UnknownSize, Blocks_proof
-----------------------------------------------------------------------------
(* The inductive invariant *)

\* The three assignments that follow a recv move the positions together.
PositionsAgree ==
  /\ RemoteStartPos = LocalStartPos + (IF pc = "local" THEN BytesRead ELSE 0)
  /\ LocalStartPos = RemoteBytesReceived + (IF pc = "count" THEN BytesRead ELSE 0)

\* While the file is open over HTTP: where it is written and how far the server is.  The error
\* code takes back a byte that the file holds.
FileIsOpen ==
  /\ ServerPos = FilePos
  /\ Holds(File, RemoteSize, 0, FilePos)
  /\ pc = "recv" => FilePos = RemoteBytesReceived
  /\ pc \in {"remote", "local", "count"} =>
       /\ 0 <= RemoteBytesReceived
       /\ FilePos = RemoteBytesReceived + (IF BytesRead = -1 THEN 0 ELSE BytesRead)
  /\ pc = "last" => /\ BytesRead \in {-1, 0}
                    /\ FilePos = RemoteBytesReceived - BytesRead
  /\ pc # "recv" /\ BytesRead = 0 => RemoteSize <= FilePos

\* Between two attempts.
FileIsClosed ==
  /\ -1 <= RemoteBytesReceived
  /\ Holds(File, RemoteSize, 0, RemoteBytesReceived)

Open == {"recv", "remote", "local", "count", "last"}

HttpKeeps ==
  /\ File[RemoteSize] = Hole
  /\ pc \in Open => FileIsOpen
  /\ pc \notin Open => FileIsClosed
  /\ pc = "connecting" => 0 <= RemoteBytesReceived
  /\ Status = "ALLDONE" => /\ pc = "ended"
                           /\ RemoteBytesReceived # -1 => IsIntact(File, RemoteSize)

\* Before the first stop.
FirstRun ==
  /\ TaskStatus \in {"RUNNING", "FINISHED"}
  /\ pc # "none"
  /\ PositionsAgree
  /\ Scheme = "http" => HttpKeeps

IInv == TypeOK /\ (stops = 0 => FirstRun)
-----------------------------------------------------------------------------
(* Types *)

LEMMA ThreadStepIsTyped ==
  ASSUME TypeOK, run
  PROVE  TypeOK'
<1> USE BufSizeAssumption DEF TypeOK, Step, Elsewhere, positions, locals
<1>1. AttemptsAfter \in 0 .. MaxTryAttempts
  BY TryAssumption DEF AttemptsAfter
<1>2. CASE FindBlockDone \/ BeginConnect
  BY <1>2 DEF FindBlockDone, BeginConnect
<1>3. CASE ConnectFails
  BY <1>3 DEF ConnectFails, Fail
<1>4. CASE OpenLocalFile
  BY <1>4 DEF OpenLocalFile, AskedFrom
<1>5. CASE RecvData
  <2>1. PICK n \in 1 .. BufSize :
          /\ File' = Written(File, RemoteSize, FilePos, ServerPos, n)
          /\ FilePos' = FilePos + n /\ ServerPos' = ServerPos + n /\ BytesRead' = n
    BY <1>5 DEF RecvData
  <2>2. File' \in [Cells(RemoteSize) -> Int]
    BY <2>1, RemoteSizeAssumption, WritingIsTyped
  <2> QED
    BY <1>5, <2>1, <2>2 DEF RecvData
<1>6. CASE WriteFails \/ RecvFailed
  BY <1>6 DEF WriteFails, RecvFailed, Fail
<1>7. CASE RecvLast
  BY <1>7 DEF RecvLast
<1>8. CASE AddRemoteStartPos \/ AddLocalStartPos \/ AddRemoteBytesReceived
  BY <1>8 DEF AddRemoteStartPos, AddLocalStartPos, AddRemoteBytesReceived
<1>9. CASE FinishBlock \/ Retry \/ GiveUp
  BY <1>1, <1>9 DEF FinishBlock, Retry, GiveUp
<1> QED
  BY <1>2, <1>3, <1>4, <1>5, <1>6, <1>7, <1>8, <1>9 DEF run

LEMMA GuiStepIsTyped ==
  ASSUME TypeOK, GuiStep \/ threadWaitCond \/ dlStop \/ dlStart
  PROVE  TypeOK'
<1> USE BufSizeAssumption DEF TypeOK, Thread, positions, locals
<1>1. CASE scheduleThread \/ CheckCompleted \/ threadWaitCond \/ dlStart
  BY <1>1 DEF scheduleThread, CheckCompleted, threadWaitCond, dlStart
<1>2. CASE joinThread
  BY <1>2 DEF joinThread
<1>3. CASE dlStop
  BY <1>3, StopsAssumption DEF dlStop
<1>4. CASE ProcessStopedTask
  BY <1>4 DEF ProcessStopedTask
<1>5. CASE ProcessResumeTask
  BY <1>5, TryAssumption DEF ProcessResumeTask
<1> QED
  BY <1>1, <1>2, <1>3, <1>4, <1>5 DEF GuiStep
-----------------------------------------------------------------------------
(* The steps of the pthread *)

LEMMA PositionsKeepAgreeing ==
  ASSUME TypeOK, PositionsAgree, run
  PROVE  PositionsAgree' /\ pc' # "none" /\ UNCHANGED <<Scheme, TaskStatus, stops>>
<1>0. /\ RemoteStartPos \in Int /\ LocalStartPos \in Int /\ RemoteBytesReceived \in Int
      /\ BytesRead \in Int
  BY DEF TypeOK
<1>1. UNCHANGED <<Scheme, TaskStatus, stops>> /\ pc' # "none"
  BY DEF run, FindBlockDone, BeginConnect, ConnectFails, OpenLocalFile, RecvData, WriteFails, RecvLast,
     AddRemoteStartPos, AddLocalStartPos, AddRemoteBytesReceived, FinishBlock, RecvFailed, Retry, GiveUp,
     Fail, Step, Elsewhere
<1>2. CASE AddRemoteStartPos \/ AddLocalStartPos \/ AddRemoteBytesReceived
  BY <1>0, <1>1, <1>2 DEF AddRemoteStartPos, AddLocalStartPos, AddRemoteBytesReceived, Step, locals,
     PositionsAgree
<1>3. CASE ~(AddRemoteStartPos \/ AddLocalStartPos \/ AddRemoteBytesReceived)
  <2>1. UNCHANGED positions /\ pc \notin {"local", "count"} /\ pc' \notin {"local", "count"}
    BY <1>3 DEF run, FindBlockDone, BeginConnect, ConnectFails, OpenLocalFile, RecvData, WriteFails, RecvLast,
       FinishBlock, RecvFailed, Retry, GiveUp, Fail, Step
  <2> QED
    BY <1>0, <1>1, <2>1 DEF PositionsAgree, positions
<1> QED
  BY <1>2, <1>3

(***************************************************************************)
(* Over HTTP what is fetched belongs where it is written.                    *)
(***************************************************************************)
LEMMA HttpStepKeeps ==
  ASSUME TypeOK, PositionsAgree, Scheme = "http", HttpKeeps, run
  PROVE  HttpKeeps'
<1>0. /\ RemoteStartPos \in Int /\ LocalStartPos \in Int /\ RemoteBytesReceived \in Int
      /\ BytesRead \in Int /\ -1 <= BytesRead /\ FilePos \in Nat /\ ServerPos \in Int
      /\ RemoteSize \in Nat
  BY BufSizeAssumption, RemoteSizeAssumption DEF TypeOK
<1> USE DEF Step, Elsewhere, positions, locals, Open
<1>1. CASE FindBlockDone
  BY <1>1 DEF FindBlockDone, BlkSize, HttpKeeps, FileIsClosed
<1>2. CASE BeginConnect
  <2>1. 0 <= RemoteBytesReceived
    BY <1>0, <1>2 DEF BeginConnect, BlkSize, HttpKeeps, FileIsClosed
  <2> QED
    BY <1>2, <2>1 DEF BeginConnect, HttpKeeps, FileIsClosed
<1>3. CASE ConnectFails
  BY <1>3 DEF ConnectFails, Fail, HttpKeeps, FileIsClosed
<1>4. CASE OpenLocalFile
  <2>1. pc = "connecting" /\ pc' = "recv" /\ UNCHANGED <<File, RemoteBytesReceived>> /\ Status' # "ALLDONE"
    BY <1>4 DEF OpenLocalFile
  <2>2. 0 <= RemoteBytesReceived /\ LocalStartPos = RemoteBytesReceived
        /\ RemoteStartPos = RemoteBytesReceived
    BY <1>0, <2>1 DEF HttpKeeps, PositionsAgree
  <2>3. FilePos' = RemoteBytesReceived /\ ServerPos' = RemoteBytesReceived
    BY <1>0, <1>4, <2>2 DEF OpenLocalFile, AskedFrom
  <2> QED
    BY <2>1, <2>3 DEF HttpKeeps, FileIsClosed, FileIsOpen
<1>5. CASE RecvData
  <2>1. PICK n \in 1 .. BufSize :
          /\ ServerPos + n <= RemoteSize
          /\ File' = Written(File, RemoteSize, FilePos, ServerPos, n)
          /\ FilePos' = FilePos + n /\ ServerPos' = ServerPos + n /\ BytesRead' = n
    BY <1>5 DEF RecvData
  <2>2. /\ pc = "recv" /\ pc' = "remote" /\ UNCHANGED <<RemoteBytesReceived, Status>>
        /\ n \in Nat /\ n >= 1
    BY <1>5, <2>1, BufSizeAssumption DEF RecvData
  <2>3. FileIsOpen /\ Status # "ALLDONE" /\ File[RemoteSize] = Hole
    BY <2>2 DEF HttpKeeps
  <2>4. FilePos = RemoteBytesReceived /\ ServerPos = FilePos
    BY <2>2, <2>3 DEF FileIsOpen
  <2>5. File \in [Cells(RemoteSize) -> Int]
    BY DEF TypeOK
  <2>6. /\ File'[RemoteSize] = File[RemoteSize]
        /\ Holds(File, RemoteSize, 0, FilePos) => Holds(File', RemoteSize, 0, FilePos + n)
    BY <1>0, <2>1, <2>2, <2>4, <2>5, WritingInPlace
  <2>7. Holds(File', RemoteSize, 0, FilePos')
    BY <2>1, <2>3, <2>6 DEF FileIsOpen
  <2>8. FilePos' = RemoteBytesReceived' + BytesRead' /\ BytesRead' >= 1 /\ ServerPos' = FilePos'
        /\ 0 <= RemoteBytesReceived' /\ BytesRead' \in Int
    BY <1>0, <2>1, <2>2, <2>4
  <2>9. FileIsOpen'
    BY <2>2, <2>7, <2>8 DEF FileIsOpen
  <2> QED
    BY <2>2, <2>3, <2>6, <2>9 DEF HttpKeeps
<1>6. CASE WriteFails
  BY <1>0, <1>6 DEF WriteFails, Fail, HttpKeeps, FileIsClosed, FileIsOpen
<1>7. CASE RecvLast
  <2>1. /\ pc = "recv" /\ pc' = "remote"
        /\ UNCHANGED <<File, Status, RemoteBytesReceived, FilePos, ServerPos>>
        /\ BytesRead' \in {-1, 0} /\ (BytesRead' = 0 => RemoteSize <= ServerPos)
    BY <1>0, <1>7 DEF RecvLast
  <2>2. FileIsOpen
    BY <2>1 DEF HttpKeeps
  <2>3. /\ FilePos = RemoteBytesReceived /\ ServerPos = FilePos
        /\ Holds(File, RemoteSize, 0, FilePos)
    BY <2>1, <2>2 DEF FileIsOpen
  <2>4. FilePos' = RemoteBytesReceived' + (IF BytesRead' = -1 THEN 0 ELSE BytesRead')
    <3>1. (IF BytesRead' = -1 THEN 0 ELSE BytesRead') = 0
      BY <2>1
    <3>2. FilePos' = RemoteBytesReceived' + 0
      BY <1>0, <2>1, <2>3
    <3> QED
      BY <3>1, <3>2, Zenon
  <2>5. 0 <= RemoteBytesReceived' /\ (BytesRead' = 0 => RemoteSize <= FilePos') /\ ServerPos' = FilePos'
    BY <1>0, <2>1, <2>3
  <2>6. Holds(File', RemoteSize, 0, FilePos')
    BY <2>1, <2>3
  <2>7. FileIsOpen'
    BY <2>1, <2>4, <2>5, <2>6 DEF FileIsOpen
  <2> QED
    BY <2>1, <2>2, <2>7 DEF HttpKeeps
<1>8. CASE AddRemoteStartPos \/ AddLocalStartPos
  BY <1>8 DEF AddRemoteStartPos, AddLocalStartPos, HttpKeeps, FileIsOpen
<1>9. CASE AddRemoteBytesReceived
  <2>1. /\ pc = "count" /\ pc' = (IF BytesRead > 0 THEN "recv" ELSE "last")
        /\ RemoteBytesReceived' = RemoteBytesReceived + BytesRead
        /\ UNCHANGED <<File, Status, BytesRead, FilePos, ServerPos>>
    BY <1>9 DEF AddRemoteBytesReceived
  <2>2. FileIsOpen
    BY <2>1 DEF HttpKeeps
  <2>3. FilePos = RemoteBytesReceived + (IF BytesRead = -1 THEN 0 ELSE BytesRead)
    BY <2>1, <2>2 DEF FileIsOpen
  <2>4. FileIsOpen'
    BY <1>0, <2>1, <2>2, <2>3 DEF FileIsOpen
  <2> QED
    BY <2>1, <2>4 DEF HttpKeeps
<1>10. CASE FinishBlock
  <2>1. /\ pc = "last" /\ pc' = "ended" /\ BytesRead = 0 /\ UNCHANGED <<File, RemoteBytesReceived>>
    BY <1>10 DEF FinishBlock
  <2>2. FileIsOpen /\ File[RemoteSize] = Hole
    BY <2>1 DEF HttpKeeps
  <2>3. RemoteSize <= FilePos /\ FilePos = RemoteBytesReceived /\ Holds(File, RemoteSize, 0, FilePos)
    BY <1>0, <2>1, <2>2 DEF FileIsOpen
  <2>4. Holds(File, RemoteSize, 0, RemoteSize)
    BY <1>0, <2>3, LessIsHeld
  <2> QED
    BY <1>0, <2>1, <2>2, <2>3, <2>4 DEF HttpKeeps, FileIsClosed, IsIntact
<1>11. CASE RecvFailed
  <2>1. /\ pc = "last" /\ pc' = "failed" /\ BytesRead = -1 /\ UNCHANGED <<File, RemoteBytesReceived>>
        /\ Status' # "ALLDONE"
    BY <1>11 DEF RecvFailed, Fail
  <2>2. FileIsOpen /\ File[RemoteSize] = Hole
    BY <2>1 DEF HttpKeeps
  <2>3. FilePos = RemoteBytesReceived + 1 /\ Holds(File, RemoteSize, 0, FilePos)
    BY <1>0, <2>1, <2>2 DEF FileIsOpen
  <2>4. Holds(File, RemoteSize, 0, RemoteBytesReceived)
    BY <1>0, <2>3, LessIsHeld
  <2> QED
    BY <1>0, <2>1, <2>2, <2>3, <2>4 DEF HttpKeeps, FileIsClosed
<1>12. CASE Retry \/ GiveUp
  BY <1>12 DEF Retry, GiveUp, HttpKeeps, FileIsClosed
<1> QED
  BY <1>1, <1>2, <1>3, <1>4, <1>5, <1>6, <1>7, <1>8, <1>9, <1>10, <1>11, <1>12 DEF run
-----------------------------------------------------------------------------
(* The steps of the GUI thread *)

LEMMA GuiStepKeeps ==
  ASSUME TypeOK, FirstRun, stops' = 0, GuiStep \/ threadWaitCond \/ dlStop \/ dlStart
  PROVE  FirstRun'
<1>1. CASE dlStop \/ dlStart \/ ProcessStopedTask \/ ProcessResumeTask
  BY <1>1 DEF dlStop, dlStart, ProcessStopedTask, ProcessResumeTask, FirstRun, TypeOK
<1>2. CASE scheduleThread \/ threadWaitCond \/ CheckCompleted
  <2>1. UNCHANGED Thread /\ TaskStatus' \in {TaskStatus, "FINISHED"}
    BY <1>2 DEF scheduleThread, threadWaitCond, CheckCompleted
  <2> QED
    BY <2>1 DEF Thread, positions, locals, FirstRun, PositionsAgree, HttpKeeps, FileIsOpen, FileIsClosed
<1>3. CASE joinThread
  <2>1. /\ UNCHANGED <<Scheme, positions, locals, File, TaskStatus>> /\ pc = "ended" /\ pc' = "top"
        /\ Status' = "IDLE"
    BY <1>3 DEF joinThread
  <2> QED
    BY <2>1 DEF positions, locals, FirstRun, PositionsAgree, HttpKeeps, FileIsClosed, Open
<1> QED
  BY <1>1, <1>2, <1>3 DEF GuiStep
-----------------------------------------------------------------------------
(* The theorem *)

(***************************************************************************)
(* Whatever errors recv and fwrite return, before the first stop the        *)
(* attempts over HTTP join up, and a thread that is done has the whole file *)
(* unless its count of bytes is the error code.                             *)
(***************************************************************************)
THEOREM AttemptsFitTogether == Spec => []AttemptInv
<1>1. Init => IInv
  <2> SUFFICES ASSUME Init PROVE IInv
    OBVIOUS
  <2>1. TypeOK
    <3>1. File \in [Cells(RemoteSize) -> Int]
      BY RemoteSizeAssumption, NothingIsHeld DEF Init
    <3>2. {RemoteStartPos, LocalStartPos, RemoteBytesReceived} \subseteq Int /\ BytesRead \in -1 .. BufSize
          /\ TryAttempts \in 0 .. MaxTryAttempts /\ stops \in 0 .. MaxStops
      BY BufSizeAssumption, TryAssumption, StopsAssumption DEF Init
    <3> QED
      BY <3>1, <3>2 DEF Init, TypeOK
  <2>2. File[RemoteSize] = Hole /\ Holds(File, RemoteSize, 0, 0)
    BY RemoteSizeAssumption, NothingIsHeld DEF Init
  <2> QED
    BY <2>1, <2>2 DEF Init, IInv, FirstRun, PositionsAgree, HttpKeeps, FileIsClosed, Open
<1>2. IInv /\ [Next]_vars => IInv'
  <2> SUFFICES ASSUME IInv, [Next]_vars PROVE IInv'
    OBVIOUS
  <2>1. CASE run
    <3>1. stops' = stops
      BY <2>1 DEF run, FindBlockDone, BeginConnect, ConnectFails, OpenLocalFile, RecvData, WriteFails,
         RecvLast, AddRemoteStartPos, AddLocalStartPos, AddRemoteBytesReceived, FinishBlock, RecvFailed,
         Retry, GiveUp, Elsewhere
    <3>2. stops = 0 => FirstRun'
      BY <2>1, PositionsKeepAgreeing, HttpStepKeeps DEF IInv, FirstRun
    <3> QED
      BY <2>1, <3>1, <3>2, ThreadStepIsTyped DEF IInv
  <2>2. CASE GuiStep \/ threadWaitCond \/ dlStop \/ dlStart
    <3>1. stops' = 0 => stops = 0
      BY <2>2 DEF IInv, TypeOK, GuiStep, scheduleThread, joinThread, CheckCompleted, ProcessStopedTask,
         ProcessResumeTask, threadWaitCond, dlStop, dlStart
    <3> QED
      BY <2>2, <3>1, GuiStepIsTyped, GuiStepKeeps DEF IInv
  <2>3. CASE UNCHANGED vars
    BY <2>3 DEF vars, positions, locals, IInv, TypeOK, FirstRun, PositionsAgree, HttpKeeps, FileIsOpen,
       FileIsClosed, Open
  <2> QED
    BY <2>1, <2>2, <2>3 DEF Next
<1>3. IInv => AttemptInv
  <2> SUFFICES ASSUME IInv PROVE AttemptInv
    OBVIOUS
  <2>1. TypeOK /\ DoneFileIsIntact
    BY DEF IInv, FirstRun, HttpKeeps, DoneFileIsIntact
  <2>2. AttemptsResumeWhereTheyLeft
    <3> SUFFICES ASSUME stops = 0, pc \in {"top", "connecting", "failed", "ended"}
                 PROVE  /\ LocalStartPos = RemoteStartPos
                        /\ RemoteBytesReceived = RemoteStartPos
                        /\ Scheme = "http" => Holds(File, RemoteSize, 0, RemoteStartPos)
      BY DEF AttemptsResumeWhereTheyLeft
    <3>1. RemoteStartPos \in Int /\ LocalStartPos \in Int /\ RemoteBytesReceived \in Int
      BY <2>1 DEF TypeOK
    <3>2. LocalStartPos = RemoteStartPos /\ RemoteBytesReceived = RemoteStartPos
      BY <3>1 DEF IInv, FirstRun, PositionsAgree
    <3> QED
      BY <3>2 DEF IInv, FirstRun, HttpKeeps, FileIsClosed, Open
  <2> QED
    BY <2>1, <2>2 DEF AttemptInv
<1> QED
  BY <1>1, <1>2, <1>3, PTL DEF Spec
=============================================================================
