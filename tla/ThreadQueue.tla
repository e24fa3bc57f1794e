---------------------------- MODULE ThreadQueue ----------------------------
(***************************************************************************)
(* How a task gets its download threads and each thread its block of the   *)
(* remote file: FrmMainWin::ProcessStartTask fixes the number of threads,  *)
(* TTaskManager::InitTask allocates them and creates the local file,       *)
(* TTask::initTaskThreadQue cuts the remote file into blocks, and          *)
(* createLogFile records them.  When the log file cannot be created the    *)
(* task keeps its status and the next pass starts it all over.             *)
(***************************************************************************)
EXTENDS Partition

CONSTANTS
  MaxThreads,   \* MAX_THREADS, the length of the array ThreadQue
  MaxFileSize   \* bound: the largest file a server offers

ASSUME MaxThreadsAssumption == MaxThreads \in Nat \ {0}
ASSUME MaxFileSizeAssumption == MaxFileSize \in Nat

VARIABLES
  FileSize,         \* TTask::FileSize, UnknownSize until the server tells it
  IsResumeSupport,  \* TTask::IsResumeSupport
  ThreadCnt,        \* TTask::ThreadCnt
  ThreadQue,        \* index -> the positions of a TaskThread
  i,                \* the loop index of initTaskThreadQue
  pc                \* what the start of the task does next

vars == <<FileSize, IsResumeSupport, ThreadCnt, ThreadQue, i, pc>>

Indices == 0 .. MaxThreads - 1

Positions(blk, start, end, local) ==
  [BlkSize |-> blk, RemoteStartPos |-> start, RemoteEndPos |-> end, LocalStartPos |-> local]

\* What the constructor of TaskThread leaves behind.
NewThread == Positions(-1, -1, -1, 0)

\* The dialog lets the user ask for 1 .. MAX_THREADS threads.
Init ==
  /\ FileSize = UnknownSize
  /\ IsResumeSupport = FALSE
  /\ ThreadCnt \in 1 .. MaxThreads
  /\ ThreadQue = [k \in Indices |-> NewThread]
  /\ i = 0
  /\ pc = "start"

\* fetchRemoteFileInfo succeeds: resuming is held to be supported whenever the
\* size is known.
ProcessStartTask ==
  /\ pc = "start"
  /\ FileSize' \in 0 .. MaxFileSize \cup {UnknownSize}
  /\ IsResumeSupport' = (FileSize' # UnknownSize)
  /\ ThreadCnt' = TaskThreadCnt(FileSize', IsResumeSupport', ThreadCnt)
  /\ pc' = "alloc"
  /\ UNCHANGED <<ThreadQue, i>>

\* InitTask allocates the threads and opens the local file; when it cannot,
\* it returns before initTaskThreadQue.
InitTask ==
  /\ pc = "alloc"
  /\ ThreadQue' = [k \in Indices |-> IF k < ThreadCnt THEN NewThread ELSE ThreadQue[k]]
  /\ i' = 0
  /\ pc' \in {"cut", "log"}
  /\ UNCHANGED <<FileSize, IsResumeSupport, ThreadCnt>>

\* One turn of the loop of initTaskThreadQue.
InitThread ==
  LET perConn == BytesPerConn(FileSize, ThreadCnt) IN
  /\ pc = "cut"
  /\ i < ThreadCnt
  /\ ThreadQue' = [ThreadQue EXCEPT ![i] =
       IF FileSize = UnknownSize THEN Positions(-1, 0, -1, 0)
       ELSE Positions(perConn, i * perConn, (i + 1) * perConn, i * perConn)]
  /\ i' = i + 1
  /\ UNCHANGED <<FileSize, IsResumeSupport, ThreadCnt, pc>>

\* A block that is n bytes longer.
Grown(t, n) ==
  Positions(t.BlkSize + n, t.RemoteStartPos, t.RemoteEndPos + n, t.LocalStartPos)

\* Mutant of AddBytesLeft: the block grows, its end stays.
AddBytesLeftToSize ==
  /\ pc = "cut"
  /\ i = ThreadCnt
  /\ ThreadQue' = [ThreadQue EXCEPT ![i - 1].BlkSize = @ + BytesLeft(FileSize, ThreadCnt)]
  /\ pc' = "log"
  /\ UNCHANGED <<FileSize, IsResumeSupport, ThreadCnt, i>>

\* After the loop the last block takes the remainder of the division.
AddBytesLeft ==
  /\ pc = "cut"
  /\ i = ThreadCnt
  /\ ThreadQue' =
       IF FileSize # UnknownSize /\ IsResumeSupport /\ ThreadCnt > 1
       THEN [ThreadQue EXCEPT ![i - 1] = Grown(@, BytesLeft(FileSize, ThreadCnt))]
       ELSE ThreadQue
  /\ pc' = "log"
  /\ UNCHANGED <<FileSize, IsResumeSupport, ThreadCnt, i>>

\* createLogFile writes the positions, then the threads are started; or it
\* fails and ProcessStartTask returns.
createLogFile ==
  /\ pc = "log"
  /\ pc' \in {"running", "start"}
  /\ UNCHANGED <<FileSize, IsResumeSupport, ThreadCnt, ThreadQue, i>>

Next == ProcessStartTask \/ InitTask \/ InitThread \/ AddBytesLeft \/ createLogFile

Spec == Init /\ [][Next]_vars

-----------------------------------------------------------------------------
(* Properties *)

ThreadPositions ==
  [BlkSize : Int, RemoteStartPos : Int, RemoteEndPos : Int, LocalStartPos : Int]

TypeOK ==
  /\ FileSize \in 0 .. MaxFileSize \cup {UnknownSize}
  /\ IsResumeSupport \in BOOLEAN
  /\ ThreadCnt \in 1 .. MaxThreads
  /\ ThreadQue \in [Indices -> ThreadPositions]
  /\ i \in 0 .. MaxThreads
  /\ pc \in {"start", "alloc", "cut", "log", "running"}

\* The task runs, with threads that initTaskThreadQue has been through.
RunsInitialised == pc = "running" /\ ThreadQue[0] # NewThread

(***************************************************************************)
(* Every byte of the remote file belongs to exactly one thread of a        *)
(* running task: the blocks start at 0, each ends where the next starts,   *)
(* the last ends at FileSize, and BlkSize, with which run() compares the   *)
(* bytes received, is the length of the block.                             *)
(***************************************************************************)
BlocksTileTheFile ==
  RunsInitialised /\ FileSize # UnknownSize =>
    /\ ThreadQue[0].RemoteStartPos = 0
    /\ ThreadQue[ThreadCnt - 1].RemoteEndPos = FileSize
    /\ \A k \in 0 .. ThreadCnt - 2 :
         ThreadQue[k].RemoteEndPos = ThreadQue[k + 1].RemoteStartPos
    /\ \A k \in 0 .. ThreadCnt - 1 :
         /\ ThreadQue[k].BlkSize = ThreadQue[k].RemoteEndPos - ThreadQue[k].RemoteStartPos
         /\ ThreadQue[k].LocalStartPos = ThreadQue[k].RemoteStartPos
         /\ ThreadQue[k].BlkSize >= 0

(***************************************************************************)
(* The loop computes the blocks that Partition defines in closed form, and *)
(* that the threads of module Download start from, even when an earlier    *)
(* attempt to start the task, with another size, was given up.             *)
(***************************************************************************)
BlocksAreTheirClosedForm ==
  RunsInitialised =>
    \A k \in 0 .. ThreadCnt - 1 :
      ThreadQue[k] = Positions(BlockSize(FileSize, ThreadCnt, k),
                               BlockStart(FileSize, ThreadCnt, k),
                               BlockEnd(FileSize, ThreadCnt, k),
                               BlockStart(FileSize, ThreadCnt, k))
=============================================================================
