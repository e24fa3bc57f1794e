----------------------------- MODULE Download ------------------------------
(***************************************************************************)
(* One running task whose file size is known (libmtd/Task.cpp): its        *)
(* download threads, the file they write into, the log file that keeps     *)
(* their positions, and the GUI thread that schedules them, checkpoints    *)
(* the positions, stops and resumes the task and declares it finished.     *)
(*                                                                         *)
(* The threads and the GUI thread share the fields of TaskThread without a *)
(* lock, so every assignment to a field that the other side reads is a     *)
(* step of its own.                                                        *)
(***************************************************************************)
EXTENDS Partition, LocalFile, FiniteSets

CONSTANTS
  Schemes,       \* the URL schemes considered: "http", "ftp"
  FileSize,      \* TTask::FileSize, not UnknownSize
  nblks,         \* the number of threads the user asked for
  BufSize,       \* HTTP_BUF_SIZE or FTP_BUF_SIZE
  MaxTryAttempts,\* MAX_TRY_ATTEMPTS
  ServerReply,   \* how the server answers: "range", with the bytes asked for,
                 \* or "whole" (HTTP status 200), with the file from byte 0
  MaxStops,      \* bound: how often the user stops and resumes the task
  MaxCreateFails \* bound: how often pthread_create fails

ASSUME SchemesAssumption == Schemes \subseteq {"http", "ftp"} /\ Schemes # {}
ASSUME FileSizeAssumption == FileSize \in Nat
ASSUME NblksAssumption == nblks \in Nat \ {0}
ASSUME BufSizeAssumption == BufSize \in Nat \ {0}
ASSUME TryAssumption == MaxTryAttempts \in Nat \ {0}
ASSUME ReplyAssumption == ServerReply \in {"range", "whole"}
ASSUME StopsAssumption == MaxStops \in Nat /\ MaxCreateFails \in Nat

\* fetchRemoteFileInfo sets IsResumeSupport whenever it learns the size.
ThreadCnt == TaskThreadCnt(FileSize, TRUE, nblks)
Threads == 0 .. ThreadCnt - 1
BlkSize(i) == BlockSize(FileSize, ThreadCnt, i)
RemoteEndPos(i) == BlockEnd(FileSize, ThreadCnt, i)
FirstPos(i) == BlockStart(FileSize, ThreadCnt, i)

VARIABLES
  Scheme,              \* the scheme of the URL: THttpThread or TFtpThread
  TaskStatus,          \* TTask::Status
  Status,              \* thread -> TaskThread::Status
  RemoteStartPos,      \* thread -> next remote byte to ask for
  LocalStartPos,       \* thread -> where the next byte goes in the local file
  RemoteBytesReceived, \* thread -> bytes of the block received so far
  TryAttempts,         \* thread -> attempts, saturated at MaxTryAttempts
  pc,                  \* thread -> what its pthread does next
  Length,              \* thread -> the local Length of retrKnownSizeFile
  BytesRead,           \* thread -> the local BytesRead
  ServerPos,           \* thread -> the next byte the server sends
  File,                \* the ".dg" file
  Log,                 \* thread -> its record in the log file
  gui,                 \* what the GUI thread does next
  current,             \* the thread its loop has reached
  tdrec,               \* the record updateLogFile is filling in
  MaxSimConns,         \* TTask::MaxSimConns
  StatusMutex,         \* TTask::StatusMutex is locked, by the GUI thread
  createFails,         \* how often pthread_create has failed
  stops,               \* how often the task was stopped
  tornRecord           \* history: a record with fields of two moments was loaded

positions == <<RemoteStartPos, LocalStartPos, RemoteBytesReceived>>
locals == <<Length, BytesRead, ServerPos>>
mutexVars == <<StatusMutex, createFails>>
guiVars == <<gui, current, tdrec, MaxSimConns, mutexVars>>
vars == <<Scheme, TaskStatus, Status, positions, TryAttempts, pc, locals, File, Log,
          guiVars, stops, tornRecord>>

ThreadStatus == {"IDLE", "CONNECTING", "LOGGININ", "DOWNLOADING", "ALLDONE",
                 "LOGINFAIL", "REMOTEFATAL", "LOCALFATAL", "MAXTRYS"}

FileIsIntact == IsIntact(File, FileSize)
BlockIsWritten(lo, hi) == Holds(File, FileSize, lo, hi)

\* The record that createLogFile and updateLogFile write for a thread; BlkSize
\* and RemoteEndPos never change and are left out.
Record(start, received, local) ==
  [RemoteStartPos |-> start, RemoteBytesReceived |-> received, LocalStartPos |-> local]

Init ==
  /\ Scheme \in Schemes
  /\ TaskStatus = "RUNNING"
  /\ Status = [i \in Threads |-> "IDLE"]
  /\ RemoteStartPos = [i \in Threads |-> FirstPos(i)]
  /\ LocalStartPos = [i \in Threads |-> FirstPos(i)]
  /\ RemoteBytesReceived = [i \in Threads |-> 0]
  /\ TryAttempts = [i \in Threads |-> 0]
  /\ pc = [i \in Threads |-> "top"]
  /\ Length = [i \in Threads |-> 0]
  /\ BytesRead = [i \in Threads |-> 0]
  /\ ServerPos = [i \in Threads |-> 0]
  /\ File = EmptyFile(FileSize)
  /\ Log = [i \in Threads |-> Record(FirstPos(i), 0, FirstPos(i))]
  /\ gui = "loop"
  /\ current = 0
  /\ tdrec = Record(0, 0, 0)
  /\ MaxSimConns = 0
  /\ StatusMutex = FALSE /\ createFails = 0
  /\ stops = 0
  /\ tornRecord = FALSE

-----------------------------------------------------------------------------
(* The download threads.  A pthread goes                                    *)
(*   top -> connecting (-> login) -> recv <-> remote, local, count -> ended *)
(* or by way of failed back to top.  The locals are 0 while out of scope.   *)

Step(i, from, to) ==
  /\ pc[i] = from
  /\ pc' = [pc EXCEPT ![i] = to]

SetStatus(i, s) == Status' = [Status EXCEPT ![i] = s]

ForgetLocals(i) ==
  /\ Length' = [Length EXCEPT ![i] = 0]
  /\ BytesRead' = [BytesRead EXCEPT ![i] = 0]
  /\ ServerPos' = [ServerPos EXCEPT ![i] = 0]

\* The GUI side and what only the GUI side writes.
Elsewhere == <<Scheme, TaskStatus, Log, guiVars, stops, tornRecord>>

\* TryAttempts is only reset, incremented and compared with its limit.
AttemptsAfter(i) == IF TryAttempts[i] < MaxTryAttempts THEN TryAttempts[i] + 1
                    ELSE MaxTryAttempts

\* run() finds the block complete, or retrFileChunk finds THS_ALLDONE.
FindBlockDone(i) ==
  /\ \/ BlkSize(i) = RemoteBytesReceived[i] /\ UNCHANGED TryAttempts
     \/ /\ BlkSize(i) # RemoteBytesReceived[i]
        /\ Status[i] = "ALLDONE"
        /\ TryAttempts' = [TryAttempts EXCEPT ![i] = AttemptsAfter(i)]
  /\ Step(i, "top", "ended")
  /\ SetStatus(i, "ALLDONE")
  /\ UNCHANGED <<positions, locals, File, Elsewhere>>

BeginConnect(i) ==
  /\ BlkSize(i) # RemoteBytesReceived[i]
  /\ Status[i] # "ALLDONE"
  /\ Step(i, "top", "connecting")
  /\ SetStatus(i, "CONNECTING")
  /\ UNCHANGED <<positions, TryAttempts, locals, File, Elsewhere>>

\* retrFileChunk returns false with this status.
Fail(i, from, s) ==
  /\ Step(i, from, "failed")
  /\ SetStatus(i, s)
  /\ ForgetLocals(i)
  /\ UNCHANGED <<positions, TryAttempts, File, Elsewhere>>

\* Mutant of OpenLocalFile: the file is opened as "wb" instead of "r+b".
OpenLocalFileAfresh(i, from) ==
  LET left == RemoteEndPos(i) - RemoteStartPos[i] IN
  /\ Step(i, from, "recv")
  /\ SetStatus(i, "DOWNLOADING")
  /\ Length' = [Length EXCEPT ![i] = IF Scheme = "http" /\ left = 0 THEN 1 ELSE left]
  /\ ServerPos' = [ServerPos EXCEPT ![i] = RemoteStartPos[i]]
  /\ File' = EmptyFile(FileSize)
  /\ UNCHANGED <<positions, TryAttempts, BytesRead, Elsewhere>>

\* The request is answered (the HTTP status code is read and not looked at)
\* and retrKnownSizeFile opens the local file.
OpenLocalFile(i, from) ==
  LET left == RemoteEndPos(i) - RemoteStartPos[i] IN
  /\ Step(i, from, "recv")
  /\ SetStatus(i, "DOWNLOADING")
  /\ Length' = [Length EXCEPT ![i] = IF Scheme = "http" /\ left = 0 THEN 1 ELSE left]
  /\ ServerPos' = [ServerPos EXCEPT ![i] =
                      IF ServerReply = "range" THEN RemoteStartPos[i] ELSE 0]
  /\ UNCHANGED <<positions, TryAttempts, BytesRead, File, Elsewhere>>

ConnectHttp(i) ==
  /\ Scheme = "http"
  /\ \/ \E s \in {"REMOTEFATAL", "LOCALFATAL"} : Fail(i, "connecting", s)
     \/ OpenLocalFile(i, "connecting")

ConnectFtp(i) ==
  /\ Scheme = "ftp"
  /\ \/ Fail(i, "connecting", "REMOTEFATAL")
     \/ /\ Step(i, "connecting", "login")
        /\ SetStatus(i, "LOGGININ")
        /\ UNCHANGED <<positions, TryAttempts, locals, File, Elsewhere>>

\* ftp_login, then TYPE, CWD, PASV or PORT, REST and RETR.
LoginFtp(i) ==
  \/ \E s \in {"LOGINFAIL", "REMOTEFATAL", "LOCALFATAL"} : Fail(i, "login", s)
  \/ OpenLocalFile(i, "login")

\* One past the last byte the server sends: "Range: bytes=start-end" includes
\* the byte at end; an FTP server, or a "whole" reply, goes on to the end.
ServerEnd(i) ==
  IF Scheme = "http" /\ ServerReply = "range" /\ RemoteEndPos(i) < FileSize
  THEN RemoteEndPos(i) + 1 ELSE FileSize

\* The size passed to recv: HTTP always asks for a full buffer.
Wanted(i) == IF Scheme = "ftp" /\ Length[i] < BufSize THEN Length[i] ELSE BufSize

\* Mutant of RecvData: a short count from fwrite goes unnoticed.
RecvDataShortWrite(i) ==
  /\ Length[i] > 0
  /\ \E n \in 1 .. Wanted(i) :
       /\ ServerPos[i] + n <= ServerEnd(i)
       /\ File' = Written(File, FileSize, LocalStartPos[i], ServerPos[i], n - 1)
       /\ BytesRead' = [BytesRead EXCEPT ![i] = n]
       /\ Length' = [Length EXCEPT ![i] = @ - n]
       /\ ServerPos' = [ServerPos EXCEPT ![i] = @ + n]
  /\ Step(i, "recv", "remote")
  /\ UNCHANGED <<Status, positions, TryAttempts, Elsewhere>>

\* recv returns n bytes and fwrite puts them at LocalStartPos.
RecvData(i) ==
  /\ Length[i] > 0
  /\ \E n \in 1 .. Wanted(i) :
       /\ ServerPos[i] + n <= ServerEnd(i)
       /\ File' = Written(File, FileSize, LocalStartPos[i], ServerPos[i], n)
       /\ BytesRead' = [BytesRead EXCEPT ![i] = n]
       /\ Length' = [Length EXCEPT ![i] = @ - n]
       /\ ServerPos' = [ServerPos EXCEPT ![i] = @ + n]
  /\ Step(i, "recv", "remote")
  /\ UNCHANGED <<Status, positions, TryAttempts, Elsewhere>>

\* The connection is closed or broken, recv times out, or fwrite fails.
RecvFails(i) ==
  /\ Length[i] > 0
  /\ \E s \in {"REMOTEFATAL", "LOCALFATAL"} : Fail(i, "recv", s)

AddRemoteStartPos(i) ==
  /\ Step(i, "remote", "local")
  /\ RemoteStartPos' = [RemoteStartPos EXCEPT ![i] = @ + BytesRead[i]]
  /\ UNCHANGED <<Status, LocalStartPos, RemoteBytesReceived, TryAttempts, locals,
                 File, Elsewhere>>

AddLocalStartPos(i) ==
  /\ Step(i, "local", "count")
  /\ LocalStartPos' = [LocalStartPos EXCEPT ![i] = @ + BytesRead[i]]
  /\ UNCHANGED <<Status, RemoteStartPos, RemoteBytesReceived, TryAttempts, locals,
                 File, Elsewhere>>

AddRemoteBytesReceived(i) ==
  /\ Step(i, "count", "recv")
  /\ RemoteBytesReceived' = [RemoteBytesReceived EXCEPT ![i] = @ + BytesRead[i]]
  /\ BytesRead' = [BytesRead EXCEPT ![i] = 0]
  /\ UNCHANGED <<Status, RemoteStartPos, LocalStartPos, TryAttempts, Length, ServerPos,
                 File, Elsewhere>>

FinishBlock(i) ==
  /\ Length[i] <= 0
  /\ Step(i, "recv", "ended")
  /\ SetStatus(i, "ALLDONE")
  /\ TryAttempts' = [TryAttempts EXCEPT ![i] = AttemptsAfter(i)]
  /\ ForgetLocals(i)
  /\ UNCHANGED <<positions, File, Elsewhere>>

\* The tail of run()'s loop: after a pause the thread tries again,
Retry(i) ==
  /\ AttemptsAfter(i) < MaxTryAttempts
  /\ Step(i, "failed", "top")
  /\ SetStatus(i, "IDLE")
  /\ TryAttempts' = [TryAttempts EXCEPT ![i] = AttemptsAfter(i)]
  /\ UNCHANGED <<positions, locals, File, Elsewhere>>

\* or it has tried too often.
GiveUp(i) ==
  /\ AttemptsAfter(i) >= MaxTryAttempts
  /\ Step(i, "failed", "ended")
  /\ SetStatus(i, "MAXTRYS")
  /\ TryAttempts' = [TryAttempts EXCEPT ![i] = AttemptsAfter(i)]
  /\ UNCHANGED <<positions, locals, File, Elsewhere>>

run(i) ==
  \/ FindBlockDone(i) \/ BeginConnect(i) \/ ConnectHttp(i) \/ ConnectFtp(i)
  \/ LoginFtp(i) \/ RecvData(i) \/ RecvFails(i) \/ AddRemoteStartPos(i)
  \/ AddLocalStartPos(i) \/ AddRemoteBytesReceived(i) \/ FinishBlock(i)
  \/ Retry(i) \/ GiveUp(i)

-----------------------------------------------------------------------------
(* The GUI thread: one pass of ScheduleTask over this task.  In             *)
(* ProcessRunningTask it goes                                               *)
(*   loop -> sched -> start, count, local (updateLogFile) -> check -> loop. *)

Workers == <<Scheme, Status, positions, TryAttempts, pc, locals, File>>

\* The loop over the threads moves on, and after the last one to phase next.
NextThread(phase, next) ==
  IF current + 1 < ThreadCnt
  THEN gui' = phase /\ current' = current + 1
  ELSE gui' = next /\ current' = 0

timerEvent ==
  /\ gui = "loop"
  /\ TaskStatus = "RUNNING"
  /\ gui' = "sched"
  /\ current' = 0
  /\ UNCHANGED <<Workers, TaskStatus, Log, tdrec, MaxSimConns, mutexVars, stops, tornRecord>>

WithStatus(s) == {i \in Threads : Status[i] = s}
DCnt == Cardinality(WithStatus("DOWNLOADING"))
Quiet == WithStatus("CONNECTING") \cup WithStatus("LOGGININ") = {}
AllLoginFailed == WithStatus("LOGINFAIL") = Threads
\* scheduleThread treats THS_TIMEDOUT as THS_REMOTEFATAL, which stands for both.
Troubled == {"LOGINFAIL", "REMOTEFATAL"}

\* processLoginFailThread, up to the call of joinThread.
scheduleThread ==
  /\ gui = "sched"
  /\ \/ /\ Status[current] \notin Troubled
        /\ NextThread("sched", "update")
        /\ UNCHANGED MaxSimConns
     \/ /\ Status[current] \in Troubled
        /\ IF AllLoginFailed THEN gui' = "join" /\ UNCHANGED <<current, MaxSimConns>>
           ELSE IF Quiet /\ (DCnt = 0 \/ DCnt < MaxSimConns)
           THEN gui' = "joinwait" /\ UNCHANGED <<current, MaxSimConns>>
           ELSE /\ MaxSimConns' = IF DCnt > MaxSimConns THEN DCnt ELSE MaxSimConns
                /\ NextThread("sched", "update")
  /\ UNCHANGED <<Workers, TaskStatus, Log, tdrec, mutexVars, stops, tornRecord>>

\* joinThread returns when the pthread has ended; the thread is started anew, or not, which
\* nobody looks at.  Before a wait for the condition StatusMutex is locked: a failed
\* pthread_create leaves it so, and the next one to lock it waits for ever.
joinThread ==
  /\ gui \in {"join", "joinwait"}
  /\ pc[current] = "ended"
  /\ SetStatus(current, "IDLE")
  /\ \/ /\ ~(gui = "joinwait" /\ StatusMutex)
        /\ pc' = [pc EXCEPT ![current] = "top"]
        /\ \/ gui = "join" /\ NextThread("sched", "update")
           \/ gui = "joinwait" /\ gui' = "cond" /\ UNCHANGED current
        /\ UNCHANGED mutexVars
     \/ /\ ~(gui = "joinwait" /\ StatusMutex)
        /\ createFails < MaxCreateFails /\ createFails' = createFails + 1
        /\ StatusMutex' = (StatusMutex \/ gui = "joinwait")
        /\ NextThread("sched", "update")
        /\ UNCHANGED pc
     \/ /\ gui = "joinwait" /\ StatusMutex
        /\ gui' = "blocked"
        /\ UNCHANGED <<pc, current, mutexVars>>
  /\ UNCHANGED <<Scheme, positions, TryAttempts, locals, File, TaskStatus, Log, tdrec,
                 MaxSimConns, stops, tornRecord>>

\* threadWaitCond: nothing ever signals ConnectingCond, so the wait ends only
\* by a spurious wakeup.
threadWaitCond ==
  /\ gui = "cond"
  /\ NextThread("sched", "update")
  /\ UNCHANGED <<Workers, TaskStatus, Log, tdrec, MaxSimConns, mutexVars, stops, tornRecord>>

\* updateLogFile cannot open the log file; the result is not looked at.
updateLogFileFails ==
  /\ gui = "update" /\ current = 0
  /\ gui' = "check"
  /\ UNCHANGED <<Workers, TaskStatus, Log, current, tdrec, MaxSimConns, mutexVars, stops, tornRecord>>

\* updateLogFile copies the fields of a thread one by one and writes them.
ReadRemoteStartPos ==
  /\ gui = "update"
  /\ tdrec' = [tdrec EXCEPT !.RemoteStartPos = RemoteStartPos[current]]
  /\ gui' = "count"
  /\ UNCHANGED <<Workers, TaskStatus, Log, current, MaxSimConns, mutexVars, stops, tornRecord>>

ReadRemoteBytesReceived ==
  /\ gui = "count"
  /\ tdrec' = [tdrec EXCEPT !.RemoteBytesReceived = RemoteBytesReceived[current]]
  /\ gui' = "local"
  /\ UNCHANGED <<Workers, TaskStatus, Log, current, MaxSimConns, mutexVars, stops, tornRecord>>

WriteRecord ==
  /\ gui = "local"
  /\ Log' = [Log EXCEPT ![current] =
                [tdrec EXCEPT !.LocalStartPos = LocalStartPos[current]]]
  /\ tdrec' = Record(0, 0, 0)
  /\ NextThread("update", "check")
  /\ UNCHANGED <<Workers, TaskStatus, MaxSimConns, mutexVars, stops, tornRecord>>

\* Mutants of CheckCompleted: one finished thread is enough; none ever is.
CheckAnyCompleted ==
  /\ gui = "check"
  /\ TaskStatus' = IF WithStatus("ALLDONE") # {} THEN "FINISHED" ELSE TaskStatus
  /\ gui' = "loop"
  /\ UNCHANGED <<Workers, Log, current, tdrec, MaxSimConns, mutexVars, stops, tornRecord>>

CheckMoreCompleted ==
  /\ gui = "check"
  /\ TaskStatus' = IF Cardinality(WithStatus("ALLDONE")) > ThreadCnt THEN "FINISHED"
                   ELSE TaskStatus
  /\ gui' = "loop"
  /\ UNCHANGED <<Workers, Log, current, tdrec, MaxSimConns, mutexVars, stops, tornRecord>>

\* The rest of ProcessRunningTask: when all is done the file gets its name and
\* the log file is deleted.
CheckCompleted ==
  /\ gui = "check"
  /\ TaskStatus' = IF WithStatus("ALLDONE") = Threads THEN "FINISHED" ELSE TaskStatus
  /\ gui' = "loop"
  /\ UNCHANGED <<Workers, Log, current, tdrec, MaxSimConns, mutexVars, stops, tornRecord>>

-----------------------------------------------------------------------------
(* Stopping and resuming *)

dlStop ==
  /\ gui = "loop" /\ TaskStatus = "RUNNING"
  /\ stops < MaxStops
  /\ stops' = stops + 1
  /\ TaskStatus' = "STOP"
  /\ UNCHANGED <<Workers, Log, guiVars, tornRecord>>

\* terminateThreads cancels the pthreads wherever they are.
ProcessStopedTask ==
  /\ gui = "loop" /\ TaskStatus = "STOP"
  /\ pc' = [i \in Threads |-> "none"]
  /\ Length' = [i \in Threads |-> 0]
  /\ BytesRead' = [i \in Threads |-> 0]
  /\ ServerPos' = [i \in Threads |-> 0]
  /\ TaskStatus' = "ZOMBIE"
  /\ UNCHANGED <<Scheme, Status, positions, TryAttempts, File, Log, guiVars, stops, tornRecord>>

dlStart ==
  /\ gui = "loop" /\ TaskStatus = "ZOMBIE"
  /\ TaskStatus' = "RESUME"
  /\ UNCHANGED <<Workers, Log, guiVars, stops, tornRecord>>

\* A record whose positions belong to different moments.
Torn(rec) == rec.RemoteStartPos # rec.LocalStartPos

\* Mutant of ProcessResumeTask: the blocks start afresh.
ProcessResumeTaskAfresh ==
  /\ gui = "loop" /\ TaskStatus = "RESUME"
  /\ RemoteStartPos' = [i \in Threads |-> FirstPos(i)]
  /\ RemoteBytesReceived' = [i \in Threads |-> 0]
  /\ LocalStartPos' = [i \in Threads |-> FirstPos(i)]
  /\ Status' = [i \in Threads |-> "IDLE"]
  /\ TryAttempts' = [i \in Threads |-> 0]
  /\ pc' = [i \in Threads |-> "top"]
  /\ TaskStatus' = "RUNNING"
  /\ UNCHANGED <<Scheme, locals, File, Log, guiVars, stops, tornRecord>>

\* loadLogFile, then SwitchToTask creates the pthreads.
ProcessResumeTask ==
  /\ gui = "loop" /\ TaskStatus = "RESUME"
  /\ RemoteStartPos' = [i \in Threads |-> Log[i].RemoteStartPos]
  /\ RemoteBytesReceived' = [i \in Threads |-> Log[i].RemoteBytesReceived]
  /\ LocalStartPos' = [i \in Threads |-> Log[i].LocalStartPos]
  /\ Status' = [i \in Threads |->
                   IF RemoteEndPos(i) = Log[i].RemoteStartPos THEN "ALLDONE" ELSE "IDLE"]
  /\ TryAttempts' = [i \in Threads |-> 0]
  /\ pc' = [i \in Threads |-> "top"]
  /\ TaskStatus' = "RUNNING"
  /\ tornRecord' = (tornRecord \/ \E i \in Threads : Torn(Log[i]))
  /\ UNCHANGED <<Scheme, locals, File, Log, guiVars, stops>>

GuiStep ==
  \/ timerEvent \/ scheduleThread \/ joinThread \/ updateLogFileFails
  \/ ReadRemoteStartPos \/ ReadRemoteBytesReceived \/ WriteRecord
  \/ CheckCompleted \/ ProcessStopedTask \/ ProcessResumeTask

Next ==
  \/ \E i \in Threads : run(i)
  \/ GuiStep \/ threadWaitCond \/ dlStop \/ dlStart

\* Every recv has a timeout and every retry a limit, so a pthread keeps going;
\* the event loop keeps delivering the timer.  No fairness for the wakeup.
Fairness ==
  /\ \A i \in Threads : WF_vars(run(i))
  /\ WF_vars(GuiStep)

Spec == Init /\ [][Next]_vars /\ Fairness

-----------------------------------------------------------------------------
(* Properties *)

ThreadPc == {"none", "top", "connecting", "login", "recv", "remote", "local", "count",
             "failed", "ended"}
GuiPc == {"loop", "sched", "join", "joinwait", "cond", "blocked", "update", "count", "local", "check"}
LogRecord == [RemoteStartPos : Int, RemoteBytesReceived : Int, LocalStartPos : Int]

TypeOK ==
  /\ Scheme \in Schemes
  /\ TaskStatus \in {"RUNNING", "STOP", "ZOMBIE", "RESUME", "FINISHED"}
  /\ Status \in [Threads -> ThreadStatus]
  /\ RemoteStartPos \in [Threads -> Int]
  /\ LocalStartPos \in [Threads -> Int]
  /\ RemoteBytesReceived \in [Threads -> Int]
  /\ TryAttempts \in [Threads -> 0 .. MaxTryAttempts]
  /\ pc \in [Threads -> ThreadPc]
  /\ Length \in [Threads -> Int]
  /\ BytesRead \in [Threads -> 0 .. BufSize]
  /\ ServerPos \in [Threads -> Int]
  /\ File \in [Cells(FileSize) -> Int]
  /\ Log \in [Threads -> LogRecord]
  /\ gui \in GuiPc
  /\ current \in Threads
  /\ tdrec \in LogRecord
  /\ MaxSimConns \in 0 .. ThreadCnt
  /\ StatusMutex \in BOOLEAN /\ createFails \in 0 .. MaxCreateFails
  /\ stops \in 0 .. MaxStops
  /\ tornRecord \in BOOLEAN

(***************************************************************************)
(* When ProcessRunningTask renames the file and reports success, the file  *)
(* is the remote file, byte for byte, whatever the interleaving of the     *)
(* threads, retries, stops and resumes, unless a resume loaded a record    *)
(* whose fields updateLogFile had read at different moments.               *)
(***************************************************************************)
FinishedFileIsIntact == TaskStatus = "FINISHED" /\ ~tornRecord => FileIsIntact

(***************************************************************************)
(* A thread with THS_ALLDONE, which IsAllCompleted relies on, has its      *)
(* whole block in the file, also when loadLogFile or the comparison of     *)
(* BlkSize with RemoteBytesReceived concluded that it is done.             *)
(***************************************************************************)
DoneBlocksAreWritten ==
  ~tornRecord => \A i \in Threads :
    Status[i] = "ALLDONE" => BlockIsWritten(FirstPos(i), RemoteEndPos(i))

(***************************************************************************)
(* The log file never runs ahead of the file: every byte below a position  *)
(* it records is already in the ".dg" file, because a thread writes before *)
(* it moves its positions.  So nothing is lost by cancelling the threads.  *)
(***************************************************************************)
LogNeverAheadOfFile ==
  ~tornRecord => \A i \in Threads :
    /\ BlockIsWritten(FirstPos(i), Log[i].RemoteStartPos)
    /\ BlockIsWritten(FirstPos(i), Log[i].LocalStartPos)
    /\ BlockIsWritten(FirstPos(i), FirstPos(i) + Log[i].RemoteBytesReceived)

(***************************************************************************)
(* A thread leaves its block by at most the one byte that an HTTP range    *)
(* asks for too much, and never the file.                                  *)
(***************************************************************************)
OverrunIsOneByte ==
  ~tornRecord => \A i \in Threads :
    /\ LocalStartPos[i] <= RemoteEndPos(i) + (IF Scheme = "http" THEN 1 ELSE 0)
    /\ LocalStartPos[i] <= FileSize

(***************************************************************************)
(* What holds throughout a download: with the types, a finished file is    *)
(* intact, blocks that are done are written, the log is never ahead of the *)
(* file, and no thread leaves its block by more than that byte.            *)
(***************************************************************************)
DownloadInv ==
  /\ TypeOK /\ FinishedFileIsIntact /\ DoneBlocksAreWritten /\ LogNeverAheadOfFile
  /\ OverrunIsOneByte

(***************************************************************************)
(* What the user sees of a download is a delivery: every fwrite of every    *)
(* thread puts bytes of the remote file where they belong, so that none of  *)
(* its neighbours or of its own later attempts takes a byte back; success   *)
(* is reported of the whole file; and no pthread writes after that.  A      *)
(* resume that loads a torn record ends the promise.                        *)
(***************************************************************************)
Outcome == IF tornRecord THEN "unknown"
           ELSE IF TaskStatus = "FINISHED" THEN "success" ELSE "retrieving"
ShownFile == IF tornRecord THEN EmptyFile(FileSize) ELSE File

Delivered == INSTANCE Delivery WITH file <- ShownFile, outcome <- Outcome
ImplementsDelivery == Delivered!Spec

(***************************************************************************)
(* No checkpoint takes back what an earlier one recorded, across stops and *)
(* resumes.                                                                *)
(***************************************************************************)
CheckpointsAdvance ==
  [][\A i \in Threads :
       /\ Log'[i].RemoteStartPos >= Log[i].RemoteStartPos
       /\ Log'[i].RemoteBytesReceived >= Log[i].RemoteBytesReceived
       /\ Log'[i].LocalStartPos >= Log[i].LocalStartPos]_vars

(***************************************************************************)
(* The retry loop of run() ends: every pthread finishes or gives up, so a  *)
(* joinThread on the GUI thread returns.                                   *)
(***************************************************************************)
PthreadsEnd == \A i \in Threads : pc[i] = "top" ~> pc[i] \in {"ended", "none"}

(***************************************************************************)
(* A task all of whose threads are done is declared finished, unless the   *)
(* user stops it, or the GUI thread is caught in threadWaitCond, or in     *)
(* lockThread after a pthread_create that failed, or has overwritten the   *)
(* status of a thread that was done for a pthread that was not created.    *)
(***************************************************************************)
NeverCreated == \E i \in Threads : Status[i] = "IDLE" /\ pc[i] = "ended"

CompletionIsNoticed ==
  (TaskStatus = "RUNNING" /\ WithStatus("ALLDONE") = Threads)
    ~> (TaskStatus \in {"FINISHED", "STOP"} \/ gui \in {"cond", "blocked"} \/ NeverCreated)

(***************************************************************************)
(* A download goes on: its pthreads end, and its completion is noticed.     *)
(***************************************************************************)
DownloadEnds == PthreadsEnd /\ CompletionIsNoticed

(***************************************************************************)
(* What the program tells the user when a task ends ("File Succesfully     *)
(* Retreived", "All Done: Download Succesfull!"), without the exception.   *)
(***************************************************************************)
ReportedSuccessIsTrue == TaskStatus = "FINISHED" => FileIsIntact

(***************************************************************************)
(* The GUI thread's wait for ConnectingCond ends: the lines commented out  *)
(* in TFtpThread::retrFileChunk broadcast it when a thread connects.       *)
(***************************************************************************)
ConditionIsSignalled == gui = "cond" ~> gui # "cond"

\* What is explored of a download that is stopped and resumed: the invariants and Delivery are
\* about the time before a torn record is loaded.
BeforeTear == ~tornRecord
=============================================================================
