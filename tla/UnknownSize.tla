---------------------------- MODULE UnknownSize ----------------------------
(***************************************************************************)
(* One running task whose file size the server does not tell, FileSize =   *)
(* -1 in libmtd/Task.cpp.  It has a single download thread, whose positions *)
(* start at 0, whose BlkSize is -1, and which reads until the server closes *)
(* the connection.  The checkpoints are not modelled: loadLogFile ignores  *)
(* them when FileSize is -1.                                               *)
(***************************************************************************)
EXTENDS LocalFile

CONSTANTS
  Schemes,        \* the URL schemes considered: "http", "ftp"
  RemoteSize,     \* how many bytes the server has, unknown to the program
  BufSize,        \* HTTP_BUF_SIZE or FTP_BUF_SIZE
  MaxTryAttempts, \* MAX_TRY_ATTEMPTS
  MaxStops,       \* bound: how often the user stops and resumes the task
  MaxFileLen      \* bound: how long the local file grows

ASSUME SchemesAssumption == Schemes \subseteq {"http", "ftp"} /\ Schemes # {}
ASSUME RemoteSizeAssumption == RemoteSize \in Nat
ASSUME BufSizeAssumption == BufSize \in Nat \ {0}
ASSUME TryAssumption == MaxTryAttempts \in Nat \ {0}
ASSUME StopsAssumption == MaxStops \in Nat
ASSUME LenAssumption == MaxFileLen \in Nat

VARIABLES
  Scheme,              \* the scheme of the URL: THttpThread or TFtpThread
  TaskStatus,          \* TTask::Status
  IsResumeSupport,     \* TTask::IsResumeSupport
  Status,              \* TaskThread::Status
  RemoteStartPos, LocalStartPos, RemoteBytesReceived,
  TryAttempts,         \* attempts, saturated at MaxTryAttempts
  pc,                  \* what the pthread does next
  BytesRead,           \* the local BytesRead of retrUnknownSizeFile
  FilePos,             \* where its FILE pointer stands
  ServerPos,           \* the next byte the server sends
  File,                \* the ".dg" file
  gui,                 \* what the GUI thread does next
  stops                \* how often the task was stopped

positions == <<RemoteStartPos, LocalStartPos, RemoteBytesReceived>>
locals == <<BytesRead, FilePos, ServerPos>>
vars == <<Scheme, TaskStatus, IsResumeSupport, Status, positions, TryAttempts, pc, locals,
          File, gui, stops>>

BlkSize == -1

Init ==
  /\ Scheme \in Schemes
  /\ TaskStatus = "RUNNING"
  /\ IsResumeSupport = FALSE
  /\ Status = "IDLE"
  /\ RemoteStartPos = 0 /\ LocalStartPos = 0 /\ RemoteBytesReceived = 0
  /\ TryAttempts = 0
  /\ pc = "top"
  /\ BytesRead = 0 /\ FilePos = 0 /\ ServerPos = 0
  /\ File = EmptyFile(RemoteSize)
  /\ gui = "loop"
  /\ stops = 0

-----------------------------------------------------------------------------
(* The download thread:                                                     *)
(*   top -> connecting -> recv <-> remote, local, count -> ended            *)
(* or by way of failed back to top.                                         *)

Step(from, to) == pc = from /\ pc' = to

Elsewhere == <<Scheme, TaskStatus, IsResumeSupport, gui, stops>>

\* Mutant of AttemptsAfter: an attempt is not counted.
AttemptsUncounted == TryAttempts

AttemptsAfter == IF TryAttempts < MaxTryAttempts THEN TryAttempts + 1 ELSE MaxTryAttempts

\* run() finds BlkSize = RemoteBytesReceived; here both are -1.
FindBlockDone ==
  /\ BlkSize = RemoteBytesReceived
  /\ Step("top", "ended")
  /\ Status' = "ALLDONE"
  /\ UNCHANGED <<positions, TryAttempts, locals, File, Elsewhere>>

BeginConnect ==
  /\ BlkSize # RemoteBytesReceived
  /\ Step("top", "connecting")
  /\ Status' = "CONNECTING"
  /\ UNCHANGED <<positions, TryAttempts, locals, File, Elsewhere>>

\* retrFileChunk returns false; the locals go out of scope.
Fail(s) ==
  /\ pc' = "failed"
  /\ Status' = s
  /\ BytesRead' = 0 /\ FilePos' = 0 /\ ServerPos' = 0

\* For FTP this stands for the login and all commands up to RETR as well.
ConnectFails ==
  /\ pc = "connecting"
  /\ \E s \in {"REMOTEFATAL", "LOCALFATAL"} \cup IF Scheme = "ftp" THEN {"LOGINFAIL"} ELSE {} :
       Fail(s)
  /\ UNCHANGED <<positions, TryAttempts, File, Elsewhere>>

\* The byte the server starts from: HTTP always sends "Range: bytes=start-",
\* which means nothing to a server when start is negative; FTP sends REST only
\* with IsResumeSupport.
AskedFrom ==
  IF RemoteStartPos >= 0 /\ (Scheme = "http" \/ IsResumeSupport) THEN RemoteStartPos ELSE 0

\* The request is answered and the local file opened; fseeko to a negative
\* position fails and leaves the file pointer at 0.
OpenLocalFile ==
  /\ Step("connecting", "recv")
  /\ Status' = "DOWNLOADING"
  /\ FilePos' = IF LocalStartPos < 0 THEN 0 ELSE LocalStartPos
  /\ ServerPos' = AskedFrom
  /\ UNCHANGED <<positions, TryAttempts, BytesRead, File, Elsewhere>>

\* recv returns n bytes and fwrite stores them.
RecvData ==
  /\ \E n \in 1 .. BufSize :
       /\ ServerPos + n <= RemoteSize
       /\ FilePos + n <= MaxFileLen
       /\ File' = Written(File, RemoteSize, FilePos, ServerPos, n)
       /\ FilePos' = FilePos + n
       /\ ServerPos' = ServerPos + n
       /\ BytesRead' = n
  /\ Step("recv", "remote")
  /\ UNCHANGED <<Status, positions, TryAttempts, Elsewhere>>

\* fwrite fails.
WriteFails ==
  /\ pc = "recv"
  /\ ServerPos < RemoteSize
  /\ Fail("LOCALFATAL")
  /\ UNCHANGED <<positions, TryAttempts, File, Elsewhere>>

\* recv returns 0 at the end of the file, or -1 on an error or a timeout.
\* THttpThread adds that to its positions like any other count.
RecvLast ==
  /\ \E r \in {-1} \cup IF ServerPos >= RemoteSize THEN {0} ELSE {} : BytesRead' = r
  /\ Step("recv", IF Scheme = "http" THEN "remote" ELSE "last")
  /\ UNCHANGED <<Status, positions, TryAttempts, FilePos, ServerPos, File, Elsewhere>>

AddRemoteStartPos ==
  /\ Step("remote", "local")
  /\ RemoteStartPos' = RemoteStartPos + BytesRead
  /\ UNCHANGED <<Status, LocalStartPos, RemoteBytesReceived, TryAttempts, locals, File,
                 Elsewhere>>

AddLocalStartPos ==
  /\ Step("local", "count")
  /\ LocalStartPos' = LocalStartPos + BytesRead
  /\ UNCHANGED <<Status, RemoteStartPos, RemoteBytesReceived, TryAttempts, locals, File,
                 Elsewhere>>

AddRemoteBytesReceived ==
  /\ Step("count", IF BytesRead > 0 THEN "recv" ELSE "last")
  /\ RemoteBytesReceived' = RemoteBytesReceived + BytesRead
  /\ UNCHANGED <<Status, RemoteStartPos, LocalStartPos, TryAttempts, locals, File, Elsewhere>>

\* Mutant of FinishBlock: an error ends the file as well.
FinishBlockOnError ==
  /\ BytesRead <= 0
  /\ Step("last", "ended")
  /\ Status' = "ALLDONE"
  /\ TryAttempts' = AttemptsAfter
  /\ BytesRead' = 0 /\ FilePos' = 0 /\ ServerPos' = 0
  /\ UNCHANGED <<positions, File, Elsewhere>>

\* After the loop: -1 is a failure, 0 the end of the file.
FinishBlock ==
  /\ BytesRead = 0
  /\ Step("last", "ended")
  /\ Status' = "ALLDONE"
  /\ TryAttempts' = AttemptsAfter
  /\ BytesRead' = 0 /\ FilePos' = 0 /\ ServerPos' = 0
  /\ UNCHANGED <<positions, File, Elsewhere>>

RecvFailed ==
  /\ pc = "last"
  /\ BytesRead = -1
  /\ Fail("REMOTEFATAL")
  /\ UNCHANGED <<positions, TryAttempts, File, Elsewhere>>

\* The tail of run()'s loop.
Retry ==
  /\ AttemptsAfter < MaxTryAttempts
  /\ Step("failed", "top")
  /\ Status' = "IDLE"
  /\ TryAttempts' = AttemptsAfter
  /\ UNCHANGED <<positions, locals, File, Elsewhere>>

GiveUp ==
  /\ AttemptsAfter >= MaxTryAttempts
  /\ Step("failed", "ended")
  /\ Status' = "MAXTRYS"
  /\ TryAttempts' = AttemptsAfter
  /\ UNCHANGED <<positions, locals, File, Elsewhere>>

run ==
  \/ FindBlockDone \/ BeginConnect \/ ConnectFails \/ OpenLocalFile \/ RecvData
  \/ WriteFails \/ RecvLast \/ AddRemoteStartPos \/ AddLocalStartPos
  \/ AddRemoteBytesReceived \/ FinishBlock \/ RecvFailed \/ Retry \/ GiveUp

-----------------------------------------------------------------------------
(* The GUI thread *)

Thread == <<Scheme, Status, positions, TryAttempts, pc, locals, File>>

\* scheduleThread with its single thread in trouble: it is joined, and unless
\* its login failed the wait for ConnectingCond follows.
scheduleThread ==
  /\ gui = "loop" /\ TaskStatus = "RUNNING"
  /\ Status \in {"LOGINFAIL", "REMOTEFATAL"}
  /\ gui' = IF Status = "LOGINFAIL" THEN "join" ELSE "joinwait"
  /\ UNCHANGED <<Thread, TaskStatus, IsResumeSupport, stops>>

joinThread ==
  /\ gui \in {"join", "joinwait"}
  /\ pc = "ended"
  /\ pc' = "top"
  /\ Status' = "IDLE"
  /\ gui' = IF gui = "join" THEN "loop" ELSE "cond"
  /\ UNCHANGED <<Scheme, positions, TryAttempts, locals, File, TaskStatus, IsResumeSupport,
                 stops>>

threadWaitCond ==
  /\ gui = "cond"
  /\ gui' = "loop"
  /\ UNCHANGED <<Thread, TaskStatus, IsResumeSupport, stops>>

\* The rest of ProcessRunningTask.
CheckCompleted ==
  /\ gui = "loop" /\ TaskStatus = "RUNNING"
  /\ Status = "ALLDONE"
  /\ TaskStatus' = "FINISHED"
  /\ UNCHANGED <<Thread, IsResumeSupport, gui, stops>>

dlStop ==
  /\ gui = "loop" /\ TaskStatus = "RUNNING"
  /\ stops < MaxStops
  /\ stops' = stops + 1
  /\ TaskStatus' = "STOP"
  /\ UNCHANGED <<Thread, IsResumeSupport, gui>>

\* terminateThreads cancels the pthread wherever it is.
ProcessStopedTask ==
  /\ gui = "loop" /\ TaskStatus = "STOP"
  /\ pc' = "none"
  /\ BytesRead' = 0 /\ FilePos' = 0 /\ ServerPos' = 0
  /\ TaskStatus' = "ZOMBIE"
  /\ UNCHANGED <<Scheme, Status, positions, TryAttempts, File, IsResumeSupport, gui, stops>>

dlStart ==
  /\ gui = "loop" /\ TaskStatus = "ZOMBIE"
  /\ TaskStatus' = "RESUME"
  /\ UNCHANGED <<Thread, IsResumeSupport, gui, stops>>

\* loadLogFile resets RemoteStartPos and leaves the other positions alone.
ProcessResumeTask ==
  /\ gui = "loop" /\ TaskStatus = "RESUME"
  /\ IsResumeSupport' = TRUE
  /\ RemoteStartPos' = 0
  /\ Status' = "IDLE"
  /\ TryAttempts' = 0
  /\ pc' = "top"
  /\ TaskStatus' = "RUNNING"
  /\ UNCHANGED <<Scheme, LocalStartPos, RemoteBytesReceived, locals, File, gui, stops>>

GuiStep ==
  \/ scheduleThread \/ joinThread \/ CheckCompleted \/ ProcessStopedTask
  \/ ProcessResumeTask

Next == run \/ GuiStep \/ threadWaitCond \/ dlStop \/ dlStart

\* Every recv has a timeout, so the pthread keeps going; the event loop keeps
\* delivering the timer.
Fairness == WF_vars(run) /\ WF_vars(GuiStep)

Spec == Init /\ [][Next]_vars /\ Fairness

-----------------------------------------------------------------------------
(* Properties *)

TypeOK ==
  /\ Scheme \in Schemes
  /\ TaskStatus \in {"RUNNING", "STOP", "ZOMBIE", "RESUME", "FINISHED"}
  /\ IsResumeSupport \in BOOLEAN
  /\ Status \in {"IDLE", "CONNECTING", "DOWNLOADING", "ALLDONE", "LOGINFAIL",
                 "REMOTEFATAL", "LOCALFATAL", "MAXTRYS"}
  /\ {RemoteStartPos, LocalStartPos, RemoteBytesReceived} \subseteq Int
  /\ TryAttempts \in 0 .. MaxTryAttempts
  /\ pc \in {"none", "top", "connecting", "recv", "remote", "local", "count", "last",
             "failed", "ended"}
  /\ BytesRead \in -1 .. BufSize
  /\ FilePos \in Nat
  /\ ServerPos \in Int
  /\ File \in [Cells(RemoteSize) -> Int]
  /\ gui \in {"loop", "join", "joinwait", "cond"}
  /\ stops \in 0 .. MaxStops

(***************************************************************************)
(* Between two attempts the positions agree, and over HTTP the file holds  *)
(* the remote file up to them: the error code that THttpThread adds to its *)
(* positions moves all of them back together, onto a byte that is fetched  *)
(* again.                                                                  *)
(***************************************************************************)
AttemptsResumeWhereTheyLeft ==
  stops = 0 /\ pc \in {"top", "connecting", "failed", "ended"} =>
    /\ LocalStartPos = RemoteStartPos
    /\ RemoteBytesReceived = RemoteStartPos
    /\ Scheme = "http" => Holds(File, RemoteSize, 0, RemoteStartPos)

(***************************************************************************)
(* A thread that is done has the whole file, after any number of failed    *)
(* attempts, unless an error came before the first byte: then the count is *)
(* -1, which run() takes for BlkSize.                                      *)
(***************************************************************************)
DoneFileIsIntact ==
  Scheme = "http" /\ stops = 0 /\ Status = "ALLDONE" /\ RemoteBytesReceived # -1 =>
    IsIntact(File, RemoteSize)

(***************************************************************************)
(* What holds throughout the attempts of retrUnknownSizeFile.              *)
(***************************************************************************)
AttemptInv == TypeOK /\ AttemptsResumeWhereTheyLeft /\ DoneFileIsIntact

(***************************************************************************)
(* The retry loop of run() ends, although the count of bytes received goes *)
(* down as well as up.                                                     *)
(***************************************************************************)
PthreadEnds == pc = "top" ~> pc \in {"ended", "none"}

(***************************************************************************)
(* What the program tells the user when a task ends: "All Done: Download   *)
(* Succesfull!".                                                           *)
(***************************************************************************)
ReportedSuccessIsTrue == TaskStatus = "FINISHED" => IsIntact(File, RemoteSize)
=============================================================================
