----------------------------- MODULE Partition -----------------------------
(***************************************************************************)
(* How a task's remote file is cut into one block per download thread:     *)
(* FrmMainWin::ProcessStartTask fixes the number of threads and            *)
(* TTask::initTaskThreadQue gives every thread its block.                  *)
(***************************************************************************)
EXTENDS Integers

CONSTANTS
  MinFileSize   \* MIN_FILE_SIZE: smaller files are fetched by one thread

ASSUME MinFileSizeAssumption == MinFileSize \in Nat

(***************************************************************************)
(* FileSize = UnknownSize when the server does not tell the length.        *)
(***************************************************************************)
UnknownSize == -1

(***************************************************************************)
(* The number of threads that fetch the file, given what the user asked    *)
(* for (the spin box of the dialog allows 1..6).                           *)
(***************************************************************************)
TaskThreadCnt(FileSize, IsResumeSupport, nblks) ==
  IF ~IsResumeSupport \/ FileSize < MinFileSize THEN 1 ELSE nblks

BytesPerConn(FileSize, ThreadCnt) ==
  IF FileSize = UnknownSize THEN -1 ELSE FileSize \div ThreadCnt

BytesLeft(FileSize, ThreadCnt) ==
  IF FileSize = UnknownSize THEN -1 ELSE FileSize % ThreadCnt

(***************************************************************************)
(* The remainder of the division is added to the block of the last thread. *)
(***************************************************************************)
Remainder(FileSize, ThreadCnt, i) ==
  IF FileSize # UnknownSize /\ ThreadCnt > 1 /\ i = ThreadCnt - 1
  THEN BytesLeft(FileSize, ThreadCnt) ELSE 0

BlockStart(FileSize, ThreadCnt, i) ==
  IF FileSize = UnknownSize THEN 0 ELSE i * BytesPerConn(FileSize, ThreadCnt)

BlockEnd(FileSize, ThreadCnt, i) ==
  IF FileSize = UnknownSize THEN -1
  ELSE (i + 1) * BytesPerConn(FileSize, ThreadCnt) + Remainder(FileSize, ThreadCnt, i)

BlockSize(FileSize, ThreadCnt, i) ==
  BytesPerConn(FileSize, ThreadCnt) + Remainder(FileSize, ThreadCnt, i)
=============================================================================
