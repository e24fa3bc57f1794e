-------------------------------- MODULE Led --------------------------------
(***************************************************************************)
(* The picture of a download (libui/Led.cpp): a cell for every blockSize     *)
(* bytes of the file.  Once a second FrmMainWin::UpdateCurThreadsInfo draws  *)
(* what the threads of the selected task have received since; it reads their  *)
(* positions while they change, and no lock is held.                        *)
(***************************************************************************)
EXTENDS Partition, FiniteSets

CONSTANTS
    Files,          \* pairs: size of the file, threads of the task
    per_size,       \* bytes of a cell: 16 * 1024
    MaxChunk,       \* bound: bytes of one recv
    MaxTurns        \* bound: how often the task is resumed

VARIABLES
    FileSize, ThreadCnt,
    status,                     \* "start", "running", "stopped"
    turns,
    RemoteStartPos, RemoteBytesReceived,    \* thread -> its positions
    chunk,                      \* thread -> bytes added to the first position only
    CHS,                        \* thread -> what was drawn of it
    vvCell,                     \* the cells, cellCount of them
    step, at,                   \* "load", "setup"; UpdateCurThreadsInfo: its statement; the thread
    drawn,                      \* history: thread -> where its last drawing ended
    exact                       \* history: the threads that stood still whenever they were read

positions == <<RemoteStartPos, RemoteBytesReceived, chunk>>
picture == <<CHS, vvCell, step, at, drawn, exact>>
lvars == <<FileSize, ThreadCnt, status, turns, positions, picture>>

Threads == 0 .. ThreadCnt - 1

\* Division of C: towards zero, as is the sign of the remainder.
CDiv(a, b) == IF a < 0 THEN -((-a) \div b) ELSE a \div b
CMod(a, b) == a - b * CDiv(a, b)

-----------------------------------------------------------------------------
(* TLed. *)

Cells(size) == CDiv(size, per_size) + IF CMod(size, per_size) # 0 THEN 1 ELSE 0

\* Nothing is set up for an empty file.
initLed(cells, size) == IF size = 0 THEN cells ELSE [k \in 0 .. Cells(size) - 1 |-> "WAIT"]

Clipped(offset, length) ==
    IF offset > FileSize THEN [offset |-> FileSize, length |-> 0]
    ELSE IF offset + length > FileSize THEN [offset |-> offset, length |-> FileSize - offset]
    ELSE [offset |-> offset, length |-> length]

\* As a mutant: the cell in which a drawing ends is done as well.
LastCellDone(cells, end) == IF CDiv(end, per_size) \in DOMAIN cells THEN "DONE" ELSE "none"

\* What becomes of the cell in which a drawing ends.
LastCell(cells, end) ==
    IF CMod(end, per_size) # 0 THEN IF end < FileSize THEN "CURRENT" ELSE "DONE"
    ELSE IF CDiv(end, per_size) \in DOMAIN cells THEN
        IF cells[CDiv(end, per_size)] = "DONE" THEN "DONE" ELSE "CURRENT"
    ELSE "none"

Drawn(cells, offset, length) ==
    LET c == Clipped(offset, length)
        i == CDiv(c.offset, per_size)
        j == CDiv(c.offset + c.length, per_size)
        full == [k \in DOMAIN cells |-> IF i <= k /\ k < j THEN "DONE" ELSE cells[k]]
        last == LastCell(full, c.offset + c.length)
    IN  [k \in DOMAIN cells |-> IF k = j /\ last # "none" THEN last ELSE full[k]]

\* The cells a drawing touches.
Touched(offset, length) ==
    LET c == Clipped(offset, length)
        j == CDiv(c.offset + c.length, per_size)
    IN  CDiv(c.offset, per_size) .. (j - 1)
        \cup IF CMod(c.offset + c.length, per_size) # 0 THEN {j} ELSE {}

-----------------------------------------------------------------------------
\* What was read of a thread when it was drawn.
Read(offset, finished) == [offset |-> offset, finished |-> finished]

Init ==
    /\ \E f \in Files : FileSize = f[1] /\ ThreadCnt = f[2]
    /\ status = "start" /\ turns = 0
    /\ RemoteStartPos = [i \in Threads |-> BlockStart(FileSize, ThreadCnt, i)]
    /\ RemoteBytesReceived = [i \in Threads |-> 0]
    /\ chunk = [i \in Threads |-> 0]
    /\ CHS = [i \in Threads |-> Read(0, 0)]
    /\ vvCell = [k \in {} |-> "WAIT"]
    /\ step = "idle" /\ at = 0
    /\ drawn = [i \in Threads |-> 0] /\ exact = {}

(* ProcessStartTask and ProcessResumeTask: the picture is set up, and what each thread has received
   is drawn, before there are pthreads.  The second takes i * BlkSize for where the block of thread i
   begins, which is too far by the remainder when it is the last one. *)
Setup ==
    /\ status \in {"start", "stopped"} /\ step = "idle"
    /\ vvCell' = initLed(vvCell, FileSize)
    /\ step' = "setup" /\ at' = 0
    /\ drawn' = [i \in Threads |-> BlockStart(FileSize, ThreadCnt, i)] /\ exact' = Threads
    /\ UNCHANGED <<FileSize, ThreadCnt, status, turns, positions, CHS>>

\* The positions of a thread tell of one moment.
Whole(i) == RemoteStartPos[i] = BlockStart(FileSize, ThreadCnt, i) + RemoteBytesReceived[i]

Begin(i) ==
    IF status = "start" THEN RemoteStartPos[i] ELSE i * BlockSize(FileSize, ThreadCnt, i)

DrawReceived ==
    /\ step = "setup"
    /\ vvCell' = Drawn(vvCell, Begin(at), RemoteBytesReceived[at])
    /\ drawn' = [drawn EXCEPT ![at] = Begin(at) + RemoteBytesReceived[at]]
    /\ exact' = IF Begin(at) = BlockStart(FileSize, ThreadCnt, at) /\ Whole(at)
                THEN exact ELSE exact \ {at}
    /\ CHS' = [CHS EXCEPT ![at] = Read(RemoteStartPos[at], RemoteBytesReceived[at])]
    /\ at' = (at + 1) % ThreadCnt
    /\ IF at = ThreadCnt - 1 THEN step' = "idle" /\ status' = "running"
                              ELSE UNCHANGED <<step, status>>
    /\ UNCHANGED <<FileSize, ThreadCnt, turns, positions>>

\* The user stops the task, wherever its pthreads are.
Stop ==
    /\ status = "running" /\ turns < MaxTurns /\ step = "idle" /\ at = 0
    /\ status' = "stopped" /\ turns' = turns + 1 /\ step' = "load"
    /\ drawn' = [i \in Threads |-> 0] /\ exact' = {}
    /\ UNCHANGED <<FileSize, ThreadCnt, positions, CHS, vvCell, at>>

(* What updateLogFile may have written of a thread while its pthread ran: it reads where the
   thread is, later what it has received, and the pthread changes one after the other.  Of a file
   of unknown size the log has no records. *)
Records(i) ==
    IF FileSize = UnknownSize THEN {[start |-> 0, received |-> RemoteBytesReceived[i]]}
    ELSE {rec \in [start : BlockStart(FileSize, ThreadCnt, i) .. RemoteStartPos[i],
                   received : 0 .. RemoteBytesReceived[i]] :
             rec.start - rec.received <= RemoteStartPos[i] - RemoteBytesReceived[i] - chunk[i] + MaxChunk}

\* ProcessResumeTask begins with it: thread after thread the positions of the record.
loadLogFile ==
    /\ step = "load"
    /\ \E rec \in Records(at) :
          /\ RemoteStartPos' = [RemoteStartPos EXCEPT ![at] = rec.start]
          /\ RemoteBytesReceived' = [RemoteBytesReceived EXCEPT ![at] = rec.received]
    /\ chunk' = [chunk EXCEPT ![at] = 0]
    /\ at' = (at + 1) % ThreadCnt
    /\ step' = IF at = ThreadCnt - 1 THEN "idle" ELSE "load"
    /\ UNCHANGED <<FileSize, ThreadCnt, status, turns, CHS, vvCell, drawn, exact>>

(* A pthread stores n bytes: two positions, one after the other.  The last piece may reach a byte
   beyond the block, unless the file ends there. *)
Limit(i) ==
    IF FileSize = UnknownSize THEN MaxChunk
    ELSE IF BlockEnd(FileSize, ThreadCnt, i) = FileSize THEN FileSize
    ELSE BlockEnd(FileSize, ThreadCnt, i) + 1

Receive(i) ==
    /\ status = "running"
    /\ \/ /\ chunk[i] = 0
          /\ FileSize = UnknownSize \/ RemoteStartPos[i] < BlockEnd(FileSize, ThreadCnt, i)
          /\ \E n \in 1 .. MaxChunk :
                /\ RemoteStartPos[i] + n <= Limit(i)
                /\ RemoteStartPos' = [RemoteStartPos EXCEPT ![i] = @ + n]
                /\ chunk' = [chunk EXCEPT ![i] = n]
          /\ UNCHANGED RemoteBytesReceived
       \/ /\ chunk[i] > 0
          /\ RemoteBytesReceived' = [RemoteBytesReceived EXCEPT ![i] = @ + chunk[i]]
          /\ chunk' = [chunk EXCEPT ![i] = 0]
          /\ UNCHANGED RemoteStartPos
    /\ UNCHANGED <<FileSize, ThreadCnt, status, turns, picture>>

-----------------------------------------------------------------------------
Increase(i) == RemoteBytesReceived[i] - CHS[i].finished

(* UpdateCurThreadsInfo, thread after thread: what is new is drawn; then the bytes received and
   the position are each read once more. *)
DrawIncrease ==
    /\ status = "running" /\ step = "idle"
    /\ step' = "finished"
    /\ vvCell' = Drawn(vvCell, CHS[at].offset, Increase(at))
    /\ drawn' = [drawn EXCEPT ![at] = CHS[at].offset + Increase(at)]
    /\ UNCHANGED <<CHS, at, exact>>

SetFinished ==
    /\ step = "finished" /\ step' = "offset"
    /\ CHS' = [CHS EXCEPT ![at] = Read(@.offset, RemoteBytesReceived[at])]
    /\ UNCHANGED <<vvCell, at, drawn, exact>>

SetOffset ==
    /\ step = "offset" /\ step' = "idle"
    /\ CHS' = [CHS EXCEPT ![at] = Read(RemoteStartPos[at], @.finished)]
    /\ at' = (at + 1) % ThreadCnt
    /\ exact' = IF drawn[at] = RemoteStartPos[at] /\ chunk[at] = 0 THEN exact ELSE exact \ {at}
    /\ UNCHANGED <<vvCell, drawn>>

UpdateCurThreadsInfo ==
    /\ DrawIncrease \/ SetFinished \/ SetOffset
    /\ UNCHANGED <<FileSize, ThreadCnt, status, turns, positions>>

Next ==
    \/ Setup \/ DrawReceived \/ Stop \/ loadLogFile \/ UpdateCurThreadsInfo
    \/ \E i \in Threads : Receive(i)

-----------------------------------------------------------------------------
\* The cells that show bytes of thread i only: the thread before it may overrun into its first.
OwnCells(i) ==
    {k \in DOMAIN vvCell :
        /\ k * per_size > BlockStart(FileSize, ThreadCnt, i) \/ i = 0
        /\ \/ (k + 1) * per_size <= BlockEnd(FileSize, ThreadCnt, i)
           \/ i = ThreadCnt - 1 }

CellEnd(k) == IF (k + 1) * per_size < FileSize THEN (k + 1) * per_size ELSE FileSize

(* While a thread and those before it have stood still whenever they were read, its cells show
   what it had received at the last drawing: those filled by then are done and no other,
   although every drawing gives only what is new, from where the last one ended, and begins in
   the middle of a cell.  (A thread that moves while it is read is drawn over its neighbours, and
   so is one that was resumed from a record of two moments, as long as the task runs.) *)
PictureIsExact ==
    (status = "running" /\ FileSize > 0) =>
        \A i \in Threads : 0 .. i \subseteq exact =>
            \A k \in OwnCells(i) : (vvCell[k] = "DONE") <=> (CellEnd(k) <= drawn[i])

(* No drawing touches a cell the picture does not have, whatever was read. *)
DrawingsStayInside ==
    (status = "running" /\ FileSize # 0) =>
        Touched(CHS[at].offset, Increase(at)) \subseteq DOMAIN vvCell

LedInv == PictureIsExact /\ DrawingsStayInside
=============================================================================
