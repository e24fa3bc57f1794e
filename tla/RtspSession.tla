----------------------------- MODULE RtspSession -----------------------------
(***************************************************************************)
(* A download over RTSP: the query for the size, the pthreads of the task    *)
(* (TRtspThread, libmtd/Task.cpp) and the joining of their files.  Each has  *)
(* a client of its own (TRtspCliEx, libmtd/RtspCliEx.cpp) over a session     *)
(* (libstream/rtsp_session.c, rtsp.c, real.c) and writes a file of its own,  *)
(* so that they are taken one after the other.                               *)
(*                                                                         *)
(* A block of bytes is turned into a window of milliseconds, and a pthread   *)
(* stores the packets whose stamps are in its window.  A byte is the pair of *)
(* its packet and its place in it; packet 0 is the header.                   *)
(***************************************************************************)
EXTENDS Integers, Sequences

CONSTANTS
    Streams,                \* what a server may send: sequences of [ts, size]
    Duration, AvgBitRate,   \* prop.duration, prop.avg_bit_rate
    HeaderLen, ThreadCnt, RTSP_BUF_SIZE, MAXRETRYCONN, MAX_TRY_ATTEMPTS

None == -1                  \* UINT_MAX of pstend
MissingFile == <<<<None, 0>>>>
Threads == 0 .. ThreadCnt - 1

(* Size; the blocks of the task; PreProcess, and SendRequest, which asks no further than the
   end. *)
FileSize == (Duration * AvgBitRate) \div 8000
BlockStart(k) == k * (FileSize \div ThreadCnt)
BlockEnd(k) == IF k = ThreadCnt - 1 THEN FileSize ELSE BlockStart(k + 1)
BlkSize(k) == BlockEnd(k) - BlockStart(k)

ToStamp(bytes) == (bytes * 8000) \div AvgBitRate

Window(start, end) ==
    LET offset == ToStamp(start)
        length == ToStamp(end - start)
        cut == IF offset + length >= Duration THEN Duration - offset ELSE length
    IN  [from |-> offset, to |-> IF cut > 0 THEN offset + cut ELSE None]

VARIABLES
    pc,
    ThreadId,       \* of the running pthread; None: fetchRemoteFileInfo
    Status, RemoteStartPos, RemoteBytesReceived, TryAttempts, flagx,
    msock, Ref,     \* of Connect
    session,        \* source: what is unread of recv; skipped: recv_size is 0 all the same;
                    \* pstart, pstend; timestamp: of package
    data,           \* what rtsp_session_read has copied
    server,         \* kind; stream; next packet; link
    files,          \* of the pthreads
    windows,        \* of the pthreads, for the last attempt: from, to, whole
    joined

thread == <<ThreadId, Status, RemoteStartPos, RemoteBytesReceived, TryAttempts>>
connecting == <<msock, Ref>>
vars == <<pc, thread, flagx, connecting, session, data, server, files, windows, joined>>

FreshSession == [source |-> <<>>, skipped |-> FALSE, pstart |-> 0, pstend |-> None, timestamp |-> 0]
BytesOf(n, size) == [i \in 1 .. size |-> <<n, i>>]
HeaderBytes == BytesOf(0, HeaderLen)
PacketBytes(n) == BytesOf(n, server.stream[n].size)
InWindow(ts, from, to) == from <= ts /\ (to # None => ts < to)

-----------------------------------------------------------------------------
(* TRtspThread::run. *)
AttemptsAfter(n) == n + 1

Attempted(ok) ==
    /\ TryAttempts' = AttemptsAfter(TryAttempts)
    /\ pc' = IF ok \/ AttemptsAfter(TryAttempts) >= MAX_TRY_ATTEMPTS THEN "done" ELSE "run"

run ==
    /\ pc = "run"
    /\ IF BlkSize(ThreadId) = RemoteBytesReceived
       THEN pc' = "done" /\ Status' = "ALLDONE"
       ELSE pc' = "connect" /\ Status' = "CONNECTING"
    /\ UNCHANGED <<ThreadId, RemoteStartPos, RemoteBytesReceived, TryAttempts, flagx, connecting,
                   session, data, server, files, windows, joined>>

(* The next pthread of the task. *)
StartThread ==
    /\ pc = "next"
    /\ ThreadId' = ThreadId + 1
    /\ Status' = "IDLE" /\ TryAttempts' = 0
    /\ RemoteStartPos' = BlockStart(ThreadId + 1) /\ RemoteBytesReceived' = 0
    /\ pc' = "run"
    /\ UNCHANGED <<flagx, connecting, session, data, server, files, windows, joined>>

ThreadEnds ==
    /\ pc = "done"
    /\ pc' = IF Status # "ALLDONE" THEN "failed"
             ELSE IF ThreadId = ThreadCnt - 1 THEN "join" ELSE "next"
    /\ UNCHANGED <<thread, flagx, connecting, session, data, server, files, windows, joined>>

-----------------------------------------------------------------------------
(* TRtspCliEx::Connect.  msock is not initialised. *)
Connect ==
    /\ pc = "connect"
    /\ msock' \in {-1, 0} /\ Ref' = 0 /\ pc' = "start"
    /\ UNCHANGED <<thread, flagx, session, data, server, files, windows, joined>>

ConnectFails ==
    IF ThreadId = None THEN pc' = "noinfo" /\ UNCHANGED <<Status, TryAttempts>>
    ELSE /\ TryAttempts' = AttemptsAfter(TryAttempts)
         /\ pc' = IF TryAttempts' >= MAX_TRY_ATTEMPTS THEN "done" ELSE "run"
         /\ Status' = IF pc' = "done" THEN "MAXTRYS" ELSE "REMOTEFATAL"

Connected == [kind |-> server.kind, stream |-> server.stream, next |-> 1, link |-> "up"]

(* rtsp_session_start with rtsp_connect: a descriptor that is not negative is used as it is,
   and no server answers on it. *)
rtsp_session_start ==
    /\ pc = "start"
    /\ server' = Connected
    /\ session' = FreshSession
    /\ IF Ref > MAXRETRYCONN THEN ConnectFails /\ UNCHANGED Ref
       ELSE /\ UNCHANGED <<Status, TryAttempts>>
            /\ \/ Ref' = Ref + 1 /\ UNCHANGED pc
               \/ msock < 0 /\ pc' = "describe" /\ UNCHANGED Ref
    /\ UNCHANGED <<ThreadId, RemoteStartPos, RemoteBytesReceived, flagx, msock, data, files,
                   windows, joined>>

(* real_setup_and_get_header: no description, a Location to go to, or the header of the
   stream, of which at most 1024 bytes are kept.  SETUP and SET_PARAMETER may fail unnoticed.
   A server without RealChallenge1 ends the program. *)
real_setup_and_get_header ==
    /\ pc = "describe"
    /\ \/ pc' = "start" /\ Ref' = Ref + 1 /\ UNCHANGED <<session, server>>
       \/ pc' = "redirected" /\ UNCHANGED <<Ref, session, server>>
       \/ server.kind = "no challenge" /\ pc' = "crashed" /\ UNCHANGED <<Ref, session, server>>
       \/ /\ server.kind # "no challenge"
          /\ session' = [session EXCEPT !.source =
                            IF server.kind = "plain" THEN HeaderBytes ELSE <<>>]
          /\ pc' = "open" /\ UNCHANGED <<Ref, server>>
    /\ UNCHANGED <<thread, flagx, msock, data, files, windows, joined>>

(* rtsp_connect once more, to the place the server named; redirections are not counted. *)
Redirected ==
    /\ pc = "redirected"
    /\ \/ pc' = "describe" /\ UNCHANGED Ref
       \/ pc' = "start" /\ Ref' = Ref + 1
    /\ UNCHANGED <<thread, flagx, msock, session, data, server, files, windows, joined>>

(* Size, for fetchRemoteFileInfo: the header must fit into m_hbuffer. *)
SizeKnown ==
    /\ pc = "open" /\ ThreadId = None
    /\ pc' = IF server.kind = "huge header" THEN "noinfo" ELSE "next"
    /\ UNCHANGED <<thread, flagx, connecting, session, data, server, files, windows, joined>>

Playing(w) == [source |-> session.source, skipped |-> session.skipped, pstart |-> w.from,
               pstend |-> w.to, timestamp |-> session.timestamp]

(* retrKnownSizeFile up to its loop: fopen of a file that is emptied; PreProcess and
   SendRequest. *)
PreProcess ==
    /\ pc = "open" /\ ThreadId # None
    /\ \/ /\ Attempted(FALSE)                               \* fopen
          /\ Status' = IF pc' = "done" THEN "MAXTRYS" ELSE "LOCALFATAL"
          /\ UNCHANGED <<session, files, server, windows>>
       \/ /\ Attempted(FALSE)                               \* PLAY
          /\ Status' = IF pc' = "done" THEN "MAXTRYS" ELSE "DOWNLOADING"
          /\ files' = [files EXCEPT ![ThreadId] = <<>>]
          /\ UNCHANGED <<session, server, windows>>
       \/ /\ Status' = "DOWNLOADING" /\ pc' = "recv" /\ UNCHANGED TryAttempts
          /\ files' = [files EXCEPT ![ThreadId] = <<>>]
          /\ LET w == Window(RemoteStartPos, BlockEnd(ThreadId)) IN
                /\ session' = Playing(w)
                /\ windows' = [windows EXCEPT ![ThreadId] =
                                  [from |-> w.from, to |-> w.to, whole |-> TRUE]]
                /\ \E first \in 1 .. Len(server.stream) + 1 :
                      /\ \A n \in 1 .. first - 1 : server.stream[n].ts < w.from
                      /\ server' = [server EXCEPT !.next = first]
    /\ flagx' = FALSE
    /\ UNCHANGED <<ThreadId, RemoteStartPos, RemoteBytesReceived, connecting, data, joined>>

-----------------------------------------------------------------------------
(* rtsp_session_read.  The loop is left when what is unread of recv fills the buffer; the
   bytes of a packet that was skipped last count as unread there. *)
Quiet == UNCHANGED <<thread, flagx, connecting, files, joined>>
Copy == RTSP_BUF_SIZE - Len(data)
Unread(bytes, skipped, ts) ==
    [source |-> bytes, skipped |-> skipped, pstart |-> session.pstart, pstend |-> session.pstend,
     timestamp |-> ts]

Recv ==
    /\ pc = "recv"
    /\ data' = <<>> /\ pc' = "read"
    /\ UNCHANGED <<session, server, windows>> /\ Quiet

ReadFull ==
    /\ pc = "read" /\ Copy <= Len(session.source)
    /\ data' = data \o SubSeq(session.source, 1, Copy)
    /\ session' = Unread(IF session.skipped THEN <<>>
                         ELSE SubSeq(session.source, Copy + 1, Len(session.source)),
                         FALSE, session.timestamp)
    /\ pc' = "write"
    /\ UNCHANGED <<server, windows>> /\ Quiet

\* As a mutant: the last packet of the window is left out.
BeyondWindowOrLast(ts) == session.pstend # None /\ ts + 1 >= session.pstend

BeyondWindow(ts) == session.pstend # None /\ ts >= session.pstend

(* The rest of the loop, with a chunk of rtsp_get_rdt_chunk; an empty one leaves the stamp of
   the packet before it. *)
Chunk(bytes, ts) ==
    /\ pc = "read" /\ Copy > Len(session.source)
    /\ data' = data \o (IF session.skipped THEN <<>> ELSE session.source)
    /\ \/ /\ ts < session.pstart
          /\ session' = Unread(bytes, TRUE, ts) /\ UNCHANGED pc
       \/ /\ ts >= session.pstart /\ (BeyondWindow(ts) \/ bytes = <<>>)
          /\ session' = Unread(<<>>, FALSE, ts) /\ pc' = "write"
       \/ /\ ts >= session.pstart /\ ~BeyondWindow(ts) /\ bytes # <<>>
          /\ session' = Unread(bytes, FALSE, ts) /\ UNCHANGED pc
    /\ Quiet

RdtChunk ==
    /\ server.link = "up" /\ server.next <= Len(server.stream)
    /\ Chunk(PacketBytes(server.next), server.stream[server.next].ts)
    /\ server' = [server EXCEPT !.next = @ + 1]
    /\ UNCHANGED windows

(* The file of this attempt lacks a part of its window. *)
Torn == [windows EXCEPT ![ThreadId] = [from |-> windows[ThreadId].from, to |-> windows[ThreadId].to,
                                       whole |-> FALSE]]

(* The packet that ends the stream, or the connection is lost, between packets or in one:
   nothing more comes. *)
Unsent == \E n \in server.next .. Len(server.stream) :
             InWindow(server.stream[n].ts, session.pstart, session.pstend)

EndOfStream ==
    /\ server.link = "up"
    /\ Chunk(<<>>, session.timestamp)
    /\ server' = [server EXCEPT !.link = "ended"]
    /\ windows' = IF Unsent THEN Torn ELSE windows

TornChunk ==
    /\ server.link = "up" /\ server.next <= Len(server.stream)
    /\ Chunk(SubSeq(PacketBytes(server.next), 1, 1), server.stream[server.next].ts)
    /\ server' = [server EXCEPT !.link = "ended"]
    /\ windows' = IF Unsent THEN Torn ELSE windows

NoChunk ==
    /\ server.link = "ended"
    /\ Chunk(<<>>, session.timestamp)
    /\ UNCHANGED <<server, windows>>

(* The loop of retrKnownSizeFile.  Without a byte the block is done.  All but the first
   pthread leave out the header, by its length; fwrite's answer is not looked at there, and a
   negative length is a huge one. *)
HeaderToCut == IF ~flagx /\ ThreadId # 0 THEN HeaderLen ELSE 0

Wrote(bytes) ==
    /\ files' = [files EXCEPT ![ThreadId] = @ \o bytes]
    /\ RemoteStartPos' = RemoteStartPos + Len(bytes)
    /\ RemoteBytesReceived' = RemoteBytesReceived + Len(bytes)

Write ==
    /\ pc = "write" /\ data # <<>>
    /\ \/ /\ HeaderToCut <= Len(data)
          /\ Wrote(SubSeq(data, HeaderToCut + 1, Len(data)))
          /\ pc' = "recv" /\ UNCHANGED <<Status, TryAttempts, windows>>
       \/ /\ HeaderToCut > Len(data) /\ pc' = "crashed"
          /\ UNCHANGED <<files, RemoteStartPos, RemoteBytesReceived, Status, TryAttempts, windows>>
       \/ /\ HeaderToCut > 0 /\ Wrote(<<>>)                 \* unnoticed
          /\ windows' = Torn
          /\ pc' = "recv" /\ UNCHANGED <<Status, TryAttempts>>
       \/ /\ HeaderToCut = 0 /\ Attempted(FALSE)
          /\ Status' = IF pc' = "done" THEN "MAXTRYS" ELSE "LOCALFATAL"
          /\ windows' = Torn /\ UNCHANGED <<files, RemoteStartPos, RemoteBytesReceived>>
    /\ flagx' = TRUE
    /\ UNCHANGED <<ThreadId, connecting, session, data, server, joined>>

BlockDone ==
    /\ pc = "write" /\ data = <<>>
    /\ Status' = "ALLDONE" /\ Attempted(TRUE)
    /\ UNCHANGED <<ThreadId, RemoteStartPos, RemoteBytesReceived, flagx, connecting, session, data,
                   server, files, windows, joined>>

(* TTask::fixRealMediaFile: the files in the order of the pthreads, up to a missing one. *)
FilesUpTo(fs) ==
    LET upTo[k \in 0 .. ThreadCnt] ==
            IF k = 0 THEN <<>>
            ELSE IF \E j \in 0 .. k - 1 : fs[j] = MissingFile THEN upTo[k - 1]
            ELSE upTo[k - 1] \o fs[k - 1]
    IN  upTo

fixRealMediaFile ==
    /\ pc = "join"
    /\ joined' = FilesUpTo(files)[ThreadCnt]
    /\ pc' = "joined"
    /\ UNCHANGED <<thread, flagx, connecting, session, data, server, files, windows>>

-----------------------------------------------------------------------------
Init ==
    /\ pc = "connect" /\ ThreadId = None
    /\ Status = "IDLE" /\ RemoteStartPos = 0 /\ RemoteBytesReceived = 0 /\ TryAttempts = 0
    /\ flagx = FALSE /\ msock = 0 /\ Ref = 0
    /\ session = FreshSession /\ data = <<>>
    /\ \E k \in {"plain", "long header", "huge header", "no challenge"}, s \in Streams :
          server = [kind |-> k, stream |-> s, next |-> 1, link |-> "up"]
    /\ files = [k \in Threads |-> MissingFile]
    /\ windows = [k \in Threads |-> [from |-> 0, to |-> 0, whole |-> TRUE]]
    /\ joined = <<>>

Next ==
    \/ run \/ StartThread \/ ThreadEnds \/ Connect \/ rtsp_session_start
    \/ real_setup_and_get_header \/ Redirected \/ SizeKnown \/ PreProcess
    \/ Recv \/ ReadFull \/ RdtChunk \/ EndOfStream \/ TornChunk \/ NoChunk
    \/ Write \/ BlockDone \/ fixRealMediaFile

(* The server is to send something: the answer to OPTIONS, DESCRIBE or PLAY, or a packet.
   xio_rw_abort waits for it without a limit; a lost connection ends the wait. *)
Waits ==
    \/ pc \in {"start", "redirected", "describe"}
    \/ pc = "open" /\ ThreadId # None
    \/ pc = "read" /\ Copy > Len(session.source) /\ server.link = "up"

(* The pthreads go on, except in such a wait, which may last for ever. *)
Fairness == WF_vars(Next /\ ~Waits)
Spec == Init /\ [][Next]_vars /\ Fairness

-----------------------------------------------------------------------------
TypeOK ==
    /\ Status \in {"IDLE", "CONNECTING", "DOWNLOADING", "ALLDONE", "MAXTRYS", "LOCALFATAL",
                   "REMOTEFATAL"}
    /\ ThreadId \in Threads \cup {None} /\ Ref \in 0 .. MAXRETRYCONN + 1
    /\ TryAttempts \in 0 .. MAX_TRY_ATTEMPTS /\ Len(data) <= RTSP_BUF_SIZE
    /\ joined # <<>> => pc = "joined"

(* What the packets of a stream must be like for the client to cut out a window of it: stamps
   that do not go back, and no packet that fills the rest of the buffer when it is skipped. *)
Plain ==
    /\ server.kind = "plain"
    /\ \A m, n \in DOMAIN server.stream :
          /\ m <= n => server.stream[m].ts <= server.stream[n].ts
          /\ server.stream[n].size < RTSP_BUF_SIZE - HeaderLen

(* The packets of W among the first n of a stream, and all of them. *)
PacketsUpTo(stream, W) ==
    LET upTo[n \in 0 .. Len(stream)] ==
            IF n = 0 THEN <<>>
            ELSE IF n \in W THEN upTo[n - 1] \o BytesOf(n, stream[n].size)
            ELSE upTo[n - 1]
    IN  upTo
PacketsOf(stream, W) == PacketsUpTo(stream, W)[Len(stream)]

PacketsIn(stream, w) == {n \in DOMAIN stream : InWindow(stream[n].ts, w.from, w.to)}

(* Wherever the server begins, in whatever pieces rtsp_session_read hands out the packets, and
   whether or not the last packet fits its buffer: a pthread that is done has stored its window
   of the stream, the first one with the header before it. *)
FileIsItsWindow ==
    (pc = "done" /\ Status = "ALLDONE" /\ Plain /\ windows[ThreadId].whole) =>
        files[ThreadId] = (IF ThreadId = 0 THEN HeaderBytes ELSE <<>>)
                          \o PacketsOf(server.stream, PacketsIn(server.stream, windows[ThreadId]))

(* The windows of the pthreads follow each other: what they leave out lies in the last
   millisecond of a block, or after the last one. *)
Seam(ts) ==
    \/ \E k \in Threads : ts = ToStamp(BlockEnd(k)) - 1
    \/ ts >= ToStamp(FileSize)

\* No pthread had to ask for the rest of its block, or has lost a part of it.
FirstTries ==
    \A k \in Threads :
       /\ windows[k].from = Window(BlockStart(k), BlockEnd(k)).from
       /\ windows[k].to = Window(BlockStart(k), BlockEnd(k)).to
       /\ windows[k].whole

(* The file that is put together has the header once, and then the packets of the stream, each
   once and in order, but for some of those at the seams. *)
JoinedIsTheStream ==
    (pc = "joined" /\ Plain /\ FirstTries) =>
        LET Stored == UNION {PacketsIn(server.stream, windows[k]) : k \in Threads} IN
        /\ joined = HeaderBytes \o PacketsOf(server.stream, Stored)
        /\ \A n \in DOMAIN server.stream : ~Seam(server.stream[n].ts) => n \in Stored

(* A download over RTSP keeps to its windows, and the windows make up the stream. *)
RtspInv == TypeOK /\ FileIsItsWindow /\ JoinedIsTheStream

(* A pthread that waits for its window on a stream that is over. *)
Spins ==
    /\ pc = "read" /\ server.link = "ended"
    /\ session.timestamp < session.pstart /\ session.source = <<>>

Ended == pc \in {"noinfo", "crashed", "failed", "joined"}
=============================================================================
