----------------------------- MODULE MmsSession -----------------------------
(***************************************************************************)
(* A download over MMS, from the query for the size to the end of one        *)
(* pthread: TMmsThread (libmtd/Task.cpp), the client TMmsCliEx               *)
(* (libmtd/MmsCliEx.cpp) and the session under it (libstream/mmst.c).        *)
(*                                                                         *)
(* The remote file is a header, packets of one length and perhaps an index,  *)
(* which is never sent.  A byte is its position in the file.  The server is  *)
(* asked for a packet by an estimate of its time, and begins wherever it     *)
(* finds that time; the session skips the packets before the one it wants,   *)
(* and the client the first bytes of the first one.                          *)
(***************************************************************************)
EXTENDS Integers, Sequences

CONSTANTS
    HeaderLen,          \* file.size + sizeof(data): header and head of the data object
    PacketLen, Packets, \* prop.max_packet_size, prop.packets
    IndexLen,           \* what follows the packets in the file
    Starts,             \* where blocks, or resumed blocks, begin
    MMS_BUF_SIZE, MAXRETRYCONN, MAX_TRY_ATTEMPTS,
    MaxExtras           \* packets of a connection that are not asked for

PacketsEnd == HeaderLen + PacketLen * Packets
FileLen == PacketsEnd + IndexLen
Positions == 0 .. FileLen - 1

Hole == -1              \* nothing written
Foreign == -2           \* a byte of another place, of another stream, or of no packet at all
None == -1              \* UINT_MAX of pstart
MinOf(a, b) == IF a < b THEN a ELSE b

VARIABLES
    pc,
    caller,         \* "info" (fetchRemoteFileInfo) or "thread"
    FileSize,       \* of the task
    Status, RemoteStartPos, RemoteEndPos, LocalStartPos, RemoteBytesReceived, BlkSize,
    TryAttempts,    \* TMmsThread
    Length,         \* of retrKnownSizeFile
    Ref,            \* of Connect
    m_hsio, m_hsize, m_sthrow,  \* TMmsCliEx
    session,        \* m_session: buf, what is unread of it, pstart, eos
    data, len,      \* mmst_read: what it has copied, of how much
    server,         \* kind; next packet; stream; link; extras
    file

thread == <<Status, RemoteStartPos, RemoteEndPos, LocalStartPos, RemoteBytesReceived,
            BlkSize, TryAttempts>>
block == <<RemoteEndPos, BlkSize, FileSize>>
client == <<m_hsio, m_hsize, m_sthrow>>
reading == <<data, len>>
vars == <<pc, caller, FileSize, thread, Length, Ref, client, session, reading, server, file>>

(* Packets come; a packet that is wanted has been left out, so that those after it come too
   early.  The server ends the stream early, or the connection breaks. *)
Running == server.link \in {"up", "shifted"}
Cut == server.link # "up"
Mixed == server.stream # 1 \/ server.link \in {"garbage", "shifted"}

FreshSession == [buf |-> <<>>, pstart |-> None, eos |-> FALSE, playing |-> FALSE]

\* The server is at the beginning of a stream.
Begins(stream, extras) ==
    [kind |-> server.kind, next |-> 0, stream |-> stream, link |-> "up", extras |-> extras]

PacketBytes(n) == [i \in 1 .. PacketLen |->
                     IF Mixed THEN Foreign ELSE HeaderLen + n * PacketLen + i - 1]

-----------------------------------------------------------------------------
(* TMmsThread::run. *)
\* As a mutant: attempts are not counted.
AttemptsUncounted(n) == n

AttemptsAfter(n) == n + 1

Attempted(ok) ==
    /\ TryAttempts' = AttemptsAfter(TryAttempts)
    /\ pc' = IF ok \/ AttemptsAfter(TryAttempts) >= MAX_TRY_ATTEMPTS THEN "done" ELSE "run"
    /\ Status' = IF ok THEN "ALLDONE" ELSE IF pc' = "run" THEN "IDLE" ELSE "MAXTRYS"

run ==
    /\ pc = "run"
    /\ IF BlkSize = RemoteBytesReceived
       THEN pc' = "done" /\ Status' = "ALLDONE" /\ UNCHANGED Ref
       ELSE pc' = "connect" /\ Status' = "CONNECTING" /\ Ref' = 0
    /\ UNCHANGED <<caller, block, RemoteStartPos, LocalStartPos, RemoteBytesReceived,
                   TryAttempts, Length, client, session, reading, server, file>>

(* fetchRemoteFileInfo returns -1, or retrFileChunk false, after Close. *)
Failed ==
    IF caller = "info"
    THEN pc' = "noinfo" /\ UNCHANGED <<Status, TryAttempts>>
    ELSE Attempted(FALSE)

-----------------------------------------------------------------------------
(* TMmsCliEx::Connect and mmst_connect.  Any failure ends the session and is tried
   again, MAXRETRYCONN times. *)
Retry == Ref' = Ref + 1 /\ pc' = "connect" /\ UNCHANGED <<Status, TryAttempts>>

Connect ==
    /\ pc = "connect"
    /\ session' = FreshSession
    /\ server' = Begins(1, 0)
    /\ IF Ref > MAXRETRYCONN THEN Failed /\ UNCHANGED Ref
       ELSE \/ pc' = "sent01" /\ UNCHANGED <<Ref, Status, TryAttempts>>
            \/ Retry                         \* mmst_tcp_connect, or the send
    /\ UNCHANGED <<caller, block, RemoteStartPos, LocalStartPos, RemoteBytesReceived, Length,
                   client, reading, file>>

Dialogue == {"sent01", "sent02", "sent05", "sent15", "sent33"}

AfterAnswer(p) ==
    CASE p = "sent01" -> "sent02" [] p = "sent02" -> "sent05" [] p = "sent05" -> "sent15"
      [] p = "sent15" -> "header" [] p = "sent33" -> "open"

Extra == server.extras < MaxExtras /\ server' = [server EXCEPT !.extras = @ + 1]
Breaks(l) == server' = [server EXCEPT !.link = l]

(* get_answer: a ping is answered, anything but the expected command ends the session,
   except after the choice of streams. *)
get_answer ==
    /\ pc \in Dialogue /\ ~session.playing
    /\ \/ /\ pc' = AfterAnswer(pc)
          /\ UNCHANGED <<server, Ref, Status, TryAttempts>>
       \/ Extra /\ UNCHANGED <<pc, Ref, Status, TryAttempts>>       \* 0x1b
       \/ pc # "sent33" /\ Retry /\ UNCHANGED server
       \/ pc = "sent33" /\ pc' = "open" /\ Breaks("lost") /\ UNCHANGED <<Ref, Status, TryAttempts>>
    /\ UNCHANGED <<caller, block, RemoteStartPos, LocalStartPos, RemoteBytesReceived, Length,
                   client, session, reading, file>>

(* get_asf_header, interp_asf_header and the sending of 0x33.  Of a ping, get_answer
   swallows what follows: when that is a piece of the header, the session reads on in
   the middle of it, and does not find an ASF header. *)
get_asf_header ==
    /\ pc = "header" /\ ~session.playing
    /\ \/ Extra /\ UNCHANGED <<pc, Ref, Status, TryAttempts>>  \* a piece, a command, a ping
       \/ pc' = "sent33" /\ UNCHANGED <<server, Ref, Status, TryAttempts>>
       \/ Retry /\ UNCHANGED server
    /\ UNCHANGED <<caller, block, RemoteStartPos, LocalStartPos, RemoteBytesReceived, Length,
                   client, session, reading, file>>

-----------------------------------------------------------------------------
(* Size, for fetchRemoteFileInfo: the header must fit into m_hbuffer; the handle of the
   session is left behind when it does not.  A live stream has no size; that of another is
   the one its header tells, the index included. *)
SizeKnown ==
    /\ pc = "open" /\ caller = "info"
    /\ IF server.kind = "big header" THEN pc' = "noinfo" /\ UNCHANGED FileSize
       ELSE /\ FileSize' = IF server.kind = "live" THEN None ELSE FileLen
            /\ pc' = IF server.kind = "live" THEN "noinfo" ELSE "idle"
    /\ UNCHANGED <<caller, thread, Length, Ref, client, session, reading, server, file>>

(* The task cuts the file into blocks, or resumes one of them. *)
StartThread ==
    /\ pc = "idle"
    /\ \E s \in Starts, e \in Starts \cup {FileSize}, r \in 0 .. FileSize - 1 :
          /\ s <= r /\ r < e
          /\ RemoteStartPos' = r /\ LocalStartPos' = r
          /\ RemoteEndPos' = e /\ BlkSize' = e - s /\ RemoteBytesReceived' = r - s
          /\ file' = [p \in Positions |-> IF p \in s .. r - 1 THEN p ELSE Hole]
    /\ caller' = "thread" /\ pc' = "run" /\ Status' = "IDLE" /\ TryAttempts' = 0
    /\ \E k \in {"plain", "big header"} : server' = [server EXCEPT !.kind = k]
    /\ UNCHANGED <<FileSize, Length, Ref, client, session, reading>>

(* PreProcess: which packet to ask for, and how much of it to throw away. *)
Spos == IF RemoteStartPos < HeaderLen THEN 0 ELSE RemoteStartPos - HeaderLen

Sindex == Spos \div PacketLen

\* As a mutant: the throw is counted from the start of the file.
SthrowOfOffset == RemoteStartPos % PacketLen

Sthrow == Spos % PacketLen

(* retrKnownSizeFile up to its loop: fopen; PreProcess, that is SendRequest with
   mmst_play, whose failure to send is not noticed.  The time it asks for is that of the packet
   only when all packets take the same, so the server may begin before the packet or after it. *)
PreProcess ==
    /\ pc = "open" /\ caller = "thread"
    /\ \/ Attempted(FALSE)                           \* fopen
          /\ UNCHANGED <<Length, client, session, server>>
       \/ /\ server.kind = "big header" /\ Attempted(FALSE)
          /\ UNCHANGED <<Length, client, session, server>>
       \/ /\ server.kind # "big header"
          /\ Status' = "DOWNLOADING" /\ pc' = "recv" /\ UNCHANGED TryAttempts
          /\ Length' = RemoteEndPos - RemoteStartPos
          /\ m_hsize' = HeaderLen
          /\ m_hsio' = IF RemoteStartPos < HeaderLen THEN RemoteStartPos ELSE HeaderLen
          /\ m_sthrow' = Sthrow
          /\ session' = [buf |-> session.buf, pstart |-> IF Sindex > 0 THEN Sindex ELSE None,
                         eos |-> session.eos, playing |-> TRUE]
          /\ \/ \E first \in 0 .. Packets :
                   server' = [server EXCEPT !.next = first,
                                            !.link = IF first > Sindex /\ @ = "up" THEN "shifted"
                                                     ELSE @]
             \/ Breaks("lost")
    /\ UNCHANGED <<caller, block, RemoteStartPos, LocalStartPos, RemoteBytesReceived, Ref,
                   reading, file>>

(* The loop of retrKnownSizeFile and Recv: the rest of the header, then packets. *)
Want == MinOf(Length, MMS_BUF_SIZE)

Recv ==
    /\ pc = "recv" /\ Length > 0
    /\ IF m_hsio < m_hsize
       THEN LET n == MinOf(Want, m_hsize - m_hsio) IN
            /\ data' = [i \in 1 .. n |-> m_hsio + i - 1] /\ m_hsio' = m_hsio + n
            /\ pc' = "write" /\ UNCHANGED len
       ELSE data' = <<>> /\ len' = Want /\ pc' = "read" /\ UNCHANGED m_hsio
    /\ UNCHANGED <<caller, block, thread, Length, Ref, m_hsize, m_sthrow, session, server, file>>

(* The loop of mmst_read: it returns what it has when the buffer is full, at the end of
   the stream and when get_media_packet fails. *)
mmst_read ==
    /\ pc = "read"
    /\ \/ /\ Len(data) = len \/ session.eos
          /\ pc' = "got" /\ UNCHANGED <<data, session>>
       \/ /\ Len(data) < len /\ ~session.eos /\ session.buf # <<>>
          /\ LET n == MinOf(len - Len(data), Len(session.buf)) IN
             /\ data' = data \o SubSeq(session.buf, 1, n)
             /\ session' = [session EXCEPT !.buf = SubSeq(@, n + 1, Len(@))]
          /\ UNCHANGED pc
    /\ UNCHANGED <<caller, block, thread, Length, Ref, client, len, server, file>>

NextPacket == pc = "read" /\ Len(data) < len /\ ~session.eos /\ session.buf = <<>>
Elsewhere == UNCHANGED <<caller, block, thread, Length, Ref, client, reading, file>>

Skipped(n) == session.pstart # None /\ n < session.pstart

(* get_media_packet: a media packet, short ones padded to PacketLen. *)
MediaPacket ==
    /\ NextPacket /\ Running /\ server.next < Packets
    /\ session' = IF Skipped(server.next) THEN session
                  ELSE [session EXCEPT !.buf = PacketBytes(server.next)]
    /\ server' = [server EXCEPT !.next = @ + 1]
    /\ UNCHANGED pc /\ Elsewhere

(* A packet of length 0 is not skipped: it is handed out, all padding, in the place of itself or
   of the packet that is wanted. *)
EmptyPacket ==
    /\ NextPacket /\ Running /\ server.next < Packets
    /\ session' = [session EXCEPT !.buf = [i \in 1 .. PacketLen |-> Foreign]]
    /\ server' = [server EXCEPT !.next = @ + 1,
                                !.link = IF Skipped(server.next) THEN "shifted" ELSE @]
    /\ UNCHANGED pc /\ Elsewhere

(* 0x1e: the end of the stream, when the server has sent it, or before. *)
EndOfStream ==
    /\ NextPacket /\ Running
    /\ session' = [session EXCEPT !.eos = TRUE]
    /\ server' = [server EXCEPT !.link = IF server.next = Packets THEN @ ELSE "ended"]
    /\ pc' = "got" /\ Elsewhere

(* A ping, a report, a command nobody knows. *)
OtherCommand ==
    /\ NextPacket /\ Running /\ Extra
    /\ UNCHANGED <<pc, session>> /\ Elsewhere

(* 0x20: the server goes on with another stream, which is introduced like the first and
   played from its beginning. *)
NewStream ==
    /\ NextPacket /\ Running /\ server.stream = 1
    /\ pc' = "header" /\ UNCHANGED <<session, server>> /\ Elsewhere

NewHeader ==
    /\ pc = "header" /\ session.playing
    /\ \/ pc' = "sent33" /\ UNCHANGED server
       \/ pc' = "got" /\ Breaks("lost")
    /\ UNCHANGED session /\ Elsewhere

NewStreamPlays ==
    /\ pc = "sent33" /\ session.playing
    /\ \/ pc' = "read" /\ server' = Begins(2, server.extras)
       \/ pc' = "got" /\ Breaks("lost")
    /\ UNCHANGED session /\ Elsewhere

(* A packet that is too long, or a header packet: its body stays unread, and what follows
   is taken for packets. *)
OutOfStep ==
    /\ NextPacket /\ Running
    /\ Breaks("garbage")
    /\ pc' \in {"got", "read"}
    /\ UNCHANGED session /\ Elsewhere

GarbagePacket ==
    /\ NextPacket /\ server.link = "garbage" /\ Extra
    /\ session' = [session EXCEPT !.buf = PacketBytes(0)]
    /\ UNCHANGED pc /\ Elsewhere

ReadFails ==
    /\ NextPacket
    /\ IF Running THEN Breaks("lost") ELSE UNCHANGED server
    /\ pc' = "got" /\ UNCHANGED session /\ Elsewhere

(* The rest of Recv: the first m_sthrow bytes are thrown away, if need be with further
   reads.  Without a byte the loop of retrKnownSizeFile ends as if all were there. *)
Throw ==
    /\ pc = "got"
    /\ IF data = <<>> THEN pc' = "recv" /\ Length' = 0 /\ UNCHANGED <<data, m_sthrow>>
       ELSE /\ UNCHANGED Length
            /\ IF m_sthrow >= Len(data)
               THEN pc' = "read" /\ data' = <<>> /\ m_sthrow' = m_sthrow - Len(data)
               ELSE /\ pc' = "write" /\ m_sthrow' = 0
                    /\ data' = SubSeq(data, m_sthrow + 1, Len(data))
    /\ UNCHANGED <<caller, block, thread, Ref, m_hsio, m_hsize, session, len, server, file>>

(* fwrite at LocalStartPos, where the stream has been left; a short write is repeated by
   the next attempt. *)
Write ==
    /\ pc = "write"
    /\ \/ /\ file' = [p \in Positions |->
                        IF p \in LocalStartPos .. LocalStartPos + Len(data) - 1
                        THEN data[p - LocalStartPos + 1] ELSE file[p]]
          /\ Length' = Length - Len(data)
          /\ RemoteStartPos' = RemoteStartPos + Len(data)
          /\ LocalStartPos' = LocalStartPos + Len(data)
          /\ RemoteBytesReceived' = RemoteBytesReceived + Len(data)
          /\ pc' = "recv" /\ UNCHANGED <<Status, TryAttempts>>
       \/ /\ Attempted(FALSE)
          /\ UNCHANGED <<file, Length, RemoteStartPos, LocalStartPos, RemoteBytesReceived>>
    /\ UNCHANGED <<caller, block, Ref, client, session, reading, server>>

(* PostProcess has nothing to correct over TCP. *)
BlockDone ==
    /\ pc = "recv" /\ Length <= 0
    /\ Attempted(TRUE)
    /\ UNCHANGED <<caller, block, RemoteStartPos, LocalStartPos, RemoteBytesReceived, Length,
                   Ref, client, session, reading, server, file>>

-----------------------------------------------------------------------------
Init ==
    /\ pc = "connect" /\ caller = "info" /\ FileSize = 0
    /\ Status = "IDLE" /\ RemoteStartPos = 0 /\ RemoteEndPos = 0 /\ LocalStartPos = 0
    /\ RemoteBytesReceived = 0 /\ BlkSize = 0 /\ TryAttempts = 0 /\ Length = 0 /\ Ref = 0
    /\ m_hsio = 0 /\ m_hsize = 0 /\ m_sthrow = 0
    /\ session = FreshSession /\ data = <<>> /\ len = 0
    /\ \E k \in {"plain", "live", "big header"} :
          server = [kind |-> k, next |-> 0, stream |-> 1, link |-> "up", extras |-> 0]
    /\ file = [p \in Positions |-> Hole]

MediaNext ==
    \/ mmst_read \/ MediaPacket \/ EmptyPacket \/ EndOfStream \/ OtherCommand \/ NewStream \/ NewHeader
    \/ NewStreamPlays \/ OutOfStep \/ GarbagePacket \/ ReadFails

Next ==
    \/ run \/ Connect \/ get_answer \/ get_asf_header \/ SizeKnown \/ StartThread
    \/ PreProcess \/ Recv \/ MediaNext \/ Throw \/ Write \/ BlockDone

(* The server is to send something.  xio_rw_abort waits for it without a limit; a connection that
   is lost, or that the server has closed, ends the wait. *)
Waits == pc \in Dialogue \cup {"header"} \/ (NextPacket /\ server.link \notin {"lost", "ended"})

(* The pthread goes on, except in such a wait, which may last for ever. *)
Fairness == WF_vars(Next /\ ~Waits)
Spec == Init /\ [][Next]_vars /\ Fairness

-----------------------------------------------------------------------------
TypeOK ==
    /\ Status \in {"IDLE", "CONNECTING", "DOWNLOADING", "ALLDONE", "MAXTRYS"}
    /\ FileSize \in {None, 0, FileLen} /\ Ref \in 0 .. MAXRETRYCONN + 1
    /\ m_sthrow \in 0 .. PacketLen - 1 /\ m_hsio \in 0 .. HeaderLen
    /\ Len(data) <= MMS_BUF_SIZE /\ Len(session.buf) <= PacketLen
    /\ \A p \in Positions : file[p] \in Positions \cup {Hole, Foreign}

(* Whatever the attempts and the pieces in which the bytes arrive, and whatever packets come
   before the one that is wanted, a byte is stored where it belongs.  What comes after a packet
   that is left out, of another stream or out of step is none of these places: the session does
   not look where it belongs. *)
StoredInPlace ==
    \A p \in Positions : file[p] \in {p, Hole, Foreign}

(* The pthread stays inside its block, its positions agree, and all before them is written. *)
StaysInItsBlock ==
    caller = "thread" =>
        /\ RemoteStartPos = LocalStartPos
        /\ RemoteStartPos - RemoteBytesReceived = RemoteEndPos - BlkSize
        /\ RemoteStartPos <= RemoteEndPos
        /\ \A p \in Positions :
              file[p] # Hole <=> p \in RemoteEndPos - BlkSize .. RemoteStartPos - 1

(* A block is taken as done only at its end, or where the packets end, even when an index is
   left of it; or when the stream was cut short or a packet left out. *)
DoneMeansDone ==
    Status = "ALLDONE" /\ ~Cut => RemoteStartPos >= MinOf(RemoteEndPos, PacketsEnd)

(* A download over MMS stores the bytes of the packets in their places and stays in its block. *)
MmsInv == TypeOK /\ StoredInPlace /\ StaysInItsBlock /\ DoneMeansDone

(* The query for the size has ended without a size, or the pthread has. *)
Ended == pc \in {"noinfo", "done"}
=============================================================================
