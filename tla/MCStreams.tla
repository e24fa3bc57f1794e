----------------------------- MODULE MCStreams -----------------------------
(* A download over MMS, a session of MMS over HTTP, or a download over RTSP; they share the names
   of their variables. *)
EXTENDS Integers, Sequences

CONSTANTS
    HeaderLen, PacketLen, Packets, IndexLen, Starts, MMS_BUF_SIZE, MaxExtras,
    Streams, Duration, AvgBitRate, ThreadCnt, RTSP_BUF_SIZE,
    MAXRETRYCONN, MAX_TRY_ATTEMPTS,
    PacketLens, Sizes, ASF_MAX_NUM_STREAMS, Lengths, MaxChunks

(* There are packets and a packet has bytes, for the client divides by both; a buffer takes one
   byte at least, blocks begin in the file, and a connection is tried again (libmtd/MmsCliEx.h,
   libmtd/wdget.h). *)
ASSUME MmsAssumption ==
    /\ HeaderLen \in Nat /\ PacketLen \in Nat \ {0} /\ Packets \in Nat \ {0} /\ IndexLen \in Nat
    /\ MMS_BUF_SIZE \in Nat \ {0} /\ MAXRETRYCONN \in Nat
    /\ Starts \subseteq 0 .. HeaderLen + PacketLen * Packets + IndexLen - 1

VARIABLES
    scheme,
    stage, Status, RemoteStartPos, RemoteBytesReceived, TryAttempts, Ref, session, data, server,
    caller, FileSize, RemoteEndPos, LocalStartPos, BlkSize, Length, m_hsio, m_hsize, m_sthrow,
    len, file,
    ThreadId, flagx, msock, files, windows, joined,
    packets, total

common == <<stage, session, data, server>>
pthread == <<Status, RemoteStartPos, RemoteBytesReceived, TryAttempts, Ref>>
onlyMms == <<caller, FileSize, RemoteEndPos, LocalStartPos, BlkSize, Length, m_hsio, m_hsize,
             m_sthrow, file>>
onlyRtsp == <<ThreadId, flagx, msock, files, windows, joined>>
onlyMmsh == <<packets, total>>
streamsVars == <<scheme, common, pthread, len, onlyMms, onlyRtsp, onlyMmsh>>

Packet(ts, size) == [ts |-> ts, size |-> size]

\* Stamps at and beside the seams; one stream whose stamps go back, with a packet that fills a
\* buffer.
MCStreamSet ==
    { <<Packet(0, 2), Packet(b, s), Packet(c, 1), Packet(d, 2)>> :
        b \in {1, 2}, c \in {3, 4}, d \in {4, 5, 8}, s \in {1, 3} }
    \cup { <<Packet(5, 2), Packet(2, 6), Packet(6, 1)>> }

Mms == INSTANCE MmsSession WITH pc <- stage
Rtsp == INSTANCE RtspSession WITH pc <- stage
Mmsh == INSTANCE MmshSession WITH pc <- stage, taken <- packets

(* A packet of a stream has a stamp and bytes; the stream is known to take some time, and a
   block of it a millisecond at least: a file below 64 KB is not cut, and 6 pthreads are the most
   (MIN_FILE_SIZE and MAX_THREADS of libmtd/wdget.h). *)
ASSUME RtspAssumption ==
    /\ Streams \subseteq Seq([ts : Nat, size : Nat \ {0}])
    /\ Duration \in Nat \ {0} /\ AvgBitRate \in Nat \ {0} /\ ThreadCnt \in Nat \ {0}
    /\ RTSP_BUF_SIZE \in Nat \ {0} /\ MAX_TRY_ATTEMPTS \in Nat \ {0}
    /\ AvgBitRate <= 8000 * (Rtsp!FileSize \div ThreadCnt)

NoMms ==
    /\ caller = 0 /\ FileSize = 0 /\ RemoteEndPos = 0 /\ LocalStartPos = 0 /\ BlkSize = 0
    /\ Length = 0 /\ m_hsio = 0 /\ m_hsize = 0 /\ m_sthrow = 0 /\ file = 0

NoRtsp ==
    /\ ThreadId = 0 /\ flagx = 0 /\ msock = 0 /\ files = 0 /\ windows = 0 /\ joined = 0

NoMmsh == packets = 0 /\ total = 0

NoPthread ==
    /\ Status = 0 /\ RemoteStartPos = 0 /\ RemoteBytesReceived = 0 /\ TryAttempts = 0 /\ Ref = 0

StreamsInit ==
    \/ scheme = "mms" /\ Mms!Init /\ NoRtsp /\ NoMmsh
    \/ scheme = "mmsh" /\ Mmsh!Init /\ NoMms /\ NoRtsp /\ NoPthread
    \/ scheme = "rtsp" /\ Rtsp!Init /\ NoMms /\ NoMmsh /\ len = 0

StreamsNext ==
    /\ UNCHANGED scheme
    /\ \/ scheme = "mms" /\ Mms!Next /\ UNCHANGED <<onlyRtsp, onlyMmsh>>
       \/ scheme = "mmsh" /\ Mmsh!Next /\ UNCHANGED <<onlyMms, onlyRtsp, pthread>>
       \/ scheme = "rtsp" /\ Rtsp!Next /\ UNCHANGED <<onlyMms, onlyMmsh, len>>

(* A read of a session waits for the server, without a limit (libstream/xsysio.c). *)
Waits ==
    \/ scheme = "mms" /\ Mms!Waits
    \/ scheme = "mmsh" /\ Mmsh!Waits
    \/ scheme = "rtsp" /\ Rtsp!Waits

StreamsSpec ==
    StreamsInit /\ [][StreamsNext]_streamsVars /\ WF_streamsVars(StreamsNext /\ ~Waits)

(* Whatever the attempts, the pieces in which the bytes arrive and the packets the server sends
   before the one that is wanted, a pthread of an MMS download stores a byte where it belongs, stays
   in its block and is done only at its end or that of the packets, unless the stream was cut or
   a packet left out: then padding or bytes of other places are stored too. *)
MmsStores == scheme = "mms" => Mms!MmsInv

(* A pthread of an RTSP download stores its window of the stream, and the windows joined are the
   stream, with its header once, but for packets at the seams. *)
RtspJoins == scheme = "rtsp" => Rtsp!RtspInv

(* The query for the size of an MMS download ends, and so does its pthread; a session of
   MMS over HTTP ends; an RTSP download ends.  They all do unless a read waits for ever on a server
   that is silent; an RTSP download also unless the stream ends before the window of a pthread
   begins, or the server redirects for ever.  The chunks of mmsh and the commands of mms are
   limited: a server that sends them for ever keeps its session for ever too. *)
MmsEnds == scheme = "mms" => <>Mms!Ended \/ <>[]Waits
MmshEnds == scheme = "mmsh" => <>Mmsh!Ended \/ <>[]Waits
RtspEnds ==
    scheme = "rtsp" =>
        \/ <>Rtsp!Ended \/ <>[]Waits
        \/ <>[](scheme = "rtsp" /\ Rtsp!Spins)
        \/ []<>(stage = "redirected")

StreamsEnd == MmsEnds /\ MmshEnds /\ RtspEnds
=============================================================================
