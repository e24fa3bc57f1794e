---------------------------- MODULE MmshSession ----------------------------
(***************************************************************************)
(* The session of an MMS download over HTTP, libstream/mmsh.c: the request   *)
(* that has the stream described, the one that has it played, and the reads. *)
(*                                                                         *)
(* The server answers with chunks: pieces of the header, packets, a reset    *)
(* with a new header, an end.  It chooses each when the session reads it.    *)
(* A byte is the packet it belongs to and its place in it.                   *)
(***************************************************************************)
EXTENDS Integers, Sequences, SequencesExt

CONSTANTS
    PacketLens,             \* packet lengths headers announce; 0 when they do not
    Sizes,                  \* chunk_length of packets
    ASF_MAX_NUM_STREAMS,
    Lengths,                \* what mmsh_read is asked for
    MaxChunks               \* packets, resets and ends with another stream that follows

BufLen == CHOOSE n \in Sizes \cup PacketLens : \A m \in Sizes \cup PacketLens : m <= n
Pad == <<0, 0>>
Text == <<0, 1>>            \* a line of the answer, in the buffer of the packets
Announced == 0 .. ASF_MAX_NUM_STREAMS \div 2        \* stream objects of a header

VARIABLES
    pc,
    session,        \* mmsh_t
    server,         \* link; chunks sent; resets since the description
    taken,          \* the packets the session has taken, in order
    data,           \* all that mmsh_read has handed out
    len, total      \* of mmsh_read

reading == <<len, total>>
vars == <<pc, session, server, taken, data, reading>>

Texts == [i \in 1 .. BufLen |-> Text]

-----------------------------------------------------------------------------
(* interp_header: the streams of a header are added to those already known. *)
interp_header(s, streams, plen) ==
    [s EXCEPT !.num_stream_ids = @ + streams, !.packet_length = plen]

Overflows(s) == s.num_stream_ids > ASF_MAX_NUM_STREAMS

(* A packet in the buffer, over what was there before. *)
InBuffer(buf, k, size) ==
    [i \in 1 .. BufLen |-> IF i <= size THEN <<k, i>> ELSE buf[i]]

Padded(buf, size) == [i \in 1 .. BufLen |-> IF i <= size THEN buf[i] ELSE Pad]

Taken(k, size, plen, first) ==
    taken' = Append(taken, [k |-> k, size |-> size, plen |-> plen, first |-> first])

Sent == server.chunks < MaxChunks /\ server.link = "up"
This == server.chunks + 1

(* get_header, when the pieces fit into asf_header and a packet follows, and interp_header: the
   packet becomes the buffer as it is, cut or with what the buffer held after it. *)
HeaderAndPacket(s, next) ==
    \E streams \in Announced, plen \in PacketLens, size \in Sizes :
       LET t == interp_header([s EXCEPT !.buf = InBuffer(s.buf, This, size)], streams, plen) IN
       IF Overflows(t)
       THEN pc' = "overflow" /\ session' = t /\ UNCHANGED taken
       ELSE /\ pc' = next
            /\ session' = [t EXCEPT !.buf_size = plen]
            /\ Taken(This, size, plen, TRUE)

-----------------------------------------------------------------------------
FreshSession ==
    [num_stream_ids |-> 0, packet_length |-> 0, buf |-> Texts, buf_read |-> 0, buf_size |-> 0,
     plast |-> 0, pnum |-> 0, playing |-> FALSE]

(* mmsh_connect: the URL, the connection, the request and the first lines of the answer. *)
mmsh_connect ==
    /\ pc = "connect"
    /\ pc' \in {"describe", "failed"}
    /\ UNCHANGED <<session, server, taken, data, reading>>

(* The rest of mmsh_connect_int: what get_header and interp_header return is ignored.  A packet
   that follows the header is read, and lost: buf_size is left alone. *)
mmsh_connect_int ==
    /\ pc = "describe"
    /\ \E streams \in Announced, plen \in PacketLens :
          session' = interp_header([session EXCEPT !.num_stream_ids = 0, !.buf = Texts],
                                   streams, plen)
    /\ \E n \in {0, 1} :
          /\ server.chunks + n <= MaxChunks
          /\ server' = [server EXCEPT !.chunks = @ + n, !.resets = 0]
    /\ pc' = IF session.playing THEN "read" ELSE "play"
    /\ UNCHANGED <<taken, data, reading>>

(* mmsh_play connects again, and here the header counts. *)
mmsh_play ==
    /\ pc = "play"
    /\ \/ /\ Sent
          /\ HeaderAndPacket([session EXCEPT !.buf = Texts, !.playing = TRUE], "idle")
          /\ server' = [server EXCEPT !.chunks = This]
       \/ pc' = "failed" /\ UNCHANGED <<session, server, taken>>
    /\ UNCHANGED <<data, reading>>

-----------------------------------------------------------------------------
(* The caller asks for some bytes, until a call gives none or it has enough. *)
Ask ==
    /\ pc = "idle" /\ (total > 0 \/ len = 0)
    /\ len' \in Lengths /\ total' = 0 /\ pc' = "read"
    /\ UNCHANGED <<session, server, taken, data>>

mmsh_close ==
    /\ pc = "idle" /\ pc' = "closed"
    /\ UNCHANGED <<session, server, taken, data, reading>>

Left == session.buf_size - session.buf_read

Copied(s) ==
    LET have == s.buf_size - s.buf_read
        n == IF len - total < have THEN len - total ELSE have IN
    /\ data' = data \o SubSeq(s.buf, s.buf_read + 1, s.buf_read + n)
    /\ total' = total + n
    /\ session' = [s EXCEPT !.buf_read = @ + n]

(* mmsh_read while there is something left of a packet: that packet is counted. *)
Copy ==
    /\ pc = "read" /\ total < len /\ Left > 0
    /\ Copied([session EXCEPT !.pnum = IF session.plast > 0 THEN @ + 1 ELSE @, !.plast = 0])
    /\ UNCHANGED <<pc, server, taken, len>>

ReadEnds ==
    /\ pc = "read" /\ total = len /\ pc' = "idle"
    /\ UNCHANGED <<session, server, taken, data, reading>>

NextChunk == pc = "read" /\ total < len /\ Left = 0
Emptied == [session EXCEPT !.buf_read = 0, !.buf_size = 0]

(* get_media_packet: a packet that fits is padded and handed out; one that does not is read, and
   the call ends with what it has. *)
DataChunk ==
    /\ NextChunk /\ Sent
    /\ server' = [server EXCEPT !.chunks = This]
    /\ \E size \in Sizes :
          LET plen == session.packet_length
              read == [Emptied EXCEPT !.buf = InBuffer(session.buf, This, size)] IN
          IF size > plen
          THEN pc' = "idle" /\ session' = read /\ UNCHANGED <<taken, data, total>>
          ELSE /\ Taken(This, size, plen, FALSE)
               /\ IF plen = 0
                  THEN session' = read /\ UNCHANGED <<data, total>>
                  ELSE Copied([read EXCEPT !.buf = Padded(@, size), !.buf_size = plen,
                                           !.plast = plen])
               /\ UNCHANGED pc
    /\ UNCHANGED len

(* A reset: a header and its first packet follow. *)
ResetChunk ==
    /\ NextChunk /\ Sent
    /\ server' = [server EXCEPT !.chunks = This, !.resets = @ + 1]
    /\ \/ HeaderAndPacket(Emptied, "read")
       \/ \* a reset with a body; no header, or one that makes no sense
          /\ \E streams \in Announced, plen \in PacketLens :
                session' = interp_header(Emptied, streams, plen) /\ ~Overflows(session')
          /\ pc' = "idle" /\ UNCHANGED taken
    /\ UNCHANGED <<data, reading>>

(* The end, with another stream that follows: it is described, but never asked to be played. *)
EndChunkContinues ==
    /\ NextChunk /\ Sent
    /\ session' = Emptied
    /\ server' = [server EXCEPT !.chunks = This]
    /\ pc' \in {"describe", "idle"}
    /\ UNCHANGED <<taken, data, reading>>

(* The end, a chunk nobody knows, or a lost connection: the call returns what it has. *)
NoChunk ==
    /\ NextChunk
    /\ session' = Emptied /\ pc' = "idle"
    /\ server' \in {server, [server EXCEPT !.link = "down"]}
    /\ UNCHANGED <<taken, data, reading>>

-----------------------------------------------------------------------------
Init ==
    /\ pc = "connect" /\ session = FreshSession
    /\ server = [link |-> "up", chunks |-> 0, resets |-> 0]
    /\ taken = <<>> /\ data = <<>> /\ len = 0 /\ total = 0

Next ==
    \/ mmsh_connect \/ mmsh_connect_int \/ mmsh_play \/ Ask \/ mmsh_close \/ Copy \/ ReadEnds
    \/ DataChunk \/ ResetChunk \/ EndChunkContinues \/ NoChunk

(* The server is to send something: an answer to a request, or a chunk.  Nothing limits the wait. *)
Waits ==
    \/ pc \in {"connect", "describe", "play"}
    \/ NextChunk /\ server.link = "up"

Spec == Init /\ [][Next]_vars /\ WF_vars(Next /\ ~Waits)

-----------------------------------------------------------------------------
TypeOK ==
    /\ pc \in {"connect", "describe", "play", "idle", "read", "closed", "failed", "overflow"}
    /\ session.buf_read \in 0 .. session.buf_size /\ session.buf_size <= BufLen
    /\ total <= len /\ server.link \in {"up", "down"}

(* What has been handed out and what is left of a packet are the packets taken, one after the other
   and each as long as the header says, whatever lengths were asked for: a packet is cut or
   padded, except the first after a header, whose end is what the buffer held. *)
Held == data \o SubSeq(session.buf, session.buf_read + 1, session.buf_size)
Cell(t, i) == IF i <= t.size THEN <<t.k, i>> ELSE Pad
Expected == FlattenSeq([n \in DOMAIN taken |-> [i \in 1 .. taken[n].plen |-> Cell(taken[n], i)]])
Stale == FlattenSeq([n \in DOMAIN taken |->
                        [i \in 1 .. taken[n].plen |-> taken[n].first /\ i > taken[n].size]])

HandsOutPackets ==
    pc # "overflow" =>
        /\ Len(Held) = Len(Expected)
        /\ \A p \in DOMAIN Held : Held[p] = Expected[p] \/ Stale[p]

(* A packet is taken once, in the order the server sent them. *)
TakenOnce == \A n \in 2 .. Len(taken) : taken[n - 1].k < taken[n].k

(* The streams fit into the session, unless resets announce them again. *)
OverflowNeedsReset == pc = "overflow" => server.resets > 0

(* A session of MMS over HTTP hands out the packets it has taken, in order and whole. *)
MmshInv == TypeOK /\ HandsOutPackets /\ TakenOnce /\ OverflowNeedsReset

Ended == pc \in {"closed", "failed", "overflow"}
=============================================================================
