------------------------------ MODULE AsfFormat ------------------------------
(***************************************************************************)
(* What an MMS session does to the ASF stream (libstream/mms_asf.c, mmst.c):  *)
(* the packet headers it rewrites, because packets come without their        *)
(* padding; where it finds their time; the header it interprets; the streams *)
(* it asks for.                                                              *)
(*                                                                         *)
(* A packet header is a record of the fields that are there: ecc (bytes of   *)
(* error correction), for plen, seq and pad the two bits that give their     *)
(* width, and their values; multi (several segments).                        *)
(***************************************************************************)
EXTENDS Integers, Sequences, SequencesExt, FiniteSets

UCHAR_MAX == 255
USHRT_MAX == 65535
SHRT_MAX == 32767

-----------------------------------------------------------------------------
(* Packet headers. *)
Width(bits) == <<0, 1, 2, 4>>[bits + 1]

Bits(v) == IF v > USHRT_MAX THEN 3 ELSE IF v > UCHAR_MAX THEN 2 ELSE IF v > 0 THEN 1 ELSE 0

TimeAt(h) ==
    (IF h.ecc > 0 THEN h.ecc + 1 ELSE 0) + 2
    + Width(h.plenBits) + Width(h.seqBits) + Width(h.padBits)

HeaderLen(h) == TimeAt(h) + 6 + (IF h.multi THEN 1 ELSE 0)

(* plen, explicit or by the padding of a packet of maxsize bytes. *)
PacketLen(h, maxsize) == IF h.plenBits # 0 THEN h.plen ELSE maxsize - h.pad

(* mms_fil_pack: the header written anew with the narrowest fields.  The bytes it is shorter
   by are added to the padding, when that does not widen the field. *)
mms_fil_pack(h, ppad) ==
    LET short == [h EXCEPT !.plenBits = 0, !.plen = 0, !.seqBits = Bits(h.seq),
                           !.padBits = Bits(ppad), !.pad = ppad]
        less == HeaderLen(h) - HeaderLen(short)
    IN  IF less > 0 /\ Bits(ppad + less) = Bits(ppad)
        THEN [short EXCEPT !.pad = ppad + less] ELSE short

(* mms_fix_pack, of a packet of rawsize bytes that is stored in maxsize bytes. *)
\* As a mutant: the bytes the header is shorter by are not added to the padding.
mms_fix_packUnmoved(h, maxsize, rawsize) ==
    [h EXCEPT !.plenBits = 0, !.plen = 0, !.seqBits = Bits(h.seq),
              !.padBits = Bits(maxsize - rawsize), !.pad = maxsize - rawsize]

mms_fix_pack(h, maxsize, rawsize) ==
    LET ppad == h.pad + maxsize - rawsize
        fixed == mms_fil_pack(h, ppad)
    IN  IF /\ h.plenBits = 2 /\ h.pad <= 0 /\ rawsize > 0
           /\ maxsize - rawsize \in 1 .. SHRT_MAX
           /\ HeaderLen(fixed) <= HeaderLen(h)
        THEN fixed ELSE h

(* The segments of a packet: [rlen, bits, len], the last two for the length of one of several.
   Where each begins after the header, and its length. *)
SegmentHead(s, multi) == 7 + s.rlen + (IF multi THEN Width(s.bits) ELSE 0)

Segments(h, segs, maxsize) ==
    LET Scan(acc, s) ==
            LET body == acc.pos + SegmentHead(s, h.multi)
                len == IF h.multi /\ s.bits # 0 THEN s.len
                       ELSE PacketLen(h, maxsize) - HeaderLen(h) - body
            IN  IF HeaderLen(h) + acc.pos >= maxsize THEN [acc EXCEPT !.pos = maxsize]
                ELSE [pos |-> body + len, found |-> Append(acc.found, <<acc.pos, len>>)]
    IN  FoldLeft(Scan, [pos |-> 0, found |-> <<>>], segs).found

(* mms_search_stamp: for two bytes of error correction and some of the flags. *)
mms_search_stamp(h) ==
    CASE h.seqBits # 0 -> -1
      [] h.plenBits = 0 /\ h.padBits = 0 -> 5
      [] h.plenBits = 0 /\ h.padBits = 1 -> 6
      [] h.plenBits = 0 /\ h.padBits = 2 -> 7
      [] h.plenBits = 2 /\ h.padBits = 1 -> 8
      [] h.plenBits = 2 /\ h.padBits = 2 -> 9
      [] OTHER -> -1

-----------------------------------------------------------------------------
(* The file header: a sequence of objects [guid, ...].  mms_get_header wants the file
   properties, and the data object behind the header. *)
mms_get_header(objects) ==
    LET props == SelectSeq(objects, LAMBDA o : o.guid = "file")
    IN  IF props = <<>> \/ objects[Len(objects)].guid # "data" THEN [vsize |-> -1]
        ELSE [vsize |-> IF props[1].max # -1 /\ props[1].min < props[1].max
                        THEN props[1].max ELSE props[1].min]

(* interp_asf_header: packet length, the streams in their order, their types and rates. *)
NoStreams(ids) ==
    [packet_len |-> 0, stream_ids |-> <<>>,
     types |-> [i \in ids |-> "none"], bitrates |-> [i \in ids |-> 0]]

interp_asf_header(objects, ids, maxStreams) ==
    LET Object(acc, o) ==
            CASE o.guid = "file" -> [acc EXCEPT !.packet_len = o.min]
              [] o.guid = "stream" ->
                    IF Len(acc.stream_ids) < maxStreams /\ o.id < maxStreams
                    THEN [acc EXCEPT !.types[o.id] = o.type,
                                     !.stream_ids = Append(@, o.id)]
                    ELSE acc
              [] o.guid = "bitrates" ->
                    [acc EXCEPT !.bitrates = [i \in ids |->
                        IF i \in DOMAIN o.rates THEN o.rates[i] ELSE @[i]]]
              [] OTHER -> acc
    IN  FoldLeft(Object, NoStreams(ids), objects)

(* mmst_choose_best_streams: the audio stream of the highest rate; of the video streams that
   fit into the bandwidth left the one of the highest rate, or else that of the lowest. *)
AudioStream(a) ==
    FoldLeft(LAMBDA best, id : IF a.types[id] = "audio" /\ a.bitrates[id] > best.rate
                               THEN [id |-> id, rate |-> a.bitrates[id]] ELSE best,
             [id |-> 0, rate |-> 0], a.stream_ids)

BandwidthLeft(a, bandwidth) ==
    IF bandwidth < AudioStream(a).rate THEN 0 ELSE bandwidth - AudioStream(a).rate

\* As a mutant: a stream is taken when it leaves more of the bandwidth.
FittingVideoOfLowestRate(a, left) ==
    FoldLeft(LAMBDA best, id : IF /\ a.types[id] = "video" /\ left >= a.bitrates[id]
                                  /\ best.id = 0 \/ left - a.bitrates[id] > best.left
                               THEN [id |-> id, left |-> left - a.bitrates[id]] ELSE best,
             [id |-> 0, left |-> left], a.stream_ids)

FittingVideo(a, left) ==
    FoldLeft(LAMBDA best, id : IF /\ a.types[id] = "video"
                                  /\ left - a.bitrates[id] < best.left /\ left >= a.bitrates[id]
                               THEN [id |-> id, left |-> left - a.bitrates[id]] ELSE best,
             [id |-> 0, left |-> left], a.stream_ids)

LowestVideo(a) ==
    FoldLeft(LAMBDA best, id : IF /\ a.types[id] = "video"
                                  /\ a.bitrates[id] < best.rate \/ best.rate = 0
                               THEN [id |-> id, rate |-> a.bitrates[id]] ELSE best,
             [id |-> 0, rate |-> 0], a.stream_ids)

VideoStream(a, bandwidth) ==
    LET fitting == FittingVideo(a, BandwidthLeft(a, bandwidth)).id
    IN  IF fitting # 0 THEN fitting ELSE LowestVideo(a).id

(* Command 0x33 switches off the others, but never the first stream of the header. *)
StreamsOn(a, bandwidth) ==
    { a.stream_ids[i] : i \in { j \in DOMAIN a.stream_ids :
        j = 1 \/ a.stream_ids[j] \in {AudioStream(a).id, VideoStream(a, bandwidth)} } }

-----------------------------------------------------------------------------
(* A packet is stored longer than it came, with zeros at its end.  Whoever reads it there finds
   the segments the server sent: none of the zeros belongs to one.  The exception is the
   padding that crosses 255, where the bytes the header became shorter by are lost count of. *)
CrossesByte(h, maxsize, rawsize) ==
    LET ppad == h.pad + maxsize - rawsize
    IN  ppad <= UCHAR_MAX /\ ppad + Width(h.plenBits) + Width(h.seqBits) + Width(h.padBits) > UCHAR_MAX

FixedPacketReadsTheSame(h, segs, maxsize) ==
    LET rawsize == PacketLen(h, maxsize)
        fixed == mms_fix_pack(h, maxsize, rawsize)
    IN  ~CrossesByte(h, maxsize, rawsize) =>
            /\ Segments(fixed, segs, maxsize) = Segments(h, segs, maxsize)
            /\ HeaderLen(fixed) <= HeaderLen(h)

(* The stamp of a packet is read where its time is, or not at all. *)
StampIsTheTime(h) ==
    h.ecc = 2 => mms_search_stamp(h) \in {TimeAt(h), -1}

(* The streams that are played are the best the bandwidth allows. *)
BestStreamsArePlayed(a, bandwidth) ==
    LET Of(type) == { i \in ToSet(a.stream_ids) : a.types[i] = type }
        audio == AudioStream(a).id
        video == VideoStream(a, bandwidth)
        fit == { v \in Of("video") : a.bitrates[v] <= BandwidthLeft(a, bandwidth) }
    IN  (\A i \in ToSet(a.stream_ids) : a.bitrates[i] > 0) =>
            /\ \A i \in Of("audio") : a.bitrates[i] <= a.bitrates[audio] /\ audio \in Of("audio")
            /\ \A i \in fit : video \in fit /\ a.bitrates[i] <= a.bitrates[video]
            /\ fit = {} => \A i \in Of("video") :
                  video \in Of("video") /\ a.bitrates[i] >= a.bitrates[video]
            /\ { audio, video } \ {0} \subseteq StreamsOn(a, bandwidth)
            /\ Cardinality(StreamsOn(a, bandwidth)) <= 3
=============================================================================
