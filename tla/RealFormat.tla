----------------------------- MODULE RealFormat -----------------------------
(***************************************************************************)
(* The header of a RealMedia stream: made from the description a server      *)
(* sends (libstream/rtsp_sdpplin.c, real.c), written to the file and read     *)
(* back (libstream/rmff.c).                                                  *)
(*                                                                         *)
(* A description is a sequence of lines [key, v]; strings are their lengths.  *)
(* A header is a record of chunks; a chunk that is written is [tag, size, at] *)
(* with what it holds.                                                       *)
(***************************************************************************)
EXTENDS Integers, Sequences, SequencesExt, FiniteSetsExt

-----------------------------------------------------------------------------
(* sdpplin_parse_stream.  The lines a stream may have, in the order of the tests of its loop:
   a test that takes a line leaves the next line to the tests behind it. *)
StreamKeys == <<"streamid", "AvgBitRate", "AvgPacketSize", "MaxBitRate", "MaxPacketSize", "StartTime",
                "Preroll", "ActualPreroll", "length", "StreamName", "mimetype", "OpaqueData",
                "ASMRuleBook">>

FreshStream ==
    [streamid |-> 0, avg_bit_rate |-> 0, max_bit_rate |-> 0, avg_packet_size |-> 0,
     max_packet_size |-> 0, preroll |-> 0, duration |-> 0, name |-> 0, mime |-> 0, mlti |-> <<>>]

Default(old, v) == IF old <= 0 THEN v ELSE old

Takes(s, key, v) ==
    CASE key = "streamid" -> [s EXCEPT !.streamid = v]
      [] key = "AvgBitRate" -> [s EXCEPT !.avg_bit_rate = v]
      [] key = "MaxBitRate" -> [s EXCEPT !.max_bit_rate = v, !.avg_bit_rate = Default(@, v)]
      [] key = "AvgPacketSize" -> [s EXCEPT !.avg_packet_size = v]
      [] key = "MaxPacketSize" -> [s EXCEPT !.max_packet_size = v, !.avg_packet_size = Default(@, v)]
      [] key = "Preroll" -> [s EXCEPT !.preroll = Default(@, v)]
      [] key = "ActualPreroll" -> [s EXCEPT !.preroll = v]
      [] key = "length" -> [s EXCEPT !.duration = v * 1000]
      [] key = "StreamName" -> [s EXCEPT !.name = v]
      [] key = "mimetype" -> [s EXCEPT !.mime = v]
      [] key = "OpaqueData" -> [s EXCEPT !.mlti = v]
      [] OTHER -> s

Line(lines, i) == IF i <= Len(lines) THEN lines[i] ELSE [key |-> "end", v |-> 0]

(* One pass of the loop: all tests, one after the other. *)
Pass(lines, st) ==
    LET Test(acc, key) ==
            IF Line(lines, acc.i).key = key
            THEN [i |-> acc.i + 1, s |-> Takes(acc.s, key, lines[acc.i].v), handled |-> TRUE]
            ELSE acc
        after == FoldLeft(Test, [st EXCEPT !.handled = FALSE], StreamKeys)
    IN  IF after.handled THEN after ELSE [after EXCEPT !.i = @ + 1]

RECURSIVE sdpplin_parse_stream(_, _)
sdpplin_parse_stream(lines, st) ==
    IF Line(lines, st.i).key \in {"m", "end"} THEN st
    ELSE sdpplin_parse_stream(lines, Pass(lines, st))

(* sdpplin_parse: the streams by their ids.  An id that is not below the number of streams, or
   a stream before that number, is written outside of the table. *)
RECURSIVE Parse(_, _, _)
Parse(lines, i, desc) ==
    CASE Line(lines, i).key = "end" -> desc
      [] Line(lines, i).key = "m" ->
            LET st == sdpplin_parse_stream(lines, [i |-> i + 1, s |-> FreshStream, handled |-> FALSE])
            IN  IF st.s.streamid < Len(desc.stream)
                THEN Parse(lines, st.i, [desc EXCEPT !.stream[st.s.streamid + 1] = st.s])
                ELSE Parse(lines, st.i, [desc EXCEPT !.outside = TRUE])
      [] Line(lines, i).key = "StreamCount" ->
            Parse(lines, i + 1, [desc EXCEPT !.stream = [k \in 1 .. lines[i].v |-> FreshStream]])
      [] Line(lines, i).key = "Title" -> Parse(lines, i + 1, [desc EXCEPT !.title = lines[i].v])
      [] OTHER -> Parse(lines, i + 1, desc)

sdpplin_parse(lines) == Parse(lines, 1, [stream |-> <<>>, title |-> 0, outside |-> FALSE])

-----------------------------------------------------------------------------
(* select_mlti_data: the length of the codec data of a rule.  A chunk with the tag MLTI is the
   codecs of the rules and the lengths of the codecs; one without is taken whole.  Of a book no
   rule of which holds the selection is -1, at which the number of rules is read for a codec. *)
NoRule == -1

select_mlti_data(mlti, selection) ==
    LET numrules == Len(mlti.rules)
        codec == IF selection = NoRule THEN numrules ELSE mlti.rules[selection + 1]
    IN  IF ~mlti.tagged THEN mlti.size
        ELSE IF selection >= numrules THEN 0
        ELSE IF codec >= Len(mlti.codecs) THEN 0
        ELSE mlti.codecs[codec + 1]

(* The chunks: rmff_new_fileheader, rmff_new_prop, rmff_new_cont, rmff_new_mdpr, rmff_new_dataheader. *)
new_fileheader(n) == [tag |-> "RMF", size |-> 18, num_headers |-> n]
new_prop(p) == [p EXCEPT !.tag = "PROP", !.size = 50]
new_cont(title) == [tag |-> "CONT", size |-> title + 18, title |-> title]
new_mdpr(n, s, len) == [tag |-> "MDPR", size |-> s.name + s.mime + len + 46, stream_number |-> n,
                        avg_bit_rate |-> s.avg_bit_rate, duration |-> s.duration]
DataSize == 18
new_dataheader(n) == [tag |-> "DATA", size |-> DataSize, num_packets |-> n]

SumSizes(chunks) == FoldLeft(LAMBDA sum, c : sum + c.size, 0, chunks)

(* rmff_fix_header. *)
\* As a mutant: the file header is not part of the offset of the data.
fix_headerWithoutFile(h) ==
    LET size == SumSizes(h.streams) + 50 + h.cont.size
    IN  [h EXCEPT !.prop.data_offset = size, !.fileheader.num_headers = Len(h.streams) + 4]

fix_header(h) ==
    LET size == SumSizes(h.streams) + 50 + h.cont.size + h.fileheader.size
        packets == IF h.prop.num_packets # 0 \/ h.prop.avg_packet_size = 0 THEN h.prop.num_packets
                   ELSE (h.prop.avg_bit_rate * h.prop.duration) \div (8000 * h.prop.avg_packet_size)
    IN  [h EXCEPT !.prop = [@ EXCEPT !.size = 50, !.num_streams = Len(h.streams),
                                     !.data_offset = size, !.num_packets = packets],
                  !.fileheader.num_headers = Len(h.streams) + 4,
                  !.data = [@ EXCEPT !.num_packets = IF @ = 0 THEN packets ELSE @,
                                     !.size = packets * h.prop.avg_packet_size]]

(* real_parse_sdp; rule is the first that matches, the same for all streams. *)
HeaderOf(desc, rule) ==
    LET n == Len(desc.stream)
        Of(f(_)) == [i \in 1 .. n |-> f(desc.stream[i])]
        Sum(s) == FoldLeft(LAMBDA a, b : a + b, 0, s)
        Mean(s) == FoldLeft(LAMBDA a, b : IF a # 0 THEN (a + b) \div 2 ELSE b, 0, s)
        MaxOf(s) == FoldLeft(LAMBDA a, b : IF a > b THEN a ELSE b, 0, s)
    IN  IF desc.outside \/ \E i \in 1 .. n : desc.stream[i].mlti = <<>> THEN <<>>
        ELSE <<fix_header(
              [fileheader |-> new_fileheader(4 + n),
               cont |-> new_cont(desc.title),
               streams |-> [i \in 1 .. n |->
                   new_mdpr(desc.stream[i].streamid, desc.stream[i],
                            select_mlti_data(desc.stream[i].mlti[1], rule))],
               prop |-> new_prop(
                   [tag |-> "", size |-> 0, num_streams |-> n, data_offset |-> 0, num_packets |-> 0,
                    avg_bit_rate |-> Sum(Of(LAMBDA s : s.avg_bit_rate)),
                    max_packet_size |-> MaxOf(Of(LAMBDA s : s.max_packet_size)),
                    avg_packet_size |-> Mean(Of(LAMBDA s : s.avg_packet_size)),
                    duration |-> MaxOf(Of(LAMBDA s : s.duration))]),
               data |-> new_dataheader(0)])>>

real_parse_sdp(lines, rule) == HeaderOf(sdpplin_parse(lines), rule)

-----------------------------------------------------------------------------
(* rmff_dump_header: the chunks in their order, each at the end of the one before; nothing when
   they do not leave a byte of maxs free. *)
ChunksOf(h) == <<h.fileheader, h.prop, h.cont>> \o h.streams \o <<[h.data EXCEPT !.size = DataSize]>>

dump_header(h, maxs) ==
    LET chunks == ChunksOf(h)
        At(i) == SumSizes(SubSeq(chunks, 1, i - 1))
    IN  IF SumSizes(chunks) >= maxs THEN [size |-> -1, chunks |-> <<>>]
        ELSE [size |-> SumSizes(chunks),
              chunks |-> [i \in DOMAIN chunks |-> [at |-> At(i), chunk |-> chunks[i]]]]

get_header_size(h) == h.prop.data_offset + DataSize

output_header(h, maxs) ==
    IF SumSizes(ChunksOf(h)) > maxs THEN -28 ELSE dump_header(h, maxs).size

(* rmff_scan_header: as many chunks as the file header says, each where the size of the one
   before leads to; the streams by their numbers. *)
scan_header(dump) ==
    LET fileheader == dump.chunks[1].chunk
        Found(at) == { c \in ToSet(dump.chunks) : c.at = at }
        Step(acc, i) ==
            IF Found(acc.at) = {} THEN acc
            ELSE LET c == (CHOOSE f \in Found(acc.at) : TRUE).chunk
                 IN  [at |-> acc.at + (IF c.tag = "DATA" THEN 34 ELSE c.size),
                      chunks |-> Append(acc.chunks, c)]
    IN  FoldLeft(Step, [at |-> fileheader.size, chunks |-> <<fileheader>>],
                 [i \in 1 .. fileheader.num_headers - 1 |-> i]).chunks

-----------------------------------------------------------------------------
(* What a stream's lines say, in whatever order they come. *)
Says(lines, key, otherwise) ==
    IF \E l \in ToSet(lines) : l.key = key
    THEN (CHOOSE l \in ToSet(lines) : l.key = key).v ELSE otherwise

(* The streams are what their lines say, in whatever order: the average rate and size default
   to the highest, and the actual preroll comes before the other. *)
OrderOfLinesIsFree(lines) ==
    LET s == sdpplin_parse_stream(lines, [i |-> 1, s |-> FreshStream, handled |-> FALSE]).s
    IN  /\ s.avg_bit_rate = Says(lines, "AvgBitRate", Says(lines, "MaxBitRate", 0))
        /\ s.avg_packet_size = Says(lines, "AvgPacketSize", Says(lines, "MaxPacketSize", 0))
        /\ s.preroll = Says(lines, "ActualPreroll", Says(lines, "Preroll", 0))
        /\ s.streamid = Says(lines, "streamid", 0)
        /\ s.duration = 1000 * Says(lines, "length", 0)

(* The header that is made of a description can be written and read back: its length and the
   offset of the data are those of what is written, and every chunk is found again, however
   many streams there are. *)
ReadsBack(h, maxs, dump) ==
    /\ SumSizes(ChunksOf(h)) = get_header_size(h)
    /\ dump.size # -1 =>
          /\ dump.chunks[Len(dump.chunks)].at = h.prop.data_offset
          /\ output_header(h, maxs) = get_header_size(h)
          /\ scan_header(dump) = ChunksOf(h)
    /\ dump.size = -1 => output_header(h, maxs) < 0

HeaderReadsBack(lines, rule, maxs) ==
    \A h \in ToSet(real_parse_sdp(lines, rule)) : ReadsBack(h, maxs, dump_header(h, maxs))
=============================================================================
