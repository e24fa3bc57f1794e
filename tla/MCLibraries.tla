------------------------------ MODULE MCLibraries ------------------------------
(* The libraries and algorithms the program is built on.  Either the operations of the tree are
   called in any order, or an input is chosen and what the code makes of it is compared with what
   it should: media formats, pages, URLs and configuration files. *)
EXTENDS Tree

CONSTANTS Grain, Round, IndexSize, ItemSize, Packages, MaxPieces, MAX_CONFIG_LINE_LENGTH

VARIABLES what, input
libraryVars == <<heap, call, what, input>>

Asf == INSTANCE AsfFormat
Asm == INSTANCE AsmRules
Real == INSTANCE RealFormat
Table == INSTANCE IndexTable
Html == INSTANCE HtmlDom
Url == INSTANCE Uri WITH KnownSchemes <- {<<"s">>}, default_port <- (<<"s">> :> 8)

(* The order of the signs of a configuration file in the character set. *)
Signs == <<" ", "#", "//", "=", "[", "]", "_____***_______", "a", "b">>
OneEach(sign) == 1
Ini == INSTANCE IniFile WITH
          Rank <- [s \in ToSet(Signs) |-> SelectInSeq(Signs, LAMBDA t : t = s)],
          Width <- OneEach

-----------------------------------------------------------------------------
(* Packets of 300 bytes: lengths around the widths of the fields and of the padding. *)
MaxSize == 300
Segment(rlen, bits, len) == [rlen |-> rlen, bits |-> bits, len |-> len]
SegmentSeqs == { <<Segment(8, 0, 0)>>, <<Segment(8, 2, 5), Segment(1, 2, 3)>>,
                 <<Segment(0, 1, 9), Segment(8, 0, 0)>> }

ChoosePacket ==
    \E ecc \in {0, 2}, pb \in 0 .. 3, plen \in {40, 41, 42, 43, 44, 45, 46, 47, 200, 298, 299, 300},
       sb \in 0 .. 3, seq \in {0, 7, 300}, db \in 0 .. 2, multi \in BOOLEAN, segs \in SegmentSeqs :
        /\ seq = 300 => sb >= 2
        /\ sb = 0 => seq = 0
        /\ pb = 1 => plen <= 255
        /\ multi <=> Len(segs) > 1
        /\ input' = [segs |-> segs,
                     h |-> [ecc |-> ecc, plenBits |-> pb, plen |-> IF pb = 0 THEN 0 ELSE plen,
                            seqBits |-> sb, seq |-> seq, padBits |-> db, pad |-> 0,
                            multi |-> multi]]
        /\ what' = "packet"

(* Headers with up to three streams, the rates before or behind them, in three bandwidths. *)
Stream(id, type) == [guid |-> "stream", id |-> id, type |-> type]
Types == {"audio", "video", "other"}

ChooseStreams ==
    \E types \in [1 .. 3 -> Types], rates \in [1 .. 3 -> {1, 3, 5}], n \in 1 .. 3,
       bandwidth \in {2, 5, 9}, first \in BOOLEAN :
        LET file == [guid |-> "file", min |-> 4, max |-> 4]
            streams == [i \in 1 .. n |-> Stream(i, types[i])]
            given == [guid |-> "bitrates", rates |-> rates]
        IN  /\ input' = [bandwidth |-> bandwidth,
                         objects |-> IF first THEN <<file, given>> \o streams \o <<[guid |-> "data"]>>
                                     ELSE <<file>> \o streams \o <<given, [guid |-> "data"]>>]
            /\ what' = "streams"

(* Books of two rules with up to three tests. *)
Test(op, at, join, paren) ==
    [op |-> op, at |-> at, join |-> join, paren |-> paren, spelt |-> IF Len(op) = 2 THEN <<SubSeq(op, 1, 1), "=">> ELSE <<op>>]
Ops == {"<", "<=", "=", ">=", ">"}

ChooseBook ==
    \E o1, o2 \in Ops, o3 \in {"<", ">="}, j2, j3 \in {"&", "|"}, a \in {3, 4}, n \in 0 .. 3,
       paren \in BOOLEAN, sets \in 0 .. 1, bw \in {2, 3, 4} :
        LET cond == SubSeq(<<Test(o1, 3, "", FALSE), Test(o2, a, j2, paren), Test(o3, 2, j3, FALSE)>>, 1, n)
        IN  /\ input' = [rules |-> <<[cond |-> cond, sets |-> sets],
                                     [cond |-> <<Test(o2, a, "", paren)>>, sets |-> 1]>>, bw |-> bw]
            /\ what' = "book"

(* The lines of a stream in every order; descriptions of up to three streams. *)
LineSet == { [key |-> "AvgBitRate", v |-> 5], [key |-> "MaxBitRate", v |-> 9], [key |-> "Preroll", v |-> 2],
             [key |-> "ActualPreroll", v |-> 3], [key |-> "length", v |-> 1], [key |-> "other", v |-> 0],
             [key |-> "MaxPacketSize", v |-> 4] }

ChooseLines ==
    \E n \in 3 .. 5, f \in [1 .. 5 -> LineSet] :
        /\ \A i, j \in 1 .. n : i # j => f[i] # f[j]
        /\ \A i \in n + 1 .. 5 : f[i] = [key |-> "other", v |-> 0]
        /\ input' = SubSeq(f, 1, n) /\ what' = "lines"

StreamLines(id, name, opaque) ==
    <<[key |-> "m", v |-> 1], [key |-> "streamid", v |-> id], [key |-> "StreamName", v |-> name],
      [key |-> "MaxPacketSize", v |-> 10 + id], [key |-> "length", v |-> id + 1],
      [key |-> "MaxBitRate", v |-> 8000]>>
    \o (IF opaque THEN <<[key |-> "OpaqueData",
                          v |-> <<[tagged |-> id # 2, size |-> 6,
                                   rules |-> IF id = 1 THEN <<0>> ELSE <<1, 0, 2>>,
                                   codecs |-> <<7, 9>>]>>]>> ELSE <<>>)

ChooseDescription ==
    \E n \in 0 .. 3, count \in 0 .. 3, names \in [1 .. 3 -> {0, 6}], opaque \in BOOLEAN, title \in {0, 5},
       rule \in -1 .. 3, maxs \in {100, 250, 1000}, up \in BOOLEAN :
        /\ input' = [rule |-> rule, maxs |-> maxs,
                     lines |-> <<[key |-> "Title", v |-> title], [key |-> "StreamCount", v |-> count]>>
                               \o FlattenSeq([i \in 1 .. n |->
                                     StreamLines(IF up THEN i - 1 ELSE n - i, names[i], opaque)])]
        /\ what' = "description"

(* Tables of up to three streams. *)
Tables == { Table!None } \cup { [count |-> c, max |-> m] : c \in 0 .. 9, m \in 1 .. 9 }

ChooseTables ==
    \E t, u, v \in { x \in Tables : x.count <= x.max \/ x = Table!None } :
        /\ u.max \in {0, 4} /\ v.max \in {0, 9}
        /\ input' = <<t, u, v>> /\ what' = "tables"

(* Pages of up to three fragments of any kind, and of five tags. *)
Tags == { <<"<", "a", ">">>, <<"<", "/", "a", ">">>, <<"<", "b", ">">>, <<"<", "/", "b", ">">>, <<"x">> }
Fragments ==
    Tags \cup { <<"<", "S", ">">>, <<"<", "/", "S", " ", ">">>, <<"<", "P", ">">>,
                <<"<", "!", "-", "-">>, <<"-", "-", ">">>, <<"<", "?">>, <<"<">>, <<"<", "/", ">">>,
                <<"<", "b", " ", "x", "=", "q", ">", "q", ">">>, <<"=", "q">>, <<">">>, <<"<", "!">>, <<"-">> }

ChoosePage ==
    /\ \/ \E n \in 0 .. 3, f \in [1 .. 3 -> Fragments] :
            /\ \A i \in n + 1 .. 3 : f[i] = <<">">>
            /\ input' = FlattenSeq(SubSeq(f, 1, n))
       \/ \E f \in [1 .. 5 -> Tags] : input' = FlattenSeq(f)
    /\ what' = "page"

(* Forests of up to seven nodes, by the node before which each is a child of: none, or one on the
   way from the last one up, so that no forest is built twice. *)
RECURSIVE Ways(_, _)
Ways(parents, a) == IF a = 0 THEN {0} ELSE {a} \cup Ways(parents, parents[a])

RECURSIVE ParentSeqs(_)
ParentSeqs(n) ==
    IF n = 0 THEN {<<>>}
    ELSE UNION { { Append(p, a) : a \in Ways(p, n - 1) } : p \in ParentSeqs(n - 1) }

Planted(parents) ==
    FoldLeft(LAMBDA t, a : IF a = 0 THEN insert(t, NULL, 1) ELSE append_child(t, a, 1), EmptyTree, parents)

ChooseForest == \E n \in 0 .. 7 : input' \in ParentSeqs(n) /\ what' = "forest"

(* Tags of up to three attributes. *)
Attrs ==
    { a \in [key : {<<"h">>, <<"x", "b">>},
             val : {<<"a">>, <<"a", "=", "b">>, <<"a", ">", "x">>, <<"a", " ", "b">>},
             style : {"none", "bare", "quoted", "spaced"}] :
        a.style = "bare" => ToSet(a.val) \cap {" ", ">"} = {} }

ChooseTag ==
    \E n \in 0 .. 3, f \in [1 .. 3 -> Attrs] :
        /\ \A i \in n + 1 .. 3 : f[i] = [key |-> <<"h">>, val |-> <<"a">>, style |-> "none"]
        /\ input' = SubSeq(f, 1, n) /\ what' = "tag"

(* URLs of up to five signs, or four behind a scheme; paths of up to eight. *)
UrlSigns == {"s", ":", "/", "?", "#", "@", "8", "9"}
UpTo(n, signs) == UNION { [1 .. k -> signs] : k \in 0 .. n }

ChooseUrl ==
    /\ \/ \E u \in UpTo(5, UrlSigns) : input' = u
       \/ \E u \in UpTo(4, UrlSigns) : input' = <<"s", ":", "/", "/">> \o u
    /\ what' = "url"

ChoosePath == \E p \in UpTo(7, {"/", ".", "h"}) : input' = <<"/">> \o p /\ what' = "path"

(* Configurations of one or two entries, the first with any value, and of up to four. *)
Entries == {<<>>, <<"a">>, <<"a", "b">>, <<"]", "a">>} \X {<<"a">>, <<"b">>, <<"a", "=">>, <<"a", " ", "b">>, <<"[", "b">>}
Others == {<<>>, <<"a">>, <<"]", "a">>} \X {<<"a">>, <<"b">>}
Values == UpTo(2, {" ", "#", "//", "=", "[", "]", "a"}) \cup [1 .. 3 -> {" ", "#", "//", "a"}]

ChooseConfig ==
    /\ \/ \E d \in Entries, e \in Others, v \in Values, w \in {<<>>, <<"]">>} :
            input' = [x \in {d, e} |-> IF x = d THEN v ELSE w]
       \/ \E set \in SUBSET ({<<"a">>, <<"a", "b">>} \X {<<"a">>, <<"a", " ", "b">>}), w \in {<<>>, <<"b">>} :
            input' \in [set -> {<<"a">>, w}]
    /\ what' = "config"

-----------------------------------------------------------------------------
LibraryInit == Init /\ what = "none" /\ input = <<>>

Kinds == {"packet", "streams", "book", "lines", "description", "tables", "page", "tag", "url",
          "path", "config", "forest", "tree"}

ChooseTree == what' = "tree" /\ input' = <<>>

ChooseKind == what = "none" /\ what' = "kind" /\ input' \in Kinds

Chosen(kind) == what = "kind" /\ input = kind

ChooseInput ==
    \/ Chosen("packet") /\ ChoosePacket
    \/ Chosen("streams") /\ ChooseStreams
    \/ Chosen("book") /\ ChooseBook
    \/ Chosen("lines") /\ ChooseLines
    \/ Chosen("description") /\ ChooseDescription
    \/ Chosen("tables") /\ ChooseTables
    \/ Chosen("page") /\ ChoosePage
    \/ Chosen("tag") /\ ChooseTag
    \/ Chosen("url") /\ ChooseUrl
    \/ Chosen("path") /\ ChoosePath
    \/ Chosen("config") /\ ChooseConfig
    \/ Chosen("forest") /\ ChooseForest
    \/ Chosen("tree") /\ ChooseTree

LibraryNext ==
    \/ ChooseKind /\ UNCHANGED vars
    \/ ChooseInput /\ UNCHANGED vars
    \/ what = "tree" /\ Next /\ UNCHANGED <<what, input>>

LibrarySpec == LibraryInit /\ [][LibraryNext]_libraryVars

(* Where in the heap the nodes are makes no difference. *)
View == <<what, input, Shape(heap), call>>

(* A packet that is stored with padding has the segments the server sent, wherever the widths of
   its fields change, but where its padding crosses 255; its stamp is its time. *)
PacketsSurvive ==
    what = "packet" =>
        /\ Asf!FixedPacketReadsTheSame(input.h, input.segs, MaxSize)
        /\ Asf!StampIsTheTime(input.h)

(* The streams of a presentation that are played are the best the bandwidth allows, the length of
   a packet is the one in the header, and the rules of a Real stream that are subscribed to are
   those whose conditions hold. *)
BestStreams ==
    /\ what = "streams" =>
        LET a == Asf!interp_asf_header(input.objects, 1 .. 3, 23)
        IN  /\ Asf!BestStreamsArePlayed(a, input.bandwidth)
            /\ a.packet_len = Asf!mms_get_header(input.objects).vsize
    /\ what = "book" => Asm!MatchesAreTheRulesThatHold(input.rules, input.bw)

(* The order of the lines of a description does not matter; the header made of it is found again in
   the file, with the data where it says; and the tables of its index never write outside of their
   room, and are linked in the file. *)
HeadersAreReadable ==
    /\ what = "lines" => Real!OrderOfLinesIsFree(input)
    /\ what = "description" => Real!HeaderReadsBack(input.lines, input.rule, input.maxs)
    /\ what = "tables" =>
        /\ \A i \in 1 .. 3 : Table!EntriesFit(input[i])
        /\ Table!OffsetsLeadOn(input, 100)

(* The pieces of a page are all of it; the tree that is built of them, by the operations of tree<T>
   alone, has them in order and nothing open below a closed tag; and a tag has the attributes that
   were written.  Between any operations of the tree its links stay mutual and its iterators visit
   every node once; those of a fixed depth every node of it, unless a hole keeps them from
   beginning (tree.h:30-31). *)
TreesAreWhole ==
    /\ TreeInv
    /\ what = "page" => Html!PiecesAreThePage(input) /\ Html!TreeIsThePage(input)
    /\ what = "tag" => Html!AttributesReadBack(input)
    /\ what = "forest" => VisitsAll(Planted(input)) /\ FixedDepth(Planted(input))

(* A URL written out leads to the same place when it is read again, and a path is normalised to the
   one it leads to. *)
UrisReadBack ==
    /\ what = "url" => Url!WrittenReadsBack(input)
    /\ what = "path" => Url!PathsAreResolved(input)

(* The entries of a configuration come back from its file, and no others do, also when the file is
   cut off after one of its lines, as long as no line is longer than load_config can take. *)
ConfigReadsBack == what = "config" => Ini!ConfigReadsBack(input)
=============================================================================
