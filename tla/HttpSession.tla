----------------------------- MODULE HttpSession -----------------------------
(***************************************************************************)
(* THttpCli and an HTTP server (libmtd/HttpCli.cpp, HttpMsg.cpp): a session  *)
(* with its redirections, the reading of the response header line by line,   *)
(* and the bodies that are read by it, for the two callers that interpret    *)
(* the header: TTask::fetchHttpRemoteFileInfo ("info") and fetchHtmlPage     *)
(* ("page", in memory or into a file).                                       *)
(*                                                                         *)
(* The connection is the sequence of lines and bytes the server gets through *)
(* before the connection ends; the network may hold it back beyond a         *)
(* timeout, and the end may come anywhere.                                   *)
(***************************************************************************)
EXTENDS Integers, Sequences

CONSTANTS
    Webs,           \* what the servers hold: functions from URLs 1 .. n to pages
    RedirectLimit,  \* 5 in the code
    HTTP_BUF_SIZE   \* bytes asked for by one recv

VARIABLES
    Web, Caller, UseProxy, file, \* fixed: the servers, the call, whether a file is written
    url,            \* the URL of the session; 0: not one
    cnt,            \* redirections followed
    requests,       \* sessions begun
    pc,
    wire,           \* what is still to come from the server
    connected,
    ret,            \* what recvHttpResponse returned
    htResponse,     \* the header fields received
    linebuf,        \* the number strtol finds in the line buffer; Garbage: never written
    left,           \* bytes of the body or of the chunk still missing
    saved,          \* bytes taken for the content
    result,         \* of the call
    FileSize, IsResumeSupport,
    stalled         \* a read has timed out while the body was read

fixed   == <<Web, Caller, UseProxy, file>>
session == <<url, cnt, requests, connected, ret, htResponse>>
body    == <<linebuf, left, saved, stalled>>
info    == <<FileSize, IsResumeSupport>>
vars == <<fixed, session, pc, wire, body, result, info>>

-----------------------------------------------------------------------------
(* Pages, and what a server sends for one. *)

Moved == 302
Missing == 404      \* and the other codes fetchHtmlPage and the task refuse
ErrorCodes == {Missing}
H_REDIRECTED(s) == s = Moved

Absent == -1
Chunked == 1
Garbage == -2

Item(is, v) == [is |-> is, v |-> v]

Bytes(n) == [i \in 1 .. n |-> Item("byte", 0)]

Chunk(n) == <<Item("size", n)>> \o Bytes(n) \o <<Item("newline", 0)>>

\* The last k chunks, and the empty one that ends the page.
LastChunks(s) ==
    LET last[k \in 0 .. Len(s)] ==
            IF k = 0 THEN Chunk(0) ELSE Chunk(s[Len(s) + 1 - k]) \o last[k - 1]
    IN last
Chunks(s) == LastChunks(s)[Len(s)]

Field(is, v) == IF v = Absent THEN <<>> ELSE <<Item(is, v)>>

Header(p) ==
    <<Item("status", p.status)>>
    \o Field("Content-Length", p.length)
    \o Field("Transfer-Encoding", p.coding)
    \o Field("Location", p.location)
    \o <<Item("blank", 0)>>

Response(p) == Header(p) \o (IF p.coding = Chunked THEN Chunks(p.chunks) ELSE Bytes(p.size))

(* What gets through: all of it, or a beginning whose last line may be cut: its
   number loses digits, or nothing is left before the colon. *)
Cut(i) == {Item(i.is, i.v \div 10), Item("junk", 0)}
Deliveries(r) ==
    {r} \cup {SubSeq(r, 1, k) : k \in 0 .. Len(r)}
        \cup UNION {{Append(SubSeq(r, 1, k - 1), c) : c \in Cut(r[k])} :
                       k \in {j \in 1 .. Len(r) : r[j].is \in {"status", "Content-Length"}}}

NoFields == [f \in {"Content-Length", "Transfer-Encoding", "Location"} |-> Absent]

SetHdr(f, v) == htResponse' = [htResponse EXCEPT ![f] = v]
GetHdr(f) == htResponse[f]

getContentLen == GetHdr("Content-Length")

(* getLocation and getTransferEncoding return the text of a string that is gone:
   it may still be there or not. *)
getLocation == IF GetHdr("Location") = Absent THEN {0} ELSE {GetHdr("Location"), 0}
getTransferEncoding ==
    IF GetHdr("Transfer-Encoding") = Absent THEN {Absent} ELSE {GetHdr("Transfer-Encoding"), 0}

-----------------------------------------------------------------------------
(* A session: connect, send the request, read the header. *)

End(r) == pc' = "end" /\ result' = r

(* What happens when the connection cannot be made: the task's query fails; a page
   goes on with -1 as its status and the fields of the last response. *)
NotConnected ==
    /\ connected' = FALSE /\ wire' = <<>>
    /\ IF Caller = "info" THEN End(0) /\ UNCHANGED ret
       ELSE pc' = "judge" /\ ret' = -1 /\ UNCHANGED result

(* https: connectRemoteHost greets by SSL, but the request and the response are
   sent and received in the clear, and the server hangs up. *)
Reachable == url # 0 /\ (UseProxy \/ Web[url].scheme \in {"http", "https"})
Heard == IF Web[url].scheme = "https" /\ ~UseProxy THEN {<<>>} ELSE Deliveries(Response(Web[url]))

setupHttpSession ==
    /\ pc = "connect"
    /\ requests' = requests + 1
    /\ \/ NotConnected
       \/ /\ Reachable
          /\ connected' = TRUE
          /\ wire' \in Heard
          /\ pc' = "status" /\ UNCHANGED <<ret, result>>
    /\ UNCHANGED <<fixed, url, cnt, htResponse, body, info>>

(* recvHttpResponse gives up: at the end of the connection, at a timeout, at a
   line that is none.  The fields received so far stay. *)
Give(r) ==
    /\ ret' = r /\ pc' = "judge"
    /\ UNCHANGED <<wire, url, cnt, requests, connected, fixed, body, result, info>>

ClearAllHdr == htResponse' = NoFields

recvStatusLine ==
    /\ pc = "status"
    /\ ClearAllHdr
    /\ \/ Give(-1)
       \/ /\ wire # <<>> /\ Head(wire).is = "status"
          /\ wire' = Tail(wire) /\ ret' = Head(wire).v
          /\ pc' = "header"
          /\ UNCHANGED <<fixed, url, cnt, requests, connected, body, result, info>>

recvHeaderLine ==
    /\ pc = "header"
    /\ \/ Give(-1) /\ UNCHANGED htResponse
       \/ /\ wire # <<>> /\ Head(wire).is \in DOMAIN NoFields
          /\ SetHdr(Head(wire).is, Head(wire).v)
          /\ wire' = Tail(wire)
          /\ UNCHANGED <<fixed, url, cnt, requests, connected, ret, pc, body, result, info>>
       \/ /\ wire # <<>> /\ Head(wire).is = "blank"
          /\ wire' = Tail(wire) /\ pc' = "judge"
          /\ UNCHANGED <<fixed, session, body, result, info>>

(* Take the new address, close the socket and begin again. *)
Follow(u) ==
    /\ url' = u /\ cnt' = cnt + 1
    /\ connected' = FALSE /\ wire' = <<>> /\ pc' = "connect"
    /\ UNCHANGED <<fixed, requests, ret, htResponse, body, result>>

-----------------------------------------------------------------------------
(* fetchHttpRemoteFileInfo: five redirections are followed.  A redirection to
   ftp asks that server, and then goes on over HTTP with the ftp address, to which
   connectRemoteHost does not connect.  Only the codes of ErrorCodes fail: any
   other, and -1 for no response, are taken, with the Content-Length seen. *)

InfoMayFollow == H_REDIRECTED(ret) /\ cnt < RedirectLimit

InfoRedirected ==
    /\ pc = "judge" /\ Caller = "info" /\ InfoMayFollow
    /\ \E u \in getLocation :
          IF u # 0 /\ Web[u].scheme = "ftp"
          THEN \/ End(0) /\ UNCHANGED <<fixed, session, wire, body, info>>
               \/ /\ FileSize' \in {Web[u].size, -1} /\ IsResumeSupport' = (FileSize' # -1)
                  /\ Follow(u)
          ELSE Follow(u) /\ UNCHANGED info

InfoTaken ==
    /\ pc = "judge" /\ Caller = "info"
    /\ ~InfoMayFollow
    /\ IF ret \in ErrorCodes THEN End(0) /\ UNCHANGED info
       ELSE /\ End(1)
            /\ FileSize' = getContentLen /\ IsResumeSupport' = (getContentLen # Absent)
    /\ UNCHANGED <<fixed, session, wire, body>>

(* redirectUrl: the first status decides whether redirections are followed and is
   the one that is judged in the end; the variable of the loop hides the others. *)
PageMayFollow == H_REDIRECTED(ret) /\ cnt <= RedirectLimit

PageRedirected ==
    /\ pc = "judge" /\ Caller = "page" /\ PageMayFollow
    /\ \E u \in getLocation : Follow(u)
    /\ UNCHANGED info

(* What of the body is read, and how. *)
PageTaken ==
    /\ pc = "judge" /\ Caller = "page"
    /\ ~PageMayFollow
    /\ \/ cnt = 0 /\ ret \in ErrorCodes /\ End(-4)
       \/ /\ cnt > 0 \/ ret \notin ErrorCodes
          /\ \E te \in getTransferEncoding :
                \/ te = Absent /\ pc' = "file" /\ UNCHANGED result
                \/ te = Chunked /\ pc' = "chunks" /\ UNCHANGED result
                \/ te \notin {Absent, Chunked} /\ End(0)
    /\ UNCHANGED <<fixed, session, wire, body, info>>

-----------------------------------------------------------------------------
(* fetchHtmlFile. *)

Failed == End(-2)

Received(n) == wire' = SubSeq(wire, n + 1, Len(wire)) /\ saved' = saved + n

Smaller(a, b) == IF a < b THEN a ELSE b

BeginFile ==
    /\ pc = "file"
    /\ \/ /\ left' = getContentLen
          /\ pc' = IF getContentLen = Absent THEN "unknown" ELSE "known"
          /\ UNCHANGED result
       \/ file /\ Failed /\ UNCHANGED left            \* fopen
    /\ UNCHANGED <<fixed, session, wire, linebuf, saved, stalled, info>>

(* Of known length: recv takes what is there, also more than is left. *)
\* As a mutant: the end of the connection ends the page.
ClosedEarlyIsDone == End(saved)

ClosedEarly == Failed

KnownLength ==
    /\ pc = "known"
    /\ \/ /\ left <= 0 /\ End(saved)
          /\ UNCHANGED <<wire, body>>
       \/ /\ left > 0 /\ connected
          /\ \E n \in 1 .. Smaller(HTTP_BUF_SIZE, Len(wire)) :
                /\ wire' = SubSeq(wire, n + 1, Len(wire))
                /\ \/ saved' = saved + n /\ left' = left - n /\ UNCHANGED <<pc, result>>
                   \/ file /\ Failed /\ UNCHANGED <<saved, left>>      \* fwrite
          /\ UNCHANGED <<linebuf, stalled>>
       \/ /\ left > 0 /\ wire = <<>> /\ connected /\ ClosedEarly
          /\ UNCHANGED <<wire, body>>
       \/ /\ left > 0 /\ Failed                       \* timeout, no connection
          /\ UNCHANGED <<wire, body>>
    /\ UNCHANGED <<fixed, session, info>>

(* Of unknown length: __exact_read fills the whole buffer before it returns; on a
   socket that does not block it gives up when nothing has arrived, and what it has
   read is lost.  A failing fwrite closes the file, and the loop goes on with it. *)
WouldBlock == Failed

UnknownLength ==
    /\ pc = "unknown"
    /\ \/ /\ connected /\ wire # <<>>
          /\ LET n == Smaller(HTTP_BUF_SIZE, Len(wire)) IN
                \/ Received(n) /\ UNCHANGED <<pc, result>>
                \/ file /\ Received(n) /\ pc' = "undefined" /\ UNCHANGED result
          /\ UNCHANGED <<linebuf, left, stalled>>
       \/ /\ connected /\ wire = <<>> /\ End(saved)
          /\ UNCHANGED <<wire, body>>
       \/ /\ WouldBlock
          /\ UNCHANGED <<wire, body>>
    /\ UNCHANGED <<fixed, session, info>>

-----------------------------------------------------------------------------
(* fetchHtmlChunk.  The results of ReadLine and of read are not looked at. *)

LineEnd(i) == i.is # "byte"
LineLength == CHOOSE n \in 0 .. Len(wire) :
    /\ n = Len(wire) \/ (n > 0 /\ LineEnd(wire[n]))
    /\ \A m \in 1 .. n - 1 : ~LineEnd(wire[m])

(* What strtol makes of a line: bytes of the content may be digits or not. *)
Numbers == IF wire[1].is = "size" THEN {wire[1].v}
           ELSE IF wire[1].is = "byte" THEN {0, 1} ELSE {0}

(* The buffer and the connection after a call of ReadLine: a line; at the end of the
   connection nothing, and the buffer stays; after a timeout a part of a line. *)
ReadLine(next) ==
    \/ /\ connected /\ wire # <<>>
       /\ linebuf' \in Numbers
       /\ wire' = SubSeq(wire, LineLength + 1, Len(wire))
       /\ UNCHANGED stalled /\ pc' = next
    \/ /\ connected /\ wire = <<>>
       /\ pc' = next /\ UNCHANGED <<wire, linebuf, stalled>>
    \/ /\ pc' = next /\ stalled' = TRUE
       /\ linebuf' \in {linebuf, 0, 1}
       /\ wire' \in {wire} \cup (IF wire # <<>> THEN {Tail(wire)} ELSE {})

(* strtol(linebuf): of a buffer never written, anything. *)
Sizes == IF linebuf = Garbage THEN {0, 1} ELSE {linebuf}

BeginChunks ==
    \/ /\ pc = "chunks" /\ ReadLine("first")
       /\ UNCHANGED <<fixed, session, left, saved, result, info>>
    \/ /\ pc = "chunks" /\ file /\ Failed               \* fopen
       /\ UNCHANGED <<fixed, session, wire, body, info>>
    \/ /\ pc = "first" /\ left' \in Sizes /\ pc' = "data"
       /\ UNCHANGED <<fixed, session, wire, linebuf, saved, stalled, result, info>>

(* The bytes of a chunk.  A failed write into the file makes the chunk longer by
   one, since its -1 is subtracted; at the end of the connection, and without one,
   the loop goes on for ever. *)
ReadChunk ==
    /\ pc = "data" /\ left > 0
    /\ \/ /\ wire # <<>> /\ connected
          /\ \E n \in 1 .. Smaller(Smaller(HTTP_BUF_SIZE, left), Len(wire)) :
                \/ Received(n) /\ left' = left - n /\ UNCHANGED pc
                \/ /\ file /\ wire' = SubSeq(wire, n + 1, Len(wire))
                   /\ left' = left + 1 /\ UNCHANGED <<saved, pc>>
       \/ (wire = <<>> \/ ~connected) /\ pc' = "spin" /\ UNCHANGED <<wire, left, saved>>
    /\ UNCHANGED <<fixed, session, linebuf, stalled, result, info>>

NextChunk ==
    /\ pc = "data" /\ left = 0 /\ ReadLine("size")
    /\ UNCHANGED <<fixed, session, left, saved, result, info>>

NextSize ==
    \/ /\ pc = "size" /\ ReadLine("last")
       /\ UNCHANGED <<fixed, session, left, saved, result, info>>
    \/ /\ pc = "last" /\ left' \in Sizes
       /\ IF left' = 0 THEN End(0) ELSE pc' = "data" /\ UNCHANGED result
       /\ UNCHANGED <<fixed, session, wire, linebuf, saved, stalled, info>>

-----------------------------------------------------------------------------
Init ==
    /\ Web \in Webs /\ Caller \in {"info", "page"}
    /\ UseProxy \in (IF Caller = "info" THEN BOOLEAN ELSE {FALSE})
    /\ file \in (IF Caller = "page" THEN BOOLEAN ELSE {FALSE})
    /\ url = 1 /\ cnt = 0 /\ requests = 0 /\ pc = "connect"
    /\ wire = <<>> /\ connected = FALSE /\ ret = -1
    /\ htResponse = NoFields /\ linebuf = Garbage /\ left = 0 /\ saved = 0
    /\ result = 0 /\ FileSize = -1 /\ IsResumeSupport = FALSE /\ stalled = FALSE

Next ==
    \/ setupHttpSession \/ recvStatusLine \/ recvHeaderLine
    \/ InfoRedirected \/ InfoTaken \/ PageRedirected \/ PageTaken
    \/ BeginFile \/ KnownLength \/ UnknownLength
    \/ BeginChunks \/ ReadChunk \/ NextChunk \/ NextSize

(* Every wait for a header line or for bytes of a known number has a timeout; the
   others end with the connection, which the server closes after its response. *)
Spec == Init /\ [][Next]_vars /\ WF_vars(Next)

-----------------------------------------------------------------------------
TypeOK ==
    /\ url \in 0 .. Len(Web)
    /\ cnt \in 0 .. RedirectLimit + 1
    /\ requests \in Nat /\ {connected, stalled, IsResumeSupport} \subseteq BOOLEAN
    /\ pc \in {"connect", "status", "header", "judge", "file", "known", "unknown", "chunks",
               "first", "data", "size", "last", "end", "spin", "undefined"}
    /\ htResponse \in [DOMAIN NoFields -> Int]
    /\ left \in Int /\ saved \in Nat /\ result \in Int /\ FileSize \in Int

(* A server that redirects in a circle keeps neither the task nor the crawler
   busy: one session, and one for each redirection that may be followed. *)
RequestsAreBounded == requests <= RedirectLimit + 1 + (IF Caller = "page" THEN 1 ELSE 0)

(* A size reported from a complete response is the one that response announced,
   never one left over from a response on the way to it. *)
SizeIsThatOfTheResponse ==
    pc = "end" /\ Caller = "info" /\ result = 1 /\ ret > 0 =>
        FileSize = Web[url].length

(* What holds throughout fetchHttpRemoteFileInfo and fetchHtmlPage. *)
SessionInv == TypeOK /\ RequestsAreBounded /\ SizeIsThatOfTheResponse

(* A page of announced length that fetchHtmlFile accepts has all its bytes; one of
   unknown length everything the connection brought. *)
FileIsWhole ==
    pc = "end" /\ Caller = "page" /\ result > 0 /\ ret > 0 =>
        /\ getContentLen # Absent => saved >= getContentLen
        /\ getContentLen = Absent => wire = <<>>

(* Unless the network stalled or the disk failed, an accepted page in chunks is
   the page; or, since an end of the connection between two chunks is taken for
   the end of the page, its first chunks: no chunk is torn or runs into the next. *)
ChunkSums(s) ==
    LET sum[k \in 0 .. Len(s)] == IF k = 0 THEN 0 ELSE sum[k - 1] + s[k]
    IN sum

ChunksAreWhole ==
    pc = "end" /\ Caller = "page" /\ ~file /\ result = 0 /\ ~stalled
    /\ ret > 0 /\ linebuf # Garbage =>
        LET sizes == Web[url].chunks IN
        \/ saved = ChunkSums(sizes)[Len(sizes)]
        \/ wire = <<>> /\ \E k \in 0 .. Len(sizes) : saved = ChunkSums(sizes)[k]

(* The page fetchHtmlPage hands to the crawler is the server's. *)
AcceptedPageIsWhole == FileIsWhole /\ ChunksAreWhole

(* A call returns, or is caught in the loop over a chunk when nothing more comes. *)
CallsReturn == <>(pc \in {"end", "spin", "undefined"})

=============================================================================
