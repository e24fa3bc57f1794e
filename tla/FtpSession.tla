----------------------------- MODULE FtpSession -----------------------------
(***************************************************************************)
(* The dialogue of TFtpCli with an FTP server (libmtd/FtpCli.cpp), as its   *)
(* four callers lead it: fetchFtpRemoteFileInfo, then the attempts of       *)
(* TFtpThread::retrFileChunk, and getDirList and fetchRemoteFile.           *)
(*                                                                         *)
(* A command is three steps: it is sent, its reply is read line by line     *)
(* (getReply), the reply is judged.  Nothing ties a reply to its command:   *)
(* a line of a multi-line reply that begins with a number ends the reply    *)
(* early, a reply that is late is given up, and what is left over is read   *)
(* as the reply to the next command.                                       *)
(***************************************************************************)
EXTENDS Integers, Sequences, FiniteSets

CONSTANTS
    MaxAttempts,    \* MAX_TRY_ATTEMPTS of a thread
    RemoteSize,     \* size of the remote file
    Scannable,      \* numbers that lines of text carry behind their third character
    Positions       \* RemoteStartPos of the thread

VARIABLES
    Caller,           \* "info", then "thread"; or "list"; or "fetch"
    Url,              \* what uri->path() names: a file in a "dir" or in the "root", or "noFile"
    Server,           \* what the server can do
    RemoteStartPos,   \* where the thread resumes
    pc, phase,        \* the step of the caller; "send", "reply" or "judge"
    FtpBuffer,        \* the last line read
    ret,              \* the result of getReply
    lines,            \* lines on their way from the server
    conn,             \* its end of the control connection: "up", "silent" or "closed"
    srv,              \* the session at the server
    inStep,           \* history: in the information call no reply ended early or was given up
    ctrl, data, listening, \* the handles of *this, DataSkp and ListenSkp are valid
    leaked,           \* descriptors nobody will close
    attempt,          \* TryAttempts of the thread
    IsPasv, IsResumeSupport, FileSize,
    result            \* of the call that ended last

dialogue == <<pc, phase, FtpBuffer, ret>>
channel  == <<lines, conn, srv, inStep>>
handles  == <<ctrl, data, listening, leaked>>
task     == <<Caller, attempt, IsPasv, IsResumeSupport, FileSize, result>>
fixed    == <<Url, Server, RemoteStartPos>>
vars == <<dialogue, channel, handles, task, fixed>>

-----------------------------------------------------------------------------
(* Lines: the first character of the buffer (0: no digit), whether getReply
   stops at the line (no '-' after three characters, a number in front), and
   the command it answers. *)

Commands == {"greeting", "user", "pass", "type", "cwd", "rest", "size", "pasv",
             "port", "ascii", "list", "retr"}

Line(d, stop, c) == [first |-> d, ends |-> stop, of |-> c]
EmptyBuffer == Line(0, FALSE, "none")

(* What the server writes as one reply with first digit d.  Replies to
   connecting, logging in and changing directory carry its messages: lines of
   text, lines that begin with a number, and, behind the 1 of "331-", an empty
   line: strtok skips its line end and leaves that 1, a number, in front. *)
Replies(c, d) ==
    {<<Line(d, TRUE, c)>>}
    \cup (IF c \in {"greeting", "pass", "cwd"}
          THEN {<<Line(d, FALSE, c), Line(0, FALSE, c), Line(d, TRUE, c)>>,
                <<Line(d, FALSE, c), Line(2, TRUE, c), Line(d, TRUE, c)>>}
          ELSE {})
    \cup (IF c = "user" /\ d = 3
          THEN {<<Line(d, FALSE, c), Line(0, TRUE, c), Line(d, TRUE, c)>>}
          ELSE {})

Servers == [rest : BOOLEAN, size : {"ok", "not found", "unknown"}, pasv : BOOLEAN,
            listing : {"unix", "nogid", "dos", "total"}]

NewSession == [type |-> "A", inDir |-> FALSE, from |-> 0, sending |-> FALSE]

(* The server's work on a command: the first digit of its answer, and its
   session afterwards. *)
ServerDoes(c) ==
    LET yes(d, s) == [digit |-> d, srv |-> s]
        no == yes(5, srv)
    IN  CASE c = "user"  -> {yes(2, srv), yes(3, srv), no}
          [] c = "pass"  -> {yes(2, srv), no}
          [] c = "type"  -> {yes(2, [srv EXCEPT !.type = "I"]), no}
          [] c = "ascii" -> {yes(2, [srv EXCEPT !.type = "A"]), no}
          [] c = "cwd"   -> {yes(2, [srv EXCEPT !.inDir = TRUE]), no}
          [] c = "pasv"  -> {IF Server.pasv THEN yes(2, srv) ELSE no}
          [] c = "port"  -> {yes(2, srv), no}
          [] c = "rest"  -> {IF Server.rest
                             THEN yes(3, [srv EXCEPT !.from =
                                    IF Caller = "thread" THEN RemoteStartPos ELSE 0])
                             ELSE no}
          [] c = "size"  -> {IF Server.size = "ok" THEN yes(2, srv) ELSE no}
          [] c = "list"  -> {yes(1, srv), no}
          [] c = "retr"  -> {yes(1, [srv EXCEPT !.sending = TRUE]), no}

-----------------------------------------------------------------------------
(* TFtpParser: the tokens of a listing line that have arrived. *)

Token(k, n) == [kind |-> k, value |-> n]
Word == Token("word", 0)

Listing ==
    LET size == Token("number", RemoteSize)
        date == <<Token("month", 0), Token("number", 7), Token("number", 1999)>>
    IN  CASE Server.listing = "unix"  -> <<Word, Token("number", 1), Word, Word, size>> \o date \o <<Word>>
          [] Server.listing = "nogid" -> <<Word, Token("number", 1), Word, size>> \o date \o <<Word>>
          [] Server.listing = "dos"   -> <<Token("date", 0), Token("clock", 0), size, Word>>
          [] Server.listing = "total" -> <<Token("total", 0), Token("number", 8)>>

(* One recv returns a beginning of the listing; the last token may be cut. *)
Arrivals ==
    {SubSeq(Listing, 1, k) : k \in 0 .. Len(Listing)}
    \cup {Append(SubSeq(Listing, 1, k - 1), Token("number", Listing[k].value \div 10)) :
             k \in {j \in 1 .. Len(Listing) : Listing[j].kind = "number"}}

process_unix(t) ==
    IF /\ Len(t) >= 9
       /\ t[5].kind = "number" /\ t[6].kind = "month" /\ t[8].kind = "number"
    THEN t[5].value ELSE -1

process_dos(t) ==
    IF Len(t) >= 4 /\ t[2].kind = "clock" /\ t[3].kind = "number" THEN t[3].value ELSE -1

parse(t) ==
    CASE t = <<>> \/ t[1].kind = "total" -> -1
      [] OTHER -> IF t[1].kind = "date" THEN process_dos(t) ELSE process_unix(t)

-----------------------------------------------------------------------------
(* The judgement of a reply. *)

\* As a mutant: a positive reply is not asked for after REST.
AnyReply(d) == ret

Positive(d) == ret /\ FtpBuffer.first = d

(* ftp_login, after USER: the result of getReply is not looked at. *)
LoggedIn     == FtpBuffer.first = 2
WantsPass    == FtpBuffer.first = 3

(* ftp_pasv: neither; but six numbers have to be found. *)
HasAddress == FtpBuffer.first = 2 /\ FtpBuffer.of = "pasv"

(* ftp_size: TRUE or FALSE, and the size that was scanned, from whatever line begins
   with a 2: one that answers another command may carry a number as well.  When the line
   is neither a 2 nor one of the known texts, the function ends without a return. *)
Scanned == IF FtpBuffer.of = "size" THEN {RemoteSize} ELSE Scannable \cup {FileSize}

ftp_size ==
    IF ~ret THEN {[ok |-> FALSE, size |-> FileSize]}
    ELSE IF FtpBuffer.first = 2
    THEN {[ok |-> TRUE, size |-> n] : n \in Scanned}
    ELSE IF FtpBuffer.first = 5 /\ FtpBuffer.of = "size" /\ Server.size = "not found"
    THEN {[ok |-> FALSE, size |-> FileSize]}
    ELSE {[ok |-> b, size |-> FileSize] : b \in BOOLEAN}

(* Where the caller goes on. *)
DataStep   == IF IsPasv THEN "pasv" ELSE "listen"
AfterLogin == IF Caller = "list" THEN DataStep ELSE "type"
AfterDir   == IF Caller = "info" THEN "rest" ELSE DataStep
AfterType  == IF Url = "dir" THEN "cwd" ELSE AfterDir
AfterData  == CASE Caller \in {"info", "list"} -> "ascii"
                [] Caller = "fetch" -> "rest"
                [] Caller = "thread" -> IF IsResumeSupport THEN "rest" ELSE "retr"
AfterRest  == IF Caller = "info" THEN "size" ELSE "retr"

Open(b) == IF b THEN 1 ELSE 0

TriesLeft == attempt + 1 < MaxAttempts

(* The call returns.  What fetchFtpRemoteFileInfo leaves open nobody closes: its
   TFtpCli is not deleted.  A thread that failed tries again. *)
Return(ok, ctrlOpen, dataOpen) ==
    /\ result' = ok
    /\ IF Caller = "info"
       THEN /\ leaked' = leaked + Open(ctrlOpen) + Open(dataOpen) + Open(listening)
            /\ ctrl' = FALSE /\ data' = FALSE /\ listening' = FALSE
            /\ pc' = "end"
            /\ UNCHANGED <<Caller, attempt>>
       ELSE /\ ctrl' = ctrlOpen /\ data' = dataOpen
            /\ attempt' = IF Caller = "thread" THEN attempt + 1 ELSE attempt
            /\ pc' = IF Caller = "thread" /\ ~ok /\ TriesLeft
                     THEN "connect" ELSE "end"
            /\ UNCHANGED <<leaked, listening, Caller>>
    /\ phase' = "send"
    /\ UNCHANGED <<channel, fixed, FtpBuffer, ret, IsPasv, IsResumeSupport, FileSize>>

(* The callers' error paths: which of them close the control connection. *)
Fail(c) ==
    LET keeps == \/ Caller \in {"info", "list"} /\ c = "greeting"
                 \/ Caller = "info" /\ c \in {"size", "ascii", "list", "listing", "noFile"}
                 \/ Caller = "list" /\ c = "listing"
    IN  Return(FALSE, keeps /\ ctrl, data)

Goto(c) ==
    /\ pc' = c /\ phase' = "send"
    /\ UNCHANGED <<FtpBuffer, ret, channel, handles, task, fixed>>

-----------------------------------------------------------------------------
(* setupCtrlConn: connect, then read the greeting. *)

setupCtrlConn ==
    /\ pc = "connect"
    /\ \/ /\ \E d \in {2, 4}, r \in Replies("greeting", 2) :
                lines' = IF d = 2 THEN r ELSE <<Line(4, TRUE, "greeting")>>
          /\ pc' = "greeting" /\ phase' = "reply"
          /\ FtpBuffer' = EmptyBuffer
          /\ conn' = "up" /\ srv' = NewSession
          /\ leaked' = leaked + Open(ctrl) /\ ctrl' = TRUE
          /\ UNCHANGED <<ret, inStep, data, listening, task, fixed>>
       \/ Fail("greeting")

(* The sending part of every ftp_...: the buffer is cleared; a closed connection
   may fail at once or swallow the command. *)
Send ==
    /\ phase = "send" /\ pc \in Commands
    /\ FtpBuffer' = EmptyBuffer
    /\ \/ /\ conn = "up"
          /\ phase' = "reply"
          /\ \E w \in ServerDoes(pc) : \E r \in Replies(pc, w.digit) :
               /\ lines' = lines \o r \o
                    (IF w.digit = 1 THEN <<Line(2, TRUE, "none")>> ELSE <<>>)
               /\ srv' = w.srv
          /\ UNCHANGED ret
       \/ /\ conn # "up"
          /\ phase' = "reply" /\ UNCHANGED <<ret, lines, srv>>
       \/ /\ conn = "closed"
          /\ phase' = "judge" /\ ret' = FALSE /\ UNCHANGED <<lines, srv>>
    /\ UNCHANGED <<pc, conn, inStep, handles, task, fixed>>

Lost(b) == inStep' = (inStep /\ ~(Caller = "info" /\ b))

(* getLine and the loop of getReply.  The line that ends a reply need not be its last. *)
getReply ==
    /\ phase = "reply" /\ lines # <<>>
    /\ FtpBuffer' = Head(lines) /\ lines' = Tail(lines)
    /\ IF Head(lines).ends THEN phase' = "judge" /\ ret' = TRUE
                           ELSE UNCHANGED <<phase, ret>>
    /\ Lost(Head(lines).ends /\ \E i \in DOMAIN Tail(lines) : Tail(lines)[i].of = Head(lines).of)
    /\ UNCHANGED <<pc, conn, srv, handles, task, fixed>>

\* As a mutant: Recv without a timeout.
RecvForEver ==
    /\ phase = "reply" /\ lines # <<>>
    /\ phase' = "judge" /\ ret' = FALSE
    /\ Lost(TRUE)
    /\ UNCHANGED <<pc, FtpBuffer, lines, conn, srv, handles, task, fixed>>

(* Recv gives up after 100 seconds; the lines may come later. *)
RecvTimeout ==
    /\ phase = "reply" /\ (lines # <<>> \/ conn # "closed")
    /\ phase' = "judge" /\ ret' = FALSE
    /\ Lost(TRUE)
    /\ UNCHANGED <<pc, FtpBuffer, lines, conn, srv, handles, task, fixed>>

(* At the end of the connection the peek returns 0, getLine reports an empty
   line, and getReply asks for another one, for ever. *)
GetLineAtEof ==
    /\ phase = "reply" /\ lines = <<>> /\ conn = "closed"
    /\ phase' = "spin"
    /\ UNCHANGED <<pc, FtpBuffer, ret, channel, handles, task, fixed>>

Judge(c) == phase = "judge" /\ pc = c

JudgeGreeting == Judge("greeting") /\ IF Positive(2) THEN Goto("user") ELSE Fail("greeting")

ftp_login ==
    \/ /\ Judge("user")
       /\ IF LoggedIn THEN Goto(AfterLogin)
          ELSE IF WantsPass THEN Goto("pass") ELSE Fail("login")
    \/ /\ Judge("pass")
       /\ IF Positive(2) THEN Goto(AfterLogin) ELSE Fail("login")

(* A path without a file name: fetchRemoteFile goes on with it. *)
ftp_binary ==
    /\ Judge("type")
    /\ IF ~Positive(2) THEN Fail("type")
       ELSE IF Url = "noFile" /\ Caller # "fetch" THEN Fail("noFile") ELSE Goto(AfterType)

ftp_cwd == Judge("cwd") /\ IF Positive(2) THEN Goto(AfterDir) ELSE Fail("cwd")

(* setupPasvDataConn: PASV, then Connect; an old handle of DataSkp is overwritten.
   When it fails a thread turns to PORT. *)
setupPasvDataConn ==
    /\ Judge("pasv")
    /\ \/ /\ HasAddress
          /\ data' = TRUE /\ leaked' = leaked + Open(data)
          /\ pc' = AfterData /\ phase' = "send"
          /\ UNCHANGED <<FtpBuffer, ret, channel, ctrl, listening, task, fixed>>
       \/ /\ Caller = "thread"
          /\ IsPasv' = FALSE
          /\ data' = IF HasAddress THEN FALSE ELSE data
          /\ leaked' = leaked + (IF HasAddress THEN Open(data) ELSE 0)
          /\ ctrl' = FALSE
          /\ result' = FALSE /\ attempt' = attempt + 1
          /\ pc' = IF TriesLeft THEN "connect" ELSE "end"
          /\ phase' = "send"
          /\ UNCHANGED <<FtpBuffer, ret, channel, listening, Caller, IsResumeSupport, FileSize, fixed>>
       \/ Caller # "thread" /\ Fail("pasv")

(* setupPortDataConn: Listen overwrites an old handle of ListenSkp.  The server connects
   only when it has something to send, so that accept finds nobody: it fails, or,
   as setNonBlock leaves the mode of the socket to chance, it waits for ever. *)
SomebodyConnected == FALSE

setupPortDataConn ==
    \/ /\ pc = "listen"
       /\ leaked' = leaked + Open(listening) /\ listening' = TRUE
       /\ pc' = "port" /\ phase' = "send"
       /\ UNCHANGED <<FtpBuffer, ret, channel, ctrl, data, task, fixed>>
    \/ /\ Judge("port")
       /\ IF Positive(2) /\ SomebodyConnected THEN Goto(AfterData) ELSE Fail("port")
    \/ /\ Judge("port") /\ Positive(2) /\ ~SomebodyConnected
       /\ phase' = "accept"
       /\ UNCHANGED <<pc, FtpBuffer, ret, channel, handles, task, fixed>>

(* The information call notes whether REST works and goes on either way. *)
ftp_rest ==
    /\ Judge("rest")
    /\ IF Caller = "info"
       THEN /\ IsResumeSupport' = Positive(3)
            /\ pc' = AfterRest /\ phase' = "send"
            /\ UNCHANGED <<FtpBuffer, ret, channel, handles, Caller, attempt, IsPasv,
                           FileSize, result, fixed>>
       ELSE IF Positive(3) THEN Goto(AfterRest) ELSE Fail("rest")

(* A known size ends the call, and declares that the download can be resumed. *)
SizeKnown ==
    /\ Judge("size")
    /\ \E r \in ftp_size :
          \/ /\ r.ok /\ r.size # -1
             /\ FileSize' = r.size /\ IsResumeSupport' = TRUE /\ result' = TRUE
             /\ leaked' = leaked + Open(ctrl) + Open(data)
             /\ ctrl' = FALSE /\ data' = FALSE
             /\ Caller' = "thread" /\ pc' = "connect" /\ phase' = "send"
             /\ UNCHANGED <<FtpBuffer, ret, channel, listening, attempt, IsPasv, fixed>>
          \/ r.ok /\ r.size = -1 /\ Goto(DataStep)
          \/ ~r.ok /\ Fail("size")

ftp_ascii == Judge("ascii") /\ IF Positive(2) THEN Goto("list") ELSE Fail("ascii")

ftp_list == Judge("list") /\ IF Positive(1) THEN Goto("listing") ELSE Fail("list")

(* The listing: one recv for the information call, all lines for getDirList. *)
ReadListing ==
    /\ pc = "listing"
    /\ \/ Fail("listing")
       \/ Caller = "list" /\ Return(TRUE, ctrl, data)
       \/ /\ Caller = "info"
          /\ \E t \in Arrivals :
                /\ FileSize' = parse(t)
                /\ IsResumeSupport' = (parse(t) # -1)
          /\ ctrl' = FALSE /\ data' = FALSE /\ leaked' = leaked + Open(listening)
          /\ listening' = FALSE /\ result' = TRUE
          /\ Caller' = "thread" /\ pc' = "connect" /\ phase' = "send"
          /\ UNCHANGED <<FtpBuffer, ret, channel, attempt, IsPasv, fixed>>

ftp_retr ==
    /\ Judge("retr")
    /\ IF ~Positive(1) THEN Fail("retr")
       ELSE IF Caller = "fetch" THEN Return(TRUE, FALSE, FALSE) ELSE Goto("receive")

(* retrKnownSizeFile or retrUnknownSizeFile; then both connections are closed. *)
Receive == pc = "receive" /\ \E ok \in BOOLEAN : Return(ok, FALSE, FALSE)

(* The server falls silent, or closes the control connection, when it likes. *)
ServerGivesUp ==
    /\ ctrl /\ conn = "up" /\ pc # "end"
    /\ conn' \in {"silent", "closed"}
    /\ UNCHANGED <<dialogue, lines, srv, inStep, handles, task, fixed>>

-----------------------------------------------------------------------------
Init ==
    /\ Caller \in {"info", "list", "fetch"}
    /\ Url \in {"dir", "root", "noFile"} /\ Server \in Servers
    /\ RemoteStartPos \in Positions
    /\ pc = "connect" /\ phase = "send" /\ FtpBuffer = EmptyBuffer /\ ret = FALSE
    /\ lines = <<>> /\ conn = "up" /\ srv = NewSession /\ inStep = TRUE
    /\ ctrl = FALSE /\ data = FALSE /\ listening = FALSE /\ leaked = 0
    /\ attempt = 0 /\ IsPasv = TRUE /\ IsResumeSupport = FALSE /\ FileSize = -1
    /\ result = FALSE

ClientStep ==
    \/ setupCtrlConn \/ Send \/ getReply \/ RecvTimeout \/ GetLineAtEof
    \/ JudgeGreeting \/ ftp_login \/ ftp_binary \/ ftp_cwd
    \/ setupPasvDataConn \/ setupPortDataConn
    \/ ftp_rest \/ SizeKnown \/ ftp_ascii \/ ftp_list \/ ReadListing
    \/ ftp_retr \/ Receive

Next == ClientStep \/ ServerGivesUp

(* Every Recv and Send has a timeout, so the client always takes its next step. *)
Spec == Init /\ [][Next]_vars /\ WF_vars(ClientStep)

-----------------------------------------------------------------------------
TypeOK ==
    /\ Caller \in {"info", "thread", "list", "fetch"}
    /\ Url \in {"dir", "root", "noFile"} /\ Server \in Servers
    /\ RemoteStartPos \in Positions
    /\ pc \in Commands \cup {"connect", "listen", "listing", "receive", "end"}
    /\ phase \in {"send", "reply", "judge", "spin", "accept"}
    /\ FtpBuffer \in [first : 0 .. 5, ends : BOOLEAN, of : Commands \cup {"none"}]
    /\ \A i \in DOMAIN lines :
          lines[i] \in [first : 0 .. 5, ends : BOOLEAN, of : Commands \cup {"none"}]
    /\ {inStep, ret, ctrl, data, listening, IsPasv, IsResumeSupport, result} \subseteq BOOLEAN
    /\ conn \in {"up", "silent", "closed"}
    /\ srv \in [type : {"A", "I"}, inDir : BOOLEAN, from : Nat, sending : BOOLEAN]
    /\ leaked \in Nat /\ attempt \in 0 .. MaxAttempts
    /\ FileSize \in Int

(* A thread writes what it receives at its own position.  However replies and
   commands have got out of step, it receives only when this server really is
   sending this file, in binary, from the position that was asked for. *)
ReceivesWhatItAskedFor ==
    pc = "receive" =>
        /\ srv.sending /\ srv.type = "I"
        /\ srv.inDir <=> Url = "dir"
        /\ srv.from = IF IsResumeSupport THEN RemoteStartPos ELSE 0

(* A size, once known, is the remote file's, whether it came from SIZE or from a listing
   line cut by the network, as long as every reply before it was read in time and to its
   last line.  After a line of text that ends a reply early, or a reply given up, ftp_size
   may scan a number from the answer to another command. *)
SizeIsTrue == inStep /\ FileSize # -1 => FileSize = RemoteSize

(* The flag is raised by a known size, whatever the answer to REST was: from a
   server without REST a file of known size is never received. *)
NoRestNoDownload == pc = "receive" /\ FileSize # -1 => Server.rest

(* A failed attempt leaves at most one descriptor behind, the information call
   its control and data connections. *)
LeakIsBounded == leaked <= attempt + IF Caller = "info" THEN 2 ELSE 1

(* Once PASV has failed, none of the thread's later attempts receives anything. *)
PortModeIsForGood == ~IsPasv => pc # "receive"

(* What holds throughout a session of fetchFtpRemoteFileInfo, of a download thread's
   retrFileChunk and of the other callers. *)
SessionInv == TypeOK /\ SizeIsTrue /\ NoRestNoDownload /\ LeakIsBounded /\ PortModeIsForGood

(* Every call returns, unless it reads a reply at the end of the control connection,
   or waits in accept. *)
CallsReturn == <>(pc = "end" \/ (phase = "spin" /\ conn = "closed") \/ (phase = "accept" /\ ~IsPasv))

=============================================================================
