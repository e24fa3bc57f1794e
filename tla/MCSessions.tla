----------------------------- MODULE MCSessions -----------------------------
(* A session of the FTP client or one of the HTTP client: what a task asks before and while it
   downloads.  The two share the names of some of their variables. *)
EXTENDS Integers, Sequences

CONSTANTS MaxAttempts, RemoteSize, Scannable, Positions, Webs, RedirectLimit, HTTP_BUF_SIZE

(* A thread makes one attempt at least; positions and the size of the file count its bytes. *)
ASSUME FtpAssumption ==
    /\ MaxAttempts \in Nat \ {0} /\ RemoteSize \in Nat
    /\ Scannable \subseteq Int /\ Positions \subseteq Nat

(* A URL leads to a page; a redirection to another, or to none (0).  What is announced may be
   wrong or missing (-1), but a chunk that is not the last has bytes. *)
Pages == [scheme : STRING, status : Nat, length : Int, coding : Int, location : Int, size : Nat,
          chunks : Seq(Nat \ {0})]

ASSUME HttpAssumption ==
    /\ RedirectLimit \in Nat /\ HTTP_BUF_SIZE \in Nat \ {0}
    /\ \A w \in Webs : /\ w \in Seq(Pages) /\ w # <<>>
                       /\ \A u \in DOMAIN w : w[u].location \in {-1} \cup 0 .. Len(w)

VARIABLES
    client,
    Caller, pc, ret, IsResumeSupport, FileSize, result,
    Url, Server, RemoteStartPos, phase, FtpBuffer, lines, conn, srv, inStep, ctrl, data, listening,
    leaked, attempt, IsPasv,
    Web, UseProxy, file, url, cnt, requests, wire, connected, htResponse, linebuf, left, saved,
    stalled

common == <<Caller, pc, ret, IsResumeSupport, FileSize, result>>
onlyFtp == <<Url, Server, RemoteStartPos, phase, FtpBuffer, lines, conn, srv, inStep, ctrl, data,
             listening, leaked, attempt, IsPasv>>
onlyHttp == <<Web, UseProxy, file, url, cnt, requests, wire, connected, htResponse, linebuf, left,
              saved, stalled>>
sessionsVars == <<client, common, onlyFtp, onlyHttp>>

-----------------------------------------------------------------------------
\* What the web servers hold: an address and one it may lead to.
Page(scheme, status, length, coding, location, size, chunks) ==
    [scheme |-> scheme, status |-> status, length |-> length, coding |-> coding,
     location |-> location, size |-> size, chunks |-> chunks]

Ok == 200
Moved == 302
Absent == -1
Chunked == 1

Plain(status, length) == Page("http", status, length, Absent, Absent, 3, <<>>)
InChunks == Page("http", Ok, Absent, Chunked, Absent, 0, <<2, 1>>)
ToUrl(u, length) == Page("http", Moved, length, Absent, u, 0, <<>>)

MCPages ==
    {Plain(s, 3) : s \in {Ok, 404, 403}}
    \cup {Plain(Ok, Absent), InChunks, Page("http", Ok, Absent, 2, Absent, 3, <<>>)}
    \cup {Page("https", Ok, 3, Absent, Absent, 3, <<>>), Page("ftp", Ok, 3, Absent, Absent, 3, <<>>)}

MCWebs ==
    {<<p, q>> : p \in MCPages \cup {ToUrl(2, 12), ToUrl(1, Absent)}, q \in MCPages \cup {ToUrl(1, 12)}}

-----------------------------------------------------------------------------
Ftp == INSTANCE FtpSession
Http == INSTANCE HttpSession

NoFtp ==
    /\ Url = 0 /\ Server = 0 /\ RemoteStartPos = 0 /\ phase = 0 /\ FtpBuffer = 0 /\ lines = 0
    /\ conn = 0 /\ srv = 0 /\ inStep = 0 /\ ctrl = 0 /\ data = 0 /\ listening = 0 /\ leaked = 0 /\ attempt = 0
    /\ IsPasv = 0

NoHttp ==
    /\ Web = 0 /\ UseProxy = 0 /\ file = 0 /\ url = 0 /\ cnt = 0 /\ requests = 0 /\ wire = 0
    /\ connected = 0 /\ htResponse = 0 /\ linebuf = 0 /\ left = 0 /\ saved = 0 /\ stalled = 0

SessionsInit ==
    \/ client = "ftp" /\ Ftp!Init /\ NoHttp
    \/ client = "http" /\ Http!Init /\ NoFtp

FtpClientStep == client = "ftp" /\ Ftp!ClientStep /\ UNCHANGED <<client, onlyHttp>>
FtpServerGivesUp == client = "ftp" /\ Ftp!ServerGivesUp /\ UNCHANGED <<client, onlyHttp>>
HttpStep == client = "http" /\ Http!Next /\ UNCHANGED <<client, onlyFtp>>

SessionsNext == FtpClientStep \/ FtpServerGivesUp \/ HttpStep

SessionsSpec ==
    /\ SessionsInit /\ [][SessionsNext]_sessionsVars
    /\ WF_sessionsVars(FtpClientStep) /\ WF_sessionsVars(HttpStep)

(* However commands and replies get out of step, a download thread receives only what the FTP
   server sends of this file from the position asked for, and handles leak only as far as stated;
   a size is the file's while replies are read in step. *)
FtpSessionInv == client = "ftp" => Ftp!SessionInv /\ Ftp!ReceivesWhatItAskedFor

(* An HTTP session is bounded by the redirections, its size is that of the last response, and an
   accepted page is whole. *)
HttpSessionInv == client = "http" => Http!SessionInv /\ Http!AcceptedPageIsWhole

(* A call of the FTP client returns, unless it reads a reply at the end of the control
   connection or waits in accept; a call of the HTTP client returns, or is caught in the loop over
   a chunk when nothing more comes. *)
FtpCallsReturn ==
    <>(client = "ftp" => \/ pc = "end"
                         \/ phase = "spin" /\ conn = "closed"
                         \/ phase = "accept" /\ ~IsPasv)

HttpCallsReturn == <>(client = "http" => pc \in {"end", "spin", "undefined"})

CallsReturn == FtpCallsReturn /\ HttpCallsReturn
=============================================================================
