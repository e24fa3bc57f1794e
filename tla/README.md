# wdget: a TLA+ model of the download manager

wdget (dget) is a multi-threaded download tool with a Qt window.  A download is
a *task*; a task fetches its remote file with up to six *threads*, each
responsible for one block of the file, over HTTP, FTP, MMS or RTSP, directly or
through a proxy.  Every task keeps a log file with the positions of its threads,
so that a stopped download can be resumed.

These modules model the program from the task manager and the window down to
the loops around `recv`, with the formats and algorithms it is built on.  TLC
checks them on small instances; TLAPS proves the invariants of the task manager,
of the partition, of the lock of the program and of the socket loops for all
values of the constants.

Contents: 1 the system, 2 the modules, 3 what is checked, 4 what is proved,
5 what the code does that one might not expect, 6 what is not modelled, 7 plan.

## 1. The system

### Components, their state and operations

| Component | Source | State | Operations |
|---|---|---|---|
| Task manager | `libmtd/TaskMgr.cpp` | `TaskQue[MAX_TASK_NUM]`, `TaskCnt` | `CreateTask`, `AddTask`, `DeleteTask`, `StartTask`, `StopTask`, `RemoveTask`, `InitTask`, `QueryRunningTaskCnt` |
| Main window and scheduler | `libui/frmMainWin.cpp` | the one-second timer; the selected message | `ProcessNewTask`, `dlStart`, `dlStop`, `dlRemove`, `fileExit`; `timerEvent` -> `ScheduleTask` -> one `Process...Task` handler per task |
| Boxes and picture | `libui/listviews.cpp`, `libui/Led.cpp` | folders, messages, their lists and pictures; the cells of a picture | select a folder, a task, a thread; `UpdateCurThreadsInfo` |
| Task | `libmtd/Task.cpp`, `TTask` | `Status`, `FileSize`, `ThreadCnt`, `ThreadQue`, `MaxSimConns`, `StatusMutex`, `ConnectingCond` | `fetchRemoteFileInfo`, `initTaskThreadQue`, `execDownloads`, `scheduleThread`, `terminateThreads`, `createLogFile`, `updateLogFile`, `loadLogFile`, `deleteLogFile` |
| Download thread | `libmtd/Task.cpp`, `THttpThread`, `TFtpThread`, `TMmsThread`, `TRtspThread` | `Status`, `BlkSize`, `RemoteStartPos`, `RemoteEndPos`, `LocalStartPos`, `RemoteBytesReceived`, `TryAttempts` | `run`, `retrFileChunk`, `retrKnownSizeFile`, `retrUnknownSizeFile` |
| FTP and HTTP clients | `FtpCli`, `FtpParser`, `HttpCli`, `HttpMsg` | control and data connection; response header | the dialogues; redirections; bodies |
| MMS and RTSP clients, streaming library | `MmsCliEx`, `RtspCliEx`, `libstream/` | a session: its buffer, its place in the stream | connect, describe, play, read, seek; packet and header formats |
| Sockets and proxies | `Socket`, `SockProxy` | a descriptor, masks | `Recv`, `Send`, `connectProxyHost` |
| Event server, crawler | `RawServer`, `Poller`, `Crawler` | socket objects and their registration; the queue of links, the lists of URLs | `Run`, `handleEvent`; fetch a page, extract its links |
| Settings and dialogs | `IniFile`, `frmOptions`, `frmAddProxy`, `frmNewTask` | `wdget.ini`; the fields of a dialog | read, edit, apply, accept, cancel |
| Start of the program | `libui/main.cpp` | `/tmp/.dget.lock` | `IsRunning` |
| HTML parser | `libhtmlparser/` | a tree of linked nodes | parse a page; take a URL apart and write it |

### How they interact

All code of the main window, the task manager and `TTask`, except the threads'
`run()`, runs on the GUI thread: a command of the user and a pass of
`ScheduleTask` never interrupt each other.  The pthreads run beside it.  They
share the fields of `TaskThread` with the GUI thread without a lock: a pthread
writes its positions and its status, the GUI thread reads them (to schedule, to
checkpoint, to draw, to find out that all is done) and writes them (when it
restarts or resumes a thread).  Stopping a task cancels its pthreads
asynchronously, at any instruction.  The log file on disk connects the run
before a stop with the run after it.

A pthread leads its dialogue through a client object of its own, and the client
through a socket object, possibly behind a handshake with a proxy.  The task
asks for the size of the file over another client before its pthreads start.
The dialogs and the tasks meet in `wdget.ini`: each of them makes an `IniFile`
object, reads the file, and writes the whole file again when the object ends.

`build/dspider.cpp` builds a second program of the same library: the crawler
with its worker threads, and an event server on one more thread.

### What is hard about it

* steps of the pthreads between any two steps of the GUI thread: a checkpoint or
  a drawing in the middle of the assignments with which a thread moves its
  positions, a download that finishes between the stop command and its
  execution, a task that is removed while it downloads;
* failures in the middle of a block, of a header, of a chunk, of a handshake,
  with up to 30 attempts per thread;
* dialogues that get out of step: a reply taken for the answer to another
  command, a redirection in the middle of a header, a reset of a stream;
* the GUI thread blocking in `joinThread`, in `threadWaitCond` and on
  `StatusMutex`; loops that spin at the end of a connection;
* arithmetic at boundaries: an inclusive HTTP range against an exclusive block
  end, the remainder of the division, `-1` both as an error code and as an
  unknown size, milliseconds against bytes, the widths of the fields of a packet;
* the limits: slots in the queue, tasks running at once, stocks of sockets;
* two programs that start together, a program that dies while it writes its
  settings;
* widgets, messages and links of trees that every callback must leave in
  agreement with one another.

`PROJECT.json` lists these hazards with their lines and the properties that
would catch them.

## 2. The modules

| Module | Models | Uses |
|---|---|---|
| `Partition` | how many threads a file gets and the blocks in closed form; pure operators | |
| `LocalFile` | the contents of the ".dg" file: which remote byte is where; pure operators | |
| `TaskManager` | the queue of tasks, the user's commands, `ScheduleTask` | |
| `ThreadQueue` | the start of a task: the loop of `initTaskThreadQue`, with the failures around it | `Partition` |
| `Download` | a running task of known size: threads, file, log, GUI thread | `Partition`, `LocalFile`; refines `Delivery` |
| `Delivery` | abstract: a file that is retrieved, and what the user is told | `LocalFile` |
| `UnknownSize` | a running task of unknown size, single thread | `LocalFile` |
| `FtpSession`, `HttpSession` | a session of the FTP and of the HTTP client with a server | |
| `MmsSession`, `RtspSession` | a download over MMS and over RTSP, from the query for the size to its end | |
| `MmshSession` | a session of MMS over HTTP | |
| `SocketIO` | the loops around `select`, `recv` and `send` | refines `ByteStream` |
| `ByteStream` | abstract: the stream of bytes a caller sees | |
| `SockProxy` | `connectProxyHost` and the SOCKS handshakes | |
| `EventServer` | `RawServer`, `Poller` and the stock of socket objects | |
| `Crawler` | the workers, the queue of links, the lists of URLs and their files | |
| `AsfFormat`, `AsmRules`, `RealFormat`, `IndexTable` | packets, rule books, headers and index tables of the stream formats; pure operators | |
| `TreeLinks`, `Tree` | the nodes of `tree<T>` and every sequence of its operations | refines `Forest` |
| `Forest` | abstract: trees as nested sequences, places as paths | |
| `HtmlDom` | pages cut into pieces, pieces built into a tree; pure operators | `TreeLinks` |
| `Uri`, `IniFile` | URLs; the text of a configuration file; pure operators | |
| `Settings` | `wdget.ini`, the preferences and the proxies that are offered | `IniFile` |
| `NewTask` | the dialog for a new task and what it posts | |
| `Boxes`, `Led` | the views of the main window; the picture of a download | `Led`: `Partition` |
| `Instances` | the start of the program and its lock | |
| `..._proof` | theorems | the modules they are about |
| `MC...` | instances for TLC | the modules they instantiate |

`TaskManager`, `ThreadQueue`, `Download` and `UnknownSize` need no instance of their own:
their configurations give values to the constants.

Definitions keep the names of the functions and fields they stand for.  Some
operators are named as mutants: they are what a plausible mistake in the code
would make of the next definition, and show that the properties notice it.
Nothing in a specification uses them.

Five MC modules check several components in one run (`MCSessions`, `MCNetwork`,
`MCStreams`, `MCLibraries`, `MCWindows`): a variable chooses the component in the
initial state, and the variables of the others keep a value.  These components
do not meet in the program but through the calls that the modules model
themselves; the composition that matters, pthreads with the GUI thread, the log
and the file, is inside `Download`.

### TaskManager

A task is the number of its creation.  `TaskQue`, `TaskCnt`, `TaskId`, `Status`
are the fields of the same name; `NewTaskBox` and `MyCurTaskMsg` are the
messages of the list and the selected one (a message is identified with the task
it was made for, and is looked up by the task's id, as `FindTaskMsgById` does).
`cursor` is the loop index of `ScheduleTask`: one action handles one slot, so
that pthreads can move between two slots; commands are enabled only at the event
loop.  `Workers` is what the scheduler can tell of a task's pthreads.  A task that
finds no free slot keeps an uninitialised `TaskId`: any slot number, or a
number beyond the queue.  The log of a task is named after the file the task will be
saved as: `Path` maps tasks to such names, `LogFile` says of which of them a log is on disk,
and `Target` which task has given its file the name.  `ProcessNewTask` asks only for the
last, so that two queued tasks may share a log; `Namesakes` are the tasks that may
take a name in use.  The wait in `threadWaitCond`, which nothing ends, is
the value `Hung` of `cursor`.

### Partition and ThreadQueue

`ThreadQueue` follows `ProcessStartTask`, `InitTask`, the loop of
`initTaskThreadQue` turn by turn, the addition of the remainder after the loop,
and `createLogFile`, which may fail and send the task through the whole start
again, with another size.  `Partition` says what the loop should compute; the
module `Download` starts from that closed form, and `ThreadQueue` shows that it
is what the code computes.

### LocalFile

A file is a function from the offsets `0 .. size`: `F[c]` is the remote byte that
offset `c` holds, or `Hole`.  The cell `size` stands for everything beyond the
end of the remote file.

### Download

Each thread has the fields of `TaskThread` and the locals of
`retrKnownSizeFile`.  Its program counter goes from the top of the loop of
`run()` through connecting (and, for FTP, logging in) to receiving; writing a
buffer, adding to `RemoteStartPos`, adding to `LocalStartPos` and adding to
`RemoteBytesReceived` are four steps, because the GUI thread reads these fields
in between.  A reception returns any number of bytes up to what is asked for, or
fails.  The GUI thread goes through `scheduleThread` thread by thread, copies the
fields of each thread one by one into the log record (`updateLogFile`), and then
looks whether all threads are done.  A `pthread_create` may fail, which leaves
`StatusMutex` locked.  `dlStop`, the cancellation, `dlStart` and `loadLogFile`
complete the cycle.

Left out of `Download`: the header of the log file, which never changes; the
time between attempts.  THS_TIMEDOUT is treated by the
code like THS_REMOTEFATAL and is represented by it.  A short `fwrite` that the
code detects is modelled as writing nothing: what it wrote lies at its right
place and is overwritten by the next attempt.  `tornRecord` is a history
variable: it becomes TRUE when a resume loads a record whose two positions
disagree.

`Delivery` is what a user relies on: bytes are stored in their places and are not lost again,
success is reported once and of the whole file, and then the file is left alone.  A torn
record ends the promise (`LoseTrack`).

External behaviour: `ServerEnd`, the last byte the server sends.  An HTTP server
that honours `Range: bytes=a-b` sends the byte `b` too; an FTP server sends up to
the end of the file.  With `ServerReply = "whole"` an HTTP server ignores the
range.

### UnknownSize

One thread whose `BlkSize` and `RemoteEndPos` are -1.  `THttpThread` adds the
result of every `recv`, the error code -1 included, to its three positions;
`TFtpThread` does not.  HTTP always asks for the bytes from `RemoteStartPos` on;
FTP sends REST only when `IsResumeSupport` is set, which happens on a resume.
The server is assumed to honour the range.  A negative start is meaningless to
it and gives the whole file.

### The sessions of the clients

`FtpSession`: a command is sent, its reply is read line by line (`getReply`), the
reply is judged.  Nothing ties a reply to its command: the text of a reply of
several lines may look like its end, a late reply is given up, and what is left
over is read as the reply to the next command.  `ftp_size` scans a number from any line
that begins with 2; `inStep` is a history variable, FALSE once a reply of the query for the size
was ended early or given up.  Four callers lead the dialogue:
the query for the size, the pthread of a download with its attempts, a listing,
a page of the crawler.  The server may lack SIZE, REST or PASV.

`HttpSession`: a response is a sequence of lines and bytes; the end of the
connection, or a silence longer than the timeout, may come anywhere.  The header
is read line by line, redirections are followed, the body is read by its length,
to its end or in chunks, into memory or into a file.

`MmsSession`: the query for the size and one pthread, byte by byte; a byte is its
position in the file, which may end with an index (`IndexLen`).  The server is asked for
a time that was estimated from the number of the packet, and begins with any packet: the session
and the client throw away what comes before the position, and do not notice a packet that was
left out.  An empty packet is padded and handed out wherever it comes.  The server's `link` is
`"shifted"` once the packet wanted was left out, or an empty one has taken its place.

`RtspSession`: a block of bytes becomes a window of milliseconds; each pthread stores the packets whose stamps are in its window, and
`fixRealMediaFile` joins the files.  `windows` keeps, for the last attempt of each
pthread, its window and whether a part of it was lost (the connection, or a write that fails
unnoticed).  `RtspAssumption` says that a block takes a millisecond at least: a file
below 64 KB is not cut, and there are 6 pthreads at most.  The query for the size follows
redirections without counting them.  The pthreads write files of their own, so
the model takes them one after the other.  `MmshSession`: the session that would
carry MMS over HTTP, with its chunks, padding and resets.

### Sockets, proxies, event server, crawler

`SocketIO` has one action for each turn of a loop: `Select` (bytes, room, or the
timeout), `Recv`, `exact_read`, `Send` (any number of bytes up to what is asked
for, the end of the stream, an error), `Interrupted`.  The peer sends, reads and
closes at any moment.  `ByteStream` is what callers rely on: bytes arrive in
order, 0 means the end, and bytes may be lost only together with an error.
`told` and `missed` are history variables; the refinement mapping takes their
sum as the position in the stream.

`SockProxy` sends and receives the handshake octet by octet against a proxy that
follows RFC 1928 and RFC 1929, refuses, or hangs up.  `TFtpCli` and `THttpCli`
differ in the type of one variable, which is what the module's `Client` is about.

`EventServer` keeps for each socket object its masks, and for each descriptor what
is registered with epoll; a batch of events is handled one by one, and
descriptors are used again as soon as they are closed.  The handlers of a
connection are empty (`Socket.h:157`): a request is neither read nor answered.

`Crawler`: sections under `uq_mutex` are one step each; the lists and `fseq` are
used without a lock and are taken apart into their reads and writes.

### Formats, trees, pages, URLs

These are functions of their input.  `MCLibraries` chooses an input and compares
what the code makes of it with a definition that does not follow the code:
packets that are rewritten must read the same; the choice of streams must be the
best one; a header must be found again in the file it is written to; the tree
built of a page must hold its pieces in order.  `Tree` calls the operations of
`tree<T>` in any order on a heap of linked nodes and refines `Forest`, in which a
forest is a nested sequence; a mutual link that one operation forgets shows in
what another one does later.  `merge` needs more nodes than the other operations before anything
interesting happens, and is an action of its own.  The iterators are also tried on every
forest of up to seven nodes, where holes of every kind occur: nodes without children above the
depth an iterator stays at.

### Dialogs, views, start

`IniFile` is the text of `wdget.ini`, sign by sign where the code looks into it:
comment signs and brackets in values, the middle string between section and key, and
lines that are too long for `load_config` (`Loads`).
`Settings` edits, applies and accepts the preferences, makes tasks, and lets the
program die in the middle of a rewriting.  `NewTask` is the dialog with its check
boxes and what it posts, also when an OK is refused and the dialog then cancelled; `Boxes`
the widgets each callback shows, hides or frees, also for tasks that found no slot and carry
some other id (`strays`; `muddled` says that two messages of a box have had the same id, and
`dead` that a handler has followed a null pointer); `Led` the cells
drawn from counters that are read twice while they change, and from the records a log may hold
of a pthread that moved while it was written (`Records`).  `Instances` has one
action for each call of `IsRunning` on the lock file, the `fopen` that fails included;
its history variable `mishaps` counts what the lock cannot prevent.

## 3. What is checked

| Run | Instance | Invariants | Action and temporal properties |
|---|---|---|---|
| `tasks` | 2 slots, limit 1, 3 tasks, one perhaps a namesake (422,395 states) | `TasksInv`, `StoppedTasksKeepTheirLog`, `MessageAlwaysFound` | `CommandsTakeEffect`, `CompletedTaskRetires` |
| `blocks` | 6 threads, files of up to 20 bytes (65,127) | `BlocksTileTheFile`, `BlocksAreTheirClosedForm` | |
| `download_http` | 3 bytes, 2 threads, buffer 2, 2 attempts, 1 stop (3,382,215) | `DownloadInv` | `CheckpointsAdvance`, `ImplementsDelivery` |
| `download_ftp` | 2 bytes, 2 threads, 2 attempts, 1 failed `pthread_create` (126,223) | `DownloadInv` | `DownloadEnds` |
| `unknown_size` | HTTP and FTP, 4 bytes, buffer 2, 3 attempts, 1 stop (159,317) | `AttemptInv` | `PthreadEnds` |
| `sessions` | FTP: 2 attempts, servers of every ability, positions 0 and 7 of 25; HTTP: 2 addresses, 2 redirections (1,239,707) | `FtpSessionInv`, `HttpSessionInv` | `CallsReturn` |
| `network` | 4 bytes, buffers of 3, room for 2; both clients with SOCKS4 and 5; 2 descriptors, 3 clients (301,599) | `SocketInv`, `FtpSocks5Inv`, `SocketsAreInOnePlace` | `ImplementsByteStream`, `TimedCallsReturn`, `ConnectionsAreReleased` |
| `crawler` | 2 workers, 3 pages, 4 links (211,791) | `CrawlInv` | `LinksAreTaken` |
| `streams` | MMS: header 3, 3 packets of 3, index 1; RTSP: 3 pthreads, 4 packets; MMS over HTTP: 3 chunks (799,575) | `MmsStores`, `RtspJoins` | `StreamsEnd` |
| `libraries` | all inputs up to the sizes in `MCLibraries` (154,289) | `PacketsSurvive`, `BestStreams`, `HeadersAreReadable`, `TreesAreWhole`, `UrisReadBack`, `ConfigReadsBack` | `ImplementsForest` |
| `windows` | 1 edit, 1 death, 4 messages, 2 threads, 3 starts (2,313,717) | `SettingsSurvive`, `AcceptedTaskIsWhole`, `BoxesAgree`, `LedInv`, `OneInstanceRuns` | |

What each shows:

* `tasks`: the queue, its count, the messages and the crews of pthreads agree
  through every order of commands, timer ticks and progress; a stopped task keeps its log unless
  another task that was saved under its name has finished; stops, removals and completions take effect as long as the GUI thread does not hang.
* `blocks`: the blocks tile the file for every size, also after starts that were
  given up.
* `download_http`, `download_ftp`: a file that is reported as complete is the
  remote file, unless a torn record has been loaded; the log is never ahead of
  the file; a thread overruns its block by one byte at most; a checkpoint takes
  no position back; what the threads and the GUI thread do together is a delivery, in
  which no stored byte is lost and nothing is written after success is reported;
  every pthread ends; a completed download is noticed.
* `unknown_size`: over HTTP the error code in the positions does no harm once a
  byte has arrived; the retries end.
* `sessions`: whatever gets out of step, an FTP pthread receives only what the
  server sends of this file from the position asked for; a size is the file's while every
  reply of the query was read in step; an accepted page is whole; requests are bounded by the redirections; every call
  returns but where the properties name the loop that spins.
* `network`: the socket loops are a byte stream; no SOCKS5 handshake of the FTP
  client is believed that has not succeeded, and no byte of it is left for the
  dialogue (over SOCKS4, and in the HTTP client, a connection is believed in without
  a successful handshake); every socket object is in one place; a connection its
  client has used is closed and its descriptor given back, without an answer.
* `crawler`: no two pages share a file, the file of visited URLs is exact, a stop
  lets each worker finish one more page at most, no link waits while a worker is
  free.
* `streams`: MMS stores each byte in its place, until a packet was left out or the
  stream is another or out of step; RTSP stores its windows, and joined they are the stream but
  for packets at the seams; the downloads, and the session of MMS over HTTP, end unless a
  read waits for ever on a silent server, RTSP spins, or a server redirects for ever.
* `libraries`: the round trips; the operations of `tree<T>` are those of a forest, its
  iterators visit every node, and those of a fixed depth every node of it unless a hole keeps
  them from beginning.
* `windows`: the settings survive edits, tasks and restarts; an accepted dialog posts a
  whole task, a cancelled one nothing or what a refused OK had stored; rows, messages and widgets
  agree until two messages have one id; the picture is exact for threads that stood
  still whenever they were read; a second program runs only by one of the mishaps that are counted.

One run shows where the code falls short of what it says: `download_torn`.  The
window says "Download Succesfull!" of a file with a hole: a checkpoint between
two assignments of a thread, loaded on a resume, shifts the rest of its block.

### Further counterexamples

These definitions are in the modules and are checked by no run; TLC refutes them
on the instances named.

| Definition | Claim | What happens |
|---|---|---|
| `TaskManager!RunningLimitRespected` (as `tasks`) | at most 5 tasks run (`wdget.ini`, `ScheduleTask`) | the handler is chosen by the status read before the limit is applied; resumed tasks are not limited |
| `TaskManager!DeletedTasksHaveNoThreads` (as `tasks`) | a task is dead once it is cleaned up (`Task.h`) | a task removed while running is deleted under its pthreads |
| `Download!ReportedSuccessIsTrue` with `ServerReply = "whole"` | "Download Succesfull!" | the status code of the answer to a range request is not looked at |
| `Download!ConditionIsSignalled` | the wait for `ConnectingCond` is ended by a broadcast | the broadcast is commented out; the GUI thread hangs |
| `UnknownSize!ReportedSuccessIsTrue` | "Download Succesfull!" | over HTTP an error before the first byte makes the count -1, equal to `BlkSize`; over FTP a retry without REST writes the beginning of the file behind what is there; with one stop a resume does the same over HTTP, because `loadLogFile` resets only one of the three positions |

`ProcessNewTask` refuses a task only when `TaskCnt > MAX_TASK_NUM`, which never
holds: the task after the last free slot is accepted and is in no slot.
`TaskManager` models it (the second disjunct of `AddTask`), and the invariants
say that the tasks in the queue do not suffer from it.

### Bounds, and why they are enough

* `tasks`: two slots and three tasks: the queue is full, overflows, and a slot is
  used again; a limit of one running task is reached by two.  The second task may
  have the name of the first (`Namesakes`): one pair shows what sharing a log does, and
  the third task, with a name of its own, what the pair does to others.  The invariants are
  proved for all sizes.
* `download_...`: two threads and three bytes: the second block takes the
  remainder; the first is followed by a neighbour it may run into.  A buffer of
  two bytes is longer than the first block and shorter than the file.  Two
  attempts give a failure that is retried and one that is final; joining and
  restarting a thread gives it further attempts.  One stop and resume: after a
  resume the state differs from an earlier one only in what the log held.  One
  failed `pthread_create` is enough: the GUI thread blocks for ever at the next
  restart.  `BeforeTear` cuts the exploration of `download_http` off when a torn
  record is loaded: its properties are about the time before.
* `unknown_size`: `MaxFileLen` ends the growth of the local file when FTP retries
  append to it for ever; at twice the remote file every case has happened.
* `sessions`: two attempts give one with what the first left behind; 25 is a size
  whose decimal digits can be cut, 3 a number that a line of text carries instead of it
  (`Scannable`), 7 a position inside the file at which a thread resumes; the second address of the web is where
  a redirection leads, or from where it leads back.
* `network`: four bytes in buffers of three make a call that ends full and one
  that ends short; room for two makes `send` take a part.  Names of three lengths
  reach the boundaries of the address field.  A stock of one and two descriptors
  with three clients make the stock empty, full, and a descriptor used again.
* `crawler`: four links of three pages with a circle and a redirection.
* `streams`: an index of one byte makes the file longer than its packets; a buffer of four
  over packets of three cuts packets and joins two of
  them in one read; the starts 0, 2 and 7 are in the header, in the header's last byte and
  inside a packet; the stamps lie at and beside the seams of the windows.
* `libraries`: the lengths of packets lie around 255, where a width changes; trees
  of four nodes with two data show every neighbourhood (a first, a middle, a last
  and an only child); six (`MaxMerged`) let two equal siblings be merged into a node with
  and without children; seven, in the forests for the iterators, put a hole before, between
  and behind the nodes of a depth; a line limit of seven signs is met and passed by the
  lines of the entries; URLs of five signs hold every delimiter with something
  before and behind it; configuration values of three signs hold a comment sign
  between two others.
* `windows`: one edit, one death of the program; four messages on two slots, so that a message
  moves while another one is selected and two tasks find no slot; lines of up to
  1024 signs, as in the code, where one sign (`wide`) stands for as many as a line may
  not have; one resume, from any record; three starts, so that a
  third one meets what two have left; three URLs are one that is accepted, one
  without a path and one of a foreign scheme; files of no byte, with a last cell that is not
  full, of two blocks and of unknown size.
* Assumptions on constants: `Names` are lengths that fit into the `uint8_t` fields
  `luser` and `lpass` (`SockProxy.h:171`); the stock has its `MIN_SPARE_SOCKETS`
  below its `MAX_SPARE_SOCKETS` (256 and 1024, `RawServer.h:27`); a cell has a byte
  at least (16384 in the code); a file of unknown size is loaded by one thread
  (`initTaskThreadQue`); what a crawler's pages link to are URLs it can be given.
* Deadlock is not checked: a task may be finished, the program may have quit, a
  session may have ended, and the GUI thread may hang.

### Fairness

* `TaskManager`, `Download`, `UnknownSize`: `WF(ScheduleTask)`, `WF(GuiStep)`: the
  timer fires every second and the event loop of Qt keeps delivering it; each
  handler is a finite loop.  `WF(run(i))`: every receive has a timeout, every
  connect fails or succeeds, so a pthread always takes its next step.  There is no
  fairness for the wakeup from `threadWaitCond`, for the user's commands, or for
  the download making progress: an attempt may always fail.
* `FtpSession`, `SockProxy`: `WF(ClientStep)`; `HttpSession`: `WF(Next)`.  A client that
  is not waiting takes its next step, and the waits end with a timeout; where the code waits or
  spins without one, the property names it.
* `MmsSession`, `RtspSession`, `MmshSession`: `WF(Next /\ ~Waits)`.  `xio_rw_abort` tries again
  after each timeout (`xsysio.c:323`), so that a read of a session may wait for ever: `Waits` says
  where one does, no fairness ends it, and the properties except it (`<>[]Waits`).  What the server does is a choice inside
  these steps and is not fair.
* `SocketIO`: `WF(Select)`: `select` returns, at the latest after its timeout.
  `SF(Transfer)`: `recv` and `send` are not interrupted by signals for ever.
* `EventServer`: `WF(Run)`, and for each descriptor `SF` of a batch that has it: a
  connection that stays ready is in one of the batches of `epoll_wait` some time,
  because epoll goes round among the ready ones.
* `Crawler`: `WF(Run(w))` for each worker: a pthread that can go on does.

## 4. What is proved

`Tasks_proof` has three parts.

The manager, for every number of slots, every limit and every number of
tasks: `TasksInv` (types, slots, the count, the crews), `StoppedTasksKeepTheirLog`
and `MessageAlwaysFound` are invariants of `Spec`.  The assumptions are those of
the module on its constants.  The inductive invariant adds to these

* `QueuedTasksAreShown`: a queued task's own message is in `NewTaskBox`.
  `MessageAlwaysFound` alone is not inductive: the message found by an id may be
  another task's, one that was never queued and carries that id by accident.
  Retiring a task removes the first message with its id, which no other queued
  task has, so the others keep theirs;
* `FreshTasks`: a task that has not been allocated has neither a status nor pthreads;
* `LogsAreKept`: a task that runs has its log file, from which a stopped one
  inherits it, unless another task has given its file their common name;
* `NamersAreDone`: a task that has given its file the name is finished, so that `Target` of
  a task that runs is never itself.

There is one lemma for each kind of step: creating, retiring, changing a status,
exiting, a step of the pthreads.  `TaskCntIsExact` needs the cardinality theorems
for adding a slot to, and removing one from, the set of occupied slots.

The session with an FTP server, for every number of attempts, size of the file and
position to resume at: `FtpSessionInv`.  It assumes that a thread makes one attempt
at least and that sizes and positions are natural numbers (`FtpAssumption`).  None of its
parts is inductive, because a client that went on after a command without
the right reply is out of step: it judges each command by the reply to
an earlier one.  The inductive invariant (`FtpInv`) has four parts:

* `Course`: which steps each caller takes and in which of them it awaits a reply; after a
  failed PASV a thread is in `listen` and `port` for ever;
* `Handles`: how many descriptors earlier attempts have left behind when this one opens
  its own, from which `LeakIsBounded` follows;
* `LoginTalk`: until PASV, the server has done what it was told, or a refusal of a
  command is still on its way to the client (`Told`, `Pending`), which will stop there.
  The client cannot miss it: it reads the lines in order and stops at the first 5 it judges;
* `DataTalk` and `RetrTalk`: the address of the data connection is in the last line that
  the server has sent, so that a client that has read it is in step again. From there
  on the replies are those to REST and RETR themselves, and a 1 means that the server
  sends, from the position the client believes in.

That a size is the file's is shown while every reply of the query was read in step
(`InfoTalk`: each line on its way is the answer to the command that awaits one), and rests on a lemma about the operators of `FtpSession`: a
listing that one `recv` has cut anywhere gives the size or none (`ParsedSize`), because
in each of the formats a token follows the size that must be there, too.

The session with an HTTP server, for all pages the servers may hold, every limit on
redirections and every size of a buffer: `HttpSessionInv`.  Assumed is `HttpAssumption`: a
redirection leads to one of the addresses or to none, and a chunk that is not the last has
bytes; what a server announces need not be true.  The inductive invariant (`HttpInv`) relates
what is still to come over the connection to the page asked for:

* `Asked`: the requests made are the redirections followed and, once it is out, the one under
  way, so that the bound is one on the redirections;
* `Answered`: while the header is read, the connection holds a beginning of what follows
  some line of it, and the fields set are those of the lines before (`HeaderRead`).  The
  connection may end anywhere and cut its last line (`Arrives`); what a cut line says is
  not believed only because the blank line after it never comes;
* `FileRead`: bytes taken and bytes missing are together those announced;
* `ChunksRead`: unless something failed or stalled, the call is in the k-th chunk, what it has
  taken is what the chunks up to there hold, and the rest of the page is what comes
  (`AtChunk`).  At the end of the connection `ReadLine` leaves the buffer as it is, and the
  last size is read again: the call then has taken whole chunks and either ends or waits
  in the loop for ever.

What `LastChunks` and `ChunkSums` compute for every list of sizes is proved by induction.
The library's theorems for that take an operator as a parameter, which the provers at hand
cannot instantiate; `AllNumbers` and `Recursion` say the same of a set and of a
function, from the well-foundedness of `<`.

`ThreadQueue_proof`, for every `MAX_THREADS`, `MIN_FILE_SIZE` and file size:
`TypeOK`, `BlocksAreTheirClosedForm`, `BlocksTileTheFile`.  The inductive
invariant is the loop invariant of `initTaskThreadQue` (the blocks below `i` have
their even size), the agreement of size and number of threads, and the final form
after the remainder is added.  The tiling follows from the closed form and the
division law, proved in `Blocks_proof` with the other facts about blocks: they lie in
the file, they do not overlap, and every byte of the file is in one.

`Download_proof`, for every file size, number of threads, size of a buffer,
limit of attempts and number of stops and of failed creations:

* `CheckpointsAdvance` holds whatever the server sends and also after a record of
  two moments was loaded.  Its invariant is `LogIsBehind`: a record, the record
  being filled in and the positions of the thread are in this order, field by
  field.  It needs `CrewIsThere` (while the GUI thread works on the task, the task
  is running and all its pthreads exist), without which `updateLogFile` could read
  the positions of a thread that a resume has just set back.
* `DownloadInv` (types, `FinishedFileIsIntact`, `DoneBlocksAreWritten`,
  `LogNeverAheadOfFile`, `OverrunIsOneByte`) under the assumption
  `ServerReply = "range"`: a server that answers 200 with the whole file has its
  bytes written where those of the range belong, because the code does not look at
  the status.  The inductive invariant says where the bytes a pthread has
  written end (`Reach`), although three assignments move its positions one after
  the other (`PositionsAgree`); that everything from the first byte of the block to
  there is written and that it is within the block, but for the one byte, and the
  file (`ReachIsWritten`); that the server is at that place and that what is left
  to receive reaches the end of the block (`Receiving`); and the same of the
  records (`RecordHolds`, `RecordGrows`), from which a resumed thread gets it back.
  All of it is conditional on `~tornRecord`.  Each step of a pthread is shown to
  keep what it promises itself and to let the file only grow where it is right
  (`FileGrows`), so that what the other threads and the records promise is kept.
  A finished file is intact because every byte has a block and every block is done.
* `ImplementsDelivery`, under the same assumption: `Spec` implements `Delivery`.  The mapping shows
  the file until a torn record is loaded, and tells success of a finished task.  A reception is a
  `Store` because the server is where the thread writes (`WritesInPlace`), also when the byte too many
  goes into the block of a neighbour, who may have written it already.
  That nothing is written after success needs an invariant about statuses and
  program counters (`DoneIsOver`): a pthread whose status is `ALLDONE`, also one that a resume has
  just started, opens the file no more.

`UnknownSize_proof`, for every size of the remote file, size of a buffer, limit of
attempts and length of the local file: `AttemptInv`.  The inductive invariant says
where the file pointer is while an answer is being received (`FileIsOpen`), relative
to the count of bytes, which the error code moves back by one byte that the file
holds already.  It is about the time before the first stop, as `AttemptInv` is: a
resume sets back one position of three.

`Blocks_proof` has the facts about blocks and about the local file that these use:
bytes written where they belong leave what is there as it is and extend it.  It also has
the induction over the natural numbers (`AllNumbers`, `AllNumbersTo`, `LeastNumber`,
`Recursion`) that the proofs about recursive functions go by.

`Network_proof` is about the three parts of `MCNetwork`: `NetInv` has an inductive
invariant for the part that runs, and a step of one part leaves the variables of the others
as they are.

Sockets, for every length of a buffer, every size of the kernel's and
every number of bytes: `SocketInv`, and that `Spec` implements `ByteStream`.  The
inductive invariant adds to `SocketInv` where a running call is (`CallRuns`: a
call that runs has something left to do) and what a running `Send` has done
(`SendsInOrder`: the bytes the kernel has taken since it began are exactly those
it counts as done).  The refinement needs both halves of `NoByteUnaccounted`:
bytes are counted as lost only when an exact read fails, so that the step is a
`Fail` of the stream and never a silent loss.

The event server, for every number of descriptors and any two limits of the stock:
`SocketsAreInOnePlace`.  The inductive invariant (`ServerInv`) puts every object in
exactly one place: in the stock, where it has no descriptor and no mask; or
registered in epoll under the descriptor it holds.  An event of a batch
names the object its descriptor is registered with, so that what `handleEvent` gives back
or deletes is named by no event that is still to be handled (`Batch`).  Types need that a new object can always be named: there are more objects than
descriptors and spare places together, which is a fact about cardinalities.

Handshakes, for every length of a user's name and of a password that fits its field:
`FtpSocks5Inv`.  The inductive invariant (`ProxyInv`) says for each step of the client what
is on its way in both directions (`Tunnels`).  The password is sent with the length of
the user's name, so that the proxy may be left with bytes that belong to no request;
the invariant says that they do not begin like one (`NoRequest`), so that what the client
takes for a connection is the answer to its own request.

`Retrieval_proof` is about what is retrieved without blocks of HTTP or FTP.

The crawl, for every number of workers and every graph of links and redirections: `CrawlInv`.  The inductive invariant counts workers: the numbers of files given and the pages
received, together with the workers that are on their way to one, are no more than the links
taken (`Numbered`, `Received`), and the pages received are the lines of visited.url and
the workers about to write one (`VisitedLines`).  That two workers never share a file
needs that a number in use is below `fseq` (`Given`).

A download over MMS, for every length of the header and of the packets, every size of the
buffer, every place where a block begins or is resumed, and every number of things the server
sends unasked: `MmsStores`.  Assumed is `MmsAssumption`: a packet has a length, and a block
begins inside the file, be it in the index behind the packets.  The inductive invariant (`MmsInd`) follows the bytes on their way:

* nothing of the stream is there before a packet is asked for (`Opening`);
* the packet that is asked for is the one in which the position lies, and the client throws
  away the bytes of it that lie before (lemma `Asked`, about the division in `SendRequest`);
* what the session hands out next belongs where the pthread will put it (`Ahead`), also when
  the server begins before the packet that was asked for and the session skips.  When it begins
  behind that packet, when an empty packet takes the place of the one wanted, and in a stream
  that replaces this one or is out of step, nothing is claimed of the bytes: they are `Foreign`.
  A stream that replaces this one begins at its first packet, so that at least as
  much of it is left as of the file, and no read passes its end;
* so do the bytes a read has copied, less those to be thrown away (`InRead`, `BeforeWrite`),
  and the rest of the header that comes from `m_hbuffer` (`BetweenReads`);
* a read returns without a byte only when the server ended the stream, the connection broke,
  or no packet is left (`Turns`, `NoneLeft`), which is why a block that is done is complete, ends
  in the index, or is cut.

A download over RTSP, for every stream of packets, duration, rate, number of pthreads, size of
the buffer and limit: `RtspJoins`.  Assumed is `RtspAssumption`: packets have bytes, the stream
takes some time, and a block of it a millisecond at least, because a file below
`MIN_FILE_SIZE` is not cut.  What the theorem says of the files is said of a stream whose stamps
do not go back and whose packets leave room in the buffer (`Plain`), and of a window no part of which was
lost with the connection (`whole`); the code does not do better.  The inductive invariant
(`RtspInd`) follows the bytes once more:

* `Streaming`: the file, the bytes a read has copied and those unread in the session are
  together the header and the packets of the window before the server's next one.  Packets
  before the window leave the session without being copied; until the window begins, nothing
  but the header has been copied, so that a packet that is skipped does not fill the buffer and the
  read cannot return in the middle of it (`SkippedBefore`);
* `NoneToCome`: at the end of the connection, and when a read returns without a byte, no packet
  of the window is still to come: the stamps do not go back, so that nothing follows a packet
  behind the window;
* `BetweenAttempts`: an attempt that begins again has received nothing, or its window has lost
  a part, because the file is emptied whenever it is opened;
* `Stored`: the files of the pthreads that are done are their windows (`Filled`), and no later
  pthread touches them.

That the windows make up the stream is arithmetic: the start and the length of a block are cut to
milliseconds one by one, and `WindowsMeet` shows from the law for quotients that a window
ends where the next begins or one millisecond before, which is the seam.  `JoinedGrows` then
adds a file to those joined: `PacketsOfBoth` says that the packets of two sets of which one
lies before the other are those of the one and then those of the other.  The functions that add
up packets and files are unfolded, and facts about them proved, by `Recursion` and `AllNumbersTo`.

`Windows_proof` is about parts of `MCWindows`, as `Network_proof` is of `MCNetwork` (`WindowsInv`).

The start of the program, for every set of process ids and every number of starts:
`OneInstanceRuns`.  The inductive invariant (`Accounts`) counts the programs that run
together with the starts under way: they are one more than the property allows the
running ones to be only while one of the starts has read the number of a program that
runs, so that it will be refused (`Knows`), and while the file names a running program or is
about to be written.

The dialog for a new task, for every set of URLs and users and every number of mirrors:
`AcceptedTaskIsWhole`.  While the dialog is open and not accepted, nothing was entered yet, or
a refused OK has left half a task behind: the URL and nothing else (`Half`); an OK that is
accepted makes it whole (`Whole`).  `NewInv` says the same of what was posted last.

The views, for every number of messages and of tasks: `BoxesAgree`.  The inductive
invariant (`BoxInv`) says that the rows of a view are the messages of its box in
their order, that each has the widgets its handlers use, that at most one picture and one
list of threads is shown, that of the selected message (`OneIsShown`, `CurrentIsSelected`),
and that the ids of the tasks in `NewTaskBox` differ.  All of it holds until two messages of a
box have the same id (`muddled`), which only a task can cause that found no slot and whose id was
never assigned (`strays`).  That ids differ otherwise rests on `QueueAgrees`: the message of a slot
has the slot for its id, and so has every message that is no stray, so that a slot that is free
is no such message's id.

The picture of a download, for every size of a file and of a cell, every number of
threads and every size of a piece: `LedInv`.  The GUI thread reads the positions of each thread
once per turn, while the threads go on; the inductive invariant (`LedIInv`) says that what it
has read was true at some time (`ReadBefore`), and that the cells of a thread that stood still
whenever it was read are those of what was drawn (`ShowsExactly`), whichever of its
neighbours shares a cell with it.  A thread resumed from a torn record counts as one that moved:
the agreement of the positions (`PositionsAgree`) is about the others (`exact`).  That no drawing leaves
the picture needs only that counters do not go back and that `TLed` clips at the end of the file.  `DrawKeeps` has the three cases: the cell is drawn by
an earlier thread, by the thread itself, or by a later one.

Only model-checked, and why:

* all liveness properties: fairness is outside the prover's reach;
* `PacketsSurvive`, `BestStreams`, `HeadersAreReadable`, `TreesAreWhole`, `UrisReadBack`,
  `ConfigReadsBack`, `SettingsSurvive`: what parsers and printers of formats compute with
  folds and recursive operators is checked for bounded inputs.  Induction over data is
  possible only as in `Recursion` above, one recursive function at a time;
* `ImplementsForest`: paths of any length, for the same reason.

## 5. What the code does that one might not expect

The modules model these; where a property would be violated, it names the case.

Tasks and pthreads
* `joinThread` overwrites the `ALLDONE` of a thread that finished while it was
  joined with `IDLE`; if the thread then cannot be created again, the completed
  block is never counted.  A failed `pthread_create` leaves `StatusMutex` locked.
* Two queued tasks may be saved under one name: they share the log and the ".dg" file, and the one
  that finishes deletes the log of the other, which cannot resume then.
* A pthread appends to the log of its thread while `ReloadThreadLog` goes through
  the same vector, unlocked.
* `UpdateCurThreadsInfo` reads `RemoteBytesReceived` twice and `RemoteStartPos`
  once more later: a cell too many is drawn or one is left out.  On a resume it
  starts from `i * BlkSize`, and from a torn record with a picture that is wrong by a piece.

FTP and HTTP
* `ftp_size` scans a number from any line that begins with 2 (`FtpCli.cpp:515`), so that a
  client that is out of step may believe in a false size.
* `getReply` spins at the end of the control connection.  A failed PASV means
  PORT for all later attempts, and these receive nothing.  Error paths leave
  descriptors behind.  A known size raises `IsResumeSupport` whatever the answer to REST was.
* `redirectUrl` shadows `status`; the lines of a torn header are kept; a redirection to
  ftp goes on over HTTP; https is sent in clear; the loop over a chunk spins at
  the end of the connection; a body of unknown length is given up at EWOULDBLOCK.

Proxies and sockets
* In `THttpCli` the result of a handshake step is a `bool`, so that no failure ends
  it; the FTP client's SOCKS4 succeeds without a handshake; HTTP passes the proxy's
  own port as the destination's; the password is sent with the length of the user
  name; an address pointer is freed that was never set.

Streams
* MMS: reads never time out; a failed request to play and an early end are both
  reported as `ALLDONE`; a header of more than 4096 bytes fails.  The place of a block is
  asked for as a time, estimated as if all packets took equally long (`mmst.c:1179`): from a
  server that begins behind the packet wanted, and after an empty packet in its place (1459), the bytes
  are stored in wrong places.  An index behind the packets is part of the size and is never sent.
* RTSP: reads never time out; a stream that ends before a pthread's window keeps the pthread in a loop
  for ever; the two ends of a window are cut to milliseconds one by one, so that
  packets at the seams are lost; every attempt truncates the part; redirections are
  not counted, so that a circle of them is followed for ever; a stored header of 1024 to 4095 bytes is not written.
* MMS over HTTP (`mmsh.c`; `IsMmsh` is never set, so no client chooses it): the
  number of streams is reset on connecting only, so that every describing header
  adds its streams again until the array is left; a packet behind the describing
  header is lost; after an end of the kind 1 the stream is described again and
  not played; the first packet after a header is not padded; a packet longer than
  the packet length is dropped.
* Formats: padding that crosses 255 on the way to the packet length is not
  corrected; a stream of rate zero confuses `LowestVideo`; 16 matching rules
  leave `rulematches`; an unknown `$id` reads before `sym_tab`; an id in the
  description beyond its count writes outside of the array.

Windows and settings
* `lstMessages` of a folder deletes its messages, so that a message that moves to
  `OldTaskBox` is freed; `Boxes` keeps it as `freed`.  `dlRemove` and `dlStart` act
  on the selected task even while another folder is shown.
* A task that found no slot has an id that was never assigned.  When another message has it, the
  widgets are made for the first of the two, the second has none, and the handlers that go through the box
  follow a null pointer (`muddled`, `dead`).
* Deleted proxies come back, because sections are never erased; rows beyond the
  fourth are saved and not shown; some defaults are clamped; accepting settings
  equal to a certain set turns 5 tasks into 3 (`SettingsSurvive` excludes it); a
  dialog that is cancelled is treated as accepted (`if ( res = 0)`), so that it posts what a refused
  OK had stored: a URL without a list, a user and a proxy; the changed
  file name and the mirrors reach no task.
* `load_config` never returns from a line of 1024 characters (`IniFile.cpp:285`), and the program
  hangs from then on, again when it is started.  Entries are written in the order of their names:
  a file cut by the death of the program may offer a proxy whose password is there and whose user is not.
* The lock is written to one file and its permissions set on another; a lock that
  cannot be opened for reading is taken for none, so that a second program runs, and
  so do two that start together (`OneInstanceRuns` counts them); an empty lock refuses one
  start; a process id that is used again refuses every start.

Library code
* `move_ontop` of neighbours makes a loop, `swap` with the last node breaks the
  list, and copying into one's own subtree does not end; callers are assumed not to.
* `merge` looks for equal siblings only among the children it found when it began: into a node
  without children it inserts two equal siblings twice.  `begin_fixed` may give up where a node
  ends above the depth before the first node of it, and going backwards ends at another
  grandparent (`tree.h:30-31` warns of holes); forwards, once begun, nothing is left out.
* A URL that is written out has lost its user, password and default port; `init` of
  an object that is used again keeps the old query, port and path
  (`HttpCli.cpp:416`); a trailing `..` removes nothing.
* The event server's `m_nevents` is never assigned; a reset connection is
  reported for ever and its object kept; every other connection is closed without its
  request being read or answered.
* The crawler's lists are never filled, so that pages are fetched again; pages that do
  not come in chunks are not parsed; `stop` wakes no waiting worker.

## 6. What is not modelled

* Desktop integration (`libui/netwm*`): requests to the X server, no state of the program.
* Containers, hashes, logging and `Utils` of `libmtd`: no protocol state; most of it
  has no caller in the paths of a download.
* SSL, `UdpSocket`, the variants of `Connect`, HTTP CONNECT (no dialog offers it).
* `pnm.c`, the choice of streams and the rates in `mmsh.c`, the challenge of RealServer,
  index tables beyond their arithmetic (without a caller in the program).
* Request headers and other texts; character sets and entities of HTML.
* `RestartTask`, `SuspendTask`, `ResumeTask`, `WatchUnique`, import and export of
  lists, the history file: their menu entries are not connected or have no effect.
* The deletion of tasks at exit while pthreads run, and `ThreadLogQue` under
  `push_back`: the outcome is undefined, and the module notes where it begins.

## 7. Plan

1. Done: the modules of section 2 with their runs; the proofs of section 4.
2. Next: `MmsSession` as an implementation of `Delivery`, extended by the streams that are cut
   and nevertheless reported.
