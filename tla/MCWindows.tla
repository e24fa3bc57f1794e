----------------------------- MODULE MCWindows -----------------------------
(* The preferences, the dialog for a new task, the boxes of the main window, the picture of a
   download and the starts of the program, each on its own. *)
EXTENDS Instances, Partition, Sequences, TLC

CONSTANTS
    MaxEdits, MaxDeaths,
    Urls, Schemes, Users, MaxMirrors,
    MaxMessages, MAX_TASK_NUM, MaxThreads,
    Files, per_size, MaxChunk, MaxTurns,
    MAX_CONFIG_LINE_LENGTH

(* A cell of the picture is 16 * 1024 bytes; a task has a thread, and one thread only while the size
   of its file is not known. *)
ASSUME LedAssumption ==
    /\ per_size \in Nat \ {0}
    /\ \A f \in Files : f[1] \in Nat \cup {UnknownSize} /\ f[2] \in Nat \ {0}
    /\ \A f \in Files : f[1] = UnknownSize => f[2] = 1

VARIABLES
    part,
    file, dlg, newdlg, task, kept, applied, deaths,
    form, ntp, event,
    messages, TaskQue, strays, muddled, dead, lstMessages, MsgList, MsgItem, mTaskId, led, list, nodes, freed, folder, shown, item,
    MyCurFolder, MyCurTaskMsg, MyCurThreadId, OrigListbox,
    FileSize, ThreadCnt, status, turns, RemoteStartPos, RemoteBytesReceived, chunk, CHS,
    vvCell, step, at, drawn, exact

onlySettings == <<file, dlg, newdlg, task, kept, applied, deaths>>
onlyNewTask == <<form, ntp, event>>
onlyBoxes == <<messages, TaskQue, strays, muddled, dead, lstMessages, MsgList, MsgItem, mTaskId, led,
               list, nodes, freed, folder, shown, item, MyCurFolder, MyCurTaskMsg, MyCurThreadId,
               OrigListbox>>
onlyLed == <<FileSize, ThreadCnt, status, turns, RemoteStartPos, RemoteBytesReceived, chunk, CHS,
             vvCell, step, at, drawn, exact>>
vars == <<part, onlySettings, onlyNewTask, onlyBoxes, onlyLed, ivars>>

(* The signs of the file in the order of the character set. *)
Signs == <<" ", "#", "//", "0", "1", "2", "3", "=", "[", "]", "_____***_______", "auth",
           "download_dir_path", "global", "host", "max_task_num", "min_blk_size", "pass", "port",
           "proxy", "recv_buf_size", "retry_interval", "retry_times", "sync_cache_size",
           "timeout_wait", "type", "user">>
MCRank == [sign \in {Signs[i] : i \in DOMAIN Signs} |-> CHOOSE i \in DOMAIN Signs : Signs[i] = sign]

\* One word does not fit a line.
MCWidth(sign) == IF sign = "wide" THEN MAX_CONFIG_LINE_LENGTH ELSE 15

MCText(n) == <<ToString(n)>>
MCNumbers == {0, 1, 3, 4, 5, 7, 10, 15, 21, 30, 32, 100, 120, 256, 512, 1024, 8080}

Line(key, value) == <<key, "=", value>>
MCShipped ==
    << <<"[", "global", "]">>,
       Line("download_dir_path", "home"), Line("max_task_num", "5"), Line("min_blk_size", "32"),
       Line("recv_buf_size", "4"), Line("retry_interval", "15"), Line("retry_times", "100"),
       Line("sync_cache_size", "256"), Line("timeout_wait", "30"),
       <<>>,
       <<"[", "proxy", "0", "]">>,
       Line("auth", "false"), Line("host", "h0"), Line("port", "1979"), Line("type", "http") >>

Row(name, type, host, port, user, pass) ==
    [name |-> name, type |-> <<type>>, host |-> host, port |-> MCText(port),
     auth |-> user # <<>>, user |-> user, pass |-> pass]
MCInputs ==
    { Row(<<"proxy", "1">>, "sock5", <<"h1">>, 8080, <<"u">>, <<"w">>),
      Row(<<"proxy", "0">>, "ftp", <<"h2">>, 21, <<>>, <<>>),
      Row(<<"proxy", "0">>, "http", <<>>, 8080, <<>>, <<>>),
      Row(<<"proxy", "0">>, "http", <<"wide">>, 8080, <<>>, <<>>) }

Prefs == INSTANCE Settings WITH
            Rank <- MCRank, Width <- MCWidth, Text <- MCText, Shipped <- MCShipped, Inputs <- MCInputs,
            SpinEdits <- {<<"max_task_num", 5>>}, Numbers <- MCNumbers

MCUrls == {<<"http", "a">>, <<"ftp", "">>, <<"gopher", "b">>}
MCFiles == {<<-1, 1>>, <<0, 1>>, <<5, 1>>, <<5, 2>>}

New == INSTANCE NewTask
Views == INSTANCE Boxes
Picture == INSTANCE Led

NoPrefs ==
    /\ file = 0 /\ dlg = 0 /\ newdlg = 0 /\ task = 0 /\ kept = 0 /\ applied = 0 /\ deaths = 0
NoNew == form = 0 /\ ntp = 0 /\ event = 0
NoBoxes ==
    /\ messages = 0 /\ TaskQue = 0 /\ strays = 0 /\ muddled = 0 /\ dead = 0
    /\ lstMessages = 0 /\ MsgList = 0 /\ MsgItem = 0 /\ mTaskId = 0 /\ led = 0
    /\ list = 0 /\ nodes = 0 /\ freed = 0 /\ folder = 0 /\ shown = 0 /\ item = 0
    /\ MyCurFolder = 0 /\ MyCurTaskMsg = 0 /\ MyCurThreadId = 0 /\ OrigListbox = 0
NoLed ==
    /\ FileSize = 0 /\ ThreadCnt = 0 /\ status = 0 /\ turns = 0 /\ RemoteStartPos = 0
    /\ RemoteBytesReceived = 0 /\ chunk = 0 /\ CHS = 0 /\ vvCell = 0
    /\ step = 0 /\ at = 0 /\ drawn = 0 /\ exact = 0

\* Of the variables of Instances the initial values stand for "no state" as well.
Init ==
    /\ InitInstances
    /\ \/ part = "options" /\ Prefs!Init /\ NoNew /\ NoBoxes /\ NoLed
       \/ part = "new" /\ New!Init /\ NoPrefs /\ NoBoxes /\ NoLed
       \/ part = "boxes" /\ Views!InitBoxes /\ NoPrefs /\ NoNew /\ NoLed
       \/ part = "led" /\ Picture!Init /\ NoPrefs /\ NoNew /\ NoBoxes
       \/ part = "instances" /\ NoPrefs /\ NoNew /\ NoBoxes /\ NoLed

Next ==
    /\ UNCHANGED part
    /\ \/ part = "options" /\ Prefs!Next /\ UNCHANGED <<onlyNewTask, onlyBoxes, onlyLed, ivars>>
       \/ part = "new" /\ New!Next /\ UNCHANGED <<onlySettings, onlyBoxes, onlyLed, ivars>>
       \/ part = "boxes" /\ Views!NextBoxes /\ UNCHANGED <<onlySettings, onlyNewTask, onlyLed, ivars>>
       \/ part = "led" /\ Picture!Next /\ UNCHANGED <<onlySettings, onlyNewTask, onlyBoxes, ivars>>
       \/ part = "instances" /\ NextInstances
          /\ UNCHANGED <<onlySettings, onlyNewTask, onlyBoxes, onlyLed>>

Spec == Init /\ [][Next]_vars

(* The objects that rewrite wdget.ini keep what was applied and saved last, and the preferences
   show it again, as long as no line is too long to be read; and a proxy that is offered for a new
   task has a host, a port and a type for the scheme, also after the program has died in a write
   of wdget.ini, after which it may lack its user. *)
SettingsSurvive == part = "options" => Prefs!SettingsSurvive /\ Prefs!OfferedProxiesHaveAnAddress

(* The task that an accepted dialog posts is whole, and a dialog that is cancelled posts nothing,
   or what an OK had stored before it was refused. *)
AcceptedTaskIsWhole == part = "new" => New!AcceptedTaskIsWhole

(* The messages of NewTaskBox, their rows and their widgets agree between two events, and no handler
   follows a null pointer, until a message has the id of another one, which takes a task that
   found no slot. *)
BoxesAgree == part = "boxes" => Views!BoxesAgree

(* The picture of a download shows what the threads had received when they were drawn, while
   they stood still and unless they were resumed from a torn record, and no drawing leaves it. *)
LedInv == part = "led" => Picture!LedInv
=============================================================================
