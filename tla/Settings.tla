------------------------------ MODULE Settings ------------------------------
(***************************************************************************)
(* The settings of the program: the file wdget.ini, the preferences           *)
(* (libui/frmOptions.cpp, frmAddProxy.cpp) that write it, and what a new      *)
(* task (frmNewTask.cpp, FrmMainWin::ProcessNewTask) reads from it.  Every    *)
(* reader and every writer makes an IniFile object, and each of these         *)
(* objects writes the whole file when it ends; the program may die in the     *)
(* middle of that.                                                            *)
(***************************************************************************)
EXTENDS Integers, Sequences, SequencesExt, FiniteSets
LOCAL INSTANCE TLC

CONSTANTS
    Rank,           \* the order of the signs
    Width(_),       \* how many characters a sign stands for
    MAX_CONFIG_LINE_LENGTH,
    Shipped,        \* the lines of the file at the start
    Inputs,         \* what is entered about a proxy, as rows
    SpinEdits,      \* pairs of a setting and a value entered for it
    Numbers,        \* the numbers that occur
    Text(_),        \* %d
    MaxEdits,       \* bound: edits in a dialog
    MaxDeaths       \* bound: how often the program dies

VARIABLES
    file,           \* the ended lines of wdget.ini
    dlg,            \* the preferences
    newdlg,         \* the part of the dialog for a new task that is about proxies
    task,           \* the proxy of the task just made, until the next dialog opens
    kept,           \* ghost: the rows the preferences last saved, by name
    applied,        \* ghost: the settings last applied
    deaths          \* ghost: how often the program has died

vars == <<file, dlg, newdlg, task, kept, applied, deaths>>

Ini == INSTANCE IniFile

Slots == 0 .. 3

-----------------------------------------------------------------------------
(* The performance page. *)
EngineKeys == {"max_task_num", "min_blk_size", "retry_times", "retry_interval", "timeout_wait",
               "recv_buf_size", "sync_cache_size"}

Missing == [max_task_num |-> 5, min_blk_size |-> 32, retry_times |-> 100, retry_interval |-> 15,
            timeout_wait |-> 120, recv_buf_size |-> 4, sync_cache_size |-> 256]
SpinMin == [max_task_num |-> 1, min_blk_size |-> 32, retry_times |-> 1, retry_interval |-> 1,
            timeout_wait |-> 1, recv_buf_size |-> 4, sync_cache_size |-> 256]
SpinMax == [max_task_num |-> 10, min_blk_size |-> 1024, retry_times |-> 30, retry_interval |-> 30,
            timeout_wait |-> 30, recv_buf_size |-> 128, sync_cache_size |-> 1024]
Defaults == [max_task_num |-> 3, min_blk_size |-> 32, retry_times |-> 10, retry_interval |-> 5,
             timeout_wait |-> 5, recv_buf_size |-> 4, sync_cache_size |-> 0]
Compared == [Defaults EXCEPT !.max_task_num = 5]

Clamp(key, n) == IF n < SpinMin[key] THEN SpinMin[key] ELSE IF n > SpinMax[key] THEN SpinMax[key] ELSE n
atoi(text) == IF \E n \in Numbers : Text(n) = text THEN CHOOSE n \in Numbers : Text(n) = text ELSE 0

Engine(config, key) ==
    LET text == Ini!read(config, <<"global">>, <<key>>)
    IN  IF text = <<>> THEN Missing[key] ELSE atoi(text)

(* init_param: the constructor has turned the box for the defaults on, and it stays on for the
   values compared with, which are not quite the defaults. *)
EngineOf(config) == [key \in EngineKeys |-> Engine(config, key)]
Params(config) ==
    LET read == EngineOf(config)
    IN  [spins |-> [key \in EngineKeys |-> Clamp(key, read[key])],
         use_default |-> read = Compared,
         sync |-> read # Compared /\ read.sync_cache_size # 0]

(* engine_param_apply. *)
AppliedWithoutBox(d) == IF d.use_default THEN Defaults ELSE d.spins
Applied(d) ==
    IF d.use_default THEN Defaults
    ELSE [d.spins EXCEPT !.sync_cache_size = IF d.sync THEN @ ELSE 0]

EngineWritten(config, values) ==
    LET entries == { <<<<"global">>, <<key>>>> : key \in EngineKeys }
    IN  (<<<<"global">>, <<"download_dir_path">>>> :> <<"home">>)
        @@ [entry \in entries |-> Text(values[entry[2][1]])] @@ config

-----------------------------------------------------------------------------
(* The table of proxies.  Rows with another name than proxy0 to proxy3 are saved and not shown
   again; reading stops at the first name without a type. *)
NameOf(i) == <<"proxy", <<"0", "1", "2", "3">>[i + 1]>>

TypeOf(config, i) == Ini!read(config, NameOf(i), <<"type">>)
Shown(config) == { i \in Slots : \A j \in 0 .. i : TypeOf(config, j) # <<>> }

RowOf(config, i) ==
    LET Field(key) == Ini!read(config, NameOf(i), <<key>>)
        named == Field("user") # <<>>
    IN  [name |-> NameOf(i), type |-> Field("type"), host |-> Field("host"), port |-> Field("port"),
         auth |-> named,
         user |-> Field("user"), pass |-> IF named THEN Field("pass") ELSE <<>>]

refresh_proxy_table(config, rows) ==
    rows \o [i \in 1 .. Cardinality(Shown(config)) |-> RowOf(config, i - 1)]

(* write_proxy_inf.  A row that was deleted stays in the file; of rows with the same name the
   last one does. *)
RowKeys == {"type", "host", "port", "auth", "user", "pass"}
Saved(rows) ==
    LET names == { rows[i].name : i \in DOMAIN rows }
    IN  [name \in names |-> rows[SelectLastInSeq(rows, LAMBDA row : row.name = name)]]
Column(row, key) ==
    IF key = "auth" THEN IF row.auth THEN <<"true">> ELSE <<"false">> ELSE row[key]

RowsWritten(config, rows) ==
    LET saved == Saved(rows)
        entries == (DOMAIN saved) \X { <<key>> : key \in RowKeys }
    IN  [entry \in entries |-> Column(saved[entry[1]], entry[2][1])] @@ config

(* frmAddNewProxy::slt_btn_ok. *)
Acceptable(row) ==
    /\ row.name # <<>> /\ row.host # <<>> /\ row.port # Text(0)
    /\ row.auth => row.user # <<>> /\ row.pass # <<>>

(* slt_btn_add_proxy, slt_btn_edit_proxy: without authentication the columns of the user stay. *)
Entered(old, row) == IF row.auth THEN row ELSE [row EXCEPT !.user = old.user, !.pass = old.pass]
NewRow == [user |-> <<>>, pass |-> <<>>]

(* frmNewTask::refreshProxyInfo: which names the box of a scheme offers. *)
TypesFor(scheme) ==
    CASE scheme \in {"http", "https"} -> {<<"http">>}
      [] scheme = "ftp" -> {<<"ftp">>}
      [] scheme \in {"mms", "rtsp"} -> {<<"sock4">>, <<"sock5">>}
Offered(config, scheme) ==
    { NameOf(i) : i \in { j \in Shown(config) : TypeOf(config, j) \in TypesFor(scheme) } }

(* ProcessNewTask. *)
NoProxy == [UseProxy |-> FALSE]
ProxyOf(config, name) ==
    LET Field(key) == Ini!read(config, name, <<key>>)
    IN  IF Field("type") = <<>> THEN NoProxy
        ELSE [UseProxy |-> TRUE, name |-> name, type |-> Field("type"), host |-> Field("host"),
              port |-> Field("port"), user |-> Field("user"), pass |-> Field("pass"),
              auth |-> Field("auth") = <<"true">>]

-----------------------------------------------------------------------------
Closed == [open |-> FALSE]
NoRows == [name \in {} |-> {}]
Config == Ini!load_config(file)
Reader == Ini!flush(file, Config)

(* Whoever makes an object gets no further than its load_config when a line is too long, also
   the one that wrote the line: flush loads the file again.  The program hangs from then on,
   and again when it is started (getMaxTasksFromConfig). *)
Loads == Ini!Loads(file)

Init ==
    /\ file = Shipped
    /\ dlg = Closed /\ newdlg = Closed /\ task = NoProxy /\ kept = NoRows
    /\ applied = EngineOf(Ini!load_config(Shipped)) /\ deaths = 0

Idle == ~dlg.open /\ ~newdlg.open /\ Loads

(* frmOptions::frmOptions: init_param, then refresh_proxy_table. *)
OpenOptions ==
    /\ Idle
    /\ dlg' = Params(Config) @@ [open |-> TRUE, rows |-> refresh_proxy_table(Config, <<>>),
                                 stage |-> "edit", edits |-> 0]
    /\ file' = Reader /\ task' = NoProxy
    /\ UNCHANGED <<newdlg, kept, applied, deaths>>

Editing == dlg.open /\ dlg.stage = "edit" /\ dlg.edits < MaxEdits
Edited(d) == dlg' = [d EXCEPT !.edits = @ + 1]

EditSpin ==
    /\ Editing /\ ~dlg.use_default
    /\ \E pair \in SpinEdits :
           /\ pair[1] = "sync_cache_size" => dlg.sync
           /\ Edited([dlg EXCEPT !.spins[pair[1]] = Clamp(pair[1], pair[2])])
    /\ UNCHANGED <<file, newdlg, task, kept, applied, deaths>>

slt_checkBox_use_default ==
    /\ Editing
    /\ LET on == ~dlg.use_default
           spins == IF on THEN [Defaults EXCEPT !.sync_cache_size = 512] ELSE dlg.spins
       IN  Edited([dlg EXCEPT !.use_default = on, !.spins = spins])
    /\ UNCHANGED <<file, newdlg, task, kept, applied, deaths>>

slt_checkBox_sync ==
    /\ Editing /\ ~dlg.use_default
    /\ Edited([dlg EXCEPT !.sync = ~@])
    /\ UNCHANGED <<file, newdlg, task, kept, applied, deaths>>

slt_btn_add_proxy ==
    /\ Editing /\ Len(dlg.rows) < 4
    /\ \E row \in Inputs : Acceptable(row) /\ Edited([dlg EXCEPT !.rows = Append(@, Entered(NewRow, row))])
    /\ UNCHANGED <<file, newdlg, task, kept, applied, deaths>>

slt_btn_edit_proxy ==
    /\ Editing
    /\ \E i \in DOMAIN dlg.rows, row \in Inputs :
           Acceptable(row) /\ Edited([dlg EXCEPT !.rows[i] = Entered(@, row)])
    /\ UNCHANGED <<file, newdlg, task, kept, applied, deaths>>

slt_btn_del_proxy ==
    /\ Editing
    /\ \E i \in DOMAIN dlg.rows : Edited([dlg EXCEPT !.rows = RemoveAt(@, i)])
    /\ UNCHANGED <<file, newdlg, task, kept, applied, deaths>>

(* The file that was chosen is not read: the rows of wdget.ini are appended once more.  An open
   dialog has loaded the file. *)
slt_btn_import_proxy ==
    /\ Editing
    /\ Edited([dlg EXCEPT !.rows = refresh_proxy_table(Config, @)])
    /\ file' = Reader
    /\ UNCHANGED <<newdlg, task, kept, applied, deaths>>

(* slt_btn_ok: the settings, then the proxies, by an object each. *)
EngineApplied == Ini!flush(file, EngineWritten(Config, Applied(dlg)))
ProxiesApplied == Ini!flush(file, RowsWritten(Config, dlg.rows))

ApplyEngine ==
    /\ dlg.open /\ dlg.stage = "edit"
    /\ file' = EngineApplied
    /\ dlg' = [dlg EXCEPT !.stage = "proxies"]
    /\ applied' = Applied(dlg)
    /\ UNCHANGED <<newdlg, task, kept, deaths>>

ApplyProxies ==
    /\ dlg.open /\ dlg.stage = "proxies"
    /\ file' = ProxiesApplied
    /\ kept' = Saved(dlg.rows) @@ kept
    /\ dlg' = Closed
    /\ UNCHANGED <<newdlg, task, applied, deaths>>

Cancel ==
    /\ dlg.open /\ dlg.stage = "edit"
    /\ dlg' = Closed
    /\ UNCHANGED <<file, newdlg, task, kept, applied, deaths>>

-----------------------------------------------------------------------------
(* A new task: the dialog reads the names, its OK makes an object that reads nothing, and the
   task reads its proxy. *)
OpenNewTask ==
    /\ Idle
    /\ newdlg' = [open |-> TRUE, stage |-> "choose",
                  offered |-> [scheme \in {"http", "ftp", "mms"} |-> Offered(Config, scheme)]]
    /\ file' = Reader /\ task' = NoProxy
    /\ UNCHANGED <<dlg, kept, applied, deaths>>

ChooseProxy ==
    /\ newdlg.open /\ newdlg.stage = "choose"
    /\ \E scheme \in DOMAIN newdlg.offered : \E name \in newdlg.offered[scheme] \cup {<<"direct">>} :
           newdlg' = [newdlg EXCEPT !.stage = "post"] @@ [name |-> name]
    /\ file' = Reader
    /\ UNCHANGED <<dlg, task, kept, applied, deaths>>

ProcessNewTask ==
    /\ newdlg.open /\ newdlg.stage = "post"
    /\ \/ task' = ProxyOf(Config, newdlg.name) /\ file' = Reader
       \/ UNCHANGED <<task, file>>                  \* the file exists, or has no name
    /\ newdlg' = Closed
    /\ UNCHANGED <<dlg, kept, applied, deaths>>

(* The program dies while an object writes its file, of which the lines written so far remain;
   it starts again. *)
Die ==
    /\ deaths < MaxDeaths /\ deaths' = deaths + 1 /\ Loads
    /\ \E lines \in {Reader}
            \cup (IF dlg.open THEN {IF dlg.stage = "edit" THEN EngineApplied ELSE ProxiesApplied} ELSE {}) :
           \E n \in 0 .. Len(lines) - 1 :
               LET left == SubSeq(lines, 1, n)
               IN  file' = left /\ applied' = EngineOf(Ini!load_config(left))
    /\ kept' = NoRows
    /\ dlg' = Closed /\ newdlg' = Closed /\ task' = NoProxy

Next ==
    \/ OpenOptions \/ EditSpin \/ slt_checkBox_use_default \/ slt_checkBox_sync
    \/ slt_btn_add_proxy \/ slt_btn_edit_proxy \/ slt_btn_del_proxy \/ slt_btn_import_proxy
    \/ ApplyEngine \/ ApplyProxies \/ Cancel
    \/ OpenNewTask \/ ChooseProxy \/ ProcessNewTask
    \/ Die

Spec == Init /\ [][Next]_vars

-----------------------------------------------------------------------------
(* A proxy that the dialog for a new task offers for a scheme is of a type for that scheme and
   has a host and a port, and so has the proxy of a task, also when the program has died while
   the file was written: the type of an entry is written after its host and its port, and an
   entry without a type is not offered.  It may lack its user, which is written after the type:
   then a task has a proxy with authentication and a password, and no user. *)
OfferedProxiesHaveAnAddress ==
    /\ newdlg.open /\ newdlg.stage = "choose" =>
           \A scheme \in DOMAIN newdlg.offered : \A name \in newdlg.offered[scheme] :
               LET proxy == ProxyOf(Config, name)
               IN  /\ proxy.UseProxy /\ proxy.host # <<>> /\ proxy.port # <<>>
                   /\ proxy.type \in TypesFor(scheme)
    /\ task.UseProxy =>
           /\ task.host # <<>> /\ task.port # <<>>
           /\ task.auth => task.pass # <<>>
           /\ deaths = 0 /\ task.auth => task.user # <<>>

SameProxy(proxy, row) ==
    /\ proxy.type = row.type /\ proxy.host = row.host /\ proxy.port = row.port
    /\ proxy.user = row.user

InRange(key, n) == Clamp(key, n) = n \/ (key = "sync_cache_size" /\ n = 0)

(* The objects that rewrite the file keep each other's entries: the file holds the settings that
   were applied last and, of each name, the proxy that was saved last, until the program dies in
   a write or a line is longer than load_config can take.  The preferences show them the next
   time, and to accept settings that are in their ranges without an edit does not change them,
   unless they are those that are taken for the defaults, with 5 tasks instead of 3. *)
SettingsSurvive ==
  Loads =>
    /\ EngineOf(Config) = applied
    /\ \A name \in DOMAIN kept :
           LET proxy == ProxyOf(Config, name)
           IN  /\ proxy.UseProxy /\ SameProxy(proxy, kept[name])
               /\ proxy.auth = kept[name].auth /\ proxy.pass = kept[name].pass
    /\ dlg.open /\ dlg.stage = "edit" /\ dlg.edits = 0 =>
           /\ (applied # Compared /\ \A key \in EngineKeys : InRange(key, applied[key])) =>
                  Applied(dlg) = applied
           /\ \A i \in DOMAIN dlg.rows :
                  dlg.rows[i].name \in DOMAIN kept => SameProxy(dlg.rows[i], kept[dlg.rows[i].name])
=============================================================================
