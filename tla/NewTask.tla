------------------------------ MODULE NewTask ------------------------------
(***************************************************************************)
(* The dialog for a new task (libui/frmNewTask.cpp) and the slot that opens   *)
(* it and posts what it left (FrmMainWin::fileNewUrl).  A URL is a pair of    *)
(* its scheme and the file it names, "" for a URL that ends in a slash; no    *)
(* URL is <<>>.  The proxies are in module Settings.                          *)
(***************************************************************************)
EXTENDS Integers, Sequences, SequencesExt, FiniteSets

CONSTANTS
    Urls,           \* the URLs that can be entered
    Schemes,        \* the schemes getProxyName knows
    Users,          \* what can be entered for a user, "" among it
    MaxMirrors      \* bound: rows in the table of mirrors

VARIABLES
    form,           \* the dialog
    ntp,            \* m_ntp, and with it the record of fileNewUrl
    event           \* the NewTaskEvent of the last dialog, until the next one, and whether the
                    \* dialog had been accepted, which nothing looks at

vars == <<form, ntp, event>>

NoUrl == <<>>
Param(url, file, nblks, user, proxyname, vSurl) ==
    [origUrl |-> url, file |-> file, nblks |-> nblks, user |-> user, proxyname |-> proxyname,
     vSurl |-> vSurl]
NoParam == Param(NoUrl, "", 1, "", "", <<>>)

getFile(url) == IF url = NoUrl THEN "" ELSE url[2]

(* getProxyName: the box of the scheme, each with a name of its own. *)
getProxyName(url) == IF url[1] \in Schemes THEN url[1] ELSE ""

Closed == [open |-> FALSE]
None == [posted |-> FALSE]

Init == form = Closed /\ ntp = NoParam /\ event = None

(* fileNewUrl: the clipboard offers a URL if its scheme is known; the constructor and Init. *)
fileNewUrl ==
    /\ ~form.open
    /\ \E url \in {NoUrl} \cup { u \in Urls : u[1] \in Schemes } :
           form' = [open |-> TRUE, url |-> url, file |-> getFile(url), nblks |-> 4,
                    auth |-> FALSE, user |-> "", use_mirror |-> FALSE, mirrors |-> <<>>,
                    accepted |-> FALSE]
    /\ ntp' = NoParam /\ event' = None

Open == form.open /\ ~form.accepted

slt_url_changed ==
    /\ Open
    /\ \E url \in Urls \cup {NoUrl} : form' = [form EXCEPT !.url = url, !.file = getFile(url)]
    /\ UNCHANGED <<ntp, event>>

Rename ==
    /\ Open
    /\ \E file \in {"", "renamed"} : form' = [form EXCEPT !.file = file]
    /\ UNCHANGED <<ntp, event>>

SetBlocks ==
    /\ Open
    /\ \E n \in {1, 4} : form' = [form EXCEPT !.nblks = n]
    /\ UNCHANGED <<ntp, event>>

slt_checkbox_auth ==
    /\ Open
    /\ \/ form' = [form EXCEPT !.auth = FALSE, !.user = ""]
       \/ \E user \in Users : form' = [form EXCEPT !.auth = TRUE, !.user = user]
    /\ UNCHANGED <<ntp, event>>

(* The box turns itself off while one block is asked for; the table keeps its rows. *)
slt_checkbox_use_mirror ==
    /\ Open
    /\ form' = [form EXCEPT !.use_mirror = ~@ /\ form.nblks > 1]
    /\ UNCHANGED <<ntp, event>>

Mirrors == Open /\ form.use_mirror

(* slt_btn_addmirror, add_mirror_url_item, and dropEvent: the row is not chosen yet. *)
slt_btn_addmirror ==
    /\ Mirrors /\ Len(form.mirrors) < MaxMirrors
    /\ \E url \in Urls : form' = [form EXCEPT !.mirrors = Append(@, [url |-> url, chosen |-> FALSE])]
    /\ UNCHANGED <<ntp, event>>

ChooseMirror ==
    /\ Mirrors
    /\ \E i \in DOMAIN form.mirrors : form' = [form EXCEPT !.mirrors[i].chosen = ~@]
    /\ UNCHANGED <<ntp, event>>

slt_btn_delmirror ==
    /\ Mirrors
    /\ \E i \in DOMAIN form.mirrors : form' = [form EXCEPT !.mirrors = RemoveAt(@, i)]
    /\ UNCHANGED <<ntp, event>>

(* slt_clear_all and slt_btn_autoscan, which finds nothing. *)
slt_clear_all ==
    /\ Mirrors
    /\ form' = [form EXCEPT !.mirrors = <<>>]
    /\ UNCHANGED <<ntp, event>>

ChosenMirrors == {i \in DOMAIN form.mirrors : form.mirrors[i].chosen}
MirrorsTakenByBox == IF form.use_mirror THEN ChosenMirrors ELSE {}
MirrorsTaken == IF form.use_mirror /\ form.nblks > 1 THEN ChosenMirrors ELSE {}

\* The rows of a set in their order.
InOrder(rows) ==
    {it \in [1 .. Cardinality(rows) -> rows] : \A i, j \in DOMAIN it : i < j => it[i] < it[j]}

(* slt_btn_ok: the fields are stored before they are looked at, and a refusal keeps them. *)
slt_btn_ok ==
    /\ Open
    /\ IF form.url = NoUrl \/ form.file = ""
       THEN ntp' = Param(form.url, form.file, form.nblks, "", "", <<>>) /\ UNCHANGED form
       ELSE /\ \E it \in InOrder(MirrorsTaken) :
                   ntp' = Param(form.url, form.file, form.nblks,
                                IF form.auth THEN form.user ELSE "", getProxyName(form.url),
                                <<form.url>> \o [i \in DOMAIN it |-> form.mirrors[it[i]].url])
            /\ form' = [form EXCEPT !.accepted = TRUE]
    /\ UNCHANGED event

(* done: what exec returns is lost in an assignment, so a dialog that was cancelled is taken
   like one that was accepted. *)
Return ==
    /\ form.open
    /\ event' = IF ntp.origUrl = NoUrl THEN event
                ELSE [posted |-> TRUE, accepted |-> form.accepted, ntp |-> ntp]
    /\ form' = Closed
    /\ UNCHANGED ntp

Next ==
    \/ fileNewUrl \/ slt_url_changed \/ Rename \/ SetBlocks \/ slt_checkbox_auth
    \/ slt_checkbox_use_mirror \/ slt_btn_addmirror \/ ChooseMirror \/ slt_btn_delmirror
    \/ slt_clear_all \/ slt_btn_ok \/ Return

Spec == Init /\ [][Next]_vars

-----------------------------------------------------------------------------
(* The task of a dialog that was accepted is whole: it has a file name and a list of URLs, which
   begins with its own and goes on with mirrors only for a task of several blocks.  A dialog
   that was cancelled posts nothing, or after an OK that was refused for want of a file name
   half a task: the URL, without the list that ProcessNewTask goes through, file name, user and
   proxy.  Nothing of an earlier dialog is posted in either case. *)
AcceptedTaskIsWhole ==
    event.posted =>
        LET t == event.ntp
        IN  /\ t.origUrl # NoUrl
            /\ IF event.accepted
               THEN /\ t.vSurl # <<>> /\ t.vSurl[1] = t.origUrl /\ t.file # ""
                    /\ Len(t.vSurl) > 1 => t.nblks > 1
               ELSE t.vSurl = <<>> /\ t.proxyname = "" /\ t.user = "" /\ t.file = ""
=============================================================================
