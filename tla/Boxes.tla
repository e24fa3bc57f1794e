------------------------------- MODULE Boxes -------------------------------
(***************************************************************************)
(* What the main window shows of the tasks (libui/listviews.cpp and the      *)
(* parts of frmMainWin.cpp that use it): the folders and their lists of       *)
(* messages, and for every message of NewTaskBox a picture (led) and a list    *)
(* of its threads (list).  Everything runs in the thread of the event loop;    *)
(* the handlers find a message by the id of its task, and follow the pointers  *)
(* of every message of the box without testing them.  A task for which there    *)
(* is no slot is accepted all the same; its id is what was in the memory.       *)
(***************************************************************************)
EXTENDS Integers, Sequences, FiniteSets, SequencesExt

CONSTANTS
    MaxMessages,    \* bound: messages created
    MAX_TASK_NUM,
    MaxThreads      \* threads of a task

VARIABLES
    messages,       \* messages created
    TaskQue,        \* slot -> the message of its task
    lstMessages,    \* folder -> its messages
    MsgList,        \* folder -> the messages with an item in its view
    MsgItem,        \* message -> the folder whose view holds the item it points to
    mTaskId, led, list,     \* of a message; led and list: "none", "hidden", "shown"
    nodes,          \* message -> threads in its list
    freed,          \* messages that were deleted
    folder,         \* the selected item of the tree of folders
    shown,          \* the folders whose view is visible
    item,           \* the selected item of the view of NewTaskBox
    MyCurFolder, MyCurTaskMsg, MyCurThreadId,
    OrigListbox,    \* the view with the log of a thread is visible
    strays,         \* history: messages whose task found no slot
    muddled,        \* history: a message came with an id that another one of the box had
    dead            \* a handler has followed a pointer to a widget that is not there

views == <<folder, shown, MyCurFolder>>
pictures == <<led, list, OrigListbox>>
tasks == <<messages, TaskQue, mTaskId, strays, muddled>>
bvars == <<tasks, lstMessages, MsgList, MsgItem, nodes, freed, item, MyCurTaskMsg,
           MyCurThreadId, views, pictures, dead>>

NULL == 0
Messages == 1 .. MaxMessages
Slots == 0 .. MAX_TASK_NUM - 1
Garbage == 0 .. MAX_TASK_NUM        \* bound: one id of no slot

\* initFolders: the folders with a list of messages, and the one above them.
Folders == {"NewTaskBox", "OldTaskBox", "TrashBox"}
Root == "dget"

NewTaskBox == lstMessages["NewTaskBox"]

InitBoxes ==
    /\ messages = 0 /\ TaskQue = [i \in Slots |-> NULL] /\ strays = {} /\ muddled = FALSE
    /\ lstMessages = [f \in Folders |-> <<>>] /\ MsgList = [f \in Folders |-> {}]
    /\ MsgItem = [m \in Messages |-> "none"] /\ mTaskId = [m \in Messages |-> -1]
    /\ led = [m \in Messages |-> "none"] /\ list = [m \in Messages |-> "none"]
    /\ nodes = [m \in Messages |-> 0]
    /\ freed = {}
    /\ folder = "NewTaskBox" /\ shown = {"NewTaskBox"} /\ MyCurFolder = "NewTaskBox"
    /\ item = NULL /\ MyCurTaskMsg = NULL /\ MyCurThreadId = -1
    /\ OrigListbox = FALSE /\ dead = FALSE

-----------------------------------------------------------------------------
\* The first message with the id.
FindTaskMsgById(box, id) == box[SelectInSeq(box, LAMBDA m : mTaskId'[m] = id)]

\* ShowGraphic and ShowList: the widget of one message of the box is shown, the others' hidden.
ShowOnly(widget, box, m) ==
    [k \in Messages |-> IF k = m THEN "shown" ELSE IF k \in ToSet(box) THEN "hidden" ELSE widget[k]]

\* As a mutant: the others are left as they are.
ShowByIdOnTop(widget, box, id) == [widget EXCEPT ![FindTaskMsgById(box, id)] = "shown"]

ShowById(widget, box, id) == ShowOnly(widget, box, FindTaskMsgById(box, id))

HideAll(widget, box) == [k \in Messages |-> IF k \in ToSet(box) THEN "hidden" ELSE widget[k]]

\* A loop over the box meets a message without the widget.
MeetsNull(box, widget) == \E k \in ToSet(box) : widget[k] = "none"

\* slotFolderChanged: the folder above the boxes has no view, and nothing changes.
ShowTaskMsgList(f) ==
    IF f = Root THEN UNCHANGED <<shown, MyCurFolder>>
    ELSE shown' = {f} /\ MyCurFolder' = f

\* The user selects a folder.
SelectFolder(f) ==
    /\ f # folder /\ folder' = f
    /\ ShowTaskMsgList(f)
    /\ UNCHANGED <<tasks, lstMessages, MsgList, MsgItem, nodes, freed, item,
                   MyCurTaskMsg, MyCurThreadId, pictures, dead>>

\* slotMessageChanged, for the item that is selected now: the message becomes the current one
\* only when the folder of its box is selected as well.
slotMessageChanged(m, box, f) ==
    /\ MyCurTaskMsg' = IF f = "NewTaskBox" THEN m ELSE NULL
    /\ item' = m

\* The user selects a message, or clicks beside them.
SelectMessage(m) ==
    /\ "NewTaskBox" \in shown /\ m # item
    /\ slotMessageChanged(m, NewTaskBox, folder)
    /\ UNCHANGED tasks
    /\ IF MyCurTaskMsg' = NULL THEN UNCHANGED <<led, list, dead>>
       ELSE /\ led' = ShowById(led, NewTaskBox, mTaskId[m])
            /\ list' = ShowById(list, NewTaskBox, mTaskId[m])
            /\ dead' = (MeetsNull(NewTaskBox, led) \/ MeetsNull(NewTaskBox, list))
    /\ UNCHANGED <<lstMessages, MsgList, MsgItem, nodes, freed, views, MyCurThreadId, OrigListbox>>

-----------------------------------------------------------------------------
NullSlots == {i \in Slots : TaskQue[i] = NULL}

\* FindFirstNullSlot gives the id, if there is one.
TaskIds == IF NullSlots = {} THEN Garbage
           ELSE {CHOOSE n \in NullSlots : \A k \in NullSlots : n <= k}

(* ProcessNewTask: its test of the number of tasks refuses none.  NewTaskBox is selected, and the
   message when the id is 0.  The widgets are made for the first message with the id. *)
ProcessNewTask ==
    \E id \in TaskIds :
    LET m == messages + 1
        box == Append(NewTaskBox, m)
        first == FindTaskMsgById(box, id)
        newLed == [led EXCEPT ![first] = "hidden"]
        newList == [list EXCEPT ![first] = "hidden"]
    IN  /\ m \in Messages
        /\ messages' = m
        /\ mTaskId' = [mTaskId EXCEPT ![m] = id]
        /\ IF NullSlots = {} THEN strays' = strays \cup {m} /\ UNCHANGED TaskQue
           ELSE TaskQue' = [TaskQue EXCEPT ![id] = m] /\ UNCHANGED strays
        /\ muddled' = (muddled \/ \E i \in DOMAIN NewTaskBox : mTaskId[NewTaskBox[i]] = id)
        /\ lstMessages' = [lstMessages EXCEPT !["NewTaskBox"] = box]
        /\ MsgList' = [MsgList EXCEPT !["NewTaskBox"] = @ \cup {m}]
        /\ MsgItem' = [MsgItem EXCEPT ![m] = "NewTaskBox"]
        /\ folder' = "NewTaskBox"
        /\ IF folder = "NewTaskBox" THEN UNCHANGED <<shown, MyCurFolder>>
           ELSE ShowTaskMsgList("NewTaskBox")
        /\ nodes' = [nodes EXCEPT ![first] = 1]
        /\ IF id = 0
             THEN /\ led' = ShowById(newLed, box, id) /\ list' = ShowById(newList, box, id)
                  /\ dead' = (MeetsNull(box, newLed) \/ MeetsNull(box, newList))
                  /\ slotMessageChanged(m, box, "NewTaskBox")
             ELSE led' = newLed /\ list' = newList /\ UNCHANGED <<item, MyCurTaskMsg, dead>>
        /\ UNCHANGED <<freed, MyCurThreadId, OrigListbox>>

\* ProcessStartTask and ProcessResumeTask of the task in a slot: InitLed and InitListNode set up
\* the widgets of its message anew.
InitListNode(slot, n) ==
    LET m == FindTaskMsgById(NewTaskBox, slot) IN
    /\ UNCHANGED tasks
    /\ TaskQue[slot] # NULL
    /\ nodes' = [nodes EXCEPT ![m] = n]
    /\ dead' = (led[m] = "none" \/ list[m] = "none")
    /\ UNCHANGED <<lstMessages, MsgList, MsgItem, freed, item, MyCurTaskMsg, MyCurThreadId, views,
                   pictures>>

(* ListNodeSelectChanged, in the list that is shown: the first item brings the picture back, a
   thread its log in the place of all pictures. *)
SelectGraphic(m) ==
    /\ list[m] = "shown" /\ OrigListbox' = FALSE
    /\ UNCHANGED tasks
    /\ IF MyCurTaskMsg = NULL THEN UNCHANGED <<led, dead>>
       ELSE /\ led' = ShowById(led, NewTaskBox, mTaskId[MyCurTaskMsg])
            /\ dead' = MeetsNull(NewTaskBox, led)
    /\ UNCHANGED <<lstMessages, MsgList, MsgItem, nodes, freed, item, MyCurTaskMsg, MyCurThreadId,
                   views, list>>

SelectThread(m, t) ==
    /\ list[m] = "shown" /\ t < nodes[m]
    /\ MyCurThreadId' = IF MyCurTaskMsg = NULL THEN MyCurThreadId ELSE t
    /\ led' = HideAll(led, NewTaskBox) /\ OrigListbox' = TRUE
    /\ dead' = MeetsNull(NewTaskBox, led)
    /\ UNCHANGED <<tasks, lstMessages, MsgList, MsgItem, nodes, freed, item, MyCurTaskMsg, views, list>>

(* ProcessFinshedTask and ProcessDeadTask: the task gives its slot back.  The widgets of the message
   are deleted and it moves to OldTaskBox: it gets an item there, its old item is taken out, which
   ends its selection, and it leaves the list of NewTaskBox, which deletes what is removed from it. *)
Retire(slot) ==
    LET m == FindTaskMsgById(NewTaskBox, slot) IN
    /\ UNCHANGED <<messages, mTaskId, strays, muddled, nodes, views, MyCurThreadId, OrigListbox, dead>>
    /\ TaskQue[slot] # NULL /\ TaskQue' = [TaskQue EXCEPT ![slot] = NULL]
    /\ led' = [led EXCEPT ![m] = "none"] /\ list' = [list EXCEPT ![m] = "none"]
    /\ MsgItem' = [MsgItem EXCEPT ![m] = "OldTaskBox"]
    /\ MsgList' = [MsgList EXCEPT !["OldTaskBox"] = @ \cup {m}, !["NewTaskBox"] = @ \ {m}]
    /\ IF item = m THEN item' = NULL /\ MyCurTaskMsg' = NULL ELSE UNCHANGED <<item, MyCurTaskMsg>>
    /\ lstMessages' = [lstMessages EXCEPT !["OldTaskBox"] = Append(@, m),
                                          !["NewTaskBox"] = RemoveFirst(@, m)]
    /\ freed' = freed \cup {m}

NextBoxes ==
    /\ ~dead
    /\ \/ \E f \in Folders \cup {Root} : SelectFolder(f)
       \/ \E m \in {NULL} \cup ToSet(NewTaskBox) : SelectMessage(m)
       \/ ProcessNewTask
       \/ \E m \in Messages : SelectGraphic(m) \/ \E t \in 0 .. MaxThreads - 1 : SelectThread(m, t)
       \/ \E slot \in Slots : Retire(slot) \/ \E n \in 1 .. MaxThreads : InitListNode(slot, n)

-----------------------------------------------------------------------------
\* UpdateTaskInfo returns early unless it takes NewTaskBox for the box on the screen.
Updates ==
    /\ folder \notin {"OldTaskBox", "TrashBox"}
    /\ NewTaskBox # <<>> /\ MyCurFolder = "NewTaskBox" /\ MsgList["NewTaskBox"] # {}

Shown(widget) == {m \in Messages : widget[m] = "shown"}

(* Between two events the box, its view and the widgets agree: every message of NewTaskBox is
   alive and has its item in that view, a picture and a list, as the loops over the box take for
   granted; the ids are different; at most one picture and one list are shown, those of the
   selected message if there is one, unless a log is shown in place of the picture; and the
   rows are refreshed exactly while the box is on the screen. *)
ViewsAgree ==
    /\ ToSet(NewTaskBox) = MsgList["NewTaskBox"] /\ ToSet(NewTaskBox) \cap freed = {}
    /\ \A i \in DOMAIN NewTaskBox : LET m == NewTaskBox[i] IN
          /\ MsgItem[m] = "NewTaskBox" /\ led[m] # "none" /\ list[m] # "none" /\ nodes[m] > 0
          /\ \A j \in DOMAIN NewTaskBox : mTaskId[NewTaskBox[j]] = mTaskId[m] => i = j
    /\ Cardinality(Shown(led)) <= 1 /\ Cardinality(Shown(list)) <= 1
    /\ MyCurTaskMsg # NULL =>
          /\ MyCurTaskMsg \in ToSet(NewTaskBox) /\ Shown(list) = {MyCurTaskMsg}
          /\ Shown(led) = {MyCurTaskMsg} \/ OrigListbox
    /\ Updates = (shown = {"NewTaskBox"} /\ NewTaskBox # <<>>)

(* This holds, and no handler follows a null pointer, until a message comes whose id another
   message of the box has: its widgets then go to that message, and its own pointers stay null.
   Slots are given out such that this never happens before a task is accepted for which there was
   no slot; with an id that no other message has, such a task does no harm. *)
BoxesAgree ==
    /\ ~muddled => ViewsAgree /\ ~dead
    /\ muddled => strays # {}
=============================================================================
