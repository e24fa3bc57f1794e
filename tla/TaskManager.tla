---------------------------- MODULE TaskManager ----------------------------
(***************************************************************************)
(* The life of download tasks: TTaskManager (libmtd/TaskMgr.cpp), its      *)
(* queue of task slots, and FrmMainWin (libui/frmMainWin.cpp), whose slots *)
(* carry out the user's commands and whose one-second timer runs           *)
(* ScheduleTask.  All of this code runs on the GUI thread, so a command    *)
(* never interrupts a pass of ScheduleTask; the download threads of the    *)
(* tasks run beside it and may move between any two slots of a pass.       *)
(*                                                                         *)
(* A task is the number of its creation.  A task's threads are abstracted  *)
(* to what the scheduler can tell apart (Download models them in detail).  *)
(***************************************************************************)
EXTENDS Integers, FiniteSets

CONSTANTS
  MaxTaskNum,   \* MAX_TASK_NUM, the number of slots of TaskQue
  MaxRunning,   \* the literal 5 of ScheduleTask (max_task_num of wdget.ini)
  MaxCreated,   \* bound: how many tasks a behaviour creates
  Namesakes     \* bound: the tasks that may be saved under a name already in use

ASSUME MaxTaskNumAssumption == MaxTaskNum \in Nat \ {0}
ASSUME MaxRunningAssumption == MaxRunning \in Nat \ {0}
ASSUME MaxCreatedAssumption == MaxCreated \in Nat

VARIABLES
  TaskQue,      \* slot -> task, or NoTask for a NULL pointer
  TaskCnt,      \* TTaskManager::TaskCnt
  Created,      \* how many TTask objects were ever allocated
  Status,       \* task -> TaskStatus; "none" before new, "freed" after delete
  TaskId,       \* task -> TTask::TaskId, also the id its Message carries
  Workers,      \* task -> what its pthreads are doing
  Path,         \* task -> OutFilePath, named by the first task of that path
  LogFile,      \* path -> whether the log file named after it is on disk
  Target,       \* path -> the task that last gave its file this name, or NoTask
  NewTaskBox,   \* the messages of the folder NewTaskBox, one per task shown
  MyCurTaskMsg, \* the selected message, or NoTask
  cursor        \* where ScheduleTask is in TaskQue; or AtEventLoop, HasQuit, Hung

files == <<Path, LogFile, Target>>

vars == <<TaskQue, TaskCnt, Created, Status, TaskId, Workers, files,
          NewTaskBox, MyCurTaskMsg, cursor>>

Slots == 0 .. MaxTaskNum - 1
Tasks == 1 .. MaxCreated
NoTask == 0
AtEventLoop == MaxTaskNum
HasQuit == -1
Hung == -2

\* Uninitialised TaskId that is not the number of a slot.
WildId == MaxTaskNum

TaskStatus == {"none", "IDLE", "START", "RUNNING", "FINISHED", "RESUME",
               "STOP", "ZOMBIE", "DEAD", "CONNFAIL", "freed"}

\* "live": some thread is still downloading; "alldone": every thread has set
\* THS_ALLDONE, but some pthread has not returned from run() yet; "gone": all
\* of them have; "failed": all pthreads ended and some thread gave up.
WorkersPhase == {"none", "live", "alldone", "gone", "failed"}

Init ==
  /\ TaskQue = [i \in Slots |-> NoTask]
  /\ TaskCnt = 0
  /\ Created = 0
  /\ Status = [t \in Tasks |-> "none"]
  /\ TaskId = [t \in Tasks |-> WildId]
  /\ Workers = [t \in Tasks |-> "none"]
  /\ Path = [t \in Tasks |-> t]
  /\ LogFile = [p \in Tasks |-> FALSE]
  /\ Target = [p \in Tasks |-> NoTask]
  /\ NewTaskBox = {}
  /\ MyCurTaskMsg = NoTask
  /\ cursor = AtEventLoop

-----------------------------------------------------------------------------
(* Queries *)

NullSlots == {i \in Slots : TaskQue[i] = NoTask}

\* The searches return a set: what is found, or nothing.
FindFirstNullSlot == {i \in NullSlots : \A j \in NullSlots : i <= j}

QueryRunningTaskCnt ==
  Cardinality({i \in Slots : TaskQue[i] # NoTask /\ Status[TaskQue[i]] = "RUNNING"})

\* The first message, in the order they were added, with this task id.
FindTaskMsgById(id) ==
  {m \in NewTaskBox : /\ TaskId[m] = id
                      /\ \A n \in NewTaskBox : TaskId[n] = id => m <= n}

-----------------------------------------------------------------------------
(* Commands of the user, from the event loop *)

\* AddTask when a slot is free, and when none is: then TaskId stays
\* uninitialised and the task is in no slot.
AddTask(t) ==
  \/ \E i \in FindFirstNullSlot :
       /\ TaskQue' = [TaskQue EXCEPT ![i] = t]
       /\ TaskId' = [TaskId EXCEPT ![t] = i]
       /\ TaskCnt' = TaskCnt + 1
  \/ /\ NullSlots = {}
     /\ \E garbage \in Slots \cup {WildId} : TaskId' = [TaskId EXCEPT ![t] = garbage]
     /\ UNCHANGED <<TaskQue, TaskCnt>>

\* The file a task will be saved as must not exist yet; tasks in the queue are
\* not asked for theirs.  The message of a new task is selected when its id is 0.
ProcessNewTask ==
  LET t == Created + 1
      inUse == IF t \in Namesakes THEN {Path[u] : u \in 1 .. Created} ELSE {}
  IN
  /\ cursor = AtEventLoop
  /\ Created < MaxCreated
  /\ ~(TaskCnt > MaxTaskNum)
  /\ \E p \in {t} \cup inUse : Target[p] = NoTask /\ Path' = [Path EXCEPT ![t] = p]
  /\ Created' = t
  /\ AddTask(t)
  /\ Status' = [Status EXCEPT ![t] = "IDLE"]
  /\ NewTaskBox' = NewTaskBox \cup {t}
  /\ MyCurTaskMsg' = IF TaskId'[t] = 0 THEN t ELSE MyCurTaskMsg
  /\ UNCHANGED <<Workers, LogFile, Target, cursor>>

\* The user selects the message m, or (NoTask) none.
slotMessageChanged(m) ==
  /\ cursor = AtEventLoop
  /\ MyCurTaskMsg # m
  /\ MyCurTaskMsg' = m
  /\ UNCHANGED <<TaskQue, TaskCnt, Created, Status, TaskId, Workers, files,
                 NewTaskBox, cursor>>

\* The task a command acts on: GetTaskById of the selected message's id.  A
\* wild id reads beyond TaskQue; what that returns is not modelled.
CurrentTask ==
  IF MyCurTaskMsg = NoTask \/ TaskId[MyCurTaskMsg] \notin Slots THEN NoTask
  ELSE TaskQue[TaskId[MyCurTaskMsg]]

Command(from, to) ==
  /\ cursor = AtEventLoop
  /\ CurrentTask # NoTask
  /\ Status[CurrentTask] \in from
  /\ Status' = [Status EXCEPT ![CurrentTask] = to]
  /\ UNCHANGED <<TaskQue, TaskCnt, Created, TaskId, Workers, files,
                 NewTaskBox, MyCurTaskMsg, cursor>>

\* dlStart resumes a stopped task that has its log file.
dlStart ==
  /\ CurrentTask # NoTask => LogFile[Path[CurrentTask]]
  /\ Command({"ZOMBIE"}, "RESUME")

\* Mutant of dlStop: a task may be stopped once it is finished.
dlStopFinished == Command({"RUNNING", "FINISHED"}, "STOP")

dlStop == Command({"RUNNING"}, "STOP")

\* RemoveTask: TSK_STOP is set for a running task and overwritten at once.
dlRemove == Command(TaskStatus \ {"DEAD"}, "DEAD")

\* fileExit deletes the manager and quits: TerminateAllTask asks the running
\* tasks to stop, ClearAllTask deletes every queued task at once.
fileExit ==
  /\ cursor = AtEventLoop
  /\ Status' = [t \in Tasks |-> IF \E i \in Slots : TaskQue[i] = t THEN "freed"
                                ELSE Status[t]]
  /\ TaskQue' = [i \in Slots |-> NoTask]
  /\ TaskCnt' = 0
  /\ cursor' = HasQuit
  /\ UNCHANGED <<Created, TaskId, Workers, files, NewTaskBox, MyCurTaskMsg>>

-----------------------------------------------------------------------------
(* ScheduleTask, one action per slot and status.  The status is read once   *)
(* (ts), before the limit on running tasks is applied, and the handler is   *)
(* chosen by the value read.                                                *)

timerEvent ==
  /\ cursor = AtEventLoop
  /\ NullSlots # Slots
  /\ cursor' = 0
  /\ UNCHANGED <<TaskQue, TaskCnt, Created, Status, TaskId, Workers, files,
                 NewTaskBox, MyCurTaskMsg>>

\* ScheduleTask has reached a slot whose task has the status ts.
AtTask(ts) ==
  /\ cursor \in Slots
  /\ TaskQue[cursor] # NoTask
  /\ Status[TaskQue[cursor]] = ts

NextSlot == cursor' = cursor + 1

This == TaskQue[cursor]

\* The status the limit on running tasks leaves a task of status ts with.
LimitRunning(ts) ==
  CASE ts = "START" /\ QueryRunningTaskCnt >= MaxRunning -> "IDLE"
    [] ts = "IDLE" /\ QueryRunningTaskCnt < MaxRunning -> "START"
    [] OTHER -> ts

\* Mutant of SkipNullSlot: break where the code has continue.
BreakAtNullSlot ==
  /\ cursor \in Slots
  /\ TaskQue[cursor] = NoTask
  /\ cursor' = AtEventLoop
  /\ UNCHANGED <<TaskQue, TaskCnt, Created, Status, TaskId, Workers, files,
                 NewTaskBox, MyCurTaskMsg>>

SkipNullSlot ==
  /\ cursor \in Slots
  /\ TaskQue[cursor] = NoTask
  /\ NextSlot
  /\ UNCHANGED <<TaskQue, TaskCnt, Created, Status, TaskId, Workers, files,
                 NewTaskBox, MyCurTaskMsg>>

ScheduleIdle ==
  /\ AtTask("IDLE")
  /\ NextSlot
  /\ Status' = [Status EXCEPT ![This] = LimitRunning("IDLE")]
  /\ UNCHANGED <<TaskQue, TaskCnt, Created, TaskId, Workers, files,
                 NewTaskBox, MyCurTaskMsg>>

\* SwitchToTask: the task runs, execDownloads creates its pthreads.
SwitchToTask(t) ==
  /\ Status' = [Status EXCEPT ![t] = "RUNNING"]
  /\ Workers' = [Workers EXCEPT ![t] = "live"]

\* fetchRemoteFileInfo fails; or createLogFile returns -1, as it also may when
\* the log is written, for it has no return statement then; or the log is
\* written and the task starts.
ProcessStartTask ==
  /\ AtTask("START")
  /\ NextSlot
  /\ \/ /\ Status' = [Status EXCEPT ![This] = "CONNFAIL"]
        /\ UNCHANGED <<Workers, LogFile>>
     \/ /\ Status' = [Status EXCEPT ![This] = LimitRunning("START")]
        /\ LogFile' \in {LogFile, [LogFile EXCEPT ![Path[This]] = TRUE]}
        /\ UNCHANGED Workers
     \/ /\ LogFile' = [LogFile EXCEPT ![Path[This]] = TRUE]
        /\ SwitchToTask(This)
  /\ UNCHANGED <<TaskQue, TaskCnt, Created, TaskId, Path, Target, NewTaskBox, MyCurTaskMsg>>

\* Mutant of ProcessRunningTask: TSK_FINISHED is never set.
ProcessRunningTaskForever ==
  /\ AtTask("RUNNING")
  /\ NextSlot
  /\ UNCHANGED <<TaskQue, TaskCnt, Created, Status, TaskId, Workers, files,
                 NewTaskBox, MyCurTaskMsg>>

\* When every thread is done the file gets its name, the log of that name is
\* deleted, whichever of the tasks of this path wrote it.
\* Before that, scheduleThread may restart a thread that failed and wait for
\* ConnectingCond, which nothing signals: the GUI thread hangs.
ProcessRunningTask ==
  /\ AtTask("RUNNING")
  /\ \/ /\ Workers[This] \in {"alldone", "gone"}
        /\ Status' = [Status EXCEPT ![This] = "FINISHED"]
        /\ LogFile' = [LogFile EXCEPT ![Path[This]] = FALSE]
        /\ Target' = [Target EXCEPT ![Path[This]] = This]
        /\ NextSlot
     \/ /\ Workers[This] \notin {"alldone", "gone"}
        /\ NextSlot
        /\ UNCHANGED <<Status, LogFile, Target>>
     \/ /\ Workers[This] = "live"
        /\ cursor' = Hung
        /\ UNCHANGED <<Status, LogFile, Target>>
  /\ UNCHANGED <<TaskQue, TaskCnt, Created, TaskId, Workers, Path, NewTaskBox, MyCurTaskMsg>>

\* Mutants of RetireTask: the slot keeps its pointer; the selected message
\* is retired in place of the task's own.
RetireTaskKeepsSlot ==
  /\ \E msg \in FindTaskMsgById(TaskId[This]) :
       /\ NewTaskBox' = NewTaskBox \ {msg}
       /\ MyCurTaskMsg' = IF MyCurTaskMsg = msg THEN NoTask ELSE MyCurTaskMsg
  /\ Status' = [Status EXCEPT ![This] = "freed"]
  /\ TaskCnt' = TaskCnt - 1
  /\ UNCHANGED <<TaskQue, Created, TaskId, Workers, files>>

RetireTaskSelected ==
  /\ NewTaskBox' = NewTaskBox \ {MyCurTaskMsg}
  /\ MyCurTaskMsg' = NoTask
  /\ Status' = [Status EXCEPT ![This] = "freed"]
  /\ TaskQue' = [TaskQue EXCEPT ![TaskId[This]] = NoTask]
  /\ TaskCnt' = TaskCnt - 1
  /\ UNCHANGED <<Created, TaskId, Workers, files>>

\* The message found by the task's id leaves NewTaskBox (and the selection
\* with it), then DeleteTask frees the task and its slot.
RetireTask ==
  /\ \E msg \in FindTaskMsgById(TaskId[This]) :
       /\ NewTaskBox' = NewTaskBox \ {msg}
       /\ MyCurTaskMsg' = IF MyCurTaskMsg = msg THEN NoTask ELSE MyCurTaskMsg
  /\ Status' = [Status EXCEPT ![This] = "freed"]
  /\ TaskQue' = [TaskQue EXCEPT ![TaskId[This]] = NoTask]
  /\ TaskCnt' = TaskCnt - 1
  /\ UNCHANGED <<Created, TaskId, Workers, files>>

ProcessFinshedTask == AtTask("FINISHED") /\ RetireTask /\ NextSlot

ProcessDeadTask == AtTask("DEAD") /\ RetireTask /\ NextSlot

\* loadLogFile fails without a readable log file; the task stays in RESUME.
ProcessResumeTask ==
  /\ AtTask("RESUME")
  /\ NextSlot
  /\ \/ LogFile[Path[This]] /\ SwitchToTask(This)
     \/ UNCHANGED <<Status, Workers>>
  /\ UNCHANGED <<TaskQue, TaskCnt, Created, TaskId, files, NewTaskBox, MyCurTaskMsg>>

\* terminateThreads cancels every pthread (asynchronous cancellation).
ProcessStopedTask ==
  /\ AtTask("STOP")
  /\ NextSlot
  /\ Workers' = [Workers EXCEPT ![This] = "none"]
  /\ Status' = [Status EXCEPT ![This] = "ZOMBIE"]
  /\ UNCHANGED <<TaskQue, TaskCnt, Created, TaskId, files, NewTaskBox, MyCurTaskMsg>>

\* ProcessZombieTask and ProcessConnFailTask do nothing.
ProcessInertTask ==
  /\ \E ts \in {"ZOMBIE", "CONNFAIL"} : AtTask(ts)
  /\ NextSlot
  /\ UNCHANGED <<TaskQue, TaskCnt, Created, Status, TaskId, Workers, files,
                 NewTaskBox, MyCurTaskMsg>>

ScheduleTask ==
  \/ timerEvent \/ SkipNullSlot \/ ScheduleIdle \/ ProcessStartTask
  \/ ProcessRunningTask \/ ProcessFinshedTask \/ ProcessDeadTask
  \/ ProcessResumeTask \/ ProcessStopedTask \/ ProcessInertTask

-----------------------------------------------------------------------------
(* The threads of a task *)

WorkersStep(t) ==
  /\ \/ Workers[t] = "live" /\ Workers' = [Workers EXCEPT ![t] = "alldone"]
     \/ Workers[t] = "alldone" /\ Workers' = [Workers EXCEPT ![t] = "gone"]
     \/ Workers[t] = "live" /\ Workers' = [Workers EXCEPT ![t] = "failed"]
  /\ UNCHANGED <<TaskQue, TaskCnt, Created, Status, TaskId, files,
                 NewTaskBox, MyCurTaskMsg, cursor>>

UserCommand ==
  \/ ProcessNewTask \/ dlStart \/ dlStop \/ dlRemove \/ fileExit
  \/ \E m \in NewTaskBox \cup {NoTask} : slotMessageChanged(m)

Next == UserCommand \/ ScheduleTask \/ \E t \in Tasks : WorkersStep(t)

\* The timer fires every second and ScheduleTask runs to its end, unless it
\* hangs.
Fairness == WF_vars(ScheduleTask)

Spec == Init /\ [][Next]_vars /\ Fairness

-----------------------------------------------------------------------------
(* Properties *)

TypeOK ==
  /\ TaskQue \in [Slots -> Tasks \cup {NoTask}]
  /\ TaskCnt \in Int
  /\ Created \in 0 .. MaxCreated
  /\ Status \in [Tasks -> TaskStatus]
  /\ TaskId \in [Tasks -> Slots \cup {WildId}]
  /\ Workers \in [Tasks -> WorkersPhase]
  /\ Path \in [Tasks -> Tasks]
  /\ LogFile \in [Tasks -> BOOLEAN]
  /\ Target \in [Tasks -> Tasks \cup {NoTask}]
  /\ NewTaskBox \subseteq Tasks
  /\ MyCurTaskMsg \in Tasks \cup {NoTask}
  /\ cursor \in Slots \cup {AtEventLoop, HasQuit, Hung}

(***************************************************************************)
(* A slot never holds a dangling pointer, and the task in a slot knows     *)
(* that slot: DeleteTask clears TaskQue[This->getTaskId()], so a task with *)
(* another slot's id would leave its own slot dangling and lose the other  *)
(* task.                                                                   *)
(***************************************************************************)
SlotsOwnTheirTasks ==
  \A i \in Slots : TaskQue[i] # NoTask =>
    /\ TaskId[TaskQue[i]] = i
    /\ Status[TaskQue[i]] \notin {"none", "freed"}

(***************************************************************************)
(* TaskCnt, which ProcessNewTask compares with MAX_TASK_NUM, is the number *)
(* of occupied slots through every creation, deletion and exit.            *)
(***************************************************************************)
TaskCntIsExact == TaskCnt = Cardinality({i \in Slots : TaskQue[i] # NoTask})

(***************************************************************************)
(* A task that a handler may hand to SwitchToTask has no pthread left from *)
(* an earlier run, so no block is ever downloaded by two pthreads that     *)
(* share one TaskThread object, and a ZOMBIE task has stopped for good.    *)
(***************************************************************************)
OneCrewPerTask ==
  \A t \in Tasks : Status[t] \in {"IDLE", "START", "RESUME", "ZOMBIE", "CONNFAIL"}
    => Workers[t] = "none"

(***************************************************************************)
(* The queue of tasks is sound: with the types, no slot dangles, TaskCnt   *)
(* counts the slots in use, and no task has two crews of pthreads.         *)
(***************************************************************************)
TasksInv == TypeOK /\ SlotsOwnTheirTasks /\ TaskCntIsExact /\ OneCrewPerTask

(***************************************************************************)
(* Whatever the order of stop and finish, a stopped task keeps the log     *)
(* file that dlStart insists on, so it can be resumed, unless another task *)
(* that is saved under the same name has finished: ProcessNewTask only     *)
(* asks for a finished file of that name, so two queued tasks may share a  *)
(* log, and the first of them that is done deletes it.                     *)
(***************************************************************************)
StoppedTasksKeepTheirLog ==
  \A t \in Tasks : Status[t] \in {"STOP", "ZOMBIE", "RESUME"} =>
    LogFile[Path[t]] \/ Target[Path[t]] \notin {NoTask, t}

(***************************************************************************)
(* Every queued task can be found in NewTaskBox by its id: FindTaskMsgById *)
(* has no return statement for the case that no message matches, and its   *)
(* callers use the result at once.                                         *)
(***************************************************************************)
MessageAlwaysFound ==
  cursor # HasQuit =>
    \A i \in Slots : TaskQue[i] # NoTask => \E m \in NewTaskBox : TaskId[m] = i

(***************************************************************************)
(* What the user asked for happens unless the GUI thread hangs: a stopped  *)
(* task becomes a ZOMBIE or is deleted.                                    *)
(***************************************************************************)
StopTakesEffect ==
  \A t \in Tasks : Status[t] = "STOP" ~> Status[t] \in {"ZOMBIE", "freed"} \/ cursor = Hung

(***************************************************************************)
(* A removed task is deleted, whatever happens to its slot meanwhile.      *)
(***************************************************************************)
RemoveTakesEffect ==
  \A t \in Tasks : Status[t] = "DEAD" ~> Status[t] = "freed" \/ cursor = Hung

(***************************************************************************)
(* Both commands, given for any task, take effect in the end.              *)
(***************************************************************************)
CommandsTakeEffect == StopTakesEffect /\ RemoveTakesEffect

(***************************************************************************)
(* A download whose threads are all done ends as a finished, retired task, *)
(* unless the user interferes with a stop or the GUI thread hangs.         *)
(***************************************************************************)
CompletedTaskRetires ==
  \A t \in Tasks :
    (Status[t] = "RUNNING" /\ Workers[t] \in {"alldone", "gone"})
      ~> (Status[t] \in {"STOP", "freed"} \/ cursor = Hung)

(***************************************************************************)
(* No more than MaxRunning tasks run at once (max_task_num=5 in wdget.ini, *)
(* the literal 5 in ScheduleTask).                                         *)
(***************************************************************************)
RunningLimitRespected == QueryRunningTaskCnt <= MaxRunning

(***************************************************************************)
(* A task is deleted only when no pthread uses it any more; Task.h says of *)
(* TSK_DEAD: "before be cleanup completely".                               *)
(***************************************************************************)
DeletedTasksHaveNoThreads ==
  cursor # HasQuit =>
    \A t \in Tasks : Status[t] = "freed" => Workers[t] \notin {"live", "alldone"}
=============================================================================
