---------------------------- MODULE Tasks_proof ----------------------------
(***************************************************************************)
(* Proofs about the tasks.  First, the invariants of TaskManager hold for   *)
(* every number of slots, every limit on running tasks and every number of  *)
(* tasks created.  Then the session that a thread of a task, its reader of  *)
(* the file's information or its crawler holds with an FTP server: for      *)
(* every number of attempts, size of the file and position it stays in step *)
(* where it has to.  Last, the session with an HTTP server: for all pages    *)
(* the servers may hold and every limit on redirections, a size is that of   *)
(* the response that is judged, and an accepted page is whole.              *)
(***************************************************************************)
EXTENDS TaskManager, MCSessions, Blocks_proof, FiniteSetTheorems, SequenceTheorems, TLAPS

-----------------------------------------------------------------------------
(* The inductive invariant: the properties of TaskManager and the facts on  *)
(* which they depend from one step to the next.                             *)

\* A task in a slot has its own message in NewTaskBox.
QueuedTasksAreShown ==
  \A i \in Slots : TaskQue[i] # NoTask => TaskQue[i] \in NewTaskBox

\* Tasks that are not allocated yet have neither status nor pthreads.
FreshTasks ==
  \A t \in Tasks : t > Created => Status[t] = "none" /\ Workers[t] = "none"

\* The tasks that have given their file its name are done.
Done == {"FINISHED", "DEAD", "freed"}

NamersAreDone ==
  \A p \in Tasks : Target[p] # NoTask => Status[Target[p]] \in Done

\* The log of the path of t is there, or another task of the path has finished.
Kept(t, logs) == logs[Path[t]] \/ Target[Path[t]] \notin {NoTask, t}

HasLog(t) == Kept(t, LogFile)

\* A running task has its log too, until it is found complete.
LogsAreKept ==
  \A t \in Tasks : Status[t] \in {"RUNNING", "STOP", "ZOMBIE", "RESUME"} => HasLog(t)

IInv ==
  /\ TypeOK
  /\ SlotsOwnTheirTasks
  /\ QueuedTasksAreShown
  /\ FreshTasks
  /\ OneCrewPerTask
  /\ NamersAreDone
  /\ LogsAreKept
  /\ TaskCntIsExact

(***************************************************************************)
(* GetTaskById of the selected message is a queued task or NULL.           *)
(***************************************************************************)
LEMMA CurrentTaskIsQueued ==
  ASSUME TypeOK, CurrentTask # NoTask
  PROVE  CurrentTask \in Tasks /\ \E i \in Slots : TaskQue[i] = CurrentTask
<1>1. /\ MyCurTaskMsg # NoTask
      /\ TaskId[MyCurTaskMsg] \in Slots
      /\ CurrentTask = TaskQue[TaskId[MyCurTaskMsg]]
  BY DEF CurrentTask
<1> QED
  BY <1>1 DEF TypeOK

-----------------------------------------------------------------------------
(* The initial state *)

(***************************************************************************)
(* The invariant holds of the empty queue of a new TTaskManager.           *)
(***************************************************************************)
LEMMA InitEstablishesIInv == Init => IInv
<1> SUFFICES ASSUME Init PROVE IInv
  OBVIOUS
<1> USE MaxTaskNumAssumption, MaxCreatedAssumption
<1>1. TypeOK
  BY DEF Init, TypeOK, Slots, Tasks, NoTask, AtEventLoop, WildId, TaskStatus, WorkersPhase
<1>2. TaskCntIsExact
  <2>1. {i \in Slots : TaskQue[i] # NoTask} = {}
    BY DEF Init
  <2> QED
    BY <2>1, FS_EmptySet DEF Init, TaskCntIsExact
<1> QED
  BY <1>1, <1>2 DEF Init, IInv, SlotsOwnTheirTasks, QueuedTasksAreShown, FreshTasks,
     OneCrewPerTask, NamersAreDone, LogsAreKept

-----------------------------------------------------------------------------
(* The steps *)

(***************************************************************************)
(* TaskQue is an array: any set of its slots is finite.                    *)
(***************************************************************************)
LEMMA SlotSetsAreFinite == \A Q \in SUBSET Slots : IsFiniteSet(Q)
<1>1. IsFiniteSet(Slots)
  BY MaxTaskNumAssumption, FS_Interval DEF Slots
<1> QED
  BY <1>1, FS_Subset

(***************************************************************************)
(* TaskCnt stays exact while neither it nor the queue changes.             *)
(***************************************************************************)
LEMMA SameQueueSameCount ==
  ASSUME TaskCntIsExact, UNCHANGED <<TaskQue, TaskCnt>>
  PROVE  TaskCntIsExact'
BY DEF TaskCntIsExact

(***************************************************************************)
(* ProcessNewTask: the task that gets a slot is a fresh one, so it is in   *)
(* no other slot, and the slot it gets was empty.                          *)
(***************************************************************************)
LEMMA NewTaskStep ==
  ASSUME IInv, ProcessNewTask
  PROVE  IInv'
<1> USE MaxTaskNumAssumption, MaxCreatedAssumption
<1> DEFINE t == Created + 1
<1>1. /\ t \in Tasks
      /\ Status[t] = "none" /\ Workers[t] = "none"
      /\ \A i \in Slots : TaskQue[i] # t
  <2>1. t \in Tasks /\ t > Created /\ t # NoTask
    BY DEF ProcessNewTask, IInv, TypeOK, Tasks, NoTask
  <2>2. Status[t] = "none" /\ Workers[t] = "none"
    BY <2>1 DEF IInv, FreshTasks
  <2>3. \A i \in Slots : TaskQue[i] # t
    BY <2>1, <2>2 DEF IInv, SlotsOwnTheirTasks
  <2> QED
    BY <2>1, <2>2, <2>3
<1>2. TypeOK'
  <2>1. AddTask(t)
    BY DEF ProcessNewTask
  <2>2. /\ TaskQue' \in [Slots -> Tasks \cup {NoTask}]
        /\ TaskId' \in [Tasks -> Slots \cup {WildId}]
        /\ TaskCnt' \in Int
    <3> HIDE DEF t
    <3> QED
      BY <1>1, <2>1 DEF AddTask, FindFirstNullSlot, NullSlots, IInv, TypeOK
  <2>3. /\ Status' \in [Tasks -> TaskStatus]
        /\ NewTaskBox' \subseteq Tasks
        /\ MyCurTaskMsg' \in Tasks \cup {NoTask}
    BY <1>1 DEF ProcessNewTask, IInv, TypeOK, TaskStatus
  <2>4. Created' \in 0 .. MaxCreated
    BY <1>1 DEF ProcessNewTask, IInv, TypeOK, Tasks
  <2>5. Path' \in [Tasks -> Tasks]
    <3>1. {t} \cup {Path[u] : u \in 1 .. Created} \subseteq Tasks
      BY <1>1 DEF IInv, TypeOK, Tasks
    <3>2. PICK p \in Tasks : Path' = [Path EXCEPT ![t] = p]
      BY <3>1 DEF ProcessNewTask
    <3> QED
      BY <1>1, <3>2 DEF IInv, TypeOK
  <2>6. /\ LogFile' \in [Tasks -> BOOLEAN] /\ Target' \in [Tasks -> Tasks \cup {NoTask}]
        /\ Workers' \in [Tasks -> WorkersPhase] /\ cursor' \in Slots \cup {AtEventLoop, HasQuit, Hung}
    BY DEF ProcessNewTask, IInv, TypeOK
  <2> QED
    BY <2>2, <2>3, <2>4, <2>5, <2>6 DEF TypeOK
<1>3. SlotsOwnTheirTasks'
  BY <1>1 DEF ProcessNewTask, AddTask, FindFirstNullSlot, NullSlots, IInv, TypeOK,
     SlotsOwnTheirTasks
<1>4. QueuedTasksAreShown'
  BY <1>1 DEF ProcessNewTask, AddTask, FindFirstNullSlot, NullSlots, IInv, TypeOK,
     QueuedTasksAreShown
<1>5. FreshTasks'
  BY <1>1 DEF ProcessNewTask, IInv, TypeOK, FreshTasks, Tasks
<1>6. OneCrewPerTask' /\ NamersAreDone'
  BY <1>1 DEF ProcessNewTask, IInv, TypeOK, OneCrewPerTask, NamersAreDone, Done
<1>8. LogsAreKept'
  <2>1. \E p : Path' = [Path EXCEPT ![t] = p]
    BY DEF ProcessNewTask
  <2>2. \A u \in Tasks \ {t} : Path'[u] = Path[u] /\ Status'[u] = Status[u]
    BY <2>1 DEF ProcessNewTask, IInv, TypeOK
  <2>3. Status'[t] = "IDLE" /\ LogFile' = LogFile /\ Target' = Target
    BY <1>1 DEF ProcessNewTask, IInv, TypeOK
  <2> HIDE DEF t
  <2> QED
    BY <2>2, <2>3 DEF IInv, LogsAreKept, HasLog, Kept
<1>7. TaskCntIsExact'
  <2>1. CASE UNCHANGED <<TaskQue, TaskCnt>>
    BY <2>1, SameQueueSameCount DEF IInv
  <2>2. CASE \E i \in FindFirstNullSlot : /\ TaskQue' = [TaskQue EXCEPT ![i] = t]
                                         /\ TaskCnt' = TaskCnt + 1
    <3>1. PICK i \in Slots : /\ TaskQue[i] = NoTask
                             /\ TaskQue' = [TaskQue EXCEPT ![i] = t]
                             /\ TaskCnt' = TaskCnt + 1
      BY <2>2 DEF FindFirstNullSlot, NullSlots
    <3> DEFINE Q == {j \in Slots : TaskQue[j] # NoTask}
    <3>2. Q \in SUBSET Slots /\ i \notin Q
      BY <3>1
    <3>3. Q' = Q \cup {i}
      BY <1>1, <3>1 DEF IInv, TypeOK, NoTask, Tasks
    <3>4. TaskCnt = Cardinality(Q)
      BY DEF IInv, TaskCntIsExact
    <3>5. Cardinality(Q \cup {i}) = Cardinality(Q) + 1
      <4> HIDE DEF Q
      <4> QED BY <3>2, SlotSetsAreFinite, FS_AddElement
    <3> QED
      BY <3>1, <3>3, <3>4, <3>5 DEF TaskCntIsExact
  <2> QED
    BY <2>1, <2>2 DEF ProcessNewTask, AddTask
<1> QED
  BY <1>2, <1>3, <1>4, <1>5, <1>6, <1>7, <1>8 DEF IInv

(***************************************************************************)
(* RetireTask: the slot that DeleteTask clears is the one ScheduleTask is  *)
(* at, and the message that leaves NewTaskBox has that slot's id.          *)
(***************************************************************************)
LEMMA RetireStep ==
  ASSUME IInv, RetireTask, NextSlot, cursor \in Slots, TaskQue[cursor] # NoTask
  PROVE  IInv'
<1> USE MaxTaskNumAssumption, MaxCreatedAssumption
<1>1. /\ This \in Tasks
      /\ TaskId[This] = cursor
      /\ Status[This] # "none"
      /\ \A i \in Slots \ {cursor} : TaskQue[i] # This
  BY DEF This, IInv, TypeOK, SlotsOwnTheirTasks
<1>2. /\ TaskQue' = [TaskQue EXCEPT ![cursor] = NoTask]
      /\ Status' = [Status EXCEPT ![This] = "freed"]
      /\ TaskCnt' = TaskCnt - 1
      /\ UNCHANGED <<Created, TaskId, Workers, files>>
  BY <1>1 DEF RetireTask
<1>3. PICK msg \in NewTaskBox :
        /\ TaskId[msg] = cursor
        /\ NewTaskBox' = NewTaskBox \ {msg}
        /\ MyCurTaskMsg' = IF MyCurTaskMsg = msg THEN NoTask ELSE MyCurTaskMsg
  BY <1>1 DEF RetireTask, FindTaskMsgById
<1>4. TypeOK'
  BY <1>1, <1>2, <1>3 DEF files, NextSlot, IInv, TypeOK, Slots, AtEventLoop, TaskStatus
<1>5. SlotsOwnTheirTasks'
  BY <1>1, <1>2 DEF IInv, TypeOK, SlotsOwnTheirTasks
<1>6. QueuedTasksAreShown'
  BY <1>1, <1>2, <1>3 DEF IInv, TypeOK, SlotsOwnTheirTasks, QueuedTasksAreShown
<1>7. FreshTasks'
  BY <1>1, <1>2 DEF IInv, TypeOK, FreshTasks
<1>8. OneCrewPerTask' /\ NamersAreDone' /\ LogsAreKept'
  BY <1>1, <1>2 DEF files, IInv, TypeOK, OneCrewPerTask, NamersAreDone, Done, LogsAreKept, HasLog, Kept
<1>9. TaskCntIsExact'
  <2> DEFINE Q == {j \in Slots : TaskQue[j] # NoTask}
  <2>1. Q \in SUBSET Slots /\ cursor \in Q
    OBVIOUS
  <2>2. Q' = Q \ {cursor}
    BY <1>2 DEF IInv, TypeOK
  <2>3. TaskCnt = Cardinality(Q)
    BY DEF IInv, TaskCntIsExact
  <2>4. Cardinality(Q \ {cursor}) = Cardinality(Q) - 1
    <3> HIDE DEF Q
    <3> QED BY <2>1, SlotSetsAreFinite, FS_RemoveElement
  <2> QED
    BY <1>2, <2>2, <2>3, <2>4 DEF TaskCntIsExact
<1> QED
  BY <1>4, <1>5, <1>6, <1>7, <1>8, <1>9 DEF IInv

(***************************************************************************)
(* A step that only changes the status of one queued task, to a status     *)
(* from which its threads and its log file follow.  The commands and most  *)
(* of the handlers of ScheduleTask are such steps.                         *)
(***************************************************************************)
LEMMA StatusStep ==
  ASSUME IInv,
         NEW i \in Slots, TaskQue[i] # NoTask,
         NEW s \in TaskStatus \ {"none", "freed"},
         Status' = [Status EXCEPT ![TaskQue[i]] = s],
         Workers' \in [Tasks -> WorkersPhase],
         LogFile' \in [Tasks -> BOOLEAN],
         \A p \in Tasks : LogFile[p] => LogFile'[p],
         \A t \in Tasks \ {TaskQue[i]} : Workers'[t] = Workers[t],
         s = "DEAD" \/ Status[TaskQue[i]] \notin Done,
         s \in {"IDLE", "START", "RESUME", "ZOMBIE", "CONNFAIL"} => Workers'[TaskQue[i]] = "none",
         s \in {"RUNNING", "STOP", "ZOMBIE", "RESUME"} => Kept(TaskQue[i], LogFile'),
         cursor' \in Slots \cup {AtEventLoop, HasQuit, Hung},
         UNCHANGED <<TaskQue, TaskCnt, Created, TaskId, Path, Target, NewTaskBox, MyCurTaskMsg>>
  PROVE  IInv'
<1> DEFINE t == TaskQue[i]
<1>1. t \in Tasks /\ Status[t] # "none" /\ ~(t > Created)
  BY DEF IInv, TypeOK, SlotsOwnTheirTasks, FreshTasks
<1>2. TypeOK'
  BY <1>1 DEF IInv, TypeOK
<1>3. SlotsOwnTheirTasks' /\ QueuedTasksAreShown'
  BY <1>1 DEF IInv, TypeOK, SlotsOwnTheirTasks, QueuedTasksAreShown
<1>4. FreshTasks'
  BY <1>1 DEF IInv, TypeOK, FreshTasks
<1>5. OneCrewPerTask'
  BY <1>1 DEF IInv, TypeOK, OneCrewPerTask
<1>7. NamersAreDone'
  BY <1>1 DEF IInv, TypeOK, NamersAreDone, Done
<1>8. LogsAreKept'
  <2> SUFFICES ASSUME NEW u \in Tasks, Status'[u] \in {"RUNNING", "STOP", "ZOMBIE", "RESUME"}
               PROVE  HasLog(u)'
    BY DEF LogsAreKept
  <2>1. CASE u = t
    <3>1. Status'[u] = s
      BY <1>1, <2>1 DEF IInv, TypeOK
    <3> QED
      BY <2>1, <3>1 DEF HasLog, Kept
  <2>2. CASE u # t
    <3>1. HasLog(u) /\ Path[u] \in Tasks
      BY <1>1, <2>2 DEF IInv, TypeOK, LogsAreKept
    <3> QED
      BY <3>1 DEF HasLog, Kept
  <2> QED
    BY <2>1, <2>2
<1>6. TaskCntIsExact'
  BY SameQueueSameCount DEF IInv
<1> QED
  BY <1>2, <1>3, <1>4, <1>5, <1>6, <1>7, <1>8 DEF IInv

(***************************************************************************)
(* A task of the queue is done: its file takes the name, and the log goes. *)
(* A task that shares the path has now another task's file in its way.     *)
(***************************************************************************)
LEMMA FinishStep ==
  ASSUME IInv,
         NEW i \in Slots, TaskQue[i] # NoTask,
         Status' = [Status EXCEPT ![TaskQue[i]] = "FINISHED"],
         LogFile' = [LogFile EXCEPT ![Path[TaskQue[i]]] = FALSE],
         Target' = [Target EXCEPT ![Path[TaskQue[i]]] = TaskQue[i]],
         cursor' \in Slots \cup {AtEventLoop, HasQuit, Hung},
         UNCHANGED <<TaskQue, TaskCnt, Created, TaskId, Workers, Path, NewTaskBox, MyCurTaskMsg>>
  PROVE  IInv'
<1> DEFINE t == TaskQue[i]
<1>1. t \in Tasks /\ t # NoTask /\ Status[t] # "none" /\ ~(t > Created) /\ Path[t] \in Tasks
  BY DEF IInv, TypeOK, SlotsOwnTheirTasks, FreshTasks
<1>2. TypeOK'
  BY <1>1 DEF IInv, TypeOK, TaskStatus
<1>3. SlotsOwnTheirTasks' /\ QueuedTasksAreShown'
  BY <1>1 DEF IInv, TypeOK, SlotsOwnTheirTasks, QueuedTasksAreShown
<1>4. FreshTasks' /\ OneCrewPerTask'
  BY <1>1 DEF IInv, TypeOK, FreshTasks, OneCrewPerTask
<1>5. NamersAreDone'
  BY <1>1 DEF IInv, TypeOK, NamersAreDone, Done
<1>6. LogsAreKept'
  <2> SUFFICES ASSUME NEW u \in Tasks, Status'[u] \in {"RUNNING", "STOP", "ZOMBIE", "RESUME"}
               PROVE  HasLog(u)'
    BY DEF LogsAreKept
  <2>1. u # t
    BY <1>1 DEF IInv, TypeOK
  <2>2. HasLog(u) /\ Path[u] \in Tasks
    BY <1>1, <2>1 DEF IInv, TypeOK, LogsAreKept
  <2>3. CASE Path[u] = Path[t]
    <3>1. Target'[Path'[u]] = t
      BY <1>1, <2>3 DEF IInv, TypeOK
    <3> HIDE DEF t
    <3> QED
      BY <1>1, <2>1, <3>1 DEF HasLog, Kept
  <2>4. CASE Path[u] # Path[t]
    BY <1>1, <2>2, <2>4 DEF IInv, TypeOK, HasLog, Kept
  <2> QED
    BY <2>3, <2>4
<1>7. TaskCntIsExact'
  BY SameQueueSameCount DEF IInv
<1> QED
  BY <1>2, <1>3, <1>4, <1>5, <1>6, <1>7 DEF IInv

(***************************************************************************)
(* A step that leaves the tasks alone.                                     *)
(***************************************************************************)
LEMMA IdleStep ==
  ASSUME IInv,
         UNCHANGED <<TaskQue, TaskCnt, Created, Status, TaskId, Workers, files, NewTaskBox>>,
         MyCurTaskMsg' \in Tasks \cup {NoTask},
         cursor' \in Slots \cup {AtEventLoop, HasQuit, Hung}
  PROVE  IInv'
BY SameQueueSameCount DEF files, IInv, TypeOK, SlotsOwnTheirTasks, QueuedTasksAreShown, FreshTasks,
   OneCrewPerTask, NamersAreDone, LogsAreKept, HasLog, Kept

(***************************************************************************)
(* fileExit empties the queue; only queued tasks change, and to "freed".   *)
(***************************************************************************)
LEMMA ExitStep ==
  ASSUME IInv, fileExit
  PROVE  IInv'
<1> USE MaxTaskNumAssumption, MaxCreatedAssumption
<1>1. TypeOK'
  BY DEF fileExit, files, IInv, TypeOK, TaskStatus
<1>2. SlotsOwnTheirTasks' /\ QueuedTasksAreShown'
  BY DEF fileExit, SlotsOwnTheirTasks, QueuedTasksAreShown
<1>3. FreshTasks'
  BY DEF fileExit, IInv, TypeOK, SlotsOwnTheirTasks, FreshTasks, Tasks, NoTask
<1>4. OneCrewPerTask' /\ NamersAreDone' /\ LogsAreKept'
  BY DEF fileExit, files, IInv, TypeOK, OneCrewPerTask, NamersAreDone, Done, LogsAreKept, HasLog, Kept
<1>5. TaskCntIsExact'
  <2>1. {i \in Slots : TaskQue'[i] # NoTask} = {}
    BY DEF fileExit
  <2> QED
    BY <2>1, FS_EmptySet DEF fileExit, TaskCntIsExact
<1> QED
  BY <1>1, <1>2, <1>3, <1>4, <1>5 DEF IInv

(***************************************************************************)
(* The threads move only where there are any, so never in a task whose     *)
(* status promises that there are none.                                    *)
(***************************************************************************)
LEMMA WorkersStepPreserves ==
  ASSUME IInv, NEW t \in Tasks, WorkersStep(t)
  PROVE  IInv'
<1>1. /\ Workers[t] # "none"
      /\ \E w \in WorkersPhase : Workers' = [Workers EXCEPT ![t] = w]
  BY DEF WorkersStep, WorkersPhase
<1>2. UNCHANGED <<TaskQue, TaskCnt, Created, Status, TaskId, files, NewTaskBox,
                  MyCurTaskMsg, cursor>>
  BY DEF WorkersStep
<1>3. TypeOK' /\ FreshTasks' /\ OneCrewPerTask'
  BY <1>1, <1>2 DEF files, IInv, TypeOK, FreshTasks, OneCrewPerTask
<1> QED
  BY <1>2, <1>3, SameQueueSameCount DEF files, IInv, SlotsOwnTheirTasks, QueuedTasksAreShown,
     NamersAreDone, LogsAreKept, HasLog, Kept

(***************************************************************************)
(* A command that gives the current task another status.                   *)
(***************************************************************************)
LEMMA QueuedCommand ==
  ASSUME IInv,
         NEW i \in Slots, TaskQue[i] = CurrentTask, CurrentTask # NoTask,
         NEW s \in TaskStatus \ {"none", "freed"},
         NEW from, Command(from, s),
         s = "DEAD" \/ Status[CurrentTask] \notin Done,
         s \in {"IDLE", "START", "RESUME", "ZOMBIE", "CONNFAIL"} => Workers[CurrentTask] = "none",
         s \in {"RUNNING", "STOP", "ZOMBIE", "RESUME"} => HasLog(CurrentTask)
  PROVE  IInv'
<1> DEFINE t == CurrentTask
<1>1. /\ TaskQue[i] = t /\ t # NoTask /\ Status' = [Status EXCEPT ![t] = s]
      /\ UNCHANGED <<TaskQue, TaskCnt, Created, TaskId, Workers, files, NewTaskBox, MyCurTaskMsg, cursor>>
  BY DEF Command
<1>2. TypeOK /\ cursor \in Slots \cup {AtEventLoop, HasQuit, Hung}
  BY DEF IInv, TypeOK
<1>3. s \in {"RUNNING", "STOP", "ZOMBIE", "RESUME"} => Kept(TaskQue[i], LogFile')
  BY <1>1 DEF HasLog, Kept, files
<1> HIDE DEF t
<1> QED
  BY <1>1, <1>2, <1>3, StatusStep DEF TypeOK, files, t

(***************************************************************************)
(* The commands of the user: dlStop needs the log file of a running task,  *)
(* dlStart that a ZOMBIE has no threads.                                   *)
(***************************************************************************)
LEMMA CommandStep ==
  ASSUME IInv, dlStart \/ dlStop \/ dlRemove
  PROVE  IInv'
<1>1. CurrentTask # NoTask
  BY DEF dlStart, dlStop, dlRemove, Command
<1>2. PICK i \in Slots : TaskQue[i] = CurrentTask
  BY <1>1, CurrentTaskIsQueued DEF IInv
<1>3. CurrentTask \in Tasks
  BY <1>1, CurrentTaskIsQueued DEF IInv
<1>4. CASE dlStart
  <2>1. HasLog(CurrentTask)
    BY <1>1, <1>4 DEF dlStart, HasLog, Kept
  <2> QED
    BY <1>2, <1>3, <1>4, <2>1, QueuedCommand DEF dlStart, Command, Done, TaskStatus, IInv, OneCrewPerTask
<1>5. CASE dlStop
  BY <1>2, <1>3, <1>5, QueuedCommand DEF dlStop, Command, Done, TaskStatus, IInv, LogsAreKept
<1>6. CASE dlRemove
  BY <1>2, <1>3, <1>6, QueuedCommand DEF dlRemove, Command, TaskStatus
<1> QED
  BY <1>4, <1>5, <1>6

(***************************************************************************)
(* ScheduleTask: one step per handler.                                     *)
(***************************************************************************)
LEMMA ScheduleStep ==
  ASSUME IInv, ScheduleTask
  PROVE  IInv'
<1> USE MaxTaskNumAssumption
<1>1. NextSlot /\ cursor \in Slots => cursor' \in Slots \cup {AtEventLoop, HasQuit, Hung}
  BY DEF NextSlot, Slots, AtEventLoop
<1>2. \A ts : AtTask(ts) => /\ cursor \in Slots
                           /\ TaskQue[cursor] # NoTask
                           /\ This \in Tasks
                           /\ Status[This] = ts
  BY DEF AtTask, This, IInv, TypeOK
<1>3. CASE timerEvent \/ SkipNullSlot \/ ProcessInertTask
  BY <1>1, <1>2, <1>3, IdleStep DEF timerEvent, SkipNullSlot, ProcessInertTask, IInv, TypeOK,
     Slots
<1>4. CASE ScheduleIdle
  <2>1. LimitRunning("IDLE") \in {"IDLE", "START"}
    BY DEF LimitRunning
  <2>2. /\ cursor \in Slots /\ TaskQue[cursor] # NoTask
        /\ LimitRunning("IDLE") \in TaskStatus \ {"none", "freed"}
        /\ LimitRunning("IDLE") \notin {"RUNNING", "STOP", "ZOMBIE", "RESUME"}
        /\ cursor' \in Slots \cup {AtEventLoop, HasQuit, Hung}
    BY <1>1, <1>2, <1>4, <2>1 DEF ScheduleIdle, TaskStatus
  <2>3. Status[TaskQue[cursor]] \notin Done /\ Workers[TaskQue[cursor]] = "none"
    BY <1>2, <1>4 DEF ScheduleIdle, This, IInv, OneCrewPerTask, Done
  <2>4. /\ Status' = [Status EXCEPT ![TaskQue[cursor]] = LimitRunning("IDLE")]
        /\ UNCHANGED <<TaskQue, TaskCnt, Created, TaskId, Workers, Path, LogFile, Target, NewTaskBox, MyCurTaskMsg>>
    BY <1>4 DEF ScheduleIdle, This, files
  <2>5. Workers' \in [Tasks -> WorkersPhase] /\ LogFile' \in [Tasks -> BOOLEAN]
    BY <2>4 DEF IInv, TypeOK
  <2> HIDE DEF This
  <2> QED
    BY <2>2, <2>3, <2>4, <2>5, StatusStep
<1>5. CASE ProcessStartTask
  <2>1. LimitRunning("START") \in {"IDLE", "START"}
    BY DEF LimitRunning
  <2>2. Workers[This] = "none"
    BY <1>2, <1>5 DEF ProcessStartTask, IInv, OneCrewPerTask
  <2>3. CASE /\ \E st \in {"CONNFAIL", LimitRunning("START")} :
                  Status' = [Status EXCEPT ![This] = st]
             /\ LogFile' \in {LogFile, [LogFile EXCEPT ![Path[This]] = TRUE]}
             /\ UNCHANGED Workers
    <3>1. PICK st \in {"CONNFAIL", "IDLE", "START"} : Status' = [Status EXCEPT ![This] = st]
      BY <2>1, <2>3
    <3>2. /\ cursor \in Slots /\ TaskQue[cursor] # NoTask
          /\ st \in TaskStatus \ {"none", "freed"}
          /\ st \notin {"RUNNING", "STOP", "ZOMBIE", "RESUME", "DEAD"}
          /\ cursor' \in Slots \cup {AtEventLoop, HasQuit, Hung}
      BY <1>1, <1>2, <1>5, <3>1 DEF ProcessStartTask, TaskStatus
    <3>3. /\ Status[TaskQue[cursor]] \notin Done /\ Workers' = Workers
          /\ Workers'[TaskQue[cursor]] = "none"
      BY <1>2, <1>5, <2>2, <2>3 DEF ProcessStartTask, This, Done
    <3>4. /\ Workers' \in [Tasks -> WorkersPhase] /\ LogFile' \in [Tasks -> BOOLEAN]
          /\ \A p \in Tasks : LogFile[p] => LogFile'[p]
      BY <2>3, <3>3 DEF IInv, TypeOK
    <3>5. /\ Status' = [Status EXCEPT ![TaskQue[cursor]] = st]
          /\ UNCHANGED <<TaskQue, TaskCnt, Created, TaskId, Path, Target, NewTaskBox, MyCurTaskMsg>>
      BY <1>5, <3>1 DEF ProcessStartTask, This
    <3> QED
      BY <3>2, <3>3, <3>4, <3>5, StatusStep
  <2>4. CASE /\ LogFile' = [LogFile EXCEPT ![Path[This]] = TRUE]
             /\ SwitchToTask(This)
    <3>1. UNCHANGED <<TaskQue, TaskCnt, Created, TaskId, Path, Target, NewTaskBox, MyCurTaskMsg>>
      BY <1>5 DEF ProcessStartTask
    <3>2. Kept(TaskQue[cursor], LogFile')
      BY <1>2, <1>5, <2>4, <3>1 DEF ProcessStartTask, This, HasLog, Kept, IInv, TypeOK
    <3>3. /\ cursor \in Slots /\ TaskQue[cursor] # NoTask
          /\ "RUNNING" \in TaskStatus \ {"none", "freed"}
          /\ cursor' \in Slots \cup {AtEventLoop, HasQuit, Hung}
      BY <1>1, <1>2, <1>5 DEF ProcessStartTask, TaskStatus
    <3>4. Status[TaskQue[cursor]] \notin Done
      BY <1>2, <1>5 DEF ProcessStartTask, This, Done
    <3>5. /\ Status' = [Status EXCEPT ![TaskQue[cursor]] = "RUNNING"]
          /\ Workers' \in [Tasks -> WorkersPhase]
          /\ \A t \in Tasks \ {TaskQue[cursor]} : Workers'[t] = Workers[t]
      BY <1>2, <1>5, <2>4 DEF ProcessStartTask, SwitchToTask, This, IInv, TypeOK, WorkersPhase
    <3>6. LogFile' \in [Tasks -> BOOLEAN] /\ \A p \in Tasks : LogFile[p] => LogFile'[p]
      BY <1>2, <1>5, <2>4 DEF ProcessStartTask, This, IInv, TypeOK
    <3> QED
      BY <3>1, <3>2, <3>3, <3>4, <3>5, <3>6, StatusStep
  <2> QED
    BY <1>5, <2>3, <2>4 DEF ProcessStartTask
<1>6. CASE ProcessRunningTask
  <2>1. CASE UNCHANGED <<Status, LogFile, Target>>
    BY <1>1, <1>2, <1>6, <2>1, IdleStep DEF ProcessRunningTask, files, IInv, TypeOK
  <2>2. CASE /\ Status' = [Status EXCEPT ![This] = "FINISHED"]
             /\ LogFile' = [LogFile EXCEPT ![Path[This]] = FALSE]
             /\ Target' = [Target EXCEPT ![Path[This]] = This]
             /\ NextSlot
    BY <1>1, <1>2, <1>6, <2>2, FinishStep DEF ProcessRunningTask, This
  <2> QED
    BY <1>6, <2>1, <2>2 DEF ProcessRunningTask
<1>7. CASE ProcessFinshedTask \/ ProcessDeadTask
  BY <1>2, <1>7, RetireStep DEF ProcessFinshedTask, ProcessDeadTask
<1>8. CASE ProcessResumeTask
  <2>1. CASE UNCHANGED <<Status, Workers>>
    BY <1>1, <1>2, <1>8, <2>1, IdleStep DEF ProcessResumeTask, IInv, TypeOK
  <2>2. CASE LogFile[Path[This]] /\ SwitchToTask(This)
    <3>1. UNCHANGED <<TaskQue, TaskCnt, Created, TaskId, files, NewTaskBox, MyCurTaskMsg>>
      BY <1>8 DEF ProcessResumeTask
    <3>2. Kept(TaskQue[cursor], LogFile')
      BY <2>2, <3>1 DEF This, HasLog, Kept, files
    <3>3. /\ cursor \in Slots /\ TaskQue[cursor] # NoTask
          /\ "RUNNING" \in TaskStatus \ {"none", "freed"}
          /\ cursor' \in Slots \cup {AtEventLoop, HasQuit, Hung}
      BY <1>1, <1>2, <1>8 DEF ProcessResumeTask, TaskStatus
    <3>4. Status[TaskQue[cursor]] \notin Done
      BY <1>2, <1>8 DEF ProcessResumeTask, This, Done
    <3>5. /\ Status' = [Status EXCEPT ![TaskQue[cursor]] = "RUNNING"]
          /\ Workers' \in [Tasks -> WorkersPhase]
          /\ \A t \in Tasks \ {TaskQue[cursor]} : Workers'[t] = Workers[t]
      BY <1>2, <1>8, <2>2 DEF ProcessResumeTask, SwitchToTask, This, IInv, TypeOK, WorkersPhase
    <3>6. LogFile' \in [Tasks -> BOOLEAN] /\ UNCHANGED <<Path, LogFile, Target>>
      BY <3>1 DEF IInv, TypeOK, files
    <3> QED
      BY <3>1, <3>2, <3>3, <3>4, <3>5, <3>6, StatusStep
  <2> QED
    BY <1>8, <2>1, <2>2 DEF ProcessResumeTask
<1>9. CASE ProcessStopedTask
  <2>1. Kept(TaskQue[cursor], LogFile')
    BY <1>2, <1>9 DEF ProcessStopedTask, This, IInv, LogsAreKept, HasLog, Kept, files
  <2>2. /\ Workers' \in [Tasks -> WorkersPhase]
        /\ Workers'[This] = "none"
        /\ \A t \in Tasks \ {This} : Workers'[t] = Workers[t]
    BY <1>2, <1>9 DEF ProcessStopedTask, IInv, TypeOK, WorkersPhase
  <2> QED
    BY <1>1, <1>2, <1>9, <2>1, <2>2, StatusStep DEF ProcessStopedTask, This, IInv, TypeOK,
       TaskStatus, Done, files
<1> QED
  BY <1>3, <1>4, <1>5, <1>6, <1>7, <1>8, <1>9 DEF ScheduleTask

(***************************************************************************)
(* Every step preserves the inductive invariant.                           *)
(***************************************************************************)
LEMMA NextPreservesIInv == IInv /\ [Next]_vars => IInv'
<1> SUFFICES ASSUME IInv, [Next]_vars PROVE IInv'
  OBVIOUS
<1>1. CASE ProcessNewTask
  BY <1>1, NewTaskStep
<1>2. CASE dlStart \/ dlStop \/ dlRemove
  BY <1>2, CommandStep
<1>3. CASE fileExit
  BY <1>3, ExitStep
<1>4. CASE \E m \in NewTaskBox \cup {NoTask} : slotMessageChanged(m)
  BY <1>4, IdleStep DEF slotMessageChanged, IInv, TypeOK
<1>5. CASE ScheduleTask
  BY <1>5, ScheduleStep
<1>6. CASE \E t \in Tasks : WorkersStep(t)
  BY <1>6, WorkersStepPreserves
<1>7. CASE UNCHANGED vars
  BY <1>7, IdleStep DEF vars, IInv, TypeOK
<1> QED
  BY <1>1, <1>2, <1>3, <1>4, <1>5, <1>6, <1>7 DEF Next, UserCommand

(***************************************************************************)
(* IInv is an invariant of the specification.                              *)
(***************************************************************************)
THEOREM InductiveInvariant == Spec => []IInv
BY InitEstablishesIInv, NextPreservesIInv, PTL DEF Spec

-----------------------------------------------------------------------------
(* The theorems *)

(***************************************************************************)
(* Type correctness of the task manager and the main window's scheduler.   *)
(***************************************************************************)
THEOREM TypeCorrect == Spec => []TypeOK
<1>1. IInv => TypeOK
  BY DEF IInv
<1> QED
  BY <1>1, InductiveInvariant, PTL

(***************************************************************************)
(* For any number of slots and tasks, TaskQue never holds a dangling       *)
(* pointer, and DeleteTask always clears the slot of the task it deletes.  *)
(***************************************************************************)
THEOREM NoDanglingSlot == Spec => []SlotsOwnTheirTasks
<1>1. IInv => SlotsOwnTheirTasks
  BY DEF IInv
<1> QED
  BY <1>1, InductiveInvariant, PTL

(***************************************************************************)
(* TaskCnt is the number of occupied slots, also after the tasks for which *)
(* AddTask found no slot.                                                  *)
(***************************************************************************)
THEOREM TaskCntCountsSlots == Spec => []TaskCntIsExact
<1>1. IInv => TaskCntIsExact
  BY DEF IInv
<1> QED
  BY <1>1, InductiveInvariant, PTL

(***************************************************************************)
(* No task is ever started while it has pthreads from an earlier start.    *)
(***************************************************************************)
THEOREM SingleCrew == Spec => []OneCrewPerTask
<1>1. IInv => OneCrewPerTask
  BY DEF IInv
<1> QED
  BY <1>1, InductiveInvariant, PTL

(***************************************************************************)
(* A stopped task can be resumed: its log file is there, unless another    *)
(* task that is saved under the same name has finished.                    *)
(***************************************************************************)
THEOREM StoppedCanResume == Spec => []StoppedTasksKeepTheirLog
<1>1. IInv => StoppedTasksKeepTheirLog
  BY DEF IInv, LogsAreKept, HasLog, Kept, StoppedTasksKeepTheirLog
<1> QED
  BY <1>1, InductiveInvariant, PTL

(***************************************************************************)
(* FindTaskMsgById never runs off the end of NewTaskBox for a queued task. *)
(***************************************************************************)
THEOREM MessageIsFound == Spec => []MessageAlwaysFound
<1>1. IInv => MessageAlwaysFound
  BY DEF IInv, SlotsOwnTheirTasks, QueuedTasksAreShown, MessageAlwaysFound
<1> QED
  BY <1>1, InductiveInvariant, PTL

(***************************************************************************)
(* The queue of tasks is sound between any two steps, for any numbers of    *)
(* slots and tasks.                                                         *)
(***************************************************************************)
THEOREM TasksAreSound == Spec => []TasksInv
<1>1. IInv => TasksInv
  BY DEF IInv, TasksInv
<1> QED
  BY <1>1, InductiveInvariant, PTL

-----------------------------------------------------------------------------
(* The FTP client. *)

Lines == [first : 0 .. 5, ends : BOOLEAN, of : Ftp!Commands \cup {"none"}]
Sessions == [type : {"A", "I"}, inDir : BOOLEAN, from : Nat, sending : BOOLEAN]

FtpTypes ==
    /\ Caller \in {"info", "thread", "list", "fetch"}
    /\ Url \in {"dir", "root", "noFile"} /\ Server \in Ftp!Servers
    /\ RemoteStartPos \in Positions
    /\ phase \in {"send", "reply", "judge", "spin", "accept"}
    /\ FtpBuffer \in Lines /\ lines \in Seq(Lines)
    /\ ret \in BOOLEAN /\ ctrl \in BOOLEAN /\ data \in BOOLEAN /\ listening \in BOOLEAN
    /\ IsPasv \in BOOLEAN /\ IsResumeSupport \in BOOLEAN /\ result \in BOOLEAN
    /\ conn \in {"up", "silent", "closed"} /\ srv \in Sessions
    /\ leaked \in Nat /\ attempt \in 0 .. MaxAttempts
    /\ FileSize \in Int

\* The steps a caller takes, in their order; a thread for which PASV has failed waits in PORT.
Login == {"greeting", "user", "pass", "type", "cwd"}
Steps ==
    CASE Caller = "info"   -> {"connect", "rest", "size", "pasv", "ascii", "list", "listing", "end"} \cup Login
      [] Caller = "list"   -> {"connect", "greeting", "user", "pass", "pasv", "ascii", "list", "listing", "end"}
      [] Caller = "fetch"  -> {"connect", "pasv", "rest", "retr", "end"} \cup Login
      [] Caller = "thread" -> {"connect", "end"} \cup Login
                              \cup (IF IsPasv THEN {"pasv", "rest", "retr", "receive"} ELSE {"listen", "port"})

Course ==
    /\ pc \in Steps
    /\ pc \in {"connect", "listen", "listing", "receive", "end"} => phase = "send"
    /\ pc = "greeting" => phase # "send"
    /\ Caller # "thread" => IsPasv /\ attempt = 0
    /\ Caller = "thread" => IsResumeSupport = (FileSize # -1)
    /\ Caller = "thread" /\ pc # "end" => attempt < MaxAttempts
    /\ Caller = "info" => FileSize = -1

\* Before an attempt opens its data connection, it has left no more than one descriptor behind.
BeforeData == Login \cup {"connect", "pasv", "listen"} \cup (IF Caller = "info" THEN {"rest", "size"} ELSE {})
Handles ==
    /\ pc = "connect" => ~ctrl
    /\ Caller # "thread" =>
          /\ ~listening
          /\ pc \in BeforeData => ~data
          /\ leaked = 0 \/ (pc = "end" /\ Caller = "info" /\ leaked <= 2)
    /\ Caller = "thread" =>
          IF pc \in BeforeData
          THEN leaked <= attempt \/ (attempt = 0 /\ leaked <= 1 /\ ~data /\ ~listening)
          ELSE leaked <= attempt + 1

\* The file's directory, and the server sends binary data.
InPlace == srv.type = "I" /\ (srv.inDir <=> Url = "dir")
Waiting == InPlace /\ srv.from = 0 /\ ~srv.sending
Resumed == InPlace /\ srv.from = RemoteStartPos /\ Server.rest
Placed == /\ InPlace
          /\ srv.from = IF IsResumeSupport THEN RemoteStartPos ELSE 0
          /\ IsResumeSupport => Server.rest

\* A command that was refused, but whose refusal is not read yet.
Refusal(line) == line.of \in Login /\ line.ends /\ line.first = 5
Pending == \E j \in DOMAIN lines : Refusal(lines[j])

\* As long as the connection is up, the server has done what it was told, or the client will not get
\* past its refusal.
Told(type, inDir) ==
    conn = "up" =>
        /\ srv.from = 0 /\ ~srv.sending
        /\ \/ srv.type = type /\ srv.inDir = inDir
           \/ Pending
           \/ phase = "judge" /\ FtpBuffer.first = 5

LoginTalk ==
    /\ pc \in Login \/ (pc = "pasv" /\ phase = "send") => \A j \in DOMAIN lines : lines[j].of \in Login
    /\ pc \in {"greeting", "user", "pass"} \/ (pc = "type" /\ phase = "send") => Told("A", FALSE)
    /\ (pc = "type" /\ phase # "send") \/ (pc = "cwd" /\ phase = "send") => Told("I", FALSE)
    /\ pc = "cwd" => Url = "dir"
    /\ pc = "cwd" /\ phase # "send" => Told("I", TRUE)
    /\ pc = "pasv" /\ phase = "send" => Told("I", Url = "dir")

\* The address of a data connection is in the last line, so that whoever has read it is in step with
\* the server again.
DataTalk ==
    pc = "pasv" /\ phase # "send" =>
        /\ phase = "reply" => \A j \in DOMAIN lines :
              lines[j].of \in Login \/ (lines[j].of = "pasv" /\ j = Len(lines) /\ (Pending \/ Waiting))
        /\ FtpBuffer.of = "pasv" => lines = <<>> /\ Waiting

\* From there on a reply is that to the command before it.
RetrTalk ==
    /\ pc = "rest" => IsResumeSupport /\ \A j \in DOMAIN lines : lines[j].first # 1
    /\ pc = "rest" /\ phase = "send" => lines = <<>> /\ Waiting
    /\ pc = "rest" /\ phase # "send" => /\ \A j \in DOMAIN lines : lines[j].first = 3 => Resumed
                                        /\ FtpBuffer.first = 3 => Resumed
    /\ pc = "retr" => Placed
    /\ pc = "retr" /\ phase = "send" => \A j \in DOMAIN lines : lines[j].first # 1
    /\ pc = "retr" /\ phase # "send" => /\ \A j \in DOMAIN lines : lines[j].first = 1 => srv.sending
                                        /\ FtpBuffer.first = 1 => srv.sending
    /\ pc = "receive" => Placed /\ srv.sending

\* As long as the information call is in step, what it reads is the reply to its command.
BeforeSize == Login \cup {"rest", "size"}
InfoTalk ==
    Caller = "info" /\ inStep /\ pc \in BeforeSize =>
        /\ phase = "send" => lines = <<>>
        /\ phase = "reply" => \A j \in DOMAIN lines : lines[j].of = pc
        /\ phase = "judge" => lines = <<>> /\ (ret => FtpBuffer.of = pc)

SizeTalk == inStep \in BOOLEAN /\ Ftp!SizeIsTrue /\ InfoTalk

FtpInv ==
    /\ FtpTypes /\ Course /\ Handles
    /\ SizeTalk
    /\ Caller = "thread" => LoginTalk /\ DataTalk /\ RetrTalk

-----------------------------------------------------------------------------
\* Lines and replies.
LEMMA LineIs ==
  ASSUME NEW d \in 0 .. 5, NEW stop \in BOOLEAN, NEW c \in Ftp!Commands \cup {"none"}
  PROVE  /\ Ftp!Line(d, stop, c) \in Lines
         /\ Ftp!Line(d, stop, c).first = d
         /\ Ftp!Line(d, stop, c).ends = stop
         /\ Ftp!Line(d, stop, c).of = c
BY DEF Ftp!Line, Lines

LEMMA OneLine == \A line \in Lines : <<line>> \in Seq(Lines) /\ Len(<<line>>) = 1
OBVIOUS

(* A reply is one line or several, and all are of the command; what it says is in the last line. *)
LEMMA RepliesAre ==
  ASSUME NEW c \in Ftp!Commands, NEW d \in 0 .. 5, NEW r \in Ftp!Replies(c, d)
  PROVE  /\ r \in Seq(Lines) /\ Len(r) \in Nat \ {0}
         /\ \A j \in 1 .. Len(r) : r[j].of = c
         /\ r[Len(r)].first = d /\ r[Len(r)].ends
         /\ c \notin {"greeting", "user", "pass", "cwd"} => Len(r) = 1
<1> DEFINE last == Ftp!Line(d, TRUE, c)
           first == Ftp!Line(d, FALSE, c)
           middle(k, b) == Ftp!Line(k, b, c)
<1>0. c \in Ftp!Commands \cup {"none"} /\ TRUE \in BOOLEAN /\ FALSE \in BOOLEAN
  OBVIOUS
<1>1. /\ last \in Lines /\ last.first = d /\ last.ends = TRUE /\ last.of = c
      /\ first \in Lines /\ first.of = c
  <2>1. last \in Lines /\ last.first = d /\ last.ends = TRUE /\ last.of = c
    BY <1>0 DEF Ftp!Line, Lines
  <2>2. first \in Lines /\ first.of = c
    BY <1>0 DEF Ftp!Line, Lines
  <2> QED
    BY <2>1, <2>2
<1>2. \A k \in 0 .. 5, b \in BOOLEAN : middle(k, b) \in Lines /\ middle(k, b).of = c
  BY <1>0, LineIs
<1>5. \/ r = <<last>>
      \/ /\ c \in {"greeting", "user", "pass", "cwd"}
         /\ r \in {<<first, middle(0, FALSE), last>>, <<first, middle(2, TRUE), last>>,
                    <<first, middle(0, TRUE), last>>}
  BY DEF Ftp!Replies
<1> HIDE DEF last, first, middle
<1>3. CASE r = <<last>>
  <2>1. Len(r) = 1 /\ r[1] = last /\ r \in Seq(Lines)
    BY <1>3, <1>1
  <2>3. /\ r \in Seq(Lines) /\ Len(r) = 1
        /\ \A j \in 1 .. 1 : r[j].of = c
        /\ r[1] = last
    BY <2>1, <1>1
  <2>4. /\ \A j \in 1 .. Len(r) : r[j].of = c
        /\ r[Len(r)].first = d /\ r[Len(r)].ends
    BY <2>3, <1>1
  <2> QED
    BY <2>3, <2>4
<1>4. ASSUME NEW b \in BOOLEAN, NEW k \in 0 .. 5, r = <<first, middle(k, b), last>>
      PROVE  /\ r \in Seq(Lines) /\ Len(r) = 3
             /\ \A j \in 1 .. 3 : r[j].of = c
             /\ r[3] = last
  <2> DEFINE m == middle(k, b)
  <2>1. m \in Lines /\ m.of = c
    BY <1>2
  <2> HIDE DEF m
  <2>2. r = <<first, m, last>>
    BY <1>4 DEF m
  <2> QED
    BY <1>1, <2>1, <2>2
<1>6. CASE r # <<last>>
  <2>1. PICK k \in 0 .. 5, b \in BOOLEAN : r = <<first, middle(k, b), last>>
    <3>1. CASE r = <<first, middle(0, FALSE), last>>
      BY <3>1, 0 \in 0 .. 5
    <3>2. CASE r = <<first, middle(2, TRUE), last>>
      BY <3>2, 2 \in 0 .. 5
    <3>3. CASE r = <<first, middle(0, TRUE), last>>
      BY <3>3, 0 \in 0 .. 5
    <3> QED
      BY <1>5, <1>6, <3>1, <3>2, <3>3
  <2>2. c \in {"greeting", "user", "pass", "cwd"}
    BY <1>5, <1>6
  <2>3. /\ r \in Seq(Lines) /\ Len(r) = 3
        /\ \A j \in 1 .. 3 : r[j].of = c
        /\ r[3] = last
    BY <2>1, <1>4
  <2> QED
    BY <2>2, <2>3, <1>1
<1> QED
  BY <1>3, <1>6

(* What the server does on a command, and what it leaves as it was. *)
LEMMA ServerAnswers ==
  ASSUME NEW c \in Ftp!Commands \ {"greeting"}, srv \in Sessions, RemoteStartPos \in Nat,
         NEW w \in Ftp!ServerDoes(c)
  PROVE  /\ w.digit \in 0 .. 5 /\ w.srv \in Sessions
         /\ c \in {"user", "pass", "pasv", "port", "list", "size"} => w.srv = srv
         /\ c \in {"user", "pass", "pasv", "port", "size", "type", "ascii", "cwd", "rest"} => w.digit # 1
         /\ c # "retr" => w.srv.sending = srv.sending
         /\ c # "rest" => w.srv.from = srv.from
         /\ c # "cwd" => w.srv.inDir = srv.inDir
         /\ c \notin {"type", "ascii"} => w.srv.type = srv.type
         /\ c = "type" /\ w.digit # 5 => w.srv.type = "I"
         /\ c = "cwd" /\ w.digit # 5 => w.srv.inDir
         /\ c = "rest" => w.digit \in {3, 5}
         /\ c = "rest" /\ w.digit = 3 /\ Caller = "thread" => Server.rest /\ w.srv.from = RemoteStartPos
         /\ c = "retr" /\ w.digit = 1 => w.srv.sending
<1> DEFINE Yes(d, s) == [digit |-> d, srv |-> s]
<1>1. \A d, s : Yes(d, s).digit = d /\ Yes(d, s).srv = s
  OBVIOUS
<1>2. \/ w = Yes(5, srv)
      \/ c = "user" /\ (w = Yes(2, srv) \/ w = Yes(3, srv))
      \/ c \in {"pass", "pasv", "port", "size"} /\ w = Yes(2, srv)
      \/ c = "type" /\ w = Yes(2, [srv EXCEPT !.type = "I"])
      \/ c = "ascii" /\ w = Yes(2, [srv EXCEPT !.type = "A"])
      \/ c = "cwd" /\ w = Yes(2, [srv EXCEPT !.inDir = TRUE])
      \/ /\ c = "rest" /\ Server.rest
         /\ w = Yes(3, [srv EXCEPT !.from = IF Caller = "thread" THEN RemoteStartPos ELSE 0])
      \/ c = "list" /\ w = Yes(1, srv)
      \/ c = "retr" /\ w = Yes(1, [srv EXCEPT !.sending = TRUE])
  BY DEF Ftp!ServerDoes, Ftp!Commands
<1> HIDE DEF Yes
<1>3. /\ [srv EXCEPT !.type = "I"] \in Sessions /\ [srv EXCEPT !.type = "A"] \in Sessions
      /\ [srv EXCEPT !.inDir = TRUE] \in Sessions /\ [srv EXCEPT !.sending = TRUE] \in Sessions
      /\ \A k \in Nat : [srv EXCEPT !.from = k] \in Sessions
  BY DEF Sessions
<1>4. /\ \A t : /\ [srv EXCEPT !.type = t].inDir = srv.inDir /\ [srv EXCEPT !.type = t].from = srv.from
                /\ [srv EXCEPT !.type = t].sending = srv.sending /\ [srv EXCEPT !.type = t].type = t
      /\ \A t : /\ [srv EXCEPT !.inDir = t].inDir = t /\ [srv EXCEPT !.inDir = t].from = srv.from
                /\ [srv EXCEPT !.inDir = t].sending = srv.sending /\ [srv EXCEPT !.inDir = t].type = srv.type
      /\ \A t : /\ [srv EXCEPT !.from = t].inDir = srv.inDir /\ [srv EXCEPT !.from = t].from = t
                /\ [srv EXCEPT !.from = t].sending = srv.sending /\ [srv EXCEPT !.from = t].type = srv.type
      /\ \A t : /\ [srv EXCEPT !.sending = t].inDir = srv.inDir /\ [srv EXCEPT !.sending = t].from = srv.from
                /\ [srv EXCEPT !.sending = t].sending = t /\ [srv EXCEPT !.sending = t].type = srv.type
  BY DEF Sessions
<1> DEFINE from == IF Caller = "thread" THEN RemoteStartPos ELSE 0
<1>5. from \in Nat
  OBVIOUS
<1> HIDE DEF from
<1>6. CASE w = Yes(5, srv)
  BY <1>1, <1>6
<1>7. CASE c = "user" /\ (w = Yes(2, srv) \/ w = Yes(3, srv))
  BY <1>1, <1>7
<1>8. CASE c \in {"pass", "pasv", "port", "size"} /\ w = Yes(2, srv)
  BY <1>1, <1>8
<1>9. CASE c = "type" /\ w = Yes(2, [srv EXCEPT !.type = "I"])
  <2>1. w.digit = 2 /\ w.srv = [srv EXCEPT !.type = "I"]
    BY <1>1, <1>9
  <2> QED
    BY <2>1, <1>9, <1>3, <1>4
<1>10. CASE c = "ascii" /\ w = Yes(2, [srv EXCEPT !.type = "A"])
  <2>1. w.digit = 2 /\ w.srv = [srv EXCEPT !.type = "A"]
    BY <1>1, <1>10
  <2> QED
    BY <2>1, <1>10, <1>3, <1>4
<1>11. CASE c = "cwd" /\ w = Yes(2, [srv EXCEPT !.inDir = TRUE])
  <2>1. w.digit = 2 /\ w.srv = [srv EXCEPT !.inDir = TRUE]
    BY <1>1, <1>11
  <2> QED
    BY <2>1, <1>11, <1>3, <1>4
<1>12. CASE c = "rest" /\ Server.rest /\ w = Yes(3, [srv EXCEPT !.from = from])
  <2>1. w.digit = 3 /\ w.srv = [srv EXCEPT !.from = from]
    BY <1>1, <1>12
  <2>2. Caller = "thread" => from = RemoteStartPos
    BY DEF from
  <2> QED
    BY <2>1, <2>2, <1>12, <1>3, <1>4, <1>5
<1>13. CASE c = "list" /\ w = Yes(1, srv)
  BY <1>1, <1>13
<1>14. CASE c = "retr" /\ w = Yes(1, [srv EXCEPT !.sending = TRUE])
  <2>1. w.digit = 1 /\ w.srv = [srv EXCEPT !.sending = TRUE]
    BY <1>1, <1>14
  <2> QED
    BY <2>1, <1>14, <1>3, <1>4
<1> QED
  BY <1>2, <1>6, <1>7, <1>8, <1>9, <1>10, <1>11, <1>12, <1>13, <1>14 DEF from

-----------------------------------------------------------------------------
\* The course of the calls and the descriptors, action by action.
Shape == FtpTypes /\ Course /\ Handles

LEMMA OpenIs == \A b \in BOOLEAN : Ftp!Open(b) = (IF b THEN 1 ELSE 0)
BY DEF Ftp!Open

(* The next command. *)
LEMMA GotoKeepsShape ==
  ASSUME Shape, NEW c \in Steps \ {"greeting", "connect", "end"}, Ftp!Goto(c), pc # "end",
         c \in BeforeData => pc \in BeforeData
  PROVE  Shape'
<1>1. FtpTypes'
  BY DEF Ftp!Goto, Ftp!channel, Ftp!handles, Ftp!task, Ftp!fixed, Shape, FtpTypes
<1>2. Course'
  BY DEF Ftp!Goto, Ftp!channel, Ftp!handles, Ftp!task, Ftp!fixed, Shape, FtpTypes, Course, Steps
<1>3. Handles'
  BY DEF Ftp!Goto, Ftp!channel, Ftp!handles, Ftp!task, Ftp!fixed, Shape, FtpTypes, Course, Handles, BeforeData
<1> QED
  BY <1>1, <1>2, <1>3 DEF Shape

(* The call returns; what fetchFtpRemoteFileInfo leaves open is two descriptors at most. *)
LEMMA ReturnKeepsShape ==
  ASSUME Shape, NEW ok \in BOOLEAN, NEW c \in BOOLEAN, NEW d \in BOOLEAN, Ftp!Return(ok, c, d), pc # "end",
         Caller = "thread" => ~c
  PROVE  Shape'
<1>1. /\ Ftp!Open(c) \in {0, 1} /\ Ftp!Open(d) \in {0, 1} /\ Ftp!Open(listening) \in {0, 1}
      /\ ~listening => Ftp!Open(listening) = 0
  BY DEF Ftp!Open
<1>2. UNCHANGED <<lines, conn, srv, Url, Server, RemoteStartPos, FtpBuffer,
                ret, IsPasv, IsResumeSupport, FileSize, Caller>>
  BY DEF Ftp!Return, Ftp!channel, Ftp!fixed
<1>3. phase' = "send" /\ result' = ok
  BY DEF Ftp!Return
<1>4. CASE Caller = "info"
  <2>1. /\ leaked' = leaked + Ftp!Open(c) + Ftp!Open(d) + Ftp!Open(listening)
        /\ ctrl' = FALSE /\ data' = FALSE /\ listening' = FALSE /\ pc' = "end" /\ UNCHANGED attempt
    BY <1>4 DEF Ftp!Return
  <2>2. leaked = 0 /\ ~listening
    BY <1>4 DEF Shape, Handles
  <2>3. leaked' \in 0 .. 2
    BY <1>1, <2>1, <2>2
  <2>4. FtpTypes'
    <3>1. leaked' \in Nat
      BY <2>3
    <3>2. ctrl' \in BOOLEAN /\ data' \in BOOLEAN /\ listening' \in BOOLEAN /\ result' \in BOOLEAN
      BY <1>3, <2>1
    <3> QED
      BY <1>2, <1>3, <2>1, <3>1, <3>2 DEF Shape, FtpTypes
  <2>5. Course'
    BY <1>2, <1>3, <1>4, <2>1 DEF Shape, FtpTypes, Course, Steps
  <2>6. Handles'
    BY <1>2, <1>3, <1>4, <2>1, <2>3 DEF Shape, FtpTypes, Handles, BeforeData, Login
  <2> QED
    BY <2>4, <2>5, <2>6 DEF Shape
<1>5. CASE Caller \in {"list", "fetch"}
  <2>1. /\ ctrl' = c /\ data' = d /\ pc' = "end"
        /\ UNCHANGED <<attempt, leaked, listening>>
    BY <1>5 DEF Ftp!Return
  <2>4. FtpTypes'
    BY <1>2, <1>3, <2>1 DEF Shape, FtpTypes
  <2>5. Course'
    BY <1>2, <1>3, <1>5, <2>1 DEF Shape, FtpTypes, Course, Steps
  <2>6. Handles'
    BY <1>2, <1>3, <1>5, <2>1 DEF Shape, FtpTypes, Handles, BeforeData, Login
  <2> QED
    BY <2>4, <2>5, <2>6 DEF Shape
<1>6. CASE Caller = "thread"
  <2>1. /\ ctrl' = c /\ data' = d /\ attempt' = attempt + 1
        /\ pc' = IF ~ok /\ attempt + 1 < MaxAttempts THEN "connect" ELSE "end"
        /\ UNCHANGED <<leaked, listening>>
    BY <1>6 DEF Ftp!Return, Ftp!TriesLeft
  <2>2. attempt < MaxAttempts /\ attempt \in Nat /\ MaxAttempts \in Nat
    BY <1>6, FtpAssumption DEF Shape, Course, FtpTypes
  <2>3. attempt' \in 0 .. MaxAttempts
    BY <2>1, <2>2
  <2>4. FtpTypes'
    BY <1>2, <1>3, <2>1, <2>3 DEF Shape, FtpTypes
  <2>5. Course'
    BY <1>2, <1>3, <1>6, <2>1, <2>2 DEF Shape, FtpTypes, Course, Steps
  <2>6. leaked \in Nat /\ leaked <= attempt'
    BY <1>6, <2>1, <2>2 DEF Shape, Handles, FtpTypes
  <2>7. Handles'
    BY <1>2, <1>3, <1>6, <2>1, <2>2, <2>6 DEF Handles, BeforeData
  <2> QED
    BY <2>4, <2>5, <2>7 DEF Shape
<1> QED
  BY <1>4, <1>5, <1>6 DEF Shape, FtpTypes

(* A call fails; a thread has closed its control connection. *)
LEMMA FailKeepsShape ==
  ASSUME Shape, NEW c, Ftp!Fail(c), pc # "end"
  PROVE  Shape'
<1> DEFINE keeps == \/ Caller \in {"info", "list"} /\ c = "greeting"
                    \/ Caller = "info" /\ c \in {"size", "ascii", "list", "listing", "noFile"}
                    \/ Caller = "list" /\ c = "listing"
<1>1. Ftp!Return(FALSE, keeps /\ ctrl, data)
  BY DEF Ftp!Fail
<1>2. (keeps /\ ctrl) \in BOOLEAN /\ (Caller = "thread" => ~(keeps /\ ctrl)) /\ data \in BOOLEAN
  BY DEF Shape, FtpTypes
<1> HIDE DEF keeps
<1> QED
  BY <1>1, <1>2, ReturnKeepsShape

(* Connecting. *)
LEMMA ConnectKeepsShape == Shape /\ Ftp!setupCtrlConn => Shape'
<1> SUFFICES ASSUME Shape, Ftp!setupCtrlConn PROVE Shape'
  OBVIOUS
<1>1. pc = "connect"
  BY DEF Ftp!setupCtrlConn
<1>2. CASE Ftp!Fail("greeting")
  BY <1>1, <1>2, FailKeepsShape
<1>3. CASE ~Ftp!Fail("greeting")
  <2>1. PICK d \in {2, 4}, r \in Ftp!Replies("greeting", 2) :
            lines' = IF d = 2 THEN r ELSE <<Ftp!Line(4, TRUE, "greeting")>>
    BY <1>3 DEF Ftp!setupCtrlConn
  <2>2. /\ pc' = "greeting" /\ phase' = "reply"
        /\ FtpBuffer' = Ftp!EmptyBuffer
        /\ conn' = "up" /\ srv' = Ftp!NewSession
        /\ leaked' = leaked + Ftp!Open(ctrl) /\ ctrl' = TRUE
        /\ UNCHANGED <<ret, data, listening, Ftp!task, Ftp!fixed>>
    BY <1>3 DEF Ftp!setupCtrlConn
  <2>3. lines' \in Seq(Lines)
    <3>1. r \in Seq(Lines)
      BY RepliesAre DEF Ftp!Commands
    <3>2. Ftp!Line(4, TRUE, "greeting") \in Lines
      <4>1. 4 \in 0 .. 5 /\ TRUE \in BOOLEAN /\ "greeting" \in Ftp!Commands \cup {"none"}
        BY DEF Ftp!Commands
      <4> QED
        BY <4>1, LineIs
    <3> DEFINE refusal == <<Ftp!Line(4, TRUE, "greeting")>>
    <3>3. refusal \in Seq(Lines)
      BY <3>2, OneLine, Zenon
    <3> HIDE DEF refusal
    <3>4. lines' = r \/ lines' = refusal
      BY <2>1 DEF refusal
    <3> QED
      BY <3>1, <3>3, <3>4
  <2>4. Ftp!EmptyBuffer \in Lines /\ Ftp!NewSession \in Sessions
    BY DEF Ftp!EmptyBuffer, Ftp!Line, Lines, Ftp!NewSession, Sessions
  <2>5. leaked' = leaked
    <3>1. ~ctrl /\ leaked \in Nat
      BY <1>1 DEF Shape, Handles, FtpTypes
    <3> QED
      BY <3>1, <2>2 DEF Ftp!Open
  <2>6. FtpTypes'
    BY <2>2, <2>3, <2>4, <2>5 DEF Ftp!task, Ftp!fixed, Shape, FtpTypes
  <2>7. Caller = "list" \/ Login \subseteq Steps
    BY DEF Steps, Shape, FtpTypes
  <2>8. "greeting" \in Steps
    BY <2>7 DEF Steps, Login
  <2>9. Course'
    BY <1>1, <2>2, <2>8 DEF Ftp!task, Ftp!fixed, Shape, FtpTypes, Course, Steps
  <2>10. Handles'
    BY <1>1, <2>2, <2>5 DEF Ftp!task, Ftp!fixed, Shape, FtpTypes, Course, Handles, BeforeData, Login
  <2> QED
    BY <2>6, <2>9, <2>10 DEF Shape
<1> QED
  BY <1>2, <1>3

(* A command is sent: what it puts on the way. *)
LEMMA SendIs ==
  ASSUME Shape, Ftp!Send
  PROVE  /\ phase = "send" /\ pc \in Ftp!Commands \ {"greeting"} /\ pc # "end"
         /\ FtpBuffer' = Ftp!EmptyBuffer /\ FtpBuffer' \in Lines
         /\ FtpBuffer'.first = 0 /\ FtpBuffer'.of = "none"
         /\ ret' \in BOOLEAN /\ phase' \in {"reply", "judge"}
         /\ UNCHANGED <<pc, conn, ctrl, data, listening, leaked, Caller, attempt, IsPasv, IsResumeSupport,
                        FileSize, result, Url, Server, RemoteStartPos>>
         /\ lines' \in Seq(Lines) /\ srv' \in Sessions
         /\ \/ conn # "up" /\ UNCHANGED <<lines, srv>>
            \/ /\ conn = "up" /\ phase' = "reply"
               /\ \E w \in Ftp!ServerDoes(pc), r \in Seq(Lines) :
                     /\ lines' = lines \o r /\ srv' = w.srv
                     /\ Len(r) \in Nat \ {0}
                     /\ \E j \in 1 .. Len(r) : r[j].ends /\ r[j].first = w.digit
                     /\ w.digit # 1 => \A j \in 1 .. Len(r) : r[j].of = pc
                     /\ pc \notin {"user", "pass", "cwd"} /\ w.digit # 1 => Len(r) = 1
<1>1. /\ phase = "send" /\ pc \in Ftp!Commands \ {"greeting"} /\ pc # "end"
  BY DEF Ftp!Send, Ftp!Commands, Shape, Course
<1>2. /\ FtpBuffer' = Ftp!EmptyBuffer
      /\ phase' \in {"reply", "judge"}
      /\ UNCHANGED <<pc, conn, ctrl, data, listening, leaked, Caller, attempt, IsPasv, IsResumeSupport,
                     FileSize, result, Url, Server, RemoteStartPos>>
  BY DEF Ftp!Send, Ftp!handles, Ftp!task, Ftp!fixed
<1>3. ret' \in BOOLEAN
  BY DEF Ftp!Send, Shape, FtpTypes
<1>4. Ftp!EmptyBuffer \in Lines /\ Ftp!EmptyBuffer.first = 0 /\ Ftp!EmptyBuffer.of = "none"
  BY DEF Ftp!EmptyBuffer, Ftp!Line, Lines
<1>5. lines \in Seq(Lines) /\ srv \in Sessions /\ RemoteStartPos \in Nat
  BY FtpAssumption DEF Shape, FtpTypes
<1>6. CASE conn # "up"
  BY <1>1, <1>2, <1>3, <1>4, <1>5, <1>6 DEF Ftp!Send
<1>7. CASE conn = "up"
  <2>1. phase' = "reply"
    BY <1>7 DEF Ftp!Send
  <2>2. PICK w \in Ftp!ServerDoes(pc) : \E r \in Ftp!Replies(pc, w.digit) :
               /\ lines' = lines \o r \o (IF w.digit = 1 THEN <<Ftp!Line(2, TRUE, "none")>> ELSE <<>>)
               /\ srv' = w.srv
    BY <1>7 DEF Ftp!Send
  <2>3. PICK r \in Ftp!Replies(pc, w.digit) :
               /\ lines' = lines \o r \o (IF w.digit = 1 THEN <<Ftp!Line(2, TRUE, "none")>> ELSE <<>>)
               /\ srv' = w.srv
    BY <2>2
  <2>4. w.digit \in 0 .. 5 /\ w.srv \in Sessions
    BY <1>1, <1>5, ServerAnswers
  <2>5. /\ r \in Seq(Lines) /\ Len(r) \in Nat \ {0}
        /\ \A j \in 1 .. Len(r) : r[j].of = pc
        /\ r[Len(r)].first = w.digit /\ r[Len(r)].ends
        /\ pc \notin {"greeting", "user", "pass", "cwd"} => Len(r) = 1
    BY <1>1, <2>4, RepliesAre
  <2>6. CASE w.digit # 1
    <3>1. lines' = lines \o r
      BY <1>5, <2>3, <2>5, <2>6, ConcatProperties, ConcatEmptySeq
    <3>2. lines' \in Seq(Lines)
      BY <1>5, <2>5, <3>1, ConcatProperties
    <3>3. Len(r) \in 1 .. Len(r)
      BY <2>5
    <3> QED
      BY <1>1, <1>2, <1>3, <1>4, <1>7, <2>1, <2>3, <2>4, <2>5, <2>6, <3>1, <3>2, <3>3
  <2>7. CASE w.digit = 1
    <3> DEFINE bye == <<Ftp!Line(2, TRUE, "none")>>
               q == r \o bye
    <3>1. bye \in Seq(Lines) /\ Len(bye) = 1
      <4>1. 2 \in 0 .. 5 /\ TRUE \in BOOLEAN /\ "none" \in Ftp!Commands \cup {"none"}
        OBVIOUS
      <4>2. Ftp!Line(2, TRUE, "none") \in Lines
        BY ONLY <4>1, LineIs
      <4> QED
        BY <4>2, OneLine, Zenon
    <3> HIDE DEF bye
    <3>2. q \in Seq(Lines) /\ Len(q) = Len(r) + 1 /\ \A j \in 1 .. Len(r) : q[j] = r[j]
      <4>1. r \in Seq(Lines) /\ Len(r) \in Nat
        BY <2>5
      <4>2. /\ q \in Seq(Lines) /\ Len(q) = Len(r) + Len(bye)
            /\ \A j \in 1 .. Len(r) + Len(bye) : q[j] = IF j <= Len(r) THEN r[j] ELSE bye[j - Len(r)]
        BY ONLY <3>1, <4>1, ConcatProperties
      <4> QED
        BY ONLY <3>1, <4>1, <4>2
    <3>3. lines' = lines \o q
      <4>1. lines' = (lines \o r) \o bye
        BY <2>3, <2>7 DEF bye
      <4>2. lines \in Seq(Lines) /\ r \in Seq(Lines) /\ bye \in Seq(Lines)
        BY <1>5, <2>5, <3>1
      <4>3. (lines \o r) \o bye = lines \o q
        BY ONLY <4>2, ConcatAssociative
      <4> QED
        BY <4>1, <4>3
    <3> HIDE DEF q
    <3>4. lines' \in Seq(Lines)
      BY <1>5, <3>2, <3>3, ConcatProperties
    <3>5. Len(r) \in 1 .. Len(q) /\ q[Len(r)] = r[Len(r)] /\ Len(q) \in Nat \ {0}
      BY <2>5, <3>2
    <3>6. \E j \in 1 .. Len(q) : q[j].ends /\ q[j].first = w.digit
      BY <2>5, <3>5
    <3> QED
      BY <1>1, <1>2, <1>3, <1>4, <1>7, <2>1, <2>3, <2>4, <2>7, <3>2, <3>3, <3>4, <3>5, <3>6
  <2> QED
    BY <2>6, <2>7
<1> QED
  BY <1>6, <1>7

LEMMA SendKeepsShape == Shape /\ Ftp!Send => Shape'
<1> SUFFICES ASSUME Shape, Ftp!Send PROVE Shape'
  OBVIOUS
<1>1. /\ phase = "send" /\ pc \in Ftp!Commands \ {"greeting"} /\ pc # "end"
      /\ FtpBuffer' \in Lines /\ ret' \in BOOLEAN /\ phase' \in {"reply", "judge"}
      /\ UNCHANGED <<pc, conn, ctrl, data, listening, leaked, Caller, attempt, IsPasv, IsResumeSupport,
                     FileSize, result, Url, Server, RemoteStartPos>>
      /\ lines' \in Seq(Lines) /\ srv' \in Sessions
  BY SendIs
<1>2. FtpTypes'
  BY <1>1 DEF Shape, FtpTypes
<1>3. pc \notin {"connect", "listen", "listing", "receive", "end"}
  BY <1>1 DEF Ftp!Commands
<1>4. Course'
  BY <1>1, <1>3 DEF Shape, Course, Steps
<1>5. Handles'
  BY <1>1 DEF Shape, Handles, BeforeData
<1> QED
  BY <1>2, <1>4, <1>5 DEF Shape

(* A step that leaves the caller where it is changes what is read and what is on the way. *)
LEMMA ReadingKeepsShape ==
  ASSUME Shape, phase' \in {"reply", "judge", "spin"}, FtpBuffer' \in Lines, ret' \in BOOLEAN,
         lines' \in Seq(Lines), pc \in Ftp!Commands,
         UNCHANGED <<pc, conn, srv, ctrl, data, listening, leaked, Caller, attempt, IsPasv, IsResumeSupport,
                     FileSize, result, Url, Server, RemoteStartPos>>
  PROVE  Shape'
<1>1. FtpTypes'
  BY DEF Shape, FtpTypes
<1>2. pc \notin {"connect", "listen", "listing", "receive", "end"}
  BY DEF Ftp!Commands
<1>3. Course'
  BY <1>2 DEF Shape, Course, Steps
<1>4. Handles'
  BY DEF Shape, Handles, BeforeData
<1> QED
  BY <1>1, <1>3, <1>4 DEF Shape

(* While a reply is read or judged, the caller is at a command. *)
LEMMA AtCommand == Shape /\ phase # "send" => pc \in Ftp!Commands
BY DEF Shape, Course, FtpTypes, Steps, Ftp!Commands, Login

LEMMA ReplyKeepsShape ==
  ASSUME Shape, Ftp!getReply \/ Ftp!RecvTimeout \/ Ftp!GetLineAtEof
  PROVE  Shape'
<1>1. phase = "reply" /\ pc \in Ftp!Commands
  BY AtCommand DEF Ftp!getReply, Ftp!RecvTimeout, Ftp!GetLineAtEof
<1>2. /\ phase' \in {"reply", "judge", "spin"}
      /\ UNCHANGED <<pc, conn, srv, ctrl, data, listening, leaked, Caller, attempt, IsPasv, IsResumeSupport,
                     FileSize, result, Url, Server, RemoteStartPos>>
  BY <1>1 DEF Ftp!getReply, Ftp!RecvTimeout, Ftp!GetLineAtEof, Ftp!handles, Ftp!task, Ftp!fixed, Ftp!channel
<1>3. FtpBuffer \in Lines /\ lines \in Seq(Lines) /\ ret \in BOOLEAN
  BY DEF Shape, FtpTypes
<1>4. lines # <<>> => Head(lines) \in Lines /\ Tail(lines) \in Seq(Lines)
  BY <1>3, HeadTailProperties
<1>5. FtpBuffer' \in Lines /\ lines' \in Seq(Lines) /\ ret' \in BOOLEAN
  BY <1>3, <1>4 DEF Ftp!getReply, Ftp!RecvTimeout, Ftp!GetLineAtEof, Ftp!channel
<1> QED
  BY <1>1, <1>2, <1>5, ReadingKeepsShape

(* A reply is judged: the caller goes on with one of its steps, or fails. *)
LEMMA JudgeKeepsShape ==
  ASSUME Shape,
         \/ Ftp!JudgeGreeting \/ Ftp!ftp_login \/ Ftp!ftp_binary \/ Ftp!ftp_cwd
         \/ Ftp!ftp_ascii \/ Ftp!ftp_list \/ Ftp!ftp_retr
  PROVE  Shape'
<1>1. phase = "judge" /\ pc \in Ftp!Commands /\ pc # "end" /\ pc \in Steps /\ ctrl \in BOOLEAN
  BY AtCommand DEF Ftp!JudgeGreeting, Ftp!ftp_login, Ftp!ftp_binary, Ftp!ftp_cwd, Ftp!ftp_ascii,
                   Ftp!ftp_list, Ftp!ftp_retr, Ftp!Judge, Ftp!Commands, Shape, Course, FtpTypes
<1>2. ASSUME NEW c, Ftp!Fail(c) PROVE Shape'
  BY <1>1, <1>2, FailKeepsShape
<1>3. Caller \in {"info", "thread", "list", "fetch"} /\ (Caller # "thread" => IsPasv) /\ IsPasv \in BOOLEAN
  BY DEF Shape, FtpTypes, Course
<1>4. CASE Ftp!JudgeGreeting
  <2>1. CASE Ftp!Goto("user")
    <3>1. "user" \in Steps \ {"greeting", "connect", "end"} /\ pc \in BeforeData
      BY <1>3, <1>4 DEF Steps, BeforeData, Login, Ftp!JudgeGreeting, Ftp!Judge
    <3> QED
      BY <1>1, <2>1, <3>1, GotoKeepsShape
  <2> QED
    BY <1>2, <1>4, <2>1 DEF Ftp!JudgeGreeting
<1>5. CASE Ftp!ftp_login
  <2>1. pc \in {"user", "pass"} /\ pc \in BeforeData
    BY <1>5 DEF Ftp!ftp_login, Ftp!Judge, BeforeData, Login
  <2>2. CASE Ftp!Goto("pass")
    <3>1. "pass" \in Steps \ {"greeting", "connect", "end"}
      BY <1>3 DEF Steps, Login
    <3> QED
      BY <1>1, <2>1, <2>2, <3>1, GotoKeepsShape
  <2>3. CASE Ftp!Goto(Ftp!AfterLogin)
    <3>1. Ftp!AfterLogin \in Steps \ {"greeting", "connect", "end"}
      BY <1>3 DEF Steps, Login, Ftp!AfterLogin, Ftp!DataStep
    <3> HIDE DEF Ftp!AfterLogin
    <3> QED
      BY <1>1, <2>1, <2>3, <3>1, GotoKeepsShape
  <2> QED
    BY <1>2, <1>5, <2>2, <2>3 DEF Ftp!ftp_login
<1>6. CASE Ftp!ftp_binary
  <2>1. pc = "type" /\ pc \in BeforeData
    BY <1>6 DEF Ftp!ftp_binary, Ftp!Judge, BeforeData, Login
  <2>2. CASE Ftp!Goto(Ftp!AfterType)
    <3>1. Ftp!AfterType \in Steps \ {"greeting", "connect", "end"}
      BY <1>1, <1>3, <2>1 DEF Steps, Login, Ftp!AfterType, Ftp!AfterDir, Ftp!DataStep
    <3> QED
      BY <1>1, <2>1, <2>2, <3>1, GotoKeepsShape
  <2> QED
    BY <1>2, <1>6, <2>2 DEF Ftp!ftp_binary
<1>7. CASE Ftp!ftp_cwd
  <2>1. pc = "cwd" /\ pc \in BeforeData
    BY <1>7 DEF Ftp!ftp_cwd, Ftp!Judge, BeforeData, Login
  <2>2. CASE Ftp!Goto(Ftp!AfterDir)
    <3>1. Ftp!AfterDir \in Steps \ {"greeting", "connect", "end"}
      BY <1>1, <1>3, <2>1 DEF Steps, Login, Ftp!AfterDir, Ftp!DataStep
    <3> QED
      BY <1>1, <2>1, <2>2, <3>1, GotoKeepsShape
  <2> QED
    BY <1>2, <1>7, <2>2 DEF Ftp!ftp_cwd
<1>8. CASE Ftp!ftp_ascii
  <2>1. CASE Ftp!Goto("list")
    <3>1. "list" \in Steps \ {"greeting", "connect", "end"} /\ "list" \notin BeforeData
      BY <1>1, <1>3, <1>8 DEF Steps, BeforeData, Login, Ftp!ftp_ascii, Ftp!Judge
    <3> QED
      BY <1>1, <2>1, <3>1, GotoKeepsShape
  <2> QED
    BY <1>2, <1>8, <2>1 DEF Ftp!ftp_ascii
<1>9. CASE Ftp!ftp_list
  <2>1. CASE Ftp!Goto("listing")
    <3>1. "listing" \in Steps \ {"greeting", "connect", "end"} /\ "listing" \notin BeforeData
      BY <1>1, <1>3, <1>9 DEF Steps, BeforeData, Login, Ftp!ftp_list, Ftp!Judge
    <3> QED
      BY <1>1, <2>1, <3>1, GotoKeepsShape
  <2> QED
    BY <1>2, <1>9, <2>1 DEF Ftp!ftp_list
<1>10. CASE Ftp!ftp_retr
  <2>1. CASE Ftp!Goto("receive") /\ Caller # "fetch"
    <3>1. "receive" \in Steps \ {"greeting", "connect", "end"} /\ "receive" \notin BeforeData
      BY <1>1, <1>3, <1>10, <2>1 DEF Steps, BeforeData, Login, Ftp!ftp_retr, Ftp!Judge
    <3> QED
      BY <1>1, <2>1, <3>1, GotoKeepsShape
  <2>2. CASE Ftp!Return(TRUE, FALSE, FALSE)
    <3>1. TRUE \in BOOLEAN /\ FALSE \in BOOLEAN /\ ~FALSE
      OBVIOUS
    <3> QED
      BY <1>1, <2>2, <3>1, ReturnKeepsShape
  <2> QED
    BY <1>2, <1>10, <2>1, <2>2 DEF Ftp!ftp_retr
<1> QED
  BY <1>4, <1>5, <1>6, <1>7, <1>8, <1>9, <1>10

(* The file is received, or not. *)
LEMMA ReceiveKeepsShape == Shape /\ Ftp!Receive => Shape'
<1> SUFFICES ASSUME Shape, Ftp!Receive PROVE Shape'
  OBVIOUS
<1>1. PICK ok \in BOOLEAN : Ftp!Return(ok, FALSE, FALSE)
  BY DEF Ftp!Receive
<1>2. pc # "end" /\ FALSE \in BOOLEAN /\ ~FALSE
  BY DEF Ftp!Receive
<1> QED
  BY <1>1, <1>2, ReturnKeepsShape

(* The data connection: an old handle is overwritten. *)
LEMMA PasvKeepsShape == Shape /\ Ftp!setupPasvDataConn => Shape'
<1> SUFFICES ASSUME Shape, Ftp!setupPasvDataConn PROVE Shape'
  OBVIOUS
<1>1. phase = "judge" /\ pc = "pasv" /\ pc \in Steps
  BY DEF Ftp!setupPasvDataConn, Ftp!Judge, Shape, Course
<1>2. /\ Ftp!Open(data) \in {0, 1} /\ (~data => Ftp!Open(data) = 0)
      /\ leaked \in Nat /\ data \in BOOLEAN /\ attempt \in Nat /\ Caller \in {"info", "thread", "list", "fetch"}
  BY DEF Ftp!Open, Shape, FtpTypes
<1>3. /\ pc \in BeforeData
      /\ Caller # "thread" => leaked = 0 /\ ~data
      /\ Caller = "thread" => leaked <= attempt \/ (attempt = 0 /\ leaked <= 1 /\ ~data /\ ~listening)
  BY <1>1 DEF Shape, Handles, BeforeData
<1>4. CASE /\ Ftp!HasAddress
           /\ data' = TRUE /\ leaked' = leaked + Ftp!Open(data)
           /\ pc' = Ftp!AfterData /\ phase' = "send"
           /\ UNCHANGED <<FtpBuffer, ret, Ftp!channel, ctrl, listening, Ftp!task, Ftp!fixed>>
  <2>1. Ftp!AfterData \in Steps \ (BeforeData \cup {"greeting", "connect", "end"})
    BY <1>1, <1>2 DEF Ftp!AfterData, Steps, BeforeData, Login
  <2>2. leaked' \in Nat /\ (Caller # "thread" => leaked' = 0) /\ (Caller = "thread" => leaked' <= attempt + 1)
    BY <1>2, <1>3, <1>4
  <2>3. FtpTypes'
    BY <1>4, <2>2 DEF Ftp!channel, Ftp!task, Ftp!fixed, Shape, FtpTypes
  <2>4. Course'
    BY <1>1, <1>4, <2>1 DEF Ftp!task, Shape, Course, Steps
  <2>5. Handles'
    <3>1. pc' \notin BeforeData' /\ pc' # "connect" /\ UNCHANGED <<Caller, attempt, listening>>
      BY <1>4, <2>1 DEF Ftp!task, BeforeData
    <3> QED
      BY <2>2, <3>1 DEF Shape, Handles
  <2> QED
    BY <2>3, <2>4, <2>5 DEF Shape
<1>5. CASE /\ Caller = "thread"
           /\ IsPasv' = FALSE
           /\ data' = IF Ftp!HasAddress THEN FALSE ELSE data
           /\ leaked' = leaked + (IF Ftp!HasAddress THEN Ftp!Open(data) ELSE 0)
           /\ ctrl' = FALSE
           /\ result' = FALSE /\ attempt' = attempt + 1
           /\ pc' = IF Ftp!TriesLeft THEN "connect" ELSE "end"
           /\ phase' = "send"
           /\ UNCHANGED <<FtpBuffer, ret, Ftp!channel, listening, Caller, IsResumeSupport, FileSize, Ftp!fixed>>
  <2>1. attempt < MaxAttempts /\ MaxAttempts \in Nat
    BY <1>1, <1>5, FtpAssumption DEF Shape, Course
  <2>2. attempt' \in 0 .. MaxAttempts /\ leaked' \in Nat /\ leaked' <= attempt'
    BY <1>2, <1>3, <1>5, <2>1
  <2>3. data' \in BOOLEAN
    BY <1>2, <1>5
  <2>4. FtpTypes'
    BY <1>5, <2>2, <2>3 DEF Ftp!channel, Ftp!fixed, Shape, FtpTypes
  <2>5. pc' \in {"connect", "end"} /\ (pc' # "end" => attempt' < MaxAttempts)
    BY <1>2, <1>5, <2>1 DEF Ftp!TriesLeft
  <2>6. Course'
    BY <1>5, <2>5 DEF Shape, Course, Steps
  <2>7. Handles'
    BY <1>2, <1>5, <2>2, <2>5 DEF Handles
  <2> QED
    BY <2>4, <2>6, <2>7 DEF Shape
<1>6. CASE Ftp!Fail("pasv")
  BY <1>1, <1>6, FailKeepsShape
<1> QED
  BY <1>4, <1>5, <1>6 DEF Ftp!setupPasvDataConn

LEMMA PortKeepsShape == Shape /\ Ftp!setupPortDataConn => Shape'
<1> SUFFICES ASSUME Shape, Ftp!setupPortDataConn PROVE Shape'
  OBVIOUS
<1>1. CASE /\ pc = "listen"
           /\ leaked' = leaked + Ftp!Open(listening) /\ listening' = TRUE
           /\ pc' = "port" /\ phase' = "send"
           /\ UNCHANGED <<FtpBuffer, ret, Ftp!channel, ctrl, data, Ftp!task, Ftp!fixed>>
  <2>1. /\ Caller = "thread" /\ ~IsPasv
    BY <1>1 DEF Shape, FtpTypes, Course, Steps, Login
  <2>2. leaked' \in Nat /\ leaked' <= attempt + 1
    BY <1>1, <2>1 DEF Ftp!Open, Shape, FtpTypes, Handles, BeforeData
  <2>3. FtpTypes'
    BY <1>1, <2>2 DEF Ftp!channel, Ftp!task, Ftp!fixed, Shape, FtpTypes
  <2>4. Course'
    BY <1>1, <2>1 DEF Ftp!task, Shape, Course, Steps
  <2>5. Handles'
    BY <1>1, <2>1, <2>2 DEF Ftp!task, Handles, BeforeData, Login
  <2> QED
    BY <2>3, <2>4, <2>5 DEF Shape
<1>2. CASE Ftp!Judge("port") /\ Ftp!Fail("port")
  BY <1>2, FailKeepsShape DEF Ftp!Judge
<1>3. CASE /\ Ftp!Judge("port")
           /\ phase' = "accept"
           /\ UNCHANGED <<pc, FtpBuffer, ret, Ftp!channel, Ftp!handles, Ftp!task, Ftp!fixed>>
  <2>1. FtpTypes'
    BY <1>3 DEF Ftp!channel, Ftp!handles, Ftp!task, Ftp!fixed, Shape, FtpTypes
  <2>2. Course'
    BY <1>3 DEF Ftp!Judge, Ftp!task, Shape, Course, Steps
  <2>3. Handles'
    BY <1>3 DEF Ftp!handles, Ftp!task, Shape, Handles, BeforeData
  <2> QED
    BY <2>1, <2>2, <2>3 DEF Shape
<1> QED
  BY <1>1, <1>2, <1>3 DEF Ftp!setupPortDataConn, Ftp!SomebodyConnected

\* The listing.
Kinds == {"number", "word", "month", "date", "clock", "total"}
Tokens == [kind : Kinds, value : Int]

(* Places in listings of so many tokens. *)
LEMMA Places ==
  \A m \in {2, 4, 8, 9} : \A k \in 0 .. m : (k >= 9 => m = 9 /\ k = 9) /\ (m = 4 /\ k >= 4 => k = 4)
OBVIOUS

(* A listing has the size in one place, and is shorter when it is cut. *)
LEMMA ListingIs ==
  ASSUME FtpTypes
  PROVE  /\ Ftp!Listing \in Seq(Tokens) /\ Len(Ftp!Listing) \in {2, 4, 8, 9}
         /\ Len(Ftp!Listing) = 9 => Ftp!Listing[5].value = RemoteSize /\ Ftp!Listing[9].kind = "word"
         /\ Len(Ftp!Listing) = 4 => /\ Ftp!Listing[1].kind = "date" /\ Ftp!Listing[3].value = RemoteSize
                                    /\ Ftp!Listing[4].kind = "word"
         /\ Len(Ftp!Listing) # 4 => Ftp!Listing[1].kind # "date"
<1> DEFINE size == Ftp!Token("number", RemoteSize)
           word == Ftp!Token("word", 0)
           n(k) == Ftp!Token("number", k)
           month == Ftp!Token("month", 0)
           date == Ftp!Token("date", 0)
           clock == Ftp!Token("clock", 0)
           tot == Ftp!Token("total", 0)
<1>1. /\ size \in Tokens /\ size.value = RemoteSize
      /\ word \in Tokens /\ word.kind = "word"
      /\ \A k \in Int : n(k) \in Tokens
      /\ month \in Tokens /\ clock \in Tokens
      /\ date \in Tokens /\ date.kind = "date" /\ tot \in Tokens /\ tot.kind = "total"
  <2>1. \A k \in Kinds, v \in Int :
        Ftp!Token(k, v) \in Tokens /\ Ftp!Token(k, v).kind = k /\ Ftp!Token(k, v).value = v
    BY DEF Ftp!Token, Tokens
  <2>2. RemoteSize \in Int /\ 0 \in Int
    BY FtpAssumption
  <2>3. /\ "number" \in Kinds /\ "word" \in Kinds /\ "month" \in Kinds /\ "date" \in Kinds
        /\ "clock" \in Kinds /\ "total" \in Kinds
    BY DEF Kinds
  <2> QED
    BY <2>1, <2>2, <2>3
<1>2. Server.listing \in {"unix", "nogid", "dos", "total"}
  BY DEF FtpTypes, Ftp!Servers
<1>3. /\ Server.listing = "unix" =>
            Ftp!Listing = <<word, n(1), word, word, size>> \o <<month, n(7), n(1999)>> \o <<word>>
      /\ Server.listing = "nogid" =>
            Ftp!Listing = <<word, n(1), word, size>> \o <<month, n(7), n(1999)>> \o <<word>>
      /\ Server.listing = "dos" => Ftp!Listing = <<date, clock, size, word>>
      /\ Server.listing = "total" => Ftp!Listing = <<tot, n(8)>>
  BY DEF Ftp!Listing, Ftp!Word
<1>4. n(1) \in Tokens /\ n(7) \in Tokens /\ n(1999) \in Tokens /\ n(8) \in Tokens
  BY <1>1
<1> HIDE DEF size, word, n, month, date, clock, tot
<1>5. CASE Server.listing = "unix"
  <2>1. Ftp!Listing = <<word, n(1), word, word, size, month, n(7), n(1999), word>>
    BY <1>3, <1>5
  <2> QED
    BY <2>1, <1>1, <1>4
<1>6. CASE Server.listing = "nogid"
  <2>1. Ftp!Listing = <<word, n(1), word, size, month, n(7), n(1999), word>>
    BY <1>3, <1>6
  <2> QED
    BY <2>1, <1>1, <1>4
<1>7. CASE Server.listing = "dos"
  <2>1. Ftp!Listing = <<date, clock, size, word>>
    BY <1>3, <1>7
  <2>2. Len(Ftp!Listing) = 4 /\ Ftp!Listing[1] = date /\ Ftp!Listing[3] = size /\ Ftp!Listing[4] = word
    BY <2>1
  <2>3. Ftp!Listing \in Seq(Tokens)
    BY <2>1, <1>1
  <2> QED
    BY <2>2, <2>3, <1>1
<1>8. CASE Server.listing = "total"
  <2>1. Ftp!Listing = <<tot, n(8)>>
    BY <1>3, <1>8
  <2>2. Len(Ftp!Listing) = 2 /\ Ftp!Listing[1] = tot
    BY <2>1
  <2>3. Ftp!Listing \in Seq(Tokens)
    BY <2>1, <1>1, <1>4
  <2> QED
    BY <2>2, <2>3, <1>1
<1> QED
  BY <1>2, <1>5, <1>6, <1>7, <1>8

(* A size read off a listing, however much of it has arrived, is the file's. *)
LEMMA ParsedSize ==
  ASSUME FtpTypes, NEW t \in Ftp!Arrivals
  PROVE  Ftp!parse(t) \in {-1, RemoteSize}
<1> DEFINE L == Ftp!Listing
<1>1. /\ L \in Seq(Tokens) /\ Len(L) \in {2, 4, 8, 9}
      /\ Len(L) = 9 => L[5].value = RemoteSize /\ L[9].kind = "word"
      /\ Len(L) = 4 => L[1].kind = "date" /\ L[3].value = RemoteSize /\ L[4].kind = "word"
      /\ Len(L) # 4 => L[1].kind # "date"
  BY ListingIs
<1>2. \/ \E k \in 0 .. Len(L) : t = SubSeq(L, 1, k)
      \/ \E k \in 1 .. Len(L) : /\ L[k].kind = "number"
                                /\ t = Append(SubSeq(L, 1, k - 1), Ftp!Token("number", L[k].value \div 10))
  BY DEF Ftp!Arrivals
<1> HIDE DEF L
<1>3. ASSUME NEW k \in 0 .. Len(L), t = SubSeq(L, 1, k)
      PROVE  Len(t) = k /\ \A j \in 1 .. k : t[j] = L[j]
  BY <1>1, <1>3, SubSeqProperties
<1>4. ASSUME NEW k \in 1 .. Len(L), L[k].kind = "number",
             t = Append(SubSeq(L, 1, k - 1), Ftp!Token("number", L[k].value \div 10))
      PROVE  /\ Len(t) = k /\ (\A j \in 1 .. k - 1 : t[j] = L[j])
             /\ t[k].kind = "number"
  <2> DEFINE cut == Ftp!Token("number", L[k].value \div 10)
             s == SubSeq(L, 1, k - 1)
  <2>1. cut.kind = "number"
    BY DEF Ftp!Token
  <2>2. s \in Seq(Tokens) /\ Len(s) = k - 1 /\ \A j \in 1 .. k - 1 : s[j] = L[j]
    BY <1>1, SubSeqProperties
  <2> HIDE DEF cut, s
  <2>3. t = Append(s, cut)
    BY <1>4 DEF s, cut
  <2>4. Len(t) = k /\ t[k] = cut /\ \A j \in 1 .. k - 1 : t[j] = s[j]
    BY <2>2, <2>3
  <2> QED
    BY <2>1, <2>2, <2>4
<1>5. /\ Len(t) \in 0 .. Len(L)
      /\ \A j \in 1 .. Len(t) - 1 : t[j] = L[j]
      /\ Len(t) > 0 => t[Len(t)] = L[Len(t)] \/ (t[Len(t)].kind = "number" /\ L[Len(t)].kind = "number")
  <2>1. CASE \E k \in 0 .. Len(L) : t = SubSeq(L, 1, k)
    <3>1. PICK k \in 0 .. Len(L) : t = SubSeq(L, 1, k)
      BY <2>1
    <3>2. Len(t) = k /\ \A j \in 1 .. k : t[j] = L[j]
      BY <1>3, <3>1
    <3> QED
      BY <1>1, <3>2
  <2>2. CASE \E k \in 1 .. Len(L) : /\ L[k].kind = "number"
                                    /\ t = Append(SubSeq(L, 1, k - 1), Ftp!Token("number", L[k].value \div 10))
    <3>1. PICK k \in 1 .. Len(L) : /\ L[k].kind = "number"
                                  /\ t = Append(SubSeq(L, 1, k - 1), Ftp!Token("number", L[k].value \div 10))
      BY <2>2
    <3>2. /\ Len(t) = k /\ (\A j \in 1 .. k - 1 : t[j] = L[j])
          /\ t[k].kind = "number"
      BY <1>4, <3>1
    <3> QED
      BY <1>1, <3>1, <3>2
  <2> QED
    BY <1>2, <2>1, <2>2
<1>6. Ftp!parse(t) \in {-1, Ftp!process_dos(t), Ftp!process_unix(t)}
  BY DEF Ftp!parse
<1>7. Ftp!process_unix(t) \in {-1, RemoteSize}
  <2>1. CASE Len(t) >= 9
    <3>1. Len(L) = 9 /\ Len(t) = 9
      <4>1. Len(L) \in {2, 4, 8, 9} /\ Len(t) \in 0 .. Len(L)
        BY <1>1, <1>5
      <4> QED
        BY <4>1, <2>1, Places
    <3>2. t[5] = L[5]
      BY <1>5, <3>1
    <3> QED
      BY <1>1, <3>1, <3>2 DEF Ftp!process_unix
  <2>2. CASE ~(Len(t) >= 9)
    BY <2>2 DEF Ftp!process_unix
  <2> QED
    BY <2>1, <2>2
<1>8. Ftp!parse(t) = Ftp!process_dos(t) => Ftp!parse(t) \in {-1, RemoteSize}
  <2>1. CASE t # <<>> /\ t[1].kind = "date"
    <3>1. CASE Len(t) >= 4
      <4>1. t[1] = L[1]
        BY <1>5, <3>1
      <4>2. Len(L) = 4 /\ Len(t) = 4
        <5>1. Len(L) \in {2, 4, 8, 9} /\ Len(t) \in 0 .. Len(L)
          BY <1>1, <1>5
        <5>2. ~(Len(L) # 4)
          BY <1>1, <2>1, <4>1
        <5> QED
          BY <5>1, <5>2, <3>1, Places
      <4>3. t[3] = L[3]
        BY <1>5, <4>2
      <4> QED
        BY <1>1, <4>2, <4>3 DEF Ftp!process_dos
    <3>2. CASE ~(Len(t) >= 4)
      BY <3>2 DEF Ftp!process_dos
    <3> QED
      BY <3>1, <3>2
  <2>2. CASE ~(t # <<>> /\ t[1].kind = "date")
    <3>1. Ftp!parse(t) \in {-1, Ftp!process_unix(t)}
      BY <2>2 DEF Ftp!parse
    <3> QED
      BY <3>1, <1>7
  <2> QED
    BY <2>1, <2>2
<1> QED
  BY <1>6, <1>7, <1>8

LEMMA RestKeepsShape == Shape /\ Ftp!ftp_rest => Shape'
<1> SUFFICES ASSUME Shape, Ftp!ftp_rest PROVE Shape'
  OBVIOUS
<1>1. phase = "judge" /\ pc = "rest" /\ pc # "end" /\ pc \in Steps
  BY DEF Ftp!ftp_rest, Ftp!Judge, Shape, Course
<1>2. CASE /\ Caller = "info"
           /\ IsResumeSupport' = Ftp!Positive(3)
           /\ pc' = Ftp!AfterRest /\ phase' = "send"
           /\ UNCHANGED <<FtpBuffer, ret, Ftp!channel, Ftp!handles,
                          Caller, attempt, IsPasv, FileSize, result, Ftp!fixed>>
  <2>1. IsResumeSupport' \in BOOLEAN
    BY <1>2 DEF Ftp!Positive, Shape, FtpTypes
  <2>2. pc' = "size" /\ pc \in BeforeData /\ pc' \in BeforeData'
    BY <1>1, <1>2 DEF Ftp!AfterRest, BeforeData
  <2>3. FtpTypes'
    BY <1>2, <2>1 DEF Ftp!channel, Ftp!handles, Ftp!fixed, Shape, FtpTypes
  <2>4. Course'
    BY <1>2, <2>2 DEF Shape, Course, Steps
  <2>5. Handles'
    BY <1>1, <1>2, <2>2 DEF Ftp!handles, Shape, Handles
  <2> QED
    BY <2>3, <2>4, <2>5 DEF Shape
<1>3. CASE Ftp!Goto(Ftp!AfterRest) /\ Caller # "info"
  <2>1. Ftp!AfterRest \in Steps \ {"greeting", "connect", "end"} /\ Ftp!AfterRest \notin BeforeData
    BY <1>1, <1>3 DEF Ftp!AfterRest, Steps, BeforeData, Login, Shape, FtpTypes
  <2> QED
    BY <1>1, <1>3, <2>1, GotoKeepsShape
<1>4. CASE Ftp!Fail("rest")
  BY <1>1, <1>4, FailKeepsShape
<1> QED
  BY <1>2, <1>3, <1>4 DEF Ftp!ftp_rest

(* The size is known: the file that is asked for is the thread's. *)
LEMMA ThreadBegins ==
  ASSUME Shape, FileSize' \in Int, IsResumeSupport' = (FileSize' # -1), result' = TRUE,
         leaked' \in {0, 1}, ctrl' = FALSE, data' = FALSE, listening' = FALSE,
         Caller = "info", Caller' = "thread", pc' = "connect", phase' = "send",
         UNCHANGED <<FtpBuffer, ret, Ftp!channel, attempt, IsPasv, Ftp!fixed>>
  PROVE  Shape'
<1>1. attempt = 0 /\ 0 < MaxAttempts
  BY FtpAssumption DEF Shape, Course
<1>2. FtpTypes'
  <2>1. IsResumeSupport' \in BOOLEAN /\ leaked' \in Nat
    OBVIOUS
  <2> QED
    BY <2>1 DEF Ftp!channel, Ftp!fixed, Shape, FtpTypes
<1>3. Course'
  BY <1>1 DEF Shape, Course, Steps
<1>4. Handles'
  BY <1>1 DEF Handles, BeforeData
<1> QED
  BY <1>2, <1>3, <1>4 DEF Shape

LEMMA SizeKeepsShape == Shape /\ Ftp!SizeKnown => Shape'
<1> SUFFICES ASSUME Shape, Ftp!SizeKnown PROVE Shape'
  OBVIOUS
<1>1. phase = "judge" /\ pc = "size" /\ pc # "end" /\ pc \in Steps
  BY DEF Ftp!SizeKnown, Ftp!Judge, Shape, Course
<1>2. Caller = "info" /\ pc \in BeforeData
  BY <1>1 DEF Shape, FtpTypes, Steps, Login, BeforeData
<1>3. PICK r \in Ftp!ftp_size :
          \/ /\ r.ok /\ r.size # -1
             /\ FileSize' = r.size /\ IsResumeSupport' = TRUE /\ result' = TRUE
             /\ leaked' = leaked + Ftp!Open(ctrl) + Ftp!Open(data)
             /\ ctrl' = FALSE /\ data' = FALSE
             /\ Caller' = "thread" /\ pc' = "connect" /\ phase' = "send"
             /\ UNCHANGED <<FtpBuffer, ret, Ftp!channel, listening, attempt, IsPasv, Ftp!fixed>>
          \/ r.ok /\ r.size = -1 /\ Ftp!Goto(Ftp!DataStep)
          \/ ~r.ok /\ Ftp!Fail("size")
  BY DEF Ftp!SizeKnown
<1>4. r.size \in Int /\ FileSize = -1
  <2>1. FileSize = -1
    BY <1>2 DEF Shape, Course
  <2> QED
    <3>1. CASE ~ret
      BY <3>1, <2>1 DEF Ftp!ftp_size
    <3>2. CASE ret /\ FtpBuffer.first = 2
      BY <3>2, <2>1, FtpAssumption DEF Ftp!ftp_size, Ftp!Scanned
    <3>3. CASE ret /\ FtpBuffer.first # 2
      <4>1. \/ r = [ok |-> FALSE, size |-> FileSize]
            \/ r \in {[ok |-> b, size |-> FileSize] : b \in BOOLEAN}
        BY <3>3 DEF Ftp!ftp_size
      <4>2. r.size = FileSize
        BY <4>1
      <4> QED
        BY <4>2, <2>1
    <3> QED
      BY <3>1, <3>2, <3>3
<1>5. CASE /\ r.size # -1
           /\ FileSize' = r.size /\ IsResumeSupport' = TRUE /\ result' = TRUE
           /\ leaked' = leaked + Ftp!Open(ctrl) + Ftp!Open(data)
           /\ ctrl' = FALSE /\ data' = FALSE
           /\ Caller' = "thread" /\ pc' = "connect" /\ phase' = "send"
           /\ UNCHANGED <<FtpBuffer, ret, Ftp!channel, listening, attempt, IsPasv, Ftp!fixed>>
  <2>1. leaked = 0 /\ ~data /\ listening = FALSE
    BY <1>1, <1>2 DEF Shape, Handles, FtpTypes
  <2>2. leaked' \in {0, 1} /\ listening' = FALSE
    BY <1>5, <2>1 DEF Ftp!Open
  <2>3. IsResumeSupport' = (FileSize' # -1)
    BY <1>5
  <2> QED
    BY <1>2, <1>4, <1>5, <2>2, <2>3, ThreadBegins
<1>6. CASE Ftp!Goto(Ftp!DataStep)
  <2>1. Ftp!DataStep \in Steps \ {"greeting", "connect", "end"}
    BY <1>2 DEF Ftp!DataStep, Steps, Shape, Course
  <2> QED
    BY <1>1, <1>2, <1>6, <2>1, GotoKeepsShape
<1>7. CASE Ftp!Fail("size")
  BY <1>1, <1>7, FailKeepsShape
<1> QED
  BY <1>3, <1>5, <1>6, <1>7

LEMMA ListingKeepsShape == Shape /\ Ftp!ReadListing => Shape'
<1> SUFFICES ASSUME Shape, Ftp!ReadListing PROVE Shape'
  OBVIOUS
<1>1. pc = "listing" /\ pc # "end" /\ pc \in Steps
  BY DEF Ftp!ReadListing, Shape, Course
<1>2. CASE Ftp!Fail("listing")
  BY <1>1, <1>2, FailKeepsShape
<1>3. CASE Caller = "list" /\ Ftp!Return(TRUE, ctrl, data)
  <2>1. ctrl \in BOOLEAN /\ data \in BOOLEAN /\ TRUE \in BOOLEAN
    BY DEF Shape, FtpTypes
  <2> QED
    BY <1>1, <1>3, <2>1, ReturnKeepsShape
<1>4. CASE /\ Caller = "info"
           /\ \E t \in Ftp!Arrivals :
                /\ FileSize' = Ftp!parse(t)
                /\ IsResumeSupport' = (Ftp!parse(t) # -1)
           /\ ctrl' = FALSE /\ data' = FALSE /\ leaked' = leaked + Ftp!Open(listening)
           /\ listening' = FALSE /\ result' = TRUE
           /\ Caller' = "thread" /\ pc' = "connect" /\ phase' = "send"
           /\ UNCHANGED <<FtpBuffer, ret, Ftp!channel, attempt, IsPasv, Ftp!fixed>>
  <2>1. FileSize' \in Int /\ IsResumeSupport' = (FileSize' # -1)
    BY <1>4, ParsedSize, FtpAssumption DEF Shape
  <2>2. leaked = 0 /\ ~listening
    BY <1>1, <1>4 DEF Shape, Handles
  <2>3. leaked' \in {0, 1}
    BY <1>4, <2>2 DEF Ftp!Open
  <2> QED
    BY <1>4, <2>1, <2>3, ThreadBegins
<1> QED
  BY <1>2, <1>3, <1>4 DEF Ftp!ReadListing

LEMMA ServerKeepsShape == Shape /\ Ftp!ServerGivesUp => Shape'
<1> SUFFICES ASSUME Shape, Ftp!ServerGivesUp PROVE Shape'
  OBVIOUS
<1>1. FtpTypes'
  BY DEF Ftp!ServerGivesUp, Ftp!dialogue, Ftp!handles, Ftp!task, Ftp!fixed, Shape, FtpTypes
<1>2. Course'
  BY DEF Ftp!ServerGivesUp, Ftp!dialogue, Ftp!handles, Ftp!task, Ftp!fixed, Shape, Course, Steps
<1>3. Handles'
  BY DEF Ftp!ServerGivesUp, Ftp!dialogue, Ftp!handles, Ftp!task, Ftp!fixed, Shape, Handles, BeforeData
<1> QED
  BY <1>1, <1>2, <1>3 DEF Shape

LEMMA ShapeIsKept == Shape /\ (Ftp!ClientStep \/ Ftp!ServerGivesUp) => Shape'
BY ConnectKeepsShape, SendKeepsShape, ReplyKeepsShape, JudgeKeepsShape, PasvKeepsShape, PortKeepsShape,
   RestKeepsShape, SizeKeepsShape, ListingKeepsShape, ReceiveKeepsShape, ServerKeepsShape DEF Ftp!ClientStep

-----------------------------------------------------------------------------
\* A thread and its server.
Talk == LoginTalk /\ DataTalk /\ RetrTalk

(* Nothing is asked of the dialogue between two attempts, and in PORT mode. *)
LEMMA QuietTalk == pc' \notin Login \cup {"pasv", "rest", "retr", "receive"} => Talk'
BY DEF Talk, LoginTalk, DataTalk, RetrTalk, Login

(* A thread whose call has returned begins again, or has ended. *)
LEMMA FailEndsTalk ==
  ASSUME Caller = "thread", NEW c, Ftp!Fail(c)
  PROVE  Talk'
<1>1. pc' \in {"connect", "end"}
  BY DEF Ftp!Fail, Ftp!Return
<1> QED
  BY <1>1, QuietTalk DEF Login

LEMMA ReturnEndsTalk ==
  ASSUME Caller = "thread", NEW ok, NEW c, NEW d, Ftp!Return(ok, c, d)
  PROVE  Talk'
<1>1. pc' \in {"connect", "end"}
  BY DEF Ftp!Return
<1> QED
  BY <1>1, QuietTalk DEF Login

(* The lines of a server that greets. *)
LEMMA ConnectTalks == Shape /\ Caller = "thread" /\ Ftp!setupCtrlConn => Talk'
<1> SUFFICES ASSUME Shape, Caller = "thread", Ftp!setupCtrlConn PROVE Talk'
  OBVIOUS
<1>1. CASE Ftp!Fail("greeting")
  BY <1>1, FailEndsTalk
<1>2. CASE ~Ftp!Fail("greeting")
  <2>1. PICK d \in {2, 4}, r \in Ftp!Replies("greeting", 2) :
            lines' = IF d = 2 THEN r ELSE <<Ftp!Line(4, TRUE, "greeting")>>
    BY <1>2 DEF Ftp!setupCtrlConn
  <2>2. pc' = "greeting" /\ srv' = Ftp!NewSession
    BY <1>2 DEF Ftp!setupCtrlConn
  <2>3. r \in Seq(Lines) /\ \A j \in DOMAIN r : r[j].of = "greeting"
    <3>1. 2 \in 0 .. 5 /\ "greeting" \in Ftp!Commands
      BY DEF Ftp!Commands
    <3>2. r \in Seq(Lines) /\ \A j \in 1 .. Len(r) : r[j].of = "greeting"
      BY <3>1, RepliesAre
    <3> QED
      BY <3>2, LenProperties
  <2>4. \A j \in DOMAIN lines' : lines'[j].of = "greeting"
    <3> DEFINE line == Ftp!Line(4, TRUE, "greeting")
    <3>1. line.of = "greeting"
      BY DEF Ftp!Line
    <3> HIDE DEF line
    <3>2. lines' = r \/ lines' = <<line>>
      BY <2>1 DEF line
    <3>3. DOMAIN <<line>> = {1} /\ <<line>>[1] = line
      OBVIOUS
    <3> QED
      BY <2>3, <3>1, <3>2, <3>3
  <2>5. srv'.type = "A" /\ srv'.inDir = FALSE /\ srv'.from = 0 /\ ~srv'.sending
    BY <2>2 DEF Ftp!NewSession
  <2> QED
    BY <2>2, <2>4, <2>5 DEF Talk, LoginTalk, DataTalk, RetrTalk, Login, Told
<1> QED
  BY <1>1, <1>2

(* The next command: what the server has been told and what is unread stay. *)
LEMMA GotoTold ==
  ASSUME NEW c, Ftp!Goto(c), NEW t, NEW d, Told(t, d), FtpBuffer.first # 5
  PROVE  Told(t, d)' /\ pc' = c /\ phase' = "send"
         /\ UNCHANGED <<lines, srv, conn, Url, Server, RemoteStartPos, IsResumeSupport>>
BY DEF Ftp!Goto, Ftp!channel, Ftp!task, Ftp!fixed, Told, Pending

LEMMA GotoTalks ==
  ASSUME Shape, Caller = "thread", Talk,
         \/ Ftp!JudgeGreeting \/ Ftp!ftp_login \/ Ftp!ftp_binary \/ Ftp!ftp_cwd
  PROVE  Talk'
<1>1. phase = "judge" /\ pc \in Login
  BY DEF Ftp!JudgeGreeting, Ftp!ftp_login, Ftp!ftp_binary, Ftp!ftp_cwd, Ftp!Judge, Login
<1>2. ASSUME NEW c, Ftp!Fail(c) PROVE Talk'
  BY <1>2, FailEndsTalk
<1>3. \A j \in DOMAIN lines : lines[j].of \in Login
  BY <1>1 DEF Talk, LoginTalk
<1>4. CASE \/ Ftp!JudgeGreeting /\ Ftp!Positive(2) /\ Ftp!Goto("user")
           \/ pc \in {"user", "pass"} /\ FtpBuffer.first = 3 /\ Ftp!Goto("pass")
           \/ pc \in {"user", "pass"} /\ FtpBuffer.first = 2 /\ Ftp!Goto("type")
  <2>1. pc \in {"greeting", "user", "pass"} /\ FtpBuffer.first \in {2, 3}
    BY <1>4 DEF Ftp!JudgeGreeting, Ftp!Judge, Ftp!Positive
  <2>4. Told("A", FALSE)
    BY <2>1, Zenon DEF Talk, LoginTalk
  <2>5. FtpBuffer.first # 5
    BY <2>1
  <2>2. PICK c \in {"user", "pass", "type"} : Ftp!Goto(c)
    BY <1>4
  <2>3. Told("A", FALSE)' /\ pc' = c /\ phase' = "send" /\ UNCHANGED lines
    BY <2>2, <2>4, <2>5, GotoTold
  <2> QED
    BY <1>3, <2>3 DEF Talk, LoginTalk, DataTalk, RetrTalk
<1>5. CASE pc = "type" /\ FtpBuffer.first = 2 /\ Ftp!Goto(Ftp!AfterType)
  <2>1. Told("I", FALSE)
    BY <1>1, <1>5, Zenon DEF Talk, LoginTalk
  <2>7. FtpBuffer.first # 5
    BY <1>5
  <2> DEFINE next == Ftp!AfterType
  <2>5. Ftp!Goto(next)
    BY <1>5
  <2> HIDE DEF next
  <2>6. /\ Told("I", FALSE)' /\ pc' = next /\ phase' = "send"
        /\ UNCHANGED <<lines, srv, conn, Url, Server, RemoteStartPos, IsResumeSupport>>
    BY <2>1, <2>5, <2>7, GotoTold
  <2>2. /\ Told("I", FALSE)' /\ pc' = Ftp!AfterType /\ phase' = "send"
        /\ UNCHANGED <<lines, srv, conn, Url, Server, RemoteStartPos, IsResumeSupport>>
    BY <2>6 DEF next
  <2>3. CASE Url = "dir"
    <3>1. pc' = "cwd" /\ Url' = "dir"
      BY <2>2, <2>3 DEF Ftp!AfterType
    <3> QED
      BY <1>3, <2>2, <3>1 DEF Talk, LoginTalk, DataTalk, RetrTalk
  <2>4. CASE Url # "dir"
    <3>1. pc' \in {"pasv", "listen"} /\ Url' # "dir" /\ (Url' = "dir") = FALSE
      BY <2>2, <2>4 DEF Ftp!AfterType, Ftp!AfterDir, Ftp!DataStep
    <3>2. Told("I", Url = "dir")'
      BY <2>2, <3>1 DEF Told
    <3> QED
      BY <1>3, <2>2, <3>1, <3>2 DEF Talk, LoginTalk, DataTalk, RetrTalk, Login
  <2> QED
    BY <2>3, <2>4
<1>6. CASE pc = "cwd" /\ FtpBuffer.first = 2 /\ Ftp!Goto(Ftp!AfterDir)
  <2>1. Told("I", TRUE) /\ Url = "dir"
    BY <1>1, <1>6, Zenon DEF Talk, LoginTalk
  <2>7. FtpBuffer.first # 5
    BY <1>6
  <2> DEFINE next == Ftp!AfterDir
  <2>5. Ftp!Goto(next)
    BY <1>6
  <2> HIDE DEF next
  <2>6. /\ Told("I", TRUE)' /\ pc' = next /\ phase' = "send"
        /\ UNCHANGED <<lines, srv, conn, Url, Server, RemoteStartPos, IsResumeSupport>>
    BY <2>1, <2>5, <2>7, GotoTold
  <2>2. /\ Told("I", TRUE)' /\ pc' = Ftp!AfterDir /\ phase' = "send"
        /\ UNCHANGED <<lines, srv, conn, Url, Server, RemoteStartPos, IsResumeSupport>>
    BY <2>6 DEF next
  <2>3. pc' \in {"pasv", "listen"} /\ (Url' = "dir") = TRUE
    BY <2>1, <2>2 DEF Ftp!AfterDir, Ftp!DataStep
  <2>4. Told("I", Url = "dir")'
    BY <2>2, <2>3 DEF Told
  <2> QED
    BY <1>3, <2>2, <2>3, <2>4 DEF Talk, LoginTalk, DataTalk, RetrTalk, Login
<1> QED
  <2>1. CASE Ftp!JudgeGreeting
    BY <1>2, <1>4, <2>1 DEF Ftp!JudgeGreeting
  <2>2. CASE Ftp!ftp_login
    <3>1. Ftp!AfterLogin = "type"
      BY DEF Ftp!AfterLogin
    <3> QED
      BY <1>2, <1>4, <2>2, <3>1 DEF Ftp!ftp_login, Ftp!Judge, Ftp!LoggedIn, Ftp!WantsPass, Ftp!Positive
  <2>3. CASE Ftp!ftp_binary
    BY <1>2, <1>5, <2>3 DEF Ftp!ftp_binary, Ftp!Judge, Ftp!Positive
  <2>4. CASE Ftp!ftp_cwd
    BY <1>2, <1>6, <2>4 DEF Ftp!ftp_cwd, Ftp!Judge, Ftp!Positive
  <2> QED
    BY <2>1, <2>2, <2>3, <2>4

(* What is read next was on the way, and nothing else changes. *)
LEMMA ReadingIs ==
  ASSUME Shape, Ftp!getReply \/ Ftp!RecvTimeout \/ Ftp!GetLineAtEof
  PROVE  /\ phase = "reply" /\ phase' # "send"
         /\ UNCHANGED <<pc, conn, srv, Caller, IsResumeSupport, Url, Server, RemoteStartPos>>
         /\ \/ UNCHANGED <<lines, FtpBuffer>>
            \/ /\ lines # <<>> /\ FtpBuffer' = lines[1] /\ lines' = Tail(lines)
               /\ DOMAIN lines = 1 .. Len(lines) /\ Len(lines) \in Nat \ {0}
               /\ DOMAIN lines' = 1 .. Len(lines) - 1 /\ Len(lines') = Len(lines) - 1
               /\ \A j \in DOMAIN lines' : j + 1 \in DOMAIN lines /\ lines'[j] = lines[j + 1]
               /\ lines[1].ends => phase' = "judge"
<1>1. /\ phase = "reply" /\ phase' # "send"
      /\ UNCHANGED <<pc, conn, srv, Caller, IsResumeSupport, Url, Server, RemoteStartPos>>
  BY DEF Ftp!getReply, Ftp!RecvTimeout, Ftp!GetLineAtEof, Ftp!task, Ftp!fixed, Ftp!channel
<1>2. CASE Ftp!RecvTimeout \/ Ftp!GetLineAtEof
  BY <1>1, <1>2 DEF Ftp!RecvTimeout, Ftp!GetLineAtEof, Ftp!channel
<1>3. CASE Ftp!getReply
  <2>1. lines # <<>> /\ FtpBuffer' = Head(lines) /\ lines' = Tail(lines) /\ lines \in Seq(Lines)
    BY <1>3 DEF Ftp!getReply, Shape, FtpTypes
  <2>2. Head(lines) = lines[1] /\ Len(lines) \in Nat \ {0} /\ DOMAIN lines = 1 .. Len(lines)
    BY <2>1
  <2>3. lines[1].ends => phase' = "judge"
    BY <1>3, <2>2 DEF Ftp!getReply
  <2>4. /\ DOMAIN lines' = 1 .. Len(lines) - 1 /\ Len(lines') = Len(lines) - 1
        /\ \A j \in DOMAIN lines' : j + 1 \in DOMAIN lines /\ lines'[j] = lines[j + 1]
    BY <2>1, <2>2
  <2> QED
    BY <1>1, <2>1, <2>2, <2>3, <2>4
<1> QED
  BY <1>2, <1>3

(* A refusal on the way stays there, until it is the reply that is judged. *)
LEMMA RefusalStays ==
  ASSUME Shape, Ftp!getReply \/ Ftp!RecvTimeout \/ Ftp!GetLineAtEof, Pending
  PROVE  Pending' \/ (phase' = "judge" /\ FtpBuffer'.first = 5)
<1>1. CASE UNCHANGED <<lines, FtpBuffer>>
  BY <1>1 DEF Pending
<1>2. CASE ~UNCHANGED <<lines, FtpBuffer>>
  <2>1. PICK j \in DOMAIN lines : Refusal(lines[j])
    BY DEF Pending
  <2>2. /\ FtpBuffer' = lines[1]
        /\ DOMAIN lines = 1 .. Len(lines) /\ Len(lines) \in Nat \ {0}
        /\ DOMAIN lines' = 1 .. Len(lines) - 1
        /\ \A i \in DOMAIN lines' : lines'[i] = lines[i + 1]
        /\ lines[1].ends => phase' = "judge"
    BY <1>2, ReadingIs
  <2>3. CASE j = 1
    BY <2>1, <2>2, <2>3 DEF Refusal
  <2>4. CASE j # 1
    <3>1. j - 1 \in DOMAIN lines' /\ lines'[j - 1] = lines[j]
      BY <2>2, <2>4
    <3> QED
      BY <2>1, <3>1 DEF Pending
  <2> QED
    BY <2>3, <2>4
<1> QED
  BY <1>1, <1>2

LEMMA ReadingTalks ==
  ASSUME Shape, Talk, Ftp!getReply \/ Ftp!RecvTimeout \/ Ftp!GetLineAtEof
  PROVE  Talk'
<1>1. /\ phase = "reply" /\ phase' # "send" /\ phase # "send" /\ phase # "judge"
      /\ UNCHANGED <<pc, conn, srv, Caller, IsResumeSupport, Url, Server, RemoteStartPos>>
  BY ReadingIs
<1>2. /\ \A j \in DOMAIN lines' : \E k \in DOMAIN lines : lines'[j] = lines[k]
      /\ FtpBuffer' = FtpBuffer \/ \E k \in DOMAIN lines : FtpBuffer' = lines[k]
  <2>1. CASE UNCHANGED <<lines, FtpBuffer>>
    BY <2>1
  <2>2. CASE ~UNCHANGED <<lines, FtpBuffer>>
    <3>1. /\ FtpBuffer' = lines[1]
          /\ DOMAIN lines = 1 .. Len(lines) /\ Len(lines) \in Nat \ {0}
          /\ \A j \in DOMAIN lines' : j + 1 \in DOMAIN lines /\ lines'[j] = lines[j + 1]
      BY <2>2, ReadingIs
    <3> QED
      BY <3>1
  <2> QED
    BY <2>1, <2>2
<1>3. ASSUME NEW t, NEW d, Told(t, d)
      PROVE  Told(t, d)'
  BY <1>1, <1>3, RefusalStays DEF Told
<1>4. LoginTalk'
  <2>1. pc' \in Login \/ (pc' = "pasv" /\ phase' = "send") => \A j \in DOMAIN lines' : lines'[j].of \in Login
    BY <1>1, <1>2 DEF Talk, LoginTalk
  <2>2. pc \in {"greeting", "user", "pass"} => Told("A", FALSE)'
    BY <1>3, Zenon DEF Talk, LoginTalk
  <2>3. pc = "type" => Told("I", FALSE)'
    BY <1>1, <1>3, Zenon DEF Talk, LoginTalk
  <2>4. pc = "cwd" => Url = "dir" /\ Told("I", TRUE)'
    BY <1>1, <1>3, Zenon DEF Talk, LoginTalk
  <2> QED
    BY <1>1, <2>1, <2>2, <2>3, <2>4, Zenon DEF LoginTalk
<1>5. DataTalk'
  <2> SUFFICES ASSUME pc = "pasv"
               PROVE  /\ phase' = "reply" => \A j \in DOMAIN lines' :
                           \/ lines'[j].of \in Login
                           \/ lines'[j].of = "pasv" /\ j = Len(lines') /\ (Pending' \/ Waiting')
                      /\ FtpBuffer'.of = "pasv" => lines' = <<>> /\ Waiting'
    BY <1>1 DEF DataTalk
  <2>1. /\ \A j \in DOMAIN lines :
              lines[j].of \in Login \/ (lines[j].of = "pasv" /\ j = Len(lines) /\ (Pending \/ Waiting))
        /\ FtpBuffer.of = "pasv" => lines = <<>> /\ Waiting
    BY <1>1 DEF Talk, DataTalk
  <2>2. Waiting => Waiting'
    BY <1>1 DEF Waiting, InPlace
  <2>3. CASE UNCHANGED <<lines, FtpBuffer>>
    <3>1. Pending => Pending'
      BY <2>3 DEF Pending
    <3> QED
      BY <2>1, <2>2, <2>3, <3>1
  <2>4. CASE ~UNCHANGED <<lines, FtpBuffer>>
    <3>1. /\ lines # <<>> /\ FtpBuffer' = lines[1] /\ lines' = Tail(lines)
          /\ DOMAIN lines = 1 .. Len(lines) /\ Len(lines) \in Nat \ {0}
          /\ DOMAIN lines' = 1 .. Len(lines) - 1 /\ Len(lines') = Len(lines) - 1
          /\ \A j \in DOMAIN lines' : j + 1 \in DOMAIN lines /\ lines'[j] = lines[j + 1]
      BY <2>4, ReadingIs
    <3>2. ASSUME phase' = "reply", NEW j \in DOMAIN lines'
          PROVE  \/ lines'[j].of \in Login
                 \/ lines'[j].of = "pasv" /\ j = Len(lines') /\ (Pending' \/ Waiting')
      <4>1. j + 1 \in DOMAIN lines /\ lines'[j] = lines[j + 1]
        BY <3>1
      <4>2. \/ lines[j + 1].of \in Login
            \/ lines[j + 1].of = "pasv" /\ j + 1 = Len(lines) /\ (Pending \/ Waiting)
        BY <2>1, <4>1
      <4>3. Pending => Pending'
        BY <3>2, RefusalStays
      <4>4. j + 1 = Len(lines) => j = Len(lines')
        BY <3>1
      <4> QED
        BY <2>2, <4>1, <4>2, <4>3, <4>4
    <3>3. ASSUME FtpBuffer'.of = "pasv"
          PROVE  lines' = <<>> /\ Waiting'
      <4>1. "pasv" \notin Login
        BY DEF Login
      <4>2. 1 \in DOMAIN lines
        BY <3>1
      <4>3. 1 = Len(lines) /\ (Pending \/ Waiting)
        BY <2>1, <3>1, <3>3, <4>1, <4>2
      <4>4. ~Pending
        <5>1. \A j \in DOMAIN lines : j = 1
          <6>1. DOMAIN lines = 1 .. 1
            BY <3>1, <4>3
          <6> QED
            BY ONLY <6>1
        <5>2. lines[1].of \notin Login
          BY <3>1, <3>3, <4>1
        <5> QED
          BY <5>1, <5>2, Zenon DEF Pending, Refusal
      <4>5. lines' = <<>>
        <5>1. lines' \in Seq(Lines) /\ Len(lines') = 0
          <6>1. lines \in Seq(Lines)
            BY DEF Shape, FtpTypes
          <6> QED
            BY <3>1, <4>3, <6>1
        <5> QED
          BY <5>1, EmptySeq
      <4> QED
        BY <2>2, <4>3, <4>4, <4>5
    <3> QED
      BY <3>2, <3>3
  <2> QED
    BY <2>3, <2>4
<1>6. RetrTalk'
  <2>1. Resumed' = Resumed /\ Placed' = Placed
    BY <1>1 DEF Resumed, Placed, InPlace
  <2>2. CASE pc = "rest"
    BY <1>1, <1>2, <2>1, <2>2 DEF Talk, RetrTalk
  <2>3. CASE pc = "retr"
    BY <1>1, <1>2, <2>1, <2>3 DEF Talk, RetrTalk
  <2>4. CASE pc \notin {"rest", "retr"}
    BY <1>1, <2>1, <2>4 DEF Talk, RetrTalk
  <2> QED
    BY <2>2, <2>3, <2>4
<1> QED
  BY <1>4, <1>5, <1>6 DEF Talk

(* A command is sent: the server has done it, or its refusal is on the way. *)
LEMMA SendTalks ==
  ASSUME Shape, Caller = "thread", Talk, Ftp!Send
  PROVE  Talk'
<1>1. /\ phase = "send" /\ phase' # "send" /\ phase # "judge" /\ pc \in Ftp!Commands \ {"greeting"}
      /\ FtpBuffer'.first = 0 /\ FtpBuffer'.of = "none" /\ "none" # "pasv"
      /\ UNCHANGED <<pc, conn, Caller, IsResumeSupport, Url, Server, RemoteStartPos>>
  BY SendIs
<1>2. CASE conn # "up" /\ UNCHANGED <<lines, srv>>
  <2>1. \A t, d : Told(t, d)'
    BY <1>1, <1>2 DEF Told
  <2>2. LoginTalk'
    <3>1. pc \in Login => (\A j \in DOMAIN lines' : lines'[j].of \in Login) /\ (pc = "cwd" => Url = "dir")
      BY <1>2 DEF Talk, LoginTalk
    <3>2. /\ Told("A", FALSE)' /\ Told("I", FALSE)' /\ Told("I", TRUE)' /\ Told("I", Url = "dir")'
      BY <2>1 DEF Told
    <3>3. pc = "cwd" => Url' = "dir"
      BY <1>1, <3>1 DEF Login
    <3> QED
      BY <1>1, <3>1, <3>2, <3>3, Zenon DEF LoginTalk
  <2>3. DataTalk'
    <3>1. pc = "pasv" => \A j \in DOMAIN lines' : lines'[j].of \in Login
      BY <1>1, <1>2 DEF Talk, LoginTalk
    <3> QED
      BY <1>1, <3>1 DEF DataTalk
  <2>4. RetrTalk'
    <3>1. Placed' = Placed
      BY <1>1, <1>2 DEF Placed, InPlace
    <3> QED
      BY <1>1, <1>2, <3>1 DEF Talk, RetrTalk
  <2> QED
    BY <2>2, <2>3, <2>4 DEF Talk
<1>3. CASE conn = "up"
  <2>1. PICK w \in Ftp!ServerDoes(pc), r \in Seq(Lines) :
                     /\ lines' = lines \o r /\ srv' = w.srv
                     /\ Len(r) \in Nat \ {0}
                     /\ \E j \in 1 .. Len(r) : r[j].ends /\ r[j].first = w.digit
                     /\ w.digit # 1 => \A j \in 1 .. Len(r) : r[j].of = pc
                     /\ pc \notin {"user", "pass", "cwd"} /\ w.digit # 1 => Len(r) = 1
    BY <1>3, SendIs
  <2>2. /\ lines \in Seq(Lines) /\ srv \in Sessions /\ RemoteStartPos \in Nat
    BY FtpAssumption DEF Shape, FtpTypes
  <2>3. /\ w.digit \in 0 .. 5
        /\ pc \in {"user", "pass", "pasv", "port", "list", "size"} => w.srv = srv
        /\ pc \in {"user", "pass", "pasv", "port", "size", "type", "ascii", "cwd", "rest"} => w.digit # 1
        /\ pc # "retr" => w.srv.sending = srv.sending
        /\ pc # "rest" => w.srv.from = srv.from
        /\ pc # "cwd" => w.srv.inDir = srv.inDir
        /\ pc \notin {"type", "ascii"} => w.srv.type = srv.type
        /\ pc = "type" /\ w.digit # 5 => w.srv.type = "I"
        /\ pc = "cwd" /\ w.digit # 5 => w.srv.inDir
        /\ pc = "rest" => w.digit \in {3, 5}
        /\ pc = "rest" /\ w.digit = 3 => Server.rest /\ w.srv.from = RemoteStartPos
        /\ pc = "retr" /\ w.digit = 1 => w.srv.sending
    BY <1>1, <2>2, ServerAnswers
  <2>4. /\ Len(lines) \in Nat /\ Len(lines') = Len(lines) + Len(r)
        /\ DOMAIN lines = 1 .. Len(lines) /\ DOMAIN lines' = 1 .. Len(lines')
        /\ \A j \in 1 .. Len(lines) : lines'[j] = lines[j]
        /\ \A j \in 1 .. Len(r) : lines'[Len(lines) + j] = r[j]
    BY <2>1, <2>2, ConcatProperties, LenProperties
  <2>5. ASSUME NEW j \in DOMAIN lines'
        PROVE  \/ j \in DOMAIN lines /\ lines'[j] = lines[j]
               \/ j - Len(lines) \in 1 .. Len(r) /\ lines'[j] = r[j - Len(lines)]
    <3>1. CASE j <= Len(lines)
      BY <2>4, <3>1
    <3>2. CASE j > Len(lines)
      <4> DEFINE k == j - Len(lines)
      <4>1. k \in 1 .. Len(r) /\ j = Len(lines) + k
        BY <2>1, <2>4, <3>2
      <4> HIDE DEF k
      <4>2. lines'[j] = r[k]
        BY <2>4, <4>1
      <4> QED
        BY <4>1, <4>2 DEF k
    <3> QED
      BY <2>4, <3>1, <3>2
  <2>6. Pending => Pending'
    <3>1. SUFFICES ASSUME NEW j \in DOMAIN lines, Refusal(lines[j]) PROVE Pending'
      BY DEF Pending
    <3>2. j \in DOMAIN lines' /\ lines'[j] = lines[j]
      BY <2>1, <2>4
    <3> QED
      BY <3>1, <3>2 DEF Pending
  <2>7. pc \in Login /\ w.digit = 5 => Pending'
    <3> SUFFICES ASSUME pc \in Login, w.digit = 5 PROVE Pending'
      OBVIOUS
    <3>1. PICK j \in 1 .. Len(r) : r[j].ends /\ r[j].first = 5
      BY <2>1
    <3>2. r[j].of \in Login
      BY <2>1
    <3>3. Len(lines) + j \in DOMAIN lines' /\ lines'[Len(lines) + j] = r[j]
      BY <2>1, <2>4
    <3>4. Refusal(r[j])
      BY <3>1, <3>2 DEF Refusal
    <3> QED
      BY <3>3, <3>4 DEF Pending
  <2>8. ASSUME NEW t, NEW d, Told(t, d)
        PROVE  srv.from = 0 /\ ~srv.sending /\ (Pending \/ (srv.type = t /\ srv.inDir = d))
    BY <1>1, <1>3, <2>8 DEF Told
  <2>9. pc \in Login => \A j \in DOMAIN lines' : lines'[j].of \in Login
    <3> SUFFICES ASSUME pc \in Login, NEW j \in DOMAIN lines' PROVE lines'[j].of \in Login
      OBVIOUS
    <3>1. \A i \in DOMAIN lines : lines[i].of \in Login
      BY DEF Talk, LoginTalk
    <3>2. w.digit # 1
      BY <1>1, <2>3 DEF Login
    <3>3. \A i \in 1 .. Len(r) : r[i].of \in Login
      BY <2>1, <3>2
    <3> QED
      BY <2>5, <3>1, <3>3
  <2>10. CASE pc \in {"user", "pass"}
    <3>1. Told("A", FALSE)
      BY <2>10, Zenon DEF Talk, LoginTalk
    <3>2. srv' = srv
      BY <2>1, <2>3, <2>10
    <3>3. Told("A", FALSE)'
      BY <2>6, <3>1, <3>2, <1>1, <1>3 DEF Told
    <3>4. pc \in Login
      BY <2>10 DEF Login
    <3> QED
      BY <1>1, <2>9, <2>10, <3>3, <3>4 DEF Talk, LoginTalk, DataTalk, RetrTalk
  <2>11. CASE pc = "type"
    <3>1. Told("A", FALSE)
      BY <1>1, <2>11, Zenon DEF Talk, LoginTalk
    <3> DEFINE no == FALSE
    <3>2. srv.from = 0 /\ ~srv.sending /\ (Pending \/ srv.inDir = no)
      BY <2>8, <3>1
    <3>3. srv'.from = 0 /\ ~srv'.sending /\ srv'.inDir = srv.inDir
      BY <2>1, <2>3, <2>11, <3>2
    <3>4. Pending' \/ srv'.type = "I"
      <4>1. pc \in Login
        BY <2>11 DEF Login
      <4> QED
        BY <2>1, <2>3, <2>7, <2>11, <4>1
    <3>5. Told("I", FALSE)'
      BY <2>6, <3>2, <3>3, <3>4 DEF Told
    <3>6. pc \in Login
      BY <2>11 DEF Login
    <3> QED
      BY <1>1, <2>9, <2>11, <3>5, <3>6 DEF Talk, LoginTalk, DataTalk, RetrTalk
  <2>12. CASE pc = "cwd"
    <3>1. Told("I", FALSE) /\ Url = "dir"
      BY <1>1, <2>12, Zenon DEF Talk, LoginTalk
    <3>2. srv.from = 0 /\ ~srv.sending /\ (Pending \/ srv.type = "I")
      BY <2>8, <3>1
    <3>3. srv'.from = 0 /\ ~srv'.sending /\ srv'.type = srv.type
      BY <2>1, <2>3, <2>12, <3>2
    <3>4. Pending' \/ srv'.inDir
      <4>1. pc \in Login
        BY <2>12 DEF Login
      <4> QED
        BY <2>1, <2>3, <2>7, <2>12, <4>1
    <3>5. srv'.inDir \in BOOLEAN
      BY SendIs DEF Sessions
    <3>6. Told("I", TRUE)'
      BY <2>6, <3>2, <3>3, <3>4, <3>5 DEF Told
    <3>7. pc \in Login /\ Url' = "dir"
      BY <1>1, <2>12, <3>1 DEF Login
    <3> QED
      BY <1>1, <2>9, <2>12, <3>6, <3>7 DEF Talk, LoginTalk, DataTalk, RetrTalk
  <2>13. CASE pc = "pasv"
    <3>1. Told("I", Url = "dir") /\ \A j \in DOMAIN lines : lines[j].of \in Login
      BY <1>1, <2>13, Zenon DEF Talk, LoginTalk
    <3>2. srv' = srv /\ Len(r) = 1 /\ r[1].of = "pasv"
      BY <2>1, <2>3, <2>13
    <3> DEFINE dir == Url = "dir"
    <3>3. srv.from = 0 /\ ~srv.sending /\ (Pending \/ (srv.type = "I" /\ srv.inDir = dir))
      BY <2>8, <3>1
    <3>4. srv.inDir \in BOOLEAN
      BY <2>2 DEF Sessions
    <3>5. Pending' \/ Waiting'
      BY <1>1, <2>6, <3>2, <3>3, <3>4 DEF Waiting, InPlace
    <3>6. \A j \in DOMAIN lines' : lines'[j].of \in Login \/ (lines'[j].of = "pasv" /\ j = Len(lines'))
      <4> TAKE j \in DOMAIN lines'
      <4>1. CASE j \in DOMAIN lines /\ lines'[j] = lines[j]
        BY <3>1, <4>1
      <4>2. CASE j - Len(lines) \in 1 .. Len(r) /\ lines'[j] = r[j - Len(lines)]
        <5>1. j - Len(lines) = 1 /\ j \in Nat
          BY <2>4, <3>2, <4>2
        <5>2. j = Len(lines') /\ lines'[j] = r[1]
          BY <2>4, <3>2, <4>2, <5>1
        <5> QED
          BY <3>2, <5>2
      <4> QED
        BY <2>5, <4>1, <4>2
    <3>7. "pasv" \notin Login
      BY DEF Login
    <3> QED
      BY <1>1, <2>13, <3>5, <3>6, <3>7 DEF Talk, LoginTalk, DataTalk, RetrTalk
  <2>14. CASE pc = "rest"
    <3>1. lines = <<>> /\ Waiting /\ IsResumeSupport
      BY <1>1, <2>14 DEF Talk, RetrTalk
    <3>2. Len(r) = 1 /\ r[1].first = w.digit /\ w.digit \in {3, 5}
      BY <2>1, <2>3, <2>14
    <3>3. \A j \in DOMAIN lines' : lines'[j].first = w.digit
      <4>1. DOMAIN lines = {}
        BY <3>1
      <4> TAKE j \in DOMAIN lines'
      <4>2. j - Len(lines) \in 1 .. Len(r) /\ lines'[j] = r[j - Len(lines)]
        BY <2>5, <4>1
      <4>3. j - Len(lines) = 1
        BY <2>4, <3>2, <4>2
      <4> QED
        BY <3>2, <4>2, <4>3
    <3>4. w.digit = 3 => Resumed'
      BY <1>1, <2>1, <2>3, <2>14, <3>1 DEF Resumed, Waiting, InPlace
    <3>5. "rest" \notin Login
      BY DEF Login
    <3> QED
      BY <1>1, <2>14, <3>1, <3>2, <3>3, <3>4, <3>5 DEF Talk, LoginTalk, DataTalk, RetrTalk
  <2>15. CASE pc = "retr"
    <3>1. Placed /\ \A j \in DOMAIN lines : lines[j].first # 1
      BY <1>1, <2>15 DEF Talk, RetrTalk
    <3>2. Placed'
      BY <1>1, <2>1, <2>3, <2>15, <3>1 DEF Placed, InPlace
    <3>3. \A j \in DOMAIN lines' : lines'[j].first = 1 => srv'.sending
      <4> TAKE j \in DOMAIN lines'
      <4>1. CASE j \in DOMAIN lines /\ lines'[j] = lines[j]
        BY <3>1, <4>1
      <4>2. CASE j - Len(lines) \in 1 .. Len(r) /\ lines'[j] = r[j - Len(lines)]
        <5>1. CASE w.digit = 1
          BY <2>1, <2>3, <2>15, <5>1
        <5>2. CASE w.digit # 1
          <6>1. Len(r) = 1 /\ r[1].first = w.digit
            BY <2>1, <2>15, <5>2
          <6>2. j - Len(lines) = 1
            BY <2>4, <4>2, <6>1
          <6> QED
            BY <4>2, <5>2, <6>1, <6>2
        <5> QED
          BY <5>1, <5>2
      <4> QED
        BY <2>5, <4>1, <4>2
    <3>4. "retr" \notin Login
      BY DEF Login
    <3> QED
      BY <1>1, <2>15, <3>2, <3>3, <3>4 DEF Talk, LoginTalk, DataTalk, RetrTalk
  <2>16. CASE pc \notin {"user", "pass", "type", "cwd", "pasv", "rest", "retr"}
    <3>1. pc' \notin Login \cup {"pasv", "rest", "retr", "receive"}
      BY <1>1, <2>16 DEF Login, Ftp!Commands
    <3> QED
      BY <3>1, QuietTalk
  <2> QED
    BY <2>10, <2>11, <2>12, <2>13, <2>14, <2>15, <2>16
<1> QED
  <2>1. conn = "up" \/ (conn # "up" /\ UNCHANGED <<lines, srv>>)
    BY SendIs
  <2> QED
    BY <1>2, <1>3, <2>1

(* The data connection stands: reply and command are in step, and stay so. *)
LEMMA PasvTalks ==
  ASSUME Shape, Caller = "thread", Talk, Ftp!setupPasvDataConn
  PROVE  Talk'
<1>1. pc = "pasv" /\ phase = "judge"
  BY DEF Ftp!setupPasvDataConn, Ftp!Judge
<1>2. CASE pc' \in {"connect", "end"}
  BY <1>2, QuietTalk DEF Login
<1>3. CASE pc' \notin {"connect", "end"}
  <2>1. /\ Ftp!HasAddress
        /\ pc' = Ftp!AfterData /\ phase' = "send"
        /\ UNCHANGED <<FtpBuffer, ret, Ftp!channel, Ftp!task, Ftp!fixed>>
    BY <1>3 DEF Ftp!setupPasvDataConn, Ftp!Fail, Ftp!Return
  <2>2. lines = <<>> /\ Waiting
    BY <1>1, <2>1 DEF Talk, DataTalk, Ftp!HasAddress
  <2>3. UNCHANGED <<lines, srv, conn, IsResumeSupport, Url, Server, RemoteStartPos>>
    BY <2>1 DEF Ftp!channel, Ftp!task, Ftp!fixed
  <2>4. pc' = IF IsResumeSupport THEN "rest" ELSE "retr"
    BY <2>1 DEF Ftp!AfterData
  <2>5. DOMAIN lines' = {}
    BY <2>2, <2>3
  <2>6. Waiting'
    BY <2>2, <2>3 DEF Waiting, InPlace
  <2>7. ~IsResumeSupport => Placed'
    BY <2>2, <2>3 DEF Waiting, InPlace, Placed
  <2>8. "rest" \notin Login /\ "retr" \notin Login
    BY DEF Login
  <2> QED
    BY <2>1, <2>2, <2>3, <2>4, <2>5, <2>6, <2>7, <2>8 DEF Talk, LoginTalk, DataTalk, RetrTalk
<1> QED
  BY <1>2, <1>3

(* The server resumes, or sends. *)
LEMMA RetrTalks ==
  ASSUME Shape, Caller = "thread", Talk, Ftp!ftp_rest \/ Ftp!ftp_retr
  PROVE  Talk'
<1>1. phase = "judge" /\ pc \in {"rest", "retr"}
  BY DEF Ftp!ftp_rest, Ftp!ftp_retr, Ftp!Judge
<1>2. CASE pc' \in {"connect", "end"}
  BY <1>2, QuietTalk DEF Login
<1>3. ASSUME pc' \notin {"connect", "end"}, Ftp!ftp_rest
      PROVE  Talk'
  <2>1. Ftp!Positive(3) /\ Ftp!Goto("retr") /\ pc = "rest"
    BY <1>3 DEF Ftp!ftp_rest, Ftp!AfterRest, Ftp!Fail, Ftp!Return, Ftp!Judge
  <2>2. Placed
    BY <1>1, <2>1 DEF Talk, RetrTalk, Resumed, Placed, Ftp!Positive
  <2>3. \A j \in DOMAIN lines : lines[j].first # 1
    BY <2>1 DEF Talk, RetrTalk
  <2>4. /\ pc' = "retr" /\ phase' = "send"
        /\ UNCHANGED <<lines, srv, conn, IsResumeSupport, Url, Server, RemoteStartPos>>
    BY <2>1 DEF Ftp!Goto, Ftp!channel, Ftp!task, Ftp!fixed
  <2>5. Placed'
    BY <2>2, <2>4 DEF Placed, InPlace
  <2> QED
    BY <2>3, <2>4, <2>5 DEF Talk, LoginTalk, DataTalk, RetrTalk, Login
<1>4. ASSUME pc' \notin {"connect", "end"}, Ftp!ftp_retr
      PROVE  Talk'
  <2>1. Ftp!Positive(1) /\ Ftp!Goto("receive") /\ pc = "retr"
    BY <1>4 DEF Ftp!ftp_retr, Ftp!Fail, Ftp!Return, Ftp!Judge
  <2>2. Placed /\ srv.sending
    BY <1>1, <2>1 DEF Talk, RetrTalk, Ftp!Positive
  <2>4. /\ pc' = "receive" /\ phase' = "send"
        /\ UNCHANGED <<lines, srv, conn, IsResumeSupport, Url, Server, RemoteStartPos>>
    BY <2>1 DEF Ftp!Goto, Ftp!channel, Ftp!task, Ftp!fixed
  <2>5. Placed' /\ srv'.sending
    BY <2>2, <2>4 DEF Placed, InPlace
  <2> QED
    BY <2>4, <2>5 DEF Talk, LoginTalk, DataTalk, RetrTalk, Login
<1> QED
  BY <1>2, <1>3, <1>4

(* Nothing is received in PORT mode, and a file is received once. *)
LEMMA PortTalks ==
  ASSUME Shape, Ftp!setupPortDataConn \/ Ftp!Receive
  PROVE  Talk'
<1>1. pc' \in {"port", "connect", "end"}
  BY DEF Ftp!setupPortDataConn, Ftp!Receive, Ftp!SomebodyConnected, Ftp!Judge, Ftp!Fail, Ftp!Return
<1> QED
  BY <1>1, QuietTalk DEF Login

(* The server falls silent: what it was told and has sent stays. *)
LEMMA ServerTalks == Talk /\ Ftp!ServerGivesUp => Talk'
<1> SUFFICES ASSUME Talk, Ftp!ServerGivesUp PROVE Talk'
  OBVIOUS
<1>1. /\ conn' # "up"
      /\ UNCHANGED <<pc, phase, FtpBuffer, lines, srv, IsResumeSupport, Url, Server, RemoteStartPos>>
  BY DEF Ftp!ServerGivesUp, Ftp!dialogue, Ftp!task, Ftp!fixed
<1>3. LoginTalk'
  BY <1>1 DEF Talk, LoginTalk, Told
<1>4. DataTalk'
  BY <1>1 DEF Talk, DataTalk, Pending, Waiting, InPlace
<1>5. RetrTalk'
  BY <1>1 DEF Talk, RetrTalk, Waiting, Resumed, Placed, InPlace
<1> QED
  BY <1>3, <1>4, <1>5 DEF Talk

(* Only the thread, after the information call, is a thread. *)
LEMMA CallerStays ==
  ASSUME Shape, Ftp!ClientStep \/ Ftp!ServerGivesUp, Caller' = "thread", Caller # "thread"
  PROVE  pc' = "connect"
<1>1. ASSUME NEW c, Ftp!Fail(c) PROVE Caller' = Caller
  BY <1>1 DEF Ftp!Fail, Ftp!Return
<1>2. ASSUME NEW c, Ftp!Goto(c) PROVE Caller' = Caller
  BY <1>2 DEF Ftp!Goto, Ftp!task
<1>3. ASSUME NEW ok, NEW c, NEW d, Ftp!Return(ok, c, d) PROVE Caller' = Caller
  BY <1>3 DEF Ftp!Return
<1>4. Ftp!SizeKnown \/ Ftp!ReadListing
  <2>1. CASE \/ Ftp!JudgeGreeting \/ Ftp!ftp_login \/ Ftp!ftp_binary \/ Ftp!ftp_cwd \/ Ftp!ftp_ascii
             \/ Ftp!ftp_list \/ Ftp!ftp_retr \/ Ftp!Receive
    BY <2>1, <1>1, <1>2, <1>3 DEF Ftp!JudgeGreeting, Ftp!ftp_login, Ftp!ftp_binary, Ftp!ftp_cwd,
       Ftp!ftp_ascii, Ftp!ftp_list, Ftp!ftp_retr, Ftp!Receive
  <2>2. CASE \/ Ftp!setupCtrlConn \/ Ftp!Send \/ Ftp!getReply \/ Ftp!RecvTimeout \/ Ftp!GetLineAtEof
             \/ Ftp!setupPasvDataConn \/ Ftp!setupPortDataConn \/ Ftp!ftp_rest \/ Ftp!ServerGivesUp
    BY <2>2, <1>1, <1>2 DEF Ftp!setupCtrlConn, Ftp!Send, Ftp!getReply, Ftp!RecvTimeout, Ftp!GetLineAtEof,
       Ftp!setupPasvDataConn, Ftp!setupPortDataConn, Ftp!ftp_rest, Ftp!ServerGivesUp, Ftp!task
  <2> QED
    BY <2>1, <2>2 DEF Ftp!ClientStep
<1>5. CASE Ftp!SizeKnown
  BY <1>1, <1>2, <1>5 DEF Ftp!SizeKnown
<1>6. CASE Ftp!ReadListing
  BY <1>1, <1>3, <1>6 DEF Ftp!ReadListing
<1> QED
  BY <1>4, <1>5, <1>6

LEMMA TalkIsKept ==
  ASSUME Shape, Caller = "thread" => Talk, Ftp!ClientStep \/ Ftp!ServerGivesUp, Caller' = "thread"
  PROVE  Talk'
<1>1. CASE Caller # "thread"
  <2>1. pc' = "connect"
    BY <1>1, CallerStays
  <2> QED
    BY <2>1, QuietTalk DEF Login
<1>2. CASE Caller = "thread"
  <2>1. ~(Ftp!SizeKnown \/ Ftp!ftp_ascii \/ Ftp!ftp_list \/ Ftp!ReadListing)
    <3>1. pc \notin {"size", "ascii", "list", "listing"}
      BY <1>2 DEF Shape, Course, Steps, Login
    <3> QED
      BY <3>1 DEF Ftp!SizeKnown, Ftp!ftp_ascii, Ftp!ftp_list, Ftp!ReadListing, Ftp!Judge
  <2> QED
    BY <1>2, <2>1, ConnectTalks, SendTalks, ReadingTalks, GotoTalks, PasvTalks, PortTalks, RetrTalks,
       ServerTalks DEF Ftp!ClientStep
<1> QED
  BY <1>1, <1>2

(* A session begins with nothing opened and nothing said. *)
(* A call that returns is no longer asked about. *)
LEMMA CallEnds ==
  ASSUME inStep \in BOOLEAN, Ftp!SizeIsTrue, NEW ok, NEW c, NEW d, Ftp!Return(ok, c, d)
  PROVE  SizeTalk'
<1>1. UNCHANGED <<Caller, inStep, FileSize>> /\ (Caller = "info" => pc' = "end")
  BY DEF Ftp!Return, Ftp!channel
<1>2. "end" \notin BeforeSize
  BY DEF BeforeSize, Login
<1> QED
  BY <1>1, <1>2 DEF SizeTalk, InfoTalk, Ftp!SizeIsTrue

(* The information call up to its size: while it is in step, the connection holds nothing but the
   reply it is reading, so the number it scans is the size. *)
LEMMA SizeTalkIsKept ==
  ASSUME Shape, SizeTalk, Ftp!ClientStep \/ Ftp!ServerGivesUp
  PROVE  SizeTalk'
<1>1. inStep \in BOOLEAN /\ Ftp!SizeIsTrue /\ InfoTalk /\ lines \in Seq(Lines)
  BY DEF SizeTalk, Shape, FtpTypes
<1>2. CASE Ftp!getReply
  <2>1. /\ phase = "reply" /\ lines # <<>> /\ FtpBuffer' = Head(lines) /\ lines' = Tail(lines)
        /\ IF Head(lines).ends THEN phase' = "judge" /\ ret' = TRUE ELSE UNCHANGED <<phase, ret>>
        /\ UNCHANGED <<pc, Caller, FileSize>>
        /\ inStep' = (inStep /\ ~(Caller = "info" /\ Head(lines).ends
                         /\ \E i \in DOMAIN Tail(lines) : Tail(lines)[i].of = Head(lines).of))
    BY <1>2 DEF Ftp!getReply, Ftp!Lost, Ftp!task
  <2>2. inStep' \in BOOLEAN /\ Ftp!SizeIsTrue'
    BY <1>1, <2>1 DEF Ftp!SizeIsTrue
  <2>3. InfoTalk'
    <3> SUFFICES ASSUME Caller = "info", inStep', pc \in BeforeSize
                 PROVE  /\ phase' \in {"reply", "judge"}
                        /\ phase' = "reply" => \A j \in DOMAIN lines' : lines'[j].of = pc
                        /\ phase' = "judge" => lines' = <<>> /\ FtpBuffer'.of = pc
      BY <2>1 DEF InfoTalk
    <3>1. inStep /\ \A j \in DOMAIN lines : lines[j].of = pc
      BY <1>1, <2>1 DEF InfoTalk
    <3>2. /\ Head(lines) = lines[1] /\ 1 \in DOMAIN lines
          /\ Tail(lines) \in Seq(Lines)
          /\ \A j \in DOMAIN Tail(lines) : j + 1 \in DOMAIN lines /\ Tail(lines)[j] = lines[j + 1]
          /\ DOMAIN Tail(lines) = 1 .. Len(Tail(lines)) /\ Len(Tail(lines)) \in Nat
      BY <1>1, <2>1
    <3>3. Head(lines).of = pc /\ \A j \in DOMAIN Tail(lines) : Tail(lines)[j].of = pc
      BY <3>1, <3>2
    <3>4. CASE Head(lines).ends
      <4>1. DOMAIN Tail(lines) = {}
        BY <2>1, <3>3, <3>4
      <4>2. Tail(lines) = <<>>
        BY <3>2, <4>1
      <4> QED
        BY <2>1, <3>3, <3>4, <4>2
    <3>5. CASE ~Head(lines).ends
      BY <2>1, <3>3, <3>5
    <3> QED
      BY <3>4, <3>5
  <2> QED
    BY <2>2, <2>3 DEF SizeTalk
<1>3. CASE Ftp!Send
  <2>1. UNCHANGED <<pc, Caller, FileSize, inStep>> /\ phase = "send" /\ phase' \in {"reply", "judge"}
    BY <1>3 DEF Ftp!Send, Ftp!task
  <2>2. phase' = "judge" => ret' = FALSE
    BY <1>3 DEF Ftp!Send
  <2>3. \/ lines' = lines
        \/ \E w \in Ftp!ServerDoes(pc), r \in Seq(Lines) :
              /\ lines' = lines \o r /\ phase' = "reply"
              /\ w.digit # 1 => \A j \in 1 .. Len(r) : r[j].of = pc
    BY <1>3, SendIs
  <2>4. InfoTalk'
    <3> SUFFICES ASSUME Caller = "info", inStep, pc \in BeforeSize
                 PROVE  /\ phase' = "reply" => \A j \in DOMAIN lines' : lines'[j].of = pc
                        /\ phase' = "judge" => lines' = <<>>
      BY <2>1, <2>2 DEF InfoTalk
    <3>1. lines = <<>>
      BY <1>1, <2>1 DEF InfoTalk
    <3>2. CASE lines' = lines
      BY <3>1, <3>2
    <3>3. ASSUME NEW w \in Ftp!ServerDoes(pc), NEW r \in Seq(Lines),
                 lines' = lines \o r, phase' = "reply",
                 w.digit # 1 => \A j \in 1 .. Len(r) : r[j].of = pc
          PROVE  phase' = "reply" /\ \A j \in DOMAIN lines' : lines'[j].of = pc
      <4>1. lines' = r
        BY <3>1, <3>3
      <4>2. pc \in Ftp!Commands \ {"greeting"} /\ srv \in Sessions /\ RemoteStartPos \in Nat
        BY <1>3, SendIs, FtpAssumption DEF Shape, FtpTypes
      <4>3. pc \in {"user", "pass", "size", "type", "cwd", "rest"}
        BY <4>2 DEF BeforeSize, Login
      <4>4. w.digit # 1
        BY <4>2, <4>3, ServerAnswers
      <4> QED
        BY <3>3, <4>1, <4>4
    <3> QED
      BY <2>3, <3>2, <3>3
  <2> QED
    BY <1>1, <2>1, <2>4 DEF SizeTalk, Ftp!SizeIsTrue
<1>4. CASE Ftp!setupCtrlConn
  <2>1. CASE /\ UNCHANGED <<Caller, FileSize, inStep>> /\ pc' = "greeting" /\ phase' = "reply"
             /\ \E d \in {2, 4}, r \in Ftp!Replies("greeting", 2) :
                   lines' = IF d = 2 THEN r ELSE <<Ftp!Line(4, TRUE, "greeting")>>
    <3>1. \A j \in DOMAIN lines' : lines'[j].of = "greeting"
      <4>1. PICK d \in {2, 4}, r \in Ftp!Replies("greeting", 2) :
                   lines' = IF d = 2 THEN r ELSE <<Ftp!Line(4, TRUE, "greeting")>>
        BY <2>1
      <4>2. CASE lines' = r
        <5>1. "greeting" \in Ftp!Commands /\ 2 \in 0 .. 5
          BY DEF Ftp!Commands
        <5>2. r \in Seq(Lines) /\ \A j \in 1 .. Len(r) : r[j].of = "greeting"
          BY <5>1, RepliesAre
        <5> QED
          BY <4>2, <5>2
      <4>3. CASE lines' = <<Ftp!Line(4, TRUE, "greeting")>>
        BY <4>3 DEF Ftp!Line
      <4> QED
        BY <4>1, <4>2, <4>3
    <3> QED
      BY <1>1, <2>1, <3>1 DEF SizeTalk, InfoTalk, Ftp!SizeIsTrue
  <2>2. CASE Ftp!Fail("greeting")
    BY <1>1, <2>2, CallEnds DEF Ftp!Fail
  <2> QED
    BY <1>4, <2>1, <2>2 DEF Ftp!setupCtrlConn, Ftp!task
<1>5. CASE Ftp!RecvTimeout
  BY <1>1, <1>5 DEF Ftp!RecvTimeout, Ftp!Lost, Ftp!task, SizeTalk, InfoTalk, Ftp!SizeIsTrue
<1>6. CASE Ftp!GetLineAtEof
  BY <1>1, <1>6 DEF Ftp!GetLineAtEof, Ftp!task, Ftp!channel, SizeTalk, InfoTalk, Ftp!SizeIsTrue
<1>7. ASSUME NEW c, Ftp!Fail(c) PROVE SizeTalk'
  BY <1>1, <1>7, CallEnds DEF Ftp!Fail
<1>8. ASSUME NEW c, Ftp!Goto(c), phase = "judge", pc \in BeforeSize \/ Caller # "info" \/ c \notin BeforeSize PROVE SizeTalk'
  BY <1>1, <1>8 DEF Ftp!Goto, Ftp!task, Ftp!channel, SizeTalk, InfoTalk, Ftp!SizeIsTrue
<1>9. CASE Ftp!JudgeGreeting \/ Ftp!ftp_login \/ Ftp!ftp_binary \/ Ftp!ftp_cwd
  <2>1. phase = "judge" /\ pc \in BeforeSize
    BY <1>9 DEF Ftp!JudgeGreeting, Ftp!ftp_login, Ftp!ftp_binary, Ftp!ftp_cwd, Ftp!Judge, BeforeSize, Login
  <2> QED
    BY <1>7, <1>8, <1>9, <2>1 DEF Ftp!JudgeGreeting, Ftp!ftp_login, Ftp!ftp_binary, Ftp!ftp_cwd
<1>10. CASE Ftp!ftp_ascii \/ Ftp!ftp_list
  <2>1. phase = "judge" /\ "list" \notin BeforeSize /\ "listing" \notin BeforeSize
    BY <1>10 DEF Ftp!ftp_ascii, Ftp!ftp_list, Ftp!Judge, BeforeSize, Login
  <2> QED
    BY <1>7, <1>8, <1>10, <2>1 DEF Ftp!ftp_ascii, Ftp!ftp_list
<1>11. CASE Ftp!ftp_retr
  <2>1. phase = "judge" /\ "receive" \notin BeforeSize
    BY <1>11 DEF Ftp!ftp_retr, Ftp!Judge, BeforeSize, Login
  <2>2. CASE Ftp!Return(TRUE, FALSE, FALSE)
    BY <1>1, <2>2, CallEnds
  <2> QED
    BY <1>7, <1>8, <1>11, <2>1, <2>2 DEF Ftp!ftp_retr
<1>12. CASE Ftp!setupPasvDataConn
  <2>1. \/ pc = "pasv" /\ Ftp!SizeIsTrue /\ UNCHANGED <<inStep, FileSize, Caller>>
       \/ Ftp!Fail("pasv")
    BY <1>1, <1>12 DEF Ftp!setupPasvDataConn, Ftp!Judge, Ftp!channel, Ftp!task
  <2>2. CASE Ftp!Fail("pasv")
    BY <1>7, <2>2
  <2>3. CASE pc = "pasv" /\ UNCHANGED <<inStep, FileSize, Caller>> /\ ~Ftp!Fail("pasv")
    <3>1. Caller = "info" => pc' = "ascii" /\ phase' = "send"
      BY <1>12, <2>3 DEF Ftp!setupPasvDataConn, Ftp!AfterData
    <3> QED
      BY <1>1, <2>3, <3>1 DEF SizeTalk, InfoTalk, Ftp!SizeIsTrue, BeforeSize, Login
  <2> QED
    BY <1>1, <2>1, <2>2, <2>3
<1>13. CASE Ftp!setupPortDataConn
  <2>1. CASE /\ pc' = "port" /\ UNCHANGED <<inStep, FileSize, Caller>>
    BY <1>1, <2>1 DEF SizeTalk, InfoTalk, Ftp!SizeIsTrue, BeforeSize, Login
  <2>2. CASE phase' = "accept" /\ UNCHANGED <<inStep, FileSize, Caller>>
    BY <1>1, <2>2 DEF SizeTalk, InfoTalk, Ftp!SizeIsTrue
  <2>3. CASE Ftp!Fail("port")
    BY <1>7, <2>3
  <2> QED
    BY <1>13, <2>1, <2>2, <2>3 DEF Ftp!setupPortDataConn, Ftp!SomebodyConnected, Ftp!task, Ftp!channel
<1>14. CASE Ftp!ftp_rest
  <2>1. CASE /\ Caller = "info" /\ phase = "judge" /\ pc = "rest" /\ pc' = "size" /\ phase' = "send"
             /\ UNCHANGED <<lines, inStep, FileSize, Caller>>
    BY <1>1, <2>1 DEF SizeTalk, InfoTalk, Ftp!SizeIsTrue, BeforeSize
  <2>2. CASE Caller # "info" /\ phase = "judge" /\ (Ftp!Goto(Ftp!AfterRest) \/ Ftp!Fail("rest"))
    BY <1>7, <1>8, <2>2
  <2> QED
    BY <1>14, <2>1, <2>2 DEF Ftp!ftp_rest, Ftp!Judge, Ftp!AfterRest, Ftp!channel
<1>15. CASE Ftp!SizeKnown
  <2>1. phase = "judge" /\ pc = "size" /\ pc \in BeforeSize /\ Caller = "info"
    BY <1>15 DEF Ftp!SizeKnown, Ftp!Judge, BeforeSize, Shape, Course, FtpTypes, Steps, Login
  <2>2. PICK r \in Ftp!ftp_size :
          \/ /\ r.ok /\ r.size # -1
             /\ FileSize' = r.size /\ Caller' = "thread" /\ inStep' = inStep
          \/ Ftp!Goto(Ftp!DataStep)
          \/ Ftp!Fail("size")
    BY <1>15 DEF Ftp!SizeKnown, Ftp!channel
  <2>3. ASSUME inStep, r.ok, r.size # -1
        PROVE  r.size = RemoteSize
    <3>1. FileSize = -1 /\ (ret => FtpBuffer.of = "size")
      BY <1>1, <2>1, <2>3 DEF Shape, Course, InfoTalk
    <3>2. ret
      <4>1. SUFFICES ASSUME ~ret PROVE FALSE
        OBVIOUS
      <4>2. Ftp!ftp_size = {[ok |-> FALSE, size |-> FileSize]}
        BY <4>1 DEF Ftp!ftp_size
      <4>3. r = [ok |-> FALSE, size |-> FileSize]
        BY <4>2
      <4> QED
        BY <2>3, <4>3
    <3>3. r = [ok |-> TRUE, size |-> RemoteSize] \/ r.size = FileSize
      <4>1. CASE FtpBuffer.first = 2
        BY <3>1, <3>2, <4>1 DEF Ftp!ftp_size, Ftp!Scanned
      <4>2. CASE FtpBuffer.first # 2
        <5>1. \/ r = [ok |-> FALSE, size |-> FileSize]
              \/ r \in {[ok |-> b, size |-> FileSize] : b \in BOOLEAN}
          BY <3>2, <4>2 DEF Ftp!ftp_size
        <5> QED
          BY <5>1
      <4> QED
        BY <4>1, <4>2
    <3> QED
      BY <2>3, <3>1, <3>3
  <2>4. CASE /\ r.ok /\ r.size # -1
             /\ FileSize' = r.size /\ Caller' = "thread" /\ inStep' = inStep
    BY <1>1, <2>3, <2>4 DEF SizeTalk, InfoTalk, Ftp!SizeIsTrue
  <2>5. CASE Ftp!Goto(Ftp!DataStep)
    BY <1>8, <2>1, <2>5
  <2>6. CASE Ftp!Fail("size")
    BY <1>7, <2>6
  <2> QED
    BY <2>2, <2>4, <2>5, <2>6
<1>16. CASE Ftp!ReadListing
  <2>1. CASE Ftp!Return(TRUE, ctrl, data)
    BY <1>1, <2>1, CallEnds
  <2>2. CASE /\ \E t \in Ftp!Arrivals : FileSize' = Ftp!parse(t)
             /\ Caller' = "thread" /\ inStep' = inStep
    <3>1. FileSize' \in {-1, RemoteSize}
      BY <2>2, ParsedSize DEF Shape
    <3> QED
      BY <1>1, <2>2, <3>1 DEF SizeTalk, InfoTalk, Ftp!SizeIsTrue
  <2>3. CASE Ftp!Fail("listing")
    BY <1>7, <2>3
  <2> QED
    BY <1>16, <2>1, <2>2, <2>3 DEF Ftp!ReadListing, Ftp!channel
<1>17. CASE Ftp!Receive
  <2>1. PICK ok \in BOOLEAN : Ftp!Return(ok, FALSE, FALSE)
    BY <1>17 DEF Ftp!Receive
  <2> QED
    BY <1>1, <2>1, CallEnds
<1>18. CASE Ftp!ServerGivesUp
  BY <1>1, <1>18 DEF Ftp!ServerGivesUp, Ftp!dialogue, Ftp!task, SizeTalk, InfoTalk, Ftp!SizeIsTrue
<1> QED
  BY <1>2, <1>3, <1>4, <1>5, <1>6, <1>9, <1>10, <1>11, <1>12, <1>13, <1>14, <1>15, <1>16, <1>17, <1>18
  DEF Ftp!ClientStep

LEMMA SessionBegins == Ftp!Init => FtpInv
<1> SUFFICES ASSUME Ftp!Init PROVE FtpInv
  OBVIOUS
<1>1. <<>> \in Seq(Lines) /\ Ftp!EmptyBuffer \in Lines /\ Ftp!NewSession \in Sessions
  BY DEF Ftp!EmptyBuffer, Ftp!Line, Lines, Ftp!NewSession, Sessions
<1>2. FtpTypes
  <2>1. /\ Caller \in {"info", "list", "fetch"} /\ Url \in {"dir", "root", "noFile"} /\ Server \in Ftp!Servers
        /\ RemoteStartPos \in Positions /\ phase = "send" /\ FtpBuffer = Ftp!EmptyBuffer
        /\ lines = <<>> /\ conn = "up" /\ srv = Ftp!NewSession /\ leaked = 0 /\ attempt = 0 /\ FileSize = -1
    BY DEF Ftp!Init
  <2>2. /\ ret \in BOOLEAN /\ ctrl \in BOOLEAN /\ data \in BOOLEAN /\ listening \in BOOLEAN
        /\ IsPasv \in BOOLEAN /\ IsResumeSupport \in BOOLEAN /\ result \in BOOLEAN
    BY DEF Ftp!Init
  <2>3. attempt \in 0 .. MaxAttempts /\ leaked \in Nat
    BY <2>1, FtpAssumption
  <2> QED
    BY <1>1, <2>1, <2>2, <2>3 DEF FtpTypes
<1>3. Course
  BY FtpAssumption DEF Ftp!Init, Course, Steps
<1>4. Handles
  BY DEF Ftp!Init, Handles
<1>5. Caller # "thread"
  BY DEF Ftp!Init
<1>6. SizeTalk
  BY DEF Ftp!Init, SizeTalk, InfoTalk, BeforeSize, Login, Ftp!SizeIsTrue
<1> QED
  BY <1>2, <1>3, <1>4, <1>5, <1>6 DEF FtpInv

LEMMA SessionGoesOn == FtpInv /\ (Ftp!ClientStep \/ Ftp!ServerGivesUp) => FtpInv'
<1> SUFFICES ASSUME FtpInv, Ftp!ClientStep \/ Ftp!ServerGivesUp PROVE FtpInv'
  OBVIOUS
<1>1. Shape /\ (Caller = "thread" => Talk)
  BY DEF FtpInv, Shape, Talk
<1>2. Shape'
  BY <1>1, ShapeIsKept
<1>3. Caller' = "thread" => Talk'
  BY <1>1, TalkIsKept
<1>4. SizeTalk'
  BY <1>1, SizeTalkIsKept DEF FtpInv
<1> QED
  BY <1>2, <1>3, <1>4 DEF FtpInv, Shape, Talk

(* What the invariant says of a session. *)
LEMMA SessionIs == FtpInv => Ftp!SessionInv /\ Ftp!ReceivesWhatItAskedFor
<1> SUFFICES ASSUME FtpInv PROVE Ftp!SessionInv /\ Ftp!ReceivesWhatItAskedFor
  OBVIOUS
<1>1. FtpTypes /\ Course /\ Handles /\ SizeTalk /\ (Caller = "thread" => RetrTalk)
  BY DEF FtpInv
<1>2. Ftp!TypeOK
  <2>1. pc \in Ftp!Commands \cup {"connect", "listen", "listing", "receive", "end"}
    BY <1>1 DEF FtpTypes, Course, Steps, Login, Ftp!Commands
  <2>2. \A i \in DOMAIN lines : lines[i] \in Lines
    BY <1>1 DEF FtpTypes
  <2>3. FileSize \in Int
    BY <1>1, FtpAssumption DEF FtpTypes
  <2> QED
    BY <1>1, <2>1, <2>2, <2>3 DEF Ftp!TypeOK, FtpTypes, SizeTalk, Lines, Sessions
<1>3. Ftp!SizeIsTrue
  BY <1>1 DEF SizeTalk
<1>4. pc = "receive" => Caller = "thread" /\ IsPasv
  BY <1>1 DEF FtpTypes, Course, Steps, Login
<1>5. Ftp!NoRestNoDownload
  BY <1>1, <1>4 DEF Ftp!NoRestNoDownload, Course, RetrTalk, Placed
<1>6. Ftp!LeakIsBounded
  <2>1. leaked \in Nat /\ attempt \in Nat /\ (Caller # "thread" => attempt = 0)
    BY <1>1 DEF FtpTypes, Course
  <2>2. CASE Caller = "thread"
    BY <1>1, <2>1, <2>2 DEF Ftp!LeakIsBounded, Handles
  <2>3. CASE Caller # "thread"
    BY <1>1, <2>1, <2>3 DEF Ftp!LeakIsBounded, Handles
  <2> QED
    BY <2>2, <2>3
<1>7. Ftp!PortModeIsForGood
  BY <1>4 DEF Ftp!PortModeIsForGood
<1>8. Ftp!ReceivesWhatItAskedFor
  BY <1>1, <1>4 DEF Ftp!ReceivesWhatItAskedFor, RetrTalk, Placed, InPlace
<1> QED
  BY <1>2, <1>3, <1>5, <1>6, <1>7, <1>8 DEF Ftp!SessionInv

(* However many attempts a thread makes and wherever it resumes: out of step or not, it receives
   only what the server sends of this file, in binary, from the position asked for; a size is the
   file's when every reply of the information call was read in time and whole, from a server without REST a file of known size is not received, a thread that has
   turned to PORT receives nothing, and descriptors leak only as far as stated
   (fetchFtpRemoteFileInfo, TFtpThread::retrFileChunk). *)
THEOREM FtpSessionsStayInStep == SessionsSpec => []FtpSessionInv
<1> DEFINE Inv == client = "ftp" => FtpInv
<1>1. SessionsInit => Inv
  BY SessionBegins DEF SessionsInit
<1>2. Inv /\ [SessionsNext]_sessionsVars => Inv'
  <2> SUFFICES ASSUME Inv, [SessionsNext]_sessionsVars PROVE Inv'
    OBVIOUS
  <2>1. CASE FtpClientStep \/ FtpServerGivesUp
    BY <2>1, SessionGoesOn DEF FtpClientStep, FtpServerGivesUp
  <2>2. CASE HttpStep
    BY <2>2 DEF HttpStep
  <2>3. CASE UNCHANGED sessionsVars
    <3>1. FtpInv => FtpInv'
      <4>1. UNCHANGED <<Caller, pc, ret, IsResumeSupport, FileSize, result, Url, Server, RemoteStartPos, phase,
                        FtpBuffer, lines, conn, srv, inStep, ctrl, data, listening, leaked, attempt, IsPasv>>
        BY <2>3 DEF sessionsVars, common, onlyFtp
      <4>5. SizeTalk => SizeTalk'
        BY <4>1 DEF SizeTalk, InfoTalk, Ftp!SizeIsTrue
      <4>2. FtpTypes /\ Course /\ Handles => FtpTypes' /\ Course' /\ Handles'
        BY <4>1 DEF FtpTypes, Course, Steps, Handles, BeforeData
      <4>3. LoginTalk => LoginTalk'
        BY <4>1 DEF LoginTalk, Told, Pending
      <4>4. DataTalk /\ RetrTalk => DataTalk' /\ RetrTalk'
        BY <4>1 DEF DataTalk, RetrTalk, Pending, Waiting, Resumed, Placed, InPlace
      <4> QED
        BY <4>1, <4>2, <4>3, <4>4, <4>5 DEF FtpInv
    <3> QED
      BY <2>3, <3>1 DEF sessionsVars
  <2> QED
    BY <2>1, <2>2, <2>3 DEF SessionsNext
<1>3. Inv => FtpSessionInv
  BY SessionIs DEF FtpSessionInv
<1> QED
  BY <1>1, <1>2, <1>3, PTL DEF SessionsSpec
-----------------------------------------------------------------------------
(* The HTTP client.  The invariant relates what is still to come over the connection to the page
   asked for and to the place in the call.                                *)

\* What comes over the connection: a line, or a byte of the content.
ItemKinds == {"status", "Content-Length", "Transfer-Encoding", "Location", "blank", "byte", "size",
          "newline", "junk"}
Items == [is : ItemKinds, v : Int]

BodyOf(p) == IF p.coding = Http!Chunked THEN Http!Chunks(p.chunks) ELSE Http!Bytes(p.size)

\* What follows a field of the header, or the one before where the page has none.
FromBlank(p) == <<Http!Item("blank", 0)>> \o BodyOf(p)
FromLocation(p) == Http!Field("Location", p.location) \o FromBlank(p)
FromCoding(p) == Http!Field("Transfer-Encoding", p.coding) \o FromLocation(p)
FromLength(p) == Http!Field("Content-Length", p.length) \o FromCoding(p)
FromStatus(p) == <<Http!Item("status", p.status)>> \o FromLength(p)

\* w is what arrives of x: a beginning, the last line of which may be cut.
CutsOf(i) == IF i.is \in {"status", "Content-Length"} THEN Http!Cut(i) ELSE {}
Arrives(w, x) ==
    /\ Len(w) <= Len(x)
    /\ \A j \in 1 .. Len(w) : w[j] = x[j] \/ (j = Len(w) /\ w[j] \in CutsOf(x[j]))

\* The chunks of a page with the sizes c: after its last one comes the empty one.
SizeOf(c, k) == IF k <= Len(c) THEN c[k] ELSE 0
FromChunk(c, k) == IF k <= Len(c) + 1 THEN Http!LastChunks(c)[Len(c) + 1 - k] ELSE <<>>
Newline == <<Http!Item("newline", 0)>>
ChunkRest(n, x) == Http!Bytes(n) \o (Newline \o x)
Taken(c, k) == Http!ChunkSums(c)[IF k <= Len(c) THEN k ELSE Len(c)]

-----------------------------------------------------------------------------
\* The inductive invariant of the HTTP client.
HttpTypes ==
    /\ Web \in Webs /\ Caller \in {"info", "page"} /\ UseProxy \in BOOLEAN /\ file \in BOOLEAN
    /\ url \in 0 .. Len(Web) /\ cnt \in Nat /\ requests \in Nat
    /\ pc \in {"connect", "status", "header", "judge", "file", "known", "unknown", "chunks",
               "first", "data", "size", "last", "end", "spin", "undefined"}
    /\ wire \in Seq(Items) /\ connected \in BOOLEAN /\ ret \in Int
    /\ htResponse \in [DOMAIN Http!NoFields -> Int]
    /\ linebuf \in Int /\ left \in Int /\ saved \in Nat /\ stalled \in BOOLEAN
    /\ result \in Int /\ FileSize \in Int /\ IsResumeSupport \in BOOLEAN

\* The body is read by a page only, and a request precedes each response.
Asked ==
    /\ Caller = "info" => pc \in {"connect", "status", "header", "judge", "end"}
    /\ requests = cnt + (IF pc = "connect" THEN 0 ELSE 1)
    /\ cnt <= RedirectLimit + (IF Caller = "page" THEN 1 ELSE 0)
    /\ pc \in {"status", "header"} => url # 0
    /\ ret > 0 /\ pc \notin {"connect", "status", "header", "end"} => url # 0
    /\ pc \in {"connect", "status", "header", "judge", "file", "chunks"} => saved = 0
    /\ pc \in {"connect", "status", "header", "judge", "file", "chunks", "known", "unknown"} =>
          linebuf = Http!Garbage

Fields(length, coding, location) ==
    /\ htResponse["Content-Length"] = length
    /\ htResponse["Transfer-Encoding"] = coding
    /\ htResponse["Location"] = location

\* The fields are those of this response, as far as it is read.
HeaderRead(p) ==
    \/ wire = <<>>
    \/ Arrives(wire, FromLength(p)) /\ Fields(Absent, Absent, Absent)
    \/ Arrives(wire, FromCoding(p)) /\ Fields(p.length, Absent, Absent)
    \/ Arrives(wire, FromLocation(p)) /\ Fields(p.length, p.coding, Absent)
    \/ Arrives(wire, FromBlank(p)) /\ Fields(p.length, p.coding, p.location)

Answered ==
    /\ pc = "status" => Arrives(wire, FromStatus(Web[url]))
    /\ pc = "header" => HeaderRead(Web[url])
    /\ pc = "judge" /\ ret > 0 =>
          /\ Arrives(wire, BodyOf(Web[url]))
          /\ Fields(Web[url].length, Web[url].coding, Web[url].location)
    /\ Http!SizeIsThatOfTheResponse

\* The bytes taken and those still missing are those announced.
FileRead ==
    /\ pc = "known" => htResponse["Content-Length"] # Absent /\ left + saved = htResponse["Content-Length"]
    /\ pc = "unknown" => htResponse["Content-Length"] = Absent
    /\ Http!FileIsWhole

\* In the k-th of the chunks c; at the end of the connection the last size read is read again.
AtChunk(c, k) ==
    /\ pc = "first" =>
          k = 1 /\ saved = 0 /\ linebuf = SizeOf(c, 1)
          /\ Arrives(wire, ChunkRest(linebuf, FromChunk(c, 2)))
    /\ pc = "data" =>
          \/ wire = <<>> /\ left > 0
          \/ left \in Nat /\ saved + left = Taken(c, k) /\ linebuf = SizeOf(c, k)
             /\ Arrives(wire, ChunkRest(left, FromChunk(c, k + 1)))
    /\ pc = "size" =>
          /\ saved = Taken(c, k)
          /\ \/ linebuf = 0 /\ Arrives(wire, FromChunk(c, k + 1))
             \/ linebuf = SizeOf(c, k) /\ wire = <<>>
    /\ pc = "last" =>
          /\ saved = Taken(c, k)
          /\ \/ k <= Len(c) /\ linebuf = SizeOf(c, k + 1)
                /\ Arrives(wire, ChunkRest(linebuf, FromChunk(c, k + 2)))
             \/ linebuf \in {0, SizeOf(c, k)} /\ wire = <<>>

Clean == ~file /\ ~stalled /\ ret > 0

ChunksRead ==
    /\ pc = "chunks" /\ ret > 0 => Arrives(wire, FromChunk(Web[url].chunks, 1))
    /\ pc \in {"first", "data", "size", "last"} /\ Clean =>
          \/ linebuf = Http!Garbage /\ wire = <<>>
          \/ \E k \in 1 .. Len(Web[url].chunks) + 1 : AtChunk(Web[url].chunks, k)
    /\ Http!ChunksAreWhole

HttpInv == HttpTypes /\ Asked /\ Answered /\ FileRead /\ ChunksRead
-----------------------------------------------------------------------------
(* What the server sends. *)

\* An item has its kind and its number.
LEMMA ItemIs ==
  ASSUME NEW is \in ItemKinds, NEW v \in Int
  PROVE  Http!Item(is, v) \in Items /\ Http!Item(is, v).is = is /\ Http!Item(is, v).v = v
BY DEF Http!Item, Items, ItemKinds

\* What is left of a line that is cut is an item.
LEMMA CutsAre ==
  ASSUME NEW i \in Items, NEW c \in Http!Cut(i)
  PROVE  c \in Items
<1>1. i.v \in Int /\ i.is \in ItemKinds
  BY DEF Items
<1>2. i.v \div 10 \in Int
  BY <1>1
<1>3. Http!Item(i.is, i.v \div 10) \in Items
  BY <1>1, <1>2, ItemIs
<1>4. Http!Item("junk", 0) \in Items
  BY DEF Http!Item, Items, ItemKinds
<1> QED
  BY <1>3, <1>4 DEF Http!Cut

\* A run of bytes.
LEMMA BytesAre ==
  ASSUME NEW n \in Nat
  PROVE  /\ Http!Bytes(n) \in Seq(Items) /\ Len(Http!Bytes(n)) = n
         /\ \A j \in 1 .. n : Http!Bytes(n)[j] = Http!Item("byte", 0)
<1>1. Http!Item("byte", 0) \in Items
  BY DEF Http!Item, Items, ItemKinds
<1> QED
  BY <1>1 DEF Http!Bytes

\* Two sequences one after the other.
LEMMA Joined ==
  ASSUME NEW s \in Seq(Items), NEW t \in Seq(Items), NEW n \in Nat, n = Len(s)
  PROVE  /\ s \o t \in Seq(Items) /\ Len(s \o t) = n + Len(t) /\ Len(t) \in Nat
         /\ \A j \in 1 .. n + Len(t) : (s \o t)[j] = IF j <= n THEN s[j] ELSE t[j - n]
OBVIOUS

\* The same, as far as types go.
LEMMA Joins == \A s, t \in Seq(Items) : s \o t \in Seq(Items)
OBVIOUS

\* A sequence is its first item and the rest.
LEMMA FirstAndRest ==
  ASSUME NEW w \in Seq(Items), w # <<>>
  PROVE  /\ Len(w) \in Nat \ {0} /\ Head(w) = w[1] /\ Head(w) \in Items
         /\ Tail(w) \in Seq(Items) /\ Len(Tail(w)) = Len(w) - 1
         /\ \A j \in 1 .. Len(w) - 1 : Tail(w)[j] = w[j + 1]
<1>1. Len(w) \in Nat \ {0} /\ Head(w) = w[1]
  OBVIOUS
<1> QED
  BY <1>1, HeadTailProperties

\* Nothing is a beginning of everything.
LEMMA NothingArrives == \A x \in Seq(Items) : Arrives(<<>>, x)
BY DEF Arrives

\* A sequence without length is empty.
LEMMA NoneLeft == \A s \in Seq(Items) : Len(s) = 0 => s = <<>>
OBVIOUS

\* A line before the others.
LEMMA LineThen ==
  ASSUME NEW a \in Items, NEW x \in Seq(Items)
  PROVE  /\ <<a>> \o x \in Seq(Items) /\ Len(x) \in Nat /\ Len(<<a>> \o x) = Len(x) + 1
         /\ (<<a>> \o x)[1] = a /\ \A j \in 1 .. Len(x) : (<<a>> \o x)[j + 1] = x[j]
OBVIOUS

(* The first line: as it was sent, or cut and nothing after it. *)
LEMMA LineArrives ==
  ASSUME NEW a \in Items, NEW x \in Seq(Items), NEW w \in Seq(Items), w # <<>>,
         Arrives(w, <<a>> \o x)
  PROVE  /\ Head(w) = a \/ (Tail(w) = <<>> /\ Head(w) \in CutsOf(a))
         /\ Tail(w) \in Seq(Items) /\ Arrives(Tail(w), x)
<1> DEFINE y == <<a>> \o x
           t == Tail(w)
           h == Head(w)
<1>1. /\ Len(x) \in Nat /\ Len(y) = Len(x) + 1 /\ y[1] = a
      /\ \A j \in 1 .. Len(x) : y[j + 1] = x[j]
  BY LineThen
<1>2. /\ Len(w) \in Nat \ {0} /\ h = w[1] /\ t \in Seq(Items) /\ Len(t) = Len(w) - 1
      /\ \A j \in 1 .. Len(w) - 1 : t[j] = w[j + 1]
  BY FirstAndRest
<1>3. Len(w) <= Len(y) /\ \A j \in 1 .. Len(w) : w[j] = y[j] \/ (j = Len(w) /\ w[j] \in CutsOf(y[j]))
  BY DEF Arrives
<1> HIDE DEF y, t, h
<1>4. h = a \/ (Len(w) = 1 /\ h \in CutsOf(a))
  BY ONLY <1>1, <1>2, <1>3
<1>5. Len(w) = 1 => t = <<>>
  BY <1>2, NoneLeft
<1>6. Arrives(t, x)
  <2>1. ASSUME NEW j \in 1 .. Len(t)
        PROVE  t[j] = x[j] \/ (j = Len(t) /\ t[j] \in CutsOf(x[j]))
    <3>1. j + 1 \in 1 .. Len(w) /\ j \in 1 .. Len(x) /\ (j + 1 = Len(w) => j = Len(t))
      BY ONLY <1>1, <1>2, <1>3, j \in 1 .. Len(t)
    <3>2. t[j] = w[j + 1] /\ x[j] = y[j + 1]
      BY ONLY <1>1, <1>2, <3>1, j \in 1 .. Len(t)
    <3> QED
      BY ONLY <1>3, <3>1, <3>2
  <2>2. Len(t) <= Len(x)
    BY ONLY <1>1, <1>2, <1>3
  <2> QED
    BY <2>1, <2>2 DEF Arrives
<1> QED
  BY <1>2, <1>4, <1>5, <1>6 DEF t, h

\* The bytes of a chunk before what follows them.
LEMMA BytesThen ==
  ASSUME NEW n \in Nat, NEW x \in Seq(Items)
  PROVE  /\ Http!Bytes(n) \o x \in Seq(Items) /\ Len(x) \in Nat /\ Len(Http!Bytes(n) \o x) = n + Len(x)
         /\ \A j \in 1 .. n + Len(x) :
               (Http!Bytes(n) \o x)[j] = IF j <= n THEN Http!Item("byte", 0) ELSE x[j - n]
<1> DEFINE b == Http!Bytes(n)
           e == Http!Item("byte", 0)
<1>1. b \in Seq(Items) /\ Len(b) = n /\ \A j \in 1 .. n : b[j] = e
  BY BytesAre
<1> HIDE DEF b, e
<1>2. /\ b \o x \in Seq(Items) /\ Len(x) \in Nat /\ Len(b \o x) = n + Len(x)
      /\ \A j \in 1 .. n + Len(x) : (b \o x)[j] = IF j <= n THEN e ELSE x[j - n]
  <2>1. x \in Seq(Items) /\ Len(x) \in Nat
    BY LenProperties
  <2>2. /\ b \o x \in Seq(Items) /\ Len(b \o x) = Len(b) + Len(x)
        /\ \A j \in 1 .. Len(b) + Len(x) : (b \o x)[j] = IF j <= Len(b) THEN b[j] ELSE x[j - Len(b)]
    BY ONLY <1>1, <2>1, ConcatProperties
  <2>3. \A j \in 1 .. n + Len(x) : j <= n => j \in 1 .. n
    BY <2>1
  <2> QED
    BY ONLY <1>1, <2>1, <2>2, <2>3
<1> QED
  BY <1>2 DEF b, e

(* Some of the bytes. *)
LEMMA BytesArrive ==
  ASSUME NEW n \in Nat, NEW x \in Seq(Items), NEW w \in Seq(Items), NEW m \in 1 .. n, m <= Len(w),
         Arrives(w, Http!Bytes(n) \o x)
  PROVE  /\ SubSeq(w, m + 1, Len(w)) \in Seq(Items)
         /\ Arrives(SubSeq(w, m + 1, Len(w)), Http!Bytes(n - m) \o x)
<1> DEFINE k == n - m
           y == Http!Bytes(n) \o x
           z == Http!Bytes(k) \o x
           u == SubSeq(w, m + 1, Len(w))
           byte == Http!Item("byte", 0)
<1>1. k \in Nat
  OBVIOUS
<1>2. u \in Seq(Items) /\ Len(u) = Len(w) - m /\ \A j \in 1 .. Len(w) - m : u[j] = w[j + m]
  OBVIOUS
<1>3. Arrives(w, y)
  OBVIOUS
<1>4. /\ Len(x) \in Nat /\ Len(y) = n + Len(x)
      /\ \A j \in 1 .. n + Len(x) : y[j] = IF j <= n THEN byte ELSE x[j - n]
  BY BytesThen
<1>5. /\ Len(z) = k + Len(x)
      /\ \A j \in 1 .. k + Len(x) : z[j] = IF j <= k THEN byte ELSE x[j - k]
  <2> HIDE DEF k
  <2> QED
    BY <1>1, BytesThen
<1> HIDE DEF y, z, u, byte
<1>6. ASSUME NEW j \in 1 .. Len(u)
      PROVE  u[j] = z[j] \/ (j = Len(u) /\ u[j] \in CutsOf(z[j]))
  <2>1. j + m \in 1 .. Len(w) /\ Len(w) <= Len(y)
    BY <1>2, <1>3 DEF Arrives
  <2>2. j + m \in 1 .. n + Len(x) /\ j \in 1 .. k + Len(x)
    BY <2>1, <1>4, <1>2
  <2>3. z[j] = y[j + m]
    <3>1. j + m <= n <=> j <= k
      BY <2>2
    <3>2. j + m - n = j - k
      BY <2>2
    <3> QED
      BY <1>4, <1>5, <2>2, <3>1, <3>2
  <2>4. j = Len(u) <=> j + m = Len(w)
    BY <1>2, <2>1
  <2>5. u[j] = w[j + m]
    BY <1>2
  <2>6. w[j + m] = y[j + m] \/ (j + m = Len(w) /\ w[j + m] \in CutsOf(y[j + m]))
    BY <1>3, <2>1 DEF Arrives
  <2> QED
    BY <2>3, <2>4, <2>5, <2>6
<1>7. Len(u) <= Len(z)
  BY <1>2, <1>3, <1>4, <1>5 DEF Arrives
<1>8. Arrives(u, z)
  BY <1>6, <1>7 DEF Arrives
<1> QED
  BY <1>2, <1>8 DEF u, z
\* \o, as a name that the provers do not look into.
Then(x, y) == x \o y

\* Concatenation stays within the items, and its order does not matter.
LEMMA ThenIs ==
  /\ \A x, y \in Seq(Items) : Then(x, y) \in Seq(Items)
  /\ \A x, y, z \in Seq(Items) : Then(Then(x, y), z) = Then(x, Then(y, z))
<1>1. ASSUME NEW x \in Seq(Items), NEW y \in Seq(Items) PROVE Then(x, y) \in Seq(Items)
  BY DEF Then
<1>2. ASSUME NEW x \in Seq(Items), NEW y \in Seq(Items), NEW z \in Seq(Items)
      PROVE  Then(Then(x, y), z) = Then(x, Then(y, z))
  BY ConcatAssociative DEF Then
<1> QED
  BY <1>1, <1>2

\* The line after the bytes of a chunk.
LEMMA NewlineIs == Newline \in Seq(Items) /\ Len(Newline) = 1 /\ Newline[1] = Http!Item("newline", 0)
<1>1. Http!Item("newline", 0) \in Items
  BY ItemIs DEF ItemKinds
<1> QED
  BY <1>1 DEF Newline

\* What follows the size of a chunk is a sequence of items.
LEMMA RestIs ==
  ASSUME NEW n \in Nat, NEW x \in Seq(Items)
  PROVE  Newline \o x \in Seq(Items) /\ ChunkRest(n, x) \in Seq(Items)
<1>1. Newline \o x \in Seq(Items)
  BY NewlineIs, Joins
<1> QED
  BY <1>1, BytesThen DEF ChunkRest

\* A chunk is its size and the rest.
LEMMA ChunkOf ==
  ASSUME NEW n \in Nat
  PROVE  /\ Http!Chunk(n) \in Seq(Items)
         /\ \A x \in Seq(Items) : Http!Chunk(n) \o x = <<Http!Item("size", n)>> \o ChunkRest(n, x)
<1> DEFINE s == <<Http!Item("size", n)>>
           b == Http!Bytes(n)
           w == Newline
<1>1. s \in Seq(Items)
  <2>1. Http!Item("size", n) \in Items
    BY ItemIs DEF ItemKinds
  <2> QED
    BY <2>1
<1>2. b \in Seq(Items) /\ w \in Seq(Items)
  BY BytesAre, NewlineIs
<1>3. Http!Chunk(n) = Then(Then(s, b), w)
  BY DEF Http!Chunk, Newline, Then
<1>4. \A x : ChunkRest(n, x) = Then(b, Then(w, x))
  BY DEF ChunkRest, Then
<1> HIDE DEF s, b, w
<1>5. Then(Then(s, b), w) \in Seq(Items)
  BY <1>1, <1>2, ThenIs
<1>6. ASSUME NEW x \in Seq(Items)
      PROVE  Then(Then(Then(s, b), w), x) = Then(s, Then(b, Then(w, x)))
  <2>1. Then(s, b) \in Seq(Items) /\ Then(w, x) \in Seq(Items)
    BY <1>1, <1>2, ThenIs
  <2>2. Then(Then(Then(s, b), w), x) = Then(Then(s, b), Then(w, x))
    BY <1>2, <2>1, ThenIs
  <2>3. Then(Then(s, b), Then(w, x)) = Then(s, Then(b, Then(w, x)))
    BY <1>1, <1>2, <2>1, ThenIs
  <2> QED
    BY <2>2, <2>3
<1>7. ASSUME NEW x \in Seq(Items)
      PROVE  Http!Chunk(n) \o x = s \o ChunkRest(n, x)
  <2>1. Then(Http!Chunk(n), x) = Then(s, ChunkRest(n, x))
    BY <1>3, <1>4, <1>6
  <2> QED
    BY ONLY <2>1 DEF Then
<1> QED
  BY <1>3, <1>5, <1>7 DEF s

\* The recursive function LastChunks is what its definition says, for every list of sizes.
LEMMA LastChunksAre ==
  ASSUME NEW c \in Seq(Nat \ {0})
  PROVE  /\ Http!LastChunks(c) \in [0 .. Len(c) -> Seq(Items)]
         /\ Http!LastChunks(c)[0] = Http!Chunk(0)
         /\ \A k \in 1 .. Len(c) :
               Http!LastChunks(c)[k] = Http!Chunk(c[Len(c) + 1 - k]) \o Http!LastChunks(c)[k - 1]
<1> DEFINE N == Len(c)
           D == [j \in 1 .. N |-> [x \in Seq(Items) |-> Http!Chunk(c[N + 1 - j]) \o x]]
           Is(f) == f = [k \in 0 .. N |-> IF k = 0 THEN Http!Chunk(0)
                                          ELSE Http!Chunk(c[N + 1 - k]) \o f[k - 1]]
<1>1. N \in Nat /\ D \in [1 .. N -> [Seq(Items) -> Seq(Items)]] /\ Http!Chunk(0) \in Seq(Items)
  <2>1. N \in Nat /\ \A j \in 1 .. N : c[N + 1 - j] \in Nat
    OBVIOUS
  <2>2. \A j \in 1 .. N : \A x \in Seq(Items) : Http!Chunk(c[N + 1 - j]) \o x \in Seq(Items)
    <3> SUFFICES ASSUME NEW j \in 1 .. N, NEW x \in Seq(Items)
                 PROVE  Http!Chunk(c[N + 1 - j]) \o x \in Seq(Items)
      OBVIOUS
    <3>1. Http!Chunk(c[N + 1 - j]) \in Seq(Items)
      BY <2>1, ChunkOf
    <3> QED
      BY <3>1, Joined
  <2>3. Http!Chunk(0) \in Seq(Items)
    BY ChunkOf
  <2> QED
    BY <2>1, <2>2, <2>3
<1>2. PICK f \in [0 .. N -> Seq(Items)] :
           f[0] = Http!Chunk(0) /\ \A j \in 1 .. N : f[j] = D[j][f[j - 1]]
  <2>1. Sequels(N, Seq(Items), Http!Chunk(0), D) # {}
    <3> HIDE DEF D, N
    <3> QED
      BY <1>1, Recursion
  <2> QED
    BY <2>1 DEF Sequels
<1>3. Is(f)
  <2>1. \A j \in 1 .. N : j - 1 \in 0 .. N
    BY <1>1
  <2>2. \A j \in 1 .. N : D[j][f[j - 1]] = Http!Chunk(c[N + 1 - j]) \o f[j - 1]
    BY <1>2, <2>1
  <2>3. \A j \in 1 .. N : f[j] = Http!Chunk(c[N + 1 - j]) \o f[j - 1]
    <3> HIDE DEF D, N
    <3> QED
      BY <1>2, <2>2
  <2>4. \A k \in 0 .. N : k = 0 \/ k \in 1 .. N
    BY <1>1
  <2>5. \A k \in 0 .. N : f[k] = IF k = 0 THEN Http!Chunk(0)
                                 ELSE Http!Chunk(c[N + 1 - k]) \o f[k - 1]
    <3> HIDE DEF D, N
    <3> QED
      BY <1>2, <2>3, <2>4
  <2> QED
    BY <2>5
<1>4. Is(Http!LastChunks(c))
  BY <1>3 DEF Http!LastChunks
<1> DEFINE g == Http!LastChunks(c)
<1>5. g = [k \in 0 .. N |-> IF k = 0 THEN Http!Chunk(0) ELSE Http!Chunk(c[N + 1 - k]) \o g[k - 1]]
  BY <1>4
<1> HIDE DEF g, N, D
<1>6. DOMAIN g = 0 .. N /\ g[0] = Http!Chunk(0)
  BY <1>1, <1>5
<1>7. \A k \in 1 .. N : k \in 0 .. N /\ k # 0
  BY <1>1
<1>8. \A k \in 1 .. N : g[k] = Http!Chunk(c[N + 1 - k]) \o g[k - 1]
  BY <1>5, <1>7
<1>9. g \in [0 .. N -> Seq(Items)]
  <2> DEFINE S == {k \in 0 .. N : g[k] \in Seq(Items)}
  <2>1. 0 \in S
    BY <1>1, <1>6
  <2>2. \A k \in 0 .. N - 1 : k \in S => k + 1 \in S
    <3> SUFFICES ASSUME NEW k \in 0 .. N - 1, k \in S PROVE k + 1 \in S
      OBVIOUS
    <3>1. k + 1 \in 1 .. N /\ k + 1 \in 0 .. N /\ (k + 1) - 1 = k /\ N + 1 - (k + 1) \in 1 .. N
      BY <1>1
    <3>2. c[N + 1 - (k + 1)] \in Nat
      BY <3>1 DEF N
    <3>3. Http!Chunk(c[N + 1 - (k + 1)]) \in Seq(Items)
      BY <3>2, ChunkOf
    <3>4. g[k + 1] = Http!Chunk(c[N + 1 - (k + 1)]) \o g[k]
      BY <1>8, <3>1
    <3> QED
      BY <3>1, <3>3, <3>4, Joins
  <2>3. 0 .. N \subseteq S
    <3> HIDE DEF S
    <3> QED
      BY <1>1, <2>1, <2>2, AllNumbersTo
  <2>4. \A k \in 0 .. N : g[k] \in Seq(Items)
    BY <2>3
  <2>5. g = [k \in 0 .. N |-> g[k]]
    BY <1>5
  <2> QED
    BY <2>4, <2>5
<1> QED
  BY <1>6, <1>8, <1>9 DEF g, N
\* So is ChunkSums.
LEMMA SumsAre ==
  ASSUME NEW c \in Seq(Nat \ {0})
  PROVE  /\ Http!ChunkSums(c) \in [0 .. Len(c) -> Nat] /\ Http!ChunkSums(c)[0] = 0
         /\ \A k \in 1 .. Len(c) : Http!ChunkSums(c)[k] = Http!ChunkSums(c)[k - 1] + c[k]
<1> DEFINE N == Len(c)
           D == [j \in 1 .. N |-> [m \in Nat |-> m + c[j]]]
           Is(f) == f = [k \in 0 .. N |-> IF k = 0 THEN 0 ELSE f[k - 1] + c[k]]
<1>1. N \in Nat /\ D \in [1 .. N -> [Nat -> Nat]]
  OBVIOUS
<1>2. PICK f \in [0 .. N -> Nat] : f[0] = 0 /\ \A j \in 1 .. N : f[j] = D[j][f[j - 1]]
  <2>1. Sequels(N, Nat, 0, D) # {}
    <3>1. 0 \in Nat
      OBVIOUS
    <3> HIDE DEF D, N
    <3> QED
      BY <1>1, <3>1, Recursion
  <2> QED
    BY <2>1 DEF Sequels
<1>3. Is(f)
  <2>1. \A j \in 1 .. N : j - 1 \in 0 .. N
    BY <1>1
  <2>2. \A j \in 1 .. N : D[j][f[j - 1]] = f[j - 1] + c[j]
    BY <1>2, <2>1
  <2>3. \A j \in 1 .. N : f[j] = f[j - 1] + c[j]
    <3> HIDE DEF D, N
    <3> QED
      BY <1>2, <2>2
  <2>4. \A k \in 0 .. N : k = 0 \/ k \in 1 .. N
    BY <1>1
  <2>5. \A k \in 0 .. N : f[k] = IF k = 0 THEN 0 ELSE f[k - 1] + c[k]
    <3> HIDE DEF D, N
    <3> QED
      BY <1>2, <2>3, <2>4
  <2> QED
    BY <2>5
<1>4. Is(Http!ChunkSums(c))
  BY <1>3 DEF Http!ChunkSums
<1> DEFINE g == Http!ChunkSums(c)
<1>5. g = [k \in 0 .. N |-> IF k = 0 THEN 0 ELSE g[k - 1] + c[k]]
  BY <1>4
<1> HIDE DEF g, N, D
<1>6. DOMAIN g = 0 .. N /\ g[0] = 0
  BY <1>1, <1>5
<1>7. \A k \in 1 .. N : k \in 0 .. N /\ k # 0
  BY <1>1
<1>8. \A k \in 1 .. N : g[k] = g[k - 1] + c[k]
  BY <1>5, <1>7
<1>9. g \in [0 .. N -> Nat]
  <2> DEFINE S == {k \in 0 .. N : g[k] \in Nat}
  <2>1. 0 \in S
    BY <1>1, <1>6
  <2>2. \A k \in 0 .. N - 1 : k \in S => k + 1 \in S
    <3> SUFFICES ASSUME NEW k \in 0 .. N - 1, k \in S PROVE k + 1 \in S
      OBVIOUS
    <3>1. k + 1 \in 1 .. N /\ k + 1 \in 0 .. N /\ (k + 1) - 1 = k
      BY <1>1
    <3>2. c[k + 1] \in Nat
      BY <3>1 DEF N
    <3>3. g[k + 1] = g[k] + c[k + 1]
      BY <1>8, <3>1
    <3> QED
      BY <3>1, <3>2, <3>3
  <2>3. 0 .. N \subseteq S
    <3> HIDE DEF S
    <3> QED
      BY <1>1, <2>1, <2>2, AllNumbersTo
  <2>4. \A k \in 0 .. N : g[k] \in Nat
    BY <2>3
  <2>5. g = [k \in 0 .. N |-> g[k]]
    BY <1>5
  <2> QED
    BY <2>4, <2>5
<1> QED
  BY <1>6, <1>8, <1>9 DEF g, N

(* The bytes taken grow by each chunk, and only the one after the last has none. *)
LEMMA SizesAdd ==
  ASSUME NEW c \in Seq(Nat \ {0}), NEW k \in 1 .. Len(c) + 1
  PROVE  /\ Len(c) \in Nat /\ SizeOf(c, k) \in Nat /\ (SizeOf(c, k) = 0 <=> k = Len(c) + 1)
         /\ Taken(c, 0) = 0 /\ Taken(c, k - 1) \in Nat /\ Taken(c, k) \in Nat
         /\ Taken(c, k) = Taken(c, k - 1) + SizeOf(c, k)
         /\ Taken(c, k) = Http!ChunkSums(c)[IF k <= Len(c) THEN k ELSE Len(c)]
<1> DEFINE N == Len(c)
           g == Http!ChunkSums(c)
<1>1. N \in Nat /\ g \in [0 .. N -> Nat] /\ g[0] = 0 /\ \A j \in 1 .. N : g[j] = g[j - 1] + c[j]
  BY SumsAre
<1>2. k \in 1 .. N => c[k] \in Nat \ {0}
  OBVIOUS
<1>3. /\ SizeOf(c, k) = IF k <= N THEN c[k] ELSE 0
      /\ Taken(c, k) = g[IF k <= N THEN k ELSE N]
      /\ Taken(c, k - 1) = g[IF k - 1 <= N THEN k - 1 ELSE N]
      /\ Taken(c, 0) = g[IF 0 <= N THEN 0 ELSE N]
  BY DEF SizeOf, Taken
<1> HIDE DEF g
<1>4. k \in 1 .. N + 1
  OBVIOUS
<1> HIDE DEF N
<1>5. k \in 1 .. N + 1 /\ k - 1 \in 0 .. N /\ (k <= N => k \in 0 .. N /\ k \in 1 .. N) /\ N \in 0 .. N
  BY ONLY <1>1, <1>4
<1>6. CASE k <= N
  <2>1. k - 1 <= N /\ k # N + 1 /\ 0 <= N
    BY <1>1, <1>5, <1>6
  <2>2. SizeOf(c, k) = c[k] /\ Taken(c, k) = g[k] /\ Taken(c, k - 1) = g[k - 1] /\ Taken(c, 0) = g[0]
    BY <1>3, <1>6, <2>1
  <2>3. c[k] \in Nat \ {0} /\ g[k] \in Nat /\ g[k - 1] \in Nat /\ g[k] = g[k - 1] + c[k]
    BY <1>1, <1>2, <1>5, <1>6
  <2> QED
    BY <1>1, <1>3, <2>1, <2>2, <2>3 DEF N, g
<1>7. CASE ~(k <= N)
  <2>1. k = N + 1 /\ k - 1 = N /\ 0 <= N /\ N <= N
    BY ONLY <1>1, <1>5, <1>7
  <2>2. SizeOf(c, k) = 0 /\ Taken(c, k) = g[N] /\ Taken(c, k - 1) = g[N] /\ Taken(c, 0) = g[0]
    BY <1>3, <1>7, <2>1
  <2>3. g[N] \in Nat
    BY <1>1, <1>5
  <2> QED
    BY <1>1, <1>3, <2>1, <2>2, <2>3 DEF N, g
<1> QED
  BY <1>6, <1>7

(* What comes of a chunk: the line with its size, its bytes, a newline and the chunks after it. *)
LEMMA ChunkComes ==
  ASSUME NEW c \in Seq(Nat \ {0}), NEW k \in 1 .. Len(c) + 1
  PROVE  /\ FromChunk(c, k) \in Seq(Items) /\ FromChunk(c, k + 1) \in Seq(Items)
         /\ ChunkRest(SizeOf(c, k), FromChunk(c, k + 1)) \in Seq(Items)
         /\ FromChunk(c, k) = <<Http!Item("size", SizeOf(c, k))>>
                              \o ChunkRest(SizeOf(c, k), FromChunk(c, k + 1))
<1> DEFINE N == Len(c)
           g == Http!LastChunks(c)
           n == SizeOf(c, k)
           x == FromChunk(c, k + 1)
<1>1. /\ N \in Nat /\ g \in [0 .. N -> Seq(Items)] /\ g[0] = Http!Chunk(0)
      /\ \A j \in 1 .. N : g[j] = Http!Chunk(c[N + 1 - j]) \o g[j - 1]
  <2>1. N \in Nat
    OBVIOUS
  <2>2. /\ g \in [0 .. N -> Seq(Items)] /\ g[0] = Http!Chunk(0)
        /\ \A j \in 1 .. N : g[j] = Http!Chunk(c[N + 1 - j]) \o g[j - 1]
    BY LastChunksAre, Zenon
  <2> QED
    BY <2>1, <2>2
<1>2. n \in Nat
  BY SizesAdd
<1>3. FromChunk(c, k) = g[N + 1 - k] /\ x = IF k + 1 <= N + 1 THEN g[N + 1 - (k + 1)] ELSE <<>>
  BY DEF FromChunk
<1>4. n = IF k <= N THEN c[k] ELSE 0
  BY DEF SizeOf
<1>5. k \in 1 .. N + 1
  OBVIOUS
<1> HIDE DEF g, N, n, x
<1>6. x \in Seq(Items) /\ g[N + 1 - k] = Http!Chunk(n) \o x
  <2>1. CASE k <= N
    <3>1. k + 1 <= N + 1 /\ N + 1 - k \in 1 .. N /\ N + 1 - (k + 1) \in 0 .. N
      BY ONLY <1>1, <1>5, <2>1
    <3>2. (N + 1 - k) - 1 = N + 1 - (k + 1) /\ N + 1 - (N + 1 - k) = k
      BY ONLY <1>1, <1>5
    <3>3. g[N + 1 - k] = Http!Chunk(c[k]) \o g[N + 1 - (k + 1)]
      BY <1>1, <3>1, <3>2
    <3> QED
      BY <1>1, <1>3, <1>4, <2>1, <3>1, <3>3
  <2>2. CASE ~(k <= N)
    <3>1. N + 1 - k = 0 /\ ~(k + 1 <= N + 1)
      BY ONLY <1>1, <1>5, <2>2
    <3>2. x = <<>> /\ n = 0 /\ g[N + 1 - k] = Http!Chunk(0)
      BY <1>1, <1>3, <1>4, <2>2, <3>1
    <3>3. Http!Chunk(0) \in Seq(Items)
      BY ChunkOf
    <3> QED
      BY <3>2, <3>3, ConcatEmptySeq, EmptySeq
  <2> QED
    BY <2>1, <2>2
<1>7. /\ ChunkRest(n, x) \in Seq(Items) /\ Http!Chunk(n) \in Seq(Items)
      /\ Http!Chunk(n) \o x = <<Http!Item("size", n)>> \o ChunkRest(n, x)
  BY <1>2, <1>6, ChunkOf, RestIs
<1>8. Http!Chunk(n) \o x \in Seq(Items)
  BY <1>6, <1>7, Joins
<1> QED
  BY <1>3, <1>6, <1>7, <1>8 DEF n, x

\* After the empty chunk nothing comes.
LEMMA NothingAfterTheLast == \A c \in Seq(Nat \ {0}) : FromChunk(c, Len(c) + 2) = <<>>
BY DEF FromChunk

-----------------------------------------------------------------------------
(* A response arrives whole or in part. *)

\* A field of the header is one line, or none.
LEMMA FieldIs ==
  ASSUME NEW is \in ItemKinds, NEW v \in Int, NEW x \in Seq(Items)
  PROVE  /\ Http!Field(is, v) \in Seq(Items) /\ Http!Field(is, v) \o x \in Seq(Items)
         /\ v = Absent => Http!Field(is, v) \o x = x
         /\ v # Absent => Http!Field(is, v) = <<Http!Item(is, v)>>
<1>1. Http!Item(is, v) \in Items
  BY ItemIs
<1>2. <<Http!Item(is, v)>> \in Seq(Items) /\ <<>> \in Seq(Items)
  BY <1>1
<1>3. CASE v = Absent
  <2>1. Http!Field(is, v) = <<>>
    BY <1>3 DEF Http!Field, Http!Absent, Absent
  <2>2. <<>> \o x = x
    BY ConcatEmptySeq
  <2> QED
    BY <1>2, <1>3, <2>1, <2>2
<1>4. CASE v # Absent
  <2>1. Http!Field(is, v) = <<Http!Item(is, v)>>
    BY <1>4 DEF Http!Field, Http!Absent, Absent
  <2> QED
    BY <1>2, <1>4, <2>1, Joins
<1> QED
  BY <1>3, <1>4

\* The parts of a page.
LEMMA PageIs ==
  ASSUME NEW p \in Pages
  PROVE  /\ p.status \in Nat /\ p.length \in Int /\ p.coding \in Int /\ p.location \in Int
         /\ p.size \in Nat /\ p.chunks \in Seq(Nat \ {0})
BY DEF Pages

\* The parts of a response may be joined from the right.
LEMMA SixJoined ==
  ASSUME NEW s \in Seq(Items), NEW n \in Seq(Items), NEW t \in Seq(Items), NEW l \in Seq(Items),
         NEW e \in Seq(Items), NEW b \in Seq(Items)
  PROVE  Then(Then(Then(Then(Then(s, n), t), l), e), b)
            = Then(s, Then(n, Then(t, Then(l, Then(e, b)))))
<1> DEFINE s2 == Then(Then(s, n), t)
           s3 == Then(s2, l)
           b1 == Then(e, b)
           b2 == Then(l, b1)
           b3 == Then(t, b2)
<1>1. /\ Then(s, n) \in Seq(Items) /\ s2 \in Seq(Items) /\ s3 \in Seq(Items)
      /\ b1 \in Seq(Items) /\ b2 \in Seq(Items) /\ b3 \in Seq(Items)
  BY ThenIs
<1>2. Then(Then(s3, e), b) = Then(s3, b1)
  BY <1>1, ThenIs
<1>3. Then(s3, b1) = Then(s2, b2)
  BY <1>1, ThenIs
<1>4. Then(s2, b2) = Then(Then(s, n), b3)
  BY <1>1, ThenIs
<1>5. Then(Then(s, n), b3) = Then(s, Then(n, b3))
  BY <1>1, ThenIs
<1> QED
  BY <1>2, <1>3, <1>4, <1>5

\* A response is its status line and what follows it, field by field.
LEMMA ResponseIs ==
  ASSUME NEW p \in Pages
  PROVE  /\ BodyOf(p) \in Seq(Items) /\ FromBlank(p) \in Seq(Items) /\ FromLocation(p) \in Seq(Items)
         /\ FromCoding(p) \in Seq(Items) /\ FromLength(p) \in Seq(Items) /\ FromStatus(p) \in Seq(Items)
         /\ Http!Response(p) = FromStatus(p)
<1> DEFINE b == BodyOf(p)
           l == Http!Field("Location", p.location)
           t == Http!Field("Transfer-Encoding", p.coding)
           n == Http!Field("Content-Length", p.length)
           s == <<Http!Item("status", p.status)>>
           e == <<Http!Item("blank", 0)>>
<1>1. b \in Seq(Items)
  <2>1. Http!Bytes(p.size) \in Seq(Items)
    BY PageIs, BytesAre
  <2>2. Http!Chunks(p.chunks) \in Seq(Items)
    <3>1. p.chunks \in Seq(Nat \ {0}) /\ Len(p.chunks) \in 0 .. Len(p.chunks)
      BY PageIs
    <3> QED
      BY <3>1, LastChunksAre DEF Http!Chunks
  <2> QED
    BY <2>1, <2>2 DEF BodyOf
<1>2. s \in Seq(Items) /\ e \in Seq(Items)
  <2>1. Http!Item("status", p.status) \in Items /\ Http!Item("blank", 0) \in Items
    BY PageIs, ItemIs DEF ItemKinds
  <2> QED
    BY <2>1
<1>3. l \in Seq(Items) /\ t \in Seq(Items) /\ n \in Seq(Items)
  <2>1. <<>> \in Seq(Items)
    OBVIOUS
  <2> QED
    BY <2>1, PageIs, FieldIs DEF ItemKinds
<1>4. Http!Response(p) = ((((s \o n) \o t) \o l) \o e) \o b
  BY DEF Http!Response, Http!Header, BodyOf
<1>5. /\ FromBlank(p) = e \o b /\ FromLocation(p) = l \o (e \o b) /\ FromCoding(p) = t \o (l \o (e \o b))
      /\ FromLength(p) = n \o (t \o (l \o (e \o b))) /\ FromStatus(p) = s \o (n \o (t \o (l \o (e \o b))))
  BY DEF FromBlank, FromLocation, FromCoding, FromLength, FromStatus
<1> HIDE DEF b, l, t, n, s, e
<1>6. /\ e \o b \in Seq(Items) /\ l \o (e \o b) \in Seq(Items) /\ t \o (l \o (e \o b)) \in Seq(Items)
      /\ n \o (t \o (l \o (e \o b))) \in Seq(Items) /\ s \o (n \o (t \o (l \o (e \o b)))) \in Seq(Items)
  BY <1>1, <1>2, <1>3, Joins
<1>7. ((((s \o n) \o t) \o l) \o e) \o b = s \o (n \o (t \o (l \o (e \o b))))
  <2>1. Then(Then(Then(Then(Then(s, n), t), l), e), b)
           = Then(s, Then(n, Then(t, Then(l, Then(e, b)))))
    BY <1>1, <1>2, <1>3, SixJoined
  <2> QED
    BY ONLY <2>1 DEF Then
<1> QED
  BY <1>1, <1>4, <1>5, <1>6, <1>7 DEF b

\* Whatever gets through of a response is a beginning of it, the last line cut or not.
LEMMA DeliveriesArrive ==
  ASSUME NEW r \in Seq(Items), NEW w \in Http!Deliveries(r)
  PROVE  w \in Seq(Items) /\ Arrives(w, r)
<1>1. Len(r) \in Nat
  OBVIOUS
<1>2. CASE w = r
  BY <1>1, <1>2 DEF Arrives
<1>3. ASSUME NEW k \in 0 .. Len(r), w = SubSeq(r, 1, k)
      PROVE  w \in Seq(Items) /\ Arrives(w, r)
  <2>1. w \in Seq(Items) /\ Len(w) = k /\ \A j \in 1 .. k : w[j] = r[j]
    BY <1>3
  <2> QED
    BY <1>1, <2>1 DEF Arrives
<1>4. ASSUME NEW k \in {j \in 1 .. Len(r) : r[j].is \in {"status", "Content-Length"}},
             NEW c \in Http!Cut(r[k]), w = Append(SubSeq(r, 1, k - 1), c)
      PROVE  w \in Seq(Items) /\ Arrives(w, r)
  <2> DEFINE s == SubSeq(r, 1, k - 1)
  <2>1. s \in Seq(Items) /\ Len(s) = k - 1 /\ \A j \in 1 .. k - 1 : s[j] = r[j]
    OBVIOUS
  <2>2. r[k] \in Items /\ k \in 1 .. Len(r)
    OBVIOUS
  <2>3. c \in Items
    BY <2>2, CutsAre
  <2>4. w = Append(s, c)
    BY <1>4
  <2> HIDE DEF s
  <2>5. w \in Seq(Items) /\ Len(w) = k /\ w[k] = c /\ \A j \in 1 .. k - 1 : w[j] = s[j]
    BY <2>1, <2>2, <2>3, <2>4, AppendProperties
  <2>6. c \in CutsOf(r[k])
    BY DEF CutsOf
  <2>7. ASSUME NEW j \in 1 .. Len(w)
        PROVE  w[j] = r[j] \/ (j = Len(w) /\ w[j] \in CutsOf(r[j]))
    BY <2>1, <2>2, <2>5, <2>6
  <2> QED
    BY <1>1, <2>2, <2>5, <2>7 DEF Arrives
<1> QED
  BY <1>2, <1>3, <1>4 DEF Http!Deliveries
-----------------------------------------------------------------------------
(* What no step of a kind can disturb. *)

\* The assumption on the servers, for the one that is asked.
LEMMA WebIs ==
  ASSUME HttpTypes
  PROVE  /\ Web \in Seq(Pages) /\ Len(Web) \in Nat \ {0}
         /\ \A u \in 1 .. Len(Web) : Web[u] \in Pages /\ Web[u].location \in {-1} \cup 0 .. Len(Web)
<1>1. Web \in Seq(Pages) /\ Web # <<>> /\ \A u \in DOMAIN Web : Web[u].location \in {-1} \cup 0 .. Len(Web)
  BY HttpAssumption DEF HttpTypes
<1>2. DOMAIN Web = 1 .. Len(Web) /\ Len(Web) \in Nat \ {0} /\ \A u \in 1 .. Len(Web) : Web[u] \in Pages
  BY <1>1
<1> QED
  BY <1>1, <1>2

\* Each part of the invariant speaks of a few places in the call only.
LEMMA Undisturbed ==
  /\ pc' \notin {"status", "header", "judge", "end"} => Answered'
  /\ pc' = "end" /\ (Caller' = "page" \/ result' # 1) => Answered'
  /\ pc' \notin {"known", "unknown", "end"} => FileRead'
  /\ pc' = "end" /\ (Caller' # "page" \/ ~(result' > 0)) => FileRead'
  /\ pc' \notin {"chunks", "first", "data", "size", "last", "end"} => ChunksRead'
  /\ pc' = "end" /\ (Caller' # "page" \/ linebuf' = Http!Garbage \/ result' # 0) => ChunksRead'
BY DEF Answered, FileRead, ChunksRead, Http!SizeIsThatOfTheResponse, Http!FileIsWhole, Http!ChunksAreWhole

\* The fields that are kept.
LEMMA HeaderNames == DOMAIN Http!NoFields = {"Content-Length", "Transfer-Encoding", "Location"}
BY DEF Http!NoFields

-----------------------------------------------------------------------------
(* The header. *)

\* A session either fails or begins with a response of the page at its URL.
LEMMA SetupIs ==
  ASSUME HttpInv, Http!setupHttpSession
  PROVE  /\ pc = "connect" /\ requests' = requests + 1
         /\ \/ /\ wire' = <<>> /\ connected' = FALSE
               /\ \/ Caller = "info" /\ pc' = "end" /\ result' = 0 /\ ret' = ret
                  \/ Caller = "page" /\ pc' = "judge" /\ ret' = -1 /\ result' = result
            \/ /\ url # 0 /\ pc' = "status" /\ connected' = TRUE /\ ret' = ret /\ result' = result
               /\ wire' \in Seq(Items) /\ Arrives(wire', FromStatus(Web[url]))
<1>1. HttpTypes
  BY DEF HttpInv
<1>2. CASE Http!NotConnected
  BY <1>1, <1>2 DEF Http!setupHttpSession, Http!NotConnected, Http!End, HttpTypes
<1>3. CASE /\ Http!Reachable /\ connected' = TRUE /\ wire' \in Http!Heard
           /\ pc' = "status" /\ UNCHANGED <<ret, result>>
  <2>1. url \in 1 .. Len(Web) /\ Web[url] \in Pages
    <3>1. url # 0
      BY <1>3 DEF Http!Reachable
    <3>2. url \in 0 .. Len(Web) /\ Len(Web) \in Nat
      BY <1>1, WebIs DEF HttpTypes
    <3>3. url \in 1 .. Len(Web)
      BY <3>1, <3>2
    <3> QED
      BY <1>1, <3>3, WebIs
  <2>2. Http!Response(Web[url]) = FromStatus(Web[url]) /\ FromStatus(Web[url]) \in Seq(Items)
    BY <2>1, ResponseIs
  <2>3. wire' = <<>> \/ wire' \in Http!Deliveries(FromStatus(Web[url]))
    BY <1>3, <2>2 DEF Http!Heard
  <2>4. wire' \in Seq(Items) /\ Arrives(wire', FromStatus(Web[url]))
    <3>1. CASE wire' = <<>>
      BY <2>2, <3>1, NothingArrives, EmptySeq
    <3>2. CASE wire' \in Http!Deliveries(FromStatus(Web[url]))
      BY <2>2, <3>2, DeliveriesArrive
    <3> QED
      BY <2>3, <3>1, <3>2
  <2> QED
    BY <1>3, <2>1, <2>4 DEF Http!setupHttpSession
<1> QED
  BY <1>2, <1>3 DEF Http!setupHttpSession

\* setupHttpSession keeps the invariant.
LEMMA SetupKeeps == HttpInv /\ Http!setupHttpSession => HttpInv'
<1> SUFFICES ASSUME HttpInv, Http!setupHttpSession PROVE HttpInv'
  OBVIOUS
<1>1. HttpTypes /\ Asked
  BY DEF HttpInv
<1>2. /\ pc = "connect" /\ requests' = requests + 1
      /\ \/ /\ wire' = <<>> /\ connected' = FALSE
            /\ \/ Caller = "info" /\ pc' = "end" /\ result' = 0 /\ ret' = ret
               \/ Caller = "page" /\ pc' = "judge" /\ ret' = -1 /\ result' = result
         \/ /\ url # 0 /\ pc' = "status" /\ connected' = TRUE /\ ret' = ret /\ result' = result
            /\ wire' \in Seq(Items) /\ Arrives(wire', FromStatus(Web[url]))
  BY SetupIs
<1>3. UNCHANGED <<Web, Caller, UseProxy, file, url, cnt, htResponse, linebuf, left, saved, stalled,
                  FileSize, IsResumeSupport>>
  BY DEF Http!setupHttpSession, Http!fixed, Http!body, Http!info
<1>4. HttpTypes'
  <2>1. <<>> \in Seq(Items)
    OBVIOUS
  <2>2. wire' \in Seq(Items) /\ connected' \in BOOLEAN /\ pc' \in {"status", "judge", "end"}
    BY <1>2, <2>1
  <2>3. requests' \in Nat /\ ret' \in Int /\ result' \in Int
    BY <1>1, <1>2 DEF HttpTypes
  <2> QED
    BY <1>1, <1>3, <2>2, <2>3 DEF HttpTypes
<1>5. Asked'
  BY <1>1, <1>2, <1>3 DEF Asked, HttpTypes
<1>6. Answered' /\ FileRead' /\ ChunksRead'
  <2>1. CASE pc' = "end"
    BY <1>2, <1>3, <2>1, Undisturbed
  <2>2. CASE pc' \in {"judge", "status"}
    <3>1. FileRead' /\ ChunksRead'
      BY <2>2, Undisturbed
    <3>2. Answered'
      BY <1>2, <1>3, <2>2 DEF Answered, Http!SizeIsThatOfTheResponse
    <3> QED
      BY <3>1, <3>2
  <2> QED
    BY <1>2, <2>1, <2>2
<1> QED
  BY <1>4, <1>5, <1>6 DEF HttpInv

\* An address that is one leads to a page.
LEMMA AtPage ==
  ASSUME HttpTypes, url # 0
  PROVE  url \in 1 .. Len(Web) /\ Web[url] \in Pages
<1>1. url \in 0 .. Len(Web) /\ Len(Web) \in Nat
  BY WebIs DEF HttpTypes
<1>2. url \in 1 .. Len(Web)
  BY <1>1
<1> QED
  BY <1>2, WebIs

\* recvStatusLine: the fields of the last response are cleared.
LEMMA StatusKeeps == HttpInv /\ Http!recvStatusLine => HttpInv'
<1> SUFFICES ASSUME HttpInv, Http!recvStatusLine PROVE HttpInv'
  OBVIOUS
<1>1. HttpTypes /\ Asked /\ pc = "status"
  BY DEF HttpInv, Http!recvStatusLine
<1>2. Web[url] \in Pages /\ url # 0 /\ Arrives(wire, FromStatus(Web[url]))
  <2>1. url # 0 /\ Arrives(wire, FromStatus(Web[url]))
    BY <1>1 DEF Asked, HttpInv, Answered
  <2> QED
    BY <1>1, <2>1, AtPage
<1>3. htResponse' = Http!NoFields
  BY DEF Http!recvStatusLine, Http!ClearAllHdr
<1>4. UNCHANGED <<Web, Caller, UseProxy, file, url, cnt, requests, connected, linebuf, left, saved, stalled,
                  result, FileSize, IsResumeSupport>>
  BY DEF Http!recvStatusLine, Http!Give, Http!fixed, Http!body, Http!info
<1>5. \/ pc' = "judge" /\ ret' = -1 /\ wire' = wire
      \/ pc' = "header" /\ wire # <<>> /\ wire' = Tail(wire) /\ ret' = Head(wire).v
  BY DEF Http!recvStatusLine, Http!Give
<1>6. pc' = "header" => wire' \in Seq(Items) /\ ret' \in Int /\ Arrives(wire', FromLength(Web[url]))
  <2> SUFFICES ASSUME pc' = "header"
               PROVE  wire' \in Seq(Items) /\ ret' \in Int /\ Arrives(wire', FromLength(Web[url]))
    OBVIOUS
  <2>1. wire # <<>> /\ wire' = Tail(wire) /\ ret' = Head(wire).v /\ wire \in Seq(Items)
    BY <1>1, <1>5 DEF HttpTypes
  <2>2. Http!Item("status", Web[url].status) \in Items /\ FromLength(Web[url]) \in Seq(Items)
    BY <1>2, ItemIs, PageIs, ResponseIs DEF ItemKinds
  <2>3. Tail(wire) \in Seq(Items) /\ Arrives(Tail(wire), FromLength(Web[url]))
    BY <1>2, <2>1, <2>2, LineArrives DEF FromStatus
  <2>4. Head(wire) \in Items
    BY <2>1, FirstAndRest
  <2> QED
    BY <2>1, <2>3, <2>4 DEF Items
<1>7. HttpTypes'
  <2>1. htResponse' \in [DOMAIN Http!NoFields -> Int]
    <3>1. Http!Absent \in Int
      BY DEF Http!Absent
    <3> QED
      BY <1>3, <3>1 DEF Http!NoFields
  <2> QED
    BY <1>1, <1>4, <1>5, <1>6, <2>1 DEF HttpTypes
<1>8. Asked'
  BY <1>1, <1>2, <1>4, <1>5 DEF Asked
<1>9. Answered'
  <2>1. Fields(Absent, Absent, Absent)'
    BY <1>3 DEF Fields, Http!NoFields, Http!Absent, Absent
  <2> QED
    BY <1>4, <1>5, <1>6, <2>1 DEF Answered, HeaderRead, Http!SizeIsThatOfTheResponse
<1>10. FileRead' /\ ChunksRead'
  BY <1>5, Undisturbed
<1> QED
  BY <1>7, <1>8, <1>9, <1>10 DEF HttpInv
\* Of a field and what follows it: the field is missing, is at the front, or was cut and nothing follows.
LEMMA TailThen ==
  ASSUME NEW is \in DOMAIN Http!NoFields, NEW v \in Int, NEW x \in Seq(Items),
         wire \in Seq(Items), wire # <<>>, Arrives(wire, Http!Field(is, v) \o x)
  PROVE  \/ v = Absent /\ Arrives(wire, x)
         \/ /\ v # Absent /\ Tail(wire) \in Seq(Items) /\ Arrives(Tail(wire), x)
            /\ Head(wire) = Http!Item(is, v) \/ (Tail(wire) = <<>> /\ Head(wire).is # "blank")
<1>1. is \in ItemKinds /\ is # "blank"
  BY HeaderNames DEF ItemKinds
<1>2. CASE v = Absent
  <2>1. Http!Field(is, v) \o x = x
    BY <1>1, <1>2, FieldIs
  <2> QED
    BY <1>2, <2>1
<1>3. CASE v # Absent
  <2>1. Http!Field(is, v) = <<Http!Item(is, v)>>
    BY <1>1, <1>3, FieldIs
  <2>2. Http!Item(is, v) \in Items /\ Http!Item(is, v).is = is
    BY <1>1, ItemIs
  <2>3. Arrives(wire, <<Http!Item(is, v)>> \o x)
    BY <2>1
  <2>4. /\ Head(wire) = Http!Item(is, v) \/ (Tail(wire) = <<>> /\ Head(wire) \in CutsOf(Http!Item(is, v)))
        /\ Tail(wire) \in Seq(Items) /\ Arrives(Tail(wire), x)
    BY <2>2, <2>3, LineArrives
  <2>5. \A c \in CutsOf(Http!Item(is, v)) : c.is # "blank"
    <3>1. \A c \in Http!Cut(Http!Item(is, v)) : c.is \in {is, "junk"}
      BY <2>2 DEF Http!Cut, Http!Item
    <3> QED
      BY <1>1, <3>1 DEF CutsOf
  <2> QED
    BY <1>3, <2>4, <2>5
<1> QED
  BY <1>2, <1>3

(* A field is read where the page has it, and the fields after it are still to come; a line that is
   cut is the last. *)
LEMMA NextLine ==
  ASSUME HttpTypes, wire # <<>>, NEW p \in Pages, HeaderRead(p)
  PROVE  \/ Tail(wire) = <<>> /\ Head(wire).is # "blank"
         \/ /\ Head(wire) = Http!Item("Content-Length", p.length) /\ Arrives(Tail(wire), FromCoding(p))
            /\ Fields(Absent, Absent, Absent)
         \/ /\ Head(wire) = Http!Item("Transfer-Encoding", p.coding) /\ Arrives(Tail(wire), FromLocation(p))
            /\ Fields(p.length, Absent, Absent)
         \/ /\ Head(wire) = Http!Item("Location", p.location) /\ Arrives(Tail(wire), FromBlank(p))
            /\ Fields(p.length, p.coding, Absent)
         \/ /\ Head(wire) = Http!Item("blank", 0) /\ Arrives(Tail(wire), BodyOf(p))
            /\ Fields(p.length, p.coding, p.location)
<1>1. wire \in Seq(Items) /\ p.length \in Int /\ p.coding \in Int /\ p.location \in Int
  BY PageIs DEF HttpTypes
<1>2. /\ BodyOf(p) \in Seq(Items) /\ FromBlank(p) \in Seq(Items) /\ FromLocation(p) \in Seq(Items)
      /\ FromCoding(p) \in Seq(Items)
  BY ResponseIs
<1> DEFINE Cut == Tail(wire) = <<>> /\ Head(wire).is # "blank"
           AtBlank == /\ Head(wire) = Http!Item("blank", 0) /\ Arrives(Tail(wire), BodyOf(p))
                      /\ Fields(p.length, p.coding, p.location)
           AtLocation == /\ Head(wire) = Http!Item("Location", p.location) /\ Arrives(Tail(wire), FromBlank(p))
                         /\ Fields(p.length, p.coding, Absent)
           AtCoding == /\ Head(wire) = Http!Item("Transfer-Encoding", p.coding)
                       /\ Arrives(Tail(wire), FromLocation(p))
                       /\ Fields(p.length, Absent, Absent)
           AtLength == /\ Head(wire) = Http!Item("Content-Length", p.length) /\ Arrives(Tail(wire), FromCoding(p))
                       /\ Fields(Absent, Absent, Absent)
<1>3. ASSUME Arrives(wire, FromBlank(p)), Fields(p.length, p.coding, p.location)
      PROVE  AtBlank
  <2>1. Http!Item("blank", 0) \in Items /\ Http!Item("blank", 0).is = "blank"
    BY ItemIs DEF ItemKinds
  <2>2. CutsOf(Http!Item("blank", 0)) = {}
    BY <2>1 DEF CutsOf
  <2>3. Arrives(wire, <<Http!Item("blank", 0)>> \o BodyOf(p))
    BY <1>3 DEF FromBlank
  <2>4. Head(wire) = Http!Item("blank", 0) /\ Arrives(Tail(wire), BodyOf(p))
    BY <1>1, <1>2, <2>1, <2>2, <2>3, LineArrives
  <2> QED
    BY <1>3, <2>4
<1>4. ASSUME Arrives(wire, FromLocation(p)), Fields(p.length, p.coding, Absent)
      PROVE  Cut \/ AtLocation \/ AtBlank
  <2>1. Arrives(wire, Http!Field("Location", p.location) \o FromBlank(p)) /\ "Location" \in DOMAIN Http!NoFields
    BY <1>4, HeaderNames DEF FromLocation
  <2>2. \/ p.location = Absent /\ Arrives(wire, FromBlank(p))
        \/ /\ Arrives(Tail(wire), FromBlank(p))
           /\ Head(wire) = Http!Item("Location", p.location) \/ Cut
    BY <1>1, <1>2, <2>1, TailThen
  <2> QED
    BY <1>3, <1>4, <2>2
<1>5. ASSUME Arrives(wire, FromCoding(p)), Fields(p.length, Absent, Absent)
      PROVE  Cut \/ AtCoding \/ AtLocation \/ AtBlank
  <2>1. /\ Arrives(wire, Http!Field("Transfer-Encoding", p.coding) \o FromLocation(p))
        /\ "Transfer-Encoding" \in DOMAIN Http!NoFields
    BY <1>5, HeaderNames DEF FromCoding
  <2>2. \/ p.coding = Absent /\ Arrives(wire, FromLocation(p))
        \/ /\ Arrives(Tail(wire), FromLocation(p))
           /\ Head(wire) = Http!Item("Transfer-Encoding", p.coding) \/ Cut
    BY <1>1, <1>2, <2>1, TailThen
  <2> QED
    BY <1>4, <1>5, <2>2
<1>6. ASSUME Arrives(wire, FromLength(p)), Fields(Absent, Absent, Absent)
      PROVE  Cut \/ AtLength \/ AtCoding \/ AtLocation \/ AtBlank
  <2>1. /\ Arrives(wire, Http!Field("Content-Length", p.length) \o FromCoding(p))
        /\ "Content-Length" \in DOMAIN Http!NoFields
    BY <1>6, HeaderNames DEF FromLength
  <2>2. \/ p.length = Absent /\ Arrives(wire, FromCoding(p))
        \/ /\ Arrives(Tail(wire), FromCoding(p))
           /\ Head(wire) = Http!Item("Content-Length", p.length) \/ Cut
    BY <1>1, <1>2, <2>1, TailThen
  <2> QED
    BY <1>5, <1>6, <2>2
<1> QED
  BY <1>3, <1>4, <1>5, <1>6 DEF HeaderRead

\* SetHdr changes one field.
LEMMA FieldSet ==
  ASSUME HttpTypes, NEW f \in DOMAIN Http!NoFields, NEW v \in Int,
         htResponse' = [htResponse EXCEPT ![f] = v]
  PROVE  /\ htResponse' \in [DOMAIN Http!NoFields -> Int] /\ htResponse'[f] = v
         /\ \A g \in DOMAIN Http!NoFields : g # f => htResponse'[g] = htResponse[g]
BY DEF HttpTypes

\* recvHeaderLine: each line sets its own field, and the blank one comes after all of them.
LEMMA HeaderLineKeeps == HttpInv /\ Http!recvHeaderLine => HttpInv'
<1> SUFFICES ASSUME HttpInv, Http!recvHeaderLine PROVE HttpInv'
  OBVIOUS
<1> DEFINE p == Web[url]
<1>1. HttpTypes /\ Asked /\ pc = "header" /\ url # 0 /\ HeaderRead(p)
  BY DEF HttpInv, Asked, Answered, Http!recvHeaderLine
<1>2. p \in Pages
  BY <1>1, AtPage
<1>3. UNCHANGED <<Web, Caller, UseProxy, file, url, cnt, requests, connected, linebuf, left, saved, stalled,
                  result, FileSize, IsResumeSupport>>
  BY DEF Http!recvHeaderLine, Http!Give, Http!fixed, Http!body, Http!info, Http!session
<1>4. pc' \in {"header", "judge"}
  BY <1>1 DEF Http!recvHeaderLine, Http!Give
<1>5. FileRead' /\ ChunksRead'
  BY <1>4, Undisturbed
<1>6. Asked'
  BY <1>1, <1>3, <1>4 DEF Asked
<1>7. CASE Http!Give(-1) /\ UNCHANGED htResponse
  <2>1. wire' = wire /\ ret' = -1 /\ pc' = "judge"
    BY <1>7 DEF Http!Give
  <2>2. HttpTypes'
    BY <1>1, <1>3, <1>7, <2>1 DEF HttpTypes
  <2>3. Answered'
    BY <2>1 DEF Answered, Http!SizeIsThatOfTheResponse
  <2> QED
    BY <1>5, <1>6, <2>2, <2>3 DEF HttpInv
<1>8. ASSUME wire # <<>>, Head(wire).is \in DOMAIN Http!NoFields,
             htResponse' = [htResponse EXCEPT ![Head(wire).is] = Head(wire).v],
             wire' = Tail(wire), pc' = pc, ret' = ret
      PROVE  HttpInv'
  <2> DEFINE f == Head(wire).is
             v == Head(wire).v
  <2>1. v \in Int /\ wire' \in Seq(Items) /\ f # "blank"
    <3>1. Head(wire) \in Items /\ wire' \in Seq(Items)
      BY <1>1, <1>8, FirstAndRest DEF HttpTypes
    <3> QED
      BY <1>8, <3>1, HeaderNames DEF Items
  <2>2. /\ htResponse' \in [DOMAIN Http!NoFields -> Int] /\ htResponse'[f] = v
        /\ \A g \in DOMAIN Http!NoFields : g # f => htResponse'[g] = htResponse[g]
    BY <1>1, <1>8, <2>1, FieldSet
  <2>3. HttpTypes'
    BY <1>1, <1>3, <1>8, <2>1, <2>2 DEF HttpTypes
  <2>4. HeaderRead(p)'
    <3>1. p.length \in Int /\ p.coding \in Int /\ p.location \in Int
      BY <1>2, PageIs
    <3>2. \/ Tail(wire) = <<>> /\ f # "blank"
          \/ /\ Head(wire) = Http!Item("Content-Length", p.length) /\ Arrives(Tail(wire), FromCoding(p))
             /\ Fields(Absent, Absent, Absent)
          \/ /\ Head(wire) = Http!Item("Transfer-Encoding", p.coding) /\ Arrives(Tail(wire), FromLocation(p))
             /\ Fields(p.length, Absent, Absent)
          \/ /\ Head(wire) = Http!Item("Location", p.location) /\ Arrives(Tail(wire), FromBlank(p))
             /\ Fields(p.length, p.coding, Absent)
          \/ /\ Head(wire) = Http!Item("blank", 0) /\ Arrives(Tail(wire), BodyOf(p))
             /\ Fields(p.length, p.coding, p.location)
      BY <1>1, <1>2, <1>8, NextLine
    <3>3. Web' = Web /\ url' = url
      BY <1>3
    <3>4. CASE Tail(wire) = <<>>
      BY <1>8, <3>4 DEF HeaderRead
    <3>5. CASE /\ Head(wire) = Http!Item("Content-Length", p.length) /\ Arrives(Tail(wire), FromCoding(p))
               /\ Fields(Absent, Absent, Absent)
      <4>1. f = "Content-Length" /\ v = p.length
        BY <3>1, <3>5, ItemIs DEF ItemKinds
      <4>2. Fields(p.length, Absent, Absent)'
        BY <2>2, <3>3, <3>5, <4>1, HeaderNames DEF Fields
      <4> QED
        BY <1>8, <3>3, <3>5, <4>2 DEF HeaderRead
    <3>6. CASE /\ Head(wire) = Http!Item("Transfer-Encoding", p.coding) /\ Arrives(Tail(wire), FromLocation(p))
               /\ Fields(p.length, Absent, Absent)
      <4>1. f = "Transfer-Encoding" /\ v = p.coding
        BY <3>1, <3>6, ItemIs DEF ItemKinds
      <4>2. Fields(p.length, p.coding, Absent)'
        BY <2>2, <3>3, <3>6, <4>1, HeaderNames DEF Fields
      <4> QED
        BY <1>8, <3>3, <3>6, <4>2 DEF HeaderRead
    <3>7. CASE /\ Head(wire) = Http!Item("Location", p.location) /\ Arrives(Tail(wire), FromBlank(p))
               /\ Fields(p.length, p.coding, Absent)
      <4>1. f = "Location" /\ v = p.location
        BY <3>1, <3>7, ItemIs DEF ItemKinds
      <4>2. Fields(p.length, p.coding, p.location)'
        BY <2>2, <3>3, <3>7, <4>1, HeaderNames DEF Fields
      <4> QED
        BY <1>8, <3>3, <3>7, <4>2 DEF HeaderRead
    <3>8. CASE Head(wire) = Http!Item("blank", 0)
      <4>1. f = "blank"
        BY <3>8, ItemIs DEF ItemKinds
      <4> QED
        BY <2>1, <4>1
    <3> QED
      BY <3>2, <3>4, <3>5, <3>6, <3>7, <3>8
  <2>5. Answered'
    BY <1>1, <1>8, <2>4 DEF Answered, Http!SizeIsThatOfTheResponse
  <2> QED
    BY <1>5, <1>6, <2>3, <2>5 DEF HttpInv
<1>9. ASSUME wire # <<>>, Head(wire).is = "blank", wire' = Tail(wire), pc' = "judge",
             ret' = ret, htResponse' = htResponse
      PROVE  HttpInv'
  <2>1. wire' \in Seq(Items)
    BY <1>1, <1>9, FirstAndRest DEF HttpTypes
  <2>2. HttpTypes'
    BY <1>1, <1>3, <1>9, <2>1 DEF HttpTypes
  <2>3. Arrives(Tail(wire), BodyOf(p)) /\ Fields(p.length, p.coding, p.location)
    <3>1. p.length \in Int /\ p.coding \in Int /\ p.location \in Int
      BY <1>2, PageIs
    <3>2. /\ Http!Item("Content-Length", p.length).is # "blank"
          /\ Http!Item("Transfer-Encoding", p.coding).is # "blank"
          /\ Http!Item("Location", p.location).is # "blank"
      BY <3>1, ItemIs DEF ItemKinds
    <3> QED
      BY <1>1, <1>2, <1>9, <3>2, NextLine
  <2>4. Answered'
    <3>1. Web' = Web /\ url' = url
      BY <1>3
    <3> QED
      BY <1>9, <2>3, <3>1 DEF Answered, Fields, Http!SizeIsThatOfTheResponse
  <2> QED
    BY <1>5, <1>6, <2>2, <2>4 DEF HttpInv
<1> QED
  BY <1>7, <1>8, <1>9 DEF Http!recvHeaderLine, Http!SetHdr, Http!session
-----------------------------------------------------------------------------
(* The judgement: a redirection, or the body. *)

\* The address of a redirection that is followed is that of the page, or none.
LEMMA Followed ==
  ASSUME HttpInv, pc = "judge", Http!H_REDIRECTED(ret), NEW u \in Http!getLocation
  PROVE  u \in 0 .. Len(Web)
<1>1. HttpTypes /\ Asked /\ ret > 0
  BY DEF HttpInv, Http!H_REDIRECTED, Http!Moved
<1>2. url # 0 /\ htResponse["Location"] = Web[url].location
  BY <1>1 DEF HttpInv, Asked, Answered, Fields
<1>3. url \in 1 .. Len(Web) /\ Len(Web) \in Nat
  BY <1>1, <1>2, AtPage, WebIs
<1>4. Web[url].location \in {-1} \cup 0 .. Len(Web)
  BY <1>1, <1>3, WebIs
<1>5. u = 0 \/ (u = htResponse["Location"] /\ u # -1)
  BY DEF Http!getLocation, Http!GetHdr, Http!Absent
<1> QED
  BY <1>2, <1>3, <1>4, <1>5

\* A redirection begins again at the new address, with one request less to go.
LEMMA FollowKeeps ==
  ASSUME HttpInv, pc = "judge", Http!H_REDIRECTED(ret), NEW u \in Http!getLocation, Http!Follow(u),
         cnt < RedirectLimit + (IF Caller = "page" THEN 1 ELSE 0),
         FileSize' \in Int, IsResumeSupport' \in BOOLEAN
  PROVE  HttpInv'
<1>1. HttpTypes /\ Asked /\ RedirectLimit \in Nat
  BY HttpAssumption DEF HttpInv
<1>2. /\ url' = u /\ cnt' = cnt + 1 /\ connected' = FALSE /\ wire' = <<>> /\ pc' = "connect"
      /\ UNCHANGED <<Web, Caller, UseProxy, file, requests, ret, htResponse, linebuf, left, saved, stalled,
                     result>>
  BY DEF Http!Follow, Http!fixed, Http!body
<1>3. u \in 0 .. Len(Web)
  BY Followed
<1>4. HttpTypes'
  <2>1. wire' \in Seq(Items) /\ cnt' \in Nat
    BY <1>1, <1>2 DEF HttpTypes
  <2> QED
    BY <1>1, <1>2, <1>3, <2>1 DEF HttpTypes
<1>5. Asked'
  BY <1>1, <1>2 DEF Asked, HttpTypes
<1>6. Answered' /\ FileRead' /\ ChunksRead'
  BY <1>2, Undisturbed
<1> QED
  BY <1>4, <1>5, <1>6 DEF HttpInv

\* A redirection of the query for the file.
LEMMA InfoRedirectedKeeps == HttpInv /\ Http!InfoRedirected => HttpInv'
<1> SUFFICES ASSUME HttpInv, Http!InfoRedirected PROVE HttpInv'
  OBVIOUS
<1>1. HttpTypes /\ Asked /\ pc = "judge" /\ Caller = "info" /\ Http!H_REDIRECTED(ret) /\ cnt < RedirectLimit
  BY DEF HttpInv, Http!InfoRedirected, Http!InfoMayFollow
<1>2. PICK u \in Http!getLocation :
          IF u # 0 /\ Web[u].scheme = "ftp"
          THEN \/ Http!End(0) /\ UNCHANGED <<Http!fixed, Http!session, wire, Http!body, Http!info>>
               \/ /\ FileSize' \in {Web[u].size, -1} /\ IsResumeSupport' = (FileSize' # -1)
                  /\ Http!Follow(u)
          ELSE Http!Follow(u) /\ UNCHANGED Http!info
  BY DEF Http!InfoRedirected
<1>3. RedirectLimit \in Nat /\ cnt \in Nat
  BY <1>1, HttpAssumption DEF HttpTypes
<1>4. cnt < RedirectLimit + (IF Caller = "page" THEN 1 ELSE 0)
  BY <1>1, <1>3
<1>5. CASE Http!End(0) /\ UNCHANGED <<Http!fixed, Http!session, wire, Http!body, Http!info>>
  <2>1. pc' = "end" /\ result' = 0 /\ Caller' = "info"
    BY <1>1, <1>5 DEF Http!End, Http!fixed
  <2>2. UNCHANGED <<Web, Caller, UseProxy, file, url, cnt, requests, connected, ret, htResponse, wire,
                    linebuf, left, saved, stalled, FileSize, IsResumeSupport>>
    BY <1>5 DEF Http!fixed, Http!session, Http!body, Http!info
  <2>3. HttpTypes' /\ Asked'
    BY <1>1, <2>1, <2>2 DEF HttpTypes, Asked
  <2>4. Answered' /\ FileRead' /\ ChunksRead'
    BY <2>1, Undisturbed
  <2> QED
    BY <2>3, <2>4 DEF HttpInv
<1>6. CASE FileSize' \in {Web[u].size, -1} /\ IsResumeSupport' = (FileSize' # -1) /\ Http!Follow(u) /\ u # 0
  <2>1. u \in 1 .. Len(Web)
    <3>1. u \in 0 .. Len(Web) /\ Len(Web) \in Nat
      BY <1>1, Followed, WebIs
    <3> QED
      BY <1>6, <3>1
  <2>2. Web[u].size \in Int
    BY <1>1, <2>1, WebIs, PageIs
  <2>3. FileSize' \in Int /\ IsResumeSupport' \in BOOLEAN
    BY <1>6, <2>2
  <2> QED
    BY <1>1, <1>4, <1>6, <2>3, FollowKeeps
<1>7. CASE Http!Follow(u) /\ UNCHANGED Http!info
  <2>1. FileSize' \in Int /\ IsResumeSupport' \in BOOLEAN
    BY <1>1, <1>7 DEF HttpTypes, Http!info
  <2> QED
    BY <1>1, <1>4, <1>7, <2>1, FollowKeeps
<1> QED
  BY <1>2, <1>5, <1>6, <1>7

\* A redirection of a page.
LEMMA PageRedirectedKeeps == HttpInv /\ Http!PageRedirected => HttpInv'
<1> SUFFICES ASSUME HttpInv, Http!PageRedirected PROVE HttpInv'
  OBVIOUS
<1>1. HttpTypes /\ pc = "judge" /\ Caller = "page" /\ Http!H_REDIRECTED(ret) /\ cnt <= RedirectLimit
  BY DEF HttpInv, Http!PageRedirected, Http!PageMayFollow
<1>2. PICK u \in Http!getLocation : Http!Follow(u)
  BY DEF Http!PageRedirected
<1>3. FileSize' \in Int /\ IsResumeSupport' \in BOOLEAN
  BY <1>1 DEF HttpTypes, Http!PageRedirected, Http!info
<1>4. cnt < RedirectLimit + (IF Caller = "page" THEN 1 ELSE 0)
  <2>1. RedirectLimit \in Nat /\ cnt \in Nat
    BY <1>1, HttpAssumption DEF HttpTypes
  <2> QED
    BY <1>1, <2>1
<1> QED
  BY <1>1, <1>2, <1>3, <1>4, FollowKeeps

\* The size is taken from the response that is judged.
LEMMA InfoTakenKeeps == HttpInv /\ Http!InfoTaken => HttpInv'
<1> SUFFICES ASSUME HttpInv, Http!InfoTaken PROVE HttpInv'
  OBVIOUS
<1>1. HttpTypes /\ Asked /\ Answered /\ pc = "judge" /\ Caller = "info"
  BY DEF HttpInv, Http!InfoTaken
<1>2. UNCHANGED <<Web, Caller, UseProxy, file, url, cnt, requests, connected, ret, htResponse, wire,
                  linebuf, left, saved, stalled>>
  BY DEF Http!InfoTaken, Http!fixed, Http!session, Http!body
<1>3. /\ pc' = "end"
      /\ \/ result' = 0 /\ UNCHANGED <<FileSize, IsResumeSupport>>
         \/ /\ result' = 1 /\ FileSize' = htResponse["Content-Length"]
            /\ IsResumeSupport' = (htResponse["Content-Length"] # Http!Absent)
  BY DEF Http!InfoTaken, Http!End, Http!info, Http!getContentLen, Http!GetHdr
<1>4. HttpTypes'
  <2>1. htResponse["Content-Length"] \in Int
    BY <1>1, HeaderNames DEF HttpTypes
  <2>2. FileSize \in Int /\ IsResumeSupport \in BOOLEAN
    BY <1>1 DEF HttpTypes
  <2>3. FileSize' \in Int /\ result' \in Int
    BY <1>3, <2>1, <2>2
  <2>4. IsResumeSupport' \in BOOLEAN
    BY <1>3, <2>2, Zenon
  <2> QED
    BY <1>1, <1>2, <1>3, <2>3, <2>4 DEF HttpTypes
<1>5. Asked'
  BY <1>1, <1>2, <1>3 DEF Asked
<1>6. FileRead' /\ ChunksRead'
  BY <1>1, <1>2, <1>3, Undisturbed
<1>7. Answered'
  BY <1>1, <1>2, <1>3 DEF Answered, Fields, Http!SizeIsThatOfTheResponse
<1> QED
  BY <1>4, <1>5, <1>6, <1>7 DEF HttpInv

\* The body is read in the way the header says.
LEMMA PageTakenKeeps == HttpInv /\ Http!PageTaken => HttpInv'
<1> SUFFICES ASSUME HttpInv, Http!PageTaken PROVE HttpInv'
  OBVIOUS
<1>1. HttpTypes /\ Asked /\ Answered /\ pc = "judge" /\ Caller = "page"
  BY DEF HttpInv, Http!PageTaken
<1>2. UNCHANGED <<Web, Caller, UseProxy, file, url, cnt, requests, connected, ret, htResponse, wire,
                  linebuf, left, saved, stalled, FileSize, IsResumeSupport>>
  BY DEF Http!PageTaken, Http!fixed, Http!session, Http!body, Http!info
<1>3. \/ pc' = "end" /\ result' \in {-4, 0}
      \/ pc' = "file" /\ result' = result
      \/ /\ pc' = "chunks" /\ result' = result
         /\ Http!Chunked \in Http!getTransferEncoding
  <2>1. CASE cnt = 0 /\ ret \in Http!ErrorCodes /\ Http!End(-4)
    BY <2>1 DEF Http!End
  <2>2. CASE \E te \in Http!getTransferEncoding :
                \/ te = Http!Absent /\ pc' = "file" /\ UNCHANGED result
                \/ te = Http!Chunked /\ pc' = "chunks" /\ UNCHANGED result
                \/ te \notin {Http!Absent, Http!Chunked} /\ Http!End(0)
    BY <2>2 DEF Http!End, Http!Absent, Http!Chunked
  <2> QED
    BY <2>1, <2>2 DEF Http!PageTaken
<1>4. HttpTypes'
  <2>1. pc' \in {"end", "file", "chunks"} /\ result' \in Int
    BY <1>1, <1>3 DEF HttpTypes
  <2> QED
    BY <1>1, <1>2, <2>1 DEF HttpTypes
<1>5. Asked'
  BY <1>1, <1>2, <1>3 DEF Asked
<1>6. FileRead' /\ Answered'
  BY <1>1, <1>2, <1>3, Undisturbed
<1>7. ChunksRead'
  <2>1. CASE pc' # "chunks"
    <3>1. linebuf' = Http!Garbage
      BY <1>1, <1>2 DEF Asked
    <3> QED
      BY <1>3, <2>1, <3>1, Undisturbed
  <2>2. CASE pc' = "chunks"
    <3>1. ASSUME ret > 0 PROVE Arrives(wire, FromChunk(Web[url].chunks, 1))
      <4>1. url # 0 /\ Arrives(wire, BodyOf(Web[url])) /\ htResponse["Transfer-Encoding"] = Web[url].coding
        BY <1>1, <3>1 DEF Asked, Answered, Fields
      <4>2. Web[url].coding = Http!Chunked
        BY <1>3, <2>2, <4>1 DEF Http!getTransferEncoding, Http!GetHdr, Http!Absent, Http!Chunked
      <4>3. BodyOf(Web[url]) = FromChunk(Web[url].chunks, 1)
        <5>1. Len(Web[url].chunks) \in Nat
          BY <1>1, <4>1, AtPage, PageIs
        <5>2. 1 <= Len(Web[url].chunks) + 1 /\ Len(Web[url].chunks) + 1 - 1 = Len(Web[url].chunks)
          BY <5>1
        <5> QED
          BY <4>2, <5>2 DEF BodyOf, FromChunk, Http!Chunks
      <4> QED
        BY <4>1, <4>3
    <3> QED
      BY <1>2, <2>2, <3>1 DEF ChunksRead, Http!ChunksAreWhole
  <2> QED
    BY <2>1, <2>2
<1> QED
  BY <1>4, <1>5, <1>6, <1>7 DEF HttpInv

-----------------------------------------------------------------------------
(* A body that is not in chunks. *)

\* fetchHtmlFile begins.
LEMMA BeginFileKeeps == HttpInv /\ Http!BeginFile => HttpInv'
<1> SUFFICES ASSUME HttpInv, Http!BeginFile PROVE HttpInv'
  OBVIOUS
<1>1. HttpTypes /\ Asked /\ pc = "file" /\ Caller = "page"
  BY DEF HttpInv, Asked, HttpTypes, Http!BeginFile
<1>2. UNCHANGED <<Web, Caller, UseProxy, file, url, cnt, requests, connected, ret, htResponse, wire,
                  linebuf, saved, stalled, FileSize, IsResumeSupport>>
  BY DEF Http!BeginFile, Http!fixed, Http!session, Http!info
<1> DEFINE n == htResponse["Content-Length"]
<1>3. \/ left' = n /\ result' = result /\ pc' = IF n = Http!Absent THEN "unknown" ELSE "known"
      \/ pc' = "end" /\ result' = -2 /\ left' = left
  BY DEF Http!BeginFile, Http!Failed, Http!End, Http!getContentLen, Http!GetHdr
<1>4. n \in Int /\ saved = 0 /\ linebuf = Http!Garbage
  BY <1>1, HeaderNames DEF HttpTypes, Asked
<1>5. HttpTypes'
  <2>1. left' \in Int /\ result' \in Int /\ pc' \in {"known", "unknown", "end"}
    BY <1>1, <1>3, <1>4 DEF HttpTypes
  <2> QED
    BY <1>1, <1>2, <2>1 DEF HttpTypes
<1>6. Asked'
  BY <1>1, <1>2, <1>3 DEF Asked
<1>7. Answered' /\ ChunksRead'
  BY <1>1, <1>2, <1>3, <1>4, Undisturbed
<1>8. FileRead'
  BY <1>2, <1>3, <1>4 DEF FileRead, Http!Absent, Absent, Http!FileIsWhole
<1> QED
  BY <1>5, <1>6, <1>7, <1>8 DEF HttpInv

\* What is left after some items.
LEMMA Dropped ==
  ASSUME NEW w \in Seq(Items), NEW n \in 0 .. Len(w)
  PROVE  SubSeq(w, n + 1, Len(w)) \in Seq(Items)
OBVIOUS

\* A page of known length: what is taken and what is left add up to the length.
LEMMA KnownKeeps == HttpInv /\ Http!KnownLength => HttpInv'
<1> SUFFICES ASSUME HttpInv, Http!KnownLength PROVE HttpInv'
  OBVIOUS
<1> DEFINE len == htResponse["Content-Length"]
<1>1. HttpTypes /\ Asked /\ pc = "known" /\ Caller = "page" /\ len # Absent /\ left + saved = len
  BY DEF HttpInv, Asked, HttpTypes, FileRead, Http!KnownLength
<1>2. UNCHANGED <<Web, Caller, UseProxy, file, url, cnt, requests, connected, ret, htResponse, linebuf,
                  stalled, FileSize, IsResumeSupport>>
  BY DEF Http!KnownLength, Http!fixed, Http!session, Http!info, Http!body
<1>3. left \in Int /\ saved \in Nat /\ len \in Int /\ linebuf = Http!Garbage /\ wire \in Seq(Items)
  BY <1>1, HeaderNames DEF HttpTypes, Asked
<1>4. \/ pc' = "end" /\ result' = saved /\ left <= 0 /\ UNCHANGED <<wire, left, saved>>
      \/ /\ pc' = "known" /\ result' = result
         /\ \E n \in 1 .. Len(wire) : /\ wire' = SubSeq(wire, n + 1, Len(wire))
                                      /\ saved' = saved + n /\ left' = left - n
      \/ /\ pc' = "end" /\ result' = -2 /\ UNCHANGED <<left, saved>>
         /\ wire' = wire \/ \E n \in 1 .. Len(wire) : wire' = SubSeq(wire, n + 1, Len(wire))
  <2>1. 1 .. Http!Smaller(HTTP_BUF_SIZE, Len(wire)) \subseteq 1 .. Len(wire)
    <3>1. HTTP_BUF_SIZE \in Nat /\ Len(wire) \in Nat
      BY <1>3, HttpAssumption
    <3> QED
      BY <3>1 DEF Http!Smaller
  <2> QED
    BY <1>1, <2>1 DEF Http!KnownLength, Http!ClosedEarly, Http!Failed, Http!End, Http!body
<1>5. /\ wire' \in Seq(Items) /\ left' \in Int /\ saved' \in Nat /\ left' + saved' = len
      /\ result' \in Int /\ pc' \in {"known", "end"}
  <2>1. CASE pc' = "end" /\ result' = saved /\ left <= 0 /\ UNCHANGED <<wire, left, saved>>
    BY <1>1, <1>3, <2>1
  <2>2. ASSUME NEW n \in 1 .. Len(wire), wire' = SubSeq(wire, n + 1, Len(wire)),
               saved' = saved + n, left' = left - n, pc' = "known", result' = result
        PROVE  /\ wire' \in Seq(Items) /\ left' \in Int /\ saved' \in Nat /\ left' + saved' = len
               /\ result' \in Int
    <3>1. wire' \in Seq(Items) /\ result' \in Int
      BY <1>1, <1>3, <2>2, Dropped DEF HttpTypes
    <3> HIDE DEF len
    <3>2. n \in Nat
      BY <1>3
    <3>3. left' \in Int /\ saved' \in Nat /\ left' + saved' = len
      BY ONLY <1>1, <1>3, <2>2, <3>2
    <3> QED
      BY <3>1, <3>3
  <2>3. CASE /\ pc' = "end" /\ result' = -2 /\ UNCHANGED <<left, saved>>
             /\ wire' = wire \/ \E n \in 1 .. Len(wire) : wire' = SubSeq(wire, n + 1, Len(wire))
    <3>1. wire' \in Seq(Items)
      <4>1. ASSUME NEW n \in 1 .. Len(wire), wire' = SubSeq(wire, n + 1, Len(wire))
            PROVE  wire' \in Seq(Items)
        <5>1. n \in 0 .. Len(wire)
          OBVIOUS
        <5> QED
          BY <1>3, <4>1, <5>1, Dropped
      <4> QED
        BY <1>3, <2>3, <4>1
    <3> QED
      BY <1>1, <1>3, <2>3, <3>1
  <2> QED
    BY <1>4, <2>1, <2>2, <2>3
<1>6. HttpTypes'
  BY <1>1, <1>2, <1>5 DEF HttpTypes
<1>7. Asked'
  BY <1>1, <1>2, <1>5 DEF Asked
<1>8. Answered' /\ ChunksRead'
  BY <1>1, <1>2, <1>3, <1>5, Undisturbed
<1>9. FileRead'
  <2>1. CASE pc' = "known"
    BY <1>1, <1>2, <1>5, <2>1 DEF FileRead, Http!FileIsWhole, Http!Absent, Absent
  <2>2. CASE pc' = "end" /\ result' = -2
    BY <2>2, Undisturbed
  <2>3. CASE pc' = "end" /\ left <= 0 /\ left' = left
    <3>1. saved' >= len
      BY <1>3, <1>5, <2>3
    <3> QED
      BY <1>1, <1>2, <2>3, <3>1
      DEF FileRead, Http!FileIsWhole, Http!getContentLen, Http!GetHdr, Http!Absent, Absent
  <2> QED
    BY <1>4, <2>1, <2>2, <2>3
<1> QED
  BY <1>6, <1>7, <1>8, <1>9 DEF HttpInv

\* A page of unknown length: it ends with the connection.
LEMMA UnknownKeeps == HttpInv /\ Http!UnknownLength => HttpInv'
<1> SUFFICES ASSUME HttpInv, Http!UnknownLength PROVE HttpInv'
  OBVIOUS
<1> DEFINE len == htResponse["Content-Length"]
<1>1. HttpTypes /\ Asked /\ pc = "unknown" /\ Caller = "page" /\ len = Http!Absent
  BY DEF HttpInv, Asked, HttpTypes, FileRead, Http!UnknownLength, Http!Absent, Absent
<1>2. UNCHANGED <<Web, Caller, UseProxy, file, url, cnt, requests, connected, ret, htResponse, linebuf, left,
                  stalled, FileSize, IsResumeSupport>>
  BY DEF Http!UnknownLength, Http!fixed, Http!session, Http!info, Http!body
<1>3. saved \in Nat /\ linebuf = Http!Garbage /\ wire \in Seq(Items)
  BY <1>1 DEF HttpTypes, Asked
<1> DEFINE n == Http!Smaller(HTTP_BUF_SIZE, Len(wire))
<1>4. \/ /\ pc' \in {"unknown", "undefined"} /\ result' = result
         /\ wire' = SubSeq(wire, n + 1, Len(wire)) /\ saved' = saved + n
      \/ pc' = "end" /\ result' = saved /\ wire = <<>> /\ UNCHANGED <<wire, saved>>
      \/ pc' = "end" /\ result' = -2 /\ UNCHANGED <<wire, saved>>
  BY <1>1 DEF Http!UnknownLength, Http!WouldBlock, Http!Failed, Http!End, Http!body, Http!Received
<1>5. wire' \in Seq(Items) /\ saved' \in Nat /\ result' \in Int
  <2>1. n \in 0 .. Len(wire) /\ n \in Nat
    <3>1. HTTP_BUF_SIZE \in Nat /\ Len(wire) \in Nat
      BY <1>3, HttpAssumption
    <3> QED
      BY <3>1 DEF Http!Smaller
  <2> HIDE DEF n
  <2>2. SubSeq(wire, n + 1, Len(wire)) \in Seq(Items)
    BY <1>3, <2>1, Dropped
  <2>3. wire' \in Seq(Items)
    BY <1>3, <1>4, <2>2
  <2>4. saved' = saved + n \/ saved' = saved
    BY <1>4
  <2>5. saved' \in Nat
    BY <1>3, <2>1, <2>4
  <2>6. result' \in Int
    BY <1>1, <1>3, <1>4 DEF HttpTypes
  <2> QED
    BY <2>3, <2>5, <2>6
<1>6. HttpTypes'
  <2>1. pc' \in {"unknown", "undefined", "end"}
    BY <1>4
  <2> QED
    BY <1>1, <1>2, <1>5, <2>1 DEF HttpTypes
<1>7. Asked'
  BY <1>1, <1>2, <1>4 DEF Asked
<1>8. Answered' /\ ChunksRead'
  BY <1>1, <1>2, <1>3, <1>4, Undisturbed
<1>9. FileRead'
  <2>1. CASE pc' # "end"
    BY <1>1, <1>2, <1>4, <2>1 DEF FileRead, Http!FileIsWhole, Http!Absent, Absent
  <2>2. CASE pc' = "end" /\ result' = -2
    BY <2>2, Undisturbed
  <2>3. CASE pc' = "end" /\ wire' = <<>>
    BY <1>1, <1>2, <2>3 DEF FileRead, Http!FileIsWhole, Http!getContentLen, Http!GetHdr
  <2> QED
    BY <1>4, <2>1, <2>2, <2>3
<1> QED
  BY <1>6, <1>7, <1>8, <1>9 DEF HttpInv
-----------------------------------------------------------------------------
(* The lines and the bytes of a body in chunks. *)

\* A line is a part of the connection; one that does not begin with bytes is one item.
LEMMA LineLengthIs ==
  ASSUME wire \in Seq(Items), wire # <<>>
  PROVE  /\ Http!LineLength \in 0 .. Len(wire)
         /\ wire[1].is # "byte" => Http!LineLength = 1
<1> DEFINE T == {n \in 1 .. Len(wire) : n = Len(wire) \/ Http!LineEnd(wire[n])}
           Is(n) == /\ n = Len(wire) \/ (n > 0 /\ Http!LineEnd(wire[n]))
                    /\ \A m \in 1 .. n - 1 : ~Http!LineEnd(wire[m])
<1>1. Len(wire) \in Nat \ {0}
  BY FirstAndRest
<1>2. PICK n \in T : \A k \in T : n <= k
  <2>1. T \in SUBSET Nat /\ Len(wire) \in T
    BY <1>1
  <2> HIDE DEF T
  <2> QED
    BY <2>1, LeastNumber
<1>3. n \in 0 .. Len(wire) /\ Is(n)
  <2>1. n \in 1 .. Len(wire) /\ (n = Len(wire) \/ Http!LineEnd(wire[n]))
    BY <1>2
  <2>2. ASSUME NEW m \in 1 .. n - 1 PROVE ~Http!LineEnd(wire[m])
    <3>1. m \in 1 .. Len(wire) /\ m < n
      BY <1>1, <2>1
    <3>2. m \notin T
      <4> HIDE DEF T
      <4> QED
        BY <1>2, <2>1, <3>1
    <3> QED
      BY <3>1, <3>2
  <2> QED
    BY <2>1, <2>2
<1>4. Http!LineLength = CHOOSE i \in 0 .. Len(wire) : Is(i)
  BY DEF Http!LineLength
<1> HIDE DEF Is, T
<1>5. Http!LineLength \in 0 .. Len(wire) /\ Is(Http!LineLength)
  BY <1>3, <1>4
<1>6. ASSUME wire[1].is # "byte" PROVE Http!LineLength = 1
  <2> DEFINE l == Http!LineLength
  <2>1. /\ l \in 0 .. Len(wire) /\ (l = Len(wire) \/ l > 0)
        /\ \A m \in 1 .. l - 1 : ~Http!LineEnd(wire[m])
    BY <1>5 DEF Is
  <2>2. Http!LineEnd(wire[1])
    BY <1>6 DEF Http!LineEnd
  <2> HIDE DEF l
  <2>3. ~(1 \in 1 .. l - 1)
    BY <2>1, <2>2
  <2>4. l = 1
    BY <1>1, <2>1, <2>3
  <2> QED
    BY <2>4 DEF l
<1> QED
  BY <1>5, <1>6

(* A call of ReadLine: without a timeout it takes the first line, or at the end of the connection
   nothing. *)
LEMMA ReadLineIs ==
  ASSUME HttpTypes, NEW next, Http!ReadLine(next)
  PROVE  /\ pc' = next /\ wire' \in Seq(Items) /\ linebuf' \in Int /\ stalled' \in BOOLEAN
         /\ ~stalled' => /\ ~stalled
                         /\ \/ wire = <<>> /\ wire' = <<>> /\ linebuf' = linebuf
                            \/ /\ wire # <<>>
                               /\ wire[1].is # "byte" =>
                                     /\ wire' = Tail(wire)
                                     /\ linebuf' = IF wire[1].is = "size" THEN wire[1].v ELSE 0
<1>1. wire \in Seq(Items) /\ linebuf \in Int /\ stalled \in BOOLEAN
  BY DEF HttpTypes
<1>2. CASE /\ wire # <<>> /\ linebuf' \in Http!Numbers
           /\ wire' = SubSeq(wire, Http!LineLength + 1, Len(wire))
           /\ UNCHANGED stalled /\ pc' = next
  <2>1. Http!LineLength \in 0 .. Len(wire) /\ (wire[1].is # "byte" => Http!LineLength = 1)
    BY <1>1, <1>2, LineLengthIs
  <2>2. wire' \in Seq(Items)
    BY <1>1, <1>2, <2>1, Dropped
  <2>3. wire[1] \in Items
    BY <1>1, <1>2, FirstAndRest
  <2>4. linebuf' \in Int
    BY <1>2, <2>3 DEF Http!Numbers, Items
  <2>5. ASSUME wire[1].is # "byte"
        PROVE  wire' = Tail(wire) /\ linebuf' = IF wire[1].is = "size" THEN wire[1].v ELSE 0
    <3>1. linebuf' = IF wire[1].is = "size" THEN wire[1].v ELSE 0
      BY <1>2, <2>5 DEF Http!Numbers
    <3>2. Tail(wire) = SubSeq(wire, 2, Len(wire))
      BY <1>1, <1>2, TailIsSubSeq
    <3>3. Http!LineLength = 1
      BY <2>1, <2>5
    <3>4. wire' = SubSeq(wire, 1 + 1, Len(wire))
      BY <1>2, <3>3
    <3> QED
      BY <3>1, <3>2, <3>4
  <2> QED
    BY <1>1, <1>2, <2>2, <2>4, <2>5
<1>3. CASE /\ wire = <<>> /\ pc' = next /\ UNCHANGED <<wire, linebuf, stalled>>
  BY <1>1, <1>3
<1>4. CASE /\ pc' = next /\ stalled' = TRUE /\ linebuf' \in {linebuf, 0, 1}
           /\ wire' \in {wire} \cup (IF wire # <<>> THEN {Tail(wire)} ELSE {})
  <2>1. wire # <<>> => Tail(wire) \in Seq(Items)
    BY <1>1, FirstAndRest
  <2> QED
    BY <1>1, <1>4, <2>1
<1> QED
  BY <1>2, <1>3, <1>4 DEF Http!ReadLine

(* The line with the size of a chunk. *)
LEMMA SizeLine ==
  ASSUME NEW c \in Seq(Nat \ {0}), NEW k \in 1 .. Len(c) + 1, wire \in Seq(Items), wire # <<>>,
         Arrives(wire, FromChunk(c, k))
  PROVE  /\ wire[1].is = "size" /\ wire[1].v = SizeOf(c, k)
         /\ Arrives(Tail(wire), ChunkRest(SizeOf(c, k), FromChunk(c, k + 1)))
<1> DEFINE a == Http!Item("size", SizeOf(c, k))
           x == ChunkRest(SizeOf(c, k), FromChunk(c, k + 1))
<1>1. SizeOf(c, k) \in Int
  BY SizesAdd
<1>2. a \in Items /\ a.is = "size" /\ a.v = SizeOf(c, k)
  BY <1>1, ItemIs DEF ItemKinds
<1>3. x \in Seq(Items) /\ FromChunk(c, k) = <<a>> \o x
  BY ChunkComes
<1>4. CutsOf(a) = {}
  BY <1>2 DEF CutsOf
<1> HIDE DEF a, x
<1>5. Head(wire) = a /\ Arrives(Tail(wire), x)
  BY <1>2, <1>3, <1>4, LineArrives
<1>6. Head(wire) = wire[1]
  BY FirstAndRest
<1> QED
  BY <1>2, <1>5, <1>6 DEF x

(* The end of a chunk's bytes. *)
LEMMA NewlineLine ==
  ASSUME NEW x \in Seq(Items), wire \in Seq(Items), wire # <<>>, Arrives(wire, ChunkRest(0, x))
  PROVE  wire[1].is = "newline" /\ Arrives(Tail(wire), x)
<1> DEFINE a == Http!Item("newline", 0)
<1>1. a \in Items /\ a.is = "newline"
  BY ItemIs DEF ItemKinds
<1>2. CutsOf(a) = {}
  BY <1>1 DEF CutsOf
<1>3. ChunkRest(0, x) = <<a>> \o x
  <2>1. Http!Bytes(0) = <<>>
    BY BytesAre, NoneLeft
  <2>2. Newline \o x \in Seq(Items)
    BY RestIs
  <2>3. ChunkRest(0, x) = <<>> \o (Newline \o x)
    BY <2>1 DEF ChunkRest
  <2> DEFINE y == Newline \o x
  <2>4. <<>> \o y = y
    <3> HIDE DEF y
    <3>1. y \in Seq(Items)
      BY <2>2 DEF y
    <3> QED
      BY <3>1, ConcatEmptySeq
  <2> QED
    BY <2>3, <2>4 DEF Newline
<1> HIDE DEF a
<1>4. Arrives(wire, <<a>> \o x)
  BY <1>3
<1>5. Head(wire) = a /\ Arrives(Tail(wire), x)
  BY <1>1, <1>2, <1>4, LineArrives
<1> QED
  BY <1>1, <1>5, FirstAndRest
\* Where the reading of the chunks is, when nothing has gone wrong.
LEMMA ChunkState ==
  ASSUME HttpInv, pc \in {"chunks", "first", "data", "size", "last"}, Clean
  PROVE  /\ \E c \in Seq(Nat \ {0}) : c = Web[url].chunks
         /\ pc # "chunks" =>
               \/ linebuf = Http!Garbage /\ wire = <<>>
               \/ \E k \in 1 .. Len(Web[url].chunks) + 1 : AtChunk(Web[url].chunks, k)
<1>1. HttpTypes /\ url # 0
  BY DEF HttpInv, Asked, Clean
<1>2. Web[url].chunks \in Seq(Nat \ {0})
  BY <1>1, AtPage, PageIs
<1> QED
  BY <1>2 DEF HttpInv, ChunksRead

\* It is enough to know where it is afterwards.
LEMMA ChunkGoesOn ==
  ASSUME HttpInv, UNCHANGED <<Web, url>>, pc' \in {"first", "data", "size", "last"},
         NEW c, c = Web[url].chunks,
         Clean' => \/ linebuf' = Http!Garbage /\ wire' = <<>>
                   \/ \E k \in 1 .. Len(c) + 1 : AtChunk(c, k)'
  PROVE  ChunksRead'
<1>1. (Web[url].chunks)' = c
  OBVIOUS
<1> QED
  BY <1>1 DEF ChunksRead, Http!ChunksAreWhole

\* What is read of a body in chunks is the body's; the rest of the invariant is not touched.
LEMMA ChunkStep ==
  ASSUME HttpInv, pc \in {"chunks", "first", "data", "size", "last"},
         pc' \in {"first", "data", "size", "last", "spin", "end"},
         UNCHANGED <<Web, Caller, UseProxy, file, url, cnt, requests, connected, ret, htResponse,
                     FileSize, IsResumeSupport>>,
         wire' \in Seq(Items), linebuf' \in Int, left' \in Int, saved' \in Nat, stalled' \in BOOLEAN,
         result' \in Int, pc' = "end" => ~(result' > 0), ChunksRead'
  PROVE  HttpInv'
<1>1. HttpTypes /\ Asked
  BY DEF HttpInv
<1>2. HttpTypes'
  BY <1>1 DEF HttpTypes
<1>3. Asked'
  BY <1>1 DEF Asked
<1>4. Caller' = "page"
  BY <1>1 DEF Asked, HttpTypes
<1>5. Answered' /\ FileRead'
  BY <1>4, Undisturbed
<1> QED
  BY <1>2, <1>3, <1>5 DEF HttpInv

\* Each of the calls of ReadLine in fetchHtmlChunk keeps the invariant.
LEMMA ReadLineKeeps ==
  ASSUME HttpInv, pc \in {"chunks", "data", "size"}, NEW next \in {"first", "size", "last"},
         Http!ReadLine(next), UNCHANGED <<Http!fixed, Http!session, left, saved, result, Http!info>>,
         pc = "chunks" <=> next = "first", pc = "data" => left = 0 /\ next = "size",
         pc = "size" => next = "last"
  PROVE  HttpInv'
<1>1. HttpTypes /\ Asked
  BY DEF HttpInv
<1>2. UNCHANGED <<Web, Caller, UseProxy, file, url, cnt, requests, connected, ret, htResponse, FileSize,
                  IsResumeSupport, left, saved, result>>
  BY DEF Http!fixed, Http!session, Http!info
<1>3. /\ pc' = next /\ wire' \in Seq(Items) /\ linebuf' \in Int /\ stalled' \in BOOLEAN
      /\ ~stalled' => /\ ~stalled
                      /\ \/ wire = <<>> /\ wire' = <<>> /\ linebuf' = linebuf
                         \/ /\ wire # <<>>
                            /\ wire[1].is # "byte" =>
                                  /\ wire' = Tail(wire)
                                  /\ linebuf' = IF wire[1].is = "size" THEN wire[1].v ELSE 0
  BY <1>1, ReadLineIs
<1>4. wire \in Seq(Items) /\ left \in Int /\ saved \in Nat /\ result \in Int
  BY <1>1 DEF HttpTypes
<1>5. ChunksRead'
  <2>1. CASE ~Clean'
    BY <1>2, <1>3, <2>1, ChunkGoesOn
  <2>2. CASE Clean'
    <3>1. ~stalled' /\ Clean
      BY <1>2, <1>3, <2>2 DEF Clean
    <3>2. PICK c \in Seq(Nat \ {0}) : c = Web[url].chunks
      BY <3>1, ChunkState
    <3>3. 1 \in 1 .. Len(c) + 1 /\ Len(c) \in Nat
      BY <3>2
    <3>4. CASE pc = "chunks"
      <4>1. linebuf = Http!Garbage /\ saved = 0 /\ Arrives(wire, FromChunk(c, 1)) /\ pc' = "first"
        BY <1>1, <1>3, <3>1, <3>2, <3>4 DEF Asked, HttpInv, ChunksRead, Clean
      <4>2. CASE wire = <<>>
        BY <1>2, <1>3, <3>1, <3>2, <4>1, <4>2, ChunkGoesOn
      <4>3. CASE wire # <<>>
        <5>1. /\ wire[1].is = "size" /\ wire[1].v = SizeOf(c, 1)
              /\ Arrives(Tail(wire), ChunkRest(SizeOf(c, 1), FromChunk(c, 1 + 1)))
          BY <1>4, <3>2, <3>3, <4>1, <4>3, SizeLine
        <5>2. wire' = Tail(wire) /\ linebuf' = SizeOf(c, 1) /\ 1 + 1 = 2
          BY <1>3, <3>1, <4>3, <5>1
        <5>3. AtChunk(c, 1)'
          BY <1>2, <4>1, <5>1, <5>2 DEF AtChunk
        <5> QED
          BY <1>2, <1>3, <3>2, <3>3, <4>1, <5>3, ChunkGoesOn
      <4> QED
        BY <4>2, <4>3
    <3>5. CASE pc \in {"data", "size"} /\ linebuf = Http!Garbage /\ wire = <<>>
      BY <1>2, <1>3, <3>1, <3>2, <3>5, ChunkGoesOn
    <3>6. ASSUME pc \in {"data", "size"}, NEW k \in 1 .. Len(c) + 1, AtChunk(c, k)
          PROVE  ChunksRead'
      <4>1. /\ FromChunk(c, k) \in Seq(Items) /\ FromChunk(c, k + 1) \in Seq(Items)
        BY <3>2, ChunkComes
      <4>2. CASE pc = "data"
        <5>1. left = 0 /\ pc' = "size"
          BY <1>3, <4>2
        <5>2. /\ saved = Taken(c, k) /\ linebuf = SizeOf(c, k)
              /\ Arrives(wire, ChunkRest(0, FromChunk(c, k + 1)))
          <6>1. saved + left = Taken(c, k) /\ linebuf = SizeOf(c, k)
                /\ Arrives(wire, ChunkRest(left, FromChunk(c, k + 1)))
            BY <3>6, <4>2, <5>1 DEF AtChunk
          <6> QED
            BY <1>4, <5>1, <6>1
        <5>3. wire # <<>> => wire[1].is = "newline" /\ Arrives(Tail(wire), FromChunk(c, k + 1))
          BY <1>4, <4>1, <5>2, NewlineLine
        <5>4. \/ linebuf' = SizeOf(c, k) /\ wire' = <<>>
              \/ linebuf' = 0 /\ Arrives(wire', FromChunk(c, k + 1))
          BY <1>3, <3>1, <5>2, <5>3
        <5>5. AtChunk(c, k)'
          BY <1>2, <5>1, <5>2, <5>4 DEF AtChunk
        <5> QED
          BY <1>2, <3>2, <5>1, <5>5, ChunkGoesOn
      <4>3. CASE pc = "size"
        <5>1. pc' = "last" /\ saved = Taken(c, k)
              /\ \/ linebuf = 0 /\ Arrives(wire, FromChunk(c, k + 1))
                 \/ linebuf = SizeOf(c, k) /\ wire = <<>>
          BY <1>3, <3>6, <4>3 DEF AtChunk
        <5>2. CASE wire = <<>>
          <6>1. linebuf' \in {0, SizeOf(c, k)} /\ wire' = <<>>
            BY <1>3, <3>1, <5>1, <5>2
          <6>2. AtChunk(c, k)'
            BY <1>2, <5>1, <6>1 DEF AtChunk
          <6> QED
            BY <1>2, <3>2, <5>1, <6>2, ChunkGoesOn
        <5>3. CASE wire # <<>>
          <6>1. Arrives(wire, FromChunk(c, k + 1))
            BY <5>1, <5>3
          <6>2. k <= Len(c)
            <7>1. CASE k = Len(c) + 1
              <8>1. FromChunk(c, k + 1) = <<>>
                <9>1. k + 1 = Len(c) + 2
                  BY <3>3, <7>1
                <9> QED
                  BY <3>2, <9>1, NothingAfterTheLast
              <8>2. Len(wire) \in Nat \ {0} /\ Len(wire) <= 0
                BY <1>4, <5>3, <6>1, <8>1, FirstAndRest DEF Arrives
              <8> QED
                BY <8>2
            <7> QED
              BY <3>3, <7>1
          <6> DEFINE j == k + 1
          <6>3. j \in 1 .. Len(c) + 1 /\ j + 1 = k + 2
            BY <3>3, <6>2
          <6>4. Arrives(wire, FromChunk(c, j))
            BY <6>1
          <6> HIDE DEF j
          <6>5. /\ wire[1].is = "size" /\ wire[1].v = SizeOf(c, j)
                /\ Arrives(Tail(wire), ChunkRest(SizeOf(c, j), FromChunk(c, j + 1)))
            BY <1>4, <3>2, <5>3, <6>3, <6>4, SizeLine
          <6>6. wire' = Tail(wire) /\ linebuf' = SizeOf(c, j)
            BY <1>3, <3>1, <5>3, <6>5
          <6>7. /\ linebuf' = SizeOf(c, k + 1)
                /\ Arrives(wire', ChunkRest(linebuf', FromChunk(c, k + 2)))
            BY <6>3, <6>5, <6>6 DEF j
          <6>8. AtChunk(c, k)'
            BY <1>2, <5>1, <6>2, <6>7 DEF AtChunk
          <6> QED
            BY <1>2, <3>2, <5>1, <6>8, ChunkGoesOn
        <5> QED
          BY <5>2, <5>3
      <4> QED
        BY <3>6, <4>2, <4>3
    <3> QED
      BY <3>1, <3>2, <3>4, <3>5, <3>6, ChunkState
  <2> QED
    BY <2>1, <2>2
<1> QED
  BY <1>2, <1>3, <1>4, <1>5, ChunkStep

\* The size read last is that of the chunk to read, where it is one.
LEMMA SizesIs ==
  ASSUME NEW l \in Http!Sizes
  PROVE  (linebuf = Http!Garbage /\ l \in {0, 1}) \/ (linebuf # Http!Garbage /\ l = linebuf)
BY DEF Http!Sizes

\* The first size.
LEMMA BeginChunksKeeps == HttpInv /\ Http!BeginChunks => HttpInv'
<1> SUFFICES ASSUME HttpInv, Http!BeginChunks PROVE HttpInv'
  OBVIOUS
<1>1. HttpTypes /\ Asked
  BY DEF HttpInv
<1>2. CASE pc = "chunks" /\ Http!ReadLine("first")
           /\ UNCHANGED <<Http!fixed, Http!session, left, saved, result, Http!info>>
  BY <1>2, ReadLineKeeps
<1>3. CASE pc = "chunks" /\ Http!Failed /\ UNCHANGED <<Http!fixed, Http!session, wire, Http!body, Http!info>>
  <2>1. UNCHANGED <<Web, Caller, UseProxy, file, url, cnt, requests, connected, ret, htResponse, FileSize,
                    IsResumeSupport, wire, linebuf, left, saved, stalled>>
    BY <1>3 DEF Http!fixed, Http!session, Http!info, Http!body
  <2>2. pc' = "end" /\ result' = -2
    BY <1>3 DEF Http!Failed, Http!End
  <2>3. ChunksRead'
    BY <2>2, Undisturbed
  <2> QED
    BY <1>1, <1>3, <2>1, <2>2, <2>3, ChunkStep DEF HttpTypes
<1>4. CASE pc = "first" /\ left' \in Http!Sizes /\ pc' = "data"
           /\ UNCHANGED <<Http!fixed, Http!session, wire, linebuf, saved, stalled, result, Http!info>>
  <2>1. UNCHANGED <<Web, Caller, UseProxy, file, url, cnt, requests, connected, ret, htResponse, FileSize,
                    IsResumeSupport, wire, linebuf, saved, stalled, result>>
    BY <1>4 DEF Http!fixed, Http!session, Http!info
  <2>2. /\ linebuf \in Int
        /\ (linebuf = Http!Garbage /\ left' \in {0, 1}) \/ (linebuf # Http!Garbage /\ left' = linebuf)
    BY <1>1, <1>4, SizesIs DEF HttpTypes
  <2>3. ChunksRead'
    <3>1. CASE ~Clean'
      BY <1>4, <2>1, <3>1, ChunkGoesOn
    <3>2. CASE Clean'
      <4>1. Clean
        BY <2>1, <3>2 DEF Clean
      <4>2. PICK c \in Seq(Nat \ {0}) : c = Web[url].chunks
        BY <1>4, <4>1, ChunkState
      <4>3. CASE linebuf = Http!Garbage /\ wire = <<>>
        BY <1>4, <2>1, <4>2, <4>3, ChunkGoesOn
      <4>4. ASSUME NEW k \in 1 .. Len(c) + 1, AtChunk(c, k)
            PROVE  ChunksRead'
        <5>1. /\ k = 1 /\ saved = 0 /\ linebuf = SizeOf(c, 1)
              /\ Arrives(wire, ChunkRest(linebuf, FromChunk(c, 2)))
          BY <1>4, <4>4 DEF AtChunk
        <5>2. SizeOf(c, k) \in Nat /\ Taken(c, k) = Taken(c, k - 1) + SizeOf(c, k) /\ Taken(c, 0) = 0
          BY <4>2, SizesAdd
        <5>3. left' = linebuf /\ left' \in Nat
          BY <2>2, <5>1, <5>2 DEF Http!Garbage
        <5>4. saved' + left' = Taken(c, 1) /\ k - 1 = 0 /\ 1 + 1 = 2
          BY <2>1, <5>1, <5>2, <5>3
        <5>5. AtChunk(c, 1)'
          BY <1>4, <2>1, <5>1, <5>3, <5>4 DEF AtChunk
        <5> QED
          BY <1>4, <2>1, <4>2, <5>1, <5>5, ChunkGoesOn
      <4> QED
        BY <1>4, <4>1, <4>2, <4>3, <4>4, ChunkState
    <3> QED
      BY <3>1, <3>2
  <2>4. left' \in Int
    BY <2>2
  <2> QED
    BY <1>1, <1>4, <2>1, <2>3, <2>4, ChunkStep DEF HttpTypes
<1> QED
  BY <1>2, <1>3, <1>4 DEF Http!BeginChunks

\* The bytes of a chunk.
LEMMA ReadChunkKeeps == HttpInv /\ Http!ReadChunk => HttpInv'
<1> SUFFICES ASSUME HttpInv, Http!ReadChunk PROVE HttpInv'
  OBVIOUS
<1>1. HttpTypes /\ Asked /\ pc = "data" /\ left > 0
  BY DEF HttpInv, Http!ReadChunk
<1>2. UNCHANGED <<Web, Caller, UseProxy, file, url, cnt, requests, connected, ret, htResponse, FileSize,
                  IsResumeSupport, linebuf, stalled, result>>
  BY DEF Http!fixed, Http!session, Http!info, Http!ReadChunk
<1>3. wire \in Seq(Items) /\ left \in Nat /\ saved \in Nat /\ Len(wire) \in Nat /\ HTTP_BUF_SIZE \in Nat
  BY <1>1, HttpAssumption DEF HttpTypes
<1>4. CASE pc' = "spin" /\ UNCHANGED <<wire, left, saved>>
  <2>1. ChunksRead'
    BY <1>4, Undisturbed
  <2> QED
    BY <1>1, <1>2, <1>4, <2>1, ChunkStep DEF HttpTypes
<1>5. ASSUME wire # <<>>,
             NEW n \in 1 .. Http!Smaller(Http!Smaller(HTTP_BUF_SIZE, left), Len(wire)),
             wire' = SubSeq(wire, n + 1, Len(wire)), pc' = pc,
             \/ saved' = saved + n /\ left' = left - n
             \/ file /\ left' = left + 1 /\ saved' = saved
      PROVE  HttpInv'
  <2>1. n \in 1 .. left /\ n \in 0 .. Len(wire) /\ n <= Len(wire) /\ n \in Nat
    BY <1>3 DEF Http!Smaller
  <2>2. wire' \in Seq(Items)
    BY <1>3, <1>5, <2>1, Dropped
  <2>3. left' \in Int /\ saved' \in Nat
    BY <1>3, <1>5, <2>1
  <2>4. ChunksRead'
    <3>1. CASE ~Clean'
      BY <1>1, <1>2, <1>5, <3>1, ChunkGoesOn
    <3>2. CASE Clean'
      <4>1. Clean /\ ~file
        BY <1>2, <3>2 DEF Clean
      <4>2. PICK c \in Seq(Nat \ {0}) : c = Web[url].chunks
        BY <1>1, <4>1, ChunkState
      <4>3. ASSUME NEW k \in 1 .. Len(c) + 1, AtChunk(c, k)
            PROVE  ChunksRead'
        <5> DEFINE x == FromChunk(c, k + 1)
        <5>1. /\ saved + left = Taken(c, k) /\ linebuf = SizeOf(c, k)
              /\ Arrives(wire, ChunkRest(left, x))
          BY <1>1, <1>5, <4>3 DEF AtChunk
        <5>2. x \in Seq(Items) /\ Newline \o x \in Seq(Items)
          BY <1>3, <4>2, ChunkComes, RestIs
        <5>3. Arrives(wire', ChunkRest(left - n, x))
          <6> DEFINE y == Newline \o x
          <6>1. Arrives(wire, Http!Bytes(left) \o y) /\ y \in Seq(Items)
            BY <5>1, <5>2 DEF ChunkRest
          <6> HIDE DEF y
          <6>2. Arrives(SubSeq(wire, n + 1, Len(wire)), Http!Bytes(left - n) \o y)
            BY <1>3, <2>1, <6>1, BytesArrive
          <6> QED
            BY <1>5, <6>2 DEF y, ChunkRest
        <5> HIDE DEF x
        <5>4. left' = left - n /\ saved' = saved + n
          BY <1>5, <4>1
        <5>5. left' \in Nat /\ saved' + left' = Taken(c, k)
          BY <1>3, <2>1, <5>1, <5>4
        <5>6. AtChunk(c, k)'
          BY <1>1, <1>2, <1>5, <5>1, <5>3, <5>4, <5>5 DEF AtChunk, x
        <5> QED
          BY <1>1, <1>2, <1>5, <4>2, <5>6, ChunkGoesOn
      <4> QED
        BY <1>1, <1>5, <4>1, <4>2, <4>3, ChunkState
    <3> QED
      BY <3>1, <3>2
  <2> QED
    BY <1>1, <1>2, <1>5, <2>2, <2>3, <2>4, ChunkStep DEF HttpTypes
<1> QED
  BY <1>4, <1>5 DEF Http!ReadChunk, Http!Received

\* The end of a chunk.
LEMMA NextChunkKeeps == HttpInv /\ Http!NextChunk => HttpInv'
BY ReadLineKeeps DEF Http!NextChunk

\* The next size, and the end of the page at the size 0.
LEMMA NextSizeKeeps == HttpInv /\ Http!NextSize => HttpInv'
<1> SUFFICES ASSUME HttpInv, Http!NextSize PROVE HttpInv'
  OBVIOUS
<1>1. HttpTypes /\ Asked
  BY DEF HttpInv
<1>2. CASE pc = "size" /\ Http!ReadLine("last")
           /\ UNCHANGED <<Http!fixed, Http!session, left, saved, result, Http!info>>
  BY <1>2, ReadLineKeeps
<1>3. CASE /\ pc = "last" /\ left' \in Http!Sizes
           /\ IF left' = 0 THEN Http!End(0) ELSE pc' = "data" /\ UNCHANGED result
           /\ UNCHANGED <<Http!fixed, Http!session, wire, linebuf, saved, stalled, Http!info>>
  <2>1. UNCHANGED <<Web, Caller, UseProxy, file, url, cnt, requests, connected, ret, htResponse, FileSize,
                    IsResumeSupport, wire, linebuf, saved, stalled>>
    BY <1>3 DEF Http!fixed, Http!session, Http!info
  <2>2. /\ linebuf \in Int /\ result \in Int
        /\ (linebuf = Http!Garbage /\ left' \in {0, 1}) \/ (linebuf # Http!Garbage /\ left' = linebuf)
    BY <1>1, <1>3, SizesIs DEF HttpTypes
  <2>3. left' \in Int /\ \/ left' = 0 /\ pc' = "end" /\ result' = 0
                         \/ left' # 0 /\ pc' = "data" /\ result' = result
    BY <1>3, <2>2 DEF Http!End
  <2>4. ChunksRead'
    <3>1. CASE ~Clean'
      BY <1>3, <2>1, <2>3, <3>1, ChunkGoesOn DEF ChunksRead, Http!ChunksAreWhole, Clean
    <3>2. CASE Clean'
      <4>1. Clean
        BY <2>1, <3>2 DEF Clean
      <4>2. PICK c \in Seq(Nat \ {0}) : c = Web[url].chunks
        BY <1>3, <4>1, ChunkState
      <4>3. CASE linebuf = Http!Garbage /\ wire = <<>>
        <5>1. CASE pc' = "end"
          BY <2>1, <4>3, <5>1, Undisturbed
        <5>2. CASE pc' = "data"
          BY <2>1, <4>2, <4>3, <5>2, ChunkGoesOn
        <5> QED
          BY <2>3, <5>1, <5>2
      <4>4. ASSUME NEW k \in 1 .. Len(c) + 1, AtChunk(c, k)
            PROVE  ChunksRead'
        <5> DEFINE j == k + 1
        <5>1. /\ saved = Taken(c, k)
              /\ \/ k <= Len(c) /\ linebuf = SizeOf(c, j)
                    /\ Arrives(wire, ChunkRest(linebuf, FromChunk(c, k + 2)))
                 \/ linebuf \in {0, SizeOf(c, k)} /\ wire = <<>>
          BY <1>3, <4>4 DEF AtChunk
        <5>2. /\ Len(c) \in Nat /\ SizeOf(c, k) \in Nat
              /\ Taken(c, k) = Http!ChunkSums(c)[IF k <= Len(c) THEN k ELSE Len(c)]
          BY <4>2, SizesAdd
        <5>3. k <= Len(c) => j \in 1 .. Len(c) + 1 /\ j - 1 = k /\ j + 1 = k + 2
          BY <5>2
        <5> HIDE DEF j
        <5>4. k <= Len(c) => /\ SizeOf(c, j) \in Nat /\ (SizeOf(c, j) = 0 <=> j = Len(c) + 1)
                             /\ Taken(c, j) = Taken(c, j - 1) + SizeOf(c, j)
          BY <4>2, <5>3, SizesAdd
        <5>5. linebuf \in Nat /\ left' = linebuf
          BY <2>2, <5>1, <5>2, <5>4 DEF Http!Garbage
        <5>6. CASE pc' = "end"
          <6>1. linebuf = 0
            BY <2>3, <5>5, <5>6
          <6>2. saved = Http!ChunkSums(c)[Len(c)]
                \/ (wire = <<>> /\ \E i \in 0 .. Len(c) : saved = Http!ChunkSums(c)[i])
            <7>1. CASE wire = <<>>
              <8>1. (IF k <= Len(c) THEN k ELSE Len(c)) \in 0 .. Len(c)
                BY <5>2
              <8> QED
                BY <5>1, <5>2, <7>1, <8>1
            <7>2. CASE k <= Len(c) /\ linebuf = SizeOf(c, j)
              <8>1. k = Len(c)
                BY <5>2, <5>3, <5>4, <6>1, <7>2
              <8> QED
                BY <5>1, <5>2, <8>1
            <7> QED
              BY <5>1, <7>1, <7>2
          <6>3. Http!ChunksAreWhole'
            <7>1. (Web[url].chunks)' = c /\ wire' = wire /\ saved' = saved
              BY <2>1, <4>2
            <7> QED
              BY <6>2, <7>1 DEF Http!ChunksAreWhole
          <6> QED
            BY <5>6, <6>3 DEF ChunksRead
        <5>7. CASE pc' = "data"
          <6>1. left' > 0
            BY <2>3, <5>5, <5>7
          <6>2. CASE wire = <<>>
            <7>1. AtChunk(c, k)'
              BY <2>1, <5>7, <6>1, <6>2 DEF AtChunk
            <7> QED
              BY <2>1, <4>2, <5>7, <7>1, ChunkGoesOn
          <6>3. CASE /\ k <= Len(c) /\ linebuf = SizeOf(c, j)
                     /\ Arrives(wire, ChunkRest(linebuf, FromChunk(c, k + 2)))
            <7>1. saved' + left' = Taken(c, j)
              <8>1. saved' = Taken(c, k) /\ left' = SizeOf(c, j) /\ Taken(c, j) = Taken(c, k) + SizeOf(c, j)
                BY <2>1, <5>1, <5>3, <5>4, <5>5, <6>3
              <8> QED
                BY <8>1
            <7>2. left' \in Nat /\ Arrives(wire', ChunkRest(left', FromChunk(c, j + 1)))
              BY <2>1, <5>3, <5>5, <6>3
            <7>3. AtChunk(c, j)'
              BY <2>1, <5>7, <6>3, <7>1, <7>2 DEF AtChunk
            <7> QED
              BY <2>1, <4>2, <5>3, <5>7, <6>3, <7>3, ChunkGoesOn
          <6> QED
            BY <5>1, <6>2, <6>3
        <5> QED
          BY <2>3, <5>6, <5>7
      <4> QED
        BY <1>3, <4>1, <4>2, <4>3, <4>4, ChunkState
    <3> QED
      BY <3>1, <3>2
  <2>5. result' \in Int /\ (pc' = "end" => ~(result' > 0)) /\ pc' \in {"data", "end"}
    BY <2>2, <2>3
  <2> QED
    BY <1>1, <1>3, <2>1, <2>3, <2>4, <2>5, ChunkStep DEF HttpTypes
<1> QED
  BY <1>2, <1>3 DEF Http!NextSize
-----------------------------------------------------------------------------
(* The session as a whole. *)

\* A call begins with the first address.
LEMMA CallBegins == Http!Init => HttpInv
<1> SUFFICES ASSUME Http!Init PROVE HttpInv
  OBVIOUS
<1>1. /\ Web \in Webs /\ Caller \in {"info", "page"} /\ url = 1 /\ cnt = 0 /\ requests = 0 /\ pc = "connect"
      /\ wire = <<>> /\ connected = FALSE /\ ret = -1 /\ htResponse = Http!NoFields /\ linebuf = Http!Garbage
      /\ left = 0 /\ saved = 0 /\ result = 0 /\ FileSize = -1 /\ IsResumeSupport = FALSE /\ stalled = FALSE
  BY DEF Http!Init
<1>2. UseProxy \in BOOLEAN /\ file \in BOOLEAN
  BY DEF Http!Init
<1>3. url \in 0 .. Len(Web)
  BY <1>1, HttpAssumption
<1>4. Http!NoFields \in [DOMAIN Http!NoFields -> Int]
  BY DEF Http!NoFields, Http!Absent
<1>5. HttpTypes
  <2>1. wire \in Seq(Items)
    BY <1>1
  <2>2. linebuf \in Int
    BY <1>1 DEF Http!Garbage
  <2> QED
    <3>1. connected \in BOOLEAN /\ IsResumeSupport \in BOOLEAN /\ stalled \in BOOLEAN
      BY <1>1
    <3>2. /\ cnt \in Nat /\ requests \in Nat /\ saved \in Nat /\ ret \in Int /\ left \in Int /\ result \in Int
          /\ FileSize \in Int
      BY <1>1
    <3>3. htResponse \in [DOMAIN Http!NoFields -> Int]
      BY <1>1, <1>4
    <3> QED
      BY <1>1, <1>2, <1>3, <2>1, <2>2, <3>1, <3>2, <3>3 DEF HttpTypes
<1>6. Asked
  BY <1>1, HttpAssumption DEF Asked
<1>7. Answered
  BY <1>1 DEF Answered, Http!SizeIsThatOfTheResponse
<1>8. FileRead
  BY <1>1 DEF FileRead, Http!FileIsWhole
<1>9. ChunksRead
  BY <1>1 DEF ChunksRead, Http!ChunksAreWhole
<1> QED
  BY <1>5, <1>6, <1>7, <1>8, <1>9 DEF HttpInv

\* Every step of a call keeps the invariant.
LEMMA CallGoesOn == HttpInv /\ Http!Next => HttpInv'
BY SetupKeeps, StatusKeeps, HeaderLineKeeps, InfoRedirectedKeeps, InfoTakenKeeps, PageRedirectedKeeps,
   PageTakenKeeps, BeginFileKeeps, KnownKeeps, UnknownKeeps, BeginChunksKeeps, ReadChunkKeeps, NextChunkKeeps,
   NextSizeKeeps DEF Http!Next

\* So does a step of the other client.
LEMMA CallStays ==
  ASSUME HttpInv,
         UNCHANGED <<Web, Caller, UseProxy, file, url, cnt, requests, pc, wire, connected, ret, htResponse,
                     linebuf, left, saved, stalled, result, FileSize, IsResumeSupport>>
  PROVE  HttpInv'
<1>1. HttpTypes' /\ Asked'
  BY DEF HttpInv, HttpTypes, Asked
<1>2. Answered' /\ FileRead'
  BY DEF HttpInv, Answered, HeaderRead, Fields, Http!SizeIsThatOfTheResponse, FileRead, Http!FileIsWhole,
         Http!getContentLen, Http!GetHdr
<1>3. ChunksRead'
  BY DEF HttpInv, ChunksRead, AtChunk, Clean, Http!ChunksAreWhole
<1> QED
  BY <1>1, <1>2, <1>3 DEF HttpInv

(* What the invariant says of a call. *)
LEMMA CallIs == HttpInv => Http!SessionInv /\ Http!AcceptedPageIsWhole
<1> SUFFICES ASSUME HttpInv PROVE Http!SessionInv /\ Http!AcceptedPageIsWhole
  OBVIOUS
<1>1. HttpTypes /\ Asked /\ Answered /\ FileRead /\ ChunksRead
  BY DEF HttpInv
<1>2. RedirectLimit \in Nat /\ cnt \in Nat /\ requests \in Nat
  BY <1>1, HttpAssumption DEF HttpTypes
<1>4. Http!TypeOK
  <2>1. cnt \in 0 .. RedirectLimit + 1
    BY <1>1, <1>2 DEF Asked
  <2>2. url \in 0 .. Len(Web)
    BY <1>1 DEF HttpTypes
  <2>3. {connected, stalled, IsResumeSupport} \subseteq BOOLEAN
    BY <1>1 DEF HttpTypes
  <2> QED
    BY <1>1, <2>1, <2>2, <2>3 DEF HttpTypes, Http!TypeOK
<1>5. Http!RequestsAreBounded
  BY <1>1, <1>2 DEF Asked, Http!RequestsAreBounded
<1>6. Http!SizeIsThatOfTheResponse
  BY <1>1 DEF Answered
<1>7. Http!AcceptedPageIsWhole
  BY <1>1 DEF FileRead, ChunksRead, Http!AcceptedPageIsWhole
<1> QED
  BY <1>4, <1>5, <1>6, <1>7 DEF Http!SessionInv

(* Whatever servers say and wherever a connection ends: a call of the HTTP client follows no more
   redirections than the limit, takes the size from the response it judges, and accepts a page only
   when its announced bytes, the bytes the connection brought or whole chunks of it are there
   (fetchHttpRemoteFileInfo, fetchHtmlPage). *)
THEOREM HttpSessionsAreSound == SessionsSpec => []HttpSessionInv
<1> DEFINE Inv == client = "http" => HttpInv
<1>1. SessionsInit => Inv
  BY CallBegins DEF SessionsInit
<1>2. Inv /\ [SessionsNext]_sessionsVars => Inv'
  <2> SUFFICES ASSUME Inv, [SessionsNext]_sessionsVars PROVE Inv'
    OBVIOUS
  <2>1. CASE FtpClientStep \/ FtpServerGivesUp
    BY <2>1 DEF FtpClientStep, FtpServerGivesUp
  <2>2. CASE HttpStep
    BY <2>2, CallGoesOn DEF HttpStep
  <2>3. CASE UNCHANGED sessionsVars
    <3>1. UNCHANGED <<Web, Caller, UseProxy, file, url, cnt, requests, pc, wire, connected, ret, htResponse,
                      linebuf, left, saved, stalled, result, FileSize, IsResumeSupport>> /\ UNCHANGED client
      BY <2>3 DEF sessionsVars, common, onlyHttp
    <3> QED
      BY <3>1, CallStays
  <2> QED
    BY <2>1, <2>2, <2>3 DEF SessionsNext
<1>3. Inv => HttpSessionInv
  BY CallIs DEF HttpSessionInv
<1> QED
  BY <1>1, <1>2, <1>3, PTL DEF SessionsSpec
=============================================================================
