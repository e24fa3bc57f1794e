----------------------------- MODULE Instances -----------------------------
(***************************************************************************)
(* One program per machine (IsRunning of libui/main.cpp): a process that      *)
(* starts looks up in /tmp/.dget.lock the process that runs, and writes the    *)
(* file anew.  Neither is atomic, and nothing is locked.  (The running program  *)
(* looks for the arguments of later ones in /tmp/.wdget.lock, which nobody      *)
(* writes: FrmMainWin::WatchUnique always returns at once.)                   *)
(***************************************************************************)
EXTENDS Integers, FiniteSets

CONSTANTS
    Pids,           \* process ids
    MaxStarts       \* bound

ASSUME PidsAssumption == IsFiniteSet(Pids) /\ Pids \subseteq Nat \ {0}

VARIABLES
    lock,           \* the first line of the file; Absent: there is none
    proc,           \* process id -> what the process does
    buf,            \* process id -> the line it read
    bRun,           \* process id -> it found another one running
    starts,
    mishaps         \* history: how often the file could not do its work (see the property)

ivars == <<lock, proc, buf, bRun, starts, mishaps>>

Absent == -1
Empty == 0          \* an empty file, or an empty line
Name == -2          \* the name of the program, its first argument

InitInstances ==
    /\ lock = Absent
    /\ proc = [p \in Pids |-> "none"]
    /\ buf = [p \in Pids |-> Empty] /\ bRun = [p \in Pids |-> FALSE]
    /\ starts = 0 /\ mishaps = 0

Starting == {p \in Pids : proc[p] \in {"read", "judged", "opened"}}
Running == {p \in Pids : proc[p] = "runs"}

Become(p, to) == proc' = [proc EXCEPT ![p] = to]

-----------------------------------------------------------------------------
\* A start looks for the file and reads its first line.  Where the file is there and cannot be
\* opened, it goes on as if it were not.
ReadLock(p) ==
    /\ proc[p] = "none" /\ starts < MaxStarts
    /\ starts' = starts + 1
    /\ \E reads \in {lock # Absent, FALSE} :
          /\ buf' = [buf EXCEPT ![p] = IF reads THEN lock ELSE Empty]
          /\ IF reads
               THEN Become(p, "read") /\ UNCHANGED bRun
               ELSE Become(p, "judged") /\ bRun' = [bRun EXCEPT ![p] = FALSE]
          /\ mishaps' = mishaps + (IF Starting # {} \/ (lock # Absent /\ ~reads) THEN 1 ELSE 0)
    /\ UNCHANGED lock

\* access("/proc/<line>"): an empty line leaves "/proc/", which is there.
Found(line) == line = Empty \/ line \in {p \in Pids : proc[p] # "none"}

Judge(p) ==
    /\ proc[p] = "read"
    /\ bRun' = [bRun EXCEPT ![p] = Found(buf[p])]
    /\ Become(p, "judged")
    /\ UNCHANGED <<lock, buf, starts, mishaps>>

\* fopen(.., "w") empties the file; without it the program ends.
OpenLock(p) ==
    /\ proc[p] = "judged"
    /\ \/ lock' = Empty /\ Become(p, "opened")
       \/ UNCHANGED lock /\ Become(p, "none")
    /\ UNCHANGED <<buf, bRun, starts, mishaps>>

\* As a mutant: every process writes its own number.
FirstLineOwn(p) == p

\* The line that was found is written back; after an empty one the arguments come first.
FirstLine(p) == IF ~bRun[p] THEN p ELSE IF buf[p] = Empty THEN Name ELSE buf[p]

WriteLock(p) ==
    /\ proc[p] = "opened"
    /\ lock' = FirstLine(p)
    /\ Become(p, IF bRun[p] THEN "none" ELSE "runs")
    /\ UNCHANGED <<buf, bRun, starts, mishaps>>

\* A program ends and leaves the file; a start is killed; another program takes a process id.
End(p) ==
    /\ proc[p] # "none" /\ Become(p, "none")
    /\ mishaps' = mishaps + (IF proc[p] = "opened" THEN 1 ELSE 0)
    /\ UNCHANGED <<lock, buf, bRun, starts>>

Other(p) ==
    /\ proc[p] = "none" /\ Become(p, "other")
    /\ UNCHANGED <<lock, buf, bRun, starts, mishaps>>

NextInstances ==
    \E p \in Pids : ReadLock(p) \/ Judge(p) \/ OpenLock(p) \/ WriteLock(p) \/ End(p) \/ Other(p)

InstancesSpec == InitInstances /\ [][NextInstances]_ivars

-----------------------------------------------------------------------------
(* Three mishaps let a program run beside another one, and IsRunning prevents none of them: a
   start overlaps with another one, the file is there and cannot be opened for reading, and a
   start is killed after it has emptied the file.  Each of them lets in one program at most,
   whatever is written into the file afterwards, by programs that are let in or refused, and
   whatever processes end or take their numbers.  When as many run as the mishaps allow, the
   file names one of them, so that the next start is refused; without a mishap, at most one
   runs, and the file names it. *)
OneInstanceRuns ==
    /\ Cardinality(Running) <= 1 + mishaps
    /\ Starting = {} /\ Cardinality(Running) = 1 + mishaps => lock \in Running
=============================================================================
