-------------------------- MODULE WorkerPoolProofs --------------------------
(***************************************************************************)
(* Proofs about WorkerPool for every number of slots, jobs, forks and      *)
(* descriptors, every length of report and both values of the switches.    *)
(*                                                                         *)
(* The inductive invariant relates four views of a busy slot that the code *)
(* keeps apart: the pid in the slot, the counter active_workers, the task  *)
(* in assigned_tasks and the process.  While the main thread is between    *)
(* fork and the end of the for loop's body the views disagree, in ways     *)
(* that depend on pc, and the SIGCHLD handler may run right there.         *)
(***************************************************************************)
EXTENDS WorkerPool, TaskQueueProofs, FiniteSetTheorems

Busy == {i \in Slots : workers[i].pid # NoPid}

(* The array, active_workers and the poll set agree on what is in use; the *)
(* pids are different and were all forked.                                 *)
SlotsOK ==
  /\ \A i \in Busy : workers[i].from_child \in Fds /\ workers[i].pid <= forks
  /\ \A i, k \in Busy : workers[i].pid = workers[k].pid => i = k
  /\ \A i \in Slots \ Busy : workers[i].finished = 0
  /\ active_workers = Cardinality(Busy)
  /\ \A i \in Slots : pfds[i] # NoFd => i \in Busy
  /\ revents \subseteq Busy

(* What the main thread knows at each value of pc.                         *)
ForkedOK ==
  pc = "forked" =>
    /\ slot \notin Busy /\ workers[slot].from_child \in Fds
    /\ forks \in Pids /\ \A i \in Busy : workers[i].pid # forks

ProgramOK ==
  /\ ForkedOK
  /\ pc = "spawned" => slot \in Busy /\ workers[slot].pid = forks
  /\ pc = "check" => slot \in Busy /\ slot \notin revents
  /\ pc \in {"forked", "spawned"} => task_queue.count # 0

(* The task of a busy slot is in assigned_tasks, once it has been put there.*)
TasksOK ==
  /\ task_queue.count = Len(task_queue.items)
  /\ \A i \in Busy :
       (pc = "spawned" /\ i = slot) \/ HoldsPid(assigned_tasks, workers[i].pid)

(* A process that has not been reaped has a busy slot, or is just forked;  *)
(* a slot marked finished is that of a reaped process.                     *)
ProcessesOK ==
  /\ \A p \in Pids : p > forks => proc[p] = "unborn"
  /\ \A p \in LiveWorkers :
       (\E i \in Busy : workers[i].pid = p) \/ (pc = "forked" /\ p = forks)
  /\ \A i \in Busy : workers[i].finished = 1 => proc[workers[i].pid] = "reaped"

IInv ==
  /\ TypeOK
  /\ SlotsOK
  /\ ProgramOK
  /\ TasksOK
  /\ ProcessesOK
  /\ CompletedReaped

-----------------------------------------------------------------------------
(***************************************************************************)
(* Facts about the definitions.                                            *)
(***************************************************************************)

LEMMA SlotsFinite ==
  /\ Slots \subseteq Int /\ IsFiniteSet(Slots) /\ Cardinality(Slots) = WorkerLimit
  /\ IsFiniteSet(Busy) /\ Cardinality(Busy) \in 0 .. WorkerLimit /\ Busy \subseteq Slots
<1>1. WorkerLimit \in Nat \ {0}
  BY WorkerLimitAssumption
<1>2. Slots \subseteq Int /\ IsFiniteSet(Slots) /\ Cardinality(Slots) = WorkerLimit
  BY <1>1, FS_Interval DEF Slots
<1>3. Busy \in SUBSET Slots
  BY DEF Busy
<1>4. IsFiniteSet(Busy) /\ Cardinality(Busy) <= WorkerLimit
  BY <1>2, <1>3, FS_Subset
<1>5. Cardinality(Busy) \in Nat
  BY <1>4, FS_CardinalityType
<1> QED  BY <1>1, <1>2, <1>3, <1>4, <1>5

LEMMA PidsArePositive ==
  /\ MaxForks \in Nat /\ Pids \subseteq Nat /\ NoPid \notin Pids /\ NoFd \notin Fds
  /\ MaxFd \in Nat /\ Fds \subseteq Nat
BY BoundsAssumption DEF Pids, Fds, NoPid, NoFd

LEMMA TaskListIsQueueOf == TaskList = QueueOf(Task)
BY DEF TaskList, QueueOf

(* The updates of a slot that the steps make yield a slot.                 *)
LEMMA WorkerUpdates ==
  ASSUME NEW w \in Worker
  PROVE  /\ \A f \in Fds : [w EXCEPT !.from_child = f] \in Worker
         /\ \A p \in Pids : [w EXCEPT !.pid = p] \in Worker
         /\ [w EXCEPT !.finished = 0, !.errors = 0, !.lines_recieved = 0] \in Worker
         /\ [w EXCEPT !.finished = 0, !.pid = NoPid] \in Worker
         /\ [w EXCEPT !.finished = 1] \in Worker
         /\ \A l, e \in Nat : [w EXCEPT !.lines_recieved = l, !.errors = e] \in Worker
<1>1. \A f \in Fds : [w EXCEPT !.from_child = f] \in Worker
  BY DEF Worker
<1>2. \A p \in Pids : [w EXCEPT !.pid = p] \in Worker
  BY DEF Worker
<1>3. [w EXCEPT !.finished = 0, !.errors = 0, !.lines_recieved = 0] \in Worker
  BY DEF Worker
<1>4. [w EXCEPT !.finished = 0, !.pid = NoPid] \in Worker
  BY DEF Worker
<1>5. [w EXCEPT !.finished = 1] \in Worker
  BY DEF Worker
<1>6. \A l, e \in Nat : [w EXCEPT !.lines_recieved = l, !.errors = e] \in Worker
  BY DEF Worker
<1> QED  BY <1>1, <1>2, <1>3, <1>4, <1>5, <1>6

(* Everything a worker may print is a sequence of lines, and has a natural *)
(* number of error lines.                                                  *)
LEMMA OutputsType ==
  ASSUME NEW p \in Pids, NEW out \in Outputs(p)
  PROVE  /\ out \in Seq(Line)
         /\ Cardinality({k \in DOMAIN out : out[k].kind = "error"}) \in Nat
<1>1. out \in Seq(Line)
  <2>1. ASSUME NEW n \in 0 .. MaxErrors PROVE Report(p, n) \in Seq(Line)
    <3> DEFINE first == <<"start", "status", "details", "errors">>
               errors == [k \in 1 .. n |-> "error"]
               kinds == first \o errors \o <<"end">>
    <3>1. first \in Seq(LineKinds) /\ Len(first) = 4
      BY DEF LineKinds
    <3>2. errors \in Seq(LineKinds) /\ Len(errors) = n
      BY BoundsAssumption DEF LineKinds
    <3>3. <<"end">> \in Seq(LineKinds) /\ Len(<<"end">>) = 1
      BY DEF LineKinds
    <3> HIDE DEF first, errors
    <3>4. first \o errors \in Seq(LineKinds) /\ Len(first \o errors) = 4 + n
      <4>1. /\ first \o errors \in Seq(LineKinds)
            /\ Len(first \o errors) = Len(first) + Len(errors)
        BY <3>1, <3>2, ConcatProperties, Zenon
      <4> QED  BY <3>1, <3>2, <4>1
    <3>5. kinds \in Seq(LineKinds) /\ Len(kinds) = n + 5
      <4>1. Len(kinds) = (4 + n) + 1 /\ kinds \in Seq(LineKinds)
        BY <3>3, <3>4, ConcatProperties
      <4> QED  BY <4>1, BoundsAssumption
    <3> HIDE DEF kinds
    <3>6. \A k \in 1 .. (n + 5) : [pid |-> p, kind |-> kinds[k]] \in Line
      BY <3>5, ElementOfSeq DEF Line
    <3>7. Report(p, n) = [k \in 1 .. (n + 5) |-> [pid |-> p, kind |-> kinds[k]]]
      BY DEF Report, kinds, first, errors
    <3>8. n + 5 \in Nat
      BY BoundsAssumption
    <3> QED  BY <3>6, <3>7, <3>8
  <2>2. <<[pid |-> p, kind |-> "exec failed"]>> \in Seq(Line)
    BY DEF Line, LineKinds
  <2>3. ASSUME NEW n \in 0 .. MaxErrors PROVE Crashed(Report(p, n)) \subseteq Seq(Line)
    <3> DEFINE r == Report(p, n)
    <3>1. r \in Seq(Line)
      BY <2>1
    <3> HIDE DEF r
    <3>2. ASSUME NEW k \in 0 .. (Len(r) - 1) PROVE SubSeq(r, 1, k) \in Seq(Line)
      BY <3>1, LenProperties, SubSeqProperties
    <3>3. Crashed(r) \subseteq Seq(Line)
      BY <3>2 DEF Crashed
    <3> QED  BY <3>3 DEF r
  <2>4. CASE \E n \in 0 .. MaxErrors : out = Report(p, n)
    BY <2>1, <2>4
  <2>5. CASE \E n \in 0 .. MaxErrors : out \in Crashed(Report(p, n))
    BY <2>3, <2>5, Zenon
  <2>6. CASE out = <<[pid |-> p, kind |-> "exec failed"]>>
    BY <2>2, <2>6
  <2> QED  BY <2>4, <2>5, <2>6 DEF Outputs
<1>2. IsFiniteSet(DOMAIN out)
  BY <1>1, LenProperties, FS_Interval
<1>3. IsFiniteSet({k \in DOMAIN out : out[k].kind = "error"})
  BY <1>2, FS_Subset
<1> QED  BY <1>1, <1>3, FS_CardinalityType

(* What one pass over a pipe reads is counted by natural numbers.          *)
LEMMA LinesReadType ==
  ASSUME NEW before, NEW lines \in Seq(Line)
  PROVE  LinesRead(before, lines) \in Nat /\ ErrorsRead(before, lines) \in Nat
<1>1. IsFiniteSet(DOMAIN lines)
  BY LenProperties, FS_Interval
<1>2. LinesRead(before, lines) \in Nat
  BY <1>1, FS_Subset, FS_CardinalityType DEF LinesRead
<1>3. IsFiniteSet(1 .. LinesRead(before, lines))
  BY <1>2, FS_Interval
<1>4. ErrorsRead(before, lines) \in Nat
  BY <1>3, FS_Subset, FS_CardinalityType DEF ErrorsRead
<1> QED  BY <1>2, <1>4

-----------------------------------------------------------------------------
(***************************************************************************)
(* Type correctness.                                                       *)
(***************************************************************************)

USE TaskListIsQueueOf, PidsArePositive

(* The initial state satisfies the invariant.                              *)
LEMMA InitEstablishes == Init => IInv
<1> SUFFICES ASSUME Init PROVE IInv
  OBVIOUS
<1> USE DEF Init, createTaskQueue, FreeWorker
<1>1. Busy = {}
  BY DEF Busy
<1>2. 0 \in Slots /\ 0 \in 0 .. WorkerLimit /\ 0 \in 0 .. MaxForks
  BY WorkerLimitAssumption, BoundsAssumption DEF Slots
<1>3. TypeOK
  <2>1. [count |-> 0, items |-> << >>] \in TaskList
    BY DEF TaskList
  <2>2. << >> \in Seq(Line)
    OBVIOUS
  <2>3. FreeWorker \in Worker
    BY DEF Worker
  <2> QED
    BY <1>2, <2>1, <2>2, <2>3 DEF TypeOK, ProcessStates
<1>4. SlotsOK
  BY <1>1, FS_EmptySet DEF SlotsOK
<1>5. ProgramOK /\ TasksOK
  BY <1>1 DEF ProgramOK, ForkedOK, TasksOK
<1>6. ProcessesOK /\ CompletedReaped
  BY <1>1 DEF ProcessesOK, CompletedReaped, LiveWorkers
<1> QED  BY <1>3, <1>4, <1>5, <1>6 DEF IInv

(* Every step from a state of the invariant preserves the types.           *)
LEMMA TypeStep == IInv /\ [Next]_vars => TypeOK'
<1> SUFFICES ASSUME IInv, [Next]_vars PROVE TypeOK'
  OBVIOUS
<1> USE DEF TypeOK
<1>0. TypeOK /\ SlotsOK /\ ProgramOK /\ TasksOK
  BY DEF IInv
<1>1. ASSUME NEW i \in Slots, Fork(i) PROVE TypeOK'
  <2>1. forks' \in Pids /\ forks' \in 0 .. MaxForks
    BY <1>0, <1>1, BoundsAssumption DEF Fork, Pids
  <2>2. PICK out \in Outputs(forks') :
          /\ stdout' = [stdout EXCEPT ![forks'] = out]
          /\ printed' = [printed EXCEPT ![forks'] =
                           Cardinality({k \in DOMAIN out : out[k].kind = "error"})]
    BY <1>1 DEF Fork
  <2>3. out \in Seq(Line) /\ Cardinality({k \in DOMAIN out : out[k].kind = "error"}) \in Nat
    BY <2>1, OutputsType
  <2>4. PICK to, from \in Fds :
          /\ fds' = [fds EXCEPT ![to] = [end |-> "write", pid |-> forks'],
                                ![from] = [end |-> "read", pid |-> forks']]
          /\ workers' = [workers EXCEPT ![i].from_child = from]
    <3>1. \E to, from \in FreeFds :
            /\ fds' = [fds EXCEPT ![to] = [end |-> "write", pid |-> forks'],
                                  ![from] = [end |-> "read", pid |-> forks']]
            /\ workers' = [workers EXCEPT ![i].from_child = from]
      BY <1>1, Zenon DEF Fork
    <3>2. FreeFds \subseteq Fds
      BY DEF FreeFds
    <3> QED  BY <3>1, <3>2, Zenon
  <2>5. stdout' \in [Pids -> Seq(Line)] /\ printed' \in [Pids -> Nat]
    BY <1>0, <2>1, <2>2, <2>3
  <2>6. fds' \in [Fds -> OpenFile \cup {NULL}]
    BY <1>0, <2>1, <2>4, Zenon DEF OpenFile
  <2>7. workers' \in [Slots -> Worker]
    <3>1. [workers[i] EXCEPT !.from_child = from] \in Worker
      BY <1>0, WorkerUpdates, Zenon
    <3> QED  BY <1>0, <1>1, <2>4, <3>1
  <2>8. proc' \in [Pids -> ProcessStates]
    BY <1>0, <1>1, <2>1 DEF Fork, ProcessStates
  <2> QED
    BY <1>0, <1>1, <2>1, <2>5, <2>6, <2>7, <2>8 DEF Fork, queueVars
<1>2. ASSUME RecordPid PROVE TypeOK'
  <2>1. forks \in Pids /\ slot \notin Busy /\ workers[slot].from_child \in Fds
    BY <1>0, <1>2 DEF RecordPid, ProgramOK, ForkedOK
  <2>2. active_workers' \in 0 .. WorkerLimit
    <3>1. Cardinality(Busy \cup {slot}) = active_workers + 1
      BY <1>0, <2>1, SlotsFinite, FS_AddElement DEF SlotsOK
    <3>2. Busy \cup {slot} \in SUBSET Slots
      BY <1>0, SlotsFinite
    <3>3. Cardinality(Busy \cup {slot}) <= WorkerLimit
      BY <3>2, SlotsFinite, FS_Subset
    <3> QED  BY <1>0, <1>2, <3>1, <3>3, WorkerLimitAssumption DEF RecordPid
  <2>3. workers' \in [Slots -> Worker]
    <3>1. [workers[slot] EXCEPT !.pid = forks] \in Worker
      BY <1>0, <2>1, WorkerUpdates, Zenon
    <3> QED  BY <1>0, <1>2, <3>1 DEF RecordPid
  <2>4. pfds' \in [Slots -> Fds \cup {NoFd}]
    BY <1>0, <1>2, <2>1 DEF RecordPid
  <2> QED
    BY <1>0, <1>2, <2>2, <2>3, <2>4 DEF RecordPid, queueVars, processVars
<1>3. ASSUME AssignTask PROVE TypeOK'
  <2>1. /\ slot \in Busy /\ workers[slot].pid \in Pids
        /\ task_queue.count # 0 /\ task_queue.count = Len(task_queue.items)
    BY <1>0, <1>3 DEF AssignTask, ProgramOK, TasksOK, Busy, Worker
  <2>2. readTask(task_queue) \in Task
    BY <1>0, <2>1, ReadTaskFound
  <2>3. [readTask(task_queue) EXCEPT !.pid = workers[slot].pid] \in Task
    BY <2>1, <2>2 DEF Task
  <2>4. assigned_tasks' \in TaskList
    BY <1>0, <1>3, <2>3, InsertTaskHolds DEF AssignTask
  <2>5. task_queue' \in TaskList
    BY <1>0, <1>3, <2>1, ExtractTaskCount DEF AssignTask
  <2>6. workers' \in [Slots -> Worker]
    <3> DEFINE w == [workers[slot] EXCEPT !.finished = 0, !.errors = 0, !.lines_recieved = 0]
    <3>1. w \in Worker
      BY <1>0, WorkerUpdates, Zenon
    <3>2. workers' = [workers EXCEPT ![slot] = w]
      BY <1>3 DEF AssignTask
    <3> QED  BY <1>0, <3>1, <3>2, Zenon
  <2> QED
    BY <1>0, <1>3, <2>4, <2>5, <2>6 DEF AssignTask, processVars
<1>4. ASSUME PipeFails \/ StopStarting \/ WorkerNotDone \/ AllAnswered \/ InputHandled
      PROVE  TypeOK'
  BY <1>0, <1>4 DEF PipeFails, StopStarting, WorkerNotDone, AllAnswered, InputHandled,
                    queueVars, slotVars, processVars
<1>5. ASSUME Poll PROVE TypeOK'
  BY <1>0, <1>5 DEF Poll, queueVars, slotVars, processVars
<1>6. ASSUME NEW i \in Slots, ReadReport(i) PROVE TypeOK'
  <2> DEFINE fd == workers[i].from_child
             file == fds[fd]
             lines == pipe[file.pid]
             before == workers[i].lines_recieved
             read == before + LinesRead(before, lines)
             errors == workers[i].errors + ErrorsRead(before, lines)
  <2>1. i \in Busy /\ fd \in Fds
    BY <1>0, <1>6 DEF ReadReport, SlotsOK
  <2>2. revents' \in SUBSET Slots /\ slot' \in Slots /\ pc' = "check"
    BY <1>0, <1>6 DEF ReadReport
  <2>3. CASE file # NULL /\ file.end = "read"
    <3>1. file \in OpenFile /\ file.pid \in Pids
      BY <1>0, <2>1, <2>3 DEF OpenFile
    <3>2. lines \in Seq(Line)
      BY <1>0, <3>1
    <3>3. read \in Nat /\ errors \in Nat
      <4>1. before \in Nat /\ workers[i].errors \in Nat
        BY <1>0 DEF Worker
      <4> QED  BY <3>2, <4>1, LinesReadType, SMTT(30)
    <3> DEFINE w == [workers[i] EXCEPT !.lines_recieved = read, !.errors = errors]
    <3>4. /\ workers' = [workers EXCEPT ![i] = w]
          /\ pipe' = [pipe EXCEPT ![file.pid] = << >>]
          /\ fds' = [fds EXCEPT ![fd] = NULL]
      BY <1>6, <2>3 DEF ReadReport
    <3> HIDE DEF read, errors
    <3>5. w \in Worker
      <4>1. workers[i] \in Worker
        BY <1>0
      <4> QED  BY <4>1, <3>3, WorkerUpdates, Zenon
    <3> HIDE DEF w, fd, file
    <3>6. workers' \in [Slots -> Worker]
      BY <1>0, <3>4, <3>5
    <3>7. pipe' \in [Pids -> Seq(Line)]
      BY <1>0, <3>1, <3>4
    <3>8. fds' \in [Fds -> OpenFile \cup {NULL}]
      BY <1>0, <2>1, <3>4
    <3> QED  BY <1>0, <1>6, <2>2, <3>6, <3>7, <3>8 DEF ReadReport, queueVars
  <2>4. CASE ~(file # NULL /\ file.end = "read")
    BY <1>0, <1>6, <2>2, <2>4 DEF ReadReport, queueVars
  <2> QED  BY <2>3, <2>4
<1>7. ASSUME WorkerDone PROVE TypeOK'
  <2> DEFINE pid == workers[slot].pid
             task == readTaskByPid(assigned_tasks, pid)
  <2>1. slot \in Busy /\ workers[slot].from_child \in Fds /\ pid \in Pids
    BY <1>0, <1>7 DEF WorkerDone, ProgramOK, SlotsOK, Busy, Worker
  <2>2. HoldsPid(assigned_tasks, pid)
    BY <1>0, <1>7, <2>1 DEF WorkerDone, TasksOK
  <2>3. task \in Task
    BY <1>0, <2>2, ReadTaskByPidFound
  <2>4. completed' \in [Jobs -> Completion \cup {NULL}]
    BY <1>0, <1>7, <2>1, <2>3 DEF WorkerDone, CompleteTask, Task, Completion, Worker
  <2>5. assigned_tasks' \in TaskList
    BY <1>0, <1>7, ExtractTaskByPidOthers DEF WorkerDone, CompleteTask
  <2>6. active_workers' \in 0 .. WorkerLimit
    <3>1. active_workers # 0
      BY <1>0, <2>1, SlotsFinite, FS_EmptySet DEF SlotsOK
    <3> QED  BY <1>0, <1>7, <3>1, WorkerLimitAssumption DEF WorkerDone, FreeSlot
  <2>7. workers' \in [Slots -> Worker]
    <3> DEFINE w == [workers[slot] EXCEPT !.finished = 0, !.pid = NoPid]
    <3>1. w \in Worker
      BY <1>0, WorkerUpdates, Zenon
    <3>2. workers' = [workers EXCEPT ![slot] = w]
      BY <1>7 DEF WorkerDone, FreeSlot
    <3> QED  BY <1>0, <3>1, <3>2, Zenon
  <2>8. fds' \in [Fds -> OpenFile \cup {NULL}] /\ pfds' \in [Slots -> Fds \cup {NoFd}]
    BY <1>0, <1>7, <2>1 DEF WorkerDone, FreeSlot
  <2> QED
    BY <1>0, <1>7, <2>4, <2>5, <2>6, <2>7, <2>8 DEF WorkerDone, processVars
<1>8. ASSUME NEW j \in Jobs, Arrive(j) PROVE TypeOK'
  <2>1. [pid |-> NoPid, job |-> j] \in Task
    BY DEF Task
  <2>2. task_queue' \in TaskList
    BY <1>0, <1>8, <2>1, InsertTaskHolds DEF Arrive
  <2> QED  BY <1>0, <1>8, <2>2 DEF Arrive, slotVars, processVars
<1>9. ASSUME NEW p \in Pids, Write(p) PROVE TypeOK'
  <2> DEFINE out == stdout[p]
             n == IF StdioLines < Len(out) THEN StdioLines ELSE Len(out)
             rest == SubSeq(out, n + 1, Len(out))
             first == SubSeq(out, 1, n)
  <2>1. out \in Seq(Line) /\ pipe[p] \in Seq(Line) /\ Len(out) \in Nat /\ n \in 0 .. Len(out)
    BY <1>0, BoundsAssumption
  <2>2. first \in Seq(Line) /\ rest \in Seq(Line)
    <3>1. \A k \in 1 .. Len(out) : out[k] \in Line
      BY <2>1, ElementOfSeq
    <3> HIDE DEF n
    <3> QED  BY <2>1, <3>1, SubSeqProperties
  <2>3. pipe[p] \o first \in Seq(Line)
    BY <2>1, <2>2, ConcatProperties
  <2>4. /\ pipe' \in {pipe, [pipe EXCEPT ![p] = @ \o first]}
        /\ stdout' \in {[stdout EXCEPT ![p] = rest], [stdout EXCEPT ![p] = << >>]}
        /\ proc' \in {proc, [proc EXCEPT ![p] = "zombie"]}
        /\ sigchld' \in {sigchld, TRUE}
    BY <1>9 DEF Write
  <2> HIDE DEF first, rest
  <2>5. pipe' \in [Pids -> Seq(Line)] /\ stdout' \in [Pids -> Seq(Line)]
    <3>1. [pipe EXCEPT ![p] = @ \o first] \in [Pids -> Seq(Line)]
      BY <1>0, <2>3
    <3>2. [stdout EXCEPT ![p] = rest] \in [Pids -> Seq(Line)]
      BY <1>0, <2>2
    <3>3. [stdout EXCEPT ![p] = << >>] \in [Pids -> Seq(Line)]
      BY <1>0
    <3> QED  BY <1>0, <2>4, <3>1, <3>2, <3>3
  <2>6. proc' \in [Pids -> ProcessStates] /\ sigchld' \in BOOLEAN
    BY <1>0, <2>4 DEF ProcessStates
  <2> QED  BY <1>0, <1>9, <2>5, <2>6 DEF Write, queueVars, slotVars
<1>10. ASSUME NEW p \in Pids, Exit(p) PROVE TypeOK'
  BY <1>0, <1>10 DEF Exit, queueVars, slotVars, ProcessStates
<1>11. ASSUME sigchld_handler PROVE TypeOK'
  <2>1. \A i \in Slots : [workers[i] EXCEPT !.finished = 1] \in Worker
    BY <1>0, WorkerUpdates, Zenon
  <2>2. workers' \in [Slots -> Worker]
    BY <1>0, <1>11, <2>1 DEF sigchld_handler
  <2>3. proc' \in [Pids -> ProcessStates]
    BY <1>0, <1>11 DEF sigchld_handler, ProcessStates
  <2> QED  BY <1>0, <1>11, <2>2, <2>3, Zenon DEF sigchld_handler, queueVars
<1>12. ASSUME UNCHANGED vars PROVE TypeOK'
  BY <1>0, <1>12 DEF vars, queueVars, slotVars, processVars
<1> QED
  BY <1>1, <1>2, <1>3, <1>4, <1>5, <1>6, <1>7, <1>8, <1>9, <1>10, <1>11, <1>12
  DEF Next, MainThread, WorkerStep, Quiet

-----------------------------------------------------------------------------
(***************************************************************************)
(* The rest of the invariant.  What a step does to the slots is stated     *)
(* first; the other lemmas argue from that, one step per action.           *)
(***************************************************************************)

(* The fields of slot k that the invariant is about.                       *)
SamePid(k) == workers'[k].pid = workers[k].pid
SameFinished(k) == workers'[k].finished = workers[k].finished
SameFd(k) == workers'[k].from_child = workers[k].from_child
SameSlots == \A k \in Slots : SamePid(k) /\ SameFinished(k) /\ SameFd(k)

(* The actions that leave the slots, and what says which are busy, alone.  *)
LeavesSlots ==
  \/ PipeFails \/ StopStarting \/ Poll \/ WorkerNotDone \/ AllAnswered \/ InputHandled
  \/ \E j \in Jobs : Arrive(j)
  \/ \E p \in Pids : WorkerStep(p)
  \/ UNCHANGED vars

LEMMA StepsOfNext ==
  [Next]_vars =>
    \/ \E i \in Slots : Fork(i)
    \/ \E i \in Slots : ReadReport(i)
    \/ RecordPid \/ AssignTask \/ WorkerDone \/ sigchld_handler \/ LeavesSlots
BY DEF Next, MainThread, LeavesSlots, Quiet

LEMMA LeavesSlotsUnchanged ==
  LeavesSlots => UNCHANGED <<workers, active_workers, pfds, forks, assigned_tasks, completed>>
BY DEF LeavesSlots, PipeFails, StopStarting, Poll, WorkerNotDone, AllAnswered, InputHandled,
       Arrive, WorkerStep, Write, Exit, vars, queueVars, slotVars, processVars

(* What each action does to the fields of the slots.                       *)
LEMMA SlotEffects ==
  ASSUME TypeOK
  PROVE  /\ \A i \in Slots : Fork(i) =>
              /\ \A k \in Slots : SamePid(k) /\ SameFinished(k)
              /\ \A k \in Slots \ {i} : SameFd(k)
              /\ workers'[i].from_child \in Fds
         /\ \A i \in Slots : ReadReport(i) => SameSlots
         /\ RecordPid =>
              /\ \A k \in Slots : SameFinished(k) /\ SameFd(k)
              /\ \A k \in Slots \ {slot} : SamePid(k)
              /\ workers'[slot].pid = forks
         /\ AssignTask =>
              /\ \A k \in Slots : SamePid(k) /\ SameFd(k)
              /\ \A k \in Slots \ {slot} : SameFinished(k)
              /\ workers'[slot].finished = 0
         /\ WorkerDone =>
              /\ \A k \in Slots \ {slot} : SamePid(k) /\ SameFd(k) /\ SameFinished(k)
              /\ workers'[slot].pid = NoPid /\ workers'[slot].finished = 0
         /\ sigchld_handler =>
              \A k \in Slots :
                /\ SamePid(k) /\ SameFd(k)
                /\ \/ SameFinished(k)
                   \/ workers[k].pid # NoPid /\ proc[workers[k].pid] = "zombie"
<1> USE DEF TypeOK, SamePid, SameFd, SameFinished, SameSlots
<1>0. /\ workers \in [Slots -> Worker] /\ slot \in Slots
      /\ \A k \in Slots : workers[k] = [pid |-> workers[k].pid,
           from_child |-> workers[k].from_child, finished |-> workers[k].finished,
           lines_recieved |-> workers[k].lines_recieved, errors |-> workers[k].errors]
  BY DEF Worker
<1>1. ASSUME NEW i \in Slots, Fork(i)
      PROVE  /\ \A k \in Slots : SamePid(k) /\ SameFinished(k)
             /\ \A k \in Slots \ {i} : SameFd(k)
             /\ workers'[i].from_child \in Fds
  <2>1. PICK from \in Fds : workers' = [workers EXCEPT ![i].from_child = from]
    BY <1>1 DEF Fork, FreeFds
  <2> QED  BY <1>0, <2>1 DEF Worker
<1>2. ASSUME NEW i \in Slots, ReadReport(i) PROVE SameSlots
  <2> DEFINE lines == pipe[fds[workers[i].from_child].pid]
             before == workers[i].lines_recieved
             read == before + LinesRead(before, lines)
             errors == workers[i].errors + ErrorsRead(before, lines)
             w == [workers[i] EXCEPT !.lines_recieved = read, !.errors = errors]
  <2>1. workers' = workers \/ workers' = [workers EXCEPT ![i] = w]
    BY <1>2 DEF ReadReport
  <2> HIDE DEF read, errors
  <2>2. w.pid = workers[i].pid /\ w.from_child = workers[i].from_child
        /\ w.finished = workers[i].finished
    BY <1>0 DEF Worker
  <2> HIDE DEF w
  <2> QED  BY <1>0, <2>1, <2>2
<1>3. ASSUME RecordPid
      PROVE  /\ \A k \in Slots : SameFinished(k) /\ SameFd(k)
             /\ \A k \in Slots \ {slot} : SamePid(k)
             /\ workers'[slot].pid = forks
  BY <1>0, <1>3 DEF RecordPid, Worker
<1>4. ASSUME AssignTask
      PROVE  /\ \A k \in Slots : SamePid(k) /\ SameFd(k)
             /\ \A k \in Slots \ {slot} : SameFinished(k)
             /\ workers'[slot].finished = 0
  <2>1. workers' = [workers EXCEPT ![slot] =
          [workers[slot] EXCEPT !.finished = 0, !.errors = 0, !.lines_recieved = 0]]
    BY <1>4 DEF AssignTask
  <2> QED  BY <1>0, <2>1 DEF Worker
<1>5. ASSUME WorkerDone
      PROVE  /\ \A k \in Slots \ {slot} : SamePid(k) /\ SameFd(k) /\ SameFinished(k)
             /\ workers'[slot].pid = NoPid /\ workers'[slot].finished = 0
  <2>1. workers' = [workers EXCEPT ![slot] =
          [workers[slot] EXCEPT !.finished = 0, !.pid = NoPid]]
    BY <1>5 DEF WorkerDone, FreeSlot
  <2> QED  BY <1>0, <2>1 DEF Worker
<1>6. ASSUME sigchld_handler, NEW k \in Slots
      PROVE  /\ SamePid(k) /\ SameFd(k)
             /\ \/ SameFinished(k)
                \/ workers[k].pid # NoPid /\ proc[workers[k].pid] = "zombie"
  BY <1>0, <1>6 DEF sigchld_handler, Worker
<1> QED  BY <1>1, <1>2, <1>3, <1>4, <1>5, <1>6

(* Only RecordPid makes a slot busy and only WorkerDone makes it free.     *)
LEMMA BusyEffects ==
  ASSUME TypeOK, ProgramOK
  PROVE  /\ \A i \in Slots : Fork(i) \/ ReadReport(i) => Busy' = Busy
         /\ RecordPid => slot \notin Busy /\ Busy' = Busy \cup {slot}
         /\ AssignTask \/ sigchld_handler \/ LeavesSlots => Busy' = Busy
         /\ WorkerDone => slot \in Busy /\ Busy' = Busy \ {slot}
<1> USE DEF Busy, SamePid
<1>1. ASSUME NEW i \in Slots, Fork(i) \/ ReadReport(i) PROVE Busy' = Busy
  <2>1. \A k \in Slots : SamePid(k)
    BY <1>1, SlotEffects DEF SameSlots
  <2> QED  BY <2>1
<1>2. ASSUME RecordPid PROVE slot \notin Busy /\ Busy' = Busy \cup {slot}
  <2>1. slot \in Slots /\ slot \notin Busy /\ forks # NoPid
    BY <1>2 DEF RecordPid, ProgramOK, ForkedOK, TypeOK
  <2>2. workers'[slot].pid = forks /\ \A k \in Slots \ {slot} : SamePid(k)
    BY <1>2, SlotEffects
  <2> QED  BY <2>1, <2>2
<1>3. ASSUME AssignTask \/ sigchld_handler PROVE Busy' = Busy
  <2>1. \A k \in Slots : SamePid(k)
    BY <1>3, SlotEffects
  <2> QED  BY <2>1
<1>4. ASSUME LeavesSlots PROVE Busy' = Busy
  BY <1>4, LeavesSlotsUnchanged
<1>5. ASSUME WorkerDone PROVE slot \in Busy /\ Busy' = Busy \ {slot}
  <2>1. slot \in Busy
    BY <1>5 DEF WorkerDone, ProgramOK
  <2>2. workers'[slot].pid = NoPid /\ \A k \in Slots \ {slot} : SamePid(k)
    BY <1>5, SlotEffects
  <2> QED  BY <2>1, <2>2
<1> QED  BY <1>1, <1>2, <1>3, <1>4, <1>5

(* The slots, the counter and the poll set go on agreeing.                 *)
LEMMA SlotsStep == IInv /\ [Next]_vars => SlotsOK'
<1> SUFFICES ASSUME IInv, [Next]_vars PROVE SlotsOK'
  OBVIOUS
<1>0. TypeOK /\ SlotsOK /\ ProgramOK
  BY DEF IInv
<1>a. slot \in Slots /\ forks \in Nat /\ Busy \subseteq Slots
  BY <1>0, BoundsAssumption DEF TypeOK, Busy
<1> USE DEF SlotsOK, SamePid, SameFd, SameFinished
<1>1. ASSUME NEW i \in Slots, Fork(i) PROVE SlotsOK'
  <2>1. /\ \A k \in Slots : SamePid(k) /\ SameFinished(k)
        /\ \A k \in Slots \ {i} : SameFd(k)
        /\ workers'[i].from_child \in Fds
        /\ Busy' = Busy
    BY <1>0, <1>1, SlotEffects, BusyEffects
  <2>2. forks' = forks + 1 /\ UNCHANGED <<active_workers, pfds, revents>>
    BY <1>1 DEF Fork
  <2>3. \A k \in Busy : workers[k].pid <= forks'
    <3>1. \A k \in Busy : workers[k].pid \in Nat
      BY <1>0 DEF Busy, TypeOK, Worker
    <3> QED  BY <1>0, <1>a, <2>2, <3>1
  <2> QED  BY <1>0, <1>a, <2>1, <2>2, <2>3
<1>2. ASSUME RecordPid PROVE SlotsOK'
  <2>1. /\ \A k \in Slots : SameFinished(k) /\ SameFd(k)
        /\ \A k \in Slots \ {slot} : SamePid(k)
        /\ workers'[slot].pid = forks
        /\ slot \notin Busy /\ Busy' = Busy \cup {slot}
    BY <1>0, <1>2, SlotEffects, BusyEffects
  <2>2. workers[slot].from_child \in Fds /\ \A k \in Busy : workers[k].pid # forks
    BY <1>0, <1>2 DEF RecordPid, ProgramOK, ForkedOK
  <2>3. /\ active_workers' = active_workers + 1 /\ UNCHANGED <<forks, revents>>
        /\ \A k \in Slots \ {slot} : pfds'[k] = pfds[k]
    BY <1>0, <1>2 DEF RecordPid, processVars, TypeOK
  <2>4. active_workers' = Cardinality(Busy')
    BY <1>0, <2>1, <2>3, SlotsFinite, FS_AddElement
  <2> QED  BY <1>0, <1>a, <2>1, <2>2, <2>3, <2>4
<1>3. ASSUME AssignTask PROVE SlotsOK'
  <2>1. /\ \A k \in Slots : SamePid(k) /\ SameFd(k)
        /\ \A k \in Slots \ {slot} : SameFinished(k)
        /\ workers'[slot].finished = 0
        /\ Busy' = Busy
    BY <1>0, <1>3, SlotEffects, BusyEffects
  <2>2. UNCHANGED <<forks, active_workers, pfds, revents>>
    BY <1>3 DEF AssignTask, processVars
  <2> QED  BY <1>0, <1>a, <2>1, <2>2
<1>4. ASSUME NEW i \in Slots, ReadReport(i) PROVE SlotsOK'
  <2>1. SameSlots /\ Busy' = Busy
    BY <1>0, <1>4, SlotEffects, BusyEffects
  <2>2. UNCHANGED <<forks, active_workers, pfds>> /\ revents' \subseteq revents
    BY <1>4 DEF ReadReport
  <2> QED  BY <1>0, <1>a, <2>1, <2>2 DEF SameSlots
<1>5. ASSUME WorkerDone PROVE SlotsOK'
  <2>1. /\ \A k \in Slots \ {slot} : SamePid(k) /\ SameFd(k) /\ SameFinished(k)
        /\ workers'[slot].finished = 0
        /\ slot \in Busy /\ Busy' = Busy \ {slot}
    BY <1>0, <1>5, SlotEffects, BusyEffects
  <2>2. slot \notin revents
    BY <1>0, <1>5 DEF WorkerDone, ProgramOK
  <2>3. /\ active_workers' = active_workers - 1 /\ UNCHANGED <<forks, revents>>
        /\ pfds'[slot] = NoFd /\ \A k \in Slots \ {slot} : pfds'[k] = pfds[k]
    BY <1>0, <1>5 DEF WorkerDone, FreeSlot, processVars, TypeOK
  <2>4. active_workers' = Cardinality(Busy')
    BY <1>0, <2>1, <2>3, SlotsFinite, FS_RemoveElement
  <2> QED  BY <1>0, <1>a, <2>1, <2>2, <2>3, <2>4
<1>6. ASSUME sigchld_handler PROVE SlotsOK'
  <2>1. /\ Busy' = Busy
        /\ \A k \in Slots : SamePid(k) /\ SameFd(k) /\ (k \notin Busy => SameFinished(k))
    BY <1>0, <1>6, SlotEffects, BusyEffects DEF Busy
  <2>2. UNCHANGED <<forks, active_workers, pfds, revents>>
    BY <1>6 DEF sigchld_handler
  <2> QED  BY <1>0, <1>a, <2>1, <2>2
<1>7. ASSUME LeavesSlots PROVE SlotsOK'
  <2>1. Busy' = Busy /\ UNCHANGED <<workers, forks, active_workers, pfds>>
    BY <1>0, <1>7, BusyEffects, LeavesSlotsUnchanged
  <2>2. revents' \subseteq Busy
    <3>1. CASE Poll
      BY <1>0, <3>1 DEF Poll, PollReports
    <3>2. CASE ~Poll
      BY <1>0, <1>7, <3>2 DEF LeavesSlots, PipeFails, StopStarting, WorkerNotDone,
         AllAnswered, InputHandled, Arrive, WorkerStep, Write, Exit, vars
    <3> QED  BY <3>1, <3>2
  <2> QED  BY <1>0, <2>1, <2>2
<1> QED  BY <1>1, <1>2, <1>3, <1>4, <1>5, <1>6, <1>7, StepsOfNext

(* What main knows at each pc survives its own steps, the handler's and    *)
(* the workers'.                                                           *)
LEMMA ProgramStep == IInv /\ [Next]_vars => ProgramOK'
<1> SUFFICES ASSUME IInv, [Next]_vars PROVE ProgramOK'
  OBVIOUS
<1>0. TypeOK /\ SlotsOK /\ ProgramOK
  BY DEF IInv
<1>a. slot \in Slots /\ forks \in Nat /\ Busy \subseteq Slots
      /\ \A k \in Busy : workers[k].pid \in Nat
  <2>1. slot \in Slots /\ forks \in Nat /\ Busy \subseteq Slots
    BY <1>0, BoundsAssumption DEF TypeOK, Busy
  <2>2. \A k \in Busy : workers[k].pid \in Nat
    BY <1>0 DEF TypeOK, Busy, Worker
  <2> QED  BY <2>1, <2>2
<1> USE DEF ProgramOK, ForkedOK, SamePid, SameFd
<1>1. ASSUME NEW i \in Slots, Fork(i) PROVE ProgramOK'
  <2>1. /\ \A k \in Slots : SamePid(k)
        /\ workers'[i].from_child \in Fds
        /\ Busy' = Busy
    BY <1>0, <1>1, SlotEffects, BusyEffects
  <2>2. /\ pc' = "forked" /\ slot' = i /\ task_queue' = task_queue
        /\ i \notin Busy /\ task_queue.count # 0
    BY <1>1 DEF Fork, FirstFree, MoreToStart, numOfTasks, queueVars, Busy
  <2>3. forks' = forks + 1 /\ forks' \in Pids
    BY <1>0, <1>1, BoundsAssumption DEF Fork, TypeOK, Pids
  <2>4. \A k \in Busy : workers[k].pid # forks'
    BY <1>0, <1>a, <2>3 DEF SlotsOK
  <2> QED  BY <1>a, <2>1, <2>2, <2>3, <2>4
<1>2. ASSUME RecordPid PROVE ProgramOK'
  <2>1. workers'[slot].pid = forks /\ slot \notin Busy /\ Busy' = Busy \cup {slot}
    BY <1>0, <1>2, SlotEffects, BusyEffects
  <2>2. pc' = "spawned" /\ UNCHANGED <<slot, task_queue, forks>> /\ task_queue.count # 0
    BY <1>0, <1>2 DEF RecordPid, queueVars, processVars
  <2> QED  BY <2>1, <2>2
<1>3. ASSUME AssignTask PROVE ProgramOK'
  BY <1>3 DEF AssignTask
<1>4. ASSUME NEW i \in Slots, ReadReport(i) PROVE ProgramOK'
  <2>1. Busy' = Busy
    BY <1>0, <1>4, BusyEffects
  <2>2. pc' = "check" /\ slot' = i /\ revents' = revents \ {i} /\ i \in Busy
    BY <1>0, <1>4 DEF ReadReport, SlotsOK
  <2> QED  BY <2>1, <2>2
<1>5. ASSUME WorkerDone PROVE ProgramOK'
  BY <1>5 DEF WorkerDone
<1>6. ASSUME sigchld_handler PROVE ProgramOK'
  <2>1. Busy' = Busy /\ \A k \in Slots : SamePid(k) /\ SameFd(k)
    BY <1>0, <1>6, SlotEffects, BusyEffects
  <2>2. UNCHANGED <<pc, slot, revents, forks, task_queue>>
    BY <1>6 DEF sigchld_handler, queueVars
  <2> QED  BY <1>0, <1>a, <2>1, <2>2
<1>7. ASSUME LeavesSlots PROVE ProgramOK'
  <2>1. Busy' = Busy /\ UNCHANGED <<workers, forks>>
    BY <1>0, <1>7, BusyEffects, LeavesSlotsUnchanged
  <2>2. \/ pc' \notin {"forked", "spawned", "check"}
        \/ UNCHANGED <<pc, slot, revents, task_queue>>
    BY <1>7 DEF LeavesSlots, PipeFails, StopStarting, Poll, WorkerNotDone, AllAnswered,
       InputHandled, Arrive, WorkerStep, Write, Exit, vars, queueVars
  <2> QED  BY <1>0, <2>1, <2>2
<1> QED  BY <1>1, <1>2, <1>3, <1>4, <1>5, <1>6, <1>7, StepsOfNext

(* The tasks of the busy slots stay in assigned_tasks.                     *)
LEMMA TasksStep == IInv /\ [Next]_vars => TasksOK'
<1> SUFFICES ASSUME IInv, [Next]_vars PROVE TasksOK'
  OBVIOUS
<1>0. TypeOK /\ SlotsOK /\ ProgramOK /\ TasksOK
  BY DEF IInv
<1>a. slot \in Slots /\ Busy \subseteq Slots
      /\ task_queue \in QueueOf(Task) /\ assigned_tasks \in QueueOf(Task)
      /\ \A k \in Busy : workers[k].pid \in Pids
  BY <1>0 DEF TypeOK, Busy, Worker
<1> USE DEF TasksOK, SamePid
<1>1. ASSUME NEW i \in Slots, Fork(i) PROVE TasksOK'
  <2>1. Busy' = Busy /\ \A k \in Slots : SamePid(k)
    BY <1>0, <1>1, SlotEffects, BusyEffects
  <2>2. pc = "try" /\ UNCHANGED <<task_queue, assigned_tasks>>
    BY <1>1 DEF Fork, queueVars
  <2> QED  BY <1>0, <1>a, <2>1, <2>2
<1>2. ASSUME RecordPid PROVE TasksOK'
  <2>1. Busy' = Busy \cup {slot} /\ \A k \in Slots \ {slot} : SamePid(k)
    BY <1>0, <1>2, SlotEffects, BusyEffects
  <2>2. pc = "forked" /\ pc' = "spawned" /\ UNCHANGED <<slot, task_queue, assigned_tasks>>
    BY <1>2 DEF RecordPid, queueVars
  <2> QED  BY <1>0, <1>a, <2>1, <2>2
<1>3. ASSUME AssignTask PROVE TasksOK'
  <2>1. Busy' = Busy /\ \A k \in Slots : SamePid(k)
    BY <1>0, <1>3, SlotEffects, BusyEffects
  <2>2. slot \in Busy /\ task_queue.count # 0
    BY <1>0, <1>3 DEF AssignTask, ProgramOK
  <2> DEFINE task == [readTask(task_queue) EXCEPT !.pid = workers[slot].pid]
  <2>3. task \in Task /\ task.pid = workers[slot].pid
    <3>1. readTask(task_queue) \in Task
      BY <1>0, <1>a, <2>2, ReadTaskFound
    <3> QED  BY <1>a, <2>2, <3>1 DEF Task
  <2>4. assigned_tasks' = insertTask(assigned_tasks, task)
        /\ task_queue' = extractTask(task_queue)
    BY <1>3 DEF AssignTask
  <2> HIDE DEF task
  <2>5. \A pid : HoldsPid(assigned_tasks', pid)
                   <=> HoldsPid(assigned_tasks, pid) \/ task.pid = pid
    BY <1>a, <2>3, <2>4, InsertTaskHolds
  <2>6. task_queue'.count = Len(task_queue'.items)
    BY <1>0, <1>a, <2>4, ExtractTaskCount
  <2> QED  BY <1>0, <1>a, <2>1, <2>3, <2>5, <2>6
<1>4. ASSUME NEW i \in Slots, ReadReport(i) PROVE TasksOK'
  <2>1. Busy' = Busy /\ \A k \in Slots : SamePid(k)
    BY <1>0, <1>4, SlotEffects, BusyEffects DEF SameSlots
  <2>2. pc = "respond" /\ UNCHANGED <<task_queue, assigned_tasks>>
    BY <1>4 DEF ReadReport, queueVars
  <2> QED  BY <1>0, <1>a, <2>1, <2>2
<1>5. ASSUME WorkerDone PROVE TasksOK'
  <2>1. /\ slot \in Busy /\ Busy' = Busy \ {slot}
        /\ \A k \in Slots \ {slot} : SamePid(k)
    BY <1>0, <1>5, SlotEffects, BusyEffects
  <2>2. /\ pc = "check" /\ task_queue' = task_queue
        /\ assigned_tasks' = extractTaskByPid(assigned_tasks, workers[slot].pid)
    BY <1>5 DEF WorkerDone, CompleteTask
  <2>3. \A other : other # workers[slot].pid /\ HoldsPid(assigned_tasks, other)
                     => HoldsPid(assigned_tasks', other)
    BY <1>a, <2>2, ExtractTaskByPidOthers
  <2>4. \A k \in Busy \ {slot} : workers[k].pid # workers[slot].pid
    BY <1>0, <2>1 DEF SlotsOK
  <2> QED  BY <1>0, <1>a, <2>1, <2>2, <2>3, <2>4
<1>6. ASSUME sigchld_handler PROVE TasksOK'
  <2>1. Busy' = Busy /\ \A k \in Slots : SamePid(k)
    BY <1>0, <1>6, SlotEffects, BusyEffects
  <2>2. UNCHANGED <<pc, slot, task_queue, assigned_tasks>>
    BY <1>6 DEF sigchld_handler, queueVars
  <2> QED  BY <1>0, <1>a, <2>1, <2>2
<1>7. ASSUME LeavesSlots PROVE TasksOK'
  <2>1. Busy' = Busy /\ UNCHANGED <<workers, assigned_tasks>>
    BY <1>0, <1>7, BusyEffects, LeavesSlotsUnchanged
  <2>2. pc # "spawned" \/ UNCHANGED <<pc, slot>>
    BY <1>7 DEF LeavesSlots, PipeFails, StopStarting, Poll, WorkerNotDone, AllAnswered,
       InputHandled, Arrive, WorkerStep, Write, Exit, vars
  <2>3. task_queue'.count = Len(task_queue'.items)
    <3>1. CASE \E j \in Jobs : Arrive(j)
      <4>1. PICK j \in Jobs : Arrive(j)
        BY <3>1
      <4>2. [pid |-> NoPid, job |-> j] \in Task
        BY DEF Task
      <4>3. Len(task_queue'.items) = Len(task_queue.items) + 1
        BY <1>a, <4>1, <4>2, InsertTaskHolds DEF Arrive
      <4>4. task_queue'.count = task_queue.count + 1
        BY <4>1 DEF Arrive, insertTask
      <4> QED  BY <1>0, <4>3, <4>4
    <3>2. CASE ~ \E j \in Jobs : Arrive(j)
      <4>1. task_queue' = task_queue
        BY <1>7, <3>2 DEF LeavesSlots, PipeFails, StopStarting, Poll, WorkerNotDone,
           AllAnswered, InputHandled, WorkerStep, Write, Exit, vars, queueVars
      <4> QED  BY <1>0, <4>1
    <3> QED  BY <3>1, <3>2
  <2> QED  BY <1>0, <2>1, <2>2, <2>3
<1> QED  BY <1>1, <1>2, <1>3, <1>4, <1>5, <1>6, <1>7, StepsOfNext

(* Whatever happens to a process, it keeps its slot until it is reaped and *)
(* the handler has marked the slot.                                        *)
LEMMA ProcessesStep == IInv /\ [Next]_vars => ProcessesOK'
<1> SUFFICES ASSUME IInv, [Next]_vars PROVE ProcessesOK'
  OBVIOUS
<1>0. TypeOK /\ SlotsOK /\ ProgramOK /\ ProcessesOK
  BY DEF IInv
<1>a. /\ slot \in Slots /\ forks \in Nat /\ Busy \subseteq Slots
      /\ proc \in [Pids -> ProcessStates]
  BY <1>0, BoundsAssumption DEF TypeOK, Busy
<1>b. \A k \in Busy : workers[k].pid \in Pids
  BY <1>0 DEF TypeOK, Busy, Worker
<1> USE DEF ProcessesOK, LiveWorkers, SamePid, SameFinished
<1>1. ASSUME NEW i \in Slots, Fork(i) PROVE ProcessesOK'
  <2>1. Busy' = Busy /\ \A k \in Slots : SamePid(k) /\ SameFinished(k)
    BY <1>0, <1>1, SlotEffects, BusyEffects
  <2>2. /\ pc = "try" /\ pc' = "forked" /\ forks' = forks + 1
        /\ proc' = [proc EXCEPT ![forks'] = "running"]
    BY <1>1 DEF Fork
  <2>3. \A k \in Busy : workers[k].pid # forks'
    BY <1>0, <1>a, <1>b, <2>2 DEF SlotsOK
  <2>4. \A p \in Pids : p # forks' => proc'[p] = proc[p]
    BY <1>a, <2>2
  <2>5. \A p \in Pids : p > forks' => p > forks /\ p # forks'
    BY <1>a, <2>2
  <2>6. \A k \in Busy : workers'[k].finished = 1 => proc'[workers'[k].pid] = "reaped"
    <3> SUFFICES ASSUME NEW k \in Busy, workers'[k].finished = 1
                 PROVE  proc'[workers'[k].pid] = "reaped"
      OBVIOUS
    <3>1. workers'[k].pid = workers[k].pid /\ workers[k].finished = 1
      BY <1>a, <2>1
    <3>2. proc[workers[k].pid] = "reaped"
      BY <1>0, <3>1
    <3> QED  BY <1>b, <2>3, <2>4, <3>1, <3>2
  <2>7. ASSUME NEW p \in Pids, proc'[p] \in {"running", "zombie"}, p # forks'
        PROVE  \E k \in Busy' : workers'[k].pid = p
    <3>1. PICK k \in Busy : workers[k].pid = p
      BY <1>0, <2>2, <2>4, <2>7
    <3> QED  BY <1>a, <2>1, <3>1
  <2>8. \A p \in Pids : p > forks' => proc'[p] = "unborn"
    BY <1>0, <2>4, <2>5
  <2> QED  BY <2>1, <2>2, <2>6, <2>7, <2>8
<1>2. ASSUME RecordPid PROVE ProcessesOK'
  <2>1. /\ Busy' = Busy \cup {slot} /\ slot \notin Busy /\ workers'[slot].pid = forks
        /\ \A k \in Slots \ {slot} : SamePid(k)
        /\ \A k \in Slots : SameFinished(k)
    BY <1>0, <1>2, SlotEffects, BusyEffects
  <2>2. pc = "forked" /\ UNCHANGED <<forks, proc>>
    BY <1>2 DEF RecordPid, processVars
  <2>3. workers[slot].finished = 0
    BY <1>0, <1>a, <2>1 DEF SlotsOK
  <2> QED  BY <1>0, <1>a, <2>1, <2>2, <2>3
<1>3. ASSUME AssignTask PROVE ProcessesOK'
  <2>1. /\ Busy' = Busy /\ \A k \in Slots : SamePid(k)
        /\ \A k \in Slots \ {slot} : SameFinished(k)
        /\ workers'[slot].finished = 0
    BY <1>0, <1>3, SlotEffects, BusyEffects
  <2>2. pc = "spawned" /\ UNCHANGED <<forks, proc>>
    BY <1>3 DEF AssignTask, processVars
  <2> QED  BY <1>0, <1>a, <2>1, <2>2
<1>4. ASSUME NEW i \in Slots, ReadReport(i) PROVE ProcessesOK'
  <2>1. Busy' = Busy /\ \A k \in Slots : SamePid(k) /\ SameFinished(k)
    BY <1>0, <1>4, SlotEffects, BusyEffects DEF SameSlots
  <2>2. pc = "respond" /\ UNCHANGED <<forks, proc>>
    BY <1>4 DEF ReadReport
  <2> QED  BY <1>0, <1>a, <2>1, <2>2
<1>5. ASSUME WorkerDone PROVE ProcessesOK'
  <2>1. /\ slot \in Busy /\ Busy' = Busy \ {slot}
        /\ \A k \in Slots \ {slot} : SamePid(k) /\ SameFinished(k)
    BY <1>0, <1>5, SlotEffects, BusyEffects
  <2>2. pc = "check" /\ UNCHANGED <<forks, proc>> /\ workers[slot].finished = 1
    BY <1>5 DEF WorkerDone, processVars
  <2>3. proc[workers[slot].pid] = "reaped"
    BY <1>0, <2>1, <2>2
  <2> QED  BY <1>0, <1>a, <2>1, <2>2, <2>3
<1>6. ASSUME sigchld_handler PROVE ProcessesOK'
  <2>1. /\ Busy' = Busy /\ \A k \in Slots : SamePid(k)
        /\ \A k \in Busy : SameFinished(k) \/ proc[workers[k].pid] = "zombie"
    BY <1>0, <1>a, <1>6, SlotEffects, BusyEffects
  <2>2. /\ UNCHANGED <<pc, forks>>
        /\ \A p \in Pids : proc'[p] = IF proc[p] = "zombie" THEN "reaped" ELSE proc[p]
    BY <1>6 DEF sigchld_handler
  <2>3. \A k \in Busy : workers'[k].finished = 1 => proc'[workers'[k].pid] = "reaped"
    BY <1>0, <1>a, <1>b, <2>1, <2>2
  <2>4. ASSUME NEW p \in Pids, proc'[p] \in {"running", "zombie"}
        PROVE  (\E k \in Busy' : workers'[k].pid = p) \/ (pc' = "forked" /\ p = forks')
    <3>1. proc[p] \in {"running", "zombie"}
      BY <2>2, <2>4
    <3>2. (\E k \in Busy : workers[k].pid = p) \/ (pc = "forked" /\ p = forks)
      BY <1>0, <3>1
    <3> QED  BY <1>a, <2>1, <2>2, <3>2
  <2>5. \A p \in Pids : p > forks' => proc'[p] = "unborn"
    BY <1>0, <2>2
  <2> QED  BY <2>1, <2>3, <2>4, <2>5
<1>7. ASSUME LeavesSlots PROVE ProcessesOK'
  <2>1. Busy' = Busy /\ UNCHANGED <<workers, forks>>
    BY <1>0, <1>7, BusyEffects, LeavesSlotsUnchanged
  <2>2. pc # "forked" \/ pc' = pc
    BY <1>7 DEF LeavesSlots, PipeFails, StopStarting, Poll, WorkerNotDone, AllAnswered,
       InputHandled, Arrive, WorkerStep, Write, Exit, vars
  <2>3. \/ proc' = proc
        \/ \E p \in Pids : proc[p] = "running" /\ proc' = [proc EXCEPT ![p] = "zombie"]
    BY <1>7 DEF LeavesSlots, PipeFails, StopStarting, Poll, WorkerNotDone, AllAnswered,
       InputHandled, Arrive, WorkerStep, Write, Exit, vars, processVars
  <2>4. CASE proc' = proc
    BY <1>0, <1>a, <2>1, <2>2, <2>4
  <2>5. CASE \E p \in Pids : proc[p] = "running" /\ proc' = [proc EXCEPT ![p] = "zombie"]
    <3>1. PICK p \in Pids : proc[p] = "running" /\ proc' = [proc EXCEPT ![p] = "zombie"]
      BY <2>5
    <3>2. \A q \in Pids : proc'[q] = IF q = p THEN "zombie" ELSE proc[q]
      BY <1>a, <3>1
    <3>3. \A k \in Busy : workers[k].finished = 1 => workers[k].pid # p
      BY <1>0, <3>1
    <3>4. \A k \in Busy : workers[k].finished = 1 => proc'[workers[k].pid] = "reaped"
      BY <1>0, <1>b, <3>2, <3>3
    <3> QED  BY <1>0, <1>a, <2>1, <2>2, <3>1, <3>2, <3>4
  <2> QED  BY <2>3, <2>4, <2>5
<1> QED  BY <1>1, <1>2, <1>3, <1>4, <1>5, <1>6, <1>7, StepsOfNext

(* A completion is recorded on the word of finished alone, and a reaped    *)
(* process stays reaped.                                                   *)
LEMMA CompletedStep == IInv /\ [Next]_vars => CompletedReaped'
<1> SUFFICES ASSUME IInv, [Next]_vars PROVE CompletedReaped'
  OBVIOUS
<1>0. TypeOK /\ ProgramOK /\ TasksOK /\ ProcessesOK /\ CompletedReaped
  BY DEF IInv
<1>a. /\ proc \in [Pids -> ProcessStates] /\ completed \in [Jobs -> Completion \cup {NULL}]
      /\ assigned_tasks \in QueueOf(Task)
  BY <1>0 DEF TypeOK
<1>1. \A p \in Pids : proc[p] = "reaped" => proc'[p] = "reaped"
  <2>1. \/ proc' = proc
        \/ \E p \in Pids : \E s : proc[p] = "running" /\ proc' = [proc EXCEPT ![p] = s]
        \/ \E i \in Slots : Fork(i)
        \/ sigchld_handler
    BY StepsOfNext, Zenon DEF LeavesSlots, PipeFails, StopStarting, Poll, WorkerNotDone, AllAnswered,
       InputHandled, Arrive, WorkerStep, Write, Exit, RecordPid, AssignTask, ReadReport,
       WorkerDone, vars, processVars
  <2>2. ASSUME NEW i \in Slots, Fork(i), NEW p \in Pids, proc[p] = "reaped"
        PROVE  proc'[p] = "reaped"
    <3>1. forks \in Nat /\ forks' = forks + 1 /\ proc' = [proc EXCEPT ![forks'] = "running"]
      BY <1>0, <2>2, BoundsAssumption DEF Fork, TypeOK
    <3>2. p # forks'
      BY <1>0, <2>2, <3>1 DEF ProcessesOK
    <3> QED  BY <1>a, <2>2, <3>1, <3>2
  <2>3. ASSUME sigchld_handler, NEW p \in Pids, proc[p] = "reaped"
        PROVE  proc'[p] = "reaped"
    BY <2>3 DEF sigchld_handler
  <2> QED  BY <1>a, <2>1, <2>2, <2>3, Zenon
<1>2. CASE WorkerDone
  <2> DEFINE pid == workers[slot].pid
             task == readTaskByPid(assigned_tasks, pid)
             done == [pid |-> pid, errors |-> workers[slot].errors]
  <2>1. slot \in Busy /\ workers[slot].finished = 1 /\ pid \in Pids
    BY <1>0, <1>2 DEF WorkerDone, ProgramOK, Busy, TypeOK, Worker
  <2>2. proc[pid] = "reaped"
    BY <1>0, <2>1 DEF ProcessesOK
  <2>3. completed' = completed \/ completed' = [completed EXCEPT ![task.job] = done]
    BY <1>2 DEF WorkerDone, CompleteTask
  <2> HIDE DEF task
  <2>4. \A j \in Jobs : completed'[j] = completed[j] \/ completed'[j].pid = pid
    BY <1>a, <2>3
  <2>5. \A j \in Jobs : completed[j] # NULL => completed[j].pid \in Pids
    BY <1>a DEF Completion
  <2> QED  BY <1>0, <1>1, <2>1, <2>2, <2>4, <2>5 DEF CompletedReaped
<1>3. CASE ~WorkerDone
  <2>1. completed' = completed
    BY <1>3, StepsOfNext, LeavesSlotsUnchanged, Zenon DEF Fork, ReadReport, RecordPid, AssignTask,
       sigchld_handler, queueVars
  <2>2. \A j \in Jobs : completed[j] # NULL => completed[j].pid \in Pids
    BY <1>a DEF Completion
  <2> QED  BY <1>0, <1>1, <2>1, <2>2, Zenon DEF CompletedReaped
<1> QED  BY <1>2, <1>3

-----------------------------------------------------------------------------
(***************************************************************************)
(* What follows from the invariant.                                        *)
(***************************************************************************)

(* Every live worker has a slot of its own, the one the main thread is     *)
(* filling included.                                                       *)
LEMMA LiveWorkersFit == IInv => LiveWorkersBounded
<1> SUFFICES ASSUME IInv PROVE LiveWorkersBounded
  OBVIOUS
<1> DEFINE used == IF pc = "forked" THEN Busy \cup {slot} ELSE Busy
           pidOf(i) == IF pc = "forked" /\ i = slot THEN forks ELSE workers[i].pid
           image == {pidOf(i) : i \in used}
<1>1. /\ slot \in Slots
      /\ pc = "forked" => slot \notin Busy
      /\ \A p \in LiveWorkers :
           (\E i \in Busy : workers[i].pid = p) \/ (pc = "forked" /\ p = forks)
  BY DEF IInv, TypeOK, ProgramOK, ForkedOK, ProcessesOK
<1>2. used \in SUBSET Slots
  BY <1>1, SlotsFinite
<1>3. IsFiniteSet(used) /\ Cardinality(used) <= WorkerLimit /\ Cardinality(used) \in Nat
  BY <1>2, SlotsFinite, FS_Subset, FS_CardinalityType
<1>4. LiveWorkers \in SUBSET image
  <2>1. ASSUME NEW p \in LiveWorkers PROVE \E i \in used : pidOf(i) = p
    <3>1. CASE \E i \in Busy : workers[i].pid = p
      BY <1>1, <3>1
    <3>2. CASE pc = "forked" /\ p = forks
      BY <3>2
    <3> QED  BY <1>1, <2>1, <3>1, <3>2
  <2> QED  BY <2>1
<1> HIDE DEF used, pidOf
<1>5. IsFiniteSet(image) /\ Cardinality(image) <= Cardinality(used)
  <2> DEFINE f == [i \in used |-> pidOf(i)]
  <2>1. f \in Surjection(used, image)
    BY DEF Surjection
  <2> QED  BY <1>3, <2>1, FS_Surjection
<1> HIDE DEF image
<1>6. /\ Cardinality(LiveWorkers) <= Cardinality(image)
      /\ Cardinality(LiveWorkers) \in Nat /\ Cardinality(image) \in Nat
  BY <1>4, <1>5, FS_Subset, FS_CardinalityType
<1> QED
  BY <1>3, <1>5, <1>6, WorkerLimitAssumption DEF LiveWorkersBounded

(* The counter counts the busy slots, so below the limit one is free.      *)
LEMMA FreeSlotExists == IInv => SlotAvailable
<1> SUFFICES ASSUME IInv, active_workers < WorkerLimit
             PROVE  \E i \in Slots : workers[i].pid = NoPid
  BY DEF SlotAvailable
<1>1. active_workers = Cardinality(Busy)
  BY DEF IInv, SlotsOK
<1>2. Busy # Slots
  BY <1>1, SlotsFinite, WorkerLimitAssumption
<1> QED  BY <1>2 DEF Busy

(* The slot main has reached in its response loop is busy, and not the one *)
(* that is being filled.                                                   *)
LEMMA TaskOfFinishedFound == IInv => TaskFound
BY DEF IInv, TaskFound, ProgramOK, TasksOK

(* IInv is an invariant of the worker pool: it holds initially and every   *)
(* step of the main thread, of the handler, of a worker and of a client    *)
(* preserves it.                                                           *)
THEOREM Invariant == Spec => []IInv
<1>1. Init => IInv
  BY InitEstablishes
<1>2. IInv /\ [Next]_vars => IInv'
  BY TypeStep, SlotsStep, ProgramStep, TasksStep, ProcessesStep, CompletedStep DEF IInv
<1> QED  BY <1>1, <1>2, PTL DEF Spec

(* Every variable keeps its type, and active_workers its range: the        *)
(* decrement that waits for the handler's flag never makes it negative and *)
(* the increment never takes it past worker_limit.                         *)
THEOREM TypeCorrect == Spec => []TypeOK
<1>1. IInv => TypeOK
  BY DEF IInv
<1> QED  BY <1>1, Invariant, PTL

(* worker_limit bounds the worker processes that exist at the same time,   *)
(* for any limit and wherever the SIGCHLD handler runs.                    *)
THEOREM WorkersBounded == Spec => []LiveWorkersBounded
BY LiveWorkersFit, Invariant, PTL

(* The for loop of try_doing_some_tasks always finds a free slot for the   *)
(* task the while loop has seen, so line 404 never drops one unstarted.    *)
THEOREM FreeSlotFound == Spec => []SlotAvailable
BY FreeSlotExists, Invariant, PTL

(* "Shouldnt ever happen" does not: readTaskByPid finds the task of every  *)
(* worker whose slot is marked finished.                                   *)
THEOREM FinishedTaskFound == Spec => []TaskFound
BY TaskOfFinishedFound, Invariant, PTL

(* A task is recorded as completed only when the worker it was given to    *)
(* has exited and been reaped, even when the descriptor that was read      *)
(* belonged to another worker.                                             *)
THEOREM CompletionIsConfirmed == Spec => []CompletedReaped
<1>1. IInv => CompletedReaped
  BY DEF IInv
<1> QED  BY <1>1, Invariant, PTL

-----------------------------------------------------------------------------
(***************************************************************************)
(* The error counts of a manager with one slot whose workers print their   *)
(* report in one piece.  Both conditions are needed: with two slots a      *)
(* number that is still polled may belong to another worker's pipe, and    *)
(* of a report in pieces only the first is read.                           *)
(***************************************************************************)

ErrorLines(out) == Cardinality({k \in DOMAIN out : out[k].kind = "error"})

(* One pass over a report that is complete counts its errors.              *)
LEMMA WholeIsCounted ==
  ASSUME NEW out \in Seq(Line),
         \A k \in 1 .. (Len(out) - 1) : ~EndsReport(0, out, k),
         \A k \in 1 .. Len(out) : out[k].kind = "error" <=> k > 4 /\ out[k].kind # "end"
  PROVE  ErrorsRead(0, out) = ErrorLines(out)
<1>1. Len(out) \in Nat /\ DOMAIN out = 1 .. Len(out)
  BY LenProperties
<1>2. {k \in DOMAIN out : \A j \in 1 .. (k - 1) : ~EndsReport(0, out, j)} = 1 .. Len(out)
  BY <1>1
<1>3. LinesRead(0, out) = Len(out)
  <2>1. Cardinality(1 .. Len(out)) = Len(out)
    <3>1. 1 \in Int /\ Len(out) \in Int
      BY <1>1
    <3>2. Cardinality(1 .. Len(out)) = IF 1 > Len(out) THEN 0 ELSE Len(out) - 1 + 1
      BY <3>1, FS_Interval
    <3> QED  BY <1>1, <3>2
  <2> QED  BY <1>2, <2>1 DEF LinesRead
<1>4. {k \in 1 .. Len(out) : 0 + k > 4 /\ ~EndsReport(0, out, k)}
        = {k \in 1 .. Len(out) : out[k].kind = "error"}
  BY DEF EndsReport
<1> QED  BY <1>1, <1>3, <1>4 DEF ErrorsRead, ErrorLines

(* The lines of a report.                                                  *)
LEMMA ReportLines ==
  ASSUME NEW p \in Pids, NEW n \in 0 .. MaxErrors
  PROVE  /\ Len(Report(p, n)) = n + 5
         /\ Report(p, n)[n + 5].kind = "end"
         /\ \A k \in 5 .. (n + 4) : Report(p, n)[k].kind = "error"
         /\ \A k \in 1 .. 4 : Report(p, n)[k].kind \notin {"error", "end"}
<1> DEFINE first == <<"start", "status", "details", "errors">>
           errors == [k \in 1 .. n |-> "error"]
           last == <<"end">>
           kinds == first \o errors \o last
<1>0. n \in Nat
  BY BoundsAssumption
<1>1. /\ first \in Seq(LineKinds) /\ Len(first) = 4
      /\ \A k \in 1 .. 4 : first[k] \notin {"error", "end"}
  BY DEF LineKinds
<1>2. /\ errors \in Seq(LineKinds) /\ Len(errors) = n /\ \A k \in 1 .. n : errors[k] = "error"
  BY <1>0 DEF LineKinds
<1>3. last \in Seq(LineKinds) /\ Len(last) = 1 /\ last[1] = "end"
  BY DEF LineKinds
<1> HIDE DEF first, errors, last, kinds
<1>4. /\ \A k \in 1 .. Len(first) : kinds[k] = first[k]
      /\ \A k \in 1 .. Len(errors) : kinds[Len(first) + k] = errors[k]
      /\ \A k \in 1 .. Len(last) : kinds[Len(first) + Len(errors) + k] = last[k]
  <2>0. first \in Seq(LineKinds) /\ errors \in Seq(LineKinds) /\ last \in Seq(LineKinds)
    BY <1>1, <1>2, <1>3
  <2>1. \A k \in 1 .. Len(first) : kinds[k] = first[k]
    BY <2>0, JoinThree DEF kinds
  <2>2. \A k \in 1 .. Len(errors) : kinds[Len(first) + k] = errors[k]
    BY <2>0, JoinThree DEF kinds
  <2>3. \A k \in 1 .. Len(last) : kinds[Len(first) + Len(errors) + k] = last[k]
    BY <2>0, JoinThree DEF kinds
  <2> QED  BY <2>1, <2>2, <2>3
<1>5. kinds[n + 5] = "end"
  <2>1. 1 \in 1 .. Len(last) /\ Len(first) + Len(errors) + 1 = n + 5
    BY <1>0, <1>1, <1>2, <1>3
  <2>2. kinds[Len(first) + Len(errors) + 1] = last[1]
    BY <1>4, <2>1, Zenon
  <2> QED  BY <1>3, <2>1, <2>2
<1>6. ASSUME NEW k \in 5 .. (n + 4) PROVE kinds[k] = "error"
  <2>1. k - 4 \in 1 .. n /\ 4 + (k - 4) = k
    BY <1>0
  <2>2. kinds[4 + (k - 4)] = errors[k - 4]
    BY <1>1, <1>2, <1>4, <2>1, Zenon
  <2> QED  BY <1>2, <2>1, <2>2
<1>7. ASSUME NEW k \in 1 .. 4 PROVE kinds[k] \notin {"error", "end"}
  BY <1>1, <1>4
<1>8. Report(p, n) = [k \in 1 .. (n + 5) |-> [pid |-> p, kind |-> kinds[k]]]
  BY DEF Report, kinds, first, errors, last
<1> QED  BY <1>0, <1>5, <1>6, <1>7, <1>8

(* Whatever a worker prints fits in StdioLines lines, if a report does,    *)
(* and is counted right when it is read at once.                           *)
LEMMA OutputRead ==
  ASSUME MaxErrors + 5 <= StdioLines, NEW p \in Pids, NEW out \in Outputs(p)
  PROVE  Len(out) <= StdioLines /\ ErrorsRead(0, out) = ErrorLines(out)
<1>0. /\ out \in Seq(Line) /\ MaxErrors \in Nat /\ StdioLines \in Nat /\ 1 <= StdioLines
  <2>1. StdioLines \in Nat \ {0} /\ MaxErrors \in Nat
    BY BoundsAssumption
  <2>2. out \in Seq(Line)
    BY OutputsType
  <2> QED  BY <2>1, <2>2
<1>1. ASSUME NEW n \in 0 .. MaxErrors, out = Report(p, n)
      PROVE  Len(out) <= StdioLines /\ ErrorsRead(0, out) = ErrorLines(out)
  <2>1. /\ Len(out) = n + 5 /\ out[n + 5].kind = "end" /\ n \in Nat
        /\ \A k \in 5 .. (n + 4) : out[k].kind = "error"
        /\ \A k \in 1 .. 4 : out[k].kind \notin {"error", "end"}
    BY <1>0, <1>1, ReportLines
  <2>2. \A k \in 1 .. (Len(out) - 1) : ~EndsReport(0, out, k)
    BY <2>1 DEF EndsReport
  <2>3. \A k \in 1 .. Len(out) : out[k].kind = "error" <=> k > 4 /\ out[k].kind # "end"
    BY <2>1
  <2>4. ErrorsRead(0, out) = ErrorLines(out)
    BY <1>0, <2>2, <2>3, WholeIsCounted
  <2> QED  BY <1>0, <1>1, <2>1, <2>4
<1>2. ASSUME out \in {<<[pid |-> p, kind |-> "exec failed"]>>, << >>}
      PROVE  Len(out) <= StdioLines /\ ErrorsRead(0, out) = ErrorLines(out)
  <2>1. CASE out = << >>
    <3>1. Len(out) = 0 /\ 1 .. Len(out) = {} /\ 1 .. (Len(out) - 1) = {}
      BY <2>1
    <3>2. ErrorsRead(0, out) = ErrorLines(out)
      BY <1>0, <3>1, WholeIsCounted
    <3> QED  BY <1>0, <3>1, <3>2
  <2>2. CASE out = <<[pid |-> p, kind |-> "exec failed"]>>
    <3>1. Len(out) = 1 /\ out[1].kind = "exec failed"
      BY <2>2
    <3>2. 1 .. Len(out) = {1} /\ 1 .. (Len(out) - 1) = {}
      <4>1. 1 .. 1 = {1} /\ 1 .. (1 - 1) = {}
        OBVIOUS
      <4> QED  BY <3>1, <4>1
    <3>3. \A k \in {1} : out[k].kind = "error" <=> k > 4 /\ out[k].kind # "end"
      <4>1. out[1].kind # "error"
        BY <3>1, Zenon
      <4>2. ~(1 > 4)
        OBVIOUS
      <4> QED  BY <4>1, <4>2, Zenon
    <3>4. ErrorsRead(0, out) = ErrorLines(out)
      BY <1>0, <3>2, <3>3, WholeIsCounted
    <3> QED  BY <1>0, <3>1, <3>4
  <2> QED  BY <1>2, <2>1, <2>2
<1>3. ASSUME NEW n \in 0 .. MaxErrors, out \in Crashed(Report(p, n)) PROVE out = << >>
  <2>1. /\ Len(Report(p, n)) <= StdioLines /\ Report(p, n) \in Seq(Line)
    <3>1. Report(p, n) \in Outputs(p)
      BY DEF Outputs
    <3>2. Report(p, n) \in Seq(Line)
      BY <3>1, OutputsType, Zenon
    <3>3. Len(Report(p, n)) = n + 5
      BY ReportLines, Zenon
    <3> QED  BY <1>0, <3>2, <3>3
  <2>2. PICK k \in 0 .. (Len(Report(p, n)) - 1) :
               k % StdioLines = 0 /\ out = SubSeq(Report(p, n), 1, k)
    BY <1>3 DEF Crashed
  <2>3. k = 0
    <3>1. k \in Nat /\ k < StdioLines
      BY <1>0, <2>1, LenProperties
    <3>2. k % StdioLines = k
      BY <1>0, <3>1
    <3> QED  BY <2>2, <3>2
  <2> QED  BY <2>1, <2>2, <2>3
<1>4. CASE \E n \in 0 .. MaxErrors : out = Report(p, n)
  BY <1>1, <1>4, Zenon
<1>5. CASE \E n \in 0 .. MaxErrors : out \in Crashed(Report(p, n))
  BY <1>2, <1>3, <1>5, Zenon
<1>6. CASE out = <<[pid |-> p, kind |-> "exec failed"]>>
  BY <1>2, <1>6, Zenon
<1> QED  BY <1>4, <1>5, <1>6 DEF Outputs

(* With one slot, the report of the worker in it is either still to come,  *)
(* in the pipe, or read and counted.                                       *)
Occupied == pc = "forked" \/ workers[0].pid # NoPid

Printed(out) == out \in Outputs(forks) /\ ErrorLines(out) = printed[forks]

Unread ==
  /\ fds[workers[0].from_child] = [end |-> "read", pid |-> forks]
  /\ pc \notin {"forked", "spawned"} => workers[0].errors = 0 /\ workers[0].lines_recieved = 0
  /\ \/ Printed(stdout[forks]) /\ pipe[forks] = << >>
     \/ stdout[forks] = << >> /\ Printed(pipe[forks])

Counted ==
  /\ fds[workers[0].from_child] = NULL
  /\ stdout[forks] = << >>
  /\ pc \notin {"forked", "spawned"} /\ workers[0].errors = printed[forks]

(* The report is read when it is complete: what poll reports is a worker   *)
(* that has nothing left to write.                                         *)
OneReport ==
  /\ Occupied => Unread \/ Counted
  /\ workers[0].pid # NoPid => workers[0].pid = forks
  /\ pfds[0] # NoFd => pfds[0] = workers[0].from_child
  /\ pc = "check" => Counted
  /\ Occupied /\ Ended(forks) => stdout[forks] = << >>
  /\ 0 \in revents => stdout[forks] = << >>
  /\ \A p \in Pids : p > forks => pipe[p] = << >>

LEMMA OneSlot ==
  ASSUME WorkerLimit = 1, TypeOK
  PROVE  /\ Slots = {0} /\ slot = 0 /\ workers \in [{0} -> Worker] /\ workers[0] \in Worker
         /\ pfds \in [{0} -> Fds \cup {NoFd}]
<1>1. Slots = {0}
  BY DEF Slots
<1> QED  BY <1>1 DEF TypeOK

(* A step that leaves the slot and the worker alone.                       *)
LEMMA NothingRead ==
  ASSUME OneReport,
         UNCHANGED <<workers, fds, stdout, pipe, proc, forks, printed, pfds>>,
         pc' = pc \/ (pc \notin {"forked", "spawned"} /\ pc' \notin {"forked", "spawned", "check"}),
         0 \in revents' => 0 \in revents \/ stdout[forks] = << >>
  PROVE  OneReport'
BY DEF OneReport, Occupied, Unread, Counted, Printed, Ended

(* The steps of the main thread up to the assignment of a task.            *)
LEMMA StartedReport ==
  ASSUME WorkerLimit = 1, IInv, IInv', OneReport, Fork(0) \/ RecordPid \/ AssignTask
  PROVE  OneReport'
<1>0. /\ TypeOK /\ SlotsOK /\ ProgramOK /\ ProcessesOK /\ slot = 0 /\ 0 \in Slots
      /\ Slots = {0} /\ workers \in [{0} -> Worker] /\ workers[0] \in Worker
      /\ pfds \in [{0} -> Fds \cup {NoFd}]
  BY OneSlot DEF IInv
<1>1. CASE Fork(0)
  <2>1. /\ pc = "try" /\ pc' = "forked" /\ workers[0].pid = NoPid /\ forks' = forks + 1
        /\ UNCHANGED <<pfds, pipe, revents>> /\ proc' = [proc EXCEPT ![forks'] = "running"]
    BY <1>1 DEF Fork, FirstFree
  <2>2. forks \in Nat /\ forks' \in Pids /\ forks' > forks
    BY <1>0, <1>1, <2>1, BoundsAssumption DEF Fork, TypeOK, Pids
  <2>3. PICK out \in Outputs(forks') :
          /\ stdout' = [stdout EXCEPT ![forks'] = out]
          /\ printed' = [printed EXCEPT ![forks'] =
                           Cardinality({k \in DOMAIN out : out[k].kind = "error"})]
    BY <1>1 DEF Fork
  <2>4. stdout'[forks'] = out /\ printed'[forks'] = ErrorLines(out)
    BY <1>0, <2>2, <2>3 DEF TypeOK, ErrorLines
  <2>5. PICK to, from \in FreeFds :
          /\ fds' = [fds EXCEPT ![to] = [end |-> "write", pid |-> forks'],
                                ![from] = [end |-> "read", pid |-> forks']]
          /\ workers' = [workers EXCEPT ![0].from_child = from]
    BY <1>1, Zenon DEF Fork
  <2>6. workers'[0].from_child = from /\ workers'[0].pid = NoPid
    BY <1>0, <2>1, <2>5 DEF Worker
  <2>7. fds'[from] = [end |-> "read", pid |-> forks']
    BY <1>0, <2>5 DEF TypeOK, FreeFds
  <2>8. pfds[0] = NoFd /\ 0 \notin revents
    BY <1>0, <2>1 DEF SlotsOK, Busy
  <2>9. pipe[forks'] = << >> /\ \A p \in Pids : p > forks' => pipe[p] = << >>
    BY <2>1, <2>2 DEF OneReport, Pids
  <2>10. proc'[forks'] = "running"
    BY <1>0, <2>1, <2>2 DEF TypeOK
  <2>11. Unread'
    BY <2>1, <2>3, <2>4, <2>6, <2>7, <2>9, Zenon DEF Unread, Printed
  <2> QED  BY <2>1, <2>6, <2>8, <2>9, <2>10, <2>11 DEF OneReport, Occupied, Ended
<1>2. CASE RecordPid
  <2>1. /\ pc = "forked" /\ pc' = "spawned" /\ workers' = [workers EXCEPT ![0].pid = forks]
        /\ pfds' = [pfds EXCEPT ![0] = workers[0].from_child]
        /\ UNCHANGED <<revents, fds, forks, stdout, pipe, proc, printed>>
    BY <1>0, <1>2 DEF RecordPid, processVars
  <2>2. workers'[0].pid = forks /\ workers'[0].from_child = workers[0].from_child
    BY <1>0, <2>1 DEF Worker
  <2>3. pfds'[0] = workers'[0].from_child
    BY <1>0, <2>1, <2>2
  <2>4. Unread
    BY <2>1 DEF OneReport, Occupied, Counted
  <2>5. Unread'
    BY <2>1, <2>2, <2>4 DEF Unread, Printed
  <2> QED  BY <2>1, <2>2, <2>3, <2>5 DEF OneReport, Occupied, Ended
<1>3. CASE AssignTask
  <2>1. /\ pc = "spawned" /\ pc' = "try"
        /\ workers' = [workers EXCEPT ![0] =
             [workers[0] EXCEPT !.finished = 0, !.errors = 0, !.lines_recieved = 0]]
        /\ UNCHANGED <<revents, fds, forks, stdout, pipe, proc, printed, pfds>>
    BY <1>0, <1>3 DEF AssignTask, processVars
  <2>2. /\ workers'[0].pid = workers[0].pid /\ workers'[0].from_child = workers[0].from_child
        /\ workers'[0].errors = 0 /\ workers'[0].lines_recieved = 0
    BY <1>0, <2>1 DEF Worker
  <2>3. workers[0].pid # NoPid
    BY <1>0, <2>1 DEF ProgramOK, Busy
  <2>4. Unread
    BY <2>1, <2>3 DEF OneReport, Occupied, Counted
  <2>5. Unread'
    BY <2>1, <2>2, <2>4 DEF Unread, Printed
  <2> QED  BY <2>1, <2>2, <2>3, <2>5 DEF OneReport, Occupied, Ended
<1> QED  BY <1>1, <1>2, <1>3

(* The reading of the report, which is whole, and the end of the task.     *)
LEMMA CountedReport ==
  ASSUME WorkerLimit = 1, MaxErrors + 5 <= StdioLines, IInv, IInv', OneReport,
         ReadReport(0) \/ WorkerDone
  PROVE  OneReport'
<1>0. /\ TypeOK /\ SlotsOK /\ ProgramOK /\ slot = 0 /\ 0 \in Slots
      /\ Slots = {0} /\ workers \in [{0} -> Worker] /\ workers[0] \in Worker
      /\ pfds \in [{0} -> Fds \cup {NoFd}]
  BY OneSlot DEF IInv
<1>1. CASE ReadReport(0)
  <2> DEFINE fd == workers[0].from_child
             file == fds[fd]
             before == workers[0].lines_recieved
             lines == pipe[file.pid]
             read == before + LinesRead(before, lines)
             errors == workers[0].errors + ErrorsRead(before, lines)
  <2>1. /\ pc = "respond" /\ pc' = "check" /\ 0 \in revents /\ revents' = revents \ {0}
        /\ UNCHANGED <<forks, stdout, proc, printed, pfds>>
    BY <1>1 DEF ReadReport
  <2>2. /\ workers[0].pid # NoPid /\ stdout[forks] = << >> /\ workers[0].pid = forks
        /\ forks \in Pids /\ fd \in Fds /\ (Unread \/ Counted)
    BY <1>0, <2>1 DEF OneReport, Occupied, SlotsOK, Busy, Worker
  <2>3. /\ Counted' /\ workers'[0].pid = workers[0].pid
        /\ workers'[0].from_child = workers[0].from_child
        /\ \A p \in Pids : p > forks => pipe'[p] = << >>
    <3>1. CASE Unread
      <4>1. file = [end |-> "read", pid |-> forks] /\ workers[0].errors = 0 /\ before = 0
        BY <2>1, <3>1 DEF Unread
      <4>2. file # NULL
        BY <2>2, <4>1, NullAssumption DEF OpenFile
      <4>3. Printed(pipe[forks])
        BY <2>2, <3>1 DEF Unread
      <4>4. /\ workers' = [workers EXCEPT ![0] =
                 [workers[0] EXCEPT !.lines_recieved = read, !.errors = errors]]
            /\ pipe' = [pipe EXCEPT ![forks] = << >>]
            /\ fds' = [fds EXCEPT ![fd] = NULL]
        BY <1>1, <4>1, <4>2 DEF ReadReport
      <4>5. errors = printed[forks]
        <5>1. ErrorsRead(0, pipe[forks]) = ErrorLines(pipe[forks])
          BY <2>2, <4>3, OutputRead DEF Printed
        <5>2. printed[forks] \in Nat
          BY <1>0, <2>2 DEF TypeOK
        <5> QED  BY <4>1, <4>3, <5>1, <5>2 DEF Printed
      <4> HIDE DEF read, errors
      <4>6. /\ workers'[0].errors = errors /\ workers'[0].pid = workers[0].pid
            /\ workers'[0].from_child = workers[0].from_child
        BY <1>0, <4>4 DEF Worker
      <4>7. fds'[fd] = NULL /\ \A p \in Pids : p > forks => pipe'[p] = << >>
        BY <1>0, <2>2, <4>4 DEF TypeOK, OneReport
      <4>8. Counted'
        BY <2>1, <2>2, <4>5, <4>6, <4>7 DEF Counted
      <4> QED  BY <4>6, <4>7, <4>8
    <3>2. CASE Counted
      <4>1. UNCHANGED <<workers, pipe, fds>>
        BY <1>1, <3>2 DEF ReadReport, Counted
      <4> QED  BY <2>1, <3>2, <4>1 DEF Counted, OneReport
    <3> QED  BY <2>2, <3>1, <3>2
  <2> HIDE DEF fd
  <2> QED  BY <2>1, <2>2, <2>3 DEF OneReport, Occupied
<1>2. CASE WorkerDone
  <2>1. /\ pc = "check" /\ pc' = "respond" /\ UNCHANGED <<revents, forks, stdout, pipe>>
        /\ workers' = [workers EXCEPT ![0] = [workers[0] EXCEPT !.finished = 0, !.pid = NoPid]]
        /\ pfds' = [pfds EXCEPT ![0] = NoFd]
    BY <1>0, <1>2 DEF WorkerDone, FreeSlot, processVars
  <2>2. workers'[0].pid = NoPid /\ pfds'[0] = NoFd
    BY <1>0, <2>1 DEF Worker
  <2>3. 0 \notin revents
    BY <1>0, <2>1 DEF ProgramOK
  <2> QED  BY <2>1, <2>2, <2>3 DEF OneReport, Occupied
<1> QED  BY <1>1, <1>2

(* The worker and the signal handler.                                      *)
LEMMA WorkersReport ==
  ASSUME WorkerLimit = 1, MaxErrors + 5 <= StdioLines, IInv, OneReport,
         sigchld_handler \/ \E p \in Pids : WorkerStep(p)
  PROVE  OneReport'
<1>0. /\ TypeOK /\ SlotsOK /\ ProgramOK /\ ProcessesOK /\ 0 \in Slots
      /\ Slots = {0} /\ workers \in [{0} -> Worker] /\ workers[0] \in Worker
  BY OneSlot DEF IInv
<1>1. CASE sigchld_handler
  <2>1. /\ UNCHANGED <<pc, pfds, revents, fds, forks, stdout, pipe, printed>>
        /\ proc' = [p \in Pids |-> IF proc[p] = "zombie" THEN "reaped" ELSE proc[p]]
        /\ workers' = [i \in Slots |->
             IF workers[i].pid # NoPid /\ proc[workers[i].pid] = "zombie"
               THEN [workers[i] EXCEPT !.finished = 1]
               ELSE workers[i]]
    BY <1>1 DEF sigchld_handler
  <2>2. /\ workers'[0].pid = workers[0].pid /\ workers'[0].from_child = workers[0].from_child
        /\ workers'[0].errors = workers[0].errors
        /\ workers'[0].lines_recieved = workers[0].lines_recieved
    BY <1>0, <2>1 DEF Worker
  <2>3. forks \in Pids /\ Ended(forks)' => Ended(forks)
    BY <2>1 DEF Ended
  <2>4. Occupied => forks \in Pids
    <3>1. CASE pc = "forked"
      BY <1>0, <3>1 DEF ProgramOK, ForkedOK
    <3>2. CASE workers[0].pid # NoPid
      <4>1. workers[0].pid \in Pids \cup {NoPid}
        BY <1>0 DEF Worker
      <4> QED  BY <1>0, <3>2, <4>1 DEF OneReport
    <3> QED  BY <3>1, <3>2 DEF Occupied
  <2>5. (Unread => Unread') /\ (Counted => Counted')
    BY <2>1, <2>2 DEF Unread, Counted, Printed
  <2> QED  BY <2>1, <2>2, <2>3, <2>4, <2>5 DEF OneReport, Occupied
<1>2. ASSUME NEW p \in Pids, WorkerStep(p) PROVE OneReport'
  <2>1. /\ UNCHANGED <<pc, workers, pfds, revents, fds, forks, printed>>
        /\ proc[p] = "running" /\ ~ p > forks /\ forks \in Nat /\ p \in Nat
    <3>1. /\ UNCHANGED <<pc, workers, pfds, revents, fds, forks, printed>> /\ proc[p] = "running"
      BY <1>2 DEF WorkerStep, Write, Exit, slotVars
    <3> QED  BY <1>0, <3>1, BoundsAssumption DEF ProcessesOK, TypeOK
  <2>2. /\ \A q \in Pids \ {p} : stdout'[q] = stdout[q] /\ pipe'[q] = pipe[q] /\ proc'[q] = proc[q]
    <3>1. CASE Exit(p)
      BY <1>0, <3>1 DEF Exit, TypeOK
    <3>2. CASE Write(p)
      BY <1>0, <3>2 DEF Write, TypeOK
    <3> QED  BY <1>2, <3>1, <3>2 DEF WorkerStep
  <2>3. \A q \in Pids : q > forks' => pipe'[q] = << >>
    BY <2>1, <2>2 DEF OneReport
  <2>4. CASE p # forks
    <3>1. /\ Occupied \/ 0 \in revents => /\ stdout'[forks] = stdout[forks]
                                          /\ pipe'[forks] = pipe[forks]
                                          /\ proc'[forks] = proc[forks]
      <4>1. Occupied \/ 0 \in revents => forks \in Pids
        BY <1>0 DEF Occupied, OneReport, ProgramOK, ForkedOK, Worker, SlotsOK, Busy
      <4> QED  BY <2>2, <2>4, <4>1
    <3>2. pc = "check" => Occupied
      BY <1>0, OneSlot DEF Occupied, ProgramOK, Busy
    <3> QED  BY <2>1, <2>3, <3>1, <3>2 DEF OneReport, Occupied, Unread, Counted, Printed, Ended
  <2>5. CASE p = forks /\ Exit(p)
    <3>1. stdout[forks] = << >> /\ UNCHANGED <<stdout, pipe>>
      BY <2>5 DEF Exit
    <3> QED  BY <2>1, <2>3, <3>1 DEF OneReport, Occupied, Unread, Counted, Printed
  <2>6. CASE p = forks /\ Write(p)
    <3>1. stdout[forks] # << >>
      BY <2>6 DEF Write
    <3>2. Occupied
      <4>1. forks \in LiveWorkers
        BY <2>1, <2>6 DEF LiveWorkers
      <4> QED  BY <1>0, <4>1 DEF ProcessesOK, Busy, Occupied
    <3>3. /\ Unread /\ Printed(stdout[forks]) /\ pipe[forks] = << >>
          /\ pc # "check" /\ 0 \notin revents
      BY <3>1, <3>2 DEF OneReport, Counted, Unread
    <3>4. HasReader(forks)
      <4>1. workers[0].from_child \in Fds
        BY <1>0, <3>2 DEF Occupied, ProgramOK, ForkedOK, SlotsOK, Busy, TypeOK
      <4> QED  BY <3>3, <4>1 DEF HasReader, Unread
    <3>5. stdout[forks] \in Seq(Line) /\ Len(stdout[forks]) <= StdioLines
      BY <1>0, <2>6, <3>3, OutputRead DEF TypeOK, Printed
    <3>6. stdout'[forks] = << >> /\ pipe'[forks] = stdout[forks]
      <4> DEFINE out == stdout[forks]
      <4>1. /\ pipe' = [pipe EXCEPT ![forks] = pipe[forks] \o SubSeq(out, 1, Len(out))]
            /\ stdout' = [stdout EXCEPT ![forks] = SubSeq(out, Len(out) + 1, Len(out))]
        <5>1. (IF StdioLines < Len(out) THEN StdioLines ELSE Len(out)) = Len(out)
          BY <3>5, BoundsAssumption
        <5> QED  BY <2>6, <3>4, <5>1 DEF Write
      <4>2. SubSeq(out, 1, Len(out)) = out /\ SubSeq(out, Len(out) + 1, Len(out)) = << >>
        BY <3>5
      <4>3. << >> \o out = out
        BY <3>5
      <4> HIDE DEF out
      <4>4. pipe'[forks] = out /\ stdout'[forks] = << >>
        BY <1>0, <2>6, <3>3, <4>1, <4>2, <4>3 DEF TypeOK
      <4> QED  BY <4>4 DEF out
    <3>7. Unread'
      BY <2>1, <3>3, <3>6 DEF Unread, Printed
    <3> QED  BY <2>1, <2>3, <3>3, <3>6, <3>7 DEF OneReport, Occupied
  <2> QED  BY <1>2, <2>4, <2>5, <2>6 DEF WorkerStep
<1> QED  BY <1>1, <1>2

(* What is recorded of a task stays what its worker printed.               *)
LEMMA ErrorsStep ==
  ASSUME WorkerLimit = 1, IInv, IInv', OneReport, ErrorsExact, [Next]_vars
  PROVE  ErrorsExact'
<1>0. /\ TypeOK /\ ProgramOK /\ ProcessesOK /\ CompletedReaped /\ slot = 0 /\ 0 \in Slots
      /\ workers[0] \in Worker /\ forks \in Nat
      /\ completed \in [Jobs -> Completion \cup {NULL}] /\ printed \in [Pids -> Nat]
  <2>1. TypeOK /\ ProgramOK /\ ProcessesOK /\ CompletedReaped
    BY DEF IInv
  <2>2. /\ slot \in Slots /\ workers \in [Slots -> Worker] /\ forks \in 0 .. MaxForks
        /\ completed \in [Jobs -> Completion \cup {NULL}] /\ printed \in [Pids -> Nat]
    BY <2>1 DEF TypeOK
  <2> QED  BY <2>1, <2>2, OneSlot, BoundsAssumption
<1>1. CASE \E i \in Slots : Fork(i)
  <2>1. /\ UNCHANGED completed /\ forks' = forks + 1
        /\ \E n : printed' = [printed EXCEPT ![forks'] = n]
    BY <1>1, Zenon DEF Fork, queueVars
  <2>2. \A p \in Pids : p # forks' => printed'[p] = printed[p]
    BY <1>0, <2>1
  <2>3. \A j \in Jobs : completed[j] # NULL => completed[j].pid \in Pids /\ completed[j].pid # forks'
    <3>1. ASSUME NEW j \in Jobs, completed[j] # NULL
          PROVE  completed[j].pid \in Pids /\ completed[j].pid # forks'
      <4>1. completed[j].pid \in Pids /\ proc[completed[j].pid] = "reaped"
        BY <1>0, <3>1 DEF Completion, CompletedReaped
      <4>2. ~(completed[j].pid > forks)
        BY <1>0, <4>1 DEF ProcessesOK
      <4> QED  BY <1>0, <2>1, <4>1, <4>2
    <3> QED  BY <3>1
  <2> QED  BY <2>1, <2>2, <2>3 DEF ErrorsExact
<1>2. CASE WorkerDone
  <2> DEFINE task == readTaskByPid(assigned_tasks, workers[0].pid)
             done == [pid |-> workers[0].pid, errors |-> workers[0].errors]
  <2>1. /\ UNCHANGED printed
        /\ completed' = completed \/ completed' = [completed EXCEPT ![task.job] = done]
    BY <1>0, <1>2 DEF WorkerDone, CompleteTask, processVars
  <2>2. done.errors = printed[done.pid]
    <3>1. pc = "check" /\ workers[0].pid # NoPid
      BY <1>0, <1>2 DEF WorkerDone, ProgramOK, Busy
    <3> QED  BY <3>1 DEF OneReport, Counted
  <2> HIDE DEF task, done
  <2>3. \A j \in Jobs : completed'[j] = completed[j] \/ completed'[j] = done
    BY <1>0, <2>1
  <2> QED  BY <2>1, <2>2, <2>3 DEF ErrorsExact
<1>3. CASE ~WorkerDone /\ ~\E i \in Slots : Fork(i)
  <2>1. UNCHANGED <<completed, printed>>
    <3>1. UNCHANGED completed
      BY <1>3, StepsOfNext, LeavesSlotsUnchanged, Zenon DEF ReadReport, RecordPid, AssignTask,
         sigchld_handler, queueVars
    <3>2. UNCHANGED printed
      BY <1>3, StepsOfNext, Zenon DEF ReadReport, RecordPid, AssignTask, sigchld_handler,
         LeavesSlots, PipeFails, StopStarting, Poll, WorkerNotDone, AllAnswered, InputHandled,
         Arrive, WorkerStep, Write, Exit, vars, processVars
    <3> QED  BY <3>1, <3>2
  <2> QED  BY <2>1 DEF ErrorsExact
<1> QED  BY <1>1, <1>2, <1>3

LEMMA OneReportStep ==
  ASSUME WorkerLimit = 1, MaxErrors + 5 <= StdioLines, IInv, IInv', OneReport, [Next]_vars
  PROVE  OneReport'
<1>0. Slots = {0} /\ TypeOK /\ ProgramOK /\ SlotsOK
  BY OneSlot DEF IInv
<1>1. CASE \/ UNCHANGED vars \/ PipeFails \/ StopStarting \/ WorkerNotDone \/ AllAnswered
           \/ InputHandled \/ \E j \in Jobs : Arrive(j)
  <2>1. UNCHANGED <<workers, fds, stdout, pipe, proc, forks, printed, pfds, revents>>
    BY <1>1, Zenon DEF vars, PipeFails, StopStarting, WorkerNotDone, AllAnswered, InputHandled,
       Arrive, slotVars, processVars
  <2>2. pc' = pc \/ (pc \notin {"forked", "spawned"} /\ pc' \notin {"forked", "spawned", "check"})
    BY <1>1 DEF vars, PipeFails, StopStarting, WorkerNotDone, AllAnswered, InputHandled, Arrive
  <2> QED  BY <2>1, <2>2, NothingRead
<1>2. CASE Poll
  <2>1. /\ UNCHANGED <<workers, fds, stdout, pipe, proc, forks, printed, pfds>>
        /\ pc = "poll" /\ pc' = "respond" /\ revents' = {i \in Slots : PollReports(i)}
    BY <1>2 DEF Poll, slotVars, processVars
  <2>2. ASSUME 0 \in revents' PROVE stdout[forks] = << >>
    <3>1. PollReports(0)
      BY <2>1, <2>2
    <3>2. /\ Occupied /\ pfds[0] = workers[0].from_child /\ (Unread \/ Counted)
      BY <1>0, <3>1 DEF PollReports, SlotsOK, Busy, OneReport, Occupied
    <3>3. CASE Counted
      BY <3>3 DEF Counted
    <3>4. CASE Unread
      <4>1. fds[pfds[0]] = [end |-> "read", pid |-> forks] /\ forks \in Pids
        BY <1>0, <3>2, <3>4 DEF Unread, Occupied, OneReport, ProgramOK, ForkedOK, TypeOK, Worker
      <4>2. fds[pfds[0]] # NULL
        BY <4>1, NullAssumption DEF OpenFile
      <4>3. Ended(forks) \/ pipe[forks] # << >>
        BY <3>1, <4>1, <4>2 DEF PollReports
      <4> QED  BY <3>2, <3>4, <4>3 DEF OneReport, Unread
    <3> QED  BY <3>2, <3>3, <3>4
  <2> QED  BY <2>1, <2>2, NothingRead
<1>3. CASE (\E i \in Slots : Fork(i)) \/ RecordPid \/ AssignTask
  BY <1>0, <1>3, StartedReport
<1>4. CASE (\E i \in Slots : ReadReport(i)) \/ WorkerDone
  BY <1>0, <1>4, CountedReport
<1>5. CASE sigchld_handler \/ \E p \in Pids : WorkerStep(p)
  BY <1>5, WorkersReport
<1> QED  BY <1>1, <1>2, <1>3, <1>4, <1>5, StepsOfNext DEF LeavesSlots

(* The error count in the log is that of the task's own worker, when there *)
(* is one slot and a report fits in the worker's stdout buffer: nothing of *)
(* it is lost or counted twice or left over from the slot's last task, for *)
(* any numbers of errors and tasks, and although the pipe is closed after  *)
(* the first reading and its number goes on being polled.                  *)
THEOREM ErrorsAreExact ==
  WorkerLimit = 1 /\ MaxErrors + 5 <= StdioLines /\ Spec => []ErrorsExact
<1> SUFFICES ASSUME WorkerLimit = 1, MaxErrors + 5 <= StdioLines
             PROVE  Spec => []ErrorsExact
  OBVIOUS
<1>1. Init => OneReport /\ ErrorsExact
  <2> SUFFICES ASSUME Init PROVE OneReport /\ ErrorsExact
    OBVIOUS
  <2>1. 0 \in Slots
    BY DEF Slots
  <2>2. /\ pc = "try" /\ workers[0].pid = NoPid /\ pfds[0] = NoFd /\ revents = {}
        /\ \A p \in Pids : pipe[p] = << >>
        /\ \A j \in Jobs : completed[j] = NULL
    BY <2>1 DEF Init, FreeWorker
  <2> QED  BY <2>2 DEF OneReport, Occupied, ErrorsExact
<1>2. IInv /\ IInv' /\ OneReport /\ ErrorsExact /\ [Next]_vars => OneReport' /\ ErrorsExact'
  BY OneReportStep, ErrorsStep
<1> QED  BY <1>1, <1>2, Invariant, PTL DEF Spec

=============================================================================
