--------------------------- MODULE PoolRefinement ---------------------------
(***************************************************************************)
(* WorkerPool implements TaskPool, for every value of the constants.       *)
(*                                                                         *)
(* A step of the pool is a step of TaskPool only because every job is in   *)
(* one place and every task in hand belongs to a slot of its own, so that  *)
(* the tasks in hand are no more than the slots.  These two facts join the *)
(* invariant of WorkerPoolProofs.                                          *)
(***************************************************************************)
EXTENDS WorkerPoolProofs

(* The fields of the tasks in a queue, as sequences.                       *)
JobOf == [t \in Task |-> t.job]
PidOf == [t \in Task |-> t.pid]
PidsOf(queue) == ImageOf(PidOf, queue.items)

(* The slots whose task is in assigned_tasks.                              *)
Holders == {i \in Busy : ~(pc = "spawned" /\ i = slot)}

(* The tasks in hand carry different pids, those of busy slots.            *)
OneSlotEach ==
  /\ NoRepeats(PidsOf(assigned_tasks))
  /\ Range(PidsOf(assigned_tasks)) \subseteq {workers[i].pid : i \in Holders}

(* A job has still to arrive, or waits once, or is in hand once.           *)
OnePlaceEach ==
  /\ NoRepeats(JobsOf(task_queue)) /\ NoRepeats(JobsOf(assigned_tasks))
  /\ Range(JobsOf(task_queue)) \cap Range(JobsOf(assigned_tasks)) = {}
  /\ arrivals \cap Range(JobsOf(task_queue)) = {}
  /\ arrivals \cap Range(JobsOf(assigned_tasks)) = {}

RInv == IInv /\ OneSlotEach /\ OnePlaceEach

-----------------------------------------------------------------------------
(***************************************************************************)
(* What the operations on the queues do to the fields of their tasks.      *)
(***************************************************************************)

LEMMA FieldTypes ==
  /\ DOMAIN JobOf = Task /\ Range(JobOf) \subseteq Jobs
  /\ DOMAIN PidOf = Task
  /\ \A t \in Task : JobOf[t] = t.job /\ PidOf[t] = t.pid
BY DEF JobOf, PidOf, Task, Range

LEMMA JobsOfIsImage ==
  ASSUME NEW queue \in QueueOf(Task)
  PROVE  /\ JobsOf(queue) = ImageOf(JobOf, queue.items)
         /\ JobsOf(queue) \in Seq(Jobs)
<1>1. queue.items \in Seq(Task) /\ DOMAIN queue.items = 1 .. Len(queue.items)
      /\ \A k \in 1 .. Len(queue.items) : queue.items[k] \in Task
  BY LenProperties, ElementOfSeq DEF QueueOf
<1>2. JobsOf(queue) = ImageOf(JobOf, queue.items)
  BY <1>1, FieldTypes DEF JobsOf, ImageOf
<1>3. ImageOf(JobOf, queue.items) \in Seq(Range(JobOf))
  BY <1>1, FieldTypes, ImageType
<1> QED  BY <1>2, <1>3, FieldTypes, SeqMonotonic

(* insertTask appends to both.                                             *)
LEMMA FieldsAfterInsert ==
  ASSUME NEW queue \in QueueOf(Task), NEW task \in Task
  PROVE  /\ JobsOf(insertTask(queue, task)) = Append(JobsOf(queue), task.job)
         /\ PidsOf(insertTask(queue, task)) = Append(PidsOf(queue), task.pid)
<1>1. /\ insertTask(queue, task) \in QueueOf(Task)
      /\ insertTask(queue, task).items = Append(queue.items, task)
  BY InsertTaskHolds DEF insertTask
<1>2. queue.items \in Seq(Task)
  BY DEF QueueOf
<1>3. ImageOf(JobOf, Append(queue.items, task)) = Append(ImageOf(JobOf, queue.items), task.job)
  BY <1>2, FieldTypes, ImageOfAppend
<1>4. ImageOf(PidOf, Append(queue.items, task)) = Append(ImageOf(PidOf, queue.items), task.pid)
  BY <1>2, FieldTypes, ImageOfAppend
<1> QED  BY <1>1, <1>3, <1>4, JobsOfIsImage DEF PidsOf

(* extractTask takes the head that readTask returns.                       *)
LEMMA JobsAfterExtract ==
  ASSUME NEW queue \in QueueOf(Task), queue.count = Len(queue.items), queue.count # 0
  PROVE  /\ JobsOf(queue) # << >> /\ Head(JobsOf(queue)) = readTask(queue).job
         /\ JobsOf(extractTask(queue)) = Tail(JobsOf(queue))
<1>1. queue.items \in Seq(Task) /\ queue.items # << >> /\ Head(queue.items) \in Task
  BY EmptySeq, HeadTailProperties DEF QueueOf
<1>2. readTask(queue) = Head(queue.items) /\ extractTask(queue).items = Tail(queue.items)
  BY DEF readTask, extractTask
<1>3. /\ ImageOf(JobOf, Tail(queue.items)) = Tail(ImageOf(JobOf, queue.items))
      /\ Head(ImageOf(JobOf, queue.items)) = JobOf[Head(queue.items)]
      /\ ImageOf(JobOf, queue.items) # << >>
  BY <1>1, FieldTypes, ImageOfTail
<1>4. extractTask(queue) \in QueueOf(Task)
  BY ExtractTaskCount
<1> QED  BY <1>1, <1>2, <1>3, <1>4, FieldTypes, JobsOfIsImage

(* extractTaskByPid takes the task that readTaskByPid returns, and no other*)
(* one of a queue in which it is the only one with its pid and job.        *)
LEMMA FieldsAfterExtractByPid ==
  ASSUME NEW queue \in QueueOf(Task), NEW pid, HoldsPid(queue, pid),
         NoRepeats(PidsOf(queue)), NoRepeats(JobsOf(queue))
  PROVE  LET rest == extractTaskByPid(queue, pid)
             job == readTaskByPid(queue, pid).job
         IN  /\ NoRepeats(PidsOf(rest)) /\ NoRepeats(JobsOf(rest))
             /\ Range(PidsOf(rest)) = Range(PidsOf(queue)) \ {pid}
             /\ Range(JobsOf(rest)) = Range(JobsOf(queue)) \ {job}
             /\ job \in Range(JobsOf(queue))
<1> DEFINE p == PositionOfPid(queue, pid)
           items == queue.items
           rest == extractTaskByPid(queue, pid)
<1>1. p \in 1 .. Len(items) /\ items[p].pid = pid
  BY PositionOfPidFound
<1>2. items \in Seq(Task) /\ items[p] \in Task /\ Len(items) \in Nat
  BY <1>1, ElementOfSeq, LenProperties DEF QueueOf
<1>3. /\ readTaskByPid(queue, pid) = items[p]
      /\ rest.items = RemoveAt(items, p) /\ rest \in QueueOf(Task)
  BY ExtractTaskByPidOthers DEF readTaskByPid, extractTaskByPid, QueueOf
<1> HIDE DEF p, rest
<1> DEFINE jobs == ImageOf(JobOf, items)
           pids == ImageOf(PidOf, items)
<1>4. /\ jobs \in Seq(Range(JobOf)) /\ Len(jobs) = Len(items) /\ jobs[p] = items[p].job
      /\ pids \in Seq(Range(PidOf)) /\ Len(pids) = Len(items) /\ pids[p] = pid
  <2>1. /\ jobs \in Seq(Range(JobOf)) /\ Len(jobs) = Len(items)
        /\ jobs[p] = JobOf[items[p]]
    BY <1>1, <1>2, FieldTypes, ImageType
  <2>2. /\ pids \in Seq(Range(PidOf)) /\ Len(pids) = Len(items)
        /\ pids[p] = PidOf[items[p]]
    BY <1>1, <1>2, FieldTypes, ImageType
  <2> QED  BY <1>1, <1>2, <2>1, <2>2, FieldTypes
<1>5. JobsOf(queue) = jobs /\ PidsOf(queue) = pids
  BY JobsOfIsImage DEF PidsOf
<1>6. JobsOf(rest) = RemoveAt(jobs, p)
  <2>1. ImageOf(JobOf, RemoveAt(items, p)) = RemoveAt(jobs, p)
    BY <1>1, <1>2, FieldTypes, ImageOfRemoveAt
  <2> QED  BY <1>3, <2>1, JobsOfIsImage
<1>7. PidsOf(rest) = RemoveAt(pids, p)
  <2>1. ImageOf(PidOf, RemoveAt(items, p)) = RemoveAt(pids, p)
    BY <1>1, <1>2, FieldTypes, ImageOfRemoveAt
  <2> QED  BY <1>3, <2>1 DEF PidsOf
<1> HIDE DEF jobs, pids
<1>8. NoRepeats(RemoveAt(jobs, p)) /\ Range(RemoveAt(jobs, p)) = Range(jobs) \ {jobs[p]}
  BY <1>1, <1>4, <1>5, NoRepeatsRemoveAt
<1>9. NoRepeats(RemoveAt(pids, p)) /\ Range(RemoveAt(pids, p)) = Range(pids) \ {pids[p]}
  BY <1>1, <1>4, <1>5, NoRepeatsRemoveAt
<1>10. jobs[p] \in Range(jobs)
  BY <1>1, <1>4, RangeEquality, Zenon
<1> QED
  BY <1>3, <1>4, <1>5, <1>6, <1>7, <1>8, <1>9, <1>10 DEF rest

-----------------------------------------------------------------------------
(***************************************************************************)
(* The two facts are invariant.                                            *)
(***************************************************************************)

(* What the steps do to the queues, to arrivals and to the record of       *)
(* completions: a step that is none of the three leaves them alone.        *)
LEMMA QueueEffects ==
  ASSUME IInv, [Next]_vars
  PROVE  \/ AssignTask
         \/ WorkerDone
         \/ \E j \in Jobs : Arrive(j)
         \/ UNCHANGED <<task_queue, assigned_tasks, arrivals, completed>>
BY StepsOfNext, ZenonT(40) DEF LeavesSlots, PipeFails, StopStarting, Poll, WorkerNotDone, AllAnswered,
   InputHandled, WorkerStep, Write, Exit, RecordPid, Fork, ReadReport, sigchld_handler,
   vars, queueVars

(* The task that AssignTask moves, and the one that WorkerDone records.    *)
LEMMA AssignedTask ==
  ASSUME IInv, AssignTask
  PROVE  /\ readTask(task_queue) \in Task /\ workers[slot].pid \in Pids
         /\ slot \in Busy /\ pc = "spawned" /\ Busy' = Busy
         /\ task_queue.count # 0 /\ task_queue.count = Len(task_queue.items)
         /\ [readTask(task_queue) EXCEPT !.pid = workers[slot].pid] \in Task
<1>1. slot \in Busy /\ task_queue.count # 0 /\ task_queue \in QueueOf(Task)
      /\ task_queue.count = Len(task_queue.items)
  BY TaskListIsQueueOf DEF IInv, AssignTask, ProgramOK, TasksOK, TypeOK
<1>2. workers[slot].pid \in Pids
  BY <1>1 DEF IInv, TypeOK, Busy, Worker
<1>3. readTask(task_queue) \in Task
  BY <1>1, ReadTaskFound
<1>4. [readTask(task_queue) EXCEPT !.pid = workers[slot].pid] \in Task
  BY <1>2, <1>3 DEF Task
<1>5. Busy' = Busy /\ pc = "spawned"
  BY BusyEffects DEF IInv, AssignTask
<1> QED  BY <1>1, <1>2, <1>3, <1>4, <1>5

LEMMA RecordedTask ==
  ASSUME IInv, WorkerDone
  PROVE  /\ pc = "check" /\ pc' = "respond"
         /\ slot \in Busy /\ Busy' = Busy \ {slot}
         /\ HoldsPid(assigned_tasks, workers[slot].pid)
         /\ readTaskByPid(assigned_tasks, workers[slot].pid) \in Task
         /\ assigned_tasks' = extractTaskByPid(assigned_tasks, workers[slot].pid)
<1>1. slot \in Busy /\ Busy' = Busy \ {slot} /\ pc = "check" /\ pc' = "respond"
  BY BusyEffects DEF IInv, WorkerDone
<1>2. HoldsPid(assigned_tasks, workers[slot].pid) /\ assigned_tasks \in QueueOf(Task)
  BY <1>1, TaskListIsQueueOf DEF IInv, TasksOK, TypeOK
<1>3. readTaskByPid(assigned_tasks, workers[slot].pid) \in Task
  BY <1>2, ReadTaskByPidFound
<1> QED  BY <1>1, <1>2, <1>3 DEF WorkerDone, CompleteTask

(* A slot gains its task in AssignTask and loses it in WorkerDone, and     *)
(* keeps its pid between the two.                                          *)
LEMMA HolderEffects ==
  ASSUME IInv, [Next]_vars
  PROVE  /\ AssignTask => Holders' = Holders \cup {slot} /\ slot \notin Holders
         /\ WorkerDone => Holders' = Holders \ {slot}
         /\ ~AssignTask /\ ~WorkerDone => Holders' = Holders
         /\ \A i \in Holders : ~(WorkerDone /\ i = slot) => workers'[i].pid = workers[i].pid
<1>0. TypeOK /\ SlotsOK /\ ProgramOK
  BY Zenon DEF IInv
<1> USE DEF Holders, SamePid, SameSlots
<1>1. ASSUME NEW i \in Slots, Fork(i) \/ ReadReport(i)
      PROVE  Holders' = Holders /\ \A k \in Slots : SamePid(k)
  BY <1>0, <1>1, BusyEffects, SlotEffects, Zenon DEF Fork, ReadReport
<1>2. ASSUME RecordPid
      PROVE  Holders' = Holders /\ slot \notin Holders /\ \A k \in Slots \ {slot} : SamePid(k)
  BY <1>0, <1>2, BusyEffects, SlotEffects DEF RecordPid
<1>3. ASSUME AssignTask
      PROVE  /\ Holders' = Holders \cup {slot} /\ slot \notin Holders
             /\ \A k \in Slots : SamePid(k)
  BY <1>0, <1>3, AssignedTask, SlotEffects DEF AssignTask
<1>4. ASSUME WorkerDone
      PROVE  Holders' = Holders \ {slot} /\ \A k \in Slots \ {slot} : SamePid(k)
  BY <1>0, <1>4, RecordedTask, SlotEffects
<1>5. ASSUME sigchld_handler
      PROVE  Holders' = Holders /\ \A k \in Slots : SamePid(k)
  BY <1>0, <1>5, BusyEffects, SlotEffects DEF sigchld_handler
<1>6. ASSUME LeavesSlots
      PROVE  Holders' = Holders /\ \A k \in Slots : SamePid(k)
  <2>1. Busy' = Busy /\ workers' = workers
    BY <1>0, <1>6, BusyEffects, LeavesSlotsUnchanged
  <2>2. UNCHANGED <<pc, slot>> \/ (pc # "spawned" /\ pc' # "spawned")
    BY <1>6 DEF LeavesSlots, PipeFails, StopStarting, Poll, WorkerNotDone, AllAnswered,
       InputHandled, Arrive, WorkerStep, Write, Exit, vars
  <2> QED  BY <2>1, <2>2
<1>7. Holders \subseteq Slots
  BY DEF Busy
<1>8. ~(AssignTask /\ WorkerDone)
  BY DEF AssignTask, WorkerDone
<1> QED  BY <1>1, <1>2, <1>3, <1>4, <1>5, <1>6, <1>7, <1>8, StepsOfNext

LEMMA QueueTypes ==
  ASSUME IInv
  PROVE  /\ task_queue \in QueueOf(Task) /\ assigned_tasks \in QueueOf(Task)
         /\ JobsOf(task_queue) \in Seq(Jobs) /\ JobsOf(assigned_tasks) \in Seq(Jobs)
         /\ PidsOf(assigned_tasks) \in Seq(Pids \cup {NoPid})
<1>1. task_queue \in QueueOf(Task) /\ assigned_tasks \in QueueOf(Task)
  BY TaskListIsQueueOf DEF IInv, TypeOK
<1>2. PidsOf(assigned_tasks) \in Seq(Range(PidOf))
  BY <1>1, FieldTypes, ImageType DEF PidsOf, QueueOf
<1>3. Range(PidOf) \subseteq Pids \cup {NoPid}
  BY DEF Range, PidOf, Task
<1> QED  BY <1>1, <1>2, <1>3, JobsOfIsImage, SeqMonotonic

LEMMA FactsInitially == Init => OneSlotEach /\ OnePlaceEach
<1> SUFFICES ASSUME Init PROVE OneSlotEach /\ OnePlaceEach
  OBVIOUS
<1>1. createTaskQueue \in QueueOf(Task) /\ createTaskQueue.items = << >>
  BY DEF createTaskQueue, QueueOf
<1>2. << >> \in Seq(DOMAIN PidOf) /\ << >> \in Seq(DOMAIN JobOf) /\ Len(<< >>) = 0
  OBVIOUS
<1>3. /\ ImageOf(PidOf, << >>) \in Seq(Range(PidOf)) /\ Len(ImageOf(PidOf, << >>)) = 0
      /\ ImageOf(JobOf, << >>) \in Seq(Range(JobOf)) /\ Len(ImageOf(JobOf, << >>)) = 0
  BY <1>2, ImageType
<1>4. ImageOf(PidOf, << >>) = << >> /\ ImageOf(JobOf, << >>) = << >>
  BY <1>3
<1>5. PidsOf(createTaskQueue) = << >> /\ JobsOf(createTaskQueue) = << >>
  BY <1>1, <1>4, JobsOfIsImage DEF PidsOf
<1>6. NoRepeats(<< >>) /\ Range(<< >>) = {}
  BY DEF NoRepeats, Range
<1> QED  BY <1>5, <1>6 DEF Init, OneSlotEach, OnePlaceEach

LEMMA OneSlotStep == RInv /\ [Next]_vars => OneSlotEach'
<1> SUFFICES ASSUME RInv, [Next]_vars PROVE OneSlotEach'
  OBVIOUS
<1> DEFINE pids == PidsOf(assigned_tasks)
<1>0. /\ IInv /\ NoRepeats(pids) /\ Range(pids) \subseteq {workers[i].pid : i \in Holders}
      /\ assigned_tasks \in QueueOf(Task) /\ pids \in Seq(Pids \cup {NoPid})
      /\ Holders \subseteq Busy
      /\ \A i, k \in Busy : workers[i].pid = workers[k].pid => i = k
  BY QueueTypes DEF RInv, OneSlotEach, IInv, SlotsOK, Holders
<1>1. CASE AssignTask
  <2> DEFINE task == [readTask(task_queue) EXCEPT !.pid = workers[slot].pid]
  <2>1. /\ task \in Task /\ task.pid = workers[slot].pid /\ workers[slot].pid \in Pids
        /\ slot \in Busy
    BY <1>0, <1>1, AssignedTask DEF Task
  <2>2. PidsOf(assigned_tasks') = Append(pids, workers[slot].pid)
    <3>1. assigned_tasks' = insertTask(assigned_tasks, task)
      BY <1>1 DEF AssignTask
    <3> HIDE DEF task
    <3> QED  BY <1>0, <2>1, <3>1, FieldsAfterInsert
  <2>3. Holders' = Holders \cup {slot} /\ slot \notin Holders
        /\ \A i \in Holders : workers'[i].pid = workers[i].pid
    BY <1>0, <1>1, HolderEffects DEF AssignTask, WorkerDone
  <2>4. workers'[slot].pid = workers[slot].pid
    BY <1>0, <1>1, SlotEffects DEF IInv, TypeOK, SamePid
  <2> HIDE DEF pids, task
  <2>5. workers[slot].pid \notin Range(pids)
    BY <1>0, <2>1, <2>3
  <2>6. /\ NoRepeats(Append(pids, workers[slot].pid))
        /\ Range(Append(pids, workers[slot].pid)) = Range(pids) \cup {workers[slot].pid}
    BY <1>0, <2>1, <2>5, NoRepeatsAppend, RangeOfAppend
  <2>7. Range(PidsOf(assigned_tasks')) \subseteq {workers'[i].pid : i \in Holders'}
    BY <1>0, <2>2, <2>3, <2>4, <2>6
  <2> QED  BY <2>2, <2>6, <2>7 DEF OneSlotEach, PidsOf
<1>2. CASE WorkerDone
  <2> DEFINE pid == workers[slot].pid
  <2>1. /\ HoldsPid(assigned_tasks, pid)
        /\ assigned_tasks' = extractTaskByPid(assigned_tasks, pid)
    BY <1>0, <1>2, RecordedTask
  <2>2. /\ NoRepeats(PidsOf(assigned_tasks'))
        /\ Range(PidsOf(assigned_tasks')) = Range(pids) \ {pid}
    BY <1>0, <2>1, FieldsAfterExtractByPid DEF RInv, OnePlaceEach
  <2>3. Holders' = Holders \ {slot}
        /\ \A i \in Holders \ {slot} : workers'[i].pid = workers[i].pid
    BY <1>0, <1>2, HolderEffects
  <2> HIDE DEF pids
  <2>4. Range(PidsOf(assigned_tasks')) \subseteq {workers'[i].pid : i \in Holders'}
    BY <1>0, <2>2, <2>3
  <2> QED  BY <2>2, <2>4 DEF OneSlotEach, PidsOf
<1>3. CASE ~AssignTask /\ ~WorkerDone
  <2>1. PidsOf(assigned_tasks') = pids
    <3>1. assigned_tasks' = assigned_tasks
      BY <1>0, <1>3, QueueEffects DEF Arrive
    <3> QED  BY <3>1
  <2>2. Holders' = Holders /\ \A i \in Holders : workers'[i].pid = workers[i].pid
    BY <1>0, <1>3, HolderEffects
  <2> HIDE DEF pids
  <2>3. Range(PidsOf(assigned_tasks')) \subseteq {workers'[i].pid : i \in Holders'}
    BY <1>0, <2>1, <2>2
  <2> QED  BY <1>0, <2>1, <2>3 DEF OneSlotEach, PidsOf
<1> QED  BY <1>1, <1>2, <1>3

(* The three steps that move a job, as TaskPool sees them.                 *)
LEMMA AssignMoves ==
  ASSUME RInv, AssignTask
  PROVE  LET waiting == JobsOf(task_queue)
             running == JobsOf(assigned_tasks)
         IN  /\ waiting # << >> /\ Head(waiting) \in Jobs
             /\ JobsOf(task_queue)' = Tail(waiting)
             /\ JobsOf(assigned_tasks)' = Append(running, Head(waiting))
             /\ UNCHANGED <<arrivals, completed>>
<1> DEFINE task == [readTask(task_queue) EXCEPT !.pid = workers[slot].pid]
<1>1. /\ task \in Task /\ readTask(task_queue) \in Task
      /\ task_queue.count # 0 /\ task_queue.count = Len(task_queue.items)
      /\ task_queue \in QueueOf(Task) /\ assigned_tasks \in QueueOf(Task)
  BY AssignedTask, QueueTypes DEF RInv
<1>2. task.job = readTask(task_queue).job /\ readTask(task_queue).job \in Jobs
  BY <1>1 DEF Task
<1>3. /\ assigned_tasks' = insertTask(assigned_tasks, task)
      /\ task_queue' = extractTask(task_queue)
      /\ UNCHANGED <<arrivals, completed>>
  BY DEF AssignTask
<1> HIDE DEF task
<1>4. /\ JobsOf(task_queue) # << >> /\ Head(JobsOf(task_queue)) = task.job
      /\ JobsOf(task_queue') = Tail(JobsOf(task_queue))
  BY <1>1, <1>2, <1>3, JobsAfterExtract
<1>5. JobsOf(assigned_tasks') = Append(JobsOf(assigned_tasks), task.job)
  BY <1>1, <1>3, FieldsAfterInsert
<1> QED  BY <1>2, <1>3, <1>4, <1>5 DEF JobsOf

LEMMA ArrivalMoves ==
  ASSUME RInv, NEW j \in Jobs, Arrive(j)
  PROVE  /\ j \in arrivals /\ arrivals' = arrivals \ {j}
         /\ JobsOf(task_queue)' = Append(JobsOf(task_queue), j)
         /\ JobsOf(assigned_tasks)' = JobsOf(assigned_tasks)
         /\ UNCHANGED completed
<1> DEFINE task == [pid |-> NoPid, job |-> j]
<1>1. task \in Task /\ task.job = j /\ task_queue \in QueueOf(Task)
  BY QueueTypes DEF RInv, Task
<1>2. /\ j \in arrivals /\ arrivals' = arrivals \ {j}
      /\ task_queue' = insertTask(task_queue, task)
      /\ UNCHANGED <<assigned_tasks, completed>>
  BY DEF Arrive
<1> HIDE DEF task
<1>3. JobsOf(task_queue') = Append(JobsOf(task_queue), j)
  BY <1>1, <1>2, FieldsAfterInsert
<1> QED  BY <1>2, <1>3 DEF JobsOf

LEMMA CompletionMoves ==
  ASSUME RInv, WorkerDone
  PROVE  LET running == JobsOf(assigned_tasks)
             j == readTaskByPid(assigned_tasks, workers[slot].pid).job
         IN  /\ j \in Jobs /\ j \in Range(running)
             /\ NoRepeats(JobsOf(assigned_tasks)')
             /\ Range(JobsOf(assigned_tasks)') = Range(running) \ {j}
             /\ {k \in Jobs : completed'[k] # NULL}
                  = {k \in Jobs : completed[k] # NULL} \cup {j}
             /\ JobsOf(task_queue)' = JobsOf(task_queue)
             /\ UNCHANGED arrivals
<1> DEFINE pid == workers[slot].pid
           task == readTaskByPid(assigned_tasks, pid)
           report == [pid |-> pid, errors |-> workers[slot].errors]
<1>1. /\ HoldsPid(assigned_tasks, pid) /\ task \in Task
      /\ assigned_tasks' = extractTaskByPid(assigned_tasks, pid)
      /\ assigned_tasks \in QueueOf(Task)
  BY RecordedTask, QueueTypes DEF RInv
<1>2. /\ NoRepeats(JobsOf(assigned_tasks'))
      /\ Range(JobsOf(assigned_tasks')) = Range(JobsOf(assigned_tasks)) \ {task.job}
      /\ task.job \in Range(JobsOf(assigned_tasks))
  BY <1>1, FieldsAfterExtractByPid DEF RInv, OneSlotEach, OnePlaceEach
<1>3. task.job \in Jobs
  BY <1>1 DEF Task
<1>4. task # NULL => completed' = [completed EXCEPT ![task.job] = report]
  BY DEF WorkerDone, CompleteTask
<1>5. report \in Completion
  <2>1. slot \in Busy /\ workers[slot] \in Worker
    BY RecordedTask DEF RInv, IInv, TypeOK, Busy
  <2> QED  BY <2>1 DEF Busy, Worker, Completion
<1>6. completed \in [Jobs -> Completion \cup {NULL}]
  BY DEF RInv, IInv, TypeOK
<1>7. task # NULL
  BY <1>1, NullAssumption
<1> HIDE DEF task, report, pid
<1>8. {k \in Jobs : completed'[k] # NULL} = {k \in Jobs : completed[k] # NULL} \cup {task.job}
  BY <1>3, <1>4, <1>5, <1>6, <1>7, NullAssumption
<1>9. UNCHANGED <<task_queue, arrivals>>
  BY DEF WorkerDone
<1> QED  BY <1>2, <1>3, <1>8, <1>9 DEF JobsOf, task, pid

(* Every job stays in one place.                                           *)
LEMMA OnePlaceStep == RInv /\ [Next]_vars => OnePlaceEach'
<1> SUFFICES ASSUME RInv, [Next]_vars PROVE OnePlaceEach'
  OBVIOUS
<1> DEFINE waiting == JobsOf(task_queue)
           running == JobsOf(assigned_tasks)
<1>0. /\ IInv /\ NoRepeats(waiting) /\ NoRepeats(running)
      /\ Range(waiting) \cap Range(running) = {}
      /\ arrivals \cap Range(waiting) = {} /\ arrivals \cap Range(running) = {}
      /\ waiting \in Seq(Jobs) /\ running \in Seq(Jobs)
  BY QueueTypes DEF RInv, OnePlaceEach
<1>1. CASE AssignTask
  <2>1. /\ waiting # << >> /\ Head(waiting) \in Jobs
        /\ waiting' = Tail(waiting) /\ running' = Append(running, Head(waiting))
        /\ arrivals' = arrivals
    BY <1>1, AssignMoves
  <2> HIDE DEF waiting, running
  <2>2. /\ NoRepeats(Tail(waiting)) /\ Range(Tail(waiting)) = Range(waiting) \ {Head(waiting)}
        /\ Head(waiting) \in Range(waiting)
    BY <1>0, <2>1, NoRepeatsTail, RangeOfTail
  <2>3. Head(waiting) \notin Range(running)
    BY <1>0, <2>2
  <2>4. /\ NoRepeats(Append(running, Head(waiting)))
        /\ Range(Append(running, Head(waiting))) = Range(running) \cup {Head(waiting)}
    BY <1>0, <2>1, <2>3, NoRepeatsAppend, RangeOfAppend
  <2>5. /\ NoRepeats(waiting') /\ NoRepeats(running')
        /\ Range(waiting') \cap Range(running') = {}
        /\ arrivals' \cap Range(waiting') = {} /\ arrivals' \cap Range(running') = {}
    BY <1>0, <2>1, <2>2, <2>4
  <2> QED  BY <2>5 DEF OnePlaceEach, waiting, running
<1>2. CASE WorkerDone
  <2> DEFINE j == readTaskByPid(assigned_tasks, workers[slot].pid).job
  <2>1. /\ NoRepeats(running') /\ Range(running') = Range(running) \ {j}
        /\ waiting' = waiting /\ arrivals' = arrivals
    BY <1>2, CompletionMoves
  <2> HIDE DEF waiting, running, j
  <2>2. /\ NoRepeats(waiting') /\ NoRepeats(running')
        /\ Range(waiting') \cap Range(running') = {}
        /\ arrivals' \cap Range(waiting') = {} /\ arrivals' \cap Range(running') = {}
    BY <1>0, <2>1
  <2> QED  BY <2>2 DEF OnePlaceEach, waiting, running
<1>3. ASSUME NEW j \in Jobs, Arrive(j) PROVE OnePlaceEach'
  <2>1. /\ j \in arrivals /\ arrivals' = arrivals \ {j}
        /\ waiting' = Append(waiting, j) /\ running' = running
    BY <1>3, ArrivalMoves
  <2> HIDE DEF waiting, running
  <2>2. j \notin Range(waiting) /\ j \notin Range(running)
    BY <1>0, <2>1
  <2>3. /\ NoRepeats(Append(waiting, j))
        /\ Range(Append(waiting, j)) = Range(waiting) \cup {j}
    BY <1>0, <2>2, NoRepeatsAppend, RangeOfAppend
  <2>4. /\ NoRepeats(waiting') /\ NoRepeats(running')
        /\ Range(waiting') \cap Range(running') = {}
        /\ arrivals' \cap Range(waiting') = {} /\ arrivals' \cap Range(running') = {}
    BY <1>0, <2>1, <2>2, <2>3
  <2> QED  BY <2>4 DEF OnePlaceEach, waiting, running
<1>4. CASE UNCHANGED <<task_queue, assigned_tasks, arrivals, completed>>
  BY <1>0, <1>4 DEF OnePlaceEach, JobsOf
<1> QED  BY <1>0, <1>1, <1>2, <1>3, <1>4, QueueEffects

(* RInv holds in every reachable state.                                    *)
THEOREM OneSlotOnePlace == Spec => []RInv
<1>1. Init => RInv
  BY InitEstablishes, FactsInitially DEF RInv
<1>2. RInv /\ [Next]_vars => RInv'
  <2>1. IInv /\ [Next]_vars => IInv'
    BY TypeStep, SlotsStep, ProgramStep, TasksStep, ProcessesStep, CompletedStep DEF IInv
  <2> QED  BY <2>1, OneSlotStep, OnePlaceStep DEF RInv
<1> QED  BY <1>1, <1>2, PTL DEF Spec

-----------------------------------------------------------------------------
(***************************************************************************)
(* The refinement.                                                         *)
(***************************************************************************)

(* When a task is about to be assigned, the jobs in hand leave room for it:*)
(* they are no more than the slots that hold one, and those are all the    *)
(* busy slots but this.                                                    *)
LEMMA RoomForTask ==
  ASSUME RInv, AssignTask
  PROVE  Cardinality(Range(JobsOf(assigned_tasks))) < WorkerLimit
<1> DEFINE items == assigned_tasks.items
           pids == PidsOf(assigned_tasks)
           jobs == JobsOf(assigned_tasks)
<1>1. slot \in Busy /\ pc = "spawned" /\ IInv
  BY AssignedTask DEF RInv
<1>2. Holders = Busy \ {slot}
  BY <1>1 DEF Holders
<1>3. IsFiniteSet(Busy) /\ Cardinality(Busy) \in 0 .. WorkerLimit
  BY SlotsFinite
<1>4. IsFiniteSet(Holders) /\ Cardinality(Holders) < WorkerLimit
  <2>1. IsFiniteSet(Busy \ {slot}) /\ Cardinality(Busy \ {slot}) = Cardinality(Busy) - 1
    BY <1>1, <1>3, FS_RemoveElement
  <2> QED  BY <1>2, <1>3, <2>1, WorkerLimitAssumption
<1>5. assigned_tasks \in QueueOf(Task) /\ items \in Seq(Task)
  BY <1>1, QueueTypes DEF QueueOf
<1>6. /\ jobs \in Seq(Range(JobOf)) /\ Len(jobs) = Len(items)
      /\ pids \in Seq(Range(PidOf)) /\ Len(pids) = Len(items)
  <2>1. /\ ImageOf(JobOf, items) \in Seq(Range(JobOf)) /\ Len(ImageOf(JobOf, items)) = Len(items)
        /\ ImageOf(PidOf, items) \in Seq(Range(PidOf)) /\ Len(ImageOf(PidOf, items)) = Len(items)
    BY <1>5, FieldTypes, ImageType
  <2> QED  BY <1>5, <2>1, JobsOfIsImage DEF PidsOf
<1>7. NoRepeats(pids) /\ Range(pids) \subseteq {workers[i].pid : i \in Holders}
  BY DEF RInv, OneSlotEach
<1> HIDE DEF jobs, pids, items
<1>8. Len(items) \in Nat /\ Range(jobs) = {jobs[k] : k \in 1 .. Len(items)}
      /\ Range(pids) = {pids[k] : k \in 1 .. Len(items)}
  BY <1>5, <1>6, LenProperties, RangeEquality
<1>9. IsFiniteSet(1 .. Len(items)) /\ Cardinality(1 .. Len(items)) = Len(items)
  <2>1. 1 \in Int /\ Len(items) \in Int /\ Len(items) - 1 + 1 = Len(items)
    BY <1>8
  <2>2. 1 > Len(items) => Len(items) = 0
    BY <1>8
  <2> QED  BY <2>1, <2>2, FS_Interval
<1>10. Cardinality(Range(jobs)) <= Len(items)
  <2> DEFINE job == [k \in 1 .. Len(items) |-> jobs[k]]
  <2>1. job \in Surjection(1 .. Len(items), Range(jobs))
    BY <1>8 DEF Surjection
  <2> QED  BY <1>9, <2>1, FS_Surjection
<1>11. Len(items) <= Cardinality(Holders)
  <2> DEFINE holder == [k \in 1 .. Len(items) |->
                          CHOOSE i \in Holders : workers[i].pid = pids[k]]
  <2>1. ASSUME NEW k \in 1 .. Len(items)
        PROVE  holder[k] \in Holders /\ workers[holder[k]].pid = pids[k]
    BY <1>7, <1>8
  <2>2. ASSUME NEW j \in 1 .. Len(items), NEW k \in 1 .. Len(items), holder[j] = holder[k]
        PROVE  j = k
    <3>1. pids[j] = pids[k]
      BY <2>1, <2>2
    <3> QED  BY <1>6, <1>7, <3>1 DEF NoRepeats
  <2> HIDE DEF holder
  <2>3. DOMAIN holder = 1 .. Len(items) /\ holder = [k \in 1 .. Len(items) |-> holder[k]]
    BY DEF holder
  <2>4. holder \in Injection(1 .. Len(items), Holders)
    BY <2>1, <2>2, <2>3 DEF Injection, IsInjective
  <2> QED  BY <1>4, <1>9, <2>4, FS_Injection
<1>12. Cardinality(Range(jobs)) \in Nat /\ Cardinality(Holders) \in Nat
  <2>1. Range(jobs) \subseteq {jobs[k] : k \in 1 .. Len(items)}
    BY <1>8
  <2> DEFINE job == [k \in 1 .. Len(items) |-> jobs[k]]
  <2>2. job \in Surjection(1 .. Len(items), Range(jobs))
    BY <1>8 DEF Surjection
  <2>3. IsFiniteSet(Range(jobs))
    BY <1>9, <2>2, FS_Surjection
  <2> QED  BY <1>4, <2>3, FS_CardinalityType
<1> QED  BY <1>4, <1>8, <1>10, <1>11, <1>12, WorkerLimitAssumption DEF jobs

(* The initial state is TaskPool's.                                        *)
LEMMA RefinementInit == Init => TP!Init
<1> SUFFICES ASSUME Init PROVE TP!Init
  OBVIOUS
<1>1. createTaskQueue.items = << >> /\ JobsOf(createTaskQueue) = << >>
  BY DEF createTaskQueue, JobsOf
<1>2. Range(<< >>) = {}
  BY DEF Range
<1> QED  BY <1>1, <1>2 DEF Init, TP!Init

(* Every step is a step of TaskPool or changes nothing that TaskPool sees: *)
(* a task is started when it is assigned and finished when WorkerDone      *)
(* records it.                                                             *)
LEMMA RefinementStep == RInv /\ [Next]_vars => [TP!Next]_(TP!poolVars)
<1> SUFFICES ASSUME RInv, [Next]_vars PROVE [TP!Next]_(TP!poolVars)
  OBVIOUS
<1> DEFINE waiting == JobsOf(task_queue)
           running == JobsOf(assigned_tasks)
           done == {k \in Jobs : completed[k] # NULL}
<1>1. CASE AssignTask
  <2>1. /\ waiting # << >> /\ Head(waiting) \in Jobs
        /\ waiting' = Tail(waiting) /\ running' = Append(running, Head(waiting))
        /\ arrivals' = arrivals /\ done' = done
    BY <1>1, AssignMoves
  <2>2. TP!Cardinality(Range(running)) < WorkerLimit
    <3>1. \A S : TP!Cardinality(S) = Cardinality(S)
      BY DEF TP!Cardinality, Cardinality
    <3> QED  BY <1>1, <3>1, RoomForTask
  <2>3. running \in Seq(Jobs)
    BY QueueTypes DEF RInv
  <2> HIDE DEF waiting, running, done
  <2>4. Range(running)' = Range(running) \cup {Head(waiting)}
    BY <2>1, <2>3, RangeOfAppend
  <2>5. TP!Start
    BY <2>1, <2>2, <2>4 DEF TP!Start, waiting, running, done
  <2> QED  BY <2>5 DEF TP!Next
<1>2. CASE WorkerDone
  <2>1. PICK j \in Jobs : j = readTaskByPid(assigned_tasks, workers[slot].pid).job
    BY <1>2, CompletionMoves
  <2>2. /\ j \in Range(running) /\ Range(running)' = Range(running) \ {j}
        /\ done' = done \cup {j} /\ waiting' = waiting /\ arrivals' = arrivals
    BY <1>2, <2>1, CompletionMoves
  <2>3. TP!Finish(j)
    BY <2>2 DEF TP!Finish
  <2> QED  BY <2>3 DEF TP!Next
<1>3. ASSUME NEW j \in Jobs, Arrive(j) PROVE TP!Next
  <2>1. /\ j \in arrivals /\ arrivals' = arrivals \ {j}
        /\ waiting' = Append(waiting, j) /\ running' = running /\ done' = done
    BY <1>3, ArrivalMoves
  <2>2. TP!Arrive(j)
    BY <2>1 DEF TP!Arrive
  <2> QED  BY <2>2 DEF TP!Next
<1>4. CASE UNCHANGED <<task_queue, assigned_tasks, arrivals, completed>>
  BY <1>4 DEF TP!poolVars, JobsOf
<1>5. IInv
  BY DEF RInv
<1> QED  BY <1>1, <1>2, <1>3, <1>4, <1>5, QueueEffects

(* WorkerPool implements TaskPool: whatever the workers, the signals and   *)
(* the descriptors do, jobs are handed out once each, in the order they    *)
(* were queued, never more than worker_limit at a time, and every          *)
(* completion the manager records is that of a job in hand.                *)
THEOREM Refinement == Spec => ImplementsTaskPool
<1>1. Spec => []RInv
  BY OneSlotOnePlace
<1> QED  BY <1>1, RefinementInit, RefinementStep, PTL DEF Spec, ImplementsTaskPool, TP!Spec

=============================================================================
