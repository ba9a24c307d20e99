----------------------------- MODULE WorkerPool -----------------------------
(***************************************************************************)
(* The manager's worker slots (src/main/fss_manager.c): the loop that      *)
(* forks a worker per task, the SIGCHLD handler that interrupts it between *)
(* any two steps, the poll over the workers' pipes, and the reading of     *)
(* their reports up to the moment a task is recorded as completed.         *)
(*                                                                         *)
(* The main thread is a program with the counter pc:                       *)
(*                                                                         *)
(*   try --(task, free slot)--> forked --> spawned --> try                 *)
(*   try --(otherwise)--> poll --> respond <--> check ; respond --> input  *)
(*   input --> try                                                         *)
(*                                                                         *)
(* Its steps are cut where the handler or a worker can tell the difference:*)
(* between fork and the assignment of the pid, between that assignment and *)
(* the reset of finished, and between the reading of a pipe and the test   *)
(* of finished.  File descriptors are numbers handed out lowest first,     *)
(* because a slot keeps polling the number of a descriptor that fclose has *)
(* closed, and the number may by then belong to another pipe.              *)
(*                                                                         *)
(* What a completion does to the directory list, the log and the console   *)
(* is in Manager.tla; here a completed task leaves its error count.        *)
(***************************************************************************)
EXTENDS TaskQueue

CONSTANTS
  Jobs,         \* the tasks that commands and inotify events may ever queue
  WorkerLimit,  \* worker_limit, the -n argument
  MaxForks,     \* bound: how many workers the model may fork
  MaxFd,        \* the limit on open descriptors left to the worker pipes
  MaxErrors,    \* bound: error lines in a worker's report
  StdioLines,   \* report lines that fit in the worker's stdout buffer
  EarlyExit,    \* may a worker exit before the manager has noted its pid?
  Faults        \* may a worker fail to exec, or die before it reports?

ASSUME WorkerLimitAssumption == WorkerLimit \in Nat \ {0}
ASSUME BoundsAssumption ==
  /\ MaxForks \in Nat
  /\ MaxFd \in Nat
  /\ MaxErrors \in Nat
  /\ StdioLines \in Nat \ {0}
ASSUME SwitchesAssumption == EarlyExit \in BOOLEAN /\ Faults \in BOOLEAN

Slots == 0 .. (WorkerLimit - 1)
Pids == 1 .. MaxForks
Fds == 0 .. (MaxFd - 1)

NoPid == -1    \* workers[i].pid of a free slot, and the pid of a waiting task
NoFd == -1     \* a pollfd that poll ignores

(***************************************************************************)
(* Reports.  A line is the pid that printed it and its kind.               *)
(***************************************************************************)
LineKinds == {"start", "status", "details", "errors", "error", "end", "exec failed"}
Line == [pid : Pids, kind : LineKinds]

Report(p, n) ==
  LET kinds == <<"start", "status", "details", "errors">>
                 \o [k \in 1 .. n |-> "error"] \o <<"end">>
  IN  [k \in 1 .. (n + 5) |-> [pid |-> p, kind |-> kinds[k]]]

(* What has been written of a report when the worker crashes over its      *)
(* error list, whose second node has no next: stdio writes full buffers.   *)
Crashed(report) ==
  {SubSeq(report, 1, k) : k \in {n \in 0 .. (Len(report) - 1) : n % StdioLines = 0}}

(* What a worker prints before it exits: its report, or, when things go    *)
(* wrong, a part of it, or the one line of the child whose exec failed.    *)
Outputs(p) ==
  LET reports == {Report(p, n) : n \in 0 .. MaxErrors}
  IN  reports \cup IF Faults
        THEN {<<[pid |-> p, kind |-> "exec failed"]>>} \cup UNION {Crashed(r) : r \in reports}
        ELSE {}

(***************************************************************************)
(* Descriptors.  The manager keeps the read end of each worker's stdout    *)
(* pipe and, never closing it, the write end of its stdin pipe.            *)
(***************************************************************************)
OpenFile == [end : {"read", "write"}, pid : Pids]

VARIABLES
  pc,              \* where the main thread is
  slot,            \* the slot the main thread is working on
  task_queue,      \* tasks waiting for a worker
  assigned_tasks,  \* tasks given to a worker
  workers,         \* the array of slots
  active_workers,  \* how many slots the manager believes are in use
  pfds,            \* pfds[i + 2].fd: the descriptor polled for slot i
  revents,         \* slots poll reported and the loop has not come to yet
  fds,             \* the manager's descriptor table
  forks,           \* how many workers have been forked; the last pid
  proc,            \* state of each worker process
  stdout,          \* what each worker has still to write
  pipe,            \* what each worker wrote and nobody has read
  sigchld,         \* whether a SIGCHLD is pending
  arrivals,        \* tasks that have not been queued yet
  printed,         \* history: the error lines in each worker's output
  completed        \* history: the completion recorded for each task

queueVars == <<task_queue, assigned_tasks, arrivals, completed>>
slotVars == <<workers, active_workers, pfds>>
processVars == <<forks, proc, stdout, pipe, sigchld, printed>>
vars == <<pc, slot, revents, fds, queueVars, slotVars, processVars>>

ProcessStates == {"unborn", "running", "zombie", "reaped"}
Task == [pid : Pids \cup {NoPid}, job : Jobs]
TaskList == [count : Nat, items : Seq(Task)]
Worker == [pid : Pids \cup {NoPid}, from_child : Fds \cup {NoFd},
           finished : {0, 1}, lines_recieved : Nat, errors : Nat]
Completion == [pid : Pids, errors : Nat]

ASSUME NullAssumption == NULL \notin Task \cup Completion \cup OpenFile

TypeOK ==
  /\ pc \in {"try", "forked", "spawned", "poll", "respond", "check", "input", "failed"}
  /\ slot \in Slots
  /\ task_queue \in TaskList
  /\ assigned_tasks \in TaskList
  /\ workers \in [Slots -> Worker]
  /\ active_workers \in 0 .. WorkerLimit
  /\ pfds \in [Slots -> Fds \cup {NoFd}]
  /\ revents \subseteq Slots
  /\ fds \in [Fds -> OpenFile \cup {NULL}]
  /\ forks \in 0 .. MaxForks
  /\ proc \in [Pids -> ProcessStates]
  /\ stdout \in [Pids -> Seq(Line)]
  /\ pipe \in [Pids -> Seq(Line)]
  /\ sigchld \in BOOLEAN
  /\ arrivals \subseteq Jobs
  /\ printed \in [Pids -> Nat]
  /\ completed \in [Jobs -> Completion \cup {NULL}]

-----------------------------------------------------------------------------

(* The state main leaves behind when it reaches its loop.                  *)
FreeWorker ==
  [pid |-> NoPid, from_child |-> NoFd, finished |-> 0, lines_recieved |-> 0, errors |-> 0]

Init ==
  /\ pc = "try"
  /\ slot = 0
  /\ task_queue = createTaskQueue
  /\ assigned_tasks = createTaskQueue
  /\ workers = [i \in Slots |-> FreeWorker]
  /\ active_workers = 0
  /\ pfds = [i \in Slots |-> NoFd]
  /\ revents = {}
  /\ fds = [f \in Fds |-> NULL]
  /\ forks = 0
  /\ proc = [p \in Pids |-> "unborn"]
  /\ stdout = [p \in Pids |-> << >>]
  /\ pipe = [p \in Pids |-> << >>]
  /\ sigchld = FALSE
  /\ arrivals = Jobs
  /\ printed = [p \in Pids |-> 0]
  /\ completed = [j \in Jobs |-> NULL]

-----------------------------------------------------------------------------
(***************************************************************************)
(* Spawning workers: try_doing_some_tasks and spawn_worker.                *)
(***************************************************************************)

(* The condition of the while loop.                                        *)
MoreToStart == active_workers < WorkerLimit /\ numOfTasks(task_queue) # 0

(* The slot the for loop settles on.                                       *)
FirstFree(i) ==
  /\ workers[i].pid = NoPid
  /\ \A j \in 0 .. (i - 1) : workers[j].pid # NoPid

FreeFds == {f \in Fds : fds[f] = NULL}
NthFree(n, f) == f \in FreeFds /\ Cardinality({g \in FreeFds : g < f}) = n - 1

(* pipe, pipe and fork.  The pipes take the four lowest free numbers, and  *)
(* the parent will close the first (the child's stdin) and the fourth (the *)
(* child's stdout).  The child runs from here on, while workers[i].pid is  *)
(* still unset.                                                            *)
Fork(i) ==
  /\ pc = "try" /\ MoreToStart /\ FirstFree(i)
  /\ Cardinality(FreeFds) >= 4
  /\ forks < MaxForks
  /\ forks' = forks + 1
  /\ proc' = [proc EXCEPT ![forks'] = "running"]
  /\ \E out \in Outputs(forks') :
       /\ stdout' = [stdout EXCEPT ![forks'] = out]
       /\ printed' = [printed EXCEPT ![forks'] =
                        Cardinality({k \in DOMAIN out : out[k].kind = "error"})]
  /\ \E to, from \in FreeFds :
       /\ NthFree(2, to) /\ NthFree(3, from)
       /\ fds' = [fds EXCEPT ![to] = [end |-> "write", pid |-> forks'],
                             ![from] = [end |-> "read", pid |-> forks']]
       /\ workers' = [workers EXCEPT ![i].from_child = from]
  /\ slot' = i
  /\ pc' = "forked"
  /\ UNCHANGED <<revents, queueVars, active_workers, pfds, pipe, sigchld>>

(* Slip: active_workers++ forgotten.                                       *)
RecordPid_NotCounted ==
  /\ pc = "forked"
  /\ workers' = [workers EXCEPT ![slot].pid = forks]
  /\ pfds' = [pfds EXCEPT ![slot] = workers[slot].from_child]
  /\ pc' = "spawned"
  /\ UNCHANGED <<slot, revents, fds, queueVars, active_workers, processVars>>

(* The rest of spawn_worker in the parent, and the pollfd.                 *)
RecordPid ==
  /\ pc = "forked"
  /\ workers' = [workers EXCEPT ![slot].pid = forks]
  /\ active_workers' = active_workers + 1
  /\ pfds' = [pfds EXCEPT ![slot] = workers[slot].from_child]
  /\ pc' = "spawned"
  /\ UNCHANGED <<slot, revents, fds, queueVars, processVars>>

(* Slip: the task is inserted before it is given the pid.                  *)
AssignTask_PidLate ==
  /\ pc = "spawned"
  /\ workers' = [workers EXCEPT ![slot] =
                 [@ EXCEPT !.finished = 0, !.errors = 0, !.lines_recieved = 0]]
  /\ assigned_tasks' = insertTask(assigned_tasks, readTask(task_queue))
  /\ task_queue' = extractTask(task_queue)
  /\ pc' = "try"
  /\ UNCHANGED <<slot, revents, fds, arrivals, completed, active_workers, pfds, processVars>>

(* Slip: the error count of the slot's previous task is not reset.         *)
AssignTask_KeepsErrors ==
  /\ pc = "spawned"
  /\ workers' = [workers EXCEPT ![slot] = [@ EXCEPT !.finished = 0, !.lines_recieved = 0]]
  /\ assigned_tasks' = insertTask(assigned_tasks,
                         [readTask(task_queue) EXCEPT !.pid = workers[slot].pid])
  /\ task_queue' = extractTask(task_queue)
  /\ pc' = "try"
  /\ UNCHANGED <<slot, revents, fds, arrivals, completed, active_workers, pfds, processVars>>

(* The slot is reset, finished included, and the task changes queue.       *)
AssignTask ==
  /\ pc = "spawned"
  /\ workers' = [workers EXCEPT ![slot] =
                 [@ EXCEPT !.finished = 0, !.errors = 0, !.lines_recieved = 0]]
  /\ assigned_tasks' = insertTask(assigned_tasks,
                         [readTask(task_queue) EXCEPT !.pid = workers[slot].pid])
  /\ task_queue' = extractTask(task_queue)
  /\ pc' = "try"
  /\ UNCHANGED <<slot, revents, fds, arrivals, completed, active_workers, pfds, processVars>>

(* pipe fails for want of descriptors: perror and exit(1).                 *)
PipeFails ==
  /\ pc = "try" /\ MoreToStart
  /\ Cardinality(FreeFds) < 4
  /\ pc' = "failed"
  /\ UNCHANGED <<slot, revents, fds, queueVars, slotVars, processVars>>

StopStarting ==
  /\ pc = "try" /\ ~MoreToStart
  /\ pc' = "poll"
  /\ UNCHANGED <<slot, revents, fds, queueVars, slotVars, processVars>>

-----------------------------------------------------------------------------
(***************************************************************************)
(* Polling and reading the reports: main and handle_worker_responses.      *)
(***************************************************************************)

Ended(p) == proc[p] \in {"zombie", "reaped"}

(* POLLIN or POLLHUP on the read end of a worker's stdout, POLLERR on the  *)
(* write end of its stdin, POLLNVAL (the 32 of the comment) on a number    *)
(* nobody has open.                                                        *)
PollReports(i) ==
  /\ pfds[i] # NoFd
  /\ LET file == fds[pfds[i]] IN
       \/ file = NULL
       \/ Ended(file.pid)
       \/ file.end = "read" /\ pipe[file.pid] # << >>

(* poll returns for a worker, or for a command or an inotify event.        *)
Poll ==
  /\ pc = "poll"
  /\ revents' = {i \in Slots : PollReports(i)}
  /\ revents' # {} \/ arrivals # {}
  /\ pc' = "respond"
  /\ UNCHANGED <<slot, fds, queueVars, slotVars, processVars>>

(* The fgets loop over the lines now in the pipe, for a slot that has read *)
(* earlier lines before: it stops behind an EXEC_REPORT_END that is not    *)
(* among the first four lines, and counts every other such line an error.  *)
EndsReport(before, lines, k) == before + k > 4 /\ lines[k].kind = "end"

LinesRead(before, lines) ==
  Cardinality({k \in DOMAIN lines : \A j \in 1 .. (k - 1) : ~EndsReport(before, lines, j)})

ErrorsRead(before, lines) ==
  Cardinality({k \in 1 .. LinesRead(before, lines) :
                 before + k > 4 /\ ~EndsReport(before, lines, k)})

(* Slip: EXEC_REPORT_END frees the slot (the assignment that line 541 has  *)
(* commented out).                                                         *)
ReadReport_FinishedAtEnd(i) ==
  /\ pc = "respond" /\ i \in revents /\ \A j \in revents : i <= j
  /\ revents' = revents \ {i}
  /\ slot' = i
  /\ pc' = "check"
  /\ LET fd == workers[i].from_child
         file == fds[fd]
         before == workers[i].lines_recieved
         lines == pipe[file.pid]
     IN  IF file # NULL /\ file.end = "read"
           THEN /\ workers' = [workers EXCEPT ![i] = [@ EXCEPT
                     !.lines_recieved = before + LinesRead(before, lines),
                     !.errors = workers[i].errors + ErrorsRead(before, lines),
                     !.finished = IF \E k \in DOMAIN lines : EndsReport(before, lines, k)
                                       THEN 1 ELSE @]]
                /\ pipe' = [pipe EXCEPT ![file.pid] = << >>]
                /\ fds' = [fds EXCEPT ![fd] = NULL]
           ELSE UNCHANGED <<workers, pipe, fds>>
  /\ UNCHANGED <<queueVars, active_workers, pfds, forks, proc, stdout, sigchld, printed>>

(* Slip: the slot is no longer polled once its descriptor is closed.       *)
ReadReport_StopsPolling(i) ==
  /\ pc = "respond" /\ i \in revents /\ \A j \in revents : i <= j
  /\ revents' = revents \ {i}
  /\ slot' = i
  /\ pc' = "check"
  /\ LET fd == workers[i].from_child
         file == fds[fd]
         before == workers[i].lines_recieved
         lines == pipe[file.pid]
     IN  IF file # NULL /\ file.end = "read"
           THEN /\ workers' = [workers EXCEPT ![i] = [@ EXCEPT
                     !.lines_recieved = before + LinesRead(before, lines),
                     !.errors = workers[i].errors + ErrorsRead(before, lines)]]
                /\ pipe' = [pipe EXCEPT ![file.pid] = << >>]
                /\ fds' = [fds EXCEPT ![fd] = NULL]
                /\ pfds' = [pfds EXCEPT ![i] = NoFd]
           ELSE UNCHANGED <<workers, pipe, fds, pfds>>
  /\ UNCHANGED <<queueVars, active_workers, forks, proc, stdout, sigchld, printed>>

(* The first half of handle_worker_responses: fdopen, the loop, fclose.    *)
(* fdopen fails on a closed number and on a write end.  fclose closes the  *)
(* descriptor however much of the report has come, and what the loop left  *)
(* unread goes with it.                                                    *)
ReadReport(i) ==
  /\ pc = "respond" /\ i \in revents /\ \A j \in revents : i <= j
  /\ revents' = revents \ {i}
  /\ slot' = i
  /\ pc' = "check"
  /\ LET fd == workers[i].from_child
         file == fds[fd]
         before == workers[i].lines_recieved
         lines == pipe[file.pid]
     IN  IF file # NULL /\ file.end = "read"
           THEN /\ workers' = [workers EXCEPT ![i] = [@ EXCEPT
                     !.lines_recieved = before + LinesRead(before, lines),
                     !.errors = workers[i].errors + ErrorsRead(before, lines)]]
                /\ pipe' = [pipe EXCEPT ![file.pid] = << >>]
                /\ fds' = [fds EXCEPT ![fd] = NULL]
           ELSE UNCHANGED <<workers, pipe, fds>>
  /\ UNCHANGED <<queueVars, active_workers, pfds, forks, proc, stdout, sigchld, printed>>

(* The second half, when the worker is known to have exited: close again,  *)
(* free the slot, record the completion of the task it held.               *)
FreeSlot(i) ==
  /\ workers' = [workers EXCEPT ![i] = [@ EXCEPT !.finished = 0, !.pid = NoPid]]
  /\ fds' = [fds EXCEPT ![workers[i].from_child] = NULL]
  /\ pfds' = [pfds EXCEPT ![i] = NoFd]
  /\ active_workers' = active_workers - 1

(* Slip: the head of assigned_tasks is extracted, not the worker's task.   *)
CompleteTask_ExtractsHead(i) ==
  LET pid == workers[i].pid
      task == readTaskByPid(assigned_tasks, pid)
  IN  /\ completed' = IF task = NULL THEN completed
                      ELSE [completed EXCEPT ![task.job] =
                              [pid |-> pid, errors |-> workers[i].errors]]
      /\ assigned_tasks' = [assigned_tasks EXCEPT !.items = Tail(@)]

CompleteTask(i) ==
  LET pid == workers[i].pid
      task == readTaskByPid(assigned_tasks, pid)
  IN  /\ completed' = IF task = NULL THEN completed
                      ELSE [completed EXCEPT ![task.job] =
                              [pid |-> pid, errors |-> workers[i].errors]]
      /\ assigned_tasks' = extractTaskByPid(assigned_tasks, pid)

WorkerDone ==
  /\ pc = "check" /\ workers[slot].finished = 1
  /\ FreeSlot(slot)
  /\ CompleteTask(slot)
  /\ pc' = "respond"
  /\ UNCHANGED <<slot, revents, task_queue, arrivals, processVars>>

(* The worker has not been seen to exit: the slot stays as it is, and poll *)
(* will report its descriptor again.                                       *)
WorkerNotDone ==
  /\ pc = "check" /\ workers[slot].finished = 0
  /\ pc' = "respond"
  /\ UNCHANGED <<slot, revents, fds, queueVars, slotVars, processVars>>

AllAnswered ==
  /\ pc = "respond" /\ revents = {}
  /\ pc' = "input"
  /\ UNCHANGED <<slot, revents, fds, queueVars, slotVars, processVars>>

(* handle_inotify_read and handle_command_read, as far as the pool goes:   *)
(* they append tasks, any number of them, in any order.                    *)
Arrive(j) ==
  /\ pc = "input" /\ j \in arrivals
  /\ arrivals' = arrivals \ {j}
  /\ task_queue' = insertTask(task_queue, [pid |-> NoPid, job |-> j])
  /\ UNCHANGED <<pc, slot, revents, fds, assigned_tasks, completed, slotVars, processVars>>

InputHandled ==
  /\ pc = "input"
  /\ pc' = "try"
  /\ UNCHANGED <<slot, revents, fds, queueVars, slotVars, processVars>>

-----------------------------------------------------------------------------
(***************************************************************************)
(* The worker processes and the signal handler.                            *)
(***************************************************************************)

(* The window in which an exit would go unnoticed (see sigchld_handler).   *)
JustForked(p) == p = forks /\ pc \in {"forked", "spawned"}

HasReader(p) == \E f \in Fds : fds[f] = [end |-> "read", pid |-> p]

(* The worker's stdout is a pipe, so stdio writes a bufferful at a time    *)
(* and the rest on exit.  Without a reader the write kills it (SIGPIPE),   *)
(* unless a worker forked later inherited the read end: then the write     *)
(* succeeds and nobody ever reads it.                                      *)
Write(p) ==
  /\ proc[p] = "running" /\ stdout[p] # << >>
  /\ LET n == IF StdioLines < Len(stdout[p]) THEN StdioLines ELSE Len(stdout[p])
         rest == SubSeq(stdout[p], n + 1, Len(stdout[p]))
     IN  \/ /\ HasReader(p)
            /\ pipe' = [pipe EXCEPT ![p] = @ \o SubSeq(stdout[p], 1, n)]
            /\ stdout' = [stdout EXCEPT ![p] = rest]
            /\ UNCHANGED <<proc, sigchld>>
         \/ /\ ~HasReader(p)
            /\ \E q \in Pids : q > p /\ proc[q] = "running"
            /\ stdout' = [stdout EXCEPT ![p] = rest]
            /\ UNCHANGED <<proc, sigchld, pipe>>
         \/ /\ ~HasReader(p)
            /\ proc' = [proc EXCEPT ![p] = "zombie"]
            /\ stdout' = [stdout EXCEPT ![p] = << >>]
            /\ sigchld' = TRUE
            /\ UNCHANGED pipe
  /\ UNCHANGED <<pc, slot, revents, fds, queueVars, slotVars, forks, printed>>

Exit(p) ==
  /\ proc[p] = "running" /\ stdout[p] = << >>
  /\ EarlyExit \/ ~JustForked(p)
  /\ proc' = [proc EXCEPT ![p] = "zombie"]
  /\ sigchld' = TRUE
  /\ UNCHANGED <<pc, slot, revents, fds, queueVars, slotVars, forks, stdout, pipe, printed>>

(* Slip: the handler marks every busy slot.                                *)
sigchld_handler_MarksAll ==
  /\ sigchld /\ pc # "failed"
  /\ sigchld' = FALSE
  /\ proc' = [p \in Pids |-> IF proc[p] = "zombie" THEN "reaped" ELSE proc[p]]
  /\ workers' = [i \in Slots |->
       IF workers[i].pid # NoPid THEN [workers[i] EXCEPT !.finished = 1] ELSE workers[i]]
  /\ UNCHANGED <<pc, slot, revents, fds, queueVars, active_workers, pfds,
                 forks, stdout, pipe, printed>>

(* Slip: the handler counts the worker off, and so does the main thread.   *)
sigchld_handler_CountsOff ==
  /\ sigchld /\ pc # "failed"
  /\ sigchld' = FALSE
  /\ proc' = [p \in Pids |-> IF proc[p] = "zombie" THEN "reaped" ELSE proc[p]]
  /\ workers' = [i \in Slots |->
       IF workers[i].pid # NoPid /\ proc[workers[i].pid] = "zombie"
         THEN [workers[i] EXCEPT !.finished = 1]
         ELSE workers[i]]
  /\ active_workers' = active_workers - Cardinality({p \in Pids : proc[p] = "zombie"})
  /\ UNCHANGED <<pc, slot, revents, fds, queueVars, pfds, forks, stdout, pipe, printed>>

(* The handler reaps every zombie and marks the slots it finds them in: a  *)
(* worker whose pid is not in the array yet is reaped and marks none.      *)
sigchld_handler ==
  /\ sigchld /\ pc # "failed"
  /\ sigchld' = FALSE
  /\ proc' = [p \in Pids |-> IF proc[p] = "zombie" THEN "reaped" ELSE proc[p]]
  /\ workers' = [i \in Slots |->
       IF workers[i].pid # NoPid /\ proc[workers[i].pid] = "zombie"
         THEN [workers[i] EXCEPT !.finished = 1]
         ELSE workers[i]]
  /\ UNCHANGED <<pc, slot, revents, fds, queueVars, active_workers, pfds,
                 forks, stdout, pipe, printed>>

-----------------------------------------------------------------------------

MainThread ==
  \/ \E i \in Slots : Fork(i) \/ ReadReport(i)
  \/ RecordPid \/ AssignTask \/ PipeFails \/ StopStarting
  \/ Poll \/ WorkerDone \/ WorkerNotDone \/ AllAnswered \/ InputHandled

WorkerStep(p) == Write(p) \/ Exit(p)

(* Nothing left to do: the manager sits in poll, or has exited.            *)
Quiet ==
  /\ pc = "failed" \/ (pc = "poll" /\ arrivals = {} /\ active_workers = 0)
  /\ UNCHANGED vars

Next ==
  \/ MainThread
  \/ \E j \in Jobs : Arrive(j)
  \/ \E p \in Pids : WorkerStep(p)
  \/ sigchld_handler
  \/ Quiet

Spec == Init /\ [][Next]_vars

(* The kernel runs the manager and every worker, and delivers signals; it  *)
(* owes nobody a new task.                                                 *)
FairSpec ==
  /\ Spec
  /\ WF_vars(MainThread)
  /\ WF_vars(sigchld_handler)
  /\ \A p \in Pids : WF_vars(WorkerStep(p))

-----------------------------------------------------------------------------
(***************************************************************************)
(* Safety.                                                                 *)
(***************************************************************************)

(* No more worker processes exist at once than worker_limit: the processes *)
(* are counted, zombies included, and not the slots.  active_workers is    *)
(* decremented on the word of a flag the handler sets asynchronously.      *)
LiveWorkers == {p \in Pids : proc[p] \in {"running", "zombie"}}
LiveWorkersBounded == Cardinality(LiveWorkers) <= WorkerLimit

(* While active_workers is below the limit there is a slot for the task at *)
(* the head of the queue.  try_doing_some_tasks relies on it: without one  *)
(* its for loop starts no worker, and line 404 drops the task all the same.*)
SlotAvailable ==
  pc = "try" /\ active_workers < WorkerLimit => \E i \in Slots : workers[i].pid = NoPid

(* "Shouldnt ever happen": a worker that is known to have exited has its   *)
(* task in assigned_tasks when the main thread looks for it.               *)
TaskFound ==
  pc = "check" /\ workers[slot].finished = 1 => HoldsPid(assigned_tasks, workers[slot].pid)

(* The manager "waits for SIGCHLD to confirm exit before freeing the slot" *)
(* (README.md): a task is recorded as completed only when its own worker   *)
(* has exited and has been reaped, whatever the descriptors did meanwhile. *)
CompletedReaped ==
  \A j \in Jobs : completed[j] # NULL => proc[completed[j].pid] = "reaped"

(* The error count that reaches the log, and error_count of the directory, *)
(* is the number of error lines of the worker that had this task: none is  *)
(* lost, counted twice, left over from the slot's previous task or taken   *)
(* from another worker's report.                                           *)
ErrorsExact ==
  \A j \in Jobs : completed[j] # NULL => completed[j].errors = printed[completed[j].pid]

(***************************************************************************)
(* The pool implements TaskPool: jobs are handed out in the order in which *)
(* they were queued, each once, at most WorkerLimit are in hand, and each  *)
(* completion is that of a job in hand.                                    *)
(***************************************************************************)
JobsOf(queue) == [k \in DOMAIN queue.items |-> queue.items[k].job]

TP == INSTANCE TaskPool WITH
        Limit <- WorkerLimit,
        waiting <- JobsOf(task_queue),
        running <- Range(JobsOf(assigned_tasks)),
        done <- {j \in Jobs : completed[j] # NULL}

ImplementsTaskPool == TP!Spec

(***************************************************************************)
(* Liveness.                                                               *)
(***************************************************************************)

(* Every task that is queued is eventually completed.                      *)
EveryTaskCompletes == \A j \in Jobs : j \notin arrivals ~> completed[j] # NULL

(* A worker that has exited gives its slot back.                           *)
SlotFreedAfterExit ==
  \A p \in Pids : proc[p] = "reaped" ~> \A i \in Slots : workers[i].pid # p

=============================================================================
