------------------------------ MODULE Manager ------------------------------
(***************************************************************************)
(* The event loop of src/main/fss_manager.c: commands from the console and *)
(* inotify events become tasks, completed tasks update the directory list  *)
(* and answer the console.                                                 *)
(*                                                                         *)
(*   try --> poll --> responses --> inotify --> command --> check --> try  *)
(*                        |                                   |            *)
(*                     crashed                              done           *)
(*                                                                         *)
(* poll takes a snapshot of what is readable, and the rest of the          *)
(* iteration works from it while the kernel goes on queueing events: that  *)
(* order is what the handlers lean on.                                     *)
(*                                                                         *)
(* The worker pool is the one of TaskPool, which WorkerPool implements: a  *)
(* task is queued, taken in FIFO order, done at some moment, and found     *)
(* done by a later pass.  The kernel's side of inotify is external.  What  *)
(* is written to fss_out is reduced to the COMMAND_FINISHED lines, each    *)
(* labelled with the command it answers; the label is the model's.         *)
(*                                                                         *)
(* The target of a pair is never read by the loop, nor is the name in an   *)
(* event, so neither is kept; every event stands for a different file, and *)
(* the three event types make tasks that differ in wording alone.          *)
(***************************************************************************)
EXTENDS DirList

CONSTANTS
  Sources,      \* source paths that commands may name
  Dirs,         \* the directories that exist
  DirOf,        \* the directory a path leads to, NULL if it leads nowhere
  Config,       \* the source paths of the configuration file, in order
  WorkerLimit,  \* worker_limit
  MaxCommands,  \* bound: commands the consoles may send
  MaxEvents     \* bound: file events in watched directories

INSTANCE LogScript WITH Paths <- Sources

ASSUME ManagerAssumption ==
  /\ DirOf \in [Sources -> Dirs \cup {NULL}]
  /\ Config \in Seq(Sources)
  /\ WorkerLimit \in Nat \ {0}
  /\ MaxCommands \in Nat
  /\ MaxEvents \in Nat

(* The entries of a configuration are different existing directories.      *)
ASSUME ConfigAssumption ==
  /\ \A k \in DOMAIN Config : DirOf[Config[k]] # NULL
  /\ \A j, k \in DOMAIN Config : DirOf[Config[j]] = DirOf[Config[k]] => j = k

Commands == 1 .. MaxCommands
Events == 1 .. MaxEvents
NoCommand == 0   \* sent_from_console and added_by_console when they are 0
NoWatch == -1    \* what inotify_add_watch returns for a missing directory

VARIABLES
  phase,           \* where the loop is
  ready,           \* what the last poll found readable: {"inotify", "fifo"}
  exiting,         \* the shutdown command that was executed, or NoCommand
  watched_dirs,    \* the list of pairs, NULL once freed
  log,             \* the log file, as fss_script.sh reads it
  task_queue,      \* tasks waiting for a worker
  assigned_tasks,  \* tasks a worker has, and whether it is done
  watch,           \* kernel: the watch descriptor on each directory
  next_wd,         \* kernel: the next watch descriptor
  ino_queue,       \* kernel: events nobody has read
  ino_buf,         \* the buffer of handle_inotify_read
  fss_in,          \* command lines in the FIFO
  fss_out,         \* COMMAND_FINISHED lines in the FIFO
  events,          \* how many file events have happened
  handled          \* history: the events whose task has been completed

loopVars == <<phase, ready, exiting>>
dirVars == <<watched_dirs, log>>
taskVars == <<task_queue, assigned_tasks, handled>>
kernelVars == <<watch, next_wd, ino_queue, events>>
managerVars == <<loopVars, dirVars, taskVars, kernelVars, ino_buf, fss_in, fss_out>>

Ops == {"add", "sync", "cancel", "status", "shutdown", "bad", "blank"}
Command == [op : Ops, src : Sources, id : Commands]
DirData == [source : Sources, watch_descriptor : Int,
            status : {"ACTIVE", "INACTIVE"}, synchronizing : {0, 1}]

ASSUME FreedListAssumption == NULL \notin Seq(DirData)

Task == [source : Sources, type : {"FULL", "EVENT"}, event : Events \cup {0},
         added_by_console : Commands \cup {NoCommand}, done : BOOLEAN]

FullTask(s, console) ==
  [source |-> s, type |-> "FULL", event |-> 0, added_by_console |-> console, done |-> FALSE]

EventTask(s, event) ==
  [source |-> s, type |-> "EVENT", event |-> event, added_by_console |-> NoCommand, done |-> FALSE]

-----------------------------------------------------------------------------

(* The loop is entered with the pairs of the configuration file added and  *)
(* their first synchronisation queued.                                     *)
ManagerInit ==
  /\ phase = "try" /\ ready = {} /\ exiting = NoCommand
  /\ watched_dirs = Reverse([k \in DOMAIN Config |->
       [source |-> Config[k], watch_descriptor |-> k, status |-> "ACTIVE", synchronizing |-> 1]])
  /\ log = [EmptyLog EXCEPT !.monitored =
       [s \in Sources |-> IF s \in Range(Config) THEN 1 ELSE Unset]]
  /\ task_queue = [k \in DOMAIN Config |-> FullTask(Config[k], NoCommand)]
  /\ assigned_tasks = << >>
  /\ watch = [d \in Dirs |->
       IF \E k \in DOMAIN Config : DirOf[Config[k]] = d
         THEN CHOOSE k \in DOMAIN Config : DirOf[Config[k]] = d
         ELSE NoWatch]
  /\ next_wd = Len(Config) + 1
  /\ ino_queue = << >> /\ ino_buf = << >>
  /\ fss_in = << >> /\ fss_out = << >>
  /\ events = 0 /\ handled = {}

-----------------------------------------------------------------------------
(***************************************************************************)
(* The commands, as functions on the part of the state they change.        *)
(***************************************************************************)

State == [dirs |-> watched_dirs, log |-> log, queue |-> task_queue, out |-> fss_out,
          watch |-> watch, next_wd |-> next_wd, ino |-> ino_queue]

(* insert_log and send_finito_signal_to_console, for a command that came   *)
(* from the console.                                                       *)
Reply(st, console) ==
  IF console = NoCommand THEN st ELSE [st EXCEPT !.out = Append(@, console)]

(* inotify_add_watch: a directory has one watch however often it is added. *)
WatchOn(st, s) ==
  IF DirOf[s] = NULL THEN NoWatch
  ELSE IF st.watch[DirOf[s]] # NoWatch THEN st.watch[DirOf[s]]
  ELSE st.next_wd

inotify_add_watch(st, s) ==
  IF WatchOn(st, s) = st.next_wd
    THEN [st EXCEPT !.watch[DirOf[s]] = st.next_wd, !.next_wd = @ + 1]
    ELSE st

(* inotify_rm_watch: pending events stay, and an IN_IGNORED follows them.  *)
inotify_rm_watch(st, wd) ==
  IF \E d \in Dirs : st.watch[d] = wd /\ wd # NoWatch
    THEN [st EXCEPT !.watch = [d \in Dirs |-> IF @[d] = wd THEN NoWatch ELSE @[d]],
                    !.ino = Append(@, [wd |-> wd, event |-> NULL])]
    ELSE st

(* Slip: a cancelled pair is made active without a new watch.              *)
sync_NotRewatched(st, s, console) ==
  LET k == findBySource(st.dirs, s) IN
  IF k = NULL \/ st.dirs[k].synchronizing = 1 THEN Reply(st, console)
  ELSE [st EXCEPT !.queue = Append(@, FullTask(s, console)),
                  !.dirs[k].status = "ACTIVE", !.dirs[k].synchronizing = 1]

(* Slip: the console is answered when the task is queued, and again later. *)
sync_AnswersAtOnce(st, s, console) ==
  LET k == findBySource(st.dirs, s) IN
  IF k = NULL \/ st.dirs[k].synchronizing = 1 THEN Reply(st, console)
  ELSE LET resumed ==
             IF st.dirs[k].status = "INACTIVE"
               THEN [inotify_add_watch(st, s) EXCEPT
                       !.dirs[k].watch_descriptor = WatchOn(st, s),
                       !.dirs[k].status = "ACTIVE"]
               ELSE st
       IN  Reply([resumed EXCEPT !.queue = Append(@, FullTask(s, console)),
                                 !.dirs[k].synchronizing = 1], console)

(* sync, typed (console is the command) or issued by add (NoCommand).  The *)
(* answer to a console comes with the completion of the task.              *)
sync(st, s, console) ==
  LET k == findBySource(st.dirs, s) IN
  IF k = NULL \/ st.dirs[k].synchronizing = 1 THEN Reply(st, console)
  ELSE LET resumed ==
             IF st.dirs[k].status = "INACTIVE"
               THEN [inotify_add_watch(st, s) EXCEPT
                       !.dirs[k].watch_descriptor = WatchOn(st, s),
                       !.dirs[k].status = "ACTIVE"]
               ELSE st
       IN  [resumed EXCEPT !.queue = Append(@, FullTask(s, console)),
                           !.dirs[k].synchronizing = 1]

(* Slip: add passes its sent_from_console on to the sync it issues.        *)
add_PassesConsole(st, s, console) ==
  IF findBySource(st.dirs, s) # NULL THEN Reply(st, console)
  ELSE LET data == [source |-> s, watch_descriptor |-> WatchOn(st, s),
                    status |-> "ACTIVE", synchronizing |-> 0]
           added == [inotify_add_watch(st, s) EXCEPT !.dirs = insertDirList(@, data),
                                                   !.log = MonitoringStarted(@, s)]
       IN  sync(Reply(added, console), s, console)

(* add_new_directory_pair: the console is answered before the first        *)
(* synchronisation is queued.                                              *)
add(st, s, console) ==
  IF findBySource(st.dirs, s) # NULL THEN Reply(st, console)
  ELSE LET data == [source |-> s, watch_descriptor |-> WatchOn(st, s),
                    status |-> "ACTIVE", synchronizing |-> 0]
           added == [inotify_add_watch(st, s) EXCEPT !.dirs = insertDirList(@, data),
                                                   !.log = MonitoringStarted(@, s)]
       IN  sync(Reply(added, console), s, NoCommand)

(* Slip: cancel of a pair that is not monitored is not answered.           *)
cancel_Silent(st, s, console) ==
  LET k == findBySource(st.dirs, s) IN
  IF k = NULL \/ st.dirs[k].status = "INACTIVE" THEN st
  ELSE Reply([inotify_rm_watch(st, st.dirs[k].watch_descriptor) EXCEPT
                !.dirs[k].status = "INACTIVE", !.dirs[k].synchronizing = 0,
                !.log = MonitoringStopped(@, s)], console)

(* Slip: cancel does not log that monitoring has stopped.                  *)
cancel_NotLogged(st, s, console) ==
  LET k == findBySource(st.dirs, s) IN
  IF k = NULL \/ st.dirs[k].status = "INACTIVE" THEN Reply(st, console)
  ELSE Reply([inotify_rm_watch(st, st.dirs[k].watch_descriptor) EXCEPT
                !.dirs[k].status = "INACTIVE", !.dirs[k].synchronizing = 0], console)

(* cancel: the pair stays in the list.                                     *)
cancel(st, s, console) ==
  LET k == findBySource(st.dirs, s) IN
  IF k = NULL \/ st.dirs[k].status = "INACTIVE" THEN Reply(st, console)
  ELSE Reply([inotify_rm_watch(st, st.dirs[k].watch_descriptor) EXCEPT
                !.dirs[k].status = "INACTIVE", !.dirs[k].synchronizing = 0,
                !.log = MonitoringStopped(@, s)], console)

(* shutdown frees the list; its answer is the manager's last line.  A      *)
(* blank line is not answered at all.                                      *)
execute_command(st, c) ==
  CASE c.op = "sync"     -> sync(st, c.src, c.id)
    [] c.op = "add"      -> add(st, c.src, c.id)
    [] c.op = "cancel"   -> cancel(st, c.src, c.id)
    [] c.op = "shutdown" -> [st EXCEPT !.dirs = freeList(@)]
    [] c.op = "blank"    -> st
    [] OTHER             -> Reply(st, c.id)     \* status, and bad commands

-----------------------------------------------------------------------------
(***************************************************************************)
(* The loop.                                                               *)
(***************************************************************************)

(* Slip: the limit is not looked at.                                       *)
try_doing_some_tasks_Unlimited ==
  /\ phase = "try"
  /\ assigned_tasks' = assigned_tasks \o task_queue
  /\ task_queue' = << >>
  /\ phase' = "poll"
  /\ UNCHANGED <<ready, exiting, dirVars, handled, kernelVars, ino_buf, fss_in, fss_out>>

(* Tasks are started in queue order while there is a free slot.            *)
try_doing_some_tasks ==
  /\ phase = "try"
  /\ LET free == WorkerLimit - Len(assigned_tasks)
         n == IF free < Len(task_queue) THEN free ELSE Len(task_queue)
     IN  /\ assigned_tasks' = assigned_tasks \o SubSeq(task_queue, 1, n)
         /\ task_queue' = SubSeq(task_queue, n + 1, Len(task_queue))
  /\ phase' = "poll"
  /\ UNCHANGED <<ready, exiting, dirVars, handled, kernelVars, ino_buf, fss_in, fss_out>>

DoneTasks == {k \in DOMAIN assigned_tasks : assigned_tasks[k].done}

Poll ==
  /\ phase = "poll"
  /\ ready' = (IF ino_queue # << >> THEN {"inotify"} ELSE {})
                \cup (IF fss_in # << >> THEN {"fifo"} ELSE {})
  /\ ready' # {} \/ DoneTasks # {}
  /\ phase' = "responses"
  /\ UNCHANGED <<exiting, dirVars, taskVars, kernelVars, ino_buf, fss_in, fss_out>>

(* Slip: a completed synchronisation leaves the flag set.                  *)
Complete_KeepsFlag(i) ==
  /\ phase = "responses" /\ i \in DoneTasks
  /\ LET task == assigned_tasks[i] IN
       IF findBySource(watched_dirs, task.source) = NULL
         THEN /\ phase' = "crashed"
              /\ UNCHANGED <<log, assigned_tasks, handled, fss_out>>
         ELSE /\ assigned_tasks' = RemoveAt(assigned_tasks, i)
              /\ log' = TaskCompleted(log, task.source)
              /\ handled' = handled \cup ({task.event} \ {0})
              /\ fss_out' = Reply(State, task.added_by_console).out
              /\ UNCHANGED phase
  /\ UNCHANGED <<ready, exiting, watched_dirs, task_queue, kernelVars, ino_buf, fss_in>>

(* The second half of handle_worker_responses.  Once the list is freed the *)
(* directory of a task is not found, and the null pointer is followed.     *)
Complete(i) ==
  /\ phase = "responses" /\ i \in DoneTasks
  /\ LET task == assigned_tasks[i]
         k == findBySource(watched_dirs, task.source)
     IN  IF k = NULL
           THEN /\ phase' = "crashed"
                /\ UNCHANGED <<dirVars, assigned_tasks, handled, fss_out>>
           ELSE /\ assigned_tasks' = RemoveAt(assigned_tasks, i)
                /\ watched_dirs' = IF task.type = "FULL"
                                     THEN [watched_dirs EXCEPT ![k].synchronizing = 0]
                                     ELSE watched_dirs
                /\ log' = TaskCompleted(log, task.source)
                /\ handled' = handled \cup ({task.event} \ {0})
                /\ fss_out' = Reply(State, task.added_by_console).out
                /\ UNCHANGED phase
  /\ UNCHANGED <<ready, exiting, task_queue, kernelVars, ino_buf, fss_in>>

(* Slip: a command that is ready is served instead of the events.          *)
AllAnswered_CommandInstead ==
  /\ phase = "responses" /\ DoneTasks = {}
  /\ phase' = IF "fifo" \in ready THEN "command"
              ELSE IF "inotify" \in ready THEN "inotify" ELSE "check"
  /\ UNCHANGED <<ready, exiting, dirVars, taskVars, kernelVars, ino_buf, fss_in, fss_out>>

(* The for loop over the workers is through.                               *)
AllAnswered ==
  /\ phase = "responses" /\ DoneTasks = {}
  /\ phase' = IF "inotify" \in ready THEN "inotify"
              ELSE IF "fifo" \in ready THEN "command" ELSE "check"
  /\ UNCHANGED <<ready, exiting, dirVars, taskVars, kernelVars, ino_buf, fss_in, fss_out>>

(* The source an event is attributed to; an event is known if it has one.  *)
PairOf(e) == findByWD(watched_dirs, e.wd)
TaskOf(e) == EventTask(watched_dirs[PairOf(e)].source, e.event)
Known(buffer) == {k \in DOMAIN buffer : buffer[k].event # NULL /\ PairOf(buffer[k]) # NULL}
Nth(P, n) == CHOOSE k \in P : Cardinality({j \in P : j < k}) = n - 1

(* Slip: the events of a pair that has been cancelled are dropped.         *)
TasksOf_ActiveOnly(buffer) ==
  LET active == {k \in Known(buffer) : watched_dirs[PairOf(buffer[k])].status = "ACTIVE"}
  IN  [n \in 1 .. Cardinality(active) |-> TaskOf(buffer[Nth(active, n)])]

(* The tasks that the events of a buffer make, in their order: none for an *)
(* IN_IGNORED, and none for a descriptor that is not in the list.          *)
TasksOf(buffer) ==
  [n \in 1 .. Cardinality(Known(buffer)) |-> TaskOf(buffer[Nth(Known(buffer), n)])]

(* One round of the loop in handle_inotify_read.  stored_bytes only grows, *)
(* so a round goes through the events of the earlier rounds again.         *)
handle_inotify_read ==
  /\ phase = "inotify"
  /\ IF ino_queue # << >>
       THEN /\ ino_buf' = ino_buf \o ino_queue
            /\ ino_queue' = << >>
            /\ task_queue' = task_queue \o TasksOf(ino_buf')
            /\ UNCHANGED phase
       ELSE /\ ino_buf' = << >>
            /\ phase' = IF "fifo" \in ready THEN "command" ELSE "check"
            /\ UNCHANGED <<ino_queue, task_queue>>
  /\ UNCHANGED <<ready, exiting, dirVars, assigned_tasks, handled,
                 watch, next_wd, events, fss_in, fss_out>>

(* handle_command_read: whatever lines one read returns, the first one is  *)
(* executed and the others are gone.                                       *)
handle_command_read ==
  /\ phase = "command" /\ exiting = NoCommand
  /\ LET c == Head(fss_in)
         st == execute_command(State, c)
     IN  /\ watched_dirs' = st.dirs
         /\ log' = st.log
         /\ task_queue' = st.queue
         /\ fss_out' = st.out
         /\ watch' = st.watch
         /\ next_wd' = st.next_wd
         /\ ino_queue' = st.ino
         /\ exiting' = IF c.op = "shutdown" THEN c.id ELSE NoCommand
  /\ fss_in' = << >>
  /\ phase' = "check"
  /\ UNCHANGED <<ready, assigned_tasks, handled, events, ino_buf>>

(* Drain FIFO, ignore commands while exiting.                              *)
IgnoreCommands ==
  /\ phase = "command" /\ exiting # NoCommand
  /\ fss_in' = << >>
  /\ phase' = "check"
  /\ UNCHANGED <<ready, exiting, dirVars, taskVars, kernelVars, ino_buf, fss_out>>

(* The end of an iteration, and of main.                                   *)
CheckExit ==
  /\ phase = "check"
  /\ IF exiting # NoCommand /\ assigned_tasks = << >> /\ task_queue = << >>
       THEN /\ phase' = "done"
            /\ fss_out' = Reply(State, exiting).out
       ELSE /\ phase' = "try"
            /\ UNCHANGED fss_out
  /\ UNCHANGED <<ready, exiting, dirVars, taskVars, kernelVars, ino_buf, fss_in>>

ManagerStep ==
  \/ try_doing_some_tasks \/ Poll \/ AllAnswered \/ handle_inotify_read
  \/ handle_command_read \/ IgnoreCommands \/ CheckExit
  \/ \E i \in 1 .. WorkerLimit : Complete(i)

-----------------------------------------------------------------------------
(***************************************************************************)
(* The surroundings: workers and the kernel.                               *)
(***************************************************************************)

WorkerFinishes(i) ==
  /\ i \in DOMAIN assigned_tasks /\ ~assigned_tasks[i].done
  /\ assigned_tasks' = [assigned_tasks EXCEPT ![i].done = TRUE]
  /\ UNCHANGED <<loopVars, dirVars, task_queue, handled, kernelVars, ino_buf, fss_in, fss_out>>

(* A file is created, written or deleted in a watched directory.           *)
FileEvent(d) ==
  /\ watch[d] # NoWatch /\ events < MaxEvents
  /\ phase \notin {"done", "crashed"}
  /\ events' = events + 1
  /\ ino_queue' = Append(ino_queue, [wd |-> watch[d], event |-> events'])
  /\ UNCHANGED <<loopVars, dirVars, taskVars, watch, next_wd, ino_buf, fss_in, fss_out>>

=============================================================================
