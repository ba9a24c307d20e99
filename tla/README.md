# TLA+ specifications of syspro-hw1

`fss_manager` keeps target directories synchronised with source directories. It
is one process with a `poll` loop, a SIGCHLD handler and up to `worker_limit`
forked workers; `fss_console` talks to it over two FIFOs. These modules model
the manager, its console, the workers' copying and deleting of files, and what
the log script makes of the manager's log. They are checked with TLC on small
instances. Every invariant and every action property that a run finds to hold is
also proved with TLAPS for all values of the parameters, some of them under
hypotheses that section 4 names, and so is that the pool implements its abstract
specification. Liveness is model-checked only.

Paths below are relative to the repository.

## 1. Inventory

| Component | State | Operations | Interacts with |
|---|---|---|---|
| Worker pool (`src/main/fss_manager.c`) | `workers[]` (pid, pipe ends, `finished`, line and error counters), `active_workers`, `pfds[]`, `task_queue`, `assigned_tasks` | `spawn_worker` 90-143, `try_doing_some_tasks` 376-406, `sigchld_handler` 61-75, response loop 314-323, `handle_worker_responses` 506-653 | worker processes (fork, pipe, SIGCHLD), kernel descriptor table |
| Event loop and commands (`src/main/fss_manager.c`) | `watched_dirs`, `exiting`, the inotify buffer | main loop 296-354, `handle_inotify_read` 655-768, `handle_command_read` 770-792, `execute_command` 794-943, `add_new_directory_pair` 439-475 | console (FIFOs), inotify, both task queues |
| Task queue (`src/modules/TaskQueue.c`) | linked nodes, `count` | create, insert, read, extract, the same by pid | used twice by the manager |
| Directory list (`src/modules/DirList.c`) | linked nodes, `count` | create, insert, find by source, target or watch descriptor, remove, free | manager |
| Console (`src/main/fss_console.c`) | whether it prompts or waits | prompt, send, read until `COMMAND_FINISHED` | manager (FIFOs) |
| Worker (`src/main/worker.c`) | files, file locks, error list | full synchronisation, copy, delete, report | other workers (files and locks), manager (stdout, exit) |
| Log script (`fss_script.sh`) | none | listAll, listMonitored, listStopped, purge | the manager's log |

What is hard in this system:

* **A handler that runs between any two steps.** `sigchld_handler` writes
  `finished` while the main thread spawns workers, reads pipes and frees slots.
  Neither the pid in the slot nor the reset of `finished` is protected from it.
* **Four views of a busy slot**, changed one after the other: the pid in the
  slot, `active_workers`, the task in `assigned_tasks`, the process.
* **Descriptor numbers that outlive the file.** `fclose` closes a descriptor
  whose number stays in `pfds` and in the slot.
* **A snapshot that goes stale.** `poll` says what is readable once per
  iteration while events keep arriving; the order of the handlers matters.
* **A protocol with one answer per command**, where the answer of `sync` comes
  with the completion of a task and `add` issues a `sync` of its own.
* **Flags with a history**: `synchronizing`, `status` and `watch_descriptor`
  through sequences of add, cancel and sync, and `shutdown` in the middle.
* **Workers of one pair running concurrently** on the same files, which go on
  changing: copies are kept apart by `flock` on the source, the target is
  truncated before its own lock is asked for, and deletions take no lock.
* **A log read as a state**: `fss_script.sh` takes the last monitoring line of
  a directory for its status.

What makes each component correct:

* pool: no more than `worker_limit` workers; no task dropped, run twice or
  completed before its own worker is reaped; the error count of a task is that
  of its worker; every task completes and every slot is freed;
* event loop: a pair marked as synchronizing is being synchronised; an active
  pair is watched; every pending event belongs to a known pair and makes one
  task; shutdown drains;
* console: exactly one answer to the command it waits for, and none left over;
* task queue and directory list: what sequences promise;
* worker: the target ends up equal to the source; no deadlock on locks;
* log script: what it lists as monitored is monitored.

## 2. Modules

```
TaskQueue <--- WorkerPool <--- MCWorkerPool        DirList   <--- Manager <--- System <--- MCSystem
                    |                              LogScript <------+  :
               (implements)                                      (pool abstracted
                    v                                             as in TaskPool)
                TaskPool                           Mirror <--- MCMirror

SequenceFacts <--- TaskQueueProofs <--- WorkerPoolProofs <--- PoolRefinement
      ^                                 (of WorkerPool)       (WorkerPool => TaskPool)
      +----------- SystemProofs (of System, Manager) <--- ConsoleProofs
      +----------- MirrorProofs (of Mirror) <--- MirrorConvergence
```

`TaskQueue.tla`, `DirList.tla`: the two C modules as operators. A queue is the
sequence its nodes spell together with the `count` field, which is kept apart
because the code trusts it (`readTask`) and because `extractTaskByPid` does not
decrement it. A directory list is a sequence, newest first, and NULL after
`freeList`; the pointers that the find operations return are positions.

`WorkerPool.tla`: the main thread is a program with the counter `pc`, cut where
the handler or a worker can tell the difference.

| Action | Code |
|---|---|
| `Fork(i)` | `spawn_worker` up to the return of fork: pipes, the child starts. `workers[i].pid` is still -1 |
| `RecordPid` | 138-141 and `pfds` at 392 |
| `AssignTask` | 393-404: `finished = 0`, counters, the task changes queue |
| `PipeFails` | 92-96, when descriptors run out |
| `StopStarting`, `Poll` | the loop condition 384; `poll` 305 and the test of `revents` 319 |
| `ReadReport(i)` | 509-566: fdopen, the fgets loop, fclose |
| `WorkerDone`, `WorkerNotDone` | 568-650, with `finished` 1 or 0 |
| `Arrive(j)` | a command or an event appends a task |
| `Write(p)`, `Exit(p)` | the worker: a bufferful of its report, its exit |
| `sigchld_handler` | 61-75: reaps every zombie, marks the slots it finds them in |

Descriptors are numbers, lowest free first, as `pipe` hands them out. The
manager keeps two of the four per worker: the read end of stdout and, since it
never closes it, the write end of stdin. A report is a sequence of lines of
which only the kind matters; a worker that crashes over its error list leaves
whole buffers of it (`Crashed`). `printed` and `completed` are history variables.

`TaskPool.tla`: what the pool promises. Jobs wait in FIFO order, at most
`Limit` are in hand, each is handed out once and finished at most once.
`WorkerPool` implements it under the mapping `TP`.

`Manager.tla`: the loop over an abstract pool in the manner of `TaskPool`: a
task is started in queue order when a slot is free, becomes done, and is found
done in the response phase. The commands are functions on the part of the state
they change, in the code's order: `add` answers the console and then issues
`sync`. `handle_inotify_read` is one action per round of its loop, so that
events can arrive between two reads. `COMMAND_FINISHED` lines carry the command
they answer; the label belongs to the model.

`System.tla`: adds the console, its waits, `exit`, and consoles that are
interrupted while they wait and replaced, or that write when the manager has
gone.

`LogScript.tla`: the listings of `fss_script.sh`. A log is represented by what
the awk programs' arrays hold after reading it, `monitored` and `last_entry`;
the manager logs a line by changing them (`add`, `cancel`, completed tasks), so
a listing can be taken in every state.

`Mirror.tla`: `worker.c`, one action per system call, so that the calls of
several workers interleave in every way.

| Action | Code |
|---|---|
| `Opendir`, `Readdir`, `EndOfDirectory` | `do_the_synchronization` 308-377 |
| `OpenSource`, `LockSource` | `copy_file` 125-141 |
| `OpenTarget`, `LockTarget` | 143-163: created or truncated first, locked second |
| `Read`, `Write` | 165-181 |
| `UnlockSource`, `UnlockTarget` | 195-199, and the same calls on the way out of a failed copy |
| `Unlink` | `delete_file` 202-214, without a lock |
| `SourceIsGone`, `TargetIsGone` | the file to copy or delete has been removed meanwhile |
| `OpendirFails`, `SourceFails`, `TargetFails`, `CopyFails`, `UnlinkFails`, `Dies` | a call that fails for reasons of its own; a worker that is killed |
| `UserOpens`, `UserWrites`, `UserCloses`, `UserDeletes` | a program that saves or deletes a file in a source directory |
| `Start`, `Sync` | the manager: tasks in queue order while a slot is free; the sync command |

Names refer to inodes and descriptors keep inodes open, because a worker goes on
with the file it opened when the name is gone; locks belong to open files. The
content of a file is a sequence of chunks, one per bufferful, and a chunk is the
number of the save that wrote it. Creating, closing after writing and deleting a
file in a source directory makes the task that `handle_inotify_read` makes of
the event, also when it is a worker that does it: the target of one pair may be
the source of another.

Definitions whose comment begins with "Slip:" are variants that make a
plausible mistake. No specification uses them; each is what a property must be
able to tell from the code.

## 3. What the runs check

Symbols of the bounds: `WorkerLimit` slots, `MaxForks` workers in all, `MaxFd`
descriptors, `MaxErrors` error lines per report, `StdioLines` lines per buffer
of the worker's stdout, `MaxCommands` commands, `MaxEvents` file events. In
`Mirror`: `MaxChunks` chunks in a file, `MaxSaves`, `MaxDeletes`, `MaxSyncs` and
`MaxFaults` of each kind of trouble and `MaxTrouble` of all kinds together.

| Run | Instance | Shows |
|---|---|---|
| `PoolSafety` | 2 slots, 3 jobs, 6 descriptors, 4 lines per buffer, so that reports are read in parts, early exits, faults and crashes; 1.4 million states | `TypeOK`, `LiveWorkersBounded`, `SlotAvailable`, `TaskFound`, `CompletedReaped`, and the refinement `ImplementsTaskPool` |
| `PoolReports` | 1 slot, 3 jobs, up to 2 errors, early exits and faults | `ErrorsExact`: the count is neither left over from the slot's last task nor counted twice |
| `PoolLiveness` | 2 slots, 2 jobs, 4 lines per buffer, faults and crashes, no early exits | `EveryTaskCompletes` |
| `PoolEarlyExit` | 1 slot, 2 jobs, early exits | `SlotFreedAfterExit` is violated |
| `PoolReusedDescriptor` | 2 slots, 4 jobs | `ErrorsExact` is violated |
| `ManagerSafety` | 1 configured pair, 4 commands, 2 events, 1 slot, interrupted consoles; 3.0 million states | `TypeOK`, `FlagIsBacked`, `PendingEventsAreKnown`, `ActiveMeansWatched`, `ListMonitoredIsActive` |
| `ConsoleAnswers` | 2 pairs, 3 commands of every kind, 1 event, 2 slots | `WaitingIsAnsweredOnce`, `NoStrayAnswer`, `CommandsAreAnswered`, `EventsAreHandled` |
| `ShutdownDrains` | 2 commands | `NoCrash` is violated |
| `RepeatedEvents` | 1 configured pair, 2 events | `EventsMakeOneTask` is violated |
| `SecondFullSync` | 3 commands | `OneFullSync` is violated |
| `MirrorConverges` | pairs a→b and b→c, 1 file that c lacks at first, 2 workers, 2 saves, 1 deletion, 1 sync, 1 fault, 2 of these in all; 1.2 million states | `TypeOK`, `NothingSilentlyStale`, `TruncatesNoCopy`, `OriginalsUntouched`, `NoDeadlock`, `TasksEnd` |
| `MirrorDeletions` | 1 pair, 1 file, 2 workers, 1 save, 1 deletion | `TargetFollowsSource` is violated |

**Why the bounds are enough.** Two slots are the least at which descriptors are
reused across slots and two workers end in one run of the handler; three jobs
make a slot be used again while the other is busy; six descriptors are enough
for one spawn and too few for three. A report has five lines or more, so with
four to a buffer every full report reaches the pipe in two parts: the manager
may read the first, close the descriptor and have the worker killed by the
second. Four commands fit add, cancel, sync, cancel around two events, the
second of which arrives while the first is being handled. The proofs of section
4 cover the invariants, the action property and the refinement for all other
values; the bounds matter for liveness, and for showing that the states the
properties are about are reached.

Two workers are the least that work on one file at once, and two chained pairs
the least in which the target a worker waits for is the source another one
holds. With one chunk a file is empty or not, which is enough for a copy to be
truncated, stale or cut short. Two pieces of trouble, of any two kinds, fall
anywhere into the full synchronisations of both pairs and into the copies that
the first one sets off in the second. Larger contents (two chunks) and three
pieces of trouble have been checked for a single pair.

**Deadlock.** The pool's specification has a `Quiet` step for the two states in
which nothing is left to do, so TLC's deadlock check is on. `System` really
stops (the manager has exited or crashed, the console is gone), and so does
`Mirror` (nobody saves a file any more); their runs say `CHECK_DEADLOCK FALSE`.
That workers do not wait for one another's locks in a circle is `NoDeadlock`,
and that each of them gets its lock in the end is part of `TasksEnd`.

**Fairness.** `FairSpec` of the pool is weak fairness of the main thread, of
the delivery of a pending signal and of every worker process: the kernel's
scheduler gives that much. Nothing is assumed of arrivals. `FairSpec` of the
system is weak fairness of the manager, of the workers and of a console that is
waiting; typing, leaving, interrupting and file events are not fair. `FairSpec`
of `Mirror` asks only that the machine does not stop while a worker can be
started or can go on. Faults are not fair, so a worker that waits for a lock is
never helped out of it by a failing `flock`, and nobody has to close a file.

**What the properties of `Mirror` say.** `NothingSilentlyStale`: once nothing is
left to do, a file that nobody deleted is the same in the source and the target
of every pair, unless some worker reported an error about it or was killed. A
copy may well have read a file that was being saved; the event of the save's end
then brings another one. It is about directories that start without a file in the
target that the source lacks (`NoStrayFiles`): a full synchronisation copies and
never removes; and about pairs that share their target with no other (`OwnTarget`).
`TruncatesNoCopy`: opening the target truncates it with no lock held on it, and
still never does so under a worker that writes it, because the lock of the source
keeps the other copies of a file away. Both leave out deleted files, for which
they fail: that is `MirrorDeletions`.

`add` compares the source of a new pair with those listed and not the target
(fss_manager.c:444), so two pairs may have one target. The locks of two different
sources keep nobody apart, and a worker of the one pair does truncate what a
worker of the other is writing (worker.c:143, before the lock at 154).
`TruncatesNoCopy` therefore excepts two pairs with one target, and nothing else:
where every pair has its own, as in the run, it leaves no exception. No run has
pairs that share a target; the proofs allow them (section 4).
`OriginalsUntouched`: what a worker opened as a target may have lost its name
since, and the name may have been given to another file; still no step of a
worker changes a file of a directory that is nobody's target. `NoDeadlock`: of
any set of workers one waits for none of the others, and no lock is kept by a
worker that has finished, failed or died.

### Violated properties

1. `PoolEarlyExit`. A worker that ends before line 138 has stored its pid is
   reaped and marks no slot; one that ends before line 393 has its mark erased.
   The slot is never freed, `poll` returns at once for ever (its descriptor has
   ended, then is closed: POLLHUP, then POLLNVAL), and shutdown never ends.
   README.md:37: "waits for `SIGCHLD` to confirm exit before freeing the slot".
2. `PoolReusedDescriptor`. Slot 0 reads its worker's report and closes the
   descriptor; the worker has not exited yet. Slot 1 is freed and refilled, and
   gets the number. Slot 0 is polled on it, reads slot 1's report and closes it.
3. `ShutdownDrains`. `shutdown` frees the list (931); the completion of an
   outstanding task looks its pair up and follows NULL (590-591). README.md:31:
   "drain in-flight workers, then exit".
4. `RepeatedEvents`. `stored_bytes` is never reset (677): when the second read
   of one call returns an event, the first read's events are handled again.
   manager_logs.txt:16-17 shows the duplicate.
5. `SecondFullSync`. cancel clears `synchronizing` (897) under an outstanding
   task, and sync then queues a second one, against the comment at 835-836.
6. `MirrorDeletions`. A worker has opened the source of a file and not yet the
   target when the file is deleted; another worker unlinks the target, without a
   lock; the first one creates it again and copies what its descriptor still
   reads. Both report success and the file stays. README.md:9: "keeps each
   destination synchronised with its source"; DevLogs.md:41: every worker takes
   the lock before it does anything.

## 4. What is proved

Every theorem is about `Spec`, for every value of the constants that satisfies
the assumptions below. Each inductive invariant was checked with TLC on the
instance of a run first.

### The pool

`WorkerPoolProofs.tla` and `PoolRefinement.tla`, for every `WorkerLimit >= 1`,
every set of jobs, any number of forks and descriptors, any report lengths, with
early exits and faults or without.

| Theorem | Statement |
|---|---|
| `WorkerPoolProofs!Invariant` | `Spec => []IInv` |
| `WorkerPoolProofs!TypeCorrect` | `Spec => []TypeOK` |
| `WorkerPoolProofs!WorkersBounded` | `Spec => []LiveWorkersBounded` |
| `WorkerPoolProofs!FreeSlotFound` | `Spec => []SlotAvailable` |
| `WorkerPoolProofs!FinishedTaskFound` | `Spec => []TaskFound` |
| `WorkerPoolProofs!CompletionIsConfirmed` | `Spec => []CompletedReaped` |
| `WorkerPoolProofs!ErrorsAreExact` | `WorkerLimit = 1 /\ MaxErrors + 5 <= StdioLines /\ Spec => []ErrorsExact` |
| `PoolRefinement!OneSlotOnePlace` | `Spec => []RInv` |
| `PoolRefinement!Refinement` | `Spec => ImplementsTaskPool` |

None of the properties is inductive. `LiveWorkersBounded` counts processes, and
what a step is guarded by is `active_workers`: one needs that the counter is
the number of busy slots (`SlotsOK`), that every process that has not been
reaped has a slot (`ProcessesOK`), and that the process just forked, which has
no slot yet, has one reserved (`ForkedOK`). `TaskFound` needs that the task of
every busy slot is in `assigned_tasks`, except between `RecordPid` and
`AssignTask` (`TasksOK`), and that pids of busy slots differ, so that the
extraction of one task leaves the others. Type correctness itself needs it: the
task that `AssignTask` moves exists only because `count` is the length of the
queue. `IInv` is the conjunction. `SlotEffects` and `BusyEffects` say what each
action does to the slots, and one lemma per conjunct (`TypeStep`, `SlotsStep`,
`ProgramStep`, `TasksStep`, `ProcessesStep`, `CompletedStep`) argues from them
with one step per action.

The refinement needs the converse. `IInv` says that every busy slot has a task
in `assigned_tasks`; that no more than `Limit` tasks are in hand needs that
every task there has a slot of its own (`OneSlotEach`), and `TaskPool` hands
out each job once, which needs that a job has still to arrive, or waits once,
or is in hand once (`OnePlaceEach`). `RInv` adds the two to `IInv`. Each action
is then shown to be one action of `TaskPool` under the mapping, or to leave the
mapped variables alone; the sequences of jobs are images of the queues, and
`SequenceFacts` says that insertion, extraction and taking the image commute.

`ErrorsAreExact` has two hypotheses, and neither can go. With two slots it is
false (`PoolReusedDescriptor`); with a report longer than the worker's stdout
buffer the manager reads the first part, closes the descriptor and loses the
rest. With both, a report reaches the pipe in one piece. The invariant
`OneReport` says where the report of the worker in the slot is: still to be
written or in the pipe, with the counters at zero once `AssignTask` has reset
them (`Unread`), or read and counted in full (`Counted`). Reading it is what
takes it from the one to the other, because `poll` reports a pipe only when its
worker has nothing left to write, and because the number in the slot is still
that of the worker's own pipe until it has been read. Slots of a finished worker
and pipes of workers that do not exist yet are empty. What the loop with fgets
counts is shown line by line (`ReportLines`, `WholeIsCounted`, `OutputRead`).

### The event loop

`SystemProofs.tla`, for every set of sources and directories, every
configuration, every limit on workers, commands and events, with interrupted
consoles or without.

| Theorem | Statement |
|---|---|
| `LoopInvariant` | `Spec => []SInv` |
| `TypeCorrect` | `Spec => []TypeOK` |
| `FlagsAreBacked` | `Spec => []FlagIsBacked` |
| `EventsAreKnown` | `Spec => []PendingEventsAreKnown` |
| `MonitoredAreActive` | `Spec => []ListMonitoredIsActive` |
| `ActiveIsWatched` | `DistinctDirs /\ Spec => []ActiveMeansWatched` |

A command is a function on the part of the state it changes, so most of the
invariant (`ListOK`) is stated of such a state and shown to be kept by `sync`,
`add`, `cancel` and their parts (`SyncKeepsList`, `AddKeepsList`,
`CancelKeepsList`); `ListStep` then has one step per action. What the invariants
need from one another:

* `FlagIsBacked` needs that no source is listed twice (`UniqueSources`):
  otherwise the completion of one pair's task leaves another pair's flag without
  a task.
* `PendingEventsAreKnown` is broken by `sync`, which gives a cancelled pair
  another descriptor, unless no event is pending under the old one. That is so
  because the events of the last poll have been read when a command is executed
  (`Drained`), so the pending ones happened under watches still in use
  (`PendingWatched`), and a watch in use is that of an active pair
  (`WatchesListed`), which `sync` leaves alone. The order of the handlers in the
  loop is what carries this argument.
* Type correctness needs `LineWaits`: the FIFO that `poll` found readable still
  has a line when `handle_command_read` takes it, and nobody else reads it.

`ActiveIsWatched` has a hypothesis: every path leads to a directory and no two
paths to the same one. Without it the property is false, since the kernel hands
out one descriptor for two spellings of a directory and `cancel` of one of the
pairs removes the watch of both. `AInv` adds that no two watches share a
descriptor and that each pair has the watch of its directory exactly while it is
active.

### The console

`ConsoleProofs.tla`, as general as `SystemProofs`, for consoles that are not
interrupted while they wait (`~Restarts`): a console that is replaced while the
manager works finds the answer to its predecessor's command.

| Theorem | Statement |
|---|---|
| `NoAnswerIsStray` | `~Restarts /\ Spec => []NoStrayAnswer` |
| `WaitingHasOneAnswer` | `~Restarts /\ Spec => []WaitingIsAnsweredOnce` |

An answer that is owed is in one of five places: the line in `fss_in`, a task
in `task_queue` or in `assigned_tasks` whose `added_by_console` is set, the
shutdown that is being carried out, the line in `fss_out`. `CInv` says that the
five counts add up to one while a console waits and to zero otherwise
(`OneAnswer`) and that what there is bears the id of the waiting command
(`Addressed`). Each action moves an answer from one place to another. The counts
are those of the elements of a sequence in a set; how they change when a
sequence grows, shrinks or is split is in `SequenceFacts`. A blank line is owed
nothing, and a manager that has crashed owes nothing it can still deliver.

### The workers and the files

`MirrorProofs.tla`, for every set of pairs with different sources
(`PairsAssumption`), shared targets included, any number of workers and of
files, any file length and any number of saves, deletions, synchronisations and
faults.

| Theorem | Statement |
|---|---|
| `MirrorInvariant` | `Spec => []MInv` |
| `TypeCorrect` | `Spec => []TypeOK` |
| `NoCopyIsTruncated` | `Spec => []TruncatesNoCopy` |
| `LockInvariant` | `Spec => []LockInv` |
| `NoWorkersTiedUp` | `NoCircles /\ Spec => []NoDeadlock` |

`MirrorConvergence.tla`, as general.

| Theorem | Statement |
|---|---|
| `Convergence` | `Spec => []KInv` |
| `SourcesCopied` | `Spec => []SourcesAreCopied` |
| `MirrorIsFaithful` | `NoStrayFiles /\ Spec => []NothingSilentlyStale` |
| `OriginalsAreSafe` | `Spec => OriginalsUntouched` |

**No copy is truncated.** The target is opened, and truncated, before it is
locked, so its own lock protects nothing. The argument goes through names: a
target two workers have open has one name (`OneName`, `TargetNamed`), so both
copy the same file to the same directory (`TruncatedTogether`). If they belonged
to the same pair, they would copy the same source; as the file has not been
deleted the name of the source would still be that of the inode both opened
(`SourceNamed`), and each would hold its exclusive lock (`LocksOK`), which only
one can. So they belong to two pairs with one target, the case the property
excepts. `SourceNamed` is inductive only with `TasksOK`: a task or a worker that
deletes a file stands for a deletion that has happened. The other conjuncts
(`WellFormed`, `SavingOK`) say what a worker holds at each of its calls, and
that a file that is being saved has a name.

**No circle of waits.** A worker that waits with a lock in its hands has its
source and waits for its target. Whoever holds that inode holds it as its own
target, and then waits for nothing, or as its source; in that case the source of
the one is in the directory that is the target of the other (`Linked`), so the
holder belongs to the next pair of the chain. `NoCircles` says that the pairs
lead down: there is a rank of directories in which every target is below its
source. In a set of workers that all wait for one another, the one that holds a
source of least rank would wait for one that holds a source of lower rank. Deletions make this harder than it looks:
a worker may hold an inode that has lost its name, under which another file
exists by now, so that names no longer tell which pair a lock belongs to.
`SourceHasOneName` and `Linked` are about the inodes that are open and survive
that; `Holders` says that every lock has a worker that will release it. Without
`NoCircles` the property is false: two pairs that mirror each other wait for one
another, which is how the code behaves too (section 5).

**Convergence.** `KInv` accounts for every difference between a source and a
target that is its own (`OwnTarget`; two sources cannot both equal one target).
What other pairs do with their targets is left open. A file that nobody deleted
and no worker failed on is on its way (`Pending`): it is being saved, so that
its close will be an event; or there is a task for it; or a worker will come to
it, at the latest when it opens the target. Otherwise (`Arriving`) the target
exists and is either equal to the source or being written by a copy, and then
what has been written is a prefix of the source and what has been read comes
next (`OnPrefix`). The prefix argument says nothing while the source can change,
which is a pending case, and every copy writes the same target: there can be but
one, since it holds the lock of the source (`LocksOK`), and no other target can
be the same inode (`TargetStays`). The failures of a copy are recorded, and a
copy that reads the end of the file before the target has all of it is excluded
by the prefix.

When nothing is left to do nothing is pending and nobody copies, so everything
the sources hold has been copied: `SourcesCopied`, without a hypothesis. That
the targets hold nothing else needs `NoStrayFiles`, because a worker never
removes what its source did not lose while it was watched; it is kept since a
copy creates only what its source has, and a source loses a name only by a
deletion, after which the property says nothing of the file.

**The originals.** `OriginalsAreSafe` is an action property: that a step of a
worker changes no inode that a directory outside all targets names. A worker
writes to the inode it has open, whose name in its target is that of no other
directory (`OneName`, `TargetNamed`), and creates or unlinks a name in a target
only.

### Lemmas

`SequenceFacts.tla` has what the community modules' operators do to sequences,
to their sets of elements, to sequences without repetition, to images and to
counts, and the elements of three sequences joined. `TaskQueueProofs.tla` has the
facts about the queue operations: what `readTaskByPid` returns, what `insertTask` adds, that `extractTask` keeps count
and length equal, that `extractTaskByPid` takes no other pid's task.

### Assumptions

| Assumption | Says | Why it holds of the code |
|---|---|---|
| `WorkerLimitAssumption`, `BoundsAssumption`, `SwitchesAssumption` (`WorkerPool`), `ManagerAssumption`, `SystemAssumption`, `MirrorAssumption` | the types of the constants; at least one worker, at least one chunk | the manager exits at start-up when `worker_limit <= 0` (fss_manager.c:152) |
| `ConfigAssumption` (`Manager`) | the configured directories exist and are different | the model starts where start-up has succeeded; see section 5 |
| `PairsAssumption` (`Mirror`) | no two pairs share a source | `add` refuses a source that is listed (fss_manager.c:444) |
| `NullAssumption`, `NullIsNoPosition`, `FreedListAssumption`, `NoInodeIsNull` | NULL is none of the values it stands in for: a task, a completion, an open file, a position, a list, an inode | NULL is a pointer to nothing |

### Only model-checked

* `EveryTaskCompletes`, `CommandsAreAnswered`, `EventsAreHandled` and
  `TasksEnd`: liveness under fairness, and ENABLED, are beyond TLAPS. What
  stands in the way of the last one, a circle of waits, is excluded by proof.
* The violated properties, which have counterexamples instead of proofs.

## 5. What is not modelled

* EINTR from `poll` and the `continue` after it (309-312): a step that changes
  nothing, since the loop's head does nothing it has not just done.
* Pipe and FIFO capacity, and so a worker or the manager blocking in `write`;
  a line cut at the end of what is in the pipe; reuse of pids; failure of fork.
* `ErrorsExact` passes for reports that are written as a whole. With a report
  longer than the worker's stdout buffer the first read ends in `fclose` and
  the rest is lost; with `StdioLines = 5` TLC finds that at once. The other
  properties of the pool are checked with such reports. A worker that follows
  the uninitialised link of its error list (worker.c:84) crashes in the model;
  one that follows it for ever is not modelled.
* A read of the inotify descriptor returns everything the kernel holds; the code
  reads at most 4096 bytes (669), and repeated copies may run past the end of
  its buffer (676).
* Pids of exited workers are not given out again; a worker forked later may
  have inherited a read end, which `Write` allows for.
* Log lines other than those `fss_script.sh` reads, `error_count`,
  `last_sync_time`, the text of answers, `purge` and the layout of the
  listings. A command and its log line are one step; a completed task always
  leaves an entry, although one whose worker died may leave a line with an empty
  field, which the script skips. In the other direction the listings are wrong:
  sync resumes a cancelled pair without logging it, so it stays in `listStopped`.
* In `Manager`, file names and targets: every event stands for another file. In
  both models renames, IN_Q_OVERFLOW and coalescing of equal events.
* In `Mirror`: writes that are cut short (worker.c:169 takes them for complete);
  the error list, whose second node has an uninitialised `next` (84), and the
  counts in a report; subdirectories of a source; programs other than workers
  that write into a target; cancelled pairs; cycles of pairs (two pairs that
  mirror each other do deadlock in `flock`); what a target holds in the end that
  two pairs share. What readdir returns for names created or removed after opendir is left to
  their own events.
* Different paths lead to different existing directories in every run
  (`DirOf`); with two spellings of one directory the kernel hands out the same
  descriptor twice and `ActiveMeansWatched` does not hold.
* Argument parsing, FIFO creation, malformed configuration lines; the console's
  trimming, over-long lines and end of input.
* `freeQueue` and the iterator of `DirList`.

## 6. Plan

Done: `TaskQueue`, `TaskPool`, `WorkerPool`, its proofs and its refinement,
`DirList`, `LogScript`, `Manager`, `System` and their proofs, the console's
protocol proved, `Mirror` with its locks and its convergence proved. Every
invariant and action property is stated by a theorem. What could come next:

1. Aliased paths in `System`, and pairs that mirror each other in `Mirror`, as
   configurations of their own.
2. `LinkedQueue`: the nodes of `TaskQueue.c` on a heap, refining `TaskQueue`.
3. The start: FIFOs that a console has created as regular files, consoles that
   start while the manager closes its own.
