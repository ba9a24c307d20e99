------------------------------- MODULE Mirror -------------------------------
(***************************************************************************)
(* The workers of src/main/worker.c at work on the files: full             *)
(* synchronisations, copies under flock, and deletions, several at once,   *)
(* while the files go on changing.                                         *)
(*                                                                         *)
(*  opendir -> readdir <------------------------------------------+        *)
(*                |                                               |        *)
(*                +-> open_src -> lock_src -> open_tgt -> lock_tgt |       *)
(*                                                           |     |       *)
(*               unlock_tgt <- unlock_src <- read <-> write <+     |       *)
(*                    +--------------------------------------------+       *)
(*  unlink                                                                 *)
(*                                                                         *)
(* A step is a system call: the calls of several workers interleave.  A    *)
(* directory maps names to inodes, because a worker goes on using the file *)
(* it opened when the name has been removed or given to another file.  The *)
(* content of a file is a sequence of chunks, one per bufferful; a chunk   *)
(* is the number of the save that wrote it.                                *)
(*                                                                         *)
(* The manager is reduced to its task queue: the inotify events of a       *)
(* directory become tasks in the order in which they happen, and are       *)
(* started in that order while fewer than WorkerLimit workers run, which   *)
(* is what Manager and TaskPool say.  No pair is cancelled.                *)
(***************************************************************************)
EXTENDS Integers, SequencesExt

CONSTANTS
  NULL,         \* a missing file, no task
  Dirs,         \* directories
  Files,        \* file names
  Config,       \* the pairs of the configuration file, in order
  Existing,     \* the names that exist at the start, <<directory, file>>
  WorkerLimit,  \* worker_limit
  MaxChunks,    \* bound: chunks in a file
  MaxSaves,     \* bound: how often the user saves a file
  MaxDeletes,   \* bound: how often the user deletes one
  MaxSyncs,     \* bound: sync commands
  MaxFaults,    \* bound: system calls that fail for reasons of their own
  MaxTrouble    \* bound: all of these together

Pairs == Range(Config)

ASSUME MirrorAssumption ==
  /\ Config \in Seq([source : Dirs, target : Dirs])
  /\ Existing \subseteq Dirs \X Files
  /\ WorkerLimit \in Nat \ {0}
  /\ MaxChunks > 0
  /\ {MaxChunks, MaxSaves, MaxDeletes, MaxSyncs, MaxFaults, MaxTrouble} \subseteq Nat

(* A source is added once.  Nothing is asked of the targets: several pairs *)
(* may have the same one.                                                  *)
ASSUME PairsAssumption == \A p, q \in Pairs : p.source = q.source => p = q

(* A target that no other pair writes to.                                  *)
OwnTarget(p) == \A q \in Pairs : q.target = p.target => q = p

Workers == 1 .. WorkerLimit

(* The directories the user works in: those no worker writes to.           *)
Roots == {p.source : p \in Pairs} \ {p.target : p \in Pairs}

Hole == -1                   \* a chunk of zeroes, or of a content of long ago
Chunk == {Hole} \cup 0 .. MaxSaves

Descriptors == Workers \X {"src", "tgt"}

(* As many as there are names, and files that are open without one.        *)
Inodes == (Dirs \X Files) \cup Descriptors

ASSUME NoInodeIsNull == NULL \notin Inodes

VARIABLES
  entry,     \* entry[d][f]: the inode that f names in d, or NULL
  data,      \* the content of each inode
  flock,     \* who holds the lock of each inode: a worker's descriptor
  queue,     \* the manager's tasks, oldest first
  workers,   \* the worker processes
  saving,    \* saving[d][f]: the save that has the file open, or 0
  spent,     \* what has happened of what the bounds limit
  failed,    \* history: the pairs and files some worker failed on
  deleted    \* history: the names the user deleted

diskVars == <<entry, data, flock>>
userVars == <<saving, deleted>>
vars == <<diskVars, queue, workers, userVars, spent, failed>>

Task == [type : {"FULL", "ADDED", "MODIFIED", "DELETED"}, pair : Pairs, file : Files \cup {NULL}]

(* A worker: its next system call, its task, the names readdir has still   *)
(* to return, the file copy_file is at, its two descriptors and their      *)
(* offset, and the bufferful that was read.                                *)
Idle == [pc |-> "idle", task |-> NULL, todo |-> {}, file |-> NULL,
         src |-> NULL, tgt |-> NULL, offset |-> 0, buffer |-> Hole]

Calls == {"idle", "opendir", "readdir", "open_src", "lock_src", "open_tgt", "lock_tgt",
          "read", "write", "unlock_src", "unlock_tgt", "unlink"}
Worker == [pc : Calls, task : Task \cup {NULL}, todo : SUBSET Files,
           file : Files \cup {NULL}, src : Inodes \cup {NULL}, tgt : Inodes \cup {NULL},
           offset : 0 .. MaxChunks, buffer : Chunk]

TypeOK ==
  /\ entry \in [Dirs -> [Files -> Inodes \cup {NULL}]]
  /\ data \in [Inodes -> UNION {[1 .. n -> Chunk] : n \in 0 .. MaxChunks}]
  /\ flock \in [Inodes -> Descriptors \cup {NULL}]
  /\ queue \in Seq(Task)
  /\ workers \in [Workers -> Worker]
  /\ saving \in [Roots -> [Files -> 0 .. MaxSaves]]
  /\ spent \in [save : 0 .. MaxSaves, delete : 0 .. MaxDeletes,
                sync : 0 .. MaxSyncs, fault : 0 .. MaxFaults]
  /\ failed \subseteq Pairs \X Files
  /\ deleted \subseteq Files

-----------------------------------------------------------------------------
(***************************************************************************)
(* Files and events.                                                       *)
(***************************************************************************)

Present(d) == {f \in Files : entry[d][f] # NULL}

(* An inode that no name and no open descriptor refers to.                 *)
Unused(i) ==
  /\ \A d \in Dirs, f \in Files : entry[d][f] # i
  /\ \A w \in Workers : workers[w].src # i /\ workers[w].tgt # i

(* Writing a chunk behind the end of a file leaves a hole.                 *)
WriteAt(content, n, chunk) ==
  [k \in 1 .. (IF n > Len(content) THEN n ELSE Len(content)) |->
     IF k = n THEN chunk ELSE IF k <= Len(content) THEN content[k] ELSE Hole]

(* The task that an event in directory d makes: none if it is no source.   *)
Tasks(type, d, f) ==
  IF \E p \in Pairs : p.source = d
    THEN <<[type |-> type, pair |-> CHOOSE p \in Pairs : p.source = d, file |-> f]>>
    ELSE << >>

(* open with O_CREAT | O_TRUNC, in both forms.                             *)
Truncate(d, f) ==
  /\ entry[d][f] # NULL
  /\ data' = [data EXCEPT ![entry[d][f]] = << >>]
  /\ UNCHANGED <<entry, flock, queue>>

Create(d, f) ==
  /\ entry[d][f] = NULL /\ \E j \in Inodes : Unused(j)
  /\ LET i == CHOOSE j \in Inodes : Unused(j)
     IN  /\ entry' = [entry EXCEPT ![d][f] = i]
         /\ data' = [data EXCEPT ![i] = << >>]
         /\ UNCHANGED flock
  /\ queue' = queue \o Tasks("ADDED", d, f)

-----------------------------------------------------------------------------

(* The manager has read its configuration: a full synchronisation of every *)
(* pair is queued.  The targets hold longer contents of long ago.          *)
Init ==
  /\ entry = [d \in Dirs |-> [f \in Files |-> IF <<d, f>> \in Existing THEN <<d, f>> ELSE NULL]]
  /\ data = [i \in Inodes |->
       IF i \notin Existing THEN << >>
       ELSE IF i \in Roots \X Files THEN <<0>>
       ELSE [k \in 1 .. MaxChunks |-> Hole]]
  /\ flock = [i \in Inodes |-> NULL]
  /\ queue = [k \in DOMAIN Config |-> [type |-> "FULL", pair |-> Config[k], file |-> NULL]]
  /\ workers = [w \in Workers |-> Idle]
  /\ saving = [d \in Roots |-> [f \in Files |-> 0]]
  /\ spent = [save |-> 0, delete |-> 0, sync |-> 0, fault |-> 0]
  /\ failed = {} /\ deleted = {}

-----------------------------------------------------------------------------
(***************************************************************************)
(* The user, and the manager.                                              *)
(***************************************************************************)

Spend(kind, max) ==
  /\ spent[kind] < max
  /\ spent.save + spent.delete + spent.sync + spent.fault < MaxTrouble
  /\ spent' = [spent EXCEPT ![kind] = @ + 1]

(* A file is opened for saving, created if need be.                        *)
UserOpens(d, f) ==
  /\ saving[d][f] = 0 /\ Spend("save", MaxSaves)
  /\ Truncate(d, f) \/ Create(d, f)
  /\ saving' = [saving EXCEPT ![d][f] = spent'.save]
  /\ UNCHANGED <<workers, deleted, failed>>

UserWrites(d, f) ==
  /\ saving[d][f] # 0 /\ Len(data[entry[d][f]]) < MaxChunks
  /\ data' = [data EXCEPT ![entry[d][f]] = Append(@, saving[d][f])]
  /\ UNCHANGED <<entry, flock, queue, workers, userVars, spent, failed>>

UserCloses(d, f) ==
  /\ saving[d][f] # 0
  /\ saving' = [saving EXCEPT ![d][f] = 0]
  /\ queue' = queue \o Tasks("MODIFIED", d, f)
  /\ UNCHANGED <<diskVars, workers, deleted, spent, failed>>

UserDeletes(d, f) ==
  /\ entry[d][f] # NULL /\ saving[d][f] = 0 /\ Spend("delete", MaxDeletes)
  /\ entry' = [entry EXCEPT ![d][f] = NULL]
  /\ deleted' = deleted \cup {f}
  /\ queue' = queue \o Tasks("DELETED", d, f)
  /\ UNCHANGED <<data, flock, workers, saving, failed>>

(* The sync command, refused while a synchronisation is outstanding.       *)
Sync(p) ==
  /\ Spend("sync", MaxSyncs)
  /\ \A t \in Range(queue) \cup {workers[w].task : w \in Workers} :
       t # [type |-> "FULL", pair |-> p, file |-> NULL]
  /\ queue' = Append(queue, [type |-> "FULL", pair |-> p, file |-> NULL])
  /\ UNCHANGED <<diskVars, workers, userVars, failed>>

(* A worker is started on the oldest task; its main goes by the task's     *)
(* type.                                                                   *)
FirstCall(type) ==
  CASE type = "FULL"                   -> "opendir"
    [] type \in {"ADDED", "MODIFIED"}  -> "open_src"
    [] type = "DELETED"                -> "unlink"

Start(w) ==
  /\ queue # << >> /\ workers[w] = Idle
  /\ \A v \in 1 .. (w - 1) : workers[v] # Idle
  /\ workers' = [workers EXCEPT ![w] =
       [Idle EXCEPT !.pc = FirstCall(Head(queue).type),
                    !.task = Head(queue), !.file = Head(queue).file]]
  /\ queue' = Tail(queue)
  /\ UNCHANGED <<diskVars, userVars, spent, failed>>

-----------------------------------------------------------------------------
(***************************************************************************)
(* do_the_synchronization.  What an entry that appears after opendir does  *)
(* is left to its own event.                                               *)
(***************************************************************************)

At(w, call) == workers[w].pc = call
Source(w) == workers[w].task.pair.source
Target(w) == workers[w].task.pair.target

Opendir(w) ==
  /\ At(w, "opendir")
  /\ workers' = [workers EXCEPT ![w].pc = "readdir", ![w].todo = Present(Source(w))]
  /\ UNCHANGED <<diskVars, queue, userVars, spent, failed>>

Readdir(w) ==
  /\ At(w, "readdir")
  /\ \E f \in workers[w].todo :
       workers' = [workers EXCEPT ![w].pc = "open_src", ![w].file = f, ![w].todo = @ \ {f}]
  /\ UNCHANGED <<diskVars, queue, userVars, spent, failed>>

EndOfDirectory(w) ==
  /\ At(w, "readdir") /\ workers[w].todo = {}
  /\ workers' = [workers EXCEPT ![w] = Idle]
  /\ UNCHANGED <<diskVars, queue, userVars, spent, failed>>

-----------------------------------------------------------------------------
(***************************************************************************)
(* copy_file, which is all that added_file and modified_file do.           *)
(***************************************************************************)

(* What is left of the worker when copy_file returns: in a full            *)
(* synchronisation the rest of the directory, otherwise nothing.           *)
Returned(w) ==
  IF workers[w].task.type = "FULL"
    THEN [Idle EXCEPT !.pc = "readdir", !.task = workers[w].task, !.todo = workers[w].todo]
    ELSE Idle

OpenSource(w) ==
  /\ At(w, "open_src") /\ entry[Source(w)][workers[w].file] # NULL
  /\ workers' = [workers EXCEPT ![w].pc = "lock_src",
                                ![w].src = entry[Source(w)][workers[w].file]]
  /\ UNCHANGED <<diskVars, queue, userVars, spent, failed>>

(* Slip: the lock of the source is a shared one.                           *)
LockSource_Shared(w) ==
  /\ At(w, "lock_src")
  /\ flock[workers[w].src] # NULL => flock[workers[w].src][2] = "src"
  /\ flock' = [flock EXCEPT ![workers[w].src] = <<w, "src">>]
  /\ workers' = [workers EXCEPT ![w].pc = "open_tgt"]
  /\ UNCHANGED <<entry, data, queue, userVars, spent, failed>>

LockSource(w) ==
  /\ At(w, "lock_src") /\ flock[workers[w].src] = NULL
  /\ flock' = [flock EXCEPT ![workers[w].src] = <<w, "src">>]
  /\ workers' = [workers EXCEPT ![w].pc = "open_tgt"]
  /\ UNCHANGED <<entry, data, queue, userVars, spent, failed>>

(* Slip: copy_file is given the source twice.                              *)
OpenTarget_IsSource(w) ==
  /\ At(w, "open_tgt")
  /\ LET f == workers[w].file IN
       /\ Truncate(Source(w), f) \/ Create(Source(w), f)
       /\ workers' = [workers EXCEPT ![w].pc = "lock_tgt", ![w].tgt = entry'[Source(w)][f]]
  /\ UNCHANGED <<userVars, spent, failed>>

(* Slip: no O_TRUNC.                                                       *)
OpenTarget_KeepsContent(w) ==
  /\ At(w, "open_tgt")
  /\ LET f == workers[w].file IN
       /\ \/ entry[Target(w)][f] # NULL /\ UNCHANGED <<diskVars, queue>>
          \/ Create(Target(w), f)
       /\ workers' = [workers EXCEPT ![w].pc = "lock_tgt", ![w].tgt = entry'[Target(w)][f]]
  /\ UNCHANGED <<userVars, spent, failed>>

(* The target is truncated by the open, before its lock is asked for.      *)
OpenTarget(w) ==
  /\ At(w, "open_tgt")
  /\ LET f == workers[w].file IN
       /\ Truncate(Target(w), f) \/ Create(Target(w), f)
       /\ workers' = [workers EXCEPT ![w].pc = "lock_tgt", ![w].tgt = entry'[Target(w)][f]]
  /\ UNCHANGED <<userVars, spent, failed>>

LockTarget(w) ==
  /\ At(w, "lock_tgt") /\ flock[workers[w].tgt] = NULL
  /\ flock' = [flock EXCEPT ![workers[w].tgt] = <<w, "tgt">>]
  /\ workers' = [workers EXCEPT ![w].pc = "read"]
  /\ UNCHANGED <<entry, data, queue, userVars, spent, failed>>

(* A bufferful, or the end of the file.                                    *)
Read(w) ==
  /\ At(w, "read")
  /\ LET content == data[workers[w].src]
         next == workers[w].offset + 1
     IN  workers' = IF next <= Len(content)
           THEN [workers EXCEPT ![w].pc = "write", ![w].buffer = content[next]]
           ELSE [workers EXCEPT ![w].pc = "unlock_src"]
  /\ UNCHANGED <<diskVars, queue, userVars, spent, failed>>

(* Slip: the offset moves before the chunk is written.                     *)
Write_OffsetFirst(w) ==
  /\ At(w, "write")
  /\ data' = [data EXCEPT ![workers[w].tgt] =
                WriteAt(@, workers[w].offset + 2, workers[w].buffer)]
  /\ workers' = [workers EXCEPT ![w].pc = "read", ![w].offset = @ + 1, ![w].buffer = Hole]
  /\ UNCHANGED <<entry, flock, queue, userVars, spent, failed>>

Write(w) ==
  /\ At(w, "write")
  /\ data' = [data EXCEPT ![workers[w].tgt] =
                WriteAt(@, workers[w].offset + 1, workers[w].buffer)]
  /\ workers' = [workers EXCEPT ![w].pc = "read", ![w].offset = @ + 1, ![w].buffer = Hole]
  /\ UNCHANGED <<entry, flock, queue, userVars, spent, failed>>

UnlockSource(w) ==
  /\ At(w, "unlock_src")
  /\ flock' = [flock EXCEPT ![workers[w].src] = NULL]
  /\ workers' = [workers EXCEPT ![w].pc = "unlock_tgt"]
  /\ UNCHANGED <<entry, data, queue, userVars, spent, failed>>

(* The unlocking of the target, and the closing of both files, which the   *)
(* directory of the target sees.                                           *)
UnlockTarget(w) ==
  /\ At(w, "unlock_tgt")
  /\ flock' = [flock EXCEPT ![workers[w].tgt] = NULL]
  /\ queue' = queue \o Tasks("MODIFIED", Target(w), workers[w].file)
  /\ workers' = [workers EXCEPT ![w] = Returned(w)]
  /\ UNCHANGED <<entry, data, userVars, spent, failed>>

(* delete_file, which is all that deleted_file does: no lock is asked for. *)
Unlink(w) ==
  /\ At(w, "unlink")
  /\ LET f == workers[w].file IN
       /\ entry[Target(w)][f] # NULL
       /\ entry' = [entry EXCEPT ![Target(w)][f] = NULL]
       /\ queue' = queue \o Tasks("DELETED", Target(w), f)
  /\ workers' = [workers EXCEPT ![w] = Idle]
  /\ UNCHANGED <<data, flock, userVars, spent, failed>>

-----------------------------------------------------------------------------
(***************************************************************************)
(* System calls that fail.  Each error goes into the error list, and from  *)
(* there into the worker's report.                                         *)
(***************************************************************************)

Report(w) == failed' = failed \cup {<<workers[w].task.pair, workers[w].file>>}

(* The file to copy, or the one to delete, is not there any more.          *)
SourceIsGone(w) ==
  /\ At(w, "open_src") /\ entry[Source(w)][workers[w].file] = NULL
  /\ Report(w)
  /\ workers' = [workers EXCEPT ![w] = Returned(w)]
  /\ UNCHANGED <<diskVars, queue, userVars, spent>>

TargetIsGone(w) ==
  /\ At(w, "unlink") /\ entry[Target(w)][workers[w].file] = NULL
  /\ Report(w)
  /\ workers' = [workers EXCEPT ![w] = Idle]
  /\ UNCHANGED <<diskVars, queue, userVars, spent>>

(* Calls that fail for reasons of their own.                               *)
Fault == Spend("fault", MaxFaults)

OpendirFails(w) ==
  /\ At(w, "opendir") /\ Fault
  /\ failed' = failed \cup ({workers[w].task.pair} \X Files)
  /\ workers' = [workers EXCEPT ![w] = Idle]
  /\ UNCHANGED <<diskVars, queue, userVars>>

(* The source cannot be opened or locked.                                  *)
SourceFails(w) ==
  /\ workers[w].pc \in {"open_src", "lock_src"} /\ Fault
  /\ Report(w)
  /\ workers' = [workers EXCEPT ![w] = Returned(w)]
  /\ UNCHANGED <<diskVars, queue, userVars>>

(* Slip: the way out that does not unlock the source, nor close it.        *)
TargetFails_KeepsLock(w) ==
  /\ workers[w].pc \in {"open_tgt", "lock_tgt"} /\ Fault
  /\ Report(w)
  /\ queue' = IF At(w, "lock_tgt")
                THEN queue \o Tasks("MODIFIED", Target(w), workers[w].file)
                ELSE queue
  /\ workers' = [workers EXCEPT ![w] = Returned(w)]
  /\ UNCHANGED <<diskVars, userVars>>

(* The target cannot be opened, or not locked once it is truncated.  An    *)
(* open that fails passes the test of tgt_fd, which asks for 1, and fails  *)
(* as a lock on descriptor -1.                                             *)
TargetFails(w) ==
  /\ workers[w].pc \in {"open_tgt", "lock_tgt"} /\ Fault
  /\ Report(w)
  /\ flock' = [flock EXCEPT ![workers[w].src] = NULL]
  /\ queue' = IF At(w, "lock_tgt")
                THEN queue \o Tasks("MODIFIED", Target(w), workers[w].file)
                ELSE queue
  /\ workers' = [workers EXCEPT ![w] = Returned(w)]
  /\ UNCHANGED <<entry, data, userVars>>

(* read or write fails: copy_file unlocks and closes as after a success.   *)
CopyFails(w) ==
  /\ workers[w].pc \in {"read", "write"} /\ Fault
  /\ Report(w)
  /\ workers' = [workers EXCEPT ![w].pc = "unlock_src", ![w].buffer = Hole]
  /\ UNCHANGED <<diskVars, queue, userVars>>

(* The worker is killed: the kernel closes its descriptors, which releases *)
(* its locks.  Its task is over, and nobody does the rest of it.           *)
Dies(w) ==
  /\ workers[w] # Idle /\ Fault
  /\ failed' = failed \cup ({workers[w].task.pair} \X
                  IF workers[w].task.type = "FULL" THEN Files ELSE {workers[w].file})
  /\ flock' = [i \in Inodes |-> IF flock[i] \in {w} \X {"src", "tgt"} THEN NULL ELSE flock[i]]
  /\ queue' = IF workers[w].tgt # NULL
                THEN queue \o Tasks("MODIFIED", Target(w), workers[w].file)
                ELSE queue
  /\ workers' = [workers EXCEPT ![w] = Idle]
  /\ UNCHANGED <<entry, data, userVars>>

UnlinkFails(w) ==
  /\ At(w, "unlink") /\ Fault
  /\ Report(w)
  /\ workers' = [workers EXCEPT ![w] = Idle]
  /\ UNCHANGED <<diskVars, queue, userVars>>

-----------------------------------------------------------------------------

UserStep ==
  \E d \in Roots, f \in Files :
    UserOpens(d, f) \/ UserWrites(d, f) \/ UserCloses(d, f) \/ UserDeletes(d, f)

WorkerStep(w) ==
  \/ Opendir(w) \/ Readdir(w) \/ EndOfDirectory(w)
  \/ OpenSource(w) \/ LockSource(w) \/ OpenTarget(w) \/ LockTarget(w)
  \/ Read(w) \/ Write(w) \/ UnlockSource(w) \/ UnlockTarget(w)
  \/ Unlink(w) \/ SourceIsGone(w) \/ TargetIsGone(w)

FaultStep(w) ==
  OpendirFails(w) \/ SourceFails(w) \/ TargetFails(w) \/ CopyFails(w) \/ UnlinkFails(w)
  \/ Dies(w)

(* Nobody has anything to do any more, and no file is open for saving.     *)
Quiescent ==
  /\ queue = << >> /\ \A w \in Workers : workers[w] = Idle
  /\ \A d \in Roots, f \in Files : saving[d][f] = 0

Next ==
  \/ UserStep
  \/ \E p \in Pairs : Sync(p)
  \/ \E w \in Workers : Start(w) \/ WorkerStep(w) \/ FaultStep(w)

Spec == Init /\ [][Next]_vars

(* The machine does not stop while a worker can be started or go on; which *)
(* one does is left open, so the kernel need not be fair to each of them.  *)
(* Nobody has to save or delete a file, to close one, or to ask for a      *)
(* synchronisation, and no call has to fail: a worker that waits for a     *)
(* lock waits until it has it.                                             *)
FairSpec ==
  /\ Spec
  /\ WF_vars(\E w \in Workers : Start(w) \/ WorkerStep(w))

-----------------------------------------------------------------------------

(* What a name stands for in the source of a pair and in its target.       *)
InSync(p, f) ==
  LET i == entry[p.source][f]
      j == entry[p.target][f]
  IN  IF i = NULL \/ j = NULL THEN i = j ELSE data[i] = data[j]

(* Nothing is in a target at the start that its source lacks.  A full      *)
(* synchronisation copies and never removes, so what is would stay.        *)
NoStrayFiles ==
  \A p \in Pairs, f \in Files : <<p.target, f>> \in Existing => <<p.source, f>> \in Existing

(* The mirror is faithful (README.md): when nothing is left to do, a file  *)
(* that nobody deleted is the same in the source and in the target of a    *)
(* pair, unless a worker reported an error about it or died.  Several      *)
(* workers may have been given it at once, and it may have changed while   *)
(* one of them read it.  (It is about mirrors with NoStrayFiles, and pairs *)
(* that share their target with none: two sources cannot both be in it.)   *)
NothingSilentlyStale ==
  Quiescent => \A p \in Pairs, f \in Files :
    OwnTarget(p) /\ f \notin deleted /\ <<p, f>> \notin failed => InSync(p, f)

(* Worker w is about to truncate the file that worker v is writing.        *)
Truncates(w, v) ==
  /\ v # w /\ At(w, "open_tgt") /\ workers[w].file \notin deleted
  /\ workers[v].pc \in {"read", "write"}
  /\ workers[v].tgt = entry[Target(w)][workers[w].file]

(* No worker truncates a file that another one is writing (DevLogs.md: the *)
(* workers must not work on one file at the same time), although open      *)
(* truncates the target before its lock is asked for: the lock of the      *)
(* source keeps the other copies away.  It does not where two pairs have   *)
(* one target, which add accepts; it is only then that a worker of the one *)
(* may truncate what a worker of the other is writing.                     *)
TruncatesNoCopy ==
  \A v, w \in Workers : Truncates(w, v) =>
    \E p, q \in Pairs : /\ p # q /\ p.target = q.target
                        /\ Source(v) = p.source /\ Source(w) = q.source

(* The originals are safe: only the user's own steps change a file of a    *)
(* directory no worker is told to write to, or whether it exists.  A       *)
(* worker writes to an inode, and goes on when the file has lost its name  *)
(* and the name has been given to another file.                            *)
OriginalsUntouched ==
  [][UserStep \/ \A d \in Roots, f \in Files :
       /\ entry'[d][f] = entry[d][f]
       /\ entry[d][f] # NULL => data'[entry[d][f]] = data[entry[d][f]]]_vars

(* Worker w asks for a lock that worker v has.                             *)
Awaits(w, v) ==
  LET has == {v} \X {"src", "tgt"}
  IN  \/ At(w, "lock_src") /\ flock[workers[w].src] \in has
      \/ At(w, "lock_tgt") /\ flock[workers[w].tgt] \in has

(* The locks do not tie the workers up: nobody waits for a lock that a     *)
(* worker has kept beyond its task, and of any workers one waits for none  *)
(* of the others, although pairs may be chained and a file may be deleted  *)
(* and created anew while it is open.  (It is about pairs that do not      *)
(* mirror each other in a circle.)                                         *)
NoDeadlock ==
  /\ \A v, w \in Workers : Awaits(w, v) => workers[v] # Idle
  /\ \A S \in SUBSET Workers : S # {} => \E w \in S : \A v \in S : ~Awaits(w, v)

(* The workers get through: none waits for a lock for ever, although       *)
(* copy_file waits for the lock of the target with that of the source in   *)
(* its hands and pairs may be chained, and every task is over at some      *)
(* time.  (Pairs that mirror each other do wait for one another.)          *)
TasksEnd == []<>(queue = << >> /\ \A w \in Workers : workers[w] = Idle)

(* The mirror is faithful also to deletions: "keeps each destination       *)
(* synchronised with its source" (README.md).  delete_file asks for no     *)
(* lock, so a copy that has begun may create the file again behind it.     *)
TargetFollowsSource ==
  Quiescent => \A p \in Pairs, f \in Files : <<p, f>> \notin failed => InSync(p, f)

=============================================================================
