---------------------------- MODULE MirrorProofs ----------------------------
(***************************************************************************)
(* Proofs about the workers at work on the files.                          *)
(*                                                                         *)
(* What keeps two copies of a file apart is the lock of its source.  That  *)
(* it is the same lock for both is a matter of names: a target that two    *)
(* workers have open has one name, so both copy the same file; and unless  *)
(* it has been deleted, the name of the source is still that of the inode  *)
(* both of them opened, if they copy from the same directory.              *)
(***************************************************************************)
EXTENDS Mirror, SequenceFacts, TLAPS

(* The calls between which copy_file has a file open, or locked.           *)
SrcOpen == {"lock_src", "open_tgt", "lock_tgt", "read", "write", "unlock_src", "unlock_tgt"}
TgtOpen == {"lock_tgt", "read", "write", "unlock_src", "unlock_tgt"}
SrcLocked == {"open_tgt", "lock_tgt", "read", "write", "unlock_src"}
TgtLocked == {"read", "write", "unlock_src", "unlock_tgt"}
OnFile == {"open_src", "unlink"} \cup SrcOpen

(* A worker by itself: what it holds at each of its calls.                 *)
WellFormed(r) ==
  /\ r \in Worker
  /\ r.pc = "idle" => r = Idle
  /\ r.pc # "idle" => r.task \in Task
  /\ r.pc \in {"opendir", "readdir"} => r.task.type = "FULL"
  /\ r.pc \in OnFile => r.file \in Files
  /\ IF r.pc \in SrcOpen THEN r.src \in Inodes ELSE r.src = NULL
  /\ IF r.pc \in TgtOpen THEN r.tgt \in Inodes ELSE r.tgt = NULL
  /\ r.pc = "write" => r.offset < MaxChunks

(* The tasks that events make, and the workers that delete.                *)
TasksOK ==
  /\ \A t \in Range(queue) :
       /\ t.type # "FULL" => t.file \in Files
       /\ t.type = "DELETED" => t.file \in deleted
  /\ \A w \in Workers : At(w, "unlink") => workers[w].file \in deleted

(* A file that is being saved has its name.                                *)
SavingOK == \A d \in Roots, f \in Files : saving[d][f] # 0 => entry[d][f] # NULL

(* An inode has one name, and a target has the name under which it was     *)
(* opened or none; a source keeps its name unless the file is deleted.     *)
OneName ==
  \A d, e \in Dirs, f, g \in Files :
    entry[d][f] # NULL /\ entry[d][f] = entry[e][g] => d = e /\ f = g

TargetNamed ==
  \A w \in Workers, d \in Dirs, f \in Files :
    workers[w].pc \in TgtOpen /\ workers[w].tgt = entry[d][f]
      => d = Target(w) /\ f = workers[w].file

SourceNamed ==
  \A w \in Workers :
    workers[w].pc \in SrcOpen /\ workers[w].file \notin deleted
      => workers[w].src = entry[Source(w)][workers[w].file]

LocksOK ==
  \A w \in Workers :
    /\ workers[w].pc \in SrcLocked => flock[workers[w].src] = <<w, "src">>
    /\ workers[w].pc \in TgtLocked => flock[workers[w].tgt] = <<w, "tgt">>

MInv ==
  /\ TypeOK
  /\ \A w \in Workers : WellFormed(workers[w])
  /\ TasksOK /\ SavingOK
  /\ OneName /\ TargetNamed /\ SourceNamed
  /\ LocksOK

-----------------------------------------------------------------------------
(***************************************************************************)
(* Facts about the constants, events and contents.                         *)
(***************************************************************************)

LEMMA Constants ==
  /\ Pairs \subseteq [source : Dirs, target : Dirs]
  /\ Roots \subseteq Dirs
  /\ Descriptors \subseteq Inodes /\ NULL \notin Inodes
  /\ Workers \subseteq Nat
  /\ MaxChunks \in Nat /\ MaxSaves \in Nat /\ 0 < MaxChunks
  /\ \A w \in Workers : Source(w) = workers[w].task.pair.source
                        /\ Target(w) = workers[w].task.pair.target
<1>1. Pairs \subseteq [source : Dirs, target : Dirs]
  <2>1. Config \in Seq([source : Dirs, target : Dirs])
    BY MirrorAssumption
  <2> QED  BY <2>1, RangeOfSeq DEF Pairs
<1>2. Roots \subseteq Dirs
  BY <1>1 DEF Roots
<1> QED  BY <1>1, <1>2, MirrorAssumption, NoInodeIsNull DEF Inodes, Workers, Source, Target

Types == {"FULL", "ADDED", "MODIFIED", "DELETED"}

(* An event makes tasks of its own type and file, one or none.             *)
LEMMA EventTasks ==
  ASSUME NEW type \in Types, NEW d, NEW f \in Files
  PROVE  /\ Tasks(type, d, f) \in Seq(Task)
         /\ \A t \in Range(Tasks(type, d, f)) : t.type = type /\ t.file = f
<1>1. CASE \E p \in Pairs : p.source = d
  <2> DEFINE t == [type |-> type, pair |-> CHOOSE p \in Pairs : p.source = d, file |-> f]
  <2>1. (CHOOSE p \in Pairs : p.source = d) \in Pairs
    BY <1>1
  <2>2. t \in Task
    BY <2>1 DEF Task, Types
  <2>3. Tasks(type, d, f) = <<t>>
    BY <1>1 DEF Tasks
  <2>4. t.type = type /\ t.file = f
    OBVIOUS
  <2> HIDE DEF t
  <2> QED  BY <2>2, <2>3, <2>4 DEF Range
<1>2. CASE ~\E p \in Pairs : p.source = d
  BY <1>2 DEF Tasks, Range
<1> QED  BY <1>1, <1>2

(* A queue with the tasks of an event behind it.                           *)
LEMMA QueueGrows ==
  ASSUME queue \in Seq(Task), NEW type \in Types, NEW d, NEW f \in Files,
         queue' = queue \o Tasks(type, d, f)
  PROVE  /\ queue' \in Seq(Task)
         /\ \A t \in Range(queue') : t \in Range(queue) \/ (t.type = type /\ t.file = f)
<1>1. Tasks(type, d, f) \in Seq(Task)
  BY EventTasks
<1>2. Range(queue \o Tasks(type, d, f)) = Range(queue) \cup Range(Tasks(type, d, f))
  BY <1>1, RangeConcatenation
<1> QED  BY <1>1, <1>2, EventTasks, ConcatProperties

(* What a file contains.                                                   *)
Content == UNION {[1 .. n -> Chunk] : n \in 0 .. MaxChunks}

LEMMA ContentLength ==
  ASSUME NEW c \in Content
  PROVE  c \in Seq(Chunk) /\ Len(c) \in 0 .. MaxChunks /\ c \in [1 .. Len(c) -> Chunk]
<1>1. PICK n \in 0 .. MaxChunks : c \in [1 .. n -> Chunk]
  BY DEF Content
<1>2. n \in Nat
  BY <1>1, Constants
<1>3. c \in Seq(Chunk) /\ Len(c) = n
  BY <1>1, <1>2, LenProperties
<1> QED  BY <1>1, <1>3

LEMMA ContentWritten ==
  /\ << >> \in Content
  /\ \A c \in Content, x \in Chunk : Len(c) < MaxChunks => Append(c, x) \in Content
  /\ \A c \in Content, x \in Chunk, n \in 1 .. MaxChunks : WriteAt(c, n, x) \in Content
<1>1. << >> \in Content
  <2>1. << >> \in [1 .. 0 -> Chunk] /\ 0 \in 0 .. MaxChunks
    BY Constants
  <2> QED  BY <2>1 DEF Content
<1>2. ASSUME NEW c \in Content, NEW x \in Chunk, Len(c) < MaxChunks
      PROVE  Append(c, x) \in Content
  <2>1. c \in Seq(Chunk) /\ Len(c) \in 0 .. MaxChunks
    BY ContentLength
  <2>2. Append(c, x) \in [1 .. Len(c) + 1 -> Chunk]
    BY <2>1, AppendProperties, LenProperties
  <2>3. Len(c) + 1 \in 0 .. MaxChunks
    BY <1>2, <2>1, Constants
  <2> QED  BY <2>2, <2>3 DEF Content
<1>3. ASSUME NEW c \in Content, NEW x \in Chunk, NEW n \in 1 .. MaxChunks
      PROVE  WriteAt(c, n, x) \in Content
  <2>1. c \in [1 .. Len(c) -> Chunk] /\ Len(c) \in 0 .. MaxChunks
    BY ContentLength
  <2> DEFINE m == IF n > Len(c) THEN n ELSE Len(c)
  <2>2. m \in 0 .. MaxChunks
    BY <2>1, Constants
  <2>3. WriteAt(c, n, x) \in [1 .. m -> Chunk]
    BY <2>1, Constants DEF WriteAt, Chunk
  <2> HIDE DEF m
  <2> QED  BY <2>2, <2>3 DEF Content
<1> QED  BY <1>1, <1>2, <1>3

-----------------------------------------------------------------------------
(***************************************************************************)
(* The workers.                                                            *)
(***************************************************************************)

LEMMA IdleWell == WellFormed(Idle)
BY Constants DEF WellFormed, Idle, Worker, Calls, Chunk, SrcOpen, TgtOpen, OnFile

(* What copy_file leaves of a worker.                                      *)
LEMMA ReturnedWell ==
  ASSUME NEW w \in Workers, WellFormed(workers[w]), workers[w].pc # "idle"
  PROVE  WellFormed(Returned(w)) /\ Returned(w).pc \in {"idle", "readdir"}
<1> DEFINE r == workers[w]
           s == [Idle EXCEPT !.pc = "readdir", !.task = r.task, !.todo = r.todo]
<1>1. CASE r.task.type = "FULL"
  <2>1. Returned(w) = s
    BY <1>1 DEF Returned
  <2>2. r.task \in Task /\ r.todo \in SUBSET Files
    BY DEF WellFormed, Worker
  <2>3. 0 \in 0 .. MaxChunks /\ Hole \in Chunk
    BY Constants DEF Chunk
  <2>4. s \in Worker /\ s.pc = "readdir" /\ s.task = r.task /\ s.src = NULL /\ s.tgt = NULL
    BY <2>2, <2>3 DEF Idle, Worker, Calls
  <2> HIDE DEF s
  <2>5. WellFormed(s)
    BY <1>1, <2>2, <2>4 DEF WellFormed, SrcOpen, TgtOpen, OnFile
  <2> QED  BY <2>1, <2>4, <2>5
<1>2. CASE r.task.type # "FULL"
  BY <1>2, IdleWell DEF Returned, Idle
<1> QED  BY <1>1, <1>2

(* A worker steps from one well-formed state to another, and the others    *)
(* stay as they are.                                                       *)
LEMMA WorkerMoves ==
  ASSUME MInv, NEW w \in Workers, Start(w) \/ WorkerStep(w) \/ FaultStep(w)
  PROVE  \E r : WellFormed(r) /\ workers' = [workers EXCEPT ![w] = r]
<1> DEFINE r == workers[w]
<1>0. TypeOK /\ WellFormed(r)
  BY DEF MInv
<1>1. CASE Start(w)
  <2> DEFINE t == Head(queue)
             s == [Idle EXCEPT !.pc = FirstCall(t.type), !.task = t, !.file = t.file]
  <2>1. t \in Task /\ t \in Range(queue)
    <3>1. queue \in Seq(Task) /\ queue # << >>
      BY <1>0, <1>1 DEF TypeOK, Start
    <3> QED  BY <3>1, RangeOfTail, HeadTailProperties
  <2>2. t.type # "FULL" => t.file \in Files
    BY <2>1 DEF MInv, TasksOK
  <2>3. /\ t.type \in Types /\ t.file \in Files \cup {NULL}
        /\ FirstCall(t.type) = IF t.type = "FULL" THEN "opendir"
                               ELSE IF t.type = "DELETED" THEN "unlink" ELSE "open_src"
    BY <2>1 DEF Task, Types, FirstCall
  <2>4. workers' = [workers EXCEPT ![w] = s]
    BY <1>1 DEF Start
  <2> HIDE DEF t
  <2>5. 0 \in 0 .. MaxChunks /\ Hole \in Chunk
    BY Constants DEF Chunk
  <2>6. /\ s \in Worker /\ s.pc = FirstCall(t.type) /\ s.task = t /\ s.file = t.file
        /\ s.src = NULL /\ s.tgt = NULL
    BY <2>1, <2>3, <2>5 DEF Idle, Worker, Calls
  <2> HIDE DEF s
  <2>7. WellFormed(s)
    BY <2>1, <2>2, <2>3, <2>6 DEF WellFormed, SrcOpen, TgtOpen, OnFile, Types
  <2> QED  BY <2>4, <2>7
<1>2. CASE Opendir(w)
  <2> DEFINE s == [r EXCEPT !.pc = "readdir", !.todo = Present(Source(w))]
  <2>1. workers' = [workers EXCEPT ![w] = s]
    BY <1>0, <1>2 DEF Opendir, TypeOK
  <2>2. WellFormed(s)
    BY <1>0, <1>2 DEF Opendir, At, Present, WellFormed, Worker, Calls, SrcOpen, TgtOpen, OnFile
  <2> QED  BY <2>1, <2>2
<1>3. CASE Readdir(w)
  <2>1. PICK f \in r.todo :
          workers' = [workers EXCEPT ![w].pc = "open_src", ![w].file = f, ![w].todo = @ \ {f}]
    BY <1>3 DEF Readdir
  <2> DEFINE s == [r EXCEPT !.pc = "open_src", !.file = f, !.todo = r.todo \ {f}]
  <2>2. workers' = [workers EXCEPT ![w] = s]
    BY <1>0, <2>1 DEF TypeOK
  <2>3. WellFormed(s)
    BY <1>0, <1>3 DEF Readdir, At, WellFormed, Worker, Calls, SrcOpen, TgtOpen, OnFile
  <2> QED  BY <2>2, <2>3
<1>4. CASE EndOfDirectory(w) \/ Unlink(w) \/ TargetIsGone(w) \/ OpendirFails(w) \/ UnlinkFails(w)
           \/ Dies(w)
  <2>1. workers' = [workers EXCEPT ![w] = Idle]
    BY <1>4 DEF EndOfDirectory, Unlink, TargetIsGone, OpendirFails, UnlinkFails, Dies
  <2> QED  BY <2>1, IdleWell
<1>5. CASE UnlockTarget(w) \/ SourceIsGone(w) \/ SourceFails(w) \/ TargetFails(w)
  <2>1. workers' = [workers EXCEPT ![w] = Returned(w)] /\ r.pc # "idle"
    BY <1>5 DEF UnlockTarget, SourceIsGone, SourceFails, TargetFails, At
  <2> QED  BY <1>0, <2>1, ReturnedWell
<1>6. CASE OpenSource(w)
  <2> DEFINE i == entry[Source(w)][r.file]
             s == [r EXCEPT !.pc = "lock_src", !.src = i]
  <2>1. workers' = [workers EXCEPT ![w] = s]
    BY <1>0, <1>6 DEF OpenSource, TypeOK
  <2>2. i \in Inodes
    <3>1. r.task \in Task /\ r.file \in Files
      BY <1>0, <1>6 DEF OpenSource, At, WellFormed, OnFile
    <3>2. Source(w) \in Dirs
      BY <3>1, Constants DEF Task
    <3> QED  BY <1>0, <1>6, <3>1, <3>2 DEF TypeOK, OpenSource
  <2> HIDE DEF i
  <2>3. WellFormed(s)
    BY <1>0, <1>6, <2>2 DEF OpenSource, At, WellFormed, Worker, Calls, SrcOpen, TgtOpen, OnFile
  <2> QED  BY <2>1, <2>3
<1>7. CASE LockSource(w) \/ LockTarget(w) \/ UnlockSource(w)
  <2> DEFINE next == IF r.pc = "lock_src" THEN "open_tgt"
                     ELSE IF r.pc = "lock_tgt" THEN "read" ELSE "unlock_tgt"
             s == [r EXCEPT !.pc = next]
  <2>1. workers' = [workers EXCEPT ![w] = s] /\ r.pc \in {"lock_src", "lock_tgt", "unlock_src"}
    BY <1>0, <1>7 DEF LockSource, LockTarget, UnlockSource, At, TypeOK
  <2>2. WellFormed(s)
    BY <1>0, <2>1 DEF WellFormed, Worker, Calls, SrcOpen, TgtOpen, OnFile
  <2> QED  BY <2>1, <2>2
<1>8. CASE OpenTarget(w)
  <2> DEFINE i == entry'[Target(w)][r.file]
             s == [r EXCEPT !.pc = "lock_tgt", !.tgt = i]
  <2>1. workers' = [workers EXCEPT ![w] = s]
    BY <1>0, <1>8 DEF OpenTarget, TypeOK
  <2>2. i \in Inodes
    <3>1. r.task \in Task /\ r.file \in Files
      BY <1>0, <1>8 DEF OpenTarget, At, WellFormed, OnFile, SrcOpen
    <3>2. Target(w) \in Dirs
      BY <3>1, Constants DEF Task
    <3>3. CASE Truncate(Target(w), r.file)
      BY <1>0, <3>1, <3>2, <3>3 DEF TypeOK, Truncate
    <3>4. CASE Create(Target(w), r.file)
      <4>1. (CHOOSE j \in Inodes : Unused(j)) \in Inodes
        BY <3>4 DEF Create
      <4>2. entry' = [entry EXCEPT ![Target(w)][r.file] = CHOOSE j \in Inodes : Unused(j)]
        BY <3>4 DEF Create
      <4> QED  BY <1>0, <3>1, <3>2, <4>1, <4>2 DEF TypeOK
    <3> QED  BY <1>8, <3>3, <3>4 DEF OpenTarget
  <2> HIDE DEF i
  <2>3. WellFormed(s)
    BY <1>0, <1>8, <2>2 DEF OpenTarget, At, WellFormed, Worker, Calls, SrcOpen, TgtOpen, OnFile
  <2> QED  BY <2>1, <2>3
<1>9. CASE Read(w)
  <2> DEFINE content == data[r.src]
             next == r.offset + 1
             s == IF next <= Len(content)
                    THEN [r EXCEPT !.pc = "write", !.buffer = content[next]]
                    ELSE [r EXCEPT !.pc = "unlock_src"]
  <2>1. workers' = [workers EXCEPT ![w] = s] /\ r.pc = "read"
    BY <1>0, <1>9 DEF Read, At, TypeOK
  <2>2. r.offset \in Nat /\ r.src \in Inodes
    BY <1>0, <2>1, Constants DEF WellFormed, Worker, SrcOpen
  <2>3. content \in Content
    BY <1>0, <2>2 DEF TypeOK, Content
  <2>4. content \in [1 .. Len(content) -> Chunk] /\ Len(content) \in 0 .. MaxChunks
    BY <2>3, ContentLength
  <2> HIDE DEF content
  <2>5. next <= Len(content) => content[next] \in Chunk /\ r.offset < MaxChunks
    BY <2>2, <2>4, Constants
  <2>6. WellFormed(s)
    BY <1>0, <2>1, <2>5 DEF WellFormed, Worker, Calls, SrcOpen, TgtOpen, OnFile
  <2> QED  BY <2>1, <2>6
<1>10. CASE Write(w)
  <2> DEFINE s == [r EXCEPT !.pc = "read", !.offset = r.offset + 1, !.buffer = Hole]
  <2>1. workers' = [workers EXCEPT ![w] = s] /\ r.pc = "write"
    BY <1>0, <1>10 DEF Write, At, TypeOK
  <2>2. r.offset + 1 \in 0 .. MaxChunks /\ Hole \in Chunk
    BY <1>0, <2>1, Constants DEF WellFormed, Worker, Chunk
  <2>3. WellFormed(s)
    BY <1>0, <2>1, <2>2 DEF WellFormed, Worker, Calls, SrcOpen, TgtOpen, OnFile
  <2> QED  BY <2>1, <2>3
<1>11. CASE CopyFails(w)
  <2> DEFINE s == [r EXCEPT !.pc = "unlock_src", !.buffer = Hole]
  <2>1. workers' = [workers EXCEPT ![w] = s] /\ r.pc \in {"read", "write"}
    BY <1>0, <1>11 DEF CopyFails, At, TypeOK
  <2>2. WellFormed(s)
    BY <1>0, <2>1, Constants DEF WellFormed, Worker, Calls, SrcOpen, TgtOpen, OnFile, Chunk
  <2> QED  BY <2>1, <2>2
<1> QED  BY <1>1, <1>2, <1>3, <1>4, <1>5, <1>6, <1>7, <1>8, <1>9, <1>10, <1>11
         DEF WorkerStep, FaultStep

-----------------------------------------------------------------------------
(***************************************************************************)
(* The types, and the tasks in the queue.                                  *)
(***************************************************************************)

(* A file that is opened for writing is empty, and has an inode: its own,  *)
(* or one that was not in use.                                             *)
LEMMA OpenEffect ==
  ASSUME TypeOK, NEW d \in Dirs, NEW f \in Files, Truncate(d, f) \/ Create(d, f)
  PROVE  /\ entry' \in [Dirs -> [Files -> Inodes \cup {NULL}]]
         /\ data' \in [Inodes -> Content]
         /\ UNCHANGED flock
         /\ queue' \in Seq(Task)
         /\ \A t \in Range(queue') : t \in Range(queue) \/ (t.type = "ADDED" /\ t.file = f)
         /\ entry'[d][f] \in Inodes
         /\ \/ UNCHANGED entry
            \/ /\ entry[d][f] = NULL /\ Unused(entry'[d][f])
               /\ entry' = [entry EXCEPT ![d][f] = entry'[d][f]]
<1>0. /\ entry \in [Dirs -> [Files -> Inodes \cup {NULL}]]
      /\ data \in [Inodes -> Content] /\ << >> \in Content /\ queue \in Seq(Task)
  BY ContentWritten DEF TypeOK, Content
<1>1. CASE Truncate(d, f)
  BY <1>0, <1>1 DEF Truncate
<1>2. CASE Create(d, f)
  <2> DEFINE i == CHOOSE j \in Inodes : Unused(j)
  <2>1. i \in Inodes /\ Unused(i)
    BY <1>2 DEF Create
  <2>2. /\ entry[d][f] = NULL /\ entry' = [entry EXCEPT ![d][f] = i]
        /\ data' = [data EXCEPT ![i] = << >>] /\ UNCHANGED flock
        /\ queue' = queue \o Tasks("ADDED", d, f)
    BY <1>2 DEF Create
  <2> HIDE DEF i
  <2>3. entry'[d][f] = i
    BY <1>0, <2>2
  <2>4. /\ queue' \in Seq(Task)
        /\ \A t \in Range(queue') : t \in Range(queue) \/ (t.type = "ADDED" /\ t.file = f)
    BY <1>0, <2>2, QueueGrows DEF Types
  <2> QED  BY <1>0, <2>1, <2>2, <2>3, <2>4
<1> QED  BY <1>1, <1>2

(* The parts of the state that only the user and the manager change.       *)
LEMMA SpendType ==
  ASSUME TypeOK, NEW kind, NEW max,
         \/ kind = "save" /\ max = MaxSaves
         \/ kind = "delete" /\ max = MaxDeletes
         \/ kind = "sync" /\ max = MaxSyncs
         \/ kind = "fault" /\ max = MaxFaults,
         Spend(kind, max)
  PROVE  /\ spent' \in [save : 0 .. MaxSaves, delete : 0 .. MaxDeletes,
                        sync : 0 .. MaxSyncs, fault : 0 .. MaxFaults]
         /\ kind = "save" => spent'.save \in 1 .. MaxSaves
<1>1. /\ spent \in [save : 0 .. MaxSaves, delete : 0 .. MaxDeletes,
                     sync : 0 .. MaxSyncs, fault : 0 .. MaxFaults]
      /\ MaxSaves \in Nat /\ MaxDeletes \in Nat /\ MaxSyncs \in Nat /\ MaxFaults \in Nat
  BY MirrorAssumption DEF TypeOK
<1>2. spent[kind] < max /\ spent' = [spent EXCEPT ![kind] = spent[kind] + 1]
  BY DEF Spend
<1>3. CASE kind = "save" /\ max = MaxSaves
  BY <1>1, <1>2, <1>3
<1>4. CASE kind = "delete" /\ max = MaxDeletes
  BY <1>1, <1>2, <1>4
<1>5. CASE kind = "sync" /\ max = MaxSyncs
  BY <1>1, <1>2, <1>5
<1>6. CASE kind = "fault" /\ max = MaxFaults
  BY <1>1, <1>2, <1>6
<1> QED  BY <1>3, <1>4, <1>5, <1>6

(* Which pairs of a worker are what.                                       *)
LEMMA OnFileFacts ==
  ASSUME TypeOK, NEW w \in Workers, WellFormed(workers[w]), workers[w].pc # "idle"
  PROVE  /\ workers[w].task \in Task /\ workers[w].task.pair \in Pairs
         /\ Source(w) \in Dirs /\ Target(w) \in Dirs /\ Target(w) \notin Roots
         /\ workers[w].pc \in OnFile => workers[w].file \in Files
<1>1. workers[w].task \in Task /\ (workers[w].pc \in OnFile => workers[w].file \in Files)
  BY DEF WellFormed
<1> QED  BY <1>1, Constants DEF Task, Roots

LEMMA UserTypes ==
  ASSUME MInv, UserStep
  PROVE  TypeOK' /\ \A w \in Workers : WellFormed(workers[w])'
<1>0. TypeOK /\ \A w \in Workers : WellFormed(workers[w])
  BY DEF MInv
<1>1. PICK d \in Roots, f \in Files :
        UserOpens(d, f) \/ UserWrites(d, f) \/ UserCloses(d, f) \/ UserDeletes(d, f)
  BY DEF UserStep
<1>2. d \in Dirs /\ UNCHANGED <<workers, failed>>
  BY <1>1, Constants DEF UserOpens, UserWrites, UserCloses, UserDeletes
<1>3. data \in [Inodes -> Content]
  BY <1>0 DEF TypeOK, Content
<1>4. TypeOK'
  <2>1. CASE UserOpens(d, f)
    <3>1. /\ entry' \in [Dirs -> [Files -> Inodes \cup {NULL}]]
          /\ data' \in [Inodes -> Content] /\ UNCHANGED flock /\ queue' \in Seq(Task)
      BY <1>0, <1>2, <2>1, OpenEffect DEF UserOpens
    <3>2. /\ spent' \in [save : 0 .. MaxSaves, delete : 0 .. MaxDeletes,
                         sync : 0 .. MaxSyncs, fault : 0 .. MaxFaults]
          /\ spent'.save \in 0 .. MaxSaves
      BY <1>0, <2>1, SpendType DEF UserOpens
    <3> QED  BY <1>0, <1>2, <2>1, <3>1, <3>2 DEF UserOpens, TypeOK, Content
  <2>2. CASE UserWrites(d, f)
    <3>1. entry[d][f] \in Inodes /\ saving[d][f] \in Chunk
      BY <1>0, <1>2, <2>2, Constants DEF UserWrites, MInv, SavingOK, TypeOK, Chunk
    <3>2. data[entry[d][f]] \in Content /\ Len(data[entry[d][f]]) < MaxChunks
      BY <1>3, <2>2, <3>1 DEF UserWrites
    <3>3. Append(data[entry[d][f]], saving[d][f]) \in Content
      BY <3>1, <3>2, ContentWritten
    <3>4. data' \in [Inodes -> Content]
      BY <1>3, <2>2, <3>1, <3>3 DEF UserWrites
    <3> QED  BY <1>0, <1>2, <2>2, <3>4 DEF UserWrites, userVars, TypeOK, Content
  <2>3. CASE UserCloses(d, f)
    <3>1. queue' \in Seq(Task)
      BY <1>0, <2>3, QueueGrows DEF UserCloses, Types, TypeOK
    <3> QED  BY <1>0, <1>2, <2>3, <3>1, Constants, SMTT(30) DEF UserCloses, diskVars, TypeOK
  <2>4. CASE UserDeletes(d, f)
    <3>1. queue' \in Seq(Task)
      BY <1>0, <2>4, QueueGrows DEF UserDeletes, Types, TypeOK
    <3>2. spent' \in [save : 0 .. MaxSaves, delete : 0 .. MaxDeletes,
                      sync : 0 .. MaxSyncs, fault : 0 .. MaxFaults]
      BY <1>0, <2>4, SpendType DEF UserDeletes
    <3>3. entry' \in [Dirs -> [Files -> Inodes \cup {NULL}]]
      BY <1>0, <1>2, <2>4 DEF UserDeletes, TypeOK
    <3> QED  BY <1>0, <1>2, <2>4, <3>1, <3>2, <3>3 DEF UserDeletes, TypeOK
  <2> QED  BY <1>1, <2>1, <2>2, <2>3, <2>4
<1> QED  BY <1>0, <1>2, <1>4 DEF WellFormed

LEMMA SyncTypes ==
  ASSUME MInv, NEW p \in Pairs, Sync(p)
  PROVE  TypeOK' /\ \A w \in Workers : WellFormed(workers[w])'
<1>0. TypeOK /\ \A w \in Workers : WellFormed(workers[w])
  BY DEF MInv
<1>1. [type |-> "FULL", pair |-> p, file |-> NULL] \in Task
  BY DEF Task
<1>2. queue' \in Seq(Task)
  BY <1>0, <1>1, AppendProperties DEF Sync, TypeOK
<1>3. spent' \in [save : 0 .. MaxSaves, delete : 0 .. MaxDeletes,
                  sync : 0 .. MaxSyncs, fault : 0 .. MaxFaults]
  BY <1>0, SpendType DEF Sync
<1> QED  BY <1>0, <1>2, <1>3 DEF Sync, diskVars, userVars, TypeOK, WellFormed

LEMMA WorkerTypes ==
  ASSUME MInv, NEW w \in Workers, Start(w) \/ WorkerStep(w) \/ FaultStep(w)
  PROVE  TypeOK' /\ \A v \in Workers : WellFormed(workers[v])'
<1> DEFINE r == workers[w]
           SpentTyped == spent' \in [save : 0 .. MaxSaves, delete : 0 .. MaxDeletes,
                                     sync : 0 .. MaxSyncs, fault : 0 .. MaxFaults]
<1>0. TypeOK /\ WellFormed(r)
  BY DEF MInv
<1>1. PICK s : WellFormed(s) /\ workers' = [workers EXCEPT ![w] = s]
  BY WorkerMoves
<1>2. /\ workers' \in [Workers -> Worker]
      /\ \A v \in Workers : WellFormed(workers[v])'
  <2>1. \A v \in Workers : workers'[v] = IF v = w THEN s ELSE workers[v]
    BY <1>0, <1>1 DEF TypeOK
  <2>2. \A v \in Workers : WellFormed(workers'[v])
    BY <1>1, <2>1, Zenon DEF MInv
  <2> QED  BY <1>0, <1>1, <2>2 DEF WellFormed, TypeOK
<1>3. /\ data \in [Inodes -> Content] /\ queue \in Seq(Task) /\ UNCHANGED userVars
  BY <1>0, Zenon DEF TypeOK, Content, Start, WorkerStep, FaultStep, Opendir, Readdir, EndOfDirectory,
     OpenSource, LockSource, OpenTarget, LockTarget, Read, Write, UnlockSource, UnlockTarget,
     Unlink, SourceIsGone, TargetIsGone, OpendirFails, SourceFails, TargetFails, CopyFails,
     UnlinkFails, Dies
<1>4. r.pc # "idle" =>
        /\ r.task \in Task /\ r.task.pair \in Pairs /\ Source(w) \in Dirs /\ Target(w) \in Dirs
        /\ r.pc \in OnFile => r.file \in Files
  BY <1>0, OnFileFacts
<1>5. /\ r.pc \in SrcOpen => r.src \in Inodes
      /\ r.pc \in TgtOpen => r.tgt \in Inodes
      /\ r.pc \notin TgtOpen => r.tgt = NULL
  BY <1>0 DEF WellFormed
<1>6. r.pc \in OnFile => (r.task.pair \in Pairs /\ r.file \in Files /\ Target(w) \in Dirs)
  BY <1>4 DEF OnFile, SrcOpen
<1> HIDE DEF r
<1>7. <<w, "src">> \in Descriptors /\ <<w, "tgt">> \in Descriptors
  BY DEF Descriptors
<1>8. CASE Start(w)
  <2>1. queue' \in Seq(Task)
    BY <1>3, <1>8, HeadTailProperties DEF Start
  <2> QED  BY <1>0, <1>2, <1>8, <2>1 DEF Start, diskVars, userVars, TypeOK
<1>9. CASE Opendir(w) \/ Readdir(w) \/ EndOfDirectory(w) \/ OpenSource(w) \/ Read(w)
  BY <1>0, <1>2, <1>9 DEF Opendir, Readdir, EndOfDirectory, OpenSource, Read,
                          diskVars, userVars, TypeOK
<1>10. CASE LockSource(w) \/ LockTarget(w) \/ UnlockSource(w)
  <2>1. flock' \in [Inodes -> Descriptors \cup {NULL}]
    BY <1>0, <1>7, <1>10 DEF LockSource, LockTarget, UnlockSource, TypeOK
  <2> QED  BY <1>0, <1>2, <1>10, <2>1 DEF LockSource, LockTarget, UnlockSource, userVars, TypeOK
<1>11. CASE OpenTarget(w)
  <2>1. r.pc = "open_tgt" /\ (Truncate(Target(w), r.file) \/ Create(Target(w), r.file))
    BY <1>11 DEF OpenTarget, At, r
  <2>2. r.file \in Files /\ Target(w) \in Dirs
    BY <1>6, <2>1 DEF OnFile, SrcOpen
  <2>3. /\ entry' \in [Dirs -> [Files -> Inodes \cup {NULL}]]
        /\ data' \in [Inodes -> Content] /\ UNCHANGED flock /\ queue' \in Seq(Task)
    BY <1>0, <2>1, <2>2, OpenEffect
  <2> QED  BY <1>0, <1>2, <1>11, <2>3 DEF OpenTarget, userVars, TypeOK, Content
<1>12. CASE Write(w)
  <2>1. r.pc = "write"
    BY <1>12 DEF Write, At, r
  <2>2. r.tgt \in Inodes /\ r.offset + 1 \in 1 .. MaxChunks /\ r.buffer \in Chunk
    BY <1>0, <1>5, <2>1, Constants DEF TgtOpen, WellFormed, Worker
  <2>3. WriteAt(data[r.tgt], r.offset + 1, r.buffer) \in Content
    BY <1>3, <2>2, ContentWritten
  <2>4. data' = [data EXCEPT ![r.tgt] = WriteAt(data[r.tgt], r.offset + 1, r.buffer)]
    BY <1>3, <1>12, <2>2 DEF Write, r
  <2>5. data' \in [Inodes -> Content]
    BY <1>3, <2>3, <2>4
  <2> QED  BY <1>0, <1>2, <1>12, <2>5 DEF Write, userVars, TypeOK, Content
<1>13. CASE UnlockTarget(w)
  <2>1. r.file \in Files
    BY <1>6, <1>13 DEF UnlockTarget, At, r, OnFile, SrcOpen
  <2>2. queue' \in Seq(Task)
    BY <1>3, <1>13, <2>1, QueueGrows DEF UnlockTarget, Types, r
  <2>3. flock' \in [Inodes -> Descriptors \cup {NULL}]
    BY <1>0, <1>13 DEF UnlockTarget, TypeOK
  <2> QED  BY <1>0, <1>2, <1>13, <2>2, <2>3 DEF UnlockTarget, userVars, TypeOK
<1>14. CASE Unlink(w)
  <2>1. r.file \in Files /\ Target(w) \in Dirs
    BY <1>6, <1>14 DEF Unlink, At, r, OnFile
  <2>2. queue' \in Seq(Task)
    BY <1>3, <1>14, <2>1, QueueGrows DEF Unlink, Types, r
  <2>3. entry' \in [Dirs -> [Files -> Inodes \cup {NULL}]]
    BY <1>0, <1>14, <2>1 DEF Unlink, TypeOK, r
  <2> QED  BY <1>0, <1>2, <1>14, <2>2, <2>3 DEF Unlink, userVars, TypeOK
<1>15. CASE SourceIsGone(w) \/ TargetIsGone(w)
  <2>1. failed' \subseteq Pairs \X Files
    BY <1>0, <1>6, <1>15 DEF SourceIsGone, TargetIsGone, At, Report, r, OnFile, TypeOK
  <2> QED  BY <1>0, <1>2, <1>15, <2>1 DEF SourceIsGone, TargetIsGone, diskVars, userVars, TypeOK
<1>16. CASE OpendirFails(w)
  <2>1. failed' \subseteq Pairs \X Files
    BY <1>0, <1>4, <1>16 DEF OpendirFails, At, r, TypeOK
  <2>2. SpentTyped
    BY <1>0, <1>16, SpendType DEF OpendirFails, Fault
  <2> QED  BY <1>0, <1>2, <1>16, <2>1, <2>2 DEF OpendirFails, diskVars, userVars, TypeOK
<1>17. CASE SourceFails(w) \/ CopyFails(w) \/ UnlinkFails(w)
  <2>1. failed' \subseteq Pairs \X Files
    BY <1>0, <1>6, <1>17 DEF SourceFails, CopyFails, UnlinkFails, At, Report, r, OnFile, SrcOpen,
                             TypeOK
  <2>2. SpentTyped
    BY <1>0, <1>17, SpendType DEF SourceFails, CopyFails, UnlinkFails, Fault
  <2> QED  BY <1>0, <1>2, <1>17, <2>1, <2>2 DEF SourceFails, CopyFails, UnlinkFails,
                                                diskVars, userVars, TypeOK
<1>18. CASE TargetFails(w)
  <2>1. r.file \in Files /\ failed' \subseteq Pairs \X Files
    BY <1>0, <1>6, <1>18 DEF TargetFails, Report, r, OnFile, SrcOpen, TypeOK
  <2>2. SpentTyped
    BY <1>0, <1>18, SpendType DEF TargetFails, Fault
  <2>3. queue' \in Seq(Task)
    <3>1. CASE At(w, "lock_tgt")
      <4>1. queue' = queue \o Tasks("MODIFIED", Target(w), r.file)
        BY <1>18, <3>1 DEF TargetFails, r
      <4> QED  BY <1>3, <2>1, <4>1, QueueGrows DEF Types
    <3>2. CASE ~At(w, "lock_tgt")
      BY <1>3, <1>18, <3>2 DEF TargetFails
    <3> QED  BY <3>1, <3>2
  <2>4. flock' \in [Inodes -> Descriptors \cup {NULL}]
    BY <1>0, <1>18 DEF TargetFails, TypeOK
  <2> QED  BY <1>0, <1>2, <1>18, <2>1, <2>2, <2>3, <2>4 DEF TargetFails, userVars, TypeOK
<1>19. CASE Dies(w)
  <2>1. r.pc # "idle"
    BY <1>0, <1>19 DEF Dies, WellFormed, r
  <2>2. r.task.type # "FULL" => r.file \in Files
    BY <1>0, <1>6, <2>1 DEF WellFormed, Worker, Calls, OnFile, SrcOpen
  <2>3. failed' \subseteq Pairs \X Files
    <3>1. failed' = failed \cup ({r.task.pair} \X
                      IF r.task.type = "FULL" THEN Files ELSE {r.file})
      BY <1>19 DEF Dies, r
    <3> QED  BY <1>0, <1>4, <2>1, <2>2, <3>1 DEF TypeOK
  <2>4. SpentTyped
    BY <1>0, <1>19, SpendType DEF Dies, Fault
  <2>5. queue' \in Seq(Task)
    <3>1. CASE r.tgt # NULL
      <4>1. queue' = queue \o Tasks("MODIFIED", Target(w), r.file) /\ r.file \in Files
        BY <1>5, <1>6, <1>19, <3>1 DEF Dies, r, TgtOpen, SrcOpen, OnFile
      <4> QED  BY <1>3, <4>1, QueueGrows DEF Types
    <3>2. CASE r.tgt = NULL
      BY <1>3, <1>19, <3>2 DEF Dies, r
    <3> QED  BY <3>1, <3>2
  <2>6. flock' \in [Inodes -> Descriptors \cup {NULL}]
    BY <1>0, <1>19 DEF Dies, TypeOK
  <2> QED  BY <1>0, <1>2, <1>19, <2>3, <2>4, <2>5, <2>6 DEF Dies, userVars, TypeOK
<1> QED  BY <1>8, <1>9, <1>10, <1>11, <1>12, <1>13, <1>14, <1>15, <1>16, <1>17, <1>18, <1>19
         DEF WorkerStep, FaultStep

LEMMA TypeStep ==
  ASSUME MInv, [Next]_vars
  PROVE  TypeOK' /\ \A w \in Workers : WellFormed(workers[w])'
<1>1. CASE UNCHANGED vars
  BY <1>1 DEF MInv, TypeOK, WellFormed, vars, diskVars, userVars
<1>2. CASE \E w \in Workers : Start(w) \/ WorkerStep(w) \/ FaultStep(w)
  BY <1>2, WorkerTypes
<1> QED  BY <1>1, <1>2, UserTypes, SyncTypes DEF Next

-----------------------------------------------------------------------------
(***************************************************************************)
(* What the steps do to the queue, the names, the descriptors and the      *)
(* locks.                                                                  *)
(***************************************************************************)

WorkerMove(w) == Start(w) \/ WorkerStep(w) \/ FaultStep(w)

(* Every kind of step, by who takes it.                                    *)
LEMMA Movers ==
  ASSUME [Next]_vars
  PROVE  \/ UNCHANGED vars
         \/ \E d \in Roots, f \in Files :
              UserOpens(d, f) \/ UserWrites(d, f) \/ UserCloses(d, f) \/ UserDeletes(d, f)
         \/ \E p \in Pairs : Sync(p)
         \/ \E w \in Workers : WorkerMove(w)
BY DEF Next, UserStep, WorkerMove

(* Only the user's deletions are recorded, and only a worker's own steps   *)
(* move it.                                                                *)
LEMMA Bystanders ==
  ASSUME MInv, [Next]_vars
  PROVE  /\ deleted \subseteq deleted'
         /\ \A v \in Workers : workers'[v] = workers[v] \/ WorkerMove(v)
<1>1. CASE UNCHANGED vars
  BY <1>1 DEF vars, userVars
<1>2. ASSUME NEW d \in Roots, NEW f \in Files,
             UserOpens(d, f) \/ UserWrites(d, f) \/ UserCloses(d, f) \/ UserDeletes(d, f)
      PROVE  deleted \subseteq deleted' /\ UNCHANGED workers
  BY <1>2 DEF UserOpens, UserWrites, UserCloses, UserDeletes, userVars
<1>3. ASSUME NEW p \in Pairs, Sync(p) PROVE deleted \subseteq deleted' /\ UNCHANGED workers
  BY <1>3 DEF Sync, userVars
<1>4. ASSUME NEW w \in Workers, WorkerMove(w)
      PROVE  deleted \subseteq deleted' /\ \A v \in Workers : v # w => workers'[v] = workers[v]
  <2>1. UNCHANGED deleted
    BY <1>4, Zenon DEF WorkerMove, Start, WorkerStep, FaultStep, Opendir, Readdir, EndOfDirectory,
       OpenSource, LockSource, OpenTarget, LockTarget, Read, Write, UnlockSource, UnlockTarget,
       Unlink, SourceIsGone, TargetIsGone, OpendirFails, SourceFails, TargetFails, CopyFails,
       UnlinkFails, Dies, userVars
  <2>2. PICK s : workers' = [workers EXCEPT ![w] = s]
    BY <1>4, WorkerMoves DEF WorkerMove
  <2> QED  BY <2>1, <2>2, Zenon DEF MInv, TypeOK
<1> QED  BY <1>1, <1>2, <1>3, <1>4, Movers

(* A task that is new in the queue is a full synchronisation, or that of   *)
(* an event about a file; deletions are about files the user deleted.      *)
NewTask(t) ==
  t.type = "FULL" \/ (t.file \in Files /\ (t.type = "DELETED" => t.file \in deleted'))

LEMMA QueueSteps ==
  ASSUME MInv, [Next]_vars
  PROVE  \A t \in Range(queue') : t \in Range(queue) \/ NewTask(t)
<1>0. TypeOK /\ queue \in Seq(Task) /\ TasksOK
  BY DEF MInv, TypeOK
<1>1. CASE UNCHANGED queue
  BY <1>1
<1>2. ASSUME NEW type \in Types, NEW d, NEW f \in Files, queue' = queue \o Tasks(type, d, f),
             type = "DELETED" => f \in deleted'
      PROVE  \A t \in Range(queue') : t \in Range(queue) \/ NewTask(t)
  BY <1>0, <1>2, QueueGrows DEF NewTask
<1>3. ASSUME NEW d \in Dirs, NEW f \in Files, Truncate(d, f) \/ Create(d, f)
      PROVE  \A t \in Range(queue') : t \in Range(queue) \/ NewTask(t)
  BY <1>0, <1>3, OpenEffect DEF NewTask
<1>4. ASSUME NEW d \in Roots, NEW f \in Files,
             UserOpens(d, f) \/ UserWrites(d, f) \/ UserCloses(d, f) \/ UserDeletes(d, f)
      PROVE  \A t \in Range(queue') : t \in Range(queue) \/ NewTask(t)
  <2>1. CASE UserOpens(d, f)
    BY <1>3, <2>1, Constants DEF UserOpens
  <2>2. CASE UserWrites(d, f)
    BY <1>1, <2>2 DEF UserWrites
  <2>3. CASE UserCloses(d, f)
    BY <1>2, <2>3 DEF UserCloses, Types
  <2>4. CASE UserDeletes(d, f)
    BY <1>2, <2>4 DEF UserDeletes, Types
  <2> QED  BY <1>4, <2>1, <2>2, <2>3, <2>4
<1>5. ASSUME NEW p \in Pairs, Sync(p)
      PROVE  \A t \in Range(queue') : t \in Range(queue) \/ NewTask(t)
  <2> DEFINE t == [type |-> "FULL", pair |-> p, file |-> NULL]
  <2>1. t \in Task /\ t.type = "FULL" /\ queue' = Append(queue, t)
    BY <1>5 DEF Sync, Task
  <2> HIDE DEF t
  <2>2. Range(Append(queue, t)) = Range(queue) \cup {t}
    BY <1>0, <2>1, RangeOfAppend, SMTT(30)
  <2> QED  BY <2>1, <2>2 DEF NewTask
<1>6. ASSUME NEW w \in Workers, WorkerMove(w)
      PROVE  \A t \in Range(queue') : t \in Range(queue) \/ NewTask(t)
  <2> DEFINE r == workers[w]
  <2>0. /\ WellFormed(r)
        /\ r.pc \in OnFile => r.file \in Files /\ Target(w) \in Dirs
    <3>1. WellFormed(r)
      BY DEF MInv
    <3>2. r.pc \in OnFile => r.pc # "idle"
      BY DEF OnFile, SrcOpen
    <3> QED  BY <1>0, <3>1, <3>2, OnFileFacts
  <2>1. CASE Start(w)
    BY <1>0, <2>1, RangeOfTail DEF Start
  <2>2. CASE OpenTarget(w)
    BY <1>3, <2>0, <2>2 DEF OpenTarget, At, OnFile, SrcOpen
  <2>3. CASE UnlockTarget(w)
    BY <1>2, <2>0, <2>3 DEF UnlockTarget, At, OnFile, SrcOpen, Types
  <2>4. CASE Unlink(w)
    <3>1. r.file \in deleted' /\ r.file \in Files
      BY <1>0, <2>0, <2>4 DEF Unlink, At, TasksOK, userVars, OnFile
    <3> QED  BY <1>2, <2>4, <3>1 DEF Unlink, Types
  <2>5. CASE TargetFails(w)
    BY <1>1, <1>2, <2>0, <2>5 DEF TargetFails, At, OnFile, SrcOpen, Types
  <2>6. CASE Dies(w)
    <3>1. r.tgt # NULL => r.file \in Files
      BY <2>0 DEF WellFormed, TgtOpen, SrcOpen, OnFile
    <3> QED  BY <1>1, <1>2, <2>6, <3>1 DEF Dies, Types
  <2>7. CASE UNCHANGED queue
    BY <1>1, <2>7
  <2> QED  BY <1>6, <2>1, <2>2, <2>3, <2>4, <2>5, <2>6, <2>7
           DEF WorkerMove, WorkerStep, FaultStep, Opendir, Readdir, EndOfDirectory, OpenSource,
               LockSource, LockTarget, Read, Write, UnlockSource, SourceIsGone, TargetIsGone,
               OpendirFails, SourceFails, CopyFails, UnlinkFails
<1> QED  BY <1>1, <1>4, <1>5, <1>6, Movers DEF vars

(* The directory calls of a full synchronization.                          *)
LEMMA DirectoryCalls ==
  ASSUME NEW v \in Workers, workers \in [Workers -> Worker]
  PROVE  /\ Opendir(v) => workers'[v].pc = "readdir"
         /\ Readdir(v) => workers'[v].pc = "open_src"
<1>0. workers[v] \in Worker
  OBVIOUS
<1>1. ASSUME Opendir(v) PROVE workers'[v].pc = "readdir"
  <2>1. workers' = [workers EXCEPT ![v].pc = "readdir", ![v].todo = Present(Source(v))]
    BY <1>1 DEF Opendir
  <2> DEFINE found == Present(Source(v))
  <2> HIDE DEF found
  <2> QED  BY <1>0, <2>1 DEF Worker, found
<1>2. ASSUME Readdir(v) PROVE workers'[v].pc = "open_src"
  <2>1. PICK f \in workers[v].todo :
          workers' = [workers EXCEPT ![v].pc = "open_src", ![v].file = f,
                                     ![v].todo = workers[v].todo \ {f}]
    BY <1>0, <1>2 DEF Readdir, Worker
  <2> QED  BY <1>0, <2>1 DEF Worker
<1> QED  BY <1>1, <1>2

(* The next call of a worker that goes on with its task.                   *)
LEMMA CallSteps ==
  ASSUME TypeOK, NEW v \in Workers, WorkerMove(v), ~Start(v)
  PROVE  /\ workers'[v].pc # "unlink"
         /\ UnlockTarget(v) \/ Unlink(v) \/ SourceIsGone(v) \/ TargetIsGone(v) \/ EndOfDirectory(v)
            \/ SourceFails(v) \/ TargetFails(v) \/ OpendirFails(v) \/ UnlinkFails(v) \/ Dies(v)
              => workers'[v].pc \in {"idle", "readdir"}
<1>0. workers \in [Workers -> Worker] /\ workers[v] \in Worker
  BY DEF TypeOK
<1>1. CASE EndOfDirectory(v) \/ Unlink(v) \/ TargetIsGone(v) \/ OpendirFails(v) \/ UnlinkFails(v)
           \/ Dies(v)
  <2>1. workers' = [workers EXCEPT ![v] = Idle]
    BY <1>1 DEF EndOfDirectory, Unlink, TargetIsGone, OpendirFails, UnlinkFails, Dies
  <2>2. workers'[v].pc = "idle"
    BY <1>0, <2>1 DEF Idle
  <2> QED  BY <2>2
<1>2. CASE UnlockTarget(v) \/ SourceIsGone(v) \/ SourceFails(v) \/ TargetFails(v)
  <2>1. workers' = [workers EXCEPT ![v] = Returned(v)]
    BY <1>2 DEF UnlockTarget, SourceIsGone, SourceFails, TargetFails
  <2>2. Returned(v).pc \in {"idle", "readdir"}
    BY DEF Returned, Idle
  <2>3. workers'[v].pc \in {"idle", "readdir"}
    BY <1>0, <2>1, <2>2
  <2> QED  BY <2>3
<1>3. CASE Opendir(v) \/ Readdir(v) \/ OpenSource(v) \/ LockSource(v) \/ OpenTarget(v)
           \/ LockTarget(v)
  <2>1. workers'[v].pc \in {"readdir", "open_src", "lock_src", "open_tgt", "lock_tgt", "read"}
    <3>1. CASE Opendir(v) \/ Readdir(v)
      BY <1>0, <3>1, DirectoryCalls
    <3>2. CASE OpenSource(v) \/ LockSource(v)
      BY <1>0, <3>2 DEF OpenSource, LockSource, Worker
    <3>3. CASE OpenTarget(v)
      BY <1>0, <3>3 DEF OpenTarget, Worker
    <3>4. CASE LockTarget(v)
      BY <1>0, <3>4 DEF LockTarget, Worker
    <3> QED  BY <1>3, <3>1, <3>2, <3>3, <3>4
  <2> QED  BY <1>1, <1>2, <2>1
<1>4. CASE Read(v) \/ Write(v) \/ UnlockSource(v) \/ CopyFails(v)
  <2>1. workers'[v].pc \in {"read", "write", "unlock_src", "unlock_tgt"}
    BY <1>0, <1>4 DEF Read, Write, UnlockSource, CopyFails, Worker
  <2> QED  BY <1>1, <1>2, <2>1
<1> QED  BY <1>1, <1>2, <1>3, <1>4 DEF WorkerMove, WorkerStep, FaultStep

LEMMA TasksStep ==
  ASSUME MInv, [Next]_vars
  PROVE  TasksOK'
<1>0. TypeOK /\ TasksOK /\ deleted \subseteq deleted'
  BY Bystanders DEF MInv
<1>1. \A t \in Range(queue') :
        (t.type # "FULL" => t.file \in Files) /\ (t.type = "DELETED" => t.file \in deleted')
  BY <1>0, QueueSteps DEF TasksOK, NewTask
<1>2. ASSUME NEW v \in Workers, workers'[v].pc = "unlink"
      PROVE  workers'[v].file \in deleted'
  <2>1. CASE workers'[v] = workers[v]
    BY <1>0, <1>2, <2>1 DEF TasksOK, At
  <2>2. CASE WorkerMove(v)
    <3>1. CASE Start(v)
      <4> DEFINE t == Head(queue)
      <4>1. t \in Range(queue) /\ t \in Task
        BY <1>0, <3>1, RangeOfTail, HeadTailProperties DEF Start, TypeOK
      <4>2. workers'[v].pc = FirstCall(t.type) /\ workers'[v].file = t.file
        BY <1>0, <3>1 DEF Start, TypeOK, Idle
      <4>3. t.type = "DELETED"
        BY <1>2, <4>1, <4>2 DEF FirstCall, Task
      <4> QED  BY <1>0, <4>1, <4>2, <4>3 DEF TasksOK
    <3>2. CASE ~Start(v)
      <4> QED  BY <1>2, <2>2, <3>2, CallSteps DEF MInv
    <3> QED  BY <3>1, <3>2
  <2> QED  BY <2>1, <2>2, Bystanders
<1> QED  BY <1>1, <1>2 DEF TasksOK, At

-----------------------------------------------------------------------------

(* A name is given to an inode that is not in use, or taken from a file    *)
(* that the user has deleted and does not save.                            *)
Created(d, f) ==
  /\ entry[d][f] = NULL /\ entry'[d][f] \in Inodes /\ Unused(entry'[d][f])
  /\ entry' = [entry EXCEPT ![d][f] = entry'[d][f]]

Removed(d, f) ==
  /\ f \in deleted' /\ (d \in Roots => saving'[d][f] = 0)
  /\ entry' = [entry EXCEPT ![d][f] = NULL]

LEMMA NameSteps ==
  ASSUME MInv, [Next]_vars
  PROVE  \/ UNCHANGED entry
         \/ \E d \in Dirs, f \in Files : Created(d, f) \/ Removed(d, f)
<1>0. TypeOK /\ TasksOK
  BY DEF MInv
<1>1. ASSUME NEW d \in Dirs, NEW f \in Files, Truncate(d, f) \/ Create(d, f)
      PROVE  UNCHANGED entry \/ Created(d, f)
  BY <1>0, <1>1, OpenEffect DEF Created
<1>2. ASSUME NEW d \in Roots, NEW f \in Files,
             UserOpens(d, f) \/ UserWrites(d, f) \/ UserCloses(d, f) \/ UserDeletes(d, f)
      PROVE  UNCHANGED entry \/ Created(d, f) \/ Removed(d, f)
  <2>1. CASE UserOpens(d, f)
    BY <1>1, <2>1, Constants DEF UserOpens
  <2>2. CASE UserWrites(d, f) \/ UserCloses(d, f)
    BY <2>2 DEF UserWrites, UserCloses, diskVars
  <2>3. CASE UserDeletes(d, f)
    BY <2>3 DEF UserDeletes, Removed
  <2> QED  BY <1>2, <2>1, <2>2, <2>3
<1>3. ASSUME NEW p \in Pairs, Sync(p) PROVE UNCHANGED entry
  BY <1>3 DEF Sync, diskVars
<1>4. ASSUME NEW w \in Workers, WorkerMove(w)
      PROVE  UNCHANGED entry \/ \E d \in Dirs, f \in Files : Created(d, f) \/ Removed(d, f)
  <2> DEFINE r == workers[w]
  <2>0. /\ r.pc \in OnFile => /\ r.file \in Files /\ Target(w) \in Dirs
                              /\ Target(w) \notin Roots
    <3>1. WellFormed(r)
      BY DEF MInv
    <3>2. r.pc \in OnFile => r.pc # "idle"
      BY DEF OnFile, SrcOpen
    <3> QED  BY <1>0, <3>1, <3>2, OnFileFacts
  <2>1. CASE OpenTarget(w)
    BY <1>1, <2>0, <2>1 DEF OpenTarget, At, OnFile, SrcOpen
  <2>2. CASE Unlink(w)
    <3>1. r.file \in deleted' /\ r.file \in Files /\ Target(w) \in Dirs /\ Target(w) \notin Roots
      BY <1>0, <2>0, <2>2 DEF Unlink, At, TasksOK, userVars, OnFile
    <3>2. Removed(Target(w), r.file)
      BY <2>2, <3>1 DEF Unlink, Removed
    <3> QED  BY <3>1, <3>2
  <2>3. CASE ~OpenTarget(w) /\ ~Unlink(w)
    BY <1>4, <2>3, Zenon DEF WorkerMove, Start, WorkerStep, FaultStep, Opendir, Readdir, EndOfDirectory,
       OpenSource, LockSource, LockTarget, Read, Write, UnlockSource, UnlockTarget,
       SourceIsGone, TargetIsGone, OpendirFails, SourceFails, TargetFails, CopyFails,
       UnlinkFails, Dies, diskVars
  <2> QED  BY <2>1, <2>2, <2>3
<1> QED  BY <1>2, <1>3, <1>4, Constants, Movers DEF vars, diskVars

LEMMA SavingStep ==
  ASSUME MInv, [Next]_vars
  PROVE  SavingOK'
<1> SUFFICES ASSUME NEW d \in Roots, NEW f \in Files, saving'[d][f] # 0
             PROVE  entry'[d][f] # NULL
  BY DEF SavingOK
<1>0. TypeOK /\ SavingOK /\ d \in Dirs /\ NULL \notin Inodes
  BY Constants DEF MInv
<1>1. CASE UserOpens(d, f)
  BY <1>0, <1>1, OpenEffect DEF UserOpens
<1>2. CASE ~UserOpens(d, f)
  <2>1. saving[d][f] # 0
    <3>0. saving \in [Roots -> [Files -> 0 .. MaxSaves]]
      BY <1>0 DEF TypeOK
    <3>1. ASSUME NEW e \in Roots, NEW g \in Files,
                 UserOpens(e, g) \/ UserWrites(e, g) \/ UserCloses(e, g) \/ UserDeletes(e, g)
          PROVE  saving[d][f] # 0
      <4>1. CASE UserOpens(e, g)
        <5>1. (e # d \/ g # f) /\ saving' = [saving EXCEPT ![e][g] = spent'.save]
          BY <1>2, <4>1 DEF UserOpens
        <5>2. saving'[d][f] = saving[d][f]
          BY <3>0, <5>1
        <5> QED  BY <5>2
      <4>2. CASE UserCloses(e, g)
        <5>1. saving' = [saving EXCEPT ![e][g] = 0]
          BY <4>2 DEF UserCloses
        <5>2. saving'[d][f] = saving[d][f] \/ saving'[d][f] = 0
          BY <3>0, <5>1
        <5> QED  BY <5>2
      <4>3. CASE UserWrites(e, g) \/ UserDeletes(e, g)
        BY <4>3, Zenon DEF UserWrites, UserDeletes, userVars
      <4> QED  BY <3>1, <4>1, <4>2, <4>3
    <3>2. ASSUME NEW w \in Workers, WorkerMove(w) PROVE UNCHANGED saving
      BY <3>2, Zenon DEF WorkerMove, Start, WorkerStep, FaultStep, Opendir, Readdir, EndOfDirectory,
         OpenSource, LockSource, OpenTarget, LockTarget, Read, Write, UnlockSource, UnlockTarget,
         Unlink, SourceIsGone, TargetIsGone, OpendirFails, SourceFails, TargetFails, CopyFails,
         UnlinkFails, Dies, userVars
    <3>3. CASE UNCHANGED vars \/ \E p \in Pairs : Sync(p)
      BY <3>3 DEF Sync, userVars, vars
    <3> QED  BY <3>1, <3>2, <3>3, Movers
  <2>2. entry[d][f] # NULL /\ entry \in [Dirs -> [Files -> Inodes \cup {NULL}]]
    BY <1>0, <2>1 DEF SavingOK, TypeOK
  <2>3. ASSUME NEW e \in Dirs, NEW g \in Files, Created(e, g) \/ Removed(e, g)
        PROVE  entry'[d][f] # NULL
    <3>1. CASE e = d /\ g = f
      BY <1>0, <2>3, <3>1 DEF Created, Removed
    <3>2. CASE ~(e = d /\ g = f)
      <4>1. entry'[d][f] = entry[d][f]
        BY <1>0, <2>2, <2>3, <3>2 DEF Created, Removed
      <4> QED  BY <2>2, <4>1
    <3> QED  BY <3>1, <3>2
  <2> QED  BY <2>2, <2>3, NameSteps
<1> QED  BY <1>1, <1>2

(* What a worker has open, and what it has locked, it had already, or it   *)
(* has just opened or locked it.                                           *)
LEMMA DescriptorSteps ==
  ASSUME MInv, [Next]_vars, NEW v \in Workers
  PROVE  /\ workers'[v].pc \in SrcOpen =>
              /\ workers'[v].task = workers[v].task /\ workers'[v].file = workers[v].file
              /\ \/ workers[v].pc \in SrcOpen /\ workers'[v].src = workers[v].src
                 \/ OpenSource(v)
         /\ workers'[v].pc \in TgtOpen =>
              /\ workers'[v].task = workers[v].task /\ workers'[v].file = workers[v].file
              /\ \/ workers[v].pc \in TgtOpen /\ workers'[v].tgt = workers[v].tgt
                 \/ OpenTarget(v) /\ workers'[v].tgt = entry'[Target(v)][workers[v].file]
         /\ workers'[v].pc \in SrcLocked =>
              \/ workers[v].pc \in SrcLocked /\ workers'[v].src = workers[v].src
              \/ LockSource(v) /\ workers'[v].src = workers[v].src
         /\ workers'[v].pc \in TgtLocked =>
              \/ workers[v].pc \in TgtLocked /\ workers'[v].tgt = workers[v].tgt
              \/ LockTarget(v) /\ workers'[v].tgt = workers[v].tgt
<1>0. TypeOK
  BY DEF MInv
<1> DEFINE r == workers[v]
           s == workers'[v]
<1> USE DEF SrcOpen, TgtOpen, SrcLocked, TgtLocked
<1>1. CASE s = r
  BY <1>1
<1>2. CASE WorkerMove(v)
  <2>1. workers \in [Workers -> Worker] /\ r \in Worker
    BY <1>0 DEF TypeOK
  <2>2. CASE s.pc \in {"idle", "opendir", "readdir", "open_src", "unlink"}
    BY <2>2
  <2>3. CASE Start(v) \/ Opendir(v) \/ Readdir(v) \/ EndOfDirectory(v) \/ UnlockTarget(v)
             \/ Unlink(v) \/ SourceIsGone(v) \/ TargetIsGone(v) \/ OpendirFails(v)
             \/ SourceFails(v) \/ TargetFails(v) \/ UnlinkFails(v) \/ Dies(v)
    <3>1. CASE Start(v)
      <4>0. queue \in Seq(Task) /\ queue # << >>
        BY <1>0, <3>1 DEF Start, TypeOK
      <4>1. Head(queue).type \in Types
        <5>1. Head(queue) \in Task
          BY <4>0, HeadTailProperties
        <5> QED  BY <5>1 DEF Task, Types
      <4>2. s.pc = FirstCall(Head(queue).type)
        BY <2>1, <3>1 DEF Start, Idle
      <4> QED  BY <2>2, <4>1, <4>2 DEF FirstCall, Types
    <3>2. CASE ~Start(v)
      <4>1. CASE Opendir(v) \/ Readdir(v)
        <5>1. s.pc \in {"readdir", "open_src"}
          BY <2>1, <4>1, DirectoryCalls
        <5> QED  BY <2>2, <5>1
      <4>2. CASE ~(Opendir(v) \/ Readdir(v))
        <5>1. s.pc \in {"idle", "readdir"}
          BY <1>0, <1>2, <2>3, <3>2, <4>2, CallSteps
        <5> QED  BY <2>2, <5>1
      <4> QED  BY <4>1, <4>2
    <3> QED  BY <3>1, <3>2
  <2>4. CASE OpenSource(v)
    BY <2>1, <2>4 DEF OpenSource, Worker
  <2>5. CASE LockSource(v)
    BY <2>1, <2>5 DEF LockSource, At, Worker
  <2>6. CASE OpenTarget(v)
    BY <2>1, <2>6 DEF OpenTarget, At, Worker
  <2>7. CASE LockTarget(v)
    BY <2>1, <2>7 DEF LockTarget, At, Worker
  <2>8. CASE Read(v)
    BY <2>1, <2>8 DEF Read, At, Worker
  <2>9. CASE Write(v) \/ UnlockSource(v) \/ CopyFails(v)
    BY <2>1, <2>9 DEF Write, UnlockSource, CopyFails, At, Worker
  <2> QED  BY <1>2, <2>3, <2>4, <2>5, <2>6, <2>7, <2>8, <2>9 DEF WorkerMove, WorkerStep, FaultStep
<1> QED  BY <1>1, <1>2, Bystanders

(* A name that changes is new, or that of a deleted file.                  *)
LEMMA NameChanges ==
  ASSUME MInv, [Next]_vars, NEW d \in Dirs, NEW f \in Files, entry'[d][f] # entry[d][f]
  PROVE  /\ entry'[d][f] # NULL => entry[d][f] = NULL /\ Unused(entry'[d][f])
         /\ entry'[d][f] = NULL => f \in deleted'
<1>1. entry \in [Dirs -> [Files -> Inodes \cup {NULL}]]
  BY DEF MInv, TypeOK
<1> QED  BY <1>1, NameSteps DEF Created, Removed

LEMMA NamesStep ==
  ASSUME MInv, [Next]_vars
  PROVE  OneName' /\ TargetNamed' /\ SourceNamed'
<1>0. /\ TypeOK /\ OneName /\ TargetNamed /\ SourceNamed /\ NULL \notin Inodes
      /\ entry \in [Dirs -> [Files -> Inodes \cup {NULL}]]
      /\ TypeOK' /\ (\A w \in Workers : WellFormed(workers[w]) /\ WellFormed(workers[w])')
      /\ deleted \subseteq deleted'
  BY TypeStep, Bystanders, Constants DEF MInv, TypeOK
<1>1. ASSUME NEW d \in Dirs, NEW f \in Files, entry'[d][f] # entry[d][f]
      PROVE  /\ entry'[d][f] # NULL => entry[d][f] = NULL /\ Unused(entry'[d][f])
             /\ entry'[d][f] = NULL => f \in deleted'
  BY <1>1, NameChanges
<1>2. OneName'
  <2> SUFFICES ASSUME NEW d \in Dirs, NEW e \in Dirs, NEW f \in Files, NEW g \in Files,
                      entry'[d][f] # NULL, entry'[d][f] = entry'[e][g]
               PROVE  d = e /\ f = g
    BY DEF OneName
  <2>1. CASE UNCHANGED entry
    BY <1>0, <2>1 DEF OneName
  <2>2. ASSUME NEW b \in Dirs, NEW h \in Files, Created(b, h) \/ Removed(b, h)
        PROVE  d = e /\ f = g
    <3>1. \A c \in Dirs, k \in Files :
            entry'[c][k] = IF c = b /\ k = h THEN entry'[b][h] ELSE entry[c][k]
      BY <1>0, <2>2 DEF Created, Removed
    <3>2. CASE Created(b, h)
      BY <1>0, <3>1, <3>2 DEF Created, Unused, OneName
    <3>3. CASE Removed(b, h)
      <4>1. entry'[b][h] = NULL
        BY <1>0, <3>3 DEF Removed
      <4> QED  BY <1>0, <3>1, <4>1 DEF OneName
    <3> QED  BY <2>2, <3>2, <3>3
  <2> QED  BY <2>1, <2>2, NameSteps
<1>3. TargetNamed'
  <2> SUFFICES ASSUME NEW w \in Workers, NEW d \in Dirs, NEW f \in Files,
                      workers'[w].pc \in TgtOpen, workers'[w].tgt = entry'[d][f]
               PROVE  d = workers'[w].task.pair.target /\ f = workers'[w].file
    BY DEF TargetNamed, Target
  <2>1. /\ workers'[w].task = workers[w].task /\ workers'[w].file = workers[w].file
        /\ workers'[w].tgt \in Inodes /\ entry'[d][f] # NULL
    BY <1>0, DescriptorSteps DEF WellFormed
  <2>2. CASE workers[w].pc \in TgtOpen /\ workers'[w].tgt = workers[w].tgt
    <3>1. entry'[d][f] = entry[d][f]
      <4>1. entry'[d][f] = workers[w].tgt
        BY <2>2
      <4>2. ~ Unused(entry'[d][f])
        BY <2>2, <4>1 DEF Unused
      <4> QED  BY <1>1, <2>1, <4>2
    <3>2. \A e \in Dirs, g \in Files :
            workers[w].tgt = entry[e][g] => e = Target(w) /\ g = workers[w].file
      BY <1>0, <2>2 DEF TargetNamed
    <3>3. workers[w].tgt = entry[d][f]
      BY <2>2, <3>1
    <3> QED  BY <2>1, <3>2, <3>3 DEF Target
  <2>3. CASE OpenTarget(w) /\ workers'[w].tgt = entry'[Target(w)][workers[w].file]
    <3>1. Target(w) \in Dirs /\ workers[w].file \in Files
      BY <1>0, <2>3, OnFileFacts DEF OpenTarget, At, OnFile, SrcOpen
    <3>2. d = Target(w) /\ f = workers[w].file
      <4>1. \A e \in Dirs, g \in Files :
              entry'[d][f] # NULL /\ entry'[d][f] = entry'[e][g] => d = e /\ f = g
        BY <1>2 DEF OneName
      <4>2. entry'[d][f] = entry'[Target(w)][workers[w].file]
        BY <2>3
      <4> QED  BY <2>1, <3>1, <4>1, <4>2
    <3> QED  BY <2>1, <3>2 DEF Target
  <2> QED  BY <2>2, <2>3, DescriptorSteps
<1>4. SourceNamed'
  <2> SUFFICES ASSUME NEW w \in Workers, workers'[w].pc \in SrcOpen,
                      workers'[w].file \notin deleted'
               PROVE  workers'[w].src = entry'[workers'[w].task.pair.source][workers'[w].file]
    BY DEF SourceNamed, Source
  <2>1. /\ workers'[w].task = workers[w].task /\ workers'[w].file = workers[w].file
        /\ workers[w].file \notin deleted
    BY <1>0, DescriptorSteps
  <2>2. CASE workers[w].pc \in SrcOpen /\ workers'[w].src = workers[w].src
    <3>1. /\ Source(w) \in Dirs /\ workers[w].file \in Files /\ workers[w].src \in Inodes
          /\ workers[w].src = entry[Source(w)][workers[w].file]
      BY <1>0, <2>1, <2>2, OnFileFacts DEF SourceNamed, OnFile, SrcOpen, WellFormed
    <3>2. entry'[Source(w)][workers[w].file] = entry[Source(w)][workers[w].file]
      BY <1>0, <1>1, <2>1, <3>1
    <3> QED  BY <2>1, <2>2, <3>1, <3>2 DEF Source
  <2>3. CASE OpenSource(w)
    <3>1. /\ workers'[w].src = entry[Source(w)][workers[w].file] /\ UNCHANGED entry
      BY <1>0, <2>3 DEF OpenSource, TypeOK, Worker, diskVars
    <3> QED  BY <2>1, <3>1 DEF Source
  <2> QED  BY <2>2, <2>3, DescriptorSteps
<1> QED  BY <1>2, <1>3, <1>4

-----------------------------------------------------------------------------

(* The calls that change locks.                                            *)
LEMMA LockCalls ==
  ASSUME NEW w \in Workers, WorkerMove(w)
  PROVE  \/ UNCHANGED flock \/ LockSource(w) \/ LockTarget(w) \/ UnlockSource(w)
         \/ UnlockTarget(w) \/ TargetFails(w) \/ Dies(w)
BY Zenon DEF WorkerMove, Start, WorkerStep, FaultStep, Opendir, Readdir, EndOfDirectory,
   OpenSource, OpenTarget, Truncate, Create, Read, Write, Unlink, SourceIsGone, TargetIsGone,
   OpendirFails, SourceFails, CopyFails, UnlinkFails, diskVars

(* A lock is given up by its holder only.                                  *)
LEMMA LockSteps ==
  ASSUME MInv, [Next]_vars, NEW v \in Workers, NEW i \in Inodes
  PROVE  /\ flock[i] = <<v, "src">> => flock'[i] = <<v, "src">> \/ workers'[v].pc \notin SrcLocked
         /\ flock[i] = <<v, "tgt">> => flock'[i] = <<v, "tgt">> \/ workers'[v].pc \notin TgtLocked
<1>0. /\ TypeOK /\ LocksOK /\ flock \in [Inodes -> Descriptors \cup {NULL}]
      /\ workers \in [Workers -> Worker]
      /\ <<v, "src">> # NULL /\ <<v, "tgt">> # NULL
  <2>1. <<v, "src">> \in Descriptors /\ <<v, "tgt">> \in Descriptors
    BY DEF Descriptors
  <2> QED  BY <2>1, Constants DEF MInv, TypeOK
<1>1. CASE UNCHANGED flock
  BY <1>1
<1>2. ASSUME NEW w \in Workers, LockSource(w) \/ LockTarget(w)
      PROVE  flock[i] # NULL => flock'[i] = flock[i]
  BY <1>0, <1>2 DEF LockSource, LockTarget
<1>3. ASSUME NEW w \in Workers, UnlockSource(w)
      PROVE  \/ flock'[i] = flock[i]
             \/ flock[i] = <<w, "src">> /\ workers'[w].pc \notin SrcLocked
  BY <1>0, <1>3 DEF UnlockSource, At, LocksOK, SrcLocked
<1>4. ASSUME NEW w \in Workers, UnlockTarget(w) \/ TargetFails(w) \/ Dies(w)
      PROVE  \/ flock'[i] = flock[i]
             \/ /\ flock[i] \in {<<w, "src">>, <<w, "tgt">>} \/ flock[i] = NULL
                /\ workers'[w].pc \in {"idle", "readdir"}
  <2>1. workers'[w].pc \in {"idle", "readdir"}
    <3>1. WorkerMove(w)
      BY <1>4 DEF WorkerMove, WorkerStep, FaultStep
    <3>2. CASE Start(w)
      BY <1>4, <3>2 DEF Start, UnlockTarget, TargetFails, Dies, At, Idle
    <3> QED  BY <1>0, <1>4, <3>1, <3>2, CallSteps
  <2>2. CASE UnlockTarget(w)
    <3>1. workers[w].pc = "unlock_tgt" /\ flock' = [flock EXCEPT ![workers[w].tgt] = NULL]
      BY <2>2 DEF UnlockTarget, At
    <3>2. flock[workers[w].tgt] = <<w, "tgt">>
      BY <1>0, <3>1 DEF LocksOK, TgtLocked
    <3> QED  BY <1>0, <2>1, <3>1, <3>2
  <2>3. CASE TargetFails(w)
    <3>1. /\ workers[w].pc \in {"open_tgt", "lock_tgt"}
          /\ flock' = [flock EXCEPT ![workers[w].src] = NULL]
      BY <2>3 DEF TargetFails
    <3>2. flock[workers[w].src] = <<w, "src">>
      BY <1>0, <3>1, Zenon DEF LocksOK, SrcLocked
    <3> QED  BY <1>0, <2>1, <3>1, <3>2
  <2>4. CASE Dies(w)
    BY <1>0, <2>1, <2>4 DEF Dies
  <2> QED  BY <1>4, <2>2, <2>3, <2>4
<1>5. ASSUME NEW w \in Workers, WorkerMove(w)
      PROVE  \/ UNCHANGED flock \/ LockSource(w) \/ LockTarget(w) \/ UnlockSource(w)
             \/ UnlockTarget(w) \/ TargetFails(w) \/ Dies(w)
  BY <1>5, LockCalls
<1>6. ASSUME NEW w \in Workers, WorkerMove(w)
      PROVE  /\ flock[i] = <<v, "src">> =>
                  flock'[i] = <<v, "src">> \/ workers'[v].pc \notin SrcLocked
             /\ flock[i] = <<v, "tgt">> =>
                  flock'[i] = <<v, "tgt">> \/ workers'[v].pc \notin TgtLocked
  <2>1. CASE LockSource(w) \/ LockTarget(w)
    BY <1>0, <1>2, <2>1
  <2>2. CASE UnlockSource(w)
    BY <1>3, <2>2
  <2>3. CASE UnlockTarget(w) \/ TargetFails(w) \/ Dies(w)
    BY <1>0, <1>4, <2>3 DEF SrcLocked, TgtLocked
  <2> QED  BY <1>1, <1>5, <1>6, <2>1, <2>2, <2>3
<1>7. CASE UNCHANGED vars
  BY <1>1, <1>7 DEF vars, diskVars
<1>8. ASSUME NEW d \in Roots, NEW f \in Files,
             UserOpens(d, f) \/ UserWrites(d, f) \/ UserCloses(d, f) \/ UserDeletes(d, f)
      PROVE  UNCHANGED flock
  BY <1>8 DEF UserOpens, UserWrites, UserCloses, UserDeletes, Truncate, Create, diskVars
<1>9. ASSUME NEW p \in Pairs, Sync(p) PROVE UNCHANGED flock
  BY <1>9 DEF Sync, diskVars
<1> QED  BY <1>1, <1>6, <1>7, <1>8, <1>9, Movers

LEMMA LocksStep ==
  ASSUME MInv, [Next]_vars
  PROVE  LocksOK'
<1>0. TypeOK /\ LocksOK /\ \A v \in Workers : WellFormed(workers[v])
  BY DEF MInv
<1>1. ASSUME NEW v \in Workers, workers'[v].pc \in SrcLocked
      PROVE  flock'[workers'[v].src] = <<v, "src">>
  <2>1. CASE workers[v].pc \in SrcLocked /\ workers'[v].src = workers[v].src
    <3>1. workers[v].src \in Inodes /\ flock[workers[v].src] = <<v, "src">>
      BY <1>0, <2>1 DEF LocksOK, WellFormed, SrcLocked, SrcOpen
    <3> QED  BY <1>1, <2>1, <3>1, LockSteps
  <2>2. CASE LockSource(v) /\ workers'[v].src = workers[v].src
    <3>1. workers[v].src \in Inodes
      BY <1>0, <2>2 DEF LockSource, At, WellFormed, SrcOpen
    <3> QED  BY <1>0, <2>2, <3>1 DEF LockSource, TypeOK
  <2> QED  BY <1>1, <2>1, <2>2, DescriptorSteps
<1>2. ASSUME NEW v \in Workers, workers'[v].pc \in TgtLocked
      PROVE  flock'[workers'[v].tgt] = <<v, "tgt">>
  <2>1. CASE workers[v].pc \in TgtLocked /\ workers'[v].tgt = workers[v].tgt
    <3>1. workers[v].tgt \in Inodes /\ flock[workers[v].tgt] = <<v, "tgt">>
      BY <1>0, <2>1 DEF LocksOK, WellFormed, TgtLocked, TgtOpen
    <3> QED  BY <1>2, <2>1, <3>1, LockSteps
  <2>2. CASE LockTarget(v) /\ workers'[v].tgt = workers[v].tgt
    <3>1. workers[v].tgt \in Inodes
      BY <1>0, <2>2 DEF LockTarget, At, WellFormed, TgtOpen
    <3> QED  BY <1>0, <2>2, <3>1 DEF LockTarget, TypeOK
  <2> QED  BY <1>2, <2>1, <2>2, DescriptorSteps
<1> QED  BY <1>1, <1>2 DEF LocksOK

-----------------------------------------------------------------------------
(***************************************************************************)
(* The invariant, and the theorems.                                        *)
(***************************************************************************)

LEMMA InitialMirror == Init => MInv
<1> SUFFICES ASSUME Init PROVE MInv
  OBVIOUS
<1>1. \A w \in Workers : workers[w] = Idle
  BY DEF Init
<1>2. /\ entry = [d \in Dirs |-> [f \in Files |-> IF <<d, f>> \in Existing THEN <<d, f>> ELSE NULL]]
      /\ \A d \in Dirs, f \in Files : <<d, f>> \in Inodes /\ <<d, f>> # NULL
  BY Constants DEF Init, Inodes
<1>3. queue \in Seq(Task) /\ \A t \in Range(queue) : t.type = "FULL"
  <2>1. /\ Config \in Seq(Pairs)
        /\ queue = [k \in DOMAIN Config |-> [type |-> "FULL", pair |-> Config[k], file |-> NULL]]
    <3>1. Config \in Seq(Range(Config))
      BY MirrorAssumption, LenProperties DEF Range
    <3> QED  BY <3>1 DEF Init, Pairs
  <2>2. \A k \in DOMAIN Config :
          [type |-> "FULL", pair |-> Config[k], file |-> NULL] \in Task
    BY <2>1, LenProperties DEF Task
  <2>3. DOMAIN Config = 1 .. Len(Config) /\ Len(Config) \in Nat
    BY <2>1, LenProperties
  <2>4. queue \in Seq(Task)
    BY <2>1, <2>2, <2>3
  <2> QED  BY <2>1, <2>4 DEF Range
<1>4. data \in [Inodes -> Content]
  <2>1. << >> \in Content /\ Append(<< >>, 0) \in Content /\ [k \in 1 .. MaxChunks |-> Hole] \in Content
    <3>1. 0 \in Chunk /\ Hole \in Chunk /\ MaxChunks \in 0 .. MaxChunks
      BY Constants DEF Chunk
    <3>2. << >> \in Content /\ Len(<< >>) = 0
      BY ContentWritten
    <3>3. Append(<< >>, 0) \in Content
      BY <3>1, <3>2, ContentWritten, Constants
    <3>4. [k \in 1 .. MaxChunks |-> Hole] \in [1 .. MaxChunks -> Chunk]
      BY <3>1
    <3> QED  BY <3>1, <3>2, <3>3, <3>4 DEF Content
  <2>2. Append(<< >>, 0) = <<0>>
    OBVIOUS
  <2> QED  BY <2>1, <2>2 DEF Init
<1>5. TypeOK
  <2>1. workers \in [Workers -> Worker]
    BY <1>1, IdleWell DEF Init, WellFormed
  <2>2. entry \in [Dirs -> [Files -> Inodes \cup {NULL}]]
    BY <1>2
  <2>3. /\ flock \in [Inodes -> Descriptors \cup {NULL}]
        /\ saving \in [Roots -> [Files -> 0 .. MaxSaves]]
        /\ spent \in [save : 0 .. MaxSaves, delete : 0 .. MaxDeletes,
                      sync : 0 .. MaxSyncs, fault : 0 .. MaxFaults]
        /\ failed = {} /\ deleted = {}
    BY MirrorAssumption DEF Init
  <2> QED  BY <1>3, <1>4, <2>1, <2>2, <2>3 DEF TypeOK, Content
<1>6. OneName
  BY <1>2 DEF OneName
<1>7. TasksOK /\ TargetNamed /\ SourceNamed /\ LocksOK
  BY <1>1, <1>3 DEF TasksOK, TargetNamed, SourceNamed, LocksOK, At, Idle,
                    SrcOpen, TgtOpen, SrcLocked, TgtLocked
<1>8. SavingOK
  BY DEF Init, SavingOK
<1> QED  BY <1>1, <1>5, <1>6, <1>7, <1>8, IdleWell DEF MInv

(* What is known of the files, their names, locks and descriptors between  *)
(* any two system calls.                                                   *)
THEOREM MirrorInvariant == Spec => []MInv
<1>1. Init => MInv
  BY InitialMirror
<1>2. MInv /\ [Next]_vars => MInv'
  <2> SUFFICES ASSUME MInv, [Next]_vars PROVE MInv'
    OBVIOUS
  <2> QED  BY TypeStep, TasksStep, SavingStep, NamesStep, LocksStep DEF MInv
<1> QED  BY <1>1, <1>2, PTL DEF Spec

(* Names, contents, locks, tasks and workers keep to their types: nothing  *)
(* is written behind the end a file may have, the file of every open       *)
(* descriptor is an inode, and a report names a file of a pair.            *)
THEOREM TypeCorrect == Spec => []TypeOK
<1>1. MInv => TypeOK
  BY DEF MInv
<1> QED  BY <1>1, MirrorInvariant, PTL

(* A target that is about to be truncated while it is written is that of   *)
(* both workers' pairs.                                                    *)
LEMMA TruncatedTogether ==
  ASSUME MInv, NEW v \in Workers, NEW w \in Workers, Truncates(w, v)
  PROVE  /\ workers[v].task.pair \in Pairs /\ workers[w].task.pair \in Pairs
         /\ Target(w) = Target(v) /\ workers[w].file = workers[v].file
<1>1. /\ WellFormed(workers[v]) /\ WellFormed(workers[w]) /\ TypeOK /\ TargetNamed
  BY DEF MInv
<1>2. /\ workers[w].pc = "open_tgt" /\ workers[v].pc \in {"read", "write"}
      /\ workers[v].tgt = entry[Target(w)][workers[w].file]
  BY DEF Truncates, At
<1>3. /\ workers[w].file \in Files /\ Target(w) \in Dirs
      /\ workers[v].task.pair \in Pairs /\ workers[w].task.pair \in Pairs
  BY <1>1, <1>2, OnFileFacts DEF OnFile, SrcOpen
<1>4. Target(w) = Target(v) /\ workers[w].file = workers[v].file
  BY <1>1, <1>2, <1>3 DEF TargetNamed, TgtOpen
<1> QED  BY <1>3, <1>4

(* Unless the file has been deleted, no worker truncates a target that     *)
(* another one is writing, although the target is truncated by its open,   *)
(* before its lock is asked for: two workers of one pair would both hold   *)
(* the lock of the source.  Two pairs that share a target, which the       *)
(* manager accepts, are all that is left.                                  *)
THEOREM NoCopyIsTruncated == Spec => []TruncatesNoCopy
<1>1. MInv => TruncatesNoCopy
  <2> SUFFICES ASSUME MInv, NEW v \in Workers, NEW w \in Workers, Truncates(w, v)
               PROVE  \E p, q \in Pairs : /\ p # q /\ p.target = q.target
                                          /\ Source(v) = p.source /\ Source(w) = q.source
    BY DEF TruncatesNoCopy
  <2> DEFINE f == workers[w].file
             p == workers[v].task.pair
             q == workers[w].task.pair
  <2>1. p \in Pairs /\ q \in Pairs /\ p.target = q.target /\ f = workers[v].file
    BY TruncatedTogether DEF Target
  <2>2. p # q
    <3> SUFFICES ASSUME Source(v) = Source(w) PROVE FALSE
      BY DEF Source
    <3>1. SourceNamed /\ LocksOK
      BY DEF MInv
    <3>2. /\ workers[w].pc = "open_tgt" /\ workers[v].pc \in {"read", "write"}
          /\ v # w /\ f \notin deleted
      BY DEF Truncates, At
    <3>3. workers[v].src = entry[Source(v)][f] /\ workers[w].src = entry[Source(w)][f]
      BY <2>1, <3>1, <3>2 DEF SourceNamed, SrcOpen
    <3>4. /\ flock[workers[v].src] = <<v, "src">>
          /\ flock[workers[w].src] = <<w, "src">>
      BY <3>1, <3>2 DEF LocksOK, SrcLocked
    <3>5. <<v, "src">> = <<w, "src">>
      BY <3>3, <3>4
    <3> QED  BY <3>2, <3>5
  <2> QED  BY <2>1, <2>2 DEF Source
<1> QED  BY <1>1, MirrorInvariant, PTL

-----------------------------------------------------------------------------
(***************************************************************************)
(* Nobody waits in a circle.  A worker that waits with a lock in its hands *)
(* holds the lock of its source and waits for that of its target.  The     *)
(* worker it waits for has the same inode as its own source, so it copies  *)
(* out of the directory that the first copies to: one pair further on.     *)
(* With deletions the inode may have no name any more that says so.        *)
(***************************************************************************)

(* A source has the name under which it was opened, or none.               *)
SourceHasOneName ==
  \A w \in Workers, d \in Dirs, f \in Files :
    workers[w].pc \in SrcOpen /\ workers[w].src = entry[d][f]
      => d = Source(w) /\ f = workers[w].file

(* A source and a target that are the same file are in the same directory. *)
Linked ==
  \A v, w \in Workers :
    workers[v].pc \in SrcOpen /\ workers[w].pc \in TgtOpen /\ workers[v].src = workers[w].tgt
      => Source(v) = Target(w)

(* A lock has a holder that knows of it: none is left behind.              *)
HoldsSource(v, i) == workers[v].pc \in SrcLocked /\ workers[v].src = i
HoldsTarget(v, i) == workers[v].pc \in TgtLocked /\ workers[v].tgt = i

Holders ==
  \A i \in Inodes, v \in Workers :
    /\ flock[i] = <<v, "src">> => HoldsSource(v, i)
    /\ flock[i] = <<v, "tgt">> => HoldsTarget(v, i)

LockInv == MInv /\ SourceHasOneName /\ Linked /\ Holders

(* The pairs lead from directory to directory and never back.              *)
NoCircles == \E rank \in [Dirs -> Nat] : \A p \in Pairs : rank[p.target] < rank[p.source]

LEMMA SourceHasOneNameStep ==
  ASSUME MInv, MInv', SourceHasOneName, [Next]_vars
  PROVE  SourceHasOneName'
<1> SUFFICES ASSUME NEW w \in Workers, NEW d \in Dirs, NEW f \in Files,
                    workers'[w].pc \in SrcOpen, workers'[w].src = entry'[d][f]
             PROVE  d = workers'[w].task.pair.source /\ f = workers'[w].file
  BY DEF SourceHasOneName, Source
<1>0. /\ TypeOK /\ OneName /\ WellFormed(workers[w]) /\ NULL \notin Inodes
      /\ workers'[w].task = workers[w].task /\ workers'[w].file = workers[w].file
  BY Constants, DescriptorSteps DEF MInv
<1>1. entry'[d][f] \in Inodes
  BY DEF MInv, WellFormed
<1>2. CASE workers[w].pc \in SrcOpen /\ workers'[w].src = workers[w].src
  <2>1. ~ Unused(entry'[d][f])
    BY <1>2 DEF Unused
  <2>2. workers[w].src = entry[d][f]
    BY <1>0, <1>1, <1>2, <2>1, NameChanges
  <2> QED  BY <1>0, <1>2, <2>2 DEF SourceHasOneName, Source
<1>3. CASE OpenSource(w)
  <2>1. workers'[w].src = entry[Source(w)][workers[w].file] /\ UNCHANGED entry
    BY <1>0, <1>3 DEF OpenSource, TypeOK, Worker, diskVars
  <2>2. Source(w) \in Dirs /\ workers[w].file \in Files
    BY <1>0, <1>3, OnFileFacts DEF OpenSource, At, OnFile
  <2>3. entry[d][f] # NULL /\ entry[d][f] = entry[Source(w)][workers[w].file]
    BY <1>0, <1>1, <2>1
  <2> QED  BY <1>0, <2>2, <2>3 DEF OneName, Source
<1> QED  BY <1>2, <1>3, DescriptorSteps

(* Where one of the two has just been opened, the name tells.              *)
LEMMA LinkedStep ==
  ASSUME MInv, MInv', SourceHasOneName', Linked, [Next]_vars
  PROVE  Linked'
<1> SUFFICES ASSUME NEW v \in Workers, NEW w \in Workers,
                    workers'[v].pc \in SrcOpen, workers'[w].pc \in TgtOpen,
                    workers'[v].src = workers'[w].tgt
             PROVE  workers'[v].task.pair.source = workers'[w].task.pair.target
  BY DEF Linked, Source, Target
<1>0. /\ TypeOK /\ WellFormed(workers[v]) /\ WellFormed(workers[w]) /\ TargetNamed'
      /\ workers'[v].task = workers[v].task /\ workers'[v].file = workers[v].file
      /\ workers'[w].task = workers[w].task /\ workers'[w].file = workers[w].file
  BY DescriptorSteps DEF MInv
<1>1. CASE OpenSource(v)
  <2>1. workers'[v].src = entry[Source(v)][workers[v].file] /\ UNCHANGED entry
    BY <1>0, <1>1 DEF OpenSource, TypeOK, Worker, diskVars
  <2>2. Source(v) \in Dirs /\ workers[v].file \in Files
    BY <1>0, <1>1, OnFileFacts DEF OpenSource, At, OnFile
  <2>3. workers'[w].tgt = entry'[Source(v)][workers[v].file]
    BY <2>1
  <2>4. Source(v) = workers'[w].task.pair.target
    BY <1>0, <2>2, <2>3 DEF TargetNamed, Target
  <2> QED  BY <1>0, <2>4 DEF Source
<1>2. CASE OpenTarget(w) /\ workers'[w].tgt = entry'[Target(w)][workers[w].file]
  <2>1. Target(w) \in Dirs /\ workers[w].file \in Files
    BY <1>0, <1>2, OnFileFacts DEF OpenTarget, At, OnFile, SrcOpen
  <2>2. workers'[v].src = entry'[Target(w)][workers[w].file]
    BY <1>2
  <2>3. Target(w) = workers'[v].task.pair.source
    BY <2>1, <2>2 DEF SourceHasOneName, Source
  <2> QED  BY <1>0, <2>3 DEF Target
<1>3. CASE /\ workers[v].pc \in SrcOpen /\ workers'[v].src = workers[v].src
           /\ workers[w].pc \in TgtOpen /\ workers'[w].tgt = workers[w].tgt
  BY <1>0, <1>3 DEF Linked, Source, Target
<1> QED  BY <1>1, <1>2, <1>3, DescriptorSteps

(* A lock changes hands by being given back or by being taken.             *)
LEMMA LockTaken ==
  ASSUME MInv, [Next]_vars, NEW i \in Inodes, flock'[i] # flock[i], flock'[i] # NULL
  PROVE  \E w \in Workers :
           \/ LockSource(w) /\ i = workers[w].src /\ flock'[i] = <<w, "src">>
           \/ LockTarget(w) /\ i = workers[w].tgt /\ flock'[i] = <<w, "tgt">>
<1>0. flock \in [Inodes -> Descriptors \cup {NULL}]
  BY DEF MInv, TypeOK
<1>1. ASSUME NEW w \in Workers, WorkerMove(w)
      PROVE  \/ LockSource(w) /\ i = workers[w].src /\ flock'[i] = <<w, "src">>
             \/ LockTarget(w) /\ i = workers[w].tgt /\ flock'[i] = <<w, "tgt">>
  <2>1. CASE LockSource(w)
    <3>1. flock' = [flock EXCEPT ![workers[w].src] = <<w, "src">>]
      BY <2>1 DEF LockSource
    <3> QED  BY <1>0, <2>1, <3>1
  <2>2. CASE LockTarget(w)
    <3>1. flock' = [flock EXCEPT ![workers[w].tgt] = <<w, "tgt">>]
      BY <2>2 DEF LockTarget
    <3> QED  BY <1>0, <2>2, <3>1
  <2>3. CASE UnlockSource(w) \/ UnlockTarget(w) \/ TargetFails(w) \/ Dies(w)
    <3>1. CASE Dies(w)
      BY <1>0, <3>1 DEF Dies
    <3>2. CASE UnlockSource(w) \/ UnlockTarget(w) \/ TargetFails(w)
      BY <1>0, <3>2 DEF UnlockSource, UnlockTarget, TargetFails
    <3> QED  BY <2>3, <3>1, <3>2
  <2>4. \/ UNCHANGED flock \/ LockSource(w) \/ LockTarget(w) \/ UnlockSource(w)
        \/ UnlockTarget(w) \/ TargetFails(w) \/ Dies(w)
    BY <1>1, LockCalls
  <2> QED  BY <2>1, <2>2, <2>3, <2>4
<1>2. UNCHANGED flock \/ \E w \in Workers : WorkerMove(w)
  <2>1. CASE UNCHANGED vars
    BY <2>1 DEF vars, diskVars
  <2>2. ASSUME NEW d \in Roots, NEW f \in Files,
               UserOpens(d, f) \/ UserWrites(d, f) \/ UserCloses(d, f) \/ UserDeletes(d, f)
        PROVE  UNCHANGED flock
    BY <2>2 DEF UserOpens, UserWrites, UserCloses, UserDeletes, Truncate, Create, diskVars
  <2>3. ASSUME NEW p \in Pairs, Sync(p) PROVE UNCHANGED flock
    BY <2>3 DEF Sync, diskVars
  <2> QED  BY <2>1, <2>2, <2>3, Movers
<1> QED  BY <1>1, <1>2

(* As long as a worker has a lock, it goes on between the lock and the     *)
(* unlock of copy_file.                                                    *)
LEMMA LockKept ==
  ASSUME MInv, [Next]_vars, NEW v \in Workers, NEW i \in Inodes
  PROVE  /\ flock'[i] = <<v, "src">> /\ HoldsSource(v, i) => HoldsSource(v, i)'
         /\ flock'[i] = <<v, "tgt">> /\ HoldsTarget(v, i) => HoldsTarget(v, i)'
<1>0. /\ flock \in [Inodes -> Descriptors \cup {NULL}] /\ workers \in [Workers -> Worker]
      /\ workers[v] \in Worker /\ TypeOK
      /\ <<v, "src">> # NULL /\ <<v, "tgt">> # NULL
  <2>1. <<v, "src">> \in Descriptors /\ <<v, "tgt">> \in Descriptors
    BY DEF Descriptors
  <2> QED  BY <2>1, Constants DEF MInv, TypeOK
<1>1. CASE workers'[v] = workers[v]
  BY <1>1 DEF HoldsSource, HoldsTarget
<1>2. ASSUME OpenTarget(v) \/ LockTarget(v) \/ Read(v) \/ Write(v) \/ CopyFails(v)
      PROVE  /\ HoldsSource(v, i) => HoldsSource(v, i)'
             /\ HoldsTarget(v, i) => HoldsTarget(v, i)'
  <2>1. CASE OpenTarget(v)
    BY <1>0, <2>1 DEF OpenTarget, At, Worker, HoldsSource, HoldsTarget, SrcLocked, TgtLocked
  <2>2. CASE LockTarget(v)
    BY <1>0, <2>2 DEF LockTarget, At, Worker, HoldsSource, HoldsTarget, SrcLocked, TgtLocked
  <2>3. CASE Read(v)
    BY <1>0, <2>3 DEF Read, At, Worker, HoldsSource, HoldsTarget, SrcLocked, TgtLocked
  <2>4. CASE Write(v) \/ CopyFails(v)
    BY <1>0, <2>4 DEF Write, CopyFails, At, Worker, HoldsSource, HoldsTarget, SrcLocked, TgtLocked
  <2> QED  BY <1>2, <2>1, <2>2, <2>3, <2>4
<1>3. CASE UnlockSource(v)
  <2>1. flock' = [flock EXCEPT ![workers[v].src] = NULL] /\ workers[v].pc = "unlock_src"
    BY <1>3 DEF UnlockSource, At
  <2>2. HoldsSource(v, i) => flock'[i] = NULL
    BY <1>0, <2>1 DEF HoldsSource
  <2>3. HoldsTarget(v, i) => HoldsTarget(v, i)'
    BY <1>0, <1>3 DEF UnlockSource, Worker, HoldsTarget, TgtLocked
  <2> QED  BY <1>0, <2>2, <2>3
<1>4. CASE UnlockTarget(v)
  <2>1. flock' = [flock EXCEPT ![workers[v].tgt] = NULL] /\ workers[v].pc = "unlock_tgt"
    BY <1>4 DEF UnlockTarget, At
  <2>2. HoldsTarget(v, i) => flock'[i] = NULL
    BY <1>0, <2>1 DEF HoldsTarget
  <2>3. ~HoldsSource(v, i)
    BY <2>1 DEF HoldsSource, SrcLocked
  <2> QED  BY <1>0, <2>2, <2>3
<1>5. CASE TargetFails(v)
  <2>1. /\ flock' = [flock EXCEPT ![workers[v].src] = NULL]
        /\ workers[v].pc \in {"open_tgt", "lock_tgt"}
    BY <1>5 DEF TargetFails
  <2>2. HoldsSource(v, i) => flock'[i] = NULL
    BY <1>0, <2>1 DEF HoldsSource
  <2>3. ~HoldsTarget(v, i)
    BY <2>1 DEF HoldsTarget, TgtLocked
  <2> QED  BY <1>0, <2>2, <2>3
<1>6. CASE Dies(v)
  <2>1. flock'[i] # <<v, "src">> /\ flock'[i] # <<v, "tgt">>
    <3>1. flock'[i] = IF flock[i] \in {v} \X {"src", "tgt"} THEN NULL ELSE flock[i]
      BY <1>6 DEF Dies
    <3> QED  BY <1>0, <3>1
  <2> QED  BY <2>1
<1>7. CASE /\ WorkerMove(v) /\ ~OpenTarget(v) /\ ~LockTarget(v) /\ ~Read(v) /\ ~Write(v)
           /\ ~CopyFails(v) /\ ~UnlockSource(v) /\ ~UnlockTarget(v) /\ ~TargetFails(v) /\ ~Dies(v)
  <2>1. workers[v].pc \in {"idle", "opendir", "readdir", "open_src", "lock_src", "unlink"}
    <3>1. CASE Start(v)
      BY <3>1 DEF Start, Idle
    <3>2. CASE Opendir(v) \/ OpendirFails(v) \/ Readdir(v) \/ EndOfDirectory(v)
      BY <3>2 DEF Opendir, OpendirFails, Readdir, EndOfDirectory, At
    <3>3. CASE OpenSource(v) \/ SourceIsGone(v) \/ LockSource(v) \/ SourceFails(v)
      BY <3>3 DEF OpenSource, SourceIsGone, LockSource, SourceFails, At
    <3>4. CASE Unlink(v) \/ TargetIsGone(v) \/ UnlinkFails(v)
      BY <3>4 DEF Unlink, TargetIsGone, UnlinkFails, At
    <3> QED  BY <1>7, <3>1, <3>2, <3>3, <3>4 DEF WorkerMove, WorkerStep, FaultStep
  <2> QED  BY <2>1 DEF HoldsSource, HoldsTarget, SrcLocked, TgtLocked
<1> QED  BY <1>1, <1>2, <1>3, <1>4, <1>5, <1>6, <1>7, Bystanders

LEMMA HoldersStep ==
  ASSUME MInv, Holders, [Next]_vars
  PROVE  Holders'
<1> SUFFICES ASSUME NEW i \in Inodes, NEW v \in Workers
             PROVE  /\ flock'[i] = <<v, "src">> => HoldsSource(v, i)'
                    /\ flock'[i] = <<v, "tgt">> => HoldsTarget(v, i)'
  BY Zenon DEF Holders
<1>0. /\ workers \in [Workers -> Worker] /\ workers[v] \in Worker
      /\ <<v, "src">> # NULL /\ <<v, "tgt">> # NULL
  <2>1. <<v, "src">> \in Descriptors /\ <<v, "tgt">> \in Descriptors
    BY DEF Descriptors
  <2> QED  BY <2>1, Constants DEF MInv, TypeOK
<1>1. CASE flock'[i] = flock[i]
  BY <1>1, LockKept DEF Holders
<1>2. ASSUME flock'[i] # flock[i], flock'[i] = <<v, "src">>
      PROVE  HoldsSource(v, i)'
  <2>1. PICK w \in Workers :
          \/ LockSource(w) /\ i = workers[w].src /\ flock'[i] = <<w, "src">>
          \/ LockTarget(w) /\ i = workers[w].tgt /\ flock'[i] = <<w, "tgt">>
    BY <1>0, <1>2, LockTaken, Zenon
  <2>2. LockSource(v) /\ i = workers[v].src
    BY <1>2, <2>1
  <2> QED  BY <1>0, <2>2 DEF LockSource, Worker, HoldsSource, SrcLocked
<1>3. ASSUME flock'[i] # flock[i], flock'[i] = <<v, "tgt">>
      PROVE  HoldsTarget(v, i)'
  <2>1. PICK w \in Workers :
          \/ LockSource(w) /\ i = workers[w].src /\ flock'[i] = <<w, "src">>
          \/ LockTarget(w) /\ i = workers[w].tgt /\ flock'[i] = <<w, "tgt">>
    BY <1>0, <1>3, LockTaken, Zenon
  <2>2. LockTarget(v) /\ i = workers[v].tgt
    BY <1>3, <2>1
  <2> QED  BY <1>0, <2>2 DEF LockTarget, Worker, HoldsTarget, TgtLocked
<1> QED  BY <1>1, <1>2, <1>3

(* Who has which lock, in both directions, and how the files that two      *)
(* workers have open are related.                                          *)
THEOREM LockInvariant == Spec => []LockInv
<1>1. Init => LockInv
  <2> SUFFICES ASSUME Init PROVE LockInv
    OBVIOUS
  <2>1. \A w \in Workers : workers[w].pc = "idle"
    BY DEF Init, Idle
  <2>2. SourceHasOneName /\ Linked
    BY <2>1 DEF SourceHasOneName, Linked, SrcOpen
  <2>3. Holders
    <3>1. \A v \in Workers : <<v, "src">> # NULL /\ <<v, "tgt">> # NULL
      <4>1. \A v \in Workers : <<v, "src">> \in Descriptors /\ <<v, "tgt">> \in Descriptors
        BY DEF Descriptors
      <4> QED  BY <4>1, Constants
    <3>2. \A i \in Inodes : flock[i] = NULL
      BY DEF Init
    <3> QED  BY <3>1, <3>2 DEF Holders
  <2> QED  BY <2>2, <2>3, InitialMirror DEF LockInv
<1>2. LockInv /\ MInv' /\ [Next]_vars => LockInv'
  <2> SUFFICES ASSUME LockInv, MInv', [Next]_vars PROVE LockInv'
    OBVIOUS
  <2>1. SourceHasOneName'
    BY SourceHasOneNameStep DEF LockInv
  <2>2. Linked' /\ Holders'
    BY <2>1, LinkedStep, HoldersStep DEF LockInv
  <2> QED  BY <2>1, <2>2 DEF LockInv
<1> QED  BY <1>1, <1>2, MirrorInvariant, PTL DEF Spec

(* The locks do not tie the workers up, for pairs that lead nowhere back   *)
(* and any number of workers: nobody waits for a lock that was left        *)
(* behind, and of any workers one waits for none of the others.            *)
THEOREM NoWorkersTiedUp == NoCircles /\ Spec => []NoDeadlock
<1> SUFFICES ASSUME NoCircles PROVE Spec => []NoDeadlock
  OBVIOUS
<1>1. ASSUME LockInv, NEW w \in Workers, NEW v \in Workers, Awaits(w, v)
      PROVE  /\ workers[w].pc \in {"lock_src", "lock_tgt"} /\ workers[v].pc # "idle"
             /\ workers[v].pc \notin {"lock_src"}
             /\ At(v, "lock_tgt") /\ At(w, "lock_tgt") => workers[v].src = workers[w].tgt
  <2>1. WellFormed(workers[w]) /\ workers[w].pc \in {"lock_src", "lock_tgt"}
    BY <1>1 DEF LockInv, MInv, Awaits, At
  <2>2. PICK i \in Inodes : /\ flock[i] \in {<<v, "src">>, <<v, "tgt">>}
                            /\ At(w, "lock_tgt") => i = workers[w].tgt
    <3>1. At(w, "lock_src") => workers[w].src \in Inodes
      BY <2>1 DEF At, WellFormed, SrcOpen
    <3>2. At(w, "lock_tgt") => workers[w].tgt \in Inodes
      BY <2>1 DEF At, WellFormed, TgtOpen
    <3>3. At(w, "lock_src") => ~At(w, "lock_tgt")
      BY DEF At
    <3> QED  BY <1>1, <3>1, <3>2, <3>3 DEF Awaits
  <2>3. HoldsSource(v, i) \/ HoldsTarget(v, i)
    BY <1>1, <2>2 DEF LockInv, Holders
  <2> QED  BY <2>1, <2>2, <2>3 DEF HoldsSource, HoldsTarget, SrcLocked, TgtLocked, At
<1>2. LockInv => \A v, w \in Workers : Awaits(w, v) => workers[v] # Idle
  BY <1>1 DEF Idle
<1>3. ASSUME LockInv, NEW S \in SUBSET Workers, S # {},
             \A w \in S : \E v \in S : Awaits(w, v)
      PROVE  FALSE
  <2> DEFINE L == {w \in S : At(w, "lock_tgt")}
  <2>1. \A w \in S : \E v \in L : Awaits(w, v)
    BY <1>1, <1>3 DEF At
  <2>2. PICK rank \in [Dirs -> Nat] : \A p \in Pairs : rank[p.target] < rank[p.source]
    BY DEF NoCircles
  <2>3. ASSUME NEW w \in L
        PROVE  /\ Source(w) \in Dirs /\ Target(w) \in Dirs
               /\ rank[Target(w)] < rank[Source(w)]
    <3>1. TypeOK /\ WellFormed(workers[w]) /\ workers[w].pc # "idle"
      BY <1>3 DEF LockInv, MInv, At
    <3> QED  BY <2>2, <3>1, OnFileFacts, Constants
  <2>4. \A w \in L : \E v \in L : rank[Target(v)] < rank[Target(w)]
    <3> SUFFICES ASSUME NEW w \in L PROVE \E v \in L : rank[Target(v)] < rank[Target(w)]
      OBVIOUS
    <3>1. PICK v \in L : Awaits(w, v)
      BY <2>1
    <3>2. workers[v].src = workers[w].tgt
      BY <1>1, <1>3, <3>1
    <3>3. Source(v) = Target(w)
      BY <1>3, <3>2 DEF LockInv, Linked, At, SrcOpen, TgtOpen
    <3> QED  BY <2>3, <3>3
  <2> DEFINE R == {rank[Target(w)] : w \in L}
  <2>5. R \in SUBSET Nat
    BY <2>2, <2>3
  <2>6. R # {}
    BY <1>3, <2>1
  <2>7. PICK k \in R : \A j \in R : k <= j
    <3> HIDE DEF R
    <3> QED  BY <2>5, <2>6, FirstPositionExists
  <2>8. PICK w \in L : k = rank[Target(w)]
    BY <2>7
  <2>9. PICK v \in L : rank[Target(v)] < rank[Target(w)]
    BY <2>4
  <2>10. rank[Target(w)] <= rank[Target(v)] /\ rank[Target(v)] \in Nat /\ rank[Target(w)] \in Nat
    BY <2>2, <2>3, <2>7, <2>8
  <2> QED  BY <2>9, <2>10
<1>4. LockInv => NoDeadlock
  BY <1>2, <1>3, Zenon DEF NoDeadlock
<1> QED  BY <1>4, LockInvariant, PTL

=============================================================================
