------------------------- MODULE MirrorConvergence -------------------------
(***************************************************************************)
(* Proof that the mirror converges: NothingSilentlyStale.                  *)
(*                                                                         *)
(* A file that is not in the target as it is in the source has something   *)
(* on its way: it is still being written and its close will be an event,   *)
(* there is a task for it, a worker will come to it, or a worker is        *)
(* copying it and the target holds what was read so far.  The last case is *)
(* the subtle one: it says nothing while the source may still change, and  *)
(* there is one such worker only, because it holds the lock of the source. *)
(***************************************************************************)
EXTENDS MirrorProofs

(* Somebody has the file open for writing: a user or another pair's copy.  *)
BeingWritten(d, f) ==
  \/ d \in Roots /\ saving[d][f] # 0
  \/ \E w \in Workers : workers[w].pc \in TgtOpen /\ Target(w) = d /\ workers[w].file = f

(* A task that will have the file copied.                                  *)
Asks(t, p, f) ==
  t.pair = p /\ (t.type = "FULL" \/ (t.type \in {"ADDED", "MODIFIED"} /\ t.file = f))

(* A worker that has still to open the target of the file.                 *)
WillCopy(w, p, f) ==
  /\ workers[w].pc # "idle" /\ workers[w].task.pair = p
  /\ \/ At(w, "opendir")
     \/ f \in workers[w].todo
     \/ workers[w].pc \in {"open_src", "lock_src", "open_tgt"} /\ workers[w].file = f

Pending(p, f) ==
  \/ BeingWritten(p.source, f)
  \/ \E t \in Range(queue) : Asks(t, p, f)
  \/ \E w \in Workers : WillCopy(w, p, f)

(* A worker in the middle of copying the file.                             *)
Copies(w, p, f) ==
  /\ workers[w].pc \in {"lock_tgt", "read", "write"}
  /\ workers[w].task.pair = p /\ workers[w].file = f

(* What it has written is the beginning of the source, and what it has     *)
(* read is what comes next.                                                *)
OnPrefix(w, from, to) ==
  /\ Len(to) = workers[w].offset /\ Len(to) <= Len(from)
  /\ \A k \in 1 .. Len(to) : to[k] = from[k]
  /\ At(w, "write") => Len(to) < Len(from) /\ workers[w].buffer = from[Len(to) + 1]

(* The file is on its way to the target, or there.                         *)
Arriving(p, f) ==
  LET from == data[entry[p.source][f]]
      to == data[entry[p.target][f]]
  IN  /\ entry[p.target][f] # NULL
      /\ \A w \in Workers : Copies(w, p, f) => OnPrefix(w, from, to)
      /\ (\A w \in Workers : ~Copies(w, p, f)) => from = to

(* The files that NothingSilentlyStale is about and that there is one of.  *)
Followed(p, f) ==
  OwnTarget(p) /\ f \notin deleted /\ <<p, f>> \notin failed /\ entry[p.source][f] # NULL

Converging ==
  \A p \in Pairs, f \in Files : Followed(p, f) /\ ~Pending(p, f) => Arriving(p, f)

(* A copy begins at offset 0, and only a full synchronisation has names    *)
(* left.                                                                   *)
Rested(r) ==
  /\ r.pc \notin {"read", "write", "unlock_src", "unlock_tgt"} => r.offset = 0
  /\ r.todo # {} => r.pc \notin {"idle", "unlink"} /\ r.task.type = "FULL"

(* The target of a file that nobody deleted keeps its name.                *)
TargetStays ==
  \A w \in Workers :
    workers[w].pc \in TgtOpen /\ workers[w].file \notin deleted
      => workers[w].tgt = entry[Target(w)][workers[w].file]

KInv ==
  /\ MInv
  /\ \A w \in Workers : Rested(workers[w])
  /\ TargetStays
  /\ Converging

-----------------------------------------------------------------------------
(***************************************************************************)
(* What each call leaves of its worker.                                    *)
(***************************************************************************)

LEMMA NextCalls ==
  ASSUME workers \in [Workers -> Worker], NEW w \in Workers
  PROVE  /\ Opendir(w) => workers'[w] =
              [workers[w] EXCEPT !.pc = "readdir", !.todo = Present(Source(w))]
         /\ Readdir(w) => \E f \in workers[w].todo : workers'[w] =
              [workers[w] EXCEPT !.pc = "open_src", !.file = f, !.todo = workers[w].todo \ {f}]
         /\ OpenSource(w) => workers'[w] =
              [workers[w] EXCEPT !.pc = "lock_src", !.src = entry[Source(w)][workers[w].file]]
         /\ LockSource(w) => workers'[w] = [workers[w] EXCEPT !.pc = "open_tgt"]
         /\ OpenTarget(w) => workers'[w] =
              [workers[w] EXCEPT !.pc = "lock_tgt", !.tgt = entry'[Target(w)][workers[w].file]]
         /\ LockTarget(w) => workers'[w] = [workers[w] EXCEPT !.pc = "read"]
         /\ Write(w) => workers'[w] =
              [workers[w] EXCEPT !.pc = "read", !.offset = workers[w].offset + 1, !.buffer = Hole]
         /\ UnlockSource(w) => workers'[w] = [workers[w] EXCEPT !.pc = "unlock_tgt"]
         /\ CopyFails(w) => workers'[w] =
              [workers[w] EXCEPT !.pc = "unlock_src", !.buffer = Hole]
         /\ UnlockTarget(w) \/ SourceIsGone(w) \/ SourceFails(w) \/ TargetFails(w) =>
              workers'[w] = Returned(w)
         /\ EndOfDirectory(w) \/ Unlink(w) \/ TargetIsGone(w) \/ OpendirFails(w)
            \/ UnlinkFails(w) \/ Dies(w) => workers'[w] = Idle
         /\ Start(w) => workers'[w] =
              [Idle EXCEPT !.pc = FirstCall(Head(queue).type),
                           !.task = Head(queue), !.file = Head(queue).file]
<1>1. Opendir(w) => workers'[w] = [workers[w] EXCEPT !.pc = "readdir", !.todo = Present(Source(w))]
  BY DEF Opendir
<1>2. Readdir(w) => \E f \in workers[w].todo : workers'[w] =
              [workers[w] EXCEPT !.pc = "open_src", !.file = f, !.todo = workers[w].todo \ {f}]
  BY DEF Readdir
<1>3. OpenSource(w) => workers'[w] =
              [workers[w] EXCEPT !.pc = "lock_src", !.src = entry[Source(w)][workers[w].file]]
  BY DEF OpenSource
<1>4. /\ LockSource(w) => workers'[w] = [workers[w] EXCEPT !.pc = "open_tgt"]
      /\ LockTarget(w) => workers'[w] = [workers[w] EXCEPT !.pc = "read"]
      /\ UnlockSource(w) => workers'[w] = [workers[w] EXCEPT !.pc = "unlock_tgt"]
      /\ CopyFails(w) => workers'[w] = [workers[w] EXCEPT !.pc = "unlock_src", !.buffer = Hole]
  BY DEF LockSource, LockTarget, UnlockSource, CopyFails
<1>5. OpenTarget(w) => workers'[w] =
              [workers[w] EXCEPT !.pc = "lock_tgt", !.tgt = entry'[Target(w)][workers[w].file]]
  BY DEF OpenTarget
<1>6. Write(w) => workers'[w] =
              [workers[w] EXCEPT !.pc = "read", !.offset = workers[w].offset + 1, !.buffer = Hole]
  BY DEF Write
<1>7. UnlockTarget(w) \/ SourceIsGone(w) \/ SourceFails(w) \/ TargetFails(w) =>
              workers'[w] = Returned(w)
  BY DEF UnlockTarget, SourceIsGone, SourceFails, TargetFails
<1>8. EndOfDirectory(w) \/ Unlink(w) \/ TargetIsGone(w) \/ OpendirFails(w)
            \/ UnlinkFails(w) \/ Dies(w) => workers'[w] = Idle
  BY DEF EndOfDirectory, Unlink, TargetIsGone, OpendirFails, UnlinkFails, Dies
<1>9. Start(w) => workers'[w] =
              [Idle EXCEPT !.pc = FirstCall(Head(queue).type),
                           !.task = Head(queue), !.file = Head(queue).file]
  BY DEF Start
<1> QED  BY <1>1, <1>2, <1>3, <1>4, <1>5, <1>6, <1>7, <1>8, <1>9

LEMMA ReadNext ==
  ASSUME workers \in [Workers -> Worker], NEW w \in Workers, Read(w)
  PROVE  workers'[w] =
           IF workers[w].offset + 1 <= Len(data[workers[w].src])
             THEN [workers[w] EXCEPT !.pc = "write",
                     !.buffer = data[workers[w].src][workers[w].offset + 1]]
             ELSE [workers[w] EXCEPT !.pc = "unlock_src"]
BY DEF Read

(* What copy_file leaves of a worker, in the two kinds of task.            *)
LEMMA ReturnedIs ==
  ASSUME workers \in [Workers -> Worker], NEW w \in Workers
  PROVE  /\ workers[w].task.type = "FULL" =>
              Returned(w) = [Idle EXCEPT !.pc = "readdir", !.task = workers[w].task,
                                         !.todo = workers[w].todo]
         /\ workers[w].task.type # "FULL" => Returned(w) = Idle
BY DEF Returned

LEMMA RestedStep ==
  ASSUME KInv, [Next]_vars, NEW v \in Workers
  PROVE  Rested(workers'[v])
<1> DEFINE r == workers[v]
           s == workers'[v]
<1>0. /\ workers \in [Workers -> Worker] /\ r \in Worker /\ WellFormed(r) /\ Rested(r)
      /\ queue \in Seq(Task)
  BY DEF KInv, MInv, TypeOK
<1>1. CASE s = r
  BY <1>0, <1>1
<1>2. CASE WorkerMove(v)
  <2>1. CASE s = Idle
    BY <2>1 DEF Rested, Idle
  <2>2. CASE Start(v)
    <3>1. s = [Idle EXCEPT !.pc = FirstCall(Head(queue).type),
                           !.task = Head(queue), !.file = Head(queue).file]
      BY <1>0, <2>2, NextCalls
    <3>2. s.offset = 0 /\ s.todo = {}
      BY <3>1 DEF Idle
    <3> QED  BY <3>2 DEF Rested
  <2>3. CASE Opendir(v)
    <3>1. s = [r EXCEPT !.pc = "readdir", !.todo = Present(Source(v))]
      BY <1>0, <2>3, NextCalls
    <3>2. r.pc = "opendir"
      BY <2>3 DEF Opendir, At
    <3> DEFINE found == Present(Source(v))
    <3> HIDE DEF found
    <3> QED  BY <1>0, <3>1, <3>2 DEF Rested, WellFormed, Worker, found
  <2>4. CASE Readdir(v)
    <3>1. PICK f \in r.todo : s = [r EXCEPT !.pc = "open_src", !.file = f, !.todo = r.todo \ {f}]
      BY <1>0, <2>4, NextCalls, Zenon
    <3>2. r.pc = "readdir"
      BY <2>4 DEF Readdir, At
    <3> QED  BY <1>0, <3>1, <3>2 DEF Rested, WellFormed, Worker
  <2>5. CASE OpenSource(v) \/ LockSource(v) \/ OpenTarget(v) \/ LockTarget(v) \/ UnlockSource(v)
    <3>1. /\ s.offset = r.offset /\ s.todo = r.todo /\ s.task = r.task
          /\ s.pc \notin {"idle", "unlink"}
          /\ r.pc \notin {"idle", "read", "write", "unlock_tgt"}
          /\ s.pc # "unlock_src"
          /\ s.pc = "unlock_tgt" => r.pc = "unlock_src"
          /\ r.pc = "unlock_src" => s.pc = "unlock_tgt"
      <4>1. CASE OpenSource(v)
        BY <1>0, <4>1, NextCalls DEF OpenSource, At, Worker
      <4>2. CASE LockSource(v)
        BY <1>0, <4>2 DEF LockSource, At, Worker
      <4>3. CASE OpenTarget(v)
        BY <1>0, <4>3, NextCalls DEF OpenTarget, At, Worker
      <4>4. CASE LockTarget(v)
        BY <1>0, <4>4 DEF LockTarget, At, Worker
      <4>5. CASE UnlockSource(v)
        BY <1>0, <4>5 DEF UnlockSource, At, Worker
      <4> QED  BY <2>5, <4>1, <4>2, <4>3, <4>4, <4>5
    <3> QED  BY <1>0, <3>1 DEF Rested
  <2>6. CASE Read(v) \/ Write(v) \/ CopyFails(v)
    <3>1. /\ s.pc \in {"read", "write", "unlock_src"} /\ s.todo = r.todo /\ s.task = r.task
          /\ r.pc # "idle"
      <4>1. CASE Read(v)
        BY <1>0, <4>1 DEF Read, At, Worker
      <4>2. CASE Write(v)
        BY <1>0, <4>2 DEF Write, At, Worker
      <4>3. CASE CopyFails(v)
        BY <1>0, <4>3 DEF CopyFails, At, Worker
      <4> QED  BY <2>6, <4>1, <4>2, <4>3
    <3> QED  BY <1>0, <3>1 DEF Rested
  <2>7. CASE UnlockTarget(v) \/ SourceIsGone(v) \/ SourceFails(v) \/ TargetFails(v)
    <3>1. s = Returned(v)
      BY <1>0, <2>7, NextCalls
    <3>2. CASE r.task.type = "FULL"
      <4>1. s = [Idle EXCEPT !.pc = "readdir", !.task = r.task, !.todo = r.todo]
        BY <1>0, <3>1, <3>2, ReturnedIs
      <4>2. s.offset = 0 /\ s.pc = "readdir" /\ s.task = r.task
        BY <4>1 DEF Idle
      <4> QED  BY <3>2, <4>2 DEF Rested
    <3>3. CASE r.task.type # "FULL"
      BY <1>0, <2>1, <3>1, <3>3, ReturnedIs
    <3> QED  BY <3>2, <3>3
  <2>8. CASE EndOfDirectory(v) \/ Unlink(v) \/ TargetIsGone(v) \/ OpendirFails(v)
             \/ UnlinkFails(v) \/ Dies(v)
    BY <1>0, <2>1, <2>8, NextCalls
  <2> QED  BY <1>2, <2>2, <2>3, <2>4, <2>5, <2>6, <2>7, <2>8 DEF WorkerMove, WorkerStep, FaultStep
<1> QED  BY <1>1, <1>2, Bystanders DEF KInv

-----------------------------------------------------------------------------
(***************************************************************************)
(* Who changes what a name stands for.                                     *)
(***************************************************************************)

(* The name of a file that nobody deleted keeps its inode.                 *)
LEMMA NameStays ==
  ASSUME MInv, [Next]_vars, NEW d \in Dirs, NEW f \in Files, f \notin deleted',
         entry[d][f] # NULL
  PROVE  entry'[d][f] = entry[d][f]
<1>1. entry \in [Dirs -> [Files -> Inodes \cup {NULL}]]
  BY DEF MInv, TypeOK
<1>2. ASSUME NEW e \in Dirs, NEW g \in Files, Created(e, g) PROVE entry'[d][f] = entry[d][f]
  BY <1>1, <1>2 DEF Created
<1>3. ASSUME NEW e \in Dirs, NEW g \in Files, Removed(e, g) PROVE entry'[d][f] = entry[d][f]
  BY <1>1, <1>3 DEF Removed
<1> QED  BY <1>2, <1>3, NameSteps

LEMMA TargetStaysStep ==
  ASSUME KInv, [Next]_vars
  PROVE  TargetStays'
<1> SUFFICES ASSUME NEW w \in Workers, workers'[w].pc \in TgtOpen, workers'[w].file \notin deleted'
             PROVE  workers'[w].tgt = entry'[workers'[w].task.pair.target][workers'[w].file]
  BY DEF TargetStays, Target
<1>0. /\ MInv /\ TypeOK /\ WellFormed(workers[w]) /\ TargetStays /\ deleted \subseteq deleted'
      /\ NULL \notin Inodes
  BY Bystanders, Constants DEF KInv, MInv
<1>1. /\ workers'[w].task = workers[w].task /\ workers'[w].file = workers[w].file
      /\ \/ workers[w].pc \in TgtOpen /\ workers'[w].tgt = workers[w].tgt
         \/ OpenTarget(w) /\ workers'[w].tgt = entry'[Target(w)][workers[w].file]
  BY <1>0, DescriptorSteps
<1>2. CASE workers[w].pc \in TgtOpen /\ workers'[w].tgt = workers[w].tgt
  <2>1. /\ workers[w].tgt \in Inodes /\ workers[w].pc # "idle" /\ workers[w].pc \in OnFile
    BY <1>0, <1>2 DEF WellFormed, TgtOpen, SrcOpen, OnFile
  <2>2. Target(w) \in Dirs /\ workers[w].file \in Files
    BY <1>0, <2>1, OnFileFacts
  <2>3. workers[w].tgt = entry[Target(w)][workers[w].file]
    BY <1>0, <1>1, <1>2 DEF TargetStays
  <2>4. entry'[Target(w)][workers[w].file] = entry[Target(w)][workers[w].file]
    BY <1>0, <1>1, <2>1, <2>2, <2>3, NameStays
  <2> QED  BY <1>1, <1>2, <2>3, <2>4 DEF Target
<1>3. CASE OpenTarget(w) /\ workers'[w].tgt = entry'[Target(w)][workers[w].file]
  BY <1>1, <1>3 DEF Target
<1> QED  BY <1>1, <1>2, <1>3

(* An open for writing touches one name and one inode.                     *)
LEMMA OpenTouches ==
  ASSUME TypeOK, NEW d \in Dirs, NEW f \in Files, Truncate(d, f) \/ Create(d, f)
  PROVE  /\ entry'[d][f] \in Inodes /\ data'[entry'[d][f]] = << >>
         /\ \A i \in Inodes : data'[i] # data[i] => i = entry'[d][f]
         /\ \A e \in Dirs, g \in Files : entry'[e][g] # entry[e][g] => e = d /\ g = f
<1>0. /\ entry \in [Dirs -> [Files -> Inodes \cup {NULL}]]
      /\ data \in [Inodes -> Content]
  BY DEF TypeOK, Content
<1>1. CASE Truncate(d, f)
  BY <1>0, <1>1 DEF Truncate
<1>2. CASE Create(d, f)
  <2> DEFINE i == CHOOSE j \in Inodes : Unused(j)
  <2>1. i \in Inodes
    BY <1>2 DEF Create
  <2>2. /\ entry' = [entry EXCEPT ![d][f] = i] /\ data' = [data EXCEPT ![i] = << >>]
    BY <1>2 DEF Create
  <2> HIDE DEF i
  <2> QED  BY <1>0, <2>1, <2>2
<1> QED  BY <1>1, <1>2

(* A name that is new, or that has a new content, belongs to a file that   *)
(* is being saved, or that a worker has just opened or written.            *)
Puts(w) == OpenTarget(w) \/ Write(w)

LEMMA PutsOpen ==
  ASSUME MInv, [Next]_vars, NEW w \in Workers, Puts(w)
  PROVE  /\ workers'[w].pc \in TgtOpen
         /\ workers'[w].task = workers[w].task /\ workers'[w].file = workers[w].file
         /\ workers[w].task.pair \in Pairs /\ workers[w].file \in Files
         /\ Target(w) \in Dirs /\ Target(w) \notin Roots
<1>0. /\ workers \in [Workers -> Worker] /\ workers[w] \in Worker /\ TypeOK
      /\ WellFormed(workers[w])
  BY DEF MInv, TypeOK
<1>1. /\ workers'[w].pc \in TgtOpen /\ workers[w].pc \in OnFile /\ workers[w].pc # "idle"
      /\ workers'[w].task = workers[w].task /\ workers'[w].file = workers[w].file
  <2>1. CASE OpenTarget(w)
    <3>1. workers[w].pc = "open_tgt"
      BY <2>1 DEF OpenTarget, At
    <3>2. workers'[w] = [workers[w] EXCEPT !.pc = "lock_tgt",
                                           !.tgt = entry'[Target(w)][workers[w].file]]
      BY <1>0, <2>1, NextCalls
    <3> QED  BY <1>0, <3>1, <3>2 DEF Worker, TgtOpen, OnFile, SrcOpen
  <2>2. CASE Write(w)
    <3>1. workers[w].pc = "write"
      BY <2>2 DEF Write, At
    <3>2. workers'[w] = [workers[w] EXCEPT !.pc = "read", !.offset = workers[w].offset + 1,
                                           !.buffer = Hole]
      BY <1>0, <2>2, NextCalls
    <3> QED  BY <1>0, <3>1, <3>2 DEF Worker, TgtOpen, OnFile, SrcOpen
  <2> QED  BY <2>1, <2>2 DEF Puts
<1> QED  BY <1>0, <1>1, OnFileFacts

LEMMA DiskSteps ==
  ASSUME MInv, MInv', [Next]_vars, NEW e \in Dirs, NEW g \in Files, entry'[e][g] # NULL,
         entry'[e][g] # entry[e][g] \/ data'[entry'[e][g]] # data[entry'[e][g]]
  PROVE  \/ e \in Roots /\ saving'[e][g] # 0
         \/ \E w \in Workers : Puts(w) /\ Target(w) = e /\ workers[w].file = g
<1>0. /\ TypeOK /\ TypeOK' /\ OneName' /\ TargetNamed'
      /\ entry \in [Dirs -> [Files -> Inodes \cup {NULL}]]
      /\ entry' \in [Dirs -> [Files -> Inodes \cup {NULL}]]
      /\ data \in [Inodes -> Content]
      /\ saving \in [Roots -> [Files -> 0 .. MaxSaves]]
  BY DEF MInv, TypeOK, Content
<1>1. entry'[e][g] \in Inodes
  BY <1>0
<1>2. ASSUME NEW d \in Dirs, NEW f \in Files, Truncate(d, f) \/ Create(d, f)
      PROVE  d = e /\ f = g
  <2>1. CASE entry'[e][g] # entry[e][g]
    BY <1>0, <1>2, <2>1, OpenTouches
  <2>2. CASE data'[entry'[e][g]] # data[entry'[e][g]]
    <3>1. entry'[e][g] = entry'[d][f]
      BY <1>0, <1>1, <1>2, <2>2, OpenTouches
    <3> QED  BY <1>0, <3>1 DEF OneName
  <2> QED  BY <2>1, <2>2
<1>3. ASSUME NEW d \in Roots, NEW f \in Files,
             UserOpens(d, f) \/ UserWrites(d, f) \/ UserCloses(d, f) \/ UserDeletes(d, f)
      PROVE  e \in Roots /\ saving'[e][g] # 0
  <2>0. d \in Dirs
    BY Constants
  <2>1. CASE UserOpens(d, f)
    <3>1. d = e /\ f = g
      BY <1>2, <2>0, <2>1 DEF UserOpens
    <3>2. spent'.save \in 1 .. MaxSaves
      BY <1>0, <2>1, SpendType DEF UserOpens
    <3>3. saving'[d][f] = spent'.save
      BY <1>0, <2>1 DEF UserOpens
    <3> QED  BY <3>1, <3>2, <3>3
  <2>2. CASE UserWrites(d, f)
    <3>1. /\ UNCHANGED <<entry, saving>> /\ saving[d][f] # 0
          /\ data' = [data EXCEPT ![entry[d][f]] = Append(data[entry[d][f]], saving[d][f])]
      BY <2>2 DEF UserWrites, userVars
    <3>2. entry'[e][g] = entry'[d][f]
      BY <1>0, <1>1, <3>1
    <3>3. e = d /\ g = f
      BY <1>0, <2>0, <3>2 DEF OneName
    <3> QED  BY <3>1, <3>3
  <2>3. CASE UserCloses(d, f)
    BY <2>3 DEF UserCloses, diskVars
  <2>4. CASE UserDeletes(d, f)
    <3>1. UNCHANGED data /\ entry' = [entry EXCEPT ![d][f] = NULL]
      BY <2>4 DEF UserDeletes
    <3> QED  BY <1>0, <3>1
  <2> QED  BY <1>3, <2>1, <2>2, <2>3, <2>4
<1>4. ASSUME NEW w \in Workers, WorkerMove(w)
      PROVE  Puts(w) /\ Target(w) = e /\ workers[w].file = g
  <2>1. CASE OpenTarget(w)
    <3>1. Truncate(Target(w), workers[w].file) \/ Create(Target(w), workers[w].file)
      BY <2>1 DEF OpenTarget
    <3>2. Target(w) \in Dirs /\ workers[w].file \in Files
      BY <2>1, PutsOpen DEF Puts
    <3> QED  BY <1>2, <2>1, <3>1, <3>2 DEF Puts
  <2>2. CASE Write(w)
    <3>1. /\ UNCHANGED entry
          /\ data' = [data EXCEPT ![workers[w].tgt] =
                        WriteAt(data[workers[w].tgt], workers[w].offset + 1, workers[w].buffer)]
      BY <2>2 DEF Write
    <3>2. workers[w].tgt = entry'[e][g]
      BY <1>0, <1>1, <3>1
    <3>3. workers'[w].tgt = workers[w].tgt
      <4>1. workers \in [Workers -> Worker] /\ workers[w] \in Worker
        BY <1>0 DEF TypeOK
      <4>2. workers'[w] = [workers[w] EXCEPT !.pc = "read", !.offset = workers[w].offset + 1,
                                             !.buffer = Hole]
        BY <2>2, <4>1, NextCalls
      <4> QED  BY <4>1, <4>2 DEF Worker
    <3>4. /\ workers'[w].pc \in TgtOpen
          /\ workers'[w].task = workers[w].task /\ workers'[w].file = workers[w].file
      BY <2>2, PutsOpen DEF Puts
    <3>5. e = workers'[w].task.pair.target /\ g = workers'[w].file
      BY <1>0, <3>2, <3>3, <3>4 DEF TargetNamed, Target
    <3> QED  BY <2>2, <3>4, <3>5 DEF Puts, Target
  <2>3. CASE Unlink(w)
    <3>1. UNCHANGED data /\ entry' = [entry EXCEPT ![Target(w)][workers[w].file] = NULL]
      BY <2>3 DEF Unlink
    <3> QED  BY <1>0, <3>1
  <2>4. CASE ~OpenTarget(w) /\ ~Write(w) /\ ~Unlink(w)
    <3>1. UNCHANGED <<entry, data>>
      BY <1>4, <2>4, Zenon DEF WorkerMove, Start, WorkerStep, FaultStep, Opendir, Readdir,
         EndOfDirectory, OpenSource, LockSource, LockTarget, Read, UnlockSource, UnlockTarget,
         SourceIsGone, TargetIsGone, OpendirFails, SourceFails, TargetFails, CopyFails,
         UnlinkFails, Dies, diskVars
    <3> QED  BY <3>1
  <2> QED  BY <2>1, <2>2, <2>3, <2>4
<1>5. UNCHANGED vars \/ (\E p \in Pairs : Sync(p)) => UNCHANGED <<entry, data>>
  BY DEF vars, Sync, diskVars
<1> QED  BY <1>3, <1>4, <1>5, Movers

-----------------------------------------------------------------------------
(***************************************************************************)
(* What is pending stays pending until a worker opens the target.          *)
(***************************************************************************)

(* An event of the source of a pair asks for a copy.                       *)
LEMMA EventAsks ==
  ASSUME queue \in Seq(Task), NEW p \in Pairs, NEW f \in Files, NEW type \in {"ADDED", "MODIFIED"},
         queue' = queue \o Tasks(type, p.source, f)
  PROVE  \E t \in Range(queue') : Asks(t, p, f)
<1> DEFINE t == [type |-> type, pair |-> p, file |-> f]
           s == Tasks(type, p.source, f)
<1>1. (CHOOSE q \in Pairs : q.source = p.source) = p
  BY PairsAssumption
<1>2. s = <<t>>
  BY <1>1 DEF Tasks
<1>3. t \in Range(s)
  BY <1>2 DEF Range
<1>4. Asks(t, p, f)
  BY DEF Asks
<1>5. s \in Seq(Task)
  BY EventTasks DEF Types
<1> HIDE DEF t, s
<1>6. Range(queue') = Range(queue) \cup Range(s)
  BY <1>5, RangeOfConcat DEF s
<1> QED  BY <1>3, <1>4, <1>6

(* A task stays in the queue until a worker is started on it.              *)
LEMMA QueueKeeps ==
  ASSUME MInv, [Next]_vars
  PROVE  \/ Range(queue) \subseteq Range(queue')
         \/ \E w \in Workers : Start(w) /\ Range(queue) = {Head(queue)} \cup Range(queue')
<1>0. queue \in Seq(Task)
  BY DEF MInv, TypeOK
<1>1. ASSUME NEW type \in Types, NEW d, NEW f \in Files, queue' = queue \o Tasks(type, d, f)
      PROVE  Range(queue) \subseteq Range(queue')
  <2> DEFINE s == Tasks(type, d, f)
  <2>1. s \in Seq(Task)
    BY EventTasks
  <2> HIDE DEF s
  <2>2. Range(queue') = Range(queue) \cup Range(s)
    BY <1>0, <1>1, <2>1, RangeOfConcat DEF s
  <2> QED  BY <2>2
<1>2. ASSUME NEW d \in Dirs, NEW f \in Files, Truncate(d, f) \/ Create(d, f)
      PROVE  Range(queue) \subseteq Range(queue')
  BY <1>1, <1>2, Zenon DEF Truncate, Create, Types
<1>3. ASSUME NEW d \in Roots, NEW f \in Files,
             UserOpens(d, f) \/ UserWrites(d, f) \/ UserCloses(d, f) \/ UserDeletes(d, f)
      PROVE  Range(queue) \subseteq Range(queue')
  <2>1. CASE UserOpens(d, f)
    BY <1>2, <2>1, Constants DEF UserOpens
  <2>2. CASE UserWrites(d, f)
    BY <2>2 DEF UserWrites
  <2>3. CASE UserCloses(d, f)
    BY <1>1, <2>3, Zenon DEF UserCloses, Types
  <2>4. CASE UserDeletes(d, f)
    BY <1>1, <2>4, Zenon DEF UserDeletes, Types
  <2> QED  BY <1>3, <2>1, <2>2, <2>3, <2>4
<1>4. ASSUME NEW p \in Pairs, Sync(p) PROVE Range(queue) \subseteq Range(queue')
  <2> DEFINE t == [type |-> "FULL", pair |-> p, file |-> NULL]
  <2>1. t \in Task /\ queue' = Append(queue, t)
    BY <1>4 DEF Sync, Task
  <2> HIDE DEF t
  <2> QED  BY <1>0, <2>1, RangeOfAppend
<1>5. ASSUME NEW w \in Workers, Start(w)
      PROVE  Range(queue) = {Head(queue)} \cup Range(queue')
  <2>1. queue # << >> /\ queue' = Tail(queue)
    BY <1>5, Zenon DEF Start
  <2> QED  BY <1>0, <2>1, RangeOfTail
<1>6. ASSUME NEW w \in Workers, WorkerMove(w), ~Start(w)
      PROVE  Range(queue) \subseteq Range(queue')
  <2> DEFINE f == workers[w].file
  <2>0. /\ WellFormed(workers[w]) /\ TypeOK
        /\ workers[w].pc \in OnFile => f \in Files /\ Target(w) \in Dirs
    <3>1. WellFormed(workers[w]) /\ TypeOK
      BY DEF MInv
    <3>2. workers[w].pc \in OnFile => workers[w].pc # "idle"
      BY DEF OnFile, SrcOpen
    <3> QED  BY <3>1, <3>2, OnFileFacts
  <2>1. CASE OpenTarget(w)
    BY <1>2, <2>0, <2>1 DEF OpenTarget, At, OnFile, SrcOpen
  <2>2. CASE UnlockTarget(w)
    BY <1>1, <2>0, <2>2 DEF UnlockTarget, At, OnFile, SrcOpen, Types
  <2>3. CASE Unlink(w)
    BY <1>1, <2>0, <2>3 DEF Unlink, At, OnFile, Types
  <2>4. CASE TargetFails(w)
    BY <1>1, <2>0, <2>4 DEF TargetFails, At, OnFile, SrcOpen, Types
  <2>5. CASE Dies(w)
    <3>1. workers[w].tgt # NULL => f \in Files
      BY <2>0 DEF WellFormed, TgtOpen, SrcOpen, OnFile
    <3> QED  BY <1>1, <2>5, <3>1 DEF Dies, Types
  <2>6. CASE UNCHANGED queue
    BY <2>6
  <2> QED  BY <1>6, <2>1, <2>2, <2>3, <2>4, <2>5, <2>6
           DEF WorkerMove, WorkerStep, FaultStep, Opendir, Readdir, EndOfDirectory, OpenSource,
               LockSource, LockTarget, Read, Write, UnlockSource, SourceIsGone, TargetIsGone,
               OpendirFails, SourceFails, CopyFails, UnlinkFails
<1>7. UNCHANGED vars => UNCHANGED queue
  BY DEF vars
<1> QED  BY <1>3, <1>4, <1>5, <1>6, <1>7, Movers

(* Whoever has a source of a pair open for writing closes it in the end,   *)
(* and the close is an event, even when the worker is killed.              *)
LEMMA CloseIsAnEvent ==
  ASSUME MInv, [Next]_vars, NEW p \in Pairs, NEW f \in Files,
         BeingWritten(p.source, f), ~BeingWritten(p.source, f)'
  PROVE  \E t \in Range(queue') : Asks(t, p, f)
<1> DEFINE d == p.source
<1>0. /\ TypeOK /\ queue \in Seq(Task) /\ saving \in [Roots -> [Files -> 0 .. MaxSaves]]
      /\ workers \in [Workers -> Worker] /\ \A w \in Workers : WellFormed(workers[w])
  BY DEF MInv, TypeOK
<1>1. ASSUME d \in Roots, saving[d][f] # 0, saving'[d][f] = 0
      PROVE  queue' = queue \o Tasks("MODIFIED", d, f)
  <2>1. ASSUME NEW e \in Roots, NEW g \in Files,
               UserOpens(e, g) \/ UserWrites(e, g) \/ UserCloses(e, g) \/ UserDeletes(e, g)
        PROVE  queue' = queue \o Tasks("MODIFIED", d, f)
    <3>1. CASE UserOpens(e, g)
      <4>1. saving[e][g] = 0 /\ saving' = [saving EXCEPT ![e][g] = spent'.save]
        BY <3>1 DEF UserOpens
      <4>2. saving'[d][f] = saving[d][f]
        BY <1>0, <1>1, <4>1
      <4> QED  BY <1>1, <4>2
    <3>2. CASE UserCloses(e, g)
      <4>1. saving' = [saving EXCEPT ![e][g] = 0] /\ queue' = queue \o Tasks("MODIFIED", e, g)
        BY <3>2 DEF UserCloses
      <4>2. e = d /\ g = f
        BY <1>0, <1>1, <4>1
      <4> QED  BY <4>1, <4>2
    <3>3. CASE UserWrites(e, g) \/ UserDeletes(e, g)
      BY <1>1, <3>3, Zenon DEF UserWrites, UserDeletes, userVars
    <3> QED  BY <2>1, <3>1, <3>2, <3>3
  <2>2. ASSUME NEW w \in Workers, WorkerMove(w) PROVE UNCHANGED saving
    BY <2>2, Zenon DEF WorkerMove, Start, WorkerStep, FaultStep, Opendir, Readdir, EndOfDirectory,
       OpenSource, LockSource, OpenTarget, LockTarget, Read, Write, UnlockSource, UnlockTarget,
       Unlink, SourceIsGone, TargetIsGone, OpendirFails, SourceFails, TargetFails, CopyFails,
       UnlinkFails, Dies, userVars
  <2>3. UNCHANGED vars \/ (\E q \in Pairs : Sync(q)) => UNCHANGED saving
    BY DEF Sync, userVars, vars
  <2> QED  BY <1>1, <2>1, <2>2, <2>3, Movers
<1>2. ASSUME NEW w \in Workers, workers[w].pc \in TgtOpen, Target(w) = d, workers[w].file = f,
             ~(workers'[w].pc \in TgtOpen /\ workers'[w].task.pair.target = d
                 /\ workers'[w].file = f)
      PROVE  queue' = queue \o Tasks("MODIFIED", d, f)
  <2>0. workers'[w].pc \notin TgtOpen
    <3>1. workers'[w].pc \in TgtOpen =>
            workers'[w].task = workers[w].task /\ workers'[w].file = workers[w].file
      BY DescriptorSteps
    <3> QED  BY <1>2, <3>1 DEF Target
  <2>1. WorkerMove(w)
    BY <1>2, <2>0, Bystanders
  <2>2. CASE UnlockTarget(w)
    BY <1>2, <2>2 DEF UnlockTarget
  <2>3. CASE TargetFails(w)
    BY <1>2, <2>3 DEF TargetFails, At, TgtOpen
  <2>4. CASE Dies(w)
    <3>1. workers[w].tgt # NULL
      BY <1>0, <1>2, Constants DEF WellFormed
    <3> QED  BY <1>2, <2>4, <3>1 DEF Dies
  <2>5. CASE LockTarget(w) \/ Read(w) \/ Write(w) \/ UnlockSource(w) \/ CopyFails(w)
    <3>1. workers'[w].pc \in TgtOpen
      <4>1. CASE Read(w)
        BY <1>0, <4>1 DEF Read, Worker, TgtOpen
      <4>2. CASE Write(w)
        BY <1>0, <4>2 DEF Write, Worker, TgtOpen
      <4>3. CASE LockTarget(w) \/ UnlockSource(w) \/ CopyFails(w)
        BY <1>0, <4>3 DEF LockTarget, UnlockSource, CopyFails, Worker, TgtOpen
      <4> QED  BY <2>5, <4>1, <4>2, <4>3
    <3> QED  BY <2>0, <3>1
  <2>6. CASE Opendir(w) \/ Readdir(w) \/ EndOfDirectory(w) \/ OpenSource(w)
             \/ LockSource(w) \/ OpenTarget(w) \/ Unlink(w) \/ SourceIsGone(w) \/ TargetIsGone(w)
             \/ OpendirFails(w) \/ SourceFails(w) \/ UnlinkFails(w)
    <3>1. workers[w].pc \in {"opendir", "readdir", "open_src", "lock_src", "open_tgt", "unlink"}
      BY <2>6, Zenon DEF Opendir, Readdir, EndOfDirectory, OpenSource, LockSource, OpenTarget,
         Unlink, SourceIsGone, TargetIsGone, OpendirFails, SourceFails, UnlinkFails, At
    <3> QED  BY <1>2, <3>1 DEF TgtOpen
  <2>7. CASE Start(w)
    <3>1. workers[w].pc = "idle"
      BY <2>7 DEF Start, Idle
    <3> QED  BY <1>2, <3>1 DEF TgtOpen
  <2> QED  BY <2>1, <2>2, <2>3, <2>4, <2>5, <2>6, <2>7 DEF WorkerMove, WorkerStep, FaultStep
<1>3. queue' = queue \o Tasks("MODIFIED", d, f)
  <2>1. CASE d \in Roots /\ saving[d][f] # 0
    <3>1. saving'[d][f] = 0
      BY <2>1 DEF BeingWritten
    <3> QED  BY <1>1, <2>1, <3>1
  <2>2. ASSUME NEW w \in Workers, workers[w].pc \in TgtOpen, Target(w) = d, workers[w].file = f
        PROVE  queue' = queue \o Tasks("MODIFIED", d, f)
    <3>1. ~(workers'[w].pc \in TgtOpen /\ workers'[w].task.pair.target = d
              /\ workers'[w].file = f)
      BY DEF BeingWritten, Target
    <3> QED  BY <1>2, <2>2, <3>1
  <2> QED  BY <2>1, <2>2 DEF BeingWritten
<1> QED  BY <1>0, <1>3, EventAsks

(* A worker that is given a task for the file will copy it.                *)
LEMMA StartedWillCopy ==
  ASSUME MInv, NEW w \in Workers, NEW p \in Pairs, NEW f \in Files,
         Start(w), Asks(Head(queue), p, f)
  PROVE  WillCopy(w, p, f)'
<1> DEFINE t == Head(queue)
<1>1. workers \in [Workers -> Worker]
  BY DEF MInv, TypeOK
<1>2. workers'[w] = [Idle EXCEPT !.pc = FirstCall(t.type), !.task = t, !.file = t.file]
  BY <1>1, NextCalls
<1>3. /\ workers'[w].pc = FirstCall(t.type) /\ workers'[w].task = t /\ workers'[w].file = t.file
  BY <1>2 DEF Idle
<1>4. t.pair = p /\ (t.type = "FULL" \/ (t.type \in {"ADDED", "MODIFIED"} /\ t.file = f))
  BY DEF Asks
<1> HIDE DEF t
<1>5. FirstCall(t.type) = IF t.type = "FULL" THEN "opendir" ELSE "open_src"
  BY <1>4 DEF FirstCall
<1> QED  BY <1>3, <1>4, <1>5 DEF WillCopy, At

(* A worker that will copy the file goes on meaning to, unless it fails,   *)
(* until it opens the target.                                              *)
LEMMA WillCopyKept ==
  ASSUME KInv, [Next]_vars, NEW w \in Workers, NEW p \in Pairs, NEW f \in Files,
         Followed(p, f), <<p, f>> \notin failed', WillCopy(w, p, f),
         ~(OpenTarget(w) /\ workers[w].file = f)
  PROVE  WillCopy(w, p, f)'
<1> DEFINE r == workers[w]
           s == workers'[w]
           Still(x) == /\ x.pc # "idle" /\ x.task.pair = p
                       /\ \/ x.pc = "opendir"
                          \/ f \in x.todo
                          \/ x.pc \in {"open_src", "lock_src", "open_tgt"} /\ x.file = f
<1>0. /\ workers \in [Workers -> Worker] /\ r \in Worker /\ WellFormed(r) /\ Rested(r)
      /\ MInv
  BY DEF KInv, MInv, TypeOK
<1>1. Still(r)
  BY Zenon DEF WillCopy, At
<1> SUFFICES Still(s)
  BY Zenon DEF WillCopy, At
<1>2. CASE s = r
  BY <1>1, <1>2
<1>3. CASE WorkerMove(w)
  <2>1. CASE Start(w)
    BY <1>1, <2>1 DEF Start, Idle
  <2>2. CASE Opendir(w)
    <3> DEFINE found == Present(Source(w))
    <3>1. s = [r EXCEPT !.pc = "readdir", !.todo = found]
      BY <1>0, <2>2, NextCalls
    <3>2. f \in found
      BY <1>1 DEF Present, Source, Followed
    <3> HIDE DEF found
    <3>3. s.pc = "readdir" /\ s.todo = found /\ s.task = r.task
      BY <1>0, <3>1 DEF Worker
    <3> QED  BY <1>1, <3>2, <3>3
  <2>3. CASE Readdir(w)
    <3>1. PICK g \in r.todo : s = [r EXCEPT !.pc = "open_src", !.file = g, !.todo = r.todo \ {g}]
      BY <1>0, <2>3, NextCalls, Zenon
    <3>2. s.pc = "open_src" /\ s.file = g /\ s.todo = r.todo \ {g} /\ s.task = r.task
      BY <1>0, <3>1 DEF Worker
    <3>3. r.pc = "readdir"
      BY <2>3 DEF Readdir, At
    <3> QED  BY <1>1, <3>2, <3>3
  <2>4. CASE EndOfDirectory(w)
    BY <1>1, <2>4 DEF EndOfDirectory, At
  <2>5. CASE OpenSource(w)
    <3>1. s = [r EXCEPT !.pc = "lock_src", !.src = entry[Source(w)][r.file]] /\ r.pc = "open_src"
      BY <1>0, <2>5, NextCalls DEF OpenSource, At
    <3>2. s.pc = "lock_src" /\ s.file = r.file /\ s.todo = r.todo /\ s.task = r.task
      BY <1>0, <3>1 DEF Worker
    <3> QED  BY <1>1, <3>1, <3>2
  <2>6. CASE LockSource(w)
    <3>1. s = [r EXCEPT !.pc = "open_tgt"] /\ r.pc = "lock_src"
      BY <1>0, <2>6, NextCalls DEF LockSource, At
    <3>2. s.pc = "open_tgt" /\ s.file = r.file /\ s.todo = r.todo /\ s.task = r.task
      BY <1>0, <3>1 DEF Worker
    <3> QED  BY <1>1, <3>1, <3>2
  <2>7. CASE OpenTarget(w)
    <3>1. s = [r EXCEPT !.pc = "lock_tgt", !.tgt = entry'[Target(w)][r.file]] /\ r.pc = "open_tgt"
      BY <1>0, <2>7, NextCalls DEF OpenTarget, At
    <3>2. s.pc = "lock_tgt" /\ s.todo = r.todo /\ s.task = r.task
      BY <1>0, <3>1 DEF Worker
    <3> QED  BY <1>1, <2>7, <3>1, <3>2
  <2>8. CASE LockTarget(w) \/ Read(w) \/ Write(w) \/ UnlockSource(w) \/ CopyFails(w)
    <3>1. /\ r.pc \in {"lock_tgt", "read", "write", "unlock_src"} /\ s.pc # "idle"
          /\ s.todo = r.todo /\ s.task = r.task
      <4>1. CASE Read(w)
        BY <1>0, <4>1 DEF Read, At, Worker
      <4>2. CASE Write(w)
        BY <1>0, <4>2 DEF Write, At, Worker
      <4>3. CASE LockTarget(w) \/ UnlockSource(w) \/ CopyFails(w)
        BY <1>0, <4>3 DEF LockTarget, UnlockSource, CopyFails, At, Worker
      <4> QED  BY <2>8, <4>1, <4>2, <4>3
    <3> QED  BY <1>1, <3>1
  <2>9. CASE UnlockTarget(w) \/ SourceIsGone(w) \/ SourceFails(w) \/ TargetFails(w)
    <3>1. s = Returned(w)
      BY <1>0, <2>9, NextCalls
    <3>2. CASE f \in r.todo
      <4>1. s = [Idle EXCEPT !.pc = "readdir", !.task = r.task, !.todo = r.todo]
        BY <1>0, <3>1, <3>2, ReturnedIs DEF Rested
      <4>2. s.pc = "readdir" /\ s.task = r.task /\ s.todo = r.todo
        BY <4>1 DEF Idle
      <4> QED  BY <1>1, <3>2, <4>2
    <3>3. CASE f \notin r.todo
      <4>1. r.pc \in {"open_src", "lock_src", "open_tgt"} /\ r.file = f /\ r.task.pair = p
        BY <1>1, <2>9, <3>3 DEF UnlockTarget, SourceIsGone, SourceFails, TargetFails, At
      <4>2. Report(w)
        BY <2>9, <4>1 DEF UnlockTarget, SourceIsGone, SourceFails, TargetFails, At
      <4> QED  BY <4>1, <4>2 DEF Report
    <3> QED  BY <3>2, <3>3
  <2>10. CASE Unlink(w) \/ TargetIsGone(w) \/ UnlinkFails(w)
    <3>1. r.pc = "unlink"
      BY <2>10 DEF Unlink, TargetIsGone, UnlinkFails, At
    <3> QED  BY <1>0, <1>1, <3>1 DEF Rested
  <2>11. CASE OpendirFails(w)
    <3>1. failed' = failed \cup ({r.task.pair} \X Files)
      BY <2>11 DEF OpendirFails
    <3> QED  BY <1>1, <3>1
  <2>12. CASE Dies(w)
    <3>1. failed' = failed \cup ({r.task.pair} \X
                      IF r.task.type = "FULL" THEN Files ELSE {r.file})
      BY <2>12 DEF Dies
    <3>2. CASE r.task.type = "FULL"
      BY <1>1, <3>1, <3>2
    <3>3. CASE r.task.type # "FULL"
      <4>1. r.file = f
        BY <1>0, <1>1, <3>3 DEF WellFormed, Rested
      <4> QED  BY <1>1, <3>1, <3>3, <4>1
    <3> QED  BY <3>2, <3>3
  <2> QED  BY <1>3, <2>1, <2>2, <2>3, <2>4, <2>5, <2>6, <2>7, <2>8, <2>9, <2>10, <2>11, <2>12
           DEF WorkerMove, WorkerStep, FaultStep
<1> QED  BY <1>0, <1>2, <1>3, Bystanders

-----------------------------------------------------------------------------
(***************************************************************************)
(* The worker that copies a file.                                          *)
(***************************************************************************)

(* There is one at most: it holds the lock of the source.                  *)
OneCopier ==
  \A p \in Pairs, f \in Files, v, w \in Workers :
    f \notin deleted /\ Copies(v, p, f) /\ Copies(w, p, f) => v = w

LEMMA OneCopy == MInv => OneCopier
<1> SUFFICES ASSUME MInv, NEW p \in Pairs, NEW f \in Files, NEW v \in Workers, NEW w \in Workers,
                    f \notin deleted, Copies(v, p, f), Copies(w, p, f)
             PROVE  v = w
  BY Zenon DEF OneCopier
<1>1. /\ workers[v].pc \in SrcOpen /\ workers[v].pc \in SrcLocked /\ workers[v].file = f
      /\ workers[w].pc \in SrcOpen /\ workers[w].pc \in SrcLocked /\ workers[w].file = f
      /\ Source(v) = p.source /\ Source(w) = p.source
  BY DEF Copies, SrcOpen, SrcLocked, Source
<1>2. workers[v].src = entry[p.source][f] /\ workers[w].src = entry[p.source][f]
  BY <1>1 DEF MInv, SourceNamed
<1>3. flock[workers[v].src] = <<v, "src">> /\ flock[workers[w].src] = <<w, "src">>
  BY <1>1 DEF MInv, LocksOK
<1>4. <<v, "src">> = <<w, "src">>
  BY <1>2, <1>3
<1> QED  BY <1>4

(* And so after any step.                                                  *)
LEMMA OneCopyNext ==
  ASSUME MInv', NEW p \in Pairs, NEW f \in Files, f \notin deleted',
         NEW v \in Workers, NEW w \in Workers, Copies(v, p, f)', Copies(w, p, f)'
  PROVE  v = w
<1>1. OneCopier'
  BY OneCopy, PTL
<1> QED  BY <1>1 DEF OneCopier

(* It has begun by opening the target.                                     *)
LEMMA CopyBegins ==
  ASSUME MInv, [Next]_vars, NEW w \in Workers, NEW p \in Pairs, NEW f \in Files,
         Copies(w, p, f)'
  PROVE  \/ Copies(w, p, f)
         \/ OpenTarget(w) /\ workers[w].task.pair = p /\ workers[w].file = f
<1> DEFINE r == workers[w]
           s == workers'[w]
<1>0. workers \in [Workers -> Worker] /\ r \in Worker /\ TypeOK
  BY DEF MInv, TypeOK
<1>1. s.pc \in {"lock_tgt", "read", "write"} /\ s.task.pair = p /\ s.file = f
  BY DEF Copies
<1>2. /\ s.task = r.task /\ s.file = r.file
      /\ r.pc \in TgtOpen \/ OpenTarget(w)
  BY <1>1, DescriptorSteps DEF TgtOpen
<1>3. CASE r.pc \in {"unlock_src", "unlock_tgt"}
  <2>1. WorkerMove(w)
    <3>1. s # r
      BY <1>1, <1>3
    <3> QED  BY <3>1, Bystanders
  <2>2. UnlockSource(w) \/ UnlockTarget(w) \/ Dies(w)
    <3>1. ~Start(w)
      BY <1>3 DEF Start, Idle
    <3> QED  BY <1>3, <2>1, <3>1, Zenon DEF WorkerMove, WorkerStep, FaultStep, Opendir, Readdir,
         EndOfDirectory, OpenSource, LockSource, OpenTarget, LockTarget, Read, Write, Unlink,
         SourceIsGone, TargetIsGone, OpendirFails, SourceFails, TargetFails, CopyFails,
         UnlinkFails, At
  <2>3. CASE UnlockSource(w)
    <3>1. s.pc = "unlock_tgt"
      BY <1>0, <2>3 DEF UnlockSource, Worker
    <3> QED  BY <1>1, <3>1
  <2>4. CASE UnlockTarget(w) \/ Dies(w)
    <3>1. ~Start(w)
      BY <1>3 DEF Start, Idle
    <3>2. s.pc \in {"idle", "readdir"}
      BY <1>0, <2>1, <2>4, <3>1, CallSteps
    <3> QED  BY <1>1, <3>2
  <2> QED  BY <2>2, <2>3, <2>4
<1>4. CASE r.pc \in {"lock_tgt", "read", "write"}
  BY <1>1, <1>2, <1>4 DEF Copies
<1> QED  BY <1>1, <1>2, <1>3, <1>4 DEF TgtOpen

(* Unless it fails, its next call is one of three.                         *)
LEMMA CopyGoesOn ==
  ASSUME MInv, [Next]_vars, NEW w \in Workers, NEW p \in Pairs, NEW f \in Files,
         Copies(w, p, f), <<p, f>> \notin failed'
  PROVE  workers'[w] = workers[w] \/ LockTarget(w) \/ Read(w) \/ Write(w)
<1> DEFINE r == workers[w]
<1>0. r.pc \in {"lock_tgt", "read", "write"} /\ r.task.pair = p /\ r.file = f
  BY DEF Copies
<1>1. CASE WorkerMove(w)
  <2>0. ~Start(w)
    BY <1>0 DEF Start, Idle
  <2>1. LockTarget(w) \/ Read(w) \/ Write(w) \/ TargetFails(w) \/ CopyFails(w) \/ Dies(w)
    BY <1>0, <1>1, <2>0, Zenon DEF WorkerMove, WorkerStep, FaultStep, Opendir, Readdir,
       EndOfDirectory, OpenSource, LockSource, OpenTarget, UnlockSource, UnlockTarget, Unlink,
       SourceIsGone, TargetIsGone, OpendirFails, SourceFails, UnlinkFails, At
  <2>2. CASE TargetFails(w) \/ CopyFails(w)
    BY <1>0, <2>2 DEF TargetFails, CopyFails, Report
  <2>3. CASE Dies(w)
    BY <1>0, <2>3 DEF Dies
  <2> QED  BY <2>1, <2>2, <2>3
<1> QED  BY <1>1, Bystanders

(* A chunk written behind the last one.                                    *)
LEMMA WriteAtEnd ==
  ASSUME NEW c \in Content, NEW x \in Chunk, Len(c) < MaxChunks
  PROVE  /\ Len(WriteAt(c, Len(c) + 1, x)) = Len(c) + 1
         /\ \A k \in 1 .. Len(c) : WriteAt(c, Len(c) + 1, x)[k] = c[k]
         /\ WriteAt(c, Len(c) + 1, x)[Len(c) + 1] = x
<1> DEFINE n == Len(c)
<1>1. n \in Nat
  BY ContentLength, Constants
<1> HIDE DEF n
<1>2. WriteAt(c, n + 1, x) = [k \in 1 .. n + 1 |->
         IF k = n + 1 THEN x ELSE IF k <= n THEN c[k] ELSE Hole]
  BY <1>1 DEF WriteAt, n
<1>3. Len(WriteAt(c, n + 1, x)) = n + 1
  BY <1>1, <1>2
<1>4. /\ \A k \in 1 .. n : WriteAt(c, n + 1, x)[k] = c[k]
      /\ WriteAt(c, n + 1, x)[n + 1] = x
  BY <1>1, <1>2
<1> QED  BY <1>3, <1>4 DEF n

-----------------------------------------------------------------------------
(***************************************************************************)
(* The step.                                                               *)
(***************************************************************************)

LEMMA FailedGrows ==
  ASSUME [Next]_vars
  PROVE  failed \subseteq failed'
<1>1. UNCHANGED vars \/ (\E p \in Pairs : Sync(p)) => failed \subseteq failed'
  BY Zenon DEF vars, Sync
<1>2. ASSUME NEW d \in Roots, NEW f \in Files,
             UserOpens(d, f) \/ UserWrites(d, f) \/ UserCloses(d, f) \/ UserDeletes(d, f)
      PROVE  failed \subseteq failed'
  BY <1>2 DEF UserOpens, UserWrites, UserCloses, UserDeletes
<1>3. ASSUME NEW w \in Workers, WorkerMove(w) PROVE failed \subseteq failed'
  BY <1>3, Zenon DEF WorkerMove, Start, WorkerStep, FaultStep, Opendir, Readdir, EndOfDirectory,
     OpenSource, LockSource, OpenTarget, LockTarget, Read, Write, UnlockSource, UnlockTarget,
     Unlink, SourceIsGone, TargetIsGone, OpendirFails, SourceFails, TargetFails, CopyFails,
     UnlinkFails, Dies, Report
<1> QED  BY <1>1, <1>2, <1>3, Movers

(* While nobody writes the source, it stays as it is.                      *)
LEMMA SourceRests ==
  ASSUME MInv, MInv', [Next]_vars, NEW p \in Pairs, NEW f \in Files,
         entry'[p.source][f] # NULL, ~BeingWritten(p.source, f)'
  PROVE  /\ entry'[p.source][f] = entry[p.source][f]
         /\ data'[entry'[p.source][f]] = data[entry[p.source][f]]
<1> DEFINE d == p.source
<1>1. d \in Dirs
  BY Constants
<1>2. ~(d \in Roots /\ saving'[d][f] # 0)
  BY DEF BeingWritten
<1>3. ASSUME NEW w \in Workers, Puts(w), Target(w) = d, workers[w].file = f
      PROVE  FALSE
  <2>1. /\ workers'[w].pc \in TgtOpen /\ workers'[w].task.pair.target = d
        /\ workers'[w].file = f
    BY <1>3, PutsOpen DEF Target
  <2> QED  BY <2>1 DEF BeingWritten, Target
<1>4. entry'[d][f] = entry[d][f] /\ data'[entry'[d][f]] = data[entry'[d][f]]
  BY <1>1, <1>2, <1>3, DiskSteps
<1> QED  BY <1>4

(* A file for which a worker opens the target is arriving.                 *)
LEMMA ArrivesFromOpen ==
  ASSUME KInv, MInv', [Next]_vars, NEW p \in Pairs, NEW f \in Files, Followed(p, f)',
         NEW w \in Workers, OpenTarget(w), workers[w].task.pair = p, workers[w].file = f
  PROVE  Arriving(p, f)'
<1> DEFINE s == workers'[w]
           to == data'[entry'[p.target][f]]
           from == data'[entry'[p.source][f]]
<1>0. /\ workers \in [Workers -> Worker] /\ workers[w] \in Worker /\ TypeOK /\ MInv
      /\ data' \in [Inodes -> Content] /\ NULL \notin Inodes
      /\ entry' \in [Dirs -> [Files -> Inodes \cup {NULL}]]
      /\ p.source \in Dirs /\ p.target \in Dirs
  <2>1. TypeOK'
    BY DEF MInv
  <2> QED  BY <2>1, Constants DEF KInv, MInv, TypeOK, Content
<1>1. f \notin deleted' /\ entry'[p.source][f] \in Inodes
  BY <1>0 DEF Followed
<1>2. entry'[p.target][f] \in Inodes /\ to = << >>
  <2>1. Truncate(p.target, f) \/ Create(p.target, f)
    BY DEF OpenTarget, Target
  <2> QED  BY <1>0, <2>1, OpenTouches
<1>3. s.pc = "lock_tgt" /\ s.offset = 0 /\ s.task.pair = p /\ s.file = f
  <2>1. s = [workers[w] EXCEPT !.pc = "lock_tgt", !.tgt = entry'[Target(w)][workers[w].file]]
    BY <1>0, NextCalls
  <2>2. workers[w].offset = 0
    BY DEF KInv, Rested, OpenTarget, At
  <2> QED  BY <1>0, <2>1, <2>2 DEF Worker
<1>4. Len(from) \in Nat
  BY <1>0, <1>1, ContentLength, Constants
<1> HIDE DEF from, to
<1>5. Len(to) = s.offset /\ Len(to) <= Len(from) /\ Len(to) = 0
  BY <1>2, <1>3, <1>4
<1>6. /\ OnPrefix(w, data[entry[p.source][f]], data[entry[p.target][f]])'
      /\ Copies(w, p, f)'
  <2>1. \A k \in 1 .. Len(to) : to[k] = from[k]
    BY <1>5
  <2> QED  BY <1>3, <1>5, <2>1 DEF OnPrefix, Copies, At, from, to
<1>7. \A v \in Workers : Copies(v, p, f)' => v = w
  BY <1>1, <1>6, OneCopyNext
<1>8. entry'[p.target][f] # NULL
  BY <1>0, <1>2
<1> QED  BY <1>6, <1>7, <1>8, Zenon DEF Arriving

(* Nothing becomes settled but by the opening of the target.               *)
LEMMA PendingEnds ==
  ASSUME KInv, [Next]_vars, NEW p \in Pairs, NEW f \in Files, Followed(p, f),
         <<p, f>> \notin failed', Pending(p, f), ~Pending(p, f)'
  PROVE  \E w \in Workers :
           OpenTarget(w) /\ workers[w].task.pair = p /\ workers[w].file = f
<1>0. MInv
  BY DEF KInv
<1>1. /\ ~BeingWritten(p.source, f)' /\ ~(\E t \in Range(queue') : Asks(t, p, f))
      /\ \A w \in Workers : ~WillCopy(w, p, f)'
  BY DEF Pending, Asks
<1>2. ~BeingWritten(p.source, f)
  BY <1>0, <1>1, CloseIsAnEvent
<1>3. ~(\E t \in Range(queue) : Asks(t, p, f))
  BY <1>0, <1>1, QueueKeeps, StartedWillCopy
<1>4. PICK w \in Workers : WillCopy(w, p, f)
  BY <1>2, <1>3 DEF Pending
<1>5. OpenTarget(w) /\ workers[w].file = f
  BY <1>1, <1>4, WillCopyKept
<1> QED  BY <1>4, <1>5 DEF WillCopy

(* A chunk is written, of the source as it is.                             *)
LEMMA ArrivesByWriting ==
  ASSUME KInv, MInv', [Next]_vars, NEW p \in Pairs, NEW f \in Files, Followed(p, f),
         Followed(p, f)', ~BeingWritten(p.source, f)', Arriving(p, f),
         NEW w \in Workers, Write(w), Target(w) = p.target, workers[w].file = f
  PROVE  Arriving(p, f)'
<1> DEFINE r == workers[w]
           s == workers'[w]
           j == entry[p.target][f]
           to == data[j]
           from == data[entry[p.source][f]]
           n == Len(to)
<1>0. /\ workers \in [Workers -> Worker] /\ r \in Worker /\ TypeOK /\ MInv /\ WellFormed(r)
      /\ data \in [Inodes -> Content] /\ NULL \notin Inodes
      /\ entry \in [Dirs -> [Files -> Inodes \cup {NULL}]]
      /\ p.source \in Dirs /\ p.target \in Dirs /\ TargetStays /\ MaxChunks \in Nat
  BY Constants DEF KInv, MInv, TypeOK, Content
<1>1. /\ f \notin deleted /\ f \notin deleted' /\ entry[p.source][f] \in Inodes
      /\ entry'[p.source][f] # NULL
  BY <1>0 DEF Followed
<1>2. r.pc = "write" /\ r.task.pair = p
  <2>1. r.pc = "write"
    BY DEF Write, At
  <2>2. r.task.pair \in Pairs
    BY <1>0, PutsOpen DEF Puts
  <2> QED  BY <2>1, <2>2 DEF Followed, OwnTarget, Target
<1>3. OnPrefix(w, from, to) /\ j # NULL
  BY <1>2, Zenon DEF Arriving, Copies
<1>4. /\ n = r.offset /\ n < Len(from) /\ r.buffer = from[n + 1]
      /\ \A k \in 1 .. n : to[k] = from[k]
  BY <1>2, <1>3 DEF OnPrefix, At
<1>5. r.tgt = j /\ j \in Inodes
  BY <1>0, <1>1, <1>2, <1>3 DEF TargetStays, TgtOpen
<1>6. to \in Content /\ from \in Content /\ n \in Nat /\ Len(from) \in Nat /\ n < MaxChunks
  BY <1>0, <1>1, <1>2, <1>4, <1>5, ContentLength DEF WellFormed
<1>7. s.pc = "read" /\ s.offset = n + 1 /\ s.task.pair = p /\ s.file = f
  <2>1. s = [r EXCEPT !.pc = "read", !.offset = r.offset + 1, !.buffer = Hole]
    BY <1>0, NextCalls
  <2> QED  BY <1>0, <1>2, <1>4, <2>1 DEF Worker
<1>8. data'[j] = WriteAt(to, n + 1, from[n + 1]) /\ entry'[p.target][f] = j
  <2>1. data' = [data EXCEPT ![r.tgt] = WriteAt(data[r.tgt], r.offset + 1, r.buffer)]
        /\ UNCHANGED entry
    BY DEF Write
  <2> QED  BY <1>0, <1>4, <1>5, <2>1
<1>9. data'[entry'[p.source][f]] = from
  BY <1>0, <1>1, SourceRests
<1>10. /\ Len(data'[j]) = n + 1
       /\ \A k \in 1 .. n + 1 : data'[j][k] = from[k]
  <2>1. from[n + 1] \in Chunk
    BY <1>4, <1>6, ContentLength
  <2> HIDE DEF to, from
  <2>2. /\ Len(WriteAt(to, n + 1, from[n + 1])) = n + 1
        /\ \A k \in 1 .. n : WriteAt(to, n + 1, from[n + 1])[k] = to[k]
        /\ WriteAt(to, n + 1, from[n + 1])[n + 1] = from[n + 1]
    BY <1>6, <2>1, WriteAtEnd
  <2> QED  BY <1>4, <1>6, <1>8, <2>2
<1>11. /\ OnPrefix(w, data[entry[p.source][f]], data[entry[p.target][f]])'
       /\ Copies(w, p, f)'
  <2> HIDE DEF to, from
  <2>1. n + 1 <= Len(from)
    BY <1>4, <1>6
  <2> QED  BY <1>7, <1>8, <1>9, <1>10, <2>1 DEF OnPrefix, Copies, At
<1>12. \A v \in Workers : Copies(v, p, f)' => v = w
  BY <1>1, <1>11, OneCopyNext
<1>13. entry'[p.target][f] # NULL
  BY <1>3, <1>8
<1> QED  BY <1>11, <1>12, <1>13, Zenon DEF Arriving

(* Nothing is written, and the worker that copies the file goes on or is   *)
(* through.                                                                *)
LEMMA ArrivesByReading ==
  ASSUME KInv, MInv', [Next]_vars, NEW p \in Pairs, NEW f \in Files, Followed(p, f),
         Followed(p, f)', ~BeingWritten(p.source, f)', Arriving(p, f),
         \A w \in Workers : ~(Puts(w) /\ Target(w) = p.target /\ workers[w].file = f)
  PROVE  Arriving(p, f)'
<1> DEFINE i == entry[p.source][f]
           j == entry[p.target][f]
           from == data[i]
           to == data[j]
<1>0. /\ workers \in [Workers -> Worker] /\ TypeOK /\ MInv
      /\ \A w \in Workers : workers[w] \in Worker
      /\ data \in [Inodes -> Content] /\ NULL \notin Inodes
      /\ entry \in [Dirs -> [Files -> Inodes \cup {NULL}]]
      /\ p.source \in Dirs /\ p.target \in Dirs /\ p.target \notin Roots
  BY Constants DEF KInv, MInv, TypeOK, Content, Roots
<1>1. /\ f \notin deleted /\ f \notin deleted' /\ i \in Inodes /\ entry'[p.source][f] # NULL
      /\ <<p, f>> \notin failed'
  BY <1>0 DEF Followed
<1>2. j \in Inodes /\ entry'[p.target][f] = j
  BY <1>0, <1>1, NameStays DEF Arriving
<1>3. data'[entry'[p.source][f]] = from
  BY <1>0, <1>1, SourceRests
<1>4. data'[entry'[p.target][f]] = to
  <2>1. entry'[p.target][f] # NULL
    BY <1>0, <1>2
  <2>2. data'[entry'[p.target][f]] = data[entry'[p.target][f]]
    BY <1>0, <2>1, DiskSteps
  <2> QED  BY <1>2, <2>2
<1>5. from \in Content /\ to \in Content /\ Len(from) \in Nat /\ Len(to) \in Nat
  BY <1>0, <1>1, <1>2, ContentLength, Constants
<1> HIDE DEF from, to
<1>6. ASSUME NEW w \in Workers, Copies(w, p, f)
      PROVE  /\ workers[w].pc \in {"lock_tgt", "read", "write"} /\ workers[w].task.pair = p
             /\ workers[w].file = f /\ workers[w].src = i
             /\ OnPrefix(w, from, to)
             /\ workers'[w] = workers[w] \/ LockTarget(w) \/ Read(w)
  <2>1. /\ workers[w].pc \in {"lock_tgt", "read", "write"} /\ workers[w].task.pair = p
        /\ workers[w].file = f
    BY <1>6 DEF Copies
  <2>2. workers[w].src = i
    BY <1>0, <1>1, <2>1 DEF MInv, SourceNamed, Source, SrcOpen
  <2>3. OnPrefix(w, from, to)
    BY <1>6, Zenon DEF Arriving, from, to
  <2>4. workers'[w] = workers[w] \/ LockTarget(w) \/ Read(w) \/ Write(w)
    BY <1>0, <1>1, <1>6, CopyGoesOn
  <2>5. ~Write(w)
    BY <2>1 DEF Puts, Target
  <2> QED  BY <2>1, <2>2, <2>3, <2>4, <2>5
<1>7. ASSUME NEW w \in Workers, Copies(w, p, f)'
      PROVE  OnPrefix(w, data[entry[p.source][f]], data[entry[p.target][f]])'
  <2> DEFINE r == workers[w]
             s == workers'[w]
  <2>1. Copies(w, p, f)
    <3>1. ~(OpenTarget(w) /\ workers[w].task.pair = p /\ workers[w].file = f)
      BY DEF Puts, Target
    <3> QED  BY <1>0, <1>7, <3>1, CopyBegins
  <2>2. /\ Len(to) = r.offset /\ Len(to) <= Len(from) /\ \A k \in 1 .. Len(to) : to[k] = from[k]
        /\ r.pc = "write" => Len(to) < Len(from) /\ r.buffer = from[Len(to) + 1]
    BY <1>6, <2>1 DEF OnPrefix, At
  <2>3. /\ s.offset = r.offset
        /\ s.pc = "write" => Len(to) < Len(from) /\ s.buffer = from[Len(to) + 1]
    <3>1. CASE s = r
      BY <2>2, <3>1
    <3>2. CASE LockTarget(w)
      <4>1. s = [r EXCEPT !.pc = "read"]
        BY <1>0, <3>2, NextCalls
      <4> QED  BY <1>0, <4>1 DEF Worker
    <3>3. CASE Read(w)
      <4>1. s = IF r.offset + 1 <= Len(from)
                  THEN [r EXCEPT !.pc = "write", !.buffer = from[r.offset + 1]]
                  ELSE [r EXCEPT !.pc = "unlock_src"]
        BY <1>0, <1>6, <2>1, <3>3, ReadNext DEF from
      <4>2. CASE r.offset + 1 <= Len(from)
        BY <1>0, <1>5, <2>2, <4>1, <4>2 DEF Worker
      <4>3. CASE ~(r.offset + 1 <= Len(from))
        BY <1>0, <4>1, <4>3 DEF Worker
      <4> QED  BY <4>2, <4>3
    <3> QED  BY <1>6, <2>1, <3>1, <3>2, <3>3
  <2> QED  BY <1>3, <1>4, <2>2, <2>3 DEF OnPrefix, At
<1>8. ASSUME \A w \in Workers : ~Copies(w, p, f)'
      PROVE  from = to
  <2>1. CASE \A w \in Workers : ~Copies(w, p, f)
    BY <2>1, Zenon DEF Arriving, from, to
  <2>2. ASSUME NEW w \in Workers, Copies(w, p, f)
        PROVE  from = to
    <3> DEFINE r == workers[w]
               s == workers'[w]
    <3>1. s # r
      BY <1>8, <2>2 DEF Copies
    <3>2. ~LockTarget(w)
      <4>1. ASSUME LockTarget(w) PROVE FALSE
        <5>1. s = [r EXCEPT !.pc = "read"]
          BY <1>0, <4>1, NextCalls
        <5>2. s.pc = "read" /\ s.task.pair = p /\ s.file = f
          BY <1>0, <1>6, <2>2, <5>1 DEF Worker
        <5> QED  BY <1>8, <5>2 DEF Copies
      <4> QED  BY <4>1
    <3>3. s = IF r.offset + 1 <= Len(from)
                THEN [r EXCEPT !.pc = "write", !.buffer = from[r.offset + 1]]
                ELSE [r EXCEPT !.pc = "unlock_src"]
      <4>1. Read(w) /\ r.src = i
        BY <1>6, <2>2, <3>1, <3>2
      <4> QED  BY <1>0, <4>1, ReadNext DEF from
    <3>4. ~(r.offset + 1 <= Len(from))
      <4>1. ASSUME r.offset + 1 <= Len(from) PROVE FALSE
        <5>1. s.pc = "write" /\ s.task.pair = p /\ s.file = f
          BY <1>0, <1>6, <2>2, <3>3, <4>1 DEF Worker
        <5> QED  BY <1>8, <5>1 DEF Copies
      <4> QED  BY <4>1
    <3>5. /\ Len(to) = r.offset /\ Len(to) <= Len(from)
          /\ \A k \in 1 .. Len(to) : to[k] = from[k]
      BY <1>6, <2>2 DEF OnPrefix
    <3>6. Len(to) = Len(from)
      BY <1>5, <3>4, <3>5
    <3>7. from \in [1 .. Len(from) -> Chunk] /\ to \in [1 .. Len(to) -> Chunk]
      BY <1>5, ContentLength
    <3> QED  BY <3>5, <3>6, <3>7
  <2> QED  BY <2>1, <2>2
<1>9. entry'[p.target][f] # NULL
  BY <1>0, <1>2
<1> QED  BY <1>3, <1>4, <1>7, <1>8, <1>9, Zenon DEF Arriving

LEMMA ConvergingStep ==
  ASSUME KInv, MInv', [Next]_vars
  PROVE  Converging'
<1> SUFFICES ASSUME NEW p \in Pairs, NEW f \in Files, Followed(p, f)', ~Pending(p, f)'
             PROVE  Arriving(p, f)'
  BY Zenon DEF Converging
<1>0. MInv /\ deleted \subseteq deleted' /\ failed \subseteq failed'
  BY Bystanders, FailedGrows DEF KInv
<1>1. /\ f \notin deleted' /\ <<p, f>> \notin failed' /\ entry'[p.source][f] # NULL
      /\ ~BeingWritten(p.source, f)'
  BY DEF Followed, Pending
<1>2. Followed(p, f)
  <2>1. entry'[p.source][f] = entry[p.source][f]
    BY <1>0, <1>1, SourceRests
  <2> QED  BY <1>0, <1>1, <2>1 DEF Followed
<1>3. CASE \E w \in Workers : OpenTarget(w) /\ workers[w].task.pair = p /\ workers[w].file = f
  BY <1>3, ArrivesFromOpen
<1>4. CASE ~\E w \in Workers : OpenTarget(w) /\ workers[w].task.pair = p /\ workers[w].file = f
  <2>1. Arriving(p, f)
    <3>1. ~Pending(p, f)
      BY <1>1, <1>2, <1>4, PendingEnds
    <3> QED  BY <1>2, <3>1 DEF KInv, Converging
  <2>2. CASE \E w \in Workers : Write(w) /\ Target(w) = p.target /\ workers[w].file = f
    BY <1>1, <1>2, <2>1, <2>2, ArrivesByWriting
  <2>3. CASE ~\E w \in Workers : Write(w) /\ Target(w) = p.target /\ workers[w].file = f
    <3>1. ASSUME NEW w \in Workers, OpenTarget(w), Target(w) = p.target, workers[w].file = f
          PROVE  FALSE
      <4>1. workers[w].task.pair \in Pairs
        BY <1>0, <3>1, PutsOpen DEF Puts
      <4>2. workers[w].task.pair = p
        BY <1>2, <3>1, <4>1 DEF Followed, OwnTarget, Target
      <4> QED  BY <1>4, <3>1, <4>2
    <3>2. \A w \in Workers : ~(Puts(w) /\ Target(w) = p.target /\ workers[w].file = f)
      BY <2>3, <3>1 DEF Puts
    <3> QED  BY <1>1, <1>2, <2>1, <3>2, ArrivesByReading
  <2> QED  BY <2>2, <2>3
<1> QED  BY <1>3, <1>4

-----------------------------------------------------------------------------
(***************************************************************************)
(* The theorems.                                                           *)
(***************************************************************************)

LEMMA InitialConvergence == Init => KInv
<1> SUFFICES ASSUME Init PROVE KInv
  OBVIOUS
<1>1. MInv
  BY InitialMirror
<1>2. \A w \in Workers : workers[w] = Idle
  BY DEF Init
<1>3. (\A w \in Workers : Rested(workers[w])) /\ TargetStays
  BY <1>2 DEF Rested, TargetStays, Idle, TgtOpen
<1>4. ASSUME NEW p \in Pairs, NEW f \in Files PROVE Pending(p, f)
  <2>1. PICK k \in DOMAIN Config : Config[k] = p
    BY DEF Pairs, Range
  <2> DEFINE t == [type |-> "FULL", pair |-> p, file |-> NULL]
  <2>2. k \in DOMAIN queue /\ queue[k] = t
    BY <2>1 DEF Init
  <2>3. t \in Range(queue)
    BY <2>2 DEF Range
  <2> QED  BY <2>3 DEF Pending, Asks
<1> QED  BY <1>1, <1>3, <1>4 DEF KInv, Converging

(* A file that is in a source and that nobody deleted or failed on is, at  *)
(* any time, either in the target as it is in the source, or being saved,  *)
(* or in the hands of a task or of a worker that will bring it there.      *)
THEOREM Convergence == Spec => []KInv
<1>1. Init => KInv
  BY InitialConvergence
<1>2. KInv /\ [Next]_vars => KInv'
  <2> SUFFICES ASSUME KInv, [Next]_vars PROVE KInv'
    OBVIOUS
  <2>1. MInv'
    BY TypeStep, TasksStep, SavingStep, NamesStep, LocksStep DEF MInv, KInv
  <2>2. \A w \in Workers : Rested(workers'[w])
    BY RestedStep
  <2>3. TargetStays' /\ Converging'
    BY <2>1, TargetStaysStep, ConvergingStep
  <2> QED  BY <2>1, <2>2, <2>3 DEF KInv, Rested
<1> QED  BY <1>1, <1>2, PTL DEF Spec

(* What is in the sources is in the targets, whatever else the targets     *)
(* hold: when nothing is left to do, a file that exists in the source of a *)
(* pair, that nobody deleted and no worker failed on, has the same content *)
(* in the target.                                                          *)
SourcesAreCopied ==
  Quiescent => \A p \in Pairs, f \in Files : Followed(p, f) => InSync(p, f)

LEMMA QuietIsNotPending ==
  ASSUME MInv, Quiescent, NEW p \in Pairs, NEW f \in Files
  PROVE  ~Pending(p, f) /\ \A w \in Workers : ~Copies(w, p, f)
<1>1. /\ \A w \in Workers : workers[w].pc = "idle"
      /\ Range(queue) = {} /\ \A d \in Roots, g \in Files : saving[d][g] = 0
  BY DEF Quiescent, Idle, Range
<1> QED  BY <1>1 DEF Pending, BeingWritten, WillCopy, Copies, TgtOpen

(* Every source is copied, whatever the targets hold besides: whenever     *)
(* nothing is left to do, a file of a source that nobody deleted is in the *)
(* target as it is in the source, unless a worker failed on it.            *)
THEOREM SourcesCopied == Spec => []SourcesAreCopied
<1>1. KInv => SourcesAreCopied
  <2> SUFFICES ASSUME KInv, Quiescent, NEW p \in Pairs, NEW f \in Files, Followed(p, f)
               PROVE  InSync(p, f)
    BY DEF SourcesAreCopied
  <2>1. ~Pending(p, f) /\ \A w \in Workers : ~Copies(w, p, f)
    BY QuietIsNotPending DEF KInv
  <2>2. Arriving(p, f)
    BY <2>1 DEF KInv, Converging
  <2> QED  BY <2>1, <2>2 DEF Arriving, InSync, Followed
<1> QED  BY <1>1, Convergence, PTL

(* What the targets hold besides: nothing, if they held nothing.           *)
NoStrays ==
  \A p \in Pairs, f \in Files :
    OwnTarget(p) /\ f \notin deleted /\ entry[p.target][f] # NULL => entry[p.source][f] # NULL

LEMMA StraysStep ==
  ASSUME MInv, MInv', [Next]_vars, NoStrays
  PROVE  NoStrays'
<1> SUFFICES ASSUME NEW p \in Pairs, NEW f \in Files, OwnTarget(p), f \notin deleted',
                    entry'[p.target][f] # NULL
             PROVE  entry'[p.source][f] # NULL
  BY DEF NoStrays
<1>0. /\ p.source \in Dirs /\ p.target \in Dirs /\ p.target \notin Roots
      /\ f \notin deleted /\ NULL \notin Inodes
  BY Bystanders, Constants DEF Roots
<1>1. entry[p.source][f] # NULL
  <2>1. CASE entry[p.target][f] # NULL
    BY <1>0, <2>1 DEF NoStrays
  <2>2. CASE entry[p.target][f] = NULL
    <3>1. PICK w \in Workers : Puts(w) /\ Target(w) = p.target /\ workers[w].file = f
      BY <1>0, <2>2, DiskSteps
    <3>2. workers[w].task.pair = p
      BY <3>1, PutsOpen DEF Target, OwnTarget
    <3>3. workers[w].pc \in SrcOpen
      BY <3>1 DEF Puts, OpenTarget, Write, At, SrcOpen
    <3>4. workers[w].src = entry[p.source][f] /\ workers[w].src \in Inodes
      BY <1>0, <3>1, <3>2, <3>3 DEF MInv, SourceNamed, Source, WellFormed
    <3> QED  BY <1>0, <3>4
  <2> QED  BY <2>1, <2>2
<1> QED  BY <1>0, <1>1, NameStays

(* The mirror is faithful: if the targets held nothing that the sources    *)
(* lack when the manager started, then whenever nothing is left to do, a   *)
(* file that nobody deleted is the same in the source and in the target of *)
(* its pair, or missing in both, unless a worker reported an error about   *)
(* it or was killed.                                                       *)
THEOREM MirrorIsFaithful == NoStrayFiles /\ Spec => []NothingSilentlyStale
<1>1. NoStrayFiles /\ Init => NoStrays
  <2> SUFFICES ASSUME NoStrayFiles, Init PROVE NoStrays
    OBVIOUS
  <2>1. \A d \in Dirs, f \in Files : entry[d][f] # NULL <=> <<d, f>> \in Existing
    <3>1. /\ entry = [d \in Dirs |->
                        [f \in Files |-> IF <<d, f>> \in Existing THEN <<d, f>> ELSE NULL]]
          /\ \A d \in Dirs, f \in Files : <<d, f>> # NULL
      BY Constants DEF Init, Inodes
    <3> QED  BY <3>1
  <2> QED  BY <2>1, Constants DEF NoStrayFiles, NoStrays
<1>2. MInv /\ MInv' /\ [Next]_vars /\ NoStrays => NoStrays'
  BY StraysStep
<1>3. NoStrayFiles /\ Spec => []NoStrays
  BY <1>1, <1>2, MirrorInvariant, PTL DEF Spec
<1>4. SourcesAreCopied /\ NoStrays => NothingSilentlyStale
  BY DEF SourcesAreCopied, NoStrays, NothingSilentlyStale, Followed, InSync
<1> QED  BY <1>3, <1>4, SourcesCopied, PTL

-----------------------------------------------------------------------------
(***************************************************************************)
(* The originals.                                                          *)
(***************************************************************************)

(* A worker's calls leave the files of a directory alone that is nobody's  *)
(* target: the inode it writes to is named in its target, or nowhere.      *)
LEMMA RootsKept ==
  ASSUME MInv, MInv', [Next]_vars, NEW w \in Workers, WorkerMove(w),
         NEW d \in Roots, NEW f \in Files
  PROVE  /\ entry'[d][f] = entry[d][f]
         /\ entry[d][f] # NULL => data'[entry[d][f]] = data[entry[d][f]]
<1>0. /\ TypeOK /\ OneName' /\ TargetNamed /\ d \in Dirs
      /\ entry \in [Dirs -> [Files -> Inodes \cup {NULL}]]
      /\ data \in [Inodes -> Content]
  BY Constants DEF MInv, TypeOK, Content
<1>1. CASE OpenTarget(w)
  <2>1. /\ Truncate(Target(w), workers[w].file) \/ Create(Target(w), workers[w].file)
        /\ Target(w) \in Dirs /\ Target(w) \notin Roots /\ workers[w].file \in Files
    BY <1>1, PutsOpen DEF Puts, OpenTarget
  <2>2. entry'[d][f] = entry[d][f]
    BY <1>0, <2>1, OpenTouches
  <2>3. ASSUME entry[d][f] # NULL, data'[entry[d][f]] # data[entry[d][f]]
        PROVE  FALSE
    <3>1. entry'[d][f] = entry'[Target(w)][workers[w].file]
      BY <1>0, <2>1, <2>2, <2>3, OpenTouches
    <3> QED  BY <1>0, <2>1, <2>2, <2>3, <3>1 DEF OneName
  <2> QED  BY <2>2, <2>3
<1>2. CASE Write(w)
  <2>1. /\ UNCHANGED entry /\ workers[w].pc \in TgtOpen
        /\ data' = [data EXCEPT ![workers[w].tgt] =
                      WriteAt(data[workers[w].tgt], workers[w].offset + 1, workers[w].buffer)]
    BY <1>2 DEF Write, At, TgtOpen
  <2>2. Target(w) \notin Roots
    BY <1>2, PutsOpen DEF Puts
  <2>3. entry[d][f] # workers[w].tgt
    BY <1>0, <2>1, <2>2 DEF TargetNamed
  <2> QED  BY <1>0, <2>1, <2>3
<1>3. CASE Unlink(w)
  <2>1. Target(w) \notin Roots
    <3>1. WellFormed(workers[w]) /\ workers[w].pc = "unlink"
      BY <1>3 DEF MInv, Unlink, At
    <3> QED  BY <1>0, <3>1, OnFileFacts
  <2>2. UNCHANGED data /\ entry' = [entry EXCEPT ![Target(w)][workers[w].file] = NULL]
    BY <1>3 DEF Unlink
  <2> QED  BY <1>0, <2>1, <2>2
<1>4. CASE ~OpenTarget(w) /\ ~Write(w) /\ ~Unlink(w)
  <2>1. UNCHANGED <<entry, data>>
    BY <1>4, Zenon DEF WorkerMove, Start, WorkerStep, FaultStep, Opendir, Readdir,
       EndOfDirectory, OpenSource, LockSource, LockTarget, Read, UnlockSource, UnlockTarget,
       SourceIsGone, TargetIsGone, OpendirFails, SourceFails, TargetFails, CopyFails,
       UnlinkFails, Dies, diskVars
  <2> QED  BY <2>1
<1> QED  BY <1>1, <1>2, <1>3, <1>4

(* The originals are safe: no step of a worker or of the manager changes a *)
(* file in a directory that is nobody's target, or whether it exists.      *)
THEOREM OriginalsAreSafe == Spec => OriginalsUntouched
<1> DEFINE Kept == \A d \in Roots, f \in Files :
                     /\ entry'[d][f] = entry[d][f]
                     /\ entry[d][f] # NULL => data'[entry[d][f]] = data[entry[d][f]]
<1>1. MInv /\ MInv' /\ [Next]_vars => [UserStep \/ Kept]_vars
  <2> SUFFICES ASSUME MInv, MInv', [Next]_vars, ~UserStep
               PROVE  Kept
    OBVIOUS
  <2>1. UNCHANGED vars \/ (\E p \in Pairs : Sync(p)) => UNCHANGED <<entry, data>>
    BY DEF vars, Sync, diskVars
  <2>2. UNCHANGED <<entry, data>> \/ \E w \in Workers : WorkerMove(w)
    BY <2>1, Movers DEF UserStep
  <2>3. CASE UNCHANGED <<entry, data>>
    BY <2>3
  <2>4. ASSUME NEW w \in Workers, WorkerMove(w) PROVE Kept
    BY <2>4, RootsKept
  <2> QED  BY <2>2, <2>3, <2>4
<1> QED  BY <1>1, MirrorInvariant, PTL DEF Spec, OriginalsUntouched

=============================================================================
