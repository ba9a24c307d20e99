---------------------------- MODULE SystemProofs ----------------------------
(***************************************************************************)
(* Proofs about System for every set of sources and directories, every     *)
(* configuration, worker_limit and number of commands and events.          *)
(*                                                                         *)
(* A command is a function on the part of the manager's state it changes,  *)
(* so most of the inductive invariant is stated of such a state, st, and   *)
(* shown to be kept by the functions that commands are built from; the     *)
(* rest relates it to the phase of the loop.                               *)
(***************************************************************************)
EXTENDS System, SequenceFacts, FiniteSetTheorems

InotifyEvent == [wd : Int, event : Events \cup {NULL}]

ManagerState ==
  [dirs : Seq(DirData), log : Log, queue : Seq(Task), out : Seq(Commands),
   watch : [Dirs -> Int], next_wd : Nat, ino : Seq(InotifyEvent)]

(* No source is listed twice, and the pairs can be spoken of as a set.     *)
UniqueSources(list) ==
  \A j, k \in DOMAIN list : list[j].source = list[k].source => j = k

Active(pair) == pair.status = "ACTIVE"
FullTaskOf(t, s) == t.source = s /\ t.type = "FULL"

(* A set flag has a full synchronisation in one of the two queues.         *)
FlagsBacked(st, assigned) ==
  \A pair \in Range(st.dirs) : pair.synchronizing = 1 =>
    \E t \in Range(st.queue) \cup Range(assigned) : FullTaskOf(t, pair.source)

(* The log's last word on a source is 1 only if an active pair has it.     *)
MonitoredIsActive(st) ==
  \A s \in Sources : st.log.monitored[s] = 1 =>
    \E pair \in Range(st.dirs) : pair.source = s /\ Active(pair)

(* A watch in use is that of an active pair.                               *)
WatchesListed(st) ==
  \A d \in Dirs : st.watch[d] # NoWatch =>
    \E pair \in Range(st.dirs) : pair.watch_descriptor = st.watch[d] /\ Active(pair)

(* The list knows the descriptors of the events nobody has read.           *)
PendingKnown(st) ==
  \A e \in Range(st.ino) : \E pair \in Range(st.dirs) : pair.watch_descriptor = e.wd

ListOK(st, assigned) ==
  /\ UniqueSources(st.dirs)
  /\ FlagsBacked(st, assigned)
  /\ MonitoredIsActive(st)
  /\ WatchesListed(st)
  /\ PendingKnown(st)

(* The events that are pending when a command is executed happened after   *)
(* the last poll, under the watches that are still in use.                 *)
Drained == phase = "command" \/ (phase = "responses" /\ "inotify" \notin ready)
PendingWatched(st) == \A e \in Range(st.ino) : e.wd # NoWatch /\ \E d \in Dirs : st.watch[d] = e.wd

(* The FIFO that poll found readable keeps its line until it is drained.   *)
LineWaits ==
  phase = "command" \/ (phase \in {"responses", "inotify"} /\ "fifo" \in ready) => fss_in # << >>

SInv ==
  /\ TypeOK
  /\ LineWaits
  /\ watched_dirs = NULL => exiting # NoCommand
  /\ ListAlive => ListOK(State, assigned_tasks)
  /\ ListAlive /\ Drained => PendingWatched(State)

(* The paths that are named lead to directories of their own.              *)
DistinctDirs ==
  /\ \A s \in Sources : DirOf[s] # NULL
  /\ \A r, s \in Sources : DirOf[r] = DirOf[s] => r = s

(* Under that condition: a watch has a descriptor of its own, and a pair   *)
(* has the watch of its directory while it is active.                      *)
HasOwnWatch(st, pair) ==
  IF Active(pair)
    THEN /\ st.watch[DirOf[pair.source]] = pair.watch_descriptor
         /\ pair.watch_descriptor # NoWatch
    ELSE st.watch[DirOf[pair.source]] = NoWatch

OwnWatches(st) ==
  /\ \A d \in Dirs : st.watch[d] # NoWatch => st.watch[d] < st.next_wd
  /\ \A d, e \in Dirs : st.watch[d] = st.watch[e] /\ st.watch[d] # NoWatch => d = e
  /\ \A pair \in Range(st.dirs) : HasOwnWatch(st, pair)

AInv == SInv /\ DistinctDirs /\ (ListAlive => OwnWatches(State))

-----------------------------------------------------------------------------
(***************************************************************************)
(* The directory list.                                                     *)
(***************************************************************************)

LEMMA ConstantFacts ==
  /\ DirOf \in [Sources -> Dirs \cup {NULL}] /\ Config \in Seq(Sources)
  /\ WorkerLimit \in Nat \ {0} /\ MaxCommands \in Nat /\ MaxEvents \in Nat
  /\ NoCommand = 0 /\ NoCommand \notin Commands /\ NoWatch = -1
BY ManagerAssumption DEF NoCommand, Commands, NoWatch

(* A walk of the list ends at a node with the value it looks for, or finds *)
(* none because no node has it.                                            *)
LEMMA FirstPositionFound ==
  ASSUME NEW P \in SUBSET Nat
  PROVE  /\ FirstPosition(P) # NULL => FirstPosition(P) \in P
         /\ P # {} => FirstPosition(P) # NULL
<1>1. CASE P = {}
  BY <1>1 DEF FirstPosition
<1>2. CASE P # {}
  <2>1. FirstPosition(P) \in P
    BY <1>2, FirstPositionExists DEF FirstPosition
  <2> QED  BY <2>1, NullIsNoPosition
<1> QED  BY <1>1, <1>2

LEMMA FindBySource ==
  ASSUME NEW list \in Seq(DirData), NEW s
  PROVE  LET k == findBySource(list, s)
         IN  /\ k # NULL => k \in 1 .. Len(list) /\ list[k].source = s
             /\ k = NULL <=> \A pair \in Range(list) : pair.source # s
<1> DEFINE P == {k \in DOMAIN list : list[k].source = s}
<1>1. DOMAIN list = 1 .. Len(list) /\ Len(list) \in Nat
  BY LenProperties
<1>2. P \in SUBSET Nat /\ findBySource(list, s) = FirstPosition(P)
  BY <1>1, FreedListAssumption DEF findBySource
<1> HIDE DEF P
<1>3. /\ findBySource(list, s) # NULL => findBySource(list, s) \in P
      /\ findBySource(list, s) = NULL <=> P = {}
  BY <1>2, FirstPositionFound
<1>4. P = {} <=> \A pair \in Range(list) : pair.source # s
  BY <1>1, RangeEquality DEF P
<1> QED  BY <1>1, <1>3, <1>4 DEF P

LEMMA FindByWD ==
  ASSUME NEW list \in Seq(DirData), NEW wd
  PROVE  LET k == findByWD(list, wd)
         IN  /\ k # NULL => k \in 1 .. Len(list)
             /\ k = NULL <=> \A pair \in Range(list) : pair.watch_descriptor # wd
<1> DEFINE P == {k \in DOMAIN list : list[k].watch_descriptor = wd}
<1>1. DOMAIN list = 1 .. Len(list) /\ Len(list) \in Nat
  BY LenProperties
<1>2. P \in SUBSET Nat /\ findByWD(list, wd) = FirstPosition(P)
  BY <1>1, FreedListAssumption DEF findByWD
<1> HIDE DEF P
<1>3. /\ findByWD(list, wd) # NULL => findByWD(list, wd) \in P
      /\ findByWD(list, wd) = NULL <=> P = {}
  BY <1>2, FirstPositionFound
<1>4. P = {} <=> \A pair \in Range(list) : pair.watch_descriptor # wd
  BY <1>1, RangeEquality DEF P
<1> QED  BY <1>1, <1>3, <1>4 DEF P

(* A pair that is changed is replaced, and nothing else is.                *)
LEMMA PairReplaced ==
  ASSUME NEW list \in Seq(DirData), UniqueSources(list),
         NEW k \in 1 .. Len(list), NEW pair \in DirData, pair.source = list[k].source
  PROVE  LET after == [list EXCEPT ![k] = pair]
         IN  /\ after \in Seq(DirData) /\ UniqueSources(after)
             /\ Range(after) = (Range(list) \ {list[k]}) \cup {pair}
             /\ list[k] \in Range(list) /\ list[k] \in DirData
             /\ \A p \in Range(list) \ {list[k]} : p.source # list[k].source
<1> DEFINE after == [list EXCEPT ![k] = pair]
<1>1. /\ after \in Seq(DirData) /\ Len(after) = Len(list)
      /\ \A j \in 1 .. Len(list) : after[j] = IF j = k THEN pair ELSE list[j]
  BY ExceptSeq
<1> HIDE DEF after
<1>2. DOMAIN list = 1 .. Len(list) /\ DOMAIN after = 1 .. Len(list)
  BY <1>1, LenProperties
<1>3. Range(list) = {list[j] : j \in 1 .. Len(list)}
      /\ Range(after) = {after[j] : j \in 1 .. Len(list)}
  BY <1>1, <1>2, RangeEquality
<1>4. UniqueSources(after)
  BY <1>1, <1>2 DEF UniqueSources
<1>5. Range(after) = (Range(list) \ {list[k]}) \cup {pair}
  <2>1. ASSUME NEW x \in Range(after) PROVE x = pair \/ (x \in Range(list) /\ x # list[k])
    BY <1>1, <1>2, <1>3 DEF UniqueSources
  <2>2. ASSUME NEW x, x = pair \/ (x \in Range(list) /\ x # list[k]) PROVE x \in Range(after)
    BY <1>1, <1>2, <1>3, <2>2
  <2> QED  BY <2>1, <2>2
<1>6. list[k] \in Range(list) /\ list[k] \in DirData
  BY <1>3, ElementOfSeq
<1>7. \A p \in Range(list) \ {list[k]} : p.source # list[k].source
  BY <1>2, <1>3 DEF UniqueSources
<1> QED  BY <1>1, <1>4, <1>5, <1>6, <1>7 DEF after

(* A new pair becomes the head.                                            *)
LEMMA PairInserted ==
  ASSUME NEW list \in Seq(DirData), UniqueSources(list), NEW pair \in DirData,
         \A p \in Range(list) : p.source # pair.source
  PROVE  LET after == insertDirList(list, pair)
         IN  /\ after \in Seq(DirData) /\ UniqueSources(after)
             /\ Range(after) = Range(list) \cup {pair}
             /\ 1 \in 1 .. Len(after) /\ after[1] = pair
<1> DEFINE after == insertDirList(list, pair)
<1>1. <<pair>> \in Seq(DirData) /\ Len(<<pair>>) = 1 /\ <<pair>>[1] = pair
  OBVIOUS
<1>2. /\ after \in Seq(DirData) /\ Len(after) = 1 + Len(list)
      /\ \A i \in 1 .. 1 + Len(list) :
           after[i] = IF i <= 1 THEN <<pair>>[i] ELSE list[i - 1]
  BY <1>1, ConcatProperties DEF insertDirList
<1>3. Range(after) = Range(list) \cup {pair}
  BY RangeOfPrepend DEF insertDirList
<1> HIDE DEF after
<1>4. DOMAIN list = 1 .. Len(list) /\ DOMAIN after = 1 .. 1 + Len(list) /\ Len(list) \in Nat
  BY <1>2, LenProperties
<1>5. after[1] = pair /\ \A i \in 2 .. 1 + Len(list) : i - 1 \in 1 .. Len(list) /\ after[i] = list[i - 1]
  BY <1>1, <1>2, <1>4
<1>6. \A j \in 1 .. Len(list) : list[j].source # pair.source
  BY RangeEquality
<1>7. UniqueSources(after)
  <2> SUFFICES ASSUME NEW j \in 1 .. 1 + Len(list), NEW k \in 1 .. 1 + Len(list),
                      after[j].source = after[k].source
               PROVE  j = k
    BY <1>4 DEF UniqueSources
  <2>1. CASE j = 1 \/ k = 1
    BY <1>4, <1>5, <1>6, <2>1
  <2>2. CASE j # 1 /\ k # 1
    <3>1. /\ j - 1 \in 1 .. Len(list) /\ after[j] = list[j - 1]
          /\ k - 1 \in 1 .. Len(list) /\ after[k] = list[k - 1]
      BY <1>4, <1>5, <2>2
    <3>2. j - 1 = k - 1
      BY <1>4, <3>1 DEF UniqueSources
    <3> QED  BY <3>2
  <2> QED  BY <2>1, <2>2
<1> QED  BY <1>2, <1>3, <1>4, <1>5, <1>7 DEF after

-----------------------------------------------------------------------------
(***************************************************************************)
(* What the functions that make up the commands do to the state.           *)
(***************************************************************************)

(* Two states that differ at most in what is written to fss_out.           *)
SameBut_out(r, st) ==
  /\ r.dirs = st.dirs /\ r.log = st.log /\ r.queue = st.queue
  /\ r.watch = st.watch /\ r.next_wd = st.next_wd /\ r.ino = st.ino

LEMMA ReplyEffect ==
  ASSUME NEW st \in ManagerState, NEW c \in Commands \cup {NoCommand}
  PROVE  /\ Reply(st, c) \in ManagerState /\ SameBut_out(Reply(st, c), st)
         /\ Reply(st, c).out = IF c = NoCommand THEN st.out ELSE Append(st.out, c)
<1>1. st.out \in Seq(Commands)
  BY DEF ManagerState
<1>2. c # NoCommand => Append(st.out, c) \in Seq(Commands)
  BY <1>1, AppendProperties
<1> QED  BY <1>1, <1>2 DEF Reply, ManagerState, SameBut_out

(* A new watch is put on an unwatched directory and no other watch changes.*)
LEMMA AddWatchEffect ==
  ASSUME NEW st \in ManagerState, NEW s \in Sources
  PROVE  LET w == inotify_add_watch(st, s)
         IN  /\ w \in ManagerState
             /\ w.dirs = st.dirs /\ w.log = st.log /\ w.queue = st.queue
             /\ w.out = st.out /\ w.ino = st.ino
             /\ WatchOn(st, s) \in Int
             /\ \A d \in Dirs :
                  w.watch[d] = IF d = DirOf[s] /\ DirOf[s] # NULL THEN WatchOn(st, s)
                                                                 ELSE st.watch[d]
             /\ \A d \in Dirs : st.watch[d] # NoWatch => w.watch[d] = st.watch[d]
             /\ \/ WatchOn(st, s) = st.next_wd /\ w.next_wd = st.next_wd + 1
                \/ /\ w.next_wd = st.next_wd
                   /\ IF DirOf[s] = NULL THEN WatchOn(st, s) = NoWatch
                      ELSE WatchOn(st, s) = st.watch[DirOf[s]] /\ WatchOn(st, s) # NoWatch
<1>1. st.watch \in [Dirs -> Int] /\ st.next_wd \in Nat
  BY DEF ManagerState
<1>2. DirOf[s] # NULL => DirOf[s] \in Dirs
  BY ConstantFacts
<1>3. WatchOn(st, s) \in Int
  BY <1>1, <1>2, ConstantFacts DEF WatchOn
<1>4. CASE WatchOn(st, s) = st.next_wd
  <2>1. DirOf[s] # NULL /\ DirOf[s] \in Dirs
    BY <1>1, <1>2, <1>4, ConstantFacts DEF WatchOn
  <2>2. inotify_add_watch(st, s)
          = [st EXCEPT !.watch = [st.watch EXCEPT ![DirOf[s]] = st.next_wd],
                       !.next_wd = st.next_wd + 1]
    BY <1>4 DEF inotify_add_watch, ManagerState
  <2>3. [st.watch EXCEPT ![DirOf[s]] = st.next_wd] \in [Dirs -> Int] /\ st.next_wd + 1 \in Nat
    BY <1>1, <2>1
  <2> DEFINE w == [st EXCEPT !.watch = [st.watch EXCEPT ![DirOf[s]] = st.next_wd],
                             !.next_wd = st.next_wd + 1]
  <2>4. /\ w \in ManagerState /\ w.watch = [st.watch EXCEPT ![DirOf[s]] = st.next_wd]
        /\ w.next_wd = st.next_wd + 1
        /\ w.dirs = st.dirs /\ w.log = st.log /\ w.queue = st.queue
        /\ w.out = st.out /\ w.ino = st.ino
    BY <2>3 DEF ManagerState
  <2> HIDE DEF w
  <2>5. \A d \in Dirs : w.watch[d] = IF d = DirOf[s] THEN st.next_wd ELSE st.watch[d]
    BY <1>1, <2>4
  <2>6. st.watch[DirOf[s]] # NoWatch => st.watch[DirOf[s]] = st.next_wd
    BY <1>4, <2>1 DEF WatchOn
  <2> QED  BY <1>3, <1>4, <2>1, <2>2, <2>4, <2>5, <2>6 DEF w
<1>5. CASE WatchOn(st, s) # st.next_wd
  <2>1. inotify_add_watch(st, s) = st
    BY <1>5 DEF inotify_add_watch
  <2>2. IF DirOf[s] = NULL THEN WatchOn(st, s) = NoWatch
        ELSE WatchOn(st, s) = st.watch[DirOf[s]] /\ WatchOn(st, s) # NoWatch
    BY <1>5 DEF WatchOn
  <2> QED  BY <1>3, <2>1, <2>2
<1> QED  BY <1>4, <1>5

(* sync: nothing but an answer, or the pair is active, flagged and watched *)
(* and its task is in the queue.                                           *)
SyncQueued(st, r, s, c) ==
  \E old, new \in DirData :
    /\ old \in Range(st.dirs) /\ old.source = s /\ old.synchronizing # 1
    /\ new.source = s /\ Active(new) /\ new.synchronizing = 1
    /\ UniqueSources(r.dirs) /\ Range(r.dirs) = (Range(st.dirs) \ {old}) \cup {new}
    /\ r.queue = Append(st.queue, FullTask(s, c))
    /\ r.out = st.out /\ r.log = st.log /\ r.ino = st.ino
    /\ \/ /\ Active(old) /\ new.watch_descriptor = old.watch_descriptor
          /\ r.watch = st.watch /\ r.next_wd = st.next_wd
       \/ /\ ~Active(old) /\ new.watch_descriptor = WatchOn(st, s)
          /\ r.watch = inotify_add_watch(st, s).watch
          /\ r.next_wd = inotify_add_watch(st, s).next_wd

LEMMA SyncEffect ==
  ASSUME NEW st \in ManagerState, UniqueSources(st.dirs),
         NEW s \in Sources, NEW c \in Commands \cup {NoCommand}
  PROVE  LET r == sync(st, s, c)
         IN  /\ r \in ManagerState
             /\ r = Reply(st, c) \/ SyncQueued(st, r, s, c)
<1> DEFINE k == findBySource(st.dirs, s)
           r == sync(st, s, c)
<1>1. CASE k = NULL \/ st.dirs[k].synchronizing = 1
  BY <1>1, ReplyEffect DEF sync
<1>2. CASE ~(k = NULL \/ st.dirs[k].synchronizing = 1)
  <2> DEFINE old == st.dirs[k]
             w == inotify_add_watch(st, s)
             resumed == IF old.status = "INACTIVE"
                          THEN [w EXCEPT !.dirs[k].watch_descriptor = WatchOn(st, s),
                                         !.dirs[k].status = "ACTIVE"]
                          ELSE st
             new == IF old.status = "INACTIVE"
                      THEN [old EXCEPT !.watch_descriptor = WatchOn(st, s),
                                       !.status = "ACTIVE", !.synchronizing = 1]
                      ELSE [old EXCEPT !.synchronizing = 1]
  <2>1. /\ st.dirs \in Seq(DirData) /\ st.queue \in Seq(Task)
        /\ k \in 1 .. Len(st.dirs) /\ old.source = s
    <3>1. st.dirs \in Seq(DirData) /\ st.queue \in Seq(Task)
      BY DEF ManagerState
    <3> QED  BY <1>2, <3>1, FindBySource
  <2>2. old \in DirData /\ DOMAIN st.dirs = 1 .. Len(st.dirs)
    BY <2>1, ElementOfSeq, LenProperties
  <2>3. /\ new \in DirData /\ new.source = s /\ Active(new) /\ new.synchronizing = 1
        /\ new.watch_descriptor = IF old.status = "INACTIVE" THEN WatchOn(st, s)
                                  ELSE old.watch_descriptor
    BY <2>1, <2>2, AddWatchEffect DEF DirData, Active
  <2>4. r = [resumed EXCEPT !.queue = Append(@, FullTask(s, c)),
                            !.dirs[k].synchronizing = 1]
    BY <1>2 DEF sync
  <2>5. /\ w \in ManagerState
        /\ w.dirs = st.dirs /\ w.log = st.log /\ w.queue = st.queue
        /\ w.out = st.out /\ w.ino = st.ino
    BY AddWatchEffect
  <2>6. Append(st.queue, FullTask(s, c)) \in Seq(Task)
    <3>1. FullTask(s, c) \in Task
      BY DEF FullTask, Task
    <3> QED  BY <2>1, <3>1, AppendProperties
  <2>7. [st.dirs EXCEPT ![k] = new] \in Seq(DirData)
    BY <2>1, <2>3, ExceptSeq
  <2> HIDE DEF k, w
  <2>8. ASSUME old.status = "INACTIVE"
        PROVE  /\ r \in ManagerState /\ r.dirs = [st.dirs EXCEPT ![k] = new]
               /\ r.queue = Append(st.queue, FullTask(s, c))
               /\ r.out = st.out /\ r.log = st.log /\ r.ino = st.ino
               /\ r.watch = w.watch /\ r.next_wd = w.next_wd
    <3>1. [old EXCEPT !.watch_descriptor = WatchOn(st, s)] \in DirData
      BY <2>2, AddWatchEffect DEF DirData
    <3>2. resumed = [w EXCEPT !.dirs = [st.dirs EXCEPT ![k] =
                       [old EXCEPT !.watch_descriptor = WatchOn(st, s), !.status = "ACTIVE"]]]
      BY <2>2, <2>1, <2>5, <2>8 DEF ManagerState
    <3> DEFINE mid == [old EXCEPT !.watch_descriptor = WatchOn(st, s), !.status = "ACTIVE"]
               middirs == [st.dirs EXCEPT ![k] = mid]
    <3>3. mid \in DirData /\ [mid EXCEPT !.synchronizing = 1] = new
      BY <2>2, <2>8, AddWatchEffect DEF DirData
    <3>4. middirs \in Seq(DirData) /\ middirs[k] = mid /\ resumed.dirs = middirs
          /\ DOMAIN middirs = DOMAIN st.dirs
      <4>1. middirs \in Seq(DirData) /\ middirs[k] = mid /\ Len(middirs) = Len(st.dirs)
        BY <2>1, <3>3, ExceptSeq
      <4>2. DOMAIN middirs = DOMAIN st.dirs
        BY <2>1, <2>2
      <4>3. resumed.dirs = middirs
        BY <2>5, <3>2 DEF ManagerState
      <4> QED  BY <4>1, <4>2, <4>3
    <3>5. [middirs EXCEPT ![k].synchronizing = 1] = [st.dirs EXCEPT ![k] = new]
      BY <2>1, <2>2, <3>3, <3>4
    <3>6. resumed \in ManagerState /\ resumed.queue = st.queue /\ resumed.out = st.out
          /\ resumed.log = st.log /\ resumed.ino = st.ino
          /\ resumed.watch = w.watch /\ resumed.next_wd = w.next_wd
      BY <2>5, <3>2, <3>4 DEF ManagerState
    <3> HIDE DEF resumed, mid, middirs, new, old
    <3>7. r = [resumed EXCEPT !.queue = Append(st.queue, FullTask(s, c)),
                              !.dirs = [st.dirs EXCEPT ![k] = new]]
      BY <2>4, <3>4, <3>5, <3>6 DEF ManagerState
    <3> HIDE DEF r
    <3>8. /\ r \in ManagerState /\ r.dirs = [st.dirs EXCEPT ![k] = new]
          /\ r.queue = Append(st.queue, FullTask(s, c))
          /\ r.out = st.out /\ r.log = st.log /\ r.ino = st.ino
          /\ r.watch = w.watch /\ r.next_wd = w.next_wd
      BY <2>6, <2>7, <3>6, <3>7 DEF ManagerState
    <3> QED  BY <2>8, <3>8 DEF r
  <2>9. ASSUME old.status # "INACTIVE"
        PROVE  /\ r \in ManagerState /\ r.dirs = [st.dirs EXCEPT ![k] = new]
               /\ r.queue = Append(st.queue, FullTask(s, c))
               /\ r.out = st.out /\ r.log = st.log /\ r.ino = st.ino
               /\ r.watch = st.watch /\ r.next_wd = st.next_wd
    <3>1. [st.dirs EXCEPT ![k].synchronizing = 1] = [st.dirs EXCEPT ![k] = new]
      BY <2>1, <2>2, <2>9
    <3>2. r = [st EXCEPT !.queue = Append(st.queue, FullTask(s, c)),
                         !.dirs = [st.dirs EXCEPT ![k] = new]]
      BY <2>4, <2>9, <3>1 DEF ManagerState
    <3> HIDE DEF resumed, new, old, r
    <3> QED  BY <2>6, <2>7, <3>2 DEF ManagerState
  <2>10. /\ r \in ManagerState /\ r.dirs = [st.dirs EXCEPT ![k] = new]
         /\ r.queue = Append(st.queue, FullTask(s, c))
         /\ r.out = st.out /\ r.log = st.log /\ r.ino = st.ino
         /\ IF old.status = "INACTIVE" THEN r.watch = w.watch /\ r.next_wd = w.next_wd
                                       ELSE r.watch = st.watch /\ r.next_wd = st.next_wd
    BY <2>8, <2>9
  <2> HIDE DEF r, resumed, new, old
  <2>11. /\ UniqueSources(r.dirs) /\ old \in Range(st.dirs)
         /\ Range(r.dirs) = (Range(st.dirs) \ {old}) \cup {new}
    <3>1. new.source = st.dirs[k].source
      BY <2>1, <2>3 DEF old
    <3>2. LET after == [st.dirs EXCEPT ![k] = new]
          IN  /\ UniqueSources(after) /\ Range(after) = (Range(st.dirs) \ {st.dirs[k]}) \cup {new}
              /\ st.dirs[k] \in Range(st.dirs)
      BY <2>1, <2>3, <3>1, PairReplaced
    <3> QED  BY <2>10, <3>2 DEF old
  <2>12. old.synchronizing # 1 /\ (Active(old) <=> old.status # "INACTIVE")
    BY <1>2, <2>2 DEF old, k, Active, DirData
  <2> QED  BY <2>1, <2>2, <2>3, <2>10, <2>11, <2>12 DEF SyncQueued, w, r
<1> QED  BY <1>1, <1>2

(* The pair add inserts, before its first synchronisation.                 *)
NewPair(st, s) ==
  [source |-> s, watch_descriptor |-> WatchOn(st, s), status |-> "ACTIVE", synchronizing |-> 0]
Added(st, s) ==
  [inotify_add_watch(st, s) EXCEPT !.dirs = insertDirList(@, NewPair(st, s)),
                                   !.log = MonitoringStarted(@, s)]

LEMMA AddIsInsertThenSync ==
  ASSUME NEW st, NEW s, NEW c
  PROVE  add(st, s, c) = IF findBySource(st.dirs, s) # NULL THEN Reply(st, c)
                         ELSE sync(Reply(Added(st, s), c), s, NoCommand)
BY DEF add, Added, NewPair

LEMMA LogChanges ==
  ASSUME NEW l \in Log, NEW s \in Sources
  PROVE  /\ MonitoringStarted(l, s) \in Log /\ MonitoringStopped(l, s) \in Log
         /\ TaskCompleted(l, s) \in Log
         /\ MonitoringStarted(l, s).monitored[s] = 1
         /\ MonitoringStopped(l, s).monitored[s] = 0
         /\ TaskCompleted(l, s).monitored = l.monitored
         /\ \A r \in Sources \ {s} :
              /\ MonitoringStarted(l, s).monitored[r] = l.monitored[r]
              /\ MonitoringStopped(l, s).monitored[r] = l.monitored[r]
<1> USE DEF Log, MonitoringStarted, MonitoringStopped, TaskCompleted, Unset
<1>1. l.monitored \in [Sources -> {-1, 0, 1}] /\ l.last_entry \in SUBSET Sources
  OBVIOUS
<1>2. [l.monitored EXCEPT ![s] = 1] \in [Sources -> {-1, 0, 1}]
      /\ [l.monitored EXCEPT ![s] = 0] \in [Sources -> {-1, 0, 1}]
  BY <1>1
<1>3. /\ MonitoringStarted(l, s) \in Log /\ MonitoringStopped(l, s) \in Log
      /\ MonitoringStarted(l, s).monitored = [l.monitored EXCEPT ![s] = 1]
      /\ MonitoringStopped(l, s).monitored = [l.monitored EXCEPT ![s] = 0]
  BY <1>1, <1>2
<1>4. TaskCompleted(l, s) \in Log /\ TaskCompleted(l, s).monitored = l.monitored
  BY <1>1
<1> QED  BY <1>1, <1>3, <1>4

LEMMA AddedEffect ==
  ASSUME NEW st \in ManagerState, UniqueSources(st.dirs),
         NEW s \in Sources, findBySource(st.dirs, s) = NULL
  PROVE  LET r == Added(st, s)
             w == inotify_add_watch(st, s)
         IN  /\ r \in ManagerState /\ UniqueSources(r.dirs)
             /\ \A pair \in Range(st.dirs) : pair.source # s
             /\ Range(r.dirs) = Range(st.dirs) \cup {NewPair(st, s)}
             /\ r.log = MonitoringStarted(st.log, s)
             /\ r.queue = st.queue /\ r.out = st.out /\ r.ino = st.ino
             /\ r.watch = w.watch /\ r.next_wd = w.next_wd
<1> DEFINE r == Added(st, s)
           w == inotify_add_watch(st, s)
           list == insertDirList(st.dirs, NewPair(st, s))
<1>1. /\ w \in ManagerState /\ WatchOn(st, s) \in Int
      /\ w.dirs = st.dirs /\ w.log = st.log /\ w.queue = st.queue
      /\ w.out = st.out /\ w.ino = st.ino
  BY AddWatchEffect
<1>2. st.dirs \in Seq(DirData) /\ st.log \in Log
  BY DEF ManagerState
<1>3. NewPair(st, s) \in DirData /\ NewPair(st, s).source = s
  BY <1>1 DEF NewPair, DirData
<1>4. \A pair \in Range(st.dirs) : pair.source # s
  BY <1>2, FindBySource
<1>5. /\ list \in Seq(DirData) /\ UniqueSources(list)
      /\ Range(list) = Range(st.dirs) \cup {NewPair(st, s)}
  BY <1>2, <1>3, <1>4, PairInserted
<1>6. MonitoringStarted(st.log, s) \in Log
  BY <1>2, LogChanges
<1> HIDE DEF w, list
<1>7. r = [w EXCEPT !.dirs = list, !.log = MonitoringStarted(st.log, s)]
  BY <1>1 DEF Added, w, list, ManagerState
<1> HIDE DEF r
<1>8. /\ r \in ManagerState /\ r.dirs = list /\ r.log = MonitoringStarted(st.log, s)
      /\ r.queue = w.queue /\ r.out = w.out /\ r.ino = w.ino
      /\ r.watch = w.watch /\ r.next_wd = w.next_wd
  BY <1>1, <1>5, <1>6, <1>7 DEF ManagerState
<1> QED  BY <1>1, <1>4, <1>5, <1>8 DEF r, w

(* A watch that is removed leaves an IN_IGNORED behind.                    *)
LEMMA RemoveWatchEffect ==
  ASSUME NEW st \in ManagerState, NEW wd \in Int
  PROVE  LET r == inotify_rm_watch(st, wd)
         IN  /\ r \in ManagerState
             /\ r.dirs = st.dirs /\ r.log = st.log /\ r.queue = st.queue
             /\ r.out = st.out /\ r.next_wd = st.next_wd
             /\ \A d \in Dirs : r.watch[d] = IF st.watch[d] = wd THEN NoWatch ELSE st.watch[d]
             /\ \A e \in Range(r.ino) : e \in Range(st.ino) \/ e.wd = wd
<1> DEFINE r == inotify_rm_watch(st, wd)
           watch1 == [d \in Dirs |-> IF st.watch[d] = wd THEN NoWatch ELSE st.watch[d]]
           ignored == [wd |-> wd, event |-> NULL]
<1>1. st.watch \in [Dirs -> Int] /\ st.ino \in Seq(InotifyEvent)
  BY DEF ManagerState
<1>2. CASE \E d \in Dirs : st.watch[d] = wd /\ wd # NoWatch
  <2>1. r = [st EXCEPT !.watch = watch1, !.ino = Append(st.ino, ignored)]
    BY <1>2 DEF inotify_rm_watch, ManagerState
  <2>2. /\ watch1 \in [Dirs -> Int]
        /\ \A d \in Dirs : watch1[d] = IF st.watch[d] = wd THEN NoWatch ELSE st.watch[d]
    BY <1>1, ConstantFacts
  <2>3. ignored \in InotifyEvent
    BY DEF InotifyEvent
  <2>4. /\ Append(st.ino, ignored) \in Seq(InotifyEvent)
        /\ Range(Append(st.ino, ignored)) = Range(st.ino) \cup {ignored}
    BY <1>1, <2>3, AppendProperties, RangeOfAppend
  <2>5. ignored.wd = wd
    OBVIOUS
  <2> HIDE DEF r, watch1, ignored
  <2>6. /\ r \in ManagerState /\ r.watch = watch1 /\ r.ino = Append(st.ino, ignored)
        /\ r.dirs = st.dirs /\ r.log = st.log /\ r.queue = st.queue
        /\ r.out = st.out /\ r.next_wd = st.next_wd
    BY <2>1, <2>2, <2>4 DEF ManagerState
  <2> QED  BY <2>2, <2>4, <2>5, <2>6 DEF r
<1>3. CASE ~(\E d \in Dirs : st.watch[d] = wd /\ wd # NoWatch)
  BY <1>3 DEF inotify_rm_watch
<1> QED  BY <1>2, <1>3

(* cancel: nothing but an answer, or an active pair becomes inactive, with *)
(* its flag cleared and its watch removed.                                 *)
Cancelled(st, r, s) ==
  \E old, new \in DirData :
    /\ old \in Range(st.dirs) /\ old.source = s /\ Active(old)
    /\ new.source = s /\ ~Active(new) /\ new.synchronizing = 0
    /\ new.watch_descriptor = old.watch_descriptor
    /\ UniqueSources(r.dirs) /\ Range(r.dirs) = (Range(st.dirs) \ {old}) \cup {new}
    /\ r.log = MonitoringStopped(st.log, s)
    /\ r.queue = st.queue /\ r.next_wd = st.next_wd
    /\ r.watch = inotify_rm_watch(st, old.watch_descriptor).watch
    /\ r.ino = inotify_rm_watch(st, old.watch_descriptor).ino

LEMMA CancelEffect ==
  ASSUME NEW st \in ManagerState, UniqueSources(st.dirs),
         NEW s \in Sources, NEW c \in Commands \cup {NoCommand}
  PROVE  LET r == cancel(st, s, c)
         IN  /\ r \in ManagerState
             /\ r = Reply(st, c) \/ Cancelled(st, r, s)
             /\ r.queue = st.queue /\ r.out = Reply(st, c).out
<1> DEFINE k == findBySource(st.dirs, s)
           r == cancel(st, s, c)
<1>1. CASE k = NULL \/ st.dirs[k].status = "INACTIVE"
  BY <1>1, ReplyEffect DEF cancel, SameBut_out
<1>2. CASE ~(k = NULL \/ st.dirs[k].status = "INACTIVE")
  <2> DEFINE old == st.dirs[k]
             w == inotify_rm_watch(st, old.watch_descriptor)
             new == [old EXCEPT !.status = "INACTIVE", !.synchronizing = 0]
             list == [st.dirs EXCEPT ![k] = new]
             before == [w EXCEPT !.dirs[k].status = "INACTIVE", !.dirs[k].synchronizing = 0,
                                 !.log = MonitoringStopped(@, s)]
  <2>1. /\ st.dirs \in Seq(DirData) /\ st.log \in Log
        /\ k \in 1 .. Len(st.dirs) /\ old.source = s
    <3>1. st.dirs \in Seq(DirData) /\ st.log \in Log
      BY DEF ManagerState
    <3> QED  BY <1>2, <3>1, FindBySource
  <2>2. old \in DirData /\ DOMAIN st.dirs = 1 .. Len(st.dirs)
    BY <2>1, ElementOfSeq, LenProperties
  <2>3. /\ new \in DirData /\ new.source = s /\ ~Active(new) /\ new.synchronizing = 0
        /\ new.watch_descriptor = old.watch_descriptor
    BY <2>1, <2>2 DEF DirData, Active
  <2>4. old.watch_descriptor \in Int /\ Active(old)
    BY <1>2, <2>2 DEF DirData, Active
  <2>5. /\ w \in ManagerState /\ w.dirs = st.dirs /\ w.log = st.log
        /\ w.queue = st.queue /\ w.out = st.out /\ w.next_wd = st.next_wd
    BY <2>4, RemoveWatchEffect
  <2>6. list \in Seq(DirData) /\ MonitoringStopped(st.log, s) \in Log
    BY <2>1, <2>3, ExceptSeq, LogChanges
  <2>7. r = Reply(before, c)
    BY <1>2 DEF cancel
  <2> HIDE DEF k, w
  <2>8. before = [w EXCEPT !.dirs = list, !.log = MonitoringStopped(st.log, s)]
    <3> DEFINE mid == [old EXCEPT !.status = "INACTIVE"]
    <3>1. [mid EXCEPT !.synchronizing = 0] = new
      BY <2>2 DEF DirData
    <3> HIDE DEF mid, new
    <3>2. [[st.dirs EXCEPT ![k] = mid] EXCEPT ![k].synchronizing = 0] = list
      BY <2>1, <2>2, <3>1
    <3> QED  BY <2>1, <2>2, <2>5, <3>2 DEF ManagerState, mid
  <2> HIDE DEF before, list, new, old
  <2>9. /\ before \in ManagerState /\ before.dirs = list
        /\ before.log = MonitoringStopped(st.log, s)
        /\ before.queue = w.queue /\ before.next_wd = w.next_wd
        /\ before.watch = w.watch /\ before.ino = w.ino /\ before.out = w.out
    BY <2>5, <2>6, <2>8 DEF ManagerState
  <2>10. /\ r \in ManagerState /\ r.dirs = list
         /\ r.log = MonitoringStopped(st.log, s)
         /\ r.queue = st.queue /\ r.next_wd = st.next_wd
         /\ r.watch = w.watch /\ r.ino = w.ino /\ r.out = Reply(st, c).out
    BY <2>5, <2>7, <2>9, ReplyEffect DEF SameBut_out
  <2>11. /\ UniqueSources(list) /\ old \in Range(st.dirs)
         /\ Range(list) = (Range(st.dirs) \ {old}) \cup {new}
    <3>1. new.source = st.dirs[k].source
      BY <2>1, <2>3 DEF old
    <3>2. LET after == [st.dirs EXCEPT ![k] = new]
          IN  /\ UniqueSources(after) /\ Range(after) = (Range(st.dirs) \ {st.dirs[k]}) \cup {new}
              /\ st.dirs[k] \in Range(st.dirs)
      BY <2>1, <2>3, <3>1, PairReplaced
    <3> QED  BY <3>2 DEF old, list
  <2> HIDE DEF r
  <2>12. Cancelled(st, r, s)
    BY <2>1, <2>2, <2>3, <2>4, <2>10, <2>11 DEF Cancelled, w
  <2> QED  BY <2>10, <2>12 DEF r
<1> QED  BY <1>1, <1>2

-----------------------------------------------------------------------------
(***************************************************************************)
(* Commands keep the facts about the list.                                 *)
(***************************************************************************)

LEMMA AnswerKeepsList ==
  ASSUME NEW st, NEW r, NEW assigned, SameBut_out(r, st)
  PROVE  /\ ListOK(st, assigned) => ListOK(r, assigned)
         /\ PendingWatched(st) => PendingWatched(r)
         /\ OwnWatches(st) => OwnWatches(r)
BY DEF SameBut_out, ListOK, FlagsBacked, MonitoredIsActive, WatchesListed, PendingKnown,
       PendingWatched, OwnWatches, HasOwnWatch

LEMMA SyncKeepsList ==
  ASSUME NEW st \in ManagerState, NEW assigned, ListOK(st, assigned), PendingWatched(st),
         NEW s \in Sources, NEW c \in Commands \cup {NoCommand}
  PROVE  sync(st, s, c) \in ManagerState /\ ListOK(sync(st, s, c), assigned)
<1> DEFINE r == sync(st, s, c)
           w == inotify_add_watch(st, s)
<1>1. r \in ManagerState /\ (r = Reply(st, c) \/ SyncQueued(st, r, s, c))
  BY SyncEffect DEF ListOK
<1>2. CASE r = Reply(st, c)
  BY <1>1, <1>2, ReplyEffect, AnswerKeepsList
<1>3. CASE SyncQueued(st, r, s, c)
  <2> HIDE DEF r
  <2>1. PICK old, new \in DirData :
          /\ old \in Range(st.dirs) /\ old.source = s /\ old.synchronizing # 1
          /\ new.source = s /\ Active(new) /\ new.synchronizing = 1
          /\ UniqueSources(r.dirs) /\ Range(r.dirs) = (Range(st.dirs) \ {old}) \cup {new}
          /\ r.queue = Append(st.queue, FullTask(s, c))
          /\ r.log = st.log /\ r.ino = st.ino
          /\ \/ /\ Active(old) /\ new.watch_descriptor = old.watch_descriptor
                /\ r.watch = st.watch
             \/ /\ ~Active(old) /\ new.watch_descriptor = WatchOn(st, s)
                /\ r.watch = w.watch
    BY <1>3 DEF SyncQueued
  <2>2. \A d \in Dirs : w.watch[d] = IF d = DirOf[s] /\ DirOf[s] # NULL THEN WatchOn(st, s)
                                                                     ELSE st.watch[d]
    BY AddWatchEffect
  <2> HIDE DEF w
  <2>3. Range(r.queue) = Range(st.queue) \cup {FullTask(s, c)}
        /\ FullTaskOf(FullTask(s, c), s)
    <3>1. FullTask(s, c) \in Task /\ st.queue \in Seq(Task)
      BY DEF FullTask, Task, ManagerState
    <3>2. Range(Append(st.queue, FullTask(s, c))) = Range(st.queue) \cup {FullTask(s, c)}
      BY <3>1, RangeOfAppend
    <3>3. FullTaskOf(FullTask(s, c), s)
      BY DEF FullTaskOf, FullTask
    <3> QED  BY <2>1, <3>2, <3>3
  <2>4. FlagsBacked(r, assigned)
    BY <2>1, <2>3 DEF FlagsBacked, ListOK
  <2>5. MonitoredIsActive(r)
    BY <2>1 DEF MonitoredIsActive, ListOK
  <2>6. WatchesListed(r)
    BY <2>1, <2>2 DEF WatchesListed, ListOK
  <2>7. PendingKnown(r)
    BY <2>1 DEF PendingKnown, PendingWatched, WatchesListed, ListOK
  <2> QED  BY <1>1, <2>1, <2>4, <2>5, <2>6, <2>7 DEF ListOK, r
<1> QED  BY <1>1, <1>2, <1>3

LEMMA AddKeepsList ==
  ASSUME NEW st \in ManagerState, NEW assigned, ListOK(st, assigned), PendingWatched(st),
         NEW s \in Sources, NEW c \in Commands \cup {NoCommand}
  PROVE  add(st, s, c) \in ManagerState /\ ListOK(add(st, s, c), assigned)
<1>1. CASE findBySource(st.dirs, s) # NULL
  BY <1>1, AddIsInsertThenSync, ReplyEffect, AnswerKeepsList
<1>2. CASE findBySource(st.dirs, s) = NULL
  <2> DEFINE r == Added(st, s)
             w == inotify_add_watch(st, s)
             new == NewPair(st, s)
  <2>1. /\ r \in ManagerState /\ UniqueSources(r.dirs)
        /\ Range(r.dirs) = Range(st.dirs) \cup {new}
        /\ r.log = MonitoringStarted(st.log, s)
        /\ r.queue = st.queue /\ r.ino = st.ino /\ r.watch = w.watch
    BY <1>2, AddedEffect DEF ListOK
  <2>2. /\ new.source = s /\ new.watch_descriptor = WatchOn(st, s)
        /\ Active(new) /\ new.synchronizing = 0
    BY DEF NewPair, Active
  <2>3. /\ \A d \in Dirs : w.watch[d] = IF d = DirOf[s] /\ DirOf[s] # NULL THEN WatchOn(st, s)
                                                                        ELSE st.watch[d]
        /\ \A d \in Dirs : st.watch[d] # NoWatch => w.watch[d] = st.watch[d]
    BY AddWatchEffect
  <2>4. \A q \in Sources \ {s} : r.log.monitored[q] = st.log.monitored[q]
    <3>1. st.log \in Log
      BY DEF ManagerState
    <3>2. \A q \in Sources \ {s} :
            MonitoringStarted(st.log, s).monitored[q] = st.log.monitored[q]
      BY <3>1, LogChanges
    <3> QED  BY <2>1, <3>2
  <2> HIDE DEF r, w, new
  <2>5. FlagsBacked(r, assigned)
    BY <2>1, <2>2 DEF FlagsBacked, ListOK
  <2>6. MonitoredIsActive(r)
    BY <2>1, <2>2, <2>4 DEF MonitoredIsActive, ListOK
  <2>7. WatchesListed(r)
    BY <2>1, <2>2, <2>3 DEF WatchesListed, ListOK
  <2>8. PendingKnown(r)
    BY <2>1 DEF PendingKnown, ListOK
  <2>9. PendingWatched(r)
    BY <2>1, <2>3 DEF PendingWatched
  <2>10. ListOK(r, assigned)
    BY <2>1, <2>5, <2>6, <2>7, <2>8 DEF ListOK
  <2>11. /\ Reply(r, c) \in ManagerState
         /\ ListOK(Reply(r, c), assigned) /\ PendingWatched(Reply(r, c))
    BY <2>1, <2>9, <2>10, ReplyEffect, AnswerKeepsList
  <2>12. add(st, s, c) = sync(Reply(r, c), s, NoCommand)
    BY <1>2, AddIsInsertThenSync DEF r
  <2> QED  BY <2>11, <2>12, SyncKeepsList
<1> QED  BY <1>1, <1>2

LEMMA CancelKeepsList ==
  ASSUME NEW st \in ManagerState, NEW assigned, ListOK(st, assigned),
         NEW s \in Sources, NEW c \in Commands \cup {NoCommand}
  PROVE  cancel(st, s, c) \in ManagerState /\ ListOK(cancel(st, s, c), assigned)
<1> DEFINE r == cancel(st, s, c)
<1>1. r \in ManagerState /\ (r = Reply(st, c) \/ Cancelled(st, r, s))
  BY CancelEffect DEF ListOK
<1>2. CASE r = Reply(st, c)
  BY <1>1, <1>2, ReplyEffect, AnswerKeepsList
<1>3. CASE Cancelled(st, r, s)
  <2> HIDE DEF r
  <2>1. PICK old, new \in DirData :
          /\ old \in Range(st.dirs) /\ old.source = s /\ Active(old)
          /\ new.source = s /\ ~Active(new) /\ new.synchronizing = 0
          /\ new.watch_descriptor = old.watch_descriptor
          /\ UniqueSources(r.dirs) /\ Range(r.dirs) = (Range(st.dirs) \ {old}) \cup {new}
          /\ r.log = MonitoringStopped(st.log, s) /\ r.queue = st.queue
          /\ r.watch = inotify_rm_watch(st, old.watch_descriptor).watch
          /\ r.ino = inotify_rm_watch(st, old.watch_descriptor).ino
    BY <1>3 DEF Cancelled
  <2>2. old.watch_descriptor \in Int
    BY DEF DirData
  <2>3. /\ \A d \in Dirs : r.watch[d] = IF st.watch[d] = old.watch_descriptor THEN NoWatch
                                        ELSE st.watch[d]
        /\ \A e \in Range(r.ino) : e \in Range(st.ino) \/ e.wd = old.watch_descriptor
    BY <2>1, <2>2, RemoveWatchEffect
  <2>4. r.log.monitored[s] = 0 /\ \A q \in Sources \ {s} : r.log.monitored[q] = st.log.monitored[q]
    BY <2>1, LogChanges DEF ManagerState
  <2>5. FlagsBacked(r, assigned)
    BY <2>1 DEF FlagsBacked, ListOK
  <2>6. MonitoredIsActive(r)
    BY <2>1, <2>4 DEF MonitoredIsActive, ListOK
  <2>7. WatchesListed(r)
    BY <2>1, <2>3 DEF WatchesListed, ListOK
  <2>8. PendingKnown(r)
    BY <2>1, <2>3 DEF PendingKnown, ListOK
  <2> QED  BY <1>1, <2>1, <2>5, <2>6, <2>7, <2>8 DEF ListOK, r
<1> QED  BY <1>1, <1>2, <1>3

(* Every command but shutdown.                                             *)
LEMMA CommandKeepsList ==
  ASSUME NEW st \in ManagerState, NEW assigned, ListOK(st, assigned), PendingWatched(st),
         NEW c \in Command, c.op # "shutdown"
  PROVE  /\ execute_command(st, c) \in ManagerState
         /\ ListOK(execute_command(st, c), assigned)
<1>1. c.op \in Ops /\ c.src \in Sources /\ c.id \in Commands \cup {NoCommand}
  BY DEF Command
<1>2. CASE c.op = "sync"
  BY <1>1, <1>2, SyncKeepsList DEF execute_command
<1>3. CASE c.op = "add"
  BY <1>1, <1>3, AddKeepsList DEF execute_command
<1>4. CASE c.op = "cancel"
  BY <1>1, <1>4, CancelKeepsList DEF execute_command
<1>5. CASE c.op = "blank"
  BY <1>1, <1>5 DEF execute_command
<1>6. CASE c.op \in {"status", "bad"}
  <2>1. execute_command(st, c) = Reply(st, c.id)
    BY <1>6 DEF execute_command
  <2> QED  BY <1>1, <2>1, ReplyEffect, AnswerKeepsList
<1> QED  BY <1>1, <1>2, <1>3, <1>4, <1>5, <1>6 DEF Ops

-----------------------------------------------------------------------------
(***************************************************************************)
(* What the steps of the loop do to the queues.                            *)
(***************************************************************************)

LEMMA StateFields ==
  /\ State.dirs = watched_dirs /\ State.log = log /\ State.queue = task_queue
  /\ State.out = fss_out /\ State.watch = watch /\ State.next_wd = next_wd
  /\ State.ino = ino_queue
BY DEF State

LEMMA StateTyped == TypeOK /\ watched_dirs # NULL => State \in ManagerState
BY DEF TypeOK, State, ManagerState, InotifyEvent

(* The tasks nobody has completed stay the same when some are started.     *)
LEMMA StartEffect ==
  ASSUME TypeOK, try_doing_some_tasks
  PROVE  /\ task_queue' \in Seq(Task) /\ assigned_tasks' \in Seq(Task)
         /\ Len(assigned_tasks') <= WorkerLimit
         /\ Range(task_queue') \cup Range(assigned_tasks')
              = Range(task_queue) \cup Range(assigned_tasks)
         /\ \A S : CountIn(task_queue', S) + CountIn(assigned_tasks', S)
                    = CountIn(task_queue, S) + CountIn(assigned_tasks, S)
<1> DEFINE free == WorkerLimit - Len(assigned_tasks)
           n == IF free < Len(task_queue) THEN free ELSE Len(task_queue)
           taken == SubSeq(task_queue, 1, n)
           left == SubSeq(task_queue, n + 1, Len(task_queue))
<1>1. /\ task_queue \in Seq(Task) /\ assigned_tasks \in Seq(Task)
      /\ Len(task_queue) \in Nat /\ Len(assigned_tasks) \in 0 .. WorkerLimit
      /\ \A k \in 1 .. Len(task_queue) : task_queue[k] \in Task
  BY ConstantFacts, LenProperties, ElementOfSeq DEF TypeOK
<1>2. n \in 0 .. Len(task_queue) /\ Len(assigned_tasks) + n <= WorkerLimit
  BY <1>1, ConstantFacts
<1>3. assigned_tasks' = assigned_tasks \o taken /\ task_queue' = left
  BY DEF try_doing_some_tasks
<1> HIDE DEF n
<1>4. taken \in Seq(Task) /\ Len(taken) = n
  <2>1. \A k \in 1 .. n : task_queue[k] \in Task
    BY <1>1, <1>2
  <2> QED  BY <1>2, <2>1, SubSeqProperties
<1>5. left \in Seq(Task)
  <2>1. \A k \in n + 1 .. Len(task_queue) : task_queue[k] \in Task
    BY <1>1, <1>2
  <2>2. n + 1 \in Int /\ Len(task_queue) \in Int
    BY <1>1, <1>2
  <2> QED  BY <2>1, <2>2, SubSeqProperties
<1>6. taken \o left = task_queue
  <2>1. /\ 1 \in 1 .. Len(task_queue) + 1 /\ n \in 1 - 1 .. Len(task_queue)
        /\ Len(task_queue) \in n .. Len(task_queue)
    BY <1>1, <1>2
  <2>2. taken \o left = SubSeq(task_queue, 1, Len(task_queue))
    BY <1>1, <2>1, ConcatAdjacentSubSeq
  <2> QED  BY <1>1, <2>2, SubSeqFull
<1> HIDE DEF taken, left
<1>7. Range(task_queue) = Range(taken) \cup Range(left)
  <2>1. Range(taken \o left) = Range(taken) \cup Range(left)
    BY <1>4, <1>5, RangeOfConcat
  <2> QED  BY <1>6, <2>1
<1>8. /\ assigned_tasks \o taken \in Seq(Task)
      /\ Len(assigned_tasks \o taken) = Len(assigned_tasks) + n
      /\ Range(assigned_tasks \o taken) = Range(assigned_tasks) \cup Range(taken)
  <2>1. /\ assigned_tasks \o taken \in Seq(Task)
        /\ Len(assigned_tasks \o taken) = Len(assigned_tasks) + Len(taken)
    BY <1>1, <1>4, ConcatProperties
  <2>2. Range(assigned_tasks \o taken) = Range(assigned_tasks) \cup Range(taken)
    BY <1>1, <1>4, RangeOfConcat
  <2> QED  BY <1>4, <2>1, <2>2
<1>9. ASSUME NEW S
      PROVE  CountIn(left, S) + CountIn(assigned_tasks \o taken, S)
               = CountIn(task_queue, S) + CountIn(assigned_tasks, S)
  <2>1. CountIn(task_queue, S) = CountIn(taken, S) + CountIn(left, S)
    BY <1>4, <1>5, <1>6, CountOfConcat
  <2>2. CountIn(assigned_tasks \o taken, S) = CountIn(assigned_tasks, S) + CountIn(taken, S)
    BY <1>1, <1>4, CountOfConcat
  <2>3. /\ CountIn(taken, S) \in Nat /\ CountIn(left, S) \in Nat
        /\ CountIn(assigned_tasks, S) \in Nat
    BY <1>1, <1>4, <1>5, CountType
  <2> QED  BY <2>1, <2>2, <2>3
<1> QED  BY <1>2, <1>3, <1>5, <1>7, <1>8, <1>9

(* A completed task leaves assigned_tasks, and no other does.              *)
LEMMA CompleteEffect ==
  ASSUME TypeOK, NEW i \in 1 .. WorkerLimit, Complete(i)
  PROVE  LET task == assigned_tasks[i]
             k == findBySource(watched_dirs, task.source)
         IN  /\ task \in Task /\ phase = "responses"
             /\ \/ /\ k = NULL /\ phase' = "crashed"
                   /\ UNCHANGED <<watched_dirs, log, assigned_tasks, handled, fss_out>>
                \/ /\ k # NULL /\ watched_dirs # NULL /\ UNCHANGED phase
                   /\ assigned_tasks' = RemoveAt(assigned_tasks, i)
                   /\ assigned_tasks' \in Seq(Task)
                   /\ Len(assigned_tasks') <= WorkerLimit
                   /\ Range(assigned_tasks') \subseteq Range(assigned_tasks)
                   /\ Range(assigned_tasks) \subseteq Range(assigned_tasks') \cup {task}
                   /\ log' = TaskCompleted(log, task.source)
                   /\ fss_out' = Reply(State, task.added_by_console).out
                   /\ handled' = handled \cup ({task.event} \ {0})
                   /\ k \in 1 .. Len(watched_dirs) /\ watched_dirs[k].source = task.source
                   /\ watched_dirs' = IF task.type = "FULL"
                                        THEN [watched_dirs EXCEPT ![k].synchronizing = 0]
                                        ELSE watched_dirs
<1> DEFINE task == assigned_tasks[i]
           k == findBySource(watched_dirs, task.source)
<1>1. /\ assigned_tasks \in Seq(Task) /\ DOMAIN assigned_tasks = 1 .. Len(assigned_tasks)
      /\ Len(assigned_tasks) \in Nat /\ Len(assigned_tasks) <= WorkerLimit
  BY LenProperties DEF TypeOK
<1>2. i \in 1 .. Len(assigned_tasks) /\ phase = "responses"
  BY <1>1 DEF Complete, DoneTasks
<1>3. task \in Task
  BY <1>1, <1>2, ElementOfSeq
<1>4. CASE k = NULL
  BY <1>2, <1>3, <1>4 DEF Complete, dirVars
<1>5. CASE k # NULL
  <2>1. watched_dirs # NULL
    BY <1>5 DEF findBySource
  <2>2. watched_dirs \in Seq(DirData)
    BY <2>1 DEF TypeOK
  <2>3. k \in 1 .. Len(watched_dirs) /\ watched_dirs[k].source = task.source
    BY <1>5, <2>2, FindBySource
  <2>4. /\ assigned_tasks' = RemoveAt(assigned_tasks, i)
        /\ log' = TaskCompleted(log, task.source)
        /\ fss_out' = Reply(State, task.added_by_console).out
        /\ handled' = handled \cup ({task.event} \ {0})
        /\ UNCHANGED phase
        /\ watched_dirs' = IF task.type = "FULL"
                             THEN [watched_dirs EXCEPT ![k].synchronizing = 0]
                             ELSE watched_dirs
    BY <1>5, Zenon DEF Complete
  <2>5. /\ RemoveAt(assigned_tasks, i) \in Seq(Task)
        /\ Len(RemoveAt(assigned_tasks, i)) = Len(assigned_tasks) - 1
        /\ Range(RemoveAt(assigned_tasks, i)) \subseteq Range(assigned_tasks)
        /\ Range(assigned_tasks) \subseteq Range(RemoveAt(assigned_tasks, i)) \cup {task}
    BY <1>1, <1>2, RemoveAtProperties, RangeOfRemoveAt, Zenon
  <2> HIDE DEF task, k
  <2>6. Len(assigned_tasks) - 1 <= WorkerLimit
    BY <1>1, ConstantFacts
  <2> QED  BY <1>2, <1>3, <1>5, <2>1, <2>3, <2>4, <2>5, <2>6 DEF task, k
<1> QED  BY <1>4, <1>5

(* The n-th of a finite set of positions exists.                           *)
LEMMA NthExists ==
  ASSUME NEW P \in SUBSET Nat, IsFiniteSet(P), NEW n \in 1 .. Cardinality(P)
  PROVE  Nth(P, n) \in P
<1> DEFINE below(k) == {j \in P : j < k}
           m == Cardinality(P)
           rank == [k \in P |-> Cardinality(below(k))]
<1>1. m \in Nat /\ \A k \in P : IsFiniteSet(below(k)) /\ Cardinality(below(k)) \in Nat
  <2>1. \A k \in P : below(k) \in SUBSET P
    OBVIOUS
  <2> QED  BY <2>1, FS_Subset, FS_CardinalityType
<1>2. ASSUME NEW j \in P, NEW k \in P, j < k
      PROVE  Cardinality(below(j)) < Cardinality(below(k))
  <2>1. below(j) \cup {j} \in SUBSET below(k) /\ j \notin below(j)
    <3>1. j \in Nat /\ k \in Nat
      OBVIOUS
    <3>2. ASSUME NEW i \in P, i < j PROVE i < k
      <4>1. i \in Nat
        OBVIOUS
      <4> QED  BY <1>2, <3>1, <3>2, <4>1
    <3>3. \A i \in below(j) : i \in below(k)
      BY <3>2
    <3>4. j \in below(k)
      BY <1>2
    <3>5. j \notin below(j)
      BY <3>1
    <3> HIDE DEF below
    <3> QED  BY <3>3, <3>4, <3>5
  <2>2. Cardinality(below(j) \cup {j}) = Cardinality(below(j)) + 1
    BY <1>1, <2>1, FS_AddElement
  <2>3. Cardinality(below(j) \cup {j}) <= Cardinality(below(k))
    BY <1>1, <2>1, FS_Subset
  <2> QED  BY <1>1, <2>2, <2>3
<1>3. ASSUME NEW k \in P PROVE Cardinality(below(k)) \in 0 .. (m - 1)
  <2>1. below(k) \in SUBSET (P \ {k})
    OBVIOUS
  <2>2. IsFiniteSet(P \ {k}) /\ Cardinality(P \ {k}) = m - 1
    BY FS_RemoveElement
  <2>3. Cardinality(below(k)) <= m - 1
    BY <2>1, <2>2, FS_Subset
  <2> QED  BY <1>1, <2>3
<1>4. rank \in Injection(P, 0 .. (m - 1))
  <2>1. rank \in [P -> 0 .. (m - 1)]
    BY <1>3
  <2>2. ASSUME NEW j \in P, NEW k \in P, rank[j] = rank[k] PROVE j = k
    BY <1>1, <1>2, <2>2
  <2> QED  BY <2>1, <2>2 DEF Injection, IsInjective
<1>5. IsFiniteSet(0 .. (m - 1)) /\ Cardinality(0 .. (m - 1)) = m
  <2>1. 0 \in Int /\ m - 1 \in Int
    BY <1>1
  <2>2. m - 1 - 0 + 1 = m /\ (0 > m - 1 => m = 0)
    BY <1>1
  <2> QED  BY <2>1, <2>2, FS_Interval
<1>6. rank \in Surjection(P, 0 .. (m - 1))
  BY <1>4, <1>5, FS_Injection
<1>7. n - 1 \in 0 .. (m - 1)
  BY <1>1
<1>8. \E k \in P : Cardinality(below(k)) = n - 1
  BY <1>6, <1>7 DEF Surjection
<1> QED  BY <1>8 DEF Nth

(* The events of a buffer make tasks that answer nobody.                   *)
LEMMA EventTasks ==
  ASSUME NEW buffer \in Seq(InotifyEvent), watched_dirs = NULL \/ watched_dirs \in Seq(DirData)
  PROVE  /\ TasksOf(buffer) \in Seq(Task)
         /\ \A t \in Range(TasksOf(buffer)) : t.type = "EVENT" /\ t.added_by_console = NoCommand
<1> DEFINE known == Known(buffer)
           count == Cardinality(known)
           t(n) == TaskOf(buffer[Nth(known, n)])
<1>1. DOMAIN buffer = 1 .. Len(buffer) /\ Len(buffer) \in Nat
  BY LenProperties
<1>2. known \in SUBSET (1 .. Len(buffer))
  BY <1>1 DEF Known
<1>3. IsFiniteSet(known) /\ known \in SUBSET Nat
  <2>1. IsFiniteSet(1 .. Len(buffer))
    BY <1>1, FS_Interval
  <2> QED  BY <1>2, <2>1, FS_Subset
<1>4. count \in Nat
  BY <1>3, FS_CardinalityType
<1>5. ASSUME NEW n \in 1 .. count
      PROVE  t(n) \in Task /\ t(n).type = "EVENT" /\ t(n).added_by_console = NoCommand
  <2> DEFINE e == buffer[Nth(known, n)]
             k == PairOf(e)
  <2>1. Nth(known, n) \in known
    BY <1>3, NthExists
  <2>2. e \in InotifyEvent
    BY <1>2, <2>1, ElementOfSeq
  <2>3. e.event # NULL /\ k # NULL
    BY <2>1 DEF Known
  <2>4. e.event \in Events
    BY <2>2, <2>3 DEF InotifyEvent
  <2>5. watched_dirs \in Seq(DirData)
    BY <2>3 DEF PairOf, findByWD
  <2>6. k \in 1 .. Len(watched_dirs)
    BY <2>3, <2>5, FindByWD DEF PairOf
  <2>7. watched_dirs[k] \in DirData
    BY <2>5, <2>6, ElementOfSeq
  <2>8. watched_dirs[k].source \in Sources
    BY <2>7 DEF DirData
  <2>9. t(n) = EventTask(watched_dirs[k].source, e.event)
    BY DEF TaskOf
  <2> HIDE DEF e, k
  <2> QED  BY <2>4, <2>8, <2>9 DEF EventTask, Task
<1> HIDE DEF t
<1>6. TasksOf(buffer) = [n \in 1 .. count |-> t(n)]
  BY DEF TasksOf, t
<1> HIDE DEF count
<1>7. TasksOf(buffer) \in Seq(Task)
  BY <1>4, <1>5, <1>6
<1>8. Range(TasksOf(buffer)) = {t(n) : n \in 1 .. count}
  BY <1>6 DEF Range
<1> QED  BY <1>5, <1>7, <1>8

(* What handle_command_read does: shutdown frees the list, and any other   *)
(* command keeps the facts about it.                                       *)
LEMMA CommandEffect ==
  ASSUME SInv, handle_command_read
  PROVE  /\ fss_in # << >> /\ Head(fss_in) \in Command /\ fss_in' = << >>
         /\ phase = "command" /\ phase' = "check" /\ exiting = NoCommand
         /\ UNCHANGED <<ready, assigned_tasks, handled, events, ino_buf>>
         /\ watched_dirs # NULL /\ State \in ManagerState /\ ListOK(State, assigned_tasks)
         /\ \/ /\ Head(fss_in).op = "shutdown"
               /\ watched_dirs' = NULL /\ exiting' \in Commands /\ exiting' = Head(fss_in).id
               /\ UNCHANGED <<log, task_queue, fss_out, watch, next_wd, ino_queue>>
            \/ /\ Head(fss_in).op # "shutdown"
               /\ State' = execute_command(State, Head(fss_in)) /\ exiting' = NoCommand
               /\ State' \in ManagerState /\ ListOK(State, assigned_tasks)'
<1> DEFINE c == Head(fss_in)
           st == execute_command(State, c)
<1>1. /\ phase = "command" /\ phase' = "check" /\ exiting = NoCommand
      /\ UNCHANGED <<ready, assigned_tasks, handled, events, ino_buf>>
      /\ watched_dirs' = st.dirs /\ log' = st.log /\ task_queue' = st.queue
      /\ fss_out' = st.out /\ watch' = st.watch /\ next_wd' = st.next_wd
      /\ ino_queue' = st.ino /\ fss_in' = << >>
      /\ exiting' = IF c.op = "shutdown" THEN c.id ELSE NoCommand
  BY DEF handle_command_read
<1>2. /\ fss_in # << >> /\ fss_in \in Seq(Command) /\ watched_dirs # NULL
      /\ TypeOK /\ Running
  BY <1>1 DEF SInv, LineWaits, TypeOK, Running
<1>3. c \in Command
  BY <1>2, HeadTailProperties
<1>4. /\ State \in ManagerState /\ ListOK(State, assigned_tasks) /\ PendingWatched(State)
  BY <1>1, <1>2, StateTyped DEF SInv, ListAlive, Drained
<1>5. CASE c.op = "shutdown"
  <2>1. st = [State EXCEPT !.dirs = freeList(@)]
    BY <1>5 DEF execute_command
  <2>2. /\ st.dirs = NULL /\ st.log = log /\ st.queue = task_queue /\ st.out = fss_out
        /\ st.watch = watch /\ st.next_wd = next_wd /\ st.ino = ino_queue
    BY <2>1 DEF State, freeList
  <2>3. c.id \in Commands
    BY <1>3 DEF Command
  <2> QED  BY <1>1, <1>2, <1>3, <1>4, <1>5, <2>2, <2>3
<1>6. CASE c.op # "shutdown"
  <2>1. st \in ManagerState /\ ListOK(st, assigned_tasks)
    BY <1>3, <1>4, <1>6, CommandKeepsList
  <2> HIDE DEF st
  <2>2. State' = st
    BY <1>1, <2>1 DEF State, ManagerState
  <2>3. ListOK(State', assigned_tasks')
    BY <1>1, <2>1, <2>2
  <2> QED  BY <1>1, <1>2, <1>3, <1>4, <1>6, <2>1, <2>2, <2>3 DEF st
<1> QED  BY <1>5, <1>6

-----------------------------------------------------------------------------
(***************************************************************************)
(* The invariant is kept: the types.                                       *)
(***************************************************************************)

LEMMA TypeStep == SInv /\ [Next]_vars => TypeOK'
<1> SUFFICES ASSUME SInv, [Next]_vars PROVE TypeOK'
  OBVIOUS
<1>0. TypeOK
  BY DEF SInv
<1> USE ConstantFacts DEF TypeOK
<1>1. CASE try_doing_some_tasks /\ UNCHANGED <<console, sent>>
  BY <1>0, <1>1, StartEffect DEF try_doing_some_tasks, dirVars, kernelVars
<1>2. CASE (Poll \/ AllAnswered \/ IgnoreCommands) /\ UNCHANGED <<console, sent>>
  <2>1. CASE Poll
    BY <1>0, <1>2, <2>1 DEF Poll, dirVars, kernelVars, taskVars
  <2>2. CASE AllAnswered
    BY <1>0, <1>2, <2>2 DEF AllAnswered, dirVars, kernelVars, taskVars
  <2>3. CASE IgnoreCommands
    BY <1>0, <1>2, <2>3 DEF IgnoreCommands, dirVars, kernelVars, taskVars
  <2> QED  BY <1>2, <2>1, <2>2, <2>3, SMTT(30)
<1>3. CASE handle_inotify_read /\ UNCHANGED <<console, sent>>
  <2>1. CASE ino_queue # << >>
    <3>1. ino_buf \o ino_queue \in Seq(InotifyEvent)
      BY <1>0, ConcatProperties DEF InotifyEvent
    <3>2. ino_buf' = ino_buf \o ino_queue /\ task_queue' = task_queue \o TasksOf(ino_buf')
      BY <1>3, <2>1 DEF handle_inotify_read
    <3>3. TasksOf(ino_buf') \in Seq(Task)
      <4>1. watched_dirs = NULL \/ watched_dirs \in Seq(DirData)
        BY <1>0
      <4> HIDE DEF TypeOK
      <4> QED  BY <3>1, <3>2, <4>1, EventTasks
    <3>4. task_queue' \in Seq(Task)
      BY <1>0, <3>2, <3>3, ConcatProperties
    <3> QED  BY <1>0, <1>3, <2>1, <3>1, <3>2, <3>4
             DEF handle_inotify_read, dirVars, InotifyEvent
  <2>2. CASE ino_queue = << >>
    BY <1>0, <1>3, <2>2 DEF handle_inotify_read, dirVars
  <2> QED  BY <2>1, <2>2, SMTT(30)
<1>4. CASE handle_command_read /\ UNCHANGED <<console, sent>>
  <2>1. /\ phase' = "check" /\ fss_in' = << >>
        /\ UNCHANGED <<ready, assigned_tasks, handled, events, ino_buf, console, sent>>
    BY <1>4, CommandEffect
  <2>2. \/ /\ watched_dirs' = NULL /\ exiting' \in Commands
           /\ UNCHANGED <<log, task_queue, fss_out, watch, next_wd, ino_queue>>
        \/ State' \in ManagerState /\ exiting' = NoCommand
    BY <1>4, CommandEffect
  <2>3. CASE State' \in ManagerState /\ exiting' = NoCommand
    <3>1. /\ watched_dirs' \in Seq(DirData) /\ log' \in Log /\ task_queue' \in Seq(Task)
          /\ fss_out' \in Seq(Commands) /\ watch' \in [Dirs -> Int] /\ next_wd' \in Nat
          /\ ino_queue' \in Seq(InotifyEvent)
      BY <2>3 DEF State, ManagerState
    <3> QED  BY <1>0, <2>1, <2>3, <3>1 DEF InotifyEvent
  <2> QED  BY <1>0, <2>1, <2>2, <2>3, SMTT(30)
<1>5. CASE CheckExit /\ UNCHANGED <<console, sent>>
  <2>1. fss_out' \in Seq(Commands)
    <3>1. CASE UNCHANGED fss_out
      BY <1>0, <3>1
    <3>2. CASE exiting # NoCommand /\ fss_out' = Reply(State, exiting).out
      <4>1. Reply(State, exiting).out = Append(fss_out, exiting)
        BY <3>2, StateFields DEF Reply, State
      <4> QED  BY <1>0, <3>2, <4>1, AppendProperties
    <3> QED  BY <1>5, <3>1, <3>2 DEF CheckExit
  <2> QED  BY <1>0, <1>5, <2>1 DEF CheckExit, dirVars, taskVars, kernelVars
<1>6. ASSUME NEW i \in 1 .. WorkerLimit, Complete(i), UNCHANGED <<console, sent>>
      PROVE  TypeOK'
  <2> HIDE DEF TypeOK
  <2> DEFINE task == assigned_tasks[i]
             k == findBySource(watched_dirs, task.source)
  <2>1. task \in Task
    BY <1>0, <1>6, CompleteEffect
  <2>2. UNCHANGED <<ready, exiting, task_queue, watch, next_wd, ino_queue, events, ino_buf, fss_in,
                    console, sent>>
    BY <1>6 DEF Complete, kernelVars
  <2>3. CASE k = NULL
    <3>1. phase' = "crashed" /\ UNCHANGED <<watched_dirs, log, assigned_tasks, handled, fss_out>>
      BY <1>0, <1>6, <2>3, CompleteEffect
    <3> QED  BY <1>0, <2>2, <3>1 DEF TypeOK
  <2>4. CASE k # NULL
    <3>1. /\ watched_dirs # NULL /\ UNCHANGED phase
          /\ assigned_tasks' \in Seq(Task) /\ Len(assigned_tasks') <= WorkerLimit
          /\ log' = TaskCompleted(log, task.source)
          /\ fss_out' = Reply(State, task.added_by_console).out
          /\ handled' = handled \cup ({task.event} \ {0})
          /\ k \in 1 .. Len(watched_dirs)
          /\ watched_dirs' = IF task.type = "FULL"
                               THEN [watched_dirs EXCEPT ![k].synchronizing = 0]
                               ELSE watched_dirs
      BY <1>0, <1>6, <2>4, CompleteEffect
    <3>2. /\ task.source \in Sources /\ task.event \in Events \cup {0}
          /\ task.added_by_console \in Commands \cup {NoCommand}
      BY <2>1 DEF Task
    <3>3. log' \in Log
      <4>1. log \in Log
        BY <1>0 DEF TypeOK
      <4> QED  BY <3>1, <3>2, <4>1, LogChanges
    <3>4. fss_out' \in Seq(Commands)
      BY <1>0, <3>1, <3>2, ReplyEffect, StateTyped DEF ManagerState
    <3>5. watched_dirs' \in Seq(DirData)
      <4>1. watched_dirs \in Seq(DirData) /\ watched_dirs[k] \in DirData
        <5>1. watched_dirs \in Seq(DirData)
          BY <1>0, <3>1 DEF TypeOK
        <5> HIDE DEF k
        <5> QED  BY <3>1, <5>1, ElementOfSeq
      <4>2. [watched_dirs[k] EXCEPT !.synchronizing = 0] \in DirData
        BY <4>1 DEF DirData
      <4>3. [watched_dirs EXCEPT ![k] = [watched_dirs[k] EXCEPT !.synchronizing = 0]] \in Seq(DirData)
        BY <3>1, <4>1, <4>2, ExceptSeq
      <4> QED  BY <3>1, <4>1, <4>3
    <3> HIDE DEF task, k
    <3>6. handled' \subseteq Events
      <4>1. handled \subseteq Events
        BY <1>0 DEF TypeOK
      <4> QED  BY <3>1, <3>2, <4>1
    <3>7. /\ UNCHANGED phase /\ assigned_tasks' \in Seq(Task)
          /\ Len(assigned_tasks') <= WorkerLimit
      BY <3>1
    <3> QED  BY <1>0, <2>2, <3>3, <3>4, <3>5, <3>6, <3>7 DEF TypeOK
  <2> QED  BY <2>3, <2>4
<1>7. ASSUME NEW i \in 1 .. WorkerLimit, WorkerFinishes(i), UNCHANGED <<console, sent>>
      PROVE  TypeOK'
  <2>1. /\ i \in 1 .. Len(assigned_tasks) /\ assigned_tasks[i] \in Task
        /\ assigned_tasks' = [assigned_tasks EXCEPT ![i] = [assigned_tasks[i] EXCEPT !.done = TRUE]]
    BY <1>0, <1>7, LenProperties, ElementOfSeq, SMTT(30) DEF WorkerFinishes
  <2>2. [assigned_tasks[i] EXCEPT !.done = TRUE] \in Task
    BY <2>1 DEF Task
  <2>3. assigned_tasks' \in Seq(Task) /\ Len(assigned_tasks') = Len(assigned_tasks)
    BY <1>0, <2>1, <2>2, ExceptSeq
  <2> QED  BY <1>0, <1>7, <2>3, SMTT(30) DEF WorkerFinishes, loopVars, dirVars, kernelVars
<1>8. ASSUME NEW d \in Dirs, FileEvent(d), UNCHANGED <<console, sent>>
      PROVE  TypeOK'
  <2>1. events' \in Events /\ events' \in 0 .. MaxEvents /\ watch[d] \in Int
    BY <1>0, <1>8 DEF FileEvent, Events
  <2>2. [wd |-> watch[d], event |-> events'] \in InotifyEvent
    BY <2>1 DEF InotifyEvent
  <2>3. ino_queue' \in Seq(InotifyEvent)
    BY <1>0, <1>8, <2>2, AppendProperties DEF FileEvent, InotifyEvent
  <2> QED  BY <1>0, <1>8, <2>1, <2>3, SMTT(30) DEF FileEvent, loopVars, dirVars, taskVars, InotifyEvent
<1>9. ASSUME NEW op \in TypedOps, NEW s \in Sources, Send(op, s)
      PROVE  TypeOK'
  <2>1. sent' \in Commands /\ sent' \in 0 .. MaxCommands /\ op \in Ops
    BY <1>0, <1>9, SystemAssumption DEF Send, Commands
  <2>2. [op |-> op, src |-> s, id |-> sent'] \in Command
    BY <2>1 DEF Command
  <2>3. fss_in' \in Seq(Command)
    BY <1>0, <1>9, <2>2, AppendProperties DEF Send
  <2> QED  BY <1>0, <1>9, <2>1, <2>3, SMTT(30) DEF Send, loopVars, dirVars, taskVars, kernelVars
<1>10. CASE Receive
  <2>1. fss_out' \in Seq(Commands)
    BY <1>0, <1>10, HeadTailProperties DEF Receive
  <2> QED  BY <1>0, <1>10, <2>1 DEF Receive, Resumed, loopVars, dirVars, taskVars, kernelVars
<1>11. CASE SendToNobody \/ Leave \/ Interrupt \/ Start
  <2>1. UNCHANGED managerVars /\ UNCHANGED sent /\ console' \in {Prompting, Gone}
    BY <1>11 DEF SendToNobody, Leave, Interrupt, Start
  <2> QED  BY <1>0, <2>1 DEF managerVars, loopVars, dirVars, taskVars, kernelVars
<1>12. CASE UNCHANGED vars
  BY <1>0, <1>12 DEF vars, managerVars, loopVars, dirVars, taskVars, kernelVars
<1> HIDE DEF TypeOK
<1> QED  BY <1>1, <1>2, <1>3, <1>4, <1>5, <1>6, <1>7, <1>8, <1>9, <1>10, <1>11, <1>12
         DEF Next, ManagerStep, WorkerStep, ConsoleStep

-----------------------------------------------------------------------------
(***************************************************************************)
(* The invariant is kept: the lines in the FIFO and the freed list.        *)
(***************************************************************************)

LEMMA LineStep == SInv /\ [Next]_vars => LineWaits'
<1> SUFFICES ASSUME SInv, [Next]_vars PROVE LineWaits'
  OBVIOUS
<1>0. TypeOK /\ LineWaits
  BY DEF SInv
<1>1. CASE Poll
  BY <1>1 DEF Poll, LineWaits
<1>2. CASE AllAnswered
  BY <1>0, <1>2 DEF AllAnswered, LineWaits
<1>3. CASE handle_inotify_read
  BY <1>0, <1>3 DEF handle_inotify_read, LineWaits
<1>4. CASE handle_command_read \/ IgnoreCommands \/ CheckExit \/ try_doing_some_tasks
  BY <1>4 DEF handle_command_read, IgnoreCommands, CheckExit, try_doing_some_tasks, LineWaits
<1>5. ASSUME NEW i \in 1 .. WorkerLimit, Complete(i) PROVE LineWaits'
  <2>1. phase' = "crashed" \/ UNCHANGED phase
    BY <1>0, <1>5, CompleteEffect
  <2> QED  BY <1>0, <1>5, <2>1 DEF Complete, LineWaits
<1>6. ASSUME NEW op \in TypedOps, NEW s \in Sources, Send(op, s) PROVE LineWaits'
  <2>1. [op |-> op, src |-> s, id |-> sent'] \in Command
    BY <1>0, <1>6, SystemAssumption, ConstantFacts DEF Send, Command, Commands, TypeOK
  <2>2. fss_in' # << >>
    BY <1>0, <1>6, <2>1, AppendProperties, SMTT(30) DEF Send, TypeOK
  <2> QED  BY <2>2 DEF LineWaits
<1>7. CASE UNCHANGED <<phase, ready, fss_in>>
  BY <1>0, <1>7 DEF LineWaits
<1>8. \/ UNCHANGED <<phase, ready, fss_in>>
      \/ Poll \/ AllAnswered \/ handle_inotify_read
      \/ handle_command_read \/ IgnoreCommands \/ CheckExit \/ try_doing_some_tasks
      \/ \E i \in 1 .. WorkerLimit : Complete(i)
      \/ \E op \in TypedOps, s \in Sources : Send(op, s)
  BY DEF Next, ManagerStep, WorkerStep, ConsoleStep, WorkerFinishes, FileEvent, Receive,
         SendToNobody, Leave, Interrupt, Start, vars, managerVars, loopVars
<1> QED  BY <1>1, <1>2, <1>3, <1>4, <1>5, <1>6, <1>7, <1>8

(* The steps that change something of what ListOK and PendingWatched are   *)
(* about.                                                                  *)
listVars == <<watched_dirs, log, task_queue, assigned_tasks, watch, next_wd, ino_queue>>

LEMMA ListSteps ==
  ASSUME [Next]_vars
  PROVE  \/ try_doing_some_tasks \/ Poll \/ AllAnswered \/ handle_inotify_read
         \/ handle_command_read
         \/ \E i \in 1 .. WorkerLimit : Complete(i) \/ WorkerFinishes(i)
         \/ \E d \in Dirs : FileEvent(d)
         \/ /\ UNCHANGED <<listVars, ready, exiting>>
            /\ UNCHANGED phase \/ phase' \in {"check", "try", "done"}
BY DEF Next, ManagerStep, WorkerStep, ConsoleStep, IgnoreCommands, CheckExit, Send, Receive,
       SendToNobody, Leave, Interrupt, Start, vars, listVars, managerVars, loopVars, dirVars,
       taskVars, kernelVars

(* The list after a task of a pair in it has been completed: at most the   *)
(* flag of that pair is another.                                           *)
FlagCleared(s) ==
  \E old, new \in DirData :
    /\ old \in Range(watched_dirs) /\ old.source = s
    /\ new = [old EXCEPT !.synchronizing = 0]
    /\ Range(watched_dirs)' = (Range(watched_dirs) \ {old}) \cup {new}
    /\ \A p \in Range(watched_dirs) \ {old} : p.source # s

LEMMA CompletedList ==
  ASSUME SInv, NEW i \in 1 .. WorkerLimit, Complete(i), phase' # "crashed"
  PROVE  /\ watched_dirs # NULL /\ watched_dirs' \in Seq(DirData)
         /\ UniqueSources(watched_dirs) /\ UniqueSources(watched_dirs)'
         /\ IF assigned_tasks[i].type = "FULL" THEN FlagCleared(assigned_tasks[i].source)
                                               ELSE UNCHANGED watched_dirs
<1> DEFINE task == assigned_tasks[i]
           k == findBySource(watched_dirs, task.source)
           new == [watched_dirs[k] EXCEPT !.synchronizing = 0]
<1>1. /\ task \in Task /\ phase = "responses" /\ watched_dirs # NULL
      /\ k \in 1 .. Len(watched_dirs) /\ watched_dirs[k].source = task.source
      /\ watched_dirs' = IF task.type = "FULL"
                           THEN [watched_dirs EXCEPT ![k].synchronizing = 0]
                           ELSE watched_dirs
  BY CompleteEffect DEF SInv
<1>2. watched_dirs \in Seq(DirData) /\ watched_dirs[k] \in DirData
  BY <1>1, ElementOfSeq DEF SInv, TypeOK
<1>3. UniqueSources(watched_dirs)
  BY <1>1, StateFields DEF SInv, ListAlive, Running, ListOK
<1>4. new \in DirData /\ new.source = watched_dirs[k].source
  BY <1>2 DEF DirData
<1>5. task.type = "FULL" => watched_dirs' = [watched_dirs EXCEPT ![k] = new]
  BY <1>1
<1> HIDE DEF task, k, new
<1>6. LET after == [watched_dirs EXCEPT ![k] = new]
      IN  /\ after \in Seq(DirData) /\ UniqueSources(after)
          /\ Range(after) = (Range(watched_dirs) \ {watched_dirs[k]}) \cup {new}
          /\ watched_dirs[k] \in Range(watched_dirs)
          /\ \A p \in Range(watched_dirs) \ {watched_dirs[k]} : p.source # watched_dirs[k].source
  <2>1. new.source = watched_dirs[k].source
    BY <1>4
  <2> QED  BY <1>1, <1>2, <1>3, <1>4, <2>1, PairReplaced
<1>7. CASE task.type = "FULL"
  <2>1. FlagCleared(task.source)
    <3>1. new = [watched_dirs[k] EXCEPT !.synchronizing = 0]
      BY DEF new
    <3>2. Range(watched_dirs') = (Range(watched_dirs) \ {watched_dirs[k]}) \cup {new}
      BY <1>5, <1>6, <1>7
    <3>3. \A p \in Range(watched_dirs) \ {watched_dirs[k]} : p.source # task.source
      BY <1>1, <1>6
    <3> QED  BY <1>1, <1>2, <1>4, <1>6, <3>1, <3>2, <3>3, Zenon DEF FlagCleared
  <2>2. UniqueSources(watched_dirs') /\ watched_dirs' \in Seq(DirData)
    BY <1>5, <1>6, <1>7
  <2> QED  BY <1>1, <1>3, <1>7, <2>1, <2>2 DEF task
<1>8. CASE task.type # "FULL"
  BY <1>1, <1>2, <1>3, <1>8 DEF task
<1> QED  BY <1>7, <1>8

(* Only shutdown frees the list.                                           *)
LEMMA FreedStep == SInv /\ [Next]_vars => (watched_dirs' = NULL => exiting' # NoCommand)
<1> SUFFICES ASSUME SInv, [Next]_vars, watched_dirs' = NULL PROVE exiting' # NoCommand
  OBVIOUS
<1>0. TypeOK /\ (watched_dirs = NULL => exiting # NoCommand)
  BY DEF SInv
<1>1. CASE handle_command_read
  <2>1. State' \notin ManagerState
    BY FreedListAssumption DEF State, ManagerState
  <2> QED  BY <1>1, <2>1, CommandEffect, ConstantFacts
<1>2. ASSUME NEW i \in 1 .. WorkerLimit, Complete(i) PROVE exiting' # NoCommand
  <2>1. UNCHANGED exiting
    BY <1>2 DEF Complete
  <2>2. CASE phase' = "crashed"
    <3>1. phase # "crashed" /\ UNCHANGED watched_dirs
      BY <1>0, <1>2, <2>2, CompleteEffect
    <3> QED  BY <1>0, <2>1, <3>1
  <2>3. CASE phase' # "crashed"
    BY <1>2, <2>3, CompletedList, FreedListAssumption
  <2> QED  BY <2>2, <2>3
<1>3. CASE UNCHANGED <<watched_dirs, exiting>>
  BY <1>0, <1>3
<1>4. \/ handle_command_read \/ UNCHANGED <<watched_dirs, exiting>>
      \/ \E i \in 1 .. WorkerLimit : Complete(i)
  BY ListSteps DEF try_doing_some_tasks, Poll, AllAnswered, handle_inotify_read, WorkerFinishes,
                   FileEvent, listVars, loopVars, dirVars
<1> QED  BY <1>1, <1>2, <1>3, <1>4

(* The facts about the list stay true while it stays the same, no          *)
(* outstanding full synchronisation is lost, and the events that come are  *)
(* known.                                                                  *)
LEMMA ListFrame ==
  ASSUME ListOK(State, assigned_tasks), UNCHANGED <<watched_dirs, log, watch>>,
         \A s : (\E t \in Range(task_queue) \cup Range(assigned_tasks) : FullTaskOf(t, s))
                  => \E t \in Range(task_queue)' \cup Range(assigned_tasks)' : FullTaskOf(t, s),
         \A e \in Range(ino_queue)' :
           e \in Range(ino_queue)
           \/ \E pair \in Range(watched_dirs) : pair.watch_descriptor = e.wd
  PROVE  ListOK(State, assigned_tasks)'
<1>1. /\ FlagsBacked(State, assigned_tasks)'
      /\ PendingKnown(State)'
  BY StateFields DEF State, ListOK, FlagsBacked, PendingKnown
<1>2. UniqueSources(State.dirs)' /\ MonitoredIsActive(State)' /\ WatchesListed(State)'
  BY DEF State, ListOK, UniqueSources, MonitoredIsActive, WatchesListed
<1> QED  BY <1>1, <1>2 DEF ListOK

(* A loop that has ended does not start again.                             *)
LEMMA RunsOn ==
  ASSUME [Next]_vars, phase' \notin {"done", "crashed"}
  PROVE  phase \notin {"done", "crashed"}
BY DEF Next, ManagerStep, WorkerStep, ConsoleStep, try_doing_some_tasks, Poll, AllAnswered,
       handle_inotify_read, handle_command_read, IgnoreCommands, CheckExit, Complete,
       WorkerFinishes, FileEvent, Send, Receive, SendToNobody, Leave, Interrupt, Start, vars,
       managerVars, loopVars

(* The invariant is kept: the directory list.                              *)
LEMMA ListStep == SInv /\ [Next]_vars => (ListAlive' => ListOK(State, assigned_tasks)')
<1> SUFFICES ASSUME SInv, [Next]_vars, ListAlive' PROVE ListOK(State, assigned_tasks)'
  OBVIOUS
<1>0. TypeOK /\ TypeOK'
  BY TypeStep DEF SInv
<1>1. ListAlive => ListOK(State, assigned_tasks)
  BY DEF SInv
<1>2. phase' \notin {"done", "crashed"} /\ watched_dirs' # NULL
  BY DEF ListAlive, Running
<1>3. CASE try_doing_some_tasks
  <2>1. UNCHANGED <<watched_dirs, log, watch, ino_queue>> /\ phase = "try"
    BY <1>3 DEF try_doing_some_tasks, dirVars, kernelVars
  <2>2. Range(task_queue)' \cup Range(assigned_tasks)' = Range(task_queue) \cup Range(assigned_tasks)
    BY <1>0, <1>3, StartEffect
  <2>3. ListOK(State, assigned_tasks)
    BY <1>1, <1>2, <2>1 DEF ListAlive, Running
  <2> QED  BY <2>1, <2>2, <2>3, ListFrame
<1>4. CASE handle_inotify_read
  <2>1. UNCHANGED <<watched_dirs, log, watch, assigned_tasks>> /\ phase = "inotify"
    BY <1>4 DEF handle_inotify_read, dirVars
  <2>2. ListOK(State, assigned_tasks)
    BY <1>1, <1>2, <2>1 DEF ListAlive, Running
  <2>3. CASE ino_queue # << >>
    <3>1. /\ ino_queue' = << >> /\ task_queue' = task_queue \o TasksOf(ino_buf')
          /\ ino_buf' \in Seq(InotifyEvent)
      <4>1. ino_buf \in Seq(InotifyEvent) /\ ino_queue \in Seq(InotifyEvent)
        BY <1>0 DEF TypeOK, InotifyEvent
      <4>2. /\ ino_queue' = << >> /\ ino_buf' = ino_buf \o ino_queue
            /\ task_queue' = task_queue \o TasksOf(ino_buf')
        BY <1>4, <2>3 DEF handle_inotify_read
      <4> QED  BY <4>1, <4>2, ConcatType
    <3>2. task_queue \in Seq(Task) /\ TasksOf(ino_buf') \in Seq(Task)
      BY <1>0, <3>1, EventTasks DEF TypeOK
    <3>3. Range(task_queue') = Range(task_queue) \cup Range(TasksOf(ino_buf'))
      BY <3>1, <3>2, RangeConcatenation
    <3>4. Range(ino_queue') = {}
      BY <3>1 DEF Range
    <3> QED  BY <2>1, <2>2, <3>3, <3>4, ListFrame
  <2>4. CASE ino_queue = << >>
    <3>1. UNCHANGED <<task_queue, ino_queue>>
      BY <1>4, <2>4 DEF handle_inotify_read
    <3> QED  BY <2>1, <2>2, <3>1, ListFrame
  <2> QED  BY <2>3, <2>4
<1>5. CASE handle_command_read
  BY <1>2, <1>5, CommandEffect
<1>6. ASSUME NEW i \in 1 .. WorkerLimit, Complete(i) PROVE ListOK(State, assigned_tasks)'
  <2> DEFINE task == assigned_tasks[i]
  <2>1. /\ task \in Task /\ phase = "responses" /\ watched_dirs # NULL
        /\ Range(assigned_tasks) \subseteq Range(assigned_tasks') \cup {task}
        /\ log' = TaskCompleted(log, task.source)
    BY <1>0, <1>2, <1>6, CompleteEffect
  <2>2. UNCHANGED <<task_queue, watch, ino_queue>>
    BY <1>6 DEF Complete, kernelVars
  <2>3. ListOK(State, assigned_tasks)
    BY <1>1, <2>1 DEF ListAlive, Running
  <2>4. /\ UniqueSources(watched_dirs)'
        /\ IF task.type = "FULL" THEN FlagCleared(task.source) ELSE UNCHANGED watched_dirs
    BY <1>2, <1>6, CompletedList
  <2>5. log'.monitored = log.monitored
    <3>1. log \in Log
      BY <1>0 DEF TypeOK
    <3>2. task.source \in Sources
      BY <2>1 DEF Task
    <3> QED  BY <2>1, <3>1, <3>2, LogChanges
  <2>6. /\ State.dirs = watched_dirs /\ State.log = log /\ State.queue = task_queue
        /\ State.watch = watch /\ State.ino = ino_queue
        /\ State'.dirs = watched_dirs' /\ State'.log = log' /\ State'.queue = task_queue'
        /\ State'.watch = watch' /\ State'.ino = ino_queue'
    BY DEF State
  <2>7. CASE task.type # "FULL"
    <3>1. UNCHANGED watched_dirs
      BY <2>4, <2>7
    <3>2. (\A s : ~FullTaskOf(task, s)) /\ FlagsBacked(State, assigned_tasks)
      BY <2>3, <2>7 DEF FullTaskOf, ListOK
    <3>3. FlagsBacked(State', assigned_tasks')
      BY <2>1, <2>2, <2>6, <2>7, <3>1, <3>2 DEF FlagsBacked, FullTaskOf
    <3> QED  BY <2>2, <2>3, <2>4, <2>5, <2>6, <3>1, <3>3
             DEF ListOK, MonitoredIsActive, WatchesListed, PendingKnown
  <2>8. CASE task.type = "FULL"
    <3>1. PICK old, new \in DirData :
            /\ old \in Range(watched_dirs) /\ old.source = task.source
            /\ new = [old EXCEPT !.synchronizing = 0]
            /\ Range(watched_dirs)' = (Range(watched_dirs) \ {old}) \cup {new}
            /\ \A p \in Range(watched_dirs) \ {old} : p.source # task.source
      BY <2>4, <2>8 DEF FlagCleared
    <3>2. /\ new.source = old.source /\ new.synchronizing = 0
          /\ new.watch_descriptor = old.watch_descriptor /\ (Active(new) <=> Active(old))
      BY <3>1 DEF DirData, Active
    <3>3. FlagsBacked(State', assigned_tasks')
      <4> SUFFICES ASSUME NEW p \in Range(watched_dirs'), p.synchronizing = 1
                   PROVE  \E t \in Range(task_queue') \cup Range(assigned_tasks') :
                            FullTaskOf(t, p.source)
        BY <2>6 DEF FlagsBacked
      <4>1. p \in Range(watched_dirs) /\ p.source # task.source
        <5>1. p # new
          BY <3>2
        <5>2. p \in Range(watched_dirs) \ {old}
          BY <3>1, <5>1
        <5> QED  BY <3>1, <5>2
      <4>2. PICK t \in Range(task_queue) \cup Range(assigned_tasks) : FullTaskOf(t, p.source)
        BY <2>3, <2>6, <4>1 DEF ListOK, FlagsBacked
      <4>3. t # task
        BY <4>1, <4>2 DEF FullTaskOf
      <4> QED  BY <2>1, <2>2, <4>2, <4>3
    <3>4. MonitoredIsActive(State')
      BY <2>3, <2>5, <2>6, <3>1, <3>2, ZenonT(40) DEF ListOK, MonitoredIsActive
    <3>5. WatchesListed(State')
      <4> SUFFICES ASSUME NEW d \in Dirs, watch'[d] # NoWatch
                   PROVE  \E p \in Range(watched_dirs') :
                            p.watch_descriptor = watch'[d] /\ Active(p)
        BY <2>6 DEF WatchesListed
      <4>1. watch'[d] = watch[d]
        BY <2>2
      <4>2. PICK p \in Range(watched_dirs) : p.watch_descriptor = watch[d] /\ Active(p)
        BY <2>3, <2>6, <4>1 DEF ListOK, WatchesListed
      <4>3. CASE p = old
        BY <3>1, <3>2, <4>1, <4>2, <4>3
      <4>4. CASE p # old
        BY <3>1, <4>1, <4>2, <4>4
      <4> QED  BY <4>3, <4>4
    <3>6. PendingKnown(State')
      <4> SUFFICES ASSUME NEW e \in Range(ino_queue')
                   PROVE  \E p \in Range(watched_dirs') : p.watch_descriptor = e.wd
        BY <2>6 DEF PendingKnown
      <4>1. PICK p \in Range(watched_dirs) : p.watch_descriptor = e.wd
        BY <2>2, <2>3, <2>6 DEF ListOK, PendingKnown
      <4>2. CASE p = old
        BY <3>1, <3>2, <4>1, <4>2
      <4>3. CASE p # old
        BY <3>1, <4>1, <4>3
      <4> QED  BY <4>2, <4>3
    <3> QED  BY <2>4, <2>6, <3>3, <3>4, <3>5, <3>6 DEF ListOK
  <2> QED  BY <2>7, <2>8
<1>7. ASSUME NEW i \in 1 .. WorkerLimit, WorkerFinishes(i) PROVE ListOK(State, assigned_tasks)'
  <2> DEFINE task == assigned_tasks[i]
             done == [task EXCEPT !.done = TRUE]
  <2>1. UNCHANGED <<phase, watched_dirs, log, watch, task_queue, ino_queue>>
    BY <1>7 DEF WorkerFinishes, loopVars, dirVars, kernelVars
  <2>2. /\ i \in 1 .. Len(assigned_tasks) /\ task \in Task /\ assigned_tasks \in Seq(Task)
        /\ assigned_tasks' = [assigned_tasks EXCEPT ![i] = done]
        /\ DOMAIN assigned_tasks = 1 .. Len(assigned_tasks)
    BY <1>0, <1>7, LenProperties, ElementOfSeq, SMTT(30) DEF WorkerFinishes, TypeOK
  <2>3. \A s : FullTaskOf(task, s) => FullTaskOf(done, s)
    BY <2>2 DEF FullTaskOf, Task
  <2> HIDE DEF task, done
  <2>4. DOMAIN assigned_tasks' = DOMAIN assigned_tasks /\ assigned_tasks'[i] = done
        /\ \A j \in DOMAIN assigned_tasks \ {i} : assigned_tasks'[j] = assigned_tasks[j]
    BY <2>2
  <2>5. \A t \in Range(assigned_tasks) : t = task \/ t \in Range(assigned_tasks')
    BY <2>4 DEF Range, task
  <2>6. done \in Range(assigned_tasks')
    BY <2>2, <2>4 DEF Range
  <2>7. ListOK(State, assigned_tasks)
    BY <1>1, <1>2, <2>1 DEF ListAlive, Running
  <2> QED  BY <2>1, <2>3, <2>5, <2>6, <2>7, ListFrame
<1>8. ASSUME NEW d \in Dirs, FileEvent(d) PROVE ListOK(State, assigned_tasks)'
  <2> DEFINE e == [wd |-> watch[d], event |-> events']
  <2>1. /\ UNCHANGED <<phase, watched_dirs, log, watch, task_queue, assigned_tasks>>
        /\ watch[d] # NoWatch /\ ino_queue' = Append(ino_queue, e)
    BY <1>8 DEF FileEvent, loopVars, dirVars, taskVars
  <2>2. e \in InotifyEvent /\ ino_queue \in Seq(InotifyEvent) /\ e.wd = watch[d]
    BY <1>0, <1>8, ConstantFacts DEF FileEvent, InotifyEvent, TypeOK, Events
  <2> HIDE DEF e
  <2>3. Range(ino_queue') = Range(ino_queue) \cup {e}
    BY <2>1, <2>2, RangeOfAppend
  <2>4. ListOK(State, assigned_tasks)
    BY <1>1, <1>2, <2>1 DEF ListAlive, Running
  <2>5. \E pair \in Range(watched_dirs) : pair.watch_descriptor = e.wd
    BY <2>1, <2>2, <2>4, StateFields DEF ListOK, WatchesListed
  <2> QED  BY <2>1, <2>3, <2>4, <2>5, ListFrame
<1>9. CASE UNCHANGED listVars /\ phase \notin {"done", "crashed"}
  <2>1. ListOK(State, assigned_tasks)
    BY <1>1, <1>2, <1>9 DEF ListAlive, Running, listVars
  <2> QED  BY <1>9, <2>1, ListFrame DEF listVars
<1>10. \/ try_doing_some_tasks \/ handle_inotify_read \/ handle_command_read
       \/ \E i \in 1 .. WorkerLimit : Complete(i) \/ WorkerFinishes(i)
       \/ \E d \in Dirs : FileEvent(d)
       \/ UNCHANGED listVars /\ phase \notin {"done", "crashed"}
  BY <1>2, RunsOn, ListSteps DEF Poll, AllAnswered, listVars, dirVars, taskVars, kernelVars
<1> QED  BY <1>3, <1>4, <1>5, <1>6, <1>7, <1>8, <1>9, <1>10

(* The invariant is kept: the events pending at a command.                 *)
LEMMA PendingStep == SInv /\ [Next]_vars => (ListAlive' /\ Drained' => PendingWatched(State)')
<1> SUFFICES ASSUME SInv, [Next]_vars, ListAlive', Drained' PROVE PendingWatched(State)'
  OBVIOUS
<1>0. TypeOK /\ (ListAlive /\ Drained => PendingWatched(State))
  BY DEF SInv
<1>1. phase' \notin {"done", "crashed"} /\ watched_dirs' # NULL
  BY DEF ListAlive, Running
<1>2. CASE UNCHANGED <<watch, ino_queue>> /\ ListAlive /\ Drained
  BY <1>0, <1>2 DEF PendingWatched, State
<1>3. CASE ino_queue' = << >>
  BY <1>3 DEF PendingWatched, State, Range
<1>4. CASE Poll
  BY <1>3, <1>4 DEF Poll, Drained, kernelVars
<1>5. CASE AllAnswered
  BY <1>1, <1>2, <1>5 DEF AllAnswered, Drained, ListAlive, Running, kernelVars, dirVars
<1>6. CASE handle_inotify_read
  BY <1>3, <1>6 DEF handle_inotify_read, Drained
<1>7. CASE handle_command_read \/ try_doing_some_tasks
  BY <1>7 DEF handle_command_read, try_doing_some_tasks, Drained
<1>8. ASSUME NEW i \in 1 .. WorkerLimit, Complete(i) PROVE PendingWatched(State)'
  <2>1. phase = "responses" /\ watched_dirs # NULL /\ UNCHANGED phase
    BY <1>0, <1>1, <1>8, CompleteEffect
  <2>2. UNCHANGED <<ready, watch, ino_queue>>
    BY <1>8 DEF Complete, kernelVars
  <2> QED  BY <1>2, <2>1, <2>2 DEF Drained, ListAlive, Running
<1>9. ASSUME NEW i \in 1 .. WorkerLimit, WorkerFinishes(i) PROVE PendingWatched(State)'
  BY <1>1, <1>2, <1>9 DEF WorkerFinishes, Drained, ListAlive, Running, loopVars, dirVars, kernelVars
<1>10. ASSUME NEW d \in Dirs, FileEvent(d) PROVE PendingWatched(State)'
  <2> DEFINE e == [wd |-> watch[d], event |-> events']
  <2>1. /\ UNCHANGED <<phase, ready, watched_dirs, watch>>
        /\ watch[d] # NoWatch /\ ino_queue' = Append(ino_queue, e)
    BY <1>10 DEF FileEvent, loopVars, dirVars
  <2>2. e \in InotifyEvent /\ ino_queue \in Seq(InotifyEvent) /\ e.wd = watch[d]
    BY <1>0, <1>10, ConstantFacts DEF FileEvent, InotifyEvent, TypeOK, Events
  <2> HIDE DEF e
  <2>3. Range(ino_queue') = Range(ino_queue) \cup {e}
    BY <2>1, <2>2, RangeOfAppend
  <2>4. PendingWatched(State)
    BY <1>0, <1>1, <2>1 DEF Drained, ListAlive, Running
  <2> QED  BY <2>1, <2>2, <2>3, <2>4 DEF PendingWatched, State
<1>11. CASE UNCHANGED <<listVars, ready>> /\ (UNCHANGED phase \/ phase' \in {"check", "try", "done"})
  BY <1>1, <1>2, <1>11 DEF listVars, Drained, ListAlive, Running
<1> QED  BY <1>4, <1>5, <1>6, <1>7, <1>8, <1>9, <1>10, <1>11, ListSteps

-----------------------------------------------------------------------------
(***************************************************************************)
(* The invariant holds at the start.                                       *)
(***************************************************************************)

(* The pair of an entry of the configuration file.                         *)
ConfigPair(k) ==
  [source |-> Config[k], watch_descriptor |-> k, status |-> "ACTIVE", synchronizing |-> 1]

LEMMA InitialList ==
  ASSUME ManagerInit
  PROVE  /\ watched_dirs \in Seq(DirData) /\ UniqueSources(watched_dirs)
         /\ Range(watched_dirs) = {ConfigPair(k) : k \in DOMAIN Config}
<1> DEFINE n == Len(Config)
           pairs == [k \in 1 .. n |-> ConfigPair(k)]
<1>1. n \in Nat /\ DOMAIN Config = 1 .. n /\ \A k \in 1 .. n : Config[k] \in Sources
  BY ConstantFacts, LenProperties, ElementOfSeq
<1>2. \A k \in 1 .. n : ConfigPair(k) \in DirData /\ ConfigPair(k).source = Config[k]
  BY <1>1 DEF ConfigPair, DirData
<1>3. Len(pairs) = n /\ \A k \in 1 .. n : pairs[k] = ConfigPair(k)
  BY <1>1
<1>4. watched_dirs = Reverse(pairs)
  BY <1>1 DEF ManagerInit, ConfigPair
<1> HIDE DEF pairs
<1>5. watched_dirs = [i \in 1 .. n |-> ConfigPair((n - i) + 1)]
  <2>1. watched_dirs = [i \in 1 .. n |-> pairs[(n - i) + 1]]
    BY <1>3, <1>4 DEF Reverse
  <2>2. \A i \in 1 .. n : (n - i) + 1 \in 1 .. n
    BY <1>1
  <2> QED  BY <1>3, <2>1, <2>2
<1>6. \A i \in 1 .. n : (n - i) + 1 \in 1 .. n /\ (n - ((n - i) + 1)) + 1 = i
  BY <1>1
<1> HIDE DEF n
<1>7. watched_dirs \in Seq(DirData)
  BY <1>1, <1>2, <1>5, <1>6
<1>8. UniqueSources(watched_dirs)
  <2> SUFFICES ASSUME NEW i \in 1 .. n, NEW j \in 1 .. n,
                      watched_dirs[i].source = watched_dirs[j].source
               PROVE  i = j
    BY <1>5 DEF UniqueSources
  <2>1. Config[(n - i) + 1] = Config[(n - j) + 1]
    BY <1>2, <1>5, <1>6
  <2> DEFINE a == (n - i) + 1
             b == (n - j) + 1
  <2>2. a \in DOMAIN Config /\ b \in DOMAIN Config
    BY <1>1, <1>6
  <2>3. a = b
    <3>1. Config[a] = Config[b]
      BY <2>1
    <3> HIDE DEF a, b
    <3> QED  BY <2>2, <3>1, ConfigAssumption, Zenon
  <2> QED  BY <1>1, <2>3
<1>9. Range(watched_dirs) = {ConfigPair(k) : k \in 1 .. n}
  <2>1. Range(watched_dirs) = {ConfigPair((n - i) + 1) : i \in 1 .. n}
    BY <1>5 DEF Range
  <2>2. \A k \in 1 .. n : ConfigPair(k) = ConfigPair((n - ((n - k) + 1)) + 1)
    BY <1>6
  <2> QED  BY <1>6, <2>1, <2>2
<1> QED  BY <1>1, <1>7, <1>8, <1>9

LEMMA InitialInvariant == Init => SInv
<1> SUFFICES ASSUME Init PROVE SInv
  OBVIOUS
<1> DEFINE n == Len(Config)
<1>1. n \in Nat /\ DOMAIN Config = 1 .. n /\ \A k \in 1 .. n : Config[k] \in Sources
  BY ConstantFacts, LenProperties, ElementOfSeq
<1>2. /\ watched_dirs \in Seq(DirData) /\ UniqueSources(watched_dirs)
      /\ Range(watched_dirs) = {ConfigPair(k) : k \in 1 .. n}
  BY <1>1, InitialList DEF Init
<1>3. \A k \in 1 .. n : /\ ConfigPair(k).source = Config[k] /\ ConfigPair(k).watch_descriptor = k
                        /\ Active(ConfigPair(k))
  BY DEF ConfigPair, Active
<1>4. /\ phase = "try" /\ ready = {} /\ exiting = NoCommand
      /\ log = [EmptyLog EXCEPT !.monitored =
           [s \in Sources |-> IF s \in Range(Config) THEN 1 ELSE Unset]]
      /\ task_queue = [k \in 1 .. n |-> FullTask(Config[k], NoCommand)]
      /\ assigned_tasks = << >>
      /\ watch = [d \in Dirs |->
           IF \E k \in 1 .. n : DirOf[Config[k]] = d
             THEN CHOOSE k \in 1 .. n : DirOf[Config[k]] = d
             ELSE NoWatch]
      /\ next_wd = n + 1
      /\ ino_queue = << >> /\ ino_buf = << >> /\ fss_in = << >> /\ fss_out = << >>
      /\ events = 0 /\ handled = {} /\ console = Prompting /\ sent = 0
  BY <1>1 DEF Init, ManagerInit
<1> HIDE DEF n
<1>5. log \in Log /\ \A s \in Sources : log.monitored[s] = 1 => s \in Range(Config)
  BY <1>4 DEF Log, EmptyLog, Unset
<1>6. /\ task_queue \in Seq(Task)
      /\ \A k \in 1 .. n : FullTask(Config[k], NoCommand) \in Range(task_queue)
  <2>1. \A k \in 1 .. n : FullTask(Config[k], NoCommand) \in Task
    BY <1>1, ConstantFacts DEF FullTask, Task
  <2> QED  BY <1>1, <1>4, <2>1 DEF Range
<1>7. /\ watch \in [Dirs -> Int]
      /\ \A d \in Dirs : watch[d] # NoWatch => watch[d] \in 1 .. n
  <2>1. ASSUME NEW d \in Dirs PROVE watch[d] = NoWatch \/ watch[d] \in 1 .. n
    BY <1>4
  <2> QED  BY <1>1, <1>4, <2>1, ConstantFacts
<1>8. TypeOK
  BY <1>1, <1>2, <1>4, <1>5, <1>6, <1>7, ConstantFacts DEF TypeOK
<1>9. FlagsBacked(State, assigned_tasks)
  <2>1. \A k \in 1 .. n : FullTaskOf(FullTask(Config[k], NoCommand), Config[k])
    BY DEF FullTaskOf, FullTask
  <2> QED  BY <1>2, <1>3, <1>6, <2>1, StateFields DEF FlagsBacked
<1>10. MonitoredIsActive(State)
  <2>1. \A s \in Range(Config) : \E k \in 1 .. n : Config[k] = s
    BY <1>1 DEF Range
  <2> QED  BY <1>2, <1>3, <1>5, <2>1, StateFields DEF MonitoredIsActive
<1>11. WatchesListed(State)
  BY <1>2, <1>3, <1>7, StateFields DEF WatchesListed
<1>12. Range(State.ino) = {}
  BY <1>4, StateFields DEF Range
<1>13. PendingKnown(State) /\ PendingWatched(State)
  BY <1>12 DEF PendingKnown, PendingWatched
<1>14. UniqueSources(State.dirs)
  BY <1>2, StateFields
<1>15. ListOK(State, assigned_tasks)
  BY <1>9, <1>10, <1>11, <1>13, <1>14 DEF ListOK
<1>16. LineWaits /\ watched_dirs # NULL
  BY <1>2, <1>4, FreedListAssumption DEF LineWaits
<1> QED  BY <1>8, <1>13, <1>15, <1>16 DEF SInv

-----------------------------------------------------------------------------
(***************************************************************************)
(* The theorems.                                                           *)
(***************************************************************************)

(* What is known of the event loop between any two of its steps: the types,*)
(* the lines that wait in the FIFO (LineWaits), that only shutdown frees   *)
(* the list, and while there is a list, what relates it to the queues, the *)
(* log and the kernel's watches and pending events.                        *)
THEOREM LoopInvariant == Spec => []SInv
<1>1. Init => SInv
  BY InitialInvariant
<1>2. SInv /\ [Next]_vars => SInv'
  BY TypeStep, LineStep, FreedStep, ListStep, PendingStep DEF SInv
<1> QED  BY <1>1, <1>2, PTL DEF Spec

(* The event loop, its queues, the directory list, the kernel's side and   *)
(* the console keep to their types; no more than worker_limit tasks are    *)
(* with a worker.                                                          *)
THEOREM TypeCorrect == Spec => []TypeOK
<1>1. SInv => TypeOK
  BY DEF SInv
<1> QED  BY <1>1, LoopInvariant, PTL

(* A synchronizing flag that is set has its full synchronisation queued or *)
(* with a worker, so sync never refuses a pair for ever: cancel clears the *)
(* flag although the task stays, and the completion of that task may clear *)
(* the flag of the pair that was resumed meanwhile, but never the other    *)
(* way round.                                                              *)
THEOREM FlagsAreBacked == Spec => []FlagIsBacked
<1>1. SInv => FlagIsBacked
  <2> SUFFICES ASSUME SInv, ListAlive, NEW k \in DOMAIN watched_dirs,
                      watched_dirs[k].synchronizing = 1
               PROVE  FullTasks(watched_dirs[k].source) # {}
    BY DEF FlagIsBacked
  <2>1. watched_dirs[k] \in Range(watched_dirs) /\ FlagsBacked(State, assigned_tasks)
    BY DEF SInv, ListOK, Range
  <2>2. \E t \in Outstanding : FullTaskOf(t, watched_dirs[k].source)
    BY <2>1, StateFields DEF FlagsBacked, Outstanding
  <2> QED  BY <2>2 DEF FullTasks, FullTaskOf
<1> QED  BY <1>1, LoopInvariant, PTL

(* Every event the kernel holds is about a descriptor some pair has, also  *)
(* after cancel and sync have given the pair another one: a command is     *)
(* executed only after the events of the last poll have been read.         *)
THEOREM EventsAreKnown == Spec => []PendingEventsAreKnown
<1>1. SInv => PendingEventsAreKnown
  <2> SUFFICES ASSUME SInv, ListAlive, NEW k \in DOMAIN ino_queue
               PROVE  findByWD(watched_dirs, ino_queue[k].wd) # NULL
    BY DEF PendingEventsAreKnown
  <2>1. watched_dirs \in Seq(DirData) /\ PendingKnown(State)
    BY DEF SInv, TypeOK, ListAlive, ListOK
  <2>2. ino_queue[k] \in Range(State.ino)
    BY StateFields DEF Range
  <2>3. \E pair \in Range(watched_dirs) : pair.watch_descriptor = ino_queue[k].wd
    BY <2>1, <2>2, StateFields DEF PendingKnown
  <2> QED  BY <2>1, <2>3, FindByWD
<1> QED  BY <1>1, LoopInvariant, PTL

(* What fss_script.sh lists as monitored is active: add and cancel log     *)
(* what they do, and a task that completes after cancel changes when a     *)
(* source was last synchronised but not whether it is monitored.           *)
THEOREM MonitoredAreActive == Spec => []ListMonitoredIsActive
<1>1. SInv => ListMonitoredIsActive
  <2> SUFFICES ASSUME SInv, ListAlive, NEW s \in listMonitored(log)
               PROVE  \E k \in DOMAIN watched_dirs :
                        watched_dirs[k].source = s /\ watched_dirs[k].status = "ACTIVE"
    BY DEF ListMonitoredIsActive
  <2>1. s \in Sources /\ log.monitored[s] = 1
    BY DEF listMonitored, SInv, TypeOK, Log
  <2>2. \E pair \in Range(watched_dirs) : pair.source = s /\ Active(pair)
    BY <2>1, StateFields DEF SInv, ListOK, MonitoredIsActive
  <2> QED  BY <2>2 DEF Range, Active
<1> QED  BY <1>1, LoopInvariant, PTL

-----------------------------------------------------------------------------
(***************************************************************************)
(* Watches, when the paths lead to directories of their own.               *)
(***************************************************************************)

LEMMA ListedSource ==
  ASSUME NEW st \in ManagerState, NEW pair \in Range(st.dirs)
  PROVE  pair \in DirData /\ pair.source \in Sources
<1>1. st.dirs \in Seq(DirData)
  BY DEF ManagerState
<1>2. PICK k \in 1 .. Len(st.dirs) : pair = st.dirs[k]
  BY <1>1, RangeEquality
<1>3. pair \in DirData
  BY <1>1, <1>2, ElementOfSeq
<1> QED  BY <1>3 DEF DirData

LEMMA SyncKeepsWatches ==
  ASSUME DistinctDirs, NEW st \in ManagerState, UniqueSources(st.dirs), OwnWatches(st),
         NEW s \in Sources, NEW c \in Commands \cup {NoCommand}
  PROVE  OwnWatches(sync(st, s, c))
<1> DEFINE r == sync(st, s, c)
           w == inotify_add_watch(st, s)
<1>1. r \in ManagerState /\ (r = Reply(st, c) \/ SyncQueued(st, r, s, c))
  BY SyncEffect
<1>2. CASE r = Reply(st, c)
  BY <1>1, <1>2, ReplyEffect, AnswerKeepsList
<1>3. CASE SyncQueued(st, r, s, c)
  <2> HIDE DEF r
  <2>1. PICK old, new \in DirData :
          /\ old \in Range(st.dirs) /\ old.source = s
          /\ new.source = s /\ Active(new)
          /\ UniqueSources(r.dirs) /\ Range(r.dirs) = (Range(st.dirs) \ {old}) \cup {new}
          /\ \/ /\ Active(old) /\ new.watch_descriptor = old.watch_descriptor
                /\ r.watch = st.watch /\ r.next_wd = st.next_wd
             \/ /\ ~Active(old) /\ new.watch_descriptor = WatchOn(st, s)
                /\ r.watch = w.watch /\ r.next_wd = w.next_wd
    BY <1>3 DEF SyncQueued
  <2>2. CASE Active(old)
    <3>1. r.watch = st.watch /\ r.next_wd = st.next_wd /\ HasOwnWatch(r, new)
      BY <2>1, <2>2 DEF OwnWatches, HasOwnWatch
    <3>2. \A p \in Range(st.dirs) : HasOwnWatch(r, p)
      BY <3>1 DEF OwnWatches, HasOwnWatch
    <3>3. \A p \in Range(r.dirs) : HasOwnWatch(r, p)
      BY <2>1, <3>1, <3>2
    <3> QED  BY <3>1, <3>3 DEF OwnWatches, r
  <2>3. CASE ~Active(old)
    <3>1. DirOf[s] \in Dirs /\ st.watch[DirOf[s]] = NoWatch /\ st.next_wd \in Nat
          /\ st.watch \in [Dirs -> Int]
      BY <2>1, <2>3, ConstantFacts DEF OwnWatches, HasOwnWatch, DistinctDirs, ManagerState
    <3>2. WatchOn(st, s) = st.next_wd /\ w.next_wd = st.next_wd + 1 /\ st.next_wd # NoWatch
      BY <3>1, AddWatchEffect, ConstantFacts DEF DistinctDirs
    <3>3. \A d \in Dirs : w.watch[d] = IF d = DirOf[s] THEN st.next_wd ELSE st.watch[d]
      BY <3>1, <3>2, AddWatchEffect DEF DistinctDirs
    <3> HIDE DEF w
    <3>4. \A d \in Dirs : st.watch[d] \in Int /\ (r.watch[d] # NoWatch => r.watch[d] < r.next_wd)
      BY <2>1, <2>3, <3>1, <3>2, <3>3 DEF OwnWatches
    <3>5. \A d, e \in Dirs : r.watch[d] = r.watch[e] /\ r.watch[d] # NoWatch => d = e
      BY <2>1, <2>3, <3>1, <3>3, <3>4 DEF OwnWatches
    <3>6. \A p \in Range(st.dirs) \ {old} : p.source # s
      BY <2>1 DEF UniqueSources, Range
    <3>7. ASSUME NEW p \in Range(r.dirs)
          PROVE  HasOwnWatch(r, p)
      <4>1. CASE p = new
        BY <2>1, <2>3, <3>1, <3>2, <3>3, <4>1 DEF HasOwnWatch
      <4>2. CASE p # new
        <5>1. p \in Range(st.dirs) /\ p.source # s /\ p.source \in Sources
          BY <2>1, <3>6, <4>2, ListedSource
        <5>2. DirOf[p.source] \in Dirs /\ DirOf[p.source] # DirOf[s]
          BY <5>1, ConstantFacts DEF DistinctDirs
        <5> QED  BY <2>1, <2>3, <3>3, <5>1, <5>2 DEF OwnWatches, HasOwnWatch
      <4> QED  BY <4>1, <4>2
    <3> QED  BY <3>4, <3>5, <3>7 DEF OwnWatches, r
  <2> QED  BY <2>2, <2>3 DEF r
<1> QED  BY <1>1, <1>2, <1>3

LEMMA AddKeepsWatches ==
  ASSUME DistinctDirs, NEW st \in ManagerState, UniqueSources(st.dirs), OwnWatches(st),
         NEW s \in Sources, NEW c \in Commands \cup {NoCommand}
  PROVE  OwnWatches(add(st, s, c))
<1>1. CASE findBySource(st.dirs, s) # NULL
  BY <1>1, AddIsInsertThenSync, ReplyEffect, AnswerKeepsList
<1>2. CASE findBySource(st.dirs, s) = NULL
  <2> DEFINE r == Added(st, s)
             w == inotify_add_watch(st, s)
             new == NewPair(st, s)
  <2>1. /\ r \in ManagerState /\ UniqueSources(r.dirs)
        /\ \A pair \in Range(st.dirs) : pair.source # s
        /\ Range(r.dirs) = Range(st.dirs) \cup {new}
        /\ r.watch = w.watch /\ r.next_wd = w.next_wd
    BY <1>2, AddedEffect
  <2>2. /\ new.source = s /\ new.watch_descriptor = WatchOn(st, s) /\ Active(new)
    BY DEF NewPair, Active
  <2>3. DirOf[s] \in Dirs /\ st.next_wd \in Nat /\ st.watch \in [Dirs -> Int]
    BY ConstantFacts DEF DistinctDirs, ManagerState
  <2>4. /\ \A d \in Dirs : w.watch[d] = IF d = DirOf[s] THEN WatchOn(st, s) ELSE st.watch[d]
        /\ \/ WatchOn(st, s) = st.next_wd /\ w.next_wd = st.next_wd + 1
           \/ /\ w.next_wd = st.next_wd
              /\ WatchOn(st, s) = st.watch[DirOf[s]] /\ WatchOn(st, s) # NoWatch
    BY AddWatchEffect DEF DistinctDirs
  <2> HIDE DEF r, w, new
  <2>5. WatchOn(st, s) # NoWatch
    BY <2>3, <2>4, ConstantFacts
  <2>6. \A d \in Dirs : st.watch[d] \in Int /\ (r.watch[d] # NoWatch => r.watch[d] < r.next_wd)
    BY <2>1, <2>3, <2>4 DEF OwnWatches
  <2>7. \A d, e \in Dirs : r.watch[d] = r.watch[e] /\ r.watch[d] # NoWatch => d = e
    BY <2>1, <2>3, <2>4, <2>6 DEF OwnWatches
  <2>8. ASSUME NEW p \in Range(r.dirs)
        PROVE  HasOwnWatch(r, p)
    <3>1. CASE p = new
      BY <2>1, <2>2, <2>3, <2>4, <2>5, <3>1 DEF HasOwnWatch
    <3>2. CASE p # new
      <4>1. p \in Range(st.dirs) /\ p.source # s /\ p.source \in Sources
        BY <2>1, <3>2, ListedSource
      <4>2. DirOf[p.source] \in Dirs /\ DirOf[p.source] # DirOf[s]
        BY <4>1, ConstantFacts DEF DistinctDirs
      <4> QED  BY <2>1, <2>4, <4>1, <4>2 DEF OwnWatches, HasOwnWatch
    <3> QED  BY <3>1, <3>2
  <2>9. OwnWatches(r)
    BY <2>6, <2>7, <2>8 DEF OwnWatches
  <2>10. Reply(r, c) \in ManagerState /\ UniqueSources(Reply(r, c).dirs) /\ OwnWatches(Reply(r, c))
    <3>1. Reply(r, c) \in ManagerState /\ SameBut_out(Reply(r, c), r)
      BY <2>1, ReplyEffect
    <3> QED  BY <2>1, <2>9, <3>1, AnswerKeepsList DEF SameBut_out
  <2>11. add(st, s, c) = sync(Reply(r, c), s, NoCommand)
    BY <1>2, AddIsInsertThenSync DEF r
  <2> QED  BY <2>10, <2>11, SyncKeepsWatches
<1> QED  BY <1>1, <1>2

LEMMA CancelKeepsWatches ==
  ASSUME DistinctDirs, NEW st \in ManagerState, UniqueSources(st.dirs), OwnWatches(st),
         NEW s \in Sources, NEW c \in Commands \cup {NoCommand}
  PROVE  OwnWatches(cancel(st, s, c))
<1> DEFINE r == cancel(st, s, c)
<1>1. r \in ManagerState /\ (r = Reply(st, c) \/ Cancelled(st, r, s))
  BY CancelEffect
<1>2. CASE r = Reply(st, c)
  BY <1>1, <1>2, ReplyEffect, AnswerKeepsList
<1>3. CASE Cancelled(st, r, s)
  <2> HIDE DEF r
  <2>1. PICK old, new \in DirData :
          /\ old \in Range(st.dirs) /\ old.source = s /\ Active(old)
          /\ new.source = s /\ ~Active(new)
          /\ Range(r.dirs) = (Range(st.dirs) \ {old}) \cup {new}
          /\ r.next_wd = st.next_wd
          /\ r.watch = inotify_rm_watch(st, old.watch_descriptor).watch
    BY <1>3 DEF Cancelled
  <2>2. \A d \in Dirs : r.watch[d] = IF st.watch[d] = old.watch_descriptor THEN NoWatch
                                     ELSE st.watch[d]
    BY <2>1, RemoveWatchEffect, SMTT(30) DEF DirData
  <2>3. /\ DirOf[s] \in Dirs /\ st.watch[DirOf[s]] = old.watch_descriptor
        /\ old.watch_descriptor # NoWatch
    BY <2>1, ConstantFacts DEF OwnWatches, HasOwnWatch, DistinctDirs
  <2>4. \A d \in Dirs : r.watch[d] = IF d = DirOf[s] THEN NoWatch ELSE st.watch[d]
    BY <2>2, <2>3 DEF OwnWatches
  <2>5. ASSUME NEW p \in Range(r.dirs)
        PROVE  HasOwnWatch(r, p)
    <3>1. CASE p = new
      BY <2>1, <2>3, <2>4, <3>1 DEF HasOwnWatch
    <3>2. CASE p # new
      <4>1. p \in Range(st.dirs) /\ p.source # s /\ p.source \in Sources
        BY <2>1, <3>2, ListedSource DEF UniqueSources, Range
      <4>2. DirOf[p.source] \in Dirs /\ DirOf[p.source] # DirOf[s]
        BY <4>1, ConstantFacts DEF DistinctDirs
      <4> QED  BY <2>4, <4>1, <4>2 DEF OwnWatches, HasOwnWatch
    <3> QED  BY <3>1, <3>2
  <2> QED  BY <2>1, <2>4, <2>5 DEF OwnWatches, r
<1> QED  BY <1>1, <1>2, <1>3

LEMMA CommandKeepsWatches ==
  ASSUME DistinctDirs, NEW st \in ManagerState, UniqueSources(st.dirs), OwnWatches(st),
         NEW c \in Command, c.op # "shutdown"
  PROVE  OwnWatches(execute_command(st, c))
<1>1. c.op \in Ops /\ c.src \in Sources /\ c.id \in Commands \cup {NoCommand}
  BY DEF Command
<1>2. CASE c.op = "sync"
  BY <1>1, <1>2, SyncKeepsWatches DEF execute_command
<1>3. CASE c.op = "add"
  BY <1>1, <1>3, AddKeepsWatches DEF execute_command
<1>4. CASE c.op = "cancel"
  BY <1>1, <1>4, CancelKeepsWatches DEF execute_command
<1>5. CASE c.op = "blank"
  BY <1>1, <1>5 DEF execute_command
<1>6. CASE c.op \in {"status", "bad"}
  <2>1. execute_command(st, c) = Reply(st, c.id)
    BY <1>6 DEF execute_command
  <2> QED  BY <1>1, <2>1, ReplyEffect, AnswerKeepsList
<1> QED  BY <1>1, <1>2, <1>3, <1>4, <1>5, <1>6 DEF Ops

LEMMA WatchStep == AInv /\ [Next]_vars => (ListAlive' => OwnWatches(State)')
<1> SUFFICES ASSUME AInv, [Next]_vars, ListAlive' PROVE OwnWatches(State)'
  OBVIOUS
<1>0. SInv /\ TypeOK /\ DistinctDirs /\ (ListAlive => OwnWatches(State))
  BY DEF AInv, SInv
<1>1. phase' \notin {"done", "crashed"} /\ phase \notin {"done", "crashed"} /\ watched_dirs' # NULL
  BY RunsOn DEF ListAlive, Running
<1>2. CASE handle_command_read
  <2>1. /\ watched_dirs # NULL /\ State \in ManagerState /\ UniqueSources(State.dirs)
        /\ Head(fss_in) \in Command /\ Head(fss_in).op # "shutdown"
        /\ State' = execute_command(State, Head(fss_in))
    BY <1>0, <1>1, <1>2, CommandEffect DEF ListOK
  <2>2. OwnWatches(State)
    BY <1>0, <1>1, <2>1 DEF ListAlive, Running
  <2>3. OwnWatches(execute_command(State, Head(fss_in)))
    BY <1>0, <2>1, <2>2, CommandKeepsWatches
  <2> QED  BY <2>1, <2>3
<1>3. ASSUME NEW i \in 1 .. WorkerLimit, Complete(i) PROVE OwnWatches(State)'
  <2> DEFINE task == assigned_tasks[i]
  <2>1. /\ watched_dirs # NULL
        /\ IF task.type = "FULL" THEN FlagCleared(task.source) ELSE UNCHANGED watched_dirs
    BY <1>0, <1>1, <1>3, CompletedList
  <2>2. UNCHANGED <<watch, next_wd>> /\ OwnWatches(State)
    BY <1>0, <1>1, <1>3, <2>1 DEF Complete, kernelVars, ListAlive, Running
  <2>3. CASE UNCHANGED watched_dirs
    BY <2>2, <2>3 DEF OwnWatches, HasOwnWatch, State
  <2>4. CASE FlagCleared(task.source)
    <3>1. PICK old, new \in DirData :
            /\ old \in Range(watched_dirs)
            /\ new = [old EXCEPT !.synchronizing = 0]
            /\ Range(watched_dirs)' = (Range(watched_dirs) \ {old}) \cup {new}
      BY <2>4 DEF FlagCleared
    <3>2. /\ new.source = old.source /\ new.watch_descriptor = old.watch_descriptor
          /\ (Active(new) <=> Active(old))
      BY <3>1 DEF DirData, Active
    <3>3. /\ State.dirs = watched_dirs /\ State.watch = watch /\ State.next_wd = next_wd
          /\ State'.dirs = watched_dirs' /\ State'.watch = watch' /\ State'.next_wd = next_wd'
      BY DEF State
    <3>4. \A p \in Range(watched_dirs) : HasOwnWatch(State', p)
      BY <2>2, <3>3 DEF OwnWatches, HasOwnWatch
    <3>5. HasOwnWatch(State', new)
      BY <3>1, <3>2, <3>4 DEF HasOwnWatch
    <3> QED  BY <2>2, <3>1, <3>3, <3>4, <3>5 DEF OwnWatches
  <2> QED  BY <2>1, <2>3, <2>4
<1>4. CASE UNCHANGED <<watched_dirs, watch, next_wd>>
  <2>1. OwnWatches(State)
    BY <1>0, <1>1, <1>4 DEF ListAlive, Running
  <2> QED  BY <1>4, <2>1 DEF OwnWatches, HasOwnWatch, State
<1>5. \/ handle_command_read
      \/ \E i \in 1 .. WorkerLimit : Complete(i)
      \/ UNCHANGED <<watched_dirs, watch, next_wd>>
  BY ListSteps DEF try_doing_some_tasks, Poll, AllAnswered, handle_inotify_read, WorkerFinishes,
                   FileEvent, listVars, dirVars, kernelVars
<1> QED  BY <1>2, <1>3, <1>4, <1>5

LEMMA InitialWatches == Init /\ DistinctDirs => OwnWatches(State)
<1> SUFFICES ASSUME Init, DistinctDirs PROVE OwnWatches(State)
  OBVIOUS
<1> DEFINE n == Len(Config)
           at(d) == CHOOSE k \in 1 .. n : DirOf[Config[k]] = d
<1>1. n \in Nat /\ DOMAIN Config = 1 .. n /\ \A k \in 1 .. n : Config[k] \in Sources
  BY ConstantFacts, LenProperties, ElementOfSeq
<1>2. Range(watched_dirs) = {ConfigPair(k) : k \in 1 .. n}
  BY <1>1, InitialList DEF Init
<1>3. \A k \in 1 .. n : /\ ConfigPair(k).source = Config[k] /\ ConfigPair(k).watch_descriptor = k
                        /\ Active(ConfigPair(k))
  BY DEF ConfigPair, Active
<1>4. /\ next_wd = n + 1
      /\ \A d \in Dirs : watch[d] = IF \E k \in 1 .. n : DirOf[Config[k]] = d THEN at(d) ELSE NoWatch
  BY <1>1 DEF Init, ManagerInit
<1>5. \A k \in 1 .. n : DirOf[Config[k]] \in Dirs /\ at(DirOf[Config[k]]) = k /\ k # NoWatch
  <2>1. \A j, k \in 1 .. n : DirOf[Config[j]] = DirOf[Config[k]] => j = k
    BY <1>1, ConfigAssumption
  <2>2. \A k \in 1 .. n : DirOf[Config[k]] \in Dirs
    BY <1>1, ConstantFacts DEF DistinctDirs
  <2> QED  BY <1>1, <2>1, <2>2, ConstantFacts
<1> HIDE DEF n, at
<1>6. \A k \in 1 .. n : watch[DirOf[Config[k]]] = k
  BY <1>4, <1>5
<1>7. \A d \in Dirs : watch[d] # NoWatch =>
        watch[d] \in 1 .. n /\ DirOf[Config[watch[d]]] = d
  <2> SUFFICES ASSUME NEW d \in Dirs, watch[d] # NoWatch
               PROVE  watch[d] \in 1 .. n /\ DirOf[Config[watch[d]]] = d
    OBVIOUS
  <2>1. PICK k \in 1 .. n : DirOf[Config[k]] = d
    BY <1>4
  <2> QED  BY <1>6, <2>1
<1>8. \A d \in Dirs : watch[d] # NoWatch => watch[d] < next_wd
  BY <1>1, <1>4, <1>7
<1>9. \A d, e \in Dirs : watch[d] = watch[e] /\ watch[d] # NoWatch => d = e
  BY <1>7
<1> QED  BY <1>2, <1>3, <1>5, <1>6, <1>8, <1>9, StateFields DEF OwnWatches, HasOwnWatch

(* When the paths lead to directories of their own, the status a user sees *)
(* is what the kernel does: a pair is active exactly when its directory is *)
(* watched, under the descriptor of the pair, through every add, cancel    *)
(* and sync.                                                               *)
THEOREM ActiveIsWatched == DistinctDirs /\ Spec => []ActiveMeansWatched
<1>1. DistinctDirs /\ Init => AInv
  BY InitialInvariant, InitialWatches DEF AInv
<1>2. AInv /\ [Next]_vars => AInv'
  <2>1. AInv /\ [Next]_vars => SInv'
    BY TypeStep, LineStep, FreedStep, ListStep, PendingStep DEF SInv, AInv
  <2>2. AInv => DistinctDirs'
    BY DEF AInv, DistinctDirs
  <2> QED  BY <2>1, <2>2, WatchStep DEF AInv
<1>3. AInv => ActiveMeansWatched
  <2> SUFFICES ASSUME AInv, ListAlive, NEW k \in DOMAIN watched_dirs
               PROVE  LET d == watched_dirs[k] IN
                        IF d.status = "ACTIVE" THEN watch[DirOf[d.source]] = d.watch_descriptor
                                               ELSE watch[DirOf[d.source]] = NoWatch
    BY DEF ActiveMeansWatched
  <2>1. watched_dirs[k] \in Range(watched_dirs) /\ OwnWatches(State)
    BY DEF AInv, Range
  <2> QED  BY <2>1, StateFields DEF OwnWatches, HasOwnWatch, Active
<1> QED  BY <1>1, <1>2, <1>3, PTL DEF Spec

=============================================================================
