-------------------------- MODULE TaskQueueProofs --------------------------
(***************************************************************************)
(* What the operations of TaskQueue return and preserve, for every queue.  *)
(* The proofs about WorkerPool cite these facts and never look inside the  *)
(* operations.                                                             *)
(***************************************************************************)
EXTENDS TaskQueue, SequenceFacts

(* The queues whose tasks belong to S.                                     *)
QueueOf(S) == [count : Nat, items : Seq(S)]

(* The position readTaskByPid and extractTaskByPid stop at is one that     *)
(* carries the pid.                                                        *)
LEMMA PositionOfPidFound ==
  ASSUME NEW S, NEW queue \in QueueOf(S), NEW pid, HoldsPid(queue, pid)
  PROVE  /\ PositionOfPid(queue, pid) \in 1 .. Len(queue.items)
         /\ queue.items[PositionOfPid(queue, pid)].pid = pid
<1> DEFINE P == {k \in 1 .. Len(queue.items) : queue.items[k].pid = pid}
<1>1. P \in SUBSET Nat /\ P # {}
  BY DEF HoldsPid, QueueOf
<1>2. \E k \in P : \A j \in P : k <= j
  BY <1>1, FirstPositionExists
<1>3. \E k \in 1 .. Len(queue.items) :
        /\ queue.items[k].pid = pid
        /\ \A j \in 1 .. (k - 1) : queue.items[j].pid # pid
  BY <1>2 DEF QueueOf
<1> QED  BY <1>3 DEF PositionOfPid

(* readTaskByPid returns a task of the queue that carries the pid.         *)
LEMMA ReadTaskByPidFound ==
  ASSUME NEW S, NEW queue \in QueueOf(S), NEW pid, HoldsPid(queue, pid)
  PROVE  readTaskByPid(queue, pid) \in S /\ readTaskByPid(queue, pid).pid = pid
BY PositionOfPidFound, ElementOfSeq DEF readTaskByPid, QueueOf

(* insertTask: a queue that holds what it held, and the new task.          *)
LEMMA InsertTaskHolds ==
  ASSUME NEW S, NEW queue \in QueueOf(S), NEW task \in S
  PROVE  /\ insertTask(queue, task) \in QueueOf(S)
         /\ Len(insertTask(queue, task).items) = Len(queue.items) + 1
         /\ \A pid : HoldsPid(insertTask(queue, task), pid)
                       <=> HoldsPid(queue, pid) \/ task.pid = pid
<1> DEFINE q == insertTask(queue, task)
<1>1. /\ q.items = Append(queue.items, task) /\ q.count = queue.count + 1
      /\ q = [count |-> queue.count + 1, items |-> Append(queue.items, task)]
  BY DEF insertTask
<1>2. /\ q.items \in Seq(S) /\ q.items # << >> /\ Len(q.items) = Len(queue.items) + 1
      /\ \A k \in 1 .. Len(queue.items) : q.items[k] = queue.items[k]
      /\ q.items[Len(queue.items) + 1] = task
  BY <1>1, AppendProperties DEF QueueOf
<1>3. q \in QueueOf(S)
  BY <1>1, <1>2 DEF QueueOf
<1>4. Len(queue.items) \in Nat
  BY DEF QueueOf
<1>5. ASSUME NEW pid
      PROVE  HoldsPid(q, pid) <=> HoldsPid(queue, pid) \/ task.pid = pid
  <2>1. ASSUME HoldsPid(q, pid) PROVE HoldsPid(queue, pid) \/ task.pid = pid
    <3>1. PICK k \in 1 .. Len(q.items) : q.items[k].pid = pid
      BY <2>1 DEF HoldsPid
    <3>2. CASE k = Len(queue.items) + 1
      BY <3>1, <3>2, <1>2
    <3>3. CASE k # Len(queue.items) + 1
      <4>1. k \in 1 .. Len(queue.items)
        BY <3>3, <1>2, <1>4
      <4> QED  BY <4>1, <3>1, <1>2 DEF HoldsPid
    <3> QED  BY <3>2, <3>3
  <2>2. ASSUME HoldsPid(queue, pid) PROVE HoldsPid(q, pid)
    <3>1. PICK k \in 1 .. Len(queue.items) : queue.items[k].pid = pid
      BY <2>2 DEF HoldsPid
    <3>2. k \in 1 .. Len(q.items) /\ q.items[k].pid = pid
      BY <3>1, <1>2, <1>4
    <3> QED  BY <3>2 DEF HoldsPid
  <2>3. ASSUME task.pid = pid PROVE HoldsPid(q, pid)
    <3>1. Len(q.items) \in 1 .. Len(q.items) /\ q.items[Len(q.items)].pid = pid
      BY <2>3, <1>2, <1>4
    <3> QED  BY <3>1 DEF HoldsPid
  <2> QED  BY <2>1, <2>2, <2>3
<1> QED  BY <1>2, <1>3, <1>5

(* The head of a queue whose count is right is a task of the queue.        *)
LEMMA ReadTaskFound ==
  ASSUME NEW S, NEW queue \in QueueOf(S), queue.count = Len(queue.items), queue.count # 0
  PROVE  readTask(queue) \in S
<1>1. queue.items # << >> /\ queue.items \in Seq(S)
  BY EmptySeq DEF QueueOf
<1> QED  BY <1>1, HeadTailProperties DEF readTask

(* extractTask: a queue of the same tasks, its count right if it was.      *)
LEMMA ExtractTaskCount ==
  ASSUME NEW S, NEW queue \in QueueOf(S), queue.count = Len(queue.items)
  PROVE  /\ extractTask(queue) \in QueueOf(S)
         /\ extractTask(queue).count = Len(extractTask(queue).items)
<1>1. CASE queue.count = 0
  BY <1>1 DEF extractTask
<1>2. CASE queue.count # 0
  <2>1. queue.items # << >> /\ queue.items \in Seq(S) /\ Len(queue.items) \in Nat
    BY <1>2, EmptySeq DEF QueueOf
  <2>2. Tail(queue.items) \in Seq(S) /\ Len(Tail(queue.items)) = Len(queue.items) - 1
    BY <2>1, HeadTailProperties
  <2>3. extractTask(queue) = [count |-> queue.count - 1, items |-> Tail(queue.items)]
    BY <1>2 DEF extractTask
  <2> QED  BY <1>2, <2>1, <2>2, <2>3 DEF QueueOf
<1> QED  BY <1>1, <1>2

(* extractTaskByPid takes no task of another pid away, and adds none.      *)
LEMMA ExtractTaskByPidOthers ==
  ASSUME NEW S, NEW queue \in QueueOf(S), NEW pid
  PROVE  /\ extractTaskByPid(queue, pid) \in QueueOf(S)
         /\ \A other : other # pid /\ HoldsPid(queue, other)
                         => HoldsPid(extractTaskByPid(queue, pid), other)
<1> DEFINE q == extractTaskByPid(queue, pid)
           n == Len(queue.items)
<1>1. CASE ~HoldsPid(queue, pid)
  BY <1>1 DEF extractTaskByPid
<1>2. CASE HoldsPid(queue, pid)
  <2> DEFINE p == PositionOfPid(queue, pid)
  <2>1. p \in 1 .. n /\ queue.items[p].pid = pid /\ n \in Nat /\ queue.items \in Seq(S)
    BY <1>2, PositionOfPidFound DEF QueueOf
  <2> HIDE DEF p
  <2>2. q = [queue EXCEPT !.items = RemoveAt(queue.items, p)]
    BY <1>2 DEF extractTaskByPid, p
  <2>3. /\ RemoveAt(queue.items, p) \in Seq(S) /\ Len(RemoveAt(queue.items, p)) = n - 1
        /\ \A k \in 1 .. (n - 1) :
             RemoveAt(queue.items, p)[k] = IF k < p THEN queue.items[k] ELSE queue.items[k + 1]
    BY <2>1, RemoveAtProperties
  <2>4. q \in QueueOf(S) /\ q.items = RemoveAt(queue.items, p)
    BY <2>2, <2>3 DEF QueueOf
  <2>5. ASSUME NEW other, other # pid, HoldsPid(queue, other) PROVE HoldsPid(q, other)
    <3>1. PICK k \in 1 .. n : queue.items[k].pid = other
      BY <2>5 DEF HoldsPid
    <3>2. CASE k < p
      <4>1. k \in 1 .. (n - 1) /\ q.items[k] = queue.items[k]
        BY <3>1, <3>2, <2>1, <2>3, <2>4
      <4> QED  BY <4>1, <3>1, <2>3, <2>4 DEF HoldsPid
    <3>3. CASE k > p
      <4>1. k - 1 \in 1 .. (n - 1) /\ ~(k - 1 < p) /\ (k - 1) + 1 = k
        BY <3>1, <3>3, <2>1
      <4>2. q.items[k - 1] = queue.items[k]
        BY <4>1, <2>3, <2>4
      <4> QED  BY <4>1, <4>2, <3>1, <2>3, <2>4 DEF HoldsPid
    <3>4. k # p
      BY <3>1, <2>1, <2>5
    <3> QED  BY <3>2, <3>3, <3>4, <2>1
  <2> QED  BY <2>4, <2>5
<1> QED  BY <1>1, <1>2

=============================================================================
