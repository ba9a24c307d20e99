----------------------------- MODULE TaskQueue -----------------------------
(***************************************************************************)
(* The task queue of src/modules/TaskQueue.c, as operators on a value      *)
(*                                                                         *)
(*     [count |-> the count field, items |-> the tasks from head to tail]  *)
(*                                                                         *)
(* The linked nodes are abstracted to the sequence they spell; the count   *)
(* field is kept apart from the length of that sequence because the code   *)
(* maintains it separately, and readTask and extractTask trust it rather   *)
(* than the list.  A task is any record with a pid field: the strings of   *)
(* the C struct are what insertTask copies and nothing here reads them.    *)
(*                                                                         *)
(* The manager keeps two such queues: task_queue (tasks waiting for a      *)
(* worker, pid unset) and assigned_tasks (tasks in the hands of a worker,  *)
(* found again by the pid of that worker).                                 *)
(***************************************************************************)
EXTENDS Integers, SequencesExt

CONSTANT NULL    \* what the read operations return when there is no task

-----------------------------------------------------------------------------

(* createTaskQueue: an empty list whose count is zero.                     *)
createTaskQueue == [count |-> 0, items |-> << >>]

(* insertTask: the new node goes behind the last one.                      *)
insertTask(queue, task) ==
  [count |-> queue.count + 1, items |-> Append(queue.items, task)]

(* numOfTasks returns the count field.                                     *)
numOfTasks(queue) == queue.count

(* readTask peeks at the head; emptiness is decided by count.              *)
readTask(queue) == IF queue.count = 0 THEN NULL ELSE Head(queue.items)

(* extractTask unlinks and frees the head, and does count it.              *)
extractTask(queue) ==
  IF queue.count = 0
    THEN queue
    ELSE [count |-> queue.count - 1, items |-> Tail(queue.items)]

(* Whether the walk of readTaskByPid and extractTaskByPid meets pid.       *)
HoldsPid(queue, pid) == \E k \in 1 .. Len(queue.items) : queue.items[k].pid = pid

(* The node the walk stops at: the first one that carries pid.             *)
PositionOfPid(queue, pid) ==
  CHOOSE k \in 1 .. Len(queue.items) :
    /\ queue.items[k].pid = pid
    /\ \A j \in 1 .. (k - 1) : queue.items[j].pid # pid

readTaskByPid(queue, pid) ==
  IF HoldsPid(queue, pid) THEN queue.items[PositionOfPid(queue, pid)] ELSE NULL

(* extractTaskByPid unlinks the node but leaves the count field alone.     *)
extractTaskByPid(queue, pid) ==
  IF HoldsPid(queue, pid)
    THEN [queue EXCEPT !.items = RemoveAt(@, PositionOfPid(queue, pid))]
    ELSE queue

=============================================================================
