------------------------------ MODULE TaskPool ------------------------------
(***************************************************************************)
(* What the manager promises about tasks, with no worker process, pipe or  *)
(* signal in sight (README.md, "Architecture choices"; the comment on the  *)
(* two queues in includes/TaskQueue.h): a job that arrives waits in FIFO   *)
(* order, is handed out once, at most Limit jobs are in hand at any time,  *)
(* and a job that was handed out is finished at most once.                 *)
(*                                                                         *)
(* WorkerPool is the detailed specification that implements this one.      *)
(***************************************************************************)
EXTENDS Integers, Sequences, FiniteSets

CONSTANTS
  Jobs,   \* the jobs that may ever arrive
  Limit   \* worker_limit: how many jobs may be in hand at once

VARIABLES
  arrivals,  \* the jobs that have not arrived yet
  waiting,   \* the jobs nobody has taken, oldest first
  running,   \* the jobs in the hands of a worker
  done       \* the jobs whose completion has been recorded

poolVars == <<arrivals, waiting, running, done>>

-----------------------------------------------------------------------------

Init ==
  /\ arrivals = Jobs
  /\ waiting = << >>
  /\ running = {}
  /\ done = {}

(* A job arrives and goes behind the ones already waiting.                 *)
Arrive(j) ==
  /\ j \in arrivals
  /\ arrivals' = arrivals \ {j}
  /\ waiting' = Append(waiting, j)
  /\ UNCHANGED <<running, done>>

(* The oldest waiting job is handed out, if the limit allows it.           *)
Start ==
  /\ waiting # << >>
  /\ Cardinality(running) < Limit
  /\ running' = running \cup {Head(waiting)}
  /\ waiting' = Tail(waiting)
  /\ UNCHANGED <<arrivals, done>>

(* A job in hand is recorded as completed.                                 *)
Finish(j) ==
  /\ j \in running
  /\ running' = running \ {j}
  /\ done' = done \cup {j}
  /\ UNCHANGED <<arrivals, waiting>>

Next ==
  \/ \E j \in Jobs : Arrive(j) \/ Finish(j)
  \/ Start

Spec == Init /\ [][Next]_poolVars

=============================================================================
