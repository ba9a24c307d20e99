----------------------------- MODULE LogScript -----------------------------
(***************************************************************************)
(* fss_script.sh over the manager's log.  A log is represented by what the *)
(* two arrays of the awk programs hold when they have read it:             *)
(* log.monitored, the last word on each source, and log.last_entry, the    *)
(* sources with a completed task.  The manager logs a line by changing     *)
(* them, so a listing at any time is what the script prints at that time.  *)
(***************************************************************************)
LOCAL INSTANCE Integers

CONSTANT Paths    \* the source paths

Unset == -1    \* no element in the array

Log == [monitored : [Paths -> {Unset, 0, 1}], last_entry : SUBSET Paths]

(* The log file is replaced when the manager starts.                       *)
EmptyLog == [monitored |-> [s \in Paths |-> Unset], last_entry |-> {}]

MonitoringStarted(log, s) == [log EXCEPT !.monitored[s] = 1]

MonitoringStopped(log, s) == [log EXCEPT !.monitored[s] = 0]

TaskCompleted(log, s) == [log EXCEPT !.last_entry = @ \cup {s}]

(* What the commands of the script print, reduced to the sources.          *)
listAll(log) == log.last_entry
listMonitored(log) == {s \in log.last_entry : log.monitored[s] = 1}
listStopped(log) == {s \in log.last_entry : log.monitored[s] = 0}

=============================================================================
