------------------------------- MODULE System -------------------------------
(***************************************************************************)
(* The manager and its console (src/main/fss_console.c) joined by the two  *)
(* FIFOs.                                                                  *)
(*                                                                         *)
(* One console runs at a time.  It sends a line and reads fss_out until    *)
(* COMMAND_FINISHED before it prompts again; it may be interrupted while   *)
(* it waits and started again, and then neither FIFO forgets, because the  *)
(* manager holds a dummy end of each.                                      *)
(***************************************************************************)
EXTENDS Manager

CONSTANTS
  TypedOps,   \* the commands the user types
  Restarts    \* may a console be interrupted while it waits?

ASSUME SystemAssumption == TypedOps \subseteq Ops /\ Restarts \in BOOLEAN

VARIABLES
  console,  \* the console: its state, and the command it waits for
  sent      \* how many commands have been sent

vars == <<managerVars, console, sent>>

Running == phase \notin {"done", "crashed"}

Prompting == [state |-> "prompt", id |-> NoCommand, op |-> NULL]
Gone == [state |-> "gone", id |-> NoCommand, op |-> NULL]
Waiting(id, op) == [state |-> "waiting", id |-> id, op |-> op]

Init ==
  /\ ManagerInit
  /\ console = Prompting
  /\ sent = 0

-----------------------------------------------------------------------------

(* A line is typed: fprintf and fflush on fss_in.                          *)
Send(op, s) ==
  /\ console = Prompting /\ Running
  /\ sent < MaxCommands
  /\ sent' = sent + 1
  /\ fss_in' = Append(fss_in, [op |-> op, src |-> s, id |-> sent'])
  /\ console' = Waiting(sent', op)
  /\ UNCHANGED <<loopVars, dirVars, taskVars, kernelVars, ino_buf, fss_out>>

(* What the console does once the while loop over fss_out has ended.       *)
Resumed == IF console.op = "shutdown" THEN Gone ELSE Prompting

(* A COMMAND_FINISHED arrives, or the end of file once no writer is left.  *)
Receive ==
  /\ console.state = "waiting"
  /\ fss_out # << >> \/ ~Running
  /\ fss_out' = IF fss_out # << >> THEN Tail(fss_out) ELSE fss_out
  /\ console' = Resumed
  /\ UNCHANGED <<loopVars, dirVars, taskVars, kernelVars, ino_buf, fss_in, sent>>

(* A line is typed when the manager is gone: the FIFO has no reader, and   *)
(* SIGPIPE ends the console.                                               *)
SendToNobody ==
  /\ console = Prompting /\ ~Running
  /\ console' = Gone
  /\ UNCHANGED <<managerVars, sent>>

(* exit, typed at the prompt.                                              *)
Leave ==
  /\ console = Prompting
  /\ console' = Gone
  /\ UNCHANGED <<managerVars, sent>>

(* The console is interrupted while it waits for an answer.                *)
Interrupt ==
  /\ Restarts /\ console.state = "waiting"
  /\ console' = Gone
  /\ UNCHANGED <<managerVars, sent>>

(* Another console is started.                                             *)
Start ==
  /\ Running /\ console = Gone
  /\ console' = Prompting
  /\ UNCHANGED <<managerVars, sent>>

ConsoleStep ==
  \/ \E op \in TypedOps, s \in Sources : Send(op, s)
  \/ SendToNobody \/ Receive \/ Leave \/ Interrupt \/ Start

WorkerStep == \E i \in 1 .. WorkerLimit : WorkerFinishes(i)

Next ==
  \/ ManagerStep /\ UNCHANGED <<console, sent>>
  \/ WorkerStep /\ UNCHANGED <<console, sent>>
  \/ (\E d \in Dirs : FileEvent(d)) /\ UNCHANGED <<console, sent>>
  \/ ConsoleStep

Spec == Init /\ [][Next]_vars

(* The manager and the workers run, and a waiting console reads; nobody    *)
(* has to type, to leave or to touch a file.                               *)
FairSpec ==
  /\ Spec
  /\ WF_vars(ManagerStep /\ UNCHANGED <<console, sent>>)
  /\ \A i \in 1 .. WorkerLimit : WF_vars(WorkerFinishes(i) /\ UNCHANGED <<console, sent>>)
  /\ WF_vars(Receive)

-----------------------------------------------------------------------------

TypeOK ==
  /\ phase \in {"try", "poll", "responses", "inotify", "command", "check", "done", "crashed"}
  /\ ready \subseteq {"inotify", "fifo"}
  /\ exiting \in Commands \cup {NoCommand}
  /\ watched_dirs = NULL \/ watched_dirs \in Seq(DirData)
  /\ log \in Log
  /\ task_queue \in Seq(Task)
  /\ assigned_tasks \in Seq(Task) /\ Len(assigned_tasks) <= WorkerLimit
  /\ watch \in [Dirs -> Int]
  /\ next_wd \in Nat
  /\ ino_queue \in Seq([wd : Int, event : Events \cup {NULL}])
  /\ ino_buf \in Seq([wd : Int, event : Events \cup {NULL}])
  /\ fss_in \in Seq(Command)
  /\ fss_out \in Seq(Commands)
  /\ events \in 0 .. MaxEvents
  /\ handled \subseteq Events
  /\ console \in {Prompting, Gone} \cup {Waiting(id, op) : id \in Commands, op \in Ops}
  /\ sent \in 0 .. MaxCommands

(* The tasks nobody has completed, and the ones of a full synchronisation. *)
Outstanding == Range(task_queue) \cup Range(assigned_tasks)
FullTasks(s) == {t \in Outstanding : t.source = s /\ t.type = "FULL"}

ListAlive == Running /\ watched_dirs # NULL

(* A pair whose synchronizing flag is set has a full synchronisation on    *)
(* its way: otherwise every later sync of it would be refused as "Already  *)
(* in queue", and nothing would ever clear the flag.                       *)
FlagIsBacked ==
  ListAlive => \A k \in DOMAIN watched_dirs :
    watched_dirs[k].synchronizing = 1 => FullTasks(watched_dirs[k].source) # {}

(* "Should never happen": no event the kernel holds is about a descriptor  *)
(* the list has forgotten, although sync replaces the descriptor of a      *)
(* cancelled pair while events of the old watch may be pending.            *)
PendingEventsAreKnown ==
  ListAlive => \A k \in DOMAIN ino_queue : findByWD(watched_dirs, ino_queue[k].wd) # NULL

(* The status the console shows is what the kernel does: a pair is Active  *)
(* exactly when its directory is watched, with the descriptor of the pair. *)
(* Holds for pairs whose directories are distinct and exist.               *)
ActiveMeansWatched ==
  ListAlive => \A k \in DOMAIN watched_dirs :
    LET d == watched_dirs[k] IN
      IF d.status = "ACTIVE" THEN watch[DirOf[d.source]] = d.watch_descriptor
                             ELSE watch[DirOf[d.source]] = NoWatch

(* "Print only directories that are currently monitored" (fss_script.sh):  *)
(* what listMonitored finds in the log is active, through every add,       *)
(* cancel and sync, and whatever tasks of a cancelled pair complete late.  *)
(* The converse does not hold: sync resumes a pair without a word.         *)
ListMonitoredIsActive ==
  ListAlive => \A s \in listMonitored(log) :
    \E k \in DOMAIN watched_dirs :
      watched_dirs[k].source = s /\ watched_dirs[k].status = "ACTIVE"

(* While a console waits, its answer is somewhere, once: its command is    *)
(* in fss_in, or its COMMAND_FINISHED in fss_out, or the task that will    *)
(* send it is outstanding, or the manager is shutting down on its behalf.  *)
(* A blank line is never answered and is left out.                         *)
Occurrences(seq, P(_)) == Cardinality({k \in DOMAIN seq : P(seq[k])})

AnswersOnTheWay(id) ==
  Occurrences(fss_in, LAMBDA c : c.id = id)
    + Occurrences(fss_out, LAMBDA a : a = id)
    + Occurrences(task_queue \o assigned_tasks, LAMBDA t : t.added_by_console = id)
    + (IF exiting = id /\ phase # "done" THEN 1 ELSE 0)

WaitingIsAnsweredOnce ==
  phase # "crashed" /\ console.state = "waiting" /\ console.op # "blank"
    => AnswersOnTheWay(console.id) = 1

(* fss_out holds no answer but the one the console is waiting for: a stray *)
(* COMMAND_FINISHED would end the wait of the next command.                *)
NoStrayAnswer ==
  \A k \in DOMAIN fss_out : console.state = "waiting" /\ fss_out[k] = console.id

(* A pair that is being synchronised is not queued for another full        *)
(* synchronisation.                                                        *)
OneFullSync ==
  \A s \in Sources :
    Occurrences(task_queue \o assigned_tasks, LAMBDA t : t.source = s /\ t.type = "FULL") <= 1

(* An event makes one task.                                                *)
EventsMakeOneTask ==
  \A e \in Events :
    Occurrences(task_queue \o assigned_tasks, LAMBDA t : t.event = e) <= 1

(* shutdown drains the workers and then exits.                             *)
NoCrash == phase # "crashed"

(* Every command that is not a blank line ends the wait of its console.    *)
CommandsAreAnswered ==
  \A id \in Commands : (console.id = id /\ console.op # "blank") ~> console.id # id

(* A change in a watched directory is eventually carried out by a worker,  *)
(* also when the pair is cancelled before the event is read, unless the    *)
(* manager is shut down.                                                   *)
EventsAreHandled ==
  \A e \in Events : (events >= e) ~> (e \in handled \/ exiting # NoCommand)

=============================================================================
