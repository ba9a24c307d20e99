--------------------------- MODULE ConsoleProofs ---------------------------
(***************************************************************************)
(* Proofs about the protocol between the console and the manager: one line *)
(* is sent, and one COMMAND_FINISHED comes back.                           *)
(*                                                                         *)
(* An answer that is owed is followed on its way through five places: the  *)
(* line in fss_in, the task in either queue that was added by the console, *)
(* the shutdown that is being carried out, and the answer in fss_out.  The *)
(* proof counts them: every step moves an answer from one place to another.*)
(***************************************************************************)
EXTENDS SystemProofs

(* The tasks whose completion is an answer.                                *)
Answering == {t \in Task : t.added_by_console # NoCommand}

ShutdownOwes == IF exiting # NoCommand /\ phase # "done" THEN 1 ELSE 0

LinesSent == Len(fss_in)
AnswersSent == Len(fss_out)
QueuedAnswers == CountIn(task_queue, Answering)
AssignedAnswers == CountIn(assigned_tasks, Answering)

OnTheWay == LinesSent + AnswersSent + QueuedAnswers + AssignedAnswers + ShutdownOwes

Owed == IF console.state = "waiting" THEN 1 ELSE 0

(* Whatever is on its way is for the command the console waits for.        *)
Addressed ==
  /\ \A c \in Range(fss_in) : c.id = console.id /\ c.op = console.op
  /\ \A t \in Range(task_queue) \cup Range(assigned_tasks) :
       t.added_by_console \in {NoCommand, console.id}
  /\ ShutdownOwes = 1 => exiting = console.id

OneAnswer ==
  /\ OnTheWay <= Owed
  /\ console.op # "blank" => OnTheWay = Owed

AnswersExpected == AnswersSent <= Owed /\ \A id \in Range(fss_out) : id = console.id

CInv ==
  /\ SInv
  /\ AnswersExpected
  /\ phase # "crashed" => Addressed /\ OneAnswer
  /\ phase = "done" => fss_in = << >> /\ task_queue = << >> /\ assigned_tasks = << >>

-----------------------------------------------------------------------------
(* Of at most one there is at most one part.                               *)
LEMMA OneOfFive ==
  ASSUME NEW in \in Nat, NEW out \in Nat, NEW queued \in Nat, NEW assigned \in Nat,
         NEW owes \in {0, 1}, NEW owed \in {0, 1},
         in + out + queued + assigned + owes <= owed
  PROVE  /\ owed = 0 => in = 0 /\ out = 0 /\ queued = 0 /\ assigned = 0 /\ owes = 0
         /\ in # 0 => in = 1 /\ out = 0 /\ queued = 0 /\ assigned = 0 /\ owes = 0 /\ owed = 1
         /\ out # 0 => in = 0 /\ out = 1 /\ queued = 0 /\ assigned = 0 /\ owes = 0 /\ owed = 1
         /\ owes # 0 => in = 0 /\ out = 0 /\ queued = 0 /\ assigned = 0 /\ owed = 1
         /\ out <= owed
OBVIOUS

(* The five numbers are natural.                                           *)
Natural ==
  /\ LinesSent \in Nat /\ AnswersSent \in Nat
  /\ QueuedAnswers \in Nat /\ AssignedAnswers \in Nat
  /\ ShutdownOwes \in {0, 1} /\ Owed \in {0, 1}

LEMMA Counts == TypeOK => Natural
<1> SUFFICES ASSUME TypeOK PROVE Natural
  OBVIOUS
<1>1. /\ fss_in \in Seq(Command) /\ fss_out \in Seq(Commands)
      /\ task_queue \in Seq(Task) /\ assigned_tasks \in Seq(Task)
  BY DEF TypeOK
<1> QED  BY <1>1, LenProperties, CountType
         DEF Natural, LinesSent, AnswersSent, ShutdownOwes, Owed, QueuedAnswers, AssignedAnswers

(* When nothing is on its way, nothing is for another command.             *)
LEMMA NothingLeft ==
  TypeOK /\ OnTheWay = 0 => Addressed /\ fss_in = << >> /\ fss_out = << >> /\ ShutdownOwes = 0
<1> SUFFICES ASSUME TypeOK, OnTheWay = 0
             PROVE  Addressed /\ fss_in = << >> /\ fss_out = << >> /\ ShutdownOwes = 0
  OBVIOUS
<1>1. /\ LinesSent = 0 /\ AnswersSent = 0
      /\ QueuedAnswers = 0 /\ AssignedAnswers = 0 /\ ShutdownOwes = 0
  BY Counts DEF OnTheWay, Natural
<1>2. /\ task_queue \in Seq(Task) /\ assigned_tasks \in Seq(Task)
      /\ fss_in \in Seq(Command) /\ fss_out \in Seq(Commands)
  BY DEF TypeOK
<1>3. \A t \in Range(task_queue) \cup Range(assigned_tasks) : t \in Task /\ t \notin Answering
  <2>1. Range(task_queue) \subseteq Task /\ Range(assigned_tasks) \subseteq Task
    BY <1>2, RangeOfSeq
  <2> QED  BY <1>1, <1>2, <2>1, CountType DEF QueuedAnswers, AssignedAnswers
<1>4. fss_in = << >> /\ fss_out = << >>
  BY <1>1, <1>2, EmptySeq DEF LinesSent, AnswersSent
<1> QED  BY <1>1, <1>3, <1>4 DEF Addressed, Answering, Range

(* What a command does about its answer: it is given at once, or left to a *)
(* task; a blank line has none, and shutdown gives its own at the end.     *)
LEMMA CommandAnswers ==
  ASSUME NEW st \in ManagerState, UniqueSources(st.dirs), NEW c \in Command,
         c.op \notin {"shutdown", "blank"}
  PROVE  LET r == execute_command(st, c)
         IN  \E t \in Task :
               /\ r.queue = st.queue \/ r.queue = Append(st.queue, t)
               /\ \/ /\ r.out = Append(st.out, c.id) /\ t.added_by_console = NoCommand
                  \/ /\ r.out = st.out /\ t.added_by_console = c.id
                     /\ r.queue = Append(st.queue, t)
<1> DEFINE r == execute_command(st, c)
           s == c.src
<1>1. /\ c.op \in Ops /\ s \in Sources /\ c.id \in Commands /\ c.id # NoCommand
      /\ c.id \in Commands \cup {NoCommand} /\ NoCommand \in Commands \cup {NoCommand}
  BY ConstantFacts DEF Command
<1>2. /\ FullTask(s, c.id) \in Task /\ FullTask(s, c.id).added_by_console = c.id
      /\ FullTask(s, NoCommand) \in Task /\ FullTask(s, NoCommand).added_by_console = NoCommand
  BY <1>1 DEF FullTask, Task
<1>3. Reply(st, c.id).out = Append(st.out, c.id) /\ Reply(st, c.id).queue = st.queue
  BY <1>1, ReplyEffect DEF SameBut_out
<1>4. CASE c.op = "sync"
  <2>1. r = sync(st, s, c.id)
    BY <1>4 DEF execute_command
  <2>2. r = Reply(st, c.id) \/ SyncQueued(st, r, s, c.id)
    BY <1>1, <2>1, SyncEffect
  <2>3. SyncQueued(st, r, s, c.id) => r.out = st.out /\ r.queue = Append(st.queue, FullTask(s, c.id))
    BY DEF SyncQueued
  <2> QED  BY <1>2, <1>3, <2>2, <2>3
<1>5. CASE c.op = "add"
  <2>1. r = add(st, s, c.id)
    BY <1>5 DEF execute_command
  <2>2. CASE findBySource(st.dirs, s) # NULL
    <3>1. r = Reply(st, c.id)
      BY <2>1, <2>2, AddIsInsertThenSync
    <3> QED  BY <1>2, <1>3, <3>1
  <2>3. CASE findBySource(st.dirs, s) = NULL
    <3> DEFINE a == Reply(Added(st, s), c.id)
    <3>1. /\ Added(st, s) \in ManagerState /\ UniqueSources(Added(st, s).dirs)
          /\ Added(st, s).queue = st.queue /\ Added(st, s).out = st.out
      BY <1>1, <2>3, AddedEffect
    <3>2. /\ a \in ManagerState /\ SameBut_out(a, Added(st, s))
          /\ a.out = Append(st.out, c.id)
      BY <1>1, <3>1, ReplyEffect, ZenonT(40)
    <3>3. UniqueSources(a.dirs) /\ a.queue = st.queue
      BY <3>1, <3>2 DEF SameBut_out
    <3> HIDE DEF a
    <3>4. r = sync(a, s, NoCommand)
      BY <2>1, <2>3, AddIsInsertThenSync DEF a
    <3>5. r = Reply(a, NoCommand) \/ SyncQueued(a, r, s, NoCommand)
      BY <1>1, <3>2, <3>3, <3>4, SyncEffect
    <3>6. Reply(a, NoCommand) = a
      BY DEF Reply
    <3>7. SyncQueued(a, r, s, NoCommand) =>
            r.out = a.out /\ r.queue = Append(a.queue, FullTask(s, NoCommand))
      BY DEF SyncQueued
    <3> QED  BY <1>2, <3>2, <3>3, <3>5, <3>6, <3>7
  <2> QED  BY <2>2, <2>3
<1>6. CASE c.op = "cancel"
  <2>1. r = cancel(st, s, c.id)
    BY <1>6 DEF execute_command
  <2>2. r.queue = st.queue /\ r.out = Reply(st, c.id).out
    BY <1>1, <2>1, CancelEffect
  <2> QED  BY <1>2, <1>3, <2>2
<1>7. CASE c.op \in {"status", "bad"}
  <2>1. r = Reply(st, c.id)
    BY <1>7 DEF execute_command
  <2> QED  BY <1>2, <1>3, <2>1
<1> QED  BY <1>1, <1>4, <1>5, <1>6, <1>7 DEF Ops

-----------------------------------------------------------------------------
(***************************************************************************)
(* The steps of the manager.                                               *)
(***************************************************************************)

(* When the sum is right there is one answer in fss_out at most.           *)
LEMMA FewAnswers == TypeOK /\ OnTheWay <= Owed => AnswersSent <= Owed
BY Counts, OneOfFive DEF OnTheWay, Natural

(* What the invariant says while the loop runs.                            *)
Answers == Addressed /\ OneAnswer /\ \A id \in Range(fss_out) : id = console.id

LEMMA StartAnswers ==
  ASSUME CInv, try_doing_some_tasks, UNCHANGED console PROVE Answers'
<1>1. /\ UNCHANGED <<exiting, fss_in, fss_out, console>> /\ phase = "try" /\ phase' = "poll"
      /\ TypeOK /\ Addressed /\ OneAnswer /\ \A id \in Range(fss_out) : id = console.id
  BY DEF CInv, SInv, AnswersExpected, try_doing_some_tasks
<1>2. /\ Range(task_queue') \cup Range(assigned_tasks') = Range(task_queue) \cup Range(assigned_tasks)
      /\ CountIn(task_queue', Answering) + CountIn(assigned_tasks', Answering)
           = CountIn(task_queue, Answering) + CountIn(assigned_tasks, Answering)
  BY <1>1, StartEffect
<1>3. ShutdownOwes' = ShutdownOwes /\ Owed' = Owed
  BY <1>1 DEF ShutdownOwes, Owed
<1>4. QueuedAnswers' + AssignedAnswers' = QueuedAnswers + AssignedAnswers
  BY <1>2 DEF QueuedAnswers, AssignedAnswers
<1>5. /\ LinesSent \in Nat /\ AnswersSent \in Nat
      /\ QueuedAnswers \in Nat /\ AssignedAnswers \in Nat /\ ShutdownOwes \in {0, 1}
      /\ QueuedAnswers' \in Nat /\ AssignedAnswers' \in Nat
  <2>1. task_queue' \in Seq(Task) /\ assigned_tasks' \in Seq(Task)
    BY <1>1, StartEffect
  <2> QED  BY <1>1, <2>1, Counts, CountType DEF Natural, QueuedAnswers, AssignedAnswers
<1>6. OnTheWay' = OnTheWay
  <2>1. LinesSent' = LinesSent /\ AnswersSent' = AnswersSent
    BY <1>1 DEF LinesSent, AnswersSent
  <2>2. LinesSent + AnswersSent + QueuedAnswers' + AssignedAnswers' + ShutdownOwes = OnTheWay
    <3>1. PICK x \in Nat : x = LinesSent + AnswersSent
      BY <1>5
    <3>2. x + (QueuedAnswers' + AssignedAnswers') = x + QueuedAnswers' + AssignedAnswers'
      BY <1>5
    <3>3. x + (QueuedAnswers + AssignedAnswers) = x + QueuedAnswers + AssignedAnswers
      BY <1>5
    <3> QED  BY <1>4, <3>1, <3>2, <3>3 DEF OnTheWay
  <2> QED  BY <1>3, <2>1, <2>2 DEF OnTheWay
<1> QED  BY <1>1, <1>2, <1>3, <1>6 DEF Answers, Addressed, OneAnswer

LEMMA EventsAnswerNobody ==
  ASSUME CInv, handle_inotify_read, UNCHANGED console PROVE Answers'
<1>1. /\ UNCHANGED <<exiting, assigned_tasks, fss_in, fss_out, watched_dirs, console>>
      /\ phase = "inotify" /\ phase' # "done"
      /\ TypeOK /\ Addressed /\ OneAnswer /\ \A id \in Range(fss_out) : id = console.id
  BY DEF CInv, SInv, AnswersExpected, handle_inotify_read, dirVars
<1>2. ShutdownOwes' = ShutdownOwes /\ Owed' = Owed
  BY <1>1 DEF ShutdownOwes, Owed
<1>3. /\ QueuedAnswers' = QueuedAnswers
      /\ \A t \in Range(task_queue') : t \in Range(task_queue) \/ t.added_by_console = NoCommand
  <2>1. CASE ino_queue = << >>
    BY <2>1 DEF handle_inotify_read, QueuedAnswers
  <2>2. CASE ino_queue # << >>
    <3> DEFINE tasks == TasksOf(ino_buf \o ino_queue)
    <3>1. task_queue' = task_queue \o tasks
      BY <2>2 DEF handle_inotify_read
    <3>2. ino_buf \o ino_queue \in Seq(InotifyEvent)
      BY <1>1, ConcatProperties DEF TypeOK, InotifyEvent
    <3>3. tasks \in Seq(Task) /\ \A t \in Range(tasks) : t.added_by_console = NoCommand
      <4>1. watched_dirs = NULL \/ watched_dirs \in Seq(DirData)
        BY <1>1 DEF TypeOK
      <4> QED  BY <3>2, <4>1, EventTasks
    <3>4. task_queue \in Seq(Task) /\ CountIn(task_queue, Answering) \in Nat
      BY <1>1, CountType DEF TypeOK
    <3> HIDE DEF tasks
    <3>5. CountIn(tasks, Answering) = 0
      BY <3>3, CountType DEF Answering
    <3>6. CountIn(task_queue \o tasks, Answering) = CountIn(task_queue, Answering)
      BY <3>3, <3>4, <3>5, CountOfConcat
    <3>7. Range(task_queue \o tasks) = Range(task_queue) \cup Range(tasks)
      BY <3>3, <3>4, RangeConcatenation
    <3> QED  BY <3>1, <3>3, <3>6, <3>7 DEF QueuedAnswers
  <2> QED  BY <2>1, <2>2
<1>4. OnTheWay' = OnTheWay
  BY <1>1, <1>2, <1>3 DEF OnTheWay, LinesSent, AnswersSent, AssignedAnswers
<1> QED  BY <1>1, <1>2, <1>3, <1>4 DEF Answers, Addressed, OneAnswer

(* A command that is executed was the only thing on its way.               *)
LEMMA CommandMovesAnswer ==
  ASSUME CInv, handle_command_read, UNCHANGED console PROVE Answers'
<1> DEFINE c == Head(fss_in)
<1>1. /\ TypeOK /\ SInv /\ Addressed /\ OneAnswer
      /\ \A id \in Range(fss_out) : id = console.id
      /\ phase = "command"
  BY DEF CInv, SInv, AnswersExpected, handle_command_read
<1>2. /\ fss_in # << >> /\ c \in Command /\ fss_in' = << >>
      /\ phase' = "check" /\ exiting = NoCommand /\ UNCHANGED <<assigned_tasks, console>>
      /\ State \in ManagerState /\ UniqueSources(State.dirs)
      /\ \/ /\ c.op = "shutdown" /\ exiting' \in Commands /\ exiting' = c.id
            /\ UNCHANGED <<task_queue, fss_out>>
         \/ /\ c.op # "shutdown" /\ exiting' = NoCommand
            /\ State' = execute_command(State, c)
  BY <1>1, CommandEffect DEF ListOK
<1>3. LinesSent # 0 /\ c \in Range(fss_in)
  <2>1. fss_in \in Seq(Command)
    BY <1>1 DEF TypeOK
  <2> QED  BY <1>2, <2>1, EmptySeq, LenProperties, RangeOfTail DEF LinesSent
<1>4. c.id = console.id /\ c.op = console.op /\ c.id \in Commands /\ c.id # NoCommand
  BY <1>1, <1>2, <1>3, ConstantFacts DEF Addressed, Command
<1>5. /\ Owed = 1 /\ LinesSent = 1 /\ AnswersSent = 0
      /\ QueuedAnswers = 0 /\ AssignedAnswers = 0 /\ ShutdownOwes = 0
  <2>1. Natural /\ OnTheWay <= Owed
    BY <1>1, Counts DEF OneAnswer
  <2> QED  BY <1>3, <2>1, OneOfFive DEF OnTheWay, Natural
<1>6. /\ task_queue \in Seq(Task) /\ fss_out \in Seq(Commands) /\ fss_out = << >>
      /\ Range(fss_out) = {}
  BY <1>1, <1>5, EmptySeq DEF TypeOK, Range, AnswersSent
<1>7. /\ Owed' = 1 /\ AssignedAnswers' = 0 /\ LinesSent' = 0 /\ Range(fss_in') = {}
  BY <1>2, <1>5 DEF Owed, AssignedAnswers, LinesSent, Range
<1>8. CASE c.op = "shutdown"
  <2>1. /\ UNCHANGED <<task_queue, fss_out>> /\ ShutdownOwes' = 1 /\ exiting' = console.id
    BY <1>2, <1>4, <1>8, ConstantFacts DEF ShutdownOwes
  <2>2. OnTheWay' = 1
    BY <1>5, <1>7, <2>1 DEF OnTheWay, QueuedAnswers, AnswersSent
  <2> QED  BY <1>1, <1>2, <1>6, <1>7, <2>1, <2>2 DEF Answers, Addressed, OneAnswer
<1>9. CASE c.op # "shutdown"
  <2>1. /\ ShutdownOwes' = 0 /\ State' = execute_command(State, c)
    BY <1>2, <1>9 DEF ShutdownOwes
  <2>2. /\ State.queue = task_queue /\ State.out = fss_out
        /\ State'.queue = task_queue' /\ State'.out = fss_out'
    BY DEF State
  <2>3. CASE c.op = "blank"
    <3>1. UNCHANGED <<task_queue, fss_out>>
      BY <2>1, <2>2, <2>3 DEF execute_command
    <3>2. OnTheWay' = 0
      BY <1>5, <1>7, <2>1, <3>1 DEF OnTheWay, QueuedAnswers, AnswersSent
    <3> QED  BY <1>1, <1>2, <1>4, <1>6, <1>7, <2>1, <2>3, <3>1, <3>2
             DEF Answers, Addressed, OneAnswer
  <2>4. CASE c.op # "blank"
    <3>1. PICK t \in Task :
            /\ task_queue' = task_queue \/ task_queue' = Append(task_queue, t)
            /\ \/ /\ fss_out' = Append(fss_out, c.id) /\ t.added_by_console = NoCommand
               \/ /\ fss_out' = fss_out /\ t.added_by_console = c.id
                  /\ task_queue' = Append(task_queue, t)
      BY <1>2, <1>9, <2>1, <2>2, <2>4, CommandAnswers
    <3>2. /\ Range(Append(task_queue, t)) = Range(task_queue) \cup {t}
          /\ CountIn(Append(task_queue, t), Answering) = IF t \in Answering THEN 1 ELSE 0
      <4>1. CountIn(Append(task_queue, t), Answering)
              = CountIn(task_queue, Answering) + (IF t \in Answering THEN 1 ELSE 0)
        BY <1>6, CountOfAppend
      <4> QED  BY <1>5, <1>6, <4>1, RangeOfAppend DEF QueuedAnswers
    <3>3. t \in Answering <=> t.added_by_console # NoCommand
      BY DEF Answering
    <3>4. /\ Range(Append(fss_out, c.id)) = {c.id} /\ Len(Append(fss_out, c.id)) = 1
      <4>1. Range(Append(fss_out, c.id)) = Range(fss_out) \cup {c.id}
        <5>1. c.id \in Commands /\ fss_out \in Seq(Commands)
          BY <1>4, <1>6
        <5> QED  BY <5>1, RangeOfAppend
      <4>2. Len(Append(fss_out, c.id)) = Len(fss_out) + 1
        BY <1>4, <1>6, AppendProperties
      <4> QED  BY <1>6, <4>1, <4>2
    <3>5. CASE fss_out' = Append(fss_out, c.id) /\ t.added_by_console = NoCommand
      <4>1. QueuedAnswers' = 0
        BY <1>5, <3>1, <3>2, <3>3, <3>5 DEF QueuedAnswers
      <4>2. OnTheWay' = 1
        BY <1>7, <2>1, <3>4, <3>5, <4>1 DEF OnTheWay, AnswersSent
      <4>3. \A u \in Range(task_queue') : u \in Range(task_queue) \/ u.added_by_console = NoCommand
        BY <3>1, <3>2, <3>5
      <4> QED  BY <1>1, <1>2, <1>4, <1>7, <2>1, <3>4, <3>5, <4>2, <4>3
               DEF Answers, Addressed, OneAnswer
    <3>6. CASE /\ fss_out' = fss_out /\ t.added_by_console = c.id
               /\ task_queue' = Append(task_queue, t)
      <4>1. QueuedAnswers' = 1
        BY <1>4, <3>2, <3>3, <3>6 DEF QueuedAnswers
      <4>2. OnTheWay' = 1
        BY <1>5, <1>7, <2>1, <3>6, <4>1 DEF OnTheWay, AnswersSent
      <4>3. \A u \in Range(task_queue') : u \in Range(task_queue) \/ u.added_by_console = console.id
        BY <1>4, <3>2, <3>6
      <4> QED  BY <1>1, <1>2, <1>6, <1>7, <2>1, <3>6, <4>2, <4>3
               DEF Answers, Addressed, OneAnswer
    <3> QED  BY <3>1, <3>5, <3>6
  <2> QED  BY <2>3, <2>4
<1> QED  BY <1>8, <1>9

(* A completed task turns its answer into a COMMAND_FINISHED.              *)
LEMMA CompletionAnswers ==
  ASSUME CInv, NEW i \in 1 .. WorkerLimit, Complete(i), phase' # "crashed", UNCHANGED console
  PROVE  Answers'
<1> DEFINE task == assigned_tasks[i]
           id == task.added_by_console
           left == RemoveAt(assigned_tasks, i)
           n == CountIn(left, Answering)
<1>1. TypeOK /\ phase = "responses"
  BY CompleteEffect DEF CInv, SInv
<1>2. /\ task \in Task /\ watched_dirs # NULL /\ UNCHANGED phase
      /\ assigned_tasks' = left
      /\ Range(left) \subseteq Range(assigned_tasks)
      /\ fss_out' = Reply(State, id).out
  BY <1>1, CompleteEffect
<1>3. /\ UNCHANGED <<exiting, fss_in, task_queue, console>>
      /\ i \in 1 .. Len(assigned_tasks) /\ assigned_tasks \in Seq(Task)
      /\ fss_out \in Seq(Commands)
  BY <1>1, LenProperties DEF Complete, DoneTasks, TypeOK
<1>4. Addressed /\ OneAnswer /\ \A a \in Range(fss_out) : a = console.id
  BY <1>1 DEF CInv, AnswersExpected
<1>5. id \in Commands \cup {NoCommand} /\ id \in {NoCommand, console.id}
  <2>1. id \in Commands \cup {NoCommand}
    BY <1>2 DEF Task
  <2>2. task \in Range(assigned_tasks)
    BY <1>3, RangeEquality
  <2> QED  BY <1>4, <2>1, <2>2 DEF Addressed
<1>6. AssignedAnswers = n + (IF id = NoCommand THEN 0 ELSE 1)
  <2>1. task \in Answering <=> id # NoCommand
    BY <1>2 DEF Answering
  <2>2. CountIn(assigned_tasks, Answering) = n + (IF task \in Answering THEN 1 ELSE 0)
    BY <1>3, CountOfRemoveAt
  <2> QED  BY <2>1, <2>2 DEF AssignedAnswers
<1>7. AssignedAnswers' = n /\ n \in Nat
  <2>1. left \in Seq(Task)
    BY <1>3, RemoveAtProperties
  <2> QED  BY <1>2, <2>1, CountType DEF AssignedAnswers
<1>8. fss_out' = IF id = NoCommand THEN fss_out ELSE Append(fss_out, id)
  BY <1>1, <1>2, <1>5, StateTyped, StateFields, ReplyEffect
<1>9. /\ LinesSent' = LinesSent /\ QueuedAnswers' = QueuedAnswers
      /\ ShutdownOwes' = ShutdownOwes /\ Owed' = Owed
  BY <1>2, <1>3 DEF LinesSent, QueuedAnswers, ShutdownOwes, Owed
<1>10. Natural
  BY <1>1, Counts
<1> HIDE DEF task, id, left, n
<1>11. CASE id = NoCommand
  <2>1. AssignedAnswers' = AssignedAnswers /\ UNCHANGED fss_out
    BY <1>6, <1>7, <1>8, <1>11
  <2>2. OnTheWay' = OnTheWay
    BY <1>9, <2>1 DEF OnTheWay, AnswersSent
  <2> QED  BY <1>2, <1>3, <1>4, <1>9, <2>1, <2>2 DEF Answers, Addressed, OneAnswer
<1>12. CASE id # NoCommand
  <2>1. AssignedAnswers = n + 1 /\ fss_out' = Append(fss_out, id) /\ id = console.id
        /\ id \in Commands
    BY <1>5, <1>6, <1>8, <1>12
  <2>2. AnswersSent' = AnswersSent + 1 /\ Range(fss_out') = Range(fss_out) \cup {id}
    <3>1. Len(Append(fss_out, id)) = Len(fss_out) + 1
      BY <1>3, <2>1, AppendProperties
    <3>2. Range(Append(fss_out, id)) = Range(fss_out) \cup {id}
      BY <1>3, <2>1, RangeOfAppend
    <3> QED  BY <2>1, <3>1, <3>2 DEF AnswersSent
  <2>3. OnTheWay' = OnTheWay
    BY <1>7, <1>9, <1>10, <2>1, <2>2 DEF OnTheWay, Natural
  <2> QED  BY <1>2, <1>3, <1>4, <1>9, <2>1, <2>2, <2>3 DEF Answers, Addressed, OneAnswer
<1> QED  BY <1>11, <1>12

(* The manager's last line is the answer to shutdown, and the only one.    *)
LEMMA ExitAnswers ==
  ASSUME CInv, CheckExit, UNCHANGED console
  PROVE  /\ Answers'
         /\ phase' = "done" => fss_in' = << >> /\ task_queue' = << >> /\ assigned_tasks' = << >>
<1>1. /\ phase = "check" /\ TypeOK /\ Addressed /\ OneAnswer
      /\ \A id \in Range(fss_out) : id = console.id
      /\ UNCHANGED <<exiting, fss_in, task_queue, assigned_tasks, console>>
  BY DEF CInv, SInv, AnswersExpected, CheckExit, taskVars
<1>2. Natural /\ OnTheWay <= Owed
  BY <1>1, Counts DEF OneAnswer
<1>3. /\ LinesSent' = LinesSent /\ QueuedAnswers' = QueuedAnswers
      /\ AssignedAnswers' = AssignedAnswers /\ Owed' = Owed
  BY <1>1 DEF LinesSent, QueuedAnswers, AssignedAnswers, Owed
<1>4. CASE ~(exiting # NoCommand /\ assigned_tasks = << >> /\ task_queue = << >>)
  <2>1. phase' = "try" /\ UNCHANGED fss_out
    BY <1>4 DEF CheckExit
  <2>2. ShutdownOwes' = ShutdownOwes
    BY <1>1, <2>1 DEF ShutdownOwes
  <2>3. OnTheWay' = OnTheWay
    BY <1>3, <2>1, <2>2 DEF OnTheWay, AnswersSent
  <2> QED  BY <1>1, <1>3, <2>1, <2>2, <2>3 DEF Answers, Addressed, OneAnswer
<1>5. CASE exiting # NoCommand /\ assigned_tasks = << >> /\ task_queue = << >>
  <2>1. phase' = "done" /\ fss_out' = Append(fss_out, exiting)
    BY <1>5, StateFields DEF CheckExit, Reply, State
  <2>2. ShutdownOwes = 1 /\ ShutdownOwes' = 0
    BY <1>1, <1>5, <2>1 DEF ShutdownOwes
  <2>3. /\ LinesSent = 0 /\ AnswersSent = 0 /\ QueuedAnswers = 0 /\ AssignedAnswers = 0 /\ Owed = 1
    BY <1>2, <2>2, OneOfFive DEF OnTheWay, Natural
  <2>4. fss_in = << >> /\ fss_out = << >> /\ exiting \in Commands /\ fss_out \in Seq(Commands)
    BY <1>1, <1>5, <2>3, EmptySeq DEF TypeOK, LinesSent, AnswersSent
  <2>5. AnswersSent' = 1 /\ Range(fss_out') = {exiting}
    BY <2>1, <2>4 DEF AnswersSent, Range
  <2>6. OnTheWay' = 1
    BY <1>3, <2>2, <2>3, <2>5 DEF OnTheWay
  <2>7. exiting = console.id
    BY <1>1, <2>2 DEF Addressed
  <2> QED  BY <1>1, <1>3, <1>5, <2>1, <2>2, <2>3, <2>4, <2>5, <2>6, <2>7
           DEF Answers, Addressed, OneAnswer
<1> QED  BY <1>4, <1>5

(* A line that is drained while the manager exits is no command: the       *)
(* console waits for the answer to shutdown.                               *)
LEMMA NothingIgnored ==
  ASSUME CInv, IgnoreCommands PROVE FALSE
<1>1. /\ phase = "command" /\ exiting # NoCommand /\ TypeOK /\ LineWaits /\ OneAnswer
  BY DEF CInv, SInv, IgnoreCommands
<1>2. Natural /\ OnTheWay <= Owed
  BY <1>1, Counts DEF OneAnswer
<1>3. ShutdownOwes = 1
  BY <1>1 DEF ShutdownOwes
<1>4. LinesSent = 0
  BY <1>2, <1>3, OneOfFive DEF OnTheWay, Natural
<1> QED  BY <1>1, <1>4, EmptySeq DEF LineWaits, LinesSent, TypeOK

-----------------------------------------------------------------------------
(***************************************************************************)
(* The steps of the console.                                               *)
(***************************************************************************)

(* A console that does not wait is owed nothing.                           *)
LEMMA NotWaiting ==
  ASSUME CInv, console.state # "waiting"
  PROVE  /\ fss_out = << >>
         /\ phase # "crashed" => OnTheWay = 0
<1>1. TypeOK /\ AnswersSent <= Owed /\ Owed = 0
  BY DEF CInv, SInv, AnswersExpected, Owed
<1>2. AnswersSent = 0 /\ fss_out = << >>
  BY <1>1, Counts, EmptySeq DEF Natural, TypeOK, AnswersSent
<1>3. ASSUME phase # "crashed" PROVE OnTheWay = 0
  <2>1. Natural /\ OnTheWay <= Owed
    BY <1>1, <1>3, Counts DEF CInv, OneAnswer
  <2> QED  BY <1>1, <2>1, OneOfFive DEF OnTheWay, Natural
<1> QED  BY <1>2, <1>3

LEMMA SendKeeps ==
  ASSUME CInv, NEW op \in TypedOps, NEW s \in Sources, Send(op, s)
  PROVE  Answers' /\ UNCHANGED <<phase, task_queue, assigned_tasks>> /\ phase # "done"
<1> DEFINE c == [op |-> op, src |-> s, id |-> sent']
<1>1. /\ console = Prompting /\ phase \notin {"done", "crashed"}
      /\ fss_in' = Append(fss_in, c) /\ console' = Waiting(sent', op)
      /\ UNCHANGED <<phase, exiting, task_queue, assigned_tasks, fss_out>>
  BY DEF Send, Running, loopVars, taskVars
<1>2. TypeOK /\ Addressed
  BY <1>1 DEF CInv, SInv
<1>3. /\ OnTheWay = 0 /\ fss_out = << >> /\ fss_in = << >> /\ ShutdownOwes = 0
  BY <1>1, <1>2, NotWaiting, NothingLeft DEF Prompting
<1>4. LinesSent = 0 /\ AnswersSent = 0 /\ QueuedAnswers = 0 /\ AssignedAnswers = 0
  <2>1. Natural /\ OnTheWay <= Owed /\ Owed = 0
    BY <1>1, <1>2, <1>3, Counts DEF Owed, Prompting, Natural
  <2> QED  BY <2>1, OneOfFive DEF OnTheWay, Natural
<1>5. /\ ShutdownOwes' = 0 /\ QueuedAnswers' = 0 /\ AssignedAnswers' = 0 /\ AnswersSent' = 0
  BY <1>1, <1>3, <1>4 DEF ShutdownOwes, QueuedAnswers, AssignedAnswers, AnswersSent
<1>6. LinesSent' = 1 /\ Range(fss_in') = {c}
  BY <1>1, <1>3 DEF LinesSent, Range
<1>7. OnTheWay' = 1
  BY <1>5, <1>6 DEF OnTheWay
<1>8. /\ Owed' = 1 /\ c.id = console'.id /\ c.op = console'.op
      /\ \A t \in Range(task_queue') \cup Range(assigned_tasks') : t.added_by_console = NoCommand
  BY <1>1, <1>2 DEF Owed, Waiting, Addressed, Prompting
<1>9. Range(fss_out') = {}
  BY <1>1, <1>3 DEF Range
<1> QED  BY <1>1, <1>5, <1>6, <1>7, <1>8, <1>9 DEF Answers, Addressed, OneAnswer

(* The only answer is the one that was expected; what is left is nothing.  *)
LEMMA ReceiveEndsWait ==
  ASSUME CInv, Receive
  PROVE  /\ fss_out' = << >> /\ Owed' = 0
         /\ phase # "crashed" => OnTheWay' = 0
<1>1. /\ console.state = "waiting" /\ console' \in {Gone, Prompting}
      /\ fss_out # << >> \/ phase \in {"done", "crashed"}
      /\ fss_out' = IF fss_out # << >> THEN Tail(fss_out) ELSE fss_out
      /\ UNCHANGED <<phase, exiting, fss_in, task_queue, assigned_tasks>>
  BY DEF Receive, Resumed, Running, loopVars, taskVars
<1>2. /\ TypeOK /\ Natural /\ AnswersSent <= Owed /\ fss_out \in Seq(Commands)
  BY Counts DEF CInv, SInv, AnswersExpected, TypeOK
<1>3. Owed = 1 /\ Owed' = 0
  BY <1>1 DEF Owed, Gone, Prompting
<1>4. fss_out' = << >> /\ (fss_out # << >> => AnswersSent = 1)
  <2>1. CASE fss_out = << >>
    BY <1>1, <2>1
  <2>2. CASE fss_out # << >>
    <3>1. Tail(fss_out) \in Seq(Commands) /\ Len(Tail(fss_out)) = Len(fss_out) - 1
      BY <1>2, <2>2, HeadTailProperties
    <3>2. AnswersSent # 0
      BY <1>2, <2>2, EmptySeq DEF AnswersSent
    <3>3. AnswersSent = 1
      BY <1>2, <1>3, <3>2 DEF Natural
    <3>4. Len(Tail(fss_out)) = 0
      BY <3>1, <3>3 DEF AnswersSent
    <3> QED  BY <1>1, <2>2, <3>1, <3>3, <3>4, EmptySeq
  <2> QED  BY <2>1, <2>2
<1>5. /\ LinesSent' = LinesSent /\ QueuedAnswers' = QueuedAnswers
      /\ AssignedAnswers' = AssignedAnswers /\ ShutdownOwes' = ShutdownOwes /\ AnswersSent' = 0
  BY <1>1, <1>4 DEF LinesSent, QueuedAnswers, AssignedAnswers, ShutdownOwes, AnswersSent
<1>6. ASSUME phase # "crashed" PROVE OnTheWay' = 0
  <2>1. OnTheWay <= Owed
    BY <1>6 DEF CInv, OneAnswer
  <2>2. CASE fss_out # << >>
    <3>1. LinesSent = 0 /\ QueuedAnswers = 0 /\ AssignedAnswers = 0 /\ ShutdownOwes = 0
      BY <1>2, <1>4, <2>1, <2>2, OneOfFive DEF OnTheWay, Natural
    <3> QED  BY <1>5, <3>1 DEF OnTheWay
  <2>3. CASE fss_out = << >>
    <3>1. phase = "done" /\ fss_in = << >> /\ task_queue = << >> /\ assigned_tasks = << >>
      BY <1>1, <1>6, <2>3 DEF CInv
    <3>2. << >> \in Seq(Task) /\ Range(<< >>) = {}
      BY DEF Range
    <3>3. CountIn(<< >>, Answering) = 0
      BY <3>2, CountType
    <3>4. LinesSent = 0 /\ QueuedAnswers = 0 /\ AssignedAnswers = 0 /\ ShutdownOwes = 0
      BY <3>1, <3>3 DEF LinesSent, QueuedAnswers, AssignedAnswers, ShutdownOwes
    <3> QED  BY <1>5, <3>4 DEF OnTheWay
  <2> QED  BY <2>2, <2>3
<1> QED  BY <1>3, <1>4, <1>6

(* A console comes or goes while it does not wait.                         *)
LEMMA ComeAndGo ==
  ASSUME CInv, ~Restarts, SendToNobody \/ Leave \/ Interrupt \/ Start
  PROVE  /\ fss_out' = << >> /\ Owed' = 0 /\ UNCHANGED <<phase, managerVars>>
         /\ phase # "crashed" => OnTheWay' = 0
<1>1. /\ console.state # "waiting" /\ console'.state # "waiting" /\ UNCHANGED managerVars
  BY DEF SendToNobody, Leave, Interrupt, Start, Prompting, Gone
<1>2. UNCHANGED <<phase, exiting, fss_in, fss_out, task_queue, assigned_tasks>>
  BY <1>1 DEF managerVars, loopVars, taskVars
<1>3. fss_out = << >> /\ (phase # "crashed" => OnTheWay = 0)
  BY <1>1, NotWaiting
<1>4. OnTheWay' = OnTheWay
  BY <1>2 DEF OnTheWay, LinesSent, AnswersSent, QueuedAnswers, AssignedAnswers, ShutdownOwes
<1> QED  BY <1>1, <1>2, <1>3, <1>4 DEF Owed

-----------------------------------------------------------------------------
(***************************************************************************)
(* The invariant.                                                          *)
(***************************************************************************)

LEMMA WorkerAnswers ==
  ASSUME CInv, NEW i \in 1 .. WorkerLimit, WorkerFinishes(i), phase # "crashed", UNCHANGED console
  PROVE  Answers'
<1> DEFINE task == assigned_tasks[i]
           done == [task EXCEPT !.done = TRUE]
<1>1. /\ TypeOK /\ Addressed /\ OneAnswer /\ \A id \in Range(fss_out) : id = console.id
      /\ UNCHANGED <<phase, exiting, fss_in, fss_out, task_queue, console>>
  BY DEF CInv, SInv, AnswersExpected, WorkerFinishes, loopVars
<1>2. /\ i \in 1 .. Len(assigned_tasks) /\ task \in Task /\ assigned_tasks \in Seq(Task)
      /\ assigned_tasks' = [assigned_tasks EXCEPT ![i] = done]
      /\ DOMAIN assigned_tasks = 1 .. Len(assigned_tasks)
  BY <1>1, LenProperties, ElementOfSeq DEF WorkerFinishes, TypeOK
<1>3. /\ done \in Task /\ done.added_by_console = task.added_by_console
      /\ (done \in Answering <=> task \in Answering)
  BY <1>2 DEF Task, Answering
<1> HIDE DEF task, done
<1>4. AssignedAnswers' = AssignedAnswers
  <2>1. done \in Answering <=> assigned_tasks[i] \in Answering
    BY <1>3 DEF task
  <2>2. CountIn([assigned_tasks EXCEPT ![i] = done], Answering) = CountIn(assigned_tasks, Answering)
    <3>1. /\ assigned_tasks \in Seq(Task) /\ i \in 1 .. Len(assigned_tasks) /\ done \in Task
      BY <1>2, <1>3
    <3> QED  BY <2>1, <3>1, CountOfReplace
  <2> QED  BY <1>2, <2>2 DEF AssignedAnswers
<1>5. OnTheWay' = OnTheWay /\ Owed' = Owed /\ ShutdownOwes' = ShutdownOwes
  BY <1>1, <1>4 DEF OnTheWay, LinesSent, AnswersSent, QueuedAnswers, ShutdownOwes, Owed
<1>6. \A t \in Range(assigned_tasks') :
        \E u \in Range(assigned_tasks) : u.added_by_console = t.added_by_console
  BY <1>2, <1>3 DEF Range, task
<1> QED  BY <1>1, <1>5, <1>6 DEF Answers, Addressed, OneAnswer

answerVars == <<fss_in, fss_out, task_queue, assigned_tasks, exiting, console>>

LEMMA AnswersStay ==
  ASSUME CInv, UNCHANGED answerVars, phase # "crashed",
         UNCHANGED phase \/ (phase # "done" /\ phase' # "done")
  PROVE  Answers'
<1>1. Addressed /\ OneAnswer /\ \A id \in Range(fss_out) : id = console.id
  BY DEF CInv, AnswersExpected
<1>2. OnTheWay' = OnTheWay /\ Owed' = Owed /\ ShutdownOwes' = ShutdownOwes
  BY DEF OnTheWay, LinesSent, AnswersSent, QueuedAnswers, AssignedAnswers, ShutdownOwes, Owed,
         answerVars
<1> QED  BY <1>1, <1>2 DEF Answers, Addressed, OneAnswer, answerVars

(* What the step lemmas prove is what the invariant asks for.              *)
LEMMA AnswersSuffice == TypeOK /\ Answers => AnswersExpected /\ Addressed /\ OneAnswer
BY FewAnswers DEF Answers, OneAnswer, AnswersExpected

LEMMA NothingOwed ==
  TypeOK /\ OnTheWay = 0 /\ Owed = 0 => Addressed /\ OneAnswer
BY NothingLeft DEF OneAnswer

LEMMA NoneExpected ==
  TypeOK /\ fss_out = << >> => AnswersExpected
<1> SUFFICES ASSUME TypeOK, fss_out = << >> PROVE AnswersExpected
  OBVIOUS
<1>1. AnswersSent = 0 /\ Range(fss_out) = {} /\ Owed \in {0, 1}
  BY DEF AnswersSent, Range, Owed
<1> QED  BY <1>1 DEF AnswersExpected

(* The end of the manager changes hands once: with nothing left to do.     *)
Over == phase = "done" => fss_in = << >> /\ task_queue = << >> /\ assigned_tasks = << >>

(* A step of the manager or its surroundings, the console aside.           *)
LEMMA LoopAnswers ==
  ASSUME CInv, [Next]_vars, ~ConsoleStep, phase # "crashed", phase' # "crashed"
  PROVE  Answers' /\ Over'
<1>0. TypeOK /\ Over
  BY DEF CInv, SInv, Over
<1>1. CASE try_doing_some_tasks /\ UNCHANGED console
  BY <1>1, StartAnswers DEF Over, try_doing_some_tasks
<1>2. CASE (Poll \/ AllAnswered) /\ UNCHANGED console
  <2>1. /\ UNCHANGED answerVars /\ phase # "done" /\ phase' # "done"
    BY <1>2 DEF Poll, AllAnswered, answerVars, loopVars, taskVars
  <2> QED  BY <2>1, AnswersStay DEF Over
<1>3. CASE handle_inotify_read /\ UNCHANGED console
  <2>1. phase' # "done"
    BY <1>3 DEF handle_inotify_read
  <2> QED  BY <1>3, <2>1, EventsAnswerNobody DEF Over
<1>4. CASE handle_command_read /\ UNCHANGED console
  BY <1>4, CommandMovesAnswer DEF Over, handle_command_read
<1>5. CASE IgnoreCommands
  BY <1>5, NothingIgnored
<1>6. CASE CheckExit /\ UNCHANGED console
  BY <1>6, ExitAnswers DEF Over
<1>7. CASE (\E i \in 1 .. WorkerLimit : Complete(i)) /\ UNCHANGED console
  <2>1. PICK i \in 1 .. WorkerLimit : Complete(i)
    BY <1>7
  <2>2. phase' # "done"
    BY <2>1 DEF Complete
  <2> QED  BY <1>7, <2>1, <2>2, CompletionAnswers DEF Over
<1>8. CASE WorkerStep /\ UNCHANGED console
  <2>1. PICK i \in 1 .. WorkerLimit : WorkerFinishes(i)
    BY <1>8 DEF WorkerStep
  <2>2. UNCHANGED phase /\ assigned_tasks # << >>
    BY <2>1 DEF WorkerFinishes, loopVars
  <2>3. phase' # "done"
    BY <1>0, <2>2 DEF Over
  <2> QED  BY <1>8, <2>1, <2>3, WorkerAnswers DEF Over
<1>9. CASE (\E d \in Dirs : FileEvent(d)) /\ UNCHANGED console
  <2>1. PICK d \in Dirs : FileEvent(d)
    BY <1>9
  <2>2. UNCHANGED answerVars /\ UNCHANGED phase
    BY <1>9, <2>1 DEF FileEvent, answerVars, loopVars, taskVars
  <2> QED  BY <1>0, <2>2, AnswersStay DEF Over, answerVars
<1>10. CASE UNCHANGED vars
  <2>1. UNCHANGED answerVars /\ UNCHANGED phase
    BY <1>10 DEF vars, managerVars, answerVars, loopVars, taskVars
  <2> QED  BY <1>0, <2>1, AnswersStay DEF Over, answerVars
<1> QED  BY <1>1, <1>2, <1>3, <1>4, <1>5, <1>6, <1>7, <1>8, <1>9, <1>10 DEF Next, ManagerStep

(* A step of the console.  Without restarts it is never interrupted while  *)
(* it waits.                                                               *)
LEMMA ConsoleAnswers ==
  ASSUME CInv, ~Restarts, ConsoleStep, TypeOK'
  PROVE  AnswersExpected' /\ Over' /\ (phase' # "crashed" => (Addressed /\ OneAnswer)')
<1>0. Over
  BY DEF CInv, Over
<1>1. CASE \E op \in TypedOps, s \in Sources : Send(op, s)
  <2>1. PICK op \in TypedOps, s \in Sources : Send(op, s)
    BY <1>1
  <2>2. Answers' /\ UNCHANGED phase /\ phase # "done"
    BY <2>1, SendKeeps
  <2>3. (AnswersExpected /\ Addressed /\ OneAnswer)'
    BY <2>2, AnswersSuffice, PTL
  <2> QED  BY <2>2, <2>3 DEF Over
<1>2. ASSUME fss_out' = << >> /\ Owed' = 0,
             phase # "crashed" => OnTheWay' = 0,
             UNCHANGED <<phase, fss_in, task_queue, assigned_tasks>>
      PROVE  AnswersExpected' /\ Over' /\ (phase' # "crashed" => (Addressed /\ OneAnswer)')
  <2>1. AnswersExpected'
    <3>1. (fss_out = << >>)'
      BY <1>2
    <3> QED  BY <3>1, NoneExpected, PTL
  <2>2. ASSUME phase' # "crashed" PROVE (Addressed /\ OneAnswer)'
    <3>1. (OnTheWay = 0 /\ Owed = 0)'
      BY <1>2, <2>2
    <3> QED  BY <3>1, NothingOwed, PTL
  <2> QED  BY <1>0, <1>2, <2>1, <2>2 DEF Over
<1>3. CASE Receive
  <2>1. UNCHANGED <<phase, fss_in, task_queue, assigned_tasks>>
    BY <1>3 DEF Receive, loopVars, taskVars
  <2> QED  BY <1>2, <1>3, <2>1, ReceiveEndsWait
<1>4. CASE SendToNobody \/ Leave \/ Interrupt \/ Start
  <2>1. UNCHANGED <<phase, fss_in, task_queue, assigned_tasks>>
    BY <1>4, ComeAndGo DEF managerVars, loopVars, taskVars
  <2> QED  BY <1>2, <1>4, <2>1, ComeAndGo
<1> QED  BY <1>1, <1>3, <1>4 DEF ConsoleStep

(* Once the manager has crashed it writes no answer any more; what it has  *)
(* written is still there.                                                 *)
LEMMA CrashAnswers ==
  ASSUME CInv, [Next]_vars, ~ConsoleStep, phase' = "crashed"
  PROVE  AnswersExpected'
<1>1. UNCHANGED <<fss_out, console>>
  <2>1. CASE \E i \in 1 .. WorkerLimit : Complete(i)
    <3>1. PICK i \in 1 .. WorkerLimit : Complete(i)
      BY <2>1
    <3>2. UNCHANGED fss_out
      BY <3>1 DEF Complete
    <3>3. phase = "responses"
      BY <3>1 DEF Complete
    <3>4. UNCHANGED console
      BY DEF Next, vars
    <3> QED  BY <3>2, <3>4
  <2>2. CASE ~\E i \in 1 .. WorkerLimit : Complete(i)
    BY <2>2 DEF Next, ManagerStep, WorkerStep, WorkerFinishes, FileEvent, vars, managerVars,
               try_doing_some_tasks, Poll, AllAnswered, handle_inotify_read, handle_command_read,
               IgnoreCommands, CheckExit
  <2> QED  BY <2>1, <2>2
<1> QED  BY <1>1 DEF CInv, AnswersExpected, AnswersSent, Owed

LEMMA AnswerStep == ~Restarts /\ CInv /\ [Next]_vars => CInv'
<1> SUFFICES ASSUME ~Restarts, CInv, [Next]_vars PROVE CInv'
  OBVIOUS
<1>1. SInv'
  BY TypeStep, LineStep, FreedStep, ListStep, PendingStep DEF CInv, SInv
<1>2. TypeOK'
  BY <1>1 DEF SInv
<1>3. CASE ConsoleStep
  BY <1>1, <1>2, <1>3, ConsoleAnswers DEF CInv, Over
<1>4. CASE ~ConsoleStep /\ phase' = "crashed"
  BY <1>1, <1>4, CrashAnswers DEF CInv
<1>5. CASE ~ConsoleStep /\ phase' # "crashed"
  <2>1. phase # "crashed"
    <3> SUFFICES ASSUME phase = "crashed" PROVE phase' = "crashed"
      BY <1>5
    <3> QED  BY <1>5 DEF Next, ManagerStep, WorkerStep, WorkerFinishes, FileEvent, vars, managerVars,
                         loopVars, try_doing_some_tasks, Poll, AllAnswered, handle_inotify_read,
                         handle_command_read, IgnoreCommands, CheckExit, Complete
  <2>2. Answers' /\ Over'
    BY <1>5, <2>1, LoopAnswers
  <2>3. (AnswersExpected /\ Addressed /\ OneAnswer)'
    BY <1>2, <2>2, AnswersSuffice, PTL
  <2> QED  BY <1>1, <2>2, <2>3 DEF CInv, Over
<1> QED  BY <1>3, <1>4, <1>5

LEMMA InitialAnswers == Init => CInv
<1> SUFFICES ASSUME Init PROVE CInv
  OBVIOUS
<1>1. SInv /\ TypeOK
  BY InitialInvariant DEF SInv
<1>2. /\ fss_in = << >> /\ fss_out = << >> /\ assigned_tasks = << >> /\ phase = "try"
      /\ exiting = NoCommand /\ console = Prompting
      /\ task_queue = [k \in DOMAIN Config |-> FullTask(Config[k], NoCommand)]
  BY DEF Init, ManagerInit
<1>3. /\ task_queue \in Seq(Task) /\ << >> \in Seq(Task)
      /\ \A t \in Range(task_queue) : t \notin Answering
      /\ \A t \in Range(<< >>) : t \notin Answering
  BY <1>1, <1>2 DEF TypeOK, Range, FullTask, Answering
<1>4. QueuedAnswers = 0
  BY <1>3, CountType DEF QueuedAnswers
<1>5. AssignedAnswers = 0
  BY <1>2, <1>3, CountType DEF AssignedAnswers
<1>6. LinesSent = 0 /\ AnswersSent = 0 /\ ShutdownOwes = 0 /\ Owed = 0
  BY <1>2 DEF LinesSent, AnswersSent, ShutdownOwes, Owed, Prompting
<1>7. OnTheWay = 0
  BY <1>4, <1>5, <1>6 DEF OnTheWay
<1> QED  BY <1>1, <1>2, <1>6, <1>7, NothingOwed, NoneExpected DEF CInv

-----------------------------------------------------------------------------
(***************************************************************************)
(* The theorems.  They are about a console that is not interrupted while   *)
(* it waits: the answer to one that was stays in the FIFO, whose dummy end *)
(* the manager holds, and greets the next console.                         *)
(***************************************************************************)

(* What is known of the answers between any two steps.                     *)
LEMMA AnswersInvariant == ~Restarts /\ Spec => []CInv
<1> SUFFICES ASSUME ~Restarts PROVE Spec => []CInv
  OBVIOUS
<1>1. Init => CInv
  BY InitialAnswers
<1>2. CInv /\ [Next]_vars => CInv'
  BY AnswerStep
<1> QED  BY <1>1, <1>2, PTL DEF Spec

(* fss_out holds no COMMAND_FINISHED but the one its console is waiting    *)
(* for, so no command is taken for finished when an earlier one is: add    *)
(* is answered before its synchronisation, sync when a worker is through,  *)
(* shutdown at the very end, and each of them once.                        *)
THEOREM NoAnswerIsStray == ~Restarts /\ Spec => []NoStrayAnswer
<1>1. CInv => NoStrayAnswer
  <2> SUFFICES ASSUME CInv, NEW k \in DOMAIN fss_out
               PROVE  console.state = "waiting" /\ fss_out[k] = console.id
    BY DEF NoStrayAnswer
  <2>1. fss_out \in Seq(Commands) /\ Natural
    BY Counts DEF CInv, SInv, TypeOK
  <2>2. AnswersSent # 0
    BY <2>1, LenProperties DEF AnswersSent
  <2>3. Owed = 1
    BY <2>1, <2>2 DEF CInv, AnswersExpected, Natural
  <2> QED  BY <2>3 DEF Owed, CInv, AnswersExpected, Range
<1> QED  BY <1>1, AnswersInvariant, PTL

(* The answer to the command a console waits for is in exactly one place:  *)
(* it cannot be lost, when a line is read, a task changes its queue or the *)
(* manager exits, and it cannot be given twice.                            *)
THEOREM WaitingHasOneAnswer == ~Restarts /\ Spec => []WaitingIsAnsweredOnce
<1>1. CInv => WaitingIsAnsweredOnce
  <2> SUFFICES ASSUME CInv, phase # "crashed", console.state = "waiting", console.op # "blank"
               PROVE  AnswersOnTheWay(console.id) = 1
    BY DEF WaitingIsAnsweredOnce
  <2> DEFINE tasks == task_queue \o assigned_tasks
             id == console.id
  <2>1. /\ TypeOK /\ Natural /\ Addressed /\ OnTheWay = 1
        /\ \A a \in Range(fss_out) : a = id
    BY Counts DEF CInv, SInv, AnswersExpected, OneAnswer, Owed
  <2>2. /\ fss_in \in Seq(Command) /\ fss_out \in Seq(Commands)
        /\ task_queue \in Seq(Task) /\ assigned_tasks \in Seq(Task)
        /\ id \in Commands /\ id # NoCommand
    BY <2>1, ConstantFacts DEF TypeOK, Prompting, Gone, Waiting
  <2>3. Cardinality({k \in DOMAIN fss_in : fss_in[k].id = id}) = LinesSent
    <3>1. \A c \in Range(fss_in) : c \in {x \in Command : x.id = id}
      BY <2>1, <2>2, RangeEquality, ElementOfSeq DEF Addressed
    <3>2. CountIn(fss_in, {x \in Command : x.id = id}) = LinesSent
      BY <2>2, <3>1, CountOfAll DEF LinesSent
    <3>3. Places(fss_in, {x \in Command : x.id = id}) = {k \in DOMAIN fss_in : fss_in[k].id = id}
      BY <3>1 DEF Places, Range
    <3> QED  BY <3>2, <3>3 DEF CountIn
  <2>4. Cardinality({k \in DOMAIN fss_out : fss_out[k] = id}) = AnswersSent
    <3>1. CountIn(fss_out, {id}) = AnswersSent
      BY <2>1, <2>2, CountOfAll DEF AnswersSent
    <3>2. Places(fss_out, {id}) = {k \in DOMAIN fss_out : fss_out[k] = id}
      BY DEF Places
    <3> QED  BY <3>1, <3>2 DEF CountIn
  <2>5. Cardinality({k \in DOMAIN tasks : tasks[k].added_by_console = id})
          = QueuedAnswers + AssignedAnswers
    <3>1. Range(tasks) = Range(task_queue) \cup Range(assigned_tasks)
      BY <2>2, RangeConcatenation
    <3>2. tasks \in Seq(Task)
      BY <2>2, ConcatProperties
    <3> HIDE DEF tasks
    <3>3. \A k \in DOMAIN tasks :
            tasks[k] \in Task /\ tasks[k].added_by_console \in {NoCommand, id}
      BY <2>1, <3>1, <3>2, LenProperties, ElementOfSeq DEF Addressed, Range
    <3>4. Places(tasks, Answering) = {k \in DOMAIN tasks : tasks[k].added_by_console = id}
      BY <2>2, <3>3 DEF Places, Answering
    <3>5. CountIn(tasks, Answering) = QueuedAnswers + AssignedAnswers
      BY <2>2, CountOfConcat DEF tasks, QueuedAnswers, AssignedAnswers
    <3> QED  BY <3>4, <3>5 DEF CountIn
  <2>6. (IF exiting = id /\ phase # "done" THEN 1 ELSE 0) = ShutdownOwes
    BY <2>1, <2>2 DEF ShutdownOwes, Addressed
  <2>7. AnswersOnTheWay(id)
          = LinesSent + AnswersSent + (QueuedAnswers + AssignedAnswers) + ShutdownOwes
    BY <2>3, <2>4, <2>5, <2>6 DEF AnswersOnTheWay, Occurrences
  <2> HIDE DEF id
  <2> QED  BY <2>1, <2>7 DEF OnTheWay, Natural, id
<1> QED  BY <1>1, AnswersInvariant, PTL

=============================================================================
