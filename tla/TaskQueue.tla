------------------------------ MODULE TaskQueue ------------------------------
(***************************************************************************)
(* TaskQueue::execute on Unix: one thread that spawns child processes,     *)
(* polls their output pipes and waits for them.  A child writes chunks to  *)
(* its pipes, blocks when a pipe is full, may close a pipe that it needs   *)
(* no more, and exits or is ended by a signal; a pipe holds at most        *)
(* PipeSize chunks and is at its end when the child has closed it.  Errors *)
(* go to the output pipe unless SeparateErrors.  stopped, spawned,         *)
(* reported and written are auxiliary.                                     *)
(***************************************************************************)
EXTENDS Integers, Sequences, FiniteSets, SequencesExt

CONSTANTS
  Task,
  TaskOrder,        \* the tasks, in the order in which they were added
  Script,           \* what each child writes: a sequence of "out" and "err"
  Outcomes,         \* how a child may end: "success", "failure" or "signal"
  SeparateErrors,
  SpawnMayFail,
  PipeSize,
  NumberOfParallelTasks,
  None

\* Every task is added; getNumberOfParallelTasks is never 0; a pipe holds data.
ASSUME TaskQueueAssumption ==
  /\ TaskOrder \in Seq(Task) /\ \A t \in Task : \E i \in DOMAIN TaskOrder : TaskOrder[i] = t
  /\ DOMAIN Script = Task /\ \A t \in Task : Script[t] \in Seq({"out", "err"})
  /\ SeparateErrors \in BOOLEAN /\ SpawnMayFail \in BOOLEAN
  /\ PipeSize \in Nat \ {0} /\ NumberOfParallelTasks \in Nat \ {0}
  /\ None \notin Outcomes /\ None \notin BOOLEAN /\ None \notin {"out", "err"}

VARIABLES
  QueuedTasks,
  PollFds,          \* the executing tasks, in the order in which they began
  events,           \* the revents of the last poll that are not yet handled
  reading,          \* the pipe of the first of events that is being read
  SubtaskFailed,
  result,           \* what execute returned
  child,            \* the child processes
  pipe,             \* the chunks in the pipes
  Output,           \* the number of chunks read from each pipe
  stopped, spawned, reported,
  written           \* the number of chunks written to each pipe

parent == <<QueuedTasks, PollFds, events, reading, SubtaskFailed, result, Output>>
ghosts == <<stopped, spawned, reported, written>>
vars == <<parent, child, pipe, ghosts>>

Pipe == {"out", "err"}
PipeOf(chunk) == IF SeparateErrors THEN chunk ELSE "out"
PipesUsed == {PipeOf(chunk) : chunk \in Pipe}
NoChunks == [p \in Pipe |-> 0]

Init ==
  /\ QueuedTasks = TaskOrder
  /\ PollFds = <<>> /\ events = <<>> /\ reading = None
  /\ SubtaskFailed = FALSE /\ result = None
  /\ child = [t \in Task |-> [left |-> Script[t], open |-> PipesUsed, status |-> None]]
  /\ pipe = [t \in Task |-> NoChunks]
  /\ Output = [t \in Task |-> NoChunks]
  /\ stopped = FALSE /\ spawned = {} /\ reported = {} /\ written = [t \in Task |-> NoChunks]

-----------------------------------------------------------------------------
\* A child process.
Running(t) == t \in spawned /\ child[t].status = None
Exited(t) == child[t].status # None

Write(t) ==
  /\ Running(t) /\ child[t].left # <<>>
  /\ LET p == PipeOf(Head(child[t].left)) IN
       /\ pipe[t][p] < PipeSize
       /\ pipe' = [pipe EXCEPT ![t][p] = @ + 1]
       /\ written' = [written EXCEPT ![t][p] = @ + 1]
  /\ child' = [child EXCEPT ![t].left = Tail(@)]
  /\ UNCHANGED <<parent, stopped, spawned, reported>>

\* The child closes all its descriptors of a pipe to which it writes no more.
Close(t, p) ==
  /\ Running(t) /\ p \in child[t].open
  /\ \A i \in DOMAIN child[t].left : PipeOf(child[t].left[i]) # p
  /\ child' = [child EXCEPT ![t].open = @ \ {p}]
  /\ UNCHANGED <<parent, pipe, ghosts>>

\* The end of the process closes its pipes.
Ends(t, status) ==
  /\ Running(t)
  /\ child' = [child EXCEPT ![t].open = {}, ![t].status = status]
  /\ UNCHANGED <<parent, pipe, ghosts>>

Exit(t) == child[t].left = <<>> /\ \E status \in Outcomes \ {"signal"} : Ends(t, status)

\* A signal ends the child wherever it is.
Signal(t) == "signal" \in Outcomes /\ Ends(t, "signal")

-----------------------------------------------------------------------------
\* The loop of execute.
CanBegin ==
  /\ QueuedTasks # <<>> /\ ~SubtaskFailed
  /\ Len(PollFds) < NumberOfParallelTasks
AtTop == result = None /\ events = <<>>

\* Task::execute and the Began callback.
Begin ==
  /\ AtTop /\ CanBegin
  /\ QueuedTasks' = Tail(QueuedTasks)
  /\ PollFds' = Append(PollFds, Head(QueuedTasks))
  /\ spawned' = spawned \cup {Head(QueuedTasks)}
  /\ UNCHANGED <<events, reading, SubtaskFailed, result, Output, child, pipe, stopped, reported, written>>

\* Task::execute fails, and execute returns at once.
SpawnFails ==
  /\ SpawnMayFail /\ AtTop /\ CanBegin
  /\ QueuedTasks' = Tail(QueuedTasks)
  /\ result' = TRUE
  /\ UNCHANGED <<PollFds, events, reading, SubtaskFailed, Output, child, pipe, ghosts>>

\* poll looks at the output pipes only, and waits until one of them has data
\* or is hung up.
Revents(t) == [task |-> t, in |-> pipe[t]["out"] > 0, hup |-> "out" \notin child[t].open]
PollReturns ==
  /\ AtTop /\ ~CanBegin
  /\ \E i \in DOMAIN PollFds : Revents(PollFds[i]).in \/ Revents(PollFds[i]).hup
  /\ events' = [i \in DOMAIN PollFds |-> Revents(PollFds[i])]
\* The pipe to read for the first of some events.
FirstRead(evs) == IF evs # <<>> /\ evs[1].in THEN "out" ELSE None
MutantPoll ==  \* data that is available is not read
  /\ PollReturns
  /\ UNCHANGED <<QueuedTasks, PollFds, reading, SubtaskFailed, result, Output, child, pipe, ghosts>>
Poll ==
  /\ PollReturns /\ reading' = FirstRead(events')
  /\ UNCHANGED <<QueuedTasks, PollFds, SubtaskFailed, result, Output, child, pipe, ghosts>>

Current == events[1].task

\* readFromAPipe: a read blocks while the pipe is empty and not at its end.
Read ==
  /\ events # <<>> /\ reading # None
  /\ pipe[Current][reading] > 0
  /\ pipe' = [pipe EXCEPT ![Current][reading] = 0]
  /\ Output' = [Output EXCEPT ![Current][reading] = @ + pipe[Current][reading]]
  /\ UNCHANGED <<QueuedTasks, PollFds, events, reading, SubtaskFailed, result, child, ghosts>>

NextEvents == events' = Tail(events) /\ reading' = FirstRead(events')

\* readFromPipes: the output pipe is read to its end, and then the error pipe.
ReadEnds ==
  /\ events # <<>> /\ reading # None
  /\ reading \notin child[Current].open /\ pipe[Current][reading] = 0
  /\ reading' = IF reading = "out" /\ SeparateErrors THEN "err" ELSE None
  /\ UNCHANGED <<QueuedTasks, PollFds, events, SubtaskFailed, result, Output, child, pipe, ghosts>>

\* The pipe was not hung up when poll returned.
StillOpen ==
  /\ events # <<>> /\ reading = None /\ ~events[1].hup
  /\ NextEvents
  /\ UNCHANGED <<QueuedTasks, PollFds, SubtaskFailed, result, Output, child, pipe, ghosts>>

\* What the callbacks answer: the driver stops after a failure.
StopExecution(t) == child[t].status # "success"

Erase(t) == \E i \in DOMAIN PollFds : PollFds[i] = t /\ PollFds' = RemoveAt(PollFds, i)

MutantHungUp ==  \* what is left in the pipes is not read
  /\ events # <<>> /\ reading = None /\ events[1].hup
  /\ Exited(Current)
  /\ SubtaskFailed' = IF child[Current].status = "signal" THEN TRUE ELSE StopExecution(Current)
  /\ stopped' = (stopped \/ StopExecution(Current))
  /\ reported' = reported \cup {Current}
  /\ Erase(Current)
  /\ NextEvents
  /\ UNCHANGED <<QueuedTasks, result, Output, child, pipe, spawned, written>>

\* waitpid, which waits until the child has ended, finishExecution, which reads
\* both pipes to their end, and the callback.  After an exit SubtaskFailed is
\* assigned.
HungUp ==
  /\ events # <<>> /\ reading = None /\ events[1].hup
  /\ Exited(Current)
  /\ Output' = [Output EXCEPT ![Current] = [p \in Pipe |-> @[p] + pipe[Current][p]]]
  /\ pipe' = [pipe EXCEPT ![Current] = NoChunks]
  /\ SubtaskFailed' = IF child[Current].status = "signal" THEN TRUE ELSE StopExecution(Current)
  /\ stopped' = (stopped \/ StopExecution(Current))
  /\ reported' = reported \cup {Current}
  /\ Erase(Current)
  /\ NextEvents
  /\ UNCHANGED <<QueuedTasks, result, child, spawned, written>>

MutantReturn ==  \* execute does not wait for the tasks that are executing
  /\ AtTop /\ ~CanBegin
  /\ QueuedTasks = <<>> \/ SubtaskFailed
  /\ result' = SubtaskFailed
  /\ UNCHANGED <<QueuedTasks, PollFds, events, reading, SubtaskFailed, Output, child, pipe, ghosts>>

Return ==
  /\ AtTop /\ PollFds = <<>> /\ ~CanBegin
  /\ result' = SubtaskFailed
  /\ UNCHANGED <<QueuedTasks, PollFds, events, reading, SubtaskFailed, Output, child, pipe, ghosts>>

Execute == Begin \/ SpawnFails \/ Poll \/ Read \/ ReadEnds \/ StillOpen \/ HungUp \/ Return
Child(t) == Write(t) \/ Exit(t) \/ Signal(t) \/ \E p \in Pipe : Close(t, p)
Next == Execute \/ \E t \in Task : Child(t)

Spec == Init /\ [][Next]_vars

\* The parent and its children run as long as they can.  No child needs to be
\* ended by a signal, or to close a pipe before it exits.
FairSpec == Spec /\ WF_vars(Execute) /\ \A t \in Task : WF_vars(Write(t) \/ Exit(t))

-----------------------------------------------------------------------------
\* The Finished callback gets all that the task has written, whether it was
\* read while the task ran or after it ended.
OutputComplete == \A t \in reported, p \in Pipe : Output[t][p] = written[t][p]

\* When execute returns false, every task that began was reported, and
\* without a request to stop all tasks have run.
AllReported ==
  result = FALSE => /\ reported = spawned
                    /\ ~stopped => reported = Task

\* What TaskQueue.h says of StopExecution and the code does not do: no new tasks
\* will begin execution.
StopMeansStop == [][stopped => spawned' = spawned]_vars

Written(t, p) == Len(SelectSeq(Script[t], LAMBDA chunk : PipeOf(chunk) = p))

\* execute returns, if the errors of a task fit in their pipe: what is written
\* to it is read only after the output has come to its end.
ErrorsFit == SeparateErrors => \A t \in Task : Written(t, "err") <= PipeSize
ExecuteReturns == ErrorsFit => <>(result # None)
=============================================================================
