--------------------------- MODULE TaskQueueProofs ---------------------------
(***************************************************************************)
(* Proofs about TaskQueue: nothing a child has written is lost, and when   *)
(* execute returns false no task is left out.                              *)
(***************************************************************************)
EXTENDS TaskQueue, TLAPS

Event == [task : Task, in : BOOLEAN, hup : BOOLEAN]
Process == [left : Seq(Pipe), open : SUBSET Pipe, status : Outcomes \cup {None}]

TypeOK ==
  /\ QueuedTasks \in Seq(Task)
  /\ PollFds \in Seq(Task)
  /\ events \in Seq(Event)
  /\ reading \in Pipe \cup {None}
  /\ SubtaskFailed \in BOOLEAN
  /\ result \in BOOLEAN \cup {None}
  /\ child \in [Task -> Process]
  /\ pipe \in [Task -> [Pipe -> Nat]]
  /\ Output \in [Task -> [Pipe -> Nat]]
  /\ written \in [Task -> [Pipe -> Nat]]
  /\ stopped \in BOOLEAN
  /\ spawned \in SUBSET Task
  /\ reported \in SUBSET Task

\* A chunk that was written is in the pipe or was read.
PipesInv == \A t \in Task, p \in Pipe : Output[t][p] + pipe[t][p] = written[t][p]

\* A task is reported after it has exited and its pipes were drained.
ReportedInv == \A t \in reported : Exited(t) /\ pipe[t] = NoChunks

Occurs(t, s) == \E i \in DOMAIN s : s[i] = t

\* A task that began is executing until it is reported, and a task leaves the
\* queue when it begins, or when it cannot be spawned.
TasksInv ==
  /\ \A t \in Task : t \in spawned <=> t \in reported \/ Occurs(t, PollFds)
  /\ result = TRUE \/ \A t \in Task : t \in spawned \/ Occurs(t, QueuedTasks)

\* Without a request to stop the loop goes on.
StopInv == SubtaskFailed => stopped

\* The events are handled before the loop ends.
ReturnInv == result # None => events = <<>>

IInv ==
  TypeOK /\ PipesInv /\ ReportedInv /\ TasksInv /\ StopInv /\ ReturnInv /\ AllReported

-----------------------------------------------------------------------------
\* What RemoveAt, which stands for std::vector::erase, leaves in a sequence.
LEMMA RemoveAtLeaves ==
  ASSUME NEW S, NEW s \in Seq(S), NEW i \in DOMAIN s
  PROVE  /\ RemoveAt(s, i) \in Seq(S)
         /\ \A t \in S : Occurs(t, s) <=> t = s[i] \/ Occurs(t, RemoveAt(s, i))
<1> DEFINE u == SubSeq(s, 1, i - 1)
           v == SubSeq(s, i + 1, Len(s))
<1>1. i \in Nat /\ 1 <= i /\ i <= Len(s) /\ Len(s) \in Nat
  OBVIOUS
<1>2. /\ u \in Seq(S) /\ Len(u) = i - 1
      /\ \A j \in 1..(i - 1) : u[j] = s[j]
  BY <1>1
<1>3. /\ v \in Seq(S) /\ Len(v) = Len(s) - i
      /\ \A j \in 1..(Len(s) - i) : v[j] = s[i + j]
  BY <1>1
<1> HIDE DEF u, v
<1>4. /\ u \o v \in Seq(S) /\ Len(u \o v) = Len(s) - 1
      /\ \A j \in 1..(i - 1) : (u \o v)[j] = s[j]
      /\ \A j \in i..(Len(s) - 1) : (u \o v)[j] = s[j + 1]
  <2>1. u \o v \in Seq(S) /\ Len(u \o v) = Len(s) - 1
    BY <1>1, <1>2, <1>3
  <2>2. \A j \in 1..(i - 1) : (u \o v)[j] = s[j]
    BY <1>1, <1>2, <1>3
  <2>3. ASSUME NEW j \in i..(Len(s) - 1) PROVE (u \o v)[j] = s[j + 1]
    <3>1. (u \o v)[j] = v[j - (i - 1)]
      BY <1>1, <1>2, <1>3
    <3>2. v[j - (i - 1)] = s[i + (j - (i - 1))]
      BY <1>1, <1>3
    <3> QED BY <1>1, <3>1, <3>2
  <2> QED BY <2>1, <2>2, <2>3
<1>5. RemoveAt(s, i) = u \o v
  BY DEF RemoveAt, u, v
<1>6. ASSUME NEW j \in DOMAIN s, j # i PROVE Occurs(s[j], u \o v)
  <2>1. CASE j < i
    <3>1. j \in 1..(i - 1) /\ j \in DOMAIN (u \o v)
      BY <1>1, <1>4, <2>1
    <3> QED BY <3>1, <1>4 DEF Occurs
  <2>2. CASE j > i
    <3>1. /\ j - 1 \in i..(Len(s) - 1) /\ j - 1 \in DOMAIN (u \o v)
          /\ (j - 1) + 1 = j
      BY <1>1, <1>4, <2>2
    <3> QED BY <3>1, <1>4 DEF Occurs
  <2> QED BY <1>1, <1>6, <2>1, <2>2
<1>7. ASSUME NEW j \in DOMAIN (u \o v) PROVE Occurs((u \o v)[j], s)
  <2>1. CASE j < i
    <3>1. j \in 1..(i - 1) /\ j \in DOMAIN s
      BY <1>1, <1>4, <2>1
    <3> QED BY <3>1, <1>4 DEF Occurs
  <2>2. CASE j >= i
    <3>1. j \in i..(Len(s) - 1) /\ j + 1 \in DOMAIN s
      BY <1>1, <1>4, <2>2
    <3> QED BY <3>1, <1>4 DEF Occurs
  <2> QED BY <1>1, <1>4, <2>1, <2>2
<1>8. ASSUME NEW t \in S, Occurs(t, s) PROVE t = s[i] \/ Occurs(t, u \o v)
  <2>1. PICK j \in DOMAIN s : s[j] = t
    BY <1>8 DEF Occurs
  <2> QED BY <2>1, <1>6
<1>9. ASSUME NEW t \in S, t = s[i] \/ Occurs(t, u \o v) PROVE Occurs(t, s)
  <2>1. CASE t = s[i]
    BY <2>1 DEF Occurs
  <2>2. CASE Occurs(t, u \o v)
    <3>1. PICK j \in DOMAIN (u \o v) : (u \o v)[j] = t
      BY <2>2 DEF Occurs
    <3> QED BY <3>1, <1>7
  <2> QED BY <1>9, <2>1, <2>2
<1> QED BY <1>4, <1>5, <1>8, <1>9

LEMMA AppendOccurs ==
  ASSUME NEW S, NEW s \in Seq(S), NEW x \in S
  PROVE  \A t \in S : Occurs(t, Append(s, x)) <=> t = x \/ Occurs(t, s)
<1>1. /\ Append(s, x) \in Seq(S) /\ Len(Append(s, x)) = Len(s) + 1 /\ Len(s) \in Nat
      /\ Append(s, x)[Len(s) + 1] = x
      /\ \A j \in DOMAIN s : j \in DOMAIN Append(s, x) /\ Append(s, x)[j] = s[j]
  OBVIOUS
<1>2. \A j \in DOMAIN Append(s, x) : j = Len(s) + 1 \/ j \in DOMAIN s
  BY <1>1
<1>3. Len(s) + 1 \in DOMAIN Append(s, x)
  BY <1>1
<1>4. ASSUME NEW t \in S, Occurs(t, Append(s, x)) PROVE t = x \/ Occurs(t, s)
  <2>1. PICK j \in DOMAIN Append(s, x) : Append(s, x)[j] = t
    BY <1>4 DEF Occurs
  <2> QED BY <2>1, <1>1, <1>2 DEF Occurs
<1>5. ASSUME NEW t \in S, t = x \/ Occurs(t, s) PROVE Occurs(t, Append(s, x))
  <2>1. CASE t = x
    BY <2>1, <1>1, <1>3 DEF Occurs
  <2>2. CASE Occurs(t, s)
    BY <2>2, <1>1 DEF Occurs
  <2> QED BY <1>5, <2>1, <2>2
<1> QED BY <1>4, <1>5

LEMMA TailOccurs ==
  ASSUME NEW S, NEW s \in Seq(S), s # <<>>
  PROVE  /\ Head(s) \in S /\ Tail(s) \in Seq(S)
         /\ \A t \in S : Occurs(t, s) <=> t = Head(s) \/ Occurs(t, Tail(s))
<1>1. Head(s) \in S /\ Tail(s) \in Seq(S) /\ Len(Tail(s)) = Len(s) - 1 /\ Len(s) \in Nat \ {0}
  OBVIOUS
<1>2. \A j \in 1..Len(Tail(s)) : Tail(s)[j] = s[j + 1]
  OBVIOUS
<1>3. ASSUME NEW t \in S, Occurs(t, s) PROVE t = Head(s) \/ Occurs(t, Tail(s))
  <2>1. PICK i \in DOMAIN s : s[i] = t
    BY <1>3 DEF Occurs
  <2>2. CASE i = 1
    BY <2>1, <2>2
  <2>3. CASE i # 1
    <3>1. i - 1 \in 1..Len(Tail(s)) /\ i - 1 \in DOMAIN Tail(s) /\ (i - 1) + 1 = i
      BY <1>1, <2>3
    <3> QED BY <3>1, <2>1, <1>2 DEF Occurs
  <2> QED BY <2>2, <2>3
<1>4. ASSUME NEW t \in S, t = Head(s) \/ Occurs(t, Tail(s)) PROVE Occurs(t, s)
  <2>1. CASE t = Head(s)
    <3>1. 1 \in DOMAIN s /\ s[1] = t
      BY <2>1, <1>1
    <3> QED BY <3>1 DEF Occurs
  <2>2. CASE Occurs(t, Tail(s))
    <3>1. PICK i \in DOMAIN Tail(s) : Tail(s)[i] = t
      BY <2>2 DEF Occurs
    <3>2. i + 1 \in DOMAIN s /\ i \in 1..Len(Tail(s))
      BY <1>1
    <3> QED BY <3>1, <3>2, <1>2 DEF Occurs
  <2> QED BY <1>4, <2>1, <2>2
<1> QED BY <1>1, <1>3, <1>4

-----------------------------------------------------------------------------
LEMMA PipeOfIsPipe == ASSUME NEW c \in Pipe PROVE PipeOf(c) \in Pipe
BY DEF PipeOf, Pipe

LEMMA InitIInv == Init => IInv
<1> USE TaskQueueAssumption
<1> SUFFICES ASSUME Init PROVE IInv
  OBVIOUS
<1>1. NoChunks \in [Pipe -> Nat]
  BY DEF NoChunks
<1>2. TypeOK
  <2>1. child \in [Task -> Process]
    <3>1. PipesUsed \in SUBSET Pipe
      BY PipeOfIsPipe DEF PipesUsed
    <3>2. ASSUME NEW t \in Task
          PROVE  [left |-> Script[t], open |-> PipesUsed, status |-> None] \in Process
      BY <3>1 DEF Process, Pipe
    <3> QED BY <3>2 DEF Init
  <2>2. QueuedTasks \in Seq(Task) /\ PollFds \in Seq(Task) /\ events \in Seq(Event)
    BY DEF Init
  <2>3. /\ reading \in Pipe \cup {None} /\ SubtaskFailed \in BOOLEAN
        /\ result \in BOOLEAN \cup {None} /\ stopped \in BOOLEAN
        /\ spawned \in SUBSET Task /\ reported \in SUBSET Task
    BY DEF Init
  <2>4. /\ pipe \in [Task -> [Pipe -> Nat]] /\ Output \in [Task -> [Pipe -> Nat]]
        /\ written \in [Task -> [Pipe -> Nat]]
    BY <1>1 DEF Init
  <2> QED BY <2>1, <2>2, <2>3, <2>4 DEF TypeOK
<1>3. PipesInv
  BY DEF Init, PipesInv, NoChunks
<1>4. TasksInv
  BY DEF Init, TasksInv, Occurs
<1>5. ReportedInv /\ StopInv /\ ReturnInv /\ AllReported
  BY DEF Init, ReportedInv, StopInv, ReturnInv, AllReported
<1> QED BY <1>2, <1>3, <1>4, <1>5 DEF IInv

LEMMA WriteIInv == ASSUME IInv, NEW t \in Task, Write(t) PROVE IInv'
<1> USE DEF IInv
<1> DEFINE p == PipeOf(Head(child[t].left))
<1>1. p \in Pipe /\ Tail(child[t].left) \in Seq(Pipe)
  <2>1. child[t].left \in Seq(Pipe) /\ child[t].left # <<>>
    BY DEF Write, TypeOK, Process
  <2>2. Head(child[t].left) \in Pipe /\ Tail(child[t].left) \in Seq(Pipe)
    BY <2>1
  <2> QED BY <2>2, PipeOfIsPipe
<1>2. /\ pipe' = [pipe EXCEPT ![t][p] = @ + 1]
      /\ written' = [written EXCEPT ![t][p] = @ + 1]
      /\ child' = [child EXCEPT ![t].left = Tail(@)]
      /\ UNCHANGED <<parent, stopped, spawned, reported>>
      /\ child[t].status = None
  BY DEF Write, Running
<1> HIDE DEF p
<1>3. t \notin reported
  BY <1>2 DEF ReportedInv, Exited
<1>4. TypeOK'
  <2>1. child' \in [Task -> Process]
    <3>1. child[t] \in Process
      BY DEF TypeOK
    <3>2. [child[t] EXCEPT !.left = Tail(child[t].left)] \in Process
      BY <1>1, <3>1 DEF Process
    <3>3. child' = [child EXCEPT ![t] = [child[t] EXCEPT !.left = Tail(child[t].left)]]
      BY <1>2 DEF TypeOK
    <3> QED BY <3>2, <3>3 DEF TypeOK
  <2>2. ASSUME NEW f \in [Task -> [Pipe -> Nat]]
        PROVE  [f EXCEPT ![t][p] = @ + 1] \in [Task -> [Pipe -> Nat]]
    <3>1. [f[t] EXCEPT ![p] = f[t][p] + 1] \in [Pipe -> Nat]
      BY <1>1
    <3>2. [f EXCEPT ![t][p] = @ + 1] = [f EXCEPT ![t] = [f[t] EXCEPT ![p] = f[t][p] + 1]]
      OBVIOUS
    <3> QED BY <3>1, <3>2
  <2>3. pipe' \in [Task -> [Pipe -> Nat]] /\ written' \in [Task -> [Pipe -> Nat]]
    BY <1>2, <2>2 DEF TypeOK
  <2> QED BY <1>2, <2>1, <2>3 DEF TypeOK, parent
<1>5. PipesInv'
  <2> SUFFICES ASSUME NEW u \in Task, NEW q \in Pipe
               PROVE  Output[u][q] + pipe'[u][q] = written'[u][q]
    BY <1>2 DEF PipesInv, parent
  <2>1. Output[u][q] + pipe[u][q] = written[u][q]
    BY DEF PipesInv
  <2>2. Output[u][q] \in Nat /\ pipe[u][q] \in Nat /\ written[u][q] \in Nat
    BY DEF TypeOK
  <2>3. CASE u = t /\ q = p
    <3>1. pipe'[u][q] = pipe[u][q] + 1 /\ written'[u][q] = written[u][q] + 1
      BY <1>1, <1>2, <2>3 DEF TypeOK
    <3> QED BY <2>1, <2>2, <3>1
  <2>4. CASE ~(u = t /\ q = p)
    <3>1. pipe'[u][q] = pipe[u][q] /\ written'[u][q] = written[u][q]
      BY <1>1, <1>2, <2>4 DEF TypeOK
    <3> QED BY <2>1, <3>1
  <2> QED BY <2>3, <2>4
<1>6. ReportedInv'
  BY <1>2, <1>3 DEF ReportedInv, Exited, TypeOK
<1>7. TasksInv' /\ StopInv' /\ ReturnInv' /\ AllReported'
  BY <1>2 DEF TasksInv, StopInv, ReturnInv, AllReported, parent
<1> QED BY <1>4, <1>5, <1>6, <1>7

\* A running child closes pipes or ends.
LEMMA ProcessIInv ==
  ASSUME IInv, NEW t \in Task, NEW c \in Process, Running(t),
         child' = [child EXCEPT ![t] = c], UNCHANGED <<parent, pipe, ghosts>>
  PROVE  IInv'
<1> USE DEF IInv
<1>1. t \notin reported
  BY DEF ReportedInv, Exited, Running
<1>2. TypeOK'
  <2>1. child' \in [Task -> Process]
    <3> HIDE DEF IInv
    <3>1. child \in [Task -> Process]
      BY DEF IInv, TypeOK
    <3> QED BY <3>1
  <2> QED BY <2>1 DEF TypeOK, parent, ghosts
<1>3. ReportedInv'
  BY <1>1 DEF ReportedInv, Exited, TypeOK, ghosts
<1>4. PipesInv' /\ TasksInv' /\ StopInv' /\ ReturnInv' /\ AllReported'
  BY DEF PipesInv, TasksInv, StopInv, ReturnInv, AllReported, parent, ghosts
<1> QED BY <1>2, <1>3, <1>4

LEMMA CloseIInv == ASSUME IInv, NEW t \in Task, NEW p \in Pipe, Close(t, p) PROVE IInv'
<1> DEFINE c == [child[t] EXCEPT !.open = child[t].open \ {p}]
<1>1. child \in [Task -> Process]
  BY DEF IInv, TypeOK
<1>2. c \in Process
  BY <1>1 DEF Process
<1>3. child' = [child EXCEPT ![t] = c]
  BY <1>1 DEF Close
<1> HIDE DEF c
<1> QED BY <1>2, <1>3, ProcessIInv DEF Close

LEMMA EndsIInv ==
  ASSUME IInv, NEW t \in Task, NEW status \in Outcomes, Ends(t, status)
  PROVE  IInv'
<1> DEFINE c == [child[t] EXCEPT !.open = {}, !.status = status]
<1>1. child \in [Task -> Process]
  BY DEF IInv, TypeOK
<1>2. c \in Process
  BY <1>1 DEF Process
<1>3. child' = [child EXCEPT ![t] = c]
  BY <1>1 DEF Ends
<1> HIDE DEF c
<1> QED BY <1>2, <1>3, ProcessIInv DEF Ends

LEMMA BeginIInv == ASSUME IInv, Begin PROVE IInv'
<1> USE DEF IInv
<1> DEFINE h == Head(QueuedTasks)
<1>1. /\ result = None /\ QueuedTasks # <<>>
      /\ QueuedTasks' = Tail(QueuedTasks)
      /\ PollFds' = Append(PollFds, h)
      /\ spawned' = spawned \cup {h}
      /\ UNCHANGED <<events, reading, SubtaskFailed, result, Output, child, pipe, stopped,
                     reported, written>>
  BY DEF Begin, AtTop, CanBegin
<1>2. /\ h \in Task /\ Tail(QueuedTasks) \in Seq(Task)
      /\ \A t \in Task : Occurs(t, QueuedTasks) <=> t = h \/ Occurs(t, Tail(QueuedTasks))
  BY <1>1, TailOccurs DEF TypeOK
<1>3. \A t \in Task : Occurs(t, PollFds') <=> t = h \/ Occurs(t, PollFds)
  BY <1>1, <1>2, AppendOccurs DEF TypeOK
<1> HIDE DEF h
<1>4. TypeOK'
  <2>1. QueuedTasks' \in Seq(Task) /\ PollFds' \in Seq(Task) /\ spawned' \in SUBSET Task
    BY <1>1, <1>2 DEF TypeOK
  <2> QED BY <1>1, <2>1 DEF TypeOK
<1>5. TasksInv'
  BY <1>1, <1>2, <1>3 DEF TasksInv
<1>6. PipesInv' /\ ReportedInv' /\ StopInv' /\ ReturnInv' /\ AllReported'
  BY <1>1, TaskQueueAssumption DEF PipesInv, ReportedInv, Exited, StopInv, ReturnInv, AllReported
<1> QED BY <1>4, <1>5, <1>6

LEMMA SpawnFailsIInv == ASSUME IInv, SpawnFails PROVE IInv'
<1> USE DEF IInv
<1>1. TypeOK'
  BY TailOccurs DEF TypeOK, SpawnFails, CanBegin, ghosts
<1>2. TasksInv' /\ StopInv' /\ ReturnInv' /\ AllReported'
  BY DEF SpawnFails, AtTop, TasksInv, StopInv, ReturnInv, AllReported, ghosts
<1>3. PipesInv' /\ ReportedInv'
  BY DEF SpawnFails, PipesInv, ReportedInv, Exited, ghosts
<1> QED BY <1>1, <1>2, <1>3

\* The steps that change nothing but the events that are still to be handled.
LEMMA EventsIInv ==
  ASSUME IInv, result = None,
         events' \in Seq(Event), reading' \in Pipe \cup {None},
         UNCHANGED <<QueuedTasks, PollFds, SubtaskFailed, result, Output, child, pipe, ghosts>>
  PROVE  IInv'
BY DEF IInv, TypeOK, PipesInv, ReportedInv, Exited, TasksInv, StopInv, ReturnInv, AllReported, ghosts

LEMMA FirstReadIsPipe == ASSUME NEW evs \in Seq(Event) PROVE FirstRead(evs) \in Pipe \cup {None}
BY DEF FirstRead, Pipe

LEMMA PollIInv == ASSUME IInv, Poll PROVE IInv'
<1>1. \A t \in Task : Revents(t) \in Event
  BY DEF Revents, Event, Exited, IInv, TypeOK, Pipe
<1>2. DOMAIN PollFds = 1..Len(PollFds) /\ Len(PollFds) \in Nat /\ \A i \in DOMAIN PollFds : PollFds[i] \in Task
  BY DEF IInv, TypeOK
<1>3. events' = [i \in DOMAIN PollFds |-> Revents(PollFds[i])]
  BY DEF Poll, PollReturns
<1>4. events' \in Seq(Event)
  BY <1>1, <1>2, <1>3
<1> QED BY <1>4, FirstReadIsPipe, EventsIInv DEF Poll, PollReturns, AtTop

LEMMA NoEventsAfter == ASSUME IInv, events # <<>> PROVE result = None
BY DEF IInv, ReturnInv

LEMMA ReadEndsIInv == ASSUME IInv, ReadEnds PROVE IInv'
<1>1. reading' \in Pipe \cup {None} /\ events' \in Seq(Event)
  BY DEF ReadEnds, Pipe, IInv, TypeOK
<1> QED BY <1>1, NoEventsAfter, EventsIInv DEF ReadEnds

LEMMA NextEventsType ==
  ASSUME IInv, events # <<>>, NextEvents
  PROVE  events' \in Seq(Event) /\ reading' \in Pipe \cup {None}
<1>1. Tail(events) \in Seq(Event)
  BY DEF IInv, TypeOK
<1> QED BY <1>1, FirstReadIsPipe DEF NextEvents

LEMMA StillOpenIInv == ASSUME IInv, StillOpen PROVE IInv'
BY NextEventsType, NoEventsAfter, EventsIInv DEF StillOpen

LEMMA ReadIInv == ASSUME IInv, Read PROVE IInv'
<1> USE DEF IInv
<1>1. /\ events # <<>> /\ reading # None
      /\ pipe[Current][reading] > 0
      /\ pipe' = [pipe EXCEPT ![Current][reading] = 0]
      /\ Output' = [Output EXCEPT ![Current][reading] = @ + pipe[Current][reading]]
      /\ UNCHANGED <<QueuedTasks, PollFds, events, reading, SubtaskFailed, result, child, ghosts>>
  BY DEF Read
<1>2. Current \in Task /\ reading \in Pipe
  <2>1. events[1] \in Event
    BY <1>1 DEF TypeOK
  <2> QED BY <1>1, <2>1 DEF TypeOK, Current, Event
<1> DEFINE t == Current
           p == reading
<1>3. /\ t \in Task /\ p \in Pipe
      /\ pipe[t][p] > 0
      /\ pipe' = [pipe EXCEPT ![t][p] = 0]
      /\ Output' = [Output EXCEPT ![t][p] = @ + pipe[t][p]]
  BY <1>1, <1>2
<1> HIDE DEF t, p
<1>4. t \notin reported
  BY <1>3 DEF ReportedInv, NoChunks
<1>5. TypeOK'
  <2>1. pipe' \in [Task -> [Pipe -> Nat]]
    <3>1. [pipe[t] EXCEPT ![p] = 0] \in [Pipe -> Nat]
      BY <1>3 DEF TypeOK
    <3>2. pipe' = [pipe EXCEPT ![t] = [pipe[t] EXCEPT ![p] = 0]]
      BY <1>3 DEF TypeOK
    <3> QED BY <3>1, <3>2 DEF TypeOK
  <2>2. Output' \in [Task -> [Pipe -> Nat]]
    <3>1. [Output[t] EXCEPT ![p] = Output[t][p] + pipe[t][p]] \in [Pipe -> Nat]
      <4>1. Output[t] \in [Pipe -> Nat] /\ Output[t][p] \in Nat /\ pipe[t][p] \in Nat
        BY <1>3 DEF TypeOK
      <4>2. Output[t][p] + pipe[t][p] \in Nat
        BY <4>1
      <4> QED BY <4>1, <4>2
    <3>2. Output' = [Output EXCEPT ![t] = [Output[t] EXCEPT ![p] = Output[t][p] + pipe[t][p]]]
      BY <1>3 DEF TypeOK
    <3> QED BY <3>1, <3>2 DEF TypeOK
  <2> QED BY <1>1, <2>1, <2>2 DEF TypeOK, ghosts
<1>6. PipesInv'
  <2> SUFFICES ASSUME NEW u \in Task, NEW q \in Pipe
               PROVE  Output'[u][q] + pipe'[u][q] = written[u][q]
    BY <1>1 DEF PipesInv, ghosts
  <2>1. Output[u][q] + pipe[u][q] = written[u][q]
    BY DEF PipesInv
  <2>2. Output[u][q] \in Nat /\ pipe[u][q] \in Nat /\ written[u][q] \in Nat
    BY DEF TypeOK
  <2>3. CASE u = t /\ q = p
    <3>1. pipe'[u][q] = 0 /\ Output'[u][q] = Output[u][q] + pipe[u][q]
      BY <1>3, <2>3 DEF TypeOK
    <3> QED BY <2>1, <2>2, <3>1
  <2>4. CASE ~(u = t /\ q = p)
    <3>1. pipe'[u][q] = pipe[u][q] /\ Output'[u][q] = Output[u][q]
      BY <1>3, <2>4 DEF TypeOK
    <3> QED BY <2>1, <3>1
  <2> QED BY <2>3, <2>4
<1>7. ReportedInv'
  BY <1>1, <1>3, <1>4 DEF ReportedInv, Exited, TypeOK, ghosts
<1>8. TasksInv' /\ StopInv' /\ ReturnInv' /\ AllReported'
  BY <1>1 DEF TasksInv, StopInv, ReturnInv, AllReported, ghosts
<1> QED BY <1>5, <1>6, <1>7, <1>8

LEMMA HungUpIInv == ASSUME IInv, HungUp PROVE IInv'
<1> USE DEF IInv
<1> DEFINE t == Current
           drained == [p \in Pipe |-> Output[t][p] + pipe[t][p]]
<1>1. PICK i \in DOMAIN PollFds : PollFds[i] = t /\ PollFds' = RemoveAt(PollFds, i)
  BY DEF HungUp, Erase
<1>2. /\ events # <<>> /\ Exited(t)
      /\ Output' = [Output EXCEPT ![t] = drained]
      /\ pipe' = [pipe EXCEPT ![t] = NoChunks]
      /\ SubtaskFailed' = IF child[t].status = "signal" THEN TRUE ELSE StopExecution(t)
      /\ stopped' = (stopped \/ StopExecution(t))
      /\ reported' = reported \cup {t}
      /\ UNCHANGED <<QueuedTasks, result, child, spawned, written>>
  BY DEF HungUp
<1>3. t \in Task
  BY <1>1 DEF TypeOK
<1>4. events' \in Seq(Event) /\ reading' \in Pipe \cup {None}
  BY NextEventsType DEF HungUp
<1>5. result = None
  BY <1>2, NoEventsAfter
<1>6. /\ PollFds' \in Seq(Task)
      /\ \A u \in Task : Occurs(u, PollFds) <=> u = t \/ Occurs(u, PollFds')
  BY <1>1, RemoveAtLeaves DEF TypeOK
<1>7. drained \in [Pipe -> Nat] /\ NoChunks \in [Pipe -> Nat]
  <2>1. \A p \in Pipe : Output[t][p] \in Nat /\ pipe[t][p] \in Nat
    BY <1>3 DEF TypeOK
  <2> QED BY <2>1 DEF NoChunks
<1>8. Output'[t] = drained /\ pipe'[t] = NoChunks
  BY <1>2, <1>3 DEF TypeOK
<1>9. ASSUME NEW p \in Pipe PROVE drained[p] = Output[t][p] + pipe[t][p] /\ NoChunks[p] = 0
  BY DEF NoChunks
<1> HIDE DEF t, drained
<1>10. TypeOK'
  <2>1. Output' \in [Task -> [Pipe -> Nat]] /\ pipe' \in [Task -> [Pipe -> Nat]]
    BY <1>2, <1>3, <1>7 DEF TypeOK
  <2>2. SubtaskFailed' \in BOOLEAN /\ stopped' \in BOOLEAN
    BY <1>2 DEF TypeOK, StopExecution
  <2>3. reported' \in SUBSET Task
    BY <1>2, <1>3 DEF TypeOK
  <2> QED BY <1>2, <1>4, <1>6, <2>1, <2>2, <2>3 DEF TypeOK
<1>11. PipesInv'
  <2> SUFFICES ASSUME NEW u \in Task, NEW q \in Pipe
               PROVE  Output'[u][q] + pipe'[u][q] = written[u][q]
    BY <1>2 DEF PipesInv
  <2>1. Output[u][q] + pipe[u][q] = written[u][q]
    BY DEF PipesInv
  <2>2. Output[u][q] \in Nat /\ pipe[u][q] \in Nat
    BY DEF TypeOK
  <2>3. CASE u = t
    BY <1>8, <1>9, <2>1, <2>2, <2>3
  <2>4. CASE u # t
    BY <1>2, <1>3, <2>1, <2>4 DEF TypeOK
  <2> QED BY <2>3, <2>4
<1>12. ReportedInv'
  BY <1>2, <1>3, <1>8 DEF ReportedInv, Exited, TypeOK
<1>13. TasksInv'
  BY <1>2, <1>3, <1>6, <1>1 DEF TasksInv, Occurs
<1>14. StopInv'
  BY <1>2 DEF StopInv, StopExecution
<1>15. ReturnInv' /\ AllReported'
  BY TaskQueueAssumption, <1>2, <1>5 DEF ReturnInv, AllReported
<1> QED BY <1>10, <1>11, <1>12, <1>13, <1>14, <1>15

\* When no task is executing and the loop ends, the queue is empty or a task
\* has failed.
LEMMA ReturnIInv == ASSUME IInv, Return PROVE IInv'
<1> USE DEF IInv
<1>1. /\ result = None /\ events = <<>> /\ PollFds = <<>> /\ ~CanBegin
      /\ result' = SubtaskFailed
      /\ UNCHANGED <<QueuedTasks, PollFds, events, reading, SubtaskFailed, Output, child, pipe, ghosts>>
  BY DEF Return, AtTop
<1>2. QueuedTasks = <<>> \/ SubtaskFailed
  BY <1>1, TaskQueueAssumption DEF CanBegin
<1>3. spawned = reported
  <2>1. \A t \in Task : ~Occurs(t, PollFds)
    BY <1>1 DEF Occurs
  <2> QED BY <2>1 DEF TasksInv, TypeOK
<1>4. ~SubtaskFailed => reported = Task
  <2> SUFFICES ASSUME ~SubtaskFailed PROVE reported = Task
    OBVIOUS
  <2>1. \A t \in Task : ~Occurs(t, QueuedTasks)
    BY <1>2 DEF Occurs
  <2>2. result # TRUE
    BY <1>1, TaskQueueAssumption
  <2> QED BY <1>3, <2>1, <2>2 DEF TasksInv, TypeOK
<1>5. AllReported'
  BY <1>1, <1>3, <1>4 DEF AllReported, ghosts, TypeOK
<1>6. TypeOK' /\ StopInv' /\ ReturnInv'
  BY <1>1 DEF TypeOK, StopInv, ReturnInv, ghosts
<1>7. TasksInv' /\ PipesInv' /\ ReportedInv'
  BY <1>1, TaskQueueAssumption DEF TasksInv, PipesInv, ReportedInv, Exited, ghosts
<1> QED BY <1>5, <1>6, <1>7

LEMMA NextIInv == IInv /\ [Next]_vars => IInv'
<1> SUFFICES ASSUME IInv, [Next]_vars PROVE IInv'
  OBVIOUS
<1>1. CASE Execute
  BY <1>1, BeginIInv, SpawnFailsIInv, PollIInv, ReadIInv, ReadEndsIInv, StillOpenIInv, HungUpIInv,
     ReturnIInv DEF Execute
<1>2. ASSUME NEW t \in Task, Child(t) PROVE IInv'
  BY <1>2, WriteIInv, EndsIInv, CloseIInv DEF Child, Exit, Signal
<1>3. CASE UNCHANGED vars
  BY <1>3 DEF vars, parent, ghosts, IInv, TypeOK, PipesInv, ReportedInv, Exited, TasksInv, StopInv,
     ReturnInv, AllReported
<1> QED BY <1>1, <1>2, <1>3 DEF Next

\* The inductive invariant: what a child has written was read or is in a pipe,
\* and a task that began is in PollFds until it is reported.
THEOREM Invariance == Spec => []IInv
BY InitIInv, NextIInv, PTL DEF Spec

\* What TaskQueue::execute hands to the callbacks is all that the child wrote
\* to its pipes, however its writes, poll and the reads interleave.
THEOREM OutputIsComplete == Spec => []OutputComplete
<1>1. IInv => OutputComplete
  <2> SUFFICES ASSUME IInv, NEW t \in reported, NEW p \in Pipe
               PROVE  Output[t][p] = written[t][p]
    BY DEF OutputComplete
  <2>1. t \in Task /\ pipe[t][p] = 0 /\ Output[t][p] \in Nat
    BY DEF IInv, TypeOK, ReportedInv, NoChunks
  <2> QED BY <2>1 DEF IInv, PipesInv
<1> QED BY <1>1, Invariance, PTL

\* execute returns false only when every task that began was reported and, if
\* no callback asked to stop, every task of the queue has begun.
THEOREM NoTaskLeftOut == Spec => []AllReported
<1>1. IInv => AllReported
  BY DEF IInv
<1> QED BY <1>1, Invariance, PTL
==============================================================================
