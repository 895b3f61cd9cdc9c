--------------------------- MODULE IncrementalBuild ---------------------------
(***************************************************************************)
(* Incremental builds by the driver: Compilation::performJobsImpl, the     *)
(* DependencyGraph it marks, and the compilation record that one build     *)
(* leaves for the next.  Source files are edited between builds, compile   *)
(* jobs succeed, fail or crash, and the driver itself may be killed.       *)
(*                                                                         *)
(* A file provides one name, its own; uses are the names it depends on.    *)
(* A compile job reads every source file of the module when it begins.     *)
(* Edits, builds and the kinds of faults are bounded by the constants      *)
(* MaxEdits and Faults.  last is auxiliary.                                *)
(***************************************************************************)
EXTENDS Integers, Sequences, FiniteSets, SequencesExt

CONSTANTS
  File,
  JobOrder,     \* the files, in the order of the command line
  Optional,     \* the files that may be added to and removed from the inputs
  Uses,         \* the sets of uses that a file may have
  Link,         \* the job that needs the output of all others
  None,
  NumberOfParallelCommands,
  ContinueBuildingAfterErrors,
  Faults,       \* of "error", "exit", "signal", "noDeps", "spawn", "kill", "edit"
  MaxEdits

VARIABLES
  inputs,       \* the files of the module
  src,          \* the source files
  deps,         \* the .swiftdeps files, None if there is none that can be read
  obj,          \* the object files: what their compilation read
  exe,          \* the output of the link job
  record,       \* the compilation record
  b,            \* PerformJobsState
  last          \* how the last build ended, and what has happened

disk == <<deps, obj, exe, record>>
vars == <<inputs, src, deps, obj, exe, record, b, last>>

Use(f, cascading) == [on |-> f, cascading |-> cascading]
Cascading(uses) == {u \in uses : u.cascading}

\* The interface hash covers all that gives a file cascading uses.
Source(mtime, tokens, uses) == [mtime |-> mtime, hash |-> <<tokens, Cascading(uses)>>, uses |-> uses]
InOrder(files) == SelectSeq(JobOrder, LAMBDA f : f \in files)

-----------------------------------------------------------------------------
\* DependencyGraph.  edges holds <<dependent, name, cascading>>, dirty the
\* names of Dependencies that were traversed.
EmptyGraph ==
  [loaded |-> {}, edges |-> {}, dirty |-> {}, marked |-> {}, hashes |-> [f \in File |-> None]]

\* loadFromPath, of dependencies that can be read: new edges are added to the old.
Loaded(g, f, d) ==
  [g EXCEPT !.loaded = @ \cup {f},
            !.edges = @ \cup {<<f, u.on, u.cascading>> : u \in d.uses},
            !.hashes[f] = d.hash]

AffectsDownstream(g, f, d) ==
  \/ g.hashes[f] \notin {None, d.hash}
  \/ \E u \in Cascading(d.uses) : u.on \in g.dirty

\* markTransitive: the nodes whose names are traversed, and those visited.
\* All that is reached through a cascading edge is marked.
Dependents(g, names, cascading) ==
  {e[1] : e \in {d \in g.edges : /\ d[2] \in (names \cap g.loaded) \ g.dirty
                                 /\ d[3] \in cascading
                                 /\ d[1] \notin g.marked \cup {d[2]}}}
Traversed(g, f) ==
  LET reach[n \in 0..Cardinality(File)] ==
        IF n = 0 THEN {f} ELSE reach[n - 1] \cup Dependents(g, reach[n - 1], {TRUE})
  IN  reach[Cardinality(File)]
Visited(g, f) == Dependents(g, Traversed(g, f), {TRUE, FALSE}) \ {f}
Marked(g, f) ==
  [g EXCEPT !.marked = @ \cup Traversed(g, f),
            !.dirty = @ \cup {n \in Traversed(g, f) \cap g.loaded : \E e \in g.edges : e[2] = n}]

\* markTransitive of several nodes, one after the other.
MarkAll(g, files) ==
  FoldLeft(LAMBDA acc, f : [graph |-> Marked(acc.graph, f), visited |-> acc.visited \cup Visited(acc.graph, f)],
           [graph |-> g, visited |-> {}], InOrder(files))

-----------------------------------------------------------------------------
\* populateOutOfDateMap: after a file was removed, everything is rebuilt.
RebuildEverything == record # None /\ ~(DOMAIN record \subseteq inputs)

\* handleCompileJobCondition.  Without a record every file looks like one that
\* was up to date at the beginning of time.
Condition(f) ==
  IF RebuildEverything THEN "Always"
  ELSE IF record = None THEN "RunWithoutCascading"
  ELSE IF f \notin DOMAIN record THEN "NewlyAdded"
  ELSE CASE record[f].status = "NeedsCascadingBuild" -> "Always"
         [] record[f].status = "NeedsNonCascadingBuild" -> "RunWithoutCascading"
         [] OTHER -> IF record[f].mtime = src[f].mtime /\ obj[f] # None
                     THEN "CheckDependencies" ELSE "RunWithoutCascading"

InputModTime(f) == IF Condition(f) = "NewlyAdded" THEN None ELSE src[f].mtime

\* scheduleInitialJobs loads the dependencies of all files but new ones, in
\* order, up to the first that cannot be loaded: from there on, and of the
\* files that were deferred until there, everything is scheduled.
KnownFiles == {f \in inputs : Condition(f) # "NewlyAdded"}
Position(f) == CHOOSE i \in DOMAIN JobOrder : JobOrder[i] = f
Considered ==
  IF RebuildEverything THEN {}
  ELSE {f \in inputs : \A g \in KnownFiles : deps[g] = None => Position(f) < Position(g)}
InitialGraph == FoldLeft(LAMBDA g, f : Loaded(g, f, deps[f]), EmptyGraph, InOrder(KnownFiles))

\* scheduleInitialJobs and scheduleAdditionalJobs.
Scheduled ==
  LET initial == {f \in inputs : Condition(f) # "CheckDependencies"}
      outOfDate == {f \in inputs : Condition(f) \in {"Always", "NewlyAdded"}}
      marks == MarkAll([InitialGraph EXCEPT !.marked = outOfDate], outOfDate)
  IN  IF Considered = inputs
      THEN [incremental |-> TRUE, graph |-> marks.graph,
            queue |-> InOrder(initial) \o InOrder(marks.visited \ initial)]
      ELSE [incremental |-> FALSE, graph |-> EmptyGraph,
            queue |-> InOrder(Considered \cap initial) \o InOrder(Considered \ initial)
                        \o InOrder(inputs \ Considered)]

\* The link job is blocked by the first of its inputs that is not finished.
Blocking(finished) ==
  IF inputs \subseteq finished THEN None ELSE Head(InOrder(inputs \ finished))

NoBuild ==
  [phase |-> "idle", condition |-> <<>>, modTime |-> <<>>, incremental |-> FALSE, graph |-> EmptyGraph,
   scheduled |-> {}, finished |-> {}, blocking |-> None, deferred |-> {}, queue |-> <<>>,
   executing |-> <<>>, polled |-> FALSE, result |-> "success", SubtaskFailed |-> FALSE]

Init ==
  /\ inputs = File \ Optional
  /\ \E u \in [File -> UNION {Uses[f] : f \in File}] :
       /\ \A f \in File : u[f] \in Uses[f]
       /\ src = [f \in File |-> Source(0, 0, u[f])]
  /\ deps = [f \in File |-> None]
  /\ obj = [f \in File |-> None]
  /\ exe = None
  /\ record = None
  /\ b = NoBuild
  /\ last = [exit |-> None, changed |-> TRUE, edits |-> 0, dropped |-> FALSE, disturbed |-> FALSE]

\* The driver starts: it reads the record and schedules the first jobs.
StartBuild ==
  /\ b.phase = "idle"
  /\ b' = [NoBuild EXCEPT
             !.phase = "execute",
             !.condition = [f \in inputs |-> Condition(f)],
             !.modTime = [f \in inputs |-> InputModTime(f)],
             !.incremental = Scheduled.incremental,
             !.graph = Scheduled.graph,
             !.queue = Scheduled.queue,
             !.scheduled = ToSet(Scheduled.queue),
             !.deferred = inputs \ ToSet(Scheduled.queue),
             !.blocking = Blocking({})]
  /\ last' = [last EXCEPT !.exit = None, !.changed = FALSE, !.dropped = FALSE]
  /\ UNCHANGED <<inputs, src, disk>>

-----------------------------------------------------------------------------
\* TaskQueue::execute begins tasks as long as it can, and then polls.
CanBegin ==
  /\ b.queue # <<>> /\ ~b.SubtaskFailed
  /\ Cardinality(DOMAIN b.executing) < NumberOfParallelCommands

\* What a compile job reads when it begins.
Sources == [f \in File |-> IF f \in inputs THEN src[f] ELSE None]

Begin ==
  /\ b.phase = "execute" /\ CanBegin
  /\ b' = [b EXCEPT !.queue = Tail(@), !.executing = (Head(b.queue) :> Sources) @@ @, !.polled = FALSE]
  /\ UNCHANGED <<inputs, src, disk, last>>

\* scheduleCommandIfNecessaryAndPossible of compile jobs, which have no inputs.
Schedule(s, files) ==
  [s EXCEPT !.queue = @ \o InOrder(files \ s.scheduled), !.scheduled = @ \cup files]

MutantFinished(s, files) ==  \* what is still blocked is forgotten
  LET done == s.finished \cup files IN
  IF s.blocking \in files
  THEN [s EXCEPT !.finished = done, !.blocking = None,
                 !.queue = IF inputs \subseteq done THEN Append(@, Link) ELSE @]
  ELSE [s EXCEPT !.finished = done]

\* markFinished: the link job is scheduled, or blocked by another job.
Finished(s, files) ==
  LET done == s.finished \cup files IN
  IF s.blocking \in files
  THEN [s EXCEPT !.finished = done, !.blocking = Blocking(done),
                 !.queue = IF inputs \subseteq done THEN Append(@, Link) ELSE @]
  ELSE [s EXCEPT !.finished = done]

\* reloadAndRemarkDeps after a compile job: the new state and the dependents
\* that now need to run.
Remarked(s, f) ==
  [state |-> [s EXCEPT !.graph = Marked(@, f)], dependents |-> Visited(s.graph, f)]

MutantReloadAndRemarkDeps(s, f, rc, d) ==  \* no remarking after a failure
  LET loaded == [s EXCEPT !.graph = Loaded(@, f, d)] IN
  IF ~s.incremental \/ rc # "success" \/ d = None THEN [state |-> s, dependents |-> {}]
  ELSE IF AffectsDownstream(s.graph, f, d) \/ f \in s.graph.marked THEN Remarked(loaded, f)
  ELSE [state |-> loaded, dependents |-> {}]

\* d are the dependencies that the job left.
reloadAndRemarkDeps(s, f, rc, d) ==
  LET unchanged == [state |-> s, dependents |-> {}]
      loaded == [s EXCEPT !.graph = Loaded(@, f, d)]
      loadFailed == [Schedule(s, s.deferred) EXCEPT !.incremental = FALSE, !.deferred = {}]
  IN  CASE ~s.incremental -> unchanged
        [] s.incremental /\ rc = "exit" ->
             IF s.condition[f] \in {"NewlyAdded", "RunWithoutCascading"} THEN Remarked(s, f) ELSE unchanged
        [] s.incremental /\ rc # "exit" /\ d = None ->
             IF rc = "success" THEN [unchanged EXCEPT !.state = loadFailed] ELSE unchanged
        [] OTHER ->
             IF AffectsDownstream(s.graph, f, d) \/ f \in s.graph.marked
             THEN Remarked(loaded, f) ELSE [unchanged EXCEPT !.state = loaded]

\* taskFinished, and the assignment to SubtaskFailed, which can become false again.
taskFinished(s, job, rc, d) ==
  LET re == IF job = Link THEN [state |-> s, dependents |-> {}] ELSE reloadAndRemarkDeps(s, job, rc, d)
      t == [re.state EXCEPT !.SubtaskFailed = rc # "success" /\ ~ContinueBuildingAfterErrors]
  IN  IF rc = "success"
      THEN Schedule([Finished(t, {job}) EXCEPT !.deferred = @ \ re.dependents], re.dependents)
      ELSE [t EXCEPT !.result = IF @ = "success" THEN rc ELSE @]

\* taskSignalled
taskSignalled(s) == [s EXCEPT !.result = "signal", !.SubtaskFailed = TRUE]

\* The poll loop: a task ends; others that ended are looked at before any begins.
Ended(job) ==
  /\ b.phase = "execute" /\ (b.polled \/ ~CanBegin)
  /\ job \in DOMAIN b.executing
Erased(job) == [b EXCEPT !.executing = [j \in DOMAIN @ \ {job} |-> @[j]], !.polled = TRUE]

\* What a compile job writes: its dependencies, unless they cannot be written,
\* and if there are no errors its object file.
DepsOf(f) == [hash |-> b.executing[f][f].hash, uses |-> b.executing[f][f].uses]
ObjOf(f) ==
  [mtime |-> b.executing[f][f].mtime,
   seen |-> [g \in File |-> IF b.executing[f][g] = None THEN None ELSE b.executing[f][g].hash]]
Unwritten == IF "noDeps" \in Faults THEN {None} ELSE {}
IncompleteDeps(f) == {DepsOf(f), deps[f], None}

CompileSucceeds(f) ==
  /\ Ended(f)
  /\ \E d \in {DepsOf(f)} \cup Unwritten :
       /\ deps' = [deps EXCEPT ![f] = d]
       /\ b' = taskFinished(Erased(f), f, "success", d)
  /\ obj' = [obj EXCEPT ![f] = ObjOf(f)]
  /\ UNCHANGED <<inputs, src, exe, record, last>>

\* A compile job reports errors, or exits with another code.
CompileFails(f, rc) ==
  /\ Ended(f) /\ rc \in Faults
  /\ \E d \in IF rc = "error" THEN {DepsOf(f)} \cup Unwritten ELSE IncompleteDeps(f) :
       /\ deps' = [deps EXCEPT ![f] = d]
       /\ b' = taskFinished(Erased(f), f, rc, d)
  /\ last' = [last EXCEPT !.disturbed = @ \/ DOMAIN b.executing # {f}]
  /\ UNCHANGED <<inputs, src, obj, exe, record>>

\* A compile job crashes.
CompileCrashes(f) ==
  /\ Ended(f) /\ "signal" \in Faults
  /\ \E d \in IncompleteDeps(f) : deps' = [deps EXCEPT ![f] = d]
  /\ b' = taskSignalled(Erased(f))
  /\ last' = [last EXCEPT !.disturbed = TRUE]
  /\ UNCHANGED <<inputs, src, obj, exe, record>>

LinkSucceeds ==
  /\ Ended(Link)
  /\ exe' = [f \in inputs |-> obj[f]]
  /\ b' = taskFinished(Erased(Link), Link, "success", None)
  /\ UNCHANGED <<inputs, src, deps, obj, record, last>>

LinkFails ==
  /\ Ended(Link) /\ "error" \in Faults
  /\ b' = taskFinished(Erased(Link), Link, "error", None)
  /\ UNCHANGED <<inputs, src, disk, last>>

\* runTaskQueueToCompletion after execute: what is still deferred is skipped,
\* and execute is called again as long as there are tasks.
Returned(s) ==
  LET t == Finished(s, s.deferred) IN
  [t EXCEPT !.scheduled = @ \cup s.deferred, !.deferred = {}, !.executing = <<>>,
            !.SubtaskFailed = FALSE, !.polled = FALSE,
            !.phase = IF t.result = "success" /\ t.queue # <<>> THEN "execute" ELSE "done"]

MutantExecuteReturns ==  \* the loop does not end when a task has failed
  /\ b.phase = "execute" /\ b.executing = <<>> /\ b.queue = <<>>
  /\ b' = Returned(b)
  /\ UNCHANGED <<inputs, src, disk, last>>

ExecuteReturns ==
  /\ b.phase = "execute" /\ b.executing = <<>> /\ ~CanBegin
  /\ b' = Returned(b)
  /\ UNCHANGED <<inputs, src, disk, last>>

\* What is left of compile jobs that nobody waits for.
Abandoned ==
  LET files == DOMAIN b.executing \ {Link} IN
  \E wroteDeps \in SUBSET files : \E wroteObj \in SUBSET wroteDeps :
    /\ deps' = [f \in File |-> IF f \in wroteDeps THEN DepsOf(f) ELSE deps[f]]
    /\ obj' = [f \in File |-> IF f \in wroteObj THEN ObjOf(f) ELSE obj[f]]

\* A task cannot be spawned: execute returns, and nobody looks at its result.
SpawnFails ==
  /\ b.phase = "execute" /\ CanBegin /\ "spawn" \in Faults
  /\ Abandoned
  /\ b' = Returned([b EXCEPT !.queue = Tail(@)])
  /\ last' = [last EXCEPT !.dropped = TRUE, !.disturbed = TRUE]
  /\ UNCHANGED <<inputs, src, exe, record>>

\* The driver is killed, perhaps when the old record is already renamed.
Kill ==
  /\ b.phase # "idle" /\ "kill" \in Faults
  /\ Abandoned
  /\ b' = NoBuild
  /\ record' \in {record} \cup (IF b.phase = "done" THEN {None} ELSE {})
  /\ last' = [last EXCEPT !.disturbed = TRUE]
  /\ UNCHANGED <<inputs, src, exe>>

-----------------------------------------------------------------------------
\* checkUnfinishedJobs and populateInputInfoMap
Unfinished == IF b.result = "success" THEN {} ELSE (b.scheduled \cap inputs) \ b.finished
Status(f) ==
  IF f \notin Unfinished THEN "UpToDate"
  ELSE IF ~b.incremental \/ f \in b.graph.marked THEN "NeedsCascadingBuild"
  ELSE "NeedsNonCascadingBuild"
MutantInputInfoMap ==  \* the modification time at the end of the build
  [f \in (b.finished \cap inputs) \cup Unfinished |-> [status |-> Status(f), mtime |-> src[f].mtime]]
InputInfoMap ==
  [f \in (b.finished \cap inputs) \cup Unfinished |-> [status |-> Status(f), mtime |-> b.modTime[f]]]

\* checkForOutOfDateInputs
OutOfDateInputs == {f \in DOMAIN InputInfoMap : b.modTime[f] \notin {None, src[f].mtime}}

\* The end of performJobsImpl.
EndBuild ==
  /\ b.phase = "done"
  /\ record' = InputInfoMap
  /\ last' = [last EXCEPT !.exit = IF b.result # "success" THEN b.result
                                   ELSE IF OutOfDateInputs # {} THEN "error" ELSE "success"]
  /\ b' = NoBuild
  /\ UNCHANGED <<inputs, src, deps, obj, exe>>

-----------------------------------------------------------------------------
\* The user edits a file, and may revert what others see of it.
MayEdit == last.edits < MaxEdits /\ (b.phase = "idle" \/ "edit" \in Faults)
Edit(f) ==
  /\ MayEdit /\ f \in inputs
  /\ \E tokens \in {0, 1}, u \in Uses[f] : src' = [src EXCEPT ![f] = Source(last.edits + 1, tokens, u)]
  /\ last' = [last EXCEPT !.edits = @ + 1, !.changed = TRUE, !.disturbed = @ \/ b.phase # "idle"]
  /\ UNCHANGED <<inputs, disk, b>>

\* A file is added to the module or removed from it.
ChangeInputs(f) ==
  /\ last.edits < MaxEdits /\ b.phase = "idle" /\ f \in Optional
  /\ inputs' = IF f \in inputs THEN inputs \ {f} ELSE inputs \cup {f}
  /\ last' = [last EXCEPT !.edits = @ + 1, !.changed = TRUE]
  /\ UNCHANGED <<src, disk, b>>

Driver ==
  \/ Begin \/ LinkSucceeds \/ LinkFails \/ ExecuteReturns \/ SpawnFails \/ EndBuild
  \/ \E f \in File : CompileSucceeds(f) \/ CompileCrashes(f) \/ \E rc \in {"error", "exit"} : CompileFails(f, rc)

Next ==
  \/ StartBuild \/ Driver \/ Kill
  \/ \E f \in File : Edit(f) \/ ChangeInputs(f)

Spec == Init /\ [][Next]_vars

\* Jobs end, and the driver waits for nothing else.
FairSpec == Spec /\ WF_vars(Driver)

-----------------------------------------------------------------------------
\* The files whose interface affects the compilation of f.
Affecting(f) ==
  LET direct == {u.on : u \in src[f].uses}
      reach[n \in 0..Cardinality(File)] ==
        IF n = 0 THEN direct
        ELSE reach[n - 1] \cup UNION {{u.on : u \in Cascading(src[g].uses)} : g \in reach[n - 1] \cap inputs}
  IN  reach[Cardinality(File)]
Interface(f) == IF f \in inputs THEN src[f].hash ELSE None
Fresh(f) ==
  /\ obj[f] # None /\ obj[f].mtime = src[f].mtime
  /\ \A g \in Affecting(f) : obj[f].seen[g] = Interface(g)

Succeeded == last.exit = "success" /\ ~last.changed

\* The golden rule of docs/DependencyAnalysis.rst: a file that has to be
\* rebuilt is rebuilt.  When a build succeeds, after any number of builds that
\* failed, and nothing was edited since it began, every object file was
\* compiled from the file as it is and saw all interfaces that affect it.
\* The code keeps the rule only as long as no job has failed while another was
\* running, no job has crashed or could not be spawned, no file was edited
\* during a build and the driver was not killed: last.disturbed.
GoldenRule == Succeeded /\ ~last.disturbed => \A f \in inputs : Fresh(f)

\* What is left of the rule after that: a file that was itself edited is
\* compiled again, unless in this very build a job could not be spawned.
EditedRebuilt ==
  Succeeded /\ ~last.dropped => \A f \in inputs : obj[f] # None /\ obj[f].mtime = src[f].mtime

\* When a build succeeds, the linked output is that of the object files there
\* are, unless a job could not be spawned.
Linked == Succeeded /\ ~last.dropped => exe = [f \in inputs |-> obj[f]]

\* Every build ends.
BuildEnds == b.phase # "idle" ~> b.phase = "idle"
=============================================================================
