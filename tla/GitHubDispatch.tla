--------------------------- MODULE GitHubDispatch ---------------------------
(***************************************************************************)
(* Core/APIRoutes_GitHubActions: tasks that become workflow runs of GitHub *)
(* Actions.  A file keeps one record for each task identifier; every       *)
(* handler reads a record, asks GitHub without a lock and writes its whole *)
(* copy back.  A second dispatch of a recorded task is answered from the   *)
(* record, or refused when it names another source, and changes nothing.   *)
(***************************************************************************)
EXTENDS Naturals, Sequences, FiniteSets

CONSTANTS
    Tasks,         \* task identifiers
    NoTask,        \* no record of a task
    Threads,       \* threads of the HTTP server
    MaxRecords,    \* records the file may hold (5000)
    Retention,     \* full periods a terminal record is kept (30 days)
    MaxRuns,       \* bound on the workflow runs
    MaxTime,       \* bound on the clock
    MaxFailures    \* bound on failed writes, failed queries and kills

ASSUME DispatchAssumption ==
    /\ NoTask \notin Tasks
    /\ \A bound \in {MaxRecords, MaxTime, Retention} : bound \in Nat \ {0}
    /\ \A bound \in {MaxRuns, MaxFailures} : bound \in Nat

VARIABLES
    now,        \* the clock
    tasks,      \* the file of the records
    request,    \* what each thread does
    runs,       \* GitHub's workflow runs, oldest first; one is queued until it is over
    hidden,     \* how many of them are not on the first page of the workflow's runs
    late,       \* tasks with a dispatch on its way to GitHub that nobody waits for
    failures    \* failed writes, failed queries and kills so far

vars == <<now, tasks, request, runs, hidden, late, failures>>

Terminal == {"completed", "rejected"}

\* Fault: only an answer that was lost is looked up again.
UnknownOnly == {"dispatch_unknown"}

Unsettled == {"dispatching", "dispatch_unknown"}

Idle == [phase |-> "idle"]

Init ==
    /\ now = 1
    /\ tasks = [t \in Tasks |-> NoTask]
    /\ request = [th \in Threads |-> Idle]
    /\ runs = <<>>
    /\ hidden = 0
    /\ late = {}
    /\ failures = 0

-----------------------------------------------------------------------------
(* Steps of a request.                                                     *)

At(th, phase) == request[th].phase = phase

Goto(th, phase, copy) ==
    request' = [request EXCEPT ![th] = [@ EXCEPT !.phase = phase, !.copy = copy]]

Done(th) == request' = [request EXCEPT ![th] = Idle]

Recorded(t) == tasks[t] # NoTask

\* Fault: a dispatch without an answer may be repeated.
ExpiredOrUnknown(t) ==
    /\ Recorded(t)
    /\ \/ tasks[t].state = "dispatch_unknown"
       \/ tasks[t].state \in Terminal /\ tasks[t].updated + Retention < now

Expired(t) ==
    /\ Recorded(t)
    /\ tasks[t].state \in Terminal
    /\ tasks[t].updated + Retention < now

\* pruneOldTaskRecords.
Pruned == [t \in Tasks |-> IF Expired(t) THEN NoTask ELSE tasks[t]]

\* handleGitHubActionsDispatch up to the unlock: the record is on disk before
\* GitHub is asked.
Dispatch(th, t) ==
    /\ At(th, "idle")
    /\ Pruned[t] = NoTask
    /\ Cardinality({u \in Tasks : Pruned[u] # NoTask}) < MaxRecords
    /\ LET new == [state |-> "dispatching", run |-> 0, updated |-> now] IN
       /\ tasks' = [Pruned EXCEPT ![t] = new]
       /\ request' = [request EXCEPT ![th] =
                        [phase |-> "posting", task |-> t, copy |-> new, since |-> now]]
    /\ UNCHANGED <<now, runs, hidden, late, failures>>

\* GitHub starts a run and its answer names it.
Queued(th) ==
    /\ At(th, "posting")
    /\ Len(runs) < MaxRuns
    /\ runs' = Append(runs, [task |-> request[th].task, status |-> "queued", at |-> now])
    /\ Goto(th, "finishing", [request[th].copy EXCEPT !.state = "queued", !.run = Len(runs) + 1])
    /\ UNCHANGED <<now, tasks, hidden, late, failures>>

\* No answer, or one that names no run: there may be a run now, later or never.
Unanswered(th) ==
    /\ At(th, "posting")
    /\ late' = late \cup {request[th].task}
    /\ Goto(th, "finishing", [request[th].copy EXCEPT !.state = "dispatch_unknown"])
    /\ UNCHANGED <<now, tasks, runs, hidden, failures>>

Rejected(th) ==
    /\ At(th, "posting")
    /\ Goto(th, "finishing", [request[th].copy EXCEPT !.state = "rejected"])
    /\ UNCHANGED <<now, tasks, runs, hidden, late, failures>>

\* findTask, and what ensureTaskRun asks of GitHub.
Ask(th, t) ==
    /\ At(th, "idle")
    /\ Recorded(t)
    /\ tasks[t].run # 0 \/ tasks[t].state \in Unsettled
    /\ request' = [request EXCEPT ![th] =
                     [phase |-> IF tasks[t].run # 0 THEN "owned" ELSE "reconciling",
                      task |-> t, copy |-> tasks[t], since |-> now]]
    /\ UNCHANGED <<now, tasks, runs, hidden, late, failures>>

RunsOf(t) == {r \in DOMAIN runs : runs[r].task = t}

Page == {r \in DOMAIN runs : r > hidden}

\* Fault: the title of a run does not name its task.
AnyRun(t) == Page

\* What reconcileTaskRun finds: it asks for one page, the newest 100 runs.
Found(t) == RunsOf(t) \cap Page

Reconcile(th) ==
    /\ At(th, "reconciling")
    /\ \E r \in Found(request[th].task) :
          Goto(th, "recording", [request[th].copy EXCEPT !.state = "queued", !.run = r])
    /\ UNCHANGED <<now, tasks, runs, hidden, late, failures>>

NotFound(th) ==
    /\ At(th, "reconciling")
    /\ Found(request[th].task) = {}
    /\ Done(th)
    /\ UNCHANGED <<now, tasks, runs, hidden, late, failures>>

\* The state of the run; handleGitHubActionsTask and handleGitHubActionsRun.
Fetch(th) ==
    /\ At(th, "owned")
    /\ Goto(th, "finishing", [request[th].copy EXCEPT !.state = runs[request[th].copy.run].status])
    /\ UNCHANGED <<now, tasks, runs, hidden, late, failures>>

\* Fault: a run that is asked to end is over.
CopyCancelled(th) == [request[th].copy EXCEPT !.state = "completed"]

CopyOf(th) == request[th].copy

\* handleGitHubActionsCancel notes that it asked, which nothing here reads.
Cancel(th) ==
    /\ At(th, "owned")
    /\ Goto(th, "finishing", CopyOf(th))
    /\ UNCHANGED <<now, tasks, runs, hidden, late, failures>>

\* GitHub does not answer a query, the request names another run, or it is
\* handleGitHubActionsResult, which writes nothing more.
Leave(th) ==
    /\ At(th, "owned")
    /\ Done(th)
    /\ UNCHANGED <<now, tasks, runs, hidden, late, failures>>

\* updateTask: the whole copy replaces the record.
Updated(th) == [tasks EXCEPT ![request[th].task] = [request[th].copy EXCEPT !.updated = now]]

Record(th) ==
    /\ At(th, "recording")
    /\ tasks' = Updated(th)
    /\ Goto(th, "owned", request[th].copy)
    /\ UNCHANGED <<now, runs, hidden, late, failures>>

Finish(th) ==
    /\ At(th, "finishing")
    /\ tasks' = Updated(th)
    /\ Done(th)
    /\ UNCHANGED <<now, runs, hidden, late, failures>>

\* The list of runs, or the file, is out of reach.
Fail(th) ==
    /\ failures < MaxFailures
    /\ request[th].phase \in {"reconciling", "recording", "finishing"}
    /\ Done(th)
    /\ failures' = failures + 1
    /\ UNCHANGED <<now, tasks, runs, hidden, late>>

-----------------------------------------------------------------------------
(* GitHub, the process and time.                                           *)

Arrive(t) ==
    /\ t \in late
    /\ Len(runs) < MaxRuns
    /\ late' = late \ {t}
    /\ runs' = Append(runs, [task |-> t, status |-> "queued", at |-> now])
    /\ UNCHANGED <<now, tasks, request, hidden, failures>>

Vanish(t) ==
    /\ t \in late
    /\ late' = late \ {t}
    /\ UNCHANGED <<now, tasks, request, runs, hidden, failures>>

\* Others start the same workflow so often that the oldest run leaves the page.
OtherRuns ==
    /\ hidden < Len(runs)
    /\ hidden' = hidden + 1
    /\ UNCHANGED <<now, tasks, request, runs, late, failures>>

\* A run that is queued or in progress ends.
Complete(r) ==
    /\ runs[r].status = "queued"
    /\ runs' = [runs EXCEPT ![r] = [@ EXCEPT !.status = "completed"]]
    /\ UNCHANGED <<now, tasks, request, hidden, late, failures>>

Posting(t) == {th \in Threads : At(th, "posting") /\ request[th].task = t}

\* A dispatch may be on its way when the process is killed.
Kill ==
    /\ failures < MaxFailures
    /\ request # [th \in Threads |-> Idle]
    /\ \E sent \in SUBSET {t \in Tasks : Posting(t) # {}} : late' = late \cup sent
    /\ request' = [th \in Threads |-> Idle]
    /\ failures' = failures + 1
    /\ UNCHANGED <<now, tasks, runs, hidden>>

\* A period of the retention passes: runs end and dispatches arrive or vanish
\* within one period, a request meets the end of at most one.
Pass ==
    /\ now < MaxTime
    /\ late = {}
    /\ \A r \in DOMAIN runs : runs[r].status = "completed"
    /\ \A th \in Threads : ~At(th, "idle") => request[th].since = now
    /\ now' = now + 1
    /\ UNCHANGED <<tasks, request, runs, hidden, late, failures>>

Work(th) ==
    \/ Queued(th) \/ Unanswered(th) \/ Rejected(th)
    \/ Reconcile(th) \/ NotFound(th)
    \/ Fetch(th) \/ Cancel(th) \/ Leave(th)
    \/ Record(th) \/ Finish(th) \/ Fail(th)

Next ==
    \/ \E th \in Threads, t \in Tasks : Dispatch(th, t) \/ Ask(th, t)
    \/ \E th \in Threads : Work(th)
    \/ \E t \in Tasks : Arrive(t) \/ Vanish(t)
    \/ \E r \in DOMAIN runs : Complete(r)
    \/ OtherRuns
    \/ Kill
    \/ Pass

Spec == Init /\ [][Next]_vars

\* A request ends, and clients ask again for the state of a task.
FairSpec ==
    /\ Spec
    /\ \A th \in Threads : WF_vars(Work(th))
    /\ \A t \in Tasks : SF_vars(\E th \in Threads : Ask(th, t))

-----------------------------------------------------------------------------
(* Properties.                                                             *)

Status == {"queued", "completed"}

TaskRecord ==
    [state : Unsettled \cup Status \cup {"rejected"}, run : 0..MaxRuns, updated : 1..MaxTime]

ASSUME RecordAssumption == NoTask \notin TaskRecord

\* Every variable has its type, and every run a record or a copy of one names
\* exists.
TypeOK ==
    /\ now \in 1..MaxTime
    /\ tasks \in [Tasks -> TaskRecord \cup {NoTask}]
    /\ \A t \in Tasks : Recorded(t) => tasks[t].run \in 0..Len(runs)
    /\ \A th \in Threads :
          \/ request[th] = Idle
          \/ /\ request[th].phase \in {"posting", "reconciling", "recording", "owned", "finishing"}
             /\ request[th].task \in Tasks
             /\ request[th].copy \in TaskRecord /\ request[th].copy.run \in 0..Len(runs)
             /\ request[th].since \in {now, now - 1}
    /\ runs \in Seq([task : Tasks, status : Status, at : 1..MaxTime]) /\ Len(runs) <= MaxRuns
    /\ hidden \in 0..Len(runs)
    /\ late \subseteq Tasks
    /\ failures \in 0..MaxFailures

\* "it will not be submitted twice": a task has at most one dispatch or run that
\* is not over, and never two runs in one period, whatever is repeated, lost or
\* killed and whichever stale copy was written back.  (A copy read before its
\* record expired and written after the task was dispatched anew lets the new
\* record expire one retention after that write, and not after its own run.)
SubmittedOnce ==
    \A t \in Tasks :
        /\ LET active == {r \in RunsOf(t) : runs[r].status # "completed"} IN
           Cardinality(active) + Cardinality(Posting(t)) + Cardinality(late \cap {t}) <= 1
        /\ \A r1, r2 \in RunsOf(t) : r1 < r2 => runs[r1].at < runs[r2].at

\* A record names a run of its own task only: nobody reads, cancels or downloads
\* the run of another.
RunIsTheTasks ==
    \A t \in Tasks : Recorded(t) /\ tasks[t].run # 0 => runs[tasks[t].run].task = t

\* A record that may be forgotten is over: its run has ended or never was.
TerminalIsOver ==
    \A t \in Tasks :
        Recorded(t) /\ tasks[t].state \in Terminal =>
            IF tasks[t].state = "rejected" THEN tasks[t].run = 0
            ELSE tasks[t].run # 0 /\ runs[tasks[t].run].status = "completed"

\* A run whose name was lost, or overwritten by the dispatch that never heard of
\* it, is found again by those who ask for the task, unless so many newer runs of
\* the workflow were started first that a look-up is not shown it.
RunIsFound ==
    \A t \in Tasks :
        Recorded(t) /\ Found(t) # {}
            ~> \/ Recorded(t) /\ (tasks[t].run # 0 \/ tasks[t].state = "rejected")
               \/ Found(t) = {}

=============================================================================
