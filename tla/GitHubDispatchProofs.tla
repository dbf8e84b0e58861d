------------------------- MODULE GitHubDispatchProofs -------------------------
(***************************************************************************)
(* Proofs about GitHubDispatch, for every set of tasks and threads and     *)
(* every bound.                                                            *)
(***************************************************************************)
EXTENDS GitHubDispatch, FiniteSetTheorems, TLAPS

-----------------------------------------------------------------------------
(* The inductive invariant: types, and what a record or a copy says of the *)
(* run it names.                                                           *)

Run == [task : Tasks, status : Status, at : 1..MaxTime]

Phases == {"posting", "reconciling", "recording", "owned", "finishing"}

Working == [phase : Phases, task : Tasks, copy : TaskRecord, since : 1..MaxTime]

Requests == [Threads -> {Idle} \cup Working]

Records == [Tasks -> TaskRecord \cup {NoTask}]

\* What is known of the task t is true of the runs rs.
SoundIn(rs, copy, t) ==
    /\ copy.run # 0 => copy.run \in 1..Len(rs) /\ rs[copy.run].task = t
    /\ copy.state = "rejected" => copy.run = 0
    /\ copy.state = "completed" => copy.run # 0 /\ rs[copy.run].status = "completed"

SoundRequest(rs, n, req) ==
    req # Idle =>
        /\ req.since \in {n, n - 1}
        /\ SoundIn(rs, req.copy, req.task)
        /\ req.phase = "posting" => req.copy.run = 0 /\ req.copy.state = "dispatching"
        /\ req.phase \in {"recording", "owned"} => req.copy.run # 0

Typed ==
    /\ now \in 1..MaxTime
    /\ tasks \in Records
    /\ request \in Requests
    /\ runs \in Seq(Run) /\ Len(runs) <= MaxRuns
    /\ hidden \in 0..Len(runs)
    /\ late \subseteq Tasks
    /\ failures \in 0..MaxFailures

Sound ==
    /\ \A t \in Tasks : tasks[t] # NoTask => SoundIn(runs, tasks[t], t)
    /\ \A th \in Threads : SoundRequest(runs, now, request[th])

IInv == Typed /\ Sound

LEMMA Bounds ==
    /\ MaxTime \in Nat \ {0} /\ MaxRecords \in Nat \ {0} /\ Retention \in Nat \ {0}
    /\ MaxRuns \in Nat /\ MaxFailures \in Nat
BY DispatchAssumption

\* What is true of some runs stays true when there are more of them, or one of
\* them ends.
LEMMA RunsGrow ==
    ASSUME NEW rs, NEW more, Len(rs) \in Nat, Len(more) \in Nat, Len(rs) <= Len(more),
           \A r \in 1..Len(rs) : /\ more[r].task = rs[r].task
                                 /\ rs[r].status = "completed" => more[r].status = "completed",
           NEW t, NEW copy, copy.run \in Nat, SoundIn(rs, copy, t)
    PROVE  SoundIn(more, copy, t)
BY DEF SoundIn

\* A thread that is not idle has a request.
LEMMA Busy ==
    ASSUME IInv, NEW th \in Threads, request[th].phase # "idle"
    PROVE  /\ request[th] \in Working /\ request[th] # Idle
           /\ request[th].since \in {now, now - 1}
           /\ SoundIn(runs, request[th].copy, request[th].task)
           /\ request[th].phase = "posting" =>
                  request[th].copy.run = 0 /\ request[th].copy.state = "dispatching"
           /\ request[th].phase \in {"recording", "owned"} => request[th].copy.run # 0
<1>1. request[th] # Idle
  BY DEF Idle
<1>2. request[th] \in Working
  BY <1>1 DEF IInv, Typed, Requests
<1> QED BY <1>1, <1>2 DEF IInv, Sound, SoundRequest

\* The parts of a request.
LEMMA Parts ==
    ASSUME NEW req \in Working
    PROVE  /\ req.phase \in Phases /\ req.phase # "idle" /\ req # Idle
           /\ req.task \in Tasks
           /\ req.copy \in TaskRecord /\ req.copy.run \in 0..MaxRuns
           /\ req.since \in 1..MaxTime
BY DEF Working, Phases, Idle, TaskRecord

\* What a request goes on with.
LEMMA Going ==
    ASSUME NEW th \in Threads, request \in Requests, request[th] \in Working,
           NEW phase \in Phases, NEW copy \in TaskRecord, Goto(th, phase, copy)
    PROVE  \E new \in Working :
              /\ request' = [request EXCEPT ![th] = new]
              /\ new.phase = phase /\ new.copy = copy
              /\ new.task = request[th].task /\ new.since = request[th].since
<1> DEFINE new == [request[th] EXCEPT !.phase = phase, !.copy = copy]
<1>1. new \in Working /\ new.phase = phase /\ new.copy = copy
      /\ new.task = request[th].task /\ new.since = request[th].since
  BY DEF Working
<1>2. request' = [request EXCEPT ![th] = new]
  BY DEF Goto
<1> HIDE DEF new
<1> QED BY <1>1, <1>2

\* A step of one request, which is sound when it was before the step.
LEMMA RequestStep ==
    ASSUME IInv, NEW th \in Threads, NEW new \in {Idle} \cup Working,
           request' = [request EXCEPT ![th] = new], SoundRequest(runs, now, new)
    PROVE  /\ request' \in Requests
           /\ \A b \in Threads : SoundRequest(runs, now, request'[b])
<1>1. request' \in Requests
  BY DEF IInv, Typed, Requests
<1>2. ASSUME NEW b \in Threads PROVE request'[b] = IF b = th THEN new ELSE request[b]
  BY DEF IInv, Typed, Requests
<1> QED BY <1>1, <1>2 DEF IInv, Sound

\* A request that goes on stays sound when its new copy is.
LEMMA GotoStep ==
    ASSUME IInv, NEW th \in Threads, request[th].phase # "idle",
           NEW phase \in Phases, phase # "posting", NEW copy \in TaskRecord,
           Goto(th, phase, copy), SoundIn(runs, copy, request[th].task),
           phase \in {"recording", "owned"} => copy.run # 0
    PROVE  /\ request' \in Requests
           /\ \A b \in Threads : SoundRequest(runs, now, request'[b])
<1>1. request \in Requests /\ request[th] \in Working
  BY Busy DEF IInv, Typed
<1>2. PICK new \in Working :
              /\ request' = [request EXCEPT ![th] = new]
              /\ new.phase = phase /\ new.copy = copy
              /\ new.task = request[th].task /\ new.since = request[th].since
  BY <1>1, Going
<1>3. SoundRequest(runs, now, new)
  BY <1>2, Busy DEF SoundRequest
<1> QED BY <1>2, <1>3, RequestStep

LEMMA DoneStep ==
    ASSUME IInv, NEW th \in Threads, Done(th)
    PROVE  /\ request' \in Requests
           /\ \A b \in Threads : SoundRequest(runs, now, request'[b])
<1>1. SoundRequest(runs, now, Idle)
  BY DEF SoundRequest
<1> QED BY <1>1, RequestStep DEF Done

\* A copy that is written back is dated.
LEMMA UpdatedTyped ==
    ASSUME IInv, NEW th \in Threads, request[th].phase # "idle"
    PROVE  /\ Updated(th) \in Records
           /\ Updated(th)[request[th].task] # NoTask
           /\ Updated(th)[request[th].task].updated = now
           /\ \A t \in Tasks : t # request[th].task => Updated(th)[t] = tasks[t]
           /\ \A t \in Tasks : Updated(th)[t] # NoTask => SoundIn(runs, Updated(th)[t], t)
<1> DEFINE new == [request[th].copy EXCEPT !.updated = now]
<1>1. request[th].copy \in TaskRecord /\ request[th].task \in Tasks
  BY Busy, Parts
<1>2. /\ new \in TaskRecord /\ new.updated = now
      /\ new.run = request[th].copy.run /\ new.state = request[th].copy.state
  BY <1>1 DEF IInv, Typed, TaskRecord
<1>3. SoundIn(runs, new, request[th].task)
  BY <1>2, Busy DEF SoundIn
<1>4. Updated(th) = [tasks EXCEPT ![request[th].task] = new]
  BY DEF Updated
<1>5. new # NoTask
  BY <1>2, RecordAssumption
<1> HIDE DEF new
<1> QED BY <1>1, <1>2, <1>3, <1>4, <1>5 DEF IInv, Typed, Records, Sound

LEMMA PrunedTyped ==
    ASSUME tasks \in Records
    PROVE  /\ Pruned \in Records
           /\ \A t \in Tasks : Pruned[t] = IF Expired(t) THEN NoTask ELSE tasks[t]
BY DEF Records, Pruned

\* A run more.
LEMMA AppendTyped ==
    ASSUME Typed, Len(runs) < MaxRuns, NEW t \in Tasks,
           runs' = Append(runs, [task |-> t, status |-> "queued", at |-> now])
    PROVE  /\ runs' \in Seq(Run) /\ Len(runs') = Len(runs) + 1 /\ Len(runs') <= MaxRuns
           /\ runs'[Len(runs) + 1] = [task |-> t, status |-> "queued", at |-> now]
           /\ \A r \in 1..Len(runs) : runs'[r] = runs[r]
<1>1. [task |-> t, status |-> "queued", at |-> now] \in Run
  BY DEF Typed, Run, Status
<1> QED BY <1>1, Bounds DEF Typed

\* A run ends.
LEMMA CompleteTyped ==
    ASSUME Typed, NEW r \in DOMAIN runs, Complete(r)
    PROVE  /\ runs' \in Seq(Run) /\ Len(runs') = Len(runs)
           /\ \A s \in 1..Len(runs) :
                 /\ runs'[s].task = runs[s].task /\ runs'[s].at = runs[s].at
                 /\ runs'[s].status = IF s = r THEN "completed" ELSE runs[s].status
<1> DEFINE new == [runs[r] EXCEPT !.status = "completed"]
<1>1. runs[r] \in Run
  BY DEF Typed
<1>2. new \in Run /\ new.task = runs[r].task /\ new.at = runs[r].at /\ new.status = "completed"
  BY <1>1 DEF Run, Status
<1>3. runs' = [runs EXCEPT ![r] = new]
  BY DEF Complete
<1> HIDE DEF new
<1> QED BY <1>2, <1>3 DEF Typed

\* What the runs of a request and of a record are to be when the runs grow.
LEMMA SoundGrow ==
    ASSUME IInv, NEW req \in Requests, NEW rec \in Records, NEW more, Len(more) \in Nat,
           Len(runs) <= Len(more),
           \A r \in 1..Len(runs) :
              /\ more[r].task = runs[r].task
              /\ runs[r].status = "completed" => more[r].status = "completed"
    PROVE  /\ \A t \in Tasks : rec[t] # NoTask /\ SoundIn(runs, rec[t], t) => SoundIn(more, rec[t], t)
           /\ \A b \in Threads : SoundRequest(runs, now, req[b]) => SoundRequest(more, now, req[b])
<1>1. Len(runs) \in Nat
  BY DEF IInv, Typed
<1>2. ASSUME NEW t \in Tasks, rec[t] # NoTask, SoundIn(runs, rec[t], t) PROVE SoundIn(more, rec[t], t)
  <2>1. rec[t].run \in Nat
    BY <1>2 DEF Records, TaskRecord
  <2> QED BY <1>1, <1>2, <2>1, RunsGrow
<1>3. ASSUME NEW b \in Threads, SoundRequest(runs, now, req[b]) PROVE SoundRequest(more, now, req[b])
  <2>1. SUFFICES ASSUME req[b] # Idle PROVE SoundRequest(more, now, req[b])
    BY DEF SoundRequest
  <2>2. req[b].copy.run \in Nat
    BY <2>1, Parts DEF Requests
  <2>3. SoundIn(more, req[b].copy, req[b].task)
    BY <1>1, <1>3, <2>1, <2>2, RunsGrow DEF SoundRequest
  <2> QED BY <1>3, <2>3 DEF SoundRequest
<1> QED BY <1>2, <1>3

-----------------------------------------------------------------------------
(* Each action keeps the invariant.                                        *)

LEMMA InitInv == Init => IInv
<1> SUFFICES ASSUME Init PROVE IInv
  OBVIOUS
<1>1. Typed
  BY Bounds DEF Init, Typed, Records, Requests
<1>2. Sound
  BY DEF Init, Sound, SoundRequest
<1> QED BY <1>1, <1>2 DEF IInv

\* An action that changes neither the clock nor a run.
LEMMA QuietStep ==
    ASSUME IInv, now' = now, runs' = runs, hidden' \in 0..Len(runs),
           tasks' \in Records, request' \in Requests,
           late' \subseteq Tasks, failures' \in 0..MaxFailures,
           \A t \in Tasks : tasks'[t] # NoTask => SoundIn(runs, tasks'[t], t),
           \A b \in Threads : SoundRequest(runs, now, request'[b])
    PROVE  IInv'
BY DEF IInv, Typed, Sound

\* An action that adds a run or ends one.
LEMMA RunStep ==
    ASSUME IInv, now' = now, hidden' = hidden, tasks' = tasks, request' \in Requests,
           runs' \in Seq(Run), Len(runs') <= MaxRuns, Len(runs) <= Len(runs'),
           \A r \in 1..Len(runs) :
              /\ runs'[r].task = runs[r].task
              /\ runs[r].status = "completed" => runs'[r].status = "completed",
           late' \subseteq Tasks, failures' \in 0..MaxFailures,
           \A b \in Threads : SoundRequest(runs', now, request'[b])
    PROVE  IInv'
<1>1. tasks \in Records /\ request \in Requests /\ Len(runs') \in Nat
  BY DEF IInv, Typed
<1>2. \A t \in Tasks : tasks[t] # NoTask => SoundIn(runs', tasks[t], t)
  BY <1>1, SoundGrow DEF IInv, Sound
<1> QED BY <1>2 DEF IInv, Typed, Sound

LEMMA DispatchInv ==
    ASSUME IInv, NEW th \in Threads, NEW t \in Tasks, Dispatch(th, t) PROVE IInv'
<1> DEFINE new == [state |-> "dispatching", run |-> 0, updated |-> now]
           req == [phase |-> "posting", task |-> t, copy |-> new, since |-> now]
<1>1. new \in TaskRecord /\ new.state = "dispatching" /\ new.run = 0
  BY Bounds DEF IInv, Typed, TaskRecord, Unsettled
<1>2. req \in Working /\ req.since = now /\ req.copy = new /\ req.task = t
  BY <1>1 DEF IInv, Typed, Working, Phases
<1>3. tasks' = [Pruned EXCEPT ![t] = new] /\ request' = [request EXCEPT ![th] = req]
      /\ UNCHANGED <<now, runs, hidden, late, failures>>
  BY DEF Dispatch
<1>4. SoundIn(runs, new, t)
  BY <1>1 DEF SoundIn
<1>5. SoundRequest(runs, now, req)
  BY <1>1, <1>2, <1>4 DEF SoundRequest
<1> HIDE DEF new, req
<1>6. request' \in Requests /\ \A b \in Threads : SoundRequest(runs, now, request'[b])
  BY <1>2, <1>3, <1>5, RequestStep
<1>7. tasks' \in Records /\ \A u \in Tasks : tasks'[u] # NoTask => SoundIn(runs, tasks'[u], u)
  BY <1>1, <1>3, <1>4, PrunedTyped DEF IInv, Typed, Records, Sound
<1> QED BY <1>3, <1>6, <1>7, QuietStep DEF IInv, Typed

LEMMA AskInv ==
    ASSUME IInv, NEW th \in Threads, NEW t \in Tasks, Ask(th, t) PROVE IInv'
<1> DEFINE req == [phase |-> IF tasks[t].run # 0 THEN "owned" ELSE "reconciling",
                   task |-> t, copy |-> tasks[t], since |-> now]
<1>1. tasks[t] \in TaskRecord /\ SoundIn(runs, tasks[t], t)
  BY DEF Ask, Recorded, IInv, Typed, Records, Sound
<1>2. /\ req \in Working /\ req.since = now /\ req.copy = tasks[t] /\ req.task = t
      /\ req.phase # "posting"
      /\ req.phase = "owned" => tasks[t].run # 0
      /\ req.phase # "recording"
  BY <1>1 DEF IInv, Typed, Working, Phases
<1>3. request' = [request EXCEPT ![th] = req] /\ UNCHANGED <<now, tasks, runs, hidden, late, failures>>
  BY DEF Ask
<1> HIDE DEF req
<1>4. SoundRequest(runs, now, req)
  BY <1>1, <1>2 DEF SoundRequest
<1>5. request' \in Requests /\ \A b \in Threads : SoundRequest(runs, now, request'[b])
  BY <1>2, <1>3, <1>4, RequestStep
<1> QED BY <1>3, <1>5, QuietStep DEF IInv, Typed, Sound

LEMMA QueuedInv ==
    ASSUME IInv, NEW th \in Threads, Queued(th) PROVE IInv'
<1> DEFINE copy == [request[th].copy EXCEPT !.state = "queued", !.run = Len(runs) + 1]
<1>1. request[th] \in Working /\ request[th].phase # "idle" /\ request[th].task \in Tasks
      /\ request[th].copy \in TaskRecord
  BY Busy, Parts DEF Queued, At
<1>2. Len(runs) + 1 \in 0..MaxRuns /\ Len(runs) + 1 # 0
  BY Bounds DEF IInv, Typed, Queued
<1>3. copy \in TaskRecord /\ copy.state = "queued" /\ copy.run = Len(runs) + 1
  BY <1>1, <1>2 DEF TaskRecord, Status
<1>4. /\ runs' \in Seq(Run) /\ Len(runs') = Len(runs) + 1 /\ Len(runs') <= MaxRuns
      /\ runs'[Len(runs) + 1].task = request[th].task
      /\ \A r \in 1..Len(runs) : runs'[r] = runs[r]
  BY <1>1, AppendTyped DEF IInv, Queued
<1>5. Len(runs) \in Nat /\ request \in Requests /\ tasks \in Records
  BY DEF IInv, Typed
<1>6. SoundIn(runs', copy, request[th].task)
  BY <1>3, <1>4, <1>5 DEF SoundIn
<1>7. Goto(th, "finishing", copy) /\ UNCHANGED <<now, tasks, hidden, late, failures>>
  BY DEF Queued
<1> HIDE DEF copy
<1>8. PICK new \in Working :
              /\ request' = [request EXCEPT ![th] = new]
              /\ new.phase = "finishing" /\ new.copy = copy
              /\ new.task = request[th].task /\ new.since = request[th].since
  BY <1>1, <1>3, <1>5, <1>7, Going DEF Phases
<1>9. SoundRequest(runs', now, new)
  BY <1>1, <1>6, <1>8, Busy DEF SoundRequest
<1>10. \A b \in Threads : SoundRequest(runs', now, request[b])
  <2>1. \A b \in Threads : SoundRequest(runs, now, request[b])
    BY DEF IInv, Sound
  <2> QED BY <1>4, <1>5, <2>1, SoundGrow
<1>11. \A b \in Threads : SoundRequest(runs', now, request'[b])
  BY <1>5, <1>8, <1>9, <1>10 DEF Requests
<1>12. request' \in Requests
  BY <1>5, <1>8 DEF Requests
<1> QED BY <1>4, <1>5, <1>7, <1>11, <1>12, RunStep DEF IInv, Typed

LEMMA AnsweredInv ==
    ASSUME IInv, NEW th \in Threads, Unanswered(th) \/ Rejected(th) PROVE IInv'
<1>1. /\ request[th].phase = "posting" /\ request[th].task \in Tasks
      /\ request[th].copy \in TaskRecord /\ request[th].copy.run = 0
  BY Busy, Parts DEF Unanswered, Rejected, At
<1>2. PICK st \in {"dispatch_unknown", "rejected"} :
              Goto(th, "finishing", [request[th].copy EXCEPT !.state = st])
  BY DEF Unanswered, Rejected
<1> DEFINE copy == [request[th].copy EXCEPT !.state = st]
<1>3. copy \in TaskRecord /\ copy.state = st /\ copy.run = 0
  BY <1>1 DEF TaskRecord, Unsettled
<1>4. SoundIn(runs, copy, request[th].task)
  BY <1>3 DEF SoundIn
<1> HIDE DEF copy
<1>5. request' \in Requests /\ \A b \in Threads : SoundRequest(runs, now, request'[b])
  BY <1>1, <1>2, <1>3, <1>4, GotoStep DEF copy, Phases
<1>6. UNCHANGED <<now, tasks, runs, hidden, failures>> /\ late' \subseteq Tasks
  BY <1>1 DEF Unanswered, Rejected, IInv, Typed
<1> QED BY <1>5, <1>6, QuietStep DEF IInv, Typed, Sound

LEMMA ReconcileInv ==
    ASSUME IInv, NEW th \in Threads, Reconcile(th) PROVE IInv'
<1>1. /\ request[th].phase = "reconciling" /\ request[th].task \in Tasks
      /\ request[th].copy \in TaskRecord
  BY Busy, Parts DEF Reconcile, At
<1>2. PICK r \in Found(request[th].task) :
              Goto(th, "recording", [request[th].copy EXCEPT !.state = "queued", !.run = r])
  BY DEF Reconcile
<1>3. r \in 1..Len(runs) /\ r \in 0..MaxRuns /\ r # 0 /\ runs[r].task = request[th].task
  BY <1>2, Bounds DEF Found, RunsOf, IInv, Typed
<1> DEFINE copy == [request[th].copy EXCEPT !.state = "queued", !.run = r]
<1>4. copy \in TaskRecord /\ copy.state = "queued" /\ copy.run = r
  BY <1>1, <1>3 DEF TaskRecord, Status
<1>5. SoundIn(runs, copy, request[th].task)
  BY <1>3, <1>4 DEF SoundIn
<1> HIDE DEF copy
<1>6. request' \in Requests /\ \A b \in Threads : SoundRequest(runs, now, request'[b])
  BY <1>1, <1>2, <1>3, <1>4, <1>5, GotoStep DEF copy, Phases
<1> QED BY <1>6, QuietStep DEF Reconcile, IInv, Typed, Sound

LEMMA OwnedInv ==
    ASSUME IInv, NEW th \in Threads, Fetch(th) \/ Cancel(th) PROVE IInv'
<1>1. /\ request[th].phase = "owned"
      /\ request[th].copy \in TaskRecord /\ request[th].copy.run # 0
      /\ SoundIn(runs, request[th].copy, request[th].task)
  BY Busy, Parts DEF Fetch, Cancel, At
<1>2. PICK copy : /\ Goto(th, "finishing", copy)
                  /\ \/ copy = [request[th].copy EXCEPT !.state = runs[request[th].copy.run].status]
                     \/ copy = request[th].copy
  BY DEF Fetch, Cancel, CopyOf
<1>3. runs[request[th].copy.run] \in Run
  BY <1>1 DEF SoundIn, IInv, Typed
<1>4. copy \in TaskRecord /\ SoundIn(runs, copy, request[th].task)
  BY <1>1, <1>2, <1>3 DEF TaskRecord, Run, Status, SoundIn
<1>5. request' \in Requests /\ \A b \in Threads : SoundRequest(runs, now, request'[b])
  BY <1>1, <1>2, <1>4, GotoStep DEF Phases
<1> QED BY <1>5, QuietStep DEF Fetch, Cancel, IInv, Typed, Sound

LEMMA DoneInv ==
    ASSUME IInv, NEW th \in Threads, NotFound(th) \/ Leave(th) \/ Fail(th) PROVE IInv'
<1>1. Done(th) /\ UNCHANGED <<now, tasks, runs, hidden, late>> /\ failures' \in 0..MaxFailures
  BY Bounds DEF NotFound, Leave, Fail, IInv, Typed
<1> QED BY <1>1, DoneStep, QuietStep DEF IInv, Typed, Sound

LEMMA WriteInv ==
    ASSUME IInv, NEW th \in Threads, Record(th) \/ Finish(th) PROVE IInv'
<1>1. /\ request[th].phase # "idle" /\ request[th].copy \in TaskRecord
      /\ request[th].phase = "recording" => request[th].copy.run # 0
      /\ SoundIn(runs, request[th].copy, request[th].task)
      /\ request[th].phase \in {"recording", "finishing"}
  BY Busy, Parts DEF Record, Finish, At
<1>2. /\ tasks' \in Records
      /\ \A t \in Tasks : tasks'[t] # NoTask => SoundIn(runs, tasks'[t], t)
  BY <1>1, UpdatedTyped DEF Record, Finish
<1>3. request' \in Requests /\ \A b \in Threads : SoundRequest(runs, now, request'[b])
  <2>1. CASE Finish(th)
    BY <2>1, DoneStep DEF Finish
  <2>2. CASE Record(th)
    BY <1>1, <2>2, GotoStep DEF Record, At, Phases
  <2> QED BY <2>1, <2>2
<1> QED BY <1>2, <1>3, QuietStep DEF Record, Finish, IInv, Typed

LEMMA GitHubInv ==
    ASSUME IInv,
           \/ \E t \in Tasks : Arrive(t) \/ Vanish(t)
           \/ \E r \in DOMAIN runs : Complete(r)
    PROVE  IInv'
<1>1. Len(runs) \in Nat /\ request \in Requests /\ tasks \in Records
  BY DEF IInv, Typed
<1>2. \A b \in Threads : SoundRequest(runs, now, request[b])
  BY DEF IInv, Sound
<1>3. ASSUME NEW t \in Tasks, Arrive(t) PROVE IInv'
  <2>1. /\ runs' \in Seq(Run) /\ Len(runs') = Len(runs) + 1 /\ Len(runs') <= MaxRuns
        /\ \A r \in 1..Len(runs) : runs'[r] = runs[r]
    BY <1>3, AppendTyped DEF IInv, Arrive
  <2>2. \A b \in Threads : SoundRequest(runs', now, request[b])
    BY <1>1, <1>2, <2>1, SoundGrow
  <2> QED BY <1>1, <1>3, <2>1, <2>2, RunStep DEF Arrive, IInv, Typed
<1>4. ASSUME NEW t \in Tasks, Vanish(t) PROVE IInv'
  BY <1>2, <1>4, QuietStep DEF Vanish, IInv, Typed, Sound
<1>5. ASSUME NEW r \in DOMAIN runs, Complete(r) PROVE IInv'
  <2>1. /\ runs' \in Seq(Run) /\ Len(runs') = Len(runs)
        /\ \A s \in 1..Len(runs) : /\ runs'[s].task = runs[s].task
                                   /\ runs[s].status = "completed" => runs'[s].status = "completed"
    BY <1>5, CompleteTyped DEF IInv
  <2>2. \A b \in Threads : SoundRequest(runs', now, request[b])
    BY <1>1, <1>2, <2>1, SoundGrow
  <2>3. UNCHANGED <<now, tasks, request, hidden, late, failures>>
    BY <1>5 DEF Complete
  <2>4. late \subseteq Tasks /\ failures \in 0..MaxFailures /\ Len(runs') <= MaxRuns
    BY <2>1 DEF IInv, Typed
  <2> QED BY <1>1, <2>1, <2>2, <2>3, <2>4, RunStep
<1> QED BY <1>3, <1>4, <1>5

LEMMA KillInv ==
    ASSUME IInv, Kill PROVE IInv'
<1>1. request' \in Requests /\ \A b \in Threads : SoundRequest(runs, now, request'[b])
  BY DEF Kill, Requests, SoundRequest
<1>2. late' \subseteq Tasks /\ failures' \in 0..MaxFailures /\ UNCHANGED <<now, tasks, runs, hidden>>
  BY Bounds DEF Kill, IInv, Typed
<1> QED BY <1>1, <1>2, QuietStep DEF IInv, Typed, Sound

LEMMA PassInv ==
    ASSUME IInv, Pass PROVE IInv'
<1>1. ASSUME NEW b \in Threads PROVE SoundRequest(runs, now', request[b])
  <2>1. SUFFICES ASSUME request[b] # Idle PROVE SoundRequest(runs, now', request[b])
    BY DEF SoundRequest
  <2>2. request[b].phase # "idle"
    BY <2>1, Parts DEF IInv, Typed, Requests
  <2>3. request[b].since = now /\ now' = now + 1 /\ now \in Nat
    BY <2>2 DEF Pass, At, IInv, Typed
  <2> QED BY <2>2, <2>3, Busy DEF SoundRequest
<1>2. now' \in 1..MaxTime
  BY Bounds DEF Pass, IInv, Typed
<1> QED BY <1>1, <1>2 DEF Pass, IInv, Typed, Sound

LEMMA InvStep == IInv /\ [Next]_vars => IInv'
<1> SUFFICES ASSUME IInv, [Next]_vars PROVE IInv'
  OBVIOUS
<1>1. CASE \E th \in Threads, t \in Tasks : Dispatch(th, t) \/ Ask(th, t)
  BY <1>1, DispatchInv, AskInv
<1>2. ASSUME NEW th \in Threads, Work(th) PROVE IInv'
  BY <1>2, QueuedInv, AnsweredInv, ReconcileInv, OwnedInv, DoneInv, WriteInv DEF Work
<1>3. CASE OtherRuns
  BY <1>3, QuietStep DEF OtherRuns, IInv, Typed, Sound
<1>4. CASE UNCHANGED vars
  BY <1>4 DEF vars, IInv, Typed, Sound
<1> QED BY <1>1, <1>2, <1>3, <1>4, GitHubInv, KillInv, PassInv DEF Next

LEMMA Invariant == Spec => []IInv
BY InitInv, InvStep, PTL DEF Spec

-----------------------------------------------------------------------------
(* What follows of the records.                                            *)

\* Every variable has its type, for every set of tasks and threads: a record of
\* the file and a copy a handler holds name runs that exist.
THEOREM TypeCorrect == Spec => []TypeOK
<1>1. IInv => TypeOK
  <2> SUFFICES ASSUME IInv PROVE TypeOK
    OBVIOUS
  <2>1. \A t \in Tasks : Recorded(t) => tasks[t].run \in 0..Len(runs)
    BY DEF IInv, Typed, Sound, Recorded, SoundIn
  <2>2. ASSUME NEW th \in Threads, request[th] # Idle
        PROVE  /\ request[th].phase \in Phases
               /\ request[th].task \in Tasks
               /\ request[th].copy \in TaskRecord /\ request[th].copy.run \in 0..Len(runs)
               /\ request[th].since \in {now, now - 1}
    <3>1. request[th] \in Working
      BY <2>2 DEF IInv, Typed, Requests
    <3>2. SoundRequest(runs, now, request[th]) /\ Len(runs) \in Nat
      BY DEF IInv, Typed, Sound
    <3> QED BY <2>2, <3>1, <3>2, Parts DEF SoundRequest, SoundIn
  <2>3. \A th \in Threads :
           \/ request[th] = Idle
           \/ /\ request[th].phase \in Phases
              /\ request[th].task \in Tasks
              /\ request[th].copy \in TaskRecord /\ request[th].copy.run \in 0..Len(runs)
              /\ request[th].since \in {now, now - 1}
    BY <2>2
  <2>4. /\ now \in 1..MaxTime /\ tasks \in [Tasks -> TaskRecord \cup {NoTask}]
        /\ runs \in Seq([task : Tasks, status : Status, at : 1..MaxTime]) /\ Len(runs) <= MaxRuns
        /\ hidden \in 0..Len(runs) /\ late \subseteq Tasks /\ failures \in 0..MaxFailures
    BY DEF IInv, Typed, Records, Run
  <2> HIDE DEF IInv
  <2> QED BY <2>1, <2>3, <2>4 DEF TypeOK, Phases
<1> QED BY <1>1, Invariant, PTL

\* Nobody reads, cancels or downloads the run of another task.
THEOREM RunsAreOwn == Spec => []RunIsTheTasks
<1>1. IInv => RunIsTheTasks
  BY DEF IInv, Sound, SoundIn, RunIsTheTasks, Recorded
<1> QED BY <1>1, Invariant, PTL

\* Only what is over may be forgotten by pruneOldTaskRecords, whichever stale
\* copies the handlers write back.
THEOREM ForgottenIsOver == Spec => []TerminalIsOver
<1>1. IInv => TerminalIsOver
  BY DEF IInv, Sound, SoundIn, TerminalIsOver, Terminal, Recorded
<1> QED BY <1>1, Invariant, PTL

-----------------------------------------------------------------------------
(* No task is submitted twice.  The record of a task that is under way is  *)
(* at most one period old, so it is not forgotten, and no dispatch of it   *)
(* begins: what is under way is alone, and all its runs are older.         *)

\* A run that is not over began in this period.
Dated ==
    \A r \in DOMAIN runs :
        /\ runs[r].at <= now
        /\ runs[r].status # "completed" => runs[r].at = now

Ordered ==
    \A r1, r2 \in DOMAIN runs :
        r1 < r2 /\ runs[r1].task = runs[r2].task => runs[r1].at < runs[r2].at

IsPosting(th) == request[th].phase = "posting"

\* The record of a task that is under way.
Kept ==
    /\ \A th \in Threads : IsPosting(th) =>
          /\ tasks[request[th].task] # NoTask
          /\ tasks[request[th].task].updated >= request[th].since
    /\ \A t \in late : tasks[t] # NoTask /\ tasks[t].updated + 1 >= now
    /\ \A r \in DOMAIN runs : runs[r].at = now =>
          /\ tasks[runs[r].task] # NoTask
          /\ tasks[runs[r].task].updated + 1 >= now

Alone ==
    /\ \A th \in Threads : IsPosting(th) =>
          /\ request[th].task \notin late
          /\ \A r \in DOMAIN runs : runs[r].task = request[th].task => runs[r].at < request[th].since
          /\ \A b \in Threads : IsPosting(b) /\ request[b].task = request[th].task => b = th
    /\ \A r \in DOMAIN runs : runs[r].task \in late => runs[r].at < now

Once == Dated /\ Ordered /\ Kept /\ Alone

\* What the times of a posting request, of a record and of a run range over.
LEMMA Times ==
    ASSUME IInv
    PROVE  /\ now \in Nat /\ Len(runs) \in Nat /\ DOMAIN runs = 1..Len(runs)
           /\ \A th \in Threads : IsPosting(th) =>
                 /\ request[th].task \in Tasks /\ request[th].since \in Nat
                 /\ request[th].since <= now /\ request[th].since + 1 >= now
           /\ \A t \in Tasks : tasks[t] # NoTask => tasks[t].updated \in Nat
           /\ \A r \in DOMAIN runs : runs[r].at \in Nat /\ runs[r].task \in Tasks
<1>1. now \in Nat /\ Len(runs) \in Nat /\ DOMAIN runs = 1..Len(runs)
  BY DEF IInv, Typed
<1>2. ASSUME NEW th \in Threads, IsPosting(th)
      PROVE  /\ request[th].task \in Tasks /\ request[th].since \in Nat
             /\ request[th].since <= now /\ request[th].since + 1 >= now
  BY <1>1, <1>2, Busy, Parts DEF IsPosting
<1>3. ASSUME NEW t \in Tasks, tasks[t] # NoTask PROVE tasks[t].updated \in Nat
  BY <1>3 DEF IInv, Typed, Records, TaskRecord
<1>4. ASSUME NEW r \in DOMAIN runs PROVE runs[r].at \in Nat /\ runs[r].task \in Tasks
  <2>1. runs[r] \in Run
    BY <1>4 DEF IInv, Typed
  <2> QED BY <2>1 DEF Run
<1> QED BY <1>1, <1>2, <1>3, <1>4

\* A step that starts no run and no dispatch: what was being posted may be on
\* its way unheard, and records may be dated anew.
LEMMA OnceCalm ==
    ASSUME IInv, Once, now' = now, runs' = runs,
           \A b \in Threads : IsPosting(b)' => IsPosting(b) /\ request'[b] = request[b],
           \A t \in late' : t \in late \/ \E b \in Threads : IsPosting(b) /\ request[b].task = t,
           \A b \in Threads : IsPosting(b)' => request[b].task \notin late',
           \A t \in Tasks : tasks'[t] = tasks[t] \/ (tasks'[t] # NoTask /\ tasks'[t].updated = now)
    PROVE  Once'
<1> USE Times
<1>1. Dated' /\ Ordered'
  BY DEF Once, Dated, Ordered
<1>2. \A th \in Threads : IsPosting(th)' =>
          /\ tasks'[request'[th].task] # NoTask
          /\ tasks'[request'[th].task].updated >= request'[th].since
  BY DEF Once, Kept
<1>3. ASSUME NEW t \in late' PROVE tasks'[t] # NoTask /\ tasks'[t].updated + 1 >= now
  <2>1. CASE t \in late
    BY <2>1 DEF Once, Kept, IInv, Typed
  <2>2. ASSUME NEW b \in Threads, IsPosting(b), request[b].task = t
        PROVE  tasks'[t] # NoTask /\ tasks'[t].updated + 1 >= now
    BY <2>2 DEF Once, Kept
  <2> QED BY <1>3, <2>1, <2>2
<1>4. \A r \in DOMAIN runs : runs[r].at = now =>
          /\ tasks'[runs[r].task] # NoTask
          /\ tasks'[runs[r].task].updated + 1 >= now
  BY DEF Once, Kept
<1>5. Kept'
  BY <1>2, <1>3, <1>4 DEF Kept
<1>6. ASSUME NEW r \in DOMAIN runs, runs[r].task \in late' PROVE runs[r].at < now
  <2>1. CASE runs[r].task \in late
    BY <2>1 DEF Once, Alone
  <2>2. ASSUME NEW b \in Threads, IsPosting(b), request[b].task = runs[r].task
        PROVE  runs[r].at < now
    BY <2>2 DEF Once, Alone
  <2> QED BY <1>6, <2>1, <2>2
<1>7. \A th \in Threads : IsPosting(th)' =>
          /\ request'[th].task \notin late'
          /\ \A r \in DOMAIN runs : runs[r].task = request'[th].task => runs[r].at < request'[th].since
          /\ \A b \in Threads : IsPosting(b)' /\ request'[b].task = request'[th].task => b = th
  BY DEF Once, Alone
<1>8. Alone'
  BY <1>6, <1>7 DEF Alone
<1> QED BY <1>1, <1>5, <1>8 DEF Once

\* A step in which the run of a task under way begins.
LEMMA OnceBegins ==
    ASSUME IInv, Once, now' = now, tasks' = tasks, NEW t \in Tasks,
           Len(runs) < MaxRuns,
           runs' = Append(runs, [task |-> t, status |-> "queued", at |-> now]),
           \A r \in DOMAIN runs : runs[r].task = t => runs[r].at < now,
           tasks[t] # NoTask, tasks[t].updated + 1 >= now,
           late' \subseteq late, t \notin late',
           \A b \in Threads : IsPosting(b)' => /\ IsPosting(b) /\ request'[b] = request[b]
                                                /\ request[b].task # t
    PROVE  Once'
<1> USE Times
<1> DEFINE n == Len(runs) + 1
<1>1. /\ DOMAIN runs' = 1..n /\ runs'[n].task = t /\ runs'[n].at = now
      /\ runs'[n].status = "queued"
      /\ \A r \in DOMAIN runs : runs'[r] = runs[r]
  <2>1. /\ runs' \in Seq(Run) /\ Len(runs') = n
        /\ runs'[n] = [task |-> t, status |-> "queued", at |-> now]
        /\ \A r \in 1..Len(runs) : runs'[r] = runs[r]
    BY AppendTyped DEF IInv
  <2> QED BY <2>1
<1>2. \A r \in DOMAIN runs' : r \in DOMAIN runs \/ r = n
  BY <1>1, Times DEF n
<1>3. \A r \in DOMAIN runs : r \in Nat /\ r < n
  OBVIOUS
<1> HIDE DEF n
<1>4. Dated'
  BY <1>1, <1>2 DEF Once, Dated
<1>5. Ordered'
  <2> SUFFICES ASSUME NEW r1 \in DOMAIN runs', NEW r2 \in DOMAIN runs', r1 < r2,
                      runs'[r1].task = runs'[r2].task
               PROVE  runs'[r1].at < runs'[r2].at
    BY DEF Ordered
  <2>1. r1 \in DOMAIN runs
    BY <1>1, <1>2, <1>3 DEF n
  <2> QED BY <1>1, <1>2, <2>1 DEF Once, Ordered
<1>6. Kept'
  <2>1. \A th \in Threads : IsPosting(th)' =>
            /\ tasks[request'[th].task] # NoTask
            /\ tasks[request'[th].task].updated >= request'[th].since
    BY DEF Once, Kept
  <2>2. \A u \in late' : tasks[u] # NoTask /\ tasks[u].updated + 1 >= now
    BY DEF Once, Kept
  <2>3. \A r \in DOMAIN runs' : runs'[r].at = now =>
            /\ tasks[runs'[r].task] # NoTask
            /\ tasks[runs'[r].task].updated + 1 >= now
    BY <1>1, <1>2 DEF Once, Kept
  <2> QED BY <2>1, <2>2, <2>3 DEF Kept
<1>7. Alone'
  BY <1>1, <1>2 DEF Once, Alone
<1> QED BY <1>4, <1>5, <1>6, <1>7 DEF Once

LEMMA OnceEnds ==
    ASSUME IInv, Once, NEW r \in DOMAIN runs, Complete(r) PROVE Once'
<1>1. /\ UNCHANGED <<now, tasks, request, late>>
      /\ DOMAIN runs' = DOMAIN runs
      /\ \A s \in DOMAIN runs : /\ runs'[s].task = runs[s].task /\ runs'[s].at = runs[s].at
                                /\ runs'[s].status # "completed" => runs[s].status # "completed"
  BY CompleteTyped, Times DEF Complete, IInv
<1>2. Dated' /\ Ordered'
  BY <1>1 DEF Once, Dated, Ordered
<1>3. Kept'
  BY <1>1 DEF Once, Kept, IsPosting
<1>4. Alone'
  BY <1>1 DEF Once, Alone, IsPosting
<1> QED BY <1>2, <1>3, <1>4 DEF Once

\* A period passes: only what is being posted is still under way, and it was
\* asked for in the period that ends.
LEMMA OncePasses ==
    ASSUME IInv, Once, Pass PROVE Once'
<1> USE Times
<1>1. /\ now' = now + 1 /\ late = {} /\ UNCHANGED <<tasks, request, runs, late>>
      /\ \A r \in DOMAIN runs : runs[r].status = "completed"
  BY DEF Pass
<1>2. \A r \in DOMAIN runs : runs[r].at < now'
  BY <1>1 DEF Once, Dated
<1>3. Dated' /\ Ordered'
  BY <1>1, <1>2 DEF Once, Dated, Ordered
<1>4. Kept'
  BY <1>1, <1>2 DEF Once, Kept, IsPosting
<1>5. Alone'
  BY <1>1, <1>2 DEF Once, Alone, IsPosting
<1> QED BY <1>3, <1>4, <1>5 DEF Once

\* A record that is forgotten belongs to a task that is not under way.
LEMMA Forgotten ==
    ASSUME IInv, Once, NEW t \in Tasks, Pruned[t] = NoTask
    PROVE  /\ \A th \in Threads : IsPosting(th) => request[th].task # t
           /\ t \notin late
           /\ \A r \in DOMAIN runs : runs[r].task = t => runs[r].at < now
<1> USE Times, Bounds
<1>1. tasks[t] # NoTask => tasks[t].updated + 1 < now
  <2> SUFFICES ASSUME tasks[t] # NoTask PROVE tasks[t].updated + 1 < now
    OBVIOUS
  <2>1. Expired(t)
    BY PrunedTyped DEF IInv, Typed
  <2> QED BY <2>1 DEF Expired
<1>2. ASSUME NEW th \in Threads, IsPosting(th) PROVE request[th].task # t
  BY <1>1, <1>2 DEF Once, Kept
<1>3. t \notin late
  BY <1>1 DEF Once, Kept
<1>4. ASSUME NEW r \in DOMAIN runs, runs[r].task = t PROVE runs[r].at < now
  BY <1>1, <1>4 DEF Once, Kept, Dated
<1> QED BY <1>2, <1>3, <1>4

LEMMA OnceDispatched ==
    ASSUME IInv, Once, NEW th \in Threads, NEW t \in Tasks, Dispatch(th, t) PROVE Once'
<1> USE Times
<1> DEFINE new == [state |-> "dispatching", run |-> 0, updated |-> now]
           req == [phase |-> "posting", task |-> t, copy |-> new, since |-> now]
<1>1. new \in TaskRecord /\ new # NoTask /\ new.updated = now
  BY Bounds, RecordAssumption DEF IInv, Typed, TaskRecord, Unsettled
<1>2. req.phase = "posting" /\ req.task = t /\ req.since = now
  OBVIOUS
<1>3. tasks' = [Pruned EXCEPT ![t] = new] /\ request' = [request EXCEPT ![th] = req]
      /\ UNCHANGED <<now, runs, late>> /\ Pruned[t] = NoTask
  BY DEF Dispatch
<1> HIDE DEF new, req
<1>4. /\ request'[th] = req
      /\ \A b \in Threads : b # th => request'[b] = request[b]
  BY <1>3 DEF IInv, Typed, Requests
<1>5. /\ tasks'[t] = new
      /\ \A u \in Tasks : u # t => tasks'[u] = Pruned[u]
  BY <1>3, PrunedTyped DEF IInv, Typed, Records
<1>6. \A u \in Tasks : Pruned[u] = NoTask \/ Pruned[u] = tasks[u]
  BY PrunedTyped DEF IInv, Typed
<1>7. /\ \A b \in Threads : IsPosting(b) => request[b].task # t
      /\ t \notin late
      /\ \A r \in DOMAIN runs : runs[r].task = t => runs[r].at < now
  BY <1>3, Forgotten
<1>8. ASSUME NEW u \in Tasks, Pruned[u] = NoTask
      PROVE  /\ \A b \in Threads : IsPosting(b) => request[b].task # u
             /\ u \notin late
             /\ \A r \in DOMAIN runs : runs[r].task = u => runs[r].at < now
  BY <1>8, Forgotten
<1>9. Dated' /\ Ordered'
  BY <1>3 DEF Once, Dated, Ordered
<1>10. Kept'
  <2>1. ASSUME NEW b \in Threads, IsPosting(b)'
        PROVE  /\ tasks'[request'[b].task] # NoTask
               /\ tasks'[request'[b].task].updated >= request'[b].since
    <3>1. CASE b = th
      BY <1>1, <1>2, <1>4, <1>5, <3>1
    <3>2. CASE b # th
      <4>1. IsPosting(b) /\ request'[b] = request[b] /\ request[b].task \in Tasks
        BY <1>4, <2>1, <3>2 DEF IsPosting
      <4>2. tasks'[request[b].task] = tasks[request[b].task]
        BY <1>5, <1>6, <1>7, <1>8, <4>1
      <4> QED BY <4>1, <4>2 DEF Once, Kept
    <3> QED BY <3>1, <3>2
  <2>2. ASSUME NEW u \in late PROVE tasks'[u] # NoTask /\ tasks'[u].updated + 1 >= now
    <3>1. u \in Tasks
      BY DEF IInv, Typed
    <3>2. tasks'[u] = tasks[u]
      BY <1>5, <1>6, <1>7, <1>8, <2>2, <3>1
    <3> QED BY <2>2, <3>2 DEF Once, Kept
  <2>3. ASSUME NEW r \in DOMAIN runs, runs[r].at = now
        PROVE  /\ tasks'[runs[r].task] # NoTask
               /\ tasks'[runs[r].task].updated + 1 >= now
    <3>1. tasks'[runs[r].task] = tasks[runs[r].task]
      BY <1>5, <1>6, <1>7, <1>8, <2>3
    <3> QED BY <2>3, <3>1 DEF Once, Kept
  <2> QED BY <1>3, <2>1, <2>2, <2>3 DEF Kept
<1>11. Alone'
  <2>1. ASSUME NEW b \in Threads, IsPosting(b)'
        PROVE  /\ request'[b].task \notin late
               /\ \A r \in DOMAIN runs : runs[r].task = request'[b].task => runs[r].at < request'[b].since
               /\ \A c \in Threads : IsPosting(c)' /\ request'[c].task = request'[b].task => c = b
    <3>1. ASSUME NEW c \in Threads, c # th, IsPosting(c)'
          PROVE  IsPosting(c) /\ request'[c] = request[c] /\ request[c].task # t
      BY <1>4, <1>7, <3>1 DEF IsPosting
    <3>2. CASE b = th
      BY <1>2, <1>4, <1>7, <3>1, <3>2
    <3>3. CASE b # th
      BY <1>2, <1>4, <2>1, <3>1, <3>3 DEF Once, Alone
    <3> QED BY <3>2, <3>3
  <2> QED BY <1>3, <2>1 DEF Once, Alone
<1> QED BY <1>9, <1>10, <1>11 DEF Once

\* Only Dispatch makes a thread post.
LEMMA NotPosting ==
    ASSUME IInv, NEW th \in Threads,
           \/ /\ request[th].phase # "idle"
              /\ \E phase \in Phases \ {"posting"}, copy \in TaskRecord : Goto(th, phase, copy)
           \/ Done(th)
    PROVE  \A b \in Threads :
              IsPosting(b)' => b # th /\ IsPosting(b) /\ request'[b] = request[b]
<1>1. request \in Requests
  BY DEF IInv, Typed
<1>2. PICK new : request' = [request EXCEPT ![th] = new] /\ new.phase # "posting"
  <2>1. CASE Done(th)
    <3>1. request' = [request EXCEPT ![th] = Idle] /\ Idle.phase # "posting"
      BY <2>1 DEF Done, Idle
    <3> QED BY <3>1
  <2>2. ASSUME request[th].phase # "idle",
               NEW phase \in Phases \ {"posting"}, NEW copy \in TaskRecord, Goto(th, phase, copy)
        PROVE  \E new : request' = [request EXCEPT ![th] = new] /\ new.phase # "posting"
    BY <1>1, <2>2, Busy, Going
  <2> QED BY <2>1, <2>2
<1> QED BY <1>1, <1>2 DEF Requests, IsPosting

\* A step of a request that is not being posted.
LEMMA OnceWork ==
    ASSUME IInv, IInv', Once, NEW th \in Threads,
           \/ Reconcile(th) \/ NotFound(th) \/ Fetch(th) \/ Cancel(th) \/ Leave(th)
           \/ Record(th) \/ Finish(th) \/ Fail(th) \/ Rejected(th)
    PROVE  Once'
<1>1. request[th].phase # "idle"
  BY DEF Reconcile, NotFound, Fetch, Cancel, Leave, Record, Finish, Fail, Rejected, At
<1>2. request[th] \in Working /\ request[th].copy \in TaskRecord
  BY <1>1, Busy, Parts
<1>3. \A b \in Threads : IsPosting(b)' => IsPosting(b) /\ request'[b] = request[b]
  <2>1. CASE NotFound(th) \/ Leave(th) \/ Finish(th) \/ Fail(th)
    BY <2>1, NotPosting DEF NotFound, Leave, Finish, Fail
  <2>2. CASE Reconcile(th) \/ Fetch(th) \/ Cancel(th) \/ Record(th) \/ Rejected(th)
    <3>1. PICK phase, copy : phase # "posting" /\ Goto(th, phase, copy)
      BY <2>2 DEF Reconcile, Fetch, Cancel, Record, Rejected
    <3>2. request \in Requests /\ request'[th] = [request[th] EXCEPT !.phase = phase, !.copy = copy]
          /\ \A b \in Threads : b # th => request'[b] = request[b]
      BY <3>1 DEF Goto, IInv, Typed, Requests
    <3>3. request'[th].phase = phase
      BY <1>2, <3>2 DEF Working
    <3> QED BY <3>1, <3>2, <3>3 DEF IsPosting
  <2> QED BY <2>1, <2>2
<1>4. \A t \in Tasks : tasks'[t] = tasks[t] \/ (tasks'[t] # NoTask /\ tasks'[t].updated = now)
  <2>1. CASE Record(th) \/ Finish(th)
    BY <1>1, <2>1, UpdatedTyped DEF Record, Finish
  <2>2. CASE tasks' = tasks
    BY <2>2
  <2> QED BY <2>1, <2>2 DEF Reconcile, NotFound, Fetch, Cancel, Leave, Fail, Rejected
<1>5. UNCHANGED <<now, runs, late>>
  BY DEF Reconcile, NotFound, Fetch, Cancel, Leave, Record, Finish, Fail, Rejected
<1>6. \A b \in Threads : IsPosting(b)' => request[b].task \notin late'
  BY <1>3, <1>5 DEF Once, Alone
<1> QED BY <1>3, <1>4, <1>5, <1>6, OnceCalm

LEMMA OnceAsked ==
    ASSUME IInv, Once, NEW th \in Threads, NEW t \in Tasks, Ask(th, t) PROVE Once'
<1>1. \A b \in Threads : IsPosting(b)' => IsPosting(b) /\ request'[b] = request[b]
  BY DEF Ask, IsPosting, IInv, Typed, Requests
<1>2. UNCHANGED <<now, tasks, runs, late>>
  BY DEF Ask
<1>3. \A b \in Threads : IsPosting(b)' => request[b].task \notin late'
  BY <1>1, <1>2 DEF Once, Alone
<1> QED BY <1>1, <1>2, <1>3, OnceCalm

LEMMA OnceUnheard ==
    ASSUME IInv, Once, NEW th \in Threads, Unanswered(th) PROVE Once'
<1>1. IsPosting(th) /\ request[th].phase # "idle" /\ request[th].copy \in TaskRecord
  BY Busy, Parts DEF Unanswered, At, IsPosting
<1>2. [request[th].copy EXCEPT !.state = "dispatch_unknown"] \in TaskRecord
  BY <1>1 DEF TaskRecord, Unsettled
<1>3. \A b \in Threads : IsPosting(b)' => b # th /\ IsPosting(b) /\ request'[b] = request[b]
  BY <1>1, <1>2, NotPosting DEF Unanswered, Phases
<1>4. late' = late \cup {request[th].task} /\ UNCHANGED <<now, tasks, runs>>
  BY DEF Unanswered
<1>5. \A b \in Threads : IsPosting(b)' => request[b].task \notin late'
  BY <1>1, <1>3, <1>4 DEF Once, Alone
<1> QED BY <1>1, <1>3, <1>4, <1>5, OnceCalm

LEMMA OnceQueued ==
    ASSUME IInv, Once, NEW th \in Threads, Queued(th) PROVE Once'
<1> DEFINE t == request[th].task
           copy == [request[th].copy EXCEPT !.state = "queued", !.run = Len(runs) + 1]
<1>1. IsPosting(th) /\ request[th].phase # "idle" /\ request[th].copy \in TaskRecord /\ t \in Tasks
  BY Busy, Parts DEF Queued, At, IsPosting
<1>2. copy \in TaskRecord
  <2>1. Len(runs) + 1 \in 0..MaxRuns
    BY Bounds DEF IInv, Typed, Queued
  <2> QED BY <1>1, <2>1 DEF TaskRecord, Status
<1>3. Goto(th, "finishing", copy)
  BY DEF Queued
<1> HIDE DEF copy
<1>4. \A b \in Threads : IsPosting(b)' => b # th /\ IsPosting(b) /\ request'[b] = request[b]
  BY <1>1, <1>2, <1>3, NotPosting DEF Phases
<1>5. /\ Len(runs) < MaxRuns /\ UNCHANGED <<now, tasks, late>>
      /\ runs' = Append(runs, [task |-> t, status |-> "queued", at |-> now])
  BY DEF Queued
<1>6. /\ t \notin late
      /\ \A r \in DOMAIN runs : runs[r].task = t => runs[r].at < now
      /\ \A b \in Threads : IsPosting(b) /\ b # th => request[b].task # t
  BY <1>1, Times DEF Once, Alone
<1>7. tasks[t] # NoTask /\ tasks[t].updated + 1 >= now
  BY <1>1, Times DEF Once, Kept
<1> HIDE DEF t
<1> QED BY <1>1, <1>4, <1>5, <1>6, <1>7, OnceBegins DEF t

LEMMA OnceArrives ==
    ASSUME IInv, Once, NEW t \in Tasks, Arrive(t) \/ Vanish(t) PROVE Once'
<1>1. t \in late /\ late' = late \ {t} /\ UNCHANGED <<now, tasks, request>>
  BY DEF Arrive, Vanish
<1>2. \A b \in Threads : IsPosting(b)' =>
          IsPosting(b) /\ request'[b] = request[b] /\ request[b].task \notin late
  BY <1>1 DEF IsPosting, Once, Alone
<1>3. CASE Vanish(t)
  BY <1>1, <1>2, <1>3, OnceCalm DEF Vanish
<1>4. CASE Arrive(t)
  <2>1. /\ \A r \in DOMAIN runs : runs[r].task = t => runs[r].at < now
        /\ tasks[t] # NoTask /\ tasks[t].updated + 1 >= now
    BY <1>1 DEF Once, Alone, Kept
  <2>2. Len(runs) < MaxRuns /\ runs' = Append(runs, [task |-> t, status |-> "queued", at |-> now])
    BY <1>4 DEF Arrive
  <2> QED BY <1>1, <1>2, <2>1, <2>2, OnceBegins
<1> QED BY <1>3, <1>4

LEMMA OnceKilled ==
    ASSUME IInv, Once, Kill PROVE Once'
<1>1. \A b \in Threads : ~IsPosting(b)'
  BY DEF Kill, IsPosting, Idle
<1>2. \A t \in late' : t \in late \/ \E b \in Threads : IsPosting(b) /\ request[b].task = t
  BY DEF Kill, Posting, At, IsPosting
<1>3. UNCHANGED <<now, tasks, runs>>
  BY DEF Kill
<1> QED BY <1>1, <1>2, <1>3, OnceCalm

LEMMA OnceStep == IInv /\ IInv' /\ Once /\ [Next]_vars => Once'
<1> SUFFICES ASSUME IInv, IInv', Once, [Next]_vars PROVE Once'
  OBVIOUS
<1>1. CASE \E th \in Threads, t \in Tasks : Dispatch(th, t) \/ Ask(th, t)
  BY <1>1, OnceDispatched, OnceAsked
<1>2. ASSUME NEW th \in Threads, Work(th) PROVE Once'
  BY <1>2, OnceQueued, OnceUnheard, OnceWork DEF Work
<1>3. CASE \E t \in Tasks : Arrive(t) \/ Vanish(t)
  BY <1>3, OnceArrives
<1>4. CASE \E r \in DOMAIN runs : Complete(r)
  BY <1>4, OnceEnds
<1>5. CASE OtherRuns \/ UNCHANGED vars
  BY <1>5 DEF OtherRuns, vars, Once, Dated, Ordered, Kept, Alone, IsPosting
<1> QED BY <1>1, <1>2, <1>3, <1>4, <1>5, OnceKilled, OncePasses DEF Next

LEMMA OnceInit == Init => Once
BY DEF Init, Idle, Once, Dated, Ordered, Kept, Alone, IsPosting

\* A set all of whose elements are equal is counted at most once.
LEMMA Single ==
    ASSUME NEW S, \A x, y \in S : x = y
    PROVE  Cardinality(S) \in {0, 1} /\ (S = {} => Cardinality(S) = 0)
<1>1. CASE S = {}
  BY <1>1, FS_EmptySet
<1>2. ASSUME NEW x \in S PROVE Cardinality(S) = 1
  <2>1. S = {x}
    BY <1>2
  <2> QED BY <2>1, FS_Singleton
<1> QED BY <1>1, <1>2

LEMMA OnceEnough == IInv /\ Once => SubmittedOnce
<1> SUFFICES ASSUME IInv, Once, NEW t \in Tasks
             PROVE  /\ LET active == {r \in RunsOf(t) : runs[r].status # "completed"} IN
                       Cardinality(active) + Cardinality(Posting(t)) + Cardinality(late \cap {t}) <= 1
                    /\ \A r1, r2 \in RunsOf(t) : r1 < r2 => runs[r1].at < runs[r2].at
  BY DEF SubmittedOnce
<1> USE Times
<1> DEFINE active == {r \in RunsOf(t) : runs[r].status # "completed"}
<1>1. \A r1, r2 \in RunsOf(t) : r1 < r2 => runs[r1].at < runs[r2].at
  BY DEF RunsOf, Once, Ordered
<1>2. \A r1, r2 \in active : r1 = r2
  <2> SUFFICES ASSUME NEW r1 \in active, NEW r2 \in active, r1 < r2 PROVE FALSE
    BY DEF RunsOf
  <2>1. runs[r1].at = now /\ runs[r2].at = now
    BY DEF RunsOf, Once, Dated
  <2> QED BY <1>1, <2>1
<1>3. \A a, b \in Posting(t) : a = b
  BY DEF Posting, At, IsPosting, Once, Alone
<1>4. \A a, b \in late \cap {t} : a = b
  OBVIOUS
<1>5. Posting(t) # {} => late \cap {t} = {} /\ active = {}
  <2> SUFFICES ASSUME NEW th \in Posting(t) PROVE late \cap {t} = {} /\ active = {}
    OBVIOUS
  <2>1. th \in Threads /\ IsPosting(th) /\ request[th].task = t
    BY DEF Posting, At, IsPosting
  <2>2. t \notin late /\ \A r \in RunsOf(t) : runs[r].at < now
    BY <2>1 DEF Once, Alone, RunsOf
  <2>3. active = {}
    BY <2>2 DEF RunsOf, Once, Dated
  <2> QED BY <2>2, <2>3
<1>6. t \in late => active = {}
  BY DEF RunsOf, Once, Dated, Alone
<1> HIDE DEF active
<1>7. /\ Cardinality(active) \in {0, 1} /\ (active = {} => Cardinality(active) = 0)
      /\ Cardinality(Posting(t)) \in {0, 1} /\ (Posting(t) = {} => Cardinality(Posting(t)) = 0)
      /\ Cardinality(late \cap {t}) \in {0, 1}
      /\ (late \cap {t} = {} => Cardinality(late \cap {t}) = 0)
  BY <1>2, <1>3, <1>4, Single
<1>8. Cardinality(active) + Cardinality(Posting(t)) + Cardinality(late \cap {t}) <= 1
  <2>1. CASE Posting(t) # {}
    BY <1>5, <1>7, <2>1
  <2>2. CASE Posting(t) = {} /\ t \in late
    BY <1>6, <1>7, <2>2
  <2>3. CASE Posting(t) = {} /\ t \notin late
    BY <1>7, <2>3
  <2> QED BY <2>1, <2>2, <2>3
<1> QED BY <1>1, <1>8 DEF active

\* "it will not be submitted twice": for every set of tasks and threads, every
\* number of records, runs and failures and every retention of at least one
\* period, no task has two dispatches or runs that are not over, nor two runs in
\* one period.
THEOREM DispatchedOnce == Spec => []SubmittedOnce
<1>1. Init => IInv /\ Once
  BY InitInv, OnceInit
<1>2. IInv /\ Once /\ [Next]_vars => IInv' /\ Once'
  BY InvStep, OnceStep
<1> QED BY <1>1, <1>2, OnceEnough, PTL DEF Spec

=============================================================================
