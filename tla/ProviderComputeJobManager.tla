--------------------- MODULE ProviderComputeJobManager ---------------------
(***************************************************************************)
(* The durable job queue of nmc_server's provider-compute routes           *)
(* (Core/ProviderComputeJobManager.cpp).  HTTP threads submit jobs, a      *)
(* fixed pool of workers runs one provider command per job, and every      *)
(* change of a job or of the idempotency ledger is written to one state    *)
(* file.  The process may be killed between any two critical sections,     *)
(* the machine may lose power, and every write may fail before the rename  *)
(* of the new file or between the rename and the directory fsync.          *)
(*                                                                         *)
(* A critical section of mutex_ is one action.  A request is reduced to    *)
(* its deduplication key (operation, provider, scope, idempotency key) and *)
(* its fingerprint (request body, dependency revision, policy); a `list'   *)
(* operation carries NoKey.  Result bodies, audit events and the contents  *)
(* of requests are left out.                                               *)
(***************************************************************************)
EXTENDS Naturals, Sequences, FiniteSets

CONSTANTS
    JobIds,                     \* identifiers randomJobId may return
    Keys,                       \* deduplication keys of mutations
    NoKey,                      \* the empty key of a list operation
    NoJobId,                    \* no job: a free ledger slot, an idle worker
    Fingerprints,               \* request fingerprints
    Clients,                    \* HTTP threads inside submit
    Workers,                    \* WorkerCount threads
    MaximumQueuedJobs,
    MaximumRetainedJobs,
    MaximumIdempotencyRecords,
    JobRetention,
    IdempotencyRetention,
    MaxTime                     \* bound of the clock, for model checking

ASSUME ConstantsAssumption ==
    /\ NoKey \notin Keys
    /\ NoJobId \notin JobIds
    /\ Fingerprints # {}
    /\ MaximumQueuedJobs \in Nat
    /\ MaximumRetainedJobs \in Nat
    /\ MaximumIdempotencyRecords \in Nat
    /\ JobRetention \in Nat
    /\ IdempotencyRetention \in Nat
    /\ MaxTime \in Nat

VARIABLES
    now,        \* nowEpochMs()
    phase,      \* life of the process and of the manager in it
    available,  \* available_
    jobs,       \* jobs_: status and completion time, NoJob when absent
    queue,      \* queue_
    keys,       \* idempotency_
    worker,     \* the program counter and the job of each worker thread
    client,     \* the request an HTTP thread has prepared
    file,       \* contents of the state file as the process sees it
    survivors,  \* contents a power loss may leave behind
    ticket,     \* history: what was submitted and when it was inserted
    launches,   \* history: provider commands started for a job
    disclaimed, \* history: jobs reported as "no provider command was launched"
    told        \* history: fingerprints of the requests a job was the answer to

memory == <<available, jobs, queue, keys>>
disk == <<file, survivors>>
history == <<ticket, launches, disclaimed, told>>
vars == <<now, phase, memory, worker, client, disk, history>>

-----------------------------------------------------------------------------
(* Data *)

Active == {"queued", "running"}
Terminal == {"succeeded", "failed", "cancelled", "outcome_unknown"}

Job == [status : Active \cup Terminal \cup {"absent"}, completed : Nat]
NoJob == [status |-> "absent", completed |-> 0]
Closed(status, t) == [status |-> status, completed |-> t]

Record == [job : JobIds \cup {NoJobId}, fingerprint : Fingerprints, expires : Nat]
NoRecord == [job |-> NoJobId, fingerprint |-> CHOOSE f \in Fingerprints : TRUE, expires |-> 0]

Image == [jobs : [JobIds -> Job], keys : [Keys -> Record]]
NoJobs == [j \in JobIds |-> NoJob]
NoRecords == [k \in Keys |-> NoRecord]
EmptyImage == [jobs |-> NoJobs, keys |-> NoRecords]

Request == [key : Keys \cup {NoKey}, fingerprint : Fingerprints, created : Nat]
NoRequest == [key |-> NoKey, fingerprint |-> CHOOSE f \in Fingerprints : TRUE, created |-> 0]

\* The fields of a job that never change, and when it was inserted.
Ticket == [key : Keys \cup {NoKey}, fingerprint : Fingerprints, created : Nat, admitted : Nat]
NoTicket == [key |-> NoKey, fingerprint |-> CHOOSE f \in Fingerprints : TRUE, created |-> 0, admitted |-> 0]

Thread == [pc : {"off", "waiting", "taken", "launched"}, job : JobIds \cup {NoJobId}]
Off == [pc |-> "off", job |-> NoJobId]
Waiting == [pc |-> "waiting", job |-> NoJobId]

Known(js) == {j \in JobIds : js[j].status # "absent"}
Finished(js) == {j \in JobIds : js[j].status \in Terminal}
UsedKeys(ks) == {k \in Keys : ks[k].job # NoJobId}

-----------------------------------------------------------------------------
(* pruneLocked *)

\* Fault: a ledger record leaves with its job.
KeysOfJobs(ks, t) ==
    [k \in Keys |-> IF \/ ks[k].expires <= t
                       \/ ks[k].job # NoJobId /\ jobs[ks[k].job].status = "absent"
                    THEN NoRecord
                    ELSE ks[k]]

\* Ledger records leave when their retention is over at time t.
UnexpiredKeys(ks, t) ==
    [k \in Keys |-> IF ks[k].expires <= t THEN NoRecord ELSE ks[k]]

\* Finished jobs leave when their retention is over at time t.
Unaged(js, t) ==
    [j \in JobIds |-> IF /\ js[j].status \in Terminal
                         /\ js[j].completed > 0
                         /\ t > js[j].completed + JobRetention
                      THEN NoJob
                      ELSE js[j]]

\* The oldest finished jobs make room when too many are retained; an active
\* job never does.
Victims(js) ==
    {V \in SUBSET Finished(js) :
        /\ \A v \in V, o \in Finished(js) \ V : js[v].completed <= js[o].completed
        /\ V # {} => Cardinality(Known(js)) - Cardinality(V) >= MaximumRetainedJobs
        /\ \/ Cardinality(Known(js)) - Cardinality(V) <= MaximumRetainedJobs
           \/ V = Finished(js)}

Prunings(js, t) ==
    LET kept == Unaged(js, t)
    IN  {[j \in JobIds |-> IF j \in V THEN NoJob ELSE kept[j]] : V \in Victims(kept)}

-----------------------------------------------------------------------------
(* persistLocked *)

\* Fault: the directory is not synced after the rename.
PersistUnsynced(image) ==
    /\ file' = image
    /\ survivors' = survivors \cup {image}

\* The new image is renamed into place and the directory entry is synced.
PersistSucceeds(image) ==
    /\ file' = image
    /\ survivors' = {image}

\* The write fails: before the rename, or after it, when the image is already
\* what a reader of the file sees.
PersistFails(image) ==
    \/ UNCHANGED disk
    \/ /\ file' = image
       /\ survivors' = survivors \cup {image}

\* Fault: the jobs are serialised before they are changed.
StaleSnapshot(js, ks) == [jobs |-> jobs, keys |-> ks]

Snapshot(js, ks) == [jobs |-> js, keys |-> ks]

-----------------------------------------------------------------------------
(* Construction: loadState, then start *)

\* Fault: only the running jobs count as interrupted.
RecoveredRunning(js, t) ==
    [j \in JobIds |-> IF js[j].status = "running" THEN Closed("outcome_unknown", t) ELSE js[j]]

\* An interrupted job is closed, never queued again.
Recovered(js, t) ==
    [j \in JobIds |-> IF js[j].status = "queued" THEN Closed("cancelled", t)
                      ELSE IF js[j].status = "running" THEN Closed("outcome_unknown", t)
                      ELSE js[j]]

Load ==
    /\ phase = "down"
    /\ phase' = "loaded"
    /\ jobs' \in Prunings(Recovered(file.jobs, now), now)
    /\ keys' = UnexpiredKeys(file.keys, now)
    /\ \/ /\ PersistSucceeds(Snapshot(jobs', keys'))
          /\ available' = TRUE
       \/ /\ PersistFails(Snapshot(jobs', keys'))
          /\ available' = FALSE
    /\ disclaimed' = disclaimed \cup {j \in JobIds : file.jobs[j].status = "queued"}
    /\ UNCHANGED <<now, queue, worker, client, ticket, launches, told>>

\* The file cannot be opened, read or parsed: the manager stays closed.
LoadFails ==
    /\ phase = "down"
    /\ phase' = "loaded"
    /\ UNCHANGED <<now, memory, worker, client, disk, history>>

Start ==
    /\ phase = "loaded" /\ available
    /\ phase' = "up"
    /\ worker' = [w \in Workers |-> Waiting]
    /\ UNCHANGED <<now, memory, client, disk, history>>

\* A thread cannot be created; the threads already running are joined.
StartFails ==
    /\ phase = "loaded" /\ available
    /\ available' = FALSE
    /\ UNCHANGED <<now, phase, jobs, queue, keys, worker, client, disk, history>>

-----------------------------------------------------------------------------
(* submit *)

\* Validation, preflight, fingerprint and the read of the clock, before the
\* lock is taken.
Prepare(c) ==
    /\ phase = "up" /\ available
    /\ client[c] = NoRequest
    /\ \E k \in Keys \cup {NoKey}, f \in Fingerprints :
          client' = [client EXCEPT ![c] = [key |-> k, fingerprint |-> f, created |-> now]]
    /\ UNCHANGED <<now, phase, memory, worker, disk, history>>

Pending(c) == client[c].created > 0
Answered(c) == client' = [client EXCEPT ![c] = NoRequest]

SubmitUnavailable(c) ==
    /\ Pending(c)
    /\ ~available \/ phase # "up"
    /\ Answered(c)
    /\ UNCHANGED <<now, phase, memory, worker, disk, history>>

\* The key is on the ledger: whatever became of its job, no new job is made.
Repeated(r, ks) == r.key # NoKey /\ ks[r.key].job # NoJobId

NoRoom(r, ks) ==
    \/ r.key # NoKey /\ Cardinality(UsedKeys(ks)) >= MaximumIdempotencyRecords
    \/ Len(queue) >= MaximumQueuedJobs

\* Fault: the fingerprint is not compared.
MatchesKey(r, ks, js) == Repeated(r, ks) /\ js[ks[r.key].job].status # "absent"

\* The job the ledger names was made for the same request and is still there.
Matches(r, ks, js) ==
    /\ Repeated(r, ks)
    /\ ks[r.key].fingerprint = r.fingerprint
    /\ js[ks[r.key].job].status # "absent"

\* submit ends after pruneLocked: what that removed is gone from memory only.
SubmitPruned(c) ==
    /\ Pending(c)
    /\ available /\ phase = "up"
    /\ jobs' \in Prunings(jobs, client[c].created)
    /\ keys' = UnexpiredKeys(keys, client[c].created)
    /\ Answered(c)
    /\ UNCHANGED <<now, phase, available, queue, worker, disk, ticket, launches, disclaimed>>

\* 202 with the existing job.
SubmitRepeated(c) ==
    /\ SubmitPruned(c)
    /\ Matches(client[c], keys', jobs')
    /\ told' = [told EXCEPT ![keys'[client[c].key].job] = @ \cup {client[c].fingerprint}]

\* 409 for another fingerprint or for a job outside retained history, 503 when
\* the ledger and 429 when the queue is full.
SubmitDeclined(c) ==
    /\ SubmitPruned(c)
    /\ ~Matches(client[c], keys', jobs')
    /\ Repeated(client[c], keys') \/ NoRoom(client[c], keys')
    /\ UNCHANGED told

\* What submit inserts for request r under the identifier j.
WithJob(js, j) == [js EXCEPT ![j] = [status |-> "queued", completed |-> 0]]
\* Fault: the record is not given its retention.
WithExpiredKey(ks, j, r) ==
    IF r.key = NoKey THEN ks
    ELSE [ks EXCEPT ![r.key] = [job |-> j, fingerprint |-> r.fingerprint, expires |-> r.created]]

WithKey(ks, j, r) ==
    IF r.key = NoKey THEN ks
    ELSE [ks EXCEPT ![r.key] = [job |-> j, fingerprint |-> r.fingerprint,
                                expires |-> r.created + IdempotencyRetention]]

Admissible(c, ks) ==
    /\ Pending(c)
    /\ available /\ phase = "up"
    /\ ~Repeated(client[c], ks) /\ ~NoRoom(client[c], ks)

\* randomJobId never returns an identifier twice.
Issue(j, r) ==
    /\ ticket[j] = NoTicket
    /\ ticket' = [ticket EXCEPT ![j] =
          [key |-> r.key, fingerprint |-> r.fingerprint, created |-> r.created, admitted |-> now]]

SubmitAccepted(c) ==
    LET r == client[c]
        ks == UnexpiredKeys(keys, r.created)
    IN  /\ Admissible(c, ks)
        /\ \E j \in JobIds, js \in Prunings(jobs, r.created) :
              /\ Issue(j, r)
              /\ jobs' = WithJob(js, j)
              /\ keys' = WithKey(ks, j, r)
              /\ queue' = Append(queue, j)
              /\ told' = [told EXCEPT ![j] = {r.fingerprint}]
        /\ PersistSucceeds(Snapshot(jobs', keys'))
        /\ Answered(c)
        /\ UNCHANGED <<now, phase, available, worker, launches, disclaimed>>

\* The insertion is taken back in memory and the client is told that nothing
\* was launched, although the file may already hold the new job.
SubmitNotRecorded(c) ==
    LET r == client[c]
        ks == UnexpiredKeys(keys, r.created)
    IN  /\ Admissible(c, ks)
        /\ \E j \in JobIds, js \in Prunings(jobs, r.created) :
              /\ Issue(j, r)
              /\ PersistFails(Snapshot(WithJob(js, j), WithKey(ks, j, r)))
              /\ jobs' = js
              /\ keys' = ks
              /\ disclaimed' = disclaimed \cup {j}
        /\ available' = FALSE
        /\ Answered(c)
        /\ UNCHANGED <<now, phase, queue, worker, launches, told>>

-----------------------------------------------------------------------------
(* workerLoop *)

CanTake(w) ==
    /\ worker[w].pc = "waiting"
    /\ queue # <<>>

\* The job is on record as running before its command may begin.
Take(w) ==
    /\ CanTake(w)
    /\ queue' = Tail(queue)
    /\ jobs' = [jobs EXCEPT ![Head(queue)] = [status |-> "running", completed |-> 0]]
    /\ PersistSucceeds(Snapshot(jobs', keys))
    /\ worker' = [worker EXCEPT ![w] = [pc |-> "taken", job |-> Head(queue)]]
    /\ UNCHANGED <<now, phase, available, keys, client, history>>

\* Two writes: the one of the running job fails, and that of the closed job
\* may do anything; its result is ignored.
TakeNotRecorded(w) ==
    /\ CanTake(w)
    /\ queue' = Tail(queue)
    /\ jobs' = [jobs EXCEPT ![Head(queue)] = Closed("outcome_unknown", now)]
    /\ LET running == Snapshot([jobs EXCEPT ![Head(queue)] = [status |-> "running", completed |-> 0]], keys)
           unknown == Snapshot(jobs', keys)
       IN  \/ PersistFails(running)
           \/ PersistFails(unknown)
           \/ /\ file' = unknown
              /\ survivors' \in {survivors \cup {running, unknown}, {unknown}}
    /\ available' = FALSE
    /\ UNCHANGED <<now, phase, keys, worker, client, history>>

\* The provider command is started, after identity, inventory, dependency and
\* policy have been checked again.
Launch(w) ==
    /\ worker[w].pc = "taken"
    /\ launches' = [launches EXCEPT ![worker[w].job] = @ + 1]
    /\ worker' = [worker EXCEPT ![w] = [pc |-> "launched", job |-> worker[w].job]]
    /\ UNCHANGED <<now, phase, memory, client, disk, ticket, disclaimed, told>>

\* The command returned, or one of the checks refused it.
Outcome(pc) == IF pc = "launched" THEN {"succeeded", "failed"} ELSE {"failed"}

Finish(w) ==
    /\ worker[w].pc \in {"taken", "launched"}
    /\ \E s \in Outcome(worker[w].pc) :
          jobs' \in Prunings([jobs EXCEPT ![worker[w].job] = Closed(s, now)], now)
    /\ keys' = UnexpiredKeys(keys, now)
    /\ \/ /\ PersistSucceeds(Snapshot(jobs', keys'))
          /\ UNCHANGED available
       \/ /\ PersistFails(Snapshot(jobs', keys'))
          /\ available' = FALSE
    /\ worker' = [worker EXCEPT ![w] = Waiting]
    /\ UNCHANGED <<now, phase, queue, client, history>>

\* Fault: a worker does not leave its loop once a write has failed.
WorkerExitIfAvailable(w) ==
    /\ phase = "stopping" /\ available
    /\ worker[w].pc = "waiting"
    /\ queue = <<>>
    /\ worker' = [worker EXCEPT ![w] = Off]
    /\ UNCHANGED <<now, phase, memory, client, disk, history>>

WorkerExit(w) ==
    /\ phase = "stopping"
    /\ worker[w].pc = "waiting"
    /\ queue = <<>>
    /\ worker' = [worker EXCEPT ![w] = Off]
    /\ UNCHANGED <<now, phase, memory, client, disk, history>>

-----------------------------------------------------------------------------
(* stop, and the end of the process *)

InQueue == {queue[i] : i \in 1..Len(queue)}

Stop ==
    /\ phase = "up"
    /\ phase' = "stopping"
    /\ jobs' \in Prunings([j \in JobIds |-> IF j \in InQueue THEN Closed("cancelled", now)
                                                           ELSE jobs[j]], now)
    /\ keys' = UnexpiredKeys(keys, now)
    /\ queue' = <<>>
    /\ \/ /\ PersistSucceeds(Snapshot(jobs', keys'))
          /\ UNCHANGED available
       \/ /\ PersistFails(Snapshot(jobs', keys'))
          /\ available' = FALSE
    /\ disclaimed' = disclaimed \cup InQueue
    /\ UNCHANGED <<now, worker, client, ticket, launches, told>>

MemoryLost ==
    /\ phase' = "down"
    /\ available' = FALSE
    /\ jobs' = NoJobs
    /\ queue' = <<>>
    /\ keys' = NoRecords
    /\ worker' = [w \in Workers |-> Off]
    /\ client' = [c \in Clients |-> NoRequest]

\* Every worker has been joined.
Exit ==
    /\ phase = "stopping"
    /\ \A w \in Workers : worker[w] = Off
    /\ MemoryLost
    /\ UNCHANGED <<now, disk, history>>

Kill ==
    /\ phase # "down"
    /\ MemoryLost
    /\ UNCHANGED <<now, disk, history>>

PowerLoss ==
    /\ phase # "down"
    /\ MemoryLost
    /\ \E image \in survivors :
          /\ file' = image
          /\ survivors' = {image}
    /\ UNCHANGED <<now, history>>

Tick ==
    /\ now < MaxTime
    /\ now' = now + 1
    /\ UNCHANGED <<phase, memory, worker, client, disk, history>>

-----------------------------------------------------------------------------

Init ==
    /\ now = 1
    /\ phase = "down"
    /\ available = FALSE
    /\ jobs = NoJobs
    /\ queue = <<>>
    /\ keys = NoRecords
    /\ worker = [w \in Workers |-> Off]
    /\ client = [c \in Clients |-> NoRequest]
    /\ file = EmptyImage
    /\ survivors = {EmptyImage}
    /\ ticket = [j \in JobIds |-> NoTicket]
    /\ launches = [j \in JobIds |-> 0]
    /\ disclaimed = {}
    /\ told = [j \in JobIds |-> {}]

ClientNext(c) ==
    \/ Prepare(c)
    \/ SubmitUnavailable(c)
    \/ SubmitRepeated(c)
    \/ SubmitDeclined(c)
    \/ SubmitAccepted(c)
    \/ SubmitNotRecorded(c)

WorkerNext(w) ==
    \/ Take(w)
    \/ TakeNotRecorded(w)
    \/ Launch(w)
    \/ Finish(w)
    \/ WorkerExit(w)

ProcessNext ==
    \/ Load
    \/ LoadFails
    \/ Start
    \/ StartFails
    \/ Stop
    \/ Exit
    \/ Kill
    \/ PowerLoss

Next ==
    \/ \E c \in Clients : ClientNext(c)
    \/ \E w \in Workers : WorkerNext(w)
    \/ ProcessNext
    \/ Tick

Spec == Init /\ [][Next]_vars

\* The supervisor restarts the process, every provider command returns (its
\* runner has a deadline), and a thread that can enter a critical section does.
Fairness ==
    /\ WF_vars(Load \/ LoadFails)
    /\ WF_vars(Start \/ StartFails)
    /\ WF_vars(Exit)
    /\ \A w \in Workers :
          /\ WF_vars(Take(w) \/ TakeNotRecorded(w))
          /\ WF_vars(Finish(w))
          /\ WF_vars(WorkerExit(w))

FairSpec == Spec /\ Fairness

-----------------------------------------------------------------------------
(* Properties *)

\* Types of the state, and the bound of the queue that submit enforces.
TypeOK ==
    /\ now \in Nat
    /\ phase \in {"down", "loaded", "up", "stopping"}
    /\ available \in BOOLEAN
    /\ jobs \in [JobIds -> Job]
    /\ queue \in Seq(JobIds)
    /\ Len(queue) <= MaximumQueuedJobs
    /\ keys \in [Keys -> Record]
    /\ worker \in [Workers -> Thread]
    /\ client \in [Clients -> Request]
    /\ file \in Image
    /\ survivors \subseteq Image
    /\ file \in survivors
    /\ ticket \in [JobIds -> Ticket]
    /\ launches \in [JobIds -> Nat]
    /\ disclaimed \subseteq JobIds
    /\ told \in [JobIds -> SUBSET Fingerprints]

\* The command of a job is started at most once, over all restarts: "a restart
\* never replays a mutation".
LaunchedAtMostOnce == \A j \in JobIds : launches[j] <= 1

\* Two jobs of one idempotency key are both launched only when the second was
\* admitted after the retention of the first one's ledger record.
OneLaunchPerKey ==
    \A i, j \in JobIds :
        (/\ i # j
         /\ launches[i] > 0 /\ launches[j] > 0
         /\ ticket[i].key = ticket[j].key
         /\ ticket[i].key # NoKey)
        => \/ ticket[i].created + IdempotencyRetention <= ticket[j].admitted
           \/ ticket[j].created + IdempotencyRetention <= ticket[i].admitted

\* A job whose submission was refused for want of durable storage, or that was
\* reported cancelled, has never been launched and never will be.
DisclaimedNeverLaunched == \A j \in disclaimed : launches[j] = 0

\* Whatever a crash leaves on disk, a launched job is not found queued or
\* cancelled in it: the next process reports its outcome as unknown.
LaunchIsOnRecord ==
    \A j \in JobIds, image \in survivors :
        launches[j] > 0 => image.jobs[j].status \notin {"queued", "cancelled"}

\* Whatever a crash leaves on disk, the ledger still names a launched job as
\* long as its key is retained: a retried request finds it.
LedgerCoversLaunches ==
    \A j \in JobIds, image \in survivors :
        LET t == ticket[j] IN
        (/\ launches[j] > 0
         /\ t.key # NoKey
         /\ now < t.created + IdempotencyRetention)
        => image.keys[t.key].job = j

\* The queue holds the queued jobs, each once, and a running job belongs to
\* exactly one worker: none is stranded, none is taken twice.
NoStrandedJob ==
    /\ \A j \in JobIds : jobs[j].status = "queued" <=> j \in InQueue
    /\ \A i1, i2 \in 1..Len(queue) : queue[i1] = queue[i2] => i1 = i2
    /\ \A j \in JobIds : jobs[j].status = "running" <=> \E w \in Workers : worker[w].job = j
    /\ \A w1, w2 \in Workers :
          worker[w1].job = worker[w2].job /\ worker[w1].job # NoJobId => w1 = w2

\* A request answered with a job carries the fingerprint that job was made for,
\* also when the ledger has been read back after a restart.
AnswersMatchRequest == \A j \in JobIds : told[j] \subseteq {ticket[j].fingerprint}

\* While the manager accepts work, every job it shows is on disk with the same
\* status, and power loss cannot undo that.
AvailableIsDurable ==
    (available /\ phase = "up") =>
        \A j \in JobIds, image \in survivors :
            jobs[j].status # "absent" => image.jobs[j] = jobs[j]

\* A status never changes backwards while the process lives: a finished job
\* keeps its outcome until it is pruned, a pruned job never reappears.
OutcomeIsFinal ==
    [][phase # "down" /\ phase' # "down" =>
        \A j \in JobIds :
            /\ jobs[j].status \in Terminal => jobs'[j] \in {jobs[j], NoJob}
            /\ ticket[j] # NoTicket /\ jobs[j].status = "absent" => jobs'[j].status = "absent"]_vars

\* An admitted job is settled (finished, or pruned) in a live process in the
\* end, whatever writes fail and whenever the process is killed or stopped.
AdmittedIsSettled ==
    \A j \in JobIds :
        ticket[j] # NoTicket ~> phase # "down" /\ jobs[j].status \notin Active

\* stop() returns: every worker leaves its loop.
StopEnds == phase = "stopping" ~> phase = "down"

-----------------------------------------------------------------------------
(* Refinement: the manager implements AtMostOnceLaunch. *)

Promise == INSTANCE AtMostOnceLaunch WITH Retention <- IdempotencyRetention

\* Every step that issues a job, disclaims jobs or launches a command is one
\* the abstract promise allows, and no other step touches what it speaks of.
KeepsPromise == Promise!Spec
=============================================================================
