----------------------------- MODULE StateStore -----------------------------
(***************************************************************************)
(* Core/ServerStateStore and Core/TraceyStateStore: a worker writes the    *)
(* latest registries to a file, and mirrors them with a queue of events    *)
(* into PostgreSQL when that is configured.  The two stores share their    *)
(* design; the Tracey store does not keep events it could not insert.      *)
(*                                                                         *)
(* The flush interval and the retry delay are two flags that time sets;    *)
(* the clock is there for the times that are stored with the snapshots.    *)
(***************************************************************************)
EXTENDS Naturals, Sequences, FiniteSets

CONSTANTS
    Kinds,         \* the stores: "server", "tracey"
    Handlers,      \* threads that change a registry
    QueueLimit,    \* events that may wait (50000)
    BatchLimit,    \* events of one transaction (512)
    Second,        \* ticks of the clock in a second, for callers that use time()
    MaxChanges,    \* bound on the changes of the registries
    MaxEvents,     \* bound on the events
    MaxTime,       \* bound on the clock
    MaxFailures    \* bound on failed writes, lost answers and kills

ASSUME StoreAssumption ==
    /\ Kinds \subseteq {"server", "tracey"}
    /\ \A bound \in {QueueLimit, BatchLimit, Second, MaxTime} : bound \in Nat \ {0}
    /\ \A bound \in {MaxChanges, MaxEvents, MaxFailures} : bound \in Nat
    /\ Second <= MaxTime

VARIABLES
    now,         \* the clock
    registry,    \* the registries in memory: how many changes they contain
    handler,     \* the time a handler took for a change it has not scheduled yet, or 0
    store,       \* which store, whether PostgreSQL is configured, flags under mutex_
    events,      \* the queue of events
    worker,      \* the flush the worker is in
    file,        \* the snapshot file: time stored and content
    database,    \* the snapshot and the rows of events in PostgreSQL
    failures,    \* failed writes, lost answers and kills so far
    history      \* how many events were recorded, which were given up, and whether
                 \* the last write of the file failed

vars == <<now, registry, handler, store, events, worker, file, database, failures, history>>

Nothing == [epoch |-> 0, content |-> 0]

Waiting == [phase |-> "waiting", epoch |-> 0, content |-> 0, batch |-> <<>>, sawStop |-> FALSE]

Init ==
    /\ now = Second
    /\ registry = 0
    /\ handler = [h \in Handlers |-> 0]
    /\ \E kind \in Kinds, mirrored \in BOOLEAN :
          store = [kind |-> kind, mirrored |-> mirrored, dirty |-> TRUE, due |-> FALSE,
                   epoch |-> Second, held |-> FALSE, stopping |-> FALSE]
    /\ events = <<>>
    /\ worker = Waiting
    /\ file = Nothing
    /\ database = [snapshot |-> Nothing, rows |-> <<>>]
    /\ failures = 0
    /\ history = [recorded |-> 0, lost |-> {}, unwritten |-> FALSE]

-----------------------------------------------------------------------------
(* Handlers.                                                               *)

Running == worker.phase \notin {"ended", "killed"}

\* A handler takes the time, in milliseconds or in seconds, and changes a
\* registry under the data mutex.
Change(h) ==
    /\ Running /\ ~store.stopping
    /\ handler[h] = 0
    /\ registry < MaxChanges
    /\ registry' = registry + 1
    /\ \E stamp \in {now, now - (now % Second)} : handler' = [handler EXCEPT ![h] = stamp]
    /\ UNCHANGED <<now, store, events, worker, file, database, failures, history>>

\* scheduleSnapshot: the interval of a snapshot that is dirty already runs on.
Schedule(h) ==
    /\ Running
    /\ handler[h] # 0
    /\ store' = [store EXCEPT !.epoch = handler[h], !.dirty = TRUE]
    /\ handler' = [handler EXCEPT ![h] = 0]
    /\ UNCHANGED <<now, registry, events, worker, file, database, failures, history>>

\* Fault: the queue has no limit.
RecordWithoutLimit ==
    /\ Running /\ ~store.stopping
    /\ store.mirrored
    /\ history.recorded < MaxEvents
    /\ events' = Append(events, history.recorded + 1)
    /\ history' = [history EXCEPT !.recorded = @ + 1]
    /\ UNCHANGED <<now, registry, handler, store, worker, file, database, failures>>

\* recordEvent: a full queue loses its oldest event.
Record ==
    /\ Running /\ ~store.stopping
    /\ store.mirrored
    /\ history.recorded < MaxEvents
    /\ LET e == history.recorded + 1
           full == Len(events) >= QueueLimit IN
       /\ events' = Append(IF full THEN Tail(events) ELSE events, e)
       /\ history' = [history EXCEPT !.recorded = e,
                                     !.lost = IF full THEN @ \cup {Head(events)} ELSE @]
    /\ UNCHANGED <<now, registry, handler, store, worker, file, database, failures>>

\* stop(), after the HTTP server and the other threads have ended.
Stop ==
    /\ Running /\ ~store.stopping
    /\ \A h \in Handlers : handler[h] = 0
    /\ store' = [store EXCEPT !.stopping = TRUE]
    /\ UNCHANGED <<now, registry, handler, events, worker, file, database, failures, history>>

-----------------------------------------------------------------------------
(* The worker.                                                             *)

\* readyToFlush.  Events that wait for a retry hold back a snapshot, too.
ReadyToFlush ==
    \/ store.stopping
    \/ events # <<>> /\ ~store.held
    \/ events = <<>> /\ store.dirty /\ store.due

\* Fault: events are inserted before a snapshot is taken.
EventsFirst == events = <<>> /\ store.dirty /\ (store.stopping \/ store.due)

Snapshots == store.dirty /\ (store.stopping \/ store.due)

Batch == SubSeq(events, 1, IF Len(events) < BatchLimit THEN Len(events) ELSE BatchLimit)

Cleared == IF Snapshots THEN [store EXCEPT !.dirty = FALSE, !.due = FALSE] ELSE store

Take ==
    /\ worker.phase = "waiting"
    /\ ReadyToFlush
    /\ ~(store.stopping /\ ~store.dirty /\ events = <<>>)
    /\ worker' = [phase |-> IF Snapshots THEN "building" ELSE "committing",
                  epoch |-> IF Snapshots THEN store.epoch ELSE 0, content |-> 0,
                  batch |-> Batch, sawStop |-> store.stopping]
    /\ events' = SubSeq(events, Len(Batch) + 1, Len(events))
    /\ store' = Cleared
    /\ UNCHANGED <<now, registry, handler, file, database, failures, history>>

End ==
    /\ worker.phase = "waiting"
    /\ store.stopping /\ ~store.dirty /\ events = <<>>
    /\ worker' = [worker EXCEPT !.phase = "ended"]
    /\ UNCHANGED <<now, registry, handler, store, events, file, database, failures, history>>

\* snapshotBuilder, under the data mutex.
Build ==
    /\ worker.phase = "building"
    /\ worker' = [worker EXCEPT !.phase = "writing", !.content = registry]
    /\ UNCHANGED <<now, registry, handler, store, events, file, database, failures, history>>

Written == [epoch |-> worker.epoch, content |-> worker.content]

\* Fault: the flag is cleared when the snapshot has been written.
WriteFileThenClear ==
    /\ worker.phase = "writing"
    /\ file' = Written
    /\ store' = [store EXCEPT !.dirty = FALSE, !.due = FALSE]
    /\ worker' = [worker EXCEPT !.phase = "committing"]
    /\ history' = [history EXCEPT !.unwritten = FALSE]
    /\ UNCHANGED <<now, registry, handler, events, database, failures>>

WriteFile ==
    /\ worker.phase = "writing"
    /\ file' = Written
    /\ worker' = [worker EXCEPT !.phase = "committing"]
    /\ history' = [history EXCEPT !.unwritten = FALSE]
    /\ UNCHANGED <<now, registry, handler, store, events, database, failures>>

\* The rename is repeated after the old file was removed; the result of the
\* write is not looked at.
WriteFileFails ==
    /\ worker.phase = "writing"
    /\ failures < MaxFailures
    /\ file' \in {file, Nothing}
    /\ worker' = [worker EXCEPT !.phase = "committing"]
    /\ failures' = failures + 1
    /\ history' = [history EXCEPT !.unwritten = TRUE]
    /\ UNCHANGED <<now, registry, handler, store, events, database>>

\* The transaction: the snapshot replaces the old one, the events are added.
Inserted ==
    [snapshot |-> IF worker.epoch = 0 THEN database.snapshot ELSE Written,
     rows |-> database.rows \o worker.batch]

Commit ==
    /\ worker.phase = "committing"
    /\ IF store.mirrored
       THEN database' = Inserted /\ store' = [store EXCEPT !.held = FALSE]
       ELSE UNCHANGED <<database, store>>
    /\ worker' = Waiting
    /\ UNCHANGED <<now, registry, handler, events, file, failures, history>>

\* Fault: events go back behind those that were recorded meanwhile.
BackInQueue == events \o worker.batch

Requeued == worker.batch \o events

InBatch == {worker.batch[i] : i \in DOMAIN worker.batch}

\* Fault: events are kept at a shutdown, too.
AlwaysKept(stop) == store.kind = "server" /\ worker.batch # <<>>

\* What becomes of the batch of a failed transaction: the server's events are
\* kept for a retry, at a shutdown they are dropped.
Kept(stop) == store.kind = "server" /\ worker.batch # <<>> /\ ~stop

GivenUp(stop) == IF Kept(stop) THEN {} ELSE InBatch

\* Fault: the batch was moved out of the queue and does not come back.
RetryForgetsBatch(stop) ==
    /\ UNCHANGED events
    /\ store' = [store EXCEPT !.held = @ \/ Kept(stop)]
    /\ history' = [history EXCEPT !.lost = @ \cup GivenUp(stop)]

Retry(stop) ==
    /\ events' = IF Kept(stop) THEN Requeued ELSE events
    /\ store' = [store EXCEPT !.held = @ \/ Kept(stop)]
    /\ history' = [history EXCEPT !.lost = @ \cup GivenUp(stop)]

\* stopRequested_ is read without the mutex: the worker sees the present value
\* or the one it saw when it took the batch.
SeenStop == {store.stopping, worker.sawStop}

\* PostgreSQL is not reached, was tried less than 30 seconds ago, or refuses.
CommitFails ==
    /\ worker.phase = "committing"
    /\ store.mirrored
    /\ \E stop \in SeenStop : Retry(stop)
    /\ worker' = Waiting
    /\ UNCHANGED <<now, registry, handler, file, database, failures>>

\* The transaction is committed and the answer is lost.
CommitAnswerLost ==
    /\ worker.phase = "committing"
    /\ store.mirrored
    /\ failures < MaxFailures
    /\ database' = Inserted
    /\ \E stop \in SeenStop : Retry(stop)
    /\ worker' = Waiting
    /\ failures' = failures + 1
    /\ UNCHANGED <<now, registry, handler, file>>

-----------------------------------------------------------------------------
(* The process and its surroundings.                                       *)

\* The flush interval has passed since the snapshot became dirty.
Interval ==
    /\ Running
    /\ store.dirty /\ ~store.due
    /\ store' = [store EXCEPT !.due = TRUE]
    /\ UNCHANGED <<now, registry, handler, events, worker, file, database, failures, history>>

\* The delay before events are tried again has passed.
RetryDelay ==
    /\ Running
    /\ store.held
    /\ store' = [store EXCEPT !.held = FALSE]
    /\ UNCHANGED <<now, registry, handler, events, worker, file, database, failures, history>>

Kill ==
    /\ Running
    /\ failures < MaxFailures
    /\ worker' = [Waiting EXCEPT !.phase = "killed"]
    /\ handler' = [h \in Handlers |-> 0]
    /\ events' = <<>>
    /\ failures' = failures + 1
    /\ history' = [history EXCEPT !.lost = @ \cup InBatch \cup {events[i] : i \in DOMAIN events}]
    /\ UNCHANGED <<now, registry, store, file, database>>

\* loadSnapshot: of two snapshots the one with the later time; PostgreSQL may
\* be out of reach.
Hydrated ==
    {file} \cup (IF store.mirrored /\ database.snapshot.epoch >= file.epoch /\ database.snapshot # Nothing
                 THEN {database.snapshot} ELSE {})

\* The next start: it hydrates the registries and schedules a snapshot.
Load ==
    /\ ~Running
    /\ \E from \in Hydrated :
          /\ registry' = from.content
          /\ history' = [history EXCEPT !.unwritten = FALSE]
    /\ store' = [store EXCEPT !.dirty = TRUE, !.due = FALSE, !.epoch = now,
                              !.held = FALSE, !.stopping = FALSE]
    /\ worker' = Waiting
    /\ UNCHANGED <<now, handler, events, file, database, failures>>

Pass ==
    /\ now < MaxTime
    /\ now' = now + 1
    /\ UNCHANGED <<registry, handler, store, events, worker, file, database, failures, history>>

Transact == Commit \/ CommitFails \/ CommitAnswerLost

Work == Take \/ End \/ Build \/ WriteFile \/ WriteFileFails \/ Transact

Next ==
    \/ \E h \in Handlers : Change(h) \/ Schedule(h)
    \/ Record
    \/ Stop
    \/ Work
    \/ Interval
    \/ RetryDelay
    \/ Kill
    \/ Load
    \/ Pass

Spec == Init /\ [][Next]_vars

\* A handler returns, the worker runs, and time passes.  PostgreSQL may stay
\* out of reach for ever.
FairSpec ==
    /\ Spec
    /\ \A h \in Handlers : WF_vars(Schedule(h))
    /\ WF_vars(Work)
    /\ WF_vars(Interval)
    /\ WF_vars(RetryDelay)

-----------------------------------------------------------------------------
(* Properties.                                                             *)

Snapshot == [epoch : 0..MaxTime, content : 0..MaxChanges]

Event == 1..MaxEvents

\* Every variable has its type.  The queue may exceed its limit by one batch,
\* which the worker puts back without looking at the limit.
TypeOK ==
    /\ now \in Second..MaxTime
    /\ registry \in 0..MaxChanges
    /\ handler \in [Handlers -> 0..MaxTime]
    /\ store \in [kind : Kinds, mirrored : BOOLEAN, dirty : BOOLEAN, due : BOOLEAN,
                  epoch : 1..MaxTime, held : BOOLEAN, stopping : BOOLEAN]
    /\ events \in Seq(Event) /\ Len(events) <= QueueLimit + BatchLimit
    /\ worker.phase \in {"waiting", "building", "writing", "committing", "ended", "killed"}
    /\ worker.batch \in Seq(Event) /\ Len(worker.batch) <= BatchLimit
    /\ worker.sawStop \in BOOLEAN
    /\ {file, database.snapshot, Written} \subseteq Snapshot
    /\ database.rows \in Seq(Event)
    /\ failures \in 0..MaxFailures
    /\ history.recorded \in 0..MaxEvents /\ history.lost \subseteq Event
    /\ history.unwritten \in BOOLEAN

\* However often batches come back, and whatever is recorded meanwhile, the
\* events kept for PostgreSQL are at most one batch more than the queue may hold.
BacklogIsBounded == Len(events) + Len(worker.batch) <= QueueLimit + BatchLimit

InRows == {database.rows[i] : i \in DOMAIN database.rows}

\* An event a handler recorded is in PostgreSQL, in the queue or in the batch
\* of the worker until the code gives it up: when the queue is full, when
\* PostgreSQL fails during a shutdown, and in the Tracey store when it fails.
NoEventVanishes ==
    1..history.recorded \subseteq
        InRows \cup InBatch \cup history.lost \cup {events[i] : i \in DOMAIN events}

\* Events enter PostgreSQL in the order in which they were recorded, whatever
\* transactions fail and are repeated meanwhile; a repeat of a batch whose
\* answer was lost inserts events again, never an event before an earlier one.
EventsKeepOrder ==
    \A i \in DOMAIN database.rows :
        \A e \in 1..(database.rows[i] - 1) :
            e \in InRows => \E j \in 1..i : database.rows[j] = e

\* A store that was stopped left the last state of the registries in the file,
\* unless the last write of the file failed: a change that is scheduled while
\* the worker builds or writes a snapshot is in that snapshot or in the next.
CleanStopSaves ==
    worker.phase = "ended" /\ ~history.unwritten => file.content = registry

\* A change of the registries comes to be in the file, although PostgreSQL may
\* be out of reach for ever and events are tried again and again; a write of
\* the file that fails is not repeated before the next change.
ChangesReachDisk ==
    \A c \in 1..MaxChanges :
        registry >= c ~> file.content >= c \/ history.unwritten \/ worker.phase = "killed"

\* stop() returns: it joins the worker, which leaves its loop although
\* PostgreSQL may be out of reach.
StopEnds ==
    store.stopping ~> worker.phase \in {"ended", "killed"}
=============================================================================
