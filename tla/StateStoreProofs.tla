--------------------------- MODULE StateStoreProofs ---------------------------
(***************************************************************************)
(* Proofs about StateStore, for every limit of the queue and of a batch,   *)
(* every number of handlers and every bound.                               *)
(***************************************************************************)
EXTENDS StateStore, TLAPS

-----------------------------------------------------------------------------
(* Types *)

StoreState ==
    [kind : Kinds, mirrored : BOOLEAN, dirty : BOOLEAN, due : BOOLEAN,
     epoch : 1..MaxTime, held : BOOLEAN, stopping : BOOLEAN]

Phase == {"waiting", "building", "writing", "committing", "ended", "killed"}

WorkerState ==
    [phase : Phase, epoch : 0..MaxTime, content : 0..MaxChanges, batch : Seq(Event),
     sawStop : BOOLEAN]

Mirror == [snapshot : Snapshot, rows : Seq(Event)]

History == [recorded : 0..MaxEvents, lost : SUBSET Event, unwritten : BOOLEAN]

\* A worker holds a batch only while it flushes.
Typed ==
    /\ now \in Second..MaxTime
    /\ registry \in 0..MaxChanges
    /\ handler \in [Handlers -> 0..MaxTime]
    /\ store \in StoreState
    /\ events \in Seq(Event)
    /\ worker \in WorkerState
    /\ file \in Snapshot
    /\ database \in Mirror
    /\ failures \in 0..MaxFailures
    /\ history \in History

LEMMA Bounds ==
    /\ QueueLimit \in Nat \ {0} /\ BatchLimit \in Nat \ {0}
    /\ Second \in Nat \ {0} /\ MaxTime \in Nat \ {0} /\ Second <= MaxTime
    /\ MaxChanges \in Nat /\ MaxEvents \in Nat /\ MaxFailures \in Nat
BY StoreAssumption

\* The fields of the records.
LEMMA Fields ==
    ASSUME Typed
    PROVE  /\ store.dirty \in BOOLEAN /\ store.stopping \in BOOLEAN /\ store.held \in BOOLEAN
           /\ store.epoch \in 1..MaxTime
           /\ worker.phase \in Phase /\ worker.batch \in Seq(Event)
           /\ worker.epoch \in 0..MaxTime /\ worker.content \in 0..MaxChanges
           /\ worker.sawStop \in BOOLEAN
           /\ database.snapshot \in Snapshot /\ database.rows \in Seq(Event)
           /\ history.recorded \in 0..MaxEvents /\ history.lost \subseteq Event
           /\ history.unwritten \in BOOLEAN
           /\ Len(events) \in Nat /\ Len(worker.batch) \in Nat
BY DEF Typed, StoreState, WorkerState, Mirror, History

\* How many events the worker takes.
Taken == IF Len(events) < BatchLimit THEN Len(events) ELSE BatchLimit

\* What Take leaves of the queue.
Rest == SubSeq(events, Len(Batch) + 1, Len(events))

LEMMA BatchTyped ==
    ASSUME Typed
    PROVE  /\ Batch \in Seq(Event) /\ Len(Batch) = Taken
           /\ Taken \in 0..Len(events) /\ Taken <= BatchLimit
           /\ \A i \in 1..Taken : Batch[i] = events[i]
           /\ Rest \in Seq(Event) /\ Len(Rest) = Len(events) - Taken
           /\ \A i \in 1..(Len(events) - Taken) : Rest[i] = events[Taken + i]
<1>1. events \in Seq(Event) /\ Len(events) \in Nat
  BY DEF Typed
<1>2. Taken \in 0..Len(events) /\ Taken <= BatchLimit
  BY <1>1, Bounds DEF Taken
<1>3. /\ Batch \in Seq(Event) /\ Len(Batch) = Taken
      /\ \A i \in 1..Taken : Batch[i] = events[i]
  BY <1>1, <1>2 DEF Batch, Taken
<1>4. Len(Batch) + 1 \in 1..(Len(events) + 1)
  BY <1>1, <1>2, <1>3
<1>5. /\ Rest \in Seq(Event) /\ Len(Rest) = Len(events) - Taken
      /\ \A i \in 1..(Len(events) - Taken) : Rest[i] = events[Taken + i]
  BY <1>1, <1>2, <1>3, <1>4 DEF Rest
<1> QED BY <1>2, <1>3, <1>5

LEMMA RequeuedTyped ==
    ASSUME Typed
    PROVE  /\ Requeued \in Seq(Event) /\ Len(Requeued) = Len(worker.batch) + Len(events)
           /\ \A i \in 1..Len(worker.batch) : Requeued[i] = worker.batch[i]
           /\ \A i \in 1..Len(events) : Requeued[Len(worker.batch) + i] = events[i]
BY Fields DEF Typed, Requeued

LEMMA InsertedTyped ==
    ASSUME Typed
    PROVE  /\ Inserted \in Mirror
           /\ Inserted.rows = database.rows \o worker.batch
<1>1. Written \in Snapshot
  BY Fields DEF Written, Snapshot
<1>2. database.rows \o worker.batch \in Seq(Event)
  BY Fields
<1> QED BY <1>1, <1>2, Fields DEF Inserted, Mirror

\* What a full or an open queue becomes.
LEMMA RecordTyped ==
    ASSUME Typed, Record
    PROVE  /\ history.recorded + 1 \in Event
           /\ history'.recorded = history.recorded + 1
           /\ history'.unwritten = history.unwritten
           /\ \/ /\ Len(events) < QueueLimit
                 /\ events' = Append(events, history.recorded + 1)
                 /\ history'.lost = history.lost
              \/ /\ Len(events) >= QueueLimit
                 /\ events' = Append(Tail(events), history.recorded + 1)
                 /\ history'.lost = history.lost \cup {Head(events)}
           /\ history' \in History /\ events' \in Seq(Event)
           /\ UNCHANGED <<now, registry, handler, store, worker, file, database, failures>>
<1> DEFINE e == history.recorded + 1
           full == Len(events) >= QueueLimit
<1>1. e \in Event
  BY Fields, Bounds DEF Record, Event
<1>2. /\ events' = Append(IF full THEN Tail(events) ELSE events, e)
      /\ history' = [history EXCEPT !.recorded = e,
                                    !.lost = IF full THEN @ \cup {Head(events)} ELSE @]
  BY DEF Record
<1>3. full \in BOOLEAN /\ Len(events) \in Nat /\ events \in Seq(Event)
  BY Fields, Bounds DEF Typed
<1>4. full => Tail(events) \in Seq(Event) /\ Head(events) \in Event
  BY <1>3, Bounds
<1>5. e \in 0..MaxEvents
  BY <1>1 DEF Event
<1>6. UNCHANGED <<now, registry, handler, store, worker, file, database, failures>>
  BY DEF Record
<1> HIDE DEF e
<1>7. /\ history'.recorded = e /\ history'.unwritten = history.unwritten
      /\ history'.lost = IF full THEN history.lost \cup {Head(events)} ELSE history.lost
      /\ history' \in History
  BY <1>2, <1>3, <1>4, <1>5 DEF Typed, History
<1>8. events' \in Seq(Event)
  BY <1>1, <1>2, <1>3, <1>4
<1> QED BY <1>1, <1>2, <1>3, <1>6, <1>7, <1>8, Bounds DEF e

\* What a transaction that failed does to the queue.
LEMMA RetryTyped ==
    ASSUME Typed, NEW stop \in SeenStop, Retry(stop)
    PROVE  /\ \/ events' = Requeued /\ history'.lost = history.lost
              \/ events' = events /\ history'.lost = history.lost \cup InBatch
           /\ events' \in Seq(Event) /\ store' \in StoreState /\ history' \in History
           /\ history'.recorded = history.recorded /\ history'.unwritten = history.unwritten
           /\ store'.dirty = store.dirty /\ store'.stopping = store.stopping
           /\ store'.kind = store.kind
<1>1. GivenUp(stop) \in {{}, InBatch} /\ (Kept(stop) => GivenUp(stop) = {})
      /\ (~Kept(stop) => GivenUp(stop) = InBatch)
  BY DEF GivenUp
<1>2. InBatch \subseteq Event
  BY Fields DEF InBatch
<1>3. history' = [history EXCEPT !.lost = @ \cup GivenUp(stop)]
  BY DEF Retry
<1>4. /\ history' \in History /\ history'.lost = history.lost \cup GivenUp(stop)
      /\ history'.recorded = history.recorded /\ history'.unwritten = history.unwritten
  BY <1>1, <1>2, <1>3 DEF Typed, History
<1>5. (store.held \/ Kept(stop)) \in BOOLEAN
  OBVIOUS
<1>6. /\ store' \in StoreState
      /\ store'.dirty = store.dirty /\ store'.stopping = store.stopping
      /\ store'.kind = store.kind
  BY <1>5 DEF Retry, Typed, StoreState
<1>7. events' = IF Kept(stop) THEN Requeued ELSE events
  BY DEF Retry
<1>8. events' \in Seq(Event)
  BY <1>7, RequeuedTyped DEF Typed
<1>9. CASE Kept(stop)
  BY <1>1, <1>4, <1>6, <1>7, <1>8, <1>9
<1>10. CASE ~Kept(stop)
  BY <1>1, <1>4, <1>6, <1>7, <1>8, <1>10
<1> QED BY <1>9, <1>10

LEMMA TypedInit == Init => Typed
<1> SUFFICES ASSUME Init PROVE Typed
  OBVIOUS
<1> USE Bounds
<1>1. Nothing \in Snapshot /\ <<>> \in Seq(Event)
  BY DEF Nothing, Snapshot
<1>2. Waiting \in WorkerState
  BY DEF Waiting, WorkerState, Phase
<1>3. database \in Mirror /\ file \in Snapshot /\ history \in History /\ events \in Seq(Event)
  BY <1>1 DEF Init, Mirror, History
<1>4. now \in Second..MaxTime /\ registry \in 0..MaxChanges
      /\ handler \in [Handlers -> 0..MaxTime] /\ failures \in 0..MaxFailures
  BY DEF Init
<1>5. store \in StoreState
  BY DEF Init, StoreState
<1> QED BY <1>2, <1>3, <1>4, <1>5 DEF Init, Typed

\* The handlers and the flags.
LEMMA TypedFlags ==
    ASSUME Typed,
           \/ \E h \in Handlers : Change(h) \/ Schedule(h)
           \/ Stop \/ Interval \/ RetryDelay \/ Pass
    PROVE  Typed'
<1> USE Bounds
<1>1. ASSUME NEW h \in Handlers, Change(h) PROVE Typed'
  <2>1. PICK stamp \in {now, now - (now % Second)} : handler' = [handler EXCEPT ![h] = stamp]
    BY <1>1 DEF Change
  <2>2. now % Second \in 0..(Second - 1) /\ now \in Nat /\ now <= MaxTime /\ now >= Second
    BY DEF Typed
  <2>3. stamp \in 0..MaxTime
    BY <2>2
  <2>4. handler' \in [Handlers -> 0..MaxTime]
    BY <2>1, <2>3 DEF Typed
  <2>5. registry' \in 0..MaxChanges
    BY <1>1 DEF Change, Typed
  <2>6. UNCHANGED <<now, store, events, worker, file, database, failures, history>>
    BY <1>1 DEF Change
  <2> QED BY <2>4, <2>5, <2>6 DEF Typed
<1>2. ASSUME NEW h \in Handlers, Schedule(h) PROVE Typed'
  <2>1. handler[h] \in 1..MaxTime
    <3>1. handler[h] \in 0..MaxTime
      BY DEF Typed
    <3>2. handler[h] # 0
      BY <1>2 DEF Schedule
    <3> QED BY <3>1, <3>2
  <2>2. store' \in StoreState
    <3>1. store' = [store EXCEPT !.epoch = handler[h], !.dirty = TRUE] /\ store \in StoreState
      BY <1>2 DEF Schedule, Typed
    <3> QED BY <2>1, <3>1 DEF StoreState
  <2>3. handler' \in [Handlers -> 0..MaxTime]
    <3>1. handler' = [handler EXCEPT ![h] = 0] /\ handler \in [Handlers -> 0..MaxTime]
      BY <1>2 DEF Schedule, Typed
    <3>2. 0 \in 0..MaxTime
      OBVIOUS
    <3> QED BY <3>1, <3>2
  <2>4. UNCHANGED <<now, registry, events, worker, file, database, failures, history>>
    BY <1>2 DEF Schedule
  <2> QED BY <2>2, <2>3, <2>4 DEF Typed
<1>3. CASE Stop
  BY <1>3 DEF Stop, Typed, StoreState
<1>4. CASE Interval
  BY <1>4 DEF Interval, Typed, StoreState
<1>5. CASE RetryDelay
  BY <1>5 DEF RetryDelay, Typed, StoreState
<1>6. CASE Pass
  BY <1>6 DEF Pass, Typed
<1> QED BY <1>1, <1>2, <1>3, <1>4, <1>5, <1>6

LEMMA TakeTyped ==
    ASSUME Typed, Take
    PROVE  /\ Typed'
           /\ worker'.batch = Batch /\ events' = Rest
           /\ worker.phase = "waiting"
           /\ \/ store.dirty /\ worker'.phase = "building" /\ ~store'.dirty
              \/ worker'.phase = "committing" /\ store'.dirty = store.dirty
           /\ store'.stopping = store.stopping /\ store'.mirrored = store.mirrored
           /\ UNCHANGED <<now, registry, handler, file, database, failures, history>>
<1> USE Bounds
<1> DEFINE new == [phase |-> IF Snapshots THEN "building" ELSE "committing",
                   epoch |-> IF Snapshots THEN store.epoch ELSE 0, content |-> 0,
                   batch |-> Batch, sawStop |-> store.stopping]
<1>1. new \in WorkerState /\ new.batch = Batch
      /\ new.phase = IF Snapshots THEN "building" ELSE "committing"
  BY Fields, BatchTyped DEF WorkerState, Phase
<1>2. worker' = new /\ events' = Rest /\ worker.phase = "waiting" /\ store' = Cleared
      /\ UNCHANGED <<now, registry, handler, file, database, failures, history>>
  BY DEF Take, Rest
<1> HIDE DEF new
<1>3. /\ store' \in StoreState
      /\ store'.stopping = store.stopping /\ store'.mirrored = store.mirrored
      /\ store'.dirty = IF Snapshots THEN FALSE ELSE store.dirty
  BY <1>2 DEF Cleared, Typed, StoreState
<1>4. Rest \in Seq(Event)
  BY BatchTyped
<1>5. Typed'
  BY <1>1, <1>2, <1>3, <1>4 DEF Typed
<1>6. Snapshots => store.dirty
  BY DEF Snapshots
<1> QED BY <1>1, <1>2, <1>3, <1>5, <1>6

\* The snapshot is built and written.
LEMMA WriteTyped ==
    ASSUME Typed, End \/ Build \/ WriteFile \/ WriteFileFails
    PROVE  /\ Typed'
           /\ worker'.batch = worker.batch
           /\ history'.recorded = history.recorded /\ history'.lost = history.lost
           /\ \/ End /\ worker'.phase = "ended"
              \/ Build /\ worker'.phase = "writing" /\ worker'.content = registry
              \/ WriteFile /\ worker'.phase = "committing" /\ file'.content = worker.content
              \/ WriteFileFails /\ worker'.phase = "committing" /\ history'.unwritten
           /\ ~WriteFile => WriteFileFails \/ history' = history
           /\ UNCHANGED <<now, registry, handler, store, events, database>>
<1> USE Bounds
<1>1. worker \in WorkerState /\ registry \in 0..MaxChanges /\ history \in History
  BY DEF Typed
<1>2. CASE End
  <2>1. worker' \in WorkerState /\ worker'.batch = worker.batch /\ worker'.phase = "ended"
    BY <1>1, <1>2 DEF End, WorkerState, Phase
  <2> QED BY <1>2, <2>1 DEF End, Typed
<1>3. CASE Build
  <2>1. worker' \in WorkerState /\ worker'.batch = worker.batch /\ worker'.phase = "writing"
        /\ worker'.content = registry
    BY <1>1, <1>3 DEF Build, WorkerState, Phase
  <2> QED BY <1>3, <2>1 DEF Build, Typed
<1>4. CASE WriteFile \/ WriteFileFails
  <2>1. worker' \in WorkerState /\ worker'.batch = worker.batch /\ worker'.phase = "committing"
    BY <1>1, <1>4 DEF WriteFile, WriteFileFails, WorkerState, Phase
  <2>2. /\ history' \in History
        /\ history'.recorded = history.recorded /\ history'.lost = history.lost
        /\ WriteFileFails => history'.unwritten
    BY <1>1, <1>4 DEF WriteFile, WriteFileFails, History
  <2>3. Written \in Snapshot /\ Written.content = worker.content /\ Nothing \in Snapshot
    BY Fields DEF Written, Snapshot, Nothing
  <2>4. file' \in Snapshot /\ (WriteFile => file'.content = worker.content)
    BY <1>4, <2>3 DEF WriteFile, WriteFileFails, Typed
  <2>5. failures' \in 0..MaxFailures
    BY <1>4 DEF WriteFile, WriteFileFails, Typed
  <2>6. UNCHANGED <<now, registry, handler, store, events, database>>
    BY <1>4 DEF WriteFile, WriteFileFails
  <2>7. Typed'
    BY <2>1, <2>2, <2>4, <2>5, <2>6 DEF Typed
  <2>8. CASE WriteFile
    BY <2>1, <2>2, <2>4, <2>6, <2>7, <2>8
  <2>9. CASE WriteFileFails
    BY <2>1, <2>2, <2>4, <2>6, <2>7, <2>9
  <2> QED BY <1>4, <2>8, <2>9
<1> QED BY <1>2, <1>3, <1>4

\* A transaction, done or failed.
LEMMA TransactTyped ==
    ASSUME Typed, Transact
    PROVE  /\ Typed'
           /\ worker.phase = "committing" /\ worker' = Waiting
           /\ \/ /\ ~store.mirrored
                 /\ UNCHANGED <<events, database, history>>
              \/ /\ database'.rows = database.rows \o worker.batch
                 /\ UNCHANGED <<events, history>>
              \/ /\ database'.rows \in {database.rows, database.rows \o worker.batch}
                 /\ \/ events' = Requeued /\ history'.lost = history.lost
                    \/ events' = events /\ history'.lost = history.lost \cup InBatch
           /\ history'.recorded = history.recorded /\ history'.unwritten = history.unwritten
           /\ store'.dirty = store.dirty /\ store'.stopping = store.stopping
           /\ store'.mirrored = store.mirrored
           /\ UNCHANGED <<now, registry, handler, file>>
<1> USE Bounds
<1>1. Waiting \in WorkerState
  BY DEF Waiting, WorkerState, Phase
<1>2. worker.phase = "committing" /\ worker' = Waiting /\ UNCHANGED <<now, registry, handler, file>>
  BY DEF Transact, Commit, CommitFails, CommitAnswerLost
<1>3. failures' \in 0..MaxFailures
  BY DEF Transact, Commit, CommitFails, CommitAnswerLost, Typed
<1>4. database' \in {database, Inserted}
  BY DEF Transact, Commit, CommitFails, CommitAnswerLost
<1>5. database' \in Mirror /\ database'.rows \in {database.rows, database.rows \o worker.batch}
  BY <1>4, InsertedTyped DEF Typed
<1>6. CASE Commit
  <2>1. /\ store' \in StoreState /\ store'.dirty = store.dirty /\ store'.stopping = store.stopping
        /\ store'.mirrored = store.mirrored
    BY <1>6 DEF Commit, Typed, StoreState
  <2>2. UNCHANGED <<events, failures, history>>
    BY <1>6 DEF Commit
  <2>3. Typed'
    BY <1>1, <1>2, <1>5, <2>1, <2>2 DEF Typed
  <2>4. CASE store.mirrored
    BY <1>2, <1>6, <2>1, <2>2, <2>3, <2>4, InsertedTyped DEF Commit
  <2>5. CASE ~store.mirrored
    BY <1>2, <1>6, <2>1, <2>2, <2>3, <2>5 DEF Commit
  <2> QED BY <2>4, <2>5
<1>7. CASE CommitFails \/ CommitAnswerLost
  <2>1. PICK stop \in SeenStop : Retry(stop)
    BY <1>7 DEF CommitFails, CommitAnswerLost
  <2>2. store'.mirrored = store.mirrored
    BY <2>1 DEF Retry, Typed, StoreState
  <2>3. Typed'
    BY <1>1, <1>2, <1>3, <1>5, <2>1, RetryTyped DEF Typed
  <2> QED BY <1>2, <1>5, <2>1, <2>2, <2>3, RetryTyped
<1> QED BY <1>6, <1>7 DEF Transact

\* A kill and the next start.
LEMMA KillTyped ==
    ASSUME Typed, Kill
    PROVE  /\ Typed'
           /\ worker'.phase = "killed" /\ worker'.batch = <<>> /\ events' = <<>>
           /\ history'.recorded = history.recorded
           /\ history'.lost = history.lost \cup InBatch \cup {events[i] : i \in DOMAIN events}
           /\ handler' = [h \in Handlers |-> 0]
           /\ UNCHANGED <<now, registry, store, file, database>>
<1> USE Bounds
<1>1. worker' \in WorkerState /\ worker'.phase = "killed" /\ worker'.batch = <<>>
  <2>1. worker' = [Waiting EXCEPT !.phase = "killed"]
    BY DEF Kill
  <2>2. Waiting \in WorkerState /\ Waiting.batch = <<>>
    BY DEF Waiting, WorkerState, Phase
  <2> QED BY <2>1, <2>2 DEF WorkerState, Phase
<1>2. InBatch \cup {events[i] : i \in DOMAIN events} \subseteq Event
  BY Fields DEF InBatch, Typed
<1>3. /\ history' \in History /\ history'.recorded = history.recorded
      /\ history'.lost = history.lost \cup InBatch \cup {events[i] : i \in DOMAIN events}
  <2> DEFINE more == InBatch \cup {events[i] : i \in DOMAIN events}
  <2>1. history' = [history EXCEPT !.lost = @ \cup more] /\ history \in History
    BY DEF Kill, Typed
  <2> HIDE DEF more
  <2>2. more \subseteq Event
    BY <1>2 DEF more
  <2> QED BY <2>1, <2>2 DEF History, more
<1>4. handler' = [h \in Handlers |-> 0] /\ events' = <<>> /\ events' \in Seq(Event)
      /\ failures' \in 0..MaxFailures
      /\ UNCHANGED <<now, registry, store, file, database>>
  BY DEF Kill, Typed
<1>5. handler' \in [Handlers -> 0..MaxTime]
  BY <1>4
<1> QED BY <1>1, <1>3, <1>4, <1>5 DEF Typed

LEMMA LoadTyped ==
    ASSUME Typed, Load
    PROVE  /\ Typed'
           /\ worker.phase \in {"ended", "killed"} /\ worker' = Waiting
           /\ store'.dirty /\ ~store'.stopping /\ store'.mirrored = store.mirrored
           /\ history'.recorded = history.recorded /\ history'.lost = history.lost
           /\ UNCHANGED <<now, handler, events, file, database, failures>>
<1> USE Bounds
<1>1. worker' = Waiting /\ Waiting \in WorkerState /\ worker.phase \in {"ended", "killed"}
  BY DEF Load, Running, Waiting, WorkerState, Phase
<1>2. PICK from \in Hydrated : registry' = from.content
                               /\ history' = [history EXCEPT !.unwritten = FALSE]
  BY DEF Load
<1>3. from \in Snapshot
  BY Fields DEF Hydrated, Typed
<1>4. registry' \in 0..MaxChanges
  BY <1>2, <1>3 DEF Snapshot
<1>5. history' \in History /\ history'.recorded = history.recorded /\ history'.lost = history.lost
  BY <1>2 DEF Typed, History
<1>6. store' \in StoreState /\ store'.dirty /\ ~store'.stopping /\ store'.mirrored = store.mirrored
  <2>1. now \in 1..MaxTime
    BY DEF Typed
  <2> QED BY <2>1 DEF Load, Typed, StoreState
<1>7. UNCHANGED <<now, handler, events, file, database, failures>>
  BY DEF Load
<1> QED BY <1>1, <1>4, <1>5, <1>6, <1>7 DEF Typed

LEMMA TypedStep == Typed /\ [Next]_vars => Typed'
<1> SUFFICES ASSUME Typed, [Next]_vars PROVE Typed'
  OBVIOUS
<1>1. CASE Record
  BY <1>1, RecordTyped DEF Typed
<1>2. CASE Work
  BY <1>2, TakeTyped, WriteTyped, TransactTyped DEF Work
<1>3. CASE UNCHANGED vars
  BY <1>3 DEF vars, Typed
<1> QED BY <1>1, <1>2, <1>3, TypedFlags, KillTyped, LoadTyped DEF Next

LEMMA TypedInvariant == Spec => []Typed
BY TypedInit, TypedStep, PTL DEF Spec

-----------------------------------------------------------------------------
(* The queue.                                                              *)

InQueue == {events[i] : i \in DOMAIN events}

\* Outside a flush the worker holds no events, and without PostgreSQL there are
\* none.
Resting ==
    /\ worker.phase \in {"waiting", "ended", "killed"} => worker.batch = <<>>
    /\ ~store.mirrored => events = <<>> /\ worker.batch = <<>>

\* A step that touches no event.
Calm ==
    /\ events' = events /\ worker'.batch = worker.batch /\ database'.rows = database.rows
    /\ history'.recorded = history.recorded /\ history'.lost = history.lost
    /\ store'.mirrored = store.mirrored

\* Every step is calm, records an event, takes a batch, ends a transaction or
\* kills the process.
LEMMA Moves ==
    ASSUME Typed, Resting, [Next]_vars
    PROVE  Calm \/ Record \/ Take \/ Transact \/ Kill
<1>1. CASE \E h \in Handlers : Change(h) \/ Schedule(h)
  BY <1>1 DEF Change, Schedule, Calm, Typed, StoreState
<1>2. CASE Stop \/ Interval \/ RetryDelay \/ Pass
  BY <1>2 DEF Stop, Interval, RetryDelay, Pass, Calm, Typed, StoreState
<1>3. CASE End \/ Build \/ WriteFile \/ WriteFileFails
  BY <1>3, WriteTyped DEF Calm
<1>4. CASE Load
  <2>1. worker.batch = <<>> /\ worker'.batch = <<>>
    BY <1>4, LoadTyped DEF Resting, Waiting
  <2> QED BY <1>4, <2>1, LoadTyped DEF Calm
<1>5. CASE UNCHANGED vars
  BY <1>5 DEF vars, Calm
<1> QED BY <1>1, <1>2, <1>3, <1>4, <1>5 DEF Next, Work

LEMMA RestingStep == Typed /\ Resting /\ [Next]_vars => Resting'
<1> SUFFICES ASSUME Typed, Resting, [Next]_vars PROVE Resting'
  OBVIOUS
<1>1. CASE Record
  BY <1>1, RecordTyped DEF Resting, Record
<1>2. CASE Take
  <2>1. worker'.phase \notin {"waiting", "ended", "killed"}
    BY <1>2, TakeTyped
  <2>2. ASSUME ~store.mirrored PROVE Batch = <<>> /\ Rest = <<>>
    BY <2>2, BatchTyped DEF Resting
  <2> QED BY <1>2, <2>1, <2>2, TakeTyped DEF Resting
<1>3. CASE Transact
  <2>1. worker'.batch = <<>> /\ store'.mirrored = store.mirrored
    BY <1>3, TransactTyped DEF Waiting
  <2>2. ASSUME ~store.mirrored PROVE events' = <<>>
    <3>1. events' \in {events, Requeued}
      BY <1>3, TransactTyped
    <3>2. events = <<>> /\ worker.batch = <<>>
      BY <2>2 DEF Resting
    <3> QED BY <3>1, <3>2, RequeuedTyped DEF Requeued
  <2> QED BY <2>1, <2>2 DEF Resting
<1>4. CASE Kill
  BY <1>4, KillTyped DEF Resting
<1>5. CASE \E h \in Handlers : Change(h) \/ Schedule(h)
  BY <1>5 DEF Change, Schedule, Resting, Typed, StoreState
<1>6. CASE Stop \/ Interval \/ RetryDelay \/ Pass
  BY <1>6 DEF Stop, Interval, RetryDelay, Pass, Resting, Typed, StoreState
<1>7. CASE End \/ Build \/ WriteFile \/ WriteFileFails
  <2>1. worker'.phase = "ended" => worker.phase = "waiting"
    BY <1>7, WriteTyped DEF End
  <2>2. worker'.phase \in {"ended", "writing", "committing"}
    BY <1>7, WriteTyped
  <2> QED BY <1>7, <2>1, <2>2, WriteTyped DEF Resting
<1>8. CASE Load
  BY <1>8, LoadTyped DEF Resting, Waiting
<1>9. CASE UNCHANGED vars
  BY <1>9 DEF vars, Resting
<1> QED BY <1>1, <1>2, <1>3, <1>4, <1>5, <1>6, <1>7, <1>8, <1>9 DEF Next, Work

LEMMA RestingInit == Init => Resting
BY DEF Init, Resting, Waiting

\* The batch is within its limit, and the queue within its limit and a batch.
Small == Len(worker.batch) <= BatchLimit /\ BacklogIsBounded

LEMMA SmallStep == Typed /\ Resting /\ Small /\ [Next]_vars => Small'
<1> SUFFICES ASSUME Typed, Resting, Small, [Next]_vars PROVE Small'
  OBVIOUS
<1> USE Bounds, Fields
<1>1. CASE Calm
  BY <1>1 DEF Calm, Small, BacklogIsBounded
<1>2. CASE Record
  <2>1. worker' = worker /\ (Len(events') <= QueueLimit \/ Len(events') = Len(events))
    BY <1>2, RecordTyped DEF Typed
  <2>2. Len(events') \in Nat
    BY <1>2, RecordTyped
  <2> QED BY <2>1, <2>2 DEF Small, BacklogIsBounded
<1>3. CASE Take
  <2>1. worker'.batch = Batch /\ events' = Rest /\ worker.batch = <<>>
    BY <1>3, TakeTyped DEF Resting
  <2>2. Len(Batch) <= BatchLimit /\ Len(Batch) + Len(Rest) = Len(events)
    BY BatchTyped
  <2> QED BY <2>1, <2>2 DEF Small, BacklogIsBounded
<1>4. CASE Transact
  <2>1. worker'.batch = <<>>
    BY <1>4, TransactTyped DEF Waiting
  <2>2. events' = events \/ events' = Requeued
    BY <1>4, TransactTyped
  <2> QED BY <2>1, <2>2, RequeuedTyped DEF Small, BacklogIsBounded
<1>5. CASE Kill
  BY <1>5, KillTyped DEF Small, BacklogIsBounded
<1> QED BY <1>1, <1>2, <1>3, <1>4, <1>5, Moves

LEMMA SmallInit == Init => Small
BY Bounds DEF Init, Small, BacklogIsBounded, Waiting

-----------------------------------------------------------------------------
(* Where the events are.                                                   *)

Elems(s) == {s[i] : i \in DOMAIN s}

LEMMA Elements ==
    ASSUME NEW s \in Seq(Event)
    PROVE  /\ \A i \in DOMAIN s : s[i] \in Nat /\ s[i] \in Elems(s)
           /\ \A x \in Elems(s) : x \in Nat
<1>1. \A i \in DOMAIN s : s[i] \in Event
  OBVIOUS
<1>2. \A i \in DOMAIN s : s[i] \in Nat
  BY <1>1, Bounds DEF Event
<1> QED BY <1>2 DEF Elems

LEMMA JoinedAt ==
    ASSUME NEW s \in Seq(Event), NEW t \in Seq(Event), NEW u, u = s \o t
    PROVE  /\ u \in Seq(Event) /\ Len(u) = Len(s) + Len(t) /\ Len(s) \in Nat /\ Len(t) \in Nat
           /\ DOMAIN u = 1..(Len(s) + Len(t)) /\ DOMAIN s = 1..Len(s) /\ DOMAIN t = 1..Len(t)
           /\ \A i \in 1..Len(s) : u[i] = s[i]
           /\ \A i \in 1..Len(t) : u[Len(s) + i] = t[i]
OBVIOUS

LEMMA Joined ==
    ASSUME NEW s \in Seq(Event), NEW t \in Seq(Event), NEW u, u = s \o t
    PROVE  Elems(u) = Elems(s) \cup Elems(t)
<1>1. /\ u \in Seq(Event) /\ Len(u) = Len(s) + Len(t) /\ Len(s) \in Nat /\ Len(t) \in Nat
      /\ DOMAIN u = 1..(Len(s) + Len(t)) /\ DOMAIN s = 1..Len(s) /\ DOMAIN t = 1..Len(t)
      /\ \A i \in 1..Len(s) : u[i] = s[i]
      /\ \A i \in 1..Len(t) : u[Len(s) + i] = t[i]
  BY JoinedAt
<1>2. ASSUME NEW i \in DOMAIN u
      PROVE  (\E k \in DOMAIN s : u[i] = s[k]) \/ (\E k \in DOMAIN t : u[i] = t[k])
  <2>1. CASE i <= Len(s)
    BY <1>1, <2>1
  <2>2. CASE i > Len(s)
    <3>1. i - Len(s) \in DOMAIN t /\ i = Len(s) + (i - Len(s))
      BY <1>1, <2>2
    <3> QED BY <1>1, <3>1
  <2> QED BY <1>1, <2>1, <2>2
<1>3. ASSUME NEW i \in DOMAIN s PROVE i \in DOMAIN u /\ u[i] = s[i]
  BY <1>1
<1>4. ASSUME NEW i \in DOMAIN t PROVE Len(s) + i \in DOMAIN u /\ u[Len(s) + i] = t[i]
  BY <1>1
<1>5. ASSUME NEW x, \E i \in DOMAIN u : x = u[i]
      PROVE  (\E i \in DOMAIN s : x = s[i]) \/ (\E i \in DOMAIN t : x = t[i])
  BY <1>2, <1>5
<1>6. ASSUME NEW x, (\E i \in DOMAIN s : x = s[i]) \/ (\E i \in DOMAIN t : x = t[i])
      PROVE  \E i \in DOMAIN u : x = u[i]
  <2>1. ASSUME NEW i \in DOMAIN s, x = s[i] PROVE \E k \in DOMAIN u : x = u[k]
    BY <1>3, <2>1
  <2>2. ASSUME NEW i \in DOMAIN t, x = t[i] PROVE \E k \in DOMAIN u : x = u[k]
    BY <1>4, <2>2
  <2> QED BY <1>6, <2>1, <2>2
<1> QED BY <1>5, <1>6 DEF Elems

LEMMA TakenFrom ==
    ASSUME Typed, Resting, Take
    PROVE  InBatch = {} /\ InQueue = InBatch' \cup InQueue'
<1>1. InBatch = {} /\ worker'.batch = Batch /\ events' = Rest
  BY TakeTyped DEF Resting, InBatch
<1>2. /\ Len(events) \in Nat /\ DOMAIN events = 1..Len(events) /\ Taken \in 0..Len(events)
      /\ DOMAIN Batch = 1..Taken /\ DOMAIN Rest = 1..(Len(events) - Taken)
      /\ \A i \in 1..Taken : Batch[i] = events[i]
      /\ \A i \in 1..(Len(events) - Taken) : Rest[i] = events[Taken + i]
  BY BatchTyped DEF Typed
<1>3. ASSUME NEW i \in DOMAIN events
      PROVE  (\E k \in DOMAIN Batch : events[i] = Batch[k]) \/ (\E k \in DOMAIN Rest : events[i] = Rest[k])
  <2>1. CASE i <= Taken
    BY <1>2, <2>1
  <2>2. CASE i > Taken
    <3>1. i - Taken \in DOMAIN Rest /\ i = Taken + (i - Taken)
      BY <1>2, <2>2
    <3> QED BY <1>2, <3>1
  <2> QED BY <1>2, <2>1, <2>2
<1>4. \A k \in DOMAIN Batch : \E i \in DOMAIN events : Batch[k] = events[i]
  BY <1>2
<1>5. ASSUME NEW k \in DOMAIN Rest PROVE Taken + k \in DOMAIN events /\ Rest[k] = events[Taken + k]
  BY <1>2
<1>6. \A x : (\E i \in DOMAIN events : x = events[i]) <=>
             (\E k \in DOMAIN Batch : x = Batch[k]) \/ (\E k \in DOMAIN Rest : x = Rest[k])
  BY <1>3, <1>4, <1>5
<1> QED BY <1>1, <1>6 DEF InQueue, InBatch

LEMMA RecordedIn ==
    ASSUME Typed, Record
    PROVE  /\ InQueue \cup {history.recorded + 1} \subseteq
                  InQueue' \cup (history'.lost \ history.lost) \cup history.lost
           /\ InQueue' \subseteq InQueue \cup {history.recorded + 1}
           /\ history.lost \subseteq history'.lost
<1> DEFINE e == history.recorded + 1
<1>1. events \in Seq(Event) /\ Len(events) \in Nat /\ e \in Event
  BY Fields, RecordTyped DEF Typed
<1> HIDE DEF e
<1>2. CASE events' = Append(events, e) /\ history'.lost = history.lost
  <2>1. /\ DOMAIN events' = 1..(Len(events) + 1) /\ events'[Len(events) + 1] = e
        /\ \A i \in 1..Len(events) : events'[i] = events[i]
    BY <1>1, <1>2
  <2>2. InQueue' = InQueue \cup {e}
    BY <1>1, <2>1 DEF InQueue
  <2> QED BY <1>2, <2>2 DEF e
<1>3. CASE /\ Len(events) >= QueueLimit /\ events' = Append(Tail(events), e)
           /\ history'.lost = history.lost \cup {Head(events)}
  <2>1. Len(events) >= 1
    BY <1>1, <1>3, Bounds
  <2>2. /\ Tail(events) \in Seq(Event) /\ Len(Tail(events)) = Len(events) - 1
        /\ \A i \in 1..(Len(events) - 1) : Tail(events)[i] = events[i + 1]
        /\ Head(events) = events[1]
    BY <1>1, <2>1
  <2>3. /\ DOMAIN events' = 1..Len(events) /\ events'[Len(events)] = e
        /\ \A i \in 1..(Len(events) - 1) : events'[i] = events[i + 1]
    BY <1>1, <1>3, <2>1, <2>2
  <2>4. \A i \in DOMAIN events : i = 1 \/ i - 1 \in 1..(Len(events) - 1)
    BY <1>1
  <2>5. InQueue \subseteq InQueue' \cup {Head(events)}
    BY <1>1, <2>1, <2>2, <2>3, <2>4 DEF InQueue
  <2>6. e \in InQueue' /\ InQueue' \subseteq InQueue \cup {e}
    BY <1>1, <2>1, <2>3 DEF InQueue
  <2> QED BY <1>3, <2>5, <2>6 DEF e
<1> QED BY <1>2, <1>3, RecordTyped DEF e

\* What a transaction does with the events.
LEMMA TransactedTo ==
    ASSUME Typed, Resting, Transact
    PROVE  /\ InBatch' = {} /\ InQueue \subseteq InQueue' /\ InQueue' \subseteq InQueue \cup InBatch
           /\ InRows \subseteq InRows' /\ InRows' \subseteq InRows \cup InBatch
           /\ history.lost \subseteq history'.lost
           /\ InBatch \subseteq InQueue' \cup InRows' \cup history'.lost
<1>1. database.rows \in Seq(Event) /\ worker.batch \in Seq(Event) /\ events \in Seq(Event)
  BY Fields DEF Typed
<1>2. database'.rows = database.rows \o worker.batch => InRows' = InRows \cup InBatch
  <2> SUFFICES ASSUME database'.rows = database.rows \o worker.batch
               PROVE  InRows' = InRows \cup InBatch
    OBVIOUS
  <2>1. InRows' = Elems(database'.rows) /\ InRows = Elems(database.rows) /\ InBatch = Elems(worker.batch)
    BY DEF InRows, InBatch, Elems
  <2> QED BY <1>1, <2>1, Joined
<1>3. events' = Requeued => InQueue' = InBatch \cup InQueue
  <2> SUFFICES ASSUME events' = Requeued PROVE InQueue' = InBatch \cup InQueue
    OBVIOUS
  <2>1. events' = worker.batch \o events
    BY DEF Requeued
  <2>2. InQueue' = Elems(events') /\ InQueue = Elems(events) /\ InBatch = Elems(worker.batch)
    BY DEF InQueue, InBatch, Elems
  <2> QED BY <1>1, <2>1, <2>2, Joined
<1>4. database'.rows = database.rows => InRows' = InRows
  BY DEF InRows
<1>5. events' = events => InQueue' = InQueue
  BY DEF InQueue
<1>6. ~store.mirrored => InBatch = {}
  BY DEF Resting, InBatch
<1>7. InBatch' = {}
  BY TransactTyped DEF InBatch, Waiting
<1>8. \/ ~store.mirrored /\ events' = events /\ database' = database /\ history' = history
      \/ database'.rows = database.rows \o worker.batch /\ events' = events /\ history' = history
      \/ /\ database'.rows = database.rows \/ database'.rows = database.rows \o worker.batch
         /\ \/ events' = Requeued /\ history'.lost = history.lost
            \/ events' = events /\ history'.lost = history.lost \cup InBatch
  BY TransactTyped
<1> QED BY <1>2, <1>3, <1>4, <1>5, <1>6, <1>7, <1>8

LEMMA VanishStep == Typed /\ Resting /\ NoEventVanishes /\ [Next]_vars => NoEventVanishes'
<1> SUFFICES ASSUME Typed, Resting, NoEventVanishes, [Next]_vars PROVE NoEventVanishes'
  OBVIOUS
<1>1. 1..history.recorded \subseteq InRows \cup InBatch \cup history.lost \cup InQueue
  BY DEF NoEventVanishes, InQueue
<1>2. SUFFICES 1..history'.recorded \subseteq InRows' \cup InBatch' \cup history'.lost \cup InQueue'
  BY DEF NoEventVanishes, InQueue
<1>3. CASE Calm
  BY <1>1, <1>3 DEF Calm, InRows, InBatch, InQueue
<1>4. CASE Record
  <2>1. 1..history'.recorded = (1..history.recorded) \cup {history.recorded + 1}
    BY <1>4, Fields, RecordTyped
  <2>2. InRows' = InRows /\ InBatch' = InBatch
    BY <1>4, RecordTyped DEF InRows, InBatch
  <2> QED BY <1>1, <1>4, <2>1, <2>2, RecordedIn
<1>5. CASE Take
  <2>1. InRows' = InRows /\ history' = history
    BY <1>5, TakeTyped DEF InRows
  <2> QED BY <1>1, <1>5, <2>1, TakenFrom
<1>6. CASE Transact
  <2>1. history'.recorded = history.recorded
    BY <1>6, TransactTyped
  <2> QED BY <1>1, <1>6, <2>1, TransactedTo
<1>7. CASE Kill
  <2>1. InRows' = InRows /\ history'.recorded = history.recorded
        /\ history'.lost = history.lost \cup InBatch \cup InQueue
    BY <1>7, KillTyped DEF InRows, InQueue
  <2> QED BY <1>1, <2>1
<1> QED BY <1>3, <1>4, <1>5, <1>6, <1>7, Moves

LEMMA VanishInit == Init => NoEventVanishes
BY DEF Init, NoEventVanishes

-----------------------------------------------------------------------------
(* The order of the events.  Batch and queue are one rising sequence, and  *)
(* what of it is below a row of PostgreSQL is a row already: batches that  *)
(* are inserted a second time break no order.                              *)

Rising(s) == \A i, j \in DOMAIN s : i < j => s[i] < s[j]

InOrder ==
    /\ Rising(events) /\ Rising(worker.batch)
    /\ \A b \in InBatch, q \in InQueue : b < q
    /\ \A x \in InBatch \cup InQueue \cup InRows : x <= history.recorded
    /\ \A q \in InBatch \cup InQueue, x \in InRows : q < x => q \in InRows
    /\ EventsKeepOrder

LEMMA EventTyped ==
    ASSUME Typed
    PROVE  /\ \A x \in InBatch \cup InQueue \cup InRows : x \in Nat
           /\ \A i \in DOMAIN events : events[i] \in Nat /\ events[i] \in InQueue
           /\ \A i \in DOMAIN worker.batch : worker.batch[i] \in Nat /\ worker.batch[i] \in InBatch
           /\ \A i \in DOMAIN database.rows : database.rows[i] \in Nat /\ database.rows[i] \in InRows
           /\ history.recorded \in Nat
<1>1. events \in Seq(Event) /\ worker.batch \in Seq(Event) /\ database.rows \in Seq(Event)
  BY Fields DEF Typed
<1>2. InQueue = Elems(events) /\ InBatch = Elems(worker.batch) /\ InRows = Elems(database.rows)
  BY DEF InQueue, InBatch, InRows, Elems
<1> QED BY <1>1, <1>2, Elements, Fields

\* What Take divides rises on both sides.
LEMMA TakeRises ==
    ASSUME Typed, Resting, Take, Rising(events)
    PROVE  /\ Rising(events') /\ Rising(worker'.batch)
           /\ \A b \in InBatch', q \in InQueue' : b < q
<1>1. worker'.batch = Batch /\ events' = Rest
  BY TakeTyped
<1>2. /\ Len(events) \in Nat /\ DOMAIN events = 1..Len(events) /\ Taken \in 0..Len(events)
      /\ DOMAIN Batch = 1..Taken /\ DOMAIN Rest = 1..(Len(events) - Taken)
      /\ \A i \in 1..Taken : Batch[i] = events[i]
      /\ \A i \in 1..(Len(events) - Taken) : Rest[i] = events[Taken + i]
  BY BatchTyped DEF Typed
<1>3. Rising(Batch)
  BY <1>2 DEF Rising
<1>4. Rising(Rest)
  <2> SUFFICES ASSUME NEW i \in DOMAIN Rest, NEW j \in DOMAIN Rest, i < j PROVE Rest[i] < Rest[j]
    BY DEF Rising
  <2>1. Taken + i \in DOMAIN events /\ Taken + j \in DOMAIN events /\ Taken + i < Taken + j
    BY <1>2
  <2>2. events[Taken + i] < events[Taken + j]
    BY <2>1 DEF Rising
  <2> QED BY <1>2, <2>2
<1>5. ASSUME NEW i \in DOMAIN Batch, NEW j \in DOMAIN Rest PROVE Batch[i] < Rest[j]
  <2>1. i \in DOMAIN events /\ Taken + j \in DOMAIN events /\ i < Taken + j
    BY <1>2
  <2>2. events[i] < events[Taken + j]
    BY <2>1 DEF Rising
  <2> QED BY <1>2, <2>2
<1>6. \A b \in InBatch', q \in InQueue' : b < q
  BY <1>1, <1>5 DEF InBatch, InQueue
<1> QED BY <1>1, <1>3, <1>4, <1>6

LEMMA RequeueRises ==
    ASSUME Typed, Rising(events), Rising(worker.batch),
           \A b \in InBatch, q \in InQueue : b < q
    PROVE  Rising(Requeued)
<1> DEFINE n == Len(worker.batch)
<1>1. /\ n \in Nat /\ Len(events) \in Nat /\ DOMAIN Requeued = 1..(n + Len(events))
      /\ DOMAIN worker.batch = 1..n /\ DOMAIN events = 1..Len(events)
      /\ \A i \in 1..n : Requeued[i] = worker.batch[i]
      /\ \A i \in 1..Len(events) : Requeued[n + i] = events[i]
  BY RequeuedTyped, Fields DEF Typed
<1> HIDE DEF n
<1> SUFFICES ASSUME NEW i \in DOMAIN Requeued, NEW j \in DOMAIN Requeued, i < j
             PROVE  Requeued[i] < Requeued[j]
  BY DEF Rising
<1>2. CASE j <= n
  <2>1. i \in DOMAIN worker.batch /\ j \in DOMAIN worker.batch
    BY <1>1, <1>2
  <2>2. worker.batch[i] < worker.batch[j]
    BY <2>1 DEF Rising
  <2> QED BY <1>1, <2>1, <2>2
<1>3. CASE i <= n /\ j > n
  <2>1. i \in DOMAIN worker.batch /\ j - n \in DOMAIN events /\ j = n + (j - n)
    BY <1>1, <1>3
  <2>2. worker.batch[i] < events[j - n]
    BY <2>1, EventTyped
  <2> QED BY <1>1, <2>1, <2>2
<1>4. CASE i > n
  <2>1. /\ i - n \in DOMAIN events /\ i = n + (i - n)
        /\ j - n \in DOMAIN events /\ j = n + (j - n) /\ i - n < j - n
    BY <1>1, <1>4
  <2>2. events[i - n] < events[j - n]
    BY <2>1 DEF Rising
  <2> QED BY <1>1, <2>1, <2>2
<1> QED BY <1>1, <1>2, <1>3, <1>4

LEMMA RecordRises ==
    ASSUME Typed, Record, Rising(events), \A q \in InQueue : q <= history.recorded
    PROVE  Rising(events')
<1> DEFINE e == history.recorded + 1
<1>1. events \in Seq(Event) /\ Len(events) \in Nat /\ e \in Event
  BY Fields, RecordTyped DEF Typed
<1>2. \A i \in DOMAIN events : events[i] < e
  BY EventTyped
<1> HIDE DEF e
<1>3. CASE events' = Append(events, e)
  <2>1. /\ DOMAIN events' = 1..(Len(events) + 1) /\ events'[Len(events) + 1] = e
        /\ \A i \in 1..Len(events) : events'[i] = events[i]
        /\ DOMAIN events = 1..Len(events)
    BY <1>1, <1>3
  <2> SUFFICES ASSUME NEW i \in DOMAIN events', NEW j \in DOMAIN events', i < j
               PROVE  events'[i] < events'[j]
    BY DEF Rising
  <2>2. i \in DOMAIN events /\ (j \in DOMAIN events \/ j = Len(events) + 1)
    BY <1>1, <2>1
  <2> QED BY <1>2, <2>1, <2>2 DEF Rising
<1>4. CASE Len(events) >= QueueLimit /\ events' = Append(Tail(events), e)
  <2>1. Len(events) >= 1
    BY <1>1, <1>4, Bounds
  <2>2. /\ Tail(events) \in Seq(Event) /\ Len(Tail(events)) = Len(events) - 1
        /\ \A i \in 1..(Len(events) - 1) : Tail(events)[i] = events[i + 1]
    BY <1>1, <2>1
  <2>3. /\ DOMAIN events' = 1..Len(events) /\ events'[Len(events)] = e
        /\ \A i \in 1..(Len(events) - 1) : events'[i] = events[i + 1]
        /\ DOMAIN events = 1..Len(events)
    BY <1>1, <1>4, <2>1, <2>2
  <2> SUFFICES ASSUME NEW i \in DOMAIN events', NEW j \in DOMAIN events', i < j
               PROVE  events'[i] < events'[j]
    BY DEF Rising
  <2>4. /\ i \in 1..(Len(events) - 1) /\ i + 1 \in DOMAIN events
        /\ j = Len(events) \/ (j \in 1..(Len(events) - 1) /\ j + 1 \in DOMAIN events)
    BY <1>1, <2>1, <2>3
  <2>5. CASE j = Len(events)
    BY <1>2, <2>3, <2>4, <2>5
  <2>6. CASE j \in 1..(Len(events) - 1) /\ j + 1 \in DOMAIN events
    <3>1. events[i + 1] < events[j + 1]
      BY <2>4, <2>6, <1>1 DEF Rising
    <3> QED BY <2>3, <2>4, <2>6, <3>1
  <2> QED BY <2>4, <2>5, <2>6
<1> QED BY <1>3, <1>4, RecordTyped DEF e

\* The rows after a batch was inserted.
LEMMA RowsKeepOrder ==
    ASSUME Typed, InOrder, database'.rows = database.rows \o worker.batch,
           InRows' = InRows \cup InBatch
    PROVE  EventsKeepOrder'
<1> DEFINE n == Len(database.rows)
           rows == database'.rows
<1>1. /\ n \in Nat /\ Len(worker.batch) \in Nat /\ DOMAIN rows = 1..(n + Len(worker.batch))
      /\ DOMAIN worker.batch = 1..Len(worker.batch) /\ DOMAIN database.rows = 1..n
      /\ \A i \in 1..n : rows[i] = database.rows[i]
      /\ \A i \in 1..Len(worker.batch) : rows[n + i] = worker.batch[i]
  <2>1. database.rows \in Seq(Event) /\ worker.batch \in Seq(Event)
    BY Fields
  <2>2. PICK old \in Seq(Event), new \in Seq(Event) : old = database.rows /\ new = worker.batch
    BY <2>1
  <2>3. rows = old \o new
    BY <2>2
  <2> HIDE DEF rows, n
  <2>4. /\ Len(old) \in Nat /\ Len(new) \in Nat /\ DOMAIN rows = 1..(Len(old) + Len(new))
        /\ DOMAIN new = 1..Len(new) /\ DOMAIN old = 1..Len(old)
        /\ \A i \in 1..Len(old) : rows[i] = old[i]
        /\ \A i \in 1..Len(new) : rows[Len(old) + i] = new[i]
    BY <2>3, JoinedAt
  <2> QED BY <2>2, <2>4 DEF n
<1> HIDE DEF n, rows
<1> SUFFICES ASSUME NEW i \in DOMAIN rows, NEW e \in 1..(rows[i] - 1), e \in InRows'
             PROVE  \E j \in 1..i : rows[j] = e
  BY DEF EventsKeepOrder, rows
<1>2. rows[i] \in Nat => e < rows[i]
  OBVIOUS
<1>3. CASE i <= n
  <2>1. i \in DOMAIN database.rows /\ rows[i] = database.rows[i]
    BY <1>1, <1>3
  <2>2. database.rows[i] \in Nat /\ database.rows[i] \in InRows
    BY <2>1, EventTyped
  <2>3. e \in InRows
    BY <1>2, <2>1, <2>2 DEF InOrder
  <2>4. e \in 1..(database.rows[i] - 1)
    BY <2>1
  <2>5. \E j \in 1..i : database.rows[j] = e
    BY <2>1, <2>3, <2>4 DEF InOrder, EventsKeepOrder
  <2> QED BY <1>1, <1>3, <2>5
<1>4. CASE i > n
  <2>1. i - n \in DOMAIN worker.batch /\ i = n + (i - n) /\ rows[i] = worker.batch[i - n]
    BY <1>1, <1>4
  <2>2. worker.batch[i - n] \in Nat
    BY <2>1, EventTyped
  <2>3. CASE e \in InRows
    <3>1. PICK j \in DOMAIN database.rows : database.rows[j] = e
      BY <2>3 DEF InRows
    <3> QED BY <1>1, <1>4, <3>1
  <2>4. CASE e \in InBatch
    <3>1. PICK k \in DOMAIN worker.batch : worker.batch[k] = e
      BY <2>4 DEF InBatch
    <3>2. worker.batch[k] < worker.batch[i - n]
      BY <1>2, <2>1, <2>2, <3>1
    <3>3. ~(i - n < k)
      <4> SUFFICES ASSUME i - n < k PROVE FALSE
        OBVIOUS
      <4>1. worker.batch[i - n] < worker.batch[k]
        BY <2>1, <3>1 DEF InOrder, Rising
      <4>2. worker.batch[k] \in Nat
        BY <3>1, EventTyped
      <4> QED BY <2>2, <3>2, <4>1, <4>2
    <3>4. n + k \in 1..i /\ rows[n + k] = e
      BY <1>1, <2>1, <3>1, <3>3
    <3> QED BY <3>4
  <2> QED BY <2>3, <2>4
<1> QED BY <1>1, <1>3, <1>4

LEMMA OrderStep == Typed /\ Typed' /\ Resting /\ InOrder /\ [Next]_vars => InOrder'
<1> SUFFICES ASSUME Typed, Typed', Resting, InOrder, [Next]_vars PROVE InOrder'
  OBVIOUS
<1>1. CASE Calm
  <2>1. InBatch' = InBatch /\ InQueue' = InQueue /\ InRows' = InRows
    BY <1>1 DEF Calm, InBatch, InQueue, InRows
  <2>2. EventsKeepOrder'
    BY <1>1, <2>1 DEF Calm, InOrder, EventsKeepOrder
  <2>3. Rising(events') /\ Rising(worker'.batch) /\ history'.recorded = history.recorded
    BY <1>1 DEF Calm, InOrder
  <2> QED BY <2>1, <2>2, <2>3 DEF InOrder
<1>2. CASE Record
  <2>1. InBatch' = InBatch /\ InRows' = InRows /\ worker' = worker /\ database' = database
    BY <1>2, RecordTyped DEF InBatch, InRows
  <2>2. EventsKeepOrder'
    BY <2>1 DEF InOrder, EventsKeepOrder
  <2>3. Rising(events')
    BY <1>2, RecordRises DEF InOrder
  <2>4. InQueue' \subseteq InQueue \cup {history.recorded + 1}
        /\ history'.recorded = history.recorded + 1
    BY <1>2, RecordedIn, RecordTyped
  <2>5. \A x \in InBatch' \cup InQueue' \cup InRows' : x <= history'.recorded
    BY <2>1, <2>4, EventTyped DEF InOrder
  <2>6. \A b \in InBatch', q \in InQueue' : b < q
    BY <2>1, <2>4, EventTyped DEF InOrder
  <2>7. \A q \in InBatch' \cup InQueue', x \in InRows' : q < x => q \in InRows'
    BY <2>1, <2>4, EventTyped DEF InOrder
  <2>8. Rising(worker'.batch)
    BY <2>1 DEF InOrder
  <2> QED BY <2>2, <2>3, <2>5, <2>6, <2>7, <2>8 DEF InOrder
<1>3. CASE Take
  <2>1. InRows' = InRows /\ database' = database /\ history' = history
    BY <1>3, TakeTyped DEF InRows
  <2>2. EventsKeepOrder'
    BY <2>1 DEF InOrder, EventsKeepOrder
  <2>3. InBatch' \cup InQueue' = InQueue
    BY <1>3, TakenFrom
  <2>4. /\ Rising(events') /\ Rising(worker'.batch)
        /\ \A b \in InBatch', q \in InQueue' : b < q
    BY <1>3, TakeRises DEF InOrder
  <2> QED BY <2>1, <2>2, <2>3, <2>4 DEF InOrder
<1>4. CASE Transact
  <2>1. /\ InBatch' = {} /\ InQueue' \subseteq InQueue \cup InBatch
        /\ InRows \subseteq InRows' /\ InRows' \subseteq InRows \cup InBatch
        /\ history'.recorded = history.recorded
    BY <1>4, TransactedTo, TransactTyped
  <2>2. /\ events' = events \/ events' = Requeued
        /\ database'.rows = database.rows \/ database'.rows = database.rows \o worker.batch
        /\ worker'.batch = <<>>
    <3>1. worker'.batch = <<>>
      BY <1>4, TransactTyped DEF Waiting
    <3>2. events' = events \/ events' = Requeued
      BY <1>4, TransactTyped
    <3>3. database'.rows = database.rows \/ database'.rows = database.rows \o worker.batch
      BY <1>4, TransactTyped DEF Resting
    <3> QED BY <3>1, <3>2, <3>3
  <2>3. Rising(events') /\ Rising(worker'.batch)
    <3>1. Rising(events')
      BY <2>2, RequeueRises DEF InOrder
    <3>2. Rising(<<>>)
      BY DEF Rising
    <3> QED BY <2>2, <3>1, <3>2
  <2>4. EventsKeepOrder' /\ (InRows' = InRows \/ InRows' = InRows \cup InBatch)
    <3>1. CASE database'.rows = database.rows
      BY <3>1 DEF InOrder, EventsKeepOrder, InRows
    <3>2. CASE database'.rows = database.rows \o worker.batch
      <4>1. Elems(database'.rows) = Elems(database.rows) \cup Elems(worker.batch)
        BY <3>2, Joined, Fields
      <4>2. InRows' = InRows \cup InBatch
        BY <4>1 DEF InRows, InBatch, Elems
      <4> QED BY <3>2, <4>2, RowsKeepOrder
    <3> QED BY <2>2, <3>1, <3>2
  <2>5. \A q \in InBatch' \cup InQueue', x \in InRows' : q < x => q \in InRows'
    <3> SUFFICES ASSUME NEW q \in InQueue \cup InBatch, NEW x \in InRows', q < x PROVE q \in InRows'
      BY <2>1
    <3>1. CASE x \in InRows
      BY <2>1, <3>1 DEF InOrder
    <3>2. CASE x \in InBatch /\ InRows' = InRows \cup InBatch
      BY <3>2, EventTyped DEF InOrder
    <3> QED BY <2>4, <3>1, <3>2
  <2>6. \A x \in InBatch' \cup InQueue' \cup InRows' : x <= history'.recorded
    BY <2>1 DEF InOrder
  <2> QED BY <2>1, <2>3, <2>4, <2>5, <2>6 DEF InOrder
<1>5. CASE Kill
  <2>1. /\ InRows' = InRows /\ InBatch' = {} /\ InQueue' = {}
        /\ worker'.batch = <<>> /\ events' = <<>>
        /\ history'.recorded = history.recorded /\ database' = database
    BY <1>5, KillTyped DEF InRows, InBatch, InQueue
  <2>2. EventsKeepOrder'
    BY <2>1 DEF InOrder, EventsKeepOrder
  <2> QED BY <2>1, <2>2 DEF InOrder, Rising
<1> QED BY <1>1, <1>2, <1>3, <1>4, <1>5, Moves

LEMMA OrderInit == Init => InOrder
BY DEF Init, Waiting, InOrder, Rising, InBatch, InQueue, InRows, EventsKeepOrder

-----------------------------------------------------------------------------
(* The file.                                                               *)

\* A snapshot is due, or a handler has still to schedule one.
Pending == store.dirty \/ \E h \in Handlers : handler[h] # 0

\* Until the file has the state of the registries, somebody is to write it.
Fresh ==
    /\ store.stopping => \A h \in Handlers : handler[h] = 0
    /\ worker.phase = "ended" => store.stopping /\ ~store.dirty
    /\ worker.phase = "writing" => worker.content = registry \/ Pending
    /\ \/ worker.phase \in {"building", "writing", "killed"}
       \/ Pending
       \/ file.content = registry
       \/ history.unwritten

LEMMA FreshStep == Typed /\ Resting /\ Fresh /\ [Next]_vars => Fresh'
<1> SUFFICES ASSUME Typed, Resting, Fresh, [Next]_vars PROVE Fresh'
  OBVIOUS
<1>1. ASSUME NEW h \in Handlers, Change(h) PROVE Fresh'
  <2>1. /\ ~store.stopping /\ UNCHANGED <<store, worker, file, history>>
        /\ worker.phase \notin {"ended", "killed"}
    BY <1>1 DEF Change, Running
  <2>2. handler'[h] # 0
    <3>1. PICK stamp \in {now, now - (now % Second)} : handler' = [handler EXCEPT ![h] = stamp]
      BY <1>1 DEF Change
    <3>2. now \in Nat /\ now >= Second /\ now % Second \in 0..(Second - 1)
      BY Bounds DEF Typed
    <3>3. stamp # 0
      BY <3>2, Bounds
    <3> QED BY <3>1, <3>3 DEF Typed
  <2> QED BY <2>1, <2>2 DEF Fresh, Pending
<1>2. ASSUME NEW h \in Handlers, Schedule(h) PROVE Fresh'
  <2>1. /\ store'.dirty /\ store'.stopping = store.stopping
    BY <1>2 DEF Schedule, Typed, StoreState
  <2>2. /\ \A b \in Handlers : handler[b] = 0 => handler'[b] = 0
        /\ UNCHANGED <<registry, worker, file, history>>
        /\ worker.phase \notin {"ended", "killed"}
    BY <1>2 DEF Schedule, Running, Typed
  <2> QED BY <2>1, <2>2 DEF Fresh, Pending
<1>3. CASE Stop
  <2>1. /\ store'.dirty = store.dirty /\ \A h \in Handlers : handler[h] = 0
        /\ UNCHANGED <<registry, handler, worker, file, history>>
        /\ worker.phase \notin {"ended", "killed"}
    BY <1>3 DEF Stop, Running, Typed, StoreState
  <2> QED BY <2>1 DEF Fresh, Pending
<1>4. CASE Interval \/ RetryDelay \/ Pass \/ Record
  <2>1. store'.dirty = store.dirty /\ store'.stopping = store.stopping
        /\ UNCHANGED <<registry, handler, worker, file>>
    BY <1>4 DEF Interval, RetryDelay, Pass, Record, Typed, StoreState
  <2>2. history'.unwritten = history.unwritten
    BY <1>4, RecordTyped DEF Interval, RetryDelay, Pass
  <2> QED BY <2>1, <2>2 DEF Fresh, Pending
<1>5. CASE Take
  BY <1>5, TakeTyped DEF Fresh, Pending
<1>6. CASE End \/ Build \/ WriteFile \/ WriteFileFails
  <2>1. UNCHANGED <<registry, handler, store>>
    BY <1>6, WriteTyped
  <2>2. CASE End
    <3>1. worker.phase = "waiting" /\ store.stopping /\ ~store.dirty
          /\ file' = file /\ history' = history /\ worker'.phase = "ended"
      BY <2>2, WriteTyped DEF End, Build, WriteFile, WriteFileFails
    <3> QED BY <2>1, <3>1 DEF Fresh, Pending
  <2>3. CASE Build
    <3>1. worker'.phase = "writing" /\ worker'.content = registry
      BY <2>3, WriteTyped DEF End, Build, WriteFile, WriteFileFails
    <3> QED BY <2>1, <3>1 DEF Fresh, Pending
  <2>4. CASE WriteFile
    <3>1. worker.phase = "writing" /\ worker'.phase = "committing" /\ file'.content = worker.content
      <4>1. worker.phase = "writing"
        BY <2>4 DEF WriteFile
      <4>2. ~End /\ ~Build
        BY <4>1 DEF End, Build
      <4>3. file' = Written
        BY <2>4 DEF WriteFile
      <4> QED BY <2>4, <4>1, <4>2, <4>3, WriteTyped DEF Written
    <3> QED BY <2>1, <3>1 DEF Fresh, Pending
  <2>5. CASE WriteFileFails
    <3>1. worker.phase = "writing" /\ history'.unwritten
      BY <2>5 DEF WriteFileFails, Typed, History
    <3>2. worker'.phase = "committing"
      BY <2>5, <3>1, WriteTyped DEF End, Build
    <3> QED BY <2>1, <3>1, <3>2 DEF Fresh, Pending
  <2> QED BY <1>6, <2>2, <2>3, <2>4, <2>5
<1>7. CASE Transact
  BY <1>7, TransactTyped DEF Fresh, Pending, Waiting
<1>8. CASE Kill
  <2>1. \A h \in Handlers : handler'[h] = 0
    BY <1>8, KillTyped
  <2> QED BY <1>8, <2>1, KillTyped DEF Fresh, Pending
<1>9. CASE Load
  BY <1>9, LoadTyped DEF Fresh, Pending, Waiting
<1>10. CASE UNCHANGED vars
  BY <1>10 DEF vars, Fresh, Pending
<1> QED BY <1>1, <1>2, <1>3, <1>4, <1>5, <1>6, <1>7, <1>8, <1>9, <1>10 DEF Next, Work

LEMMA FreshInit == Init => Fresh
BY DEF Init, Fresh, Pending, Waiting

-----------------------------------------------------------------------------
(* The theorems.                                                           *)

IInv == Typed /\ Resting /\ Small /\ NoEventVanishes /\ InOrder /\ Fresh

LEMMA Invariant == Spec => []IInv
<1>1. Init => IInv
  BY TypedInit, RestingInit, SmallInit, VanishInit, OrderInit, FreshInit DEF IInv
<1>2. IInv /\ [Next]_vars => IInv'
  BY TypedStep, RestingStep, SmallStep, VanishStep, OrderStep, FreshStep DEF IInv
<1> QED BY <1>1, <1>2, PTL DEF Spec

\* Every variable has its type, for every limit of the queue and of a batch and
\* every number of handlers.
THEOREM TypeCorrect == Spec => []TypeOK
<1>1. IInv => TypeOK
  <2> SUFFICES ASSUME IInv PROVE TypeOK
    OBVIOUS
  <2>1. Typed /\ Small
    BY DEF IInv
  <2>2. Len(events) <= QueueLimit + BatchLimit /\ Len(worker.batch) <= BatchLimit
    BY <2>1, Fields, Bounds DEF Small, BacklogIsBounded
  <2>3. {file, database.snapshot, Written} \subseteq Snapshot
    BY <2>1, Fields DEF Typed, Written, Snapshot
  <2>4. /\ worker.phase \in {"waiting", "building", "writing", "committing", "ended", "killed"}
        /\ worker.batch \in Seq(Event) /\ worker.sawStop \in BOOLEAN
        /\ database.rows \in Seq(Event)
        /\ history.recorded \in 0..MaxEvents /\ history.lost \subseteq Event
        /\ history.unwritten \in BOOLEAN
    BY <2>1, Fields DEF Phase
  <2>5. store \in [kind : Kinds, mirrored : BOOLEAN, dirty : BOOLEAN, due : BOOLEAN,
                   epoch : 1..MaxTime, held : BOOLEAN, stopping : BOOLEAN]
    BY <2>1 DEF Typed, StoreState
  <2>6. /\ now \in Second..MaxTime /\ registry \in 0..MaxChanges
        /\ handler \in [Handlers -> 0..MaxTime] /\ events \in Seq(Event)
        /\ failures \in 0..MaxFailures
    BY <2>1 DEF Typed
  <2> QED BY <2>2, <2>3, <2>4, <2>5, <2>6 DEF TypeOK
<1> QED BY <1>1, Invariant, PTL

\* However often failed batches come back into the queue of recordEvent, it and
\* the batch of the worker hold at most one batch more than the limit.
THEOREM BacklogBounded == Spec => []BacklogIsBounded
<1>1. IInv => BacklogIsBounded
  BY DEF IInv, Small
<1> QED BY <1>1, Invariant, PTL

\* Between recordEvent and the transactions no event is lost but those the code
\* gives up, whatever fails, is repeated or is killed.
THEOREM NothingVanishes == Spec => []NoEventVanishes
<1>1. IInv => NoEventVanishes
  BY DEF IInv
<1> QED BY <1>1, Invariant, PTL

\* Batches that fail, come back and are inserted again keep the order in which
\* recordEvent was called.
THEOREM RowsInOrder == Spec => []EventsKeepOrder
<1>1. IInv => EventsKeepOrder
  BY DEF IInv, InOrder
<1> QED BY <1>1, Invariant, PTL

\* stop() leaves the last state of the registries in the file, however handlers
\* that schedule a snapshot and the worker that builds and writes one interleave.
THEOREM StopSaves == Spec => []CleanStopSaves
<1>1. IInv => CleanStopSaves
  BY DEF IInv, Fresh, Pending, CleanStopSaves
<1> QED BY <1>1, Invariant, PTL

=============================================================================
